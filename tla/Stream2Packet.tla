--------------------------- MODULE Stream2Packet ---------------------------
(* CORBA::detail::IIOPStream2Packet with the loop of TcpConnection::canRead *)
(* that feeds it: bytes of a stream of GIOP messages arrive in arbitrary    *)
(* portions and come out as one packet per message.                         *)
(*                                                                          *)
(* Bytes are identified by their position in the stream; data[j] is the     *)
(* byte at stream position received - size + j.                             *)
EXTENDS Integers

CONSTANTS
    Count,              \* messages in the stream
    Start,              \* Start[k]: position at which message k begins
    receiveBufferSize

HeaderSize == 12        \* sizeof a GIOP header, the shortest message
ProbeSize == 16         \* what message() and scanGIOPHeader() insist on

ASSUME StreamAssumption ==
    /\ Count \in Nat
    /\ Start \in [0 .. Count -> Nat] /\ Start[0] = 0
    /\ \A k \in 0 .. Count - 1 : Start[k + 1] - Start[k] >= HeaderSize
    /\ receiveBufferSize \in Nat \ {0}

VARIABLES
    size, reserved, offset, messageSize,
    scanning,    \* canRead() is in its loop over message()
    \* history: bytes read from the socket, packets handed to recv(), and the
    \* positions at which the last packet began and ended
    received, delivered, packet

fields == <<size, reserved, offset, messageSize>>
vars == <<fields, scanning, received, delivered, packet>>

Length(k) == Start[k + 1] - Start[k]
Position == received - size + offset        \* stream position of data[offset]

Init == /\ size = 0 /\ reserved = 0 /\ offset = 0 /\ messageSize = 0
        /\ scanning = FALSE
        /\ received = 0 /\ delivered = 0 /\ packet = <<0, 0>>

\* buffer(): at least receiveBufferSize free bytes behind size.
Enlarged == IF reserved - size < receiveBufferSize
            THEN reserved + receiveBufferSize ELSE reserved

\* recv(fd, buffer(), length()) and received(n).  The order in which the two
\* arguments are evaluated is unspecified: length() may be taken before
\* buffer() enlarges, and then be too small or 0, never too large.
Receive(n) ==
    /\ ~scanning
    /\ \E space \in {Enlarged - size, reserved - size} : n <= space
    /\ received + n <= Start[Count]
    /\ reserved' = Enlarged
    /\ size' = size + n
    /\ received' = received + n
    /\ scanning' = (n > 0)
    /\ UNCHANGED <<offset, messageSize, delivered, packet>>

\* <Operator>_<Slip> is <Operator> with a plausible slip; the properties are
\* shown to notice them.
Probed_NeedsMore ==
    IF messageSize = 0 /\ size - offset > ProbeSize
       /\ delivered < Count /\ Position = Start[delivered]
    THEN Length(delivered) ELSE messageSize

\* messageSize after message() has looked for a header at offset; what it reads
\* there is the length of a message only when a message begins there.
Probed == IF messageSize = 0 /\ size - offset >= ProbeSize
             /\ delivered < Count /\ Position = Start[delivered]
          THEN Length(delivered) ELSE messageSize

MessageComplete_SizeKept ==
    /\ scanning /\ Probed # 0 /\ size - offset >= Probed
    /\ packet' = <<Position, Position + Probed>> /\ delivered' = delivered + 1
    /\ messageSize' = Probed
    /\ IF offset + Probed = size
       THEN offset' = 0 /\ size' = 0
       ELSE offset' = offset + Probed /\ size' = size
    /\ UNCHANGED <<reserved, scanning, received>>

\* message() returns a packet and is called again.
MessageComplete ==
    /\ scanning
    /\ Probed # 0 /\ size - offset >= Probed
    /\ packet' = <<Position, Position + Probed>>
    /\ delivered' = delivered + 1
    /\ messageSize' = 0
    /\ IF offset + Probed = size
       THEN offset' = 0 /\ size' = 0
       ELSE offset' = offset + Probed /\ size' = size
    /\ UNCHANGED <<reserved, scanning, received>>

MessageIncomplete_OffsetKept ==
    /\ scanning /\ Probed # 0 /\ size - offset < Probed
    /\ messageSize' = Probed
    /\ size' = size - offset /\ offset' = offset
    /\ scanning' = FALSE
    /\ UNCHANGED <<reserved, received, delivered, packet>>

\* The header is known but not all of the message: what is left moves to the
\* front, message() returns an empty span and the loop ends.
MessageIncomplete ==
    /\ scanning
    /\ Probed # 0 /\ size - offset < Probed
    /\ messageSize' = Probed
    /\ size' = size - offset /\ offset' = 0
    /\ scanning' = FALSE
    /\ UNCHANGED <<reserved, received, delivered, packet>>

\* Too little for a header: an empty span, and nothing is moved.
NoHeader ==
    /\ scanning
    /\ Probed = 0
    /\ scanning' = FALSE
    /\ UNCHANGED <<fields, received, delivered, packet>>

Next == \/ \E n \in 0 .. Start[Count] : Receive(n)
        \/ MessageComplete \/ MessageIncomplete \/ NoHeader

\* The loop of canRead() runs to its end and the peer sends its whole stream.
Fairness == /\ WF_vars(MessageComplete \/ MessageIncomplete \/ NoHeader)
            /\ WF_vars(\E n \in 1 .. Start[Count] : Receive(n))

Spec == Init /\ [][Next]_vars /\ Fairness

-----------------------------------------------------------------------------
TypeOK ==
    /\ size \in Nat /\ reserved \in Nat /\ offset \in Nat /\ messageSize \in Nat
    /\ scanning \in BOOLEAN
    /\ received \in 0 .. Start[Count] /\ delivered \in 0 .. Count
    /\ packet \in Nat \X Nat

\* All accesses stay inside the allocation, and the unsigned differences
\* reserved - size and size - offset never wrap.
InBounds == offset <= size /\ size <= reserved

\* The last packet is exactly the last message, however the bytes arrived.
PacketIsMessage ==
    delivered > 0 => packet = <<Start[delivered - 1], Start[delivered]>>

\* When canRead() returns, every message of which all bytes and at least
\* ProbeSize bytes of the stream have arrived has been handed on.
NothingDeliverableLeft ==
    ~scanning /\ delivered < Count =>
        \/ received < Start[delivered + 1]
        \/ received < Start[delivered] + ProbeSize

\* Space in front of offset is wasted between reads only when less than a
\* header follows, so that a message in progress is always at the front.
WasteOnlyBeforeShortTail ==
    ~scanning /\ offset > 0 =>
        messageSize = 0 /\ size - offset \in 1 .. ProbeSize - 1

\* The whole stream comes out as packets when its last message is long enough.
AllDelivered ==
    (Count > 0 /\ Length(Count - 1) >= ProbeSize) => <>(delivered = Count)

=============================================================================
