------------------------ MODULE Stream2PacketProofs ------------------------
(* Framing is exact for every stream, every receive buffer size and every   *)
(* way the bytes arrive.  The invariant that makes it inductive: offset is  *)
(* always at the beginning of the next message, messageSize is 0 or the     *)
(* length of that message, and nothing empty is left behind offset.         *)
EXTENDS Stream2Packet, TLAPS

AtMessage == Position = Start[delivered]
SizeIsLength == messageSize # 0 => delivered < Count /\ messageSize = Length(delivered)
EmptyIsReset == offset = size => size = 0

IInv == /\ TypeOK
        /\ InBounds
        /\ PacketIsMessage
        /\ NothingDeliverableLeft
        /\ WasteOnlyBeforeShortTail
        /\ AtMessage
        /\ SizeIsLength
        /\ EmptyIsReset

-----------------------------------------------------------------------------
LEMMA StartFacts ==
    /\ Count \in Nat /\ receiveBufferSize \in Nat \ {0}
    /\ \A k \in 0 .. Count : Start[k] \in Nat
    /\ Start[0] = 0
    /\ \A k \in 0 .. Count - 1 : Start[k + 1] - Start[k] >= 12
  BY StreamAssumption DEF HeaderSize

\* What message() finds is the length of the message at offset, and it finds
\* it whenever enough bytes are there.
LEMMA ProbeFindsLength ==
    ASSUME TypeOK, InBounds, AtMessage, SizeIsLength
    PROVE  /\ Probed \in Nat
           /\ Probed # 0 => delivered < Count /\ Probed = Length(delivered) /\ Probed >= 12
           /\ Probed = 0 => messageSize = 0 /\ (delivered < Count => size - offset < 16)
<1>1. delivered < Count => /\ Length(delivered) \in Nat /\ Length(delivered) >= 12
                           /\ delivered \in 0 .. Count - 1
  BY StartFacts DEF TypeOK, Length
<1> QED
  BY <1>1 DEF Probed, TypeOK, SizeIsLength, AtMessage, ProbeSize

LEMMA InitIInv == Init => IInv
<1> SUFFICES ASSUME Init PROVE IInv
  OBVIOUS
<1>1. Start[Count] \in Nat
  BY StartFacts
<1>2. TypeOK /\ InBounds
  <2>1. /\ size \in Nat /\ reserved \in Nat /\ offset \in Nat /\ messageSize \in Nat
        /\ received \in 0 .. Start[Count] /\ delivered \in 0 .. Count /\ InBounds
    BY <1>1, StartFacts DEF Init, InBounds
  <2>2. scanning \in BOOLEAN
    BY DEF Init
  <2>3. packet \in Nat \X Nat
    BY DEF Init
  <2> QED
    BY <2>1, <2>2, <2>3 DEF TypeOK
<1>3. NothingDeliverableLeft
  BY StartFacts DEF Init, NothingDeliverableLeft, ProbeSize
<1>4. AtMessage /\ SizeIsLength /\ EmptyIsReset
  BY StartFacts DEF Init, AtMessage, Position, SizeIsLength, EmptyIsReset
<1> QED
  BY <1>2, <1>3, <1>4 DEF Init, IInv, PacketIsMessage, WasteOnlyBeforeShortTail

LEMMA ReceiveIInv ==
    ASSUME IInv, NEW n \in 0 .. Start[Count], Receive(n)
    PROVE  IInv'
<1>1. /\ size \in Nat /\ reserved \in Nat /\ offset \in Nat /\ received \in Nat
      /\ n \in Nat /\ offset <= size /\ size <= reserved /\ Start[Count] \in Nat
  BY StartFacts DEF IInv, TypeOK, InBounds
<1>2. Enlarged \in Nat /\ Enlarged >= reserved
  BY <1>1, StartFacts DEF Enlarged
<1>3. size + n <= Enlarged
  BY <1>1, <1>2 DEF Receive
<1>4. TypeOK' /\ InBounds'
  BY <1>1, <1>2, <1>3 DEF Receive, IInv, TypeOK, InBounds
<1>5. AtMessage' /\ SizeIsLength' /\ PacketIsMessage' /\ EmptyIsReset'
  BY <1>1 DEF Receive, IInv, AtMessage, Position, SizeIsLength, Length,
              PacketIsMessage, EmptyIsReset
<1>6. NothingDeliverableLeft' /\ WasteOnlyBeforeShortTail'
  <2>1. CASE n > 0
    BY <2>1 DEF Receive, NothingDeliverableLeft, WasteOnlyBeforeShortTail
  <2>2. CASE n = 0
    <3>1. size' = size /\ received' = received /\ scanning = FALSE
      BY <1>1, <2>2 DEF Receive, IInv, TypeOK
    <3> QED
      BY <3>1 DEF Receive, IInv, NothingDeliverableLeft, WasteOnlyBeforeShortTail
  <2> QED
    BY <1>1, <2>1, <2>2
<1> QED
  BY <1>4, <1>5, <1>6 DEF IInv

LEMMA CompleteIInv == IInv /\ MessageComplete => IInv'
<1> SUFFICES ASSUME IInv, MessageComplete PROVE IInv'
  OBVIOUS
<1>1. /\ size \in Nat /\ reserved \in Nat /\ offset \in Nat /\ received \in Nat
      /\ delivered \in Nat /\ offset <= size /\ size <= reserved
  BY DEF IInv, TypeOK, InBounds
<1>2. delivered < Count /\ Probed \in Nat /\ Probed = Length(delivered) /\ Probed >= 12
  BY ProbeFindsLength DEF MessageComplete, IInv
<1>3. delivered + 1 \in 0 .. Count /\ Start[delivered] \in Nat
      /\ Start[delivered + 1] \in Nat
      /\ Start[delivered + 1] = Start[delivered] + Probed
  BY <1>1, <1>2, StartFacts DEF Length
<1>4. Position = Start[delivered]
  BY DEF IInv, AtMessage
<1>5. TypeOK' /\ InBounds'
  BY <1>1, <1>2, <1>3, <1>4 DEF MessageComplete, IInv, TypeOK, InBounds
<1>6. PacketIsMessage'
  BY <1>1, <1>3, <1>4 DEF MessageComplete, PacketIsMessage
<1>7. AtMessage' /\ SizeIsLength' /\ EmptyIsReset'
  BY <1>1, <1>2, <1>3, <1>4
  DEF MessageComplete, AtMessage, Position, SizeIsLength, EmptyIsReset
<1>8. NothingDeliverableLeft' /\ WasteOnlyBeforeShortTail'
  BY DEF MessageComplete, NothingDeliverableLeft, WasteOnlyBeforeShortTail
<1> QED
  BY <1>5, <1>6, <1>7, <1>8 DEF IInv

\* The end of the loop: what is left cannot be delivered.
LEMMA LoopEndIInv == IInv /\ (MessageIncomplete \/ NoHeader) => IInv'
<1> SUFFICES ASSUME IInv, MessageIncomplete \/ NoHeader PROVE IInv'
  OBVIOUS
<1>1. /\ size \in Nat /\ reserved \in Nat /\ offset \in Nat /\ received \in Nat
      /\ delivered \in Nat /\ messageSize \in Nat
      /\ offset <= size /\ size <= reserved
  BY DEF IInv, TypeOK, InBounds
<1>2. received - size + offset = Start[delivered]
  BY DEF IInv, AtMessage, Position
<1>3. CASE MessageIncomplete
  <2>1. delivered < Count /\ Probed \in Nat /\ Probed = Length(delivered)
    BY <1>3, ProbeFindsLength DEF MessageIncomplete, IInv
  <2>2. Start[delivered] \in Nat /\ Start[delivered + 1] \in Nat
    BY <1>1, <2>1, StartFacts
  <2>3. TypeOK' /\ InBounds'
    <3>1. /\ size' = size - offset /\ offset' = 0 /\ messageSize' = Probed
          /\ scanning' = FALSE /\ UNCHANGED <<reserved, received, delivered, packet>>
      BY <1>3 DEF MessageIncomplete
    <3>2. /\ size' \in Nat /\ offset' \in Nat /\ messageSize' \in Nat
          /\ reserved' \in Nat /\ InBounds'
      BY <1>1, <2>1, <3>1 DEF InBounds
    <3>3. scanning' \in BOOLEAN
      BY <3>1
    <3>4. /\ received' \in 0 .. Start[Count] /\ delivered' \in 0 .. Count
          /\ packet' \in Nat \X Nat
      BY <3>1 DEF IInv, TypeOK
    <3> QED
      BY <3>2, <3>3, <3>4 DEF TypeOK
  <2>4. AtMessage' /\ SizeIsLength' /\ EmptyIsReset' /\ PacketIsMessage'
    BY <1>1, <1>2, <1>3, <2>1
    DEF MessageIncomplete, IInv, AtMessage, Position, SizeIsLength, Length,
        EmptyIsReset, PacketIsMessage
  <2>5. NothingDeliverableLeft' /\ WasteOnlyBeforeShortTail'
    BY <1>1, <1>2, <1>3, <2>1, <2>2
    DEF MessageIncomplete, NothingDeliverableLeft, WasteOnlyBeforeShortTail, Length
  <2> QED
    BY <2>3, <2>4, <2>5 DEF IInv
<1>4. CASE NoHeader
  <2>1. messageSize = 0 /\ (delivered < Count => size - offset < 16)
    BY <1>4, ProbeFindsLength DEF NoHeader, IInv
  <2>2. TypeOK' /\ InBounds'
    BY <1>4 DEF NoHeader, IInv, TypeOK, InBounds, fields
  <2>3. AtMessage' /\ SizeIsLength' /\ EmptyIsReset' /\ PacketIsMessage'
    BY <1>4 DEF NoHeader, IInv, AtMessage, Position, SizeIsLength, Length,
                EmptyIsReset, PacketIsMessage, fields
  <2>4. NothingDeliverableLeft'
    BY <1>1, <1>2, <1>4, <2>1, StartFacts
    DEF NoHeader, NothingDeliverableLeft, ProbeSize, fields
  <2>5. delivered = Count => size = offset
    BY <1>1, <1>2, StartFacts DEF IInv, TypeOK
  <2>6. offset > 0 => size # offset
    BY <1>1 DEF IInv, EmptyIsReset
  <2>7. ASSUME offset > 0
        PROVE  messageSize = 0 /\ size - offset \in 1 .. ProbeSize - 1
    <3>1. size - offset >= 1
      BY <1>1, <2>6, <2>7
    <3>2. delivered \in 0 .. Count /\ Count \in Nat
      BY StartFacts DEF IInv, TypeOK
    <3>3. size - offset < 16
      BY <1>1, <2>1, <2>5, <3>1, <3>2
    <3> QED
      BY <1>1, <2>1, <3>1, <3>3 DEF ProbeSize
  <2>8. WasteOnlyBeforeShortTail'
    BY <1>4, <2>7 DEF NoHeader, WasteOnlyBeforeShortTail, fields
  <2> QED
    BY <2>2, <2>3, <2>4, <2>8 DEF IInv
<1> QED
  BY <1>3, <1>4

LEMMA StutterIInv == IInv /\ UNCHANGED vars => IInv'
  BY DEF vars, fields, IInv, TypeOK, InBounds, PacketIsMessage, NothingDeliverableLeft,
         WasteOnlyBeforeShortTail, AtMessage, Position, SizeIsLength, Length, EmptyIsReset

-----------------------------------------------------------------------------
THEOREM Invariance == Spec => []IInv
<1>1. IInv /\ [Next]_vars => IInv'
  BY ReceiveIInv, CompleteIInv, LoopEndIInv, StutterIInv DEF Next
<1> QED
  BY InitIInv, <1>1, PTL DEF Spec

\* Every index and size stays in range for every stream and buffer size.
THEOREM BufferIsSafe == Spec => [](TypeOK /\ InBounds)
<1>1. IInv => TypeOK /\ InBounds
  BY DEF IInv
<1> QED
  BY Invariance, <1>1, PTL

\* message() returns the messages of the stream, whole, unmerged and in order.
THEOREM FramingIsExact == Spec => []PacketIsMessage
<1>1. IInv => PacketIsMessage
  BY DEF IInv
<1> QED
  BY Invariance, <1>1, PTL

\* canRead() never returns with a message it could have handed on.
THEOREM NothingIsWithheld == Spec => []NothingDeliverableLeft
<1>1. IInv => NothingDeliverableLeft
  BY DEF IInv
<1> QED
  BY Invariance, <1>1, PTL

\* A message in progress is always at the front of the buffer: between reads
\* message() leaves unused space before offset only when less than a header
\* follows it.
THEOREM FrontIsUsed == Spec => []WasteOnlyBeforeShortTail
<1>1. IInv => WasteOnlyBeforeShortTail
  BY DEF IInv
<1> QED
  BY <1>1, Invariance, PTL
=============================================================================
