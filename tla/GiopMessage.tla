----------------------------- MODULE GiopMessage -----------------------------
(* One GIOP message on its way through GIOPEncoder/CDREncoder at one ORB    *)
(* and GIOPDecoder/CDRDecoder at another: where every octet is put, how the *)
(* headers, the BI_DIR_IIOP service context and references are laid out     *)
(* and patched, and what the receiver reads back.                           *)
(*                                                                          *)
(* A step writes or reads one field.  A number is a value with one symbolic *)
(* octet per place, <<value, place>>; a mix of octets is garbage.  A string *)
(* or blob is known by its length.                                          *)
EXTENDS Integers, SequencesExt

CONSTANTS
    Minors,       \* GIOP 1.0, 1.1 or 1.2
    Orders,       \* byte order of the sender; the receiver is little endian
    KeyLengths, OperationLengths, HostLengths,
    Arguments     \* sequences of fields a stub or a skeleton writes

Numbers == {"octet", "ushort", "ulong", "ulonglong", "float", "double"}
Fields == (Numbers \cup {"string", "blob", "floats", "doubles", "object"}) \X Nat

ASSUME ConstantsAssumption ==
    /\ Minors \subseteq 0 .. 2 /\ Orders \subseteq {"little", "big"}
    /\ KeyLengths \cup OperationLengths \cup HostLengths \subseteq Nat
    /\ Arguments \subseteq Seq(Fields)

Native == "little"
Kinds == {"request", "reply", "locateReply"}
MessageType == [request |-> 0, reply |-> 1, locateReply |-> 4]

VARIABLES
    msg,                        \* what the sender wants to say
    todo,                       \* fields still to be written, or to be read
    offset, data, sizeStack,    \* CDREncoder
    mark,                       \* writeServiceContext()'s local of that name
    reading, m_offset, endian,  \* CDRDecoder
    enclosing,                  \* readEncapsulation()'s nextOffset, lastEndian
    got                         \* the values read so far

encoder == <<offset, data, sizeStack, mark>>
decoder == <<m_offset, endian, enclosing, got>>
vars == <<msg, todo, encoder, reading, decoder>>

-----------------------------------------------------------------------------
\* align2, align4, align8: to the next multiple of width.
Align(at, width) == IF at % width = 0 THEN at ELSE (at - (at % width)) + width

Width(type) == CASE type = "octet" -> 1 [] type = "ushort" -> 2
                 [] type = "ulong" -> 4 [] type = "float" -> 4
                 [] type \in {"ulonglong", "double"} -> 8 [] OTHER -> 0

Zero == <<0, 0>>
Octet(value, place) == IF value = 0 THEN Zero ELSE <<value, place>>

\* The octets of a number in the given byte order, and of text.
Number(value, width, order) ==
    [i \in 1 .. width |->
        Octet(value, IF order = "little" THEN i - 1 ELSE width - i)]
Text(length) == [i \in 1 .. length |-> <<1000 + length, i>>]

\* reserve(): the vector grows with zeros.
Reserve(size) ==
    IF Len(data) >= size THEN data
    ELSE data \o [i \in 1 .. size - Len(data) |-> Zero]

\* The octets written at a position, into memory that has been reserved.
Put(at, octets, memory) ==
    [i \in 1 .. Len(memory) |->
        IF i - at \in 1 .. Len(octets) THEN octets[i - at] ELSE memory[i]]
Write(at, octets) ==
    /\ data' = Put(at, octets, Reserve(at + Len(octets)))
    /\ offset' = at + Len(octets)

-----------------------------------------------------------------------------
(* What the encoder writes: sequences of <<type, value>>.                   *)

Encapsulation(id, fields) ==
    << <<"ulong", id>>, <<"reserveSize", 0>>, <<"endian", 0>> >>
    \o fields \o << <<"fillInSize", 0>> >>

\* writeServiceContext()
ServiceContext(m) ==
    << <<"mark", 0>>, <<"ulong", 0>> >>
    \o (IF m.biDir
        THEN Encapsulation(5, << <<"ulong", 1>>, <<"string", m.host>>, <<"ushort", 2809>> >>)
        ELSE <<>>)
    \o << <<"patch", IF m.biDir THEN 1 ELSE 0>> >>

\* writeReference(): class name, one profile with address, key and, from
\* IIOP 1.1 on, one component.
Reference(m) ==
    << <<"string", 9>>, <<"ulong", 1>> >>
    \o Encapsulation(0,
         << <<"octet", 1>>, <<"octet", m.minor>>, <<"string", m.host>>,
           <<"ushort", 2810>>, <<"blob", m.key>> >>
         \o IF m.minor = 0 THEN <<>>
            ELSE << <<"ulong", 1>> >> \o Encapsulation(0, << <<"ulong", 1295069952>> >>))

\* writeObject() of a null pointer
Nil == << <<"string", 0>>, <<"ulong", 0>> >>

encodeRequest(m) ==
    << <<"offset", 10>> >>
    \o (IF m.minor <= 1 THEN ServiceContext(m) ELSE <<>>)
    \o << <<"ulong", m.id>>,
         <<"octet", IF ~m.response THEN 0 ELSE IF m.minor <= 1 THEN 1 ELSE 3>>,
         <<"skip", 3>> >>
    \o (IF m.minor <= 1 THEN <<>> ELSE << <<"ushort", 0>> >>)
    \o << <<"blob", m.key>>, <<"string", m.operation>> >>
    \o (IF m.minor <= 1 THEN << <<"ulong", 0>> >>
        ELSE ServiceContext(m) \o << <<"align8", 0>> >>)

setReplyHeader(m) ==
    << <<"offset", 10>> >>
    \o (IF m.minor < 2 THEN << <<"ulong", 0>> >> ELSE <<>>)
    \o << <<"ulong", m.id>>, <<"ulong", m.status>> >>
    \o (IF m.minor >= 2 THEN << <<"ulong", 0>> >> ELSE <<>>)

encodeLocateReply(m) == << <<"offset", 10>>, <<"ulong", m.id>>, <<"ulong", m.status>> >>

GIOPHeader == << <<"header", 0>> >>

\* _twowayCall(), onewayCall(): header, arguments, GIOP header.
Request(m) == encodeRequest(m) \o m.args \o GIOPHeader

\* socketRcvd(): the results are written behind the room for the header of a
\* reply, then the headers.
Reply_ShortSkip(m) ==
    << <<"offset", 20>> >> \o m.args \o GIOPHeader \o setReplyHeader(m)
Reply(m) ==
    << <<"offset", 24>> >> \o m.args \o GIOPHeader \o setReplyHeader(m)

LocateReply(m) == encodeLocateReply(m) \o GIOPHeader

Message(m) == CASE m.kind = "request" -> Request(m)
                [] m.kind = "reply" -> Reply(m)
                [] m.kind = "locateReply" -> LocateReply(m)

-----------------------------------------------------------------------------
(* The encoder's steps.                                                     *)

Next1(type) == todo # <<>> /\ ~reading /\ Head(todo)[1] = type
Value == Head(todo)[2]
Encode == todo' = Tail(todo) /\ UNCHANGED <<msg, reading, decoder>>

WriteNumber(type) ==
    /\ Next1(type) /\ Encode
    /\ Write(Align(offset, Width(type)), Number(Value, Width(type), msg.order))
    /\ UNCHANGED <<sizeStack, mark>>

writeEndian ==
    /\ Next1("endian") /\ Encode
    /\ Write(offset, Number(IF msg.order = "big" THEN 0 ELSE 1, 1, msg.order))
    /\ UNCHANGED <<sizeStack, mark>>

writeBlob ==
    /\ Next1("blob") /\ Encode
    /\ Write(Align(offset, 4), Number(Value, 4, msg.order) \o Text(Value))
    /\ UNCHANGED <<sizeStack, mark>>

writeString ==
    /\ Next1("string") /\ Encode
    /\ Write(Align(offset, 4),
             Number(Value + 1, 4, msg.order) \o Text(Value) \o <<Zero>>)
    /\ UNCHANGED <<sizeStack, mark>>

\* sequence<float> and sequence<double>: the length, then the elements.
Elements(length, width) ==
    [k \in 1 .. length * width |->
        Number(2001 + ((k - 1) \div width), width, msg.order)[1 + ((k - 1) % width)]]
LengthAligned(width) ==
    LET length == Number(Value, 4, msg.order)
        after  == Align(offset, 4) + 4
    IN  length \o [i \in 1 .. Align(after, width) - after |-> Zero]

writeSequence(type) ==
    LET width == IF type = "floats" THEN 4 ELSE 8 IN
    /\ Next1(type) /\ Encode
    /\ Write(Align(offset, 4), LengthAligned(width) \o Elements(Value, width))
    /\ UNCHANGED <<sizeStack, mark>>

\* The size of what follows is not known yet.
reserveSize ==
    /\ Next1("reserveSize") /\ Encode
    /\ offset' = Align(offset, 4) + 4
    /\ sizeStack' = Append(sizeStack, offset')
    /\ UNCHANGED <<data, mark>>

fillInSize_Incl ==
    LET saved == Last(sizeStack) IN
    /\ Next1("fillInSize") /\ Encode
    /\ data' = Put(saved - 4, Number(offset - saved + 4, 4, msg.order), Reserve(saved))
    /\ sizeStack' = Front(sizeStack)
    /\ UNCHANGED <<offset, mark>>

fillInSize_Short ==
    LET saved == Last(sizeStack) IN
    /\ Next1("fillInSize") /\ Encode
    /\ data' = Put(saved - 4, Number(offset - saved - 4, 4, msg.order), Reserve(saved))
    /\ sizeStack' = Front(sizeStack)
    /\ UNCHANGED <<offset, mark>>

fillInSize ==
    LET saved == Last(sizeStack) IN
    /\ Next1("fillInSize") /\ Encode
    /\ data' = Put(saved - 4, Number(offset - saved, 4, msg.order), Reserve(saved))
    /\ sizeStack' = Front(sizeStack)
    /\ UNCHANGED <<offset, mark>>

\* The fields of a reference follow, or those of a null pointer.
writeObject ==
    /\ Next1("object")
    /\ todo' = (IF Value = 0 THEN Nil ELSE Reference(msg)) \o Tail(todo)
    /\ UNCHANGED <<msg, encoder, reading, decoder>>

\* Positions that are set or skipped without writing.
Move ==
    /\ \/ Next1("offset") /\ offset' = Value
       \/ Next1("skip")   /\ offset' = offset + Value
       \/ Next1("align8") /\ offset' = Align(offset, 8)
    /\ Encode /\ UNCHANGED <<data, sizeStack, mark>>

\* writeServiceContext() remembers where the number of contexts goes...
Mark ==
    /\ Next1("mark") /\ Encode
    /\ mark' = offset
    /\ UNCHANGED <<offset, data, sizeStack>>

\* ...and writes it when it is known.
Patch ==
    /\ Next1("patch") /\ Encode
    /\ LET at == Align(mark, 4) IN
       data' = Put(at, Number(Value, 4, msg.order), Reserve(at + 4))
    /\ UNCHANGED <<offset, sizeStack, mark>>

Magic == << <<71, 0>>, <<73, 0>>, <<79, 0>>, <<80, 0>> >>
Header(size) ==
    Magic \o Number(1, 1, msg.order) \o Number(msg.minor, 1, msg.order)
    \o Number(IF msg.order = "big" THEN 0 ELSE 1, 1, msg.order)
    \o Number(MessageType[msg.kind], 1, msg.order)
    \o Number(size, 4, msg.order)

setGIOPHeader_Unreserved ==
    /\ Next1("header") /\ Encode
    /\ data' = Put(0, Header(offset - 12), Reserve(12))
    /\ UNCHANGED <<offset, sizeStack, mark>>

\* Octets that were only skipped are reserved here.
setGIOPHeader ==
    /\ Next1("header") /\ Encode
    /\ data' = Put(0, Header(offset - 12), Reserve(offset))
    /\ UNCHANGED <<offset, sizeStack, mark>>

-----------------------------------------------------------------------------
(* What the decoder reads: sequences of <<type, kept>>; a value that is     *)
(* kept goes into got.                                                      *)
Read(type) == <<type, TRUE>>
Skipped(type) == <<type, FALSE>>
Garbage == -1

scanGIOPHeader ==
    << <<"to", 4>>, Skipped("octet"), Read("octet"), Skipped("flags"),
      Read("octet"), Skipped("ulong"), Skipped("message")>>

scanRequestHeader(minor) ==
    (IF minor <= 1 THEN <<Skipped("contexts")>> ELSE <<>>)
    \o <<Read("ulong"), Read("octet"), <<"skip", 3>> >>
    \o (IF minor <= 1 THEN <<>> ELSE <<Read("ushort")>>)
    \o <<Read("blob"), Read("string")>>
    \o (IF minor <= 1 THEN <<Skipped("ulong")>>
        ELSE <<Skipped("contexts"), <<"align8", 0>> >>)

scanReplyHeader(minor) ==
    (IF minor <= 1 THEN <<Skipped("contexts")>> ELSE <<>>)
    \o <<Read("ulong"), Read("ulong")>>
    \o (IF minor >= 2 THEN <<Skipped("contexts")>> ELSE <<>>)

\* The fields that follow the GIOP header, by the version and the type that it
\* gave, and by the IDL.  LOCATE_REPLY has no decoder: its two fields are read
\* to look at the layout.
Rest(minor, type) ==
    LET body == [i \in 1 .. Len(msg.args) |-> Read(msg.args[i][1])] IN
    CASE type = MessageType["request"] -> scanRequestHeader(minor) \o body
      [] type = MessageType["reply"]   -> scanReplyHeader(minor) \o body
      [] OTHER -> <<Read("ulong"), Read("ulong")>>

\* readReference(); the encapsulation of the profile ends with "leave", which
\* also skips the components.
Profile == <<Skipped("octet"), Skipped("octet"), Read("string"), Read("ushort"),
             Read("blob")>>
ListenPoint == <<Skipped("ulong"), Read("string"), Read("ushort")>>
Enter(content) == <<Skipped("ulong"), Skipped("enter"), Skipped("flags")>> \o content
                  \o <<Skipped("leave")>>

-----------------------------------------------------------------------------
Reads(type) == todo # <<>> /\ reading /\ Head(todo)[1] = type
Kept == Head(todo)[2]
Decode == UNCHANGED <<msg, encoder, reading>>

\* The value of width octets behind position at, in the byte order of the
\* message: swapped octets of something else than an integer are garbage.
NumberAt(at, width) ==
    LET values == {data[at + i][1] : i \in 1 .. width} IN
    IF at + width <= Len(data)
       /\ \E v \in values : SubSeq(data, at + 1, at + width) = Number(v, width, endian)
    THEN data[at + 1][1] ELSE Garbage
TextAt(at, length) ==
    IF at + length <= Len(data) /\ SubSeq(data, at + 1, at + length) = Text(length)
    THEN length ELSE Garbage

\* Keep what was read and go on at position to.
Take(value, to) ==
    /\ got' = IF Kept THEN Append(got, value) ELSE got
    /\ m_offset' = to

Go == todo' = Tail(todo)

ReadNumber(type) ==
    LET at == Align(m_offset, Width(type))
        value == NumberAt(at, Width(type))
        swapsFloat == type \in {"float", "double"} /\ endian # Native
    IN
    /\ Reads(type) /\ Decode /\ Go
    /\ Take(IF swapsFloat THEN Garbage ELSE value, at + Width(type))
    /\ UNCHANGED <<endian, enclosing>>

\* setLittleEndian(flags & 1)
ReadFlags ==
    /\ Reads("flags") /\ Decode /\ Go
    /\ endian' = IF data[m_offset + 1] = Zero THEN "big" ELSE "little"
    /\ m_offset' = m_offset + 1
    /\ UNCHANGED <<enclosing, got>>

readBlob ==
    LET at == Align(m_offset, 4)
        length == NumberAt(at, 4)
    IN
    /\ Reads("blob") /\ Decode /\ Go
    /\ Take(TextAt(at + 4, length), at + 4 + length)
    /\ UNCHANGED <<endian, enclosing>>

readString ==
    LET at == Align(m_offset, 4)
        length == NumberAt(at, 4)
    IN
    /\ Reads("string") /\ Decode /\ Go
    /\ Take(TextAt(at + 4, length - 1), at + 4 + length)
    /\ UNCHANGED <<endian, enclosing>>

\* The elements are taken as they are, in the receiver's byte order.
readSequence(type) ==
    LET width  == IF type = "floats" THEN 4 ELSE 8
        at     == Align(m_offset, 4)
        length == NumberAt(at, 4)
        start  == Align(at + 4, width)
        intact == \A i \in 1 .. length :
                      /\ endian = Native
                      /\ NumberAt(start + width * (i - 1), width) = 2000 + i
    IN
    /\ Reads(type) /\ Decode /\ Go
    /\ Take(IF intact THEN length ELSE Garbage, start + width * length)
    /\ UNCHANGED <<endian, enclosing>>

\* socketRcvd() goes on as the header says.
scanMessage ==
    /\ Reads("message") /\ Decode
    /\ todo' = Rest(got[1], got[2])
    /\ UNCHANGED decoder

\* The tag is 0 for null, which this encoder does not write (Nil), or the length
\* of a type id; with any other tag readObject() throws, and none is written.
readObject ==
    LET at == Align(m_offset, 4) IN
    /\ Reads("object") /\ Decode
    /\ IF NumberAt(at, 4) = 0
       THEN Go /\ Take(0, at + 4) /\ UNCHANGED <<endian, enclosing>>
       ELSE /\ todo' = <<Read("string"), Skipped("profiles")>> \o Tail(todo)
            /\ UNCHANGED decoder

\* readReference(), readServiceContext(): as many encapsulations as the message
\* says, with the same content.
Repeat(type, each) ==
    LET at == Align(m_offset, 4) IN
    /\ Reads(type) /\ Decode
    /\ todo' = << <<each, NumberAt(at, 4)>> >> \o Tail(todo)
    /\ m_offset' = at + 4
    /\ UNCHANGED <<endian, enclosing, got>>
readReference == Repeat("profiles", "profile")
readServiceContext == Repeat("contexts", "context")

\* Once through their loops, or out of them.
Loop(each, content) ==
    /\ Reads(each) /\ Decode
    /\ todo' = (IF Kept > 0 THEN Enter(content) \o << <<each, Kept - 1>> >> ELSE <<>>)
               \o Tail(todo)
    /\ UNCHANGED decoder

EnterEncapsulation ==
    LET at == Align(m_offset, 4) IN
    /\ Reads("enter") /\ Decode /\ Go
    /\ m_offset' = at + 4
    /\ enclosing' = Append(enclosing, <<at + 4 + NumberAt(at, 4), endian>>)
    /\ UNCHANGED <<endian, got>>

LeaveEncapsulation_NoPop ==
    /\ Reads("leave") /\ Decode /\ Go
    /\ m_offset' = Last(enclosing)[1] /\ endian' = Last(enclosing)[2]
    /\ UNCHANGED <<enclosing, got>>

LeaveEncapsulation ==
    /\ Reads("leave") /\ Decode /\ Go
    /\ m_offset' = Last(enclosing)[1] /\ endian' = Last(enclosing)[2]
    /\ enclosing' = Front(enclosing)
    /\ UNCHANGED got

\* setOffset(), skip() and align8() of the decoder.
MoveOn ==
    /\ \/ Reads("to")     /\ m_offset' = Kept
       \/ Reads("skip")   /\ m_offset' = m_offset + Kept
       \/ Reads("align8") /\ m_offset' = Align(m_offset, 8)
    /\ Decode /\ Go /\ UNCHANGED <<endian, enclosing, got>>

-----------------------------------------------------------------------------
\* The buffer is sent and arrives as one packet.
Deliver ==
    /\ todo = <<>> /\ ~reading
    /\ reading' = TRUE /\ todo' = scanGIOPHeader
    /\ UNCHANGED <<msg, encoder, decoder>>

Messages ==
    [kind : Kinds, minor : Minors, order : Orders, id : {600}, response : BOOLEAN,
     status : {2}, biDir : BOOLEAN, key : KeyLengths, operation : OperationLengths,
     host : HostLengths, args : Arguments]

Least(S) == CHOOSE x \in S : \A y \in S : x <= y

\* Fields that the kind of the message does not have are fixed.
Relevant(m) ==
    /\ m.kind = "locateReply" => m.args = <<>> /\ m.key = Least(KeyLengths)
    /\ m.kind # "request" =>
         ~m.response /\ ~m.biDir /\ m.operation = Least(OperationLengths)

Init ==
    /\ msg \in {m \in Messages : Relevant(m)}
    /\ todo = Message(msg)
    /\ offset = 0 /\ data = <<>> /\ sizeStack = <<>> /\ mark = 0
    /\ reading = FALSE /\ m_offset = 0 /\ endian = "big" /\ enclosing = <<>>
    /\ got = <<>>

EncoderStep ==
    \/ \E type \in Numbers : WriteNumber(type)
    \/ writeEndian \/ writeBlob \/ writeString
    \/ \E type \in {"floats", "doubles"} : writeSequence(type)
    \/ writeObject \/ reserveSize \/ fillInSize \/ Move \/ Mark \/ Patch \/ setGIOPHeader

DecoderStep ==
    \/ \E type \in Numbers : ReadNumber(type)
    \/ ReadFlags \/ readBlob \/ readString
    \/ \E type \in {"floats", "doubles"} : readSequence(type)
    \/ scanMessage \/ readObject \/ readReference
    \/ readServiceContext \/ Loop("profile", Profile) \/ Loop("context", ListenPoint)
    \/ EnterEncapsulation \/ LeaveEncapsulation \/ MoveOn

Next == EncoderStep \/ Deliver \/ DecoderStep
Spec == Init /\ [][Next]_vars

-----------------------------------------------------------------------------
(* Properties.                                                              *)

\* What the receiver should know in the end, in the order it is read.  A
\* floating point value survives only where both sides have the same byte
\* order: readFloat(), readDouble() and the sequences garble it otherwise.
Survives(field) ==
    \/ msg.order = Native
    \/ field[1] \in {"floats", "doubles"} /\ field[2] = 0
    \/ field[1] \notin {"float", "double", "floats", "doubles"}
Argument(field) ==
    IF field = <<"object", 1>> THEN <<9, msg.host, 2810, msg.key>>
    ELSE <<IF Survives(field) THEN field[2] ELSE Garbage>>
Contexts == IF msg.biDir THEN <<msg.host, 2809>> ELSE <<>>
Flag == IF ~msg.response THEN 0 ELSE IF msg.minor = 2 THEN 3 ELSE 1
Meaning ==
    <<msg.minor, MessageType[msg.kind]>>
    \o (IF msg.kind # "request" THEN <<msg.id, msg.status>>
        ELSE IF msg.minor = 2
        THEN <<msg.id, Flag, 0, msg.key, msg.operation>> \o Contexts
        ELSE Contexts \o <<msg.id, Flag, msg.key, msg.operation>>)
    \o FlattenSeq([i \in 1 .. Len(msg.args) |-> Argument(msg.args[i])])

\* The variables have their types; encapsulations nest two deep where they are
\* written, and the reader is in one of them at a time.
TypeOK ==
    /\ msg \in Messages /\ reading \in BOOLEAN
    /\ offset \in Nat /\ mark \in Nat /\ m_offset \in Nat
    /\ endian \in {"little", "big"}
    /\ Len(sizeStack) <= 2 /\ \A i \in DOMAIN sizeStack : sizeStack[i] \in Nat
    /\ Len(enclosing) <= 1

\* The size in the GIOP header is what IIOPStream2Packet needs to cut exactly
\* this message out of the stream: setGIOPHeader() covers skipped octets and
\* padding, and the reply header written after it does not change the length.
FrameMatchesHeader ==
    reading => /\ SubSeq(data, 1, 4) = Magic
               /\ Len(data) = data[9][1] + 12

\* For every version, kind, byte order, length and choice of arguments the
\* receiver reads what the sender wrote: encoder and decoder agree on the
\* alignment, on where the service contexts are and on the header's room.
RoundTrip == reading /\ todo = <<>> => got = Meaning

\* The decoder never runs over the end of a message of this encoder.
ReadsInside == reading => m_offset <= Len(data)

\* The fields read in an encapsulation end inside it, so that going on at
\* nextOffset never goes back over something that was read already.
EncapsulationHolds ==
    reading /\ todo # <<>> /\ Head(todo)[1] = "leave" =>
        m_offset <= Last(enclosing)[1]

=============================================================================
