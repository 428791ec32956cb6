-------------------------- MODULE GiopMessageProofs --------------------------
(* The frame of a GIOP message: what the encoder writes is as long as the    *)
(* GIOP header in it says, whatever the arguments are.                       *)
(*                                                                           *)
(* The fields still to be written, or to be read, are the work ahead.  Goes  *)
(* says how a field may move encoder or decoder from one place of a message  *)
(* to the next: how deep it is in encapsulations, and how far it has come    *)
(* with a count of service contexts or with the headers.  That the work      *)
(* ahead Leads from where they are to the end is the invariant; it holds for *)
(* a message because its parts lead from one to the next.                    *)
EXTENDS GiopMessage, TLAPS

Octets == Nat \X Nat

-----------------------------------------------------------------------------
(* Where the encoder or the decoder is in a message.                         *)

\* Nothing done; at 10, before the first number; a count of contexts is to be
\* written at mark; it is there, but not final; anything else before the GIOP
\* header; behind the GIOP header; and where a reply's header goes on.
Markers == {"start", "near", "marked", "open", "none", "framed", "10", "16", "20", "24"}
States == [depth : 0 .. 2, marker : Markers, kind : Kinds]
At(depth, marker, kind) == [depth |-> depth, marker |-> marker, kind |-> kind]

Plain == Numbers \cup {"string", "blob", "floats", "doubles", "endian", "skip", "align8",
                       "to", "flags"}
Expanding == {"object", "message", "profiles", "contexts", "profile", "context"}
WrittenTypes == Plain \cup {"object", "reserveSize", "fillInSize", "offset", "mark", "patch",
                            "header"}
WriteEntries == WrittenTypes \X Nat
Moving == {"to", "skip", "align8"}
Looping == {"profile", "context"}
Valued == (Plain \ Moving) \cup (Expanding \ Looping) \cup {"enter", "leave"}
ReadEntries == (Valued \X BOOLEAN) \cup (Moving \X Nat) \cup (Looping \X Int)

\* The number that a state waits for.
AfterNumber(marker) ==
    CASE marker = "marked" -> "open" [] marker = "near" -> "none"
      [] marker = "10" -> "16" [] marker = "16" -> "20" [] marker = "20" -> "24"
      [] OTHER -> marker

Goes(x, e, y) ==
    /\ y.kind = x.kind
    /\ \/ e[1] = "reserveSize" /\ y.depth = x.depth + 1
          /\ y.marker = x.marker /\ x.marker \in {"none", "open"}
       \/ e[1] = "fillInSize" /\ y.depth = x.depth - 1
          /\ y.marker = x.marker /\ x.marker \in {"none", "open"}
       \/ e[1] = "enter" /\ x.depth = 0 /\ y.depth = 1
          /\ y.marker = "none" /\ x.marker = "none"
       \/ e[1] = "leave" /\ x.depth = 1 /\ y.depth = 0
          /\ y.marker = "none" /\ x.marker = "none"
       \/ y.depth = x.depth
          /\ \/ e[1] = "mark" /\ x.marker \in {"near", "none"} /\ y.marker = "marked"
             \/ e[1] = "patch" /\ x.marker = "open" /\ y.marker = "none"
             \/ e[1] = "ulong" /\ x.marker \notin {"start", "framed", "24"}
                /\ y.marker = AfterNumber(x.marker)
             \/ e[1] \in Plain /\ x.marker \in {"none", "open"} /\ y.marker = x.marker
       \/ x.depth = 0 /\ y.depth = 0
          /\ \/ e[1] \in Expanding /\ x.marker = "none" /\ y.marker = "none"
             \/ e[1] = "header" /\ x.marker = "none" /\ y.marker = "framed"
             \/ e = <<"offset", 10>> /\ x.kind = "reply"
                /\ x.marker = "framed" /\ y.marker = "10"
             \/ e = <<"offset", 24>> /\ x.kind = "reply"
                /\ x.marker = "start" /\ y.marker = "none"
             \/ e = <<"offset", 10>> /\ x.kind # "reply"
                /\ x.marker = "start" /\ y.marker = "near"

Leads(x, q, y) ==
    \E run \in [1 .. Len(q) + 1 -> States] :
        /\ run[1] = x /\ run[Len(q) + 1] = y
        /\ \A i \in 1 .. Len(q) : Goes(run[i], q[i], run[i + 1])

LEMMA LeadsEmpty ==
    /\ \A x \in States : Leads(x, <<>>, x)
    /\ \A x, y : Leads(x, <<>>, y) => x = y
<1>1. ASSUME NEW x \in States PROVE Leads(x, <<>>, x)
  <2> DEFINE run == [i \in 1 .. 1 |-> x]
  <2>1. /\ run \in [1 .. Len(<<>>) + 1 -> States]
        /\ run[1] = x /\ run[Len(<<>>) + 1] = x
        /\ \A i \in 1 .. Len(<<>>) : Goes(run[i], <<>>[i], run[i + 1])
    BY SMT
  <2> HIDE DEF run
  <2> QED
    BY <2>1 DEF Leads
<1>2. ASSUME NEW x, NEW y, Leads(x, <<>>, y) PROVE x = y
  <2>1. Len(<<>>) + 1 = 1
    BY SMT
  <2> QED
    BY <1>2, <2>1 DEF Leads
<1> QED
  BY <1>1, <1>2

\* A field is done.
LEMMA LeadsTail ==
    ASSUME NEW S, NEW q \in Seq(S), q # <<>>, NEW x, NEW z, Leads(x, q, z)
    PROVE  \E y \in States : Goes(x, Head(q), y) /\ Leads(y, Tail(q), z)
<1>1. PICK run \in [1 .. Len(q) + 1 -> States] :
          /\ run[1] = x /\ run[Len(q) + 1] = z
          /\ \A i \in 1 .. Len(q) : Goes(run[i], q[i], run[i + 1])
  BY DEF Leads
<1>2. /\ Len(q) \in Nat \ {0} /\ Len(Tail(q)) = Len(q) - 1 /\ Head(q) = q[1]
      /\ \A i \in 1 .. Len(q) - 1 : Tail(q)[i] = q[i + 1]
  OBVIOUS
<1> DEFINE t == Tail(q)
           rest == [i \in 1 .. Len(q) |-> run[i + 1]]
<1>3. rest \in [1 .. Len(t) + 1 -> States]
  BY <1>1, <1>2
<1>4. rest[1] = run[2] /\ rest[Len(t) + 1] = z
  BY <1>1, <1>2
<1>5. ASSUME NEW i \in 1 .. Len(t) PROVE Goes(rest[i], t[i], rest[i + 1])
  <2>1. /\ i + 1 \in 1 .. Len(q) /\ i \in 1 .. Len(q) /\ i \in 1 .. Len(q) - 1
    BY <1>2
  <2>2. rest[i] = run[i + 1] /\ rest[i + 1] = run[(i + 1) + 1] /\ t[i] = q[i + 1]
    BY <1>2, <2>1
  <2> QED
    BY <1>1, <2>1, <2>2
<1>6. Goes(x, Head(q), run[2]) /\ run[2] \in States
  BY <1>1, <1>2
<1> HIDE DEF t, rest
<1>7. Leads(run[2], t, z)
  BY <1>3, <1>4, <1>5 DEF Leads
<1> QED
  BY <1>6, <1>7 DEF t

\* Work in two parts.
LEMMA LeadsConcat ==
    ASSUME NEW S, NEW p \in Seq(S), NEW q \in Seq(S), NEW x, NEW y, NEW z,
           Leads(x, p, y), Leads(y, q, z)
    PROVE  p \o q \in Seq(S) /\ Leads(x, p \o q, z)
<1>1. PICK f \in [1 .. Len(p) + 1 -> States] :
          /\ f[1] = x /\ f[Len(p) + 1] = y
          /\ \A i \in 1 .. Len(p) : Goes(f[i], p[i], f[i + 1])
  BY DEF Leads
<1>2. PICK g \in [1 .. Len(q) + 1 -> States] :
          /\ g[1] = y /\ g[Len(q) + 1] = z
          /\ \A i \in 1 .. Len(q) : Goes(g[i], q[i], g[i + 1])
  BY DEF Leads
<1> DEFINE both == p \o q
           run == [i \in 1 .. Len(both) + 1 |-> IF i <= Len(p) THEN f[i] ELSE g[i - Len(p)]]
<1>3. /\ both \in Seq(S) /\ Len(both) = Len(p) + Len(q)
      /\ Len(p) \in Nat /\ Len(q) \in Nat
      /\ \A i \in 1 .. Len(p) : both[i] = p[i]
      /\ \A i \in 1 .. Len(q) : both[Len(p) + i] = q[i]
  OBVIOUS
<1> HIDE DEF both
<1>4. run \in [1 .. Len(both) + 1 -> States]
  <2>1. ASSUME NEW i \in 1 .. Len(both) + 1
        PROVE  (IF i <= Len(p) THEN f[i] ELSE g[i - Len(p)]) \in States
    <3>1. CASE i <= Len(p)
      <4>1. i \in 1 .. Len(p) + 1
        BY <1>3, <3>1
      <4> QED
        BY <1>1, <3>1, <4>1
    <3>2. CASE ~(i <= Len(p))
      <4>1. i - Len(p) \in 1 .. Len(q) + 1
        BY <1>3, <3>2
      <4> QED
        BY <1>2, <3>2, <4>1
    <3> QED
      BY <3>1, <3>2
  <2> QED
    BY <2>1
<1>5. /\ \A i \in 1 .. Len(p) : run[i] = f[i]
      /\ \A i \in 1 .. Len(q) + 1 : run[Len(p) + i] = g[i]
  <2>1. ASSUME NEW i \in 1 .. Len(q) + 1 PROVE run[Len(p) + i] = g[i]
    <3>1. /\ Len(p) + i \in 1 .. Len(both) + 1 /\ ~(Len(p) + i <= Len(p))
          /\ (Len(p) + i) - Len(p) = i
      BY <1>3
    <3> QED
      BY <3>1
  <2>2. ASSUME NEW i \in 1 .. Len(p) PROVE run[i] = f[i]
    <3>1. i \in 1 .. Len(both) + 1 /\ i <= Len(p)
      BY <1>3
    <3> QED
      BY <3>1
  <2> QED
    BY <2>1, <2>2
<1> HIDE DEF run
<1>6. run[1] = x /\ run[Len(p) + 1] = y /\ run[Len(both) + 1] = z
  <2>1. run[Len(p) + 1] = y
    BY <1>2, <1>3, <1>5
  <2>2. run[Len(both) + 1] = z
    <3>1. Len(both) + 1 = Len(p) + (Len(q) + 1) /\ Len(q) + 1 \in 1 .. Len(q) + 1
      BY <1>3
    <3> QED
      BY <1>2, <1>5, <3>1
  <2>3. run[1] = x
    <3>1. CASE Len(p) = 0
      <4>1. Len(p) + 1 = 1
        BY <3>1
      <4> QED
        BY <1>1, <2>1, <4>1
    <3>2. CASE Len(p) # 0
      <4>1. 1 \in 1 .. Len(p)
        BY <1>3, <3>2
      <4> QED
        BY <1>1, <1>5, <4>1
    <3> QED
      BY <3>1, <3>2
  <2> QED
    BY <2>1, <2>2, <2>3
<1>7. ASSUME NEW i \in 1 .. Len(both) PROVE Goes(run[i], both[i], run[i + 1])
  <2>1. CASE i < Len(p)
    <3>1. i \in 1 .. Len(p) /\ i + 1 \in 1 .. Len(p)
      BY <1>3, <2>1
    <3> QED
      BY <1>1, <1>3, <1>5, <3>1
  <2>2. CASE i = Len(p)
    <3>1. i \in 1 .. Len(p)
      BY <1>3, <2>2
    <3>2. run[i + 1] = f[i + 1]
      BY <1>1, <1>6, <2>2
    <3> QED
      BY <1>1, <1>3, <1>5, <3>1, <3>2
  <2>3. CASE i > Len(p)
    <3>1. PICK j \in 1 .. Len(q) : i = Len(p) + j
      <4>1. i - Len(p) \in 1 .. Len(q) /\ i = Len(p) + (i - Len(p))
        BY <1>3, <2>3
      <4> QED
        BY <4>1
    <3>2. /\ i + 1 = Len(p) + (j + 1) /\ j + 1 \in 1 .. Len(q) + 1
          /\ j \in 1 .. Len(q) + 1
      BY <1>3, <3>1
    <3>3. run[i] = g[j] /\ run[i + 1] = g[j + 1] /\ both[i] = q[j]
      BY <1>3, <1>5, <3>1, <3>2
    <3> QED
      BY <1>2, <3>3
  <2> QED
    BY <1>3, <2>1, <2>2, <2>3
<1>8. Leads(x, both, z)
  BY <1>4, <1>6, <1>7 DEF Leads
<1> QED
  BY <1>3, <1>8 DEF both

\* A single field, and fields that change nothing.
LEMMA LeadsOne ==
    ASSUME NEW x \in States, NEW y \in States, NEW e, Goes(x, e, y)
    PROVE  Leads(x, <<e>>, y)
<1> DEFINE run == [i \in 1 .. 2 |-> IF i = 1 THEN x ELSE y]
           q == <<e>>
<1>1. Len(q) = 1 /\ q[1] = e
  OBVIOUS
<1>2. run \in [1 .. 1 + 1 -> States] /\ run[1] = x /\ run[1 + 1] = y
  OBVIOUS
<1> HIDE DEF run, q
<1>3. \A i \in 1 .. 1 : i = 1
  OBVIOUS
<1>4. Leads(x, q, y)
  BY <1>1, <1>2, <1>3 DEF Leads
<1> QED
  BY <1>4 DEF q

LEMMA LeadsStay ==
    ASSUME NEW S, NEW q \in Seq(S), NEW x \in States,
           \A i \in 1 .. Len(q) : Goes(x, q[i], x)
    PROVE  Leads(x, q, x)
<1> DEFINE run == [i \in 1 .. Len(q) + 1 |-> x]
<1>1. /\ run \in [1 .. Len(q) + 1 -> States]
      /\ run[1] = x /\ run[Len(q) + 1] = x
      /\ \A i \in 1 .. Len(q) : run[i] = x /\ run[i + 1] = x
  OBVIOUS
<1> HIDE DEF run
<1> QED
  BY <1>1 DEF Leads
LEMMA LeadsThree ==
    ASSUME NEW x \in States, NEW y \in States, NEW z \in States, NEW w \in States,
           NEW a, NEW b, NEW c, Goes(x, a, y), Goes(y, b, z), Goes(z, c, w)
    PROVE  Leads(x, <<a, b, c>>, w)
<1> DEFINE run == [i \in 1 .. 4 |-> IF i = 1 THEN x ELSE IF i = 2 THEN y
                                    ELSE IF i = 3 THEN z ELSE w]
           q == <<a, b, c>>
<1>1. Len(q) = 3 /\ q[1] = a /\ q[2] = b /\ q[3] = c
  OBVIOUS
<1>2. /\ run \in [1 .. 3 + 1 -> States]
      /\ run[1] = x /\ run[2] = y /\ run[3] = z /\ run[4] = w
  OBVIOUS
<1> HIDE DEF run, q
<1>3. \A i \in 1 .. 3 : Goes(run[i], q[i], run[i + 1])
  <2>1. Goes(run[1], q[1], run[2]) /\ Goes(run[2], q[2], run[3]) /\ Goes(run[3], q[3], run[4])
    BY <1>1, <1>2
  <2>2. 1 + 1 = 2 /\ 2 + 1 = 3 /\ 3 + 1 = 4 /\ \A i \in 1 .. 3 : i = 1 \/ i = 2 \/ i = 3
    OBVIOUS
  <2> QED
    BY <2>1, <2>2
<1>4. Leads(x, q, w)
  <2>1. run[3 + 1] = w
    BY <1>2
  <2> QED
    BY <1>1, <1>2, <1>3, <2>1 DEF Leads
<1> QED
  BY <1>4 DEF q

-----------------------------------------------------------------------------
(* Every part of a message leads to the next.                                *)

Part(S, q, x, y) == q \in Seq(S) /\ Leads(x, q, y)

LEMMA PartConcat ==
    ASSUME NEW S, NEW p, NEW q, NEW x, NEW y, NEW z, Part(S, p, x, y), Part(S, q, y, z)
    PROVE  Part(S, p \o q, x, z)
<1>1. p \in Seq(S) /\ q \in Seq(S) /\ Leads(x, p, y) /\ Leads(y, q, z)
  BY DEF Part
<1>2. p \o q \in Seq(S) /\ Leads(x, p \o q, z)
  BY ONLY <1>1, LeadsConcat
<1> QED
  BY <1>2 DEF Part

LEMMA PartOne ==
    ASSUME NEW S, NEW e \in S, NEW x \in States, NEW y \in States, Goes(x, e, y)
    PROVE  Part(S, <<e>>, x, y)
<1>1. <<e>> \in Seq(S)
  OBVIOUS
<1> QED
  BY <1>1, LeadsOne DEF Part

LEMMA PartEmpty ==
    ASSUME NEW S, NEW x \in States
    PROVE  Part(S, <<>>, x, x)
<1>1. <<>> \in Seq(S)
  OBVIOUS
<1> QED
  BY <1>1, LeadsEmpty DEF Part

LEMMA AtFacts ==
    ASSUME NEW depth, NEW marker, NEW kind
    PROVE  /\ At(depth, marker, kind).depth = depth /\ At(depth, marker, kind).marker = marker
           /\ At(depth, marker, kind).kind = kind
           /\ depth \in 0 .. 2 /\ marker \in Markers /\ kind \in Kinds =>
                  At(depth, marker, kind) \in States
  BY DEF At, States

\* Values that are no counts of contexts and no numbers of a reply's header.
LEMMA PlainPart ==
    ASSUME NEW q \in Seq(Plain \X Nat), NEW depth \in 0 .. 2, NEW marker \in {"none", "open"},
           NEW kind \in Kinds
    PROVE  Part(WriteEntries, q, At(depth, marker, kind), At(depth, marker, kind))
<1> DEFINE x == At(depth, marker, kind)
<1>1. x \in States /\ x.depth = depth /\ x.marker = marker
  BY AtFacts DEF Markers
<1>2. q \in Seq(WriteEntries)
  BY DEF WriteEntries, WrittenTypes
<1>3. \A i \in 1 .. Len(q) : q[i][1] \in Plain
  OBVIOUS
<1> HIDE DEF x
<1>4. \A i \in 1 .. Len(q) : Goes(x, q[i], x)
  BY <1>1, <1>3 DEF Goes
<1>5. Leads(x, q, x)
  BY <1>1, <1>2, <1>4, LeadsStay
<1> QED
  BY <1>2, <1>5 DEF Part, x

LEMMA EncapsulationPart ==
    ASSUME NEW id \in Nat, NEW fields, NEW depth \in 0 .. 1, NEW kind \in Kinds,
           NEW marker \in {"none", "open"},
           Part(WriteEntries, fields, At(depth + 1, marker, kind), At(depth + 1, marker, kind))
    PROVE  Part(WriteEntries, Encapsulation(id, fields),
                At(depth, marker, kind), At(depth, marker, kind))
<1> DEFINE x == At(depth, marker, kind)
           y == At(depth + 1, marker, kind)
           begin == << <<"ulong", id>>, <<"reserveSize", 0>>, <<"endian", 0>> >>
           end == << <<"fillInSize", 0>> >>
<1>1. /\ x \in States /\ x.depth = depth /\ x.marker = marker /\ x.kind = kind
      /\ y \in States /\ y.depth = depth + 1 /\ y.marker = marker /\ y.kind = kind
  <2>1. depth \in 0 .. 2 /\ depth + 1 \in 0 .. 2 /\ marker \in Markers
    BY DEF Markers
  <2> QED
    BY <2>1, AtFacts
<1> HIDE DEF x, y
<1>2. Part(WriteEntries, begin, x, y)
  <2>1. /\ <<"ulong", id>> \in WriteEntries /\ <<"reserveSize", 0>> \in WriteEntries
        /\ <<"endian", 0>> \in WriteEntries
    BY DEF WriteEntries, WrittenTypes, Plain, Numbers
  <2>2. Goes(x, <<"ulong", id>>, x)
    BY <1>1 DEF Goes, AfterNumber, Plain, Numbers
  <2>3. Goes(x, <<"reserveSize", 0>>, y)
    BY <1>1 DEF Goes
  <2>4. Goes(y, <<"endian", 0>>, y)
    BY <1>1 DEF Goes, Plain, Numbers
  <2>5. Leads(x, begin, y)
    BY <1>1, <2>2, <2>3, <2>4, LeadsThree
  <2>6. begin \in Seq(WriteEntries)
    BY <2>1
  <2> QED
    BY <2>5, <2>6 DEF Part
<1>3. Part(WriteEntries, end, y, x)
  <2>1. Goes(y, <<"fillInSize", 0>>, x)
    BY <1>1 DEF Goes
  <2>2. <<"fillInSize", 0>> \in WriteEntries
    BY DEF WriteEntries, WrittenTypes
  <2> QED
    BY <1>1, <2>1, <2>2, PartOne
<1>4. Part(WriteEntries, fields, y, y)
  BY DEF y
<1> HIDE DEF begin, end
<1>5. Part(WriteEntries, begin \o fields, x, y)
  BY ONLY <1>2, <1>4, PartConcat
<1>6. Part(WriteEntries, (begin \o fields) \o end, x, x)
  BY ONLY <1>3, <1>5, PartConcat
<1> QED
  BY <1>6 DEF Encapsulation, begin, end, x

LEMMA MessageFacts ==
    ASSUME NEW m \in Messages
    PROVE  /\ m.kind \in Kinds /\ m.minor \in Nat /\ m.order \in {"little", "big"}
           /\ m.id \in Nat /\ m.status \in Nat /\ m.key \in Nat /\ m.operation \in Nat
           /\ m.host \in Nat /\ m.args \in Seq(Fields)
<1>1. /\ m.kind \in Kinds /\ m.minor \in Minors /\ m.order \in Orders /\ m.id \in {600}
      /\ m.status \in {2} /\ m.key \in KeyLengths /\ m.operation \in OperationLengths
      /\ m.host \in HostLengths /\ m.args \in Arguments
  BY DEF Messages
<1>2. m.args \in Seq(Fields)
  BY <1>1, ConstantsAssumption
<1>3. m.minor \in 0 .. 2 /\ m.order \in {"little", "big"}
  <2>1. Minors \subseteq 0 .. 2 /\ Orders \subseteq {"little", "big"}
    BY ConstantsAssumption
  <2>2. m.minor \in Minors /\ m.order \in Orders
    BY <1>1
  <2>3. m.minor \in 0 .. 2
    BY <2>1, <2>2
  <2>4. m.order \in {"little", "big"}
    BY <2>1, <2>2
  <2> QED
    BY <2>3, <2>4
<1>4. m.key \in Nat /\ m.operation \in Nat /\ m.host \in Nat
  BY <1>1, ConstantsAssumption
<1>5. m.minor \in Nat /\ m.id \in Nat /\ m.status \in Nat
  BY <1>1, <1>3
<1> QED
  BY <1>1, <1>2, <1>3, <1>4, <1>5

\* The state between the fields of a body.
Idle(kind) == At(0, "none", kind)

\* writeServiceContext() sets the count of contexts it has written.
LEMMA ServiceContextPart ==
    ASSUME NEW m \in Messages, NEW marker \in {"near", "none"}
    PROVE  Part(WriteEntries, ServiceContext(m), At(0, marker, m.kind), Idle(m.kind))
<1> DEFINE x == At(0, marker, m.kind)
           y == At(0, "marked", m.kind)
           z == At(0, "open", m.kind)
           i == Idle(m.kind)
           begin == << <<"mark", 0>>, <<"ulong", 0>> >>
           point == << <<"ulong", 1>>, <<"string", m.host>>, <<"ushort", 2809>> >>
           contexts == IF m.biDir THEN Encapsulation(5, point) ELSE <<>>
           count == IF m.biDir THEN 1 ELSE 0
           end == << <<"patch", count>> >>
<1>1. /\ x \in States /\ x.depth = 0 /\ x.marker = marker /\ x.kind = m.kind
      /\ y \in States /\ y.depth = 0 /\ y.marker = "marked" /\ y.kind = m.kind
      /\ z \in States /\ z.depth = 0 /\ z.marker = "open" /\ z.kind = m.kind
      /\ i \in States /\ i.depth = 0 /\ i.marker = "none" /\ i.kind = m.kind
  BY AtFacts, MessageFacts DEF Markers, Idle
<1>2. Part(WriteEntries, contexts, z, z)
  <2>1. point \in Seq(Plain \X Nat)
    BY MessageFacts DEF Plain, Numbers
  <2>2. Part(WriteEntries, point, At(0 + 1, "open", m.kind), At(0 + 1, "open", m.kind))
    <3>1. 0 + 1 \in 0 .. 2
      OBVIOUS
    <3> HIDE DEF point
    <3> QED
      BY <2>1, <3>1, MessageFacts, PlainPart
  <2>3. Part(WriteEntries, Encapsulation(5, point), z, z)
    <3>1. 0 \in 0 .. 1 /\ 5 \in Nat
      OBVIOUS
    <3> HIDE DEF point
    <3> QED
      BY <2>2, <3>1, MessageFacts, EncapsulationPart
  <2>4. Part(WriteEntries, <<>>, z, z)
    BY <1>1, PartEmpty
  <2> QED
    BY <2>3, <2>4
<1> HIDE DEF x, y, z, i
<1>3. Part(WriteEntries, begin, x, z)
  <2>1. <<"mark", 0>> \in WriteEntries /\ <<"ulong", 0>> \in WriteEntries
    BY DEF WriteEntries, WrittenTypes, Plain, Numbers
  <2>2. Goes(x, <<"mark", 0>>, y)
    BY <1>1 DEF Goes
  <2>3. Goes(y, <<"ulong", 0>>, z)
    BY <1>1 DEF Goes, AfterNumber
  <2>4. Part(WriteEntries, << <<"mark", 0>> >>, x, y)
    BY <1>1, <2>1, <2>2, PartOne
  <2>5. Part(WriteEntries, << <<"ulong", 0>> >>, y, z)
    BY <1>1, <2>1, <2>3, PartOne
  <2>6. begin = << <<"mark", 0>> >> \o << <<"ulong", 0>> >>
    OBVIOUS
  <2> QED
    BY <2>4, <2>5, <2>6, PartConcat
<1>4. Part(WriteEntries, end, z, i)
  <2>1. <<"patch", count>> \in WriteEntries
    BY DEF WriteEntries, WrittenTypes
  <2>2. Goes(z, <<"patch", count>>, i)
    BY <1>1 DEF Goes
  <2> QED
    BY <1>1, <2>1, <2>2, PartOne
<1> HIDE DEF begin, contexts, end
<1>5. Part(WriteEntries, begin \o contexts, x, z)
  BY ONLY <1>2, <1>3, PartConcat
<1>6. Part(WriteEntries, (begin \o contexts) \o end, x, i)
  BY ONLY <1>4, <1>5, PartConcat
<1> QED
  BY <1>6 DEF ServiceContext, begin, contexts, end, x, i, point, count

\* writeReference()
LEMMA ReferencePart ==
    ASSUME NEW m \in Messages
    PROVE  /\ Part(WriteEntries, Reference(m), Idle(m.kind), Idle(m.kind))
           /\ Part(WriteEntries, Nil, Idle(m.kind), Idle(m.kind))
<1> DEFINE k == m.kind
           begin == << <<"string", 9>>, <<"ulong", 1>> >>
           address == << <<"octet", 1>>, <<"octet", m.minor>>, <<"string", m.host>>,
                         <<"ushort", 2810>>, <<"blob", m.key>> >>
           count == << <<"ulong", 1>> >>
           orbType == << <<"ulong", 1295069952>> >>
           components == IF m.minor = 0 THEN <<>> ELSE count \o Encapsulation(0, orbType)
           Inside(q, depth) ==
               Part(WriteEntries, q, At(depth, "none", k), At(depth, "none", k))
<1>1. /\ begin \in Seq(Plain \X Nat) /\ address \in Seq(Plain \X Nat)
      /\ count \in Seq(Plain \X Nat) /\ orbType \in Seq(Plain \X Nat)
      /\ Nil \in Seq(Plain \X Nat)
  <2>1. {"string", "ulong", "octet", "ushort", "blob"} \subseteq Plain
    BY DEF Plain, Numbers
  <2>2. m.minor \in Nat /\ m.host \in Nat /\ m.key \in Nat
    BY MessageFacts
  <2> QED
    BY <2>1, <2>2 DEF Nil
<1>2. k \in Kinds /\ "none" \in {"none", "open"}
  BY MessageFacts
<1> HIDE DEF k, begin, address, count, orbType
<1>3. /\ Inside(begin, 0) /\ Inside(address, 1) /\ Inside(count, 1) /\ Inside(orbType, 2)
      /\ Inside(Nil, 0)
  <2>1. 0 \in 0 .. 2 /\ 1 \in 0 .. 2 /\ 2 \in 0 .. 2
    OBVIOUS
  <2> QED
    BY <1>1, <1>2, <2>1, PlainPart
<1>4. ASSUME NEW fields, NEW depth \in 0 .. 1, Inside(fields, depth + 1)
      PROVE  Inside(Encapsulation(0, fields), depth)
  BY <1>2, <1>4, EncapsulationPart
<1>5. Inside(Encapsulation(0, orbType), 1)
  <2>1. 1 \in 0 .. 1 /\ 1 + 1 = 2
    OBVIOUS
  <2> QED
    BY <1>3, <1>4, <2>1
<1>6. Inside(count \o Encapsulation(0, orbType), 1)
  BY <1>3, <1>5, PartConcat
<1>7. Inside(components, 1)
  <2>1. Inside(<<>>, 1)
    BY <1>2, AtFacts, PartEmpty DEF Markers
  <2> QED
    BY <1>6, <2>1
<1> HIDE DEF components
<1>8. Inside(address \o components, 1)
  BY <1>3, <1>7, PartConcat
<1>9. Inside(Encapsulation(0, address \o components), 0)
  <2>1. 0 \in 0 .. 1 /\ 0 + 1 = 1
    OBVIOUS
  <2> QED
    BY <1>4, <1>8, <2>1
<1>10. Inside(begin \o Encapsulation(0, address \o components), 0)
  BY <1>3, <1>9, PartConcat
<1>11. Reference(m) = begin \o Encapsulation(0, address \o components)
  BY DEF Reference, begin, address, components, count, orbType
<1> QED
  BY <1>3, <1>10, <1>11 DEF Idle, k

\* The arguments of a call, or its results.
LEMMA ArgumentsPart ==
    ASSUME NEW m \in Messages
    PROVE  Part(WriteEntries, m.args, Idle(m.kind), Idle(m.kind))
<1> DEFINE i == Idle(m.kind)
           q == m.args
<1>1. i \in States /\ i.depth = 0 /\ i.marker = "none"
  BY AtFacts, MessageFacts DEF Idle, Markers
<1>2. q \in Seq(Fields)
  BY MessageFacts
<1> HIDE DEF i, q
<1>3. q \in Seq(WriteEntries)
  <2>1. Fields \subseteq WriteEntries
    BY DEF Fields, WriteEntries, WrittenTypes, Plain
  <2> QED
    BY <1>2, <2>1
<1>4. ASSUME NEW j \in 1 .. Len(q) PROVE Goes(i, q[j], i)
  <2>1. q[j] \in Fields
    BY <1>2
  <2>2. q[j][1] \in Plain \/ q[j][1] = "object"
    BY <2>1 DEF Fields, Plain
  <2> QED
    BY <1>1, <2>2 DEF Goes, Expanding
<1>5. Leads(i, q, i)
  BY <1>1, <1>3, <1>4, LeadsStay
<1> QED
  BY <1>3, <1>5 DEF Part, i, q

\* setReplyHeader(): room for no service context, before or behind two numbers.
LEMMA ReplyHeaderPart ==
    ASSUME NEW m \in Messages, m.kind = "reply"
    PROVE  Part(WriteEntries, setReplyHeader(m), At(0, "framed", "reply"), At(0, "24", "reply"))
<1> DEFINE s == At(0, "framed", "reply")
           a == At(0, "10", "reply")
           b == At(0, "16", "reply")
           c == At(0, "20", "reply")
           d == At(0, "24", "reply")
           begin == << <<"offset", 10>> >>
           room == << <<"ulong", 0>> >>
           numbers == << <<"ulong", m.id>>, <<"ulong", m.status>> >>
           before == IF m.minor < 2 THEN room ELSE <<>>
           behind == IF m.minor >= 2 THEN room ELSE <<>>
<1>1. /\ s \in States /\ s.depth = 0 /\ s.marker = "framed" /\ s.kind = "reply"
      /\ a \in States /\ a.depth = 0 /\ a.marker = "10" /\ a.kind = "reply"
      /\ b \in States /\ b.depth = 0 /\ b.marker = "16" /\ b.kind = "reply"
      /\ c \in States /\ c.depth = 0 /\ c.marker = "20" /\ c.kind = "reply"
      /\ d \in States /\ d.depth = 0 /\ d.marker = "24" /\ d.kind = "reply"
  <2>1. 0 \in 0 .. 2 /\ {"framed", "10", "16", "20", "24"} \subseteq Markers /\ "reply" \in Kinds
    BY DEF Markers, Kinds
  <2> QED
    BY <2>1, AtFacts
<1> HIDE DEF s, a, b, c, d
<1>2. Part(WriteEntries, begin, s, a)
  <2>1. <<"offset", 10>> \in WriteEntries
    BY DEF WriteEntries, WrittenTypes
  <2>2. Goes(s, <<"offset", 10>>, a)
    BY <1>1 DEF Goes
  <2> QED
    BY <1>1, <2>1, <2>2, PartOne
<1>3. ASSUME NEW n \in Nat
      PROVE  /\ Part(WriteEntries, << <<"ulong", n>> >>, a, b)
             /\ Part(WriteEntries, << <<"ulong", n>> >>, b, c)
             /\ Part(WriteEntries, << <<"ulong", n>> >>, c, d)
  <2>1. <<"ulong", n>> \in WriteEntries
    BY DEF WriteEntries, WrittenTypes, Plain, Numbers
  <2>2. /\ Goes(a, <<"ulong", n>>, b) /\ Goes(b, <<"ulong", n>>, c)
        /\ Goes(c, <<"ulong", n>>, d)
    BY <1>1 DEF Goes, AfterNumber
  <2> QED
    BY <1>1, <2>1, <2>2, PartOne
<1>4. /\ Part(WriteEntries, numbers, a, c) /\ Part(WriteEntries, numbers, b, d)
  <2>1. numbers = << <<"ulong", m.id>> >> \o << <<"ulong", m.status>> >>
    OBVIOUS
  <2>2. m.id \in Nat /\ m.status \in Nat
    BY MessageFacts
  <2> QED
    BY <1>3, <2>1, <2>2, PartConcat
<1>5. CASE m.minor < 2
  <2>1. Part(WriteEntries, before, a, b)
    BY <1>3, <1>5
  <2>2. Part(WriteEntries, behind, d, d)
    <3>1. ~(m.minor >= 2)
      BY <1>5, MessageFacts
    <3> QED
      BY <1>1, <3>1, PartEmpty
  <2> HIDE DEF begin, numbers, before, behind
  <2>3. Part(WriteEntries, begin \o before, s, b)
    BY <1>2, <2>1, PartConcat
  <2>4. Part(WriteEntries, (begin \o before) \o numbers, s, d)
    BY <1>4, <2>3, PartConcat
  <2>5. Part(WriteEntries, ((begin \o before) \o numbers) \o behind, s, d)
    BY <2>2, <2>4, PartConcat
  <2> QED
    BY <2>5 DEF setReplyHeader, begin, before, numbers, behind, s, d
<1>6. CASE ~(m.minor < 2)
  <2>1. Part(WriteEntries, before, a, a)
    BY <1>1, <1>6, PartEmpty
  <2>2. Part(WriteEntries, behind, c, d)
    <3>1. m.minor >= 2
      BY <1>6, MessageFacts
    <3> QED
      BY <1>3, <3>1
  <2> HIDE DEF begin, numbers, before, behind
  <2>3. Part(WriteEntries, begin \o before, s, a)
    BY <1>2, <2>1, PartConcat
  <2>4. Part(WriteEntries, (begin \o before) \o numbers, s, c)
    BY <1>4, <2>3, PartConcat
  <2>5. Part(WriteEntries, ((begin \o before) \o numbers) \o behind, s, d)
    BY <2>2, <2>4, PartConcat
  <2> QED
    BY <2>5 DEF setReplyHeader, begin, before, numbers, behind, s, d
<1> QED
  BY <1>5, <1>6

Start(kind) == At(0, "start", kind)
Near(kind) == At(0, "near", kind)

LEMMA IdleFacts ==
    ASSUME NEW kind \in Kinds
    PROVE  /\ Idle(kind) \in States /\ Idle(kind).depth = 0 /\ Idle(kind).marker = "none"
           /\ Start(kind) \in States /\ Start(kind).depth = 0 /\ Start(kind).marker = "start"
           /\ Near(kind) \in States /\ Near(kind).depth = 0 /\ Near(kind).marker = "near"
           /\ Idle(kind).kind = kind /\ Start(kind).kind = kind /\ Near(kind).kind = kind
<1>1. 0 \in 0 .. 2 /\ {"none", "start", "near"} \subseteq Markers
  BY DEF Markers
<1> QED
  BY <1>1, AtFacts DEF Idle, Start, Near

\* encodeRequest()
LEMMA RequestHeaderPart ==
    ASSUME NEW m \in Messages, m.kind # "reply"
    PROVE  Part(WriteEntries, encodeRequest(m), Start(m.kind), Idle(m.kind))
<1> DEFINE s == Start(m.kind)
           n == Near(m.kind)
           i == Idle(m.kind)
           Early == m.minor <= 1
           flags == IF ~m.response THEN 0 ELSE IF m.minor <= 1 THEN 1 ELSE 3
           begin == << <<"offset", 10>> >>
           first == IF Early THEN ServiceContext(m) ELSE <<>>
           ids == << <<"ulong", m.id>>, <<"octet", flags>>, <<"skip", 3>> >>
           addressing == IF Early THEN <<>> ELSE << <<"ushort", 0>> >>
           names == << <<"blob", m.key>>, <<"string", m.operation>> >>
           align == << <<"align8", 0>> >>
           principal == << <<"ulong", 0>> >>
           last == IF Early THEN principal ELSE ServiceContext(m) \o align
           x == IF Early THEN i ELSE n
<1>1. /\ i \in States /\ i.depth = 0 /\ i.marker = "none" /\ i.kind = m.kind
      /\ s \in States /\ s.depth = 0 /\ s.marker = "start" /\ s.kind = m.kind
      /\ n \in States /\ n.depth = 0 /\ n.marker = "near" /\ n.kind = m.kind
  BY MessageFacts, IdleFacts
<1>2. /\ m.id \in Nat /\ m.key \in Nat /\ m.operation \in Nat /\ flags \in Nat
  BY MessageFacts
<1> HIDE DEF flags, Early
<1>3. /\ Part(WriteEntries, ServiceContext(m), n, i) /\ Part(WriteEntries, ServiceContext(m), i, i)
  BY ServiceContextPart DEF Near, Idle
<1>4. /\ \A q \in Seq(Plain \X Nat) : Part(WriteEntries, q, i, i)
  <2>1. ASSUME NEW q \in Seq(Plain \X Nat) PROVE Part(WriteEntries, q, i, i)
    <3>1. 0 \in 0 .. 2 /\ "none" \in {"none", "open"} /\ m.kind \in Kinds
      BY MessageFacts
    <3> QED
      BY <3>1, PlainPart DEF Idle
  <2> QED
    BY <2>1
<1>5. /\ addressing \in Seq(Plain \X Nat) /\ names \in Seq(Plain \X Nat)
      /\ align \in Seq(Plain \X Nat) /\ principal \in Seq(Plain \X Nat)
  <2>1. {"ushort", "blob", "string", "align8", "ulong"} \subseteq Plain
    BY DEF Plain, Numbers
  <2>2. <<>> \in Seq(Plain \X Nat)
    OBVIOUS
  <2>3. << <<"ushort", 0>> >> \in Seq(Plain \X Nat)
    BY <2>1
  <2>4. addressing \in Seq(Plain \X Nat)
    BY <2>2, <2>3
  <2>5. names \in Seq(Plain \X Nat)
    <3>1. <<"blob", m.key>> \in Plain \X Nat /\ <<"string", m.operation>> \in Plain \X Nat
      BY <1>2, <2>1
    <3> QED
      BY <3>1
  <2>6. align \in Seq(Plain \X Nat) /\ principal \in Seq(Plain \X Nat)
    BY <2>1
  <2> QED
    BY <2>4, <2>5, <2>6
<1> HIDE DEF i, n, s
<1>6. Part(WriteEntries, begin, s, n)
  <2>1. <<"offset", 10>> \in WriteEntries
    BY DEF WriteEntries, WrittenTypes
  <2>2. Goes(s, <<"offset", 10>>, n)
    BY <1>1 DEF Goes
  <2> QED
    BY <1>1, <2>1, <2>2, PartOne
<1>7. Part(WriteEntries, first, n, x)
  BY <1>1, <1>3, PartEmpty
<1>8. Part(WriteEntries, ids, x, i)
  <2>1. x \in States /\ Goes(x, <<"ulong", m.id>>, i)
    BY <1>1 DEF Goes, AfterNumber
  <2>2. Goes(i, <<"octet", flags>>, i) /\ Goes(i, <<"skip", 3>>, i)
    BY <1>1 DEF Goes, Plain, Numbers
  <2>3. Leads(x, ids, i)
    BY <1>1, <2>1, <2>2, LeadsThree
  <2>4. ids \in Seq(WriteEntries)
    <3>1. /\ <<"ulong", m.id>> \in WriteEntries /\ <<"octet", flags>> \in WriteEntries
          /\ <<"skip", 3>> \in WriteEntries
      BY <1>2 DEF WriteEntries, WrittenTypes, Plain, Numbers
    <3> QED
      BY <3>1
  <2> QED
    BY <2>3, <2>4 DEF Part
<1> HIDE DEF begin, first, ids, addressing, names, align, principal, x
<1>9. /\ Part(WriteEntries, addressing, i, i) /\ Part(WriteEntries, names, i, i)
      /\ Part(WriteEntries, align, i, i) /\ Part(WriteEntries, principal, i, i)
  BY <1>4, <1>5
<1>10. Part(WriteEntries, last, i, i)
  <2>1. Part(WriteEntries, ServiceContext(m) \o align, i, i)
    BY <1>3, <1>9, PartConcat
  <2> QED
    BY <1>9, <2>1
<1> HIDE DEF last
<1>11. Part(WriteEntries, begin \o first, s, x)
  BY <1>6, <1>7, PartConcat
<1>12. Part(WriteEntries, (begin \o first) \o ids, s, i)
  BY <1>8, <1>11, PartConcat
<1>13. Part(WriteEntries, ((begin \o first) \o ids) \o addressing, s, i)
  BY <1>9, <1>12, PartConcat
<1>14. Part(WriteEntries, (((begin \o first) \o ids) \o addressing) \o names, s, i)
  BY <1>9, <1>13, PartConcat
<1>15. Part(WriteEntries, ((((begin \o first) \o ids) \o addressing) \o names) \o last, s, i)
  BY <1>10, <1>14, PartConcat
<1> QED
  BY <1>15
  DEF encodeRequest, begin, first, ids, addressing, names, last, align, principal,
      Early, flags, s, i

\* Where a message ends.
Final(kind) == At(0, IF kind = "reply" THEN "24" ELSE "framed", kind)

LEMMA MessagePart ==
    ASSUME NEW m \in Messages
    PROVE  Part(WriteEntries, Message(m), Start(m.kind), Final(m.kind))
<1> DEFINE s == Start(m.kind)
           n == Near(m.kind)
           i == Idle(m.kind)
           f == At(0, "framed", m.kind)
<1>1. /\ i \in States /\ i.depth = 0 /\ i.marker = "none" /\ i.kind = m.kind
      /\ s \in States /\ s.depth = 0 /\ s.marker = "start" /\ s.kind = m.kind
      /\ n \in States /\ n.depth = 0 /\ n.marker = "near" /\ n.kind = m.kind
  BY MessageFacts, IdleFacts
<1>2. f \in States /\ f.depth = 0 /\ f.marker = "framed" /\ f.kind = m.kind
  <2>1. 0 \in 0 .. 2 /\ "framed" \in Markers /\ m.kind \in Kinds
    BY MessageFacts DEF Markers
  <2> QED
    BY <2>1, AtFacts
<1>3. Part(WriteEntries, m.args, i, i)
  BY ArgumentsPart
<1>4. Part(WriteEntries, GIOPHeader, i, f)
  <2> HIDE DEF i, f
  <2>1. <<"header", 0>> \in WriteEntries
    BY DEF WriteEntries, WrittenTypes
  <2>2. Goes(i, <<"header", 0>>, f)
    BY <1>1, <1>2 DEF Goes
  <2> QED
    BY <1>1, <1>2, <2>1, <2>2, PartOne DEF GIOPHeader
<1>5. CASE m.kind = "request"
  <2>1. Part(WriteEntries, encodeRequest(m), s, i)
    BY <1>5, RequestHeaderPart
  <2> HIDE DEF s, i, f
  <2>2. Part(WriteEntries, encodeRequest(m) \o m.args, s, i)
    BY <1>3, <2>1, PartConcat
  <2>3. Part(WriteEntries, (encodeRequest(m) \o m.args) \o GIOPHeader, s, f)
    BY <1>4, <2>2, PartConcat
  <2>4. Message(m) = (encodeRequest(m) \o m.args) \o GIOPHeader
    BY <1>5 DEF Message, Request
  <2> QED
    BY <1>5, <2>3, <2>4 DEF Final, s, f
<1>6. CASE m.kind = "reply"
  <2>1. Part(WriteEntries, << <<"offset", 24>> >>, s, i)
    <3> HIDE DEF s, i
    <3>1. <<"offset", 24>> \in WriteEntries
      BY DEF WriteEntries, WrittenTypes
    <3>2. Goes(s, <<"offset", 24>>, i)
      BY <1>1, <1>6 DEF Goes
    <3> QED
      BY <1>1, <3>1, <3>2, PartOne
  <2>2. Part(WriteEntries, setReplyHeader(m), f, Final(m.kind))
    BY <1>6, ReplyHeaderPart DEF Final
  <2> HIDE DEF s, i, f
  <2>3. Part(WriteEntries, << <<"offset", 24>> >> \o m.args, s, i)
    BY <1>3, <2>1, PartConcat
  <2>4. Part(WriteEntries, (<< <<"offset", 24>> >> \o m.args) \o GIOPHeader, s, f)
    BY <1>4, <2>3, PartConcat
  <2>5. Part(WriteEntries, ((<< <<"offset", 24>> >> \o m.args) \o GIOPHeader)
                           \o setReplyHeader(m), s, Final(m.kind))
    BY <2>2, <2>4, PartConcat
  <2>6. Message(m) = ((<< <<"offset", 24>> >> \o m.args) \o GIOPHeader) \o setReplyHeader(m)
    BY <1>6 DEF Message, Reply
  <2> QED
    BY <2>5, <2>6 DEF s
<1>7. CASE m.kind = "locateReply"
  <2> HIDE DEF s, i, f, n
  <2>1. /\ <<"offset", 10>> \in WriteEntries /\ <<"ulong", m.id>> \in WriteEntries
        /\ <<"ulong", m.status>> \in WriteEntries
    BY MessageFacts DEF WriteEntries, WrittenTypes, Plain, Numbers
  <2>2. /\ Goes(s, <<"offset", 10>>, n) /\ Goes(n, <<"ulong", m.id>>, i)
        /\ Goes(i, <<"ulong", m.status>>, i)
    BY <1>1, <1>7 DEF Goes, AfterNumber
  <2>3. Part(WriteEntries, encodeLocateReply(m), s, i)
    <3>1. encodeLocateReply(m) \in Seq(WriteEntries)
      BY <2>1 DEF encodeLocateReply
    <3>2. Leads(s, encodeLocateReply(m), i)
      BY <1>1, <2>2, LeadsThree DEF encodeLocateReply
    <3> QED
      BY <3>1, <3>2 DEF Part
  <2>4. Part(WriteEntries, encodeLocateReply(m) \o GIOPHeader, s, f)
    BY <1>4, <2>3, PartConcat
  <2>5. Message(m) = encodeLocateReply(m) \o GIOPHeader
    BY <1>7 DEF Message, LocateReply
  <2> QED
    BY <1>7, <2>4, <2>5 DEF Final, s, f
<1> QED
  BY <1>5, <1>6, <1>7, MessageFacts DEF Kinds

-----------------------------------------------------------------------------
(* The same of what the decoder reads.                                       *)

\* Fields for which the decoder stays where it is, outside of encapsulations.
Outside == {e \in ReadEntries : e[1] \in Plain \cup Expanding}
Inside == {e \in ReadEntries : e[1] \in Plain}

LEMMA ReadFacts ==
    /\ \A type \in Plain \ Moving : Read(type) \in Inside /\ Skipped(type) \in Inside
    /\ \A type \in Valued \ {"enter", "leave"} :
          Read(type) \in Outside /\ Skipped(type) \in Outside
    /\ <<"to", 4>> \in Outside /\ <<"skip", 3>> \in Outside /\ <<"align8", 0>> \in Outside
    /\ \A n \in Int : <<"profile", n>> \in Outside /\ <<"context", n>> \in Outside
    /\ Skipped("enter") \in ReadEntries /\ Skipped("leave") \in ReadEntries
<1>1. /\ "to" \in Plain /\ "skip" \in Plain /\ "align8" \in Plain
      /\ "profile" \in Expanding /\ "context" \in Expanding
  BY DEF Plain, Expanding
<1>2. ASSUME NEW type \in Valued
      PROVE  /\ Read(type) \in ReadEntries /\ Skipped(type) \in ReadEntries
             /\ Read(type)[1] = type /\ Skipped(type)[1] = type
  BY DEF Read, Skipped, ReadEntries
<1>3. /\ <<"to", 4>> \in Outside /\ <<"skip", 3>> \in Outside /\ <<"align8", 0>> \in Outside
  BY <1>1 DEF Outside, ReadEntries, Moving
<1>4. \A n \in Int : <<"profile", n>> \in Outside /\ <<"context", n>> \in Outside
  BY <1>1 DEF Outside, ReadEntries, Looping
<1>5. /\ Plain \ Moving \subseteq Valued /\ "enter" \in Valued /\ "leave" \in Valued
      /\ Valued \ {"enter", "leave"} \subseteq Plain \cup Expanding
  BY DEF Valued
<1> QED
  BY <1>2, <1>3, <1>4, <1>5 DEF Inside, Outside

LEMMA OutsidePart ==
    ASSUME NEW q \in Seq(Outside), NEW kind \in Kinds
    PROVE  Part(ReadEntries, q, Idle(kind), Idle(kind))
<1> DEFINE i == Idle(kind)
<1>1. i \in States /\ i.depth = 0 /\ i.marker = "none"
  BY IdleFacts
<1>2. \A j \in 1 .. Len(q) : q[j] \in Outside
  OBVIOUS
<1>3. q \in Seq(ReadEntries)
  BY DEF Outside
<1> HIDE DEF i
<1>4. ASSUME NEW j \in 1 .. Len(q) PROVE Goes(i, q[j], i)
  <2>1. q[j][1] \in Plain \/ q[j][1] \in Expanding
    BY <1>2 DEF Outside
  <2> QED
    BY <1>1, <2>1 DEF Goes
<1>5. Leads(i, q, i)
  BY <1>1, <1>3, <1>4, LeadsStay
<1> QED
  BY <1>3, <1>5 DEF Part, i

\* readEncapsulation()
LEMMA EnterPart ==
    ASSUME NEW content \in Seq(Inside), NEW kind \in Kinds
    PROVE  Part(ReadEntries, Enter(content), Idle(kind), Idle(kind))
<1> DEFINE i == Idle(kind)
           d == At(1, "none", kind)
           begin == <<Skipped("ulong"), Skipped("enter"), Skipped("flags")>>
           end == <<Skipped("leave")>>
<1>1. /\ i \in States /\ i.depth = 0 /\ i.marker = "none" /\ i.kind = kind
      /\ d \in States /\ d.depth = 1 /\ d.marker = "none" /\ d.kind = kind
  <2>1. 1 \in 0 .. 2 /\ "none" \in Markers
    BY DEF Markers
  <2> QED
    BY <2>1, IdleFacts, AtFacts
<1> HIDE DEF i, d
<1>2. /\ "ulong" \in Plain /\ "flags" \in Plain
      /\ "ulong" \in Plain \ Moving /\ "flags" \in Plain \ Moving
  BY DEF Plain, Numbers, Moving
<1>3. /\ Skipped("ulong") \in ReadEntries /\ Skipped("enter") \in ReadEntries
      /\ Skipped("flags") \in ReadEntries /\ Skipped("leave") \in ReadEntries
  BY <1>2, ReadFacts DEF Inside
<1>4. Part(ReadEntries, begin, i, d)
  <2>1. /\ Goes(i, Skipped("ulong"), i) /\ Goes(i, Skipped("enter"), d)
        /\ Goes(d, Skipped("flags"), d)
    BY <1>1, <1>2 DEF Goes, Skipped, AfterNumber
  <2>2. begin \in Seq(ReadEntries)
    BY <1>3
  <2>3. Leads(i, begin, d)
    BY <1>1, <2>1, LeadsThree
  <2> QED
    BY <2>2, <2>3 DEF Part
<1>5. Part(ReadEntries, content, d, d)
  <2>1. content \in Seq(ReadEntries)
    BY DEF Inside
  <2>2. ASSUME NEW j \in 1 .. Len(content) PROVE Goes(d, content[j], d)
    <3>1. content[j] \in Inside
      OBVIOUS
    <3>2. content[j][1] \in Plain
      BY <3>1 DEF Inside
    <3> QED
      BY <1>1, <3>2 DEF Goes
  <2> QED
    BY <1>1, <2>1, <2>2, LeadsStay DEF Part
<1>6. Part(ReadEntries, end, d, i)
  <2>1. Goes(d, Skipped("leave"), i)
    BY <1>1 DEF Goes, Skipped
  <2> QED
    BY <1>1, <1>3, <2>1, PartOne
<1> HIDE DEF begin, end
<1>7. Part(ReadEntries, (begin \o content) \o end, i, i)
  <2>1. Part(ReadEntries, begin \o content, i, d)
    BY <1>4, <1>5, PartConcat
  <2> QED
    BY <1>6, <2>1, PartConcat
<1> QED
  BY <1>7 DEF Enter, begin, end, i

LEMMA ContentsInside == Profile \in Seq(Inside) /\ ListenPoint \in Seq(Inside)
<1>1. \A type \in {"octet", "string", "ushort", "blob", "ulong"} : type \in Plain \ Moving
  BY DEF Plain, Numbers, Moving
<1>2. \A type \in {"octet", "string", "ushort", "blob", "ulong"} :
          Read(type) \in Inside /\ Skipped(type) \in Inside
  BY <1>1, ReadFacts
<1> QED
  BY <1>2 DEF Profile, ListenPoint

LEMMA ScanPart ==
    ASSUME NEW kind \in Kinds
    PROVE  Part(ReadEntries, scanGIOPHeader, Idle(kind), Idle(kind))
<1>1. \A type \in {"octet", "flags", "ulong", "message"} : type \in Valued \ {"enter", "leave"}
  BY DEF Plain, Numbers, Expanding, Valued, Moving, Looping
<1>2. \A type \in {"octet", "flags", "ulong", "message"} :
          Read(type) \in Outside /\ Skipped(type) \in Outside
  BY <1>1, ReadFacts
<1>3. scanGIOPHeader \in Seq(Outside)
  BY <1>2, ReadFacts DEF scanGIOPHeader
<1> QED
  BY <1>3, OutsidePart

\* socketRcvd(): whatever version and type were read.
LEMMA RestPart ==
    ASSUME msg \in Messages, NEW minor, NEW type
    PROVE  Part(ReadEntries, Rest(minor, type), Idle(msg.kind), Idle(msg.kind))
<1> DEFINE body == [i \in 1 .. Len(msg.args) |-> Read(msg.args[i][1])]
<1>1. /\ \A t \in {"ulong", "octet", "ushort", "blob", "string", "contexts"} :
            Read(t) \in Outside /\ Skipped(t) \in Outside
      /\ <<"skip", 3>> \in Outside /\ <<"align8", 0>> \in Outside
  <2>1. \A t \in {"ulong", "octet", "ushort", "blob", "string", "contexts"} :
            t \in Valued \ {"enter", "leave"}
    BY DEF Plain, Numbers, Expanding, Valued, Moving, Looping
  <2> QED
    BY <2>1, ReadFacts
<1>2. body \in Seq(Outside)
  <2>1. msg.args \in Seq(Fields)
    BY MessageFacts
  <2>2. ASSUME NEW i \in 1 .. Len(msg.args) PROVE Read(msg.args[i][1]) \in Outside
    <3>1. msg.args[i] \in Fields
      BY <2>1
    <3>2. msg.args[i][1] \in Valued \ {"enter", "leave"}
      BY <3>1 DEF Fields, Plain, Expanding, Valued, Moving, Looping, Numbers
    <3> QED
      BY <3>2, ReadFacts
  <2>3. Len(msg.args) \in Nat
    BY <2>1
  <2> QED
    BY <2>2, <2>3
<1> HIDE DEF body
<1>3. scanRequestHeader(minor) \in Seq(Outside)
  <2> DEFINE first == IF minor <= 1 THEN <<Skipped("contexts")>> ELSE <<>>
             ids == <<Read("ulong"), Read("octet"), <<"skip", 3>> >>
             addressing == IF minor <= 1 THEN <<>> ELSE <<Read("ushort")>>
             names == <<Read("blob"), Read("string")>>
             last == IF minor <= 1 THEN <<Skipped("ulong")>>
                     ELSE <<Skipped("contexts"), <<"align8", 0>> >>
  <2>1. first \in Seq(Outside) /\ addressing \in Seq(Outside)
    BY <1>1
  <2>2. ids \in Seq(Outside) /\ names \in Seq(Outside)
    BY <1>1
  <2>3. last \in Seq(Outside)
    BY <1>1
  <2> HIDE DEF first, ids, addressing, names, last
  <2>4. (((first \o ids) \o addressing) \o names) \o last \in Seq(Outside)
    BY <2>1, <2>2, <2>3
  <2> QED
    BY <2>4 DEF scanRequestHeader, first, ids, addressing, names, last
<1>4. scanReplyHeader(minor) \in Seq(Outside)
  <2> DEFINE first == IF minor <= 1 THEN <<Skipped("contexts")>> ELSE <<>>
             ids == <<Read("ulong"), Read("ulong")>>
             last == IF minor >= 2 THEN <<Skipped("contexts")>> ELSE <<>>
  <2>1. first \in Seq(Outside) /\ ids \in Seq(Outside) /\ last \in Seq(Outside)
    BY <1>1
  <2> HIDE DEF first, ids, last
  <2>2. (first \o ids) \o last \in Seq(Outside)
    BY <2>1
  <2> QED
    BY <2>2 DEF scanReplyHeader, first, ids, last
<1>5. /\ scanRequestHeader(minor) \o body \in Seq(Outside)
      /\ scanReplyHeader(minor) \o body \in Seq(Outside)
      /\ <<Read("ulong"), Read("ulong")>> \in Seq(Outside)
  BY <1>1, <1>2, <1>3, <1>4
<1>6. Rest(minor, type) \in {scanRequestHeader(minor) \o body, scanReplyHeader(minor) \o body,
                             <<Read("ulong"), Read("ulong")>>}
  BY DEF Rest, body
<1>7. Rest(minor, type) \in Seq(Outside)
  BY <1>5, <1>6
<1>8. msg.kind \in Kinds
  BY MessageFacts
<1> QED
  BY <1>7, <1>8, OutsidePart

-----------------------------------------------------------------------------
(* Positions and octets.                                                     *)

\* Padding goes to the next multiple of the width and no further: encoder and
\* decoder pad alike, from wherever they are, if they agree on the position.
THEOREM AlignIsLeast ==
    ASSUME NEW at \in Nat, NEW width \in {1, 2, 4, 8}
    PROVE  /\ Align(at, width) \in Nat /\ Align(at, width) % width = 0
           /\ at <= Align(at, width) /\ Align(at, width) < at + width
           /\ \A n \in Nat : at <= n /\ n % width = 0 => Align(at, width) <= n
<1>1. CASE width = 1
  BY <1>1 DEF Align
<1>2. CASE width = 2
  BY <1>2 DEF Align
<1>3. CASE width = 4
  BY <1>3 DEF Align
<1>4. CASE width = 8
  BY <1>4 DEF Align
<1> QED
  BY <1>1, <1>2, <1>3, <1>4

LEMMA WidthFacts ==
    /\ \A type \in Numbers : Width(type) \in {1, 2, 4, 8}
    /\ Width("ulong") = 4
  BY DEF Numbers, Width

LEMMA OctetFacts ==
    ASSUME NEW value \in Nat, NEW place \in Nat
    PROVE  Octet(value, place) \in Octets /\ Octet(value, place)[1] = value
  BY DEF Octet, Zero, Octets

LEMMA NumberFacts ==
    ASSUME NEW value \in Nat, NEW width \in Nat, NEW order
    PROVE  /\ Number(value, width, order) \in Seq(Octets)
           /\ Len(Number(value, width, order)) = width
           /\ width > 0 => Number(value, width, order)[1][1] = value
<1>1. \A i \in 1 .. width : i - 1 \in Nat /\ width - i \in Nat
  OBVIOUS
<1>2. \A i \in 1 .. width :
          LET octet == Octet(value, IF order = "little" THEN i - 1 ELSE width - i)
          IN  octet \in Octets /\ octet[1] = value
  BY <1>1, OctetFacts
<1> DEFINE octet == [i \in 1 .. width |->
                        Octet(value, IF order = "little" THEN i - 1 ELSE width - i)]
<1>3. octet \in Seq(Octets) /\ Len(octet) = width
  BY <1>2
<1>4. width > 0 => octet[1][1] = value
  <2> SUFFICES ASSUME width > 0 PROVE octet[1][1] = value
    OBVIOUS
  <2>1. 1 \in 1 .. width
    OBVIOUS
  <2> QED
    BY <1>2, <2>1
<1>5. Number(value, width, order) = octet
  BY DEF Number
<1> HIDE DEF octet
<1> QED
  BY <1>3, <1>4, <1>5

LEMMA TextFacts ==
    ASSUME NEW length \in Nat
    PROVE  Text(length) \in Seq(Octets) /\ Len(Text(length)) = length
<1>1. \A i \in 1 .. length : <<1000 + length, i>> \in Octets
  BY DEF Octets
<1> QED
  BY <1>1 DEF Text

LEMMA ZerosFacts ==
    ASSUME NEW size \in Nat
    PROVE  /\ [i \in 1 .. size |-> Zero] \in Seq(Octets)
           /\ Len([i \in 1 .. size |-> Zero]) = size
<1>1. Zero \in Octets
  BY DEF Zero, Octets
<1> QED
  BY <1>1

\* Memory that grows keeps what is in it.
LEMMA ReserveFacts ==
    ASSUME NEW size \in Nat, data \in Seq(Octets)
    PROVE  /\ Reserve(size) \in Seq(Octets)
           /\ Len(Reserve(size)) = IF Len(data) >= size THEN Len(data) ELSE size
           /\ \A i \in 1 .. Len(data) : Reserve(size)[i] = data[i]
<1>1. CASE Len(data) >= size
  BY <1>1 DEF Reserve
<1>2. CASE ~(Len(data) >= size)
  <2> DEFINE zeros == [i \in 1 .. size - Len(data) |-> Zero]
  <2>1. size - Len(data) \in Nat
    BY <1>2
  <2>2. zeros \in Seq(Octets) /\ Len(zeros) = size - Len(data)
    BY <2>1, ZerosFacts
  <2>3. Reserve(size) = data \o zeros
    BY <1>2 DEF Reserve
  <2> HIDE DEF zeros
  <2> QED
    BY <1>2, <2>2, <2>3
<1> QED
  BY <1>1, <1>2

LEMMA PutFacts ==
    ASSUME NEW at \in Nat, NEW octets \in Seq(Octets), NEW memory \in Seq(Octets)
    PROVE  /\ Put(at, octets, memory) \in Seq(Octets)
           /\ Len(Put(at, octets, memory)) = Len(memory)
           /\ \A i \in 1 .. Len(memory) :
                 Put(at, octets, memory)[i] =
                     IF i - at \in 1 .. Len(octets) THEN octets[i - at] ELSE memory[i]
<1>1. \A i \in 1 .. Len(memory) :
          (IF i - at \in 1 .. Len(octets) THEN octets[i - at] ELSE memory[i]) \in Octets
  OBVIOUS
<1> QED
  BY <1>1 DEF Put

\* What is written lies behind at, and the memory reaches to its end.
LEMMA WriteFacts ==
    ASSUME data \in Seq(Octets), NEW at \in Nat, NEW octets \in Seq(Octets), Write(at, octets)
    PROVE  /\ data' \in Seq(Octets) /\ offset' = at + Len(octets) /\ offset' \in Nat
           /\ Len(data') = IF Len(data) >= offset' THEN Len(data) ELSE offset'
           /\ \A i \in 1 .. Len(data) : i <= at => data'[i] = data[i]
<1> DEFINE size == at + Len(octets)
           memory == Reserve(size)
<1>1. size \in Nat /\ offset' = size /\ data' = Put(at, octets, memory)
  BY DEF Write
<1>2. /\ memory \in Seq(Octets)
      /\ Len(memory) = IF Len(data) >= size THEN Len(data) ELSE size
      /\ \A i \in 1 .. Len(data) : memory[i] = data[i]
  BY <1>1, ReserveFacts
<1> HIDE DEF memory
<1>3. /\ data' \in Seq(Octets) /\ Len(data') = Len(memory)
      /\ \A i \in 1 .. Len(memory) :
            data'[i] = IF i - at \in 1 .. Len(octets) THEN octets[i - at] ELSE memory[i]
  BY <1>1, <1>2, PutFacts
<1>4. ASSUME NEW i \in 1 .. Len(data), i <= at PROVE data'[i] = data[i]
  <2>1. i \in 1 .. Len(memory) /\ ~(i - at \in 1 .. Len(octets))
    BY <1>2, <1>4
  <2> QED
    BY <1>2, <1>3, <2>1
<1> QED
  BY <1>1, <1>2, <1>3, <1>4

LEMMA ElementsFacts ==
    ASSUME NEW length \in Nat, NEW width \in {4, 8}
    PROVE  Elements(length, width) \in Seq(Octets)
<1>1. length * width \in Nat
  OBVIOUS
<1>2. ASSUME NEW k \in 1 .. length * width
      PROVE  Number(2001 + ((k - 1) \div width), width, msg.order)[1 + ((k - 1) % width)] \in Octets
  <2> DEFINE value == 2001 + ((k - 1) \div width)
             place == 1 + ((k - 1) % width)
  <2>1. k - 1 \in Nat /\ width \in Nat
    BY <1>1
  <2>2. value \in Nat /\ place \in 1 .. width
    <3>1. CASE width = 4
      BY <2>1, <3>1
    <3>2. CASE width = 8
      BY <2>1, <3>2
    <3> QED
      BY <3>1, <3>2
  <2> HIDE DEF value, place
  <2>3. Number(value, width, msg.order) \in Seq(Octets) /\ Len(Number(value, width, msg.order)) = width
    BY <2>1, <2>2, NumberFacts
  <2>4. Number(value, width, msg.order)[place] \in Octets
    BY <2>2, <2>3
  <2> QED
    BY <2>4 DEF value, place
<1> QED
  BY <1>1, <1>2 DEF Elements

-----------------------------------------------------------------------------
(* The invariant.                                                            *)

\* As long as the GIOP header says.
Frame(memory) ==
    /\ Len(memory) >= 12 /\ Len(memory) = memory[9][1] + 12
    /\ \A i \in 1 .. 4 : memory[i] = Magic[i]

Content == {"near", "marked", "open", "none"}
HeaderDone == {"framed", "10", "16", "20", "24"}

\* What holds where the encoder is.  While the body is written, memory is
\* reserved no further than written or skipped, and a reply leaves room for its
\* header.  Afterwards nothing is written behind that room.
Where(k) ==
    /\ k = "start" => offset = 0 /\ data = <<>> /\ sizeStack = <<>>
    /\ k \in Content =>
           /\ Len(data) <= offset /\ offset >= 10
           /\ msg.kind = "reply" => offset >= 24
           /\ \A i \in 1 .. Len(sizeStack) : 4 <= sizeStack[i] /\ sizeStack[i] <= offset
    /\ k \in {"open", "none"} => offset >= 12
    /\ k = "marked" => mark = offset
    /\ k = "open" => Align(mark, 4) + 4 <= offset
    /\ k \in HeaderDone => Frame(data) /\ (msg.kind = "reply" => Len(data) >= 24)
    /\ k \in HeaderDone \ {"framed"} => msg.kind = "reply"
    /\ k = "10" => offset = 10
    /\ k = "16" => offset = 16
    /\ k = "20" => offset = 20

Typed ==
    /\ msg \in Messages /\ reading \in BOOLEAN
    /\ offset \in Nat /\ mark \in Nat /\ m_offset \in Nat
    /\ data \in Seq(Octets) /\ sizeStack \in Seq(Nat)
    /\ endian \in {"little", "big"} /\ enclosing \in Seq(Nat \X {"little", "big"})

\* The work ahead leads to the end of the message.
Writing(k, depth) ==
    /\ todo \in Seq(WriteEntries)
    /\ Leads(At(depth, k, msg.kind), todo, Final(msg.kind))
    /\ Where(k)
Reading(depth) ==
    /\ todo \in Seq(ReadEntries)
    /\ Leads(At(depth, "none", msg.kind), todo, Idle(msg.kind))
    /\ depth <= 1 /\ Len(sizeStack) <= 2 /\ Frame(data)

IInv ==
    /\ Typed
    /\ IF reading THEN Reading(Len(enclosing))
       ELSE enclosing = <<>> /\ \E k \in Markers : Writing(k, Len(sizeStack))

LEMMA LeadsFrom ==
    ASSUME NEW x, NEW y, NEW S, NEW q \in Seq(S), Leads(x, q, y)
    PROVE  x \in States /\ y \in States
<1>1. 1 \in 1 .. Len(q) + 1 /\ Len(q) + 1 \in 1 .. Len(q) + 1
  OBVIOUS
<1> QED
  BY <1>1 DEF Leads

LEMMA StateIs ==
    ASSUME NEW y \in States
    PROVE  /\ y = At(y.depth, y.marker, y.kind)
           /\ y.depth \in 0 .. 2 /\ y.marker \in Markers /\ y.kind \in Kinds
  BY DEF States, At

\* The next field takes the encoder from k to l, and to another depth.
Moves(k, e, l, depth, deeper) ==
    /\ Goes(At(depth, k, msg.kind), e, At(deeper, l, msg.kind))
    /\ depth \in 0 .. 2 /\ deeper \in 0 .. 2

LEMMA NextField ==
    ASSUME IInv, ~reading, todo # <<>>
    PROVE  /\ Head(todo) \in WriteEntries /\ Tail(todo) \in Seq(WriteEntries)
           /\ \E k, l \in Markers, deeper \in 0 .. 2 :
                 /\ Moves(k, Head(todo), l, Len(sizeStack), deeper)
                 /\ Leads(At(deeper, l, msg.kind), Tail(todo), Final(msg.kind))
                 /\ Where(k)
<1>1. PICK k \in Markers : Writing(k, Len(sizeStack))
  BY DEF IInv
<1> DEFINE x == At(Len(sizeStack), k, msg.kind)
<1>2. todo \in Seq(WriteEntries) /\ Leads(x, todo, Final(msg.kind)) /\ Where(k)
  BY <1>1 DEF Writing
<1> HIDE DEF x
<1>3. PICK y \in States : Goes(x, Head(todo), y) /\ Leads(y, Tail(todo), Final(msg.kind))
  BY <1>2, LeadsTail
<1>4. x \in States
  BY <1>2, LeadsFrom
<1>5. Len(sizeStack) \in 0 .. 2 /\ x.kind = msg.kind
  <2>1. x.depth = Len(sizeStack) /\ x.kind = msg.kind
    BY AtFacts DEF x
  <2> QED
    BY <1>4, <2>1, StateIs
<1>6. y.kind = msg.kind
  BY <1>3, <1>5 DEF Goes
<1>7. /\ y = At(y.depth, y.marker, msg.kind) /\ y.depth \in 0 .. 2 /\ y.marker \in Markers
  BY <1>3, <1>6, StateIs
<1>8. /\ Moves(k, Head(todo), y.marker, Len(sizeStack), y.depth)
      /\ Leads(At(y.depth, y.marker, msg.kind), Tail(todo), Final(msg.kind))
  BY <1>3, <1>5, <1>7 DEF Moves, x
<1>9. Head(todo) \in WriteEntries /\ Tail(todo) \in Seq(WriteEntries)
  BY <1>2
<1> QED
  BY <1>2, <1>7, <1>8, <1>9

\* Moves, field by field.
LEMMA MovesFacts ==
    ASSUME NEW k \in Markers, NEW l \in Markers, NEW e \in WriteEntries, NEW depth, NEW deeper,
           Moves(k, e, l, depth, deeper)
    PROVE  /\ e[1] \in Plain \ {"ulong"} => k \in {"none", "open"} /\ l = k /\ deeper = depth
           /\ e[1] = "ulong" => /\ k \notin {"start", "framed", "24"}
                                /\ l = AfterNumber(k) /\ deeper = depth
           /\ e[1] = "reserveSize" => /\ k \in {"none", "open"} /\ l = k
                                      /\ deeper = depth + 1
           /\ e[1] = "fillInSize" => /\ k \in {"none", "open"} /\ l = k
                                     /\ deeper = depth - 1
           /\ e[1] = "mark" => k \in {"near", "none"} /\ l = "marked" /\ deeper = depth
           /\ e[1] = "patch" => k = "open" /\ l = "none" /\ deeper = depth
           /\ e[1] = "object" => k = "none" /\ l = "none" /\ depth = 0 /\ deeper = 0
           /\ e[1] = "header" => k = "none" /\ l = "framed" /\ depth = 0 /\ deeper = 0
           /\ e[1] = "offset" =>
                  /\ depth = 0 /\ deeper = 0
                  /\ \/ e[2] = 10 /\ msg.kind = "reply" /\ k = "framed" /\ l = "10"
                     \/ e[2] = 24 /\ msg.kind = "reply" /\ k = "start" /\ l = "none"
                     \/ e[2] = 10 /\ msg.kind # "reply" /\ k = "start" /\ l = "near"
<1> DEFINE x == At(depth, k, msg.kind)
           y == At(deeper, l, msg.kind)
<1>1. Goes(x, e, y) /\ depth \in 0 .. 2 /\ deeper \in 0 .. 2
  BY DEF Moves
<1>2. /\ x.depth = depth /\ x.marker = k /\ x.kind = msg.kind
      /\ y.depth = deeper /\ y.marker = l /\ y.kind = msg.kind
  BY AtFacts
<1> HIDE DEF x, y
<1>3. /\ AfterNumber("none") = "none" /\ AfterNumber("open") = "open"
  BY DEF AfterNumber
<1> QED
  BY <1>1, <1>2, <1>3 DEF Goes, Plain, Numbers, Expanding

\* A field is done.
LEMMA FieldDone ==
    ASSUME IInv, ~reading, Encode, Typed', NEW l \in Markers, Where(l)',
           Tail(todo) \in Seq(WriteEntries),
           Leads(At(Len(sizeStack'), l, msg.kind), Tail(todo), Final(msg.kind))
    PROVE  IInv'
<1>1. todo' = Tail(todo) /\ UNCHANGED <<msg, reading, enclosing>>
  BY DEF Encode, decoder
<1>2. Writing(l, Len(sizeStack))'
  BY <1>1 DEF Writing
<1>3. enclosing' = <<>>
  BY <1>1 DEF IInv
<1> QED
  BY <1>1, <1>2, <1>3 DEF IInv

-----------------------------------------------------------------------------
(* The encoder's steps.                                                      *)

\* The encoder writes or skips something that is not a number of 4 octets.
LEMMA PlainDone ==
    ASSUME IInv, ~reading, todo # <<>>, Head(todo)[1] \in Plain \ {"ulong"}, Encode, Typed',
           UNCHANGED <<sizeStack, mark>>, offset' >= offset,
           Len(data') <= Len(data) \/ Len(data') <= offset'
    PROVE  IInv'
<1>1. PICK k, l \in Markers, deeper \in 0 .. 2 :
          /\ Moves(k, Head(todo), l, Len(sizeStack), deeper)
          /\ Leads(At(deeper, l, msg.kind), Tail(todo), Final(msg.kind))
          /\ Where(k)
  BY NextField
<1>2. Head(todo) \in WriteEntries /\ Tail(todo) \in Seq(WriteEntries)
  BY NextField
<1>3. k \in {"none", "open"} /\ l = k /\ deeper = Len(sizeStack)
  BY <1>1, <1>2, MovesFacts
<1>4. /\ offset \in Nat /\ offset' \in Nat /\ Len(data) \in Nat /\ Len(data') \in Nat
      /\ mark \in Nat /\ msg' = msg /\ sizeStack \in Seq(Nat)
  BY DEF IInv, Typed, Encode
<1>5. Where(l)'
  <2>1. Len(data) <= offset /\ offset >= 12 /\ (msg.kind = "reply" => offset >= 24)
    BY <1>1, <1>3 DEF Where, Content
  <2>2. Len(data') <= offset' /\ offset' >= 12 /\ (msg'.kind = "reply" => offset' >= 24)
    BY <1>4, <2>1
  <2>3. \A i \in 1 .. Len(sizeStack') : 4 <= sizeStack'[i] /\ sizeStack'[i] <= offset'
    <3>1. ASSUME NEW i \in 1 .. Len(sizeStack)
          PROVE  4 <= sizeStack[i] /\ sizeStack[i] <= offset'
      <4>1. 4 <= sizeStack[i] /\ sizeStack[i] <= offset /\ sizeStack[i] \in Nat
        BY <1>1, <1>3, <1>4 DEF Where, Content
      <4> QED
        BY <1>4, <4>1
    <3> QED
      BY <3>1
  <2>4. l = "open" => Align(mark', 4) + 4 <= offset'
    <3> SUFFICES ASSUME l = "open" PROVE Align(mark, 4) + 4 <= offset'
      OBVIOUS
    <3>1. Align(mark, 4) + 4 <= offset
      BY <1>1, <1>3 DEF Where
    <3>2. Align(mark, 4) \in Nat
      BY <1>4, AlignIsLeast
    <3> QED
      BY <1>4, <3>1, <3>2
  <2> QED
    BY <1>3, <1>4, <2>2, <2>3, <2>4 DEF Where, HeaderDone
<1>6. Leads(At(Len(sizeStack'), l, msg.kind), Tail(todo), Final(msg.kind))
  BY <1>1, <1>3
<1> QED
  BY <1>2, <1>5, <1>6, FieldDone

\* The magic and the size are in the first 12 octets.
LEMMA FrameStays ==
    ASSUME data \in Seq(Octets), data' \in Seq(Octets), Frame(data), Len(data') = Len(data),
           \A i \in 1 .. Len(data) : i <= 12 => data'[i] = data[i]
    PROVE  Frame(data')
<1>1. Len(data) >= 12 /\ Len(data) \in Nat
  BY DEF Frame
<1>2. \A i \in 1 .. 12 : data'[i] = data[i]
  BY <1>1
<1>3. data'[9] = data[9] /\ \A i \in 1 .. 4 : data'[i] = data[i]
  BY <1>2
<1> QED
  BY <1>3 DEF Frame

LEMMA NumberDone ==
    ASSUME IInv, ~reading, todo # <<>>, Head(todo)[1] = "ulong", Encode, Typed',
           UNCHANGED <<sizeStack, mark>>, NEW octets \in Seq(Octets), Len(octets) = 4,
           Write(Align(offset, 4), octets)
    PROVE  IInv'
<1>1. PICK k, l \in Markers, deeper \in 0 .. 2 :
          /\ Moves(k, Head(todo), l, Len(sizeStack), deeper)
          /\ Leads(At(deeper, l, msg.kind), Tail(todo), Final(msg.kind))
          /\ Where(k)
  BY NextField
<1>2. Head(todo) \in WriteEntries /\ Tail(todo) \in Seq(WriteEntries)
  BY NextField
<1>3. k \notin {"start", "framed", "24"} /\ l = AfterNumber(k) /\ deeper = Len(sizeStack)
  BY <1>1, <1>2, MovesFacts
<1>4. /\ offset \in Nat /\ data \in Seq(Octets) /\ Len(data) \in Nat
      /\ mark \in Nat /\ msg' = msg /\ sizeStack \in Seq(Nat)
  BY DEF IInv, Typed, Encode
<1> DEFINE at == Align(offset, 4)
<1>5. /\ at \in Nat /\ offset <= at
      /\ offset = 10 => at = 12
      /\ offset = 16 => at = 16
      /\ offset = 20 => at = 20
  BY <1>4 DEF Align
<1>6. at = Align(offset, 4)
  OBVIOUS
<1> HIDE DEF at
<1>7. /\ data' \in Seq(Octets) /\ offset' = at + 4 /\ Len(data') \in Nat
      /\ Len(data') = IF Len(data) >= offset' THEN Len(data) ELSE offset'
      /\ \A i \in 1 .. Len(data) : i <= at => data'[i] = data[i]
  <2>1. Write(at, octets) /\ octets \in Seq(Octets)
    BY <1>6
  <2>2. /\ data' \in Seq(Octets) /\ offset' = at + Len(octets)
        /\ Len(data') = IF Len(data) >= offset' THEN Len(data) ELSE offset'
    BY <1>4, <1>5, <2>1, WriteFacts
  <2>3. \A i \in 1 .. Len(data) : i <= at => data'[i] = data[i]
    BY <1>4, <1>5, <2>1, WriteFacts
  <2> QED
    BY <2>2, <2>3
<1>8. Where(l)'
  <2>1. CASE k \in Content
    <3>1. /\ l \in {"none", "open"}
          /\ l = "open" => k \in {"marked", "open"}
      BY <1>3, <2>1 DEF Content, AfterNumber
    <3>2. /\ Len(data) <= offset /\ offset >= 10 /\ (msg.kind = "reply" => offset >= 24)
      BY <1>1, <2>1 DEF Where
    <3>3. Len(data') <= offset' /\ offset' >= 12 /\ (msg'.kind = "reply" => offset' >= 24)
      BY <1>4, <1>5, <1>7, <3>2
    <3>4. \A i \in 1 .. Len(sizeStack') : 4 <= sizeStack'[i] /\ sizeStack'[i] <= offset'
      <4>1. ASSUME NEW i \in 1 .. Len(sizeStack)
            PROVE  4 <= sizeStack[i] /\ sizeStack[i] <= offset'
        <5>1. 4 <= sizeStack[i] /\ sizeStack[i] <= offset /\ sizeStack[i] \in Nat
          BY <1>1, <2>1, <1>4 DEF Where
        <5> QED
          BY <1>4, <1>5, <1>7, <5>1
      <4> QED
        BY <4>1
    <3>5. l = "open" => Align(mark', 4) + 4 <= offset'
      <4>1. CASE k = "marked"
        <5>1. Align(mark, 4) = at
          BY <1>1, <1>6, <4>1 DEF Where
        <5> QED
          BY <1>5, <1>7, <5>1
      <4>2. CASE k = "open"
        <5>1. Align(mark, 4) + 4 <= offset
          BY <1>1, <4>2 DEF Where
        <5>2. Align(mark, 4) \in Nat
          BY <1>4, AlignIsLeast
        <5> QED
          BY <1>4, <1>5, <1>7, <5>1, <5>2
      <4> QED
        BY <3>1, <4>1, <4>2
    <3> QED
      BY <1>4, <1>5, <1>7, <3>1, <3>3, <3>4, <3>5 DEF Where, HeaderDone
  <2>2. CASE k \in {"10", "16", "20"}
    <3>1. /\ Frame(data) /\ msg.kind = "reply" /\ Len(data) >= 24
          /\ k = "10" => offset = 10
          /\ k = "16" => offset = 16
          /\ k = "20" => offset = 20
      BY <1>1, <2>2 DEF Where, HeaderDone
    <3>2. /\ offset' <= 24 /\ at >= 12
          /\ k = "10" => offset' = 16
          /\ k = "16" => offset' = 20
      BY <1>5, <1>7, <2>2, <3>1
    <3>3. Len(data') = Len(data)
      BY <1>4, <1>7, <3>1, <3>2
    <3>4. \A i \in 1 .. Len(data) : i <= 12 => data'[i] = data[i]
      BY <1>4, <1>5, <1>7, <3>2
    <3>5. Frame(data')
      BY <1>4, <1>7, <3>1, <3>3, <3>4, FrameStays
    <3>6. /\ l \in {"16", "20", "24"}
          /\ l = "16" => k = "10"
          /\ l = "20" => k = "16"
      BY <1>3, <2>2 DEF AfterNumber
    <3> QED
      BY <1>4, <3>1, <3>2, <3>3, <3>5, <3>6 DEF Where, HeaderDone, Content
  <2> QED
    BY <1>3, <2>1, <2>2 DEF Markers, Content
<1>9. Leads(At(Len(sizeStack'), l, msg.kind), Tail(todo), Final(msg.kind))
  BY <1>1, <1>3
<1> QED
  BY <1>2, <1>8, <1>9, FieldDone

LEMMA EncodeTyped ==
    ASSUME IInv, Encode, offset' \in Nat, mark' \in Nat, data' \in Seq(Octets),
           sizeStack' \in Seq(Nat)
    PROVE  Typed'
  BY DEF IInv, Typed, Encode, decoder

LEMMA ValueIsNat ==
    ASSUME IInv, ~reading, todo # <<>>
    PROVE  Value \in Nat
<1>1. Head(todo) \in WriteEntries
  BY NextField
<1> QED
  BY <1>1 DEF Value, WriteEntries

LEMMA PlainWritten ==
    ASSUME IInv, ~reading, todo # <<>>, Head(todo)[1] \in Plain \ {"ulong"}, Encode,
           UNCHANGED <<sizeStack, mark>>, NEW at \in Nat, at >= offset,
           NEW octets \in Seq(Octets), Write(at, octets)
    PROVE  IInv'
<1>1. data \in Seq(Octets) /\ offset \in Nat /\ mark \in Nat /\ sizeStack \in Seq(Nat)
  BY DEF IInv, Typed
<1>2. /\ data' \in Seq(Octets) /\ offset' = at + Len(octets) /\ offset' \in Nat
      /\ Len(data') = IF Len(data) >= offset' THEN Len(data) ELSE offset'
  BY <1>1, WriteFacts
<1>3. offset' >= offset /\ (Len(data') <= Len(data) \/ Len(data') <= offset')
  BY <1>1, <1>2
<1>4. Typed'
  BY <1>1, <1>2, EncodeTyped
<1> QED
  BY <1>3, <1>4, PlainDone

LEMMA WriteNumberStep ==
    ASSUME IInv, NEW type \in Numbers, WriteNumber(type)
    PROVE  IInv'
<1> DEFINE at == Align(offset, Width(type))
           octets == Number(Value, Width(type), msg.order)
<1>1. /\ ~reading /\ todo # <<>> /\ Head(todo)[1] = type /\ Encode
      /\ Write(at, octets) /\ UNCHANGED <<sizeStack, mark>>
  BY DEF WriteNumber, Next1
<1>2. Width(type) \in {1, 2, 4, 8} /\ Width(type) \in Nat /\ offset \in Nat /\ mark \in Nat
  BY WidthFacts DEF IInv, Typed
<1>3. at \in Nat /\ at >= offset
  BY <1>2, AlignIsLeast
<1>4. octets \in Seq(Octets) /\ Len(octets) = Width(type)
  BY <1>1, <1>2, ValueIsNat, NumberFacts
<1>5. type \in Plain
  BY DEF Plain
<1>6. at = Align(offset, Width(type))
  OBVIOUS
<1> HIDE DEF at, octets
<1>7. CASE type = "ulong"
  <2>1. Width(type) = 4
    BY <1>7, WidthFacts
  <2>2. Write(Align(offset, 4), octets) /\ Len(octets) = 4
    BY <1>1, <1>4, <1>6, <2>1
  <2>3. data \in Seq(Octets) /\ sizeStack \in Seq(Nat)
    BY DEF IInv, Typed
  <2>4. data' \in Seq(Octets) /\ offset' \in Nat
    BY <1>1, <1>3, <1>4, <2>3, WriteFacts
  <2>5. Typed'
    BY <1>1, <1>2, <2>3, <2>4, EncodeTyped
  <2> QED
    BY <1>1, <1>4, <1>7, <2>2, <2>5, NumberDone
<1>8. CASE type # "ulong"
  BY <1>1, <1>3, <1>4, <1>5, <1>8, PlainWritten
<1> QED
  BY <1>7, <1>8

LEMMA writeEndianStep ==
    ASSUME IInv, writeEndian
    PROVE  IInv'
<1> DEFINE octets == Number(IF msg.order = "big" THEN 0 ELSE 1, 1, msg.order)
<1>1. /\ ~reading /\ todo # <<>> /\ Head(todo)[1] = "endian" /\ Encode
      /\ Write(offset, octets) /\ UNCHANGED <<sizeStack, mark>>
  BY DEF writeEndian, Next1
<1>2. octets \in Seq(Octets)
  BY NumberFacts
<1>3. offset \in Nat /\ offset >= offset /\ "endian" \in Plain \ {"ulong"}
  BY DEF IInv, Typed, Plain
<1> HIDE DEF octets
<1> QED
  BY <1>1, <1>2, <1>3, PlainWritten

LEMMA writeBlobStep ==
    ASSUME IInv, writeBlob
    PROVE  IInv'
<1> DEFINE at == Align(offset, 4)
           octets == Number(Value, 4, msg.order) \o Text(Value)
<1>1. /\ ~reading /\ todo # <<>> /\ Head(todo)[1] = "blob" /\ Encode
      /\ Write(at, octets) /\ UNCHANGED <<sizeStack, mark>>
  BY DEF writeBlob, Next1
<1>2. Number(Value, 4, msg.order) \in Seq(Octets) /\ Text(Value) \in Seq(Octets)
  BY <1>1, ValueIsNat, NumberFacts, TextFacts
<1>3. octets \in Seq(Octets)
  BY <1>2
<1>4. at \in Nat /\ at >= offset /\ "blob" \in Plain \ {"ulong"}
  BY AlignIsLeast DEF IInv, Typed, Plain
<1> HIDE DEF at, octets
<1> QED
  BY <1>1, <1>3, <1>4, PlainWritten

LEMMA writeStringStep ==
    ASSUME IInv, writeString
    PROVE  IInv'
<1> DEFINE at == Align(offset, 4)
           octets == Number(Value + 1, 4, msg.order) \o Text(Value) \o <<Zero>>
<1>1. /\ ~reading /\ todo # <<>> /\ Head(todo)[1] = "string" /\ Encode
      /\ Write(at, octets) /\ UNCHANGED <<sizeStack, mark>>
  BY DEF writeString, Next1
<1>2. Value \in Nat /\ Value + 1 \in Nat /\ Zero \in Octets
  BY <1>1, ValueIsNat DEF Zero, Octets
<1>3. Number(Value + 1, 4, msg.order) \in Seq(Octets) /\ Text(Value) \in Seq(Octets)
  BY <1>2, NumberFacts, TextFacts
<1>4. octets \in Seq(Octets)
  BY <1>2, <1>3
<1>5. at \in Nat /\ at >= offset /\ "string" \in Plain \ {"ulong"}
  BY AlignIsLeast DEF IInv, Typed, Plain
<1> HIDE DEF at, octets
<1> QED
  BY <1>1, <1>4, <1>5, PlainWritten

LEMMA writeSequenceStep ==
    ASSUME IInv, NEW type \in {"floats", "doubles"}, writeSequence(type)
    PROVE  IInv'
<1> DEFINE width == IF type = "floats" THEN 4 ELSE 8
           at == Align(offset, 4)
           padding == [i \in 1 .. Align(at + 4, width) - (at + 4) |-> Zero]
           octets == LengthAligned(width) \o Elements(Value, width)
<1>1. /\ ~reading /\ todo # <<>> /\ Head(todo)[1] = type /\ Encode
      /\ Write(at, octets) /\ UNCHANGED <<sizeStack, mark>>
  BY DEF writeSequence, Next1
<1>2. Value \in Nat /\ width \in {4, 8} /\ width \in {1, 2, 4, 8}
  BY <1>1, ValueIsNat
<1>3. at \in Nat /\ at >= offset /\ type \in Plain \ {"ulong"}
  BY AlignIsLeast DEF IInv, Typed, Plain
<1>4. LengthAligned(width) = Number(Value, 4, msg.order) \o padding
  BY DEF LengthAligned
<1> HIDE DEF width, at
<1>5. padding \in Seq(Octets)
  <2>1. at + 4 \in Nat
    BY <1>3
  <2>2. Align(at + 4, width) \in Nat /\ at + 4 <= Align(at + 4, width)
    BY <1>2, <2>1, AlignIsLeast
  <2>3. Align(at + 4, width) - (at + 4) \in Nat
    BY <2>1, <2>2
  <2> QED
    BY <2>3, ZerosFacts
<1>6. Number(Value, 4, msg.order) \in Seq(Octets) /\ Elements(Value, width) \in Seq(Octets)
  BY <1>2, NumberFacts, ElementsFacts
<1> HIDE DEF padding
<1>7. octets \in Seq(Octets)
  BY <1>4, <1>5, <1>6
<1> HIDE DEF octets
<1> QED
  BY <1>1, <1>3, <1>7, PlainWritten

\* Room for the size of an encapsulation.
LEMMA reserveSizeStep ==
    ASSUME IInv, reserveSize
    PROVE  IInv'
<1>1. /\ ~reading /\ todo # <<>> /\ Head(todo)[1] = "reserveSize" /\ Encode
      /\ offset' = Align(offset, 4) + 4 /\ sizeStack' = Append(sizeStack, offset')
      /\ UNCHANGED <<data, mark>>
  BY DEF reserveSize, Next1
<1>2. PICK k, l \in Markers, deeper \in 0 .. 2 :
          /\ Moves(k, Head(todo), l, Len(sizeStack), deeper)
          /\ Leads(At(deeper, l, msg.kind), Tail(todo), Final(msg.kind))
          /\ Where(k)
  BY <1>1, NextField
<1>3. Head(todo) \in WriteEntries /\ Tail(todo) \in Seq(WriteEntries)
  BY <1>1, NextField
<1>4. k \in {"none", "open"} /\ l = k /\ deeper = Len(sizeStack) + 1
  BY <1>1, <1>2, <1>3, MovesFacts
<1>5. /\ offset \in Nat /\ data \in Seq(Octets) /\ Len(data) \in Nat
      /\ mark \in Nat /\ msg' = msg /\ sizeStack \in Seq(Nat)
  BY <1>1 DEF IInv, Typed, Encode
<1>6. Align(offset, 4) \in Nat /\ Align(offset, 4) >= offset
  BY <1>5, AlignIsLeast
<1>7. offset' \in Nat /\ offset' >= offset /\ offset' >= 4
  BY <1>1, <1>5, <1>6
<1>8. /\ sizeStack' \in Seq(Nat) /\ Len(sizeStack') = Len(sizeStack) + 1
      /\ \A i \in 1 .. Len(sizeStack') :
            sizeStack'[i] = IF i <= Len(sizeStack) THEN sizeStack[i] ELSE offset'
  BY <1>1, <1>5, <1>7
<1>9. Typed'
  BY <1>1, <1>5, <1>7, <1>8, EncodeTyped
<1>10. Where(l)'
  <2>1. /\ Len(data) <= offset /\ offset >= 12 /\ (msg.kind = "reply" => offset >= 24)
        /\ \A i \in 1 .. Len(sizeStack) : 4 <= sizeStack[i] /\ sizeStack[i] <= offset
    BY <1>2, <1>4 DEF Where, Content
  <2>2. Len(data') <= offset' /\ offset' >= 12 /\ (msg'.kind = "reply" => offset' >= 24)
    BY <1>1, <1>5, <1>7, <2>1
  <2>3. ASSUME NEW i \in 1 .. Len(sizeStack')
        PROVE  4 <= sizeStack'[i] /\ sizeStack'[i] <= offset'
    <3>1. CASE i <= Len(sizeStack)
      <4>1. /\ i \in 1 .. Len(sizeStack) /\ sizeStack[i] \in Nat
            /\ sizeStack'[i] = sizeStack[i]
        <5>1. Len(sizeStack) \in Nat /\ Len(sizeStack') = Len(sizeStack) + 1
          BY <1>5, <1>8
        <5>2. i \in 1 .. Len(sizeStack)
          BY ONLY i \in 1 .. Len(sizeStack'), <3>1, <5>1
        <5>3. sizeStack[i] \in Nat
          BY <1>5, <5>2
        <5>4. sizeStack'[i] = sizeStack[i]
          BY <1>8, <3>1
        <5> QED
          BY <5>2, <5>3, <5>4
      <4> QED
        BY <1>5, <1>7, <2>1, <4>1
    <3>2. CASE ~(i <= Len(sizeStack))
      BY <1>7, <1>8, <3>2
    <3> QED
      BY <3>1, <3>2
  <2>4. l = "open" => Align(mark', 4) + 4 <= offset'
    <3> SUFFICES ASSUME l = "open" PROVE Align(mark, 4) + 4 <= offset'
      BY <1>1
    <3>1. Align(mark, 4) + 4 <= offset /\ Align(mark, 4) \in Nat
      BY <1>2, <1>4, <1>5, AlignIsLeast DEF Where
    <3> QED
      BY <1>5, <1>7, <3>1
  <2> QED
    BY <1>4, <1>7, <2>2, <2>3, <2>4 DEF Where, HeaderDone
<1>11. Leads(At(Len(sizeStack'), l, msg.kind), Tail(todo), Final(msg.kind))
  BY <1>2, <1>4, <1>8
<1> QED
  BY <1>1, <1>3, <1>9, <1>10, <1>11, FieldDone

\* The size goes to a place that lies behind the encoder.
LEMMA fillInSizeStep ==
    ASSUME IInv, fillInSize
    PROVE  IInv'
<1> DEFINE saved == Last(sizeStack)
           octets == Number(offset - saved, 4, msg.order)
<1>1. /\ ~reading /\ todo # <<>> /\ Head(todo)[1] = "fillInSize" /\ Encode
      /\ data' = Put(saved - 4, octets, Reserve(saved))
      /\ sizeStack' = Front(sizeStack) /\ UNCHANGED <<offset, mark>>
  BY DEF fillInSize, Next1
<1>2. PICK k, l \in Markers, deeper \in 0 .. 2 :
          /\ Moves(k, Head(todo), l, Len(sizeStack), deeper)
          /\ Leads(At(deeper, l, msg.kind), Tail(todo), Final(msg.kind))
          /\ Where(k)
  BY <1>1, NextField
<1>3. Head(todo) \in WriteEntries /\ Tail(todo) \in Seq(WriteEntries)
  BY <1>1, NextField
<1>4. k \in {"none", "open"} /\ l = k /\ deeper = Len(sizeStack) - 1
  BY <1>1, <1>2, <1>3, MovesFacts
<1>5. /\ offset \in Nat /\ data \in Seq(Octets) /\ Len(data) \in Nat
      /\ mark \in Nat /\ msg' = msg /\ sizeStack \in Seq(Nat) /\ Len(sizeStack) \in Nat
  BY <1>1 DEF IInv, Typed, Encode
<1>6. /\ Len(data) <= offset /\ offset >= 12 /\ (msg.kind = "reply" => offset >= 24)
      /\ \A i \in 1 .. Len(sizeStack) : 4 <= sizeStack[i] /\ sizeStack[i] <= offset
  BY <1>2, <1>4 DEF Where, Content
<1>7. Len(sizeStack) \in 1 .. Len(sizeStack)
  BY <1>4, <1>5
<1>8. saved \in Nat /\ 4 <= saved /\ saved <= offset
  BY <1>5, <1>6, <1>7 DEF Last
<1>9. /\ sizeStack' \in Seq(Nat) /\ Len(sizeStack') = Len(sizeStack) - 1
      /\ \A i \in 1 .. Len(sizeStack') : sizeStack'[i] = sizeStack[i]
  <2>1. /\ Len(sizeStack) - 1 \in Nat /\ Len(sizeStack) - 1 <= Len(sizeStack)
        /\ sizeStack' = SubSeq(sizeStack, 1, Len(sizeStack) - 1)
    BY <1>1, <1>5, <1>7 DEF Front
  <2>2. ASSUME NEW i \in 1 .. Len(sizeStack) - 1 PROVE sizeStack[i] \in Nat
    BY <1>5
  <2>3. sizeStack' = [i \in 1 .. Len(sizeStack) - 1 |-> sizeStack[i]]
    BY <1>5, <2>1
  <2> DEFINE n == Len(sizeStack) - 1
             front == [i \in 1 .. n |-> sizeStack[i]]
  <2>4. front \in Seq(Nat) /\ Len(front) = n /\ \A i \in 1 .. n : front[i] = sizeStack[i]
    <3>1. n \in Nat /\ \A i \in 1 .. n : sizeStack[i] \in Nat
      BY <2>1, <2>2
    <3> HIDE DEF n
    <3> QED
      BY <3>1
  <2> QED
    BY <2>3, <2>4
<1> HIDE DEF saved
<1>10. saved - 4 \in Nat /\ offset - saved \in Nat
  BY <1>5, <1>8
<1>11. octets \in Seq(Octets)
  BY <1>10, NumberFacts
<1>12. Reserve(saved) \in Seq(Octets) /\ Len(Reserve(saved)) <= offset
  BY <1>5, <1>6, <1>8, ReserveFacts
<1> HIDE DEF octets
<1>13. data' \in Seq(Octets) /\ Len(data') <= offset
  BY <1>1, <1>10, <1>11, <1>12, PutFacts
<1>14. Typed'
  BY <1>1, <1>5, <1>9, <1>13, EncodeTyped
<1>15. Where(l)'
  <2>1. \A i \in 1 .. Len(sizeStack') : 4 <= sizeStack'[i] /\ sizeStack'[i] <= offset'
    <3>1. ASSUME NEW i \in 1 .. Len(sizeStack')
          PROVE  4 <= sizeStack'[i] /\ sizeStack'[i] <= offset
      <4>1. i \in 1 .. Len(sizeStack)
        BY <1>5, <1>9
      <4> QED
        BY <1>6, <1>9, <4>1
    <3> QED
      BY <1>1, <3>1
  <2>2. l = "open" => Align(mark', 4) + 4 <= offset'
    BY <1>1, <1>2, <1>4 DEF Where
  <2> QED
    BY <1>1, <1>4, <1>5, <1>6, <1>13, <2>1, <2>2 DEF Where, HeaderDone
<1>16. Leads(At(Len(sizeStack'), l, msg.kind), Tail(todo), Final(msg.kind))
  BY <1>2, <1>4, <1>9
<1> QED
  BY <1>1, <1>3, <1>14, <1>15, <1>16, FieldDone

LEMMA MarkStep ==
    ASSUME IInv, Mark
    PROVE  IInv'
<1>1. /\ ~reading /\ todo # <<>> /\ Head(todo)[1] = "mark" /\ Encode
      /\ mark' = offset /\ UNCHANGED <<offset, data, sizeStack>>
  BY DEF Mark, Next1
<1>2. PICK k, l \in Markers, deeper \in 0 .. 2 :
          /\ Moves(k, Head(todo), l, Len(sizeStack), deeper)
          /\ Leads(At(deeper, l, msg.kind), Tail(todo), Final(msg.kind))
          /\ Where(k)
  BY <1>1, NextField
<1>3. Head(todo) \in WriteEntries /\ Tail(todo) \in Seq(WriteEntries)
  BY <1>1, NextField
<1>4. k \in {"near", "none"} /\ l = "marked" /\ deeper = Len(sizeStack)
  BY <1>1, <1>2, <1>3, MovesFacts
<1>5. Typed' /\ msg' = msg
  BY <1>1, EncodeTyped DEF IInv, Typed, Encode
<1>6. Where(l)'
  <2>1. /\ Len(data) <= offset /\ offset >= 10 /\ (msg.kind = "reply" => offset >= 24)
        /\ \A i \in 1 .. Len(sizeStack) : 4 <= sizeStack[i] /\ sizeStack[i] <= offset
    BY <1>2, <1>4 DEF Where, Content
  <2> QED
    BY <1>1, <1>4, <1>5, <2>1 DEF Where, HeaderDone
<1>7. Leads(At(Len(sizeStack'), l, msg.kind), Tail(todo), Final(msg.kind))
  BY <1>1, <1>2, <1>4
<1> QED
  BY <1>1, <1>3, <1>5, <1>6, <1>7, FieldDone

\* The number of service contexts goes to a place that lies behind the encoder.
LEMMA PatchStep ==
    ASSUME IInv, Patch
    PROVE  IInv'
<1> DEFINE at == Align(mark, 4)
           octets == Number(Value, 4, msg.order)
<1>1. /\ ~reading /\ todo # <<>> /\ Head(todo)[1] = "patch" /\ Encode
      /\ data' = Put(at, octets, Reserve(at + 4)) /\ UNCHANGED <<offset, sizeStack, mark>>
  BY DEF Patch, Next1
<1>2. PICK k, l \in Markers, deeper \in 0 .. 2 :
          /\ Moves(k, Head(todo), l, Len(sizeStack), deeper)
          /\ Leads(At(deeper, l, msg.kind), Tail(todo), Final(msg.kind))
          /\ Where(k)
  BY <1>1, NextField
<1>3. Head(todo) \in WriteEntries /\ Tail(todo) \in Seq(WriteEntries)
  BY <1>1, NextField
<1>4. k = "open" /\ l = "none" /\ deeper = Len(sizeStack)
  BY <1>1, <1>2, <1>3, MovesFacts
<1>5. /\ offset \in Nat /\ data \in Seq(Octets) /\ Len(data) \in Nat
      /\ mark \in Nat /\ msg' = msg /\ sizeStack \in Seq(Nat)
  BY <1>1 DEF IInv, Typed, Encode
<1>6. /\ Len(data) <= offset /\ offset >= 12 /\ (msg.kind = "reply" => offset >= 24)
      /\ \A i \in 1 .. Len(sizeStack) : 4 <= sizeStack[i] /\ sizeStack[i] <= offset
      /\ at + 4 <= offset
  <2>1. at + 4 <= offset
    BY <1>2, <1>4 DEF Where
  <2>2. /\ Len(data) <= offset /\ offset >= 12 /\ (msg.kind = "reply" => offset >= 24)
        /\ \A i \in 1 .. Len(sizeStack) : 4 <= sizeStack[i] /\ sizeStack[i] <= offset
    BY <1>2, <1>4 DEF Where, Content
  <2> QED
    BY <2>1, <2>2
<1>7. at \in Nat
  BY <1>5, AlignIsLeast
<1> HIDE DEF at
<1>8. octets \in Seq(Octets)
  BY <1>1, ValueIsNat, NumberFacts
<1>9. Reserve(at + 4) \in Seq(Octets) /\ Len(Reserve(at + 4)) <= offset
  <2>1. at + 4 \in Nat
    BY <1>7
  <2> QED
    BY <1>5, <1>6, <2>1, ReserveFacts
<1> HIDE DEF octets
<1>10. data' \in Seq(Octets) /\ Len(data') <= offset
  BY <1>1, <1>7, <1>8, <1>9, PutFacts
<1>11. Typed'
  BY <1>1, <1>5, <1>10, EncodeTyped
<1>12. Where(l)'
  BY <1>1, <1>4, <1>5, <1>6, <1>10 DEF Where, HeaderDone
<1>13. Leads(At(Len(sizeStack'), l, msg.kind), Tail(todo), Final(msg.kind))
  BY <1>1, <1>2, <1>4
<1> QED
  BY <1>1, <1>3, <1>11, <1>12, <1>13, FieldDone

\* setOffset(), skip() and align8() of the encoder.
LEMMA MoveStep ==
    ASSUME IInv, Move
    PROVE  IInv'
<1>1. /\ ~reading /\ todo # <<>> /\ Encode /\ UNCHANGED <<data, sizeStack, mark>>
      /\ \/ Head(todo)[1] = "offset" /\ offset' = Value
         \/ Head(todo)[1] = "skip" /\ offset' = offset + Value
         \/ Head(todo)[1] = "align8" /\ offset' = Align(offset, 8)
  BY DEF Move, Next1
<1>2. /\ offset \in Nat /\ data \in Seq(Octets) /\ Len(data) \in Nat
      /\ mark \in Nat /\ msg' = msg /\ sizeStack \in Seq(Nat)
  BY <1>1 DEF IInv, Typed, Encode
<1>3. Value \in Nat /\ Align(offset, 8) \in Nat /\ Align(offset, 8) >= offset
  BY <1>1, <1>2, ValueIsNat, AlignIsLeast
<1>4. offset' \in Nat
  BY <1>1, <1>2, <1>3
<1>5. Typed'
  BY <1>1, <1>2, <1>4, EncodeTyped
<1>6. CASE Head(todo)[1] # "offset"
  <2>1. Head(todo)[1] \in {"skip", "align8"} /\ offset' >= offset
    BY <1>1, <1>2, <1>3, <1>6
  <2>2. Head(todo)[1] \in Plain \ {"ulong"}
    BY <2>1 DEF Plain
  <2>3. Len(data') <= Len(data)
    BY <1>1, <1>2
  <2> QED
    BY <1>1, <1>5, <2>1, <2>2, <2>3, PlainDone
<1>7. CASE Head(todo)[1] = "offset"
  <2>1. PICK k, l \in Markers, deeper \in 0 .. 2 :
            /\ Moves(k, Head(todo), l, Len(sizeStack), deeper)
            /\ Leads(At(deeper, l, msg.kind), Tail(todo), Final(msg.kind))
            /\ Where(k)
    BY <1>1, NextField
  <2>2. Head(todo) \in WriteEntries /\ Tail(todo) \in Seq(WriteEntries)
    BY <1>1, NextField
  <2>3. /\ Len(sizeStack) = 0 /\ deeper = 0
        /\ \/ Value = 10 /\ msg.kind = "reply" /\ k = "framed" /\ l = "10"
           \/ Value = 24 /\ msg.kind = "reply" /\ k = "start" /\ l = "none"
           \/ Value = 10 /\ msg.kind # "reply" /\ k = "start" /\ l = "near"
    BY <1>7, <2>1, <2>2, MovesFacts DEF Value
  <2>4. offset' = Value
    BY <1>1, <1>7
  <2>5. Where(l)'
    <3>1. CASE k = "framed"
      <4>1. l = "10" /\ offset' = 10 /\ msg.kind = "reply"
        BY <2>3, <2>4, <3>1
      <4>2. Frame(data) /\ Len(data) >= 24
        BY <2>1, <3>1, <4>1 DEF Where, HeaderDone
      <4>3. Frame(data')
        BY <1>1, <4>2
      <4> QED
        BY <1>1, <1>2, <4>1, <4>2, <4>3 DEF Where, HeaderDone, Content
    <3>2. CASE k = "start"
      <4>1. Len(data') = 0 /\ Len(sizeStack') = 0
        BY <1>1, <2>1, <3>2 DEF Where
      <4>2. \A i \in 1 .. Len(sizeStack') : 4 <= sizeStack'[i] /\ sizeStack'[i] <= offset'
        BY <4>1
      <4>3. \/ l = "none" /\ offset' = 24
            \/ l = "near" /\ offset' = 10 /\ msg'.kind # "reply"
        BY <1>2, <2>3, <2>4, <3>2
      <4> QED
        BY <4>1, <4>2, <4>3 DEF Where, HeaderDone
    <3> QED
      BY <2>3, <3>1, <3>2
  <2>6. Leads(At(Len(sizeStack'), l, msg.kind), Tail(todo), Final(msg.kind))
    BY <1>1, <2>1, <2>3
  <2> QED
    BY <1>1, <1>5, <2>2, <2>5, <2>6, FieldDone
<1> QED
  BY <1>6, <1>7

LEMMA ConcatFacts ==
    ASSUME NEW p \in Seq(Octets), NEW q \in Seq(Octets)
    PROVE  /\ p \o q \in Seq(Octets) /\ Len(p \o q) = Len(p) + Len(q)
           /\ \A i \in 1 .. Len(p) : (p \o q)[i] = p[i]
           /\ \A i \in 1 .. Len(q) : (p \o q)[Len(p) + i] = q[i]
  OBVIOUS

\* n octets that begin with the magic.
Begins(p, n) == p \in Seq(Octets) /\ Len(p) = n /\ \A i \in 1 .. 4 : p[i] = Magic[i]

LEMMA BeginsConcat ==
    ASSUME NEW p, NEW n \in Nat, n >= 4, Begins(p, n), NEW q \in Seq(Octets),
           NEW m, m = n + Len(q)
    PROVE  Begins(p \o q, m)
<1>1. p \in Seq(Octets) /\ Len(p) = n /\ \A i \in 1 .. 4 : p[i] = Magic[i]
  BY DEF Begins
<1>2. \A i \in 1 .. 4 : i \in 1 .. Len(p)
  BY <1>1
<1>3. /\ p \o q \in Seq(Octets) /\ Len(p \o q) = Len(p) + Len(q)
      /\ \A i \in 1 .. Len(p) : (p \o q)[i] = p[i]
  BY <1>1, ConcatFacts
<1>4. \A i \in 1 .. 4 : (p \o q)[i] = Magic[i]
  BY <1>1, <1>2, <1>3
<1> QED
  BY <1>1, <1>3, <1>4 DEF Begins

LEMMA HeaderFacts ==
    ASSUME msg \in Messages, NEW size \in Nat
    PROVE  Begins(Header(size), 12) /\ Header(size)[9][1] = size
<1> DEFINE flag == IF msg.order = "big" THEN 0 ELSE 1
           a == Number(1, 1, msg.order)
           b == Number(msg.minor, 1, msg.order)
           c == Number(flag, 1, msg.order)
           d == Number(MessageType[msg.kind], 1, msg.order)
           e == Number(size, 4, msg.order)
<1>1. msg.minor \in Nat /\ msg.kind \in Kinds
  BY MessageFacts
<1>2. MessageType[msg.kind] \in Nat /\ flag \in Nat
  BY <1>1 DEF MessageType, Kinds
<1> HIDE DEF flag
<1>3. ASSUME NEW v \in Nat
      PROVE  Number(v, 1, msg.order) \in Seq(Octets) /\ Len(Number(v, 1, msg.order)) = 1
  <2>1. 1 \in Nat
    OBVIOUS
  <2> QED
    BY <2>1, NumberFacts
<1>4. /\ a \in Seq(Octets) /\ Len(a) = 1 /\ b \in Seq(Octets) /\ Len(b) = 1
      /\ c \in Seq(Octets) /\ Len(c) = 1 /\ d \in Seq(Octets) /\ Len(d) = 1
  <2>1. a \in Seq(Octets) /\ Len(a) = 1
    BY <1>3
  <2>2. b \in Seq(Octets) /\ Len(b) = 1
    BY <1>1, <1>3
  <2>3. c \in Seq(Octets) /\ Len(c) = 1 /\ d \in Seq(Octets) /\ Len(d) = 1
    BY <1>2, <1>3
  <2> QED
    BY <2>1, <2>2, <2>3
<1>5. e \in Seq(Octets) /\ Len(e) = 4 /\ e[1][1] = size
  <2>1. \A width \in Nat : width > 0 =>
            /\ Number(size, width, msg.order) \in Seq(Octets)
            /\ Len(Number(size, width, msg.order)) = width
            /\ Number(size, width, msg.order)[1][1] = size
    BY NumberFacts
  <2>2. 4 \in Nat /\ 4 > 0
    OBVIOUS
  <2> HIDE DEF e
  <2>3. e = Number(size, 4, msg.order)
    BY DEF e
  <2> QED
    BY ONLY <2>1, <2>2, <2>3
<1> HIDE DEF a, b, c, d, e
<1> DEFINE p == Magic \o a
           q == p \o b
           r == q \o c
           begin == r \o d
<1>6. Begins(Magic, 4)
  <2>1. /\ <<71, 0>> \in Octets /\ <<73, 0>> \in Octets
        /\ <<79, 0>> \in Octets /\ <<80, 0>> \in Octets
    BY DEF Octets
  <2> QED
    BY <2>1 DEF Magic, Begins
<1>7. Begins(begin, 8)
  <2> HIDE DEF p, q, r, begin
  <2>1. Begins(p, 5)
    <3>1. 4 \in Nat /\ 4 >= 4 /\ 5 = 4 + Len(a)
      BY <1>4
    <3> QED
      BY ONLY <1>4, <1>6, <3>1, BeginsConcat DEF p
  <2>2. Begins(q, 6)
    <3>1. 5 \in Nat /\ 5 >= 4 /\ 6 = 5 + Len(b)
      BY <1>4
    <3> QED
      BY ONLY <1>4, <2>1, <3>1, BeginsConcat DEF q
  <2>3. Begins(r, 7)
    <3>1. 6 \in Nat /\ 6 >= 4 /\ 7 = 6 + Len(c)
      BY <1>4
    <3> QED
      BY ONLY <1>4, <2>2, <3>1, BeginsConcat DEF r
  <2> QED
    <3>1. 7 \in Nat /\ 7 >= 4 /\ 8 = 7 + Len(d)
      BY <1>4
    <3> QED
      BY ONLY <1>4, <2>3, <3>1, BeginsConcat DEF begin
<1>8. Header(size) = begin \o e
  <2>1. Header(size) = ((((Magic \o a) \o b) \o c) \o d) \o e
    BY DEF Header, a, b, c, d, e, flag
  <2> QED
    BY <2>1
<1> HIDE DEF begin
<1>9. Begins(begin \o e, 12)
  <2>1. 8 \in Nat /\ 8 >= 4 /\ 12 = 8 + Len(e)
    BY <1>5
  <2> QED
    BY ONLY <1>5, <1>7, <2>1, BeginsConcat
<1>10. (begin \o e)[9] = e[1]
  <2>1. begin \in Seq(Octets) /\ Len(begin) = 8
    BY <1>7 DEF Begins
  <2>2. \A i \in 1 .. Len(e) : (begin \o e)[Len(begin) + i] = e[i]
    BY ONLY <1>5, <2>1, ConcatFacts
  <2>3. 1 \in 1 .. Len(e) /\ Len(begin) + 1 = 9
    BY <1>5, <2>1
  <2> QED
    BY <2>2, <2>3
<1> QED
  BY <1>5, <1>8, <1>9, <1>10

\* The memory ends where the encoder is, whether that was written or skipped,
\* and the size in the header says so.
LEMMA setGIOPHeaderStep ==
    ASSUME IInv, setGIOPHeader
    PROVE  IInv'
<1> DEFINE octets == Header(offset - 12)
           memory == Reserve(offset)
<1>1. /\ ~reading /\ todo # <<>> /\ Head(todo)[1] = "header" /\ Encode
      /\ data' = Put(0, octets, memory) /\ UNCHANGED <<offset, sizeStack, mark>>
  BY DEF setGIOPHeader, Next1
<1>2. PICK k, l \in Markers, deeper \in 0 .. 2 :
          /\ Moves(k, Head(todo), l, Len(sizeStack), deeper)
          /\ Leads(At(deeper, l, msg.kind), Tail(todo), Final(msg.kind))
          /\ Where(k)
  BY <1>1, NextField
<1>3. Head(todo) \in WriteEntries /\ Tail(todo) \in Seq(WriteEntries)
  BY <1>1, NextField
<1>4. k = "none" /\ l = "framed" /\ deeper = Len(sizeStack)
  BY <1>1, <1>2, <1>3, MovesFacts
<1>5. /\ offset \in Nat /\ data \in Seq(Octets) /\ Len(data) \in Nat /\ msg \in Messages
      /\ mark \in Nat /\ msg' = msg /\ sizeStack \in Seq(Nat)
  BY <1>1 DEF IInv, Typed, Encode
<1>6. Len(data) <= offset /\ offset >= 12 /\ (msg.kind = "reply" => offset >= 24)
  BY <1>2, <1>4 DEF Where, Content
<1>7. memory \in Seq(Octets) /\ Len(memory) = offset
  BY <1>5, <1>6, ReserveFacts
<1>8. /\ octets \in Seq(Octets) /\ Len(octets) = 12 /\ octets[9][1] = offset - 12
      /\ \A i \in 1 .. 4 : octets[i] = Magic[i]
  <2>1. offset - 12 \in Nat
    BY <1>5, <1>6
  <2> QED
    BY <1>5, <2>1, HeaderFacts DEF Begins
<1> HIDE DEF octets, memory
<1>9. /\ data' \in Seq(Octets) /\ Len(data') = offset
      /\ \A i \in 1 .. offset : data'[i] = IF i - 0 \in 1 .. 12 THEN octets[i - 0] ELSE memory[i]
  <2>1. 0 \in Nat
    OBVIOUS
  <2>2. octets \in Seq(Octets) /\ memory \in Seq(Octets)
    BY <1>7, <1>8
  <2>3. Put(0, octets, memory) \in Seq(Octets) /\ Len(Put(0, octets, memory)) = Len(memory)
    BY ONLY <2>1, <2>2, PutFacts
  <2>4. \A i \in 1 .. Len(memory) : Put(0, octets, memory)[i] =
            IF i - 0 \in 1 .. Len(octets) THEN octets[i - 0] ELSE memory[i]
    BY ONLY <2>1, <2>2, PutFacts
  <2>5. data' \in Seq(Octets) /\ Len(data') = offset
    BY <1>1, <1>7, <2>3
  <2> QED
    BY <1>1, <1>7, <1>8, <2>4, <2>5
<1>10. Frame(data')
  <2>1. \A i \in 1 .. 12 : data'[i] = octets[i]
    <3>1. ASSUME NEW i \in 1 .. 12 PROVE data'[i] = octets[i]
      <4>1. i \in 1 .. offset /\ i - 0 = i
        BY <1>5, <1>6
      <4> QED
        BY <1>9, <4>1
    <3> QED
      BY <3>1
  <2>2. data'[9] = octets[9] /\ \A i \in 1 .. 4 : data'[i] = octets[i]
    BY <2>1
  <2>3. data'[9][1] + 12 = offset
    BY <1>5, <1>8, <2>2
  <2> QED
    BY <1>5, <1>6, <1>8, <1>9, <2>2, <2>3 DEF Frame
<1>11. Typed'
  BY <1>1, <1>5, <1>9, EncodeTyped
<1>12. Where(l)'
  <2>1. msg'.kind = "reply" => Len(data') >= 24
    BY <1>5, <1>6, <1>9
  <2> QED
    BY <1>4, <1>10, <2>1 DEF Where, HeaderDone, Content
<1>13. Leads(At(Len(sizeStack'), l, msg.kind), Tail(todo), Final(msg.kind))
  BY <1>1, <1>2, <1>4
<1> QED
  BY <1>1, <1>3, <1>11, <1>12, <1>13, FieldDone

LEMMA writeObjectStep ==
    ASSUME IInv, writeObject
    PROVE  IInv'
<1> DEFINE fields == IF Value = 0 THEN Nil ELSE Reference(msg)
<1>1. /\ ~reading /\ todo # <<>> /\ Head(todo)[1] = "object"
      /\ todo' = fields \o Tail(todo) /\ UNCHANGED <<msg, encoder, reading, decoder>>
  BY DEF writeObject, Next1
<1>2. PICK k, l \in Markers, deeper \in 0 .. 2 :
          /\ Moves(k, Head(todo), l, Len(sizeStack), deeper)
          /\ Leads(At(deeper, l, msg.kind), Tail(todo), Final(msg.kind))
          /\ Where(k)
  BY <1>1, NextField
<1>3. Head(todo) \in WriteEntries /\ Tail(todo) \in Seq(WriteEntries)
  BY <1>1, NextField
<1>4. k = "none" /\ l = "none" /\ Len(sizeStack) = 0 /\ deeper = 0
  BY <1>1, <1>2, <1>3, MovesFacts
<1>5. msg \in Messages
  BY DEF IInv, Typed
<1>6. Part(WriteEntries, fields, Idle(msg.kind), Idle(msg.kind))
  BY <1>5, ReferencePart
<1> HIDE DEF fields
<1>7. Part(WriteEntries, Tail(todo), Idle(msg.kind), Final(msg.kind))
  BY <1>2, <1>3, <1>4 DEF Part, Idle
<1>8. Part(WriteEntries, fields \o Tail(todo), Idle(msg.kind), Final(msg.kind))
  BY <1>6, <1>7, PartConcat
<1>9. Typed' /\ enclosing' = <<>> /\ ~reading'
  BY <1>1 DEF IInv, Typed, encoder, decoder
<1>10. Where(k)'
  <2>1. /\ UNCHANGED <<offset, data, sizeStack, mark, msg>>
    BY <1>1 DEF encoder
  <2> QED
    BY <1>2, <2>1 DEF Where
<1>11. Writing(k, Len(sizeStack))'
  <2>1. msg' = msg /\ Len(sizeStack') = 0
    BY <1>1, <1>4 DEF encoder
  <2> QED
    BY <1>1, <1>4, <1>8, <1>10, <2>1 DEF Writing, Part, Idle
<1> QED
  BY <1>9, <1>11 DEF IInv

\* The message is complete, and the receiver begins with its header.
LEMMA DeliverStep ==
    ASSUME IInv, Deliver
    PROVE  IInv'
<1>1. /\ todo = <<>> /\ ~reading /\ reading' /\ todo' = scanGIOPHeader
      /\ UNCHANGED <<msg, encoder, decoder>>
  BY DEF Deliver
<1>2. enclosing = <<>> /\ msg \in Messages
  BY <1>1 DEF IInv, Typed
<1>3. PICK k \in Markers : Writing(k, Len(sizeStack))
  BY <1>1 DEF IInv
<1>4. At(Len(sizeStack), k, msg.kind) = Final(msg.kind)
  BY <1>1, <1>3, LeadsEmpty DEF Writing
<1>5. Len(sizeStack) = 0 /\ k \in {"24", "framed"}
  BY <1>4, AtFacts DEF Final
<1>6. Frame(data)
  BY <1>3, <1>5 DEF Writing, Where, HeaderDone
<1>7. Part(ReadEntries, scanGIOPHeader, Idle(msg.kind), Idle(msg.kind))
  BY <1>2, MessageFacts, ScanPart
<1>8. Typed'
  BY <1>1 DEF IInv, Typed, encoder, decoder
<1>9. Reading(Len(enclosing))'
  <2>1. /\ UNCHANGED <<msg, data>> /\ Len(sizeStack') = 0 /\ Len(enclosing') = 0
    BY <1>1, <1>2, <1>5 DEF encoder, decoder
  <2> QED
    BY <1>1, <1>6, <1>7, <2>1 DEF Reading, Part, Idle
<1> QED
  BY <1>1, <1>8, <1>9 DEF IInv

-----------------------------------------------------------------------------
(* The decoder's steps.                                                      *)

LEMMA NextRead ==
    ASSUME IInv, reading, todo # <<>>
    PROVE  /\ Head(todo) \in ReadEntries /\ Tail(todo) \in Seq(ReadEntries)
           /\ \E deeper \in 0 .. 2 :
                 /\ Leads(At(deeper, "none", msg.kind), Tail(todo), Idle(msg.kind))
                 /\ Head(todo)[1] \in Plain => deeper = Len(enclosing)
                 /\ Head(todo)[1] \in Expanding => Len(enclosing) = 0 /\ deeper = 0
                 /\ Head(todo)[1] = "enter" => Len(enclosing) = 0 /\ deeper = 1
                 /\ Head(todo)[1] = "leave" => Len(enclosing) = 1 /\ deeper = 0
<1> DEFINE x == At(Len(enclosing), "none", msg.kind)
           e == Head(todo)
<1>1. todo \in Seq(ReadEntries) /\ Leads(x, todo, Idle(msg.kind))
  BY DEF IInv, Reading
<1>2. e \in ReadEntries /\ Tail(todo) \in Seq(ReadEntries)
  BY <1>1
<1>3. x.depth = Len(enclosing) /\ x.marker = "none" /\ x.kind = msg.kind
  BY AtFacts
<1> HIDE DEF x
<1>4. PICK y \in States : Goes(x, e, y) /\ Leads(y, Tail(todo), Idle(msg.kind))
  BY <1>1, LeadsTail
<1> HIDE DEF e
<1>5. e[1] \in Plain \cup Expanding \cup {"enter", "leave"}
  BY <1>2 DEF ReadEntries, Valued, Moving, Looping, Plain, Expanding
<1>6. AfterNumber("none") = "none"
  BY DEF AfterNumber
<1>7. /\ y.kind = msg.kind /\ y.marker = "none"
      /\ e[1] \in Plain => y.depth = Len(enclosing)
      /\ e[1] \in Expanding => Len(enclosing) = 0 /\ y.depth = 0
      /\ e[1] = "enter" => Len(enclosing) = 0 /\ y.depth = 1
      /\ e[1] = "leave" => Len(enclosing) = 1 /\ y.depth = 0
  BY <1>3, <1>4, <1>5, <1>6 DEF Goes, Plain, Numbers, Expanding
<1>8. y = At(y.depth, "none", msg.kind) /\ y.depth \in 0 .. 2
  BY <1>7, StateIs
<1> QED
  BY <1>2, <1>4, <1>7, <1>8 DEF e

\* A field is read, and possibly others are to be read in its place.
LEMMA ReadDone ==
    ASSUME IInv, reading, Decode, m_offset' \in Nat, endian' \in {"little", "big"},
           enclosing' \in Seq(Nat \X {"little", "big"}), Len(enclosing') <= 1,
           todo' \in Seq(ReadEntries),
           Leads(At(Len(enclosing'), "none", msg.kind), todo', Idle(msg.kind))
    PROVE  IInv'
<1>1. UNCHANGED <<msg, offset, data, sizeStack, mark, reading>>
  BY DEF Decode, encoder
<1>2. Typed'
  BY <1>1 DEF IInv, Typed
<1>3. Len(sizeStack') <= 2 /\ Frame(data')
  BY <1>1 DEF IInv, Reading
<1>4. Reading(Len(enclosing))'
  BY <1>1, <1>3 DEF Reading
<1> QED
  BY <1>1, <1>2, <1>4 DEF IInv

LEMMA PlainRead ==
    ASSUME IInv, reading, todo # <<>>, Head(todo)[1] \in Plain, Decode, Go,
           m_offset' \in Nat, endian' \in {"little", "big"}, enclosing' = enclosing
    PROVE  IInv'
<1>1. PICK deeper \in 0 .. 2 :
          /\ Leads(At(deeper, "none", msg.kind), Tail(todo), Idle(msg.kind))
          /\ deeper = Len(enclosing)
  BY NextRead
<1>2. todo' = Tail(todo) /\ Tail(todo) \in Seq(ReadEntries)
  BY NextRead DEF Go
<1>3. enclosing \in Seq(Nat \X {"little", "big"}) /\ Len(enclosing) <= 1
  BY DEF IInv, Typed, Reading
<1> QED
  BY <1>1, <1>2, <1>3, ReadDone

LEMMA Expanded ==
    ASSUME IInv, reading, todo # <<>>, Head(todo)[1] \in Expanding, Decode, m_offset' \in Nat,
           UNCHANGED <<endian, enclosing>>,
           NEW q, Part(ReadEntries, q, Idle(msg.kind), Idle(msg.kind)), todo' = q \o Tail(todo)
    PROVE  IInv'
<1>1. PICK deeper \in 0 .. 2 :
          /\ Leads(At(deeper, "none", msg.kind), Tail(todo), Idle(msg.kind))
          /\ Len(enclosing) = 0 /\ deeper = 0
  BY NextRead
<1>2. Tail(todo) \in Seq(ReadEntries)
  BY NextRead
<1>3. Part(ReadEntries, Tail(todo), Idle(msg.kind), Idle(msg.kind))
  BY <1>1, <1>2 DEF Part, Idle
<1>4. Part(ReadEntries, todo', Idle(msg.kind), Idle(msg.kind))
  BY <1>3, PartConcat
<1>5. /\ enclosing' \in Seq(Nat \X {"little", "big"}) /\ Len(enclosing') = 0
      /\ endian' \in {"little", "big"}
  BY <1>1 DEF IInv, Typed
<1>6. /\ todo' \in Seq(ReadEntries)
      /\ Leads(At(Len(enclosing'), "none", msg.kind), todo', Idle(msg.kind))
  BY <1>4, <1>5 DEF Part, Idle
<1>7. Len(enclosing') <= 1
  BY <1>5
<1> QED
  BY <1>5, <1>6, <1>7, ReadDone

LEMMA NumberAtFacts ==
    ASSUME data \in Seq(Octets), NEW at \in Nat, NEW width \in Nat \ {0}
    PROVE  NumberAt(at, width) \in Int /\ NumberAt(at, width) >= -1
<1>1. CASE at + width <= Len(data)
  <2>1. at + 1 \in 1 .. Len(data)
    BY <1>1
  <2>2. data[at + 1] \in Octets
    BY <2>1
  <2>3. data[at + 1][1] \in Nat
    BY <2>2 DEF Octets
  <2>4. NumberAt(at, width) \in {data[at + 1][1], Garbage}
    BY DEF NumberAt
  <2> QED
    BY <2>3, <2>4 DEF Garbage
<1>2. CASE ~(at + width <= Len(data))
  BY <1>2 DEF NumberAt, Garbage
<1> QED
  BY <1>1, <1>2

\* The decoder's position and an aligned number there.
LEMMA DecoderFacts ==
    ASSUME IInv
    PROVE  /\ m_offset \in Nat /\ endian \in {"little", "big"}
           /\ Align(m_offset, 4) \in Nat
           /\ NumberAt(Align(m_offset, 4), 4) \in Int /\ NumberAt(Align(m_offset, 4), 4) >= -1
<1>1. m_offset \in Nat /\ endian \in {"little", "big"} /\ data \in Seq(Octets)
  BY DEF IInv, Typed
<1>2. Align(m_offset, 4) \in Nat
  BY <1>1, AlignIsLeast
<1>3. 4 \in Nat \ {0}
  OBVIOUS
<1> QED
  BY <1>1, <1>2, <1>3, NumberAtFacts

LEMMA ReadNumberStep ==
    ASSUME IInv, NEW type \in Numbers, ReadNumber(type)
    PROVE  IInv'
<1> DEFINE at == Align(m_offset, Width(type))
<1>1. /\ reading /\ todo # <<>> /\ Head(todo)[1] = type /\ Decode /\ Go
      /\ m_offset' = at + Width(type) /\ UNCHANGED <<endian, enclosing>>
  BY DEF ReadNumber, Reads, Take
<1>2. Width(type) \in {1, 2, 4, 8} /\ m_offset \in Nat
  BY WidthFacts, DecoderFacts
<1>3. at \in Nat
  BY <1>2, AlignIsLeast
<1> HIDE DEF at
<1>4. m_offset' \in Nat
  BY <1>1, <1>2, <1>3
<1>5. endian' \in {"little", "big"} /\ type \in Plain
  BY <1>1, DecoderFacts DEF Plain
<1> QED
  BY <1>1, <1>4, <1>5, PlainRead

LEMMA ReadFlagsStep ==
    ASSUME IInv, ReadFlags
    PROVE  IInv'
<1>1. /\ reading /\ todo # <<>> /\ Head(todo)[1] = "flags" /\ Decode /\ Go
      /\ endian' \in {"little", "big"} /\ m_offset' = m_offset + 1 /\ enclosing' = enclosing
  BY DEF ReadFlags, Reads
<1>2. m_offset' \in Nat /\ "flags" \in Plain
  BY <1>1, DecoderFacts DEF Plain
<1> QED
  BY <1>1, <1>2, PlainRead

\* A length that is garbage moves the decoder back by an octet at most, behind
\* the length itself.
LEMMA readBlobStep ==
    ASSUME IInv, readBlob
    PROVE  IInv'
<1> DEFINE at == Align(m_offset, 4)
           length == NumberAt(at, 4)
<1>1. /\ reading /\ todo # <<>> /\ Head(todo)[1] = "blob" /\ Decode /\ Go
      /\ m_offset' = at + 4 + length /\ UNCHANGED <<endian, enclosing>>
  BY DEF readBlob, Reads, Take
<1>2. at \in Nat /\ length \in Int /\ length >= -1
  BY DecoderFacts
<1> HIDE DEF at, length
<1>3. m_offset' \in Nat
  BY <1>1, <1>2
<1>4. endian' \in {"little", "big"} /\ "blob" \in Plain
  BY <1>1, DecoderFacts DEF Plain
<1> QED
  BY <1>1, <1>3, <1>4, PlainRead

LEMMA readStringStep ==
    ASSUME IInv, readString
    PROVE  IInv'
<1> DEFINE at == Align(m_offset, 4)
           length == NumberAt(at, 4)
<1>1. /\ reading /\ todo # <<>> /\ Head(todo)[1] = "string" /\ Decode /\ Go
      /\ m_offset' = at + 4 + length /\ UNCHANGED <<endian, enclosing>>
  BY DEF readString, Reads, Take
<1>2. at \in Nat /\ length \in Int /\ length >= -1
  BY DecoderFacts
<1> HIDE DEF at, length
<1>3. m_offset' \in Nat
  BY <1>1, <1>2
<1>4. endian' \in {"little", "big"} /\ "string" \in Plain
  BY <1>1, DecoderFacts DEF Plain
<1> QED
  BY <1>1, <1>3, <1>4, PlainRead

LEMMA readSequenceStep ==
    ASSUME IInv, NEW type \in {"floats", "doubles"}, readSequence(type)
    PROVE  IInv'
<1> DEFINE width == IF type = "floats" THEN 4 ELSE 8
           at == Align(m_offset, 4)
           length == NumberAt(at, 4)
           start == Align(at + 4, width)
<1>1. /\ reading /\ todo # <<>> /\ Head(todo)[1] = type /\ Decode /\ Go
      /\ m_offset' = start + width * length /\ UNCHANGED <<endian, enclosing>>
  BY DEF readSequence, Reads, Take
<1>2. at \in Nat /\ length \in Int /\ length >= -1
  BY DecoderFacts
<1>3. width \in {4, 8}
  OBVIOUS
<1> HIDE DEF at, length, width
<1>4. start \in Nat /\ start >= width
  <2>1. at + 4 \in Nat /\ at + 4 >= 4
    BY <1>2
  <2>2. width \in {1, 2, 4, 8}
    BY <1>3
  <2>3. start \in Nat /\ start % width = 0 /\ at + 4 <= start
    BY <2>1, <2>2, AlignIsLeast
  <2> HIDE DEF start
  <2>4. start >= 4
    BY <2>1, <2>3
  <2>5. CASE width = 4
    BY <2>3, <2>4, <2>5
  <2>6. CASE width = 8
    BY <2>3, <2>4, <2>6
  <2> QED
    BY <1>3, <2>3, <2>5, <2>6
<1> HIDE DEF start
<1>5. m_offset' \in Nat
  <2>1. CASE width = 4
    BY <1>1, <1>2, <1>4, <2>1
  <2>2. CASE width = 8
    BY <1>1, <1>2, <1>4, <2>2
  <2> QED
    BY <1>3, <2>1, <2>2
<1>6. endian' \in {"little", "big"} /\ type \in Plain
  BY <1>1, DecoderFacts DEF Plain
<1> QED
  BY <1>1, <1>5, <1>6, PlainRead

LEMMA MoveOnStep ==
    ASSUME IInv, MoveOn
    PROVE  IInv'
<1>1. /\ reading /\ todo # <<>> /\ Head(todo)[1] \in Moving /\ Decode /\ Go
      /\ UNCHANGED <<endian, enclosing>>
      /\ \/ m_offset' = Kept
         \/ m_offset' = m_offset + Kept
         \/ m_offset' = Align(m_offset, 8)
  BY DEF MoveOn, Reads, Moving
<1>2. Kept \in Nat
  <2>1. Head(todo) \in ReadEntries
    BY <1>1, NextRead
  <2> QED
    BY <1>1, <2>1 DEF ReadEntries, Valued, Moving, Looping, Expanding, Kept
<1>3. m_offset \in Nat /\ endian' \in {"little", "big"}
  BY <1>1, DecoderFacts
<1>4. Align(m_offset, 8) \in Nat
  BY <1>3, AlignIsLeast
<1>5. m_offset' \in Nat
  BY <1>1, <1>2, <1>3, <1>4
<1>6. Head(todo)[1] \in Plain
  BY <1>1 DEF Moving, Plain
<1> QED
  BY <1>1, <1>3, <1>5, <1>6, PlainRead

LEMMA scanMessageStep ==
    ASSUME IInv, scanMessage
    PROVE  IInv'
<1>1. /\ reading /\ todo # <<>> /\ Head(todo)[1] = "message" /\ Decode
      /\ todo' = Rest(got[1], got[2]) /\ UNCHANGED <<m_offset, endian, enclosing>>
  BY DEF scanMessage, Reads, decoder
<1>2. msg \in Messages /\ enclosing \in Seq(Nat \X {"little", "big"})
  BY DEF IInv, Typed
<1>3. "message" \in Expanding
  BY DEF Expanding
<1>4. Len(enclosing) = 0
  BY <1>1, <1>3, NextRead
<1>5. Part(ReadEntries, Rest(got[1], got[2]), Idle(msg.kind), Idle(msg.kind))
  BY <1>2, RestPart
<1>6. /\ todo' \in Seq(ReadEntries)
      /\ Leads(At(Len(enclosing'), "none", msg.kind), todo', Idle(msg.kind))
  BY <1>1, <1>4, <1>5 DEF Part, Idle
<1>7. /\ m_offset' \in Nat /\ endian' \in {"little", "big"} /\ Len(enclosing') <= 1
      /\ enclosing' \in Seq(Nat \X {"little", "big"})
  BY <1>1, <1>2, <1>4, DecoderFacts
<1> QED
  BY <1>1, <1>6, <1>7, ReadDone

LEMMA readObjectStep ==
    ASSUME IInv, readObject
    PROVE  IInv'
<1> DEFINE at == Align(m_offset, 4)
           null == NumberAt(at, 4) = 0
           content == <<Read("string"), Skipped("profiles")>>
           q == IF null THEN <<>> ELSE content
<1>1. /\ reading /\ todo # <<>> /\ Head(todo)[1] = "object" /\ Decode
      /\ UNCHANGED <<endian, enclosing>>
      /\ IF null THEN todo' = Tail(todo) /\ m_offset' = at + 4
         ELSE todo' = content \o Tail(todo) /\ m_offset' = m_offset
  BY DEF readObject, Reads, decoder, Go, Take
<1>2. at \in Nat /\ m_offset \in Nat
  BY DecoderFacts
<1> HIDE DEF at, null
<1>3. content \in Seq(Outside)
  <2>1. /\ "string" \in Valued \ {"enter", "leave"} /\ "profiles" \in Valued \ {"enter", "leave"}
    BY DEF Valued, Plain, Expanding, Moving, Looping, Numbers
  <2>2. Read("string") \in Outside /\ Skipped("profiles") \in Outside
    BY <2>1, ReadFacts
  <2> QED
    BY <2>2
<1>4. msg.kind \in Kinds
  BY MessageFacts DEF IInv, Typed
<1> HIDE DEF content
<1>5. Part(ReadEntries, content, Idle(msg.kind), Idle(msg.kind))
  BY <1>3, <1>4, OutsidePart
<1>6. Part(ReadEntries, <<>>, Idle(msg.kind), Idle(msg.kind))
  BY <1>4, IdleFacts, PartEmpty
<1>7. Part(ReadEntries, q, Idle(msg.kind), Idle(msg.kind))
  BY <1>5, <1>6
<1>8. Tail(todo) \in Seq(ReadEntries)
  BY <1>1, NextRead DEF Expanding
<1>9. todo' = q \o Tail(todo)
  <2>1. <<>> \o Tail(todo) = Tail(todo)
    BY <1>8
  <2> QED
    BY <1>1, <2>1
<1>10. m_offset' \in Nat
  BY <1>1, <1>2
<1> HIDE DEF q
<1>11. "object" \in Expanding
  BY DEF Expanding
<1> QED
  BY <1>1, <1>7, <1>9, <1>10, <1>11, Expanded

LEMMA RepeatStep ==
    ASSUME IInv, NEW type \in Expanding, NEW each \in Looping, Repeat(type, each)
    PROVE  IInv'
<1> DEFINE at == Align(m_offset, 4)
           q == << <<each, NumberAt(at, 4)>> >>
<1>1. /\ reading /\ todo # <<>> /\ Head(todo)[1] = type /\ Decode
      /\ todo' = q \o Tail(todo) /\ m_offset' = at + 4 /\ UNCHANGED <<endian, enclosing>>
  BY DEF Repeat, Reads
<1>2. at \in Nat /\ NumberAt(at, 4) \in Int
  BY DecoderFacts
<1> HIDE DEF at
<1>3. q \in Seq(Outside)
  <2>1. <<each, NumberAt(at, 4)>> \in Outside
    BY <1>2, ReadFacts DEF Looping
  <2> QED
    BY <2>1
<1> HIDE DEF q
<1>4. Part(ReadEntries, q, Idle(msg.kind), Idle(msg.kind))
  BY <1>3, MessageFacts, OutsidePart DEF IInv, Typed
<1>5. m_offset' \in Nat
  BY <1>1, <1>2
<1> QED
  BY <1>1, <1>4, <1>5, Expanded

LEMMA LoopStep ==
    ASSUME IInv, NEW each \in Looping, NEW content \in Seq(Inside), Loop(each, content)
    PROVE  IInv'
<1> DEFINE again == << <<each, Kept - 1>> >>
           q == IF Kept > 0 THEN Enter(content) \o again ELSE <<>>
<1>1. /\ reading /\ todo # <<>> /\ Head(todo)[1] = each /\ Decode
      /\ todo' = q \o Tail(todo) /\ UNCHANGED <<m_offset, endian, enclosing>>
  BY DEF Loop, Reads, decoder
<1>2. Kept \in Int
  <2>1. Head(todo) \in ReadEntries
    BY <1>1, NextRead
  <2> QED
    BY <1>1, <2>1 DEF ReadEntries, Valued, Plain, Moving, Looping, Numbers, Kept
<1>3. msg.kind \in Kinds
  BY MessageFacts DEF IInv, Typed
<1>4. Part(ReadEntries, again, Idle(msg.kind), Idle(msg.kind))
  <2>1. Kept - 1 \in Int
    BY <1>2
  <2>2. <<each, Kept - 1>> \in Outside
    BY <2>1, ReadFacts DEF Looping
  <2>3. again \in Seq(Outside)
    BY <2>2
  <2> HIDE DEF again
  <2> QED
    BY <1>3, <2>3, OutsidePart
<1> HIDE DEF again
<1>5. Part(ReadEntries, Enter(content), Idle(msg.kind), Idle(msg.kind))
  BY <1>3, EnterPart
<1>6. Part(ReadEntries, Enter(content) \o again, Idle(msg.kind), Idle(msg.kind))
  BY <1>4, <1>5, PartConcat
<1>7. Part(ReadEntries, <<>>, Idle(msg.kind), Idle(msg.kind))
  BY <1>3, IdleFacts, PartEmpty
<1>8. Part(ReadEntries, q, Idle(msg.kind), Idle(msg.kind))
  BY <1>6, <1>7
<1> HIDE DEF q
<1>9. m_offset' \in Nat /\ each \in Expanding
  BY <1>1, DecoderFacts DEF Expanding, Looping
<1> QED
  BY <1>1, <1>8, <1>9, Expanded

LEMMA EnterStep ==
    ASSUME IInv, EnterEncapsulation
    PROVE  IInv'
<1> DEFINE at == Align(m_offset, 4)
           next == at + 4 + NumberAt(at, 4)
<1>1. /\ reading /\ todo # <<>> /\ Head(todo)[1] = "enter" /\ Decode /\ todo' = Tail(todo)
      /\ m_offset' = at + 4 /\ enclosing' = Append(enclosing, <<next, endian>>)
      /\ endian' = endian
  BY DEF EnterEncapsulation, Reads, Go
<1>2. at \in Nat /\ endian \in {"little", "big"} /\ m_offset' \in Nat /\ next \in Nat
  BY <1>1, DecoderFacts
<1> HIDE DEF at, next
<1>3. PICK deeper \in 0 .. 2 :
          /\ Leads(At(deeper, "none", msg.kind), Tail(todo), Idle(msg.kind))
          /\ Len(enclosing) = 0 /\ deeper = 1
  BY <1>1, NextRead
<1>4. Tail(todo) \in Seq(ReadEntries)
  BY <1>1, NextRead
<1>5. enclosing \in Seq(Nat \X {"little", "big"})
  BY DEF IInv, Typed
<1>6. enclosing' \in Seq(Nat \X {"little", "big"}) /\ Len(enclosing') = 1
  BY <1>1, <1>2, <1>3, <1>5
<1>7. Len(enclosing') <= 1 /\ endian' \in {"little", "big"}
  BY <1>1, <1>2, <1>6
<1>8. Leads(At(Len(enclosing'), "none", msg.kind), todo', Idle(msg.kind))
  BY <1>1, <1>3, <1>6
<1> QED
  BY <1>1, <1>2, <1>4, <1>6, <1>7, <1>8, ReadDone

LEMMA LeaveStep ==
    ASSUME IInv, LeaveEncapsulation
    PROVE  IInv'
<1>1. /\ reading /\ todo # <<>> /\ Head(todo)[1] = "leave" /\ Decode /\ todo' = Tail(todo)
      /\ m_offset' = Last(enclosing)[1] /\ endian' = Last(enclosing)[2]
      /\ enclosing' = Front(enclosing)
  BY DEF LeaveEncapsulation, Reads, Go
<1>2. PICK deeper \in 0 .. 2 :
          /\ Leads(At(deeper, "none", msg.kind), Tail(todo), Idle(msg.kind))
          /\ Len(enclosing) = 1 /\ deeper = 0
  BY <1>1, NextRead
<1>3. Tail(todo) \in Seq(ReadEntries)
  BY <1>1, NextRead
<1>4. enclosing \in Seq(Nat \X {"little", "big"})
  BY DEF IInv, Typed
<1>5. m_offset' \in Nat /\ endian' \in {"little", "big"}
  <2>1. Last(enclosing) = enclosing[1] /\ 1 \in 1 .. Len(enclosing)
    BY <1>2 DEF Last
  <2>2. enclosing[1] \in Nat \X {"little", "big"}
    BY <1>4, <2>1
  <2> QED
    BY <1>1, <2>1, <2>2
<1>6. enclosing' \in Seq(Nat \X {"little", "big"}) /\ Len(enclosing') = 0
  <2>1. enclosing' = SubSeq(enclosing, 1, 0)
    BY <1>1, <1>2 DEF Front
  <2> QED
    BY <1>4, <2>1
<1>7. Len(enclosing') <= 1
  BY <1>6
<1>8. Leads(At(Len(enclosing'), "none", msg.kind), todo', Idle(msg.kind))
  BY <1>1, <1>2, <1>6
<1> QED
  BY <1>1, <1>3, <1>5, <1>6, <1>7, <1>8, ReadDone

-----------------------------------------------------------------------------
(* The theorems.                                                             *)

LEMMA InitIsGood == Init => IInv
<1> SUFFICES ASSUME Init PROVE IInv
  OBVIOUS
<1>1. /\ msg \in Messages /\ todo = Message(msg)
      /\ offset = 0 /\ data = <<>> /\ sizeStack = <<>> /\ mark = 0
      /\ reading = FALSE /\ m_offset = 0 /\ endian = "big" /\ enclosing = <<>>
  BY DEF Init
<1>2. Typed
  <2>1. <<>> \in Seq(Octets) /\ <<>> \in Seq(Nat) /\ <<>> \in Seq(Nat \X {"little", "big"})
    OBVIOUS
  <2>2. 0 \in Nat /\ FALSE \in BOOLEAN /\ "big" \in {"little", "big"}
    OBVIOUS
  <2> QED
    BY <1>1, <2>1, <2>2 DEF Typed
<1>3. Part(WriteEntries, todo, At(Len(sizeStack), "start", msg.kind), Final(msg.kind))
  <2>1. Len(sizeStack) = 0
    BY <1>1
  <2> QED
    BY <1>1, <2>1, MessagePart DEF Start
<1>4. Where("start")
  BY <1>1 DEF Where, Content, HeaderDone
<1>5. Writing("start", Len(sizeStack)) /\ "start" \in Markers
  BY <1>3, <1>4 DEF Writing, Part, Markers
<1> QED
  BY <1>1, <1>2, <1>5 DEF IInv

LEMMA EncoderKeeps ==
    ASSUME IInv, EncoderStep
    PROVE  IInv'
<1>1. ASSUME NEW type \in Numbers, WriteNumber(type) PROVE IInv'
  BY <1>1, WriteNumberStep
<1>2. CASE writeEndian
  BY <1>2, writeEndianStep
<1>3. CASE writeBlob
  BY <1>3, writeBlobStep
<1>4. CASE writeString
  BY <1>4, writeStringStep
<1>5. ASSUME NEW type \in {"floats", "doubles"}, writeSequence(type) PROVE IInv'
  BY <1>5, writeSequenceStep
<1>6. CASE writeObject
  BY <1>6, writeObjectStep
<1>7. CASE reserveSize
  BY <1>7, reserveSizeStep
<1>8. CASE fillInSize
  BY <1>8, fillInSizeStep
<1>9. CASE Move
  BY <1>9, MoveStep
<1>10. CASE Mark
  BY <1>10, MarkStep
<1>11. CASE Patch
  BY <1>11, PatchStep
<1>12. CASE setGIOPHeader
  BY <1>12, setGIOPHeaderStep
<1> QED
  BY <1>1, <1>2, <1>3, <1>4, <1>5, <1>6, <1>7, <1>8, <1>9, <1>10, <1>11, <1>12
  DEF EncoderStep

LEMMA DecoderKeeps ==
    ASSUME IInv, DecoderStep
    PROVE  IInv'
<1>1. ASSUME NEW type \in Numbers, ReadNumber(type) PROVE IInv'
  BY <1>1, ReadNumberStep
<1>2. CASE ReadFlags
  BY <1>2, ReadFlagsStep
<1>3. CASE readBlob
  BY <1>3, readBlobStep
<1>4. CASE readString
  BY <1>4, readStringStep
<1>5. ASSUME NEW type \in {"floats", "doubles"}, readSequence(type) PROVE IInv'
  BY <1>5, readSequenceStep
<1>6. CASE scanMessage
  BY <1>6, scanMessageStep
<1>7. CASE readObject
  BY <1>7, readObjectStep
<1>8. CASE readReference
  <2>1. "profiles" \in Expanding /\ "profile" \in Looping
    BY DEF Expanding, Looping
  <2> QED
    BY <1>8, <2>1, RepeatStep DEF readReference
<1>9. CASE readServiceContext
  <2>1. "contexts" \in Expanding /\ "context" \in Looping
    BY DEF Expanding, Looping
  <2> QED
    BY <1>9, <2>1, RepeatStep DEF readServiceContext
<1>10. CASE Loop("profile", Profile) \/ Loop("context", ListenPoint)
  <2>1. "profile" \in Looping /\ "context" \in Looping
    BY DEF Looping
  <2> QED
    BY <1>10, <2>1, ContentsInside, LoopStep
<1>11. CASE EnterEncapsulation
  BY <1>11, EnterStep
<1>12. CASE LeaveEncapsulation
  BY <1>12, LeaveStep
<1>13. CASE MoveOn
  BY <1>13, MoveOnStep
<1> QED
  BY <1>1, <1>2, <1>3, <1>4, <1>5, <1>6, <1>7, <1>8, <1>9, <1>10, <1>11, <1>12, <1>13
  DEF DecoderStep

LEMMA StutterKeeps ==
    ASSUME IInv, UNCHANGED vars
    PROVE  IInv'
<1>1. UNCHANGED <<msg, todo, offset, data, sizeStack, mark, reading, m_offset, endian,
                  enclosing, got>>
  BY DEF vars, encoder, decoder
<1>2. Typed'
  BY <1>1 DEF IInv, Typed
<1>3. CASE reading
  BY <1>1, <1>2, <1>3 DEF IInv, Reading
<1>4. CASE ~reading
  <2>1. PICK k \in Markers : Writing(k, Len(sizeStack))
    BY <1>4 DEF IInv
  <2>2. Where(k)'
    BY <1>1, <2>1 DEF Writing, Where
  <2>3. Writing(k, Len(sizeStack))'
    BY <1>1, <2>1, <2>2 DEF Writing
  <2>4. enclosing' = <<>>
    BY <1>1, <1>4 DEF IInv
  <2> QED
    BY <1>1, <1>2, <1>4, <2>3, <2>4 DEF IInv
<1> QED
  BY <1>3, <1>4

\* Wherever encoder and decoder are in a message, what is still to be written
\* or read leads to its end: sizes are filled in and encapsulations are left in
\* the reverse order they were begun in, the number of service contexts is
\* written where room was left for it, and a reply's header fits into the room
\* that socketRcvd() leaves for it.
THEOREM Invariance == Spec => []IInv
<1>1. ASSUME IInv, [Next]_vars PROVE IInv'
  BY <1>1, EncoderKeeps, DeliverStep, DecoderKeeps, StutterKeeps DEF Next
<1> QED
  BY <1>1, InitIsGood, PTL DEF Spec

LEMMA WritingDepth ==
    ASSUME NEW k, NEW depth, Writing(k, depth)
    PROVE  depth <= 2
<1> DEFINE x == At(depth, k, msg.kind)
<1>1. x \in States
  BY LeadsFrom DEF Writing
<1>2. x.depth = depth
  BY AtFacts
<1> HIDE DEF x
<1>3. depth \in 0 .. 2
  BY <1>1, <1>2, StateIs
<1> QED
  BY <1>3

\* The variables have their types for every version, byte order, length and
\* sequence of arguments: reserveSize() never nests deeper than twice, and
\* readEncapsulation() is never entered twice.
THEOREM TypeCorrect == Spec => []TypeOK
<1>1. ASSUME IInv PROVE TypeOK
  <2>1. /\ msg \in Messages /\ reading \in BOOLEAN
        /\ offset \in Nat /\ mark \in Nat /\ m_offset \in Nat
        /\ endian \in {"little", "big"} /\ sizeStack \in Seq(Nat)
    BY <1>1 DEF IInv, Typed
  <2>2. Len(sizeStack) <= 2 /\ Len(enclosing) <= 1
    <3>1. CASE reading
      BY <1>1, <3>1 DEF IInv, Reading
    <3>2. CASE ~reading
      <4>1. PICK k \in Markers : Writing(k, Len(sizeStack))
        BY <1>1, <3>2 DEF IInv
      <4>2. Len(sizeStack) <= 2
        BY <4>1, WritingDepth
      <4>3. Len(enclosing) = 0
        BY <1>1, <3>2 DEF IInv
      <4>4. Len(enclosing) <= 1
        BY <4>3
      <4> QED
        BY <4>2, <4>4
    <3> QED
      BY <3>1, <3>2
  <2>3. \A i \in DOMAIN sizeStack : sizeStack[i] \in Nat
    BY <2>1
  <2> QED
    BY <2>1, <2>2, <2>3 DEF TypeOK
<1> QED
  BY <1>1, Invariance, PTL

\* setGIOPHeader() writes the size that IIOPStream2Packet cuts the stream by:
\* whatever was skipped or padded is in the vector when it is called, and what
\* setReplyHeader() writes afterwards stays inside of it and off the header.
THEOREM FrameIsExact == Spec => []FrameMatchesHeader
<1>1. ASSUME IInv PROVE FrameMatchesHeader
  <2> SUFFICES ASSUME reading
               PROVE  SubSeq(data, 1, 4) = Magic /\ Len(data) = data[9][1] + 12
    BY DEF FrameMatchesHeader
  <2>1. data \in Seq(Octets) /\ Frame(data)
    BY <1>1 DEF IInv, Typed, Reading
  <2>2. /\ Len(data) \in Nat /\ Len(data) >= 12 /\ Len(data) = data[9][1] + 12
        /\ \A i \in 1 .. 4 : data[i] = Magic[i]
    BY <2>1 DEF Frame
  <2>3. SubSeq(data, 1, 4) = [i \in 1 .. 4 |-> data[i]]
    BY <2>1, <2>2
  <2>4. Magic = [i \in 1 .. 4 |-> Magic[i]]
    BY DEF Magic
  <2> QED
    BY <2>2, <2>3, <2>4
<1> QED
  BY <1>1, Invariance, PTL

=============================================================================
