--------------------------- MODULE OrbCallsProofs ---------------------------
(* Both ORBs' calls are neither lost, duplicated nor answered twice, a      *)
(* caller gets what was done for its own request, and each direction obeys  *)
(* CallContract, for any number of requests.  The invariant describes one   *)
(* direction, the calls of s: its requests are in wire[s] in the order of   *)
(* their ids, after all those that were received; their servants are in     *)
(* running[Other(s)], and the replies in wire[Other(s)].  did[s] says which *)
(* of the three places a request is in.                                     *)
EXTENDS OrbCalls, FiniteSetTheorems, TLAPS

IsRequest(s, i) == wire[s][i].type = "request"
IsReply(s, i) == wire[s][i].type = "reply"

\* A part of TypeOK.
WireIsTyped == wire \in [Sides -> Seq(Requests \cup Replies)]

\* What stays true when a servant has thrown late.
Issued(s) ==
    \A id \in RequestIds : call[s][id] = "unused" <=> id >= requestId[s]

RequestsInOrder(s) ==
    \A i, j \in 1 .. Len(wire[s]) :
        IsRequest(s, i) /\ IsRequest(s, j) /\ i < j => wire[s][i].id < wire[s][j].id

RequestsAreNew(s) ==
    \A i \in 1 .. Len(wire[s]) : IsRequest(s, i) =>
        /\ wire[s][i].id < requestId[s]
        /\ \A old \in RequestIds : did[s][old] # "none" => old < wire[s][i].id

NestedHasId ==
    \A s \in Sides : \A r \in running[s] :
        IF r.phase = "nested" THEN r.nested \in RequestIds ELSE r.nested = NoId

ServantsAreStarted(s) ==
    \A r \in running[Other(s)] :
        /\ did[s][r.id] = "started"
        /\ \A q \in running[Other(s)] : q.id = r.id => q = r

\* What is true until then.
CallsAreOpen(s) ==
    /\ \A i \in 1 .. Len(wire[s]) :
          IsRequest(s, i) => call[s][wire[s][i].id] = wire[s][i].kind
    /\ \A r \in running[Other(s)] : call[s][r.id] = r.kind

RepliesAreServants(s) ==
    \A i \in 1 .. Len(wire[Other(s)]) : IsReply(Other(s), i) =>
        LET m == wire[Other(s)][i]
        IN  /\ call[s][m.id] = "waiting" /\ did[s][m.id] = m.status
            /\ \A j \in 1 .. Len(wire[Other(s)]) :
                  IsReply(Other(s), j) /\ wire[Other(s)][j].id = m.id => j = i

WaitingIsSomewhere(s) ==
    \A id \in RequestIds : call[s][id] = "waiting" =>
        /\ did[s][id] = "none" =>
              \E i \in 1 .. Len(wire[s]) : IsRequest(s, i) /\ wire[s][i].id = id
        /\ did[s][id] = "started" => \E r \in running[Other(s)] : r.id = id
        /\ did[s][id] \in Statuses =>
              \E i \in 1 .. Len(wire[Other(s)]) :
                  IsReply(Other(s), i) /\ wire[Other(s)][i].id = id

OutcomeIs(s) ==
    \A id \in RequestIds : call[s][id] \in Outcomes \ {"unused", "oneway", "waiting"} =>
        did[s][id] \in Statuses /\ call[s][id] = Thrown(did[s][id])

ExecutedIsIssued(s) ==
    \A id \in RequestIds : did[s][id] # "none" => id < requestId[s]

Always(s) == /\ Issued(s) /\ ExecutedIsIssued(s) /\ RequestsInOrder(s)
             /\ RequestsAreNew(s) /\ ServantsAreStarted(s)
WhileIntact(s) == /\ CallsAreOpen(s) /\ RepliesAreServants(s)
                  /\ WaitingIsSomewhere(s) /\ OutcomeIs(s)

IInv == /\ TypeOK /\ NestedIsOpen /\ NestedHasId
        /\ \A s \in Sides : Always(s)
        /\ Intact => \A s \in Sides : WhileIntact(s)

\* A step in which s moves, seen from the two directions.  s appends k (0 or 1)
\* messages, m, to what it sends, and takes j of those it is sent.
Messages == Requests \cup Replies
DidValues == {"none", "started", "missing", "lost", "return"} \cup Throws

Gains(s, k, m) ==
    /\ Len(wire'[s]) = Len(wire[s]) + k
    /\ \A i \in 1 .. Len(wire[s]) : wire'[s][i] = wire[s][i]
    /\ k = 1 => wire'[s][Len(wire[s]) + 1] = m
Loses(s, j) ==
    /\ Len(wire'[s]) = Len(wire[s]) - j
    /\ \A i \in 1 .. Len(wire'[s]) : wire'[s][i] = wire[s][i + j]

\* In the direction of its own calls it may have taken a reply and made a call.
Calls(s, k, m) == k = 1 /\ m.type = "request"
Resumed(s, j, id) == /\ j = 1 /\ IsReply(Other(s), 1) /\ wire[Other(s)][1].id = id
                     /\ call[s][id] = "waiting"
CallerMoves(s, k, m, j) ==
    /\ Gains(s, k, m) /\ Loses(Other(s), j)
    /\ did'[s] = did[s] /\ running'[Other(s)] = running[Other(s)]
    /\ IF Calls(s, k, m)
       THEN /\ m.id = requestId[s] /\ requestId'[s] = requestId[s] + 2
            /\ call'[s][m.id] = m.kind
       ELSE requestId'[s] = requestId[s]
    /\ \A id \in RequestIds : ~(Calls(s, k, m) /\ m.id = id) =>
          call'[s][id] = IF Resumed(s, j, id) THEN Thrown(wire[Other(s)][1].status)
                                              ELSE call[s][id]

\* In the other one, the calls of s, Other(s) has done nothing, or it has run the
\* servant of request id, new or resumed, until did'[s][id] = v.
TakesNoRequest(s, j) == j = 1 => ~IsRequest(s, 1)
SendsNoReply(k, m) == k = 1 => m.type # "reply"
Rests(s, k, m, j) ==
    /\ did'[s] = did[s] /\ running'[Other(s)] = running[Other(s)]
    /\ TakesNoRequest(s, j) /\ SendsNoReply(k, m)
Begins(s, id, kind, new, j) ==
    /\ j = 1 /\ IsRequest(s, 1) /\ wire[s][1].id = id /\ wire[s][1].kind = kind
    /\ running'[Other(s)] = running[Other(s)] \cup new
GoesOn(s, r, id, kind, new, j) ==
    /\ r \in running[Other(s)] /\ r.id = id /\ r.kind = kind
    /\ TakesNoRequest(s, j)
    /\ running'[Other(s)] = (running[Other(s)] \ {r}) \cup new
Stops(k, m, id, kind, v, new) ==
    \/ /\ v = "started" /\ SendsNoReply(k, m)
       /\ \E q \in Dispatches : new = {q} /\ q.id = id /\ q.kind = kind
    \/ /\ v \in Statuses \cup {"other"} /\ new = {}
       /\ IF kind = "waiting" /\ v # "other" THEN k = 1 /\ m = Reply(id, v)
                                             ELSE SendsNoReply(k, m)
    \/ v = "lost" /\ new = {}
ServantMoves(s, k, m, j) ==
    /\ Gains(Other(s), k, m) /\ Loses(s, j)
    /\ call'[s] = call[s] /\ requestId'[s] = requestId[s]
    /\ \/ Rests(s, k, m, j)
       \/ \E id \in RequestIds, kind \in {"waiting", "oneway"}, v \in DidValues,
             new \in SUBSET Dispatches :
             /\ did'[s] = [did[s] EXCEPT ![id] = v]
             /\ Stops(k, m, id, kind, v, new)
             /\ \/ Begins(s, id, kind, new, j)
                \/ \E r \in running[Other(s)] : GoesOn(s, r, id, kind, new, j)

-----------------------------------------------------------------------------
LEMMA SidesFacts ==
    \A s \in Sides : /\ Other(s) \in Sides /\ Other(s) # s /\ Other(Other(s)) = s
                     /\ \A t \in Sides : t = s \/ t = Other(s)
  BY DEF Sides, Other

\* Ids are even, and those that are used up stay below the next one.
LEMMA Ids ==
    /\ RequestIds \subseteq Nat
    /\ TypeOK => \A s \in Sides :
          /\ requestId[s] \in Nat
          /\ \A id \in RequestIds : id < requestId[s] \/ id = requestId[s]
                                    \/ id >= requestId[s] + 2
          /\ requestId[s] \in RequestIds =>
                requestId[s] + 2 \in {2 * n : n \in 0 .. MaxRequests}
<1>1. MaxRequests \in Nat
  BY ConstantsAssumption
<1>2. RequestIds \subseteq Nat
  BY <1>1 DEF RequestIds
<1>3. ASSUME TypeOK, NEW s \in Sides
      PROVE  /\ requestId[s] \in Nat
             /\ \A id \in RequestIds : id < requestId[s] \/ id = requestId[s]
                                       \/ id >= requestId[s] + 2
             /\ requestId[s] \in RequestIds =>
                   requestId[s] + 2 \in {2 * n : n \in 0 .. MaxRequests}
  <2>1. PICK n \in 0 .. MaxRequests : requestId[s] = 2 * n
    BY <1>3 DEF TypeOK
  <2>2. \A id \in RequestIds : id < 2 * n \/ id = 2 * n \/ id >= 2 * n + 2
    BY <1>1 DEF RequestIds
  <2>3. 2 * n \in RequestIds => 2 * n + 2 = 2 * (n + 1) /\ n + 1 \in 0 .. MaxRequests
    BY <1>1 DEF RequestIds
  <2> QED
    BY <1>1, <2>1, <2>2, <2>3
<1> QED
  BY <1>2, <1>3

LEMMA MessageFacts ==
    ASSUME NEW m \in Messages
    PROVE  /\ m.type \in {"request", "reply"} /\ m.id \in RequestIds
           /\ m.type = "request" => /\ m.kind \in {"waiting", "oneway"}
                                    /\ m.target \in {"servant", "missing", "_is_a"}
           /\ m.type = "reply" => m.status \in Statuses
  BY DEF Messages, Requests, Replies

LEMMA Joined ==
    ASSUME NEW S, NEW q \in Seq(S), NEW m \in S
    PROVE  /\ q \o <<>> = q
           /\ q \o <<m>> \in Seq(S) /\ Len(q \o <<m>>) = Len(q) + 1
           /\ \A i \in 1 .. Len(q) : (q \o <<m>>)[i] = q[i]
           /\ (q \o <<m>>)[Len(q) + 1] = m
  OBVIOUS

LEMMA Tailed ==
    ASSUME NEW S, NEW q \in Seq(S), q # <<>>
    PROVE  /\ Tail(q) \in Seq(S) /\ Len(Tail(q)) = Len(q) - 1
           /\ \A i \in 1 .. Len(Tail(q)) : Tail(q)[i] = q[i + 1]
           /\ Head(q) = q[1] /\ Len(q) \in Nat /\ Len(q) >= 1
  OBVIOUS

LEMMA TransmitFacts ==
    ASSUME WireIsTyped, NEW s \in Sides, NEW k \in {0, 1}, NEW m \in Messages,
           NEW j \in {0, 1}, j = 1 => wire[Other(s)] # <<>>,
           NEW inbound,
           inbound = IF j = 1 THEN Tail(wire[Other(s)]) ELSE wire[Other(s)],
           Transmit(s, IF k = 1 THEN <<m>> ELSE <<>>, inbound)
    PROVE  WireIsTyped' /\ Gains(s, k, m) /\ Loses(Other(s), j)
<1> DEFINE M == Requests \cup Replies
           out == IF k = 1 THEN <<m>> ELSE <<>>
<1>1. /\ wire \in [Sides -> Seq(M)] /\ m \in M
      /\ wire' = [wire EXCEPT ![s] = @ \o out, ![Other(s)] = inbound]
      /\ Other(s) \in Sides /\ Other(s) # s
      /\ \A t \in Sides : t = s \/ t = Other(s)
  BY SidesFacts DEF WireIsTyped, Messages, Transmit
<1> HIDE DEF M
<1>2. /\ wire[s] \in Seq(M) /\ wire[Other(s)] \in Seq(M)
  BY <1>1
<1>3. /\ wire[s] \o out \in Seq(M)
      /\ Len(wire[s] \o out) = Len(wire[s]) + k
      /\ \A i \in 1 .. Len(wire[s]) : (wire[s] \o out)[i] = wire[s][i]
      /\ k = 1 => (wire[s] \o out)[Len(wire[s]) + 1] = m
  <2>0. Len(wire[s]) \in Nat
    BY <1>2
  <2>1. CASE k = 1
    BY <1>1, <1>2, <2>1, Joined
  <2>2. CASE k = 0
    <3>1. wire[s] \o out = wire[s]
      BY <1>1, <1>2, <2>2, Joined
    <3> QED
      BY <1>2, <2>0, <2>2, <3>1
  <2> QED
    BY <2>1, <2>2
<1>4. /\ inbound \in Seq(M)
      /\ Len(inbound) = Len(wire[Other(s)]) - j
      /\ \A i \in 1 .. Len(inbound) : inbound[i] = wire[Other(s)][i + j]
  <2>0. Len(wire[Other(s)]) \in Nat
    BY <1>2
  <2>1. CASE j = 1
    BY <1>2, <2>1, Tailed
  <2>2. CASE j = 0
    BY <1>2, <2>0, <2>2
  <2> QED
    BY <2>1, <2>2
<1> HIDE DEF out
<1>5. wire'[s] = wire[s] \o out /\ wire'[Other(s)] = inbound
  BY <1>1
<1>6. wire' \in [Sides -> Seq(M)]
  BY <1>1, <1>3, <1>4
<1> QED
  BY <1>3, <1>4, <1>5, <1>6 DEF WireIsTyped, Gains, Loses, M

-----------------------------------------------------------------------------
\* Messages before and after a step, by their places.
LEMMA Places ==
    ASSUME WireIsTyped, WireIsTyped', NEW s \in Sides
    PROVE  /\ Len(wire[s]) \in Nat /\ Len(wire'[s]) \in Nat
           /\ \A i \in 1 .. Len(wire[s]) :
                 wire[s][i] \in Messages /\ wire[s][i].id \in RequestIds
                 /\ wire[s][i].type \in {"request", "reply"}
           /\ \A i \in 1 .. Len(wire'[s]) :
                 wire'[s][i] \in Messages /\ wire'[s][i].id \in RequestIds
                 /\ wire'[s][i].type \in {"request", "reply"}
<1> DEFINE M == Messages
<1>1. wire[s] \in Seq(M) /\ wire'[s] \in Seq(M)
  BY DEF WireIsTyped, Messages
<1>2. \A m \in M : m.id \in RequestIds /\ m.type \in {"request", "reply"}
  BY MessageFacts
<1> HIDE DEF M
<1>3. /\ Len(wire[s]) \in Nat /\ Len(wire'[s]) \in Nat
      /\ \A i \in 1 .. Len(wire[s]) : wire[s][i] \in M
      /\ \A i \in 1 .. Len(wire'[s]) : wire'[s][i] \in M
  BY <1>1
<1> QED
  BY <1>2, <1>3 DEF M

LEMMA GainedPlaces ==
    ASSUME WireIsTyped, WireIsTyped', NEW s \in Sides, NEW k \in {0, 1}, NEW m,
           Gains(s, k, m)
    PROVE  /\ \A i \in 1 .. Len(wire[s]) : i \in 1 .. Len(wire'[s]) /\ wire'[s][i] = wire[s][i]
           /\ \A i \in 1 .. Len(wire'[s]) :
                 \/ i \in 1 .. Len(wire[s]) /\ wire'[s][i] = wire[s][i]
                 \/ k = 1 /\ i = Len(wire[s]) + 1 /\ wire'[s][i] = m
           /\ k = 1 => Len(wire[s]) + 1 \in 1 .. Len(wire'[s])
                       /\ wire'[s][Len(wire[s]) + 1] = m
<1>1. /\ Len(wire[s]) \in Nat /\ Len(wire'[s]) = Len(wire[s]) + k
      /\ \A i \in 1 .. Len(wire[s]) : wire'[s][i] = wire[s][i]
      /\ k = 1 => wire'[s][Len(wire[s]) + 1] = m
  BY Places DEF Gains
<1>2. \A i \in 1 .. Len(wire'[s]) :
         i \in 1 .. Len(wire[s]) \/ (k = 1 /\ i = Len(wire[s]) + 1)
  BY <1>1
<1>3. /\ \A i \in 1 .. Len(wire[s]) : i \in 1 .. Len(wire'[s])
      /\ k = 1 => Len(wire[s]) + 1 \in 1 .. Len(wire'[s])
  BY <1>1
<1> QED
  BY <1>1, <1>2, <1>3

LEMMA LostPlaces ==
    ASSUME WireIsTyped, WireIsTyped', NEW s \in Sides, NEW j \in {0, 1}, Loses(s, j)
    PROVE  /\ \A i \in 1 .. Len(wire'[s]) :
                 i + j \in 1 .. Len(wire[s]) /\ wire'[s][i] = wire[s][i + j]
           /\ \A i \in 1 .. Len(wire[s]) :
                 \/ i = 1 /\ j = 1
                 \/ i - j \in 1 .. Len(wire'[s]) /\ wire'[s][i - j] = wire[s][i]
           /\ j = 1 => 1 \in 1 .. Len(wire[s])
  BY Places DEF Loses

LEMMA ThrownFacts ==
    \A status \in Statuses : Thrown(status) \in Outcomes \ {"unused", "oneway", "waiting"}
  BY DEF Statuses, Throws, Thrown, Outcomes

\* The reply that is taken settles the call it resumes.
LEMMA ResumedFacts ==
    ASSUME WireIsTyped, WireIsTyped', NEW s \in Sides, NEW j \in {0, 1},
           Loses(Other(s), j), NEW id, Resumed(s, j, id)
    PROVE  /\ 1 \in 1 .. Len(wire[Other(s)]) /\ wire[Other(s)][1].status \in Statuses
           /\ Thrown(wire[Other(s)][1].status) \in Outcomes \ {"unused", "oneway", "waiting"}
<1>1. j = 1 /\ wire[Other(s)][1].type = "reply" /\ Other(s) \in Sides
  BY SidesFacts DEF Resumed, IsReply
<1>2. 1 \in 1 .. Len(wire[Other(s)])
  BY <1>1, LostPlaces
<1>3. wire[Other(s)][1] \in Messages
  BY <1>1, <1>2, Places
<1> QED
  BY <1>1, <1>2, <1>3, MessageFacts, ThrownFacts

LEMMA CallerKeepsAlways ==
    ASSUME TypeOK, WireIsTyped, WireIsTyped', NEW s \in Sides,
           NEW k \in {0, 1}, NEW m \in Messages, NEW j \in {0, 1},
           CallerMoves(s, k, m, j), Always(s)
    PROVE  Always(s)'
<1>1. /\ Gains(s, k, m)
      /\ did'[s] = did[s] /\ running'[Other(s)] = running[Other(s)]
      /\ requestId[s] \in Nat /\ RequestIds \subseteq Nat
      /\ requestId'[s] = IF Calls(s, k, m) THEN requestId[s] + 2 ELSE requestId[s]
      /\ m.id \in RequestIds
      /\ m.type = "request" => m.kind # "unused"
  BY Ids, MessageFacts DEF CallerMoves
<1>2. Issued(s)'
  <2> SUFFICES ASSUME NEW id \in RequestIds
               PROVE  call'[s][id] = "unused" <=> id >= requestId'[s]
    BY DEF Issued
  <2>1. CASE Calls(s, k, m) /\ m.id = id
    BY <1>1, <2>1 DEF CallerMoves, Calls
  <2>2. CASE ~(Calls(s, k, m) /\ m.id = id)
    <3>1. call'[s][id] = "unused" <=> call[s][id] = "unused"
      <4>1. CASE Resumed(s, j, id)
        <5>1. call[s][id] = "waiting" /\ call'[s][id] = Thrown(wire[Other(s)][1].status)
          BY <2>2, <4>1 DEF CallerMoves, Resumed
        <5>2. Thrown(wire[Other(s)][1].status) # "unused"
          BY <4>1, ResumedFacts DEF CallerMoves
        <5> QED
          BY <5>1, <5>2
      <4>2. CASE ~Resumed(s, j, id)
        BY <2>2, <4>2 DEF CallerMoves
      <4> QED
        BY <4>1, <4>2
    <3>2. call[s][id] = "unused" <=> id >= requestId[s]
      BY DEF Always, Issued
    <3>3. CASE Calls(s, k, m)
      <4>1. id # requestId[s]
        BY <2>2, <3>3 DEF CallerMoves
      <4>2. id < requestId[s] \/ id >= requestId[s] + 2
        BY <4>1, Ids
      <4> QED
        BY <1>1, <3>1, <3>2, <3>3, <4>2
    <3>4. CASE ~Calls(s, k, m)
      BY <1>1, <3>1, <3>2, <3>4
    <3> QED
      BY <3>3, <3>4
  <2> QED
    BY <2>1, <2>2
<1>3. ExecutedIsIssued(s)'
  BY <1>1 DEF Always, ExecutedIsIssued
<1>4. \A i \in 1 .. Len(wire'[s]) :
          \/ i \in 1 .. Len(wire[s]) /\ wire'[s][i] = wire[s][i]
          \/ k = 1 /\ i = Len(wire[s]) + 1 /\ wire'[s][i] = m
  BY <1>1, GainedPlaces
<1>5. \A i \in 1 .. Len(wire[s]) : wire[s][i].id \in Nat
  BY <1>1, Places
<1>6. Len(wire[s]) \in Nat
  BY Places
<1>7. RequestsInOrder(s)'
  <2> SUFFICES ASSUME NEW a \in 1 .. Len(wire'[s]), NEW b \in 1 .. Len(wire'[s]),
                      wire'[s][a].type = "request", wire'[s][b].type = "request", a < b
               PROVE  wire'[s][a].id < wire'[s][b].id
    BY DEF RequestsInOrder, IsRequest
  <2>1. a \in 1 .. Len(wire[s]) /\ wire'[s][a] = wire[s][a]
    BY <1>4, <1>6
  <2>2. CASE b \in 1 .. Len(wire[s]) /\ wire'[s][b] = wire[s][b]
    BY <2>1, <2>2 DEF Always, RequestsInOrder, IsRequest
  <2>3. CASE k = 1 /\ wire'[s][b] = m
    <3>1. m.id = requestId[s]
      BY <2>3 DEF CallerMoves, Calls
    <3>2. wire[s][a].id < requestId[s]
      BY <2>1 DEF Always, RequestsAreNew, IsRequest
    <3> QED
      BY <2>1, <2>3, <3>1, <3>2
  <2> QED
    BY <1>4, <2>2, <2>3
<1>8. RequestsAreNew(s)'
  <2> SUFFICES ASSUME NEW a \in 1 .. Len(wire'[s]), wire'[s][a].type = "request"
               PROVE  /\ wire'[s][a].id < requestId'[s]
                      /\ \A old \in RequestIds : did[s][old] # "none" => old < wire'[s][a].id
    BY <1>1 DEF RequestsAreNew, IsRequest
  <2>1. CASE a \in 1 .. Len(wire[s]) /\ wire'[s][a] = wire[s][a]
    BY <1>1, <1>5, <2>1 DEF Always, RequestsAreNew, IsRequest
  <2>2. CASE k = 1 /\ wire'[s][a] = m
    <3>1. Calls(s, k, m) /\ m.id = requestId[s]
      BY <2>2 DEF CallerMoves, Calls
    <3> QED
      BY <1>1, <2>2, <3>1 DEF Always, ExecutedIsIssued
  <2> QED
    BY <1>4, <2>1, <2>2
<1>9. ServantsAreStarted(s)'
  BY <1>1 DEF Always, ServantsAreStarted
<1> QED
  BY <1>2, <1>3, <1>7, <1>8, <1>9 DEF Always

LEMMA ServantKeepsAlways ==
    ASSUME TypeOK, WireIsTyped, WireIsTyped', NEW s \in Sides,
           NEW k \in {0, 1}, NEW m \in Messages, NEW j \in {0, 1},
           ServantMoves(s, k, m, j), Always(s)
    PROVE  Always(s)'
<1>1. /\ Loses(s, j) /\ call'[s] = call[s] /\ requestId'[s] = requestId[s]
      /\ requestId[s] \in Nat /\ RequestIds \subseteq Nat
      /\ did[s] \in [RequestIds -> DidValues]
  BY Ids DEF ServantMoves, TypeOK, DidValues
<1>2. Issued(s)'
  BY <1>1 DEF Always, Issued
<1>3. /\ \A i \in 1 .. Len(wire'[s]) :
            i + j \in 1 .. Len(wire[s]) /\ wire'[s][i] = wire[s][i + j]
      /\ j = 1 => 1 \in 1 .. Len(wire[s])
      /\ Len(wire[s]) \in Nat /\ Len(wire'[s]) \in Nat
  BY <1>1, LostPlaces, Places
<1>4. RequestsInOrder(s)'
  <2> SUFFICES ASSUME NEW a \in 1 .. Len(wire'[s]), NEW b \in 1 .. Len(wire'[s]),
                      wire'[s][a].type = "request", wire'[s][b].type = "request", a < b
               PROVE  wire'[s][a].id < wire'[s][b].id
    BY DEF RequestsInOrder, IsRequest
  <2>1. a + j \in 1 .. Len(wire[s]) /\ wire'[s][a] = wire[s][a + j]
    BY <1>3
  <2>2. b + j \in 1 .. Len(wire[s]) /\ wire'[s][b] = wire[s][b + j]
    BY <1>3
  <2>3. a + j < b + j
    BY <1>3
  <2> QED
    BY <2>1, <2>2, <2>3 DEF Always, RequestsInOrder, IsRequest
<1>5. \A i \in 1 .. Len(wire'[s]) : wire'[s][i].type = "request" =>
          /\ wire'[s][i].id < requestId[s]
          /\ \A old \in RequestIds : did[s][old] # "none" => old < wire'[s][i].id
  BY <1>3 DEF Always, RequestsAreNew, IsRequest
<1>6. CASE Rests(s, k, m, j)
  <2>1. did'[s] = did[s] /\ running'[Other(s)] = running[Other(s)]
    BY <1>6 DEF Rests
  <2>2. ExecutedIsIssued(s)' /\ ServantsAreStarted(s)'
    BY <1>1, <2>1 DEF Always, ExecutedIsIssued, ServantsAreStarted
  <2>3. RequestsAreNew(s)'
    BY <1>1, <1>5, <2>1 DEF RequestsAreNew, IsRequest
  <2> QED
    BY <1>2, <1>4, <2>2, <2>3 DEF Always
<1>7. ASSUME NEW id \in RequestIds, NEW kind \in {"waiting", "oneway"}, NEW v \in DidValues,
             NEW new \in SUBSET Dispatches,
             did'[s] = [did[s] EXCEPT ![id] = v], Stops(k, m, id, kind, v, new),
             \/ Begins(s, id, kind, new, j)
             \/ \E r \in running[Other(s)] : GoesOn(s, r, id, kind, new, j)
      PROVE  Always(s)'
  <2>1. /\ did'[s][id] = v
        /\ \A old \in RequestIds : old # id => did'[s][old] = did[s][old]
    BY <1>1, <1>7
  <2>2. /\ id < requestId[s]
        /\ \A i \in 1 .. Len(wire'[s]) : wire'[s][i].type = "request" =>
              id < wire'[s][i].id
        /\ \A q \in running'[Other(s)] :
              \/ q \in new
              \/ q \in running[Other(s)] /\ q.id # id
    <3>1. CASE Begins(s, id, kind, new, j)
      <4>1. /\ 1 \in 1 .. Len(wire[s]) /\ wire[s][1].type = "request" /\ wire[s][1].id = id
            /\ running'[Other(s)] = running[Other(s)] \cup new
        BY <1>3, <3>1 DEF Begins, IsRequest
      <4>2. id < requestId[s] /\ (did[s][id] # "none" => id < id)
        BY <4>1 DEF Always, RequestsAreNew, IsRequest
      <4>3. did[s][id] = "none"
        BY <1>1, <4>2
      <4>4. \A q \in running[Other(s)] : q.id # id
        BY <4>3 DEF Always, ServantsAreStarted
      <4>5. \A i \in 1 .. Len(wire'[s]) : wire'[s][i].type = "request" => id < wire'[s][i].id
        <5>1. j = 1
          BY <3>1 DEF Begins
        <5>2. \A i \in 1 .. Len(wire'[s]) : i + 1 \in 1 .. Len(wire[s]) /\ 1 < i + 1
          BY <1>3, <5>1
        <5> QED
          BY <1>3, <4>1, <5>1, <5>2 DEF Always, RequestsInOrder, IsRequest
      <4> QED
        BY <4>1, <4>2, <4>4, <4>5
    <3>2. ASSUME NEW r \in running[Other(s)], GoesOn(s, r, id, kind, new, j)
          PROVE  <2>2!1 /\ <2>2!2 /\ <2>2!3
      <4>1. r.id = id /\ did[s][id] # "none"
        BY <3>2 DEF GoesOn, Always, ServantsAreStarted
      <4>2. id < requestId[s]
        BY <4>1 DEF Always, ExecutedIsIssued
      <4>3. \A q \in running'[Other(s)] : q \in new \/ (q \in running[Other(s)] /\ q.id # id)
        BY <3>2, <4>1 DEF GoesOn, Always, ServantsAreStarted
      <4> QED
        BY <1>5, <4>1, <4>2, <4>3
    <3> QED
      BY <1>7, <3>1, <3>2
  <2>3. \A q \in new : q.id = id /\ v = "started" /\ new = {q}
    BY <1>7 DEF Stops
  <2>4. ExecutedIsIssued(s)'
    BY <1>1, <2>1, <2>2 DEF Always, ExecutedIsIssued
  <2>5. RequestsAreNew(s)'
    BY <1>1, <1>5, <2>1, <2>2 DEF RequestsAreNew, IsRequest
  <2>6. ServantsAreStarted(s)'
    <3> SUFFICES ASSUME NEW q \in running'[Other(s)]
                 PROVE  /\ did'[s][q.id] = "started"
                        /\ \A p \in running'[Other(s)] : p.id = q.id => p = q
      BY DEF ServantsAreStarted
    <3>1. CASE q \in new
      BY <2>1, <2>2, <2>3, <3>1
    <3>2. CASE q \in running[Other(s)] /\ q.id # id
      <4>1. q.id \in RequestIds
        BY <3>2, SidesFacts DEF TypeOK, Dispatches
      <4>2. did[s][q.id] = "started"
        BY <3>2 DEF Always, ServantsAreStarted
      <4> QED
        BY <2>1, <2>2, <2>3, <3>2, <4>1, <4>2 DEF Always, ServantsAreStarted
    <3> QED
      BY <2>2, <3>1, <3>2
  <2> QED
    BY <1>2, <1>4, <2>4, <2>5, <2>6 DEF Always
<1> QED
  BY <1>6, <1>7 DEF ServantMoves

-----------------------------------------------------------------------------
LEMMA CallerKeepsIntact ==
    ASSUME TypeOK, WireIsTyped, WireIsTyped', NEW s \in Sides,
           NEW k \in {0, 1}, NEW m \in Messages, NEW j \in {0, 1},
           CallerMoves(s, k, m, j), Always(s), WhileIntact(s)
    PROVE  WhileIntact(s)'
<1> DEFINE d == Other(s)
           head == wire[d][1]
<1>1. /\ did'[s] = did[s] /\ running'[d] = running[d] /\ d \in Sides
      /\ Gains(s, k, m) /\ Loses(d, j)
      /\ requestId[s] \in Nat /\ RequestIds \subseteq Nat
      /\ \A id \in RequestIds : did[s][id] \in DidValues
      /\ \A r \in running[d] : r.id \in RequestIds
  <2>1. d \in Sides
    BY SidesFacts
  <2>2. did'[s] = did[s] /\ running'[d] = running[d] /\ Gains(s, k, m) /\ Loses(d, j)
    BY DEF CallerMoves
  <2>3. requestId[s] \in Nat /\ RequestIds \subseteq Nat
    BY Ids
  <2>4. \A id \in RequestIds : did[s][id] \in DidValues
    BY DEF TypeOK, DidValues
  <2>5. \A r \in running[d] : r.id \in RequestIds
    BY <2>1 DEF TypeOK, Dispatches
  <2> QED
    BY <2>1, <2>2, <2>3, <2>4, <2>5
<1>2. /\ \A i \in 1 .. Len(wire[s]) : i \in 1 .. Len(wire'[s]) /\ wire'[s][i] = wire[s][i]
      /\ \A i \in 1 .. Len(wire'[s]) :
            \/ i \in 1 .. Len(wire[s]) /\ wire'[s][i] = wire[s][i]
            \/ k = 1 /\ i = Len(wire[s]) + 1 /\ wire'[s][i] = m
      /\ k = 1 => Len(wire[s]) + 1 \in 1 .. Len(wire'[s])
                  /\ wire'[s][Len(wire[s]) + 1] = m
  BY <1>1, GainedPlaces
<1>3. /\ \A i \in 1 .. Len(wire'[d]) :
            i + j \in 1 .. Len(wire[d]) /\ wire'[d][i] = wire[d][i + j]
      /\ \A i \in 1 .. Len(wire[d]) :
            \/ i = 1 /\ j = 1
            \/ i - j \in 1 .. Len(wire'[d]) /\ wire'[d][i - j] = wire[d][i]
  BY <1>1, LostPlaces
<1>4. /\ \A i \in 1 .. Len(wire[s]) : wire[s][i].id \in RequestIds
      /\ \A i \in 1 .. Len(wire[d]) : wire[d][i].id \in RequestIds
      /\ Len(wire[d]) \in Nat /\ Len(wire'[d]) \in Nat
  BY <1>1, Places
<1>5. ASSUME NEW id \in RequestIds, Resumed(s, j, id)
      PROVE  /\ j = 1 /\ 1 \in 1 .. Len(wire[d]) /\ IsReply(d, 1) /\ head.id = id
             /\ did[s][id] = head.status /\ did[s][id] \in Statuses
             /\ call[s][id] = "waiting"
  <2>1. 1 \in 1 .. Len(wire[d]) /\ head.status \in Statuses
    BY <1>5, ResumedFacts DEF CallerMoves
  <2> QED
    BY <1>5, <2>1 DEF Resumed, WhileIntact, RepliesAreServants
<1>6. "none" \notin Statuses /\ "started" \notin Statuses
  BY DEF Statuses, Throws
<1>7. ASSUME NEW id \in RequestIds, id < requestId[s], ~Resumed(s, j, id)
      PROVE  call'[s][id] = call[s][id]
  <2>1. ~(Calls(s, k, m) /\ m.id = id)
    BY <1>1, <1>7 DEF CallerMoves
  <2> QED
    BY <1>7, <2>1 DEF CallerMoves
<1>8. CallsAreOpen(s)'
  <2>1. ASSUME NEW i \in 1 .. Len(wire'[s]), wire'[s][i].type = "request"
        PROVE  call'[s][wire'[s][i].id] = wire'[s][i].kind
    <3>1. CASE i \in 1 .. Len(wire[s]) /\ wire'[s][i] = wire[s][i]
      <4> DEFINE id == wire[s][i].id
      <4>1. /\ id \in RequestIds /\ id < requestId[s]
            /\ did[s][id] # "none" => id < id
            /\ call[s][id] = wire[s][i].kind
        BY <1>4, <2>1, <3>1 DEF Always, RequestsAreNew, WhileIntact, CallsAreOpen, IsRequest
      <4> HIDE DEF id
      <4>2. did[s][id] = "none"
        <5>1. id \in Nat /\ ~(id < id)
          BY <4>1, Ids
        <5> QED
          BY <4>1, <5>1
      <4>3. ~Resumed(s, j, id)
        BY <1>5, <1>6, <4>1, <4>2
      <4>4. call'[s][id] = wire[s][i].kind
        BY <1>7, <4>1, <4>3
      <4> QED
        BY <3>1, <4>4 DEF id
    <3>2. CASE k = 1 /\ wire'[s][i] = m
      BY <2>1, <3>2 DEF CallerMoves, Calls
    <3> QED
      BY <1>2, <3>1, <3>2
  <2>2. ASSUME NEW r \in running[d]
        PROVE  call'[s][r.id] = r.kind
    <3>1. /\ r.id \in RequestIds /\ did[s][r.id] = "started" /\ call[s][r.id] = r.kind
      BY <1>1 DEF Always, ServantsAreStarted, WhileIntact, CallsAreOpen
    <3>2. r.id < requestId[s]
      BY <3>1 DEF Always, ExecutedIsIssued
    <3>3. ~Resumed(s, j, r.id)
      BY <1>5, <1>6, <3>1
    <3> QED
      BY <1>7, <3>1, <3>2, <3>3
  <2>3. \A r \in running'[d] : call'[s][r.id] = r.kind
    <3>1. running'[d] = running[d]
      BY <1>1
    <3> QED
      BY <2>2, <3>1
  <2>4. \A i \in 1 .. Len(wire'[s]) :
            IsRequest(s, i)' => call'[s][wire'[s][i].id] = wire'[s][i].kind
    BY <2>1 DEF IsRequest
  <2> HIDE DEF d
  <2> QED
    BY <2>3, <2>4 DEF CallsAreOpen, d
<1>9. ASSUME NEW id \in RequestIds, call[s][id] = "waiting"
      PROVE  id < requestId[s]
  <2>1. ~(id >= requestId[s])
    BY <1>9 DEF Always, Issued
  <2>2. requestId[s] \in Nat /\ id \in Nat
    BY <1>1
  <2> QED
    BY <2>1, <2>2
<1>10. RepliesAreServants(s)'
  <2> SUFFICES ASSUME NEW i \in 1 .. Len(wire'[d]), wire'[d][i].type = "reply"
               PROVE  /\ call'[s][wire'[d][i].id] = "waiting"
                      /\ did'[s][wire'[d][i].id] = wire'[d][i].status
                      /\ \A h \in 1 .. Len(wire'[d]) :
                            wire'[d][h].type = "reply" /\ wire'[d][h].id = wire'[d][i].id
                            => h = i
    BY DEF RepliesAreServants, IsReply
  <2> DEFINE id == wire'[d][i].id
  <2>1. /\ i + j \in 1 .. Len(wire[d]) /\ wire'[d][i] = wire[d][i + j]
        /\ id \in RequestIds
    BY <1>3, <1>4
  <2>2. /\ call[s][id] = "waiting" /\ did[s][id] = wire'[d][i].status
        /\ \A h \in 1 .. Len(wire[d]) :
              wire[d][h].type = "reply" /\ wire[d][h].id = id => h = i + j
    BY <2>1 DEF WhileIntact, RepliesAreServants, IsReply
  <2>3. ~Resumed(s, j, id)
    <3>1. SUFFICES ASSUME Resumed(s, j, id) PROVE FALSE
      OBVIOUS
    <3>2. j = 1 /\ 1 \in 1 .. Len(wire[d]) /\ head.type = "reply" /\ head.id = id
      BY <1>5, <2>1, <3>1 DEF IsReply
    <3>3. 1 = i + 1
      BY <2>2, <3>2
    <3> QED
      BY <1>4, <3>3
  <2>4. call'[s][id] = "waiting"
    BY <1>7, <1>9, <2>1, <2>2, <2>3
  <2>5. ASSUME NEW h \in 1 .. Len(wire'[d]), wire'[d][h].type = "reply", wire'[d][h].id = id
        PROVE  h = i
    <3>1. h + j = i + j
      BY <1>3, <2>2, <2>5
    <3> QED
      BY <1>4, <3>1
  <2> QED
    BY <1>1, <2>2, <2>4, <2>5
<1>11. WaitingIsSomewhere(s)'
  <2> SUFFICES ASSUME NEW id \in RequestIds, call'[s][id] = "waiting"
               PROVE  /\ did[s][id] = "none" =>
                            \E i \in 1 .. Len(wire'[s]) :
                               wire'[s][i].type = "request" /\ wire'[s][i].id = id
                      /\ did[s][id] = "started" => \E r \in running[d] : r.id = id
                      /\ did[s][id] \in Statuses =>
                            \E i \in 1 .. Len(wire'[d]) :
                               wire'[d][i].type = "reply" /\ wire'[d][i].id = id
    BY <1>1 DEF WaitingIsSomewhere, IsRequest, IsReply
  <2>1. CASE Calls(s, k, m) /\ m.id = id
    <3>1. id = requestId[s]
      BY <2>1 DEF CallerMoves
    <3>2. did[s][id] = "none"
      BY <1>1, <3>1 DEF Always, ExecutedIsIssued
    <3> QED
      BY <1>2, <1>6, <2>1, <3>2 DEF Calls
  <2>2. CASE ~(Calls(s, k, m) /\ m.id = id)
    <3>1. ~Resumed(s, j, id)
      <4>1. SUFFICES ASSUME Resumed(s, j, id) PROVE FALSE
        OBVIOUS
      <4>2. call'[s][id] = Thrown(head.status)
        BY <2>2, <4>1 DEF CallerMoves
      <4> QED
        BY <4>1, <4>2, ResumedFacts DEF CallerMoves
    <3>2. call[s][id] = "waiting"
      BY <2>2, <3>1 DEF CallerMoves
    <3>3. did[s][id] = "none" =>
             \E i \in 1 .. Len(wire'[s]) : wire'[s][i].type = "request" /\ wire'[s][i].id = id
      BY <1>2, <3>2 DEF WhileIntact, WaitingIsSomewhere, IsRequest
    <3>4. did[s][id] = "started" => \E r \in running[d] : r.id = id
      BY <3>2 DEF WhileIntact, WaitingIsSomewhere
    <3>5. ASSUME did[s][id] \in Statuses
          PROVE  \E i \in 1 .. Len(wire'[d]) : wire'[d][i].type = "reply" /\ wire'[d][i].id = id
      <4>1. PICK i \in 1 .. Len(wire[d]) : wire[d][i].type = "reply" /\ wire[d][i].id = id
        BY <3>2, <3>5 DEF WhileIntact, WaitingIsSomewhere, IsReply
      <4>2. ~(i = 1 /\ j = 1)
        BY <3>1, <3>2, <4>1 DEF Resumed, IsReply
      <4> QED
        BY <1>3, <4>1, <4>2
    <3> QED
      BY <3>3, <3>4, <3>5
  <2> QED
    BY <2>1, <2>2
<1>12. OutcomeIs(s)'
  <2> SUFFICES ASSUME NEW id \in RequestIds,
                      call'[s][id] \in Outcomes \ {"unused", "oneway", "waiting"}
               PROVE  did[s][id] \in Statuses /\ call'[s][id] = Thrown(did[s][id])
    BY <1>1 DEF OutcomeIs
  <2>1. ~(Calls(s, k, m) /\ m.id = id)
    BY MessageFacts DEF CallerMoves, Calls
  <2>2. CASE Resumed(s, j, id)
    BY <1>5, <2>1, <2>2 DEF CallerMoves
  <2>3. CASE ~Resumed(s, j, id)
    <3>1. call'[s][id] = call[s][id]
      BY <2>1, <2>3 DEF CallerMoves
    <3> QED
      BY <3>1 DEF WhileIntact, OutcomeIs
  <2> QED
    BY <2>2, <2>3
<1> QED
  BY <1>8, <1>10, <1>11, <1>12 DEF WhileIntact

LEMMA ServantKeepsIntact ==
    ASSUME TypeOK, WireIsTyped, WireIsTyped', NEW s \in Sides,
           NEW k \in {0, 1}, NEW m \in Messages, NEW j \in {0, 1},
           ServantMoves(s, k, m, j), Always(s), WhileIntact(s), Intact'
    PROVE  WhileIntact(s)'
<1> DEFINE d == Other(s)
<1>1. /\ Gains(d, k, m) /\ Loses(s, j) /\ call'[s] = call[s] /\ d \in Sides
      /\ did[s] \in [RequestIds -> DidValues]
      /\ \A r \in running[d] : r.id \in RequestIds
      /\ RequestIds \subseteq Nat
  BY SidesFacts, Ids DEF ServantMoves, TypeOK, DidValues, Dispatches
<1>2. /\ \A i \in 1 .. Len(wire[d]) : i \in 1 .. Len(wire'[d]) /\ wire'[d][i] = wire[d][i]
      /\ \A i \in 1 .. Len(wire'[d]) :
            \/ i \in 1 .. Len(wire[d]) /\ wire'[d][i] = wire[d][i]
            \/ k = 1 /\ i = Len(wire[d]) + 1 /\ wire'[d][i] = m
      /\ k = 1 => Len(wire[d]) + 1 \in 1 .. Len(wire'[d])
                  /\ wire'[d][Len(wire[d]) + 1] = m
  BY <1>1, GainedPlaces
<1>3. /\ \A i \in 1 .. Len(wire'[s]) :
            i + j \in 1 .. Len(wire[s]) /\ wire'[s][i] = wire[s][i + j]
      /\ \A i \in 1 .. Len(wire[s]) :
            \/ i = 1 /\ j = 1
            \/ i - j \in 1 .. Len(wire'[s]) /\ wire'[s][i - j] = wire[s][i]
      /\ j = 1 => 1 \in 1 .. Len(wire[s])
  BY <1>1, LostPlaces
<1>4. /\ \A i \in 1 .. Len(wire[d]) : wire[d][i].id \in RequestIds
      /\ \A i \in 1 .. Len(wire[d]) : wire[d][i].type = "reply" =>
             wire[d][i].status \in Statuses
      /\ Len(wire[d]) \in Nat
  BY <1>1, Places, MessageFacts
<1>5. /\ "none" \notin Statuses /\ "started" \notin Statuses /\ "other" \notin Statuses
      /\ "lost" \notin Statuses
  BY DEF Statuses, Throws
<1>6. \A i \in 1 .. Len(wire'[s]) :
          wire'[s][i].type = "request" => call'[s][wire'[s][i].id] = wire'[s][i].kind
  <2> SUFFICES ASSUME NEW i \in 1 .. Len(wire'[s]), wire'[s][i].type = "request"
               PROVE  call'[s][wire'[s][i].id] = wire'[s][i].kind
    OBVIOUS
  <2>1. i + j \in 1 .. Len(wire[s]) /\ wire'[s][i] = wire[s][i + j]
    BY <1>3
  <2>2. call[s][wire[s][i + j].id] = wire[s][i + j].kind
    BY <2>1 DEF WhileIntact, CallsAreOpen, IsRequest
  <2> QED
    BY <1>1, <2>1, <2>2
<1>7. CASE Rests(s, k, m, j)
  <2>1. /\ did'[s] = did[s] /\ running'[d] = running[d]
        /\ j = 1 => wire[s][1].type # "request"
        /\ k = 1 => m.type # "reply"
    BY <1>7 DEF Rests, TakesNoRequest, SendsNoReply, IsRequest
  <2>2. CallsAreOpen(s)'
    BY <1>1, <1>6, <2>1 DEF WhileIntact, CallsAreOpen, IsRequest
  <2>3. RepliesAreServants(s)'
    <3>1. \A i \in 1 .. Len(wire'[d]) : wire'[d][i].type = "reply" =>
              i \in 1 .. Len(wire[d]) /\ wire'[d][i] = wire[d][i]
      <4> SUFFICES ASSUME NEW i \in 1 .. Len(wire'[d]), wire'[d][i].type = "reply"
                   PROVE  i \in 1 .. Len(wire[d]) /\ wire'[d][i] = wire[d][i]
        OBVIOUS
      <4>1. ~(k = 1 /\ wire'[d][i] = m)
        BY <2>1
      <4> QED
        BY <1>2, <4>1
    <3> SUFFICES ASSUME NEW i \in 1 .. Len(wire'[d]), wire'[d][i].type = "reply"
                 PROVE  /\ call'[s][wire'[d][i].id] = "waiting"
                        /\ did'[s][wire'[d][i].id] = wire'[d][i].status
                        /\ \A h \in 1 .. Len(wire'[d]) :
                              wire'[d][h].type = "reply" /\ wire'[d][h].id = wire'[d][i].id
                              => h = i
      BY DEF RepliesAreServants, IsReply
    <3>2. i \in 1 .. Len(wire[d]) /\ wire'[d][i] = wire[d][i]
      BY <3>1
    <3>3. /\ call[s][wire[d][i].id] = "waiting" /\ did[s][wire[d][i].id] = wire[d][i].status
          /\ \A h \in 1 .. Len(wire[d]) :
                wire[d][h].type = "reply" /\ wire[d][h].id = wire[d][i].id => h = i
      BY <3>2 DEF WhileIntact, RepliesAreServants, IsReply
    <3> QED
      BY <1>1, <2>1, <3>1, <3>2, <3>3
  <2>4. WaitingIsSomewhere(s)'
    <3>0. call'[s] = call[s] /\ did'[s] = did[s] /\ running'[d] = running[d]
      BY <1>1, <2>1
    <3> SUFFICES ASSUME NEW id \in RequestIds, call[s][id] = "waiting"
                 PROVE  /\ did[s][id] = "none" =>
                              \E i \in 1 .. Len(wire'[s]) :
                                 wire'[s][i].type = "request" /\ wire'[s][i].id = id
                        /\ did[s][id] = "started" => \E r \in running[d] : r.id = id
                        /\ did[s][id] \in Statuses =>
                              \E i \in 1 .. Len(wire'[d]) :
                                 wire'[d][i].type = "reply" /\ wire'[d][i].id = id
      BY <3>0 DEF WaitingIsSomewhere, IsRequest, IsReply
    <3>1. ASSUME did[s][id] = "none"
          PROVE  \E i \in 1 .. Len(wire'[s]) : wire'[s][i].type = "request" /\ wire'[s][i].id = id
      <4>1. PICK i \in 1 .. Len(wire[s]) : wire[s][i].type = "request" /\ wire[s][i].id = id
        BY <3>1 DEF WhileIntact, WaitingIsSomewhere, IsRequest
      <4>2. ~(i = 1 /\ j = 1)
        BY <2>1, <4>1
      <4>3. i - j \in 1 .. Len(wire'[s]) /\ wire'[s][i - j] = wire[s][i]
        BY <1>3, <4>2
      <4> QED
        BY <4>1, <4>3
    <3>2. did[s][id] = "started" => \E r \in running[d] : r.id = id
      BY DEF WhileIntact, WaitingIsSomewhere
    <3>3. did[s][id] \in Statuses =>
             \E i \in 1 .. Len(wire'[d]) : wire'[d][i].type = "reply" /\ wire'[d][i].id = id
      <4> SUFFICES ASSUME did[s][id] \in Statuses
                   PROVE  \E i \in 1 .. Len(wire'[d]) :
                             wire'[d][i].type = "reply" /\ wire'[d][i].id = id
        OBVIOUS
      <4>1. PICK i \in 1 .. Len(wire[d]) : wire[d][i].type = "reply" /\ wire[d][i].id = id
        BY DEF WhileIntact, WaitingIsSomewhere, IsReply
      <4>2. i \in 1 .. Len(wire'[d]) /\ wire'[d][i] = wire[d][i]
        BY <1>2
      <4> QED
        BY <4>1, <4>2
    <3> QED
      BY <3>1, <3>2, <3>3
  <2>5. OutcomeIs(s)'
    BY <1>1, <2>1 DEF WhileIntact, OutcomeIs
  <2> QED
    BY <2>2, <2>3, <2>4, <2>5 DEF WhileIntact
<1>8. ASSUME NEW id \in RequestIds, NEW kind \in {"waiting", "oneway"}, NEW v \in DidValues,
             NEW new \in SUBSET Dispatches,
             did'[s] = [did[s] EXCEPT ![id] = v], Stops(k, m, id, kind, v, new),
             \/ Begins(s, id, kind, new, j)
             \/ \E r \in running[d] : GoesOn(s, r, id, kind, new, j)
      PROVE  WhileIntact(s)'
  <2>1. /\ did'[s][id] = v
        /\ \A old \in RequestIds : old # id => did'[s][old] = did[s][old]
    BY <1>1, <1>8
  <2>2. v # "lost"
    BY <1>8, <2>1 DEF Intact
  \* Before, the request was on its way or its servant was running.
  <2>3. /\ call[s][id] = kind /\ did[s][id] \notin Statuses
        /\ \A q \in running'[d] : q \in new \/ q \in running[d]
        /\ \A q \in running[d] : q.id = id \/ q \in running'[d]
        /\ \A q \in new : q \in running'[d]
        /\ j = 1 /\ wire[s][1].type = "request" => wire[s][1].id = id
    <3>1. CASE Begins(s, id, kind, new, j)
      <4>1. /\ 1 \in 1 .. Len(wire[s]) /\ wire[s][1].type = "request" /\ wire[s][1].id = id
            /\ wire[s][1].kind = kind
            /\ running'[d] = running[d] \cup new
        BY <1>3, <3>1 DEF Begins, IsRequest
      <4>2. did[s][id] # "none" => id < id
        BY <4>1 DEF Always, RequestsAreNew, IsRequest
      <4>3. did[s][id] = "none"
        BY <1>1, <4>2
      <4>4. call[s][id] = kind
        BY <4>1 DEF WhileIntact, CallsAreOpen, IsRequest
      <4> QED
        BY <1>5, <4>1, <4>3, <4>4
    <3>2. ASSUME NEW r \in running[d], GoesOn(s, r, id, kind, new, j)
          PROVE  <2>3
      <4>1. /\ r.id = id /\ r.kind = kind /\ did[s][id] = "started" /\ call[s][id] = kind
            /\ running'[d] = (running[d] \ {r}) \cup new
            /\ j = 1 => wire[s][1].type # "request"
        BY <3>2 DEF GoesOn, Always, ServantsAreStarted, WhileIntact, CallsAreOpen,
                    TakesNoRequest, IsRequest
      <4> QED
        BY <1>5, <4>1
    <3> QED
      BY <1>8, <3>1, <3>2
  \* Afterwards its servant is running, or it is answered.
  <2>4. \/ /\ v = "started"
           /\ k = 1 => m.type # "reply"
           /\ \E q \in new : new = {q} /\ q.id = id /\ q.kind = kind
        \/ /\ v \in Statuses /\ kind = "waiting" /\ new = {}
           /\ k = 1 /\ m.type = "reply" /\ m.id = id /\ m.status = v
        \/ /\ new = {}
           /\ k = 1 => m.type # "reply"
           /\ v = "other" \/ (v \in Statuses /\ kind # "waiting")
    BY <1>8, <2>2 DEF Stops, SendsNoReply, Reply
  <2>5. CallsAreOpen(s)'
    <3>1. \A q \in running'[d] : call[s][q.id] = q.kind
      BY <2>3, <2>4 DEF WhileIntact, CallsAreOpen
    <3> QED
      BY <1>1, <1>6, <3>1 DEF CallsAreOpen, IsRequest
  <2>6. \A i \in 1 .. Len(wire[d]) : wire[d][i].type = "reply" => wire[d][i].id # id
    BY <1>4, <2>3 DEF WhileIntact, RepliesAreServants, IsReply
  <2>7. RepliesAreServants(s)'
    <3> SUFFICES ASSUME NEW i \in 1 .. Len(wire'[d]), wire'[d][i].type = "reply"
                 PROVE  /\ call[s][wire'[d][i].id] = "waiting"
                        /\ did'[s][wire'[d][i].id] = wire'[d][i].status
                        /\ \A h \in 1 .. Len(wire'[d]) :
                              wire'[d][h].type = "reply" /\ wire'[d][h].id = wire'[d][i].id
                              => h = i
      BY <1>1 DEF RepliesAreServants, IsReply
    <3>1. CASE i \in 1 .. Len(wire[d]) /\ wire'[d][i] = wire[d][i]
      <4>1. /\ wire[d][i].id # id /\ wire[d][i].id \in RequestIds
            /\ call[s][wire[d][i].id] = "waiting"
            /\ did[s][wire[d][i].id] = wire[d][i].status
            /\ \A h \in 1 .. Len(wire[d]) :
                  wire[d][h].type = "reply" /\ wire[d][h].id = wire[d][i].id => h = i
        BY <1>4, <2>6, <3>1 DEF WhileIntact, RepliesAreServants, IsReply
      <4>2. \A h \in 1 .. Len(wire'[d]) :
               wire'[d][h].type = "reply" /\ wire'[d][h].id = wire'[d][i].id
               => h \in 1 .. Len(wire[d]) /\ wire'[d][h] = wire[d][h]
        BY <1>2, <2>4, <3>1, <4>1
      <4> QED
        BY <2>1, <3>1, <4>1, <4>2
    <3>2. CASE k = 1 /\ i = Len(wire[d]) + 1 /\ wire'[d][i] = m
      <4>1. /\ v \in Statuses /\ kind = "waiting" /\ m.id = id /\ m.status = v
        BY <2>4, <3>2
      <4>2. \A h \in 1 .. Len(wire'[d]) :
               wire'[d][h].type = "reply" /\ wire'[d][h].id = id => h = i
        BY <1>2, <2>6, <3>2
      <4> QED
        BY <2>1, <2>3, <3>2, <4>1, <4>2
    <3> QED
      BY <1>2, <3>1, <3>2
  <2>8. WaitingIsSomewhere(s)'
    <3> SUFFICES ASSUME NEW x \in RequestIds, call[s][x] = "waiting"
                 PROVE  /\ did'[s][x] = "none" =>
                              \E i \in 1 .. Len(wire'[s]) :
                                 wire'[s][i].type = "request" /\ wire'[s][i].id = x
                        /\ did'[s][x] = "started" => \E r \in running'[d] : r.id = x
                        /\ did'[s][x] \in Statuses =>
                              \E i \in 1 .. Len(wire'[d]) :
                                 wire'[d][i].type = "reply" /\ wire'[d][i].id = x
      BY <1>1 DEF WaitingIsSomewhere, IsRequest, IsReply
    <3>1. CASE x = id
      <4>1. kind = "waiting"
        BY <2>3, <3>1
      <4>2. v # "none"
        BY <1>5, <2>4
      <4>3. v = "started" => \E r \in running'[d] : r.id = id
        BY <1>5, <2>3, <2>4
      <4>4. v \in Statuses => k = 1 /\ m.type = "reply" /\ m.id = id
        BY <1>5, <2>4, <4>1
      <4> QED
        BY <1>2, <2>1, <3>1, <4>2, <4>3, <4>4
    <3>2. CASE x # id
      <4>1. did'[s][x] = did[s][x]
        BY <2>1, <3>2
      <4>2. ASSUME did[s][x] = "none"
            PROVE  \E i \in 1 .. Len(wire'[s]) :
                      wire'[s][i].type = "request" /\ wire'[s][i].id = x
        <5>1. PICK i \in 1 .. Len(wire[s]) : wire[s][i].type = "request" /\ wire[s][i].id = x
          BY <4>2 DEF WhileIntact, WaitingIsSomewhere, IsRequest
        <5> QED
          BY <1>3, <2>3, <3>2, <5>1
      <4>3. did[s][x] = "started" => \E r \in running'[d] : r.id = x
        BY <2>3, <3>2 DEF WhileIntact, WaitingIsSomewhere
      <4>4. did[s][x] \in Statuses =>
               \E i \in 1 .. Len(wire'[d]) : wire'[d][i].type = "reply" /\ wire'[d][i].id = x
        BY <1>2 DEF WhileIntact, WaitingIsSomewhere, IsReply
      <4> QED
        BY <4>1, <4>2, <4>3, <4>4
    <3> QED
      BY <3>1, <3>2
  <2>9. OutcomeIs(s)'
    <3> SUFFICES ASSUME NEW x \in RequestIds,
                        call[s][x] \in Outcomes \ {"unused", "oneway", "waiting"}
                 PROVE  did'[s][x] \in Statuses /\ call[s][x] = Thrown(did'[s][x])
      BY <1>1 DEF OutcomeIs
    <3>1. x # id
      BY <2>3
    <3> QED
      BY <2>1, <3>1 DEF WhileIntact, OutcomeIs
  <2> QED
    BY <2>5, <2>7, <2>8, <2>9 DEF WhileIntact
<1> QED
  BY <1>7, <1>8 DEF ServantMoves

-----------------------------------------------------------------------------
\* A servant that proceeds, in terms of the two directions.
RunsOn(s, r, inbound, before, k, m, v, new) ==
    /\ Transmit(s, IF k = 1 THEN <<m>> ELSE <<>>, inbound)
    /\ did' = [did EXCEPT ![Other(s)][r.id] = v]
    /\ running' = [running EXCEPT ![s] = (@ \ {r}) \cup new]
    /\ Stops(k, m, r.id, r.kind, v, new)
    /\ IF Calls(s, k, m)
       THEN /\ requestId[s] \in RequestIds /\ m.id = requestId[s] /\ FetchAdd(s)
            /\ call' = [before EXCEPT ![s][m.id] = m.kind]
       ELSE requestId' = requestId /\ call' = before
    /\ \A q \in new : IF q.phase = "nested"
                      THEN Calls(s, k, m) /\ q.nested = m.id /\ m.kind = "waiting"
                      ELSE q.nested = NoId
    /\ dead' \subseteq Sides

LEMMA ProceedsRunsOn ==
    ASSUME TypeOK, NEW s \in Sides, NEW r \in Dispatches, NEW inbound, NEW before,
           Proceeds(s, r, inbound, before)
    PROVE  \E k \in {0, 1}, m \in Messages, v \in DidValues, new \in SUBSET Dispatches :
              RunsOn(s, r, inbound, before, k, m, v, new)
<1>1. /\ r.id \in RequestIds /\ r.kind \in {"waiting", "oneway"} /\ dead \subseteq Sides
  BY DEF Dispatches, TypeOK
<1>2. \A status \in Statuses : Reply(r.id, status) \in Messages
  BY <1>1 DEF Reply, Messages, Replies
<1>3. \A status \in Statuses, id \in RequestIds :
          /\ Reply(id, status) \in Messages /\ Reply(id, status).type = "reply"
          /\ Reply(id, status).type # "request"
  BY DEF Reply, Messages, Replies
<1>4. \A end \in {"return"} \cup Throws :
          end \in DidValues /\ (end = "other" \/ end \in Statuses)
  BY DEF DidValues, Statuses
<1>5. "return" \in Statuses /\ {"started", "lost"} \subseteq DidValues
  BY DEF Statuses, DidValues
<1>6. CASE Ends(s, r, inbound, before)
  <2>1. PICK end \in {"return"} \cup (Throws \cap Behaviours) :
            /\ Transmit(s, Answer(r, end), inbound)
            /\ did' = [did EXCEPT ![Other(s)][r.id] = end]
            /\ call' = before
            /\ running' = [running EXCEPT ![s] = @ \ {r}]
            /\ UNCHANGED <<requestId, dead>>
    BY <1>6 DEF Ends
  <2>2. running' = [running EXCEPT ![s] = (@ \ {r}) \cup {}]
    BY <2>1
  <2>3. CASE r.kind = "waiting" /\ end # "other"
    <3>1. end \in Statuses /\ end \in DidValues /\ Answer(r, end) = <<Reply(r.id, end)>>
      BY <1>4, <2>3 DEF Answer
    <3>2. RunsOn(s, r, inbound, before, 1, Reply(r.id, end), end, {})
      BY <1>1, <1>3, <2>1, <2>2, <2>3, <3>1 DEF RunsOn, Stops, Calls
    <3> QED
      BY <1>2, <3>1, <3>2
  <2>4. CASE ~(r.kind = "waiting" /\ end # "other")
    <3>1. (end \in Statuses \/ end = "other") /\ end \in DidValues /\ Answer(r, end) = <<>>
      BY <1>4, <2>4 DEF Answer
    <3>2. RunsOn(s, r, inbound, before, 0, Reply(r.id, "return"), end, {})
      BY <1>1, <2>1, <2>2, <2>4, <3>1 DEF RunsOn, Stops, Calls, SendsNoReply
    <3> QED
      BY <1>2, <1>5, <3>1, <3>2
  <2> QED
    BY <2>3, <2>4
<1>7. CASE ThrowsLate(s, r, inbound, before)
  <2>1. /\ did' = [did EXCEPT ![Other(s)][r.id] = "lost"]
        /\ call' = before
        /\ running' = [running EXCEPT ![s] = (@ \ {r}) \cup {}]
        /\ UNCHANGED requestId /\ dead' \subseteq Sides
    BY <1>1, <1>7 DEF ThrowsLate
  <2>2. CASE Transmit(s, <<>>, inbound)
    <3>1. RunsOn(s, r, inbound, before, 0, Reply(r.id, "return"), "lost", {})
      BY <2>1, <2>2 DEF RunsOn, Stops, Calls
    <3> QED
      BY <1>2, <1>5, <3>1
  <2>3. ASSUME NEW id \in RequestIds, NEW end \in (Throws \cap Behaviours) \ {"other"},
               Transmit(s, <<Reply(id, end)>>, inbound)
        PROVE  \E k \in {0, 1}, m \in Messages, v \in DidValues, new \in SUBSET Dispatches :
                  RunsOn(s, r, inbound, before, k, m, v, new)
    <3>1. end \in Statuses
      BY <1>4
    <3>2. RunsOn(s, r, inbound, before, 1, Reply(id, end), "lost", {})
      BY <1>3, <2>1, <2>3, <3>1 DEF RunsOn, Stops, Calls
    <3> QED
      BY <1>3, <1>5, <3>1, <3>2
  <2> QED
    BY <1>7, <2>2, <2>3 DEF ThrowsLate
<1>8. CASE Suspends(s, r, inbound, before)
  <2> DEFINE q == [r EXCEPT !.phase = "signal", !.nested = NoId]
  <2>1. /\ q \in Dispatches /\ q.id = r.id /\ q.kind = r.kind
        /\ q.phase = "signal" /\ q.nested = NoId
    BY DEF Dispatches
  <2>2. /\ running' = [running EXCEPT ![s] = (@ \ {r}) \cup {q}]
        /\ did' = [did EXCEPT ![Other(s)][r.id] = "started"]
        /\ call' = before /\ Transmit(s, <<>>, inbound)
        /\ UNCHANGED <<requestId, dead>>
    BY <1>8 DEF Suspends
  <2> HIDE DEF q
  <2>3. RunsOn(s, r, inbound, before, 0, Reply(r.id, "return"), "started", {q})
    BY <1>1, <2>1, <2>2 DEF RunsOn, Stops, Calls, SendsNoReply
  <2> QED
    BY <1>2, <1>5, <2>1, <2>3
<1>9. CASE CallsBack(s, r, inbound, before)
  <2> DEFINE q == [r EXCEPT !.phase = "nested", !.nested = requestId[s]]
             m == [type |-> "request", id |-> requestId[s],
                   kind |-> "waiting", target |-> "servant"]
  <2>1. /\ requestId[s] \in RequestIds /\ FetchAdd(s)
        /\ call' = [before EXCEPT ![s][requestId[s]] = "waiting"]
        /\ Transmit(s, <<m>>, inbound)
        /\ running' = [running EXCEPT ![s] = (@ \ {r}) \cup {q}]
        /\ did' = [did EXCEPT ![Other(s)][r.id] = "started"]
        /\ UNCHANGED dead
    BY <1>9 DEF CallsBack, NewCall
  <2>2. /\ q \in Dispatches /\ q.id = r.id /\ q.kind = r.kind
        /\ q.phase = "nested" /\ q.nested = requestId[s]
    BY <2>1 DEF Dispatches
  <2>3. /\ m \in Messages /\ m.type = "request" /\ m.id = requestId[s] /\ m.kind = "waiting"
        /\ m.type # "reply"
    BY <2>1 DEF Messages, Requests
  <2> HIDE DEF q, m
  <2>4. RunsOn(s, r, inbound, before, 1, m, "started", {q})
    BY <1>1, <2>1, <2>2, <2>3 DEF RunsOn, Stops, Calls, SendsNoReply
  <2> QED
    BY <1>5, <2>2, <2>3, <2>4
<1> QED
  BY <1>6, <1>7, <1>8, <1>9 DEF Proceeds

-----------------------------------------------------------------------------
\* Everything a step is known for.
StepFacts(s, k, m, j) ==
    /\ TypeOK' /\ WireIsTyped' /\ NestedIsOpen' /\ NestedHasId'
    /\ CallerMoves(s, k, m, j) /\ ServantMoves(Other(s), k, m, j)

\* What happens to the servants of s: at most one is new, and none stays that was
\* waiting for the reply that came.
Replaces(s, k, m, j, new) ==
    /\ \A p, q \in new : p = q
    /\ \A q \in running'[s] :
          \/ q \in new
          \/ q \in running[s] /\ (q.phase = "nested" => ~Resumed(s, j, q.nested))
    /\ \A q \in new : IF q.phase = "nested"
                      THEN Calls(s, k, m) /\ q.nested = m.id /\ m.kind = "waiting"
                      ELSE q.nested = NoId

LEMMA NestedKeeps ==
    ASSUME TypeOK, WireIsTyped, WireIsTyped', NestedIsOpen, NestedHasId,
           NEW s \in Sides, NEW k \in {0, 1}, NEW m \in Messages, NEW j \in {0, 1},
           CallerMoves(s, k, m, j), Always(s),
           running'[Other(s)] = running[Other(s)], call'[Other(s)] = call[Other(s)],
           NEW new \in SUBSET Dispatches, Replaces(s, k, m, j, new)
    PROVE  NestedIsOpen' /\ NestedHasId'
<1>1. /\ \A t \in Sides : t = s \/ t = Other(s)
      /\ RequestIds \subseteq Nat /\ NoId \notin RequestIds /\ requestId[s] \in Nat
      /\ m.id \in RequestIds
  <2>1. RequestIds \subseteq Nat /\ requestId[s] \in Nat
    BY Ids
  <2>2. NoId \notin RequestIds
    BY <2>1 DEF NoId
  <2> QED
    BY <2>1, <2>2, SidesFacts, MessageFacts
<1>2. NestedHasId'
  <2> SUFFICES ASSUME NEW t \in Sides, NEW q \in running'[t]
               PROVE  IF q.phase = "nested" THEN q.nested \in RequestIds ELSE q.nested = NoId
    BY DEF NestedHasId
  <2>1. CASE t = Other(s)
    BY <2>1 DEF NestedHasId
  <2>2. CASE t = s
    BY <1>1, <2>2 DEF NestedHasId, Replaces
  <2> QED
    BY <1>1, <2>1, <2>2
<1>3. ASSUME NEW q \in running'[s], q.phase = "nested"
      PROVE  call'[s][q.nested] = "waiting" /\ Awaiting(s, q.nested)' = {q}
  <2>1. q.nested \in RequestIds /\ \A p \in running'[s] : p.nested = q.nested => p.phase = "nested"
    BY <1>1, <1>2, <1>3 DEF NestedHasId
  <2>2. \A p \in running[s] : p.phase = "nested" =>
            /\ call[s][p.nested] = "waiting" /\ p.nested \in RequestIds
            /\ \A x \in running[s] : x.nested = p.nested => x = p
    BY DEF NestedIsOpen, NestedHasId, Awaiting
  <2>3. ASSUME NEW p \in running[s], p.phase = "nested", Calls(s, k, m)
        PROVE  p.nested # m.id
    <3>1. call[s][p.nested] = "waiting" /\ p.nested \in RequestIds
      BY <2>2, <2>3
    <3>2. ~(p.nested >= requestId[s])
      BY <3>1 DEF Always, Issued
    <3> QED
      BY <1>1, <2>3, <3>2 DEF CallerMoves
  <2>4. CASE q \in new
    <3>1. Calls(s, k, m) /\ q.nested = m.id /\ m.kind = "waiting"
      BY <1>3, <2>4 DEF Replaces
    <3>2. call'[s][q.nested] = "waiting"
      BY <3>1 DEF CallerMoves
    <3>3. \A p \in running'[s] : p.nested = q.nested => p = q
      BY <2>1, <2>3, <2>4, <3>1 DEF Replaces
    <3> QED
      BY <3>2, <3>3 DEF Awaiting
  <2>5. CASE q \notin new
    <3>1. q \in running[s] /\ ~Resumed(s, j, q.nested)
      BY <1>3, <2>5 DEF Replaces
    <3>2. call'[s][q.nested] = "waiting"
      BY <1>3, <2>1, <2>2, <2>3, <3>1 DEF CallerMoves
    <3>3. \A p \in running'[s] : p.nested = q.nested => p = q
      BY <1>3, <2>1, <2>2, <2>3, <3>1 DEF Replaces
    <3> QED
      BY <3>2, <3>3 DEF Awaiting
  <2> QED
    BY <2>4, <2>5
<1>4. ASSUME NEW q \in running[Other(s)], q.phase = "nested"
      PROVE  call'[Other(s)][q.nested] = "waiting" /\ Awaiting(Other(s), q.nested)' = {q}
  <2>1. call[Other(s)][q.nested] = "waiting" /\ Awaiting(Other(s), q.nested) = {q}
    BY <1>4, SidesFacts DEF NestedIsOpen
  <2> QED
    BY <2>1 DEF Awaiting
<1> QED
  BY <1>1, <1>2, <1>3, <1>4 DEF NestedIsOpen

\* s has taken j messages; r is the servant for the request among them, or one that
\* waited, alone, for the reply among them or for something else; and before is
\* what has become of the calls, if the reply resumed one.
Ready(s, r, j, inbound, before) ==
    /\ j = 1 => wire[Other(s)] # <<>>
    /\ inbound = IF j = 1 THEN Tail(wire[Other(s)]) ELSE wire[Other(s)]
    /\ \/ /\ j = 1 /\ IsRequest(Other(s), 1) /\ wire[Other(s)][1].id = r.id
          /\ wire[Other(s)][1].kind = r.kind /\ r \notin running[s]
       \/ /\ r \in running[s]
          /\ j = 1 => ~IsRequest(Other(s), 1)
    /\ \A q \in running[s] : q # r /\ q.phase = "nested" => ~Resumed(s, j, q.nested)
    /\ before \in [Sides -> [RequestIds -> Outcomes]] /\ before[Other(s)] = call[Other(s)]
    /\ \A id \in RequestIds :
          before[s][id] = IF Resumed(s, j, id) THEN Thrown(wire[Other(s)][1].status)
                                               ELSE call[s][id]

LEMMA RunsOnMoves ==
    ASSUME TypeOK, WireIsTyped, NestedIsOpen, NestedHasId,
           NEW s \in Sides, Always(s), NEW j \in {0, 1},
           NEW inbound, NEW r \in Dispatches, NEW before, Ready(s, r, j, inbound, before),
           NEW k \in {0, 1}, NEW m \in Messages, NEW v \in DidValues,
           NEW new \in SUBSET Dispatches,
           RunsOn(s, r, inbound, before, k, m, v, new)
    PROVE  StepFacts(s, k, m, j)
<1> DEFINE d == Other(s)
<1>1. /\ d \in Sides /\ d # s /\ Other(d) = s /\ \A t \in Sides : t = s \/ t = d
      /\ r.id \in RequestIds /\ r.kind \in {"waiting", "oneway"} /\ m.id \in RequestIds
      /\ m.type = "request" => m.kind \in {"waiting", "oneway"}
  BY SidesFacts, MessageFacts DEF Dispatches
<1>0. /\ before \in [Sides -> [RequestIds -> Outcomes]] /\ before[d] = call[d]
      /\ \A id \in RequestIds :
            before[s][id] = IF Resumed(s, j, id) THEN Thrown(wire[d][1].status)
                                                 ELSE call[s][id]
  BY DEF Ready
<1>2. WireIsTyped' /\ Gains(s, k, m) /\ Loses(d, j)
  BY TransmitFacts DEF RunsOn, Ready
<1>3. /\ running'[s] = (running[s] \ {r}) \cup new /\ running'[d] = running[d]
      /\ running' \in [Sides -> SUBSET Dispatches]
  BY <1>1 DEF RunsOn, TypeOK
<1>4. /\ did'[d] = [did[d] EXCEPT ![r.id] = v] /\ did'[s] = did[s]
      /\ did' \in [Sides -> [RequestIds -> DidValues]]
  BY <1>1 DEF RunsOn, TypeOK, DidValues
<1>5. /\ requestId'[d] = requestId[d] /\ call'[d] = call[d]
      /\ IF Calls(s, k, m)
         THEN /\ m.id = requestId[s] /\ requestId'[s] = requestId[s] + 2
              /\ call'[s][m.id] = m.kind
         ELSE requestId'[s] = requestId[s]
      /\ \A id \in RequestIds : ~(Calls(s, k, m) /\ m.id = id) => call'[s][id] = before[s][id]
      /\ requestId' \in [Sides -> {2 * n : n \in 0 .. MaxRequests}]
      /\ call' \in [Sides -> [RequestIds -> Outcomes]]
  <2>1. CASE Calls(s, k, m)
    <3>1. /\ requestId' = [requestId EXCEPT ![s] = @ + 2] /\ m.id = requestId[s]
          /\ call' = [before EXCEPT ![s][m.id] = m.kind]
          /\ requestId[s] \in RequestIds /\ m.kind \in Outcomes
      BY <1>1, <2>1 DEF RunsOn, FetchAdd, Calls, Outcomes
    <3>2. requestId \in [Sides -> {2 * n : n \in 0 .. MaxRequests}]
      BY DEF TypeOK
    <3>3. requestId[s] + 2 \in {2 * n : n \in 0 .. MaxRequests}
      BY <3>1, Ids
    <3>4. requestId' \in [Sides -> {2 * n : n \in 0 .. MaxRequests}]
      BY <3>1, <3>2, <3>3
    <3>5. call' \in [Sides -> [RequestIds -> Outcomes]]
      BY <1>0, <1>1, <3>1
    <3>6. /\ call'[s][m.id] = m.kind /\ call'[d] = before[d]
          /\ \A id \in RequestIds : id # m.id => call'[s][id] = before[s][id]
      BY <1>0, <1>1, <3>1
    <3>7. requestId'[s] = requestId[s] + 2 /\ requestId'[d] = requestId[d]
      BY <1>1, <3>1, <3>2
    <3> QED
      BY <1>0, <2>1, <3>1, <3>4, <3>5, <3>6, <3>7
  <2>2. CASE ~Calls(s, k, m)
    BY <1>0, <2>2 DEF RunsOn, TypeOK
  <2> QED
    BY <2>1, <2>2
<1>6. TypeOK'
  BY <1>2, <1>3, <1>4, <1>5 DEF TypeOK, WireIsTyped, RunsOn, DidValues
<1>7. CallerMoves(s, k, m, j)
  BY <1>0, <1>2, <1>3, <1>4, <1>5 DEF CallerMoves
<1>8. ServantMoves(d, k, m, j)
  <2>1. Stops(k, m, r.id, r.kind, v, new)
    BY DEF RunsOn
  <2>2. \/ Begins(d, r.id, r.kind, new, j)
        \/ \E q \in running[s] : GoesOn(d, q, r.id, r.kind, new, j)
    <3>1. CASE /\ j = 1 /\ IsRequest(d, 1) /\ wire[d][1].id = r.id
               /\ wire[d][1].kind = r.kind /\ r \notin running[s]
      BY <1>1, <1>3, <3>1 DEF Begins
    <3>2. CASE /\ r \in running[s]
               /\ j = 1 => ~IsRequest(d, 1)
      BY <1>1, <1>3, <3>2 DEF GoesOn, TakesNoRequest
    <3> QED
      BY <3>1, <3>2 DEF Ready
  <2> QED
    BY <1>1, <1>2, <1>4, <1>5, <2>1, <2>2 DEF ServantMoves
<1>9. NestedIsOpen' /\ NestedHasId'
  <2>1. \A p, q \in new : p = q
    BY DEF RunsOn, Stops
  <2>2. \A q \in running'[s] :
            \/ q \in new
            \/ q \in running[s] /\ (q.phase = "nested" => ~Resumed(s, j, q.nested))
    BY <1>3 DEF Ready
  <2>3. \A q \in new : IF q.phase = "nested"
                       THEN Calls(s, k, m) /\ q.nested = m.id /\ m.kind = "waiting"
                       ELSE q.nested = NoId
    BY DEF RunsOn
  <2> QED
    <3>1. Replaces(s, k, m, j, new)
      BY <2>1, <2>2, <2>3 DEF Replaces
    <3> QED
      BY <1>2, <1>3, <1>5, <1>7, <3>1, NestedKeeps
<1> QED
  BY <1>2, <1>6, <1>7, <1>8, <1>9 DEF StepFacts

\* s makes a call, or takes a message without a servant that goes on.
LEMMA NewCallMoves ==
    ASSUME TypeOK, NestedIsOpen, NestedHasId,
           NEW s \in Sides, Always(s), NEW kind \in {"waiting", "oneway"},
           NEW target \in {"servant", "missing", "_is_a"},
           NewCall(s, kind, target, wire[Other(s)], call), UNCHANGED <<running, dead, did>>
    PROVE  \E m \in Messages : StepFacts(s, 1, m, 0)
<1> DEFINE d == Other(s)
           m == [type |-> "request", id |-> requestId[s], kind |-> kind, target |-> target]
<1>1. /\ requestId[s] \in RequestIds /\ requestId' = [requestId EXCEPT ![s] = @ + 2]
      /\ call' = [call EXCEPT ![s][requestId[s]] = kind]
      /\ Transmit(s, <<m>>, wire[d])
  BY DEF NewCall, FetchAdd
<1>2. /\ m \in Messages /\ m.type = "request" /\ m.id = requestId[s] /\ m.kind = kind
      /\ m.type # "reply"
  BY <1>1 DEF Messages, Requests
<1> HIDE DEF m
<1>3. /\ d \in Sides /\ d # s /\ Other(d) = s /\ WireIsTyped /\ kind \in Outcomes
      /\ requestId[s] + 2 \in {2 * n : n \in 0 .. MaxRequests}
  BY <1>1, SidesFacts, Ids DEF TypeOK, WireIsTyped, Outcomes
<1>4. WireIsTyped' /\ Gains(s, 1, m) /\ Loses(d, 0)
  BY <1>1, <1>2, <1>3, TransmitFacts
<1>5. TypeOK'
  BY <1>1, <1>3, <1>4 DEF TypeOK, WireIsTyped
<1>6. CallerMoves(s, 1, m, 0)
  <2>1. requestId'[s] = requestId[s] + 2
    BY <1>1 DEF TypeOK
  <2>2. /\ call'[s][m.id] = m.kind
        /\ \A id \in RequestIds : id # m.id => call'[s][id] = call[s][id]
    BY <1>1, <1>2 DEF TypeOK
  <2> QED
    BY <1>2, <1>4, <2>1, <2>2 DEF CallerMoves, Calls, Resumed
<1>7. ServantMoves(d, 1, m, 0)
  <2>1. call'[d] = call[d] /\ requestId'[d] = requestId[d]
    BY <1>1, <1>3 DEF TypeOK
  <2> QED
    BY <1>2, <1>3, <1>4, <2>1 DEF ServantMoves, Rests, TakesNoRequest, SendsNoReply
<1>8. NestedIsOpen' /\ NestedHasId'
  <2>1. running'[d] = running[d] /\ call'[d] = call[d] /\ running'[s] = running[s]
    BY <1>1, <1>3 DEF TypeOK
  <2>2. Replaces(s, 1, m, 0, {})
    BY <2>1 DEF Resumed, Replaces
  <2> QED
    BY <1>2, <1>3, <1>4, <1>6, <2>1, <2>2, NestedKeeps
<1> QED
  BY <1>2, <1>4, <1>5, <1>6, <1>7, <1>8 DEF StepFacts

LEMMA HeadFacts ==
    ASSUME WireIsTyped, NEW s \in Sides, wire[s] # <<>>
    PROVE  /\ Head(wire[s]) = wire[s][1] /\ 1 \in 1 .. Len(wire[s])
           /\ wire[s][1] \in Messages
<1> DEFINE M == Messages
<1>1. wire[s] \in Seq(M)
  BY DEF WireIsTyped, Messages
<1> HIDE DEF M
<1>2. Head(wire[s]) = wire[s][1] /\ 1 \in 1 .. Len(wire[s]) /\ wire[s][1] \in M
  BY <1>1
<1> QED
  BY <1>2 DEF M

LEMMA ReceiveRequestMoves ==
    ASSUME TypeOK, NestedIsOpen, NestedHasId, \A t \in Sides : Always(t),
           NEW s \in Sides, ReceiveRequest(s)
    PROVE  \E k \in {0, 1}, m \in Messages : StepFacts(s, k, m, 1)
<1> DEFINE d == Other(s)
           head == wire[d][1]
           inbound == Tail(wire[d])
<1>1. /\ d \in Sides /\ d # s /\ Other(d) = s /\ WireIsTyped
  BY SidesFacts DEF TypeOK, WireIsTyped
<1>2. /\ wire[d] # <<>> /\ Head(wire[d]) = head /\ 1 \in 1 .. Len(wire[d])
      /\ head \in Messages /\ head.type = "request" /\ head.type # "reply"
      /\ head.id \in RequestIds /\ head.kind \in {"waiting", "oneway"}
      /\ head.target \in {"servant", "missing", "_is_a"}
  BY <1>1, HeadFacts, MessageFacts DEF ReceiveRequest
<1>3. did[d][head.id] = "none"
  <2>1. did[d][head.id] # "none" => head.id < head.id
    BY <1>1, <1>2 DEF Always, RequestsAreNew, IsRequest
  <2>2. head.id \in Nat
    BY <1>2, Ids
  <2> QED
    BY <2>1, <2>2
<1>4. \A id : ~Resumed(s, 1, id)
  BY <1>2 DEF Resumed, IsReply
<1>5. CASE head.target = "servant"
  <2> DEFINE r == [id |-> head.id, kind |-> head.kind, phase |-> "start", nested |-> NoId]
  <2>1. Proceeds(s, r, inbound, call)
    BY <1>2, <1>5 DEF ReceiveRequest
  <2>2. r \in Dispatches /\ r.id = head.id /\ r.kind = head.kind
    BY <1>2 DEF Dispatches
  <2> HIDE DEF r, inbound
  <2>3. r \notin running[s]
    BY <1>1, <1>3, <2>2 DEF Always, ServantsAreStarted
  <2>4. PICK k \in {0, 1}, m \in Messages, v \in DidValues, new \in SUBSET Dispatches :
            RunsOn(s, r, inbound, call, k, m, v, new)
    BY <2>1, <2>2, ProceedsRunsOn
  <2>5. call \in [Sides -> [RequestIds -> Outcomes]]
    BY DEF TypeOK
  <2>6. /\ inbound = IF 1 = 1 THEN Tail(wire[Other(s)]) ELSE wire[Other(s)]
        /\ IsRequest(Other(s), 1)
    BY <1>2 DEF inbound, IsRequest
  <2>7. Ready(s, r, 1, inbound, call)
    BY <1>2, <1>4, <2>2, <2>3, <2>5, <2>6 DEF Ready
  <2>8. StepFacts(s, k, m, 1)
    BY <1>1, <2>2, <2>4, <2>7, RunsOnMoves
  <2> QED
    BY <2>8
<1>6. CASE head.target # "servant"
  <2> DEFINE refused == head.target = "missing"
             v == IF refused THEN "missing" ELSE "return"
             m == Reply(head.id, v)
             k == IF head.kind = "oneway" THEN 0 ELSE 1
  <2>1. /\ Transmit(s, IF head.kind = "oneway" THEN <<>> ELSE <<m>>, inbound)
        /\ did' = [did EXCEPT ![d][head.id] = v]
        /\ UNCHANGED <<requestId, call, running, dead>>
    BY <1>2, <1>6 DEF ReceiveRequest
  <2>2. /\ v \in Statuses /\ v \in DidValues /\ m \in Messages
        /\ m.type = "reply" /\ m.type # "request" /\ k \in {0, 1}
    BY <1>2 DEF Statuses, DidValues, Reply, Messages, Replies
  <2>3. Transmit(s, IF k = 1 THEN <<m>> ELSE <<>>, inbound)
    <3>1. CASE head.kind = "oneway"
      BY <2>1, <3>1
    <3>2. CASE head.kind # "oneway"
      BY <2>1, <3>2
    <3> QED
      BY <3>1, <3>2
  <2>4. Stops(k, m, head.id, head.kind, v, {})
    BY <1>2, <2>2 DEF Stops, SendsNoReply
  <2> HIDE DEF v, m, k, inbound
  <2>5. inbound = IF 1 = 1 THEN Tail(wire[Other(s)]) ELSE wire[Other(s)]
    BY DEF inbound
  <2>6. WireIsTyped' /\ Gains(s, k, m) /\ Loses(d, 1)
    BY <1>1, <1>2, <2>2, <2>3, <2>5, TransmitFacts
  <2>7. /\ did'[d] = [did[d] EXCEPT ![head.id] = v] /\ did'[s] = did[s]
        /\ did' \in [Sides -> [RequestIds -> DidValues]]
    BY <1>1, <1>2, <2>1, <2>2 DEF TypeOK, DidValues
  <2>8. TypeOK'
    BY <2>1, <2>6, <2>7 DEF TypeOK, WireIsTyped, DidValues
  <2>9. CallerMoves(s, k, m, 1)
    BY <1>4, <2>1, <2>2, <2>6, <2>7 DEF CallerMoves, Calls
  <2>10. ServantMoves(d, k, m, 1)
    <3>1. Begins(d, head.id, head.kind, {}, 1)
      BY <1>1, <1>2, <2>1 DEF Begins, IsRequest
    <3>2. {} \in SUBSET Dispatches
      OBVIOUS
    <3> QED
      BY <1>1, <1>2, <2>1, <2>2, <2>4, <2>6, <2>7, <3>1, <3>2 DEF ServantMoves
  <2>11. NestedIsOpen' /\ NestedHasId'
    BY <2>1 DEF NestedIsOpen, NestedHasId, Awaiting
  <2> QED
    BY <2>2, <2>6, <2>8, <2>9, <2>10, <2>11 DEF StepFacts
<1> QED
  BY <1>5, <1>6

LEMMA ReceiveReplyMoves ==
    ASSUME TypeOK, NestedIsOpen, NestedHasId, \A t \in Sides : Always(t),
           NEW s \in Sides, ReceiveReply(s)
    PROVE  \E k \in {0, 1}, m \in Messages : StepFacts(s, k, m, 1)
<1> DEFINE d == Other(s)
           head == wire[d][1]
           inbound == Tail(wire[d])
           before == Resume(s, head)
<1>1. /\ d \in Sides /\ d # s /\ Other(d) = s /\ WireIsTyped
  BY SidesFacts DEF TypeOK, WireIsTyped
<1>2. /\ wire[d] # <<>> /\ Head(wire[d]) = head /\ 1 \in 1 .. Len(wire[d])
      /\ head \in Messages /\ head.type = "reply" /\ head.type # "request"
      /\ head.id \in RequestIds /\ head.status \in Statuses
  BY <1>1, HeadFacts, MessageFacts DEF ReceiveReply
<1>3. Thrown(head.status) \in Outcomes
  BY <1>2, ThrownFacts
<1>4. \A id \in RequestIds : Resumed(s, 1, id) <=> id = head.id /\ call[s][head.id] = "waiting"
  BY <1>2 DEF Resumed, IsReply
<1>5. /\ before \in [Sides -> [RequestIds -> Outcomes]] /\ before[d] = call[d]
      /\ \A id \in RequestIds :
            before[s][id] = IF Resumed(s, 1, id) THEN Thrown(head.status) ELSE call[s][id]
  <2>1. call \in [Sides -> [RequestIds -> Outcomes]]
    BY DEF TypeOK
  <2>2. CASE call[s][head.id] = "waiting"
    <3>1. before = [call EXCEPT ![s][head.id] = Thrown(head.status)]
      BY <2>2 DEF Resume
    <3> HIDE DEF before
    <3> QED
      BY <1>1, <1>2, <1>3, <1>4, <2>1, <2>2, <3>1
  <2>3. CASE call[s][head.id] # "waiting"
    BY <1>4, <2>1, <2>3 DEF Resume
  <2> QED
    BY <2>2, <2>3
<1>6. inbound = IF 1 = 1 THEN Tail(wire[Other(s)]) ELSE wire[Other(s)]
  OBVIOUS
<1>7. ~IsRequest(Other(s), 1)
  BY <1>2 DEF IsRequest
<1> HIDE DEF before, inbound
<1>8. CASE call[s][head.id] = "waiting" /\ Awaiting(s, head.id) # {}
  <2>1. PICK r \in Awaiting(s, head.id) : Proceeds(s, r, inbound, before)
    BY <1>2, <1>8 DEF ReceiveReply, before, inbound
  <2>2. r \in running[s] /\ r.nested = head.id /\ r \in Dispatches
    BY <2>1 DEF Awaiting, TypeOK
  <2>3. PICK k \in {0, 1}, m \in Messages, v \in DidValues, new \in SUBSET Dispatches :
            RunsOn(s, r, inbound, before, k, m, v, new)
    BY <2>1, <2>2, ProceedsRunsOn
  <2>4. \A q \in running[s] : q # r /\ q.phase = "nested" => ~Resumed(s, 1, q.nested)
    <3> SUFFICES ASSUME NEW q \in running[s], q.phase = "nested", Resumed(s, 1, q.nested)
                 PROVE  q = r
      OBVIOUS
    <3>1. q.nested = head.id /\ Awaiting(s, q.nested) = {q}
      BY <1>4 DEF NestedIsOpen, NestedHasId
    <3> QED
      BY <2>1, <3>1
  <2>5. Ready(s, r, 1, inbound, before)
    BY <1>2, <1>5, <1>6, <1>7, <2>2, <2>4 DEF Ready
  <2>6. StepFacts(s, k, m, 1)
    BY <1>1, <2>2, <2>3, <2>5, RunsOnMoves
  <2> QED
    BY <2>6
<1>9. CASE ~(call[s][head.id] = "waiting" /\ Awaiting(s, head.id) # {})
  <2>1. /\ call' = before /\ Transmit(s, <<>>, inbound)
        /\ UNCHANGED <<requestId, running, dead, did>>
    BY <1>2, <1>9 DEF ReceiveReply, before, inbound
  <2>2. Transmit(s, IF 0 = 1 THEN <<head>> ELSE <<>>, inbound)
    BY <2>1
  <2>3. WireIsTyped' /\ Gains(s, 0, head) /\ Loses(d, 1)
    BY <1>1, <1>2, <1>6, <2>2, TransmitFacts
  <2>4. TypeOK'
    BY <1>5, <2>1, <2>3 DEF TypeOK, WireIsTyped
  <2>5. CallerMoves(s, 0, head, 1)
    BY <1>5, <2>1, <2>3 DEF CallerMoves, Calls
  <2>6. ServantMoves(d, 0, head, 1)
    BY <1>1, <1>5, <1>7, <2>1, <2>3 DEF ServantMoves, Rests, TakesNoRequest, SendsNoReply
  <2>7. NestedIsOpen' /\ NestedHasId'
    <3>1. ASSUME NEW q \in running[s], q.phase = "nested"
          PROVE  ~Resumed(s, 1, q.nested)
      BY <1>4, <1>9, <3>1 DEF NestedIsOpen, NestedHasId
    <3>2. Replaces(s, 0, head, 1, {})
      BY <2>1, <3>1 DEF Replaces
    <3> QED
      BY <1>1, <1>2, <1>5, <2>1, <2>3, <2>5, <3>2, NestedKeeps
  <2> QED
    BY <1>2, <2>3, <2>4, <2>5, <2>6, <2>7 DEF StepFacts
<1> QED
  BY <1>8, <1>9

LEMMA SignalMoves ==
    ASSUME TypeOK, NestedIsOpen, NestedHasId, \A t \in Sides : Always(t),
           NEW s \in Sides, NEW r \in running[s], Signal(s, r)
    PROVE  \E k \in {0, 1}, m \in Messages : StepFacts(s, k, m, 0)
<1> DEFINE inbound == wire[Other(s)]
<1>1. r \in Dispatches /\ WireIsTyped /\ Other(s) \in Sides
  BY SidesFacts DEF TypeOK, WireIsTyped
<1>2. PICK k \in {0, 1}, m \in Messages, v \in DidValues, new \in SUBSET Dispatches :
          RunsOn(s, r, inbound, call, k, m, v, new)
  BY <1>1, ProceedsRunsOn DEF Signal
<1>3. /\ call \in [Sides -> [RequestIds -> Outcomes]]
      /\ \A id : ~Resumed(s, 0, id)
      /\ inbound = IF 0 = 1 THEN Tail(wire[Other(s)]) ELSE wire[Other(s)]
  BY DEF TypeOK, Resumed
<1> HIDE DEF inbound
<1>4. Ready(s, r, 0, inbound, call)
  BY <1>1, <1>3 DEF Ready
<1>5. StepFacts(s, k, m, 0)
  BY <1>1, <1>2, <1>4, RunsOnMoves
<1> QED
  BY <1>5

-----------------------------------------------------------------------------
LEMMA NextMoves ==
    ASSUME IInv, Next
    PROVE  \E s \in Sides, k \in {0, 1}, m \in Messages, j \in {0, 1} : StepFacts(s, k, m, j)
<1>1. TypeOK /\ NestedIsOpen /\ NestedHasId /\ \A s \in Sides : Always(s)
  BY DEF IInv
<1>2. ASSUME NEW s \in Sides, NEW target \in {"servant", "missing", "_is_a"},
             TwowayCall(s, target) \/ OnewayCall(s, target)
      PROVE  \E m \in Messages : StepFacts(s, 1, m, 0)
  BY <1>1, <1>2, NewCallMoves DEF TwowayCall, OnewayCall
<1>3. ASSUME NEW s \in Sides, ReceiveRequest(s)
      PROVE  \E k \in {0, 1}, m \in Messages : StepFacts(s, k, m, 1)
  BY <1>1, <1>3, ReceiveRequestMoves
<1>4. ASSUME NEW s \in Sides, ReceiveReply(s)
      PROVE  \E k \in {0, 1}, m \in Messages : StepFacts(s, k, m, 1)
  BY <1>1, <1>4, ReceiveReplyMoves
<1>5. ASSUME NEW s \in Sides, NEW r \in running[s], Signal(s, r)
      PROVE  \E k \in {0, 1}, m \in Messages : StepFacts(s, k, m, 0)
  BY <1>1, <1>5, SignalMoves
<1> QED
  BY <1>2, <1>3, <1>4, <1>5 DEF Next

\* A servant is entered once, in the order of the ids, and one that threw late is
\* not heard of again.
LEMMA DidGrows ==
    ASSUME TypeOK, WireIsTyped, WireIsTyped', NEW s \in Sides,
           NEW k \in {0, 1}, NEW m \in Messages, NEW j \in {0, 1},
           ServantMoves(s, k, m, j), Always(s)
    PROVE  /\ \A id \in RequestIds : did[s][id] = "lost" => did'[s][id] = "lost"
           /\ \/ \A id \in RequestIds : did'[s][id] = "none" <=> did[s][id] = "none"
              \/ \E new \in RequestIds :
                    /\ new < requestId[s]
                    /\ \A old \in RequestIds : did[s][old] # "none" => old < new
                    /\ \A id \in RequestIds :
                          did'[s][id] = "none" <=> did[s][id] = "none" /\ id # new
<1>1. did[s] \in [RequestIds -> DidValues] /\ RequestIds \subseteq Nat
  BY Ids DEF TypeOK, DidValues
<1>2. CASE Rests(s, k, m, j)
  BY <1>2 DEF Rests
<1>3. ASSUME NEW id \in RequestIds, NEW kind \in {"waiting", "oneway"}, NEW v \in DidValues,
             NEW new \in SUBSET Dispatches,
             did'[s] = [did[s] EXCEPT ![id] = v], Stops(k, m, id, kind, v, new),
             \/ Begins(s, id, kind, new, j)
             \/ \E r \in running[Other(s)] : GoesOn(s, r, id, kind, new, j)
      PROVE  /\ \A x \in RequestIds : did[s][x] = "lost" => did'[s][x] = "lost"
             /\ \/ \A x \in RequestIds : did'[s][x] = "none" <=> did[s][x] = "none"
                \/ /\ id < requestId[s]
                   /\ \A old \in RequestIds : did[s][old] # "none" => old < id
                   /\ \A x \in RequestIds :
                         did'[s][x] = "none" <=> did[s][x] = "none" /\ x # id
  <2>1. /\ did'[s][id] = v
        /\ \A x \in RequestIds : x # id => did'[s][x] = did[s][x]
    BY <1>1, <1>3
  <2>2. v # "none"
    BY <1>3 DEF Stops, Statuses, Throws
  <2>3. CASE Begins(s, id, kind, new, j)
    <3>1. 1 \in 1 .. Len(wire[s]) /\ wire[s][1].type = "request" /\ wire[s][1].id = id
      BY <2>3, LostPlaces DEF Begins, IsRequest, ServantMoves
    <3>2. /\ id < requestId[s]
          /\ \A old \in RequestIds : did[s][old] # "none" => old < id
      BY <3>1 DEF Always, RequestsAreNew, IsRequest
    <3>3. did[s][id] = "none"
      BY <1>1, <3>2
    <3> QED
      BY <2>1, <2>2, <3>2, <3>3
  <2>4. ASSUME NEW r \in running[Other(s)], GoesOn(s, r, id, kind, new, j)
        PROVE  did[s][id] = "started"
    BY <2>4 DEF GoesOn, Always, ServantsAreStarted
  <2> QED
    BY <1>3, <2>1, <2>2, <2>3, <2>4
<1> QED
  BY <1>2, <1>3 DEF ServantMoves

LEMMA StepIInv ==
    ASSUME IInv, NEW s \in Sides, NEW k \in {0, 1}, NEW m \in Messages, NEW j \in {0, 1},
           StepFacts(s, k, m, j)
    PROVE  IInv' /\ (Intact' => Intact)
<1> DEFINE d == Other(s)
<1>1. /\ TypeOK /\ WireIsTyped /\ Always(s) /\ Always(d) /\ d \in Sides
      /\ \A t \in Sides : t = s \/ t = d
      /\ TypeOK' /\ WireIsTyped' /\ NestedIsOpen' /\ NestedHasId'
      /\ CallerMoves(s, k, m, j) /\ ServantMoves(d, k, m, j)
      /\ Intact => WhileIntact(s) /\ WhileIntact(d)
  BY SidesFacts DEF IInv, StepFacts, TypeOK, WireIsTyped
<1> HIDE DEF d
<1>2. \A t \in Sides : Always(t)'
  <2>1. Always(s)'
    BY <1>1, CallerKeepsAlways
  <2>2. Always(d)'
    BY <1>1, ServantKeepsAlways
  <2> QED
    BY <1>1, <2>1, <2>2
<1>3. Intact' => Intact
  <2>1. \A id \in RequestIds : did[d][id] = "lost" => did'[d][id] = "lost"
    BY <1>1, DidGrows
  <2>2. did'[s] = did[s]
    BY <1>1 DEF CallerMoves
  <2> QED
    BY <1>1, <2>1, <2>2 DEF Intact
<1>4. ASSUME Intact' PROVE \A t \in Sides : WhileIntact(t)'
  <2>1. WhileIntact(s) /\ WhileIntact(d)
    BY <1>1, <1>3, <1>4
  <2>2. WhileIntact(s)'
    BY <1>1, <2>1, CallerKeepsIntact
  <2>3. WhileIntact(d)'
    BY <1>1, <1>4, <2>1, ServantKeepsIntact
  <2> QED
    BY <1>1, <2>2, <2>3
<1> QED
  BY <1>1, <1>2, <1>3, <1>4 DEF IInv

LEMMA InitIInv ==
    ASSUME Init
    PROVE  IInv
<1>1. TypeOK
  <2>1. 0 \in {2 * n : n \in 0 .. MaxRequests}
    <3>1. 0 \in 0 .. MaxRequests /\ 0 = 2 * 0
      BY ConstantsAssumption
    <3> QED
      BY <3>1
  <2>2. requestId \in [Sides -> {2 * n : n \in 0 .. MaxRequests}]
    BY <2>1 DEF Init
  <2>3. call \in [Sides -> [RequestIds -> Outcomes]]
    BY DEF Init, Outcomes
  <2>4. running \in [Sides -> SUBSET Dispatches]
    BY DEF Init
  <2>5. wire \in [Sides -> Seq(Requests \cup Replies)]
    BY DEF Init
  <2> QED
    BY <2>2, <2>3, <2>4, <2>5 DEF Init, TypeOK
<1>2. NestedIsOpen /\ NestedHasId
  BY DEF Init, NestedIsOpen, NestedHasId
<1>3. ASSUME NEW s \in Sides
      PROVE  Always(s) /\ WhileIntact(s)
  <2>1. /\ Other(s) \in Sides /\ requestId[s] = 0 /\ running[Other(s)] = {}
        /\ Len(wire[s]) = 0 /\ Len(wire[Other(s)]) = 0
        /\ \A id \in RequestIds : call[s][id] = "unused" /\ did[s][id] = "none" /\ id >= 0
    BY SidesFacts, Ids DEF Init
  <2>2. Always(s)
    BY <2>1 DEF Always, Issued, ExecutedIsIssued, RequestsInOrder, RequestsAreNew,
                ServantsAreStarted
  <2>3. WhileIntact(s)
    BY <2>1 DEF WhileIntact, CallsAreOpen, RepliesAreServants, WaitingIsSomewhere, OutcomeIs
  <2> QED
    BY <2>2, <2>3
<1> QED
  BY <1>1, <1>2, <1>3 DEF IInv

LEMMA StutterIInv ==
    ASSUME IInv, UNCHANGED vars
    PROVE  IInv' /\ (Intact' => Intact)
<1>1. UNCHANGED <<requestId, call, running, wire, dead, did>>
  BY DEF vars
<1>2. TypeOK' /\ NestedIsOpen' /\ NestedHasId'
  BY <1>1 DEF IInv, TypeOK, NestedIsOpen, NestedHasId, Awaiting
<1>3. ASSUME NEW s \in Sides PROVE Always(s)'
  <2>1. Always(s)
    BY DEF IInv
  <2> QED
    BY <1>1, <2>1 DEF Always, Issued, ExecutedIsIssued, RequestsInOrder, RequestsAreNew,
                      ServantsAreStarted, IsRequest
<1>4. ASSUME NEW s \in Sides, WhileIntact(s) PROVE WhileIntact(s)'
  BY <1>1, <1>4 DEF WhileIntact, CallsAreOpen, RepliesAreServants, WaitingIsSomewhere,
                    OutcomeIs, IsRequest, IsReply
<1>5. Intact' <=> Intact
  BY <1>1 DEF Intact
<1> QED
  BY <1>2, <1>3, <1>4, <1>5 DEF IInv

LEMMA NextIInv ==
    ASSUME IInv, [Next]_vars
    PROVE  IInv' /\ (Intact' => Intact)
  BY NextMoves, StepIInv, StutterIInv

-----------------------------------------------------------------------------
LEMMA AtMostOne ==
    ASSUME NEW S, \A x, y \in S : x = y
    PROVE  Cardinality(S) = IF S = {} THEN 0 ELSE 1
<1>1. CASE S = {}
  BY <1>1, FS_EmptySet
<1>2. CASE S # {}
  <2>1. PICK x : S = {x}
    BY <1>2
  <2> QED
    BY <1>2, <2>1, FS_Singleton
<1> QED
  BY <1>1, <1>2

\* While the invariant holds, the three places have at most one trace of a call.
LEMMA UnderwayIsInvariant ==
    ASSUME IInv
    PROVE  WaitingIsUnderway
<1> SUFFICES ASSUME Intact, NEW s \in Sides, NEW id \in RequestIds
             PROVE  IF call[s][id] = "oneway"
                    THEN Traces(s, id) <= 1 /\ RepliesTo(s, id) = 0
                    ELSE Traces(s, id) =
                            IF call[s][id] = "waiting" /\ did[s][id] # "other" THEN 1 ELSE 0
  BY DEF WaitingIsUnderway
<1> DEFINE d == Other(s)
           RequestsOf == {m \in Requests : m.id = id}
           RepliesOf == {m \in Replies : m.id = id}
           A == {i \in 1 .. Len(wire[s]) : wire[s][i] \in RequestsOf}
           B == {r \in running[d] : r.id = id}
           C == {i \in 1 .. Len(wire[d]) : wire[d][i] \in RepliesOf}
<1>1. /\ d \in Sides /\ Always(s) /\ WhileIntact(s)
      /\ did[s][id] \in DidValues /\ did[s][id] # "lost"
      /\ wire[s] \in Seq(Messages) /\ wire[d] \in Seq(Messages)
      /\ running[d] \subseteq Dispatches
  BY SidesFacts DEF IInv, TypeOK, DidValues, Intact, Messages
<1>2. ASSUME NEW m \in Messages
      PROVE  /\ m \in RequestsOf <=> m.type = "request" /\ m.id = id
             /\ m \in RepliesOf <=> m.type = "reply" /\ m.id = id
             /\ m.type = "request" => m.kind \in {"waiting", "oneway"}
             /\ m.type = "reply" => m.status \in Statuses
  BY DEF Messages, Requests, Replies
<1>3. /\ \A i \in 1 .. Len(wire[s]) : wire[s][i] \in Messages
      /\ \A i \in 1 .. Len(wire[d]) : wire[d][i] \in Messages
      /\ Len(wire[s]) \in Nat
  <2> DEFINE M == Messages
  <2>1. wire[s] \in Seq(M) /\ wire[d] \in Seq(M)
    BY <1>1
  <2> HIDE DEF M
  <2>2. /\ \A i \in 1 .. Len(wire[s]) : wire[s][i] \in M
        /\ \A i \in 1 .. Len(wire[d]) : wire[d][i] \in M
        /\ Len(wire[s]) \in Nat
    BY <2>1
  <2> QED
    BY <2>2 DEF M
<1> HIDE DEF RequestsOf, RepliesOf
\* In one place a trace is alone.
<1>4. /\ \A i \in A : /\ wire[s][i].type = "request" /\ wire[s][i].id = id
                      /\ wire[s][i].kind \in {"waiting", "oneway"}
      /\ \A i \in C : /\ wire[d][i].type = "reply" /\ wire[d][i].id = id
                      /\ wire[d][i].status \in Statuses
  BY <1>2, <1>3
<1>5. \A x, y \in A : x = y
  <2> SUFFICES ASSUME NEW x \in A, NEW y \in A, x # y PROVE FALSE
    OBVIOUS
  <2>1. x \in 1 .. Len(wire[s]) /\ y \in 1 .. Len(wire[s])
    OBVIOUS
  <2>2. x < y \/ y < x
    BY <1>3, <2>1
  <2>3. id < id
    BY <1>1, <1>4, <2>1, <2>2 DEF Always, RequestsInOrder, IsRequest
  <2>4. id \in Nat
    BY Ids
  <2> QED
    BY <2>3, <2>4
<1>6. \A x, y \in B : x = y
  BY <1>1 DEF Always, ServantsAreStarted
<1>7. \A x, y \in C : x = y
  BY <1>1, <1>4 DEF WhileIntact, RepliesAreServants, IsReply
\* What the places say of the call and of its servant.
<1>8. A # {} => did[s][id] = "none" /\ call[s][id] \in {"waiting", "oneway"}
  <2> SUFFICES ASSUME NEW i \in A
               PROVE  did[s][id] = "none" /\ call[s][id] \in {"waiting", "oneway"}
    OBVIOUS
  <2>1. /\ did[s][id] # "none" => id < id
        /\ call[s][id] = wire[s][i].kind
    BY <1>1, <1>4 DEF Always, RequestsAreNew, WhileIntact, CallsAreOpen, IsRequest
  <2>2. id \in Nat
    BY Ids
  <2> QED
    BY <1>4, <2>1, <2>2
<1>9. B # {} => did[s][id] = "started" /\ call[s][id] \in {"waiting", "oneway"}
  BY <1>1 DEF Always, ServantsAreStarted, WhileIntact, CallsAreOpen, Dispatches
<1>10. C # {} => did[s][id] \in Statuses /\ call[s][id] = "waiting"
  BY <1>1, <1>4 DEF WhileIntact, RepliesAreServants, IsReply
<1>11. call[s][id] = "waiting" =>
         /\ did[s][id] = "none" => A # {}
         /\ did[s][id] = "started" => B # {}
         /\ did[s][id] \in Statuses => C # {}
  BY <1>1, <1>2, <1>3 DEF WhileIntact, WaitingIsSomewhere, IsRequest, IsReply
<1>12. did[s][id] \in {"none", "started", "other"} \cup Statuses
       /\ {"none", "started", "other"} \cap Statuses = {}
  BY <1>1 DEF DidValues, Statuses, Throws
<1>13. /\ Traces(s, id) = Cardinality(A) + Cardinality(B) + Cardinality(C)
       /\ RepliesTo(s, id) = Cardinality(C)
  BY DEF Traces, RepliesTo, Count, RequestsOf, RepliesOf
<1> HIDE DEF A, B, C
<1>14. /\ Cardinality(A) = IF A = {} THEN 0 ELSE 1
       /\ Cardinality(B) = IF B = {} THEN 0 ELSE 1
       /\ Cardinality(C) = IF C = {} THEN 0 ELSE 1
  BY <1>5, <1>6, <1>7, AtMostOne
<1> QED
  BY <1>8, <1>9, <1>10, <1>11, <1>12, <1>13, <1>14

-----------------------------------------------------------------------------
\* The invariant holds whatever the applications and the servants of both ends do.
THEOREM Invariance == Spec => []IInv
<1>1. Init => IInv
  BY InitIInv
<1>2. IInv /\ [Next]_vars => IInv'
  BY NextIInv
<1> QED
  BY <1>1, <1>2, PTL DEF Spec

\* The ids, calls, suspended servants and messages have their types.
THEOREM TypeCorrect == Spec => []TypeOK
<1>1. IInv => TypeOK
  BY DEF IInv
<1> QED
  BY <1>1, Invariance, PTL

\* A caller of _twowayCall waits exactly as long as its request, the servant that
\* socketRcvd() called for it or the reply is somewhere; none is lost, duplicated or
\* answered twice, for any number of calls that nest and overtake each other.
THEOREM WaitingCallsAreUnderway == Spec => []WaitingIsUnderway
  BY Invariance, UnderwayIsInvariant, PTL

\* _twowayCall returns or throws what the servant did for that very request.
THEOREM OutcomesAreServants == Spec => []OutcomeIsServants
<1>1. IInv => OutcomeIsServants
  BY DEF IInv, OutcomeIsServants, WhileIntact, OutcomeIs
<1> QED
  BY <1>1, Invariance, PTL

\* A servant that calls back waits for a call that is open, and alone.
THEOREM NestedCallsAreOpen == Spec => []NestedIsOpen
<1>1. IInv => NestedIsOpen
  BY DEF IInv
<1> QED
  BY <1>1, Invariance, PTL

-----------------------------------------------------------------------------
\* The steps of CallContract, for the calls of s.  Its other moves, failures, are
\* those of connections.
Settles(s) ==
    /\ \A id \in RequestIds :
          Settled(s)'[id] # Settled(s)[id] =>
             <<Settled(s)[id], Settled(s)'[id]>> \in
                {<<"unused", "oneway">>, <<"unused", "waiting">>, <<"waiting", "reply">>}
    /\ \A id \in RequestIds :
          Settled(s)[id] # "reply" /\ Settled(s)'[id] = "reply" => id \in Executed(s)
    /\ Executed(s)' = Executed(s)
Executes(s) ==
    /\ \E new \in SUBSET RequestIds :
          /\ \A id \in new : Settled(s)[id] # "unused"
          /\ \A id \in new, old \in Executed(s) : old < id
          /\ Executed(s)' = Executed(s) \cup new
    /\ Settled(s)' = Settled(s)

\* What becomes of the calls of s in a step of its own.
LEMMA CallerCalls ==
    ASSUME TypeOK, WireIsTyped, WireIsTyped', NEW s \in Sides,
           NEW k \in {0, 1}, NEW m \in Messages, NEW j \in {0, 1},
           CallerMoves(s, k, m, j), Always(s), NEW id \in RequestIds
    PROVE  \/ call'[s][id] = call[s][id]
           \/ call[s][id] = "unused" /\ call'[s][id] \in {"waiting", "oneway"}
           \/ /\ call[s][id] = "waiting" /\ Resumed(s, j, id)
              /\ call'[s][id] \in Outcomes \ {"unused", "oneway", "waiting"}
<1>1. CASE Calls(s, k, m) /\ m.id = id
  <2>1. /\ id = requestId[s] /\ call'[s][id] = m.kind /\ m.kind \in {"waiting", "oneway"}
        /\ requestId[s] \in Nat
    BY <1>1, MessageFacts, Ids DEF CallerMoves, Calls
  <2>2. call[s][id] = "unused"
    BY <2>1 DEF Always, Issued
  <2> QED
    BY <2>1, <2>2
<1>2. CASE ~(Calls(s, k, m) /\ m.id = id)
  <2>1. CASE Resumed(s, j, id)
    <3>1. Thrown(wire[Other(s)][1].status) \in Outcomes \ {"unused", "oneway", "waiting"}
      BY <2>1, ResumedFacts DEF CallerMoves
    <3>2. call'[s][id] = Thrown(wire[Other(s)][1].status) /\ call[s][id] = "waiting"
      BY <1>2, <2>1 DEF CallerMoves, Resumed
    <3> QED
      BY <2>1, <3>1, <3>2
  <2>2. CASE ~Resumed(s, j, id)
    BY <1>2, <2>2 DEF CallerMoves
  <2> QED
    BY <2>1, <2>2
<1> QED
  BY <1>1, <1>2

LEMMA CallerSettles ==
    ASSUME TypeOK, WireIsTyped, WireIsTyped', NEW s \in Sides,
           NEW k \in {0, 1}, NEW m \in Messages, NEW j \in {0, 1},
           CallerMoves(s, k, m, j), Always(s), WhileIntact(s)
    PROVE  Settles(s)
<1>1. /\ \A id \in RequestIds : Settled(s)[id] =
            IF call[s][id] \in {"unused", "oneway", "waiting"} THEN call[s][id] ELSE "reply"
      /\ \A id \in RequestIds : Settled(s)'[id] =
            IF call'[s][id] \in {"unused", "oneway", "waiting"} THEN call'[s][id] ELSE "reply"
  BY DEF Settled
<1>2. Executed(s)' = Executed(s)
  BY DEF CallerMoves, Executed
<1>3. ASSUME NEW id \in RequestIds
      PROVE  /\ Settled(s)'[id] # Settled(s)[id] =>
                   <<Settled(s)[id], Settled(s)'[id]>> \in
                      {<<"unused", "oneway">>, <<"unused", "waiting">>, <<"waiting", "reply">>}
             /\ Settled(s)[id] # "reply" /\ Settled(s)'[id] = "reply" => id \in Executed(s)
  <2>1. CASE call'[s][id] = call[s][id]
    BY <1>1, <2>1
  <2>2. CASE call[s][id] = "unused" /\ call'[s][id] \in {"waiting", "oneway"}
    BY <1>1, <2>2
  <2>3. CASE /\ call[s][id] = "waiting" /\ Resumed(s, j, id)
             /\ call'[s][id] \in Outcomes \ {"unused", "oneway", "waiting"}
    <3>1. Settled(s)[id] = "waiting" /\ Settled(s)'[id] = "reply"
      BY <1>1, <2>3
    <3>2. did[s][id] # "none"
      <4>1. 1 \in 1 .. Len(wire[Other(s)]) /\ wire[Other(s)][1].status \in Statuses
        BY <2>3, ResumedFacts DEF CallerMoves
      <4>2. did[s][id] \in Statuses
        BY <2>3, <4>1 DEF WhileIntact, RepliesAreServants, Resumed
      <4> QED
        BY <4>2 DEF Statuses, Throws
    <3> QED
      BY <3>1, <3>2 DEF Executed
  <2> QED
    BY <2>1, <2>2, <2>3, CallerCalls
<1> QED
  BY <1>2, <1>3 DEF Settles

LEMMA ServantExecutes ==
    ASSUME TypeOK, WireIsTyped, WireIsTyped', NEW s \in Sides,
           NEW k \in {0, 1}, NEW m \in Messages, NEW j \in {0, 1},
           ServantMoves(s, k, m, j), Always(s)
    PROVE  Executes(s)
<1>1. Settled(s)' = Settled(s)
  BY DEF ServantMoves, Settled
<1>2. CASE \A id \in RequestIds : did'[s][id] = "none" <=> did[s][id] = "none"
  <2>1. Executed(s)' = Executed(s) \cup {}
    BY <1>2 DEF Executed
  <2> QED
    BY <1>1, <2>1 DEF Executes
<1>3. ASSUME NEW new \in RequestIds, new < requestId[s],
             \A old \in RequestIds : did[s][old] # "none" => old < new,
             \A id \in RequestIds : did'[s][id] = "none" <=> did[s][id] = "none" /\ id # new
      PROVE  Executes(s)
  <2>1. Executed(s)' = Executed(s) \cup {new}
    BY <1>3 DEF Executed
  <2>2. \A old \in Executed(s) : old < new
    BY <1>3 DEF Executed
  <2>3. call[s][new] # "unused"
    <3>1. ~(new >= requestId[s])
      BY <1>3, Ids
    <3> QED
      BY <3>1 DEF Always, Issued
  <2>4. Settled(s)[new] # "unused"
    BY <2>3 DEF Settled
  <2>5. {new} \in SUBSET RequestIds
    OBVIOUS
  <2> QED
    BY <1>1, <2>1, <2>2, <2>4, <2>5 DEF Executes
<1> QED
  BY <1>2, <1>3, DidGrows

\* The steps above are steps of the contract.
LEMMA ContractSteps ==
    /\ Settles("client") \/ Executes("client") => ClientContract!Next
    /\ Settles("server") \/ Executes("server") => ServerContract!Next
<1>1. {<<"unused", "oneway">>, <<"unused", "waiting">>, <<"waiting", "reply">>}
         \subseteq ClientContract!Moves
  BY DEF ClientContract!Moves, ClientContract!Exceptions
<1>2. {<<"unused", "oneway">>, <<"unused", "waiting">>, <<"waiting", "reply">>}
         \subseteq ServerContract!Moves
  BY DEF ServerContract!Moves, ServerContract!Exceptions
<1>3. Settles("client") => ClientContract!Settle
  BY <1>1 DEF Settles, ClientContract!Settle
<1>4. Settles("server") => ServerContract!Settle
  BY <1>2 DEF Settles, ServerContract!Settle
<1>5. Executes("client") => ClientContract!Execute
  BY DEF Executes, ClientContract!Execute
<1>6. Executes("server") => ServerContract!Execute
  BY DEF Executes, ServerContract!Execute
<1> QED
  BY <1>3, <1>4, <1>5, <1>6 DEF ClientContract!Next, ServerContract!Next

LEMMA StepImplements ==
    ASSUME IInv, [Next]_vars
    PROVE  IF Intact' THEN ContractStep ELSE SettledStays
<1>1. CASE UNCHANGED vars
  <2>1. UNCHANGED <<call, did>>
    BY <1>1 DEF vars
  <2>2. ContractStep
    BY <2>1 DEF ContractStep, Settled, Executed
  <2>3. SettledStays
    BY <2>1 DEF SettledStays
  <2> QED
    BY <2>2, <2>3
<1>2. ASSUME NEW s \in Sides, NEW k \in {0, 1}, NEW m \in Messages, NEW j \in {0, 1},
             StepFacts(s, k, m, j)
      PROVE  IF Intact' THEN ContractStep ELSE SettledStays
  <2> DEFINE d == Other(s)
  <2>1. /\ TypeOK /\ WireIsTyped /\ Always(s) /\ Always(d) /\ d \in Sides
        /\ \A t \in Sides : t = s \/ t = d
        /\ WireIsTyped' /\ CallerMoves(s, k, m, j) /\ ServantMoves(d, k, m, j)
        /\ Intact => WhileIntact(s)
    BY <1>2, SidesFacts DEF IInv, StepFacts, TypeOK, WireIsTyped
  <2> HIDE DEF d
  <2>2. SettledStays
    <3>1. \A id \in RequestIds :
             call[s][id] \notin {"unused", "waiting"} => call'[s][id] = call[s][id]
      BY <2>1, CallerCalls
    <3>2. call'[d] = call[d]
      BY <2>1 DEF ServantMoves
    <3> QED
      BY <2>1, <3>1, <3>2 DEF SettledStays
  <2>3. ASSUME Intact' PROVE ContractStep
    <3>1. Intact
      BY <1>2, <2>3, StepIInv
    <3>2. Settles(s)
      BY <2>1, <3>1, CallerSettles
    <3>3. Executes(d)
      BY <2>1, ServantExecutes
    <3>4. \A t \in Sides : Settles(t) \/ Executes(t)
      BY <2>1, <3>2, <3>3
    <3>5. ClientContract!Next /\ ServerContract!Next
      BY <3>4, ContractSteps DEF Sides
    <3> QED
      BY <3>5 DEF ContractStep
  <2> QED
    BY <2>2, <2>3
<1> QED
  BY <1>1, <1>2, NextMoves

\* Both directions of calls implement CallContract, until a servant throws late;
\* after that, interlock still settles no call twice.
THEOREM OrbsImplementContract == Spec => ImplementsContract
<1>1. Init => ClientContract!Init /\ ServerContract!Init
  <2> SUFFICES ASSUME Init PROVE ClientContract!Init /\ ServerContract!Init
    OBVIOUS
  <2>1. ASSUME NEW s \in Sides
        PROVE  Settled(s) = [id \in RequestIds |-> "unused"] /\ Executed(s) = {}
    BY DEF Init, Settled, Executed
  <2> QED
    BY <2>1 DEF Sides, ClientContract!Init, ServerContract!Init
<1>2. IInv /\ [Next]_vars => [IF Intact' THEN ContractStep ELSE SettledStays]_vars
  BY StepImplements
<1> QED
  BY <1>1, <1>2, Invariance, PTL DEF Spec, ImplementsContract
=============================================================================
