------------------------------ MODULE OrbCalls ------------------------------
(* The calls two ORBs make of each other over one bidirectional connection: *)
(* ORB::_twowayCall, ORB::onewayCall and ORB::socketRcvd, the servants that *)
(* socketRcvd() dispatches to, which return, throw, suspend or call back,   *)
(* and the replies.  Both ends number their requests 0, 2, 4, ...           *)
(*                                                                          *)
(* Messages arrive whole and in order, which TcpConnection and              *)
(* Stream2Packet are about.  A step is one run of socketRcvd() with all the *)
(* coroutines it resumes, one call of the application, or the resumption of *)
(* a servant by something other than a reply.                               *)
EXTENDS Integers, Sequences, FiniteSets

CONSTANTS
    MaxRequests,    \* bound: requests made by each end
    Behaviours      \* what applications and servants do, of AllBehaviours

AllBehaviours ==
    {"oneway",      \* the application makes oneway calls
     "missing",     \* calls to an object that is not active any more
     "suspend",     \* a servant waits for something other than a reply
     "nested",      \* a servant calls the other end before it answers
     "user", "system", "unlisted", "generic", "other",  \* see Throws
     "late"}        \* a servant throws after it was suspended

\* What a servant may throw: a UserException; a SystemException that
\* _twowayCall knows, or one it does not (NO_RESOURCES); another
\* std::exception; or anything else, which is only logged.  What leaves
\* _dispatch() or the send() of the reply is only logged, too: "other".
Throws == {"user", "system", "unlisted", "generic", "other"}

ASSUME ConstantsAssumption ==
    /\ MaxRequests \in Nat \ {0}
    /\ Behaviours \subseteq AllBehaviours

Sides == {"client", "server"}
Other(s) == IF s = "client" THEN "server" ELSE "client"
RequestIds == {2 * n : n \in 0 .. MaxRequests - 1}
NoId == -1

VARIABLES
    requestId,  \* per side: Connection::requestId
    call,       \* per side and id: what became of the call it made
    running,    \* per side: its suspended servants
    wire,       \* per side: messages it has sent that are not yet received
    dead,       \* sides whose process has crashed
    did         \* history, per caller and id: what the servant did

vars == <<requestId, call, running, wire, dead, did>>

Outcomes == {"unused", "oneway", "waiting", "return",
             "UserException", "SystemException", "runtime_error"}
Statuses == {"return", "missing"} \cup (Throws \ {"other"})
Requests == [type : {"request"}, id : RequestIds, kind : {"waiting", "oneway"},
             target : {"servant", "missing", "_is_a"}]
Replies == [type : {"reply"}, id : RequestIds, status : Statuses]
Dispatches == [id : RequestIds, kind : {"waiting", "oneway"},
               phase : {"start", "signal", "nested"}, nested : RequestIds \cup {NoId}]

-----------------------------------------------------------------------------
\* Definitions named <Operator>_<Slip> are <Operator> with a plausible slip;
\* the properties are shown to notice them.

Reply(id, status) == [type |-> "reply", id |-> id, status |-> status]

\* What _twowayCall returns or throws for a reply.
Thrown(status) ==
    CASE status = "return" -> "return"
      [] status = "user" -> "UserException"
      [] status \in {"system", "missing"} -> "SystemException"
      [] status \in {"unlisted", "generic"} -> "runtime_error"

\* s sends messages; inbound is what is left of those sent to it.
Transmit(s, messages, inbound) ==
    wire' = [wire EXCEPT ![s] = @ \o messages, ![Other(s)] = inbound]

FetchAdd_Load(s) == requestId' = requestId
FetchAdd_One(s) == requestId' = [requestId EXCEPT ![s] = @ + 1]
FetchAdd(s) == requestId' = [requestId EXCEPT ![s] = @ + 2]

\* _twowayCall (kind "waiting": it suspends) or onewayCall.
NewCall(s, kind, target, inbound, before) ==
    /\ requestId[s] \in RequestIds
    /\ FetchAdd(s)
    /\ call' = [before EXCEPT ![s][requestId[s]] = kind]
    /\ Transmit(s, <<[type |-> "request", id |-> requestId[s],
                      kind |-> kind, target |-> target]>>, inbound)

\* The server has a stub once a request has told it of the client.
TwowayCall(s, target) ==
    /\ s \notin dead
    /\ s = "server" => \E id \in RequestIds : did["client"][id] # "none"
    /\ target # "missing" \/ "missing" \in Behaviours
    /\ NewCall(s, "waiting", target, wire[Other(s)], call)
    /\ UNCHANGED <<running, dead, did>>

OnewayCall(s, target) ==
    /\ "oneway" \in Behaviours /\ target # "_is_a"
    /\ s \notin dead
    /\ s = "server" => \E id \in RequestIds : did["client"][id] # "none"
    /\ target # "missing" \/ "missing" \in Behaviours
    /\ NewCall(s, "oneway", target, wire[Other(s)], call)
    /\ UNCHANGED <<running, dead, did>>

-----------------------------------------------------------------------------
Answer_Always(r, end) == <<Reply(r.id, end)>>
Answer_ReturnOnly(r, end) ==
    IF r.kind = "waiting" /\ end = "return" THEN <<Reply(r.id, end)>> ELSE <<>>

\* What the two lambdas of thenOrCatch() send when a servant has ended.
Answer(r, end) ==
    IF r.kind = "waiting" /\ end # "other" THEN <<Reply(r.id, end)>> ELSE <<>>

\* The servant returns, or throws before it was ever suspended.
Ends(s, r, inbound, before) ==
    \E end \in {"return"} \cup (Throws \cap Behaviours) :
        /\ end = "return" \/ r.phase = "start"
        /\ Transmit(s, Answer(r, end), inbound)
        /\ did' = [did EXCEPT ![Other(s)][r.id] = end]
        /\ call' = before
        /\ running' = [running EXCEPT ![s] = @ \ {r}]
        /\ UNCHANGED <<requestId, dead>>

\* No servant has thrown late yet.  Bound: one does, for nothing is known of
\* the process after that.
Intact == \A s \in Sides, id \in RequestIds : did[s][id] # "lost"

\* It throws later.  The error lambda has captured the local variables of a
\* socketRcvd() that has returned: encoder, requestId, responseExpected,
\* request, servant and connection are whatever is in their place now.
ThrowsLate(s, r, inbound, before) ==
    /\ "late" \in Behaviours /\ r.phase # "start" /\ Intact
    /\ did' = [did EXCEPT ![Other(s)][r.id] = "lost"]
    /\ call' = before
    /\ running' = [running EXCEPT ![s] = @ \ {r}]
    /\ UNCHANGED requestId
    /\ \/ dead' = dead \cup {s} /\ Transmit(s, <<>>, inbound)
       \/ /\ UNCHANGED dead
          /\ \/ Transmit(s, <<>>, inbound)
             \/ \E id \in RequestIds, end \in (Throws \cap Behaviours) \ {"other"} :
                    Transmit(s, <<Reply(id, end)>>, inbound)

Suspends(s, r, inbound, before) ==
    /\ "suspend" \in Behaviours
    /\ running' = [running EXCEPT ![s] = (@ \ {r})
                      \cup {[r EXCEPT !.phase = "signal", !.nested = NoId]}]
    /\ did' = [did EXCEPT ![Other(s)][r.id] = "started"]
    /\ call' = before
    /\ Transmit(s, <<>>, inbound)
    /\ UNCHANGED <<requestId, dead>>

CallsBack(s, r, inbound, before) ==
    /\ "nested" \in Behaviours
    /\ NewCall(s, "waiting", "servant", inbound, before)
    /\ running' = [running EXCEPT ![s] = (@ \ {r})
                      \cup {[r EXCEPT !.phase = "nested", !.nested = requestId[s]]}]
    /\ did' = [did EXCEPT ![Other(s)][r.id] = "started"]
    /\ UNCHANGED dead

\* The servant for request r runs until it ends or is suspended again.
Proceeds(s, r, inbound, before) ==
    \/ Ends(s, r, inbound, before) \/ ThrowsLate(s, r, inbound, before)
    \/ Suspends(s, r, inbound, before) \/ CallsBack(s, r, inbound, before)

-----------------------------------------------------------------------------
\* socketRcvd(), case REQUEST: no servant, _is_a, or a call of the servant.
ReceiveRequest(s) ==
    LET inbound == Tail(wire[Other(s)])
        m == Head(wire[Other(s)])
        refused == m.target = "missing"
    IN
    /\ s \notin dead /\ wire[Other(s)] # <<>> /\ m.type = "request"
    /\ IF m.target = "servant"
       THEN Proceeds(s, [id |-> m.id, kind |-> m.kind, phase |-> "start", nested |-> NoId],
                     inbound, call)
       ELSE /\ Transmit(s, IF m.kind = "oneway" THEN <<>>
                           ELSE <<Reply(m.id, IF refused THEN "missing" ELSE "return")>>,
                        inbound)
            /\ did' = [did EXCEPT ![Other(s)][m.id] = IF refused THEN "missing" ELSE "return"]
            /\ UNCHANGED <<requestId, call, running, dead>>

Resume_Oldest(s, m) ==
    [call EXCEPT ![s] = [id \in RequestIds |->
        IF @[id] = "waiting" /\ \A other \in RequestIds : @[other] = "waiting" => id <= other
        THEN Thrown(m.status) ELSE @[id]]]

\* interlock.resume(): a reply nobody waits for is logged and dropped.
Resume(s, m) == IF call[s][m.id] = "waiting"
                THEN [call EXCEPT ![s][m.id] = Thrown(m.status)] ELSE call

\* The suspended servants that were waiting for the reply to request id.
Awaiting(s, id) == {r \in running[s] : r.nested = id}

\* socketRcvd(), case REPLY: the caller is resumed at once, and when it is a
\* servant it goes on in the same call of socketRcvd().
ReceiveReply(s) ==
    LET inbound == Tail(wire[Other(s)])
        m == Head(wire[Other(s)])
    IN
    /\ s \notin dead /\ wire[Other(s)] # <<>> /\ m.type = "reply"
    /\ IF call[s][m.id] = "waiting" /\ Awaiting(s, m.id) # {}
       THEN \E r \in Awaiting(s, m.id) : Proceeds(s, r, inbound, Resume(s, m))
       ELSE /\ call' = Resume(s, m)
            /\ Transmit(s, <<>>, inbound)
            /\ UNCHANGED <<requestId, running, dead, did>>

\* A servant is resumed by something other than a reply.
Signal(s, r) ==
    /\ s \notin dead
    /\ r \in running[s] /\ r.phase = "signal"
    /\ Proceeds(s, r, wire[Other(s)], call)

-----------------------------------------------------------------------------
Init == /\ requestId = [s \in Sides |-> 0]
        /\ call = [s \in Sides |-> [id \in RequestIds |-> "unused"]]
        /\ running = [s \in Sides |-> {}]
        /\ wire = [s \in Sides |-> <<>>]
        /\ dead = {}
        /\ did = [s \in Sides |-> [id \in RequestIds |-> "none"]]

Next == \E s \in Sides :
            \/ \E target \in {"servant", "missing", "_is_a"} :
                   TwowayCall(s, target) \/ OnewayCall(s, target)
            \/ ReceiveRequest(s) \/ ReceiveReply(s)
            \/ \E r \in running[s] : Signal(s, r)

\* What is sent is received, and what a servant waits for happens; a servant
\* does not put off its end for ever.
Fairness ==
    \A s \in Sides :
        /\ WF_vars(ReceiveRequest(s) \/ ReceiveReply(s))
        /\ \A id \in RequestIds :
               SF_vars(\E r \in running[s] :
                          /\ r.id = id /\ r.phase = "signal" /\ s \notin dead
                          /\ Ends(s, r, wire[Other(s)], call))

Spec == Init /\ [][Next]_vars /\ Fairness

-----------------------------------------------------------------------------
TypeOK ==
    /\ requestId \in [Sides -> {2 * n : n \in 0 .. MaxRequests}]
    /\ call \in [Sides -> [RequestIds -> Outcomes]]
    /\ running \in [Sides -> SUBSET Dispatches]
    /\ wire \in [Sides -> Seq(Requests \cup Replies)]
    /\ dead \subseteq Sides
    /\ did \in [Sides -> [RequestIds -> {"none", "started", "missing", "lost", "return"}
                                        \cup Throws]]

Count(s, messages) == Cardinality({i \in 1 .. Len(wire[s]) : wire[s][i] \in messages})

RepliesTo(s, id) == Count(Other(s), {m \in Replies : m.id = id})

\* Where the request of s with this id, its servant and its reply are.
Traces(s, id) == Count(s, {m \in Requests : m.id = id})
                 + Cardinality({r \in running[Other(s)] : r.id = id})
                 + RepliesTo(s, id)

\* A caller waits exactly as long as its request, the servant running for it or
\* its reply exists somewhere, and of these there is only one: none is lost,
\* duplicated or answered twice, also when both ends use the same ids and
\* servants end in another order than they began.  The one caller that waits
\* for nothing is that of a servant socketRcvd() did not answer ("other").  A
\* oneway call is executed once and never answered.
WaitingIsUnderway == Intact =>
    \A s \in Sides, id \in RequestIds :
        IF call[s][id] = "oneway" THEN Traces(s, id) <= 1 /\ RepliesTo(s, id) = 0
        ELSE Traces(s, id) = IF call[s][id] = "waiting" /\ did[s][id] # "other" THEN 1 ELSE 0

\* A caller gets what the servant did for its own request, not for another one
\* with the same id in the other direction or one that ended earlier.
OutcomeIsServants == Intact =>
    \A s \in Sides, id \in RequestIds :
        call[s][id] \in Outcomes \ {"unused", "oneway", "waiting"} =>
            did[s][id] \in Statuses /\ call[s][id] = Thrown(did[s][id])

\* A servant that waits for a reply waits for a call that is still open, and no
\* two servants wait for the same one.
NestedIsOpen ==
    \A s \in Sides : \A r \in running[s] :
        r.phase = "nested" => /\ call[s][r.nested] = "waiting"
                              /\ Awaiting(s, r.nested) = {r}

\* Both directions obey the contract that TcpConnection implements one layer
\* down; here a request is executed when its servant is entered.  Once a servant
\* has thrown late, a reply may carry any id, and what is left of the contract
\* is that interlock settles no call twice.
Settled(s) == [id \in RequestIds |->
                 IF call[s][id] \in {"unused", "oneway", "waiting"}
                 THEN call[s][id] ELSE "reply"]
Executed(s) == {id \in RequestIds : did[s][id] # "none"}
ClientContract == INSTANCE CallContract
                    WITH call <- Settled("client"), executed <- Executed("client")
ServerContract == INSTANCE CallContract
                    WITH call <- Settled("server"), executed <- Executed("server")
ContractStep == /\ [ClientContract!Next]_<<Settled("client"), Executed("client")>>
                /\ [ServerContract!Next]_<<Settled("server"), Executed("server")>>
SettledStays == \A s \in Sides, id \in RequestIds :
                   call[s][id] \notin {"unused", "waiting"} => call'[s][id] = call[s][id]
ImplementsContract ==
    /\ ClientContract!Init /\ ServerContract!Init
    /\ [][IF Intact' THEN ContractStep ELSE SettledStays]_vars

\* "call the peer and wait for a response": every wait ends, although servants
\* of both ends wait for each other, unless some servant was not answered for.
Unanswered == \E s \in Sides, id \in RequestIds : did[s][id] \in {"other", "lost"}
EveryCallAnswered ==
    \A s \in Sides, id \in RequestIds :
        call[s][id] = "waiting" ~> call[s][id] # "waiting" \/ Unanswered
=============================================================================
