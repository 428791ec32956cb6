---------------------------- MODULE WsConnection ----------------------------
(* CORBA::detail::WsConnection at both ends of a socket: the client that    *)
(* calls and the connection the server makes of it in libev_accept_cb, with *)
(* the HTTP upgrade that has to come before the first WebSocket frame.      *)
(*                                                                          *)
(* A step is one callback of the event loop, one call of the application or *)
(* one event of the network.  A read callback that delivers several frames  *)
(* is several steps.  wslay, libev and the kernel are modelled as this code *)
(* relies on them.                                                          *)
EXTENDS Integers, Sequences, FiniteSets, Functions

CONSTANTS
    MaxRequests,  \* bound: requests issued by the client
    MaxWaiting,   \* bound: callers suspended at the same time
    MaxConnects,  \* bound: sockets the client's connection has had
    Environment   \* which of AllEvents may happen

AllEvents ==
    {"oneway",      \* the application makes oneway calls
     "slow",        \* an attempt may take over five seconds
     "immediate",   \* connect() succeeds at once
     "unreachable", \* connect_to() returns -1
     "refuse",      \* the attempt fails later
     "reset",       \* the established socket is lost
     "block"}       \* the kernel's send buffer may be full

ASSUME ConstantsAssumption ==
    /\ MaxRequests \in Nat \ {0}
    /\ MaxWaiting \in Nat \ {0}
    /\ MaxConnects \in Nat
    /\ Environment \subseteq AllEvents

Sides == {"client", "server"}
Other(s) == IF s = "client" THEN "server" ELSE "client"
RequestIds == {2 * n : n \in 0 .. MaxRequests - 1}

\* On the wire: the id of a request or reply for its frame, and HeaderPart for
\* each half of the HTTP request or response.
HeaderPart == -1
HttpHeader == <<HeaderPart, HeaderPart>>

VARIABLES
    \* both ends
    wsstate,      \* "HTTP_CLIENT", "HTTP_SERVER" or "WS"
    headers,      \* parts of the HTTP header in headers
    sendBuffer,
    queued,       \* messages in wslay's send queue
    writeWatch,   \* "off", "on", "stale": active on a closed descriptor
    due,          \* ends whose write event is fetched and still to be delivered
    \* the client
    state, timerActive, timerArmed, requestId,
    call,         \* request id -> what became of it; "waiting" = in interlock
    draining,     \* timer() is emptying interlock
    ended,        \* how the program came to an end, or "no"
    \* the server
    accepted, serving, executed,
    \* the kernel
    link,         \* the client's socket; "none" when fd is -1
    wire,         \* wire[s]: what is on its way to s
    connects

data    == <<headers, sendBuffer, queued, wire>>
calls   == <<requestId, call, draining>>
timers  == <<timerActive, timerArmed>>
server  == <<accepted, serving, executed>>
socket  == <<link, connects>>
vars    == <<wsstate, data, writeWatch, due, state, calls, timers, ended,
             server, socket>>

Waiting == {id \in RequestIds : call[id] = "waiting"}  \* interlock's keys
Callback == ended = "no" /\ ~draining   \* the loop may run another callback

-----------------------------------------------------------------------------
\* Definitions named <Operator>_<Slip> are <Operator> with a plausible slip;
\* the properties are shown to notice them.

\* wslay_event_send() on queue q of s, with w on the wires before: the kernel
\* takes some of it, all when there is room; a lost socket swallows it.  again:
\* it returned something other than 0.
WslaySend(s, q, w, again) ==
    \E n \in 0 .. Len(q) :
        /\ link # "connected" => n = 0
        /\ link = "connected" /\ n < Len(q) => "block" \in Environment
        /\ again => n < Len(q)
        /\ wire' = [w EXCEPT ![Other(s)] = @ \o SubSeq(q, 1, n)]
        /\ queued' = [queued EXCEPT ![s] = IF link = "connected"
                                           THEN SubSeq(q, n + 1, Len(q)) ELSE <<>>]

\* wslay_event_queue_msg() for each message of buffer, then wslay_event_send().
flushSendBuffer(s, buffer, w) ==
    /\ sendBuffer' = [sendBuffer EXCEPT ![s] = <<>>]
    /\ IF buffer = <<>>
       THEN wire' = w /\ UNCHANGED <<queued, writeWatch>>
       ELSE \E again \in BOOLEAN :
                /\ WslaySend(s, queued[s] \o buffer, w, again)
                /\ writeWatch' = IF again THEN [writeWatch EXCEPT ![s] = "on"]
                                 ELSE writeWatch

\* up(), connect_to() having returned a descriptor.  As in TcpConnection a
\* write watcher that timer() left active is initialised while it is in libev's
\* list; the loop is broken when the new descriptor has the same number.
upConnects ==
    /\ connects < MaxConnects /\ connects' = connects + 1
    /\ ended' \in IF writeWatch["client"] = "off" THEN {"no"} ELSE {"no", "corrupt"}
    /\ timerActive' = TRUE
    /\ timerArmed' = (timerArmed \/ ~timerActive)
    /\ \/ /\ state' = "INPROGRESS"        \* errno == EINPROGRESS
          /\ writeWatch' = [writeWatch EXCEPT !["client"] = "on"]
          /\ \/ link' = "connecting"
             \/ link' = "connected" /\ "immediate" \in Environment
       \/ /\ state' = "ESTABLISHED"       \* errno is anything else
          /\ writeWatch' = [writeWatch EXCEPT !["client"] = "off"]
          /\ link' = "connected" /\ "immediate" \in Environment

upThrows ==
    /\ "unreachable" \in Environment
    /\ state' = "PENDING"
    /\ UNCHANGED <<writeWatch, timers, socket, ended>>

FetchAdd_One == requestId + 1
FetchAdd == requestId + 2

\* send() of a new request.  ESTABLISHED does not mean that the upgrade is
\* through: until then ctx is uninitialised, and what happens is undefined.
NewRequest(kind, base) ==
    LET buffer == Append(sendBuffer["client"], requestId)
        Buffered == /\ sendBuffer' = [sendBuffer EXCEPT !["client"] = buffer]
                    /\ UNCHANGED <<queued, wire>>
    IN
    /\ requestId \in RequestIds
    /\ requestId' = FetchAdd
    /\ UNCHANGED <<wsstate, headers, due, server>>
    /\ \/ /\ state = "IDLE" /\ upThrows /\ Buffered
          /\ call' = [base EXCEPT ![requestId] = "failed"]
       \/ /\ call' = [base EXCEPT ![requestId] = kind]
          /\ \/ state = "IDLE" /\ link = "none" /\ upConnects /\ Buffered
             \/ /\ state \in {"PENDING", "INPROGRESS"} /\ Buffered
                /\ UNCHANGED <<state, writeWatch, timers, socket, ended>>
             \/ /\ state = "ESTABLISHED" /\ wsstate["client"] = "WS"
                /\ flushSendBuffer("client", buffer, wire)
                /\ UNCHANGED <<state, timers, socket, ended>>
             \/ /\ state = "ESTABLISHED" /\ wsstate["client"] # "WS"
                /\ Buffered /\ ended' = "undefined"
                /\ UNCHANGED <<state, writeWatch, timers, socket>>

TwowayCall ==
    /\ Callback /\ Cardinality(Waiting) < MaxWaiting
    /\ NewRequest("waiting", call)
    /\ UNCHANGED draining

OnewayCall ==
    /\ Callback /\ "oneway" \in Environment
    /\ NewRequest("oneway", call)
    /\ UNCHANGED draining

\* while (!interlock.empty()) interlock.resume(begin()->first, TIMEOUT): the
\* caller gives up or calls again at once.
Drain(id) ==
    LET failed == [call EXCEPT ![id] = "TIMEOUT"] IN
    /\ ended = "no" /\ draining /\ UNCHANGED draining
    /\ id \in Waiting /\ \A other \in Waiting : id <= other
    /\ \/ /\ call' = failed
          /\ UNCHANGED <<wsstate, data, writeWatch, due, state, requestId,
                         timers, ended, server, socket>>
       \/ NewRequest("waiting", failed)

DrainDone ==
    /\ ended = "no" /\ draining /\ Waiting = {}
    /\ draining' = FALSE
    /\ UNCHANGED <<wsstate, data, writeWatch, due, state, requestId, call,
                   timers, ended, server, socket>>

-----------------------------------------------------------------------------
\* libev fetches the write event of s; its callback follows.
Poll(s) ==
    /\ Callback /\ s \notin due
    /\ writeWatch[s] = "on" /\ link \in {"connected", "failed"}
    /\ due' = due \cup {s}
    /\ UNCHANGED <<wsstate, data, writeWatch, state, calls, timers, ended,
                   server, socket>>

\* canWrite() in HTTP_CLIENT sends the GET request, and throws out of the event
\* loop when the socket does not take it: because the attempt was refused, or
\* because the event was fetched for a socket that timer() has closed since.
CanWriteHttp_KeepsHandler ==
    /\ Callback /\ "client" \in due /\ wsstate["client"] = "HTTP_CLIENT"
    /\ due' = due \ {"client"}
    /\ state' = IF state = "INPROGRESS" THEN "ESTABLISHED" ELSE state
    /\ link = "connected"
    /\ wire' = [wire EXCEPT !["server"] = @ \o HttpHeader]
    /\ UNCHANGED <<wsstate, headers, sendBuffer, queued, writeWatch, calls, timers,
                   ended, server, socket>>

CanWriteHttp ==
    /\ Callback /\ "client" \in due /\ wsstate["client"] = "HTTP_CLIENT"
    /\ due' = due \ {"client"}
    /\ state' = IF state = "INPROGRESS" THEN "ESTABLISHED" ELSE state
    /\ writeWatch' = [writeWatch EXCEPT !["client"] = "off"]
    /\ \/ /\ link = "connected"
          /\ wire' = [wire EXCEPT !["server"] = @ \o HttpHeader]
          /\ UNCHANGED ended
       \/ /\ link # "connected"
          /\ ended' = "thrown"
          /\ UNCHANGED wire
    /\ UNCHANGED <<wsstate, headers, sendBuffer, queued, calls, timers, server, socket>>

\* canWrite() in WS goes on sending what wslay still has.
CanWriteWs(s) ==
    /\ Callback /\ s \in due /\ wsstate[s] = "WS"
    /\ due' = due \ {s}
    /\ \E again \in BOOLEAN :
           /\ WslaySend(s, queued[s], wire, again)
           /\ writeWatch' = [writeWatch EXCEPT ![s] = IF again THEN @ ELSE "off"]
    /\ UNCHANGED <<wsstate, headers, sendBuffer, state, calls, timers, ended,
                   server, socket>>

\* timer(): the five seconds are over; timer_active and the write watcher stay
\* as they are.  A connection that the server accepted meanwhile stays behind.
Timer_AnyState ==
    /\ Callback /\ "slow" \in Environment /\ timerArmed
    /\ timerArmed' = FALSE
    /\ state' = "IDLE" /\ link' = "none" /\ accepted' = FALSE /\ draining' = TRUE
    /\ wire' = [s \in Sides |-> <<>>]
    /\ UNCHANGED <<wsstate, headers, sendBuffer, queued, writeWatch, due, requestId,
                   call, timerActive, ended, serving, executed, connects>>

Timer ==
    /\ Callback /\ "slow" \in Environment /\ timerArmed
    /\ timerArmed' = FALSE
    /\ IF state = "INPROGRESS"
       THEN /\ state' = "IDLE" /\ link' = "none" /\ accepted' = FALSE
            /\ wire' = [s \in Sides |-> <<>>]
            /\ writeWatch' = [writeWatch EXCEPT !["client"] =
                                IF @ = "on" THEN "stale" ELSE @]
            /\ draining' = TRUE
       ELSE UNCHANGED <<state, link, accepted, wire, writeWatch, draining>>
    /\ UNCHANGED <<wsstate, headers, sendBuffer, queued, due, requestId, call,
                   timerActive, ended, serving, executed, connects>>

-----------------------------------------------------------------------------
\* libev_accept_cb -> connectIncoming -> accept()
Accept ==
    /\ Callback /\ ~accepted /\ link = "connected"
    /\ accepted' = TRUE
    /\ UNCHANGED <<wsstate, data, writeWatch, due, state, calls, timers, ended,
                   serving, executed, socket>>

\* What httpServerRcvd() sends before it enters WS mode; w is on the wires.
Response(s, w) ==
    IF s = "server" /\ link = "connected"
    THEN [w EXCEPT !["client"] = @ \o HttpHeader] ELSE w

startWSMode_NoFlush(s, w) ==
    /\ wsstate' = [wsstate EXCEPT ![s] = "WS"]
    /\ headers' = [headers EXCEPT ![s] = 0]
    /\ wire' = w /\ UNCHANGED <<sendBuffer, queued, writeWatch>>

startWSMode(s, w) ==
    /\ wsstate' = [wsstate EXCEPT ![s] = "WS"]
    /\ headers' = [headers EXCEPT ![s] = 0]
    /\ flushSendBuffer(s, sendBuffer[s], w)

\* httpServerRcvd() and httpClientRcvd(): one recv() takes n pieces, frames
\* behind the header among them, which are then gone.
HttpRcvd(s, n) ==
    LET parts == {i \in 1 .. n : wire[s][i] = HeaderPart}
        have  == headers[s] + Cardinality(parts)
        rest  == [wire EXCEPT ![s] = SubSeq(@, n + 1, Len(@))]
    IN
    /\ Callback /\ wsstate[s] # "WS" /\ (s = "server" => accepted)
    /\ n \in 1 .. Len(wire[s])
    /\ IF have < Len(HttpHeader)
       THEN /\ headers' = [headers EXCEPT ![s] = have] /\ wire' = rest
            /\ UNCHANGED <<wsstate, sendBuffer, queued, writeWatch>>
       ELSE startWSMode(s, Response(s, rest))
    /\ UNCHANGED <<due, state, calls, timers, ended, server, socket>>

\* wslay_event_recv() -> wslay_msg_rcv_callback() -> socketRcvd() at s.
Frame(s) ==
    /\ Callback /\ wsstate[s] = "WS"
    /\ wire[s] # <<>> /\ Head(wire[s]) \in RequestIds
    /\ UNCHANGED <<wsstate, headers, due, state, requestId, draining, timers, ended,
                   accepted, socket>>
Behind(s) == [wire EXCEPT ![s] = Tail(@)]

\* The servant of a request returns at once, or later (ServerReplies).
ServerRcvd ==
    LET id == Head(wire["server"]) IN
    /\ Frame("server")
    /\ executed' = executed \cup {id}
    /\ \/ /\ call[id] # "oneway"
          /\ flushSendBuffer("server", Append(sendBuffer["server"], id), Behind("server"))
          /\ UNCHANGED serving
       \/ /\ serving' = IF call[id] = "oneway" THEN serving ELSE serving \cup {id}
          /\ wire' = Behind("server")
          /\ UNCHANGED <<sendBuffer, queued, writeWatch>>
    /\ UNCHANGED call

ServerReplies(id) ==
    /\ Callback /\ id \in serving
    /\ serving' = serving \ {id}
    /\ flushSendBuffer("server", Append(sendBuffer["server"], id), wire)
    /\ UNCHANGED <<wsstate, headers, due, state, calls, timers, ended, accepted,
                   executed, socket>>

\* A reply nobody waits for is logged and dropped.
Resumed_Unasked(id) == [call EXCEPT ![id] = "reply"]
Resumed(id) == [call EXCEPT ![id] = IF @ = "waiting" THEN "reply" ELSE @]

ClientRcvd ==
    /\ Frame("client")
    /\ call' = Resumed(Head(wire["client"]))
    /\ wire' = Behind("client")
    /\ UNCHANGED <<sendBuffer, queued, writeWatch, serving, executed>>

-----------------------------------------------------------------------------
\* The network.  After a reset what is on its way may still arrive or be lost;
\* end of file and errors of recv() change nothing in this class.
program == <<wsstate, headers, sendBuffer, queued, writeWatch, due, state, calls,
             timers, ended, server, connects>>

ConnectEnds ==
    /\ ended = "no" /\ link = "connecting"
    /\ \/ link' = "connected"
       \/ link' = "failed" /\ "refuse" \in Environment
    /\ UNCHANGED <<program, wire>>

Reset ==
    /\ ended = "no" /\ link = "connected" /\ "reset" \in Environment
    /\ link' = "failed"
    /\ \E lost \in SUBSET Sides :
           wire' = [s \in Sides |-> IF s \in lost THEN <<>> ELSE wire[s]]
    /\ UNCHANGED program

Init ==
    /\ wsstate = [s \in Sides |-> IF s = "client" THEN "HTTP_CLIENT" ELSE "HTTP_SERVER"]
    /\ headers = [s \in Sides |-> 0]
    /\ sendBuffer = [s \in Sides |-> <<>>] /\ queued = [s \in Sides |-> <<>>]
    /\ wire = [s \in Sides |-> <<>>] /\ writeWatch = [s \in Sides |-> "off"]
    /\ due = {} /\ state = "IDLE" /\ timerActive = FALSE /\ timerArmed = FALSE
    /\ requestId = 0 /\ call = [id \in RequestIds |-> "unused"]
    /\ draining = FALSE /\ ended = "no"
    /\ accepted = FALSE /\ serving = {} /\ executed = {}
    /\ link = "none" /\ connects = 0

DrainStep == DrainDone \/ \E id \in RequestIds : Drain(id)
CanWrite == CanWriteHttp \/ \E s \in Sides : CanWriteWs(s)
CanRead == \/ ServerRcvd \/ ClientRcvd
           \/ \E s \in Sides : \E n \in 1 .. Len(wire[s]) : HttpRcvd(s, n)

Next == \/ TwowayCall \/ OnewayCall \/ DrainStep
        \/ (\E s \in Sides : Poll(s)) \/ CanWrite \/ CanRead \/ Timer \/ Accept
        \/ (\E id \in RequestIds : ServerReplies(id)) \/ ConnectEnds \/ Reset

\* The loops of both ends run, the timer expires, the network decides every
\* attempt and servants end.
Fairness ==
    /\ \A s \in Sides : WF_vars(Poll(s))
    /\ WF_vars(CanWrite) /\ WF_vars(CanRead) /\ WF_vars(Timer) /\ WF_vars(DrainStep)
    /\ WF_vars(Accept) /\ WF_vars(\E id \in RequestIds : ServerReplies(id))
    /\ WF_vars(ConnectEnds)

Spec == Init /\ [][Next]_vars /\ Fairness
-----------------------------------------------------------------------------
Tokens == RequestIds \cup {HeaderPart}

TypeOK ==
    /\ wsstate \in [Sides -> {"HTTP_CLIENT", "HTTP_SERVER", "WS"}]
    /\ headers \in [Sides -> 0 .. Len(HttpHeader)]
    /\ sendBuffer \in [Sides -> Seq(RequestIds)]
    /\ queued \in [Sides -> Seq(RequestIds)]
    /\ wire \in [Sides -> Seq(Tokens)]
    /\ writeWatch \in [Sides -> {"off", "on", "stale"}]
    /\ due \subseteq Sides
    /\ state \in {"IDLE", "PENDING", "INPROGRESS", "ESTABLISHED"}
    /\ timerActive \in BOOLEAN /\ timerArmed \in BOOLEAN
    /\ requestId \in {2 * n : n \in 0 .. MaxRequests}
    /\ call \in [RequestIds -> {"unused", "oneway", "waiting", "reply",
                                "failed", "TIMEOUT"}]
    /\ draining \in BOOLEAN
    /\ ended \in {"no", "corrupt", "thrown", "undefined"}
    /\ accepted \in BOOLEAN
    /\ serving \subseteq RequestIds /\ executed \subseteq RequestIds
    /\ link \in {"none", "connecting", "connected", "failed"}
    /\ connects \in 0 .. MaxConnects

\* An end that still reads HTTP has nothing but one HTTP header coming, and an
\* end in WS mode nothing but frames.  So the octets that http*Rcvd() throws
\* away behind the header are none, the GET is sent once and wslay never sees
\* HTTP, although timers, retries and calls come in between.
UpgradeBeforeFrames ==
    \A s \in Sides :
        IF wsstate[s] = "WS" THEN Range(wire[s]) \subseteq RequestIds
        ELSE /\ Range(wire[s]) \subseteq {HeaderPart}
             /\ headers[s] + Len(wire[s]) <= Len(HttpHeader)

Times(id, seq) == Cardinality({i \in DOMAIN seq : seq[i] = id})
One(condition) == IF condition THEN 1 ELSE 0

\* Unless an upgraded socket fails, every request issued is in exactly one of
\* sendBuffer, wslay's queue, the wire and the server's hands, and so is the
\* reply of every caller that waits: moving sendBuffer to wslay, clearing it at
\* once, timeouts and new attempts neither lose nor double one.
NothingLost ==
    ~(link = "failed" /\ wsstate["client"] = "WS") =>
        \A id \in RequestIds :
            /\ id < requestId =>
                 1 = Times(id, wire["server"] \o queued["client"] \o sendBuffer["client"])
                     + One(id \in executed)
            /\ id \in executed /\ call[id] = "waiting" =>
                 1 = Times(id, wire["client"] \o queued["server"] \o sendBuffer["server"])
                     + One(id \in serving)

\* The calls seen through this connection obey the contract of CallContract,
\* as those of TcpConnection do.
Contract == INSTANCE CallContract
ImplementsContract == Contract!Spec

\* A lone call whose attempt is in progress returns or throws; what else may
\* come between is another call, an exception that leaves the event loop, the
\* loss of the established socket and a full send buffer.
LoneCallCompletes ==
    (call[0] = "waiting" /\ requestId = 2 /\ state = "INPROGRESS")
        ~> (\/ call[0] # "waiting" \/ requestId > 2 \/ ended # "no"
            \/ link = "failed" /\ state = "ESTABLISHED"
            \/ \E s \in Sides : queued[s] # <<>>)

-----------------------------------------------------------------------------
\* orb.hh "call the peer and wait for a response": the wait ends.
EveryCallCompletes ==
    \A id \in RequestIds : call[id] = "waiting" ~> call[id] # "waiting"
=============================================================================
