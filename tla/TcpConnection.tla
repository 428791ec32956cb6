--------------------------- MODULE TcpConnection ---------------------------
(* CORBA::detail::TcpConnection with the calls ORB::_twowayCall and         *)
(* ORB::onewayCall make through it, the libev watchers and timer it uses,   *)
(* and the kernel socket below it.                                          *)
(*                                                                          *)
(* A step is one callback of the event loop, one call of the application or *)
(* one event of the network; everything runs on one thread.  The loop       *)
(* guarded by interlock.empty() resumes callers one by one, and a resumed   *)
(* coroutine may call again before the next one is resumed, so that loop    *)
(* alone is split into steps ("draining").                                  *)
EXTENDS Integers, Sequences, FiniteSets

CONSTANTS
    MaxRequests,      \* bound: requests issued on the connection
    MaxWaiting,       \* bound: callers suspended at the same time
    MaxConnects,      \* bound: sockets the connection has had
    ChunksPerMessage, \* pieces in which the kernel may take one request
    Environment       \* which of AllEvents may happen

AllEvents ==
    {"oneway",      \* the application makes oneway calls
     "accept",      \* the connection is an incoming one
     "slow",        \* an attempt or its first answer may take over a second
     "immediate",   \* connect() succeeds at once
     "unreachable", \* connect_to() returns -1
     "refuse",      \* the attempt fails later
     "reset",       \* the peer or the network resets the socket
     "eof",         \* the peer closes its end
     "spurious"}    \* libev reports read events for nothing, as it may

ASSUME ConstantsAssumption ==
    /\ MaxRequests \in Nat \ {0}
    /\ MaxWaiting \in Nat \ {0}
    /\ MaxConnects \in Nat
    /\ ChunksPerMessage \in Nat \ {0}
    /\ Environment \subseteq AllEvents

NoFd == -1
OpenFd == 3
RequestIds == {2 * n : n \in 0 .. MaxRequests - 1}

VARIABLES
    \* TcpConnection and Connection
    state, fd, sendBuffer, bytesSend, requestId, timerActive,
    call,         \* request id -> what became of it; "waiting" = in interlock
    draining,     \* exception with which interlock is being emptied, or "no"
    \* libev
    readWatch, writeWatch,  \* see WatchStates
    writeFirst,   \* the write watcher was started before the read watcher
    fired,        \* events fetched by the loop whose callback is still to run
    midway,       \* canWrite() has run and canRead() is next
    timerArmed, loopDead,
    \* the kernel socket and the peer
    link, inbox, answerable, aligned, connects,
    \* history: requests taken by the kernel, those sent on a torn stream
    sent, garbled

queue   == <<sendBuffer, bytesSend, sent, garbled>>
calls   == <<requestId, call, draining>>
watch   == <<readWatch, writeWatch, writeFirst, loopDead>>
due     == <<fired, midway>>
timers  == <<timerActive, timerArmed>>
socket  == <<link, inbox, answerable, aligned, connects>>
vars    == <<state, fd, queue, calls, watch, due, timers, socket>>

States == {"IDLE", "PENDING", "INPROGRESS", "ESTABLISHED"}
Links == {"none", "connecting", "connected", "eof", "failed"}
\* "stale": still active although its descriptor has been closed, no event
\* comes; "bad": started on a descriptor that was closed before.
WatchStates == {"off", "on", "stale", "bad"}
Outcomes == {"unused", "oneway", "waiting", "reply", "failed",
             "TRANSIENT", "TIMEOUT"}

Waiting == {id \in RequestIds : call[id] = "waiting"}  \* interlock's keys

-----------------------------------------------------------------------------
Stale(w) == IF w = "on" THEN "stale" ELSE w

\* Definitions named <Operator>_<Slip> are <Operator> with a plausible slip;
\* the properties are shown to notice them.

CloseSocket_KeepsFd ==
    /\ fd' = fd /\ link' = "none"
    /\ inbox' = <<>> /\ answerable' = {}
    /\ UNCHANGED <<aligned, connects>>

\* ::close(fd); fd = -1; the kernel forgets the socket.
CloseSocket ==
    /\ fd' = NoFd
    /\ link' = "none"
    /\ inbox' = <<>>
    /\ answerable' = {}
    /\ UNCHANGED <<aligned, connects>>

StartWatch(w) == IF w # "off" THEN w ELSE IF fd = NoFd THEN "bad" ELSE "on"

startWriteHandler ==
    /\ writeWatch' = StartWatch(writeWatch)
    /\ writeFirst' = (writeFirst /\ writeWatch # "off")

\* At the end of canWrite(): wait for the next event when something is left.
KeepWriting_Never(rest) ==
    writeWatch' = "off" /\ writeFirst' = (writeFirst /\ rest = <<>>)

KeepWriting(rest) ==
    /\ writeWatch' = IF rest = <<>> THEN "off" ELSE StartWatch("off")
    /\ writeFirst' = (writeFirst /\ rest = <<>>)

startTimer ==
    /\ timerActive' = TRUE
    /\ timerArmed' = (timerArmed \/ ~timerActive)

stopTimer_FlagOnly == timerActive' = FALSE /\ UNCHANGED timerArmed

stopTimer ==
    /\ timerActive' = FALSE
    /\ timerArmed' = (timerArmed /\ ~timerActive)

\* ev_io_stop() also drops an event that is fetched but not yet delivered,
\* and neither happens when the watcher is not active.
FiredWithoutRead == IF readWatch = "off" THEN fired ELSE fired \ {"read"}

\* up(), connect_to() having returned a descriptor.  ev_io_init() on a watcher
\* that is still active corrupts libev's list: when the kernel hands out the
\* same descriptor again the loop asserts or spins, otherwise it goes on.
upConnects ==
    /\ connects < MaxConnects
    /\ connects' = connects + 1
    /\ fd' = OpenFd
    /\ loopDead' \in IF readWatch # "off" \/ writeWatch # "off"
                     THEN {loopDead, TRUE} ELSE {loopDead}
    /\ startTimer
    /\ readWatch' = "on" /\ writeFirst' = TRUE
    /\ \/ /\ state' = "INPROGRESS"           \* errno == EINPROGRESS
          /\ writeWatch' = "on"
          /\ \/ link' = "connecting"
             \/ link' = "connected" /\ "immediate" \in Environment
       \/ /\ state' = "ESTABLISHED"          \* errno is anything else
          /\ writeWatch' = "off"
          /\ link' = "connected" /\ "immediate" \in Environment
    /\ inbox' = <<>>
    /\ answerable' = {}
    /\ aligned' = (bytesSend = 0)

\* up() when connect_to() fails: the state changes and runtime_error is thrown.
upThrows ==
    /\ "unreachable" \in Environment
    /\ state' = "PENDING"
    /\ UNCHANGED <<fd, watch, timers, socket>>

\* requestId.fetch_add(2): only even ids, at both ends of a connection.
FetchAdd_One == requestId + 1
FetchAdd == requestId + 2

\* A call: _twowayCall (kind "waiting") or onewayCall (kind "oneway") take the
\* next request id and send(); base is what became of the earlier calls.
NewRequest(kind, base) ==
    /\ requestId \in RequestIds
    /\ requestId' = FetchAdd
    /\ sendBuffer' = Append(sendBuffer, requestId)
    /\ UNCHANGED <<bytesSend, sent, garbled, due>>
    /\ \/ /\ state = "IDLE" /\ upThrows
          /\ call' = [base EXCEPT ![requestId] = "failed"]
       \/ /\ call' = [base EXCEPT ![requestId] = kind]
          /\ \/ state = "IDLE" /\ fd = NoFd /\ upConnects
             \/ /\ state = "ESTABLISHED" /\ startWriteHandler
                /\ UNCHANGED <<state, fd, readWatch, loopDead, timers, socket>>
             \/ /\ state \in {"PENDING", "INPROGRESS"}
                /\ UNCHANGED <<state, fd, watch, timers, socket>>

\* The application runs in callbacks, none of which comes between canWrite()
\* and canRead() of one socket; canRead() itself resumes it.
TwowayCall ==
    /\ draining = "no" /\ ~midway
    /\ Cardinality(Waiting) < MaxWaiting
    /\ NewRequest("waiting", call)
    /\ UNCHANGED draining

OnewayCall ==
    /\ "oneway" \in Environment
    /\ draining = "no" /\ ~midway
    /\ NewRequest("oneway", call)
    /\ UNCHANGED draining

\* while (!interlock.empty()) interlock.resume(begin()->first, exception)
Drain(id) ==
    LET failed == [call EXCEPT ![id] = draining] IN
    /\ draining # "no"
    /\ call[id] = "waiting" /\ \A other \in Waiting : id <= other
    /\ UNCHANGED draining
    /\ \/ /\ call' = failed                  \* the caller gives up
          /\ UNCHANGED <<state, fd, queue, requestId, watch, due, timers, socket>>
       \/ NewRequest("waiting", failed)      \* the caller calls again at once

DrainDone ==
    /\ draining # "no" /\ Waiting = {}
    /\ draining' = "no"
    /\ UNCHANGED <<state, fd, queue, requestId, call, watch, due, timers, socket>>

-----------------------------------------------------------------------------
Accept_Unread ==
    /\ "accept" \in Environment
    /\ fd = NoFd /\ connects = 0 /\ requestId = 0 /\ connects < MaxConnects
    /\ fd' = OpenFd /\ state' = "ESTABLISHED"
    /\ link' = "connected" /\ aligned' = TRUE /\ connects' = connects + 1
    /\ UNCHANGED <<queue, calls, watch, due, timers, inbox, answerable>>

\* libev_accept_cb -> connectIncoming -> accept(): only on a new connection.
Accept ==
    /\ "accept" \in Environment
    /\ fd = NoFd /\ connects = 0 /\ requestId = 0 /\ connects < MaxConnects
    /\ fd' = OpenFd
    /\ state' = "ESTABLISHED"
    /\ readWatch' = "on" /\ writeWatch' = "off"
    /\ link' = "connected" /\ aligned' = TRUE /\ connects' = connects + 1
    /\ UNCHANGED <<queue, calls, writeFirst, loopDead, due, timers, inbox, answerable>>

\* The loop fetches events and will run one callback for each, in the order in
\* which the watchers of the descriptor were started.  Starting a
\* watcher on a closed descriptor makes libev stop every watcher of that
\* descriptor and report an error event to each of them.
Poll(spurious) ==
    LET readable == readWatch = "on"
                    /\ (link \in {"eof", "failed"} \/ inbox # <<>> \/ spurious)
        writable == writeWatch = "on" /\ link \in {"connected", "eof", "failed"}
    IN
    /\ spurious => "spurious" \in Environment
    /\ ~loopDead /\ draining = "no" /\ fired = {} /\ midway' = FALSE
    /\ \/ /\ writeWatch # "bad" /\ (readable \/ writable)
          /\ fired' = {e \in {"read", "write"} :
                         IF e = "read" THEN readable ELSE writable}
          /\ UNCHANGED watch
       \/ /\ writeWatch = "bad"
          /\ fired' = IF readWatch = "off" THEN {"write"} ELSE {"read", "write"}
          /\ readWatch' = "off" /\ writeWatch' = "off"
          /\ UNCHANGED <<writeFirst, loopDead>>
    /\ UNCHANGED <<state, fd, queue, calls, timers, socket>>

\* canWrite() starts with stopWriteHandler().
BeginWrite ==
    /\ "write" \in fired /\ draining = "no"
    /\ "read" \in fired => writeFirst
    /\ fired' = fired \ {"write"} /\ midway' = ("read" \in fired)
    /\ UNCHANGED <<calls, timers, loopDead>>

NotConnected == state = "INPROGRESS" /\ link \in {"connecting", "failed"}

CloseOnWrite_DropsQueue ==
    /\ state' = "IDLE"
    /\ CloseSocket
    /\ writeWatch' = "off" /\ readWatch' = Stale(readWatch)
    /\ sendBuffer' = <<>> /\ bytesSend' = 0
    /\ UNCHANGED <<sent, garbled, writeFirst>>

CloseOnWrite ==
    /\ state' = "IDLE"
    /\ CloseSocket
    /\ writeWatch' = "off" /\ readWatch' = Stale(readWatch)
    /\ UNCHANGED <<queue, writeFirst>>

\* getpeername() fails: the attempt did not succeed.
CanWriteNotConnected == BeginWrite /\ NotConnected /\ CloseOnWrite

\* ::send() fails with EPIPE.
CanWriteBroken ==
    BeginWrite /\ ~NotConnected /\ link = "failed" /\ sendBuffer # <<>> /\ CloseOnWrite

\* ::send() fails with EAGAIN, EBADF, ECONNRESET...: wait for the next event.
CanWriteRetry ==
    /\ BeginWrite /\ ~NotConnected
    /\ link \in {"none", "connecting", "failed"} \/ sendBuffer = <<>>
    /\ KeepWriting(sendBuffer)
    /\ UNCHANGED <<state, fd, queue, readWatch, socket>>

\* The kernel takes whole messages of the queue and then b chunks of the next.
CanWriteSome(whole, b) ==
    LET ids == {sendBuffer[i] : i \in 1 .. whole} IN
    /\ BeginWrite /\ link \in {"connected", "eof"}
    /\ \/ whole \in 1 .. Len(sendBuffer)
       \/ whole = 0 /\ sendBuffer # <<>> /\ b > bytesSend
    /\ b \in 0 .. ChunksPerMessage - 1
    /\ whole = Len(sendBuffer) => b = 0
    /\ sendBuffer' = SubSeq(sendBuffer, whole + 1, Len(sendBuffer))
    /\ bytesSend' = b
    /\ sent' = sent \o SubSeq(sendBuffer, 1, whole)
    /\ garbled' = IF aligned THEN garbled ELSE garbled \cup ids
    /\ answerable' = IF aligned /\ link = "connected"
                     THEN answerable \cup {id \in ids : call[id] # "oneway"}
                     ELSE answerable
    /\ KeepWriting(SubSeq(sendBuffer, whole + 1, Len(sendBuffer)))
    /\ UNCHANGED <<state, fd, readWatch, link, inbox, aligned, connects>>

CanWrite == \/ CanWriteNotConnected \/ CanWriteBroken \/ CanWriteRetry
            \/ \E whole \in 0 .. Len(sendBuffer), b \in 0 .. ChunksPerMessage - 1 :
                   CanWriteSome(whole, b)

-----------------------------------------------------------------------------
BeginRead ==
    /\ "read" \in fired /\ draining = "no"
    /\ "write" \in fired => ~writeFirst
    /\ midway' = FALSE
    /\ UNCHANGED <<queue, requestId, writeFirst, loopDead>>

\* EAGAIN: there is nothing to read.
CanReadNothing ==
    /\ BeginRead
    /\ \/ link = "connecting"
       \/ link = "connected" /\ inbox = <<>>
    /\ fired' = fired \ {"read"}
    /\ UNCHANGED <<state, fd, call, draining, readWatch, writeWatch, timers, socket>>

Resumed_Unasked(replies) ==
    [id \in RequestIds |-> IF id \in replies THEN "reply" ELSE call[id]]

\* interlock.resume(requestId, message) for each of the replies; a reply nobody
\* waits for is logged and dropped.
Resumed(replies) ==
    [id \in RequestIds |->
       IF id \in replies /\ call[id] = "waiting" THEN "reply" ELSE call[id]]

\* Bytes arrive that complete n messages, or end of file with no bytes at
\* all; both turn INPROGRESS into ESTABLISHED.  socketRcvd() resumes the
\* callers.
CanReadSome(n) ==
    /\ BeginRead
    /\ n \in 0 .. Len(inbox) /\ (inbox # <<>> \/ link = "eof")
    /\ fired' = fired \ {"read"}
    /\ state' = IF state = "INPROGRESS" THEN "ESTABLISHED" ELSE state
    /\ IF state = "INPROGRESS" THEN stopTimer ELSE UNCHANGED timers
    /\ inbox' = SubSeq(inbox, n + 1, Len(inbox))
    /\ call' = Resumed({inbox[i] : i \in 1 .. n})
    /\ UNCHANGED <<fd, draining, readWatch, writeWatch, link, answerable, aligned, connects>>

\* recv() fails: ENOTCONN, ECONNREFUSED, ECONNRESET, or EBADF when canWrite()
\* closed the socket before.  All callers are to be failed with TRANSIENT.
CanReadFails_Silent ==
    /\ BeginRead
    /\ link \in {"none", "failed"} /\ inbox = <<>>
    /\ fired' = FiredWithoutRead \ {"read"}
    /\ readWatch' = "off" /\ writeWatch' = Stale(writeWatch)
    /\ CloseSocket
    /\ state' = "IDLE"
    /\ UNCHANGED <<call, draining, timers>>

CanReadFails ==
    /\ BeginRead
    /\ link \in {"none", "failed"} /\ inbox = <<>>
    /\ fired' = FiredWithoutRead \ {"read"}
    /\ readWatch' = "off" /\ writeWatch' = Stale(writeWatch)
    /\ CloseSocket
    /\ state' = "IDLE"
    /\ draining' = "TRANSIENT"
    /\ UNCHANGED <<call, timers>>

CanRead == \/ CanReadNothing \/ CanReadFails
           \/ \E n \in 0 .. Len(inbox) : CanReadSome(n)

Timer_Ignored ==
    /\ "slow" \in Environment
    /\ timerArmed /\ ~loopDead /\ draining = "no" /\ ~midway
    /\ timerArmed' = FALSE
    /\ UNCHANGED <<state, fd, queue, calls, watch, due, timerActive, socket>>

\* timer(): the one-shot timer expires; timer_active keeps its value.
Timer ==
    /\ "slow" \in Environment
    /\ timerArmed /\ ~loopDead /\ draining = "no" /\ ~midway
    /\ timerArmed' = FALSE
    /\ IF state = "INPROGRESS"
       THEN /\ fired' = FiredWithoutRead
            /\ readWatch' = "off" /\ writeWatch' = Stale(writeWatch)
            /\ CloseSocket
            /\ state' = "IDLE"
            /\ draining' = "TIMEOUT"
       ELSE UNCHANGED <<state, fd, draining, readWatch, writeWatch, fired, socket>>
    /\ UNCHANGED <<queue, requestId, call, writeFirst, loopDead, timerActive, midway>>

-----------------------------------------------------------------------------
\* The network and the peer; they only touch the kernel's socket.
program == <<state, fd, queue, calls, watch, due, timers>>

ConnectEnds ==
    /\ link = "connecting"
    /\ \/ link' = "connected"
       \/ link' = "failed" /\ "refuse" \in Environment
    /\ UNCHANGED <<program, inbox, answerable, aligned, connects>>

PeerReplies(id) ==
    /\ link = "connected" /\ id \in answerable
    /\ inbox' = Append(inbox, id)
    /\ answerable' = answerable \ {id}
    /\ UNCHANGED <<program, link, aligned, connects>>

PeerCloses ==
    /\ "eof" \in Environment /\ link = "connected"
    /\ link' = "eof" /\ answerable' = {}
    /\ UNCHANGED <<program, inbox, aligned, connects>>

PeerResets ==
    /\ "reset" \in Environment /\ link \in {"connected", "eof"}
    /\ link' = "failed" /\ answerable' = {} /\ inbox' \in {inbox, <<>>}
    /\ UNCHANGED <<program, aligned, connects>>

Peer == \E id \in RequestIds : PeerReplies(id)

-----------------------------------------------------------------------------
Init ==
    /\ state = "IDLE" /\ fd = NoFd
    /\ sendBuffer = <<>> /\ bytesSend = 0 /\ sent = <<>> /\ garbled = {}
    /\ requestId = 0 /\ call = [id \in RequestIds |-> "unused"] /\ draining = "no"
    /\ readWatch = "off" /\ writeWatch = "off" /\ loopDead = FALSE
    /\ writeFirst = FALSE /\ fired = {} /\ midway = FALSE
    /\ timerActive = FALSE /\ timerArmed = FALSE
    /\ link = "none" /\ inbox = <<>> /\ answerable = {} /\ aligned = TRUE
    /\ connects = 0

DrainStep == DrainDone \/ \E id \in RequestIds : Drain(id)

Next == \/ TwowayCall \/ OnewayCall \/ DrainStep \/ Accept
        \/ (\E spurious \in BOOLEAN : Poll(spurious)) \/ CanWrite \/ CanRead \/ Timer
        \/ ConnectEnds \/ Peer \/ PeerCloses \/ PeerResets

\* The loop runs; callbacks that are due are run; the one-second timer
\* expires.  A message has finitely many bytes, so reads complete messages.
\* The network decides every attempt and the peer answers what it received.
Fairness ==
    /\ WF_vars(Poll(FALSE)) /\ WF_vars(CanWrite) /\ WF_vars(CanRead) /\ WF_vars(Timer)
    /\ WF_vars(DrainStep)
    /\ SF_vars(inbox # <<>> /\ CanReadSome(Len(inbox)))
    /\ WF_vars(ConnectEnds) /\ WF_vars(Peer)

Spec == Init /\ [][Next]_vars /\ Fairness
-----------------------------------------------------------------------------
ControlTypeOK ==
    /\ state \in States /\ fd \in {NoFd, OpenFd} /\ link \in Links
    /\ draining \in {"no", "TRANSIENT", "TIMEOUT"}
    /\ readWatch \in {"off", "on", "stale"} /\ writeWatch \in WatchStates
    /\ fired \subseteq {"read", "write"} /\ midway \in BOOLEAN
    /\ writeFirst \in BOOLEAN /\ loopDead \in BOOLEAN
    /\ timerActive \in BOOLEAN /\ timerArmed \in BOOLEAN /\ aligned \in BOOLEAN
DataTypeOK ==
    /\ sendBuffer \in Seq(RequestIds) /\ sent \in Seq(RequestIds)
    /\ bytesSend \in 0 .. ChunksPerMessage - 1
    /\ requestId \in {2 * n : n \in 0 .. MaxRequests}
    /\ call \in [RequestIds -> Outcomes]
    /\ inbox \in Seq(RequestIds)
    /\ answerable \subseteq RequestIds /\ garbled \subseteq RequestIds
    /\ connects \in 0 .. MaxConnects
TypeOK == ControlTypeOK /\ DataTypeOK

\* fd and state are assigned in six places (canWrite twice, canRead, up, accept,
\* timer) and never together, but they never disagree: a mismatch would make up()
\* return early for ever or let a dead descriptor be used.  And an open socket is
\* always watched for reading: replies and errors of every socket are noticed
\* although handlers of an earlier one run late and stop or leave watchers.
FdMatchesState == (fd # NoFd) <=> state \in {"INPROGRESS", "ESTABLISHED"}
OpenSocketIsRead == fd # NoFd => readWatch = "on"
DescriptorIsServed == FdMatchesState /\ OpenSocketIsRead

\* timer_active is true whenever libev's timer runs, so that startTimer() never
\* re-initialises a running timer and stopTimer() never misses one, and during
\* every attempt: an attempt without a timer is one after the timer has fired.
RunningTimerIsKnown ==
    /\ timerArmed => timerActive
    /\ state = "INPROGRESS" => timerActive

\* seq holds consecutive request ids, the first being that of call number n.
Numbered(seq, n) == \A i \in 1 .. Len(seq) : seq[i] = 2 * (n + i - 1)

\* Across sockets, errors and partial writes the requests leave exactly once
\* and in the order they were issued: what the kernel took followed by
\* sendBuffer is every request ever issued; a started message stays in front.
FifoLossless ==
    /\ 2 * (Len(sent) + Len(sendBuffer)) = requestId
    /\ Numbered(sent, 0)
    /\ Numbered(sendBuffer, Len(sent))
    /\ bytesSend > 0 => sendBuffer # <<>>

\* timer_active stays set when the timer has fired.
TimerHasFired == timerActive /\ ~timerArmed

\* Until the timer fires a waiting caller is never left on an idle connection:
\* either interlock is being emptied or canRead() is about to run and will
\* empty it.  A reset between Poll and CanWrite breaks this: canWrite() closes
\* the socket and canRead() is not due.
IdleWaiterIsDrained ==
    state = "IDLE" /\ Waiting # {} /\ ~TimerHasFired =>
        draining # "no" \/ "read" \in fired

\* The calls seen through this connection obey the contract of CallContract.
Contract == INSTANCE CallContract
              WITH executed <- {sent[i] : i \in 1 .. Len(sent)} \ garbled
ImplementsContract == Contract!Spec

\* An attempt that is timed ends: the timer or an event of the socket takes the
\* connection out of INPROGRESS (or libev's loop was broken by a re-init).
TimedAttemptEnds ==
    (state = "INPROGRESS" /\ timerArmed) ~> (state # "INPROGRESS" \/ loopDead)

\* While the write handler is registered the queue is flushed, however few
\* bytes the kernel takes each time, or the socket is lost.
QueueIsFlushed ==
    (writeWatch = "on" /\ sendBuffer # <<>>)
        ~> (sendBuffer = <<>> \/ fd = NoFd \/ loopDead)

\* The only call ever made on a connection returns or throws, also when the
\* attempt is refused or takes too long.
LoneCallCompletes ==
    (call[0] = "waiting" /\ requestId = 2) ~> (call[0] # "waiting" \/ requestId > 2)

-----------------------------------------------------------------------------
(* Claims of the repository's comments and tests that the code does not     *)
(* keep; each has a run that exhibits the violation.                        *)

\* orb.hh "call the peer and wait for a response": the wait ends.
EveryCallCompletes ==
    \A id \in RequestIds : call[id] = "waiting" ~> call[id] # "waiting"

\* orb.hh "COMM_FAILURE: connection closed": when the peer has closed the
\* connection and everything it sent has been read, callers are told.
ClosedEndsCalls ==
    \A id \in RequestIds :
        (link = "eof" /\ inbox = <<>> /\ call[id] = "waiting") ~> call[id] # "waiting"
=============================================================================
