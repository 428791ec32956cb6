------------------------ MODULE TcpConnectionProofs ------------------------
(* The safety invariants of TcpConnection, for every bound and every        *)
(* environment.  None of them is inductive alone: FdMatchesState needs that *)
(* up() is entered without a descriptor, OpenSocketIsRead that libev stops  *)
(* watchers by itself only when the descriptor is gone.  Then, that every   *)
(* step is one of CallContract; and that callers are not left on an idle    *)
(* connection as long as the peer resets no socket.                         *)
EXTENDS TcpConnection, TLAPS

\* A watcher libev will refuse was started when no descriptor was open.
BadWatchIsClosed == writeWatch = "bad" => fd = NoFd

IInv == /\ TypeOK
        /\ FdMatchesState
        /\ OpenSocketIsRead
        /\ RunningTimerIsKnown
        /\ FifoLossless
        /\ BadWatchIsClosed

-----------------------------------------------------------------------------
(* Facts about sequences of consecutive ids, independent of the state.      *)

\* The kernel takes a prefix of the queue: both parts stay consecutive.
LEMMA TakePrefix ==
    ASSUME NEW S \in SUBSET Int, NEW s \in Seq(S), NEW q \in Seq(S),
           NEW k \in 0 .. Len(q),
           Numbered(s, 0), Numbered(q, Len(s))
    PROVE  LET s2 == s \o SubSeq(q, 1, k)
               q2 == SubSeq(q, k + 1, Len(q))
           IN /\ s2 \in Seq(S) /\ q2 \in Seq(S)
              /\ Len(s2) = Len(s) + k /\ Len(q2) = Len(q) - k
              /\ Numbered(s2, 0) /\ Numbered(q2, Len(s2))
<1> DEFINE taken == SubSeq(q, 1, k)
           s2 == s \o taken
           q2 == SubSeq(q, k + 1, Len(q))
<1>1. /\ taken \in Seq(S) /\ Len(taken) = k
      /\ \A i \in 1 .. k : taken[i] = q[i]
  OBVIOUS
<1>2. /\ q2 \in Seq(S) /\ Len(q2) = Len(q) - k
      /\ \A i \in 1 .. Len(q) - k : q2[i] = q[k + i]
  OBVIOUS
<1> HIDE DEF taken
<1>3. /\ s2 \in Seq(S) /\ Len(s2) = Len(s) + k
      /\ \A i \in 1 .. Len(s) : s2[i] = s[i]
      /\ \A i \in 1 .. k : s2[Len(s) + i] = taken[i]
  BY <1>1
<1> HIDE DEF s2, q2
<1>4. ASSUME NEW i \in 1 .. Len(s2)
      PROVE  s2[i] = 2 * (0 + i - 1)
  <2>1. CASE i <= Len(s)
    BY <1>3, <2>1 DEF Numbered
  <2>2. CASE i > Len(s)
    <3>1. i - Len(s) \in 1 .. k /\ i - Len(s) \in 1 .. Len(q)
      BY <1>3, <2>2
    <3>2. s2[i] = taken[i - Len(s)]
      BY <1>3, <3>1
    <3>3. s2[i] = q[i - Len(s)]
      BY <1>1, <3>1, <3>2
    <3> QED
      BY <3>1, <3>3 DEF Numbered
  <2> QED
    BY <2>1, <2>2, <1>3
<1>5. ASSUME NEW i \in 1 .. Len(q2)
      PROVE  q2[i] = 2 * (Len(s2) + i - 1)
  <2>1. k + i \in 1 .. Len(q) /\ q2[i] = q[k + i]
    BY <1>2
  <2> QED
    BY <1>3, <2>1 DEF Numbered
<1>6. Numbered(s2, 0) /\ Numbered(q2, Len(s2))
  BY <1>4, <1>5 DEF Numbered
<1> QED
  BY <1>2, <1>3, <1>6 DEF s2, q2, taken

\* Issuing a request appends the next consecutive id.
LEMMA AppendNext ==
    ASSUME NEW S \in SUBSET Int, NEW q \in Seq(S), NEW n \in Nat,
           Numbered(q, n), 2 * (n + Len(q)) \in S
    PROVE  LET q2 == Append(q, 2 * (n + Len(q)))
           IN /\ q2 \in Seq(S) /\ Len(q2) = Len(q) + 1
              /\ Numbered(q2, n)
  BY DEF Numbered

-----------------------------------------------------------------------------
LEMMA IdsAreInts == RequestIds \in SUBSET Int
  BY ConstantsAssumption DEF RequestIds

LEMMA InitIInv == Init => IInv
<1> SUFFICES ASSUME Init PROVE IInv
  OBVIOUS
<1>1. TypeOK
  <2>1. /\ 0 \in 0 .. ChunksPerMessage - 1 /\ 0 \in 0 .. MaxConnects
        /\ 0 \in {2 * n : n \in 0 .. MaxRequests}
    BY ConstantsAssumption
  <2>2. call \in [RequestIds -> Outcomes]
    BY DEF Init, Outcomes
  <2>3. <<>> \in Seq(RequestIds)
    OBVIOUS
  <2>4. DataTypeOK
    BY <2>1, <2>2, <2>3 DEF Init, DataTypeOK
  <2>5. ControlTypeOK
    BY DEF Init, ControlTypeOK, States, Links, WatchStates
  <2> QED
    BY <2>4, <2>5 DEF TypeOK
<1>2. FdMatchesState /\ OpenSocketIsRead /\ RunningTimerIsKnown /\ BadWatchIsClosed
  BY DEF Init, FdMatchesState, OpenSocketIsRead, RunningTimerIsKnown, BadWatchIsClosed
<1>3. FifoLossless
  BY DEF Init, FifoLossless, Numbered
<1> QED
  BY <1>1, <1>2, <1>3 DEF IInv

\* Steps that leave the queue and the counter alone keep the order of requests.
LEMMA QueueUntouched ==
    FifoLossless /\ UNCHANGED <<queue, requestId>> => FifoLossless'
  BY DEF FifoLossless, Numbered, queue

\* A call, whatever became of the earlier ones: the only step that issues.
LEMMA NewRequestIInv ==
    ASSUME IInv, NEW kind \in {"waiting", "oneway"},
           NEW base \in [RequestIds -> Outcomes],
           NewRequest(kind, base), UNCHANGED draining
    PROVE  IInv'
<1>1. /\ requestId' \in {2 * n : n \in 0 .. MaxRequests}
      /\ sendBuffer' \in Seq(RequestIds) /\ sent' \in Seq(RequestIds)
      /\ FifoLossless'
  <2>1. /\ sendBuffer \in Seq(RequestIds) /\ sent \in Seq(RequestIds)
        /\ FifoLossless
    BY DEF IInv, TypeOK, DataTypeOK
  <2>2. /\ requestId \in RequestIds /\ requestId' = requestId + 2
        /\ sendBuffer' = Append(sendBuffer, requestId)
        /\ UNCHANGED <<bytesSend, sent>>
    BY DEF NewRequest, FetchAdd
  <2>3. requestId = 2 * (Len(sent) + Len(sendBuffer)) /\ Len(sent) \in Nat
    BY <2>1 DEF FifoLossless
  <2>4. /\ sendBuffer' \in Seq(RequestIds)
        /\ Len(sendBuffer') = Len(sendBuffer) + 1
        /\ Numbered(sendBuffer', Len(sent))
    BY <2>1, <2>2, <2>3, IdsAreInts, AppendNext DEF FifoLossless
  <2>5. requestId' \in {2 * n : n \in 0 .. MaxRequests}
    <3>1. PICK n \in 0 .. MaxRequests - 1 : requestId = 2 * n
      BY <2>2 DEF RequestIds
    <3>2. n + 1 \in 0 .. MaxRequests /\ requestId' = 2 * (n + 1)
      BY <2>2, <3>1, ConstantsAssumption
    <3> QED
      BY <3>2
  <2>6. sendBuffer' # <<>>
    BY <2>1, <2>4
  <2>7. 2 * (Len(sent') + Len(sendBuffer')) = requestId'
    BY <2>1, <2>2, <2>3, <2>4
  <2>8. Numbered(sent', 0) /\ Numbered(sendBuffer', Len(sent'))
    BY <2>1, <2>2, <2>4 DEF FifoLossless
  <2> QED
    BY <2>1, <2>2, <2>4, <2>5, <2>6, <2>7, <2>8 DEF FifoLossless
<1>2. /\ call' \in [RequestIds -> Outcomes]
      /\ bytesSend' \in 0 .. ChunksPerMessage - 1
      /\ garbled' \subseteq RequestIds
  BY DEF NewRequest, Outcomes, IInv, TypeOK, DataTypeOK
<1>3. /\ draining' \in {"no", "TRANSIENT", "TIMEOUT"}
      /\ fired' \subseteq {"read", "write"} /\ midway' \in BOOLEAN
  BY DEF NewRequest, due, IInv, TypeOK, ControlTypeOK
<1> DEFINE SocketData ==
             /\ connects \in 0 .. MaxConnects /\ inbox \in Seq(RequestIds)
             /\ answerable \subseteq RequestIds
           Control ==
             /\ state \in States /\ fd \in {NoFd, OpenFd} /\ link \in Links
             /\ readWatch \in {"off", "on", "stale"} /\ writeWatch \in WatchStates
             /\ writeFirst \in BOOLEAN /\ loopDead \in BOOLEAN
             /\ timerActive \in BOOLEAN /\ timerArmed \in BOOLEAN
             /\ aligned \in BOOLEAN
           Relations ==
             /\ FdMatchesState /\ OpenSocketIsRead
             /\ RunningTimerIsKnown /\ BadWatchIsClosed
<1>4. Control /\ SocketData /\ Relations
  BY DEF IInv, TypeOK, ControlTypeOK, DataTypeOK
<1>5. SUFFICES Control' /\ SocketData' /\ Relations'
  BY <1>1, <1>2, <1>3 DEF IInv, TypeOK, ControlTypeOK, DataTypeOK
<1>6. CASE state = "IDLE" /\ upThrows
  BY <1>4, <1>6
  DEF upThrows, FdMatchesState, OpenSocketIsRead, RunningTimerIsKnown,
      BadWatchIsClosed, States, watch, timers, socket
<1>7. CASE state = "IDLE" /\ fd = NoFd /\ upConnects
  <2>1. /\ readWatch' = "on" /\ writeWatch' \in {"on", "off"}
        /\ writeFirst' = TRUE /\ timerActive' = TRUE
        /\ fd' = OpenFd /\ state' \in {"INPROGRESS", "ESTABLISHED"}
        /\ link' \in {"connecting", "connected"}
        /\ inbox' = <<>> /\ answerable' = {}
    BY <1>7 DEF upConnects, startTimer
  <2>2. loopDead' \in BOOLEAN /\ timerArmed' \in BOOLEAN /\ aligned' \in BOOLEAN
    BY <1>4, <1>7 DEF upConnects, startTimer
  <2>3. connects' \in 0 .. MaxConnects
    BY <1>4, <1>7, ConstantsAssumption DEF upConnects
  <2>4. Control' /\ SocketData'
    BY <2>1, <2>2, <2>3 DEF States, Links, WatchStates
  <2>5. Relations'
    BY <2>1 DEF FdMatchesState, OpenSocketIsRead, RunningTimerIsKnown,
                BadWatchIsClosed, NoFd, OpenFd
  <2> QED
    BY <2>4, <2>5
<1>8. CASE /\ state = "ESTABLISHED" /\ startWriteHandler
           /\ UNCHANGED <<state, fd, readWatch, loopDead, timers, socket>>
  <2>1. writeWatch' \in WatchStates /\ writeFirst' \in BOOLEAN
    BY <1>4, <1>8 DEF startWriteHandler, StartWatch, WatchStates
  <2>2. BadWatchIsClosed'
    BY <1>4, <1>8 DEF FdMatchesState, BadWatchIsClosed, startWriteHandler, StartWatch
  <2> QED
    BY <1>4, <1>8, <2>1, <2>2
    DEF FdMatchesState, OpenSocketIsRead, RunningTimerIsKnown, timers, socket
<1>9. CASE UNCHANGED <<state, fd, watch, timers, socket>>
  BY <1>4, <1>9
  DEF FdMatchesState, OpenSocketIsRead, RunningTimerIsKnown,
      BadWatchIsClosed, watch, timers, socket
<1> QED
  BY <1>6, <1>7, <1>8, <1>9 DEF NewRequest

\* TwowayCall, OnewayCall and the retry of a resumed caller are new requests.
LEMMA CallIInv == IInv /\ (TwowayCall \/ OnewayCall) => IInv'
<1>1. IInv => call \in [RequestIds -> Outcomes]
  BY DEF IInv, TypeOK, DataTypeOK
<1>2. IInv /\ TwowayCall => IInv'
  BY <1>1, NewRequestIInv DEF TwowayCall
<1>3. IInv /\ OnewayCall => IInv'
  BY <1>1, NewRequestIInv DEF OnewayCall
<1> QED
  BY <1>2, <1>3

LEMMA DrainIInv == IInv /\ DrainStep => IInv'
<1> SUFFICES ASSUME IInv, DrainStep PROVE IInv'
  OBVIOUS
<1>1. CASE DrainDone
  <2>1. FifoLossless'
    BY <1>1, QueueUntouched DEF DrainDone, IInv
  <2> QED
    BY <1>1, <2>1
    DEF DrainDone, IInv, TypeOK, ControlTypeOK, DataTypeOK, FdMatchesState,
        OpenSocketIsRead, RunningTimerIsKnown, BadWatchIsClosed,
        queue, watch, due, timers, socket
<1>2. ASSUME NEW id \in RequestIds, Drain(id)
      PROVE  IInv'
  <2> DEFINE failed == [call EXCEPT ![id] = draining]
  <2>1. failed \in [RequestIds -> Outcomes]
    BY <1>2 DEF Drain, IInv, TypeOK, ControlTypeOK, DataTypeOK, Outcomes
  <2>2. CASE NewRequest("waiting", failed)
    BY <1>2, <2>1, <2>2, NewRequestIInv DEF Drain
  <2>3. CASE /\ call' = failed
             /\ UNCHANGED <<state, fd, queue, requestId, watch, due, timers, socket>>
    <3>1. FifoLossless'
      BY <2>3, QueueUntouched DEF IInv
    <3>2. draining' = draining
      BY <1>2 DEF Drain
    <3> HIDE DEF failed
    <3> QED
      BY <2>1, <2>3, <3>1, <3>2
      DEF IInv, TypeOK, ControlTypeOK, DataTypeOK, FdMatchesState,
          OpenSocketIsRead, RunningTimerIsKnown, BadWatchIsClosed,
          queue, watch, due, timers, socket
  <2> QED
    BY <1>2, <2>2, <2>3 DEF Drain
<1> QED
  BY <1>1, <1>2 DEF DrainStep

LEMMA AcceptIInv == IInv /\ Accept => IInv'
<1> SUFFICES ASSUME IInv, Accept PROVE IInv'
  OBVIOUS
<1>1. FifoLossless'
  BY QueueUntouched DEF Accept, IInv, calls
<1>2. connects' \in 0 .. MaxConnects
  BY ConstantsAssumption DEF Accept, IInv, TypeOK, DataTypeOK
<1>3. DataTypeOK'
  BY <1>2 DEF Accept, IInv, TypeOK, DataTypeOK, queue, calls
<1>4. ControlTypeOK'
  BY DEF Accept, IInv, TypeOK, ControlTypeOK, States, Links, WatchStates,
         calls, due, timers
<1> QED
  BY <1>1, <1>3, <1>4
  DEF Accept, IInv, TypeOK, FdMatchesState, OpenSocketIsRead,
      RunningTimerIsKnown, BadWatchIsClosed, NoFd, OpenFd, timers

LEMMA PollIInv == ASSUME NEW spurious \in BOOLEAN PROVE IInv /\ Poll(spurious) => IInv'
<1> SUFFICES ASSUME IInv, Poll(spurious) PROVE IInv'
  OBVIOUS
<1>1. FifoLossless'
  BY QueueUntouched DEF Poll, IInv, calls
<1>2. DataTypeOK'
  BY DEF Poll, IInv, TypeOK, DataTypeOK, queue, calls, socket
<1>3. fired' \subseteq {"read", "write"} /\ midway' \in BOOLEAN
  BY DEF Poll
<1>4. CASE UNCHANGED watch
  BY <1>1, <1>2, <1>3, <1>4
  DEF Poll, IInv, TypeOK, ControlTypeOK, FdMatchesState, OpenSocketIsRead,
      RunningTimerIsKnown, BadWatchIsClosed, watch, calls, timers, socket
<1>5. CASE /\ writeWatch = "bad"
           /\ readWatch' = "off" /\ writeWatch' = "off"
           /\ UNCHANGED <<writeFirst, loopDead>>
  BY <1>1, <1>2, <1>3, <1>5
  DEF Poll, IInv, TypeOK, ControlTypeOK, FdMatchesState, OpenSocketIsRead,
      RunningTimerIsKnown, BadWatchIsClosed, WatchStates, calls, timers, socket
<1> QED
  BY <1>4, <1>5 DEF Poll

LEMMA CanWriteIInv == IInv /\ CanWrite => IInv'
<1> SUFFICES ASSUME IInv, CanWrite PROVE IInv'
  OBVIOUS
<1>1. BeginWrite => /\ fired' \subseteq {"read", "write"} /\ midway' \in BOOLEAN
                    /\ UNCHANGED <<calls, timers, loopDead>>
  BY DEF BeginWrite, IInv, TypeOK, ControlTypeOK
<1>2. ASSUME BeginWrite, CloseOnWrite
      PROVE  IInv'
  <2>1. FifoLossless'
    BY <1>1, <1>2, QueueUntouched DEF CloseOnWrite, IInv, calls
  <2>2. DataTypeOK'
    BY <1>1, <1>2 DEF CloseOnWrite, CloseSocket, IInv, TypeOK, DataTypeOK, queue, calls
  <2>3. ControlTypeOK'
    BY <1>1, <1>2
    DEF CloseOnWrite, CloseSocket, Stale, IInv, TypeOK, ControlTypeOK, States,
        Links, WatchStates, calls, timers
  <2> QED
    BY <1>1, <1>2, <2>1, <2>2, <2>3
    DEF CloseOnWrite, CloseSocket, IInv, TypeOK, FdMatchesState, OpenSocketIsRead,
        RunningTimerIsKnown, BadWatchIsClosed, timers
<1>3. CASE CanWriteRetry
  <2>1. FifoLossless'
    BY <1>1, <1>3, QueueUntouched DEF CanWriteRetry, IInv, calls
  <2>2. DataTypeOK'
    BY <1>1, <1>3 DEF CanWriteRetry, IInv, TypeOK, DataTypeOK, queue, calls, socket
  <2>3. ControlTypeOK'
    BY <1>1, <1>3
    DEF CanWriteRetry, KeepWriting, StartWatch, IInv, TypeOK, ControlTypeOK, WatchStates,
        calls, timers, socket
  <2> QED
    BY <1>1, <1>3, <2>1, <2>2, <2>3
    DEF CanWriteRetry, KeepWriting, StartWatch, IInv, TypeOK, FdMatchesState, OpenSocketIsRead,
        RunningTimerIsKnown, BadWatchIsClosed, timers
<1>4. ASSUME NEW whole \in 0 .. Len(sendBuffer), NEW b \in 0 .. ChunksPerMessage - 1,
             CanWriteSome(whole, b)
      PROVE  IInv'
  <2>1. /\ sendBuffer \in Seq(RequestIds) /\ sent \in Seq(RequestIds)
        /\ answerable \subseteq RequestIds /\ garbled \subseteq RequestIds
        /\ FifoLossless
    BY DEF IInv, TypeOK, DataTypeOK
  <2>2. /\ sendBuffer' = SubSeq(sendBuffer, whole + 1, Len(sendBuffer))
        /\ sent' = sent \o SubSeq(sendBuffer, 1, whole)
        /\ bytesSend' = b /\ (whole = Len(sendBuffer) => b = 0)
        /\ UNCHANGED <<state, fd, readWatch, link, inbox, aligned, connects>>
    BY <1>4 DEF CanWriteSome
  <2>3. /\ sent' \in Seq(RequestIds) /\ sendBuffer' \in Seq(RequestIds)
        /\ Len(sent') = Len(sent) + whole
        /\ Len(sendBuffer') = Len(sendBuffer) - whole
        /\ Numbered(sent', 0) /\ Numbered(sendBuffer', Len(sent'))
    BY <2>1, <2>2, IdsAreInts, TakePrefix DEF FifoLossless
  <2>4. requestId' = requestId
    BY <1>1, <1>4 DEF CanWriteSome, calls
  <2>5. ASSUME bytesSend' > 0 PROVE sendBuffer' # <<>>
    <3>1. whole < Len(sendBuffer)
      BY <2>1, <2>2, <2>5
    <3>2. Len(sendBuffer') > 0
      BY <2>1, <2>3, <3>1
    <3> QED
      BY <3>2
  <2>6. 2 * (Len(sent') + Len(sendBuffer')) = requestId'
    BY <2>1, <2>3, <2>4 DEF FifoLossless
  <2>7. FifoLossless'
    BY <2>3, <2>5, <2>6 DEF FifoLossless
  <2> DEFINE ids == {sendBuffer[i] : i \in 1 .. whole}
  <2>8. ids \subseteq RequestIds
    BY <2>1
  <2>9. garbled' \subseteq RequestIds /\ answerable' \subseteq RequestIds
    BY <1>4, <2>1, <2>8 DEF CanWriteSome
  <2>10. DataTypeOK'
    BY <1>1, <1>4, <2>2, <2>3, <2>9 DEF CanWriteSome, IInv, TypeOK, DataTypeOK, calls
  <2>11. ControlTypeOK'
    BY <1>1, <1>4, <2>2
    DEF CanWriteSome, KeepWriting, StartWatch, IInv, TypeOK, ControlTypeOK,
        WatchStates, calls, timers
  <2> QED
    BY <1>1, <1>4, <2>2, <2>7, <2>10, <2>11
    DEF CanWriteSome, KeepWriting, StartWatch, IInv, TypeOK, FdMatchesState, OpenSocketIsRead,
        RunningTimerIsKnown, BadWatchIsClosed, timers
<1> QED
  BY <1>2, <1>3, <1>4 DEF CanWrite, CanWriteNotConnected, CanWriteBroken

LEMMA CanReadIInv == IInv /\ CanRead => IInv'
<1> SUFFICES ASSUME IInv, CanRead PROVE IInv'
  OBVIOUS
<1>1. BeginRead
  BY DEF CanRead, CanReadNothing, CanReadFails, CanReadSome
<1>2. FifoLossless'
  BY <1>1, QueueUntouched DEF BeginRead, IInv
<1>3. CASE CanReadNothing
  BY <1>1, <1>2, <1>3
  DEF CanReadNothing, BeginRead, IInv, TypeOK, ControlTypeOK, DataTypeOK,
      FdMatchesState, OpenSocketIsRead, RunningTimerIsKnown, BadWatchIsClosed,
      queue, timers, socket
<1>4. CASE CanReadFails
  <2>1. DataTypeOK'
    BY <1>1, <1>4
    DEF CanReadFails, CloseSocket, BeginRead, IInv, TypeOK, DataTypeOK, queue
  <2>2. ControlTypeOK'
    BY <1>1, <1>4
    DEF CanReadFails, CloseSocket, BeginRead, FiredWithoutRead, Stale, IInv, TypeOK,
        ControlTypeOK, States, Links, WatchStates, timers
  <2> QED
    BY <1>2, <1>4, <2>1, <2>2
    DEF CanReadFails, CloseSocket, IInv, TypeOK, FdMatchesState, OpenSocketIsRead,
        RunningTimerIsKnown, BadWatchIsClosed, timers
<1>5. ASSUME NEW n \in 0 .. Len(inbox), CanReadSome(n)
      PROVE  IInv'
  <2>1. inbox' \in Seq(RequestIds)
    BY <1>5 DEF CanReadSome, IInv, TypeOK, DataTypeOK
  <2>2. call' \in [RequestIds -> Outcomes]
    BY <1>5 DEF CanReadSome, Resumed, IInv, TypeOK, DataTypeOK, Outcomes
  <2>3. DataTypeOK'
    BY <1>1, <1>5, <2>1, <2>2 DEF CanReadSome, BeginRead, IInv, TypeOK, DataTypeOK, queue
  <2>4. timerActive' \in BOOLEAN /\ timerArmed' \in BOOLEAN /\ RunningTimerIsKnown'
    BY <1>5
    DEF CanReadSome, stopTimer, timers, IInv, TypeOK, ControlTypeOK, RunningTimerIsKnown
  <2>5. ControlTypeOK'
    BY <1>1, <1>5, <2>4
    DEF CanReadSome, BeginRead, IInv, TypeOK, ControlTypeOK, States
  <2> QED
    BY <1>2, <1>5, <2>3, <2>4, <2>5
    DEF CanReadSome, IInv, TypeOK, FdMatchesState, OpenSocketIsRead, BadWatchIsClosed
<1> QED
  BY <1>3, <1>4, <1>5 DEF CanRead

LEMMA TimerIInv == IInv /\ Timer => IInv'
<1> SUFFICES ASSUME IInv, Timer PROVE IInv'
  OBVIOUS
<1>1. FifoLossless'
  BY QueueUntouched DEF Timer, IInv
<1>2. CASE state = "INPROGRESS"
  <2>1. DataTypeOK'
    BY <1>2 DEF Timer, CloseSocket, IInv, TypeOK, DataTypeOK, queue
  <2>2. ControlTypeOK'
    BY <1>2
    DEF Timer, CloseSocket, FiredWithoutRead, Stale, IInv, TypeOK, ControlTypeOK,
        States, Links, WatchStates
  <2> QED
    BY <1>1, <1>2, <2>1, <2>2
    DEF Timer, CloseSocket, IInv, TypeOK, FdMatchesState, OpenSocketIsRead,
        RunningTimerIsKnown, BadWatchIsClosed
<1>3. CASE state # "INPROGRESS"
  BY <1>1, <1>3
  DEF Timer, IInv, TypeOK, ControlTypeOK, DataTypeOK, FdMatchesState,
      OpenSocketIsRead, RunningTimerIsKnown, BadWatchIsClosed, queue, socket
<1> QED
  BY <1>2, <1>3

\* The network and the peer change nothing the program keeps.
LEMMA NetworkIInv ==
    IInv /\ (ConnectEnds \/ Peer \/ PeerCloses \/ PeerResets) => IInv'
<1> SUFFICES ASSUME IInv, ConnectEnds \/ Peer \/ PeerCloses \/ PeerResets
             PROVE  IInv'
  OBVIOUS
<1>1. /\ UNCHANGED <<program, aligned, connects>>
      /\ link' \in Links /\ inbox' \in Seq(RequestIds)
      /\ answerable' \subseteq RequestIds
  <2>1. inbox \in Seq(RequestIds) /\ answerable \subseteq RequestIds /\ link \in Links
    BY DEF IInv, TypeOK, ControlTypeOK, DataTypeOK
  <2>2. CASE ConnectEnds
    BY <2>1, <2>2 DEF ConnectEnds, Links
  <2>3. CASE Peer
    BY <2>1, <2>3 DEF Peer, PeerReplies
  <2>4. CASE PeerCloses
    BY <2>1, <2>4 DEF PeerCloses, Links
  <2>5. CASE PeerResets
    <3>1. <<>> \in Seq(RequestIds)
      OBVIOUS
    <3>2. inbox' = inbox \/ inbox' = <<>>
      BY <2>5 DEF PeerResets
    <3> QED
      BY <2>1, <2>5, <3>1, <3>2 DEF PeerResets, Links
  <2> QED
    BY <2>2, <2>3, <2>4, <2>5
<1>2. FifoLossless'
  BY <1>1, QueueUntouched DEF program, calls, IInv
<1>3. TypeOK'
  BY <1>1
  DEF program, queue, calls, watch, due, timers, IInv, TypeOK, ControlTypeOK, DataTypeOK
<1> QED
  BY <1>1, <1>2, <1>3
  DEF program, watch, timers, IInv, FdMatchesState, OpenSocketIsRead,
      RunningTimerIsKnown, BadWatchIsClosed

LEMMA StutterIInv == IInv /\ UNCHANGED vars => IInv'
  BY QueueUntouched
  DEF vars, queue, calls, watch, due, timers, socket, IInv, TypeOK, ControlTypeOK,
      DataTypeOK, FdMatchesState, OpenSocketIsRead, RunningTimerIsKnown,
      BadWatchIsClosed

-----------------------------------------------------------------------------
\* The inductive invariant holds throughout, whatever the environment does.
THEOREM Invariance == Spec => []IInv
<1>1. IInv /\ [Next]_vars => IInv'
  BY CallIInv, DrainIInv, AcceptIInv, PollIInv, CanWriteIInv, CanReadIInv,
     TimerIInv, NetworkIInv, StutterIInv
  DEF Next
<1> QED
  BY InitIInv, <1>1, PTL DEF Spec

\* Every variable keeps its type, for every bound and environment.
THEOREM TypeCorrect == Spec => []TypeOK
<1>1. IInv => TypeOK
  BY DEF IInv
<1> QED
  BY Invariance, <1>1, PTL

\* Requests leave exactly once and in the order of their ids, across partial
\* writes, failed attempts and reconnects (sendBuffer, canWrite(), send()).
THEOREM RequestsLeaveInOrder == Spec => []FifoLossless
<1>1. IInv => FifoLossless
  BY DEF IInv
<1> QED
  BY Invariance, <1>1, PTL

\* The descriptor is valid exactly in INPROGRESS and ESTABLISHED, and an open
\* descriptor is always watched for reading.
THEOREM DescriptorIsConsistent == Spec => []DescriptorIsServed
<1>1. IInv => DescriptorIsServed
  BY DEF IInv, DescriptorIsServed
<1> QED
  BY Invariance, <1>1, PTL

\* timer_active never denies a running timer (startTimer(), stopTimer()).
THEOREM TimerFlagIsSound == Spec => []RunningTimerIsKnown
<1>1. IInv => RunningTimerIsKnown
  BY DEF IInv
<1> QED
  BY Invariance, <1>1, PTL
-----------------------------------------------------------------------------
(* TcpConnection implements CallContract.  The proof needs to know where an  *)
(* answer can come from: only a request the peer received whole is answered. *)

\* The members of a sequence.
Ids(seq) == {seq[i] : i \in 1 .. Len(seq)}

\* The requests the peer received whole.
Delivered == Ids(sent) \ garbled

GarbledWereSent == garbled \subseteq Ids(sent)
AnswersAreDelivered == Ids(inbox) \subseteq Delivered /\ answerable \subseteq Delivered
UsedIdsAreIssued == \A id \in RequestIds : call[id] = "unused" <=> id >= requestId

RInv == GarbledWereSent /\ AnswersAreDelivered /\ UsedIdsAreIssued

\* What the kernel takes of the queue: members, and all later than those before.
LEMMA TakenIds ==
    ASSUME NEW S \in SUBSET Int, NEW s \in Seq(S), NEW q \in Seq(S),
           NEW k \in 0 .. Len(q),
           Numbered(s, 0), Numbered(q, Len(s))
    PROVE  LET taken == {q[i] : i \in 1 .. k}
           IN /\ Ids(s \o SubSeq(q, 1, k)) = Ids(s) \cup taken
              /\ taken \subseteq S
              /\ \A new \in taken, old \in Ids(s) : old < new
              /\ \A new \in taken : new < 2 * (Len(s) + Len(q))
<1> DEFINE taken == {q[i] : i \in 1 .. k}
           prefix == SubSeq(q, 1, k)
           s2 == s \o prefix
<1>1. /\ prefix \in Seq(S) /\ Len(prefix) = k
      /\ \A i \in 1 .. k : prefix[i] = q[i]
  OBVIOUS
<1>2. taken \subseteq S
  OBVIOUS
<1>3. ASSUME NEW i \in 1 .. k
      PROVE  q[i] = 2 * (Len(s) + i - 1) /\ i <= Len(q)
  BY DEF Numbered
<1>4. ASSUME NEW new \in taken, NEW old \in Ids(s)
      PROVE  old < new
  <2>1. PICK i \in 1 .. k : new = q[i]
    OBVIOUS
  <2>2. PICK j \in 1 .. Len(s) : old = s[j]
    BY DEF Ids
  <2>3. old = 2 * (0 + j - 1)
    BY <2>2 DEF Numbered
  <2> QED
    BY <1>3, <2>1, <2>3
<1>5. ASSUME NEW new \in taken
      PROVE  new < 2 * (Len(s) + Len(q))
  <2>1. PICK i \in 1 .. k : new = q[i]
    OBVIOUS
  <2> QED
    BY <1>3, <2>1
<1> HIDE DEF prefix
<1>6. /\ Len(s2) = Len(s) + k
      /\ \A i \in 1 .. Len(s) : s2[i] = s[i]
      /\ \A i \in 1 .. k : s2[Len(s) + i] = prefix[i]
  BY <1>1
<1> HIDE DEF s2
<1>7. Ids(s2) = Ids(s) \cup taken
  <2>1. ASSUME NEW i \in 1 .. Len(s2) PROVE s2[i] \in Ids(s) \cup taken
    <3>1. CASE i <= Len(s)
      <4>1. i \in 1 .. Len(s) /\ s2[i] = s[i]
        BY <1>6, <3>1
      <4> QED
        BY <4>1 DEF Ids
    <3>2. CASE i > Len(s)
      <4>1. i - Len(s) \in 1 .. k /\ s2[i] = prefix[i - Len(s)]
        BY <1>6, <3>2
      <4> QED
        BY <1>1, <4>1
    <3> QED
      BY <3>1, <3>2, <1>6
  <2>2. ASSUME NEW i \in 1 .. Len(s) PROVE s[i] \in Ids(s2)
    <3>1. i \in 1 .. Len(s2) /\ s2[i] = s[i]
      BY <1>6
    <3> QED
      BY <3>1 DEF Ids
  <2>3. ASSUME NEW i \in 1 .. k PROVE q[i] \in Ids(s2)
    <3>1. Len(s) + i \in 1 .. Len(s2) /\ s2[Len(s) + i] = q[i]
      BY <1>1, <1>6
    <3> QED
      BY <3>1 DEF Ids
  <2> QED
    BY <2>1, <2>2, <2>3 DEF Ids
<1> QED
  BY <1>2, <1>4, <1>5, <1>7 DEF s2, prefix

\* A legal change of the calls and of the delivered requests: see CallContract.
Settles ==
    /\ \A id \in RequestIds :
          call'[id] # call[id] => <<call[id], call'[id]>> \in Contract!Moves
    /\ \A id \in RequestIds :
          call[id] # "reply" /\ call'[id] = "reply" => id \in Delivered
    /\ Delivered' = Delivered
Executes ==
    /\ call' = call
    /\ \E new \in SUBSET RequestIds :
          /\ \A id \in new : call[id] # "unused"
          /\ \A id \in new, old \in Delivered : old < id
          /\ Delivered' = Delivered \cup new
Obeys == Settles \/ Executes

\* Steps in which no call, queue or answer changes.
Quiet == UNCHANGED <<queue, requestId, call, inbox, answerable>>

LEMMA QuietObeys == RInv /\ Quiet => RInv' /\ Settles
  BY DEF RInv, Quiet, queue, GarbledWereSent, AnswersAreDelivered, UsedIdsAreIssued,
         Delivered, Ids, Settles

\* A socket is closed or opened: its answers are gone.
Forgets == UNCHANGED <<queue, requestId, call>> /\ inbox' = <<>> /\ answerable' = {}

LEMMA ForgetsObeys == RInv /\ Forgets => RInv' /\ Settles
<1>1. Ids(<<>>) = {}
  BY DEF Ids
<1> QED
  BY <1>1
  DEF RInv, Forgets, queue, GarbledWereSent, AnswersAreDelivered, UsedIdsAreIssued,
      Delivered, Ids, Settles

\* A new call settles the id it takes and nothing else that base did not.
LEMMA NewRequestObeys ==
    ASSUME IInv, RInv, NEW kind \in {"waiting", "oneway"},
           NEW base \in [RequestIds -> Outcomes],
           NewRequest(kind, base),
           \A id \in RequestIds : base[id] # call[id] =>
               call[id] = "waiting" /\ base[id] \in {"TRANSIENT", "TIMEOUT"}
    PROVE  RInv' /\ Settles
<1>1. /\ requestId \in RequestIds /\ requestId' = requestId + 2
      /\ UNCHANGED <<sent, garbled>>
  BY DEF NewRequest, FetchAdd
<1>2. PICK end \in {"waiting", "oneway", "failed"} :
         call' = [base EXCEPT ![requestId] = end]
  BY DEF NewRequest
<1>3. call \in [RequestIds -> Outcomes]
  BY DEF IInv, TypeOK, DataTypeOK
<1>4. requestId \in Int /\ call[requestId] = "unused"
  BY <1>1, IdsAreInts DEF RInv, UsedIdsAreIssued
<1>5. /\ call'[requestId] = end
      /\ \A id \in RequestIds \ {requestId} : call'[id] = base[id]
  BY <1>1, <1>2
<1>6. ASSUME NEW id \in RequestIds
      PROVE  call'[id] # call[id] =>
                /\ <<call[id], call'[id]>> \in Contract!Moves
                /\ call'[id] # "reply"
  BY <1>4, <1>5 DEF Contract!Moves, Contract!Exceptions
<1>7. Delivered' = Delivered
  BY <1>1 DEF Delivered, Ids
<1>8. Settles
  BY <1>6, <1>7 DEF Settles
<1>9. UsedIdsAreIssued'
  <2> SUFFICES ASSUME NEW id \in RequestIds
               PROVE  (call'[id] = "unused") <=> (id >= requestId')
    BY DEF UsedIdsAreIssued
  <2>1. PICK n \in Int : id = 2 * n
    BY DEF RequestIds
  <2>2. PICK m \in Int : requestId = 2 * m
    BY <1>1 DEF RequestIds
  <2>3. (call[id] = "unused") <=> (id >= requestId)
    BY DEF RInv, UsedIdsAreIssued
  <2>4. CASE id = requestId
    BY <1>1, <1>4, <1>5, <2>4
  <2>5. CASE id # requestId
    <3>1. (call'[id] = "unused") <=> (call[id] = "unused")
      BY <1>5, <2>5
    <3>2. (id >= requestId) <=> (id >= requestId + 2)
      BY <2>1, <2>2, <2>5
    <3> QED
      BY <1>1, <2>3, <3>1, <3>2
  <2> QED
    BY <2>4, <2>5
<1>10. GarbledWereSent' /\ AnswersAreDelivered'
  <2>1. (inbox' = inbox /\ answerable' = answerable) \/ (inbox' = <<>> /\ answerable' = {})
    BY DEF NewRequest, upThrows, upConnects, socket
  <2>2. Ids(<<>>) = {}
    BY DEF Ids
  <2> QED
    BY <1>1, <1>7, <2>1, <2>2 DEF RInv, GarbledWereSent, AnswersAreDelivered, Ids
<1> QED
  BY <1>8, <1>9, <1>10 DEF RInv

LEMMA CallObeys == IInv /\ RInv /\ (TwowayCall \/ OnewayCall) => RInv' /\ Settles
<1>1. IInv => call \in [RequestIds -> Outcomes]
  BY DEF IInv, TypeOK, DataTypeOK
<1> QED
  BY <1>1, NewRequestObeys DEF TwowayCall, OnewayCall

LEMMA DrainObeys == IInv /\ RInv /\ DrainStep => RInv' /\ Settles
<1> SUFFICES ASSUME IInv, RInv, DrainStep PROVE RInv' /\ Settles
  OBVIOUS
<1>1. CASE DrainDone
  BY <1>1, QuietObeys DEF DrainDone, Quiet, socket
<1>2. ASSUME NEW id \in RequestIds, Drain(id)
      PROVE  RInv' /\ Settles
  <2> DEFINE failed == [call EXCEPT ![id] = draining]
  <2>1. draining \in {"TRANSIENT", "TIMEOUT"} /\ call[id] = "waiting"
    BY <1>2 DEF Drain, IInv, TypeOK, ControlTypeOK
  <2>2. call \in [RequestIds -> Outcomes]
    BY DEF IInv, TypeOK, DataTypeOK
  <2>3. /\ failed \in [RequestIds -> Outcomes]
        /\ failed[id] = draining
        /\ \A other \in RequestIds \ {id} : failed[other] = call[other]
    BY <2>1, <2>2 DEF Outcomes
  <2>4. \/ NewRequest("waiting", failed)
        \/ /\ call' = failed
           /\ UNCHANGED <<state, fd, queue, requestId, watch, due, timers, socket>>
    BY <1>2 DEF Drain
  <2> HIDE DEF failed
  <2>5. CASE NewRequest("waiting", failed)
    BY <2>1, <2>3, <2>5, NewRequestObeys
  <2>6. CASE /\ call' = failed
             /\ UNCHANGED <<state, fd, queue, requestId, watch, due, timers, socket>>
    <3>1. UNCHANGED <<sent, garbled, requestId, inbox, answerable>>
      BY <2>6 DEF queue, socket
    <3>2. Delivered' = Delivered
      BY <3>1 DEF Delivered, Ids
    <3>3. Settles
      BY <2>1, <2>3, <2>6, <3>2 DEF Settles, Contract!Moves, Contract!Exceptions
    <3>4. UsedIdsAreIssued'
      BY <2>1, <2>3, <2>6, <3>1 DEF RInv, UsedIdsAreIssued
    <3> QED
      BY <3>1, <3>2, <3>3, <3>4 DEF RInv, GarbledWereSent, AnswersAreDelivered, Ids
  <2> QED
    BY <2>4, <2>5, <2>6
<1> QED
  BY <1>1, <1>2 DEF DrainStep

\* The kernel takes requests: on an aligned stream the peer receives them whole.
LEMMA CanWriteObeys == IInv /\ RInv /\ CanWrite => RInv' /\ Obeys
<1> SUFFICES ASSUME IInv, RInv, CanWrite PROVE RInv' /\ Obeys
  OBVIOUS
<1>1. CASE CanWriteNotConnected \/ CanWriteBroken
  BY <1>1, ForgetsObeys
  DEF CanWriteNotConnected, CanWriteBroken, BeginWrite, CloseOnWrite, CloseSocket,
      Forgets, calls, Obeys
<1>2. CASE CanWriteRetry
  BY <1>2, QuietObeys DEF CanWriteRetry, BeginWrite, Quiet, calls, socket, Obeys
<1>3. ASSUME NEW whole \in 0 .. Len(sendBuffer), NEW b \in 0 .. ChunksPerMessage - 1,
             CanWriteSome(whole, b)
      PROVE  RInv' /\ Executes
  <2> DEFINE ids == {sendBuffer[i] : i \in 1 .. whole}
  <2>1. /\ sent' = sent \o SubSeq(sendBuffer, 1, whole)
        /\ UNCHANGED <<requestId, call, inbox>>
        /\ garbled' = IF aligned THEN garbled ELSE garbled \cup ids
        /\ answerable' \subseteq answerable \cup (IF aligned THEN ids ELSE {})
    BY <1>3 DEF CanWriteSome, BeginWrite, calls
  <2>2. /\ sendBuffer \in Seq(RequestIds) /\ sent \in Seq(RequestIds)
        /\ 2 * (Len(sent) + Len(sendBuffer)) = requestId
        /\ Numbered(sent, 0) /\ Numbered(sendBuffer, Len(sent))
    BY DEF IInv, TypeOK, DataTypeOK, FifoLossless
  <2>3. /\ Ids(sent') = Ids(sent) \cup ids
        /\ ids \subseteq RequestIds
        /\ \A new \in ids, old \in Ids(sent) : old < new
        /\ \A new \in ids : new < requestId
    BY <2>1, <2>2, IdsAreInts, TakenIds
  <2> HIDE DEF ids
  <2>4. /\ RInv /\ garbled \subseteq Ids(sent) /\ Ids(inbox)' = Ids(inbox)
        /\ Ids(inbox) \subseteq Delivered /\ answerable \subseteq Delivered
    BY <2>1 DEF RInv, GarbledWereSent, AnswersAreDelivered, Ids
  <2>5. ids \cap Ids(sent) = {}
    <3> SUFFICES ASSUME NEW id \in ids, id \in Ids(sent) PROVE FALSE
      OBVIOUS
    <3>1. id < id /\ id \in Int
      BY <2>3, IdsAreInts
    <3> QED
      BY <3>1
  <2>6. Delivered' = Delivered \cup (IF aligned THEN ids ELSE {})
    BY <2>1, <2>3, <2>4, <2>5 DEF Delivered
  <2>7. ASSUME NEW id \in ids PROVE call[id] # "unused"
    <3>1. id \in RequestIds /\ id \in Int /\ requestId \in Int /\ id < requestId
      BY <2>2, <2>3, IdsAreInts
    <3>2. ~(id >= requestId)
      BY <3>1
    <3> QED
      BY <3>1, <3>2 DEF RInv, UsedIdsAreIssued
  <2>8. Executes
    <3> DEFINE new == IF aligned THEN ids ELSE {}
    <3>1. new \in SUBSET RequestIds /\ Delivered' = Delivered \cup new
      BY <2>3, <2>6
    <3>2. \A id \in new : call[id] # "unused"
      BY <2>7
    <3>3. \A id \in new, old \in Delivered : old < id
      BY <2>3 DEF Delivered
    <3> HIDE DEF new
    <3> QED
      BY <2>1, <3>1, <3>2, <3>3 DEF Executes
  <2>9. GarbledWereSent'
    BY <2>1, <2>3, <2>4 DEF GarbledWereSent
  <2>10. AnswersAreDelivered'
    BY <2>1, <2>4, <2>6 DEF AnswersAreDelivered
  <2>11. UsedIdsAreIssued'
    BY <2>1 DEF RInv, UsedIdsAreIssued
  <2> QED
    BY <2>8, <2>9, <2>10, <2>11 DEF RInv
<1> QED
  BY <1>1, <1>2, <1>3 DEF CanWrite, Obeys

\* Replies that are read resume their callers; an error closes the socket.
LEMMA CanReadObeys == IInv /\ RInv /\ CanRead => RInv' /\ Settles
<1> SUFFICES ASSUME IInv, RInv, CanRead PROVE RInv' /\ Settles
  OBVIOUS
<1>1. CASE CanReadNothing
  BY <1>1, QuietObeys DEF CanReadNothing, BeginRead, Quiet, socket
<1>2. CASE CanReadFails
  BY <1>2, ForgetsObeys DEF CanReadFails, BeginRead, CloseSocket, Forgets
<1>3. ASSUME NEW n \in 0 .. Len(inbox), CanReadSome(n)
      PROVE  RInv' /\ Settles
  <2> DEFINE replies == {inbox[i] : i \in 1 .. n}
  <2>1. /\ UNCHANGED <<queue, requestId, answerable>>
        /\ inbox' = SubSeq(inbox, n + 1, Len(inbox))
        /\ call' = [id \in RequestIds |->
                      IF id \in replies /\ call[id] = "waiting" THEN "reply" ELSE call[id]]
    BY <1>3 DEF CanReadSome, BeginRead, Resumed
  <2>2. inbox \in Seq(RequestIds)
    BY DEF IInv, TypeOK, DataTypeOK
  <2>3. replies \subseteq Ids(inbox)
    BY <2>2 DEF Ids
  <2>4. Ids(inbox') \subseteq Ids(inbox)
    <3>1. /\ Len(inbox') = Len(inbox) - n
          /\ \A i \in 1 .. Len(inbox) - n : inbox'[i] = inbox[n + i]
      BY <2>1, <2>2
    <3>2. \A i \in 1 .. Len(inbox) - n : n + i \in 1 .. Len(inbox)
      BY <2>2
    <3> QED
      BY <3>1, <3>2 DEF Ids
  <2> HIDE DEF replies
  <2>5. Delivered' = Delivered /\ Ids(sent)' = Ids(sent) /\ garbled' = garbled
    BY <2>1 DEF queue, Delivered, Ids
  <2>6. Settles
    BY <2>1, <2>3, <2>5
    DEF Settles, RInv, AnswersAreDelivered, Contract!Moves, Contract!Exceptions
  <2>7. UsedIdsAreIssued'
    BY <2>1 DEF RInv, UsedIdsAreIssued
  <2>8. AnswersAreDelivered'
    BY <2>1, <2>4, <2>5 DEF RInv, AnswersAreDelivered
  <2> QED
    BY <2>5, <2>6, <2>7, <2>8 DEF RInv, GarbledWereSent
<1> QED
  BY <1>1, <1>2, <1>3 DEF CanRead

\* What the loop, the timer, an accepted connection and the network do.
LEMMA OthersObey ==
    ASSUME IInv, RInv,
           \/ Accept \/ (\E spurious \in BOOLEAN : Poll(spurious)) \/ Timer
           \/ ConnectEnds \/ Peer \/ PeerCloses \/ PeerResets \/ UNCHANGED vars
    PROVE  RInv' /\ Settles
<1>1. CASE Accept
  BY <1>1, QuietObeys DEF Accept, Quiet, calls
<1>2. CASE \E spurious \in BOOLEAN : Poll(spurious)
  BY <1>2, QuietObeys DEF Poll, Quiet, calls, socket
<1>3. CASE Timer
  BY <1>3, QuietObeys, ForgetsObeys DEF Timer, CloseSocket, Quiet, Forgets, socket
<1>4. CASE ConnectEnds \/ UNCHANGED vars
  BY <1>4, QuietObeys DEF ConnectEnds, program, vars, Quiet, calls, socket
<1>5. CASE PeerCloses \/ PeerResets \/ Peer
  <2>1. UNCHANGED <<queue, requestId, call>>
    BY <1>5 DEF PeerCloses, PeerResets, Peer, PeerReplies, program, calls
  <2>2. Ids(inbox') \subseteq Ids(inbox) \cup answerable /\ answerable' \subseteq answerable
    <3>1. CASE Peer
      <4>1. PICK id \in answerable :
               inbox' = Append(inbox, id) /\ answerable' = answerable \ {id}
        BY <3>1 DEF Peer, PeerReplies
      <4>2. inbox \in Seq(RequestIds) /\ answerable \subseteq RequestIds
        BY DEF IInv, TypeOK, DataTypeOK
      <4>3. /\ Len(inbox') = Len(inbox) + 1 /\ inbox'[Len(inbox) + 1] = id
            /\ \A i \in 1 .. Len(inbox) : inbox'[i] = inbox[i]
        BY <4>1, <4>2
      <4>4. \A i \in 1 .. Len(inbox') : i \in 1 .. Len(inbox) \/ i = Len(inbox) + 1
        BY <4>2, <4>3
      <4> QED
        BY <4>1, <4>3, <4>4 DEF Ids
    <3>2. CASE PeerCloses
      BY <3>2 DEF PeerCloses, Ids
    <3>3. CASE PeerResets
      <4>1. Ids(<<>>) = {}
        BY DEF Ids
      <4> QED
        BY <3>3, <4>1 DEF PeerResets, Ids
    <3> QED
      BY <1>5, <3>1, <3>2, <3>3
  <2>3. Delivered' = Delivered /\ Ids(sent)' = Ids(sent) /\ garbled' = garbled
    BY <2>1 DEF queue, Delivered, Ids
  <2>4. Settles
    BY <2>1, <2>3 DEF Settles
  <2> QED
    BY <2>1, <2>2, <2>3, <2>4
    DEF RInv, GarbledWereSent, AnswersAreDelivered, UsedIdsAreIssued
<1> QED
  BY <1>1, <1>2, <1>3, <1>4, <1>5

\* Calls are answered only from requests the peer received whole, settle once, and
\* reach the peer in order: what is left of the contract of _twowayCall and
\* onewayCall when sockets fail, streams tear and timers expire.
THEOREM ConnectionImplementsContract == Spec => ImplementsContract
<1>1. Init => RInv /\ Contract!Init
  <2> SUFFICES ASSUME Init PROVE RInv /\ Contract!Init
    OBVIOUS
  <2>1. Ids(<<>>) = {}
    BY DEF Ids
  <2>2. RInv
    BY <2>1, ConstantsAssumption
    DEF Init, RInv, GarbledWereSent, AnswersAreDelivered, UsedIdsAreIssued, RequestIds
  <2> QED
    BY <2>1, <2>2 DEF Init, Contract!Init, Ids
<1>2. IInv /\ RInv /\ [Next]_vars => RInv' /\ Obeys
  BY CallObeys, DrainObeys, CanWriteObeys, CanReadObeys, OthersObey DEF Next, Obeys
<1>3. Obeys => Contract!Next
  BY DEF Obeys, Settles, Executes, Delivered, Ids,
         Contract!Next, Contract!Settle, Contract!Execute
<1>4. IInv /\ RInv /\ [Next]_vars => RInv' /\ Contract!Next
  BY <1>2, <1>3
<1> QED
  BY <1>1, <1>4, Invariance, PTL DEF Spec, ImplementsContract, Contract!Spec

-----------------------------------------------------------------------------
(* IdleWaiterIsDrained.  canWrite() may close a socket without resuming its  *)
(* callers because an attempt that fails is reported for reading as well, so *)
(* canRead() follows.  That is so unless the socket is reset between the     *)
(* fetching of a write event and its callback, hence the assumption; events  *)
(* that were fetched for an older socket are left only by the timer.         *)

ClosedIsSilent == (fd = NoFd <=> link = "none") /\ (fd = NoFd => inbox = <<>>)
AttemptWritesFirst == link \in {"connecting", "failed"} => state = "INPROGRESS" /\ writeFirst
AttemptHasNoAnswer == link \in {"connecting", "failed"} => inbox = <<>>
LateWriteIsTimed ==
    fd = NoFd /\ ("write" \in fired \/ writeWatch = "bad") => TimerHasFired
AttemptIsRead ==
    "write" \in fired /\ link \in {"connecting", "failed"} => "read" \in fired \/ TimerHasFired

WInv == /\ IdleWaiterIsDrained
        /\ ClosedIsSilent
        /\ AttemptWritesFirst
        /\ AttemptHasNoAnswer
        /\ LateWriteIsTimed
        /\ AttemptIsRead

\* A call on an idle connection starts an attempt, or leaves IDLE by throwing.
LEMMA NewRequestWInv ==
    ASSUME IInv, WInv, NEW kind, NEW base, NewRequest(kind, base)
    PROVE  WInv'
<1>1. fired' = fired
  BY DEF NewRequest, due
<1>2. CASE state = "IDLE" /\ upThrows
  <2>1. /\ state' = "PENDING" /\ link # "connecting" /\ link # "failed"
        /\ UNCHANGED <<fd, writeWatch, writeFirst, timerActive, timerArmed, link, inbox>>
    BY <1>2 DEF upThrows, watch, timers, socket, WInv, AttemptWritesFirst
  <2> QED
    BY <1>1, <2>1
    DEF WInv, IdleWaiterIsDrained, ClosedIsSilent, AttemptWritesFirst, AttemptHasNoAnswer,
        LateWriteIsTimed, AttemptIsRead, TimerHasFired
<1>3. CASE state = "IDLE" /\ fd = NoFd /\ upConnects
  <2>1. /\ state' \in {"INPROGRESS", "ESTABLISHED"} /\ fd' # NoFd /\ writeFirst'
        /\ link' \in {"connecting", "connected"}
        /\ link' = "connecting" => state' = "INPROGRESS" /\ inbox' = <<>>
    BY <1>3 DEF upConnects, OpenFd, NoFd
  <2>2. TimerHasFired => TimerHasFired'
    BY <1>3 DEF upConnects, startTimer, TimerHasFired
  <2>3. "write" \in fired => TimerHasFired
    BY <1>3 DEF WInv, LateWriteIsTimed
  <2> QED
    BY <1>1, <2>1, <2>2, <2>3
    DEF WInv, IdleWaiterIsDrained, ClosedIsSilent, AttemptWritesFirst, AttemptHasNoAnswer,
        LateWriteIsTimed, AttemptIsRead
<1>4. CASE /\ state = "ESTABLISHED" /\ startWriteHandler
           /\ UNCHANGED <<state, fd, readWatch, loopDead, timers, socket>>
  <2>1. fd # NoFd /\ fd' = fd /\ state' = "ESTABLISHED" /\ link' = link
    BY <1>4 DEF IInv, FdMatchesState, socket
  <2> QED
    BY <1>1, <1>4, <2>1
    DEF WInv, IdleWaiterIsDrained, ClosedIsSilent, AttemptWritesFirst, AttemptHasNoAnswer,
        LateWriteIsTimed, AttemptIsRead
<1>5. CASE /\ state \in {"PENDING", "INPROGRESS"}
           /\ UNCHANGED <<state, fd, watch, timers, socket>>
  BY <1>1, <1>5
  DEF WInv, IdleWaiterIsDrained, ClosedIsSilent, AttemptWritesFirst, AttemptHasNoAnswer,
      LateWriteIsTimed, AttemptIsRead, TimerHasFired, watch, timers, socket
<1> QED
  BY <1>2, <1>3, <1>4, <1>5 DEF NewRequest

\* A resumed caller gives up or calls again; the next one waits for its turn.
LEMMA DrainWInv == IInv /\ WInv /\ DrainStep => WInv'
<1> SUFFICES ASSUME IInv, WInv, DrainStep PROVE WInv'
  OBVIOUS
<1>1. CASE DrainDone
  <2>1. Waiting' = {}
    BY <1>1 DEF DrainDone, Waiting
  <2> QED
    BY <1>1, <2>1
    DEF DrainDone, WInv, IdleWaiterIsDrained, ClosedIsSilent, AttemptWritesFirst,
        AttemptHasNoAnswer, LateWriteIsTimed, AttemptIsRead, TimerHasFired,
        watch, due, timers, socket
<1>2. ASSUME NEW id \in RequestIds, Drain(id) PROVE WInv'
  <2>1. CASE UNCHANGED <<state, fd, queue, requestId, watch, due, timers, socket>>
    BY <1>2, <2>1
    DEF Drain, WInv, IdleWaiterIsDrained, ClosedIsSilent, AttemptWritesFirst,
        AttemptHasNoAnswer, LateWriteIsTimed, AttemptIsRead, TimerHasFired,
        watch, due, timers, socket
  <2>2. CASE NewRequest("waiting", [call EXCEPT ![id] = draining])
    BY <2>2, NewRequestWInv
  <2> QED
    BY <1>2, <2>1, <2>2 DEF Drain
<1> QED
  BY <1>1, <1>2 DEF DrainStep

\* The event of a failed attempt is one for reading, too.
LEMMA PollWInv == ASSUME NEW spurious \in BOOLEAN, IInv, WInv, Poll(spurious) PROVE WInv'
<1>1. /\ draining = "no" /\ fired = {} /\ Waiting' = Waiting
      /\ UNCHANGED <<state, fd, draining, timerActive, timerArmed, link, inbox>>
  BY DEF Poll, Waiting, calls, timers, socket
<1>2. CASE writeWatch # "bad"
  <2>1. UNCHANGED watch
    BY <1>2 DEF Poll
  <2>2. "write" \in fired' => link \in {"connected", "eof", "failed"}
    BY <1>2 DEF Poll
  <2>3. "write" \in fired' /\ link = "failed" => "read" \in fired'
    <3>1. link = "failed" => readWatch = "on"
      BY DEF WInv, AttemptWritesFirst, IInv, FdMatchesState, OpenSocketIsRead
    <3> QED
      BY <1>2, <3>1 DEF Poll
  <2> QED
    BY <1>1, <2>1, <2>2, <2>3
    DEF WInv, IdleWaiterIsDrained, ClosedIsSilent, AttemptWritesFirst, AttemptHasNoAnswer,
        LateWriteIsTimed, AttemptIsRead, TimerHasFired, watch
<1>3. CASE writeWatch = "bad"
  <2>1. fd = NoFd /\ writeWatch' = "off" /\ writeFirst' = writeFirst
    BY <1>3 DEF IInv, BadWatchIsClosed, Poll
  <2>2. TimerHasFired
    BY <1>3, <2>1 DEF WInv, LateWriteIsTimed
  <2> QED
    BY <1>1, <2>1, <2>2
    DEF WInv, IdleWaiterIsDrained, ClosedIsSilent, AttemptWritesFirst, AttemptHasNoAnswer,
        LateWriteIsTimed, AttemptIsRead, TimerHasFired
<1> QED
  BY <1>2, <1>3

\* canWrite() closes only the socket of a failed attempt, whose read event is next.
LEMMA CanWriteWInv == IInv /\ WInv /\ CanWrite => WInv'
<1> SUFFICES ASSUME IInv, WInv, CanWrite PROVE WInv'
  OBVIOUS
<1>1. BeginWrite => /\ "write" \in fired /\ "write" \notin fired' /\ Waiting' = Waiting
                    /\ "read" \in fired => "read" \in fired'
                    /\ UNCHANGED <<draining, timerActive, timerArmed>>
  BY DEF BeginWrite, Waiting, calls, timers
<1>2. CASE CanWriteNotConnected
  <2>1. "read" \in fired' \/ TimerHasFired
    BY <1>1, <1>2 DEF CanWriteNotConnected, NotConnected, WInv, AttemptIsRead
  <2>2. fd' = NoFd /\ link' = "none" /\ inbox' = <<>> /\ writeWatch' = "off"
    BY <1>2 DEF CanWriteNotConnected, CloseOnWrite, CloseSocket
  <2> QED
    BY <1>1, <1>2, <2>1, <2>2
    DEF CanWriteNotConnected, WInv, IdleWaiterIsDrained, ClosedIsSilent,
        AttemptWritesFirst, AttemptHasNoAnswer, LateWriteIsTimed, AttemptIsRead, TimerHasFired
<1>3. CASE CanWriteBroken
  <2>1. FALSE
    BY <1>3 DEF CanWriteBroken, NotConnected, WInv, AttemptWritesFirst
  <2> QED
    BY <2>1
<1>4. CASE CanWriteRetry
  <2>1. /\ UNCHANGED <<state, fd, link, inbox>>
        /\ writeWatch' \in {"off", "on", "bad"} /\ (writeWatch' = "bad" => fd = NoFd)
    BY <1>4 DEF CanWriteRetry, KeepWriting, StartWatch, socket
  <2>2. link # "connecting" /\ link # "failed"
    BY <1>4 DEF CanWriteRetry, NotConnected, WInv, AttemptWritesFirst
  <2>3. fd = NoFd => TimerHasFired
    BY <1>1, <1>4 DEF CanWriteRetry, WInv, LateWriteIsTimed
  <2> QED
    BY <1>1, <1>4, <2>1, <2>2, <2>3
    DEF CanWriteRetry, WInv, IdleWaiterIsDrained, ClosedIsSilent,
        AttemptWritesFirst, AttemptHasNoAnswer, LateWriteIsTimed, AttemptIsRead, TimerHasFired
<1>5. ASSUME NEW whole \in 0 .. Len(sendBuffer), NEW b \in 0 .. ChunksPerMessage - 1,
             CanWriteSome(whole, b)
      PROVE  WInv'
  <2>1. UNCHANGED <<state, fd, link, inbox>> /\ link \in {"connected", "eof"} /\ fd # NoFd
    BY <1>5 DEF CanWriteSome, WInv, ClosedIsSilent
  <2>2. state # "IDLE"
    BY <2>1 DEF IInv, FdMatchesState
  <2> QED
    BY <1>1, <1>5, <2>1, <2>2
    DEF CanWriteSome, WInv, IdleWaiterIsDrained, ClosedIsSilent,
        AttemptWritesFirst, AttemptHasNoAnswer, LateWriteIsTimed, AttemptIsRead
<1> QED
  BY <1>2, <1>3, <1>4, <1>5 DEF CanWrite

\* canRead() in IDLE finds no socket and starts to empty interlock.
LEMMA CanReadWInv == IInv /\ WInv /\ CanRead => WInv'
<1> SUFFICES ASSUME IInv, WInv, CanRead PROVE WInv'
  OBVIOUS
<1>1. BeginRead => /\ "read" \in fired /\ ("write" \in fired => ~writeFirst)
                   /\ writeFirst' = writeFirst
  BY DEF BeginRead
<1>2. CASE CanReadNothing
  <2>1. /\ UNCHANGED <<state, fd, link, inbox, writeWatch, timerActive, timerArmed>>
        /\ link \in {"connecting", "connected"} /\ fired' = fired \ {"read"}
    BY <1>2 DEF CanReadNothing, timers, socket
  <2>2. fd # NoFd /\ state # "IDLE"
    BY <2>1 DEF WInv, ClosedIsSilent, IInv, FdMatchesState
  <2>3. link = "connecting" => "write" \notin fired
    BY <1>1, <1>2 DEF CanReadNothing, WInv, AttemptWritesFirst
  <2> QED
    BY <1>1, <1>2, <2>1, <2>2, <2>3
    DEF CanReadNothing, WInv, IdleWaiterIsDrained, ClosedIsSilent,
        AttemptWritesFirst, AttemptHasNoAnswer, LateWriteIsTimed, AttemptIsRead
<1>3. CASE CanReadFails
  <2>1. /\ fd' = NoFd /\ link' = "none" /\ inbox' = <<>> /\ draining' = "TRANSIENT"
        /\ "write" \in fired' => "write" \in fired
        /\ writeWatch' = "bad" => writeWatch = "bad"
        /\ UNCHANGED <<timerActive, timerArmed>>
    BY <1>3 DEF CanReadFails, CloseSocket, FiredWithoutRead, Stale, timers
  <2>2. "write" \in fired => TimerHasFired
    <3>1. CASE link = "failed"
      BY <1>1, <1>3, <3>1 DEF CanReadFails, WInv, AttemptWritesFirst
    <3>2. CASE link = "none"
      BY <3>2 DEF WInv, ClosedIsSilent, LateWriteIsTimed
    <3> QED
      BY <1>3, <3>1, <3>2 DEF CanReadFails
  <2>3. writeWatch = "bad" => TimerHasFired
    BY DEF WInv, LateWriteIsTimed, IInv, BadWatchIsClosed
  <2> QED
    BY <2>1, <2>2, <2>3
    DEF WInv, IdleWaiterIsDrained, ClosedIsSilent,
        AttemptWritesFirst, AttemptHasNoAnswer, LateWriteIsTimed, AttemptIsRead, TimerHasFired
<1>4. ASSUME NEW n \in 0 .. Len(inbox), CanReadSome(n) PROVE WInv'
  <2>1. /\ UNCHANGED <<fd, link, writeWatch>> /\ (inbox # <<>> \/ link = "eof")
        /\ state' = IF state = "INPROGRESS" THEN "ESTABLISHED" ELSE state
    BY <1>4 DEF CanReadSome
  <2>2. fd # NoFd /\ state # "IDLE"
    BY <2>1 DEF WInv, ClosedIsSilent, IInv, FdMatchesState
  <2>3. link # "connecting" /\ link # "failed"
    BY <2>1 DEF WInv, AttemptWritesFirst, AttemptHasNoAnswer
  <2> QED
    BY <2>1, <2>2, <2>3
    DEF WInv, IdleWaiterIsDrained, ClosedIsSilent,
        AttemptWritesFirst, AttemptHasNoAnswer, LateWriteIsTimed, AttemptIsRead
<1> QED
  BY <1>2, <1>3, <1>4 DEF CanRead

\* What else happens: the timer, accepted sockets and the network.
LEMMA OthersWInv ==
    /\ IInv /\ WInv
    /\ Accept \/ Timer \/ ConnectEnds \/ Peer \/ PeerCloses \/ UNCHANGED vars
    => WInv'
<1> SUFFICES ASSUME IInv, WInv,
                    Accept \/ Timer \/ ConnectEnds \/ Peer \/ PeerCloses \/ UNCHANGED vars
             PROVE  WInv'
  OBVIOUS
<1> USE DEF WInv, IdleWaiterIsDrained, ClosedIsSilent, AttemptWritesFirst,
            AttemptHasNoAnswer, LateWriteIsTimed, AttemptIsRead, TimerHasFired
<1>1. CASE Accept
  BY <1>1 DEF Accept, OpenFd, NoFd, due, timers
<1>2. CASE Timer
  <2>1. RunningTimerIsKnown
    BY DEF IInv
  <2>2. CASE state = "INPROGRESS"
    BY <1>2, <2>1, <2>2
    DEF Timer, CloseSocket, FiredWithoutRead, RunningTimerIsKnown
  <2>3. CASE state # "INPROGRESS"
    BY <1>2, <2>1, <2>3 DEF Timer, RunningTimerIsKnown, socket
  <2> QED
    BY <2>2, <2>3
<1>3. CASE ConnectEnds
  BY <1>3 DEF ConnectEnds, program, calls, watch, due, timers, Waiting
<1>4. CASE Peer \/ PeerCloses
  BY <1>4 DEF Peer, PeerReplies, PeerCloses, program, calls, watch, due, timers, Waiting
<1>5. CASE UNCHANGED vars
  BY <1>5 DEF vars, calls, watch, due, timers, socket, Waiting
<1> QED
  BY <1>1, <1>2, <1>3, <1>4, <1>5

\* canWrite() leaves the callers of the socket it closes to canRead(); unless a
\* peer resets sockets this works, whatever the attempts, timers and calls.
THEOREM IdleWaitersAreDrained ==
    "reset" \notin Environment => (Spec => []IdleWaiterIsDrained)
<1> SUFFICES ASSUME "reset" \notin Environment PROVE Spec => []IdleWaiterIsDrained
  OBVIOUS
<1>1. Init => WInv
  BY DEF Init, WInv, IdleWaiterIsDrained, ClosedIsSilent, AttemptWritesFirst,
         AttemptHasNoAnswer, LateWriteIsTimed, AttemptIsRead, Waiting, RequestIds
<1>2. IInv /\ WInv /\ [Next]_vars => WInv'
  <2>1. ~PeerResets
    BY DEF PeerResets
  <2>2. IInv /\ WInv /\ (TwowayCall \/ OnewayCall) => WInv'
    BY NewRequestWInv DEF TwowayCall, OnewayCall
  <2> QED
    BY <2>1, <2>2, DrainWInv, PollWInv, CanWriteWInv, CanReadWInv, OthersWInv DEF Next
<1>3. WInv => IdleWaiterIsDrained
  BY DEF WInv
<1> QED
  BY <1>1, <1>2, <1>3, Invariance, PTL DEF Spec
=============================================================================
