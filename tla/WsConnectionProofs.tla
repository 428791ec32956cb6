------------------------- MODULE WsConnectionProofs -------------------------
(* The upgrade comes first: at every time the two ends and the two wires are *)
(* in one of the few combinations HInv lists, whatever timers, new attempts  *)
(* and lost sockets do in between.  UpgradeBeforeFrames is not inductive on  *)
(* its own: that nothing but the response follows the GET needs to know that *)
(* GET is sent once, which needs to know when its write watcher can fire and *)
(* when a socket is still the one the GET was sent on.                       *)
EXTENDS WsConnection, FiniteSetTheorems, SequenceTheorems, TLAPS

\* A part of a sequence has no members the sequence does not have.
LEMMA PartsOfSeq ==
    ASSUME NEW S, NEW q \in Seq(S), NEW n \in 0 .. Len(q)
    PROVE  LET front == SubSeq(q, 1, n)
               rest  == SubSeq(q, n + 1, Len(q))
           IN /\ front \in Seq(S) /\ rest \in Seq(S)
              /\ Len(front) = n /\ Len(rest) = Len(q) - n
              /\ front \o rest = q
              /\ Range(front) \subseteq Range(q) /\ Range(rest) \subseteq Range(q)
<1> DEFINE front == SubSeq(q, 1, n)
           rest  == SubSeq(q, n + 1, Len(q))
<1>1. /\ front \in Seq(S) /\ Len(front) = n
      /\ \A i \in 1 .. n : front[i] = q[i]
  OBVIOUS
<1>2. /\ rest \in Seq(S) /\ Len(rest) = Len(q) - n
      /\ \A i \in 1 .. Len(q) - n : rest[i] = q[n + i]
  OBVIOUS
<1>3. front \o rest = q
  <2>1. 1 \in 1 .. Len(q) + 1 /\ n \in 1 - 1 .. Len(q) /\ Len(q) \in n .. Len(q)
    OBVIOUS
  <2>2. front \o rest = SubSeq(q, 1, Len(q))
    BY <2>1, ConcatAdjacentSubSeq
  <2>3. SubSeq(q, 1, Len(q)) = q
    BY SubSeqFull
  <2> HIDE DEF front, rest
  <2> QED
    BY <2>2, <2>3
<1> HIDE DEF front, rest
<1>4. Range(q) = Range(front) \cup Range(rest)
  <2>1. front \in Seq(S) /\ rest \in Seq(S)
    BY <1>1, <1>2
  <2>2. Range(front \o rest) = Range(front) \cup Range(rest)
    BY ONLY <2>1, RangeConcatenation
  <2> QED
    BY <1>3, <2>2
<1> QED
  BY <1>1, <1>2, <1>3, <1>4 DEF front, rest

\* A prefix of q has moved to the end of w: more and rest are what they are now.
Advanced(w, q, more, rest) ==
    /\ more \o rest = w \o q
    /\ Range(more) \subseteq Range(w) \cup Range(q)
    /\ Range(rest) \subseteq Range(q)

\* What wslay takes of q moves to the end of w.
LEMMA MovePrefix ==
    ASSUME NEW S, NEW T, T \subseteq S, NEW w \in Seq(S), NEW q \in Seq(T),
           NEW n \in 0 .. Len(q)
    PROVE  LET more == w \o SubSeq(q, 1, n)
               rest == SubSeq(q, n + 1, Len(q))
           IN /\ more \in Seq(S) /\ rest \in Seq(T)
              /\ Advanced(w, q, more, rest)
              /\ n = 0 => more = w
<1> DEFINE front == SubSeq(q, 1, n)
           rest  == SubSeq(q, n + 1, Len(q))
<1>1. /\ front \in Seq(T) /\ rest \in Seq(T) /\ front \o rest = q /\ Len(front) = n
      /\ Range(front) \subseteq Range(q) /\ Range(rest) \subseteq Range(q)
  BY PartsOfSeq
<1> HIDE DEF front, rest
<1>2. front \in Seq(S) /\ rest \in Seq(S)
  BY <1>1, SeqMonotonic
<1>3. w \o front \in Seq(S) /\ (w \o front) \o rest = w \o (front \o rest)
  <2>1. w \in Seq(S) /\ front \in Seq(S) /\ rest \in Seq(S)
    BY <1>2
  <2>2. w \o front \in Seq(S)
    BY ONLY <2>1
  <2>3. (w \o front) \o rest = w \o (front \o rest)
    BY ONLY <2>1, ConcatAssociative, SMTT(30)
  <2> QED
    BY ONLY <2>2, <2>3
<1>4. Range(w \o front) = Range(w) \cup Range(front)
  <2>1. w \in Seq(S) /\ front \in Seq(S)
    BY <1>2
  <2> QED
    BY ONLY <2>1, RangeConcatenation
<1>5. n = 0 => w \o front = w
  <2> SUFFICES ASSUME n = 0 PROVE w \o front = w
    OBVIOUS
  <2>1. front = <<>>
    BY <1>1
  <2> QED
    BY <2>1, ConcatEmptySeq
<1> QED
  BY <1>1, <1>3, <1>4, <1>5 DEF front, rest, Advanced

LEMMA EmptyLen == Len(<<>>) = 0 /\ \A n : n \notin 1 .. 0
  OBVIOUS

\* A message read from the front is one of those there were.
LEMMA TailProperties ==
    ASSUME NEW S, NEW a \in Seq(S), a # <<>>
    PROVE  /\ Head(a) \in S /\ Tail(a) \in Seq(S)
           /\ Range(a) = {Head(a)} \cup Range(Tail(a))
<1> DEFINE b == Tail(a)
<1>1. /\ Head(a) \in S /\ b \in Seq(S) /\ Len(b) = Len(a) - 1
      /\ \A i \in 1 .. Len(b) : b[i] = a[i + 1]
  BY HeadTailProperties
<1>2. Head(a) = a[1] /\ Len(a) \in Nat \ {0}
  OBVIOUS
<1> HIDE DEF b
<1>3. Range(a) = {a[i] : i \in 1 .. Len(a)} /\ Range(b) = {b[i] : i \in 1 .. Len(b)}
  BY <1>1, RangeEquality
<1>4. ASSUME NEW i \in 1 .. Len(a) PROVE a[i] \in {Head(a)} \cup Range(b)
  <2>1. i = 1 \/ (i - 1 \in 1 .. Len(b) /\ a[i] = b[i - 1])
    BY <1>1, <1>2
  <2> QED
    BY <1>2, <1>3, <2>1
<1>5. ASSUME NEW i \in 1 .. Len(b) PROVE b[i] \in Range(a)
  <2>1. i + 1 \in 1 .. Len(a) /\ b[i] = a[i + 1]
    BY <1>1, <1>2
  <2> QED
    BY <1>3, <2>1
<1>6. Head(a) \in Range(a)
  <2>1. 1 \in 1 .. Len(a)
    BY <1>2
  <2> QED
    BY <1>2, <1>3, <2>1
<1> QED
  BY <1>1, <1>3, <1>4, <1>5, <1>6 DEF b

LEMMA EmptyRange ==
    ASSUME NEW S, NEW a \in Seq(S)
    PROVE  /\ Range(<<>>) = {}
           /\ Range(a) = {} => a = <<>>
<1>1. DOMAIN a = 1 .. Len(a) /\ (Len(a) = 0 => a = <<>>) /\ Len(a) \in Nat
  OBVIOUS
<1>2. Len(a) > 0 => a[1] \in Range(a)
  BY <1>1 DEF Range
<1>3. Range(<<>>) = {}
  BY DEF Range
<1> QED
  BY <1>1, <1>2, <1>3

-----------------------------------------------------------------------------
(* Types, and what the actions built on wslay and sendBuffer do to the       *)
(* queues: the messages only move.                                          *)

QueuesTypeOK ==
    /\ sendBuffer \in [Sides -> Seq(RequestIds)]
    /\ queued \in [Sides -> Seq(RequestIds)]
    /\ wire \in [Sides -> Seq(Tokens)]
    /\ writeWatch \in [Sides -> {"off", "on", "stale"}]

LEMMA OtherSide ==
    ASSUME NEW s \in Sides
    PROVE  /\ Other(s) \in Sides /\ Other(s) # s
           /\ \A side \in Sides : side = s \/ side = Other(s)
  BY DEF Sides, Other

\* The messages of c, those queued at s and some more, have moved on towards the
\* other end, where w was on the wires before.
Moved(s, c, w) ==
    /\ queued' \in [Sides -> Seq(RequestIds)] /\ wire' \in [Sides -> Seq(Tokens)]
    /\ queued'[Other(s)] = queued[Other(s)] /\ wire'[s] = w[s]
    /\ Range(wire'[Other(s)]) \subseteq Range(w[Other(s)]) \cup Range(c)
    /\ Range(queued'[s]) \subseteq Range(c)
    /\ link = "connected" => wire'[Other(s)] \o queued'[s] = w[Other(s)] \o c
    /\ link # "connected" => wire'[Other(s)] = w[Other(s)]
    /\ c = <<>> => wire' = w /\ queued'[s] = <<>>

\* wslay_event_send() moves messages on, or a lost socket swallows them.
LEMMA WslaySendMoves ==
    ASSUME NEW s \in Sides, QueuesTypeOK, NEW c \in Seq(RequestIds),
           NEW w \in [Sides -> Seq(Tokens)], NEW again \in BOOLEAN,
           WslaySend(s, c, w, again)
    PROVE  Moved(s, c, w)
<1> DEFINE o == Other(s)
<1>1. PICK n \in 0 .. Len(c) :
        /\ link # "connected" => n = 0
        /\ wire' = [w EXCEPT ![o] = @ \o SubSeq(c, 1, n)]
        /\ queued' = [queued EXCEPT ![s] = IF link = "connected"
                                           THEN SubSeq(c, n + 1, Len(c)) ELSE <<>>]
  BY DEF WslaySend
<1> DEFINE more == w[o] \o SubSeq(c, 1, n)
           rest == SubSeq(c, n + 1, Len(c))
<1>2. o \in Sides /\ o # s /\ \A side \in Sides : side = s \/ side = o
  BY OtherSide
<1>3. w[o] \in Seq(Tokens) /\ RequestIds \subseteq Tokens
  BY <1>2 DEF Tokens
<1>4. /\ more \in Seq(Tokens) /\ rest \in Seq(RequestIds)
      /\ Advanced(w[o], c, more, rest)
      /\ n = 0 => more = w[o]
  <2>1. more \in Seq(Tokens) /\ rest \in Seq(RequestIds)
    BY <1>3, MovePrefix
  <2>2. Advanced(w[o], c, more, rest)
    BY <1>3, MovePrefix
  <2>3. n = 0 => more = w[o]
    BY <1>3, MovePrefix
  <2> QED
    BY <2>1, <2>2, <2>3
<1>5. /\ wire' = [w EXCEPT ![o] = more]
      /\ queued' = [queued EXCEPT ![s] = IF link = "connected" THEN rest ELSE <<>>]
  BY <1>1
<1> HIDE DEF more, rest, o
<1>6. /\ wire'[o] = more /\ wire'[s] = w[s]
      /\ queued'[s] = (IF link = "connected" THEN rest ELSE <<>>)
      /\ queued'[o] = queued[o]
      /\ wire' \in [Sides -> Seq(Tokens)] /\ queued' \in [Sides -> Seq(RequestIds)]
  <2>1. <<>> \in Seq(RequestIds)
    OBVIOUS
  <2> QED
    BY <1>2, <1>4, <1>5, <2>1 DEF QueuesTypeOK
<1>7. Range(<<>>) = {}
  BY DEF Range
<1>8. c = <<>> => wire' = w /\ queued'[s] = <<>>
  <2> SUFFICES ASSUME c = <<>> PROVE wire' = w /\ queued'[s] = <<>>
    OBVIOUS
  <2>1. n = 0 /\ more = w[o]
    BY <1>4
  <2>2. rest = <<>>
    BY <1>4, <1>7, EmptyRange DEF Advanced
  <2> QED
    BY <1>2, <1>5, <1>6, <2>1, <2>2
<1> QED
  BY <1>1, <1>4, <1>6, <1>7, <1>8 DEF Moved, Advanced, o

\* flushSendBuffer() moves what was queued and what was buffered.
LEMMA FlushMoves ==
    ASSUME NEW s \in Sides, QueuesTypeOK, NEW buffer \in Seq(RequestIds),
           NEW w \in [Sides -> Seq(Tokens)],
           flushSendBuffer(s, buffer, w)
    PROVE  /\ Moved(s, queued[s] \o buffer, w)
           /\ QueuesTypeOK'
           /\ sendBuffer'[s] = <<>> /\ sendBuffer'[Other(s)] = sendBuffer[Other(s)]
           /\ writeWatch'[Other(s)] = writeWatch[Other(s)]
           /\ buffer = <<>> => wire' = w /\ UNCHANGED <<queued, writeWatch>>
<1>1. Other(s) \in Sides /\ Other(s) # s
  BY OtherSide
<1>2. queued[s] \in Seq(RequestIds) /\ queued[s] \o buffer \in Seq(RequestIds)
  BY DEF QueuesTypeOK
<1>3. sendBuffer'[s] = <<>> /\ sendBuffer'[Other(s)] = sendBuffer[Other(s)]
      /\ sendBuffer' \in [Sides -> Seq(RequestIds)]
  <2>1. <<>> \in Seq(RequestIds)
    OBVIOUS
  <2> QED
    BY <1>1, <2>1 DEF flushSendBuffer, QueuesTypeOK
<1>4. CASE buffer = <<>>
  <2>1. wire' = w /\ UNCHANGED <<queued, writeWatch>>
    BY <1>4 DEF flushSendBuffer
  <2>2. queued[s] \o buffer = queued[s]
    BY <1>2, <1>4
  <2>3. Moved(s, queued[s], w)
    BY <1>1, <2>1 DEF Moved, QueuesTypeOK
  <2> QED
    BY <1>1, <1>3, <2>1, <2>2, <2>3 DEF QueuesTypeOK
<1>5. CASE buffer # <<>>
  <2>1. PICK again \in BOOLEAN :
          /\ WslaySend(s, queued[s] \o buffer, w, again)
          /\ writeWatch' = IF again THEN [writeWatch EXCEPT ![s] = "on"] ELSE writeWatch
    BY <1>5 DEF flushSendBuffer
  <2>2. Moved(s, queued[s] \o buffer, w)
    BY <1>2, <2>1, WslaySendMoves
  <2>3. writeWatch' \in [Sides -> {"off", "on", "stale"}]
        /\ writeWatch'[Other(s)] = writeWatch[Other(s)]
    BY <1>1, <2>1 DEF QueuesTypeOK
  <2>4. QueuesTypeOK'
    BY <1>3, <2>2, <2>3 DEF QueuesTypeOK, Moved
  <2> QED
    BY <1>3, <1>5, <2>2, <2>3, <2>4
<1> QED
  BY <1>4, <1>5

-----------------------------------------------------------------------------
(* The upgrade: which end is in which mode and what is on the wires.         *)

Outcomes == {"unused", "oneway", "waiting", "reply", "failed", "TIMEOUT"}

RestTypeOK ==
    /\ wsstate \in [Sides -> {"HTTP_CLIENT", "HTTP_SERVER", "WS"}]
    /\ headers \in [Sides -> 0 .. Len(HttpHeader)]
    /\ due \subseteq Sides
    /\ state \in {"IDLE", "PENDING", "INPROGRESS", "ESTABLISHED"}
    /\ timerActive \in BOOLEAN /\ timerArmed \in BOOLEAN
    /\ requestId \in {2 * n : n \in 0 .. MaxRequests}
    /\ call \in [RequestIds -> Outcomes]
    /\ draining \in BOOLEAN
    /\ ended \in {"no", "corrupt", "thrown", "undefined"}
    /\ accepted \in BOOLEAN
    /\ serving \subseteq RequestIds /\ executed \subseteq RequestIds
    /\ link \in {"none", "connecting", "connected", "failed"}
    /\ connects \in 0 .. MaxConnects

\* TypeOK in two parts: what the queue lemmas speak of and the rest.
LEMMA Types == TypeOK <=> QueuesTypeOK /\ RestTypeOK
  BY DEF TypeOK, QueuesTypeOK, RestTypeOK, Outcomes

\* Nothing of a GET request has been sent on the socket there is.
Fresh ==
    /\ wire["server"] = <<>> /\ headers["server"] = 0
    /\ wsstate["server"] = "HTTP_SERVER"

Modes ==
    /\ wsstate["client"] \in {"HTTP_CLIENT", "WS"}
    /\ wsstate["server"] \in {"HTTP_SERVER", "WS"}
    /\ wsstate["client"] = "WS" => wsstate["server"] = "WS"

IdleHasNoSocket == state \in {"IDLE", "PENDING"} => link = "none"

\* The client sends GET on an open socket that it keeps, and only once.
GetIsSentOnce ==
    ~Fresh =>
        /\ state = "ESTABLISHED" /\ link \in {"connected", "failed"}
        /\ wsstate["client"] = "HTTP_CLIENT" =>
               "client" \notin due /\ writeWatch["client"] # "on"

ResponseFollowsGet ==
    wsstate["server"] = "HTTP_SERVER" => wire["client"] = <<>> /\ headers["client"] = 0

NoFramesYet ==
    wsstate["client"] = "HTTP_CLIENT" =>
        /\ executed = {} /\ serving = {}
        /\ queued["client"] = <<>> /\ queued["server"] = <<>>
        /\ sendBuffer["server"] = <<>>
        /\ wsstate["server"] = "WS" => wire["server"] = <<>>

Handshake ==
    /\ Modes /\ IdleHasNoSocket /\ GetIsSentOnce /\ ResponseFollowsGet
    /\ NoFramesYet /\ UpgradeBeforeFrames

LEMMA ClientAndServer == Sides = {"client", "server"} /\ Other("client") = "server"
                         /\ Other("server") = "client" /\ "client" # "server"
  BY DEF Sides, Other

\* Steps that send and receive nothing and leave the modes alone.
LEMMA QuietHandshake ==
    ASSUME Handshake,
           UNCHANGED <<wsstate, headers, wire, queued, executed, serving>>,
           sendBuffer'["server"] = sendBuffer["server"],
           IdleHasNoSocket',
           ~Fresh => /\ state' = "ESTABLISHED" /\ link' \in {"connected", "failed"}
                     /\ wsstate["client"] = "HTTP_CLIENT" =>
                           "client" \notin due' /\ writeWatch'["client"] # "on"
    PROVE  Handshake'
<1>1. Fresh' = Fresh
  BY DEF Fresh
<1>2. GetIsSentOnce'
  BY <1>1 DEF GetIsSentOnce
<1>3. Modes' /\ ResponseFollowsGet' /\ NoFramesYet'
  BY DEF Handshake, Modes, ResponseFollowsGet, NoFramesYet
<1>4. UpgradeBeforeFrames'
  BY DEF Handshake, UpgradeBeforeFrames
<1> QED
  BY <1>2, <1>3, <1>4 DEF Handshake

\* Steps after the upgrade: only frames are added.
LEMMA UpgradedHandshake ==
    ASSUME Handshake, wsstate["client"] = "WS", UNCHANGED <<wsstate, headers, state>>,
           link' \in {"connected", "failed"},
           \A s \in Sides : Range(wire'[s]) \subseteq RequestIds
    PROVE  Handshake'
<1>1. wsstate["server"] = "WS" /\ state = "ESTABLISHED"
  BY DEF Handshake, Modes, GetIsSentOnce, Fresh
<1>2. \A s \in Sides : wsstate[s] = "WS"
  BY <1>1 DEF Sides
<1>3. UpgradeBeforeFrames'
  BY <1>2 DEF UpgradeBeforeFrames
<1> QED
  BY <1>1, <1>3
  DEF Handshake, Modes, GetIsSentOnce, IdleHasNoSocket, ResponseFollowsGet, NoFramesYet

\* What is on the wires after the upgrade are frames.
LEMMA UpgradedWires ==
    Handshake /\ wsstate["client"] = "WS" =>
        /\ wsstate["server"] = "WS" /\ state = "ESTABLISHED"
        /\ link \in {"connected", "failed"}
        /\ \A s \in Sides : Range(wire[s]) \subseteq RequestIds
  BY DEF Handshake, Modes, GetIsSentOnce, Fresh, UpgradeBeforeFrames, Sides

HInv == QueuesTypeOK /\ RestTypeOK /\ Handshake

\* Both ends start in HTTP mode with nothing on the wires.
LEMMA InitHInv == Init => HInv
<1> SUFFICES ASSUME Init PROVE HInv
  OBVIOUS
<1>1. <<>> \in Seq(RequestIds) /\ <<>> \in Seq(Tokens) /\ Len(HttpHeader) = 2
  BY DEF HttpHeader
<1>2. QueuesTypeOK
  BY <1>1 DEF Init, QueuesTypeOK
<1>3. 0 \in 0 .. MaxConnects /\ 0 \in {2 * n : n \in 0 .. MaxRequests} /\ 0 \in 0 .. 2
  BY ConstantsAssumption
<1>4. RestTypeOK
  BY <1>1, <1>3 DEF Init, RestTypeOK, Outcomes
<1>5. Range(<<>>) = {} /\ Len(<<>>) = 0
  BY DEF Range
<1>6. Handshake
  BY <1>1, <1>5
  DEF Init, Handshake, Modes, IdleHasNoSocket, GetIsSentOnce, ResponseFollowsGet,
      NoFramesYet, UpgradeBeforeFrames, Fresh, Sides
<1> QED
  BY <1>2, <1>4, <1>6 DEF HInv

\* Nothing changes.
LEMMA StutterHInv == HInv /\ UNCHANGED vars => HInv'
<1> SUFFICES ASSUME HInv, UNCHANGED vars PROVE HInv'
  OBVIOUS
<1>1. QueuesTypeOK' /\ RestTypeOK'
  BY DEF vars, data, calls, timers, server, socket, HInv, QueuesTypeOK, RestTypeOK
<1>2. Handshake'
  BY QuietHandshake
  DEF vars, data, calls, server, socket, HInv, Handshake, IdleHasNoSocket, GetIsSentOnce
<1> QED
  BY <1>1, <1>2 DEF HInv

\* A call, whatever became of the earlier ones.
LEMMA NewRequestHInv ==
    ASSUME HInv, NEW kind \in {"waiting", "oneway"},
           NEW base \in [RequestIds -> Outcomes],
           NewRequest(kind, base), UNCHANGED draining
    PROVE  HInv'
<1> DEFINE buffer == Append(sendBuffer["client"], requestId)
           Buffered == /\ sendBuffer' = [sendBuffer EXCEPT !["client"] = buffer]
                       /\ UNCHANGED <<queued, wire>>
<1>1. /\ requestId \in RequestIds /\ requestId' = requestId + 2
      /\ UNCHANGED <<wsstate, headers, due, accepted, serving, executed>>
  BY DEF NewRequest, FetchAdd, server
<1>2. requestId' \in {2 * n : n \in 0 .. MaxRequests}
  <2>1. PICK n \in 0 .. MaxRequests - 1 : requestId = 2 * n
    BY <1>1 DEF RequestIds
  <2>2. n + 1 \in 0 .. MaxRequests /\ requestId' = 2 * (n + 1)
    BY <1>1, <2>1, ConstantsAssumption
  <2> QED
    BY <2>2
<1>3. call' \in [RequestIds -> Outcomes]
  BY DEF NewRequest, Outcomes
<1>4. buffer \in Seq(RequestIds)
  BY <1>1, ClientAndServer DEF HInv, QueuesTypeOK
<1>5. ASSUME Buffered, writeWatch' \in [Sides -> {"off", "on", "stale"}]
      PROVE  QueuesTypeOK' /\ sendBuffer'["server"] = sendBuffer["server"]
  BY <1>4, <1>5, ClientAndServer DEF HInv, QueuesTypeOK
<1> HIDE DEF buffer
<1>6. \/ /\ state = "IDLE" /\ upThrows /\ Buffered
      \/ state = "IDLE" /\ link = "none" /\ upConnects /\ Buffered
      \/ /\ state \in {"PENDING", "INPROGRESS"} /\ Buffered
         /\ UNCHANGED <<state, writeWatch, timers, socket, ended>>
      \/ /\ state = "ESTABLISHED" /\ wsstate["client"] = "WS"
         /\ flushSendBuffer("client", buffer, wire)
         /\ UNCHANGED <<state, timers, socket, ended>>
      \/ /\ state = "ESTABLISHED" /\ wsstate["client"] # "WS"
         /\ Buffered /\ ended' = "undefined"
         /\ UNCHANGED <<state, writeWatch, timers, socket>>
  BY DEF NewRequest, buffer
<1>7. CASE state = "IDLE" /\ upThrows /\ Buffered
  <2>1. QueuesTypeOK' /\ RestTypeOK'
    BY <1>1, <1>2, <1>3, <1>5, <1>7
    DEF upThrows, HInv, QueuesTypeOK, RestTypeOK, timers, socket
  <2>2. /\ Handshake
        /\ UNCHANGED <<wsstate, headers, wire, queued, executed, serving, link>>
        /\ state = "IDLE" /\ state' \in {"IDLE", "PENDING"}
    BY <1>1, <1>7 DEF upThrows, HInv, socket
  <2>3. Fresh /\ IdleHasNoSocket'
    BY <2>2 DEF Handshake, IdleHasNoSocket, GetIsSentOnce
  <2>4. sendBuffer'["server"] = sendBuffer["server"]
    BY <1>7 DEF HInv, QueuesTypeOK
  <2>5. Handshake'
    BY <2>2, <2>3, <2>4, QuietHandshake
  <2> QED
    BY <2>1, <2>5 DEF HInv
<1>8. CASE state = "IDLE" /\ link = "none" /\ upConnects /\ Buffered
  <2>1. /\ state' \in {"INPROGRESS", "ESTABLISHED"} /\ link' \in {"connecting", "connected"}
        /\ timerActive' \in BOOLEAN /\ timerArmed' \in BOOLEAN
        /\ ended' \in {"no", "corrupt"}
        /\ connects' \in 0 .. MaxConnects
        /\ writeWatch' \in [Sides -> {"off", "on", "stale"}]
    BY <1>8, ClientAndServer, ConstantsAssumption
    DEF upConnects, HInv, RestTypeOK, QueuesTypeOK
  <2>2. QueuesTypeOK' /\ RestTypeOK'
    BY <1>1, <1>2, <1>3, <1>5, <1>8, <2>1 DEF HInv, RestTypeOK
  <2>3. Fresh
    BY <1>8 DEF HInv, Handshake, GetIsSentOnce
  <2>4. /\ UNCHANGED <<wsstate, headers, wire, queued, executed, serving>>
        /\ sendBuffer'["server"] = sendBuffer["server"]
    BY <1>1, <1>5, <1>8, <2>1
  <2>5. IdleHasNoSocket'
    BY <2>1 DEF IdleHasNoSocket
  <2>6. Handshake'
    BY <2>3, <2>4, <2>5, QuietHandshake DEF HInv
  <2> QED
    BY <2>2, <2>6 DEF HInv
<1>9. CASE /\ state \in {"PENDING", "INPROGRESS", "ESTABLISHED"} /\ Buffered
           /\ ended' \in {ended, "undefined"}
           /\ UNCHANGED <<state, writeWatch, timers, socket>>
  <2>1. /\ writeWatch' \in [Sides -> {"off", "on", "stale"}]
        /\ UNCHANGED <<state, timerActive, timerArmed, link, connects>>
    BY <1>9 DEF HInv, QueuesTypeOK, timers, socket
  <2>2. QueuesTypeOK'
    BY <1>5, <1>9, <2>1
  <2>3. ended' \in {"no", "corrupt", "thrown", "undefined"}
    BY <1>9 DEF HInv, RestTypeOK
  <2>4. RestTypeOK'
    BY <1>1, <1>2, <1>3, <2>1, <2>3 DEF HInv, RestTypeOK
  <2>5. Handshake'
    BY <1>1, <1>5, <1>9, QuietHandshake
    DEF HInv, Handshake, QueuesTypeOK, IdleHasNoSocket, GetIsSentOnce, socket
  <2> QED
    BY <2>2, <2>4, <2>5 DEF HInv
<1>10. CASE /\ state = "ESTABLISHED" /\ wsstate["client"] = "WS"
            /\ flushSendBuffer("client", buffer, wire)
            /\ UNCHANGED <<state, timers, socket, ended>>
  <2>1. /\ Moved("client", queued["client"] \o buffer, wire)
        /\ QueuesTypeOK'
    BY <1>4, <1>10, FlushMoves, ClientAndServer DEF HInv, QueuesTypeOK
  <2>2. RestTypeOK'
    BY <1>1, <1>2, <1>3, <1>10 DEF HInv, RestTypeOK, timers, socket
  <2>3. queued["client"] \in Seq(RequestIds)
    BY ClientAndServer DEF HInv, QueuesTypeOK
  <2>4. Range(queued["client"] \o buffer) \subseteq RequestIds
    BY <1>4, <2>3, RangeConcatenation, RangeOfSeq
  <2>5. \A s \in Sides : Range(wire'[s]) \subseteq RequestIds
    BY <1>10, <2>1, <2>4, UpgradedWires, ClientAndServer DEF Moved, HInv
  <2>6. Handshake'
    BY <1>1, <1>10, <2>5, UpgradedHandshake, UpgradedWires DEF HInv, socket
  <2> QED
    BY <2>1, <2>2, <2>6 DEF HInv
<1> QED
  BY <1>6, <1>7, <1>8, <1>9, <1>10

\* Calls touch sendBuffer, and wslay only once the client is in WS mode.
LEMMA CallHInv == HInv /\ (TwowayCall \/ OnewayCall \/ DrainStep) => HInv'
<1> SUFFICES ASSUME HInv, TwowayCall \/ OnewayCall \/ DrainStep PROVE HInv'
  OBVIOUS
<1>1. call \in [RequestIds -> Outcomes]
  BY DEF HInv, RestTypeOK
<1>2. CASE TwowayCall \/ OnewayCall
  BY <1>1, <1>2, NewRequestHInv DEF TwowayCall, OnewayCall
<1>3. ASSUME NEW id \in RequestIds, Drain(id)
      PROVE  HInv'
  <2> DEFINE failed == [call EXCEPT ![id] = "TIMEOUT"]
  <2>1. failed \in [RequestIds -> Outcomes]
    BY <1>1 DEF Outcomes
  <2>2. CASE NewRequest("waiting", failed)
    BY <1>3, <2>1, <2>2, NewRequestHInv DEF Drain
  <2>3. CASE /\ call' = failed
             /\ UNCHANGED <<wsstate, data, writeWatch, due, state, requestId,
                            timers, ended, server, socket>>
    <3> HIDE DEF failed
    <3>1. QueuesTypeOK' /\ RestTypeOK'
      BY <1>3, <2>1, <2>3
      DEF Drain, HInv, QueuesTypeOK, RestTypeOK, data, timers, server, socket
    <3>2. Handshake'
      BY <2>3, QuietHandshake
      DEF HInv, Handshake, IdleHasNoSocket, GetIsSentOnce, data, server, socket
    <3> QED
      BY <3>1, <3>2 DEF HInv
  <2> QED
    BY <1>3, <2>2, <2>3 DEF Drain
<1>4. CASE DrainDone
  <2>1. QueuesTypeOK' /\ RestTypeOK'
    BY <1>4 DEF DrainDone, HInv, QueuesTypeOK, RestTypeOK, data, timers, server, socket
  <2>2. Handshake'
    BY <1>4, QuietHandshake
    DEF DrainDone, HInv, Handshake, IdleHasNoSocket, GetIsSentOnce, data, server, socket
  <2> QED
    BY <2>1, <2>2 DEF HInv
<1> QED
  BY <1>2, <1>3, <1>4 DEF DrainStep

\* Polling, accepting and the end of an attempt send nothing.
LEMMA LoopHInv ==
    ASSUME HInv, (\E s \in Sides : Poll(s)) \/ Accept \/ ConnectEnds
    PROVE  HInv'
<1>1. CASE \E s \in Sides : Poll(s)
  <2>1. PICK s \in Sides : Poll(s)
    BY <1>1
  <2>2. QueuesTypeOK' /\ RestTypeOK'
    BY <2>1 DEF Poll, HInv, QueuesTypeOK, RestTypeOK, data, calls, timers, server, socket
  <2>3. ~Fresh /\ wsstate["client"] = "HTTP_CLIENT" => s # "client"
    BY <2>1 DEF Poll, HInv, Handshake, GetIsSentOnce
  <2>4. Handshake'
    BY <2>1, <2>3, QuietHandshake
    DEF Poll, HInv, Handshake, IdleHasNoSocket, GetIsSentOnce, data, server, socket
  <2> QED
    BY <2>2, <2>4 DEF HInv
<1>2. CASE Accept
  <2>1. QueuesTypeOK' /\ RestTypeOK'
    BY <1>2 DEF Accept, HInv, QueuesTypeOK, RestTypeOK, data, calls, timers, socket
  <2>2. Handshake'
    BY <1>2, QuietHandshake
    DEF Accept, HInv, Handshake, IdleHasNoSocket, GetIsSentOnce, data, socket
  <2> QED
    BY <2>1, <2>2 DEF HInv
<1>3. CASE ConnectEnds
  <2>1. link' \in {"connected", "failed"} /\ link = "connecting" /\ wire' = wire
    BY <1>3 DEF ConnectEnds
  <2>2. QueuesTypeOK' /\ RestTypeOK'
    BY <1>3, <2>1
    DEF ConnectEnds, program, HInv, QueuesTypeOK, RestTypeOK, calls, timers, server
  <2>3. Handshake'
    BY <1>3, <2>1, QuietHandshake
    DEF ConnectEnds, program, HInv, Handshake, IdleHasNoSocket, GetIsSentOnce, server
  <2> QED
    BY <2>2, <2>3 DEF HInv
<1> QED
  BY <1>1, <1>2, <1>3

\* The GET request goes out on a socket on which nothing has been sent.
LEMMA CanWriteHttpHInv == HInv /\ CanWriteHttp => HInv'
<1> SUFFICES ASSUME HInv, CanWriteHttp PROVE HInv'
  OBVIOUS
<1>1. /\ wsstate["client"] = "HTTP_CLIENT" /\ "client" \in due /\ Fresh
      /\ wire["client"] = <<>> /\ headers["client"] = 0
      /\ due' = due \ {"client"}
      /\ state' = IF state = "INPROGRESS" THEN "ESTABLISHED" ELSE state
      /\ writeWatch' = [writeWatch EXCEPT !["client"] = "off"]
      /\ UNCHANGED <<wsstate, headers, sendBuffer, queued, calls, timers, server, socket>>
  BY DEF CanWriteHttp, HInv, Handshake, GetIsSentOnce, ResponseFollowsGet, Fresh
<1>2. HttpHeader \in Seq(Tokens) /\ Len(HttpHeader) = 2 /\ Range(HttpHeader) = {HeaderPart}
  <2>1. HeaderPart \in Tokens
    BY DEF Tokens
  <2>2. HttpHeader \in Seq(Tokens) /\ Len(HttpHeader) = 2
    BY <2>1 DEF HttpHeader
  <2>3. DOMAIN HttpHeader = {1, 2} /\ HttpHeader[1] = HeaderPart /\ HttpHeader[2] = HeaderPart
    BY DEF HttpHeader
  <2> QED
    BY <2>2, <2>3 DEF Range
<1>3. \/ /\ link = "connected" /\ ended' = ended
         /\ wire' = [wire EXCEPT !["server"] = HttpHeader]
      \/ wire' = wire /\ ended' = "thrown"
  <2>1. wire["server"] \o HttpHeader = HttpHeader
    BY <1>1, <1>2, ConcatEmptySeq DEF Fresh
  <2> QED
    BY <2>1 DEF CanWriteHttp
<1>4. QueuesTypeOK' /\ RestTypeOK'
  <2>1. wire' \in [Sides -> Seq(Tokens)] /\ ended' \in {"no", "thrown", "corrupt", "undefined"}
    <3>1. wire' = wire \/ wire' = [wire EXCEPT !["server"] = HttpHeader]
      BY <1>3
    <3>2. wire' \in [Sides -> Seq(Tokens)]
      BY <1>2, <3>1 DEF HInv, QueuesTypeOK
    <3> QED
      BY <1>3, <3>2 DEF HInv, RestTypeOK
  <2>2. writeWatch' \in [Sides -> {"off", "on", "stale"}]
    BY <1>1 DEF HInv, QueuesTypeOK
  <2>3. QueuesTypeOK'
    BY <1>1, <2>1, <2>2 DEF HInv, QueuesTypeOK
  <2>4. RestTypeOK'
    BY <1>1, <2>1 DEF HInv, RestTypeOK, calls, timers, server, socket
  <2> QED
    BY <2>3, <2>4
<1>5. CASE wire' = wire
  <2>1. /\ UNCHANGED <<wsstate, headers, wire, queued, executed, serving>>
        /\ sendBuffer'["server"] = sendBuffer["server"] /\ link' = link
    BY <1>1, <1>5 DEF server, socket
  <2>2. IdleHasNoSocket'
    BY <1>1, <2>1 DEF HInv, Handshake, IdleHasNoSocket
  <2>3. Handshake /\ Fresh
    BY <1>1 DEF HInv
  <2> QED
    BY <1>4, <2>1, <2>2, <2>3, QuietHandshake DEF HInv
<1>6. CASE link = "connected" /\ wire' = [wire EXCEPT !["server"] = HttpHeader]
  <2>1. /\ wire'["server"] = HttpHeader /\ wire'["client"] = <<>>
        /\ writeWatch'["client"] = "off"
    BY <1>1, <1>6, ClientAndServer DEF HInv, QueuesTypeOK
  <2>2. state' = "ESTABLISHED" /\ link' = "connected"
    BY <1>1, <1>6 DEF HInv, RestTypeOK, Handshake, IdleHasNoSocket, socket
  <2>5. IdleHasNoSocket' /\ GetIsSentOnce'
    BY <1>1, <2>1, <2>2 DEF IdleHasNoSocket, GetIsSentOnce
  <2>6. UNCHANGED <<wsstate, headers, queued, executed, serving, sendBuffer>>
    BY <1>1 DEF server
  <2>7. Modes' /\ ResponseFollowsGet'
    BY <1>1, <2>1, <2>6 DEF HInv, Handshake, Modes, ResponseFollowsGet
  <2>8. NoFramesYet'
    BY <1>1, <2>6 DEF HInv, Handshake, NoFramesYet, Fresh
  <2>3. Modes' /\ IdleHasNoSocket' /\ GetIsSentOnce' /\ ResponseFollowsGet' /\ NoFramesYet'
    BY <2>5, <2>7, <2>8
  <2>4. UpgradeBeforeFrames'
    <3>1. Range(<<>>) = {} /\ Len(<<>>) = 0
      BY DEF Range
    <3>2. /\ Range(wire'["client"]) \subseteq {HeaderPart} /\ wsstate'["client"] # "WS"
          /\ headers'["client"] + Len(wire'["client"]) <= Len(HttpHeader)
      BY <1>1, <1>2, <2>1, <2>6, <3>1
    <3>3. /\ Range(wire'["server"]) \subseteq {HeaderPart} /\ wsstate'["server"] # "WS"
          /\ headers'["server"] + Len(wire'["server"]) <= Len(HttpHeader)
      <4>1. headers'["server"] = 0 /\ wsstate'["server"] = "HTTP_SERVER"
        BY <1>1, <2>6 DEF Fresh
      <4>2. Range(wire'["server"]) = {HeaderPart} /\ Len(wire'["server"]) = 2
        BY <1>2, <2>1
      <4> QED
        BY <1>2, <4>1, <4>2
    <3> QED
      BY <3>2, <3>3 DEF UpgradeBeforeFrames, Sides
  <2> QED
    BY <1>4, <2>3, <2>4 DEF HInv, Handshake
<1> QED
  BY <1>3, <1>4, <1>5, <1>6 DEF HInv

\* After the upgrade sendBuffer goes through wslay to the wire as frames.
LEMMA FlushUpgraded ==
    ASSUME HInv, wsstate["client"] = "WS", NEW s \in Sides,
           NEW buffer \in Seq(RequestIds), NEW w \in [Sides -> Seq(Tokens)],
           \A side \in Sides : Range(w[side]) \subseteq RequestIds,
           flushSendBuffer(s, buffer, w), UNCHANGED <<wsstate, headers, state, link>>
    PROVE  QueuesTypeOK' /\ Handshake'
<1>1. /\ Moved(s, queued[s] \o buffer, w) /\ QueuesTypeOK'
  BY FlushMoves DEF HInv
<1>2. queued[s] \in Seq(RequestIds)
  BY DEF HInv, QueuesTypeOK
<1>3. Range(queued[s] \o buffer) \subseteq RequestIds
  BY <1>2, RangeConcatenation, RangeOfSeq
<1>4. \A side \in Sides : Range(wire'[side]) \subseteq RequestIds
  BY <1>1, <1>3, OtherSide DEF Moved
<1>5. Handshake'
  BY <1>4, UpgradedHandshake, UpgradedWires DEF HInv
<1> QED
  BY <1>1, <1>5

\* wslay goes on sending: frames follow frames.
LEMMA CanWriteWsHInv == ASSUME NEW s \in Sides PROVE HInv /\ CanWriteWs(s) => HInv'
<1> SUFFICES ASSUME HInv, CanWriteWs(s) PROVE HInv'
  OBVIOUS
<1>1. PICK again \in BOOLEAN :
        /\ WslaySend(s, queued[s], wire, again)
        /\ writeWatch' = [writeWatch EXCEPT ![s] = IF again THEN @ ELSE "off"]
  BY DEF CanWriteWs
<1>2. /\ UNCHANGED <<wsstate, headers, sendBuffer, state, calls, timers, ended, server, socket>>
      /\ wsstate[s] = "WS" /\ due' = due \ {s}
  BY DEF CanWriteWs
<1>3. queued[s] \in Seq(RequestIds) /\ wire \in [Sides -> Seq(Tokens)]
  BY DEF HInv, QueuesTypeOK
<1>4. Moved(s, queued[s], wire)
  BY <1>1, <1>3, WslaySendMoves DEF HInv
<1>5. QueuesTypeOK' /\ RestTypeOK'
  <2>1. writeWatch' \in [Sides -> {"off", "on", "stale"}]
    BY <1>1 DEF HInv, QueuesTypeOK
  <2>2. QueuesTypeOK'
    BY <1>2, <1>4, <2>1 DEF HInv, QueuesTypeOK, Moved
  <2>3. RestTypeOK'
    BY <1>2 DEF HInv, RestTypeOK, calls, timers, server, socket
  <2> QED
    BY <2>2, <2>3
<1>6. CASE wsstate["client"] = "WS"
  <2>1. Range(queued[s]) \subseteq RequestIds
    BY <1>3, RangeOfSeq
  <2>2. \A side \in Sides : Range(wire'[side]) \subseteq RequestIds
    <3>1. \A side \in Sides : Range(wire[side]) \subseteq RequestIds
      BY <1>6, UpgradedWires DEF HInv
    <3> QED
      BY <1>4, <2>1, <3>1, OtherSide DEF Moved
  <2>3. UNCHANGED <<wsstate, headers, state>> /\ link' = link
    BY <1>2 DEF socket
  <2>4. Handshake'
    BY <1>6, <2>2, <2>3, UpgradedHandshake, UpgradedWires DEF HInv
  <2> QED
    BY <1>5, <2>4 DEF HInv
<1>7. CASE wsstate["client"] # "WS"
  <2>1. s = "server" /\ wsstate["client"] = "HTTP_CLIENT"
    BY <1>2, <1>7 DEF HInv, Handshake, Modes, Sides
  <2>2. queued["server"] = <<>> /\ queued \in [Sides -> Seq(RequestIds)]
    BY <2>1 DEF HInv, Handshake, NoFramesYet, QueuesTypeOK
  <2>3. wire' = wire /\ queued'["server"] = queued["server"]
        /\ queued'["client"] = queued["client"] /\ queued' \in [Sides -> Seq(RequestIds)]
    BY <1>4, <2>1, <2>2, ClientAndServer DEF Moved
  <2>4. queued' = queued
    BY <2>2, <2>3 DEF Sides
  <2>5. writeWatch'["client"] = writeWatch["client"]
    BY <1>1, <2>1 DEF HInv, QueuesTypeOK, Sides
  <2>6. /\ UNCHANGED <<wsstate, headers, wire, queued, executed, serving>>
        /\ sendBuffer'["server"] = sendBuffer["server"]
        /\ state' = state /\ link' = link /\ due' \subseteq due
    BY <1>2, <2>3, <2>4 DEF server, socket
  <2>7. IdleHasNoSocket'
    BY <2>6 DEF HInv, Handshake, IdleHasNoSocket
  <2>8. Handshake /\ GetIsSentOnce
    BY DEF HInv, Handshake
  <2>9. ~Fresh => /\ state' = "ESTABLISHED" /\ link' \in {"connected", "failed"}
                  /\ wsstate["client"] = "HTTP_CLIENT" =>
                        "client" \notin due' /\ writeWatch'["client"] # "on"
    BY <2>5, <2>6, <2>8 DEF GetIsSentOnce
  <2>10. Handshake'
    BY <2>6, <2>7, <2>8, <2>9, QuietHandshake
  <2> QED
    BY <1>5, <2>10 DEF HInv
<1> QED
  BY <1>6, <1>7

\* The timer closes a socket only during an attempt, before anything was sent.
LEMMA TimerHInv == HInv /\ Timer => HInv'
<1> SUFFICES ASSUME HInv, Timer PROVE HInv'
  OBVIOUS
<1>1. /\ UNCHANGED <<wsstate, headers, sendBuffer, queued, due, requestId, call,
                      timerActive, ended, serving, executed, connects>>
      /\ timerArmed' = FALSE
  BY DEF Timer
<1>2. CASE state = "INPROGRESS"
  <2>1. /\ state' = "IDLE" /\ link' = "none" /\ accepted' = FALSE /\ draining' = TRUE
        /\ wire' = [s \in Sides |-> <<>>]
        /\ writeWatch' = [writeWatch EXCEPT !["client"] = IF @ = "on" THEN "stale" ELSE @]
    BY <1>2 DEF Timer
  <2>2. Fresh /\ wire["client"] = <<>>
    BY <1>2 DEF HInv, Handshake, GetIsSentOnce, ResponseFollowsGet, Fresh
  <2>3. wire' = wire
    BY <2>1, <2>2 DEF HInv, QueuesTypeOK, Fresh, Sides
  <2>4. writeWatch' \in [Sides -> {"off", "on", "stale"}]
    BY <2>1, ClientAndServer DEF HInv, QueuesTypeOK
  <2>5. QueuesTypeOK' /\ RestTypeOK'
    BY <1>1, <2>1, <2>3, <2>4 DEF HInv, QueuesTypeOK, RestTypeOK
  <2>6. Handshake /\ IdleHasNoSocket'
    BY <2>1 DEF HInv, IdleHasNoSocket
  <2>7. Handshake'
    BY <1>1, <2>2, <2>3, <2>6, QuietHandshake
  <2> QED
    BY <2>5, <2>7 DEF HInv
<1>3. CASE UNCHANGED <<state, link, accepted, wire, writeWatch, draining>>
  <2>1. QueuesTypeOK' /\ RestTypeOK'
    BY <1>1, <1>3 DEF HInv, QueuesTypeOK, RestTypeOK
  <2>2. Handshake'
    BY <1>1, <1>3, QuietHandshake DEF HInv, Handshake, IdleHasNoSocket, GetIsSentOnce
  <2> QED
    BY <2>1, <2>2 DEF HInv
<1> QED
  BY <1>2, <1>3 DEF Timer

\* A lost socket takes away what is on the wires and adds nothing.
LEMMA ResetHInv == HInv /\ Reset => HInv'
<1> SUFFICES ASSUME HInv, Reset PROVE HInv'
  OBVIOUS
<1>1. UNCHANGED program /\ link = "connected" /\ link' = "failed"
  BY DEF Reset
<1>2. /\ wire' \in [Sides -> Seq(Tokens)]
      /\ \A s \in Sides : wire'[s] = wire[s] \/ wire'[s] = <<>>
  <2>1. <<>> \in Seq(Tokens)
    OBVIOUS
  <2> QED
    BY <2>1 DEF Reset, HInv, QueuesTypeOK
<1>3. QueuesTypeOK' /\ RestTypeOK'
  BY <1>1, <1>2 DEF program, calls, timers, server, HInv, QueuesTypeOK, RestTypeOK
<1>4. Range(<<>>) = {} /\ Len(<<>>) = 0
  BY DEF Range
<1>5. CASE wsstate["client"] = "WS"
  <2>1. \A s \in Sides : Range(wire'[s]) \subseteq RequestIds
    BY <1>2, <1>4, <1>5, UpgradedWires DEF HInv
  <2>2. UNCHANGED <<wsstate, headers, state>>
    BY <1>1 DEF program
  <2> QED
    BY <1>1, <1>3, <1>5, <2>1, <2>2, UpgradedHandshake DEF HInv
<1>6. CASE wsstate["client"] # "WS"
  <2>1. /\ UNCHANGED <<wsstate, headers, state, due, writeWatch, executed, serving>>
        /\ UNCHANGED <<queued, sendBuffer>>
    BY <1>1 DEF program, server
  <2>2. /\ wire'["client"] = wire["client"] \/ wire'["client"] = <<>>
        /\ wire'["server"] = wire["server"] \/ wire'["server"] = <<>>
    BY <1>2 DEF Sides
  <2>3. Fresh => Fresh'
    BY <2>1, <2>2 DEF Fresh
  <2>4. GetIsSentOnce' /\ IdleHasNoSocket'
    BY <1>1, <2>1, <2>3 DEF HInv, Handshake, GetIsSentOnce, IdleHasNoSocket
  <2>5. Modes' /\ ResponseFollowsGet' /\ NoFramesYet'
    BY <2>1, <2>2 DEF HInv, Handshake, Modes, ResponseFollowsGet, NoFramesYet
  <2>6. UpgradeBeforeFrames'
    <3> SUFFICES ASSUME NEW s \in Sides
                 PROVE  IF wsstate'[s] = "WS" THEN Range(wire'[s]) \subseteq RequestIds
                        ELSE /\ Range(wire'[s]) \subseteq {HeaderPart}
                             /\ headers'[s] + Len(wire'[s]) <= Len(HttpHeader)
      BY DEF UpgradeBeforeFrames
    <3>1. CASE wire'[s] = wire[s]
      BY <2>1, <3>1 DEF HInv, Handshake, UpgradeBeforeFrames
    <3>2. CASE wire'[s] = <<>>
      <4>1. headers[s] \in 0 .. Len(HttpHeader) /\ Len(HttpHeader) = 2
        BY DEF HInv, RestTypeOK, HttpHeader
      <4> QED
        BY <1>4, <2>1, <3>2, <4>1
    <3> QED
      BY <1>2, <3>1, <3>2
  <2> QED
    BY <1>3, <2>4, <2>5, <2>6 DEF HInv, Handshake
<1> QED
  BY <1>5, <1>6

\* One recv() of part of an HTTP header: none of what it takes is a frame, and
\* when the header is complete nothing is left behind it.
LEMMA HeaderParts ==
    ASSUME HInv, NEW s \in Sides, wsstate[s] # "WS", NEW n \in 1 .. Len(wire[s])
    PROVE  LET rest == SubSeq(wire[s], n + 1, Len(wire[s]))
           IN /\ Cardinality({i \in 1 .. n : wire[s][i] = HeaderPart}) = n
              /\ headers[s] \in 0 .. 2 /\ headers[s] + Len(wire[s]) <= 2
              /\ rest \in Seq(Tokens) /\ Len(rest) = Len(wire[s]) - n
              /\ Range(rest) \subseteq {HeaderPart}
              /\ headers[s] + n >= 2 => rest = <<>>
<1> DEFINE rest == SubSeq(wire[s], n + 1, Len(wire[s]))
<1>1. Len(HttpHeader) = 2
  BY DEF HttpHeader
<1>2. /\ headers[s] \in 0 .. 2 /\ headers[s] + Len(wire[s]) <= 2
      /\ Range(wire[s]) \subseteq {HeaderPart} /\ wire[s] \in Seq(Tokens)
  BY <1>1 DEF HInv, Handshake, UpgradeBeforeFrames, QueuesTypeOK, RestTypeOK
<1>3. \A i \in 1 .. n : wire[s][i] = HeaderPart
  <2>1. \A i \in 1 .. n : i \in 1 .. Len(wire[s])
    BY <1>2
  <2> QED
    BY <1>2, <2>1, RangeEquality
<1>4. {i \in 1 .. n : wire[s][i] = HeaderPart} = 1 .. n
  BY <1>3
<1>5. Cardinality(1 .. n) = n
  BY <1>2, FS_Interval
<1>6. rest \in Seq(Tokens) /\ Len(rest) = Len(wire[s]) - n /\ Range(rest) \subseteq {HeaderPart}
  <2>1. n \in 0 .. Len(wire[s])
    BY <1>2
  <2> QED
    BY <1>2, <2>1, PartsOfSeq
<1> HIDE DEF rest
<1>7. headers[s] + n >= 2 => rest = <<>>
  <2>1. headers[s] + n >= 2 => Len(rest) = 0
    BY <1>2, <1>6
  <2> QED
    BY <1>6, <2>1
<1> QED
  BY <1>2, <1>4, <1>5, <1>6, <1>7 DEF rest

\* Half a header is counted; a whole one upgrades, and nothing was behind it.
LEMMA HttpRcvdHInv ==
    ASSUME HInv, NEW s \in Sides, NEW n \in 1 .. Len(wire[s]), HttpRcvd(s, n)
    PROVE  HInv'
<1> DEFINE rest == SubSeq(wire[s], n + 1, Len(wire[s]))
           others == [wire EXCEPT ![s] = rest]
           have == headers[s] + n
<1>1. wsstate[s] # "WS" /\ UNCHANGED <<due, state, calls, timers, ended, server, socket>>
  BY DEF HttpRcvd
<1>2. /\ Cardinality({i \in 1 .. n : wire[s][i] = HeaderPart}) = n
      /\ headers[s] \in 0 .. 2 /\ headers[s] + Len(wire[s]) <= 2
      /\ rest \in Seq(Tokens) /\ Len(rest) = Len(wire[s]) - n
      /\ Range(rest) \subseteq {HeaderPart}
      /\ have >= 2 => rest = <<>>
  BY <1>1, HeaderParts
<1>3. Len(HttpHeader) = 2
  BY DEF HttpHeader
<1>4. IF have < 2
      THEN /\ headers' = [headers EXCEPT ![s] = have] /\ wire' = others
           /\ UNCHANGED <<wsstate, sendBuffer, queued, writeWatch>>
      ELSE startWSMode(s, Response(s, others))
  BY <1>2, <1>3 DEF HttpRcvd
<1> HIDE DEF rest
<1>5. /\ others \in [Sides -> Seq(Tokens)] /\ others[s] = rest
      /\ others[Other(s)] = wire[Other(s)]
  BY <1>2, OtherSide DEF HInv, QueuesTypeOK
<1>6. Handshake /\ Modes /\ GetIsSentOnce /\ ResponseFollowsGet /\ NoFramesYet
      /\ UpgradeBeforeFrames
  BY DEF HInv, Handshake
<1>7. ~Fresh /\ wsstate["client"] = "HTTP_CLIENT"
  <2>1. CASE s = "server"
    <3>1. wire["server"] # <<>>
      BY <2>1 DEF HInv, QueuesTypeOK
    <3> QED
      BY <1>1, <1>6, <2>1, <3>1 DEF Fresh, Modes
  <2>2. CASE s = "client"
    <3>1. wire["client"] # <<>>
      BY <2>2 DEF HInv, QueuesTypeOK
    <3> QED
      BY <1>1, <1>6, <2>2, <3>1 DEF Fresh, Modes, ResponseFollowsGet
  <2> QED
    BY <2>1, <2>2 DEF Sides
<1>8. /\ state = "ESTABLISHED" /\ link \in {"connected", "failed"}
      /\ "client" \notin due /\ writeWatch["client"] # "on"
  BY <1>6, <1>7 DEF GetIsSentOnce
<1> HIDE DEF others
<1>9. IdleHasNoSocket' /\ state' = "ESTABLISHED" /\ link' \in {"connected", "failed"}
      /\ "client" \notin due'
  BY <1>1, <1>8 DEF IdleHasNoSocket, socket
<1>10. RestTypeOK' <=>
          /\ wsstate' \in [Sides -> {"HTTP_CLIENT", "HTTP_SERVER", "WS"}]
          /\ headers' \in [Sides -> 0 .. 2]
  BY <1>1, <1>3 DEF HInv, RestTypeOK, calls, timers, server, socket
<1>11. CASE have < 2
  <2>1. /\ headers' = [headers EXCEPT ![s] = have] /\ wire' = others
        /\ UNCHANGED <<wsstate, sendBuffer, queued, writeWatch>>
    BY <1>4, <1>11
  <2>2. have \in 0 .. 2
    BY <1>2, <1>11
  <2>3. headers' \in [Sides -> 0 .. 2] /\ headers'[s] = have
        /\ headers'[Other(s)] = headers[Other(s)]
    BY <1>3, <2>1, <2>2, OtherSide DEF HInv, RestTypeOK
  <2>4. QueuesTypeOK' /\ RestTypeOK'
    BY <1>5, <1>10, <2>1, <2>3 DEF HInv, QueuesTypeOK, RestTypeOK
  <2>5. GetIsSentOnce' /\ Modes'
    BY <1>6, <1>8, <1>9, <2>1 DEF GetIsSentOnce, Modes
  <2>6. ResponseFollowsGet' /\ NoFramesYet'
    <3>1. CASE s = "server"
      BY <1>1, <1>5, <1>6, <2>1, <2>3, <3>1, ClientAndServer
      DEF ResponseFollowsGet, NoFramesYet, server
    <3>2. CASE s = "client"
      <4>1. wsstate["server"] # "HTTP_SERVER"
        BY <1>6, <3>2, EmptyLen DEF ResponseFollowsGet
      <4> QED
        BY <1>1, <1>5, <1>6, <2>1, <3>2, <4>1, ClientAndServer
        DEF ResponseFollowsGet, NoFramesYet, server
    <3> QED
      BY <3>1, <3>2 DEF Sides
  <2>7. UpgradeBeforeFrames'
    <3>1. Range(wire'[s]) \subseteq {HeaderPart} /\ headers'[s] + Len(wire'[s]) <= 2
      BY <1>2, <1>5, <2>1, <2>3
    <3>2. wire'[Other(s)] = wire[Other(s)] /\ headers'[Other(s)] = headers[Other(s)]
      BY <1>5, <2>1, <2>3
    <3> QED
      BY <1>1, <1>3, <1>6, <2>1, <3>1, <3>2, OtherSide DEF UpgradeBeforeFrames
  <2> QED
    BY <1>9, <2>4, <2>5, <2>6, <2>7 DEF HInv, Handshake
<1>12. CASE have >= 2
  <2> DEFINE w == Response(s, others)
  <2>1. /\ wsstate' = [wsstate EXCEPT ![s] = "WS"] /\ headers' = [headers EXCEPT ![s] = 0]
        /\ flushSendBuffer(s, sendBuffer[s], w)
    BY <1>2, <1>4, <1>12 DEF startWSMode
  <2>2. /\ wsstate'[s] = "WS" /\ wsstate'[Other(s)] = wsstate[Other(s)]
        /\ headers'[s] = 0 /\ headers'[Other(s)] = headers[Other(s)]
        /\ wsstate' \in [Sides -> {"HTTP_CLIENT", "HTTP_SERVER", "WS"}]
        /\ headers' \in [Sides -> 0 .. 2]
    BY <1>3, <2>1, OtherSide DEF HInv, RestTypeOK
  <2>3. others[s] = <<>>
    BY <1>2, <1>5, <1>12
  <2>4. sendBuffer[s] \in Seq(RequestIds) /\ queued[s] \in Seq(RequestIds)
    BY DEF HInv, QueuesTypeOK
  <2>5. RestTypeOK'
    BY <1>10, <2>2
  <2>6. Range(<<>>) = {} /\ Len(<<>>) = 0
    BY DEF Range
  <2>7. CASE s = "server"
    <3>1. /\ sendBuffer[s] = <<>> /\ wire["client"] = <<>> /\ headers["client"] = 0
          /\ wsstate["server"] = "HTTP_SERVER"
      BY <1>1, <1>6, <1>7, <2>7 DEF NoFramesYet, ResponseFollowsGet, Modes
    <3>2. /\ w \in [Sides -> Seq(Tokens)] /\ w["server"] = <<>>
          /\ w["client"] \in {<<>>, HttpHeader}
      <4>1. others["client"] = <<>> /\ others["server"] = <<>>
        BY <1>5, <2>3, <2>7, <3>1, ClientAndServer
      <4>2. HttpHeader \in Seq(Tokens) /\ others["client"] \o HttpHeader = HttpHeader
        <5>1. HttpHeader \in Seq(Tokens)
          BY DEF HttpHeader, Tokens
        <5> QED
          BY <4>1, <5>1, ConcatEmptySeq
      <4>3. CASE link = "connected"
        <5>1. w = [others EXCEPT !["client"] = HttpHeader]
          BY <2>7, <4>2, <4>3 DEF Response
        <5> QED
          BY <1>5, <4>1, <4>2, <5>1, ClientAndServer
      <4>4. CASE link # "connected"
        BY <1>5, <2>7, <4>1, <4>4 DEF Response
      <4> QED
        BY <4>3, <4>4
    <3> HIDE DEF w
    <3>3. /\ QueuesTypeOK' /\ wire' = w /\ UNCHANGED <<queued, writeWatch>>
          /\ sendBuffer'["server"] = <<>>
      BY <2>1, <2>4, <2>7, <3>1, <3>2, FlushMoves DEF HInv
    <3>4. /\ wsstate'["server"] = "WS" /\ wsstate'["client"] = "HTTP_CLIENT"
          /\ headers'["client"] = 0
      BY <1>7, <2>2, <2>7, <3>1, ClientAndServer
    <3>5. Modes' /\ GetIsSentOnce' /\ ResponseFollowsGet'
      BY <1>8, <1>9, <3>3, <3>4 DEF Modes, GetIsSentOnce, ResponseFollowsGet
    <3>6. NoFramesYet'
      BY <1>1, <1>6, <1>7, <3>2, <3>3, <3>4 DEF NoFramesYet, server
    <3>7. UpgradeBeforeFrames'
      <4>1. Range(HttpHeader) \subseteq {HeaderPart}
        <5>1. DOMAIN HttpHeader = {1, 2} /\ HttpHeader[1] = HeaderPart
              /\ HttpHeader[2] = HeaderPart
          BY DEF HttpHeader
        <5> QED
          BY <5>1 DEF Range
      <4>2. Range(wire'["client"]) \subseteq {HeaderPart} /\ Len(wire'["client"]) \in 0 .. 2
        BY <1>3, <2>6, <3>2, <3>3, <4>1
      <4>3. Range(wire'["server"]) \subseteq RequestIds
        BY <2>6, <3>2, <3>3
      <4>4. headers'["client"] + Len(wire'["client"]) <= Len(HttpHeader)
        <5>1. \A k \in 0 .. 2 : 0 + k <= 2
          OBVIOUS
        <5> QED
          BY <1>3, <3>4, <4>2, <5>1
      <4> QED
        BY <3>4, <4>2, <4>3, <4>4 DEF UpgradeBeforeFrames, Sides
    <3> QED
      BY <1>9, <2>5, <3>3, <3>5, <3>6, <3>7 DEF HInv, Handshake
  <2>8. CASE s = "client"
    <3>1. wsstate["server"] = "WS" /\ wire["server"] = <<>>
      BY <1>6, <1>7, <2>8, EmptyLen DEF ResponseFollowsGet, NoFramesYet, Modes
    <3>2. w = others
      BY <2>8 DEF Response
    <3>3. /\ others["client"] = <<>> /\ others["server"] = <<>>
      BY <1>5, <2>3, <2>8, <3>1, ClientAndServer
    <3>4. /\ QueuesTypeOK' /\ Moved("client", queued["client"] \o sendBuffer["client"], others)
      BY <1>5, <2>1, <2>4, <2>8, <3>2, FlushMoves, ClientAndServer DEF HInv
    <3>5. Range(queued["client"] \o sendBuffer["client"]) \subseteq RequestIds
      BY <2>4, <2>8, RangeConcatenation, RangeOfSeq
    <3>6. \A side \in Sides : Range(wire'[side]) \subseteq RequestIds
      BY <2>6, <3>3, <3>4, <3>5, ClientAndServer DEF Moved
    <3>7. wsstate'["client"] = "WS" /\ wsstate'["server"] = "WS"
      BY <2>2, <2>8, <3>1, ClientAndServer
    <3>8. Modes' /\ GetIsSentOnce' /\ ResponseFollowsGet' /\ NoFramesYet'
      BY <1>9, <3>7 DEF Modes, GetIsSentOnce, ResponseFollowsGet, NoFramesYet
    <3>9. UpgradeBeforeFrames'
      BY <3>6, <3>7 DEF UpgradeBeforeFrames, Sides
    <3> QED
      BY <1>9, <2>5, <3>4, <3>8, <3>9 DEF HInv, Handshake
  <2> QED
    BY <2>7, <2>8 DEF Sides
<1> QED
  BY <1>2, <1>11, <1>12

\* What is left on the wires when the front of one is read.
LEMMA BehindProperties ==
    ASSUME QueuesTypeOK, NEW s \in Sides, wire[s] # <<>>
    PROVE  /\ Behind(s) \in [Sides -> Seq(Tokens)]
           /\ Behind(s)[s] = Tail(wire[s]) /\ Behind(s)[Other(s)] = wire[Other(s)]
           /\ Range(wire[s]) = {Head(wire[s])} \cup Range(Behind(s)[s])
<1>1. wire[s] \in Seq(Tokens)
  BY DEF QueuesTypeOK
<1>2. Tail(wire[s]) \in Seq(Tokens)
      /\ Range(wire[s]) = {Head(wire[s])} \cup Range(Tail(wire[s]))
  BY <1>1, TailProperties
<1> QED
  BY <1>2, OtherSide DEF Behind, QueuesTypeOK

\* A frame arrives: the client is in WS mode, and so are both wires.
LEMMA FrameProperties ==
    ASSUME HInv, NEW s \in Sides, Frame(s)
    PROVE  /\ wsstate["client"] = "WS" /\ wire[s] # <<>> /\ Head(wire[s]) \in RequestIds
           /\ UNCHANGED <<wsstate, headers, due, state, requestId, draining, timers, ended,
                          accepted, socket>>
           /\ \A side \in Sides : Range(Behind(s)[side]) \subseteq RequestIds
<1>1. /\ wsstate[s] = "WS" /\ wire[s] # <<>> /\ Head(wire[s]) \in RequestIds
      /\ UNCHANGED <<wsstate, headers, due, state, requestId, draining, timers, ended,
                     accepted, socket>>
  BY DEF Frame
<1>2. wsstate["client"] = "WS"
  BY <1>1 DEF HInv, Handshake, Modes, NoFramesYet, Sides
<1>3. /\ Behind(s)[Other(s)] = wire[Other(s)]
      /\ Range(Behind(s)[s]) \subseteq Range(wire[s])
  BY <1>1, BehindProperties DEF HInv
<1>4. \A side \in Sides : Range(wire[side]) \subseteq RequestIds
  BY <1>2, UpgradedWires DEF HInv
<1>5. \A side \in Sides : Range(Behind(s)[side]) \subseteq RequestIds
  BY <1>3, <1>4, OtherSide
<1> QED
  BY <1>1, <1>2, <1>5

\* A frame is read at one end; the server may answer with a frame.
LEMMA RcvdHInv == HInv /\ (ServerRcvd \/ ClientRcvd) => HInv'
<1> SUFFICES ASSUME HInv, ServerRcvd \/ ClientRcvd PROVE HInv'
  OBVIOUS
<1>1. CASE ServerRcvd
  <2> DEFINE id == Head(wire["server"])
  <2>1. /\ Frame("server") /\ executed' = executed \cup {id} /\ call' = call
        /\ serving' \in {serving, serving \cup {id}}
        /\ \/ flushSendBuffer("server", Append(sendBuffer["server"], id), Behind("server"))
           \/ wire' = Behind("server") /\ UNCHANGED <<sendBuffer, queued, writeWatch>>
    BY <1>1 DEF ServerRcvd
  <2>2. /\ wsstate["client"] = "WS" /\ id \in RequestIds /\ wire["server"] # <<>>
        /\ UNCHANGED <<wsstate, headers, due, state, requestId, draining, timers, ended,
                       accepted, socket>>
        /\ \A side \in Sides : Range(Behind("server")[side]) \subseteq RequestIds
    BY <2>1, FrameProperties, ClientAndServer
  <2> HIDE DEF id
  <2>3. RestTypeOK'
    BY <2>1, <2>2 DEF HInv, RestTypeOK, timers, socket
  <2>4. /\ sendBuffer["server"] \in Seq(RequestIds)
        /\ Behind("server") \in [Sides -> Seq(Tokens)]
    BY <2>2, BehindProperties, ClientAndServer DEF HInv, QueuesTypeOK
  <2>5. Append(sendBuffer["server"], id) \in Seq(RequestIds)
    BY <2>2, <2>4
  <2>6. UNCHANGED <<wsstate, headers, state, link>>
    BY <2>2 DEF socket
  <2>7. CASE flushSendBuffer("server", Append(sendBuffer["server"], id), Behind("server"))
    <3>1. QueuesTypeOK' /\ Handshake'
      BY <2>2, <2>4, <2>5, <2>6, <2>7, FlushUpgraded, ClientAndServer
    <3> QED
      BY <2>3, <3>1 DEF HInv
  <2>8. CASE wire' = Behind("server") /\ UNCHANGED <<sendBuffer, queued, writeWatch>>
    <3>1. QueuesTypeOK'
      BY <2>4, <2>8 DEF HInv, QueuesTypeOK
    <3>2. Handshake'
      BY <2>2, <2>6, <2>8, UpgradedHandshake, UpgradedWires DEF HInv
    <3> QED
      BY <2>3, <3>1, <3>2 DEF HInv
  <2> QED
    BY <2>1, <2>7, <2>8
<1>2. CASE ClientRcvd
  <2>1. /\ Frame("client") /\ wire' = Behind("client")
        /\ call' = Resumed(Head(wire["client"]))
        /\ UNCHANGED <<sendBuffer, queued, writeWatch, serving, executed>>
    BY <1>2 DEF ClientRcvd
  <2>2. /\ wsstate["client"] = "WS" /\ wire["client"] # <<>>
        /\ UNCHANGED <<wsstate, headers, due, state, requestId, draining, timers, ended,
                       accepted, socket>>
        /\ \A side \in Sides : Range(Behind("client")[side]) \subseteq RequestIds
    BY <2>1, FrameProperties, ClientAndServer
  <2>3. call' \in [RequestIds -> Outcomes]
    BY <2>1 DEF Resumed, Outcomes, HInv, RestTypeOK
  <2>4. RestTypeOK'
    BY <2>1, <2>2, <2>3 DEF HInv, RestTypeOK, timers, socket
  <2>5. Behind("client") \in [Sides -> Seq(Tokens)]
    BY <2>2, BehindProperties, ClientAndServer DEF HInv
  <2>6. QueuesTypeOK'
    BY <2>1, <2>5 DEF HInv, QueuesTypeOK
  <2>7. Handshake'
    BY <2>1, <2>2, UpgradedHandshake, UpgradedWires DEF HInv, socket
  <2> QED
    BY <2>4, <2>6, <2>7 DEF HInv
<1> QED
  BY <1>1, <1>2

\* A servant that ends later answers with a frame.
LEMMA ServerRepliesHInv ==
    ASSUME HInv, NEW id \in RequestIds, ServerReplies(id)
    PROVE  HInv'
<1>1. /\ id \in serving /\ serving' = serving \ {id}
      /\ flushSendBuffer("server", Append(sendBuffer["server"], id), wire)
      /\ UNCHANGED <<wsstate, headers, due, state, calls, timers, ended, accepted,
                     executed, socket>>
  BY DEF ServerReplies
<1>2. wsstate["client"] = "WS"
  BY <1>1 DEF HInv, Handshake, Modes, NoFramesYet
<1>3. Append(sendBuffer["server"], id) \in Seq(RequestIds) /\ wire \in [Sides -> Seq(Tokens)]
  BY ClientAndServer DEF HInv, QueuesTypeOK
<1>4. \A side \in Sides : Range(wire[side]) \subseteq RequestIds
  BY <1>2, UpgradedWires DEF HInv
<1>5. UNCHANGED <<wsstate, headers, state, link>>
  BY <1>1 DEF socket
<1>6. QueuesTypeOK' /\ Handshake'
  BY <1>1, <1>2, <1>3, <1>4, <1>5, FlushUpgraded, ClientAndServer
<1>7. RestTypeOK'
  BY <1>1 DEF HInv, RestTypeOK, calls, timers, socket
<1> QED
  BY <1>6, <1>7 DEF HInv

-----------------------------------------------------------------------------
\* Every step keeps the invariant of the upgrade.
LEMMA StepHInv == HInv /\ [Next]_vars => HInv'
<1> SUFFICES ASSUME HInv, [Next]_vars PROVE HInv'
  OBVIOUS
<1>1. CASE TwowayCall \/ OnewayCall \/ DrainStep
  BY <1>1, CallHInv
<1>2. CASE \/ \E s \in Sides : Poll(s)
           \/ Accept \/ ConnectEnds
  BY <1>2, LoopHInv
<1>3. CASE CanWrite
  BY <1>3, CanWriteHttpHInv, CanWriteWsHInv DEF CanWrite
<1>4. CASE CanRead
  BY <1>4, RcvdHInv, HttpRcvdHInv DEF CanRead
<1>5. CASE Timer
  BY <1>5, TimerHInv
<1>6. CASE \E id \in RequestIds : ServerReplies(id)
  BY <1>6, ServerRepliesHInv
<1>7. CASE Reset
  BY <1>7, ResetHInv
<1>8. CASE UNCHANGED vars
  BY <1>8, StutterHInv
<1> QED
  BY <1>1, <1>2, <1>3, <1>4, <1>5, <1>6, <1>7, <1>8 DEF Next

\* Which end is in which mode and what is on the wires, at every time.
THEOREM UpgradeInvariance == Spec => []HInv
  BY InitHInv, StepHInv, PTL DEF Spec

\* The type invariant, for every bound and every environment.
THEOREM TypeCorrect == Spec => []TypeOK
<1>1. HInv => TypeOK
  BY Types DEF HInv
<1> QED
  BY <1>1, UpgradeInvariance, PTL

\* http*Rcvd() throws no frame away and wslay never sees HTTP.
THEOREM UpgradeComesFirst == Spec => []UpgradeBeforeFrames
<1>1. HInv => UpgradeBeforeFrames
  BY ClientAndServer DEF HInv, Handshake, UpgradeBeforeFrames
<1> QED
  BY <1>1, UpgradeInvariance, PTL
=============================================================================
