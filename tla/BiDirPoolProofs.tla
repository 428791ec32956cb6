-------------------------- MODULE BiDirPoolProofs --------------------------
(* A call back never reaches another client than its owner, and the pool    *)
(* knows no client twice, for any number of clients, connections, requests  *)
(* and losses.  The invariant: the name of a client is given only to        *)
(* connections of that client and is given once, for the one request that   *)
(* carries it is the first the client ever makes, and until it is handled   *)
(* nothing has the name.                                                    *)
EXTENDS BiDirPool, SequenceTheorems, TLAPS

Nameless(c) == \A k \in DOMAIN pool : pool[k].remote # Local(c)

\* Until a client has made a request nothing is known of it, and when it has,
\* it has been given a connection.
FirstRequestIsFirst ==
    \A c \in Clients :
        IF didSend[c] THEN \E k \in DOMAIN pool : pool[k].peer = c
        ELSE outbox[c] = <<>> /\ Nameless(c) /\ passed[c] = 0

\* The context is in the first request, and while that has not been handled
\* no connection has the name.
ContextComesFirst ==
    \A c \in Clients : \A i \in DOMAIN outbox[c] :
        outbox[c][i].context => i = 1 /\ Nameless(c) /\ passed[c] = 0

\* The connection at the other end of a client's socket.
SocketIsOwn ==
    \A c \in Clients : socket[c] # 0 =>
        /\ pool[socket[c]].live /\ pool[socket[c]].peer = c
        /\ pool[socket[c]].remote \in {PeerName(socket[c]), Local(c)}

NameIsOwners ==
    \A c \in Clients, k \in DOMAIN pool : pool[k].remote = Local(c) => pool[k].peer = c

StubIsNamed == \A c \in Clients : stub[c] # 0 => pool[stub[c]].remote = Local(c)

\* On its first socket a client's context is on its way or has arrived.
FirstSocketIsNamed ==
    \A c \in Clients \ NamedByAddress :
        FirstSocket(c) => \/ outbox[c] # <<>> /\ outbox[c][1].context
                          \/ pool[socket[c]].remote = Local(c)

IInv == /\ TypeOK
        /\ CallBackReachesOwner
        /\ NameIsUnique
        /\ FirstSocketIsBidirectional
        /\ FirstRequestIsFirst
        /\ ContextComesFirst
        /\ SocketIsOwn
        /\ NameIsOwners
        /\ StubIsNamed
        /\ FirstSocketIsNamed

-----------------------------------------------------------------------------
\* Names tell clients apart, and no name is what getPeerName() says.
LEMMA NamesDiffer ==
    /\ \A c, d \in Clients : Local(c) = Local(d) => c = d
    /\ \A n : \A c \in Clients : Local(c).port # PeerName(n).port
    /\ \A n : \A c \in Clients \ NamedByAddress : Local(c).host # PeerName(n).host
<1>1. ASSUME NEW c, NEW d
      PROVE  /\ <<"uuid", c>> = <<"uuid", d>> => c = d
             /\ <<"listen", c>> = <<"listen", d>> => c = d
             /\ <<"CORBA_LOC_PORT">> # <<"listen", c>>
             /\ <<"CORBA_LOC_PORT">> # <<"ephemeral", c>>
             /\ <<"listen", c>> # <<"ephemeral", d>>
             /\ <<"uuid", c>> # <<"address">> /\ <<"name", c>> # <<"address">>
  <2>1. /\ <<"uuid", c>>[2] = c /\ <<"uuid", d>>[2] = d
        /\ <<"listen", c>>[2] = c /\ <<"listen", d>>[2] = d
        /\ <<"listen", c>>[1] = "listen" /\ <<"ephemeral", d>>[1] = "ephemeral"
        /\ Len(<<"CORBA_LOC_PORT">>) = 1 /\ Len(<<"address">>) = 1
        /\ Len(<<"listen", c>>) = 2 /\ Len(<<"ephemeral", c>>) = 2
        /\ Len(<<"uuid", c>>) = 2 /\ Len(<<"name", c>>) = 2
    OBVIOUS
  <2> QED
    BY <2>1
<1>2. ASSUME NEW c \in Clients, NEW d \in Clients, Local(c) = Local(d) PROVE c = d
  <2>1. Local(c).port = Local(d).port /\ Local(c).host = Local(d).host
    BY <1>2
  <2> QED
    BY <1>1, <2>1 DEF Local, HostAndPort
<1>3. ASSUME NEW c \in Clients, NEW n PROVE Local(c).port # PeerName(n).port
  BY <1>1 DEF Local, HostAndPort, PeerName
<1>4. ASSUME NEW c \in Clients \ NamedByAddress, NEW n
      PROVE  Local(c).host # PeerName(n).host
  BY <1>1 DEF Local, HostAndPort, PeerName
<1> QED
  BY <1>2, <1>3, <1>4

LEMMA PoolFacts ==
    ASSUME TypeOK
    PROVE  /\ Len(pool) \in Nat /\ DOMAIN pool = 1 .. Len(pool)
           /\ \A k \in DOMAIN pool : pool[k] \in Connections
           /\ \A c \in Clients : /\ Local(c) \in {Local(d) : d \in Clients}
                                 /\ socket[c] # 0 => socket[c] \in DOMAIN pool
                                 /\ stub[c] # 0 => stub[c] \in DOMAIN pool
                                 /\ DOMAIN outbox[c] = 1 .. Len(outbox[c])
                                 /\ Len(outbox[c]) \in Nat
  BY DEF TypeOK

LEMMA InitIInv == Init => IInv
<1> SUFFICES ASSUME Init PROVE IInv
  OBVIOUS
<1>1. TypeOK
  BY ConstantsAssumption DEF Init, TypeOK
<1>2. /\ CallBackReachesOwner /\ NameIsUnique /\ FirstSocketIsBidirectional
      /\ FirstRequestIsFirst /\ ContextComesFirst /\ SocketIsOwn /\ NameIsOwners
      /\ StubIsNamed /\ FirstSocketIsNamed
  BY DEF Init, CallBackReachesOwner, NameIsUnique, FirstSocketIsBidirectional,
         FirstSocket, FirstRequestIsFirst, Nameless, ContextComesFirst, SocketIsOwn,
         NameIsOwners, StubIsNamed, FirstSocketIsNamed
<1> QED
  BY <1>1, <1>2 DEF IInv

\* What Append does to a queue or the pool.
LEMMA AppendFacts ==
    ASSUME NEW S, NEW q \in Seq(S), NEW m \in S
    PROVE  /\ Append(q, m) \in Seq(S) /\ Append(q, m) # <<>>
           /\ Len(q) \in Nat /\ Len(Append(q, m)) = Len(q) + 1
           /\ DOMAIN q = 1 .. Len(q) /\ DOMAIN Append(q, m) = 1 .. Len(q) + 1
           /\ \A i \in 1 .. Len(q) : Append(q, m)[i] = q[i]
           /\ Append(q, m)[Len(q) + 1] = m
           /\ q # <<>> => 1 \in DOMAIN q
           /\ q = <<>> => Len(q) = 0
  OBVIOUS

\* What a request adds to the queue of its client.
LEMMA QueueGrows ==
    ASSUME TypeOK, NEW c \in Clients, NEW withReference \in BOOLEAN,
           Request(c, withReference)
    PROVE  /\ outbox' \in [Clients -> Seq([context : BOOLEAN, reference : BOOLEAN])]
           /\ \A d \in Clients : \A i \in DOMAIN outbox'[d] :
                 \/ i \in DOMAIN outbox[d] /\ outbox'[d][i] = outbox[d][i]
                 \/ /\ d = c /\ i = Len(outbox[c]) + 1
                    /\ outbox'[d][i].context = ~didSend[c]
           /\ \A d \in Clients : outbox[d] # <<>> =>
                 outbox'[d] # <<>> /\ outbox'[d][1] = outbox[d][1]
           /\ outbox[c] = <<>> => outbox'[c] # <<>> /\ outbox'[c][1].context = ~didSend[c]
<1> DEFINE m == [context |-> ~didSend[c], reference |-> withReference]
<1>1. /\ m \in [context : BOOLEAN, reference : BOOLEAN]
      /\ m.context = ~didSend[c]
  BY DEF TypeOK
<1>2. outbox' = [outbox EXCEPT ![c] = Append(@, m)]
  BY DEF Request
<1> HIDE DEF m
<1>3. ASSUME NEW d \in Clients
      PROVE  /\ outbox[d] \in Seq([context : BOOLEAN, reference : BOOLEAN])
             /\ outbox'[d] = IF d = c THEN Append(outbox[d], m) ELSE outbox[d]
  BY <1>2 DEF TypeOK
<1>4. outbox' \in [Clients -> Seq([context : BOOLEAN, reference : BOOLEAN])]
  BY <1>1, <1>2 DEF TypeOK
<1>5. ASSUME NEW d \in Clients, d # c
      PROVE  outbox'[d] = outbox[d]
  BY <1>3, <1>5
<1>6. /\ \A i \in DOMAIN outbox'[c] : \/ i \in DOMAIN outbox[c] /\ outbox'[c][i] = outbox[c][i]
                                      \/ i = Len(outbox[c]) + 1 /\ outbox'[c][i] = m
      /\ outbox[c] # <<>> => outbox'[c] # <<>> /\ outbox'[c][1] = outbox[c][1]
      /\ outbox[c] = <<>> => outbox'[c] # <<>> /\ outbox'[c][1] = m
  <2>1. outbox[c] \in Seq([context : BOOLEAN, reference : BOOLEAN])
        /\ outbox'[c] = Append(outbox[c], m)
    BY <1>3
  <2> QED
    BY <1>1, <2>1, AppendFacts
<1> QED
  BY <1>1, <1>4, <1>5, <1>6

\* What it does to the pool: it keeps its connections and may get one more.
LEMMA RequestedPool ==
    ASSUME TypeOK, NEW c \in Clients, NEW withReference \in BOOLEAN,
           Request(c, withReference)
    PROVE  LET n == Len(pool) + 1 IN
           /\ pool' \in Seq(Connections) /\ Len(pool') <= MaxPool
           /\ Len(pool') \in Nat /\ Len(pool) \in Nat /\ Len(pool) <= Len(pool')
           /\ \A k \in 1 .. Len(pool) : pool'[k] = pool[k]
           /\ \A k \in 1 .. Len(pool') :
                 k \in 1 .. Len(pool) \/ (k = n /\ pool'[k].remote = PeerName(n))
           /\ socket' \in [Clients -> 0 .. Len(pool')]
           /\ \A d \in Clients : d # c \/ socket[c] # 0 => socket'[d] = socket[d]
           /\ socket[c] = 0 => /\ socket'[c] = n /\ n \in 1 .. Len(pool')
                               /\ pool'[n].live /\ pool'[n].peer = c
                               /\ pool'[n].remote = PeerName(n)
<1> DEFINE n == Len(pool) + 1
<1>1. pool \in Seq(Connections) /\ Len(pool) \in Nat /\ socket \in [Clients -> 0 .. Len(pool)]
      /\ Len(pool) <= MaxPool
  BY DEF TypeOK
<1>2. CASE socket[c] = 0
  <2>1. /\ Len(pool) < MaxPool /\ pool' = Append(pool, Incoming(c))
        /\ socket' = [socket EXCEPT ![c] = n]
    BY <1>2 DEF Request
  <2>2. n \in 1 .. MaxPool
    BY <1>1, <2>1, ConstantsAssumption
  <2>3. /\ Incoming(c) \in Connections
        /\ Incoming(c).remote = PeerName(n) /\ Incoming(c).peer = c /\ Incoming(c).live
    BY <2>2 DEF Incoming, Connections
  <2>4. /\ pool' \in Seq(Connections) /\ Len(pool') = n
        /\ \A k \in 1 .. Len(pool) : pool'[k] = pool[k]
        /\ pool'[n] = Incoming(c)
    BY <1>1, <2>1, <2>3, AppendFacts
  <2>5. /\ socket' \in [Clients -> 0 .. n] /\ socket'[c] = n
        /\ \A d \in Clients : d # c => socket'[d] = socket[d]
    BY <1>1, <2>1
  <2> HIDE DEF n
  <2>6. /\ n \in Nat /\ n \in 1 .. n /\ Len(pool) <= n /\ n <= MaxPool
        /\ \A k \in 1 .. n : k \in 1 .. Len(pool) \/ k = n
    BY <1>1, <2>2 DEF n
  <2>7. /\ Len(pool') \in Nat /\ Len(pool) <= Len(pool') /\ Len(pool') <= MaxPool
        /\ socket' \in [Clients -> 0 .. Len(pool')]
    BY <2>4, <2>5, <2>6
  <2>8. \A k \in 1 .. Len(pool') :
            k \in 1 .. Len(pool) \/ (k = n /\ pool'[k].remote = PeerName(n))
    BY <2>3, <2>4, <2>6
  <2>9. n \in 1 .. Len(pool') /\ pool'[n].live /\ pool'[n].peer = c
        /\ pool'[n].remote = PeerName(n)
    BY <2>3, <2>4, <2>6
  <2> QED
    BY <1>1, <1>2, <2>4, <2>5, <2>7, <2>8, <2>9 DEF n
<1>3. CASE socket[c] # 0
  <2>1. pool' = pool /\ socket' = socket
    BY <1>3 DEF Request
  <2> QED
    BY <1>1, <1>3, <2>1
<1> QED
  BY <1>2, <1>3

LEMMA RequestIInv ==
    ASSUME IInv, NEW c \in Clients, NEW withReference \in BOOLEAN,
           Request(c, withReference)
    PROVE  IInv'
<1> DEFINE n == Len(pool) + 1
           connects == socket[c] = 0
<1>1. TypeOK
  BY DEF IInv
<1>2. /\ Len(pool) \in Nat /\ DOMAIN pool = 1 .. Len(pool)
      /\ Len(pool') \in Nat /\ DOMAIN pool' = 1 .. Len(pool')
      /\ \A k \in DOMAIN pool : k \in DOMAIN pool' /\ pool'[k] = pool[k]
      /\ \A d \in Clients : socket[d] # 0 => socket[d] \in DOMAIN pool
      /\ \A d \in Clients : stub[d] # 0 => stub[d] \in DOMAIN pool
  <2>1. pool' \in Seq(Connections) /\ Len(pool') \in Nat /\ Len(pool) <= Len(pool')
    BY <1>1, RequestedPool
  <2>2. DOMAIN pool' = 1 .. Len(pool')
    BY <2>1
  <2>3. /\ Len(pool) \in Nat /\ DOMAIN pool = 1 .. Len(pool)
        /\ \A d \in Clients : socket[d] # 0 => socket[d] \in DOMAIN pool
        /\ \A d \in Clients : stub[d] # 0 => stub[d] \in DOMAIN pool
    BY <1>1, PoolFacts
  <2>4. \A k \in 1 .. Len(pool) : pool'[k] = pool[k]
    BY <1>1, RequestedPool
  <2>5. \A k \in DOMAIN pool : k \in DOMAIN pool'
    BY <2>1, <2>2, <2>3
  <2> QED
    BY <2>1, <2>2, <2>3, <2>4, <2>5
<1>3. /\ \A d \in Clients : ~(d = c /\ connects) => socket'[d] = socket[d]
      /\ connects => /\ socket'[c] = n /\ n \in DOMAIN pool'
                     /\ pool'[n].live /\ pool'[n].peer = c /\ pool'[n].remote = PeerName(n)
  BY <1>1, <1>2, RequestedPool
<1>4. ASSUME NEW d \in Clients, NEW k \in DOMAIN pool', pool'[k].remote = Local(d)
      PROVE  k \in DOMAIN pool /\ pool[k].remote = Local(d)
  <2>1. Local(d) # PeerName(n)
    BY NamesDiffer
  <2>2. k \in DOMAIN pool \/ pool'[k].remote = PeerName(n)
    BY <1>1, <1>2, RequestedPool
  <2> QED
    BY <1>2, <1>4, <2>1, <2>2
<1>5. /\ didSend' = [didSend EXCEPT ![c] = TRUE]
      /\ UNCHANGED <<stub, passed, reached>>
  BY DEF Request
<1>0. \A d \in Clients : \A i \in DOMAIN outbox'[d] :
          \/ i \in DOMAIN outbox[d] /\ outbox'[d][i] = outbox[d][i]
          \/ d = c /\ i = Len(outbox[c]) + 1 /\ outbox'[d][i].context = ~didSend[c]
  BY <1>1, QueueGrows
<1> HIDE DEF n, connects
<1>6. TypeOK'
  <2>1. outbox' \in [Clients -> Seq([context : BOOLEAN, reference : BOOLEAN])]
    BY <1>1, QueueGrows
  <2>2. /\ pool' \in Seq(Connections) /\ Len(pool') <= MaxPool
        /\ 0 .. Len(pool) \subseteq 0 .. Len(pool')
        /\ socket' \in [Clients -> 0 .. Len(pool')]
    BY <1>1, RequestedPool
  <2>3. /\ didSend' \in [Clients -> BOOLEAN]
        /\ stub' \in [Clients -> 0 .. Len(pool)] /\ passed' \in [Clients -> 0 .. Len(pool)]
        /\ reached' \in {Nobody} \cup (Clients \X Clients)
    BY <1>1, <1>5 DEF TypeOK
  <2>4. stub' \in [Clients -> 0 .. Len(pool')] /\ passed' \in [Clients -> 0 .. Len(pool')]
    BY <2>2, <2>3
  <2> QED
    BY <2>1, <2>2, <2>3, <2>4 DEF TypeOK
<1>7. CallBackReachesOwner' /\ NameIsUnique' /\ NameIsOwners'
  BY <1>2, <1>3, <1>4, <1>5 DEF IInv, CallBackReachesOwner, NameIsUnique, NameIsOwners
<1>8. StubIsNamed'
  BY <1>2, <1>3, <1>5 DEF IInv, StubIsNamed
<1>9. SocketIsOwn'
  <2> SUFFICES ASSUME NEW d \in Clients, socket'[d] # 0
               PROVE  /\ pool'[socket'[d]].live /\ pool'[socket'[d]].peer = d
                      /\ pool'[socket'[d]].remote \in {PeerName(socket'[d]), Local(d)}
    BY DEF SocketIsOwn
  <2>1. CASE d = c /\ connects
    BY <1>1, <1>3, <2>1 DEF TypeOK
  <2>2. CASE ~(d = c /\ connects)
    <3>1. socket'[d] = socket[d]
      BY <1>3, <2>2
    <3> QED
      BY <1>2, <3>1 DEF IInv, SocketIsOwn
  <2> QED
    BY <2>1, <2>2
<1>10. FirstRequestIsFirst'
  <2> SUFFICES ASSUME NEW d \in Clients
               PROVE  IF didSend'[d] THEN \E k \in DOMAIN pool' : pool'[k].peer = d
                      ELSE outbox'[d] = <<>> /\ Nameless(d)' /\ passed'[d] = 0
    BY DEF FirstRequestIsFirst
  <2>1. CASE d = c
    <3>1. didSend'[d]
      BY <1>1, <1>5, <2>1 DEF TypeOK
    <3>2. CASE connects
      BY <1>3, <2>1, <3>1, <3>2
    <3>3. CASE ~connects
      <4>1. socket[c] \in DOMAIN pool /\ pool[socket[c]].peer = c
        BY <1>2, <3>3 DEF IInv, SocketIsOwn, connects
      <4> QED
        BY <1>2, <2>1, <3>1, <4>1
    <3> QED
      BY <3>2, <3>3
  <2>2. CASE d # c
    <3>1. didSend'[d] = didSend[d] /\ outbox'[d] = outbox[d] /\ passed'[d] = passed[d]
      BY <1>1, <1>5, <2>2 DEF Request, TypeOK
    <3>2. CASE didSend[d]
      BY <1>2, <3>1, <3>2 DEF IInv, FirstRequestIsFirst
    <3>3. CASE ~didSend[d]
      <4>1. Nameless(d)'
        BY <1>4, <3>3 DEF IInv, FirstRequestIsFirst, Nameless
      <4> QED
        BY <3>1, <3>3, <4>1 DEF IInv, FirstRequestIsFirst
    <3> QED
      BY <3>2, <3>3
  <2> QED
    BY <2>1, <2>2
<1>11. ContextComesFirst'
  <2> SUFFICES ASSUME NEW d \in Clients, NEW i \in DOMAIN outbox'[d],
                      outbox'[d][i].context
               PROVE  i = 1 /\ Nameless(d)' /\ passed'[d] = 0
    BY DEF ContextComesFirst
  <2>1. /\ i = 1 /\ Nameless(d) /\ passed[d] = 0
    <3>1. CASE i \in DOMAIN outbox[d] /\ outbox'[d][i] = outbox[d][i]
      BY <3>1 DEF IInv, ContextComesFirst
    <3>2. CASE d = c /\ i = Len(outbox[c]) + 1 /\ outbox'[d][i].context = ~didSend[c]
      <4>1. outbox[d] = <<>> /\ Nameless(d) /\ passed[d] = 0
        BY <3>2 DEF IInv, FirstRequestIsFirst
      <4> QED
        BY <3>2, <4>1
    <3> QED
      BY <1>0, <3>1, <3>2
  <2> QED
    BY <1>4, <1>5, <2>1 DEF Nameless
<1>12. ASSUME NEW d \in Clients, FirstSocket(d)', ~(d = c /\ connects)
       PROVE  FirstSocket(d) /\ socket'[d] = socket[d]
  <2>1. socket'[d] = socket[d] /\ socket[d] # 0 /\ socket[d] \in DOMAIN pool
    BY <1>1, <1>2, <1>3, <1>12 DEF FirstSocket, TypeOK
  <2>2. \A k \in 1 .. socket[d] - 1 : k \in DOMAIN pool
    BY <1>2, <2>1
  <2> QED
    BY <1>2, <1>12, <2>1, <2>2 DEF FirstSocket
<1>13. FirstSocketIsNamed'
  <2> SUFFICES ASSUME NEW d \in Clients \ NamedByAddress, FirstSocket(d)'
               PROVE  \/ outbox'[d] # <<>> /\ outbox'[d][1].context
                      \/ pool'[socket'[d]].remote = Local(d)
    BY DEF FirstSocketIsNamed
  <2>1. CASE d = c /\ connects
    <3>1. socket'[c] = n /\ \A k \in DOMAIN pool : pool[k].peer # c
      <4>1. socket'[c] = n
        BY <1>1, <1>3, <2>1 DEF TypeOK
      <4>2. \A k \in DOMAIN pool : k \in 1 .. n - 1
        BY <1>2 DEF n
      <4> QED
        BY <1>2, <2>1, <4>1, <4>2 DEF FirstSocket
    <3>2. ~didSend[c] /\ outbox[c] = <<>>
      BY <3>1 DEF IInv, FirstRequestIsFirst
    <3> QED
      BY <1>1, <2>1, <3>2, QueueGrows
  <2>2. CASE ~(d = c /\ connects)
    <3>1. FirstSocket(d) /\ socket'[d] = socket[d] /\ socket[d] \in DOMAIN pool
      BY <1>2, <1>12, <2>2 DEF FirstSocket
    <3>2. CASE outbox[d] # <<>> /\ outbox[d][1].context
      BY <1>1, <3>2, QueueGrows
    <3>3. CASE pool[socket[d]].remote = Local(d)
      BY <1>2, <3>1, <3>3
    <3> QED
      BY <3>1, <3>2, <3>3 DEF IInv, FirstSocketIsNamed
  <2> QED
    BY <2>1, <2>2
<1>14. FirstSocketIsBidirectional'
  <2> SUFFICES ASSUME NEW d \in Clients \ NamedByAddress, FirstSocket(d)',
                      passed'[d] = socket'[d]
               PROVE  stub'[d] = socket'[d]
    BY DEF FirstSocketIsBidirectional
  <2>1. CASE d = c /\ connects
    <3>1. socket'[c] = n /\ passed[c] \in 0 .. Len(pool)
      BY <1>1, <1>3, <2>1 DEF TypeOK
    <3> QED
      BY <1>2, <1>5, <2>1, <3>1 DEF n
  <2>2. CASE ~(d = c /\ connects)
    BY <1>5, <1>12, <2>2 DEF IInv, FirstSocketIsBidirectional
  <2> QED
    BY <2>1, <2>2
<1> QED
  BY <1>6, <1>7, <1>8, <1>9, <1>10, <1>11, <1>13, <1>14 DEF IInv

\* What replacing one connection does to the pool.
LEMMA ReplaceFacts ==
    ASSUME TypeOK, NEW k \in 1 .. Len(pool), NEW x \in Connections
    PROVE  LET p == [pool EXCEPT ![k] = x] IN
           /\ p \in Seq(Connections) /\ Len(p) = Len(pool) /\ p[k] = x
           /\ DOMAIN p = 1 .. Len(pool)
           /\ \A j \in 1 .. Len(pool) : j # k => p[j] = pool[j]
  BY DEF TypeOK

\* The pool changes neither names nor peers.
SameConnections ==
    /\ pool' \in Seq(Connections) /\ Len(pool') = Len(pool) /\ DOMAIN pool' = DOMAIN pool
    /\ \A k \in DOMAIN pool : pool'[k].remote = pool[k].remote /\ pool'[k].peer = pool[k].peer

\* What is left of a queue when the kernel had taken its first requests.
LEMMA DropFirst ==
    ASSUME NEW S, NEW q \in Seq(S), NEW taken \in 0 .. Len(q)
    PROVE  LET left == SubSeq(q, taken + 1, Len(q)) IN
           /\ left \in Seq(S)
           /\ q = <<>> => left = <<>>
           /\ \A i \in DOMAIN left :
                  i \in Nat \ {0} /\ taken + i \in DOMAIN q /\ left[i] = q[taken + i]
<1> DEFINE left == SubSeq(q, taken + 1, Len(q))
<1>1. /\ Len(q) \in Nat /\ DOMAIN q = 1 .. Len(q) /\ \A i \in 1 .. Len(q) : q[i] \in S
      /\ taken \in Nat /\ taken <= Len(q)
  OBVIOUS
<1>2. /\ left \in Seq(S)
      /\ Len(left) = IF taken + 1 <= Len(q) THEN Len(q) - (taken + 1) + 1 ELSE 0
      /\ \A i \in 1 .. Len(q) - (taken + 1) + 1 : left[i] = q[taken + 1 + i - 1]
  <2>1. taken + 1 \in Int /\ Len(q) \in Int /\ \A i \in taken + 1 .. Len(q) : q[i] \in S
    BY <1>1
  <2> QED
    BY <2>1, SubSeqProperties
<1> HIDE DEF left
<1>3. Len(left) = Len(q) - taken /\ DOMAIN left = 1 .. Len(left)
  <2>1. Len(left) = Len(q) - taken
    <3>1. Len(left) = IF taken + 1 <= Len(q) THEN Len(q) - (taken + 1) + 1 ELSE 0
      BY <1>2
    <3>2. Len(q) \in Nat /\ taken \in Nat /\ taken <= Len(q)
      BY <1>1
    <3> QED
      BY ONLY <3>1, <3>2
  <2>2. DOMAIN left = 1 .. Len(left)
    BY <1>2
  <2> QED
    BY <2>1, <2>2
<1>4. q = <<>> => left = <<>>
  BY <1>1, <1>2, <1>3
<1>5. ASSUME NEW i \in DOMAIN left
      PROVE  i \in Nat \ {0} /\ taken + i \in DOMAIN q /\ left[i] = q[taken + i]
  <2>1. i \in Nat \ {0} /\ i <= Len(q) - taken
    BY <1>1, <1>3
  <2>2. i \in 1 .. Len(q) - (taken + 1) + 1 /\ taken + 1 + i - 1 = taken + i
    BY <1>1, <2>1
  <2>3. left[i] = q[taken + i]
    BY <1>2, <2>2
  <2> QED
    BY <1>1, <2>1, <2>3
<1> QED
  BY <1>2, <1>4, <1>5 DEF left

\* Of a function that is changed at one argument.
LEMMA ChangedAt ==
    ASSUME NEW D, NEW R, NEW f \in [D -> R], NEW c \in D, NEW x \in R,
           NEW g, g = [f EXCEPT ![c] = x]
    PROVE  g \in [D -> R] /\ g[c] = x /\ \A d \in D : d # c => g[d] = f[d]
  OBVIOUS

\* In Reset() the connection of the socket has no socket any more.
LEMMA ResetIInv ==
    ASSUME IInv, NEW c \in Clients, Reset(c)
    PROVE  IInv'
<1>1. TypeOK /\ socket[c] \in DOMAIN pool /\ DOMAIN pool = 1 .. Len(pool)
  BY PoolFacts DEF IInv, Reset
<1>2. SameConnections /\ \A k \in DOMAIN pool : k # socket[c] => pool'[k] = pool[k]
  <2> DEFINE x == [pool[socket[c]] EXCEPT !.live = FALSE]
  <2>1. pool' = [pool EXCEPT ![socket[c]] = x]
    BY DEF Reset
  <2>2. pool[socket[c]] \in Connections
    BY <1>1, PoolFacts
  <2>3. /\ x \in Connections
        /\ x.remote = pool[socket[c]].remote /\ x.peer = pool[socket[c]].peer
    BY <2>2 DEF Connections
  <2> HIDE DEF x
  <2> QED
    BY <1>1, <2>1, <2>3, ReplaceFacts DEF SameConnections
<1>3. /\ socket' = [socket EXCEPT ![c] = 0]
      /\ UNCHANGED <<didSend, stub, passed, reached>>
  BY DEF Reset
<1>4. socket'[c] = 0 /\ \A d \in Clients : d # c => socket'[d] = socket[d]
  BY <1>1, <1>3 DEF TypeOK
<1> DEFINE Requests == [context : BOOLEAN, reference : BOOLEAN]
<1>5. PICK taken \in 0 .. Len(outbox[c]) :
           outbox' = [outbox EXCEPT ![c] = SubSeq(outbox[c], taken + 1, Len(outbox[c]))]
  BY DEF Reset
<1>6. outbox \in [Clients -> Seq(Requests)] /\ outbox[c] \in Seq(Requests)
  BY <1>1 DEF TypeOK
<1> DEFINE left == SubSeq(outbox[c], taken + 1, Len(outbox[c]))
<1> HIDE DEF Requests
<1>7. /\ left \in Seq(Requests)
      /\ outbox[c] = <<>> => left = <<>>
  BY <1>6, DropFirst
<1>8. ASSUME NEW i \in DOMAIN left
      PROVE  i \in Nat \ {0} /\ taken + i \in DOMAIN outbox[c] /\ left[i] = outbox[c][taken + i]
  BY <1>6, DropFirst
<1>9. outbox' = [outbox EXCEPT ![c] = left]
  BY <1>5
<1> HIDE DEF left
<1>10. /\ outbox' \in [Clients -> Seq(Requests)]
       /\ outbox'[c] = left /\ \A d \in Clients : d # c => outbox'[d] = outbox[d]
  BY ONLY <1>6, <1>7, <1>9, c \in Clients, ChangedAt
<1>11. TypeOK'
  <2>1. socket' \in [Clients -> 0 .. Len(pool)]
    BY <1>1, <1>3 DEF TypeOK
  <2>2. outbox' \in [Clients -> Seq([context : BOOLEAN, reference : BOOLEAN])]
    BY <1>10 DEF Requests
  <2> QED
    BY <1>1, <1>2, <1>3, <2>1, <2>2 DEF TypeOK, SameConnections
<1>12. CallBackReachesOwner' /\ NameIsUnique' /\ NameIsOwners'
  BY <1>2, <1>3 DEF IInv, CallBackReachesOwner, NameIsUnique, NameIsOwners, SameConnections
<1>13. StubIsNamed'
  BY <1>1, <1>2, <1>3, PoolFacts DEF IInv, StubIsNamed, SameConnections
<1>14. SocketIsOwn'
  <2> SUFFICES ASSUME NEW d \in Clients, socket'[d] # 0
               PROVE  /\ pool'[socket'[d]].live /\ pool'[socket'[d]].peer = d
                      /\ pool'[socket'[d]].remote \in {PeerName(socket'[d]), Local(d)}
    BY DEF SocketIsOwn
  <2>1. d # c /\ socket'[d] = socket[d] /\ socket[d] \in DOMAIN pool
    BY <1>1, <1>4, PoolFacts
  <2>2. socket[d] # socket[c]
    BY <1>3, <2>1 DEF IInv, SocketIsOwn, Reset
  <2> QED
    BY <1>2, <2>1, <2>2 DEF IInv, SocketIsOwn
<1>15. \A d \in Clients : Nameless(d) => Nameless(d)'
  BY <1>2 DEF Nameless, SameConnections
<1>16. FirstRequestIsFirst'
  <2>1. \A d \in Clients : outbox[d] = <<>> => outbox'[d] = <<>>
    BY <1>7, <1>10
  <2> QED
    BY <1>2, <1>3, <1>15, <2>1 DEF IInv, FirstRequestIsFirst, SameConnections
<1>17. ContextComesFirst'
  <2> SUFFICES ASSUME NEW d \in Clients, NEW i \in DOMAIN outbox'[d], outbox'[d][i].context
               PROVE  i = 1 /\ Nameless(d)' /\ passed'[d] = 0
    BY DEF ContextComesFirst
  <2>1. CASE d # c
    BY <1>3, <1>15, <1>10, <2>1 DEF IInv, ContextComesFirst
  <2>2. CASE d = c
    <3>1. i \in DOMAIN left /\ outbox'[d][i] = left[i]
      BY <1>10, <2>2
    <3>2. taken + i = 1 /\ Nameless(c) /\ passed[c] = 0
      BY <1>8, <3>1 DEF IInv, ContextComesFirst
    <3>3. i \in Nat \ {0} /\ taken \in Nat
      BY <1>6, <1>8, <3>1
    <3>4. i = 1
      BY <3>2, <3>3
    <3> QED
      BY <1>3, <1>15, <2>2, <3>2, <3>4
  <2> QED
    BY <2>1, <2>2
<1>18. ASSUME NEW d \in Clients, FirstSocket(d)'
       PROVE  d # c /\ FirstSocket(d) /\ socket'[d] = socket[d] /\ socket[d] \in DOMAIN pool
  <2>1. d # c /\ socket'[d] = socket[d] /\ socket[d] \in DOMAIN pool
    BY <1>1, <1>4, <1>18, PoolFacts DEF FirstSocket
  <2>2. \A k \in 1 .. socket[d] - 1 : k \in DOMAIN pool
    BY <1>1, <2>1 DEF TypeOK
  <2> QED
    BY <1>2, <1>18, <2>1, <2>2 DEF FirstSocket, SameConnections
<1>19. FirstSocketIsNamed' /\ FirstSocketIsBidirectional'
  <2>1. FirstSocketIsNamed'
    <3> SUFFICES ASSUME NEW d \in Clients \ NamedByAddress, FirstSocket(d)'
                 PROVE  \/ outbox'[d] # <<>> /\ outbox'[d][1].context
                        \/ pool'[socket'[d]].remote = Local(d)
      BY DEF FirstSocketIsNamed
    <3>1. d # c /\ FirstSocket(d) /\ socket'[d] = socket[d] /\ socket[d] \in DOMAIN pool
      BY <1>18
    <3>2. outbox'[d] = outbox[d] /\ pool'[socket[d]].remote = pool[socket[d]].remote
      BY <1>2, <1>10, <3>1 DEF SameConnections
    <3> QED
      BY <3>1, <3>2 DEF IInv, FirstSocketIsNamed
  <2>2. FirstSocketIsBidirectional'
    BY <1>3, <1>18 DEF IInv, FirstSocketIsBidirectional
  <2> QED
    BY <2>1, <2>2
<1> QED
  BY <1>11, <1>12, <1>13, <1>14, <1>16, <1>17, <1>19 DEF IInv

\* Whoever answers a call back, the connection keeps its peer.
LEMMA CallBackIInv ==
    ASSUME IInv, NEW c \in Clients, CallBack(c)
    PROVE  IInv'
<1> DEFINE k == stub[c]
<1>1. TypeOK /\ k \in DOMAIN pool /\ DOMAIN pool = 1 .. Len(pool)
  BY PoolFacts DEF IInv, CallBack
<1>2. pool[k].remote = Local(c) /\ pool[k].peer = c
  BY <1>1 DEF IInv, StubIsNamed, NameIsOwners, CallBack
<1>3. /\ SameConnections /\ \A j \in DOMAIN pool : pool[j].live => pool'[j].live
      /\ reached' \in {Nobody, <<c, c>>}
  <2>1. CASE UNCHANGED pool /\ reached' \in {Nobody, <<c, pool[k].peer>>}
    BY <1>1, <1>2, <2>1 DEF SameConnections, TypeOK
  <2>2. ASSUME NEW d \in Listener(pool[k].remote), reached' = <<c, d>>,
               pool' = [pool EXCEPT ![k].live = TRUE, ![k].peer = d]
        PROVE  <1>3
    <3>1. d = c
      BY <1>2, NamesDiffer, ConstantsAssumption DEF Listener
    <3> DEFINE x == [[pool[k] EXCEPT !.live = TRUE] EXCEPT !.peer = c]
    <3>2. pool[k] \in Connections
      BY <1>1, PoolFacts
    <3>3. x \in Connections /\ x.remote = pool[k].remote /\ x.peer = c /\ x.live
      BY <3>2 DEF Connections
    <3>4. pool' = [pool EXCEPT ![k] = x]
      BY <1>1, <2>2, <3>1, <3>2 DEF TypeOK
    <3> HIDE DEF x
    <3> QED
      BY <1>1, <1>2, <2>2, <3>1, <3>3, <3>4, ReplaceFacts DEF SameConnections
  <2> QED
    BY <2>1, <2>2 DEF CallBack
<1>4. UNCHANGED <<socket, didSend, outbox, stub, passed>>
  BY DEF CallBack
<1>5. TypeOK'
  BY <1>1, <1>3, <1>4 DEF TypeOK, SameConnections
<1>6. CallBackReachesOwner'
  <2>1. <<c, c>>[1] = <<c, c>>[2]
    OBVIOUS
  <2> QED
    BY <1>3, <2>1 DEF CallBackReachesOwner
<1>7. NameIsUnique' /\ NameIsOwners'
  BY <1>3, <1>4 DEF IInv, NameIsUnique, NameIsOwners, SameConnections
<1>8. StubIsNamed' /\ SocketIsOwn'
  BY <1>1, <1>3, <1>4, PoolFacts DEF IInv, StubIsNamed, SocketIsOwn, SameConnections
<1>9. \A d \in Clients : Nameless(d) => Nameless(d)'
  BY <1>3 DEF Nameless, SameConnections
<1>10. FirstRequestIsFirst' /\ ContextComesFirst'
  BY <1>3, <1>4, <1>9 DEF IInv, FirstRequestIsFirst, ContextComesFirst, SameConnections
<1>11. ASSUME NEW d \in Clients, FirstSocket(d)'
       PROVE  FirstSocket(d) /\ socket[d] \in DOMAIN pool
  <2>1. socket[d] # 0 /\ socket[d] \in DOMAIN pool
    BY <1>1, <1>4, <1>11, PoolFacts DEF FirstSocket
  <2>2. \A j \in 1 .. socket[d] - 1 : j \in DOMAIN pool
    BY <1>1, <2>1 DEF TypeOK
  <2> QED
    BY <1>3, <1>4, <1>11, <2>1, <2>2 DEF FirstSocket, SameConnections
<1>12. FirstSocketIsNamed' /\ FirstSocketIsBidirectional'
  BY <1>3, <1>4, <1>11
  DEF IInv, FirstSocketIsNamed, FirstSocketIsBidirectional, SameConnections
<1> QED
  BY <1>5, <1>6, <1>7, <1>8, <1>10, <1>12 DEF IInv

\* What Tail does to a queue.
LEMMA TailFacts ==
    ASSUME NEW S, NEW q \in Seq(S), q # <<>>
    PROVE  /\ Tail(q) \in Seq(S) /\ Head(q) = q[1] /\ q[1] \in S /\ 1 \in DOMAIN q
           /\ \A i \in DOMAIN Tail(q) :
                 i \in Nat \ {0} /\ i + 1 \in DOMAIN q /\ Tail(q)[i] = q[i + 1]
  OBVIOUS

\* What handling a request takes from the queue: no other carries the context.
LEMMA QueueShrinks ==
    ASSUME IInv, NEW c \in Clients, outbox[c] # <<>>,
           outbox' = [outbox EXCEPT ![c] = Tail(@)]
    PROVE  /\ outbox' \in [Clients -> Seq([context : BOOLEAN, reference : BOOLEAN])]
           /\ \A d \in Clients : d # c => outbox'[d] = outbox[d]
           /\ \A i \in DOMAIN outbox'[c] : ~outbox'[c][i].context
           /\ 1 \in DOMAIN outbox[c] /\ Head(outbox[c]) = outbox[c][1]
           /\ outbox[c][1] \in [context : BOOLEAN, reference : BOOLEAN]
<1> DEFINE Messages == [context : BOOLEAN, reference : BOOLEAN]
<1>1. outbox[c] \in Seq(Messages) /\ outbox \in [Clients -> Seq(Messages)]
  BY DEF IInv, TypeOK
<1> HIDE DEF Messages
<1>2. /\ Tail(outbox[c]) \in Seq(Messages)
      /\ \A i \in DOMAIN Tail(outbox[c]) :
            /\ i \in Nat \ {0} /\ i + 1 \in DOMAIN outbox[c]
            /\ Tail(outbox[c])[i] = outbox[c][i + 1]
      /\ 1 \in DOMAIN outbox[c] /\ Head(outbox[c]) = outbox[c][1]
      /\ outbox[c][1] \in Messages
  BY <1>1, TailFacts
<1>3. outbox'[c] = Tail(outbox[c])
  BY <1>1
<1>4. \A i \in DOMAIN outbox'[c] : ~outbox'[c][i].context
  <2> SUFFICES ASSUME NEW i \in DOMAIN Tail(outbox[c]), Tail(outbox[c])[i].context
               PROVE  FALSE
    BY <1>3
  <2>1. i + 1 \in DOMAIN outbox[c] /\ outbox[c][i + 1].context /\ i \in Nat \ {0}
    BY <1>2
  <2>2. i + 1 = 1
    BY <2>1 DEF IInv, ContextComesFirst
  <2> QED
    BY <2>1, <2>2
<1>5. /\ outbox' \in [Clients -> Seq(Messages)]
      /\ \A d \in Clients : d # c => outbox'[d] = outbox[d]
  BY <1>1, <1>2
<1> QED
  BY <1>2, <1>4, <1>5 DEF Messages

\* What it does to the pool: the connection may get the client's name if nothing
\* has it, and so may a new one.
LEMMA DeliveredPool ==
    ASSUME IInv, NEW c \in Clients, Deliver(c)
    PROVE  /\ pool' \in Seq(Connections) /\ Len(pool') <= MaxPool
           /\ Len(pool') \in Nat /\ Len(pool) <= Len(pool') /\ DOMAIN pool' = 1 .. Len(pool')
           /\ \A j \in 1 .. Len(pool) :
                 /\ pool'[j].peer = pool[j].peer /\ pool'[j].live = pool[j].live
                 /\ pool'[j].remote \in {pool[j].remote, Local(c)}
                 /\ pool'[j].remote = pool[j].remote \/ (j = socket[c] /\ Nameless(c))
           /\ \A j \in 1 .. Len(pool') : j \notin 1 .. Len(pool) =>
                 pool'[j].remote = Local(c) /\ pool'[j].peer = c
           /\ \A i, j \in 1 .. Len(pool') :
                 pool'[i].remote = Local(c) /\ pool'[j].remote = Local(c) => i = j
           /\ outbox[c][1].context /\ c \notin NamedByAddress =>
                 pool'[socket[c]].remote = Local(c)
           /\ stub' \in [Clients -> 0 .. Len(pool')]
           /\ \A d \in Clients : d # c => stub'[d] = stub[d]
           /\ IF outbox[c][1].reference
              THEN stub'[c] \in 1 .. Len(pool') /\ pool'[stub'[c]].remote = Local(c)
              ELSE stub' = stub
<1> DEFINE m == outbox[c][1]
           k == socket[c]
           x == [pool[k] EXCEPT !.remote = Renamed(@, Local(c))]
           renamed == IF m.context THEN [pool EXCEPT ![k] = x] ELSE pool
           found == {j \in DOMAIN renamed : renamed[j].remote = Local(c)}
<1>1. /\ TypeOK /\ k # 0 /\ outbox[c] # <<>> /\ k \in 1 .. Len(pool)
      /\ DOMAIN pool = 1 .. Len(pool) /\ Len(pool) \in Nat /\ pool[k] \in Connections
      /\ pool \in Seq(Connections) /\ Len(pool) <= MaxPool
      /\ stub \in [Clients -> 0 .. Len(pool)]
  BY PoolFacts DEF IInv, Deliver, TypeOK
<1>2. /\ 1 \in DOMAIN outbox[c] /\ m \in [context : BOOLEAN, reference : BOOLEAN]
      /\ Head(outbox[c]) = m
  BY <1>1, QueueShrinks DEF Deliver
<1>3. m.context => Nameless(c) /\ pool[k].remote = PeerName(k) /\ pool[k].remote # Local(c)
  BY <1>1, <1>2 DEF IInv, ContextComesFirst, SocketIsOwn, Nameless
<1>4. /\ x \in Connections /\ x.peer = pool[k].peer /\ x.live = pool[k].live
      /\ x.remote \in {pool[k].remote, Local(c)}
      /\ c \notin NamedByAddress /\ pool[k].remote = PeerName(k) => x.remote = Local(c)
  <2>1. x.remote = Renamed(pool[k].remote, Local(c))
        /\ x.peer = pool[k].peer /\ x.live = pool[k].live
    BY <1>1 DEF Connections
  <2>2. Renamed(pool[k].remote, Local(c)) \in {pool[k].remote, Local(c)}
    BY DEF Renamed
  <2>3. c \notin NamedByAddress => Renamed(PeerName(k), Local(c)) = Local(c)
    BY NamesDiffer DEF Renamed
  <2>4. x \in Connections
    BY <1>1, <2>2 DEF Connections
  <2> QED
    BY <2>1, <2>2, <2>3, <2>4
<1> HIDE DEF x
<1>5. /\ renamed \in Seq(Connections) /\ Len(renamed) = Len(pool)
      /\ DOMAIN renamed = 1 .. Len(pool)
      /\ \A j \in 1 .. Len(pool) : j # k \/ ~m.context => renamed[j] = pool[j]
      /\ m.context => renamed[k] = x
  BY <1>1, <1>4, ReplaceFacts
<1>6. /\ pool' = renamed /\ stub' = stub /\ ~m.reference
      \/ /\ m.reference /\ pool' = renamed
         /\ \E f \in found : stub' = [stub EXCEPT ![c] = f]
      \/ /\ m.reference /\ found = {} /\ Len(pool) < MaxPool
         /\ pool' = Append(renamed, Outgoing(c))
         /\ stub' = [stub EXCEPT ![c] = Len(pool) + 1]
  BY <1>1, <1>2 DEF Deliver, x, FindByRemote
<1> HIDE DEF renamed
<1>7. \A j \in 1 .. Len(pool) :
         /\ renamed[j].peer = pool[j].peer /\ renamed[j].live = pool[j].live
         /\ renamed[j].remote \in {pool[j].remote, Local(c)}
         /\ renamed[j].remote = pool[j].remote \/ (j = k /\ Nameless(c))
  BY <1>1, <1>3, <1>4, <1>5
<1>8. m.context /\ c \notin NamedByAddress => renamed[k].remote = Local(c)
  BY <1>3, <1>4, <1>5
<1>9. ASSUME NEW i \in 1 .. Len(pool), NEW j \in 1 .. Len(pool),
             renamed[i].remote = Local(c), renamed[j].remote = Local(c)
      PROVE  i = j
  <2>1. CASE Nameless(c)
    BY <1>1, <1>7, <1>9, <2>1 DEF Nameless
  <2>2. CASE ~Nameless(c)
    BY <1>1, <1>7, <1>9, <2>2 DEF IInv, NameIsUnique
  <2> QED
    BY <2>1, <2>2
<1>10. CASE /\ pool' = renamed
            /\ \/ ~m.reference /\ stub' = stub
               \/ m.reference /\ \E f \in found : stub' = [stub EXCEPT ![c] = f]
  <2>1. CASE ~m.reference /\ stub' = stub
    BY <1>1, <1>5, <1>7, <1>8, <1>9, <1>10, <2>1
  <2>2. CASE m.reference /\ \E f \in found : stub' = [stub EXCEPT ![c] = f]
    <3>1. PICK f \in found : stub' = [stub EXCEPT ![c] = f]
      BY <2>2
    <3>2. f \in 1 .. Len(pool) /\ renamed[f].remote = Local(c)
      BY <1>5
    <3>3. /\ stub' \in [Clients -> 0 .. Len(pool)] /\ stub'[c] = f
          /\ \A d \in Clients : d # c => stub'[d] = stub[d]
      BY <1>1, <3>1, <3>2
    <3> QED
      BY <1>1, <1>5, <1>7, <1>8, <1>9, <1>10, <2>2, <3>2, <3>3
  <2> QED
    BY <1>10, <2>1, <2>2
<1>11. CASE /\ m.reference /\ found = {} /\ Len(pool) < MaxPool
            /\ pool' = Append(renamed, Outgoing(c))
            /\ stub' = [stub EXCEPT ![c] = Len(pool) + 1]
  <2>1. /\ Outgoing(c) \in Connections
        /\ Outgoing(c).remote = Local(c) /\ Outgoing(c).peer = c
    BY DEF Outgoing, Connections
  <2>2. /\ pool' \in Seq(Connections) /\ Len(pool') = Len(pool) + 1
        /\ DOMAIN pool' = 1 .. Len(pool) + 1
        /\ \A j \in 1 .. Len(pool) : pool'[j] = renamed[j]
        /\ pool'[Len(pool) + 1] = Outgoing(c)
    BY <1>5, <1>11, <2>1, AppendFacts
  <2> DEFINE n == Len(pool) + 1
  <2>3. /\ n \in Nat /\ n \in 1 .. n /\ n <= MaxPool /\ Len(pool) <= n
        /\ \A j \in 1 .. n : j \in 1 .. Len(pool) \/ j = n
        /\ 0 .. Len(pool) \subseteq 0 .. n
    BY <1>1, <1>11, ConstantsAssumption
  <2>4. /\ stub' \in [Clients -> 0 .. n] /\ stub'[c] = n
        /\ \A d \in Clients : d # c => stub'[d] = stub[d]
    BY <1>1, <1>11, <2>3
  <2>5. \A j \in 1 .. Len(pool) : renamed[j].remote # Local(c)
    BY <1>5, <1>11
  <2>6. Len(pool') = n /\ pool'[n] = Outgoing(c) /\ DOMAIN pool' = 1 .. n
    BY <2>2
  <2> HIDE DEF n
  <2>7. \A j \in 1 .. Len(pool') : j \notin 1 .. Len(pool) =>
            pool'[j].remote = Local(c) /\ pool'[j].peer = c
    BY <2>1, <2>3, <2>6
  <2>8. \A i, j \in 1 .. Len(pool') :
            pool'[i].remote = Local(c) /\ pool'[j].remote = Local(c) => i = j
    BY <2>2, <2>3, <2>5, <2>6
  <2>9. \A j \in 1 .. Len(pool) :
            /\ pool'[j].peer = pool[j].peer /\ pool'[j].live = pool[j].live
            /\ pool'[j].remote \in {pool[j].remote, Local(c)}
            /\ pool'[j].remote = pool[j].remote \/ (j = k /\ Nameless(c))
    BY <1>7, <2>2
  <2>10. m.context /\ c \notin NamedByAddress => pool'[k].remote = Local(c)
    BY <1>1, <1>8, <2>2
  <2> QED
    BY <1>1, <1>11, <2>1, <2>2, <2>3, <2>4, <2>6, <2>7, <2>8, <2>9, <2>10
<1> QED
  BY <1>6, <1>10, <1>11

LEMMA DeliverIInv ==
    ASSUME IInv, NEW c \in Clients, Deliver(c)
    PROVE  IInv'
<1> DEFINE k == socket[c]
<1>1. /\ TypeOK /\ k \in 1 .. Len(pool) /\ outbox[c] # <<>> /\ Len(pool) \in Nat
      /\ DOMAIN pool = 1 .. Len(pool) /\ DOMAIN pool' = 1 .. Len(pool') /\ Len(pool') \in Nat
      /\ \A d \in Clients : /\ socket[d] # 0 => socket[d] \in 1 .. Len(pool)
                            /\ stub[d] # 0 => stub[d] \in 1 .. Len(pool)
      /\ \A j \in 1 .. Len(pool) : j \in 1 .. Len(pool')
  <2>1. Len(pool') \in Nat /\ Len(pool) <= Len(pool') /\ DOMAIN pool' = 1 .. Len(pool')
    BY DeliveredPool
  <2>2. TypeOK
    BY DEF IInv
  <2>3. Len(pool) \in Nat /\ k # 0 /\ outbox[c] # <<>>
    BY <2>2, PoolFacts DEF Deliver
  <2>4. \A j \in 1 .. Len(pool) : j \in 1 .. Len(pool')
    BY <2>1, <2>3
  <2> QED
    BY <2>1, <2>2, <2>3, <2>4, PoolFacts
<1>2. /\ outbox' = [outbox EXCEPT ![c] = Tail(@)]
      /\ UNCHANGED <<socket, didSend, reached>>
      /\ passed' \in [Clients -> 0 .. Len(pool)]
      /\ IF outbox[c][1].reference THEN passed'[c] = k ELSE passed' = passed
      /\ \A d \in Clients : d # c => passed'[d] = passed[d]
  <2>1. Head(outbox[c]) = outbox[c][1]
    BY <1>1, QueueShrinks DEF Deliver
  <2>2. passed \in [Clients -> 0 .. Len(pool)] /\ k \in 0 .. Len(pool)
    BY <1>1 DEF TypeOK
  <2>3. IF outbox[c][1].reference THEN passed' = [passed EXCEPT ![c] = k]
                                  ELSE passed' = passed
    BY <2>1 DEF Deliver
  <2> QED
    BY <2>2, <2>3 DEF Deliver
<1>3. /\ \A d \in Clients : d # c => outbox'[d] = outbox[d] /\ stub'[d] = stub[d]
      /\ \A i \in DOMAIN outbox'[c] : ~outbox'[c][i].context
  <2>1. /\ \A d \in Clients : d # c => outbox'[d] = outbox[d]
        /\ \A i \in DOMAIN outbox'[c] : ~outbox'[c][i].context
    BY <1>1, <1>2, QueueShrinks
  <2>2. \A d \in Clients : d # c => stub'[d] = stub[d]
    BY DeliveredPool
  <2> QED
    BY <2>1, <2>2
<1>4. \A j \in 1 .. Len(pool) :
         /\ pool'[j].peer = pool[j].peer /\ pool'[j].live = pool[j].live
         /\ pool'[j].remote \in {pool[j].remote, Local(c)}
         /\ pool'[j].remote = pool[j].remote \/ (j = k /\ Nameless(c))
  BY DeliveredPool
<1>5. ASSUME NEW d \in Clients, NEW j \in 1 .. Len(pool), pool[j].remote = Local(d)
      PROVE  pool'[j].remote = Local(d)
  <2>1. CASE pool'[j].remote = pool[j].remote
    BY <1>5, <2>1
  <2>2. CASE j = k /\ Nameless(c)
    <3>1. pool[k].remote \in {PeerName(k), Local(c)} /\ pool[k].remote # Local(c)
      BY <1>1, <2>2 DEF IInv, SocketIsOwn, Nameless
    <3>2. Local(d) # PeerName(k)
      BY NamesDiffer
    <3> QED
      BY <1>5, <2>2, <3>1, <3>2
  <2> QED
    BY <1>4, <2>1, <2>2
<1>6. ASSUME NEW d \in Clients, NEW j \in 1 .. Len(pool'), pool'[j].remote = Local(d)
      PROVE  /\ pool'[j].peer = d
             /\ d # c => j \in 1 .. Len(pool) /\ pool[j].remote = Local(d)
  <2>1. CASE j \in 1 .. Len(pool)
    <3>1. CASE pool'[j].remote = pool[j].remote
      <4>1. pool[j].remote = Local(d)
        BY <1>6, <3>1
      <4>2. pool[j].peer = d
        BY <1>1, <2>1, <4>1 DEF IInv, NameIsOwners
      <4>3. pool'[j].peer = pool[j].peer
        BY <1>4, <2>1
      <4> QED
        BY <2>1, <4>1, <4>2, <4>3
    <3>2. CASE j = k /\ pool'[j].remote = Local(c)
      <4>1. d = c
        BY <1>6, <3>2, NamesDiffer
      <4>2. pool[k].peer = c
        BY <1>1 DEF IInv, SocketIsOwn
      <4> QED
        BY <1>4, <2>1, <3>2, <4>1, <4>2
    <3> QED
      BY <1>4, <2>1, <3>1, <3>2
  <2>2. CASE j \notin 1 .. Len(pool)
    <3>1. pool'[j].remote = Local(c) /\ pool'[j].peer = c
      BY <2>2, DeliveredPool
    <3> QED
      BY <1>6, <3>1, NamesDiffer
  <2> QED
    BY <2>1, <2>2
<1>7. TypeOK'
  <2>1. /\ pool' \in Seq(Connections) /\ Len(pool') <= MaxPool
        /\ stub' \in [Clients -> 0 .. Len(pool')]
        /\ 0 .. Len(pool) \subseteq 0 .. Len(pool')
    BY DeliveredPool
  <2>2. outbox' \in [Clients -> Seq([context : BOOLEAN, reference : BOOLEAN])]
    BY <1>1, <1>2, QueueShrinks
  <2>3. socket' \in [Clients -> 0 .. Len(pool')] /\ passed' \in [Clients -> 0 .. Len(pool')]
    BY <1>1, <1>2, <2>1 DEF TypeOK
  <2> QED
    BY <1>1, <1>2, <2>1, <2>2, <2>3 DEF TypeOK
<1>8. CallBackReachesOwner' /\ NameIsOwners'
  BY <1>1, <1>2, <1>6 DEF IInv, CallBackReachesOwner, NameIsOwners
<1>9. NameIsUnique'
  <2> SUFFICES ASSUME NEW d \in Clients, NEW i \in 1 .. Len(pool'), NEW j \in 1 .. Len(pool'),
                      pool'[i].remote = Local(d), pool'[j].remote = Local(d)
               PROVE  i = j
    BY <1>1 DEF NameIsUnique
  <2>1. CASE d = c
    BY <2>1, DeliveredPool
  <2>2. CASE d # c
    BY <1>1, <1>6, <2>2 DEF IInv, NameIsUnique
  <2> QED
    BY <2>1, <2>2
<1>10. StubIsNamed'
  <2> SUFFICES ASSUME NEW d \in Clients, stub'[d] # 0
               PROVE  pool'[stub'[d]].remote = Local(d)
    BY DEF StubIsNamed
  <2>1. CASE d = c /\ outbox[c][1].reference
    BY <2>1, DeliveredPool
  <2>2. CASE ~(d = c /\ outbox[c][1].reference)
    <3>1. stub'[d] = stub[d]
      BY <1>3, <2>2, DeliveredPool
    <3> QED
      BY <1>1, <1>5, <3>1 DEF IInv, StubIsNamed
  <2> QED
    BY <2>1, <2>2
<1>11. SocketIsOwn'
  <2> SUFFICES ASSUME NEW d \in Clients, socket[d] # 0
               PROVE  /\ pool'[socket[d]].live /\ pool'[socket[d]].peer = d
                      /\ pool'[socket[d]].remote \in {PeerName(socket[d]), Local(d)}
    BY <1>2 DEF SocketIsOwn
  <2>1. /\ pool[socket[d]].live /\ pool[socket[d]].peer = d /\ pool[k].peer = c
        /\ pool[socket[d]].remote \in {PeerName(socket[d]), Local(d)}
    BY <1>1 DEF IInv, SocketIsOwn
  <2> QED
    BY <1>1, <1>4, <2>1
<1>12. \A d \in Clients : d # c /\ Nameless(d) => Nameless(d)'
  BY <1>1, <1>6 DEF Nameless
<1>13. FirstRequestIsFirst'
  <2> SUFFICES ASSUME NEW d \in Clients
               PROVE  IF didSend[d] THEN \E j \in DOMAIN pool' : pool'[j].peer = d
                      ELSE outbox'[d] = <<>> /\ Nameless(d)' /\ passed'[d] = 0
    BY <1>2 DEF FirstRequestIsFirst
  <2>1. CASE didSend[d]
    <3>1. PICK j \in DOMAIN pool : pool[j].peer = d
      BY <2>1 DEF IInv, FirstRequestIsFirst
    <3>2. j \in DOMAIN pool' /\ pool'[j].peer = d
      BY <1>1, <1>4, <3>1
    <3> QED
      BY <2>1, <3>2
  <2>2. CASE ~didSend[d]
    <3>1. d # c
      BY <1>1, <2>2 DEF IInv, FirstRequestIsFirst
    <3> QED
      BY <1>2, <1>3, <1>12, <2>2, <3>1 DEF IInv, FirstRequestIsFirst
  <2> QED
    BY <2>1, <2>2
<1>14. ContextComesFirst'
  BY <1>2, <1>3, <1>12 DEF IInv, ContextComesFirst
<1>15. ASSUME NEW d \in Clients, FirstSocket(d)'
       PROVE  FirstSocket(d) /\ socket[d] \in 1 .. Len(pool)
  <2>1. socket[d] # 0 /\ socket[d] \in 1 .. Len(pool)
    BY <1>1, <1>2, <1>15 DEF FirstSocket
  <2>2. \A j \in 1 .. socket[d] - 1 : j \in 1 .. Len(pool)
    BY <1>1, <2>1
  <2> QED
    BY <1>2, <1>4, <1>15, <2>1, <2>2 DEF FirstSocket
<1>16. ASSUME NEW d \in Clients \ NamedByAddress, FirstSocket(d)'
       PROVE  IF d = c THEN pool'[socket[d]].remote = Local(d)
              ELSE \/ outbox'[d] # <<>> /\ outbox'[d][1].context
                   \/ pool'[socket[d]].remote = Local(d)
  <2>1. \/ outbox[d] # <<>> /\ outbox[d][1].context
        \/ pool[socket[d]].remote = Local(d)
    BY <1>15, <1>16 DEF IInv, FirstSocketIsNamed
  <2>2. CASE pool[socket[d]].remote = Local(d)
    BY <1>5, <1>15, <1>16, <2>2
  <2>3. CASE d # c /\ outbox[d] # <<>> /\ outbox[d][1].context
    BY <1>3, <2>3
  <2>4. CASE d = c /\ outbox[d][1].context
    BY <2>4, DeliveredPool
  <2> QED
    BY <2>1, <2>2, <2>3, <2>4
<1>17. FirstSocketIsNamed'
  BY <1>2, <1>16 DEF FirstSocketIsNamed
<1>18. FirstSocketIsBidirectional'
  <2> SUFFICES ASSUME NEW d \in Clients \ NamedByAddress, FirstSocket(d)',
                      passed'[d] = socket[d]
               PROVE  stub'[d] = socket[d]
    BY <1>2 DEF FirstSocketIsBidirectional
  <2>1. CASE d = c /\ outbox[c][1].reference
    <3>1. /\ stub'[c] \in 1 .. Len(pool') /\ pool'[stub'[c]].remote = Local(c)
          /\ socket[c] \in 1 .. Len(pool') /\ pool'[socket[c]].remote = Local(c)
      BY <1>1, <1>16, <2>1, DeliveredPool
    <3> QED
      BY <2>1, <3>1, DeliveredPool
  <2>2. CASE ~(d = c /\ outbox[c][1].reference)
    <3>1. stub'[d] = stub[d] /\ passed'[d] = passed[d]
      BY <1>2, <1>3, <2>2, DeliveredPool
    <3> QED
      BY <1>15, <3>1 DEF IInv, FirstSocketIsBidirectional
  <2> QED
    BY <2>1, <2>2
<1> QED
  BY <1>7, <1>8, <1>9, <1>10, <1>11, <1>13, <1>14, <1>17, <1>18 DEF IInv

LEMMA StutterIInv == IInv /\ UNCHANGED vars => IInv'
<1> SUFFICES ASSUME IInv, UNCHANGED vars PROVE IInv'
  OBVIOUS
<1>1. UNCHANGED <<socket, didSend, outbox, pool, stub, passed, reached>>
  BY DEF vars
<1>2. TypeOK' /\ CallBackReachesOwner' /\ NameIsUnique' /\ NameIsOwners' /\ StubIsNamed'
  BY <1>1 DEF IInv, TypeOK, CallBackReachesOwner, NameIsUnique, NameIsOwners, StubIsNamed
<1>3. FirstRequestIsFirst' /\ ContextComesFirst' /\ SocketIsOwn'
  BY <1>1 DEF IInv, FirstRequestIsFirst, Nameless, ContextComesFirst, SocketIsOwn
<1>4. FirstSocketIsBidirectional' /\ FirstSocketIsNamed'
  BY <1>1 DEF IInv, FirstSocketIsBidirectional, FirstSocketIsNamed, FirstSocket
<1> QED
  BY <1>2, <1>3, <1>4 DEF IInv

-----------------------------------------------------------------------------
THEOREM Invariance == Spec => []IInv
<1>1. IInv /\ [Next]_vars => IInv'
  BY RequestIInv, DeliverIInv, ResetIInv, CallBackIInv, StutterIInv DEF Next
<1> QED
  BY InitIInv, <1>1, PTL DEF Spec

\* Every index stays inside the pool, whatever is lost and renamed.
THEOREM TypeCorrect == Spec => []TypeOK
<1>1. IInv => TypeOK
  BY DEF IInv
<1> QED
  BY Invariance, <1>1, PTL

\* The server's call on an object of a client is never read by another client.
THEOREM CallBackIsPrivate == Spec => []CallBackReachesOwner
<1>1. IInv => CallBackReachesOwner
  BY DEF IInv
<1> QED
  BY Invariance, <1>1, PTL

\* findByRemote() has at most one connection to choose for a client's name.
THEOREM FindIsDetermined == Spec => []NameIsUnique
<1>1. IInv => NameIsUnique
  BY DEF IInv
<1> QED
  BY Invariance, <1>1, PTL

\* The server calls back over the first socket of a client, not over a new one.
THEOREM FirstSocketIsUsed == Spec => []FirstSocketIsBidirectional
<1>1. IInv => FirstSocketIsBidirectional
  BY DEF IInv
<1> QED
  BY Invariance, <1>1, PTL
=============================================================================
