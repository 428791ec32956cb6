------------------------------ MODULE BiDirPool ------------------------------
(* How a server ORB calls objects of its clients: bidirectional IIOP.  The  *)
(* first request a client encodes on a connection carries the name under    *)
(* which the client is known (service context BI_DIR_IIOP); the server      *)
(* renames the connection it arrived on and later finds that connection by  *)
(* name when it narrows a reference of the client.                          *)
(*                                                                          *)
(* Each client has one Connection to the server, which keeps its flag       *)
(* didSendBiDirIIOP over any number of sockets.  Every accepted socket is a *)
(* new Connection in the server's pool, from which nothing is ever erased.  *)
(* All clients are seen at one address, as behind a NAT or on one host.     *)
EXTENDS Integers, Sequences

CONSTANTS
    Clients,
    Listening,      \* clients that listen for connections themselves
    NamedByAddress, \* those which gave listen() the address the server sees
    MaxPool,        \* bound: connections in the server's pool
    MaxQueued       \* bound: requests of one client under way

ASSUME ConstantsAssumption ==
    /\ NamedByAddress \subseteq Listening /\ Listening \subseteq Clients
    /\ MaxPool \in Nat /\ MaxQueued \in Nat \ {0}

VARIABLES
    socket,      \* client -> pool index of the connection at the other end, or 0
    didSend,     \* client -> Connection::didSendBiDirIIOP
    outbox,      \* client -> its requests not yet handled by the server
    pool,        \* the server's connections, ORB::connections
    stub,        \* client -> pool index of the connection its stub uses, or 0
    passed,      \* history: socket over which the client's reference came last
    reached      \* history: <<c, d>>: the last call meant for c was read by d

vars == <<socket, didSend, outbox, pool, stub, passed, reached>>

Nobody == <<>>
HostAndPort(host, port) == [host |-> host, port |-> port]

\* protocol->local: host and port given to listen(), or a made-up unique host
\* with CORBA_LOC_PORT.
Local(c) ==
    IF c \notin Listening THEN HostAndPort(<<"uuid", c>>, <<"CORBA_LOC_PORT">>)
    ELSE HostAndPort(IF c \in NamedByAddress THEN <<"address">> ELSE <<"name", c>>,
                     <<"listen", c>>)

\* What getPeerName() says of the n-th connection.
PeerName(n) == HostAndPort(<<"address">>, <<"ephemeral", n>>)

\* A connection is live while it has a socket; peer is the client at its end.
Incoming(c) == [remote |-> PeerName(Len(pool) + 1), peer |-> c, live |-> TRUE]
Outgoing(c) == [remote |-> Local(c), peer |-> c, live |-> FALSE]

-----------------------------------------------------------------------------
\* _twowayCall/onewayCall: the context is encoded when the flag is not set;
\* send() connects when the connection is idle, and the server accepts.
Request(c, withReference) ==
    /\ Len(outbox[c]) < MaxQueued
    /\ outbox' = [outbox EXCEPT
                    ![c] = Append(@, [context |-> ~didSend[c], reference |-> withReference])]
    /\ didSend' = [didSend EXCEPT ![c] = TRUE]
    /\ IF socket[c] # 0 THEN UNCHANGED <<socket, pool>>
       ELSE /\ Len(pool) < MaxPool
            /\ pool' = Append(pool, Incoming(c))
            /\ socket' = [socket EXCEPT ![c] = Len(pool) + 1]
    /\ UNCHANGED <<stub, passed, reached>>

\* Definitions named <Operator>_<Slip> are <Operator> with a plausible slip;
\* the properties are shown to notice them.
Renamed_Never(remote, name) == remote

\* readServiceContext(), case BI_DIR_IIOP.
Renamed(remote, name) ==
    IF name.host # remote.host /\ name.port # remote.port THEN name ELSE remote

FindByRemote_PortOnly(connections, name) ==
    {k \in DOMAIN connections : connections[k].remote.port = name.port}
FindByRemote_OrEnd(connections, name) ==
    {k \in DOMAIN connections : connections[k].remote = name} \cup {Len(connections) + 1}

\* ConnectionPool::findByRemote(): any of these, the pool is ordered by pointer.
FindByRemote(connections, name) ==
    {k \in DOMAIN connections : connections[k].remote = name}

\* socketRcvd() on the connection at the end of the client's socket: the
\* context is read first; a reference among the arguments is narrowed to a stub
\* on what getConnection() finds or creates.
Deliver(c) ==
    LET m == Head(outbox[c])
        k == socket[c]
        renamed == IF m.context
                   THEN [pool EXCEPT ![k].remote = Renamed(@, Local(c))] ELSE pool
        found == FindByRemote(renamed, Local(c))
    IN
    /\ k # 0 /\ outbox[c] # <<>>
    /\ outbox' = [outbox EXCEPT ![c] = Tail(@)]
    /\ \/ /\ ~m.reference
          /\ pool' = renamed
          /\ UNCHANGED <<stub, passed>>
       \/ /\ m.reference
          /\ passed' = [passed EXCEPT ![c] = k]
          /\ \/ /\ found # {} /\ pool' = renamed
                /\ \E f \in found : stub' = [stub EXCEPT ![c] = f]
             \/ /\ found = {} /\ Len(pool) < MaxPool
                /\ pool' = Append(renamed, Outgoing(c))
                /\ stub' = [stub EXCEPT ![c] = Len(pool) + 1]
    /\ UNCHANGED <<socket, didSend, reached>>

Reset_SendsAgain(c) ==
    /\ socket[c] # 0
    /\ socket' = [socket EXCEPT ![c] = 0]
    /\ pool' = [pool EXCEPT ![socket[c]].live = FALSE]
    /\ \E taken \in 0 .. Len(outbox[c]) :
           outbox' = [outbox EXCEPT ![c] = SubSeq(@, taken + 1, Len(@))]
    /\ didSend' = [didSend EXCEPT ![c] = FALSE]
    /\ UNCHANGED <<stub, passed, reached>>

\* The socket is lost.  Both connections go to IDLE and stay in their pools; the
\* requests the kernel had taken are lost, those in sendBuffer are not.
Reset(c) ==
    /\ socket[c] # 0
    /\ socket' = [socket EXCEPT ![c] = 0]
    /\ pool' = [pool EXCEPT ![socket[c]].live = FALSE]
    /\ \E taken \in 0 .. Len(outbox[c]) :
           outbox' = [outbox EXCEPT ![c] = SubSeq(@, taken + 1, Len(@))]
    /\ UNCHANGED <<didSend, stub, passed, reached>>

\* Who answers when the server connects to a remote: only a listening client.
Listener(remote) == {d \in Listening : Local(d) = remote}

\* The server calls the client's object: over the socket of the stub's
\* connection, or up() connects to the remote the connection has by now.
CallBack(c) ==
    LET k == stub[c] IN
    /\ k # 0
    /\ \/ /\ pool[k].live
          /\ reached' = <<c, pool[k].peer>>
          /\ UNCHANGED pool
       \/ /\ ~pool[k].live
          /\ \E d \in Listener(pool[k].remote) :
                 /\ pool' = [pool EXCEPT ![k].live = TRUE, ![k].peer = d]
                 /\ reached' = <<c, d>>
       \/ /\ ~pool[k].live /\ Listener(pool[k].remote) = {}   \* connect_to() fails
          /\ reached' = Nobody
          /\ UNCHANGED pool
    /\ UNCHANGED <<socket, didSend, outbox, stub, passed>>

-----------------------------------------------------------------------------
Init == /\ socket = [c \in Clients |-> 0]
        /\ didSend = [c \in Clients |-> FALSE]
        /\ outbox = [c \in Clients |-> <<>>]
        /\ pool = <<>>
        /\ stub = [c \in Clients |-> 0]
        /\ passed = [c \in Clients |-> 0]
        /\ reached = Nobody

Next == \E c \in Clients :
            \/ \E withReference \in BOOLEAN : Request(c, withReference)
            \/ Deliver(c) \/ Reset(c) \/ CallBack(c)

Spec == Init /\ [][Next]_vars

-----------------------------------------------------------------------------
Connections == [remote : {Local(c) : c \in Clients} \cup {PeerName(n) : n \in 1 .. MaxPool},
                peer : Clients, live : BOOLEAN]

TypeOK ==
    /\ socket \in [Clients -> 0 .. Len(pool)]
    /\ didSend \in [Clients -> BOOLEAN]
    /\ outbox \in [Clients -> Seq([context : BOOLEAN, reference : BOOLEAN])]
    /\ pool \in Seq(Connections) /\ Len(pool) <= MaxPool
    /\ stub \in [Clients -> 0 .. Len(pool)]
    /\ passed \in [Clients -> 0 .. Len(pool)]
    /\ reached \in {Nobody} \cup (Clients \X Clients)

\* A call meant for one client's object is never read by another client, although
\* all clients share an address, connections are renamed and stubs outlive
\* the sockets they were made for.
CallBackReachesOwner == reached # Nobody => reached[1] = reached[2]

\* No two connections of the pool are known by one client's name, so that
\* findByRemote() does not depend on the order of the pool.
NameIsUnique ==
    \A c \in Clients, j, k \in DOMAIN pool :
        pool[j].remote = Local(c) /\ pool[k].remote = Local(c) => j = k

FirstSocket(c) ==
    socket[c] # 0 /\ \A k \in 1 .. socket[c] - 1 : pool[k].peer # c

\* On the first socket of a client the server calls back over that very socket
\* once a reference has come over it, whatever was sent before it.
FirstSocketIsBidirectional ==
    \A c \in Clients \ NamedByAddress :
        FirstSocket(c) /\ passed[c] = socket[c] => stub[c] = socket[c]

\* connection.hh "bi-directional service context needs only to be send once":
\* a client whose reference came over its present socket can be called.
PassedReferenceIsReachable ==
    \A c \in Clients :
        socket[c] # 0 /\ passed[c] = socket[c] =>
            pool[stub[c]].live \/ Listener(pool[stub[c]].remote) # {}
=============================================================================
