---------------------------- MODULE CallContract ----------------------------
(* What ORB::twowayCall and ORB::onewayCall promise about one connection,   *)
(* whatever happens to its sockets: every call is issued once and settles   *)
(* at most once; the peer executes a request at most once, requests reach   *)
(* the peer in the order they were issued, and a call returns a reply only  *)
(* when the peer executed its request.  TcpConnection implements this.      *)
EXTENDS Integers

CONSTANT RequestIds      \* the ids requestId.fetch_add(2) can return

VARIABLES call,          \* request id -> what became of the call
          executed       \* ids of the requests the peer ORB received whole

Exceptions == {"TRANSIENT", "TIMEOUT"}
Moves ==                 \* the legal changes of one call
    {<<"unused", "oneway">>, <<"unused", "waiting">>, <<"unused", "failed">>}
    \cup {<<"waiting", end>> : end \in Exceptions \cup {"reply"}}

Init == /\ call = [id \in RequestIds |-> "unused"]
        /\ executed = {}

\* Calls are issued, answered or failed, any number of them in one callback.
Settle == /\ \A id \in RequestIds :
                 call'[id] # call[id] => <<call[id], call'[id]>> \in Moves
          /\ \A id \in RequestIds :
                 call[id] # "reply" /\ call'[id] = "reply" => id \in executed
          /\ executed' = executed

\* The peer receives some of the issued requests, each later than the last.
Execute == /\ \E new \in SUBSET RequestIds :
                  /\ \A id \in new : call[id] # "unused"
                  /\ \A id \in new, old \in executed : old < id
                  /\ executed' = executed \cup new
           /\ call' = call

Next == Settle \/ Execute
Spec == Init /\ [][Next]_<<call, executed>>
=============================================================================
