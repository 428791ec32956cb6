--------------------------- MODULE ObjectAdapter ---------------------------
(* The objects of some ORBs and the references to them: activate_object,    *)
(* activate_object_with_id, bind, shutdown, the built-in name service, and  *)
(* what references are written for servants and where calls on them go.     *)
(*                                                                          *)
(* Each ORB has one address, where it can be called whenever it is needed.  *)
(* Its tables hold skeletons by object key; a skeleton knows one ORB and    *)
(* one key, those of its last activation.  The application may use one      *)
(* skeleton with several ORBs, keys and names, and keys and names that are  *)
(* taken.                                                                   *)
EXTENDS Integers, Sequences

CONSTANTS
    Orbs, Skeletons,
    Address,        \* per ORB: Protocol::local, what its references carry
    Numerals,       \* the values of servantIdCounter, in hexadecimal
    MaxIds,         \* bound, per ORB: the keys activate_object() makes
    AppKeys,        \* the keys that applications pass to activate_object_with_id
    Names,          \* the names that objects are bound to
    MaxShutdowns,   \* bound, per ORB: shutdowns
    NameServiceImpl, None

OID(n) == <<"OID:", Numerals[n]>>
OIDs == {OID(n) : n \in 1 .. Len(Numerals)}
NameServiceId == <<"NameService">>
Keys == OIDs \cup AppKeys \cup {NameServiceId}

ASSUME AdapterAssumption ==
    /\ Len(Numerals) \in Nat
    /\ \A o, p \in Orbs : Address[o] = Address[p] => o = p
    /\ \A i, j \in 1 .. Len(Numerals) : Numerals[i] = Numerals[j] => i = j
    /\ NameServiceId \notin OIDs
    /\ None \notin Skeletons \cup Orbs \cup Keys
    /\ NameServiceImpl \notin Skeletons \cup {None}
    /\ MaxIds \in [Orbs -> 0 .. Len(Numerals)]
    /\ MaxShutdowns \in [Orbs -> Nat]

VARIABLES
    servants,           \* per ORB and key: ORB::servants
    servantIdCounter,   \* per ORB
    namingService,      \* per ORB: whether it exists
    name2Object,        \* per ORB and name: NamingContextExtImpl::name2Object
    orb, objectKey,     \* per skeleton: its members
    ref,                \* any one of the references that clients get
    life,               \* history, per ORB: its shutdowns
    use                 \* history, per skeleton: how it has been used

tables == <<servants, servantIdCounter, namingService, name2Object>>
vars == <<servants, servantIdCounter, namingService, name2Object,
          orb, objectKey, ref, life, use>>

Servants == Skeletons \cup {NameServiceImpl}

\* What a reference says, an address and a key.  The rest is history: the ORB
\* it was written by or for, the skeleton that is meant, when it was written,
\* and whether it led to that skeleton then.
References ==
    [at : {Address[o] : o \in Orbs}, key : Keys \cup {<<>>},
     by : Orbs, meant : Skeletons, life : Nat, proper : BOOLEAN]

-----------------------------------------------------------------------------
\* Definitions named <Operator>_<Slip> are <Operator> with a plausible slip;
\* the properties are shown to notice them.

Find(o, key) == IF key \in Keys THEN servants[o][key] ELSE None

\* For skeleton s on a connection of o: the address of o, the key that s has now.
writeReference(o, s) ==
    [at |-> Address[o], key |-> objectKey[s],
     by |-> o, meant |-> s, life |-> life[o], proper |-> Find(o, objectKey[s]) = s]

Emplace_Assign(table, key, s) == [table EXCEPT ![key] = s]

\* map::emplace: a key that is taken stays with its servant.
Emplace(table, key, s) == IF table[key] = None THEN [table EXCEPT ![key] = s] ELSE table

\* A skeleton that is activated once, under a key that is free, is in "proper"
\* use, until it is activated again or its ORB is shut down.  A key of the form
\* activate_object() makes is free to it if no application passes such a key.
Use(o, key, s) == IF use[s] = "unused" /\ (servants[o][key] = None \/ key \notin AppKeys)
                  THEN "proper" ELSE "other"

\* activate_object_with_id(), under key: what the skeleton remembers ...
Belongs(o, key, s) ==
    /\ orb' = [orb EXCEPT ![s] = o]
    /\ objectKey' = [objectKey EXCEPT ![s] = key]
    /\ use' = [use EXCEPT ![s] = Use(o, key, s)]

\* ... and what the ORB does.
Activated(o, key, s) ==
    /\ Belongs(o, key, s)
    /\ servants' = [servants EXCEPT ![o] = Emplace(@, key, s)]

ActivateObjectWithId(o, key, s) ==
    /\ key \in AppKeys
    /\ Activated(o, key, s)
    /\ UNCHANGED <<servantIdCounter, namingService, name2Object, ref, life>>

NextId(o) == servantIdCounter[o] + 1

ActivateObject(o, s) ==
    /\ NextId(o) <= MaxIds[o]
    /\ servantIdCounter' = [servantIdCounter EXCEPT ![o] = NextId(o)]
    /\ Activated(o, OID(NextId(o)), s)
    /\ UNCHANGED <<namingService, name2Object, ref, life>>

-----------------------------------------------------------------------------
\* NamingContextExtImpl::bind(): a name that is taken makes it throw.
BindName(o, name, s) ==
    name2Object' = [name2Object EXCEPT ![o][name] = IF @ = None THEN s ELSE @]

\* ORB::bind() activates a skeleton unless it has an ORB, whichever that is, makes the
\* name service when it is first needed, and binds the name.  When that throws,
\* what it did before stays.
Bind(o, name, s) ==
    LET new == orb[s] = None
        table == IF new THEN Emplace(servants[o], OID(NextId(o)), s) ELSE servants[o]
    IN
    /\ IF new THEN /\ NextId(o) <= MaxIds[o]
                   /\ servantIdCounter' = [servantIdCounter EXCEPT ![o] = NextId(o)]
                   /\ Belongs(o, OID(NextId(o)), s)
              ELSE UNCHANGED <<servantIdCounter, orb, objectKey, use>>
    /\ servants' = [servants EXCEPT ![o] =
                       IF namingService[o] THEN table
                       ELSE Emplace(table, NameServiceId, NameServiceImpl)]
    /\ namingService' = [namingService EXCEPT ![o] = TRUE]
    /\ BindName(o, name, s)
    /\ UNCHANGED <<ref, life>>

\* The name service goes, and the names with it.
EndNaming_KeepsNames(o) == /\ namingService' = [namingService EXCEPT ![o] = FALSE]
                           /\ UNCHANGED name2Object
EndNaming(o) == /\ namingService' = [namingService EXCEPT ![o] = FALSE]
                /\ name2Object' = [name2Object EXCEPT ![o] = [name \in Names |-> None]]

Shutdown_CountsAgain(o) ==
    /\ life[o] < MaxShutdowns[o]
    /\ servants' = [servants EXCEPT ![o] = [key \in Keys |-> None]]
    /\ servantIdCounter' = [servantIdCounter EXCEPT ![o] = 0]
    /\ EndNaming(o)
    /\ life' = [life EXCEPT ![o] = @ + 1]
    /\ use' = [s \in Skeletons |-> IF orb[s] = o THEN "other" ELSE use[s]]
    /\ UNCHANGED <<orb, objectKey, ref>>

\* The skeletons keep their ORB and their key, and the counter its value.
Shutdown(o) ==
    /\ life[o] < MaxShutdowns[o]
    /\ servants' = [servants EXCEPT ![o] = [key \in Keys |-> None]]
    /\ EndNaming(o)
    /\ life' = [life EXCEPT ![o] = @ + 1]
    /\ use' = [s \in Skeletons |-> IF orb[s] = o THEN "other" ELSE use[s]]
    /\ UNCHANGED <<servantIdCounter, orb, objectKey, ref>>

\* A servant of o returns s to a client, writeObject().
ReturnObject(o, s) ==
    /\ \E key \in Keys : servants[o][key] \in Skeletons
    /\ ref = None
    /\ ref' = writeReference(o, s)
    /\ UNCHANGED <<tables, orb, objectKey, life, use>>

writeStub_Own(o, p) == [ref EXCEPT !.at = Address[o]]

\* For a stub, on a connection of o to p: the address of p, whichever ORB the
\* stub's object belongs to.
writeStub(o, p) ==
    IF p = ref.by THEN [ref EXCEPT !.at = Address[p]]
    ELSE [ref EXCEPT !.at = Address[p], !.by = p, !.life = life[p],
                     !.proper = Find(p, ref.key) = ref.meant]

\* o has a stub for ref and passes it to an object of p.
PassStub(o, p) ==
    /\ ref # None /\ o # p
    /\ ref' = writeStub(o, p)
    /\ UNCHANGED <<tables, orb, objectKey, life, use>>

\* resolve() or resolve_str(), called at the object with this key.
Resolvable(o, key, name) ==
    /\ Find(o, key) = NameServiceImpl
    /\ name \in Names /\ name2Object[o][name] # None

Resolve(o, key, name) ==
    /\ Resolvable(o, key, name)
    /\ ref = None
    /\ ref' = writeReference(o, name2Object[o][name])
    /\ UNCHANGED <<tables, orb, objectKey, life, use>>

-----------------------------------------------------------------------------
Init == /\ servants = [o \in Orbs |-> [key \in Keys |-> None]]
        /\ servantIdCounter = [o \in Orbs |-> 0]
        /\ namingService = [o \in Orbs |-> FALSE]
        /\ name2Object = [o \in Orbs |-> [name \in Names |-> None]]
        /\ orb = [s \in Skeletons |-> None]
        /\ objectKey = [s \in Skeletons |-> <<>>]
        /\ ref = None
        /\ life = [o \in Orbs |-> 0]
        /\ use = [s \in Skeletons |-> "unused"]

Next == \E o \in Orbs :
            \/ Shutdown(o)
            \/ \E p \in Orbs : PassStub(o, p)
            \/ \E s \in Skeletons :
                  \/ ActivateObject(o, s) \/ ReturnObject(o, s)
                  \/ \E key \in AppKeys : ActivateObjectWithId(o, key, s)
                  \/ \E name \in Names : Bind(o, name, s)
            \/ \E name \in Names : Resolve(o, NameServiceId, name)

Spec == Init /\ [][Next]_vars

-----------------------------------------------------------------------------
TypeOK ==
    /\ servants \in [Orbs -> [Keys -> Servants \cup {None}]]
    /\ servantIdCounter \in [Orbs -> Nat] /\ \A o \in Orbs : servantIdCounter[o] <= MaxIds[o]
    /\ namingService \in [Orbs -> BOOLEAN]
    /\ name2Object \in [Orbs -> [Names -> Skeletons \cup {None}]]
    /\ \A o \in Orbs : ~namingService[o] => \A name \in Names : name2Object[o][name] = None
    /\ orb \in [Skeletons -> Orbs \cup {None}]
    /\ objectKey \in [Skeletons -> Keys \cup {<<>>}]
    /\ ref \in References \cup {None}
    /\ life \in [Orbs -> Nat]
    /\ use \in [Skeletons -> {"unused", "proper", "other"}]

\* Where a call on a reference goes.
Target(r) == Find(CHOOSE o \in Orbs : Address[o] = r.at, r.key)

\* A reference that led to its servant when it was written leads there until
\* the ORB is shut down, whatever is activated, bound or returned in between,
\* also under the same key, and also when a client passes it back to that ORB.
\* After a shutdown it leads nowhere, though the ORB may serve again:
\* activate_object() uses no key a second time.  (What leads where under keys
\* that applications choose is up to them.  A stub that is passed to a third
\* ORB becomes a reference of that ORB, and need not have led anywhere.)
ReferenceStaysRight ==
    ref # None /\ ref.proper =>
        IF ref.life = life[ref.by] THEN Target(ref) = ref.meant
        ELSE ref.key \in AppKeys \/ Target(ref) \in {None, ref.meant}

\* A servant that was activated once, by activate_object(), by bind() or under
\* a key of its own, is found under its key, whatever else the application does
\* wrongly, so what resolve() or an operation returns for it leads to it.
ProperUseIsReachable ==
    \A s \in Skeletons : use[s] = "proper" => Find(orb[s], objectKey[s]) = s
=============================================================================
