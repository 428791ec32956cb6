------------------------ MODULE ObjectAdapterProofs ------------------------
(* References never lead to another servant than the one they were written  *)
(* for, and servants in proper use stay reachable, for any ORBs, skeletons, *)
(* keys and names.  The invariant: tables only grow until the ORB is shut   *)
(* down; a key that no application passes is in a table only when           *)
(* activate_object() has made it already, so it is never made again; and a  *)
(* reference carries the address of the ORB it was written for.             *)
EXTENDS References, TLAPS

\* The keys activate_object() of o has made.
Made(o) == {OID(n) : n \in 1 .. servantIdCounter[o]}

KeysAreKnown ==
    \A o \in Orbs, key \in Keys :
        /\ servants[o][key] \in Skeletons => key \in AppKeys \cup Made(o)
        /\ servants[o][key] = NameServiceImpl => key = NameServiceId

ReferenceIsWritten ==
    ref # None =>
        /\ ref.at = Address[ref.by]
        /\ ref.life <= life[ref.by]
        /\ ref.proper => ref.key \in AppKeys \cup Made(ref.by)

ProperUseIsActive ==
    \A s \in Skeletons : use[s] = "proper" => orb[s] \in Orbs /\ objectKey[s] \in Keys

IInv == /\ TypeOK
        /\ ReferenceStaysRight
        /\ ProperUseIsReachable
        /\ KeysAreKnown
        /\ ReferenceIsWritten
        /\ ProperUseIsActive

\* What activations and bind() do to the tables of o.
Grown(o) ==
    /\ servants' \in [Orbs -> [Keys -> Servants \cup {None}]]
    /\ servantIdCounter' \in [Orbs -> Nat]
    /\ \A p \in Orbs : p # o => /\ servants'[p] = servants[p]
                                /\ servantIdCounter'[p] = servantIdCounter[p]
    /\ servantIdCounter'[o] \in {servantIdCounter[o], servantIdCounter[o] + 1}
    /\ \A key \in Keys :
          \/ servants'[o][key] = servants[o][key]
          \/ /\ servants[o][key] = None /\ servants'[o][key] \in Skeletons
             /\ \/ key \in AppKeys
                \/ /\ servantIdCounter'[o] = servantIdCounter[o] + 1
                   /\ key = OID(servantIdCounter'[o])
          \/ /\ servants[o][key] = None /\ servants'[o][key] = NameServiceImpl
             /\ key = NameServiceId

-----------------------------------------------------------------------------
LEMMA NamesDiffer ==
    /\ None \notin Skeletons /\ None \notin Orbs /\ None \notin Keys
    /\ NameServiceImpl \notin Skeletons /\ NameServiceImpl # None
    /\ None \notin Servants /\ Skeletons \subseteq Servants
    /\ AppKeys \subseteq Keys /\ NameServiceId \in Keys
  BY AdapterAssumption DEF Servants, Keys

\* The keys that are made are keys, all different, and none is that of the name service.
LEMMA MadeKeys ==
    /\ Len(Numerals) \in Nat
    /\ \A m, n \in 1 .. Len(Numerals) :
          /\ OID(m) \in Keys /\ OID(m) # NameServiceId
          /\ OID(m) = OID(n) => m = n
<1>1. Len(Numerals) \in Nat
  BY AdapterAssumption
<1>2. ASSUME NEW m \in 1 .. Len(Numerals), NEW n \in 1 .. Len(Numerals)
      PROVE  OID(m) \in Keys /\ OID(m) # NameServiceId /\ (OID(m) = OID(n) => m = n)
  <2>1. OID(m) \in OIDs
    BY DEF OIDs
  <2>2. OID(m)[2] = Numerals[m] /\ OID(n)[2] = Numerals[n]
    BY DEF OID
  <2> QED
    BY <2>1, <2>2, AdapterAssumption DEF Keys
<1> QED
  BY <1>1, <1>2

LEMMA Counters ==
    ASSUME TypeOK, NEW o \in Orbs
    PROVE  /\ MaxIds[o] \in Nat /\ MaxIds[o] <= Len(Numerals)
           /\ servantIdCounter[o] \in Nat /\ servantIdCounter[o] <= MaxIds[o]
           /\ life[o] \in Nat
  BY AdapterAssumption DEF TypeOK

\* CHOOSE finds the ORB whose address a reference carries.
LEMMA TargetIsThere ==
    ASSUME NEW o \in Orbs, NEW r, r.at = Address[o]
    PROVE  Target(r) = IF r.key \in Keys THEN servants[o][r.key] ELSE None
<1>1. (CHOOSE p \in Orbs : Address[p] = r.at) = o
  BY AdapterAssumption
<1> QED
  BY <1>1 DEF Target, Find

LEMMA EmplaceFacts ==
    ASSUME NEW table \in [Keys -> Servants \cup {None}], NEW key \in Keys, NEW s \in Servants
    PROVE  /\ Emplace(table, key, s) \in [Keys -> Servants \cup {None}]
           /\ \A k \in Keys : Emplace(table, key, s)[k] =
                 IF k = key /\ table[key] = None THEN s ELSE table[k]
  BY DEF Emplace

\* While tables grow, no reference goes astray.
LEMMA GrownKeeps ==
    ASSUME IInv, NEW o \in Orbs, Grown(o), UNCHANGED <<ref, life>>,
           servantIdCounter'[o] <= MaxIds[o]
    PROVE  KeysAreKnown' /\ ReferenceIsWritten' /\ ReferenceStaysRight'
<1>1. TypeOK
  BY DEF IInv
<1>2. ASSUME NEW p \in Orbs
      PROVE  /\ servantIdCounter[p] \in Nat /\ servantIdCounter'[p] \in Nat
             /\ servantIdCounter[p] <= servantIdCounter'[p]
             /\ servantIdCounter'[p] <= Len(Numerals) /\ Len(Numerals) \in Nat
  BY <1>1, Counters, MadeKeys DEF Grown
<1>3. ASSUME NEW p \in Orbs PROVE Made(p) \subseteq Made(p)'
  <2>1. 1 .. servantIdCounter[p] \subseteq 1 .. servantIdCounter'[p]
    BY <1>2
  <2> QED
    BY <2>1 DEF Made
<1>4. KeysAreKnown'
  <2> SUFFICES ASSUME NEW p \in Orbs, NEW key \in Keys
               PROVE  /\ servants'[p][key] \in Skeletons => key \in AppKeys \cup Made(p)'
                      /\ servants'[p][key] = NameServiceImpl => key = NameServiceId
    BY DEF KeysAreKnown
  <2>1. CASE servants'[p][key] = servants[p][key]
    BY <1>3, <2>1 DEF IInv, KeysAreKnown
  <2>2. CASE /\ p = o /\ servants'[o][key] \in Skeletons
             /\ servantIdCounter'[o] = servantIdCounter[o] + 1
             /\ key = OID(servantIdCounter'[o])
    <3>1. key \in Made(o)'
      BY <1>2, <2>2 DEF Made
    <3> QED
      BY <2>2, <3>1, NamesDiffer
  <2>3. CASE p = o /\ servants'[o][key] \in Skeletons /\ key \in AppKeys
    BY <2>3, NamesDiffer
  <2>4. CASE servants'[p][key] = NameServiceImpl /\ key = NameServiceId
    BY <2>4, NamesDiffer
  <2> QED
    BY <2>1, <2>2, <2>3, <2>4 DEF Grown
<1>5. ReferenceIsWritten'
  <2> SUFFICES ASSUME ref # None
               PROVE  /\ ref.at = Address[ref.by] /\ ref.life <= life[ref.by]
                      /\ ref.proper => ref.key \in AppKeys \cup Made(ref.by)'
    BY DEF ReferenceIsWritten
  <2>1. ref.by \in Orbs
    BY <1>1 DEF TypeOK, References
  <2> QED
    BY <1>3, <2>1 DEF IInv, ReferenceIsWritten
<1>6. ReferenceStaysRight'
  <2> SUFFICES ASSUME ref # None, ref.proper
               PROVE  IF ref.life = life[ref.by] THEN Target(ref)' = ref.meant
                      ELSE ref.key \in AppKeys \/ Target(ref)' \in {None, ref.meant}
    BY DEF ReferenceStaysRight
  <2> DEFINE p == ref.by
             key == ref.key
  <2>1. /\ p \in Orbs /\ ref.at = Address[p] /\ ref.meant \in Skeletons
        /\ key \in AppKeys \cup Made(p)
    BY <1>1 DEF IInv, ReferenceIsWritten, TypeOK, References
  <2>2. key \in Keys
    <3>1. \A n \in 1 .. servantIdCounter[p] : OID(n) \in Keys
      BY <1>2, <2>1, MadeKeys
    <3> QED
      BY <2>1, <3>1, NamesDiffer DEF Made
  <2>3. Target(ref) = servants[p][key]
    BY <2>1, <2>2, TargetIsThere
  <2>4. Target(ref)' = servants'[p][key]
    <3>1. (CHOOSE q \in Orbs : Address[q] = ref.at) = p
      BY <2>1, AdapterAssumption
    <3> QED
      BY <2>2, <3>1 DEF Target, Find
  <2>5. CASE ref.life = life[p]
    <3>1. servants[p][key] = ref.meant /\ ref.meant # None
      BY <2>1, <2>3, <2>5, NamesDiffer DEF IInv, ReferenceStaysRight
    <3>2. servants'[p][key] = servants[p][key]
      BY <2>1, <2>2, <3>1 DEF Grown
    <3> QED
      BY <2>4, <2>5, <3>1, <3>2
  <2>6. CASE ref.life # life[p] /\ key \notin AppKeys
    <3>1. servants[p][key] \in {None, ref.meant}
      BY <2>3, <2>6 DEF IInv, ReferenceStaysRight
    <3>2. PICK n \in 1 .. servantIdCounter[p] : key = OID(n)
      BY <2>1, <2>6 DEF Made
    <3>3. servantIdCounter'[p] = servantIdCounter[p] + 1 => key # OID(servantIdCounter'[p])
      BY <1>2, <2>1, <3>2, MadeKeys
    <3>4. key # NameServiceId
      BY <1>2, <2>1, <3>2, MadeKeys
    <3>5. servants'[p][key] = servants[p][key]
      BY <2>1, <2>2, <2>6, <3>3, <3>4 DEF Grown
    <3> QED
      BY <2>4, <2>6, <3>1, <3>5
  <2> QED
    BY <2>5, <2>6
<1> QED
  BY <1>4, <1>5, <1>6

\* An activation under a key that nothing has, or that applications choose.
LEMMA BelongsKeeps ==
    ASSUME IInv, NEW o \in Orbs, NEW key \in Keys, NEW s \in Skeletons,
           Belongs(o, key, s), Grown(o),
           servants[o][key] = None => servants'[o][key] = s,
           key \notin AppKeys => servants[o][key] = None
    PROVE  /\ ProperUseIsActive' /\ ProperUseIsReachable'
           /\ orb' \in [Skeletons -> Orbs \cup {None}]
           /\ objectKey' \in [Skeletons -> Keys \cup {<<>>}]
           /\ use' \in [Skeletons -> {"unused", "proper", "other"}]
<1>1. /\ orb \in [Skeletons -> Orbs \cup {None}]
      /\ objectKey \in [Skeletons -> Keys \cup {<<>>}]
      /\ use \in [Skeletons -> {"unused", "proper", "other"}]
  BY DEF IInv, TypeOK
<1>2. /\ orb' \in [Skeletons -> Orbs \cup {None}]
      /\ objectKey' \in [Skeletons -> Keys \cup {<<>>}]
      /\ use' \in [Skeletons -> {"unused", "proper", "other"}]
      /\ orb'[s] = o /\ objectKey'[s] = key /\ use'[s] = Use(o, key, s)
      /\ \A t \in Skeletons : t # s =>
            orb'[t] = orb[t] /\ objectKey'[t] = objectKey[t] /\ use'[t] = use[t]
  <2>1. Use(o, key, s) \in {"unused", "proper", "other"}
    BY DEF Use
  <2> QED
    BY <1>1, <2>1 DEF Belongs
<1>3. ASSUME NEW t \in Skeletons, use'[t] = "proper"
      PROVE  orb'[t] \in Orbs /\ objectKey'[t] \in Keys /\ servants'[orb'[t]][objectKey'[t]] = t
  <2>1. CASE t = s
    <3>1. servants[o][key] = None
      BY <1>2, <1>3, <2>1 DEF Use
    <3> QED
      BY <1>2, <2>1, <3>1
  <2>2. CASE t # s
    <3>1. /\ orb[t] \in Orbs /\ objectKey[t] \in Keys
          /\ servants[orb[t]][objectKey[t]] = t
      BY <1>2, <1>3, <2>2 DEF IInv, ProperUseIsActive, ProperUseIsReachable, Find
    <3>2. servants'[orb[t]][objectKey[t]] = servants[orb[t]][objectKey[t]]
      BY <3>1, NamesDiffer DEF Grown
    <3> QED
      BY <1>2, <2>2, <3>1, <3>2
  <2> QED
    BY <2>1, <2>2
<1> QED
  BY <1>2, <1>3 DEF ProperUseIsActive, ProperUseIsReachable, Find

LEMMA ActivateObjectWithIdIInv ==
    ASSUME IInv, NEW o \in Orbs, NEW key, NEW s \in Skeletons,
           ActivateObjectWithId(o, key, s)
    PROVE  IInv'
<1>1. /\ TypeOK /\ key \in AppKeys /\ key \in Keys /\ s \in Servants /\ Belongs(o, key, s)
      /\ servants' = [servants EXCEPT ![o] = Emplace(@, key, s)]
      /\ UNCHANGED <<servantIdCounter, namingService, name2Object, ref, life>>
  BY NamesDiffer DEF IInv, ActivateObjectWithId, Activated
<1>2. /\ servants[o] \in [Keys -> Servants \cup {None}]
      /\ servants \in [Orbs -> [Keys -> Servants \cup {None}]]
      /\ servantIdCounter \in [Orbs -> Nat]
  BY <1>1 DEF TypeOK
<1>3. /\ Emplace(servants[o], key, s) \in [Keys -> Servants \cup {None}]
      /\ \A k \in Keys : Emplace(servants[o], key, s)[k] =
            IF k = key /\ servants[o][key] = None THEN s ELSE servants[o][k]
  BY <1>1, <1>2, EmplaceFacts
<1>4. Grown(o) /\ (servants[o][key] = None => servants'[o][key] = s)
  <2>1. /\ servants' \in [Orbs -> [Keys -> Servants \cup {None}]]
        /\ servants'[o] = Emplace(servants[o], key, s)
        /\ \A p \in Orbs : p # o => servants'[p] = servants[p]
    BY <1>1, <1>2, <1>3
  <2> QED
    BY <1>1, <1>2, <1>3, <2>1 DEF Grown
<1>5. KeysAreKnown' /\ ReferenceIsWritten' /\ ReferenceStaysRight'
  BY <1>1, <1>4, GrownKeeps, Counters
<1>6. /\ ProperUseIsActive' /\ ProperUseIsReachable'
      /\ orb' \in [Skeletons -> Orbs \cup {None}]
      /\ objectKey' \in [Skeletons -> Keys \cup {<<>>}]
      /\ use' \in [Skeletons -> {"unused", "proper", "other"}]
  BY <1>1, <1>4, BelongsKeeps
<1>7. TypeOK'
  BY <1>1, <1>4, <1>6 DEF TypeOK, Grown
<1> QED
  BY <1>5, <1>6, <1>7 DEF IInv

\* The next key of activate_object() is new.
LEMMA NextKeyIsFree ==
    ASSUME IInv, NEW o \in Orbs, NextId(o) <= MaxIds[o]
    PROVE  /\ NextId(o) \in Nat /\ OID(NextId(o)) \in Keys
           /\ OID(NextId(o)) # NameServiceId
           /\ OID(NextId(o)) \notin AppKeys => servants[o][OID(NextId(o))] = None
<1> DEFINE key == OID(NextId(o))
<1>1. /\ servantIdCounter[o] \in Nat /\ MaxIds[o] \in Nat /\ MaxIds[o] <= Len(Numerals)
      /\ Len(Numerals) \in Nat
  BY Counters, MadeKeys DEF IInv
<1>2. NextId(o) \in 1 .. Len(Numerals) /\ 1 .. servantIdCounter[o] \subseteq 1 .. Len(Numerals)
      /\ NextId(o) \notin 1 .. servantIdCounter[o] /\ NextId(o) \in Nat
  BY <1>1 DEF NextId
<1>3. key \in Keys /\ key # NameServiceId /\ key \notin Made(o)
  BY <1>2, MadeKeys DEF Made
<1>4. servants[o][key] \in Servants \cup {None}
  BY <1>3 DEF IInv, TypeOK
<1>5. key \notin AppKeys => servants[o][key] = None
  BY <1>3, <1>4 DEF IInv, KeysAreKnown, Servants
<1> QED
  BY <1>2, <1>3, <1>5

LEMMA ActivateObjectIInv ==
    ASSUME IInv, NEW o \in Orbs, NEW s \in Skeletons, ActivateObject(o, s)
    PROVE  IInv'
<1> DEFINE key == OID(NextId(o))
<1>1. /\ TypeOK /\ key \in Keys /\ s \in Servants /\ Belongs(o, key, s)
      /\ servants' = [servants EXCEPT ![o] = Emplace(@, key, s)]
      /\ servantIdCounter' = [servantIdCounter EXCEPT ![o] = NextId(o)]
      /\ NextId(o) <= MaxIds[o] /\ NextId(o) \in Nat
      /\ UNCHANGED <<namingService, name2Object, ref, life>>
      /\ key \notin AppKeys => servants[o][key] = None
  BY NamesDiffer, NextKeyIsFree DEF IInv, ActivateObject, Activated
<1>2. /\ servants[o] \in [Keys -> Servants \cup {None}]
      /\ servants \in [Orbs -> [Keys -> Servants \cup {None}]]
      /\ servantIdCounter \in [Orbs -> Nat]
  BY <1>1 DEF TypeOK
<1> HIDE DEF key
<1>3. /\ Emplace(servants[o], key, s) \in [Keys -> Servants \cup {None}]
      /\ \A k \in Keys : Emplace(servants[o], key, s)[k] =
            IF k = key /\ servants[o][key] = None THEN s ELSE servants[o][k]
  BY <1>1, <1>2, EmplaceFacts
<1>4. /\ servantIdCounter' \in [Orbs -> Nat]
      /\ servantIdCounter'[o] = servantIdCounter[o] + 1
      /\ servantIdCounter'[o] = NextId(o) /\ key = OID(servantIdCounter'[o])
      /\ \A p \in Orbs : p # o => servantIdCounter'[p] = servantIdCounter[p]
  BY <1>1, <1>2 DEF NextId, key
<1>5. Grown(o) /\ (servants[o][key] = None => servants'[o][key] = s)
  <2>1. /\ servants' \in [Orbs -> [Keys -> Servants \cup {None}]]
        /\ servants'[o] = Emplace(servants[o], key, s)
        /\ \A p \in Orbs : p # o => servants'[p] = servants[p]
    BY <1>1, <1>2, <1>3
  <2> QED
    BY <1>1, <1>3, <1>4, <2>1 DEF Grown
<1>6. KeysAreKnown' /\ ReferenceIsWritten' /\ ReferenceStaysRight'
  BY <1>1, <1>4, <1>5, GrownKeeps
<1>7. /\ ProperUseIsActive' /\ ProperUseIsReachable'
      /\ orb' \in [Skeletons -> Orbs \cup {None}]
      /\ objectKey' \in [Skeletons -> Keys \cup {<<>>}]
      /\ use' \in [Skeletons -> {"unused", "proper", "other"}]
  BY <1>1, <1>5, BelongsKeeps
<1>8. \A p \in Orbs : servantIdCounter'[p] <= MaxIds[p]
  BY <1>1, <1>4 DEF TypeOK
<1>9. TypeOK'
  BY <1>1, <1>5, <1>7, <1>8 DEF TypeOK, Grown
<1> QED
  BY <1>6, <1>7, <1>9 DEF IInv

\* Whoever is in proper use is still found while tables grow.
LEMMA GrownKeepsProperUse ==
    ASSUME IInv, NEW o \in Orbs, Grown(o), UNCHANGED <<orb, objectKey, use>>
    PROVE  ProperUseIsActive' /\ ProperUseIsReachable'
<1>1. ASSUME NEW t \in Skeletons, use[t] = "proper"
      PROVE  orb[t] \in Orbs /\ objectKey[t] \in Keys /\ servants'[orb[t]][objectKey[t]] = t
  <2>1. orb[t] \in Orbs /\ objectKey[t] \in Keys /\ servants[orb[t]][objectKey[t]] = t
    BY <1>1 DEF IInv, ProperUseIsActive, ProperUseIsReachable, Find
  <2> QED
    BY <2>1, NamesDiffer DEF Grown
<1> QED
  BY <1>1 DEF ProperUseIsActive, ProperUseIsReachable, Find

LEMMA BindNameTypes ==
    ASSUME name2Object \in [Orbs -> [Names -> Skeletons \cup {None}]],
           NEW o \in Orbs, NEW name \in Names, NEW s \in Skeletons, BindName(o, name, s)
    PROVE  /\ name2Object' \in [Orbs -> [Names -> Skeletons \cup {None}]]
           /\ \A p \in Orbs : p # o => name2Object'[p] = name2Object[p]
  BY DEF BindName

\* What bind() does to the table of o, in its two steps.
LEMMA BindGrows ==
    ASSUME IInv, NEW o \in Orbs, NEW name \in Names, NEW s \in Skeletons, Bind(o, name, s)
    PROVE  /\ Grown(o)
           /\ orb[s] = None /\ servants[o][OID(NextId(o))] = None =>
                 servants'[o][OID(NextId(o))] = s
<1> DEFINE key == OID(NextId(o))
           new == orb[s] = None
           table == IF new THEN Emplace(servants[o], key, s) ELSE servants[o]
           final == IF namingService[o] THEN table
                    ELSE Emplace(table, NameServiceId, NameServiceImpl)
<1>1. /\ new => /\ NextId(o) <= MaxIds[o]
                /\ servantIdCounter' = [servantIdCounter EXCEPT ![o] = NextId(o)]
      /\ ~new => servantIdCounter' = servantIdCounter
      /\ servants' = [servants EXCEPT ![o] = final]
  BY DEF Bind
<1>2. /\ servants \in [Orbs -> [Keys -> Servants \cup {None}]]
      /\ servants[o] \in [Keys -> Servants \cup {None}]
      /\ servantIdCounter \in [Orbs -> Nat]
  BY DEF IInv, TypeOK
<1>3. new => /\ NextId(o) \in Nat /\ key \in Keys /\ key # NameServiceId
             /\ key \notin AppKeys => servants[o][key] = None
  BY <1>1, NextKeyIsFree
<1>4. /\ s \in Servants /\ NameServiceImpl \in Servants /\ NameServiceId \in Keys
      /\ s # None /\ s # NameServiceImpl /\ NameServiceImpl # None
  BY NamesDiffer DEF Servants
<1>5. /\ servantIdCounter' \in [Orbs -> Nat]
      /\ new => /\ servantIdCounter'[o] = servantIdCounter[o] + 1
                /\ key = OID(servantIdCounter'[o])
      /\ ~new => servantIdCounter'[o] = servantIdCounter[o]
      /\ \A p \in Orbs : p # o => servantIdCounter'[p] = servantIdCounter[p]
  BY <1>1, <1>2, <1>3 DEF NextId
<1> HIDE DEF key, new
<1>6. /\ table \in [Keys -> Servants \cup {None}]
      /\ \A k \in Keys : table[k] =
            IF new /\ k = key /\ servants[o][key] = None THEN s ELSE servants[o][k]
  <2>1. CASE new
    BY <1>2, <1>3, <1>4, <2>1, EmplaceFacts
  <2>2. CASE ~new
    BY <1>2, <2>2
  <2> QED
    BY <2>1, <2>2
<1> HIDE DEF table
<1>7. /\ final \in [Keys -> Servants \cup {None}]
      /\ \A k \in Keys : \/ final[k] = table[k]
                         \/ /\ k = NameServiceId /\ table[k] = None
                            /\ final[k] = NameServiceImpl
  <2>1. CASE namingService[o]
    BY <1>6, <2>1
  <2>2. CASE ~namingService[o]
    BY <1>4, <1>6, <2>2, EmplaceFacts
  <2> QED
    BY <2>1, <2>2
<1> HIDE DEF final
<1>8. /\ servants' \in [Orbs -> [Keys -> Servants \cup {None}]]
      /\ servants'[o] = final
      /\ \A p \in Orbs : p # o => servants'[p] = servants[p]
  BY <1>1, <1>2, <1>7
<1>9. ASSUME NEW k \in Keys
      PROVE  \/ final[k] = servants[o][k]
             \/ /\ servants[o][k] = None /\ final[k] \in Skeletons
                /\ \/ k \in AppKeys
                   \/ new /\ k = key
             \/ /\ servants[o][k] = None /\ final[k] = NameServiceImpl
                /\ k = NameServiceId
  BY <1>3, <1>4, <1>6, <1>7
<1>10. Grown(o)
  BY <1>5, <1>8, <1>9 DEF Grown
<1>11. new /\ servants[o][key] = None => servants'[o][key] = s
  BY <1>3, <1>4, <1>6, <1>7, <1>8
<1> QED
  BY <1>10, <1>11 DEF new, key

LEMMA BindIInv ==
    ASSUME IInv, NEW o \in Orbs, NEW name \in Names, NEW s \in Skeletons, Bind(o, name, s)
    PROVE  IInv'
<1>1. /\ TypeOK /\ BindName(o, name, s) /\ UNCHANGED <<ref, life>>
      /\ namingService' = [namingService EXCEPT ![o] = TRUE]
  BY DEF IInv, Bind
<1>2. Grown(o)
  BY BindGrows
<1>3. /\ name2Object' \in [Orbs -> [Names -> Skeletons \cup {None}]]
      /\ \A p \in Orbs : p # o => name2Object'[p] = name2Object[p]
      /\ namingService' \in [Orbs -> BOOLEAN] /\ namingService'[o] = TRUE
      /\ \A p \in Orbs : p # o => namingService'[p] = namingService[p]
  BY <1>1, BindNameTypes DEF TypeOK
<1>4. \A p \in Orbs : servantIdCounter'[p] <= MaxIds[p]
  <2>1. CASE orb[s] = None
    BY <1>1, <2>1 DEF Bind, TypeOK
  <2>2. CASE orb[s] # None
    BY <1>1, <2>2 DEF Bind, TypeOK
  <2> QED
    BY <2>1, <2>2
<1>5. KeysAreKnown' /\ ReferenceIsWritten' /\ ReferenceStaysRight'
  BY <1>1, <1>2, <1>4, GrownKeeps
<1>6. /\ ProperUseIsActive' /\ ProperUseIsReachable'
      /\ orb' \in [Skeletons -> Orbs \cup {None}]
      /\ objectKey' \in [Skeletons -> Keys \cup {<<>>}]
      /\ use' \in [Skeletons -> {"unused", "proper", "other"}]
  <2>1. CASE orb[s] = None
    <3>1. NextId(o) <= MaxIds[o] /\ Belongs(o, OID(NextId(o)), s)
      BY <2>1 DEF Bind
    <3>2. /\ OID(NextId(o)) \in Keys
          /\ OID(NextId(o)) \notin AppKeys => servants[o][OID(NextId(o))] = None
      BY <3>1, NextKeyIsFree
    <3>3. servants[o][OID(NextId(o))] = None => servants'[o][OID(NextId(o))] = s
      BY <2>1, BindGrows
    <3> QED
      BY <1>2, <3>1, <3>2, <3>3, BelongsKeeps
  <2>2. CASE orb[s] # None
    <3>1. UNCHANGED <<orb, objectKey, use>>
      BY <2>2 DEF Bind
    <3> QED
      BY <1>1, <1>2, <3>1, GrownKeepsProperUse DEF TypeOK
  <2> QED
    BY <2>1, <2>2
<1>7. TypeOK'
  <2>1. \A p \in Orbs : ~namingService'[p] =>
                          \A n \in Names : name2Object'[p][n] = None
    BY <1>1, <1>3 DEF TypeOK
  <2>2. ref' \in References \cup {None} /\ life' \in [Orbs -> Nat]
    BY <1>1 DEF TypeOK
  <2> QED
    BY <1>2, <1>3, <1>4, <1>6, <2>1, <2>2 DEF TypeOK, Grown
<1> QED
  BY <1>5, <1>6, <1>7 DEF IInv

\* Shutdown empties the table, so what was written before leads nowhere.
LEMMA ShutdownIInv ==
    ASSUME IInv, NEW o \in Orbs, Shutdown(o)
    PROVE  IInv'
<1>1. /\ TypeOK
      /\ UNCHANGED <<servantIdCounter, orb, objectKey, ref>>
      /\ servants' = [servants EXCEPT ![o] = [key \in Keys |-> None]]
      /\ namingService' = [namingService EXCEPT ![o] = FALSE]
      /\ name2Object' = [name2Object EXCEPT ![o] = [name \in Names |-> None]]
      /\ life' = [life EXCEPT ![o] = @ + 1]
      /\ use' = [s \in Skeletons |-> IF orb[s] = o THEN "other" ELSE use[s]]
  BY DEF IInv, Shutdown, EndNaming
<1>2. /\ servants' \in [Orbs -> [Keys -> Servants \cup {None}]]
      /\ \A key \in Keys : servants'[o][key] = None
      /\ \A p \in Orbs : p # o => servants'[p] = servants[p]
  <2>1. [key \in Keys |-> None] \in [Keys -> Servants \cup {None}]
    OBVIOUS
  <2> QED
    BY <1>1, <2>1 DEF TypeOK
<1>3. /\ life \in [Orbs -> Nat] /\ life' \in [Orbs -> Nat]
      /\ life'[o] = life[o] + 1
      /\ \A p \in Orbs : p # o => life'[p] = life[p]
  BY <1>1 DEF TypeOK
<1>4. /\ use' \in [Skeletons -> {"unused", "proper", "other"}]
      /\ \A s \in Skeletons : use'[s] = "proper" => use[s] = "proper" /\ orb[s] # o
  BY <1>1 DEF TypeOK
<1>5. TypeOK'
  <2>1. namingService' \in [Orbs -> BOOLEAN]
    BY <1>1 DEF TypeOK
  <2>2. name2Object' \in [Orbs -> [Names -> Skeletons \cup {None}]]
    BY <1>1 DEF TypeOK
  <2>3. \A p \in Orbs : ~namingService'[p] => \A name \in Names : name2Object'[p][name] = None
    BY <1>1 DEF TypeOK
  <2> QED
    BY <1>1, <1>2, <1>3, <1>4, <2>1, <2>2, <2>3 DEF TypeOK
<1>6. KeysAreKnown'
  BY <1>1, <1>2, NamesDiffer DEF IInv, KeysAreKnown, Made
<1>7. /\ ReferenceIsWritten'
      /\ ref # None => ref.by \in Orbs /\ ref.life \in Nat /\ ref.life <= life[ref.by]
  <2> SUFFICES ASSUME ref # None
               PROVE  /\ ref.at = Address[ref.by] /\ ref.life <= life'[ref.by]
                      /\ ref.proper => ref.key \in AppKeys \cup Made(ref.by)
                      /\ ref.by \in Orbs /\ ref.life \in Nat /\ ref.life <= life[ref.by]
    BY <1>1 DEF ReferenceIsWritten, Made
  <2>1. ref.by \in Orbs /\ ref.life \in Nat
    BY <1>1 DEF TypeOK, References
  <2>2. /\ ref.at = Address[ref.by] /\ ref.life <= life[ref.by]
        /\ ref.proper => ref.key \in AppKeys \cup Made(ref.by)
    BY DEF IInv, ReferenceIsWritten
  <2>3. life[ref.by] \in Nat /\ life[ref.by] <= life'[ref.by] /\ life'[ref.by] \in Nat
    BY <1>3, <2>1
  <2> QED
    BY <2>1, <2>2, <2>3
<1>8. ReferenceStaysRight'
  <2> SUFFICES ASSUME ref # None, ref.proper
               PROVE  IF ref.life = life'[ref.by] THEN Target(ref)' = ref.meant
                      ELSE ref.key \in AppKeys \/ Target(ref)' \in {None, ref.meant}
    BY <1>1 DEF ReferenceStaysRight
  <2>1. ref.by \in Orbs /\ ref.at = Address[ref.by]
    BY <1>7 DEF IInv, ReferenceIsWritten
  <2>2. /\ (CHOOSE q \in Orbs : Address[q] = ref.at) = ref.by
        /\ (CHOOSE q \in Orbs : Address[q] = ref'.at) = ref.by
    BY <1>1, <2>1, AdapterAssumption
  <2>3. Target(ref)' = IF ref.key \in Keys THEN servants'[ref.by][ref.key] ELSE None
    <3>1. ref' = ref
      BY <1>1
    <3>2. ref.key \in Keys => Target(ref)' = servants'[ref.by][ref.key]
      BY <2>1, <3>1, AdapterAssumption DEF Target, Find
    <3>3. ref.key \notin Keys => Target(ref)' = None
      BY <3>1 DEF Target, Find
    <3> QED
      BY <3>2, <3>3
  <2>4. CASE ref.by = o
    <3>1. ref.life # life'[o]
      BY <1>3, <1>7, <2>4
    <3>2. Target(ref)' = None
      BY <1>2, <2>3, <2>4
    <3> QED
      BY <2>4, <3>1, <3>2
  <2>5. CASE ref.by # o
    <3>1. servants'[ref.by] = servants[ref.by] /\ life'[ref.by] = life[ref.by]
      BY <1>2, <1>3, <2>1, <2>5
    <3>2. Target(ref) = IF ref.key \in Keys THEN servants[ref.by][ref.key] ELSE None
      BY <2>1, TargetIsThere
    <3>3. Target(ref)' = Target(ref)
      BY ONLY <2>3, <3>1, <3>2
    <3>4. IF ref.life = life[ref.by] THEN Target(ref) = ref.meant
          ELSE ref.key \in AppKeys \/ Target(ref) \in {None, ref.meant}
      BY DEF IInv, ReferenceStaysRight
    <3> QED
      BY ONLY <3>1, <3>3, <3>4
  <2> QED
    BY <2>4, <2>5
<1>9. ProperUseIsActive' /\ ProperUseIsReachable'
  <2>1. ASSUME NEW s \in Skeletons, use'[s] = "proper"
        PROVE  orb[s] \in Orbs /\ objectKey[s] \in Keys /\ servants'[orb[s]][objectKey[s]] = s
    <3>1. orb[s] # o /\ orb[s] \in Orbs /\ objectKey[s] \in Keys
          /\ servants[orb[s]][objectKey[s]] = s
      BY <1>4, <2>1 DEF IInv, ProperUseIsActive, ProperUseIsReachable, Find
    <3> QED
      BY <1>2, <3>1
  <2> QED
    BY <1>1, <2>1 DEF ProperUseIsActive, ProperUseIsReachable, Find
<1> QED
  BY <1>5, <1>6, <1>7, <1>8, <1>9 DEF IInv

LEMMA StutterIInv ==
    ASSUME IInv, UNCHANGED vars
    PROVE  IInv'
<1>1. UNCHANGED <<servants, servantIdCounter, namingService, name2Object,
                  orb, objectKey, ref, life, use>>
  BY DEF vars
<1>2. TypeOK'
  BY <1>1 DEF IInv, TypeOK
<1>3. KeysAreKnown'
  BY <1>1 DEF IInv, KeysAreKnown, Made
<1>4. ReferenceIsWritten'
  BY <1>1 DEF IInv, ReferenceIsWritten, Made
<1>5. ReferenceStaysRight'
  BY <1>1 DEF IInv, ReferenceStaysRight, Target, Find
<1>6. ProperUseIsActive' /\ ProperUseIsReachable'
  BY <1>1 DEF IInv, ProperUseIsActive, ProperUseIsReachable, Find
<1> QED
  BY <1>2, <1>3, <1>4, <1>5, <1>6 DEF IInv

\* A reference that says truly, now, whether it leads to the servant that is meant.
LEMMA NewReferenceIInv ==
    ASSUME IInv, NEW r \in References,
           r.at = Address[r.by], r.life = life[r.by],
           r.proper => Find(r.by, r.key) = r.meant,
           ref' = r, UNCHANGED <<tables, orb, objectKey, life, use>>
    PROVE  IInv'
<1>1. /\ TypeOK
      /\ UNCHANGED <<servants, servantIdCounter, namingService, name2Object>>
      /\ r.by \in Orbs /\ r.meant \in Skeletons /\ r.key \in Keys \cup {<<>>}
  BY DEF IInv, tables, References
<1>2. /\ TypeOK' /\ KeysAreKnown' /\ ProperUseIsActive' /\ ProperUseIsReachable'
  <2>1. TypeOK'
    BY <1>1 DEF TypeOK
  <2>2. KeysAreKnown'
    BY <1>1 DEF IInv, KeysAreKnown, Made
  <2>3. ProperUseIsActive' /\ ProperUseIsReachable'
    BY <1>1 DEF IInv, ProperUseIsActive, ProperUseIsReachable, Find
  <2> QED
    BY <2>1, <2>2, <2>3
<1>3. r.proper => r.key \in Keys /\ servants[r.by][r.key] = r.meant
  BY <1>1, NamesDiffer DEF Find
<1>4. ReferenceIsWritten'
  <2>1. life[r.by] \in Nat
    BY <1>1 DEF TypeOK
  <2>2. r.proper => r.key \in AppKeys \cup Made(r.by)
    BY <1>1, <1>3 DEF IInv, KeysAreKnown
  <2> QED
    BY <1>1, <2>1, <2>2 DEF ReferenceIsWritten, Made
<1>5. ReferenceStaysRight'
  <2>1. Target(r)' = Target(r)
    BY <1>1 DEF Target, Find
  <2>2. Target(r) = IF r.key \in Keys THEN servants[r.by][r.key] ELSE None
    BY <1>1, TargetIsThere
  <2> QED
    BY <1>1, <1>3, <2>1, <2>2 DEF ReferenceStaysRight
<1> QED
  BY <1>2, <1>4, <1>5 DEF IInv

LEMMA WriteReferenceIInv ==
    ASSUME IInv, NEW o \in Orbs, NEW s \in Skeletons, ref' = writeReference(o, s),
           UNCHANGED <<tables, orb, objectKey, life, use>>
    PROVE  IInv'
<1> DEFINE r == writeReference(o, s)
<1>1. /\ r.at = Address[o] /\ r.by = o /\ r.meant = s /\ r.life = life[o]
      /\ r.key = objectKey[s]
      /\ r.proper <=> Find(o, objectKey[s]) = s
  BY DEF writeReference
<1>2. r \in References
  BY DEF writeReference, References, IInv, TypeOK
<1> QED
  BY <1>1, <1>2, NewReferenceIInv

LEMMA PassStubIInv ==
    ASSUME IInv, NEW o \in Orbs, NEW p \in Orbs, PassStub(o, p)
    PROVE  IInv'
<1> DEFINE r == writeStub(o, p)
<1>1. /\ ref # None /\ ref' = r /\ ref \in References
      /\ UNCHANGED <<tables, orb, objectKey, life, use>>
  BY DEF PassStub, IInv, TypeOK
<1>2. CASE p = ref.by
  <2>1. r = ref
    BY <1>1, <1>2 DEF writeStub, IInv, ReferenceIsWritten, References
  <2>2. UNCHANGED vars
    BY <1>1, <2>1 DEF vars, tables
  <2> QED
    BY <2>2, StutterIInv
<1>3. CASE p # ref.by
  <2>1. /\ r.at = Address[p] /\ r.by = p /\ r.life = life[p] /\ r.meant = ref.meant
        /\ r.key = ref.key
        /\ r.proper <=> Find(p, ref.key) = ref.meant
    BY <1>1, <1>3 DEF writeStub, References
  <2>2. r \in References
    <3>1. life[p] \in Nat
      BY DEF IInv, TypeOK
    <3> QED
      BY <1>1, <1>3, <3>1 DEF writeStub, References
  <2> QED
    BY <1>1, <2>1, <2>2, NewReferenceIInv
<1> QED
  BY <1>2, <1>3

LEMMA ReturnObjectIInv ==
    ASSUME IInv, NEW o \in Orbs, NEW s \in Skeletons, ReturnObject(o, s)
    PROVE  IInv'
  BY WriteReferenceIInv DEF ReturnObject

LEMMA ResolveIInv ==
    ASSUME IInv, NEW o \in Orbs, NEW key, NEW name, Resolve(o, key, name)
    PROVE  IInv'
<1>1. name2Object[o][name] \in Skeletons
  BY DEF Resolve, Resolvable, IInv, TypeOK
<1> QED
  BY <1>1, WriteReferenceIInv DEF Resolve

LEMMA InitIInv ==
    ASSUME Init
    PROVE  IInv
<1>1. TypeOK
  <2>1. [key \in Keys |-> None] \in [Keys -> Servants \cup {None}]
    OBVIOUS
  <2>2. servants \in [Orbs -> [Keys -> Servants \cup {None}]]
    BY <2>1 DEF Init
  <2>3. ASSUME NEW o \in Orbs PROVE servantIdCounter[o] <= MaxIds[o]
    <3>1. MaxIds[o] \in Nat /\ servantIdCounter[o] = 0
      BY AdapterAssumption DEF Init
    <3> QED
      BY <3>1
  <2>4. /\ orb \in [Skeletons -> Orbs \cup {None}]
        /\ objectKey \in [Skeletons -> Keys \cup {<<>>}]
        /\ use \in [Skeletons -> {"unused", "proper", "other"}]
    BY DEF Init
  <2> QED
    BY <2>2, <2>3, <2>4 DEF Init, TypeOK
<1>2. KeysAreKnown /\ ProperUseIsActive /\ ProperUseIsReachable
  BY NamesDiffer DEF Init, KeysAreKnown, ProperUseIsActive, ProperUseIsReachable
<1>3. ReferenceIsWritten /\ ReferenceStaysRight
  BY DEF Init, ReferenceIsWritten, ReferenceStaysRight
<1> QED
  BY <1>1, <1>2, <1>3 DEF IInv

LEMMA NextIInv ==
    ASSUME IInv, Next
    PROVE  IInv'
<1>1. ASSUME NEW o \in Orbs, Shutdown(o) PROVE IInv'
  BY <1>1, ShutdownIInv
<1>2. ASSUME NEW o \in Orbs, NEW p \in Orbs, PassStub(o, p) PROVE IInv'
  BY <1>2, PassStubIInv
<1>3. ASSUME NEW o \in Orbs, NEW s \in Skeletons, ActivateObject(o, s) PROVE IInv'
  BY <1>3, ActivateObjectIInv
<1>4. ASSUME NEW o \in Orbs, NEW s \in Skeletons, ReturnObject(o, s) PROVE IInv'
  BY <1>4, ReturnObjectIInv
<1>5. ASSUME NEW o \in Orbs, NEW s \in Skeletons, NEW key \in AppKeys,
             ActivateObjectWithId(o, key, s)
      PROVE  IInv'
  BY <1>5, ActivateObjectWithIdIInv
<1>6. ASSUME NEW o \in Orbs, NEW s \in Skeletons, NEW name \in Names, Bind(o, name, s)
      PROVE  IInv'
  BY <1>6, BindIInv
<1>7. ASSUME NEW o \in Orbs, NEW name \in Names, Resolve(o, NameServiceId, name)
      PROVE  IInv'
  BY <1>7, ResolveIInv
<1> QED
  BY <1>1, <1>2, <1>3, <1>4, <1>5, <1>6, <1>7 DEF Next

-----------------------------------------------------------------------------
\* No order of activations, bindings, lookups, shutdowns and references that are
\* passed on breaks the invariant.
THEOREM Invariance == Spec => []IInv
<1>1. Init => IInv
  BY InitIInv
<1>2. IInv /\ [Next]_vars => IInv'
  BY NextIInv, StutterIInv
<1> QED
  BY <1>1, <1>2, PTL DEF Spec

\* The tables, the counters, the skeletons and the reference have their types, the
\* counter stays within its bound, and names are bound only while ORB::bind()'s
\* name service exists.
THEOREM TypeCorrect == Spec => []TypeOK
<1>1. IInv => TypeOK
  BY DEF IInv
<1> QED
  BY <1>1, Invariance, PTL

\* Until the ORB is shut down, a reference leads to the servant it was written for
\* by writeObject(); afterwards to none, or to that one, whatever activate_object(),
\* bind() and shutdown() do in between.
THEOREM ReferencesStayRight == Spec => []ReferenceStaysRight
<1>1. IInv => ReferenceStaysRight
  BY DEF IInv
<1> QED
  BY <1>1, Invariance, PTL

\* activate_object() and the free keys of activate_object_with_id() make a servant
\* reachable, whatever is done with other servants.
THEOREM ProperUseStays == Spec => []ProperUseIsReachable
<1>1. IInv => ProperUseIsReachable
  BY DEF IInv
<1> QED
  BY <1>1, Invariance, PTL

-----------------------------------------------------------------------------
(* The same, when clients look objects up by URL, at whatever name services  *)
(* the decoded URLs say.                                                     *)

\* stringToObject() only does what resolve() does, and decoding a URL nothing.
LEMMA ReferencesStep ==
    ASSUME IInv, [ReferencesNext]_referenceVars
    PROVE  IInv'
<1>1. CASE Next
  BY <1>1, NextIInv
<1>2. CASE UNCHANGED vars
  BY <1>2, StutterIInv
<1>3. ASSUME NEW f \in Lookups, StringToObject(f) PROVE IInv'
  BY <1>3, ResolveIInv DEF StringToObject
<1> QED
  BY <1>1, <1>2, <1>3 DEF ReferencesNext, DecodeURI, referenceVars

\* With stringToObject() among the ways to get a reference, references lead to
\* the servants they were written for, and servants in proper use are found.
THEOREM LookupsAreSafe ==
    ReferencesSpec => [](TypeOK /\ ReferenceStaysRight /\ ProperUseIsReachable)
<1>1. ReferencesInit => IInv
  BY InitIInv DEF ReferencesInit
<1>2. IInv /\ [ReferencesNext]_referenceVars => IInv'
  BY ReferencesStep
<1>3. IInv => TypeOK /\ ReferenceStaysRight /\ ProperUseIsReachable
  BY DEF IInv
<1> QED
  BY <1>1, <1>2, <1>3, PTL DEF ReferencesSpec

-----------------------------------------------------------------------------
(* What a step may never do.                                                *)

\* What is stored under a key or a name of an ORB stays there until that ORB is
\* shut down, and no counter ever goes back.
EntriesStay ==
    \A o \in Orbs :
        /\ servantIdCounter'[o] >= servantIdCounter[o]
        /\ life'[o] = life[o] =>
              /\ \A key \in Keys :
                    servants[o][key] # None => servants'[o][key] = servants[o][key]
              /\ \A name \in Names :
                    name2Object[o][name] # None =>
                        name2Object'[o][name] = name2Object[o][name]

\* Entries that stay as they are, or are made where there are none.
LEMMA NothingChangesStays ==
    ASSUME TypeOK, UNCHANGED tables
    PROVE  EntriesStay
<1>1. \A o \in Orbs : servantIdCounter[o] >= servantIdCounter[o]
  BY Counters
<1> QED
  BY <1>1 DEF EntriesStay, tables

LEMMA ActivatedStays ==
    ASSUME TypeOK, NEW o \in Orbs, NEW key \in Keys, NEW s \in Skeletons,
           Activated(o, key, s), UNCHANGED name2Object,
           \A p \in Orbs : servantIdCounter'[p] >= servantIdCounter[p]
    PROVE  EntriesStay
<1>1. /\ servants \in [Orbs -> [Keys -> Servants \cup {None}]]
      /\ servants' = [servants EXCEPT ![o] = Emplace(servants[o], key, s)]
  BY DEF TypeOK, Activated
<1>2. ASSUME NEW p \in Orbs, NEW k \in Keys, servants[p][k] # None
      PROVE  servants'[p][k] = servants[p][k]
  <2>1. CASE p = o
    <3>1. servants'[o][k] = Emplace(servants[o], key, s)[k]
      BY <1>1
    <3>2. /\ servants[o] \in [Keys -> Servants \cup {None}]
          /\ s \in Servants
      BY <1>1 DEF Servants
    <3> QED
      BY <1>2, <2>1, <3>1, <3>2, EmplaceFacts
  <2>2. CASE p # o
    BY <1>1, <2>2
  <2> QED
    BY <2>1, <2>2
<1> QED
  BY <1>2 DEF EntriesStay

LEMMA BindStays ==
    ASSUME IInv, NEW o \in Orbs, NEW name \in Names, NEW s \in Skeletons, Bind(o, name, s)
    PROVE  EntriesStay
<1>1. Grown(o)
  BY BindGrows
<1>2. /\ name2Object \in [Orbs -> [Names -> Skeletons \cup {None}]]
      /\ \A p \in Orbs : servantIdCounter[p] \in Nat
  BY DEF IInv, TypeOK
<1>3. \A p \in Orbs : servantIdCounter'[p] >= servantIdCounter[p]
  BY <1>1, <1>2 DEF Grown
<1>4. \A p \in Orbs, key \in Keys :
          servants[p][key] # None => servants'[p][key] = servants[p][key]
  BY <1>1 DEF Grown
<1>5. \A p \in Orbs, n \in Names :
          name2Object[p][n] # None => name2Object'[p][n] = name2Object[p][n]
  BY <1>2 DEF Bind, BindName
<1> QED
  BY <1>3, <1>4, <1>5 DEF EntriesStay

LEMMA ShutdownStays ==
    ASSUME TypeOK, NEW o \in Orbs, Shutdown(o)
    PROVE  EntriesStay
<1>1. /\ servants \in [Orbs -> [Keys -> Servants \cup {None}]]
      /\ name2Object \in [Orbs -> [Names -> Skeletons \cup {None}]]
      /\ life \in [Orbs -> Nat]
  BY DEF TypeOK
<1>2. \A p \in Orbs : servantIdCounter'[p] >= servantIdCounter[p]
  BY Counters DEF Shutdown
<1>3. life'[o] # life[o]
  BY <1>1 DEF Shutdown
<1>4. \A p \in Orbs : p # o => /\ servants'[p] = servants[p]
                               /\ name2Object'[p] = name2Object[p]
  BY <1>1 DEF Shutdown, EndNaming
<1> QED
  BY <1>2, <1>3, <1>4 DEF EntriesStay

LEMMA NextStays ==
    ASSUME IInv, Next
    PROVE  EntriesStay
<1>1. TypeOK
  BY DEF IInv
<1>2. ASSUME NEW o \in Orbs, Shutdown(o) PROVE EntriesStay
  BY <1>1, <1>2, ShutdownStays
<1>3. ASSUME NEW o \in Orbs, NEW p \in Orbs, PassStub(o, p) PROVE EntriesStay
  BY <1>1, <1>3, NothingChangesStays DEF PassStub
<1>4. ASSUME NEW o \in Orbs, NEW s \in Skeletons, ActivateObject(o, s) PROVE EntriesStay
  <2>1. OID(NextId(o)) \in Keys
    BY <1>4, NextKeyIsFree DEF ActivateObject
  <2>2. \A p \in Orbs : servantIdCounter'[p] >= servantIdCounter[p]
    <3>1. servantIdCounter \in [Orbs -> Nat]
      BY <1>1 DEF TypeOK
    <3> QED
      BY <1>4, <3>1 DEF ActivateObject, NextId
  <2> QED
    BY <1>1, <1>4, <2>1, <2>2, ActivatedStays DEF ActivateObject
<1>5. ASSUME NEW o \in Orbs, NEW s \in Skeletons, NEW key \in AppKeys,
             ActivateObjectWithId(o, key, s)
      PROVE  EntriesStay
  <2>1. /\ key \in Keys
        /\ \A p \in Orbs : servantIdCounter'[p] >= servantIdCounter[p]
    BY <1>1, <1>5, NamesDiffer, Counters DEF ActivateObjectWithId
  <2> QED
    BY <1>1, <1>5, <2>1, ActivatedStays DEF ActivateObjectWithId
<1>6. ASSUME NEW o \in Orbs, NEW s \in Skeletons, NEW name \in Names, Bind(o, name, s)
      PROVE  EntriesStay
  BY <1>6, BindStays
<1>7. ASSUME NEW o \in Orbs, NEW s \in Skeletons, ReturnObject(o, s) PROVE EntriesStay
  BY <1>1, <1>7, NothingChangesStays DEF ReturnObject
<1>8. ASSUME NEW o \in Orbs, NEW name \in Names, Resolve(o, NameServiceId, name)
      PROVE  EntriesStay
  BY <1>1, <1>8, NothingChangesStays DEF Resolve
<1> QED
  BY <1>2, <1>3, <1>4, <1>5, <1>6, <1>7, <1>8 DEF Next

\* activate_object(), activate_object_with_id() and bind() take no key and no name
\* from the servant that has it, and a shutdown leaves servantIdCounter as it is:
\* what is found once is found until shutdown(), and no key is made a second time.
THEOREM TakenStaysTaken == ReferencesSpec => [][EntriesStay]_referenceVars
<1>1. ReferencesInit => IInv
  BY InitIInv DEF ReferencesInit
<1>2. IInv /\ [ReferencesNext]_referenceVars => IInv'
  BY ReferencesStep
<1>3. IInv /\ [ReferencesNext]_referenceVars => [EntriesStay]_referenceVars
  <2> SUFFICES ASSUME IInv, ReferencesNext PROVE EntriesStay
    OBVIOUS
  <2>1. TypeOK
    BY DEF IInv
  <2>2. CASE Next
    BY <2>2, NextStays
  <2>3. CASE DecodeURI
    BY <2>1, <2>3, NothingChangesStays DEF DecodeURI, vars, tables
  <2>4. ASSUME NEW f \in Lookups, StringToObject(f) PROVE EntriesStay
    BY <2>1, <2>4, NothingChangesStays DEF StringToObject, Resolve
  <2> QED
    BY <2>2, <2>3, <2>4 DEF ReferencesNext
<1> QED
  BY <1>1, <1>2, <1>3, PTL DEF ReferencesSpec

=============================================================================
