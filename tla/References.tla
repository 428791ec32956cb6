----------------------------- MODULE References -----------------------------
(* A client that looks up objects by URL, ORB::stringToObject(), in the     *)
(* ORBs of ObjectAdapter; and what a URL is meant to say, against which the *)
(* parser of module Url is checked.                                         *)
EXTENDS ObjectAdapter, Url

CONSTANTS
    Forms,      \* URLs, in parts; a part that is left out is empty
    Lookups     \* those of them that clients pass to stringToObject()

ASSUME LookupsAssumption == Lookups \subseteq Forms

VARIABLE decoded    \* the last URL that was only decoded, with what came out

referenceVars == <<vars, decoded>>

\* The URL in tokens, by the grammar corbaloc_name/corbaname.
WrittenAddress(a) ==
    IF a.proto = "rir:" THEN <<"rir:">>
    ELSE FlattenSeq(<<<<a.proto>>,
             IF a.version = <<>> THEN <<>> ELSE <<a.version[1], ".", a.version[2], "@">>,
             a.host, IF a.port = <<>> THEN <<>> ELSE <<":">> \o a.port>>)

Written(f) ==
    FlattenSeq(<<<<f.scheme>>, WrittenAddress(f.addr[1]),
        FlattenSeq([i \in 1 .. Len(f.addr) - 1 |-> <<",">> \o WrittenAddress(f.addr[i + 1])]),
        IF f.key = <<>> THEN <<>> ELSE <<"/">> \o f.key,
        IF f.name = <<>> THEN <<>> ELSE <<"#">> \o f.name>>)

\* What its parts say.
MeantAddress(a) ==
    IF a.proto = "rir:" THEN Rir
    ELSE [proto |-> "iiop", host |-> a.host,
          version |-> IF a.version = <<>> THEN <<1, 0>>
                      ELSE <<NumberOf[a.version[1]], NumberOf[a.version[2]]>>,
          port |-> IF a.port = <<>> THEN DefaultPort ELSE Port(a.port[1])]

MeantKey(f) == IF f.key # <<>> THEN f.key
               ELSE IF f.scheme = "corbaname:" THEN NameServiceKey ELSE <<>>

\* decodeURI() for its own sake.  Bound: before anything else happens, for it
\* neither reads nor changes the rest.
DecodeURI ==
    /\ ref = None /\ \A s \in Skeletons : use[s] = "unused"
    /\ \A o \in Orbs : ~namingService[o] /\ life[o] = 0
    /\ \E f \in Forms : decoded' = [form |-> f, uri |-> decodeURI(Written(f))]
    /\ UNCHANGED vars

Decoded == [f \in Lookups |-> decodeURI(Written(f))]

\* A corbaname whose first address is that of o; an address of another protocol
\* than iiop makes stringToObject() throw.
NameService(o, uriOf, first) ==
    /\ uriOf.ok /\ uriOf.scheme = "corbaname:" /\ first.proto = "iiop"
    /\ Address[o] = [host |-> first.host, port |-> first.port]

\* stringToObject(): the name service at the first address of a corbaname is
\* asked for its name.  An "IOR:" string, of which this module has none, is a
\* reference itself; anything else throws.
StringToObject(f) ==
    /\ decoded = None
    /\ \E o \in Orbs :
           /\ NameService(o, Decoded[f], Decoded[f].addr[1])
           /\ Resolve(o, Decoded[f].objectKey, Decoded[f].name)
    /\ UNCHANGED decoded

ReferencesInit == Init /\ decoded = None
ReferencesNext == \/ decoded = None /\ Next /\ UNCHANGED decoded
                  \/ DecodeURI
                  \/ \E f \in Lookups : StringToObject(f)
ReferencesSpec == ReferencesInit /\ [][ReferencesNext]_referenceVars

-----------------------------------------------------------------------------
\* An address with a bracket that is not closed, or a port that does not end
\* where its digits end.
Malformed(a) == a.host = <<"[">> \/ (a.port # <<>> /\ a.port[1] \notin Numbers)
MalformedOnes(f) == {i \in DOMAIN f.addr : Malformed(f.addr[i])}

\* Numbers that fit into major, minor and port are read as they are written.
Fits(a) == a.version[1] < 256 /\ a.version[2] < 256 /\ a.port < 65536
AddressIsMeant(read, meant) ==
    IF Fits(meant) THEN read = meant
    ELSE read.proto = meant.proto /\ read.host = meant.host

\* The first count addresses.
AddressesAreMeant(f, uriOf, count) ==
    /\ Len(uriOf.addr) >= count
    /\ \A i \in 1 .. count : AddressIsMeant(uriOf.addr[i], MeantAddress(f.addr[i]))

\* What came out of decodeURI() is what the URL's parts say.
Understood(f, uriOf) ==
    /\ uriOf.ok
    /\ AddressesAreMeant(f, uriOf, Len(f.addr)) /\ Len(uriOf.addr) = Len(f.addr)
    /\ uriOf.name = f.name \/ "." \in ToSet(f.key)
    /\ uriOf.objectKey = IF f.key # <<>> /\ f.name # <<>> THEN f.key \o <<"#">> \o f.name
                         ELSE MeantKey(f)
    /\ f.name = <<>> => decodeURI(str(uriOf)) = uriOf

\* What comes before the first malformed address is read all the same, and a
\* bracket that nothing closes makes decodeURI() throw.
Recognised(f, uriOf) ==
    /\ uriOf.ok => AddressesAreMeant(f, uriOf, Min(MalformedOnes(f)) - 1)
    /\ MalformedOnes(f) = {Len(f.addr)} /\ Last(f.addr).host = <<"[">> => ~uriOf.ok

\* decodeURI() reads a URL as it was meant, backtracking out of versions that
\* are addresses and past empty hosts: all addresses, the name and the key,
\* dots in either included, and numbers unless they are too large.  Where a name
\* follows a key uri() counts wrongly: "#" and the name, and no more, are taken
\* into the key, so that the name service is not found, and the name is lost
\* behind a key with a dot.  So what str() writes is read as the same only if
\* it has no name, for str() always writes the key.
DecodeIsMeaning ==
    decoded # None =>
        IF MalformedOnes(decoded.form) = {} THEN Understood(decoded.form, decoded.uri)
        ELSE Recognised(decoded.form, decoded.uri)

\* A lookup that succeeds returns what is bound to the URL's name at the URL's
\* first address, and the reference leads there if the object is in proper use
\* in that ORB.
LookupFindsNamed ==
    [][\A f \in Lookups : ref' # ref /\ StringToObject(f) =>
          LET first == MeantAddress(f.addr[1])
              o == ref'.by
              s == ref'.meant
          IN
          /\ Address[o] = [host |-> first.host, port |-> first.port]
          /\ s = name2Object[o][f.name]
          /\ use[s] = "proper" /\ orb[s] = o => ref'.proper]_referenceVars
=============================================================================
