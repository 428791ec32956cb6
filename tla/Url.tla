-------------------------------- MODULE Url --------------------------------
(* decodeURI(): the recursive descent parser of corbaloc and corbaname URLs *)
(* with its backtracking; and str(), which writes what was read.            *)
(*                                                                          *)
(* A URL is a sequence of tokens: "corbaname:", "corbaloc:", "rir:",        *)
(* "iiop:", punctuation, IPv6 addresses with their brackets, "[" where the   *)
(* other bracket is missing, and labels of letters, digits and "-".  A      *)
(* position is an index into it.  Digits and letters that stand next to     *)
(* each other are one label.                                                *)
EXTENDS Integers, SequencesExt

CONSTANTS
    Labels,     \* the labels
    NumberOf,   \* the value of the labels that are made of digits
    Leading,    \* the number that other labels begin with, of those that do
    Ipv6        \* "[...]"

ASSUME UrlAssumption == /\ DOMAIN NumberOf \subseteq Labels
                        /\ DOMAIN Leading \subseteq Labels \ DOMAIN NumberOf
                        /\ \A l, m \in DOMAIN NumberOf : NumberOf[l] = NumberOf[m] => l = m

Numbers == DOMAIN NumberOf
DefaultPort == 2809
NameServiceKey == <<"NameService">>

\* The tokens UrlLexer::uri() goes on over.  "." is not among them.
UriTokens == Labels \cup {":", ",", "/", "@", "iiop:", "rir:", "corbaloc:", "corbaname:"}

\* UrlLexer::match() and the tests of number() and label().
At(url, pos, tokens) == pos <= Len(url) /\ url[pos] \in tokens

\* The first position from pos on that does not hold one of these tokens.
RunEnd(url, pos, tokens) ==
    CHOOSE end \in pos .. Len(url) + 1 :
        ~At(url, end, tokens) /\ \A i \in pos .. end - 1 : url[i] \in tokens

-----------------------------------------------------------------------------
\* Definitions named <Operator>_<Slip> are <Operator> with a plausible slip;
\* the properties are shown to notice them.

\* Whether major.minor@ is next.
HasVersion(url, pos) == /\ At(url, pos, Numbers) /\ At(url, pos + 1, {"."})
                        /\ At(url, pos + 2, Numbers) /\ At(url, pos + 3, {"@"})

VersionEnd_NoReset(url, pos) ==
    IF HasVersion(url, pos) THEN pos + 4
    ELSE IF At(url, pos, Numbers) /\ At(url, pos + 1, {"."}) THEN pos + 2 ELSE pos
\* A number that turns out not to begin a version is read again.
VersionEnd(url, pos) == IF HasVersion(url, pos) THEN pos + 4 ELSE pos

\* Behind the next "]", be it that of a later address; 0 if there is none.
BracketEnd(url, pos) ==
    LET closing == SelectInSubSeq(url, pos, Len(url), LAMBDA token : token \in Ipv6)
    IN  IF closing = 0 THEN 0 ELSE closing + 1

\* An IPv6 address, or labels joined by ".", which may all be empty.
HostEnd(url, pos) == IF At(url, pos, Ipv6 \cup {"["}) THEN BracketEnd(url, pos)
                     ELSE RunEnd(url, pos, Labels \cup {"."})

\* number() for a port: what follows the digits in a label is left, and nothing
\* that may come after a port matches there.
BeginsWithDigits == Numbers \cup DOMAIN Leading
Port(label) == IF label \in Numbers THEN NumberOf[label] ELSE Leading[label]
PortEnd(url, pos) == IF url[pos] \in Numbers THEN pos + 1 ELSE pos

Failure == [ok |-> FALSE, addr |-> <<>>, next |-> 0]

\* The numbers of the version and the port are cut to 8 and 16 bits.
ObjectAddress(url, pos, host, end) ==
    [proto |-> "iiop", host |-> SubSeq(url, host, end - 1),
     version |-> IF HasVersion(url, pos)
                 THEN <<NumberOf[url[pos]] % 256, NumberOf[url[pos + 2]] % 256>> ELSE <<1, 0>>,
     port |-> IF At(url, end, {":"}) THEN Port(url[end + 1]) % 65536 ELSE DefaultPort]

\* The host is at positions host .. end - 1.  A host without its "]" and ":"
\* without a number make it throw.
HostAndPort(url, pos, host, end) ==
    IF end = 0 \/ (At(url, end, {":"}) /\ ~At(url, end + 1, BeginsWithDigits)) THEN Failure
    ELSE [ok |-> TRUE, addr |-> <<ObjectAddress(url, pos, host, end)>>,
          next |-> IF At(url, end, {":"}) THEN PortEnd(url, end + 1) ELSE end]

iiop_addr(url, pos) ==
    HostAndPort(url, pos, VersionEnd(url, pos), HostEnd(url, VersionEnd(url, pos)))

Rir == [proto |-> "rir", version |-> <<1, 0>>, host |-> <<>>, port |-> DefaultPort]

prot_addr(url, pos) ==
    IF At(url, pos, {"rir:"}) THEN [ok |-> TRUE, addr |-> <<Rir>>, next |-> pos + 1]
    ELSE IF At(url, pos, {"iiop:", ":"}) THEN iiop_addr(url, pos + 1)
    ELSE Failure

\* One address, and what the list says of the position behind a "," after it.
AddressList_Back(url, first, list) ==
    IF ~first.ok \/ ~At(url, first.next, {","}) THEN first ELSE list[first.next + 1]

AddressList(url, first, list) ==
    IF ~first.ok \/ ~At(url, first.next, {","}) THEN first
    ELSE [list[first.next + 1] EXCEPT !.addr = first.addr \o @]

\* The addresses from pos on; one must follow each ",".
obj_addr_list(url, from) ==
    LET list[pos \in 1 .. Len(url) + 1] == AddressList(url, prot_addr(url, pos), list)
    IN list[from]

\* uri() stops before "#" and ".", but the count it gives to substr() is pos,
\* not pos - start: the text goes on to the end of the URL (unless what
\* follows is longer than what precedes it, which no URL here is).
uri(url, pos) == IF At(url, pos, UriTokens) THEN SubSeq(url, pos, Len(url)) ELSE <<>>
uriEnd(url, pos) == RunEnd(url, pos, UriTokens)

\* What follows the addresses, of which the last ends before keyPos; the key is
\* behind the "/" at keyPos, if there is one, and ends before namePos.
corbaname(url, addr, keyPos, namePos) ==
    [ok |-> TRUE, scheme |-> url[1], addr |-> addr,
     objectKey |-> IF keyPos # namePos THEN uri(url, keyPos + 1)
                   ELSE IF url[1] = "corbaname:" THEN NameServiceKey ELSE <<>>,
     name |-> IF url[1] = "corbaname:" /\ At(url, namePos, {"#"})
              THEN uri(url, namePos + 1) ELSE <<>>]

corbaloc(url, list) ==
    IF ~list.ok THEN [ok |-> FALSE]
    ELSE corbaname(url, list.addr, list.next,
                   IF At(url, list.next, {"/"}) THEN uriEnd(url, list.next + 1) ELSE list.next)

\* What decodeURI() makes of a URL; ok is FALSE when it throws.
decodeURI(url) == IF At(url, 1, {"corbaloc:", "corbaname:"})
                  THEN corbaloc(url, obj_addr_list(url, 2)) ELSE [ok |-> FALSE]

-----------------------------------------------------------------------------
Numeral(n) == CHOOSE l \in Numbers : NumberOf[l] = n

strAddress(a) ==
    IF a.proto = "rir" THEN <<"rir:">>
    ELSE FlattenSeq(<<<<"iiop:", Numeral(a.version[1]), ".", Numeral(a.version[2]), "@">>,
                      a.host, <<":", Numeral(a.port)>>>>)

\* CorbaLocation::str() and CorbaName::str(), of what decodeURI() returns.
str(u) ==
    FlattenSeq(<<<<u.scheme>>, strAddress(u.addr[1]),
        FlattenSeq([i \in 1 .. Len(u.addr) - 1 |-> <<",">> \o strAddress(u.addr[i + 1])]),
        IF u.objectKey = <<>> THEN <<>> ELSE <<"/">> \o u.objectKey,
        IF u.name = <<>> THEN <<>> ELSE <<"#">> \o u.name>>)

=============================================================================
