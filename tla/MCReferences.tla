---------------------------- MODULE MCReferences ----------------------------
EXTENDS References

CONSTANTS s1, s2
MCSymmetry == Permutations({s1, s2})

CONSTANTS here, there   \* the ORBs

\* "127.0.0.1" begins like a version.
Local == <<"127", ".", "0", ".", "0", ".", "1">>
MCAddress == here :> [host |-> Local, port |-> 9003]
             @@ there :> [host |-> <<"555objs", ".", "com">>, port |-> 2809]
MCNumberOf == ("127" :> 127) @@ ("0" :> 0) @@ ("1" :> 1) @@ ("2" :> 2) @@ ("9003" :> 9003)
              @@ ("2809" :> 2809) @@ ("70000" :> 70000) @@ ("4464" :> 4464)
              @@ ("300" :> 300) @@ ("44" :> 44)
MCLeading == ("555objs" :> 555) @@ ("9003a" :> 9003)
MCLabels == DOMAIN MCNumberOf \cup DOMAIN MCLeading
            \cup {"com", "Backend", "NameService", "Prod", "a"}

MCMaxIds == (here :> 2) @@ (there :> 1)
MCMaxShutdowns == (here :> 1) @@ (there :> 0)
MCNumerals == <<"1", "2">>
MCAppKeys == {OID(2)}
MCNames == {<<"Backend">>}

Part(proto, version, host, port) ==
    [proto |-> proto, version |-> version, host |-> host, port |-> port]
Form(scheme, addr, key, name) ==
    [scheme |-> scheme, addr |-> addr, key |-> key, name |-> name]

Near == Part(":", <<>>, Local, <<"9003">>)
Far == Part("iiop:", <<>>, <<"555objs", ".", "com">>, <<>>)
MCAddresses ==
    {Near, Far, Part("iiop:", <<"1", "2">>, Local, <<"9003">>),
     Part(":", <<"1", "2">>, <<"::1">>, <<>>), Part(":", <<>>, <<"::1">>, <<"9003">>),
     Part(":", <<"1", "2">>, <<"2">>, <<>>), Part(":", <<>>, <<"2", ".", "com">>, <<>>),
     Part(":", <<>>, <<>>, <<"9003">>), Part("rir:", <<>>, <<>>, <<>>)}
\* A port and a version that are too large, a port that goes on with a letter,
\* a bracket that is not closed.
MCOddAddresses ==
    {Part(":", <<>>, Local, <<"70000">>), Part(":", <<"300", "1">>, Local, <<>>),
     Part(":", <<>>, Local, <<"9003a">>), Part(":", <<>>, <<"[">>, <<>>)}
MCLists == {<<a>> : a \in MCAddresses \cup MCOddAddresses}
           \cup {<<a, b>> : a, b \in MCAddresses}
           \cup {<<Near, Far, a>> : a \in MCAddresses}
           \cup {<<Near, a>> : a \in MCOddAddresses}
           \cup {<<a, b>> : a \in MCOddAddresses,
                            b \in {Near, Part(":", <<"1", "2">>, <<"::1">>, <<>>)}}
MCForms ==
    {Form("corbaloc:", list, key, <<>>) :
        list \in MCLists, key \in {<<>>, <<"Prod", "/", "a">>, <<"Prod", ".", "a">>}}
    \cup {Form("corbaname:", list, key, name) :
        list \in MCLists, key \in {<<>>, <<"NameService">>, <<"Prod", ".", "a">>},
        name \in {<<>>, <<"Backend">>, <<"a", ".", "a">>}}
\* To each ORB, with another address behind it, and with a key that hides the
\* name; and one that is no corbaname.
MCLookups ==
    {Form("corbaname:", list, key, <<"Backend">>) :
        list \in {<<Near>>, <<Far>>, <<Far, Near>>}, key \in {<<>>, <<"NameService">>}}
    \cup {Form("corbaname:", <<Near>>, <<>>, <<"a", ".", "a">>),
          Form("corbaloc:", <<Near>>, <<>>, <<>>)}
=============================================================================
