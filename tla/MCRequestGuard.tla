--------------------------- MODULE MCRequestGuard ---------------------------
(***************************************************************************)
(* TLC instance of RequestGuard.                                           *)
(***************************************************************************)
EXTENDS RequestGuard

\* Labels at every boundary of the two name checks.
Labels == { <<>>, <<"a">>, <<"A">>, <<Kelvin>>, <<"-">>, <<"a", "-">>, <<"_">>, <<"0">>,
            <<"0", "2">>, <<"2", "5", "5">>, <<"2", "5", "6">>, <<"a", "a", "a", "a">> }
NamesUpTo(k) == UNION {[1..i -> Labels] : i \in 0..k}

Plain(n) == [authority |-> [name |-> n, port |-> <<>>], scheme |-> "http", path |-> "/a",
             connect |-> FALSE, encoded |-> FALSE]

\* All names in an otherwise plain request, and all other headers with few names.
SomeArrivals ==
    {Plain(n) : n \in NamesUpTo(4)}
    \union [authority : [name : { << <<"A">> >>, << <<"a">>, <<"k">> >>, << <<Kelvin>> >> },
                         port : {<<>>, <<0>>, <<0, 80>>, <<443>>, <<65535>>, <<65536>>}],
            scheme : Schemes, path : {"none", "/a", "/b", "*"}, connect : BOOLEAN, encoded : BOOLEAN]

SomeConnections ==
    [tls : {TRUE}, sni : {<< <<"a">> >>, << <<"A">>, <<"k">> >>, << <<Kelvin>> >>}, peer : BOOLEAN]
    \union {[tls |-> FALSE, sni |-> NoName, peer |-> FALSE]}

SomeMutations ==
    {[authority |-> [name |-> << <<"k">> >>, port |-> <<443>>], scheme |-> "https", path |-> "/a"]}
    \union [authority : {[name |-> << <<"a">> >>, port |-> <<443>>]}, scheme : Schemes,
            path : {"/a", "/b"}]
=============================================================================
