--------------------------- MODULE MCSecretServer ---------------------------
(***************************************************************************)
(* TLC instances of SecretServer.                                          *)
(***************************************************************************)
EXTENDS SecretServer

\* Streams are interchangeable: no action and no safety property names one.
StreamSymmetry == Permutations(Streams)

\* Batches, which overlap, repeat each other and may exceed the cache, and the
\* empty request Envoy acknowledges a response with.
Batches == {<<{}, {1, 2}>>, <<{}, {2, 3}>>, <<{1}, {3}>>, <<{}, {1, 2, 3}>>, <<{}, {}>>}

\* Single subscriptions only.
Subscriptions == {<<{}, {n}>> : n \in Names}
=============================================================================
