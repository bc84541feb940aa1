---------------------------- MODULE SecretService ----------------------------
(***************************************************************************)
(* What the inspection certificate service promises the streams of the     *)
(* local Envoy, without mutex, queues, LRU list, requests or clock: there  *)
(* is at most one present certificate per name, every stream has a view of *)
(* the names it subscribed to, and an announcement brings the view of      *)
(* every subscriber to the present certificate or ends its stream.         *)
(***************************************************************************)
EXTENDS Naturals

CONSTANTS Streams, Names

VARIABLES
    cert,   \* version of the present certificate of each name, 0 for none
    last,   \* the last version issued
    live,   \* the streams in good standing
    subs,   \* the names each live stream is subscribed to
    view    \* the version of each name each live stream was last told

serviceVars == <<cert, last, live, subs, view>>

Nothing == [n \in Names |-> 0]

Init ==
    /\ cert = Nothing
    /\ last = 0
    /\ live = {}
    /\ subs = [w \in Streams |-> {}]
    /\ view = [w \in Streams |-> Nothing]

\* A stream starts with an empty view.
Open(w) ==
    /\ w \notin live
    /\ live' = live \union {w}
    /\ UNCHANGED <<cert, last, subs, view>>

\* What is known of the streams in F is forgotten.
Forget(F) ==
    /\ live' = live \ F
    /\ subs' = [w \in Streams |-> IF w \in F THEN {} ELSE subs[w]]
    /\ view' = [w \in Streams |-> IF w \in F THEN Nothing ELSE view[w]]

Fail(w) == w \in live /\ Forget({w}) /\ UNCHANGED <<cert, last>>

\* A stream changes its subscription and drops what it unsubscribed from.
Subscribe(w, unsub, sub) ==
    /\ w \in live
    /\ subs' = [subs EXCEPT ![w] = (@ \ unsub) \union sub]
    /\ view' = [view EXCEPT ![w] = [n \in Names |-> IF n \in unsub THEN 0 ELSE @[n]]]
    /\ UNCHANGED <<cert, last, live>>

\* A certificate is issued; at most one other one makes room for it.
Issue(n, evicted) ==
    /\ last' = last + 1
    /\ cert' = [cert EXCEPT ![evicted] = 0, ![n] = last + 1]
    /\ UNCHANGED <<live, subs, view>>

\* A certificate no live stream is subscribed to is withdrawn silently.
Withdraw(n) ==
    /\ \A w \in live : n \notin subs[w]
    /\ cert' = [cert EXCEPT ![n] = 0]
    /\ UNCHANGED <<last, live, subs, view>>

\* A certificate cannot be renewed: its old one goes, and the stream that asked.
Abort(n, F) ==
    /\ cert' = [cert EXCEPT ![n] = 0]
    /\ Forget(F)
    /\ UNCHANGED last

\* Every live subscriber of the names in added and removed is told of them in one
\* step; the ones in F, which cannot be told, are failed in the same step.
Announce(added, removed, F) ==
    /\ \A n \in added : cert[n] # 0
    /\ live' = live \ F
    /\ subs' = [w \in Streams |-> IF w \in F THEN {} ELSE subs[w] \ removed]
    /\ view' = [w \in Streams |-> [n \in Names |->
                  IF w \in F \/ n \in removed \intersect subs[w] THEN 0
                  ELSE IF n \in added \intersect subs[w] THEN cert[n] ELSE view[w][n]]]
    /\ UNCHANGED <<cert, last>>

Next ==
    \/ \E w \in Streams : Open(w) \/ Fail(w)
    \/ \E w \in Streams, unsub, sub \in SUBSET Names : Subscribe(w, unsub, sub)
    \/ \E n, evicted \in Names : Issue(n, evicted)
    \/ \E n \in Names : Withdraw(n) \/ \E w \in Streams : Abort(n, {w} \intersect live)
    \/ \E added, removed \in SUBSET Names, F \in SUBSET live : Announce(added, removed, F)

Spec == Init /\ [][Next]_serviceVars
=============================================================================
