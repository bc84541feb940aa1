------------------------- MODULE SecretServiceProofs -------------------------
(***************************************************************************)
(* Proofs about SecretServer that rest on its inductive invariant: streams *)
(* stay within their limits, and the server implements SecretService.      *)
(***************************************************************************)
EXTENDS SecretServerProofs

-----------------------------------------------------------------------------
(* Bounded streams. *)

\* A part of a bounded set is bounded.
LEMMA SubsetBounded ==
    ASSUME NEW S, IsFiniteSet(S), NEW T \in SUBSET S,
           NEW max \in Nat, Cardinality(S) <= max
    PROVE  IsFiniteSet(T) /\ Cardinality(T) <= max
<1>1. IsFiniteSet(T) /\ Cardinality(T) <= Cardinality(S)
  BY FS_Subset
<1>2. Cardinality(T) \in Nat /\ Cardinality(S) \in Nat
  BY <1>1, FS_CardinalityType
<1> QED BY <1>1, <1>2

\* A new server has no streams.
LEMMA InitStreams == Init => StreamInv
<1> SUFFICES ASSUME Init PROVE StreamInv
  OBVIOUS
<1>1. IsFiniteSet({})
  BY FS_EmptySet
<1>2. \A w \in Streams : req[w].subs = {} /\ names[w] = {} /\ updates[w] = 0
  BY DEF Init, NoRequest
<1>3. watches = {} /\ 0 <= QueueLen
  BY SizesAssumption DEF Init
<1> QED BY <1>1, <1>2, <1>3 DEF StreamInv

\* The steps that leave subscriptions, requests and queues alone.
LEMMA StreamFrame ==
    ASSUME TypeOK, StreamInv, UNCHANGED <<names, updates, req>>,
           watches' \subseteq watches,
           \A w \in watches : Failed(w) => Failed(w)'
    PROVE  StreamInv'
<1>1. \A w \in watches' : names'[w] = names[w] /\ w \in watches
  OBVIOUS
<1> QED BY <1>1 DEF StreamInv

\* Every step keeps the streams within their limits.
LEMMA StreamStep == IndInv /\ StreamInv /\ [Next]_vars => StreamInv'
<1> SUFFICES ASSUME IndInv, StreamInv, [Next]_vars PROVE StreamInv'
  OBVIOUS
<1> USE DEF serverVars, updateVars, streamVars, central
<1>0. /\ TypeOK /\ Locked /\ GoneCleared /\ NoStream \notin Streams
      /\ watches = {w \in Streams : handler[w] # "gone"}
      /\ IsFiniteSet({}) /\ Cardinality({}) = 0
      /\ MaxRequestNames \in Nat /\ QueueLen \in Nat \ {0}
  BY FS_EmptySet, SizesAssumption, StreamsAssumption DEF IndInv, WatchesBounded
<1>1. CASE Tick \/ UNCHANGED vars
  BY <1>0, <1>1, StreamFrame DEF Tick, vars, Failed
<1>2. ASSUME NEW n \in Names, Unsubscribe(n) \/ ServeInvalid(n) \/ ServeCached(n)
      PROVE  StreamInv'
  BY <1>0, <1>2, StreamFrame DEF Unsubscribe, ServeInvalid, ServeCached, Failed
<1>3. ASSUME NEW n \in Names, ServeIssued(n) PROVE StreamInv'
  <2>1. UNCHANGED <<streamVars, req>>
    BY <1>3 DEF ServeIssued
  <2> QED BY <1>0, <2>1, StreamFrame DEF Failed
<1>4. ASSUME NEW v \in Streams, ReceiverFails(v), UNCHANGED <<watches, names, updates, handler>>
      PROVE  StreamInv'
  <2>1. \A w \in Streams : errors[w] => errors'[w]
    BY <1>0, <1>4 DEF ReceiverFails, TypeOK
  <2>2. \A w \in Streams : IsFiniteSet(req'[w].subs)
    BY <1>0, <1>4 DEF ReceiverFails, TypeOK, NoRequest, StreamInv
  <2>3. \A w \in watches : Failed(w) => Failed(w)'
    BY <1>0, <1>4, <2>1 DEF Failed
  <2> QED BY <1>4, <2>2, <2>3 DEF StreamInv
<1>5. ASSUME NEW n \in Names, IssueFails(n) PROVE StreamInv'
  <2>1. mu \in Streams
    BY <1>0, <1>5 DEF IssueFails, NextName, TypeOK
  <2> QED BY <1>4, <1>5, <2>1 DEF IssueFails
<1>6. CASE Broadcast
  <2>1. ASSUME NEW w \in Streams
        PROVE  /\ names'[w] \subseteq names[w]
               /\ updates'[w] <= QueueLen
               /\ IsFiniteSet(req'[w].subs)
    <3>1. names'[w] \subseteq names[w]
      BY <1>6 DEF Broadcast
    <3>2. updates[w] \in Nat /\ updates[w] <= QueueLen
      BY <1>0 DEF TypeOK, StreamInv
    <3>3. updates'[w] <= QueueLen
      BY <1>0, <1>6, <3>2 DEF Broadcast, Enqueued, HasRoom
    <3>4. mu \in Streams
      BY <1>0, <1>6 DEF Broadcast, Complete, TypeOK
    <3>5. req'[w].subs = {} \/ req'[w] = req[w]
      BY <1>0, <1>6, <3>4 DEF Broadcast, NoRequest, TypeOK
    <3>6. IsFiniteSet(req'[w].subs)
      BY <1>0, <3>5 DEF StreamInv
    <3> QED BY <3>1, <3>3, <3>6
  <2>2. ASSUME NEW w \in Streams PROVE IsFiniteSet(names'[w])
    BY <2>1, FS_Subset DEF StreamInv
  <2>3. ASSUME NEW w \in watches', ~Failed(w)'
        PROVE  Cardinality(names'[w]) <= MaxRequestNames
    <3>1. w \in watches /\ w \in Streams /\ ~Failed(w)
      BY <1>0, <1>6, <2>3 DEF Broadcast, Failed, TypeOK
    <3>2. IsFiniteSet(names[w]) /\ Cardinality(names[w]) <= MaxRequestNames
      BY <3>1 DEF StreamInv
    <3>3. names'[w] \in SUBSET names[w]
      BY <2>1, <3>1
    <3> QED BY <1>0, <3>2, <3>3, SubsetBounded
  <2> QED BY <2>1, <2>2, <2>3 DEF StreamInv
<1>7. ASSUME NEW w \in Streams, Stream(w) PROVE StreamInv'
  <2>1. CASE Open(w)
    <3>1. names[w] = {} /\ UNCHANGED <<names, updates, req>> /\ watches' = watches \union {w}
      BY <1>0, <2>1 DEF Open, GoneCleared
    <3>2. \A v \in watches : v # w /\ Failed(v)' = Failed(v)
      BY <1>0, <2>1 DEF Open, Failed, TypeOK
    <3>3. Cardinality(names'[w]) <= MaxRequestNames
      BY <1>0, <3>1
    <3> QED BY <3>1, <3>2, <3>3 DEF StreamInv
  <2>2. ASSUME NEW r \in Requests, Recv(w, r) PROVE StreamInv'
    <3>1. \A v \in Streams : req'[v].subs = r[2] \/ req'[v] = req[v]
      BY <1>0, <2>2 DEF Recv, TypeOK
    <3>2. \A v \in Streams : IsFiniteSet(req'[v].subs)
      BY <3>1, NamesAssumption DEF StreamInv
    <3>3. UNCHANGED <<watches, names, updates, errors, handler>>
      BY <2>2 DEF Recv
    <3>4. \A v \in watches : Failed(v)' = Failed(v)
      BY <3>3 DEF Failed
    <3> QED BY <3>2, <3>3, <3>4 DEF StreamInv
  <2>3. CASE RecvFail(w) \/ ProcessClosed(w)
    BY <1>4, <2>3 DEF RecvFail, ProcessClosed
  <2>4. CASE SendBegin(w)
    <3>1. \A v \in Streams : updates'[v] <= QueueLen
      BY <1>0, <2>4 DEF SendBegin, StreamInv, TypeOK
    <3>2. \A v \in watches : Failed(v)' = Failed(v) /\ UNCHANGED <<watches, names, req>>
      BY <1>0, <2>4 DEF SendBegin, Failed, TypeOK
    <3>3. UNCHANGED <<watches, names, req>>
      BY <2>4 DEF SendBegin
    <3> QED BY <3>1, <3>2, <3>3 DEF StreamInv
  <2>5. CASE SendEnd(w) \/ ReturnError(w) \/ Abandon(w)
    <3>1. UNCHANGED <<watches, names, updates, req>>
      BY <2>5 DEF SendEnd, ReturnError, Abandon
    <3>2. \A v \in watches : Failed(v) => Failed(v)'
      BY <1>0, <2>5 DEF SendEnd, ReturnError, Abandon, Failed, TypeOK
    <3> QED BY <1>0, <3>1, <3>2, StreamFrame
  <2>6. CASE Unregister(w)
    <3>1. /\ watches' = watches \ {w} /\ UNCHANGED <<req, errors>>
          /\ \A v \in Streams : v # w => /\ names'[v] = names[v] /\ updates'[v] = updates[v]
                                         /\ handler'[v] = handler[v]
          /\ names'[w] = {} /\ updates'[w] = 0
      BY <1>0, <2>6 DEF Unregister, TypeOK
    <3>2. \A v \in watches' : v \in Streams /\ v # w /\ Failed(v)' = Failed(v)
      BY <1>0, <3>1 DEF Failed
    <3>3. 0 <= QueueLen
      BY <1>0
    <3> QED BY <1>0, <3>1, <3>2, <3>3 DEF StreamInv
  <2>7. IsFiniteSet(Subscribed(w))
    <3>1. IsFiniteSet(names[w]) /\ IsFiniteSet(req[w].subs)
      BY DEF StreamInv
    <3>2. IsFiniteSet(names[w] \ req[w].unsub)
      BY <3>1, FS_Subset
    <3> QED BY <3>1, <3>2, FS_Union DEF Subscribed
  <2>8. CASE ProcessOverLimit(w)
    <3>1. /\ names' = [names EXCEPT ![w] = Subscribed(w)]
          /\ UNCHANGED <<watches, updates, handler>>
          /\ errors' = [errors EXCEPT ![w] = TRUE]
          /\ req' = [req EXCEPT ![w] = NoRequest]
      BY <2>8 DEF ProcessOverLimit, ReceiverFails
    <3>2. \A v \in Streams : IsFiniteSet(names'[v]) /\ IsFiniteSet(req'[v].subs)
      BY <1>0, <2>7, <3>1 DEF StreamInv, TypeOK, NoRequest
    <3>3. Failed(w)' /\ \A v \in watches : v # w => Failed(v)' = Failed(v) /\ names'[v] = names[v]
      BY <1>0, <3>1 DEF Failed, TypeOK
    <3> QED BY <3>1, <3>2, <3>3 DEF StreamInv
  <2>9. CASE Process(w)
    <3>1. /\ names' = [names EXCEPT ![w] = Subscribed(w)]
          /\ UNCHANGED <<watches, updates, handler, errors, req>>
          /\ Cardinality(Subscribed(w)) <= MaxRequestNames
      BY <2>9 DEF Process
    <3>2. \A v \in Streams : names'[v] = IF v = w THEN Subscribed(w) ELSE names[v]
      BY <1>0, <3>1 DEF TypeOK
    <3>3. \A v \in watches : v \in Streams /\ Failed(v)' = Failed(v)
      BY <1>0, <3>1 DEF Failed
    <3> QED BY <2>7, <3>1, <3>2, <3>3 DEF StreamInv
  <2> QED BY <1>7, <2>1, <2>2, <2>3, <2>4, <2>5, <2>6, <2>8, <2>9 DEF Stream, Lock
<1> QED BY <1>1, <1>2, <1>3, <1>5, <1>6, <1>7 DEF Next, Update

\* There are not too many watches (DeltaSecrets), no healthy stream has more
\* subscriptions than a request may hold and no queue outgrows its channel (process
\* and enqueue).
THEOREM StreamLimit == Spec => []StreamsBounded
<1>1. Spec => []StreamInv
  BY InitStreams, StreamStep, Invariance, PTL DEF Spec
<1>2. IndInv /\ StreamInv => StreamsBounded
  <2> SUFFICES ASSUME IndInv, StreamInv PROVE StreamsBounded
    OBVIOUS
  <2>1. watches \subseteq Streams /\ WatchesBounded
    BY DEF IndInv, TypeOK
  <2> QED BY <2>1 DEF StreamInv, StreamsBounded
<1> QED BY <1>1, <1>2, Invariance, PTL

-----------------------------------------------------------------------------
(* Refinement. *)

\* The initial state of the server is one of the service.
LEMMA ServiceInit == Init => Service!Init
<1> SUFFICES ASSUME Init PROVE Service!Init
  OBVIOUS
<1>1. \A w \in Streams : Failed(w)
  BY DEF Init, Failed
<1>2. Certs = Service!Nothing
  BY DEF Init, Certs, Absent, Service!Nothing
<1>3. Live = {} /\ Subs = [w \in Streams |-> {}]
  BY <1>1 DEF Live, Subs
<1>4. View = [w \in Streams |-> Service!Nothing]
  BY <1>1 DEF View, NothingAdded, Service!Nothing
<1> QED BY <1>2, <1>3, <1>4 DEF Init, Service!Init

\* A step that changes nothing the service speaks of.
LEMMA ServiceStutter ==
    ASSUME UNCHANGED <<entries, version>>,
           \A w \in Streams : Failed(w)' = Failed(w),
           \A w \in Streams : ~Failed(w) => names'[w] = names[w] /\ told'[w] = told[w]
    PROVE  UNCHANGED Service!serviceVars
<1>1. Certs' = Certs /\ Live' = Live
  BY DEF Certs, Live
<1>2. Subs' = Subs
  BY DEF Subs
<1>3. View' = View
  BY DEF View
<1> QED BY <1>1, <1>2, <1>3 DEF Service!serviceVars

\* A step that fails stream w, or leaves it failed.
LEMMA ServiceFail ==
    ASSUME NEW w \in Streams, UNCHANGED <<entries, version>>, Failed(w)',
           \A v \in Streams : v # w => /\ Failed(v)' = Failed(v)
                                       /\ names'[v] = names[v] /\ told'[v] = told[v]
    PROVE  Service!Fail(w) \/ UNCHANGED Service!serviceVars
<1>1. CASE Failed(w)
  <2>1. \A v \in Streams : Failed(v)' = Failed(v)
    BY <1>1 DEF Failed
  <2> QED BY <1>1, <2>1, ServiceStutter
<1>2. CASE ~Failed(w)
  <2>1. Certs' = Certs
    BY DEF Certs
  <2>2. w \in Live /\ Live' = Live \ {w}
    BY <1>2 DEF Live
  <2>3. Subs' = [v \in Streams |-> IF v \in {w} THEN {} ELSE Subs[v]]
    BY DEF Subs
  <2>4. View' = [v \in Streams |-> IF v \in {w} THEN Service!Nothing ELSE View[v]]
    BY DEF View, NothingAdded, Service!Nothing
  <2> QED BY <2>1, <2>2, <2>3, <2>4 DEF Service!Fail, Service!Forget
<1> QED BY <1>1, <1>2

\* A new stream is empty.
LEMMA ServiceOpen ==
    ASSUME IndInv, NEW w \in Streams, Open(w)
    PROVE  Service!Open(w)
<1> USE DEF serverVars, updateVars, streamVars, central
<1>0. TypeOK /\ names[w] = {} /\ told[w] = NothingAdded
  BY DEF IndInv, Open, GoneCleared
<1>1. /\ Failed(w) /\ ~Failed(w)'
      /\ \A v \in Streams : v # w => Failed(v)' = Failed(v)
      /\ UNCHANGED <<entries, version, names, told>>
  BY <1>0 DEF Open, Failed, TypeOK
<1>2. Certs' = Certs
  BY <1>1 DEF Certs
<1>3. w \notin Live /\ Live' = Live \union {w}
  BY <1>1 DEF Live
<1>4. Subs' = Subs
  BY <1>0, <1>1 DEF Subs
<1>5. View' = View
  BY <1>0, <1>1 DEF View
<1> QED BY <1>1, <1>2, <1>3, <1>4, <1>5 DEF Service!Open

\* A request changes the subscription of its stream.
LEMMA ServiceSubscribe ==
    ASSUME IndInv, NEW w \in Streams, Process(w)
    PROVE  Service!Next \/ UNCHANGED Service!serviceVars
<1> USE DEF serverVars, updateVars, streamVars, central
<1>0. TypeOK /\ req[w].unsub \in SUBSET Names /\ req[w].subs \in SUBSET Names
  BY DEF IndInv, TypeOK, Request
<1>1. /\ UNCHANGED <<entries, version, errors, handler>>
      /\ names'[w] = (names[w] \ req[w].unsub) \union req[w].subs
      /\ told'[w] = [n \in Names |-> IF n \in req[w].unsub THEN 0 ELSE told[w][n]]
      /\ \A v \in Streams : v # w => names'[v] = names[v] /\ told'[v] = told[v]
  BY <1>0 DEF Process, Subscribed, TypeOK
<1>2. \A v \in Streams : Failed(v)' = Failed(v)
  BY <1>1 DEF Failed
<1>3. CASE Failed(w)
  <2>1. \A v \in Streams : ~Failed(v) => names'[v] = names[v] /\ told'[v] = told[v]
    BY <1>1, <1>3
  <2> QED BY <1>1, <1>2, <2>1, ServiceStutter
<1>4. CASE ~Failed(w)
  <2>1. Certs' = Certs /\ Live' = Live /\ w \in Live
    BY <1>1, <1>2, <1>4 DEF Certs, Live
  <2>2. Subs[w] = names[w] /\ Subs'[w] = names'[w] /\ View[w] = told[w] /\ View'[w] = told'[w]
    BY <1>2, <1>4 DEF Subs, View
  <2>3. \A v \in Streams : v # w => Subs'[v] = Subs[v] /\ View'[v] = View[v]
    BY <1>1, <1>2 DEF Subs, View
  <2>4. /\ Subs = [v \in Streams |-> Subs[v]] /\ Subs' = [v \in Streams |-> Subs'[v]]
        /\ View = [v \in Streams |-> View[v]] /\ View' = [v \in Streams |-> View'[v]]
    BY DEF Subs, View
  <2>5. Subs' = [Subs EXCEPT ![w] = (@ \ req[w].unsub) \union req[w].subs]
    BY <1>1, <2>2, <2>3, <2>4
  <2>6. View' = [View EXCEPT ![w] = [n \in Names |-> IF n \in req[w].unsub THEN 0 ELSE @[n]]]
    BY <1>1, <2>2, <2>3, <2>4
  <2>7. Service!Subscribe(w, req[w].unsub, req[w].subs)
    BY <1>1, <2>1, <2>5, <2>6 DEF Service!Subscribe
  <2> QED BY <1>0, <2>7 DEF Service!Next
<1> QED BY <1>3, <1>4

\* A withdrawn certificate has no subscriber.
LEMMA ServiceWithdraw ==
    ASSUME IndInv, NEW n \in Names, Unsubscribe(n)
    PROVE  Service!Withdraw(n) \/ UNCHANGED Service!serviceVars
<1> USE DEF serverVars, updateVars, streamVars, central
<1>0. /\ TypeOK /\ watches = {w \in Streams : handler[w] # "gone"}
      /\ UNCHANGED <<version, streamVars>>
  BY DEF IndInv, WatchesBounded, Unsubscribe
<1>1. \A w \in Streams : Failed(w)' = Failed(w)
  BY <1>0 DEF Failed
<1>2. CASE entries' = entries
  BY <1>0, <1>1, <1>2, ServiceStutter
<1>3. CASE ~Interested(n) /\ entries' = [entries EXCEPT ![n] = Absent]
  <2>1. Certs' = [Certs EXCEPT ![n] = 0]
    BY <1>0, <1>3 DEF Certs, Absent, TypeOK
  <2>2. Live' = Live /\ Subs' = Subs /\ View' = View
    BY <1>0, <1>1 DEF Live, Subs, View
  <2>3. \A w \in Live : w \in watches /\ Subs[w] = names[w]
    BY <1>0 DEF Live, Failed, Subs
  <2>4. \A w \in Live : n \notin Subs[w]
    BY <1>3, <2>3 DEF Interested
  <2> QED BY <1>0, <2>1, <2>2, <2>4 DEF Service!Withdraw
<1> QED BY <1>2, <1>3 DEF Unsubscribe

\* A new certificate replaces at most one other.
LEMMA ServiceIssue ==
    ASSUME IndInv, NEW n \in Names, ServeIssued(n)
    PROVE  \E e \in Names : Service!Issue(n, e)
<1> USE DEF serverVars, updateVars, streamVars, central
<1>0. UNCHANGED streamVars /\ version' = version + 1
  BY DEF ServeIssued, Counted
<1>1. PICK evicted \in SUBSET Names :
        /\ n \notin evicted
        /\ evicted # {} => evicted = {lru[Capacity]}
        /\ entries' = [m \in Names |->
              IF m = n THEN [version |-> version + 1,
                             expires |-> req[mu].now + SecretTTL,
                             notAfter |-> LeafNotAfter(req[mu].now)]
              ELSE IF m \in evicted THEN Absent ELSE entries[m]]
  BY IssuedFacts
<1>2. PICK e \in Names : (evicted = {} /\ e = n) \/ evicted = {e}
  BY <1>1
<1>3. \A m \in Names : m # n => (m \in evicted <=> m = e)
  BY <1>1, <1>2
<1>4. Certs' = [Certs EXCEPT ![e] = 0, ![n] = version + 1]
  <2>1. Certs' = [m \in Names |-> IF m = n THEN version + 1 ELSE IF m = e THEN 0 ELSE Certs[m]]
    BY <1>1, <1>3 DEF Certs, Absent
  <2> QED BY <2>1 DEF Certs
<1>5. \A w \in Streams : Failed(w)' = Failed(w)
  BY <1>0 DEF Failed
<1>6. Live' = Live /\ Subs' = Subs /\ View' = View
  BY <1>0, <1>5 DEF Live, Subs, View
<1> QED BY <1>0, <1>2, <1>4, <1>6 DEF Service!Issue

\* An update that fails half way fails its stream.
LEMMA ServiceAbort ==
    ASSUME IndInv, NEW n \in Names, IssueFails(n)
    PROVE  \E w \in Streams : Service!Abort(n, {w} \intersect Live)
<1> USE DEF serverVars, updateVars, streamVars, central
<1>0. TypeOK
  BY DEF IndInv
<1>1. PICK w \in Streams : w = mu
  BY <1>0 DEF IssueFails, NextName, TypeOK
<1>2. /\ UNCHANGED <<version, names, told, handler>>
      /\ entries' = [entries EXCEPT ![n] = Absent]
      /\ errors' = [errors EXCEPT ![w] = TRUE]
  BY <1>1 DEF IssueFails, ReceiverFails
<1>3. Failed(w)' /\ \A v \in Streams : v # w => Failed(v)' = Failed(v)
  BY <1>0, <1>2 DEF Failed, TypeOK
<1> DEFINE F == {w} \intersect Live
<1>4. \A v \in Streams : (v \in F <=> v = w /\ ~Failed(v)) /\ (Failed(v)' <=> Failed(v) \/ v \in F)
  BY <1>3 DEF Live
<1>5. Live' = Live \ F
  BY <1>4 DEF Live
<1>6. Subs' = [v \in Streams |-> IF v \in F THEN {} ELSE Subs[v]]
  <2>1. \A v \in Streams : Subs'[v] = IF v \in F THEN {} ELSE Subs[v]
    BY <1>2, <1>4 DEF Subs
  <2> QED BY <2>1 DEF Subs
<1>7. View' = [v \in Streams |-> IF v \in F THEN Service!Nothing ELSE View[v]]
  <2>1. \A v \in Streams : View'[v] = IF v \in F THEN Service!Nothing ELSE View[v]
    BY <1>2, <1>4 DEF View, NothingAdded, Service!Nothing
  <2> QED BY <2>1 DEF View
<1>8. Certs' = [Certs EXCEPT ![n] = 0]
  BY <1>0, <1>2 DEF Certs, Absent, TypeOK
<1> HIDE DEF F
<1>9. Service!Abort(n, F)
  BY <1>2, <1>5, <1>6, <1>7, <1>8 DEF Service!Abort, Service!Forget
<1> QED BY <1>9 DEF F

\* A broadcast tells every subscriber in good standing, or fails it.
LEMMA ServiceAnnounce ==
    ASSUME IndInv, Broadcast
    PROVE  \E added, gone \in SUBSET Names, F \in SUBSET Live : Service!Announce(added, gone, F)
<1>0. /\ TypeOK /\ ResponseCached /\ watches = {w \in Streams : handler[w] # "gone"}
      /\ UNCHANGED <<entries, version, handler>>
  BY DEF IndInv, WatchesBounded, Broadcast, serverVars
<1> DEFINE added == {n \in Names : resources[n] # 0}
           F == {w \in Live : Addressed(w) /\ ~HasRoom(w)}
<1>1. added \in SUBSET Names /\ removed \in SUBSET Names /\ F \in SUBSET Live
  BY <1>0 DEF TypeOK
<1>2. \A n \in added : Certs[n] = resources[n] /\ Certs[n] # 0
  BY <1>0 DEF ResponseCached, Certs
<1>3. Certs' = Certs
  BY <1>0 DEF Certs
<1>4. \A w \in Streams : Failed(w)' <=> Failed(w) \/ w \in F
  <2>1. \A w \in Streams : errors'[w] <=> errors[w] \/ (Addressed(w) /\ ~HasRoom(w))
    BY DEF Broadcast
  <2> QED BY <1>0, <2>1 DEF Failed, Live
<1>5. Live' = Live \ F
  BY <1>4 DEF Live
<1>6. Subs' = [w \in Streams |-> IF w \in F THEN {} ELSE Subs[w] \ removed]
  <2>1. ASSUME NEW w \in Streams PROVE Subs'[w] = IF w \in F THEN {} ELSE Subs[w] \ removed
    <3>1. CASE Failed(w)
      BY <1>4, <3>1 DEF Subs, Live
    <3>2. CASE ~Failed(w)
      <4>1. w \in watches /\ names'[w] = names[w] \ removed
        BY <1>0, <3>2 DEF Failed, Broadcast
      <4> QED BY <1>4, <3>2, <4>1 DEF Subs
    <3> QED BY <3>1, <3>2
  <2> QED BY <2>1 DEF Subs
<1>7. ASSUME NEW w \in Streams, NEW n \in Names
      PROVE  View'[w][n] = IF w \in F \/ n \in removed \intersect Subs[w] THEN 0
                           ELSE IF n \in added \intersect Subs[w] THEN Certs[n] ELSE View[w][n]
  <2>1. CASE Failed(w)
    BY <1>4, <2>1 DEF View, Subs, NothingAdded
  <2>2. CASE w \in F
    BY <1>4, <2>2 DEF View, NothingAdded
  <2>3. CASE ~Failed(w) /\ w \notin F
    <3>1. w \in Live /\ w \in watches /\ Subs[w] = names[w] /\ View[w] = told[w]
      BY <1>0, <2>3 DEF Live, Failed, Subs, View
    <3>2. View'[w] = told'[w]
      BY <1>4, <2>3 DEF View
    <3>3. Addressed(w) => Enqueued(w)
      BY <2>3, <3>1 DEF Enqueued
    <3>4. /\ RemovedFor(w) = removed \intersect Subs[w]
          /\ n \in AddedFor(w) <=> n \in added \intersect Subs[w]
      BY <3>1 DEF RemovedFor, AddedFor
    <3>5. told'[w][n] = IF Enqueued(w) /\ n \in RemovedFor(w) THEN 0
                        ELSE IF Enqueued(w) /\ n \in AddedFor(w) THEN resources[n]
                        ELSE told[w][n]
      BY DEF Broadcast
    <3>6. n \in RemovedFor(w) \/ n \in AddedFor(w) => Enqueued(w)
      BY <3>1, <3>3 DEF Addressed
    <3> HIDE DEF added, F
    <3> QED BY <1>2, <2>3, <3>1, <3>2, <3>4, <3>5, <3>6
  <2> QED BY <2>1, <2>2, <2>3
<1>8. View' = [w \in Streams |-> [n \in Names |->
                IF w \in F \/ n \in removed \intersect Subs[w] THEN 0
                ELSE IF n \in added \intersect Subs[w] THEN Certs[n] ELSE View[w][n]]]
  <2>1. \A w \in Streams : View'[w] = [n \in Names |-> View'[w][n]]
    <3>1. TypeOK'
      BY TypeStep DEF Next, Update
    <3> QED BY <3>1 DEF View, TypeOK, NothingAdded
  <2>2. View' = [w \in Streams |-> View'[w]]
    BY DEF View
  <2> HIDE DEF added, F
  <2> QED BY <1>7, <2>1, <2>2
<1> HIDE DEF added, F
<1>9. Service!Announce(added, removed, F)
  BY <1>0, <1>2, <1>3, <1>5, <1>6, <1>8 DEF Service!Announce
<1> QED BY <1>1, <1>9

\* Every step of the server is a step of the service, or none.
LEMMA ServiceStep == IndInv /\ [Next]_vars => [Service!Next]_(Service!serviceVars)
<1> SUFFICES ASSUME IndInv, [Next]_vars
             PROVE  Service!Next \/ UNCHANGED Service!serviceVars
  OBVIOUS
<1> USE DEF serverVars, updateVars, streamVars, central
<1>0. TypeOK
  BY DEF IndInv
<1>1. CASE UNCHANGED <<entries, version, names, told, errors, handler>>
  <2>1. \A w \in Streams : Failed(w)' = Failed(w)
    BY <1>1 DEF Failed
  <2> QED BY <1>1, <2>1, ServiceStutter
<1>2. CASE Tick \/ UNCHANGED vars
  BY <1>1, <1>2 DEF Tick, vars
<1>3. ASSUME NEW n \in Names, ServeInvalid(n) \/ ServeCached(n)
      PROVE  UNCHANGED <<entries, version, names, told, errors, handler>>
  BY <1>3 DEF ServeInvalid, ServeCached
<1>4. ASSUME NEW n \in Names, Unsubscribe(n) PROVE Service!Next \/ UNCHANGED Service!serviceVars
  BY <1>4, ServiceWithdraw DEF Service!Next
<1>5. ASSUME NEW n \in Names, ServeIssued(n) PROVE Service!Next
  BY <1>5, ServiceIssue DEF Service!Next
<1>6. ASSUME NEW n \in Names, IssueFails(n) PROVE Service!Next
  BY <1>6, ServiceAbort DEF Service!Next
<1>7. CASE Broadcast
  BY <1>7, ServiceAnnounce DEF Service!Next
<1>8. ASSUME NEW w \in Streams, Stream(w) PROVE Service!Next \/ UNCHANGED Service!serviceVars
  <2>1. CASE Open(w)
    BY <2>1, ServiceOpen DEF Service!Next
  <2>2. ASSUME NEW r \in Requests, Recv(w, r)
        PROVE  UNCHANGED <<entries, version, names, told, errors, handler>>
    BY <2>2 DEF Recv
  <2>3. CASE SendBegin(w) \/ SendEnd(w)
    <3>1. /\ UNCHANGED <<entries, version, names, told, errors>>
          /\ \A v \in Streams : handler'[v] \in {"serving", "sending"}
                                  <=> handler[v] \in {"serving", "sending"}
      BY <1>0, <2>3 DEF SendBegin, SendEnd, TypeOK
    <3>2. \A v \in Streams : Failed(v)' = Failed(v)
      BY <3>1 DEF Failed
    <3> QED BY <3>1, <3>2, ServiceStutter
  <2>4. CASE RecvFail(w) \/ ProcessClosed(w) \/ ProcessOverLimit(w)
    <3>1. /\ UNCHANGED <<entries, version, told, handler>>
          /\ errors' = [errors EXCEPT ![w] = TRUE]
          /\ \A v \in Streams : v # w => names'[v] = names[v]
      BY <1>0, <2>4 DEF RecvFail, ProcessClosed, ProcessOverLimit, ReceiverFails, TypeOK
    <3>2. Failed(w)' /\ \A v \in Streams : v # w => Failed(v)' = Failed(v)
      BY <1>0, <3>1 DEF Failed, TypeOK
    <3> QED BY <3>1, <3>2, ServiceFail DEF Service!Next
  <2>5. CASE ReturnError(w) \/ Abandon(w) \/ Unregister(w)
    <3>1. /\ UNCHANGED <<entries, version>>
          /\ \A v \in Streams : v # w => /\ names'[v] = names[v] /\ told'[v] = told[v]
                                         /\ errors'[v] = errors[v] /\ handler'[v] = handler[v]
          /\ handler'[w] \in {"exiting", "gone"}
      BY <1>0, <2>5 DEF ReturnError, Abandon, Unregister, TypeOK
    <3>2. Failed(w)' /\ \A v \in Streams : v # w => Failed(v)' = Failed(v)
      BY <3>1 DEF Failed
    <3> QED BY <3>1, <3>2, ServiceFail DEF Service!Next
  <2>6. CASE Process(w)
    BY <2>6, ServiceSubscribe
  <2> QED BY <1>1, <1>8, <2>1, <2>2, <2>3, <2>4, <2>5, <2>6 DEF Stream, Lock
<1> QED BY <1>1, <1>2, <1>3, <1>4, <1>5, <1>6, <1>7, <1>8 DEF Next, Update

\* SecretServer implements SecretService: what sds.go does with its mutex, its queues
\* and its half-done updates is, for the streams in good standing, the atomic service.
THEOREM Implementation == Spec => ServiceSpec
BY ServiceInit, ServiceStep, Invariance, PTL DEF Spec, ServiceSpec, Service!Spec
=============================================================================
