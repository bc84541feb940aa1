---------------------------- MODULE SecretServer ----------------------------
(***************************************************************************)
(* The inspection certificate service: internal/inspection/sds.go, with    *)
(* the part of leaf.go that decides whether and for how long a leaf is     *)
(* issued.                                                                 *)
(*                                                                         *)
(* One SecretServer is shared by every delta-SDS stream of the local       *)
(* Envoy.  A stream has two goroutines: the handler, which owns the        *)
(* sending side (DeltaSecrets), and a receiver, which runs process under   *)
(* the mutex.  An update computed for one stream is broadcast to every     *)
(* stream interested in a name it touched, because a certificate issued    *)
(* for one name may evict another one from the bounded LRU cache.          *)
(*                                                                         *)
(* The critical section is modelled one name at a time, so that handlers,  *)
(* clients, other receivers and the clock move between its steps.          *)
(* Names are natural numbers: their order stands for the order of          *)
(* slices.Sorted.  Nonces and key material are left out: no code of the    *)
(* repository reads them back.                                             *)
(***************************************************************************)
EXTENDS Integers, FiniteSets, SequencesExt

CONSTANTS
    Streams,          \* slots for delta-SDS streams (a closed slot is reused)
    NoStream,         \* the value of mu when the mutex is free
    Names,            \* resource names Envoy may ask for
    ValidNames,       \* those canonicalName accepts
    Requests,         \* what Envoy may send: <<unsubscribed, subscribed>> names
    Capacity,         \* capacity of the certificate cache
    MaxRequestNames,  \* maxRequestNames
    QueueLen,         \* capacity of secretWatch.updates
    SecretTTL,        \* secretTTL
    LeafLife,         \* lifetime issue gives a leaf (one hour)
    IssueMargin,      \* what the CA must have left to issue (one minute)
    CANotBefore,      \* Authority.Certificate.NotBefore
    CANotAfter,       \* Authority.Certificate.NotAfter
    MaxTime,          \* bound of the clock
    MaxVersion        \* bound of the version counter

ASSUME StreamsAssumption == NoStream \notin Streams
ASSUME NamesAssumption ==
    /\ Names \subseteq Nat
    /\ ValidNames \subseteq Names
    /\ Requests \subseteq (SUBSET Names) \X (SUBSET Names)
    /\ \A r \in Requests : IsFiniteSet(r[1]) /\ IsFiniteSet(r[2])
ASSUME SizesAssumption ==
    /\ Capacity \in Nat \ {0}
    /\ MaxRequestNames \in Nat \ {0}
    /\ Capacity <= MaxRequestNames
    /\ QueueLen \in Nat \ {0}
ASSUME TimesAssumption ==
    /\ SecretTTL \in Nat \ {0}
    /\ LeafLife \in Nat
    /\ 2 * SecretTTL <= LeafLife
    /\ IssueMargin \in Nat
    /\ CANotBefore \in Nat
    /\ CANotAfter \in Nat
ASSUME BoundsAssumption ==
    /\ MaxTime \in Nat
    /\ CANotBefore <= MaxTime
    /\ MaxVersion \in Nat

VARIABLES
    mu,          \* holder of SecretServer.mu inside process, or NoStream
    watches,     \* SecretServer.watches
    names,       \* secretWatch.names of each stream
    updates,     \* number of updates in secretWatch.updates of each stream
    errors,      \* is there an error in secretWatch.errors?
    told,        \* history: the version of each name the client was last sent
    entries,     \* SecretServer.entries
    lru,         \* SecretServer.lru, most recently used first
    version,     \* SecretServer.version
    clock,       \* time.Now()
    unsubTodo,   \* unsubscribed names the update has not visited
    todo,        \* requested names the update has not visited
    resources,   \* version of each resource in the response, 0 for none
    removed,     \* removed resources of the response
    handler,     \* control state of DeltaSecrets
    recv,        \* control state of its receiver goroutine
    req,         \* the request the receiver works on, with the time it read
    unannounced  \* history: names a failed update touched and told nobody of

serverVars == <<entries, lru, version>>
updateVars == <<unsubTodo, todo, resources, removed>>
streamVars == <<watches, names, updates, errors, told, handler>>
central == <<mu, serverVars, clock, updateVars, unannounced>>
vars == <<central, streamVars, recv, req>>

-----------------------------------------------------------------------------
(* Data. *)

\* A cache entry, or the absence of one when version is 0.
Entry == [version : Nat, expires : Nat, notAfter : Nat]
Absent == [version |-> 0, expires |-> 0, notAfter |-> 0]
Cached == {n \in Names : entries[n].version # 0}

NothingAdded == [n \in Names |-> 0]

\* A request: the names and the time read before the mutex was taken.
Request == [now : Nat, unsub : SUBSET Names, subs : SUBSET Names]
NoRequest == [now |-> 0, unsub |-> {}, subs |-> {}]

\* SecretServer.remove on the list: lru without n.
Without(s, n) == RemoveAt(s, CHOOSE i \in DOMAIN s : s[i] = n)
ForgottenInList(s, n) == s
Dropped(s, n) == IF n \in Range(s) THEN Without(s, n) ELSE s

\* issue: the CA must be valid and have more than the margin left.
CanIssue(now) == CANotBefore <= now /\ now + IssueMargin < CANotAfter
LeafNotAfter(now) == IF CANotAfter < now + LeafLife THEN CANotAfter ELSE now + LeafLife

\* The stream was failed, or its handler is on its way out.
Failed(w) == errors[w] \/ handler[w] \notin {"serving", "sending"}

FreshUntilNotAfter(n) == entries[n].version # 0 /\ req[mu].now < entries[n].notAfter
Fresh(n) == entries[n].version # 0 /\ req[mu].now < entries[n].expires

-----------------------------------------------------------------------------
Init ==
    /\ mu = NoStream
    /\ watches = {}
    /\ names = [w \in Streams |-> {}]
    /\ updates = [w \in Streams |-> 0]
    /\ errors = [w \in Streams |-> FALSE]
    /\ told = [w \in Streams |-> NothingAdded]
    /\ entries = [n \in Names |-> Absent]
    /\ lru = <<>>
    /\ version = 0
    /\ clock = CANotBefore
    /\ unsubTodo = {}
    /\ todo = {}
    /\ resources = NothingAdded
    /\ removed = {}
    /\ handler = [w \in Streams |-> "gone"]
    /\ recv = [w \in Streams |-> "done"]
    /\ req = [w \in Streams |-> NoRequest]
    /\ unannounced = {}

Tick ==
    /\ clock < MaxTime
    /\ clock' = clock + 1
    /\ UNCHANGED <<mu, serverVars, updateVars, streamVars, recv, req, unannounced>>

-----------------------------------------------------------------------------
(* The life of a stream. *)

\* The limit on concurrent watches; a stream beyond it is refused.
MayOpen == Cardinality(watches) < 2 * Capacity

\* DeltaSecrets registers a new watch and starts its receiver.
Open(w) ==
    /\ handler[w] = "gone" /\ recv[w] = "done"
    /\ mu = NoStream
    /\ MayOpen
    /\ watches' = watches \union {w}
    /\ errors' = [errors EXCEPT ![w] = FALSE]
    /\ handler' = [handler EXCEPT ![w] = "serving"]
    /\ recv' = [recv EXCEPT ![w] = "recv"]
    /\ UNCHANGED <<central, names, updates, told, req>>

\* stream.Recv returns a well-formed request; the receiver reads the clock.
\* A request buffered by the transport may still come out after the handler
\* has returned.
Recv(w, r) ==
    /\ recv[w] = "recv"
    /\ Cardinality(r[1]) <= MaxRequestNames /\ Cardinality(r[2]) <= MaxRequestNames
    /\ version + Cardinality(r[2]) <= MaxVersion
    /\ recv' = [recv EXCEPT ![w] = "received"]
    /\ req' = [req EXCEPT ![w] = [now |-> clock, unsub |-> r[1], subs |-> r[2]]]
    /\ UNCHANGED <<central, streamVars>>

\* The receiver ends with an error: w.fail keeps the first one.
KeepsReceiving(w) == errors' = [errors EXCEPT ![w] = TRUE] /\ UNCHANGED <<recv, req>>
ReceiverFails(w) ==
    /\ errors' = [errors EXCEPT ![w] = TRUE]
    /\ recv' = [recv EXCEPT ![w] = "done"]
    /\ req' = [req EXCEPT ![w] = NoRequest]

\* Recv fails, or the message is a NACK or an unsupported request.
RecvFail(w) ==
    /\ recv[w] = "recv"
    /\ ReceiverFails(w)
    /\ UNCHANGED <<central, watches, names, updates, told, handler>>

\* The handler's select takes an update and blocks in stream.Send.
SendBegin(w) ==
    /\ handler[w] = "serving" /\ updates[w] > 0
    /\ handler' = [handler EXCEPT ![w] = "sending"]
    /\ updates' = [updates EXCEPT ![w] = @ - 1]
    /\ UNCHANGED <<central, watches, names, errors, told, recv, req>>

\* stream.Send returns: the client made room.
SendEnd(w) ==
    /\ handler[w] = "sending"
    /\ handler' = [handler EXCEPT ![w] = "serving"]
    /\ UNCHANGED <<central, watches, names, updates, errors, told, recv, req>>

\* The handler's select takes the error of the receiver or of enqueue.
ReturnError(w) ==
    /\ handler[w] = "serving" /\ errors[w]
    /\ handler' = [handler EXCEPT ![w] = "exiting"]
    /\ errors' = [errors EXCEPT ![w] = FALSE]
    /\ UNCHANGED <<central, watches, names, updates, told, recv, req>>

\* The stream's context is done, or Send failed.
Abandon(w) ==
    /\ handler[w] \in {"serving", "sending"}
    /\ handler' = [handler EXCEPT ![w] = "exiting"]
    /\ UNCHANGED <<central, watches, names, updates, errors, told, recv, req>>

\* The deferred function takes the mutex and removes the watch, which is then
\* garbage: its slot is cleared for the next stream.
Unregister(w) ==
    /\ handler[w] = "exiting"
    /\ mu = NoStream
    /\ watches' = watches \ {w}
    /\ handler' = [handler EXCEPT ![w] = "gone"]
    /\ names' = [names EXCEPT ![w] = {}]
    /\ updates' = [updates EXCEPT ![w] = 0]
    /\ told' = [told EXCEPT ![w] = NothingAdded]
    /\ UNCHANGED <<central, errors, recv, req>>

-----------------------------------------------------------------------------
(* process and updateLocked, under the mutex. *)

\* names of w after the subscription changes of its request.
Subscribed(w) == (names[w] \ req[w].unsub) \union req[w].subs

Active(w) == w \in watches

\* process finds that the handler has already unregistered the watch.
ProcessClosed(w) ==
    /\ recv[w] = "received" /\ mu = NoStream
    /\ ~Active(w)
    /\ ReceiverFails(w)
    /\ UNCHANGED <<central, watches, names, updates, told, handler>>

\* process refuses a subscription to too many names, having recorded it.
ProcessOverLimit(w) ==
    /\ recv[w] = "received" /\ mu = NoStream
    /\ Active(w)
    /\ Cardinality(Subscribed(w)) > MaxRequestNames
    /\ names' = [names EXCEPT ![w] = Subscribed(w)]
    /\ ReceiverFails(w)
    /\ UNCHANGED <<central, watches, updates, told, handler>>

\* process records the subscription and enters updateLocked.  The client has
\* forgotten what it unsubscribed from.
Process(w) ==
    /\ recv[w] = "received" /\ mu = NoStream
    /\ Active(w)
    /\ Cardinality(Subscribed(w)) <= MaxRequestNames
    /\ mu' = w
    /\ names' = [names EXCEPT ![w] = Subscribed(w)]
    /\ told' = [told EXCEPT ![w] = [n \in Names |-> IF n \in req[w].unsub THEN 0 ELSE @[n]]]
    /\ unsubTodo' = req[w].unsub
    /\ todo' = req[w].subs
    /\ resources' = NothingAdded
    /\ removed' = {}
    /\ UNCHANGED <<serverVars, clock, watches, updates, errors, handler,
                   recv, req, unannounced>>

RequesterInterested(n) == n \in names[mu]
Interested(n) == \E w \in watches : n \in names[w]

\* An unsubscribed name nobody is interested in leaves the cache.
Unsubscribe(n) ==
    /\ mu # NoStream /\ n \in unsubTodo
    /\ unsubTodo' = unsubTodo \ {n}
    /\ \/ /\ Interested(n)
          /\ UNCHANGED <<entries, lru>>
       \/ /\ ~Interested(n)
          /\ entries' = [entries EXCEPT ![n] = Absent]
          /\ lru' = Dropped(lru, n)
    /\ UNCHANGED <<mu, version, clock, todo, resources, removed, streamVars,
                   recv, req, unannounced>>

\* n is the next name in the order of slices.Sorted.
NextName(n) ==
    /\ mu # NoStream /\ unsubTodo = {}
    /\ n \in todo
    /\ \A m \in todo : n <= m

\* canonicalName rejects the name: it is answered by a removal.
ServeInvalid(n) ==
    /\ NextName(n) /\ n \notin ValidNames
    /\ removed' = removed \union {n}
    /\ todo' = todo \ {n}
    /\ UNCHANGED <<mu, serverVars, clock, unsubTodo, resources, streamVars,
                   recv, req, unannounced>>

\* A cached certificate that has not expired is moved to the front and reused.
ServeCached(n) ==
    /\ NextName(n) /\ n \in ValidNames
    /\ Fresh(n)
    /\ lru' = <<n>> \o Without(lru, n)
    /\ resources' = [resources EXCEPT ![n] = entries[n].version]
    /\ todo' = todo \ {n}
    /\ UNCHANGED <<mu, entries, version, clock, unsubTodo, removed, streamVars,
                   recv, req, unannounced>>

\* The cache, without an expired entry of n, has no room for another one.
Full(n) == Len(Dropped(lru, n)) = Capacity

\* s.version++: no two certificates have one version.
NotCounted == UNCHANGED version
Counted == version' = version + 1

\* A new certificate: an expired entry goes, the least recently used one is
\* evicted from a full cache, and the new entry is pushed to the front.
ServeIssued(n) ==
    /\ NextName(n) /\ n \in ValidNames
    /\ ~Fresh(n)
    /\ CanIssue(req[mu].now)
    /\ LET rest == Dropped(lru, n)
           new == [version |-> version + 1,
                   expires |-> req[mu].now + SecretTTL,
                   notAfter |-> LeafNotAfter(req[mu].now)]
       IN \/ /\ Full(n)
             /\ LET evicted == rest[Len(rest)]
                IN /\ entries' = [entries EXCEPT ![evicted] = Absent, ![n] = new]
                   /\ lru' = <<n>> \o SubSeq(rest, 1, Len(rest) - 1)
                   /\ removed' = removed \union {evicted}
                   /\ resources' = [resources EXCEPT ![evicted] = 0, ![n] = version + 1]
          \/ /\ ~Full(n)
             /\ entries' = [entries EXCEPT ![n] = new]
             /\ lru' = <<n>> \o rest
             /\ resources' = [resources EXCEPT ![n] = version + 1]
             /\ UNCHANGED removed
    /\ Counted
    /\ todo' = todo \ {n}
    /\ UNCHANGED <<mu, clock, unsubTodo, streamVars, recv, req, unannounced>>

\* The CA is exhausted, or key generation or signing fails: the update is
\* given up half done, nothing is broadcast and the requester is failed.
IssueFails(n) ==
    /\ NextName(n) /\ n \in ValidNames
    /\ ~Fresh(n)
    /\ entries' = [entries EXCEPT ![n] = Absent]
    /\ lru' = Dropped(lru, n)
    /\ unannounced' = unannounced \union removed \union {n}
                        \union {m \in Names : resources[m] # 0}
    /\ mu' = NoStream
    /\ todo' = {} /\ resources' = NothingAdded /\ removed' = {}
    /\ ReceiverFails(mu)
    /\ UNCHANGED <<version, clock, unsubTodo, watches, names, updates, told, handler>>

\* The parts of the response that concern stream w: added and removed names.
AddedFor(w) == {n \in names[w] : resources[n] # 0}
RequesterRemovals(w) == IF w = mu THEN removed \intersect names[w] ELSE {}
RemovedFor(w) == removed \intersect names[w]

\* The event of w is not empty.
Addressed(w) == w \in watches /\ AddedFor(w) \union RemovedFor(w) # {}

\* The buffered channel takes one more update.
RoomForOneMore(w) == updates[w] <= QueueLen
HasRoom(w) == updates[w] < QueueLen

\* The update is complete.  A send that waits for room would hold the mutex.
WaitsForRoom ==
    /\ mu # NoStream /\ unsubTodo = {} /\ todo = {}
    /\ \A w \in Streams : Addressed(w) => HasRoom(w)
Complete == mu # NoStream /\ unsubTodo = {} /\ todo = {}

\* enqueue: the event of w enters its queue.
Enqueued(w) == Addressed(w) /\ HasRoom(w)

\* process sends every interested watch its part, fails the ones whose queue is
\* full, forgets the removed names and releases the mutex.
Broadcast ==
    /\ Complete
    /\ updates' = [w \in Streams |-> IF Enqueued(w) THEN updates[w] + 1 ELSE updates[w]]
    /\ errors' = [w \in Streams |-> errors[w] \/ (Addressed(w) /\ ~HasRoom(w))]
    /\ told' = [w \in Streams |-> [n \in Names |->
                  CASE Enqueued(w) /\ n \in RemovedFor(w) -> 0
                    [] Enqueued(w) /\ n \in AddedFor(w) \ RemovedFor(w) -> resources[n]
                    [] OTHER -> told[w][n]]]
    /\ names' = [w \in Streams |->
                     IF w \in watches THEN names[w] \ removed ELSE names[w]]
    /\ unannounced' = unannounced \ (removed \union {n \in Names : resources[n] # 0})
    /\ mu' = NoStream
    /\ resources' = NothingAdded /\ removed' = {}
    /\ recv' = [recv EXCEPT ![mu] = "recv"]
    /\ req' = [req EXCEPT ![mu] = NoRequest]
    /\ UNCHANGED <<serverVars, clock, unsubTodo, todo, watches, handler>>

\* One step of the critical section.
Update ==
    \/ \E n \in Names : Unsubscribe(n) \/ ServeInvalid(n) \/ ServeCached(n)
                        \/ ServeIssued(n) \/ IssueFails(n)
    \/ Broadcast

\* The receiver of w gets the mutex.
Lock(w) == ProcessClosed(w) \/ ProcessOverLimit(w) \/ Process(w)

Stream(w) ==
    \/ Open(w)
    \/ \E r \in Requests : Recv(w, r)
    \/ RecvFail(w)
    \/ SendBegin(w) \/ SendEnd(w)
    \/ ReturnError(w) \/ Abandon(w) \/ Unregister(w)
    \/ Lock(w)

Next == Tick \/ Update \/ \E w \in Streams : Stream(w)

Spec == Init /\ [][Next]_vars

-----------------------------------------------------------------------------
(* Fairness.  A goroutine that can run runs; a Go mutex is handed to a       *)
(* waiter in bounded time (starvation mode), hence strong fairness where a   *)
(* step waits for mu; select chooses at random among its ready cases.        *)

ServerFairness ==
    /\ WF_vars(Update)
    /\ \A w \in Streams : SF_vars(Lock(w)) /\ SF_vars(Unregister(w))

\* The client keeps reading its stream, and gRPC ends the receiver of a stream
\* whose handler has returned.
TransportFairness ==
    \A w \in Streams :
        /\ WF_vars(SendBegin(w)) /\ WF_vars(SendEnd(w)) /\ SF_vars(ReturnError(w))
        /\ WF_vars(handler[w] = "gone" /\ RecvFail(w))

\* Clients may stall: only the server's own goroutines are fair.
FairSpec == Spec /\ ServerFairness

-----------------------------------------------------------------------------
(* Properties. *)

\* The type of every variable of SecretServer and of the stream goroutines.
TypeOK ==
    /\ mu \in Streams \union {NoStream}
    /\ watches \in SUBSET Streams
    /\ names \in [Streams -> SUBSET Names]
    /\ updates \in [Streams -> Nat]
    /\ errors \in [Streams -> BOOLEAN]
    /\ told \in [Streams -> [Names -> Nat]]
    /\ entries \in [Names -> Entry]
    /\ lru \in Seq(Names)
    /\ version \in Nat
    /\ clock \in Nat
    /\ unsubTodo \in SUBSET Names
    /\ todo \in SUBSET Names
    /\ resources \in [Names -> Nat]
    /\ removed \in SUBSET Names
    /\ handler \in [Streams -> {"gone", "serving", "sending", "exiting"}]
    /\ recv \in [Streams -> {"recv", "received", "done"}]
    /\ req \in [Streams -> Request]
    /\ unannounced \in SUBSET Names

\* The map and the list of the cache always hold the same names, each once, and
\* never more than the capacity, also between two names of one update.
CacheBounded ==
    /\ IsInjective(lru)
    /\ Range(lru) = Cached
    /\ Len(lru) <= Capacity

\* There are never more watches than twice the capacity, and exactly the
\* handlers that have not returned are registered.
WatchesBounded ==
    /\ watches = {w \in Streams : handler[w] # "gone"}
    /\ Cardinality(watches) <= 2 * Capacity

\* The limits hold together: on the watches, and for each of them on the queue and,
\* while the stream is healthy, on the names it is subscribed to.
StreamsBounded ==
    /\ WatchesBounded
    /\ \A w \in watches :
          /\ Failed(w) \/ Cardinality(names[w]) <= MaxRequestNames
          /\ updates[w] <= QueueLen

\* Whenever the mutex is free, a healthy stream has been sent exactly the
\* certificate the cache holds for every name it is subscribed to, and holds no
\* other certificate: evictions and reissues caused by another stream reach it.
\* The only exception is a name touched by an update that failed half way.
SubscribersCoherent ==
    mu = NoStream =>
        \A w \in watches : ~Failed(w) =>
            /\ \A n \in names[w] \ unannounced :
                  n \in Cached /\ told[w][n] = entries[n].version
            /\ \A n \in Names \ names[w] : told[w][n] = 0

\* A certificate in a response outlives the TTL the client will keep it for,
\* counted from the time the request was read, unless the CA itself ends first.
ServedLeafOutlivesTTL ==
    mu # NoStream =>
        \A n \in Names : resources[n] # 0 =>
            \/ entries[n].notAfter >= req[mu].now + SecretTTL
            \/ entries[n].notAfter = CANotAfter

-----------------------------------------------------------------------------
(* The inductive invariant behind the properties above. *)

\* The mutex holder is a registered stream with a request in hand, and an update
\* leaves nothing behind when it releases the mutex.
Locked ==
    /\ mu # NoStream => mu \in watches /\ recv[mu] = "received"
    /\ mu = NoStream => /\ unsubTodo = {} /\ todo = {}
                        /\ resources = NothingAdded /\ removed = {}

\* A slot without a handler is as a new stream finds it.
GoneCleared ==
    \A w \in Streams : handler[w] = "gone" =>
        names[w] = {} /\ updates[w] = 0 /\ told[w] = NothingAdded

\* A certificate in the response is the one in the cache and has not expired;
\* none is put there before the unsubscriptions are done.
ResponseCached ==
    \A n \in Names : resources[n] # 0 =>
        /\ resources[n] = entries[n].version
        /\ req[mu].now < entries[n].expires
        /\ unsubTodo = {}

\* A cached leaf outlives its cache entry by the TTL, or ends with the CA.
LeavesOutliveEntries ==
    \A n \in Cached : \/ entries[n].notAfter >= entries[n].expires + SecretTTL
                      \/ entries[n].notAfter = CANotAfter

\* A name w is subscribed to is coherent, or the update of w has not come to
\* it, or its new state is in the response about to be broadcast.
Settled(w, n) ==
    \/ mu = w /\ n \in todo
    \/ n \in removed
    \/ resources[n] # 0
    \/ n \in Cached /\ told[w][n] = entries[n].version

UpdateCoherent ==
    \A w \in watches : ~Failed(w) =>
        /\ \A n \in names[w] \ unannounced : Settled(w, n)
        /\ \A n \in Names \ names[w] : told[w][n] = 0

\* What every step of the service preserves.
IndInv ==
    /\ TypeOK
    /\ CacheBounded
    /\ WatchesBounded
    /\ IsFiniteSet(watches)
    /\ Locked
    /\ GoneCleared
    /\ ResponseCached
    /\ LeavesOutliveEntries
    /\ UpdateCoherent

\* No version is ahead of the counter, and none a stream holds is ahead of the cache.
VersionInv ==
    /\ \A n \in Names : entries[n].version <= version
    /\ \A w \in Streams, n \in Names :
          /\ told[w][n] <= version
          /\ n \in Cached => told[w][n] <= entries[n].version

\* What streams and requests hold is finite, and healthy streams are within
\* their limits.
StreamInv ==
    /\ \A w \in Streams : /\ IsFiniteSet(req[w].subs) /\ IsFiniteSet(names[w])
                          /\ updates[w] <= QueueLen
    /\ \A w \in watches : Failed(w) \/ Cardinality(names[w]) <= MaxRequestNames

-----------------------------------------------------------------------------
(* Refinement: a failed stream, which Envoy will have to open anew, is no     *)
(* longer part of the service.                                                *)

Certs == [n \in Names |-> entries[n].version]
Live == {w \in Streams : ~Failed(w)}
Subs == [w \in Streams |-> IF Failed(w) THEN {} ELSE names[w]]
View == [w \in Streams |-> IF Failed(w) THEN NothingAdded ELSE told[w]]

Service == INSTANCE SecretService WITH
    cert <- Certs, last <- version, live <- Live, subs <- Subs, view <- View

\* The server, with its mutex, its bounded queues and its updates that may fail half
\* way, implements SecretService: every step changes what the streams in good standing
\* see only as the abstract service allows, all subscribers of a name together.
ServiceSpec == Service!Spec

\* A response never both adds and removes a name.
OneAnswer ==
    Complete => \A n \in removed : resources[n] = 0

\* A certificate leaves the cache, or is replaced, only when it has expired for
\* the request being served, when it is the least recently used one of a full
\* cache, or when no stream is subscribed to it.
CertificatesStable ==
    [][\A n \in Cached : entries'[n] # entries[n] =>
           \/ req[mu].now >= entries[n].expires
           \/ Len(lru) = Capacity /\ lru[Capacity] = n
           \/ \A w \in watches : n \notin names[w]]_vars

\* The versions of a name only advance, across evictions, renewals and failed updates:
\* a new certificate has a higher version than any stream holds for its name, and no
\* stream is told of an older certificate after a newer one.
VersionsAdvance ==
    [][\A w \in Streams, n \in Names :
          /\ entries'[n] # entries[n] /\ n \in Cached' => entries'[n].version > told[w][n]
          /\ told'[w][n] # 0 => told'[w][n] >= told[w][n]]_vars

\* Every request is answered or refused although clients may stall: a stream
\* that does not drain its updates never holds up the others.
RequestsAnswered ==
    \A w \in Streams : recv[w] = "received" ~> recv[w] \in {"recv", "done"}

\* A failed stream whose client keeps reading is closed and unregistered, and once gRPC
\* has ended the stream its receiver does not outlive the handler for ever.
StreamsEnd ==
    TransportFairness => \A w \in Streams :
        /\ (errors[w] /\ w \in watches) ~> w \notin watches
        /\ handler[w] = "gone" ~> (recv[w] = "done" \/ handler[w] # "gone")
=============================================================================
