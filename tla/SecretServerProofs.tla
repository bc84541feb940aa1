------------------------- MODULE SecretServerProofs -------------------------
(***************************************************************************)
(* Proofs about SecretServer, for any set of streams and names, any        *)
(* capacity, queue length and lifetimes.  The lemmas on sequences say what *)
(* the list operations of the cache return; then every conjunct of IndInv  *)
(* is shown to be preserved by every step, and the properties follow.      *)
(***************************************************************************)
EXTENDS SecretServer, SequenceTheorems, FiniteSetTheorems, TLAPS

\* What is left of a sequence when one of its elements is removed.
LEMMA RemoveAtFacts ==
    ASSUME NEW S, NEW s \in Seq(S), NEW i \in 1..Len(s)
    PROVE  /\ RemoveAt(s, i) \in Seq(S)
           /\ Len(RemoveAt(s, i)) = Len(s) - 1
           /\ \A k \in 1..(Len(s) - 1) :
                 RemoveAt(s, i)[k] = IF k < i THEN s[k] ELSE s[k + 1]
<1> DEFINE a == SubSeq(s, 1, i - 1)
           b == SubSeq(s, i + 1, Len(s))
<1>1. Len(s) \in Nat /\ \A k \in 1..Len(s) : s[k] \in S
  OBVIOUS
<1>2. a \in Seq(S) /\ Len(a) = i - 1 /\ \A k \in 1..(i - 1) : a[k] = s[k]
  BY <1>1, SubSeqProperties
<1>3. /\ b \in Seq(S) /\ Len(b) = Len(s) - i
      /\ \A k \in 1..(Len(s) - i) : b[k] = s[k + i]
  BY <1>1, SubSeqProperties
<1>4. RemoveAt(s, i) = a \o b
  BY DEF RemoveAt
<1> HIDE DEF a, b
<1>5. /\ a \o b \in Seq(S)
      /\ Len(a \o b) = Len(s) - 1
      /\ \A k \in 1..(Len(s) - 1) : (a \o b)[k] = IF k <= Len(a) THEN a[k] ELSE b[k - Len(a)]
  <2>1. /\ a \o b \in Seq(S)
        /\ Len(a \o b) = Len(a) + Len(b)
        /\ \A k \in 1..(Len(a) + Len(b)) :
              (a \o b)[k] = IF k <= Len(a) THEN a[k] ELSE b[k - Len(a)]
    BY <1>2, <1>3, ConcatProperties
  <2>2. Len(a) + Len(b) = Len(s) - 1
    BY <1>1, <1>2, <1>3
  <2> QED BY <2>1, <2>2
<1>6. ASSUME NEW k \in 1..(Len(s) - 1)
      PROVE  (a \o b)[k] = IF k < i THEN s[k] ELSE s[k + 1]
  BY <1>1, <1>2, <1>3, <1>5
<1> QED BY <1>4, <1>5, <1>6

\* Removing a name from a list that holds it once (SecretServer.remove).
LEMMA WithoutFacts ==
    ASSUME NEW s \in Seq(Names), NEW n \in Names, IsInjective(s), n \in Range(s)
    PROVE  /\ Without(s, n) \in Seq(Names)
           /\ Len(Without(s, n)) = Len(s) - 1
           /\ IsInjective(Without(s, n))
           /\ Range(Without(s, n)) = Range(s) \ {n}
<1>1. PICK i \in 1..Len(s) : s[i] = n /\ Without(s, n) = RemoveAt(s, i)
  <2>1. \E j \in DOMAIN s : s[j] = n
    BY DEF Range
  <2>2. DOMAIN s = 1..Len(s)
    OBVIOUS
  <2> QED BY <2>1, <2>2 DEF Without
<1>2. PICK t : t = Without(s, n)
  OBVIOUS
<1>3. /\ t \in Seq(Names)
      /\ Len(t) = Len(s) - 1
      /\ \A k \in 1..(Len(s) - 1) : t[k] = IF k < i THEN s[k] ELSE s[k + 1]
  BY <1>1, <1>2, RemoveAtFacts
<1>4. Len(s) \in Nat /\ DOMAIN s = 1..Len(s) /\ DOMAIN t = 1..(Len(s) - 1)
  BY <1>3
<1>5. \A j, k \in 1..Len(s) : s[j] = s[k] => j = k
  BY <1>4 DEF IsInjective
<1>6. IsInjective(t)
  <2> SUFFICES ASSUME NEW j \in 1..(Len(s) - 1), NEW k \in 1..(Len(s) - 1), t[j] = t[k]
               PROVE  j = k
    BY <1>4 DEF IsInjective
  <2> QED BY <1>3, <1>4, <1>5
<1>7. ASSUME NEW k \in 1..(Len(s) - 1) PROVE t[k] \in Range(s) /\ t[k] # n
  BY <1>1, <1>3, <1>4, <1>5 DEF Range
<1>8. ASSUME NEW m \in Range(s), m # n PROVE \E k \in 1..(Len(s) - 1) : t[k] = m
  <2>1. PICK j \in 1..Len(s) : s[j] = m
    BY <1>4 DEF Range
  <2>2. j # i
    BY <1>1, <1>8, <2>1
  <2>3. CASE j < i
    BY <1>1, <1>3, <1>4, <2>1, <2>3
  <2>4. CASE j > i
    <3>1. j - 1 \in 1..(Len(s) - 1) /\ ~(j - 1 < i) /\ (j - 1) + 1 = j
      BY <1>4, <2>4
    <3> QED BY <1>3, <2>1, <3>1
  <2> QED BY <1>1, <2>2, <2>3, <2>4
<1>9. Range(t) = Range(s) \ {n}
  BY <1>4, <1>7, <1>8 DEF Range
<1> QED BY <1>2, <1>3, <1>6, <1>9

\* Removing a name from a list that may hold it (SecretServer.remove).
LEMMA DroppedFacts ==
    ASSUME NEW s \in Seq(Names), NEW n \in Names, IsInjective(s)
    PROVE  /\ Dropped(s, n) \in Seq(Names)
           /\ Len(Dropped(s, n)) = IF n \in Range(s) THEN Len(s) - 1 ELSE Len(s)
           /\ IsInjective(Dropped(s, n))
           /\ Range(Dropped(s, n)) = Range(s) \ {n}
BY WithoutFacts DEF Dropped

\* Pushing a name to the front of a list without it (lru.PushFront).
LEMMA PushFacts ==
    ASSUME NEW s \in Seq(Names), NEW n \in Names, IsInjective(s), n \notin Range(s)
    PROVE  /\ <<n>> \o s \in Seq(Names)
           /\ Len(<<n>> \o s) = Len(s) + 1
           /\ IsInjective(<<n>> \o s)
           /\ Range(<<n>> \o s) = Range(s) \union {n}
<1>1. PICK t : t = <<n>> \o s
  OBVIOUS
<1>2. Len(s) \in Nat /\ DOMAIN s = 1..Len(s)
  OBVIOUS
<1>3. /\ t \in Seq(Names)
      /\ Len(t) = Len(s) + 1
      /\ \A k \in 1..(Len(s) + 1) : t[k] = IF k = 1 THEN n ELSE s[k - 1]
  <2>1. <<n>> \in Seq(Names) /\ Len(<<n>>) = 1 /\ <<n>>[1] = n
    OBVIOUS
  <2>2. /\ t \in Seq(Names)
        /\ Len(t) = 1 + Len(s)
        /\ \A k \in 1..(1 + Len(s)) : t[k] = IF k <= 1 THEN <<n>>[k] ELSE s[k - 1]
    BY <1>1, <2>1, ConcatProperties
  <2> QED BY <1>2, <2>1, <2>2
<1>4. DOMAIN t = 1..(Len(s) + 1)
  BY <1>3
<1>5. ASSUME NEW k \in 1..Len(s) PROVE s[k] \in Range(s) /\ s[k] # n
  BY <1>2 DEF Range
<1>6. IsInjective(t)
  <2> SUFFICES ASSUME NEW j \in 1..(Len(s) + 1), NEW k \in 1..(Len(s) + 1), t[j] = t[k]
               PROVE  j = k
    BY <1>4 DEF IsInjective
  <2>1. \A a, b \in 1..Len(s) : s[a] = s[b] => a = b
    BY <1>2 DEF IsInjective
  <2> QED BY <1>2, <1>3, <1>5, <2>1
<1>7. ASSUME NEW m \in Range(s) PROVE \E k \in 1..(Len(s) + 1) : t[k] = m
  <2>1. PICK j \in 1..Len(s) : s[j] = m
    BY <1>2 DEF Range
  <2>2. j + 1 \in 1..(Len(s) + 1) /\ j + 1 # 1 /\ (j + 1) - 1 = j
    BY <1>2
  <2> QED BY <1>3, <2>1, <2>2
<1>8. t[1] = n /\ 1 \in 1..(Len(s) + 1)
  BY <1>2, <1>3
<1>9. ASSUME NEW k \in 1..(Len(s) + 1) PROVE t[k] \in Range(s) \union {n}
  BY <1>2, <1>3, <1>5
<1>10. Range(t) = Range(s) \union {n}
  BY <1>4, <1>7, <1>8, <1>9 DEF Range
<1> QED BY <1>1, <1>3, <1>6, <1>10

\* Evicting the last name of a list (lru.Back, then remove).
LEMMA ButLastFacts ==
    ASSUME NEW s \in Seq(Names), IsInjective(s), Len(s) > 0
    PROVE  /\ s[Len(s)] \in Range(s)
           /\ SubSeq(s, 1, Len(s) - 1) \in Seq(Names)
           /\ Len(SubSeq(s, 1, Len(s) - 1)) = Len(s) - 1
           /\ IsInjective(SubSeq(s, 1, Len(s) - 1))
           /\ Range(SubSeq(s, 1, Len(s) - 1)) = Range(s) \ {s[Len(s)]}
<1>1. PICK t : t = SubSeq(s, 1, Len(s) - 1)
  OBVIOUS
<1>2. Len(s) \in Nat /\ DOMAIN s = 1..Len(s) /\ \A k \in 1..Len(s) : s[k] \in Names
  OBVIOUS
<1>3. /\ t \in Seq(Names)
      /\ Len(t) = Len(s) - 1
      /\ \A k \in 1..(Len(s) - 1) : t[k] = s[k]
  BY <1>1, <1>2, SubSeqProperties
<1>4. DOMAIN t = 1..(Len(s) - 1)
  BY <1>2, <1>3
<1>5. \A j, k \in 1..Len(s) : s[j] = s[k] => j = k
  BY <1>2 DEF IsInjective
<1>6. IsInjective(t)
  BY <1>2, <1>3, <1>4, <1>5 DEF IsInjective
<1>7. ASSUME NEW k \in 1..(Len(s) - 1) PROVE s[k] \in Range(s) /\ s[k] # s[Len(s)]
  BY <1>2, <1>5 DEF Range
<1>8. ASSUME NEW m \in Range(s), m # s[Len(s)] PROVE \E k \in 1..(Len(s) - 1) : t[k] = m
  BY <1>2, <1>3, <1>8 DEF Range
<1>9. Range(t) = Range(s) \ {s[Len(s)]}
  BY <1>2, <1>3, <1>4, <1>7, <1>8 DEF Range
<1>10. s[Len(s)] \in Range(s)
  BY <1>2 DEF Range
<1> QED BY <1>1, <1>3, <1>6, <1>9, <1>10

-----------------------------------------------------------------------------
(* Type correctness. *)

\* A new SecretServer is well typed.
LEMMA InitType == Init => TypeOK
BY StreamsAssumption, TimesAssumption
   DEF Init, TypeOK, NothingAdded, Absent, Entry, NoRequest, Request

\* What a new cache entry is made of.
LEMMA NewEntryType ==
    ASSUME NEW now \in Nat, NEW v \in Nat
    PROVE  [version |-> v + 1, expires |-> now + SecretTTL, notAfter |-> LeafNotAfter(now)] \in Entry
BY TimesAssumption DEF LeafNotAfter, Entry

\* The facts every step starts from: the mutex holder is a stream and the list
\* of the cache has the shape the lemmas about sequences ask for.
LEMMA StepFacts ==
    ASSUME IndInv
    PROVE  /\ TypeOK
           /\ lru \in Seq(Names) /\ IsInjective(lru) /\ Range(lru) = Cached
           /\ Len(lru) \in Nat /\ Len(lru) <= Capacity
           /\ mu # NoStream => mu \in Streams /\ mu \in watches /\ req[mu].now \in Nat
BY DEF IndInv, TypeOK, CacheBounded, Locked, Request

\* Every step keeps the types.
LEMMA TypeStep == IndInv /\ [Next]_vars => TypeOK'
<1> SUFFICES ASSUME IndInv, [Next]_vars PROVE TypeOK'
  OBVIOUS
<1> USE DEF serverVars, updateVars, streamVars, central
<1>0. /\ TypeOK
      /\ lru \in Seq(Names) /\ IsInjective(lru) /\ Range(lru) = Cached
      /\ mu # NoStream => mu \in Streams /\ req[mu].now \in Nat
  BY StepFacts
<1>1. CASE Tick
  BY <1>0, <1>1 DEF Tick, TypeOK
<1>2. ASSUME NEW n \in Names, Unsubscribe(n) PROVE TypeOK'
  <2>1. Dropped(lru, n) \in Seq(Names)
    BY <1>0, DroppedFacts
  <2>2. Absent \in Entry
    BY DEF Absent, Entry
  <2> QED BY <1>0, <1>2, <2>1, <2>2 DEF Unsubscribe, TypeOK
<1>3. ASSUME NEW n \in Names, ServeInvalid(n) PROVE TypeOK'
  BY <1>0, <1>3 DEF ServeInvalid, TypeOK
<1>4. ASSUME NEW n \in Names, ServeCached(n) PROVE TypeOK'
  <2>1. n \in Cached
    BY <1>4 DEF ServeCached, Fresh, Cached
  <2>2. <<n>> \o Without(lru, n) \in Seq(Names)
    BY <1>0, <2>1, WithoutFacts, PushFacts
  <2>3. entries[n].version \in Nat
    BY <1>0 DEF TypeOK, Entry
  <2> QED BY <1>0, <1>4, <2>2, <2>3 DEF ServeCached, TypeOK
<1>5. ASSUME NEW n \in Names, ServeIssued(n) PROVE TypeOK'
  <2> DEFINE rest == Dropped(lru, n)
             new == [version |-> version + 1, expires |-> req[mu].now + SecretTTL,
                     notAfter |-> LeafNotAfter(req[mu].now)]
  <2>1. mu # NoStream /\ version \in Nat
    BY <1>0, <1>5 DEF ServeIssued, NextName, TypeOK
  <2>0. /\ version' = version + 1 /\ todo' = todo \ {n}
        /\ UNCHANGED <<mu, clock, unsubTodo, streamVars, recv, req, unannounced>>
    BY <1>5 DEF ServeIssued, Counted
  <2>2. new \in Entry /\ Absent \in Entry
    BY <1>0, <2>1, NewEntryType DEF Absent, Entry
  <2>3. rest \in Seq(Names) /\ IsInjective(rest) /\ n \notin Range(rest)
    BY <1>0, DroppedFacts
  <2>4. CASE Full(n)
    <3>1. Len(rest) > 0
      BY <2>3, <2>4, SizesAssumption DEF Full
    <3>2. rest[Len(rest)] \in Names
      BY <2>3, <3>1
    <3>3. <<n>> \o SubSeq(rest, 1, Len(rest) - 1) \in Seq(Names)
      BY <2>3, <3>1, ButLastFacts, PushFacts
    <3> HIDE DEF rest, new
    <3>4. /\ entries' = [entries EXCEPT ![rest[Len(rest)]] = Absent, ![n] = new]
          /\ lru' = <<n>> \o SubSeq(rest, 1, Len(rest) - 1)
          /\ removed' = removed \union {rest[Len(rest)]}
          /\ resources' = [resources EXCEPT ![rest[Len(rest)]] = 0, ![n] = version + 1]
      BY <1>5, <2>4 DEF ServeIssued, rest, new
    <3>5. entries' \in [Names -> Entry]
      BY <1>0, <2>2, <3>2, <3>4 DEF TypeOK
    <3>6. removed' \in SUBSET Names
      BY <1>0, <3>2, <3>4 DEF TypeOK
    <3>7. version + 1 \in Nat /\ resources \in [Names -> Nat]
      BY <1>0, <2>1 DEF TypeOK
    <3>8. resources' \in [Names -> Nat]
      BY <3>2, <3>4, <3>7
    <3> QED BY <1>0, <2>0, <3>3, <3>4, <3>5, <3>6, <3>7, <3>8 DEF TypeOK
  <2>5. CASE ~Full(n)
    <3>1. <<n>> \o rest \in Seq(Names)
      BY <2>3, PushFacts
    <3> HIDE DEF rest, new
    <3>2. /\ entries' = [entries EXCEPT ![n] = new]
          /\ lru' = <<n>> \o rest
          /\ resources' = [resources EXCEPT ![n] = version + 1]
          /\ removed' = removed
      BY <1>5, <2>5 DEF ServeIssued, rest, new
    <3>3. entries' \in [Names -> Entry]
      BY <1>0, <2>2, <3>2 DEF TypeOK
    <3>4. resources' \in [Names -> Nat] /\ version' \in Nat
      BY <1>0, <2>0, <2>1, <3>2 DEF TypeOK
    <3> QED BY <1>0, <2>0, <3>1, <3>2, <3>3, <3>4 DEF TypeOK
  <2> QED BY <2>4, <2>5
<1>6. ASSUME NEW n \in Names, IssueFails(n) PROVE TypeOK'
  <2>1. Dropped(lru, n) \in Seq(Names)
    BY <1>0, DroppedFacts
  <2>2. Absent \in Entry /\ NothingAdded \in [Names -> Nat] /\ NoRequest \in Request
    BY DEF Absent, Entry, NothingAdded, NoRequest, Request
  <2>3. mu \in Streams
    BY <1>0, <1>6 DEF IssueFails, NextName
  <2> QED BY <1>0, <1>6, <2>1, <2>2, <2>3 DEF IssueFails, ReceiverFails, TypeOK
<1>7. CASE Broadcast
  <2>1. NothingAdded \in [Names -> Nat] /\ NoRequest \in Request
    BY DEF NothingAdded, NoRequest, Request
  <2>2. mu \in Streams
    BY <1>0, <1>7 DEF Broadcast, Complete
  <2>3. names' \in [Streams -> SUBSET Names] /\ updates' \in [Streams -> Nat]
    BY <1>0, <1>7 DEF Broadcast, TypeOK
  <2>4. errors' \in [Streams -> BOOLEAN]
    BY <1>0, <1>7 DEF Broadcast, TypeOK
  <2>5. told' \in [Streams -> [Names -> Nat]]
    BY <1>0, <1>7 DEF Broadcast, TypeOK
  <2>6. recv' \in [Streams -> {"recv", "received", "done"}] /\ req' \in [Streams -> Request]
    BY <1>0, <1>7, <2>1, <2>2 DEF Broadcast, TypeOK
  <2> QED BY <1>0, <1>7, <2>1, <2>2, <2>3, <2>4, <2>5, <2>6 DEF Broadcast, TypeOK
<1>8. ASSUME NEW w \in Streams, Stream(w) PROVE TypeOK'
  <2>0. NothingAdded \in [Names -> Nat] /\ NoRequest \in Request
    BY DEF NothingAdded, NoRequest, Request
  <2>1. CASE Open(w)
    BY <1>0, <2>1 DEF Open, TypeOK
  <2>2. ASSUME NEW r \in Requests, Recv(w, r) PROVE TypeOK'
    <3>1. [now |-> clock, unsub |-> r[1], subs |-> r[2]] \in Request
      BY <1>0, NamesAssumption DEF TypeOK, Request
    <3> QED BY <1>0, <2>2, <3>1 DEF Recv, TypeOK
  <2>3. CASE RecvFail(w)
    BY <1>0, <2>0, <2>3 DEF RecvFail, ReceiverFails, TypeOK
  <2>4. CASE SendBegin(w)
    BY <1>0, <2>4 DEF SendBegin, TypeOK
  <2>5. CASE SendEnd(w)
    BY <1>0, <2>5 DEF SendEnd, TypeOK
  <2>6. CASE ReturnError(w)
    BY <1>0, <2>6 DEF ReturnError, TypeOK
  <2>7. CASE Abandon(w)
    BY <1>0, <2>7 DEF Abandon, TypeOK
  <2>8. CASE Unregister(w)
    BY <1>0, <2>0, <2>8 DEF Unregister, TypeOK
  <2>9. CASE ProcessClosed(w)
    BY <1>0, <2>0, <2>9 DEF ProcessClosed, ReceiverFails, TypeOK
  <2>10. Subscribed(w) \in SUBSET Names /\ req[w].unsub \in SUBSET Names /\ req[w].subs \in SUBSET Names
    BY <1>0 DEF Subscribed, TypeOK, Request
  <2>11. CASE ProcessOverLimit(w)
    BY <1>0, <2>0, <2>10, <2>11 DEF ProcessOverLimit, ReceiverFails, TypeOK
  <2>12. CASE Process(w)
    <3>1. told' \in [Streams -> [Names -> Nat]]
      BY <1>0, <2>12 DEF Process, TypeOK
    <3> QED BY <1>0, <2>0, <2>10, <2>12, <3>1 DEF Process, TypeOK
  <2> QED BY <1>8, <2>1, <2>2, <2>3, <2>4, <2>5, <2>6, <2>7, <2>8, <2>9, <2>11, <2>12
          DEF Stream, Lock
<1>9. CASE UNCHANGED vars
  BY <1>0, <1>9 DEF vars, TypeOK
<1> QED BY <1>1, <1>2, <1>3, <1>4, <1>5, <1>6, <1>7, <1>8, <1>9 DEF Next, Update
-----------------------------------------------------------------------------
(* The cache. *)

\* Issuing a certificate for n, seen as a whole: at most one entry is evicted,
\* the least recently used one of a full cache, and it is not n.
LEMMA IssuedFacts ==
    ASSUME IndInv, NEW n \in Names, ServeIssued(n)
    PROVE  \E evicted \in SUBSET Names :
             /\ n \notin evicted
             /\ evicted # {} => Len(lru) = Capacity /\ evicted = {lru[Capacity]}
             /\ entries' = [m \in Names |->
                   IF m = n THEN [version |-> version + 1,
                                  expires |-> req[mu].now + SecretTTL,
                                  notAfter |-> LeafNotAfter(req[mu].now)]
                   ELSE IF m \in evicted THEN Absent ELSE entries[m]]
             /\ resources' = [m \in Names |->
                   IF m = n THEN version + 1
                   ELSE IF m \in evicted THEN 0 ELSE resources[m]]
             /\ removed' = removed \union evicted
             /\ IsInjective(lru') /\ Len(lru') <= Capacity
             /\ Range(lru') = (Cached \ evicted) \union {n}
<1> DEFINE rest == Dropped(lru, n)
           new == [version |-> version + 1, expires |-> req[mu].now + SecretTTL,
                   notAfter |-> LeafNotAfter(req[mu].now)]
<1>0. /\ lru \in Seq(Names) /\ IsInjective(lru) /\ Range(lru) = Cached
      /\ Len(lru) \in Nat /\ Len(lru) <= Capacity
      /\ entries \in [Names -> Entry] /\ resources \in [Names -> Nat]
      /\ Capacity \in Nat \ {0}
  BY StepFacts, SizesAssumption DEF TypeOK
<1>1. /\ rest \in Seq(Names) /\ IsInjective(rest)
      /\ Range(rest) = Cached \ {n}
      /\ Len(rest) = IF n \in Range(lru) THEN Len(lru) - 1 ELSE Len(lru)
  BY <1>0, DroppedFacts
<1>2. CASE Full(n)
  <2>1. Len(rest) = Capacity /\ n \notin Range(lru) /\ rest = lru /\ Len(lru) = Capacity
    BY <1>0, <1>1, <1>2 DEF Full, Dropped
  <2> DEFINE e == lru[Capacity]
             front == SubSeq(lru, 1, Capacity - 1)
  <2>2. /\ e \in Range(lru) /\ front \in Seq(Names) /\ Len(front) = Capacity - 1
        /\ IsInjective(front) /\ Range(front) = Range(lru) \ {e}
    BY <1>0, <2>1, ButLastFacts
  <2>3. e \in Names /\ e # n /\ n \notin Range(front)
    BY <1>0, <2>1, <2>2 DEF Cached
  <2>4. /\ IsInjective(<<n>> \o front) /\ Len(<<n>> \o front) = Capacity
        /\ Range(<<n>> \o front) = (Cached \ {e}) \union {n}
    <3> HIDE DEF e, front
    <3>1. /\ IsInjective(<<n>> \o front) /\ Len(<<n>> \o front) = Len(front) + 1
          /\ Range(<<n>> \o front) = Range(front) \union {n}
      BY <2>2, <2>3, PushFacts
    <3>2. (Capacity - 1) + 1 = Capacity
      BY <1>0
    <3> QED BY <1>0, <2>2, <3>1, <3>2
  <2>5. /\ entries' = [entries EXCEPT ![rest[Len(rest)]] = Absent, ![n] = new]
        /\ lru' = <<n>> \o SubSeq(rest, 1, Len(rest) - 1)
        /\ removed' = removed \union {rest[Len(rest)]}
        /\ resources' = [resources EXCEPT ![rest[Len(rest)]] = 0, ![n] = version + 1]
    BY <1>2, ServeIssued(n) DEF ServeIssued
  <2>6. lru' = <<n>> \o front /\ removed' = removed \union {e}
    BY <2>1, <2>5
  <2> HIDE DEF front, new, e
  <2>7. entries' = [m \in Names |-> IF m = n THEN new
                                    ELSE IF m \in {e} THEN Absent ELSE entries[m]]
    BY <1>0, <2>1, <2>3, <2>5 DEF e
  <2>8. resources' = [m \in Names |-> IF m = n THEN version + 1
                                      ELSE IF m \in {e} THEN 0 ELSE resources[m]]
    BY <1>0, <2>1, <2>3, <2>5 DEF e
  <2>9. Len(lru') <= Capacity
    BY <1>0, <2>4, <2>6
  <2> {e} \in SUBSET Names
    BY <2>3
  <2> WITNESS {e} \in SUBSET Names
  <2> QED BY <2>1, <2>3, <2>4, <2>6, <2>7, <2>8, <2>9 DEF e, new
<1>3. CASE ~Full(n)
  <2>1. Len(rest) < Capacity /\ n \notin Range(rest)
    BY <1>0, <1>1, <1>3 DEF Full
  <2>2. /\ IsInjective(<<n>> \o rest) /\ Len(<<n>> \o rest) = Len(rest) + 1
        /\ Range(<<n>> \o rest) = Cached \union {n}
    BY <1>1, <2>1, PushFacts
  <2>3. /\ entries' = [entries EXCEPT ![n] = new]
        /\ lru' = <<n>> \o rest
        /\ resources' = [resources EXCEPT ![n] = version + 1]
        /\ removed' = removed
    BY <1>3, ServeIssued(n) DEF ServeIssued
  <2>4. Len(lru') <= Capacity
    BY <1>0, <1>1, <2>1, <2>2, <2>3
  <2> HIDE DEF rest, new
  <2>5. /\ entries' = [m \in Names |-> IF m = n THEN new
                                       ELSE IF m \in {} THEN Absent ELSE entries[m]]
        /\ resources' = [m \in Names |-> IF m = n THEN version + 1
                                         ELSE IF m \in {} THEN 0 ELSE resources[m]]
    BY <1>0, <2>3
  <2> WITNESS {} \in SUBSET Names
  <2> QED BY <2>2, <2>3, <2>4, <2>5 DEF new
<1> QED BY <1>2, <1>3

\* Only these steps change the cache.
LEMMA CacheFrame ==
    ASSUME [Next]_vars
    PROVE  \/ UNCHANGED <<entries, lru>>
           \/ \E n \in Names : \/ Unsubscribe(n) \/ ServeCached(n)
                              \/ ServeIssued(n) \/ IssueFails(n)
BY DEF Next, Update, Stream, Lock, Tick, ServeInvalid, Broadcast, Open, Recv, RecvFail,
       SendBegin, SendEnd, ReturnError, Abandon, Unregister, ProcessClosed,
       ProcessOverLimit, Process, vars, central, serverVars

\* Every step keeps the map and the list of the cache in agreement and bounded.
LEMMA CacheStep == IndInv /\ [Next]_vars => CacheBounded'
<1> SUFFICES ASSUME IndInv, [Next]_vars PROVE CacheBounded'
  OBVIOUS
<1>0. /\ lru \in Seq(Names) /\ IsInjective(lru) /\ Range(lru) = Cached
      /\ Len(lru) \in Nat /\ Len(lru) <= Capacity
      /\ entries \in [Names -> Entry] /\ Capacity \in Nat /\ version \in Nat
  BY StepFacts, SizesAssumption DEF TypeOK
<1>1. CASE UNCHANGED <<entries, lru>>
  BY <1>0, <1>1 DEF CacheBounded, Cached
<1>2. ASSUME NEW n \in Names, \/ UNCHANGED <<entries, lru>>
                              \/ /\ entries' = [entries EXCEPT ![n] = Absent]
                                 /\ lru' = Dropped(lru, n)
      PROVE  CacheBounded'
  <2>1. CASE entries' = [entries EXCEPT ![n] = Absent] /\ lru' = Dropped(lru, n)
    <3>1. /\ IsInjective(lru') /\ Range(lru') = Cached \ {n}
          /\ Len(lru') = Len(lru) - 1 \/ Len(lru') = Len(lru)
      BY <1>0, <2>1, DroppedFacts
    <3>2. Len(lru') <= Capacity
      BY <1>0, <3>1
    <3>3. Cached' = Cached \ {n}
      BY <1>0, <2>1 DEF Cached, Absent
    <3> QED BY <3>1, <3>2, <3>3 DEF CacheBounded
  <2> QED BY <1>1, <1>2, <2>1
<1>3. ASSUME NEW n \in Names, Unsubscribe(n) PROVE CacheBounded'
  BY <1>2, <1>3 DEF Unsubscribe
<1>4. ASSUME NEW n \in Names, IssueFails(n) PROVE CacheBounded'
  BY <1>2, <1>4 DEF IssueFails
<1>5. ASSUME NEW n \in Names, ServeCached(n) PROVE CacheBounded'
  <2>1. n \in Range(lru) /\ lru' = <<n>> \o Without(lru, n) /\ entries' = entries
    BY <1>0, <1>5 DEF ServeCached, Fresh, Cached
  <2>2. /\ IsInjective(lru') /\ Len(lru') = Len(lru) - 1 + 1
        /\ Range(lru') = (Range(lru) \ {n}) \union {n}
    BY <1>0, <2>1, WithoutFacts, PushFacts
  <2>3. Cached' = Cached
    BY <2>1 DEF Cached
  <2>4. Len(lru') <= Capacity
    BY <1>0, <2>2
  <2>5. Range(lru') = Cached
    BY <1>0, <2>1, <2>2
  <2> QED BY <2>2, <2>3, <2>4, <2>5 DEF CacheBounded
<1>6. ASSUME NEW n \in Names, ServeIssued(n) PROVE CacheBounded'
  <2>1. PICK evicted \in SUBSET Names :
          /\ n \notin evicted
          /\ entries' = [m \in Names |->
                IF m = n THEN [version |-> version + 1,
                               expires |-> req[mu].now + SecretTTL,
                               notAfter |-> LeafNotAfter(req[mu].now)]
                ELSE IF m \in evicted THEN Absent ELSE entries[m]]
          /\ IsInjective(lru') /\ Len(lru') <= Capacity
          /\ Range(lru') = (Cached \ evicted) \union {n}
    BY <1>6, IssuedFacts
  <2>2. version + 1 # 0
    BY <1>0
  <2>3. Cached' = (Cached \ evicted) \union {n}
    BY <2>1, <2>2 DEF Cached, Absent
  <2> QED BY <2>1, <2>3 DEF CacheBounded
<1> QED BY <1>1, <1>3, <1>4, <1>5, <1>6, CacheFrame
-----------------------------------------------------------------------------
(* Streams and the mutex. *)

\* Every step keeps the watches to the running handlers, within their limit.
LEMMA WatchStep == IndInv /\ [Next]_vars => WatchesBounded' /\ IsFiniteSet(watches')
<1> SUFFICES ASSUME IndInv, [Next]_vars PROVE WatchesBounded' /\ IsFiniteSet(watches')
  OBVIOUS
<1> USE DEF serverVars, updateVars, streamVars, central
<1>0. /\ handler \in [Streams -> {"gone", "serving", "sending", "exiting"}]
      /\ watches = {w \in Streams : handler[w] # "gone"}
      /\ IsFiniteSet(watches) /\ Cardinality(watches) <= 2 * Capacity
      /\ Cardinality(watches) \in Nat /\ Capacity \in Nat
  BY FS_CardinalityType, SizesAssumption DEF IndInv, TypeOK, WatchesBounded
<1>1. CASE /\ watches' = watches
           /\ \A w \in Streams : handler'[w] = "gone" <=> handler[w] = "gone"
  BY <1>0, <1>1 DEF WatchesBounded
<1>2. ASSUME NEW w \in Streams, Open(w) PROVE WatchesBounded' /\ IsFiniteSet(watches')
  <2>1. /\ w \notin watches /\ watches' = watches \union {w}
        /\ Cardinality(watches) < 2 * Capacity
    BY <1>0, <1>2 DEF Open, MayOpen
  <2>2. IsFiniteSet(watches') /\ Cardinality(watches') = Cardinality(watches) + 1
    BY <1>0, <2>1, FS_AddElement
  <2>3. Cardinality(watches') <= 2 * Capacity
    BY <1>0, <2>1, <2>2
  <2>4. watches' = {v \in Streams : handler'[v] # "gone"}
    BY <1>0, <1>2, <2>1 DEF Open
  <2> QED BY <2>2, <2>3, <2>4 DEF WatchesBounded
<1>3. ASSUME NEW w \in Streams, Unregister(w)
      PROVE  WatchesBounded' /\ IsFiniteSet(watches')
  <2>1. watches' = watches \ {w}
    BY <1>3 DEF Unregister
  <2>2. IsFiniteSet(watches') /\ Cardinality(watches') <= Cardinality(watches)
    BY <1>0, <2>1, FS_Subset
  <2>3. Cardinality(watches') \in Nat
    BY <2>2, FS_CardinalityType
  <2>4. Cardinality(watches') <= 2 * Capacity
    BY <1>0, <2>2, <2>3
  <2>5. watches' = {v \in Streams : handler'[v] # "gone"}
    BY <1>0, <1>3, <2>1 DEF Unregister
  <2> QED BY <2>2, <2>4, <2>5 DEF WatchesBounded
<1>4. \/ /\ watches' = watches
         /\ \A w \in Streams : handler'[w] = "gone" <=> handler[w] = "gone"
      \/ \E w \in Streams : Open(w) \/ Unregister(w)
  <2>1. ASSUME NEW w \in Streams, SendBegin(w) \/ SendEnd(w) \/ ReturnError(w) \/ Abandon(w)
        PROVE  /\ watches' = watches
               /\ \A v \in Streams : handler'[v] = "gone" <=> handler[v] = "gone"
    BY <1>0, <2>1 DEF SendBegin, SendEnd, ReturnError, Abandon
  <2> QED BY <2>1 DEF Next, Update, Stream, Lock, Tick, Unsubscribe, ServeInvalid,
           ServeCached, ServeIssued, IssueFails, Broadcast, Recv, RecvFail,
           ProcessClosed, ProcessOverLimit, Process, vars
<1> QED BY <1>1, <1>2, <1>3, <1>4

\* Every step keeps the mutex with a registered stream, and what is not in use
\* empty.
LEMMA LockedStep == IndInv /\ [Next]_vars => Locked' /\ GoneCleared'
<1> SUFFICES ASSUME IndInv, [Next]_vars PROVE Locked' /\ GoneCleared'
  OBVIOUS
<1> USE DEF serverVars, updateVars, streamVars, central
<1>0. /\ TypeOK /\ Locked /\ GoneCleared
      /\ watches = {w \in Streams : handler[w] # "gone"}
      /\ NoStream \notin Streams
  BY StreamsAssumption DEF IndInv, WatchesBounded
<1>1. CASE Tick \/ UNCHANGED vars
  BY <1>0, <1>1 DEF Tick, vars, Locked, GoneCleared
<1>2. ASSUME NEW n \in Names, Unsubscribe(n) \/ ServeInvalid(n) \/ ServeCached(n)
      PROVE  Locked' /\ GoneCleared'
  BY <1>0, <1>2
     DEF Unsubscribe, ServeInvalid, ServeCached, NextName, Locked, GoneCleared
<1>3. ASSUME NEW n \in Names, ServeIssued(n) PROVE Locked' /\ GoneCleared'
  <2>1. mu # NoStream /\ UNCHANGED <<mu, streamVars, recv>>
    BY <1>3 DEF ServeIssued, NextName
  <2> QED BY <1>0, <2>1 DEF Locked, GoneCleared
<1>4. ASSUME NEW n \in Names, IssueFails(n) PROVE Locked' /\ GoneCleared'
  BY <1>0, <1>4 DEF IssueFails, NextName, Locked, GoneCleared
<1>5. CASE Broadcast
  <2>1. Locked'
    BY <1>0, <1>5 DEF Broadcast, Complete, Locked
  <2>2. ASSUME NEW w \in Streams, handler'[w] = "gone"
        PROVE  names'[w] = {} /\ updates'[w] = 0 /\ told'[w] = NothingAdded
    <3>1. w \notin watches /\ handler[w] = "gone"
      BY <1>0, <1>5, <2>2 DEF Broadcast
    <3>2. ~Enqueued(w)
      BY <3>1 DEF Enqueued, Addressed
    <3>3. told'[w] = [n \in Names |-> told[w][n]] /\ told[w] \in [Names -> Nat]
      BY <1>0, <1>5, <3>2 DEF Broadcast, TypeOK
    <3> QED BY <1>0, <1>5, <3>1, <3>2, <3>3 DEF Broadcast, GoneCleared
  <2> QED BY <2>1, <2>2 DEF GoneCleared
<1>6. ASSUME NEW w \in Streams, Stream(w) PROVE Locked' /\ GoneCleared'
  <2>1. CASE Open(w)
    BY <1>0, <2>1 DEF Open, Locked, GoneCleared, TypeOK
  <2>2. ASSUME NEW r \in Requests, Recv(w, r) PROVE Locked' /\ GoneCleared'
    BY <1>0, <2>2 DEF Recv, Locked, GoneCleared, TypeOK
  <2>3. CASE RecvFail(w)
    BY <1>0, <2>3 DEF RecvFail, ReceiverFails, Locked, GoneCleared, TypeOK
  <2>4. CASE SendBegin(w) \/ SendEnd(w) \/ ReturnError(w) \/ Abandon(w)
    BY <1>0, <2>4 DEF SendBegin, SendEnd, ReturnError, Abandon, Locked, GoneCleared, TypeOK
  <2>5. CASE Unregister(w)
    BY <1>0, <2>5 DEF Unregister, Locked, GoneCleared, TypeOK
  <2>6. CASE ProcessClosed(w)
    BY <1>0, <2>6 DEF ProcessClosed, ReceiverFails, Locked, GoneCleared, TypeOK
  <2>7. CASE ProcessOverLimit(w)
    BY <1>0, <2>7 DEF ProcessOverLimit, Active, ReceiverFails, Locked, GoneCleared, TypeOK
  <2>8. CASE Process(w)
    BY <1>0, <2>8 DEF Process, Active, Locked, GoneCleared, TypeOK
  <2> QED BY <1>6, <2>1, <2>2, <2>3, <2>4, <2>5, <2>6, <2>7, <2>8 DEF Stream, Lock
<1> QED BY <1>1, <1>2, <1>3, <1>4, <1>5, <1>6 DEF Next, Update
-----------------------------------------------------------------------------
(* The certificates an update puts in its response. *)

\* Every step keeps the certificates of the response those of the cache.
LEMMA ResponseStep == IndInv /\ [Next]_vars => ResponseCached'
<1> SUFFICES ASSUME IndInv, [Next]_vars PROVE ResponseCached'
  OBVIOUS
<1> USE DEF serverVars, updateVars, streamVars, central
<1>0. /\ TypeOK /\ Locked /\ ResponseCached
      /\ mu # NoStream => mu \in Streams /\ req[mu].now \in Nat
      /\ NoStream \notin Streams
  BY StepFacts, StreamsAssumption DEF IndInv
<1>1. CASE mu = NoStream
  <2>1. resources' = NothingAdded
    BY <1>0, <1>1 DEF Next, Update, Stream, Lock, Tick, Unsubscribe, ServeInvalid, NextName,
       ServeCached, ServeIssued, IssueFails, Broadcast, Complete, Open, Recv, RecvFail,
       SendBegin, SendEnd, ReturnError, Abandon, Unregister, ProcessClosed,
       ProcessOverLimit, Process, vars, Locked
  <2> QED BY <2>1 DEF ResponseCached, NothingAdded
<1>2. CASE mu # NoStream
  <2>1. CASE UNCHANGED <<resources, entries, mu, unsubTodo>> /\ req'[mu] = req[mu]
    BY <1>0, <2>1 DEF ResponseCached
  <2>2. CASE Tick \/ UNCHANGED vars \/ \E n \in Names : ServeInvalid(n)
    BY <2>1, <2>2 DEF Tick, vars, ServeInvalid
  <2>3. ASSUME NEW n \in Names, Unsubscribe(n) PROVE ResponseCached'
    BY <1>0, <2>3 DEF Unsubscribe, ResponseCached
  <2>4. ASSUME NEW n \in Names, ServeCached(n) PROVE ResponseCached'
    BY <1>0, <2>4 DEF ServeCached, NextName, Fresh, ResponseCached, TypeOK
  <2>5. ASSUME NEW n \in Names, ServeIssued(n) PROVE ResponseCached'
    <3>1. PICK evicted \in SUBSET Names :
            /\ entries' = [m \in Names |->
                  IF m = n THEN [version |-> version + 1,
                                 expires |-> req[mu].now + SecretTTL,
                                 notAfter |-> LeafNotAfter(req[mu].now)]
                  ELSE IF m \in evicted THEN Absent ELSE entries[m]]
            /\ resources' = [m \in Names |->
                  IF m = n THEN version + 1
                  ELSE IF m \in evicted THEN 0 ELSE resources[m]]
      BY <2>5, IssuedFacts
    <3>2. unsubTodo = {} /\ UNCHANGED <<mu, req, unsubTodo>>
      BY <2>5 DEF ServeIssued, NextName
    <3>3. req[mu].now < req[mu].now + SecretTTL
      BY <1>0, <1>2, TimesAssumption
    <3> SUFFICES ASSUME NEW m \in Names, resources'[m] # 0
                 PROVE  /\ resources'[m] = entries'[m].version
                        /\ req'[mu'].now < entries'[m].expires
                        /\ unsubTodo' = {}
      BY DEF ResponseCached
    <3>4. CASE m = n
      BY <3>1, <3>2, <3>3, <3>4
    <3>5. CASE m # n
      BY <1>0, <3>1, <3>2, <3>5 DEF ResponseCached
    <3> QED BY <3>4, <3>5
  <2>6. CASE Broadcast \/ \E n \in Names : IssueFails(n)
    BY <2>6 DEF Broadcast, IssueFails, ResponseCached, NothingAdded
  <2>7. ASSUME NEW w \in Streams, Stream(w) PROVE ResponseCached'
    <3>1. UNCHANGED <<resources, entries, mu, unsubTodo>>
      BY <1>2, <2>7 DEF Stream, Lock, Open, Recv, RecvFail, SendBegin, SendEnd, ReturnError,
         Abandon, Unregister, ProcessClosed, ProcessOverLimit, Process
    <3>2. req' = req \/ (recv[w] = "recv" /\ \E r : req' = [req EXCEPT ![w] = r])
      BY <1>2, <2>7 DEF Stream, Lock, Open, Recv, RecvFail, ReceiverFails, SendBegin, SendEnd,
         ReturnError, Abandon, Unregister, ProcessClosed, ProcessOverLimit, Process
    <3>3. req'[mu] = req[mu]
      BY <1>0, <1>2, <3>2 DEF Locked, TypeOK
    <3> QED BY <2>1, <3>1, <3>3
  <2> QED BY <2>2, <2>3, <2>4, <2>5, <2>6, <2>7 DEF Next, Update
<1> QED BY <1>1, <1>2

\* Every step keeps the leaves alive a TTL longer than their cache entries.
LEMMA LeavesStep == IndInv /\ [Next]_vars => LeavesOutliveEntries'
<1> SUFFICES ASSUME IndInv, [Next]_vars, NEW m \in Names, entries'[m].version # 0
             PROVE  \/ entries'[m].notAfter >= entries'[m].expires + SecretTTL
                    \/ entries'[m].notAfter = CANotAfter
  BY DEF LeavesOutliveEntries, Cached
<1>0. /\ entries \in [Names -> Entry] /\ LeavesOutliveEntries
      /\ mu # NoStream => req[mu].now \in Nat
  BY StepFacts DEF IndInv, TypeOK
<1>1. CASE entries'[m] = entries[m]
  BY <1>0, <1>1 DEF LeavesOutliveEntries, Cached
<1>2. ASSUME NEW n \in Names, entries' = [entries EXCEPT ![n] = Absent]
      PROVE  entries'[m] = entries[m]
  BY <1>0, <1>2 DEF Absent
<1>3. ASSUME NEW n \in Names, Unsubscribe(n) \/ IssueFails(n)
      PROVE  entries'[m] = entries[m]
  BY <1>2, <1>3 DEF Unsubscribe, IssueFails
<1>4. ASSUME NEW n \in Names, ServeIssued(n), entries'[m] # entries[m]
      PROVE  \/ entries'[m].notAfter >= entries'[m].expires + SecretTTL
             \/ entries'[m].notAfter = CANotAfter
  <2>1. PICK evicted \in SUBSET Names :
          entries' = [k \in Names |->
                IF k = n THEN [version |-> version + 1,
                               expires |-> req[mu].now + SecretTTL,
                               notAfter |-> LeafNotAfter(req[mu].now)]
                ELSE IF k \in evicted THEN Absent ELSE entries[k]]
    BY <1>4, IssuedFacts
  <2>2. m = n
    BY <1>4, <2>1 DEF Absent
  <2>3. /\ entries'[m].expires = req[mu].now + SecretTTL
        /\ entries'[m].notAfter = LeafNotAfter(req[mu].now)
    BY <2>1, <2>2
  <2>4. req[mu].now \in Nat
    BY <1>0, <1>4 DEF ServeIssued, NextName
  <2> QED BY <2>3, <2>4, TimesAssumption DEF LeafNotAfter
<1>5. ASSUME NEW n \in Names, ServeCached(n) PROVE entries'[m] = entries[m]
  BY <1>5 DEF ServeCached
<1> QED BY <1>1, <1>3, <1>4, <1>5, CacheFrame
-----------------------------------------------------------------------------
(* What the streams have been sent. *)

\* The steps that touch neither the cache, the response nor a subscription.
LEMMA CoherentFrame ==
    ASSUME UpdateCoherent, watches' \subseteq watches,
           UNCHANGED <<mu, todo, removed, resources, entries, unannounced>>,
           \A w \in watches' : ~Failed(w)' =>
               ~Failed(w) /\ names'[w] = names[w] /\ told'[w] = told[w]
    PROVE  UpdateCoherent'
BY DEF UpdateCoherent, Settled, Cached

\* What a stream does by itself leaves the other streams coherent, and itself.
LEMMA CoherentStreamStep ==
    ASSUME IndInv, NEW w \in Streams, Stream(w)
    PROVE  UpdateCoherent'
<1> USE DEF serverVars, updateVars, streamVars, central
<1>0. /\ TypeOK /\ Locked /\ GoneCleared /\ UpdateCoherent
      /\ watches = {v \in Streams : handler[v] # "gone"}
      /\ NoStream \notin Streams
  BY StreamsAssumption DEF IndInv, WatchesBounded
<1>1. CASE Open(w)
  <2>1. w \notin watches /\ names[w] = {} /\ told[w] = NothingAdded
    BY <1>0, <1>1 DEF Open, GoneCleared
  <2>2. watches' = watches \union {w} /\ UNCHANGED <<central, names, told>>
    BY <1>1 DEF Open
  <2>3. \A v \in watches : ~Failed(v)' => ~Failed(v)
    BY <1>0, <1>1, <2>1 DEF Open, Failed, TypeOK
  <2> QED BY <1>0, <2>1, <2>2, <2>3 DEF UpdateCoherent, Settled, Cached, NothingAdded
<1>2. CASE \E r \in Requests : Recv(w, r)
  BY <1>0, <1>2, CoherentFrame DEF Recv, Failed
<1>3. CASE RecvFail(w) \/ ProcessClosed(w)
  BY <1>0, <1>3, CoherentFrame DEF RecvFail, ProcessClosed, ReceiverFails, Failed, TypeOK
<1>4. CASE SendBegin(w) \/ SendEnd(w) \/ ReturnError(w) \/ Abandon(w)
  BY <1>0, <1>4, CoherentFrame
     DEF SendBegin, SendEnd, ReturnError, Abandon, Failed, TypeOK
<1>5. CASE Unregister(w)
  BY <1>0, <1>5, CoherentFrame DEF Unregister, Failed, TypeOK
<1>6. CASE ProcessOverLimit(w)
  <2>1. Failed(w)'
    BY <1>0, <1>6 DEF ProcessOverLimit, ReceiverFails, Failed, TypeOK
  <2>2. \A v \in watches : v # w => Failed(v)' = Failed(v) /\ names'[v] = names[v]
    BY <1>0, <1>6 DEF ProcessOverLimit, ReceiverFails, Failed, TypeOK
  <2> QED BY <1>0, <1>6, <2>1, <2>2, CoherentFrame DEF ProcessOverLimit
<1>7. CASE Process(w)
  <2>1. /\ mu = NoStream /\ mu' = w /\ w \in watches
        /\ UNCHANGED <<entries, watches, errors, handler, unannounced>>
        /\ todo' = req[w].subs /\ removed = {} /\ removed' = {}
        /\ resources = NothingAdded /\ resources' = NothingAdded
    BY <1>0, <1>7 DEF Process, Active, Locked
  <2>2. \A v \in watches : v # w => names'[v] = names[v] /\ told'[v] = told[v]
    BY <1>0, <1>7 DEF Process, TypeOK
  <2>3. /\ names'[w] = (names[w] \ req[w].unsub) \union req[w].subs
        /\ \A n \in Names : told'[w][n] = IF n \in req[w].unsub THEN 0 ELSE told[w][n]
    BY <1>0, <1>7 DEF Process, Subscribed, TypeOK
  <2>4. \A v \in watches : Failed(v)' = Failed(v)
    BY <2>1 DEF Failed
  <2>5. Cached' = Cached
    BY <2>1 DEF Cached
  <2>6. ASSUME NEW v \in watches, ~Failed(v), NEW n \in names[v] \ unannounced
        PROVE  n \in Cached /\ told[v][n] = entries[n].version
    <3>1. n \in Names /\ Settled(v, n)
      BY <1>0, <2>6 DEF UpdateCoherent, TypeOK
    <3> QED BY <1>0, <2>1, <3>1 DEF Settled, NothingAdded
  <2>7. ASSUME NEW v \in watches, ~Failed(v), v # w
        PROVE  /\ \A n \in names'[v] \ unannounced' : Settled(v, n)'
               /\ \A n \in Names \ names'[v] : told'[v][n] = 0
    BY <1>0, <2>1, <2>2, <2>5, <2>6, <2>7 DEF Settled, UpdateCoherent
  <2>8. ASSUME ~Failed(w)
        PROVE  /\ \A n \in names'[w] \ unannounced' : Settled(w, n)'
               /\ \A n \in Names \ names'[w] : told'[w][n] = 0
    <3>1. ASSUME NEW n \in names'[w] \ unannounced' PROVE Settled(w, n)'
      <4>1. CASE n \in req[w].subs
        BY <2>1, <4>1 DEF Settled
      <4>2. CASE n \notin req[w].subs
        <5>1. n \in names[w] \ unannounced /\ n \notin req[w].unsub /\ n \in Names
          BY <1>0, <2>1, <2>3, <3>1, <4>2 DEF TypeOK
        <5> QED BY <2>1, <2>3, <2>5, <2>6, <2>8, <5>1 DEF Settled
      <4> QED BY <4>1, <4>2
    <3>2. ASSUME NEW n \in Names \ names'[w] PROVE told'[w][n] = 0
      BY <1>0, <2>1, <2>3, <2>8, <3>2 DEF UpdateCoherent
    <3> QED BY <3>1, <3>2
  <2> QED BY <2>1, <2>4, <2>7, <2>8 DEF UpdateCoherent
<1> QED BY <1>1, <1>2, <1>3, <1>4, <1>5, <1>6, <1>7 DEF Stream, Lock

\* A broadcast settles every name of the response with every stream.
LEMMA CoherentBroadcast ==
    ASSUME IndInv, Broadcast
    PROVE  UpdateCoherent'
<1>0. /\ TypeOK /\ Locked /\ ResponseCached /\ UpdateCoherent
      /\ todo = {} /\ UNCHANGED <<entries, watches, handler>>
  BY DEF IndInv, Broadcast, Complete, serverVars
<1> SUFFICES ASSUME NEW w \in watches, ~Failed(w)'
             PROVE  /\ \A n \in names'[w] \ unannounced' : Settled(w, n)'
                    /\ \A n \in Names \ names'[w] : told'[w][n] = 0
  BY <1>0 DEF UpdateCoherent
<1>1. w \in Streams /\ names'[w] = names[w] \ removed
  BY <1>0 DEF Broadcast, TypeOK
<1>2. /\ ~Failed(w)
      /\ Addressed(w) => Enqueued(w)
  BY <1>0, <1>1 DEF Broadcast, Failed, Enqueued
<1>3. ASSUME NEW n \in Names, n \notin AddedFor(w), n \notin RemovedFor(w)
      PROVE  told'[w][n] = told[w][n]
  BY <1>1, <1>3 DEF Broadcast
<1>4. ASSUME NEW n \in Names, n \in RemovedFor(w) PROVE told'[w][n] = 0
  BY <1>1, <1>2, <1>4 DEF Broadcast, Addressed
<1>5. ASSUME NEW n \in Names, n \in AddedFor(w), n \notin RemovedFor(w)
      PROVE  told'[w][n] = resources[n]
  BY <1>1, <1>2, <1>5 DEF Broadcast, Addressed
<1>6. ASSUME NEW n \in names'[w] \ unannounced' PROVE Settled(w, n)'
  <2>1. n \in Names /\ n \in names[w] /\ n \notin removed /\ n \notin RemovedFor(w)
    BY <1>0, <1>1, <1>6 DEF TypeOK, RemovedFor
  <2>2. Cached' = Cached
    BY <1>0 DEF Cached
  <2>3. CASE resources[n] # 0
    <3>1. told'[w][n] = resources[n] /\ resources[n] = entries[n].version
      BY <1>0, <1>5, <2>1, <2>3 DEF AddedFor, ResponseCached
    <3> QED BY <1>0, <2>1, <2>2, <2>3, <3>1 DEF Settled, Cached
  <2>4. CASE resources[n] = 0
    <3>1. n \notin unannounced
      BY <1>6, <2>1, <2>4 DEF Broadcast
    <3>2. n \in Cached /\ told[w][n] = entries[n].version
      BY <1>0, <1>2, <2>1, <2>4, <3>1 DEF UpdateCoherent, Settled
    <3>3. told'[w][n] = told[w][n]
      BY <1>3, <2>1, <2>4 DEF AddedFor
    <3> QED BY <1>0, <2>2, <3>2, <3>3 DEF Settled
  <2> QED BY <2>3, <2>4
<1>7. ASSUME NEW n \in Names \ names'[w] PROVE told'[w][n] = 0
  <2>1. CASE n \in names[w]
    BY <1>1, <1>4, <1>7, <2>1 DEF RemovedFor
  <2>2. CASE n \notin names[w]
    BY <1>0, <1>2, <1>3, <1>7, <2>2 DEF RemovedFor, AddedFor, UpdateCoherent
  <2> QED BY <2>1, <2>2
<1> QED BY <1>6, <1>7

\* Every step keeps healthy streams coherent with the cache and the response.
LEMMA CoherentStep == IndInv /\ [Next]_vars => UpdateCoherent'
<1> SUFFICES ASSUME IndInv, [Next]_vars PROVE UpdateCoherent'
  OBVIOUS
<1> USE DEF serverVars, updateVars, streamVars, central
<1>0. /\ TypeOK /\ Locked /\ ResponseCached /\ UpdateCoherent
      /\ mu # NoStream => mu \in Streams /\ mu \in watches
  BY StepFacts DEF IndInv
<1>1. CASE Tick \/ UNCHANGED vars
  BY <1>0, <1>1, CoherentFrame DEF Tick, vars, Failed
<1>2. ASSUME NEW n \in Names, Unsubscribe(n) PROVE UpdateCoherent'
  <2>1. UNCHANGED <<mu, todo, removed, resources, streamVars, unannounced>>
    BY <1>2 DEF Unsubscribe
  <2>2. CASE entries' = entries
    BY <1>0, <2>1, <2>2, CoherentFrame DEF Failed
  <2>3. CASE ~Interested(n) /\ entries' = [entries EXCEPT ![n] = Absent]
    <3>1. \A w \in watches : n \notin names[w]
      BY <2>3 DEF Interested
    <3>2. \A m \in Names : m # n => entries'[m] = entries[m] /\ (m \in Cached' <=> m \in Cached)
      BY <1>0, <2>3 DEF Cached, TypeOK
    <3>3. \A w \in watches : Failed(w)' = Failed(w) /\ names[w] \subseteq Names
      BY <1>0, <2>1 DEF Failed, TypeOK
    <3> QED BY <1>0, <2>1, <3>1, <3>2, <3>3 DEF UpdateCoherent, Settled
  <2> QED BY <1>2, <2>2, <2>3 DEF Unsubscribe
<1>3. ASSUME NEW n \in Names, ServeInvalid(n) PROVE UpdateCoherent'
  BY <1>0, <1>3 DEF ServeInvalid, UpdateCoherent, Settled, Cached, Failed
<1>4. ASSUME NEW n \in Names, ServeCached(n) PROVE UpdateCoherent'
  <2>1. /\ UNCHANGED <<mu, entries, removed, streamVars, unannounced>>
        /\ todo' = todo \ {n}
        /\ resources'[n] # 0 /\ \A m \in Names : m # n => resources'[m] = resources[m]
    BY <1>0, <1>4 DEF ServeCached, Fresh, TypeOK
  <2>2. \A w \in watches : Failed(w)' = Failed(w) /\ names[w] \subseteq Names
    BY <1>0, <2>1 DEF Failed, TypeOK
  <2> QED BY <1>0, <2>1, <2>2 DEF UpdateCoherent, Settled, Cached
<1>5. ASSUME NEW n \in Names, ServeIssued(n) PROVE UpdateCoherent'
  <2>1. PICK evicted \in SUBSET Names :
          /\ entries' = [m \in Names |->
                IF m = n THEN [version |-> version + 1,
                               expires |-> req[mu].now + SecretTTL,
                               notAfter |-> LeafNotAfter(req[mu].now)]
                ELSE IF m \in evicted THEN Absent ELSE entries[m]]
          /\ resources' = [m \in Names |->
                IF m = n THEN version + 1
                ELSE IF m \in evicted THEN 0 ELSE resources[m]]
          /\ removed' = removed \union evicted
    BY <1>5, IssuedFacts
  <2>2. UNCHANGED <<mu, streamVars, unannounced>> /\ todo' = todo \ {n}
    BY <1>5 DEF ServeIssued
  <2>3. resources'[n] # 0
    BY <1>0, <2>1 DEF TypeOK
  <2>4. \A m \in Names : m # n /\ m \notin evicted =>
           /\ resources'[m] = resources[m] /\ entries'[m] = entries[m]
           /\ m \in Cached' <=> m \in Cached
    BY <2>1 DEF Cached
  <2>5. \A w \in watches : Failed(w)' = Failed(w) /\ names[w] \subseteq Names
    BY <1>0, <2>2 DEF Failed, TypeOK
  <2>6. ASSUME NEW w \in watches, NEW m \in Names, Settled(w, m) PROVE Settled(w, m)'
    BY <2>1, <2>2, <2>3, <2>4, <2>6 DEF Settled
  <2> QED BY <1>0, <2>2, <2>5, <2>6 DEF UpdateCoherent
<1>6. ASSUME NEW n \in Names, IssueFails(n) PROVE UpdateCoherent'
  <2>0. PICK v \in Streams : v = mu
    BY <1>0, <1>6 DEF IssueFails, NextName
  <2>1. /\ UNCHANGED <<watches, names, told, handler>>
        /\ errors' = [errors EXCEPT ![v] = TRUE]
        /\ entries' = [entries EXCEPT ![n] = Absent]
        /\ unannounced' = unannounced \union removed \union {n}
                            \union {m \in Names : resources[m] # 0}
    BY <1>0, <1>6, <2>0 DEF IssueFails, ReceiverFails
  <2>2. Failed(v)'
    BY <1>0, <2>1 DEF Failed, TypeOK
  <2>3. \A w \in watches : w # v => Failed(w)' = Failed(w)
    BY <1>0, <2>1 DEF Failed, TypeOK
  <2>4. \A m \in Names : m # n => entries'[m] = entries[m] /\ (m \in Cached' <=> m \in Cached)
    BY <1>0, <2>1 DEF Cached, TypeOK
  <2>5. ASSUME NEW w \in watches, w # v, NEW m \in Names, Settled(w, m), m \notin unannounced'
        PROVE  Settled(w, m)'
    BY <2>0, <2>1, <2>4, <2>5 DEF Settled
  <2>6. \A w \in watches : names[w] \subseteq Names
    BY <1>0 DEF TypeOK
  <2> QED BY <1>0, <2>1, <2>2, <2>3, <2>5, <2>6 DEF UpdateCoherent
<1> QED BY <1>1, <1>2, <1>3, <1>4, <1>5, <1>6, CoherentBroadcast, CoherentStreamStep
        DEF Next, Update

-----------------------------------------------------------------------------
(* The theorems. *)

\* The inductive invariant holds in a new SecretServer.
LEMMA InitInv == Init => IndInv
<1> SUFFICES ASSUME Init PROVE IndInv
  OBVIOUS
<1>1. TypeOK
  BY InitType
<1>2. Cached = {}
  BY DEF Init, Cached, Absent
<1>3. CacheBounded
  <2>1. lru = <<>> /\ Len(lru) = 0 /\ DOMAIN lru = {}
    BY DEF Init
  <2> QED BY <1>2, <2>1, SizesAssumption DEF CacheBounded, Range, IsInjective
<1>4. WatchesBounded /\ IsFiniteSet(watches)
  <2>1. watches = {} /\ IsFiniteSet({}) /\ Cardinality({}) = 0
    BY FS_EmptySet DEF Init
  <2> QED BY <2>1, SizesAssumption DEF Init, WatchesBounded
<1>5. Locked /\ GoneCleared /\ ResponseCached /\ UpdateCoherent
  BY DEF Init, Locked, GoneCleared, ResponseCached, UpdateCoherent, NothingAdded
<1>6. LeavesOutliveEntries
  BY <1>2 DEF LeavesOutliveEntries
<1> QED BY <1>1, <1>3, <1>4, <1>5, <1>6 DEF IndInv

\* Every step preserves the inductive invariant.
LEMMA StepInv == IndInv /\ [Next]_vars => IndInv'
BY TypeStep, CacheStep, WatchStep, LockedStep, ResponseStep, LeavesStep, CoherentStep
   DEF IndInv

\* Every reachable state of the certificate service satisfies the inductive
\* invariant, for any number of streams and names and any capacity.
THEOREM Invariance == Spec => []IndInv
BY InitInv, StepInv, PTL DEF Spec

\* The state of SecretServer and of the stream goroutines stays well typed.
THEOREM TypeCorrect == Spec => []TypeOK
<1>1. IndInv => TypeOK
  BY DEF IndInv
<1> QED BY <1>1, Invariance, PTL

\* entries and lru always agree and the capacity is never exceeded (sds.go,
\* updateLocked and remove).
THEOREM CacheSafe == Spec => []CacheBounded
<1>1. IndInv => CacheBounded
  BY DEF IndInv
<1> QED BY <1>1, Invariance, PTL

\* There are never more watches than DeltaSecrets admits.
THEOREM WatchLimit == Spec => []WatchesBounded
<1>1. IndInv => WatchesBounded
  BY DEF IndInv
<1> QED BY <1>1, Invariance, PTL

\* Every healthy stream has been sent what the cache holds for its names.
THEOREM Coherence == Spec => []SubscribersCoherent
<1>1. IndInv => SubscribersCoherent
  <2> SUFFICES ASSUME IndInv, mu = NoStream, NEW w \in watches, ~Failed(w)
               PROVE  /\ \A n \in names[w] \ unannounced :
                           n \in Cached /\ told[w][n] = entries[n].version
                      /\ \A n \in Names \ names[w] : told[w][n] = 0
    BY DEF SubscribersCoherent
  <2>1. /\ todo = {} /\ removed = {} /\ resources = NothingAdded
        /\ w \in Streams /\ names[w] \subseteq Names /\ UpdateCoherent
    BY DEF IndInv, Locked, TypeOK
  <2> QED BY <2>1 DEF UpdateCoherent, Settled, NothingAdded
<1> QED BY <1>1, Invariance, PTL

\* A served certificate stays valid for as long as its client may keep it.
THEOREM LeafUsable == Spec => []ServedLeafOutlivesTTL
<1>1. IndInv => ServedLeafOutlivesTTL
  <2> SUFFICES ASSUME IndInv, mu # NoStream, NEW n \in Names, resources[n] # 0
               PROVE  \/ entries[n].notAfter >= req[mu].now + SecretTTL
                      \/ entries[n].notAfter = CANotAfter
    BY DEF ServedLeafOutlivesTTL
  <2>1. /\ resources[n] = entries[n].version /\ req[mu].now < entries[n].expires
        /\ entries[n] \in Entry /\ LeavesOutliveEntries
    BY DEF IndInv, ResponseCached, TypeOK
  <2>2. req[mu].now \in Nat /\ entries[n].expires \in Nat /\ entries[n].notAfter \in Nat
    BY <2>1, StepFacts DEF Entry
  <2>3. n \in Cached
    BY <2>1 DEF Cached
  <2> QED BY <2>1, <2>2, <2>3, TimesAssumption DEF LeavesOutliveEntries
<1> QED BY <1>1, Invariance, PTL

\* A certificate leaves the cache only when expired, evicted or unwanted.
THEOREM Stability == Spec => CertificatesStable
<1> DEFINE Stable == \A n \in Cached : entries'[n] # entries[n] =>
                        \/ req[mu].now >= entries[n].expires
                        \/ Len(lru) = Capacity /\ lru[Capacity] = n
                        \/ \A w \in watches : n \notin names[w]
<1>1. ASSUME IndInv, [Next]_vars PROVE Stable
  <2> SUFFICES ASSUME NEW n \in Names, entries[n].version # 0, entries'[n] # entries[n]
               PROVE  \/ req[mu].now >= entries[n].expires
                      \/ Len(lru) = Capacity /\ lru[Capacity] = n
                      \/ \A w \in watches : n \notin names[w]
    BY DEF Cached
  <2>0. /\ entries \in [Names -> Entry] /\ entries[n].expires \in Nat
        /\ mu # NoStream => req[mu].now \in Nat
    BY <1>1, StepFacts DEF TypeOK, Entry
  <2>1. ASSUME NEW m \in Names, Unsubscribe(m) PROVE \A w \in watches : n \notin names[w]
    BY <2>0, <2>1 DEF Unsubscribe, Interested
  <2>2. ASSUME NEW m \in Names, ServeCached(m) PROVE FALSE
    BY <2>2 DEF ServeCached
  <2>3. ASSUME NEW m \in Names, IssueFails(m) PROVE req[mu].now >= entries[n].expires
    BY <2>0, <2>3 DEF IssueFails, NextName, Fresh
  <2>4. ASSUME NEW m \in Names, ServeIssued(m)
        PROVE  \/ req[mu].now >= entries[n].expires
               \/ Len(lru) = Capacity /\ lru[Capacity] = n
    <3>1. PICK evicted \in SUBSET Names :
            /\ evicted # {} => Len(lru) = Capacity /\ evicted = {lru[Capacity]}
            /\ entries' = [k \in Names |->
                  IF k = m THEN [version |-> version + 1,
                                 expires |-> req[mu].now + SecretTTL,
                                 notAfter |-> LeafNotAfter(req[mu].now)]
                  ELSE IF k \in evicted THEN Absent ELSE entries[k]]
      BY <1>1, <2>4, IssuedFacts
    <3>2. CASE n = m
      BY <2>0, <2>4, <3>2 DEF ServeIssued, NextName, Fresh
    <3>3. CASE n # m
      BY <3>1, <3>3
    <3> QED BY <3>2, <3>3
  <2> QED BY <1>1, <2>1, <2>2, <2>3, <2>4, CacheFrame
<1>2. IndInv /\ [Next]_vars => [Stable]_vars
  BY <1>1
<1> QED BY <1>2, Invariance, PTL DEF Spec, CertificatesStable

-----------------------------------------------------------------------------
(* Versions. *)

\* The versions of a name, in the cache and in what the streams hold, as naturals.
LEMMA VersionTypes ==
    ASSUME IndInv
    PROVE  /\ version \in Nat
           /\ \A n \in Names : entries[n] \in Entry /\ entries[n].version \in Nat
           /\ \A w \in Streams, n \in Names : told[w][n] \in Nat
BY DEF IndInv, TypeOK, Entry

\* Only these steps change what a stream holds.
LEMMA ToldFrame ==
    ASSUME [Next]_vars
    PROVE  \/ told' = told
           \/ Broadcast
           \/ \E w \in Streams : Process(w) \/ Unregister(w)
BY DEF Next, Update, Stream, Lock, Tick, Unsubscribe, ServeInvalid, ServeCached, ServeIssued,
       IssueFails, Open, Recv, RecvFail, SendBegin, SendEnd, ReturnError, Abandon,
       ProcessClosed, ProcessOverLimit, vars, central, streamVars

\* A step tells a stream what the cache holds, or nothing new.
LEMMA ToldFrom ==
    ASSUME IndInv, [Next]_vars, NEW w \in Streams, NEW n \in Names
    PROVE  \/ told'[w][n] \in {0, told[w][n]}
           \/ /\ n \in Cached /\ told'[w][n] = entries[n].version
              /\ entries' = entries /\ version' = version
<1>1. CASE told' = told
  BY <1>1
<1>2. CASE Broadcast
  <2>1. told'[w][n] \in {0, told[w][n], resources[n]}
    BY <1>2 DEF Broadcast
  <2>2. resources[n] # 0 => n \in Cached /\ resources[n] = entries[n].version
    BY DEF IndInv, ResponseCached, Cached
  <2>3. entries' = entries /\ version' = version
    BY <1>2 DEF Broadcast, serverVars
  <2> QED BY <2>1, <2>2, <2>3
<1>3. ASSUME NEW x \in Streams, Process(x) \/ Unregister(x)
      PROVE  told'[w][n] \in {0, told[w][n]}
  <2>1. told \in [Streams -> [Names -> Nat]]
    BY DEF IndInv, TypeOK
  <2> QED BY <1>3, <2>1 DEF Process, Unregister, NothingAdded
<1> QED BY <1>1, <1>2, <1>3, ToldFrame

\* A step issues a certificate with the next version, or removes one, or leaves the
\* one in the cache alone.
LEMMA EntryFrom ==
    ASSUME IndInv, [Next]_vars, NEW n \in Names
    PROVE  \/ entries'[n] = entries[n]
           \/ n \notin Cached' /\ entries'[n].version = 0
           \/ entries'[n].version = version + 1 /\ version' = version + 1 /\ told' = told
<1>0. entries \in [Names -> Entry]
  BY DEF IndInv, TypeOK
<1>1. ASSUME NEW m \in Names, Unsubscribe(m) \/ IssueFails(m)
      PROVE  entries'[n] = entries[n] \/ (n \notin Cached' /\ entries'[n].version = 0)
  <2>1. entries'[n] = entries[n] \/ entries'[n] = Absent
    BY <1>0, <1>1 DEF Unsubscribe, IssueFails
  <2> QED BY <2>1 DEF Absent, Cached
<1>2. ASSUME NEW m \in Names, ServeCached(m) PROVE entries'[n] = entries[n]
  BY <1>2 DEF ServeCached
<1>3. ASSUME NEW m \in Names, ServeIssued(m)
      PROVE  \/ entries'[n] = entries[n]
             \/ n \notin Cached' /\ entries'[n].version = 0
             \/ entries'[n].version = version + 1 /\ version' = version + 1 /\ told' = told
  <2>1. PICK evicted \in SUBSET Names :
           entries' = [k \in Names |->
              IF k = m THEN [version |-> version + 1,
                             expires |-> req[mu].now + SecretTTL,
                             notAfter |-> LeafNotAfter(req[mu].now)]
              ELSE IF k \in evicted THEN Absent ELSE entries[k]]
    BY <1>3, IssuedFacts
  <2>2. \/ entries'[n] = entries[n] \/ entries'[n] = Absent
        \/ entries'[n].version = version + 1
    BY <2>1
  <2>3. version' = version + 1 /\ told' = told
    BY <1>3 DEF ServeIssued, Counted, streamVars
  <2> QED BY <2>2, <2>3 DEF Absent, Cached
<1> QED BY <1>1, <1>2, <1>3, CacheFrame

\* The counter does not go back.
LEMMA CounterStep == ASSUME IndInv, [Next]_vars PROVE version' \in {version, version + 1}
BY DEF Next, Update, Stream, Lock, Tick, Unsubscribe, ServeInvalid, ServeCached, ServeIssued,
       Counted, IssueFails, Broadcast, Open, Recv, RecvFail, SendBegin, SendEnd, ReturnError,
       Abandon, Unregister, ProcessClosed, ProcessOverLimit, Process, vars, central, serverVars

\* Every step keeps the versions in order.
LEMMA VersionStep == IndInv /\ VersionInv /\ [Next]_vars => VersionInv'
<1> SUFFICES ASSUME IndInv, VersionInv, [Next]_vars PROVE VersionInv'
  OBVIOUS
<1>0. version \in Nat /\ version' \in Nat /\ version <= version'
  BY VersionTypes, CounterStep
<1>1. ASSUME NEW n \in Names PROVE entries'[n].version <= version'
  <2>1. entries[n].version \in Nat /\ entries[n].version <= version
    BY VersionTypes DEF VersionInv
  <2> QED BY <1>0, <2>1, EntryFrom
<1>2. ASSUME NEW w \in Streams, NEW n \in Names
      PROVE  told'[w][n] <= version' /\ (n \in Cached' => told'[w][n] <= entries'[n].version)
  <2>1. /\ told[w][n] \in Nat /\ told[w][n] <= version
        /\ entries[n].version \in Nat /\ entries[n].version <= version
        /\ n \in Cached => told[w][n] <= entries[n].version
    BY VersionTypes DEF VersionInv
  <2>2. told'[w][n] <= version'
    BY <1>0, <2>1, ToldFrom
  <2>3. CASE entries'[n] = entries[n]
    <3>1. n \in Cached' <=> n \in Cached
      BY <2>3 DEF Cached
    <3> QED BY <2>1, <2>2, <2>3, <3>1, ToldFrom
  <2>4. CASE n \notin Cached'
    BY <2>2, <2>4
  <2>5. CASE entries'[n].version = version + 1 /\ told' = told
    BY <1>0, <2>1, <2>2, <2>5
  <2> QED BY <2>3, <2>4, <2>5, EntryFrom
<1> QED BY <1>1, <1>2 DEF VersionInv

\* A certificate that replaces another one is newer than what any stream holds, and so
\* is what a stream is told next: Envoy never goes back to an older certificate.
THEOREM VersionsAdvanceTheorem == Spec => VersionsAdvance
<1> DEFINE Advance == \A w \in Streams, n \in Names :
              /\ entries'[n] # entries[n] /\ n \in Cached' => entries'[n].version > told[w][n]
              /\ told'[w][n] # 0 => told'[w][n] >= told[w][n]
<1>1. ASSUME Init PROVE VersionInv
  <2>1. /\ \A n \in Names : entries[n].version = 0
        /\ \A w \in Streams, n \in Names : told[w][n] = 0
        /\ version = 0
    BY <1>1 DEF Init, Absent, NothingAdded
  <2> QED BY <2>1 DEF VersionInv
<1>2. ASSUME IndInv, VersionInv, [Next]_vars PROVE Advance
  <2> SUFFICES ASSUME NEW w \in Streams, NEW n \in Names
               PROVE  /\ entries'[n] # entries[n] /\ n \in Cached' =>
                            entries'[n].version > told[w][n]
                      /\ told'[w][n] # 0 => told'[w][n] >= told[w][n]
    OBVIOUS
  <2>1. /\ version \in Nat /\ told[w][n] \in Nat /\ told[w][n] <= version
        /\ entries[n].version \in Nat
        /\ n \in Cached => told[w][n] <= entries[n].version
    BY <1>2, VersionTypes DEF VersionInv
  <2>2. entries'[n] # entries[n] /\ n \in Cached' => entries'[n].version = version + 1
    BY <1>2, EntryFrom
  <2>3. told'[w][n] # 0 => told'[w][n] >= told[w][n]
    BY <1>2, <2>1, ToldFrom
  <2> QED BY <2>1, <2>2, <2>3
<1>3. IndInv /\ VersionInv /\ [Next]_vars => [Advance]_vars
  BY <1>2
<1> QED BY <1>1, <1>3, VersionStep, Invariance, PTL DEF Spec, VersionsAdvance
=============================================================================
