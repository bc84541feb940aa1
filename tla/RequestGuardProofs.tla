------------------------- MODULE RequestGuardProofs -------------------------
(***************************************************************************)
(* Proofs about RequestGuard: for names of any length, any set of requests *)
(* and any authorization response, a request is routed to the target OPA   *)
(* has allowed.  The first lemmas are about the two canonical forms of a   *)
(* name, the rest about the filters.                                       *)
(***************************************************************************)
EXTENDS RequestGuard, SequenceTheorems, TLAPS

-----------------------------------------------------------------------------
(* Names. *)

\* Both ways of lowering map characters to characters.
LEMMA LowerType == LuaLower \in [Chars -> Chars] /\ GoLower \in [Chars -> Chars]
BY DEF LuaLower, GoLower, Chars, NameChars, Digits, Kelvin

\* Lowering keeps the labels and their lengths.
LEMMA LoweredType ==
    ASSUME NEW n \in Names, NEW f \in [Chars -> Chars]
    PROVE  /\ Lowered(f, n) \in Names
           /\ DOMAIN Lowered(f, n) = DOMAIN n /\ Len(Lowered(f, n)) = Len(n)
           /\ \A i \in DOMAIN n : /\ DOMAIN Lowered(f, n)[i] = DOMAIN n[i]
                                  /\ Len(Lowered(f, n)[i]) = Len(n[i])
<1> DEFINE v == Lowered(f, n)
<1>1. \A i \in DOMAIN n : n[i] \in Seq(Chars)
  BY DEF Names
<1>2. ASSUME NEW i \in DOMAIN n
      PROVE  /\ v[i] \in Seq(Chars)
             /\ DOMAIN v[i] = DOMAIN n[i] /\ Len(v[i]) = Len(n[i])
  <2>1. v[i] = [j \in DOMAIN n[i] |-> f[n[i][j]]]
    BY DEF Lowered
  <2>2. n[i] \in Seq(Chars) /\ DOMAIN n[i] = 1..Len(n[i]) /\ Len(n[i]) \in Nat
    BY <1>1
  <2>3. \A j \in 1..Len(n[i]) : f[n[i][j]] \in Chars
    BY <2>2
  <2>4. v[i] = [j \in 1..Len(n[i]) |-> f[n[i][j]]]
    BY <2>1, <2>2
  <2> QED
    BY <2>2, <2>3, <2>4
<1>3. DOMAIN n = 1..Len(n) /\ Len(n) \in Nat
  BY DEF Names
<1>4. v = [i \in 1..Len(n) |-> v[i]]
  BY <1>3 DEF Lowered
<1>5. v \in Seq(Seq(Chars)) /\ Len(v) = Len(n) /\ DOMAIN v = DOMAIN n
  BY <1>2, <1>3, <1>4
<1> QED
  BY <1>2, <1>5 DEF Names

\* Lua's lowering changes no width, and lowering twice is lowering once.
LEMMA LoweredTwice ==
    ASSUME NEW n \in Names
    PROVE  /\ Lowered(LuaLower, Lowered(LuaLower, n)) = Lowered(LuaLower, n)
           /\ Bytes(Lowered(LuaLower, n)) = Bytes(n)
<1> DEFINE v == Lowered(LuaLower, n)
<1>1. /\ v \in Names /\ DOMAIN v = DOMAIN n /\ Len(v) = Len(n)
      /\ \A i \in DOMAIN n : DOMAIN v[i] = DOMAIN n[i] /\ Len(v[i]) = Len(n[i])
  BY LoweredType, LowerType
<1>2. \A i \in DOMAIN n : \A j \in DOMAIN n[i] : n[i][j] \in Chars /\ v[i][j] = LuaLower[n[i][j]]
  BY DEF Lowered, Names
<1>3. \A c \in Chars : LuaLower[LuaLower[c]] = LuaLower[c] /\ (LuaLower[c] = Kelvin <=> c = Kelvin)
  BY DEF LuaLower, Chars, NameChars, Digits, Kelvin
<1>4. Lowered(LuaLower, v) = v
  <2>1. \A i \in DOMAIN n : [j \in DOMAIN v[i] |-> LuaLower[v[i][j]]] = [j \in DOMAIN n[i] |-> LuaLower[n[i][j]]]
    BY <1>1, <1>2, <1>3
  <2> QED
    BY <1>1, <2>1 DEF Lowered
<1>5. \A i \in DOMAIN n : Width(v[i]) = Width(n[i])
  <2> TAKE i \in DOMAIN n
  <2>1. {j \in DOMAIN v[i] : v[i][j] = Kelvin} = {j \in DOMAIN n[i] : n[i][j] = Kelvin}
    BY <1>1, <1>2, <1>3
  <2> QED
    BY <1>1, <2>1 DEF Width
<1>6. [i \in DOMAIN v |-> Width(v[i])] = [i \in DOMAIN n |-> Width(n[i])]
  BY <1>1, <1>5
<1> QED
  BY <1>1, <1>4, <1>6 DEF Bytes

\* What hostname accepts has no empty label.
LEMMA HostnameLabels ==
    ASSUME NEW n \in Names, hostname(n) # NoName
    PROVE  /\ hostname(n) = Lowered(LuaLower, n) /\ hostname(n) \in Names
           /\ n \notin {NoName, EmptyText} /\ Bytes(n) <= MaxName
           /\ ~DottedQuad(hostname(n))
           /\ \A i \in DOMAIN hostname(n) : /\ hostname(n)[i] # <<>>
                                            /\ OnlyNameChars(hostname(n)[i])
                                            /\ GoodLabel(hostname(n)[i])
<1> DEFINE v == Lowered(LuaLower, n)
<1>1. /\ hostname(n) = v
      /\ n \notin {NoName, EmptyText} /\ Bytes(n) <= MaxName
      /\ \A i \in DOMAIN v : OnlyNameChars(v[i])
      /\ v[Len(v)] # <<>> /\ \A i \in 2..(Len(v) - 1) : v[i] # <<>>
      /\ ~DottedQuad(v)
      /\ \A i \in DOMAIN v : v[i] # <<>> => GoodLabel(v[i])
      /\ v[1] # <<>>
  BY DEF hostname
<1>2. v \in Names /\ DOMAIN v = 1..Len(v) /\ Len(v) \in Nat
  BY LoweredType, LowerType DEF Names
<1>3. \A i \in DOMAIN v : i = 1 \/ i = Len(v) \/ i \in 2..(Len(v) - 1)
  BY <1>2
<1> QED
  BY <1>1, <1>2, <1>3

\* hostname is the identity on what it returns: the egress guard keeps the name that
\* the workload guard has put into the request.
LEMMA HostnameTwice ==
    ASSUME NEW n \in Names
    PROVE  hostname(n) \in Names /\ hostname(hostname(n)) = hostname(n)
<1>1. CASE hostname(n) = NoName
  <2>1. hostname(NoName) = NoName
    BY DEF hostname
  <2>2. NoName \in Names
    BY DEF NoName, Names
  <2> QED
    BY <1>1, <2>1, <2>2
<1>2. CASE hostname(n) # NoName
  <2> DEFINE v == hostname(n)
  <2>1. /\ v = Lowered(LuaLower, n) /\ v \in Names
        /\ n \notin {NoName, EmptyText} /\ Bytes(n) <= MaxName /\ ~DottedQuad(v)
        /\ \A i \in DOMAIN v : v[i] # <<>> /\ OnlyNameChars(v[i]) /\ GoodLabel(v[i])
    BY <1>2, HostnameLabels
  <2>2. Lowered(LuaLower, v) = v /\ Bytes(v) <= MaxName
    BY <2>1, LoweredTwice
  <2>3. DOMAIN v = 1..Len(v) /\ Len(v) \in Nat /\ Len(v) # 0
    BY <1>2, <2>1 DEF Names, NoName
  <2>4. v # EmptyText
    BY <2>1, <2>3 DEF EmptyText
  <2>5. v[Len(v)] # <<>> /\ v[1] # <<>> /\ \A i \in 2..(Len(v) - 1) : v[i] # <<>>
    BY <2>1, <2>3
  <2> HIDE DEF v
  <2>6. hostname(v) = v
    BY <1>2, <2>1, <2>2, <2>4, <2>5 DEF hostname, v
  <2> QED
    BY <2>1, <2>6 DEF v
<1> QED
  BY <1>1, <1>2

\* Without the characters that only Go folds, the two lowerings agree.
LEMMA SameLowering ==
    ASSUME NEW n \in Names, \A i \in DOMAIN n : \A j \in DOMAIN n[i] : n[i][j] # Kelvin
    PROVE  Lowered(GoLower, n) = Lowered(LuaLower, n)
<1>1. \A i \in DOMAIN n : \A j \in DOMAIN n[i] : GoLower[n[i][j]] = LuaLower[n[i][j]]
  BY DEF GoLower, Names
<1>2. \A i \in DOMAIN n : [j \in DOMAIN n[i] |-> GoLower[n[i][j]]] = [j \in DOMAIN n[i] |-> LuaLower[n[i][j]]]
  BY <1>1
<1> QED
  BY <1>2 DEF Lowered

\* A certificate can be issued for every name that the guard accepts, under the
\* same canonical form.
LEMMA AcceptedIsIssued ==
    ASSUME NEW n \in Names, hostname(n) # NoName
    PROVE  canonicalName(n) = hostname(n)
<1> DEFINE v == hostname(n)
<1>1. /\ v = Lowered(LuaLower, n) /\ v \in Names
      /\ n \notin {NoName, EmptyText} /\ Bytes(n) <= MaxName /\ ~DottedQuad(v)
      /\ \A i \in DOMAIN v : v[i] # <<>> /\ OnlyNameChars(v[i]) /\ GoodLabel(v[i])
  BY HostnameLabels
<1>2. /\ DOMAIN v = DOMAIN n /\ Len(v) = Len(n)
      /\ \A i \in DOMAIN n : DOMAIN v[i] = DOMAIN n[i] /\ Len(v[i]) = Len(n[i])
  BY <1>1, LoweredType, LowerType
<1>3. \A i \in DOMAIN n : \A j \in DOMAIN n[i] : n[i][j] # Kelvin
  <2> SUFFICES ASSUME NEW i \in DOMAIN n, NEW j \in DOMAIN n[i], n[i][j] = Kelvin
               PROVE  FALSE
    OBVIOUS
  <2>1. v[i][j] = LuaLower[Kelvin]
    BY <1>1 DEF Lowered
  <2>2. v[i][j] \in NameChars
    BY <1>1, <1>2 DEF OnlyNameChars
  <2> QED
    BY <2>1, <2>2 DEF LuaLower, Chars, NameChars, Digits, Kelvin
<1>4. Lowered(GoLower, n) = v
  BY <1>1, <1>3, SameLowering
<1>5. ~ParseAddr(v)
  BY <1>1 DEF ParseAddr, Octet, DottedQuad
<1>6. n[Len(n)] # <<>>
  <2>1. n \in Seq(Seq(Chars)) /\ DOMAIN n = 1..Len(n) /\ Len(n) \in Nat /\ Len(n) # 0
    BY <1>1 DEF Names, NoName
  <2>2. Len(n) \in DOMAIN n
    BY <2>1
  <2>3. v[Len(n)] # <<>> /\ v[Len(n)] \in Seq(Chars) /\ Len(v[Len(n)]) = Len(n[Len(n)])
    BY <1>1, <1>2, <2>2 DEF Names
  <2> QED
    BY <2>3
<1> HIDE DEF v
<1> QED
  BY <1>1, <1>4, <1>5, <1>6 DEF canonicalName, v

\* The names with a certificate that the guard refuses.
LEMMA IssuedButRefused ==
    ASSUME NEW n \in Names, canonicalName(n) # NoName, hostname(n) = NoName,
           \A i \in DOMAIN n : \A j \in DOMAIN n[i] : n[i][j] # Kelvin
    PROVE  DottedQuad(n)
<1> DEFINE v == Lowered(GoLower, n)
<1>1. /\ n \notin {NoName, EmptyText} /\ Bytes(n) <= MaxName
      /\ \A i \in DOMAIN v : v[i] # <<>> /\ GoodLabel(v[i]) /\ OnlyNameChars(v[i])
  BY DEF canonicalName
<1>2. v = Lowered(LuaLower, n)
  BY SameLowering
<1>3. /\ v \in Names /\ DOMAIN v = DOMAIN n /\ Len(v) = Len(n)
      /\ \A i \in DOMAIN n : DOMAIN v[i] = DOMAIN n[i] /\ Len(v[i]) = Len(n[i])
  BY LoweredType, LowerType
<1>4. DOMAIN v = 1..Len(v) /\ Len(v) \in Nat /\ Len(v) # 0
  BY <1>1, <1>3 DEF Names, NoName
<1>5. v[Len(v)] # <<>> /\ v[1] # <<>> /\ \A i \in 2..(Len(v) - 1) : v[i] # <<>>
  BY <1>1, <1>4
<1>6. v # NoName
  BY <1>4 DEF NoName
<1>7. DottedQuad(v)
  <2> HIDE DEF v
  <2> QED
    BY <1>1, <1>2, <1>5, <1>6 DEF hostname
<1>8. \A i \in DOMAIN n : \A j \in DOMAIN n[i] : v[i][j] \in Digits => n[i][j] \in Digits
  <2>1. \A c \in Chars : LuaLower[c] \in Digits => c \in Digits
    BY DEF LuaLower, Chars, NameChars, Digits, Kelvin
  <2>2. \A i \in DOMAIN n : \A j \in DOMAIN n[i] : n[i][j] \in Chars /\ v[i][j] = LuaLower[n[i][j]]
    BY <1>2 DEF Lowered, Names
  <2> QED
    BY <2>1, <2>2
<1>9. \A i \in DOMAIN n : n[i] # <<>>
  <2> TAKE i \in DOMAIN n
  <2>1. v[i] # <<>> /\ v[i] \in Seq(Chars) /\ Len(v[i]) = Len(n[i])
    BY <1>1, <1>3 DEF Names
  <2> QED
    BY <2>1
<1> QED
  BY <1>3, <1>7, <1>8, <1>9 DEF DottedQuad, Number

\* A canonical target is its own canonical target, for either scheme.
LEMMA TargetTwice ==
    ASSUME NEW a \in Authority, NEW s \in Schemes, NEW t \in Schemes
    PROVE  /\ target(a, s) \in Authority
           /\ target(target(a, s), t) = target(a, s)
           /\ target(a, s) # NoAuthority => target(a, s).name = hostname(a.name)
<1>1. hostname(a.name) \in Names /\ hostname(hostname(a.name)) = hostname(a.name)
  BY HostnameTwice DEF Authority
<1>2. CASE ~(hostname(a.name) # NoName /\ ValidPort(a.port))
  <2>1. target(a, s) = NoAuthority
    BY <1>2 DEF target
  <2>2. hostname(NoName) = NoName
    BY DEF hostname
  <2>3. target(NoAuthority, t) = NoAuthority
    BY <2>2 DEF target, NoAuthority
  <2>4. NoAuthority \in Authority
    BY DEF NoAuthority, Authority, NoName, Names
  <2> QED
    BY <2>1, <2>3, <2>4
<1>3. CASE hostname(a.name) # NoName /\ ValidPort(a.port)
  <2>1. PICK q \in 1..MaxPort : target(a, s) = [name |-> hostname(a.name), port |-> <<q>>]
    <3>0. a.port \in Seq(Nat)
      BY DEF Authority
    <3>1. DefaultPort(s) \in 1..MaxPort
      <4>1. MaxPort \in Nat /\ 443 <= MaxPort
        BY DEF MaxPort
      <4> QED
        BY <4>1 DEF DefaultPort
    <3>2. CASE a.port = <<>>
      BY <1>3, <3>1, <3>2, <3>0 DEF target
    <3>3. CASE a.port # <<>>
      <4>1. a.port[Len(a.port)] \in 1..MaxPort
        BY <1>3, <3>3, <3>0 DEF ValidPort
      <4> QED
        BY <1>3, <3>3, <3>0, <4>1 DEF target
    <3> QED
      BY <3>2, <3>3
  <2>2. <<q>> \in Seq(Nat) /\ <<q>> # <<>> /\ Len(<<q>>) = 1 /\ <<q>>[1] = q
    BY <2>1
  <2>3. ValidPort(<<q>>)
    BY <2>2 DEF ValidPort
  <2>4. target([name |-> hostname(a.name), port |-> <<q>>], t) = [name |-> hostname(a.name), port |-> <<q>>]
    BY <1>1, <1>3, <2>2, <2>3 DEF target
  <2> QED
    BY <1>1, <2>1, <2>2, <2>4 DEF Authority
<1> QED
  BY <1>2, <1>3

-----------------------------------------------------------------------------
(* The filters. *)

\* The first guard lets only acceptable requests through.
LEMMA StatusOK ==
    ASSUME TypeOK, Status = 200
    PROVE  /\ target(headers.authority, scheme) # NoAuthority
           /\ ~ServerNameConflict
BY DEF Status

\* The absent target is no canonical one.
LEMMA NoTargetType == NoTarget \in Target /\ ~Canonical(NoTarget)
<1>1. NoTarget \in Target
  BY DEF NoTarget, Target, NoAuthority, Authority, NoName, Names, Schemes, Paths
<1> QED
  BY <1>1 DEF Canonical, NoTarget

\* A request that arrives has no metadata.
LEMMA GuardInit == Init => GuardInv
<1> SUFFICES ASSUME Init PROVE GuardInv
  OBVIOUS
<1>1. TypeOK
  BY NoTargetType, InputsAssumption DEF Init, TypeOK
<1> QED
  BY <1>1 DEF Init, GuardInv

\* Every filter preserves the invariant.
LEMMA GuardStep == GuardInv /\ [Next]_vars => GuardInv'
<1> SUFFICES ASSUME GuardInv, [Next]_vars PROVE GuardInv'
  OBVIOUS
<1>t. TypeOK
  BY DEF GuardInv
<1>h. TargetOf(headers) \in Target /\ headers.authority \in Authority
  BY <1>t DEF TypeOK, Headers, Target, TargetOf
<1>1. CASE Refuse
  BY <1>1 DEF Refuse, GuardInv, TypeOK
<1>2. CASE Canonicalize
  <2> DEFINE a == target(headers.authority, scheme)
  <2>1. /\ stage = "request" /\ metadata = NoTarget /\ stage' = "authz"
        /\ UNCHANGED <<hop, scheme, conn, seen, origin>>
    BY <1>2, NoTargetType DEF Canonicalize, Pass, GuardInv
  <2>2. /\ a \in Authority /\ a # NoAuthority
        /\ target(a, scheme) = a /\ a.name = hostname(headers.authority.name)
        /\ ~ServerNameConflict
    BY <1>2, <1>t, <1>h, StatusOK, TargetTwice DEF Canonicalize, TypeOK
  <2> HIDE DEF a
  <2>3. /\ headers' = [headers EXCEPT !.authority = a, !.scheme = scheme]
        /\ metadata' = TargetOf(headers')
    BY <1>2 DEF Canonicalize, a
  <2>4. /\ headers' \in Headers
        /\ metadata' = [authority |-> a, scheme |-> scheme, path |-> headers.path]
    BY <1>t, <2>2, <2>3 DEF TypeOK, Headers, TargetOf
  <2>5. metadata' \in Target /\ Canonical(metadata') /\ metadata'.scheme = scheme
    BY <1>t, <2>2, <2>4 DEF TypeOK, Headers, Target, Canonical
  <2>6. hop = "workload" /\ scheme = "https" => metadata'.authority.name = hostname(conn.sni)
    BY <2>2, <2>4 DEF ServerNameConflict
  <2>7. TypeOK'
    BY <1>t, <2>1, <2>4, <2>5 DEF TypeOK
  <2>8. hop = "egress" /\ origin # NoTarget => metadata' = origin
    <3> SUFFICES ASSUME hop = "egress", origin # NoTarget PROVE metadata' = origin
      OBVIOUS
    <3>1. Canonical(origin) /\ origin.scheme = scheme /\ TargetOf(headers) = origin
      BY <2>1 DEF GuardInv
    <3>2. a = origin.authority /\ origin.path = headers.path
      BY <3>1 DEF Canonical, TargetOf, a
    <3>3. origin \in Target
      BY <1>t DEF TypeOK
    <3> QED
      BY <2>4, <3>1, <3>2, <3>3 DEF Target
  <2>9. /\ (Canonical(metadata))' /\ metadata'.scheme = scheme'
        /\ hop = "workload" => origin = NoTarget
        /\ origin # NoTarget /\ hop = "egress" => Canonical(origin) /\ origin.scheme = scheme
    BY <2>1, <2>5 DEF GuardInv, Canonical
  <2> QED
    BY <2>1, <2>3, <2>6, <2>7, <2>8, <2>9 DEF GuardInv, Canonical
<1>3. CASE Compare
  <2>1. /\ stage = "dispatch"
        /\ UNCHANGED <<hop, scheme, conn, headers, metadata, seen, origin>>
        /\ stage' = "refused" \/ (SameTarget /\ stage' = "routed")
    BY <1>3 DEF Compare, Pass, GuardInv
  <2>2. SameTarget => TargetOf(headers) = metadata
    BY <1>t DEF SameTarget, TargetOf, TypeOK, Target
  <2>3. TypeOK'
    BY <1>t, <2>1 DEF TypeOK
  <2>4. CASE stage' = "refused"
    BY <2>1, <2>3, <2>4 DEF GuardInv, Canonical
  <2>5. CASE SameTarget /\ stage' = "routed"
    <3>1. (TargetOf(headers))' = metadata'
      BY <2>1, <2>2, <2>5 DEF TargetOf
    <3>2. (Canonical(metadata))' /\ metadata'.scheme = scheme'
      BY <2>1 DEF GuardInv, Canonical
    <3> QED
      BY <2>1, <2>3, <2>5, <3>1, <3>2 DEF GuardInv, Canonical
  <2> QED
    BY <2>1, <2>4, <2>5
<1>4. CASE Allow
  <2>1. /\ stage = "authz" /\ stage' = "dispatch"
        /\ UNCHANGED <<hop, scheme, conn, metadata>>
        /\ seen' = metadata
        /\ origin' = IF hop = "workload" THEN metadata ELSE origin
    BY <1>4 DEF Allow, GuardInv
  <2>2. headers' \in Headers
    <3>1. PICK t \in Mutations \union {TargetOf(headers)} :
             headers' = [headers EXCEPT !.authority = t.authority, !.scheme = t.scheme,
                                        !.path = t.path]
      BY <1>4 DEF Allow
    <3>2. t \in Target
      BY <1>h, InputsAssumption
    <3> QED
      BY <1>t, <3>1, <3>2 DEF TypeOK, Headers, Target
  <2>3. TypeOK'
    BY <1>t, <2>1, <2>2 DEF TypeOK
  <2>4. (Canonical(metadata))' /\ metadata'.scheme = scheme'
    BY <2>1 DEF GuardInv, Canonical
  <2> QED
    BY <2>1, <2>3, <2>4 DEF GuardInv, Canonical
<1>5. CASE Deny
  BY <1>5 DEF Deny, GuardInv, TypeOK
<1>6. CASE Forward
  <2>1. /\ stage = "routed" /\ hop = "workload" /\ hop' = "egress" /\ stage' = "request"
        /\ metadata' = NoTarget /\ seen' = NoTarget
        /\ UNCHANGED <<scheme, headers, origin>> /\ conn' \in Connection
    BY <1>6, InputsAssumption DEF Forward
  <2>2. TypeOK'
    BY <1>t, <2>1, NoTargetType DEF TypeOK
  <2>3. Canonical(origin) /\ origin.scheme = scheme /\ TargetOf(headers) = origin
    BY <2>1 DEF GuardInv
  <2>4. (Canonical(origin) /\ origin.scheme = scheme /\ TargetOf(headers) = origin)'
    BY <2>1, <2>3 DEF Canonical, TargetOf
  <2> QED
    BY <2>1, <2>2, <2>4 DEF GuardInv
<1>7. CASE UNCHANGED vars
  BY <1>7 DEF vars, GuardInv, TypeOK, Canonical, TargetOf
<1> QED
  BY <1>1, <1>2, <1>3, <1>4, <1>5, <1>6, <1>7 DEF Next

\* The metadata of a stream hold the canonical target that OPA decides about, at both
\* hops, for any requests, connections and authorization responses.
THEOREM GuardInvariant == Spec => []GuardInv
<1> QED
  BY GuardInit, GuardStep, PTL DEF Spec

\* A request is routed to the target that OPA of the same hop has decided about.
THEOREM RoutedAsAuthorizedTheorem == Spec => []RoutedAsAuthorized
<1>1. GuardInv => RoutedAsAuthorized
  BY DEF GuardInv, RoutedAsAuthorized
<1> QED
  BY <1>1, GuardInvariant, PTL

\* A request is routed from the egress proxy to the target that the workload's OPA
\* has allowed.
THEOREM EndToEndTarget == Spec => []RoutedAsFirstAuthorized
<1>1. GuardInv => RoutedAsFirstAuthorized
  BY DEF GuardInv, RoutedAsFirstAuthorized
<1> QED
  BY <1>1, GuardInvariant, PTL

\* An inspected request is routed to the name its certificate was issued for.
THEOREM InspectedName == Spec => []RoutedToInspectedName
<1>1. GuardInv => RoutedToInspectedName
  <2> SUFFICES ASSUME GuardInv, stage = "routed", hop = "workload", scheme = "https"
               PROVE  headers.authority.name = canonicalName(conn.sni)
    BY DEF RoutedToInspectedName
  <2>1. /\ Canonical(metadata) /\ TargetOf(headers) = metadata
        /\ metadata.authority.name = hostname(conn.sni)
    BY DEF GuardInv
  <2>2. metadata.authority \in Authority /\ scheme \in Schemes /\ conn.sni \in Names
    BY DEF GuardInv, TypeOK, Target, Connection
  <2>3. metadata.authority.name # NoName
    <3>1. hostname(metadata.authority.name) # NoName
      BY <2>1 DEF Canonical, target
    <3>2. hostname(NoName) = NoName
      BY DEF hostname
    <3> QED
      BY <3>1, <3>2
  <2>4. canonicalName(conn.sni) = hostname(conn.sni)
    BY <2>1, <2>2, <2>3, AcceptedIsIssued
  <2> QED
    BY <2>1, <2>4 DEF TargetOf
<1> QED
  BY <1>1, GuardInvariant, PTL

\* The guard in Lua and the certificate service in Go accept the same names and give
\* them the same form, except for four numbers and for what is not ASCII.
THEOREM NamesAgreeTheorem == Spec => []NamesAgree
<1>1. GuardInv => NamesAgree
  <2> SUFFICES ASSUME GuardInv PROVE NamesAgree
    OBVIOUS
  <2> DEFINE n == headers.authority.name
  <2>1. n \in Names
    BY DEF GuardInv, TypeOK, Headers, Authority
  <2> HIDE DEF n
  <2>2. hostname(n) # NoName => canonicalName(n) = hostname(n)
    BY <2>1, AcceptedIsIssued
  <2>3. canonicalName(n) # NoName /\ hostname(n) = NoName =>
           DottedQuad(n) \/ \E i \in DOMAIN n : \E j \in DOMAIN n[i] : n[i][j] = Kelvin
    BY <2>1, IssuedButRefused
  <2> QED
    BY <2>2, <2>3 DEF NamesAgree, n
<1> QED
  BY <1>1, GuardInvariant, PTL
=============================================================================
