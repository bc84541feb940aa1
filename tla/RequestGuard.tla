---------------------------- MODULE RequestGuard ----------------------------
(***************************************************************************)
(* The path of a request through the gateway: internal/request/guard.lua,  *)
(* installed as gateway.request before the authorization filter and as     *)
(* gateway.dispatch after it, at the workload and then at the egress       *)
(* proxy.  Envoy's filter chain and OPA are the environment.  The names    *)
(* the guard accepts are compared with those for which                     *)
(* internal/inspection/leaf.go issues certificates.                        *)
(*                                                                         *)
(* A name is the sequence of its labels and a label a sequence of          *)
(* characters: the dots of the text are the boundaries of the labels.  One *)
(* character stands for each class the code tells apart.                   *)
(***************************************************************************)
EXTENDS Naturals, Sequences, FiniteSets
LOCAL INSTANCE Functions

CONSTANTS
    MaxName,      \* bytes of a name (253 in the code)
    MaxLabel,     \* bytes of a label (63 in the code)
    Arrivals,     \* the headers of requests that reach a listener
    Connections,  \* the connections they arrive on
    Mutations     \* targets that an authorization response may set instead

\* The Kelvin sign has three bytes, and only Unicode folds it to an ASCII letter.
Kelvin == "KELVIN SIGN"
Digits == {"0", "2", "5", "6"}
DigitValue == [c \in Digits |-> CASE c = "0" -> 0 [] c = "2" -> 2 [] c = "5" -> 5 [] c = "6" -> 6]
NameChars == {"a", "k", "-"} \union Digits
Chars == NameChars \union {"A", "_", Kelvin}

Names == Seq(Seq(Chars))

\* What stands for no name (nil, an error); the empty text is one empty label.
NoName == <<>>
EmptyText == << <<>> >>

Schemes == {"http", "https"}
Authority == [name : Names, port : Seq(Nat)]
NoAuthority == [name |-> NoName, port |-> <<>>]
Paths == {"none", "/a", "/b", "*"}
Target == [authority : Authority, scheme : Schemes, path : Paths]
NoTarget == [authority |-> NoAuthority, scheme |-> "http", path |-> "none"]
Headers == [authority : Authority, scheme : Schemes, path : Paths,
            connect : BOOLEAN, encoded : BOOLEAN]
Connection == [tls : BOOLEAN, sni : Names, peer : BOOLEAN]

ASSUME LengthsAssumption == MaxName \in Nat /\ MaxLabel \in Nat
ASSUME InputsAssumption ==
    Arrivals \subseteq Headers /\ Connections \subseteq Connection /\ Mutations \subseteq Target

VARIABLES
    hop,       \* the role of the proxy that handles the request
    scheme,    \* the scheme of its listener, a constant of the guard's source
    conn,      \* the downstream connection
    headers,   \* the request's headers
    metadata,  \* the dynamic metadata gateway.request of the stream
    stage,     \* the filter that comes next, or how the request ended
    seen,      \* history: the target OPA decided about at this hop
    origin     \* history: the target OPA allowed at the workload

vars == <<hop, scheme, conn, headers, metadata, stage, seen, origin>>

TargetOf(h) == [authority |-> h.authority, scheme |-> h.scheme, path |-> h.path]

-----------------------------------------------------------------------------
(* Names. *)

\* string.lower of Lua, and ToLower of Go, which also folds what is not ASCII.
LuaLower == [c \in Chars |-> IF c = "A" THEN "a" ELSE c]
GoLower == [c \in Chars |-> IF c = Kelvin THEN "k" ELSE LuaLower[c]]
Lowered(lower, n) == [i \in DOMAIN n |-> [j \in DOMAIN n[i] |-> lower[n[i][j]]]]

\* Lengths in bytes.
Width(l) == Len(l) + 2 * Cardinality({j \in DOMAIN l : l[j] = Kelvin})
Bytes(n) == SumFunction([i \in DOMAIN n |-> Width(n[i])]) + Len(n) - 1

GoodLabel(l) == Width(l) <= MaxLabel /\ l[1] # "-" /\ l[Len(l)] # "-"
OnlyNameChars(l) == \A j \in DOMAIN l : l[j] \in NameChars
Number(l) == l # <<>> /\ \A j \in DOMAIN l : l[j] \in Digits

\* The pattern of four numbers, whatever their size.
NoQuad(n) == FALSE
DottedQuad(n) == Len(n) = 4 /\ \A i \in DOMAIN n : Number(n[i])

\* The canonical form of a name in guard.lua.  A dot at the end, two dots in a row
\* and a dot at the start are each an empty label; gmatch passes over those.
hostname(n) ==
    LET v == Lowered(LuaLower, n)
    IN IF /\ n \notin {NoName, EmptyText} /\ Bytes(n) <= MaxName
          /\ \A i \in DOMAIN v : OnlyNameChars(v[i])
          /\ v[Len(v)] # <<>> /\ \A i \in 2..(Len(v) - 1) : v[i] # <<>>
          /\ ~DottedQuad(v)
          /\ \A i \in DOMAIN v : v[i] # <<>> => GoodLabel(v[i])
          /\ v[1] # <<>>
       THEN v ELSE NoName

\* An octet for netip.ParseAddr: up to 255, without leading zeros.
Octet(l) ==
    /\ Number(l) /\ Len(l) <= 3
    /\ Len(l) > 1 => l[1] # "0"
    /\ Len(l) = 3 => 100 * DigitValue[l[1]] + 10 * DigitValue[l[2]] + DigitValue[l[3]] <= 255
ParseAddr(n) == Len(n) = 4 /\ \A i \in DOMAIN n : Octet(n[i])

\* The canonical form of a name in leaf.go.
canonicalName(n) ==
    LET v == Lowered(GoLower, n)
    IN IF /\ n \notin {NoName, EmptyText} /\ Bytes(n) <= MaxName /\ n[Len(n)] # <<>>
          /\ ~ParseAddr(v)
          /\ \A i \in DOMAIN v : v[i] # <<>> /\ GoodLabel(v[i]) /\ OnlyNameChars(v[i])
       THEN v ELSE NoName

\* The canonical target of an authority.  A port is the sequence of its leading
\* zeros, if it has any, and its value; a colon without a number is no name.
MaxPort == 65535
ValidPort(p) == p = <<>> \/ p[Len(p)] \in 1..MaxPort
DefaultPort(s) == IF s = "https" THEN 443 ELSE 80
target(a, s) ==
    IF hostname(a.name) # NoName /\ ValidPort(a.port)
    THEN [name |-> hostname(a.name),
          port |-> <<IF a.port = <<>> THEN DefaultPort(s) ELSE a.port[Len(a.port)]>>]
    ELSE NoAuthority

-----------------------------------------------------------------------------
(* The filters. *)

\* A request reaches a listener of either role; streams share no state.
Init ==
    /\ hop \in {"workload", "egress"} /\ scheme \in Schemes
    /\ conn \in Connections /\ headers \in Arrivals
    /\ metadata = NoTarget /\ seen = NoTarget /\ origin = NoTarget
    /\ stage = "request"

\* envoy_on_request goes on to the next filter.
Pass == stage' = IF stage = "request" THEN "authz" ELSE "routed"

\* The tests of envoy_on_request in their order, each with an early return.
AnyServerName == FALSE
ServerNameConflict ==
    hop = "workload" /\ scheme = "https" /\ hostname(conn.sni) # hostname(headers.authority.name)
Status ==
    IF headers.encoded THEN 415
    ELSE IF (scheme = "https" \/ hop = "egress") /\ ~conn.tls THEN 400
    ELSE IF hop = "egress" /\ ~conn.peer THEN 403
    ELSE IF target(headers.authority, scheme) = NoAuthority THEN 400
    ELSE IF ServerNameConflict THEN 400
    ELSE IF headers.connect \/ headers.path \notin {"/a", "/b"} THEN 400
    ELSE 200

\* envoy_on_request of a stream that has no metadata: it is refused, or its target is
\* made canonical in the headers and in the metadata.
Refuse ==
    /\ stage \in {"request", "dispatch"} /\ metadata = NoTarget
    /\ Status # 200
    /\ stage' = "refused"
    /\ UNCHANGED <<hop, scheme, conn, headers, metadata, seen, origin>>

Canonicalize ==
    /\ stage \in {"request", "dispatch"} /\ metadata = NoTarget
    /\ Status = 200
    /\ headers' = [headers EXCEPT !.authority = target(@, scheme), !.scheme = scheme]
    /\ metadata' = TargetOf(headers')
    /\ Pass
    /\ UNCHANGED <<hop, scheme, conn, seen, origin>>

\* envoy_on_request of a stream whose target is in the metadata.
SameAuthority == headers.authority = metadata.authority
SameTarget ==
    /\ headers.authority = metadata.authority
    /\ headers.path = metadata.path
    /\ headers.scheme = metadata.scheme

Compare ==
    /\ stage \in {"request", "dispatch"} /\ metadata # NoTarget
    /\ \/ SameTarget /\ Pass
       \/ ~SameTarget /\ stage' = "refused"
    /\ UNCHANGED <<hop, scheme, conn, headers, metadata, seen, origin>>

\* OPA allows the target it sees; its response may change the headers.
Allow ==
    /\ stage = "authz"
    /\ seen' = TargetOf(headers)
    /\ origin' = IF hop = "workload" THEN TargetOf(headers) ELSE origin
    /\ \E t \in Mutations \union {TargetOf(headers)} :
          headers' = [headers EXCEPT !.authority = t.authority, !.scheme = t.scheme,
                                     !.path = t.path]
    /\ stage' = "dispatch"
    /\ UNCHANGED <<hop, scheme, conn, metadata>>

\* OPA denies the request, or fails: failure_mode_allow is false.
Deny ==
    /\ stage = "authz"
    /\ stage' = "refused"
    /\ UNCHANGED <<hop, scheme, conn, headers, metadata, seen, origin>>

\* The router of the workload proxy opens a stream to the egress listener of the same
\* scheme, which has metadata of its own.
Forward ==
    /\ stage = "routed" /\ hop = "workload"
    /\ hop' = "egress" /\ conn' \in Connections
    /\ metadata' = NoTarget /\ seen' = NoTarget
    /\ stage' = "request"
    /\ UNCHANGED <<scheme, headers, origin>>

Next == Refuse \/ Canonicalize \/ Compare \/ Allow \/ Deny \/ Forward

Spec == Init /\ [][Next]_vars

-----------------------------------------------------------------------------
(* Properties. *)

\* The type of every variable.
TypeOK ==
    /\ hop \in {"workload", "egress"} /\ scheme \in Schemes
    /\ conn \in Connection /\ headers \in Headers
    /\ metadata \in Target /\ seen \in Target /\ origin \in Target
    /\ stage \in {"request", "authz", "dispatch", "routed", "refused"}

\* What the router gets is what OPA has decided about at the same hop, whatever the
\* authorization response has set in between.
RoutedAsAuthorized == stage = "routed" => TargetOf(headers) = seen

\* What the egress router gets of a request that came through the workload proxy is
\* what the workload's OPA allowed: the second canonicalization changes nothing.
RoutedAsFirstAuthorized ==
    stage = "routed" /\ hop = "egress" /\ origin # NoTarget => TargetOf(headers) = origin

\* The host of an inspected request is the one its TLS server got a certificate for.
RoutedToInspectedName ==
    stage = "routed" /\ hop = "workload" /\ scheme = "https" =>
        headers.authority.name = canonicalName(conn.sni)

\* Certificates exist for all names that the guard accepts, under the same canonical
\* form; a name with a certificate that the guard refuses has four numbers that are
\* no address, or is not ASCII.
NamesAgree ==
    LET n == headers.authority.name
    IN /\ hostname(n) # NoName => canonicalName(n) = hostname(n)
       /\ canonicalName(n) # NoName /\ hostname(n) = NoName =>
             \/ DottedQuad(n)
             \/ \E i \in DOMAIN n : \E j \in DOMAIN n[i] : n[i][j] = Kelvin

-----------------------------------------------------------------------------
(* The inductive invariant behind the properties above. *)

\* A target that the guard would leave as it is.
Canonical(t) == t.authority = target(t.authority, t.scheme) /\ t.authority # NoAuthority

\* Behind the first filter the metadata hold a canonical target, the one OPA decides
\* about; at the egress proxy it is the one the workload's OPA has allowed.
GuardInv ==
    /\ TypeOK
    /\ stage = "request" => metadata = NoTarget
    /\ stage \in {"authz", "dispatch", "routed"} => Canonical(metadata) /\ metadata.scheme = scheme
    /\ stage \in {"authz", "routed"} => TargetOf(headers) = metadata
    /\ stage \in {"dispatch", "routed"} => seen = metadata
    /\ stage \in {"authz", "dispatch", "routed"} /\ hop = "workload" /\ scheme = "https" =>
          metadata.authority.name = hostname(conn.sni)
    /\ stage \in {"dispatch", "routed"} /\ hop = "workload" => origin = metadata
    /\ stage \in {"request", "authz"} /\ hop = "workload" => origin = NoTarget
    /\ origin # NoTarget /\ hop = "egress" =>
          /\ Canonical(origin) /\ origin.scheme = scheme
          /\ stage = "request" => TargetOf(headers) = origin
          /\ stage \in {"authz", "dispatch", "routed"} => metadata = origin
=============================================================================
