--------------------------- MODULE PodStartupProofs ---------------------------
(***************************************************************************)
(* Proofs about PodStartup, for any business Pods and options, any trust   *)
(* stores and any number of kills and lost sandboxes.                      *)
(***************************************************************************)
EXTENDS PodStartup, SequenceTheorems, TLAPS

-----------------------------------------------------------------------------
(* The script: what one more command makes of a stage. *)

Rule(w, x, y, z) == [chains |-> w, chain |-> x, output |-> y, input |-> z]

\* The four parts of a stage.
Created(n) == IF n >= 1 THEN {Chain} ELSE {}
Body(n) == IF n >= 3 THEN <<"return", "reject">> ELSE IF n = 2 THEN <<"return">> ELSE <<>>
Output(n) == IF n >= 4 THEN <<"jump">> ELSE <<>>
Input(n) == IF n >= 5 THEN <<"reject">> ELSE <<>>

\* A stage is the record of its parts.
LEMMA Stages == \A n : Stage(n) = Rule(Created(n), Body(n), Output(n), Input(n))
BY DEF Stage, Rule, Created, Body, Output, Input

\* Each command changes one part of the rules.
LEMMA Command1 == \A w, x, y, z : Command(Rule(w, x, y, z), 1) = Rule(w \union {Chain}, x, y, z)
BY DEF Command, Rule
\* The RETURN of the proxy.
LEMMA Command2 == \A w, x, y, z : Command(Rule(w, x, y, z), 2) = Rule(w, Appended(x, "return"), y, z)
BY DEF Command, Rule
\* The REJECT behind it.
LEMMA Command3 == \A w, x, y, z : Command(Rule(w, x, y, z), 3) = Rule(w, Appended(x, "reject"), y, z)
BY DEF Command, Rule
\* The jump to the chain.
LEMMA Command4 == \A w, x, y, z : Command(Rule(w, x, y, z), 4) = Rule(w, x, Inserted(y, "jump"), z)
BY DEF Command, Rule
\* The REJECT of other Pods.
LEMMA Command5 == \A w, x, y, z : Command(Rule(w, x, y, z), 5) = Rule(w, x, y, Inserted(z, "reject"))
BY DEF Command, Rule

\* A second rule is put behind the first.
LEMMA Pair == ASSUME NEW x, NEW y PROVE Append(<<x>>, y) = <<x, y>>
<1>1. <<x>> \in Seq({x, y}) /\ <<x, y>> \in Seq({x, y})
  OBVIOUS
<1>2. Append(<<x>>, y) \in Seq({x, y})
  BY <1>1
<1>3. Len(Append(<<x>>, y)) = 2 /\ Append(<<x>>, y)[1] = x /\ Append(<<x>>, y)[2] = y
  BY <1>1
<1>4. Len(<<x, y>>) = 2 /\ \A i \in 1..2 : <<x, y>>[i] = Append(<<x>>, y)[i]
  BY <1>1, <1>3
<1> QED BY <1>1, <1>2, <1>3, <1>4, SeqEqual

\* A rule that is there is not added again.
LEMMA Checked ==
    /\ Appended(<<>>, "return") = <<"return">>
    /\ Appended(<<"return">>, "return") = <<"return">>
    /\ Appended(<<"return", "reject">>, "return") = <<"return", "reject">>
    /\ Appended(<<"return">>, "reject") = <<"return", "reject">>
    /\ Appended(<<"return", "reject">>, "reject") = <<"return", "reject">>
    /\ Inserted(<<>>, "jump") = <<"jump">> /\ Inserted(<<"jump">>, "jump") = <<"jump">>
    /\ Inserted(<<>>, "reject") = <<"reject">> /\ Inserted(<<"reject">>, "reject") = <<"reject">>
BY Pair DEF Appended, Inserted, Holds

\* A command whose predecessors have been run completes its stage, and one that has been
\* run changes nothing.
LEMMA StageStep ==
    ASSUME NEW n \in 0..5, NEW k \in 1..5, k <= n + 1
    PROVE  Command(Stage(n), k) = Stage(IF k <= n THEN n ELSE k)
<1> DEFINE m == IF k <= n THEN n ELSE k
<1>1. CASE k = 1
  <2>1. /\ Created(n) \union {Chain} = Created(m)
        /\ Body(n) = Body(m) /\ Output(n) = Output(m) /\ Input(n) = Input(m)
    BY <1>1 DEF Created, Body, Output, Input
  <2> HIDE DEF m
  <2>2. Command(Stage(n), 1) = Stage(m)
    BY <2>1, Stages, Command1
  <2> QED BY <1>1, <2>2 DEF m
<1>2. CASE k = 2
  <2>1. /\ Appended(Body(n), "return") = Body(m)
        /\ Created(n) = Created(m) /\ Output(n) = Output(m) /\ Input(n) = Input(m)
    BY <1>2, Checked DEF Created, Body, Output, Input
  <2> HIDE DEF m
  <2>2. Command(Stage(n), 2) = Stage(m)
    BY <2>1, Stages, Command2
  <2> QED BY <1>2, <2>2 DEF m
<1>3. CASE k = 3
  <2>1. /\ Appended(Body(n), "reject") = Body(m)
        /\ Created(n) = Created(m) /\ Output(n) = Output(m) /\ Input(n) = Input(m)
    BY <1>3, Checked DEF Created, Body, Output, Input
  <2> HIDE DEF m
  <2>2. Command(Stage(n), 3) = Stage(m)
    BY <2>1, Stages, Command3
  <2> QED BY <1>3, <2>2 DEF m
<1>4. CASE k = 4
  <2>1. /\ Inserted(Output(n), "jump") = Output(m)
        /\ Created(n) = Created(m) /\ Body(n) = Body(m) /\ Input(n) = Input(m)
    BY <1>4, Checked DEF Created, Body, Output, Input
  <2> HIDE DEF m
  <2>2. Command(Stage(n), 4) = Stage(m)
    BY <2>1, Stages, Command4
  <2> QED BY <1>4, <2>2 DEF m
<1>5. CASE k = 5
  <2>1. /\ Inserted(Input(n), "reject") = Input(m)
        /\ Created(n) = Created(m) /\ Body(n) = Body(m) /\ Output(n) = Output(m)
    BY <1>5, Checked DEF Created, Body, Output, Input
  <2> HIDE DEF m
  <2>2. Command(Stage(n), 5) = Stage(m)
    BY <2>1, Stages, Command5
  <2> QED BY <1>5, <2>2 DEF m
<1> QED BY <1>1, <1>2, <1>3, <1>4, <1>5

-----------------------------------------------------------------------------
(* The order of the composed Pod. *)

\* A list grows by its last element.
LEMMA Push ==
    ASSUME NEW S, NEW s \in Seq(S), NEW x \in S
    PROVE  /\ s \o <<x>> \in Seq(S) /\ Len(s \o <<x>>) = Len(s) + 1
           /\ \A i \in 1..Len(s) : (s \o <<x>>)[i] = s[i]
           /\ (s \o <<x>>)[Len(s) + 1] = x
OBVIOUS

\* Five lists of one element make a list of five.
LEMMA Five ==
    ASSUME NEW S, NEW x1 \in S, NEW x2 \in S, NEW x3 \in S, NEW x4 \in S, NEW x5 \in S
    PROVE  LET T == <<x1>> \o <<x2>> \o <<x3>> \o <<x4>> \o <<x5>>
           IN /\ T \in Seq(S) /\ Len(T) = 5
              /\ T[1] = x1 /\ T[2] = x2 /\ T[3] = x3 /\ T[4] = x4 /\ T[5] = x5
<1>1. ASSUME NEW s \in Seq(S), NEW x \in S, Len(s) = 2
      PROVE  /\ s \o <<x>> \in Seq(S) /\ Len(s \o <<x>>) = 3
             /\ (s \o <<x>>)[1] = s[1] /\ (s \o <<x>>)[2] = s[2] /\ (s \o <<x>>)[3] = x
  <2> DEFINE r == s \o <<x>>
  <2>1. /\ r \in Seq(S) /\ Len(r) = Len(s) + 1
        /\ \A i \in 1..Len(s) : r[i] = s[i]
        /\ r[Len(s) + 1] = x
    BY Push
  <2> HIDE DEF r
  <2> QED BY <1>1, <2>1 DEF r
<1>2. ASSUME NEW s \in Seq(S), NEW x \in S, Len(s) = 3
      PROVE  /\ s \o <<x>> \in Seq(S) /\ Len(s \o <<x>>) = 4
             /\ (s \o <<x>>)[1] = s[1] /\ (s \o <<x>>)[2] = s[2] /\ (s \o <<x>>)[3] = s[3]
             /\ (s \o <<x>>)[4] = x
  <2> DEFINE r == s \o <<x>>
  <2>1. /\ r \in Seq(S) /\ Len(r) = Len(s) + 1
        /\ \A i \in 1..Len(s) : r[i] = s[i]
        /\ r[Len(s) + 1] = x
    BY Push
  <2> HIDE DEF r
  <2> QED BY <1>2, <2>1 DEF r
<1>3. ASSUME NEW s \in Seq(S), NEW x \in S, Len(s) = 4
      PROVE  /\ s \o <<x>> \in Seq(S) /\ Len(s \o <<x>>) = 5
             /\ (s \o <<x>>)[1] = s[1] /\ (s \o <<x>>)[2] = s[2] /\ (s \o <<x>>)[3] = s[3]
             /\ (s \o <<x>>)[4] = s[4] /\ (s \o <<x>>)[5] = x
  <2> DEFINE r == s \o <<x>>
  <2>1. /\ r \in Seq(S) /\ Len(r) = Len(s) + 1
        /\ \A i \in 1..Len(s) : r[i] = s[i]
        /\ r[Len(s) + 1] = x
    BY Push
  <2> HIDE DEF r
  <2> QED BY <1>3, <2>1 DEF r
<1> DEFINE T2 == <<x1>> \o <<x2>>
           T3 == T2 \o <<x3>>
           T4 == T3 \o <<x4>>
           T5 == T4 \o <<x5>>
<1>4. T2 \in Seq(S) /\ Len(T2) = 2 /\ T2[1] = x1 /\ T2[2] = x2
  OBVIOUS
<1> HIDE DEF T2
<1>5. T3 \in Seq(S) /\ Len(T3) = 3 /\ T3[1] = x1 /\ T3[2] = x2 /\ T3[3] = x3
  BY <1>1, <1>4
<1> HIDE DEF T3
<1>6. /\ T4 \in Seq(S) /\ Len(T4) = 4
      /\ T4[1] = x1 /\ T4[2] = x2 /\ T4[3] = x3 /\ T4[4] = x4
  BY <1>2, <1>5
<1> HIDE DEF T4
<1>7. /\ T5 \in Seq(S) /\ Len(T5) = 5
      /\ T5[1] = x1 /\ T5[2] = x2 /\ T5[3] = x3 /\ T5[4] = x4 /\ T5[5] = x5
  BY <1>3, <1>6
<1> QED BY <1>7 DEF T2, T3, T4, T5

\* A list of anything is a list of its elements.
LEMMA ListOf == ASSUME NEW S, NEW s \in Seq(S) PROVE IsList(s)
<1>1. Len(s) \in Nat /\ DOMAIN s = 1..Len(s) /\ s = [j \in 1..Len(s) |-> s[j]]
  OBVIOUS
<1> QED BY <1>1 DEF IsList

\* The names of the containers of managed.json.
LEMMA ManagedNames ==
    /\ Managed[1].name = "prepare-volumes" /\ Managed[2].name = "management-init"
    /\ Managed[3].name = "istio-proxy" /\ Managed[4].name = "base-trust"
    /\ Managed[5].name = "trust-init" /\ DOMAIN Managed = 1..5
BY DEF Managed, Container

\* Optional mounts do not change the name of a container.
LEMMA EquippedNames == \A i \in 1..5 : Equipped(Managed[i], o).name = Managed[i].name
BY DEF Equipped, Managed, Container

\* A workload has the five containers of managed.json in their order.
LEMMA WorkloadInit ==
    ASSUME o.role # "egress"
    PROVE  /\ IsList(TrustedInit(o)) /\ Len(TrustedInit(o)) = 5
           /\ \A i \in 1..5 : /\ TrustedInit(o)[i] = Equipped(Managed[i], o)
                             /\ TrustedInit(o)[i].name = Managed[i].name
<1> DEFINE E(i) == Equipped(Managed[i], o)
           S == {E(1), E(2), E(3), E(4), E(5)}
           T == <<E(1)>> \o <<E(2)>> \o <<E(3)>> \o <<E(4)>> \o <<E(5)>>
<1>1. TrustedInit(o) = T
  BY DEF TrustedInit, Runs, ManagedInit
<1> HIDE DEF E
<1>2. /\ T \in Seq(S) /\ Len(T) = 5
      /\ T[1] = E(1) /\ T[2] = E(2) /\ T[3] = E(3) /\ T[4] = E(4) /\ T[5] = E(5)
  BY Five
<1> HIDE DEF T, S
<1>3. IsList(T)
  BY <1>2, ListOf
<1>4. \A i \in 1..5 : T[i] = E(i)
  BY <1>2
<1>5. \A i \in 1..5 : T[i] = Equipped(Managed[i], o) /\ T[i].name = Managed[i].name
  BY <1>4, EquippedNames DEF E
<1> QED BY <1>1, <1>2, <1>3, <1>5

\* An egress Pod has the first two of them.
LEMMA EgressInit ==
    ASSUME o.role = "egress"
    PROVE  /\ IsList(TrustedInit(o)) /\ Len(TrustedInit(o)) = 2
           /\ \A i \in 1..2 : /\ TrustedInit(o)[i] = Equipped(Managed[i], o)
                             /\ TrustedInit(o)[i].name = Managed[i].name
<1> DEFINE E(i) == Equipped(Managed[i], o)
           S == {E(1), E(2)}
           T == <<E(1)>> \o <<E(2)>>
<1>1. TrustedInit(o) = T \o <<>> \o <<>> \o <<>>
  BY ManagedNames DEF TrustedInit, Runs, ManagedInit
<1> HIDE DEF E
<1>2. <<E(1)>> \in Seq(S) /\ Len(<<E(1)>>) = 1 /\ <<E(1)>>[1] = E(1)
  OBVIOUS
<1>3. T \in Seq(S) /\ Len(T) = 2 /\ T[1] = E(1) /\ T[2] = E(2)
  BY <1>2, Push
<1> HIDE DEF T, S
<1>4. TrustedInit(o) = T
  BY <1>1, <1>3, ConcatEmptySeq
<1>5. IsList(T)
  BY <1>3, ListOf
<1>6. \A i \in 1..2 : T[i] = E(i)
  BY <1>3
<1>7. \A i \in 1..2 : T[i] = Equipped(Managed[i], o) /\ T[i].name = Managed[i].name
  BY <1>6, EquippedNames DEF E
<1> QED BY <1>3, <1>4, <1>5, <1>7

\* Two lists in one.
LEMMA Joined ==
    ASSUME NEW s, NEW t, IsList(s), IsList(t)
    PROVE  /\ Len(s) \in Nat /\ Len(t) \in Nat /\ DOMAIN t = 1..Len(t)
           /\ Len(s \o t) = Len(s) + Len(t) /\ DOMAIN (s \o t) = 1..(Len(s) + Len(t))
           /\ \A i \in 1..Len(s) : (s \o t)[i] = s[i]
           /\ \A i \in (Len(s) + 1)..(Len(s) + Len(t)) :
                 i - Len(s) \in DOMAIN t /\ (s \o t)[i] = t[i - Len(s)]
<1> DEFINE S == {s[j] : j \in DOMAIN s}
           T == {t[j] : j \in DOMAIN t}
<1>1. s \in Seq(S) /\ t \in Seq(T)
  BY DEF IsList
<1> HIDE DEF S, T
<1>2. s \in Seq(S \union T) /\ t \in Seq(S \union T)
  BY <1>1
<1>3. Len(s) \in Nat /\ Len(t) \in Nat /\ DOMAIN t = 1..Len(t)
  BY <1>1
<1>4. DOMAIN (s \o t) = 1..(Len(s) + Len(t))
  BY <1>2
<1> QED BY <1>2, <1>3, <1>4, ConcatProperties

\* The init containers are those of the gateway and then those of the business.
LEMMA PodInit ==
    ASSUME input \in Inputs
    PROVE  /\ pod.init = TrustedInit(o) \o b.init
           /\ IsList(b.init) /\ IsList(input.store) /\ IsList(TrustedInit(o))
           /\ Len(pod.init) \in Nat
<1>1. pod.init = TrustedInit(o) \o b.init
  BY DEF pod, ComposePod, InitOrder
<1>2. IsList(b.init) /\ IsList(input.store)
  BY InputsAssumption DEF b
<1>3. IsList(TrustedInit(o))
  BY WorkloadInit, EgressInit
<1> QED BY <1>1, <1>2, <1>3, Joined

\* No business container has a name of managed.json.
LEMMA BusinessNames ==
    ASSUME Accepted
    PROVE  \A i \in DOMAIN b.init :
              b.init[i].name \notin {"prepare-volumes", "management-init", "istio-proxy",
                                     "base-trust", "trust-init"}
BY ManagedNames DEF Accepted, ComposeAccepts, ProtectBusiness

\* The gateway's containers have fixed places before those of the business.
LEMMA Order ==
    ASSUME input \in Inputs, Accepted
    PROVE  /\ o.role \in {"workload", "egress"}
           /\ Len(pod.init) \in Nat /\ Len(pod.init) >= 2
           /\ o.role = "workload" => Len(pod.init) >= 5
           /\ \A i \in 1..Len(pod.init) :
                 /\ pod.init[i].name = "prepare-volumes" <=> i = 1
                 /\ pod.init[i].name = "management-init" <=> i = 2
                 /\ pod.init[i].name = "istio-proxy" <=> o.role = "workload" /\ i = 3
                 /\ pod.init[i].name = "base-trust" <=> o.role = "workload" /\ i = 4
                 /\ pod.init[i].name = "trust-init" <=> o.role = "workload" /\ i = 5
<1>1. o.role \in {"workload", "egress"}
  BY DEF Accepted, ComposeAccepts
<1> DEFINE T == TrustedInit(o)
<1>2. /\ Len(T) \in Nat /\ Len(b.init) \in Nat /\ Len(pod.init) = Len(T) + Len(b.init)
      /\ \A i \in 1..Len(T) : pod.init[i] = T[i]
      /\ \A i \in (Len(T) + 1)..(Len(T) + Len(b.init)) :
            i - Len(T) \in DOMAIN b.init /\ pod.init[i] = b.init[i - Len(T)]
  <2>1. pod.init = T \o b.init /\ IsList(T) /\ IsList(b.init)
    BY PodInit
  <2> HIDE DEF T
  <2>2. /\ Len(T) \in Nat /\ Len(b.init) \in Nat
        /\ Len(T \o b.init) = Len(T) + Len(b.init)
        /\ \A i \in 1..Len(T) : (T \o b.init)[i] = T[i]
        /\ \A i \in (Len(T) + 1)..(Len(T) + Len(b.init)) :
              i - Len(T) \in DOMAIN b.init /\ (T \o b.init)[i] = b.init[i - Len(T)]
    BY <2>1, Joined
  <2> QED BY <2>1, <2>2
<1>3. \A i \in (Len(T) + 1)..Len(pod.init) :
         pod.init[i].name \notin {"prepare-volumes", "management-init", "istio-proxy",
                                  "base-trust", "trust-init"}
  <2> HIDE DEF T
  <2> SUFFICES ASSUME NEW i \in (Len(T) + 1)..Len(pod.init)
               PROVE  pod.init[i].name \notin {"prepare-volumes", "management-init", "istio-proxy",
                                               "base-trust", "trust-init"}
    OBVIOUS
  <2>1. i - Len(T) \in DOMAIN b.init /\ pod.init[i] = b.init[i - Len(T)]
    BY <1>2
  <2> QED BY <2>1, BusinessNames
<1>4. CASE o.role = "workload"
  <2>1. Len(T) = 5 /\ \A i \in 1..5 : T[i].name = Managed[i].name
    BY <1>4, WorkloadInit
  <2> HIDE DEF T
  <2>2. /\ pod.init[1].name = "prepare-volumes" /\ pod.init[2].name = "management-init"
        /\ pod.init[3].name = "istio-proxy" /\ pod.init[4].name = "base-trust"
        /\ pod.init[5].name = "trust-init"
    <3>1. \A i \in 1..5 : pod.init[i] = T[i]
      BY <1>2, <2>1
    <3>2. \A i \in 1..5 : pod.init[i].name = Managed[i].name
      BY <2>1, <3>1
    <3> QED BY <3>2, ManagedNames
  <2>3. \A i \in 1..Len(pod.init) : i \in {1, 2, 3, 4, 5} \/ i \in (Len(T) + 1)..Len(pod.init)
    BY <1>2, <2>1
  <2>4. \A i \in (Len(T) + 1)..Len(pod.init) : i \notin {1, 2, 3, 4, 5}
    BY <1>2, <2>1
  <2>5. Len(pod.init) \in Nat /\ Len(pod.init) >= 5
    BY <1>2, <2>1
  <2>6. \A i \in (Len(T) + 1)..Len(pod.init) :
           /\ i \notin {1, 2, 3, 4, 5}
           /\ pod.init[i].name \notin {"prepare-volumes", "management-init", "istio-proxy",
                                      "base-trust", "trust-init"}
    BY <1>3, <2>4
  <2> QED BY <1>4, <2>2, <2>3, <2>5, <2>6
<1>5. CASE o.role = "egress"
  <2>1. Len(T) = 2 /\ \A i \in 1..2 : T[i].name = Managed[i].name
    BY <1>5, EgressInit
  <2> HIDE DEF T
  <2>2. pod.init[1].name = "prepare-volumes" /\ pod.init[2].name = "management-init"
    <3>1. \A i \in 1..2 : pod.init[i] = T[i]
      BY <1>2, <2>1
    <3>2. \A i \in 1..2 : pod.init[i].name = Managed[i].name
      BY <2>1, <3>1
    <3> QED BY <3>2, ManagedNames
  <2>3. \A i \in 1..Len(pod.init) : i \in {1, 2} \/ i \in (Len(T) + 1)..Len(pod.init)
    BY <1>2, <2>1
  <2>4. \A i \in (Len(T) + 1)..Len(pod.init) : i \notin {1, 2}
    BY <1>2, <2>1
  <2> QED BY <1>2, <1>3, <1>5, <2>1, <2>2, <2>3, <2>4
<1> QED BY <1>1, <1>4, <1>5

\* Whose turn it is and who has had it, as positions.
LEMMA Turns ==
    ASSUME input \in Inputs, Accepted, at \in 1..(Len(pod.init) + 1)
    PROVE  /\ InitRuns("prepare-volumes") <=> at = 1
           /\ InitRuns("management-init") <=> at = 2
           /\ InitRuns("istio-proxy") <=> o.role = "workload" /\ at = 3
           /\ InitRuns("base-trust") <=> o.role = "workload" /\ at = 4
           /\ InitRuns("trust-init") <=> o.role = "workload" /\ at = 5
           /\ (\E i \in DOMAIN b.init : InitRuns(b.init[i].name)) =>
                 at > 2 /\ at <= Len(pod.init) /\ (o.role = "workload" => at > 5)
           /\ Passed("management-init") <=> at > 2
           /\ Passed("istio-proxy") <=> o.role = "workload" /\ at > 3
           /\ Passed("base-trust") <=> o.role = "workload" /\ at > 4
           /\ Passed("trust-init") <=> o.role = "workload" /\ at > 5
           /\ ProxyMayRun => at > 2
<1>1. /\ InitRuns("prepare-volumes") <=> at = 1
      /\ InitRuns("management-init") <=> at = 2
      /\ InitRuns("istio-proxy") <=> o.role = "workload" /\ at = 3
      /\ InitRuns("base-trust") <=> o.role = "workload" /\ at = 4
      /\ InitRuns("trust-init") <=> o.role = "workload" /\ at = 5
  BY Order DEF InitRuns
<1>2. (\E i \in DOMAIN b.init : InitRuns(b.init[i].name)) =>
         at > 2 /\ at <= Len(pod.init) /\ (o.role = "workload" => at > 5)
  BY Order, BusinessNames DEF InitRuns
<1>3. /\ Passed("management-init") <=> at > 2
      /\ Passed("istio-proxy") <=> o.role = "workload" /\ at > 3
  BY Order DEF Passed
<1>4. /\ Passed("base-trust") <=> o.role = "workload" /\ at > 4
      /\ Passed("trust-init") <=> o.role = "workload" /\ at > 5
  BY Order DEF Passed
<1>5. ProxyMayRun => at > 2
  BY Order DEF ProxyMayRun
<1> QED BY <1>1, <1>2, <1>3, <1>4, <1>5

-----------------------------------------------------------------------------
(* The invariant, with positions for names. *)

ScriptAt ==
    active /\ at = 2 =>
        /\ \E n \in 0..5 : (n >= step \/ n = 5) /\ rules["iptables"] = Stage(n)
        /\ \E n \in 0..5 : n >= step - 5 /\ rules["ip6tables"] = Stage(n)
LeftBehind ==
    /\ at > 2 => \A t \in Tools : rules[t] = Stage(5)
    /\ o.role = "workload" /\ at > 3 => ca
    /\ o.role = "workload" /\ at > 4 => base = input.store
    /\ o.role = "workload" /\ at > 5 => Trusted
RunningAt ==
    /\ active => Accepted /\ at <= Len(pod.init) /\ ~(o.role = "workload" /\ at = 3)
    /\ at > 1 => Accepted
    /\ proxy # "down" => Accepted /\ at > 2
    /\ proxy \in {"published", "ready"} /\ o.role = "workload" => ca
PosInv == TypeOK /\ RulesIdempotent /\ ScriptAt /\ LeftBehind /\ RunningAt

\* The invariant that TLC checks follows.
LEMMA PositionsNamed == PosInv => IndInv
<1> SUFFICES ASSUME PosInv PROVE IndInv
  OBVIOUS
<1>1. input \in Inputs /\ at \in 1..(Len(pod.init) + 1)
  BY DEF PosInv, TypeOK
<1>2. CASE Accepted
  BY <1>1, <1>2, Turns
     DEF PosInv, IndInv, ScriptAt, ScriptProgress, LeftBehind, TurnsTaken, RunningAt, Running
<1>3. CASE ~Accepted
  <2>1. at = 1 /\ ~active /\ proxy = "down"
    BY <1>1, <1>3, PodInit DEF PosInv, RunningAt
  <2>2. \A name : ~Passed(name)
    BY <2>1 DEF Passed
  <2> QED BY <2>1, <2>2
     DEF PosInv, IndInv, ScriptProgress, TurnsTaken, RunningAt, Running
<1> QED BY <1>2, <1>3

\* No step changes what the Pod is composed of.
LEMMA PodFixed ==
    ASSUME [Next]_vars
    PROVE  /\ input' = input /\ b' = b /\ o' = o /\ pod' = pod
           /\ Accepted' <=> Accepted
<1>1. input' = input
  BY DEF Next, RunInit, RunProxy, StartInit, BusinessInit, PrepareVolumes, InstallRule,
         RulesInstalled, CopyPart, CopyBase, TrustInit, TrustInitFails, StartProxy, Publish,
         ProxyReady, InitDies, ProxyDies, SandboxLost, vars
<1> QED BY <1>1 DEF b, o, pod, Accepted

\* One command of the script.
LEMMA RuleStep == ASSUME PosInv, InstallRule PROVE RulesIdempotent' /\ ScriptAt'
<1>1. /\ input \in Inputs /\ at \in 1..(Len(pod.init) + 1) /\ step \in 0..10
      /\ DOMAIN rules = Tools
  BY DEF PosInv, TypeOK
<1>2. Accepted /\ active /\ at = 2 /\ step < 10
  BY <1>1, Turns DEF InstallRule
<1>3. PICK n \in 0..5 : (n >= step \/ n = 5) /\ rules["iptables"] = Stage(n)
  BY <1>2 DEF PosInv, ScriptAt
<1>4. PICK m \in 0..5 : m >= step - 5 /\ rules["ip6tables"] = Stage(m)
  BY <1>2 DEF PosInv, ScriptAt
<1>5. CASE step < 5
  <2>1. /\ rules'["iptables"] = Command(rules["iptables"], step + 1)
        /\ rules'["ip6tables"] = rules["ip6tables"] /\ step' = step + 1
    BY <1>1, <1>5 DEF InstallRule, ToolAt, Tools
  <2> DEFINE k == IF step + 1 <= n THEN n ELSE step + 1
  <2>2. Command(Stage(n), step + 1) = Stage(k)
    BY <1>1, <1>3, <1>5, StageStep
  <2>3. k \in 0..5 /\ k >= step + 1
    BY <1>1, <1>3, <1>5
  <2> HIDE DEF k
  <2>4. rules'["iptables"] = Stage(k) /\ rules'["ip6tables"] = Stage(m)
    BY <1>3, <1>4, <2>1, <2>2
  <2>5. m >= step' - 5
    BY <1>1, <1>4, <1>5, <2>1
  <2> QED BY <2>1, <2>3, <2>4, <2>5 DEF RulesIdempotent, ScriptAt, Tools
<1>6. CASE step >= 5
  <2>1. /\ rules'["ip6tables"] = Command(rules["ip6tables"], step - 4)
        /\ rules'["iptables"] = rules["iptables"] /\ step' = step + 1
    BY <1>1, <1>6 DEF InstallRule, ToolAt, Tools
  <2> DEFINE k == IF step - 4 <= m THEN m ELSE step - 4
  <2>2. Command(Stage(m), step - 4) = Stage(k)
    BY <1>1, <1>2, <1>4, <1>6, StageStep
  <2>3. k \in 0..5 /\ k >= step - 4
    BY <1>1, <1>2, <1>4, <1>6
  <2> HIDE DEF k
  <2>4. rules'["ip6tables"] = Stage(k) /\ rules'["iptables"] = Stage(n)
    BY <1>3, <1>4, <2>1, <2>2
  <2>5. n = 5 /\ k >= step' - 5
    BY <1>1, <1>3, <1>6, <2>1, <2>3
  <2> QED BY <2>1, <2>3, <2>4, <2>5 DEF RulesIdempotent, ScriptAt, Tools
<1> QED BY <1>1, <1>5, <1>6

\* A container that has ended is not active.
LEMMA Idle == active' = FALSE => ~active' /\ active' \in BOOLEAN
  OBVIOUS

\* Every step preserves the invariant.
LEMMA PodStep == PosInv /\ [Next]_vars => PosInv'
<1> SUFFICES ASSUME PosInv, [Next]_vars PROVE PosInv'
  OBVIOUS
<1>0. /\ input' = input /\ b' = b /\ o' = o /\ pod' = pod
      /\ Accepted' <=> Accepted
  BY PodFixed
<1>t. /\ input \in Inputs /\ at \in 1..(Len(pod.init) + 1)
      /\ Len(pod.init) \in Nat /\ DOMAIN rules = Tools
  BY PodInit DEF PosInv, TypeOK
<1>p. Accepted =>
        /\ o.role \in {"workload", "egress"} /\ Len(pod.init) >= 2
        /\ o.role = "workload" => Len(pod.init) >= 5
  BY <1>t, Order
<1> USE <1>0, <1>t, <1>p DEF PosInv, TypeOK, ScriptAt, LeftBehind, RunningAt, RulesIdempotent
<1>1. CASE StartInit
  <2>1. ~(o.role = "workload" /\ at = 3)
    BY <1>1, Order DEF StartInit
  <2> QED BY <1>1, <2>1 DEF StartInit, Trusted, Tools
<1>2. CASE BusinessInit
  <2>1. at > 2 /\ at <= Len(pod.init) /\ (o.role = "workload" => at > 5)
    BY <1>2, Turns DEF BusinessInit
  <2>2. ~active' /\ active' \in BOOLEAN
    BY <1>2, Idle DEF BusinessInit, Done
  <2>3. /\ at' = at + 1 /\ step' = step /\ proxy' = proxy /\ owned' = owned /\ rules' = rules
        /\ ca' = ca /\ base' = base /\ bundle' = bundle /\ faults' = faults /\ Accepted
    BY <1>2 DEF BusinessInit, Done
  <2> QED BY <2>1, <2>2, <2>3 DEF Trusted
<1>3. CASE PrepareVolumes
  <2>1. at = 1
    BY <1>3, Turns DEF PrepareVolumes
  <2>2. ~active' /\ active' \in BOOLEAN
    BY <1>3, Idle DEF PrepareVolumes, Done
  <2>3. /\ at' = 2 /\ step' = step /\ proxy' = proxy /\ rules' = rules /\ owned' \in BOOLEAN
        /\ ca' = ca /\ base' = base /\ bundle' = bundle /\ faults' = faults /\ Accepted
    BY <1>3, <2>1 DEF PrepareVolumes, Done
  <2> QED BY <2>1, <2>2, <2>3
<1>4. CASE InstallRule
  <2>1. at = 2
    BY <1>4, Turns DEF InstallRule
  <2>2. RulesIdempotent' /\ ScriptAt'
    BY <1>4, RuleStep
  <2>3. DOMAIN rules' = Tools /\ step' \in 0..10
    BY <1>4 DEF InstallRule
  <2> QED BY <1>4, <2>1, <2>2, <2>3 DEF InstallRule
<1>5. CASE RulesInstalled
  <2>1. at = 2 /\ step = 10 /\ active
    BY <1>5, Turns DEF RulesInstalled
  <2>2. rules["iptables"] = Stage(5) /\ rules["ip6tables"] = Stage(5)
    BY <2>1
  <2>3. ~active' /\ active' \in BOOLEAN
    BY <1>5, Idle DEF RulesInstalled, Done
  <2>4. /\ at' = 3 /\ step' = step /\ proxy' = proxy /\ owned' = owned /\ rules' = rules
        /\ ca' = ca /\ base' = base /\ bundle' = bundle /\ faults' = faults /\ Accepted
    BY <1>5, <2>1 DEF RulesInstalled, Done
  <2> QED BY <2>1, <2>2, <2>3, <2>4 DEF Tools
<1>6. CASE StartProxy
  <2>1. at > 2
    BY <1>6, Turns DEF StartProxy
  <2> QED BY <1>6, <2>1 DEF StartProxy, Trusted
<1>7. CASE Publish
  <2>1. o.role = "workload" => ca'
    BY <1>7 DEF Publish
  <2>2. ca' \in BOOLEAN
    BY <1>7 DEF Publish
  <2> QED BY <1>7, <2>1, <2>2 DEF Publish, Trusted
<1>8. CASE ProxyReady
  <2>1. CASE InitRuns("istio-proxy")
    <3>1. o.role = "workload" /\ at = 3 /\ at' = 4 /\ ~active /\ ca
      BY <1>8, <2>1, Turns DEF ProxyReady
    <3> QED BY <1>8, <3>1 DEF ProxyReady
  <2>2. CASE ~InitRuns("istio-proxy")
    BY <1>8, <2>2 DEF ProxyReady, Trusted
  <2> QED BY <2>1, <2>2
<1>9. CASE CopyPart
  <2>1. o.role = "workload" /\ at = 4
    BY <1>9, Turns DEF CopyPart
  <2> QED BY <1>9, <2>1 DEF CopyPart
<1>10. CASE CopyBase
  <2>1. o.role = "workload" /\ at = 4
    BY <1>10, Turns DEF CopyBase
  <2>2. ~active' /\ active' \in BOOLEAN
    BY <1>10, Idle DEF CopyBase, Done
  <2>3. /\ at' = 5 /\ step' = step /\ proxy' = proxy /\ owned' = owned /\ rules' = rules
        /\ base' = input.store /\ ca' = ca /\ bundle' = bundle /\ faults' = faults /\ Accepted
    BY <1>10, <2>1 DEF CopyBase, Done
  <2> QED BY <2>1, <2>2, <2>3
<1>11. CASE TrustInit
  <2>1. o.role = "workload" /\ at = 5 /\ base = input.store
    BY <1>11, Turns DEF TrustInit
  <2>2. Trusted'
    <3>1. IsList(base) /\ Bundle(base) /\ bundle' = Append(base, CA)
      BY <1>11, <2>1, PodInit DEF TrustInit
    <3>2. \A i \in DOMAIN bundle' : bundle'[i] \in Roots \union {CA}
      BY <3>1 DEF IsList, Bundle
    <3> QED BY <2>1, <3>1, <3>2 DEF Trusted
  <2>3. ~active' /\ active' \in BOOLEAN
    BY <1>11, Idle DEF TrustInit, Done
  <2>4. /\ at' = 6 /\ step' = step /\ proxy' = proxy /\ owned' = owned /\ rules' = rules
        /\ ca' = ca /\ base' = base /\ faults' = faults /\ Accepted
    BY <1>11, <2>1 DEF TrustInit, Done
  <2> QED BY <2>1, <2>2, <2>3, <2>4
<1>12. CASE TrustInitFails
  BY <1>12 DEF TrustInitFails, Trusted
<1>13. CASE InitDies
  <2>1. ~active' /\ active' \in BOOLEAN
    BY <1>13, Idle DEF InitDies
  <2>2. /\ faults' \in Nat /\ at' = at /\ step' = step /\ proxy' = proxy /\ owned' = owned
        /\ rules' = rules /\ ca' = ca /\ base' = base /\ bundle' = bundle
    BY <1>13 DEF InitDies
  <2> QED BY <2>1, <2>2 DEF Trusted
<1>14. CASE ProxyDies
  BY <1>14 DEF ProxyDies, Trusted
<1>15. CASE SandboxLost
  <2>1. \A t \in Tools : rules'[t] = Stage(0)
    BY <1>15 DEF SandboxLost, NoRules, Stage
  <2>2. ~active' /\ active' \in BOOLEAN
    BY <1>15, Idle DEF SandboxLost
  <2>3. /\ at' = 1 /\ proxy' = "down" /\ faults' \in Nat /\ DOMAIN rules' = Tools
        /\ step' = step /\ owned' = owned /\ ca' = ca /\ base' = base /\ bundle' = bundle
    BY <1>15 DEF SandboxLost
  <2> QED BY <2>1, <2>2, <2>3
<1>16. CASE UNCHANGED vars
  BY <1>16 DEF vars, Trusted
<1> QED BY <1>1, <1>2, <1>3, <1>4, <1>5, <1>6, <1>7, <1>8, <1>9, <1>10, <1>11, <1>12, <1>13,
           <1>14, <1>15, <1>16 DEF Next, RunInit, RunProxy

\* A Pod begins with nothing done.
LEMMA PodStarted == Init => PosInv
<1> SUFFICES ASSUME Init PROVE PosInv
  OBVIOUS
<1>1. Len(pod.init) \in Nat
  BY PodInit DEF Init
<1>2. \A t \in Tools : rules[t] = Stage(0)
  BY DEF Init, NoRules, Stage
<1>3. /\ ~active /\ active \in BOOLEAN /\ owned \in BOOLEAN /\ ca \in BOOLEAN
  BY Zenon DEF Init
<1>4. /\ input \in Inputs /\ at = 1 /\ step = 0 /\ proxy = "down" /\ faults = 0
      /\ DOMAIN rules = Tools
  BY DEF Init
<1> QED BY <1>1, <1>2, <1>3, <1>4
        DEF PosInv, TypeOK, RulesIdempotent, ScriptAt, LeftBehind, RunningAt

\* Every state of a starting Pod satisfies the invariant with positions.
THEOREM Positions == Spec => []PosInv
BY PodStarted, PodStep, PTL DEF Spec

\* And the one with names.
THEOREM PodIndInv == Spec => []IndInv
BY Positions, PositionsNamed, PTL

\* Any interruption of the script leaves the rules of a prefix of it.
THEOREM Idempotence == Spec => []RulesIdempotent
<1>1. PosInv => RulesIdempotent
  BY DEF PosInv
<1> QED BY <1>1, Positions, PTL

\* The complete rules let the proxy pass and nobody else.
LEMMA Complete ==
    ASSUME Accepted, \A t \in Tools : rules[t] = Stage(5)
    PROVE  Shielded
<1> SUFFICES ASSUME NEW t \in Tools
             PROVE  /\ RemoteRejected(t) /\ ~LocalRejected(t, Proxy)
                    /\ \A k \in Business : LocalRejected(t, k.uid)
  BY DEF Shielded
<1>1. /\ rules[t].chain = <<"return", "reject">> /\ rules[t].output = <<"jump">>
      /\ rules[t].input = <<"reject">>
  BY DEF Stage
<1>2. RemoteRejected(t) /\ ~LocalRejected(t, Proxy)
  BY <1>1 DEF RemoteRejected, LocalRejected, Holds
<1>3. \A u : u # Proxy => LocalRejected(t, u)
  BY <1>1 DEF LocalRejected, Holds
<1>4. \A k \in Business : k.uid # Proxy
  BY DEF Business, Accepted, ComposeAccepts, ProtectBusiness
<1> QED BY <1>2, <1>3, <1>4

\* The management ports of a running proxy are shielded.
THEOREM Shield == Spec => []ManagementShielded
<1>1. PosInv => ManagementShielded
  BY Complete DEF PosInv, RunningAt, LeftBehind, ManagementShielded
<1> QED BY <1>1, Positions, PTL

\* No business container runs before the rules and the bundle are complete.
THEOREM Protection == Spec => []BusinessProtected
<1>1. ASSUME PosInv, BusinessRuns
      PROVE  Shielded /\ (o.role = "workload" => ca /\ Trusted)
  <2>1. input \in Inputs /\ Accepted /\ at \in 1..(Len(pod.init) + 1)
    BY <1>1 DEF PosInv, TypeOK, BusinessRuns
  <2>2. at > 2 /\ (o.role = "workload" => at > 5)
    BY <1>1, <2>1, Order, Turns DEF BusinessRuns
  <2> QED BY <1>1, <2>1, <2>2, Complete DEF PosInv, LeftBehind
<1>2. PosInv => BusinessProtected
  BY <1>1 DEF BusinessProtected
<1> QED BY <1>2, Positions, PTL
=============================================================================
