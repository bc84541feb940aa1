----------------------------- MODULE PodStartup -----------------------------
(***************************************************************************)
(* The start of an enrolled Pod: the containers Enrollment composed, run   *)
(* in order, with image/management-init.sh command by command and the      *)
(* trust containers.  Any of them may be killed at any point, the proxy at *)
(* any time, and the whole Pod sandbox may be lost with its network rules, *)
(* while the volumes stay.                                                 *)
(*                                                                         *)
(* A trust store is a sequence of PEM blocks; the inspection CA is one     *)
(* certificate, which InspectionCA shows to be stable.                     *)
(***************************************************************************)
EXTENDS Enrollment

CONSTANTS
    Inputs,     \* business Pods with their enrolment options and trust image
    Roots,      \* certificates; other PEM blocks are damaged or something else
    MaxFaults   \* bound on kills, probe timeouts and lost sandboxes

ASSUME FaultsAssumption == MaxFaults \in Nat

\* The init containers of a Pod and the blocks of a trust store are lists.
IsList(s) == s \in Seq({s[j] : j \in DOMAIN s})
ASSUME InputsAssumption == \A i \in Inputs : IsList(i.business.init) /\ IsList(i.store)

\* No two containers of a Pod have one name.
IsContainer(k) == k \in [name : {k.name}, uid : {k.uid}, mounts : {k.mounts}]
ASSUME ContainersAssumption ==
    \A i \in Inputs : \A k \in i.business.containers :
        /\ IsContainer(k)
        /\ \A l \in i.business.containers : k.name = l.name => k = l

VARIABLES
    input,   \* business Pod, options and the store in the trust image
    at,      \* the init container whose turn it is; past the last, the containers run
    active,  \* has it been started?
    step,    \* its progress: commands of the script done, is the copy complete?
    proxy,   \* istio-proxy: "down", "starting", "published" or "ready"
    owned,   \* do the volumes belong to the proxy?
    rules,   \* the management rules of each tool
    ca,      \* is the inspection CA published?
    base,    \* base.pem on the bundle volume
    bundle,  \* ca-bundle.pem
    faults

vars == <<input, at, active, step, proxy, owned, rules, ca, base, bundle, faults>>

b == input.business
o == input.options
Accepted == ComposeAccepts(b, o)
pod == ComposePod(b, o)
InitRuns(name) == at <= Len(pod.init) /\ pod.init[at].name = name

CA == "inspection-ca"
Tools == {"iptables", "ip6tables"}
Chain == "GATEWAY_MANAGEMENT"
NoRules == [chains |-> {}, chain |-> <<>>, output |-> <<>>, input |-> <<>>]

Init ==
    /\ input \in Inputs
    /\ at = 1 /\ active = FALSE /\ step = 0
    /\ proxy = "down"
    /\ owned = FALSE
    /\ rules = [t \in Tools |-> NoRules]
    /\ ca = FALSE /\ base = <<>> /\ bundle = <<>>
    /\ faults = 0

-----------------------------------------------------------------------------
(* The kubelet. *)

\* The next init container is started when the one before has ended; the
\* proxy's is a sidecar and started by StartProxy.
StartInit ==
    /\ Accepted /\ at <= Len(pod.init) /\ ~active
    /\ pod.init[at].name # "istio-proxy"
    /\ active' = TRUE /\ step' = 0
    /\ UNCHANGED <<input, at, proxy, owned, rules, ca, base, bundle, faults>>

Done == at' = at + 1 /\ active' = FALSE

\* A business init container ends.
BusinessInit ==
    /\ Accepted /\ active
    /\ \E i \in DOMAIN b.init : InitRuns(b.init[i].name)
    /\ Done
    /\ UNCHANGED <<input, step, proxy, owned, rules, ca, base, bundle, faults>>

\* The init container whose turn it is dies and will be started again.
InitDies ==
    /\ active /\ active' = FALSE
    /\ faults < MaxFaults /\ faults' = faults + 1
    /\ UNCHANGED <<input, at, step, proxy, owned, rules, ca, base, bundle>>

\* The proxy dies or is killed by its probe; restartPolicy Always starts it again.
ProxyDies ==
    /\ proxy # "down" /\ proxy' = "down"
    /\ faults < MaxFaults /\ faults' = faults + 1
    /\ UNCHANGED <<input, at, active, step, owned, rules, ca, base, bundle>>

\* The sandbox is lost: the network namespace goes, the emptyDir volumes stay.
SandboxLost ==
    /\ Accepted
    /\ faults < MaxFaults /\ faults' = faults + 1
    /\ at' = 1 /\ active' = FALSE /\ proxy' = "down"
    /\ rules' = [t \in Tools |-> NoRules]
    /\ UNCHANGED <<input, step, owned, ca, base, bundle>>

-----------------------------------------------------------------------------
(* prepare-volumes and management-init. *)

PrepareVolumes ==
    /\ Accepted /\ active /\ InitRuns("prepare-volumes")
    /\ owned' = TRUE
    /\ Done
    /\ UNCHANGED <<input, step, proxy, rules, ca, base, bundle, faults>>

\* -C || -A, where the order of two different rules matters, and -C || -I 1.
Holds(s, r) == \E i \in DOMAIN s : s[i] = r
AlwaysAppended(s, r) == Append(s, r)
Appended(s, r) == IF Holds(s, r) THEN s ELSE Append(s, r)
Inserted(s, r) == IF Holds(s, r) THEN s ELSE <<r>> \o s

\* -N || -S: a chain that exists is kept.
CreateOnly(r) == Chain \notin r.chains
Creates(r) == TRUE

\* One command for one tool.
Command(r, n) ==
    CASE n = 1 -> [r EXCEPT !.chains = @ \union {Chain}]
      [] n = 2 -> [r EXCEPT !.chain = Appended(@, "return")]
      [] n = 3 -> [r EXCEPT !.chain = Appended(@, "reject")]
      [] n = 4 -> [r EXCEPT !.output = Inserted(@, "jump")]
      [] n = 5 -> [r EXCEPT !.input = Inserted(@, "reject")]

ToolAt(n) == IF n < 5 THEN "iptables" ELSE "ip6tables"
InstallRule ==
    /\ Accepted /\ active /\ InitRuns("management-init")
    /\ step < 10 /\ step' = step + 1
    /\ LET t == ToolAt(step)
           n == IF step < 5 THEN step + 1 ELSE step - 4
       IN /\ n = 1 => Creates(rules[t])
          /\ rules' = [rules EXCEPT ![t] = Command(@, n)]
    /\ UNCHANGED <<input, at, active, proxy, owned, ca, base, bundle, faults>>

RulesInstalled ==
    /\ Accepted /\ active /\ InitRuns("management-init")
    /\ step = 10
    /\ Done
    /\ UNCHANGED <<input, step, proxy, owned, rules, ca, base, bundle, faults>>

-----------------------------------------------------------------------------
(* istio-proxy. *)

\* In its turn, again after it died, or beside the business containers.
ProxyMayRun ==
    \/ \E i \in DOMAIN pod.init : i <= at /\ pod.init[i].name = "istio-proxy"
    \/ at > Len(pod.init) /\ \E k \in pod.containers : k.name = "istio-proxy"

StartProxy ==
    /\ Accepted /\ proxy = "down" /\ ProxyMayRun
    /\ LoadAccepts(pod.env)
    /\ proxy' = "starting"
    /\ UNCHANGED <<input, at, active, step, owned, rules, ca, base, bundle, faults>>

\* The workload role opens its CA in the private directory and publishes it.
Publish ==
    /\ proxy = "starting" /\ owned
    /\ proxy' = "published"
    /\ ca' = (ca \/ o.role = "workload")
    /\ UNCHANGED <<input, at, active, step, owned, rules, base, bundle, faults>>

\* The probe succeeds; as startup probe it lets the next init container run.
ProxyReady ==
    /\ proxy = "published"
    /\ proxy' = "ready"
    /\ at' = IF InitRuns("istio-proxy") THEN at + 1 ELSE at
    /\ UNCHANGED <<input, active, step, owned, rules, ca, base, bundle, faults>>

-----------------------------------------------------------------------------
(* base-trust and trust-init. *)

\* cp truncates the file and writes in place, a part at a time: none or some of the
\* blocks, whole or the last one torn.
CopyPart ==
    /\ Accepted /\ active /\ InitRuns("base-trust") /\ step = 0
    /\ \E n \in 1..Len(input.store), tail \in {<<>>, <<"torn">>} :
          base' = SubSeq(input.store, 1, n - 1) \o tail
    /\ UNCHANGED <<input, at, active, step, proxy, owned, rules, ca, bundle, faults>>

CopyBase ==
    /\ Accepted /\ active /\ InitRuns("base-trust")
    /\ base' = input.store
    /\ Done
    /\ UNCHANGED <<input, step, proxy, owned, rules, ca, bundle, faults>>

\* Bundle accepts a store of certificates only, with at least one.
Bundle(s) == s # <<>> /\ \A i \in DOMAIN s : s[i] \in Roots

\* trust-init: the bundle is written atomically, or the command fails.
TrustInit ==
    /\ Accepted /\ active /\ InitRuns("trust-init")
    /\ Bundle(base) /\ ca
    /\ bundle' = Append(base, CA)
    /\ Done
    /\ UNCHANGED <<input, step, proxy, owned, rules, ca, base, faults>>

TrustInitFails ==
    /\ Accepted /\ active /\ InitRuns("trust-init")
    /\ ~(Bundle(base) /\ ca)
    /\ active' = FALSE
    /\ UNCHANGED <<input, at, step, proxy, owned, rules, ca, base, bundle, faults>>

RunInit ==
    \/ StartInit \/ BusinessInit \/ PrepareVolumes \/ InstallRule \/ RulesInstalled
    \/ CopyBase \/ TrustInit \/ TrustInitFails
RunProxy == StartProxy \/ Publish \/ ProxyReady
Next == RunInit \/ RunProxy \/ CopyPart \/ InitDies \/ ProxyDies \/ SandboxLost

Spec == Init /\ [][Next]_vars

\* The kubelet starts what is to be started, and what runs makes progress.
FairSpec == Spec /\ WF_vars(RunInit) /\ WF_vars(RunProxy)

-----------------------------------------------------------------------------
(* Properties. *)

\* The rules after the first n commands of an undisturbed run of the script.
Stage(n) ==
    [chains |-> IF n >= 1 THEN {Chain} ELSE {},
     chain |-> IF n >= 3 THEN <<"return", "reject">> ELSE IF n = 2 THEN <<"return">> ELSE <<>>,
     output |-> IF n >= 4 THEN <<"jump">> ELSE <<>>,
     input |-> IF n >= 5 THEN <<"reject">> ELSE <<>>]

\* The type of every variable.
TypeOK ==
    /\ input \in Inputs
    /\ at \in 1..(Len(pod.init) + 1)
    /\ active \in BOOLEAN /\ owned \in BOOLEAN /\ ca \in BOOLEAN
    /\ step \in 0..10
    /\ proxy \in {"down", "starting", "published", "ready"}
    /\ DOMAIN rules = Tools
    /\ faults \in Nat

\* However often management-init is interrupted and run again, the rules of each tool
\* are those of some prefix of one undisturbed run: no rule is doubled, and none that
\* diverts traffic to the chain comes before the rules of the chain.
RulesIdempotent == \A t \in Tools : \E n \in 0..5 : rules[t] = Stage(n)

\* What becomes of a packet to a management port from a local process or from outside.
LocalRejected(t, uid) ==
    /\ Holds(rules[t].output, "jump")
    /\ \E i \in DOMAIN rules[t].chain :
          /\ rules[t].chain[i] = "reject"
          /\ \A j \in 1..(i - 1) : ~(rules[t].chain[j] = "return" /\ uid = Proxy)
RemoteRejected(t) == Holds(rules[t].input, "reject")

Business == {b.init[i] : i \in DOMAIN b.init} \union b.containers
Shielded ==
    \A t \in Tools :
        /\ RemoteRejected(t) /\ ~LocalRejected(t, Proxy)
        /\ \A k \in Business : LocalRejected(t, k.uid)

\* While the proxy runs, its management ports are closed to the business containers and
\* to other Pods, for IPv4 and IPv6, and open to itself.
ManagementShielded == proxy # "down" => Shielded

\* The bundle is complete and nothing in it is damaged.
Trusted ==
    /\ bundle = Append(input.store, CA)
    /\ \A i \in DOMAIN bundle : bundle[i] \in Roots \union {CA}

\* When any business container runs, the management ports are shielded, and a workload
\* finds the complete bundle: the store of its image and the published inspection CA.
BusinessRuns ==
    /\ Accepted
    /\ \/ at > Len(pod.init)
       \/ active /\ \E i \in DOMAIN b.init : InitRuns(b.init[i].name)
BusinessProtected ==
    BusinessRuns =>
        /\ Shielded
        /\ o.role = "workload" => ca /\ Trusted

\* The containers of the business share no writable volume with the gateway and no
\* identity: of its volumes they see the bundle, read-only and not hidden by another mount.
ProxyContainers ==
    {k \in {pod.init[i] : i \in DOMAIN pod.init} \union pod.containers : k.name = "istio-proxy"}
GatewayVolumes == UNION {{m.volume : m \in k.mounts} :
                           k \in {ManagedInit[i] : i \in DOMAIN ManagedInit} \union ProxyContainers}
BusinessIsolated ==
    Accepted =>
        \A k \in {pod.init[i] : i \in DOMAIN pod.init} \union pod.containers :
            (\E l \in Business : l.name = k.name) =>
                /\ k.uid # Proxy
                /\ \A m \in k.mounts : m.volume \in GatewayVolumes =>
                      /\ m.volume = "bundle" /\ m.readOnly
                      /\ \A n \in k.mounts : n.at = m.at => n = m

\* The environment the proxy is given is one the daemon accepts, for the role of the
\* Pod, and its directories are writable volumes of its own, each on another one.
ProxyConfigured ==
    Accepted /\ LoadTracingAccepts(o.otel) =>
        LET config == Load(pod.env)
            volumeAt(dir) == {m.volume : m \in {n \in ProxyMounts : n.at = dir /\ ~n.readOnly}}
        IN /\ LoadAccepts(pod.env)
           /\ config.role = o.role /\ config.mode = "istio"
           /\ volumeAt(config.state) = {"state"} /\ volumeAt(config.runtime) = {"runtime"}
           /\ volumeAt(config.public) = {"public"}

\* With finitely many failures, a Pod that is composed of a valid store and a valid
\* tracing configuration is up in the end, and stays up.
Startable ==
    /\ Accepted /\ LoadTracingAccepts(o.otel)
    /\ o.role = "workload" => Bundle(input.store)
PodStarts == Startable => <>[](at > Len(pod.init) /\ proxy = "ready")

-----------------------------------------------------------------------------
(* The inductive invariant behind the safety properties. *)

Passed(name) == \E i \in 1..(at - 1) : i <= Len(pod.init) /\ pod.init[i].name = name

\* A run of the script has brought the rules at least as far as it has come itself.
ScriptProgress ==
    active /\ InitRuns("management-init") =>
        /\ \E n \in 0..5 : (n >= step \/ n = 5) /\ rules["iptables"] = Stage(n)
        /\ \E n \in 0..5 : n >= step - 5 /\ rules["ip6tables"] = Stage(n)

\* What the containers that have had their turn have left behind.
TurnsTaken ==
    /\ Passed("management-init") => \A t \in Tools : rules[t] = Stage(5)
    /\ Passed("istio-proxy") => ca
    /\ Passed("base-trust") => base = input.store
    /\ Passed("trust-init") => Trusted
Running ==
    /\ active => Accepted /\ at <= Len(pod.init) /\ ~InitRuns("istio-proxy")
    /\ at > 1 => Accepted
    /\ proxy # "down" => Accepted /\ Passed("management-init")
    /\ proxy \in {"published", "ready"} /\ o.role = "workload" => ca

IndInv == TypeOK /\ RulesIdempotent /\ ScriptProgress /\ TurnsTaken /\ Running
=============================================================================
