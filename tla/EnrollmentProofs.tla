--------------------------- MODULE EnrollmentProofs ---------------------------
(***************************************************************************)
(* What ComposePod makes of a business Pod, proved for any Pod and any     *)
(* options it accepts: the containers of the business stay apart from the  *)
(* gateway, and the proxy gets an environment the daemon accepts.          *)
(***************************************************************************)
EXTENDS PodStartupProofs

-----------------------------------------------------------------------------
(* The containers of the composed Pod. *)

\* Every init container is one of managed.json or one of the business.
LEMMA InitFrom ==
    ASSUME input \in Inputs
    PROVE  \A i \in DOMAIN pod.init :
              \/ \E j \in 1..5 : pod.init[i] = Equipped(Managed[j], o)
              \/ \E j \in DOMAIN b.init : pod.init[i] = b.init[j]
<1> DEFINE T == TrustedInit(o)
<1>1. Len(T) <= 5 /\ \A i \in 1..Len(T) : i \in 1..5 /\ T[i] = Equipped(Managed[i], o)
  <2>1. CASE o.role = "egress"
    <3>1. Len(T) = 2 /\ \A i \in 1..2 : T[i] = Equipped(Managed[i], o)
      BY <2>1, EgressInit
    <3> HIDE DEF T
    <3> QED BY <3>1
  <2>2. CASE o.role # "egress"
    <3>1. Len(T) = 5 /\ \A i \in 1..5 : T[i] = Equipped(Managed[i], o)
      BY <2>2, WorkloadInit
    <3> HIDE DEF T
    <3> QED BY <3>1
  <2> QED BY <2>1, <2>2
<1> HIDE DEF T
<1>2. pod.init = T \o b.init /\ IsList(T) /\ IsList(b.init)
  BY PodInit DEF T
<1>3. /\ Len(T) \in Nat /\ Len(b.init) \in Nat
      /\ DOMAIN pod.init = 1..(Len(T) + Len(b.init))
      /\ \A i \in 1..Len(T) : pod.init[i] = T[i]
      /\ \A i \in (Len(T) + 1)..(Len(T) + Len(b.init)) :
            i - Len(T) \in DOMAIN b.init /\ pod.init[i] = b.init[i - Len(T)]
  BY <1>2, Joined
<1> SUFFICES ASSUME NEW i \in DOMAIN pod.init
             PROVE  \/ \E j \in 1..5 : pod.init[i] = Equipped(Managed[j], o)
                    \/ \E j \in DOMAIN b.init : pod.init[i] = b.init[j]
  OBVIOUS
<1>4. i \in 1..Len(T) \/ i \in (Len(T) + 1)..(Len(T) + Len(b.init))
  BY <1>3
<1>5. CASE i \in 1..Len(T)
  BY <1>1, <1>3, <1>5
<1>6. CASE i \in (Len(T) + 1)..(Len(T) + Len(b.init))
  BY <1>3, <1>6
<1> QED BY <1>4, <1>5, <1>6

\* What protectBusiness asks of every container of the business.
LEMMA BusinessRefused ==
    ASSUME Accepted, NEW k \in Business
    PROVE  /\ \A j \in 1..5 : k.name # Managed[j].name
           /\ k.uid # Proxy
           /\ \A m \in k.mounts : m.volume \notin ReservedVolumes
<1>1. /\ \A j \in DOMAIN Managed : k.name # Managed[j].name
      /\ k.uid # Proxy
      /\ \A m \in k.mounts : m.volume \notin ReservedVolumes
  BY DEF Accepted, ComposeAccepts, ProtectBusiness, Business
<1> QED BY <1>1, ManagedNames

\* A trust mount leaves the name and the identity of a container alone and adds the
\* bundle, read-only.
LEMMA TrustAdded ==
    ASSUME NEW k, IsContainer(k)
    PROVE  /\ WithTrust(k, o).name = k.name /\ WithTrust(k, o).uid = k.uid
           /\ k.name \notin DOMAIN o.trustMounts => WithTrust(k, o).mounts = k.mounts
           /\ k.name \in DOMAIN o.trustMounts =>
                 WithTrust(k, o).mounts =
                    k.mounts \union {[volume |-> "bundle", at |-> o.trustMounts[k.name],
                                      readOnly |-> TRUE]}
<1> DEFINE added == {[volume |-> "bundle", at |-> o.trustMounts[k.name], readOnly |-> TRUE]}
<1> HIDE DEF added
<1>1. WithTrust(k, o) = IF k.name \in DOMAIN o.trustMounts
                        THEN [k EXCEPT !.mounts = @ \union added] ELSE k
  BY DEF WithTrust, added
<1>2. k = [name |-> k.name, uid |-> k.uid, mounts |-> k.mounts]
  BY DEF IsContainer
<1>3. /\ [k EXCEPT !.mounts = @ \union added].name = k.name
      /\ [k EXCEPT !.mounts = @ \union added].uid = k.uid
      /\ [k EXCEPT !.mounts = @ \union added].mounts = k.mounts \union added
  BY <1>2
<1> QED BY <1>1, <1>3 DEF added

\* The containers of managed.json mount volumes of managed.json.
LEMMA ManagedMounts == \A j \in 1..5 : \A m \in Managed[j].mounts : m.volume \in ReservedVolumes
<1>1. \A m \in Managed[1].mounts : m.volume \in PreparedVolumes
  <2>1. Managed[1].mounts = {Mount(v, <<v>>) : v \in PreparedVolumes}
    BY DEF Managed, Container
  <2>2. \A v : Mount(v, <<v>>).volume = v
    BY DEF Mount
  <2> QED BY <2>1, <2>2
<1>2. Managed[2].mounts = {}
  BY DEF Managed, Container
<1>3. \A m \in Managed[3].mounts : m.volume \in ManagedVolumes
  BY DEF Managed, Container, ProxyMounts, Mount, ReadOnly, ManagedVolumes, PreparedVolumes
<1>4. \A m \in Managed[4].mounts \union Managed[5].mounts : m.volume \in ManagedVolumes
  BY DEF Managed, Container, Mount, ReadOnly, ManagedVolumes, PreparedVolumes
<1>5. PreparedVolumes \subseteq ManagedVolumes /\ ManagedVolumes \subseteq ReservedVolumes
  BY DEF ManagedVolumes, ReservedVolumes
<1> QED BY <1>1, <1>2, <1>3, <1>4, <1>5

\* So do they with the optional ConfigMaps.
LEMMA EquippedMounts ==
    \A j \in 1..5 : \A m \in Equipped(Managed[j], o).mounts : m.volume \in ReservedVolumes
<1>1. \A m \in OptionalMounts(o) : m.volume \in ReservedVolumes
  BY DEF OptionalMounts, ReadOnly, Mount, ReservedVolumes
<1> SUFFICES ASSUME NEW j \in 1..5, NEW m \in Equipped(Managed[j], o).mounts
             PROVE  m.volume \in ReservedVolumes
  OBVIOUS
<1>2. Equipped(Managed[j], o).mounts \subseteq Managed[j].mounts \union OptionalMounts(o)
  BY DEF Equipped, Managed, Container
<1> QED BY <1>1, <1>2, ManagedMounts

\* A container of the Pod that is not one of the init containers.
LEMMA ContainersFrom ==
    ASSUME NEW k \in pod.containers
    PROVE  k = Equipped(Managed[3], o) \/ \E c \in b.containers : k = WithTrust(c, o)
BY DEF pod, ComposePod, TrustedContainers

\* Of all volumes the gateway uses only those it reserves.
LEMMA GatewayReserved ==
    ASSUME input \in Inputs, Accepted
    PROVE  GatewayVolumes \subseteq ReservedVolumes
<1>1. ASSUME NEW k \in ProxyContainers
      PROVE  \A m \in k.mounts : m.volume \in ReservedVolumes
  <2>1. k.name = "istio-proxy"
    BY <1>1 DEF ProxyContainers
  <2>2. CASE \E j \in 1..5 : k = Equipped(Managed[j], o)
    BY <2>2, EquippedMounts
  <2>3. ~\E j \in DOMAIN b.init : k = b.init[j]
    BY <2>1, BusinessNames
  <2>4. ~\E c \in b.containers : k = WithTrust(c, o)
    <3> SUFFICES ASSUME NEW c \in b.containers PROVE WithTrust(c, o).name # "istio-proxy"
      BY <2>1
    <3>1. IsContainer(c)
      BY ContainersAssumption DEF b
    <3>2. c.name # "istio-proxy"
      BY BusinessRefused, ManagedNames DEF Business
    <3> QED BY <3>1, <3>2, TrustAdded
  <2>5. (\E i \in DOMAIN pod.init : k = pod.init[i]) \/ k \in pod.containers
    BY <1>1 DEF ProxyContainers
  <2> QED BY <2>2, <2>3, <2>4, <2>5, InitFrom, ContainersFrom
<1>2. \A i \in DOMAIN ManagedInit : \A m \in ManagedInit[i].mounts : m.volume \in ReservedVolumes
  BY ManagedMounts, ManagedNames DEF ManagedInit
<1> QED BY <1>1, <1>2 DEF GatewayVolumes

\* A container with a trust mount: it hides nothing and nothing hides it.
LEMMA TrustMounted ==
    ASSUME input \in Inputs, Accepted, NEW c \in b.containers,
           NEW m \in WithTrust(c, o).mounts, m.volume \in ReservedVolumes
    PROVE  /\ m.volume = "bundle" /\ m.readOnly
           /\ \A n \in WithTrust(c, o).mounts : n.at = m.at => n = m
<1> DEFINE t == [volume |-> "bundle", at |-> o.trustMounts[c.name], readOnly |-> TRUE]
<1>1. IsContainer(c)
  BY ContainersAssumption DEF b
<1>2. \A n \in c.mounts : n.volume \notin ReservedVolumes
  BY BusinessRefused DEF Business
<1>3. c.name \in DOMAIN o.trustMounts /\ WithTrust(c, o).mounts = c.mounts \union {t}
  BY <1>1, <1>2, TrustAdded
<1>4. t.volume = "bundle" /\ t.readOnly /\ t.at = o.trustMounts[c.name]
  OBVIOUS
<1> HIDE DEF t
<1>5. m = t
  BY <1>2, <1>3
<1>6. \A n \in c.mounts : n.at # o.trustMounts[c.name]
  <2>1. PICK k \in b.containers :
           k.name = c.name /\ \A n \in k.mounts : n.at # o.trustMounts[c.name]
    BY <1>3 DEF Accepted, ComposeAccepts, TrustMountValid
  <2>2. k = c
    BY <2>1, ContainersAssumption DEF b
  <2> QED BY <2>1, <2>2
<1> QED BY <1>3, <1>4, <1>5, <1>6

\* The business of every accepted Pod is isolated, whatever it runs and mounts.
LEMMA Isolated == input \in Inputs => BusinessIsolated
<1> DEFINE Apart1(k) == /\ k.uid # Proxy
                        /\ \A m \in k.mounts : m.volume \in GatewayVolumes =>
                              /\ m.volume = "bundle" /\ m.readOnly
                              /\ \A n \in k.mounts : n.at = m.at => n = m
<1> SUFFICES ASSUME input \in Inputs, Accepted,
                    NEW k \in {pod.init[i] : i \in DOMAIN pod.init} \union pod.containers,
                    NEW l \in Business, l.name = k.name
             PROVE  Apart1(k)
  BY DEF BusinessIsolated
<1>1. \A j \in 1..5 : k # Equipped(Managed[j], o)
  BY EquippedNames, BusinessRefused
<1>2. GatewayVolumes \subseteq ReservedVolumes
  BY GatewayReserved
<1>3. CASE k \in Business
  BY <1>2, <1>3, BusinessRefused
<1>4. ASSUME NEW c \in b.containers, k = WithTrust(c, o)
      PROVE  Apart1(k)
  <2>1. k.uid # Proxy
    <3>1. IsContainer(c) /\ c \in Business
      BY ContainersAssumption DEF b, Business
    <3> QED BY <1>4, <3>1, TrustAdded, BusinessRefused
  <2>2. \A m \in k.mounts : m.volume \in ReservedVolumes =>
            /\ m.volume = "bundle" /\ m.readOnly
            /\ \A n \in k.mounts : n.at = m.at => n = m
    BY <1>4, TrustMounted
  <2> QED BY <1>2, <2>1, <2>2
<1>5. k \in Business \/ \E c \in b.containers : k = WithTrust(c, o)
  BY <1>1, InitFrom, ContainersFrom DEF Business
<1> HIDE DEF Apart1
<1> QED BY <1>3, <1>4, <1>5

\* In every state, the containers of the business share no writable volume and no
\* identity with the gateway.
THEOREM Isolation == Spec => []BusinessIsolated
<1>1. PosInv => BusinessIsolated
  BY Isolated DEF PosInv, TypeOK
<1> QED BY <1>1, Positions, PTL

-----------------------------------------------------------------------------
(* The environment of the proxy. *)

\* No option of an accepted Pod overrides what the daemon reads.
LEMMA NotOverridden ==
    ASSUME Accepted
    PROVE  /\ \A v \in GatewayVars : \A set : EnvValue(o, v, set) = set
           /\ ~\E e \in o.proxyEnv : e.name = "GATEWAY_WORKLOAD_CONFIG"
<1>1. \A e \in o.proxyEnv : e.name \notin GatewayNames
  BY DEF Accepted, ComposeAccepts, EnvAllowed
<1>2. \A v \in GatewayVars : EnvName[v] \in GatewayNames
  BY DEF GatewayNames
<1>3. "GATEWAY_WORKLOAD_CONFIG" \in GatewayNames
  BY DEF GatewayNames
<1> QED BY <1>1, <1>2, <1>3 DEF EnvValue

\* So the daemon finds the role, the mode of Istio and nothing else.
LEMMA EnvGiven ==
    ASSUME Accepted
    PROVE  /\ pod.env.role = o.role /\ pod.env.mode = "istio"
           /\ pod.env.identity = Unset /\ pod.env.opa = Unset /\ pod.env.envoy = Unset
           /\ pod.env.state = Unset /\ pod.env.public = Unset /\ pod.env.runtime = Unset
           /\ ~pod.env.workloadConfig /\ pod.env.otel = o.otel
<1>1. pod.env = ProxyEnv(o)
  BY DEF pod, ComposePod
<1>2. /\ ProxyEnv(o).role = o.role /\ ProxyEnv(o).mode = "istio"
      /\ ProxyEnv(o).identity = Unset /\ ProxyEnv(o).opa = Unset /\ ProxyEnv(o).envoy = Unset
      /\ ProxyEnv(o).state = Unset /\ ProxyEnv(o).public = Unset /\ ProxyEnv(o).runtime = Unset
  BY NotOverridden DEF ProxyEnv, GatewayVars
<1>3. ~ProxyEnv(o).workloadConfig /\ ProxyEnv(o).otel = o.otel
  BY NotOverridden DEF ProxyEnv
<1> QED BY <1>1, <1>2, <1>3

\* config.Load fills in its defaults.
LEMMA Loaded ==
    ASSUME Accepted
    PROVE  LET config == Load(pod.env)
           IN /\ config.role = o.role /\ config.mode = "istio"
              /\ config.identity = "istio-mtls" /\ config.envoy = Unset
              /\ config.opa = At(<<"etc", "gateway", "opa", o.role>>)
              /\ config.state = At(<<"var", "lib", "gateway", "private">>)
              /\ config.public = At(<<"run", "gateway", "trust">>)
              /\ config.runtime = At(<<"run", "gateway", "private">>)
<1>1. o.role \in {"workload", "egress"}
  BY DEF Accepted, ComposeAccepts
<1>2. Or(o.role, "workload") = o.role /\ Or("istio", "istio") = "istio"
  BY <1>1, ValuesAssumption DEF Or
<1>3. \A v : Or(Unset, v) = v
  BY DEF Or
<1> QED BY <1>2, <1>3, EnvGiven DEF Load

\* The three directories of the daemon are apart.
LEMMA DirectoriesApart ==
    ASSUME NEW c, c.state = At(<<"var", "lib", "gateway", "private">>),
           c.public = At(<<"run", "gateway", "trust">>),
           c.runtime = At(<<"run", "gateway", "private">>)
    PROVE  Apart(c)
<1>1. /\ c.state.segs = <<"var", "lib", "gateway", "private">>
      /\ c.public.segs = <<"run", "gateway", "trust">>
      /\ c.runtime.segs = <<"run", "gateway", "private">>
  BY DEF At
<1>2. /\ Len(c.state.segs) = 4 /\ Len(c.public.segs) = 3 /\ Len(c.runtime.segs) = 3
      /\ c.state.segs[1] = "var" /\ c.public.segs[1] = "run" /\ c.runtime.segs[1] = "run"
      /\ c.public.segs[3] = "trust" /\ c.runtime.segs[3] = "private"
  BY <1>1
<1>3. /\ \A p, q : Len(p.segs) >= 1 /\ Len(p.segs) \in Nat /\ p.segs[1] # q.segs[1] => ~Contains(p, q)
      /\ \A p, q : Len(p.segs) = 3 /\ p.segs[3] # q.segs[3] => ~Contains(p, q)
  BY DEF Contains
<1>4. /\ ~Contains(c.state, c.runtime) /\ ~Contains(c.state, c.public)
      /\ ~Contains(c.runtime, c.state) /\ ~Contains(c.public, c.state)
  BY <1>2, <1>3
<1>5. ~Contains(c.runtime, c.public) /\ ~Contains(c.public, c.runtime)
  BY <1>2, <1>3
<1> QED BY <1>4, <1>5 DEF Apart

\* The daemon accepts it, unless the tracing options are wrong.
LEMMA LoadSucceeds ==
    ASSUME Accepted, LoadTracingAccepts(o.otel)
    PROVE  LoadAccepts(pod.env)
<1> DEFINE c == Load(pod.env)
<1>1. o.role \in {"workload", "egress"}
  BY DEF Accepted, ComposeAccepts
<1>2. \A v \in GatewayVars : pod.env[v] # Empty
  BY <1>1, EnvGiven, ValuesAssumption DEF GatewayVars
<1>3. /\ c.role = o.role /\ c.mode = "istio"
      /\ c.identity = "istio-mtls" /\ c.envoy = Unset
      /\ c.opa = At(<<"etc", "gateway", "opa", o.role>>)
      /\ c.state = At(<<"var", "lib", "gateway", "private">>)
      /\ c.public = At(<<"run", "gateway", "trust">>)
      /\ c.runtime = At(<<"run", "gateway", "private">>)
  BY Loaded
<1> HIDE DEF c
<1>4. \A p \in {c.opa, c.state, c.public, c.runtime} : p.form = "clean" /\ p.segs # <<>>
  BY <1>3 DEF At
<1>5. Apart(c)
  BY <1>3, DirectoriesApart
<1>6. Validate(c)
  BY <1>1, <1>3, <1>4, <1>5 DEF Validate
<1> QED BY <1>2, <1>6, EnvGiven DEF LoadAccepts, c

\* The volume a writable mount of the proxy puts at a path.
WritableAt(dir) == {m.volume : m \in {n \in ProxyMounts : n.at = dir /\ ~n.readOnly}}

\* Each directory of the daemon is the mount of one volume.
LEMMA DirectoryVolumes ==
    /\ WritableAt(At(<<"var", "lib", "gateway", "private">>)) = {"state"}
    /\ WritableAt(At(<<"run", "gateway", "private">>)) = {"runtime"}
    /\ WritableAt(At(<<"run", "gateway", "trust">>)) = {"public"}
<1> DEFINE State == <<"var", "lib", "gateway", "private">>
           Runtime == <<"run", "gateway", "private">>
           Public == <<"run", "gateway", "trust">>
<1>1. \A v, p : /\ Mount(v, p).volume = v /\ Mount(v, p).at = At(p) /\ ~Mount(v, p).readOnly
                /\ ReadOnly(v, p).readOnly
  BY DEF Mount, ReadOnly
<1>2. \A p, q : At(p) = At(q) => p = q
  BY DEF At
<1>3. /\ State # Runtime /\ State # Public /\ Runtime # Public
      /\ \A p \in {<<"etc", "istio", "proxy">>,
                   <<"var", "run", "secrets", "workload-spiffe-uds">>,
                   <<"var", "run", "secrets", "credential-uds">>,
                   <<"var", "run", "secrets", "workload-spiffe-credentials">>} :
            p # State /\ p # Runtime /\ p # Public
  OBVIOUS
<1> QED BY <1>1, <1>2, <1>3 DEF WritableAt, ProxyMounts

\* In every state, the proxy of an accepted Pod has an environment the daemon accepts,
\* for its role, and each of its directories on a volume of its own.
THEOREM ProxyEnvironment == Spec => []ProxyConfigured
<1>1. ProxyConfigured
  BY Loaded, LoadSucceeds, DirectoryVolumes DEF ProxyConfigured, WritableAt
<1> QED BY <1>1, PTL
=============================================================================
