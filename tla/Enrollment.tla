----------------------------- MODULE Enrollment -----------------------------
(***************************************************************************)
(* enrollment/compose.go with managed.json: how the containers of the      *)
(* gateway and those of a business Pod are composed into one Pod.          *)
(*                                                                         *)
(* Everything here is a function of the business Pod b and the options o.  *)
(* Labels, annotations and identities are the outcome of their test;       *)
(* images, resources and the network plugin's expansion are left out.      *)
(***************************************************************************)
EXTENDS Config

Proxy == 1337

Mount(volume, path) == [volume |-> volume, at |-> At(path), readOnly |-> FALSE]
ReadOnly(volume, path) == [Mount(volume, path) EXCEPT !.readOnly = TRUE]
Container(name, uid, mounts) == [name |-> name, uid |-> uid, mounts |-> mounts]

-----------------------------------------------------------------------------
(* managed.json *)

PreparedVolumes == {"state", "runtime", "public", "bundle", "istio-data", "workload-socket",
                    "credential-socket", "workload-certs"}
ManagedVolumes == PreparedVolumes \union {"istio-ca", "istio-token"}

ProxyMounts ==
    {Mount("state", <<"var", "lib", "gateway", "private">>),
     Mount("runtime", <<"run", "gateway", "private">>),
     Mount("public", <<"run", "gateway", "trust">>),
     Mount("istio-data", <<"etc", "istio", "proxy">>),
     Mount("workload-socket", <<"var", "run", "secrets", "workload-spiffe-uds">>),
     Mount("credential-socket", <<"var", "run", "secrets", "credential-uds">>),
     Mount("workload-certs", <<"var", "run", "secrets", "workload-spiffe-credentials">>),
     ReadOnly("istio-token", <<"var", "run", "secrets", "tokens">>),
     ReadOnly("istio-ca", <<"var", "run", "secrets", "istio">>)}

Managed ==
    <<Container("prepare-volumes", 0, {Mount(v, <<v>>) : v \in PreparedVolumes}),
      Container("management-init", 0, {}),
      Container("istio-proxy", Proxy, ProxyMounts),
      Container("base-trust", Proxy, {Mount("bundle", <<"bundle">>)}),
      Container("trust-init", Proxy, {Mount("bundle", <<"bundle">>), ReadOnly("public", <<"public">>)})>>
ProxyBeforeRules == <<Managed[1], Managed[3], Managed[2], Managed[4], Managed[5]>>
ManagedInit == Managed

-----------------------------------------------------------------------------
(* compose.go *)

CleanPath(p) == p.form = "clean" /\ p.segs # <<>>

ReservedManaged == ManagedVolumes
ReservedVolumes == ManagedVolumes \union {"origin-trust", "gateway-policy"}

\* protectBusiness.
ProtectBusiness(b) ==
    /\ ~b.istioLabel /\ ~b.istioAnnotation
    /\ b.automount # "true"
    /\ \A v \in b.volumes : v.name \notin ReservedVolumes /\ ~v.serviceAccountToken
    /\ ~b.reservedID
    /\ \A k \in {b.init[i] : i \in DOMAIN b.init} \union b.containers :
          /\ \A i \in DOMAIN Managed : k.name # Managed[i].name
          /\ k.uid # Proxy
          /\ \A m \in k.mounts : m.volume \notin ReservedVolumes

\* proxyEnv, as far as Gateway reads it, and the other names it takes.
ProxyEnvNames == {"GATEWAY_ROLE", "GATEWAY_PROXY_MODE", "ISTIO_META_WORKLOAD_NAME", "CA_ADDR",
                  "JWT_POLICY", "PILOT_CERT_PROVIDER", "ISTIO_META_CLUSTER_ID",
                  "ISTIO_META_MESH_ID", "TRUST_DOMAIN", "ISTIO_META_INTERCEPTION_MODE",
                  "PROXY_CONFIG", "POD_NAME", "POD_NAMESPACE", "INSTANCE_IP", "SERVICE_ACCOUNT"}
EnvName ==
    [role |-> "GATEWAY_ROLE", mode |-> "GATEWAY_PROXY_MODE", opa |-> "OPA_CONFIG",
     envoy |-> "ENVOY_CONFIG", identity |-> "GATEWAY_IDENTITY_PROVIDER",
     state |-> "GATEWAY_STATE_DIR", public |-> "GATEWAY_PUBLIC_DIR",
     runtime |-> "GATEWAY_RUNTIME_DIR"]
GatewayNames == {EnvName[v] : v \in GatewayVars} \union {"GATEWAY_WORKLOAD_CONFIG"}
OnlyTaken(names) == names \intersect ProxyEnvNames = {}
EnvAllowed(names) == names \intersect (ProxyEnvNames \union GatewayNames) = {}

\* What config.Load finds in the environment of the proxy: an option would override
\* what proxyEnv sets.
EnvValue(o, v, set) ==
    IF \E e \in o.proxyEnv : e.name = EnvName[v]
    THEN (CHOOSE e \in o.proxyEnv : e.name = EnvName[v]).value
    ELSE set
ProxyEnv(o) ==
    [role     |-> EnvValue(o, "role", o.role),
     mode     |-> EnvValue(o, "mode", "istio"),
     identity |-> EnvValue(o, "identity", Unset),
     opa      |-> EnvValue(o, "opa", Unset),
     envoy    |-> EnvValue(o, "envoy", Unset),
     state    |-> EnvValue(o, "state", Unset),
     public   |-> EnvValue(o, "public", Unset),
     runtime  |-> EnvValue(o, "runtime", Unset),
     workloadConfig |-> \E e \in o.proxyEnv : e.name = "GATEWAY_WORKLOAD_CONFIG",
     otel     |-> o.otel]

\* The mounts a trust mount adds to, and those it must not collide with.
TrustMountValid(b, o, name) ==
    /\ o.role = "workload"
    /\ CleanPath(o.trustMounts[name])
    /\ \E k \in b.containers : k.name = name
                               /\ \A m \in k.mounts : m.at # o.trustMounts[name]

\* ComposePod returns no error.
ComposeAccepts(b, o) ==
    /\ o.role \in {"workload", "egress"}
    /\ o.required
    /\ o.role = "workload" => o.trustImage /\ CleanPath(o.trustPath)
    /\ ProtectBusiness(b)
    /\ \A e, f \in o.proxyEnv : e.name = f.name => e = f
    /\ EnvAllowed({e.name : e \in o.proxyEnv})
    /\ \A name \in DOMAIN o.trustMounts : TrustMountValid(b, o, name)
    /\ o.networkValid

\* The proxy with its optional ConfigMaps.
OptionalMounts(o) ==
    (IF o.policyConfigMap THEN {ReadOnly("gateway-policy", <<"etc", "gateway", "policy">>)} ELSE {})
    \union
    (IF o.originTrust THEN {ReadOnly("origin-trust", <<"etc", "gateway", "origin">>)} ELSE {})
Equipped(k, o) ==
    IF k.name = "istio-proxy" THEN [k EXCEPT !.mounts = @ \union OptionalMounts(o)] ELSE k

\* The egress role has no trust containers, and its proxy is no init container.
Runs(k, o) == o.role = "egress" => k.name \notin {"base-trust", "trust-init", "istio-proxy"}
TrustedInit(o) ==
    LET kept(i) == IF Runs(ManagedInit[i], o) THEN <<Equipped(ManagedInit[i], o)>> ELSE <<>>
    IN kept(1) \o kept(2) \o kept(3) \o kept(4) \o kept(5)
TrustedContainers(o) == IF o.role = "egress" THEN {Equipped(Managed[3], o)} ELSE {}

WithTrust(k, o) ==
    IF k.name \in DOMAIN o.trustMounts
    THEN [k EXCEPT !.mounts = @ \union {[volume |-> "bundle", at |-> o.trustMounts[k.name],
                                         readOnly |-> TRUE]}]
    ELSE k

\* The init containers of the gateway run first, in the order of managed.json.
BusinessFirst(trusted, business) == business \o trusted
InitOrder(trusted, business) == trusted \o business

ComposePod(b, o) ==
    [init       |-> InitOrder(TrustedInit(o), b.init),
     containers |-> {WithTrust(k, o) : k \in b.containers} \union TrustedContainers(o),
     volumes    |-> {v.name : v \in b.volumes} \union ManagedVolumes
                        \union {m.volume : m \in OptionalMounts(o)},
     env        |-> ProxyEnv(o)]
=============================================================================
