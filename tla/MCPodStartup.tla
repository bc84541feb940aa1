---------------------------- MODULE MCPodStartup ----------------------------
(***************************************************************************)
(* The TLC instance of PodStartup: both roles with every check of          *)
(* ComposePod at both of its outcomes.                                     *)
(***************************************************************************)
EXTENDS PodStartup, TLC

NoTracing == [vars |-> [n \in PlainVars |-> Unset],
              general |-> [s \in Suffixes |-> Unset],
              traces |-> [s \in Suffixes |-> Unset]]
Traced(exporter) == [NoTracing EXCEPT !.vars["EXPORTER"] = exporter]

App == Container("app", 1000, {Mount("data", <<"data">>)})
Setup == Container("setup", 0, {Mount("data", <<"data">>)})
Volume(name, token) == [name |-> name, serviceAccountToken |-> token]

Plain == [istioLabel |-> FALSE, istioAnnotation |-> FALSE, automount |-> "unset",
          volumes |-> {Volume("data", FALSE)}, reservedID |-> FALSE,
          init |-> <<Setup>>, containers |-> {App}]

\* Each thing protectBusiness looks at.
Pods ==
    {Plain, [Plain EXCEPT !.init = <<>>],
     [Plain EXCEPT !.istioLabel = TRUE], [Plain EXCEPT !.istioAnnotation = TRUE],
     [Plain EXCEPT !.automount = "true"], [Plain EXCEPT !.automount = "false"],
     [Plain EXCEPT !.reservedID = TRUE],
     [Plain EXCEPT !.volumes = {Volume("token", TRUE)}],
     [Plain EXCEPT !.init = <<[Setup EXCEPT !.uid = Proxy]>>]}
    \union {[Plain EXCEPT !.volumes = {Volume(v, FALSE)}] : v \in {"public", "gateway-policy"}}
    \union {[Plain EXCEPT !.containers = {Container(n, 1000, {})}] : n \in {"istio-proxy", "side"}}
    \union {[Plain EXCEPT !.containers = {App, Container("side", 1000, {Mount(v, <<"x">>)})}] :
               v \in {"state", "origin-trust", "data"}}

Workload == [role |-> "workload", required |-> TRUE, trustImage |-> TRUE,
             trustPath |-> At(<<"etc", "ca.pem">>), proxyEnv |-> {},
             trustMounts |-> "app" :> At(<<"etc", "ca.pem">>), networkValid |-> TRUE,
             policyConfigMap |-> TRUE, originTrust |-> TRUE, otel |-> NoTracing]
Egress == [Workload EXCEPT !.role = "egress", !.trustMounts = <<>>, !.trustImage = FALSE]
Override(name, value) == [Workload EXCEPT !.proxyEnv = {[name |-> name, value |-> value]}]

Options ==
    {Workload, Egress, [Workload EXCEPT !.role = "router"], [Workload EXCEPT !.required = FALSE],
     [Workload EXCEPT !.trustImage = FALSE], [Workload EXCEPT !.trustPath = At(<<>>)],
     [Workload EXCEPT !.trustMounts = "other" :> At(<<"t">>)],
     [Workload EXCEPT !.trustMounts = "app" :> At(<<"data">>)],
     [Workload EXCEPT !.networkValid = FALSE], [Egress EXCEPT !.trustMounts = "app" :> At(<<"t">>)],
     [Workload EXCEPT !.policyConfigMap = FALSE, !.originTrust = FALSE, !.otel = Traced("otlp")],
     [Workload EXCEPT !.otel = Traced("zipkin")],
     Override("GATEWAY_STATE_DIR", At(<<"elsewhere">>)), Override("GATEWAY_ROLE", "egress"),
     Override("ENVOY_CONFIG", At(<<"envoy">>)), Override("HOME", "x")}

Given(p, opts, store) == [business |-> p, options |-> opts, store |-> store]
Stores == {<<>>, <<"root1", "root2">>, <<"root1", "key">>}
MCInputs ==
    {Given(Plain, opts, <<"root1">>) : opts \in Options}
    \union {Given(p, opts, <<"root1">>) : p \in Pods, opts \in {Workload, Egress}}
    \union {Given(Plain, Workload, s) : s \in Stores}
=============================================================================
