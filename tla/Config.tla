------------------------------- MODULE Config -------------------------------
(***************************************************************************)
(* The startup contract of config/config.go and config/tracing.go: which   *)
(* environments a daemon accepts and what it makes of them.  Everything    *)
(* here is a function of the environment; Startup runs it.                 *)
(*                                                                         *)
(* A path is a record of its form and its segments: filepath.Clean changes *)
(* a path exactly when its form is "dirty".  The OpenTelemetry variables   *)
(* are a record of the plain ones (vars) and the two levels of the OTLP    *)
(* ones, general and traces.  A number that is not positive is -1, a ratio *)
(* is in percent.                                                          *)
(***************************************************************************)
EXTENDS Integers, Sequences

CONSTANTS
    Unset,      \* the variable is not in the environment
    Empty,      \* the variable is there, blank
    MaxMillis   \* math.MaxInt64 / 1000000

\* Neither of them is a value a variable can have.
ASSUME ValuesAssumption ==
    /\ Unset # Empty
    /\ {Unset, Empty} \intersect {"workload", "egress", "istio", "standalone"} = {}

-----------------------------------------------------------------------------
(* config.go *)

At(segs) == [form |-> "clean", segs |-> segs]
Or(v, fallback) == IF v = Unset THEN fallback ELSE v

\* contains: filepath.Rel climbs out of the parent unless the parent's segments
\* begin the child's.
Contains(parent, child) ==
    /\ Len(parent.segs) <= Len(child.segs)
    /\ \A i \in 1..Len(parent.segs) : parent.segs[i] = child.segs[i]

\* Get: for tracing, a blank value is an unset one.
Get(v) == IF v = Empty THEN Unset ELSE v
Effective(o, suffix) == Or(Get(o.traces[suffix]), Get(o.general[suffix]))

-----------------------------------------------------------------------------
(* tracing.go *)

Suffixes == {"ENDPOINT", "PROTOCOL", "HEADERS", "CERTIFICATE", "CLIENT_CERTIFICATE",
             "CLIENT_KEY", "INSECURE", "TIMEOUT", "COMPRESSION"}
BatchSizes == {"SCHEDULE_DELAY", "EXPORT_TIMEOUT", "MAX_QUEUE_SIZE", "MAX_EXPORT_BATCH_SIZE"}
PlainVars == {"SDK_DISABLED", "EXPORTER", "SERVICE_NAME", "RESOURCE", "SAMPLER",
              "SAMPLER_ARG", "PROPAGATORS"} \union BatchSizes

Configured(o) ==
    \/ \E n \in PlainVars : Get(o.vars[n]) # Unset
    \/ \E s \in Suffixes : Get(o.general[s]) # Unset \/ Get(o.traces[s]) # Unset
Disabled(o) == o.vars["SDK_DISABLED"] = "true" \/ o.vars["EXPORTER"] = "none"

\* A header list is a sequence of items: is there a key, is it a token, does the
\* value decode to printable characters?
ValidHeaders(items) ==
    \A i \in DOMAIN items : items[i].key = "token" /\ items[i].value = "printable"

Positive(v) == v > 0 /\ v <= MaxMillis

\* What is checked of each level, overridden or not.
LevelValid(level) ==
    LET is(suffix, P(_)) == Get(level[suffix]) # Unset => P(level[suffix])
    IN /\ is("ENDPOINT", LAMBDA u : u.scheme \in {"http", "https"})
       /\ is("HEADERS", ValidHeaders)
       /\ is("TIMEOUT", Positive)
       /\ is("COMPRESSION", LAMBDA v : v \in {"gzip", "none"})
       /\ is("INSECURE", LAMBDA v : v \in {"true", "false"})

Protocol(o) == Or(Effective(o, "PROTOCOL"), "http/protobuf")
Endpoint(o) ==
    Or(Effective(o, "ENDPOINT"),
       [scheme |-> "http", path |-> FALSE,
        host |-> IF Protocol(o) = "grpc" THEN "localhost:4317" ELSE "localhost:4318"])
TLS(o) == Endpoint(o).scheme = "https"
InsecureTraces(o) == Get(o.traces["INSECURE"]) = "true"
Insecure(o) == Effective(o, "INSECURE") = "true"

TransportValid(o) ==
    LET has(suffix) == Effective(o, suffix) # Unset
    IN /\ Protocol(o) \in {"grpc", "http/protobuf"}
       /\ Protocol(o) = "grpc" => ~Endpoint(o).path
       /\ ~(TLS(o) /\ Insecure(o))
       /\ has("CLIENT_CERTIFICATE") <=> has("CLIENT_KEY")
       /\ has("CERTIFICATE") \/ has("CLIENT_CERTIFICATE") => TLS(o)

\* OTEL_RESOURCE_ATTRIBUTES: a sequence of items, blank ones dropped; the last
\* value of a key counts.
Attributes(o) == Or(Get(o.vars["RESOURCE"]), <<>>)
Identities == {"service.version", "service.instance.id", "service.namespace",
               "deployment.environment"}
ResourceValid(o) ==
    \A i \in DOMAIN Attributes(o) :
        Attributes(o)[i].key \in Identities \union {"service.name"}
            /\ Attributes(o)[i].value # "undecodable"
Attribute(o, key) ==
    LET at == {i \in DOMAIN Attributes(o) : Attributes(o)[i].key = key}
    IN IF at = {} THEN Unset ELSE Attributes(o)[CHOOSE i \in at : \A j \in at : j <= i].value

SamplerValid(o) ==
    LET sampler == Get(o.vars["SAMPLER"])
        arg == Get(o.vars["SAMPLER_ARG"])
    IN IF sampler = "parentbased_traceidratio"
       THEN arg # Unset /\ arg \in 0..100
       ELSE arg = Unset /\ sampler \in {Unset, "parentbased_always_on", "parentbased_always_off"}
SampleRatio(o) ==
    CASE o.vars["SAMPLER"] = "parentbased_always_off" -> 0
      [] o.vars["SAMPLER"] = "parentbased_traceidratio" -> o.vars["SAMPLER_ARG"]
      [] OTHER -> 100

\* The sizes of the batch processor, the defaults of the SDK where they are unset.
QueueSize(o) == Or(Get(o.vars["MAX_QUEUE_SIZE"]), 2048)
BatchSize(o) == Or(Get(o.vars["MAX_EXPORT_BATCH_SIZE"]), 512)
BatchFits(o) == BatchSize(o) <= QueueSize(o)
BatchValid(o) ==
    /\ \A s \in BatchSizes : Get(o.vars[s]) # Unset => Positive(o.vars[s])
    /\ BatchFits(o)

TracingValid(o) ==
    /\ Get(o.vars["SDK_DISABLED"]) \in {Unset, "false"}
    /\ Get(o.vars["EXPORTER"]) \in {Unset, "otlp"}
    /\ LevelValid(o.general) /\ LevelValid(o.traces)
    /\ TransportValid(o)
    /\ ResourceValid(o)
    /\ SamplerValid(o)
    /\ Get(o.vars["PROPAGATORS"]) = Unset
    /\ BatchValid(o)

\* LoadTracing, where it returns no error: nil is Unset.
LoadTracing(o) ==
    CASE ~Configured(o) -> Unset
      [] Configured(o) /\ Disabled(o) -> [disabled |-> TRUE]
      [] OTHER -> [disabled |-> FALSE, protocol |-> Protocol(o),
                   address |-> Endpoint(o).host, tls |-> TLS(o),
                   certificate |-> Effective(o, "CERTIFICATE"),
                   clientCertificate |-> Effective(o, "CLIENT_CERTIFICATE"),
                   clientKey |-> Effective(o, "CLIENT_KEY"),
                   serviceName |-> Or(Get(o.vars["SERVICE_NAME"]), Attribute(o, "service.name")),
                   resource |-> [k \in Identities |-> Attribute(o, k)],
                   sampleRatio |-> SampleRatio(o),
                   batch |-> [s \in BatchSizes |-> Get(o.vars[s])]]
LoadTracingAccepts(o) == Configured(o) => Disabled(o) \/ TracingValid(o)

-----------------------------------------------------------------------------
(* config.go: Load and Validate *)

GatewayVars == {"role", "mode", "identity", "opa", "envoy", "state", "public", "runtime"}

\* Load, where it returns no error.  An unset ENVOY_CONFIG stays unset.
Load(env) ==
    [role     |-> Or(env.role, "workload"),
     mode     |-> Or(env.mode, "istio"),
     identity |-> Or(env.identity, "istio-mtls"),
     opa      |-> Or(env.opa, At(<<"etc", "gateway", "opa", Or(env.role, "workload")>>)),
     envoy    |-> env.envoy,
     state    |-> Or(env.state, At(<<"var", "lib", "gateway", "private">>)),
     public   |-> Or(env.public, At(<<"run", "gateway", "trust">>)),
     runtime  |-> Or(env.runtime, At(<<"run", "gateway", "private">>)),
     tracing  |-> LoadTracing(env.otel)]

\* Validate.
OnlyParents(c) == ~Contains(c.state, c.runtime) /\ ~Contains(c.public, c.runtime)
                    /\ ~Contains(c.public, c.state)
Apart(c) ==
    /\ ~Contains(c.state, c.runtime) /\ ~Contains(c.runtime, c.state)
    /\ \A dir \in {c.state, c.runtime} : ~Contains(c.public, dir) /\ ~Contains(dir, c.public)
Validate(c) ==
    /\ c.identity = "istio-mtls"
    /\ c.role \in {"workload", "egress"}
    /\ c.mode \in {"standalone", "istio"}
    /\ \A p \in {c.opa, c.state, c.public, c.runtime} : p.form = "clean" /\ p.segs # <<>>
    /\ c.mode = "standalone" <=> c.envoy # Unset
    /\ c.envoy # Unset => c.envoy.form = "clean"
    /\ Apart(c)

LoadAccepts(env) ==
    /\ ~env.workloadConfig
    /\ \A v \in GatewayVars : env[v] # Empty
    /\ LoadTracingAccepts(env.otel)
    /\ Validate(Load(env))
=============================================================================
