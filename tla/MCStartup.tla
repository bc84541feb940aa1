------------------------------ MODULE MCStartup ------------------------------
(***************************************************************************)
(* The TLC instance of Startup: one daemon over many environments, and two *)
(* daemons that share a runtime directory.                                 *)
(***************************************************************************)
EXTENDS Startup, TLC

CONSTANTS d1, d2

\* Environments.
NoTracing == [vars |-> [n \in PlainVars |-> Unset],
              general |-> [s \in Suffixes |-> Unset],
              traces |-> [s \in Suffixes |-> Unset]]
Defaults == [v \in GatewayVars |-> Unset] @@ [workloadConfig |-> FALSE, otel |-> NoTracing]
Standalone == [Defaults EXCEPT !.mode = "standalone", !.envoy = At(<<"envoy">>)]
With(otel) == [Standalone EXCEPT !.otel = otel]

\* Directories that are equal, nested, siblings, unclean, blank or left at their defaults.
Segments == {<<>>, <<"a">>, <<"b">>, <<"a", "a">>, <<"a", "b">>}
Paths == {At(s) : s \in Segments}
            \union {Unset, Empty, [form |-> "dirty", segs |-> <<"c">>]}
Layouts ==
    {[Standalone EXCEPT !.state = s, !.public = p, !.runtime = r] : s, p, r \in Paths}

\* Each of the other variables.
Odd == {[Defaults EXCEPT !.workloadConfig = TRUE], [Defaults EXCEPT !.identity = "jwt"],
        [Defaults EXCEPT !.mode = "standalone"], [Defaults EXCEPT !.role = "router"],
        [Defaults EXCEPT !.envoy = At(<<>>)], [Defaults EXCEPT !.role = "egress"],
        [Standalone EXCEPT !.envoy = [form |-> "relative", segs |-> <<"e">>]], Defaults}

\* Transport settings at both levels.
URL(scheme) == [scheme |-> scheme, host |-> "collector", path |-> FALSE]
Level(e, i, k) == [[s \in Suffixes |-> Unset] EXCEPT
    !["ENDPOINT"] = e, !["INSECURE"] = i, !["CLIENT_CERTIFICATE"] = k, !["CLIENT_KEY"] = k]
Transports ==
    {With([NoTracing EXCEPT !.general = Level(e, i, k), !.traces = Level(f, j, Unset)]) :
        e \in {Unset, URL("http"), URL("https"), URL("ftp")}, f \in {Empty, URL("http"), URL("https")},
        i, j \in {Empty, "true", "false"}, k \in {Unset, "pem"}}

\* Sizes and samplers at the limits of their checks.
Var(n, v, m, w) == With([NoTracing EXCEPT !.vars = [@ EXCEPT ![n] = v, ![m] = w]])
Sizes == {Var("MAX_QUEUE_SIZE", q, "MAX_EXPORT_BATCH_SIZE", b) :
             q, b \in {Empty, -1, 512, 2048, 2049, MaxMillis, MaxMillis + 1}}
Samplers == {Var("SAMPLER", s, "SAMPLER_ARG", a) :
                s \in {Empty, "parentbased_always_off", "parentbased_traceidratio", "always_on"},
                a \in {Empty, -1, 0, 100, 101}}
Attribute1(k, v) == [key |-> k, value |-> v]
Headers(i) == With([NoTracing EXCEPT !.general = [@ EXCEPT !["HEADERS"] = <<i>>]])
Others == {Var("SDK_DISABLED", "true", "PROPAGATORS", "b3"), Var("EXPORTER", "none", "SAMPLER_ARG", 101),
           Var("SDK_DISABLED", "no", "EXPORTER", "otlp"), Var("EXPORTER", "zipkin", "SDK_DISABLED", "false"),
           Var("RESOURCE", <<Attribute1("service.name", "x"), Attribute1("service.name", "y")>>, "EXPORTER", "otlp"),
           Var("RESOURCE", <<Attribute1("host.name", "x")>>, "PROPAGATORS", Empty),
           Headers([key |-> "token", value |-> "printable"]), Headers([key |-> "none", value |-> "printable"])}

\* OPA configurations and bootstraps.
Doc(extension, role) == [valid |-> TRUE, extension |-> extension, role |-> role, tracing |-> [type |-> "native"]]
Docs == {NoDoc, Doc(FALSE, "none"), Doc(TRUE, "egress")}
Filter(name, typed) == [name |-> name, typed |-> typed, allow |-> TRUE, rawHeaders |-> FALSE,
                        wholeBody |-> FALSE, guard |-> NoDoc]
Authz == Filter("ext_authz", TRUE)
Manager(chain, filters) == [chain |-> chain, filters |-> filters]
Bootstrap(managers) == [valid |-> TRUE, dynamic |-> FALSE, admin |-> "9901", managers |-> managers,
                        clusters |-> [n \in {"opa", "inspection_sds", "origin"} |-> "remote"]]

\* A manager with guards and two authorization filters, one without any, another one
\* with authorization, and one in a default filter chain.
Inspecting == Manager("listed", <<Filter("gateway.request", TRUE), Authz,
                                  Filter("gateway.dispatch", TRUE), Authz>>)
Plain == Manager("listed", <<Filter("router", TRUE)>>)
Hidden == Manager("default", <<Authz>>)
Guarded == Bootstrap(<<Plain, Inspecting, Manager("listed", <<Authz>>), Hidden>>)
Bootstraps == {Guarded, Bootstrap(<<Plain, Hidden>>),
               Bootstrap(<<Inspecting, Manager("listed", <<Filter("ext_authz", FALSE)>>)>>),
               [Guarded EXCEPT !.dynamic = TRUE], [Guarded EXCEPT !.valid = FALSE]}

Given(env, policies, bootstrap) == [env |-> env, policies |-> policies, bootstrap |-> bootstrap]
Nobody == Given([Defaults EXCEPT !.role = Empty], FALSE, Guarded)

\* A second daemon: the other role, or the same one, with or without tracing.
Traced == With([NoTracing EXCEPT !.traces = Level(URL("https"), Unset, "pem")])
Seconds == {Standalone, [Traced EXCEPT !.role = "egress"],
            With([NoTracing EXCEPT !.vars = [@ EXCEPT !["SDK_DISABLED"] = "true"]])}

MCInputs ==
    {d1 :> Given(e, FALSE, Guarded) @@ d2 :> Nobody :
        e \in Layouts \union Odd \union Transports \union Sizes \union Samplers \union Others}
    \union {d1 :> Given(e, p, b) @@ d2 :> Nobody :
        e \in {Standalone, Traced}, p \in BOOLEAN, b \in Bootstraps}
    \union {d1 :> Given(Traced, FALSE, Guarded) @@ d2 :> Given(e, FALSE, Guarded) : e \in Seconds}

MCFiles == Segments \union {<<"run", "gateway", "private", "f">>, <<"a", "a", "f">>}
=============================================================================
