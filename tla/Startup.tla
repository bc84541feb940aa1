------------------------------- MODULE Startup -------------------------------
(***************************************************************************)
(* How a daemon starts on a runtime directory: the prologue of daemon.Run, *)
(* with prepareOPA (daemon/tracing.go), configurePolicyHost (opa.go) and   *)
(* prepareEnvoy (envoy.go), from the environment Config accepts.           *)
(*                                                                         *)
(* Several daemons may be pointed at one runtime directory, at a time or   *)
(* one after the other, and be stopped or killed at any step; the mounted  *)
(* OPA configuration may be replaced while they start.  What a daemon does *)
(* once its proxy runs is the subject of Daemon.                           *)
(***************************************************************************)
EXTENDS Config, FiniteSets

CONSTANTS
    Daemons, NoDaemon,
    Inputs,        \* what each daemon may be given: environment, arguments, bootstrap
    OPADocs,       \* what the mounted OPA configuration may hold
    Files,         \* paths, as segments, an application could be given
    MaxKills, MaxRemounts

ASSUME DaemonsAssumption == NoDaemon \notin Daemons
ASSUME BoundsAssumption == MaxKills \in Nat /\ MaxRemounts \in Nat

\* A valid OPA configuration has a tracing section to replace and a valid bootstrap
\* the parts prepareEnvoy replaces; what the daemon accepts as directories are paths.
ASSUME DocsAssumption ==
    \A doc \in OPADocs :
        doc.valid => doc \in [valid : {TRUE}, extension : BOOLEAN, role : {doc.role},
                             tracing : {doc.tracing}]
ASSUME BootstrapsAssumption ==
    \A i \in Inputs, d \in Daemons :
        LET b == i[d].bootstrap
        IN b.valid =>
             /\ b \in [valid : {TRUE}, dynamic : BOOLEAN, admin : {b.admin},
                       managers : {b.managers}, clusters : {b.clusters}]
             /\ \A k \in DOMAIN b.managers :
                   LET m == b.managers[k]
                   IN /\ m \in [chain : {"listed", "default"}, filters : {m.filters}]
                      /\ \A j \in DOMAIN m.filters :
                            LET f == m.filters[j]
                            IN f \in [name : {f.name}, typed : BOOLEAN, allow : BOOLEAN,
                                      rawHeaders : BOOLEAN, wholeBody : BOOLEAN, guard : {f.guard}]
ASSUME PathsAssumption ==
    \A i \in Inputs, d \in Daemons : LoadAccepts(i[d].env) =>
        /\ Len(Load(i[d].env).state.segs) \in Nat
        /\ Len(Load(i[d].env).runtime.segs) \in Nat
        /\ Len(Load(i[d].env).public.segs) \in Nat

VARIABLES
    input,      \* environment (env), --policy files (policies) and bootstrap of each daemon
    pc,         \* how far the startup of each daemon has come
    lock,       \* the daemon that holds the flock on .daemon.lock
    listening,  \* the daemons with an open SDS listener
    socket,     \* whose listener the SDS path names, NoDaemon for none, or "file"
    files,      \* the generated files of the runtime directory
    mount,      \* the mounted OPA configuration
    inspected,  \* the OPA configuration configurePolicyHost read
    loaded,     \* the OPA configuration the runtime read, with the role it runs
    kills, remounts

vars == <<input, pc, lock, listening, socket, files, mount, inspected, loaded, kills, remounts>>

Generated == {"https-guard.lua", "http-guard.lua", "opa.json", "envoy.json"}
NoDoc == [valid |-> FALSE]

c(d) == Load(input[d].env)
Workload(d) == c(d).role = "workload"

Move(d, from, to) == pc[d] = from /\ pc' = [pc EXCEPT ![d] = to]

Init ==
    /\ input \in Inputs
    /\ pc = [d \in Daemons |-> "down"]
    /\ lock = NoDaemon
    /\ listening = {}
    /\ socket \in {NoDaemon, "file"}
    /\ files = [f \in Generated |-> NoDoc]
    /\ mount \in OPADocs
    /\ inspected = [d \in Daemons |-> NoDoc]
    /\ loaded = [d \in Daemons |-> NoDoc]
    /\ kills = 0 /\ remounts = 0

-----------------------------------------------------------------------------
(* The runtime directory. *)

\* main: the environment is read and validated; Run validates it again.
LoadConfig(d) ==
    /\ Move(d, "down", "loaded")
    /\ LoadAccepts(input[d].env) /\ Validate(c(d))
    /\ UNCHANGED <<input, lock, listening, socket, files, mount, inspected, loaded, kills, remounts>>

\* Flock with LOCK_NB.
MayLock == lock = NoDaemon
TakeLock(d) ==
    /\ Move(d, "loaded", "locked")
    /\ MayLock
    /\ lock' = d
    /\ UNCHANGED <<input, listening, socket, files, mount, inspected, loaded, kills, remounts>>

\* An unsafe directory, or another daemon owns it.
Refused(d) ==
    /\ Move(d, "loaded", "down")
    /\ UNCHANGED <<input, lock, listening, socket, files, mount, inspected, loaded, kills, remounts>>

\* request.Source and request.HTTPSource.
Source(role, scheme) == [valid |-> TRUE, role |-> role, scheme |-> scheme]
Written(f, content) == files' = [files EXCEPT ![f] = content]

WriteHTTPSGuard(d) ==
    /\ Move(d, "locked", "guarded")
    /\ Written("https-guard.lua", Source(c(d).role, "https"))
    /\ UNCHANGED <<input, lock, listening, socket, mount, inspected, loaded, kills, remounts>>

WriteHTTPGuard(d) ==
    /\ Move(d, "guarded", IF Workload(d) THEN "guards" ELSE "serving")
    /\ Written("http-guard.lua", Source(c(d).role, "http"))
    /\ UNCHANGED <<input, lock, listening, socket, mount, inspected, loaded, kills, remounts>>

\* The CA is open (InspectionCA); a socket at the SDS path is a dead one.
ClearSocket(d) ==
    /\ Move(d, "guards", "cleared")
    /\ socket # "file"
    /\ socket' = NoDaemon
    /\ UNCHANGED <<input, lock, listening, files, mount, inspected, loaded, kills, remounts>>

\* net.Listen: bind refuses a path that exists.
Listen(d) ==
    /\ Move(d, "cleared", "serving")
    /\ socket = NoDaemon
    /\ socket' = d
    /\ listening' = listening \union {d}
    /\ UNCHANGED <<input, lock, files, mount, inspected, loaded, kills, remounts>>

-----------------------------------------------------------------------------
(* OPA. *)

\* The distributed_tracing section prepareOPA generates.
Encryption(t) ==
    IF t.clientCertificate # Unset THEN "mtls" ELSE IF t.tls THEN "tls" ELSE "off"
Section(t) ==
    IF t.disabled THEN [type |-> "none"]
    ELSE [type |-> IF t.protocol = "grpc" THEN "grpc" ELSE "http",
          address |-> t.address, service_name |-> t.serviceName,
          sample_percentage |-> t.sampleRatio, encryption |-> Encryption(t),
          allow_insecure_tls |-> FALSE, tls_ca_cert_file |-> t.certificate,
          tls_cert_file |-> t.clientCertificate, tls_private_key_file |-> t.clientKey,
          resource |-> t.resource, batch |-> t.batch, blocking |-> FALSE]

\* prepareOPA: without tracing inputs the mount is used as it is; with them a
\* private copy with another tracing section.
PrepareOPA(d) ==
    /\ Move(d, "serving", "prepared")
    /\ \/ c(d).tracing = Unset /\ UNCHANGED files
       \/ /\ c(d).tracing # Unset
          /\ mount.valid
          /\ Written("opa.json", [mount EXCEPT !.tracing = Section(c(d).tracing)])
    /\ UNCHANGED <<input, lock, listening, socket, mount, inspected, loaded, kills, remounts>>

\* What params.ConfigFile names.
AlwaysMount(d) == mount
ConfigFile(d) == IF c(d).tracing = Unset THEN mount ELSE files["opa.json"]

\* configurePolicyHost.
PoliciesAllowed(d) == ConfigFile(d).extension => ~input[d].policies
ConfigurePolicyHost(d) ==
    /\ Move(d, "prepared", "hosted")
    /\ ConfigFile(d).valid /\ PoliciesAllowed(d)
    /\ inspected' = [inspected EXCEPT ![d] = ConfigFile(d)]
    /\ UNCHANGED <<input, lock, listening, socket, files, mount, loaded, kills, remounts>>

\* runtime.NewRuntime reads the file again and applies the overrides.
RoleOf(d) == IF inspected[d].extension THEN c(d).role ELSE ConfigFile(d).role
NewRuntime(d) ==
    /\ Move(d, "hosted", "opa")
    /\ ConfigFile(d).valid
    /\ loaded' = [loaded EXCEPT ![d] = [doc |-> ConfigFile(d), role |-> RoleOf(d)]]
    /\ UNCHANGED <<input, lock, listening, socket, files, mount, inspected, kills, remounts>>

\* The mounted file is replaced, for example by an updated ConfigMap.
Remount(doc) ==
    /\ remounts < MaxRemounts /\ remounts' = remounts + 1
    /\ mount' = doc
    /\ UNCHANGED <<input, pc, lock, listening, socket, files, inspected, loaded, kills>>

-----------------------------------------------------------------------------
(* The proxy. *)

IsAuthz(f) == f.name = "ext_authz"
IsGuard(f) == f.name \in {"gateway.request", "gateway.dispatch"}
HardenedFirst(fs, i) == IsAuthz(fs[i]) /\ \A j \in 1..(i - 1) : ~IsAuthz(fs[j])
Hardens(fs, i) == IsAuthz(fs[i])

\* The HTTP connection managers that prepareEnvoy visits: those in the filter_chains of
\* the listeners, and not those in a default_filter_chain.
Visited(b) == {k \in DOMAIN b.managers : b.managers[k].chain = "listed"}

\* prepareEnvoy on the i-th HTTP filter of a connection manager.
Rewritten(fs, i, extension, role) ==
    CASE extension /\ Hardens(fs, i) ->
             [fs[i] EXCEPT !.allow = FALSE, !.rawHeaders = TRUE, !.wholeBody = TRUE]
      [] IsGuard(fs[i]) -> [fs[i] EXCEPT !.guard = Source(role, "https")]
      [] OTHER -> fs[i]
RewrittenAll(fs, extension, role) == [i \in DOMAIN fs |-> Rewritten(fs, i, extension, role)]

\* The bootstrap prepareEnvoy accepts: for the extension, one manager with an ext_authz
\* filter is enough.
Authorizes(fs) == \E i \in DOMAIN fs : IsAuthz(fs[i])
Usable(b, extension) ==
    /\ b.valid /\ ~b.dynamic
    /\ extension =>
          /\ \E k \in Visited(b) : Authorizes(b.managers[k].filters)
          /\ \A k \in Visited(b) : LET fs == b.managers[k].filters
                                  IN \A i \in DOMAIN fs : IsAuthz(fs[i]) => fs[i].typed

\* Where the named clusters lead.
Upstream(name, to) ==
    CASE name = "opa" -> "opa.sock"
      [] name = "inspection_sds" -> "inspection-sds.sock"
      [] OTHER -> to

Prepared(b, extension, role) ==
    [b EXCEPT !.admin = "envoy-admin.sock",
              !.managers = [k \in DOMAIN b.managers |->
                  IF k \in Visited(b)
                  THEN [b.managers[k] EXCEPT !.filters = RewrittenAll(@, extension, role)]
                  ELSE b.managers[k]],
              !.clusters = [n \in DOMAIN b.clusters |-> Upstream(n, b.clusters[n])]]

\* OPA is ready (Daemon): Envoy is started on the generated bootstrap, or
\* pilot-agent, whose configuration Istiod owns.
Launch(d) ==
    /\ Move(d, "opa", "running")
    /\ \/ /\ c(d).mode = "standalone"
          /\ Usable(input[d].bootstrap, inspected[d].extension)
          /\ Written("envoy.json",
                     Prepared(input[d].bootstrap, inspected[d].extension, c(d).role))
       \/ c(d).mode = "istio" /\ UNCHANGED files
    /\ UNCHANGED <<input, lock, listening, socket, mount, inspected, loaded, kills, remounts>>

-----------------------------------------------------------------------------
(* Leaving. *)

Started == {"locked", "guarded", "guards", "cleared", "serving", "prepared", "hosted", "opa",
            "running"}

\* A step returned an error, the context is done or a service failed.
Stop(d) ==
    /\ pc[d] \in Started
    /\ pc' = [pc EXCEPT ![d] = "stopping"]
    /\ UNCHANGED <<input, lock, listening, socket, files, mount, inspected, loaded, kills, remounts>>

\* server.Stop and listener.Close, which unlinks the path whatever it names.
Unlisten(d) ==
    /\ listening' = listening \ {d}
    /\ socket' = IF d \in listening THEN NoDaemon ELSE socket
Unlock(d) ==
    /\ lock' = IF lock = d THEN NoDaemon ELSE lock
    /\ inspected' = [inspected EXCEPT ![d] = NoDoc]
    /\ loaded' = [loaded EXCEPT ![d] = NoDoc]

\* Deferred calls run last to first: the lock, taken first, is closed last.
CloseLockFirst(d) ==
    \/ Move(d, "stopping", "stopped") /\ Unlock(d) /\ UNCHANGED <<listening, socket>>
    \/ Move(d, "stopped", "down") /\ Unlisten(d) /\ UNCHANGED <<lock, inspected, loaded>>
Deferred(d) ==
    \/ Move(d, "stopping", "stopped") /\ Unlisten(d) /\ UNCHANGED <<lock, inspected, loaded>>
    \/ Move(d, "stopped", "down") /\ Unlock(d) /\ UNCHANGED <<listening, socket>>

Return(d) == Deferred(d) /\ UNCHANGED <<input, files, mount, kills, remounts>>

\* SIGKILL: the kernel closes the files, the socket's path stays.
Kill(d) ==
    /\ pc[d] # "down" /\ kills < MaxKills /\ kills' = kills + 1
    /\ pc' = [pc EXCEPT ![d] = "down"]
    /\ listening' = listening \ {d}
    /\ Unlock(d)
    /\ UNCHANGED <<input, socket, files, mount, remounts>>

Run(d) ==
    \/ LoadConfig(d) \/ TakeLock(d) \/ Refused(d)
    \/ WriteHTTPSGuard(d) \/ WriteHTTPGuard(d) \/ ClearSocket(d) \/ Listen(d)
    \/ PrepareOPA(d) \/ ConfigurePolicyHost(d) \/ NewRuntime(d) \/ Launch(d)
    \/ Stop(d) \/ Return(d) \/ Kill(d)

Next == (\E d \in Daemons : Run(d)) \/ \E doc \in OPADocs : Remount(doc)

Spec == Init /\ [][Next]_vars

-----------------------------------------------------------------------------
(* Properties. *)

Loaded == {"opa", "running"}
Serving == {"serving", "prepared", "hosted"} \union Loaded

\* The type of the variables that are not documents.
TypeOK ==
    /\ pc \in [Daemons -> Started \union {"down", "loaded", "stopping", "stopped"}]
    /\ lock \in Daemons \union {NoDaemon}
    /\ listening \in SUBSET Daemons
    /\ socket \in Daemons \union {NoDaemon, "file"}
    /\ DOMAIN files = Generated
    /\ mount \in OPADocs
    /\ DOMAIN inspected = Daemons /\ DOMAIN loaded = Daemons
    /\ kills \in Nat /\ remounts \in Nat

\* A daemon that serves has the runtime directory to itself: the SDS path leads to its
\* own listener, and the guards its proxy loads are those of its role, although other
\* daemons start, stop or die around it.
RuntimeOwned ==
    \A d \in Daemons : pc[d] \in Serving =>
        /\ Workload(d) => socket = d /\ d \in listening
        /\ files["https-guard.lua"] = Source(c(d).role, "https")
        /\ files["http-guard.lua"] = Source(c(d).role, "http")

\* The directories of a started daemon are disjoint: no file an application could be
\* given from the public one is private, nor is CA state among the runtime files.
Beneath(dir, f) == Len(dir.segs) <= Len(f) /\ \A i \in 1..Len(dir.segs) : f[i] = dir.segs[i]
DirectoriesDisjoint ==
    \A d \in Daemons : pc[d] # "down" =>
        \A f \in Files :
            /\ ~(Beneath(c(d).public, f) /\ Beneath(c(d).state, f))
            /\ ~(Beneath(c(d).public, f) /\ Beneath(c(d).runtime, f))
            /\ ~(Beneath(c(d).state, f) /\ Beneath(c(d).runtime, f))

\* With tracing inputs OPA runs the very configuration the daemon inspected, whatever
\* happens to the mounted one in between.
SnapshotStable ==
    \A d \in Daemons : pc[d] \in Loaded /\ c(d).tracing # Unset =>
        loaded[d].doc = inspected[d]

\* Where the inspected configuration enables the Policy extension, or OPA runs it from
\* the private copy, the extension has the daemon's role, no fixture policy is loaded,
\* and a standalone Envoy gets a bootstrap in which some connection manager asks OPA at
\* its private socket, every ext_authz filter of the listed filter chains fails closed
\* and sends raw headers and the whole body, and the guards are those of the role.
\* Whether every manager has such a filter is left to who wrote the bootstrap.
Hardened(f, role) ==
    /\ IsAuthz(f) => ~f.allow /\ f.rawHeaders /\ f.wholeBody
    /\ IsGuard(f) => f.guard = Source(role, "https")
Enforcing(b, role) ==
    /\ \E k \in Visited(b) : Authorizes(b.managers[k].filters)
    /\ \A k \in Visited(b) : LET fs == b.managers[k].filters
                            IN \A i \in DOMAIN fs : Hardened(fs[i], role)
    /\ "opa" \in DOMAIN b.clusters => b.clusters["opa"] = "opa.sock"
PolicyHosted ==
    \A d \in Daemons :
        LET hosted == inspected[d].extension \/ (loaded[d].doc.extension /\ c(d).tracing # Unset)
        IN pc[d] = "running" /\ hosted =>
             /\ loaded[d].role = c(d).role
             /\ ~input[d].policies
             /\ c(d).mode = "standalone" => Enforcing(files["envoy.json"], c(d).role)

\* The contract for policies, docs/policy-contract.md: the extension has the role of the
\* daemon whenever OPA runs it.
RoleDerived ==
    \A d \in Daemons : pc[d] \in Loaded /\ loaded[d].doc.extension => loaded[d].role = c(d).role

\* The OTLP exporter reads the environment itself: a later level overrides an earlier
\* one, and INSECURE the scheme of the endpoint.
ExporterPlaintext(o) ==
    LET last(suffix, none) ==
            IF Get(o.traces[suffix]) # Unset THEN o.traces[suffix]
            ELSE IF Get(o.general[suffix]) # Unset THEN o.general[suffix] ELSE none
    IN CASE last("INSECURE", Unset) = "true" -> TRUE
         [] last("INSECURE", Unset) = "false" -> FALSE
         [] OTHER -> last("ENDPOINT", [scheme |-> "http"]).scheme = "http"

\* What OPA is told to export is what was asked for: spans for an https endpoint are
\* never sent in the clear, neither by the generated configuration nor by the exporter's
\* own reading of the environment, a client certificate is only used with TLS, and a
\* batch fits into the queue, defaults included.
SpansProtected ==
    \A d \in Daemons :
        LET o == input[d].env.otel
            t == loaded[d].doc.tracing
        IN pc[d] \in Loaded /\ c(d).tracing # Unset /\ ~Disabled(o) =>
             /\ TLS(o) => t.encryption # "off" /\ ~ExporterPlaintext(o)
             /\ t.tls_cert_file # Unset => TLS(o) /\ t.encryption = "mtls"
             /\ Or(t.batch["MAX_EXPORT_BATCH_SIZE"], 512) <= Or(t.batch["MAX_QUEUE_SIZE"], 2048)

-----------------------------------------------------------------------------
(* The inductive invariant behind the properties above. *)

\* The lock holder is the one daemon that has begun and not returned.
LockHeld == \A d \in Daemons : pc[d] \notin {"down", "loaded"} <=> lock = d

\* A listener belongs to a workload daemon past Listen, and is the one at the path.
ListenerOwned ==
    \A d \in Daemons :
        /\ d \in listening => socket = d /\ pc[d] \in Serving \union {"stopping"}
        /\ pc[d] \in Serving /\ Workload(d) => d \in listening

\* What the steps so far have written and read.
GuardsWritten ==
    \A d \in Daemons :
        /\ pc[d] \in {"guarded", "guards", "cleared"} \union Serving =>
              files["https-guard.lua"] = Source(c(d).role, "https")
        /\ pc[d] \in {"guards", "cleared"} \union Serving =>
              files["http-guard.lua"] = Source(c(d).role, "http")
ConfigAccepted == \A d \in Daemons : pc[d] # "down" => LoadAccepts(input[d].env)
SnapshotKept ==
    \A d \in Daemons : c(d).tracing # Unset =>
        /\ pc[d] \in {"prepared", "hosted"} \union Loaded =>
              files["opa.json"].tracing = Section(c(d).tracing)
        /\ pc[d] \in {"hosted"} \union Loaded => inspected[d] = files["opa.json"]
        /\ pc[d] \in Loaded => loaded[d].doc = files["opa.json"]
Hosted ==
    \A d \in Daemons :
        /\ pc[d] \in {"hosted"} \union Loaded /\ inspected[d].extension => ~input[d].policies
        /\ pc[d] \in Loaded /\ inspected[d].extension => loaded[d].role = c(d).role
        /\ pc[d] = "running" /\ inspected[d].extension /\ c(d).mode = "standalone" =>
              Enforcing(files["envoy.json"], c(d).role)

IndInv ==
    /\ TypeOK
    /\ LockHeld
    /\ ListenerOwned
    /\ GuardsWritten
    /\ ConfigAccepted
    /\ SnapshotKept
    /\ Hosted
=============================================================================
