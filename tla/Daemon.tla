------------------------------- MODULE Daemon -------------------------------
(***************************************************************************)
(* The supervisor of internal/daemon/daemon.go: Run starts the inspection  *)
(* SDS, the embedded OPA runtime and the proxy, watches them, and takes    *)
(* them down again in its deferred functions; Ready is the probe that      *)
(* another process runs against it.                                        *)
(*                                                                         *)
(* pc is the position of Run's goroutine.  The goroutines around           *)
(* server.Serve, embedded.Serve and proxy.Wait are one variable each:      *)
(* "done" means that the result waits in the buffered channel, "received"  *)
(* that Run has taken it, after which the channel stays empty for ever.    *)
(* Timers may expire at any moment.  When the process has exited, its      *)
(* container ends, and every process in it; the orchestrator starts it     *)
(* again unless it was asked to stop.                                      *)
(***************************************************************************)
EXTENDS Naturals

CONSTANTS
    Role,        \* "workload" (with inspection SDS) or "egress"
    ProxyMode,   \* "standalone" (Envoy) or "istio" (pilot-agent with an Envoy child)
    Probed,      \* is Ready run against the daemon?
    MaxFaults    \* bound on failures of services and processes

ASSUME RoleAssumption ==
    Role \in {"workload", "egress"} /\ ProxyMode \in {"standalone", "istio"}
ASSUME FaultsAssumption == MaxFaults \in Nat /\ Probed \in BOOLEAN

VARIABLES
    pc,          \* where Run is
    failing,     \* will Run return an error?
    healthy,     \* the flag of the supervision loop
    opaExited,   \* Run's flag: the OPA result was received
    exited,      \* Run's flag: the proxy result was received
    asked,       \* SIGTERM or SIGINT has cancelled ctx
    expired,     \* the 30 seconds of the startup context have passed
    opa,         \* the goroutine of embedded.Serve
    api,         \* OPA's health endpoint: "down", "live" or "ready" (plugins, bundles)
    authz,       \* is the authorization socket reachable?
    sds,         \* the goroutine of server.Serve
    socket,      \* what is at the SDS path: "absent", "stale", "live" or "file"
    trust,       \* is the inspection CA published?
    child,       \* the direct child: Envoy or pilot-agent
    envoy,       \* pilot-agent's Envoy, in the same process group
    proxyReady,  \* does the proxy answer its readiness check?
    signalled,   \* "none", "TERM" or "KILL": what the process group was sent
    wasReady,    \* history: OPA has been ready in this run
    cause,       \* history: something Run must stop for has happened in this run
    faults,      \* failures so far
    probe,       \* the next check of Ready, or its verdict "ok"
    dropped      \* history: something Ready asks for was lost while Ready ran

loopVars == <<failing, healthy, opaExited, exited>>
opaVars == <<opa, api, authz, wasReady>>
sdsVars == <<sds, socket, trust>>
proxyVars == <<child, envoy, proxyReady, signalled>>
systemVars == <<pc, loopVars, asked, expired, opaVars, sdsVars, proxyVars, cause, faults, probe>>
vars == <<systemVars, dropped>>

Startup == {"start", "open", "socket", "listen", "opa", "check", "dial", "retry", "launch"}
Supervising == {"select", "live", "livedial", "proxy"}
Stopping == {"term", "wait", "reap", "clear", "cancel", "waitopa", "stopsds"}
Positions == Startup \union Supervising \union Stopping \union {"returned", "down"}
Goroutine == {"none", "running", "done", "received"}

Init ==
    /\ pc = "start" /\ failing = FALSE /\ healthy = FALSE
    /\ opaExited = FALSE /\ exited = FALSE
    /\ asked = FALSE /\ expired = FALSE
    /\ opa = "none" /\ api = "down" /\ authz = FALSE /\ wasReady = FALSE
    /\ sds = "none" /\ socket \in {"absent", "stale", "file"} /\ trust \in BOOLEAN
    /\ child = "none" /\ envoy = "none" /\ proxyReady = FALSE /\ signalled = "none"
    /\ cause = FALSE /\ faults = 0
    /\ probe = "idle" /\ dropped = FALSE

-----------------------------------------------------------------------------
(* Run: from the configuration to the supervision loop. *)

At(step) == pc = step
Goto(step) == pc' = step
Fault == faults < MaxFaults /\ faults' = faults + 1

\* Run returns an error; the deferred functions registered so far run next.
Fail(step) == failing' = TRUE /\ Goto(step)

\* The startup context ends with its timeout or with ctx.
StartupDone == expired \/ asked

\* An operation of Run's preparation returns an error.
PrepareFails ==
    /\ pc \in {"start", "open", "socket", "listen", "opa", "launch"}
    /\ Fault
    /\ cause' = TRUE
    /\ Fail(IF pc = "launch" THEN "cancel" ELSE "stopsds")
    /\ UNCHANGED <<healthy, opaExited, exited, asked, expired, opaVars, sdsVars, proxyVars, probe>>

\* Configuration, runtime directory and its lock, guard files.
Prepare ==
    /\ At("start")
    /\ Goto(IF Role = "workload" THEN "open" ELSE "opa")
    /\ UNCHANGED <<loopVars, asked, expired, opaVars, sdsVars, proxyVars, cause, faults, probe>>

OpenCA ==
    /\ At("open")
    /\ trust' = TRUE
    /\ Goto("socket")
    /\ UNCHANGED <<loopVars, asked, expired, opaVars, sds, socket, proxyVars, cause, faults, probe>>

\* A socket left by an earlier process is removed, anything else is an error.
SocketKept == socket
SocketCleared == IF socket = "stale" THEN "absent" ELSE socket

ClearSocket ==
    /\ At("socket")
    /\ \/ socket # "file" /\ socket' = SocketCleared /\ Goto("listen") /\ UNCHANGED <<failing, cause>>
       \/ socket = "file" /\ Fail("stopsds") /\ cause' = TRUE /\ UNCHANGED socket
    /\ UNCHANGED <<healthy, opaExited, exited, asked, expired, opaVars, sds, trust, proxyVars,
                   faults, probe>>

\* Listening needs a free path.
Listen ==
    /\ At("listen")
    /\ \/ /\ socket = "absent"
          /\ socket' = "live" /\ sds' = "running" /\ Goto("opa")
          /\ UNCHANGED <<failing, cause>>
       \/ socket # "absent" /\ Fail("stopsds") /\ cause' = TRUE /\ UNCHANGED <<sds, socket>>
    /\ UNCHANGED <<healthy, opaExited, exited, asked, expired, opaVars, trust, proxyVars, faults,
                   probe>>

StartOPA ==
    /\ At("opa")
    /\ opa' = "running"
    /\ Goto("check")
    /\ UNCHANGED <<loopVars, asked, expired, api, authz, wasReady, sdsVars, proxyVars, cause,
                   faults, probe>>

\* checkOPA: the health endpoint with plugins and bundles, then the socket.
LiveForStart == api # "down"
ReadyForStart == api = "ready"

CheckOPA ==
    \/ /\ At("check")
       /\ Goto(IF ReadyForStart /\ ~StartupDone THEN "dial" ELSE "retry")
       /\ UNCHANGED <<loopVars, asked, expired, opaVars, sdsVars, proxyVars, cause, faults, probe>>
    \/ /\ At("dial")
       /\ Goto(IF authz /\ ~StartupDone THEN "launch" ELSE "retry")
       /\ UNCHANGED <<loopVars, asked, expired, opaVars, sdsVars, proxyVars, cause, faults, probe>>

\* The select of the startup loop: any case that is ready may be chosen.
RetryDone ==
    /\ At("retry")
    /\ StartupDone
    /\ Fail("cancel")
    /\ UNCHANGED <<healthy, opaExited, exited, asked, expired, opaVars, sdsVars, proxyVars, cause,
                   faults, probe>>

Retry ==
    /\ At("retry")
    /\ \/ /\ opa = "done" /\ opa' = "received" /\ opaExited' = TRUE
          /\ Fail("cancel") /\ UNCHANGED sds
       \/ sds = "done" /\ sds' = "received" /\ Fail("cancel") /\ UNCHANGED <<opa, opaExited>>
       \/ Goto("check") /\ UNCHANGED <<failing, opa, opaExited, sds>>
    /\ UNCHANGED <<healthy, exited, asked, expired, api, authz, wasReady, socket, trust, proxyVars,
                   cause, faults, probe>>

Launch ==
    /\ At("launch")
    /\ child' = "running"
    /\ Goto("select")
    /\ UNCHANGED <<loopVars, asked, expired, opaVars, sdsVars, envoy, proxyReady, signalled, cause,
                   faults, probe>>

-----------------------------------------------------------------------------
(* Run: the supervision loop. *)

\* The flag that tells the deferred function not to wait for the proxy again.
ExitForgotten == exited
ExitNoted == TRUE

\* The cases of the loop's select: any one that is ready may be chosen.
SelectDone ==
    /\ At("select") /\ asked
    /\ Goto("term")
    /\ UNCHANGED <<loopVars, asked, expired, opaVars, sdsVars, proxyVars, cause, faults, probe>>

SelectOPA ==
    /\ At("select")
    /\ opa = "done" /\ opa' = "received" /\ opaExited' = TRUE
    /\ Fail("term")
    /\ UNCHANGED <<healthy, exited, asked, expired, api, authz, wasReady, sdsVars, proxyVars, cause,
                   faults, probe>>

SelectProxy ==
    /\ At("select")
    /\ child = "done" /\ child' = "received" /\ exited' = ExitNoted
    /\ Fail("term")
    /\ UNCHANGED <<healthy, opaExited, asked, expired, opaVars, sdsVars, envoy, proxyReady,
                   signalled, cause, faults, probe>>

SDSIgnored == FALSE
SDSStopped == sds = "done"
SelectSDS ==
    /\ At("select")
    /\ SDSStopped /\ sds' = "received"
    /\ Fail("term")
    /\ UNCHANGED <<healthy, opaExited, exited, asked, expired, opaVars, socket, trust, proxyVars,
                   cause, faults, probe>>

SelectTick ==
    /\ At("select")
    /\ Goto("live")
    /\ UNCHANGED <<loopVars, asked, expired, opaVars, sdsVars, proxyVars, cause, faults, probe>>

\* checkOPALiveness asks for less than checkOPA: a bundle that cannot be used
\* makes the daemon unready and does not end it.
NeedsBundles == api = "ready"
Live == api # "down"

CheckLiveness ==
    /\ \/ At("live") /\ Live /\ ~asked /\ Goto("livedial") /\ UNCHANGED failing
       \/ At("livedial") /\ authz /\ ~asked /\ Goto("proxy") /\ UNCHANGED failing
       \/ At("live") /\ (~Live \/ asked) /\ Fail("term")
       \/ At("livedial") /\ (~authz \/ asked) /\ Fail("term")
    /\ UNCHANGED <<healthy, opaExited, exited, asked, expired, opaVars, sdsVars, proxyVars, cause,
                   faults, probe>>

\* A proxy that has been ready may not become unready; one that has not been is
\* given the startup time.
StartupOver == StartupDone

CheckProxy ==
    /\ At("proxy")
    /\ LET ok == proxyReady /\ ~asked IN
       \/ ok /\ healthy' = TRUE /\ Goto("select") /\ UNCHANGED failing
       \/ ~ok /\ (healthy \/ StartupOver) /\ Fail("term") /\ UNCHANGED healthy
       \/ ~ok /\ ~healthy /\ ~StartupOver /\ Goto("select") /\ UNCHANGED <<healthy, failing>>
    /\ UNCHANGED <<opaExited, exited, asked, expired, opaVars, sdsVars, proxyVars, cause, faults,
                   probe>>

-----------------------------------------------------------------------------
(* Run: the deferred functions, last registered first. *)

\* SIGTERM goes to the process group, also when its first process has exited; then
\* Run waits for the child unless it is known to have exited. Nothing reads the loop's
\* flag or the startup time again.
TermUnlessExited == IF exited THEN signalled ELSE "TERM"
TermSent == "TERM"
NoWait == TRUE
KnownExited == exited

Terminate ==
    /\ At("term")
    /\ signalled' = TermSent
    /\ Goto(IF KnownExited THEN "clear" ELSE "wait")
    /\ healthy' = FALSE /\ expired' = FALSE
    /\ UNCHANGED <<failing, opaExited, exited, asked, opaVars, sdsVars, child, envoy, proxyReady,
                   cause, faults, probe>>

\* The result of proxy.Wait, or five seconds and SIGKILL.
AwaitProxy ==
    /\ \/ /\ pc \in {"wait", "reap"}
          /\ child = "done" /\ child' = "received"
          /\ Goto("clear") /\ UNCHANGED signalled
       \/ /\ At("wait")
          /\ signalled' = "KILL"
          /\ Goto("reap") /\ UNCHANGED child
    /\ UNCHANGED <<loopVars, asked, expired, opaVars, sdsVars, envoy, proxyReady, cause, faults,
                   probe>>

\* An error that a requested stop has caused is not reported.
ErrorKept == failing
ErrorCleared == failing /\ ~asked

ClearError ==
    /\ At("clear")
    /\ failing' = ErrorCleared
    /\ Goto("cancel")
    /\ UNCHANGED <<healthy, opaExited, exited, asked, expired, opaVars, sdsVars, proxyVars, cause,
                   faults, probe>>

\* OPA's context is cancelled and its result awaited for at most five seconds.
CancelOPA ==
    /\ \/ At("cancel") /\ Goto(IF opaExited THEN "stopsds" ELSE "waitopa") /\ UNCHANGED opa
       \/ At("waitopa") /\ opa = "done" /\ opa' = "received" /\ Goto("stopsds")
       \/ At("waitopa") /\ Goto("stopsds") /\ UNCHANGED opa
    /\ UNCHANGED <<loopVars, asked, expired, api, authz, wasReady, sdsVars, proxyVars, cause,
                   faults, probe>>

\* The SDS server stops and its socket is removed; the CA and the runtime directory
\* are unlocked and Run returns.
StopSDS ==
    /\ At("stopsds")
    /\ sds' = IF sds = "running" THEN "done" ELSE sds
    /\ socket' = IF socket = "live" THEN "absent" ELSE socket
    /\ Goto("returned")
    /\ UNCHANGED <<loopVars, asked, expired, opaVars, trust, proxyVars, cause, faults, probe>>

\* What Run does by itself, but for the cases of its selects.
Advance ==
    \/ Prepare \/ OpenCA \/ ClearSocket \/ Listen \/ StartOPA \/ CheckOPA \/ Retry \/ Launch
    \/ SelectTick \/ CheckLiveness \/ CheckProxy
    \/ Terminate \/ AwaitProxy \/ ClearError \/ CancelOPA \/ StopSDS
Run == Advance \/ RetryDone \/ SelectDone \/ SelectOPA \/ SelectProxy \/ SelectSDS

-----------------------------------------------------------------------------
(* The services, the processes and the orchestrator. *)

runVars == <<pc, loopVars>>

Signal ==
    /\ pc # "down" /\ ~asked
    /\ asked' = TRUE
    /\ UNCHANGED <<runVars, expired, opaVars, sdsVars, proxyVars, cause, faults, probe>>

\* The startup time; it does not matter any more once the proxy has been ready.
StartupExpires ==
    /\ pc \in {"check", "dial", "retry", "launch"} \union Supervising
    /\ ~healthy /\ ~expired
    /\ expired' = TRUE /\ cause' = TRUE
    /\ UNCHANGED <<runVars, asked, opaVars, sdsVars, proxyVars, faults, probe>>

\* OPA loads its bundles and opens its sockets.
OPAUp ==
    /\ opa = "running"
    /\ \/ api = "down" /\ api' = "live" /\ UNCHANGED <<authz, wasReady>>
       \/ api = "live" /\ api' = "ready" /\ wasReady' = TRUE /\ UNCHANGED authz
       \/ ~authz /\ authz' = TRUE /\ UNCHANGED <<api, wasReady>>
    /\ UNCHANGED <<runVars, asked, expired, opa, sdsVars, proxyVars, cause, faults, probe>>

\* A bundle update that cannot be used: OPA stays live and is not ready.
BundleRejected ==
    /\ api = "ready" /\ api' = "live"
    /\ Fault
    /\ UNCHANGED <<runVars, asked, expired, opa, authz, wasReady, sdsVars, proxyVars, cause, probe>>

\* OPA loses its health endpoint or its authorization socket.
OPALost ==
    /\ opa = "running"
    /\ Fault /\ cause' = TRUE
    /\ \/ api # "down" /\ api' = "down" /\ UNCHANGED authz
       \/ authz /\ authz' = FALSE /\ UNCHANGED api
    /\ UNCHANGED <<runVars, asked, expired, opa, wasReady, sdsVars, proxyVars, probe>>

\* embedded.Serve returns, because its context is cancelled or because it failed.
OPAStops ==
    /\ opa = "running" /\ opa' = "done"
    /\ api' = "down" /\ authz' = FALSE
    /\ \/ (asked \/ At("waitopa")) /\ UNCHANGED <<cause, faults>>
       \/ Fault /\ cause' = TRUE
    /\ UNCHANGED <<runVars, asked, expired, wasReady, sdsVars, proxyVars, probe>>

SDSFails ==
    /\ sds = "running" /\ sds' = "done" /\ socket' = "absent"
    /\ Fault /\ cause' = TRUE
    /\ UNCHANGED <<runVars, asked, expired, opaVars, trust, proxyVars, probe>>

\* The process that answers the readiness check of the proxy.
Serving == IF ProxyMode = "istio" THEN envoy = "running" ELSE child = "running"

EnvoyStarts ==
    /\ ProxyMode = "istio" /\ child = "running" /\ envoy = "none"
    /\ envoy' = "running"
    /\ UNCHANGED <<runVars, asked, expired, opaVars, sdsVars, child, proxyReady, signalled, cause,
                   faults, probe>>

ProxyUp ==
    /\ Serving /\ ~proxyReady
    /\ proxyReady' = TRUE
    /\ UNCHANGED <<runVars, asked, expired, opaVars, sdsVars, child, envoy, signalled, cause, faults,
                   probe>>

ProxyUnready ==
    /\ proxyReady /\ proxyReady' = FALSE
    /\ Fault /\ cause' = TRUE
    /\ UNCHANGED <<runVars, asked, expired, opaVars, sdsVars, child, envoy, signalled, probe>>

\* The direct child exits and proxy.Wait returns; a signalled process may exit
\* late, one that was sent SIGKILL does exit.
ChildExits ==
    /\ child = "running" /\ child' = "done"
    /\ proxyReady' = (proxyReady /\ ProxyMode = "istio")
    /\ \/ signalled # "none" /\ UNCHANGED <<cause, faults>>
       \/ Fault /\ cause' = TRUE
    /\ UNCHANGED <<runVars, asked, expired, opaVars, sdsVars, envoy, signalled, probe>>

EnvoyExits ==
    /\ envoy = "running" /\ envoy' = "done" /\ proxyReady' = FALSE
    /\ \/ signalled # "none" /\ UNCHANGED <<cause, faults>>
       \/ Fault /\ cause' = TRUE
    /\ UNCHANGED <<runVars, asked, expired, opaVars, sdsVars, child, signalled, probe>>

\* The container ends with its first process, and every process in it; what the run
\* knew is lost.
Teardown ==
    /\ Goto("down")
    /\ failing' = FALSE /\ healthy' = FALSE /\ opaExited' = FALSE /\ exited' = FALSE
    /\ expired' = FALSE /\ wasReady' = FALSE /\ cause' = FALSE
    /\ opa' = "none" /\ api' = "down" /\ authz' = FALSE
    /\ sds' = "none"
    /\ child' = "none" /\ envoy' = "none" /\ proxyReady' = FALSE /\ signalled' = "none"
    /\ UNCHANGED <<asked, trust, probe>>

\* main exits with the status of Run.
Exit == At("returned") /\ Teardown /\ UNCHANGED <<socket, faults>>

\* The daemon is killed, or OPA ends the process; its socket stays behind.
Crash ==
    /\ pc \notin {"down", "returned"}
    /\ Fault
    /\ socket' = IF socket = "live" THEN "stale" ELSE socket
    /\ Teardown

\* A new run with the same volumes.
Restart ==
    /\ At("down") /\ ~asked
    /\ Goto("start")
    /\ UNCHANGED <<loopVars, asked, expired, opaVars, sdsVars, proxyVars, cause, faults, probe>>

-----------------------------------------------------------------------------
(* Ready: a sequence of checks from another process. *)

\* The checks of Ready, and what each of them finds.
ReadyCheck == [ca |-> trust, sds |-> socket = "live", opa |-> api = "ready", opadial |-> authz,
               proxy |-> proxyReady]
ReadySkips == [ca |-> "sds", sds |-> "opadial", opa |-> "opadial", opadial |-> "proxy",
               proxy |-> "ok"]
ReadyNext == [ca |-> "sds", sds |-> "opa", opa |-> "opadial", opadial |-> "proxy", proxy |-> "ok"]

\* The checks that the role asks for.
Required == IF Role = "workload" THEN DOMAIN ReadyCheck ELSE {"opa", "opadial", "proxy"}

Ready ==
    /\ \/ Probed /\ probe = "idle" /\ probe' = IF Role = "workload" THEN "ca" ELSE "opa"
       \/ /\ probe \in DOMAIN ReadyCheck /\ ReadyCheck[probe]
          /\ probe' = ReadyNext[probe]
       \/ probe # "idle" /\ probe' = "idle"
    /\ UNCHANGED <<runVars, asked, expired, opaVars, sdsVars, proxyVars, cause, faults>>

-----------------------------------------------------------------------------

Services == OPAUp \/ EnvoyStarts \/ ProxyUp
Failures ==
    \/ PrepareFails \/ BundleRejected \/ OPALost \/ SDSFails \/ ProxyUnready \/ Crash
Step ==
    \/ Run \/ Services \/ Failures \/ Ready
    \/ Signal \/ StartupExpires \/ OPAStops \/ ChildExits \/ EnvoyExits \/ Exit \/ Restart

\* The history of a probe: what it has checked may be lost before its last check.
Checked == [idle |-> {}, ca |-> {}, sds |-> {"ca"}, opa |-> {"ca", "sds"},
            opadial |-> {"ca", "sds", "opa"}, proxy |-> {"ca", "sds", "opa", "opadial"}, ok |-> {}]
Losing == \E k \in Checked[probe] \intersect Required : ReadyCheck[k] /\ ~ReadyCheck'[k]
Observe == dropped' = (Checked[probe] # {} /\ (dropped \/ Losing))

Next == Step /\ Observe

Spec == Init /\ [][Next]_vars

\* Run's goroutine is scheduled, select does not pass over a case for ever, a process
\* that was sent SIGKILL exits, and so does main after Run.
FairSpec ==
    /\ Spec
    /\ WF_systemVars(Advance)
    /\ SF_systemVars(RetryDone) /\ SF_systemVars(SelectOPA)
    /\ SF_systemVars(SelectProxy) /\ SF_systemVars(SelectSDS)
    /\ WF_systemVars(signalled = "KILL" /\ ChildExits)
    /\ WF_systemVars(Exit)

\* The startup time passes.
TimeFairness == WF_systemVars(StartupExpires)

\* The orchestrator starts the container again, and OPA and the proxy come up when
\* they are given the time.
RestartFairness ==
    /\ WF_systemVars(Restart)
    /\ WF_systemVars(OPAUp) /\ WF_systemVars(EnvoyStarts) /\ WF_systemVars(ProxyUp)

\* From some time on, the startup time of a run that has lost nothing is long enough
\* for its services; that of any other run passes.
TimeEnough ==
    /\ WF_systemVars(cause /\ StartupExpires)
    /\ <>[][StartupExpires => cause]_vars

-----------------------------------------------------------------------------
(* Properties. *)

\* The type of every variable: positions and states of processes, and flags.
TypePositions ==
    /\ pc \in Positions
    /\ opa \in Goroutine /\ api \in {"down", "live", "ready"}
    /\ sds \in Goroutine /\ socket \in {"absent", "stale", "live", "file"}
    /\ child \in Goroutine /\ envoy \in {"none", "running", "done"}
    /\ signalled \in {"none", "TERM", "KILL"}
    /\ faults \in Nat
    /\ probe \in {"idle", "ca", "sds", "opa", "opadial", "proxy", "ok"}
TypeFlags ==
    /\ failing \in BOOLEAN /\ healthy \in BOOLEAN /\ opaExited \in BOOLEAN /\ exited \in BOOLEAN
    /\ asked \in BOOLEAN /\ expired \in BOOLEAN
    /\ authz \in BOOLEAN /\ trust \in BOOLEAN /\ proxyReady \in BOOLEAN
    /\ wasReady \in BOOLEAN /\ cause \in BOOLEAN
TypeOK == TypePositions /\ TypeFlags /\ dropped \in BOOLEAN

\* Run never waits for a result that it has taken before: the channels are filled
\* once, and a second receive would block for ever.
ResultPending ==
    /\ pc \in {"wait", "reap"} => child \in {"running", "done"}
    /\ pc = "waitopa" => opa \in {"running", "done"}

\* No proxy process runs before the policy engine of the same run has had its
\* plugins and bundles ready: no restart or failed check leads around it.
PolicyBeforeProxy == child # "none" \/ envoy # "none" => wasReady

\* When Run cancels OPA and stops the SDS, the direct child has been waited for:
\* the certificates outlive the proxy that asks for them.
ChildReaped ==
    pc \in {"clear", "cancel", "waitopa", "stopsds", "returned"} => child \in {"none", "received"}

\* Run takes its services down only when it was asked to stop or lost something it
\* requires; a bundle update that OPA rejects is not such a loss.
StopHasCause == pc \in Stopping \union {"returned"} => asked \/ cause

\* Run reports success only when it was asked to stop and, once the proxy runs,
\* failure only when something failed: the probes and services that a requested
\* stop interrupts are not reported as failures.
ExitStatus ==
    pc = "returned" =>
        /\ ~failing => asked
        /\ failing /\ child # "none" => cause

\* No process of the proxy's group runs any more when Run has returned.
GroupStopped == pc = "returned" => child # "running" /\ envoy # "running"

\* Where Run stops OPA and the SDS, every process of the proxy's group that still runs
\* has been told to stop, also when the first process of the group is gone.
GroupSignalled ==
    pc \in {"clear", "cancel", "waitopa", "stopsds", "returned"} =>
        (child = "running" \/ envoy = "running" => signalled # "none")

\* Ready succeeds only for a run whose policy engine has been ready, and only when all
\* that the role asks for is there at once, unless something was lost while it ran:
\* also when the daemon is restarted between two of its checks.
ReadyMeansServing ==
    [][probe = "proxy" /\ probe' = "ok" =>
          /\ wasReady /\ (Role = "workload" => trust)
          /\ dropped \/ \A k \in Required : ReadyCheck[k]]_vars

\* Once asked to stop, the daemon ends, whatever OPA and the proxy do.
StopCompletes == asked ~> pc = "down"

\* Run does not supervise for ever while something it requires is lost.
LossNoticed ==
    TimeFairness /\ <>[](pc \in Supervising) =>
        <>[]( /\ opa = "running" /\ api # "down" /\ authz
              /\ child = "running" /\ proxyReady
              /\ Role = "workload" => sds = "running")

\* The daemon supervises healthy services and Ready would succeed.
Serves == pc \in Supervising /\ healthy /\ \A k \in Required : ReadyCheck[k]

\* After finitely many failures, with an orchestrator that restarts it and a startup
\* time that is long enough, the daemon serves and stays so: nothing that a run leaves
\* behind keeps later runs from it. Excepted are a request to stop and a foreign file
\* in the socket's place.
Recovers == RestartFairness /\ TimeEnough => <>[](Serves \/ asked \/ socket = "file")

-----------------------------------------------------------------------------
(* The inductive invariant behind the safety properties. *)

\* Which processes and results there are at each position of Run.
Placed ==
    /\ pc \in Startup \union {"down"} => child = "none" /\ envoy = "none" /\ signalled = "none"
    /\ pc \in Supervising => child # "none" /\ signalled = "none"
    /\ pc \in {"term", "wait", "reap"} => child # "none"
    /\ pc \in Stopping \union {"returned"} /\ pc # "term" =>
          (child = "none" /\ envoy = "none") \/ signalled # "none"
    /\ pc \in Supervising \union {"term", "wait", "reap"} => (exited <=> child = "received")
    /\ pc \in {"start", "open", "socket", "listen", "opa", "down"} => opa = "none"
    /\ pc \in {"check", "dial", "retry", "launch"} \union Supervising
             \union {"term", "wait", "reap", "clear", "cancel", "waitopa"} =>
          opa # "none" /\ (opaExited <=> opa = "received")
    /\ pc \in {"check", "dial", "retry", "launch"} \union Supervising => ~opaExited
    /\ opa = "none" => ~opaExited
    /\ pc \in {"wait", "reap"} => ~exited
    /\ pc = "waitopa" => ~opaExited
    /\ pc = "down" => sds = "none" /\ ~proxyReady
    /\ pc \in Startup \union {"down"} => ~healthy /\ ~exited
    /\ proxyReady => Serving
    /\ ProxyMode = "standalone" => envoy = "none"

\* What OPA has reported on the way to the proxy.
Reported ==
    /\ api = "ready" => wasReady
    /\ pc \in {"dial", "launch"} => wasReady
    /\ opa = "none" => api = "down" /\ ~authz /\ child = "none" /\ envoy = "none"
    /\ Role = "workload" /\ (opa # "none" \/ pc \in {"socket", "listen", "opa"}) => trust

\* A run that was not asked to stop and has lost nothing is not taken down.
NothingLost ==
    ~asked /\ ~cause =>
        /\ pc \in Startup \union Supervising \union {"down"}
        /\ opa \in {"none", "running"} /\ sds \in {"none", "running"}
        /\ child \in {"none", "running"} /\ envoy # "done"
        /\ pc \in {"dial", "launch"} \union Supervising => api # "down"
        /\ pc \in {"launch"} \union Supervising => authz
        /\ (healthy => proxyReady) /\ ~expired

\* What Run is going to report once it takes its services down.
StatusPlanned ==
    /\ pc \in Stopping \union {"returned"} /\ ~failing => asked
    /\ pc \in {"cancel", "waitopa", "stopsds", "returned"} /\ failing /\ child # "none" => cause

\* Everything about the run and its services.
Supervision ==
    Placed /\ Reported /\ NothingLost /\ StatusPlanned /\ PolicyBeforeProxy /\ ChildReaped
SystemInv == TypePositions /\ TypeFlags /\ Supervision

\* What a probe has checked is still there, unless it was lost since.
ProbeInv ==
    /\ dropped \in BOOLEAN
    /\ ~dropped => \A k \in Checked[probe] \intersect Required : ReadyCheck[k]

\* What every step of Run and of its environment preserves.
DaemonInv == SystemInv /\ ProbeInv
=============================================================================
