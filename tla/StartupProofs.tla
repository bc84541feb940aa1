---------------------------- MODULE StartupProofs ----------------------------
(***************************************************************************)
(* Proofs about Startup, for any number of daemons on a runtime directory, *)
(* any environments and bootstraps, any number of kills and of changes of  *)
(* the mounted OPA configuration.                                          *)
(***************************************************************************)
EXTENDS Startup, TLAPS

\* What the daemons are given never changes.
Given == input \in Inputs
StartupInv == IndInv /\ Given

\* Whoever has the lock is alone past "loaded".
LEMMA OthersIdle ==
    ASSUME LockHeld, NEW d \in Daemons, pc[d] \notin {"down", "loaded"}
    PROVE  \A e \in Daemons : e # d => pc[e] \in {"down", "loaded"}
BY DEF LockHeld

\* No step changes the inputs, and so what Load makes of them.
LEMMA InputsFixed ==
    ASSUME [Next]_vars
    PROVE  input' = input /\ \A d \in Daemons : c(d)' = c(d) /\ Workload(d)' = Workload(d)
<1>1. input' = input
  BY DEF Next, Run, LoadConfig, TakeLock, Refused, WriteHTTPSGuard, WriteHTTPGuard, ClearSocket,
         Listen, PrepareOPA, ConfigurePolicyHost, NewRuntime, Launch, Stop, Return, Kill, Remount,
         vars
<1> QED BY <1>1 DEF c, Workload

\* The type is preserved.
LEMMA TypeStep == IndInv /\ [Next]_vars => TypeOK'
<1> SUFFICES ASSUME IndInv, [Next]_vars PROVE TypeOK'
  OBVIOUS
<1> USE DEF TypeOK, Move, Started
<1>0. TypeOK
  BY DEF IndInv
<1>1. ASSUME NEW d \in Daemons, LoadConfig(d) \/ TakeLock(d) \/ Refused(d) PROVE TypeOK'
  BY <1>0, <1>1 DEF LoadConfig, TakeLock, Refused
<1>2. ASSUME NEW d \in Daemons, WriteHTTPSGuard(d) PROVE TypeOK'
  BY <1>0, <1>2 DEF WriteHTTPSGuard, Written
<1>3. ASSUME NEW d \in Daemons, WriteHTTPGuard(d) PROVE TypeOK'
  BY <1>0, <1>3 DEF WriteHTTPGuard, Written
<1>4. ASSUME NEW d \in Daemons, ClearSocket(d) \/ Listen(d) PROVE TypeOK'
  BY <1>0, <1>4 DEF ClearSocket, Listen
<1>5. ASSUME NEW d \in Daemons, PrepareOPA(d) PROVE TypeOK'
  BY <1>0, <1>5 DEF PrepareOPA, Written
<1>6. ASSUME NEW d \in Daemons, ConfigurePolicyHost(d) \/ NewRuntime(d) PROVE TypeOK'
  BY <1>0, <1>6 DEF ConfigurePolicyHost, NewRuntime
<1>7. ASSUME NEW d \in Daemons, Launch(d) PROVE TypeOK'
  BY <1>0, <1>7 DEF Launch, Written
<1>8. ASSUME NEW d \in Daemons, Stop(d) PROVE TypeOK'
  BY <1>0, <1>8 DEF Stop
<1>9. ASSUME NEW d \in Daemons, Return(d) PROVE TypeOK'
  BY <1>0, <1>9 DEF Return, Deferred, Unlisten, Unlock
<1>10. ASSUME NEW d \in Daemons, Kill(d) PROVE TypeOK'
  BY <1>0, <1>10 DEF Kill, Unlock
<1>11. ASSUME NEW doc \in OPADocs, Remount(doc) PROVE TypeOK'
  BY <1>0, <1>11 DEF Remount
<1>12. CASE UNCHANGED vars
  BY <1>0, <1>12 DEF vars
<1> QED BY <1>1, <1>2, <1>3, <1>4, <1>5, <1>6, <1>7, <1>8, <1>9, <1>10, <1>11, <1>12
        DEF Next, Run

\* The lock stays with the one daemon that has begun.
LEMMA LockStep == IndInv /\ [Next]_vars => LockHeld'
<1> SUFFICES ASSUME IndInv, [Next]_vars PROVE LockHeld'
  OBVIOUS
<1> USE DEF LockHeld, Move
<1>0. TypeOK /\ LockHeld /\ NoDaemon \notin Daemons
  BY DaemonsAssumption DEF IndInv
<1>1. ASSUME NEW d \in Daemons, LoadConfig(d) \/ TakeLock(d) \/ Refused(d) PROVE LockHeld'
  BY <1>0, <1>1 DEF LoadConfig, TakeLock, Refused, MayLock, TypeOK
<1>2. ASSUME NEW d \in Daemons, lock' = lock, NEW q, pc' = [pc EXCEPT ![d] = q],
             pc[d] \notin {"down", "loaded"}, q \notin {"down", "loaded"}
      PROVE  LockHeld'
  BY <1>0, <1>2 DEF TypeOK
<1>3. ASSUME NEW d \in Daemons,
             \/ WriteHTTPSGuard(d) \/ WriteHTTPGuard(d) \/ ClearSocket(d) \/ Listen(d)
             \/ PrepareOPA(d) \/ ConfigurePolicyHost(d) \/ NewRuntime(d) \/ Launch(d) \/ Stop(d)
      PROVE  LockHeld'
  BY <1>2, <1>3 DEF WriteHTTPSGuard, WriteHTTPGuard, ClearSocket, Listen, PrepareOPA,
         ConfigurePolicyHost, NewRuntime, Launch, Stop, Started
<1>4. ASSUME NEW d \in Daemons, Return(d) PROVE LockHeld'
  BY <1>0, <1>4 DEF Return, Deferred, Unlock, TypeOK
<1>5. ASSUME NEW d \in Daemons, Kill(d) PROVE LockHeld'
  BY <1>0, <1>5 DEF Kill, Unlock, TypeOK
<1>6. CASE UNCHANGED vars \/ \E doc \in OPADocs : Remount(doc)
  BY <1>0, <1>6 DEF vars, Remount
<1> QED BY <1>1, <1>3, <1>4, <1>5, <1>6 DEF Next, Run

\* The SDS path leads to the daemon that listens.
LEMMA ListenerStep == IndInv /\ [Next]_vars => ListenerOwned'
<1> SUFFICES ASSUME IndInv, [Next]_vars PROVE ListenerOwned'
  OBVIOUS
<1> USE DEF ListenerOwned, Move, Serving, Loaded
<1>0. /\ TypeOK /\ LockHeld /\ ListenerOwned /\ NoDaemon \notin Daemons
      /\ \A d \in Daemons : Workload(d)' = Workload(d)
  BY DaemonsAssumption, InputsFixed DEF IndInv
<1>1. ASSUME NEW d \in Daemons, UNCHANGED <<listening, socket>>, NEW q,
             pc' = [pc EXCEPT ![d] = q],
             d \in listening => q \in Serving \union {"stopping"},
             q \in Serving => pc[d] \in Serving \/ ~Workload(d)
      PROVE  ListenerOwned'
  BY <1>0, <1>1 DEF TypeOK
<1>2. ASSUME NEW d \in Daemons,
             \/ LoadConfig(d) \/ TakeLock(d) \/ Refused(d) \/ WriteHTTPSGuard(d)
             \/ PrepareOPA(d) \/ ConfigurePolicyHost(d) \/ NewRuntime(d) \/ Launch(d) \/ Stop(d)
      PROVE  ListenerOwned'
  BY <1>0, <1>1, <1>2 DEF LoadConfig, TakeLock, Refused, WriteHTTPSGuard, PrepareOPA,
         ConfigurePolicyHost, NewRuntime, Launch, Stop, Started
<1>3. ASSUME NEW d \in Daemons, WriteHTTPGuard(d) PROVE ListenerOwned'
  <2>1. CASE Workload(d)
    BY <1>0, <1>1, <1>3, <2>1 DEF WriteHTTPGuard
  <2>2. CASE ~Workload(d)
    BY <1>0, <1>1, <1>3, <2>2 DEF WriteHTTPGuard
  <2> QED BY <2>1, <2>2
<1>4. ASSUME NEW d \in Daemons, pc[d] \in {"guards", "cleared"} PROVE listening = {}
  <2>1. \A e \in Daemons : e # d => pc[e] \in {"down", "loaded"}
    BY <1>0, <1>4, OthersIdle
  <2> QED BY <1>0, <1>4, <2>1 DEF TypeOK
<1>5. ASSUME NEW d \in Daemons, ClearSocket(d) PROVE ListenerOwned'
  <2>1. /\ listening = {} /\ listening' = {} /\ pc[d] = "guards"
        /\ \A e \in Daemons : pc'[e] = IF e = d THEN "cleared" ELSE pc[e]
    BY <1>0, <1>4, <1>5 DEF ClearSocket, TypeOK
  <2> QED BY <1>0, <2>1
<1>6. ASSUME NEW d \in Daemons, Listen(d) PROVE ListenerOwned'
  <2>1. /\ listening = {} /\ listening' = {d} /\ socket' = d /\ pc[d] = "cleared"
        /\ \A e \in Daemons : pc'[e] = IF e = d THEN "serving" ELSE pc[e]
    BY <1>0, <1>4, <1>6 DEF Listen, TypeOK
  <2> QED BY <1>0, <2>1
<1>7. ASSUME NEW d \in Daemons, Return(d) PROVE ListenerOwned'
  <2>1. \A e \in Daemons : e # d => pc[e] \in {"down", "loaded"} /\ e \notin listening
    BY <1>0, <1>7, OthersIdle DEF Return, Deferred
  <2>2. CASE Move(d, "stopping", "stopped") /\ Unlisten(d)
    <3>1. listening' = {} /\ \A e \in Daemons : pc'[e] \notin Serving
      BY <1>0, <2>1, <2>2 DEF Unlisten, TypeOK
    <3> QED BY <3>1
  <2>3. CASE Move(d, "stopped", "down") /\ UNCHANGED <<listening, socket>>
    <3>1. listening' = {} /\ \A e \in Daemons : pc'[e] \notin Serving
      BY <1>0, <2>1, <2>3 DEF TypeOK
    <3> QED BY <3>1
  <2> QED BY <1>7, <2>2, <2>3 DEF Return, Deferred
<1>8. ASSUME NEW d \in Daemons, Kill(d) PROVE ListenerOwned'
  <2>1. /\ listening' = listening \ {d} /\ socket' = socket
        /\ \A e \in Daemons : pc'[e] = IF e = d THEN "down" ELSE pc[e]
    BY <1>0, <1>8 DEF Kill, TypeOK
  <2> QED BY <1>0, <2>1
<1>9. CASE UNCHANGED vars \/ \E doc \in OPADocs : Remount(doc)
  BY <1>0, <1>9 DEF vars, Remount
<1> QED BY <1>2, <1>3, <1>5, <1>6, <1>7, <1>8, <1>9 DEF Next, Run

\* The guards are written before the daemon serves, and by nobody else since.
LEMMA GuardsStep == IndInv /\ [Next]_vars => GuardsWritten'
<1> SUFFICES ASSUME IndInv, [Next]_vars PROVE GuardsWritten'
  OBVIOUS
<1> DEFINE One == {"guarded", "guards", "cleared"} \union Serving
           Two == {"guards", "cleared"} \union Serving
<1> USE DEF Move, Serving, Loaded
<1>0. /\ TypeOK /\ LockHeld /\ GuardsWritten
      /\ \A d \in Daemons : c(d)' = c(d)
  BY InputsFixed DEF IndInv
<1>1. ASSUME NEW d \in Daemons, NEW q, pc' = [pc EXCEPT ![d] = q],
             files'["https-guard.lua"] = files["https-guard.lua"],
             files'["http-guard.lua"] = files["http-guard.lua"],
             q \in One => pc[d] \in One, q \in Two => pc[d] \in Two
      PROVE  GuardsWritten'
  <2>1. \A e \in Daemons : (pc'[e] \in One => pc[e] \in One) /\ (pc'[e] \in Two => pc[e] \in Two)
    BY <1>0, <1>1 DEF TypeOK
  <2> QED BY <1>0, <1>1, <2>1 DEF GuardsWritten
<1>2. ASSUME NEW d \in Daemons,
             \/ LoadConfig(d) \/ TakeLock(d) \/ Refused(d) \/ ClearSocket(d) \/ Listen(d)
             \/ ConfigurePolicyHost(d) \/ NewRuntime(d) \/ Stop(d) \/ Return(d) \/ Kill(d)
      PROVE  GuardsWritten'
  BY <1>1, <1>2 DEF LoadConfig, TakeLock, Refused, ClearSocket, Listen, ConfigurePolicyHost,
         NewRuntime, Stop, Return, Deferred, Kill
<1>3. ASSUME NEW d \in Daemons, PrepareOPA(d) \/ Launch(d) PROVE GuardsWritten'
  <2>1. /\ files'["https-guard.lua"] = files["https-guard.lua"]
        /\ files'["http-guard.lua"] = files["http-guard.lua"]
    BY <1>0, <1>3 DEF PrepareOPA, Launch, Written, TypeOK, Generated
  <2> QED BY <1>1, <1>3, <2>1 DEF PrepareOPA, Launch
<1>4. ASSUME NEW d \in Daemons, WriteHTTPSGuard(d) PROVE GuardsWritten'
  <2>1. /\ files'["https-guard.lua"] = Source(c(d).role, "https")
        /\ pc[d] = "locked" /\ \A e \in Daemons : pc'[e] = IF e = d THEN "guarded" ELSE pc[e]
    BY <1>0, <1>4 DEF WriteHTTPSGuard, Written, TypeOK, Generated
  <2>2. \A e \in Daemons : e # d => pc[e] \in {"down", "loaded"}
    BY <1>0, <2>1, OthersIdle
  <2> QED BY <1>0, <2>1, <2>2 DEF GuardsWritten
<1>5. ASSUME NEW d \in Daemons, WriteHTTPGuard(d) PROVE GuardsWritten'
  <2>1. /\ files'["http-guard.lua"] = Source(c(d).role, "http")
        /\ files'["https-guard.lua"] = files["https-guard.lua"]
        /\ pc[d] = "guarded" /\ \A e \in Daemons : e # d => pc'[e] = pc[e]
    BY <1>0, <1>5 DEF WriteHTTPGuard, Written, TypeOK, Generated
  <2>2. \A e \in Daemons : e # d => pc[e] \in {"down", "loaded"}
    BY <1>0, <2>1, OthersIdle
  <2> QED BY <1>0, <2>1, <2>2 DEF GuardsWritten
<1>6. CASE UNCHANGED vars \/ \E doc \in OPADocs : Remount(doc)
  <2>1. UNCHANGED <<pc, files>>
    BY <1>6 DEF vars, Remount
  <2> QED BY <1>0, <2>1 DEF GuardsWritten
<1> QED BY <1>2, <1>3, <1>4, <1>5, <1>6 DEF Next, Run

\* A daemon that runs was given an environment config.Load accepts.
LEMMA AcceptedStep == IndInv /\ [Next]_vars => ConfigAccepted'
<1> SUFFICES ASSUME IndInv, [Next]_vars PROVE ConfigAccepted'
  OBVIOUS
<1> USE DEF Move, ConfigAccepted
<1>0. TypeOK /\ ConfigAccepted /\ input' = input
  BY InputsFixed DEF IndInv
<1>1. ASSUME NEW d \in Daemons, NEW q, pc' = [pc EXCEPT ![d] = q],
             q = "down" \/ pc[d] # "down" \/ LoadAccepts(input[d].env)
      PROVE  ConfigAccepted'
  BY <1>0, <1>1 DEF TypeOK
<1>2. ASSUME NEW d \in Daemons, Run(d) PROVE ConfigAccepted'
  BY <1>1, <1>2 DEF Run, LoadConfig, TakeLock, Refused, WriteHTTPSGuard, WriteHTTPGuard,
         ClearSocket, Listen, PrepareOPA, ConfigurePolicyHost, NewRuntime, Launch, Stop, Started,
         Return, Deferred, Kill
<1>3. CASE UNCHANGED vars \/ \E doc \in OPADocs : Remount(doc)
  BY <1>0, <1>3 DEF vars, Remount
<1> QED BY <1>2, <1>3 DEF Next

\* The OPA configuration of a traced daemon is the one it wrote.
LEMMA SnapshotStep == IndInv /\ [Next]_vars => SnapshotKept'
<1> SUFFICES ASSUME IndInv, [Next]_vars PROVE SnapshotKept'
  OBVIOUS
<1> DEFINE A == {"prepared", "hosted"} \union Loaded
           B == {"hosted"} \union Loaded
<1> USE DEF Move, Loaded
<1>0. /\ TypeOK /\ LockHeld /\ SnapshotKept
      /\ \A d \in Daemons : c(d)' = c(d)
  BY InputsFixed DEF IndInv
<1>1. ASSUME NEW d \in Daemons, NEW q, pc' = [pc EXCEPT ![d] = q],
             files'["opa.json"] = files["opa.json"],
             q \in A => pc[d] \in A /\ UNCHANGED <<inspected, loaded>>,
             q \in B => pc[d] \in B, q \in Loaded => pc[d] \in Loaded,
             \A e \in Daemons : e # d => inspected'[e] = inspected[e] /\ loaded'[e] = loaded[e]
      PROVE  SnapshotKept'
  <2>1. ASSUME NEW e \in Daemons, pc'[e] \in A
        PROVE  /\ pc[e] \in A /\ inspected'[e] = inspected[e] /\ loaded'[e] = loaded[e]
               /\ pc'[e] \in B => pc[e] \in B
               /\ pc'[e] \in Loaded => pc[e] \in Loaded
    BY <1>0, <1>1, <2>1 DEF TypeOK
  <2> QED BY <1>0, <1>1, <2>1 DEF SnapshotKept
<1>2. ASSUME NEW d \in Daemons,
             LoadConfig(d) \/ TakeLock(d) \/ Refused(d) \/ ClearSocket(d) \/ Listen(d) \/ Stop(d)
      PROVE  SnapshotKept'
  BY <1>1, <1>2 DEF LoadConfig, TakeLock, Refused, ClearSocket, Listen, Stop
<1>3. ASSUME NEW d \in Daemons, WriteHTTPSGuard(d) \/ WriteHTTPGuard(d) \/ Launch(d)
      PROVE  SnapshotKept'
  <2>1. files'["opa.json"] = files["opa.json"]
    BY <1>0, <1>3 DEF WriteHTTPSGuard, WriteHTTPGuard, Launch, Written, TypeOK, Generated
  <2> QED BY <1>1, <1>3, <2>1 DEF WriteHTTPSGuard, WriteHTTPGuard, Launch
<1>4. ASSUME NEW d \in Daemons, Return(d) \/ Kill(d) PROVE SnapshotKept'
  <2>1. \A e \in Daemons : e # d => inspected'[e] = inspected[e] /\ loaded'[e] = loaded[e]
    BY <1>0, <1>4 DEF Return, Deferred, Kill, Unlock, TypeOK
  <2> QED BY <1>1, <1>4, <2>1 DEF Return, Deferred, Kill
<1>5. ASSUME NEW d \in Daemons, PrepareOPA(d) PROVE SnapshotKept'
  <2>1. /\ pc[d] = "serving" /\ pc'[d] = "prepared"
        /\ \A e \in Daemons : e # d => pc'[e] = pc[e]
    BY <1>0, <1>5 DEF PrepareOPA, TypeOK
  <2>2. \A e \in Daemons : e # d => pc[e] \in {"down", "loaded"}
    BY <1>0, <2>1, OthersIdle
  <2>3. c(d).tracing # Unset => files'["opa.json"].tracing = Section(c(d).tracing)
    <3> SUFFICES ASSUME c(d).tracing # Unset
                 PROVE  files'["opa.json"].tracing = Section(c(d).tracing)
      OBVIOUS
    <3>1. /\ mount.valid
          /\ files'["opa.json"] = [mount EXCEPT !.tracing = Section(c(d).tracing)]
      BY <1>0, <1>5 DEF PrepareOPA, Written, TypeOK, Generated
    <3>2. mount \in [valid : {TRUE}, extension : BOOLEAN, role : {mount.role},
                     tracing : {mount.tracing}]
      BY <1>0, <3>1, DocsAssumption DEF TypeOK
    <3> QED BY <3>1, <3>2
  <2> QED BY <1>0, <2>1, <2>2, <2>3 DEF SnapshotKept
<1>6. ASSUME NEW d \in Daemons, ConfigurePolicyHost(d) PROVE SnapshotKept'
  <2>1. /\ pc[d] = "prepared" /\ pc'[d] = "hosted" /\ UNCHANGED <<files, loaded>>
        /\ \A e \in Daemons : e # d => pc'[e] = pc[e]
        /\ inspected'[d] = ConfigFile(d)
    BY <1>0, <1>6 DEF ConfigurePolicyHost, TypeOK
  <2>2. \A e \in Daemons : e # d => pc[e] \in {"down", "loaded"}
    BY <1>0, <2>1, OthersIdle
  <2> QED BY <1>0, <2>1, <2>2 DEF SnapshotKept, ConfigFile
<1>7. ASSUME NEW d \in Daemons, NewRuntime(d) PROVE SnapshotKept'
  <2>1. /\ pc[d] = "hosted" /\ pc'[d] = "opa" /\ UNCHANGED <<files, inspected>>
        /\ \A e \in Daemons : e # d => pc'[e] = pc[e]
        /\ loaded'[d].doc = ConfigFile(d)
    BY <1>0, <1>7 DEF NewRuntime, TypeOK
  <2>2. \A e \in Daemons : e # d => pc[e] \in {"down", "loaded"}
    BY <1>0, <2>1, OthersIdle
  <2> QED BY <1>0, <2>1, <2>2 DEF SnapshotKept, ConfigFile
<1>8. CASE UNCHANGED vars \/ \E doc \in OPADocs : Remount(doc)
  <2>1. UNCHANGED <<pc, files, inspected, loaded>>
    BY <1>8 DEF vars, Remount
  <2> QED BY <1>0, <2>1 DEF SnapshotKept
<1> QED BY <1>2, <1>3, <1>4, <1>5, <1>6, <1>7, <1>8 DEF Next, Run

\* prepareEnvoy hardens every ext_authz filter and every guard, and keeps the names.
LEMMA RewrittenHardened ==
    ASSUME NEW fs, NEW i, NEW role,
           fs[i] \in [name : {fs[i].name}, typed : BOOLEAN, allow : BOOLEAN,
                     rawHeaders : BOOLEAN, wholeBody : BOOLEAN, guard : {fs[i].guard}]
    PROVE  /\ Rewritten(fs, i, TRUE, role).name = fs[i].name
           /\ Hardened(Rewritten(fs, i, TRUE, role), role)
<1> DEFINE g == fs[i]
           f == Rewritten(fs, i, TRUE, role)
<1>1. g \in [name : {g.name}, typed : BOOLEAN, allow : BOOLEAN, rawHeaders : BOOLEAN,
             wholeBody : BOOLEAN, guard : {g.guard}]
  OBVIOUS
<1>2. CASE g.name = "ext_authz"
  <2>1. f = [g EXCEPT !.allow = FALSE, !.rawHeaders = TRUE, !.wholeBody = TRUE]
    BY <1>2 DEF Rewritten, Hardens, IsAuthz, IsGuard
  <2> HIDE DEF f, g
  <2>2. f.name = g.name /\ ~f.allow /\ f.rawHeaders /\ f.wholeBody
    BY <1>1, <2>1
  <2>3. f.name = g.name /\ Hardened(f, role)
    BY <1>2, <2>2 DEF Hardened, IsAuthz, IsGuard
  <2> QED BY <2>3 DEF f, g
<1>3. CASE g.name \in {"gateway.request", "gateway.dispatch"}
  <2>1. f = [g EXCEPT !.guard = Source(role, "https")]
    BY <1>3 DEF Rewritten, Hardens, IsAuthz, IsGuard
  <2> HIDE DEF f, g
  <2>2. f.name = g.name /\ f.guard = Source(role, "https")
    BY <1>1, <2>1
  <2>3. f.name = g.name /\ Hardened(f, role)
    BY <1>3, <2>2 DEF Hardened, IsAuthz, IsGuard
  <2> QED BY <2>3 DEF f, g
<1>4. CASE g.name \notin {"ext_authz", "gateway.request", "gateway.dispatch"}
  <2>1. f = g
    BY <1>4 DEF Rewritten, Hardens, IsAuthz, IsGuard
  <2> QED BY <1>4, <2>1 DEF Hardened, IsAuthz, IsGuard
<1> QED BY <1>2, <1>3, <1>4

\* A bootstrap prepareEnvoy accepts for the extension is rewritten to one that enforces
\* in every manager prepareEnvoy visits.
LEMMA PreparedEnforces ==
    ASSUME NEW d \in Daemons, Given, NEW role, Usable(input[d].bootstrap, TRUE)
    PROVE  Enforcing(Prepared(input[d].bootstrap, TRUE, role), role)
<1> DEFINE b == input[d].bootstrap
           p == Prepared(b, TRUE, role)
           fs(k) == b.managers[k].filters
<1>1. /\ b \in [valid : {TRUE}, dynamic : BOOLEAN, admin : {b.admin},
                 managers : {b.managers}, clusters : {b.clusters}]
      /\ \A k \in DOMAIN b.managers :
            /\ b.managers[k] \in [chain : {"listed", "default"}, filters : {fs(k)}]
            /\ \A j \in DOMAIN fs(k) :
                  fs(k)[j] \in [name : {fs(k)[j].name}, typed : BOOLEAN, allow : BOOLEAN,
                                rawHeaders : BOOLEAN, wholeBody : BOOLEAN, guard : {fs(k)[j].guard}]
  BY BootstrapsAssumption DEF Given, Usable
<1>2. PICK k0 \in Visited(b) : Authorizes(fs(k0))
  BY DEF Usable
<1> HIDE DEF b
<1>3. /\ p.managers = [k \in DOMAIN b.managers |->
             IF k \in Visited(b)
             THEN [b.managers[k] EXCEPT !.filters = RewrittenAll(fs(k), TRUE, role)]
             ELSE b.managers[k]]
      /\ p.clusters = [n \in DOMAIN b.clusters |-> Upstream(n, b.clusters[n])]
  BY <1>1 DEF Prepared
<1> HIDE DEF p
<1>4. ASSUME NEW k \in DOMAIN b.managers
      PROVE  /\ p.managers[k].chain = b.managers[k].chain
             /\ k \in Visited(b) => p.managers[k].filters = RewrittenAll(fs(k), TRUE, role)
  <2>1. b.managers[k] \in [chain : {"listed", "default"}, filters : {fs(k)}]
    BY <1>1
  <2>2. CASE k \in Visited(b)
    <3>1. p.managers[k] = [b.managers[k] EXCEPT !.filters = RewrittenAll(fs(k), TRUE, role)]
      BY <1>3, <2>2
    <3> QED BY <2>1, <3>1
  <2>3. CASE k \notin Visited(b)
    BY <1>3, <2>3
  <2> QED BY <2>2, <2>3
<1>5. DOMAIN p.managers = DOMAIN b.managers
  BY <1>3
<1>6. Visited(p) = Visited(b)
  BY <1>4, <1>5 DEF Visited
<1>7. ASSUME NEW k \in Visited(b), NEW i \in DOMAIN fs(k)
      PROVE  /\ i \in DOMAIN p.managers[k].filters
             /\ p.managers[k].filters[i].name = fs(k)[i].name
             /\ Hardened(p.managers[k].filters[i], role)
  <2>1. k \in DOMAIN b.managers
    BY DEF Visited
  <2>2. p.managers[k].filters = [j \in DOMAIN fs(k) |-> Rewritten(fs(k), j, TRUE, role)]
    BY <1>4, <2>1 DEF RewrittenAll
  <2>3. /\ Rewritten(fs(k), i, TRUE, role).name = fs(k)[i].name
        /\ Hardened(Rewritten(fs(k), i, TRUE, role), role)
    <3>1. fs(k)[i] \in [name : {fs(k)[i].name}, typed : BOOLEAN, allow : BOOLEAN,
                        rawHeaders : BOOLEAN, wholeBody : BOOLEAN, guard : {fs(k)[i].guard}]
      BY <1>1, <2>1
    <3> HIDE DEF fs
    <3> QED BY <3>1, RewrittenHardened
  <2> QED BY <2>2, <2>3
<1>8. ASSUME NEW k \in Visited(b)
      PROVE  DOMAIN p.managers[k].filters = DOMAIN fs(k)
  BY <1>4 DEF Visited, RewrittenAll
<1>9. Authorizes(p.managers[k0].filters)
  <2>1. PICK i \in DOMAIN fs(k0) : IsAuthz(fs(k0)[i])
    BY <1>2 DEF Authorizes, b
  <2> QED BY <1>2, <1>7, <2>1 DEF Authorizes, IsAuthz, b
<1>10. "opa" \in DOMAIN p.clusters => p.clusters["opa"] = "opa.sock"
  BY <1>3 DEF Upstream
<1>11. Enforcing(p, role)
  BY <1>2, <1>6, <1>7, <1>8, <1>9, <1>10 DEF Enforcing, b
<1> QED BY <1>11 DEF p, b

\* Where the extension was found, it is hosted as inspected.
LEMMA HostedStep == IndInv /\ Given /\ [Next]_vars => Hosted'
<1> SUFFICES ASSUME IndInv, Given, [Next]_vars PROVE Hosted'
  OBVIOUS
<1> DEFINE B == {"hosted"} \union Loaded
<1> USE DEF Move, Loaded
<1>0. /\ TypeOK /\ LockHeld /\ Hosted /\ input' = input
      /\ \A d \in Daemons : c(d)' = c(d)
  BY InputsFixed DEF IndInv
<1>1. ASSUME NEW d \in Daemons, NEW q, pc' = [pc EXCEPT ![d] = q], q \notin B,
             files'["envoy.json"] = files["envoy.json"],
             \A e \in Daemons : e # d => inspected'[e] = inspected[e] /\ loaded'[e] = loaded[e]
      PROVE  Hosted'
  <2>1. ASSUME NEW e \in Daemons, pc'[e] \in B
        PROVE  pc[e] = pc'[e] /\ inspected'[e] = inspected[e] /\ loaded'[e] = loaded[e]
    BY <1>0, <1>1, <2>1 DEF TypeOK
  <2> QED BY <1>0, <1>1, <2>1 DEF Hosted
<1>2. ASSUME NEW d \in Daemons,
             LoadConfig(d) \/ TakeLock(d) \/ Refused(d) \/ ClearSocket(d) \/ Listen(d) \/ Stop(d)
      PROVE  Hosted'
  BY <1>1, <1>2 DEF LoadConfig, TakeLock, Refused, ClearSocket, Listen, Stop
<1>3. ASSUME NEW d \in Daemons, WriteHTTPSGuard(d) \/ WriteHTTPGuard(d) \/ PrepareOPA(d)
      PROVE  Hosted'
  <2>1. files'["envoy.json"] = files["envoy.json"]
    BY <1>0, <1>3 DEF WriteHTTPSGuard, WriteHTTPGuard, PrepareOPA, Written, TypeOK, Generated
  <2> QED BY <1>1, <1>3, <2>1 DEF WriteHTTPSGuard, WriteHTTPGuard, PrepareOPA
<1>4. ASSUME NEW d \in Daemons, Return(d) \/ Kill(d) PROVE Hosted'
  <2>1. \A e \in Daemons : e # d => inspected'[e] = inspected[e] /\ loaded'[e] = loaded[e]
    BY <1>0, <1>4 DEF Return, Deferred, Kill, Unlock, TypeOK
  <2> QED BY <1>1, <1>4, <2>1 DEF Return, Deferred, Kill
<1>5. ASSUME NEW d \in Daemons, ConfigurePolicyHost(d) PROVE Hosted'
  <2>1. /\ pc[d] = "prepared" /\ pc'[d] = "hosted" /\ UNCHANGED <<files, loaded>>
        /\ \A e \in Daemons : e # d => pc'[e] = pc[e]
        /\ inspected'[d] = ConfigFile(d) /\ PoliciesAllowed(d)
    BY <1>0, <1>5 DEF ConfigurePolicyHost, TypeOK
  <2>2. \A e \in Daemons : e # d => pc[e] \in {"down", "loaded"}
    BY <1>0, <2>1, OthersIdle
  <2> QED BY <1>0, <2>1, <2>2 DEF Hosted, PoliciesAllowed
<1>6. ASSUME NEW d \in Daemons, NewRuntime(d) PROVE Hosted'
  <2>1. /\ pc[d] = "hosted" /\ pc'[d] = "opa" /\ UNCHANGED <<files, inspected>>
        /\ \A e \in Daemons : e # d => pc'[e] = pc[e]
        /\ loaded'[d].role = RoleOf(d)
    BY <1>0, <1>6 DEF NewRuntime, TypeOK
  <2>2. \A e \in Daemons : e # d => pc[e] \in {"down", "loaded"}
    BY <1>0, <2>1, OthersIdle
  <2> QED BY <1>0, <2>1, <2>2 DEF Hosted, RoleOf
<1>7. ASSUME NEW d \in Daemons, Launch(d) PROVE Hosted'
  <2>1. /\ pc[d] = "opa" /\ pc'[d] = "running" /\ UNCHANGED <<loaded, inspected>>
        /\ \A e \in Daemons : e # d => pc'[e] = pc[e]
    BY <1>0, <1>7 DEF Launch, TypeOK
  <2>2. \A e \in Daemons : e # d => pc[e] \in {"down", "loaded"}
    BY <1>0, <2>1, OthersIdle
  <2>3. ASSUME inspected[d].extension, c(d).mode = "standalone"
        PROVE  Enforcing(files'["envoy.json"], c(d).role)
    <3>1. /\ Usable(input[d].bootstrap, inspected[d].extension)
          /\ files'["envoy.json"] = Prepared(input[d].bootstrap, inspected[d].extension, c(d).role)
      BY <1>0, <1>7, <2>3 DEF Launch, Written, TypeOK, Generated
    <3>2. Usable(input[d].bootstrap, TRUE)
      BY <2>3, <3>1 DEF Usable
    <3>3. /\ Enforcing(Prepared(input[d].bootstrap, TRUE, c(d).role), c(d).role)
      BY <3>2, PreparedEnforces
    <3>4. Prepared(input[d].bootstrap, inspected[d].extension, c(d).role)
            = Prepared(input[d].bootstrap, TRUE, c(d).role)
      BY <2>3 DEF Prepared, Rewritten
    <3> QED BY <3>1, <3>3, <3>4
  <2> QED BY <1>0, <2>1, <2>2, <2>3 DEF Hosted
<1>8. CASE UNCHANGED vars \/ \E doc \in OPADocs : Remount(doc)
  <2>1. UNCHANGED <<pc, files, inspected, loaded>>
    BY <1>8 DEF vars, Remount
  <2> QED BY <1>0, <2>1 DEF Hosted
<1> QED BY <1>2, <1>3, <1>4, <1>5, <1>6, <1>7, <1>8 DEF Next, Run

-----------------------------------------------------------------------------
(* The theorems. *)

\* A first start satisfies the invariant.
LEMMA StartupInit == Init => StartupInv
BY BoundsAssumption, DaemonsAssumption
   DEF Init, StartupInv, IndInv, Given, TypeOK, LockHeld, ListenerOwned, GuardsWritten,
       ConfigAccepted, SnapshotKept, Hosted, Serving, Loaded, Generated

\* Every step preserves it.
LEMMA StartupStep == StartupInv /\ [Next]_vars => StartupInv'
BY TypeStep, LockStep, ListenerStep, GuardsStep, AcceptedStep, SnapshotStep, HostedStep,
   InputsFixed DEF StartupInv, IndInv, Given

\* Every reachable state of the daemons satisfies the inductive invariant.
THEOREM StartupInvariance == Spec => []StartupInv
BY StartupInit, StartupStep, PTL DEF Spec

\* The part of it that TLC checks.
THEOREM StartupIndInv == Spec => []IndInv
<1>1. StartupInv => IndInv
  BY DEF StartupInv
<1> QED BY <1>1, StartupInvariance, PTL

\* A serving daemon has the runtime directory to itself.
THEOREM RuntimeExclusive == Spec => []RuntimeOwned
<1>1. StartupInv => RuntimeOwned
  BY DEF StartupInv, IndInv, RuntimeOwned, ListenerOwned, GuardsWritten
<1> QED BY <1>1, StartupInvariance, PTL

\* Directories config.Validate accepts have no file in common.
THEOREM DirectoriesApart == Spec => []DirectoriesDisjoint
<1>1. ASSUME NEW a, NEW b, NEW f, Len(a.segs) \in Nat, Len(b.segs) \in Nat,
             ~Contains(a, b), ~Contains(b, a)
      PROVE  ~(Beneath(a, f) /\ Beneath(b, f))
  <2>1. CASE Len(a.segs) <= Len(b.segs)
    <3>1. PICK i \in 1..Len(a.segs) : a.segs[i] # b.segs[i]
      BY <1>1, <2>1 DEF Contains
    <3>2. i \in 1..Len(b.segs)
      BY <1>1, <2>1
    <3> QED BY <3>1, <3>2 DEF Beneath
  <2>2. CASE Len(b.segs) <= Len(a.segs)
    <3>1. PICK i \in 1..Len(b.segs) : b.segs[i] # a.segs[i]
      BY <1>1, <2>2 DEF Contains
    <3>2. i \in 1..Len(a.segs)
      BY <1>1, <2>2
    <3> QED BY <3>1, <3>2 DEF Beneath
  <2> QED BY <1>1, <2>1, <2>2
<1>2. ASSUME StartupInv, NEW d \in Daemons, pc[d] # "down", NEW f \in Files
      PROVE  /\ ~(Beneath(c(d).public, f) /\ Beneath(c(d).state, f))
             /\ ~(Beneath(c(d).public, f) /\ Beneath(c(d).runtime, f))
             /\ ~(Beneath(c(d).state, f) /\ Beneath(c(d).runtime, f))
  <2>1. LoadAccepts(input[d].env) /\ input \in Inputs
    BY <1>2 DEF StartupInv, IndInv, Given, ConfigAccepted
  <2>2. /\ Len(c(d).state.segs) \in Nat /\ Len(c(d).runtime.segs) \in Nat
        /\ Len(c(d).public.segs) \in Nat
    BY <2>1, PathsAssumption DEF c
  <2>3. Apart(c(d))
    BY <2>1 DEF LoadAccepts, Validate, c
  <2>4. /\ ~Contains(c(d).state, c(d).runtime) /\ ~Contains(c(d).runtime, c(d).state)
        /\ ~Contains(c(d).public, c(d).state) /\ ~Contains(c(d).state, c(d).public)
        /\ ~Contains(c(d).public, c(d).runtime) /\ ~Contains(c(d).runtime, c(d).public)
    BY <2>3 DEF Apart
  <2> QED BY <1>1, <2>2, <2>4
<1>3. StartupInv => DirectoriesDisjoint
  BY <1>2 DEF DirectoriesDisjoint
<1> QED BY <1>3, StartupInvariance, PTL

\* With tracing inputs, OPA runs the configuration the daemon inspected.
THEOREM SnapshotUsed == Spec => []SnapshotStable
<1>1. StartupInv => SnapshotStable
  BY DEF StartupInv, IndInv, SnapshotKept, SnapshotStable, Loaded
<1> QED BY <1>1, StartupInvariance, PTL

\* The extension that was inspected, or that OPA runs from the private copy, has the
\* daemon's role, and prepareEnvoy has hardened what it visits for it.
THEOREM PolicyEnforced == Spec => []PolicyHosted
<1>1. StartupInv => PolicyHosted
  <2> SUFFICES ASSUME StartupInv, NEW d \in Daemons, pc[d] = "running",
                      inspected[d].extension \/ (loaded[d].doc.extension /\ c(d).tracing # Unset)
               PROVE  /\ loaded[d].role = c(d).role
                      /\ ~input[d].policies
                      /\ c(d).mode = "standalone" => Enforcing(files["envoy.json"], c(d).role)
    BY DEF PolicyHosted
  <2>1. c(d).tracing # Unset => loaded[d].doc = inspected[d]
    BY DEF StartupInv, IndInv, SnapshotKept, Loaded
  <2>2. inspected[d].extension
    BY <2>1
  <2> QED BY <2>2 DEF StartupInv, IndInv, Hosted, Loaded
<1> QED BY <1>1, StartupInvariance, PTL

\* The settings LoadTracing accepts are not read as plaintext by the exporter when the
\* endpoint asks for TLS.
LEMMA ExporterAgrees ==
    ASSUME NEW otel, TransportValid(otel), TLS(otel)
    PROVE  ~ExporterPlaintext(otel)
<1>1. Effective(otel, "INSECURE") # "true"
  BY DEF TransportValid, Insecure
<1>2. CASE Get(otel.traces["ENDPOINT"]) # Unset
  <2>1. Get(otel.traces["ENDPOINT"]) = otel.traces["ENDPOINT"]
    BY <1>2 DEF Get
  <2>2. otel.traces["ENDPOINT"].scheme = "https"
    BY <1>2, <2>1 DEF TLS, Endpoint, Effective, Or
  <2> QED BY <1>1, <1>2, <2>2 DEF ExporterPlaintext, Effective, Or, Get
<1>3. CASE Get(otel.traces["ENDPOINT"]) = Unset /\ Get(otel.general["ENDPOINT"]) # Unset
  <2>1. Get(otel.general["ENDPOINT"]) = otel.general["ENDPOINT"]
    BY <1>3 DEF Get
  <2>2. otel.general["ENDPOINT"].scheme = "https"
    BY <1>3, <2>1 DEF TLS, Endpoint, Effective, Or
  <2> QED BY <1>1, <1>3, <2>2 DEF ExporterPlaintext, Effective, Or, Get
<1>4. CASE Get(otel.traces["ENDPOINT"]) = Unset /\ Get(otel.general["ENDPOINT"]) = Unset
  BY <1>4 DEF TLS, Endpoint, Effective, Or
<1> QED BY <1>2, <1>3, <1>4

\* What OPA is told to export is protected as the environment asks.
THEOREM SpansSafe == Spec => []SpansProtected
<1>1. ASSUME StartupInv, NEW d \in Daemons, pc[d] \in Loaded, c(d).tracing # Unset,
             ~Disabled(input[d].env.otel)
      PROVE  LET otel == input[d].env.otel
                 t == loaded[d].doc.tracing
             IN /\ TLS(otel) => t.encryption # "off" /\ ~ExporterPlaintext(otel)
                /\ t.tls_cert_file # Unset => TLS(otel) /\ t.encryption = "mtls"
                /\ Or(t.batch["MAX_EXPORT_BATCH_SIZE"], 512) <= Or(t.batch["MAX_QUEUE_SIZE"], 2048)
  <2> DEFINE otel == input[d].env.otel
             tracing == LoadTracing(otel)
             t == loaded[d].doc.tracing
  <2>1. LoadTracingAccepts(otel)
    BY <1>1 DEF StartupInv, IndInv, ConfigAccepted, LoadAccepts, Loaded
  <2>2. c(d).tracing = tracing
    BY DEF c, Load
  <2>3. Configured(otel)
    BY <1>1, <2>2 DEF LoadTracing
  <2>4. TransportValid(otel) /\ BatchFits(otel)
    BY <1>1, <2>1, <2>3 DEF LoadTracingAccepts, TracingValid, BatchValid
  <2>5. /\ tracing.disabled = FALSE
        /\ tracing.tls = TLS(otel)
        /\ tracing.clientCertificate = Effective(otel, "CLIENT_CERTIFICATE")
        /\ tracing.batch = [s \in BatchSizes |-> Get(otel.vars[s])]
    <3>1. ~Disabled(otel)
      BY <1>1
    <3> QED BY <2>3, <3>1 DEF LoadTracing
  <2>6. t = Section(tracing)
    BY <1>1, <2>2 DEF StartupInv, IndInv, SnapshotKept, Loaded
  <2>7. /\ t.encryption = Encryption(tracing)
        /\ t.tls_cert_file = tracing.clientCertificate
        /\ t.batch = tracing.batch
    BY <2>5, <2>6 DEF Section
  <2>8. TLS(otel) => t.encryption # "off"
    BY <2>5, <2>7 DEF Encryption
  <2>9. TLS(otel) => ~ExporterPlaintext(otel)
    BY <2>4, ExporterAgrees
  <2>10. t.tls_cert_file # Unset => TLS(otel) /\ t.encryption = "mtls"
    BY <2>4, <2>5, <2>7 DEF Encryption, TransportValid
  <2>11. Or(t.batch["MAX_EXPORT_BATCH_SIZE"], 512) <= Or(t.batch["MAX_QUEUE_SIZE"], 2048)
    BY <2>4, <2>5, <2>7 DEF BatchFits, BatchSize, QueueSize, BatchSizes
  <2> QED BY <2>8, <2>9, <2>10, <2>11
<1>2. StartupInv => SpansProtected
  BY <1>1 DEF SpansProtected
<1> QED BY <1>2, StartupInvariance, PTL
=============================================================================
