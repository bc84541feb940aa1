---------------------------- MODULE DaemonProofs ----------------------------
(***************************************************************************)
(* Proofs about Daemon, for both roles, both proxy modes and any number of *)
(* failures and restarts.  Each step of Run, and each thing that may       *)
(* happen to it, preserves DaemonInv; the safety properties follow.        *)
(***************************************************************************)
EXTENDS Daemon, TLAPS

\* At first there is no process, and nothing has been reported.
LEMMA InitDaemon == Init => DaemonInv
<1> SUFFICES ASSUME Init PROVE DaemonInv
  OBVIOUS
<1>1. TypePositions
  BY DEF Init, TypePositions, Positions, Startup, Goroutine
<1>2. TypeFlags
  BY DEF Init, TypeFlags
<1>3. Placed /\ Reported
  BY DEF Init, Placed, Reported, Startup, Supervising, Serving
<1>4. NothingLost /\ StatusPlanned /\ PolicyBeforeProxy /\ ChildReaped
  BY DEF Init, NothingLost, StatusPlanned, PolicyBeforeProxy, ChildReaped, Startup, Supervising,
     Stopping
<1>5. ProbeInv
  BY DEF Init, ProbeInv, Checked
<1> QED BY <1>1, <1>2, <1>3, <1>4, <1>5 DEF DaemonInv, SystemInv, Supervision

\* Every step of Run preserves the invariant.
LEMMA RunStep ==
    ASSUME SystemInv,
           Prepare \/ OpenCA \/ ClearSocket \/ Listen \/ StartOPA \/ CheckOPA \/
           Retry \/ RetryDone \/ Launch \/ SelectDone \/ SelectOPA \/
           SelectProxy \/ SelectSDS \/ SelectTick \/ CheckLiveness \/ CheckProxy
           \/ Terminate \/ AwaitProxy \/ ClearError \/ CancelOPA \/ StopSDS
    PROVE  SystemInv'
<1> USE RoleAssumption, FaultsAssumption
    DEF loopVars, opaVars, sdsVars, proxyVars, runVars, Goto, Fail, At, Startup, Supervising,
        Stopping, Serving
<1> USE DEF SystemInv, Supervision
<1>1. CASE Prepare
  <2>1. TypePositions'
    BY <1>1 DEF Prepare, TypePositions, Positions, Goroutine
  <2>2. TypeFlags'
    BY <1>1 DEF Prepare, TypeFlags
  <2>3. Supervision'
    BY <1>1 DEF Prepare, TypePositions, TypeFlags, Placed, Reported, NothingLost,
       StatusPlanned, PolicyBeforeProxy, ChildReaped
  <2> QED BY <2>1, <2>2, <2>3
<1>2. CASE OpenCA
  <2>1. TypePositions'
    BY <1>2 DEF OpenCA, TypePositions, Positions, Goroutine
  <2>2. TypeFlags'
    BY <1>2 DEF OpenCA, TypeFlags
  <2>3. Supervision'
    BY <1>2 DEF OpenCA, TypePositions, TypeFlags, Placed, Reported, NothingLost,
       StatusPlanned, PolicyBeforeProxy, ChildReaped
  <2> QED BY <2>1, <2>2, <2>3
<1>3. CASE ClearSocket
  <2>1. TypePositions'
    BY <1>3 DEF ClearSocket, SocketCleared, TypePositions, Positions, Goroutine
  <2>2. TypeFlags'
    BY <1>3 DEF ClearSocket, SocketCleared, TypeFlags
  <2>3. Supervision'
    BY <1>3 DEF ClearSocket, SocketCleared, TypePositions, TypeFlags, Placed, Reported,
       NothingLost, StatusPlanned, PolicyBeforeProxy, ChildReaped
  <2> QED BY <2>1, <2>2, <2>3
<1>4. CASE Listen
  <2>1. TypePositions'
    BY <1>4 DEF Listen, TypePositions, Positions, Goroutine
  <2>2. TypeFlags'
    BY <1>4 DEF Listen, TypeFlags
  <2>3. Supervision'
    BY <1>4 DEF Listen, TypePositions, TypeFlags, Placed, Reported, NothingLost,
       StatusPlanned, PolicyBeforeProxy, ChildReaped
  <2> QED BY <2>1, <2>2, <2>3
<1>5. CASE StartOPA
  <2>1. TypePositions'
    BY <1>5 DEF StartOPA, TypePositions, Positions, Goroutine
  <2>2. TypeFlags'
    BY <1>5 DEF StartOPA, TypeFlags
  <2>3. Supervision'
    BY <1>5 DEF StartOPA, TypePositions, TypeFlags, Placed, Reported, NothingLost,
       StatusPlanned, PolicyBeforeProxy, ChildReaped
  <2> QED BY <2>1, <2>2, <2>3
<1>6. CASE CheckOPA
  <2>1. TypePositions'
    BY <1>6 DEF CheckOPA, ReadyForStart, StartupDone, TypePositions, Positions, Goroutine
  <2>2. TypeFlags'
    BY <1>6 DEF CheckOPA, ReadyForStart, StartupDone, TypeFlags
  <2>3. Supervision'
    BY <1>6 DEF CheckOPA, ReadyForStart, StartupDone, TypePositions, TypeFlags, Placed,
       Reported, NothingLost, StatusPlanned, PolicyBeforeProxy, ChildReaped
  <2> QED BY <2>1, <2>2, <2>3
<1>7. CASE Retry
  <2>1. TypePositions'
    BY <1>7 DEF Retry, TypePositions, Positions, Goroutine
  <2>2. TypeFlags'
    BY <1>7 DEF Retry, TypeFlags
  <2>3. Supervision'
    BY <1>7 DEF Retry, TypePositions, TypeFlags, Placed, Reported, NothingLost,
       StatusPlanned, PolicyBeforeProxy, ChildReaped
  <2> QED BY <2>1, <2>2, <2>3
<1>8. CASE RetryDone
  <2>1. TypePositions'
    BY <1>8 DEF RetryDone, StartupDone, TypePositions, Positions, Goroutine
  <2>2. TypeFlags'
    BY <1>8 DEF RetryDone, StartupDone, TypeFlags
  <2>3. Supervision'
    BY <1>8 DEF RetryDone, StartupDone, TypePositions, TypeFlags, Placed, Reported,
       NothingLost, StatusPlanned, PolicyBeforeProxy, ChildReaped
  <2> QED BY <2>1, <2>2, <2>3
<1>9. CASE Launch
  <2>1. TypePositions'
    BY <1>9 DEF Launch, TypePositions, Positions, Goroutine
  <2>2. TypeFlags'
    BY <1>9 DEF Launch, TypeFlags
  <2>3. Supervision'
    BY <1>9 DEF Launch, TypePositions, TypeFlags, Placed, Reported, NothingLost,
       StatusPlanned, PolicyBeforeProxy, ChildReaped
  <2> QED BY <2>1, <2>2, <2>3
<1>10. CASE SelectDone
  <2>1. TypePositions'
    BY <1>10 DEF SelectDone, TypePositions, Positions, Goroutine
  <2>2. TypeFlags'
    BY <1>10 DEF SelectDone, TypeFlags
  <2>3. Supervision'
    BY <1>10 DEF SelectDone, TypePositions, TypeFlags, Placed, Reported, NothingLost,
       StatusPlanned, PolicyBeforeProxy, ChildReaped
  <2> QED BY <2>1, <2>2, <2>3
<1>11. CASE SelectOPA
  <2>1. TypePositions'
    BY <1>11 DEF SelectOPA, TypePositions, Positions, Goroutine
  <2>2. TypeFlags'
    BY <1>11 DEF SelectOPA, TypeFlags
  <2>3. Supervision'
    BY <1>11 DEF SelectOPA, TypePositions, TypeFlags, Placed, Reported, NothingLost,
       StatusPlanned, PolicyBeforeProxy, ChildReaped
  <2> QED BY <2>1, <2>2, <2>3
<1>12. CASE SelectProxy
  <2>1. TypePositions'
    BY <1>12 DEF SelectProxy, ExitNoted, TypePositions, Positions, Goroutine
  <2>2. TypeFlags'
    BY <1>12 DEF SelectProxy, ExitNoted, TypeFlags
  <2>3. Supervision'
    BY <1>12 DEF SelectProxy, ExitNoted, TypePositions, TypeFlags, Placed, Reported,
       NothingLost, StatusPlanned, PolicyBeforeProxy, ChildReaped
  <2> QED BY <2>1, <2>2, <2>3
<1>13. CASE SelectSDS
  <2>1. TypePositions'
    BY <1>13 DEF SelectSDS, SDSStopped, TypePositions, Positions, Goroutine
  <2>2. TypeFlags'
    BY <1>13 DEF SelectSDS, SDSStopped, TypeFlags
  <2>3. Supervision'
    BY <1>13 DEF SelectSDS, SDSStopped, TypePositions, TypeFlags, Placed, Reported,
       NothingLost, StatusPlanned, PolicyBeforeProxy, ChildReaped
  <2> QED BY <2>1, <2>2, <2>3
<1>14. CASE SelectTick
  <2>1. TypePositions'
    BY <1>14 DEF SelectTick, TypePositions, Positions, Goroutine
  <2>2. TypeFlags'
    BY <1>14 DEF SelectTick, TypeFlags
  <2>3. Supervision'
    BY <1>14 DEF SelectTick, TypePositions, TypeFlags, Placed, Reported, NothingLost,
       StatusPlanned, PolicyBeforeProxy, ChildReaped
  <2> QED BY <2>1, <2>2, <2>3
<1>15. CASE CheckLiveness
  <2>1. TypePositions'
    BY <1>15 DEF CheckLiveness, Live, TypePositions, Positions, Goroutine
  <2>2. TypeFlags'
    BY <1>15 DEF CheckLiveness, Live, TypeFlags
  <2>3. Supervision'
    BY <1>15 DEF CheckLiveness, Live, TypePositions, TypeFlags, Placed, Reported,
       NothingLost, StatusPlanned, PolicyBeforeProxy, ChildReaped
  <2> QED BY <2>1, <2>2, <2>3
<1>16. CASE CheckProxy
  <2>1. TypePositions'
    BY <1>16 DEF CheckProxy, StartupOver, StartupDone, TypePositions, Positions, Goroutine
  <2>2. TypeFlags'
    BY <1>16 DEF CheckProxy, StartupOver, StartupDone, TypeFlags
  <2>3. Supervision'
    BY <1>16 DEF CheckProxy, StartupOver, StartupDone, TypePositions, TypeFlags, Placed,
       Reported, NothingLost, StatusPlanned, PolicyBeforeProxy, ChildReaped
  <2> QED BY <2>1, <2>2, <2>3
<1>17. CASE Terminate
  <2>1. TypePositions'
    BY <1>17 DEF Terminate, TermSent, KnownExited, TypePositions, Positions, Goroutine
  <2>2. TypeFlags'
    BY <1>17 DEF Terminate, TermSent, KnownExited, TypeFlags
  <2>3. Supervision'
    BY <1>17 DEF Terminate, TermSent, KnownExited, TypePositions, TypeFlags, Placed, Reported,
       NothingLost, StatusPlanned, PolicyBeforeProxy, ChildReaped
  <2> QED BY <2>1, <2>2, <2>3
<1>18. CASE AwaitProxy
  <2>1. TypePositions'
    BY <1>18 DEF AwaitProxy, TypePositions, Positions, Goroutine
  <2>2. TypeFlags'
    BY <1>18 DEF AwaitProxy, TypeFlags
  <2>3. Supervision'
    BY <1>18 DEF AwaitProxy, TypePositions, TypeFlags, Placed, Reported, NothingLost,
       StatusPlanned, PolicyBeforeProxy, ChildReaped
  <2> QED BY <2>1, <2>2, <2>3
<1>19. CASE ClearError
  <2>1. TypePositions'
    BY <1>19 DEF ClearError, ErrorCleared, TypePositions, Positions, Goroutine
  <2>2. TypeFlags'
    BY <1>19 DEF ClearError, ErrorCleared, TypeFlags
  <2>3. Supervision'
    BY <1>19 DEF ClearError, ErrorCleared, TypePositions, TypeFlags, Placed, Reported,
       NothingLost, StatusPlanned, PolicyBeforeProxy, ChildReaped
  <2> QED BY <2>1, <2>2, <2>3
<1>20. CASE CancelOPA
  <2>1. TypePositions'
    BY <1>20 DEF CancelOPA, TypePositions, Positions, Goroutine
  <2>2. TypeFlags'
    BY <1>20 DEF CancelOPA, TypeFlags
  <2>3. Supervision'
    BY <1>20 DEF CancelOPA, TypePositions, TypeFlags, Placed, Reported, NothingLost,
       StatusPlanned, PolicyBeforeProxy, ChildReaped
  <2> QED BY <2>1, <2>2, <2>3
<1>21. CASE StopSDS
  <2>1. TypePositions'
    BY <1>21 DEF StopSDS, TypePositions, Positions, Goroutine
  <2>2. TypeFlags'
    BY <1>21 DEF StopSDS, TypeFlags
  <2>3. Supervision'
    BY <1>21 DEF StopSDS, TypePositions, TypeFlags, Placed, Reported, NothingLost,
       StatusPlanned, PolicyBeforeProxy, ChildReaped
  <2> QED BY <2>1, <2>2, <2>3
<1> QED BY <1>1, <1>2, <1>3, <1>4, <1>5, <1>6, <1>7, <1>8, <1>9, <1>10, <1>11, <1>12,
       <1>13, <1>14, <1>15, <1>16, <1>17, <1>18, <1>19, <1>20, <1>21

\* So does everything that services, processes, the orchestrator and Ready do.
LEMMA OutsideStep ==
    ASSUME SystemInv,
           PrepareFails \/ Signal \/ StartupExpires \/ OPAUp \/ BundleRejected
           \/ OPALost \/ OPAStops \/ SDSFails \/ EnvoyStarts \/ ProxyUp \/
           ProxyUnready \/ ChildExits \/ EnvoyExits \/ Exit \/ Crash \/ Restart
           \/ Ready
    PROVE  SystemInv'
<1> USE RoleAssumption, FaultsAssumption
    DEF loopVars, opaVars, sdsVars, proxyVars, runVars, Goto, Fail, At, Startup, Supervising,
        Stopping, Serving
<1> USE DEF SystemInv, Supervision
<1>1. CASE PrepareFails
  <2>1. TypePositions'
    BY <1>1 DEF PrepareFails, Fault, TypePositions, Positions, Goroutine
  <2>2. TypeFlags'
    BY <1>1 DEF PrepareFails, Fault, TypeFlags
  <2>3. Supervision'
    BY <1>1 DEF PrepareFails, Fault, TypePositions, TypeFlags, Placed, Reported,
       NothingLost, StatusPlanned, PolicyBeforeProxy, ChildReaped
  <2> QED BY <2>1, <2>2, <2>3
<1>2. CASE Signal
  <2>1. TypePositions'
    BY <1>2 DEF Signal, TypePositions, Positions, Goroutine
  <2>2. TypeFlags'
    BY <1>2 DEF Signal, TypeFlags
  <2>3. Supervision'
    BY <1>2 DEF Signal, TypePositions, TypeFlags, Placed, Reported, NothingLost,
       StatusPlanned, PolicyBeforeProxy, ChildReaped
  <2> QED BY <2>1, <2>2, <2>3
<1>3. CASE StartupExpires
  <2>1. TypePositions'
    BY <1>3 DEF StartupExpires, TypePositions, Positions, Goroutine
  <2>2. TypeFlags'
    BY <1>3 DEF StartupExpires, TypeFlags
  <2>3. Placed' /\ Reported' /\ PolicyBeforeProxy' /\ ChildReaped'
    BY <1>3 DEF StartupExpires, Placed, Reported, PolicyBeforeProxy, ChildReaped
  <2>4. NothingLost'
    BY <1>3 DEF StartupExpires, TypeFlags, NothingLost
  <2>5. StatusPlanned'
    BY <1>3 DEF StartupExpires, TypeFlags, StatusPlanned
  <2> QED BY <2>1, <2>2, <2>3, <2>4, <2>5
<1>4. CASE OPAUp
  <2>1. TypePositions'
    BY <1>4 DEF OPAUp, TypePositions, Positions, Goroutine
  <2>2. TypeFlags'
    BY <1>4 DEF OPAUp, TypeFlags
  <2>3. Supervision'
    BY <1>4 DEF OPAUp, TypePositions, TypeFlags, Placed, Reported, NothingLost,
       StatusPlanned, PolicyBeforeProxy, ChildReaped
  <2> QED BY <2>1, <2>2, <2>3
<1>5. CASE BundleRejected
  <2>1. TypePositions'
    BY <1>5 DEF BundleRejected, Fault, TypePositions, Positions, Goroutine
  <2>2. TypeFlags'
    BY <1>5 DEF BundleRejected, Fault, TypeFlags
  <2>3. Supervision'
    BY <1>5 DEF BundleRejected, Fault, TypePositions, TypeFlags, Placed, Reported,
       NothingLost, StatusPlanned, PolicyBeforeProxy, ChildReaped
  <2> QED BY <2>1, <2>2, <2>3
<1>6. CASE OPALost
  <2>1. TypePositions'
    BY <1>6 DEF OPALost, Fault, TypePositions, Positions, Goroutine
  <2>2. TypeFlags'
    BY <1>6 DEF OPALost, Fault, TypeFlags
  <2>3. Supervision'
    BY <1>6 DEF OPALost, Fault, TypePositions, TypeFlags, Placed, Reported, NothingLost,
       StatusPlanned, PolicyBeforeProxy, ChildReaped
  <2> QED BY <2>1, <2>2, <2>3
<1>7. CASE OPAStops
  <2>1. TypePositions'
    BY <1>7 DEF OPAStops, Fault, TypePositions, Positions, Goroutine
  <2>2. TypeFlags'
    BY <1>7 DEF OPAStops, Fault, TypeFlags
  <2>3. Supervision'
    BY <1>7 DEF OPAStops, Fault, TypePositions, TypeFlags, Placed, Reported, NothingLost,
       StatusPlanned, PolicyBeforeProxy, ChildReaped
  <2> QED BY <2>1, <2>2, <2>3
<1>8. CASE SDSFails
  <2>1. TypePositions'
    BY <1>8 DEF SDSFails, Fault, TypePositions, Positions, Goroutine
  <2>2. TypeFlags'
    BY <1>8 DEF SDSFails, Fault, TypeFlags
  <2>3. Supervision'
    BY <1>8 DEF SDSFails, Fault, TypePositions, TypeFlags, Placed, Reported, NothingLost,
       StatusPlanned, PolicyBeforeProxy, ChildReaped
  <2> QED BY <2>1, <2>2, <2>3
<1>9. CASE EnvoyStarts
  <2>1. TypePositions'
    BY <1>9 DEF EnvoyStarts, TypePositions, Positions, Goroutine
  <2>2. TypeFlags'
    BY <1>9 DEF EnvoyStarts, TypeFlags
  <2>3. Supervision'
    BY <1>9 DEF EnvoyStarts, TypePositions, TypeFlags, Placed, Reported, NothingLost,
       StatusPlanned, PolicyBeforeProxy, ChildReaped
  <2> QED BY <2>1, <2>2, <2>3
<1>10. CASE ProxyUp
  <2>1. TypePositions'
    BY <1>10 DEF ProxyUp, TypePositions, Positions, Goroutine
  <2>2. TypeFlags'
    BY <1>10 DEF ProxyUp, TypeFlags
  <2>3. Supervision'
    BY <1>10 DEF ProxyUp, TypePositions, TypeFlags, Placed, Reported, NothingLost,
       StatusPlanned, PolicyBeforeProxy, ChildReaped
  <2> QED BY <2>1, <2>2, <2>3
<1>11. CASE ProxyUnready
  <2>1. TypePositions'
    BY <1>11 DEF ProxyUnready, Fault, TypePositions, Positions, Goroutine
  <2>2. TypeFlags'
    BY <1>11 DEF ProxyUnready, Fault, TypeFlags
  <2>3. Supervision'
    BY <1>11 DEF ProxyUnready, Fault, TypePositions, TypeFlags, Placed, Reported,
       NothingLost, StatusPlanned, PolicyBeforeProxy, ChildReaped
  <2> QED BY <2>1, <2>2, <2>3
<1>12. CASE ChildExits
  <2>1. TypePositions'
    BY <1>12 DEF ChildExits, Fault, TypePositions, Positions, Goroutine
  <2>2. TypeFlags'
    BY <1>12 DEF ChildExits, Fault, TypeFlags
  <2>3. Placed' /\ Reported' /\ PolicyBeforeProxy' /\ ChildReaped'
    BY <1>12 DEF ChildExits, Fault, TypePositions, Goroutine, Placed, Reported,
       PolicyBeforeProxy, ChildReaped
  <2>4. NothingLost'
    BY <1>12 DEF ChildExits, Fault, TypeFlags, Placed, NothingLost
  <2>5. StatusPlanned'
    BY <1>12 DEF ChildExits, Fault, TypeFlags, StatusPlanned
  <2> QED BY <2>1, <2>2, <2>3, <2>4, <2>5
<1>13. CASE EnvoyExits
  <2>1. TypePositions'
    BY <1>13 DEF EnvoyExits, Fault, TypePositions, Positions, Goroutine
  <2>2. TypeFlags'
    BY <1>13 DEF EnvoyExits, Fault, TypeFlags
  <2>3. Supervision'
    BY <1>13 DEF EnvoyExits, Fault, TypePositions, TypeFlags, Placed, Reported,
       NothingLost, StatusPlanned, PolicyBeforeProxy, ChildReaped
  <2> QED BY <2>1, <2>2, <2>3
<1>14. CASE Exit
  <2>1. TypePositions'
    BY <1>14 DEF Exit, Teardown, TypePositions, Positions, Goroutine
  <2>2. TypeFlags'
    BY <1>14 DEF Exit, Teardown, TypeFlags
  <2>3. Supervision'
    BY <1>14 DEF Exit, Teardown, TypePositions, TypeFlags, Placed, Reported, NothingLost,
       StatusPlanned, PolicyBeforeProxy, ChildReaped
  <2> QED BY <2>1, <2>2, <2>3
<1>15. CASE Crash
  <2>1. TypePositions'
    BY <1>15 DEF Crash, Teardown, Fault, TypePositions, Positions, Goroutine
  <2>2. TypeFlags'
    BY <1>15 DEF Crash, Teardown, Fault, TypeFlags
  <2>3. Supervision'
    BY <1>15 DEF Crash, Teardown, Fault, TypePositions, TypeFlags, Placed, Reported,
       NothingLost, StatusPlanned, PolicyBeforeProxy, ChildReaped
  <2> QED BY <2>1, <2>2, <2>3
<1>16. CASE Restart
  <2>1. TypePositions'
    BY <1>16 DEF Restart, TypePositions, Positions, Goroutine
  <2>2. TypeFlags'
    BY <1>16 DEF Restart, TypeFlags
  <2>3. Supervision'
    BY <1>16 DEF Restart, TypePositions, TypeFlags, Placed, Reported, NothingLost,
       StatusPlanned, PolicyBeforeProxy, ChildReaped
  <2> QED BY <2>1, <2>2, <2>3
<1>17. CASE Ready
  <2>1. TypePositions'
    BY <1>17 DEF Ready, ReadyCheck, ReadyNext, TypePositions, Positions, Goroutine
  <2>2. TypeFlags'
    BY <1>17 DEF Ready, ReadyCheck, ReadyNext, TypeFlags
  <2>3. Supervision'
    BY <1>17 DEF Ready, ReadyCheck, ReadyNext, TypePositions, TypeFlags, Placed, Reported,
       NothingLost, StatusPlanned, PolicyBeforeProxy, ChildReaped
  <2> QED BY <2>1, <2>2, <2>3
<1> QED BY <1>1, <1>2, <1>3, <1>4, <1>5, <1>6, <1>7, <1>8, <1>9, <1>10, <1>11, <1>12,
       <1>13, <1>14, <1>15, <1>16, <1>17

\* Every step, and every stuttering step, preserves it.
LEMMA SystemStep ==
    ASSUME SystemInv, [Next]_vars
    PROVE  SystemInv'
<1>1. CASE Run
  BY <1>1, RunStep DEF Run, Advance
<1>2. CASE Services \/ Failures \/ Ready \/ Signal \/ StartupExpires \/ OPAStops \/ ChildExits
           \/ EnvoyExits \/ Exit \/ Restart
  BY <1>2, OutsideStep DEF Services, Failures
<1>3. CASE UNCHANGED vars
  <2> USE <1>3 DEF vars, systemVars, loopVars, opaVars, sdsVars, proxyVars
  <2>1. TypePositions' /\ TypeFlags'
    BY DEF SystemInv, TypePositions, TypeFlags
  <2>2. Supervision'
    BY DEF SystemInv, Supervision, Placed, Reported, NothingLost, StatusPlanned,
       PolicyBeforeProxy, ChildReaped, Serving
  <2> QED BY <2>1, <2>2 DEF SystemInv
<1> QED BY <1>1, <1>2, <1>3 DEF Next, Step

\* Only Ready moves the probe.
LEMMA ProbeMoves ==
    ASSUME [Next]_vars, probe' # probe
    PROVE  Ready
BY DEF Next, Step, Run, Advance, Services, Failures, vars, systemVars, Prepare, OpenCA, ClearSocket,
   Listen, StartOPA, CheckOPA, Retry, RetryDone, Launch, SelectDone, SelectOPA, SelectProxy,
   SelectSDS, SelectTick, CheckLiveness, CheckProxy, Terminate, AwaitProxy, ClearError,
   CancelOPA, StopSDS, PrepareFails, Signal, StartupExpires, OPAUp, BundleRejected, OPALost,
   OPAStops, SDSFails, EnvoyStarts, ProxyUp, ProxyUnready, ChildExits, EnvoyExits, Exit, Crash,
   Teardown, Restart

\* What a probe has checked stays, or its loss is noted.
LEMMA ProbeStep ==
    ASSUME SystemInv, ProbeInv, [Next]_vars
    PROVE  ProbeInv'
<1>1. CASE UNCHANGED vars
  <2>1. UNCHANGED <<dropped, probe, trust, socket, api, authz, proxyReady>>
    BY <1>1 DEF vars, systemVars, opaVars, sdsVars, proxyVars
  <2> QED BY <2>1 DEF ProbeInv, ReadyCheck, Required
<1>2. CASE Next
  <2>1. /\ dropped' \in BOOLEAN
        /\ ~dropped' => Checked[probe] = {} \/ (~dropped /\ ~Losing)
    BY <1>2 DEF Next, Observe, ProbeInv
  <2>2. ASSUME ~dropped' PROVE \A k \in Checked[probe] \intersect Required : ReadyCheck[k] /\ ReadyCheck'[k]
    BY <2>1, <2>2 DEF ProbeInv, Losing
  <2>3. ASSUME ~dropped', probe' = probe
        PROVE  \A k \in Checked[probe'] \intersect Required : ReadyCheck'[k]
    BY <2>2, <2>3
  <2>4. ASSUME ~dropped', probe' # probe
        PROVE  \A k \in Checked[probe'] \intersect Required : ReadyCheck'[k]
    <3>1. Ready
      BY <2>4, ProbeMoves
    <3>2. ReadyCheck' = ReadyCheck
      BY <3>1 DEF Ready, ReadyCheck, opaVars, sdsVars, proxyVars
    <3>3. CASE probe = "idle" /\ probe' = IF Role = "workload" THEN "ca" ELSE "opa"
      BY <3>3, RoleAssumption DEF Checked, Required
    <3>4. CASE probe \in DOMAIN ReadyCheck /\ ReadyCheck[probe] /\ probe' = ReadyNext[probe]
      <4>1. probe \in {"ca", "sds", "opa", "opadial", "proxy"}
        BY <3>4 DEF ReadyCheck
      <4>2. Checked[probe'] \subseteq Checked[probe] \union {probe}
        BY <3>4, <4>1 DEF Checked, ReadyNext
      <4> QED BY <2>2, <2>4, <3>2, <3>4, <4>2
    <3>5. CASE probe' = "idle"
      BY <3>5 DEF Checked
    <3> QED BY <3>1, <3>3, <3>4, <3>5 DEF Ready
  <2>5. Required' = Required
    BY DEF Required, ReadyCheck
  <2> QED BY <2>1, <2>3, <2>4, <2>5 DEF ProbeInv, Checked
<1> QED BY <1>1, <1>2

\* DaemonInv holds in every reachable state.
THEOREM DaemonInvariant == Spec => []DaemonInv
<1>1. DaemonInv /\ [Next]_vars => DaemonInv'
  BY SystemStep, ProbeStep DEF DaemonInv
<1> QED BY InitDaemon, <1>1, PTL DEF Spec

\* Every variable keeps its type.
THEOREM TypeCorrect == Spec => []TypeOK
<1>1. DaemonInv => TypeOK
  BY DEF DaemonInv, SystemInv, ProbeInv, TypeOK
<1> QED BY DaemonInvariant, <1>1, PTL

\* Run never blocks on a channel it has emptied.
THEOREM ResultPendingTheorem == Spec => []ResultPending
<1>1. DaemonInv => ResultPending
  BY DEF DaemonInv, SystemInv, TypePositions, Goroutine, Supervision, Placed, ResultPending
<1> QED BY DaemonInvariant, <1>1, PTL

\* The policy engine is ready before any proxy process runs.
THEOREM PolicyFirst == Spec => []PolicyBeforeProxy
<1>1. DaemonInv => PolicyBeforeProxy
  BY DEF DaemonInv, SystemInv, Supervision
<1> QED BY DaemonInvariant, <1>1, PTL

\* The direct child has been waited for when the services it uses are stopped.
THEOREM ChildReapedTheorem == Spec => []ChildReaped
<1>1. DaemonInv => ChildReaped
  BY DEF DaemonInv, SystemInv, Supervision
<1> QED BY DaemonInvariant, <1>1, PTL

\* Run stops only when asked to, or for a loss.
THEOREM StopHasCauseTheorem == Spec => []StopHasCause
<1>1. DaemonInv => StopHasCause
  BY DEF DaemonInv, SystemInv, TypeFlags, Supervision, NothingLost, StopHasCause, Startup, Supervising,
     Stopping
<1> QED BY DaemonInvariant, <1>1, PTL

\* The result of Run tells a requested stop from a failure.
THEOREM ExitStatusTheorem == Spec => []ExitStatus
<1>1. DaemonInv => ExitStatus
  BY DEF DaemonInv, SystemInv, Supervision, StatusPlanned, ExitStatus, Stopping
<1> QED BY DaemonInvariant, <1>1, PTL

\* Whatever runs of the proxy's group is told to stop before OPA and the SDS are.
THEOREM GroupSignalledTheorem == Spec => []GroupSignalled
<1>1. DaemonInv => GroupSignalled
  BY DEF DaemonInv, SystemInv, Supervision, Placed, Stopping, GroupSignalled
<1> QED BY DaemonInvariant, <1>1, PTL

\* A successful Ready speaks of a run whose policy engine has been ready and, unless
\* something was lost since it was checked, of services that are all there at once.
THEOREM ReadyMeansServingTheorem == Spec => ReadyMeansServing
<1> DEFINE Served == /\ wasReady /\ (Role = "workload" => trust)
                     /\ dropped \/ \A k \in Required : ReadyCheck[k]
<1>1. ASSUME DaemonInv, [Next]_vars, probe = "proxy", probe' = "ok"
      PROVE  Served
  <2>1. Ready
    BY <1>1, ProbeMoves
  <2>2. proxyReady /\ ReadyCheck["proxy"]
    BY <1>1, <2>1 DEF Ready, ReadyCheck
  <2>3. child = "running" \/ envoy = "running"
    BY <1>1, <2>2 DEF DaemonInv, SystemInv, Supervision, Placed, Serving
  <2>4. wasReady /\ (Role = "workload" => trust)
    BY <1>1, <2>3 DEF DaemonInv, SystemInv, Supervision, PolicyBeforeProxy, Reported
  <2>5. Required \subseteq Checked["proxy"] \union {"proxy"}
    BY RoleAssumption DEF Required, ReadyCheck, Checked
  <2>6. dropped \/ \A k \in Required : ReadyCheck[k]
    BY <1>1, <2>2, <2>5 DEF DaemonInv, ProbeInv
  <2> QED BY <2>4, <2>6
<1>2. DaemonInv /\ [Next]_vars => [probe = "proxy" /\ probe' = "ok" => Served]_vars
  BY <1>1
<1> QED BY DaemonInvariant, <1>2, PTL DEF Spec, ReadyMeansServing
=============================================================================
