------------------------- MODULE InspectionCAProofs -------------------------
(***************************************************************************)
(* Proofs about InspectionCA, for any number of daemons and private        *)
(* directories, any number of kills and any number of generated CAs.       *)
(***************************************************************************)
EXTENDS InspectionCA, TLAPS

\* Open returns an error or the process ends: nothing on disk changes.
LEMMA LeaveCore ==
    ASSUME CoreInv, NEW p \in Procs, pc[p] # "idle", Leave(p), debris' \subseteq Dirs,
           kills' \in Nat, outages' = outages, served' = served,
           UNCHANGED <<state, synced, foreign, pub, pubSynced, made, unusable, trustVars>>
    PROVE  CoreInv'
<1> USE ProcsAssumption DEF CoreInv, TypeOK, Leave, Goto, trustVars
<1>1. TypeOK'
  BY DEF Steps
<1>2. LockHeld'
  BY DEF LockHeld
<1>3. MemoryMatches'
  BY DEF MemoryMatches
<1>4. CAsDistinct'
  BY DEF CAsDistinct
<1> QED BY <1>1, <1>2, <1>3, <1>4

\* Every file operation of Open preserves the invariant of the volumes.
LEMMA StepCore ==
    ASSUME CoreInv, NEW p \in Procs, Step(p)
    PROVE  CoreInv'
<1> USE ProcsAssumption DEF fileVars, trustVars, failVars, At
<1>1. CASE Lock(p)
  <2>1. TypeOK'
    BY <1>1 DEF CoreInv, TypeOK, Lock, Goto, Steps
  <2>2. LockHeld' /\ MemoryMatches' /\ CAsDistinct'
    BY <1>1 DEF CoreInv, TypeOK, Lock, MayLock, Goto, LockHeld, MemoryMatches, CAsDistinct
  <2> QED BY <2>1, <2>2 DEF CoreInv
<1>2. CASE ReadState(p)
  <2>1. TypeOK'
    BY <1>2 DEF CoreInv, TypeOK, ReadState, Goto, Steps
  <2>2. LockHeld'
    BY <1>2 DEF CoreInv, TypeOK, ReadState, Goto, LockHeld
  <2>3. MemoryMatches'
    BY <1>2 DEF CoreInv, TypeOK, ReadState, Goto, MemoryMatches
  <2>4. \A q \in Procs : q # p /\ mem[q] # 0 => mem[q] # state[Home[p]]
    BY <1>2 DEF CoreInv, TypeOK, ReadState, LockHeld, MemoryMatches, CAsDistinct, Steps
  <2>5. CAsDistinct'
    BY <1>2, <2>4 DEF CoreInv, TypeOK, ReadState, CAsDistinct
  <2> QED BY <2>1, <2>2, <2>3, <2>5 DEF CoreInv
<1>3. CASE Refuse(p)
  BY <1>3, LeaveCore DEF Refuse, CoreInv, TypeOK
<1>4. CASE Generate(p)
  <2>1. TypeOK'
    BY <1>4 DEF CoreInv, TypeOK, Generate, Goto, Steps
  <2>2. LockHeld'
    BY <1>4 DEF CoreInv, TypeOK, Generate, Goto, LockHeld
  <2>3. MemoryMatches'
    BY <1>4 DEF CoreInv, TypeOK, Generate, Goto, MemoryMatches, CAsDistinct
  <2>4. CAsDistinct'
    BY <1>4 DEF CoreInv, TypeOK, Generate, CAsDistinct
  <2> QED BY <2>1, <2>2, <2>3, <2>4 DEF CoreInv
<1>5. CASE WriteTemp(p) \/ SyncState(p)
  <2>1. TypeOK'
    BY <1>5 DEF CoreInv, TypeOK, WriteTemp, SyncState, Goto, Steps
  <2>2. LockHeld' /\ MemoryMatches' /\ CAsDistinct'
    BY <1>5 DEF CoreInv, TypeOK, WriteTemp, SyncState, Goto, LockHeld, MemoryMatches,
       CAsDistinct
  <2> QED BY <2>1, <2>2 DEF CoreInv
<1>6. CASE Rename(p)
  <2>1. TypeOK'
    BY <1>6 DEF CoreInv, TypeOK, Rename, Goto, Steps
  <2>2. LockHeld'
    BY <1>6 DEF CoreInv, TypeOK, Rename, Goto, LockHeld
  <2>3. \A q \in Procs : q # p /\ pc[q] # "idle" => Home[q] # Home[p]
    BY <1>6 DEF CoreInv, TypeOK, Rename, LockHeld
  <2>4. MemoryMatches'
    BY <1>6, <2>3 DEF CoreInv, TypeOK, Rename, Goto, MemoryMatches, CAsDistinct
  <2>5. CAsDistinct'
    BY <1>6 DEF CoreInv, TypeOK, Rename, MemoryMatches, CAsDistinct
  <2> QED BY <2>1, <2>2, <2>4, <2>5 DEF CoreInv
<1>7. CASE Verify(p)
  <2>1. CASE Leave(p)
    BY <1>7, <2>1, LeaveCore DEF Verify, CoreInv, TypeOK
  <2>2. CASE Goto(p, "link") /\ UNCHANGED <<mem, lock>>
    <3>1. TypeOK'
      BY <1>7, <2>2 DEF CoreInv, TypeOK, Verify, Goto, Steps
    <3>2. LockHeld' /\ MemoryMatches' /\ CAsDistinct'
      BY <1>7, <2>2 DEF CoreInv, TypeOK, Verify, Goto, LockHeld, MemoryMatches, CAsDistinct
    <3> QED BY <3>1, <3>2 DEF CoreInv
  <2> QED BY <1>7, <2>1, <2>2 DEF Verify
<1>8. CASE Link(p)
  <2>1. TypeOK'
    BY <1>8 DEF CoreInv, TypeOK, Link, Goto, Steps
  <2>2. LockHeld'
    BY <1>8 DEF CoreInv, TypeOK, Link, Goto, LockHeld
  <2>3. \A q \in Procs : pc[q] \in {"temp", "rename"} => mem[q] # mem[p]
    BY <1>8 DEF CoreInv, TypeOK, Link, MemoryMatches
  <2>4. \A q \in Procs : pc[q] \notin {"pubsync", "open"}
    BY <1>8 DEF CoreInv, TypeOK, Link, LinkSucceeds, MemoryMatches
  <2>5. MemoryMatches'
    BY <1>8, <2>3, <2>4 DEF CoreInv, TypeOK, Link, Goto, MemoryMatches
  <2>6. CAsDistinct'
    BY <1>8 DEF CoreInv, TypeOK, Link, CAsDistinct
  <2> QED BY <2>1, <2>2, <2>5, <2>6 DEF CoreInv
<1>9. CASE SyncPublic(p)
  <2>1. TypeOK'
    BY <1>9 DEF CoreInv, TypeOK, SyncPublic, Goto, Steps
  <2>2. LockHeld' /\ MemoryMatches' /\ CAsDistinct'
    BY <1>9 DEF CoreInv, TypeOK, SyncPublic, Goto, LockHeld, MemoryMatches, CAsDistinct
  <2> QED BY <2>1, <2>2 DEF CoreInv
<1>10. CASE LinkExists(p)
  <2>1. CASE Leave(p) /\ UNCHANGED served
    BY <1>10, <2>1, LeaveCore DEF LinkExists, CoreInv, TypeOK
  <2>2. CASE /\ Matches(p) /\ Goto(p, "open") /\ served' = served \union {mem[p]}
             /\ UNCHANGED <<mem, lock>>
    <3>1. TypeOK'
      BY <1>10, <2>2 DEF CoreInv, TypeOK, LinkExists, Goto, Steps
    <3>2. LockHeld' /\ MemoryMatches' /\ CAsDistinct'
      BY <1>10, <2>2 DEF CoreInv, TypeOK, LinkExists, Matches, Goto, LockHeld,
         MemoryMatches, CAsDistinct
    <3> QED BY <3>1, <3>2 DEF CoreInv
  <2> QED BY <1>10, <2>1, <2>2 DEF LinkExists
<1> QED BY <1>1, <1>2, <1>3, <1>4, <1>5, <1>6, <1>7, <1>8, <1>9, <1>10 DEF Step

\* The volumes are empty at first, but for files the daemon did not write.
LEMMA InitCore == Init => CoreInv
<1> SUFFICES ASSUME Init PROVE CoreInv
  OBVIOUS
<1> USE ProcsAssumption
<1>1. TypeOK
  BY DEF Init, TypeOK, Steps
<1>2. LockHeld
  BY DEF Init, LockHeld
<1>3. MemoryMatches
  BY DEF Init, MemoryMatches
<1>4. CAsDistinct
  BY DEF Init, CAsDistinct
<1> QED BY <1>1, <1>2, <1>3, <1>4 DEF CoreInv

\* A power failure empties the memory of every process; a lost state file takes no
\* other CA's place.
LEMMA PowerCore ==
    ASSUME CoreInv, PowerLoss
    PROVE  CoreInv'
<1> USE ProcsAssumption DEF CoreInv, TypeOK
<1>1. PICK lost \in SUBSET (Dirs \ synced) :
        state' = [d \in Dirs |-> IF d \in lost THEN 0 ELSE state[d]]
  BY DEF PowerLoss
<1>2. debris' \subseteq Dirs
  BY DEF PowerLoss, Writing
<1>3. TypeOK'
  BY <1>1, <1>2 DEF PowerLoss, Steps
<1>4. LockHeld'
  BY DEF PowerLoss, LockHeld
<1>5. MemoryMatches'
  BY DEF PowerLoss, MemoryMatches
<1>6. CAsDistinct'
  <2>1. pub' <= made' /\ \A d \in Dirs : state'[d] <= made'
    BY <1>1 DEF PowerLoss, CAsDistinct
  <2>2. \A p \in Procs : mem'[p] = 0
    BY DEF PowerLoss
  <2>3. \A d, e \in Dirs : state'[d] = state'[e] /\ state'[d] # 0 => d = e
    BY <1>1 DEF CAsDistinct
  <2> QED BY <2>1, <2>2, <2>3, <1>3 DEF CAsDistinct
<1> QED BY <1>3, <1>4, <1>5, <1>6

\* Every step preserves the invariant of the volumes.
LEMMA NextCore ==
    ASSUME CoreInv, [Next]_vars
    PROVE  CoreInv'
<1>1. CASE \E p \in Procs : Step(p)
  BY <1>1, StepCore
<1>2. CASE \E p \in Procs : Close(p) \/ Kill(p) \/ IOError(p)
  <2>1. PICK p \in Procs : Close(p) \/ Kill(p) \/ IOError(p)
    BY <1>2
  <2>2. pc[p] # "idle" /\ Leave(p)
    BY <2>1 DEF Close, Kill, IOError, At
  <2>3. debris' \subseteq Dirs
    BY <2>1, ProcsAssumption DEF Close, Kill, IOError, Writing, fileVars, CoreInv, TypeOK
  <2>4. kills' \in Nat /\ outages' = outages
    BY <2>1 DEF Close, Kill, IOError, failVars, CoreInv, TypeOK
  <2>5. served' = served /\ UNCHANGED <<state, synced, foreign, pub, pubSynced, made,
                                        unusable, trustVars>>
    BY <2>1 DEF Close, Kill, IOError, fileVars
  <2> QED BY <2>2, <2>3, <2>4, <2>5, LeaveCore
<1>3. CASE TrustRead \/ TrustWrite \/ (\E c \in CAs : Spoil(c)) \/ UNCHANGED vars
  <2>1. UNCHANGED <<fileVars, lock, pc, mem, made, served, failVars>>
    BY <1>3 DEF TrustRead, TrustWrite, Spoil, vars
  <2>2. TypeOK'
    BY <1>3, <2>1 DEF TrustRead, TrustWrite, Spoil, vars, trustVars, fileVars, failVars, CoreInv,
       TypeOK
  <2>3. LockHeld' /\ MemoryMatches' /\ CAsDistinct'
    BY <2>1 DEF fileVars, CoreInv, LockHeld, MemoryMatches, CAsDistinct
  <2> QED BY <2>2, <2>3 DEF CoreInv
<1>4. CASE PowerLoss
  BY <1>4, PowerCore
<1> QED BY <1>1, <1>2, <1>3, <1>4 DEF Next

\* CoreInv holds in every reachable state, whatever is killed, fails or loses power.
THEOREM VolumesConsistent == Spec => []CoreInv
<1>1. CoreInv /\ [Next]_vars => CoreInv'
  BY NextCore
<1> QED BY InitCore, <1>1, PTL DEF Spec

\* At most one daemon has an Authority, and it is the published one, whatever
\* Open calls interleave, fail, are killed or lose power.
THEOREM OneAuthorityTheorem == Spec => []OneAuthority
<1>1. CoreInv => OneAuthority
  BY DEF CoreInv, TypeOK, MemoryMatches, CAsDistinct, OneAuthority
<1> QED BY VolumesConsistent, <1>1, PTL

\* No step of Open, and no failure, replaces a committed CA by another one; only a power
\* failure takes one away, and only where it was not synced.
THEOREM NeverReplacedTheorem == Spec => NeverReplaced
<1> DEFINE Kept == /\ \A d \in Dirs : state[d] # 0 /\ state'[d] # state[d] =>
                         state'[d] = 0 /\ d \notin synced /\ outages' = outages + 1
                   /\ pub # 0 /\ pub' # pub =>
                         pub' = 0 /\ ~pubSynced /\ outages' = outages + 1
<1>1. ASSUME CoreInv, [Next]_vars
      PROVE  Kept
  <2>1. CASE \E p \in Procs : Rename(p)
    <3>1. PICK p \in Procs : Rename(p)
      BY <2>1
    <3>2. state[Home[p]] = 0
      BY <1>1, <3>1 DEF Rename, At, CoreInv, MemoryMatches
    <3>3. \A d \in Dirs : d # Home[p] => state'[d] = state[d]
      BY <1>1, <3>1 DEF Rename, CoreInv, TypeOK
    <3>4. pub' = pub
      BY <3>1 DEF Rename
    <3> QED BY <3>2, <3>3, <3>4
  <2>2. CASE \E p \in Procs : Link(p)
    BY <2>2 DEF Link, LinkSucceeds
  <2>3. CASE PowerLoss
    BY <2>3 DEF PowerLoss
  <2>4. CASE UNCHANGED <<state, pub>>
    BY <2>4
  <2>5. \/ \E p \in Procs : Rename(p) \/ Link(p)
        \/ PowerLoss
        \/ UNCHANGED <<state, pub>>
    BY <1>1 DEF Next, Step, Lock, ReadState, Refuse, Generate, WriteTemp, SyncState, Verify,
       SyncPublic, LinkExists, Close, Kill, IOError, TrustRead, TrustWrite, Spoil, vars,
       fileVars
  <2> QED BY <2>1, <2>2, <2>3, <2>4, <2>5
<1>2. CoreInv /\ [Next]_vars => [Kept]_vars
  BY <1>1
<1> QED BY VolumesConsistent, <1>2, PTL DEF Spec, NeverReplaced

-----------------------------------------------------------------------------

\* Only Link sets the published certificate, and only when there is none, so what
\* was served or trusted before remains the published CA.
LEMMA TrustStep ==
    ASSUME CoreInv, TrustInv, [Next]_vars
    PROVE  TrustInv'
<1> SUFFICES ASSUME outages' = 0 PROVE TrustInv'
  BY DEF TrustInv
<1>0. outages = 0 /\ ~PowerLoss
  BY DEF CoreInv, TypeOK, PowerLoss, Next, Step, Lock, ReadState, Refuse, Generate, WriteTemp,
     Rename, SyncState, Verify, Link, SyncPublic, LinkExists, Close, Kill, IOError, TrustRead,
     TrustWrite, Spoil, vars, failVars
<1> USE <1>0 DEF TrustInv
<1>1. CASE \E p \in Procs : Link(p)
  BY <1>1 DEF Link, LinkSucceeds, trustVars
<1>2. CASE \E p \in Procs : SyncPublic(p)
  BY <1>2 DEF SyncPublic, At, CoreInv, MemoryMatches, trustVars
<1>3. CASE \E p \in Procs : LinkExists(p)
  BY <1>3 DEF LinkExists, LinkSucceeds, Matches, At, trustVars, fileVars
<1>4. CASE TrustRead \/ TrustWrite
  BY <1>4 DEF TrustRead, TrustWrite, fileVars
<1>5. CASE UNCHANGED <<pub, reading, bundle, served>>
  BY <1>5
<1>6. \/ \E p \in Procs : Link(p) \/ SyncPublic(p) \/ LinkExists(p)
      \/ TrustRead \/ TrustWrite
      \/ UNCHANGED <<pub, reading, bundle, served>>
  BY DEF Next, Step, Lock, ReadState, Refuse, Generate, WriteTemp, Rename, SyncState, Verify,
     Close, Kill, IOError, Spoil, vars, fileVars, trustVars
<1> QED BY <1>1, <1>2, <1>3, <1>4, <1>5, <1>6

\* Short of a power failure whatever was served or trusted is the published CA.
THEOREM TrustInvariant == Spec => []TrustInv
<1>1. Init => TrustInv
  BY DEF Init, TrustInv
<1>2. CoreInv /\ TrustInv /\ [Next]_vars => TrustInv'
  BY TrustStep
<1> QED BY VolumesConsistent, <1>1, <1>2, PTL DEF Spec

\* Every Authority ever returned holds the same CA.
THEOREM SingleAuthorityTheorem == Spec => []SingleAuthority
<1>1. TrustInv => SingleAuthority
  BY DEF TrustInv, SingleAuthority
<1> QED BY TrustInvariant, <1>1, PTL

\* An application with a bundle trusts the CA of the running daemon.
THEOREM BundleTheorem == Spec => []BundleTrustsSigner
<1>1. CoreInv /\ TrustInv => BundleTrustsSigner
  BY DEF CoreInv, MemoryMatches, TrustInv, BundleTrustsSigner
<1> QED BY VolumesConsistent, TrustInvariant, <1>1, PTL

-----------------------------------------------------------------------------
(* The refinement of TrustAnchor. *)

\* What trust-init has read is still the published certificate when it writes the bundle.
ReadingCurrent == reading \in {0, pub}

\* Nothing takes the certificate away from a trust-init that has read it: a power failure
\* takes away both.
LEMMA ReadingStep ==
    ASSUME ReadingCurrent, [Next]_vars
    PROVE  ReadingCurrent'
<1>1. CASE \E p \in Procs : Link(p)
  BY <1>1 DEF Link, LinkSucceeds, trustVars, ReadingCurrent
<1>2. CASE TrustRead \/ TrustWrite \/ PowerLoss
  BY <1>2 DEF TrustRead, TrustWrite, PowerLoss, fileVars, ReadingCurrent
<1>3. CASE UNCHANGED <<pub, reading>>
  BY <1>3 DEF ReadingCurrent
<1>4. \/ \E p \in Procs : Link(p)
      \/ TrustRead \/ TrustWrite \/ PowerLoss
      \/ UNCHANGED <<pub, reading>>
  BY DEF Next, Step, Lock, ReadState, Refuse, Generate, WriteTemp, Rename, SyncState, Verify,
     SyncPublic, LinkExists, Close, Kill, IOError, Spoil, vars, fileVars, trustVars
<1> QED BY <1>1, <1>2, <1>3, <1>4

\* A process that goes on within Open, or that ends, changes nobody else's Authority.
LEMMA SignerMoves ==
    ASSUME CoreInv, NEW p \in Procs, pc[p] # "open", NEW s, s # "open", Goto(p, s),
           \A q \in Procs : q # p => mem'[q] = mem[q]
    PROVE  Signer' = Signer
<1>1. \A q \in Procs : q # p => pc'[q] = pc[q]
  BY DEF CoreInv, TypeOK, Goto
<1>2. pc'[p] = s
  BY DEF CoreInv, TypeOK, Goto
<1> QED BY <1>1, <1>2 DEF Signer

\* Whoever gives up its Authority stops to sign.
LEMMA LeaveStops ==
    ASSUME CoreInv, NEW p \in Procs, Leave(p), UNCHANGED <<pub, pubSynced, bundle>>
    PROVE  Anchor!Stop(p)
<1>1. \A q \in Procs : pc'[q] = (IF q = p THEN "idle" ELSE pc[q]) /\ (q # p => mem'[q] = mem[q])
  BY DEF CoreInv, TypeOK, Leave, Goto
<1>2. Signer' = [Signer EXCEPT ![p] = 0]
  BY <1>1 DEF Signer
<1> QED BY <1>2 DEF Anchor!Stop

\* Whoever gets an Authority is the only one to have one, and it is the published CA.
LEMMA OpenSigns ==
    ASSUME CoreInv, NEW p \in Procs, pc[p] # "open", Goto(p, "open"), mem[p] = pub, mem[p] # 0,
           UNCHANGED <<mem, pub, bundle>>, pubSynced' \in {pubSynced, TRUE}
    PROVE  Anchor!Sign(p)
<1>1. \A q \in Procs : pc[q] # "open"
  BY DEF CoreInv, TypeOK, MemoryMatches, CAsDistinct
<1>2. Signer = Anchor!NoSigner
  BY <1>1 DEF Signer, Anchor!NoSigner
<1>3. \A q \in Procs : pc'[q] = IF q = p THEN "open" ELSE pc[q]
  BY DEF CoreInv, TypeOK, Goto
<1>4. Signer' = [Signer EXCEPT ![p] = pub]
  BY <1>1, <1>3 DEF Signer
<1> QED BY <1>2, <1>4 DEF Anchor!Sign

\* The first link publishes.
LEMMA LinkPublishes ==
    ASSUME CoreInv, NEW p \in Procs, Link(p)
    PROVE  Anchor!Publish
<1>1. pc[p] # "open" /\ Goto(p, "pubsync") /\ mem' = mem
  BY DEF Link, At
<1>2. Signer' = Signer
  BY <1>1, SignerMoves
<1>3. pub = 0 /\ pub' = mem[p] /\ mem[p] # 0 /\ pubSynced' = FALSE /\ bundle' = bundle
  BY DEF Link, LinkSucceeds, At, CoreInv, MemoryMatches, trustVars
<1> QED BY <1>2, <1>3 DEF Anchor!Publish

\* A step of Open publishes, takes or gives up an Authority, or is not seen.
LEMMA StepAnchor ==
    ASSUME CoreInv, NEW p \in Procs, Step(p)
    PROVE  [Anchor!Next]_(Anchor!anchorVars)
<1> USE DEF fileVars, trustVars
<1>1. CASE Link(p)
  BY <1>1, LinkPublishes DEF Anchor!Next
<1>2. CASE SyncPublic(p)
  <2>1. pc[p] # "open" /\ mem[p] = pub /\ mem[p] # 0
    BY <1>2 DEF SyncPublic, At, CoreInv, MemoryMatches
  <2>2. Goto(p, "open") /\ UNCHANGED <<mem, pub, bundle>> /\ pubSynced' = TRUE
    BY <1>2 DEF SyncPublic
  <2> QED BY <2>1, <2>2, OpenSigns DEF Anchor!Next
<1>3. CASE LinkExists(p)
  <2>1. CASE Leave(p)
    <3>1. UNCHANGED <<pub, pubSynced, bundle>>
      BY <1>3 DEF LinkExists
    <3> QED BY <2>1, <3>1, LeaveStops DEF Anchor!Next
  <2>2. CASE Matches(p) /\ Goto(p, "open") /\ UNCHANGED <<mem, lock>>
    <3>1. pc[p] # "open" /\ mem[p] = pub /\ mem[p] # 0 /\ UNCHANGED <<mem, pub, pubSynced, bundle>>
      BY <1>3, <2>2 DEF LinkExists, Matches, At, CoreInv, MemoryMatches
    <3> QED BY <2>2, <3>1, OpenSigns DEF Anchor!Next
  <2> QED BY <1>3, <2>1, <2>2 DEF LinkExists
<1>4. CASE Refuse(p) \/ (Verify(p) /\ Leave(p))
  <2>1. Leave(p) /\ UNCHANGED <<pub, pubSynced, bundle>>
    BY <1>4 DEF Refuse, Verify
  <2> QED BY <2>1, LeaveStops DEF Anchor!Next
<1>5. CASE \/ Lock(p) \/ ReadState(p) \/ Generate(p) \/ WriteTemp(p) \/ Rename(p) \/ SyncState(p)
           \/ Verify(p) /\ ~Leave(p)
  <2>1. /\ pc[p] # "open" /\ UNCHANGED <<pub, pubSynced, bundle>>
        /\ \E s \in {"read", "lstat", "verify", "temp", "rename", "sync", "link"} : Goto(p, s)
    BY <1>5 DEF Lock, ReadState, Generate, WriteTemp, Rename, SyncState, Verify, At
  <2>2. \A q \in Procs : q # p => mem'[q] = mem[q]
    BY <1>5 DEF Lock, ReadState, Generate, WriteTemp, Rename, SyncState, Verify, CoreInv, TypeOK
  <2>3. Signer' = Signer
    BY <2>1, <2>2, SignerMoves
  <2> QED BY <2>1, <2>3 DEF Anchor!anchorVars
<1> QED BY <1>1, <1>2, <1>3, <1>4, <1>5 DEF Step

\* Every step is one of TrustAnchor, or is not seen by the application.
LEMMA NextAnchor ==
    ASSUME CoreInv, ReadingCurrent, [Next]_vars
    PROVE  [Anchor!Next]_(Anchor!anchorVars)
<1> USE DEF fileVars, trustVars
<1>1. CASE \E p \in Procs : Step(p)
  BY <1>1, StepAnchor
<1>2. CASE \E p \in Procs : Close(p) \/ Kill(p) \/ IOError(p)
  <2>1. PICK p \in Procs : Close(p) \/ Kill(p) \/ IOError(p)
    BY <1>2
  <2>2. Leave(p) /\ UNCHANGED <<pub, pubSynced, bundle>>
    BY <2>1 DEF Close, Kill, IOError
  <2> QED BY <2>2, LeaveStops DEF Anchor!Next
<1>3. CASE TrustWrite
  <2>1. pub # 0 /\ bundle' = pub /\ UNCHANGED <<pub, pubSynced, pc, mem>>
    BY <1>3 DEF TrustWrite, ReadingCurrent
  <2> QED BY <2>1 DEF Signer, Anchor!Trust, Anchor!Next
<1>4. CASE TrustRead \/ (\E c \in CAs : Spoil(c)) \/ UNCHANGED vars
  <2>1. UNCHANGED <<pub, pubSynced, bundle, pc, mem>>
    BY <1>4 DEF TrustRead, Spoil, vars
  <2> QED BY <2>1 DEF Signer, Anchor!anchorVars
<1>5. CASE PowerLoss
  <2>1. /\ pub' = pub \/ (~pubSynced /\ pub' = 0)
        /\ pubSynced' = TRUE /\ bundle' = bundle
        /\ \A p \in Procs : pc'[p] = "idle"
    BY <1>5 DEF PowerLoss
  <2>2. Signer' = Anchor!NoSigner
    BY <2>1 DEF Signer, Anchor!NoSigner
  <2> QED BY <2>1, <2>2 DEF Anchor!PowerFails, Anchor!Next
<1> QED BY <1>1, <1>2, <1>3, <1>4, <1>5 DEF Next

\* Open, trust-init and every failure between their file operations implement the
\* contract with the application.
THEOREM AnchorImplemented == Spec => TrustSpec
<1>1. Init => Anchor!Init /\ ReadingCurrent
  BY DEF Init, Anchor!Init, Anchor!NoSigner, Signer, ReadingCurrent
<1>2. ReadingCurrent /\ [Next]_vars => ReadingCurrent'
  BY ReadingStep
<1>3. CoreInv /\ ReadingCurrent /\ [Next]_vars => [Anchor!Next]_(Anchor!anchorVars)
  BY NextAnchor
<1> QED BY <1>1, <1>2, <1>3, VolumesConsistent, PTL DEF Spec, TrustSpec, Anchor!Spec
=============================================================================
