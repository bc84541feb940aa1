---------------------------- MODULE InspectionCA ----------------------------
(***************************************************************************)
(* The inspection CA on the Pod volumes: internal/inspection/ca.go (Open,  *)
(* publishCertificate, writeAtomic) and the trust-init command of          *)
(* cmd/gateway-daemon.                                                     *)
(*                                                                         *)
(* Daemons open the CA of their private directory, creating it when there  *)
(* is none, and publish its certificate in a public directory they may     *)
(* share.  Open is a sequence of file operations; another process, a kill, *)
(* an I/O error or a power failure may come between any two of them.  A    *)
(* CA is a number in the order of generation and 0 stands for no file; the *)
(* key and the certificate are one file and so one value.                  *)
(***************************************************************************)
EXTENDS Naturals, FiniteSets

CONSTANTS
    Procs,       \* daemon processes
    NoProc,      \* the owner of a free lock
    Dirs,        \* private state directories
    Home,        \* the private directory of each daemon
    MaxCAs,      \* bound on generated CAs
    MaxKills,    \* bound on kills and I/O errors
    MaxOutages   \* bound on power failures

ASSUME ProcsAssumption == NoProc \notin Procs /\ Home \in [Procs -> Dirs]
ASSUME CABoundsAssumption == MaxCAs \in Nat /\ MaxKills \in Nat /\ MaxOutages \in Nat

VARIABLES
    state,      \* the CA in inspection-ca.json of each private directory
    synced,     \* private directories whose state file would survive power loss
    foreign,    \* private directories holding files the daemon did not write
    debris,     \* private directories with the temporary file of a dead process
    pub,        \* the CA in inspection-ca.pem of the public directory
    pubSynced,  \* would that file survive power loss?
    lock,       \* owner of the flock of each private directory
    pc,         \* the next step of Open in each process
    mem,        \* the CA each process holds in memory
    made,       \* CAs generated so far
    unusable,   \* CAs that have expired, or whose file is damaged
    reading,    \* the CA trust-init has read, before it writes the bundle
    bundle,     \* the inspection CA in the application's trust bundle
    served,     \* history: every CA an Authority was returned for
    kills,      \* kills and I/O errors so far
    outages     \* power failures so far

fileVars == <<state, synced, foreign, debris, pub, pubSynced>>
trustVars == <<reading, bundle>>
failVars == <<kills, outages>>
vars == <<fileVars, lock, pc, mem, made, unusable, trustVars, served, failVars>>

CAs == 1..MaxCAs
Steps == {"idle", "read", "lstat", "temp", "rename", "sync", "verify", "link",
          "pubsync", "open"}

Init ==
    /\ state = [d \in Dirs |-> 0] /\ synced = {} /\ debris = {}
    /\ foreign \in SUBSET Dirs
    /\ pub = 0 /\ pubSynced = FALSE
    /\ lock = [d \in Dirs |-> NoProc]
    /\ pc = [p \in Procs |-> "idle"]
    /\ mem = [p \in Procs |-> 0]
    /\ made = 0 /\ unusable = {}
    /\ reading = 0 /\ bundle = 0
    /\ served = {}
    /\ kills = 0 /\ outages = 0

-----------------------------------------------------------------------------
(* Open. *)

At(p, step) == pc[p] = step
Goto(p, step) == pc' = [pc EXCEPT ![p] = step]

\* Open returns an error, or the process ends: the lock is released with it.
Leave(p) ==
    /\ Goto(p, "idle")
    /\ mem' = [mem EXCEPT ![p] = 0]
    /\ lock' = [lock EXCEPT ![Home[p]] = NoProc]

\* The flock is taken without waiting; Open fails when it is held.
LockIgnored(p) == TRUE
MayLock(p) == lock[Home[p]] = NoProc
Lock(p) ==
    /\ At(p, "idle")
    /\ MayLock(p)
    /\ lock' = [lock EXCEPT ![Home[p]] = p]
    /\ Goto(p, "read")
    /\ UNCHANGED <<fileVars, mem, made, unusable, trustVars, served, failVars>>

\* readPrivate finds the state file, or finds that there is none.
ReadState(p) ==
    /\ At(p, "read")
    /\ mem' = [mem EXCEPT ![p] = state[Home[p]]]
    /\ Goto(p, IF state[Home[p]] = 0 THEN "lstat" ELSE "verify")
    /\ UNCHANGED <<fileVars, lock, made, unusable, trustVars, served, failVars>>

\* Without a state file Open refuses when trust is published or the directory
\* holds anything but the lock and temporary files of an interrupted write.
RefusesDebris(p) == pub # 0 \/ Home[p] \in foreign \/ Home[p] \in debris
Refuses(p) == pub # 0 \/ Home[p] \in foreign

Refuse(p) ==
    /\ At(p, "lstat")
    /\ Refuses(p)
    /\ Leave(p)
    /\ UNCHANGED <<fileVars, made, unusable, trustVars, served, failVars>>

Generate(p) ==
    /\ At(p, "lstat")
    /\ ~Refuses(p)
    /\ made < MaxCAs
    /\ made' = made + 1
    /\ mem' = [mem EXCEPT ![p] = made + 1]
    /\ Goto(p, "temp")
    /\ UNCHANGED <<fileVars, lock, unusable, trustVars, served, failVars>>

\* writeAtomic creates the temporary file, writes it and syncs it.
WriteTemp(p) ==
    /\ At(p, "temp")
    /\ Goto(p, "rename")
    /\ UNCHANGED <<fileVars, lock, mem, made, unusable, trustVars, served, failVars>>

\* The temporary file becomes the state file.
Rename(p) ==
    /\ At(p, "rename")
    /\ state' = [state EXCEPT ![Home[p]] = mem[p]]
    /\ synced' = synced \ {Home[p]}
    /\ Goto(p, "sync")
    /\ UNCHANGED <<foreign, debris, pub, pubSynced, lock, mem, made, unusable, trustVars,
                   served, failVars>>

SyncState(p) ==
    /\ At(p, "sync")
    /\ synced' = synced \union {Home[p]}
    /\ Goto(p, "verify")
    /\ UNCHANGED <<state, foreign, debris, pub, pubSynced, lock, mem, made, unusable, trustVars,
                   served, failVars>>

\* Open checks the key pair, the validity period and the self-signature.
Verify(p) ==
    /\ At(p, "verify")
    /\ \/ mem[p] \notin unusable /\ Goto(p, "link") /\ UNCHANGED <<mem, lock>>
       \/ mem[p] \in unusable /\ Leave(p)
    /\ UNCHANGED <<fileVars, made, unusable, trustVars, served, failVars>>

\* publishCertificate links a complete file; it never replaces one.
LinkReplaces(p) == TRUE
LinkSucceeds(p) == pub = 0

Link(p) ==
    /\ At(p, "link")
    /\ LinkSucceeds(p)
    /\ pub' = mem[p] /\ pubSynced' = FALSE
    /\ Goto(p, "pubsync")
    /\ UNCHANGED <<state, synced, foreign, debris, lock, mem, made, unusable, trustVars, served, failVars>>

SyncPublic(p) ==
    /\ At(p, "pubsync")
    /\ pubSynced' = TRUE
    /\ Goto(p, "open")
    /\ served' = served \union {mem[p]}
    /\ UNCHANGED <<state, synced, foreign, debris, pub, lock, mem, made, unusable, trustVars, failVars>>

\* The certificate exists already: it must be the one of this CA.
AnyCertificate(p) == TRUE
Matches(p) == pub = mem[p]

LinkExists(p) ==
    /\ At(p, "link")
    /\ ~LinkSucceeds(p)
    /\ \/ /\ Matches(p)
          /\ Goto(p, "open")
          /\ served' = served \union {mem[p]}
          /\ UNCHANGED <<mem, lock>>
       \/ ~Matches(p) /\ Leave(p) /\ UNCHANGED served
    /\ UNCHANGED <<fileVars, made, unusable, trustVars, failVars>>

\* Authority.Close at the end of the daemon.
Close(p) ==
    /\ At(p, "open")
    /\ Leave(p)
    /\ UNCHANGED <<fileVars, made, unusable, trustVars, served, failVars>>

Step(p) ==
    \/ Lock(p) \/ ReadState(p) \/ Refuse(p) \/ Generate(p) \/ WriteTemp(p)
    \/ Rename(p) \/ SyncState(p) \/ Verify(p) \/ Link(p) \/ SyncPublic(p) \/ LinkExists(p)

-----------------------------------------------------------------------------
(* trust-init, and what may happen to a process, a file or the machine. *)

\* trust-init reads the published certificate and then writes the bundle; it may
\* be run again.
TrustRead ==
    /\ reading = 0 /\ pub # 0
    /\ reading' = pub
    /\ UNCHANGED <<fileVars, lock, pc, mem, made, unusable, bundle, served, failVars>>

TrustWrite ==
    /\ reading # 0
    /\ bundle' = reading /\ reading' = 0
    /\ UNCHANGED <<fileVars, lock, pc, mem, made, unusable, served, failVars>>

\* The private directories in which a process is writing a temporary file.
Writing(p) == IF pc[p] \in {"temp", "rename"} THEN {Home[p]} ELSE {}

\* A process is killed; its temporary file stays when it was created already.
Kill(p) ==
    /\ ~At(p, "idle")
    /\ kills < MaxKills /\ kills' = kills + 1
    /\ Leave(p)
    /\ debris' \in {debris, debris \union Writing(p)}
    /\ UNCHANGED <<state, synced, foreign, pub, pubSynced, made, unusable, trustVars, served,
                   outages>>

\* A file operation fails: writeAtomic removes its own temporary file and Open
\* returns the error; what was renamed or linked before stays.
IOError(p) ==
    /\ pc[p] \in {"read", "lstat", "temp", "rename", "sync", "link", "pubsync"}
    /\ kills < MaxKills /\ kills' = kills + 1
    /\ Leave(p)
    /\ UNCHANGED <<fileVars, made, unusable, trustVars, served, outages>>

\* A committed CA expires, or its file is damaged from outside.
Spoil(c) ==
    /\ c \notin unusable /\ \E d \in Dirs : state[d] = c
    /\ unusable' = unusable \union {c}
    /\ UNCHANGED <<fileVars, lock, pc, mem, made, trustVars, served, failVars>>

\* The machine stops: a directory entry that was not synced may be lost.
PowerLoss ==
    /\ outages < MaxOutages /\ outages' = outages + 1
    /\ pc' = [p \in Procs |-> "idle"] /\ mem' = [p \in Procs |-> 0]
    /\ lock' = [d \in Dirs |-> NoProc]
    /\ reading' = 0
    /\ \E lost \in SUBSET (Dirs \ synced) :
          state' = [d \in Dirs |-> IF d \in lost THEN 0 ELSE state[d]]
    /\ synced' = Dirs
    /\ \/ UNCHANGED pub
       \/ ~pubSynced /\ pub' = 0
    /\ pubSynced' = TRUE
    /\ debris' \in {debris, debris \union UNION {Writing(p) : p \in Procs}}
    /\ UNCHANGED <<foreign, made, unusable, bundle, served, kills>>

Next ==
    \/ \E p \in Procs : Step(p) \/ Close(p) \/ Kill(p) \/ IOError(p)
    \/ TrustRead \/ TrustWrite
    \/ \E c \in CAs : Spoil(c)
    \/ PowerLoss

Spec == Init /\ [][Next]_vars

\* A daemon that can take a step of Open takes it, and one that failed is
\* started again; it is not obliged to end.
FairSpec == Spec /\ \A p \in Procs : WF_vars(Step(p))

-----------------------------------------------------------------------------
(* Properties. *)

\* The type of every variable.
TypeOK ==
    /\ state \in [Dirs -> Nat] /\ synced \subseteq Dirs
    /\ foreign \subseteq Dirs /\ debris \subseteq Dirs
    /\ pub \in Nat /\ pubSynced \in BOOLEAN
    /\ lock \in [Dirs -> Procs \union {NoProc}]
    /\ pc \in [Procs -> Steps]
    /\ mem \in [Procs -> Nat]
    /\ made \in Nat /\ unusable \subseteq CAs
    /\ reading \in Nat /\ bundle \in Nat
    /\ served \subseteq Nat
    /\ kills \in Nat /\ outages \in Nat

\* An Authority signs with the CA that its private directory holds and that the
\* public directory publishes, and at any time at most one daemon has one, also
\* when daemons of several private directories share the public one.
OneAuthority ==
    \A p \in Procs : pc[p] = "open" =>
        /\ state[Home[p]] = mem[p] /\ pub = mem[p]
        /\ \A q \in Procs : pc[q] = "open" => q = p

\* A committed state file or published certificate is never overwritten by another CA,
\* and no step of a daemon, kill or failed operation takes it away: only a power failure
\* may, and only one whose directory was not synced since it was put there.
NeverReplaced ==
    [][/\ \A d \in Dirs : state[d] # 0 /\ state'[d] # state[d] =>
             state'[d] = 0 /\ d \notin synced /\ outages' = outages + 1
       /\ pub # 0 /\ pub' # pub =>
             pub' = 0 /\ ~pubSynced /\ outages' = outages + 1]_vars

\* Short of a power failure, every Authority that was ever returned holds the
\* same CA, whatever was killed or failed in between.
SingleAuthority == outages = 0 => \A c, d \in served : c = d

\* Short of a power failure, an application whose bundle trust-init has written
\* trusts the CA that signs the certificates of its connections.
BundleTrustsSigner ==
    outages = 0 => \A p \in Procs : pc[p] = "open" /\ bundle # 0 => bundle = mem[p]

\* Short of a power failure, with finitely many kills and I/O errors, some daemon
\* gets its Authority again and again: an interrupted first start does not block the later ones, unless a CA
\* has become unusable or every private directory holds foreign files.
EventuallyServes ==
    []<>(outages # 0 \/ unusable # {} \/ foreign = Dirs \/ \E p \in Procs : pc[p] = "open")
-----------------------------------------------------------------------------
(* The inductive invariants behind the properties above. *)

\* A process works on its private directory only while it owns the lock.
LockHeld ==
    /\ \A p \in Procs : pc[p] # "idle" <=> lock[Home[p]] = p
    /\ \A d \in Dirs : lock[d] # NoProc => Home[lock[d]] = d

\* What a process holds in memory: nothing, a CA nobody else has, or the CA of
\* its private directory, which is also the published one from pubsync on.
MemoryMatches ==
    \A p \in Procs :
        /\ pc[p] \in {"idle", "read", "lstat"} => mem[p] = 0
        /\ pc[p] \in {"lstat", "temp", "rename"} => state[Home[p]] = 0
        /\ pc[p] \in {"temp", "rename"} =>
              mem[p] # 0 /\ mem[p] # pub /\ \A d \in Dirs : state[d] # mem[p]
        /\ pc[p] \in {"sync", "verify", "link", "pubsync", "open"} =>
              mem[p] # 0 /\ mem[p] = state[Home[p]]
        /\ pc[p] \in {"pubsync", "open"} => pub = mem[p]

\* A CA is held by one private directory and in the memory of one process.
CAsDistinct ==
    /\ pub <= made
    /\ \A d \in Dirs : state[d] <= made
    /\ \A p \in Procs : mem[p] <= made
    /\ \A d, e \in Dirs : state[d] = state[e] /\ state[d] # 0 => d = e
    /\ \A p, q \in Procs : mem[p] = mem[q] /\ mem[p] # 0 => p = q

\* What every step preserves, power failures included.
CoreInv == TypeOK /\ LockHeld /\ MemoryMatches /\ CAsDistinct

\* Short of a power failure, whatever was served or read for an application is
\* the published CA.
TrustInv ==
    outages = 0 =>
        /\ served \subseteq {pub} \ {0}
        /\ reading \in {0, pub}
        /\ bundle \in {0, pub}

-----------------------------------------------------------------------------
(* What all this implements. *)

\* An Authority signs once Open has returned it.
Signer == [p \in Procs |-> IF pc[p] = "open" THEN mem[p] ELSE 0]
Anchor == INSTANCE TrustAnchor WITH
    anchor <- pub, durable <- pubSynced, signer <- Signer, trusted <- bundle

\* Every file operation of Open, trust-init and every failure is a step of TrustAnchor or
\* leaves what the application sees alone: publishing never replaces, signing waits for
\* its own certificate to be the published one, and the bundle gets that one even though
\* trust-init reads it before it writes.  A certificate that was synced is never lost.
TrustSpec == Anchor!Spec
=============================================================================
