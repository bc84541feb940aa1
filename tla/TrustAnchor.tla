----------------------------- MODULE TrustAnchor -----------------------------
(***************************************************************************)
(* What the inspection CA promises the application, without directories,   *)
(* locks, file operations and errors: one anchor is published, at most one *)
(* daemon signs, with that anchor only, and trust-init puts that anchor    *)
(* into the bundle.  Only a power failure may take the anchor away, and    *)
(* only one that is not durable.                                           *)
(***************************************************************************)
EXTENDS Naturals

CONSTANT Procs

VARIABLES
    anchor,   \* the published CA, 0 for none
    durable,  \* does the anchor survive a power failure?
    signer,   \* the CA each daemon signs with, 0 for none
    trusted   \* the CA the application trusts, 0 for none

anchorVars == <<anchor, durable, signer, trusted>>

NoSigner == [p \in Procs |-> 0]

Init == anchor = 0 /\ durable = FALSE /\ signer = NoSigner /\ trusted = 0

\* The first of several daemons publishes; what is published is not replaced.
Publish ==
    /\ anchor = 0
    /\ anchor' # 0 /\ durable' = FALSE
    /\ UNCHANGED <<signer, trusted>>

\* A daemon gets its Authority; the one that published has made the anchor durable.
Sign(p) ==
    /\ anchor # 0 /\ signer = NoSigner
    /\ signer' = [signer EXCEPT ![p] = anchor]
    /\ durable' \in {durable, TRUE}
    /\ UNCHANGED <<anchor, trusted>>

Stop(p) ==
    /\ signer' = [signer EXCEPT ![p] = 0]
    /\ UNCHANGED <<anchor, durable, trusted>>

Trust ==
    /\ anchor # 0
    /\ trusted' = anchor
    /\ UNCHANGED <<anchor, durable, signer>>

PowerFails ==
    /\ signer' = NoSigner
    /\ anchor' = anchor \/ (~durable /\ anchor' = 0)
    /\ durable' = TRUE
    /\ UNCHANGED trusted

Next ==
    \/ Publish
    \/ \E p \in Procs : Sign(p) \/ Stop(p)
    \/ Trust \/ PowerFails

Spec == Init /\ [][Next]_anchorVars
=============================================================================
