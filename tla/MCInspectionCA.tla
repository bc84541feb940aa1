--------------------------- MODULE MCInspectionCA ---------------------------
(***************************************************************************)
(* TLC instances of InspectionCA.                                          *)
(***************************************************************************)
EXTENDS InspectionCA, TLC

CONSTANTS p1, p2, p3, d1, d2

\* Two daemons on one private directory and a third on another one.
SharedHome == p1 :> d1 @@ p2 :> d1 @@ p3 :> d2
=============================================================================
