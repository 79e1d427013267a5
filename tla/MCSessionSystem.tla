--------------------------- MODULE MCSessionSystem ---------------------------
(***************************************************************************)
(* Instances of SessionSystem: both sides may connect twice.               *)
(***************************************************************************)
EXTENDS SessionSystem, TLC

CONSTANTS a1, a2, p1, p2

Conns == {a1, a2, p1, p2}
Roles == (a1 :> "agent") @@ (a2 :> "agent") @@ (p1 :> "phone") @@ (p2 :> "phone")
=============================================================================
