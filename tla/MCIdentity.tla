----------------------------- MODULE MCIdentity -----------------------------
(***************************************************************************)
(* Instances of Identity.                                                  *)
(***************************************************************************)
EXTENDS Identity, TLC

CONSTANTS r1, r2, u1, u2, n1, n2

TwoReq == {r1, r2}
TwoUsers == {u1, u2}
TwoNames == {n1, n2}
Roles == {"admin", "agent"}

Symmetry == Permutations(Req) \cup Permutations(User) \cup Permutations(Name)
=============================================================================
