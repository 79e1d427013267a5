--------------------------- MODULE MCClientSession ---------------------------
(***************************************************************************)
(* An instance of ClientSession.                                           *)
(***************************************************************************)
EXTENDS ClientSession

Ids == {1, 2, 3}
AllOps == {"create", "update", "delete", "clear"}

\* The parts meet only in ui, answered and open, so that their interleavings
\* need not all be explored: sizes and clicks vary until the phone comes; at
\* most one annotation is tried during the negotiation, the others once it is
\* over, without candidates.
Negotiated ==
  answered = "yes" /\ aIce + pIce = 0 /\ toAgent = <<>> /\ toPhone = <<>> /\ sending = 0
Focus ==
  /\ <<cw, ch, sw, sh, norm>> = <<0, 0, 0, 0, NONE>> \/ (~inRoom /\ tries = 0)
  /\ tries <= 1 \/ Negotiated
=============================================================================
