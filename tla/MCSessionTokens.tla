--------------------------- MODULE MCSessionTokens ---------------------------
(***************************************************************************)
(* Instances of SessionTokens, with its history variables.                 *)
(***************************************************************************)
EXTENDS SessionTokensHistory, TLC

CONSTANTS m1, m2, k1, k2, k3, c1, right, wrong

OneMinter == {m1}
TwoMinters == {m1, m2}
TwoRedeemers == {k1, k2}
ThreeRedeemers == {k1, k2, k3}
OneID == {c1}
Pins == {right, wrong}

\* One mint with two redeems, until after the sweep's cutoff; or two mints that
\* collide, or one whose SetNX is sent again, with one redeem, until the second
\* could take an id the first let go.
Light ==
  LET mints == Cardinality({m \in Minter : mpc[m] # "insert" \/ try[m] > 1})
      redeems == Cardinality({k \in Redeemer : rpc[k] # "idle"})
  IN  \/ mints <= 1 /\ resent = {}
      \/ redeems <= 1 /\ now <= TTL + 1 /\ (mints <= 1 \/ resent = {})

\* Requests and PINs are interchangeable.
Symmetry == Permutations(Minter) \cup Permutations(Redeemer) \cup Permutations(Pin)
=============================================================================
