--------------------------- MODULE MCServerStore ---------------------------
(***************************************************************************)
(* Instance of ServerStore: three replicas; two organizations with a       *)
(* session each.                                                           *)
(***************************************************************************)
EXTENDS ServerStore, TLC

CONSTANTS s1, s2, s3, q1, q2, o1, o2, x1, x2, x3

ThreeReplicas == {s1, s2, s3}
LastIsIdempotent == {N}
TwoReq == {q1, q2}
TwoOrgs == {o1, o2}
Sessions == {"s1", "s2"}
SessionOrg == ("s1" :> o1) @@ ("s2" :> o2)
Recs == {x1, x2, x3}
Sizes == {-1, 0, 1, 2, 3}

\* To keep the state space small: requests come when every replica serves, after
\* a start without faults, and ids, which are interchangeable, are drawn in order.
Focus ==
  /\ drawn # {} \/ now > 0 => faults = 0 /\ \A r \in Replica : pc[r] = "ready"
  /\ drawn \in {{}, {x1}, {x1, x2}, {x1, x2, x3}}
=============================================================================
