------------------------ MODULE SessionSystemProofs ------------------------
(***************************************************************************)
(* Proofs about SessionSystem, for any connections and any lives of the    *)
(* tokens for which a redeem in flight is faster than the sweep.           *)
(***************************************************************************)
EXTENDS SessionSystem, FiniteSetTheorems, TLAPS

Typed ==
  /\ age \in Nat /\ redeemAt \in Nat
  /\ status \in {"pending", "active", "ended", "expired"}
  /\ redeem \in {"no", "consumed", "done"}
  /\ sigExp \in [Role -> Nat]
  /\ present \subseteq Conn

\* A redeem that consumed the token is not overtaken by the sweep.
RedeemInTime ==
  redeem = "consumed" => redeemAt < TokenTTL /\ age <= redeemAt + Latency
ExpiredIsOld == status = "expired" => age > Cutoff

\* The phone's join token is issued only with the activation, and only an
\* activated session admits a phone.
TokenAfterActivation == sigExp["phone"] > 0 => status \in {"active", "ended"}

IInv ==
  Typed /\ RedeemInTime /\ ExpiredIsOld /\ TokenAfterActivation /\ PhoneOnlyAfterActivation

LEMMA InvInit == Init => IInv
BY TimeAssumption DEF Init, P!Init, IInv, Typed, RedeemInTime, ExpiredIsOld, TokenAfterActivation,
                      PhoneOnlyAfterActivation, Role

\* A session never becomes pending or expired again once it was activated.
LEMMA Forward ==
  ASSUME Typed, [Next]_vars, status \in {"active", "ended"}
  PROVE  status' \in {"active", "ended"}
<1>1. CASE RedeemConsume \/ RedeemActivate \/ RedeemFails \/ Sweep \/ Stop \/ Start \/ Tick
  BY <1>1 DEF RedeemConsume, RedeemActivate, RedeemFails, Sweep, Stop, Start, Tick
<1>2. ASSUME NEW c \in Conn, Connect(c) \/ Leave(c) \/ RoomEnded(c) PROVE status' \in {"active", "ended"}
  BY <1>2 DEF Connect, Leave, RoomEnded, MarkEnded
<1> QED
  BY <1>1, <1>2 DEF Next, vars

\* The activation finds the row pending or further on, never expired: the
\* token's life and the latency of the redeem together stay below the cutoff.
LEMMA ActivationSucceeds ==
  ASSUME IInv, redeem = "consumed"
  PROVE  status # "expired"
<1>1. redeemAt < TokenTTL /\ age <= redeemAt + Latency /\ (status = "expired" => age > Cutoff)
  BY DEF IInv, RedeemInTime, ExpiredIsOld
<1>2. age < Cutoff
  BY <1>1, TimeAssumption DEF IInv, Typed
<1> QED
  BY <1>1, <1>2, TimeAssumption DEF IInv, Typed

LEMMA InvStep == IInv /\ [Next]_vars => IInv'
<1> SUFFICES ASSUME IInv, [Next]_vars PROVE IInv'
  OBVIOUS
<1>1. Typed /\ RedeemInTime /\ ExpiredIsOld /\ TokenAfterActivation /\ PhoneOnlyAfterActivation
  BY DEF IInv
<1>2. status \in {"active", "ended"} => status' \in {"active", "ended"}
  BY <1>1, Forward
<1>3. redeem = "consumed" => status # "expired"
  BY ActivationSucceeds
<1> USE DEF IInv, Typed, RedeemInTime, ExpiredIsOld, TokenAfterActivation, PhoneOnlyAfterActivation
<1>4. CASE RedeemConsume
  BY <1>1, <1>4, TimeAssumption DEF RedeemConsume, roomVars
<1>5. CASE RedeemActivate
  <2>1. status' \in {"active", "ended"} /\ UNCHANGED <<age, redeemAt, present>> /\ redeem' = "done"
    <3>1. /\ redeem = "consumed" /\ redeem' = "done"
          /\ status' = IF status = "pending" THEN "active" ELSE status
      BY <1>5 DEF RedeemActivate
    <3>2. UNCHANGED <<age, redeemAt, present>>
      BY <1>5 DEF RedeemActivate, roomVars
    <3>3. status' \in {"active", "ended"}
      BY <1>1, <1>3, <3>1
    <3> QED
      BY <3>1, <3>2, <3>3
  <2>2. sigExp' \in [Role -> Nat]
    <3>1. sigExp' = [sigExp EXCEPT !["phone"] = age + SigTTL]
      BY <1>5 DEF RedeemActivate
    <3>2. age + SigTTL \in Nat /\ sigExp \in [Role -> Nat]
      BY <1>1, TimeAssumption
    <3> QED
      BY <3>1, <3>2
  <2> QED
    BY <1>1, <2>1, <2>2
<1>6. CASE RedeemFails
  <2>1. /\ status' \in {status, "active"} /\ redeem' = "done"
        /\ UNCHANGED <<age, redeemAt, sigExp, present>>
    BY <1>1, <1>6 DEF RedeemFails, roomVars
  <2> QED
    BY <1>1, <1>2, <2>1
<1>7. CASE Sweep
  BY <1>1, <1>7 DEF Sweep, Stale, roomVars
<1>8. CASE Stop
  BY <1>1, <1>8 DEF Stop
<1>9. CASE Start
  BY <1>1, <1>9 DEF Start, roomVars
<1>10. CASE Tick
  <2>1. /\ age' = age + 1 /\ UNCHANGED <<status, redeem, redeemAt, sigExp, present>>
        /\ redeem = "consumed" => age < redeemAt + Latency
    BY <1>10 DEF Tick, roomVars
  <2> QED
    BY <1>1, <2>1, TimeAssumption
<1>11. ASSUME NEW c \in Conn, Connect(c) PROVE IInv'
  <2>1. /\ age < sigExp[RoleOf[c]] /\ present' = present \cup {c}
        /\ UNCHANGED <<age, status, redeem, redeemAt, sigExp>>
    BY <1>11 DEF Connect, signalingAuth, TokenLive, P!Join
  <2>2. RoleOf[c] = "phone" => status \in {"active", "ended"}
    BY <1>1, <2>1 DEF Role
  <2> QED
    BY <1>1, <2>1, <2>2
<1>12. ASSUME NEW c \in Conn, Leave(c) PROVE IInv'
  BY <1>1, <1>12 DEF Leave, P!Leave
<1>13. ASSUME NEW c \in Conn, RoomEnded(c) PROVE IInv'
  <2>1. /\ status' \in {status, "ended"} /\ (status' # status => status = "active")
        /\ UNCHANGED <<age, redeem, redeemAt, sigExp, present>>
    BY <1>13 DEF RoomEnded, MarkEnded, roomVars
  <2> QED
    BY <1>1, <1>2, <2>1
<1>14. CASE UNCHANGED vars
  BY <1>1, <1>14 DEF vars, roomVars
<1> QED
  BY <1>4, <1>5, <1>6, <1>7, <1>8, <1>9, <1>10, <1>11, <1>12, <1>13, <1>14 DEF Next

LEMMA Invariance == Spec => []IInv
BY InvInit, InvStep, PTL DEF Spec

-----------------------------------------------------------------------------
\* A phone is in the room only after the redeem activated the session, and the
\* sweep never expires a session under it.
THEOREM PhonesComeAfterActivation == Spec => []PhoneOnlyAfterActivation
<1>1. IInv => PhoneOnlyAfterActivation
  BY DEF IInv
<1> QED
  BY <1>1, Invariance, PTL

-----------------------------------------------------------------------------
(* The end of a visit.  EmptiedRoomEnds needs that the callback which ends  *)
(* the session is there to be run.                                          *)

RoomInv == pc \in [Conn -> {"out", "in", "callback", "gone"}] /\ present = {c \in Conn : pc[c] = "in"}

VisitedInv == visited => status \in {"active", "ended"}

\* An active session whose room was used and is empty has a callback to come,
\* unless the end of the last visit was lost.
EndOwed ==
  status = "active" /\ visited /\ present = {} => endLost \/ \E c \in Conn : pc[c] = "callback"

OwedInv == RoomInv /\ VisitedInv /\ EndOwed

LEMMA OwedInit == Init => OwedInv
BY DEF Init, P!Init, OwedInv, RoomInv, VisitedInv, EndOwed

LEMMA RoomStep == ASSUME RoomInv, [Next]_vars PROVE RoomInv'
<1>1. CASE RedeemConsume \/ RedeemActivate \/ RedeemFails \/ Sweep \/ Start \/ Tick \/ UNCHANGED vars
  <2>1. UNCHANGED <<pc, present>>
    BY <1>1 DEF RedeemConsume, RedeemActivate, RedeemFails, Sweep, Start, Tick, vars, roomVars
  <2> QED
    BY <2>1 DEF RoomInv
<1>2. CASE Stop
  <2>1. /\ pc' = [c \in Conn |-> IF pc[c] = "out" THEN "out" ELSE "gone"]
        /\ present' = {}
    BY <1>2 DEF Stop
  <2> QED
    BY <2>1 DEF RoomInv
<1>3. ASSUME NEW c \in Conn, Connect(c) PROVE RoomInv'
  BY <1>3 DEF Connect, P!Join, Goto, RoomInv
<1>4. ASSUME NEW c \in Conn, Leave(c) PROVE RoomInv'
  <2>1. PICK l \in {"callback", "gone"} : pc' = [pc EXCEPT ![c] = l] /\ present' = present \ {c}
    BY <1>4 DEF Leave, P!Leave, Goto
  <2> QED
    BY <2>1 DEF RoomInv
<1>5. ASSUME NEW c \in Conn, RoomEnded(c) PROVE RoomInv'
  <2>1. pc[c] = "callback" /\ pc' = [pc EXCEPT ![c] = "gone"] /\ present' = present
    BY <1>5 DEF RoomEnded, Goto, roomVars
  <2> QED
    BY <2>1 DEF RoomInv
<1> QED
  BY <1>1, <1>2, <1>3, <1>4, <1>5 DEF Next

LEMMA VisitedStep == ASSUME IInv, VisitedInv, [Next]_vars PROVE VisitedInv'
<1>1. status \in {"active", "ended"} => status' \in {"active", "ended"}
  BY Forward DEF IInv
<1>2. CASE visited' => visited
  BY <1>1, <1>2 DEF VisitedInv
<1>3. CASE RedeemActivate
  <2>1. redeem = "consumed" /\ status' = IF status = "pending" THEN "active" ELSE status
    BY <1>3 DEF RedeemActivate
  <2>2. status \in {"pending", "active", "ended"}
    BY <2>1, ActivationSucceeds DEF IInv, Typed
  <2> QED
    BY <2>1, <2>2 DEF VisitedInv
<1>4. CASE RedeemFails
  <2>1. visited' => visited \/ status' = "active"
    BY <1>4 DEF RedeemFails
  <2> QED
    BY <1>1, <2>1 DEF VisitedInv
<1>5. ASSUME NEW c \in Conn, Connect(c) PROVE VisitedInv'
  <2>1. (visited' => visited \/ status = "active") /\ status' = status
    BY <1>5 DEF Connect
  <2> QED
    BY <2>1 DEF VisitedInv
<1>6. CASE RedeemConsume \/ Sweep \/ Stop \/ Start \/ Tick \/ UNCHANGED vars
  <2>1. visited' => visited
    BY <1>6 DEF RedeemConsume, Sweep, Stop, Start, Tick, vars, ghosts
  <2> QED
    BY <1>2, <2>1
<1>7. ASSUME NEW c \in Conn, Leave(c) \/ RoomEnded(c) PROVE VisitedInv'
  <2>1. visited' => visited
    BY <1>7 DEF Leave, RoomEnded, ghosts
  <2> QED
    BY <1>2, <2>1
<1> QED
  BY <1>3, <1>4, <1>5, <1>6, <1>7 DEF Next

\* What the steps do to the end that is owed.
LEMMA OwedStep == ASSUME IInv, OwedInv, [Next]_vars PROVE EndOwed'
<1>1. RoomInv /\ VisitedInv /\ EndOwed
  BY DEF OwedInv
<1> SUFFICES ASSUME status' = "active", visited', present' = {}, ~endLost'
             PROVE  \E c \in Conn : pc'[c] = "callback"
  BY DEF EndOwed
<1>2. CASE UNCHANGED <<pc, present, endLost>> /\ status = "active" /\ visited
  BY <1>1, <1>2 DEF EndOwed
<1>3. CASE RedeemConsume \/ Start \/ Tick \/ UNCHANGED vars
  <2>1. UNCHANGED <<pc, present, endLost, status, visited>>
    BY <1>3 DEF RedeemConsume, Start, Tick, vars, roomVars, ghosts
  <2> QED
    BY <1>2, <2>1
<1>4. CASE RedeemActivate \/ RedeemFails
  <2>1. UNCHANGED <<pc, present, endLost>> /\ (visited' => visited \/ present # {})
    BY <1>4 DEF RedeemActivate, RedeemFails, roomVars
  <2>2. visited /\ status = "active"
    <3>1. visited
      BY <2>1
    <3>2. status \in {"active", "ended"}
      BY <1>1, <3>1 DEF VisitedInv
    <3>3. status = "ended" => status' = "ended"
      BY <1>4 DEF RedeemActivate, RedeemFails
    <3> QED
      BY <3>1, <3>2, <3>3
  <2> QED
    BY <1>2, <2>1, <2>2
<1>5. CASE Sweep
  BY <1>5 DEF Sweep
<1>6. CASE Stop
  <2>1. /\ UNCHANGED <<status, visited>> /\ ~endLost
        /\ \A c \in Conn : pc[c] \notin {"in", "callback"}
    BY <1>6 DEF Stop
  <2>2. present = {}
    BY <1>1, <2>1 DEF RoomInv
  <2> QED
    BY <1>1, <2>1, <2>2 DEF EndOwed
<1>7. ASSUME NEW c \in Conn, Connect(c) PROVE \E d \in Conn : pc'[d] = "callback"
  BY <1>7 DEF Connect, P!Join
<1>8. ASSUME NEW c \in Conn, Leave(c) PROVE \E d \in Conn : pc'[d] = "callback"
  <2>1. present \ {c} = {}
    BY <1>8 DEF Leave, P!Leave
  <2>2. P!LastIn(c)
    BY <2>1 DEF P!LastIn
  <2>3. pc' = [pc EXCEPT ![c] = "callback"]
    BY <1>8, <2>2 DEF Leave, Goto
  <2> QED
    BY <1>1, <2>3 DEF RoomInv
<1>9. ASSUME NEW c \in Conn, RoomEnded(c) PROVE \E d \in Conn : pc'[d] = "callback"
  <2>1. present' = present
    BY <1>9 DEF RoomEnded, roomVars
  <2>2. status' # "active" \/ endLost' = (present = {})
    BY <1>9 DEF RoomEnded, MarkEnded
  <2> QED
    BY <2>1, <2>2
<1> QED
  BY <1>3, <1>4, <1>5, <1>6, <1>7, <1>8, <1>9 DEF Next

\* Whenever the room of an active session has been used and is empty, a
\* callback that ends the session is still to be run, unless the server stopped
\* before it or its UPDATE failed: no interleaving of leaving, coming back,
\* redeeming and sweeping loses the end of a session.
THEOREM EndOfVisitIsOwed == Spec => []EndOwed
<1>1. OwedInv /\ IInv /\ [Next]_vars => OwedInv'
  <2> SUFFICES ASSUME OwedInv, IInv, [Next]_vars PROVE OwedInv'
    OBVIOUS
  <2>1. RoomInv' /\ VisitedInv' /\ EndOwed'
    BY RoomStep, VisitedStep, OwedStep DEF OwedInv
  <2> QED
    BY <2>1 DEF OwedInv
<1>2. OwedInv => EndOwed
  BY DEF OwedInv
<1> QED
  BY <1>1, <1>2, OwedInit, Invariance, PTL DEF Spec

-----------------------------------------------------------------------------
(* Types.  The one bound that is not local is that of the end signals: each *)
(* one stands for a connection that has left for good.                      *)

Left == {c \in Conn : pc[c] \in {"callback", "gone"}}

Scalars ==
  /\ age \in 0..MaxAge /\ redeemAt \in 0..MaxAge
  /\ sigExp \in [Role -> 0..(MaxAge + SigTTL)]
  /\ stops \in 0..MaxStops

Flags == up \in BOOLEAN /\ visited \in BOOLEAN /\ endLost \in BOOLEAN

EndsCounted ==
  /\ emptied \in [{TheRoom} -> Nat]
  /\ emptied[TheRoom] <= Cardinality(Left)

SysInv == IInv /\ RoomInv /\ Scalars /\ Flags /\ EndsCounted

LEMMA SysInit == Init => SysInv
<1> SUFFICES ASSUME Init PROVE SysInv
  OBVIOUS
<1>1. IInv /\ RoomInv
  BY InvInit, OwedInit DEF OwedInv
<1>2. Scalars
  BY TimeAssumption DEF Init, Scalars, Role
<1>3. Flags
  BY DEF Init, Flags
<1>4. EndsCounted
  <2>1. Left = {}
    BY DEF Init, Left
  <2>2. emptied = [r \in {TheRoom} |-> 0]
    BY DEF Init, P!Init
  <2> QED
    BY <2>1, <2>2, FS_EmptySet DEF EndsCounted
<1> QED
  BY <1>1, <1>2, <1>3, <1>4 DEF SysInv

LEMMA ScalarsStep == ASSUME Scalars, [Next]_vars PROVE Scalars'
<1> USE TimeAssumption DEF Scalars
<1>1. CASE RedeemConsume
  BY <1>1 DEF RedeemConsume
<1>2. CASE RedeemActivate
  <2>1. age + SigTTL \in 0..(MaxAge + SigTTL)
    OBVIOUS
  <2> QED
    BY <1>2, <2>1 DEF RedeemActivate
<1>3. CASE RedeemFails \/ Sweep \/ Start \/ UNCHANGED vars
  BY <1>3 DEF RedeemFails, Sweep, Start, vars
<1>4. CASE Stop
  BY <1>4 DEF Stop
<1>5. CASE Tick
  BY <1>5 DEF Tick
<1>6. ASSUME NEW c \in Conn, Connect(c) \/ Leave(c) \/ RoomEnded(c) PROVE Scalars'
  BY <1>6 DEF Connect, Leave, RoomEnded
<1> QED
  BY <1>1, <1>2, <1>3, <1>4, <1>5, <1>6 DEF Next

LEMMA FlagsStep == ASSUME Flags, [Next]_vars PROVE Flags'
<1> USE DEF Flags
<1>1. CASE RedeemConsume \/ Sweep \/ Start \/ Tick \/ UNCHANGED vars
  BY <1>1, Zenon DEF RedeemConsume, Sweep, Start, Tick, vars, ghosts
<1>2. CASE RedeemActivate
  BY <1>2, Zenon DEF RedeemActivate
<1>3. CASE RedeemFails
  BY <1>3, Zenon DEF RedeemFails
<1>4. CASE Stop
  BY <1>4, Zenon DEF Stop
<1>5. ASSUME NEW c \in Conn, Connect(c) PROVE Flags'
  BY <1>5, Zenon DEF Connect
<1>6. ASSUME NEW c \in Conn, Leave(c) PROVE Flags'
  BY <1>6, Zenon DEF Leave, ghosts
<1>7. ASSUME NEW c \in Conn, RoomEnded(c) PROVE Flags'
  BY <1>7, Zenon DEF RoomEnded
<1> QED
  BY <1>1, <1>2, <1>3, <1>4, <1>5, <1>6, <1>7 DEF Next

\* Nobody comes back from "callback" or "gone", and a Leave that adds an end
\* signal adds a connection that left.
LEMMA EndsStep == ASSUME RoomInv, EndsCounted, [Next]_vars PROVE EndsCounted'
<1>1. IsFiniteSet(Conn)
  BY RoleAssumption
<1>2. IsFiniteSet(Left) /\ Cardinality(Left) \in Nat
  BY <1>1, FS_Subset, FS_CardinalityType DEF Left
<1>3. CASE UNCHANGED <<pc, emptied>>
  BY <1>3 DEF EndsCounted, Left
<1>4. CASE RedeemConsume \/ RedeemActivate \/ RedeemFails \/ Sweep \/ Start \/ Tick \/ UNCHANGED vars
  <2>1. UNCHANGED <<pc, emptied>>
    BY <1>4 DEF RedeemConsume, RedeemActivate, RedeemFails, Sweep, Start, Tick, vars, roomVars
  <2> QED
    BY <1>3, <2>1
<1>5. CASE Stop
  <2>1. emptied' = [r \in {TheRoom} |-> 0]
    BY <1>5 DEF Stop
  <2>2. Left' \subseteq Conn
    BY DEF Left
  <2>3. Cardinality(Left') \in Nat
    BY <1>1, <2>2, FS_Subset, FS_CardinalityType
  <2> QED
    BY <2>1, <2>3 DEF EndsCounted
<1>6. ASSUME NEW c \in Conn, Connect(c) PROVE EndsCounted'
  <2>1. pc[c] = "out" /\ pc' = [pc EXCEPT ![c] = "in"] /\ emptied' = emptied
    BY <1>6 DEF Connect, Goto, P!Join
  <2>2. Left' = Left
    BY <2>1 DEF Left, RoomInv
  <2> QED
    BY <2>1, <2>2 DEF EndsCounted
<1>7. ASSUME NEW c \in Conn, Leave(c) PROVE EndsCounted'
  <2>1. PICK l \in {"callback", "gone"} : pc' = [pc EXCEPT ![c] = l]
    BY <1>7 DEF Leave, Goto
  <2>2. pc[c] = "in"
    BY <1>7 DEF Leave
  <2>3. Left' = Left \cup {c} /\ c \notin Left
    BY <2>1, <2>2 DEF Left, RoomInv
  <2>4. Cardinality(Left') = Cardinality(Left) + 1
    BY <1>2, <2>3, FS_AddElement
  <2>5. PICK d \in {0, 1} : emptied' = [emptied EXCEPT ![TheRoom] = emptied[TheRoom] + d]
    <3>1. RoomOf[c] = TheRoom
      BY DEF RoomOf
    <3>2. emptied' = [emptied EXCEPT ![TheRoom] = IF P!LastIn(c) THEN emptied[TheRoom] + 1 ELSE emptied[TheRoom]]
      BY <1>7, <3>1 DEF Leave, P!Leave, EndsCounted
    <3>3. emptied[TheRoom] \in Nat
      BY DEF EndsCounted
    <3>4. CASE P!LastIn(c)
      BY <3>2, <3>4
    <3>5. CASE ~P!LastIn(c)
      <4>1. emptied[TheRoom] + 0 = emptied[TheRoom]
        BY <3>3
      <4> QED
        BY <3>2, <3>5, <4>1
    <3> QED
      BY <3>4, <3>5
  <2>6. emptied' \in [{TheRoom} -> Nat] /\ emptied'[TheRoom] = emptied[TheRoom] + d
    BY <2>5 DEF EndsCounted
  <2>7. emptied[TheRoom] \in Nat /\ emptied[TheRoom] <= Cardinality(Left)
    BY DEF EndsCounted
  <2> QED
    BY <1>2, <2>4, <2>6, <2>7 DEF EndsCounted
<1>8. ASSUME NEW c \in Conn, RoomEnded(c) PROVE EndsCounted'
  <2>1. pc[c] = "callback" /\ pc' = [pc EXCEPT ![c] = "gone"] /\ emptied' = emptied
    BY <1>8 DEF RoomEnded, Goto, roomVars
  <2>2. Left' = Left
    BY <2>1 DEF Left, RoomInv
  <2> QED
    BY <2>1, <2>2 DEF EndsCounted
<1> QED
  BY <1>4, <1>5, <1>6, <1>7, <1>8 DEF Next

\* The variables keep their types, across stops: in particular who is in the
\* room is who the handlers say, and there are never more end signals than
\* connections.
THEOREM SystemTypeCorrect == Spec => []TypeOK
<1>1. SysInv /\ [Next]_vars => SysInv'
  BY InvStep, RoomStep, ScalarsStep, FlagsStep, EndsStep DEF SysInv
<1>2. ASSUME SysInv PROVE TypeOK
  <2>1. /\ status \in {"pending", "active", "ended", "expired"}
        /\ redeem \in {"no", "consumed", "done"}
    BY <1>2 DEF SysInv, IInv, Typed
  <2>2. age \in 0..MaxAge /\ redeemAt \in 0..MaxAge /\ stops \in 0..MaxStops
        /\ sigExp \in [Role -> 0..(MaxAge + SigTTL)]
    BY <1>2 DEF SysInv, Scalars
  <2>3. {up, visited, endLost} \subseteq BOOLEAN
    BY <1>2, Zenon DEF SysInv, Flags
  <2>4. pc \in [Conn -> {"out", "in", "callback", "gone"}] /\ present = {c \in Conn : pc[c] = "in"}
    BY <1>2 DEF SysInv, RoomInv
  <2>5. emptied[TheRoom] \in 0..Cardinality(Conn)
    <3>1. emptied[TheRoom] \in Nat /\ emptied[TheRoom] <= Cardinality(Left)
      BY <1>2 DEF SysInv, EndsCounted
    <3>2. IsFiniteSet(Conn) /\ Left \subseteq Conn
      BY RoleAssumption DEF Left
    <3>3. Cardinality(Left) <= Cardinality(Conn) /\ {Cardinality(Left), Cardinality(Conn)} \subseteq Nat
      BY <3>2, FS_Subset, FS_CardinalityType
    <3> QED
      BY <3>1, <3>3
  <2> QED
    BY <2>1, <2>2, <2>3, <2>4, <2>5, Zenon DEF TypeOK
<1> QED
  BY <1>1, <1>2, SysInit, PTL DEF Spec
=============================================================================
