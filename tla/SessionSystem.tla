---------------------------- MODULE SessionSystem ----------------------------
(***************************************************************************)
(* One support session from the moment it is minted, as the parts wired    *)
(* together in cmd/server see it: its row, the signaling join tokens of    *)
(* its two roles, its room, the room-ended callback, the sweep, and a      *)
(* server that stops and starts again.                                     *)
(*                                                                         *)
(* The room is the abstract one of RoomPresence, which the hub implements; *)
(* Mint and the redeem's checks are the subject of SessionTokens.          *)
(***************************************************************************)
EXTENDS Integers, FiniteSets

CONSTANTS
  Conn,       \* signaling connections clients make
  RoleOf,     \* the role a connection asks for
  TokenTTL,   \* SESSION_TOKEN_TTL
  SigTTL,     \* SIGNALING_TOKEN_TTL
  Cutoff,     \* age at which the sweep expires a pending session
  Latency,    \* assumed: a redeem takes at most this long
  MaxStops,   \* bound: how often the server stops
  MaxAge      \* bound: older is the same as this old

Role == {"agent", "phone"}

ASSUME RoleAssumption == RoleOf \in [Conn -> Role] /\ IsFiniteSet(Conn)
ASSUME TimeAssumption ==
  /\ {TokenTTL, SigTTL} \subseteq Nat \ {0} /\ {Latency, Cutoff, MaxStops} \subseteq Nat
  /\ TokenTTL + Latency < Cutoff
  /\ MaxAge \in Nat /\ MaxAge > Cutoff /\ MaxAge >= TokenTTL + Latency + SigTTL

VARIABLES
  age,      \* time since Mint
  status,   \* sessions.status
  redeem,   \* the redeem: "no", "consumed" (token gone, row not yet), "done"
  redeemAt, \* when it consumed the token
  sigExp,   \* sigExp[role]: when that role's join token expires, 0 without one
  up,       \* the server runs
  stops,    \* how often it stopped
  pc,       \* where a connection's handler stands
  present, emptied, \* the room
  visited,  \* ghost: somebody was in the room while the session was active
  endLost   \* ghost: the end of the room's last visit was lost

roomVars == <<present, emptied>>
ghosts == <<visited, endLost>>
vars == <<age, status, redeem, redeemAt, sigExp, up, stops, pc, roomVars, ghosts>>

TheRoom == "room"
RoomOf == [c \in Conn |-> TheRoom]
P == INSTANCE RoomPresence WITH Peer <- Conn, Room <- {TheRoom}

\* Just minted: the row is pending and the agent holds its join token.
Init ==
  /\ age = 0 /\ status = "pending" /\ redeem = "no" /\ redeemAt = 0
  /\ sigExp = [r \in Role |-> IF r = "agent" THEN SigTTL ELSE 0]
  /\ up = TRUE /\ stops = 0
  /\ pc = [c \in Conn |-> "out"]
  /\ P!Init
  /\ visited = FALSE /\ endLost = FALSE

Goto(c, l) == pc' = [pc EXCEPT ![c] = l]

-----------------------------------------------------------------------------
(* Redeem: the token is consumed, then the row is activated and the phone   *)
(* gets its join token.                                                     *)

RedeemConsume ==
  /\ up /\ redeem = "no" /\ age < TokenTTL
  /\ redeem' = "consumed" /\ redeemAt' = age
  /\ UNCHANGED <<age, status, sigExp, up, stops, pc, roomVars, ghosts>>

RedeemActivate ==
  /\ up /\ redeem = "consumed"
  /\ status' = IF status = "pending" THEN "active" ELSE status
  /\ sigExp' = [sigExp EXCEPT !["phone"] = age + SigTTL]
  /\ redeem' = "done"
  /\ visited' = (visited \/ present # {})
  /\ UNCHANGED <<age, redeemAt, up, stops, pc, roomVars, endLost>>

\* The UPDATE fails, with or without its effect, or the join token is not
\* issued: the phone gets nothing, and the token is gone.
RedeemFails ==
  /\ up /\ redeem = "consumed"
  /\ status' \in {status, IF status = "pending" THEN "active" ELSE status}
  /\ redeem' = "done"
  /\ visited' = (visited \/ (status' = "active" /\ present # {}))
  /\ UNCHANGED <<age, redeemAt, sigExp, up, stops, pc, roomVars, endLost>>

-----------------------------------------------------------------------------
(* Connections. *)

\* ParseSignaling refuses an expired token; room and role must match.
TokenLive(exp) == age < exp

signalingAuthAnyRole(c) == \E r \in Role : TokenLive(sigExp[r])
signalingAuth(c) == TokenLive(sigExp[RoleOf[c]])

Connect(c) ==
  /\ up /\ pc[c] = "out" /\ signalingAuth(c)
  /\ P!Join(c)
  /\ Goto(c, "in")
  /\ visited' = (visited \/ status = "active")
  /\ endLost' = FALSE
  /\ UNCHANGED <<age, status, redeem, redeemAt, sigExp, up, stops>>

\* The last one to leave owes the callback.
Leave(c) ==
  /\ pc[c] = "in"
  /\ P!Leave(c)
  /\ Goto(c, IF P!LastIn(c) THEN "callback" ELSE "gone")
  /\ UNCHANGED <<age, status, redeem, redeemAt, sigExp, up, stops, ghosts>>

\* MarkEnded's WHERE status = 'active'; a failure is only logged.
MarkEndedPending == status' = IF status = "pending" THEN "ended" ELSE status
MarkEnded == status' = IF status = "active" THEN "ended" ELSE status

RoomEnded(c) ==
  /\ pc[c] = "callback"
  /\ \/ MarkEnded /\ UNCHANGED endLost
     \/ endLost' = (present = {}) /\ UNCHANGED status
  /\ Goto(c, "gone")
  /\ UNCHANGED <<age, redeem, redeemAt, sigExp, up, stops, roomVars, visited>>

-----------------------------------------------------------------------------
(* The sweep, the server and time. *)

StaleOfThisProcess == stops = 0 /\ age > Cutoff
Stale == age > Cutoff

Sweep ==
  /\ up /\ status = "pending" /\ Stale
  /\ status' = "expired"
  /\ UNCHANGED <<age, redeem, redeemAt, sigExp, up, stops, pc, roomVars, ghosts>>

\* Shutdown does not wait for hijacked connections, and a crash waits for
\* nothing: rooms, handlers, callbacks and requests in flight are gone.
Stop ==
  /\ up /\ stops < MaxStops
  /\ up' = FALSE /\ stops' = stops + 1
  /\ pc' = [c \in Conn |-> IF pc[c] = "out" THEN "out" ELSE "gone"]
  /\ redeem' = IF redeem = "consumed" THEN "done" ELSE redeem
  /\ present' = {} /\ emptied' = [r \in {TheRoom} |-> 0]
  /\ endLost' = (endLost \/ \E c \in Conn : pc[c] \in {"in", "callback"})
  /\ UNCHANGED <<age, status, redeemAt, sigExp, visited>>

Start ==
  /\ ~up
  /\ up' = TRUE
  /\ UNCHANGED <<age, status, redeem, redeemAt, sigExp, stops, pc, roomVars, ghosts>>

Tick ==
  /\ age < MaxAge
  /\ redeem = "consumed" => age < redeemAt + Latency
  /\ age' = age + 1
  /\ UNCHANGED <<status, redeem, redeemAt, sigExp, up, stops, pc, roomVars, ghosts>>

Next ==
  \/ RedeemConsume \/ RedeemActivate \/ RedeemFails \/ Sweep \/ Stop \/ Start \/ Tick
  \/ \E c \in Conn : Connect(c) \/ Leave(c) \/ RoomEnded(c)

Spec == Init /\ [][Next]_vars

\* Time passes, a stopped server is started again, the ticker fires, handlers
\* and requests in flight run on.  Clients need not do anything.
FairSpec ==
  /\ Spec
  /\ WF_vars(Tick) /\ WF_vars(Start) /\ WF_vars(Sweep) /\ WF_vars(RedeemActivate)
  /\ \A c \in Conn : WF_vars(RoomEnded(c))

-----------------------------------------------------------------------------
(* Properties. *)

TypeOK ==
  /\ age \in 0..MaxAge /\ redeemAt \in 0..MaxAge
  /\ status \in {"pending", "active", "ended", "expired"}
  /\ redeem \in {"no", "consumed", "done"}
  /\ sigExp \in [Role -> 0..(MaxAge + SigTTL)]
  /\ {up, visited, endLost} \subseteq BOOLEAN /\ stops \in 0..MaxStops
  /\ pc \in [Conn -> {"out", "in", "callback", "gone"}]
  /\ present = {c \in Conn : pc[c] = "in"} /\ emptied[TheRoom] \in 0..Cardinality(Conn)

\* A phone is in the room only if the token was redeemed and the session was
\* activated before: the row of a session with a phone is not pending, and the
\* sweep cannot have expired it.
PhoneOnlyAfterActivation ==
  \A c \in present : RoleOf[c] = "phone" => status \in {"active", "ended"}

\* Once an active session's room has been used and is empty, the session gets ended or
\* somebody comes back, unless the server stopped with somebody still in the
\* room or a callback still to make, or the last callback's UPDATE failed.
\* Nothing else loses the end of a session, and a later visit makes up for it.
EmptiedRoomEnds ==
  (status = "active" /\ visited /\ present = {})
  ~> (status = "ended" \/ present # {} \/ endLost)

\* No session stays pending, whatever restarts the server goes through: the
\* sweep works on the rows, not on what the process remembers.
PendingResolved == <>(status # "pending")
=============================================================================
