--------------------------- MODULE RedisSignaling ---------------------------
(***************************************************************************)
(* One signaling room served by several backend instances                  *)
(* (SIGNALING_FANOUT=redis): every instance runs its own Hub with its own  *)
(* local occupants; RedisPresence shares the per-role connection counts in *)
(* one Redis hash with a time to live; RedisFanout publishes every frame   *)
(* on one channel that all instances subscribe to.                         *)
(*                                                                         *)
(* The fine interleavings inside one process (Hub.mu, the bounded send     *)
(* channel, writePump) are the subject of SignalingHub; here each action   *)
(* is one critical section or one round trip to Redis.  Which faults may   *)
(* happen is part of the initial state, so that a property can say under   *)
(* which it holds.                                                         *)
(***************************************************************************)
EXTENDS Integers, Sequences, FiniteSets

CONSTANTS
  Inst,         \* backend instances
  Conn,         \* WebSocket connections of the room
  InstOf,       \* the instance that serves a connection
  RoleOf,       \* its role
  None,         \* no connection
  TTL,          \* RedisPresence.ttl (SIGNALING_TOKEN_TTL)
  MaxRetries,   \* go-redis: how often a command is sent again
  FaultSets,    \* bound: the combinations of faults modelled
  MaxSend,      \* bound: frames a client sends
  MaxNow        \* bound: the last instant modelled

Role == {"agent", "phone"}

\* RedisPresence.Join or Leave may fail; PUBLISH may fail and subscribers miss
\* frames; the answer to a PUBLISH may not come in time; instances may stop
\* without leaving their rooms; a connection may outlive the time to live of the
\* hash.
Faults == {"join", "leave", "loss", "overdue", "crash", "outlive"}

ASSUME ConnAssumption ==
  InstOf \in [Conn -> Inst] /\ RoleOf \in [Conn -> Role] /\ None \notin Conn
  /\ IsFiniteSet(Conn)
ASSUME BoundsAssumption ==
  TTL \in Nat \ {0} /\ MaxRetries \in Nat /\ MaxSend \in Nat /\ MaxNow \in Nat
ASSUME FaultsAssumption == FaultSets \subseteq SUBSET Faults

VARIABLES
  faults,   \* the faults that may happen in this behaviour
  now,      \* the time
  stored,   \* signaling:presence:<room>, dead once now reaches exp
  up,       \* the running instances
  rooms,    \* rooms[i][role]: the local occupant in Hub.rooms
  inbox,    \* inbox[i]: frames on their way to instance i's subscriber
  overdue,  \* the attempts at a PUBLISH that were given up
  limbo,    \* those of them that Redis has not executed
  pc,       \* where a connection's handler stands
  got,      \* frames handed to the connection's Send
  sent,     \* frames its client sent so far
  ends      \* room-ended callbacks made

connVars == <<pc, got, sent>>
lateVars == <<overdue, limbo>>
vars == <<faults, now, stored, up, rooms, inbox, lateVars, connVars, ends>>

opposite(role) == IF role = "agent" THEN "phone" ELSE "agent"

\* A frame with, as ghost fields, its source and its place among that source's.
Frame(t, c) == [type |-> t, src |-> c, n |-> IF t = "peer-ready" THEN 0 ELSE sent[c]]

NoKey == [count |-> [r \in Role |-> 0], ttl |-> FALSE, exp |-> 0]
Key == IF stored.ttl /\ now >= stored.exp THEN NoKey ELSE stored

Present(c) == pc[c] \in {"readySelf", "ready", "serving", "relay", "hubLeave", "presLeave"}

Init ==
  /\ faults \in FaultSets
  /\ now = 0 /\ stored = NoKey
  /\ up = Inst
  /\ rooms = [i \in Inst |-> [r \in Role |-> None]]
  /\ inbox = [i \in Inst |-> <<>>]
  /\ overdue = {} /\ limbo = {}
  /\ pc = [c \in Conn |-> "new"]
  /\ got = [c \in Conn |-> <<>>]
  /\ sent = [c \in Conn |-> 0]
  /\ ends = 0

Goto(c, l) == pc' = [pc EXCEPT ![c] = l]

-----------------------------------------------------------------------------
(* Hub.Join with RedisPresence. *)

Register(c) ==
  /\ pc[c] = "new" /\ InstOf[c] \in up
  /\ rooms' = [rooms EXCEPT ![InstOf[c]][RoleOf[c]] = c]
  /\ Goto(c, "presence")
  /\ UNCHANGED <<faults, now, stored, up, inbox, lateVars, got, sent, ends>>

\* MULTI: HINCRBY role 1, EXPIRE ttl, HGETALL.
HIncrAsFlag(n) == 1
HIncr(n) == n + 1
StoreJoin(c) ==
  stored' = [count |-> [Key.count EXCEPT ![RoleOf[c]] = HIncr(@)],
             ttl |-> TRUE, exp |-> now + TTL]

PresenceJoin(c) ==
  /\ pc[c] = "presence"
  /\ StoreJoin(c)
  /\ Goto(c, IF Key.count[opposite(RoleOf[c])] > 0 THEN "readySelf" ELSE "serving")
  /\ UNCHANGED <<faults, now, up, rooms, inbox, lateVars, got, sent, ends>>

\* Exec fails, with or without effect: Join returns no other roles.
PresenceJoinError(c) ==
  /\ "join" \in faults /\ pc[c] = "presence"
  /\ StoreJoin(c) \/ UNCHANGED stored
  /\ Goto(c, "serving")
  /\ UNCHANGED <<faults, now, up, rooms, inbox, lateVars, got, sent, ends>>

ReadySelf(c) ==
  /\ pc[c] = "readySelf"
  /\ got' = [got EXCEPT ![c] = Append(@, Frame("peer-ready", c))]
  /\ Goto(c, "ready")
  /\ UNCHANGED <<faults, now, stored, up, rooms, inbox, lateVars, sent, ends>>

-----------------------------------------------------------------------------
(* RedisFanout. *)

Outgoing(c) == Frame(CASE pc[c] = "ready" -> "peer-ready"
                       [] pc[c] = "relay" -> "data"
                       [] pc[c] = "bye"   -> "bye", c)

FanoutToOwnInstance(f) ==
  [i \in Inst |-> IF i = InstOf[f.src]
                  THEN Append(inbox[i], [to |-> opposite(RoleOf[f.src]), frame |-> f])
                  ELSE inbox[i]]
FanoutTwice(f) ==
  LET e == [to |-> opposite(RoleOf[f.src]), frame |-> f] IN
  [i \in Inst |-> IF i \in up THEN inbox[i] \o <<e, e>> ELSE inbox[i]]

\* PUBLISH reaches every running instance, the publisher's own included.
Fanout(f) ==
  [i \in Inst |-> IF i \in up
                  THEN Append(inbox[i], [to |-> opposite(RoleOf[f.src]), frame |-> f])
                  ELSE inbox[i]]

AfterPublish(c) == Goto(c, IF pc[c] = "bye" THEN "done" ELSE "serving")

\* A failed PUBLISH is only logged.
Publish(c) ==
  /\ pc[c] \in {"ready", "relay", "bye"}
  /\ inbox' = Fanout(Outgoing(c)) \/ ("loss" \in faults /\ UNCHANGED inbox)
  /\ AfterPublish(c)
  /\ UNCHANGED <<faults, now, stored, up, rooms, lateVars, got, sent, ends>>

\* No answer came in time, or the connection to Redis broke: the client gives
\* the attempt up and sends PUBLISH again on another connection, until the
\* last attempt fails too.
Retries(c) == Cardinality({a \in overdue : a.frame = Outgoing(c)})

Overdue(c) ==
  /\ "overdue" \in faults /\ pc[c] \in {"ready", "relay", "bye"}
  /\ LET attempt == [frame |-> Outgoing(c), n |-> Retries(c)]
     IN overdue' = overdue \cup {attempt} /\ limbo' = limbo \cup {attempt}
  /\ IF Retries(c) < MaxRetries THEN UNCHANGED pc ELSE AfterPublish(c)
  /\ UNCHANGED <<faults, now, stored, up, rooms, inbox, got, sent, ends>>

\* What was given up may have reached Redis all the same, and is executed, at
\* once or later, if ever.
ExecuteLate(a) ==
  /\ inbox' = Fanout(a.frame)
  /\ limbo' = limbo \ {a}
  /\ UNCHANGED <<faults, now, stored, up, rooms, overdue, connVars, ends>>

\* The subscriber goroutine of Start: Hub.deliverLocal to the local occupant.
Deliver(i) ==
  /\ inbox[i] # <<>>
  /\ LET m == Head(inbox[i])
         c == rooms[i][m.to]
     IN got' = IF c = None THEN got ELSE [got EXCEPT ![c] = Append(@, m.frame)]
  /\ inbox' = [inbox EXCEPT ![i] = Tail(@)]
  /\ UNCHANGED <<faults, now, stored, up, rooms, lateVars, pc, sent, ends>>

\* The subscription was down when the frame was published.
Miss(i) ==
  /\ "loss" \in faults /\ inbox[i] # <<>>
  /\ inbox' = [inbox EXCEPT ![i] = Tail(@)]
  /\ UNCHANGED <<faults, now, stored, up, rooms, lateVars, connVars, ends>>

-----------------------------------------------------------------------------
(* readPump and its deferred clean-up. *)

ReadEnvelope(c) ==
  /\ pc[c] = "serving" /\ sent[c] < MaxSend
  /\ sent' = [sent EXCEPT ![c] = @ + 1]
  /\ Goto(c, "relay")
  /\ UNCHANGED <<faults, now, stored, up, rooms, inbox, lateVars, got, ends>>

ReadError(c) ==
  /\ pc[c] = "serving"
  /\ Goto(c, "hubLeave")
  /\ UNCHANGED <<faults, now, stored, up, rooms, inbox, lateVars, got, sent, ends>>

HubLeave(c) ==
  /\ pc[c] = "hubLeave"
  /\ rooms' = [rooms EXCEPT ![InstOf[c]][RoleOf[c]] = IF @ = c THEN None ELSE @]
  /\ Goto(c, "presLeave")
  /\ UNCHANGED <<faults, now, stored, up, inbox, lateVars, got, sent, ends>>

\* MULTI: HINCRBY role -1, HGETALL.  An expired hash is created again, without
\* a time to live; no count is clamped at zero.
HDecr(n) == n - 1
StoreLeave(c) ==
  stored' = [Key EXCEPT !.count[RoleOf[c]] = HDecr(@)]

AfterLeave(c, empty) == Goto(c, IF empty THEN "ended" ELSE "bye")

PresenceLeave(c) ==
  /\ pc[c] = "presLeave"
  /\ StoreLeave(c)
  /\ AfterLeave(c, \A r \in Role : stored'.count[r] <= 0)
  /\ UNCHANGED <<faults, now, up, rooms, inbox, lateVars, got, sent, ends>>

\* Exec fails, with or without effect: Leave reports the room as not empty.
EmptyOnErrorAssumed == TRUE
EmptyOnError == FALSE

PresenceLeaveError(c) ==
  /\ "leave" \in faults /\ pc[c] = "presLeave"
  /\ StoreLeave(c) \/ UNCHANGED stored
  /\ AfterLeave(c, EmptyOnError)
  /\ UNCHANGED <<faults, now, up, rooms, inbox, lateVars, got, sent, ends>>

RoomEnded(c) ==
  /\ pc[c] = "ended"
  /\ ends' = ends + 1
  /\ Goto(c, "bye")
  /\ UNCHANGED <<faults, now, stored, up, rooms, inbox, lateVars, got, sent>>

-----------------------------------------------------------------------------
(* Instances stop and start; time passes. *)

\* run returns after Shutdown, which does not wait for hijacked connections,
\* or the process dies: no Leave runs for the instance's connections.
Crash(i) ==
  /\ "crash" \in faults /\ i \in up
  /\ up' = up \ {i}
  /\ pc' = [c \in Conn |-> IF InstOf[c] = i /\ pc[c] # "new" THEN "done" ELSE pc[c]]
  /\ rooms' = [rooms EXCEPT ![i] = [r \in Role |-> None]]
  /\ inbox' = [inbox EXCEPT ![i] = <<>>]
  /\ UNCHANGED <<faults, now, stored, lateVars, got, sent, ends>>

\* NewHubWith: an empty Hub whose fanout subscribes.
Start(i) ==
  /\ i \notin up
  /\ up' = up \cup {i}
  /\ UNCHANGED <<faults, now, stored, rooms, inbox, lateVars, connVars, ends>>

Tick ==
  /\ now < MaxNow
  /\ "outlive" \in faults \/ \A c \in Conn : Present(c) => now + 1 < stored.exp
  /\ now' = now + 1
  /\ UNCHANGED <<faults, stored, up, rooms, inbox, lateVars, connVars, ends>>

Handler(c) ==
  \/ Register(c) \/ PresenceJoin(c) \/ PresenceJoinError(c) \/ ReadySelf(c)
  \/ Publish(c) \/ Overdue(c) \/ ReadEnvelope(c) \/ ReadError(c) \/ HubLeave(c)
  \/ PresenceLeave(c) \/ PresenceLeaveError(c) \/ RoomEnded(c)

Next ==
  \/ \E c \in Conn : Handler(c)
  \/ \E a \in limbo : ExecuteLate(a)
  \/ \E i \in Inst : Deliver(i) \/ Miss(i) \/ Crash(i) \/ Start(i)
  \/ Tick

Spec == Init /\ [][Next]_vars

-----------------------------------------------------------------------------
(* Properties. *)

TypeOK ==
  /\ now \in 0..MaxNow /\ ends \in 0..Cardinality(Conn)
  /\ stored \in [count : [Role -> Int], ttl : BOOLEAN, exp : 0..(MaxNow + TTL)]
  /\ up \subseteq Inst
  /\ \A i \in Inst, r \in Role :
       rooms[i][r] \in {c \in Conn : InstOf[c] = i /\ RoleOf[c] = r} \cup {None}
  /\ \A i \in Inst : \A k \in DOMAIN inbox[i] : inbox[i][k].to \in Role
  /\ pc \in [Conn -> {"new", "presence", "readySelf", "ready", "serving", "relay",
                      "hubLeave", "presLeave", "ended", "bye", "done"}]
  /\ sent \in [Conn -> 0..MaxSend]
  /\ limbo \subseteq overdue /\ \A a \in overdue : a.n \in 0..MaxRetries

\* What Leave needs in order to count right: no Join that failed, no hash that
\* expired under a connection.
CountsKept == faults \cap {"join", "outlive"} = {}

\* The promise of Presence on which the end of a session rests: Leave reports
\* an empty room only when no connection is in it, on whatever instance
\* ("This must be authoritative across instances", fanout.go), also when other
\* Leaves failed or never ran because their instance crashed.
EmptyIsAuthoritative ==
  [][CountsKept => \A c \in Conn : pc[c] # "ended" /\ pc'[c] = "ended" =>
       \A d \in Conn : ~Present(d)']_vars

\* Hub.Join across instances, whatever instance crashed or Leave failed before:
\* once every subscriber has caught up and nobody is joining or leaving, any two
\* opposite connections that are the occupants on their instances have both
\* been sent the peer-ready of one and the same Join.
PairedPeersNotified ==
  (/\ faults \cap {"join", "loss", "overdue", "outlive"} = {}
   /\ \A i \in Inst : inbox[i] = <<>>
   /\ \A c \in Conn : pc[c] \in {"new", "serving", "done"})
  => \A i, j \in Inst :
       LET a == rooms[i]["agent"]
           p == rooms[j]["phone"]
       IN a # None /\ p # None =>
            \E s \in {a, p} : \A x \in {a, p} :
              \E k \in DOMAIN got[x] : got[x][k] = Frame("peer-ready", s)

\* The frames whose PUBLISH was answered in time, or refused at once.
Prompt(f) == \A a \in overdue : a.frame # f

\* RedisFanout loses frames, and go-redis repeats or delays a PUBLISH that got no
\* answer; but only that frame is handed on twice or out of its place: what a
\* connection published before and after it still comes once and in the order
\* sent, on any instance.
OnceInOrderUnlessOverdue ==
  \A c \in Conn : \A k, l \in DOMAIN got[c] :
    LET f == got[c][k]
        g == got[c][l]
    IN k < l /\ f.src = g.src /\ f.src # c /\ Prompt(f) /\ Prompt(g)
       => f.n < g.n \/ (f.n = g.n /\ f.type # "bye" /\ g.type = "bye")

\* Without faults the shared counts implement the abstract room: exact
\* membership over all instances and one end signal per emptying.
TheRoom == "room"
Abstract == INSTANCE RoomPresence WITH
  Peer <- Conn, Room <- {TheRoom}, RoomOf <- [c \in Conn |-> TheRoom],
  present <- {c \in Conn : faults = {} /\ Present(c)},
  emptied <- [r \in {TheRoom} |-> IF faults = {}
                THEN ends + Cardinality({c \in Conn : pc[c] = "ended"}) ELSE 0]
ImplementsRoomPresence == Abstract!Spec
=============================================================================
