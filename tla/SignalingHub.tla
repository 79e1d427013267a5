---------------------------- MODULE SignalingHub ----------------------------
(***************************************************************************)
(* One backend instance of the signaling relay (internal/signaling): the   *)
(* Hub with LocalFanout and LocalPresence, and the two goroutines ServeWS  *)
(* gives every WebSocket connection.                                       *)
(*                                                                         *)
(* A process of the model is a connection p.  Its handler goroutine runs   *)
(* ServeWS: Hub.Join, then readPump, then readPump's deferred clean-up.    *)
(* Its writer goroutine runs writePump.  Each action is one critical       *)
(* section (hub mutex, presence mutex, peer mutex) or one operation on the *)
(* connection, so that every interleaving of the code's lock regions is a  *)
(* behaviour of the model.                                                 *)
(*                                                                         *)
(* pc[p] is where the handler goroutine stands:                            *)
(*   new        upgraded and authorized, Hub.Join not yet called           *)
(*   presence   registered in Hub.rooms, before presence.Join              *)
(*   readySelf  counterpart seen, before p.Send(ready)                     *)
(*   lookup     in fanout.Publish, before deliverLocal reads Hub.rooms     *)
(*   deliver    deliverLocal holds target[p], before target.Send           *)
(*   serving    in readPump's ReadMessage                                  *)
(*   hubLeave, presLeave, callback, closeSend, connClose                   *)
(*              the steps of readPump's deferred function, before each     *)
(*   done       the handler goroutine has returned                         *)
(***************************************************************************)
EXTENDS Integers, Sequences, FiniteSets

CONSTANTS Peer,        \* connections; wsPeer.id is unique (uuid.NewString)
          Room,        \* room ids
          RoomOf,      \* the room a connection is opened for
          RoleOf,      \* the role it is opened with
          SendBuffer,  \* capacity of wsPeer.send
          MaxSend,     \* bound: client frames read from each connection
          None         \* no peer, no sender role

Role == {"agent", "phone"}

ASSUME PeerAssumption == IsFiniteSet(Peer) /\ None \notin Peer
ASSUME RoomOfAssumption == RoomOf \in [Peer -> Room]
ASSUME RoleOfAssumption == RoleOf \in [Peer -> Role]
ASSUME NoneAssumption == None \notin Role
ASSUME SendBufferAssumption == SendBuffer \in Nat \ {0}
ASSUME MaxSendAssumption == MaxSend \in [Peer -> Nat]

VARIABLES
  rooms,     \* Hub.rooms: the current local peer per room and role, or None
  count,     \* LocalPresence.rooms: 0 stands for an absent map entry
  pc,        \* where the handler goroutine of each connection stands
  outgoing,  \* the frame a handler goroutine is publishing
  target,    \* the peer deliverLocal found, used after RUnlock
  queue,     \* every frame ever accepted into wsPeer.send, in order
  taken,     \* how many of them writePump has received
  dropped,   \* frames Send refused because the buffer was full
  closed,    \* wsPeer.closed
  writer,    \* writePump: "off" before it starts, "run", "done"
  conn,      \* "closed" once the server has closed the WebSocket
  sent,      \* client frames read so far
  ends       \* OnRoomEnded callbacks fired per room

handlerVars == <<pc, outgoing, target>>
sendVars    == <<queue, dropped>>
vars == <<rooms, count, pc, outgoing, target, queue, taken, dropped, closed,
          writer, conn, sent, ends>>

opposite(role) == IF role = "agent" THEN "phone" ELSE "agent"

\* A frame with, as ghost fields, the connection whose handler produced it and
\* its position among that connection's frames.  Types the relay does not
\* interpret (offer, answer, ice, annotation, a client's own bye) are "data".
Frame == [type : {"peer-ready", "error", "data", "bye"},
          from : Role \cup {None}, src : Peer, n : Nat]

ReadyFrame(p) == [type |-> "peer-ready", from |-> None, src |-> p, n |-> 0]
ErrorFrame(p) == [type |-> "error", from |-> None, src |-> p, n |-> sent[p] + 1]
ByeFrame(p)   == [type |-> "bye", from |-> RoleOf[p], src |-> p, n |-> sent[p] + 1]

\* The frame readPump relays for a client envelope that claims to come from
\* `claim`: the claim is overwritten with the authenticated role.
DataFrameTrustingClaim(p, claim) ==
  [type |-> "data", from |-> claim, src |-> p, n |-> sent[p] + 1]
DataFrame(p, claim) ==
  [type |-> "data", from |-> RoleOf[p], src |-> p, n |-> sent[p] + 1]

Idle == [type |-> "none"]  \* outgoing when nothing is being published

Init ==
  /\ rooms = [r \in Room |-> [x \in Role |-> None]]
  /\ count = [r \in Room |-> [x \in Role |-> 0]]
  /\ pc = [p \in Peer |-> "new"]
  /\ outgoing = [p \in Peer |-> Idle]
  /\ target = [p \in Peer |-> None]
  /\ queue = [p \in Peer |-> <<>>]
  /\ taken = [p \in Peer |-> 0]
  /\ dropped = [p \in Peer |-> {}]
  /\ closed = [p \in Peer |-> FALSE]
  /\ writer = [p \in Peer |-> "off"]
  /\ conn = [p \in Peer |-> "open"]
  /\ sent = [p \in Peer |-> 0]
  /\ ends = [r \in Room |-> 0]

-----------------------------------------------------------------------------
(* wsPeer.Send and closeSend, each one critical section of the peer mutex. *)

RefusedIgnoringClosed(q) == FALSE
Refused(q) == closed[q]

Full(q) == Len(queue[q]) - taken[q] >= SendBuffer

Send(q, f) ==
  \/ /\ Refused(q)
     /\ UNCHANGED sendVars
  \/ /\ ~Refused(q) /\ ~Full(q)
     /\ queue' = [queue EXCEPT ![q] = Append(@, f)]
     /\ UNCHANGED dropped
  \/ /\ ~Refused(q) /\ Full(q)
     /\ dropped' = [dropped EXCEPT ![q] = @ \cup {f}]
     /\ UNCHANGED queue

\* Goto moves p's handler goroutine; ServeWS starts writePump on the way from
\* Hub.Join into readPump.
Goto(p, l) == pc' = [pc EXCEPT ![p] = l]
EnterReadPumpWithoutWriter(p) ==
  /\ Goto(p, "serving")
  /\ UNCHANGED writer

EnterReadPump(p) ==
  /\ Goto(p, "serving")
  /\ writer' = [writer EXCEPT ![p] = IF @ = "off" THEN "run" ELSE @]

-----------------------------------------------------------------------------
(* Hub.Join. *)

\* Under Hub.mu: the newcomer replaces whoever held its role.
Register(p) ==
  /\ pc[p] = "new"
  /\ rooms' = [rooms EXCEPT ![RoomOf[p]][RoleOf[p]] = p]
  /\ Goto(p, "presence")
  /\ UNCHANGED <<count, outgoing, target, sendVars, taken, closed, writer,
                 conn, sent, ends>>

\* LocalPresence counts the connections of a role.
IncrementedAsFlag(c) == 1
IncrementedWrongSign(c) == c - 1
Incremented(c) == c + 1

\* presence.Join, under LocalPresence.mu, and the loop over its result.
PresenceJoin(p) ==
  LET r == RoomOf[p] IN
  /\ pc[p] = "presence"
  /\ count' = [count EXCEPT ![r][RoleOf[p]] = Incremented(@)]
  /\ \/ /\ count[r][opposite(RoleOf[p])] > 0
        /\ Goto(p, "readySelf")
        /\ UNCHANGED writer
     \/ /\ count[r][opposite(RoleOf[p])] = 0
        /\ EnterReadPump(p)
  /\ UNCHANGED <<rooms, outgoing, target, sendVars, taken, closed, conn, sent, ends>>

\* p.Send(ready), then fanout.Publish of the same frame.
ReadySelfOnly(p) ==
  /\ pc[p] = "readySelf"
  /\ Send(p, ReadyFrame(p))
  /\ EnterReadPump(p)
  /\ UNCHANGED <<rooms, count, outgoing, target, taken, closed, conn, sent, ends>>

ReadySelf(p) ==
  /\ pc[p] = "readySelf"
  /\ Send(p, ReadyFrame(p))
  /\ outgoing' = [outgoing EXCEPT ![p] = ReadyFrame(p)]
  /\ Goto(p, "lookup")
  /\ UNCHANGED <<rooms, count, target, taken, closed, writer, conn, sent, ends>>

-----------------------------------------------------------------------------
(* LocalFanout.Publish = Hub.deliverLocal: read the occupant under RLock,   *)
(* then Send to it after RUnlock.                                           *)

RecipientRole(p) == opposite(RoleOf[p])

Lookup(p) ==
  /\ pc[p] = "lookup"
  /\ target' = [target EXCEPT ![p] = rooms[RoomOf[p]][RecipientRole(p)]]
  /\ Goto(p, "deliver")
  /\ UNCHANGED <<rooms, count, outgoing, sendVars, taken, closed, writer, conn,
                 sent, ends>>

\* After Publish returns, Join and Relay fall through to readPump's loop; the
\* bye is the last thing the deferred function publishes.
AfterPublish(p) ==
  \/ outgoing[p].type = "bye" /\ Goto(p, "done") /\ UNCHANGED writer
  \/ outgoing[p].type # "bye" /\ EnterReadPump(p)

DeliverAndPublishAgain(p) ==
  /\ pc[p] = "deliver"
  /\ \/ target[p] = None /\ UNCHANGED sendVars
     \/ target[p] # None /\ Send(target[p], outgoing[p])
  /\ \/ AfterPublish(p) /\ outgoing' = [outgoing EXCEPT ![p] = Idle]
     \/ Goto(p, "lookup") /\ UNCHANGED <<writer, outgoing>>
  /\ target' = [target EXCEPT ![p] = None]
  /\ UNCHANGED <<rooms, count, taken, closed, conn, sent, ends>>

Deliver(p) ==
  /\ pc[p] = "deliver"
  /\ \/ target[p] = None /\ UNCHANGED sendVars
     \/ target[p] # None /\ Send(target[p], outgoing[p])
  /\ AfterPublish(p)
  /\ target' = [target EXCEPT ![p] = None]
  /\ outgoing' = [outgoing EXCEPT ![p] = Idle]
  /\ UNCHANGED <<rooms, count, taken, closed, conn, sent, ends>>

-----------------------------------------------------------------------------
(* readPump's loop. *)

\* A well-formed envelope is relayed with its From overwritten.
ReadEnvelope(p) ==
  /\ pc[p] = "serving" /\ conn[p] = "open"
  /\ sent[p] < MaxSend[p]
  /\ \E claim \in Role :
       outgoing' = [outgoing EXCEPT ![p] = DataFrame(p, claim)]
  /\ sent' = [sent EXCEPT ![p] = @ + 1]
  /\ Goto(p, "lookup")
  /\ UNCHANGED <<rooms, count, target, sendVars, taken, closed, writer, conn, ends>>

\* A frame that does not unmarshal is answered with an error to its sender.
ReadMalformed(p) ==
  /\ pc[p] = "serving" /\ conn[p] = "open"
  /\ sent[p] < MaxSend[p]
  /\ Send(p, ErrorFrame(p))
  /\ sent' = [sent EXCEPT ![p] = @ + 1]
  /\ UNCHANGED <<rooms, count, handlerVars, taken, closed, writer, conn, ends>>

\* ReadMessage fails: this side closed the connection, or at any time because
\* the client went away, the read deadline set by the pong handler passed, or
\* the client violated the protocol.
ReadError(p) ==
  /\ pc[p] = "serving"
  /\ Goto(p, "hubLeave")
  /\ UNCHANGED <<rooms, count, outgoing, target, sendVars, taken, closed, writer,
                 conn, sent, ends>>

-----------------------------------------------------------------------------
(* readPump's deferred function: Hub.Leave, closeSend, conn.Close, Relay.   *)

\* The occupant of p's role once p has left: a connection that was replaced
\* leaves its successor in place.
OccupantAlwaysCleared(cur, p) == None
OccupantNeverCleared(cur, p) == cur
OccupantAfterLeave(cur, p) == IF cur = p THEN None ELSE cur

\* Hub.Leave under Hub.mu: only the current occupant is removed.
HubLeave(p) ==
  /\ pc[p] = "hubLeave"
  /\ rooms' = [rooms EXCEPT ![RoomOf[p]][RoleOf[p]] = OccupantAfterLeave(@, p)]
  /\ Goto(p, "presLeave")
  /\ UNCHANGED <<count, outgoing, target, sendVars, taken, closed, writer, conn,
                 sent, ends>>

\* LocalPresence.Leave's new count, never below zero.
Decremented(c) == IF c > 0 THEN c - 1 ELSE 0

\* The room is empty when neither role has a connection left.
EmptyOwnRoleOnly(own, other) == own = 0
Empty(own, other) == own = 0 /\ other = 0

\* presence.Leave, under LocalPresence.mu.
PresenceLeave(p) ==
  LET r == RoomOf[p]
      left == Decremented(count[r][RoleOf[p]])
  IN
  /\ pc[p] = "presLeave"
  /\ count' = [count EXCEPT ![r][RoleOf[p]] = left]
  /\ Goto(p, IF Empty(left, count[r][opposite(RoleOf[p])])
             THEN "callback" ELSE "closeSend")
  /\ UNCHANGED <<rooms, outgoing, target, sendVars, taken, closed, writer, conn,
                 sent, ends>>

\* The OnRoomEnded callback, run by the leaving connection's goroutine with no
\* lock held.
RoomEndedAwaitsVacancy(p) ==
  /\ pc[p] = "callback"
  /\ \A role \in Role : rooms[RoomOf[p]][role] = None
  /\ ends' = [ends EXCEPT ![RoomOf[p]] = @ + 1]
  /\ Goto(p, "closeSend")
  /\ UNCHANGED <<rooms, count, outgoing, target, sendVars, taken, closed, writer,
                 conn, sent>>

RoomEnded(p) ==
  /\ pc[p] = "callback"
  /\ ends' = [ends EXCEPT ![RoomOf[p]] = @ + 1]
  /\ Goto(p, "closeSend")
  /\ UNCHANGED <<rooms, count, outgoing, target, sendVars, taken, closed, writer,
                 conn, sent>>

CloseSend(p) ==
  /\ pc[p] = "closeSend"
  /\ closed' = [closed EXCEPT ![p] = TRUE]
  /\ Goto(p, "connClose")
  /\ UNCHANGED <<rooms, count, outgoing, target, sendVars, taken, writer, conn,
                 sent, ends>>

\* conn.Close, then Relay of the bye frame.
ConnCloseSilently(p) ==
  /\ pc[p] = "connClose"
  /\ conn' = [conn EXCEPT ![p] = "closed"]
  /\ Goto(p, "done")
  /\ UNCHANGED <<rooms, count, outgoing, target, sendVars, taken, closed, writer, sent, ends>>

ConnClose(p) ==
  /\ pc[p] = "connClose"
  /\ conn' = [conn EXCEPT ![p] = "closed"]
  /\ outgoing' = [outgoing EXCEPT ![p] = ByeFrame(p)]
  /\ Goto(p, "lookup")
  /\ UNCHANGED <<rooms, count, target, sendVars, taken, closed, writer, sent, ends>>

-----------------------------------------------------------------------------
(* writePump.  Every exit runs its deferred conn.Close.                     *)

WriterExit(p) ==
  /\ writer' = [writer EXCEPT ![p] = "done"]
  /\ conn' = [conn EXCEPT ![p] = "closed"]

WriteFrame(p) ==
  /\ writer[p] = "run" /\ conn[p] = "open"
  /\ taken[p] < Len(queue[p])
  /\ taken' = [taken EXCEPT ![p] = @ + 1]
  /\ UNCHANGED <<rooms, count, handlerVars, sendVars, closed, writer, conn, sent, ends>>

\* WriteMessage fails: always, once this side closed the connection, and at
\* any time because the client went away or the write deadline passed.  The
\* frame is lost and the connection closed, which fails readPump's read.
WriteFails(p) ==
  /\ writer[p] = "run"
  /\ taken[p] < Len(queue[p])
  /\ taken' = [taken EXCEPT ![p] = @ + 1]
  /\ WriterExit(p)
  /\ UNCHANGED <<rooms, count, handlerVars, sendVars, closed, sent, ends>>

PingFails(p) ==
  /\ writer[p] = "run"
  /\ WriterExit(p)
  /\ UNCHANGED <<rooms, count, handlerVars, sendVars, taken, closed, sent, ends>>

\* The receive on the closed, drained channel.
WriteClose(p) ==
  /\ writer[p] = "run"
  /\ closed[p] /\ taken[p] = Len(queue[p])
  /\ WriterExit(p)
  /\ UNCHANGED <<rooms, count, handlerVars, sendVars, taken, closed, sent, ends>>

-----------------------------------------------------------------------------
\* The steps the handler goroutine takes without waiting for its client.
HandlerStep(p) ==
  \/ PresenceJoin(p) \/ ReadySelf(p) \/ Lookup(p) \/ Deliver(p)
  \/ HubLeave(p) \/ PresenceLeave(p) \/ RoomEnded(p) \/ CloseSend(p) \/ ConnClose(p)

WriterStep(p) == WriteFrame(p) \/ WriteFails(p) \/ WriteClose(p)

ClientStep(p) == Register(p) \/ ReadEnvelope(p) \/ ReadMalformed(p) \/ ReadError(p)

PeerStep(p) == HandlerStep(p) \/ WriterStep(p) \/ PingFails(p) \/ ClientStep(p)

Next == \E p \in Peer : PeerStep(p)

\* Goroutines that can run do run.  Reading from a closed connection fails and
\* so does the next ping on it (pingPeriod < pongWait).  Nothing obliges a
\* client to connect, to send, or to leave.
Fairness ==
  \A p \in Peer :
    /\ WF_vars(HandlerStep(p))
    /\ WF_vars(WriterStep(p))
    /\ WF_vars(conn[p] = "closed" /\ ReadError(p))
    /\ WF_vars(conn[p] = "closed" /\ PingFails(p))

Spec == Init /\ [][Next]_vars
FairSpec == Spec /\ Fairness

-----------------------------------------------------------------------------
(* Properties. *)

Label == {"new", "presence", "readySelf", "lookup", "deliver", "serving",
          "hubLeave", "presLeave", "callback", "closeSend", "connClose", "done"}

\* Every variable has its type, the bound on written frames included.
TypeOK ==
  /\ rooms \in [Room -> [Role -> Peer \cup {None}]]
  /\ count \in [Room -> [Role -> Nat]]
  /\ pc \in [Peer -> Label]
  /\ outgoing \in [Peer -> Frame \cup {Idle}]
  /\ target \in [Peer -> Peer \cup {None}]
  /\ queue \in [Peer -> Seq(Frame)]
  /\ taken \in [Peer -> Nat]
  /\ dropped \in [Peer -> SUBSET Frame]
  /\ closed \in [Peer -> BOOLEAN]
  /\ writer \in [Peer -> {"off", "run", "done"}]
  /\ conn \in [Peer -> {"open", "closed"}]
  /\ sent \in [Peer -> Nat]
  /\ ends \in [Room -> Nat]

\* p's handler is publishing the frame it was asked to, not its farewell.
Publishing(p) == pc[p] \in {"lookup", "deliver"} /\ outgoing[p].type # "bye"

\* Presence counts p: between presence.Join and presence.Leave.
Counted(p) == pc[p] \in {"readySelf", "serving", "hubLeave", "presLeave"} \/ Publishing(p)

\* p has entered Hub.rooms and not yet run Hub.Leave's critical section.
Registered(p) == pc[p] \in {"presence", "readySelf", "serving", "hubLeave"} \/ Publishing(p)

CountedIn(r, role) == {p \in Peer : RoomOf[p] = r /\ RoleOf[p] = role /\ Counted(p)}

\* Presence is exact: every role's count is the number of connections between
\* their presence.Join and presence.Leave, whatever overlaps when one side
\* reconnects before its old socket is reaped.  LocalPresence's zero clamp and
\* its "already gone" return are therefore never taken.
PresenceCounts ==
  \A r \in Room, role \in Role : count[r][role] = Cardinality(CountedIn(r, role))

\* Hub.rooms never points at a connection that belongs elsewhere or that has
\* already left: an old connection's Leave neither evicts its successor nor
\* leaves itself behind, and an occupant's channel is never closed.
OccupantValid ==
  \A r \in Room, role \in Role : LET q == rooms[r][role] IN
    q # None => /\ RoomOf[q] = r /\ RoleOf[q] = role
                /\ Registered(q)
                /\ ~closed[q]

\* A role's occupant is only ever replaced by a newcomer or removed by its own
\* Leave: the late Leave of a connection that was superseded while its socket
\* lingered cannot evict its successor.
SuccessorKept ==
  [][\A r \in Room, role \in Role : LET q == rooms[r][role] IN
       q # None /\ rooms'[r][role] = None => pc[q] = "hubLeave" /\ pc'[q] = "presLeave"]_vars

\* q was sent the peer-ready that j's Join produced (or its buffer was full).
Notified(q, j) ==
  \/ \E i \in 1..Len(queue[q]) : queue[q][i] = ReadyFrame(j)
  \/ ReadyFrame(j) \in dropped[q]

\* The current occupants of both roles, once both serve, were both sent
\* peer-ready by one and the same Join, in whatever order and with whatever
\* overlap the two sides joined: the agent always learns that it may offer.
PairedPeersNotified ==
  \A r \in Room : LET a == rooms[r]["agent"]
                      b == rooms[r]["phone"] IN
    (a # None /\ b # None /\ pc[a] = "serving" /\ pc[b] = "serving")
    => \E j \in {a, b} : Notified(a, j) /\ Notified(b, j)

\* Isolation: a frame queued for q was relayed from q's own room by the
\* opposite role and says so, whatever From the client claimed, or comes from
\* the hub itself: an error for q's own frame, a peer-ready from the room.
RelayIsolation ==
  \A q \in Peer : \A i \in 1..Len(queue[q]) : LET f == queue[q][i] IN
    /\ RoomOf[f.src] = RoomOf[q]
    /\ f.type \in {"data", "bye"} => /\ f.from = opposite(RoleOf[q])
                                     /\ RoleOf[f.src] = opposite(RoleOf[q])
    /\ f.type = "error" => f.src = q
    /\ f.type = "peer-ready" => f.src = q \/ RoleOf[f.src] = opposite(RoleOf[q])

\* No relayed frame is duplicated, to the same connection or to an old and a
\* new one, and the frames of one sender reach a recipient in the order sent.
RelayedOnceInOrder ==
  \A q \in Peer : \A i \in 1..Len(queue[q]) : LET f == queue[q][i] IN
    /\ \A k \in 1..(i - 1) : queue[q][k].src = f.src => queue[q][k].n < f.n
    /\ f.type # "peer-ready" =>
         \A u \in Peer \ {q} : \A k \in 1..Len(queue[u]) : queue[u][k] # f

\* A bye is true of the connection it names when it is queued and for ever
\* after: that connection is no occupant, is not counted and takes no frames.
\* (It may arrive after a successor of the same role has joined.)
ByeMeansGone ==
  \A q \in Peer : \A i \in 1..Len(queue[q]) : LET f == queue[q][i] IN
    f.type = "bye" => /\ rooms[RoomOf[f.src]][RoleOf[f.src]] # f.src
                      /\ ~Counted(f.src) /\ closed[f.src]

\* p and q met: one of them was sent a frame the other produced.
Met(p, q) == \/ \E i \in 1..Len(queue[q]) : queue[q][i].src = p
             \/ \E i \in 1..Len(queue[p]) : queue[p][i].src = q

\* Nobody is left waiting for a counterpart that has gone: the occupant of a
\* role was sent the bye of every connection it met and that has returned (or
\* its buffer was full), whoever else joined or left in between.
DepartureAnnounced ==
  \A p, q \in Peer :
    (/\ pc[p] = "done" /\ RoleOf[p] # RoleOf[q] /\ Met(p, q)
     /\ rooms[RoomOf[q]][RoleOf[q]] = q)
    => \/ \E i \in 1..Len(queue[q]) : queue[q][i].src = p /\ queue[q][i].type = "bye"
       \/ \E f \in dropped[q] : f.src = p /\ f.type = "bye"

ClosedQuiet == \A p \in Peer : closed[p] => queue'[p] = queue[p]

\* No frame enters a channel after it was closed (which would panic and take
\* the process down), although deliverLocal uses a peer it looked up before
\* that peer closed its channel.
NoSendAfterClose == [][ClosedQuiet]_vars

\* Refinement: the counters, with the callbacks still owed, implement exact
\* room membership with one end signal per emptying.
Owing(r) == {p \in Peer : RoomOf[p] = r /\ pc[p] = "callback"}
RP == INSTANCE RoomPresence WITH
        present <- {p \in Peer : Counted(p)},
        emptied <- [r \in Room |-> ends[r] + Cardinality(Owing(r))]
ImplementsRoomPresence == RP!Spec

\* A connection that fails on either side, in the reader or in the writer, is
\* reaped whole: its handler runs all of the clean-up and its writer returns,
\* so neither goroutine leaks and the room is released.
BrokenConnectionReaped ==
  \A p \in Peer :
    (pc[p] = "hubLeave" \/ conn[p] = "closed") ~> (pc[p] = "done" /\ writer[p] = "done")

\* A frame accepted for a connection is handed to its socket unless the
\* connection ends first.
AcceptedFramesFlushed ==
  \A p \in Peer : \A k \in 1..(2 * SendBuffer) :
    (Len(queue[p]) >= k) ~> (taken[p] >= k \/ writer[p] = "done")

-----------------------------------------------------------------------------
(* A claim of the repository that the code does not meet. *)

\* "the room ended signal must not fire while a counterpart is still present"
\* (hub_test.go): no end signal fires while a connection of that room serves.
EndSignalOnlyWhenVacant ==
  [][\A r \in Room : ends'[r] # ends[r] =>
       \A p \in Peer : RoomOf[p] = r => pc[p] # "serving"]_vars
=============================================================================
