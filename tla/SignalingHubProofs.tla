------------------------- MODULE SignalingHubProofs -------------------------
(***************************************************************************)
(* Proofs about SignalingHub, for any finite set of connections, any rooms *)
(* and roles, any buffer capacity and any number of frames.                *)
(***************************************************************************)
EXTENDS SignalingHub, FiniteSetTheorems, TLAPS

\* A handler that is publishing holds a frame, and holds the peer-ready of its
\* own Join if that is what it publishes.
PublishesFrame ==
  \A p \in Peer : pc[p] \in {"lookup", "deliver"} =>
    /\ outgoing[p] \in Frame
    /\ outgoing[p].type = "peer-ready" => outgoing[p] = ReadyFrame(p)

\* A channel is closed only by a handler that has already left the hub.
ClosedAfterLeave ==
  \A p \in Peer : closed[p] => ~Registered(p) /\ pc[p] # "new"

-----------------------------------------------------------------------------
(* The variables keep their types. *)

TypeInv == TypeOK /\ PublishesFrame

LEMMA ReadyFrameType == ASSUME NEW p \in Peer PROVE ReadyFrame(p) \in Frame
BY DEF ReadyFrame, Frame

LEMMA OtherFrameTypes ==
  ASSUME TypeOK, NEW p \in Peer, NEW claim \in Role
  PROVE  /\ ErrorFrame(p) \in Frame /\ ErrorFrame(p).type = "error"
         /\ ByeFrame(p) \in Frame /\ ByeFrame(p).type = "bye"
         /\ DataFrame(p, claim) \in Frame /\ DataFrame(p, claim).type = "data"
BY RoleOfAssumption DEF TypeOK, Frame, ErrorFrame, ByeFrame, DataFrame

\* Send keeps the types of the two variables it changes.
LEMMA SendType ==
  ASSUME TypeOK, NEW q \in Peer, NEW f \in Frame, Send(q, f)
  PROVE  queue' \in [Peer -> Seq(Frame)] /\ dropped' \in [Peer -> SUBSET Frame]
<1> USE DEF TypeOK
<1>1. CASE UNCHANGED sendVars
  BY <1>1 DEF sendVars
<1>2. CASE queue' = [queue EXCEPT ![q] = Append(@, f)] /\ UNCHANGED dropped
  <2>1. Append(queue[q], f) \in Seq(Frame)
    OBVIOUS
  <2> QED
    BY <1>2, <2>1
<1>3. CASE dropped' = [dropped EXCEPT ![q] = @ \cup {f}] /\ UNCHANGED queue
  BY <1>3
<1> QED
  BY <1>1, <1>2, <1>3 DEF Send

LEMMA TypeInit == Init => TypeInv
BY DEF Init, TypeInv, TypeOK, PublishesFrame, Label, Role

\* One step per action; the two conjuncts of TypeInv apart.
LEMMA TypeOKStep == ASSUME TypeInv, [Next]_vars PROVE TypeOK'
<1> USE RoomOfAssumption, RoleOfAssumption DEF TypeInv, Label
<1>1. ASSUME NEW p \in Peer, Register(p) PROVE TypeOK'
  BY <1>1 DEF TypeOK, Register, Goto, sendVars
<1>2. ASSUME NEW p \in Peer, PresenceJoin(p) PROVE TypeOK'
  <2>1. count' \in [Room -> [Role -> Nat]]
    BY <1>2 DEF PresenceJoin, Incremented, TypeOK
  <2>2. pc' \in [Peer -> Label] /\ writer' \in [Peer -> {"off", "run", "done"}]
    BY <1>2 DEF PresenceJoin, EnterReadPump, Goto, TypeOK
  <2> QED
    BY <1>2, <2>1, <2>2 DEF TypeOK, PresenceJoin, sendVars
<1>3. ASSUME NEW p \in Peer, ReadySelf(p) PROVE TypeOK'
  <2>1. queue' \in [Peer -> Seq(Frame)] /\ dropped' \in [Peer -> SUBSET Frame]
    BY <1>3, ReadyFrameType, SendType DEF ReadySelf
  <2> QED
    BY <1>3, <2>1, ReadyFrameType DEF TypeOK, ReadySelf, Goto
<1>4. ASSUME NEW p \in Peer, Lookup(p) PROVE TypeOK'
  BY <1>4 DEF TypeOK, Lookup, RecipientRole, opposite, Goto, sendVars, Role
<1>5. ASSUME NEW p \in Peer, Deliver(p) PROVE TypeOK'
  <2>1. queue' \in [Peer -> Seq(Frame)] /\ dropped' \in [Peer -> SUBSET Frame]
    BY <1>5, SendType DEF TypeOK, PublishesFrame, Deliver, sendVars
  <2>2. pc' \in [Peer -> Label] /\ writer' \in [Peer -> {"off", "run", "done"}]
    BY <1>5 DEF Deliver, AfterPublish, EnterReadPump, Goto, TypeOK
  <2> QED
    BY <1>5, <2>1, <2>2 DEF TypeOK, Deliver
<1>6. ASSUME NEW p \in Peer, HubLeave(p) PROVE TypeOK'
  <2>1. rooms' \in [Room -> [Role -> Peer \cup {None}]]
    BY <1>6 DEF HubLeave, OccupantAfterLeave, TypeOK
  <2> QED
    BY <1>6, <2>1 DEF TypeOK, HubLeave, Goto, sendVars
<1>7. ASSUME NEW p \in Peer, PresenceLeave(p) PROVE TypeOK'
  <2>1. count' \in [Room -> [Role -> Nat]]
    BY <1>7 DEF PresenceLeave, Decremented, TypeOK
  <2> QED
    BY <1>7, <2>1 DEF TypeOK, PresenceLeave, Goto, sendVars
<1>8. ASSUME NEW p \in Peer, RoomEnded(p) \/ CloseSend(p) PROVE TypeOK'
  <2>1. CASE RoomEnded(p)
    BY <2>1 DEF TypeOK, RoomEnded, Goto, sendVars
  <2>2. CASE CloseSend(p)
    BY <2>2 DEF TypeOK, CloseSend, Goto, sendVars
  <2> QED
    BY <1>8, <2>1, <2>2
<1>9. ASSUME NEW p \in Peer, ConnClose(p) PROVE TypeOK'
  <2>1. ByeFrame(p) \in Frame
    BY OtherFrameTypes DEF Role
  <2> QED
    BY <1>9, <2>1 DEF TypeOK, ConnClose, Goto, sendVars
<1>10. ASSUME NEW p \in Peer, WriterStep(p) \/ PingFails(p) PROVE TypeOK'
  <2>1. CASE WriteFrame(p)
    BY <2>1 DEF TypeOK, WriteFrame, handlerVars, sendVars
  <2>2. CASE WriteFails(p)
    BY <2>2 DEF TypeOK, WriteFails, WriterExit, handlerVars, sendVars
  <2>3. CASE WriteClose(p) \/ PingFails(p)
    BY <2>3 DEF TypeOK, WriteClose, PingFails, WriterExit, handlerVars, sendVars
  <2> QED
    BY <1>10, <2>1, <2>2, <2>3 DEF WriterStep
<1>11. ASSUME NEW p \in Peer, ReadEnvelope(p) PROVE TypeOK'
  <2>1. PICK claim \in Role : outgoing' = [outgoing EXCEPT ![p] = DataFrame(p, claim)]
    BY <1>11 DEF ReadEnvelope
  <2>2. DataFrame(p, claim) \in Frame
    BY OtherFrameTypes
  <2> QED
    BY <1>11, <2>1, <2>2 DEF TypeOK, ReadEnvelope, Goto, sendVars
<1>12. ASSUME NEW p \in Peer, ReadMalformed(p) PROVE TypeOK'
  <2>1. ErrorFrame(p) \in Frame
    BY OtherFrameTypes DEF Role
  <2>2. queue' \in [Peer -> Seq(Frame)] /\ dropped' \in [Peer -> SUBSET Frame]
    BY <1>12, <2>1, SendType DEF ReadMalformed
  <2>3. sent' \in [Peer -> Nat]
    BY <1>12 DEF TypeOK, ReadMalformed
  <2> QED
    BY <1>12, <2>2, <2>3 DEF TypeOK, ReadMalformed, handlerVars
<1>13. ASSUME NEW p \in Peer, ReadError(p) PROVE TypeOK'
  BY <1>13 DEF TypeOK, ReadError, Goto, sendVars
<1>14. CASE UNCHANGED vars
  BY <1>14 DEF TypeOK, vars
<1> QED
  BY <1>1, <1>2, <1>3, <1>4, <1>5, <1>6, <1>7, <1>8, <1>9, <1>10, <1>11, <1>12, <1>13, <1>14
  DEF Next, PeerStep, HandlerStep, ClientStep

\* Only ReadySelf, ReadEnvelope and ConnClose start a publication.
LEMMA PublishesFrameStep == ASSUME TypeInv, [Next]_vars PROVE PublishesFrame'
<1> SUFFICES ASSUME NEW q \in Peer, pc'[q] \in {"lookup", "deliver"}
             PROVE  /\ outgoing'[q] \in Frame
                    /\ outgoing'[q].type = "peer-ready" => outgoing'[q] = ReadyFrame(q)
  BY DEF PublishesFrame, ReadyFrame
<1> USE DEF TypeInv, TypeOK, PublishesFrame
<1>1. ASSUME NEW p \in Peer, ReadySelf(p) PROVE
        outgoing'[q] \in Frame /\ (outgoing'[q].type = "peer-ready" => outgoing'[q] = ReadyFrame(q))
  BY <1>1, ReadyFrameType DEF ReadySelf, Goto
<1>2. ASSUME NEW p \in Peer, ReadEnvelope(p) PROVE
        outgoing'[q] \in Frame /\ (outgoing'[q].type = "peer-ready" => outgoing'[q] = ReadyFrame(q))
  <2>1. PICK claim \in Role : outgoing' = [outgoing EXCEPT ![p] = DataFrame(p, claim)]
    BY <1>2 DEF ReadEnvelope
  <2>2. DataFrame(p, claim) \in Frame /\ DataFrame(p, claim).type # "peer-ready"
    BY OtherFrameTypes
  <2> QED
    BY <1>2, <2>1, <2>2 DEF ReadEnvelope, Goto
<1>3. ASSUME NEW p \in Peer, ConnClose(p) PROVE
        outgoing'[q] \in Frame /\ (outgoing'[q].type = "peer-ready" => outgoing'[q] = ReadyFrame(q))
  <2>1. ByeFrame(p) \in Frame /\ ByeFrame(p).type # "peer-ready"
    BY OtherFrameTypes DEF Role
  <2> QED
    BY <1>3, <2>1 DEF ConnClose, Goto
<1>4. ASSUME NEW p \in Peer, Deliver(p) PROVE outgoing'[q] = outgoing[q] /\ pc'[q] = pc[q]
  BY <1>4 DEF Deliver, AfterPublish, EnterReadPump, Goto
<1>5. ASSUME NEW p \in Peer,
             \/ Register(p) \/ PresenceJoin(p) \/ Lookup(p) \/ HubLeave(p) \/ PresenceLeave(p)
             \/ RoomEnded(p) \/ CloseSend(p) \/ ReadError(p)
      PROVE outgoing'[q] = outgoing[q] /\ pc[q] \in {"lookup", "deliver"}
  BY <1>5 DEF Register, PresenceJoin, EnterReadPump, Lookup, HubLeave, PresenceLeave, RoomEnded,
              CloseSend, ReadError, Goto
<1>6. ASSUME NEW p \in Peer, WriterStep(p) \/ PingFails(p) \/ ReadMalformed(p)
      PROVE outgoing'[q] = outgoing[q] /\ pc'[q] = pc[q]
  BY <1>6 DEF WriterStep, WriteFrame, WriteFails, WriteClose, PingFails, ReadMalformed, handlerVars
<1>7. CASE UNCHANGED vars
  BY <1>7 DEF vars
<1> QED
  BY <1>1, <1>2, <1>3, <1>4, <1>5, <1>6, <1>7 DEF Next, PeerStep, HandlerStep, ClientStep

LEMMA TypeStep == ASSUME TypeInv, [Next]_vars PROVE TypeInv'
BY TypeOKStep, PublishesFrameStep DEF TypeInv

\* Type correctness of the hub, its presence counters and its goroutines.
THEOREM TypeCorrect == Spec => []TypeOK
<1>1. TypeInv => TypeOK
  BY DEF TypeInv
<1> QED
  BY <1>1, TypeInit, TypeStep, PTL DEF Spec

-----------------------------------------------------------------------------
(* What a step of one connection leaves alone. *)

\* A step of p leaves the control state of every other connection alone.
LEMMA OthersUnchanged ==
  ASSUME TypeOK, NEW p \in Peer, NEW q \in Peer, p # q, PeerStep(p)
  PROVE  /\ pc'[q] = pc[q] /\ outgoing'[q] = outgoing[q] /\ target'[q] = target[q]
         /\ closed'[q] = closed[q]
<1> USE DEF TypeOK
<1>1. CASE Register(p) \/ PresenceJoin(p) \/ ReadySelf(p) \/ Lookup(p)
  BY <1>1 DEF Register, PresenceJoin, EnterReadPump, ReadySelf, Lookup, Goto
<1>2. CASE Deliver(p)
  BY <1>2 DEF Deliver, AfterPublish, EnterReadPump, Goto
<1>3. CASE HubLeave(p) \/ PresenceLeave(p) \/ RoomEnded(p) \/ CloseSend(p) \/ ConnClose(p)
  BY <1>3 DEF HubLeave, PresenceLeave, RoomEnded, CloseSend, ConnClose, Goto
<1>4. CASE WriterStep(p) \/ PingFails(p)
  BY <1>4 DEF WriterStep, WriteFrame, WriteFails, WriteClose, PingFails, handlerVars
<1>5. CASE ReadEnvelope(p) \/ ReadMalformed(p) \/ ReadError(p)
  BY <1>5 DEF ReadEnvelope, ReadMalformed, ReadError, Goto, handlerVars
<1> QED
  BY <1>1, <1>2, <1>3, <1>4, <1>5 DEF PeerStep, HandlerStep, ClientStep

\* Only presence.Join and presence.Leave change whether p is counted, and only
\* Hub.Join's and Hub.Leave's critical sections whether it is registered.
LEMMA OwnMembership ==
  ASSUME TypeInv, NEW p \in Peer, PeerStep(p)
  PROVE  /\ PresenceJoin(p) \/ PresenceLeave(p) \/ (count' = count /\ (Counted(p)' <=> Counted(p)))
         /\ Register(p) \/ HubLeave(p) \/ (rooms' = rooms /\ (Registered(p)' <=> Registered(p)))
<1> USE DEF TypeInv, TypeOK, Counted, Registered, Publishing
<1>1. CASE Register(p)
  BY <1>1 DEF Register, Goto
<1>2. CASE PresenceJoin(p)
  BY <1>2 DEF PresenceJoin, EnterReadPump, Goto
<1>3. CASE ReadySelf(p)
  <2>1. ReadyFrame(p).type # "bye"
    BY DEF ReadyFrame
  <2> QED
    BY <1>3, <2>1 DEF ReadySelf, Goto
<1>4. CASE Lookup(p)
  BY <1>4 DEF Lookup, Goto
<1>5. CASE Deliver(p)
  BY <1>5 DEF Deliver, AfterPublish, EnterReadPump, Goto
<1>6. CASE HubLeave(p) \/ PresenceLeave(p)
  BY <1>6 DEF HubLeave, PresenceLeave, Goto
<1>7. CASE RoomEnded(p) \/ CloseSend(p) \/ ReadError(p)
  BY <1>7 DEF RoomEnded, CloseSend, ReadError, Goto
<1>8. CASE ConnClose(p)
  <2>1. ByeFrame(p).type = "bye"
    BY DEF ByeFrame
  <2> QED
    BY <1>8, <2>1 DEF ConnClose, Goto
<1>9. CASE WriterStep(p) \/ PingFails(p) \/ ReadMalformed(p)
  BY <1>9 DEF WriterStep, WriteFrame, WriteFails, WriteClose, PingFails, ReadMalformed, handlerVars
<1>10. CASE ReadEnvelope(p)
  <2>1. PICK claim \in Role : outgoing' = [outgoing EXCEPT ![p] = DataFrame(p, claim)]
    BY <1>10 DEF ReadEnvelope
  <2>2. DataFrame(p, claim).type # "bye"
    BY DEF DataFrame
  <2> QED
    BY <1>10, <2>1, <2>2 DEF ReadEnvelope, Goto
<1> QED
  BY <1>1, <1>2, <1>3, <1>4, <1>5, <1>6, <1>7, <1>8, <1>9, <1>10
  DEF PeerStep, HandlerStep, ClientStep

\* The same for a connection that does not move.
LEMMA OthersMembership ==
  ASSUME TypeOK, NEW p \in Peer, NEW q \in Peer, p # q, PeerStep(p)
  PROVE  (Counted(q)' <=> Counted(q)) /\ (Registered(q)' <=> Registered(q))
BY OthersUnchanged DEF Counted, Registered, Publishing

-----------------------------------------------------------------------------
(* The hub's map of occupants. *)

OccupantInv == ClosedAfterLeave /\ OccupantValid

LEMMA OccupantInit == Init => OccupantInv
BY DEF Init, OccupantInv, ClosedAfterLeave, OccupantValid, Role

LEMMA ClosedStep == ASSUME TypeInv, ClosedAfterLeave, [Next]_vars PROVE ClosedAfterLeave'
<1>1. CASE UNCHANGED vars
  BY <1>1 DEF vars, ClosedAfterLeave, Registered, Publishing
<1>2. ASSUME NEW p \in Peer, PeerStep(p), NEW q \in Peer, closed'[q]
      PROVE  (~Registered(q))' /\ pc'[q] # "new"
  <2>1. CASE p # q
    BY <1>2, <2>1, OthersUnchanged, OthersMembership DEF ClosedAfterLeave, TypeInv
  <2>2. CASE p = q
    <3>1. CASE CloseSend(p)
      BY <2>2, <3>1 DEF CloseSend, Goto, Registered, Publishing, TypeInv, TypeOK
    <3>2. CASE ~CloseSend(p)
      <4>1. closed'[q] = closed[q]
        BY <1>2, <2>2, <3>2 DEF PeerStep, HandlerStep, ClientStep, WriterStep, Register, PresenceJoin,
           ReadySelf, Lookup, Deliver, HubLeave, PresenceLeave, RoomEnded, ConnClose, WriteFrame,
           WriteFails, WriteClose, PingFails, ReadEnvelope, ReadMalformed, ReadError
      <4>2. closed[q] /\ ~Registered(q) /\ pc[q] # "new"
        BY <1>2, <4>1 DEF ClosedAfterLeave
      <4>3. ~Register(p)
        BY <2>2, <4>2 DEF Register
      <4>4. ~HubLeave(p)
        BY <2>2, <4>2 DEF HubLeave, Registered
      <4>5. (~Registered(q))'
        BY <1>2, <2>2, <4>2, <4>3, <4>4, OwnMembership
      <4>6. pc'[q] # "new"
        BY <1>2, <2>2, <4>2 DEF PeerStep, HandlerStep, ClientStep, WriterStep, Register, PresenceJoin,
           ReadySelf, Lookup, Deliver, AfterPublish, EnterReadPump, HubLeave, PresenceLeave, RoomEnded,
           CloseSend, ConnClose, WriteFrame, WriteFails, WriteClose, PingFails, ReadEnvelope,
           ReadMalformed, ReadError, Goto, handlerVars, TypeInv, TypeOK
      <4> QED
        BY <4>5, <4>6
    <3> QED
      BY <3>1, <3>2
  <2> QED
    BY <2>1, <2>2
<1> QED
  BY <1>1, <1>2 DEF Next, ClosedAfterLeave

LEMMA OccupantStep == ASSUME TypeInv, OccupantInv, [Next]_vars PROVE OccupantInv'
<1>1. ClosedAfterLeave'
  BY ClosedStep DEF OccupantInv
<1>2. CASE UNCHANGED vars
  BY <1>1, <1>2 DEF vars, OccupantInv, OccupantValid, Registered, Publishing
<1>3. ASSUME NEW p \in Peer, PeerStep(p), NEW r \in Room, NEW role \in Role,
             NEW q \in Peer, rooms'[r][role] = q
      PROVE  RoomOf[q] = r /\ RoleOf[q] = role /\ Registered(q)' /\ ~closed'[q]
  <2> USE PeerAssumption
  <2>1. CASE q = p /\ Register(p)
    <3>1. Registered(p)'
      <4>1. pc'[p] = "presence"
        BY <2>1 DEF Register, Goto, TypeInv, TypeOK
      <4> QED
        BY <4>1 DEF Registered
    <3>2. RoomOf[p] = r /\ RoleOf[p] = role
      <4>1. rooms'[r][role] = IF r = RoomOf[p] /\ role = RoleOf[p] THEN p ELSE rooms[r][role]
        BY <2>1, RoomOfAssumption, RoleOfAssumption DEF Register, TypeInv, TypeOK
      <4>2. rooms[r][role] = p => Registered(p)
        BY PeerAssumption DEF OccupantInv, OccupantValid
      <4>3. ~Registered(p)
        BY <2>1 DEF Register, Registered, Publishing
      <4> QED
        BY <1>3, <2>1, <4>1, <4>2, <4>3
    <3> QED
      BY <1>1, <2>1, <3>1, <3>2 DEF ClosedAfterLeave
  <2>2. CASE ~(q = p /\ Register(p))
    <3>1. q = rooms[r][role] /\ ~(q = p /\ HubLeave(p))
      <4>1. CASE Register(p)
        <5>1. rooms'[r][role] = IF r = RoomOf[p] /\ role = RoleOf[p] THEN p ELSE rooms[r][role]
          BY <4>1, RoomOfAssumption, RoleOfAssumption DEF Register, TypeInv, TypeOK
        <5> QED
          BY <1>3, <2>2, <4>1, <5>1 DEF Register, HubLeave
      <4>2. CASE HubLeave(p)
        <5>1. rooms'[r][role] = IF r = RoomOf[p] /\ role = RoleOf[p] /\ rooms[r][role] = p
                                THEN None ELSE rooms[r][role]
          BY <4>2, RoomOfAssumption, RoleOfAssumption
          DEF HubLeave, OccupantAfterLeave, TypeInv, TypeOK
        <5>2. rooms[r][role] = p => r = RoomOf[p] /\ role = RoleOf[p]
          BY PeerAssumption DEF OccupantInv, OccupantValid
        <5> QED
          BY <1>3, <5>1, <5>2
      <4>3. CASE ~Register(p) /\ ~HubLeave(p)
        BY <1>3, <4>3, OwnMembership
      <4> QED
        BY <4>1, <4>2, <4>3
    <3>2. q \in Peer /\ RoomOf[q] = r /\ RoleOf[q] = role /\ Registered(q)
      BY <1>3, <3>1 DEF OccupantInv, OccupantValid, TypeInv, TypeOK
    <3>3. Registered(q)'
      <4>1. CASE q = p
        BY <1>3, <2>2, <3>1, <3>2, <4>1, OwnMembership
      <4>2. CASE q # p
        BY <1>3, <3>2, <4>2, OthersMembership DEF TypeInv
      <4> QED
        BY <4>1, <4>2
    <3> QED
      BY <1>1, <3>2, <3>3 DEF ClosedAfterLeave
  <2> QED
    BY <2>1, <2>2
<1>4. rooms' \in [Room -> [Role -> Peer \cup {None}]]
  BY TypeStep DEF TypeInv, TypeOK
<1>5. ASSUME NEW p \in Peer, PeerStep(p) PROVE OccupantValid'
  BY <1>3, <1>4, <1>5 DEF OccupantValid
<1> QED
  BY <1>1, <1>2, <1>5 DEF Next, OccupantInv

\* Hub.rooms only ever points at connections that are in the room, in that
\* role, and have not left; their send channels are open.
THEOREM OccupantsAreValid == Spec => []OccupantValid
<1>1. TypeInv /\ OccupantInv => OccupantValid
  BY DEF OccupantInv
<1> QED
  BY <1>1, TypeInit, TypeStep, OccupantInit, OccupantStep, PTL DEF Spec

-----------------------------------------------------------------------------
(* The presence counters are exact. *)

LEMMA CountedFinite ==
  ASSUME NEW r, NEW role
  PROVE  IsFiniteSet(CountedIn(r, role)) /\ Cardinality(CountedIn(r, role)) \in Nat
BY PeerAssumption, FS_Subset, FS_CardinalityType DEF CountedIn

LEMMA PresenceInit == Init => PresenceCounts
<1> SUFFICES ASSUME Init, NEW r \in Room, NEW role \in Role
             PROVE  count[r][role] = Cardinality(CountedIn(r, role))
  BY DEF PresenceCounts
<1>1. CountedIn(r, role) = {}
  BY DEF Init, CountedIn, Counted, Publishing
<1> QED
  BY <1>1, FS_EmptySet DEF Init

\* p's step leaves every counted set but its own role's in its own room alone.
LEMMA CountedInOthers ==
  ASSUME TypeOK, NEW p \in Peer, PeerStep(p), NEW r \in Room, NEW role \in Role,
         r # RoomOf[p] \/ role # RoleOf[p]
  PROVE  CountedIn(r, role)' = CountedIn(r, role)
<1>1. ASSUME NEW q \in Peer PROVE
        (RoomOf[q] = r /\ RoleOf[q] = role /\ Counted(q)') <=> (RoomOf[q] = r /\ RoleOf[q] = role /\ Counted(q))
  BY OthersMembership
<1> QED
  BY <1>1 DEF CountedIn

\* presence.Join adds exactly p to the counted connections of its role.
LEMMA JoinCounts ==
  ASSUME TypeInv, NEW p \in Peer, PresenceJoin(p)
  PROVE  /\ p \notin CountedIn(RoomOf[p], RoleOf[p])
         /\ CountedIn(RoomOf[p], RoleOf[p])' = CountedIn(RoomOf[p], RoleOf[p]) \cup {p}
<1>1. ~Counted(p)
  BY DEF PresenceJoin, Counted, Publishing
<1>2. Counted(p)'
  <2>1. pc'[p] \in {"readySelf", "serving"}
    BY DEF PresenceJoin, EnterReadPump, Goto, TypeInv, TypeOK
  <2> QED
    BY <2>1 DEF Counted
<1>3. ASSUME NEW q \in Peer, q # p PROVE Counted(q)' <=> Counted(q)
  BY <1>3, OthersMembership DEF TypeInv, PeerStep, HandlerStep
<1> QED
  BY <1>1, <1>2, <1>3 DEF CountedIn

\* presence.Leave removes exactly p.
LEMMA LeaveUncounts ==
  ASSUME TypeInv, NEW p \in Peer, PresenceLeave(p)
  PROVE  /\ p \in CountedIn(RoomOf[p], RoleOf[p])
         /\ CountedIn(RoomOf[p], RoleOf[p])' = CountedIn(RoomOf[p], RoleOf[p]) \ {p}
<1>1. Counted(p)
  BY DEF PresenceLeave, Counted
<1>2. ~Counted(p)'
  <2>1. pc'[p] \in {"callback", "closeSend"}
    BY DEF PresenceLeave, Goto, TypeInv, TypeOK
  <2> QED
    BY <2>1 DEF Counted, Publishing
<1>3. ASSUME NEW q \in Peer, q # p PROVE Counted(q)' <=> Counted(q)
  BY <1>3, OthersMembership DEF TypeInv, PeerStep, HandlerStep
<1> QED
  BY <1>1, <1>2, <1>3 DEF CountedIn

LEMMA PresenceStep ==
  ASSUME TypeInv, PresenceCounts, [Next]_vars PROVE PresenceCounts'
<1>1. CASE UNCHANGED vars
  BY <1>1 DEF vars, PresenceCounts, CountedIn, Counted, Publishing
<1>2. ASSUME NEW p \in Peer, PeerStep(p), NEW r \in Room, NEW role \in Role
      PROVE  count'[r][role] = Cardinality(CountedIn(r, role)')
  <2>1. count[r][role] = Cardinality(CountedIn(r, role))
    BY DEF PresenceCounts
  <2> USE RoomOfAssumption, RoleOfAssumption
  <2>2. CASE r # RoomOf[p] \/ role # RoleOf[p]
    <3>1. count'[r][role] = count[r][role]
      <4>1. CASE PresenceJoin(p)
        BY <2>2, <4>1 DEF PresenceJoin, TypeInv, TypeOK
      <4>2. CASE PresenceLeave(p)
        BY <2>2, <4>2 DEF PresenceLeave, TypeInv, TypeOK
      <4> QED
        BY <1>2, <4>1, <4>2, OwnMembership
    <3> QED
      BY <1>2, <2>1, <2>2, <3>1, CountedInOthers DEF TypeInv
  <2>3. CASE r = RoomOf[p] /\ role = RoleOf[p]
    <3>1. CASE PresenceJoin(p)
      <4>1. count'[r][role] = count[r][role] + 1
        BY <2>3, <3>1 DEF PresenceJoin, Incremented, TypeInv, TypeOK
      <4>2. Cardinality(CountedIn(r, role) \cup {p}) = Cardinality(CountedIn(r, role)) + 1
        BY <2>3, <3>1, JoinCounts, CountedFinite, FS_AddElement
      <4> QED
        BY <2>1, <2>3, <3>1, <4>1, <4>2, JoinCounts
    <3>2. CASE PresenceLeave(p)
      <4>1. Cardinality(CountedIn(r, role) \ {p}) = Cardinality(CountedIn(r, role)) - 1
        BY <2>3, <3>2, LeaveUncounts, CountedFinite, FS_RemoveElement
      <4>2. count[r][role] > 0
        BY <2>1, <2>3, <3>2, LeaveUncounts, CountedFinite, FS_EmptySet
      <4>3. count'[r][role] = count[r][role] - 1
        BY <2>3, <3>2, <4>2 DEF PresenceLeave, Decremented, TypeInv, TypeOK
      <4> QED
        BY <2>1, <2>3, <3>2, <4>1, <4>3, LeaveUncounts
    <3>3. CASE count' = count /\ (Counted(p)' <=> Counted(p))
      <4>1. ASSUME NEW q \in Peer PROVE Counted(q)' <=> Counted(q)
        BY <1>2, <3>3, OthersMembership DEF TypeInv
      <4>2. CountedIn(r, role)' = CountedIn(r, role)
        BY <4>1 DEF CountedIn
      <4> QED
        BY <2>1, <3>3, <4>2
    <3> QED
      BY <1>2, <3>1, <3>2, <3>3, OwnMembership
  <2> QED
    BY <2>2, <2>3
<1> QED
  BY <1>1, <1>2 DEF Next, PresenceCounts

\* LocalPresence is exact for any number of overlapping connections.
THEOREM PresenceIsExact == Spec => []PresenceCounts
BY TypeInit, TypeStep, PresenceInit, PresenceStep, PTL DEF Spec

-----------------------------------------------------------------------------
(* Both occupants of a room learn that the room is ready. *)

\* j's Join has sent peer-ready to j and to o, or is about to.
ReadyOwed(j, o) ==
  \/ pc[j] = "readySelf"
  \/ /\ Notified(j, j)
     /\ \/ pc[j] = "lookup" /\ outgoing[j] = ReadyFrame(j)
        \/ pc[j] = "deliver" /\ outgoing[j] = ReadyFrame(j) /\ target[j] = o
        \/ Notified(o, j)

\* a and b are the occupants of the two roles of a room and both are counted.
Paired(a, b) ==
  /\ RoomOf[a] = RoomOf[b] /\ RoleOf[a] = "agent" /\ RoleOf[b] = "phone"
  /\ rooms[RoomOf[a]]["agent"] = a /\ rooms[RoomOf[a]]["phone"] = b
  /\ Counted(a) /\ Counted(b)

\* PairedPeersNotified is not inductive: between presence.Join and the delivery
\* a notification is only owed.  Whichever of the two was counted second saw
\* the other, and the other was registered before it was counted, so that
\* deliverLocal finds it.
ReadyInv == \A a, b \in Peer : Paired(a, b) => ReadyOwed(a, b) \/ ReadyOwed(b, a)

\* Frames are only ever added to what a connection was sent.
LEMMA SendNotifies ==
  ASSUME TypeOK, NEW q \in Peer, NEW f \in Frame, Send(q, f)
  PROVE  /\ \A u, j \in Peer : Notified(u, j) => Notified(u, j)'
         /\ \A j \in Peer : f = ReadyFrame(j) /\ ~closed[q] => Notified(q, j)'
<1> USE DEF TypeOK, Notified, ReadyFrame
<1>1. CASE closed[q] /\ UNCHANGED sendVars
  BY <1>1 DEF sendVars
<1>2. CASE queue' = [queue EXCEPT ![q] = Append(@, f)] /\ UNCHANGED dropped
  <2>1. ASSUME NEW u \in Peer, NEW j \in Peer, Notified(u, j) PROVE Notified(u, j)'
    <3>1. CASE u = q
      <4>1. /\ Len(queue'[q]) = Len(queue[q]) + 1
            /\ \A k \in 1..Len(queue[q]) : queue'[q][k] = queue[q][k]
            /\ Len(queue[q]) \in Nat
        BY <1>2
      <4> QED
        BY <1>2, <2>1, <3>1, <4>1
    <3>2. CASE u # q
      BY <1>2, <2>1, <3>2
    <3> QED
      BY <3>1, <3>2
  <2>2. /\ queue'[q][Len(queue[q]) + 1] = f
        /\ Len(queue[q]) + 1 \in 1..Len(queue'[q])
    BY <1>2
  <2> QED
    BY <2>1, <2>2
<1>3. CASE dropped' = [dropped EXCEPT ![q] = @ \cup {f}] /\ UNCHANGED queue
  BY <1>3
<1> QED
  BY <1>1, <1>2, <1>3 DEF Send, Refused

LEMMA NotifiedStable ==
  ASSUME TypeInv, NEW p \in Peer, PeerStep(p), NEW u \in Peer, NEW j \in Peer, Notified(u, j)
  PROVE  Notified(u, j)'
<1>1. CASE ReadySelf(p)
  BY <1>1, ReadyFrameType, SendNotifies DEF ReadySelf, TypeInv
<1>2. CASE Deliver(p)
  <2>1. CASE UNCHANGED sendVars
    BY <2>1 DEF sendVars, Notified, ReadyFrame
  <2>2. CASE target[p] # None /\ Send(target[p], outgoing[p])
    BY <1>2, <2>2, SendNotifies DEF Deliver, TypeInv, TypeOK, PublishesFrame
  <2> QED
    BY <1>2, <2>1, <2>2 DEF Deliver
<1>3. CASE ReadMalformed(p)
  BY <1>3, OtherFrameTypes, SendNotifies DEF ReadMalformed, TypeInv, Role
<1>4. CASE UNCHANGED sendVars
  BY <1>4 DEF sendVars, Notified, ReadyFrame
<1> QED
  BY <1>1, <1>2, <1>3, <1>4
  DEF PeerStep, HandlerStep, ClientStep, WriterStep, Register, PresenceJoin, Lookup, HubLeave,
      PresenceLeave, RoomEnded, CloseSend, ConnClose, WriteFrame, WriteFails, WriteClose,
      PingFails, ReadEnvelope, ReadError

\* An owed notification stays owed or is delivered, while both stay.
LEMMA ReadyOwedStep ==
  ASSUME TypeInv, OccupantInv, NEW p \in Peer, PeerStep(p), NEW j \in Peer, NEW o \in Peer,
         ReadyOwed(j, o), RoomOf[j] = RoomOf[o], RoleOf[o] = opposite(RoleOf[j]),
         rooms[RoomOf[j]][RoleOf[j]] = j, rooms[RoomOf[o]][RoleOf[o]] = o
  PROVE  ReadyOwed(j, o)'
<1> USE RoomOfAssumption, RoleOfAssumption, PeerAssumption
<1>0. Notified(j, j) => Notified(j, j)'
  BY NotifiedStable
<1>00. Notified(o, j) => Notified(o, j)'
  BY NotifiedStable
<1>1. CASE p # j
  <2>1. pc'[j] = pc[j] /\ outgoing'[j] = outgoing[j] /\ target'[j] = target[j]
    BY <1>1, OthersUnchanged DEF TypeInv
  <2> QED
    BY <1>0, <1>00, <2>1 DEF ReadyOwed, ReadyFrame
<1>2. CASE p = j /\ pc[j] = "readySelf"
  <2>1. ReadySelf(j) \/ WriterStep(j) \/ PingFails(j)
    BY <1>2 DEF PeerStep, HandlerStep, ClientStep, Register, PresenceJoin, Lookup, Deliver,
       HubLeave, PresenceLeave, RoomEnded, CloseSend, ConnClose, ReadEnvelope, ReadMalformed,
       ReadError
  <2>2. CASE ReadySelf(j)
    <3>1. ~closed[j]
      BY DEF OccupantInv, OccupantValid
    <3>2. Notified(j, j)'
      BY <2>2, <3>1, ReadyFrameType, SendNotifies DEF ReadySelf, TypeInv
    <3>3. pc'[j] = "lookup" /\ outgoing'[j] = ReadyFrame(j)
      BY <2>2 DEF ReadySelf, Goto, TypeInv, TypeOK
    <3> QED
      BY <3>2, <3>3 DEF ReadyOwed, ReadyFrame
  <2>3. CASE WriterStep(j) \/ PingFails(j)
    BY <1>2, <2>3 DEF WriterStep, WriteFrame, WriteFails, WriteClose, PingFails, handlerVars, ReadyOwed
  <2> QED
    BY <2>1, <2>2, <2>3
<1>3. CASE p = j /\ pc[j] = "lookup" /\ outgoing[j] = ReadyFrame(j) /\ Notified(j, j)
  <2>1. Lookup(j) \/ WriterStep(j) \/ PingFails(j)
    BY <1>3 DEF PeerStep, HandlerStep, ClientStep, Register, PresenceJoin, ReadySelf, Deliver,
       HubLeave, PresenceLeave, RoomEnded, CloseSend, ConnClose, ReadEnvelope, ReadMalformed,
       ReadError
  <2>2. CASE Lookup(j)
    <3>1. pc'[j] = "deliver" /\ outgoing'[j] = ReadyFrame(j) /\ target'[j] = o
      BY <1>3, <2>2 DEF Lookup, RecipientRole, Goto, TypeInv, TypeOK
    <3> QED
      BY <1>0, <1>3, <3>1 DEF ReadyOwed, ReadyFrame
  <2>3. CASE WriterStep(j) \/ PingFails(j)
    BY <1>0, <1>3, <2>3
    DEF WriterStep, WriteFrame, WriteFails, WriteClose, PingFails, handlerVars, ReadyOwed, ReadyFrame
  <2> QED
    BY <2>1, <2>2, <2>3
<1>4. CASE /\ p = j /\ pc[j] = "deliver" /\ outgoing[j] = ReadyFrame(j) /\ target[j] = o
           /\ Notified(j, j)
  <2>1. Deliver(j) \/ WriterStep(j) \/ PingFails(j)
    BY <1>4 DEF PeerStep, HandlerStep, ClientStep, Register, PresenceJoin, ReadySelf, Lookup,
       HubLeave, PresenceLeave, RoomEnded, CloseSend, ConnClose, ReadEnvelope, ReadMalformed,
       ReadError
  <2>2. CASE Deliver(j)
    <3>1. ~closed[o]
      BY DEF OccupantInv, OccupantValid
    <3>2. Send(o, ReadyFrame(j))
      BY <1>4, <2>2 DEF Deliver
    <3>3. Notified(o, j)'
      BY <3>1, <3>2, ReadyFrameType, SendNotifies DEF TypeInv
    <3> QED
      BY <1>0, <1>4, <3>3 DEF ReadyOwed
  <2>3. CASE WriterStep(j) \/ PingFails(j)
    BY <1>0, <1>4, <2>3
    DEF WriterStep, WriteFrame, WriteFails, WriteClose, PingFails, handlerVars, ReadyOwed, ReadyFrame
  <2> QED
    BY <2>1, <2>2, <2>3
<1>5. CASE Notified(j, j) /\ Notified(o, j)
  BY <1>0, <1>00, <1>5 DEF ReadyOwed
<1> QED
  BY <1>1, <1>2, <1>3, <1>4, <1>5 DEF ReadyOwed

\* The second of a pair to be counted sees the first.
LEMMA SecondSeesFirst ==
  ASSUME TypeInv, PresenceCounts, NEW j \in Peer, NEW o \in Peer, PresenceJoin(j), Counted(o),
         RoomOf[j] = RoomOf[o], RoleOf[o] = opposite(RoleOf[j])
  PROVE  pc'[j] = "readySelf"
<1> USE RoomOfAssumption, RoleOfAssumption
<1>1. o \in CountedIn(RoomOf[j], opposite(RoleOf[j]))
  BY DEF CountedIn
<1>2. Cardinality(CountedIn(RoomOf[j], opposite(RoleOf[j]))) > 0
  BY <1>1, CountedFinite, FS_EmptySet
<1>3. count[RoomOf[j]][opposite(RoleOf[j])] > 0
  BY <1>2 DEF PresenceCounts
<1>4. count[RoomOf[j]][opposite(RoleOf[j])] # 0
  BY <1>3 DEF TypeInv, TypeOK
<1> QED
  BY <1>4 DEF PresenceJoin, Goto, TypeInv, TypeOK

\* A pair is only ever formed by the second presence.Join.
LEMMA PairFormed ==
  ASSUME TypeInv, NEW p \in Peer, PeerStep(p), NEW a \in Peer, NEW b \in Peer, Paired(a, b)'
  PROVE  \/ Paired(a, b)
         \/ PresenceJoin(a) /\ p = a /\ Counted(b)
         \/ PresenceJoin(b) /\ p = b /\ Counted(a)
<1> USE RoomOfAssumption, RoleOfAssumption
<1>1. ASSUME NEW q \in Peer, Counted(q)', ~Counted(q) PROVE PresenceJoin(q) /\ p = q
  <2>1. p = q
    BY <1>1, OthersMembership DEF TypeInv
  <2>2. ~PresenceLeave(p)
    BY <1>1, <2>1 DEF PresenceLeave, Counted
  <2> QED
    BY <1>1, <2>1, <2>2, OwnMembership
<1>2. ASSUME NEW q \in Peer, Counted(q)', rooms'[RoomOf[q]][RoleOf[q]] = q
      PROVE  rooms[RoomOf[q]][RoleOf[q]] = q
  <2>1. CASE Register(p)
    <3>1. p # q
      <4>1. pc'[p] = "presence"
        BY <2>1 DEF Register, Goto, TypeInv, TypeOK
      <4> QED
        BY <1>2, <4>1 DEF Counted, Publishing
    <3> QED
      BY <1>2, <2>1, <3>1 DEF Register, TypeInv, TypeOK
  <2>2. CASE HubLeave(p)
    <3>1. \/ rooms'[RoomOf[q]][RoleOf[q]] = rooms[RoomOf[q]][RoleOf[q]]
          \/ rooms'[RoomOf[q]][RoleOf[q]] = None
      BY <2>2 DEF HubLeave, OccupantAfterLeave, TypeInv, TypeOK
    <3> QED
      BY <1>2, <3>1, PeerAssumption
  <2> QED
    BY <1>2, <2>1, <2>2, OwnMembership
<1>3. Counted(a)' /\ Counted(b)' /\ RoomOf[a] = RoomOf[b] /\ RoleOf[a] = "agent" /\ RoleOf[b] = "phone"
      /\ rooms'[RoomOf[a]]["agent"] = a /\ rooms'[RoomOf[a]]["phone"] = b
  BY DEF Paired
<1>4. rooms[RoomOf[a]]["agent"] = a /\ rooms[RoomOf[a]]["phone"] = b
  BY <1>2, <1>3
<1> QED
  BY <1>1, <1>3, <1>4 DEF Paired

LEMMA ReadyInit == Init => ReadyInv
BY DEF Init, ReadyInv, Paired, Counted, Publishing

LEMMA ReadyStep ==
  ASSUME TypeInv, OccupantInv, PresenceCounts, ReadyInv, [Next]_vars PROVE ReadyInv'
<1>1. CASE UNCHANGED vars
  <2>1. ASSUME NEW a \in Peer, NEW b \in Peer
        PROVE  (Notified(a, b)' <=> Notified(a, b)) /\ (Paired(a, b)' <=> Paired(a, b))
    BY <1>1 DEF vars, Notified, ReadyFrame, Paired, Counted, Publishing
  <2>2. ASSUME NEW a \in Peer, NEW b \in Peer, ReadyOwed(a, b) PROVE ReadyOwed(a, b)'
    BY <1>1, <2>1, <2>2 DEF vars, ReadyOwed, ReadyFrame
  <2> QED
    BY <2>1, <2>2 DEF ReadyInv
<1>2. ASSUME NEW p \in Peer, PeerStep(p), NEW a \in Peer, NEW b \in Peer, Paired(a, b)'
      PROVE  (ReadyOwed(a, b) \/ ReadyOwed(b, a))'
  <2>0. RoomOf[a] = RoomOf[b] /\ RoleOf[a] = "agent" /\ RoleOf[b] = "phone"
        /\ RoleOf[b] = opposite(RoleOf[a]) /\ RoleOf[a] = opposite(RoleOf[b])
    BY <1>2 DEF Paired, opposite
  <2>1. CASE Paired(a, b)
    <3>1. ReadyOwed(a, b) \/ ReadyOwed(b, a)
      BY <2>1 DEF ReadyInv
    <3>2. rooms[RoomOf[a]][RoleOf[a]] = a /\ rooms[RoomOf[b]][RoleOf[b]] = b
      BY <2>0, <2>1 DEF Paired
    <3> QED
      BY <1>2, <2>0, <3>1, <3>2, ReadyOwedStep
  <2>2. CASE PresenceJoin(a) /\ Counted(b)
    BY <2>0, <2>2, SecondSeesFirst DEF ReadyOwed
  <2>3. CASE PresenceJoin(b) /\ Counted(a)
    BY <2>0, <2>3, SecondSeesFirst DEF ReadyOwed
  <2> QED
    BY <1>2, <2>1, <2>2, <2>3, PairFormed
<1> QED
  BY <1>1, <1>2 DEF Next, ReadyInv

\* For any interleaving of joins, reconnects and leaves, both current
\* occupants of a room were sent peer-ready by the same Join.
THEOREM PairedPeersAreNotified == Spec => []PairedPeersNotified
<1>1. ASSUME TypeInv, OccupantInv, ReadyInv PROVE PairedPeersNotified
  <2> SUFFICES ASSUME NEW r \in Room, NEW a \in Peer, NEW b \in Peer,
                      a = rooms[r]["agent"], b = rooms[r]["phone"],
                      pc[a] = "serving", pc[b] = "serving"
               PROVE  \E j \in {a, b} : Notified(a, j) /\ Notified(b, j)
    BY <1>1 DEF PairedPeersNotified, TypeInv, TypeOK, Role
  <2>1. RoomOf[a] = r /\ RoleOf[a] = "agent" /\ RoomOf[b] = r /\ RoleOf[b] = "phone"
    BY <1>1, PeerAssumption DEF OccupantInv, OccupantValid, Role
  <2>2. Paired(a, b)
    BY <2>1 DEF Paired, Counted
  <2> QED
    BY <1>1, <2>2 DEF ReadyInv, ReadyOwed
<1> QED
  BY <1>1, TypeInit, TypeStep, OccupantInit, OccupantStep, PresenceInit, PresenceStep,
     ReadyInit, ReadyStep, PTL DEF Spec

-----------------------------------------------------------------------------
(* The counters implement exact membership. *)

\* Abstract membership of a room is empty exactly when both counts are zero.
LEMMA EmptyMeansLast ==
  ASSUME TypeInv, PresenceCounts, NEW p \in Peer, PresenceLeave(p)
  PROVE  pc'[p] = "callback" <=> \A q \in Peer : Counted(q) /\ RoomOf[q] = RoomOf[p] => q = p
<1> USE RoomOfAssumption, RoleOfAssumption
<1> DEFINE own == CountedIn(RoomOf[p], RoleOf[p])
           other == CountedIn(RoomOf[p], opposite(RoleOf[p]))
<1>1. opposite(RoleOf[p]) \in Role /\ opposite(RoleOf[p]) # RoleOf[p]
      /\ \A x \in Role : x = RoleOf[p] \/ x = opposite(RoleOf[p])
  BY DEF opposite, Role
<1>2. /\ count[RoomOf[p]][RoleOf[p]] = Cardinality(own)
      /\ count[RoomOf[p]][opposite(RoleOf[p])] = Cardinality(other)
  BY <1>1 DEF PresenceCounts
<1>3. IsFiniteSet(own) /\ IsFiniteSet(other) /\ Cardinality(own) \in Nat /\ p \in own
  BY CountedFinite, LeaveUncounts
<1>4. Cardinality(own) > 0
  BY <1>3, FS_EmptySet
<1>5. Cardinality(own) = 1 <=> own = {p}
  BY <1>3, FS_Singleton
<1>6. Cardinality(other) = 0 <=> other = {}
  BY <1>3, FS_EmptySet
<1>7. pc'[p] = "callback" <=> Cardinality(own) = 1 /\ Cardinality(other) = 0
  BY <1>2, <1>3, <1>4 DEF PresenceLeave, Decremented, Empty, Goto, TypeInv, TypeOK
<1>8. own = {p} /\ other = {} <=> \A q \in Peer : Counted(q) /\ RoomOf[q] = RoomOf[p] => q = p
  BY <1>1, <1>3 DEF CountedIn
<1> QED
  BY <1>5, <1>6, <1>7, <1>8

\* The abstract state the refinement mapping computes.
Present == {p \in Peer : Counted(p)}
Emptied == [r \in Room |-> ends[r] + Cardinality(Owing(r))]

LEMMA OwingFinite ==
  ASSUME NEW r PROVE IsFiniteSet(Owing(r)) /\ Cardinality(Owing(r)) \in Nat
BY PeerAssumption, FS_Subset, FS_CardinalityType DEF Owing

\* p's step changes which callbacks a room owes by p alone.
LEMMA OwingOthers ==
  ASSUME TypeOK, NEW p \in Peer, PeerStep(p), NEW r \in Room
  PROVE  /\ (pc'[p] = "callback" <=> pc[p] = "callback") \/ RoomOf[p] # r => Owing(r)' = Owing(r)
         /\ pc'[p] = "callback" /\ RoomOf[p] = r => Owing(r)' = Owing(r) \cup {p}
         /\ pc'[p] # "callback" /\ RoomOf[p] = r => Owing(r)' = Owing(r) \ {p}
<1>1. \A q \in Peer : q # p => pc'[q] = pc[q]
  BY OthersUnchanged
<1> QED
  BY <1>1 DEF Owing

\* Steps other than presence.Join and presence.Leave owe what was owed: the
\* callback moves from owed to fired.
LEMMA EmptiedKept ==
  ASSUME TypeInv, NEW p \in Peer, PeerStep(p), ~PresenceJoin(p), ~PresenceLeave(p)
  PROVE  Emptied' = Emptied
<1> USE RoomOfAssumption
<1>1. CASE RoomEnded(p)
  <2>1. pc[p] = "callback" /\ pc'[p] = "closeSend"
    BY <1>1 DEF RoomEnded, Goto, TypeInv, TypeOK
  <2>2. ASSUME NEW r \in Room
        PROVE  ends'[r] + Cardinality(Owing(r)') = ends[r] + Cardinality(Owing(r))
    <3>1. CASE r # RoomOf[p]
      BY <1>1, <3>1, OwingOthers DEF RoomEnded, TypeInv, TypeOK
    <3>2. CASE r = RoomOf[p]
      <4>1. p \in Owing(r) /\ Owing(r)' = Owing(r) \ {p}
        BY <2>1, <3>2, OwingOthers DEF Owing, TypeInv
      <4>2. Cardinality(Owing(r)') = Cardinality(Owing(r)) - 1
        BY <4>1, OwingFinite, FS_RemoveElement
      <4>3. ends'[r] = ends[r] + 1 /\ ends[r] \in Nat
        BY <1>1, <3>2 DEF RoomEnded, TypeInv, TypeOK
      <4> QED
        BY <4>2, <4>3, OwingFinite
    <3> QED
      BY <3>1, <3>2
  <2> QED
    BY <2>2 DEF Emptied
<1>2. CASE ~RoomEnded(p)
  <2>1. ends' = ends /\ (pc'[p] = "callback" <=> pc[p] = "callback")
    <3>1. CASE Deliver(p)
      BY <3>1 DEF Deliver, AfterPublish, EnterReadPump, Goto, TypeInv, TypeOK
    <3>2. CASE WriterStep(p) \/ PingFails(p) \/ ReadMalformed(p)
      BY <3>2 DEF WriterStep, WriteFrame, WriteFails, WriteClose, PingFails, ReadMalformed, handlerVars
    <3>3. CASE \/ Register(p) \/ ReadySelf(p) \/ Lookup(p) \/ HubLeave(p) \/ CloseSend(p)
               \/ ConnClose(p) \/ ReadEnvelope(p) \/ ReadError(p)
      BY <3>3 DEF Register, ReadySelf, Lookup, HubLeave, CloseSend, ConnClose, ReadEnvelope,
                  ReadError, Goto, TypeInv, TypeOK
    <3> QED
      BY <1>2, <3>1, <3>2, <3>3 DEF PeerStep, HandlerStep, ClientStep
  <2>2. \A r \in Room : Owing(r)' = Owing(r)
    BY <2>1, OwingOthers DEF TypeInv
  <2> QED
    BY <2>1, <2>2 DEF Emptied
<1> QED
  BY <1>1, <1>2

LEMMA RefinementStep ==
  ASSUME TypeInv, PresenceCounts, [Next]_vars
  PROVE  RP!Next \/ UNCHANGED RP!vars
<1> USE RoomOfAssumption
<1>1. CASE UNCHANGED vars
  <2>1. Present' = Present /\ Emptied' = Emptied
    BY <1>1 DEF vars, Present, Emptied, Counted, Publishing, Owing
  <2> QED
    BY <2>1 DEF RP!vars, Present, Emptied
<1>2. ASSUME NEW p \in Peer, PeerStep(p), ~PresenceJoin(p), ~PresenceLeave(p)
      PROVE  UNCHANGED RP!vars
  <2>1. \A q \in Peer : Counted(q)' <=> Counted(q)
    BY <1>2, OthersMembership, OwnMembership DEF TypeInv
  <2>2. Present' = Present /\ Emptied' = Emptied
    BY <1>2, <2>1, EmptiedKept DEF Present
  <2> QED
    BY <2>2 DEF RP!vars, Present, Emptied
<1>3. ASSUME NEW p \in Peer, PresenceJoin(p) PROVE RP!Join(p)
  <2>0. PeerStep(p)
    BY <1>3 DEF PeerStep, HandlerStep
  <2>1. ~Counted(p)
    BY <1>3 DEF PresenceJoin, Counted, Publishing
  <2>2. Counted(p)' /\ pc'[p] # "callback" /\ pc[p] # "callback" /\ ends' = ends
    BY <1>3 DEF PresenceJoin, EnterReadPump, Goto, Counted, TypeInv, TypeOK
  <2>3. \A q \in Peer : q # p => (Counted(q)' <=> Counted(q))
    BY <2>0, OthersMembership DEF TypeInv
  <2>4. p \notin Present /\ Present' = Present \cup {p}
    BY <2>1, <2>2, <2>3 DEF Present
  <2>5. \A r \in Room : Owing(r)' = Owing(r)
    BY <2>0, <2>2, OwingOthers DEF TypeInv
  <2>6. Emptied' = Emptied
    BY <2>2, <2>5 DEF Emptied
  <2> QED
    BY <2>4, <2>6 DEF RP!Join, Present, Emptied
<1>4. ASSUME NEW p \in Peer, PresenceLeave(p) PROVE RP!Leave(p)
  <2>0. PeerStep(p)
    BY <1>4 DEF PeerStep, HandlerStep
  <2>1. Counted(p)
    BY <1>4 DEF PresenceLeave, Counted
  <2>2. pc'[p] \in {"callback", "closeSend"} /\ pc[p] = "presLeave" /\ ends' = ends
    BY <1>4 DEF PresenceLeave, Goto, TypeInv, TypeOK
  <2>3. ~Counted(p)'
    BY <2>2 DEF Counted, Publishing
  <2>4. \A q \in Peer : q # p => (Counted(q)' <=> Counted(q))
    BY <2>0, OthersMembership DEF TypeInv
  <2>5. p \in Present /\ Present' = Present \ {p}
    BY <2>1, <2>3, <2>4 DEF Present
  <2> DEFINE last == \A q \in Present : RoomOf[q] = RoomOf[p] => q = p
  <2>6. pc'[p] = "callback" <=> last
    BY <1>4, EmptyMeansLast DEF Present
  <2>7. ASSUME NEW r \in Room
        PROVE  Emptied'[r] = IF r = RoomOf[p] /\ last THEN Emptied[r] + 1 ELSE Emptied[r]
    <3>0. Emptied'[r] = ends[r] + Cardinality(Owing(r)') /\ Emptied[r] = ends[r] + Cardinality(Owing(r))
      BY <2>2 DEF Emptied
    <3>1. CASE r = RoomOf[p] /\ last
      <4>1. p \notin Owing(r) /\ Owing(r)' = Owing(r) \cup {p}
        BY <2>0, <2>2, <2>6, <3>1, OwingOthers DEF Owing, TypeInv
      <4>2. Cardinality(Owing(r)') = Cardinality(Owing(r)) + 1
        BY <4>1, OwingFinite, FS_AddElement
      <4>3. ends[r] \in Nat
        BY DEF TypeInv, TypeOK
      <4> QED
        BY <3>0, <3>1, <4>2, <4>3, OwingFinite
    <3>2. CASE ~(r = RoomOf[p] /\ last)
      <4>1. Owing(r)' = Owing(r)
        BY <2>0, <2>2, <2>6, <3>2, OwingOthers DEF TypeInv
      <4> QED
        BY <3>0, <3>2, <4>1
    <3> QED
      BY <3>1, <3>2
  <2>8. Emptied' = [Emptied EXCEPT ![RoomOf[p]] = IF last THEN @ + 1 ELSE @]
    <3>1. Emptied' = [r \in Room |-> Emptied'[r]] /\ Emptied = [r \in Room |-> Emptied[r]]
      BY DEF Emptied
    <3> QED
      BY <2>7, <3>1
  <2> QED
    BY <2>5, <2>8 DEF RP!Leave, RP!LastIn, Present, Emptied
<1> QED
  BY <1>1, <1>2, <1>3, <1>4 DEF Next, RP!Next

\* The hub with LocalPresence implements RoomPresence: exact membership, and
\* one end signal owed or fired each time a room empties.
THEOREM HubImplementsRoomPresence == Spec => ImplementsRoomPresence
<1>1. Init => RP!Init
  <2> SUFFICES ASSUME Init PROVE RP!Init
    OBVIOUS
  <2>1. Present = {} /\ \A r \in Room : Owing(r) = {}
    BY DEF Init, Present, Counted, Publishing, Owing
  <2>2. ASSUME NEW r \in Room PROVE ends[r] + Cardinality(Owing(r)) = 0
    <3>1. Cardinality(Owing(r)) = 0
      BY <2>1, FS_EmptySet
    <3>2. ends[r] = 0
      BY DEF Init
    <3> QED
      BY <3>1, <3>2
  <2>3. Emptied = [r \in Room |-> 0]
    BY <2>2 DEF Emptied
  <2> QED
    BY <2>1, <2>3 DEF RP!Init, Present, Emptied
<1> QED
  BY <1>1, TypeInit, TypeStep, PresenceInit, PresenceStep, RefinementStep, PTL
  DEF Spec, ImplementsRoomPresence, RP!Spec

-----------------------------------------------------------------------------
(* Steps that never happen. *)

\* A superseded connection's Leave never evicts its successor.
THEOREM SuccessorIsKept == Spec => SuccessorKept
<1> DEFINE Kept ==
      \A r \in Room, role \in Role : LET q == rooms[r][role] IN
        q # None /\ rooms'[r][role] = None => pc[q] = "hubLeave" /\ pc'[q] = "presLeave"
<1>1. ASSUME TypeInv, [Next]_vars PROVE [Kept]_vars
  <2> SUFFICES ASSUME NEW p \in Peer, PeerStep(p), NEW r \in Room, NEW role \in Role,
                      rooms[r][role] # None, rooms'[r][role] = None
               PROVE  pc[rooms[r][role]] = "hubLeave" /\ pc'[rooms[r][role]] = "presLeave"
    BY <1>1 DEF Next, Kept
  <2> USE RoomOfAssumption, RoleOfAssumption, PeerAssumption
  <2>1. ~Register(p)
    <3>1. Register(p) => rooms'[r][role] = IF r = RoomOf[p] /\ role = RoleOf[p]
                                           THEN p ELSE rooms[r][role]
      BY <1>1 DEF Register, TypeInv, TypeOK
    <3> QED
      BY <3>1
  <2>2. HubLeave(p)
    BY <1>1, <2>1, OwnMembership
  <2>3. rooms[r][role] = p
    <3>1. rooms'[r][role] = IF r = RoomOf[p] /\ role = RoleOf[p]
                            THEN OccupantAfterLeave(rooms[r][role], p) ELSE rooms[r][role]
      BY <1>1, <2>2 DEF HubLeave, TypeInv, TypeOK
    <3> QED
      BY <3>1 DEF OccupantAfterLeave
  <2> QED
    BY <1>1, <2>2, <2>3 DEF HubLeave, Goto, TypeInv, TypeOK
<1> QED
  BY <1>1, TypeInit, TypeStep, PTL DEF Spec, SuccessorKept

\* No frame is put on a closed send channel.
THEOREM ClosedChannelsStayQuiet == Spec => NoSendAfterClose
<1>1. ASSUME TypeInv, [Next]_vars PROVE [ClosedQuiet]_vars
  <2>1. ASSUME NEW u \in Peer, NEW f, Send(u, f) PROVE ClosedQuiet
    BY <1>1, <2>1 DEF ClosedQuiet, Send, Refused, sendVars, TypeInv, TypeOK
  <2>2. ASSUME NEW p \in Peer, PeerStep(p) PROVE ClosedQuiet
    <3>1. CASE ReadySelf(p) \/ ReadMalformed(p)
      BY <2>1, <3>1 DEF ReadySelf, ReadMalformed
    <3>2. CASE Deliver(p)
      <4>1. CASE UNCHANGED sendVars
        BY <4>1 DEF ClosedQuiet, sendVars
      <4>2. CASE target[p] # None /\ Send(target[p], outgoing[p])
        BY <1>1, <2>1, <4>2 DEF TypeInv, TypeOK
      <4> QED
        BY <3>2, <4>1, <4>2 DEF Deliver
    <3>3. CASE UNCHANGED sendVars
      BY <3>3 DEF ClosedQuiet, sendVars
    <3> QED
      BY <2>2, <3>1, <3>2, <3>3
      DEF PeerStep, HandlerStep, ClientStep, WriterStep, Register, PresenceJoin, Lookup, HubLeave,
          PresenceLeave, RoomEnded, CloseSend, ConnClose, WriteFrame, WriteFails, WriteClose,
          PingFails, ReadEnvelope, ReadError
  <2> QED
    BY <1>1, <2>2 DEF Next
<1> QED
  BY <1>1, TypeInit, TypeStep, PTL DEF Spec, NoSendAfterClose

-----------------------------------------------------------------------------
(* What is in the send channels. *)

\* p's step puts f on q's channel.
Emits(p, q, f) ==
  \/ ReadySelf(p) /\ q = p /\ f = ReadyFrame(p)
  \/ ReadMalformed(p) /\ q = p /\ f = ErrorFrame(p)
  \/ Deliver(p) /\ q = target[p] /\ q # None /\ f = outgoing[p]

Queued(q, f) == \E i \in 1..Len(queue[q]) : queue[q][i] = f

\* A step leaves every channel alone or appends the one frame it emits to one
\* channel that is open.
LEMMA QueueStep ==
  ASSUME TypeInv, NEW p \in Peer, PeerStep(p)
  PROVE  \/ queue' = queue
         \/ \E q \in Peer, f \in Frame :
              Emits(p, q, f) /\ ~closed[q] /\ queue' = [queue EXCEPT ![q] = Append(@, f)]
<1>1. ASSUME NEW q \in Peer, NEW f \in Frame, Emits(p, q, f), Send(q, f)
      PROVE  \/ queue' = queue
             \/ Emits(p, q, f) /\ ~closed[q] /\ queue' = [queue EXCEPT ![q] = Append(@, f)]
  BY <1>1 DEF Send, Refused, sendVars
<1>2. CASE ReadySelf(p)
  <2>1. Emits(p, p, ReadyFrame(p)) /\ Send(p, ReadyFrame(p)) /\ ReadyFrame(p) \in Frame
    BY <1>2, ReadyFrameType DEF Emits, ReadySelf
  <2> QED
    BY <1>1, <2>1
<1>3. CASE ReadMalformed(p)
  <2>1. ErrorFrame(p) \in Frame
    BY OtherFrameTypes DEF TypeInv, Role
  <2>2. Emits(p, p, ErrorFrame(p)) /\ Send(p, ErrorFrame(p))
    BY <1>3 DEF Emits, ReadMalformed
  <2> QED
    BY <1>1, <2>1, <2>2
<1>4. CASE Deliver(p)
  <2>1. CASE UNCHANGED sendVars
    BY <2>1 DEF sendVars
  <2>2. CASE target[p] # None /\ Send(target[p], outgoing[p])
    <3>1. target[p] \in Peer /\ outgoing[p] \in Frame
      BY <1>4, <2>2 DEF Deliver, TypeInv, TypeOK, PublishesFrame
    <3>2. Emits(p, target[p], outgoing[p])
      BY <1>4, <2>2 DEF Emits
    <3> QED
      BY <1>1, <2>2, <3>1, <3>2
  <2> QED
    BY <1>4, <2>1, <2>2 DEF Deliver
<1>5. CASE UNCHANGED sendVars
  BY <1>5 DEF sendVars
<1> QED
  BY <1>2, <1>3, <1>4, <1>5
  DEF PeerStep, HandlerStep, ClientStep, WriterStep, Register, PresenceJoin, Lookup, HubLeave,
      PresenceLeave, RoomEnded, CloseSend, ConnClose, WriteFrame, WriteFails, WriteClose,
      PingFails, ReadEnvelope, ReadError

\* The channel that grew, frame by frame.
LEMMA Appended ==
  ASSUME TypeInv, NEW q \in Peer, NEW f \in Frame, queue' = [queue EXCEPT ![q] = Append(@, f)],
         NEW u \in Peer
  PROVE  /\ Len(queue[u]) \in Nat
         /\ \A i \in 1..Len(queue[u]) : queue'[u][i] = queue[u][i] /\ i \in 1..Len(queue'[u])
         /\ \A i \in 1..Len(queue'[u]) :
              \/ i \in 1..Len(queue[u])
              \/ u = q /\ i = Len(queue[u]) + 1 /\ queue'[u][i] = f
         /\ u = q => Len(queue[u]) + 1 \in 1..Len(queue'[u]) /\ queue'[u][Len(queue[u]) + 1] = f
         /\ queue[u] \in Seq(Frame)
<1> USE DEF TypeInv, TypeOK
<1>1. queue[u] \in Seq(Frame) /\ queue[q] \in Seq(Frame)
  OBVIOUS
<1>2. CASE u = q
  <2>1. queue'[u] = Append(queue[u], f)
    BY <1>2
  <2>2. Len(queue'[u]) = Len(queue[u]) + 1 /\ queue'[u][Len(queue[u]) + 1] = f
    BY <1>1, <2>1
  <2> QED
    BY <1>1, <1>2, <2>1, <2>2
<1>3. CASE u # q
  <2>1. queue'[u] = queue[u]
    BY <1>3
  <2> QED
    BY <1>1, <1>3, <2>1
<1> QED
  BY <1>2, <1>3

\* A frame in a channel was there before or is the one the step emits; none
\* is ever taken back.
LEMMA QueuedStep ==
  ASSUME TypeInv, NEW p \in Peer, PeerStep(p), NEW u \in Peer, NEW g \in Frame
  PROVE  /\ Queued(u, g)' => Queued(u, g) \/ (Emits(p, u, g) /\ ~closed[u])
         /\ Queued(u, g) => Queued(u, g)'
<1>1. CASE queue' = queue
  BY <1>1 DEF Queued
<1>2. ASSUME NEW q \in Peer, NEW f \in Frame, Emits(p, q, f), ~closed[q],
             queue' = [queue EXCEPT ![q] = Append(@, f)]
      PROVE  /\ Queued(u, g)' => Queued(u, g) \/ (Emits(p, u, g) /\ ~closed[u])
             /\ Queued(u, g) => Queued(u, g)'
  <2>1. /\ \A i \in 1..Len(queue[u]) : queue'[u][i] = queue[u][i] /\ i \in 1..Len(queue'[u])
        /\ \A i \in 1..Len(queue'[u]) :
             \/ i \in 1..Len(queue[u])
             \/ u = q /\ i = Len(queue[u]) + 1 /\ queue'[u][i] = f
    BY <1>2, Appended
  <2>2. ASSUME Queued(u, g)' PROVE Queued(u, g) \/ (Emits(p, u, g) /\ ~closed[u])
    <3>1. PICK i \in 1..Len(queue'[u]) : queue'[u][i] = g
      BY <2>2 DEF Queued
    <3>2. CASE i \in 1..Len(queue[u])
      BY <2>1, <3>1, <3>2 DEF Queued
    <3>3. CASE u = q /\ queue'[u][i] = f
      BY <1>2, <3>1, <3>3
    <3> QED
      BY <2>1, <3>1, <3>2, <3>3
  <2>3. ASSUME Queued(u, g) PROVE Queued(u, g)'
    <3>1. PICK i \in 1..Len(queue[u]) : queue[u][i] = g
      BY <2>3 DEF Queued
    <3>2. i \in 1..Len(queue'[u]) /\ queue'[u][i] = g
      BY <2>1, <3>1
    <3> QED
      BY <3>2 DEF Queued
  <2> QED
    BY <2>2, <2>3
<1> QED
  BY <1>1, <1>2, QueueStep

-----------------------------------------------------------------------------
(* The frames under way: what a handler publishes and to whom. *)

\* A handler publishes under its own name and role and, for what a client sent,
\* under the number of its last read; it says bye only when its channel is
\* closed.
Out(p) ==
  /\ pc[p] \in {"lookup", "deliver"} =>
       /\ outgoing[p].src = p
       /\ outgoing[p].type \in {"peer-ready", "data", "bye"}
       /\ outgoing[p].type # "peer-ready" => outgoing[p].from = RoleOf[p]
       /\ outgoing[p].type = "data" => outgoing[p].n = sent[p]
       /\ outgoing[p].type = "bye" => outgoing[p].n = sent[p] + 1 /\ closed[p]
  /\ pc[p] \in {"connClose", "done"} => closed[p]

OutInv == \A p \in Peer : Out(p)

\* deliverLocal's peer, kept across the unlock, is of the room, of the other
\* role, and had joined.
TargetInv ==
  \A p \in Peer : pc[p] = "deliver" /\ target[p] # None =>
    /\ RoomOf[target[p]] = RoomOf[p] /\ RoleOf[target[p]] = opposite(RoleOf[p])
    /\ pc[target[p]] # "new"

\* Nothing was read from a connection, or moved, by another one's step.
LEMMA OthersSent ==
  ASSUME TypeOK, NEW p \in Peer, NEW q \in Peer, p # q, PeerStep(p)
  PROVE  sent'[q] = sent[q]
<1> USE DEF TypeOK
<1>1. CASE ReadEnvelope(p) \/ ReadMalformed(p)
  BY <1>1 DEF ReadEnvelope, ReadMalformed
<1>2. CASE UNCHANGED sent
  BY <1>2
<1> QED
  BY <1>1, <1>2
  DEF PeerStep, HandlerStep, ClientStep, WriterStep, Register, PresenceJoin, ReadySelf, Lookup,
      Deliver, HubLeave, PresenceLeave, RoomEnded, CloseSend, ConnClose, WriteFrame, WriteFails,
      WriteClose, PingFails, ReadError

\* What p's step does to p's own control state, by the kind of step.
OwnStep(p) ==
  \/ /\ ReadySelf(p) /\ pc[p] = "readySelf" /\ pc'[p] = "lookup"
     /\ outgoing'[p] = ReadyFrame(p) /\ sent'[p] = sent[p] /\ closed'[p] = closed[p]
  \/ /\ ReadEnvelope(p) /\ pc[p] = "serving" /\ pc'[p] = "lookup"
     /\ \E claim \in Role : outgoing'[p] = DataFrame(p, claim)
     /\ sent'[p] = sent[p] + 1 /\ closed'[p] = closed[p]
  \/ /\ ConnClose(p) /\ pc[p] = "connClose" /\ pc'[p] = "lookup"
     /\ outgoing'[p] = ByeFrame(p) /\ sent'[p] = sent[p] /\ closed'[p] = closed[p]
  \/ /\ Lookup(p) /\ pc[p] = "lookup" /\ pc'[p] = "deliver"
     /\ outgoing'[p] = outgoing[p] /\ sent'[p] = sent[p] /\ closed'[p] = closed[p]
     /\ target'[p] = rooms[RoomOf[p]][opposite(RoleOf[p])]
  \/ /\ Deliver(p) /\ pc[p] = "deliver"
     /\ pc'[p] = IF outgoing[p].type = "bye" THEN "done" ELSE "serving"
     /\ sent'[p] = sent[p] /\ closed'[p] = closed[p]
  \/ /\ ReadMalformed(p) /\ pc[p] = "serving" /\ pc'[p] = "serving"
     /\ sent'[p] = sent[p] + 1 /\ closed'[p] = closed[p]
  \/ CloseSend(p) /\ pc[p] = "closeSend" /\ pc'[p] = "connClose" /\ sent'[p] = sent[p] /\ closed'[p]
  \/ /\ pc[p] \in {"new", "presence", "serving", "hubLeave", "presLeave", "callback"}
     /\ pc'[p] \notin {"new", "lookup", "deliver", "connClose", "done"}
     /\ pc'[p] \in {"presence", "readySelf"} => pc[p] \in {"new", "presence"}
     /\ sent'[p] = sent[p] /\ closed'[p] = closed[p]
  \/ /\ pc'[p] = pc[p] /\ outgoing'[p] = outgoing[p] /\ target'[p] = target[p]
     /\ sent'[p] = sent[p] /\ closed'[p] = closed[p]

LEMMA OwnStepCases == ASSUME TypeOK, NEW p \in Peer, PeerStep(p) PROVE OwnStep(p)
<1> USE DEF TypeOK
<1>1. CASE Register(p)
  BY <1>1 DEF OwnStep, Register, Goto
<1>2. CASE PresenceJoin(p)
  BY <1>2 DEF OwnStep, PresenceJoin, EnterReadPump, Goto
<1>3. CASE ReadySelf(p)
  BY <1>3 DEF OwnStep, ReadySelf, Goto
<1>4. CASE Lookup(p)
  BY <1>4 DEF OwnStep, Lookup, RecipientRole, Goto
<1>5. CASE Deliver(p)
  BY <1>5 DEF OwnStep, Deliver, AfterPublish, EnterReadPump, Goto
<1>6. CASE HubLeave(p)
  BY <1>6 DEF OwnStep, HubLeave, Goto
<1>7. CASE PresenceLeave(p)
  BY <1>7 DEF OwnStep, PresenceLeave, Goto
<1>8. CASE RoomEnded(p)
  BY <1>8 DEF OwnStep, RoomEnded, Goto
<1>9. CASE CloseSend(p)
  BY <1>9 DEF OwnStep, CloseSend, Goto
<1>10. CASE ConnClose(p)
  BY <1>10 DEF OwnStep, ConnClose, Goto
<1>11. CASE WriterStep(p) \/ PingFails(p)
  BY <1>11 DEF OwnStep, WriterStep, WriteFrame, WriteFails, WriteClose, PingFails, handlerVars
<1>12. CASE ReadEnvelope(p)
  <2>1. PICK claim \in Role : outgoing' = [outgoing EXCEPT ![p] = DataFrame(p, claim)]
    BY <1>12 DEF ReadEnvelope
  <2>2. outgoing'[p] = DataFrame(p, claim)
    BY <2>1
  <2>3. pc[p] = "serving" /\ pc'[p] = "lookup" /\ sent'[p] = sent[p] + 1 /\ closed'[p] = closed[p]
    BY <1>12 DEF ReadEnvelope, Goto
  <2> QED
    BY <1>12, <2>2, <2>3 DEF OwnStep
<1>13. CASE ReadMalformed(p)
  BY <1>13 DEF OwnStep, ReadMalformed, handlerVars
<1>14. CASE ReadError(p)
  BY <1>14 DEF OwnStep, ReadError, Goto
<1> QED
  BY <1>1, <1>2, <1>3, <1>4, <1>5, <1>6, <1>7, <1>8, <1>9, <1>10, <1>11, <1>12, <1>13, <1>14
  DEF PeerStep, HandlerStep, ClientStep

\* The fields of the frames a handler makes.
LEMMA FrameFields ==
  ASSUME NEW p \in Peer, NEW claim
  PROVE  /\ ReadyFrame(p).src = p /\ ReadyFrame(p).type = "peer-ready" /\ ReadyFrame(p).n = 0
         /\ ErrorFrame(p).src = p /\ ErrorFrame(p).type = "error" /\ ErrorFrame(p).n = sent[p] + 1
         /\ ByeFrame(p).src = p /\ ByeFrame(p).type = "bye" /\ ByeFrame(p).n = sent[p] + 1
         /\ ByeFrame(p).from = RoleOf[p]
         /\ DataFrame(p, claim).src = p /\ DataFrame(p, claim).type = "data"
         /\ DataFrame(p, claim).n = sent[p] + 1 /\ DataFrame(p, claim).from = RoleOf[p]
BY DEF ReadyFrame, ErrorFrame, ByeFrame, DataFrame

\* Every kind of step keeps it.
LEMMA OutStep == ASSUME TypeInv, OutInv, [Next]_vars PROVE OutInv'
<1>1. CASE UNCHANGED vars
  BY <1>1 DEF OutInv, Out, vars
<1>2. ASSUME NEW p \in Peer, PeerStep(p), NEW q \in Peer PROVE Out(q)'
  <2>1. Out(q)
    BY DEF OutInv, Out
  <2>2. CASE q # p
    <3>1. /\ pc'[q] = pc[q] /\ outgoing'[q] = outgoing[q] /\ closed'[q] = closed[q]
          /\ sent'[q] = sent[q]
      BY <1>2, <2>2, OthersUnchanged, OthersSent DEF TypeInv
    <3> QED
      BY <2>1, <3>1 DEF Out
  <2>3. CASE q = p
    <3>1. OwnStep(q)
      BY <1>2, <2>3, OwnStepCases DEF TypeInv
    <3>2. CASE pc'[q] = "lookup" /\ outgoing'[q] = ReadyFrame(q)
      BY <3>2, FrameFields DEF Out
    <3>3. ASSUME pc'[q] = "lookup", NEW claim, outgoing'[q] = DataFrame(q, claim),
                 sent'[q] = sent[q] + 1
          PROVE  Out(q)'
      BY <3>3, FrameFields DEF Out
    <3>4. CASE /\ pc[q] = "connClose" /\ pc'[q] = "lookup" /\ outgoing'[q] = ByeFrame(q)
               /\ sent'[q] = sent[q] /\ closed'[q] = closed[q]
      BY <2>1, <3>4, FrameFields DEF Out
    <3>5. CASE /\ pc[q] = "lookup" /\ pc'[q] = "deliver" /\ outgoing'[q] = outgoing[q]
               /\ sent'[q] = sent[q] /\ closed'[q] = closed[q]
      BY <2>1, <3>5 DEF Out
    <3>6. CASE /\ pc[q] = "deliver" /\ sent'[q] = sent[q] /\ closed'[q] = closed[q]
               /\ pc'[q] = IF outgoing[q].type = "bye" THEN "done" ELSE "serving"
      BY <2>1, <3>6 DEF Out
    <3>7. CASE pc'[q] \notin {"lookup", "deliver", "connClose", "done"}
      BY <3>7 DEF Out
    <3>8. CASE pc'[q] = "connClose" /\ closed'[q]
      BY <3>8 DEF Out
    <3>9. CASE /\ pc'[q] = pc[q] /\ outgoing'[q] = outgoing[q]
               /\ sent'[q] = sent[q] /\ closed'[q] = closed[q]
      BY <2>1, <3>9 DEF Out
    <3> QED
      BY <3>1, <3>2, <3>3, <3>4, <3>5, <3>6, <3>7, <3>8, <3>9 DEF OwnStep
  <2> QED
    BY <2>2, <2>3
<1>3. ASSUME NEW p \in Peer, PeerStep(p) PROVE OutInv'
  BY <1>2, <1>3 DEF OutInv, Out
<1> QED
  BY <1>1, <1>3 DEF Next

\* A handler's own move never ends at the start again.
LEMMA NotNewAgain ==
  ASSUME TypeOK, NEW p \in Peer, PeerStep(p), NEW q \in Peer, pc[q] # "new"
  PROVE  pc'[q] # "new"
<1>1. CASE q # p
  BY <1>1, OthersUnchanged
<1>2. CASE q = p
  BY <1>2, OwnStepCases DEF OwnStep
<1> QED
  BY <1>1, <1>2

LEMMA TargetStep == ASSUME TypeInv, OccupantInv, TargetInv, [Next]_vars PROVE TargetInv'
<1> USE RoomOfAssumption, RoleOfAssumption, PeerAssumption
<1>1. CASE UNCHANGED vars
  BY <1>1 DEF TargetInv, vars
<1>2. ASSUME NEW p \in Peer, PeerStep(p), NEW q \in Peer, pc'[q] = "deliver", target'[q] # None
      PROVE  /\ RoomOf[target'[q]] = RoomOf[q] /\ RoleOf[target'[q]] = opposite(RoleOf[q])
             /\ pc'[target'[q]] # "new"
  <2>1. CASE pc[q] = "deliver" /\ target'[q] = target[q]
    <3>1. target[q] \in Peer
      BY <1>2, <2>1 DEF TypeInv, TypeOK
    <3>2. /\ RoomOf[target[q]] = RoomOf[q] /\ RoleOf[target[q]] = opposite(RoleOf[q])
          /\ pc[target[q]] # "new"
      BY <1>2, <2>1 DEF TargetInv
    <3> QED
      BY <1>2, <2>1, <3>1, <3>2, NotNewAgain DEF TypeInv
  <2>2. CASE target'[q] = rooms[RoomOf[q]][opposite(RoleOf[q])]
    <3>1. opposite(RoleOf[q]) \in Role
      BY DEF opposite, Role
    <3>2. target'[q] \in Peer
      BY <1>2, <2>2, <3>1 DEF TypeInv, TypeOK
    <3>3. /\ RoomOf[target'[q]] = RoomOf[q] /\ RoleOf[target'[q]] = opposite(RoleOf[q])
          /\ Registered(target'[q])
      BY <1>2, <2>2, <3>1 DEF OccupantInv, OccupantValid
    <3>4. pc[target'[q]] # "new"
      BY <3>3 DEF Registered, Publishing
    <3> QED
      BY <1>2, <3>2, <3>3, <3>4, NotNewAgain DEF TypeInv
  <2>3. CASE q # p
    BY <1>2, <2>1, <2>3, OthersUnchanged DEF TypeInv
  <2>4. CASE q = p
    <3>1. OwnStep(q)
      BY <1>2, <2>4, OwnStepCases DEF TypeInv
    <3> QED
      BY <1>2, <2>1, <2>2, <3>1 DEF OwnStep
  <2> QED
    BY <2>3, <2>4
<1>3. ASSUME NEW p \in Peer, PeerStep(p) PROVE TargetInv'
  BY <1>2, <1>3 DEF TargetInv
<1> QED
  BY <1>1, <1>3 DEF Next

-----------------------------------------------------------------------------
(* The frames in the channels, against the connections that produced them. *)

\* Where a frame may be, by its producer's room and role.
Isolated(q, f) ==
  /\ RoomOf[f.src] = RoomOf[q]
  /\ f.type \in {"data", "bye"} => /\ f.from = opposite(RoleOf[q])
                                   /\ RoleOf[f.src] = opposite(RoleOf[q])
  /\ f.type = "error" => f.src = q
  /\ f.type = "peer-ready" => f.src = q \/ RoleOf[f.src] = opposite(RoleOf[q])

\* Its number, by how far its producer has come: nothing is queued before the
\* producer's Join sends, what it publishes next is newer than all it has sent,
\* its own peer-ready comes before anything it sends to others, and its bye
\* after everything.
Numbered(q, f) ==
  /\ pc[f.src] \notin {"new", "presence", "readySelf"}
  /\ f.n <= sent[f.src] \/ pc[f.src] = "done"
  /\ f.type = "bye" => pc[f.src] = "done"
  /\ pc[f.src] \in {"lookup", "deliver"} =>
       IF outgoing[f.src].type = "peer-ready" THEN q = f.src ELSE f.n < outgoing[f.src].n

FramesInv == \A q \in Peer, f \in Frame : Queued(q, f) => Isolated(q, f) /\ Numbered(q, f)

\* Nobody is sent a frame before its Join.
UntouchedInv == \A q \in Peer : pc[q] = "new" => queue[q] = <<>>

LEMMA OppositeRoles ==
  ASSUME NEW a \in Role
  PROVE  opposite(a) \in Role /\ opposite(a) # a /\ opposite(opposite(a)) = a
BY DEF opposite, Role

\* The frame a step emits is where it belongs.
LEMMA EmittedIsIsolated ==
  ASSUME TypeInv, OutInv, TargetInv, NEW p \in Peer, NEW q \in Peer, NEW f \in Frame, Emits(p, q, f)
  PROVE  Isolated(q, f) /\ f.src = p
<1> USE RoomOfAssumption, RoleOfAssumption
<1>1. CASE f = ReadyFrame(p) /\ q = p
  BY <1>1, FrameFields DEF Isolated
<1>2. CASE f = ErrorFrame(p) /\ q = p
  BY <1>2, FrameFields DEF Isolated
<1>3. CASE Deliver(p) /\ q = target[p] /\ q # None /\ f = outgoing[p]
  <2>1. pc[p] = "deliver"
    BY <1>3 DEF Deliver
  <2>2. RoomOf[q] = RoomOf[p] /\ RoleOf[q] = opposite(RoleOf[p])
    BY <1>3, <2>1 DEF TargetInv
  <2>3. /\ f.src = p /\ f.type \in {"peer-ready", "data", "bye"}
        /\ f.type # "peer-ready" => f.from = RoleOf[p]
    BY <1>3, <2>1 DEF OutInv, Out
  <2>4. RoleOf[p] = opposite(RoleOf[q])
    BY <2>2, OppositeRoles
  <2> QED
    BY <2>2, <2>3, <2>4 DEF Isolated
<1> QED
  BY <1>1, <1>2, <1>3 DEF Emits

\* What a step does to a frame that is already in a channel.
LEMMA NumberedStep ==
  ASSUME TypeInv, OutInv, NEW p \in Peer, PeerStep(p), NEW q \in Peer, NEW f \in Frame, Numbered(q, f)
  PROVE  Numbered(q, f)'
<1>1. f.src \in Peer /\ f.n \in Nat
  BY DEF Frame
<1>2. CASE f.src # p
  <2>1. /\ pc'[f.src] = pc[f.src] /\ outgoing'[f.src] = outgoing[f.src] /\ sent'[f.src] = sent[f.src]
    BY <1>1, <1>2, OthersUnchanged, OthersSent DEF TypeInv
  <2> QED
    BY <2>1 DEF Numbered
<1>3. CASE f.src = p
  <2>1. sent[p] \in Nat /\ OwnStep(p)
    BY OwnStepCases DEF TypeInv, TypeOK
  <2>2. /\ pc[p] \notin {"new", "presence", "readySelf"} /\ (f.n <= sent[p] \/ pc[p] = "done")
        /\ f.type = "bye" => pc[p] = "done"
        /\ pc[p] \in {"lookup", "deliver"} =>
             IF outgoing[p].type = "peer-ready" THEN q = p ELSE f.n < outgoing[p].n
    BY <1>3 DEF Numbered
  <2>3. ASSUME pc[p] = "serving", pc'[p] = "lookup", NEW claim, outgoing'[p] = DataFrame(p, claim),
               sent'[p] = sent[p] + 1
        PROVE  Numbered(q, f)'
    BY <1>1, <1>3, <2>1, <2>2, <2>3, FrameFields DEF Numbered
  <2>4. CASE /\ pc[p] = "connClose" /\ pc'[p] = "lookup" /\ outgoing'[p] = ByeFrame(p)
             /\ sent'[p] = sent[p]
    BY <1>1, <1>3, <2>1, <2>2, <2>4, FrameFields DEF Numbered
  <2>5. CASE pc[p] = "lookup" /\ pc'[p] = "deliver" /\ outgoing'[p] = outgoing[p] /\ sent'[p] = sent[p]
    BY <1>3, <2>2, <2>5 DEF Numbered
  <2>6. CASE /\ pc[p] = "deliver" /\ sent'[p] = sent[p]
             /\ pc'[p] = IF outgoing[p].type = "bye" THEN "done" ELSE "serving"
    BY <1>3, <2>2, <2>6 DEF Numbered
  <2>7. CASE pc[p] = "serving" /\ pc'[p] = "serving" /\ sent'[p] = sent[p] + 1
    BY <1>1, <1>3, <2>1, <2>2, <2>7 DEF Numbered
  <2>8. CASE pc[p] = "closeSend" /\ pc'[p] = "connClose" /\ sent'[p] = sent[p]
    BY <1>3, <2>2, <2>8 DEF Numbered
  <2>9. CASE /\ pc[p] \in {"new", "presence", "serving", "hubLeave", "presLeave", "callback"}
             /\ pc'[p] \notin {"new", "lookup", "deliver", "connClose", "done"}
             /\ pc'[p] \in {"presence", "readySelf"} => pc[p] \in {"new", "presence"}
             /\ sent'[p] = sent[p]
    BY <1>3, <2>2, <2>9 DEF Numbered
  <2>10. CASE pc'[p] = pc[p] /\ outgoing'[p] = outgoing[p] /\ sent'[p] = sent[p]
    BY <1>3, <2>2, <2>10 DEF Numbered
  <2> QED
    BY <2>1, <2>2, <2>3, <2>4, <2>5, <2>6, <2>7, <2>8, <2>9, <2>10 DEF OwnStep
<1> QED
  BY <1>2, <1>3

\* The frame a step emits has its number's place.
LEMMA EmittedIsNumbered ==
  ASSUME TypeInv, OutInv, NEW p \in Peer, PeerStep(p), NEW q \in Peer, NEW f \in Frame, Emits(p, q, f)
  PROVE  Numbered(q, f)'
<1> USE DEF TypeInv, TypeOK
<1>0. sent[p] \in Nat /\ sent'[p] \in Nat
  BY TypeStep DEF Next
<1>1. CASE ReadySelf(p) /\ q = p /\ f = ReadyFrame(p)
  <2>1. pc'[p] = "lookup" /\ outgoing'[p] = ReadyFrame(p)
    BY <1>1 DEF ReadySelf, Goto
  <2>2. f.src = p /\ f.n = 0 /\ f.type = "peer-ready" /\ outgoing'[p].type = "peer-ready"
    BY <1>1, <2>1 DEF ReadyFrame
  <2> QED
    BY <1>0, <1>1, <2>1, <2>2 DEF Numbered
<1>2. CASE ReadMalformed(p) /\ q = p /\ f = ErrorFrame(p)
  <2>1. pc'[p] = "serving" /\ sent'[p] = sent[p] + 1
    BY <1>2 DEF ReadMalformed, handlerVars
  <2>2. f.src = p /\ f.n = sent[p] + 1 /\ f.type = "error"
    BY <1>2, FrameFields
  <2> QED
    BY <1>0, <2>1, <2>2 DEF Numbered
<1>3. CASE Deliver(p) /\ f = outgoing[p]
  <2>1. /\ pc[p] = "deliver" /\ sent'[p] = sent[p]
        /\ pc'[p] = IF outgoing[p].type = "bye" THEN "done" ELSE "serving"
    BY <1>3 DEF Deliver, AfterPublish, EnterReadPump, Goto
  <2>2. /\ f.src = p /\ f.type \in {"peer-ready", "data", "bye"}
        /\ f.type = "data" => f.n = sent[p]
    BY <1>3, <2>1 DEF OutInv, Out
  <2>3. f.type = "peer-ready" => f.n = 0
    BY <1>3, <2>1 DEF PublishesFrame, ReadyFrame
  <2> QED
    BY <1>0, <1>3, <2>1, <2>2, <2>3 DEF Numbered
<1> QED
  BY <1>1, <1>2, <1>3 DEF Emits

LEMMA FramesStep ==
  ASSUME TypeInv, OutInv, TargetInv, FramesInv, [Next]_vars PROVE FramesInv'
<1>1. CASE UNCHANGED vars
  BY <1>1 DEF FramesInv, Queued, Isolated, Numbered, vars
<1>2. ASSUME NEW p \in Peer, PeerStep(p), NEW q \in Peer, NEW f \in Frame, Queued(q, f)'
      PROVE  Isolated(q, f)' /\ Numbered(q, f)'
  <2>1. Isolated(q, f) => Isolated(q, f)'
    BY DEF Isolated
  <2>2. CASE Queued(q, f)
    BY <1>2, <2>1, <2>2, NumberedStep DEF FramesInv
  <2>3. CASE Emits(p, q, f)
    BY <1>2, <2>1, <2>3, EmittedIsIsolated, EmittedIsNumbered
  <2> QED
    BY <1>2, <2>2, <2>3, QueuedStep
<1>3. ASSUME NEW p \in Peer, PeerStep(p) PROVE FramesInv'
  BY <1>2, <1>3 DEF FramesInv
<1> QED
  BY <1>1, <1>3 DEF Next

LEMMA UntouchedStep ==
  ASSUME TypeInv, TargetInv, UntouchedInv, [Next]_vars PROVE UntouchedInv'
<1>1. CASE UNCHANGED vars
  BY <1>1 DEF UntouchedInv, vars
<1>2. ASSUME NEW p \in Peer, PeerStep(p), NEW q \in Peer, pc'[q] = "new" PROVE queue'[q] = <<>>
  <2>1. pc[q] = "new" /\ queue[q] = <<>>
    BY <1>2, NotNewAgain DEF UntouchedInv, TypeInv
  <2>2. CASE queue' = queue
    BY <2>1, <2>2
  <2>3. ASSUME NEW u \in Peer, NEW f \in Frame, Emits(p, u, f),
               queue' = [queue EXCEPT ![u] = Append(@, f)]
        PROVE  queue'[q] = <<>>
    <3>1. u # q
      <4>1. CASE ReadySelf(p) /\ u = p
        BY <2>1, <4>1 DEF ReadySelf
      <4>2. CASE ReadMalformed(p) /\ u = p
        BY <2>1, <4>2 DEF ReadMalformed
      <4>3. CASE Deliver(p) /\ u = target[p] /\ u # None
        BY <2>1, <4>3 DEF Deliver, TargetInv
      <4> QED
        BY <2>3, <4>1, <4>2, <4>3 DEF Emits
    <3> QED
      BY <2>1, <2>3, <3>1 DEF TypeInv, TypeOK
  <2> QED
    BY <1>2, <2>2, <2>3, QueueStep
<1>3. ASSUME NEW p \in Peer, PeerStep(p) PROVE UntouchedInv'
  BY <1>2, <1>3 DEF UntouchedInv
<1> QED
  BY <1>1, <1>3 DEF Next

\* The invariant about frames, with what it rests on.
FlowInv == TypeInv /\ OccupantInv /\ OutInv /\ TargetInv /\ FramesInv /\ UntouchedInv

LEMMA FlowInit == Init => FlowInv
<1> SUFFICES ASSUME Init PROVE FlowInv
  OBVIOUS
<1>1. OutInv /\ TargetInv /\ UntouchedInv
  BY DEF Init, OutInv, Out, TargetInv, UntouchedInv
<1>2. FramesInv
  <2>1. \A q \in Peer : Len(queue[q]) = 0
    BY DEF Init
  <2> QED
    BY <2>1 DEF FramesInv, Queued
<1> QED
  BY <1>1, <1>2, TypeInit, OccupantInit DEF FlowInv

LEMMA FlowStep == ASSUME FlowInv, [Next]_vars PROVE FlowInv'
BY TypeStep, OccupantStep, OutStep, TargetStep, FramesStep, UntouchedStep DEF FlowInv

\* In any number of rooms, with any number of overlapping connections: whatever
\* a client claims, its frames reach only the other role of its own room and
\* carry its own role (readPump's overwrite, deliverLocal's lookup).
THEOREM RelayIsIsolated == Spec => []RelayIsolation
<1>1. ASSUME FlowInv PROVE RelayIsolation
  <2> SUFFICES ASSUME NEW q \in Peer, NEW i \in 1..Len(queue[q]) PROVE Isolated(q, queue[q][i])
    BY DEF RelayIsolation, Isolated
  <2>1. queue[q][i] \in Frame
    BY <1>1 DEF FlowInv, TypeInv, TypeOK
  <2>2. Queued(q, queue[q][i])
    BY DEF Queued
  <2> QED
    BY <1>1, <2>1, <2>2 DEF FlowInv, FramesInv
<1> QED
  BY <1>1, FlowInit, FlowStep, PTL DEF Spec

\* A bye is never early, for any interleaving of clean-ups and joins: the
\* connection it names has left the map, is not counted and takes no frames.
THEOREM ByesAreTrue == Spec => []ByeMeansGone
<1>1. ASSUME FlowInv PROVE ByeMeansGone
  <2> SUFFICES ASSUME NEW q \in Peer, NEW i \in 1..Len(queue[q]), NEW f, f = queue[q][i],
                      f.type = "bye"
               PROVE  /\ rooms[RoomOf[f.src]][RoleOf[f.src]] # f.src
                      /\ ~Counted(f.src) /\ closed[f.src]
    BY DEF ByeMeansGone
  <2>1. f \in Frame
    BY <1>1 DEF FlowInv, TypeInv, TypeOK
  <2>2. f.src \in Peer
    BY <2>1 DEF Frame
  <2>3. pc[f.src] = "done"
    BY <1>1, <2>1 DEF FlowInv, FramesInv, Queued, Numbered
  <2>4. closed[f.src] /\ ~Counted(f.src)
    BY <1>1, <2>2, <2>3 DEF FlowInv, OutInv, Out, Counted, Publishing
  <2>5. rooms[RoomOf[f.src]][RoleOf[f.src]] # f.src
    BY <1>1, <2>2, <2>4, RoomOfAssumption, RoleOfAssumption, PeerAssumption
    DEF FlowInv, OccupantInv, OccupantValid
  <2> QED
    BY <2>4, <2>5
<1> QED
  BY <1>1, FlowInit, FlowStep, PTL DEF Spec

-----------------------------------------------------------------------------
(* Once, and in order. *)

\* A frame a step emits is new: it is newer than everything its producer has in
\* the recipient's channel, and unless it is a peer-ready it is in no channel.
LEMMA EmittedIsNew ==
  ASSUME FlowInv, NEW p \in Peer, NEW q \in Peer, NEW f \in Frame, Emits(p, q, f)
  PROVE  /\ \A g \in Frame : Queued(q, g) /\ g.src = f.src => g.n < f.n
         /\ f.type # "peer-ready" => \A u \in Peer : ~Queued(u, f)
<1>0. \A u \in Peer, g \in Frame : Queued(u, g) => Numbered(u, g) /\ g.n \in Nat
  BY DEF FlowInv, FramesInv, Frame
<1>1. f.src = p /\ sent[p] \in Nat
  BY EmittedIsIsolated DEF FlowInv, TypeInv, TypeOK
<1>2. CASE ReadySelf(p) /\ f = ReadyFrame(p)
  <2>1. pc[p] = "readySelf"
    BY <1>2 DEF ReadySelf
  <2>2. \A u \in Peer, g \in Frame : Queued(u, g) => g.src # p
    BY <1>0, <2>1 DEF Numbered
  <2> QED
    BY <1>1, <2>2
<1>3. CASE ReadMalformed(p) /\ f = ErrorFrame(p)
  <2>1. pc[p] = "serving" /\ f.n = sent[p] + 1
    BY <1>3, FrameFields DEF ReadMalformed
  <2>2. \A u \in Peer, g \in Frame : Queued(u, g) /\ g.src = p => g.n < f.n
    BY <1>0, <1>1, <2>1 DEF Numbered
  <2>3. f.n \in Nat
    BY <1>1, <2>1
  <2> QED
    BY <1>1, <2>2, <2>3
<1>4. CASE Deliver(p) /\ q = target[p] /\ q # None /\ f = outgoing[p]
  <2>1. pc[p] = "deliver" /\ q # p
    BY <1>4, RoleOfAssumption, OppositeRoles DEF Deliver, FlowInv, TargetInv
  <2>2. CASE f.type = "peer-ready"
    <3>1. \A g \in Frame : Queued(q, g) => g.src # p
      BY <1>0, <1>4, <2>1, <2>2 DEF Numbered
    <3> QED
      BY <1>1, <2>2, <3>1
  <2>3. CASE f.type # "peer-ready"
    <3>1. \A u \in Peer, g \in Frame : Queued(u, g) /\ g.src = p => g.n < f.n
      BY <1>0, <1>4, <2>1, <2>3 DEF Numbered
    <3>2. f.n \in Nat
      BY DEF Frame
    <3> QED
      BY <1>1, <3>1, <3>2
  <2> QED
    BY <2>2, <2>3
<1> QED
  BY <1>2, <1>3, <1>4 DEF Emits

\* The order within a channel.
InOrder == \A q \in Peer : \A i \in 1..Len(queue[q]) : \A k \in 1..(i - 1) :
             queue[q][k].src = queue[q][i].src => queue[q][k].n < queue[q][i].n

\* No frame but a peer-ready is in two channels.
Unique == \A q, u \in Peer, f \in Frame :
            q # u /\ f.type # "peer-ready" => ~(Queued(q, f) /\ Queued(u, f))

LEMMA UniqueStep == ASSUME FlowInv, Unique, [Next]_vars PROVE Unique'
<1>1. CASE UNCHANGED vars
  BY <1>1 DEF Unique, Queued, vars
<1>2. ASSUME NEW p \in Peer, PeerStep(p), NEW q \in Peer, NEW u \in Peer, NEW f \in Frame,
             q # u, f.type # "peer-ready", Queued(q, f)', Queued(u, f)'
      PROVE  FALSE
  <2>1. TypeInv
    BY DEF FlowInv
  <2>2. Queued(q, f) \/ Emits(p, q, f)
    BY <1>2, <2>1, QueuedStep
  <2>3. Queued(u, f) \/ Emits(p, u, f)
    BY <1>2, <2>1, QueuedStep
  <2>4. ~(Queued(q, f) /\ Queued(u, f))
    BY <1>2 DEF Unique
  <2>5. Emits(p, q, f) => ~Queued(u, f)
    BY <1>2, EmittedIsNew
  <2>6. Emits(p, u, f) => ~Queued(q, f)
    BY <1>2, EmittedIsNew
  <2>7. CASE Emits(p, q, f) /\ Emits(p, u, f)
    <3>1. pc[p] \in {"serving", "readySelf"} => q = p /\ u = p
      BY <2>7 DEF Emits, Deliver
    <3>2. pc[p] \notin {"serving", "readySelf"} => q = target[p] /\ u = target[p]
      BY <2>7 DEF Emits, ReadySelf, ReadMalformed
    <3> QED
      BY <1>2, <3>1, <3>2
  <2> QED
    BY <2>2, <2>3, <2>4, <2>5, <2>6, <2>7
<1>3. ASSUME NEW p \in Peer, PeerStep(p) PROVE Unique'
  BY <1>2, <1>3 DEF Unique
<1> QED
  BY <1>1, <1>3 DEF Next

LEMMA InOrderStep == ASSUME FlowInv, InOrder, [Next]_vars PROVE InOrder'
<1>1. CASE UNCHANGED vars
  BY <1>1 DEF InOrder, vars
<1>2. ASSUME NEW p \in Peer, PeerStep(p) PROVE InOrder'
  <2>1. TypeInv
    BY DEF FlowInv
  <2>2. CASE queue' = queue
    BY <2>2 DEF InOrder
  <2>3. ASSUME NEW q \in Peer, NEW f \in Frame, Emits(p, q, f),
               queue' = [queue EXCEPT ![q] = Append(@, f)]
        PROVE  InOrder'
    <3>1. queue' = [queue EXCEPT ![q] = Append(@, f)]
      BY <2>3
    <3>2. ASSUME NEW w \in Peer
          PROVE  /\ Len(queue[w]) \in Nat
                 /\ \A i \in 1..Len(queue[w]) : queue'[w][i] = queue[w][i] /\ i \in 1..Len(queue'[w])
                 /\ \A i \in 1..Len(queue'[w]) :
                      \/ i \in 1..Len(queue[w])
                      \/ w = q /\ i = Len(queue[w]) + 1 /\ queue'[w][i] = f
                 /\ queue[w] \in Seq(Frame)
      BY ONLY <2>1, <3>1, Appended
    <3> SUFFICES ASSUME NEW u \in Peer, NEW i \in 1..Len(queue'[u]), NEW k \in 1..(i - 1),
                        queue'[u][k].src = queue'[u][i].src
                 PROVE  queue'[u][k].n < queue'[u][i].n
      BY DEF InOrder
    <3>3. /\ Len(queue[u]) \in Nat /\ queue[u] \in Seq(Frame)
          /\ \A m \in 1..Len(queue[u]) : queue'[u][m] = queue[u][m]
          /\ \A m \in 1..Len(queue'[u]) :
               \/ m \in 1..Len(queue[u])
               \/ u = q /\ m = Len(queue[u]) + 1 /\ queue'[u][m] = f
      BY <3>2
    <3>4. CASE i \in 1..Len(queue[u])
      <4>1. k \in 1..Len(queue[u])
        BY <3>3, <3>4
      <4>2. queue'[u][i] = queue[u][i] /\ queue'[u][k] = queue[u][k]
        BY <3>3, <3>4, <4>1
      <4> QED
        BY <3>4, <4>2 DEF InOrder
    <3>5. CASE u = q /\ i = Len(queue[u]) + 1 /\ queue'[u][i] = f
      <4>1. k \in 1..Len(queue[u])
        BY <3>3, <3>5
      <4>2. PICK g \in Frame : g = queue[u][k]
        BY <3>3, <4>1
      <4>3. Queued(q, g) /\ queue'[u][k] = g
        BY <3>3, <3>5, <4>1, <4>2 DEF Queued
      <4> QED
        BY <2>3, <3>5, <4>3, EmittedIsNew
    <3> QED
      BY <3>3, <3>4, <3>5
  <2> QED
    BY <1>2, <2>1, <2>2, <2>3, QueueStep
<1> QED
  BY <1>1, <1>2 DEF Next

\* In every room and for every buffer size: no relayed frame is duplicated,
\* also not to an old and a new connection of a role, and one sender's frames
\* keep their order (Relay, deliverLocal, Send).
THEOREM RelayIsOnceInOrder == Spec => []RelayedOnceInOrder
<1>1. Init => InOrder /\ Unique
  <2> SUFFICES ASSUME Init PROVE InOrder /\ Unique
    OBVIOUS
  <2>1. \A q \in Peer : Len(queue[q]) = 0
    BY DEF Init
  <2> QED
    BY <2>1 DEF InOrder, Unique, Queued
<1>2. ASSUME FlowInv, InOrder, Unique PROVE RelayedOnceInOrder
  <2> SUFFICES ASSUME NEW q \in Peer, NEW i \in 1..Len(queue[q]), NEW f, f = queue[q][i]
               PROVE  /\ \A k \in 1..(i - 1) : queue[q][k].src = f.src => queue[q][k].n < f.n
                      /\ f.type # "peer-ready" =>
                           \A u \in Peer \ {q} : \A k \in 1..Len(queue[u]) : queue[u][k] # f
    BY DEF RelayedOnceInOrder
  <2>1. f \in Frame /\ Queued(q, f)
    BY <1>2 DEF FlowInv, TypeInv, TypeOK, Queued
  <2>2. \A k \in 1..(i - 1) : queue[q][k].src = f.src => queue[q][k].n < f.n
    BY <1>2 DEF InOrder
  <2>3. ASSUME f.type # "peer-ready", NEW u \in Peer \ {q}, NEW k \in 1..Len(queue[u]),
               queue[u][k] = f
        PROVE  FALSE
    BY <1>2, <2>1, <2>3 DEF Unique, Queued
  <2> QED
    BY <2>2, <2>3
<1> QED
  BY <1>1, <1>2, FlowInit, FlowStep, InOrderStep, UniqueStep, PTL DEF Spec

-----------------------------------------------------------------------------
(* Departures are announced. *)

\* q was sent p's bye (or its buffer was full).
ByeSent(p, q) ==
  \/ \E f \in Frame : Queued(q, f) /\ f.src = p /\ f.type = "bye"
  \/ \E f \in dropped[q] : f.src = p /\ f.type = "bye"

\* Neither of p and q was sent a frame the other produced, and q is not about
\* to send one.
Strangers(p, q) ==
  /\ \A f \in Frame : Queued(q, f) => f.src # p
  /\ \A f \in Frame : Queued(p, f) => f.src # q
  /\ ~(pc[q] = "deliver" /\ target[q] = p)

Counterparts(p, q) == RoomOf[p] = RoomOf[q] /\ RoleOf[q] = opposite(RoleOf[p])

\* p has looked up the last recipient it will ever have.
PastLastLookup(p) == pc[p] = "done" \/ (pc[p] = "deliver" /\ outgoing[p].type = "bye")

\* DepartureAnnounced is not inductive: between p's last lookup and its last
\* delivery the bye is only under way.  An occupant that was there at that
\* lookup is the one found; one that came later never met p, because p had left
\* the map before it looked up.
DepartureInv ==
  \A p, q \in Peer :
    Counterparts(p, q) /\ rooms[RoomOf[q]][RoleOf[q]] = q /\ PastLastLookup(p) =>
      \/ Strangers(p, q)
      \/ pc[p] = "done" /\ ByeSent(p, q)
      \/ pc[p] = "deliver" /\ target[p] = q

\* Whoever is past its last lookup is neither registered nor new.
LEMMA PastIsGone ==
  ASSUME FlowInv, NEW p \in Peer, PastLastLookup(p)
  PROVE  closed[p] /\ pc[p] \in {"deliver", "done"} /\ ~Registered(p)
BY DEF FlowInv, OutInv, Out, PastLastLookup, Registered, Publishing

\* A bye once sent, or dropped, remains so.
LEMMA ByeSentStable ==
  ASSUME FlowInv, NEW s \in Peer, PeerStep(s), NEW p \in Peer, NEW q \in Peer, ByeSent(p, q)
  PROVE  ByeSent(p, q)'
<1>1. TypeInv
  BY DEF FlowInv
<1>2. \A f \in Frame : Queued(q, f) => Queued(q, f)'
  BY <1>1, QueuedStep
<1>3. dropped[q] \subseteq dropped'[q]
  <2> USE <1>1 DEF TypeInv, TypeOK
  <2>1. ASSUME NEW u, NEW f, Send(u, f) PROVE dropped[q] \subseteq dropped'[q]
    BY <2>1 DEF Send, sendVars
  <2>2. CASE ReadySelf(s) \/ ReadMalformed(s) \/ Deliver(s)
    BY <2>1, <2>2 DEF ReadySelf, ReadMalformed, Deliver, sendVars
  <2>3. CASE UNCHANGED sendVars
    BY <2>3 DEF sendVars
  <2> QED
    BY <2>2, <2>3
    DEF PeerStep, HandlerStep, ClientStep, WriterStep, Register, PresenceJoin, Lookup, HubLeave,
        PresenceLeave, RoomEnded, CloseSend, ConnClose, WriteFrame, WriteFails, WriteClose,
        PingFails, ReadEnvelope, ReadError
<1> QED
  BY <1>2, <1>3 DEF ByeSent

\* Counterparts stay strangers once p is past its last lookup of another.
LEMMA StrangersStable ==
  ASSUME FlowInv, NEW s \in Peer, PeerStep(s), NEW p \in Peer, NEW q \in Peer,
         Counterparts(p, q), PastLastLookup(p), Strangers(p, q),
         pc[p] = "deliver" => target[p] # q
  PROVE  Strangers(p, q)'
<1> USE RoomOfAssumption, RoleOfAssumption
<1>1. TypeInv /\ OutInv /\ TargetInv
  BY DEF FlowInv
<1>2. p # q /\ RoleOf[p] = opposite(RoleOf[q]) /\ opposite(RoleOf[q]) \in Role
  BY OppositeRoles DEF Counterparts
<1>3. pc[p] \in {"deliver", "done"} /\ ~Registered(p)
  BY PastIsGone
<1>4. ASSUME NEW f \in Frame, Emits(s, q, f) PROVE f.src # p
  <2>1. f.src = s
    BY <1>1, <1>4, EmittedIsIsolated
  <2>2. CASE s = p
    <3>1. Deliver(p) /\ q = target[p]
      BY <1>2, <1>4, <2>2 DEF Emits
    <3> QED
      BY <3>1 DEF Deliver
  <2> QED
    BY <2>1, <2>2
<1>5. ASSUME NEW f \in Frame, Emits(s, p, f) PROVE f.src # q
  <2>1. f.src = s
    BY <1>1, <1>5, EmittedIsIsolated
  <2>2. CASE s = q
    <3>1. Deliver(q) /\ p = target[q]
      BY <1>2, <1>5, <2>2 DEF Emits
    <3> QED
      BY <3>1 DEF Deliver, Strangers
  <2> QED
    BY <2>1, <2>2
<1>6. \A f \in Frame : Queued(q, f)' => f.src # p
  BY <1>1, <1>4, QueuedStep DEF Strangers
<1>7. \A f \in Frame : Queued(p, f)' => f.src # q
  BY <1>1, <1>5, QueuedStep DEF Strangers
<1>8. ~(pc'[q] = "deliver" /\ target'[q] = p)
  <2>1. CASE s # q
    BY <1>1, <2>1, OthersUnchanged DEF TypeInv, Strangers
  <2>2. CASE s = q
    <3>1. OwnStep(q)
      BY <1>1, <2>2, OwnStepCases DEF TypeInv
    <3>2. rooms[RoomOf[q]][opposite(RoleOf[q])] # p
      BY <1>2, <1>3, PeerAssumption DEF FlowInv, OccupantInv, OccupantValid
    <3> QED
      BY <3>1, <3>2 DEF OwnStep, Strangers
  <2> QED
    BY <2>1, <2>2
<1> QED
  BY <1>6, <1>7, <1>8 DEF Strangers

\* A connection becomes an occupant by its own Join only.
LEMMA NewOccupant ==
  ASSUME TypeInv, NEW s \in Peer, PeerStep(s), NEW q \in Peer,
         rooms'[RoomOf[q]][RoleOf[q]] = q, rooms[RoomOf[q]][RoleOf[q]] # q
  PROVE  Register(s) /\ s = q
<1> USE RoomOfAssumption, RoleOfAssumption, PeerAssumption
<1>1. CASE Register(s)
  <2>1. rooms'[RoomOf[q]][RoleOf[q]] = IF RoomOf[q] = RoomOf[s] /\ RoleOf[q] = RoleOf[s]
                                       THEN s ELSE rooms[RoomOf[q]][RoleOf[q]]
    BY <1>1 DEF Register, TypeInv, TypeOK
  <2> QED
    BY <1>1, <2>1
<1>2. CASE HubLeave(s)
  <2>1. \/ rooms'[RoomOf[q]][RoleOf[q]] = rooms[RoomOf[q]][RoleOf[q]]
        \/ rooms'[RoomOf[q]][RoleOf[q]] = None
    BY <1>2 DEF HubLeave, OccupantAfterLeave, TypeInv, TypeOK
  <2> QED
    BY <2>1
<1> QED
  BY <1>1, <1>2, OwnMembership

\* The delivery of a bye to an open channel.
LEMMA ByeDelivered ==
  ASSUME FlowInv, NEW p \in Peer, NEW q \in Peer, Deliver(p), target[p] = q,
         outgoing[p].type = "bye", ~closed[q]
  PROVE  ByeSent(p, q)' /\ pc'[p] = "done"
<1> USE PeerAssumption
<1>1. TypeInv /\ PeerStep(p)
  BY DEF FlowInv, PeerStep, HandlerStep
<1>2. pc[p] = "deliver" /\ Send(q, outgoing[p]) /\ pc'[p] = "done"
  BY <1>1 DEF Deliver, AfterPublish, Goto, TypeInv, TypeOK
<1>3. PICK f \in Frame : f = outgoing[p]
  BY <1>1, <1>2 DEF TypeInv, PublishesFrame
<1>4. f.src = p /\ f.type = "bye"
  BY <1>2, <1>3 DEF FlowInv, OutInv, Out
<1>5. CASE queue' = [queue EXCEPT ![q] = Append(@, f)]
  <2>1. Len(queue[q]) + 1 \in 1..Len(queue'[q]) /\ queue'[q][Len(queue[q]) + 1] = f
    <3>1. queue[q] \in Seq(Frame) /\ queue'[q] = Append(queue[q], f)
      BY <1>1, <1>5 DEF TypeInv, TypeOK
    <3> QED
      BY <3>1
  <2>2. Queued(q, f)'
    BY <2>1 DEF Queued
  <2> QED
    BY <1>2, <1>4, <2>2 DEF ByeSent
<1>6. CASE dropped' = [dropped EXCEPT ![q] = @ \cup {f}]
  <2>1. f \in dropped'[q]
    BY <1>1, <1>6 DEF TypeInv, TypeOK
  <2> QED
    BY <1>2, <1>4, <2>1 DEF ByeSent
<1> QED
  BY <1>2, <1>3, <1>5, <1>6 DEF Send, Refused

LEMMA DepartureStep == ASSUME FlowInv, DepartureInv, [Next]_vars PROVE DepartureInv'
<1> USE RoomOfAssumption, RoleOfAssumption
<1>0. TypeInv /\ TypeOK
  BY DEF FlowInv, TypeInv
<1>1. CASE UNCHANGED vars
  <2>1. ASSUME NEW p \in Peer, NEW q \in Peer
        PROVE  /\ Strangers(p, q)' <=> Strangers(p, q)
               /\ ByeSent(p, q)' <=> ByeSent(p, q)
               /\ PastLastLookup(p)' <=> PastLastLookup(p)
               /\ Counterparts(p, q)' <=> Counterparts(p, q)
    BY <1>1 DEF vars, Strangers, ByeSent, Queued, PastLastLookup, Counterparts
  <2>2. rooms' = rooms /\ pc' = pc /\ target' = target
    BY <1>1 DEF vars
  <2> QED
    BY <2>1, <2>2 DEF DepartureInv
<1>2. ASSUME NEW s \in Peer, PeerStep(s), NEW p \in Peer, NEW q \in Peer, Counterparts(p, q),
             rooms'[RoomOf[q]][RoleOf[q]] = q, PastLastLookup(p)'
      PROVE  \/ Strangers(p, q)'
             \/ pc'[p] = "done" /\ ByeSent(p, q)'
             \/ pc'[p] = "deliver" /\ target'[p] = q
  <2>0. p # q /\ RoleOf[q] = opposite(RoleOf[p]) /\ RoomOf[p] = RoomOf[q]
    BY <1>2, OppositeRoles DEF Counterparts
  <2>1. CASE rooms[RoomOf[q]][RoleOf[q]] # q
    <3>1. Register(q)
      BY <1>0, <1>2, <2>1, NewOccupant
    <3>2. pc[q] = "new" /\ pc'[q] = "presence" /\ queue' = queue
      BY <1>0, <3>1 DEF Register, Goto, sendVars, TypeOK
    <3>3. queue[q] = <<>>
      BY <3>2 DEF FlowInv, UntouchedInv
    <3>4. \A f \in Frame : ~Queued(q, f)'
      BY <3>2, <3>3 DEF Queued
    <3>5. \A f \in Frame : Queued(p, f)' => f.src # q
      <4>1. \A f \in Frame : Queued(p, f)' => Queued(p, f)
        BY <3>2 DEF Queued
      <4> QED
        BY <3>2, <4>1 DEF FlowInv, FramesInv, Numbered
    <3> QED
      BY <3>2, <3>4, <3>5 DEF Strangers
  <2>2. CASE rooms[RoomOf[q]][RoleOf[q]] = q /\ ~PastLastLookup(p)
    <3>1. s = p
      <4>1. s # p => pc'[p] = pc[p] /\ outgoing'[p] = outgoing[p]
        BY <1>0, <1>2, OthersUnchanged
      <4> QED
        BY <1>2, <2>2, <4>1 DEF PastLastLookup
    <3>2. OwnStep(p)
      BY <1>0, <1>2, <3>1, OwnStepCases
    <3>3. pc'[p] = "deliver" /\ target'[p] = rooms[RoomOf[p]][opposite(RoleOf[p])]
      BY <1>2, <2>2, <3>2 DEF OwnStep, PastLastLookup
    <3> QED
      BY <2>0, <2>2, <3>3
  <2>3. CASE rooms[RoomOf[q]][RoleOf[q]] = q /\ PastLastLookup(p)
    <3>0. ~closed[q]
      BY <2>3, PeerAssumption DEF FlowInv, OccupantInv, OccupantValid
    <3>1. \/ Strangers(p, q)
          \/ pc[p] = "done" /\ ByeSent(p, q)
          \/ pc[p] = "deliver" /\ target[p] = q
      BY <1>2, <2>3 DEF DepartureInv
    <3>2. OwnStep(p) \/ (pc'[p] = pc[p] /\ outgoing'[p] = outgoing[p] /\ target'[p] = target[p])
      BY <1>0, <1>2, OwnStepCases, OthersUnchanged
    <3>3. CASE Strangers(p, q) /\ (pc[p] = "deliver" => target[p] # q)
      BY <1>2, <2>3, <3>3, StrangersStable
    <3>4. CASE pc[p] = "done" /\ ByeSent(p, q)
      <4>1. pc'[p] = "done"
        BY <3>2, <3>4 DEF OwnStep
      <4> QED
        BY <1>2, <3>4, <4>1, ByeSentStable
    <3>5. CASE pc[p] = "deliver" /\ target[p] = q
      <4>1. outgoing[p].type = "bye"
        BY <2>3, <3>5 DEF PastLastLookup
      <4>2. CASE Deliver(p)
        BY <3>0, <3>5, <4>1, <4>2, ByeDelivered
      <4>3. CASE pc'[p] = pc[p] /\ target'[p] = target[p]
        BY <3>5, <4>3
      <4> QED
        BY <3>2, <3>5, <4>2, <4>3 DEF OwnStep
    <3> QED
      BY <3>1, <3>3, <3>4, <3>5
  <2> QED
    BY <2>1, <2>2, <2>3
<1>3. ASSUME NEW s \in Peer, PeerStep(s) PROVE DepartureInv'
  BY <1>2, <1>3 DEF DepartureInv, Counterparts
<1> QED
  BY <1>1, <1>3 DEF Next

\* For any overlap of reconnects and clean-ups: the occupant of a role was sent
\* the bye of every counterpart it met that has gone (readPump's deferred
\* function).
THEOREM DeparturesAreAnnounced == Spec => []DepartureAnnounced
<1> USE RoomOfAssumption, RoleOfAssumption
<1>1. Init => DepartureInv
  BY DEF Init, DepartureInv, PastLastLookup
<1>2. ASSUME FlowInv, DepartureInv PROVE DepartureAnnounced
  <2> SUFFICES ASSUME NEW p \in Peer, NEW q \in Peer, pc[p] = "done", RoleOf[p] # RoleOf[q],
                      Met(p, q), rooms[RoomOf[q]][RoleOf[q]] = q
               PROVE  \/ \E i \in 1..Len(queue[q]) : queue[q][i].src = p /\ queue[q][i].type = "bye"
                      \/ \E f \in dropped[q] : f.src = p /\ f.type = "bye"
    BY DEF DepartureAnnounced
  <2>1. ASSUME NEW u \in Peer, NEW i \in 1..Len(queue[u])
        PROVE  queue[u][i] \in Frame /\ Queued(u, queue[u][i])
    <3>1. queue[u] \in Seq(Frame)
      BY <1>2 DEF FlowInv, TypeInv, TypeOK
    <3>2. queue[u][i] \in Frame
      BY <3>1
    <3> QED
      BY <3>2 DEF Queued
  <2>2. \/ \E f \in Frame : Queued(q, f) /\ f.src = p
        \/ \E f \in Frame : Queued(p, f) /\ f.src = q
    BY <2>1 DEF Met
  <2>3. RoomOf[p] = RoomOf[q]
    BY <1>2, <2>2 DEF FlowInv, FramesInv, Isolated
  <2>4. RoleOf[q] = opposite(RoleOf[p])
    <3>1. \A a, b \in Role : a # b => b = opposite(a)
      BY DEF Role, opposite
    <3> QED
      BY <3>1
  <2>5. ~Strangers(p, q)
    BY <2>2 DEF Strangers
  <2>6. ByeSent(p, q)
    BY <1>2, <2>3, <2>4, <2>5 DEF DepartureInv, Counterparts, PastLastLookup
  <2> QED
    BY <2>6 DEF ByeSent, Queued
<1> QED
  BY <1>1, <1>2, FlowInit, FlowStep, DepartureStep, PTL DEF Spec

-----------------------------------------------------------------------------
(* The two goroutines of a connection.  BrokenConnectionReaped needs that   *)
(* each of them, when it ends, leaves the other nothing to wait for.        *)

\* p's handler has closed the connection and is at its farewell or after it.
Farewell(p) ==
  pc[p] = "done" \/ (pc[p] \in {"lookup", "deliver"} /\ outgoing[p].type = "bye")

\* p's handler is past Hub.Join.
InReadPump(p) ==
  \/ pc[p] \in {"serving", "hubLeave", "presLeave", "callback", "closeSend", "connClose"}
  \/ pc[p] \in {"lookup", "deliver"} /\ outgoing[p].type = "data"
  \/ Farewell(p)

\* The writer runs once the handler reads; it closes the connection when it
\* returns; and the handler does not say farewell before it closed both the
\* channel and the connection.
Partners(p) ==
  /\ InReadPump(p) => writer[p] # "off"
  /\ writer[p] = "done" => conn[p] = "closed"
  /\ pc[p] = "connClose" \/ Farewell(p) => closed[p]
  /\ Farewell(p) => conn[p] = "closed"
PartnersInv == \A p \in Peer : Partners(p)

\* A writer that returned has closed the connection, so that the handler's read
\* fails; a handler that returned had a writer and left it a closed channel and
\* a closed connection.
NeitherGoroutineWaits ==
  \A p \in Peer : /\ writer[p] = "done" => conn[p] = "closed"
                  /\ pc[p] = "done" => writer[p] # "off" /\ closed[p] /\ conn[p] = "closed"

LEMMA OthersPartners ==
  ASSUME TypeOK, NEW p \in Peer, NEW q \in Peer, p # q, PeerStep(p), Partners(q)
  PROVE  Partners(q)'
<1>1. /\ pc'[q] = pc[q] /\ outgoing'[q] = outgoing[q] /\ closed'[q] = closed[q]
  BY OthersUnchanged
<1>2. writer'[q] = writer[q] /\ conn'[q] = conn[q]
  <2> USE DEF TypeOK
  <2>1. CASE PresenceJoin(p) \/ Deliver(p)
    BY <2>1 DEF PresenceJoin, Deliver, AfterPublish, EnterReadPump
  <2>2. CASE WriteFails(p) \/ WriteClose(p) \/ PingFails(p)
    BY <2>2 DEF WriteFails, WriteClose, PingFails, WriterExit
  <2>3. CASE ConnClose(p)
    BY <2>3 DEF ConnClose
  <2>4. CASE UNCHANGED <<writer, conn>>
    BY <2>4
  <2> QED
    BY <2>1, <2>2, <2>3, <2>4
    DEF PeerStep, HandlerStep, ClientStep, WriterStep, Register, ReadySelf, Lookup, HubLeave,
        PresenceLeave, RoomEnded, CloseSend, WriteFrame, ReadEnvelope, ReadMalformed, ReadError
<1> QED
  BY <1>1, <1>2 DEF Partners, InReadPump, Farewell

LEMMA OwnPartners ==
  ASSUME TypeInv, NEW p \in Peer, PeerStep(p), Partners(p)
  PROVE  Partners(p)'
<1> USE DEF Partners, InReadPump, Farewell
<1>1. TypeOK
  BY DEF TypeInv
<1>2. CASE Register(p)
  BY <1>1, <1>2 DEF Register, Goto, TypeOK
<1>3. CASE PresenceJoin(p)
  BY <1>1, <1>3 DEF PresenceJoin, EnterReadPump, Goto, TypeOK
<1>4. CASE ReadySelf(p)
  <2>1. ReadyFrame(p).type = "peer-ready"
    BY DEF ReadyFrame
  <2> QED
    BY <1>1, <1>4, <2>1 DEF ReadySelf, Goto, TypeOK
<1>5. CASE Lookup(p)
  BY <1>1, <1>5 DEF Lookup, Goto, TypeOK
<1>6. CASE Deliver(p)
  <2>1. /\ pc[p] = "deliver" /\ closed' = closed /\ conn' = conn
        /\ \/ outgoing[p].type = "bye" /\ pc'[p] = "done" /\ writer'[p] = writer[p]
           \/ /\ outgoing[p].type # "bye" /\ pc'[p] = "serving"
              /\ writer'[p] = IF writer[p] = "off" THEN "run" ELSE writer[p]
    BY <1>1, <1>6 DEF Deliver, AfterPublish, EnterReadPump, Goto, TypeOK
  <2> QED
    BY <2>1
<1>7. CASE HubLeave(p) \/ PresenceLeave(p) \/ RoomEnded(p) \/ ReadError(p)
  <2>1. /\ pc'[p] \in {"hubLeave", "presLeave", "callback", "closeSend"}
        /\ pc[p] \in {"serving", "hubLeave", "presLeave", "callback"}
        /\ UNCHANGED <<outgoing, closed, conn, writer>>
    BY <1>1, <1>7 DEF HubLeave, PresenceLeave, RoomEnded, ReadError, Goto, TypeOK
  <2> QED
    BY <2>1
<1>8. CASE CloseSend(p)
  BY <1>1, <1>8 DEF CloseSend, Goto, TypeOK
<1>9. CASE ConnClose(p)
  BY <1>1, <1>9 DEF ConnClose, Goto, TypeOK
<1>10. CASE WriteFrame(p)
  BY <1>10 DEF WriteFrame, handlerVars
<1>11. CASE WriteFails(p) \/ WriteClose(p) \/ PingFails(p)
  <2>1. writer'[p] = "done" /\ conn'[p] = "closed" /\ UNCHANGED <<pc, outgoing, closed>>
    BY <1>1, <1>11 DEF WriteFails, WriteClose, PingFails, WriterExit, handlerVars, TypeOK
  <2> QED
    BY <2>1
<1>12. CASE ReadEnvelope(p)
  <2>1. PICK claim \in Role : outgoing' = [outgoing EXCEPT ![p] = DataFrame(p, claim)]
    BY <1>12 DEF ReadEnvelope
  <2>2. DataFrame(p, claim).type = "data"
    BY DEF DataFrame
  <2>3. outgoing'[p].type = "data"
    BY <1>1, <2>1, <2>2 DEF TypeOK
  <2>4. /\ pc[p] = "serving" /\ pc'[p] = "lookup"
        /\ UNCHANGED <<closed, conn, writer>>
    BY <1>1, <1>12 DEF ReadEnvelope, Goto, TypeOK
  <2> QED
    BY <2>3, <2>4
<1>13. CASE ReadMalformed(p)
  BY <1>13 DEF ReadMalformed, handlerVars
<1> QED
  BY <1>2, <1>3, <1>4, <1>5, <1>6, <1>7, <1>8, <1>9, <1>10, <1>11, <1>12, <1>13
  DEF PeerStep, HandlerStep, ClientStep, WriterStep

\* However a connection breaks, in the reader, in the writer or by a ping,
\* neither of its goroutines is left waiting for the other.
THEOREM GoroutinesEndTogether == Spec => []NeitherGoroutineWaits
<1>1. Init => TypeInv /\ PartnersInv
  <2>1. Init => PartnersInv
    BY DEF Init, PartnersInv, Partners, InReadPump, Farewell
  <2> QED
    BY <2>1, TypeInit
<1>2. TypeInv /\ PartnersInv /\ [Next]_vars => TypeInv' /\ PartnersInv'
  <2> SUFFICES ASSUME TypeInv, PartnersInv, [Next]_vars PROVE PartnersInv'
    BY TypeStep
  <2>1. CASE UNCHANGED vars
    BY <2>1 DEF vars, PartnersInv, Partners, InReadPump, Farewell
  <2>2. ASSUME NEW p \in Peer, PeerStep(p), NEW q \in Peer PROVE Partners(q)'
    <3>1. Partners(q) /\ TypeOK
      BY DEF PartnersInv, TypeInv
    <3> QED
      BY <2>2, <3>1, OthersPartners, OwnPartners
  <2> QED
    BY <2>1, <2>2 DEF Next, PartnersInv
<1>3. PartnersInv => NeitherGoroutineWaits
  BY DEF PartnersInv, Partners, Farewell, InReadPump, NeitherGoroutineWaits
<1> QED
  BY <1>1, <1>2, <1>3, PTL DEF Spec
=============================================================================
