------------------------ MODULE RedisSignalingProofs ------------------------
(***************************************************************************)
(* Proofs about RedisSignaling, for any finite set of connections spread   *)
(* over any instances and any combination of faults.                       *)
(***************************************************************************)
EXTENDS RedisSignaling, FiniteSetTheorems, TLAPS

PC == {"new", "presence", "readySelf", "ready", "serving", "relay",
       "hubLeave", "presLeave", "ended", "bye", "done"}
FrameType == [type : {"peer-ready", "data", "bye"}, src : Conn, n : Nat]
Envelope == [to : Role, frame : FrameType]

Typed ==
  /\ now \in Nat /\ ends \in Nat
  /\ stored \in [count : [Role -> Int], ttl : BOOLEAN, exp : Nat]
  /\ up \subseteq Inst
  /\ rooms \in [Inst -> [Role -> Conn \cup {None}]]
  /\ inbox \in [Inst -> Seq(Envelope)]
  /\ pc \in [Conn -> PC]
  /\ got \in [Conn -> Seq(FrameType)]
  /\ sent \in [Conn -> Nat]
  /\ limbo \subseteq overdue
  /\ \A a \in overdue : a.frame \in FrameType /\ "overdue" \in faults

-----------------------------------------------------------------------------
(* The counts. *)

Members(r) == {c \in Conn : Present(c) /\ RoleOf[c] = r}

\* The hash does not expire under a connection, and counts every connection
\* present: too many after a Leave that never ran, exactly without faults.
HashLives == \A c \in Conn : Present(c) => stored.ttl /\ now < stored.exp
CountsCover == \A r \in Role : Key.count[r] >= Cardinality(Members(r))
CountsExact == \A r \in Role : Key.count[r] = Cardinality(Members(r))
CountInv == /\ CountsKept => HashLives /\ CountsCover
            /\ faults = {} => CountsExact

-----------------------------------------------------------------------------
(* The occupants and their notifications. *)

\* An occupant of a running instance's Hub is between Register and HubLeave.
RoomInv ==
  \A i \in Inst, r \in Role : rooms[i][r] # None =>
    /\ i \in up /\ InstOf[rooms[i][r]] = i /\ RoleOf[rooms[i][r]] = r
    /\ pc[rooms[i][r]] \in {"presence", "readySelf", "ready", "serving", "relay", "hubLeave"}

\* A connection whose handler has started and not finished is on a running instance.
UpInv == \A c \in Conn : pc[c] \notin {"new", "done"} => InstOf[c] \in up

Occupant(c) == rooms[InstOf[c]][RoleOf[c]] = c
Ready(s) == [type |-> "peer-ready", src |-> s, n |-> 0]
HasGot(c, f) == \E k \in DOMAIN got[c] : got[c][k] = f
OnItsWay(x, f) == \E k \in DOMAIN inbox[InstOf[x]] :
                    inbox[InstOf[x]][k] = [to |-> RoleOf[x], frame |-> f]

\* How far the peer-ready of s's Join has come on its way to s and to x.
Notifies(s, x) ==
  \/ pc[s] = "readySelf"
  \/ HasGot(s, Ready(s)) /\ (pc[s] = "ready" \/ OnItsWay(x, Ready(s)) \/ HasGot(x, Ready(s)))

\* Two present occupants of opposite roles, on whatever instances.
Paired(x, y) ==
  /\ RoleOf[y] = opposite(RoleOf[x])
  /\ Occupant(x) /\ Occupant(y) /\ Present(x) /\ Present(y)

PairInv ==
  faults \cap {"join", "loss", "overdue", "outlive"} = {} =>
    \A x, y \in Conn : Paired(x, y) => Notifies(x, y) \/ Notifies(y, x)

-----------------------------------------------------------------------------
(* The order of frames. *)

\* A connection publishes its peer-ready, its data and its bye in this order.
Rank(f) == 2 * f.n + (IF f.type = "bye" THEN 1 ELSE 0)

\* f may have been published by its source by now.
Published(f) ==
  /\ pc[f.src] \notin {"new", "presence", "readySelf", "ready"}
  /\ Rank(f) <= 2 * sent[f.src] + 1
  /\ pc[f.src] # "done" => Rank(f) <= 2 * sent[f.src]
  /\ pc[f.src] = "relay" => Rank(f) < 2 * sent[f.src]

\* Of the frames that were not overdue.
Sent(f) == Prompt(f) => Published(f)
Before(f, g) == Prompt(f) /\ Prompt(g) => Rank(f) < Rank(g)

InboxOrder ==
  \A i \in Inst : \A k \in DOMAIN inbox[i] :
    /\ Sent(inbox[i][k].frame)
    /\ \A l \in DOMAIN inbox[i] :
         k < l /\ inbox[i][k].frame.src = inbox[i][l].frame.src
         => Before(inbox[i][k].frame, inbox[i][l].frame)

GotOrder ==
  \A c \in Conn : \A k \in DOMAIN got[c] : got[c][k].src # c =>
    /\ Sent(got[c][k])
    /\ \A l \in DOMAIN got[c] :
         k < l /\ got[c][k].src = got[c][l].src => Before(got[c][k], got[c][l])
    /\ \A l \in DOMAIN inbox[InstOf[c]] :
         got[c][k].src = inbox[InstOf[c]][l].frame.src
         => Before(got[c][k], inbox[InstOf[c]][l].frame)

OrderInv == InboxOrder /\ GotOrder

IInv == Typed /\ CountInv /\ RoomInv /\ UpInv /\ PairInv /\ OrderInv

-----------------------------------------------------------------------------
(* Types. *)

HashType == [count : [Role -> Int], ttl : BOOLEAN, exp : Nat]

LEMMA RoleFacts ==
  /\ \A c \in Conn : RoleOf[c] \in Role /\ InstOf[c] \in Inst /\ c # None
  /\ \A r \in Role : opposite(r) \in Role /\ opposite(r) # r /\ opposite(opposite(r)) = r
BY ConnAssumption DEF Role, opposite

LEMMA KeyType == ASSUME Typed PROVE Key \in HashType
<1>1. NoKey \in HashType
  BY DEF NoKey, HashType
<1> QED
  BY <1>1 DEF Typed, Key, HashType

LEMMA StoreJoinEffect ==
  ASSUME Typed, NEW c \in Conn, StoreJoin(c)
  PROVE  /\ stored' \in HashType
         /\ stored'.count = [Key.count EXCEPT ![RoleOf[c]] = @ + 1]
         /\ stored'.ttl = TRUE /\ stored'.exp = now + TTL
<1>1. Key \in HashType
  BY KeyType
<1>2. Key.count \in [Role -> Int] /\ RoleOf[c] \in Role
  BY <1>1, RoleFacts DEF HashType
<1>3. stored' = [count |-> [Key.count EXCEPT ![RoleOf[c]] = @ + 1], ttl |-> TRUE, exp |-> now + TTL]
  BY DEF StoreJoin, HIncr
<1>4. [Key.count EXCEPT ![RoleOf[c]] = @ + 1] \in [Role -> Int]
  BY <1>2
<1>5. now + TTL \in Nat
  BY BoundsAssumption DEF Typed
<1> QED
  BY <1>3, <1>4, <1>5 DEF HashType

LEMMA StoreLeaveEffect ==
  ASSUME Typed, NEW c \in Conn, StoreLeave(c)
  PROVE  /\ stored' \in HashType
         /\ stored'.count = [Key.count EXCEPT ![RoleOf[c]] = @ - 1]
         /\ stored'.ttl = Key.ttl /\ stored'.exp = Key.exp
<1>1. Key \in HashType
  BY KeyType
<1>2. RoleOf[c] \in Role
  BY RoleFacts
<1> DEFINE k == Key
<1>3. stored' = [k EXCEPT !.count[RoleOf[c]] = @ - 1]
  BY DEF StoreLeave, HDecr
<1>4. k \in [count : [Role -> Int], ttl : BOOLEAN, exp : Nat]
  BY <1>1 DEF HashType
<1> HIDE DEF k
<1>5. [k.count EXCEPT ![RoleOf[c]] = @ - 1] \in [Role -> Int]
  BY <1>4, <1>2
<1>6. /\ stored'.count = [k.count EXCEPT ![RoleOf[c]] = @ - 1]
      /\ stored'.ttl = k.ttl /\ stored'.exp = k.exp
  BY <1>3, <1>4
<1>7. stored' \in HashType
  BY <1>3, <1>4, <1>5 DEF HashType
<1> QED
  BY <1>6, <1>7 DEF k

LEMMA FrameTyped ==
  ASSUME Typed, NEW c \in Conn, NEW t \in {"peer-ready", "data", "bye"}
  PROVE  Frame(t, c) \in FrameType
BY DEF Frame, FrameType, Typed

LEMMA OutgoingTyped ==
  ASSUME Typed, NEW c \in Conn, pc[c] \in {"ready", "relay", "bye"}
  PROVE  Outgoing(c) \in FrameType
<1>1. CASE pc[c] = "ready"
  BY <1>1, FrameTyped DEF Outgoing
<1>2. CASE pc[c] = "relay"
  BY <1>2, FrameTyped DEF Outgoing
<1>3. CASE pc[c] = "bye"
  BY <1>3, FrameTyped DEF Outgoing
<1> QED
  BY <1>1, <1>2, <1>3

LEMMA FanoutEffect ==
  ASSUME Typed, NEW f \in FrameType, inbox' = Fanout(f)
  PROVE  /\ inbox' \in [Inst -> Seq(Envelope)]
         /\ [to |-> opposite(RoleOf[f.src]), frame |-> f] \in Envelope
         /\ \A i \in Inst : i \in up =>
              inbox'[i] = Append(inbox[i], [to |-> opposite(RoleOf[f.src]), frame |-> f])
         /\ \A i \in Inst : i \notin up => inbox'[i] = inbox[i]
<1> DEFINE e == [to |-> opposite(RoleOf[f.src]), frame |-> f]
<1>1. e \in Envelope
  BY RoleFacts DEF Envelope, FrameType
<1>2. inbox' = [i \in Inst |-> IF i \in up THEN Append(inbox[i], e) ELSE inbox[i]]
  BY DEF Fanout
<1>3. \A i \in Inst : inbox[i] \in Seq(Envelope)
  BY DEF Typed
<1> HIDE DEF e
<1>4. \A i \in Inst : Append(inbox[i], e) \in Seq(Envelope)
  BY <1>1, <1>3
<1>5. inbox' \in [Inst -> Seq(Envelope)]
  BY <1>2, <1>3, <1>4
<1> QED
  BY <1>1, <1>2, <1>5 DEF e

LEMMA HandlerTyped == ASSUME Typed, NEW c \in Conn, Handler(c) PROVE Typed'
<1> USE DEF Typed, lateVars
<1>1. RoleOf[c] \in Role /\ InstOf[c] \in Inst
  BY RoleFacts
<1>2. ASSUME NEW l \in PC, Goto(c, l) PROVE pc' \in [Conn -> PC]
  BY <1>2 DEF Goto
<1>3. CASE Register(c)
  <2>1. pc' \in [Conn -> PC]
    BY <1>3, <1>2 DEF Register, PC
  <2>2. rooms' \in [Inst -> [Role -> Conn \cup {None}]]
    BY <1>3, <1>1 DEF Register
  <2> QED
    BY <1>3, <2>1, <2>2 DEF Register
<1>4. CASE PresenceJoin(c) \/ PresenceJoinError(c)
  <2>1. pc' \in [Conn -> PC]
    BY <1>4 DEF PresenceJoin, PresenceJoinError, Goto, PC
  <2>2. stored' \in HashType
    BY <1>4, StoreJoinEffect DEF PresenceJoin, PresenceJoinError, HashType
  <2>3. UNCHANGED <<faults, now, up, rooms, inbox, lateVars, got, sent, ends>>
    BY <1>4 DEF PresenceJoin, PresenceJoinError
  <2> QED
    BY <2>1, <2>2, <2>3 DEF HashType
<1>5. CASE ReadySelf(c)
  <2>1. pc' \in [Conn -> PC]
    BY <1>5, <1>2 DEF ReadySelf, PC
  <2>2. Append(got[c], Frame("peer-ready", c)) \in Seq(FrameType)
    BY FrameTyped
  <2>3. got' \in [Conn -> Seq(FrameType)]
    BY <1>5, <2>2 DEF ReadySelf
  <2> QED
    BY <1>5, <2>1, <2>3 DEF ReadySelf
<1>6. CASE Publish(c)
  <2>1. pc' \in [Conn -> PC]
    BY <1>6 DEF Publish, AfterPublish, Goto, PC
  <2>2. inbox' \in [Inst -> Seq(Envelope)]
    BY <1>6, FanoutEffect, OutgoingTyped DEF Publish
  <2> QED
    BY <1>6, <2>1, <2>2 DEF Publish
<1>7. CASE ReadEnvelope(c)
  <2>1. pc' \in [Conn -> PC]
    BY <1>7, <1>2 DEF ReadEnvelope, PC
  <2>2. sent' \in [Conn -> Nat]
    BY <1>7 DEF ReadEnvelope
  <2> QED
    BY <1>7, <2>1, <2>2 DEF ReadEnvelope
<1>8. CASE ReadError(c)
  <2>1. pc' \in [Conn -> PC]
    BY <1>8, <1>2 DEF ReadError, PC
  <2> QED
    BY <1>8, <2>1 DEF ReadError
<1>9. CASE HubLeave(c)
  <2>1. pc' \in [Conn -> PC]
    BY <1>9, <1>2 DEF HubLeave, PC
  <2>2. rooms' \in [Inst -> [Role -> Conn \cup {None}]]
    BY <1>9, <1>1 DEF HubLeave
  <2> QED
    BY <1>9, <2>1, <2>2 DEF HubLeave
<1>10. CASE PresenceLeave(c) \/ PresenceLeaveError(c)
  <2>1. pc' \in [Conn -> PC]
    BY <1>10 DEF PresenceLeave, PresenceLeaveError, AfterLeave, Goto, PC
  <2>2. stored' \in HashType
    BY <1>10, StoreLeaveEffect DEF PresenceLeave, PresenceLeaveError, HashType
  <2>3. UNCHANGED <<faults, now, up, rooms, inbox, lateVars, got, sent, ends>>
    BY <1>10 DEF PresenceLeave, PresenceLeaveError
  <2> QED
    BY <2>1, <2>2, <2>3 DEF HashType
<1>11. CASE RoomEnded(c)
  <2>1. pc' \in [Conn -> PC]
    BY <1>11, <1>2 DEF RoomEnded, PC
  <2> QED
    BY <1>11, <2>1 DEF RoomEnded
<1>12. CASE Overdue(c)
  <2>1. pc' \in [Conn -> PC]
    BY <1>12 DEF Overdue, AfterPublish, Goto, PC
  <2>2. PICK f \in FrameType : f = Outgoing(c)
    BY <1>12, OutgoingTyped DEF Overdue
  <2>3. \E n : /\ overdue' = overdue \cup {[frame |-> f, n |-> n]}
               /\ limbo' = limbo \cup {[frame |-> f, n |-> n]}
    BY <1>12, <2>2 DEF Overdue
  <2>4. limbo' \subseteq overdue' /\ \A a \in overdue' : a.frame \in FrameType
    BY <2>3
  <2> QED
    BY <1>12, <2>1, <2>4 DEF Overdue
<1> QED
  BY <1>3, <1>4, <1>5, <1>6, <1>7, <1>8, <1>9, <1>10, <1>11, <1>12 DEF Handler

LEMMA TypedStep == ASSUME Typed, [Next]_vars PROVE Typed'
<1> USE DEF Typed, lateVars
<1>1. ASSUME NEW i \in Inst, Deliver(i) PROVE Typed'
  <2> DEFINE m == Head(inbox[i])
             c == rooms[i][m.to]
  <2>1. m \in Envelope /\ Tail(inbox[i]) \in Seq(Envelope)
    BY <1>1 DEF Deliver
  <2>2. inbox' \in [Inst -> Seq(Envelope)]
    BY <1>1, <2>1 DEF Deliver
  <2>3. c \in Conn \cup {None} /\ m.frame \in FrameType
    BY <2>1 DEF Envelope
  <2>4. got' = IF c = None THEN got ELSE [got EXCEPT ![c] = Append(@, m.frame)]
    BY <1>1 DEF Deliver
  <2> HIDE DEF c, m
  <2>5. got' \in [Conn -> Seq(FrameType)]
    BY <2>3, <2>4
  <2> QED
    BY <1>1, <2>2, <2>5 DEF Deliver
<1>2. ASSUME NEW i \in Inst, Miss(i) PROVE Typed'
  <2>1. Tail(inbox[i]) \in Seq(Envelope)
    BY <1>2 DEF Miss
  <2>2. inbox' \in [Inst -> Seq(Envelope)]
    BY <1>2, <2>1 DEF Miss
  <2> QED
    BY <1>2, <2>2 DEF Miss, connVars
<1>3. ASSUME NEW i \in Inst, Crash(i) PROVE Typed'
  <2>1. pc' \in [Conn -> PC]
    BY <1>3 DEF Crash, PC
  <2>2. rooms' \in [Inst -> [Role -> Conn \cup {None}]]
    BY <1>3 DEF Crash
  <2>3. inbox' \in [Inst -> Seq(Envelope)]
    BY <1>3 DEF Crash
  <2> QED
    BY <1>3, <2>1, <2>2, <2>3 DEF Crash
<1>4. ASSUME NEW i \in Inst, Start(i) PROVE Typed'
  BY <1>4 DEF Start, connVars
<1>5. CASE Tick
  BY <1>5 DEF Tick, connVars
<1>6. CASE UNCHANGED vars
  BY <1>6 DEF vars, connVars
<1>7. ASSUME NEW a \in limbo, ExecuteLate(a) PROVE Typed'
  <2>1. inbox' \in [Inst -> Seq(Envelope)]
    BY <1>7, FanoutEffect DEF ExecuteLate
  <2> QED
    BY <1>7, <2>1 DEF ExecuteLate, connVars
<1> QED
  BY <1>1, <1>2, <1>3, <1>4, <1>5, <1>6, <1>7, HandlerTyped DEF Next

-----------------------------------------------------------------------------
(* The counts cover the connections present. *)

LEMMA MembersFinite ==
  ASSUME NEW r \in Role
  PROVE  IsFiniteSet(Members(r)) /\ Cardinality(Members(r)) \in Nat
<1>1. Members(r) \subseteq Conn
  BY DEF Members
<1> QED
  BY <1>1, ConnAssumption, FS_Subset, FS_CardinalityType

\* A connection that is present is counted, so the hash is not empty.
LEMMA PresentIsCounted ==
  ASSUME Typed, CountsCover, NEW c \in Conn, Present(c)
  PROVE  Key.count[RoleOf[c]] > 0
<1>1. RoleOf[c] \in Role /\ c \in Members(RoleOf[c])
  BY RoleFacts DEF Members
<1>2. Cardinality(Members(RoleOf[c])) # 0
  BY <1>1, MembersFinite, FS_EmptySet
<1>3. Key.count[RoleOf[c]] \in Int
  BY <1>1, KeyType DEF HashType
<1> QED
  BY <1>1, <1>2, <1>3, MembersFinite DEF CountsCover

\* Steps that change neither the hash nor, except by a crash, who is present.
LEMMA CountSame ==
  ASSUME Typed, CountInv, UNCHANGED <<faults, now, stored>>,
         \A c \in Conn : Present(c)' => Present(c),
         faults = {} => \A c \in Conn : Present(c) => Present(c)'
  PROVE  CountInv'
<1>1. Key' = Key
  BY DEF Key, NoKey
<1>2. ASSUME NEW r \in Role PROVE Cardinality(Members(r)') <= Cardinality(Members(r))
  <2>1. Members(r)' \subseteq Members(r)
    BY DEF Members
  <2> QED
    BY <2>1, MembersFinite, FS_Subset
<1>3. ASSUME faults = {}, NEW r \in Role PROVE Members(r)' = Members(r)
  BY <1>3 DEF Members
<1>4. \A r \in Role : Cardinality(Members(r)) \in Nat /\ Cardinality(Members(r)') \in Nat
  <2> TAKE r \in Role
  <2>1. Members(r)' \subseteq Members(r)
    BY DEF Members
  <2> QED
    BY <2>1, MembersFinite, FS_Subset, FS_CardinalityType
<1>5. \A r \in Role : Key.count[r] \in Int
  BY KeyType DEF HashType
<1>6. CountsCover => CountsCover'
  BY <1>1, <1>2, <1>4, <1>5 DEF CountsCover
<1>7. faults = {} /\ CountsExact => CountsExact'
  BY <1>1, <1>3 DEF CountsExact
<1>8. HashLives => HashLives'
  BY DEF HashLives
<1> QED
  BY <1>6, <1>7, <1>8 DEF CountInv, CountsKept

LEMMA CountJoin ==
  ASSUME Typed, CountInv, NEW c \in Conn, pc[c] = "presence", StoreJoin(c),
         UNCHANGED <<faults, now>>, NEW l \in {"readySelf", "serving"}, Goto(c, l)
  PROVE  CountInv'
<1> DEFINE q == RoleOf[c]
<1>1. q \in Role /\ Key.count \in [Role -> Int]
  BY RoleFacts, KeyType DEF HashType
<1>2. ~Present(c) /\ Present(c)' /\ \A d \in Conn : d # c => (Present(d)' <=> Present(d))
  BY DEF Present, Goto, Typed
<1>3. Key' = stored' /\ stored'.ttl = TRUE /\ now' < stored'.exp
  <2>1. stored'.ttl = TRUE /\ stored'.exp = now + TTL
    BY StoreJoinEffect
  <2>2. now' \in Nat /\ now' < now + TTL
    BY BoundsAssumption DEF Typed
  <2>3. now' < stored'.exp /\ ~(now' >= stored'.exp)
    BY <2>1, <2>2, BoundsAssumption DEF Typed
  <2> QED
    BY <2>1, <2>3 DEF Key
<1>4. Key'.count = [Key.count EXCEPT ![q] = @ + 1]
  BY <1>3, StoreJoinEffect
<1>5. Members(q)' = Members(q) \cup {c} /\ c \notin Members(q)
  BY <1>2 DEF Members
<1>6. Cardinality(Members(q)') = Cardinality(Members(q)) + 1
  BY <1>1, <1>5, MembersFinite, FS_AddElement
<1>7. \A r \in Role : r # q => Members(r)' = Members(r)
  BY <1>2 DEF Members
<1>8. \A r \in Role : Cardinality(Members(r)) \in Nat
  BY MembersFinite
<1> HIDE DEF q
<1>9. HashLives'
  BY <1>3 DEF HashLives
<1>10. CountsCover => CountsCover'
  BY <1>1, <1>4, <1>6, <1>7, <1>8 DEF CountsCover
<1>11. CountsExact => CountsExact'
  BY <1>1, <1>4, <1>6, <1>7, <1>8 DEF CountsExact
<1> QED
  BY <1>9, <1>10, <1>11 DEF CountInv, CountsKept

LEMMA CountLeave ==
  ASSUME Typed, CountInv, NEW c \in Conn, pc[c] = "presLeave", StoreLeave(c),
         UNCHANGED <<faults, now>>, NEW l \in {"ended", "bye"}, Goto(c, l)
  PROVE  CountInv'
<1> DEFINE q == RoleOf[c]
<1>1. q \in Role /\ Key.count \in [Role -> Int]
  BY RoleFacts, KeyType DEF HashType
<1>2. Present(c) /\ ~Present(c)' /\ \A d \in Conn : d # c => (Present(d)' <=> Present(d))
  BY DEF Present, Goto, Typed
<1>3. Members(q)' = Members(q) \ {c} /\ c \in Members(q)
  BY <1>2 DEF Members
<1>4. Cardinality(Members(q)') = Cardinality(Members(q)) - 1
  BY <1>1, <1>3, MembersFinite, FS_RemoveElement
<1>5. \A r \in Role : r # q => Members(r)' = Members(r)
  BY <1>2 DEF Members
<1>6. \A r \in Role : Cardinality(Members(r)) \in Nat
  BY MembersFinite
<1> SUFFICES ASSUME CountsKept PROVE HashLives' /\ CountsCover' /\ (faults = {} => CountsExact')
  BY DEF CountInv, CountsKept
<1>7. HashLives /\ CountsCover /\ stored.ttl /\ now < stored.exp
  BY <1>2 DEF CountInv, HashLives
<1>8. Key = stored
  BY <1>7 DEF Key, Typed
<1>9. /\ stored'.count = [Key.count EXCEPT ![q] = @ - 1]
      /\ stored'.ttl = stored.ttl /\ stored'.exp = stored.exp
  BY <1>8, StoreLeaveEffect
<1>10. Key' = stored'
  BY <1>7, <1>9 DEF Key, Typed
<1> HIDE DEF q
<1>11. HashLives'
  BY <1>7, <1>9 DEF HashLives
<1>12. CountsCover'
  BY <1>1, <1>4, <1>5, <1>6, <1>7, <1>9, <1>10 DEF CountsCover
<1>13. CountsExact => CountsExact'
  BY <1>1, <1>4, <1>5, <1>6, <1>9, <1>10 DEF CountsExact
<1> QED
  BY <1>11, <1>12, <1>13 DEF CountInv

LEMMA CountTick == ASSUME Typed, CountInv, Tick PROVE CountInv'
<1>1. UNCHANGED <<faults, stored, pc>> /\ now' = now + 1
  BY DEF Tick, connVars
<1>2. \A c \in Conn : Present(c)' <=> Present(c)
  BY <1>1 DEF Present
<1>3. \A r \in Role : Members(r)' = Members(r)
  BY <1>2 DEF Members
<1> SUFFICES ASSUME CountsKept PROVE HashLives' /\ CountsCover' /\ (faults = {} => CountsExact')
  BY <1>1 DEF CountInv, CountsKept
<1>4. \A c \in Conn : Present(c) => now + 1 < stored.exp
  BY DEF Tick, CountsKept
<1>5. HashLives /\ CountsCover
  BY DEF CountInv
<1>6. HashLives'
  BY <1>1, <1>2, <1>4, <1>5 DEF HashLives
<1>7. CASE Key' = Key
  BY <1>3, <1>5, <1>6, <1>7, <1>1 DEF CountsCover, CountsExact, CountInv
<1>8. CASE Key' # Key
  <2>1. Key' = NoKey
    BY <1>8, <1>1 DEF Key, NoKey, Typed
  <2>2. stored'.ttl /\ now' >= stored'.exp
    BY <1>8, <1>1 DEF Key, NoKey, Typed
  <2>3. \A c \in Conn : ~Present(c)
    BY <1>1, <1>4, <2>2 DEF Typed
  <2>4. \A r \in Role : Members(r)' = {}
    BY <1>3, <2>3 DEF Members
  <2>5. Cardinality({}) = 0
    BY FS_EmptySet
  <2>6. \A r \in Role : Key'.count[r] = 0
    BY <2>1 DEF NoKey
  <2>7. \A r \in Role : Key'.count[r] = Cardinality(Members(r)')
    BY ONLY <2>4, <2>5, <2>6
  <2>8. \A r \in Role : Key'.count[r] >= Cardinality(Members(r)')
    BY ONLY <2>4, <2>5, <2>6
  <2> QED
    BY ONLY <1>6, <2>7, <2>8 DEF CountsCover, CountsExact
<1> QED
  BY <1>7, <1>8

LEMMA CountStep == ASSUME Typed, CountInv, [Next]_vars PROVE CountInv'
<1>1. ASSUME UNCHANGED <<faults, now, stored, pc>> PROVE CountInv'
  BY <1>1, CountSame DEF Present
<1>2. ASSUME NEW c \in Conn, Handler(c) PROVE CountInv'
  <2>1. CASE PresenceJoin(c) \/ PresenceJoinError(c)
    <3>1. CASE StoreJoin(c)
      BY <2>1, <3>1, CountJoin DEF PresenceJoin, PresenceJoinError
    <3>2. CASE ~StoreJoin(c)
      <4>1. "join" \in faults /\ UNCHANGED faults
        BY <2>1, <3>2 DEF PresenceJoin, PresenceJoinError
      <4> QED
        BY <4>1 DEF CountInv, CountsKept
    <3> QED
      BY <3>1, <3>2
  <2>2. CASE PresenceLeave(c) \/ PresenceLeaveError(c)
    <3>1. CASE StoreLeave(c)
      BY <2>2, <3>1, CountLeave DEF PresenceLeave, PresenceLeaveError, AfterLeave
    <3>2. CASE ~StoreLeave(c)
      <4>1. /\ "leave" \in faults /\ pc[c] = "presLeave" /\ Goto(c, "bye")
            /\ UNCHANGED <<faults, now, stored>>
        BY <2>2, <3>2 DEF PresenceLeave, PresenceLeaveError, AfterLeave, EmptyOnError
      <4> QED
        BY <4>1, CountSame DEF Present, Goto, Typed
    <3> QED
      BY <3>1, <3>2
  <2>3. CASE Register(c) \/ ReadySelf(c) \/ Publish(c) \/ Overdue(c) \/ ReadEnvelope(c)
             \/ ReadError(c) \/ HubLeave(c) \/ RoomEnded(c)
    <3>1. UNCHANGED <<faults, now, stored>>
      BY <2>3 DEF Register, ReadySelf, Publish, Overdue, ReadEnvelope, ReadError, HubLeave, RoomEnded
    <3>2. \A d \in Conn : Present(d)' <=> Present(d)
      BY <2>3 DEF Register, ReadySelf, Publish, Overdue, ReadEnvelope, ReadError, HubLeave, RoomEnded,
                  AfterPublish, Goto, Present, Typed
    <3> QED
      BY <3>1, <3>2, CountSame
  <2> QED
    BY <1>2, <2>1, <2>2, <2>3 DEF Handler
<1>3. ASSUME NEW i \in Inst, Deliver(i) \/ Miss(i) \/ Start(i) PROVE CountInv'
  BY <1>1, <1>3 DEF Deliver, Miss, Start, connVars
<1>4. ASSUME NEW i \in Inst, Crash(i) PROVE CountInv'
  BY <1>4, CountSame DEF Crash, Present, Typed
<1>5. CASE UNCHANGED vars
  BY <1>1, <1>5 DEF vars, connVars
<1>6. ASSUME NEW a \in limbo, ExecuteLate(a) PROVE CountInv'
  BY <1>1, <1>6 DEF ExecuteLate, connVars
<1> QED
  BY <1>2, <1>3, <1>4, <1>5, <1>6, CountTick DEF Next

-----------------------------------------------------------------------------
(* The occupants of the running instances. *)

LEMMA RoomStep == ASSUME Typed, RoomInv, UpInv, [Next]_vars PROVE RoomInv' /\ UpInv'
<1> USE DEF Typed, RoomInv, UpInv
<1>1. ASSUME NEW c \in Conn, Register(c) PROVE RoomInv' /\ UpInv'
  <2>1. /\ UNCHANGED up /\ InstOf[c] \in up
        /\ pc' = [pc EXCEPT ![c] = "presence"] /\ pc[c] = "new"
        /\ rooms' = [rooms EXCEPT ![InstOf[c]][RoleOf[c]] = c]
    BY <1>1 DEF Register, Goto
  <2>2. ASSUME NEW i \in Inst, NEW r \in Role
        PROVE  rooms'[i][r] = IF i = InstOf[c] /\ r = RoleOf[c] THEN c ELSE rooms[i][r]
    BY <2>1
  <2> QED
    BY <2>1, <2>2, RoleFacts
<1>2. ASSUME NEW c \in Conn, HubLeave(c) PROVE RoomInv' /\ UpInv'
  <2>1. /\ UNCHANGED up
        /\ pc' = [pc EXCEPT ![c] = "presLeave"] /\ pc[c] = "hubLeave"
        /\ rooms' = [rooms EXCEPT ![InstOf[c]][RoleOf[c]] = IF @ = c THEN None ELSE @]
    BY <1>2 DEF HubLeave, Goto
  <2>2. ASSUME NEW i \in Inst, NEW r \in Role
        PROVE  rooms'[i][r] \in {None, rooms[i][r]} /\ rooms'[i][r] # c
    <3>1. rooms'[i][r] = IF i = InstOf[c] /\ r = RoleOf[c]
                         THEN (IF rooms[i][r] = c THEN None ELSE rooms[i][r]) ELSE rooms[i][r]
      BY <2>1
    <3> QED
      BY <3>1, RoleFacts
  <2>3. \A d \in Conn : d # c => pc'[d] = pc[d]
    BY <2>1
  <2>4. RoomInv'
    <3> SUFFICES ASSUME NEW i \in Inst, NEW r \in Role, rooms'[i][r] # None
                 PROVE  /\ i \in up' /\ InstOf[rooms'[i][r]] = i /\ RoleOf[rooms'[i][r]] = r
                        /\ pc'[rooms'[i][r]] \in {"presence", "readySelf", "ready", "serving",
                                                  "relay", "hubLeave"}
      OBVIOUS
    <3>1. rooms'[i][r] = rooms[i][r] /\ rooms[i][r] # c /\ rooms[i][r] \in Conn
      BY <2>2
    <3> QED
      BY <2>1, <2>3, <3>1
  <2>5. UpInv'
    BY <2>1
  <2> QED
    BY <2>4, <2>5
<1>3. ASSUME NEW c \in Conn,
             PresenceJoin(c) \/ PresenceJoinError(c) \/ ReadySelf(c) \/ Publish(c)
             \/ ReadEnvelope(c) \/ ReadError(c)
      PROVE  RoomInv' /\ UpInv'
  <2>1. UNCHANGED <<up, rooms>>
    BY <1>3 DEF PresenceJoin, PresenceJoinError, ReadySelf, Publish, ReadEnvelope, ReadError
  <2>2. PICK l \in {"readySelf", "ready", "serving", "relay", "hubLeave", "done"} :
          pc' = [pc EXCEPT ![c] = l] /\ (l = "done" => pc[c] = "bye")
    BY <1>3 DEF PresenceJoin, PresenceJoinError, ReadySelf, Publish, AfterPublish, ReadEnvelope,
                ReadError, Goto
  <2>3. pc[c] \notin {"new", "done"}
    BY <1>3 DEF PresenceJoin, PresenceJoinError, ReadySelf, Publish, ReadEnvelope, ReadError
  <2> QED
    BY <2>1, <2>2, <2>3
<1>4. ASSUME NEW c \in Conn, PresenceLeave(c) \/ PresenceLeaveError(c) \/ RoomEnded(c)
      PROVE  RoomInv' /\ UpInv'
  <2>1. UNCHANGED <<up, rooms>>
    BY <1>4 DEF PresenceLeave, PresenceLeaveError, RoomEnded
  <2>2. PICK l \in {"ended", "bye"} : pc' = [pc EXCEPT ![c] = l]
    BY <1>4 DEF PresenceLeave, PresenceLeaveError, RoomEnded, AfterLeave, Goto
  <2>3. pc[c] \in {"presLeave", "ended"}
    BY <1>4 DEF PresenceLeave, PresenceLeaveError, RoomEnded
  <2> QED
    BY <2>1, <2>2, <2>3
<1>5. ASSUME NEW i \in Inst, Crash(i) PROVE RoomInv' /\ UpInv'
  <2>1. /\ up' = up \ {i}
        /\ \A c \in Conn : pc'[c] = IF InstOf[c] = i /\ pc[c] # "new" THEN "done" ELSE pc[c]
        /\ \A r \in Role : rooms'[i][r] = None
        /\ \A j \in Inst : j # i => rooms'[j] = rooms[j]
    BY <1>5 DEF Crash
  <2> QED
    BY <2>1
<1>6. ASSUME NEW i \in Inst, Start(i) PROVE RoomInv' /\ UpInv'
  BY <1>6 DEF Start, connVars
<1>7. ASSUME UNCHANGED <<up, rooms, pc>> PROVE RoomInv' /\ UpInv'
  BY <1>7
<1>8. ASSUME NEW i \in Inst, Deliver(i) \/ Miss(i) PROVE RoomInv' /\ UpInv'
  BY <1>7, <1>8 DEF Deliver, Miss, connVars
<1>9. CASE Tick \/ UNCHANGED vars
  BY <1>7, <1>9 DEF Tick, vars, connVars
<1>10. ASSUME NEW c \in Conn, Overdue(c) PROVE RoomInv' /\ UpInv'
  <2>1. /\ UNCHANGED <<up, rooms>> /\ pc[c] \in {"ready", "relay", "bye"}
        /\ pc' = pc \/ pc' = [pc EXCEPT ![c] = IF pc[c] = "bye" THEN "done" ELSE "serving"]
    BY <1>10 DEF Overdue, AfterPublish, Goto
  <2>2. CASE pc' = pc
    BY <1>7, <2>1, <2>2
  <2>3. CASE pc' = [pc EXCEPT ![c] = IF pc[c] = "bye" THEN "done" ELSE "serving"]
    <3>1. PICK l \in {"serving", "done"} : pc' = [pc EXCEPT ![c] = l] /\ (l = "done" => pc[c] = "bye")
      BY <2>3
    <3> QED
      BY <2>1, <3>1
  <2> QED
    BY <2>1, <2>2, <2>3
<1>11. ASSUME NEW a \in limbo, ExecuteLate(a) PROVE RoomInv' /\ UpInv'
  BY <1>7, <1>11 DEF ExecuteLate, connVars
<1> QED
  BY <1>1, <1>2, <1>3, <1>4, <1>5, <1>6, <1>8, <1>9, <1>10, <1>11 DEF Next, Handler

-----------------------------------------------------------------------------
(* Paired peers are being notified. *)

\* Steps of which neither member of a pair is the one that notifies.
LEMMA PairSame ==
  ASSUME Typed, PairInv, UNCHANGED faults,
         \A c \in Conn : Occupant(c)' /\ Present(c)' =>
           /\ Occupant(c) /\ Present(c)
           /\ pc'[c] = pc[c] \/ pc[c] \notin {"readySelf", "ready"},
         \A c, s \in Conn : HasGot(c, Ready(s)) => HasGot(c, Ready(s))',
         \A x, s \in Conn : Occupant(x)' /\ Present(x)' /\ OnItsWay(x, Ready(s))
           => OnItsWay(x, Ready(s))' \/ HasGot(x, Ready(s))'
  PROVE  PairInv'
<1> SUFFICES ASSUME faults \cap {"join", "loss", "overdue", "outlive"} = {},
                    NEW x \in Conn, NEW y \in Conn, Paired(x, y)'
             PROVE  Notifies(x, y)' \/ Notifies(y, x)'
  BY DEF PairInv
<1>1. Notifies(x, y) \/ Notifies(y, x)
  BY DEF PairInv, Paired
<1>2. ASSUME NEW s \in Conn, NEW d \in Conn, Occupant(s)' /\ Present(s)', Occupant(d)' /\ Present(d)',
             Notifies(s, d)
      PROVE  Notifies(s, d)'
  <2>1. CASE pc[s] = "readySelf" \/ pc[s] = "ready"
    <3>1. pc'[s] = pc[s]
      BY <1>2, <2>1
    <3>2. HasGot(s, Ready(s)) => HasGot(s, Ready(s))'
      OBVIOUS
    <3> QED
      BY <1>2, <2>1, <3>1, <3>2 DEF Notifies
  <2>2. CASE pc[s] # "readySelf" /\ pc[s] # "ready"
    <3>1. HasGot(s, Ready(s)) /\ (OnItsWay(d, Ready(s)) \/ HasGot(d, Ready(s)))
      BY <1>2, <2>2 DEF Notifies
    <3>2. HasGot(s, Ready(s))' /\ (OnItsWay(d, Ready(s))' \/ HasGot(d, Ready(s))')
      BY <1>2, <3>1
    <3> QED
      BY <3>2 DEF Notifies
  <2> QED
    BY <2>1, <2>2
<1> QED
  BY <1>1, <1>2 DEF Paired

\* Steps that leave rooms and frames alone.
LEMMA PairQuiet ==
  ASSUME Typed, PairInv, UNCHANGED <<faults, rooms, got, inbox>>,
         \A c \in Conn : Present(c)' => /\ Present(c)
                                        /\ pc'[c] = pc[c] \/ pc[c] \notin {"readySelf", "ready"}
  PROVE  PairInv'
<1>1. \A c \in Conn : Occupant(c)' => Occupant(c)
  BY DEF Occupant
<1>2. \A c, s \in Conn : HasGot(c, Ready(s)) => HasGot(c, Ready(s))'
  BY DEF HasGot, Ready
<1>3. \A c, s \in Conn : OnItsWay(c, Ready(s)) => OnItsWay(c, Ready(s))'
  BY DEF OnItsWay, Ready
<1> QED
  BY <1>1, <1>2, <1>3, PairSame

\* The connection whose Join found the other role notifies every partner.
LEMMA PairMover ==
  ASSUME Typed, PairInv, UNCHANGED faults, NEW c \in Conn,
         \A d \in Conn : d # c /\ Occupant(d)' /\ Present(d)' =>
           Occupant(d) /\ Present(d) /\ pc'[d] = pc[d],
         \A d, s \in Conn : HasGot(d, Ready(s)) => HasGot(d, Ready(s))',
         \A x, s \in Conn : OnItsWay(x, Ready(s)) => OnItsWay(x, Ready(s))',
         faults \cap {"join", "loss", "overdue", "outlive"} = {} =>
           \A y \in Conn : y # c /\ Paired(c, y)' => Notifies(c, y)' \/ Notifies(y, c)'
  PROVE  PairInv'
<1> SUFFICES ASSUME faults \cap {"join", "loss", "overdue", "outlive"} = {},
                    NEW x \in Conn, NEW y \in Conn, Paired(x, y)'
             PROVE  Notifies(x, y)' \/ Notifies(y, x)'
  BY DEF PairInv
<1>1. x # y /\ Paired(y, x)'
  BY RoleFacts DEF Paired
<1>2. CASE x = c \/ y = c
  BY <1>1, <1>2
<1>3. CASE x # c /\ y # c
  <2>1. Paired(x, y) /\ pc'[x] = pc[x] /\ pc'[y] = pc[y]
    BY <1>3 DEF Paired
  <2>2. Notifies(x, y) \/ Notifies(y, x)
    BY <2>1 DEF PairInv
  <2>3. \A s, d \in {x, y} : Notifies(s, d) => Notifies(s, d)'
    BY <2>1 DEF Notifies
  <2> QED
    BY <2>2, <2>3
<1> QED
  BY <1>2, <1>3

\* A sequence that grows keeps what it holds.
LEMMA AppendKeeps ==
  ASSUME NEW T, NEW s \in Seq(T), NEW e \in T
  PROVE  /\ \A k \in DOMAIN s : k \in DOMAIN Append(s, e) /\ Append(s, e)[k] = s[k]
         /\ \E k \in DOMAIN Append(s, e) : Append(s, e)[k] = e
         /\ \A k \in DOMAIN Append(s, e) : k \in DOMAIN s \/ (k = Len(s) + 1 /\ Append(s, e)[k] = e)
OBVIOUS

LEMMA PairJoin == ASSUME Typed, CountInv, PairInv, NEW c \in Conn, PresenceJoin(c) PROVE PairInv'
<1>1. /\ pc[c] = "presence" /\ UNCHANGED <<faults, rooms, inbox, got>>
      /\ pc' = [pc EXCEPT ![c] = IF Key.count[opposite(RoleOf[c])] > 0 THEN "readySelf" ELSE "serving"]
  BY DEF PresenceJoin, Goto
<1>2. \A d \in Conn : d # c /\ Occupant(d)' /\ Present(d)' =>
        Occupant(d) /\ Present(d) /\ pc'[d] = pc[d]
  BY <1>1 DEF Occupant, Present, Typed
<1>3. \A d, s \in Conn : HasGot(d, Ready(s)) => HasGot(d, Ready(s))'
  BY <1>1 DEF HasGot, Ready
<1>4. \A d, s \in Conn : OnItsWay(d, Ready(s)) => OnItsWay(d, Ready(s))'
  BY <1>1 DEF OnItsWay, Ready
<1>5. ASSUME faults \cap {"join", "loss", "overdue", "outlive"} = {}, NEW y \in Conn, y # c, Paired(c, y)'
      PROVE  Notifies(c, y)'
  <2>1. Present(y) /\ RoleOf[y] = opposite(RoleOf[c])
    BY <1>2, <1>5 DEF Paired
  <2>2. CountsCover
    BY <1>5 DEF CountInv, CountsKept
  <2>3. Key.count[RoleOf[y]] > 0
    BY <2>1, <2>2, PresentIsCounted
  <2>4. pc'[c] = "readySelf"
    BY <1>1, <2>1, <2>3 DEF Typed
  <2> QED
    BY <2>4 DEF Notifies
<1> QED
  BY <1>1, <1>2, <1>3, <1>4, <1>5, PairMover

LEMMA PairReadySelf == ASSUME Typed, PairInv, NEW c \in Conn, ReadySelf(c) PROVE PairInv'
<1>1. /\ pc[c] = "readySelf" /\ UNCHANGED <<faults, rooms, inbox>>
      /\ pc' = [pc EXCEPT ![c] = "ready"]
      /\ got' = [got EXCEPT ![c] = Append(@, Ready(c))]
  BY DEF ReadySelf, Goto, Ready, Frame
<1>2. \A d \in Conn : d # c /\ Occupant(d)' /\ Present(d)' =>
        Occupant(d) /\ Present(d) /\ pc'[d] = pc[d]
  BY <1>1 DEF Occupant, Present, Typed
<1>3. Ready(c) \in FrameType
  BY DEF Ready, FrameType
<1>4. ASSUME NEW d \in Conn, NEW s \in Conn, HasGot(d, Ready(s)) PROVE HasGot(d, Ready(s))'
  <2>1. got[d] \in Seq(FrameType) /\ got'[d] \in {got[d], Append(got[d], Ready(c))}
    BY <1>1 DEF Typed
  <2>2. \A k \in DOMAIN got[d] : k \in DOMAIN got'[d] /\ got'[d][k] = got[d][k]
    BY <1>3, <2>1, AppendKeeps
  <2> QED
    BY <1>4, <2>2 DEF HasGot, Ready
<1>5. \A d, s \in Conn : OnItsWay(d, Ready(s)) => OnItsWay(d, Ready(s))'
  BY <1>1 DEF OnItsWay, Ready
<1>6. HasGot(c, Ready(c))' /\ pc'[c] = "ready"
  <2>1. got[c] \in Seq(FrameType) /\ got'[c] = Append(got[c], Ready(c)) /\ pc'[c] = "ready"
    BY <1>1 DEF Typed
  <2>2. \E k \in DOMAIN got'[c] : got'[c][k] = Ready(c)
    BY <1>3, <2>1, AppendKeeps
  <2> QED
    BY <2>1, <2>2 DEF HasGot, Ready
<1>7. \A y \in Conn : Notifies(c, y)'
  BY <1>6 DEF Notifies
<1> QED
  BY <1>1, <1>2, <1>4, <1>5, <1>7, PairMover

LEMMA PairPublish == ASSUME Typed, RoomInv, PairInv, NEW c \in Conn, Publish(c) PROVE PairInv'
<1>1. /\ pc[c] \in {"ready", "relay", "bye"} /\ UNCHANGED <<faults, rooms, got>>
      /\ inbox' = Fanout(Outgoing(c)) \/ ("loss" \in faults /\ UNCHANGED inbox)
      /\ pc' = [pc EXCEPT ![c] = IF pc[c] = "bye" THEN "done" ELSE "serving"]
  BY DEF Publish, AfterPublish, Goto
<1> DEFINE e == [to |-> opposite(RoleOf[c]), frame |-> Outgoing(c)]
<1>2. e \in Envelope
  BY <1>1, RoleFacts, OutgoingTyped DEF Envelope
<1>3. ASSUME NEW i \in Inst
      PROVE  /\ inbox[i] \in Seq(Envelope)
             /\ inbox'[i] = inbox[i] \/ inbox'[i] = Append(inbox[i], e)
             /\ "loss" \notin faults /\ i \in up => inbox'[i] = Append(inbox[i], e)
  <2>1. Outgoing(c) \in FrameType /\ Outgoing(c).src = c
    BY <1>1, OutgoingTyped DEF Outgoing, Frame
  <2> QED
    BY <1>1, <2>1, FanoutEffect DEF Typed
<1>4. \A d \in Conn : d # c /\ Occupant(d)' /\ Present(d)' =>
        Occupant(d) /\ Present(d) /\ pc'[d] = pc[d]
  BY <1>1 DEF Occupant, Present, Typed
<1>5. \A d, s \in Conn : HasGot(d, Ready(s)) => HasGot(d, Ready(s))'
  BY <1>1 DEF HasGot, Ready
<1> HIDE DEF e
<1>6. ASSUME NEW d \in Conn, NEW s \in Conn, OnItsWay(d, Ready(s)) PROVE OnItsWay(d, Ready(s))'
  <2>1. InstOf[d] \in Inst
    BY RoleFacts
  <2>2. \A k \in DOMAIN inbox[InstOf[d]] :
          k \in DOMAIN inbox'[InstOf[d]] /\ inbox'[InstOf[d]][k] = inbox[InstOf[d]][k]
    BY <1>2, <1>3, <2>1, AppendKeeps
  <2> QED
    BY <1>6, <2>2 DEF OnItsWay, Ready
<1>7. ASSUME faults \cap {"join", "loss", "overdue", "outlive"} = {}, NEW y \in Conn, y # c, Paired(c, y)'
      PROVE  Notifies(c, y)' \/ Notifies(y, c)'
  <2>1. Occupant(c) /\ Occupant(y) /\ Present(y) /\ RoleOf[y] = opposite(RoleOf[c]) /\ pc'[y] = pc[y]
    BY <1>1, <1>4, <1>7 DEF Paired, Occupant
  <2>2. Present(c) /\ pc[c] # "readySelf"
    BY <1>1, <1>7 DEF Paired, Present, Typed
  <2>3. Notifies(c, y) \/ Notifies(y, c)
    BY <1>7, <2>1, <2>2 DEF PairInv, Paired
  <2>4. CASE Notifies(y, c)
    BY <1>5, <1>6, <2>1, <2>4 DEF Notifies
  <2>5. CASE Notifies(c, y) /\ pc[c] # "ready"
    BY <1>5, <1>6, <2>2, <2>5 DEF Notifies
  <2>6. CASE Notifies(c, y) /\ pc[c] = "ready"
    <3>1. HasGot(c, Ready(c))'
      BY <1>5, <2>6 DEF Notifies
    <3>2. InstOf[y] \in Inst /\ InstOf[y] \in up
      BY <2>1, RoleFacts DEF Occupant, RoomInv
    <3>3. e = [to |-> RoleOf[y], frame |-> Ready(c)]
      BY <2>1, <2>6 DEF e, Outgoing, Frame, Ready
    <3>4. inbox'[InstOf[y]] = Append(inbox[InstOf[y]], e) /\ inbox[InstOf[y]] \in Seq(Envelope)
      BY <1>3, <1>7, <3>2
    <3>5. \E k \in DOMAIN inbox'[InstOf[y]] : inbox'[InstOf[y]][k] = e
      BY <1>2, <3>4, AppendKeeps
    <3>6. OnItsWay(y, Ready(c))'
      BY <3>3, <3>5 DEF OnItsWay, Ready
    <3> QED
      BY <3>1, <3>6 DEF Notifies
  <2> QED
    BY <2>3, <2>4, <2>5, <2>6
<1> QED
  BY <1>1, <1>4, <1>5, <1>6, <1>7, PairMover

LEMMA PairDeliver ==
  ASSUME Typed, RoomInv, PairInv, NEW i \in Inst, Deliver(i)
  PROVE  PairInv'
<1> DEFINE m == Head(inbox[i])
           r == rooms[i][m.to]
<1>1. /\ inbox[i] # <<>> /\ UNCHANGED <<faults, rooms, pc>>
      /\ inbox' = [inbox EXCEPT ![i] = Tail(@)]
      /\ got' = IF r = None THEN got ELSE [got EXCEPT ![r] = Append(@, m.frame)]
  BY DEF Deliver
<1>2. m \in Envelope /\ m.frame \in FrameType /\ inbox[i] \in Seq(Envelope)
  <2>1. inbox[i] \in Seq(Envelope)
    BY DEF Typed
  <2>2. m \in Envelope
    BY <1>1, <2>1
  <2> QED
    BY <2>1, <2>2 DEF Envelope
<1>3. r \in Conn \cup {None}
  BY <1>2 DEF Envelope, Typed
<1> HIDE DEF r, m
<1>4. ASSUME NEW d \in Conn, NEW s \in Conn, HasGot(d, Ready(s)) PROVE HasGot(d, Ready(s))'
  <2>1. got[d] \in Seq(FrameType) /\ got'[d] \in {got[d], Append(got[d], m.frame)}
    BY <1>1, <1>3 DEF Typed
  <2>2. \A k \in DOMAIN got[d] : k \in DOMAIN got'[d] /\ got'[d][k] = got[d][k]
    BY <1>2, <2>1, AppendKeeps
  <2> QED
    BY <1>4, <2>2 DEF HasGot, Ready
<1>5. ASSUME NEW x \in Conn, NEW s \in Conn, Occupant(x)', OnItsWay(x, Ready(s))
      PROVE  OnItsWay(x, Ready(s))' \/ HasGot(x, Ready(s))'
  <2>1. CASE InstOf[x] # i
    <3>1. inbox'[InstOf[x]] = inbox[InstOf[x]]
      BY <1>1, <2>1, RoleFacts DEF Typed
    <3> QED
      BY <1>5, <3>1 DEF OnItsWay, Ready
  <2>2. CASE InstOf[x] = i
    <3>1. PICK k \in DOMAIN inbox[i] : inbox[i][k] = [to |-> RoleOf[x], frame |-> Ready(s)]
      BY <1>5, <2>2 DEF OnItsWay
    <3>2. CASE k = 1
      <4>1. m.to = RoleOf[x] /\ m.frame = Ready(s)
        BY <3>1, <3>2, <1>2 DEF m
      <4>2. r = x
        BY <1>1, <1>5, <2>2, <4>1 DEF r, Occupant
      <4>3. got[x] \in Seq(FrameType) /\ got'[x] = Append(got[x], Ready(s))
        BY <1>1, <4>1, <4>2, RoleFacts DEF Typed
      <4>4. \E l \in DOMAIN got'[x] : got'[x][l] = Ready(s)
        <5>1. Ready(s) \in FrameType
          BY <1>2, <4>1
        <5>2. \E l \in DOMAIN Append(got[x], Ready(s)) : Append(got[x], Ready(s))[l] = Ready(s)
          BY ONLY <4>3, <5>1, AppendKeeps
        <5> QED
          BY ONLY <4>3, <5>2
      <4> QED
        BY <4>4 DEF HasGot, Ready
    <3>3. CASE k # 1
      <4>1. inbox'[i] = Tail(inbox[i])
        BY <1>1 DEF Typed
      <4>2. k - 1 \in DOMAIN Tail(inbox[i]) /\ Tail(inbox[i])[k - 1] = inbox[i][k]
        BY <1>2, <3>1, <3>3
      <4> QED
        BY <2>2, <3>1, <4>1, <4>2 DEF OnItsWay, Ready
    <3> QED
      BY <3>2, <3>3
  <2> QED
    BY <2>1, <2>2
<1>6. \A c \in Conn : Occupant(c)' /\ Present(c)' => Occupant(c) /\ Present(c) /\ pc'[c] = pc[c]
  BY <1>1 DEF Occupant, Present
<1> QED
  BY <1>1, <1>4, <1>5, <1>6, PairSame

LEMMA PairStep ==
  ASSUME Typed, CountInv, RoomInv, PairInv, [Next]_vars
  PROVE  PairInv'
<1>1. ASSUME NEW c \in Conn, Register(c) \/ HubLeave(c) PROVE PairInv'
  <2>1. UNCHANGED <<faults, got, inbox>>
    BY <1>1 DEF Register, HubLeave
  <2>2. ASSUME NEW d \in Conn, Occupant(d)', Present(d)'
        PROVE  Occupant(d) /\ Present(d) /\ pc'[d] = pc[d]
    <3>1. CASE Register(c)
      <4>1. pc' = [pc EXCEPT ![c] = "presence"] /\ rooms' = [rooms EXCEPT ![InstOf[c]][RoleOf[c]] = c]
        BY <3>1 DEF Register, Goto
      <4>2. d # c
        BY <2>2, <4>1 DEF Present, Typed
      <4> QED
        BY <2>2, <4>1, <4>2, RoleFacts DEF Present, Occupant, Typed
    <3>2. CASE HubLeave(c)
      <4>1. /\ pc' = [pc EXCEPT ![c] = "presLeave"]
            /\ rooms' = [rooms EXCEPT ![InstOf[c]][RoleOf[c]] = IF @ = c THEN None ELSE @]
        BY <3>2 DEF HubLeave, Goto
      <4>2. rooms'[InstOf[d]][RoleOf[d]] \in {None, rooms[InstOf[d]][RoleOf[d]]}
        BY <4>1, RoleFacts DEF Typed
      <4>3. rooms'[InstOf[c]][RoleOf[c]] # c
        BY <4>1, RoleFacts DEF Typed
      <4>4. d # c /\ Occupant(d)
        BY <2>2, <4>2, <4>3, RoleFacts DEF Occupant
      <4> QED
        BY <2>2, <4>1, <4>4 DEF Present, Typed
    <3> QED
      BY <1>1, <3>1, <3>2
  <2>3. \A d, s \in Conn : HasGot(d, Ready(s)) => HasGot(d, Ready(s))'
    BY <2>1 DEF HasGot, Ready
  <2>4. \A d, s \in Conn : OnItsWay(d, Ready(s)) => OnItsWay(d, Ready(s))'
    BY <2>1 DEF OnItsWay, Ready
  <2> QED
    BY <2>1, <2>2, <2>3, <2>4, PairSame
<1>2. ASSUME NEW c \in Conn, PresenceJoinError(c) PROVE PairInv'
  BY <1>2 DEF PresenceJoinError, PairInv
<1>3. ASSUME NEW c \in Conn,
             ReadEnvelope(c) \/ ReadError(c) \/ PresenceLeave(c) \/ PresenceLeaveError(c) \/ RoomEnded(c)
      PROVE  PairInv'
  <2>1. UNCHANGED <<faults, rooms, got, inbox>>
    BY <1>3 DEF ReadEnvelope, ReadError, PresenceLeave, PresenceLeaveError, RoomEnded
  <2>2. PICK l \in PC : /\ pc' = [pc EXCEPT ![c] = l]
                        /\ pc[c] = "serving" \/ l \in {"ended", "bye"}
    BY <1>3 DEF ReadEnvelope, ReadError, PresenceLeave, PresenceLeaveError, RoomEnded,
                AfterLeave, Goto, PC
  <2>3. \A d \in Conn : Present(d)' =>
          Present(d) /\ (pc'[d] = pc[d] \/ pc[d] \notin {"readySelf", "ready"})
    BY <2>2 DEF Present, Typed
  <2> QED
    BY <2>1, <2>3, PairQuiet
<1>4. ASSUME NEW i \in Inst, Miss(i) PROVE PairInv'
  BY <1>4 DEF Miss, PairInv
<1>5. ASSUME NEW i \in Inst, Crash(i) PROVE PairInv'
  <2>1. /\ UNCHANGED <<faults, got>>
        /\ \A c \in Conn : InstOf[c] # i => pc'[c] = pc[c]
        /\ \A r \in Role : rooms'[i][r] = None
        /\ \A j \in Inst : j # i => rooms'[j] = rooms[j] /\ inbox'[j] = inbox[j]
    BY <1>5 DEF Crash, Typed
  <2>2. ASSUME NEW c \in Conn, Occupant(c)' PROVE InstOf[c] # i
    BY <2>1, <2>2, RoleFacts DEF Occupant
  <2>3. ASSUME NEW c \in Conn, Occupant(c)', Present(c)'
        PROVE  Occupant(c) /\ Present(c) /\ pc'[c] = pc[c]
    BY <2>1, <2>2, <2>3, RoleFacts DEF Occupant, Present
  <2>4. \A d, s \in Conn : HasGot(d, Ready(s)) => HasGot(d, Ready(s))'
    BY <2>1 DEF HasGot, Ready
  <2>5. \A d, s \in Conn : Occupant(d)' /\ OnItsWay(d, Ready(s)) => OnItsWay(d, Ready(s))'
    BY <2>1, <2>2, RoleFacts DEF OnItsWay, Ready
  <2> QED
    BY <2>1, <2>3, <2>4, <2>5, PairSame
<1>6. ASSUME UNCHANGED <<faults, rooms, got, inbox, pc>> PROVE PairInv'
  BY <1>6, PairQuiet DEF Present
<1>7. ASSUME NEW i \in Inst, Start(i) PROVE PairInv'
  BY <1>6, <1>7 DEF Start, connVars
<1>8. CASE Tick \/ UNCHANGED vars
  BY <1>6, <1>8 DEF Tick, vars, connVars
<1>9. ASSUME NEW c \in Conn, Overdue(c) PROVE PairInv'
  BY <1>9 DEF Overdue, PairInv
<1>10. ASSUME NEW a \in limbo, ExecuteLate(a) PROVE PairInv'
  <2>1. "overdue" \in faults /\ faults' = faults
    BY <1>10 DEF ExecuteLate, Typed
  <2> QED
    BY <2>1 DEF PairInv
<1> QED
  BY <1>1, <1>2, <1>3, <1>4, <1>5, <1>7, <1>8, <1>9, <1>10, PairJoin, PairReadySelf, PairPublish, PairDeliver
     DEF Next, Handler

-----------------------------------------------------------------------------
(* The order of frames. *)

Early == {"new", "presence", "readySelf", "ready"}

\* A connection counts what it sends, and reaches "relay" only by sending.
LEMMA Advance ==
  ASSUME Typed, [Next]_vars, NEW s \in Conn, pc[s] \notin Early
  PROVE  /\ pc'[s] \notin Early
         /\ \/ /\ sent'[s] = sent[s]
               /\ pc'[s] = "relay" => pc[s] = "relay"
               /\ pc[s] = "done" => pc'[s] = "done"
            \/ pc[s] = "serving" /\ sent'[s] = sent[s] + 1
<1> USE DEF Typed, Early
<1>1. ASSUME UNCHANGED <<pc, sent>>
      PROVE  pc'[s] = pc[s] /\ sent'[s] = sent[s]
  BY <1>1
<1>2. ASSUME NEW c \in Conn, ReadEnvelope(c)
      PROVE  /\ c # s => pc'[s] = pc[s] /\ sent'[s] = sent[s]
             /\ c = s => pc[s] = "serving" /\ pc'[s] = "relay" /\ sent'[s] = sent[s] + 1
  BY <1>2 DEF ReadEnvelope, Goto
<1>3. ASSUME NEW c \in Conn, Handler(c), ~ReadEnvelope(c)
      PROVE  /\ c # s => pc'[s] = pc[s]
             /\ c = s => pc'[s] \in {pc[s], "serving", "hubLeave", "presLeave", "ended", "bye", "done"}
             /\ pc[c] # "done" /\ sent' = sent
  <2>1. CASE Register(c) \/ PresenceJoin(c) \/ PresenceJoinError(c) \/ ReadySelf(c)
    BY <2>1 DEF Register, PresenceJoin, PresenceJoinError, ReadySelf, Goto
  <2>2. CASE Publish(c) \/ Overdue(c) \/ ReadError(c) \/ HubLeave(c) \/ RoomEnded(c)
    BY <2>2 DEF Publish, Overdue, AfterPublish, ReadError, HubLeave, RoomEnded, Goto
  <2>3. CASE PresenceLeave(c) \/ PresenceLeaveError(c)
    BY <2>3 DEF PresenceLeave, PresenceLeaveError, AfterLeave, Goto
  <2> QED
    BY <1>3, <2>1, <2>2, <2>3 DEF Handler
<1>4. ASSUME NEW i \in Inst, Crash(i)
      PROVE  pc'[s] \in {pc[s], "done"} /\ sent' = sent
  BY <1>4 DEF Crash
<1>5. ASSUME NEW i \in Inst, Deliver(i) \/ Miss(i) \/ Start(i) PROVE UNCHANGED <<pc, sent>>
  BY <1>5 DEF Deliver, Miss, Start, connVars
<1>6. ASSUME Tick \/ UNCHANGED vars \/ (\E a \in limbo : ExecuteLate(a)) PROVE UNCHANGED <<pc, sent>>
  BY <1>6 DEF Tick, ExecuteLate, vars, connVars
<1>7. CASE \E c \in Conn : Handler(c)
  BY <1>2, <1>3, <1>7
<1>8. CASE \E i \in Inst : Crash(i)
  BY <1>4, <1>8
<1>9. CASE UNCHANGED <<pc, sent>>
  BY <1>1, <1>9
<1> QED
  BY <1>5, <1>6, <1>7, <1>8, <1>9 DEF Next

LEMMA RankType == ASSUME NEW f \in FrameType PROVE Rank(f) \in Nat
BY DEF FrameType, Rank

\* What was published stays published.
LEMMA PublishedKeeps ==
  ASSUME Typed, [Next]_vars, NEW f \in FrameType, Published(f)
  PROVE  Published(f)'
<1>1. f.src \in Conn /\ Rank(f) \in Nat
  BY RankType DEF FrameType
<1>2. pc[f.src] \notin Early /\ sent[f.src] \in Nat
  BY <1>1 DEF Published, Early, Typed
<1>3. /\ pc'[f.src] \notin Early
      /\ \/ /\ sent'[f.src] = sent[f.src]
            /\ pc'[f.src] = "relay" => pc[f.src] = "relay"
            /\ pc[f.src] = "done" => pc'[f.src] = "done"
         \/ pc[f.src] = "serving" /\ sent'[f.src] = sent[f.src] + 1
  BY <1>1, <1>2, Advance
<1>4. Rank(f)' = Rank(f)
  BY DEF Rank
<1>5. CASE sent'[f.src] = sent[f.src] /\ (pc'[f.src] = "relay" => pc[f.src] = "relay")
           /\ (pc[f.src] = "done" => pc'[f.src] = "done")
  BY <1>1, <1>2, <1>3, <1>4, <1>5 DEF Published, Early
<1>6. CASE pc[f.src] = "serving" /\ sent'[f.src] = sent[f.src] + 1
  BY <1>1, <1>2, <1>3, <1>4, <1>6 DEF Published, Early
<1> QED
  BY <1>3, <1>5, <1>6

\* What is published next comes after everything published before.
LEMMA NextIsLater ==
  ASSUME Typed, NEW c \in Conn, pc[c] \in {"ready", "relay", "bye"},
         NEW g \in FrameType, Published(g), g.src = c
  PROVE  Rank(g) < Rank(Outgoing(c))
<1>1. Rank(g) \in Nat /\ sent[c] \in Nat
  BY RankType DEF Typed
<1>2. CASE pc[c] = "ready"
  BY <1>2 DEF Published
<1>3. CASE pc[c] = "relay"
  <2>1. Rank(Outgoing(c)) = 2 * sent[c]
    BY <1>1, <1>3 DEF Outgoing, Frame, Rank
  <2> QED
    BY <1>1, <1>3, <2>1 DEF Published
<1>4. CASE pc[c] = "bye"
  <2>1. Rank(Outgoing(c)) = 2 * sent[c] + 1
    BY <1>1, <1>4 DEF Outgoing, Frame, Rank
  <2> QED
    BY <1>1, <1>4, <2>1 DEF Published
<1> QED
  BY <1>2, <1>3, <1>4

LEMMA OutgoingPublished ==
  ASSUME Typed, NEW c \in Conn, Publish(c), NEW f, f = Outgoing(c)
  PROVE  Published(f)' /\ f.src = c
<1>1. sent[c] \in Nat /\ sent' = sent /\ pc[c] \in {"ready", "relay", "bye"}
      /\ pc'[c] = IF pc[c] = "bye" THEN "done" ELSE "serving"
  BY DEF Typed, Publish, AfterPublish, Goto
<1>2. CASE pc[c] = "ready"
  BY <1>1, <1>2 DEF Outgoing, Frame, Rank, Published
<1>3. CASE pc[c] = "relay"
  BY <1>1, <1>3 DEF Outgoing, Frame, Rank, Published
<1>4. CASE pc[c] = "bye"
  BY <1>1, <1>4 DEF Outgoing, Frame, Rank, Published
<1> QED
  BY <1>1, <1>2, <1>3, <1>4

LEMMA TailFacts ==
  ASSUME NEW T, NEW s \in Seq(T), s # <<>>
  PROVE  /\ \A k \in DOMAIN Tail(s) : k \in Nat /\ k + 1 \in DOMAIN s /\ Tail(s)[k] = s[k + 1] /\ k + 1 > 1
         /\ 1 \in DOMAIN s /\ Head(s) = s[1]
OBVIOUS

\* What an instance has still to deliver is the end of what it had.
Shrinks(i) ==
  \E h \in Nat : \A k \in DOMAIN inbox'[i] :
    k \in Nat /\ k + h \in DOMAIN inbox[i] /\ inbox'[i][k] = inbox[i][k + h]

LEMMA EntryTyped ==
  ASSUME Typed
  PROVE  /\ \A i \in Inst : \A k \in DOMAIN inbox[i] :
              k \in Nat /\ inbox[i][k] \in Envelope /\ inbox[i][k].frame \in FrameType
         /\ \A c \in Conn : \A k \in DOMAIN got[c] : k \in Nat /\ got[c][k] \in FrameType
<1>1. ASSUME NEW i \in Inst, NEW k \in DOMAIN inbox[i]
      PROVE  k \in Nat /\ inbox[i][k] \in Envelope /\ inbox[i][k].frame \in FrameType
  <2>1. inbox[i] \in Seq(Envelope)
    BY DEF Typed
  <2>2. k \in Nat /\ inbox[i][k] \in Envelope
    BY <2>1
  <2> QED
    BY <2>2 DEF Envelope
<1>2. ASSUME NEW c \in Conn, NEW k \in DOMAIN got[c] PROVE k \in Nat /\ got[c][k] \in FrameType
  <2>1. got[c] \in Seq(FrameType)
    BY DEF Typed
  <2> QED
    BY <2>1
<1> QED
  BY <1>1, <1>2

\* An attempt that was given up stays given up, so what holds of the frames that
\* were not overdue is kept.
LEMMA OverdueGrows == ASSUME [Next]_vars PROVE overdue \subseteq overdue'
<1> USE DEF lateVars
<1>1. ASSUME NEW c \in Conn, Handler(c) PROVE overdue \subseteq overdue'
  BY <1>1 DEF Handler, Register, PresenceJoin, PresenceJoinError, ReadySelf, Publish, Overdue,
              ReadEnvelope, ReadError, HubLeave, PresenceLeave, PresenceLeaveError, RoomEnded
<1>2. ASSUME NEW i \in Inst, Deliver(i) \/ Miss(i) \/ Crash(i) \/ Start(i)
      PROVE  overdue \subseteq overdue'
  BY <1>2 DEF Deliver, Miss, Crash, Start
<1>3. ASSUME NEW a \in limbo, ExecuteLate(a) PROVE overdue \subseteq overdue'
  BY <1>3 DEF ExecuteLate
<1> QED
  BY <1>1, <1>2, <1>3 DEF Next, Tick, vars

LEMMA SentKeeps ==
  ASSUME Typed, [Next]_vars, NEW f \in FrameType, Sent(f)
  PROVE  Sent(f)'
<1>1. Prompt(f)' => Prompt(f)
  BY OverdueGrows DEF Prompt
<1>2. Published(f) => Published(f)'
  BY PublishedKeeps
<1> QED
  BY <1>1, <1>2 DEF Sent

LEMMA BeforeKeeps ==
  ASSUME [Next]_vars, NEW f, NEW g, Before(f, g)
  PROVE  Before(f, g)'
<1>1. (Prompt(f)' => Prompt(f)) /\ (Prompt(g)' => Prompt(g))
  BY OverdueGrows DEF Prompt
<1>2. Rank(f)' = Rank(f) /\ Rank(g)' = Rank(g)
  BY DEF Rank
<1> QED
  BY <1>1, <1>2 DEF Before

LEMMA InboxShrinks ==
  ASSUME Typed, InboxOrder, [Next]_vars, \A i \in Inst : Shrinks(i)
  PROVE  InboxOrder'
<1> SUFFICES ASSUME NEW i \in Inst, NEW k \in DOMAIN inbox'[i]
             PROVE  /\ Sent(inbox[i][k].frame)'
                    /\ \A l \in DOMAIN inbox'[i] :
                         k < l /\ inbox'[i][k].frame.src = inbox'[i][l].frame.src
                         => Before(inbox[i][k].frame, inbox[i][l].frame)'
  BY DEF InboxOrder, Sent, Before, Prompt, Published, Rank
<1>1. PICK h \in Nat : \A l \in DOMAIN inbox'[i] :
        l \in Nat /\ l + h \in DOMAIN inbox[i] /\ inbox'[i][l] = inbox[i][l + h]
  BY DEF Shrinks
<1>2. Sent(inbox[i][k].frame)'
  <2>1. k + h \in DOMAIN inbox[i] /\ inbox'[i][k] = inbox[i][k + h]
    BY <1>1
  <2>2. PICK f \in FrameType : f = inbox[i][k + h].frame /\ Sent(f)
    BY <2>1, EntryTyped DEF InboxOrder
  <2>3. Sent(f)' /\ inbox'[i][k].frame = f
    BY <2>1, <2>2, SentKeeps
  <2> QED
    BY <2>3 DEF Sent, Prompt, Published, Rank
<1>3. ASSUME NEW l \in DOMAIN inbox'[i], k < l, inbox'[i][k].frame.src = inbox'[i][l].frame.src
      PROVE  Before(inbox[i][k].frame, inbox[i][l].frame)'
  <2>1. k + h \in DOMAIN inbox[i] /\ l + h \in DOMAIN inbox[i] /\ k + h < l + h
        /\ inbox'[i][k] = inbox[i][k + h] /\ inbox'[i][l] = inbox[i][l + h]
    BY <1>1, <1>3
  <2>2. PICK f \in FrameType, g \in FrameType :
          f = inbox[i][k + h].frame /\ g = inbox[i][l + h].frame /\ Before(f, g)
    BY <1>3, <2>1, EntryTyped DEF InboxOrder
  <2>3. Before(f, g)' /\ inbox'[i][k].frame = f /\ inbox'[i][l].frame = g
    BY <2>1, <2>2, BeforeKeeps
  <2> QED
    BY <2>3 DEF Before, Prompt, Rank
<1> QED
  BY <1>2, <1>3

\* What a connection has got from others, while its instance's inbox shrinks.
LEMMA GotKept ==
  ASSUME Typed, GotOrder, [Next]_vars, \A i \in Inst : Shrinks(i),
         NEW c \in Conn, NEW k \in DOMAIN got[c], got[c][k].src # c,
         k \in DOMAIN got'[c], got'[c][k] = got[c][k]
  PROVE  /\ Sent(got[c][k])'
         /\ \A l \in DOMAIN inbox'[InstOf[c]] :
              got[c][k].src = inbox'[InstOf[c]][l].frame.src
              => Before(got[c][k], inbox[InstOf[c]][l].frame)'
<1>1. PICK f \in FrameType : f = got[c][k] /\ Sent(f)
  BY EntryTyped DEF GotOrder
<1>2. Sent(f)'
  BY <1>1, SentKeeps
<1>3. Sent(got[c][k])'
  BY <1>1, <1>2 DEF Sent, Prompt, Published, Rank
<1>4. InstOf[c] \in Inst
  BY RoleFacts
<1>5. PICK h \in Nat : \A l \in DOMAIN inbox'[InstOf[c]] :
        l + h \in DOMAIN inbox[InstOf[c]] /\ inbox'[InstOf[c]][l] = inbox[InstOf[c]][l + h]
  BY <1>4 DEF Shrinks
<1>6. ASSUME NEW l \in DOMAIN inbox'[InstOf[c]], got[c][k].src = inbox'[InstOf[c]][l].frame.src
      PROVE  Before(got[c][k], inbox[InstOf[c]][l].frame)'
  <2>1. l + h \in DOMAIN inbox[InstOf[c]] /\ inbox'[InstOf[c]][l] = inbox[InstOf[c]][l + h]
    BY <1>5
  <2>2. PICK g \in FrameType : g = inbox[InstOf[c]][l + h].frame /\ Before(f, g)
    BY <1>1, <1>4, <1>6, <2>1, EntryTyped DEF GotOrder
  <2>3. Before(f, g)' /\ inbox'[InstOf[c]][l].frame = g /\ got'[c][k] = f
    BY <1>1, <2>1, <2>2, BeforeKeeps
  <2> QED
    BY <2>3 DEF Before, Prompt, Rank
<1> QED
  BY <1>3, <1>6

LEMMA OrderShrink ==
  ASSUME Typed, OrderInv, [Next]_vars, \A i \in Inst : Shrinks(i),
         \A c \in Conn : got'[c] = got[c] \/ \E f \in FrameType : f.src = c /\ got'[c] = Append(got[c], f)
  PROVE  OrderInv'
<1>1. InboxOrder'
  BY InboxShrinks DEF OrderInv
<1>2. GotOrder'
  <2> SUFFICES ASSUME NEW c \in Conn, NEW k \in DOMAIN got'[c], got'[c][k].src # c
               PROVE  /\ Sent(got[c][k])'
                      /\ \A l \in DOMAIN got'[c] :
                           k < l /\ got'[c][k].src = got'[c][l].src => Before(got[c][k], got[c][l])'
                      /\ \A l \in DOMAIN inbox'[InstOf[c]] :
                           got'[c][k].src = inbox'[InstOf[c]][l].frame.src
                           => Before(got[c][k], inbox[InstOf[c]][l].frame)'
    BY DEF GotOrder, Sent, Before, Prompt, Published, Rank
  <2>1. \A l \in DOMAIN got'[c] : got'[c][l].src # c => l \in DOMAIN got[c] /\ got'[c][l] = got[c][l]
    <3>1. CASE got'[c] = got[c]
      BY <3>1
    <3>2. CASE got'[c] # got[c]
      <4>1. PICK f \in FrameType : f.src = c /\ got'[c] = Append(got[c], f)
        BY <3>2
      <4>2. got[c] \in Seq(FrameType)
        BY DEF Typed
      <4> QED
        BY <4>1, <4>2, AppendKeeps
    <3> QED
      BY <3>1, <3>2
  <2>2. k \in DOMAIN got[c] /\ got'[c][k] = got[c][k] /\ got[c][k].src # c
    BY <2>1
  <2>3. /\ Sent(got[c][k])'
        /\ \A l \in DOMAIN inbox'[InstOf[c]] :
             got[c][k].src = inbox'[InstOf[c]][l].frame.src
             => Before(got[c][k], inbox[InstOf[c]][l].frame)'
    BY <2>2, GotKept DEF OrderInv
  <2>4. ASSUME NEW l \in DOMAIN got'[c], k < l, got'[c][k].src = got'[c][l].src
        PROVE  Before(got[c][k], got[c][l])'
    <3>1. l \in DOMAIN got[c] /\ got'[c][l] = got[c][l]
      BY <2>1, <2>4
    <3>2. PICK f \in FrameType, g \in FrameType : f = got[c][k] /\ g = got[c][l] /\ Before(f, g)
      BY <2>2, <2>4, <3>1, EntryTyped DEF OrderInv, GotOrder
    <3>3. Before(f, g)' /\ got'[c][k] = f /\ got'[c][l] = g
      BY <2>2, <3>1, <3>2, BeforeKeeps
    <3> QED
      BY <3>3 DEF Before, Prompt, Rank
  <2> QED
    BY <2>2, <2>3, <2>4
<1> QED
  BY <1>1, <1>2 DEF OrderInv

LEMMA OrderDeliver ==
  ASSUME Typed, RoomInv, OrderInv, NEW i \in Inst, Deliver(i), [Next]_vars,
         \A j \in Inst : Shrinks(j)
  PROVE  OrderInv'
<1> DEFINE m == Head(inbox[i])
           r == rooms[i][m.to]
           g == m.frame
<1>1. /\ inbox[i] # <<>>
      /\ inbox' = [inbox EXCEPT ![i] = Tail(@)]
      /\ got' = IF r = None THEN got ELSE [got EXCEPT ![r] = Append(@, g)]
  BY DEF Deliver
<1>2. inbox[i] \in Seq(Envelope)
  BY DEF Typed
<1>3. m \in Envelope /\ m = inbox[i][1] /\ 1 \in DOMAIN inbox[i]
  BY <1>1, <1>2, TailFacts
<1>4. g \in FrameType /\ r \in Conn \cup {None} /\ (r # None => InstOf[r] = i)
  BY <1>3 DEF Envelope, Typed, RoomInv
<1>5. inbox'[i] = Tail(inbox[i])
  BY <1>1 DEF Typed
<1> HIDE DEF m, r, g
<1>6. PICK f \in FrameType : f = g
  BY <1>4
<1>7. Sent(f) /\ \A l \in DOMAIN inbox'[i] : f.src = inbox'[i][l].frame.src
                                            => Before(f, inbox[i][l].frame)'
  <2>1. f = inbox[i][1].frame
    BY <1>3, <1>6 DEF g
  <2>2. Sent(f)
    BY <1>3, <2>1 DEF OrderInv, InboxOrder
  <2>3. \A l \in DOMAIN inbox'[i] : l + 1 \in DOMAIN inbox[i] /\ inbox'[i][l] = inbox[i][l + 1] /\ 1 < l + 1
    BY <1>1, <1>2, <1>5, TailFacts
  <2>4. ASSUME NEW l \in DOMAIN inbox'[i], f.src = inbox'[i][l].frame.src
        PROVE  Before(f, inbox[i][l].frame)'
    <3>1. PICK e \in FrameType : e = inbox[i][l + 1].frame /\ Before(f, e)
      BY <1>3, <2>1, <2>3, <2>4, EntryTyped DEF OrderInv, InboxOrder
    <3>2. Before(f, e)' /\ inbox'[i][l].frame = e
      BY <2>3, <3>1, BeforeKeeps
    <3> QED
      BY <3>2 DEF Before, Prompt, Rank
  <2> QED
    BY <2>2, <2>4
<1>8. Sent(f)'
  BY <1>7, SentKeeps
<1>9. InboxOrder'
  BY InboxShrinks DEF OrderInv
<1>10. GotOrder'
  <2> SUFFICES ASSUME NEW c \in Conn, NEW k \in DOMAIN got'[c], got'[c][k].src # c
               PROVE  /\ Sent(got[c][k])'
                      /\ \A l \in DOMAIN got'[c] :
                           k < l /\ got'[c][k].src = got'[c][l].src => Before(got[c][k], got[c][l])'
                      /\ \A l \in DOMAIN inbox'[InstOf[c]] :
                           got'[c][k].src = inbox'[InstOf[c]][l].frame.src
                           => Before(got[c][k], inbox[InstOf[c]][l].frame)'
    BY DEF GotOrder, Sent, Before, Prompt, Published, Rank
  <2>1. got[c] \in Seq(FrameType) /\ (got'[c] = got[c] \/ (got'[c] = Append(got[c], f) /\ c = r))
    BY <1>1, <1>4, <1>6 DEF Typed
  <2>2. \A l \in DOMAIN got'[c] :
          \/ l \in DOMAIN got[c] /\ got'[c][l] = got[c][l]
          \/ got'[c][l] = f /\ c = r /\ l = Len(got[c]) + 1
    BY <2>1, AppendKeeps
  <2>3. CASE k \in DOMAIN got[c] /\ got'[c][k] = got[c][k]
    <3>1. /\ Sent(got[c][k])'
          /\ \A l \in DOMAIN inbox'[InstOf[c]] :
               got[c][k].src = inbox'[InstOf[c]][l].frame.src
               => Before(got[c][k], inbox[InstOf[c]][l].frame)'
      BY <2>3, GotKept DEF OrderInv
    <3>2. ASSUME NEW l \in DOMAIN got'[c], k < l, got'[c][k].src = got'[c][l].src
          PROVE  Before(got[c][k], got[c][l])'
      <4>1. PICK x \in FrameType, y \in FrameType :
              x = got'[c][k] /\ y = got'[c][l] /\ Before(x, y)
        <5>1. CASE l \in DOMAIN got[c] /\ got'[c][l] = got[c][l]
          BY <2>3, <3>2, <5>1, EntryTyped DEF OrderInv, GotOrder
        <5>2. CASE got'[c][l] = f /\ c = r
          <6>1. f = inbox[InstOf[c]][1].frame /\ 1 \in DOMAIN inbox[InstOf[c]]
            BY <1>3, <1>4, <1>6, <5>2, RoleFacts DEF g
          <6> QED
            BY <2>3, <3>2, <5>2, <6>1, EntryTyped DEF OrderInv, GotOrder
        <5> QED
          BY <2>2, <5>1, <5>2
      <4>2. Before(x, y)'
        BY <4>1, BeforeKeeps
      <4> QED
        BY <4>1, <4>2 DEF Before, Prompt, Rank
    <3> QED
      BY <2>3, <3>1, <3>2
  <2>4. CASE got'[c][k] = f /\ c = r /\ k = Len(got[c]) + 1
    <3>1. Sent(got[c][k])'
      BY <1>8, <2>4 DEF Sent, Prompt, Published, Rank
    <3>2. \A l \in DOMAIN got'[c] : ~(k < l)
      BY <2>1, <2>4
    <3>3. InstOf[c] = i
      BY <1>4, <2>4, RoleFacts
    <3>4. ASSUME NEW l \in DOMAIN inbox'[i], got'[c][k].src = inbox'[i][l].frame.src
          PROVE  Before(got[c][k], inbox[i][l].frame)'
      <4>1. Before(f, inbox[i][l].frame)'
        BY <1>7, <2>4, <3>4
      <4> QED
        BY <2>4, <4>1 DEF Before, Prompt, Rank
    <3> QED
      BY <3>1, <3>2, <3>3, <3>4
  <2> QED
    BY <2>2, <2>3, <2>4
<1> QED
  BY <1>9, <1>10 DEF OrderInv

\* A frame appended to the inboxes, after every frame of its source that was sent
\* before it.
LEMMA OrderAppend ==
  ASSUME Typed, OrderInv, [Next]_vars, got' = got, NEW f \in FrameType,
         NEW e \in Envelope, e.frame = f,
         \A i \in Inst : inbox'[i] \in {inbox[i], Append(inbox[i], e)},
         Sent(f)', \A g \in FrameType : Sent(g) /\ g.src = f.src => Before(g, f)
  PROVE  OrderInv'
<1>1. ASSUME NEW i \in Inst, NEW l \in DOMAIN inbox'[i]
      PROVE  /\ l \in Nat
             /\ \/ l \in DOMAIN inbox[i] /\ inbox'[i][l] = inbox[i][l]
                \/ inbox'[i][l].frame = f /\ l = Len(inbox[i]) + 1 /\ inbox'[i] = Append(inbox[i], e)
  <2>1. inbox[i] \in Seq(Envelope)
    BY DEF Typed
  <2> QED
    BY <2>1, AppendKeeps
<1>2. InboxOrder'
  <2> SUFFICES ASSUME NEW i \in Inst, NEW k \in DOMAIN inbox'[i]
               PROVE  /\ Sent(inbox[i][k].frame)'
                      /\ \A l \in DOMAIN inbox'[i] :
                           k < l /\ inbox'[i][k].frame.src = inbox'[i][l].frame.src
                           => Before(inbox[i][k].frame, inbox[i][l].frame)'
    BY DEF InboxOrder, Sent, Before, Prompt, Published, Rank
  <2>1. CASE k \in DOMAIN inbox[i] /\ inbox'[i][k] = inbox[i][k]
    <3>1. PICK g \in FrameType : g = inbox[i][k].frame /\ Sent(g)
      BY <2>1, EntryTyped DEF OrderInv, InboxOrder
    <3>2. Sent(g)'
      BY <3>1, SentKeeps
    <3>3. Sent(inbox[i][k].frame)'
      BY <2>1, <3>1, <3>2 DEF Sent, Prompt, Published, Rank
    <3>4. ASSUME NEW l \in DOMAIN inbox'[i], k < l, inbox'[i][k].frame.src = inbox'[i][l].frame.src
          PROVE  Before(inbox[i][k].frame, inbox[i][l].frame)'
      <4>1. PICK h \in FrameType : h = inbox'[i][l].frame /\ Before(g, h)
        <5>1. CASE l \in DOMAIN inbox[i] /\ inbox'[i][l] = inbox[i][l]
          BY <2>1, <3>1, <3>4, <5>1, EntryTyped DEF OrderInv, InboxOrder
        <5>2. CASE inbox'[i][l].frame = f
          BY <2>1, <3>1, <3>4, <5>2
        <5> QED
          BY <1>1, <5>1, <5>2
      <4>2. Before(g, h)'
        BY <4>1, BeforeKeeps
      <4> QED
        BY <2>1, <3>1, <4>1, <4>2 DEF Before, Prompt, Rank
    <3> QED
      BY <3>3, <3>4
  <2>2. CASE inbox'[i][k].frame = f /\ k = Len(inbox[i]) + 1 /\ inbox'[i] = Append(inbox[i], e)
    <3>1. Sent(inbox[i][k].frame)'
      BY <2>2 DEF Sent, Prompt, Published, Rank
    <3>2. inbox[i] \in Seq(Envelope)
      BY DEF Typed
    <3>3. \A l \in DOMAIN inbox'[i] : ~(k < l)
      BY <2>2, <3>2
    <3> QED
      BY <3>1, <3>3
  <2> QED
    BY <1>1, <2>1, <2>2
<1>3. GotOrder'
  <2> SUFFICES ASSUME NEW d \in Conn, NEW k \in DOMAIN got[d], got[d][k].src # d
               PROVE  /\ Sent(got[d][k])'
                      /\ \A l \in DOMAIN got[d] :
                           k < l /\ got[d][k].src = got[d][l].src => Before(got[d][k], got[d][l])'
                      /\ \A l \in DOMAIN inbox'[InstOf[d]] :
                           got[d][k].src = inbox'[InstOf[d]][l].frame.src
                           => Before(got[d][k], inbox[InstOf[d]][l].frame)'
    BY DEF GotOrder, Sent, Before, Prompt, Published, Rank
  <2>1. PICK g \in FrameType : g = got[d][k] /\ Sent(g)
    BY EntryTyped DEF OrderInv, GotOrder
  <2>2. Sent(got[d][k])'
    <3>1. Sent(g)'
      BY <2>1, SentKeeps
    <3> QED
      BY <2>1, <3>1 DEF Sent, Prompt, Published, Rank
  <2>3. InstOf[d] \in Inst
    BY RoleFacts
  <2>4. ASSUME NEW l \in DOMAIN inbox'[InstOf[d]], got[d][k].src = inbox'[InstOf[d]][l].frame.src
        PROVE  Before(got[d][k], inbox[InstOf[d]][l].frame)'
    <3>1. PICK h \in FrameType : h = inbox'[InstOf[d]][l].frame /\ Before(g, h)
      <4>1. CASE l \in DOMAIN inbox[InstOf[d]] /\ inbox'[InstOf[d]][l] = inbox[InstOf[d]][l]
        <5>1. Before(got[d][k], inbox[InstOf[d]][l].frame)
          BY <2>4, <4>1 DEF OrderInv, GotOrder
        <5>2. inbox[InstOf[d]][l].frame \in FrameType
          BY <2>3, <4>1, EntryTyped
        <5> QED
          BY <2>1, <4>1, <5>1, <5>2
      <4>2. CASE inbox'[InstOf[d]][l].frame = f
        BY <2>1, <2>4, <4>2
      <4> QED
        BY <1>1, <2>3, <4>1, <4>2
    <3>2. Before(g, h)'
      BY <3>1, BeforeKeeps
    <3> QED
      BY <2>1, <3>1, <3>2 DEF Before, Prompt, Rank
  <2>5. ASSUME NEW l \in DOMAIN got[d], k < l, got[d][k].src = got[d][l].src
        PROVE  Before(got[d][k], got[d][l])'
    <3>1. PICK h \in FrameType : h = got[d][l] /\ Before(g, h)
      BY <2>1, <2>5, EntryTyped DEF OrderInv, GotOrder
    <3>2. Before(g, h)'
      BY <3>1, BeforeKeeps
    <3> QED
      BY <2>1, <3>1, <3>2 DEF Before, Prompt, Rank
  <2> QED
    BY <2>2, <2>4, <2>5
<1> QED
  BY <1>2, <1>3 DEF OrderInv

LEMMA OrderPublish ==
  ASSUME Typed, OrderInv, NEW c \in Conn, Publish(c), [Next]_vars
  PROVE  OrderInv'
<1>1. /\ pc[c] \in {"ready", "relay", "bye"} /\ got' = got
      /\ inbox' = Fanout(Outgoing(c)) \/ UNCHANGED inbox
  BY DEF Publish
<1>2. PICK f \in FrameType : f = Outgoing(c)
  BY <1>1, OutgoingTyped
<1>3. Sent(f)' /\ f.src = c
  BY <1>2, OutgoingPublished DEF Sent
<1>4. \A g \in FrameType : Sent(g) /\ g.src = c => Before(g, f)
  BY <1>1, <1>2, NextIsLater DEF Sent, Before
<1>5. PICK e \in Envelope : e.frame = f /\ \A i \in Inst : inbox'[i] \in {inbox[i], Append(inbox[i], e)}
  <2> DEFINE e == [to |-> opposite(RoleOf[f.src]), frame |-> f]
  <2>1. e \in Envelope /\ e.frame = f
    BY <1>3, RoleFacts DEF Envelope
  <2>2. \A i \in Inst : inbox'[i] \in {inbox[i], Append(inbox[i], e)}
    BY <1>1, <1>2, FanoutEffect
  <2> QED
    BY <2>1, <2>2
<1> QED
  BY <1>1, <1>3, <1>4, <1>5, OrderAppend

LEMMA OrderLate ==
  ASSUME Typed, OrderInv, NEW a \in limbo, ExecuteLate(a), [Next]_vars
  PROVE  OrderInv'
<1>1. got' = got /\ overdue' = overdue /\ inbox' = Fanout(a.frame)
  BY DEF ExecuteLate, connVars
<1>2. PICK f \in FrameType : f = a.frame
  BY DEF Typed
<1>3. ~Prompt(f) /\ ~Prompt(f)'
  BY <1>1, <1>2 DEF Prompt, Typed
<1>4. PICK e \in Envelope : e.frame = f /\ \A i \in Inst : inbox'[i] \in {inbox[i], Append(inbox[i], e)}
  BY <1>1, <1>2, FanoutEffect
<1>5. Sent(f)' /\ \A g \in FrameType : Before(g, f)
  BY <1>3 DEF Sent, Before
<1> QED
  BY <1>1, <1>4, <1>5, OrderAppend

LEMMA OrderStep == ASSUME Typed, RoomInv, OrderInv, [Next]_vars PROVE OrderInv'
<1>1. ASSUME NEW i \in Inst, inbox'[i] = inbox[i] PROVE Shrinks(i)
  <2>1. inbox[i] \in Seq(Envelope)
    BY DEF Typed
  <2>2. \A k \in DOMAIN inbox'[i] : k \in Nat /\ k + 0 \in DOMAIN inbox[i]
                                    /\ inbox'[i][k] = inbox[i][k + 0]
    BY <1>1, <2>1
  <2> QED
    BY <2>2 DEF Shrinks
<1>2. ASSUME NEW i \in Inst, inbox[i] # <<>>, inbox' = [inbox EXCEPT ![i] = Tail(@)]
      PROVE  \A j \in Inst : Shrinks(j)
  <2>1. inbox[i] \in Seq(Envelope) /\ inbox'[i] = Tail(inbox[i])
    BY <1>2 DEF Typed
  <2>2. \A k \in DOMAIN inbox'[i] : k \in Nat /\ k + 1 \in DOMAIN inbox[i]
                                    /\ inbox'[i][k] = inbox[i][k + 1]
    BY <1>2, <2>1, TailFacts
  <2>3. Shrinks(i)
    BY <2>2 DEF Shrinks
  <2>4. \A j \in Inst : j # i => inbox'[j] = inbox[j]
    BY <1>2 DEF Typed
  <2> QED
    BY <1>1, <2>3, <2>4
<1>3. ASSUME UNCHANGED <<got, inbox>> PROVE OrderInv'
  BY <1>1, <1>3, OrderShrink
<1>4. ASSUME NEW c \in Conn, Handler(c) PROVE OrderInv'
  <2>1. CASE Publish(c)
    BY <2>1, OrderPublish
  <2>2. CASE ReadySelf(c)
    <3>1. PICK f \in FrameType : f = Frame("peer-ready", c)
      BY FrameTyped
    <3>2. f.src = c /\ UNCHANGED inbox /\ got' = [got EXCEPT ![c] = Append(@, f)]
      BY <2>2, <3>1 DEF ReadySelf, Frame
    <3>3. \A d \in Conn : got'[d] = got[d] \/ (f.src = d /\ got'[d] = Append(got[d], f))
      BY <3>2 DEF Typed
    <3> QED
      BY <1>1, <3>2, <3>3, OrderShrink
  <2>3. CASE ~Publish(c) /\ ~ReadySelf(c)
    BY <1>3, <1>4, <2>3 DEF Handler, Overdue, Register, PresenceJoin, PresenceJoinError, ReadEnvelope,
                            ReadError, HubLeave, PresenceLeave, PresenceLeaveError, RoomEnded
  <2> QED
    BY <2>1, <2>2, <2>3
<1>5. ASSUME NEW i \in Inst, Deliver(i) PROVE OrderInv'
  BY <1>2, <1>5, OrderDeliver DEF Deliver
<1>6. ASSUME NEW i \in Inst, Miss(i) PROVE OrderInv'
  <2>1. inbox[i] # <<>> /\ inbox' = [inbox EXCEPT ![i] = Tail(@)] /\ got' = got
    BY <1>6 DEF Miss, connVars
  <2> QED
    BY <1>2, <2>1, OrderShrink
<1>7. ASSUME NEW i \in Inst, Crash(i) PROVE OrderInv'
  <2>1. got' = got /\ inbox'[i] = <<>> /\ \A j \in Inst : j # i => inbox'[j] = inbox[j]
    BY <1>7 DEF Crash, Typed
  <2>2. Shrinks(i)
    <3>1. \A k \in DOMAIN inbox'[i] : FALSE
      BY <2>1
    <3> QED
      BY <3>1 DEF Shrinks
  <2> QED
    BY <1>1, <2>1, <2>2, OrderShrink
<1>8. ASSUME NEW i \in Inst, Start(i) PROVE OrderInv'
  BY <1>3, <1>8 DEF Start, connVars
<1>9. CASE Tick \/ UNCHANGED vars
  BY <1>3, <1>9 DEF Tick, vars, connVars
<1> QED
  BY <1>4, <1>5, <1>6, <1>7, <1>8, <1>9, OrderLate DEF Next

-----------------------------------------------------------------------------
(* The invariant. *)

LEMMA InvInit == Init => IInv
<1> SUFFICES ASSUME Init PROVE IInv
  OBVIOUS
<1>1. stored \in HashType
  BY DEF Init, NoKey, HashType
<1>2. Typed
  BY <1>1 DEF Init, Typed, HashType, PC
<1>3. CountInv
  <2>1. \A c \in Conn : ~Present(c)
    BY DEF Init, Present
  <2>2. \A r \in Role : Members(r) = {} /\ Cardinality(Members(r)) = 0
    BY <2>1, FS_EmptySet DEF Members
  <2>3. \A r \in Role : Key.count[r] = 0
    BY DEF Init, Key, NoKey
  <2> QED
    BY <2>1, <2>2, <2>3 DEF CountInv, HashLives, CountsCover, CountsExact
<1>4. RoomInv /\ UpInv
  BY DEF Init, RoomInv, UpInv
<1>5. PairInv
  BY DEF Init, PairInv, Paired, Present
<1>6. OrderInv
  BY DEF Init, OrderInv, InboxOrder, GotOrder
<1> QED
  BY <1>2, <1>3, <1>4, <1>5, <1>6 DEF IInv

LEMMA InvStep == IInv /\ [Next]_vars => IInv'
BY TypedStep, CountStep, RoomStep, PairStep, OrderStep DEF IInv

LEMMA Invariance == Spec => []IInv
BY InvInit, InvStep, PTL DEF Spec

-----------------------------------------------------------------------------
(* Presence is authoritative. *)

\* While the counts are kept, the hash that Leave reads back has not expired.
LEMMA LeaveKey ==
  ASSUME Typed, CountInv, CountsKept, NEW c \in Conn, pc[c] = "presLeave", StoreLeave(c), now' = now
  PROVE  Key' = stored'
<1>1. stored.ttl /\ now < stored.exp
  BY DEF CountInv, HashLives, Present
<1>2. Key = stored
  BY <1>1 DEF Key, Typed
<1>3. stored'.exp = stored.exp /\ stored'.ttl = stored.ttl
  BY <1>2, StoreLeaveEffect
<1> QED
  BY <1>1, <1>3 DEF Key, Typed

\* Only PresenceLeave reports an empty room.
LEMMA EndedByLeave ==
  ASSUME Typed, [Next]_vars, NEW c \in Conn, pc[c] # "ended", pc'[c] = "ended"
  PROVE  PresenceLeave(c) /\ \A r \in Role : stored'.count[r] <= 0
<1> USE DEF Typed
<1>1. ASSUME NEW d \in Conn, Handler(d), ~PresenceLeave(d) PROVE FALSE
  <2>1. CASE Register(d) \/ PresenceJoin(d) \/ PresenceJoinError(d) \/ ReadySelf(d)
    BY <2>1 DEF Register, PresenceJoin, PresenceJoinError, ReadySelf, Goto
  <2>2. CASE Publish(d) \/ Overdue(d) \/ ReadEnvelope(d) \/ ReadError(d) \/ HubLeave(d) \/ RoomEnded(d)
    BY <2>2 DEF Publish, Overdue, AfterPublish, ReadEnvelope, ReadError, HubLeave, RoomEnded, Goto
  <2>3. CASE PresenceLeaveError(d)
    BY <2>3 DEF PresenceLeaveError, AfterLeave, EmptyOnError, Goto
  <2> QED
    BY <1>1, <2>1, <2>2, <2>3 DEF Handler
<1>2. ASSUME NEW d \in Conn, PresenceLeave(d)
      PROVE  c = d /\ \A r \in Role : stored'.count[r] <= 0
  BY <1>2 DEF PresenceLeave, AfterLeave, Goto
<1>3. ASSUME NEW i \in Inst, Deliver(i) \/ Miss(i) \/ Start(i) PROVE FALSE
  BY <1>3 DEF Deliver, Miss, Start, connVars
<1>4. ASSUME NEW i \in Inst, Crash(i) PROVE FALSE
  BY <1>4 DEF Crash
<1>5. ~Tick /\ ~UNCHANGED vars /\ \A a \in limbo : ~ExecuteLate(a)
  BY DEF Tick, ExecuteLate, vars, connVars
<1> QED
  BY <1>1, <1>2, <1>3, <1>4, <1>5 DEF Next

\* Leave never reports an empty room while a connection is in it, on whatever
\* instance, unless a Join failed or the hash expired under a connection.
THEOREM EmptyRoomsAreEmpty == Spec => EmptyIsAuthoritative
<1> DEFINE Authoritative ==
      CountsKept => \A c \in Conn : pc[c] # "ended" /\ pc'[c] = "ended" =>
        \A d \in Conn : ~Present(d)'
<1>1. ASSUME IInv, IInv', [Next]_vars PROVE Authoritative
  <2> SUFFICES ASSUME CountsKept, NEW c \in Conn, pc[c] # "ended", pc'[c] = "ended",
                      NEW d \in Conn, Present(d)'
               PROVE  FALSE
    OBVIOUS
  <2>1. PresenceLeave(c) /\ \A r \in Role : stored'.count[r] <= 0
    BY <1>1, EndedByLeave DEF IInv
  <2>2. Key' = stored'
    BY <1>1, <2>1, LeaveKey DEF IInv, PresenceLeave
  <2>3. CountsKept'
    BY <2>1 DEF PresenceLeave, CountsKept
  <2>4. CountsCover' /\ Typed'
    BY <1>1, <2>3 DEF IInv, CountInv
  <2>5. RoleOf[d] \in Role /\ d \in Members(RoleOf[d])'
    BY RoleFacts DEF Members
  <2>6. IsFiniteSet(Members(RoleOf[d])')
    <3>1. Members(RoleOf[d])' \subseteq Conn
      BY DEF Members
    <3> QED
      BY <3>1, ConnAssumption, FS_Subset
  <2>7. Cardinality(Members(RoleOf[d])') \in Nat \ {0}
    BY <2>5, <2>6, FS_CardinalityType, FS_EmptySet
  <2>8. Key'.count[RoleOf[d]] >= Cardinality(Members(RoleOf[d])')
    BY <2>4, <2>5 DEF CountsCover
  <2>9. stored'.count[RoleOf[d]] \in Int
    BY <2>4, <2>5 DEF Typed
  <2> QED
    BY <2>1, <2>2, <2>5, <2>7, <2>8, <2>9
<1> QED
  BY <1>1, Invariance, PTL DEF Spec, EmptyIsAuthoritative

\* Once nothing is in flight, any two opposite occupants have both been sent
\* the peer-ready of one and the same Join, although Leaves failed or never ran.
THEOREM RedisPairedPeersAreNotified == Spec => []PairedPeersNotified
<1>1. ASSUME IInv PROVE PairedPeersNotified
  <2> SUFFICES ASSUME faults \cap {"join", "loss", "overdue", "outlive"} = {},
                      \A i \in Inst : inbox[i] = <<>>,
                      \A c \in Conn : pc[c] \in {"new", "serving", "done"},
                      NEW i \in Inst, NEW j \in Inst, NEW a, NEW p,
                      a = rooms[i]["agent"], p = rooms[j]["phone"], a # None, p # None
               PROVE  \E s \in {a, p} : \A x \in {a, p} :
                        \E k \in DOMAIN got[x] : got[x][k] = Frame("peer-ready", s)
    BY DEF PairedPeersNotified
  <2>1. a \in Conn /\ p \in Conn
    BY <1>1 DEF IInv, Typed, Role
  <2>2. InstOf[a] = i /\ RoleOf[a] = "agent" /\ InstOf[p] = j /\ RoleOf[p] = "phone"
        /\ pc[a] = "serving" /\ pc[p] = "serving"
    BY <1>1, <2>1 DEF IInv, RoomInv, Role
  <2>3. Paired(a, p)
    BY <2>1, <2>2 DEF Paired, Occupant, Present, opposite
  <2>4. Notifies(a, p) \/ Notifies(p, a)
    BY <1>1, <2>1, <2>3 DEF IInv, PairInv
  <2>5. ASSUME NEW s \in Conn, NEW x \in Conn, Notifies(s, x), pc[s] = "serving"
        PROVE  HasGot(s, Ready(s)) /\ HasGot(x, Ready(s))
    <3>1. ~OnItsWay(x, Ready(s))
      BY RoleFacts DEF OnItsWay
    <3> QED
      BY <2>5, <3>1 DEF Notifies
  <2>6. \A s : Ready(s) = Frame("peer-ready", s)
    BY DEF Ready, Frame
  <2> QED
    BY <2>1, <2>2, <2>4, <2>5, <2>6 DEF HasGot
<1> QED
  BY <1>1, Invariance, PTL

\* Whatever PUBLISH or a subscriber loses, whichever instance stops and however
\* often go-redis sends a PUBLISH again or Redis executes it late: what a
\* connection gets of another is in the order sent and without repetition, but for
\* the frames whose own PUBLISH got no answer in time.
THEOREM FramesAreInOrder == Spec => []OnceInOrderUnlessOverdue
<1>1. ASSUME IInv PROVE OnceInOrderUnlessOverdue
  <2> SUFFICES ASSUME NEW c \in Conn, NEW k \in DOMAIN got[c], NEW l \in DOMAIN got[c], NEW f, NEW g,
                      f = got[c][k], g = got[c][l],
                      k < l, f.src = g.src, f.src # c, Prompt(f), Prompt(g)
               PROVE  f.n < g.n \/ (f.n = g.n /\ f.type # "bye" /\ g.type = "bye")
    BY DEF OnceInOrderUnlessOverdue
  <2>1. f \in FrameType /\ g \in FrameType
    BY <1>1, EntryTyped DEF IInv
  <2>2. Rank(f) < Rank(g)
    BY <1>1 DEF IInv, OrderInv, GotOrder, Before
  <2> QED
    BY <2>1, <2>2 DEF Rank, FrameType
<1> QED
  BY <1>1, Invariance, PTL

-----------------------------------------------------------------------------
(* Without faults, the shared counts implement RoomPresence. *)

Owing == {c \in Conn : pc[c] = "ended"}
Joined == {c \in Conn : faults = {} /\ Present(c)}
Emptied == [r \in {TheRoom} |-> IF faults = {}
              THEN ends + Cardinality({c \in Conn : pc[c] = "ended"}) ELSE 0]

LEMMA OwingFinite == IsFiniteSet(Owing) /\ Cardinality(Owing) \in Nat
<1>1. Owing \subseteq Conn
  BY DEF Owing
<1> QED
  BY <1>1, ConnAssumption, FS_Subset, FS_CardinalityType

\* Leave reports an empty room exactly when its connection was the last one.
LEMMA EmptyMeansLast ==
  ASSUME Typed, CountInv, CountInv', faults = {}, NEW c \in Conn, PresenceLeave(c)
  PROVE  pc'[c] = "ended" <=> \A d \in Conn : Present(d) => d = c
<1>1. /\ pc[c] = "presLeave" /\ StoreLeave(c) /\ UNCHANGED <<faults, now>>
      /\ pc' = [pc EXCEPT ![c] = IF \A r \in Role : stored'.count[r] <= 0 THEN "ended" ELSE "bye"]
  BY DEF PresenceLeave, AfterLeave, Goto
<1>2. Key' = stored'
  BY <1>1, LeaveKey DEF CountsKept
<1>3. \A r \in Role : stored'.count[r] = Cardinality(Members(r)')
  BY <1>1, <1>2 DEF CountInv, CountsExact
<1>4. ASSUME NEW r \in Role
      PROVE  Cardinality(Members(r)') \in Nat /\ (Cardinality(Members(r)') = 0 <=> Members(r)' = {})
  <2>1. Members(r)' \subseteq Conn
    BY DEF Members
  <2> QED
    BY <2>1, ConnAssumption, FS_Subset, FS_CardinalityType, FS_EmptySet
<1>5. (\A r \in Role : stored'.count[r] <= 0) <=> \A r \in Role : Members(r)' = {}
  BY <1>3, <1>4
<1>6. (\A r \in Role : Members(r)' = {}) <=> \A d \in Conn : ~Present(d)'
  BY RoleFacts DEF Members
<1>7. \A d \in Conn : Present(d)' <=> Present(d) /\ d # c
  BY <1>1 DEF Present, Typed
<1>8. pc'[c] = "ended" <=> \A r \in Role : stored'.count[r] <= 0
  BY <1>1 DEF Typed
<1> QED
  BY <1>5, <1>6, <1>7, <1>8

LEMMA FaultsKept == ASSUME [Next]_vars PROVE faults' = faults
<1>1. ASSUME NEW c \in Conn, Handler(c) PROVE faults' = faults
  BY <1>1 DEF Handler, Register, PresenceJoin, PresenceJoinError, ReadySelf, Publish, Overdue,
              ReadEnvelope, ReadError, HubLeave, PresenceLeave, PresenceLeaveError, RoomEnded
<1>2. ASSUME NEW i \in Inst, Deliver(i) \/ Miss(i) \/ Crash(i) \/ Start(i) PROVE faults' = faults
  BY <1>2 DEF Deliver, Miss, Crash, Start
<1> QED
  BY <1>1, <1>2 DEF Next, ExecuteLate, Tick, vars

LEMMA RefinementStep ==
  ASSUME Typed, CountInv, CountInv', [Next]_vars
  PROVE  [Abstract!Next]_(Abstract!vars)
<1>0. faults' = faults
  BY FaultsKept
<1>1. CASE faults # {}
  <2>1. Joined' = Joined /\ Emptied' = Emptied
    BY <1>0, <1>1 DEF Joined, Emptied
  <2> QED
    BY <2>1 DEF Abstract!vars, Joined, Emptied
<1>2. ASSUME faults = {}, \A c \in Conn : Present(c)' <=> Present(c),
             ends' + Cardinality(Owing') = ends + Cardinality(Owing)
      PROVE  UNCHANGED Abstract!vars
  <2>1. Joined' = Joined
    BY <1>0, <1>2 DEF Joined
  <2>2. Emptied' = Emptied
    BY <1>0, <1>2 DEF Emptied, Owing
  <2> QED
    BY <2>1, <2>2 DEF Abstract!vars, Joined, Emptied
<1>3. ASSUME faults = {}, NEW c \in Conn, PresenceJoin(c) PROVE Abstract!Join(c)
  <2>1. /\ pc[c] = "presence" /\ ends' = ends
        /\ \E l \in {"readySelf", "serving"} : pc' = [pc EXCEPT ![c] = l]
    BY <1>3 DEF PresenceJoin, Goto
  <2>2. ~Present(c) /\ Present(c)' /\ \A d \in Conn : d # c => (Present(d)' <=> Present(d))
    BY <2>1 DEF Present, Typed
  <2>3. Owing' = Owing
    BY <2>1 DEF Owing, Typed
  <2>4. c \notin Joined /\ Joined' = Joined \cup {c}
    BY <1>0, <1>3, <2>2 DEF Joined
  <2>5. Emptied' = Emptied
    BY <1>0, <2>1, <2>3 DEF Emptied, Owing
  <2> QED
    BY <2>4, <2>5 DEF Abstract!Join, Joined, Emptied
<1>4. ASSUME faults = {}, NEW c \in Conn, PresenceLeave(c) PROVE Abstract!Leave(c)
  <2>1. /\ pc[c] = "presLeave" /\ ends' = ends
        /\ \E l \in {"ended", "bye"} : pc' = [pc EXCEPT ![c] = l]
    BY <1>4 DEF PresenceLeave, AfterLeave, Goto
  <2>2. Present(c) /\ ~Present(c)' /\ \A d \in Conn : d # c => (Present(d)' <=> Present(d))
    BY <2>1 DEF Present, Typed
  <2>3. c \in Joined /\ Joined' = Joined \ {c}
    BY <1>0, <1>4, <2>2 DEF Joined
  <2> DEFINE last == \A d \in Joined : [x \in Conn |-> TheRoom][d] = [x \in Conn |-> TheRoom][c] => d = c
  <2>4. pc'[c] = "ended" <=> last
    <3>1. last <=> \A d \in Conn : Present(d) => d = c
      BY <1>4 DEF Joined
    <3> QED
      BY <1>4, <3>1, EmptyMeansLast
  <2>5. Owing' = IF last THEN Owing \cup {c} ELSE Owing
    BY <2>1, <2>4 DEF Owing, Typed
  <2>6. c \notin Owing
    BY <2>1 DEF Owing
  <2> HIDE DEF last
  <2>7. Cardinality(Owing') = IF last THEN Cardinality(Owing) + 1 ELSE Cardinality(Owing)
    BY <2>5, <2>6, OwingFinite, FS_AddElement
  <2>8. Emptied[TheRoom] = ends + Cardinality(Owing) /\ Emptied'[TheRoom] = ends + Cardinality(Owing')
    BY <1>0, <1>4, <2>1 DEF Emptied, Owing
  <2>9. Emptied'[TheRoom] = IF last THEN Emptied[TheRoom] + 1 ELSE Emptied[TheRoom]
    BY <2>7, <2>8, OwingFinite DEF Typed
  <2>10. [x \in Conn |-> TheRoom][c] = TheRoom
    OBVIOUS
  <2>11. Emptied' = [Emptied EXCEPT ![[x \in Conn |-> TheRoom][c]] = IF last THEN @ + 1 ELSE @]
    <3>1. Emptied' = [r \in {TheRoom} |-> Emptied'[r]] /\ Emptied = [r \in {TheRoom} |-> Emptied[r]]
      BY DEF Emptied
    <3> QED
      BY <2>9, <2>10, <3>1
  <2> QED
    BY <2>3, <2>11 DEF Abstract!Leave, Abstract!LastIn, Joined, Emptied, last
<1>5. ASSUME faults = {}, NEW c \in Conn, RoomEnded(c) PROVE UNCHANGED Abstract!vars
  <2>1. pc[c] = "ended" /\ ends' = ends + 1 /\ pc' = [pc EXCEPT ![c] = "bye"]
    BY <1>5 DEF RoomEnded, Goto
  <2>2. \A d \in Conn : Present(d)' <=> Present(d)
    BY <2>1 DEF Present, Typed
  <2>3. c \in Owing /\ Owing' = Owing \ {c}
    BY <2>1 DEF Owing, Typed
  <2>4. Cardinality(Owing') = Cardinality(Owing) - 1
    BY <2>3, OwingFinite, FS_RemoveElement
  <2>5. ends' + Cardinality(Owing') = ends + Cardinality(Owing)
    BY <2>1, <2>4, OwingFinite DEF Typed
  <2> QED
    BY <1>2, <1>5, <2>2, <2>5
<1>6. ASSUME faults = {}, ends' = ends,
             \A c \in Conn : (Present(c)' <=> Present(c)) /\ (pc'[c] = "ended" <=> pc[c] = "ended")
      PROVE  UNCHANGED Abstract!vars
  <2>1. Owing' = Owing
    BY <1>6 DEF Owing
  <2> QED
    BY <1>2, <1>6, <2>1
<1>7. ASSUME faults = {}, NEW c \in Conn,
             Register(c) \/ ReadySelf(c) \/ Publish(c) \/ ReadEnvelope(c) \/ ReadError(c) \/ HubLeave(c)
      PROVE  UNCHANGED Abstract!vars
  <2>1. ends' = ends
    BY <1>7 DEF Register, ReadySelf, Publish, ReadEnvelope, ReadError, HubLeave
  <2>2. \A d \in Conn : (Present(d)' <=> Present(d)) /\ (pc'[d] = "ended" <=> pc[d] = "ended")
    BY <1>7 DEF Register, ReadySelf, Publish, ReadEnvelope, ReadError, HubLeave, AfterPublish,
                Goto, Present, Typed
  <2> QED
    BY <1>6, <1>7, <2>1, <2>2
<1>8. ASSUME faults = {}, NEW c \in Conn
      PROVE  ~PresenceJoinError(c) /\ ~PresenceLeaveError(c) /\ ~Overdue(c)
  BY <1>8 DEF PresenceJoinError, PresenceLeaveError, Overdue
<1>9. ASSUME faults = {}, UNCHANGED <<ends, pc>> PROVE UNCHANGED Abstract!vars
  BY <1>6, <1>9 DEF Present
<1>10. ASSUME faults = {}, NEW i \in Inst, Deliver(i) \/ Miss(i) \/ Crash(i) \/ Start(i)
       PROVE  UNCHANGED Abstract!vars
  <2>1. ~Crash(i)
    BY <1>10 DEF Crash
  <2> QED
    BY <1>9, <1>10, <2>1 DEF Deliver, Miss, Start, connVars
<1>11. ASSUME faults = {}, Tick \/ UNCHANGED vars \/ (\E a \in limbo : ExecuteLate(a))
       PROVE  UNCHANGED Abstract!vars
  BY <1>9, <1>11 DEF Tick, ExecuteLate, vars, connVars
<1>12. CASE faults = {}
  <2>1. ASSUME NEW c \in Conn, Handler(c) PROVE [Abstract!Next]_(Abstract!vars)
    BY <1>3, <1>4, <1>5, <1>7, <1>8, <1>12, <2>1 DEF Handler, Abstract!Next
  <2> QED
    BY <1>10, <1>11, <1>12, <2>1 DEF Next
<1> QED
  BY <1>1, <1>12

\* Without faults, the shared counts implement RoomPresence: exact membership
\* over all instances, and one end signal owed or fired per emptying.
THEOREM RedisImplementsRoomPresence == Spec => ImplementsRoomPresence
<1>1. Init => Abstract!Init
  <2> SUFFICES ASSUME Init PROVE Abstract!Init
    OBVIOUS
  <2>1. Joined = {} /\ Owing = {}
    BY DEF Init, Joined, Owing, Present
  <2>2. ends + Cardinality(Owing) = 0
    <3>1. Cardinality(Owing) = 0
      BY <2>1, FS_EmptySet
    <3> QED
      BY <3>1 DEF Init
  <2>3. Emptied = [r \in {TheRoom} |-> 0]
    BY <2>2 DEF Emptied, Owing
  <2> QED
    BY <2>1, <2>3 DEF Abstract!Init, Joined, Emptied
<1>2. IInv /\ IInv' /\ [Next]_vars => [Abstract!Next]_(Abstract!vars)
  BY RefinementStep DEF IInv
<1> QED
  BY <1>1, <1>2, Invariance, PTL DEF Spec, ImplementsRoomPresence, Abstract!Spec
=============================================================================
