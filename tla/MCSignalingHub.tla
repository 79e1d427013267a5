--------------------------- MODULE MCSignalingHub ---------------------------
(***************************************************************************)
(* Instances of SignalingHub: rooms in which one side reconnects before    *)
(* its old connection is reaped.                                           *)
(***************************************************************************)
EXTENDS SignalingHub, TLC

CONSTANTS r1, r2, a1, a2, p1, p2

\* An agent connection, its replacement, and a phone, in one room.  Nobody
\* sends: the frames are the hub's own peer-ready and bye.
ReconnectPeers == {a1, a2, p1}
OneRoom == {r1}
ReconnectRoomOf == [p \in ReconnectPeers |-> r1]
ReconnectRoleOf == [p \in ReconnectPeers |-> IF p = p1 THEN "phone" ELSE "agent"]
NoneSends == [p \in ReconnectPeers |-> 0]

\* Or the phone sends two frames while the agent is replaced, and then may leave,
\* its bye the last frame.  Its frames are well-formed, and writers are slow: what
\* is sent piles up to the buffer's size.  Then connections do not break, an old
\* agent connection is reaped up to the closing of its channel, and the rest of
\* its clean-up is the matter of the behaviours in which nobody sends.
PhoneSends == [p \in ReconnectPeers |-> IF p = p1 THEN 2 ELSE 0]
AgentReplaced ==
  /\ pc[p1] = "hubLeave" => sent[p1] = 2
  /\ \A i \in 1..Len(queue[p1]) : queue[p1][i].type # "error"
  /\ \A f \in dropped[p1] : f.type # "error"
  /\ \A p \in Peer : writer[p] # "done" /\ taken[p] <= (IF p = p1 THEN 0 ELSE 1)
  /\ \A p \in Peer \ {p1} : conn[p] = "open"
SilentOrReplaced == sent[p1] = 0 \/ AgentReplaced

\* The two agent connections are interchangeable.
Symmetry == Permutations({a1, a2})

\* A pair in the first room and a second phone in another; each phone sends.  At
\* most one of the phones connects, so that either the pair meets or two
\* opposite roles are in different rooms.
TwoRooms == {r1, r2}
SplitPeers == {a1, p1, p2}
SplitRoomOf == [p \in SplitPeers |-> IF p = p2 THEN r2 ELSE r1]
SplitRoleOf == [p \in SplitPeers |-> IF p = a1 THEN "agent" ELSE "phone"]
SplitSends == [p \in SplitPeers |-> IF p = a1 THEN 0 ELSE 1]
OnePhone == pc[p1] = "new" \/ pc[p2] = "new"
=============================================================================
