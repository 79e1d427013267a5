---------------------------- MODULE RoomPresence ----------------------------
(***************************************************************************)
(* What the signaling package promises about room membership, whichever    *)
(* Presence implementation is plugged in: a room has a set of members, and *)
(* every time its last member leaves, exactly one "room ended" signal is   *)
(* owed.  Nothing here mentions counters, maps, locks or Redis.            *)
(***************************************************************************)
EXTENDS Integers

CONSTANTS Peer,     \* connections
          Room,     \* signaling rooms (session ids)
          RoomOf    \* the room a connection was opened for

VARIABLES present,  \* the connections present in their rooms
          emptied   \* emptied[r]: number of end signals owed so far by r

vars == <<present, emptied>>

Init == /\ present = {}
        /\ emptied = [r \in Room |-> 0]

Join(p) ==
  /\ p \notin present
  /\ present' = present \cup {p}
  /\ UNCHANGED emptied

\* The room p leaves has nobody else in it.
LastIn(p) == \A q \in present : RoomOf[q] = RoomOf[p] => q = p

Leave(p) ==
  /\ p \in present
  /\ present' = present \ {p}
  /\ emptied' = [emptied EXCEPT ![RoomOf[p]] = IF LastIn(p) THEN @ + 1 ELSE @]

Next == \E p \in Peer : Join(p) \/ Leave(p)

Spec == Init /\ [][Next]_vars
=============================================================================
