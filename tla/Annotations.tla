----------------------------- MODULE Annotations -----------------------------
(***************************************************************************)
(* Annotations from the technician's click to the marker on the phone and  *)
(* the echo back: MainWindow and SessionConnection on the agent, the data  *)
(* channel, SessionController's main-thread queue, AnnotationAnchorManager *)
(* and its fallback Annotation2DOverlay on the phone.                      *)
(***************************************************************************)
EXTENDS Integers, Sequences, FiniteSets

CONSTANTS
  Id,         \* annotation ids (GUIDs)
  Ops,        \* operations the agent uses, of the four of the protocol
  MaxEvents   \* bound: events the agent tries to send

ASSUME IdAssumption == IsFiniteSet(Id)
ASSUME OpsAssumption == Ops \subseteq {"create", "update", "delete", "clear"}
ASSUME EventsAssumption == MaxEvents \in Nat

VARIABLES
  open,        \* the annotations channel is open
  used,        \* ids given out
  tries,       \* events tried
  channel,     \* the data channel with the main-thread queue behind it
  _anchors,    \* id -> "alive", or "destroyed" by the platform
  _markers,    \* ids with a flat marker
  echoes,      \* echoes on their way through the relay
  current,     \* ghost: ids placed and not deleted or cleared since
  arLost       \* ghost: ids whose anchor the AR platform refused or dropped

techVars == <<open, used, tries>>
arVars == <<_anchors, _markers, current, arLost>>
annVars == <<techVars, arVars, channel, echoes>>

AnnInit ==
  /\ open = FALSE /\ used = {} /\ tries = 0 /\ channel = <<>>
  /\ _anchors = <<>> /\ _markers = {} /\ echoes = <<>> /\ current = {} /\ arLost = {}

Event == [op : {"create", "update"}, id : Id, point : BOOLEAN]
           \cup [op : {"delete"}, id : Id] \cup {[op |-> "clear"]}

-----------------------------------------------------------------------------
(* The agent. *)

\* The peer connection comes up; until then readyState is not open.
ChannelOpens ==
  /\ ~open
  /\ open' = TRUE
  /\ UNCHANGED <<used, tries, arVars, channel, echoes>>

\* What the user may do next: a click creates under a fresh id, always with a
\* point; updates and deletes are of ids given out before.
MayIssue(e) ==
  /\ e.op \in Ops
  /\ e.op = "create" => e.id \notin used /\ e.point
  /\ e.op \in {"update", "delete"} => e.id \in used

\* SendAnnotation throws unless the channel is open; the caller shows a status.
SendAnnotation(e) ==
  /\ MayIssue(e) /\ tries < MaxEvents
  /\ tries' = tries + 1
  /\ used' = IF e.op = "create" THEN used \cup {e.id} ELSE used
  /\ channel' = IF open THEN Append(channel, e) ELSE channel
  /\ UNCHANGED <<open, arVars, echoes>>

\* OnSignalingEnvelope knows answer, ice and bye: an annotation envelope, the
\* phone's echo, falls through.
OnSignalingEnvelope ==
  /\ echoes # <<>>
  /\ echoes' = Tail(echoes)
  /\ UNCHANGED <<techVars, arVars, channel>>

-----------------------------------------------------------------------------
(* The phone: AnnotationAnchorManager.Apply of the next event. *)

Without(f, S) == [i \in DOMAIN f \ S |-> f[i]]
Consume == channel' = Tail(channel) /\ UNCHANGED techVars
Placing(e) == e.op \in {"create", "update"}

\* PlaceOrMove without a point returns at once.
PlaceNothing(e) ==
  /\ Placing(e) /\ ~e.point
  /\ UNCHANGED <<arVars, echoes>>

\* The raycast finds no surface: a flat marker.
Overlay(id) == {id}
PlaceFlat(e) ==
  /\ Placing(e) /\ e.point
  /\ _markers' = _markers \cup Overlay(e.id)
  /\ current' = current \cup {e.id}
  /\ arLost' = arLost \ {e.id}
  /\ UNCHANGED <<_anchors, echoes>>

\* A hit: the old anchor and the flat marker go, then an anchor is made (or
\* not), entered and echoed.
PlaceAnchor(e) ==
  /\ Placing(e) /\ e.point
  /\ _markers' = _markers \ {e.id}
  /\ current' = current \cup {e.id}
  /\ \/ /\ _anchors' = [i \in DOMAIN _anchors \cup {e.id} |->
                         IF i = e.id THEN "alive" ELSE _anchors[i]]
        /\ echoes' = Append(echoes, e.id)
        /\ arLost' = arLost \ {e.id}
     \/ /\ _anchors' = Without(_anchors, {e.id})
        /\ arLost' = arLost \cup {e.id}
        /\ UNCHANGED echoes

\* delete and clear: Remove or Clear here, and the same in the overlay.
Removed(e) == IF e.op = "clear" THEN Id ELSE {e.id}
MarkersAfterIfAnchored(e) == _markers \ (Removed(e) \cap DOMAIN _anchors)
MarkersAfter(e) == _markers \ Removed(e)
RemoveOrClear(e) ==
  /\ ~Placing(e)
  /\ _anchors' = Without(_anchors, Removed(e))
  /\ _markers' = MarkersAfter(e)
  /\ current' = current \ Removed(e)
  /\ UNCHANGED <<arLost, echoes>>

Apply ==
  /\ channel # <<>>
  /\ LET e == Head(channel) IN
     PlaceNothing(e) \/ PlaceFlat(e) \/ PlaceAnchor(e) \/ RemoveOrClear(e)
  /\ Consume

\* ARFoundation destroys an anchor it can no longer track; the map keeps it.
AnchorDropped(i) ==
  /\ i \in DOMAIN _anchors /\ _anchors[i] = "alive"
  /\ _anchors' = [_anchors EXCEPT ![i] = "destroyed"]
  /\ arLost' = arLost \cup {i}
  /\ UNCHANGED <<techVars, _markers, current, channel, echoes>>

AnnNext ==
  \/ ChannelOpens \/ OnSignalingEnvelope \/ Apply
  \/ \E e \in Event : SendAnnotation(e)
  \/ \E i \in Id : AnchorDropped(i)

-----------------------------------------------------------------------------
(* Properties. *)

AnnTypeOK ==
  /\ open \in BOOLEAN /\ tries \in 0..MaxEvents
  /\ {used, _markers, current, arLost} \subseteq SUBSET Id
  /\ DOMAIN _anchors \subseteq Id /\ \A i \in DOMAIN _anchors : _anchors[i] \in {"alive", "destroyed"}
  /\ channel \in Seq(Event) /\ echoes \in Seq(Id)

\* Nothing that was deleted or cleared stays on the user's screen, whichever of
\* anchor, flat marker or both stood for it, and whatever the raycasts found.
NoLeftovers == DOMAIN _anchors \cup _markers \subseteq current

Visible(i) == i \in _markers \/ (i \in DOMAIN _anchors /\ _anchors[i] = "alive")

\* "so the technician's guidance is always visible even before a world anchor
\* exists": every annotation placed and not removed is shown one way or the
\* other, whatever was found or not found when it was placed or moved, unless
\* the AR platform refused its anchor or dropped it later (then the flat marker
\* is gone too and nothing shows it).
GuidanceVisible == \A i \in current \ arLost : Visible(i)

\* The user's screen against what the technician placed and removed: nothing
\* is left over (Remove and Clear) and nothing is missing (PlaceOrMove).
ScreenShowsCurrent == NoLeftovers /\ GuidanceVisible
=============================================================================
