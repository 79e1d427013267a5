------------------------------ MODULE Handshake ------------------------------
(***************************************************************************)
(* The WebRTC negotiation of one session between the Windows agent         *)
(* (MainWindow, SessionConnection) and the phone (SessionController,       *)
(* PhoneSession) through the signaling relay.  The relay is what the hub   *)
(* models establish: peer-ready to both when the second joins, then one    *)
(* ordered channel in each direction.  Neither client reconnects; that a   *)
(* WebSocket breaks later is not modelled.                                 *)
(***************************************************************************)
EXTENDS Integers, Sequences

CONSTANT MaxIce  \* bound: candidates a side gathers
ASSUME MaxIceAssumption == MaxIce \in Nat

VARIABLES
  ui,       \* OnStartSessionClick: "code", "joined", "receiving", "session", or it
            \* threw: "off" (not connected), "failed" (no session)
  offer,    \* StartAsync: "no", "local" (description set), "sent", or it threw:
            \* "failed" (no description set), "unsent" (SendAsync)
  answered, \* setRemoteDescription of an answer: "no", "yes", "refused"
  aIce,     \* candidates the agent sent
  inRoom,   \* the phone is in the room
  phone,    \* HandleOffer: "no", "applying", "remote", "created", "local",
            \* "answered", or "failed"
  pIce,     \* candidates the phone gathered
  sending,  \* SendAsync calls of the phone still running
  toAgent, toPhone, \* frames relayed
  applied,  \* the agent's candidates added to the phone's connection
  refused,  \* the agent's candidates the phone's connection refused
  lost      \* ghost: types of frames ignored without a session or not sent

agentVars == <<ui, offer, answered, aIce>>
phoneVars == <<inRoom, phone, pIce, sending, applied, refused>>
vars == <<agentVars, phoneVars, toAgent, toPhone, lost>>

Init ==
  /\ ui = "code" /\ offer = "no" /\ answered = "no" /\ aIce = 0
  /\ inRoom = FALSE /\ phone = "no" /\ pIce = 0 /\ sending = 0 /\ applied = 0 /\ refused = 0
  /\ toAgent = <<>> /\ toPhone = <<>> /\ lost = {}

-----------------------------------------------------------------------------
(* The agent: OnStartSessionClick shows the code, then connects, starts the *)
(* receive loop on another thread and only then creates the session.        *)

\* Both joined: the relay sends peer-ready to both.
ReadyToSecondOnly == toPhone' = Append(toPhone, "peer-ready") /\ UNCHANGED toAgent
Ready == /\ toAgent' = Append(toAgent, "peer-ready")
         /\ toPhone' = Append(toPhone, "peer-ready")

AgentConnect ==
  /\ ui = "code"
  /\ ui' = "joined"
  /\ IF inRoom THEN Ready ELSE UNCHANGED <<toAgent, toPhone>>
  /\ UNCHANGED <<offer, answered, aIce, phoneVars, lost>>

\* ConnectAsync throws: the button is enabled again, for another session.
AgentConnectFails ==
  /\ ui = "code"
  /\ ui' = "off"
  /\ UNCHANGED <<offer, answered, aIce, phoneVars, toAgent, toPhone, lost>>

StartReceiveLoop ==
  /\ ui = "joined"
  /\ ui' = "receiving"
  /\ UNCHANGED <<offer, answered, aIce, phoneVars, toAgent, toPhone, lost>>

\* The constructor may throw: the loop then runs on without a session.
CreateSession ==
  /\ ui = "receiving"
  /\ ui' \in {"session", "failed"}
  /\ UNCHANGED <<offer, answered, aIce, phoneVars, toAgent, toPhone, lost>>

\* OnEnvelope and OnSignalingEnvelope: without a session a frame is ignored.  A
\* peer-ready starts StartAsync, which may throw before its local description is
\* set; an answer may be refused, which nobody looks at.
Handled == ui = "session"
AgentReceive ==
  /\ ui \in {"receiving", "session", "failed"} /\ toAgent # <<>>
  /\ toAgent' = Tail(toAgent)
  /\ LET f == Head(toAgent) IN
     /\ offer' \in IF f = "peer-ready" /\ Handled THEN {"local", "failed"} ELSE {offer}
     /\ answered' \in IF f = "answer" /\ Handled THEN {"yes", "refused"} ELSE {answered}
     /\ lost' = IF Handled THEN lost ELSE lost \cup {f}
  /\ UNCHANGED <<ui, aIce, phoneVars, toPhone>>

\* StartAsync sends the offer after setLocalDescription, which starts the
\* gathering whose candidates OnLocalIceCandidate sends: either may be first.
\* OnEnvelope catches what SendAsync throws; nothing sends the offer again.
SendOffer ==
  /\ offer = "local"
  /\ \/ offer' = "sent" /\ toPhone' = Append(toPhone, "offer")
     \/ offer' = "unsent" /\ UNCHANGED toPhone
  /\ UNCHANGED <<ui, answered, aIce, phoneVars, toAgent, lost>>

\* A candidate whose SendAsync throws is dropped.
OnLocalIceCandidate ==
  /\ offer \notin {"no", "failed"} /\ aIce < MaxIce
  /\ aIce' = aIce + 1
  /\ toPhone' = Append(toPhone, "ice") \/ UNCHANGED toPhone
  /\ UNCHANGED <<ui, offer, answered, phoneVars, toAgent, lost>>

-----------------------------------------------------------------------------
(* The phone. *)

PhoneConnect ==
  /\ ~inRoom
  /\ inRoom' = TRUE
  /\ IF ui \in {"code", "off"} THEN UNCHANGED <<toAgent, toPhone>> ELSE Ready
  /\ UNCHANGED <<agentVars, phone, pIce, sending, applied, refused, lost>>

\* HandleEnvelope, run on the main thread: an offer starts HandleOffer's
\* coroutine; other types (peer-ready, bye) change nothing.
HandleOffer ==
  /\ toPhone # <<>> /\ Head(toPhone) = "offer"
  /\ toPhone' = Tail(toPhone)
  /\ phone' = "applying"
  /\ UNCHANGED <<agentVars, inRoom, pIce, sending, applied, refused, toAgent, lost>>

\* The connection refuses a candidate while it has no remote description,
\* and may while it is applying one; nothing keeps it for later.
AddIceCandidate ==
  /\ toPhone # <<>> /\ Head(toPhone) = "ice"
  /\ toPhone' = Tail(toPhone)
  /\ \/ phone # "no" /\ applied' = applied + 1 /\ UNCHANGED refused
     \/ phone \in {"no", "applying", "failed"} /\ refused' = refused + 1 /\ UNCHANGED applied
  /\ UNCHANGED <<agentVars, inRoom, phone, pIce, sending, toAgent, lost>>

IgnoreEnvelope ==
  /\ toPhone # <<>> /\ Head(toPhone) \notin {"offer", "ice"}
  /\ toPhone' = Tail(toPhone)
  /\ UNCHANGED <<agentVars, phoneVars, toAgent, lost>>

\* SendAsync without a lock, its task discarded: a send that overlaps another
\* one may be refused and its frame lost.
PhoneSend(f) ==
  \/ toAgent' = Append(toAgent, f) /\ sending' = sending + 1 /\ UNCHANGED lost
  \/ sending > 0 /\ lost' = lost \cup {f} /\ UNCHANGED <<toAgent, sending>>

SendDone ==
  /\ sending > 0
  /\ sending' = sending - 1
  /\ UNCHANGED <<agentVars, inRoom, phone, pIce, applied, refused, toAgent, toPhone, lost>>

\* HandleOffer's operations, each followed by a yield: SetRemoteDescription,
\* CreateAnswer, SetLocalDescription.  An error ends the coroutine.
NextStage == [applying |-> "remote", remote |-> "created", created |-> "local"]
OfferStage ==
  /\ phone \in DOMAIN NextStage
  /\ phone' = NextStage[phone] \/ phone' = "failed"
  /\ UNCHANGED <<agentVars, inRoom, pIce, sending, applied, refused, toAgent, toPhone, lost>>

OnLocalAnswerEarly ==
  /\ phone = "applying"
  /\ PhoneSend("answer")
  /\ UNCHANGED <<agentVars, inRoom, phone, pIce, applied, refused, toPhone>>
OnLocalAnswer ==
  /\ phone = "local"
  /\ phone' = "answered"
  /\ PhoneSend("answer")
  /\ UNCHANGED <<agentVars, inRoom, pIce, applied, refused, toPhone>>

OnLocalIce ==
  /\ phone \in {"local", "answered"} /\ pIce < MaxIce
  /\ pIce' = pIce + 1
  /\ PhoneSend("ice")
  /\ UNCHANGED <<agentVars, inRoom, phone, applied, refused, toPhone>>

Agent == AgentConnect \/ StartReceiveLoop \/ CreateSession \/ AgentReceive \/ SendOffer
Phone == HandleOffer \/ AddIceCandidate \/ IgnoreEnvelope \/ OfferStage \/ OnLocalAnswer \/ SendDone
Next == Agent \/ AgentConnectFails \/ Phone \/ PhoneConnect \/ OnLocalIceCandidate \/ OnLocalIce

Spec == Init /\ [][Next]_vars

-----------------------------------------------------------------------------
(* Properties. *)

Frame == {"peer-ready", "offer", "answer", "ice"}
In(f, channel) == \E i \in 1..Len(channel) : channel[i] = f

TypeOK ==
  /\ ui \in {"code", "off", "joined", "receiving", "session", "failed"}
  /\ offer \in {"no", "local", "sent", "failed", "unsent"}
  /\ answered \in {"no", "yes", "refused"} /\ inRoom \in BOOLEAN
  /\ phone \in {"no", "applying", "remote", "created", "local", "answered", "failed"}
  /\ {aIce, pIce} \subseteq 0..MaxIce
  /\ sending \in 0..(pIce + 1)
  /\ toAgent \in Seq(Frame) /\ toPhone \in Seq(Frame)
  /\ applied + refused <= aIce /\ lost \subseteq Frame

\* The negotiation keeps the order offer, answer on both ends: an answer is on
\* its way or applied only once the phone has set both descriptions, from an
\* offer the agent really sent, and the phone produces at most one.
AnswerFollowsOffer ==
  /\ In("answer", toAgent) \/ answered # "no" => phone = "answered" /\ offer = "sent"
  /\ In("answer", toAgent) => answered = "no"
  /\ phone # "no" => offer = "sent" /\ ~In("offer", toPhone)

\* The ways a negotiation is known to break off: a step of one of the two programs
\* failed (StartAsync, setRemoteDescription, HandleOffer), the agent's receive loop
\* took the peer-ready while there was no session, or the answer's SendAsync
\* overlapped another one and was refused.
BrokenOff ==
  \/ offer \in {"failed", "unsent"} \/ answered = "refused" \/ phone = "failed"
  \/ "peer-ready" \in lost \/ "answer" \in lost

\* Once both are in the room the agent's connection gets the answer, unless one of
\* these failures is on record: no order of the joins, the two threads, the
\* candidates and the descriptions leaves both sides waiting for each other.
HandshakeCompletes ==
  inRoom /\ ui \notin {"code", "off"} ~> answered = "yes" \/ BrokenOff
=============================================================================
