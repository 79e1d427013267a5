------------------------- MODULE ClientSessionProofs -------------------------
(***************************************************************************)
(* Proofs about the two clients of a session, for every number of          *)
(* candidates and events, every set of ids and every size of panel and     *)
(* frame: the order of the negotiation, what is on the user's screen, and  *)
(* the exactness of the click's mapping.  The three parts share no variable *)
(* in these properties, so each has its own invariant.                     *)
(***************************************************************************)
EXTENDS ClientSession, TLAPS

(* Occurrences in a channel. *)

\* At most one frame of that type in the channel.
Once(f, s) == \A i, j \in 1..Len(s) : s[i] = f /\ s[j] = f => i = j

\* Nothing is in an empty channel.
LEMMA InEmpty == ASSUME NEW f PROVE ~In(f, <<>>) /\ Once(f, <<>>)
BY DEF In, Once

\* A sent frame is the only one that becomes an occurrence.
LEMMA InAppend ==
  ASSUME NEW S, NEW s \in Seq(S), NEW f, NEW g \in S
  PROVE  In(f, Append(s, g)) <=> In(f, s) \/ f = g
<1>1. \A i \in 1..Len(s) : Append(s, g)[i] = s[i] /\ i \in 1..Len(Append(s, g))
  OBVIOUS
<1>2. /\ Append(s, g)[Len(s) + 1] = g /\ Len(Append(s, g)) = Len(s) + 1
      /\ Len(s) \in Nat
  OBVIOUS
<1>3. \A i \in 1..Len(Append(s, g)) : i \in 1..Len(s) \/ i = Len(s) + 1
  BY <1>2
<1>4. Len(s) + 1 \in 1..Len(Append(s, g))
  BY <1>2
<1>. QED  BY <1>1, <1>2, <1>3, <1>4 DEF In

\* A type that is not in the channel, or is not the one sent, stays unique.
LEMMA OnceAppend ==
  ASSUME NEW S, NEW s \in Seq(S), NEW f, NEW g \in S, Once(f, s),
         ~In(f, s) \/ f # g
  PROVE  Once(f, Append(s, g))
<1>1. \A i \in 1..Len(s) : Append(s, g)[i] = s[i]
  OBVIOUS
<1>2. /\ Append(s, g)[Len(s) + 1] = g /\ Len(Append(s, g)) = Len(s) + 1
      /\ Len(s) \in Nat
  OBVIOUS
<1>3. \A i \in 1..Len(Append(s, g)) : i \in 1..Len(s) \/ i = Len(s) + 1
  BY <1>2
<1>. QED  BY <1>1, <1>2, <1>3 DEF In, Once

\* What is taken from a channel was in it; what was there once is then gone.
LEMMA InTail ==
  ASSUME NEW S, NEW s \in Seq(S), s # <<>>, NEW f
  PROVE  /\ In(f, Tail(s)) => In(f, s)
         /\ Head(s) \in S /\ In(Head(s), s) /\ Tail(s) \in Seq(S)
         /\ Once(f, s) => Once(f, Tail(s)) /\ (f = Head(s) => ~In(f, Tail(s)))
<1>1. Len(s) \in Nat /\ Len(s) > 0 /\ Len(Tail(s)) = Len(s) - 1 /\ Head(s) = s[1]
  OBVIOUS
<1>2. \A i \in 1..Len(Tail(s)) : Tail(s)[i] = s[i + 1] /\ i + 1 \in 1..Len(s) /\ i + 1 # 1
  BY <1>1
<1>3. 1 \in 1..Len(s)
  BY <1>1
<1>4. Head(s) \in S /\ Tail(s) \in Seq(S)
  OBVIOUS
<1>5. In(f, Tail(s)) => In(f, s)
  BY <1>2 DEF In
<1>6. In(Head(s), s)
  BY <1>1, <1>3 DEF In
<1>7. ASSUME Once(f, s) PROVE Once(f, Tail(s))
  <2>1. SUFFICES ASSUME NEW i \in 1..Len(Tail(s)), NEW j \in 1..Len(Tail(s)),
                        Tail(s)[i] = f, Tail(s)[j] = f
                 PROVE  i = j
    BY DEF Once
  <2>2. i + 1 = j + 1
    BY <1>2, <1>7, <2>1 DEF Once
  <2>. QED  BY <2>2
<1>8. ASSUME Once(f, s), f = Head(s) PROVE ~In(f, Tail(s))
  BY <1>1, <1>2, <1>3, <1>8 DEF In, Once
<1>. QED  BY <1>4, <1>5, <1>6, <1>7, <1>8

-----------------------------------------------------------------------------
(* The negotiation. *)

\* The types of the variables the negotiation's order rests on.
HsTyped ==
  /\ ui \in {"code", "off", "joined", "receiving", "session", "failed"}
  /\ offer \in {"no", "local", "sent", "failed", "unsent"}
  /\ answered \in {"no", "yes", "refused"}
  /\ phone \in {"no", "applying", "remote", "created", "local", "answered", "failed"}
  /\ toAgent \in Seq(Frame) /\ toPhone \in Seq(Frame)

\* The relay announces the peer once: before both are in the room nothing was
\* announced, and once the agent has acted on it no second one is under way.
ReadyOnce ==
  /\ ui \in {"code", "off"} \/ ~inRoom => ~In("peer-ready", toAgent) /\ offer = "no"
  /\ offer # "no" => ~In("peer-ready", toAgent)
  /\ Once("peer-ready", toAgent)

\* So there is one offer: in the channel, or taken by the phone.
OfferOnce ==
  /\ In("offer", toPhone) => offer = "sent" /\ phone = "no"
  /\ Once("offer", toPhone)
  /\ phone # "no" => offer = "sent"

\* And one answer: in the channel, or taken by the agent.
AnswerOnce ==
  /\ In("answer", toAgent) \/ answered # "no" => phone = "answered"
  /\ In("answer", toAgent) => answered = "no"
  /\ Once("answer", toAgent)

HsInv == HsTyped /\ ReadyOnce /\ OfferOnce /\ AnswerOnce

\* What the run checks of the negotiation is part of the invariant.
LEMMA HsInvImplies == HsInv => AnswerFollowsOffer
BY DEF HsInv, HsTyped, OfferOnce, AnswerOnce, AnswerFollowsOffer

\* Every member of a channel is a frame.
LEMMA FrameMembers ==
  {"peer-ready", "offer", "answer", "ice"} \subseteq Frame
BY DEF Frame

\* Before anyone has joined.
LEMMA HsInit == Init => HsInv
<1>1. SUFFICES ASSUME Init PROVE HsInv
  OBVIOUS
<1>2. toAgent = <<>> /\ toPhone = <<>>
  BY <1>1 DEF Init
<1>3. \A f : ~In(f, toAgent) /\ ~In(f, toPhone) /\ Once(f, toAgent) /\ Once(f, toPhone)
  BY <1>2, InEmpty
<1>4. HsTyped
  BY <1>1, <1>2 DEF Init, HsTyped
<1>. QED  BY <1>1, <1>3, <1>4 DEF Init, HsInv, ReadyOnce, OfferOnce, AnswerOnce

\* What an action does to the channel it sends one frame on.
LEMMA SentTo ==
  ASSUME NEW s \in Seq(Frame), NEW t, NEW g \in Frame, t = Append(s, g)
  PROVE  /\ t \in Seq(Frame)
         /\ \A f : In(f, t) <=> In(f, s) \/ f = g
         /\ \A f : Once(f, s) /\ (~In(f, s) \/ f # g) => Once(f, t)
BY InAppend, OnceAppend

\* What an action does to the channel it takes a frame from.
LEMMA TakenFrom ==
  ASSUME NEW s \in Seq(Frame), s # <<>>, NEW t, t = Tail(s)
  PROVE  /\ t \in Seq(Frame) /\ Head(s) \in Frame /\ In(Head(s), s)
         /\ \A f : In(f, t) => In(f, s)
         /\ \A f : Once(f, s) => Once(f, t)
         /\ Once(Head(s), s) => ~In(Head(s), t)
BY InTail

\* The second join announces the peer to both sides.
LEMMA HsReady ==
  ASSUME HsInv, Ready, ui = "code" \/ ~inRoom,
         ui' \in {"joined", "receiving", "session", "failed"}, inRoom',
         UNCHANGED <<offer, answered, phone>>
  PROVE  HsInv'
<1>1. toAgent \in Seq(Frame) /\ toAgent' = Append(toAgent, "peer-ready")
  BY DEF HsInv, HsTyped, Ready
<1>2. toPhone \in Seq(Frame) /\ toPhone' = Append(toPhone, "peer-ready")
  BY DEF HsInv, HsTyped, Ready
<1>3. "peer-ready" \in Frame
  BY FrameMembers
<1>4. /\ toAgent' \in Seq(Frame)
      /\ \A f : In(f, toAgent') <=> In(f, toAgent) \/ f = "peer-ready"
      /\ \A f : Once(f, toAgent) /\ (~In(f, toAgent) \/ f # "peer-ready") => Once(f, toAgent')
  BY ONLY <1>1, <1>3, SentTo
<1>5. /\ toPhone' \in Seq(Frame)
      /\ \A f : In(f, toPhone') <=> In(f, toPhone) \/ f = "peer-ready"
      /\ \A f : Once(f, toPhone) /\ (~In(f, toPhone) \/ f # "peer-ready") => Once(f, toPhone')
  BY ONLY <1>2, <1>3, SentTo
<1>6. HsTyped'
  BY <1>4, <1>5 DEF HsInv, HsTyped
<1>7. ReadyOnce'
  BY <1>4 DEF HsInv, ReadyOnce
<1>8. OfferOnce'
  BY <1>5 DEF HsInv, OfferOnce
<1>9. AnswerOnce'
  BY <1>4 DEF HsInv, AnswerOnce
<1>. QED  BY <1>6, <1>7, <1>8, <1>9 DEF HsInv

\* Every step of the agent, the phone and the relay keeps the order.
LEMMA HsStep == HsInv /\ Next => HsInv'
<1>1. SUFFICES ASSUME HsInv, Next PROVE HsInv'
  OBVIOUS
<1>2. toAgent \in Seq(Frame) /\ toPhone \in Seq(Frame)
  BY <1>1 DEF HsInv, HsTyped
<1>3. CASE AgentConnect
  <2>1. /\ ui = "code" /\ ui' = "joined"
        /\ UNCHANGED <<offer, answered, phone, inRoom>>
    BY <1>3 DEF AgentConnect, phoneVars
  <2>2. CASE inRoom
    BY <1>1, <1>3, <2>1, <2>2, HsReady DEF AgentConnect
  <2>3. CASE ~inRoom
    <3>1. UNCHANGED <<toAgent, toPhone>>
      BY <1>3, <2>3 DEF AgentConnect
    <3>. QED
      BY <1>1, <2>1, <2>3, <3>1 DEF HsInv, HsTyped, ReadyOnce, OfferOnce, AnswerOnce
  <2>. QED  BY <2>2, <2>3
<1>4. CASE StartReceiveLoop \/ CreateSession \/ AgentConnectFails
  <2>1. /\ \/ ui \notin {"code", "off"} /\ ui' \in {"receiving", "session", "failed"}
           \/ ui = "code" /\ ui' = "off"
        /\ UNCHANGED <<offer, answered, phone, inRoom, toAgent, toPhone>>
    BY <1>4 DEF StartReceiveLoop, CreateSession, AgentConnectFails, phoneVars
  <2>. QED
    BY <1>1, <2>1 DEF HsInv, HsTyped, ReadyOnce, OfferOnce, AnswerOnce
<1>5. CASE AgentReceive
  <2>1. /\ toAgent # <<>> /\ toAgent' = Tail(toAgent) /\ ui \notin {"code", "off"}
        /\ UNCHANGED <<ui, phone, inRoom, toPhone>>
    BY <1>5 DEF AgentReceive, phoneVars
  <2>2. /\ toAgent' \in Seq(Frame) /\ In(Head(toAgent), toAgent)
        /\ \A f : In(f, toAgent') => In(f, toAgent)
        /\ \A f : Once(f, toAgent) => Once(f, toAgent')
        /\ Once(Head(toAgent), toAgent) => ~In(Head(toAgent), toAgent')
    BY <1>2, <2>1, TakenFrom
  <2>3. \/ Head(toAgent) = "peer-ready" /\ offer' \in {"local", "failed"}
        \/ offer' = offer
    BY <1>5 DEF AgentReceive
  <2>4. \/ Head(toAgent) = "answer" /\ answered' \in {"yes", "refused"}
        \/ answered' = answered
    BY <1>5 DEF AgentReceive
  <2>5. HsTyped'
    BY <1>1, <2>1, <2>2, <2>3, <2>4 DEF HsInv, HsTyped
  <2>6. ReadyOnce'
    BY <1>1, <2>1, <2>2, <2>3 DEF HsInv, ReadyOnce
  <2>7. OfferOnce'
    BY <1>1, <2>1, <2>2, <2>3 DEF HsInv, ReadyOnce, OfferOnce
  <2>8. AnswerOnce'
    BY <1>1, <2>1, <2>2, <2>4 DEF HsInv, AnswerOnce
  <2>. QED  BY <2>5, <2>6, <2>7, <2>8 DEF HsInv
<1>6. CASE SendOffer
  <2>1. /\ offer = "local"
        /\ \/ offer' = "sent" /\ toPhone' = Append(toPhone, "offer")
           \/ offer' = "unsent" /\ toPhone' = toPhone
        /\ UNCHANGED <<ui, answered, phone, inRoom, toAgent>>
    BY <1>6 DEF SendOffer, phoneVars
  <2>2. /\ toPhone' \in Seq(Frame)
        /\ \A f : In(f, toPhone') => In(f, toPhone) \/ (f = "offer" /\ offer' = "sent")
        /\ \A f : Once(f, toPhone) /\ (~In(f, toPhone) \/ f # "offer") => Once(f, toPhone')
    BY <1>2, <2>1, SentTo, FrameMembers
  <2>3. HsTyped'
    BY <1>1, <2>1, <2>2 DEF HsInv, HsTyped
  <2>4. ReadyOnce' /\ AnswerOnce'
    BY <1>1, <2>1 DEF HsInv, ReadyOnce, AnswerOnce
  <2>5. OfferOnce'
    BY <1>1, <2>1, <2>2 DEF HsInv, HsTyped, OfferOnce
  <2>. QED  BY <2>3, <2>4, <2>5 DEF HsInv
<1>7. CASE OnLocalIceCandidate
  <2>1. /\ toPhone' = Append(toPhone, "ice") \/ toPhone' = toPhone
        /\ UNCHANGED <<ui, offer, answered, phone, inRoom, toAgent>>
    BY <1>7 DEF OnLocalIceCandidate, phoneVars
  <2>2. /\ toPhone' \in Seq(Frame)
        /\ \A f : In(f, toPhone') => In(f, toPhone) \/ f = "ice"
        /\ \A f : Once(f, toPhone) /\ (~In(f, toPhone) \/ f # "ice") => Once(f, toPhone')
    BY <1>2, <2>1, SentTo, FrameMembers
  <2>. QED
    BY <1>1, <2>1, <2>2 DEF HsInv, HsTyped, ReadyOnce, OfferOnce, AnswerOnce
<1>8. CASE PhoneConnect
  <2>1. /\ ~inRoom /\ inRoom'
        /\ UNCHANGED <<ui, offer, answered, phone>>
    BY <1>8 DEF PhoneConnect, agentVars
  <2>2. CASE ui \in {"code", "off"}
    <3>1. UNCHANGED <<toAgent, toPhone>>
      BY <1>8, <2>2 DEF PhoneConnect
    <3>. QED
      BY <1>1, <2>1, <2>2, <3>1 DEF HsInv, HsTyped, ReadyOnce, OfferOnce, AnswerOnce
  <2>3. CASE ui \notin {"code", "off"}
    <3>1. Ready /\ ui' \in {"joined", "receiving", "session", "failed"}
      BY <1>1, <1>8, <2>1, <2>3 DEF PhoneConnect, HsInv, HsTyped
    <3>. QED  BY <1>1, <2>1, <3>1, HsReady
  <2>. QED  BY <2>2, <2>3
<1>9. CASE HandleOffer
  <2>1. /\ toPhone # <<>> /\ toPhone' = Tail(toPhone) /\ Head(toPhone) = "offer"
        /\ phone' = "applying"
        /\ UNCHANGED <<ui, offer, answered, inRoom, toAgent>>
    BY <1>9 DEF HandleOffer, agentVars
  <2>2. /\ toPhone' \in Seq(Frame) /\ In(Head(toPhone), toPhone)
        /\ \A f : In(f, toPhone') => In(f, toPhone)
        /\ \A f : Once(f, toPhone) => Once(f, toPhone')
        /\ Once(Head(toPhone), toPhone) => ~In(Head(toPhone), toPhone')
    BY <1>2, <2>1, TakenFrom
  <2>3. HsTyped'
    BY <1>1, <2>1, <2>2 DEF HsInv, HsTyped
  <2>4. offer = "sent" /\ phone = "no"
    BY <1>1, <2>1, <2>2 DEF HsInv, OfferOnce
  <2>5. ReadyOnce'
    BY <1>1, <2>1 DEF HsInv, ReadyOnce
  <2>6. OfferOnce'
    BY <1>1, <2>1, <2>2, <2>4 DEF HsInv, OfferOnce
  <2>7. AnswerOnce'
    BY <1>1, <2>1, <2>4 DEF HsInv, AnswerOnce
  <2>. QED  BY <2>3, <2>5, <2>6, <2>7 DEF HsInv
<1>10. CASE AddIceCandidate \/ IgnoreEnvelope
  <2>1. /\ toPhone # <<>> /\ toPhone' = Tail(toPhone)
        /\ UNCHANGED <<ui, offer, answered, inRoom, phone, toAgent>>
    BY <1>10 DEF AddIceCandidate, IgnoreEnvelope, agentVars, phoneVars
  <2>2. /\ toPhone' \in Seq(Frame)
        /\ \A f : In(f, toPhone') => In(f, toPhone)
        /\ \A f : Once(f, toPhone) => Once(f, toPhone')
    BY <1>2, <2>1, TakenFrom
  <2>. QED
    BY <1>1, <2>1, <2>2 DEF HsInv, HsTyped, ReadyOnce, OfferOnce, AnswerOnce
<1>11. CASE OfferStage
  <2>1. /\ phone \in {"applying", "remote", "created"}
        /\ phone' \in {"remote", "created", "local", "failed"}
        /\ UNCHANGED <<ui, offer, answered, inRoom, toAgent, toPhone>>
    BY <1>11 DEF OfferStage, NextStage, agentVars
  <2>. QED
    BY <1>1, <2>1 DEF HsInv, HsTyped, ReadyOnce, OfferOnce, AnswerOnce
<1>12. CASE SendDone
  <2>1. UNCHANGED <<ui, offer, answered, inRoom, phone, toAgent, toPhone>>
    BY <1>12 DEF SendDone, agentVars
  <2>. QED
    BY <1>1, <2>1 DEF HsInv, HsTyped, ReadyOnce, OfferOnce, AnswerOnce
<1>13. CASE OnLocalAnswer
  <2>1. /\ phone = "local" /\ phone' = "answered"
        /\ UNCHANGED <<ui, offer, answered, inRoom, toPhone>>
        /\ toAgent' = Append(toAgent, "answer") \/ toAgent' = toAgent
    BY <1>13 DEF OnLocalAnswer, PhoneSend, agentVars
  <2>2. /\ toAgent' \in Seq(Frame)
        /\ \A f : In(f, toAgent') => In(f, toAgent) \/ f = "answer"
        /\ \A f : Once(f, toAgent) /\ (~In(f, toAgent) \/ f # "answer") => Once(f, toAgent')
    BY <1>2, <2>1, SentTo, FrameMembers
  <2>3. HsTyped'
    BY <1>1, <2>1, <2>2 DEF HsInv, HsTyped
  <2>4. ReadyOnce' /\ OfferOnce'
    BY <1>1, <2>1, <2>2 DEF HsInv, ReadyOnce, OfferOnce
  <2>5. AnswerOnce'
    BY <1>1, <2>1, <2>2 DEF HsInv, AnswerOnce
  <2>. QED  BY <2>3, <2>4, <2>5 DEF HsInv
<1>14. CASE OnLocalIce
  <2>1. /\ UNCHANGED <<ui, offer, answered, inRoom, phone, toPhone>>
        /\ toAgent' = Append(toAgent, "ice") \/ toAgent' = toAgent
    BY <1>14 DEF OnLocalIce, PhoneSend, agentVars
  <2>2. /\ toAgent' \in Seq(Frame)
        /\ \A f : In(f, toAgent') => In(f, toAgent) \/ f = "ice"
        /\ \A f : Once(f, toAgent) /\ (~In(f, toAgent) \/ f # "ice") => Once(f, toAgent')
    BY <1>2, <2>1, SentTo, FrameMembers
  <2>. QED
    BY <1>1, <2>1, <2>2 DEF HsInv, HsTyped, ReadyOnce, OfferOnce, AnswerOnce
<1>. QED
  BY <1>1, <1>3, <1>4, <1>5, <1>6, <1>7, <1>8, <1>9, <1>10, <1>11, <1>12, <1>13, <1>14
     DEF Next, Agent, Phone

\* Steps that leave the negotiation alone keep it.
LEMMA HsStutter == HsInv /\ UNCHANGED vars => HsInv'
BY DEF HsInv, HsTyped, ReadyOnce, OfferOnce, AnswerOnce, vars, agentVars, phoneVars

\* In every session, whatever the order of joins, frames and candidates: no
\* answer without the agent's offer, and at most one of each (HandleOffer and
\* OnSignalingEnvelope).
THEOREM AnswersFollowOffers == SessionSpec => []AnswerFollowsOffer
<1>1. SessionInit => HsInv
  BY HsInit DEF SessionInit
<1>2. HsInv /\ [SessionNext]_sessionVars => HsInv'
  BY HsStep, HsStutter DEF SessionNext, sessionVars
<1>. QED  BY <1>1, <1>2, HsInvImplies, PTL DEF SessionSpec

-----------------------------------------------------------------------------
(* What HandshakeCompletes needs: between the joins and the answer there is *)
(* always something that keeps the negotiation going.                       *)

\* Both in the room, the negotiation is over, or one of the failures that
\* BrokenOff names is on record, or the next thing it needs is there: the
\* peer-ready, the offer or the answer in its channel, or a side at work on it.
NegotiationGoesOn ==
  inRoom /\ ui \notin {"code", "off"} =>
    \/ In("peer-ready", toAgent) \/ offer = "local" \/ In("offer", toPhone)
    \/ phone \in {"applying", "remote", "created", "local"} \/ In("answer", toAgent)
    \/ answered = "yes" \/ BrokenOff

\* Taking a frame from a channel leaves the others in it.
LEMMA InRest ==
  ASSUME NEW s \in Seq(Frame), s # <<>>, NEW f, In(f, s), f # Head(s)
  PROVE  In(f, Tail(s))
<1>1. PICK i \in 1..Len(s) : s[i] = f
  BY DEF In
<1>2. Len(s) \in Nat /\ Len(Tail(s)) = Len(s) - 1 /\ Head(s) = s[1]
  OBVIOUS
<1>3. i # 1 /\ i - 1 \in 1..Len(Tail(s))
  BY <1>1, <1>2
<1>4. Tail(s)[i - 1] = s[i]
  BY <1>2, <1>3
<1>. QED  BY <1>1, <1>3, <1>4 DEF In

\* A frame the phone sends is in the channel or lost, and disturbs no other.
LEMMA PhoneSends ==
  ASSUME toAgent \in Seq(Frame), NEW g \in Frame, PhoneSend(g)
  PROVE  /\ In(g, toAgent') \/ g \in lost'
         /\ \A f : In(f, toAgent) => In(f, toAgent')
         /\ lost \subseteq lost'
<1>1. CASE toAgent' = Append(toAgent, g) /\ UNCHANGED lost
  <2>1. \A f : In(f, toAgent') <=> In(f, toAgent) \/ f = g
    BY <1>1, SentTo
  <2>. QED  BY <1>1, <2>1
<1>2. CASE lost' = lost \cup {g} /\ UNCHANGED toAgent
  BY <1>2
<1>. QED  BY <1>1, <1>2 DEF PhoneSend

\* No step of the agent, the phone or the relay drops the thread.
LEMMA GoesOnStep == HsInv /\ NegotiationGoesOn /\ Next => NegotiationGoesOn'
<1>1. SUFFICES ASSUME HsInv, NegotiationGoesOn, Next PROVE NegotiationGoesOn'
  OBVIOUS
<1>2. toAgent \in Seq(Frame) /\ toPhone \in Seq(Frame)
  BY <1>1 DEF HsInv, HsTyped
<1>3. CASE Ready
  <2>1. In("peer-ready", toAgent')
    BY <1>2, <1>3, FrameMembers, SentTo DEF Ready
  <2>. QED  BY <2>1 DEF NegotiationGoesOn
<1>4. CASE AgentConnect \/ PhoneConnect
  <2>1. Ready \/ ~inRoom' \/ ui' \in {"code", "off"}
    BY <1>4 DEF AgentConnect, PhoneConnect, agentVars, phoneVars
  <2>. QED  BY <1>3, <2>1 DEF NegotiationGoesOn
<1>5. CASE StartReceiveLoop \/ CreateSession \/ AgentConnectFails
  <2>1. /\ ui \notin {"code", "off"} \/ ui' = "off"
        /\ UNCHANGED <<offer, answered, phone, inRoom, toAgent, toPhone, lost>>
    BY <1>5 DEF StartReceiveLoop, CreateSession, AgentConnectFails, phoneVars
  <2>. QED  BY <1>1, <2>1 DEF NegotiationGoesOn, BrokenOff
<1>6. CASE AgentReceive
  <2>1. /\ toAgent # <<>> /\ toAgent' = Tail(toAgent) /\ lost \subseteq lost'
        /\ UNCHANGED <<ui, phone, inRoom, toPhone>>
    BY <1>6 DEF AgentReceive, phoneVars
  <2>2. /\ In(Head(toAgent), toAgent)
        /\ \A f : In(f, toAgent) /\ f # Head(toAgent) => In(f, toAgent')
    BY <1>2, <2>1, InRest, TakenFrom
  <2>3. CASE Head(toAgent) = "peer-ready"
    <3>1. offer' \in {"local", "failed"} \/ "peer-ready" \in lost'
      BY <1>6, <2>3 DEF AgentReceive
    <3>. QED  BY <3>1 DEF NegotiationGoesOn, BrokenOff
  <2>4. CASE Head(toAgent) = "answer"
    <3>1. answered' \in {"yes", "refused"} \/ "answer" \in lost'
      BY <1>6, <2>4 DEF AgentReceive
    <3>. QED  BY <3>1 DEF NegotiationGoesOn, BrokenOff
  <2>5. CASE Head(toAgent) \notin {"peer-ready", "answer"}
    <3>1. UNCHANGED <<offer, answered>>
      BY <1>6, <2>5 DEF AgentReceive
    <3>. QED  BY <1>1, <2>1, <2>2, <2>5, <3>1 DEF NegotiationGoesOn, BrokenOff
  <2>. QED  BY <2>3, <2>4, <2>5
<1>7. CASE SendOffer
  <2>1. In("offer", toPhone') \/ offer' = "unsent"
    BY <1>2, <1>7, FrameMembers, SentTo DEF SendOffer
  <2>. QED  BY <2>1 DEF NegotiationGoesOn, BrokenOff
<1>8. CASE OnLocalIceCandidate
  <2>1. /\ toPhone' = Append(toPhone, "ice") \/ toPhone' = toPhone
        /\ UNCHANGED <<ui, offer, answered, phone, inRoom, toAgent, lost>>
    BY <1>8 DEF OnLocalIceCandidate, phoneVars
  <2>2. In("offer", toPhone) => In("offer", toPhone')
    BY <1>2, <2>1, FrameMembers, SentTo
  <2>. QED  BY <1>1, <2>1, <2>2 DEF NegotiationGoesOn, BrokenOff
<1>9. CASE HandleOffer
  BY <1>9 DEF HandleOffer, NegotiationGoesOn
<1>10. CASE AddIceCandidate \/ IgnoreEnvelope
  <2>1. /\ toPhone # <<>> /\ toPhone' = Tail(toPhone) /\ Head(toPhone) # "offer"
        /\ UNCHANGED <<ui, offer, answered, phone, inRoom, toAgent, lost>>
    BY <1>10 DEF AddIceCandidate, IgnoreEnvelope, agentVars, phoneVars
  <2>2. In("offer", toPhone) => In("offer", toPhone')
    BY <1>2, <2>1, InRest
  <2>. QED  BY <1>1, <2>1, <2>2 DEF NegotiationGoesOn, BrokenOff
<1>11. CASE OfferStage
  <2>1. phone' \in {"remote", "created", "local", "failed"}
    BY <1>11 DEF OfferStage, NextStage
  <2>. QED  BY <2>1 DEF NegotiationGoesOn, BrokenOff
<1>12. CASE OnLocalAnswer
  <2>1. In("answer", toAgent') \/ "answer" \in lost'
    BY <1>2, <1>12, FrameMembers, PhoneSends DEF OnLocalAnswer
  <2>. QED  BY <2>1 DEF NegotiationGoesOn, BrokenOff
<1>13. CASE OnLocalIce
  <2>1. /\ lost \subseteq lost' /\ \A f : In(f, toAgent) => In(f, toAgent')
        /\ UNCHANGED <<ui, offer, answered, phone, inRoom, toPhone>>
    BY <1>2, <1>13, FrameMembers, PhoneSends DEF OnLocalIce, agentVars
  <2>. QED  BY <1>1, <2>1 DEF NegotiationGoesOn, BrokenOff
<1>14. CASE SendDone
  <2>1. UNCHANGED <<ui, offer, answered, phone, inRoom, toAgent, toPhone, lost>>
    BY <1>14 DEF SendDone, agentVars
  <2>. QED  BY <1>1, <2>1 DEF NegotiationGoesOn, BrokenOff
<1>. QED
  BY <1>1, <1>4, <1>5, <1>6, <1>7, <1>8, <1>9, <1>10, <1>11, <1>12, <1>13, <1>14
     DEF Next, Agent, Phone

\* From the moment both are in the room until the answer is applied, the
\* negotiation has a next step to take, unless a failure is on record: StartAsync
\* threw, a description was refused on either side, HandleOffer stopped, the
\* receive loop took the peer-ready too early or the answer's send was refused.
\* No order of joins, candidates and descriptions leaves both sides waiting.
THEOREM NegotiationIsNeverStuck == SessionSpec => []NegotiationGoesOn
<1>1. SessionInit => NegotiationGoesOn
  BY DEF SessionInit, Init, NegotiationGoesOn
<1>2. HsInv /\ NegotiationGoesOn /\ [SessionNext]_sessionVars => NegotiationGoesOn'
  <2>1. HsInv /\ NegotiationGoesOn /\ UNCHANGED vars => NegotiationGoesOn'
    BY DEF vars, agentVars, phoneVars, NegotiationGoesOn, BrokenOff
  <2>. QED
    BY <2>1, GoesOnStep DEF SessionNext, sessionVars
<1>3. SessionInit => HsInv
  BY HsInit DEF SessionInit
<1>4. HsInv /\ [SessionNext]_sessionVars => HsInv'
  BY HsStep, HsStutter DEF SessionNext, sessionVars
<1>. QED  BY <1>1, <1>2, <1>3, <1>4, PTL DEF SessionSpec

-----------------------------------------------------------------------------
(* The user's screen. *)

\* The types the markers' argument rests on.
AnnTyped ==
  /\ _markers \subseteq Id /\ DOMAIN _anchors \subseteq Id /\ current \subseteq Id
  /\ _anchors \in [DOMAIN _anchors -> {"alive", "destroyed"}]
  /\ channel \in Seq(Event)

AnnInv == AnnTyped /\ NoLeftovers /\ GuidanceVisible

\* An event that places something has an id, and so has one that deletes.
LEMMA EventIds ==
  ASSUME NEW e \in Event
  PROVE  /\ e.op \in {"create", "update", "delete", "clear"}
         /\ e.op # "clear" => e.id \in Id
         /\ Placing(e) => e.id \in Id
         /\ Removed(e) \subseteq Id
<1>1. CASE e \in [op : {"create", "update"}, id : Id, point : BOOLEAN]
  BY <1>1 DEF Placing, Removed
<1>2. CASE e \in [op : {"delete"}, id : Id]
  BY <1>2 DEF Placing, Removed
<1>3. CASE e = [op |-> "clear"]
  BY <1>3 DEF Placing, Removed
<1>. QED  BY <1>1, <1>2, <1>3 DEF Event

\* Nothing is placed before the session.
LEMMA AnnInitial == AnnInit => AnnInv
<1>1. SUFFICES ASSUME AnnInit PROVE AnnInv
  OBVIOUS
<1>2. DOMAIN _anchors = {}
  BY <1>1 DEF AnnInit
<1>3. _anchors \in [DOMAIN _anchors -> {"alive", "destroyed"}]
  BY <1>1, <1>2 DEF AnnInit
<1>4. channel \in Seq(Event)
  BY <1>1 DEF AnnInit
<1>. QED
  BY <1>1, <1>2, <1>3, <1>4 DEF AnnInit, AnnInv, AnnTyped, NoLeftovers, GuidanceVisible, Visible

\* A flat marker shows what it stands for and hides nothing.
LEMMA AnnPlaceFlat ==
  ASSUME AnnInv, NEW e, e.id \in Id, channel' \in Seq(Event), PlaceFlat(e)
  PROVE  AnnInv'
<1>1. /\ _markers' = _markers \cup {e.id} /\ current' = current \cup {e.id}
      /\ arLost' = arLost \ {e.id} /\ _anchors' = _anchors
  BY DEF PlaceFlat, Overlay
<1>2. AnnTyped'
  BY <1>1 DEF AnnInv, AnnTyped
<1>3. NoLeftovers'
  BY <1>1 DEF AnnInv, NoLeftovers
<1>4. GuidanceVisible'
  <2>1. SUFFICES ASSUME NEW i \in current', i \notin arLost' PROVE Visible(i)'
    BY DEF GuidanceVisible
  <2>2. CASE i = e.id
    BY <1>1, <2>2 DEF Visible
  <2>3. CASE i # e.id
    <3>1. Visible(i)
      BY <1>1, <2>1, <2>3 DEF AnnInv, GuidanceVisible
    <3>. QED  BY <1>1, <3>1 DEF Visible
  <2>. QED  BY <2>2, <2>3
<1>. QED  BY <1>2, <1>3, <1>4 DEF AnnInv

\* An anchor replaces the flat marker and the anchor before it; where the
\* platform refuses one, the id is among those it lost.
LEMMA AnnPlaceAnchor ==
  ASSUME AnnInv, NEW e, e.id \in Id, channel' \in Seq(Event), PlaceAnchor(e)
  PROVE  AnnInv'
<1>1. /\ _markers' = _markers \ {e.id} /\ current' = current \cup {e.id}
      /\ \/ /\ _anchors' = [i \in DOMAIN _anchors \cup {e.id} |->
                               IF i = e.id THEN "alive" ELSE _anchors[i]]
            /\ arLost' = arLost \ {e.id}
         \/ /\ _anchors' = [i \in DOMAIN _anchors \ {e.id} |-> _anchors[i]]
            /\ arLost' = arLost \cup {e.id}
  BY DEF PlaceAnchor, Without
<1>2. /\ DOMAIN _anchors \subseteq Id /\ _markers \subseteq Id /\ current \subseteq Id
      /\ \A i \in DOMAIN _anchors : _anchors[i] \in {"alive", "destroyed"}
      /\ DOMAIN _anchors \cup _markers \subseteq current
  BY DEF AnnInv, AnnTyped, NoLeftovers
<1>3. CASE /\ _anchors' = [i \in DOMAIN _anchors \cup {e.id} |->
                             IF i = e.id THEN "alive" ELSE _anchors[i]]
           /\ arLost' = arLost \ {e.id}
  <2>1. /\ DOMAIN _anchors' = DOMAIN _anchors \cup {e.id}
        /\ \A i \in DOMAIN _anchors' : _anchors'[i] = IF i = e.id THEN "alive" ELSE _anchors[i]
    BY <1>3
  <2>2. _anchors' \in [DOMAIN _anchors' -> {"alive", "destroyed"}]
    BY <1>2, <1>3
  <2>3. AnnTyped'
    BY <1>1, <1>2, <2>1, <2>2 DEF AnnTyped
  <2>4. NoLeftovers'
    BY <1>1, <1>2, <2>1 DEF NoLeftovers
  <2>5. GuidanceVisible'
    <3>1. SUFFICES ASSUME NEW i \in current', i \notin arLost' PROVE Visible(i)'
      BY DEF GuidanceVisible
    <3>2. CASE i = e.id
      BY <2>1, <3>2 DEF Visible
    <3>3. CASE i # e.id
      <4>1. Visible(i)
        BY <1>1, <1>3, <3>1, <3>3 DEF AnnInv, GuidanceVisible
      <4>. QED  BY <1>1, <2>1, <3>3, <4>1 DEF Visible
    <3>. QED  BY <3>2, <3>3
  <2>. QED  BY <2>3, <2>4, <2>5 DEF AnnInv
<1>4. CASE /\ _anchors' = [i \in DOMAIN _anchors \ {e.id} |-> _anchors[i]]
           /\ arLost' = arLost \cup {e.id}
  <2>1. /\ DOMAIN _anchors' = DOMAIN _anchors \ {e.id}
        /\ \A i \in DOMAIN _anchors' : _anchors'[i] = _anchors[i]
    BY <1>4
  <2>2. _anchors' \in [DOMAIN _anchors' -> {"alive", "destroyed"}]
    BY <1>2, <1>4
  <2>3. AnnTyped'
    BY <1>1, <1>2, <2>1, <2>2 DEF AnnTyped
  <2>4. NoLeftovers'
    BY <1>1, <1>2, <2>1 DEF NoLeftovers
  <2>5. GuidanceVisible'
    <3>1. SUFFICES ASSUME NEW i \in current', i \notin arLost' PROVE Visible(i)'
      BY DEF GuidanceVisible
    <3>2. i # e.id /\ i \in current /\ i \notin arLost
      BY <1>1, <1>4, <3>1
    <3>3. Visible(i)
      BY <3>2 DEF AnnInv, GuidanceVisible
    <3>. QED  BY <1>1, <2>1, <3>2, <3>3 DEF Visible
  <2>. QED  BY <2>3, <2>4, <2>5 DEF AnnInv
<1>. QED  BY <1>1, <1>3, <1>4

\* Remove and Clear take the anchor and the flat marker of what they remove.
LEMMA AnnRemove ==
  ASSUME AnnInv, NEW e \in Event, channel' \in Seq(Event), RemoveOrClear(e)
  PROVE  AnnInv'
<1>1. /\ _anchors' = [i \in DOMAIN _anchors \ Removed(e) |-> _anchors[i]]
      /\ _markers' = _markers \ Removed(e) /\ current' = current \ Removed(e)
      /\ arLost' = arLost
  BY DEF RemoveOrClear, Without, MarkersAfter
<1>2. /\ DOMAIN _anchors \subseteq Id /\ _markers \subseteq Id /\ current \subseteq Id
      /\ \A i \in DOMAIN _anchors : _anchors[i] \in {"alive", "destroyed"}
      /\ DOMAIN _anchors \cup _markers \subseteq current
  BY DEF AnnInv, AnnTyped, NoLeftovers
<1>3. /\ DOMAIN _anchors' = DOMAIN _anchors \ Removed(e)
      /\ \A i \in DOMAIN _anchors' : _anchors'[i] = _anchors[i]
  BY <1>1
<1>4. _anchors' \in [DOMAIN _anchors' -> {"alive", "destroyed"}]
  BY <1>1, <1>2
<1>5. AnnTyped'
  BY <1>1, <1>2, <1>3, <1>4 DEF AnnTyped
<1>6. NoLeftovers'
  BY <1>1, <1>2, <1>3 DEF NoLeftovers
<1>7. GuidanceVisible'
  <2>1. SUFFICES ASSUME NEW i \in current', i \notin arLost' PROVE Visible(i)'
    BY DEF GuidanceVisible
  <2>2. i \in current /\ i \notin arLost /\ i \notin Removed(e)
    BY <1>1, <2>1
  <2>3. Visible(i)
    BY <2>2 DEF AnnInv, GuidanceVisible
  <2>. QED  BY <1>1, <1>3, <2>2, <2>3 DEF Visible
<1>. QED  BY <1>5, <1>6, <1>7 DEF AnnInv

\* Every step of the annotations keeps the screen in step.
LEMMA AnnStep == AnnInv /\ AnnNext => AnnInv'
<1>1. SUFFICES ASSUME AnnInv, AnnNext PROVE AnnInv'
  OBVIOUS
<1>2. ASSUME UNCHANGED arVars, channel' \in Seq(Event) PROVE AnnInv'
  BY <1>1, <1>2 DEF AnnInv, AnnTyped, NoLeftovers, GuidanceVisible, Visible, arVars
<1>3. channel \in Seq(Event)
  BY <1>1 DEF AnnInv, AnnTyped
<1>4. CASE ChannelOpens \/ OnSignalingEnvelope
  BY <1>2, <1>3, <1>4 DEF ChannelOpens, OnSignalingEnvelope
<1>5. ASSUME NEW e \in Event, SendAnnotation(e) PROVE AnnInv'
  <2>1. UNCHANGED arVars /\ channel' \in {channel, Append(channel, e)}
    BY <1>5 DEF SendAnnotation
  <2>2. Append(channel, e) \in Seq(Event)
    BY <1>3
  <2>. QED  BY <1>2, <1>3, <2>1, <2>2
<1>6. CASE Apply
  <2>1. /\ channel # <<>> /\ channel' = Tail(channel)
        /\ \/ PlaceNothing(Head(channel)) \/ PlaceFlat(Head(channel))
           \/ PlaceAnchor(Head(channel)) \/ RemoveOrClear(Head(channel))
    BY <1>6 DEF Apply, Consume
  <2>2. Head(channel) \in Event /\ channel' \in Seq(Event)
    BY <1>3, <2>1
  <2>3. CASE PlaceNothing(Head(channel))
    BY <1>2, <2>2, <2>3 DEF PlaceNothing
  <2>4. Placing(Head(channel)) => Head(channel).id \in Id
    BY <2>2, EventIds
  <2>5. CASE PlaceFlat(Head(channel))
    <3>1. Head(channel).id \in Id
      BY <2>4, <2>5 DEF PlaceFlat
    <3>. QED  BY <1>1, <2>2, <2>5, <3>1, AnnPlaceFlat
  <2>6. CASE PlaceAnchor(Head(channel))
    <3>1. Head(channel).id \in Id
      BY <2>4, <2>6 DEF PlaceAnchor
    <3>. QED  BY <1>1, <2>2, <2>6, <3>1, AnnPlaceAnchor
  <2>7. CASE RemoveOrClear(Head(channel))
    BY <1>1, <2>2, <2>7, AnnRemove
  <2>. QED  BY <2>1, <2>3, <2>5, <2>6, <2>7
<1>7. ASSUME NEW d \in Id, AnchorDropped(d) PROVE AnnInv'
  <2>1. /\ _anchors' = [_anchors EXCEPT ![d] = "destroyed"] /\ arLost' = arLost \cup {d}
        /\ UNCHANGED <<_markers, current, channel>>
    BY <1>7 DEF AnchorDropped
  <2>2. _anchors \in [DOMAIN _anchors -> {"alive", "destroyed"}]
    BY <1>1 DEF AnnInv, AnnTyped
  <2>3. /\ DOMAIN _anchors' = DOMAIN _anchors
        /\ _anchors' \in [DOMAIN _anchors' -> {"alive", "destroyed"}]
        /\ \A i \in DOMAIN _anchors : i # d => _anchors'[i] = _anchors[i]
    BY <2>1, <2>2
  <2>4. AnnTyped'
    BY <1>1, <2>1, <2>3 DEF AnnInv, AnnTyped
  <2>5. NoLeftovers'
    BY <1>1, <2>1, <2>3 DEF AnnInv, NoLeftovers
  <2>6. GuidanceVisible'
    <3>1. SUFFICES ASSUME NEW i \in current', i \notin arLost' PROVE Visible(i)'
      BY DEF GuidanceVisible
    <3>2. i # d /\ Visible(i)
      BY <1>1, <2>1, <3>1 DEF AnnInv, GuidanceVisible
    <3>. QED  BY <2>1, <2>3, <3>2 DEF Visible
  <2>. QED  BY <2>4, <2>5, <2>6 DEF AnnInv
<1>. QED  BY <1>1, <1>4, <1>5, <1>6, <1>7 DEF AnnNext

\* In every session: nothing deleted or cleared stays on the screen and every
\* other placed annotation is shown, unless the AR platform lost its anchor
\* (AnnotationAnchorManager.Apply with Annotation2DOverlay).
THEOREM ScreensShowWhatIsPlaced == SessionSpec => []ScreenShowsCurrent
<1>1. SessionInit => AnnInv
  BY AnnInitial DEF SessionInit
<1>2. AnnInv /\ UNCHANGED annVars => AnnInv'
  BY DEF AnnInv, AnnTyped, NoLeftovers, GuidanceVisible, Visible, annVars, arVars
<1>3. AnnInv /\ [SessionNext]_sessionVars => AnnInv'
  BY <1>2, AnnStep DEF SessionNext, Annotate, sessionVars
<1>4. AnnInv => ScreenShowsCurrent
  BY DEF AnnInv, ScreenShowsCurrent
<1>. QED  BY <1>1, <1>3, <1>4, PTL DEF SessionSpec

-----------------------------------------------------------------------------
(* The click. *)

\* The sizes; a source has both dimensions or neither.
ViewTyped ==
  /\ cw \in Nat /\ ch \in Nat /\ sw \in Nat /\ sh \in Nat /\ x \in Nat /\ y \in Nat
  /\ sw > 0 => sh > 0
  /\ x <= cw /\ y <= ch

\* The last click was mapped with the sizes that are still current, or there
\* has been none since they changed.
ViewMapped ==
  \/ norm = NONE
  \/ norm = IF sw > 0 THEN PointerToNormalized(x, y) ELSE ControlRelative(x, y)

ViewInv == ViewTyped /\ ViewMapped

\* What the mapping's products are to each other: the click's distance from the
\* control's centre in units of the source, and its bound.
LEMMA Scaled ==
  ASSUME NEW c \in Nat, NEW s \in Nat, NEW p \in Nat, p <= c
  PROVE  /\ c * s \in Nat /\ p * s \in Nat /\ p * s <= c * s
         /\ 2 * s * p = 2 * (p * s)
         /\ Dist(2 * p, c) * s = Dist(2 * (p * s), c * s)
<1>1. c * s \in Nat /\ p * s \in Nat /\ 2 * s * p = 2 * (p * s)
  OBVIOUS
<1>2. PICK d \in Nat : c = p + d
  <2>1. c - p \in Nat /\ c = p + (c - p)
    OBVIOUS
  <2>. QED  BY <2>1
<1>3. d * s \in Nat /\ c * s = p * s + d * s
  BY <1>2
<1>4. p * s <= c * s
  BY <1>1, <1>3
<1>5. Dist(2 * p, c) * s = Dist(2 * (p * s), c * s)
  <2>1. CASE 2 * p <= c
    <3>1. PICK k \in Nat : c = 2 * p + k
      <4>1. c - 2 * p \in Nat /\ c = 2 * p + (c - 2 * p)
        BY <2>1
      <4>. QED  BY <4>1
    <3>2. k * s \in Nat /\ c * s = 2 * (p * s) + k * s
      BY <3>1
    <3>3. Dist(2 * p, c) = k
      BY <2>1, <3>1 DEF Dist
    <3>4. Dist(2 * (p * s), c * s) = k * s
      BY <1>1, <3>2 DEF Dist
    <3>. QED  BY <3>3, <3>4
  <2>2. CASE ~(2 * p <= c)
    <3>1. PICK k \in Nat : 2 * p = c + k
      <4>1. 2 * p - c \in Nat /\ 2 * p = c + (2 * p - c)
        BY <2>2
      <4>. QED  BY <4>1
    <3>2. k * s \in Nat /\ 2 * (p * s) = c * s + k * s
      <4>1. (2 * p) * s = c * s + k * s
        BY <3>1
      <4>. QED  BY <4>1
    <3>3. Dist(2 * p, c) = k
      BY <2>2, <3>1 DEF Dist
    <3>4. Dist(2 * (p * s), c * s) = k * s
      BY <1>1, <3>2 DEF Dist
    <3>. QED  BY <3>3, <3>4
  <2>. QED  BY <2>1, <2>2
<1>. QED  BY <1>1, <1>4, <1>5

\* The mapping refuses a click exactly when one of its distances from the
\* centre exceeds what the other dimension leaves to the frame.
LEMMA OutsideIsBar ==
  ASSUME NEW a \in Nat, NEW b \in Nat, NEW p \in Nat, p <= a,
         NEW l, l = 2 * p - (a - Smaller(a, b))
  PROVE  (l < 0 \/ l > 2 * Smaller(a, b)) <=> Dist(2 * p, a) > b
<1>1. CASE a <= b
  BY <1>1 DEF Smaller, Dist
<1>2. CASE ~(a <= b)
  BY <1>2 DEF Smaller, Dist
<1>. QED  BY <1>1, <1>2

\* Which of two equal products is named first does not matter.
LEMMA SmallerSymmetric ==
  ASSUME NEW a \in Nat, NEW b \in Nat
  PROVE  Smaller(a, b) = Smaller(b, a) /\ Smaller(a, b) \in Nat
BY DEF Smaller

\* With a frame, the mapping in terms of the products of sizes and click.
LEMMA FramedMapping ==
  ASSUME ViewTyped, Framed
  PROVE  /\ Fit \in Nat /\ Fit > 0
         /\ LocalX(x) = 2 * (x * sh) - (cw * sh - Fit)
         /\ LocalY(y) = 2 * (y * sw) - (ch * sw - Fit)
         /\ Outside(LocalX(x)) <=> Dist(2 * x, cw) * sh > ch * sw
         /\ Outside(LocalY(y)) <=> Dist(2 * y, ch) * sw > cw * sh
         /\ 0 \notin {cw, ch, sw, sh}
<1>1. /\ cw \in Nat /\ ch \in Nat /\ sw \in Nat /\ sh \in Nat /\ x \in Nat /\ y \in Nat
      /\ cw > 0 /\ ch > 0 /\ sw > 0 /\ sh > 0 /\ x <= cw /\ y <= ch
  BY DEF ViewTyped, Framed
<1>2. /\ cw * sh \in Nat /\ x * sh \in Nat /\ x * sh <= cw * sh /\ 2 * sh * x = 2 * (x * sh)
      /\ Dist(2 * x, cw) * sh = Dist(2 * (x * sh), cw * sh)
  BY <1>1, Scaled
<1>3. /\ ch * sw \in Nat /\ y * sw \in Nat /\ y * sw <= ch * sw /\ 2 * sw * y = 2 * (y * sw)
      /\ Dist(2 * y, ch) * sw = Dist(2 * (y * sw), ch * sw)
  BY <1>1, Scaled
<1>4. cw * sh > 0 /\ ch * sw > 0
  BY <1>1
<1>5. /\ Fit = Smaller(cw * sh, ch * sw) /\ Fit = Smaller(ch * sw, cw * sh)
      /\ Fit \in Nat /\ Fit > 0
  BY <1>2, <1>3, <1>4, SmallerSymmetric DEF Fit, Smaller
<1>6. LocalX(x) = 2 * (x * sh) - (cw * sh - Fit)
  BY <1>2 DEF LocalX
<1>7. LocalY(y) = 2 * (y * sw) - (ch * sw - Fit)
  BY <1>3 DEF LocalY
<1>8. Outside(LocalX(x)) <=> Dist(2 * (x * sh), cw * sh) > ch * sw
  BY <1>2, <1>3, <1>5, <1>6, OutsideIsBar DEF Outside
<1>9. Outside(LocalY(y)) <=> Dist(2 * (y * sw), ch * sw) > cw * sh
  BY <1>2, <1>3, <1>5, <1>7, OutsideIsBar DEF Outside
<1>. QED  BY <1>1, <1>2, <1>3, <1>5, <1>6, <1>7, <1>8, <1>9

\* With a frame and a click that is kept, the point is the two local
\* coordinates over twice the fitted extent.
LEMMA KeptClick ==
  ASSUME ViewInv, Framed, norm # NULL
  PROVE  norm = [u |-> LocalX(x), v |-> LocalY(y), den |-> 2 * Fit]
<1>1. norm = PointerToNormalized(x, y)
  BY DEF ViewInv, ViewMapped, Framed
<1>. QED  BY <1>1 DEF PointerToNormalized

\* Clicks in the bars, and no others, are refused.
LEMMA BarsAreRefused == ViewInv => BarsRefused
<1>1. SUFFICES ASSUME ViewInv, Framed
               PROVE  norm = NULL <=> \/ Dist(2 * x, cw) * sh > ch * sw
                                      \/ Dist(2 * y, ch) * sw > cw * sh
  BY DEF BarsRefused
<1>2. norm = PointerToNormalized(x, y)
  BY <1>1 DEF ViewInv, ViewMapped, Framed
<1>3. /\ Fit \in Nat /\ Fit > 0
      /\ Outside(LocalX(x)) <=> Dist(2 * x, cw) * sh > ch * sw
      /\ Outside(LocalY(y)) <=> Dist(2 * y, ch) * sw > cw * sh
      /\ 0 \notin {cw, ch, sw, sh}
  BY <1>1, FramedMapping DEF ViewInv
<1>4. [u |-> LocalX(x), v |-> LocalY(y), den |-> 2 * Fit] # NULL
  BY <1>3 DEF NULL
<1>. QED  BY <1>2, <1>3, <1>4 DEF PointerToNormalized

\* Both coordinates keep the proportion of the panel.
LEMMA ClicksAreUndistorted == ViewInv => Undistorted
<1>1. SUFFICES ASSUME ViewInv, Framed, norm # NULL
               PROVE  (2 * norm.u - norm.den) * sw * (2 * y - ch)
                        = (2 * norm.v - norm.den) * sh * (2 * x - cw)
  BY DEF Undistorted
<1>2. cw \in Int /\ ch \in Int /\ sw \in Int /\ sh \in Int /\ x \in Int /\ y \in Int
  BY <1>1 DEF ViewInv, ViewTyped
<1>3. norm.u = LocalX(x) /\ norm.v = LocalY(y) /\ norm.den = 2 * Fit
  BY <1>1, KeptClick
<1>4. /\ Fit \in Nat
      /\ LocalX(x) = 2 * (x * sh) - (cw * sh - Fit)
      /\ LocalY(y) = 2 * (y * sw) - (ch * sw - Fit)
  BY <1>1, FramedMapping DEF ViewInv
<1>5. PICK X \in Int : X = 2 * x - cw
  <2>1. 2 * x - cw \in Int
    BY <1>2
  <2>. QED  BY <2>1
<1>6. PICK Y \in Int : Y = 2 * y - ch
  <2>1. 2 * y - ch \in Int
    BY <1>2
  <2>. QED  BY <2>1
<1>7. 2 * norm.u - norm.den = 2 * (X * sh)
  <2>1. X * sh = 2 * (x * sh) - cw * sh
    BY <1>2, <1>5
  <2>. QED  BY <1>2, <1>3, <1>4, <2>1
<1>8. 2 * norm.v - norm.den = 2 * (Y * sw)
  <2>1. Y * sw = 2 * (y * sw) - ch * sw
    BY <1>2, <1>6
  <2>. QED  BY <1>2, <1>3, <1>4, <2>1
<1>9. (2 * (X * sh)) * sw * Y = (2 * (Y * sw)) * sh * X
  BY <1>2, <1>5, <1>6
<1>. QED  BY <1>5, <1>6, <1>7, <1>8, <1>9

\* The centre and the edges that touch the control's are hit exactly.
LEMMA EdgesAreExact == ViewInv => EdgesExact
<1>1. SUFFICES ASSUME ViewInv, Framed, norm # NULL
               PROVE  /\ 2 * x = cw => 2 * norm.u = norm.den
                      /\ 2 * y = ch => 2 * norm.v = norm.den
                      /\ cw * sh <= ch * sw => (x = cw => norm.u = norm.den)
                      /\ cw * sh >= ch * sw => (y = ch => norm.v = norm.den)
  BY DEF EdgesExact
<1>2. cw \in Nat /\ ch \in Nat /\ sw \in Nat /\ sh \in Nat /\ x \in Nat /\ y \in Nat
  BY <1>1 DEF ViewInv, ViewTyped
<1>3. norm.u = LocalX(x) /\ norm.v = LocalY(y) /\ norm.den = 2 * Fit
  BY <1>1, KeptClick
<1>4. /\ Fit \in Nat
      /\ LocalX(x) = 2 * (x * sh) - (cw * sh - Fit)
      /\ LocalY(y) = 2 * (y * sw) - (ch * sw - Fit)
  BY <1>1, FramedMapping DEF ViewInv
<1>5. /\ cw * sh \in Nat /\ ch * sw \in Nat /\ x * sh \in Nat /\ y * sw \in Nat
      /\ cw * sh <= ch * sw => Fit = cw * sh
      /\ cw * sh >= ch * sw => Fit = ch * sw
  BY <1>2 DEF Fit, Smaller
<1>6. ASSUME 2 * x = cw PROVE 2 * norm.u = norm.den
  <2>1. cw * sh = 2 * (x * sh)
    BY <1>2, <1>6
  <2>. QED  BY <1>3, <1>4, <1>5, <2>1
<1>7. ASSUME 2 * y = ch PROVE 2 * norm.v = norm.den
  <2>1. ch * sw = 2 * (y * sw)
    BY <1>2, <1>7
  <2>. QED  BY <1>3, <1>4, <1>5, <2>1
<1>8. ASSUME cw * sh <= ch * sw, x = cw PROVE norm.u = norm.den
  <2>1. x * sh = cw * sh
    BY <1>8
  <2>. QED  BY <1>3, <1>4, <1>5, <1>8, <2>1
<1>9. ASSUME cw * sh >= ch * sw, y = ch PROVE norm.v = norm.den
  <2>1. y * sw = ch * sw
    BY <1>9
  <2>. QED  BY <1>3, <1>4, <1>5, <1>9, <2>1
<1>. QED  BY <1>6, <1>7, <1>8, <1>9

\* Clicks and changes of size keep the last mapping current.
LEMMA ViewStep == ViewInv /\ ViewNext => ViewInv'
<1>1. SUFFICES ASSUME ViewInv, ViewNext PROVE ViewInv'
  OBVIOUS
<1>2. ASSUME NEW px \in 0..MaxSize, NEW py \in 0..MaxSize, OnVideoPointerPressed(px, py)
      PROVE  ViewInv'
  <2>1. /\ x' = px /\ y' = py /\ px <= cw /\ py <= ch
        /\ norm' = IF sw > 0 THEN PointerToNormalized(px, py) ELSE ControlRelative(px, py)
        /\ UNCHANGED <<cw, ch, sw, sh>>
    BY <1>2 DEF OnVideoPointerPressed
  <2>2. px \in Nat /\ py \in Nat
    BY SizeAssumption
  <2>3. ViewTyped'
    BY <1>1, <2>1, <2>2 DEF ViewInv, ViewTyped
  <2>4. ViewMapped'
    BY <2>1 DEF ViewMapped, PointerToNormalized, ControlRelative, LocalX, LocalY, Fit,
                Outside, NULL, NONE
  <2>. QED  BY <2>3, <2>4 DEF ViewInv
<1>3. ASSUME NEW w \in 0..MaxSize, NEW h \in 0..MaxSize, Layout(w, h) PROVE ViewInv'
  <2>1. w \in Nat /\ h \in Nat
    BY SizeAssumption
  <2>2. ViewTyped'
    BY <1>1, <1>3, <2>1 DEF ViewInv, ViewTyped, Layout, Forget
  <2>3. ViewMapped'
    BY <1>3 DEF ViewMapped, Layout, Forget
  <2>. QED  BY <2>2, <2>3 DEF ViewInv
<1>4. ASSUME NEW w \in 1..MaxSize, NEW h \in 1..MaxSize, FrameSize(w, h) PROVE ViewInv'
  <2>1. w \in Nat /\ h \in Nat /\ h > 0
    BY SizeAssumption
  <2>2. ViewTyped'
    BY <1>1, <1>4, <2>1 DEF ViewInv, ViewTyped, FrameSize, Forget
  <2>3. ViewMapped'
    BY <1>4 DEF ViewMapped, FrameSize, Forget
  <2>. QED  BY <2>2, <2>3 DEF ViewInv
<1>. QED  BY <1>1, <1>2, <1>3, <1>4 DEF ViewNext

\* In every session, for every size of the panel and of the frame and every
\* click: PointerToNormalized undoes the letterboxing exactly.
THEOREM ClicksAreMappedExactly == SessionSpec => []LetterboxExact
<1>1. SessionInit => ViewInv
  BY DEF SessionInit, ViewInit, ViewInv, ViewTyped, ViewMapped
<1>2. ViewInv /\ UNCHANGED viewVars => ViewInv'
  <2>1. SUFFICES ASSUME ViewInv, UNCHANGED <<cw, ch, sw, sh, x, y, norm>> PROVE ViewInv'
    BY DEF viewVars
  <2>2. ViewTyped'
    BY <2>1 DEF ViewInv, ViewTyped
  <2>3. ViewMapped'
    BY <2>1 DEF ViewInv, ViewMapped, PointerToNormalized, ControlRelative, LocalX, LocalY,
                Fit, Outside, NULL, NONE
  <2>. QED  BY <2>2, <2>3 DEF ViewInv
<1>3. ViewInv /\ [SessionNext]_sessionVars => ViewInv'
  <2>1. SessionNext \/ UNCHANGED sessionVars => ViewNext \/ UNCHANGED viewVars
    BY DEF SessionNext, Click, sessionVars
  <2>. QED  BY <1>2, <2>1, ViewStep
<1>4. ViewInv => LetterboxExact
  BY BarsAreRefused, ClicksAreUndistorted, EdgesAreExact DEF LetterboxExact
<1>. QED  BY <1>1, <1>3, <1>4, PTL DEF SessionSpec
=============================================================================
