-------------------------- MODULE MCRedisSignaling --------------------------
(***************************************************************************)
(* Instances of RedisSignaling: an agent that reconnects from one backend  *)
(* instance to the other, and a phone.                                     *)
(***************************************************************************)
EXTENDS RedisSignaling, TLC

CONSTANTS i1, i2, a1, a2, p1

TwoInst == {i1, i2}
Reconnecting == {a1, a2, p1}
ReconnectingInst == (a1 :> i1) @@ (a2 :> i2) @@ (p1 :> i2)
ReconnectingRole == (a1 :> "agent") @@ (a2 :> "agent") @@ (p1 :> "phone")

\* No fault; faults that leave counts too high; a lossy Redis; a slow Redis; a
\* long session.
Profiles == {{}, {"leave", "crash"}, {"join", "loss"}, {"overdue"}, {"outlive"}}

\* To keep the state space small: clients send only where frames may be lost or
\* late, and there time stands still; only two connections come there and in
\* long sessions; frames do not pile up where instances crash; where Redis is
\* slow, it is slow for the phone, which alone sends, to the first agent.
Focus ==
  /\ IF faults \cap {"loss", "overdue"} # {} THEN now = 0 ELSE \A c \in Conn : sent[c] = 0
  /\ faults \cap {"loss", "overdue", "outlive"} = {}
     \/ Cardinality({c \in Conn : pc[c] # "new"}) <= 2
  /\ "crash" \notin faults \/ \A i \in Inst : Len(inbox[i]) <= 1
  /\ "overdue" \in faults =>
       /\ pc[a2] = "new" /\ sent[a1] = 0 /\ \A a \in overdue : a.frame.src = p1
       /\ Len(inbox[i2]) <= 1
=============================================================================
