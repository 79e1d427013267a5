------------------------ MODULE SessionTokensProofs ------------------------
(***************************************************************************)
(* Proofs about SessionTokens, for any number of requests, connect ids,    *)
(* tries, and any times that satisfy SlackAssumption.                      *)
(***************************************************************************)
EXTENDS SessionTokensHistory, FiniteSetTheorems, TLAPS

Usable == {"pending", "active", "ended"}

\* The Mint that made row s no longer works on it.
Settled(s) ==
  /\ s \in Session
  /\ s[2] <= try[s[1]]
  /\ s[2] = try[s[1]] => mpc[s[1]] \in {"ok", "error"}

\* A Mint that holds a row finds it pending, within its latency; only behind a
\* SetNX that was sent again may somebody have redeemed it already.
MintInv ==
  \A m \in Minter : MintInFlight(m) =>
    /\ status[Row(m)] = "pending" \/ Row(m) \in resent
    /\ now <= created[Row(m)] + MintLatency

\* A token outlives its row's creation by at most MintLatency + TTL, and its
\* row is usable while it lives.
TokenInv ==
  \A c \in ConnectID : token[c].exp > 0 /\ token[c].session \notin resent =>
    LET s == token[c].session IN
    /\ Settled(s)
    /\ token[c].exp <= created[s] + MintLatency + TTL
    /\ Live(c) => status[s] \in Usable

\* A Redeem in flight read a live token less than RedeemLatency ago.
RedeemInv ==
  \A k \in Redeemer :
    /\ RedeemInFlight(k) => now <= begun[k] + RedeemLatency
    /\ RedeemInFlight(k) /\ rec[k] \notin resent =>
         /\ Settled(rec[k])
         /\ begun[k] < created[rec[k]] + MintLatency + TTL
         /\ status[rec[k]] \in Usable
    /\ rpc[k] = "ok" /\ rec[k] \notin resent =>
         Settled(rec[k]) /\ status[rec[k]] \in {"active", "ended"}

IInv == TypeOK /\ MintInv /\ TokenInv /\ RedeemInv

-----------------------------------------------------------------------------
(* Types. *)

LEMMA RowType == ASSUME TypeOK, NEW m \in Minter PROVE Row(m) \in Session
BY DEF TypeOK, Row, Session

LEMMA TypeInit == Init => TypeOK
BY TriesAssumption DEF Init, TypeOK, Absent, NoAttempts, Status

LEMMA AddRowType ==
  ASSUME TypeOK, NEW m \in Minter, AddRow(m)
  PROVE  status' \in [Session -> Status] /\ created' \in [Session -> Nat]
BY RowType DEF AddRow, TypeOK, Status

LEMMA StoreTokenType ==
  ASSUME TypeOK, NEW m \in Minter, StoreToken(m)
  PROVE  /\ token' \in [ConnectID -> [session : Session \cup {NoSession}, exp : Nat]]
         /\ uses' \in [ConnectID -> Nat]
<1>1. [session |-> Row(m), exp |-> now + TTL] \in [session : Session \cup {NoSession}, exp : Nat]
  BY RowType, TimeAssumption DEF TypeOK
<1> QED
  BY <1>1 DEF StoreToken, TypeOK

LEMMA IncrementType ==
  ASSUME TypeOK, NEW c \in ConnectID, Increment(c)
  PROVE  attempts' \in [ConnectID -> [n : Nat, ttl : BOOLEAN, exp : Nat]]
<1>1. attempts[c] \in [n : Nat, ttl : BOOLEAN, exp : Nat]
  BY DEF TypeOK
<1>2. /\ [n |-> 1, ttl |-> FALSE, exp |-> 0] \in [n : Nat, ttl : BOOLEAN, exp : Nat]
      /\ [attempts[c] EXCEPT !.n = @ + 1] \in [n : Nat, ttl : BOOLEAN, exp : Nat]
  BY <1>1
<1>3. CASE Attempts(c) = 0
  <2>1. attempts' = [attempts EXCEPT ![c] = [n |-> 1, ttl |-> FALSE, exp |-> 0]]
    BY <1>3 DEF Increment
  <2> QED
    BY <1>2, <2>1 DEF TypeOK
<1>4. CASE Attempts(c) # 0
  <2>1. attempts' = [attempts EXCEPT ![c] = [attempts[c] EXCEPT !.n = @ + 1]]
    BY <1>4 DEF Increment
  <2> QED
    BY <1>2, <2>1 DEF TypeOK
<1> QED
  BY <1>3, <1>4

LEMMA InvalidateType ==
  ASSUME TypeOK, NEW c \in ConnectID, Invalidate(c)
  PROVE  /\ token' \in [ConnectID -> [session : Session \cup {NoSession}, exp : Nat]]
         /\ attempts' \in [ConnectID -> [n : Nat, ttl : BOOLEAN, exp : Nat]]
BY DEF Invalidate, Absent, NoAttempts, TypeOK

LEMMA CompareType ==
  ASSUME TypeOK, NEW k \in Redeemer, Compare(k)
  PROVE  /\ compared' \in [Session -> Nat]
         /\ rpc' \in [Redeemer -> {"idle", "incr", "expire", "burn", "consume", "activate",
                                   "ok", "invalid", "toomany", "error"}]
<1>1. compared' \in [Session -> Nat]
  <2>1. CASE rec[k] \in Session
    BY <2>1 DEF Compare, TypeOK
  <2>2. CASE rec[k] \notin Session
    BY <2>2 DEF Compare, TypeOK
  <2> QED
    BY <2>1, <2>2
<1>2. rpc'[k] \in {"consume", "invalid"}
  BY DEF Compare, TypeOK
<1> QED
  BY <1>1, <1>2 DEF Compare, TypeOK

LEMMA ActivateRowType ==
  ASSUME TypeOK, NEW k \in Redeemer, ActivateRow(k)
  PROVE  status' \in [Session -> Status]
BY DEF ActivateRow, TypeOK, Status

LEMMA MintTypeStep == ASSUME TypeOK, NEW m \in Minter, MintStep(m) PROVE TypeOK'
<1>1. CASE InsertRow(m)
  BY <1>1, AddRowType DEF InsertRow, TypeOK, redisVars, redeemVars
<1>2. CASE SetNX(m)
  BY <1>2, StoreTokenType DEF SetNX, TypeOK, dbVars, redeemVars
<1>3. CASE DeleteRow(m)
  <2>1. status' \in [Session -> Status]
    <3>1. CASE status' = [status EXCEPT ![Row(m)] = "deleted"]
      BY <3>1 DEF TypeOK, Status
    <3>2. CASE UNCHANGED status
      BY <3>2 DEF TypeOK
    <3> QED
      BY <1>3, <3>1, <3>2 DEF DeleteRow
  <2>2. try' \in [Minter -> 1..MintTries]
    <3>1. CASE MoreTries(m) /\ try' = [try EXCEPT ![m] = @ + 1]
      BY <3>1, TriesAssumption DEF MoreTries, TypeOK
    <3>2. CASE UNCHANGED try
      BY <3>2 DEF TypeOK
    <3> QED
      BY <1>3, <3>1, <3>2 DEF DeleteRow
  <2>3. /\ mpc' \in [Minter -> {"insert", "setnx", "rollback", "ok", "error"}]
        /\ mid' \in [Minter -> ConnectID]
    <3>1. CASE mpc' = [mpc EXCEPT ![m] = "insert"] /\ \E c \in ConnectID : mid' = [mid EXCEPT ![m] = c]
      BY <3>1 DEF TypeOK
    <3>2. CASE mpc' = [mpc EXCEPT ![m] = "error"] /\ UNCHANGED mid
      BY <3>2 DEF TypeOK
    <3> QED
      BY <1>3, <3>1, <3>2 DEF DeleteRow
  <2> QED
    BY <1>3, <2>1, <2>2, <2>3 DEF DeleteRow, TypeOK, redisVars, redeemVars
<1>4. CASE MintFails(m)
  <2>1. status' \in [Session -> Status] /\ created' \in [Session -> Nat]
    BY <1>4, AddRowType DEF MintFails, TypeOK, dbVars
  <2>2. /\ token' \in [ConnectID -> [session : Session \cup {NoSession}, exp : Nat]]
        /\ uses' \in [ConnectID -> Nat]
    BY <1>4, StoreTokenType DEF MintFails, TypeOK
  <2> QED
    BY <1>4, <2>1, <2>2 DEF MintFails, TypeOK, redeemVars
<1>5. CASE MintResend(m)
  <2>1. resent' \subseteq Session
    BY <1>5, RowType DEF MintResend, TypeOK
  <2> QED
    BY <1>5, <2>1, StoreTokenType DEF MintResend, TypeOK, dbVars, redeemVars
<1> QED
  BY <1>1, <1>2, <1>3, <1>4, <1>5 DEF MintStep

LEMMA RedeemTypeStep == ASSUME TypeOK, NEW k \in Redeemer, RedeemStep(k) PROVE TypeOK'
<1>1. CASE Get(k)
  <2>1. token[rid[k]].session \in Session \cup {NoSession}
    BY DEF TypeOK
  <2>2. rec' \in [Redeemer -> Session \cup {NoSession}] /\ begun' \in [Redeemer -> Nat]
    <3>1. \/ UNCHANGED <<rec, begun>>
          \/ /\ rec' = [rec EXCEPT ![k] = token[rid[k]].session]
             /\ begun' = [begun EXCEPT ![k] = now]
      BY <1>1 DEF Get
    <3>2. /\ now \in Nat /\ rec \in [Redeemer -> Session \cup {NoSession}]
          /\ begun \in [Redeemer -> Nat]
      BY DEF TypeOK
    <3> QED
      BY <2>1, <3>1, <3>2
  <2>3. rpc' \in [Redeemer -> {"idle", "incr", "expire", "burn", "consume", "activate",
                               "ok", "invalid", "toomany", "error"}]
    BY <1>1 DEF Get, TypeOK
  <2> QED
    BY <1>1, <2>2, <2>3 DEF Get, TypeOK, dbVars, redisVars, mintVars
<1>2. CASE Incr(k)
  <2>1. rid[k] \in ConnectID
    BY DEF TypeOK
  <2>2. attempts' \in [ConnectID -> [n : Nat, ttl : BOOLEAN, exp : Nat]]
    BY <1>2, <2>1, IncrementType DEF Incr
  <2>3. /\ compared' \in [Session -> Nat]
        /\ rpc' \in [Redeemer -> {"idle", "incr", "expire", "burn", "consume", "activate",
                                  "ok", "invalid", "toomany", "error"}]
    BY <1>2, CompareType DEF Incr, TypeOK
  <2> QED
    BY <1>2, <2>2, <2>3 DEF Incr, TypeOK, dbVars, mintVars
<1>3. CASE Expire(k)
  <2>1. attempts' \in [ConnectID -> [n : Nat, ttl : BOOLEAN, exp : Nat]]
    <3>1. /\ rid[k] \in ConnectID /\ now + TTL \in Nat
          /\ attempts[rid[k]] \in [n : Nat, ttl : BOOLEAN, exp : Nat]
      BY TimeAssumption DEF TypeOK
    <3>2. [attempts[rid[k]] EXCEPT !.ttl = TRUE, !.exp = now + TTL]
            \in [n : Nat, ttl : BOOLEAN, exp : Nat]
      BY <3>1
    <3>3. \/ UNCHANGED attempts
          \/ \E v \in [n : Nat, ttl : BOOLEAN, exp : Nat] :
               attempts' = [attempts EXCEPT ![rid[k]] = v]
      BY <1>3, <3>2 DEF Expire
    <3> QED
      BY <3>3 DEF TypeOK
  <2>2. Compare(k)
    BY <1>3 DEF Expire
  <2> QED
    BY <1>3, <2>1, <2>2, CompareType DEF Expire, TypeOK, dbVars, mintVars
<1>4. CASE Burn(k) \/ Consume(k)
  <2>1. rid[k] \in ConnectID
    BY DEF TypeOK
  <2>2. /\ token' \in [ConnectID -> [session : Session \cup {NoSession}, exp : Nat]]
        /\ attempts' \in [ConnectID -> [n : Nat, ttl : BOOLEAN, exp : Nat]]
    BY <1>4, <2>1, InvalidateType DEF Burn, Consume, redisVars, TypeOK
  <2> QED
    BY <1>4, <2>2 DEF Burn, Consume, TypeOK, dbVars, mintVars
<1>5. CASE Activate(k)
  BY <1>5, ActivateRowType DEF Activate, TypeOK, redisVars, mintVars
<1>6. CASE RedeemFails(k)
  <2>1. rid[k] \in ConnectID
    BY DEF TypeOK
  <2>2. /\ token' \in [ConnectID -> [session : Session \cup {NoSession}, exp : Nat]]
        /\ attempts' \in [ConnectID -> [n : Nat, ttl : BOOLEAN, exp : Nat]]
    BY <1>6, <2>1, InvalidateType, IncrementType DEF RedeemFails, redisVars, TypeOK
  <2>3. status' \in [Session -> Status]
    BY <1>6, ActivateRowType DEF RedeemFails, TypeOK
  <2> QED
    BY <1>6, <2>2, <2>3 DEF RedeemFails, TypeOK, mintVars
<1>7. CASE RedeemResend(k)
  <2>1. rid[k] \in ConnectID
    BY DEF TypeOK
  <2>2. /\ token' \in [ConnectID -> [session : Session \cup {NoSession}, exp : Nat]]
        /\ attempts' \in [ConnectID -> [n : Nat, ttl : BOOLEAN, exp : Nat]]
    BY <1>7, <2>1, InvalidateType, IncrementType DEF RedeemResend, TypeOK
  <2> QED
    BY <1>7, <2>2 DEF RedeemResend, TypeOK, dbVars, mintVars, redeemVars
<1> QED
  BY <1>1, <1>2, <1>3, <1>4, <1>5, <1>6, <1>7 DEF RedeemStep

LEMMA TypeStep == ASSUME TypeOK, [Next]_vars PROVE TypeOK'
<1>1. CASE \E s \in Session : MarkEnded(s)
  BY <1>1 DEF MarkEnded, TypeOK, Status, redisVars, mintVars, redeemVars
<1>2. CASE ExpireStalePending
  BY <1>2 DEF ExpireStalePending, TypeOK, Status, redisVars, mintVars, redeemVars
<1>3. CASE Tick
  BY <1>3 DEF Tick, TypeOK, dbVars, redisVars, mintVars, redeemVars
<1>4. CASE UNCHANGED vars
  BY <1>4 DEF vars, TypeOK, dbVars, redisVars, mintVars, redeemVars
<1> QED
  BY <1>1, <1>2, <1>3, <1>4, MintTypeStep, RedeemTypeStep DEF Next

\* Type correctness of the token store, the rows and the requests.
THEOREM TokensTypeCorrect == Spec => []TypeOK
BY TypeInit, TypeStep, PTL DEF Spec

-----------------------------------------------------------------------------
(* The sweep never expires a row under a live token or a redeem in flight. *)

LEMMA InvInit == Init => IInv
BY TypeInit DEF Init, IInv, MintInv, MintInFlight, TokenInv, RedeemInv, RedeemInFlight, Absent

\* What a step may change of a row that no Mint works on any more.
Kept(s) == /\ status[s] \in Usable => status'[s] \in Usable
           /\ status[s] \in {"active", "ended"} => status'[s] \in {"active", "ended"}
           /\ created'[s] = created[s]

\* Once settled, a row stays settled.
LEMMA SettledStable ==
  ASSUME TypeOK, NEW s, Settled(s), NEW m \in Minter, MintStep(m)
  PROVE  Settled(s)' /\ s # Row(m)
<1>1. s \in Session /\ s[1] \in Minter /\ s[2] \in 1..MintTries /\ s = <<s[1], s[2]>>
  BY DEF Settled, Session
<1>2. mpc[m] \in {"insert", "setnx", "rollback"}
  BY DEF MintStep, InsertRow, SetNX, DeleteRow, MintFails, MintResend
<1>3. s # Row(m)
  BY <1>1, <1>2 DEF Settled, Row
<1>4. /\ \A x \in Minter \ {m} : try'[x] = try[x] /\ mpc'[x] = mpc[x]
      /\ try'[m] = try[m] \/ try'[m] = try[m] + 1
  BY DEF MintStep, InsertRow, SetNX, DeleteRow, MintFails, MintResend, TypeOK
<1>5. CASE s[1] # m
  BY <1>1, <1>3, <1>4, <1>5 DEF Settled
<1>6. CASE s[1] = m
  <2>1. s[2] <= try[m] /\ s[2] # try[m]
    BY <1>2, <1>6 DEF Settled
  <2>2. try[m] \in Nat /\ s[2] \in Nat
    BY <1>1, TriesAssumption DEF TypeOK
  <2>3. s[2] < try[m]
    BY <2>1, <2>2
  <2> QED
    BY <1>1, <1>3, <1>4, <1>6, <2>2, <2>3 DEF Settled
<1> QED
  BY <1>5, <1>6

\* A Mint's step keeps every settled row.
LEMMA MintKeeps ==
  ASSUME TypeOK, NEW s, Settled(s), NEW m \in Minter, MintStep(m)
  PROVE  Kept(s)
<1>1. s # Row(m) /\ s \in Session
  BY SettledStable DEF Settled
<1>2. status'[s] = status[s] /\ created'[s] = created[s]
  BY <1>1 DEF MintStep, InsertRow, SetNX, DeleteRow, MintFails, MintResend, AddRow, dbVars, TypeOK
<1> QED
  BY <1>2 DEF Kept

\* A Mint's step leaves the rows other Mints hold, and its own new one, as
\* MintInv says.
LEMMA MintInvStep ==
  ASSUME IInv, NEW m \in Minter, MintStep(m) PROVE MintInv'
<1> SUFFICES ASSUME NEW x \in Minter, MintInFlight(x)'
             PROVE  /\ status'[Row(x)'] = "pending" \/ Row(x)' \in resent'
                    /\ now' <= created'[Row(x)'] + MintLatency
  BY DEF MintInv
<1> USE DEF IInv
<1>0. now' = now /\ resent \subseteq resent'
  BY DEF MintStep, InsertRow, SetNX, DeleteRow, MintFails, MintResend
<1>1. CASE x # m
  <2>1. try'[x] = try[x] /\ mpc'[x] = mpc[x]
    BY <1>1 DEF MintStep, InsertRow, SetNX, DeleteRow, MintFails, MintResend, TypeOK
  <2>2. Row(x)' = Row(x) /\ Row(x) # Row(m) /\ Row(x) \in Session
    BY <1>1, <2>1, RowType DEF Row
  <2>3. status'[Row(x)] = status[Row(x)] /\ created'[Row(x)] = created[Row(x)]
    BY <2>2 DEF MintStep, InsertRow, SetNX, DeleteRow, MintFails, MintResend, AddRow, dbVars, TypeOK
  <2> QED
    BY <1>0, <2>1, <2>2, <2>3 DEF MintInv, MintInFlight
<1>2. CASE x = m
  <2>1. CASE InsertRow(m)
    <3>1. Row(m)' = Row(m) /\ Row(m) \in Session
      BY <2>1, RowType DEF InsertRow, Row
    <3>2. status'[Row(m)] = "pending" /\ created'[Row(m)] = now
      BY <2>1, <3>1 DEF InsertRow, AddRow, TypeOK
    <3> QED
      BY <1>0, <1>2, <3>1, <3>2, TimeAssumption DEF TypeOK
  <2>2. CASE SetNX(m)
    <3>1. mpc[m] = "setnx" /\ Row(m)' = Row(m) /\ UNCHANGED dbVars
      BY <2>2 DEF SetNX, Row
    <3> QED
      BY <1>0, <1>2, <3>1 DEF MintInv, MintInFlight, dbVars
  <2>3. ~DeleteRow(m) /\ ~MintFails(m)
    BY <1>2 DEF DeleteRow, MintFails, MintInFlight, TypeOK
  <2>4. CASE MintResend(m)
    <3>1. mpc[m] = "setnx" /\ Row(m)' = Row(m) /\ Row(m) \in resent' /\ UNCHANGED dbVars
      BY <2>4 DEF MintResend, Row
    <3> QED
      BY <1>0, <1>2, <3>1 DEF MintInv, MintInFlight, dbVars
  <2> QED
    BY <2>1, <2>2, <2>3, <2>4 DEF MintStep
<1> QED
  BY <1>1, <1>2

LEMMA MintTokenStep ==
  ASSUME IInv, NEW m \in Minter, MintStep(m) PROVE TokenInv'
<1> USE DEF IInv
<1> SUFFICES ASSUME NEW c \in ConnectID, token'[c].exp > 0, NEW s, s = token'[c].session,
                    s \notin resent'
             PROVE  /\ Settled(s)'
                    /\ token'[c].exp <= created'[s] + MintLatency + TTL
                    /\ Live(c)' => status'[s] \in Usable
  BY DEF TokenInv, Settled
<1>0. now' = now /\ resent \subseteq resent'
  BY DEF MintStep, InsertRow, SetNX, DeleteRow, MintFails, MintResend
<1>1. CASE token'[c] = token[c]
  <2>2. /\ Settled(s) /\ token[c].exp <= created[s] + MintLatency + TTL
        /\ Live(c) => status[s] \in Usable
    BY <1>0, <1>1 DEF TokenInv
  <2>3. Settled(s)' /\ Kept(s)
    BY <2>2, SettledStable, MintKeeps
  <2> QED
    BY <1>0, <1>1, <2>2, <2>3 DEF Kept, Live
<1>2. CASE token'[c] # token[c]
  <2>1. /\ mpc[m] = "setnx" /\ c = mid[m] /\ StoreToken(m) /\ UNCHANGED dbVars
        /\ try' = try /\ mpc'[m] \in {"ok", "error"}
    <3>1. CASE SetNX(m)
      BY <1>2, <3>1 DEF SetNX, StoreToken, TypeOK
    <3>2. CASE MintFails(m)
      BY <1>2, <3>2 DEF MintFails, StoreToken, TypeOK
    <3>3. ~MintResend(m)
      BY <1>2 DEF MintResend, StoreToken, TypeOK
    <3> QED
      BY <1>2, <3>1, <3>2, <3>3 DEF MintStep, InsertRow, DeleteRow, redisVars
  <2>2. token'[c].session = Row(m) /\ token'[c].exp = now + TTL
    BY <2>1 DEF StoreToken, TypeOK
  <2>3. status[Row(m)] = "pending" /\ now <= created[Row(m)] + MintLatency
    BY <1>0, <2>1, <2>2 DEF MintInv, MintInFlight
  <2>4. Row(m) \in Session /\ Row(m)[1] = m /\ Row(m)[2] = try[m] /\ try[m] \in Nat
    BY RowType DEF Row, TypeOK
  <2>6. s = Row(m)
    BY <2>2
  <2>7. Settled(s)'
    BY <2>1, <2>4, <2>6 DEF Settled
  <2>8. created[s] \in Nat
    BY <2>4, <2>6 DEF TypeOK
  <2> QED
    BY <2>1, <2>2, <2>3, <2>6, <2>7, <2>8, TimeAssumption DEF dbVars, Usable, TypeOK
<1> QED
  BY <1>1, <1>2

LEMMA MintRedeemStep ==
  ASSUME IInv, NEW m \in Minter, MintStep(m) PROVE RedeemInv'
<1> USE DEF IInv
<1>1. now' = now /\ UNCHANGED redeemVars /\ resent \subseteq resent'
  BY DEF MintStep, InsertRow, SetNX, DeleteRow, MintFails, MintResend
<1>2. ASSUME NEW k \in Redeemer, Settled(rec[k]) PROVE Settled(rec[k])' /\ Kept(rec[k])
  <2>1. PICK s : s = rec[k]
    OBVIOUS
  <2>2. Settled(s)' /\ Kept(s)
    BY <1>2, <2>1, SettledStable, MintKeeps
  <2>3. rec'[k] = s
    BY <1>1, <2>1 DEF redeemVars
  <2> QED
    BY <2>1, <2>2, <2>3 DEF Settled
<1> QED
  BY <1>1, <1>2 DEF RedeemInv, RedeemInFlight, redeemVars, Kept

\* Rows change under a Redeem, a MarkEnded or a sweep only as Kept allows.
LEMMA RowsKept ==
  ASSUME TypeOK, created' = created, mpc' = mpc, try' = try,
         \A s \in Session : Settled(s) => (status[s] \in Usable => status'[s] \in Usable)
                            /\ (status[s] \in {"active", "ended"} => status'[s] \in {"active", "ended"})
  PROVE  \A s : Settled(s) => Settled(s)' /\ Kept(s)
BY DEF Settled, Kept

\* A Redeem activates its own, settled, pending row or changes no row.
LEMMA RedeemRows ==
  ASSUME IInv, NEW k \in Redeemer, RedeemStep(k)
  PROVE  /\ now' = now /\ created' = created /\ mpc' = mpc /\ try' = try
         /\ resent' = resent
         /\ \/ status' = status
            \/ /\ RedeemInFlight(k) /\ status[rec[k]] = "pending"
               /\ status' = [status EXCEPT ![rec[k]] = "active"]
<1> USE DEF IInv
<1>1. ASSUME rpc[k] = "activate", ActivateRow(k)
      PROVE \/ status' = status
            \/ /\ RedeemInFlight(k) /\ status[rec[k]] = "pending"
               /\ status' = [status EXCEPT ![rec[k]] = "active"]
  BY <1>1 DEF ActivateRow, MayActivate, RedeemInFlight, TypeOK
<1> QED
  BY <1>1 DEF RedeemStep, Get, Incr, Expire, Burn, Consume, Activate, RedeemFails, RedeemResend, dbVars, mintVars

\* A Redeem leaves the rows in the hands of a Mint alone.
LEMMA RedeemMintStep ==
  ASSUME IInv, NEW k \in Redeemer, RedeemStep(k) PROVE MintInv'
<1> SUFFICES ASSUME NEW m \in Minter, MintInFlight(m)
             PROVE  /\ status'[Row(m)] = "pending" \/ Row(m) \in resent
                    /\ now' <= created'[Row(m)] + MintLatency
  BY RedeemRows DEF MintInv, MintInFlight, Row
<1>1. /\ status[Row(m)] = "pending" \/ Row(m) \in resent
      /\ now <= created[Row(m)] + MintLatency
  BY DEF IInv, MintInv
<1>2. RedeemInFlight(k) => Row(m) # rec[k] \/ Row(m) \in resent
  BY DEF IInv, RedeemInv, Settled, Row, MintInFlight
<1>3. CASE status' = status
  BY <1>1, <1>3, RedeemRows
<1>4. CASE RedeemInFlight(k) /\ status' = [status EXCEPT ![rec[k]] = "active"]
  <2>1. status'[Row(m)] = status[Row(m)] \/ Row(m) \in resent
    BY <1>2, <1>4, RowType DEF IInv, TypeOK
  <2> QED
    BY <1>1, <2>1, RedeemRows
<1> QED
  BY <1>3, <1>4, RedeemRows

LEMMA RedeemKeeps ==
  ASSUME IInv, NEW k \in Redeemer, RedeemStep(k)
  PROVE  \A s : Settled(s) => Settled(s)' /\ Kept(s)
<1>1. \A s \in Session : (status[s] \in Usable => status'[s] \in Usable)
                         /\ (status[s] \in {"active", "ended"} => status'[s] \in {"active", "ended"})
  BY RedeemRows DEF IInv, TypeOK, Usable
<1> QED
  BY <1>1, RedeemRows, RowsKept DEF IInv

LEMMA RedeemTokenStep ==
  ASSUME IInv, NEW k \in Redeemer, RedeemStep(k) PROVE TokenInv'
<1> SUFFICES ASSUME NEW c \in ConnectID, token'[c].exp > 0, NEW s, s = token'[c].session,
                    s \notin resent'
             PROVE  /\ Settled(s)'
                    /\ token'[c].exp <= created'[s] + MintLatency + TTL
                    /\ Live(c)' => status'[s] \in Usable
  BY DEF TokenInv, Settled
<1>1. token'[c] = token[c] \/ token'[c] = Absent
  BY DEF RedeemStep, Get, Incr, Expire, Burn, Consume, Activate, RedeemFails, RedeemResend, Invalidate, redisVars,
         IInv, TypeOK
<1>2. token'[c] = token[c]
  BY <1>1 DEF Absent
<1>3. /\ Settled(s) /\ token[c].exp <= created[s] + MintLatency + TTL
      /\ Live(c) => status[s] \in Usable
  BY <1>2, RedeemRows DEF IInv, TokenInv
<1>4. Settled(s)' /\ Kept(s) /\ now' = now
  BY <1>3, RedeemKeeps, RedeemRows
<1> QED
  BY <1>2, <1>3, <1>4 DEF Kept, Live

\* What a Redeem knows when it starts, and keeps while it runs.
LEMMA RedeemOwnStep ==
  ASSUME IInv, NEW k \in Redeemer, RedeemStep(k) PROVE RedeemInv'
<1> USE DEF IInv
<1> SUFFICES ASSUME NEW x \in Redeemer
             PROVE  /\ RedeemInFlight(x)' => now' <= begun'[x] + RedeemLatency
                    /\ RedeemInFlight(x)' /\ rec'[x] \notin resent' =>
                         /\ Settled(rec[x])'
                         /\ begun'[x] < created'[rec'[x]] + MintLatency + TTL
                         /\ status'[rec'[x]] \in Usable
                    /\ rpc'[x] = "ok" /\ rec'[x] \notin resent' =>
                         Settled(rec[x])' /\ status'[rec'[x]] \in {"active", "ended"}
  BY DEF RedeemInv
<1>1. PICK s : s = rec'[x]
  OBVIOUS
<1>2. Settled(rec[x])' <=> Settled(s)'
  BY <1>1 DEF Settled
<1>3. CASE rec'[x] = rec[x] /\ begun'[x] = begun[x] /\ rpc'[x] = rpc[x]
  <2>1. Settled(s) => Settled(s)' /\ Kept(s)
    BY RedeemKeeps
  <2> QED
    BY <1>1, <1>2, <1>3, <2>1, RedeemRows DEF RedeemInv, RedeemInFlight, Kept
<1>4. CASE x # k
  BY <1>3, <1>4 DEF RedeemStep, Get, Incr, Expire, Burn, Consume, Activate, RedeemFails, RedeemResend,
     redeemVars, Compare, TypeOK
<1>5. CASE x = k /\ Get(k)
  <2>1. CASE Live(rid[k])
    <3>1. s = token[rid[k]].session /\ begun'[k] = now /\ rpc'[k] = "incr" /\ rid[k] \in ConnectID
      BY <1>1, <1>5, <2>1 DEF Get, TypeOK
    <3>2. token[rid[k]].exp > 0 /\ now < token[rid[k]].exp
      BY <2>1, <3>1 DEF Live, TypeOK
    <3>3. now' = now /\ now \in Nat /\ now <= now + RedeemLatency /\ resent' = resent
      BY RedeemRows, TimeAssumption DEF TypeOK
    <3>4. ASSUME s \notin resent
          PROVE  /\ Settled(s) /\ status[s] \in Usable /\ Settled(s)' /\ Kept(s)
                 /\ now < created[s] + MintLatency + TTL
      <4>1. /\ Settled(s) /\ status[s] \in Usable
            /\ token[rid[k]].exp <= created[s] + MintLatency + TTL
        BY <2>1, <3>1, <3>2, <3>4 DEF TokenInv
      <4>2. Settled(s)' /\ Kept(s)
        BY <4>1, RedeemKeeps
      <4>3. created[s] \in Nat /\ token[rid[k]].exp \in Nat
        BY <3>1, <4>1 DEF Settled, TypeOK
      <4> QED
        BY <3>2, <3>3, <4>1, <4>2, <4>3, TimeAssumption
    <3> QED
      BY <1>1, <1>2, <1>5, <3>1, <3>3, <3>4 DEF Kept
  <2>2. CASE ~Live(rid[k])
    BY <1>5, <2>2 DEF Get, RedeemInFlight, TypeOK
  <2> QED
    BY <2>1, <2>2
<1>6. CASE x = k /\ ~Get(k)
  <2>1. rec'[k] = rec[k] /\ begun'[k] = begun[k] /\ RedeemInFlight(k)
    BY <1>6 DEF RedeemStep, Incr, Expire, Burn, Consume, Activate, RedeemFails, RedeemResend,
       redeemVars, RedeemInFlight
  <2>2. now <= begun[k] + RedeemLatency /\ now' = now /\ resent' = resent
    BY <1>6, <2>1, RedeemRows DEF RedeemInv
  <2>3. ASSUME s \notin resent
        PROVE  /\ Settled(s) /\ begun[k] < created[s] + MintLatency + TTL /\ status[s] \in Usable
               /\ Settled(s)' /\ Kept(s)
    <3>1. Settled(s) /\ begun[k] < created[s] + MintLatency + TTL /\ status[s] \in Usable
      BY <1>1, <1>6, <2>1, <2>3 DEF RedeemInv
    <3> QED
      BY <3>1, RedeemKeeps
  <2>4. rpc'[k] = "ok" => Activate(k)
    BY <1>6, <2>1 DEF RedeemStep, Incr, Expire, Burn, Consume, RedeemFails, RedeemResend, Compare,
       redeemVars, RedeemInFlight, TypeOK
  <2>5. Activate(k) /\ s \notin resent => status'[s] \in {"active", "ended"}
    BY <1>1, <1>6, <2>1, <2>3 DEF Activate, ActivateRow, MayActivate, Settled, Usable, TypeOK
  <2> QED
    BY <1>1, <1>2, <1>6, <2>1, <2>2, <2>3, <2>4, <2>5 DEF Kept
<1> QED
  BY <1>4, <1>5, <1>6

\* Rows, requests and tokens after a step of none of the requests.
LEMMA OtherStep ==
  ASSUME IInv, UNCHANGED <<created, redisVars, mintVars, redeemVars>>, now' \in Nat,
         \A s \in Session : Settled(s) =>
           /\ status[s] \in {"active", "ended"} => status'[s] \in {"active", "ended"}
           /\ (\/ now' < created[s] + MintLatency + TTL
               \/ now' < created[s] + MintLatency + TTL + RedeemLatency)
              => (status[s] \in Usable => status'[s] \in Usable),
         \A m \in Minter : MintInFlight(m) =>
           /\ status'[Row(m)] = "pending" \/ Row(m) \in resent
           /\ now' <= created[Row(m)] + MintLatency,
         \A k \in Redeemer : RedeemInFlight(k) => now' <= begun[k] + RedeemLatency,
         now <= now'
  PROVE  MintInv' /\ TokenInv' /\ RedeemInv'
<1> USE DEF IInv
<1>1. MintInv'
  BY DEF MintInv, MintInFlight, Row, mintVars
<1>2. ASSUME NEW s, Settled(s) PROVE Settled(s)'
  BY <1>2 DEF Settled, mintVars
<1>3. TokenInv'
  <2> SUFFICES ASSUME NEW c \in ConnectID, token'[c].exp > 0, NEW s, s = token'[c].session,
                      s \notin resent
               PROVE  /\ Settled(s)'
                      /\ token'[c].exp <= created'[s] + MintLatency + TTL
                      /\ Live(c)' => status'[s] \in Usable
    BY DEF TokenInv, Settled, mintVars
  <2>1. /\ Settled(s) /\ token[c].exp <= created[s] + MintLatency + TTL
        /\ Live(c) => status[s] \in Usable
    BY DEF TokenInv, redisVars
  <2>2. s \in Session /\ created[s] \in Nat /\ token[c].exp \in Nat
    BY <2>1 DEF Settled, TypeOK
  <2>3. ASSUME Live(c)' PROVE status'[s] \in Usable
    <3>1. now' < token[c].exp /\ now \in Nat
      BY <2>3 DEF Live, redisVars, TypeOK
    <3>2. now < token[c].exp /\ now' < created[s] + MintLatency + TTL
      BY <2>1, <2>2, <3>1, TimeAssumption
    <3> QED
      BY <2>1, <2>2, <3>2 DEF Live
  <2> QED
    BY <1>2, <2>1, <2>3 DEF redisVars
<1>4. RedeemInv'
  <2> SUFFICES ASSUME NEW k \in Redeemer, NEW s, s = rec[k]
               PROVE  /\ RedeemInFlight(k) => now' <= begun[k] + RedeemLatency
                      /\ RedeemInFlight(k) /\ s \notin resent =>
                           /\ Settled(s)'
                           /\ begun[k] < created[s] + MintLatency + TTL
                           /\ status'[s] \in Usable
                      /\ rpc[k] = "ok" /\ s \notin resent =>
                           Settled(s)' /\ status'[s] \in {"active", "ended"}
    BY DEF RedeemInv, RedeemInFlight, Settled, redeemVars, mintVars
  <2>1. ASSUME RedeemInFlight(k), s \notin resent
        PROVE  /\ Settled(s)' /\ begun[k] < created[s] + MintLatency + TTL
               /\ status'[s] \in Usable
    <3>1. /\ Settled(s) /\ begun[k] < created[s] + MintLatency + TTL
          /\ status[s] \in Usable /\ now' <= begun[k] + RedeemLatency
      BY <2>1 DEF RedeemInv
    <3>2. s \in Session /\ created[s] \in Nat /\ begun[k] \in Nat
      BY <3>1 DEF Settled, TypeOK
    <3>3. now' < created[s] + MintLatency + TTL + RedeemLatency
      BY <3>1, <3>2, TimeAssumption
    <3> QED
      BY <1>2, <3>1, <3>2, <3>3
  <2>2. ASSUME rpc[k] = "ok", s \notin resent PROVE Settled(s)' /\ status'[s] \in {"active", "ended"}
    <3>1. Settled(s) /\ status[s] \in {"active", "ended"}
      BY <2>2 DEF RedeemInv
    <3> QED
      BY <1>2, <3>1 DEF Settled
  <2> QED
    BY <2>1, <2>2
<1> QED
  BY <1>1, <1>3, <1>4

\* The sweep's cutoff lies behind the creation of every row that a Mint, a
\* live token or a Redeem still stands for.
LEMMA CutoffBehind ==
  ASSUME TypeOK, NEW s \in Session,
         \/ now <= created[s] + MintLatency
         \/ now < created[s] + MintLatency + TTL
         \/ now < created[s] + MintLatency + TTL + RedeemLatency
  PROVE  ~Stale(s)
<1>1. created[s] \in Nat /\ now \in Nat
  BY DEF TypeOK
<1>2. PICK cut : cut = CutoffMultiplier * TTL
  OBVIOUS
<1>3. cut \in Nat
  BY <1>2, CutoffAssumption, TimeAssumption
<1>4. MintLatency + TTL + RedeemLatency + Skew <= cut
  BY <1>2, SlackAssumption
<1>5. ~(created[s] < now + Skew - cut)
  BY <1>1, <1>3, <1>4, TimeAssumption
<1>6. Cutoff = now + Skew - cut
  BY <1>2 DEF Cutoff
<1> QED
  BY <1>5, <1>6 DEF Stale

LEMMA InvStep == ASSUME IInv, [Next]_vars PROVE IInv'
<1>1. TypeOK'
  BY TypeStep DEF IInv
<1>2. CASE \E m \in Minter : MintStep(m)
  BY <1>1, <1>2, MintInvStep, MintTokenStep, MintRedeemStep DEF IInv
<1>3. CASE \E k \in Redeemer : RedeemStep(k)
  BY <1>1, <1>3, RedeemMintStep, RedeemTokenStep, RedeemOwnStep DEF IInv
<1>4. CASE \E s \in Session : MarkEnded(s)
  <2>1. PICK e \in Session : MarkEnded(e)
    BY <1>4
  <2>2. /\ status[e] = "active" /\ status' = [status EXCEPT ![e] = "ended"] /\ now' = now
        /\ UNCHANGED <<created, redisVars, mintVars, redeemVars>>
    BY <2>1 DEF MarkEnded, MayEnd
  <2>3. \A s \in Session :
          /\ status[s] \in {"active", "ended"} => status'[s] \in {"active", "ended"}
          /\ status[s] \in Usable => status'[s] \in Usable
    BY <2>2 DEF IInv, TypeOK, Usable
  <2>4. ASSUME NEW m \in Minter, MintInFlight(m)
        PROVE  /\ status'[Row(m)] = "pending" \/ Row(m) \in resent
               /\ now' <= created[Row(m)] + MintLatency
    BY <2>2, <2>4, RowType DEF IInv, MintInv, TypeOK
  <2>5. now' \in Nat /\ now <= now' /\ \A k \in Redeemer : RedeemInFlight(k) => now' <= begun[k] + RedeemLatency
    BY <2>2 DEF IInv, RedeemInv, TypeOK
  <2> QED
    BY <1>1, <2>2, <2>3, <2>4, <2>5, OtherStep DEF IInv
<1>5. CASE ExpireStalePending
  <2>1. /\ status' = [s \in Session |-> IF Stale(s) THEN "expired" ELSE status[s]] /\ now' = now
        /\ UNCHANGED <<created, redisVars, mintVars, redeemVars>>
    BY <1>5 DEF ExpireStalePending
  <2>2. \A s \in Session : status[s] \in {"active", "ended"} => status'[s] \in {"active", "ended"}
    BY <2>1 DEF Stale
  <2>3. ASSUME NEW s \in Session,
               \/ now < created[s] + MintLatency + TTL
               \/ now < created[s] + MintLatency + TTL + RedeemLatency
        PROVE  status'[s] = status[s]
    BY <2>1, <2>3, CutoffBehind DEF IInv
  <2>4. ASSUME NEW m \in Minter, MintInFlight(m)
        PROVE  /\ status'[Row(m)] = "pending" \/ Row(m) \in resent
               /\ now' <= created[Row(m)] + MintLatency
    <3>1. /\ status[Row(m)] = "pending" \/ Row(m) \in resent
          /\ now <= created[Row(m)] + MintLatency
      BY <2>4 DEF IInv, MintInv
    <3>2. Row(m) \in Session /\ ~Stale(Row(m))
      BY <3>1, RowType, CutoffBehind DEF IInv
    <3> QED
      BY <2>1, <3>1, <3>2
  <2>5. now' \in Nat /\ now <= now' /\ \A k \in Redeemer : RedeemInFlight(k) => now' <= begun[k] + RedeemLatency
    BY <2>1 DEF IInv, RedeemInv, TypeOK
  <2>6. \A s \in Session : Settled(s) =>
          /\ status[s] \in {"active", "ended"} => status'[s] \in {"active", "ended"}
          /\ (\/ now' < created[s] + MintLatency + TTL
              \/ now' < created[s] + MintLatency + TTL + RedeemLatency)
             => (status[s] \in Usable => status'[s] \in Usable)
    BY <2>1, <2>2, <2>3
  <2> QED
    BY <1>1, <2>1, <2>4, <2>5, <2>6, OtherStep DEF IInv
<1>6. CASE Tick
  <2>1. /\ now' = now + 1 /\ status' = status
        /\ UNCHANGED <<created, redisVars, mintVars, redeemVars>>
        /\ \A m \in Minter : MintInFlight(m) => now < created[Row(m)] + MintLatency
        /\ \A k \in Redeemer : RedeemInFlight(k) => now < begun[k] + RedeemLatency
    BY <1>6 DEF Tick, dbVars
  <2>2. now' \in Nat /\ now <= now'
    BY <2>1 DEF IInv, TypeOK
  <2>3. ASSUME NEW m \in Minter, MintInFlight(m)
        PROVE  /\ status'[Row(m)] = "pending" \/ Row(m) \in resent
               /\ now' <= created[Row(m)] + MintLatency
    <3>1. /\ status[Row(m)] = "pending" \/ Row(m) \in resent
          /\ now < created[Row(m)] + MintLatency
      BY <2>1, <2>3 DEF IInv, MintInv
    <3>2. created[Row(m)] \in Nat /\ now \in Nat
      BY RowType DEF IInv, TypeOK
    <3> QED
      BY <2>1, <3>1, <3>2, TimeAssumption
  <2>4. ASSUME NEW k \in Redeemer, RedeemInFlight(k) PROVE now' <= begun[k] + RedeemLatency
    <3>1. begun[k] \in Nat /\ now \in Nat /\ now < begun[k] + RedeemLatency
      BY <2>1, <2>4 DEF IInv, TypeOK
    <3> QED
      BY <2>1, <3>1, TimeAssumption
  <2> QED
    BY <1>1, <2>1, <2>2, <2>3, <2>4, OtherStep DEF IInv
<1>7. CASE UNCHANGED vars
  BY <1>7 DEF vars, dbVars, redisVars, mintVars, redeemVars, IInv, MintInv, TokenInv, RedeemInv,
     Settled, MintInFlight, RedeemInFlight, Row, Live, TypeOK
<1> QED
  BY <1>2, <1>3, <1>4, <1>5, <1>6, <1>7 DEF Next

LEMMA Invariance == Spec => []IInv
BY InvInit, InvStep, PTL DEF Spec

\* A Redeem that answered 200 left its session active: no sweep, rollback or
\* other request's failure takes the row from under it, the row of a token that a
\* resent SetNX left behind excepted.
THEOREM RedeemedSessionsAreActive == Spec => []RedeemedSessionActive
<1>1. IInv => RedeemedSessionActive
  BY DEF IInv, RedeemInv, RedeemedSessionActive
<1> QED
  BY <1>1, Invariance, PTL

\* A token that GET still finds stands for a row the sweep has not expired and
\* no Mint has rolled back, unless a resent SetNX left it behind.
THEOREM LiveTokensAreUsable == Spec => []LiveTokenUsable
<1>1. ASSUME IInv PROVE LiveTokenUsable
  <2> SUFFICES ASSUME NEW c \in ConnectID, Live(c), token[c].session \notin resent
               PROVE  status[token[c].session] \in {"pending", "active", "ended"}
    BY DEF LiveTokenUsable
  <2>1. token[c].exp > 0
    BY <1>1 DEF IInv, TypeOK, Live
  <2> QED
    BY <1>1, <2>1 DEF IInv, TokenInv, Usable
<1> QED
  BY <1>1, Invariance, PTL

-----------------------------------------------------------------------------
(* No status goes back. *)

\* A row a Mint has yet to insert does not exist.
FreshInv ==
  \A m \in Minter, i \in 1..MintTries :
    i > try[m] \/ (i = try[m] /\ mpc[m] = "insert") => status[<<m, i>>] = "none"

\* The moves StatusForward allows a row.
Forward(old, new) ==
  \/ new = old
  \/ <<old, new>> \in {<<"none", "pending">>, <<"pending", "active">>,
       <<"pending", "expired">>, <<"pending", "deleted">>, <<"active", "ended">>}

LEMMA FreshInit == Init => FreshInv
BY DEF Init, FreshInv, Session

\* A Mint moves its own row only, from none to pending or from pending to
\* deleted.
LEMMA MintForward ==
  ASSUME IInv, FreshInv, NEW m \in Minter, MintStep(m)
  PROVE  /\ \A s \in Session : s # Row(m) => status'[s] = status[s]
         /\ \/ Forward(status[Row(m)], status'[Row(m)])
            \/ Row(m) \in resent /\ status'[Row(m)] = "deleted"
<1>1. Row(m) \in Session /\ try[m] \in 1..MintTries
  BY RowType DEF IInv, TypeOK
<1>2. mpc[m] = "insert" => status[Row(m)] = "none"
  BY <1>1 DEF FreshInv, Row
<1>3. mpc[m] = "rollback" => status[Row(m)] = "pending" \/ Row(m) \in resent
  BY DEF IInv, MintInv, MintInFlight
<1>4. \/ status' = status
      \/ mpc[m] = "insert" /\ status' = [status EXCEPT ![Row(m)] = "pending"]
      \/ mpc[m] = "rollback" /\ status' = [status EXCEPT ![Row(m)] = "deleted"]
  BY DEF MintStep, InsertRow, SetNX, DeleteRow, MintFails, MintResend, AddRow, dbVars
<1>5. status \in [Session -> Status]
  BY DEF IInv, TypeOK
<1> QED
  BY <1>1, <1>2, <1>3, <1>4, <1>5 DEF Forward

LEMMA OthersForward ==
  ASSUME IInv,
         \/ \E k \in Redeemer : RedeemStep(k)
         \/ \E s \in Session : MarkEnded(s)
         \/ ExpireStalePending \/ Tick \/ UNCHANGED vars
  PROVE  /\ mpc' = mpc /\ try' = try
         /\ \A s \in Session : Forward(status[s], status'[s])
                               /\ (status[s] = "none" => status'[s] = "none")
<1>0. status \in [Session -> Status]
  BY DEF IInv, TypeOK
<1>1. CASE \E k \in Redeemer : RedeemStep(k)
  BY <1>0, <1>1, RedeemRows DEF Forward
<1>2. CASE \E s \in Session : MarkEnded(s)
  BY <1>0, <1>2 DEF MarkEnded, MayEnd, mintVars, Forward
<1>3. CASE ExpireStalePending
  BY <1>0, <1>3 DEF ExpireStalePending, Stale, mintVars, Forward
<1>4. CASE Tick \/ UNCHANGED vars
  BY <1>4 DEF Tick, vars, dbVars, mintVars, Forward
<1> QED
  BY <1>1, <1>2, <1>3, <1>4

LEMMA FreshStep == ASSUME IInv, FreshInv, [Next]_vars PROVE FreshInv'
<1>1. CASE \E m \in Minter : MintStep(m)
  <2>1. PICK m \in Minter : MintStep(m)
    BY <1>1
  <2> SUFFICES ASSUME NEW x \in Minter, NEW i \in 1..MintTries,
                      i > try'[x] \/ (i = try'[x] /\ mpc'[x] = "insert")
               PROVE  status'[<<x, i>>] = "none"
    BY DEF FreshInv
  <2>2. <<x, i>> \in Session /\ try[x] \in 1..MintTries /\ try[m] \in 1..MintTries
    BY DEF Session, IInv, TypeOK
  <2>3. CASE x # m
    <3>1. try'[x] = try[x] /\ mpc'[x] = mpc[x] /\ <<x, i>> # Row(m)
      BY <2>1, <2>3 DEF MintStep, InsertRow, SetNX, DeleteRow, MintFails, MintResend, IInv, TypeOK, Row
    <3> QED
      BY <2>1, <2>2, <3>1, MintForward DEF FreshInv
  <2>4. CASE x = m
    <3>1. \/ try'[m] = try[m] /\ mpc'[m] # "insert"
          \/ try'[m] = try[m] + 1
      BY <2>1 DEF MintStep, InsertRow, SetNX, DeleteRow, MintFails, MintResend, IInv, TypeOK
    <3>2. i > try[m]
      BY <2>2, <2>4, <3>1, TriesAssumption
    <3>3. <<x, i>> # Row(m)
      BY <2>2, <2>4, <3>2, TriesAssumption DEF Row
    <3> QED
      BY <2>1, <2>2, <2>4, <3>2, <3>3, MintForward DEF FreshInv
  <2> QED
    BY <2>3, <2>4
<1>2. CASE ~\E m \in Minter : MintStep(m)
  BY <1>2, OthersForward DEF Next, FreshInv, Session
<1> QED
  BY <1>1, <1>2

\* Ended, expired and deleted sessions stay so, whatever fails and whatever the
\* requests, the callback and the sweep do in between.
THEOREM StatusesMoveForward == Spec => StatusForward
<1> DEFINE Moves == \A s \in Session :
      Forward(status[s], status'[s]) \/ (s \in resent /\ status'[s] = "deleted")
<1>1. ASSUME IInv, FreshInv, [Next]_vars PROVE Moves
  <2>1. ASSUME NEW m \in Minter, MintStep(m) PROVE Moves
    BY <1>1, <2>1, MintForward DEF Forward
  <2> QED
    BY <1>1, <2>1, OthersForward DEF Next
<1>2. Moves => \A s \in Session :
        \/ status'[s] = status[s]
        \/ <<status[s], status'[s]>> \in {<<"none", "pending">>, <<"pending", "active">>,
             <<"pending", "expired">>, <<"pending", "deleted">>, <<"active", "ended">>}
        \/ s \in resent /\ status'[s] = "deleted"
  BY DEF Forward
<1> QED
  BY <1>1, <1>2, FreshInit, FreshStep, Invariance, PTL DEF Spec, StatusForward

-----------------------------------------------------------------------------
(* The attempts counter bounds the comparisons. *)

\* The Mint that made row s stored, or tried to store, its token under c, and
\* has ended.
Home(s, c) ==
  /\ s \in Session
  /\ s[2] = try[s[1]]
  /\ mpc[s[1]] \in {"ok", "error"}
  /\ mid[s[1]] = c

\* Tokens, Redeems in flight and comparisons belong to rows whose Mint has
\* ended, under the connect id it used, so that a row's token is stored once; the
\* rows of a resent SetNX are the exception.
HomeInv ==
  /\ \A c \in ConnectID :
       token[c].exp > 0 =>
         /\ token[c].session \in resent \/ Home(token[c].session, c)
         /\ token[c].exp <= now + TTL
  /\ \A k \in Redeemer : RedeemInFlight(k) => rec[k] \in resent \/ Home(rec[k], rid[k])
  /\ \A s \in Session : compared[s] # 0 => s \in resent \/ \E c \in ConnectID : Home(s, c)

\* Nothing happened under c yet.
Untouched(c) ==
  /\ token[c].exp = 0 /\ attempts[c] = NoAttempts
  /\ \A k \in Redeemer : rid[k] = c => ~RedeemInFlight(k)

\* A Redeem has incremented c's counter from zero and not yet compared.
AtExpire(k, c) == rid[k] = c /\ rpc[k] = "expire"

\* The comparisons with s's PIN are counted under c, by a counter that outlives
\* the token, the one that a Redeem at EXPIRE is about to make included.
Counted(c, s) ==
  /\ attempts[c].ttl => token[c].exp <= attempts[c].exp
  /\ compared[s] <= attempts[c].n /\ compared[s] <= MaxRedeemTries
  /\ \A k \in Redeemer : AtExpire(k, c) =>
       /\ compared[s] < attempts[c].n /\ compared[s] < MaxRedeemTries
       /\ \A j \in Redeemer : AtExpire(j, c) => j = k

AttemptInv ==
  \A c \in ConnectID :
    /\ uses[c] = 0 => Untouched(c)
    /\ Live(c) /\ uses[c] = 1 /\ token[c].session \notin resent =>
         Counted(c, token[c].session)

\* What a step of a Mint can do to tokens.
LEMMA MintMoves ==
  ASSUME TypeOK, NEW m \in Minter, MintStep(m)
  PROVE  /\ now' = now /\ attempts' = attempts /\ compared' = compared /\ UNCHANGED redeemVars
         /\ mpc[m] \in {"insert", "setnx", "rollback"} /\ resent \subseteq resent'
         /\ \A x \in Minter \ {m} : try'[x] = try[x] /\ mpc'[x] = mpc[x] /\ mid'[x] = mid[x]
         /\ \/ token' = token /\ uses' = uses
            \/ /\ mpc[m] = "setnx" /\ ~Live(mid[m]) /\ StoreToken(m)
               /\ try' = try /\ mid' = mid
               /\ mpc'[m] \in {"ok", "error"} \/ Row(m) \in resent'
BY DEF MintStep, InsertRow, SetNX, DeleteRow, MintFails, MintResend, SetNXFree, TypeOK, redisVars

\* What a step of a Redeem can do.
LEMMA RedeemMoves ==
  ASSUME TypeOK, NEW k \in Redeemer, RedeemStep(k)
  PROVE  /\ now' = now /\ UNCHANGED mintVars /\ uses' = uses /\ rid' = rid
         /\ rpc[k] = "idle" \/ RedeemInFlight(k)
         /\ \A x \in Redeemer \ {k} : rpc'[x] = rpc[x] /\ rec'[x] = rec[x]
         /\ \A c \in ConnectID : token'[c] = token[c] \/ token'[c] = Absent
         /\ \A c \in ConnectID : c # rid[k] => attempts'[c] = attempts[c]
         /\ rpc[k] = "idle" => attempts' = attempts /\ compared' = compared
<1>1. rid[k] \in ConnectID
  BY DEF TypeOK
<1>2. /\ now' = now /\ UNCHANGED mintVars /\ uses' = uses /\ rid' = rid
      /\ rpc[k] = "idle" \/ RedeemInFlight(k)
      /\ rpc[k] = "idle" => attempts' = attempts /\ compared' = compared
  BY DEF RedeemStep, Get, Incr, Expire, Burn, Consume, Activate, RedeemFails, RedeemResend, RedeemInFlight,
     redisVars, redeemVars
<1>3. \A x \in Redeemer \ {k} : rpc'[x] = rpc[x] /\ rec'[x] = rec[x]
  BY DEF RedeemStep, Get, Incr, Expire, Burn, Consume, Activate, RedeemFails, RedeemResend, Compare,
     TypeOK, redeemVars
<1>4. \A c \in ConnectID : token'[c] = token[c] \/ token'[c] = Absent
  BY <1>1 DEF RedeemStep, Get, Incr, Expire, Burn, Consume, Activate, RedeemFails, RedeemResend, Invalidate,
     redisVars, TypeOK
<1>5. \A c \in ConnectID : c # rid[k] => attempts'[c] = attempts[c]
  BY <1>1 DEF RedeemStep, Get, Incr, Expire, Burn, Consume, Activate, RedeemFails, RedeemResend, Invalidate,
     Increment, redisVars, TypeOK
<1> QED
  BY <1>2, <1>3, <1>4, <1>5

\* The steps of no request touch neither tokens nor requests.
LEMMA OtherMoves ==
  ASSUME TypeOK,
         (\E s \in Session : MarkEnded(s)) \/ ExpireStalePending \/ Tick \/ UNCHANGED vars
  PROVE  /\ UNCHANGED <<redisVars, mintVars, redeemVars, compared, uses>>
         /\ now' \in Nat /\ now <= now'
BY DEF MarkEnded, ExpireStalePending, Tick, vars, dbVars, TypeOK

\* Once a row's Mint has ended, it stays so.
LEMMA HomeStable ==
  ASSUME TypeOK, NEW s, NEW c, Home(s, c), [Next]_vars PROVE Home(s, c)'
<1>1. s \in Session /\ s[1] \in Minter
  BY DEF Home, Session
<1>2. CASE \E m \in Minter : MintStep(m)
  BY <1>1, <1>2, MintMoves DEF Home
<1>3. CASE UNCHANGED mintVars
  BY <1>1, <1>3 DEF Home, mintVars
<1>4. CASE \E k \in Redeemer : RedeemStep(k)
  BY <1>3, <1>4, RedeemMoves
<1> QED
  BY <1>2, <1>3, <1>4, OtherMoves DEF Next

LEMMA HomeInit == Init => HomeInv /\ AttemptInv
BY DEF Init, HomeInv, AttemptInv, Untouched, Live, Absent, NoAttempts, RedeemInFlight

\* A Redeem that is in flight was before, or has just read a live token.
LEMMA InFlightFrom ==
  ASSUME TypeOK, NEW k \in Redeemer, RedeemStep(k), RedeemInFlight(k)'
  PROVE  \/ RedeemInFlight(k) /\ rec'[k] = rec[k]
         \/ /\ rpc[k] = "idle" /\ Live(rid[k]) /\ rec'[k] = token[rid[k]].session
            /\ rpc'[k] = "incr"
BY DEF RedeemStep, Get, Incr, Expire, Burn, Consume, Activate, RedeemFails, RedeemResend, Compare,
   RedeemInFlight, TypeOK, redeemVars

\* A comparison is made with the session the Redeem read.
LEMMA ComparedMoves ==
  ASSUME TypeOK, NEW k \in Redeemer, RedeemStep(k)
  PROVE  \/ compared' = compared
         \/ RedeemInFlight(k) /\ compared' = [compared EXCEPT ![rec[k]] = @ + 1]
BY DEF RedeemStep, Get, Incr, Expire, Burn, Consume, Activate, RedeemFails, RedeemResend, Compare, RedeemInFlight

\* The rows of resent SetNX commands stay known.
LEMMA ResentGrows == ASSUME TypeOK, [Next]_vars PROVE resent \subseteq resent'
BY MintMoves, RedeemMoves, OtherMoves DEF Next, mintVars

LEMMA HomeTokens == ASSUME TypeOK, HomeInv, [Next]_vars, NEW c \in ConnectID, token'[c].exp > 0
                    PROVE  /\ token'[c].session \in resent' \/ Home(token[c].session, c)'
                           /\ token'[c].exp <= now' + TTL
<1>0. now \in Nat /\ TTL \in Nat /\ token[c].exp \in Nat
  BY TimeAssumption DEF TypeOK
<1>1. now' \in Nat /\ now <= now' /\ resent \subseteq resent'
  BY <1>0, MintMoves, RedeemMoves, OtherMoves, ResentGrows DEF Next
<1>2. PICK s : s = token'[c].session
  OBVIOUS
<1>3. CASE token'[c] = token[c]
  <2>1. (s \in resent \/ Home(s, c)) /\ token[c].exp <= now + TTL
    BY <1>2, <1>3 DEF HomeInv
  <2>2. s \in resent' \/ Home(s, c)'
    BY <1>1, <2>1, HomeStable
  <2>3. token'[c].session \in resent' \/ Home(token[c].session, c)'
    BY <1>2, <2>2 DEF Home
  <2> QED
    BY <1>0, <1>1, <1>3, <2>1, <2>3
<1>4. ASSUME NEW m \in Minter, mpc[m] = "setnx", StoreToken(m), try' = try, mid' = mid,
             mpc'[m] \in {"ok", "error"} \/ Row(m) \in resent', mid[m] = c, now' = now
      PROVE  /\ token'[c].session \in resent' \/ Home(token[c].session, c)'
             /\ token'[c].exp <= now' + TTL
  <2>2. token'[c].session = Row(m) /\ token'[c].exp = now + TTL
    BY <1>4 DEF StoreToken, TypeOK
  <2>3. Row(m) \in Session /\ Row(m)[1] = m /\ Row(m)[2] = try[m]
    BY RowType DEF Row
  <2>4. s \in resent' \/ Home(s, c)'
    BY <1>2, <1>4, <2>2, <2>3 DEF Home
  <2>5. token'[c].session \in resent' \/ Home(token[c].session, c)'
    BY <1>2, <2>4 DEF Home
  <2> QED
    BY <1>0, <1>4, <2>2, <2>5
<1>5. CASE \E m \in Minter : MintStep(m)
  <2>1. PICK m \in Minter : MintStep(m)
    BY <1>5
  <2>2. CASE token' = token
    BY <1>3, <2>2
  <2>3. CASE /\ mpc[m] = "setnx" /\ StoreToken(m) /\ try' = try /\ mid' = mid
             /\ mpc'[m] \in {"ok", "error"} \/ Row(m) \in resent'
    <3>1. c # mid[m] => token'[c] = token[c]
      BY <2>3 DEF StoreToken, TypeOK
    <3> QED
      BY <1>3, <1>4, <2>1, <2>3, <3>1, MintMoves
  <2> QED
    BY <2>1, <2>2, <2>3, MintMoves
<1>6. CASE \E k \in Redeemer : RedeemStep(k)
  <2>1. token'[c] = token[c] \/ token'[c] = Absent
    BY <1>6, RedeemMoves
  <2> QED
    BY <1>3, <2>1 DEF Absent
<1>7. CASE UNCHANGED redisVars
  BY <1>3, <1>7 DEF redisVars
<1> QED
  BY <1>5, <1>6, <1>7, OtherMoves DEF Next

LEMMA HomeStep == ASSUME TypeOK, HomeInv, [Next]_vars PROVE HomeInv'
<1>0. resent \subseteq resent'
  BY ResentGrows
<1>1. \A c \in ConnectID :
        token'[c].exp > 0 => /\ token'[c].session \in resent' \/ Home(token[c].session, c)'
                             /\ token'[c].exp <= now' + TTL
  BY HomeTokens
<1>2. ASSUME NEW k \in Redeemer, RedeemInFlight(k)', rec'[k] \notin resent'
      PROVE  Home(rec[k], rid[k])'
  <2>1. PICK s, c : s = rec'[k] /\ c = rid'[k]
    OBVIOUS
  <2>2. CASE RedeemInFlight(k) /\ rec'[k] = rec[k] /\ rid' = rid
    <3>1. Home(s, c)
      BY <1>0, <1>2, <2>1, <2>2 DEF HomeInv
    <3> QED
      BY <2>1, <3>1, HomeStable DEF Home
  <2>3. CASE Live(rid[k]) /\ rec'[k] = token[rid[k]].session /\ rid' = rid
    <3>1. rid[k] \in ConnectID /\ token[rid[k]].exp > 0
      BY <2>3 DEF Live, TypeOK
    <3>2. Home(s, c)
      BY <1>0, <1>2, <2>1, <2>3, <3>1 DEF HomeInv
    <3> QED
      BY <2>1, <3>2, HomeStable DEF Home
  <2>4. CASE \E x \in Redeemer : RedeemStep(x)
    <3>1. PICK x \in Redeemer : RedeemStep(x)
      BY <2>4
    <3>2. CASE x = k
      BY <1>2, <2>2, <2>3, <3>1, <3>2, InFlightFrom, RedeemMoves
    <3>3. CASE x # k
      BY <1>2, <2>2, <3>1, <3>3, RedeemMoves DEF RedeemInFlight
    <3> QED
      BY <3>2, <3>3
  <2>5. CASE UNCHANGED redeemVars
    BY <1>2, <2>2, <2>5 DEF redeemVars, RedeemInFlight
  <2> QED
    BY <2>4, <2>5, MintMoves, OtherMoves DEF Next
<1>3. ASSUME NEW s \in Session, compared'[s] # 0, s \notin resent'
      PROVE  \E c \in ConnectID : Home(s, c)'
  <2>1. CASE compared'[s] = compared[s]
    <3>1. PICK c \in ConnectID : Home(s, c)
      BY <1>0, <1>3, <2>1 DEF HomeInv
    <3> QED
      BY <3>1, HomeStable
  <2>2. CASE \E k \in Redeemer : RedeemStep(k)
    <3>1. PICK k \in Redeemer : RedeemStep(k)
      BY <2>2
    <3>2. CASE RedeemInFlight(k) /\ s = rec[k]
      <4>1. Home(s, rid[k]) /\ rid[k] \in ConnectID
        BY <1>0, <1>3, <3>2 DEF HomeInv, TypeOK
      <4>2. PICK c \in ConnectID : Home(s, c)
        BY <4>1
      <4> QED
        BY <4>2, HomeStable
    <3>3. compared'[s] # compared[s] => RedeemInFlight(k) /\ s = rec[k]
      BY <3>1, ComparedMoves DEF TypeOK
    <3> QED
      BY <2>1, <3>2, <3>3
  <2> QED
    BY <2>1, <2>2, MintMoves, OtherMoves DEF Next
<1> QED
  BY <1>1, <1>2, <1>3 DEF HomeInv

\* Under a connect id that was never used nothing happens until a Mint stores a
\* token.
LEMMA UntouchedStep ==
  ASSUME TypeOK, AttemptInv, [Next]_vars, NEW c \in ConnectID, uses'[c] = 0
  PROVE  Untouched(c)'
<1>0. uses[c] \in Nat /\ now \in Nat
  BY DEF TypeOK
<1>1. CASE \E m \in Minter : MintStep(m)
  <2>1. PICK m \in Minter : MintStep(m)
    BY <1>1
  <2>2. CASE token' = token /\ uses' = uses
    BY <2>1, <2>2, MintMoves DEF AttemptInv, Untouched, redeemVars, RedeemInFlight
  <2>3. CASE StoreToken(m)
    <3>1. c # mid[m]
      BY <1>0, <2>3 DEF StoreToken, TypeOK
    <3>2. token'[c] = token[c] /\ uses'[c] = uses[c]
      BY <2>3, <3>1 DEF StoreToken, TypeOK
    <3> QED
      BY <2>1, <3>2, MintMoves DEF AttemptInv, Untouched, redeemVars, RedeemInFlight
  <2> QED
    BY <2>1, <2>2, <2>3, MintMoves
<1>2. CASE \E k \in Redeemer : RedeemStep(k)
  <2>1. PICK k \in Redeemer : RedeemStep(k)
    BY <1>2
  <2>2. Untouched(c) /\ rid' = rid
    BY <2>1, RedeemMoves DEF AttemptInv
  <2>3. ~Live(c)
    BY <1>0, <2>2 DEF Untouched, Live
  <2>4. \A x \in Redeemer : rid[x] = c => ~RedeemInFlight(x)'
    <3>1. ASSUME NEW x \in Redeemer, rid[x] = c PROVE ~RedeemInFlight(x)'
      <4>1. ~RedeemInFlight(x)
        BY <2>2, <3>1 DEF Untouched
      <4>2. CASE x = k
        BY <2>1, <2>3, <3>1, <4>1, <4>2, InFlightFrom
      <4>3. CASE x # k
        BY <2>1, <4>1, <4>3, RedeemMoves DEF RedeemInFlight
      <4> QED
        BY <4>2, <4>3
    <3> QED
      BY <3>1
  <2>5. attempts'[c] = attempts[c]
    <3>1. CASE rid[k] = c
      BY <2>1, <2>2, <3>1, RedeemMoves DEF Untouched
    <3>2. CASE rid[k] # c
      BY <2>1, <3>2, RedeemMoves
    <3> QED
      BY <3>1, <3>2
  <2>6. token'[c].exp = 0
    BY <2>1, <2>2, RedeemMoves DEF Untouched, Absent
  <2> QED
    BY <2>2, <2>4, <2>5, <2>6 DEF Untouched, NoAttempts
<1>3. CASE UNCHANGED <<redisVars, redeemVars, uses>>
  BY <1>3 DEF AttemptInv, Untouched, redisVars, redeemVars, RedeemInFlight
<1> QED
  BY <1>1, <1>2, <1>3, OtherMoves DEF Next

\* While the token lives the counter has not expired.
LEMMA CounterOutlives ==
  ASSUME TypeOK, NEW c \in ConnectID, NEW s, Live(c), Counted(c, s)
  PROVE  Attempts(c) = attempts[c].n /\ attempts[c].n \in Nat
<1>1. /\ now \in Nat /\ token[c].exp \in Nat /\ now < token[c].exp
      /\ attempts[c].n \in Nat /\ attempts[c].exp \in Nat
  BY DEF TypeOK, Live
<1>2. ~(attempts[c].ttl /\ now >= attempts[c].exp)
  BY <1>1 DEF Counted
<1> QED
  BY <1>1, <1>2 DEF Attempts

\* A step that compares nothing with s and leaves c's counter alone.
LEMMA QuietStep ==
  ASSUME NEW c \in ConnectID, NEW s, Counted(c, s), token'[c] = token[c],
         attempts'[c] = attempts[c], compared'[s] = compared[s],
         \A k \in Redeemer : AtExpire(k, c)' => AtExpire(k, c)
  PROVE  Counted(c, s)'
BY DEF Counted

\* An INCR of c's counter.
LEMMA IncrementMoves ==
  ASSUME TypeOK, NEW c \in ConnectID, NEW s, Live(c), Counted(c, s), Increment(c)
  PROVE  /\ attempts'[c].n = attempts[c].n + 1
         /\ attempts'[c].ttl => token[c].exp <= attempts'[c].exp
<1>1. Attempts(c) = attempts[c].n /\ attempts[c].n \in Nat
  BY CounterOutlives
<1>2. attempts \in [ConnectID -> [n : Nat, ttl : BOOLEAN, exp : Nat]]
  BY DEF TypeOK
<1>3. CASE attempts[c].n = 0
  <2>1. attempts'[c] = [n |-> 1, ttl |-> FALSE, exp |-> 0]
    BY <1>1, <1>2, <1>3 DEF Increment
  <2> QED
    BY <1>3, <2>1
<1>4. CASE attempts[c].n # 0
  <2>1. attempts'[c] = [attempts[c] EXCEPT !.n = @ + 1]
    BY <1>1, <1>2, <1>4 DEF Increment
  <2>2. attempts'[c].n = attempts[c].n + 1 /\ attempts'[c].ttl = attempts[c].ttl
        /\ attempts'[c].exp = attempts[c].exp
    BY <1>2, <2>1
  <2> QED
    BY <2>2 DEF Counted
<1> QED
  BY <1>1, <1>3, <1>4

\* A Redeem's INCR: the first goes on to EXPIRE, one too many compares nothing,
\* any other compares once.
LEMMA IncrCounted ==
  ASSUME TypeOK, NEW k \in Redeemer, NEW c \in ConnectID, NEW s \in Session,
         Live(c), Counted(c, s), Incr(k), rid[k] = c, token'[c] = token[c]
  PROVE  Counted(c, s)'
<1>1. /\ attempts'[c].n = attempts[c].n + 1
      /\ attempts'[c].ttl => token[c].exp <= attempts'[c].exp
  BY IncrementMoves DEF Incr
<1>2. Attempts(c) = attempts[c].n /\ attempts[c].n \in Nat /\ compared[s] \in Nat
  BY CounterOutlives DEF TypeOK
<1>3. /\ compared[s] <= attempts[c].n /\ compared[s] <= MaxRedeemTries
      /\ \A j \in Redeemer : AtExpire(j, c) => compared[s] < attempts[c].n
  BY DEF Counted
<1>4. MaxRedeemTries \in Nat /\ MaxRedeemTries >= 1
  BY TriesAssumption
<1>5. rid' = rid /\ rpc[k] = "incr"
  BY DEF Incr
<1>6. CASE attempts[c].n = 0
  <2>1. rpc' = [rpc EXCEPT ![k] = "expire"] /\ compared' = compared
    BY <1>2, <1>6 DEF Incr, TooMany
  <2>2. compared[s] = 0 /\ \A j \in Redeemer : ~AtExpire(j, c)
    BY <1>2, <1>3, <1>6
  <2>3. \A j \in Redeemer : AtExpire(j, c)' => j = k
    BY <1>5, <2>1, <2>2 DEF AtExpire, TypeOK
  <2> QED
    BY <1>1, <1>2, <1>4, <1>6, <2>1, <2>2, <2>3 DEF Counted
<1>7. CASE attempts[c].n # 0
  <2>1. \/ rpc' = [rpc EXCEPT ![k] = "burn"] /\ compared' = compared
        \/ attempts[c].n + 1 <= MaxRedeemTries /\ Compare(k)
    BY <1>2, <1>4, <1>7 DEF Incr, TooMany
  <2>2. \A j \in Redeemer : AtExpire(j, c)' => AtExpire(j, c)
    BY <1>5, <2>1 DEF AtExpire, Compare, TypeOK
  <2>3. CASE compared'[s] = compared[s]
    BY <1>1, <1>2, <1>3, <2>2, <2>3 DEF Counted
  <2>4. CASE attempts[c].n + 1 <= MaxRedeemTries /\ compared'[s] = compared[s] + 1
    <3>1. compared'[s] <= attempts'[c].n /\ compared'[s] <= MaxRedeemTries
      BY <1>1, <1>2, <1>3, <1>4, <2>4
    <3>2. ASSUME NEW j \in Redeemer, AtExpire(j, c)'
          PROVE  compared'[s] < attempts'[c].n /\ compared'[s] < MaxRedeemTries
      <4>1. compared[s] < attempts[c].n
        BY <1>3, <2>2, <3>2
      <4> QED
        BY <1>1, <1>2, <1>4, <2>4, <4>1
    <3>3. \A i, j \in Redeemer : AtExpire(i, c)' /\ AtExpire(j, c)' => j = i
      BY <2>2 DEF Counted
    <3> QED
      BY <1>1, <3>1, <3>2, <3>3 DEF Counted
  <2>5. Compare(k) => compared'[s] = compared[s] \/ compared'[s] = compared[s] + 1
    BY DEF Compare, TypeOK
  <2> QED
    BY <2>1, <2>3, <2>4, <2>5
<1> QED
  BY <1>6, <1>7

\* A Redeem at EXPIRE makes the comparison its INCR was counted for.
LEMMA ExpireCounted ==
  ASSUME TypeOK, HomeInv, NEW k \in Redeemer, NEW c \in ConnectID, NEW s \in Session,
         Live(c), Counted(c, s), Expire(k), rid[k] = c, token'[c] = token[c]
  PROVE  Counted(c, s)'
<1>1. AtExpire(k, c)
  BY DEF Expire, AtExpire
<1>2. /\ compared[s] < attempts[c].n /\ compared[s] < MaxRedeemTries
      /\ \A j \in Redeemer : AtExpire(j, c) => j = k
  BY <1>1 DEF Counted
<1>3. \A j \in Redeemer : ~AtExpire(j, c)'
  BY <1>2 DEF Expire, Compare, AtExpire, TypeOK
<1>4. compared'[s] = compared[s] \/ compared'[s] = compared[s] + 1
  BY DEF Expire, Compare, TypeOK
<1>5. attempts[c].n \in Nat /\ compared[s] \in Nat /\ MaxRedeemTries \in Nat
  BY TriesAssumption DEF TypeOK
<1>6. token[c].exp <= now + TTL
  BY TimeAssumption DEF HomeInv, Live, TypeOK
<1>7. /\ attempts'[c].n = attempts[c].n
      /\ attempts'[c].ttl => token[c].exp <= attempts'[c].exp
  <2>1. attempts \in [ConnectID -> [n : Nat, ttl : BOOLEAN, exp : Nat]]
    BY DEF TypeOK
  <2>2. CASE UNCHANGED attempts
    BY <2>2 DEF Counted
  <2>3. CASE attempts' = [attempts EXCEPT
               ![rid[k]] = [attempts[rid[k]] EXCEPT !.ttl = TRUE, !.exp = now + TTL]]
    <3>1. attempts'[c] = [attempts[c] EXCEPT !.ttl = TRUE, !.exp = now + TTL]
      BY <2>1, <2>3
    <3>2. attempts'[c].n = attempts[c].n /\ attempts'[c].exp = now + TTL
      BY <2>1, <3>1
    <3> QED
      BY <1>6, <3>2
  <2> QED
    BY <2>2, <2>3 DEF Expire
<1> QED
  BY <1>2, <1>3, <1>4, <1>5, <1>7 DEF Counted

\* Any step of a Redeem, under c or another connect id.
LEMMA RedeemCounted ==
  ASSUME TypeOK, HomeInv, NEW k \in Redeemer, NEW c \in ConnectID, NEW s,
         s = token[c].session, s \notin resent, Live(c), Counted(c, s), RedeemStep(k),
         token'[c] = token[c]
  PROVE  Counted(c, s)'
<1>0. Home(s, c) /\ s \in Session /\ now < token[c].exp /\ token[c].exp > 0
  BY DEF HomeInv, Live, TypeOK, Home
<1>1. CASE rid[k] # c
  <2>1. compared'[s] = compared[s]
    <3>1. RedeemInFlight(k) => rec[k] # s
      BY <1>0, <1>1 DEF HomeInv, Home
    <3> QED
      BY <1>0, <3>1, ComparedMoves DEF TypeOK
  <2>2. attempts'[c] = attempts[c] /\ \A j \in Redeemer : AtExpire(j, c)' => AtExpire(j, c)
    BY <1>1, RedeemMoves DEF AtExpire
  <2> QED
    BY <2>1, <2>2, QuietStep
<1>2. CASE rid[k] = c /\ (Incr(k) \/ Expire(k))
  BY <1>0, <1>2, IncrCounted, ExpireCounted
<1>3. CASE rid[k] = c /\ ~Incr(k) /\ ~Expire(k)
  <2>1. compared' = compared /\ rid' = rid /\ (rpc'[k] # "expire" \/ rpc' = rpc)
    BY <1>3 DEF RedeemStep, Get, Burn, Consume, Activate, RedeemFails, RedeemResend, redeemVars,
       TypeOK
  <2>2. \A j \in Redeemer : AtExpire(j, c)' => AtExpire(j, c)
    BY <2>1, RedeemMoves DEF AtExpire
  <2>3. CASE attempts'[c] = attempts[c]
    BY <2>1, <2>2, <2>3, QuietStep
  <2>4. CASE Increment(c)
    <3>1. /\ attempts'[c].n = attempts[c].n + 1
          /\ attempts'[c].ttl => token[c].exp <= attempts'[c].exp
      BY <1>0, <2>4, IncrementMoves
    <3>2. attempts[c].n \in Nat /\ compared[s] \in Nat
      BY <1>0 DEF TypeOK
    <3> QED
      BY <2>1, <2>2, <3>1, <3>2 DEF Counted
  <2>5. ~Invalidate(c)
    BY <1>0 DEF Invalidate, Absent, TypeOK
  <2>6. \/ attempts' = attempts
        \/ Increment(c)
    BY <1>3, <2>5 DEF RedeemStep, Get, Burn, Consume, Activate, RedeemFails, RedeemResend, redisVars
  <2> QED
    BY <2>3, <2>4, <2>6
<1> QED
  BY <1>1, <1>2, <1>3

LEMMA AttemptStep == ASSUME TypeOK, HomeInv, AttemptInv, [Next]_vars PROVE AttemptInv'
<1> SUFFICES ASSUME NEW c \in ConnectID, Live(c)', uses'[c] = 1, NEW s, s = token'[c].session,
                    s \notin resent'
             PROVE  Counted(c, s)'
  BY UntouchedStep DEF AttemptInv, Counted
<1>0. uses[c] \in Nat /\ now \in Nat /\ token[c].exp \in Nat /\ s \notin resent
  BY ResentGrows DEF TypeOK
<1>1. ASSUME token'[c] = token[c], uses'[c] = uses[c], now <= now', now' \in Nat
      PROVE  Live(c) /\ s = token[c].session /\ Counted(c, s)
  BY <1>0, <1>1 DEF AttemptInv, Live
<1>2. CASE \E m \in Minter : MintStep(m)
  <2>1. PICK m \in Minter : MintStep(m)
    BY <1>2
  <2>2. /\ now' = now /\ attempts' = attempts /\ compared' = compared
        /\ \A k \in Redeemer : AtExpire(k, c)' <=> AtExpire(k, c)
    BY <2>1, MintMoves DEF redeemVars, AtExpire
  <2>3. CASE token'[c] = token[c] /\ uses'[c] = uses[c]
    BY <1>0, <1>1, <2>2, <2>3, QuietStep
  <2>4. CASE mpc[m] = "setnx" /\ StoreToken(m) /\ c = mid[m]
    <3>0. token'[c].session = Row(m) /\ uses'[c] = uses[c] + 1
      BY <2>4 DEF StoreToken, TypeOK
    <3>1. token'[c].session = Row(m) /\ uses[c] = 0
      BY <1>0, <3>0
    <3>2. Untouched(c)
      BY <3>1 DEF AttemptInv
    <3>3. attempts[c].n = 0 /\ ~attempts[c].ttl
      BY <3>2 DEF Untouched, NoAttempts
    <3>4. \A k \in Redeemer : ~AtExpire(k, c)
      BY <3>2 DEF Untouched, AtExpire, RedeemInFlight
    <3>5. s \in Session /\ compared[s] = 0
      BY <1>0, <2>4, <3>1, RowType DEF HomeInv, Home, Row
    <3> QED
      BY <2>2, <3>3, <3>4, <3>5, TriesAssumption DEF Counted
  <2>5. CASE StoreToken(m) /\ c # mid[m]
    BY <2>3, <2>5 DEF StoreToken, TypeOK
  <2> QED
    BY <2>1, <2>3, <2>4, <2>5, MintMoves
<1>3. CASE \E k \in Redeemer : RedeemStep(k)
  <2>1. PICK k \in Redeemer : RedeemStep(k)
    BY <1>3
  <2>2. now' = now /\ uses' = uses /\ (token'[c] = token[c] \/ token'[c] = Absent)
    BY <2>1, RedeemMoves
  <2>3. token'[c] = token[c]
    BY <1>0, <2>2 DEF Live, Absent
  <2>4. Live(c) /\ s = token[c].session /\ Counted(c, s)
    BY <1>0, <1>1, <2>2, <2>3
  <2> QED
    BY <1>0, <2>1, <2>3, <2>4, RedeemCounted
<1>4. CASE /\ UNCHANGED <<redisVars, mintVars, redeemVars, compared, uses>>
           /\ now' \in Nat /\ now <= now'
  <2>1. /\ token' = token /\ attempts' = attempts /\ compared' = compared /\ uses' = uses
        /\ \A k \in Redeemer : AtExpire(k, c)' <=> AtExpire(k, c)
    BY <1>4 DEF redisVars, redeemVars, AtExpire
  <2> QED
    BY <1>1, <1>4, <2>1, QuietStep
<1> QED
  BY <1>2, <1>3, <1>4, OtherMoves DEF Next

\* While a token lives, under a connect id not used before, at most
\* MaxRedeemTries PINs have been compared with it, and as many are counted:
\* the counter neither expires before the token nor loses concurrent attempts.
AttemptsCounted ==
  \A c \in ConnectID : Live(c) /\ uses[c] = 1 /\ token[c].session \notin resent =>
    LET s == token[c].session IN
      compared[s] <= MaxRedeemTries /\ compared[s] <= Attempts(c)

\* While a token under a connect id not used before lives, its session's PIN has
\* been compared at most MaxRedeemTries times, however many redeems run at once
\* and whatever fails, and its counter, which does not expire before the token,
\* has counted each comparison.
THEOREM LiveAttemptsAreCounted == Spec => []AttemptsCounted
<1>1. ASSUME TypeOK, AttemptInv PROVE AttemptsCounted
  <2> SUFFICES ASSUME NEW c \in ConnectID, Live(c), uses[c] = 1, NEW s, s = token[c].session,
                      s \notin resent
               PROVE  compared[s] <= MaxRedeemTries /\ compared[s] <= Attempts(c)
    BY DEF AttemptsCounted
  <2>1. Counted(c, s)
    BY <1>1 DEF AttemptInv
  <2> QED
    BY <1>1, <2>1, CounterOutlives DEF Counted
<1> QED
  BY <1>1, HomeInit, TypeInit, TypeStep, HomeStep, AttemptStep, PTL DEF Spec

-----------------------------------------------------------------------------
(* A session that became active has no token left. *)

\* Unless a DEL was lost: a Redeem about to activate its row has removed the
\* row's token or seen it die, and so has whoever activated a row.
SpentInv ==
  ~delLost =>
    /\ \A s \in Session \ resent : status[s] \in {"active", "ended"} =>
         Spent(s) /\ \E c \in ConnectID : Home(s, c)
    /\ \A k \in Redeemer : rpc[k] = "activate" /\ rec[k] \notin resent => Spent(rec[k])

\* The token of a row whose Mint has ended does not come back.
LEMMA SpentStable ==
  ASSUME TypeOK, [Next]_vars, NEW s, NEW d, Home(s, d), Spent(s)
  PROVE  Spent(s)'
<1> SUFFICES ASSUME NEW c \in ConnectID, Live(c)', token'[c].session = s PROVE FALSE
  BY DEF Spent
<1>0. now \in Nat /\ token[c].exp \in Nat /\ now' \in Nat
  BY TypeStep DEF TypeOK
<1>1. now <= now'
  BY <1>0, MintMoves, RedeemMoves, OtherMoves DEF Next
<1>2. CASE token'[c] = token[c]
  BY <1>0, <1>1, <1>2 DEF Spent, Live
<1>3. CASE \E m \in Minter : MintStep(m)
  <2>1. PICK m \in Minter : MintStep(m)
    BY <1>3
  <2>2. CASE mpc[m] = "setnx" /\ StoreToken(m)
    <3>1. token'[c] = token[c] \/ token'[c].session = Row(m)
      BY <2>2 DEF StoreToken, TypeOK
    <3>2. s # Row(m)
      BY <2>2 DEF Home, Row
    <3> QED
      BY <1>2, <3>1, <3>2
  <2> QED
    BY <1>2, <2>1, <2>2, MintMoves
<1>4. CASE \E k \in Redeemer : RedeemStep(k)
  <2>1. token'[c] = token[c] \/ token'[c] = Absent
    BY <1>4, RedeemMoves
  <2> QED
    BY <1>0, <1>2, <2>1 DEF Live, Absent
<1> QED
  BY <1>2, <1>3, <1>4, OtherMoves DEF Next, redisVars

LEMMA SpentInit == HistInit => SpentInv
BY DEF HistInit, Init, SpentInv, Spent

\* A row is active or ended because it was, or because a Redeem activates it.
LEMMA ActiveFrom ==
  ASSUME TypeOK, [Next]_vars, NEW s \in Session, status'[s] \in {"active", "ended"}
  PROVE  \/ status[s] \in {"active", "ended"}
         \/ \E k \in Redeemer : rpc[k] = "activate" /\ s = rec[k]
<1>0. status \in [Session -> Status]
  BY DEF TypeOK
<1>1. CASE \E m \in Minter : MintStep(m)
  <2>1. PICK m \in Minter : MintStep(m)
    BY <1>1
  <2>2. \/ status' = status
        \/ status' = [status EXCEPT ![Row(m)] = "pending"]
        \/ status' = [status EXCEPT ![Row(m)] = "deleted"]
    BY <2>1 DEF MintStep, InsertRow, SetNX, DeleteRow, MintFails, MintResend, AddRow, dbVars
  <2> QED
    BY <1>0, <2>2
<1>2. CASE \E k \in Redeemer : RedeemStep(k)
  <2>1. PICK k \in Redeemer : RedeemStep(k)
    BY <1>2
  <2>2. status' = status \/ (rpc[k] = "activate" /\ ActivateRow(k))
    BY <2>1 DEF RedeemStep, Get, Incr, Expire, Burn, Consume, Activate, RedeemFails, RedeemResend, dbVars
  <2> QED
    BY <1>0, <2>2 DEF ActivateRow
<1>3. CASE \E e \in Session : MarkEnded(e)
  BY <1>0, <1>3 DEF MarkEnded, MayEnd
<1>4. CASE ExpireStalePending
  BY <1>0, <1>4 DEF ExpireStalePending
<1>5. CASE Tick \/ UNCHANGED vars
  BY <1>5 DEF Tick, vars, dbVars
<1> QED
  BY <1>1, <1>2, <1>3, <1>4, <1>5 DEF Next

\* A Consume that removed the token, or found it dead, leaves none behind: the
\* row's token is under no other connect id.
LEMMA ConsumeSpends ==
  ASSUME TypeOK, HomeInv, NEW k \in Redeemer, Consume(k), NEW s, s = rec[k],
         s \notin resent, ~(Live(rid[k]) /\ UNCHANGED redisVars)
  PROVE  Spent(s)'
<1> SUFFICES ASSUME NEW c \in ConnectID, Live(c)', token'[c].session = s PROVE FALSE
  BY DEF Spent
<1>1. rid[k] \in ConnectID /\ now' = now /\ Home(s, rid[k])
  BY DEF Consume, HomeInv, RedeemInFlight, TypeOK
<1>2. now \in Nat /\ token[c].exp \in Nat
  BY DEF TypeOK
<1>3. ASSUME token'[c] = token[c] PROVE c = rid[k] /\ Live(rid[k])
  <2>1. Live(c) /\ token[c].exp > 0
    BY <1>1, <1>2, <1>3 DEF Live
  <2>2. Home(s, c)
    BY <1>3, <2>1 DEF HomeInv
  <2> QED
    BY <1>1, <2>1, <2>2 DEF Home
<1>4. CASE UNCHANGED redisVars
  BY <1>3, <1>4 DEF redisVars
<1>5. CASE Invalidate(rid[k])
  <2>1. c = rid[k] => token'[c] = Absent
    BY <1>1, <1>5 DEF Invalidate, TypeOK
  <2>2. c # rid[k] => token'[c] = token[c]
    BY <1>1, <1>5 DEF Invalidate, TypeOK
  <2> QED
    BY <1>1, <1>2, <1>3, <2>1, <2>2 DEF Live, Absent
<1> QED
  BY <1>4, <1>5 DEF Consume

\* Where a Redeem about to activate comes from.
LEMMA ActivateFrom ==
  ASSUME TypeOK, [Next]_vars, NEW k \in Redeemer, rpc'[k] = "activate"
  PROVE  rec'[k] = rec[k] /\ (rpc[k] = "activate" \/ (rpc[k] = "consume" /\ Consume(k)))
<1>1. CASE \E x \in Redeemer : RedeemStep(x)
  <2>1. PICK x \in Redeemer : RedeemStep(x)
    BY <1>1
  <2>2. CASE x = k
    BY <2>1, <2>2 DEF RedeemStep, Get, Incr, Expire, Burn, Consume, Activate, RedeemFails,
       RedeemResend, redeemVars, Compare, TypeOK
  <2>3. CASE x # k
    BY <2>1, <2>3, RedeemMoves
  <2> QED
    BY <2>2, <2>3
<1>2. CASE UNCHANGED redeemVars
  BY <1>2 DEF redeemVars
<1> QED
  BY <1>1, <1>2, MintMoves, OtherMoves DEF Next

LEMMA SpentStep ==
  ASSUME TypeOK, HomeInv, SpentInv, [HistNext]_<<vars, delLost, late>> PROVE SpentInv'
<1>1. [Next]_vars /\ resent \subseteq resent'
  <2>1. [Next]_vars
    BY DEF HistNext
  <2> QED
    BY <2>1, ResentGrows
<1> SUFFICES ASSUME ~delLost'
             PROVE  /\ \A s \in Session \ resent' : status'[s] \in {"active", "ended"} =>
                         Spent(s)' /\ \E c \in ConnectID : Home(s, c)'
                    /\ \A k \in Redeemer :
                         rpc'[k] = "activate" /\ rec'[k] \notin resent' => Spent(rec[k])'
  BY DEF SpentInv
<1>2. ~delLost
  BY Zenon DEF HistNext
<1>3. ASSUME NEW k \in Redeemer, rpc[k] = "consume", rpc'[k] = "activate"
      PROVE  ~(Live(rid[k]) /\ UNCHANGED redisVars)
  <2>1. ~ConsumedInVain
    <3>1. CASE HistNext
      BY <3>1, Zenon DEF HistNext
    <3>2. CASE UNCHANGED vars
      BY <1>3, <3>2 DEF vars, redeemVars
    <3> QED
      BY <3>1, <3>2
  <2> QED
    BY <1>3, <2>1 DEF ConsumedInVain
<1>4. ASSUME NEW s \in Session \ resent', status'[s] \in {"active", "ended"}
      PROVE  Spent(s)' /\ \E c \in ConnectID : Home(s, c)'
  <2>1. Spent(s) /\ \E c \in ConnectID : Home(s, c)
    <3>1. CASE status[s] \in {"active", "ended"}
      BY <1>1, <1>2, <3>1 DEF SpentInv
    <3>2. CASE \E k \in Redeemer : rpc[k] = "activate" /\ s = rec[k]
      BY <1>1, <1>2, <3>2 DEF SpentInv, HomeInv, RedeemInFlight, TypeOK
    <3> QED
      BY <1>1, <1>4, <3>1, <3>2, ActiveFrom
  <2>2. PICK c \in ConnectID : Home(s, c)
    BY <2>1
  <2> QED
    BY <1>1, <2>1, <2>2, SpentStable, HomeStable
<1>5. ASSUME NEW k \in Redeemer, rpc'[k] = "activate", rec'[k] \notin resent'
      PROVE  Spent(rec[k])'
  <2>1. PICK s : s = rec[k]
    OBVIOUS
  <2>2. rec'[k] = s /\ (rpc[k] = "activate" \/ (rpc[k] = "consume" /\ Consume(k)))
    BY <1>1, <1>5, <2>1, ActivateFrom
  <2>3. s \notin resent /\ Home(s, rid[k])
    BY <1>1, <1>5, <2>1, <2>2 DEF HomeInv, RedeemInFlight
  <2>4. Spent(s)'
    <3>1. CASE rpc[k] = "activate"
      BY <1>1, <1>2, <2>1, <2>3, <3>1, SpentStable DEF SpentInv
    <3>2. CASE rpc[k] = "consume" /\ Consume(k)
      BY <1>3, <1>5, <2>1, <2>3, <3>2, ConsumeSpends
    <3> QED
      BY <2>2, <3>1, <3>2
  <2> QED
    BY <2>2, <2>4 DEF Spent
<1> QED
  BY <1>4, <1>5

\* Single use, as far as it goes: once a session was activated no redeem can
\* start on its token, unless the DEL of the redeem that activated it was lost.
THEOREM ActivatedTokensAreGone == HistSpec => []ActiveSessionHasNoToken
<1>1. HistInit => TypeOK /\ HomeInv
  BY TypeInit, HomeInit DEF HistInit
<1>2. [HistNext]_<<vars, delLost, late>> => [Next]_vars
  BY DEF HistNext
<1>3. ASSUME TypeOK, HomeInv, SpentInv PROVE ActiveSessionHasNoToken
  <2> SUFFICES ASSUME ~delLost, NEW c \in ConnectID, Live(c), token[c].session \notin resent,
                      status[token[c].session] \in {"active", "ended"}
               PROVE  FALSE
    BY DEF ActiveSessionHasNoToken
  <2>1. token[c].exp > 0
    BY <1>3 DEF Live, TypeOK
  <2>2. token[c].session \in Session
    BY <1>3, <2>1 DEF HomeInv, Home
  <2> QED
    BY <1>3, <2>2 DEF SpentInv, Spent
<1> QED
  BY <1>1, <1>2, <1>3, SpentInit, TypeStep, HomeStep, SpentStep, PTL DEF HistSpec

-----------------------------------------------------------------------------
(* How far the comparisons can go once the token is gone. *)

\* Once the token of a row is gone, under a connect id not used again, each
\* comparison beyond the limit was owed to a redeem that waited when it went.
LateInv ==
  \A s \in Session \ resent, c \in ConnectID :
    Home(s, c) /\ uses[c] <= 1 /\ Spent(s) =>
      compared[s] + Cardinality(Waiting(s)) <= MaxRedeemTries + Cardinality(late[s])

LateType == late \in [Session -> SUBSET Redeemer]

\* The redeems that waited, now or when a token went, can be counted.
LEMMA Countable ==
  ASSUME NEW W \in SUBSET Redeemer
  PROVE  IsFiniteSet(W) /\ Cardinality(W) \in Nat
BY RedeemerAssumption, FS_Subset, FS_CardinalityType

LEMMA LateTypeStep ==
  ASSUME LateType, [HistNext]_<<vars, delLost, late>> PROVE LateType'
<1>1. \A s : Waiting(s)' \in SUBSET Redeemer
  BY DEF Waiting
<1> QED
  BY <1>1 DEF LateType, HistNext

\* A comparison is the last thing a waiting redeem does to its token, and it
\* leaves the token and the time alone.
LEMMA CompareLeaves ==
  ASSUME TypeOK, NEW k \in Redeemer, RedeemStep(k), NEW s \in Session, compared'[s] # compared[s]
  PROVE  /\ compared'[s] = compared[s] + 1 /\ token' = token
         /\ k \in Waiting(s) /\ k \notin Waiting(s)'
<1>1. Incr(k) \/ Expire(k)
  BY DEF RedeemStep, Get, Burn, Consume, Activate, RedeemFails, RedeemResend
<1>2. rpc[k] \in {"incr", "expire"} /\ token' = token /\ Compare(k)
  BY <1>1 DEF Incr, Expire
<1>3. rec[k] = s /\ compared'[s] = compared[s] + 1
  BY <1>2 DEF Compare, TypeOK
<1>4. rpc'[k] \in {"consume", "invalid"}
  BY <1>2 DEF Compare, TypeOK
<1> QED
  BY <1>2, <1>3, <1>4 DEF Waiting

\* A redeem that waits for the token of s did so before, or has just read it.
LEMMA WaitingFrom ==
  ASSUME TypeOK, [Next]_vars, NEW s, NEW k \in Redeemer, k \in Waiting(s)'
  PROVE  \/ k \in Waiting(s)
         \/ Live(rid[k]) /\ token[rid[k]].session = s
<1>1. CASE \E x \in Redeemer : RedeemStep(x)
  <2>1. PICK x \in Redeemer : RedeemStep(x)
    BY <1>1
  <2>2. CASE x = k
    <3>1. CASE Get(k)
      BY <3>1 DEF Get, Waiting, TypeOK
    <3>2. CASE ~Get(k)
      BY <2>1, <2>2, <3>2 DEF RedeemStep, Incr, Expire, Burn, Consume, Activate, RedeemFails,
         RedeemResend, redeemVars, Compare, Waiting, TypeOK
    <3> QED
      BY <3>1, <3>2
  <2>3. CASE x # k
    BY <2>1, <2>3, RedeemMoves DEF Waiting
  <2> QED
    BY <2>2, <2>3
<1>2. CASE UNCHANGED redeemVars
  BY <1>2 DEF redeemVars, Waiting
<1> QED
  BY <1>1, <1>2, MintMoves, OtherMoves DEF Next

\* A step that compares a PIN with s is a redeem's.
LEMMA ComparesFrom ==
  ASSUME TypeOK, [Next]_vars, NEW s \in Session, compared'[s] # compared[s]
  PROVE  \E k \in Redeemer : RedeemStep(k)
BY MintMoves, OtherMoves DEF Next

LEMMA UsesGrow == ASSUME TypeOK, [Next]_vars, NEW c \in ConnectID PROVE uses[c] <= uses'[c]
<1>1. \/ uses' = uses
      \/ \E m \in Minter : StoreToken(m)
  BY MintMoves, RedeemMoves, OtherMoves DEF Next
<1>2. ASSUME NEW m \in Minter, StoreToken(m) PROVE uses[c] <= uses'[c]
  BY <1>2 DEF StoreToken, TypeOK
<1> QED
  BY <1>1, <1>2 DEF TypeOK

\* A row whose Mint has just ended: nobody has read its token yet.
LEMMA LateFresh ==
  ASSUME TypeOK, HomeInv, [Next]_vars, NEW s \in Session \ resent', NEW c \in ConnectID,
         Home(s, c)', ~Home(s, c)
  PROVE  compared'[s] = 0 /\ Waiting(s)' = {}
<1>0. s \notin resent
  BY ResentGrows
<1>1. \A d : ~Home(s, d)
  <2> SUFFICES ASSUME NEW d, Home(s, d) PROVE d = c
    OBVIOUS
  <2>1. Home(s, d)'
    BY HomeStable
  <2> QED
    BY <2>1 DEF Home
<1>2. compared[s] = 0 /\ \A k \in Redeemer : RedeemInFlight(k) => rec[k] # s
  BY <1>0, <1>1 DEF HomeInv
<1>3. Waiting(s) = {}
  BY <1>2 DEF Waiting, RedeemInFlight
<1>4. compared'[s] = 0
  BY <1>2, <1>3, ComparesFrom, CompareLeaves
<1>5. ASSUME NEW k \in Waiting(s)' PROVE FALSE
  <2>1. k \in Redeemer
    BY <1>5 DEF Waiting
  <2>2. Live(rid[k]) /\ token[rid[k]].session = s
    BY <1>3, <1>5, <2>1, WaitingFrom
  <2>3. rid[k] \in ConnectID /\ token[rid[k]].exp > 0
    BY <2>1, <2>2 DEF Live, TypeOK
  <2> QED
    BY <1>0, <1>1, <2>2, <2>3 DEF HomeInv
<1> QED
  BY <1>4, <1>5

\* The token is gone already: nobody starts to wait, and who compares stops
\* waiting.
LEMMA LateShrinks ==
  ASSUME TypeOK, [Next]_vars, NEW s \in Session, Spent(s)
  PROVE  compared'[s] + Cardinality(Waiting(s)') <= compared[s] + Cardinality(Waiting(s))
<1>0. compared[s] \in Nat /\ compared'[s] \in Nat
  BY TypeStep DEF TypeOK
<1>1. Waiting(s) \in SUBSET Redeemer /\ Waiting(s)' \in SUBSET Redeemer
  BY DEF Waiting
<1>2. Waiting(s)' \subseteq Waiting(s)
  BY <1>1, WaitingFrom DEF Spent, TypeOK
<1>3. /\ IsFiniteSet(Waiting(s)) /\ Cardinality(Waiting(s)) \in Nat
      /\ Cardinality(Waiting(s)') \in Nat /\ Cardinality(Waiting(s)') <= Cardinality(Waiting(s))
  BY <1>1, <1>2, Countable, FS_Subset
<1>4. CASE compared'[s] = compared[s]
  BY <1>0, <1>3, <1>4
<1>5. CASE compared'[s] # compared[s]
  <2>1. PICK k \in Redeemer : RedeemStep(k)
    BY <1>5, ComparesFrom
  <2>2. compared'[s] = compared[s] + 1 /\ k \in Waiting(s) /\ k \notin Waiting(s)'
    BY <1>5, <2>1, CompareLeaves
  <2>3. Waiting(s)' \subseteq Waiting(s) \ {k}
    BY <1>2, <2>2
  <2>4. /\ IsFiniteSet(Waiting(s) \ {k})
        /\ Cardinality(Waiting(s) \ {k}) = Cardinality(Waiting(s)) - 1
    BY <1>3, <2>2, FS_RemoveElement
  <2>5. Cardinality(Waiting(s)') <= Cardinality(Waiting(s)) - 1
    BY <2>3, <2>4, FS_Subset
  <2> QED
    BY <1>0, <1>3, <2>2, <2>5
<1> QED
  BY <1>4, <1>5

\* The token of s lives: its comparisons are within the limit.
LEMMA LiveWithin ==
  ASSUME TypeOK, HomeInv, AttemptInv, NEW s \in Session \ resent, NEW c \in ConnectID,
         Home(s, c), uses[c] <= 1, ~Spent(s)
  PROVE  compared[s] <= MaxRedeemTries
<1>1. PICK d \in ConnectID : Live(d) /\ token[d].session = s
  BY DEF Spent
<1>2. token[d].exp > 0
  BY <1>1 DEF Live, TypeOK
<1>3. d = c
  BY <1>1, <1>2 DEF HomeInv, Home
<1>4. uses[c] # 0
  BY <1>2, <1>3 DEF AttemptInv, Untouched
<1>5. uses[c] = 1
  <2>1. uses[c] \in Nat
    BY DEF TypeOK
  <2> QED
    BY <1>4, <2>1
<1> QED
  BY <1>1, <1>3, <1>5 DEF AttemptInv, Counted

\* The token of s goes: late remembers who waits.
LEMMA LateBegins ==
  ASSUME TypeOK, [HistNext]_<<vars, delLost, late>>, NEW s \in Session, ~Spent(s), Spent(s)'
  PROVE  late'[s] = Waiting(s)' /\ compared'[s] = compared[s]
<1>1. [Next]_vars
  BY DEF HistNext
<1>2. ASSUME token' = token, now' = now PROVE FALSE
  BY <1>2 DEF Spent, Live
<1>3. HistNext
  BY <1>2 DEF vars, redisVars
<1>4. late'[s] = Waiting(s)'
  BY <1>3 DEF HistNext
<1>5. compared'[s] = compared[s]
  BY <1>1, <1>2, ComparesFrom, CompareLeaves, RedeemMoves
<1> QED
  BY <1>4, <1>5

LEMMA LateInit == HistInit => LateType /\ LateInv
BY DEF HistInit, Init, LateType, LateInv, Home, Session

LEMMA LateStep ==
  ASSUME TypeOK, HomeInv, AttemptInv, LateType, LateInv, [HistNext]_<<vars, delLost, late>>
  PROVE  LateInv'
<1>1. [Next]_vars /\ resent \subseteq resent'
  <2>1. [Next]_vars
    BY DEF HistNext
  <2> QED
    BY <2>1, ResentGrows
<1> SUFFICES ASSUME NEW s \in Session \ resent', NEW c \in ConnectID,
                    Home(s, c)', uses'[c] <= 1, Spent(s)'
             PROVE  compared'[s] + Cardinality(Waiting(s)')
                      <= MaxRedeemTries + Cardinality(late'[s])
  BY DEF LateInv
<1>2. LateType' /\ TypeOK'
  BY <1>1, LateTypeStep, TypeStep
<1>3. late[s] \in SUBSET Redeemer /\ late'[s] \in SUBSET Redeemer
  BY <1>2 DEF LateType
<1>4. Waiting(s) \in SUBSET Redeemer /\ Waiting(s)' \in SUBSET Redeemer
  BY DEF Waiting
<1>5. /\ Cardinality(late[s]) \in Nat /\ Cardinality(late'[s]) \in Nat
      /\ Cardinality(Waiting(s)) \in Nat /\ Cardinality(Waiting(s)') \in Nat
      /\ compared[s] \in Nat /\ compared'[s] \in Nat /\ MaxRedeemTries \in Nat
  BY <1>2, <1>3, <1>4, Countable, TriesAssumption DEF TypeOK
<1>6. uses[c] <= 1
  BY <1>1, <1>2, UsesGrow DEF TypeOK
<1>7. CASE ~Home(s, c)
  <2>1. compared'[s] = 0 /\ Waiting(s)' = {}
    BY <1>1, <1>7, LateFresh
  <2>2. Cardinality(Waiting(s)') = 0
    BY <2>1, FS_EmptySet
  <2> QED
    BY <1>5, <2>1, <2>2
<1>8. CASE Home(s, c) /\ Spent(s)
  <2>1. compared[s] + Cardinality(Waiting(s)) <= MaxRedeemTries + Cardinality(late[s])
    BY <1>1, <1>6, <1>8 DEF LateInv
  <2>2. late'[s] = late[s]
    BY <1>8 DEF HistNext, LateType
  <2>3. compared'[s] + Cardinality(Waiting(s)') <= compared[s] + Cardinality(Waiting(s))
    BY <1>1, <1>8, LateShrinks
  <2> QED
    BY <1>5, <2>1, <2>2, <2>3
<1>9. CASE Home(s, c) /\ ~Spent(s)
  <2>1. compared[s] <= MaxRedeemTries
    BY <1>1, <1>6, <1>9, LiveWithin
  <2>2. late'[s] = Waiting(s)' /\ compared'[s] = compared[s]
    BY <1>9, LateBegins
  <2> QED
    BY <1>5, <2>1, <2>2
<1> QED
  BY <1>7, <1>8, <1>9

\* Under a connect id not used before, a session sees at most MaxRedeemTries PIN
\* comparisons and one more for each redeem that had read the token and not yet
\* compared when it was burned, consumed or expired: INCR counting from one again
\* after the DEL of the counter lets no later redeem in.
THEOREM AttemptsAreBounded == HistSpec => []OverrunBounded
<1>1. HistInit => TypeOK /\ HomeInv /\ AttemptInv
  BY TypeInit, HomeInit DEF HistInit
<1>2. [HistNext]_<<vars, delLost, late>> => [Next]_vars
  BY DEF HistNext
<1>3. ASSUME TypeOK, HomeInv, AttemptInv, LateType, LateInv PROVE OverrunBounded
  <2> SUFFICES ASSUME NEW m \in Minter, uses[mid[m]] = 1, NEW s, s = Row(m), s \notin resent
               PROVE  compared[s] <= MaxRedeemTries + Cardinality(late[s])
    BY DEF OverrunBounded
  <2>1. s \in Session /\ mid[m] \in ConnectID
    BY <1>3, RowType DEF TypeOK
  <2>2. late[s] \in SUBSET Redeemer /\ Waiting(s) \in SUBSET Redeemer
    BY <1>3, <2>1 DEF LateType, Waiting
  <2>3. /\ Cardinality(late[s]) \in Nat /\ Cardinality(Waiting(s)) \in Nat
        /\ compared[s] \in Nat /\ MaxRedeemTries \in Nat
    BY <1>3, <2>1, <2>2, Countable, TriesAssumption DEF TypeOK
  <2>4. CASE compared[s] = 0
    BY <2>3, <2>4
  <2>5. CASE compared[s] # 0
    <3>1. PICK c \in ConnectID : Home(s, c)
      BY <1>3, <2>1, <2>5 DEF HomeInv
    <3>2. c = mid[m]
      BY <3>1 DEF Home, Row
    <3>3. CASE Spent(s)
      <4>1. compared[s] + Cardinality(Waiting(s)) <= MaxRedeemTries + Cardinality(late[s])
        BY <1>3, <2>1, <3>1, <3>2, <3>3 DEF LateInv
      <4> QED
        BY <2>3, <4>1
    <3>4. CASE ~Spent(s)
      <4>1. compared[s] <= MaxRedeemTries
        BY <1>3, <2>1, <3>1, <3>2, <3>4, LiveWithin
      <4> QED
        BY <2>3, <4>1
    <3> QED
      BY <3>3, <3>4
  <2> QED
    BY <2>4, <2>5
<1> QED
  BY <1>1, <1>2, <1>3, LateInit, TypeStep, HomeStep, AttemptStep, LateTypeStep, LateStep, PTL
     DEF HistSpec
=============================================================================
