---------------------------- MODULE StoreProofs ----------------------------
(***************************************************************************)
(* Proofs about what the server keeps in Postgres.                         *)
(*                                                                         *)
(* The schema: Migrations, for any replicas, any number of scripts, any of *)
(* them idempotent, and any number of faults.                              *)
(*                                                                         *)
(* The recordings: Recordings, for any requests, organizations, sessions   *)
(* and recordings, and any sizes clients report.                           *)
(***************************************************************************)
EXTENDS ServerStore, TLAPS

-----------------------------------------------------------------------------
(* The schema. *)

\* The committed schema without the conjunct about who serves.
Prefix ==
  \E k \in 0..N : /\ recorded = 1..k
                  /\ \A m \in Script : effects[m] = IF m <= k THEN 1 ELSE 0

\* A replica only moves past scripts that are recorded, and serves when it has
\* moved past all of them.
LoopInv ==
  \A r \in Replica : /\ \A m \in Script : m < next[r] => m \in recorded
                     /\ pc[r] = "ready" => next[r] = N + 1

\* A transaction is open from the script to the commit.  Only one replica has
\* one open for a script; what it changed is committed by nobody else; and it
\* gets past the primary key only with work of its own.
TxInv ==
  \A r \in Replica :
    /\ tx[r] # "none" <=> pc[r] \in {"record", "commit"}
    /\ tx[r] = "applied" => next[r] \notin recorded
    /\ pc[r] = "commit" => tx[r] = "applied"
    /\ tx[r] = "noop" => next[r] \in recorded
    /\ \A q \in Replica : tx[r] # "none" /\ tx[q] # "none" /\ next[q] = next[r] => q = r

IInv == TypeOK /\ Prefix /\ LoopInv /\ TxInv

-----------------------------------------------------------------------------
LEMMA InitInv == Init => IInv
<1> SUFFICES ASSUME Init PROVE IInv
  OBVIOUS
<1>1. TypeOK
  <2>1. table \in BOOLEAN /\ recorded \subseteq Script
    BY DEF Init
  <2>2. 0 \in 0..MaxFaults /\ 0 \in Nat /\ 1 \in 1..(N + 1)
    BY ScriptAssumption, FaultsAssumption
  <2> QED
    BY <2>1, <2>2 DEF Init, TypeOK
<1>2. Prefix
  <2>1. 0 \in 0..N /\ recorded = 1..0 /\ \A m \in Script : effects[m] = IF m <= 0 THEN 1 ELSE 0
    BY ScriptAssumption DEF Init, Script
  <2> QED
    BY <2>1 DEF Prefix
<1>3. LoopInv /\ TxInv
  BY ScriptAssumption DEF Init, LoopInv, TxInv, Script
<1> QED
  BY <1>1, <1>2, <1>3 DEF IInv

LEMMA CommitType ==
  ASSUME TypeOK, NEW r \in Replica, pc[r] = "commit", CommitEffects(r)
  PROVE  effects' \in [Script -> Nat] /\ recorded' \subseteq Script
<1>1. next[r] \in Script /\ effects[next[r]] + 1 \in Nat
  BY DEF TypeOK
<1> QED
  BY <1>1 DEF TypeOK, CommitEffects

LEMMA TypeStep == ASSUME TypeOK, [Next]_vars PROVE TypeOK'
<1> USE ScriptAssumption, FaultsAssumption DEF Goto, Exit
<1>1. ASSUME NEW r \in Replica, Open(r) \/ EnsureLook(r) \/ EnsureCreate(r) PROVE TypeOK'
  <2>1. table' \in BOOLEAN
    BY <1>1 DEF TypeOK, Open, EnsureLook, EnsureCreate
  <2>2. /\ UNCHANGED <<effects, recorded, faults>>
        /\ tx' = tx \/ tx' = [tx EXCEPT ![r] = "none"]
        /\ \E l \in {"ensure", "check", "create", "down"} : pc' = [pc EXCEPT ![r] = l]
        /\ next' = next \/ next' = [next EXCEPT ![r] = 1]
    BY <1>1 DEF Open, EnsureLook, EnsureCreate
  <2> QED
    BY <2>1, <2>2 DEF TypeOK, Script
<1>2. ASSUME NEW r \in Replica, Check(r) PROVE TypeOK'
  <2>1. next[r] \in 1..(N + 1) /\ (More(next[r]) <=> next[r] \in Script)
    BY <1>2 DEF TypeOK, More, Script
  <2>2. /\ UNCHANGED <<table, effects, recorded, tx, faults>>
        /\ \/ pc' = [pc EXCEPT ![r] = "ready"] /\ next' = next
           \/ next[r] \in Script /\ next' = [next EXCEPT ![r] = @ + 1] /\ pc' = pc /\ pc[r] = "check"
           \/ next[r] \in Script /\ pc' = [pc EXCEPT ![r] = "apply"] /\ next' = next
    BY <1>2, <2>1 DEF Check
  <2>3. next' \in [Replica -> 1..(N + 1)]
    <3>1. next \in [Replica -> 1..(N + 1)]
      BY DEF TypeOK
    <3>2. next[r] \in Script => next[r] + 1 \in 1..(N + 1)
      BY ONLY ScriptAssumption DEF Script
    <3>3. next' = next \/ \E v \in 1..(N + 1) : next' = [next EXCEPT ![r] = v]
      BY ONLY <2>2, <3>2
    <3> QED
      BY ONLY <3>1, <3>3
  <2> QED
    BY <2>2, <2>3 DEF TypeOK
<1>3. ASSUME NEW r \in Replica, Apply(r) \/ Record(r) PROVE TypeOK'
  <2>1. /\ UNCHANGED <<table, effects, recorded, faults>> /\ next[r] \in Script
        /\ \E t \in {"none", "applied", "noop"} : tx' = [tx EXCEPT ![r] = t]
        /\ \/ next' = next /\ \E l \in {"record", "commit"} : pc' = [pc EXCEPT ![r] = l]
           \/ next' = [next EXCEPT ![r] = 1] /\ pc' = [pc EXCEPT ![r] = "down"]
    BY <1>3 DEF Apply, Record, TypeOK
  <2> QED
    BY <2>1 DEF TypeOK
<1>4. ASSUME NEW r \in Replica, Commit(r) PROVE TypeOK'
  <2>1. next[r] + 1 \in 1..(N + 1)
    BY <1>4 DEF Commit, TypeOK, Script
  <2> QED
    BY <1>4, <2>1, CommitType DEF Commit, TypeOK
<1>5. ASSUME NEW r \in Replica, Fault(r) \/ CommitAnswerLost(r) PROVE TypeOK'
  <2>1. faults' \in 0..MaxFaults /\ effects' \in [Script -> Nat] /\ recorded' \subseteq Script
    BY <1>5, CommitType DEF Fault, CommitAnswerLost, TypeOK
  <2> QED
    BY <1>5, <2>1 DEF Fault, CommitAnswerLost, TypeOK
<1>6. CASE UNCHANGED vars
  BY <1>6 DEF vars, TypeOK
<1> QED
  BY <1>1, <1>2, <1>3, <1>4, <1>5, <1>6 DEF Next, Step

-----------------------------------------------------------------------------
(* The committed state only changes by a commit, which adds the next script. *)

\* What a commit does: the replica at it stands at the first script that is
\* not recorded, and has applied it once.
LEMMA CommitAddsNext ==
  ASSUME IInv, NEW r \in Replica, pc[r] = "commit", CommitEffects(r)
  PROVE  \E k \in 0..(N - 1) :
           /\ recorded = 1..k /\ recorded' = 1..(k + 1) /\ next[r] = k + 1
           /\ \A m \in Script : effects'[m] = IF m <= k + 1 THEN 1 ELSE 0
<1> USE ScriptAssumption DEF Script
<1>1. PICK k \in 0..N : /\ recorded = 1..k
                        /\ \A m \in Script : effects[m] = IF m <= k THEN 1 ELSE 0
  BY DEF IInv, Prefix
<1>2. next[r] \in Script /\ tx[r] = "applied" /\ next[r] \notin recorded
  BY DEF IInv, TypeOK, TxInv
<1>3. next[r] = k + 1 /\ k \in 0..(N - 1)
  <2>1. next[r] > k
    BY <1>1, <1>2
  <2>2. ~(next[r] > k + 1)
    <3> SUFFICES ASSUME next[r] > k + 1 PROVE FALSE
      OBVIOUS
    <3>1. k + 1 \in Script /\ k + 1 < next[r]
      BY <1>1, <1>2
    <3> QED
      BY <1>1, <3>1 DEF IInv, LoopInv
  <2> QED
    BY <1>2, <2>1, <2>2
<1>4. recorded' = 1..(k + 1)
  BY <1>1, <1>3 DEF CommitEffects
<1>5. \A m \in Script : effects'[m] = IF m <= k + 1 THEN 1 ELSE 0
  BY <1>1, <1>2, <1>3 DEF CommitEffects, IInv, TypeOK
<1> QED
  BY <1>1, <1>3, <1>4, <1>5

LEMMA CommittedUnchanged ==
  ASSUME [Next]_vars, ~\E r \in Replica : Commit(r) \/ CommitAnswerLost(r)
  PROVE  UNCHANGED <<effects, recorded>>
BY DEF Next, Step, Open, EnsureLook, EnsureCreate, Check, Apply, Record, Fault, vars

LEMMA PrefixStep == ASSUME IInv, [Next]_vars PROVE Prefix'
<1>1. ASSUME NEW r \in Replica, Commit(r) \/ CommitAnswerLost(r) PROVE Prefix'
  <2>1. PICK k \in 0..(N - 1) :
           /\ recorded' = 1..(k + 1)
           /\ \A m \in Script : effects'[m] = IF m <= k + 1 THEN 1 ELSE 0
    BY <1>1, CommitAddsNext DEF Commit, CommitAnswerLost
  <2>2. k + 1 \in 0..N
    BY ScriptAssumption
  <2> QED
    BY <2>1, <2>2 DEF Prefix
<1> QED
  BY <1>1, CommittedUnchanged DEF IInv, Prefix

LEMMA RecordedGrows == ASSUME IInv, [Next]_vars PROVE recorded \subseteq recorded'
<1>1. ASSUME NEW r \in Replica, Commit(r) \/ CommitAnswerLost(r) PROVE recorded \subseteq recorded'
  BY <1>1 DEF Commit, CommitAnswerLost, CommitEffects
<1> QED
  BY <1>1, CommittedUnchanged

-----------------------------------------------------------------------------
LEMMA LoopStep == ASSUME IInv, [Next]_vars PROVE LoopInv'
<1> SUFFICES ASSUME NEW q \in Replica
             PROVE  /\ \A m \in Script : m < next'[q] => m \in recorded'
                    /\ pc'[q] = "ready" => next'[q] = N + 1
  BY DEF LoopInv
<1> USE ScriptAssumption DEF Script, Goto, Exit
<1>0. /\ recorded \subseteq recorded'
      /\ \A m \in Script : m < next[q] => m \in recorded
      /\ pc[q] = "ready" => next[q] = N + 1
      /\ TypeOK
  BY RecordedGrows DEF IInv, LoopInv
<1>1. ASSUME NEW r \in Replica, Open(r) \/ EnsureLook(r) \/ EnsureCreate(r) \/ Fault(r)
             \/ Apply(r) \/ Record(r)
      PROVE  next'[q] \in {1, next[q]} /\ (pc'[q] = "ready" => pc[q] = "ready" /\ next'[q] = next[q])
  BY <1>0, <1>1 DEF Open, EnsureLook, EnsureCreate, Fault, Apply, Record, TypeOK
<1>2. ASSUME NEW r \in Replica, Check(r)
      PROVE  /\ next'[q] = next[q] \/ (next'[q] = next[q] + 1 /\ next[q] \in recorded)
             /\ pc'[q] = "ready" => next'[q] = N + 1
  BY <1>0, <1>2 DEF Check, More, TypeOK
<1>3. ASSUME NEW r \in Replica, Commit(r) \/ CommitAnswerLost(r)
      PROVE  /\ next'[q] \in {1, next[q]} \/ (next'[q] = next[q] + 1 /\ next[q] \in recorded')
             /\ pc'[q] = "ready" => pc[q] = "ready" /\ next'[q] = next[q]
  BY <1>0, <1>3 DEF Commit, CommitAnswerLost, CommitEffects, TypeOK
<1>4. CASE UNCHANGED vars
  BY <1>0, <1>4 DEF vars
<1>5. next[q] \in 1..(N + 1)
  BY <1>0 DEF TypeOK
<1> QED
  BY <1>0, <1>1, <1>2, <1>3, <1>4, <1>5 DEF Next, Step

\* What a step leaves of a replica that does not take it.
LEMMA OthersKept ==
  ASSUME TypeOK, NEW r \in Replica, Step(r) \/ Fault(r) \/ CommitAnswerLost(r),
         NEW q \in Replica, q # r
  PROVE  pc'[q] = pc[q] /\ next'[q] = next[q] /\ tx'[q] = tx[q]
BY DEF Step, Open, EnsureLook, EnsureCreate, Check, Apply, Record, Commit, Fault,
       CommitAnswerLost, Goto, Exit, TypeOK

\* What a step leaves of the replica that takes it: no open transaction, or one
\* that satisfies TxInv with the committed state as it was.
LEMMA OwnTx ==
  ASSUME IInv, NEW r \in Replica, Step(r) \/ Fault(r) \/ CommitAnswerLost(r)
  PROVE  \/ tx'[r] = "none" /\ pc'[r] \notin {"record", "commit"}
         \/ /\ tx'[r] # "none" /\ pc'[r] \in {"record", "commit"}
            /\ recorded' = recorded /\ next'[r] = next[r]
            /\ tx'[r] = "applied" => next[r] \notin recorded
            /\ tx'[r] = "noop" => next[r] \in recorded
            /\ pc'[r] = "commit" => tx'[r] = "applied"
            /\ tx[r] # "none" \/ ~Locked(r)
<1> USE ScriptAssumption DEF Script, Goto, Exit
<1>0. TypeOK /\ (tx[r] # "none" <=> pc[r] \in {"record", "commit"})
      /\ (tx[r] = "applied" => next[r] \notin recorded)
      /\ (tx[r] = "noop" => next[r] \in recorded)
  BY DEF IInv, TxInv
<1>1. CASE Open(r) \/ EnsureLook(r) \/ EnsureCreate(r) \/ Check(r)
  BY <1>0, <1>1 DEF Open, EnsureLook, EnsureCreate, Check, TypeOK
<1>2. CASE Fault(r) \/ Commit(r) \/ CommitAnswerLost(r)
  BY <1>0, <1>2 DEF Fault, Commit, CommitAnswerLost, TypeOK
<1>3. CASE Record(r)
  BY <1>0, <1>3 DEF Record, RecordConflict, TypeOK
<1>4. CASE Apply(r)
  <2>1. next[r] \in Script /\ pc[r] = "apply"
    BY <1>0, <1>4 DEF Apply, TypeOK
  <2>2. effects[next[r]] = 0 <=> next[r] \notin recorded
    <3>1. PICK k \in 0..N : /\ recorded = 1..k
                            /\ \A m \in Script : effects[m] = IF m <= k THEN 1 ELSE 0
      BY DEF IInv, Prefix
    <3> QED
      BY <2>1, <3>1
  <2>3. CASE Exit(r)
    BY <1>0, <2>3, <2>1 DEF TypeOK
  <2>4. CASE /\ tx' = [tx EXCEPT ![r] = IF effects[next[r]] = 0 THEN "applied" ELSE "noop"]
             /\ Goto(r, "record") /\ UNCHANGED next
    BY <1>0, <1>4, <2>1, <2>2, <2>4 DEF TypeOK, Apply
  <2> QED
    BY <1>4, <2>3, <2>4 DEF Apply
<1> QED
  BY <1>1, <1>2, <1>3, <1>4 DEF Step

LEMMA TxStep == ASSUME IInv, [Next]_vars PROVE TxInv'
<1>1. ASSUME NEW r \in Replica, Step(r) \/ Fault(r) \/ CommitAnswerLost(r) PROVE TxInv'
  <2> DEFINE Own(q) == /\ tx'[q] # "none" <=> pc'[q] \in {"record", "commit"}
                       /\ tx'[q] = "applied" => next'[q] \notin recorded'
                       /\ pc'[q] = "commit" => tx'[q] = "applied"
                       /\ tx'[q] = "noop" => next'[q] \in recorded'
  <2>1. \A q \in Replica \ {r} : pc'[q] = pc[q] /\ next'[q] = next[q] /\ tx'[q] = tx[q]
    BY <1>1, OthersKept DEF IInv
  <2>2. Own(r)
    BY <1>1, OwnTx
  <2>3. ASSUME NEW q \in Replica, q # r PROVE Own(q)
    <3>1. recorded \subseteq recorded'
      BY <1>1, RecordedGrows DEF Next
    <3>2. ASSUME tx[q] = "applied" PROVE next[q] \notin recorded'
      <4>1. next[q] \notin recorded
        BY <3>2 DEF IInv, TxInv
      <4>2. CASE Commit(r) \/ CommitAnswerLost(r)
        <5>1. tx[r] # "none" /\ recorded' = recorded \cup {next[r]}
          BY <4>2 DEF Commit, CommitAnswerLost, CommitEffects, IInv, TxInv
        <5>2. next[q] # next[r]
          BY <2>3, <3>2, <5>1 DEF IInv, TxInv
        <5> QED
          BY <4>1, <5>1, <5>2
      <4>3. CASE ~(Commit(r) \/ CommitAnswerLost(r))
        <5>1. recorded' = recorded
          BY <1>1, <4>3 DEF Step, Open, EnsureLook, EnsureCreate, Check, Apply, Record, Fault
        <5> QED
          BY <4>1, <5>1
      <4> QED
        BY <4>2, <4>3
    <3> QED
      BY <2>1, <2>3, <3>1, <3>2 DEF IInv, TxInv
  <2>4. ASSUME NEW p \in Replica, NEW q \in Replica,
               tx'[p] # "none", tx'[q] # "none", next'[q] = next'[p]
        PROVE  q = p
    <3>1. CASE p # r /\ q # r
      BY <2>1, <2>4, <3>1 DEF IInv, TxInv
    <3>2. ASSUME NEW s \in Replica \ {r}, tx'[r] # "none", tx'[s] # "none", next'[s] = next'[r]
          PROVE  FALSE
      <4>1. tx[s] # "none" /\ next[s] = next[r] /\ (tx[r] # "none" \/ ~Locked(r))
        BY <1>1, <2>1, <3>2, OwnTx
      <4> QED
        BY <4>1, <3>2 DEF Locked, IInv, TxInv
    <3> QED
      BY <2>4, <3>1, <3>2
  <2> QED
    BY <2>2, <2>3, <2>4 DEF TxInv
<1>2. CASE UNCHANGED vars
  BY <1>2 DEF vars, IInv, TxInv
<1> QED
  BY <1>1, <1>2 DEF Next

-----------------------------------------------------------------------------
LEMMA Invariance == Spec => []IInv
<1>1. ASSUME IInv, [Next]_vars PROVE IInv'
  BY <1>1, TypeStep, PrefixStep, LoopStep, TxStep DEF IInv
<1> QED
  BY <1>1, InitInv, PTL DEF Spec

\* The variables of Migrate and of the database keep their types.
THEOREM MigrationsTypeCorrect == Spec => []TypeOK
<1>1. IInv => TypeOK
  BY DEF IInv
<1> QED
  BY <1>1, Invariance, PTL

\* However many replicas run Migrate at once, and whatever fails, the schema is
\* that of a prefix of the scripts, each applied once and recorded, and it is
\* complete when somebody serves.
THEOREM SchemaIsAlwaysPrefix == Spec => []SchemaIsPrefix
<1>1. ASSUME IInv PROVE SchemaIsPrefix
  <2>1. PICK k \in 0..N : /\ recorded = 1..k
                          /\ \A m \in Script : effects[m] = IF m <= k THEN 1 ELSE 0
    BY <1>1 DEF IInv, Prefix
  <2>2. ASSUME NEW r \in Replica, pc[r] = "ready" PROVE k = N
    <3>1. N \in Script /\ N < next[r]
      BY <1>1, <2>2, ScriptAssumption DEF IInv, LoopInv, Script
    <3>2. N \in recorded
      BY <1>1, <3>1 DEF IInv, LoopInv
    <3> QED
      BY <2>1, <3>2, ScriptAssumption
  <2> QED
    BY <2>1, <2>2 DEF SchemaIsPrefix
<1> QED
  BY <1>1, Invariance, PTL

\* A replica exits only because of a fault, because another one created the
\* table after it looked, or because another one committed the script it was
\* about to apply or record; it will pass that script when it starts again.
ExitExcused(r) ==
  pc[r] # "down" /\ pc'[r] = "down" =>
    faults' > faults \/ (pc[r] = "create" /\ table) \/ next[r] \in recorded

\* A replica that waits for the locks of a script waits for one that does not
\* wait: the holder is past the script, at its INSERT or its COMMIT.
HolderMoves ==
  \A r \in Replica : pc[r] = "apply" /\ Locked(r) =>
    \E q \in Replica \ {r} : next[q] = next[r] /\ pc[q] \in {"record", "commit"}

LEMMA ExitStep == ASSUME IInv, [Next]_vars, NEW r \in Replica PROVE ExitExcused(r)
<1> SUFFICES ASSUME pc[r] # "down", pc'[r] = "down", ~(faults' > faults)
             PROVE  (pc[r] = "create" /\ table) \/ next[r] \in recorded
  BY DEF ExitExcused
<1>1. TypeOK /\ Prefix
  BY DEF IInv
<1>2. ~UNCHANGED vars
  BY DEF vars
<1>3. PICK q \in Replica : Step(q) \/ Fault(q) \/ CommitAnswerLost(q)
  BY <1>2 DEF Next
<1>4. ~Fault(q) /\ ~CommitAnswerLost(q)
  <2>1. faults \in Nat
    BY <1>1, FaultsAssumption DEF TypeOK
  <2> QED
    BY <2>1 DEF Fault, CommitAnswerLost
<1>5. q = r
  BY <1>1, <1>3, <1>4 DEF Step, Open, EnsureLook, EnsureCreate, Check, Apply, Record, Commit,
                          Exit, Goto, TypeOK
<1>6. CASE Open(r) \/ EnsureLook(r) \/ Check(r) \/ Commit(r)
  BY <1>1, <1>6 DEF Open, EnsureLook, Check, Commit, Goto, TypeOK
<1>7. CASE EnsureCreate(r)
  BY <1>1, <1>7 DEF EnsureCreate, Goto, TypeOK
<1>8. CASE Apply(r)
  <2>1. next[r] \in Script /\ effects[next[r]] > 0
    BY <1>1, <1>8 DEF Apply, Goto, TypeOK
  <2>2. PICK k \in 0..N : /\ recorded = 1..k
                          /\ \A m \in Script : effects[m] = IF m <= k THEN 1 ELSE 0
    BY <1>1 DEF Prefix
  <2> QED
    BY <2>1, <2>2, ScriptAssumption DEF Script
<1>9. CASE Record(r)
  BY <1>1, <1>9 DEF Record, RecordConflict, Goto, TypeOK
<1> QED
  BY <1>3, <1>4, <1>5, <1>6, <1>7, <1>8, <1>9 DEF Step

\* Replicas that start together make each other exit only by getting further
\* themselves (Migrate takes no lock around its loop): what EveryReplicaServes
\* rests on.
THEOREM ExitsAreExcused == Spec => [][\A r \in Replica : ExitExcused(r)]_vars
<1>1. IInv /\ [Next]_vars => [\A r \in Replica : ExitExcused(r)]_vars
  BY ExitStep
<1> QED
  BY <1>1, Invariance, PTL DEF Spec

\* And they never wait for each other in a circle.
THEOREM WaitsAreShort == Spec => []HolderMoves
<1>1. ASSUME IInv PROVE HolderMoves
  BY <1>1 DEF IInv, TxInv, HolderMoves, Locked
<1> QED
  BY <1>1, Invariance, PTL

-----------------------------------------------------------------------------
(* The recordings. *)

\* What a request is about to insert is drawn by no other request and has not
\* been inserted.
PendingInv ==
  \A q \in Req : pending[q] # None =>
    /\ pending[q].rec \in drawn /\ row[pending[q].rec] = None
    /\ \A p \in Req : pending[p] # None /\ pending[p].rec = pending[q].rec => p = q

\* A row comes from a drawn id, a URL or an object from a row.
RowInv ==
  \A x \in Rec : /\ row[x] # None => x \in drawn
                 /\ url[x] > 0 \/ x \in object => row[x] # None

\* A Complete that was answered with success left the row available.
OksInv ==
  \A x \in Rec : oks[x] > 0 => row[x] # None /\ row[x].status = "available"

RecInv == RecordingsTypeOK /\ PendingInv /\ RowInv /\ OksInv /\ FinalizedOnce

PendingType == [rec : Rec, session : Session, org : Org, exp : 0..(MaxNow + TTL)]

-----------------------------------------------------------------------------
LEMMA RecInit == ASSUME RecordingsInit PROVE RecInv
<1>1. 0 \in 0..MaxNow /\ 0 \in 0..(MaxNow + TTL)
  BY TimeAssumption
<1>2. RecordingsTypeOK
  BY <1>1 DEF RecordingsInit, RecordingsTypeOK
<1>3. PendingInv /\ RowInv /\ OksInv /\ FinalizedOnce
  BY DEF RecordingsInit, PendingInv, RowInv, OksInv, FinalizedOnce
<1> QED
  BY <1>2, <1>3 DEF RecInv

\* CreateUpload's check draws an id nobody has.
LEMMA CheckStep == ASSUME RecInv, NEW q \in Req, CreateUploadCheck(q) PROVE RecInv'
<1>1. PICK o \in Org, s \in Session, x \in Rec \ drawn :
        /\ drawn' = drawn \cup {x}
        /\ pending' = [pending EXCEPT ![q] = [rec |-> x, session |-> s, org |-> o, exp |-> now + TTL]]
        /\ UNCHANGED <<now, row, url, object, oks>>
  BY DEF CreateUploadCheck
<1>2. RecordingsTypeOK /\ PendingInv /\ RowInv /\ OksInv /\ FinalizedOnce
  BY DEF RecInv
<1>3. now + TTL \in 0..(MaxNow + TTL)
  BY <1>2, TimeAssumption DEF RecordingsTypeOK
<1>4. RecordingsTypeOK'
  BY <1>1, <1>2, <1>3 DEF RecordingsTypeOK
<1>5. RowInv' /\ OksInv' /\ FinalizedOnce'
  BY <1>1, <1>2 DEF RowInv, OksInv, FinalizedOnce
<1>6. PendingInv'
  <2> SUFFICES ASSUME NEW p \in Req, pending'[p] # None
               PROVE  /\ pending'[p].rec \in drawn' /\ row'[pending'[p].rec] = None
                      /\ \A r \in Req : pending'[r] # None /\ pending'[r].rec = pending'[p].rec => r = p
    BY DEF PendingInv
  <2>1. row[x] = None /\ \A p1 \in Req : pending[p1] # None => pending[p1].rec # x
    BY <1>1, <1>2 DEF RowInv, PendingInv
  <2>2. \A r \in Req : pending'[r] = IF r = q THEN [rec |-> x, session |-> s, org |-> o, exp |-> now + TTL]
                                     ELSE pending[r]
    BY <1>1, <1>2 DEF RecordingsTypeOK
  <2> QED
    BY <1>1, <1>2, <2>1, <2>2 DEF PendingInv
<1> QED
  BY <1>4, <1>5, <1>6 DEF RecInv

\* The INSERT, whatever the client is told, and the failure without effect.
LEMMA InsertStep ==
  ASSUME RecInv, NEW q \in Req, pending[q] # None,
         pending' = [pending EXCEPT ![q] = None],
         UNCHANGED <<now, drawn, object, oks>>,
         \/ InsertRow(pending[q]) /\ (url' = [url EXCEPT ![pending[q].rec] = pending[q].exp] \/ url' = url)
         \/ UNCHANGED <<row, url>>
  PROVE  RecInv'
<1>1. RecordingsTypeOK /\ PendingInv /\ RowInv /\ OksInv /\ FinalizedOnce
  BY DEF RecInv
<1> DEFINE x == pending[q].rec
           new == [session |-> pending[q].session, org |-> pending[q].org,
                   status |-> "pending", size |-> 0]
<1>2. pending[q] \in PendingType
  BY <1>1 DEF RecordingsTypeOK, PendingType
<1>3. x \in Rec /\ x \in drawn /\ row[x] = None /\ new \in Row /\ new # None
  <2>1. new \in Row
    BY <1>2, SizeAssumption DEF PendingType, Row
  <2>2. x \in Rec /\ x \in drawn /\ row[x] = None
    BY <1>1, <1>2 DEF PendingInv, PendingType
  <2> QED
    BY <2>1, <2>2, NoneAssumption
<1>4. /\ row' = [row EXCEPT ![x] = new] \/ row' = row
      /\ url' = url \/ (url' = [url EXCEPT ![x] = pending[q].exp] /\ row' = [row EXCEPT ![x] = new])
  BY DEF InsertRow
<1> HIDE DEF x, new
<1>5. RecordingsTypeOK'
  BY <1>1, <1>2, <1>3, <1>4 DEF RecordingsTypeOK, Row, PendingType
<1>6. oks[x] = 0
  BY <1>1, <1>3 DEF OksInv, RecordingsTypeOK
<1>7. \A y \in Rec : y # x => row'[y] = row[y] /\ url'[y] = url[y]
  BY <1>1, <1>4 DEF RecordingsTypeOK
<1>8. row'[x] \in {new, row[x]} /\ (url'[x] = url[x] \/ row'[x] = new)
  BY <1>1, <1>3, <1>4 DEF RecordingsTypeOK
<1>9. RowInv' /\ OksInv' /\ FinalizedOnce'
  BY <1>1, <1>3, <1>6, <1>7, <1>8 DEF RowInv, OksInv, FinalizedOnce, RecordingsTypeOK, new
<1>10. PendingInv'
  BY <1>1, <1>3, <1>7 DEF PendingInv, x, RecordingsTypeOK
<1> QED
  BY <1>5, <1>9, <1>10 DEF RecInv

\* A client's upload, Complete and the clock leave requests and ids alone.
LEMMA CompleteStep == ASSUME RecInv, NEW x \in Rec, Complete(x) PROVE RecInv'
<1>1. RecordingsTypeOK /\ PendingInv /\ RowInv /\ OksInv /\ FinalizedOnce
  BY DEF RecInv
<1>2. PICK o \in Org, n \in Size :
        /\ ValidSize(n) /\ MayComplete(x, o)
        /\ row' = [row EXCEPT ![x].status = "available", ![x].size = n]
  BY DEF Complete
<1>3. row[x] \in Row /\ row[x].status = "pending" /\ n \in 1..MaxSize
  BY <1>1, <1>2, SizeAssumption DEF MayComplete, ValidSize, RecordingsTypeOK, Row
<1>4. PICK new \in Row : new.status = "available" /\ new.size = n /\ row' = [row EXCEPT ![x] = new]
  <2> DEFINE r == row[x]
             w == [r EXCEPT !.status = "available", !.size = n]
  <2>1. n \in 0..MaxSize
    BY <1>3, SizeAssumption
  <2>2. r \in [session : Session, org : Org, status : {"pending", "available"}, size : 0..MaxSize]
    BY <1>3 DEF Row
  <2>3. row' = [row EXCEPT ![x] = w]
    BY <1>1, <1>2 DEF RecordingsTypeOK
  <2> HIDE DEF r
  <2>4. w \in Row /\ w.status = "available" /\ w.size = n
    BY <2>1, <2>2 DEF Row
  <2> QED
    BY <2>3, <2>4
<1>5. oks[x] = 0
  BY <1>1, <1>3 DEF OksInv, RecordingsTypeOK, Row
<1>6. oks' = oks \/ oks' = [oks EXCEPT ![x] = 1]
  BY <1>5, <1>1 DEF Complete, RecordingsTypeOK
<1>7. UNCHANGED <<now, drawn, pending, url, object>>
  BY DEF Complete
<1>8. new # None /\ row[x] # None
  BY <1>2, <1>4, NoneAssumption DEF MayComplete
<1>9. /\ \A y \in Rec : y # x => row'[y] = row[y] /\ oks'[y] = oks[y]
      /\ row'[x] = new /\ oks'[x] \in {0, 1}
  BY <1>1, <1>4, <1>5, <1>6 DEF RecordingsTypeOK
<1>10. RecordingsTypeOK'
  <2>1. row' \in [Rec -> {None} \cup Row]
    BY <1>1, <1>4 DEF RecordingsTypeOK
  <2>2. oks' \in [Rec -> Nat]
    BY <1>1, <1>6 DEF RecordingsTypeOK
  <2> QED
    BY <1>1, <1>7, <2>1, <2>2 DEF RecordingsTypeOK
<1>11. PendingInv'
  BY <1>1, <1>7, <1>8, <1>9 DEF PendingInv, RecordingsTypeOK
<1>12. RowInv' /\ OksInv'
  BY <1>1, <1>4, <1>7, <1>8, <1>9 DEF RowInv, OksInv
<1>13. FinalizedOnce'
  BY <1>1, <1>3, <1>4, <1>9 DEF FinalizedOnce
<1> QED
  BY <1>10, <1>11, <1>12, <1>13 DEF RecInv

LEMMA RecStep == ASSUME RecInv, [RecordingsNext]_recordingsVars PROVE RecInv'
<1>1. RecordingsTypeOK /\ PendingInv /\ RowInv /\ OksInv /\ FinalizedOnce
  BY DEF RecInv
<1>2. ASSUME NEW q \in Req, CreateUploadInsert(q) \/ CreateUploadError(q) PROVE RecInv'
  BY <1>2, InsertStep DEF CreateUploadInsert, CreateUploadError, HandOutOnError
<1>3. ASSUME NEW x \in Rec, Put(x) PROVE RecInv'
  <2>1. row[x] # None
    BY <1>1, <1>3 DEF RowInv, Put, RecordingsTypeOK
  <2> QED
    BY <1>1, <1>3, <2>1 DEF RecInv, RecordingsTypeOK, PendingInv, RowInv, OksInv, FinalizedOnce, Put
<1>4. CASE Tick
  <2>1. now' \in 0..MaxNow
    BY <1>1, <1>4, TimeAssumption DEF Tick, RecordingsTypeOK
  <2> QED
    BY <1>1, <1>4, <2>1 DEF RecInv, RecordingsTypeOK, PendingInv, RowInv, OksInv, FinalizedOnce, Tick
<1>5. CASE UNCHANGED recordingsVars
  BY <1>1, <1>5 DEF RecInv, RecordingsTypeOK, PendingInv, RowInv, OksInv, FinalizedOnce, recordingsVars
<1> QED
  BY <1>2, <1>3, <1>4, <1>5, CheckStep, CompleteStep DEF RecordingsNext

LEMMA RecInvariance == RecordingsSpec => []RecInv
<1>1. RecordingsInit => RecInv
  BY RecInit
<1>2. RecInv /\ [RecordingsNext]_recordingsVars => RecInv'
  BY RecStep
<1> QED
  BY <1>1, <1>2, PTL DEF RecordingsSpec

-----------------------------------------------------------------------------
\* Every object in the bucket belongs to a row, whatever statement of
\* CreateUpload fails and however long clients keep their URLs.
THEOREM ObjectsAreAccounted == RecordingsSpec => []ObjectsAccounted
<1>1. ASSUME RecInv PROVE ObjectsAccounted
  BY <1>1 DEF RecInv, RecordingsTypeOK, RowInv, ObjectsAccounted
<1>2. RecordingsSpec => []RecInv
  BY RecInvariance
<1> QED
  BY <1>1, <1>2, PTL

\* At most one Complete of a recording succeeds, with a valid size, however
\* many requests race or are retried.
THEOREM RecordingsAreFinalizedOnce == RecordingsSpec => []FinalizedOnce
<1>1. RecInv => FinalizedOnce
  BY DEF RecInv
<1>2. RecordingsSpec => []RecInv
  BY RecInvariance
<1> QED
  BY <1>1, <1>2, PTL

\* The variables of the recordings and the bucket keep their types.
THEOREM RecordingsTypeCorrect == RecordingsSpec => []RecordingsTypeOK
<1>1. RecInv => RecordingsTypeOK
  BY DEF RecInv
<1>2. RecordingsSpec => []RecInv
  BY RecInvariance
<1> QED
  BY <1>1, <1>2, PTL

-----------------------------------------------------------------------------
(* Both, in the server. *)

\* Replicas that migrate do not touch the recordings, and requests do not touch
\* the schema's bookkeeping: the server behaves as each part does alone.
LEMMA StoreParts == StoreSpec => Spec /\ RecordingsSpec
<1>1. StoreInit => Init /\ RecordingsInit
  BY DEF StoreInit
<1>2. [StoreNext]_storeVars => [Next]_vars /\ [RecordingsNext]_recordingsVars
  BY DEF StoreNext, storeVars
<1> QED
  BY <1>1, <1>2, PTL DEF StoreSpec, Spec, RecordingsSpec

\* Whoever runs Migrate, and whatever requests the replicas that listen serve
\* meanwhile, the schema is a prefix of the scripts, complete when one serves,
\* every object belongs to a row, and a recording is finalized once.
THEOREM StoreIsConsistent ==
  StoreSpec => [](SchemaIsPrefix /\ ObjectsAccounted /\ FinalizedOnce)
<1> QED
  BY StoreParts, SchemaIsAlwaysPrefix, ObjectsAreAccounted, RecordingsAreFinalizedOnce, PTL
=============================================================================
