----------------------------- MODULE Migrations -----------------------------
(***************************************************************************)
(* Store.Migrate (internal/store) run by replicas that start together: no  *)
(* lock is taken around the loop, so replicas race on every statement and  *)
(* rely on Postgres' transactions, on the locks DDL takes until commit and *)
(* on the primary key of schema_migrations.  A replica whose Migrate fails *)
(* exits and is started again by its supervisor.                           *)
(***************************************************************************)
EXTENDS Integers, FiniteSets

CONSTANTS
  Replica,     \* server processes
  N,           \* the migrations 1..N, in lexical order of their names
  Idempotent,  \* scripts that succeed when their effect is already there
  MaxFaults    \* bound: failed statements and crashes

Script == 1..N

ASSUME ScriptAssumption == N \in Nat \ {0} /\ Idempotent \subseteq Script
ASSUME FaultsAssumption == MaxFaults \in Nat

VARIABLES
  table,     \* schema_migrations exists
  effects,   \* effects[m]: times script m's effects were committed
  recorded,  \* committed rows of schema_migrations
  pc,        \* where a replica stands
  next,      \* its loop's position
  tx,        \* its open transaction: "none", "applied" or "noop"
  faults     \* faults so far

vars == <<table, effects, recorded, pc, next, tx, faults>>

Init ==
  /\ table = FALSE /\ recorded = {} /\ faults = 0
  /\ effects = [m \in Script |-> 0]
  /\ pc = [r \in Replica |-> "down"]
  /\ next = [r \in Replica |-> 1]
  /\ tx = [r \in Replica |-> "none"]

Goto(r, l) == pc' = [pc EXCEPT ![r] = l]

\* Migrate returns an error and run exits, which rolls the transaction back.
Exit(r) ==
  /\ Goto(r, "down")
  /\ next' = [next EXCEPT ![r] = 1]
  /\ tx' = [tx EXCEPT ![r] = "none"]

\* Open succeeds.
Open(r) ==
  /\ pc[r] = "down"
  /\ Goto(r, "ensure")
  /\ UNCHANGED <<table, effects, recorded, next, tx, faults>>

\* Any statement may fail and the process may die at any point before it serves.
Fault(r) ==
  /\ pc[r] \notin {"down", "ready"} /\ faults < MaxFaults
  /\ faults' = faults + 1
  /\ Exit(r)
  /\ UNCHANGED <<table, effects, recorded>>

\* CREATE TABLE IF NOT EXISTS looks, then creates, and fails when another
\* replica's table appeared in between.
EnsureLook(r) ==
  /\ pc[r] = "ensure"
  /\ Goto(r, IF table THEN "check" ELSE "create")
  /\ UNCHANGED <<table, effects, recorded, next, tx, faults>>

EnsureCreate(r) ==
  /\ pc[r] = "create"
  /\ \/ table /\ Exit(r) /\ UNCHANGED table
     \/ ~table /\ table' = TRUE /\ Goto(r, "check") /\ UNCHANGED <<next, tx>>
  /\ UNCHANGED <<effects, recorded, faults>>

\* The loop's head: done, or SELECT EXISTS for the next name.
More(i) == i <= N

Check(r) ==
  /\ pc[r] = "check"
  /\ \/ ~More(next[r]) /\ Goto(r, "ready") /\ UNCHANGED next
     \/ More(next[r]) /\ next[r] \in recorded
        /\ next' = [next EXCEPT ![r] = @ + 1] /\ UNCHANGED pc
     \/ More(next[r]) /\ next[r] \notin recorded /\ Goto(r, "apply") /\ UNCHANGED next
  /\ UNCHANGED <<table, effects, recorded, tx, faults>>

\* Another transaction holds the locks of this script until it ends.
Locked(r) ==
  \E q \in Replica \ {r} : tx[q] # "none" /\ next[q] = next[r]

\* BEGIN and the script.
ApplyAutocommit(r) ==
  LET m == next[r] IN
  /\ pc[r] = "apply" /\ ~Locked(r)
  /\ \/ effects[m] > 0 /\ m \notin Idempotent /\ Exit(r) /\ UNCHANGED effects
     \/ /\ effects[m] = 0 \/ m \in Idempotent
        /\ effects' = [effects EXCEPT ![m] = 1]
        /\ tx' = [tx EXCEPT ![r] = "noop"] /\ Goto(r, "record") /\ UNCHANGED next
  /\ UNCHANGED <<table, recorded, faults>>

Apply(r) ==
  LET m == next[r] IN
  /\ pc[r] = "apply" /\ ~Locked(r)
  /\ \/ effects[m] > 0 /\ m \notin Idempotent /\ Exit(r)
     \/ /\ effects[m] = 0 \/ m \in Idempotent
        /\ tx' = [tx EXCEPT ![r] = IF effects[m] = 0 THEN "applied" ELSE "noop"]
        /\ Goto(r, "record") /\ UNCHANGED next
  /\ UNCHANGED <<table, effects, recorded, faults>>

\* INSERT INTO schema_migrations: the primary key refuses a second row.
RecordConflict(r) == next[r] \in recorded

Record(r) ==
  /\ pc[r] = "record"
  /\ \/ RecordConflict(r) /\ Exit(r)
     \/ ~RecordConflict(r) /\ Goto(r, "commit") /\ UNCHANGED <<next, tx>>
  /\ UNCHANGED <<table, effects, recorded, faults>>

\* COMMIT makes the script's effects and its row visible together.
CommitEffects(r) ==
  /\ effects' = [effects EXCEPT ![next[r]] = IF tx[r] = "applied" THEN @ + 1 ELSE @]
  /\ recorded' = recorded \cup {next[r]}

Commit(r) ==
  /\ pc[r] = "commit"
  /\ CommitEffects(r)
  /\ tx' = [tx EXCEPT ![r] = "none"]
  /\ next' = [next EXCEPT ![r] = @ + 1]
  /\ Goto(r, "check")
  /\ UNCHANGED <<table, faults>>

\* The commit takes effect but its answer is lost: Migrate returns an error.
CommitAnswerLost(r) ==
  /\ pc[r] = "commit" /\ faults < MaxFaults
  /\ CommitEffects(r)
  /\ faults' = faults + 1
  /\ Exit(r)
  /\ UNCHANGED table

Step(r) == \/ Open(r) \/ EnsureLook(r) \/ EnsureCreate(r) \/ Check(r)
           \/ Apply(r) \/ Record(r) \/ Commit(r)

Next == \E r \in Replica : Step(r) \/ Fault(r) \/ CommitAnswerLost(r)

Spec == Init /\ [][Next]_vars

\* A replica keeps executing and is restarted when it exits.
FairSpec == Spec /\ \A r \in Replica : WF_vars(Step(r))

-----------------------------------------------------------------------------
(* Properties. *)

TypeOK ==
  /\ table \in BOOLEAN /\ faults \in 0..MaxFaults
  /\ effects \in [Script -> Nat] /\ recorded \subseteq Script
  /\ pc \in [Replica -> {"down", "ensure", "create", "check", "apply", "record",
                         "commit", "ready"}]
  /\ next \in [Replica -> 1..(N + 1)]
  /\ \A r \in Replica : pc[r] \in {"apply", "record", "commit"} => next[r] \in Script
  /\ tx \in [Replica -> {"none", "applied", "noop"}]

\* Whatever replicas race or fail, the committed schema is that of the first k
\* migrations, each applied exactly once, schema_migrations says so, and no
\* replica serves before the schema is complete.
SchemaIsPrefix ==
  \E k \in 0..N : /\ recorded = 1..k
                  /\ \A m \in Script : effects[m] = IF m <= k THEN 1 ELSE 0
                  /\ (\E r \in Replica : pc[r] = "ready") => k = N

\* Conflicts with other replicas make a replica exit, but each exit means some
\* migration was committed: every replica gets to serve.
EveryReplicaServes == \A r \in Replica : <>[](pc[r] = "ready")
=============================================================================
