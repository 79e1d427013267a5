---------------------------- MODULE SessionTokens ----------------------------
(***************************************************************************)
(* Connection tokens (internal/session): Mint and Redeem requests running  *)
(* concurrently against Redis (the token and its attempts counter, both    *)
(* with a time to live) and Postgres (the session row), the room-ended     *)
(* callback's MarkEnded, and the periodic sweep of stale pending rows.     *)
(*                                                                         *)
(* A request is a process.  Each action is one round trip to Redis or      *)
(* Postgres together with the local computation up to the next one; a      *)
(* round trip may fail with or without its effect, a command to Redis whose *)
(* answer is lost is sent again (go-redis' default retries), and a request  *)
(* may be abandoned between two of them (client gone, server stopped).      *)
(***************************************************************************)
EXTENDS Integers, FiniteSets

CONSTANTS
  Minter,           \* Mint requests
  Redeemer,         \* Redeem requests
  ConnectID,        \* values of randomDigits(connectIDDigits)
  Pin,              \* values of randomDigits(pinDigits)
  MintTries,        \* Mint's loop bound
  MaxRedeemTries,   \* maxRedeemTries
  TTL,              \* SESSION_TOKEN_TTL
  CutoffMultiplier, \* sweepStalePendingSessions' cutoffMultiplier
  MintLatency,      \* assumed: INSERT to SetNX takes at most this long
  RedeemLatency,    \* assumed: Get to UPDATE takes at most this long
  Skew,             \* assumed: the server's clock is this far ahead of Postgres'
  Failures,         \* whether round trips may fail
  NoSession,        \* no session
  MaxNow            \* bound: the last instant modelled

ASSUME TriesAssumption == MintTries \in Nat \ {0} /\ MaxRedeemTries \in Nat \ {0}
ASSUME TimeAssumption ==
  /\ TTL \in Nat \ {0} /\ MintLatency \in Nat /\ RedeemLatency \in Nat /\ Skew \in Nat
  /\ MaxNow \in Nat
ASSUME CutoffAssumption == CutoffMultiplier \in Nat
ASSUME RedeemerAssumption == IsFiniteSet(Redeemer)
ASSUME FailuresAssumption == Failures \in BOOLEAN
\* The margin the sweep's cutoff leaves beyond the token's life absorbs the
\* requests' latencies and the clocks' skew.
ASSUME SlackAssumption ==
  MintLatency + TTL + RedeemLatency + Skew <= CutoffMultiplier * TTL

Session == Minter \X (1..MintTries)   \* one row per try of a Mint

ASSUME NoSessionAssumption == NoSession \notin Session

VARIABLES
  now,       \* the time
  status,    \* sessions.status, "none" before INSERT, "deleted" after DELETE
  created,   \* sessions.created_at
  token,     \* session:token:<id>: the record, dead once now reaches exp
  attempts,  \* session:attempts:<id>: the counter; no expiry unless ttl
  mpc,       \* where a Mint request stands
  try,       \* its loop counter
  mid,       \* its connect id
  pin,       \* its PIN
  rpc,       \* where a Redeem request stands
  rid,       \* its connect id
  guess,     \* the PIN it was given
  rec,       \* the session in the token record it read
  begun,     \* when it read the record
  resent,    \* ghost: rows whose token was stored by a SetNX that was sent again
  compared,  \* PIN comparisons made so far per session
  uses       \* tokens stored so far per connect id

mintVars   == <<mpc, try, mid, pin, resent>>
redeemVars == <<rpc, rid, guess, rec, begun>>
dbVars     == <<status, created>>
redisVars  == <<token, attempts>>
vars == <<now, dbVars, redisVars, mintVars, redeemVars, compared, uses>>

Row(m) == <<m, try[m]>>
Absent == [session |-> NoSession, exp |-> 0]
NoAttempts == [n |-> 0, ttl |-> FALSE, exp |-> 0]

Live(c) == now < token[c].exp
Attempts(c) == IF attempts[c].ttl /\ now >= attempts[c].exp THEN 0 ELSE attempts[c].n

MintInFlight(m) == mpc[m] \in {"setnx", "rollback"}
RedeemInFlight(k) == rpc[k] \in {"incr", "expire", "burn", "consume", "activate"}

Init ==
  /\ now = 0
  /\ status = [s \in Session |-> "none"]
  /\ created = [s \in Session |-> 0]
  /\ token = [c \in ConnectID |-> Absent]
  /\ attempts = [c \in ConnectID |-> NoAttempts]
  /\ mpc = [m \in Minter |-> "insert"]
  /\ try = [m \in Minter |-> 1]
  /\ mid \in [Minter -> ConnectID]
  /\ pin \in [Minter -> Pin]
  /\ resent = {}
  /\ rpc = [k \in Redeemer |-> "idle"]
  /\ rid \in [Redeemer -> ConnectID]
  /\ guess \in [Redeemer -> Pin]
  /\ rec = [k \in Redeemer |-> NoSession]
  /\ begun = [k \in Redeemer |-> 0]
  /\ compared = [s \in Session |-> 0]
  /\ uses = [c \in ConnectID |-> 0]

-----------------------------------------------------------------------------
(* Mint. *)

AddRow(m) ==
  /\ status' = [status EXCEPT ![Row(m)] = "pending"]
  /\ created' = [created EXCEPT ![Row(m)] = now]

StoreToken(m) ==
  /\ token' = [token EXCEPT ![mid[m]] = [session |-> Row(m), exp |-> now + TTL]]
  /\ uses' = [uses EXCEPT ![mid[m]] = @ + 1]

\* INSERT of the pending row.
InsertRow(m) ==
  /\ mpc[m] = "insert"
  /\ AddRow(m)
  /\ mpc' = [mpc EXCEPT ![m] = "setnx"]
  /\ UNCHANGED <<now, redisVars, try, mid, pin, resent, redeemVars, compared, uses>>

\* SET NX of the token record; a live token under the same id makes it fail.
SetNXFree(c) == ~Live(c)

SetNX(m) ==
  /\ mpc[m] = "setnx"
  /\ \/ /\ SetNXFree(mid[m])
        /\ StoreToken(m)
        /\ mpc' = [mpc EXCEPT ![m] = "ok"]
     \/ /\ ~SetNXFree(mid[m])
        /\ mpc' = [mpc EXCEPT ![m] = "rollback"]
        /\ UNCHANGED <<token, uses>>
  /\ UNCHANGED <<now, dbVars, attempts, try, mid, pin, resent, redeemVars, compared>>

\* SetNX is executed, its answer is lost and go-redis sends it again: the second
\* one finds the first one's token, which Mint takes for a collision.  (Bound: once
\* per row.)
MintResend(m) ==
  /\ Failures /\ Row(m) \notin resent
  /\ mpc[m] = "setnx" /\ SetNXFree(mid[m])
  /\ StoreToken(m)
  /\ resent' = resent \cup {Row(m)}
  /\ UNCHANGED <<now, dbVars, attempts, mpc, try, mid, pin, redeemVars, compared>>

MoreTriesOffByOne(m) == try[m] <= MintTries
MoreTries(m) == try[m] < MintTries

\* DELETE of the orphaned row, whose error is ignored, then the next try.
DeleteRow(m) ==
  /\ mpc[m] = "rollback"
  /\ \/ status' = [status EXCEPT ![Row(m)] = "deleted"]
     \/ Failures /\ UNCHANGED status
  /\ \/ /\ MoreTries(m)
        /\ try' = [try EXCEPT ![m] = @ + 1]
        /\ mpc' = [mpc EXCEPT ![m] = "insert"]
        /\ \E c \in ConnectID : mid' = [mid EXCEPT ![m] = c]
     \/ /\ ~MoreTries(m)
        /\ mpc' = [mpc EXCEPT ![m] = "error"]
        /\ UNCHANGED <<try, mid>>
  /\ UNCHANGED <<now, created, redisVars, pin, resent, redeemVars, compared, uses>>

\* A round trip fails, having had its effect or not, or the request dies.
MintFails(m) ==
  /\ Failures
  /\ mpc[m] \in {"insert", "setnx", "rollback"}
  /\ \/ UNCHANGED <<dbVars, token, uses>>
     \/ mpc[m] = "insert" /\ AddRow(m) /\ UNCHANGED <<token, uses>>
     \/ mpc[m] = "setnx" /\ SetNXFree(mid[m]) /\ StoreToken(m) /\ UNCHANGED dbVars
  /\ mpc' = [mpc EXCEPT ![m] = "error"]
  /\ UNCHANGED <<now, attempts, try, mid, pin, resent, redeemVars, compared>>

-----------------------------------------------------------------------------
(* Redeem. *)

\* invalidate: DEL of the token and its attempts counter, by connect id.
InvalidateCounterOnly(c) ==
  /\ attempts' = [attempts EXCEPT ![c] = NoAttempts]
  /\ UNCHANGED token
Invalidate(c) ==
  /\ token' = [token EXCEPT ![c] = Absent]
  /\ attempts' = [attempts EXCEPT ![c] = NoAttempts]

\* INCR keeps the key's expiry; an expired key starts over without one.
Increment(c) ==
  attempts' = [attempts EXCEPT ![c] =
                 IF Attempts(c) = 0 THEN [n |-> 1, ttl |-> FALSE, exp |-> 0]
                                    ELSE [attempts[c] EXCEPT !.n = @ + 1]]

\* The PIN comparison and where it leads.
Compare(k) ==
  /\ compared' = [compared EXCEPT ![rec[k]] = @ + 1]
  /\ rpc' = [rpc EXCEPT ![k] = IF guess[k] = pin[rec[k][1]] THEN "consume" ELSE "invalid"]

\* GET of the token record.
Get(k) ==
  /\ rpc[k] = "idle"
  /\ \/ /\ Live(rid[k])
        /\ rec' = [rec EXCEPT ![k] = token[rid[k]].session]
        /\ begun' = [begun EXCEPT ![k] = now]
        /\ rpc' = [rpc EXCEPT ![k] = "incr"]
     \/ /\ ~Live(rid[k])
        /\ rpc' = [rpc EXCEPT ![k] = "invalid"]
        /\ UNCHANGED <<rec, begun>>
  /\ UNCHANGED <<now, dbVars, redisVars, mintVars, rid, guess, compared, uses>>

\* Whether the attempt that made the counter n is one too many.
TooManyOffByOne(n) == n > MaxRedeemTries + 1
TooMany(n) == n > MaxRedeemTries

\* INCR of the attempts counter, and the limit.
Incr(k) ==
  LET n == Attempts(rid[k]) + 1 IN
  /\ rpc[k] = "incr"
  /\ Increment(rid[k])
  /\ \/ n = 1 /\ rpc' = [rpc EXCEPT ![k] = "expire"] /\ UNCHANGED compared
     \/ n # 1 /\ TooMany(n) /\ rpc' = [rpc EXCEPT ![k] = "burn"] /\ UNCHANGED compared
     \/ n # 1 /\ ~TooMany(n) /\ Compare(k)
  /\ UNCHANGED <<now, dbVars, token, mintVars, rid, guess, rec, begun, uses>>

\* EXPIRE after the first attempt: no effect on a key deleted meanwhile, and
\* its error is ignored.
Expire(k) ==
  /\ rpc[k] = "expire"
  /\ \/ /\ Attempts(rid[k]) > 0
        /\ attempts' = [attempts EXCEPT
             ![rid[k]] = [attempts[rid[k]] EXCEPT !.ttl = TRUE, !.exp = now + TTL]]
     \/ /\ Attempts(rid[k]) = 0 \/ Failures
        /\ UNCHANGED attempts
  /\ Compare(k)
  /\ UNCHANGED <<now, dbVars, token, mintVars, rid, guess, rec, begun, uses>>

\* invalidate and ErrTooManyAttempts; DEL's error is ignored.
Burn(k) ==
  /\ rpc[k] = "burn"
  /\ \/ Invalidate(rid[k])
     \/ Failures /\ UNCHANGED redisVars
  /\ rpc' = [rpc EXCEPT ![k] = "toomany"]
  /\ UNCHANGED <<now, dbVars, mintVars, rid, guess, rec, begun, compared, uses>>

\* invalidate once the PIN is verified; DEL's error is ignored.
Consume(k) ==
  /\ rpc[k] = "consume"
  /\ \/ Invalidate(rid[k])
     \/ Failures /\ UNCHANGED redisVars
  /\ rpc' = [rpc EXCEPT ![k] = "activate"]
  /\ UNCHANGED <<now, dbVars, mintVars, rid, guess, rec, begun, compared, uses>>

\* The UPDATE's WHERE clause.
MayActivate(s) == status[s] = "pending"

ActivateRow(k) ==
  status' = [status EXCEPT ![rec[k]] = IF MayActivate(rec[k]) THEN "active" ELSE @]

\* UPDATE to active; Redeem does not look at the number of rows it changed.
Activate(k) ==
  /\ rpc[k] = "activate"
  /\ ActivateRow(k)
  /\ rpc' = [rpc EXCEPT ![k] = "ok"]
  /\ UNCHANGED <<now, created, redisVars, mintVars, rid, guess, rec, begun, compared, uses>>

\* A round trip fails, having had its effect or not, or the request dies.
RedeemFails(k) ==
  /\ Failures
  /\ RedeemInFlight(k)
  /\ \/ UNCHANGED <<status, redisVars>>
     \/ rpc[k] = "incr" /\ Increment(rid[k]) /\ UNCHANGED <<status, token>>
     \/ rpc[k] \in {"burn", "consume"} /\ Invalidate(rid[k]) /\ UNCHANGED status
     \/ rpc[k] = "activate" /\ ActivateRow(k) /\ UNCHANGED redisVars
  /\ rpc' = [rpc EXCEPT ![k] = "error"]
  /\ UNCHANGED <<now, created, mintVars, rid, guess, rec, begun, compared, uses>>

\* INCR or DEL is executed, its answer is lost and go-redis sends it again.
\* (Bound: INCR is sent again while the counter is below the limit.)
RedeemResend(k) ==
  /\ Failures
  /\ \/ /\ rpc[k] = "incr" /\ Attempts(rid[k]) < MaxRedeemTries
        /\ Increment(rid[k]) /\ UNCHANGED token
     \/ rpc[k] \in {"burn", "consume"} /\ Invalidate(rid[k])
  /\ UNCHANGED <<now, dbVars, mintVars, redeemVars, compared, uses>>

-----------------------------------------------------------------------------
(* MarkEnded, the sweep, and time. *)

\* A room exists once somebody holds a signaling token for it.
RoomExists(s) ==
  \/ mpc[s[1]] = "ok" /\ try[s[1]] = s[2]
  \/ \E k \in Redeemer : rpc[k] = "ok" /\ rec[k] = s

\* MarkEnded's WHERE clause.
MayEndAny(s) == status[s] # "ended"
MayEnd(s) == status[s] = "active"

\* The room-ended callback for s, whenever the room of s empties.
MarkEnded(s) ==
  /\ RoomExists(s)
  /\ MayEnd(s)
  /\ status' = [status EXCEPT ![s] = "ended"]
  /\ UNCHANGED <<now, created, redisVars, mintVars, redeemVars, compared, uses>>

\* ExpireStalePending's cutoff, computed on the server's clock.
CutoffAtTTL == now + Skew - TTL
Cutoff == now + Skew - CutoffMultiplier * TTL

Stale(s) == status[s] = "pending" /\ created[s] < Cutoff

\* One tick of sweepStalePendingSessions that finds something to expire.
ExpireStalePending ==
  /\ \E s \in Session : Stale(s)
  /\ status' = [s \in Session |-> IF Stale(s) THEN "expired" ELSE status[s]]
  /\ UNCHANGED <<now, created, redisVars, mintVars, redeemVars, compared, uses>>

\* Time passes; requests in flight finish within their assumed latencies.
Tick ==
  /\ now < MaxNow
  /\ \A m \in Minter : MintInFlight(m) => now < created[Row(m)] + MintLatency
  /\ \A k \in Redeemer : RedeemInFlight(k) => now < begun[k] + RedeemLatency
  /\ now' = now + 1
  /\ UNCHANGED <<dbVars, redisVars, mintVars, redeemVars, compared, uses>>

-----------------------------------------------------------------------------
MintStep(m) == InsertRow(m) \/ SetNX(m) \/ DeleteRow(m) \/ MintFails(m) \/ MintResend(m)
RedeemStep(k) ==
  \/ Get(k) \/ Incr(k) \/ Expire(k) \/ Burn(k) \/ Consume(k) \/ Activate(k)
  \/ RedeemFails(k) \/ RedeemResend(k)

Next ==
  \/ \E m \in Minter : MintStep(m)
  \/ \E k \in Redeemer : RedeemStep(k)
  \/ \E s \in Session : MarkEnded(s)
  \/ ExpireStalePending
  \/ Tick

Spec == Init /\ [][Next]_vars

-----------------------------------------------------------------------------
(* Properties. *)

Status == {"none", "pending", "active", "ended", "expired", "deleted"}

\* Every variable has its type.
TypeOK ==
  /\ now \in Nat
  /\ status \in [Session -> Status]
  /\ created \in [Session -> Nat]
  /\ token \in [ConnectID -> [session : Session \cup {NoSession}, exp : Nat]]
  /\ attempts \in [ConnectID -> [n : Nat, ttl : BOOLEAN, exp : Nat]]
  /\ mpc \in [Minter -> {"insert", "setnx", "rollback", "ok", "error"}]
  /\ try \in [Minter -> 1..MintTries]
  /\ mid \in [Minter -> ConnectID]
  /\ pin \in [Minter -> Pin]
  /\ resent \subseteq Session
  /\ rpc \in [Redeemer -> {"idle", "incr", "expire", "burn", "consume", "activate",
                           "ok", "invalid", "toomany", "error"}]
  /\ rid \in [Redeemer -> ConnectID]
  /\ guess \in [Redeemer -> Pin]
  /\ rec \in [Redeemer -> Session \cup {NoSession}]
  /\ begun \in [Redeemer -> Nat]
  /\ compared \in [Session -> Nat]
  /\ uses \in [ConnectID -> Nat]

\* A phone that was told it may join finds a session that is, or was, active:
\* neither the sweep expired the row under a redeem in flight, however late in
\* the token's life it began, nor a Mint's rollback deleted it.  (A token that a
\* resent SetNX left behind is nobody's: Mint deletes its row and shows the agent
\* another connect id.  The properties do not speak of its row.)
RedeemedSessionActive ==
  \A k \in Redeemer :
    rpc[k] = "ok" /\ rec[k] \notin resent => status[rec[k]] \in {"active", "ended"}

\* A token that can still be read, and was not left behind by a resent SetNX,
\* belongs to a row the sweep has left alone.
LiveTokenUsable ==
  \A c \in ConnectID : Live(c) /\ token[c].session \notin resent =>
    status[token[c].session] \in {"pending", "active", "ended"}

\* A status never goes back: an expired, ended or deleted session stays so.  Only
\* the row of a resent SetNX may be deleted after somebody guessed its token.
StatusForward == [][\A s \in Session :
  \/ status'[s] = status[s]
  \/ <<status[s], status'[s]>> \in {<<"none", "pending">>, <<"pending", "active">>,
       <<"pending", "expired">>, <<"pending", "deleted">>, <<"active", "ended">>}
  \/ s \in resent /\ status'[s] = "deleted"]_vars

-----------------------------------------------------------------------------
(* Claims of the repository that the code does not meet. *)

\* "single-use" (service.go, api.md): a session's token is redeemed at most once.
SingleUse ==
  \A k1, k2 \in Redeemer :
    rpc[k1] = "ok" /\ rpc[k2] = "ok" /\ rec[k1] = rec[k2] => k1 = k2

\* "max 5 PIN attempts before the token is burned" (api.md): a session sees at most
\* MaxRedeemTries wrong PINs.  But the burning deletes the counter together with
\* the token, and redeems that had read the token before start it over.
WrongPINsBounded ==
  \A s \in Session :
    Cardinality({k \in Redeemer : rpc[k] = "invalid" /\ rec[k] = s}) <= MaxRedeemTries
=============================================================================
