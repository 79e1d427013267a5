----------------------------- MODULE RateLimit -----------------------------
(***************************************************************************)
(* The fixed-window limiter (internal/ratelimit) in front of the register, *)
(* login and redeem routes.  Allow is two round trips to Redis, INCR and,  *)
(* for the first event of a window, EXPIRE; requests interleave between    *)
(* them.  Time is relative: a counter knows how long it still lives.       *)
(***************************************************************************)
EXTENDS Integers

CONSTANTS
  Req,      \* request processes
  Route,    \* key prefixes: "register", "login", "redeem"
  Addr,     \* IP addresses
  Trusted,  \* addresses in TRUSTED_PROXY_CIDRS
  NoHeader, \* no X-Forwarded-For
  max,      \* Limiter.max
  window    \* Limiter.window

ASSUME AddrAssumption == Addr # {} /\ Trusted \subseteq Addr /\ NoHeader \notin Addr
ASSUME RouteAssumption == Route # {}
ASSUME LimitAssumption == max \in Nat \ {0} /\ window \in Nat \ {0}

Key == Route \X Addr
Forever == window + 1           \* remaining life of a key without a TTL
MaxCount == max + 1             \* bound: counts above max all refuse
Recent == 1..(2 * max)          \* bound: the admissions the ghost remembers

VARIABLES
  n,       \* n[k]: the counter, 0 when the key does not exist
  left,    \* left[k]: its remaining life
  pc,      \* where a request stands in Allow
  host,    \* its connection address
  key,     \* its key
  orphaned,\* ghost: keys whose first INCR no EXPIRE followed
  admitted \* ghost: admitted[<<route, host>>][i]: how long ago the counter let
           \* through the i-th last request of that connection address; window
           \* when that is a window ago or more, or never was

vars == <<n, left, pc, host, key, orphaned, admitted>>

Init ==
  /\ n = [k \in Key |-> 0] /\ left = [k \in Key |-> Forever]
  /\ pc = [r \in Req |-> "idle"]
  /\ host = [r \in Req |-> CHOOSE a \in Addr : TRUE]
  /\ key = [r \in Req |-> CHOOSE k \in Key : TRUE]
  /\ orphaned = {}
  /\ admitted = [k \in Key |-> [i \in Recent |-> window]]

\* The header counts only when the connection comes from a trusted proxy.
ClientIPTrustingAll(h, xff) == IF xff = NoHeader THEN h ELSE xff
ClientIP(h, xff) == IF h \in Trusted /\ xff # NoHeader THEN xff ELSE h

\* Middleware: any connection, with any first entry of X-Forwarded-For.
Middleware(r) ==
  /\ pc[r] = "idle"
  /\ \E route \in Route, h \in Addr, xff \in Addr \cup {NoHeader} :
       /\ host' = [host EXCEPT ![r] = h]
       /\ key' = [key EXCEPT ![r] = <<route, ClientIP(h, xff)>>]
  /\ pc' = [pc EXCEPT ![r] = "incr"]
  /\ UNCHANGED <<n, left, orphaned, admitted>>

Goto(r, l) == pc' = [pc EXCEPT ![r] = l]

\* return n <= l.max, for the count c this request was given
Decide(r, c) ==
  /\ Goto(r, "idle")
  /\ admitted' = IF c <= max
                 THEN [admitted EXCEPT ![<<key[r][1], host[r]>>] =
                         [i \in Recent |-> IF i = 1 THEN 0 ELSE @[i - 1]]]
                 ELSE admitted

FirstInWindowAlways(c) == TRUE
FirstInWindow(c) == c = 1

Counted(k) == IF n[k] < MaxCount THEN n[k] + 1 ELSE n[k]

Incr(r) ==
  /\ pc[r] = "incr"
  /\ n' = [n EXCEPT ![key[r]] = Counted(key[r])]
  /\ \/ FirstInWindow(n'[key[r]]) /\ Goto(r, "expire") /\ UNCHANGED admitted
     \/ ~FirstInWindow(n'[key[r]]) /\ Decide(r, n'[key[r]])
  /\ UNCHANGED <<left, host, key, orphaned>>

\* An INCR whose answer nobody reads: if it was the first, no EXPIRE follows.
CountUnseen(k) ==
  /\ n' = [n EXCEPT ![k] = Counted(k)]
  /\ orphaned' = IF n[k] = 0 THEN orphaned \cup {k} ELSE orphaned

\* INCR fails, with or without effect, or the client goes away: the request is
\* allowed.
IncrError(r) ==
  /\ pc[r] = "incr"
  /\ CountUnseen(key[r]) \/ UNCHANGED <<n, orphaned>>
  /\ Goto(r, "idle")
  /\ UNCHANGED <<left, host, key, admitted>>

\* go-redis sends an INCR whose answer is lost again: the request counts twice.
IncrResend(r) ==
  /\ pc[r] = "incr"
  /\ CountUnseen(key[r])
  /\ UNCHANGED <<left, pc, host, key, admitted>>

\* The result of EXPIRE is ignored; the request is the first of its window.
Expire(r) ==
  /\ pc[r] = "expire"
  /\ \/ left' = [left EXCEPT ![key[r]] = window] /\ UNCHANGED orphaned
     \/ orphaned' = orphaned \cup {key[r]} /\ UNCHANGED left
  /\ Decide(r, 1)
  /\ UNCHANGED <<n, host, key>>

\* Redis removes what has expired.
Tick ==
  LET dead(k) == left[k] = 1
      lives(k) == IF left[k] = Forever \/ dead(k) THEN Forever ELSE left[k] - 1
      older(a) == IF a < window THEN a + 1 ELSE a
  IN
  /\ n' = [k \in Key |-> IF dead(k) THEN 0 ELSE n[k]]
  /\ left' = [k \in Key |-> lives(k)]
  /\ admitted' = [k \in Key |-> [i \in Recent |-> older(admitted[k][i])]]
  /\ UNCHANGED <<pc, host, key, orphaned>>

Next ==
  \/ Tick
  \/ \E r \in Req : Middleware(r) \/ Incr(r) \/ IncrError(r) \/ IncrResend(r) \/ Expire(r)

Spec == Init /\ [][Next]_vars

\* Time passes and a request that reached the limiter is served.
Fairness == WF_vars(Tick) /\ \A r \in Req : WF_vars(Incr(r) \/ Expire(r))
FairSpec == Spec /\ Fairness

-----------------------------------------------------------------------------
(* Properties. *)

TypeOK ==
  /\ n \in [Key -> 0..MaxCount]
  /\ left \in [Key -> 1..Forever]
  /\ pc \in [Req -> {"idle", "incr", "expire"}]
  /\ host \in [Req -> Addr] /\ key \in [Req -> Key] /\ orphaned \subseteq Key
  /\ admitted \in [Key -> [Recent -> 0..window]]
  /\ \A k \in Key : n[k] = 0 => left[k] = Forever

\* Whatever X-Forwarded-For says, a client that connects directly gets fewer
\* than 2 * max requests past a limiter's counter in any window: a sliding one
\* touches two fixed windows of max requests, and the request that opened the
\* first is out of it when the second opens.  (The request let through 2 * max - 1
\* requests before the last one is a whole window old.)
SlidingBound == \A k \in Key : k[2] \notin Trusted => admitted[k][2 * max] = window

\* A client over the limit is let in again, however much it keeps trying and
\* whatever commands of later requests fail, unless its counter was orphaned.
LockoutEnds == \A k \in Key : n[k] > max ~> (n[k] = 0 \/ k \in orphaned)
=============================================================================
