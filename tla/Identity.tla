------------------------------ MODULE Identity ------------------------------
(***************************************************************************)
(* Organizations, users and their tokens: internal/identity (Register,     *)
(* Login, Refresh, Logout and the admin endpoints), the token issuer and   *)
(* the bearer middleware of internal/auth.                                 *)
(*                                                                         *)
(* A request is a process; each action is one statement on Postgres or one *)
(* check of a signed token together with the local computation around it,  *)
(* so that other requests run between the SELECT that loads a user and the *)
(* moment tokens are issued for it.  Passwords are abstracted to whether   *)
(* VerifyPassword accepts them, an organization to its first user, tokens  *)
(* to their claims: they are kept until they expire, by whoever holds them.*)
(***************************************************************************)
EXTENDS Integers, FiniteSets

CONSTANTS
  Req,        \* request processes
  User,       \* user ids; also the ids of the organizations they found
  Name,       \* emails up to case and surrounding blanks
  Role,       \* users.role
  None,       \* nothing
  AccessTTL,  \* ACCESS_TOKEN_TTL
  RefreshTTL, \* REFRESH_TOKEN_TTL
  Latency,    \* assumed: a request takes at most this long
  MaxVer,     \* bound: token versions
  MaxNow      \* bound: the last instant modelled

ASSUME RoleAssumption == {"admin", "agent"} \subseteq Role
ASSUME TimeAssumption ==
  /\ AccessTTL \in Nat \ {0} /\ RefreshTTL \in Nat \ {0} /\ Latency \in Nat
  /\ MaxVer \in Nat /\ MaxNow \in Nat

\* An email as typed: its name and whether it is already in normal form.
RawEmail == Name \X {"lower", "mixed"}

\* The columns of a users row.
Row == [org : User, email : RawEmail, role : Role, disabled : BOOLEAN, ver : 0..MaxVer]

ASSUME NoneAssumption == None \notin User /\ None \notin Row

VARIABLES
  now,        \* the time
  orgs,       \* organizations
  users,      \* users[u]: the row, or None
  tokens,     \* tokens signed and not expired
  pc,         \* where a request stands
  ctx,        \* the claims or the user row it works with
  disabledAt  \* ghost: when a user was last disabled

vars == <<now, orgs, users, tokens, pc, ctx, disabledAt>>

normalizeEmail(e) == <<e[1], "lower">>
Lower(e) == <<e[1], "lower">>      \* lower(email) of the index and the query

Exists(u) == users[u] # None
\* The claims of a user row.  revoked is a ghost: a logout or a disabling came
\* after the login (or registration) these claims go back to.
ClaimsOf(u) == [user |-> u, org |-> users[u].org, role |-> users[u].role,
                ver |-> users[u].ver, revoked |-> FALSE, at |-> now]
NoClaims == [user |-> None, org |-> None, role |-> "agent", ver |-> 0,
             revoked |-> FALSE, at |-> 0]

Init ==
  /\ now = 0 /\ orgs = {} /\ tokens = {}
  /\ users = [u \in User |-> None]
  /\ pc = [r \in Req |-> "idle"]
  /\ ctx = [r \in Req |-> NoClaims]
  /\ disabledAt = [u \in User |-> 0]

Goto(r, l, c) == pc' = [pc EXCEPT ![r] = l] /\ ctx' = [ctx EXCEPT ![r] = c]
Finish(r) == Goto(r, "idle", NoClaims)

\* A request ends early at any point: refused input, a failed statement (whose
\* transaction rolls back), a client that went away.
Abort(r) ==
  /\ pc[r] # "idle"
  /\ Finish(r)
  /\ UNCHANGED <<now, orgs, users, tokens, disabledAt>>

-----------------------------------------------------------------------------
(* auth.Issuer. *)

Token(kind, c, ttl) ==
  [kind |-> kind, user |-> c.user, org |-> c.org, role |-> c.role, ver |-> c.ver,
   revoked |-> c.revoked, exp |-> now + ttl]

\* Parse: an expired token is refused (and never kept in tokens).
Valid(t) == now < t.exp

\* respondWithTokens: an access and a refresh token at the version read earlier.
respondWithTokens(r) ==
  /\ pc[r] = "issue"
  /\ tokens' = tokens \cup {Token("access", ctx[r], AccessTTL),
                            Token("refresh", ctx[r], RefreshTTL)}
  /\ Finish(r)
  /\ UNCHANGED <<now, orgs, users, disabledAt>>

\* Issuer.Middleware: claims of a valid access token, no look at the database.
AcceptsAnyKind(t) == Valid(t)
Accepts(t) == Valid(t) /\ t.kind = "access"

Middleware(r) ==
  /\ pc[r] = "idle"
  /\ \E t \in tokens :
       /\ Accepts(t)
       /\ Goto(r, "act", [user |-> t.user, org |-> t.org, role |-> t.role, ver |-> t.ver,
                          revoked |-> t.revoked, at |-> now])
  /\ UNCHANGED <<now, orgs, users, tokens, disabledAt>>

-----------------------------------------------------------------------------
(* Rows. *)

\* The unique index users_email_unique_ci (0004), global across organizations.
Taken(e, o) == \E u \in User : Exists(u) /\ Lower(users[u].email) = Lower(e)

InsertUser(u, o, e, role) ==
  /\ ~Exists(u) /\ ~Taken(normalizeEmail(e), o)
  /\ users' = [users EXCEPT ![u] = [org |-> o, email |-> normalizeEmail(e), role |-> role,
                                    disabled |-> FALSE, ver |-> 0]]

\* token_version = token_version + 1.
Bumped(v) == v + 1

\* Every claim that goes back before a change of u's token version is revoked.
Revoke(c, u) == IF c.user = u THEN [c EXCEPT !.revoked = TRUE] ELSE c
BumpVersion(u, r) ==
  /\ users[u].ver < MaxVer
  /\ tokens' = {Revoke(t, u) : t \in tokens}
  /\ ctx' = [q \in Req |-> IF q = r THEN NoClaims ELSE Revoke(ctx[q], u)]
  /\ pc' = [pc EXCEPT ![r] = "idle"]

-----------------------------------------------------------------------------
(* Public endpoints. *)

\* RegisterOrg: the transaction inserts the organization, then its admin; the
\* organization becomes visible with the commit.
RegisterOrgInsert(r, u) ==
  /\ pc[r] = "idle" /\ ~Exists(u) /\ \A q \in Req : ~(pc[q] = "tx" /\ ctx[q].user = u)
  /\ Goto(r, "tx", [NoClaims EXCEPT !.user = u, !.org = u, !.role = "admin", !.at = now])
  /\ UNCHANGED <<now, orgs, users, tokens, disabledAt>>

RegisterOrg(r, e) ==
  /\ pc[r] = "tx"
  /\ InsertUser(ctx[r].user, ctx[r].org, e, ctx[r].role)
  /\ orgs' = orgs \cup {ctx[r].org}
  /\ Goto(r, "issue", ctx[r])
  /\ UNCHANGED <<now, tokens, disabledAt>>

\* Authenticate with a password that verifies: SELECT by lower(email).
MayLoginUnchecked(u) == TRUE
MayLogin(u) == ~users[u].disabled

Login(r, e) ==
  /\ pc[r] = "idle"
  /\ \E u \in User :
       /\ Exists(u) /\ Lower(users[u].email) = normalizeEmail(e)
       /\ MayLogin(u)
       /\ Goto(r, "issue", ClaimsOf(u))
  /\ UNCHANGED <<now, orgs, users, tokens, disabledAt>>

\* Refresh: Parse, then GetUser and the comparison of the versions.
RefreshParse(r) ==
  /\ pc[r] = "idle"
  /\ \E t \in tokens :
       /\ Valid(t) /\ t.kind = "refresh"
       /\ Goto(r, "getuser", [user |-> t.user, org |-> t.org, role |-> t.role, ver |-> t.ver,
                              revoked |-> t.revoked, at |-> now])
  /\ UNCHANGED <<now, orgs, users, tokens, disabledAt>>

\* The new tokens carry the version of the row that was read.
CurrentVersionUnchecked(c) == Exists(c.user)
CurrentVersion(c) == Exists(c.user) /\ users[c.user].ver = c.ver

Refresh(r) ==
  /\ pc[r] = "getuser"
  /\ CurrentVersion(ctx[r])
  /\ Goto(r, "issue", [ClaimsOf(ctx[r].user) EXCEPT !.revoked = ctx[r].revoked,
                                                    !.at = ctx[r].at])
  /\ UNCHANGED <<now, orgs, users, tokens, disabledAt>>

-----------------------------------------------------------------------------
(* Authenticated endpoints. *)

Logout(r) ==
  LET u == ctx[r].user IN
  /\ pc[r] = "act"
  /\ BumpVersion(u, r)
  /\ users' = [users EXCEPT ![u].ver = Bumped(@)]
  /\ UNCHANGED <<now, orgs, disabledAt>>

requireAdmin(r) == ctx[r].role = "admin"

CreateUser(r, u, e, role) ==
  /\ pc[r] = "act" /\ requireAdmin(r)
  /\ \A q \in Req : ~(pc[q] = "tx" /\ ctx[q].user = u)   \* ids are fresh
  /\ InsertUser(u, ctx[r].org, e, role)
  /\ Finish(r)
  /\ UNCHANGED <<now, orgs, tokens, disabledAt>>

\* SetDisabled's WHERE id = $2 AND org_id = $3.
InScopeById(r, u) == Exists(u)
InScope(r, u) == Exists(u) /\ users[u].org = ctx[r].org

Disable(r, u) ==
  /\ pc[r] = "act" /\ requireAdmin(r) /\ u # ctx[r].user
  /\ InScope(r, u)
  /\ BumpVersion(u, r)
  /\ users' = [users EXCEPT ![u].disabled = TRUE, ![u].ver = Bumped(@)]
  /\ disabledAt' = [disabledAt EXCEPT ![u] = now]
  /\ UNCHANGED <<now, orgs>>

Enable(r, u) ==
  /\ pc[r] = "act" /\ requireAdmin(r)
  /\ InScope(r, u)
  /\ users' = [users EXCEPT ![u].disabled = FALSE]
  /\ Finish(r)
  /\ UNCHANGED <<now, orgs, tokens, disabledAt>>

-----------------------------------------------------------------------------
Tick ==
  /\ now < MaxNow
  /\ \A r \in Req : pc[r] # "idle" => now < ctx[r].at + Latency
  /\ now' = now + 1
  /\ tokens' = {t \in tokens : now' < t.exp}
  /\ UNCHANGED <<orgs, users, pc, ctx, disabledAt>>

Next ==
  \/ \E r \in Req :
       \/ Abort(r) \/ respondWithTokens(r) \/ Middleware(r) \/ RefreshParse(r)
       \/ Refresh(r) \/ Logout(r)
       \/ \E e \in RawEmail : RegisterOrg(r, e) \/ Login(r, e)
       \/ \E u \in User : RegisterOrgInsert(r, u) \/ Disable(r, u) \/ Enable(r, u)
       \/ \E u \in User, e \in RawEmail, role \in Role : CreateUser(r, u, e, role)
  \/ Tick

Spec == Init /\ [][Next]_vars

-----------------------------------------------------------------------------
(* Properties. *)

Claims == [user : User \cup {None}, org : User \cup {None}, role : Role,
           ver : 0..MaxVer, revoked : BOOLEAN, at : 0..MaxNow]

TypeOK ==
  /\ now \in 0..MaxNow /\ orgs \subseteq User
  /\ users \in [User -> Row \cup {None}]
  /\ \A t \in tokens : /\ t.kind \in {"access", "refresh"} /\ Exists(t.user)
                       /\ t.ver <= users[t.user].ver
  /\ pc \in [Req -> {"idle", "tx", "issue", "getuser", "act"}]
  /\ ctx \in [Req -> Claims]
  /\ disabledAt \in [User -> 0..MaxNow]

\* Logout and disabling revoke for good: no refresh token that goes back to a
\* login before the last change of token_version passes Refresh's comparison,
\* not even one signed afterwards by a request that had read the user before.
RevokedStaysRevoked ==
  \A t \in tokens : t.kind = "refresh" /\ t.revoked => t.ver # users[t.user].ver

\* GetUser does not read users.disabled: that a disabled user cannot refresh
\* rests on there being no claim with the current version, in a token or in a
\* request about to sign one, as long as the user is disabled.
DisabledHoldsNoCurrentClaim ==
  \A u \in User : Exists(u) /\ users[u].disabled =>
    /\ \A t \in tokens : t.user = u => t.ver # users[u].ver
    /\ \A r \in Req : pc[r] \in {"issue", "getuser"} /\ ctx[r].user = u =>
                        ctx[r].ver # users[u].ver

\* The middleware does not look at the database: what bounds the time a
\* disabled user is still let in is the life of an access token, plus the
\* latency of a login that had read the row before.
DisabledAccessBounded ==
  \A r \in Req : LET u == ctx[r].user IN
    pc[r] = "act" /\ users[u].disabled => ctx[r].at < disabledAt[u] + Latency + AccessTTL

\* A row only changes by a request of the user itself or of an admin of its
\* organization, as the claims of the token presented say.
OrgIsolation ==
  [][\A u \in User : Exists(u) /\ users'[u] # users[u] =>
       \E r \in Req : /\ pc[r] = "act" /\ pc'[r] = "idle"
                      /\ \/ ctx[r].user = u
                         \/ ctx[r].role = "admin" /\ ctx[r].org = users[u].org]_vars
=============================================================================
