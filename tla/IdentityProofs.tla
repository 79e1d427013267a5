--------------------------- MODULE IdentityProofs ---------------------------
(***************************************************************************)
(* Proofs about Identity, for any requests, users, names and roles, any    *)
(* life of the tokens and any latency of the requests.                     *)
(***************************************************************************)
EXTENDS Identity, TLAPS

TokenType == [kind : {"access", "refresh"}, user : User, org : User, role : Role,
              ver : 0..MaxVer, revoked : BOOLEAN, exp : Nat]

Typed ==
  /\ now \in 0..MaxNow /\ orgs \subseteq User
  /\ users \in [User -> Row \cup {None}]
  /\ pc \in [Req -> {"idle", "tx", "issue", "getuser", "act"}]
  /\ ctx \in [Req -> Claims]
  /\ disabledAt \in [User -> 0..MaxNow]

\* A claim, in a token or in a request, says of its user's organization and
\* role what the row says, and is not ahead of the row's version; a claim that
\* goes back before a logout or a disabling is behind it.
Backed(c) ==
  /\ c.user \in User /\ Exists(c.user)
  /\ c.org = users[c.user].org /\ c.role = users[c.user].role
  /\ c.ver <= users[c.user].ver
  /\ c.revoked => c.ver < users[c.user].ver

Disabled(u) == users[u].disabled

\* A user id drawn for an organization that is being registered.
Founding(c) == /\ c.user \in User /\ c.org \in User /\ ~Exists(c.user)
               /\ ~c.revoked /\ c.ver = 0

\* What a request at l knows of its claims c.
ReqInv(l, c) ==
  /\ l = "tx" => Founding(c)
  /\ l \in {"issue", "getuser", "act"} => Backed(c)
  /\ l # "idle" => c.at <= now /\ now <= c.at + Latency
  /\ l \in {"issue", "getuser"} /\ Disabled(c.user) => c.ver < users[c.user].ver
  /\ l = "issue" /\ Disabled(c.user) => c.at <= disabledAt[c.user]
  /\ l = "act" /\ Disabled(c.user) => c.at < disabledAt[c.user] + Latency + AccessTTL

TokInv(t) ==
  /\ t \in TokenType /\ Backed(t)
  /\ Disabled(t.user) => t.ver < users[t.user].ver
  /\ t.kind = "access" => t.exp <= now + AccessTTL
  /\ t.kind = "access" /\ Disabled(t.user) => t.exp <= disabledAt[t.user] + Latency + AccessTTL

\* No two requests register the same user.
TxUnique ==
  \A r, q \in Req : pc[r] = "tx" /\ pc[q] = "tx" /\ ctx[r].user = ctx[q].user => r = q

IInv ==
  /\ Typed /\ TxUnique
  /\ \A r \in Req : ReqInv(pc[r], ctx[r])
  /\ \A t \in tokens : TokInv(t)

-----------------------------------------------------------------------------
(* Requests that only move on, or sign tokens. *)

Labels == {"idle", "tx", "issue", "getuser", "act"}

LEMMA NoClaimsTyped == NoClaims \in Claims
BY RoleAssumption, TimeAssumption DEF NoClaims, Claims

LEMMA Stays ==
  ASSUME UNCHANGED <<now, users, disabledAt>>
  PROVE  /\ \A l, c : ReqInv(l, c) => ReqInv(l, c)'
         /\ \A t : TokInv(t) => TokInv(t)'
BY DEF ReqInv, TokInv, Founding, Backed, Exists, Disabled

LEMMA GotoStep ==
  ASSUME IInv, NEW r \in Req, NEW l \in Labels, NEW c \in Claims, Goto(r, l, c),
         UNCHANGED <<now, users, orgs, disabledAt>>, ReqInv(l, c),
         l = "tx" => \A q \in Req : ~(pc[q] = "tx" /\ ctx[q].user = c.user),
         \A t \in tokens' : TokInv(t)
  PROVE  IInv'
<1>1. Typed
  BY DEF IInv
<1>2. pc' = [pc EXCEPT ![r] = l] /\ ctx' = [ctx EXCEPT ![r] = c]
  BY DEF Goto
<1>3. Typed'
  <2>1. pc' \in [Req -> {"idle", "tx", "issue", "getuser", "act"}]
    BY <1>1, <1>2 DEF Typed, Labels
  <2>2. ctx' \in [Req -> Claims]
    BY <1>1, <1>2 DEF Typed
  <2> QED
    BY <1>1, <2>1, <2>2 DEF Typed
<1>4. \A q \in Req : /\ q = r => pc'[q] = l /\ ctx'[q] = c
                     /\ q # r => pc'[q] = pc[q] /\ ctx'[q] = ctx[q]
  BY <1>1, <1>2 DEF Typed
<1>5. TxUnique'
  BY <1>4 DEF IInv, TxUnique
<1>6. ASSUME NEW q \in Req PROVE ReqInv(pc[q], ctx[q])'
  <2>1. PICK m, d : m = pc'[q] /\ d = ctx'[q] /\ ReqInv(m, d)
    BY <1>4 DEF IInv
  <2>2. ReqInv(m, d)'
    BY <2>1, Stays
  <2> QED
    BY <2>1, <2>2 DEF ReqInv, Founding, Backed, Exists, Disabled
<1>7. \A t \in tokens' : TokInv(t)'
  BY Stays
<1> QED
  BY <1>3, <1>5, <1>6, <1>7 DEF IInv

LEMMA FinishStep ==
  ASSUME IInv, NEW r \in Req, Finish(r), UNCHANGED <<now, users, orgs, disabledAt>>,
         \A t \in tokens' : TokInv(t)
  PROVE  IInv'
<1>1. ReqInv("idle", NoClaims)
  BY DEF ReqInv
<1> QED
  BY <1>1, NoClaimsTyped, GotoStep DEF Finish, Labels

LEMMA SignStep == ASSUME IInv, NEW r \in Req, respondWithTokens(r) PROVE IInv'
<1>1. Typed /\ ReqInv(pc[r], ctx[r]) /\ \A t \in tokens : TokInv(t)
  BY DEF IInv
<1>2. pc[r] = "issue" /\ Finish(r) /\ UNCHANGED <<now, orgs, users, disabledAt>>
      /\ tokens' = tokens \cup {Token("access", ctx[r], AccessTTL), Token("refresh", ctx[r], RefreshTTL)}
  BY DEF respondWithTokens
<1> DEFINE c == ctx[r]
<1>3. c \in Claims /\ Backed(c) /\ now \in Nat /\ c.at \in Nat /\ c.at <= now /\ now <= c.at + Latency
  BY <1>1, <1>2, TimeAssumption DEF Typed, ReqInv, Claims
<1>4. Disabled(c.user) => c.ver < users[c.user].ver /\ c.at <= disabledAt[c.user]
  BY <1>1, <1>2 DEF ReqInv
<1>5. c.user \in User /\ Exists(c.user) /\ c.org \in User /\ c.role \in Role
  <2>1. c.user \in User /\ Exists(c.user) /\ c.org = users[c.user].org
    BY <1>3 DEF Backed
  <2>2. users[c.user] \in Row
    BY <1>1, <2>1 DEF Typed, Exists
  <2> QED
    BY <1>3, <2>1, <2>2 DEF Row, Claims
<1> HIDE DEF c
<1>6. ASSUME NEW k \in {"access", "refresh"}, NEW ttl \in Nat, k = "access" => ttl = AccessTTL
      PROVE  TokInv(Token(k, c, ttl))
  <2> DEFINE t == Token(k, c, ttl)
  <2>1. /\ t.user = c.user /\ t.org = c.org /\ t.role = c.role /\ t.ver = c.ver
        /\ t.revoked = c.revoked /\ t.kind = k /\ t.exp = now + ttl
    BY DEF Token
  <2>2. t \in TokenType
    <3>1. now + ttl \in Nat /\ c.ver \in 0..MaxVer /\ c.revoked \in BOOLEAN
      BY <1>3 DEF Claims
    <3> QED
      BY <1>5, <3>1 DEF Token, TokenType
  <2> HIDE DEF t
  <2>3. Backed(t)
    BY <1>3, <2>1 DEF Backed
  <2>4. Disabled(t.user) => t.ver < users[t.user].ver
    BY <1>4, <2>1
  <2>5. k = "access" => t.exp = now + AccessTTL
    BY <1>6, <2>1
  <2>6. disabledAt[c.user] \in Nat
    BY <1>1, <1>5, TimeAssumption DEF Typed
  <2>7. k = "access" => t.exp <= now + AccessTTL
    BY <1>3, <2>5, TimeAssumption
  <2>8. k = "access" /\ Disabled(t.user) => t.exp <= disabledAt[t.user] + Latency + AccessTTL
    <3>1. Disabled(t.user) => now <= disabledAt[t.user] + Latency
      BY <1>3, <1>4, <2>1, <2>6, TimeAssumption
    <3> QED
      BY <1>3, <2>1, <2>5, <2>6, <3>1, TimeAssumption
  <2> QED
    BY <2>1, <2>2, <2>3, <2>4, <2>7, <2>8 DEF TokInv, t
<1>7. TokInv(Token("access", c, AccessTTL)) /\ TokInv(Token("refresh", c, RefreshTTL))
  BY <1>6, TimeAssumption
<1>8. \A t \in tokens' : TokInv(t)
  BY <1>1, <1>2, <1>7 DEF c
<1> QED
  BY <1>2, <1>8, FinishStep

\* Refresh and the middleware start from a token, a login from a row.
LEMMA FromTokenStep ==
  ASSUME IInv, NEW r \in Req, Middleware(r) \/ RefreshParse(r)
  PROVE  IInv'
<1>1. Typed /\ \A t \in tokens : TokInv(t)
  BY DEF IInv
<1>2. PICK t \in tokens, l \in {"act", "getuser"} :
        /\ now < t.exp
        /\ l = "act" => t.kind = "access"
        /\ Goto(r, l, [user |-> t.user, org |-> t.org, role |-> t.role, ver |-> t.ver,
                       revoked |-> t.revoked, at |-> now])
        /\ UNCHANGED <<now, orgs, users, tokens, disabledAt>>
  BY DEF Middleware, RefreshParse, Accepts, Valid
<1> DEFINE c == [user |-> t.user, org |-> t.org, role |-> t.role, ver |-> t.ver,
                 revoked |-> t.revoked, at |-> now]
<1>3. TokInv(t) /\ t \in TokenType /\ Backed(t) /\ now \in Nat /\ now \in 0..MaxNow /\ t.exp \in Nat
  BY <1>1, <1>2, TimeAssumption DEF TokInv, Typed, TokenType
<1>4. c \in Claims
  BY <1>3 DEF TokenType, Claims
<1>5. /\ c.user = t.user /\ c.org = t.org /\ c.role = t.role /\ c.ver = t.ver
      /\ c.revoked = t.revoked /\ c.at = now
  OBVIOUS
<1>6. Goto(r, l, c)
  BY <1>2
<1> HIDE DEF c
<1>7. Backed(c)
  BY <1>3, <1>5 DEF Backed
<1>8. disabledAt[c.user] \in Nat
  BY <1>1, <1>7, TimeAssumption DEF Typed, Backed
<1>9. l = "act" /\ Disabled(c.user) => c.at < disabledAt[c.user] + Latency + AccessTTL
  BY <1>2, <1>3, <1>5, <1>8, TimeAssumption DEF TokInv
<1>10. Disabled(c.user) => c.ver < users[c.user].ver
  BY <1>3, <1>5 DEF TokInv
<1>11. c.at <= now /\ now <= c.at + Latency
  BY <1>3, <1>5, TimeAssumption
<1>12. ReqInv(l, c)
  BY <1>2, <1>7, <1>9, <1>10, <1>11 DEF ReqInv
<1> QED
  BY <1>1, <1>2, <1>4, <1>6, <1>12, GotoStep DEF Labels

LEMMA RowClaims ==
  ASSUME Typed, NEW u \in User, Exists(u)
  PROVE  /\ users[u] \in Row /\ ClaimsOf(u) \in Claims /\ Backed(ClaimsOf(u))
         /\ ClaimsOf(u).at = now /\ ClaimsOf(u).user = u /\ ClaimsOf(u).ver = users[u].ver
<1>1. users[u] \in Row
  BY DEF Typed, Exists
<1>2. users[u].org \in User /\ users[u].role \in Role /\ users[u].ver \in 0..MaxVer /\ now \in 0..MaxNow
  BY <1>1 DEF Row, Typed
<1>3. ClaimsOf(u) \in Claims
  BY <1>2 DEF ClaimsOf, Claims
<1>4. Backed(ClaimsOf(u))
  BY <1>2 DEF Backed, ClaimsOf
<1> QED
  BY <1>1, <1>3, <1>4 DEF ClaimsOf

LEMMA LoginStep == ASSUME IInv, NEW r \in Req, NEW e \in RawEmail, Login(r, e) PROVE IInv'
<1>1. Typed /\ \A t \in tokens : TokInv(t)
  BY DEF IInv
<1>2. PICK u \in User : /\ Exists(u) /\ ~users[u].disabled /\ Goto(r, "issue", ClaimsOf(u))
                        /\ UNCHANGED <<now, orgs, users, tokens, disabledAt>>
  BY DEF Login, MayLogin
<1>3. /\ ClaimsOf(u) \in Claims /\ Backed(ClaimsOf(u))
      /\ ClaimsOf(u).at = now /\ ClaimsOf(u).user = u
  BY <1>1, <1>2, RowClaims
<1>4. now \in Nat /\ now <= now + Latency
  BY <1>1, TimeAssumption DEF Typed
<1>5. ReqInv("issue", ClaimsOf(u))
  BY <1>2, <1>3, <1>4 DEF ReqInv, Disabled
<1> QED
  BY <1>1, <1>2, <1>3, <1>5, GotoStep DEF Labels

\* The comparison of versions lets no revoked claim and no disabled user through.
LEMMA RefreshStep == ASSUME IInv, NEW r \in Req, Refresh(r) PROVE IInv'
<1>1. Typed /\ ReqInv(pc[r], ctx[r]) /\ ctx[r] \in Claims /\ \A t \in tokens : TokInv(t)
  BY DEF IInv, Typed
<1> DEFINE u == ctx[r].user
           c == [ClaimsOf(u) EXCEPT !.revoked = ctx[r].revoked, !.at = ctx[r].at]
<1>2. /\ pc[r] = "getuser" /\ users[u].ver = ctx[r].ver
      /\ Goto(r, "issue", c) /\ UNCHANGED <<now, orgs, users, tokens, disabledAt>>
  BY DEF Refresh, CurrentVersion
<1>3. Backed(ctx[r]) /\ ctx[r].at <= now /\ now <= ctx[r].at + Latency /\ ~Disabled(u) /\ ~ctx[r].revoked
  <2>1. Backed(ctx[r]) /\ ctx[r].at <= now /\ now <= ctx[r].at + Latency
        /\ (Disabled(u) => ctx[r].ver < users[u].ver)
    BY <1>1, <1>2 DEF ReqInv
  <2>2. ctx[r].ver \in Int
    BY <1>1 DEF Claims
  <2>3. ~(ctx[r].ver < users[u].ver)
    BY <1>2, <2>2
  <2> QED
    BY <2>1, <2>3 DEF Backed
<1>4. u \in User /\ Exists(u)
  BY <1>3 DEF Backed
<1>5. ClaimsOf(u) \in Claims /\ Backed(ClaimsOf(u)) /\ ClaimsOf(u).user = u
  BY <1>1, <1>4, RowClaims
<1>6. ctx[r].revoked \in BOOLEAN /\ ctx[r].at \in 0..MaxNow
  BY <1>1 DEF Claims
<1> DEFINE d == ClaimsOf(u)
<1>7. d \in [user : User \cup {None}, org : User \cup {None}, role : Role,
             ver : 0..MaxVer, revoked : BOOLEAN, at : 0..MaxNow]
  BY <1>5 DEF Claims
<1>8. c = [d EXCEPT !.revoked = ctx[r].revoked, !.at = ctx[r].at]
  OBVIOUS
<1>9. d.user = u /\ Backed(d)
  BY <1>5
<1> HIDE DEF d, c
<1>10. c \in Claims
  BY <1>6, <1>7, <1>8 DEF Claims
<1>11. /\ c.user = d.user /\ c.org = d.org /\ c.role = d.role /\ c.ver = d.ver
       /\ c.revoked = ctx[r].revoked /\ c.at = ctx[r].at
  BY <1>7, <1>8
<1>12. Backed(c)
  BY <1>3, <1>9, <1>11 DEF Backed
<1>13. ReqInv("issue", c)
  BY <1>3, <1>9, <1>11, <1>12 DEF ReqInv
<1> QED
  BY <1>1, <1>2, <1>10, <1>13, GotoStep DEF Labels

LEMMA RegisterInsertStep ==
  ASSUME IInv, NEW r \in Req, NEW u \in User, RegisterOrgInsert(r, u)
  PROVE  IInv'
<1>1. Typed /\ \A t \in tokens : TokInv(t)
  BY DEF IInv
<1> DEFINE d == NoClaims
           c == [d EXCEPT !.user = u, !.org = u, !.role = "admin", !.at = now]
<1>2. /\ ~Exists(u) /\ \A q \in Req : ~(pc[q] = "tx" /\ ctx[q].user = u)
      /\ Goto(r, "tx", c) /\ UNCHANGED <<now, orgs, users, tokens, disabledAt>>
  BY DEF RegisterOrgInsert
<1>3. d \in [user : User \cup {None}, org : User \cup {None}, role : Role,
             ver : 0..MaxVer, revoked : BOOLEAN, at : 0..MaxNow] /\ d.ver = 0 /\ d.revoked = FALSE
  BY NoClaimsTyped DEF Claims, NoClaims
<1>4. c \in Claims /\ c.user = u /\ c.at = now /\ Founding(c)
  <2> HIDE DEF d
  <2>1. now \in 0..MaxNow /\ "admin" \in Role
    BY <1>1, RoleAssumption DEF Typed
  <2>2. c \in Claims
    BY <1>3, <2>1 DEF Claims
  <2>3. c.user = u /\ c.org = u /\ c.at = now /\ c.ver = 0 /\ c.revoked = FALSE
    BY <1>3
  <2> QED
    BY <1>2, <2>2, <2>3 DEF Founding
<1> HIDE DEF c, d
<1>5. now \in Nat /\ now <= now + Latency
  BY <1>1, TimeAssumption DEF Typed
<1>6. ReqInv("tx", c)
  BY <1>4, <1>5 DEF ReqInv
<1> QED
  BY <1>1, <1>2, <1>4, <1>6, GotoStep DEF Labels

-----------------------------------------------------------------------------
(* Requests that write rows. *)

\* A new row leaves every other row, and so every claim, as it was.
LEMMA InsertKeeps ==
  ASSUME Typed, NEW u \in User, ~Exists(u), NEW new \in Row, users' = [users EXCEPT ![u] = new],
         UNCHANGED <<now, disabledAt>>
  PROVE  /\ \A l, c : ReqInv(l, c) /\ ~(l = "tx" /\ c.user = u) => ReqInv(l, c)'
         /\ \A t : TokInv(t) => TokInv(t)'
<1>1. \A v \in User : v # u => users'[v] = users[v]
  BY DEF Typed
<1>2. users'[u] = new /\ new # None
  BY NoneAssumption DEF Typed
<1>3. \A c : Backed(c) => c.user \in User /\ c.user # u /\ users'[c.user] = users[c.user] /\ Backed(c)'
  BY <1>1 DEF Backed, Exists
<1>4. ASSUME NEW l, NEW c, ReqInv(l, c), ~(l = "tx" /\ c.user = u) PROVE ReqInv(l, c)'
  <2>1. CASE l = "tx"
    BY <1>1, <1>4, <2>1 DEF ReqInv, Founding, Exists
  <2>2. CASE l \in {"issue", "getuser", "act"}
    BY <1>3, <1>4, <2>2 DEF ReqInv, Disabled
  <2>3. CASE l \notin {"tx", "issue", "getuser", "act"}
    BY <1>4, <2>3 DEF ReqInv
  <2> QED
    BY <2>1, <2>2, <2>3
<1>5. \A t : TokInv(t) => TokInv(t)'
  BY <1>3 DEF TokInv, Disabled
<1> QED
  BY <1>4, <1>5

LEMMA RowTyped ==
  ASSUME Typed, NEW u \in User, NEW new \in Row, users' = [users EXCEPT ![u] = new]
  PROVE  users' \in [User -> Row \cup {None}]
BY DEF Typed

\* One request moves, the others see a changed row.
LEMMA WriteStep ==
  ASSUME IInv, NEW r \in Req, NEW l \in Labels, NEW c \in Claims, Goto(r, l, c), l # "tx",
         users' \in [User -> Row \cup {None}], now' = now, orgs' \in SUBSET User,
         disabledAt' \in [User -> 0..MaxNow],
         ReqInv(l, c)', \A q \in Req : q # r => ReqInv(pc[q], ctx[q])',
         \A t \in tokens' : TokInv(t)'
  PROVE  IInv'
<1>1. Typed /\ TxUnique
  BY DEF IInv
<1>2. pc' = [pc EXCEPT ![r] = l] /\ ctx' = [ctx EXCEPT ![r] = c]
  BY DEF Goto
<1>3. Typed'
  <2>1. pc' \in [Req -> {"idle", "tx", "issue", "getuser", "act"}]
    BY <1>1, <1>2 DEF Typed, Labels
  <2>2. ctx' \in [Req -> Claims]
    BY <1>1, <1>2 DEF Typed
  <2> QED
    BY <1>1, <2>1, <2>2 DEF Typed
<1>4. \A q \in Req : /\ q = r => pc'[q] = l /\ ctx'[q] = c
                     /\ q # r => pc'[q] = pc[q] /\ ctx'[q] = ctx[q]
  BY <1>1, <1>2 DEF Typed
<1>5. TxUnique'
  BY <1>1, <1>4 DEF TxUnique
<1>6. ReqInv(pc[r], ctx[r])'
  BY <1>4 DEF ReqInv, Founding, Backed, Exists, Disabled
<1> QED
  BY <1>3, <1>5, <1>6 DEF IInv

LEMMA OthersPrimed ==
  ASSUME Typed, NEW r \in Req, NEW l, NEW c, Goto(r, l, c), NEW q \in Req, q # r,
         NEW m, NEW d, m = pc[q], d = ctx[q], ReqInv(m, d)'
  PROVE  ReqInv(pc[q], ctx[q])'
<1>1. pc'[q] = m /\ ctx'[q] = d
  BY DEF Typed, Goto
<1> QED
  BY <1>1 DEF ReqInv, Founding, Backed, Exists, Disabled

LEMMA NewRow ==
  ASSUME Typed, NEW u \in User, NEW o \in User, NEW e \in RawEmail, NEW role \in Role,
         InsertUser(u, o, e, role)
  PROVE  \E new \in Row : /\ ~Exists(u) /\ users' = [users EXCEPT ![u] = new]
                          /\ new.org = o /\ new.role = role /\ new.ver = 0 /\ ~new.disabled
<1> DEFINE new == [org |-> o, email |-> normalizeEmail(e), role |-> role, disabled |-> FALSE, ver |-> 0]
<1>1. normalizeEmail(e) \in RawEmail
  BY DEF normalizeEmail, RawEmail
<1>2. 0 \in 0..MaxVer
  BY TimeAssumption
<1>3. new \in Row
  BY <1>1, <1>2 DEF Row
<1>4. ~Exists(u) /\ users' = [users EXCEPT ![u] = new]
  BY DEF InsertUser
<1> QED
  BY <1>3, <1>4

LEMMA RegisterStep == ASSUME IInv, NEW r \in Req, NEW e \in RawEmail, RegisterOrg(r, e) PROVE IInv'
<1>1. Typed /\ TxUnique /\ (\A q \in Req : ReqInv(pc[q], ctx[q])) /\ \A t \in tokens : TokInv(t)
  BY DEF IInv
<1>2. PICK c \in Claims : c = ctx[r]
  BY <1>1 DEF Typed
<1>3. /\ pc[r] = "tx" /\ InsertUser(c.user, c.org, e, c.role) /\ orgs' = orgs \cup {c.org}
      /\ Goto(r, "issue", c) /\ UNCHANGED <<now, tokens, disabledAt>>
  BY <1>2 DEF RegisterOrg
<1>4. Founding(c) /\ c.at <= now /\ now <= c.at + Latency /\ c.role \in Role
  BY <1>1, <1>2, <1>3 DEF ReqInv, Claims
<1>5. PICK new \in Row : /\ ~Exists(c.user) /\ users' = [users EXCEPT ![c.user] = new]
                         /\ new.org = c.org /\ new.role = c.role /\ new.ver = 0 /\ ~new.disabled
  BY <1>1, <1>3, <1>4, NewRow DEF Founding
<1>6. users'[c.user] = new /\ new # None
  BY <1>1, <1>4, <1>5, NoneAssumption DEF Typed, Founding
<1>7. ReqInv("issue", c)'
  BY <1>3, <1>4, <1>5, <1>6 DEF ReqInv, Backed, Founding, Exists, Disabled
<1>8. ASSUME NEW q \in Req, q # r PROVE ReqInv(pc[q], ctx[q])'
  <2>1. PICK m, d : m = pc[q] /\ d = ctx[q] /\ ReqInv(m, d)
    BY <1>1
  <2>2. ~(m = "tx" /\ d.user = c.user)
    BY <1>1, <1>2, <1>3, <1>8, <2>1 DEF TxUnique
  <2>3. ReqInv(m, d)'
    BY <1>1, <1>3, <1>4, <1>5, <2>1, <2>2, InsertKeeps DEF Founding
  <2> QED
    BY <1>1, <1>3, <1>8, <2>1, <2>3, OthersPrimed
<1>9. \A t \in tokens' : TokInv(t)'
  BY <1>1, <1>3, <1>4, <1>5, InsertKeeps DEF Founding
<1>10. users' \in [User -> Row \cup {None}]
  BY <1>1, <1>4, <1>5, RowTyped DEF Founding
<1>11. orgs' \in SUBSET User /\ disabledAt' \in [User -> 0..MaxNow]
  BY <1>1, <1>3, <1>4 DEF Typed, Founding
<1> QED
  BY <1>3, <1>7, <1>8, <1>9, <1>10, <1>11, WriteStep DEF Labels

LEMMA CreateStep ==
  ASSUME IInv, NEW r \in Req, NEW u \in User, NEW e \in RawEmail, NEW role \in Role,
         CreateUser(r, u, e, role)
  PROVE  IInv'
<1>1. Typed /\ (\A q \in Req : ReqInv(pc[q], ctx[q])) /\ \A t \in tokens : TokInv(t)
  BY DEF IInv
<1>2. /\ pc[r] = "act" /\ \A q \in Req : ~(pc[q] = "tx" /\ ctx[q].user = u)
      /\ InsertUser(u, ctx[r].org, e, role) /\ Goto(r, "idle", NoClaims)
      /\ UNCHANGED <<now, orgs, tokens, disabledAt>>
  BY DEF CreateUser, Finish
<1>3. ctx[r].org \in User
  <2>1. Backed(ctx[r])
    BY <1>1, <1>2 DEF ReqInv
  <2>2. users[ctx[r].user] \in Row
    BY <1>1, <2>1 DEF Backed, Exists, Typed
  <2> QED
    BY <2>1, <2>2 DEF Backed, Row
<1>4. PICK new \in Row : ~Exists(u) /\ users' = [users EXCEPT ![u] = new]
  BY <1>1, <1>2, <1>3, NewRow
<1>5. ReqInv("idle", NoClaims)'
  BY DEF ReqInv
<1>6. ASSUME NEW q \in Req, q # r PROVE ReqInv(pc[q], ctx[q])'
  <2>1. PICK m, d : m = pc[q] /\ d = ctx[q] /\ ReqInv(m, d)
    BY <1>1
  <2>2. ReqInv(m, d)'
    BY <1>1, <1>2, <1>4, <2>1, InsertKeeps
  <2> QED
    BY <1>1, <1>2, <1>6, <2>1, <2>2, OthersPrimed
<1>7. \A t \in tokens' : TokInv(t)'
  BY <1>1, <1>2, <1>4, InsertKeeps
<1>8. users' \in [User -> Row \cup {None}]
  BY <1>1, <1>4, RowTyped
<1>9. orgs' \in SUBSET User /\ disabledAt' \in [User -> 0..MaxNow]
  BY <1>1, <1>2 DEF Typed
<1> QED
  BY <1>2, <1>5, <1>6, <1>7, <1>8, <1>9, NoClaimsTyped, WriteStep DEF Labels

LEMMA EnableStep == ASSUME IInv, NEW r \in Req, NEW u \in User, Enable(r, u) PROVE IInv'
<1>1. Typed /\ (\A q \in Req : ReqInv(pc[q], ctx[q])) /\ \A t \in tokens : TokInv(t)
  BY DEF IInv
<1>2. /\ Exists(u) /\ users' = [users EXCEPT ![u].disabled = FALSE] /\ Goto(r, "idle", NoClaims)
      /\ UNCHANGED <<now, orgs, tokens, disabledAt>>
  BY DEF Enable, InScope, Finish
<1>3. PICK new \in Row :
        /\ users' = [users EXCEPT ![u] = new] /\ ~new.disabled
        /\ new.org = users[u].org /\ new.role = users[u].role /\ new.ver = users[u].ver
  <2> DEFINE w == users[u]
             n == [w EXCEPT !.disabled = FALSE]
  <2>1. users' = [users EXCEPT ![u] = n]
    BY <1>2
  <2>2. w \in [org : User, email : RawEmail, role : Role, disabled : BOOLEAN, ver : 0..MaxVer]
    BY <1>1, <1>2 DEF Typed, Exists, Row
  <2> HIDE DEF w
  <2>3. n \in Row /\ n.disabled = FALSE /\ n.org = w.org /\ n.role = w.role /\ n.ver = w.ver
    BY <2>2 DEF Row
  <2> QED
    BY <2>1, <2>3 DEF w
<1>4. users'[u] = new /\ new # None /\ \A v \in User : v # u => users'[v] = users[v]
  BY <1>1, <1>3, NoneAssumption DEF Typed
<1>5. ASSUME NEW c, Backed(c)
      PROVE  /\ Backed(c)' /\ (Disabled(c.user)' => Disabled(c.user))
             /\ users'[c.user].ver = users[c.user].ver
  BY <1>2, <1>3, <1>4, <1>5 DEF Backed, Exists, Disabled
<1>6. ASSUME NEW l, NEW c, ReqInv(l, c) PROVE ReqInv(l, c)'
  <2>1. CASE l = "tx"
    BY <1>2, <1>4, <1>6, <2>1 DEF ReqInv, Founding, Exists
  <2>2. CASE l \in {"issue", "getuser", "act"}
    BY <1>2, <1>5, <1>6, <2>2 DEF ReqInv
  <2>3. CASE l \notin {"tx", "issue", "getuser", "act"}
    BY <1>2, <1>6, <2>3 DEF ReqInv
  <2> QED
    BY <2>1, <2>2, <2>3
<1>7. \A t \in tokens' : TokInv(t)'
  BY <1>1, <1>2, <1>5 DEF TokInv
<1>8. ASSUME NEW q \in Req, q # r PROVE ReqInv(pc[q], ctx[q])'
  <2>1. PICK m, d : m = pc[q] /\ d = ctx[q] /\ ReqInv(m, d)
    BY <1>1
  <2> QED
    BY <1>1, <1>2, <1>6, <1>8, <2>1, OthersPrimed
<1>9. ReqInv("idle", NoClaims)'
  BY DEF ReqInv
<1>10. users' \in [User -> Row \cup {None}]
  BY <1>1, <1>3, RowTyped
<1>11. orgs' \in SUBSET User /\ disabledAt' \in [User -> 0..MaxNow]
  BY <1>1, <1>2 DEF Typed
<1> QED
  BY <1>2, <1>7, <1>8, <1>9, <1>10, <1>11, NoClaimsTyped, WriteStep DEF Labels

LEMMA RevokeClaims ==
  ASSUME NEW u \in User, NEW c \in Claims
  PROVE  /\ Revoke(c, u) \in Claims /\ Revoke(c, u).user = c.user /\ Revoke(c, u).org = c.org
         /\ Revoke(c, u).role = c.role /\ Revoke(c, u).ver = c.ver /\ Revoke(c, u).at = c.at
         /\ c.user # u => Revoke(c, u) = c
BY DEF Revoke, Claims

LEMMA RevokeToken ==
  ASSUME NEW u \in User, NEW t \in TokenType
  PROVE  /\ Revoke(t, u) \in TokenType /\ Revoke(t, u).user = t.user /\ Revoke(t, u).org = t.org
         /\ Revoke(t, u).role = t.role /\ Revoke(t, u).ver = t.ver /\ Revoke(t, u).exp = t.exp
         /\ Revoke(t, u).kind = t.kind
         /\ t.user # u => Revoke(t, u) = t
BY DEF Revoke, TokenType

\* A new version leaves every claim of the user behind; the others are untouched.
LEMMA BumpStep ==
  ASSUME IInv, NEW r \in Req, NEW u \in User, Exists(u), BumpVersion(u, r), NEW new \in Row,
         users' = [users EXCEPT ![u] = new], UNCHANGED <<now, orgs>>,
         new.org = users[u].org, new.role = users[u].role, new.ver = users[u].ver + 1,
         \/ new.disabled = users[u].disabled /\ disabledAt' = disabledAt
         \/ disabledAt' = [disabledAt EXCEPT ![u] = now]
  PROVE  IInv'
<1>1. Typed /\ TxUnique /\ (\A q \in Req : ReqInv(pc[q], ctx[q])) /\ \A t \in tokens : TokInv(t)
  BY DEF IInv
<1>2. /\ tokens' = {Revoke(t, u) : t \in tokens}
      /\ ctx' = [q \in Req |-> IF q = r THEN NoClaims ELSE Revoke(ctx[q], u)]
      /\ pc' = [pc EXCEPT ![r] = "idle"]
  BY DEF BumpVersion
<1>3. /\ users'[u] = new /\ new # None /\ users[u].ver \in Nat
      /\ \A v \in User : v # u => users'[v] = users[v] /\ disabledAt'[v] = disabledAt[v]
  BY <1>1, NoneAssumption, TimeAssumption DEF Typed, Exists, Row
<1>4. now \in Nat /\ disabledAt[u] \in Nat /\ disabledAt'[u] \in {disabledAt[u], now}
      /\ (Disabled(u)' /\ ~Disabled(u) => disabledAt'[u] = now)
  BY <1>1, <1>3, TimeAssumption DEF Typed, Disabled
<1>5. disabledAt' \in [User -> 0..MaxNow]
  BY <1>1 DEF Typed
<1>6. ASSUME NEW c, NEW d, Backed(c), c.ver \in Nat, d.user = c.user, d.org = c.org,
             d.role = c.role, d.ver = c.ver, c.user # u => d = c
      PROVE  Backed(d)' /\ (c.user = u => d.ver < users'[u].ver)
  BY <1>3, <1>6 DEF Backed, Exists
<1>7. ASSUME NEW l \in Labels, NEW c \in Claims, ReqInv(l, c), NEW d \in Claims, d = Revoke(c, u)
      PROVE  ReqInv(l, d)'
  <2>1. /\ d.user = c.user /\ d.org = c.org /\ d.role = c.role /\ d.ver = c.ver /\ d.at = c.at
        /\ c.user # u => d = c
    BY <1>7, RevokeClaims
  <2>2. c.ver \in Nat /\ c.at \in Nat
    BY TimeAssumption DEF Claims
  <2>3. CASE l = "tx"
    <3>1. c.user # u /\ d = c /\ Founding(c)
      BY <1>7, <2>1, <2>3 DEF ReqInv, Founding
    <3> QED
      BY <1>3, <1>7, <2>3, <3>1 DEF ReqInv, Founding, Exists
  <2>4. CASE l \in {"issue", "getuser", "act"} /\ c.user = u
    <3>1. Backed(d)' /\ d.ver < users'[u].ver /\ d.at <= now /\ now <= d.at + Latency
      BY <1>6, <1>7, <2>1, <2>2, <2>4 DEF ReqInv
    <3>2. l = "issue" /\ Disabled(u)' => d.at <= disabledAt'[u]
      BY <1>4, <1>7, <2>1, <2>2, <2>4 DEF ReqInv
    <3>3. l = "act" /\ Disabled(u)' => d.at < disabledAt'[u] + Latency + AccessTTL
      <4>1. d.at < now + Latency + AccessTTL
        BY <1>4, <2>1, <2>2, <3>1, TimeAssumption
      <4> QED
        BY <1>4, <1>7, <2>1, <2>2, <2>4, <4>1 DEF ReqInv
    <3> QED
      BY <2>1, <2>4, <3>1, <3>2, <3>3 DEF ReqInv
  <2>5. CASE l \in {"issue", "getuser", "act"} /\ c.user # u
    <3>1. c.user \in User /\ d = c /\ Backed(d)'
      BY <1>6, <1>7, <2>1, <2>2, <2>5 DEF ReqInv, Backed
    <3> QED
      BY <1>3, <1>7, <2>5, <3>1 DEF ReqInv, Disabled
  <2>6. CASE l = "idle"
    BY <2>6 DEF ReqInv
  <2> QED
    BY <2>3, <2>4, <2>5, <2>6 DEF Labels
<1>8. ASSUME NEW t, TokInv(t), NEW d, d = Revoke(t, u) PROVE TokInv(d)'
  <2>0. t \in TokenType /\ Backed(t) /\ t.user \in User
    BY <1>8 DEF TokInv, Backed
  <2>1. /\ d \in TokenType /\ d.user = t.user /\ d.org = t.org /\ d.role = t.role /\ d.ver = t.ver
        /\ d.exp = t.exp /\ d.kind = t.kind /\ (t.user # u => d = t)
    BY <1>8, <2>0, RevokeToken
  <2>2. t.ver \in Nat /\ t.exp \in Nat
    BY <2>0, TimeAssumption DEF TokenType
  <2>3. Backed(d)' /\ (t.user = u => d.ver < users'[u].ver)
    BY <1>6, <2>0, <2>1, <2>2
  <2>4. CASE t.user = u
    <3>1. d.kind = "access" => d.exp <= now' + AccessTTL
      BY <1>8, <2>1 DEF TokInv
    <3>2. d.kind = "access" /\ Disabled(u)' => d.exp <= disabledAt'[u] + Latency + AccessTTL
      <4>1. d.kind = "access" => d.exp <= now + Latency + AccessTTL
        BY <1>4, <2>1, <2>2, <3>1, TimeAssumption
      <4> QED
        BY <1>4, <1>8, <2>1, <2>2, <2>4, <4>1 DEF TokInv
    <3> QED
      BY <2>1, <2>3, <2>4, <3>1, <3>2 DEF TokInv
  <2>5. CASE t.user # u
    BY <1>3, <1>8, <2>0, <2>1, <2>3, <2>5 DEF TokInv, Disabled
  <2> QED
    BY <2>4, <2>5
<1>9. \A q \in Req : /\ q = r => pc'[q] = "idle"
                     /\ q # r => pc'[q] = pc[q] /\ ctx'[q] = Revoke(ctx[q], u)
  BY <1>1, <1>2 DEF Typed
<1>10. \A q \in Req : ctx[q] \in Claims /\ Revoke(ctx[q], u) \in Claims /\ Revoke(ctx[q], u).user = ctx[q].user
  BY <1>1, RevokeClaims DEF Typed
<1>11. Typed'
  <2>1. pc' \in [Req -> {"idle", "tx", "issue", "getuser", "act"}]
    BY <1>1, <1>2 DEF Typed
  <2>2. ctx' \in [Req -> Claims]
    BY <1>2, <1>10, NoClaimsTyped
  <2>3. users' \in [User -> Row \cup {None}]
    BY <1>1, RowTyped
  <2> QED
    BY <1>1, <1>5, <2>1, <2>2, <2>3 DEF Typed
<1>12. TxUnique'
  BY <1>1, <1>9, <1>10 DEF TxUnique
<1>13. ASSUME NEW q \in Req PROVE ReqInv(pc[q], ctx[q])'
  <2>1. CASE q = r
    BY <1>9, <2>1 DEF ReqInv
  <2>2. CASE q # r
    <3>1. PICK l \in Labels, c \in Claims, d \in Claims :
            l = pc[q] /\ c = ctx[q] /\ d = Revoke(c, u) /\ ReqInv(l, c)
      BY <1>1, <1>10 DEF Typed, Labels
    <3>2. ReqInv(l, d)'
      BY <1>7, <3>1
    <3>3. pc'[q] = l /\ ctx'[q] = d
      BY <1>9, <2>2, <3>1
    <3> QED
      BY <3>2, <3>3 DEF ReqInv, Founding, Backed, Exists, Disabled
  <2> QED
    BY <2>1, <2>2
<1>14. \A t \in tokens' : TokInv(t)'
  BY <1>1, <1>2, <1>8
<1> QED
  BY <1>11, <1>12, <1>13, <1>14 DEF IInv

LEMMA BumpedRow ==
  ASSUME Typed, NEW u \in User, Exists(u), users[u].ver < MaxVer
  PROVE  /\ [users[u] EXCEPT !.ver = @ + 1] \in Row
         /\ [users[u] EXCEPT !.disabled = TRUE, !.ver = @ + 1] \in Row
<1> DEFINE w == users[u]
<1>1. w \in [org : User, email : RawEmail, role : Role, disabled : BOOLEAN, ver : 0..MaxVer]
  BY DEF Typed, Exists, Row
<1>2. w.ver + 1 \in 0..MaxVer
  BY <1>1, TimeAssumption
<1> HIDE DEF w
<1>3. [w EXCEPT !.ver = @ + 1] \in Row /\ [w EXCEPT !.disabled = TRUE, !.ver = @ + 1] \in Row
  BY <1>1, <1>2 DEF Row
<1> QED
  BY <1>3 DEF w

LEMMA LogoutStep == ASSUME IInv, NEW r \in Req, Logout(r) PROVE IInv'
<1>1. Typed /\ ReqInv(pc[r], ctx[r])
  BY DEF IInv
<1>2. PICK u : u = ctx[r].user
  OBVIOUS
<1>3. /\ pc[r] = "act" /\ BumpVersion(u, r) /\ users' = [users EXCEPT ![u].ver = @ + 1]
      /\ UNCHANGED <<now, orgs, disabledAt>>
  BY <1>2 DEF Logout, Bumped
<1>4. u \in User /\ Exists(u) /\ users[u].ver < MaxVer
  BY <1>1, <1>2, <1>3 DEF ReqInv, Backed, BumpVersion
<1> DEFINE w == users[u]
           n == [w EXCEPT !.ver = @ + 1]
<1>5. n \in Row /\ users' = [users EXCEPT ![u] = n]
  BY <1>1, <1>3, <1>4, BumpedRow
<1>6. w \in [org : User, email : RawEmail, role : Role, disabled : BOOLEAN, ver : 0..MaxVer]
  BY <1>1, <1>4 DEF Typed, Exists, Row
<1>7. n.org = w.org /\ n.role = w.role /\ n.disabled = w.disabled /\ n.ver = w.ver + 1
  <2> HIDE DEF w
  <2> QED
    BY <1>6
<1> QED
  BY <1>3, <1>4, <1>5, <1>7, BumpStep

LEMMA DisableStep == ASSUME IInv, NEW r \in Req, NEW u \in User, Disable(r, u) PROVE IInv'
<1>1. Typed
  BY DEF IInv
<1>2. /\ Exists(u) /\ BumpVersion(u, r) /\ users' = [users EXCEPT ![u].disabled = TRUE, ![u].ver = @ + 1]
      /\ disabledAt' = [disabledAt EXCEPT ![u] = now] /\ UNCHANGED <<now, orgs>>
  BY DEF Disable, InScope, Bumped
<1>3. users[u].ver < MaxVer
  BY <1>2 DEF BumpVersion
<1> DEFINE w == users[u]
           n == [w EXCEPT !.disabled = TRUE, !.ver = @ + 1]
<1>4. w \in [org : User, email : RawEmail, role : Role, disabled : BOOLEAN, ver : 0..MaxVer]
  BY <1>1, <1>2 DEF Typed, Exists, Row
<1>5. users' = [users EXCEPT ![u] = n]
  BY <1>1, <1>2, <1>4 DEF Typed
<1>6. n \in Row
  BY <1>1, <1>2, <1>3, BumpedRow
<1>7. n.org = w.org /\ n.role = w.role /\ n.ver = w.ver + 1
  <2> HIDE DEF w
  <2> QED
    BY <1>4
<1> QED
  BY <1>2, <1>5, <1>6, <1>7, BumpStep

LEMMA TickStep == ASSUME IInv, Tick PROVE IInv'
<1>1. Typed /\ TxUnique /\ (\A q \in Req : ReqInv(pc[q], ctx[q])) /\ \A t \in tokens : TokInv(t)
  BY DEF IInv
<1>2. /\ now < MaxNow /\ now' = now + 1 /\ tokens' \subseteq tokens
      /\ \A r \in Req : pc[r] # "idle" => now < ctx[r].at + Latency
      /\ UNCHANGED <<orgs, users, pc, ctx, disabledAt>>
  BY DEF Tick
<1>3. Typed'
  <2>1. now' \in 0..MaxNow
    BY <1>1, <1>2, TimeAssumption DEF Typed
  <2> QED
    BY <1>1, <1>2, <2>1 DEF Typed
<1>4. TxUnique'
  BY <1>1, <1>2 DEF TxUnique
<1>5. now \in Nat
  BY <1>1, TimeAssumption DEF Typed
<1>6. ASSUME NEW q \in Req PROVE ReqInv(pc[q], ctx[q])'
  <2>1. ctx[q].at \in Nat
    BY <1>1, TimeAssumption DEF Typed, Claims
  <2>2. pc[q] # "idle" => ctx[q].at <= now' /\ now' <= ctx[q].at + Latency
    BY <1>1, <1>2, <1>5, <2>1, TimeAssumption DEF ReqInv
  <2> QED
    BY <1>1, <1>2, <2>2 DEF ReqInv, Founding, Backed, Exists, Disabled
<1>7. ASSUME NEW t, TokInv(t) PROVE TokInv(t)'
  <2>1. t.exp \in Nat
    BY <1>7 DEF TokInv, TokenType
  <2>2. t.kind = "access" => t.exp <= now' + AccessTTL
    BY <1>2, <1>5, <1>7, <2>1, TimeAssumption DEF TokInv
  <2> QED
    BY <1>2, <1>7, <2>2 DEF TokInv, Backed, Exists, Disabled
<1> QED
  BY <1>1, <1>2, <1>3, <1>4, <1>6, <1>7 DEF IInv

-----------------------------------------------------------------------------
(* The invariant. *)

LEMMA InvInit == Init => IInv
<1> SUFFICES ASSUME Init PROVE IInv
  OBVIOUS
<1>1. 0 \in 0..MaxNow
  BY TimeAssumption
<1>2. Typed
  BY <1>1, NoClaimsTyped DEF Init, Typed
<1> QED
  BY <1>2 DEF Init, IInv, TxUnique, ReqInv

LEMMA InvStep == IInv /\ [Next]_vars => IInv'
<1> SUFFICES ASSUME IInv, [Next]_vars PROVE IInv'
  OBVIOUS
<1>1. ASSUME NEW r \in Req, Abort(r) PROVE IInv'
  BY <1>1, FinishStep DEF Abort, IInv
<1>2. CASE UNCHANGED vars
  <2>1. Typed' /\ TxUnique'
    BY <1>2 DEF vars, IInv, Typed, TxUnique
  <2> QED
    BY <1>2, <2>1 DEF vars, IInv, ReqInv, TokInv, Founding, Backed, Exists, Disabled
<1> QED
  BY <1>1, <1>2, SignStep, FromTokenStep, LoginStep, RefreshStep, RegisterInsertStep, RegisterStep,
     CreateStep, EnableStep, LogoutStep, DisableStep, TickStep DEF Next

LEMMA Invariance == Spec => []IInv
BY InvInit, InvStep, PTL DEF Spec

-----------------------------------------------------------------------------
\* A refresh token that goes back before a logout or a disabling is never
\* accepted again, whoever signed it and when.
THEOREM RevokedRefreshIsRefused == Spec => []RevokedStaysRevoked
<1>1. ASSUME IInv PROVE RevokedStaysRevoked
  <2>1. \A t \in tokens : t.revoked => t.ver < users[t.user].ver
    BY <1>1 DEF IInv, TokInv, Backed
  <2>2. \A t \in tokens : t.ver \in Int
    BY <1>1 DEF IInv, TokInv, TokenType
  <2>3. \A t \in tokens : t.revoked => t.ver # users[t.user].ver
    BY <2>1, <2>2
  <2> QED
    BY <2>3 DEF RevokedStaysRevoked
<1> QED
  BY <1>1, Invariance, PTL

\* Refresh needs no look at users.disabled: a disabled user has no claim of the
\* current version, in a token or in a request about to sign one.
THEOREM DisabledCannotRefresh == Spec => []DisabledHoldsNoCurrentClaim
<1>1. ASSUME IInv PROVE DisabledHoldsNoCurrentClaim
  <2> SUFFICES ASSUME NEW u \in User, Exists(u), users[u].disabled
               PROVE  /\ \A t \in tokens : t.user = u => t.ver # users[u].ver
                      /\ \A r \in Req : pc[r] \in {"issue", "getuser"} /\ ctx[r].user = u =>
                                          ctx[r].ver # users[u].ver
    BY DEF DisabledHoldsNoCurrentClaim
  <2>1. ASSUME NEW t \in tokens, t.user = u PROVE t.ver # users[u].ver
    <3>1. t.ver < users[u].ver /\ t.ver \in Int
      BY <1>1, <2>1 DEF IInv, TokInv, TokenType, Disabled
    <3> QED
      BY <3>1
  <2>2. ASSUME NEW r \in Req, pc[r] \in {"issue", "getuser"}, ctx[r].user = u
        PROVE  ctx[r].ver # users[u].ver
    <3>1. ctx[r].ver < users[u].ver
      BY <1>1, <2>2 DEF IInv, ReqInv, Disabled
    <3>2. ctx[r].ver \in Int
      BY <1>1 DEF IInv, Typed, Claims
    <3> QED
      BY <3>1, <3>2
  <2> QED
    BY <2>1, <2>2
<1> QED
  BY <1>1, Invariance, PTL

\* A disabled user is let in for at most the life of an access token and the
\* latency of one request, whatever the lives and latencies are.
THEOREM DisabledAccessIsBounded == Spec => []DisabledAccessBounded
<1>1. IInv => DisabledAccessBounded
  BY DEF IInv, ReqInv, Disabled, DisabledAccessBounded
<1> QED
  BY <1>1, Invariance, PTL

\* No row changes but by a request of its user or of an admin of its
\* organization.
THEOREM OrganizationsAreIsolated == Spec => OrgIsolation
<1> DEFINE Isolated ==
      \A u \in User : Exists(u) /\ users'[u] # users[u] =>
        \E r \in Req : /\ pc[r] = "act" /\ pc'[r] = "idle"
                       /\ \/ ctx[r].user = u
                          \/ ctx[r].role = "admin" /\ ctx[r].org = users[u].org
<1>1. ASSUME IInv, [Next]_vars PROVE [Isolated]_vars
  <2>1. Typed
    BY <1>1 DEF IInv
  <2>2. ASSUME UNCHANGED users PROVE Isolated
    BY <2>2
  <2>3. ASSUME NEW r \in Req, NEW x \in User, NEW o, NEW e, NEW role, InsertUser(x, o, e, role)
        PROVE  Isolated
    BY <2>1, <2>3 DEF InsertUser, Typed
  <2>4. ASSUME NEW r \in Req, Logout(r) PROVE Isolated
    <3>1. pc[r] = "act" /\ pc'[r] = "idle" /\ \A v \in User : v # ctx[r].user => users'[v] = users[v]
      BY <2>1, <2>4 DEF Logout, BumpVersion, Typed
    <3> QED
      BY <3>1
  <2>5. ASSUME NEW r \in Req, NEW x \in User, Disable(r, x) \/ Enable(r, x) PROVE Isolated
    <3>1. /\ pc[r] = "act" /\ pc'[r] = "idle" /\ ctx[r].role = "admin" /\ users[x].org = ctx[r].org
      BY <2>1, <2>5 DEF Disable, Enable, BumpVersion, Finish, Goto, requireAdmin, InScope, Typed
    <3>2. \A v \in User : v # x => users'[v] = users[v]
      BY <2>1, <2>5 DEF Disable, Enable, Typed
    <3> QED
      BY <3>1, <3>2
  <2>6. ASSUME NEW r \in Req, NEW e \in RawEmail, RegisterOrg(r, e) PROVE Isolated
    <3>1. ctx[r].user \in User
      BY <1>1, <2>6 DEF RegisterOrg, IInv, ReqInv, Founding
    <3> QED
      BY <2>3, <2>6, <3>1 DEF RegisterOrg
  <2>7. ASSUME NEW r \in Req, NEW x \in User, NEW e \in RawEmail, NEW role \in Role,
               CreateUser(r, x, e, role)
        PROVE  Isolated
    BY <2>3, <2>7 DEF CreateUser
  <2> HIDE DEF Isolated
  <2>8. ASSUME NEW r \in Req,
               \/ Abort(r) \/ respondWithTokens(r) \/ Middleware(r) \/ RefreshParse(r) \/ Refresh(r)
               \/ \E e \in RawEmail : Login(r, e)
               \/ \E u \in User : RegisterOrgInsert(r, u)
        PROVE  Isolated
    BY <2>2, <2>8 DEF Abort, respondWithTokens, Middleware, RefreshParse, Refresh, Login,
                      RegisterOrgInsert
  <2> QED
    BY <1>1, <2>2, <2>4, <2>5, <2>6, <2>7, <2>8 DEF Next, Tick
<1> QED
  BY <1>1, Invariance, PTL DEF Spec, OrgIsolation

\* What a signed token and a request past the middleware say of the user's
\* organization and role is what the row says, although neither is read again.
ClaimsTruthful ==
  /\ \A t \in tokens : t.org = users[t.user].org /\ t.role = users[t.user].role
  /\ \A r \in Req : pc[r] = "act" =>
       ctx[r].org = users[ctx[r].user].org /\ ctx[r].role = users[ctx[r].user].role

\* The middleware may trust the claims without the database: organization and
\* role of a user never change.
THEOREM ClaimsAreTruthful == Spec => []ClaimsTruthful
<1>1. IInv => ClaimsTruthful
  BY DEF IInv, TokInv, ReqInv, Backed, ClaimsTruthful
<1> QED
  BY <1>1, Invariance, PTL
=============================================================================
