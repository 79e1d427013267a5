-------------------------- MODULE RateLimitProofs --------------------------
(***************************************************************************)
(* Proofs about RateLimit, for any requests, routes, addresses and trusted *)
(* proxies, any limit and any window.                                      *)
(***************************************************************************)
EXTENDS RateLimit, TLAPS

\* A counter that is about to get its time to live has none yet, and one
\* request is about to give it.
Owed(k) == \E r \in Req : pc[r] = "expire" /\ key[r] = k
OneExpire ==
  /\ \A r, q \in Req : pc[r] = "expire" /\ pc[q] = "expire" /\ key[r] = key[q] => r = q
  /\ \A r \in Req : pc[r] = "expire" => n[key[r]] > 0 /\ left[key[r]] = Forever

\* The key of a request in flight from a direct client names that client.
OwnKey ==
  \A r \in Req : pc[r] # "idle" /\ host[r] \notin Trusted => key[r][2] = host[r]

\* Of the last requests let through, those from the m-th on were let through
\* when the counter got its time to live or before; a request at EXPIRE has
\* taken one of the m places without having been let through.  All from the
\* max-th on are a window old when a counter starts.
Places(k) == IF n[k] < max THEN n[k] ELSE max
Pending(k) == IF Owed(k) THEN 1 ELSE 0
Windows ==
  \A k \in Key : k[2] \notin Trusted =>
    \A i \in Recent :
      /\ i >= Places(k) => admitted[k][i] >= window - left[k]
      /\ i >= Places(k) - Pending(k) + max => admitted[k][i] = window

\* A counter without a time to live is about to get one or was orphaned.
EndInSight == \A k \in Key : n[k] > 0 /\ left[k] = Forever => k \in orphaned \/ Owed(k)

IInv == TypeOK /\ OneExpire /\ OwnKey /\ Windows /\ EndInSight

-----------------------------------------------------------------------------
LEMMA Numbers ==
  /\ max \in Nat /\ max >= 1 /\ window \in Nat /\ window >= 1
  /\ Forever = window + 1 /\ MaxCount = max + 1 /\ Recent = 1..(2 * max)
BY LimitAssumption DEF Forever, MaxCount, Recent

LEMMA InitInv == Init => IInv
<1> SUFFICES ASSUME Init PROVE IInv
  OBVIOUS
<1>1. (CHOOSE a \in Addr : TRUE) \in Addr
  BY AddrAssumption
<1>2. (CHOOSE k \in Key : TRUE) \in Key
  <2>1. PICK a \in Addr, t \in Route : <<t, a>> \in Key
    BY AddrAssumption, RouteAssumption DEF Key
  <2> QED
    BY <2>1
<1>3. TypeOK
  BY <1>1, <1>2, Numbers DEF Init, TypeOK
<1>4. OneExpire /\ OwnKey /\ EndInSight
  BY Numbers DEF Init, OneExpire, OwnKey, EndInSight
<1>5. Windows
  BY Numbers DEF Init, Windows, Forever
<1> QED
  BY <1>3, <1>4, <1>5 DEF IInv

\* What the proofs of the steps use of the types.
LEMMA Types ==
  ASSUME TypeOK
  PROVE  /\ \A k \in Key : /\ n[k] \in Nat /\ n[k] <= max + 1
                           /\ left[k] \in Nat /\ left[k] >= 1 /\ left[k] <= window + 1
                           /\ \A i \in Recent : admitted[k][i] \in Nat /\ admitted[k][i] <= window
         /\ \A r \in Req : key[r] \in Key /\ host[r] \in Addr /\ <<key[r][1], host[r]>> \in Key
<1>1. ASSUME NEW k \in Key
      PROVE  n[k] \in 0..MaxCount /\ left[k] \in 1..Forever /\ admitted[k] \in [Recent -> 0..window]
  BY DEF TypeOK
<1>2. ASSUME NEW k \in Key, NEW i \in Recent
      PROVE  admitted[k][i] \in Nat /\ admitted[k][i] <= window
  <2>1. admitted[k][i] \in 0..window
    BY <1>1
  <2> QED
    BY <2>1, Numbers
<1>3. ASSUME NEW k \in Key
      PROVE  /\ n[k] \in Nat /\ n[k] <= max + 1
             /\ left[k] \in Nat /\ left[k] >= 1 /\ left[k] <= window + 1
  BY <1>1, Numbers
<1>4. ASSUME NEW r \in Req
      PROVE  key[r] \in Key /\ host[r] \in Addr /\ <<key[r][1], host[r]>> \in Key
  <2>1. key[r] \in Key /\ host[r] \in Addr
    BY DEF TypeOK
  <2> QED
    BY <2>1 DEF Key
<1> QED
  BY <1>2, <1>3, <1>4

LEMMA CountedValue ==
  ASSUME TypeOK, NEW k \in Key
  PROVE  /\ Counted(k) \in 0..MaxCount /\ Counted(k) > 0
         /\ n[k] <= max => Counted(k) = n[k] + 1
         /\ n[k] > max => Counted(k) = n[k]
BY Types, Numbers DEF Counted

\* A request let through moves the earlier ones back by one.
LEMMA Admission ==
  ASSUME TypeOK, NEW r \in Req, NEW c \in Nat, Decide(r, c)
  PROVE  /\ pc' = [pc EXCEPT ![r] = "idle"]
         /\ admitted' \in [Key -> [Recent -> 0..window]]
         /\ \A k \in Key : c > max \/ k # <<key[r][1], host[r]>> => admitted'[k] = admitted[k]
         /\ c <= max => \A i \in Recent :
              admitted'[<<key[r][1], host[r]>>][i] =
                IF i = 1 THEN 0 ELSE admitted[<<key[r][1], host[r]>>][i - 1]
<1> DEFINE k0 == <<key[r][1], host[r]>>
           new == [i \in Recent |-> IF i = 1 THEN 0 ELSE admitted[k0][i - 1]]
<1>1. pc' = [pc EXCEPT ![r] = "idle"]
  BY DEF Decide, Goto
<1>2. k0 \in Key
  BY Types
<1>3. new \in [Recent -> 0..window]
  BY <1>2, Numbers DEF TypeOK
<1>4. admitted' = IF c <= max THEN [admitted EXCEPT ![k0] = new] ELSE admitted
  BY <1>2 DEF Decide, TypeOK
<1>5. \A i \in Recent : new[i] = IF i = 1 THEN 0 ELSE admitted[k0][i - 1]
  OBVIOUS
<1> HIDE DEF k0, new
<1>6. admitted \in [Key -> [Recent -> 0..window]]
  BY DEF TypeOK
<1>7. /\ admitted' \in [Key -> [Recent -> 0..window]]
      /\ \A k \in Key : c > max \/ k # k0 => admitted'[k] = admitted[k]
      /\ c <= max => admitted'[k0] = new
  BY <1>2, <1>3, <1>4, <1>6, Numbers
<1> QED
  BY <1>1, <1>5, <1>7 DEF k0

\* The key a direct client is let through for is the one it is counted by.
LEMMA DirectKey ==
  ASSUME TypeOK, OwnKey, NEW r \in Req, pc[r] # "idle", host[r] \notin Trusted
  PROVE  <<key[r][1], host[r]>> = key[r]
BY DEF TypeOK, Key, OwnKey

-----------------------------------------------------------------------------
LEMMA MiddlewareStep == ASSUME IInv, NEW r \in Req, Middleware(r) PROVE IInv'
<1>1. TypeOK /\ OneExpire /\ OwnKey /\ Windows /\ EndInSight
  BY DEF IInv
<1>2. PICK route \in Route, h \in Addr, xff \in Addr \cup {NoHeader} :
        /\ host' = [host EXCEPT ![r] = h]
        /\ key' = [key EXCEPT ![r] = <<route, ClientIP(h, xff)>>]
  BY DEF Middleware
<1>3. <<route, ClientIP(h, xff)>> \in Key /\ (h \notin Trusted => ClientIP(h, xff) = h)
  BY <1>2 DEF ClientIP, Key
<1>4. pc[r] = "idle" /\ pc' = [pc EXCEPT ![r] = "incr"] /\ UNCHANGED <<n, left, orphaned, admitted>>
  BY DEF Middleware
<1>5. TypeOK'
  BY <1>1, <1>2, <1>3, <1>4 DEF TypeOK, Key
<1>6. \A q \in Req : /\ pc'[q] = "expire" <=> pc[q] = "expire"
                     /\ pc'[q] = "expire" => key'[q] = key[q]
                     /\ q # r => pc'[q] = pc[q] /\ key'[q] = key[q] /\ host'[q] = host[q]
  BY <1>1, <1>2, <1>4 DEF TypeOK
<1>7. \A k \in Key : Owed(k)' = Owed(k) /\ Places(k)' = Places(k)
  BY <1>4, <1>6 DEF Owed, Places
<1>8. OneExpire'
  BY <1>1, <1>4, <1>6 DEF OneExpire
<1>9. OwnKey'
  BY <1>1, <1>2, <1>3, <1>6 DEF OwnKey, TypeOK
<1>10. Windows' /\ EndInSight'
  BY <1>1, <1>4, <1>7 DEF Windows, EndInSight, Pending
<1> QED
  BY <1>5, <1>8, <1>9, <1>10 DEF IInv

\* INCR on key[r]; the first of a window goes on to EXPIRE.
LEMMA IncrStep == ASSUME IInv, NEW r \in Req, Incr(r) PROVE IInv'
<1>1. TypeOK /\ OneExpire /\ OwnKey /\ Windows /\ EndInSight
  BY DEF IInv
<1>2. PICK k \in Key : k = key[r]
  BY <1>1, Types
<1>3. /\ pc[r] = "incr" /\ n' = [n EXCEPT ![k] = Counted(k)]
      /\ UNCHANGED <<left, host, key, orphaned>>
  BY <1>2 DEF Incr
<1>4. /\ \A x \in Key : n'[x] = IF x = k THEN Counted(k) ELSE n[x]
      /\ n' \in [Key -> 0..MaxCount] /\ n'[k] = Counted(k) /\ n'[k] \in Nat
  BY <1>1, <1>2, <1>3, CountedValue, Numbers DEF TypeOK
<1>5. CASE n[k] = 0
  <2>1. n'[k] = 1
    BY <1>1, <1>2, <1>4, <1>5, CountedValue, Numbers
  <2>2. pc' = [pc EXCEPT ![r] = "expire"] /\ admitted' = admitted
    BY <1>2, <2>1 DEF Incr, FirstInWindow, Goto
  <2>3. \A q \in Req : pc'[q] = IF q = r THEN "expire" ELSE pc[q]
    BY <1>1, <2>2 DEF TypeOK
  <2>4. left[k] = Forever /\ \A q \in Req : pc[q] = "expire" => key[q] # k
    BY <1>1, <1>2, <1>5 DEF TypeOK, OneExpire
  <2>5. TypeOK'
    <3>1. pc' \in [Req -> {"idle", "incr", "expire"}]
      BY <1>1, <2>2 DEF TypeOK
    <3>2. \A x \in Key : n'[x] = 0 => left'[x] = Forever
      BY <1>1, <1>3, <1>4, <2>1 DEF TypeOK
    <3> QED
      BY <1>1, <1>3, <1>4, <2>2, <3>1, <3>2 DEF TypeOK
  <2>6. OneExpire'
    <3>1. \A x \in Key : n[x] > 0 => n'[x] > 0
      BY <1>1, <1>4, <1>5, <2>1, Types
    <3> QED
      BY <1>1, <1>2, <1>3, <2>1, <2>3, <2>4, <3>1, Types DEF OneExpire
  <2>7. OwnKey'
    BY <1>1, <1>3, <2>3 DEF OwnKey
  <2>8. Owed(k)' /\ ~Owed(k) /\ \A x \in Key \ {k} : Owed(x)' = Owed(x)
    BY <1>2, <1>3, <2>3, <2>4 DEF Owed
  <2>9. EndInSight'
    BY <1>1, <1>3, <1>4, <2>8 DEF EndInSight
  <2>10. Places(k)' = 1 /\ Places(k) = 0 /\ \A x \in Key \ {k} : Places(x)' = Places(x)
    BY <1>4, <1>5, <2>1, Numbers DEF Places
  <2>11. Windows'
    <3> SUFFICES ASSUME NEW x \in Key, x[2] \notin Trusted, NEW i \in Recent
                 PROVE  /\ i >= Places(x)' => admitted'[x][i] >= window - left'[x]
                        /\ i >= Places(x)' - Pending(x)' + max => admitted'[x][i] = window
      BY DEF Windows
    <3>1. CASE x = k
      <4>1. i >= max => admitted[x][i] = window
        BY <1>1, <2>8, <2>10, <3>1, Numbers DEF Windows, Pending
      <4>2. admitted[x][i] >= window - left[x]
        BY <1>1, <2>4, <3>1, Types, Numbers
      <4> QED
        BY <1>3, <2>2, <2>8, <2>10, <3>1, <4>1, <4>2, Numbers DEF Pending
    <3>2. CASE x # k
      BY <1>1, <1>3, <2>2, <2>8, <2>10, <3>2 DEF Windows, Pending
    <3> QED
      BY <3>1, <3>2
  <2> QED
    BY <2>5, <2>6, <2>7, <2>9, <2>11 DEF IInv
<1>6. CASE n[k] > 0
  <2>1. n'[k] > 1 /\ (n'[k] <= max => n'[k] = n[k] + 1) /\ n'[k] >= n[k] /\ n'[k] <= n[k] + 1
    BY <1>1, <1>2, <1>4, <1>6, CountedValue, Types, Numbers
  <2>2. Decide(r, n'[k])
    BY <1>2, <2>1 DEF Incr, FirstInWindow
  <2>3. /\ pc' = [pc EXCEPT ![r] = "idle"]
        /\ admitted' \in [Key -> [Recent -> 0..window]]
        /\ \A x \in Key : n'[k] > max \/ x # <<key[r][1], host[r]>> => admitted'[x] = admitted[x]
        /\ n'[k] <= max => \A i \in Recent :
             admitted'[<<key[r][1], host[r]>>][i] =
               IF i = 1 THEN 0 ELSE admitted[<<key[r][1], host[r]>>][i - 1]
    BY <1>1, <1>4, <2>2, Admission
  <2>4. \A q \in Req : /\ pc'[q] = "expire" <=> pc[q] = "expire"
                       /\ pc'[q] # "idle" => pc[q] # "idle"
    BY <1>1, <1>3, <2>3 DEF TypeOK
  <2>5. TypeOK'
    <3>1. pc' \in [Req -> {"idle", "incr", "expire"}]
      BY <1>1, <2>3 DEF TypeOK
    <3>2. \A x \in Key : n'[x] = 0 => left'[x] = Forever
      BY <1>1, <1>3, <1>4, <2>1 DEF TypeOK
    <3> QED
      BY <1>1, <1>3, <1>4, <2>3, <3>1, <3>2 DEF TypeOK
  <2>6. \A x \in Key : Owed(x)' = Owed(x)
    BY <1>3, <2>4 DEF Owed
  <2>7. OneExpire' /\ OwnKey'
    BY <1>1, <1>3, <1>4, <2>1, <2>4, Types DEF OneExpire, OwnKey
  <2>8. EndInSight'
    BY <1>1, <1>3, <1>4, <1>6, <2>6 DEF EndInSight
  <2>9. /\ Places(k)' >= Places(k) /\ (n'[k] <= max => Places(k)' = Places(k) + 1 /\ Places(k) >= 1)
        /\ Places(k) \in Nat /\ Places(k)' \in Nat
        /\ \A x \in Key \ {k} : Places(x)' = Places(x)
    BY <1>1, <1>2, <1>4, <1>6, <2>1, Types, Numbers DEF Places
  <2>10. Windows'
    <3> SUFFICES ASSUME NEW x \in Key, x[2] \notin Trusted, NEW i \in Recent
                 PROVE  /\ i >= Places(x)' => admitted'[x][i] >= window - left'[x]
                        /\ i >= Places(x)' - Pending(x)' + max => admitted'[x][i] = window
      BY DEF Windows
    <3>1. Pending(x)' = Pending(x) /\ Pending(x) \in {0, 1}
      BY <2>6 DEF Pending
    <3>2. \A j \in Recent : /\ j >= Places(x) => admitted[x][j] >= window - left[x]
                            /\ j >= Places(x) - Pending(x) + max => admitted[x][j] = window
      BY <1>1 DEF Windows
    <3>3. CASE n'[k] > max \/ x # <<key[r][1], host[r]>>
      <4>1. admitted'[x] = admitted[x] /\ Places(x)' >= Places(x) /\ Places(x) \in Nat /\ Places(x)' \in Nat
        <5>1. admitted'[x] = admitted[x]
          BY <2>3, <3>3
        <5>2. x # k => Places(x)' = Places(x) /\ Places(x) \in Nat
          BY <1>1, <2>9, Types, Numbers DEF Places
        <5> QED
          BY <2>9, <5>1, <5>2
      <4>2. i \in Nat /\ max \in Nat /\ Pending(x) \in Nat
        BY <3>1, Numbers
      <4>3. i >= Places(x)' => i >= Places(x)
        BY <4>1, <4>2
      <4>4. i >= Places(x)' - Pending(x)' + max => i >= Places(x) - Pending(x) + max
        BY <3>1, <4>1, <4>2
      <4> QED
        BY <1>3, <3>2, <4>1, <4>3, <4>4
    <3>4. CASE n'[k] <= max /\ x = <<key[r][1], host[r]>>
      <4>1. x = k
        <5>1. host[r] \notin Trusted
          BY <3>4
        <5> QED
          BY <1>1, <1>2, <1>3, <3>4, <5>1, DirectKey
      <4>2. admitted'[x][i] = IF i = 1 THEN 0 ELSE admitted[x][i - 1]
        BY <2>3, <3>4
      <4>3. Places(x)' = Places(x) + 1 /\ Places(x) \in Nat /\ Places(x) >= 1
        BY <2>9, <3>4, <4>1
      <4>4. i # 1 => i - 1 \in Recent
        BY Numbers
      <4>5. i \in Nat /\ max \in Nat /\ max >= 1
        BY Numbers
      <4> QED
        BY <1>3, <3>1, <3>2, <4>2, <4>3, <4>4, <4>5
    <3> QED
      BY <1>4, <3>3, <3>4, Numbers
  <2> QED
    BY <2>5, <2>7, <2>8, <2>10 DEF IInv
<1> QED
  BY <1>1, <1>2, <1>5, <1>6, Types

\* INCR fails, with or without effect, or is sent again.
LEMMA IncrErrorStep ==
  ASSUME IInv, NEW r \in Req, IncrError(r) \/ IncrResend(r) PROVE IInv'
<1>1. TypeOK /\ OneExpire /\ OwnKey /\ Windows /\ EndInSight
  BY DEF IInv
<1>2. PICK k \in Key : k = key[r]
  BY <1>1, Types
<1>3. /\ pc[r] = "incr" /\ (pc' = [pc EXCEPT ![r] = "idle"] \/ pc' = pc)
      /\ UNCHANGED <<left, host, key, admitted>>
  BY DEF IncrError, IncrResend, Goto
<1>4. PICK c \in 0..MaxCount :
        /\ c >= n[k] /\ n' = [n EXCEPT ![k] = c]
        /\ c # n[k] /\ n[k] = 0 => k \in orphaned'
        /\ orphaned' \subseteq Key /\ orphaned \subseteq orphaned'
  <2>1. CASE UNCHANGED <<n, orphaned>>
    <3>1. n[k] \in 0..MaxCount /\ n' = [n EXCEPT ![k] = n[k]] /\ n[k] >= n[k]
      BY <1>1, <1>2, <2>1, Types, Numbers DEF TypeOK
    <3> QED
      BY <1>1, <2>1, <3>1 DEF TypeOK
  <2>2. CASE /\ n' = [n EXCEPT ![k] = Counted(k)]
             /\ orphaned' = IF n[k] = 0 THEN orphaned \cup {k} ELSE orphaned
    <3>1. Counted(k) \in 0..MaxCount /\ Counted(k) >= n[k]
      BY <1>1, <1>2, CountedValue, Types, Numbers
    <3> QED
      BY <1>1, <1>2, <2>2, <3>1 DEF TypeOK
  <2> QED
    BY <1>2, <2>1, <2>2 DEF IncrError, IncrResend, CountUnseen
<1>5. /\ \A x \in Key : n'[x] = IF x = k THEN c ELSE n[x]
      /\ n' \in [Key -> 0..MaxCount] /\ c \in Nat /\ c <= MaxCount
  BY <1>1, <1>2, <1>4, Numbers DEF TypeOK
<1>6. \A x \in Key : n'[x] >= n[x] /\ n'[x] \in Nat
  BY <1>1, <1>4, <1>5, Types
<1>7. \A q \in Req : /\ pc'[q] = "expire" <=> pc[q] = "expire"
                     /\ pc'[q] # "idle" => pc[q] # "idle"
  BY <1>1, <1>3 DEF TypeOK
<1>8. \A x \in Key : Owed(x)' = Owed(x)
  BY <1>3, <1>7 DEF Owed
<1>9. TypeOK'
  <2>1. pc' \in [Req -> {"idle", "incr", "expire"}]
    BY <1>1, <1>3 DEF TypeOK
  <2>2. \A x \in Key : n'[x] = 0 => left'[x] = Forever
    BY <1>1, <1>3, <1>6, Types DEF TypeOK
  <2> QED
    BY <1>1, <1>3, <1>4, <1>5, <2>1, <2>2 DEF TypeOK
<1>10. OneExpire' /\ OwnKey'
  <2>1. \A x \in Key : n[x] > 0 => n'[x] > 0
    BY <1>1, <1>6, Types
  <2>2. OneExpire'
    BY <1>1, <1>3, <1>7, <2>1, Types DEF OneExpire
  <2>3. OwnKey'
    BY <1>1, <1>3, <1>7 DEF OwnKey
  <2> QED
    BY <2>2, <2>3
<1>11. EndInSight'
  <2> SUFFICES ASSUME NEW x \in Key, n'[x] > 0, left'[x] = Forever PROVE x \in orphaned' \/ Owed(x)'
    BY DEF EndInSight
  <2>1. CASE n[x] > 0
    BY <1>1, <1>3, <1>4, <1>8, <2>1 DEF EndInSight
  <2>2. CASE n[x] = 0
    BY <1>4, <1>5, <2>2
  <2> QED
    BY <1>1, <2>1, <2>2, Types
<1>12. Windows'
  <2> SUFFICES ASSUME NEW x \in Key, x[2] \notin Trusted, NEW i \in Recent
               PROVE  /\ i >= Places(x)' => admitted'[x][i] >= window - left'[x]
                      /\ i >= Places(x)' - Pending(x)' + max => admitted'[x][i] = window
    BY DEF Windows
  <2>1. Pending(x)' = Pending(x) /\ Pending(x) \in Nat
    BY <1>8 DEF Pending
  <2>2. Places(x) \in Nat /\ Places(x)' \in Nat /\ Places(x)' >= Places(x)
    BY <1>1, <1>6, Types, Numbers DEF Places
  <2>3. /\ i >= Places(x)' => i >= Places(x)
        /\ i >= Places(x)' - Pending(x)' + max => i >= Places(x) - Pending(x) + max
    BY <2>1, <2>2, Numbers
  <2> QED
    BY <1>1, <1>3, <2>3 DEF Windows
<1> QED
  BY <1>9, <1>10, <1>11, <1>12 DEF IInv

\* The first request of a window gives the counter its time to live, or fails
\* to, and is let through.
LEMMA ExpireStep == ASSUME IInv, NEW r \in Req, Expire(r) PROVE IInv'
<1>1. TypeOK /\ OneExpire /\ OwnKey /\ Windows /\ EndInSight
  BY DEF IInv
<1>2. PICK k \in Key : k = key[r]
  BY <1>1, Types
<1>3. /\ pc[r] = "expire" /\ UNCHANGED <<n, host, key>>
      /\ \/ left' = [left EXCEPT ![k] = window] /\ orphaned' = orphaned
         \/ left' = left /\ orphaned' = orphaned \cup {k}
  BY <1>2 DEF Expire
<1>4. /\ pc' = [pc EXCEPT ![r] = "idle"]
      /\ admitted' \in [Key -> [Recent -> 0..window]]
      /\ \A x \in Key : x # <<key[r][1], host[r]>> => admitted'[x] = admitted[x]
      /\ \A i \in Recent :
           admitted'[<<key[r][1], host[r]>>][i] =
             IF i = 1 THEN 0 ELSE admitted[<<key[r][1], host[r]>>][i - 1]
  <2>1. Decide(r, 1) /\ 1 <= max
    BY Numbers DEF Expire
  <2> QED
    BY <1>1, <2>1, Admission
<1>5. \A q \in Req : pc'[q] = IF q = r THEN "idle" ELSE pc[q]
  BY <1>1, <1>4 DEF TypeOK
<1>6. n[k] > 0 /\ Owed(k) /\ ~Owed(k)' /\ \A q \in Req : pc'[q] = "expire" => key[q] # k
  BY <1>1, <1>2, <1>3, <1>5 DEF OneExpire, Owed
<1>7. \A x \in Key : x # k => left'[x] = left[x] /\ Owed(x)' = Owed(x)
  BY <1>1, <1>2, <1>3, <1>5 DEF TypeOK, Owed
<1>8. left' \in [Key -> 1..Forever] /\ left'[k] \in {window, Forever}
  <2>1. left \in [Key -> 1..Forever] /\ left[k] = Forever
    BY <1>1, <1>2, <1>3 DEF TypeOK, OneExpire
  <2>2. window \in 1..Forever
    BY Numbers
  <2> QED
    BY <1>3, <2>1, <2>2
<1>9. TypeOK'
  <2>1. pc' \in [Req -> {"idle", "incr", "expire"}]
    BY <1>1, <1>4 DEF TypeOK
  <2>2. orphaned' \subseteq Key
    BY <1>1, <1>2, <1>3 DEF TypeOK
  <2>3. \A x \in Key : n'[x] = 0 => left'[x] = Forever
    BY <1>1, <1>3, <1>6, <1>7 DEF TypeOK
  <2> QED
    BY <1>1, <1>3, <1>4, <1>8, <2>1, <2>2, <2>3 DEF TypeOK
<1>10. OneExpire' /\ OwnKey'
  <2>1. \A q \in Req : pc'[q] = "expire" => pc[q] = "expire" /\ key[q] \in Key /\ left'[key[q]] = left[key[q]]
    BY <1>1, <1>5, <1>6, <1>7, Types
  <2>2. OneExpire'
    BY <1>1, <1>3, <2>1 DEF OneExpire
  <2>3. OwnKey'
    BY <1>1, <1>3, <1>5 DEF OwnKey
  <2> QED
    BY <2>2, <2>3
<1>11. EndInSight'
  <2> SUFFICES ASSUME NEW x \in Key, n'[x] > 0, left'[x] = Forever PROVE x \in orphaned' \/ Owed(x)'
    BY DEF EndInSight
  <2>1. CASE x = k
    <3>1. left'[k] = Forever => left' # [left EXCEPT ![k] = window]
      BY <1>1, Numbers DEF TypeOK
    <3> QED
      BY <1>3, <2>1, <3>1
  <2>2. CASE x # k
    BY <1>1, <1>3, <1>7, <2>2 DEF EndInSight
  <2> QED
    BY <2>1, <2>2
<1>12. Windows'
  <2> SUFFICES ASSUME NEW x \in Key, x[2] \notin Trusted, NEW i \in Recent
               PROVE  /\ i >= Places(x)' => admitted'[x][i] >= window - left'[x]
                      /\ i >= Places(x)' - Pending(x)' + max => admitted'[x][i] = window
    BY DEF Windows
  <2>1. Places(x)' = Places(x) /\ Places(x) \in Nat
    BY <1>1, <1>3, Types, Numbers DEF Places
  <2>2. \A j \in Recent : /\ j >= Places(x) => admitted[x][j] >= window - left[x]
                          /\ j >= Places(x) - Pending(x) + max => admitted[x][j] = window
    BY <1>1 DEF Windows
  <2>3. CASE x # k
    <3>1. x # <<key[r][1], host[r]>>
      <4>1. x = <<key[r][1], host[r]>> => host[r] \notin Trusted
        OBVIOUS
      <4> QED
        BY <1>1, <1>2, <1>3, <2>3, <4>1, DirectKey
    <3> QED
      BY <1>4, <1>7, <2>1, <2>2, <2>3, <3>1 DEF Pending
  <2>4. CASE x = k
    <3>1. Pending(x) = 1 /\ Pending(x)' = 0
      BY <1>6, <2>4 DEF Pending
    <3>2. admitted'[x][i] \in Nat /\ window - left'[x] <= 0
      BY <1>4, <1>8, <2>4, Numbers
    <3>3. i \in Nat /\ max \in Nat /\ max >= 1 /\ (i # 1 => i - 1 \in Recent)
      BY Numbers
    <3>4. admitted'[x][i] = admitted[x][i] \/ admitted'[x][i] = IF i = 1 THEN 0 ELSE admitted[x][i - 1]
      BY <1>4
    <3>5. Places(x) >= 1
      BY <1>1, <1>6, <2>4, Types, Numbers DEF Places
    <3>6. i >= Places(x) + max => i # 1 /\ i >= Places(x) - 1 + max /\ i - 1 >= Places(x) - 1 + max
      BY <2>1, <3>3, <3>5
    <3>7. i >= Places(x) + max => admitted'[x][i] = window
      BY <2>1, <2>2, <3>1, <3>3, <3>4, <3>6
    <3>8. admitted'[x][i] >= window - left'[x]
      <4>1. left'[x] \in Nat
        BY <1>8, Numbers
      <4> QED
        BY <3>2, <4>1, Numbers
    <3> QED
      BY <2>1, <3>1, <3>7, <3>8, Numbers
  <2> QED
    BY <2>3, <2>4
<1> QED
  BY <1>9, <1>10, <1>11, <1>12 DEF IInv

\* Counters whose time is up go: what they let through is then a window old
\* but for fewer than max requests.
LEMMA TickStep == ASSUME IInv, Tick PROVE IInv'
<1>1. TypeOK /\ OneExpire /\ OwnKey /\ Windows /\ EndInSight
  BY DEF IInv
<1>2. /\ UNCHANGED <<pc, host, key, orphaned>>
      /\ n' = [k \in Key |-> IF left[k] = 1 THEN 0 ELSE n[k]]
      /\ left' = [k \in Key |-> IF left[k] = Forever \/ left[k] = 1 THEN Forever ELSE left[k] - 1]
      /\ admitted' = [k \in Key |-> [i \in Recent |->
                        IF admitted[k][i] < window THEN admitted[k][i] + 1 ELSE admitted[k][i]]]
  BY DEF Tick
<1>3. \A k \in Key : Owed(k)' = Owed(k)
  BY <1>2 DEF Owed
<1>4. \A k \in Key : \A i \in Recent : admitted'[k][i] =
        IF admitted[k][i] < window THEN admitted[k][i] + 1 ELSE admitted[k][i]
  BY <1>2
<1>5. \A k \in Key : /\ n'[k] = IF left[k] = 1 THEN 0 ELSE n[k]
                     /\ left'[k] = IF left[k] = Forever \/ left[k] = 1 THEN Forever ELSE left[k] - 1
  BY <1>2
<1>6. TypeOK'
  <2>1. n' \in [Key -> 0..MaxCount]
    BY <1>1, <1>2, Numbers DEF TypeOK
  <2>2. left' \in [Key -> 1..Forever]
    <3>1. \A k \in Key : left'[k] \in 1..Forever
      BY <1>1, <1>5, Types, Numbers
    <3> QED
      BY <1>2, <3>1
  <2>3. admitted' \in [Key -> [Recent -> 0..window]]
    <3>1. \A k \in Key : \A i \in Recent : admitted'[k][i] \in 0..window
      BY <1>1, <1>4, Types, Numbers
    <3> QED
      BY <1>2, <3>1
  <2>4. \A k \in Key : n'[k] = 0 => left'[k] = Forever
    BY <1>1, <1>5 DEF TypeOK
  <2> QED
    BY <1>1, <1>2, <2>1, <2>2, <2>3, <2>4 DEF TypeOK
<1>7. OneExpire' /\ OwnKey'
  <2>1. 1 # Forever
    BY Numbers
  <2> QED
    BY <1>1, <1>2, <1>5, <2>1, Types DEF OneExpire, OwnKey
<1>8. EndInSight'
  <2> SUFFICES ASSUME NEW k \in Key, n'[k] > 0, left'[k] = Forever PROVE k \in orphaned' \/ Owed(k)'
    BY DEF EndInSight
  <2>1. n[k] > 0 /\ left[k] = Forever
    BY <1>1, <1>5, Types, Numbers
  <2> QED
    BY <1>1, <1>2, <1>3, <2>1 DEF EndInSight
<1>9. Windows'
  <2> SUFFICES ASSUME NEW k \in Key, k[2] \notin Trusted, NEW i \in Recent
               PROVE  /\ i >= Places(k)' => admitted'[k][i] >= window - left'[k]
                      /\ i >= Places(k)' - Pending(k)' + max => admitted'[k][i] = window
    BY DEF Windows
  <2>1. /\ i >= Places(k) => admitted[k][i] >= window - left[k]
        /\ i >= Places(k) - Pending(k) + max => admitted[k][i] = window
    BY <1>1 DEF Windows
  <2>2. /\ admitted[k][i] \in Nat /\ admitted[k][i] <= window /\ i \in Nat
        /\ left[k] \in Nat /\ left[k] >= 1 /\ left[k] <= window + 1
        /\ n[k] \in Nat
    BY <1>1, Types, Numbers
  <2>3. admitted'[k][i] = IF admitted[k][i] < window THEN admitted[k][i] + 1 ELSE admitted[k][i]
    BY <1>4
  <2>4. CASE left[k] = 1
    <3>1. ~Owed(k)
      BY <1>1, <2>4, Numbers DEF OneExpire, Owed
    <3>2. Places(k)' = 0 /\ Pending(k)' = 0 /\ left'[k] = window + 1
      BY <1>3, <1>5, <2>4, <3>1, Numbers DEF Places, Pending
    <3>3. Places(k) <= max /\ Places(k) \in Nat
      BY <2>2, Numbers DEF Places
    <3>4. i >= max => admitted'[k][i] = window
      BY <2>1, <2>2, <2>3, <2>4, <3>3, Numbers
    <3>5. admitted'[k][i] >= window - left'[k]
      BY <2>2, <2>3, <3>2, Numbers
    <3> QED
      BY <3>2, <3>4, <3>5, Numbers
  <2>5. CASE left[k] # 1
    <3>1. Places(k)' = Places(k) /\ Pending(k)' = Pending(k)
      BY <1>3, <1>5, <2>5 DEF Places, Pending
    <3>2. left'[k] = left[k] \/ left'[k] = left[k] - 1
      BY <1>5, <2>5
    <3>3. ASSUME i >= Places(k) PROVE admitted'[k][i] >= window - left'[k]
      <4>1. admitted[k][i] >= window - left[k]
        BY <2>1, <3>3
      <4>2. CASE admitted[k][i] < window
        <5>1. admitted'[k][i] = admitted[k][i] + 1
          BY <2>3, <4>2
        <5> QED
          BY <2>2, <3>2, <4>1, <5>1, Numbers
      <4>3. CASE admitted[k][i] = window
        <5>1. admitted'[k][i] = window
          BY <2>3, <4>3, Numbers
        <5>2. left'[k] \in Nat
          BY <2>2, <3>2
        <5> QED
          BY <5>1, <5>2, Numbers
      <4> QED
        BY <2>2, <4>2, <4>3, Numbers
    <3>4. ASSUME i >= Places(k) - Pending(k) + max PROVE admitted'[k][i] = window
      BY <2>1, <2>3, <3>4, Numbers
    <3> QED
      BY <3>1, <3>3, <3>4
  <2> QED
    BY <2>4, <2>5
<1> QED
  BY <1>6, <1>7, <1>8, <1>9 DEF IInv

LEMMA InvStep == ASSUME IInv, [Next]_vars PROVE IInv'
<1>1. CASE UNCHANGED vars
  BY <1>1 DEF vars, IInv, TypeOK, OneExpire, OwnKey, Windows, EndInSight, Places, Pending, Owed
<1> QED
  BY <1>1, TickStep, MiddlewareStep, IncrStep, IncrErrorStep, ExpireStep DEF Next

LEMMA Invariance == Spec => []IInv
BY InitInv, InvStep, PTL DEF Spec

-----------------------------------------------------------------------------
\* The variables keep their types, and a key that does not exist has no time
\* to live.
THEOREM TypeCorrect == Spec => []TypeOK
<1>1. IInv => TypeOK
  BY DEF IInv
<1> QED
  BY <1>1, Invariance, PTL

\* A direct client never gets 2 * max requests past the counter in a window,
\* for any limit and window, whatever headers it and others send, however
\* requests interleave between INCR and EXPIRE and whichever commands fail.
THEOREM DirectClientsAreBounded == Spec => []SlidingBound
<1>1. ASSUME IInv PROVE SlidingBound
  <2>1. TypeOK /\ Windows
    BY <1>1 DEF IInv
  <2> SUFFICES ASSUME NEW k \in Key, k[2] \notin Trusted PROVE admitted[k][2 * max] = window
    BY DEF SlidingBound
  <2>2. 2 * max \in Recent
    BY Numbers
  <2>3. 2 * max >= Places(k) - Pending(k) + max
    BY <2>1, Types, Numbers DEF Places, Pending
  <2> QED
    BY <2>1, <2>2, <2>3 DEF Windows
<1> QED
  BY <1>1, Invariance, PTL

\* A counter that does not expire is orphaned or a request is about to send
\* its EXPIRE: nothing else can make a lockout last.
THEOREM LockoutsHaveAnEnd == Spec => []EndInSight
<1>1. IInv => EndInSight
  BY DEF IInv
<1> QED
  BY <1>1, Invariance, PTL

\* A running window is never extended: its counter lives on for less, or goes.
NotExtended(k) == left[k] # Forever => left'[k] <= left[k] \/ n'[k] = 0

\* Whoever sends EXPIRE sends it to a counter without a time to live, so that a
\* client that keeps trying does not keep itself locked out.
THEOREM WindowsAreNotExtended == Spec => [][\A k \in Key : NotExtended(k)]_vars
<1>1. ASSUME IInv, [Next]_vars PROVE [\A k \in Key : NotExtended(k)]_vars
  <2>1. TypeOK /\ OneExpire
    BY <1>1 DEF IInv
  <2>2. SUFFICES ASSUME NEW k \in Key, left[k] # Forever, ~UNCHANGED vars
                 PROVE  left'[k] <= left[k] \/ n'[k] = 0
    BY DEF NotExtended
  <2>3. left[k] \in Nat
    BY <2>1, Types
  <2>4. CASE Tick
    <3>1. n'[k] = (IF left[k] = 1 THEN 0 ELSE n[k]) /\ (left[k] # 1 => left'[k] = left[k] - 1)
      BY <2>2, <2>4 DEF Tick
    <3> QED
      BY <2>3, <3>1
  <2>5. ASSUME NEW r \in Req, Expire(r) PROVE left'[k] = left[k]
    <3>1. key[r] \in Key /\ left[key[r]] = Forever
      BY <2>1, <2>5, Types DEF Expire, OneExpire
    <3> QED
      BY <2>1, <2>2, <2>5, <3>1 DEF Expire, TypeOK
  <2>6. ASSUME NEW r \in Req, Middleware(r) \/ Incr(r) \/ IncrError(r) \/ IncrResend(r)
        PROVE  left'[k] = left[k]
    BY <2>6 DEF Middleware, Incr, IncrError, IncrResend
  <2> QED
    BY <1>1, <2>2, <2>3, <2>4, <2>5, <2>6 DEF Next
<1> QED
  BY <1>1, Invariance, PTL DEF Spec
=============================================================================
