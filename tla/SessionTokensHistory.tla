------------------------- MODULE SessionTokensHistory -------------------------
(***************************************************************************)
(* SessionTokens with two history variables: whether the DEL of a verified *)
(* token was ever lost, an error Redeem ignores, and which redeems had     *)
(* read a token but not yet compared their PIN when it was gone.           *)
(***************************************************************************)
EXTENDS SessionTokens

VARIABLES
  delLost, \* a Consume failed to delete the token
  late     \* late[s]: redeems before their comparison when s' token died

\* No live token stands for s.
Spent(s) == \A c \in ConnectID : Live(c) => token[c].session # s

\* Redeems that have read s' token and may still compare a PIN with it.
Waiting(s) == {k \in Redeemer : rpc[k] \in {"incr", "expire"} /\ rec[k] = s}

\* The step is a Consume whose DEL failed and left a live token behind.
ConsumedInVain == \E k \in Redeemer :
  rpc[k] = "consume" /\ rpc'[k] = "activate" /\ Live(rid[k]) /\ UNCHANGED redisVars

HistInit == Init /\ delLost = FALSE /\ late = [s \in Session |-> {}]
HistNext ==
  /\ Next
  /\ delLost' = (delLost \/ ConsumedInVain)
  /\ late' = [s \in Session |-> IF ~Spent(s) /\ Spent(s)' THEN Waiting(s)' ELSE late[s]]
HistSpec == HistInit /\ [][HistNext]_<<vars, delLost, late>>

\* Unless the DEL of its redeem failed, a session that became active has no
\* live token left: a redeem that starts after the activation cannot succeed,
\* whatever else fails and whoever else mints under the same id.
ActiveSessionHasNoToken ==
  ~delLost => \A c \in ConnectID : Live(c) /\ token[c].session \notin resent =>
    status[token[c].session] \notin {"active", "ended"}

\* How far the limit on PIN attempts really goes, under a connect id not used
\* before: MaxRedeemTries comparisons, and one more for each redeem that was
\* between its GET and its comparison when the token was burned, consumed or
\* expired.  Restarting the counter lets nobody else in.
OverrunBounded ==
  \A m \in Minter : uses[mid[m]] = 1 /\ Row(m) \notin resent =>
    compared[Row(m)] <= MaxRedeemTries + Cardinality(late[Row(m)])
=============================================================================
