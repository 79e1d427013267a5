---------------------------- MODULE MCRateLimit ----------------------------
(***************************************************************************)
(* Instances of RateLimit: a client and a trusted proxy.                   *)
(***************************************************************************)
EXTENDS RateLimit

CONSTANTS r1, r2, client, proxy

TwoReq == {r1, r2}
Addrs == {client, proxy}
Proxies == {proxy}
OneRoute == {"login"}
=============================================================================
