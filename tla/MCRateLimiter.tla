--------------------------- MODULE MCRateLimiter ---------------------------
(* Instances of RateLimiter for TLC: which slot serves which client.         *)
EXTENDS RateLimiter, TLC

CONSTANTS a1, a2, r1, r2, r3

\* Two concurrent requests of one client, one of another.
TwoClients == r1 :> a1 @@ r2 :> a1 @@ r3 :> a2

=============================================================================
