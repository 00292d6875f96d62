--------------------------- MODULE MCRateLimiter ---------------------------
EXTENDS RateLimiter, TLC

CONSTANTS r1, r2, r3, k1, k2, p1, p2

\* Two requests of one tenant and one of another.
MCKeyOf == r1 :> k1 @@ r2 :> k1 @@ r3 :> k2
UpAndDown == {-2, 1}
Refunds == {-2}
Pair == r1 :> k1 @@ r2 :> k1
Nothing == {}
=============================================================================
