----------------------------- MODULE MCRateLimiter -----------------------------
(* Model values of RateLimiter for TLC. *)
EXTENDS RateLimiter, TLC

CONSTANTS r1, r2, r3, r4, e1, e2, i1, i2

\* login: two users behind one address.
OneAddress == [r \in Requests |-> {i1, IF r \in {r1, r2} THEN e1 ELSE e2}]

\* Requests that are charged to the same subjects are alike.
PairAlike == Permutations({r1, r2}) \cup Permutations(Requests \ {r1, r2})
================================================================================
