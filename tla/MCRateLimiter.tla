---------------------------- MODULE MCRateLimiter ----------------------------
(* Small instances of RateLimiter for TLC. *)
EXTENDS RateLimiter, TLC

CONSTANTS p1, p2, k1, k2, k3, none

TwoCallers == {p1, p2}

\* k1 has a limit of one in two seconds, k2 no valid window, k3 a limit of zero.
AllKeys == {k1, k2, k3, none}
Limits == [k \in Keys |-> IF k = k3 THEN 0 ELSE 1]
Windows == [k \in Keys |-> IF k = k2 THEN 0 ELSE 2]

CallerSymmetry == Permutations(TwoCallers)
=============================================================================
