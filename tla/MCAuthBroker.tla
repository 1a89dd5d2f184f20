---------------------------- MODULE MCAuthBroker ----------------------------
(* Small instances of AuthBroker for TLC. *)
EXTENDS AuthBroker, TLC

CONSTANTS p1, p2, alice, bob, t1, t2

TwoProcs == {p1, p2}
TwoUsers == {alice, bob}
TwoTokens == {t1, t2}
OneToken == {t1}

Symmetry == Permutations(TwoProcs) \cup Permutations(TwoUsers) \cup Permutations(TwoTokens)
=============================================================================
