----------------------------- MODULE MCDatabase -----------------------------
(* Small instances of Database for TLC. *)
EXTENDS Database, TLC

CONSTANTS t1, t2, c1, c2, m1, m2, r1, r2, e1, e2

TwoThreads == {t1, t2}
\* A process each.
OneEach == (t1 :> t1) @@ (t2 :> t2)
TwoCodes == {c1, c2}
TwoMigrators == {m1, m2}
TwoRepos == {r1, r2}
TwoEvents == {e1, e2}

\* Two events of the same second, one of them at its end.
Occurred == (e1 :> 0) @@ (e2 :> 1)
Statuses == (e1 :> 302) @@ (e2 :> 404)
Domains == (e1 :> 1) @@ (e2 :> 2)
OneBatch == {<<e1, e2>>}
Slugs == (e1 :> "a") @@ (e2 :> "b")
TwoQueries == {[from |-> 0, to |-> 2, slug |-> "any", bucket |-> 2],
               [from |-> 0, to |-> 4, slug |-> "b", bucket |-> 0]}

Symmetry == Permutations(TwoThreads) \cup Permutations(TwoCodes) \cup Permutations(TwoRepos)
            \cup Permutations(TwoMigrators)
=============================================================================
