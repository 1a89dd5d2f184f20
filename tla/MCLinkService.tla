--------------------------- MODULE MCLinkService ---------------------------
(* Small instances of LinkService for TLC. *)
EXTENDS LinkService, TLC

CONSTANTS p1, p2, c1, a, b, piped

TwoClients == {p1, p2}
OneCode == {c1}
ThreeTargets == {a, b, piped}
PipeTarget == {piped}

\* A link for ever, one that expires in the middle of a second, one that is
\* switched off, and one whose target has a separator of the encoding in it.
Stored == {[target_url |-> a, expires_at |-> Null, is_active |-> TRUE],
           [target_url |-> b, expires_at |-> 3, is_active |-> TRUE],
           [target_url |-> a, expires_at |-> Null, is_active |-> FALSE],
           [target_url |-> piped, expires_at |-> Null, is_active |-> TRUE]}

ClientSymmetry == Permutations(TwoClients)
=============================================================================
