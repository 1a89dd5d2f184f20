--------------------------- MODULE BestEffortLog ---------------------------
(***************************************************************************)
(* What the analytics pipeline promises for the events it accepts, however *)
(* its threads and its repository behave: an accepted event is pending     *)
(* until it is stored or given up; it is stored at most once; it never     *)
(* comes back.  AnalyticsPipeline implements this module.                  *)
(***************************************************************************)
EXTENDS Naturals

CONSTANT Events

VARIABLES pending,   \* accepted, outcome open
          stored,    \* copies of each event in the repository
          lost       \* given up without a copy in the repository

vars == <<pending, stored, lost>>

Init == pending = {} /\ stored = [e \in Events |-> 0] /\ lost = {}

Unseen == {e \in Events : e \notin pending \cup lost /\ stored[e] = 0}

Accept(e) ==
    /\ e \in Unseen
    /\ pending' = pending \cup {e}
    /\ UNCHANGED <<stored, lost>>

\* One attempt to persist settles some pending events: those it stored, and
\* those it gave up.
Settle(kept, dropped) ==
    /\ kept \cup dropped \subseteq pending
    /\ kept \cap dropped = {}
    /\ pending' = pending \ (kept \cup dropped)
    /\ stored' = [e \in Events |-> IF e \in kept THEN 1 ELSE stored[e]]
    /\ lost' = lost \cup dropped

Next ==
    \/ \E e \in Events : Accept(e)
    \/ Settle({e \in Events : stored'[e] # stored[e]}, lost' \ lost)

Spec == Init /\ [][Next]_vars
=============================================================================
