----------------------------- MODULE RateLimiter -----------------------------
(***************************************************************************)
(* The fixed-window rate limiters.  The in-memory one reads the clock      *)
(* before it takes its mutex, so a caller may count with a time that is    *)
(* already past; the Redis one counts in a script that runs on the server, *)
(* which keeps the time, and may not be reachable or not be heard.         *)
(***************************************************************************)
EXTENDS Naturals, Sequences, FiniteSets

CONSTANTS
    Callers,
    Keys,        \* what is limited: addresses, accounts
    EmptyKey,    \* the empty string
    Limit,       \* Limit[k]: the limit callers pass for k
    Window,      \* Window[k]: the window in seconds; 0 stands for no valid one
    MaxTime,     \* bound: last second
    MaxCalls     \* bound: calls that were counted

ASSUME LimiterAssumption ==
    /\ EmptyKey \in Keys
    /\ Limit \in [Keys -> Nat] /\ Window \in [Keys -> Nat]
    /\ MaxTime \in Nat /\ MaxCalls \in Nat
    /\ IsFiniteSet(Callers)

Kinds == {"inmemory", "redis"}

VARIABLES
    kind,      \* which limiter the process is built with
    now,
    bucket,    \* count and end of the current window of each key
    pc,        \* "idle", or "read" between reading the clock and counting
    asks,      \* the key a caller asks about
    seen,      \* the time it has read
    answer,    \* its last decision
    counted,   \* calls counted so far
    log        \* history: the keys and times of the calls that were allowed

vars == <<kind, now, bucket, pc, asks, seen, answer, counted, log>>

Decision == [allowed : BOOLEAN, remaining : Nat, reset_at : Nat,
             error : {"none", "invalid_key", "invalid_policy", "unavailable"}]

\* Types; what is left of a limit is less than the limit.
TypeOK ==
    /\ kind \in Kinds
    /\ now \in Nat /\ counted \in Nat
    /\ bucket \in [Keys -> [count : Nat, reset_at : Nat]]
    /\ pc \in [Callers -> {"idle", "read"}]
    /\ asks \in [Callers -> Keys]
    /\ seen \in [Callers -> Nat]
    /\ answer \in [Callers -> Decision]
    /\ \A p \in Callers : answer[p].allowed => answer[p].remaining < Limit[asks[p]]
    /\ log \in Seq([key : Keys, at : Nat])

Init ==
    /\ kind \in Kinds
    /\ now = 0 /\ counted = 0
    /\ bucket = [k \in Keys |-> [count |-> 0, reset_at |-> 0]]
    /\ pc = [p \in Callers |-> "idle"]
    /\ asks \in [Callers -> {EmptyKey}] /\ seen = [p \in Callers |-> 0]
    /\ answer = [p \in Callers |-> [allowed |-> FALSE, remaining |-> 0, reset_at |-> 0, error |-> "none"]]
    /\ log = <<>>

decide(p, allowed, remaining, resetAt, error) ==
    answer' = [answer EXCEPT ![p] = [allowed |-> allowed, remaining |-> remaining,
                                     reset_at |-> resetAt, error |-> error]]

admit(k, allowed) == log' = IF allowed THEN Append(log, [key |-> k, at |-> now]) ELSE log

\* Both limiters refuse these before they look at a bucket.
Invalid(p, k) ==
    /\ pc[p] = "idle"
    /\ k = EmptyKey \/ Window[k] = 0
    /\ asks' = [asks EXCEPT ![p] = k]
    /\ decide(p, FALSE, 0, now, IF k = EmptyKey THEN "invalid_key" ELSE "invalid_policy")
    /\ UNCHANGED <<kind, now, bucket, pc, seen, counted, log>>

valid(k) == k # EmptyKey /\ Window[k] > 0

-----------------------------------------------------------------------------
(* InMemoryRateLimiter::Allow *)

ReadClock(p, k) ==
    /\ kind = "inmemory" /\ pc[p] = "idle" /\ valid(k)
    /\ counted < MaxCalls
    /\ counted' = counted + 1
    /\ pc' = [pc EXCEPT ![p] = "read"]
    /\ asks' = [asks EXCEPT ![p] = k]
    /\ seen' = [seen EXCEPT ![p] = now]
    /\ answer' = [answer EXCEPT ![p].allowed = FALSE]
    /\ UNCHANGED <<kind, now, bucket, log>>

\* Slip: every call moves the end of the window.
openedSliding(k, t) ==
    [count |-> IF t >= bucket[k].reset_at THEN 0 ELSE bucket[k].count, reset_at |-> t + Window[k]]

\* The bucket a caller finds once it has opened a window if it must.
opened(k, t) ==
    IF bucket[k].count = 0 \/ t >= bucket[k].reset_at
    THEN [count |-> 0, reset_at |-> t + Window[k]]
    ELSE bucket[k]

\* Slip: the limit is compared with the count after this call.
CountInclusive(p) ==
    LET k == asks[p]
        b == opened(k, seen[p])
        allowed == Limit[k] > 0 /\ b.count <= Limit[k]
    IN  /\ pc[p] = "read"
        /\ bucket' = [bucket EXCEPT ![k] = IF allowed THEN [b EXCEPT !.count = @ + 1] ELSE b]
        /\ decide(p, allowed, IF allowed /\ b.count < Limit[k] THEN Limit[k] - b.count - 1 ELSE 0, b.reset_at, "none")
        /\ admit(k, allowed)
        /\ pc' = [pc EXCEPT ![p] = "idle"]
        /\ UNCHANGED <<kind, now, asks, seen, counted>>

\* The critical section.
Count(p) ==
    LET k == asks[p]
        b == opened(k, seen[p])
        allowed == Limit[k] > 0 /\ b.count < Limit[k]
    IN  /\ pc[p] = "read"
        /\ bucket' = [bucket EXCEPT ![k] = IF allowed THEN [b EXCEPT !.count = @ + 1] ELSE b]
        /\ decide(p, allowed, IF allowed THEN Limit[k] - b.count - 1 ELSE 0, b.reset_at, "none")
        /\ admit(k, allowed)
        /\ pc' = [pc EXCEPT ![p] = "idle"]
        /\ UNCHANGED <<kind, now, asks, seen, counted>>

-----------------------------------------------------------------------------
(* RedisRateLimiter::Allow *)

\* kFixedWindowScript: INCR, and EXPIRE on the first count.  A key whose time
\* has come is gone; a refused call is counted too.
script(k) ==
    LET count == IF now >= bucket[k].reset_at THEN 1 ELSE bucket[k].count + 1
    IN  [count |-> count,
         reset_at |-> IF count = 1 THEN now + Window[k] ELSE bucket[k].reset_at]

\* The script ran and its reply arrived.
Eval(p, k) ==
    LET b == script(k)
        allowed == b.count <= Limit[k] /\ Limit[k] > 0
    IN  /\ kind = "redis" /\ pc[p] = "idle" /\ valid(k)
        /\ counted < MaxCalls
        /\ counted' = counted + 1
        /\ bucket' = [bucket EXCEPT ![k] = b]
        /\ asks' = [asks EXCEPT ![p] = k]
        /\ decide(p, allowed, IF b.count >= Limit[k] THEN 0 ELSE Limit[k] - b.count, b.reset_at, "none")
        /\ admit(k, allowed)
        /\ UNCHANGED <<kind, now, pc, seen>>

\* There is no connection, or no reply: the script may have run or not.
Unavailable(p, k) ==
    /\ kind = "redis" /\ pc[p] = "idle" /\ valid(k)
    /\ counted < MaxCalls
    /\ counted' = counted + 1
    /\ bucket' \in {bucket, [bucket EXCEPT ![k] = script(k)]}
    /\ asks' = [asks EXCEPT ![p] = k]
    /\ decide(p, FALSE, 0, now, "unavailable")
    /\ UNCHANGED <<kind, now, pc, seen, log>>

-----------------------------------------------------------------------------
Tick ==
    /\ now < MaxTime
    /\ now' = now + 1
    /\ UNCHANGED <<kind, bucket, pc, asks, seen, answer, counted, log>>

Next ==
    \/ \E p \in Callers, k \in Keys : Invalid(p, k) \/ ReadClock(p, k) \/ Eval(p, k) \/ Unavailable(p, k)
    \/ \E p \in Callers : Count(p)
    \/ Tick

Spec == Init /\ [][Next]_vars

-----------------------------------------------------------------------------
(* Properties *)

admittedIn(k, from) ==
    Cardinality({i \in DOMAIN log : log[i].key = k /\ log[i].at \in from .. (from + Window[k] - 1)})

\* Windows that a span of one window's length can touch: the one it begins in
\* and one that starts inside it.  In memory each caller may also bring one
\* time from before the span, to count in or open a window that is over.
windowsTouched ==
    IF kind = "inmemory" /\ Cardinality(Callers) > 1 THEN Cardinality(Callers) + 1 ELSE 2

\* The rate over any stretch of one window's length, not only over the windows
\* the limiter happens to open, is bounded.
RateIsBounded ==
    \A k \in Keys, t \in 0 .. now : admittedIn(k, t) <= windowsTouched * Limit[k]

\* The windows of a key never overlap: a window that has counted a call is
\* replaced only by one that starts after its end, whatever old times callers
\* bring.
WindowsAreDisjoint ==
    [][\A k \in Keys :
          bucket[k].count > 0 /\ bucket'[k].reset_at # bucket[k].reset_at
          => bucket'[k].reset_at >= bucket[k].reset_at + Window[k]]_vars
=============================================================================
