-------------------------- MODULE RateLimiterProofs --------------------------
(***************************************************************************)
(* The windows of both rate limiters are disjoint, and the calls they let  *)
(* through are bounded over any stretch of time, for every set of keys,    *)
(* every limit and window, and however late a caller counts.               *)
(***************************************************************************)
EXTENDS RateLimiter, FiniteSetTheorems, TLAPS

\* A decision that is recorded is a decision.
LEMMA DecideType ==
    ASSUME TypeOK, NEW p \in Callers, NEW allowed \in BOOLEAN, NEW remaining \in Nat,
           NEW resetAt \in Nat,
           NEW error \in {"none", "invalid_key", "invalid_policy", "unavailable"},
           decide(p, allowed, remaining, resetAt, error)
    PROVE  /\ answer' \in [Callers -> Decision]
           /\ answer'[p].allowed = allowed /\ answer'[p].remaining = remaining
           /\ \A q \in Callers : q # p => answer'[q] = answer[q]
  <1>1. [allowed |-> allowed, remaining |-> remaining, reset_at |-> resetAt, error |-> error] \in Decision
    BY DEF Decision
  <1> QED BY <1>1 DEF decide, TypeOK

\* An admission extends the log by one entry.
LEMMA AdmitType ==
    ASSUME TypeOK, NEW k \in Keys, NEW allowed \in BOOLEAN, admit(k, allowed)
    PROVE  log' \in Seq([key : Keys, at : Nat])
  <1> DEFINE Entry == [key : Keys, at : Nat]
  <1>1. log \in Seq(Entry) /\ [key |-> k, at |-> now] \in Entry
    BY DEF TypeOK
  <1> HIDE DEF Entry
  <1>2. Append(log, [key |-> k, at |-> now]) \in Seq(Entry)
    BY <1>1
  <1>3. log' \in Seq(Entry)
    BY <1>1, <1>2 DEF admit
  <1> QED BY <1>3 DEF Entry

\* The bucket a caller of the in-memory limiter counts in.
LEMMA OpenedType ==
    ASSUME TypeOK, NEW k \in Keys, NEW t \in Nat
    PROVE  opened(k, t) \in [count : Nat, reset_at : Nat]
  BY LimiterAssumption DEF TypeOK, opened

\* The bucket the Redis script leaves.
LEMMA ScriptType ==
    ASSUME TypeOK, NEW k \in Keys
    PROVE  script(k) \in [count : Nat, reset_at : Nat]
  <1> DEFINE count == IF now >= bucket[k].reset_at THEN 1 ELSE bucket[k].count + 1
             end == IF count = 1 THEN now + Window[k] ELSE bucket[k].reset_at
  <1>1. bucket[k].count \in Nat /\ bucket[k].reset_at \in Nat /\ now \in Nat /\ Window[k] \in Nat
    BY LimiterAssumption DEF TypeOK
  <1>2. count \in Nat /\ end \in Nat
    BY <1>1
  <1>3. script(k) = [count |-> count, reset_at |-> end]
    BY DEF script
  <1> HIDE DEF count, end
  <1> QED BY <1>2, <1>3

\* TypeOK is inductive by itself.
LEMMA StepKeepsType == TypeOK /\ [Next]_vars => TypeOK'
  <1> SUFFICES ASSUME TypeOK, [Next]_vars PROVE TypeOK'
    OBVIOUS
  <1>1. ASSUME NEW p \in Callers, NEW k \in Keys, Invalid(p, k) PROVE TypeOK'
    <2>1. now \in Nat
      BY DEF TypeOK
    <2>2. /\ answer' \in [Callers -> Decision] /\ ~answer'[p].allowed
          /\ \A q \in Callers : q # p => answer'[q] = answer[q]
      <3>1. CASE k = EmptyKey
        <4>1. decide(p, FALSE, 0, now, "invalid_key")
          BY <1>1, <3>1, Zenon DEF Invalid
        <4> QED BY <2>1, <4>1, DecideType, Zenon
      <3>2. CASE k # EmptyKey
        <4>1. decide(p, FALSE, 0, now, "invalid_policy")
          BY <1>1, <3>2, Zenon DEF Invalid
        <4> QED BY <2>1, <4>1, DecideType, Zenon
      <3> QED BY <3>1, <3>2
    <2>3. /\ asks' = [asks EXCEPT ![p] = k] /\ counted' = counted /\ bucket' = bucket
          /\ kind' = kind /\ now' = now /\ pc' = pc /\ seen' = seen /\ log' = log
      BY <1>1 DEF Invalid
    <2>4. \A q \in Callers : answer'[q].allowed => answer'[q].remaining < Limit[asks'[q]]
      BY <2>2, <2>3 DEF TypeOK
    <2>5. asks' \in [Callers -> Keys]
      BY <2>3 DEF TypeOK
    <2> QED BY <2>2, <2>3, <2>4, <2>5 DEF TypeOK
  <1>2. ASSUME NEW p \in Callers, NEW k \in Keys, ReadClock(p, k) PROVE TypeOK'
    <2>1. /\ answer' \in [Callers -> Decision] /\ ~answer'[p].allowed
          /\ \A q \in Callers : q # p => answer'[q] = answer[q]
      BY <1>2, Zenon DEF TypeOK, ReadClock, Decision
    <2>2. /\ asks' = [asks EXCEPT ![p] = k] /\ counted' = counted + 1
          /\ pc' = [pc EXCEPT ![p] = "read"] /\ seen' = [seen EXCEPT ![p] = now]
          /\ kind' = kind /\ now' = now /\ bucket' = bucket /\ log' = log
      BY <1>2 DEF ReadClock
    <2>3. \A q \in Callers : answer'[q].allowed => answer'[q].remaining < Limit[asks'[q]]
      BY <2>1, <2>2 DEF TypeOK
    <2>4. asks' \in [Callers -> Keys] /\ counted' \in Nat
      BY <2>2 DEF TypeOK
    <2>5. pc' \in [Callers -> {"idle", "read"}] /\ seen' \in [Callers -> Nat]
      BY <2>2 DEF TypeOK
    <2> QED BY <2>1, <2>2, <2>3, <2>4, <2>5 DEF TypeOK
  <1>3. ASSUME NEW p \in Callers, Count(p) PROVE TypeOK'
    <2> DEFINE k == asks[p]
               b == opened(k, seen[p])
               allowed == Limit[k] > 0 /\ b.count < Limit[k]
               remaining == IF allowed THEN Limit[k] - b.count - 1 ELSE 0
    <2>1. k \in Keys /\ seen[p] \in Nat
      BY DEF TypeOK
    <2>2. b \in [count : Nat, reset_at : Nat]
      BY <2>1, OpenedType
    <2>3. /\ remaining \in Nat /\ allowed \in BOOLEAN
          /\ allowed => remaining < Limit[k]
      BY <2>1, <2>2, LimiterAssumption
    <2>4. /\ bucket' = [bucket EXCEPT ![k] = IF allowed THEN [b EXCEPT !.count = @ + 1] ELSE b]
          /\ decide(p, allowed, remaining, b.reset_at, "none")
          /\ admit(k, allowed)
          /\ pc' = [pc EXCEPT ![p] = "idle"]
          /\ UNCHANGED <<kind, now, asks, seen, counted>>
      BY <1>3 DEF Count
    <2> HIDE DEF allowed, remaining, b, k
    <2>5. bucket' \in [Keys -> [count : Nat, reset_at : Nat]]
      <3>1. [b EXCEPT !.count = @ + 1] \in [count : Nat, reset_at : Nat]
        BY <2>2
      <3> QED BY <2>2, <2>4, <3>1, Zenon DEF TypeOK
    <2>6. /\ answer' \in [Callers -> Decision]
          /\ answer'[p].allowed = allowed /\ answer'[p].remaining = remaining
          /\ \A q \in Callers : q # p => answer'[q] = answer[q]
      BY <2>2, <2>3, <2>4, DecideType
    <2>7. log' \in Seq([key : Keys, at : Nat])
      BY <2>1, <2>3, <2>4, AdmitType, Zenon
    <2>8. \A q \in Callers : answer'[q].allowed => answer'[q].remaining < Limit[asks'[q]]
      BY <2>3, <2>4, <2>6, Zenon DEF TypeOK, k
    <2> QED BY <2>4, <2>5, <2>6, <2>7, <2>8, Zenon DEF TypeOK
  <1>4. ASSUME NEW p \in Callers, NEW k \in Keys, Eval(p, k) PROVE TypeOK'
    <2> DEFINE b == script(k)
               allowed == b.count <= Limit[k] /\ Limit[k] > 0
               remaining == IF b.count >= Limit[k] THEN 0 ELSE Limit[k] - b.count
    <2>1. b \in [count : Nat, reset_at : Nat] /\ b.count > 0
      BY ScriptType DEF script, TypeOK
    <2>2. /\ remaining \in Nat /\ allowed \in BOOLEAN
          /\ allowed => remaining < Limit[k]
      BY <2>1, LimiterAssumption
    <2>3. /\ bucket' = [bucket EXCEPT ![k] = b]
          /\ decide(p, allowed, remaining, b.reset_at, "none")
          /\ admit(k, allowed)
          /\ asks' = [asks EXCEPT ![p] = k]
          /\ counted' = counted + 1
          /\ UNCHANGED <<kind, now, pc, seen>>
      BY <1>4 DEF Eval
    <2> HIDE DEF allowed, remaining, b
    <2>4. /\ answer' \in [Callers -> Decision]
          /\ answer'[p].allowed = allowed /\ answer'[p].remaining = remaining
          /\ \A q \in Callers : q # p => answer'[q] = answer[q]
      BY <2>1, <2>2, <2>3, DecideType
    <2>5. log' \in Seq([key : Keys, at : Nat])
      BY <2>2, <2>3, AdmitType, Zenon
    <2>6. \A q \in Callers : answer'[q].allowed => answer'[q].remaining < Limit[asks'[q]]
      BY <2>2, <2>3, <2>4 DEF TypeOK
    <2>7. bucket' \in [Keys -> [count : Nat, reset_at : Nat]]
      BY <2>1, <2>3 DEF TypeOK
    <2>8. /\ asks' \in [Callers -> Keys] /\ counted' \in Nat
          /\ kind' = kind /\ now' = now /\ pc' = pc /\ seen' = seen
      BY <2>3 DEF TypeOK
    <2> QED BY <2>4, <2>5, <2>6, <2>7, <2>8, Zenon DEF TypeOK
  <1>5. ASSUME NEW p \in Callers, NEW k \in Keys, Unavailable(p, k) PROVE TypeOK'
    <2>1. /\ answer' \in [Callers -> Decision] /\ ~answer'[p].allowed
          /\ \A q \in Callers : q # p => answer'[q] = answer[q]
      <3>1. now \in Nat
        BY DEF TypeOK
      <3>2. decide(p, FALSE, 0, now, "unavailable")
        BY <1>5, Zenon DEF Unavailable
      <3> QED BY <3>1, <3>2, DecideType, Zenon
    <2>2. bucket' \in [Keys -> [count : Nat, reset_at : Nat]]
      <3>1. bucket' = bucket \/ bucket' = [bucket EXCEPT ![k] = script(k)]
        BY <1>5 DEF Unavailable
      <3>2. script(k) \in [count : Nat, reset_at : Nat]
        BY ScriptType
      <3> QED BY <3>1, <3>2, Zenon DEF TypeOK
    <2>3. /\ asks' = [asks EXCEPT ![p] = k] /\ counted' = counted + 1
          /\ kind' = kind /\ now' = now /\ pc' = pc /\ seen' = seen /\ log' = log
      BY <1>5 DEF Unavailable
    <2>4. \A q \in Callers : answer'[q].allowed => answer'[q].remaining < Limit[asks'[q]]
      BY <2>1, <2>3 DEF TypeOK
    <2>5. asks' \in [Callers -> Keys] /\ counted' \in Nat
      BY <2>3 DEF TypeOK
    <2> QED BY <2>1, <2>2, <2>3, <2>4, <2>5 DEF TypeOK
  <1>6. ASSUME Tick \/ UNCHANGED vars PROVE TypeOK'
    BY <1>6 DEF TypeOK, Tick, vars
  <1> QED BY <1>1, <1>2, <1>3, <1>4, <1>5, <1>6 DEF Next

\* Every state of the limiters is well-typed, and an allowed call is told of
\* fewer calls than the limit.
THEOREM TypeCorrect == Spec => []TypeOK
  <1>1. Init => TypeOK
    BY LimiterAssumption DEF Init, TypeOK, Decision
  <1> QED BY <1>1, StepKeepsType, PTL DEF Spec

\* A window is replaced only by one that starts after its end.
THEOREM WindowsDisjoint == Spec => WindowsAreDisjoint
  <1> DEFINE Later(k) == bucket[k].count > 0 /\ bucket'[k].reset_at # bucket[k].reset_at
                         => bucket'[k].reset_at >= bucket[k].reset_at + Window[k]
  <1>1. ASSUME TypeOK, [Next]_vars, NEW k \in Keys PROVE Later(k)
    <2>0. /\ bucket[k].count \in Nat /\ bucket[k].reset_at \in Nat /\ Window[k] \in Nat /\ now \in Nat
      BY <1>1, LimiterAssumption DEF TypeOK
    <2>1. ASSUME NEW p \in Callers, Count(p) PROVE Later(k)
      <3>1. seen[p] \in Nat
        BY <1>1 DEF TypeOK
      <3>2. bucket'[k].reset_at \in {bucket[k].reset_at, opened(k, seen[p]).reset_at}
        BY <1>1, <2>1 DEF TypeOK, Count, opened
      <3> QED BY <2>0, <3>1, <3>2 DEF opened
    <2>2. ASSUME NEW p \in Callers, NEW j \in Keys, Eval(p, j) \/ Unavailable(p, j) PROVE Later(k)
      <3>1. bucket'[k].reset_at \in {bucket[k].reset_at, script(k).reset_at}
        BY <1>1, <2>2, Zenon DEF TypeOK, Eval, Unavailable
      <3> QED BY <2>0, <3>1 DEF script
    <2>3. CASE UNCHANGED bucket
      BY <2>3
    <2> QED BY <1>1, <2>1, <2>2, <2>3, Zenon DEF Next, vars, Invalid, ReadClock, Tick
  <1>2. TypeOK /\ [Next]_vars => [\A k \in Keys : Later(k)]_vars
    BY <1>1
  <1> QED BY <1>2, TypeCorrect, PTL DEF Spec, WindowsAreDisjoint
-----------------------------------------------------------------------------
(* The rate over any stretch of one window's length. *)

\* Callers that still bring a time from before the span that begins at t, and the others.
Stale(t) == {p \in Callers : pc[p] = "read" /\ seen[p] < t}
spent(t) == IF kind = "inmemory" THEN Cardinality(Callers \ Stale(t)) ELSE 0

\* One less than windowsTouched.
parties == IF kind = "inmemory" /\ Cardinality(Callers) > 1 THEN Cardinality(Callers) ELSE 1

\* The calls for k that were allowed in the span, and those of the current window.
InSpan(k, t) == {i \in DOMAIN log : log[i].key = k /\ log[i].at \in t .. (t + Window[k] - 1)}
within(k) == IF bucket[k].count < Limit[k] THEN bucket[k].count ELSE Limit[k]

\* How many calls N the span from t may have seen, when the current window ends at r and
\* has allowed m of them.  While the window lies before the span only callers with old
\* times count in it or replace it, each once.  A window that began before the span and
\* ends inside leaves room for one more, and one that ends after it for none.
Fits(N, u, n, L, W, t, r, m) ==
    /\ r <= t => N <= u * L
    /\ t < r /\ r < t + W => N <= (n - 1) * L + m
    /\ r >= t + W => N <= n * L + m

SpanOK(k, t) ==
    LET N == Cardinality(InSpan(k, t)) IN
    /\ N <= (parties + 1) * Limit[k]
    /\ now < t + Window[k] =>
          Fits(N, spent(t), parties, Limit[k], Window[k], t, bucket[k].reset_at, within(k))

\* A window that has counted nothing has not been opened, unless nothing is ever allowed;
\* in memory the count never exceeds the limit.
BucketOK(k) ==
    /\ bucket[k].count = 0 /\ (kind = "redis" \/ Limit[k] > 0) => bucket[k].reset_at = 0
    /\ kind = "inmemory" => bucket[k].count <= Limit[k]

\* No time lies in the future, and only the in-memory limiter reads the clock.
TimesOK ==
    /\ \A p \in Callers : pc[p] = "read" => kind = "inmemory" /\ seen[p] <= now
    /\ \A i \in DOMAIN log : log[i].at <= now

RateInv ==
    /\ TypeOK /\ TimesOK
    /\ \A k \in Keys : BucketOK(k)
    /\ \A k \in Keys, t \in Nat : Window[k] > 0 /\ t <= now => SpanOK(k, t)

\* Multiplication, as far as it is needed.
LEMMA OneMoreTimes ==
    ASSUME NEW a \in Nat, NEW L \in Nat
    PROVE  a * L \in Nat /\ (a + 1) * L = a * L + L
  OBVIOUS

\* More times as much is as much or more.
LEMMA TimesMonotone ==
    ASSUME NEW a \in Nat, NEW b \in Nat, NEW L \in Nat, a <= b
    PROVE  a * L <= b * L
  <1>1. PICK d \in Nat : b = a + d
    <2>1. b - a \in Nat /\ b = a + (b - a)
      OBVIOUS
    <2> QED BY <2>1
  <1>2. (a + d) * L = a * L + d * L /\ a * L \in Nat /\ d * L \in Nat
    OBVIOUS
  <1> QED BY <1>1, <1>2

\* What the lemmas below take for granted of their numbers.
Numbers(N, u, n, L, W, t, r, m) ==
    /\ N \in Nat /\ u \in Nat /\ n \in Nat /\ L \in Nat /\ W \in Nat /\ t \in Nat /\ r \in Nat /\ m \in Nat
    /\ n >= 1 /\ u <= n /\ m <= L

\* The products that occur.
LEMMA Products ==
    ASSUME NEW u \in Nat, NEW n \in Nat, NEW L \in Nat, n >= 1, u <= n
    PROVE  /\ u * L \in Nat /\ n * L \in Nat /\ (n - 1) * L \in Nat
           /\ u * L <= n * L /\ n * L = (n - 1) * L + L /\ (n + 1) * L = n * L + L
           /\ (u + 1) * L = u * L + L
  <1>1. n - 1 \in Nat /\ (n - 1) + 1 = n
    OBVIOUS
  <1>2. (n - 1) * L \in Nat /\ ((n - 1) + 1) * L = (n - 1) * L + L
    BY <1>1, OneMoreTimes
  <1>3. u * L <= n * L
    BY TimesMonotone
  <1> QED BY <1>1, <1>2, <1>3, OneMoreTimes

\* What fits is within the bound.
LEMMA FitsIsBounded ==
    ASSUME NEW N, NEW u, NEW n, NEW L, NEW W, NEW t, NEW r, NEW m,
           Numbers(N, u, n, L, W, t, r, m), Fits(N, u, n, L, W, t, r, m)
    PROVE  N <= (n + 1) * L
  <1>1. /\ u * L \in Nat /\ n * L \in Nat /\ (n - 1) * L \in Nat
        /\ u * L <= n * L /\ n * L = (n - 1) * L + L /\ (n + 1) * L = n * L + L
    BY Products DEF Numbers
  <1> DEFINE ul == u * L  nl == n * L  ml == (n - 1) * L  pl == (n + 1) * L
  <1>2. /\ r <= t => N <= ul
        /\ t < r /\ r < t + W => N <= ml + m
        /\ r >= t + W => N <= nl + m
    BY DEF Fits
  <1>3. ul \in Nat /\ nl \in Nat /\ ml \in Nat /\ ul <= nl /\ nl = ml + L /\ pl = nl + L
    BY <1>1
  <1> HIDE DEF ul, nl, ml, pl
  <1>4. N <= pl
    BY <1>2, <1>3 DEF Numbers
  <1> QED BY <1>4 DEF pl

\* Fewer old times and more calls in the window leave more room.
LEMMA FitsStays ==
    ASSUME NEW N, NEW u, NEW n, NEW L, NEW W, NEW t, NEW r, NEW m,
           Numbers(N, u, n, L, W, t, r, m), Fits(N, u, n, L, W, t, r, m),
           NEW u2 \in Nat, u <= u2, NEW m2 \in Nat, m <= m2
    PROVE  Fits(N, u2, n, L, W, t, r, m2)
  <1>1. u * L <= u2 * L /\ u * L \in Nat /\ u2 * L \in Nat
    BY TimesMonotone, OneMoreTimes DEF Numbers
  <1>2. n * L \in Nat /\ (n - 1) * L \in Nat
    BY Products DEF Numbers
  <1> DEFINE ul == u * L  vl == u2 * L  nl == n * L  ml == (n - 1) * L
  <1>3. /\ r <= t => N <= ul
        /\ t < r /\ r < t + W => N <= ml + m
        /\ r >= t + W => N <= nl + m
    BY DEF Fits
  <1>4. ul \in Nat /\ vl \in Nat /\ nl \in Nat /\ ml \in Nat /\ ul <= vl
    BY <1>1, <1>2
  <1> HIDE DEF ul, vl, nl, ml
  <1>5. /\ r <= t => N <= vl
        /\ t < r /\ r < t + W => N <= ml + m2
        /\ r >= t + W => N <= nl + m2
    BY <1>3, <1>4 DEF Numbers
  <1> QED BY <1>5 DEF Fits, vl, nl, ml

\* A call that is allowed in the current window; in one from before the span it takes a
\* caller with an old time.
LEMMA FitsInWindow ==
    ASSUME NEW N, NEW u, NEW n, NEW L, NEW W, NEW t, NEW r, NEW m,
           Numbers(N, u, n, L, W, t, r, m), Fits(N, u, n, L, W, t, r, m), L >= 1,
           NEW u2 \in Nat, r <= t => u2 = u + 1
    PROVE  Fits(N + 1, u2, n, L, W, t, r, m + 1)
  <1>1. u * L \in Nat /\ (u + 1) * L = u * L + L /\ n * L \in Nat /\ (n - 1) * L \in Nat
    BY Products DEF Numbers
  <1> DEFINE ul == u * L  vl == u2 * L  nl == n * L  ml == (n - 1) * L
  <1>2. /\ r <= t => N <= ul
        /\ t < r /\ r < t + W => N <= ml + m
        /\ r >= t + W => N <= nl + m
    BY DEF Fits
  <1>3. ul \in Nat /\ nl \in Nat /\ ml \in Nat /\ (r <= t => vl = ul + L)
    BY <1>1
  <1> HIDE DEF ul, vl, nl, ml
  <1>4. /\ r <= t => N + 1 <= vl
        /\ t < r /\ r < t + W => N + 1 <= ml + (m + 1)
        /\ r >= t + W => N + 1 <= nl + (m + 1)
    BY <1>2, <1>3 DEF Numbers
  <1> QED BY <1>4 DEF Fits, vl, nl, ml

\* A call that is allowed in a new window, which begins at the caller's time.
LEMMA FitsNewWindow ==
    ASSUME NEW N, NEW u, NEW n, NEW L, NEW W, NEW t, NEW r, NEW m,
           Numbers(N, u, n, L, W, t, r, m), Fits(N, u, n, L, W, t, r, m), L >= 1,
           NEW s \in Nat, r <= s, s < t + W, NEW u2 \in Nat, u <= u2, u2 <= n, s < t => u2 = u + 1
    PROVE  Fits(N + 1, u2, n, L, W, t, s + W, 1)
  <1>1. /\ u * L \in Nat /\ (u + 1) * L = u * L + L /\ n * L \in Nat /\ (n - 1) * L \in Nat
        /\ u * L <= n * L /\ n * L = (n - 1) * L + L
    BY Products DEF Numbers
  <1>2. s < t => u * L <= (n - 1) * L
    <2>1. s < t => u <= n - 1
      BY DEF Numbers
    <2>2. n - 1 \in Nat
      BY DEF Numbers
    <2> QED BY <2>1, <2>2, TimesMonotone DEF Numbers
  <1> DEFINE ul == u * L  vl == u2 * L  nl == n * L  ml == (n - 1) * L
  <1>3. /\ r <= t => N <= ul
        /\ t < r /\ r < t + W => N <= ml + m
        /\ r >= t + W => N <= nl + m
    BY DEF Fits
  <1>4. /\ ul \in Nat /\ nl \in Nat /\ ml \in Nat /\ ul <= nl /\ nl = ml + L
        /\ s < t => vl = ul + L /\ ul <= ml
    BY <1>1, <1>2
  <1> HIDE DEF ul, vl, nl, ml
  <1>5. N <= nl /\ (s < t => N <= ul)
    BY <1>3, <1>4 DEF Numbers
  <1>6. /\ s + W <= t => N + 1 <= vl
        /\ t < s + W /\ s + W < t + W => N + 1 <= ml + 1
        /\ s + W >= t + W => N + 1 <= nl + 1
    BY <1>4, <1>5 DEF Numbers
  <1> QED BY <1>6 DEF Fits, vl, nl, ml

\* The numbers that count callers.
LEMMA Callings ==
    ASSUME TypeOK, NEW t
    PROVE  /\ parties \in Nat /\ parties >= 1 /\ windowsTouched = parties + 1
           /\ spent(t) \in Nat /\ spent(t) <= parties
  <1>1. IsFiniteSet(Callers) /\ Cardinality(Callers) \in Nat
    BY LimiterAssumption, FS_CardinalityType
  <1>2. /\ Cardinality(Callers \ Stale(t)) \in Nat
        /\ Cardinality(Callers \ Stale(t)) <= Cardinality(Callers)
    <2>1. (Callers \ Stale(t)) \in SUBSET Callers
      OBVIOUS
    <2>2. IsFiniteSet(Callers \ Stale(t)) /\ Cardinality(Callers \ Stale(t)) <= Cardinality(Callers)
      BY <1>1, <2>1, FS_Subset
    <2> QED BY <2>2, FS_CardinalityType
  <1>3. /\ parties \in Nat /\ parties >= 1 /\ windowsTouched = parties + 1
    BY <1>1 DEF parties, windowsTouched
  <1> DEFINE c == Cardinality(Callers)  d == Cardinality(Callers \ Stale(t))
  <1>4. /\ c \in Nat /\ d \in Nat /\ d <= c
        /\ parties = (IF kind = "inmemory" /\ c > 1 THEN c ELSE 1)
        /\ spent(t) = (IF kind = "inmemory" THEN d ELSE 0)
    BY <1>1, <1>2 DEF parties, spent
  <1> HIDE DEF c, d
  <1>5. spent(t) \in Nat /\ spent(t) <= parties
    BY <1>4
  <1> QED BY <1>3, <1>5

\* The numbers of a span.
LEMMA SpanNumbers ==
    ASSUME TypeOK, NEW k \in Keys, NEW t \in Nat
    PROVE  /\ IsFiniteSet(InSpan(k, t))
           /\ Numbers(Cardinality(InSpan(k, t)), spent(t), parties, Limit[k], Window[k], t,
                      bucket[k].reset_at, within(k))
  <1>1. /\ bucket[k].count \in Nat /\ bucket[k].reset_at \in Nat /\ Limit[k] \in Nat /\ Window[k] \in Nat
    BY LimiterAssumption DEF TypeOK
  <1>2. within(k) \in Nat /\ within(k) <= Limit[k]
    BY <1>1 DEF within
  <1>3. IsFiniteSet(InSpan(k, t))
    <2>1. log \in Seq([key : Keys, at : Nat])
      BY DEF TypeOK
    <2>2. Len(log) \in Nat /\ DOMAIN log = 1 .. Len(log)
      BY <2>1
    <2>3. IsFiniteSet(DOMAIN log)
      BY <2>2, FS_Interval
    <2>4. InSpan(k, t) \in SUBSET (DOMAIN log)
      BY DEF InSpan
    <2> QED BY <2>3, <2>4, FS_Subset
  <1>4. Cardinality(InSpan(k, t)) \in Nat
    BY <1>3, FS_CardinalityType
  <1> QED BY <1>1, <1>2, <1>3, <1>4, Callings DEF Numbers

\* The invariant gives the bound for every span, also of a key without a valid window.
LEMMA RateInvImplies ==
    ASSUME RateInv PROVE RateIsBounded
  <1> SUFFICES ASSUME NEW k \in Keys, NEW t \in 0 .. now
               PROVE  admittedIn(k, t) <= windowsTouched * Limit[k]
    BY DEF RateIsBounded
  <1>1. TypeOK /\ now \in Nat /\ t \in Nat /\ t <= now
    BY DEF RateInv, TypeOK
  <1>2. admittedIn(k, t) = Cardinality(InSpan(k, t))
    BY DEF admittedIn, InSpan
  <1>3. windowsTouched = parties + 1 /\ parties \in Nat /\ Limit[k] \in Nat /\ Window[k] \in Nat
    BY <1>1, Callings, LimiterAssumption
  <1>4. CASE Window[k] > 0
    BY <1>1, <1>2, <1>3, <1>4 DEF RateInv, SpanOK
  <1>5. CASE Window[k] = 0
    <2>1. t .. (t + Window[k] - 1) = {}
      BY <1>1, <1>5
    <2>2. InSpan(k, t) = {}
      BY <2>1 DEF InSpan
    <2>3. admittedIn(k, t) = 0
      BY <1>2, <2>2, FS_EmptySet
    <2>4. windowsTouched * Limit[k] \in Nat
      BY <1>3
    <2> QED BY <2>3, <2>4
  <1> QED BY <1>3, <1>4, <1>5

\* A span is as full as before when no call is allowed in it.
LEMMA SameSpan ==
    ASSUME NEW k, NEW t, log' = log
    PROVE  InSpan(k, t)' = InSpan(k, t)
  BY DEF InSpan

\* A call that is allowed adds one to the spans of its key that it lies in, and to no other.
LEMMA MoreInSpan ==
    ASSUME TypeOK, NEW j \in Keys, log' = Append(log, [key |-> j, at |-> now]), NEW k \in Keys, NEW t \in Nat,
           t <= now
    PROVE  /\ Cardinality(InSpan(k, t)') =
                 IF k = j /\ now < t + Window[k] THEN Cardinality(InSpan(k, t)) + 1
                                                 ELSE Cardinality(InSpan(k, t))
  <1> DEFINE Entry == [key : Keys, at : Nat]
             e == [key |-> j, at |-> now]
             n == Len(log)
  <1>1. log \in Seq(Entry) /\ e \in Entry /\ n \in Nat /\ now \in Nat
    BY DEF TypeOK
  <1>2. e.key = j /\ e.at = now
    OBVIOUS
  <1> HIDE DEF Entry, e
  <1>3. /\ DOMAIN log = 1 .. n /\ DOMAIN log' = 1 .. n + 1
        /\ \A i \in 1 .. n : log'[i] = log[i]
        /\ log'[n + 1] = e
    BY <1>1 DEF e
  <1>4. (n + 1) \notin 1 .. n /\ 1 .. n + 1 = (1 .. n) \cup {n + 1}
    BY <1>1
  <1>5. now \in t .. (t + Window[k] - 1) <=> now < t + Window[k]
    BY <1>1, LimiterAssumption
  <1> HIDE DEF n
  <1>6. CASE k = j /\ now < t + Window[k]
    <2>1. InSpan(k, t)' = InSpan(k, t) \cup {n + 1} /\ (n + 1) \notin InSpan(k, t)
      BY <1>2, <1>3, <1>4, <1>5, <1>6 DEF InSpan
    <2>2. IsFiniteSet(InSpan(k, t))
      BY SpanNumbers
    <2>3. Cardinality(InSpan(k, t)') = Cardinality(InSpan(k, t)) + 1
      BY <2>1, <2>2, FS_AddElement, Zenon
    <2> QED BY <1>6, <2>3
  <1>7. CASE ~(k = j /\ now < t + Window[k])
    <2>1. InSpan(k, t)' = InSpan(k, t)
      BY <1>2, <1>3, <1>4, <1>5, <1>7 DEF InSpan
    <2> QED BY <1>7, <2>1
  <1> QED BY <1>6, <1>7

\* Callers that bring old times become fewer, one at a time.
LEMMA SpentGrows ==
    ASSUME TypeOK, NEW t, kind' = kind, Stale(t)' \subseteq Stale(t)
    PROVE  /\ spent(t)' \in Nat /\ spent(t) <= spent(t)' /\ parties' = parties /\ spent(t)' <= parties
           /\ \A p \in Stale(t) : kind = "inmemory" /\ Stale(t)' = Stale(t) \ {p} => spent(t)' = spent(t) + 1
  <1> DEFINE A == Callers \ Stale(t)  B == Callers \ Stale(t)'  C == Callers
  <1>1. A \in SUBSET B /\ B \in SUBSET C
    OBVIOUS
  <1>2. IsFiniteSet(C)
    BY LimiterAssumption
  <1>3. IsFiniteSet(B) /\ Cardinality(B) <= Cardinality(C)
    BY <1>1, <1>2, FS_Subset
  <1>4. IsFiniteSet(A) /\ Cardinality(A) <= Cardinality(B)
    BY <1>1, <1>3, FS_Subset
  <1>5. Cardinality(A) \in Nat /\ Cardinality(B) \in Nat /\ Cardinality(C) \in Nat
    BY <1>2, <1>3, <1>4, FS_CardinalityType
  <1>6. /\ spent(t) = (IF kind = "inmemory" THEN Cardinality(A) ELSE 0)
        /\ spent(t)' = (IF kind = "inmemory" THEN Cardinality(B) ELSE 0)
        /\ parties = (IF kind = "inmemory" /\ Cardinality(C) > 1 THEN Cardinality(C) ELSE 1)
        /\ parties' = parties
    BY DEF spent, parties
  <1>7. ASSUME NEW p \in Stale(t), Stale(t)' = Stale(t) \ {p} PROVE Cardinality(B) = Cardinality(A) + 1
    <2>1. B = A \cup {p} /\ p \notin A
      BY <1>7 DEF Stale
    <2> QED BY <1>4, <2>1, FS_AddElement, Zenon
  <1> HIDE DEF A, B, C
  <1>8. spent(t)' \in Nat /\ spent(t) <= spent(t)' /\ spent(t)' <= parties
    BY <1>3, <1>4, <1>5, <1>6
  <1>9. ASSUME NEW p \in Stale(t), kind = "inmemory", Stale(t)' = Stale(t) \ {p} PROVE spent(t)' = spent(t) + 1
    BY <1>6, <1>7, <1>9
  <1> QED BY <1>6, <1>8, <1>9

\* Spans of a key whose window stays as it is, or counts without room for more calls.
LEMMA SpanStays ==
    ASSUME TypeOK, TypeOK', NEW k \in Keys, NEW t \in Nat, SpanOK(k, t), kind' = kind,
           Cardinality(InSpan(k, t)') = Cardinality(InSpan(k, t)),
           bucket'[k].reset_at = bucket[k].reset_at, within(k) <= within(k)',
           Stale(t)' \subseteq Stale(t), now <= now'
    PROVE  SpanOK(k, t)'
  <1> DEFINE N == Cardinality(InSpan(k, t))
  <1>1. Numbers(N, spent(t), parties, Limit[k], Window[k], t, bucket[k].reset_at, within(k))
    BY SpanNumbers, Zenon
  <1>2. spent(t)' \in Nat /\ spent(t) <= spent(t)' /\ parties' = parties
    BY SpentGrows
  <1>3. within(k)' \in Nat
    <2>1. bucket'[k].count \in Nat /\ Limit[k] \in Nat
      BY LimiterAssumption DEF TypeOK
    <2> QED BY <2>1 DEF within
  <1>4. now < t + Window[k] =>
            Fits(N, spent(t)', parties, Limit[k], Window[k], t, bucket[k].reset_at, within(k)')
    BY <1>1, <1>2, <1>3, FitsStays DEF SpanOK
  <1>5. now' < t + Window[k] => now < t + Window[k]
    <2>1. now \in Nat /\ now' \in Nat /\ Window[k] \in Nat
      BY LimiterAssumption DEF TypeOK
    <2> QED BY <2>1
  <1> QED BY <1>2, <1>4, <1>5 DEF SpanOK

\* Spans of a key of which no call is ever allowed.
LEMMA NothingFits ==
    ASSUME TypeOK, TypeOK', NEW k \in Keys, NEW t \in Nat, SpanOK(k, t), kind' = kind, Limit[k] = 0,
           Cardinality(InSpan(k, t)') = Cardinality(InSpan(k, t)), Stale(t)' \subseteq Stale(t)
    PROVE  SpanOK(k, t)'
  <1> DEFINE N == Cardinality(InSpan(k, t))
  <1>1. N \in Nat /\ parties \in Nat /\ spent(t)' \in Nat /\ parties' = parties /\ parties >= 1
    BY SpanNumbers, SpentGrows DEF Numbers
  <1>2. N = 0
    BY <1>1 DEF SpanOK
  <1>3. within(k)' \in Nat
    <2>1. bucket'[k].count \in Nat /\ Limit[k] \in Nat
      BY LimiterAssumption DEF TypeOK
    <2> QED BY <2>1 DEF within
  <1>4. /\ (parties + 1) * 0 = 0 /\ spent(t)' * 0 = 0 /\ (parties - 1) * 0 = 0 /\ parties * 0 = 0
    BY <1>1
  <1> QED BY <1>1, <1>2, <1>3, <1>4 DEF SpanOK, Fits

\* Spans of the key of a call that is allowed in its current window.
LEMMA SpanInWindow ==
    ASSUME TypeOK, TypeOK', NEW k \in Keys, NEW t \in Nat, t <= now, SpanOK(k, t), kind' = kind, now' = now,
           Limit[k] >= 1, log' = Append(log, [key |-> k, at |-> now]),
           bucket'[k].reset_at = bucket[k].reset_at, within(k)' = within(k) + 1,
           Stale(t)' \subseteq Stale(t),
           bucket[k].reset_at <= t => spent(t)' = spent(t) + 1
    PROVE  SpanOK(k, t)'
  <1> DEFINE N == Cardinality(InSpan(k, t))
  <1>1. Numbers(N, spent(t), parties, Limit[k], Window[k], t, bucket[k].reset_at, within(k))
    BY SpanNumbers, Zenon
  <1>2. spent(t)' \in Nat /\ parties' = parties /\ spent(t)' <= parties
    BY SpentGrows, Zenon
  <1>3. Cardinality(InSpan(k, t)') = IF now < t + Window[k] THEN N + 1 ELSE N
    BY MoreInSpan
  <1>4. within(k)' \in Nat /\ within(k)' <= Limit[k]
    <2>1. bucket'[k].count \in Nat /\ Limit[k] \in Nat
      BY LimiterAssumption DEF TypeOK
    <2> QED BY <2>1 DEF within
  <1> HIDE DEF N
  <1>5. CASE now < t + Window[k]
    <2>1. Fits(N + 1, spent(t)', parties, Limit[k], Window[k], t, bucket[k].reset_at, within(k) + 1)
      BY <1>1, <1>2, <1>5, FitsInWindow, Zenon DEF SpanOK, N
    <2>2. Numbers(N + 1, spent(t)', parties, Limit[k], Window[k], t, bucket[k].reset_at, within(k) + 1)
      BY <1>1, <1>2, <1>4 DEF Numbers
    <2>3. N + 1 <= (parties + 1) * Limit[k]
      BY <2>1, <2>2, FitsIsBounded, Zenon
    <2> QED BY <1>2, <1>3, <1>5, <2>1, <2>3, Zenon DEF SpanOK
  <1>6. CASE ~(now < t + Window[k])
    BY <1>2, <1>3, <1>6, Zenon DEF SpanOK, N
  <1> QED BY <1>5, <1>6

\* Spans of the key of a call that opens a window at time s.
LEMMA SpanNewWindow ==
    ASSUME TypeOK, TypeOK', NEW k \in Keys, NEW t \in Nat, t <= now, SpanOK(k, t), kind' = kind, now' = now,
           Limit[k] >= 1, log' = Append(log, [key |-> k, at |-> now]),
           NEW s \in Nat, bucket[k].reset_at <= s, s <= now,
           bucket'[k].reset_at = s + Window[k], within(k)' = 1,
           Stale(t)' \subseteq Stale(t), s < t => spent(t)' = spent(t) + 1
    PROVE  SpanOK(k, t)'
  <1> DEFINE N == Cardinality(InSpan(k, t))
  <1>1. Numbers(N, spent(t), parties, Limit[k], Window[k], t, bucket[k].reset_at, within(k))
    BY SpanNumbers, Zenon
  <1>2. spent(t)' \in Nat /\ spent(t) <= spent(t)' /\ parties' = parties /\ spent(t)' <= parties
    BY SpentGrows, Zenon
  <1>3. Cardinality(InSpan(k, t)') = IF now < t + Window[k] THEN N + 1 ELSE N
    BY MoreInSpan
  <1>4. now \in Nat /\ Window[k] \in Nat
    BY LimiterAssumption DEF TypeOK
  <1> HIDE DEF N
  <1>5. CASE now < t + Window[k]
    <2>0. s < t + Window[k]
      <3> DEFINE e == t + Window[k]
      <3>1. e \in Nat /\ now < e
        BY <1>4, <1>5
      <3> HIDE DEF e
      <3>2. s < e
        BY <1>4, <3>1
      <3> QED BY <3>2 DEF e
    <2>1. Fits(N + 1, spent(t)', parties, Limit[k], Window[k], t, s + Window[k], 1)
      BY <1>1, <1>2, <1>5, <2>0, FitsNewWindow, Zenon DEF SpanOK, N
    <2>2. Numbers(N + 1, spent(t)', parties, Limit[k], Window[k], t, s + Window[k], 1)
      BY <1>1, <1>2, <1>4 DEF Numbers
    <2>3. N + 1 <= (parties + 1) * Limit[k]
      BY <2>1, <2>2, FitsIsBounded
    <2> QED BY <1>2, <1>3, <1>5, <2>1, <2>3, Zenon DEF SpanOK
  <1>6. CASE ~(now < t + Window[k])
    BY <1>2, <1>3, <1>6, Zenon DEF SpanOK, N
  <1> QED BY <1>5, <1>6

\* A call for one key leaves the spans of the others as they are.
LEMMA OtherKeysKeep ==
    ASSUME TypeOK, TypeOK', NEW k \in Keys, NEW j \in Keys, k # j, NEW t \in Nat, t <= now, SpanOK(k, t),
           kind' = kind, now' = now, admit(j, TRUE) \/ admit(j, FALSE), bucket'[k] = bucket[k],
           Stale(t)' \subseteq Stale(t)
    PROVE  SpanOK(k, t)'
  <1>1. Cardinality(InSpan(k, t)') = Cardinality(InSpan(k, t))
    <2>1. CASE admit(j, TRUE)
      BY <2>1, MoreInSpan DEF admit
    <2>2. CASE admit(j, FALSE)
      BY <2>2, SameSpan DEF admit
    <2> QED BY <2>1, <2>2, Zenon
  <1>2. bucket[k].count \in Nat /\ Limit[k] \in Nat /\ now \in Nat
    BY LimiterAssumption DEF TypeOK
  <1>3. within(k)' = within(k) /\ within(k) \in Nat
    BY <1>2 DEF within
  <1>4. within(k) <= within(k)' /\ now <= now' /\ bucket'[k].reset_at = bucket[k].reset_at
    BY <1>2, <1>3
  <1> QED BY <1>1, <1>4, SpanStays

\* The times stay past when a call is allowed.
LEMMA AdmitTimes ==
    ASSUME TypeOK, TimesOK, NEW k \in Keys, NEW allowed \in BOOLEAN, admit(k, allowed), now' = now
    PROVE  \A i \in DOMAIN log' : log'[i].at <= now'
  <1> DEFINE Entry == [key : Keys, at : Nat]
             e == [key |-> k, at |-> now]
  <1>1. log \in Seq(Entry) /\ e \in Entry /\ e.at = now /\ now \in Nat
    BY DEF TypeOK
  <1> HIDE DEF Entry, e
  <1>2. CASE log' = Append(log, e)
    <2>1. /\ DOMAIN log = 1 .. Len(log) /\ Len(log) \in Nat /\ DOMAIN log' = 1 .. Len(log) + 1
          /\ \A i \in 1 .. Len(log) : log'[i] = log[i]
          /\ log'[Len(log) + 1] = e
      BY <1>1, <1>2
    <2>2. 1 .. Len(log) + 1 = (1 .. Len(log)) \cup {Len(log) + 1}
      BY <2>1
    <2> QED BY <1>1, <2>1, <2>2 DEF TimesOK
  <1>3. CASE log' = log
    BY <1>3 DEF TimesOK
  <1> QED BY <1>2, <1>3 DEF admit, e

\* The critical section of the in-memory limiter.
LEMMA CountKeepsRate ==
    ASSUME RateInv, TypeOK', NEW p \in Callers, Count(p), NEW k \in Keys, k = asks[p],
           NEW s \in Nat, s = seen[p], NEW b, b = opened(k, s)
    PROVE  RateInv'
  <1> DEFINE L == Limit[k]
             allowed == L > 0 /\ b.count < L
  <1>1. TypeOK /\ TimesOK /\ BucketOK(k)
    BY DEF RateInv
  <1>2. /\ L \in Nat /\ Window[k] \in Nat /\ now \in Nat
        /\ bucket[k].count \in Nat /\ bucket[k].reset_at \in Nat
    <2>1. L \in Nat /\ Window[k] \in Nat
      BY LimiterAssumption
    <2>2. bucket[k].count \in Nat /\ bucket[k].reset_at \in Nat /\ now \in Nat
      BY <1>1 DEF TypeOK
    <2> QED BY <2>1, <2>2
  <1>3. /\ pc[p] = "read" /\ kind = "inmemory" /\ s <= now /\ kind' = kind /\ now' = now
        /\ seen' = seen /\ pc' = [pc EXCEPT ![p] = "idle"] /\ admit(k, allowed)
        /\ bucket' = [bucket EXCEPT ![k] = IF allowed THEN [b EXCEPT !.count = @ + 1] ELSE b]
    BY <1>1, Zenon DEF Count, TimesOK
  <1>4. \A t : Stale(t)' = Stale(t) \ {p}
    BY <1>1, <1>3 DEF Stale, TypeOK
  <1>5. \A t : s < t => p \in Stale(t)
    BY <1>3 DEF Stale
  <1>6. TimesOK'
    <2>1. allowed \in BOOLEAN
      OBVIOUS
    <2>2. \A i \in DOMAIN log' : log'[i].at <= now'
      BY <1>1, <1>2, <1>3, <2>1, AdmitTimes, Zenon
    <2>3. \A q \in Callers : pc'[q] = "read" => kind' = "inmemory" /\ seen'[q] <= now'
      BY <1>1, <1>3 DEF TimesOK, TypeOK
    <2> QED BY <2>2, <2>3 DEF TimesOK
  <1>7. \A j \in Keys \ {k} : bucket'[j] = bucket[j]
    BY <1>1, <1>3 DEF TypeOK
  <1>8. b = (IF bucket[k].count = 0 \/ s >= bucket[k].reset_at
             THEN [count |-> 0, reset_at |-> s + Window[k]] ELSE bucket[k])
    BY DEF opened
  <1>9. b \in [count : Nat, reset_at : Nat]
    BY <1>1, <1>2, OpenedType
  <1>10. /\ bucket'[k].reset_at = b.reset_at
         /\ bucket'[k].count = IF allowed THEN b.count + 1 ELSE b.count
    <2>1. bucket'[k] = IF allowed THEN [b EXCEPT !.count = @ + 1] ELSE b
      BY <1>1, <1>2, <1>3, Zenon DEF TypeOK
    <2> HIDE DEF allowed
    <2> QED BY <1>9, <2>1
  <1>11. BucketOK(k)'
    <2>1. CASE b = bucket[k]
      <3> QED BY <1>1, <1>2, <1>3, <1>10, <2>1 DEF BucketOK
    <2>2. CASE b = [count |-> 0, reset_at |-> s + Window[k]]
      <3>1. b.count = 0 /\ b.reset_at = s + Window[k]
        BY <2>2
      <3> QED BY <1>2, <1>3, <1>10, <3>1 DEF BucketOK
    <2> QED BY <1>8, <2>1, <2>2, Zenon
  <1>12. ASSUME NEW t \in Nat, t <= now, SpanOK(k, t), Window[k] > 0 PROVE SpanOK(k, t)'
    <2>0. Stale(t)' \subseteq Stale(t) /\ (s < t => spent(t)' = spent(t) + 1)
      <3>1. Stale(t)' = Stale(t) \ {p}
        BY <1>4
      <3>2. s < t => p \in Stale(t)
        BY <1>5
      <3> QED BY <1>1, <1>3, <3>1, <3>2, SpentGrows
    <2>1. CASE L = 0
      <3>1. log' = log
        BY <1>3, <2>1 DEF admit
      <3> QED BY <1>1, <1>2, <1>3, <1>12, <2>0, <2>1, <3>1, SameSpan, NothingFits
    <2>2. CASE L > 0 /\ ~allowed
      <3>1. b = bucket[k] /\ log' = log
        BY <1>2, <1>3, <1>8, <2>2 DEF admit
      <3>2. bucket'[k].reset_at = bucket[k].reset_at /\ bucket'[k].count = bucket[k].count
        BY <1>10, <2>2, <3>1
      <3>3. within(k) <= within(k)'
        BY <1>2, <3>2 DEF within
      <3> QED BY <1>1, <1>2, <1>3, <1>12, <2>0, <3>1, <3>2, <3>3, SameSpan, SpanStays
    <2>3. CASE allowed
      <3>1. log' = Append(log, [key |-> k, at |-> now]) /\ L >= 1
        BY <1>2, <1>3, <2>3 DEF admit
      <3>2. CASE b = bucket[k] /\ s < bucket[k].reset_at
        <4>1. /\ bucket'[k].reset_at = bucket[k].reset_at /\ bucket'[k].count = bucket[k].count + 1
              /\ bucket[k].count < L
          BY <1>10, <2>3, <3>2
        <4>2. within(k)' = within(k) + 1
          BY <1>2, <4>1 DEF within
        <4>3. bucket[k].reset_at <= t => spent(t)' = spent(t) + 1
          BY <1>2, <2>0, <3>2
        <4> QED BY <1>1, <1>2, <1>3, <1>12, <2>0, <3>1, <4>1, <4>2, <4>3, SpanInWindow, Zenon
      <3>3. CASE b = [count |-> 0, reset_at |-> s + Window[k]] /\ bucket[k].reset_at <= s
        <4>1. bucket'[k].reset_at = s + Window[k] /\ bucket'[k].count = 1
          BY <1>10, <2>3, <3>3
        <4>2. within(k)' = 1
          BY <1>2, <3>1, <4>1 DEF within
        <4> QED BY <1>1, <1>2, <1>3, <1>12, <2>0, <3>1, <3>3, <4>1, <4>2, SpanNewWindow, Zenon
      <3>4. bucket[k].count = 0 => bucket[k].reset_at = 0
        BY <1>1, <1>2, <3>1 DEF BucketOK
      <3> QED BY <1>2, <1>8, <3>2, <3>3, <3>4
    <2> QED BY <1>2, <2>1, <2>2, <2>3
  <1>13. ASSUME NEW j \in Keys, NEW t \in Nat, j # k, t <= now, SpanOK(j, t) PROVE SpanOK(j, t)'
    <2>1. admit(k, TRUE) \/ admit(k, FALSE)
      BY <1>3 DEF admit
    <2>2. bucket'[j] = bucket[j] /\ Stale(t)' \subseteq Stale(t)
      BY <1>4, <1>7, <1>13
    <2> QED BY <1>1, <1>2, <1>3, <1>13, <2>1, <2>2, OtherKeysKeep, Zenon
  <1>14. \A j \in Keys : BucketOK(j)'
    <2>1. \A j \in Keys \ {k} : BucketOK(j)'
      BY <1>3, <1>7 DEF RateInv, BucketOK
    <2> QED BY <1>11, <2>1
  <1>15. \A j \in Keys, t \in Nat : Window[j] > 0 /\ t <= now' => SpanOK(j, t)'
    BY <1>3, <1>12, <1>13 DEF RateInv
  <1> QED BY <1>6, <1>14, <1>15 DEF RateInv

\* A window that is opened by a call of which no answer arrives leaves room for the calls so far.
LEMMA SpanOpens ==
    ASSUME TypeOK, TypeOK', NEW k \in Keys, NEW t \in Nat, t <= now, SpanOK(k, t), kind' = kind, now' = now,
           Limit[k] >= 1, log' = log, bucket[k].reset_at <= now,
           bucket'[k].reset_at = now + Window[k], within(k)' = 1,
           Stale(t)' \subseteq Stale(t)
    PROVE  SpanOK(k, t)'
  <1> DEFINE N == Cardinality(InSpan(k, t))
  <1>1. Numbers(N, spent(t), parties, Limit[k], Window[k], t, bucket[k].reset_at, within(k))
    BY SpanNumbers
  <1>2. spent(t)' \in Nat /\ spent(t) <= spent(t)' /\ parties' = parties /\ spent(t)' <= parties
    BY SpentGrows
  <1>3. Cardinality(InSpan(k, t)') = N
    BY SameSpan
  <1>4. now \in Nat /\ Window[k] \in Nat /\ ~(now < t) /\ Limit[k] \in Nat
    <2>1. now \in Nat
      BY DEF TypeOK
    <2> QED BY <2>1, LimiterAssumption
  <1> HIDE DEF N
  <1>5. CASE now < t + Window[k]
    <2>1. Fits(N + 1, spent(t)', parties, Limit[k], Window[k], t, now + Window[k], 1)
      BY <1>1, <1>2, <1>4, <1>5, FitsNewWindow, Zenon DEF SpanOK, N
    <2>2. Fits(N, spent(t)', parties, Limit[k], Window[k], t, now + Window[k], 1)
      <3> DEFINE x == spent(t)' * Limit[k]  y == (parties - 1) * Limit[k]  z == parties * Limit[k]
                 e == now + Window[k]  f == t + Window[k]
      <3>1. x \in Nat /\ y \in Nat /\ z \in Nat
        BY <1>1, <1>2, <1>4, Products DEF Numbers
      <3>2. N \in Nat
        BY <1>1 DEF Numbers
      <3>3. /\ e <= t => N + 1 <= x
            /\ t < e /\ e < f => N + 1 <= y + 1
            /\ e >= f => N + 1 <= z + 1
        BY <2>1 DEF Fits
      <3> HIDE DEF x, y, z, e, f
      <3>4. (N + 1 <= x => N <= x) /\ (N + 1 <= y + 1 => N <= y + 1) /\ (N + 1 <= z + 1 => N <= z + 1)
        BY <3>1, <3>2
      <3>5. /\ e <= t => N <= x
            /\ t < e /\ e < f => N <= y + 1
            /\ e >= f => N <= z + 1
        BY <3>3, <3>4, Zenon
      <3> QED BY <3>5 DEF Fits, x, y, z, e, f
    <2> QED BY <1>2, <1>3, <2>2, Zenon DEF SpanOK, N
  <1>6. CASE ~(now < t + Window[k])
    BY <1>2, <1>3, <1>6, Zenon DEF SpanOK, N
  <1> QED BY <1>5, <1>6

\* The fixed-window script, run for a call that may be allowed or get no answer.
LEMMA ScriptKeepsRate ==
    ASSUME RateInv, TypeOK', NEW k \in Keys, kind = "redis", kind' = kind, now' = now, pc' = pc, seen' = seen,
           NEW b, b = script(k), bucket' = [bucket EXCEPT ![k] = b],
           NEW allowed \in BOOLEAN, admit(k, allowed), allowed => b.count <= Limit[k] /\ Limit[k] > 0
    PROVE  RateInv'
  <1> DEFINE L == Limit[k]  r == bucket[k].reset_at  c == bucket[k].count
  <1>1. TypeOK /\ TimesOK /\ BucketOK(k)
    BY Zenon DEF RateInv
  <1>2. L \in Nat /\ Window[k] \in Nat /\ now \in Nat /\ c \in Nat /\ r \in Nat
    <2>1. L \in Nat /\ Window[k] \in Nat
      BY LimiterAssumption
    <2>2. c \in Nat /\ r \in Nat /\ now \in Nat
      BY <1>1 DEF TypeOK
    <2> QED BY <2>1, <2>2
  <1>3. \A t : Stale(t)' = Stale(t)
    BY DEF Stale
  <1>4. /\ bucket'[k] = b /\ \A j \in Keys \ {k} : bucket'[j] = bucket[j]
    BY <1>1, Zenon DEF TypeOK
  <1>5. now < r => c >= 1
    BY <1>1, <1>2 DEF BucketOK
  <1>6. /\ now >= r => b.count = 1 /\ b.reset_at = now + Window[k]
        /\ now < r => b.count = c + 1 /\ b.reset_at = r
    BY <1>2, <1>5 DEF script
  <1>7. b.count >= 1 /\ b.count \in Nat
    BY <1>2, <1>6
  <1>8. TimesOK'
    <2>1. \A i \in DOMAIN log' : log'[i].at <= now'
      BY <1>1, AdmitTimes, Zenon
    <2> QED BY <1>1, <2>1 DEF TimesOK
  <1>9. \A j \in Keys : BucketOK(j)'
    <2>1. BucketOK(k)'
      BY <1>4, <1>7 DEF BucketOK
    <2>2. \A j \in Keys \ {k} : BucketOK(j)'
      BY <1>4 DEF RateInv, BucketOK
    <2> QED BY <2>1, <2>2
  <1>10. ASSUME NEW t \in Nat, t <= now, SpanOK(k, t), Window[k] > 0 PROVE SpanOK(k, t)'
    <2>0. Stale(t)' \subseteq Stale(t)
      BY <1>3
    <2>1. CASE allowed
      <3>1. log' = Append(log, [key |-> k, at |-> now]) /\ L >= 1 /\ b.count <= L
        BY <1>2, <2>1 DEF admit
      <3>2. CASE now >= r
        <4>1. bucket'[k].reset_at = now + Window[k] /\ bucket'[k].count = 1 /\ r <= now /\ ~(now < t)
          BY <1>2, <1>4, <1>6, <1>10, <3>2
        <4>2. within(k)' = 1
          BY <1>2, <3>1, <4>1 DEF within
        <4>3. now <= now
          BY <1>2
        <4> QED BY <1>1, <1>2, <1>10, <2>0, <3>1, <4>1, <4>2, <4>3, SpanNewWindow, Zenon
      <3>3. CASE now < r
        <4>1. bucket'[k].reset_at = r /\ bucket'[k].count = c + 1 /\ c < L /\ ~(r <= t)
          BY <1>2, <1>4, <1>6, <1>10, <3>1, <3>3
        <4>2. within(k)' = within(k) + 1
          BY <1>2, <4>1 DEF within
        <4> QED BY <1>1, <1>10, <2>0, <3>1, <4>1, <4>2, SpanInWindow, Zenon
      <3> QED BY <1>2, <3>2, <3>3
    <2>2. CASE ~allowed
      <3>1. log' = log
        BY <2>2 DEF admit
      <3>2. Cardinality(InSpan(k, t)') = Cardinality(InSpan(k, t))
        BY <3>1, SameSpan
      <3>3. CASE L = 0
        BY <1>1, <1>10, <2>0, <3>2, <3>3, NothingFits, Zenon
      <3>4. CASE now >= r /\ L >= 1
        <4>1. bucket'[k].reset_at = now + Window[k] /\ bucket'[k].count = 1 /\ r <= now
          BY <1>2, <1>4, <1>6, <3>4
        <4>2. within(k)' = 1
          BY <1>2, <3>4, <4>1 DEF within
        <4> QED BY <1>1, <1>10, <2>0, <3>1, <3>4, <4>1, <4>2, SpanOpens, Zenon
      <3>5. CASE now < r
        <4>1. bucket'[k].reset_at = r /\ bucket'[k].count = c + 1
          BY <1>4, <1>6, <3>5
        <4>2. within(k) <= within(k)'
          BY <1>2, <4>1 DEF within
        <4>3. now <= now'
          BY <1>2
        <4> QED BY <1>1, <1>10, <2>0, <3>2, <4>1, <4>2, <4>3, SpanStays, Zenon
      <3> QED BY <1>2, <3>3, <3>4, <3>5
    <2> QED BY <2>1, <2>2
  <1>11. ASSUME NEW j \in Keys, NEW t \in Nat, j # k, t <= now, SpanOK(j, t) PROVE SpanOK(j, t)'
    <2>1. admit(k, TRUE) \/ admit(k, FALSE)
      BY DEF admit
    <2>2. bucket'[j] = bucket[j] /\ Stale(t)' \subseteq Stale(t)
      BY <1>3, <1>4, <1>11
    <2> QED BY <1>1, <1>11, <2>1, <2>2, OtherKeysKeep, Zenon
  <1>12. \A j \in Keys, t \in Nat : Window[j] > 0 /\ t <= now' => SpanOK(j, t)'
    BY <1>10, <1>11 DEF RateInv
  <1> QED BY <1>8, <1>9, <1>12, Zenon DEF RateInv

\* Steps that neither count nor allow a call.
LEMMA QuietKeepsRate ==
    ASSUME RateInv, TypeOK', kind' = kind, now' = now, bucket' = bucket, log' = log,
           \A p \in Callers : pc'[p] = "read" => kind = "inmemory" /\ seen'[p] <= now,
           \A t \in Nat : t <= now => Stale(t)' \subseteq Stale(t)
    PROVE  RateInv'
  <1>1. TypeOK /\ TimesOK /\ now \in Nat
    BY Zenon DEF RateInv, TypeOK
  <1>2. TimesOK' /\ \A k \in Keys : BucketOK(k)'
    BY DEF RateInv, TimesOK, BucketOK
  <1>3. ASSUME NEW k \in Keys, NEW t \in Nat, t <= now, SpanOK(k, t) PROVE SpanOK(k, t)'
    <2>1. Cardinality(InSpan(k, t)') = Cardinality(InSpan(k, t))
      BY SameSpan, Zenon
    <2>2. within(k)' = within(k) /\ within(k) \in Nat
      <3>1. bucket[k].count \in Nat /\ Limit[k] \in Nat
        BY <1>1, LimiterAssumption DEF TypeOK
      <3> QED BY <3>1 DEF within
    <2>3. within(k) <= within(k)' /\ now <= now'
      BY <1>1, <2>2
    <2> QED BY <1>1, <1>3, <2>1, <2>3, SpanStays, Zenon
  <1> QED BY <1>2, <1>3 DEF RateInv

\* The times of the calls that were allowed.
LEMMA LogTimes ==
    ASSUME TypeOK, TimesOK
    PROVE  \A i \in DOMAIN log : log[i].at \in Nat /\ log[i].at <= now
  <1> DEFINE Entry == [key : Keys, at : Nat]
  <1>1. log \in Seq(Entry)
    BY DEF TypeOK
  <1>2. \A e \in Entry : e.at \in Nat
    OBVIOUS
  <1> HIDE DEF Entry
  <1>3. \A i \in DOMAIN log : log[i] \in Entry
    BY <1>1
  <1> QED BY <1>2, <1>3 DEF TimesOK

\* Time passes: a span that begins now has seen nothing.
LEMMA TickKeepsRate ==
    ASSUME RateInv, TypeOK', Tick
    PROVE  RateInv'
  <1>1. TypeOK /\ TimesOK /\ now \in Nat /\ now' = now + 1
    BY DEF RateInv, TypeOK, Tick
  <1>2. kind' = kind /\ bucket' = bucket /\ log' = log /\ pc' = pc /\ seen' = seen
    BY DEF Tick
  <1>3. TimesOK' /\ \A k \in Keys : BucketOK(k)'
    <2>1. \A k \in Keys : BucketOK(k)'
      BY <1>2 DEF RateInv, BucketOK
    <2>2. \A p \in Callers : pc[p] = "read" => seen[p] \in Nat /\ seen[p] <= now
      BY <1>1 DEF TypeOK, TimesOK
    <2>3. \A i \in DOMAIN log : log[i].at \in Nat /\ log[i].at <= now
      BY <1>1, LogTimes
    <2>4. TimesOK'
      BY <1>1, <1>2, <2>2, <2>3 DEF TimesOK
    <2> QED BY <2>1, <2>4
  <1>4. ASSUME NEW k \in Keys, NEW t \in Nat PROVE within(k)' = within(k) /\ within(k) \in Nat
    <2>1. bucket[k].count \in Nat /\ Limit[k] \in Nat
      BY <1>1, LimiterAssumption DEF TypeOK
    <2> QED BY <1>2, <2>1 DEF within
  <1>5. ASSUME NEW k \in Keys, NEW t \in Nat, t <= now, SpanOK(k, t) PROVE SpanOK(k, t)'
    <2>1. Cardinality(InSpan(k, t)') = Cardinality(InSpan(k, t))
      BY <1>2, SameSpan
    <2>2. within(k) <= within(k)' /\ now <= now'
      BY <1>1, <1>4
    <2>3. Stale(t)' \subseteq Stale(t) /\ bucket'[k].reset_at = bucket[k].reset_at
      BY <1>2 DEF Stale
    <2> QED BY <1>1, <1>2, <1>5, <2>1, <2>2, <2>3, SpanStays
  <1>6. ASSUME NEW k \in Keys, NEW t \in Nat, t = now + 1 PROVE SpanOK(k, t)'
    <2>1. InSpan(k, t)' = {}
      <3>1. \A i \in DOMAIN log : log[i].at \in Nat /\ log[i].at <= now
        BY <1>1, LogTimes
      <3>2. \A x \in Nat : x <= now => x \notin t .. (t + Window[k] - 1)
        BY <1>1, <1>6, LimiterAssumption
      <3> QED BY <1>2, <3>1, <3>2 DEF InSpan
    <2>2. Cardinality(InSpan(k, t)') = 0
      BY <2>1, FS_EmptySet
    <2>3. /\ parties' \in Nat /\ parties' >= 1 /\ spent(t)' \in Nat /\ Limit[k] \in Nat /\ within(k)' \in Nat
      BY <1>1, <1>2, <1>4, Callings, SpentGrows, LimiterAssumption, Zenon DEF parties, Stale
    <2>4. /\ (parties' + 1) * Limit[k] \in Nat /\ spent(t)' * Limit[k] \in Nat
          /\ (parties' - 1) * Limit[k] \in Nat /\ parties' * Limit[k] \in Nat
      <3>1. \A n \in Nat : n >= 1 => n + 1 \in Nat /\ n - 1 \in Nat
        OBVIOUS
      <3>2. parties' + 1 \in Nat /\ parties' - 1 \in Nat
        BY <2>3, <3>1, Zenon
      <3> QED BY <2>3, <3>2, OneMoreTimes
    <2>5. /\ 0 <= (parties' + 1) * Limit[k] /\ 0 <= spent(t)' * Limit[k]
          /\ 0 <= (parties' - 1) * Limit[k] + within(k)' /\ 0 <= parties' * Limit[k] + within(k)'
      <3>1. \A m, n \in Nat : 0 <= m /\ 0 <= m + n
        OBVIOUS
      <3> QED BY <2>3, <2>4, <3>1, Zenon
    <2> QED BY <2>2, <2>5, Zenon DEF SpanOK, Fits
  <1>7. ASSUME NEW k \in Keys, NEW t \in Nat, Window[k] > 0, t <= now' PROVE SpanOK(k, t)'
    <2>1. t <= now \/ t = now + 1
      BY <1>1, <1>7
    <2> QED BY <1>5, <1>6, <1>7, <2>1 DEF RateInv
  <1> QED BY <1>3, <1>7 DEF RateInv

\* Every step keeps the rate invariant.
LEMMA StepKeepsRate == RateInv /\ [Next]_vars => RateInv'
  <1> SUFFICES ASSUME RateInv, [Next]_vars PROVE RateInv'
    OBVIOUS
  <1>1. TypeOK /\ TypeOK' /\ TimesOK
    BY StepKeepsType DEF RateInv
  <1>2. ASSUME NEW p \in Callers, NEW k \in Keys, Invalid(p, k) PROVE RateInv'
    BY <1>1, <1>2, QuietKeepsRate, Zenon DEF Invalid, TimesOK, Stale
  <1>3. ASSUME NEW p \in Callers, NEW k \in Keys, ReadClock(p, k) PROVE RateInv'
    <2>1. /\ kind = "inmemory" /\ kind' = kind /\ now' = now /\ bucket' = bucket /\ log' = log
          /\ pc' = [pc EXCEPT ![p] = "read"] /\ seen' = [seen EXCEPT ![p] = now] /\ pc[p] = "idle"
      BY <1>3 DEF ReadClock
    <2>2. now \in Nat /\ seen'[p] = now /\ \A q \in Callers \ {p} : pc'[q] = pc[q] /\ seen'[q] = seen[q]
      BY <1>1, <2>1 DEF TypeOK
    <2>3. \A q \in Callers : pc'[q] = "read" => kind = "inmemory" /\ seen'[q] <= now
      BY <1>1, <2>1, <2>2 DEF TimesOK
    <2>4. \A t \in Nat : t <= now => Stale(t)' \subseteq Stale(t)
      BY <2>2 DEF Stale
    <2> QED BY <1>1, <2>1, <2>3, <2>4, QuietKeepsRate
  <1>4. ASSUME NEW p \in Callers, NEW k \in Keys, Eval(p, k) PROVE RateInv'
    <2> DEFINE allowed == script(k).count <= Limit[k] /\ Limit[k] > 0
    <2>1. /\ kind = "redis" /\ kind' = kind /\ now' = now /\ pc' = pc /\ seen' = seen
          /\ bucket' = [bucket EXCEPT ![k] = script(k)] /\ admit(k, allowed)
      BY <1>4, Zenon DEF Eval
    <2>2. PICK b : b = script(k)
      OBVIOUS
    <2>3. PICK a \in BOOLEAN : a = allowed
      <3>1. allowed \in BOOLEAN
        OBVIOUS
      <3> HIDE DEF allowed
      <3> QED BY <3>1, Zenon
    <2>4. bucket' = [bucket EXCEPT ![k] = b] /\ admit(k, a) /\ (a => b.count <= Limit[k] /\ Limit[k] > 0)
      BY <2>1, <2>2, <2>3, Zenon
    <2> QED BY <1>1, <2>1, <2>2, <2>4, ScriptKeepsRate, Zenon
  <1>5. ASSUME NEW p \in Callers, NEW k \in Keys, Unavailable(p, k) PROVE RateInv'
    <2>1. /\ kind = "redis" /\ kind' = kind /\ now' = now /\ pc' = pc /\ seen' = seen /\ log' = log
          /\ bucket' = bucket \/ bucket' = [bucket EXCEPT ![k] = script(k)]
      BY <1>5 DEF Unavailable
    <2>2. CASE bucket' = bucket
      BY <1>1, <2>1, <2>2, QuietKeepsRate DEF TimesOK, Stale
    <2>3. CASE bucket' = [bucket EXCEPT ![k] = script(k)]
      <3>1. admit(k, FALSE)
        BY <2>1 DEF admit
      <3>2. PICK b : b = script(k)
        OBVIOUS
      <3>3. bucket' = [bucket EXCEPT ![k] = b]
        BY <2>3, <3>2, Zenon
      <3> QED BY <1>1, <2>1, <3>1, <3>2, <3>3, ScriptKeepsRate, Zenon
    <2> QED BY <2>1, <2>2, <2>3
  <1>6. ASSUME NEW p \in Callers, Count(p) PROVE RateInv'
    <2>1. PICK k \in Keys : k = asks[p]
      BY <1>1 DEF TypeOK
    <2>2. PICK s \in Nat : s = seen[p]
      BY <1>1 DEF TypeOK
    <2>3. PICK b : b = opened(k, s)
      OBVIOUS
    <2> QED BY <1>1, <1>6, <2>1, <2>2, <2>3, CountKeepsRate, Zenon
  <1>7. CASE Tick
    BY <1>1, <1>7, TickKeepsRate
  <1>8. CASE UNCHANGED vars
    BY <1>1, <1>8, QuietKeepsRate DEF vars, TimesOK, Stale
  <1> QED BY <1>2, <1>3, <1>4, <1>5, <1>6, <1>7, <1>8 DEF Next

\* Nothing has been allowed when the limiter starts.
LEMMA RateInit == Init => RateInv
  <1> SUFFICES ASSUME Init PROVE RateInv
    OBVIOUS
  <1>1. TypeOK
    BY LimiterAssumption DEF Init, TypeOK, Decision
  <1>2. TimesOK /\ \A k \in Keys : BucketOK(k)
    <2>1. \A k \in Keys : bucket[k] = [count |-> 0, reset_at |-> 0] /\ Limit[k] \in Nat
      BY LimiterAssumption DEF Init
    <2>2. \A p \in Callers : pc[p] = "idle"
      BY DEF Init
    <2>3. log = <<>>
      BY DEF Init
    <2>4. TimesOK
      BY <2>2, <2>3 DEF TimesOK
    <2> QED BY <2>1, <2>4 DEF BucketOK
  <1>3. ASSUME NEW k \in Keys, NEW t \in Nat PROVE SpanOK(k, t)
    <2>1. InSpan(k, t) = {}
      BY DEF InSpan, Init
    <2>2. Cardinality(InSpan(k, t)) = 0
      BY <2>1, FS_EmptySet
    <2>3. /\ parties \in Nat /\ parties >= 1 /\ spent(t) \in Nat /\ Limit[k] \in Nat /\ within(k) \in Nat
      <3>1. parties \in Nat /\ parties >= 1 /\ spent(t) \in Nat
        BY <1>1, Callings
      <3> QED BY <1>1, <3>1, SpanNumbers, Zenon DEF Numbers
    <2>4. /\ (parties + 1) * Limit[k] \in Nat /\ spent(t) * Limit[k] \in Nat
          /\ (parties - 1) * Limit[k] \in Nat /\ parties * Limit[k] \in Nat
      <3>1. parties + 1 \in Nat /\ parties - 1 \in Nat
        BY <2>3
      <3> QED BY <2>3, <3>1, OneMoreTimes
    <2>5. /\ 0 <= (parties + 1) * Limit[k] /\ 0 <= spent(t) * Limit[k]
          /\ 0 <= (parties - 1) * Limit[k] + within(k) /\ 0 <= parties * Limit[k] + within(k)
      <3>1. \A m, n \in Nat : 0 <= m /\ 0 <= m + n
        OBVIOUS
      <3> QED BY <2>3, <2>4, <3>1, Zenon
    <2> QED BY <2>2, <2>5, Zenon DEF SpanOK, Fits
  <1> QED BY <1>1, <1>2, <1>3 DEF RateInv

\* Over any stretch of one window's length, wherever it begins, no more calls of a key are
\* allowed than the limits of the windows it can touch: two with Redis or a single caller,
\* and one more for each caller beyond the first that came with a time it read before the
\* stretch began (InMemoryRateLimiter::Allow reads the clock before it takes the lock).
THEOREM RateStaysBounded == Spec => []RateIsBounded
  <1>1. Init => RateInv
    BY RateInit
  <1>2. RateInv /\ [Next]_vars => RateInv'
    BY StepKeepsRate
  <1>3. RateInv => RateIsBounded
    BY RateInvImplies
  <1> QED BY <1>1, <1>2, <1>3, PTL DEF Spec
=============================================================================
