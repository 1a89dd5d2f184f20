----------------------------- MODULE LinkService -----------------------------
(***************************************************************************)
(* The storage-port link service: cache-aside Resolve, Update and Delete   *)
(* over a metadata repository and a cache that several callers share.      *)
(* With the in-memory cache the callers are threads of one process and     *)
(* every cache and repository call is a critical section of its mutex;     *)
(* with Redis they are server processes, each on its own connection, and a *)
(* cache call may fail or take effect after its caller has given up on it. *)
(* What a caller does between two calls interleaves with everyone else.    *)
(***************************************************************************)
EXTENDS Naturals, FiniteSets

CONSTANTS
    Clients,         \* threads or processes that use the service
    Codes,           \* short codes
    Targets,         \* target URLs
    Pipes,           \* targets the Redis encoding cannot read back
    NewRecords,      \* the records callers create and store
    Null,            \* std::nullopt
    DefaultTtl,      \* RedisCacheConfig::default_ttl in seconds, or Null
    RepoFails,       \* may a repository call fail?
    TicksPerSecond,  \* resolution of the clock
    MaxTime,         \* bound: last tick of the clock
    MaxChanges,      \* bound: creations, updates and deletions
    MaxLate          \* bound: Redis writes in flight without a caller

\* What LinkRecord and CacheValue have in common.
Record == [target_url : Targets, expires_at : Nat \cup {Null}, is_active : BOOLEAN]

CacheEntry == [value : Record, until : Nat \cup {Null}]

\* A SET or SETEX on its way to Redis: the time to live counts from its arrival.
LateWrite == [code : Codes, value : Record, life : Nat \cup {Null}]

Statuses == {"redirect", "not_found", "inactive", "expired"}

\* ResolveResult, with the code it is about, when Resolve looked at the clock,
\* and whether the repository failed it.
Answer == [status : Statuses \cup {"none"}, code : Codes \cup {Null}, target : Targets \cup {Null},
           at : Nat, hit : BOOLEAN, outage : BOOLEAN]

ASSUME ConfigAssumption ==
    /\ DefaultTtl \in Nat \cup {Null}
    /\ RepoFails \in BOOLEAN
    /\ TicksPerSecond \in Nat \ {0}
    /\ NewRecords \subseteq Record
    /\ Pipes \subseteq Targets

ASSUME NullAssumption ==
    Null \notin Nat /\ Null \notin Record /\ Null \notin CacheEntry /\ Null \notin Codes

ASSUME BoundsAssumption == MaxTime \in Nat /\ MaxChanges \in Nat /\ MaxLate \in Nat

Kinds == {"inmemory", "redis"}

VARIABLES
    kind,       \* which cache the service is built with
    repo,       \* the authoritative record of each code, or Null
    cache,      \* the cache entry of each code, or Null
    pc,         \* where each caller is
    code,       \* the code it works on
    held,       \* the cached value or record it has read
    checked,    \* when it compared the record with the clock
    answer,     \* what its last Resolve returned
    late,       \* Redis writes whose caller timed out
    now,
    changes,    \* creations, updates and deletions so far
    versions,   \* history: records that were ever stored under each code
    exposed     \* history: codes whose last invalidation a stale write can follow

vars == <<kind, repo, cache, pc, code, held, checked, answer, late, now, changes, versions, exposed>>

\* Types; a caller that checks or caches a value has one in its hands.
TypeOK ==
    /\ kind \in Kinds
    /\ repo \in [Codes -> Record \cup {Null}]
    /\ cache \in [Codes -> CacheEntry \cup {Null}]
    /\ pc \in [Clients -> {"idle", "check", "load", "fill", "invalidate"}]
    /\ code \in [Clients -> Codes \cup {Null}]
    /\ held \in [Clients -> Record \cup {Null}]
    /\ \A p \in Clients :
          /\ pc[p] # "idle" => code[p] \in Codes
          /\ pc[p] \in {"check", "fill"} => held[p] \in Record
    /\ checked \in [Clients -> Nat]
    /\ answer \in [Clients -> Answer]
    /\ late \subseteq LateWrite
    /\ now \in Nat /\ changes \in Nat
    /\ versions \in [Codes -> SUBSET Record]
    /\ exposed \in [Codes -> BOOLEAN]

noAnswer == [status |-> "none", code |-> Null, target |-> Null, at |-> 0,
             hit |-> FALSE, outage |-> FALSE]

Init ==
    /\ kind \in Kinds
    /\ repo = [c \in Codes |-> Null] /\ cache = [c \in Codes |-> Null]
    /\ pc = [p \in Clients |-> "idle"] /\ code = [p \in Clients |-> Null]
    /\ held = [p \in Clients |-> Null] /\ checked = [p \in Clients |-> 0]
    /\ answer = [p \in Clients |-> noAnswer]
    /\ late = {} /\ now = 0 /\ changes = 0
    /\ versions = [c \in Codes |-> {}] /\ exposed = [c \in Codes |-> FALSE]

\* Redis calls may fail and processes die; the in-memory cache is called by
\* threads that live as long as it does.
Remote == kind = "redis"

\* May a call of a port fail?  The outcomes: TRUE when it took effect.
Outcomes(mayFail) == IF mayFail THEN BOOLEAN ELSE {TRUE}

expired(r, t) == r.expires_at # Null /\ r.expires_at <= t

live(r, t) == r.is_active /\ ~expired(r, t)

-----------------------------------------------------------------------------
(* The cache port *)

dead(c) == cache[c] # Null /\ cache[c].until # Null /\ cache[c].until <= now

\* SerializeCacheValue keeps whole seconds of the expiry time.
stored(r) ==
    IF Remote /\ r.expires_at # Null
    THEN [r EXCEPT !.expires_at = (@ \div TicksPerSecond) * TicksPerSecond]
    ELSE r

\* Get: an entry past its time to live is gone; a payload that does not parse
\* is a miss.
visible(c) ==
    IF cache[c] = Null \/ dead(c) THEN Null
    ELSE IF Remote /\ cache[c].value.target_url \in Pipes THEN Null
    ELSE cache[c].value

\* The time to live Resolve passes to Set, in whole seconds, or Null.
ttlFor(r) ==
    IF r.expires_at = Null \/ r.expires_at <= now THEN Null
    ELSE (r.expires_at - now) \div TicksPerSecond

\* An entry that lives from now on for so many ticks, or for ever.
lasting(value, life) ==
    [value |-> value, until |-> IF life = Null THEN Null ELSE now + life]

\* Set: the entry it leaves.  In memory a zero time to live erases the entry;
\* in Redis it means no time to live.
entryFor(r) ==
    LET ttl == IF Remote /\ ttlFor(r) = Null THEN DefaultTtl ELSE ttlFor(r)
        forever == lasting(stored(r), Null)
    IN  IF ttl = Null THEN forever
        ELSE IF ttl = 0 THEN (IF Remote THEN forever ELSE Null)
        ELSE lasting(stored(r), ttl * TicksPerSecond)

\* The command of a Set that leaves this entry when it is executed now.
inFlight(c, entry) ==
    [code |-> c, value |-> entry.value,
     life |-> IF entry.until = Null THEN Null ELSE entry.until - now]

-----------------------------------------------------------------------------
(* Resolve *)

\* What Resolve returns and EmitAnalytics reports, with the time at which
\* Resolve last compared the record with the clock.
Respond(p, status, target, at, hit, outage) ==
    answer' = [answer EXCEPT ![p] =
                 [status |-> status, code |-> code[p], target |-> target, at |-> at,
                  hit |-> hit, outage |-> outage]]

goto(p, label) == pc' = [pc EXCEPT ![p] = label]

\* The call returns and its locals go.
return(p) ==
    /\ goto(p, "idle")
    /\ code' = [code EXCEPT ![p] = Null]
    /\ held' = [held EXCEPT ![p] = Null]
    /\ checked' = [checked EXCEPT ![p] = 0]

\* cache_.Get; a failed call counts as a miss.
ResolveGet(p, c) ==
    /\ pc[p] = "idle"
    /\ \E ok \in Outcomes(Remote) :
          /\ held' = [held EXCEPT ![p] = IF ok THEN visible(c) ELSE Null]
          /\ goto(p, IF ok /\ visible(c) # Null THEN "check" ELSE "load")
          /\ cache' = IF ok /\ dead(c) THEN [cache EXCEPT ![c] = Null] ELSE cache
    /\ code' = [code EXCEPT ![p] = c]
    /\ UNCHANGED <<kind, repo, checked, answer, late, now, changes, versions, exposed>>

\* Slip: the entry's time to live is trusted.
ResolveCheckIgnoringExpiry(p) ==
    /\ pc[p] = "check"
    /\ Respond(p, "redirect", held[p].target_url, now, TRUE, FALSE)
    /\ return(p)
    /\ UNCHANGED <<kind, repo, cache, late, now, changes, versions, exposed>>

\* A hit is served when the cached value is active and not expired; otherwise
\* the entry is dropped and the repository asked.
ResolveCheck(p) ==
    /\ pc[p] = "check"
    /\ \/ /\ live(held[p], now)
          /\ Respond(p, "redirect", held[p].target_url, now, TRUE, FALSE)
          /\ return(p)
          /\ UNCHANGED cache
       \/ /\ ~live(held[p], now)
          /\ \E ok \in Outcomes(Remote) :
                cache' = IF ok THEN [cache EXCEPT ![code[p]] = Null] ELSE cache
          /\ held' = [held EXCEPT ![p] = Null]
          /\ goto(p, "load")
          /\ UNCHANGED <<code, checked, answer>>
    /\ UNCHANGED <<kind, repo, late, now, changes, versions, exposed>>

\* repo_.GetByShortCode, called without an error argument: a repository that
\* fails looks like one that has no such record.
ResolveLoad(p) ==
    /\ pc[p] = "load"
    /\ \E ok \in Outcomes(RepoFails) :
          LET r == IF ok THEN repo[code[p]] ELSE Null
              status == IF r = Null THEN "not_found"
                        ELSE IF ~r.is_active THEN "inactive"
                        ELSE IF expired(r, now) THEN "expired" ELSE "redirect"
          IN  \/ /\ status = "redirect"
                 /\ held' = [held EXCEPT ![p] = r]
                 /\ checked' = [checked EXCEPT ![p] = now]
                 /\ goto(p, "fill")
                 /\ UNCHANGED <<code, answer>>
              \/ /\ status # "redirect"
                 /\ Respond(p, status, Null, now, FALSE, ~ok)
                 /\ return(p)
    /\ UNCHANGED <<kind, repo, cache, late, now, changes, versions, exposed>>

\* cache_.Set, best effort: done, lost, or (Redis) still on its way when the
\* caller times out.  The link is served in any case.
ResolveFill(p) ==
    /\ pc[p] = "fill"
    /\ LET entry == entryFor(held[p])
       IN  \/ /\ cache' = [cache EXCEPT ![code[p]] = entry]
              /\ UNCHANGED late
           \/ /\ Remote
              /\ UNCHANGED <<cache, late>>
           \/ /\ Remote /\ entry # Null
              /\ Cardinality(late) < MaxLate
              /\ late' = late \cup {inFlight(code[p], entry)}
              /\ UNCHANGED cache
    /\ Respond(p, "redirect", held[p].target_url, checked[p], FALSE, FALSE)
    /\ return(p)
    /\ UNCHANGED <<kind, repo, now, changes, versions, exposed>>

\* A write whose caller gave up reaches Redis, or does not; its time to live
\* begins when it arrives.
LateSet(w) ==
    /\ \/ cache' = [cache EXCEPT ![w.code] = lasting(w.value, w.life)]
       \/ UNCHANGED cache
    /\ late' = late \ {w}
    /\ UNCHANGED <<kind, repo, pc, code, held, checked, answer, now, changes, versions, exposed>>

-----------------------------------------------------------------------------
(* Update and Delete: the repository first, then the cache *)

\* IMetadataRepository::CreateLink, called past the service.
Create(c, r) ==
    /\ repo[c] = Null
    /\ changes < MaxChanges
    /\ changes' = changes + 1
    /\ repo' = [repo EXCEPT ![c] = r]
    /\ versions' = [versions EXCEPT ![c] = @ \cup {r}]
    /\ UNCHANGED <<kind, cache, pc, code, held, checked, answer, late, now, exposed>>

\* repo_.UpdateLink: refused for a code that is not stored.
Update(p, c, r) ==
    /\ pc[p] = "idle"
    /\ changes < MaxChanges
    /\ changes' = changes + 1
    /\ \E ok \in Outcomes(RepoFails) :
          LET found == ok /\ repo[c] # Null
          IN  /\ repo' = IF found THEN [repo EXCEPT ![c] = r] ELSE repo
              /\ versions' = IF found THEN [versions EXCEPT ![c] = @ \cup {r}] ELSE versions
    /\ code' = [code EXCEPT ![p] = c]
    /\ goto(p, "invalidate")
    /\ UNCHANGED <<kind, cache, held, checked, answer, late, now, exposed>>

\* repo_.DeleteLink.
Delete(p, c) ==
    /\ pc[p] = "idle"
    /\ changes < MaxChanges
    /\ changes' = changes + 1
    /\ \E ok \in Outcomes(RepoFails) : repo' = IF ok THEN [repo EXCEPT ![c] = Null] ELSE repo
    /\ code' = [code EXCEPT ![p] = c]
    /\ goto(p, "invalidate")
    /\ UNCHANGED <<kind, cache, held, checked, answer, late, now, versions, exposed>>

\* A stale value of the code may still be written: a reader holds one, or a
\* write is in flight.
writable(c) ==
    \/ \E q \in Clients : pc[q] = "fill" /\ code[q] = c
    \/ \E w \in late : w.code = c

\* Slip: only a record that is still stored is taken out of the cache.
InvalidateStoredOnly(p) ==
    /\ pc[p] = "invalidate"
    /\ cache' = IF repo[code[p]] # Null THEN [cache EXCEPT ![code[p]] = Null] ELSE cache
    /\ exposed' = [exposed EXCEPT ![code[p]] = writable(code[p])]
    /\ return(p)
    /\ UNCHANGED <<kind, repo, answer, late, now, changes, versions>>

\* cache_.Delete, whatever the repository said; its result is ignored.
Invalidate(p) ==
    /\ pc[p] = "invalidate"
    /\ \E ok \in Outcomes(Remote) :
          /\ cache' = IF ok THEN [cache EXCEPT ![code[p]] = Null] ELSE cache
          /\ exposed' = [exposed EXCEPT ![code[p]] = ~ok \/ writable(code[p])]
    /\ return(p)
    /\ UNCHANGED <<kind, repo, answer, late, now, changes, versions>>

\* A caller dies; what it had left to do is not done.
Crash(p) ==
    /\ Remote /\ pc[p] # "idle"
    /\ return(p)
    /\ exposed' = IF pc[p] = "invalidate" THEN [exposed EXCEPT ![code[p]] = TRUE] ELSE exposed
    /\ UNCHANGED <<kind, repo, cache, answer, late, now, changes, versions>>

-----------------------------------------------------------------------------
Tick ==
    /\ now < MaxTime
    /\ now' = now + 1
    /\ UNCHANGED <<kind, repo, cache, pc, code, held, checked, answer, late, changes, versions, exposed>>

Next ==
    \/ \E p \in Clients :
          \/ \E c \in Codes : ResolveGet(p, c)
          \/ ResolveCheck(p)
          \/ ResolveLoad(p)
          \/ ResolveFill(p)
          \/ \E c \in Codes, r \in NewRecords : Update(p, c, r)
          \/ \E c \in Codes : Delete(p, c)
          \/ Invalidate(p)
          \/ Crash(p)
    \/ \E c \in Codes, r \in NewRecords : Create(c, r)
    \/ \E w \in late : LateSet(w)
    \/ Tick

Spec == Init /\ [][Next]_vars

-----------------------------------------------------------------------------
(* Properties *)

fresh(c) == repo[c] # Null /\ cache[c].value = stored(repo[c])

\* Somebody has changed the repository and is about to invalidate the cache.
changing(c) == \E p \in Clients : pc[p] = "invalidate" /\ code[p] = c

\* How stale the cache can be: an entry that differs from the repository means
\* that an Update or Delete has yet to invalidate it, or that the last
\* invalidation failed, was never reached, or ran while a reader or a delayed
\* write still carried an older record.  In particular the cache is exact
\* between calls that do not overlap and do not fail.
FreshUnlessExposed ==
    \A c \in Codes : cache[c] # Null => fresh(c) \/ changing(c) \/ exposed[c]

\* However stale the cache, a redirect only goes to a target that was stored
\* under the code in a record that was active and had not expired when the
\* clock was checked, truncation of times and entries without a time to live
\* included.
ServedWasLive ==
    \A p \in Clients :
        answer[p].status = "redirect" =>
            \E r \in versions[answer[p].code] :
                r.target_url = answer[p].target /\ live(r, answer[p].at)
=============================================================================
