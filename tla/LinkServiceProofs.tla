-------------------------- MODULE LinkServiceProofs --------------------------
(***************************************************************************)
(* How stale the cache of LinkService can be, for any number of callers    *)
(* and codes, either cache, and every bound.                               *)
(*                                                                         *)
(* The invariant must also speak of values on their way to the cache: what *)
(* a reader holds and what a delayed write carries is, like an entry,      *)
(* current unless the code is being changed or exposed.                    *)
(***************************************************************************)
EXTENDS LinkService, TLAPS

excused(c) == changing(c) \/ exposed[c]

current(c, value) == repo[c] # Null /\ value = stored(repo[c])

\* What readers and delayed writes carry.
CarriedFresh ==
    /\ \A p \in Clients : pc[p] = "fill" =>
          (held[p] = repo[code[p]] /\ repo[code[p]] # Null) \/ excused(code[p])
    /\ \A w \in late : current(w.code, w.value) \/ excused(w.code)

CachedFresh == \A c \in Codes : cache[c] # Null => current(c, cache[c].value) \/ excused(c)

IInv == TypeOK /\ CachedFresh /\ CarriedFresh

-----------------------------------------------------------------------------
(* Types of the cache operators *)

\* Whole seconds are natural numbers.
LEMMA QuotientType ==
    ASSUME NEW n \in Nat, NEW d \in Nat \ {0}
    PROVE  n \div d \in Nat
  OBVIOUS

\* What a cache gives back for a record is a record: Redis keeps whole seconds
\* of its expiry.
LEMMA StoredType == ASSUME NEW r \in Record PROVE stored(r) \in Record
  <1>1. CASE Remote /\ r.expires_at # Null
    <2>1. r.expires_at \in Nat
      BY <1>1 DEF Record
    <2>2. r.expires_at \div TicksPerSecond \in Nat
      BY <2>1, QuotientType, ConfigAssumption
    <2>3. (r.expires_at \div TicksPerSecond) * TicksPerSecond \in Nat
      BY <2>2, ConfigAssumption
    <2> QED BY <1>1, <2>3 DEF stored, Record
  <1>2. CASE ~(Remote /\ r.expires_at # Null)
    BY <1>2 DEF stored
  <1> QED BY <1>1, <1>2

\* What Set stores, if it stores anything, is an entry that holds the record.
LEMMA EntryType ==
    ASSUME NEW r \in Record, now \in Nat
    PROVE  /\ entryFor(r) \in CacheEntry \cup {Null}
           /\ entryFor(r) # Null => entryFor(r).value = stored(r)
           /\ \A c \in Codes : entryFor(r) # Null =>
                inFlight(c, entryFor(r)) \in LateWrite /\ inFlight(c, entryFor(r)).value = stored(r)
  <1>1. stored(r) \in Record
    BY StoredType
  <1>2. ttlFor(r) \in Nat \cup {Null}
    <2>1. CASE r.expires_at = Null \/ r.expires_at <= now
      BY <2>1 DEF ttlFor
    <2>2. CASE ~(r.expires_at = Null \/ r.expires_at <= now)
      <3>1. r.expires_at - now \in Nat
        BY <2>2 DEF Record
      <3> QED BY <2>2, <3>1, QuotientType, ConfigAssumption DEF ttlFor
    <2> QED BY <2>1, <2>2
  <1> DEFINE ttl == IF Remote /\ ttlFor(r) = Null THEN DefaultTtl ELSE ttlFor(r)
  <1>3. ttl \in Nat \cup {Null}
    BY <1>2, ConfigAssumption
  <1> DEFINE ticks == ttl * TicksPerSecond
  <1>4. ttl # Null => ticks \in Nat
    BY <1>3, ConfigAssumption
  <1> HIDE DEF ttl
  <1>5. \/ entryFor(r) = Null
        \/ entryFor(r) = [value |-> stored(r), until |-> Null]
        \/ ttl # Null /\ ticks # Null /\ entryFor(r) = [value |-> stored(r), until |-> now + ticks]
    BY <1>4, NullAssumption DEF entryFor, lasting, ttl
  <1> HIDE DEF ticks
  <1>6. ASSUME NEW c \in Codes, entryFor(r) # Null
        PROVE  /\ inFlight(c, entryFor(r)) \in LateWrite
               /\ inFlight(c, entryFor(r)).value = stored(r)
    BY <1>1, <1>4, <1>5, <1>6, NullAssumption DEF inFlight, LateWrite
  <1> QED BY <1>1, <1>4, <1>5, <1>6 DEF CacheEntry

\* What Get returns is a record or nothing.
LEMMA VisibleType ==
    ASSUME TypeOK, NEW c \in Codes
    PROVE  visible(c) \in Record \cup {Null}
  BY DEF TypeOK, visible, CacheEntry

\* A caller that returns leaves its locals well-typed and carries nothing; the
\* other callers keep theirs.
LEMMA ReturnType ==
    ASSUME TypeOK, NEW p \in Clients, return(p)
    PROVE  /\ pc' \in [Clients -> {"idle", "check", "load", "fill", "invalidate"}]
           /\ code' \in [Clients -> Codes \cup {Null}]
           /\ held' \in [Clients -> Record \cup {Null}]
           /\ checked' \in [Clients -> Nat]
           /\ \A q \in Clients :
                 /\ pc'[q] # "idle" => code'[q] \in Codes
                 /\ pc'[q] \in {"check", "fill"} => held'[q] \in Record
                 /\ pc'[q] = "fill" => pc[q] = "fill" /\ held'[q] = held[q] /\ code'[q] = code[q]
                 /\ q # p => pc'[q] = pc[q] /\ code'[q] = code[q]
  BY DEF TypeOK, return, goto

\* What Resolve returns is a ResolveResult.
LEMMA RespondType ==
    ASSUME TypeOK, NEW p \in Clients, NEW status \in Statuses, NEW target \in Targets \cup {Null},
           NEW at \in Nat, NEW hit \in BOOLEAN, NEW outage \in BOOLEAN,
           Respond(p, status, target, at, hit, outage)
    PROVE  answer' \in [Clients -> Answer]
  <1>1. [status |-> status, code |-> code[p], target |-> target, at |-> at,
         hit |-> hit, outage |-> outage] \in Answer
    BY DEF TypeOK, Answer
  <1> QED BY <1>1 DEF TypeOK, Respond

-----------------------------------------------------------------------------
(* One step *)

\* An empty cache satisfies the invariant.
LEMMA InitEstablishes == Init => IInv
  <1> SUFFICES ASSUME Init PROVE IInv
    OBVIOUS
  <1>1. TypeOK
    <2>1. noAnswer \in Answer
      BY DEF noAnswer, Answer
    <2> QED BY <2>1 DEF Init, TypeOK
  <1>2. CachedFresh /\ CarriedFresh
    BY DEF Init, CachedFresh, CarriedFresh
  <1> QED BY <1>1, <1>2 DEF IInv

\* A step that leaves the repository alone, ends no change and clears no
\* exposure keeps every excuse; what is current stays current.
LEMMA ExcusesStay ==
    ASSUME kind' = kind, repo' = repo, exposed' = exposed,
           \A p \in Clients : pc[p] = "invalidate" => pc'[p] = "invalidate" /\ code'[p] = code[p]
    PROVE  /\ \A c : excused(c) => excused(c)'
           /\ \A c, v : current(c, v) => current(c, v)'
  BY DEF excused, changing, current, stored, Remote

\* Every step of a caller, a delayed write, a crash and the clock preserve the
\* invariant.
LEMMA StepPreserves == IInv /\ [Next]_vars => IInv'
  <1> SUFFICES ASSUME IInv, [Next]_vars PROVE IInv'
    OBVIOUS
  <1>0. TypeOK /\ CachedFresh /\ CarriedFresh
    BY DEF IInv
  <1>1. ASSUME NEW p \in Clients, NEW c \in Codes, ResolveGet(p, c) PROVE IInv'
    <2>1. TypeOK'
      BY <1>0, <1>1, VisibleType, NullAssumption DEF TypeOK, ResolveGet, goto
    <2>2. /\ \A d : excused(d) => excused(d)'
          /\ \A d, v : current(d, v) => current(d, v)'
      BY <1>0, <1>1, ExcusesStay DEF TypeOK, ResolveGet, goto
    <2>3. CachedFresh'
      BY <1>0, <1>1, <2>2 DEF TypeOK, CachedFresh, ResolveGet
    <2>4. CarriedFresh'
      <3>1. \A q \in Clients : pc'[q] = "fill" =>
               pc[q] = "fill" /\ held'[q] = held[q] /\ code'[q] = code[q]
        BY <1>0, <1>1 DEF TypeOK, ResolveGet, goto
      <3>2. late' = late /\ repo' = repo
        BY <1>1 DEF ResolveGet
      <3> QED BY <1>0, <2>2, <3>1, <3>2 DEF CarriedFresh
    <2> QED BY <2>1, <2>3, <2>4 DEF IInv
  <1>2. ASSUME NEW p \in Clients, ResolveCheck(p) PROVE IInv'
    <2>0. cache' = cache \/ cache' = [cache EXCEPT ![code[p]] = Null]
      BY <1>2, Zenon DEF ResolveCheck
    <2>1. TypeOK'
      <3>0. held[p] \in Record /\ now \in Nat
        BY <1>0, <1>2 DEF TypeOK, ResolveCheck
      <3>a. answer' \in [Clients -> Answer]
        <4>1. CASE Respond(p, "redirect", held[p].target_url, now, TRUE, FALSE)
          <5>1. held[p].target_url \in Targets
            BY <3>0 DEF Record
          <5> QED BY <1>0, <3>0, <4>1, <5>1, RespondType, Zenon DEF Statuses
        <4>2. CASE answer' = answer
          BY <1>0, <4>2 DEF TypeOK
        <4> QED BY <1>2, <4>1, <4>2, Zenon DEF ResolveCheck
      <3>1. CASE return(p)
        BY <1>0, <1>2, <2>0, <3>a, <3>1, ReturnType DEF TypeOK, ResolveCheck
      <3>2. CASE /\ held' = [held EXCEPT ![p] = Null] /\ goto(p, "load")
                 /\ UNCHANGED <<code, checked>>
        BY <1>0, <1>2, <2>0, <3>a, <3>2 DEF TypeOK, ResolveCheck, goto
      <3> QED BY <1>2, <3>1, <3>2, Zenon DEF ResolveCheck
    <2>2. /\ \A d : excused(d) => excused(d)'
          /\ \A d, v : current(d, v) => current(d, v)'
      BY <1>0, <1>2, ExcusesStay, Zenon DEF TypeOK, ResolveCheck, goto, return
    <2>3. CachedFresh'
      BY <1>0, <1>2, <2>2, Zenon DEF TypeOK, CachedFresh, ResolveCheck
    <2>4. CarriedFresh'
      <3>1. \A q \in Clients : pc'[q] = "fill" =>
               pc[q] = "fill" /\ held'[q] = held[q] /\ code'[q] = code[q]
        BY <1>0, <1>2, Zenon DEF TypeOK, ResolveCheck, goto, return
      <3>2. late' = late /\ repo' = repo
        BY <1>2 DEF ResolveCheck
      <3> QED BY <1>0, <2>2, <3>1, <3>2 DEF CarriedFresh
    <2> QED BY <2>1, <2>3, <2>4 DEF IInv
  <1>3. ASSUME NEW p \in Clients, ResolveLoad(p) PROVE IInv'
    <2>0. \/ return(p)
          \/ /\ repo[code[p]] # Null /\ held' = [held EXCEPT ![p] = repo[code[p]]]
             /\ checked' = [checked EXCEPT ![p] = now]
             /\ goto(p, "fill") /\ code' = code
      BY <1>3, Zenon DEF ResolveLoad
    <2>1. TypeOK'
      <3>a. answer' \in [Clients -> Answer]
        <4>1. \/ answer' = answer
              \/ \E status \in Statuses, outage \in BOOLEAN :
                    Respond(p, status, Null, now, FALSE, outage)
          <5>1. PICK ok \in Outcomes(RepoFails) :
                  LET r == IF ok THEN repo[code[p]] ELSE Null
                      status == IF r = Null THEN "not_found"
                                ELSE IF ~r.is_active THEN "inactive"
                                ELSE IF expired(r, now) THEN "expired" ELSE "redirect"
                  IN  \/ UNCHANGED answer
                      \/ status \in Statuses /\ Respond(p, status, Null, now, FALSE, ~ok)
            BY <1>3, Zenon DEF ResolveLoad, Statuses
          <5>2. (~ok) \in BOOLEAN
            OBVIOUS
          <5> QED BY <5>1, <5>2, Zenon
        <4>2. CASE \E status \in Statuses, outage \in BOOLEAN :
                      Respond(p, status, Null, now, FALSE, outage)
          <5>1. now \in Nat
            BY <1>0 DEF TypeOK
          <5> QED BY <1>0, <4>2, <5>1, RespondType, Zenon
        <4> QED BY <1>0, <4>1, <4>2, Zenon DEF TypeOK
      <3>1. CASE return(p)
        BY <1>0, <1>3, <3>a, <3>1, ReturnType DEF TypeOK, ResolveLoad
      <3>2. CASE /\ repo[code[p]] # Null /\ held' = [held EXCEPT ![p] = repo[code[p]]]
                 /\ checked' = [checked EXCEPT ![p] = now]
                 /\ goto(p, "fill") /\ code' = code
        BY <1>0, <1>3, <3>a, <3>2 DEF TypeOK, ResolveLoad, goto
      <3> QED BY <2>0, <3>1, <3>2
    <2>2. /\ \A d : excused(d) => excused(d)'
          /\ \A d, v : current(d, v) => current(d, v)'
      BY <1>0, <1>3, ExcusesStay, Zenon DEF TypeOK, ResolveLoad, goto, return
    <2>3. CachedFresh'
      BY <1>0, <1>3, <2>2 DEF TypeOK, CachedFresh, ResolveLoad
    <2>4. CarriedFresh'
      <3>1. \A q \in Clients : pc'[q] = "fill" =>
               \/ pc[q] = "fill" /\ held'[q] = held[q] /\ code'[q] = code[q]
               \/ held'[q] = repo[code[q]] /\ repo[code[q]] # Null /\ code'[q] = code[q]
        BY <1>0, <2>0, ReturnType DEF TypeOK, goto
      <3>2. late' = late /\ repo' = repo
        BY <1>3 DEF ResolveLoad
      <3> QED BY <1>0, <2>2, <3>1, <3>2 DEF CarriedFresh
    <2> QED BY <2>1, <2>3, <2>4 DEF IInv
  <1>4. ASSUME NEW p \in Clients, ResolveFill(p) PROVE IInv'
    <2> DEFINE entry == entryFor(held[p])
               write == inFlight(code[p], entry)
    <2>0. /\ code[p] \in Codes /\ held[p] \in Record
          /\ entry \in CacheEntry \cup {Null}
          /\ entry # Null => entry.value = stored(held[p])
          /\ entry # Null => write \in LateWrite /\ write.value = stored(held[p])
      BY <1>0, <1>4, EntryType DEF TypeOK, ResolveFill
    <2>000. write.code = code[p]
      BY DEF inFlight
    <2>00. \/ cache' = [cache EXCEPT ![code[p]] = entry] /\ late' = late
           \/ cache' = cache /\ late' = late
           \/ /\ cache' = cache /\ entry # Null
              /\ late' = late \cup {write}
      BY <1>4 DEF ResolveFill
    <2> HIDE DEF entry, write
    <2>1. TypeOK'
      <3>1. /\ cache' \in [Codes -> CacheEntry \cup {Null}]
            /\ late' \subseteq LateWrite
        BY <1>0, <2>0, <2>00 DEF TypeOK
      <3>2. answer' \in [Clients -> Answer]
        <4>1. held[p].target_url \in Targets
          BY <2>0 DEF Record
        <4>2. checked[p] \in Nat
          BY <1>0 DEF TypeOK
        <4>3. Respond(p, "redirect", held[p].target_url, checked[p], FALSE, FALSE)
          BY <1>4, Zenon DEF ResolveFill
        <4> QED BY <1>0, <4>1, <4>2, <4>3, RespondType, Zenon DEF Statuses
      <3>3. return(p)
        BY <1>4 DEF ResolveFill
      <3> QED BY <1>0, <1>4, <3>1, <3>2, <3>3, ReturnType DEF TypeOK, ResolveFill
    <2>2. /\ \A d : excused(d) => excused(d)'
          /\ \A d, v : current(d, v) => current(d, v)'
      BY <1>0, <1>4, ExcusesStay DEF TypeOK, ResolveFill, goto, return
    <2>3. entry # Null => current(code[p], entry.value) \/ excused(code[p])
      BY <1>0, <1>4, <2>0 DEF CarriedFresh, ResolveFill, current
    <2>4. CachedFresh'
      BY <1>0, <2>0, <2>00, <2>2, <2>3 DEF TypeOK, CachedFresh
    <2>5. CarriedFresh'
      <3>1. \A q \in Clients : pc'[q] = "fill" =>
               pc[q] = "fill" /\ held'[q] = held[q] /\ code'[q] = code[q]
        BY <1>0, <1>4 DEF TypeOK, ResolveFill, goto, return
      <3>2. repo' = repo
        BY <1>4 DEF ResolveFill
      <3>3. \A w \in late' : current(w.code, w.value) \/ excused(w.code)
        BY <1>0, <2>0, <2>000, <2>00, <2>3 DEF CarriedFresh
      <3> QED BY <1>0, <2>2, <3>1, <3>2, <3>3 DEF CarriedFresh
    <2> QED BY <2>1, <2>4, <2>5 DEF IInv
  <1>5. ASSUME NEW w \in late, LateSet(w) PROVE IInv'
    <2>1. TypeOK'
      <3>1. w.code \in Codes /\ lasting(w.value, w.life) \in CacheEntry
        BY <1>0 DEF TypeOK, LateWrite, CacheEntry, lasting
      <3> QED BY <1>0, <1>5, <3>1 DEF TypeOK, LateSet
    <2>2. /\ \A d : excused(d) => excused(d)'
          /\ \A d, v : current(d, v) => current(d, v)'
      BY <1>0, <1>5, ExcusesStay DEF LateSet
    <2>3. CachedFresh'
      BY <1>0, <1>5, <2>2 DEF TypeOK, CachedFresh, CarriedFresh, LateSet, lasting
    <2>4. CarriedFresh'
      BY <1>0, <1>5, <2>2 DEF CarriedFresh, LateSet
    <2> QED BY <2>1, <2>3, <2>4 DEF IInv
  <1>6. ASSUME NEW c \in Codes, NEW r \in NewRecords, Create(c, r) PROVE IInv'
    <2>1. TypeOK'
      BY <1>0, <1>6, ConfigAssumption DEF TypeOK, Create
    <2>2. /\ \A d : excused(d) => excused(d)'
          /\ \A d, v : current(d, v) /\ d \in Codes => current(d, v)'
          /\ \A d \in Codes : repo[d] # Null => repo'[d] = repo[d]
      BY <1>0, <1>6 DEF TypeOK, Create, excused, changing, current, stored, Remote
    <2>3. CachedFresh'
      BY <1>0, <1>6, <2>2 DEF CachedFresh, Create
    <2>4. CarriedFresh'
      BY <1>0, <1>6, <2>2 DEF TypeOK, LateWrite, CarriedFresh, Create
    <2> QED BY <2>1, <2>3, <2>4 DEF IInv
  <1>7. ASSUME NEW p \in Clients, NEW c \in Codes, NEW r \in NewRecords, Update(p, c, r)
        PROVE  IInv'
    <2>1. TypeOK'
      <3>1. /\ repo' = repo \/ repo' = [repo EXCEPT ![c] = r]
            /\ versions' = versions \/ versions' = [versions EXCEPT ![c] = @ \cup {r}]
        BY <1>7 DEF Update
      <3>2. r \in Record
        BY ConfigAssumption
      <3>3. /\ repo' \in [Codes -> Record \cup {Null}]
            /\ versions' \in [Codes -> SUBSET Record]
        BY <1>0, <3>1, <3>2 DEF TypeOK
      <3> QED BY <1>0, <1>7, <3>3 DEF TypeOK, Update, goto
    <2>2. /\ excused(c)'
          /\ \A d : excused(d) => excused(d)'
      BY <1>0, <1>7 DEF TypeOK, Update, goto, excused, changing
    <2>3. \A d \in Codes : d # c => repo'[d] = repo[d]
      BY <1>0, <1>7 DEF TypeOK, Update
    <2>4. CachedFresh'
      BY <1>0, <1>7, <2>2, <2>3 DEF CachedFresh, Update, current, stored, Remote
    <2>5. CarriedFresh'
      <3>1. \A q \in Clients : pc'[q] = "fill" =>
               pc[q] = "fill" /\ held'[q] = held[q] /\ code'[q] = code[q] /\ code[q] \in Codes
        BY <1>0, <1>7 DEF TypeOK, Update, goto
      <3>2. late' = late /\ kind' = kind /\ \A w \in late : w.code \in Codes
        BY <1>0, <1>7 DEF TypeOK, LateWrite, Update
      <3> QED BY <1>0, <2>2, <2>3, <3>1, <3>2 DEF CarriedFresh, current, stored, Remote
    <2> QED BY <2>1, <2>4, <2>5 DEF IInv
  <1>8. ASSUME NEW p \in Clients, NEW c \in Codes, Delete(p, c) PROVE IInv'
    <2>1. TypeOK'
      <3>1. repo' = repo \/ repo' = [repo EXCEPT ![c] = Null]
        BY <1>8 DEF Delete
      <3> QED BY <1>0, <1>8, <3>1 DEF TypeOK, Delete, goto
    <2>2. /\ excused(c)'
          /\ \A d : excused(d) => excused(d)'
      BY <1>0, <1>8 DEF TypeOK, Delete, goto, excused, changing
    <2>3. \A d \in Codes : d # c => repo'[d] = repo[d]
      BY <1>0, <1>8 DEF TypeOK, Delete
    <2>4. CachedFresh'
      BY <1>0, <1>8, <2>2, <2>3 DEF CachedFresh, Delete, current, stored, Remote
    <2>5. CarriedFresh'
      <3>1. \A q \in Clients : pc'[q] = "fill" =>
               pc[q] = "fill" /\ held'[q] = held[q] /\ code'[q] = code[q] /\ code[q] \in Codes
        BY <1>0, <1>8 DEF TypeOK, Delete, goto
      <3>2. late' = late /\ kind' = kind /\ \A w \in late : w.code \in Codes
        BY <1>0, <1>8 DEF TypeOK, LateWrite, Delete
      <3> QED BY <1>0, <2>2, <2>3, <3>1, <3>2 DEF CarriedFresh, current, stored, Remote
    <2> QED BY <2>1, <2>4, <2>5 DEF IInv
  <1>9. ASSUME NEW p \in Clients, Invalidate(p) PROVE IInv'
    <2> DEFINE c == code[p]
    <2>0. /\ c \in Codes
          /\ kind' = kind /\ repo' = repo /\ late' = late
          /\ return(p)
          /\ \A d \in Codes : d # c => cache'[d] = cache[d] /\ exposed'[d] = exposed[d]
          /\ cache' \in [Codes -> CacheEntry \cup {Null}]
      BY <1>0, <1>9 DEF TypeOK, Invalidate
    <2>01. /\ cache'[c] = Null \/ exposed'[c]
           /\ writable(c) => exposed'[c]
      <3>1. PICK ok \in Outcomes(Remote) :
               /\ cache' = IF ok THEN [cache EXCEPT ![c] = Null] ELSE cache
               /\ exposed' = [exposed EXCEPT ![c] = ~ok \/ writable(c)]
        BY <1>9, Zenon DEF Invalidate
      <3>2. exposed'[c] = (~ok \/ writable(c))
        BY <1>0, <2>0, <3>1 DEF TypeOK
      <3>3. ok => cache'[c] = Null
        BY <1>0, <2>0, <3>1 DEF TypeOK
      <3> QED BY <3>2, <3>3, Zenon
    <2> HIDE DEF c
    <2>00. exposed' \in [Codes -> BOOLEAN]
      BY <1>0, <1>9 DEF TypeOK, Invalidate, writable
    <2>1. TypeOK'
      BY <1>0, <1>9, <2>0, <2>00, ReturnType DEF TypeOK, Invalidate
    <2>2. \A d \in Codes : d # c /\ excused(d) => excused(d)'
      BY <1>0, <2>0, ReturnType DEF excused, changing, c
    <2>3. \A d, v : current(d, v) => current(d, v)'
      BY <2>0 DEF current, stored, Remote
    <2>4. CachedFresh'
      BY <1>0, <2>0, <2>01, <2>2, <2>3 DEF CachedFresh, excused
    <2>5. CarriedFresh'
      <3>1. ASSUME NEW q \in Clients, pc'[q] = "fill"
            PROVE  (held'[q] = repo'[code'[q]] /\ repo'[code'[q]] # Null) \/ excused(code[q])'
        <4>1. pc[q] = "fill" /\ held'[q] = held[q] /\ code'[q] = code[q] /\ code[q] \in Codes
          BY <1>0, <2>0, <3>1, ReturnType DEF TypeOK
        <4>2. CASE code[q] = c
          <5>1. exposed'[code'[q]]
            BY <2>01, <4>1, <4>2 DEF writable
          <5> QED BY <5>1 DEF excused
        <4>3. CASE code[q] # c
          <5>1. (held[q] = repo[code[q]] /\ repo[code[q]] # Null) \/ excused(code[q])
            BY <1>0, <4>1, Zenon DEF CarriedFresh
          <5>2. excused(code[q]) => excused(code[q])'
            BY <2>0, <1>0, <4>1, <4>3, ReturnType DEF excused, changing, c
          <5> QED BY <2>0, <4>1, <5>1, <5>2
        <4> QED BY <4>2, <4>3
      <3>2. ASSUME NEW w \in late PROVE current(w.code, w.value)' \/ excused(w.code)'
        <4>1. w.code \in Codes
          BY <1>0 DEF TypeOK, LateWrite
        <4>2. CASE w.code = c
          <5>1. exposed'[w.code]
            BY <2>01, <4>2 DEF writable
          <5> QED BY <5>1 DEF excused
        <4>3. CASE w.code # c
          BY <1>0, <2>2, <2>3, <4>1, <4>3 DEF CarriedFresh
        <4> QED BY <4>2, <4>3
      <3> QED BY <2>0, <3>1, <3>2 DEF CarriedFresh
    <2> QED BY <2>1, <2>4, <2>5 DEF IInv
  <1>10. ASSUME NEW p \in Clients, Crash(p) PROVE IInv'
    <2>0. /\ code[p] \in Codes
          /\ exposed' \in [Codes -> BOOLEAN]
          /\ pc[p] = "invalidate" => exposed'[code[p]]
          /\ \A d \in Codes : exposed[d] => exposed'[d]
          /\ return(p) /\ kind' = kind /\ repo' = repo /\ cache' = cache /\ late' = late
      BY <1>0, <1>10 DEF TypeOK, Crash
    <2>1. TypeOK'
      BY <1>0, <1>10, <2>0, ReturnType DEF TypeOK, Crash
    <2>2. \A d \in Codes : excused(d) => excused(d)'
      BY <1>0, <2>0, ReturnType DEF excused, changing
    <2>3. \A d, v : current(d, v) => current(d, v)'
      BY <2>0 DEF current, stored, Remote
    <2>4. CachedFresh'
      BY <1>0, <2>0, <2>2, <2>3 DEF CachedFresh
    <2>5. CarriedFresh'
      <3>1. \A q \in Clients : pc'[q] = "fill" =>
               pc[q] = "fill" /\ held'[q] = held[q] /\ code'[q] = code[q] /\ code[q] \in Codes
        BY <1>0, <2>0, ReturnType DEF TypeOK
      <3>2. \A w \in late : w.code \in Codes
        BY <1>0 DEF TypeOK, LateWrite
      <3> QED BY <1>0, <2>0, <2>2, <2>3, <3>1, <3>2 DEF CarriedFresh
    <2> QED BY <2>1, <2>4, <2>5 DEF IInv
  <1>11. ASSUME Tick \/ UNCHANGED vars PROVE IInv'
    BY <1>0, <1>11 DEF IInv, TypeOK, CachedFresh, CarriedFresh, Tick, vars,
       excused, changing, current, stored, Remote
  <1> QED BY <1>1, <1>2, <1>3, <1>4, <1>5, <1>6, <1>7, <1>8, <1>9, <1>10, <1>11 DEF Next

-----------------------------------------------------------------------------
(* What a redirect was made from *)

\* A value that says of a record no more than is true: same target, active if the record
\* is, and no later expiry.
understates(v, r) ==
    /\ v.target_url = r.target_url /\ v.is_active = r.is_active
    /\ r.expires_at # Null => v.expires_at # Null /\ v.expires_at <= r.expires_at

\* A value that goes back to a record that was stored under the code.
Known(c, v) == \E r \in versions[c] : understates(v, r)

Records == \A c \in Codes : repo[c] # Null => repo[c] \in versions[c]

Values ==
    /\ \A c \in Codes : cache[c] # Null => Known(c, cache[c].value)
    /\ \A w \in late : Known(w.code, w.value)

Carried ==
    \A p \in Clients :
        /\ pc[p] = "check" => Known(code[p], held[p])
        /\ pc[p] = "fill" => held[p] \in versions[code[p]] /\ live(held[p], checked[p])

Answers ==
    \A p \in Clients :
        answer[p].status = "redirect" =>
            /\ answer[p].code \in Codes
            /\ \E r \in versions[answer[p].code] :
                  r.target_url = answer[p].target /\ live(r, answer[p].at)

Sources == Records /\ Values /\ Carried /\ Answers

\* Truncation to whole seconds goes down.
LEMMA TruncatedDown ==
    ASSUME NEW n \in Nat, NEW d \in Nat \ {0}
    PROVE  (n \div d) * d <= n
  OBVIOUS

\* What a cache keeps of a record understates it.
LEMMA StoredUnderstates == ASSUME NEW r \in Record PROVE understates(stored(r), r)
  <1>1. CASE Remote /\ r.expires_at # Null
    <2> DEFINE e == (r.expires_at \div TicksPerSecond) * TicksPerSecond
    <2>1. r.expires_at \in Nat
      BY <1>1 DEF Record
    <2>2. e \in Nat /\ e <= r.expires_at
      BY <2>1, QuotientType, TruncatedDown, ConfigAssumption
    <2>3. stored(r) = [r EXCEPT !.expires_at = e]
      BY <1>1 DEF stored
    <2> HIDE DEF e
    <2> QED BY <2>1, <2>2, <2>3, NullAssumption DEF understates, Record
  <1>2. CASE ~(Remote /\ r.expires_at # Null)
    <2>1. stored(r) = r
      BY <1>2 DEF stored
    <2>2. r.expires_at # Null => r.expires_at <= r.expires_at
      BY DEF Record
    <2> QED BY <2>1, <2>2 DEF understates
  <1> QED BY <1>1, <1>2

\* A record is live whenever a value that understates it is.
LEMMA LiveBehind ==
    ASSUME NEW r \in Record, NEW v \in Record, NEW t \in Nat, understates(v, r), live(v, t)
    PROVE  live(r, t)
  <1>1. CASE r.expires_at = Null
    BY <1>1 DEF live, expired, understates
  <1>2. CASE r.expires_at # Null
    <2>1. r.expires_at \in Nat /\ v.expires_at \in Nat
      BY <1>2 DEF Record, understates
    <2>2. v.expires_at <= r.expires_at /\ ~(v.expires_at <= t) /\ r.is_active
      BY <1>2 DEF live, expired, understates
    <2>3. ~(r.expires_at <= t)
      BY <2>1, <2>2
    <2> QED BY <2>2, <2>3 DEF live, expired
  <1> QED BY <1>1, <1>2

\* Records are only ever added to the history, so what is known stays known.
LEMMA KnownStays ==
    ASSUME \A c \in Codes : versions[c] \subseteq versions'[c]
    PROVE  \A c \in Codes : \A v : Known(c, v) => Known(c, v)'
  BY DEF Known, understates

\* Answers that were given stay justified.
LEMMA AnswersStay ==
    ASSUME Answers, answer' = answer, \A c \in Codes : versions[c] \subseteq versions'[c]
    PROVE  Answers'
  BY DEF Answers, live, expired

\* A redirect from a known value that is live is justified by a record that was.
LEMMA RedirectIsJustified ==
    ASSUME TypeOK, Answers, versions' = versions, NEW p \in Clients, code[p] \in Codes,
           NEW v \in Record, NEW t \in Nat, Known(code[p], v), live(v, t), NEW hit, NEW outage,
           Respond(p, "redirect", v.target_url, t, hit, outage)
    PROVE  Answers'
  <1>1. PICK r \in versions[code[p]] : understates(v, r)
    BY DEF Known
  <1>2. r \in Record
    BY DEF TypeOK
  <1>3. r.target_url = v.target_url /\ live(r, t)
    BY <1>1, <1>2, LiveBehind DEF understates
  <1>4. /\ answer'[p].code = code[p] /\ answer'[p].target = v.target_url /\ answer'[p].at = t
        /\ \A q \in Clients : q # p => answer'[q] = answer[q]
    BY ZenonT(30) DEF Respond, TypeOK
  <1>5. ASSUME NEW q \in Clients, answer'[q].status = "redirect"
        PROVE  /\ answer'[q].code \in Codes
               /\ \E s \in versions'[answer'[q].code] :
                     s.target_url = answer'[q].target /\ live(s, answer'[q].at)
    <2>1. CASE q = p
      BY <1>1, <1>3, <1>4, <2>1
    <2>2. CASE q # p
      BY <1>4, <1>5, <2>2, Zenon DEF Answers
    <2> QED BY <2>1, <2>2
  <1> QED BY <1>5 DEF Answers, live, expired

\* An answer that is no redirect claims nothing.
LEMMA OtherAnswers ==
    ASSUME TypeOK, Answers, versions' = versions, NEW p \in Clients, NEW status, status # "redirect",
           NEW target, NEW t, NEW hit, NEW outage, Respond(p, status, target, t, hit, outage)
    PROVE  Answers'
  <1>1. /\ answer'[p].status = status
        /\ \A q \in Clients : q # p => answer'[q] = answer[q]
    BY DEF Respond, TypeOK
  <1> QED BY <1>1 DEF Answers, live, expired

\* A caller that is neither checking nor filling afterwards carries nothing; the others
\* carry what they did.
LEMMA CarriedStays ==
    ASSUME Carried, TypeOK, NEW p \in Clients, \A c \in Codes : versions[c] \subseteq versions'[c],
           pc'[p] \notin {"check", "fill"},
           \A q \in Clients : q # p => /\ pc'[q] = pc[q] /\ code'[q] = code[q]
                                     /\ held'[q] = held[q] /\ checked'[q] = checked[q]
    PROVE  Carried'
  <1>1. ASSUME NEW q \in Clients
        PROVE  /\ pc'[q] = "check" => Known(code[q], held[q])'
               /\ pc'[q] = "fill" => held'[q] \in versions'[code'[q]] /\ live(held'[q], checked'[q])
    <2>1. CASE q = p
      BY <2>1
    <2>2. CASE q # p
      <3>1. /\ pc'[q] = pc[q] /\ code'[q] = code[q] /\ held'[q] = held[q] /\ checked'[q] = checked[q]
            /\ pc[q] # "idle" => code[q] \in Codes
        BY <2>2 DEF TypeOK
      <3>2. pc[q] = "check" => Known(code[q], held[q])'
        BY <3>1 DEF Carried, Known, understates
      <3> QED BY <3>1, <3>2 DEF Carried
    <2> QED BY <2>1, <2>2, ZenonT(30)
  <1> QED BY <1>1 DEF Carried, live, expired

\* The locals of a call that returns.
LEMMA ReturnFrees ==
    ASSUME TypeOK, NEW p \in Clients, return(p)
    PROVE  /\ pc'[p] = "idle"
           /\ \A q \in Clients : q # p => /\ pc'[q] = pc[q] /\ code'[q] = code[q]
                                        /\ held'[q] = held[q] /\ checked'[q] = checked[q]
  BY DEF TypeOK, return, goto

\* Every value on its way to a caller, and every redirect, keeps its source.
LEMMA StepKeepsSources == TypeOK /\ Sources /\ [Next]_vars => Sources'
  <1> SUFFICES ASSUME TypeOK, Sources, [Next]_vars PROVE Sources'
    OBVIOUS
  <1>0. Records /\ Values /\ Carried /\ Answers
    BY DEF Sources
  <1>1. \A c \in Codes : versions[c] \subseteq versions'[c]
    <2>1. CASE versions' = versions
      BY <2>1
    <2>2. ASSUME NEW c \in Codes, NEW r, versions' = [versions EXCEPT ![c] = @ \cup {r}]
          PROVE  \A d \in Codes : versions[d] \subseteq versions'[d]
      BY <2>2 DEF TypeOK
    <2>3. ASSUME NEW c \in Codes, NEW r \in NewRecords, Create(c, r) \/ \E p \in Clients : Update(p, c, r)
          PROVE  \A d \in Codes : versions[d] \subseteq versions'[d]
      BY <2>1, <2>2, <2>3 DEF Create, Update
    <2>4. \/ versions' = versions
          \/ \E c \in Codes, r \in NewRecords : Create(c, r) \/ \E p \in Clients : Update(p, c, r)
      BY Zenon DEF Next, vars, ResolveGet, ResolveCheck, ResolveLoad, ResolveFill, Delete,
                   Invalidate, Crash, LateSet, Tick
    <2> QED BY <2>1, <2>3, <2>4
  <1>2. \A c \in Codes : \A v : Known(c, v) => Known(c, v)'
    BY <1>1, KnownStays
  <1>3. /\ \A w \in late : w.code \in Codes
        /\ \A c \in Codes : repo[c] # Null => repo[c] \in Record
        /\ \A q \in Clients : pc[q] # "idle" => code[q] \in Codes
        /\ now \in Nat
    BY DEF TypeOK, LateWrite
  <1>4. repo' = repo => Records'
    BY <1>0, <1>1, ZenonT(30) DEF Records
  <1>5. ASSUME \A c \in Codes : cache'[c] # Null => cache'[c] = cache[c], late' \subseteq late PROVE Values'
    BY <1>0, <1>2, <1>3, <1>5 DEF Values
  <1>6. ASSUME NEW p \in Clients, NEW c \in Codes, ResolveGet(p, c) PROVE Sources'
    <2>1. /\ repo' = repo /\ late' = late /\ answer' = answer /\ checked' = checked
          /\ versions' = versions
          /\ code' = [code EXCEPT ![p] = c]
          /\ \A d \in Codes : cache'[d] # Null => cache'[d] = cache[d]
      BY <1>6 DEF ResolveGet, TypeOK
    <2>2. PICK ok \in Outcomes(Remote) :
             /\ held' = [held EXCEPT ![p] = IF ok THEN visible(c) ELSE Null]
             /\ pc' = [pc EXCEPT ![p] = IF ok /\ visible(c) # Null THEN "check" ELSE "load"]
      BY <1>6, ZenonT(30) DEF ResolveGet, goto
    <2>3. visible(c) # Null => Known(c, visible(c))
      BY <1>0 DEF Values, visible
    <2>4. pc'[p] = "check" => held'[p] = visible(c) /\ visible(c) # Null
      BY <2>2 DEF TypeOK
    <2>5. /\ pc'[p] # "fill" /\ code'[p] = c
          /\ \A q \in Clients : q # p => pc'[q] = pc[q] /\ code'[q] = code[q] /\ held'[q] = held[q]
      BY <2>1, <2>2 DEF TypeOK
    <2>6. Carried'
      <3>1. ASSUME NEW q \in Clients
            PROVE  /\ pc'[q] = "check" => Known(code[q], held[q])'
                   /\ pc'[q] = "fill" => held'[q] \in versions'[code'[q]] /\ live(held'[q], checked'[q])
        <4>1. CASE q = p
          BY <2>1, <2>3, <2>4, <2>5, <4>1, SMTT(30) DEF Known, understates
        <4>2. CASE q # p
          BY <1>0, <2>1, <2>5, <4>2, SMTT(30) DEF Carried, Known, understates
        <4> QED BY <4>1, <4>2, SMTT(30)
      <3> QED BY <3>1 DEF Carried, live, expired
    <2>7. Values' /\ Answers' /\ Records'
      BY <1>0, <1>1, <1>4, <1>5, <2>1, AnswersStay
    <2> QED BY <2>6, <2>7 DEF Sources
  <1>7. ASSUME NEW p \in Clients, ResolveCheck(p) PROVE Sources'
    <2>1. /\ repo' = repo /\ late' = late /\ versions' = versions /\ pc[p] = "check"
          /\ \A d \in Codes : cache'[d] # Null => cache'[d] = cache[d]
      BY <1>7, Zenon DEF ResolveCheck, TypeOK
    <2>2. /\ pc'[p] \notin {"check", "fill"}
          /\ \A q \in Clients : q # p => /\ pc'[q] = pc[q] /\ code'[q] = code[q]
                                       /\ held'[q] = held[q] /\ checked'[q] = checked[q]
      BY <1>7, Zenon DEF ResolveCheck, TypeOK, return, goto
    <2>3. Answers'
      <3>1. CASE answer' = answer
        BY <1>0, <1>1, <3>1, AnswersStay
      <3>2. CASE live(held[p], now) /\ Respond(p, "redirect", held[p].target_url, now, TRUE, FALSE)
        <4>1. held[p] \in Record /\ Known(code[p], held[p])
          BY <1>0, <2>1 DEF TypeOK, Carried
        <4> QED BY <1>0, <1>3, <2>1, <3>2, <4>1, RedirectIsJustified, Zenon
      <3> QED BY <1>7, <3>1, <3>2, Zenon DEF ResolveCheck
    <2> QED BY <1>0, <1>1, <1>4, <1>5, <2>1, <2>2, <2>3, CarriedStays DEF Sources
  <1>8. ASSUME NEW p \in Clients, ResolveLoad(p) PROVE Sources'
    <2>1. repo' = repo /\ late' = late /\ versions' = versions /\ cache' = cache /\ pc[p] = "load"
      BY <1>8 DEF ResolveLoad
    <2>2. PICK ok \in Outcomes(RepoFails) :
             LET r == IF ok THEN repo[code[p]] ELSE Null
             IN  \/ /\ r # Null /\ live(r, now)
                    /\ held' = [held EXCEPT ![p] = r] /\ checked' = [checked EXCEPT ![p] = now]
                    /\ pc' = [pc EXCEPT ![p] = "fill"] /\ code' = code /\ answer' = answer
                 \/ \E status \in Statuses \ {"redirect"} :
                       Respond(p, status, Null, now, FALSE, ~ok) /\ return(p)
      BY <1>8, Zenon DEF ResolveLoad, goto, live, Statuses
    <2>3. CASE \E status \in Statuses \ {"redirect"} :
                  Respond(p, status, Null, now, FALSE, ~ok) /\ return(p)
      <3>1. Answers'
        BY <1>0, <2>1, <2>3, OtherAnswers, Zenon
      <3>2. Carried'
        BY <1>0, <1>1, <2>3, ReturnFrees, CarriedStays
      <3> QED BY <1>4, <1>5, <2>1, <3>1, <3>2 DEF Sources
    <2>4. CASE /\ repo[code[p]] # Null /\ live(repo[code[p]], now)
               /\ held' = [held EXCEPT ![p] = repo[code[p]]] /\ checked' = [checked EXCEPT ![p] = now]
               /\ pc' = [pc EXCEPT ![p] = "fill"] /\ code' = code /\ answer' = answer
      <3>1. repo[code[p]] \in versions[code[p]]
        BY <1>0, <1>3, <2>1, <2>4 DEF Records
      <3>2. Carried'
        <4>1. ASSUME NEW q \in Clients
              PROVE  /\ pc'[q] = "check" => Known(code[q], held[q])'
                     /\ pc'[q] = "fill" => held'[q] \in versions'[code'[q]] /\ live(held'[q], checked'[q])
          <5>1. CASE q = p
            BY <2>1, <2>4, <3>1, <5>1, Zenon DEF TypeOK
          <5>2. CASE q # p
            <6>1. pc'[q] = pc[q] /\ code'[q] = code[q] /\ held'[q] = held[q] /\ checked'[q] = checked[q]
              BY <2>4, <5>2 DEF TypeOK
            <6> QED BY <1>0, <2>1, <6>1, ZenonT(30) DEF Carried, Known, understates
          <5> QED BY <5>1, <5>2
        <4> QED BY <4>1 DEF Carried, live, expired
      <3>3. Answers'
        BY <1>0, <1>1, <2>4, AnswersStay, ZenonT(30)
      <3> QED BY <1>4, <1>5, <2>1, <3>2, <3>3 DEF Sources
    <2> QED BY <2>2, <2>3, <2>4, ZenonT(30)
  <1>9. ASSUME NEW p \in Clients, ResolveFill(p) PROVE Sources'
    <2> DEFINE entry == entryFor(held[p])
               write == inFlight(code[p], entry)
    <2>1. /\ repo' = repo /\ versions' = versions /\ pc[p] = "fill" /\ return(p)
          /\ Respond(p, "redirect", held[p].target_url, checked[p], FALSE, FALSE)
      BY <1>9, Zenon DEF ResolveFill
    <2>2. /\ held[p] \in Record /\ checked[p] \in Nat /\ code[p] \in Codes
          /\ held[p] \in versions[code[p]] /\ live(held[p], checked[p])
      BY <1>0, <2>1 DEF TypeOK, Carried
    <2>3. Known(code[p], held[p]) /\ Known(code[p], stored(held[p]))
      <3>1. understates(held[p], held[p])
        <4>1. held[p].expires_at # Null => held[p].expires_at <= held[p].expires_at
          BY <2>2 DEF Record
        <4> QED BY <4>1 DEF understates
      <3> QED BY <2>2, <3>1, StoredUnderstates DEF Known
    <2>4. /\ entry # Null => entry.value = stored(held[p]) /\ write.value = stored(held[p])
          /\ write.code = code[p]
      BY <1>3, <2>2, EntryType DEF inFlight
    <2>5. \/ cache' = [cache EXCEPT ![code[p]] = entry] /\ late' = late
          \/ cache' = cache /\ late' = late
          \/ /\ cache' = cache /\ entry # Null
             /\ late' = late \cup {write}
      BY <1>9 DEF ResolveFill
    <2> HIDE DEF entry, write
    <2>6. /\ \A c \in Codes : cache'[c] # Null => cache'[c] = cache[c] \/ (c = code[p] /\ cache'[c] = entry)
          /\ \A w \in late' : w \in late \/ (w = write /\ entry # Null)
      BY <2>5 DEF TypeOK
    <2>7. Values'
      <3>1. ASSUME NEW c \in Codes, cache'[c] # Null PROVE Known(c, cache'[c].value)
        BY <1>0, <2>3, <2>4, <2>6, <3>1 DEF Values
      <3>2. ASSUME NEW w \in late' PROVE w.code \in Codes /\ Known(w.code, w.value)
        BY <1>0, <1>3, <2>2, <2>3, <2>4, <2>6, Zenon DEF Values
      <3> QED BY <2>1, <3>1, <3>2, SMTT(30) DEF Values, Known, understates
    <2>8. Answers'
      BY <1>0, <2>1, <2>2, <2>3, RedirectIsJustified, ZenonT(30)
    <2>9. Carried'
      BY <1>0, <1>1, <2>1, ReturnFrees, CarriedStays
    <2> QED BY <1>4, <2>1, <2>7, <2>8, <2>9 DEF Sources
  <1>10. ASSUME NEW w \in late, LateSet(w) PROVE Sources'
    <2>1. /\ repo' = repo /\ versions' = versions /\ answer' = answer /\ late' \subseteq late
          /\ UNCHANGED <<pc, code, held, checked>>
          /\ \A c \in Codes : cache'[c] # Null => cache'[c] = cache[c] \/ (c = w.code /\ cache'[c].value = w.value)
      BY <1>10 DEF LateSet, TypeOK, lasting
    <2>2. Values'
      <3>1. ASSUME NEW c \in Codes, cache'[c] # Null PROVE Known(c, cache'[c].value)
        BY <1>0, <2>1, <3>1, SMTT(30) DEF Values
      <3> QED BY <1>0, <2>1, <3>1, Zenon DEF Values, Known, understates
    <2>3. Carried' /\ Answers'
      BY <1>0, <2>1 DEF Carried, Answers, Known, understates, live, expired
    <2> QED BY <1>4, <2>1, <2>2, <2>3 DEF Sources
  <1>11. ASSUME NEW c \in Codes, NEW r \in NewRecords, Create(c, r) PROVE Sources'
    <2>1. /\ UNCHANGED <<cache, pc, code, held, checked, answer, late>>
          /\ repo' = [repo EXCEPT ![c] = r] /\ versions' = [versions EXCEPT ![c] = @ \cup {r}]
      BY <1>11 DEF Create
    <2>2. Records'
      BY <1>0, <2>1, SMTT(30) DEF Records, TypeOK
    <2>3. Carried'
      BY <1>0, <1>1, <1>2, <1>3, <2>1 DEF Carried, live, expired
    <2> QED BY <1>0, <1>1, <1>5, <2>1, <2>2, <2>3, AnswersStay DEF Sources
  <1>12. ASSUME NEW p \in Clients, NEW c \in Codes, NEW r \in NewRecords, Update(p, c, r)
         PROVE  Sources'
    <2>1. /\ UNCHANGED <<cache, held, checked, answer, late>>
          /\ code' = [code EXCEPT ![p] = c] /\ pc' = [pc EXCEPT ![p] = "invalidate"]
      BY <1>12 DEF Update, goto
    <2>2. \/ repo' = repo
          \/ repo' = [repo EXCEPT ![c] = r] /\ versions' = [versions EXCEPT ![c] = @ \cup {r}]
      BY <1>12 DEF Update
    <2>3. Records'
      <3>1. CASE repo' = repo
        BY <1>0, <1>4, <3>1, Zenon DEF Records
      <3>2. CASE repo' = [repo EXCEPT ![c] = r] /\ versions' = [versions EXCEPT ![c] = @ \cup {r}]
        BY <1>0, <3>2, SMTT(30) DEF Records, TypeOK
      <3> QED BY <2>2, <3>1, <3>2, Zenon
    <2>4. Carried'
      BY <1>0, <1>1, <2>1, CarriedStays DEF TypeOK
    <2> QED BY <1>0, <1>1, <1>5, <2>1, <2>3, <2>4, AnswersStay DEF Sources
  <1>13. ASSUME NEW p \in Clients, NEW c \in Codes, Delete(p, c) PROVE Sources'
    <2>1. /\ UNCHANGED <<cache, held, checked, answer, late, versions>>
          /\ code' = [code EXCEPT ![p] = c] /\ pc' = [pc EXCEPT ![p] = "invalidate"]
          /\ repo' = repo \/ repo' = [repo EXCEPT ![c] = Null]
      BY <1>13 DEF Delete, goto
    <2>2. Records'
      BY <1>0, <2>1 DEF Records, TypeOK
    <2>3. Carried'
      BY <1>0, <1>1, <2>1, CarriedStays DEF TypeOK
    <2> QED BY <1>0, <1>1, <1>5, <2>1, <2>2, <2>3, AnswersStay DEF Sources
  <1>14. ASSUME NEW p \in Clients, Invalidate(p) \/ Crash(p) PROVE Sources'
    <2>1. /\ UNCHANGED <<repo, answer, late, versions>> /\ return(p)
          /\ \A c \in Codes : cache'[c] # Null => cache'[c] = cache[c]
      BY <1>14, Zenon DEF Invalidate, Crash, TypeOK
    <2>2. Carried'
      BY <1>0, <1>1, <2>1, ReturnFrees, CarriedStays, Zenon
    <2> QED BY <1>0, <1>1, <1>4, <1>5, <2>1, <2>2, AnswersStay DEF Sources
  <1>15. CASE Tick \/ UNCHANGED vars
    <2>1. UNCHANGED <<repo, cache, pc, code, held, checked, answer, late, versions>>
      BY <1>15 DEF Tick, vars
    <2>2. Carried'
      BY <1>0, <2>1 DEF Carried, Known, understates, live, expired
    <2> QED BY <1>0, <1>1, <1>4, <1>5, <2>1, <2>2, AnswersStay, Zenon DEF Sources
  <1> QED BY <1>6, <1>7, <1>8, <1>9, <1>10, <1>11, <1>12, <1>13, <1>14, <1>15 DEF Next

-----------------------------------------------------------------------------
(* Theorems *)

\* The inductive invariant holds of every behaviour of the service.
THEOREM Invariance == Spec => []IInv
  BY InitEstablishes, StepPreserves, PTL DEF Spec

\* Every state of the service is well-typed; in particular a caller that
\* compares or caches a record has one.
THEOREM TypeCorrect == Spec => []TypeOK
  <1>1. IInv => TypeOK
    BY DEF IInv
  <1> QED BY <1>1, Invariance, PTL

\* The staleness bound of cache-aside: for every number of callers, codes and
\* outages, an entry that differs from the repository belongs to a code that is
\* being changed or whose last invalidation could not close the window.
THEOREM StalenessIsBounded == Spec => []FreshUnlessExposed
  <1>1. IInv => FreshUnlessExposed
    BY DEF IInv, CachedFresh, FreshUnlessExposed, fresh, current, excused
  <1> QED BY <1>1, Invariance, PTL
\* However stale the cache and however times are truncated, a redirect goes to a target
\* that was stored under the code in a record that was active and not expired when
\* Resolve looked at the clock: for any callers, outages and delayed writes.
THEOREM RedirectsWereLive == Spec => []ServedWasLive
  <1>1. Init => Sources
    BY DEF Init, Sources, Records, Values, Carried, Answers, noAnswer
  <1>2. TypeOK /\ Sources /\ [Next]_vars => Sources'
    BY StepKeepsSources, SMTT(30)
  <1>3. Sources => ServedWasLive
    BY DEF Sources, Answers, ServedWasLive
  <1> QED BY <1>1, <1>2, <1>3, TypeCorrect, PTL DEF Spec
=============================================================================
