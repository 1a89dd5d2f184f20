---------------------------- MODULE LinkCommands ----------------------------
(***************************************************************************)
(* The link service of the running server: the in-memory repository and    *)
(* its slug index, the read cache in front of it, the command service that *)
(* mutates links, the redirect handlers, and the click events they emit.   *)
(*                                                                         *)
(* main() runs one io_context on one thread, so a request handler runs to  *)
(* completion: one action is one handler, cache fills, repository writes,  *)
(* cache invalidation and click events included.                           *)
(***************************************************************************)
EXTENDS Naturals, Sequences, FiniteSets

CONSTANTS
    Names,               \* the slug strings requests carry
    ValidSlugs,          \* those isValidSlug accepts
    ReservedSlugs,       \* those isReservedSlug accepts
    GeneratedSlugs,      \* the range of generateSlug for the configured length
    Ids,                 \* the range of generateId
    Targets,             \* normalised target URLs
    Labels,              \* tags, metadata and campaign of a link, as one value
    BadLabels,           \* labels that break the length and count limits
    Null,                \* std::nullopt
    Absent,              \* a field the request body does not have
    DefaultExpiry,       \* shortener_default_expiry_seconds, or Null
    DefaultRedirectType, \* shortener_default_redirect_type
    AnalyticsEnabled,    \* analytics_enabled
    QueueCapacity,       \* analytics_queue_capacity
    CreateCommands,      \* the create requests clients send
    Patches,             \* the patch bodies clients send
    StatsWindows,        \* the <<from, to>> windows clients ask statistics for
    MaxTime,             \* bound: last second of the clock
    MaxClicks            \* bound: redirect attempts, and redirects per link

RedirectTypes == {"temporary", "permanent"}

Time == 0 .. MaxTime

ASSUME NamesAssumption ==
    /\ ValidSlugs \subseteq Names
    /\ ReservedSlugs \subseteq Names
    /\ GeneratedSlugs \subseteq Names

\* shortener_generated_slug_length is between 3 and 64, as the default is.  The
\* configuration is not checked for it: with another length links are created
\* that the redirect handlers refuse to look up.
ASSUME LengthAssumption == GeneratedSlugs \subseteq ValidSlugs

ASSUME ValuesAssumption ==
    /\ Null \notin Names \cup Ids \cup Nat
    /\ Absent \notin Names
    /\ BadLabels \notin Labels
    /\ DefaultRedirectType \in RedirectTypes
    /\ AnalyticsEnabled \in BOOLEAN
    /\ DefaultExpiry \in Nat \cup {Null}

\* CreateLinkCommand and UpdateLinkCommand after the shape checks of the
\* handlers.  expires_at may lie in the past; a patch may also clear it.
CreateLinkCommand ==
    [slug : Names \cup {Absent}, target_url : Targets,
     expires_at : Nat \cup {Absent}, enabled : BOOLEAN \cup {Absent},
     labels : Labels \cup {BadLabels}, redirect_type : RedirectTypes \cup {Absent}]

UpdateLinkCommand ==
    [enabled : BOOLEAN \cup {Absent}, expires_at : Nat \cup {Null, Absent},
     labels : Labels \cup {Absent}]

ASSUME InputsAssumption ==
    /\ CreateCommands \subseteq CreateLinkCommand
    /\ Patches \subseteq UpdateLinkCommand
    /\ StatsWindows \subseteq Nat \X Nat

ASSUME BoundsAssumption ==
    /\ QueueCapacity \in Nat
    /\ MaxTime \in Nat
    /\ MaxClicks \in Nat

\* Link, with tags, metadata and campaign as one value and Stats flattened.
Link == [id : Ids, slug : Names, target_url : Targets,
         created_at : Time, updated_at : Time,
         expires_at : Nat \cup {Null}, deleted_at : Time \cup {Null},
         enabled : BOOLEAN, labels : Labels, redirect_type : RedirectTypes,
         total_redirects : Nat, redirects_24h : Nat, redirects_7d : Nat,
         last_accessed_at : Time \cup {Null}]

ASSUME NullAssumption == Null \notin Link

ClickEvent == [slug : Names, link_id : Ids \cup {Null},
               status_code : {301, 302, 404, 410}, occurred_at : Time]

VARIABLES
    by_id,          \* InMemoryMetadataRepository::by_id_
    slug_to_id,     \* InMemoryMetadataRepository::slug_to_id_
    by_slug,        \* InMemoryLinkCacheStore::by_slug_
    clicks,         \* rows of analyticsClickRepository(), in insertion order
    enqueued_total, \* legacy click queue: events it buffered (never drained)
    dropped_total,  \* legacy click queue: events it refused
    now,            \* wall clock, in seconds
    reply           \* answer to the last request

repository == <<by_id, slug_to_id>>
analytics == <<clicks, enqueued_total, dropped_total>>
vars == <<by_id, slug_to_id, by_slug, clicks, enqueued_total, dropped_total, now, reply>>

\* Types: the maps hold well-formed links or nothing, a click event has a
\* status code the redirect handlers send, and the clock stays in its bound.
TypeOK ==
    /\ by_id \in [Ids -> Link \cup {Null}]
    /\ slug_to_id \in [Names -> Ids \cup {Null}]
    /\ by_slug \in [Names -> Link \cup {Null}]
    /\ clicks \in Seq(ClickEvent)
    /\ enqueued_total \in Nat
    /\ dropped_total \in Nat
    /\ now \in Time

Init ==
    /\ by_id = [i \in Ids |-> Null]
    /\ slug_to_id = [s \in Names |-> Null]
    /\ by_slug = [s \in Names |-> Null]
    /\ clicks = <<>>
    /\ enqueued_total = 0
    /\ dropped_total = 0
    /\ now = 0
    /\ reply = [op |-> "none", slug |-> Null, code |-> 0, view |-> Null]

Answer(op, slug, code, view) ==
    reply' = [op |-> op, slug |-> slug, code |-> code, view |-> view]

-----------------------------------------------------------------------------
(* Link state *)

isExpired(link, t) == link.expires_at # Null /\ link.expires_at <= t

resolveLinkStatus(link, t) ==
    IF link.deleted_at # Null THEN "deleted"
    ELSE IF ~link.enabled THEN "disabled"
    ELSE IF isExpired(link, t) THEN "expired"
    ELSE "active"

isActive(link, t) == link # Null /\ resolveLinkStatus(link, t) = "active"

redirectStatusFor(link) == IF link.redirect_type = "permanent" THEN 301 ELSE 302

-----------------------------------------------------------------------------
(* Repository and cache *)

getBySlug(slug) == IF slug_to_id[slug] = Null THEN Null ELSE by_id[slug_to_id[slug]]

\* getLinkForRead: the link it returns, and the cache it leaves behind.
linkForRead(slug) == IF by_slug[slug] # Null THEN by_slug[slug] ELSE getBySlug(slug)

cacheAfterRead(slug) ==
    IF by_slug[slug] # Null THEN by_slug ELSE [by_slug EXCEPT ![slug] = getBySlug(slug)]

readThrough(slug) == by_slug' = cacheAfterRead(slug) /\ UNCHANGED repository

\* Slip: the write leaves the entry the read just cached.
updateLinkKeepingCache(link) ==
    /\ by_id' = IF by_id[link.id] = Null THEN by_id ELSE [by_id EXCEPT ![link.id] = link]
    /\ by_slug' = cacheAfterRead(link.slug)
    /\ UNCHANGED slug_to_id

\* updateLinkAndInvalidateCache of a link that getLinkForRead just returned:
\* the repository refuses an id it does not hold, and only a stored link
\* invalidates the entry of its slug.
updateLinkAndInvalidateCache(link) ==
    LET found == by_id[link.id] # Null
    IN  /\ by_id' = IF found THEN [by_id EXCEPT ![link.id] = link] ELSE by_id
        /\ by_slug' = IF found THEN [cacheAfterRead(link.slug) EXCEPT ![link.slug] = Null]
                               ELSE cacheAfterRead(link.slug)
        /\ UNCHANGED slug_to_id

\* Slip: an id that is already in use is overwritten.
createOverwritingId(link) ==
    /\ slug_to_id' = [slug_to_id EXCEPT ![link.slug] = link.id]
    /\ by_id' = [by_id EXCEPT ![link.id] = link]
    /\ by_slug' = [by_slug EXCEPT ![link.slug] = Null]
    /\ Answer("create", link.slug, 201, link)

\* InMemoryMetadataRepository::create, and the invalidation CreateLink adds.
create(link) ==
    IF slug_to_id[link.slug] # Null \/ by_id[link.id] # Null
    THEN /\ Answer("create", Null, 409, Null)
         /\ UNCHANGED <<repository, by_slug>>
    ELSE /\ slug_to_id' = [slug_to_id EXCEPT ![link.slug] = link.id]
         /\ by_id' = [by_id EXCEPT ![link.id] = link]
         /\ by_slug' = [by_slug EXCEPT ![link.slug] = Null]
         /\ Answer("create", link.slug, 201, link)

-----------------------------------------------------------------------------
(* Creating a link *)

\* chooseSlug: the outcomes for a requested slug, or for a generated one.
\* Ten attempts that all hit a taken or reserved slug end in an error.
chooseSlug(requested) ==
    LET taken(s) == slug_to_id[s] # Null
        code(s) == IF s \notin ValidSlugs THEN 400
                   ELSE IF s \in ReservedSlugs \/ taken(s) THEN 409 ELSE 201
        usable == {s \in GeneratedSlugs : ~taken(s) /\ s \notin ReservedSlugs}
    IN  IF requested # Absent
        THEN {[slug |-> requested, code |-> code(requested)]}
        ELSE {[slug |-> s, code |-> 201] : s \in usable}
             \cup {[slug |-> s, code |-> 500] : s \in GeneratedSlugs \ usable}

newLink(cmd, id, slug) ==
    [id |-> id, slug |-> slug, target_url |-> cmd.target_url,
     created_at |-> now, updated_at |-> now,
     expires_at |-> IF cmd.expires_at # Absent THEN cmd.expires_at
                    ELSE IF DefaultExpiry # Null THEN now + DefaultExpiry ELSE Null,
     deleted_at |-> Null,
     enabled |-> IF cmd.enabled = Absent THEN TRUE ELSE cmd.enabled,
     labels |-> cmd.labels,
     redirect_type |-> IF cmd.redirect_type = Absent THEN DefaultRedirectType
                       ELSE cmd.redirect_type,
     total_redirects |-> 0, redirects_24h |-> 0, redirects_7d |-> 0,
     last_accessed_at |-> Null]

\* createLinkFromRequest: POST /api/v1/links and its compatibility route.
CreateLink(cmd) ==
    /\ UNCHANGED <<analytics, now>>
    /\ \E choice \in chooseSlug(cmd.slug) :
          \/ /\ choice.code # 201
             /\ Answer("create", Null, choice.code, Null)
             /\ UNCHANGED <<repository, by_slug>>
          \/ /\ choice.code = 201 /\ cmd.labels = BadLabels
             /\ Answer("create", Null, 400, Null)
             /\ UNCHANGED <<repository, by_slug>>
          \/ /\ choice.code = 201 /\ cmd.labels # BadLabels
             /\ \E id \in Ids : create(newLink(cmd, id, choice.slug))

\* A body without a usable url, or with a field of the wrong shape.
CreateMalformed ==
    /\ Answer("create", Null, 400, Null)
    /\ UNCHANGED <<repository, by_slug, analytics, now>>

-----------------------------------------------------------------------------
(* Changing a link: read it through the cache, change the copy, store it *)

\* LinkCommandService's tail: persist the changed copy and answer with it.
Persist(op, link) ==
    /\ updateLinkAndInvalidateCache(link)
    /\ IF by_id[link.id] # Null THEN Answer(op, link.slug, 200, link)
                                ELSE Answer(op, link.slug, 500, Null)
    /\ UNCHANGED <<analytics, now>>

\* The early return of every command on a slug nobody holds.
NotFound(op, slug) ==
    /\ linkForRead(slug) = Null
    /\ Answer(op, slug, 404, Null)
    /\ readThrough(slug)
    /\ UNCHANGED <<analytics, now>>

\* Slip: a patch brings a deleted link back.
patchedRestoring(link, patch) ==
    [link EXCEPT !.enabled = IF patch.enabled = Absent THEN @ ELSE patch.enabled,
                 !.expires_at = IF patch.expires_at = Absent THEN @ ELSE patch.expires_at,
                 !.labels = IF patch.labels = Absent THEN @ ELSE patch.labels,
                 !.deleted_at = Null, !.updated_at = now]

patched(link, patch) ==
    [link EXCEPT !.enabled = IF patch.enabled = Absent THEN @ ELSE patch.enabled,
                 !.expires_at = IF patch.expires_at = Absent THEN @ ELSE patch.expires_at,
                 !.labels = IF patch.labels = Absent THEN @ ELSE patch.labels,
                 !.updated_at = now]

\* PATCH /api/v1/links/{slug} with a well-formed body.  Its existence check
\* and UpdateLink read the same entry: the second read finds what the first
\* one cached.
UpdateLink(slug, patch) ==
    /\ linkForRead(slug) # Null
    /\ Persist("patch", patched(linkForRead(slug), patch))

\* The existence check has filled the cache when the body is refused.
PatchMalformed(slug) ==
    /\ linkForRead(slug) # Null
    /\ Answer("patch", slug, 400, Null)
    /\ readThrough(slug)
    /\ UNCHANGED <<analytics, now>>

\* Slip: a hard delete that frees the slug and forgets the cache.
DeleteLinkErasing(slug) ==
    LET link == linkForRead(slug)
    IN  /\ link # Null
        /\ by_id' = [by_id EXCEPT ![link.id] = Null]
        /\ slug_to_id' = [slug_to_id EXCEPT ![slug] = Null]
        /\ by_slug' = cacheAfterRead(slug)
        /\ Answer("delete", slug, 200, link)
        /\ UNCHANGED <<analytics, now>>

DeleteLink(slug) ==
    /\ linkForRead(slug) # Null
    /\ Persist("delete", [linkForRead(slug) EXCEPT !.deleted_at = now, !.updated_at = now])

SetLinkEnabled(slug, enabled) ==
    /\ linkForRead(slug) # Null
    /\ Persist("set_enabled", [linkForRead(slug) EXCEPT !.enabled = enabled, !.updated_at = now])

RestoreLink(slug) ==
    /\ linkForRead(slug) # Null
    /\ Persist("restore", [linkForRead(slug) EXCEPT !.deleted_at = Null, !.updated_at = now])

-----------------------------------------------------------------------------
(* Reading a link *)

\* GET by slug, preview, the 501 placeholders and the short form of stats.
GetLink(slug) ==
    /\ linkForRead(slug) # Null
    /\ \E code \in {200, 501} :
          Answer("get", slug, code, IF code = 200 THEN linkForRead(slug) ELSE Null)
    /\ readThrough(slug)
    /\ UNCHANGED <<analytics, now>>

\* GET by id goes to the repository and leaves the cache alone.
GetLinkById(id) ==
    /\ IF by_id[id] # Null THEN Answer("get_by_id", Null, 200, by_id[id])
                           ELSE Answer("get_by_id", Null, 404, Null)
    /\ UNCHANGED <<repository, by_slug, analytics, now>>

\* InMemoryClickEventRepository::GetAggregateStats over [from, to).
aggregateStats(slug, from, to) ==
    LET rows == {i \in 1 .. Len(clicks) :
                    /\ clicks[i].slug = slug
                    /\ clicks[i].occurred_at >= from /\ clicks[i].occurred_at < to}
    IN  [total_attempts |-> Cardinality(rows),
         successful_redirects |->
            Cardinality({i \in rows : clicks[i].status_code \in 300 .. 399})]

\* GET /api/v1/links/{slug}/stats with a window: answered from the click rows
\* alone, for a slug that need not exist.
GetLinkStats(slug, from, to) ==
    /\ IF from >= to THEN Answer("stats", slug, 400, Null)
                     ELSE Answer("stats", slug, 200, aggregateStats(slug, from, to))
    /\ UNCHANGED <<repository, by_slug, analytics, now>>

-----------------------------------------------------------------------------
(* Redirects *)

\* emitClickEvent: a row in the click repository, then the legacy queue, which
\* nothing drains: what it buffers is what it ever accepted.
emitClickEvent(slug, link_id, code) ==
    IF AnalyticsEnabled
    THEN /\ clicks' = Append(clicks, [slug |-> slug, link_id |-> link_id,
                                      status_code |-> code, occurred_at |-> now])
         /\ IF enqueued_total >= QueueCapacity
            THEN dropped_total' = dropped_total + 1 /\ UNCHANGED enqueued_total
            ELSE enqueued_total' = enqueued_total + 1 /\ UNCHANGED dropped_total
    ELSE UNCHANGED analytics

\* Slip: the counted copy is stored, but the entry of the served link stays.
incrementRedirectStatsUncached(link) ==
    LET counted == [link EXCEPT !.total_redirects = @ + 1, !.redirects_24h = @ + 1,
                                !.redirects_7d = @ + 1, !.last_accessed_at = now]
    IN  updateLinkKeepingCache(counted)

incrementRedirectStats(link) ==
    updateLinkAndInvalidateCache(
        [link EXCEPT !.total_redirects = @ + 1, !.redirects_24h = @ + 1,
                     !.redirects_7d = @ + 1, !.last_accessed_at = now])

\* Bound on the redirect attempts of a run.
ClickBound ==
    /\ Len(clicks) < MaxClicks
    /\ \A id \in Ids : by_id[id] # Null => by_id[id].total_redirects < MaxClicks

\* GET /r/{slug} with a string no link can have.
RedirectInvalidSlug(slug) ==
    /\ ClickBound
    /\ slug \notin ValidSlugs
    /\ emitClickEvent(slug, Null, 404)
    /\ Answer("redirect", slug, 404, Null)
    /\ UNCHANGED <<repository, by_slug, now>>

\* linkStateError: the link is missing or not active.
RedirectRefused(slug) ==
    LET link == linkForRead(slug)
        code == IF link # Null /\ resolveLinkStatus(link, now) \in {"disabled", "expired"}
                THEN 410 ELSE 404
    IN  /\ ClickBound
        /\ slug \in ValidSlugs
        /\ ~isActive(link, now)
        /\ emitClickEvent(slug, IF link = Null THEN Null ELSE link.id, code)
        /\ Answer("redirect", slug, code, Null)
        /\ readThrough(slug)
        /\ UNCHANGED now

\* GET /r/{slug} and GET /{slug} for an active link.
RedirectServed(slug) ==
    LET link == linkForRead(slug)
    IN  /\ ClickBound
        /\ slug \in ValidSlugs
        /\ isActive(link, now)
        /\ incrementRedirectStats(link)
        /\ emitClickEvent(slug, link.id, redirectStatusFor(link))
        /\ Answer("redirect", slug, redirectStatusFor(link), link)
        /\ UNCHANGED now

-----------------------------------------------------------------------------
Tick ==
    /\ now < MaxTime
    /\ now' = now + 1
    /\ UNCHANGED <<repository, by_slug, analytics, reply>>

Next ==
    \/ \E cmd \in CreateCommands : CreateLink(cmd)
    \/ CreateMalformed
    \/ \E slug \in Names :
          \/ \E op \in {"patch", "delete", "set_enabled", "restore", "get"} : NotFound(op, slug)
          \/ \E patch \in Patches : UpdateLink(slug, patch)
          \/ PatchMalformed(slug)
          \/ DeleteLink(slug)
          \/ \E enabled \in BOOLEAN : SetLinkEnabled(slug, enabled)
          \/ RestoreLink(slug)
          \/ GetLink(slug)
          \/ \E w \in StatsWindows : GetLinkStats(slug, w[1], w[2])
          \/ RedirectInvalidSlug(slug)
          \/ RedirectRefused(slug)
          \/ RedirectServed(slug)
    \/ \E id \in Ids : GetLinkById(id)
    \/ Tick

Spec == Init /\ [][Next]_vars

-----------------------------------------------------------------------------
(* Properties *)

\* Cache coherence: whatever getLinkForRead would serve from the cache is the
\* record the repository holds for that slug, in every state between two
\* handlers.  Every mutation works on the copy the cache returned, so a stale
\* entry would be written back and silently undo another request.
CacheCoherent ==
    \A s \in Names : by_slug[s] # Null => by_slug[s] = getBySlug(s)

\* The two maps of InMemoryMetadataRepository describe one bijection: a bound
\* slug leads to a stored link of that slug and that id, and no stored link is
\* unreachable.  update() rewrites by_id_ alone and relies on it.
IndexConsistent ==
    /\ \A s \in Names : slug_to_id[s] # Null =>
          /\ by_id[slug_to_id[s]] # Null
          /\ by_id[slug_to_id[s]].slug = s
    /\ \A i \in Ids : by_id[i] # Null =>
          /\ by_id[i].id = i
          /\ slug_to_id[by_id[i].slug] = i

\* Independent counts of the same traffic agree: the redirects counted in a
\* link's own record (written back as a whole record by every management
\* request) are the successful redirects the click repository reports for its
\* slug over all time, and every click is either buffered by the legacy queue,
\* within its capacity, or counted as dropped by a queue that is full.
CountersAgree ==
    /\ AnalyticsEnabled =>
          \A i \in Ids : by_id[i] # Null =>
              by_id[i].total_redirects
                  = aggregateStats(by_id[i].slug, 0, MaxTime + 1).successful_redirects
    /\ enqueued_total + dropped_total = Len(clicks)
    /\ enqueued_total <= QueueCapacity
    /\ dropped_total > 0 => enqueued_total = QueueCapacity

\* No management request fails half-way: the record it read is still in the
\* repository when it is stored, so the storage_failure branch of
\* LinkCommandService is never taken.  (The only 500 left is a slug generator
\* that finds no free slug.)
UpdatesNeverFail == reply.code = 500 => reply.op = "create"

\* A slug is bound for good: deletion is soft and no request frees or re-binds
\* a slug, whatever happens to the link behind it.
SlugNeverRebound ==
    [][\A s \in Names : slug_to_id[s] # Null => slug_to_id'[s] = slug_to_id[s]]_vars

\* The directory a client sees: each slug with the record of the repository.
Directory == INSTANCE LinkDirectory
    WITH links <- [s \in Names |-> getBySlug(s)], StatusOf <- resolveLinkStatus

\* The cache, the slug index, and the analytics side effects are invisible:
\* every handler is a step of the plain directory, with the same answer.
ImplementsDirectory == Directory!Spec
=============================================================================
