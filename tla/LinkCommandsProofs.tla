------------------------- MODULE LinkCommandsProofs -------------------------
(***************************************************************************)
(* Proofs about LinkCommands for every set of slugs, ids, labels, commands *)
(* and patches, and every queue capacity and bound.                        *)
(*                                                                         *)
(* CacheCoherent is not inductive on its own: a write reaches the          *)
(* repository under the id found in the cached copy, so that it touches    *)
(* the record of the same slug is a fact about the slug index.  The        *)
(* inductive invariant is TypeOK, IndexConsistent and CacheCoherent        *)
(* together.                                                               *)
(***************************************************************************)
EXTENDS LinkCommands, FiniteSetTheorems, TLAPS

\* The repository and the cache; the click log and the queue counters.
StoreOK ==
    /\ by_id \in [Ids -> Link \cup {Null}]
    /\ slug_to_id \in [Names -> Ids \cup {Null}]
    /\ by_slug \in [Names -> Link \cup {Null}]
    /\ IndexConsistent
    /\ CacheCoherent

LogOK ==
    /\ clicks \in Seq(ClickEvent)
    /\ enqueued_total \in Nat
    /\ dropped_total \in Nat

IInv == StoreOK /\ LogOK /\ now \in Time

-----------------------------------------------------------------------------
(* What a lookup returns *)

\* getLinkForRead returns the stored record of the slug, wherever it reads it,
\* and filling the cache keeps the cache a copy of the repository.
LEMMA ReadIsCurrent ==
    ASSUME StoreOK, NEW slug \in Names
    PROVE  /\ linkForRead(slug) = getBySlug(slug)
           /\ linkForRead(slug) \in Link \cup {Null}
           /\ cacheAfterRead(slug) \in [Names -> Link \cup {Null}]
           /\ \A s \in Names : cacheAfterRead(slug)[s] # Null => cacheAfterRead(slug)[s] = getBySlug(s)
  <1>1. getBySlug(slug) \in Link \cup {Null}
    BY ValuesAssumption DEF StoreOK, getBySlug
  <1>2. linkForRead(slug) = getBySlug(slug)
    BY DEF StoreOK, CacheCoherent, linkForRead
  <1>3. cacheAfterRead(slug) \in [Names -> Link \cup {Null}]
    BY <1>1 DEF StoreOK, cacheAfterRead
  <1>4. \A s \in Names : cacheAfterRead(slug)[s] # Null => cacheAfterRead(slug)[s] = getBySlug(s)
    BY DEF StoreOK, CacheCoherent, cacheAfterRead
  <1> QED BY <1>1, <1>2, <1>3, <1>4

\* A link that a read found is in the repository, under its own id and slug.
LEMMA FoundIsStored ==
    ASSUME StoreOK, NEW slug \in Names, linkForRead(slug) # Null
    PROVE  /\ linkForRead(slug) \in Link
           /\ linkForRead(slug).slug = slug
           /\ slug_to_id[slug] \in Ids
           /\ linkForRead(slug).id = slug_to_id[slug]
           /\ by_id[slug_to_id[slug]] = linkForRead(slug)
  <1>1. /\ linkForRead(slug) = getBySlug(slug)
        /\ linkForRead(slug) \in Link
    BY ReadIsCurrent
  <1>2. /\ slug_to_id[slug] # Null
        /\ slug_to_id[slug] \in Ids
        /\ by_id[slug_to_id[slug]] = linkForRead(slug)
    BY <1>1 DEF StoreOK, getBySlug
  <1>3. linkForRead(slug).slug = slug /\ linkForRead(slug).id = slug_to_id[slug]
    BY <1>2 DEF StoreOK, IndexConsistent
  <1> QED BY <1>1, <1>2, <1>3

-----------------------------------------------------------------------------
(* What the writing operators preserve *)

\* A read that only fills the cache.
LEMMA ReadThroughKeepsStore ==
    ASSUME StoreOK, NEW slug \in Names, readThrough(slug)
    PROVE  StoreOK'
  <1>1. by_slug' = cacheAfterRead(slug) /\ by_id' = by_id /\ slug_to_id' = slug_to_id
    BY DEF readThrough, repository
  <1>2. CacheCoherent'
    BY <1>1, ReadIsCurrent DEF CacheCoherent, getBySlug
  <1> QED BY <1>1, <1>2, ReadIsCurrent DEF StoreOK, IndexConsistent

\* Storing a changed copy of the link that was read: it is found, it replaces
\* the record of its own slug, and its cache entry goes.
LEMMA UpdateKeepsStore ==
    ASSUME StoreOK, NEW slug \in Names, linkForRead(slug) # Null,
           NEW link \in Link, link.id = linkForRead(slug).id, link.slug = slug,
           updateLinkAndInvalidateCache(link)
    PROVE  by_id[link.id] # Null /\ StoreOK'
  <1>1. /\ link.id \in Ids
        /\ link.id = slug_to_id[slug]
        /\ by_id[link.id] # Null
        /\ by_id[link.id].slug = slug
    BY FoundIsStored
  <1>2. /\ by_id' = [by_id EXCEPT ![link.id] = link]
        /\ by_slug' = [cacheAfterRead(slug) EXCEPT ![slug] = Null]
        /\ slug_to_id' = slug_to_id
    BY <1>1 DEF updateLinkAndInvalidateCache
  <1>3. link # Null
    BY NullAssumption
  <1>4. /\ by_id' \in [Ids -> Link \cup {Null}]
        /\ slug_to_id' \in [Names -> Ids \cup {Null}]
        /\ by_slug' \in [Names -> Link \cup {Null}]
    BY <1>1, <1>2, ReadIsCurrent DEF StoreOK
  <1>5. \A s \in Names : slug_to_id[s] # Null /\ s # slug => slug_to_id[s] # link.id
    BY <1>1 DEF StoreOK, IndexConsistent
  <1>6. IndexConsistent'
    BY <1>1, <1>2, <1>3, <1>5 DEF StoreOK, IndexConsistent
  <1>7. ASSUME NEW s \in Names, s # slug
        PROVE  getBySlug(s)' = getBySlug(s)
    <2>1. slug_to_id'[s] = slug_to_id[s]
      BY <1>2
    <2>2. slug_to_id[s] # Null => by_id'[slug_to_id[s]] = by_id[slug_to_id[s]]
      BY <1>2, <1>5, <1>7 DEF StoreOK
    <2> QED BY <2>1, <2>2 DEF getBySlug
  <1>8. CacheCoherent'
    BY <1>2, <1>7, ReadIsCurrent DEF CacheCoherent
  <1> QED BY <1>1, <1>4, <1>6, <1>8 DEF StoreOK

\* Creating a link: refused, or bound to a free slug under a free id.
LEMMA CreateKeepsStore ==
    ASSUME StoreOK, NEW link \in Link, link.id \in Ids, link.slug \in Names, create(link)
    PROVE  StoreOK'
  <1>1. CASE slug_to_id[link.slug] # Null \/ by_id[link.id] # Null
    <2>1. by_id' = by_id /\ slug_to_id' = slug_to_id /\ by_slug' = by_slug
      BY <1>1 DEF create, repository
    <2> QED BY <2>1 DEF StoreOK, IndexConsistent, CacheCoherent, getBySlug
  <1>2. CASE slug_to_id[link.slug] = Null /\ by_id[link.id] = Null
    <2>1. /\ slug_to_id' = [slug_to_id EXCEPT ![link.slug] = link.id]
          /\ by_id' = [by_id EXCEPT ![link.id] = link]
          /\ by_slug' = [by_slug EXCEPT ![link.slug] = Null]
      BY <1>2 DEF create
    <2>2. link # Null
      BY NullAssumption
    <2>3. /\ by_id' \in [Ids -> Link \cup {Null}]
          /\ slug_to_id' \in [Names -> Ids \cup {Null}]
          /\ by_slug' \in [Names -> Link \cup {Null}]
      BY <2>1 DEF StoreOK
    <2>4. \A s \in Names : slug_to_id[s] # link.id
      BY <1>2, ValuesAssumption DEF StoreOK, IndexConsistent
    <2>5. \A i \in Ids : by_id[i] # Null => by_id[i].slug # link.slug
      BY <1>2, ValuesAssumption DEF StoreOK, IndexConsistent
    <2>6. IndexConsistent'
      BY <1>2, <2>1, <2>2, <2>4, <2>5 DEF StoreOK, IndexConsistent
    <2>7. ASSUME NEW s \in Names, s # link.slug
          PROVE  getBySlug(s)' = getBySlug(s)
      <3>1. slug_to_id'[s] = slug_to_id[s]
        BY <2>1, <2>7 DEF StoreOK
      <3>2. slug_to_id[s] # Null => by_id'[slug_to_id[s]] = by_id[slug_to_id[s]]
        BY <2>1, <2>4 DEF StoreOK
      <3> QED BY <3>1, <3>2 DEF getBySlug
    <2>8. CacheCoherent'
      BY <2>1, <2>7 DEF StoreOK, CacheCoherent
    <2> QED BY <2>3, <2>6, <2>8 DEF StoreOK
  <1> QED BY <1>1, <1>2

\* A click event appends one well-formed row and counts it.
LEMMA EmitKeepsLog ==
    ASSUME LogOK, now \in Time, NEW slug \in Names, NEW id \in Ids \cup {Null},
           NEW code \in {301, 302, 404, 410}, emitClickEvent(slug, id, code)
    PROVE  LogOK'
  <1> DEFINE row == [slug |-> slug, link_id |-> id, status_code |-> code, occurred_at |-> now]
  <1>1. row \in ClickEvent
    BY DEF ClickEvent
  <1>2. CASE AnalyticsEnabled
    <2>1. clicks' = Append(clicks, row)
      BY <1>2 DEF emitClickEvent
    <2>2. clicks' \in Seq(ClickEvent)
      BY <1>1, <2>1 DEF LogOK
    <2>3. enqueued_total' \in Nat /\ dropped_total' \in Nat
      BY <1>2 DEF emitClickEvent, LogOK
    <2> QED BY <2>2, <2>3 DEF LogOK
  <1>3. CASE ~AnalyticsEnabled
    BY <1>3 DEF emitClickEvent, analytics, LogOK
  <1> QED BY <1>2, <1>3

-----------------------------------------------------------------------------
(* The copies the commands store are links, of the same id and slug *)

\* What CreateLink stores is a link under the id and the slug it was given.
LEMMA NewLinkType ==
    ASSUME now \in Time, NEW cmd \in CreateLinkCommand, cmd.labels # BadLabels,
           NEW id \in Ids, NEW slug \in Names
    PROVE  /\ newLink(cmd, id, slug) \in Link
           /\ newLink(cmd, id, slug).id = id
           /\ newLink(cmd, id, slug).slug = slug
  <1>1. /\ cmd.target_url \in Targets
        /\ cmd.labels \in Labels
        /\ cmd.expires_at \in Nat \cup {Absent}
        /\ cmd.enabled \in BOOLEAN \cup {Absent}
        /\ cmd.redirect_type \in RedirectTypes \cup {Absent}
    BY DEF CreateLinkCommand
  <1> DEFINE expires == IF cmd.expires_at # Absent THEN cmd.expires_at
                        ELSE IF DefaultExpiry # Null THEN now + DefaultExpiry ELSE Null
             enabled == IF cmd.enabled = Absent THEN TRUE ELSE cmd.enabled
             type == IF cmd.redirect_type = Absent THEN DefaultRedirectType ELSE cmd.redirect_type
  <1>2. expires \in Nat \cup {Null}
    BY <1>1, ValuesAssumption, BoundsAssumption DEF Time
  <1>3. enabled \in BOOLEAN
    BY <1>1, Zenon
  <1>4. type \in RedirectTypes
    BY <1>1, ValuesAssumption
  <1> HIDE DEF expires, enabled, type
  <1>5. newLink(cmd, id, slug) =
          [id |-> id, slug |-> slug, target_url |-> cmd.target_url,
           created_at |-> now, updated_at |-> now, expires_at |-> expires,
           deleted_at |-> Null, enabled |-> enabled, labels |-> cmd.labels,
           redirect_type |-> type, total_redirects |-> 0, redirects_24h |-> 0,
           redirects_7d |-> 0, last_accessed_at |-> Null]
    BY DEF newLink, expires, enabled, type
  <1> QED BY <1>1, <1>2, <1>3, <1>4, <1>5 DEF Link

\* What UpdateLink stores is a link of the same id and slug, whatever the patch
\* leaves out.
LEMMA PatchedType ==
    ASSUME now \in Time, NEW link \in Link, NEW patch \in UpdateLinkCommand
    PROVE  /\ patched(link, patch) \in Link
           /\ patched(link, patch).id = link.id
           /\ patched(link, patch).slug = link.slug
  <1>1. /\ patch.enabled \in BOOLEAN \cup {Absent}
        /\ patch.expires_at \in Nat \cup {Null, Absent}
        /\ patch.labels \in Labels \cup {Absent}
    BY DEF UpdateLinkCommand
  <1> DEFINE enabled == IF patch.enabled = Absent THEN link.enabled ELSE patch.enabled
             expires == IF patch.expires_at = Absent THEN link.expires_at ELSE patch.expires_at
             labels == IF patch.labels = Absent THEN link.labels ELSE patch.labels
  <1>2. enabled \in BOOLEAN /\ expires \in Nat \cup {Null} /\ labels \in Labels
    BY <1>1 DEF Link
  <1> DEFINE copy == [link EXCEPT !.enabled = enabled, !.expires_at = expires]
  <1>3. patched(link, patch) = [copy EXCEPT !.labels = labels, !.updated_at = now]
    BY DEF patched
  <1> HIDE DEF enabled, expires, labels
  <1>4. copy \in Link /\ copy.id = link.id /\ copy.slug = link.slug
    BY <1>2, Zenon DEF Link
  <1> HIDE DEF copy
  <1>5. /\ [copy EXCEPT !.labels = labels, !.updated_at = now] \in Link
        /\ [copy EXCEPT !.labels = labels, !.updated_at = now].id = copy.id
        /\ [copy EXCEPT !.labels = labels, !.updated_at = now].slug = copy.slug
    BY <1>2, <1>4, Zenon DEF Link
  <1> QED BY <1>3, <1>4, <1>5

\* What DeleteLink, RestoreLink and SetLinkEnabled store is a link of the same
\* id and slug.
LEMMA StampedType ==
    ASSUME now \in Time, NEW link \in Link, NEW enabled \in BOOLEAN, NEW deleted \in Time \cup {Null}
    PROVE  /\ [link EXCEPT !.deleted_at = deleted, !.updated_at = now] \in Link
           /\ [link EXCEPT !.deleted_at = deleted, !.updated_at = now].id = link.id
           /\ [link EXCEPT !.deleted_at = deleted, !.updated_at = now].slug = link.slug
           /\ [link EXCEPT !.enabled = enabled, !.updated_at = now] \in Link
           /\ [link EXCEPT !.enabled = enabled, !.updated_at = now].id = link.id
           /\ [link EXCEPT !.enabled = enabled, !.updated_at = now].slug = link.slug
  BY Zenon DEF Link

\* What a redirect stores is a link of the same id and slug, with its counters
\* advanced.
LEMMA CountedType ==
    ASSUME now \in Time, NEW link \in Link
    PROVE  LET counted == [link EXCEPT !.total_redirects = @ + 1, !.redirects_24h = @ + 1,
                                       !.redirects_7d = @ + 1, !.last_accessed_at = now]
           IN  counted \in Link /\ counted.id = link.id /\ counted.slug = link.slug
  <1>1. /\ link.total_redirects + 1 \in Nat
        /\ link.redirects_24h + 1 \in Nat
        /\ link.redirects_7d + 1 \in Nat
    BY DEF Link
  <1> QED BY <1>1, Zenon DEF Link

-----------------------------------------------------------------------------
(* The inductive invariant *)

\* An empty repository and an empty cache satisfy the invariant.
LEMMA InitEstablishes == Init => IInv
  <1> SUFFICES ASSUME Init PROVE IInv
    OBVIOUS
  <1>1. StoreOK
    BY DEF Init, StoreOK, IndexConsistent, CacheCoherent
  <1>2. LogOK /\ now \in Time
    BY BoundsAssumption DEF Init, LogOK, Time
  <1> QED BY <1>1, <1>2 DEF IInv

\* The tail of every command: the copy is stored and nothing else changes.
LEMMA PersistKeeps ==
    ASSUME IInv, NEW slug \in Names, linkForRead(slug) # Null, NEW op,
           NEW link \in Link, link.id = linkForRead(slug).id, link.slug = linkForRead(slug).slug,
           Persist(op, link)
    PROVE  IInv' /\ reply'.code = 200
  <1>1. link.slug = slug
    BY FoundIsStored DEF IInv
  <1>2. by_id[link.id] # Null /\ StoreOK'
    BY <1>1, UpdateKeepsStore DEF IInv, Persist
  <1>3. reply'.code = 200
    BY <1>2 DEF Persist, Answer
  <1>4. LogOK' /\ (now \in Time)'
    BY DEF IInv, Persist, analytics, LogOK, Time
  <1> QED BY <1>2, <1>3, <1>4 DEF IInv

\* Every command that changes a link it found: it ends in PersistKeeps with a
\* copy of the same id and slug.
LEMMA CommandKeeps ==
    ASSUME IInv, NEW slug \in Names,
           \/ \E patch \in Patches : UpdateLink(slug, patch)
           \/ DeleteLink(slug)
           \/ \E enabled \in BOOLEAN : SetLinkEnabled(slug, enabled)
           \/ RestoreLink(slug)
    PROVE  IInv' /\ reply'.code = 200
  <1> DEFINE link == linkForRead(slug)
             Goal == IInv' /\ reply'.code = 200
  <1>1. now \in Time /\ link # Null
    BY Zenon DEF IInv, UpdateLink, DeleteLink, SetLinkEnabled, RestoreLink
  <1>2. link \in Link
    BY <1>1, FoundIsStored DEF IInv
  <1>3. ASSUME NEW op, NEW copy \in Link, copy.id = link.id, copy.slug = link.slug,
               Persist(op, copy)
        PROVE  Goal
    BY <1>1, <1>3, PersistKeeps
  <1> HIDE DEF link, Goal
  <1>4. ASSUME NEW patch \in Patches, UpdateLink(slug, patch) PROVE Goal
    <2>1. patch \in UpdateLinkCommand
      BY InputsAssumption
    <2>2. Persist("patch", patched(link, patch))
      BY <1>4 DEF UpdateLink, link
    <2> QED BY <1>1, <1>2, <1>3, <2>1, <2>2, PatchedType
  <1>5. ASSUME NEW t \in Time \cup {Null}, NEW op,
               Persist(op, [link EXCEPT !.deleted_at = t, !.updated_at = now])
        PROVE  Goal
    <2> DEFINE copy == [link EXCEPT !.deleted_at = t, !.updated_at = now]
    <2>1. copy \in Link /\ copy.id = link.id /\ copy.slug = link.slug
      BY <1>1, <1>2, StampedType, Zenon
    <2> HIDE DEF copy
    <2>2. Persist(op, copy)
      BY <1>5 DEF copy
    <2> QED BY <1>3, <2>1, <2>2
  <1>6. ASSUME DeleteLink(slug) \/ RestoreLink(slug) PROVE Goal
    BY <1>1, <1>5, <1>6, Zenon DEF DeleteLink, RestoreLink, link
  <1>7. ASSUME NEW enabled \in BOOLEAN, SetLinkEnabled(slug, enabled) PROVE Goal
    <2> DEFINE copy == [link EXCEPT !.enabled = enabled, !.updated_at = now]
    <2>1. copy \in Link /\ copy.id = link.id /\ copy.slug = link.slug
      BY <1>1, <1>2, StampedType, Zenon
    <2>2. Persist("set_enabled", copy)
      BY <1>7, Zenon DEF SetLinkEnabled, link
    <2> HIDE DEF copy
    <2> QED BY <1>3, <2>1, <2>2
  <1> QED BY <1>4, <1>6, <1>7 DEF Goal

\* Every request handler and the clock preserve the invariant.
LEMMA StepPreserves == IInv /\ [Next]_vars => IInv'
  <1> SUFFICES ASSUME IInv, [Next]_vars PROVE IInv'
    OBVIOUS
  <1>1. StoreOK /\ LogOK /\ now \in Time
    BY DEF IInv
  <1>2. ASSUME NEW cmd \in CreateCommands, CreateLink(cmd) PROVE IInv'
    <2>1. LogOK' /\ (now \in Time)'
      BY <1>1, <1>2 DEF CreateLink, analytics, LogOK, Time
    <2>2. cmd \in CreateLinkCommand
      BY InputsAssumption
    <2>3. PICK choice \in chooseSlug(cmd.slug) :
            \/ UNCHANGED <<repository, by_slug>>
            \/ /\ choice.code = 201 /\ cmd.labels # BadLabels
               /\ \E id \in Ids : create(newLink(cmd, id, choice.slug))
      BY <1>2 DEF CreateLink
    <2>4. choice.slug \in Names
      BY <2>2, NamesAssumption DEF chooseSlug, CreateLinkCommand
    <2>5. StoreOK'
      <3>1. CASE UNCHANGED <<repository, by_slug>>
        BY <1>1, <3>1 DEF repository, StoreOK, IndexConsistent, CacheCoherent, getBySlug
      <3>2. CASE cmd.labels # BadLabels /\ \E id \in Ids : create(newLink(cmd, id, choice.slug))
        BY <1>1, <2>2, <2>4, <3>2, NewLinkType, CreateKeepsStore
      <3> QED BY <2>3, <3>1, <3>2
    <2> QED BY <2>1, <2>5 DEF IInv
  <1>3. ASSUME UNCHANGED <<repository, by_slug, analytics>>, now' \in Time PROVE IInv'
    BY <1>1, <1>3 DEF IInv, repository, analytics, StoreOK, LogOK, IndexConsistent,
                      CacheCoherent, getBySlug
  <1>4. ASSUME NEW slug \in Names, readThrough(slug), UNCHANGED <<analytics, now>> PROVE IInv'
    <2>1. StoreOK'
      BY <1>1, <1>4, ReadThroughKeepsStore
    <2> QED BY <1>1, <1>4, <2>1 DEF IInv, analytics, LogOK, Time
  <1>5. CASE CreateMalformed
    BY <1>1, <1>3, <1>5 DEF CreateMalformed
  <1>6. ASSUME NEW slug \in Names, NEW op, NotFound(op, slug) PROVE IInv'
    BY <1>4, <1>6 DEF NotFound
  <1>7. ASSUME NEW slug \in Names, NEW patch \in Patches, UpdateLink(slug, patch) PROVE IInv'
    BY <1>7, CommandKeeps
  <1>8. ASSUME NEW slug \in Names, PatchMalformed(slug) PROVE IInv'
    BY <1>4, <1>8 DEF PatchMalformed
  <1>9. ASSUME NEW slug \in Names, DeleteLink(slug) PROVE IInv'
    BY <1>9, CommandKeeps
  <1>10. ASSUME NEW slug \in Names, NEW enabled \in BOOLEAN, SetLinkEnabled(slug, enabled) PROVE IInv'
    BY <1>10, CommandKeeps
  <1>11. ASSUME NEW slug \in Names, RestoreLink(slug) PROVE IInv'
    BY <1>11, CommandKeeps
  <1>12. ASSUME NEW slug \in Names, GetLink(slug) PROVE IInv'
    BY <1>4, <1>12 DEF GetLink
  <1>13. ASSUME NEW slug \in Names, NEW w \in StatsWindows, GetLinkStats(slug, w[1], w[2]) PROVE IInv'
    BY <1>1, <1>3, <1>13 DEF GetLinkStats
  <1>14. ASSUME NEW slug \in Names, RedirectInvalidSlug(slug) PROVE IInv'
    <2>1. LogOK' /\ (now \in Time)'
      BY <1>1, <1>14, EmitKeepsLog DEF RedirectInvalidSlug, Time
    <2>2. StoreOK'
      BY <1>1, <1>14 DEF RedirectInvalidSlug, repository, StoreOK, IndexConsistent,
                         CacheCoherent, getBySlug
    <2> QED BY <2>1, <2>2 DEF IInv
  <1>15. ASSUME NEW slug \in Names, RedirectRefused(slug) PROVE IInv'
    <2> DEFINE link == linkForRead(slug)
               id == IF link = Null THEN Null ELSE link.id
    <2>1. id \in Ids \cup {Null}
      BY <1>1, FoundIsStored
    <2>2. PICK code \in {404, 410} : emitClickEvent(slug, id, code)
      BY <1>15 DEF RedirectRefused
    <2>3. LogOK'
      BY <1>1, <2>1, <2>2, EmitKeepsLog
    <2>4. StoreOK'
      BY <1>1, <1>15, ReadThroughKeepsStore DEF RedirectRefused
    <2>5. (now \in Time)'
      BY <1>1, <1>15 DEF RedirectRefused, Time
    <2> QED BY <2>3, <2>4, <2>5 DEF IInv
  <1>16. ASSUME NEW slug \in Names, RedirectServed(slug) PROVE IInv'
    <2> DEFINE link == linkForRead(slug)
               counted == [link EXCEPT !.total_redirects = @ + 1, !.redirects_24h = @ + 1,
                                       !.redirects_7d = @ + 1, !.last_accessed_at = now]
    <2>1. link # Null
      BY <1>16 DEF RedirectServed, isActive
    <2>2. link \in Link /\ link.slug = slug /\ link.id \in Ids
      BY <1>1, <2>1, FoundIsStored
    <2>3. counted \in Link /\ counted.id = link.id /\ counted.slug = slug
      BY <1>1, <2>2, CountedType, Zenon
    <2>4. updateLinkAndInvalidateCache(counted)
      BY <1>16 DEF RedirectServed, incrementRedirectStats
    <2>5. StoreOK'
      <3> HIDE DEF counted
      <3> QED BY <1>1, <2>1, <2>3, <2>4, UpdateKeepsStore
    <2>6. redirectStatusFor(link) \in {301, 302}
      BY DEF redirectStatusFor
    <2>7. emitClickEvent(slug, link.id, redirectStatusFor(link)) /\ now' = now
      BY <1>16 DEF RedirectServed
    <2>8. LogOK'
      BY <1>1, <2>2, <2>6, <2>7, EmitKeepsLog
    <2> QED BY <1>1, <2>5, <2>7, <2>8 DEF IInv, Time
  <1>17. ASSUME NEW id \in Ids, GetLinkById(id) PROVE IInv'
    BY <1>1, <1>3, <1>17 DEF GetLinkById
  <1>18. CASE Tick
    <2>1. now' \in Time
      BY <1>1, <1>18, BoundsAssumption DEF Tick, Time
    <2> QED BY <1>3, <1>18, <2>1 DEF Tick
  <1>19. CASE UNCHANGED vars
    BY <1>1, <1>3, <1>19 DEF vars, repository, analytics
  <1> QED
    BY <1>2, <1>5, <1>6, <1>7, <1>8, <1>9, <1>10, <1>11, <1>12, <1>13, <1>14, <1>15, <1>16,
       <1>17, <1>18, <1>19, Zenon DEF Next

-----------------------------------------------------------------------------
(* LinkCommands implements LinkDirectory *)

\* The directory the repository stands for.
Links == [s \in Names |-> getBySlug(s)]

\* Only slugs the redirect handlers look up are bound.
BoundIsValid == \A s \in Names : slug_to_id[s] # Null => s \in ValidSlugs

\* Handlers that leave the repository alone leave the directory alone.
LEMMA DirectoryStays == UNCHANGED repository => Links' = Links
  BY DEF Links, getBySlug, repository

\* Reads see the directory.
LEMMA ReadsDirectory ==
    ASSUME StoreOK, NEW slug \in Names
    PROVE  Links[slug] = linkForRead(slug)
  BY ReadIsCurrent DEF Links

\* Storing a changed copy of a link that was read changes its entry of the directory.
LEMMA DirectoryUpdated ==
    ASSUME StoreOK, NEW slug \in Names, linkForRead(slug) # Null,
           NEW link \in Link, link.id = linkForRead(slug).id, link.slug = slug,
           updateLinkAndInvalidateCache(link)
    PROVE  Links' = [Links EXCEPT ![slug] = link]
  <1>1. /\ link.id \in Ids /\ link.id = slug_to_id[slug] /\ by_id[link.id] # Null
        /\ by_id[link.id].slug = slug
    BY FoundIsStored
  <1>2. by_id' = [by_id EXCEPT ![link.id] = link] /\ slug_to_id' = slug_to_id
    BY <1>1 DEF updateLinkAndInvalidateCache
  <1>3. \A s \in Names : slug_to_id[s] # Null /\ s # slug => slug_to_id[s] # link.id
    BY <1>1 DEF StoreOK, IndexConsistent
  <1>4. getBySlug(slug)' = link
    <2>1. slug_to_id'[slug] = link.id /\ link.id # Null
      BY <1>1, <1>2, ValuesAssumption
    <2>2. by_id'[link.id] = link
      BY <1>1, <1>2 DEF StoreOK
    <2> QED BY <2>1, <2>2 DEF getBySlug
  <1>5. ASSUME NEW s \in Names, s # slug PROVE getBySlug(s)' = getBySlug(s)
    <2>1. slug_to_id[s] # Null => by_id'[slug_to_id[s]] = by_id[slug_to_id[s]]
      BY <1>2, <1>3, <1>5 DEF StoreOK
    <2> QED BY <1>2, <2>1 DEF getBySlug
  <1> QED BY <1>4, <1>5, Zenon DEF Links

\* A creation that succeeds binds a free slug, under an id no entry has.
LEMMA DirectoryExtended ==
    ASSUME StoreOK, NEW link \in Link, slug_to_id[link.slug] = Null, by_id[link.id] = Null,
           create(link)
    PROVE  /\ Links[link.slug] = Null
           /\ \A t \in Names : Links[t] # Null => Links[t].id # link.id
           /\ Links' = [Links EXCEPT ![link.slug] = link]
  <1>1. link.slug \in Names /\ link.id \in Ids
    BY DEF Link
  <1>2. /\ slug_to_id' = [slug_to_id EXCEPT ![link.slug] = link.id]
        /\ by_id' = [by_id EXCEPT ![link.id] = link]
    BY DEF create
  <1>3. Links[link.slug] = Null
    BY <1>1 DEF Links, getBySlug
  <1>4. \A t \in Names : slug_to_id[t] # link.id
    BY <1>1, ValuesAssumption DEF StoreOK, IndexConsistent
  <1>5. ASSUME NEW t \in Names, Links[t] # Null PROVE Links[t].id # link.id
    <2>1. Links[t] = by_id[slug_to_id[t]] /\ slug_to_id[t] \in Ids
      BY <1>5 DEF Links, getBySlug, StoreOK
    <2> QED BY <1>4, <1>5, <2>1 DEF StoreOK, IndexConsistent
  <1>6. getBySlug(link.slug)' = link
    <2>1. slug_to_id'[link.slug] = link.id /\ link.id # Null /\ by_id'[link.id] = link
      BY <1>1, <1>2, ValuesAssumption DEF StoreOK
    <2> QED BY <2>1 DEF getBySlug
  <1>7. ASSUME NEW t \in Names, t # link.slug PROVE getBySlug(t)' = getBySlug(t)
    <2>1. slug_to_id'[t] = slug_to_id[t]
      BY <1>2, <1>7 DEF StoreOK
    <2>2. slug_to_id[t] # Null => by_id'[slug_to_id[t]] = by_id[slug_to_id[t]]
      BY <1>2, <1>4 DEF StoreOK
    <2> QED BY <2>1, <2>2 DEF getBySlug
  <1>8. Links' = [Links EXCEPT ![link.slug] = link]
    BY <1>6, <1>7, ZenonT(30) DEF Links
  <1> QED BY <1>3, <1>5, <1>8

\* A new link has no traffic and carries the time of its creation.
LEMMA NewLinkIsFresh ==
    ASSUME NEW cmd, NEW id, NEW slug
    PROVE  LET l == newLink(cmd, id, slug)
           IN  /\ l.slug = slug /\ l.id = id /\ l.created_at = now /\ l.updated_at = now
               /\ l.deleted_at = Null /\ l.total_redirects = 0
  BY DEF newLink

\* What a copy must keep of the link it was made from.
KeepsTheRest(copy, link) ==
    /\ copy.id = link.id /\ copy.slug = link.slug /\ copy.target_url = link.target_url
    /\ copy.created_at = link.created_at /\ copy.redirect_type = link.redirect_type
    /\ copy.total_redirects = link.total_redirects /\ copy.redirects_24h = link.redirects_24h
    /\ copy.redirects_7d = link.redirects_7d /\ copy.last_accessed_at = link.last_accessed_at
    /\ copy.updated_at = now

\* Commands change neither the identity of a link nor its traffic.
LEMMA CopiesKeepTheRest ==
    ASSUME NEW link \in Link, NEW patch, NEW deleted, NEW enabled
    PROVE  /\ KeepsTheRest(patched(link, patch), link)
           /\ patched(link, patch).deleted_at = link.deleted_at
           /\ KeepsTheRest([link EXCEPT !.deleted_at = deleted, !.updated_at = now], link)
           /\ [link EXCEPT !.deleted_at = deleted, !.updated_at = now].deleted_at = deleted
           /\ KeepsTheRest([link EXCEPT !.enabled = enabled, !.updated_at = now], link)
           /\ [link EXCEPT !.enabled = enabled, !.updated_at = now].deleted_at = link.deleted_at
  BY ZenonT(30) DEF KeepsTheRest, patched, Link

\* Every command that changes a link it found amends the directory.
LEMMA CommandAmends ==
    ASSUME IInv, NEW slug \in Names, linkForRead(slug) # Null,
           NEW op \in {"patch", "delete", "set_enabled", "restore"}, NEW copy \in Link,
           KeepsTheRest(copy, linkForRead(slug)), Persist(op, copy),
           op # "delete" => copy.deleted_at \in {linkForRead(slug).deleted_at, Null},
           copy.deleted_at = Null /\ linkForRead(slug).deleted_at # Null => op = "restore"
    PROVE  Directory!Next
  <1>1. StoreOK /\ Links[slug] = linkForRead(slug)
    BY ReadsDirectory DEF IInv
  <1>2. copy.slug = slug /\ copy.id = linkForRead(slug).id /\ by_id[copy.id] # Null /\ copy # Null
    BY <1>1, FoundIsStored, NullAssumption DEF KeepsTheRest
  <1>3. Links' = [Links EXCEPT ![slug] = copy]
    BY <1>1, <1>2, DirectoryUpdated DEF Persist
  <1>4. Links'[slug] = copy
    BY <1>3 DEF Links
  <1>5. /\ reply' = [op |-> op, slug |-> slug, code |-> 200, view |-> copy]
        /\ reply'.op = op /\ now' = now
    BY <1>2 DEF Persist, Answer
  <1>6. Directory!Amend(slug, Links'[slug], reply'.op)
    BY <1>1, <1>2, <1>3, <1>4, <1>5, ZenonT(30) DEF Directory!Amend, Directory!Identity, Directory!Traffic,
       KeepsTheRest, Links
  <1> QED BY <1>6 DEF Directory!Next, Links

\* UpdateLink, DeleteLink, SetLinkEnabled and RestoreLink amend the directory.
LEMMA CommandsAmend ==
    ASSUME IInv, NEW slug \in Names,
           \/ \E patch \in Patches : UpdateLink(slug, patch)
           \/ DeleteLink(slug)
           \/ \E enabled \in BOOLEAN : SetLinkEnabled(slug, enabled)
           \/ RestoreLink(slug)
    PROVE  Directory!Next
  <1> DEFINE link == linkForRead(slug)
  <1>1. now \in Time /\ link # Null
    BY Zenon DEF IInv, UpdateLink, DeleteLink, SetLinkEnabled, RestoreLink
  <1>2. link \in Link
    BY <1>1, FoundIsStored DEF IInv
  <1>3. ASSUME NEW op \in {"patch", "delete", "set_enabled", "restore"}, NEW copy \in Link,
               KeepsTheRest(copy, link), Persist(op, copy),
               op # "delete" => copy.deleted_at \in {link.deleted_at, Null},
               copy.deleted_at = Null /\ link.deleted_at # Null => op = "restore"
        PROVE  Directory!Next
    BY <1>1, <1>3, CommandAmends
  <1> HIDE DEF link
  <1>4. ASSUME NEW patch \in Patches, UpdateLink(slug, patch) PROVE Directory!Next
    <2> DEFINE copy == patched(link, patch)
    <2>1. copy \in Link /\ KeepsTheRest(copy, link) /\ copy.deleted_at = link.deleted_at
      BY <1>1, <1>2, PatchedType, CopiesKeepTheRest, InputsAssumption, Zenon
    <2>2. Persist("patch", copy)
      BY <1>4 DEF UpdateLink, link
    <2> HIDE DEF copy
    <2> QED BY <1>3, <2>1, <2>2
  <1>5. ASSUME DeleteLink(slug) PROVE Directory!Next
    <2> DEFINE copy == [link EXCEPT !.deleted_at = now, !.updated_at = now]
    <2>1. copy \in Link
      BY <1>1, <1>2, StampedType, Zenon
    <2>2. KeepsTheRest(copy, link) /\ copy.deleted_at = now
      BY <1>2, CopiesKeepTheRest, Zenon
    <2>3. Persist("delete", copy)
      BY <1>5 DEF DeleteLink, link
    <2>4. now # Null
      BY <1>1, ValuesAssumption DEF Time
    <2> HIDE DEF copy
    <2> QED BY <1>3, <2>1, <2>2, <2>3, <2>4
  <1>6. ASSUME RestoreLink(slug) PROVE Directory!Next
    <2> DEFINE copy == [link EXCEPT !.deleted_at = Null, !.updated_at = now]
    <2>1. copy \in Link
      BY <1>1, <1>2, StampedType, Zenon
    <2>2. KeepsTheRest(copy, link) /\ copy.deleted_at = Null
      BY <1>2, CopiesKeepTheRest, Zenon
    <2>3. Persist("restore", copy)
      BY <1>6 DEF RestoreLink, link
    <2> HIDE DEF copy
    <2> QED BY <1>3, <2>1, <2>2, <2>3
  <1>7. ASSUME NEW enabled \in BOOLEAN, SetLinkEnabled(slug, enabled) PROVE Directory!Next
    <2> DEFINE copy == [link EXCEPT !.enabled = enabled, !.updated_at = now]
    <2>1. copy \in Link
      BY <1>1, <1>2, StampedType, Zenon
    <2>2. KeepsTheRest(copy, link) /\ copy.deleted_at = link.deleted_at
      BY <1>2, CopiesKeepTheRest, ZenonT(30)
    <2>3. Persist("set_enabled", copy)
      BY <1>7, Zenon DEF SetLinkEnabled, link
    <2> HIDE DEF copy
    <2> QED BY <1>3, <2>1, <2>2, <2>3
  <1> QED BY <1>4, <1>5, <1>6, <1>7, ZenonT(30)

\* What chooseSlug returns is a slug requests can carry; with 201, one that is
\* free and that the redirect handlers will look up.
LEMMA ChosenSlug ==
    ASSUME NEW cmd \in CreateLinkCommand, NEW choice \in chooseSlug(cmd.slug)
    PROVE  /\ choice.slug \in Names /\ choice.code \in {201, 400, 409, 500}
           /\ choice.code = 201 => slug_to_id[choice.slug] = Null /\ choice.slug \in ValidSlugs
  <1>1. cmd.slug \in Names \cup {Absent}
    BY DEF CreateLinkCommand
  <1>2. CASE cmd.slug # Absent
    BY <1>1, <1>2, NamesAssumption DEF chooseSlug
  <1>3. CASE cmd.slug = Absent
    BY <1>3, NamesAssumption, LengthAssumption, SMTT(30) DEF chooseSlug
  <1> QED BY <1>2, <1>3

\* A create request is refused, or it creates in the directory.
LEMMA CreateCreates ==
    ASSUME IInv, BoundIsValid, NEW cmd \in CreateCommands, CreateLink(cmd)
    PROVE  Directory!Next /\ BoundIsValid'
  <1>1. cmd \in CreateLinkCommand /\ StoreOK /\ now \in Time /\ now' = now
    BY InputsAssumption DEF IInv, CreateLink
  <1>2. ASSUME NEW code \in {400, 409, 500}, Answer("create", Null, code, Null), UNCHANGED repository
        PROVE  Directory!Next /\ BoundIsValid'
    <2>1. Links' = Links
      BY <1>2, DirectoryStays
    <2>2. /\ reply' = [op |-> "create", slug |-> Null, code |-> code, view |-> Null]
          /\ reply'.op = "create" /\ reply'.code = code /\ reply'.slug = Null /\ reply'.view = Null
      BY <1>2 DEF Answer
    <2>3. Directory!Answer(reply'.slug, reply'.op, reply'.code, reply'.view)
      BY <1>1, <2>1, <2>2 DEF Directory!Answer, Links
    <2>4. BoundIsValid'
      BY <1>2 DEF BoundIsValid, repository
    <2> QED BY <2>3, <2>4 DEF Directory!Next
  <1>3. PICK choice \in chooseSlug(cmd.slug) :
          \/ /\ choice.code # 201
             /\ Answer("create", Null, choice.code, Null)
             /\ UNCHANGED <<repository, by_slug>>
          \/ /\ choice.code = 201 /\ cmd.labels = BadLabels
             /\ Answer("create", Null, 400, Null)
             /\ UNCHANGED <<repository, by_slug>>
          \/ /\ choice.code = 201 /\ cmd.labels # BadLabels
             /\ \E id \in Ids : create(newLink(cmd, id, choice.slug))
    BY DEF CreateLink
  <1>4. /\ choice.slug \in Names /\ choice.code \in {201, 400, 409, 500}
        /\ choice.code = 201 => slug_to_id[choice.slug] = Null /\ choice.slug \in ValidSlugs
    BY <1>1, ChosenSlug
  <1>5. ASSUME choice.code = 201, cmd.labels # BadLabels, NEW id \in Ids,
               create(newLink(cmd, id, choice.slug))
        PROVE  Directory!Next /\ BoundIsValid'
    <2> DEFINE l == newLink(cmd, id, choice.slug)
    <2>1. l \in Link /\ l.slug = choice.slug /\ l.id = id
      BY <1>1, <1>4, <1>5, NewLinkType
    <2>2. /\ l.created_at = now /\ l.updated_at = now /\ l.deleted_at = Null
          /\ l.total_redirects = 0
      BY NewLinkIsFresh
    <2>3. create(l)
      BY <1>5
    <2> HIDE DEF l
    <2>4. CASE by_id[id] # Null
      <3>1. Answer("create", Null, 409, Null) /\ UNCHANGED repository
        BY <2>1, <2>3, <2>4, ZenonT(30) DEF create
      <3> QED BY <1>2, <3>1
    <2>5. CASE by_id[id] = Null
      <3>1. /\ Links[choice.slug] = Null
            /\ \A t \in Names : Links[t] # Null => Links[t].id # l.id
            /\ Links' = [Links EXCEPT ![choice.slug] = l]
        BY <1>1, <1>4, <1>5, <2>1, <2>3, <2>5, DirectoryExtended, SMTT(30)
      <3>2. Links'[choice.slug] = l /\ l # Null
        BY <1>4, <2>1, <3>1, NullAssumption DEF Links
      <3>3. /\ reply' = [op |-> "create", slug |-> choice.slug, code |-> 201, view |-> l]
            /\ slug_to_id' = [slug_to_id EXCEPT ![choice.slug] = id]
        BY <1>4, <1>5, <2>1, <2>3, <2>5, ZenonT(30) DEF create, Answer
      <3>4. Directory!Create(choice.slug, Links'[choice.slug])
        BY <1>1, <2>1, <2>2, <3>1, <3>2, <3>3, Zenon DEF Directory!Create, Links
      <3>5. BoundIsValid'
        BY <1>1, <1>4, <1>5, <3>3 DEF BoundIsValid, StoreOK
      <3> QED BY <1>4, <3>4, <3>5 DEF Directory!Next, Links
    <2> QED BY <2>4, <2>5
  <1> QED BY <1>2, <1>3, <1>4, <1>5

\* No handler but CreateLink writes slug_to_id_.
LEMMA OnlyCreateBinds ==
    ASSUME [Next]_vars, ~ \E cmd \in CreateCommands : CreateLink(cmd)
    PROVE  slug_to_id' = slug_to_id
  <1>1. ASSUME NEW link, updateLinkAndInvalidateCache(link) PROVE slug_to_id' = slug_to_id
    BY <1>1 DEF updateLinkAndInvalidateCache
  <1>2. ASSUME NEW slug, RedirectServed(slug) PROVE slug_to_id' = slug_to_id
    BY <1>1, <1>2 DEF RedirectServed, incrementRedirectStats
  <1>3. ASSUME NEW op, NEW link, Persist(op, link) PROVE slug_to_id' = slug_to_id
    BY <1>1, <1>3 DEF Persist
  <1>4. ASSUME NEW slug, NEW patch, NEW enabled,
               \/ UpdateLink(slug, patch) \/ DeleteLink(slug)
               \/ SetLinkEnabled(slug, enabled) \/ RestoreLink(slug)
        PROVE  slug_to_id' = slug_to_id
    BY <1>3, <1>4 DEF UpdateLink, DeleteLink, SetLinkEnabled, RestoreLink
  <1>5. ASSUME NEW slug, NEW op, NEW from, NEW to, NEW id,
               \/ CreateMalformed \/ NotFound(op, slug) \/ PatchMalformed(slug)
               \/ GetLink(slug) \/ GetLinkById(id) \/ GetLinkStats(slug, from, to)
               \/ RedirectInvalidSlug(slug) \/ RedirectRefused(slug) \/ Tick
        PROVE  slug_to_id' = slug_to_id
    BY <1>5 DEF CreateMalformed, NotFound, PatchMalformed, GetLink, GetLinkById, GetLinkStats,
                RedirectInvalidSlug, RedirectRefused, Tick, readThrough, repository
  <1> QED BY <1>2, <1>4, <1>5 DEF Next, vars

\* A handler that changes nothing but the cache and the analytics answers from
\* the directory.
LEMMA AnswersFromDirectory ==
    ASSUME NEW op, NEW slug, NEW code, NEW view, Answer(op, slug, code, view),
           UNCHANGED repository, now' = now, code \notin {201, 301, 302},
           op \in {"get", "get_by_id"} /\ code = 200 =>
               \E t \in Names : view = Links[t] /\ view # Null,
           op = "get" /\ code = 200 => view = Links[slug],
           op = "redirect" /\ code = 404 =>
               Links[slug] = Null \/ resolveLinkStatus(Links[slug], now) = "deleted",
           op = "redirect" /\ code = 410 =>
               Links[slug] # Null /\ resolveLinkStatus(Links[slug], now) \in {"disabled", "expired"}
    PROVE  Directory!Next
  <1>1. Links' = Links
    BY DirectoryStays
  <1>2. /\ reply' = [op |-> op, slug |-> slug, code |-> code, view |-> view]
        /\ reply'.op = op /\ reply'.code = code /\ reply'.slug = slug /\ reply'.view = view
    BY DEF Answer
  <1>3. Directory!Answer(reply'.slug, reply'.op, reply'.code, reply'.view)
    BY <1>1, <1>2 DEF Directory!Answer, Links
  <1> QED BY <1>3 DEF Directory!Next

\* Lookups, refusals and statistics only answer.
LEMMA ReadsAnswer ==
    ASSUME IInv, NEW slug \in Names,
           \/ \E op \in {"patch", "delete", "set_enabled", "restore", "get"} : NotFound(op, slug)
           \/ PatchMalformed(slug)
           \/ GetLink(slug)
           \/ \E w \in StatsWindows : GetLinkStats(slug, w[1], w[2])
    PROVE  Directory!Next
  <1>1. Links[slug] = linkForRead(slug)
    BY ReadsDirectory DEF IInv
  <1>2. ASSUME NEW op \in {"patch", "delete", "set_enabled", "restore", "get"}, NotFound(op, slug)
        PROVE  Directory!Next
    <2>1. Answer(op, slug, 404, Null) /\ UNCHANGED repository /\ now' = now
      BY <1>2 DEF NotFound, readThrough
    <2> QED BY <2>1, AnswersFromDirectory
  <1>3. ASSUME PatchMalformed(slug) PROVE Directory!Next
    <2>1. Answer("patch", slug, 400, Null) /\ UNCHANGED repository /\ now' = now
      BY <1>3 DEF PatchMalformed, readThrough
    <2> QED BY <2>1, AnswersFromDirectory
  <1>4. ASSUME GetLink(slug) PROVE Directory!Next
    <2>1. linkForRead(slug) # Null /\ UNCHANGED repository /\ now' = now
      BY <1>4 DEF GetLink, readThrough
    <2>2. Answer("get", slug, 200, linkForRead(slug)) \/ Answer("get", slug, 501, Null)
      BY <1>4 DEF GetLink
    <2>3. CASE Answer("get", slug, 200, linkForRead(slug))
      BY <1>1, <2>1, <2>3, AnswersFromDirectory
    <2>4. CASE Answer("get", slug, 501, Null)
      BY <2>1, <2>4, AnswersFromDirectory
    <2> QED BY <2>2, <2>3, <2>4
  <1>5. ASSUME NEW w \in StatsWindows, GetLinkStats(slug, w[1], w[2]) PROVE Directory!Next
    <2>1. \E view : Answer("stats", slug, 400, view) \/ Answer("stats", slug, 200, view)
      BY <1>5 DEF GetLinkStats
    <2>2. UNCHANGED repository /\ now' = now
      BY <1>5 DEF GetLinkStats
    <2> QED BY <2>1, <2>2, AnswersFromDirectory
  <1> QED BY <1>2, <1>3, <1>4, <1>5, Zenon

\* A lookup by id shows a link that its slug leads to.
LEMMA ByIdAnswers ==
    ASSUME IInv, NEW id \in Ids, GetLinkById(id)
    PROVE  Directory!Next
  <1>1. UNCHANGED repository /\ now' = now
    BY ZenonT(30) DEF GetLinkById
  <1>2. CASE by_id[id] = Null
    <2>1. Answer("get_by_id", Null, 404, Null)
      BY <1>2 DEF GetLinkById
    <2> QED BY <1>1, <2>1, AnswersFromDirectory
  <1>3. CASE by_id[id] # Null
    <2>1. Answer("get_by_id", Null, 200, by_id[id])
      BY <1>3, Zenon DEF GetLinkById
    <2>2. by_id[id].slug \in Names /\ slug_to_id[by_id[id].slug] = id
      BY <1>3 DEF IInv, StoreOK, IndexConsistent, Link
    <2>3. Links[by_id[id].slug] = by_id[id]
      BY <2>2, ValuesAssumption DEF Links, getBySlug
    <2> QED BY <1>1, <1>3, <2>1, <2>2, <2>3, AnswersFromDirectory
  <1> QED BY <1>2, <1>3

\* A redirect that is refused answers from the directory: a slug that does not
\* pass isValidSlug has no link, so 404 is the truth about it.
LEMMA RefusalAnswers ==
    ASSUME IInv, BoundIsValid, NEW slug \in Names,
           RedirectInvalidSlug(slug) \/ RedirectRefused(slug)
    PROVE  Directory!Next
  <1>1. CASE RedirectInvalidSlug(slug)
    <2>1. Answer("redirect", slug, 404, Null) /\ UNCHANGED repository /\ now' = now
      BY <1>1 DEF RedirectInvalidSlug
    <2>2. Links[slug] = Null
      BY <1>1 DEF RedirectInvalidSlug, BoundIsValid, Links, getBySlug
    <2> QED BY <2>1, <2>2, AnswersFromDirectory
  <1>2. CASE RedirectRefused(slug)
    <2> DEFINE link == linkForRead(slug)
               gone == link # Null /\ resolveLinkStatus(link, now) \in {"disabled", "expired"}
    <2>1. Answer("redirect", slug, IF gone THEN 410 ELSE 404, Null)
      BY <1>2 DEF RedirectRefused
    <2>2. UNCHANGED repository /\ now' = now /\ ~isActive(link, now)
      BY <1>2 DEF RedirectRefused, readThrough
    <2>3. Links[slug] = link
      BY ReadsDirectory DEF IInv
    <2>4. ~gone => link = Null \/ resolveLinkStatus(link, now) = "deleted"
      BY <2>2 DEF isActive, resolveLinkStatus
    <2> HIDE DEF link
    <2>5. CASE gone
      <3>1. Answer("redirect", slug, 410, Null)
        BY <2>1, <2>5
      <3> QED BY <2>2, <2>3, <2>5, <3>1, AnswersFromDirectory
    <2>6. CASE ~gone
      <3>1. Answer("redirect", slug, 404, Null)
        BY <2>1, <2>6
      <3> QED BY <2>2, <2>3, <2>4, <2>6, <3>1, AnswersFromDirectory
    <2> QED BY <2>5, <2>6
  <1> QED BY <1>1, <1>2

\* A redirect that is served changes the entry of its slug to the counted copy.
LEMMA ServedIsCounted ==
    ASSUME IInv, NEW slug \in Names, RedirectServed(slug)
    PROVE  /\ Links[slug] = linkForRead(slug) /\ linkForRead(slug) \in Link
           /\ linkForRead(slug) # Null
           /\ Links' = [Links EXCEPT ![slug] = Directory!Counted(Links[slug])]
  <1> DEFINE link == linkForRead(slug)
  <1>1. link # Null /\ StoreOK /\ now \in Time
    BY DEF RedirectServed, isActive, IInv
  <1>2. link \in Link /\ link.slug = slug /\ Links[slug] = link
    BY <1>1, FoundIsStored, ReadsDirectory
  <1>3. updateLinkAndInvalidateCache(Directory!Counted(link))
    BY DEF RedirectServed, incrementRedirectStats, Directory!Counted
  <1>4. Directory!Counted(link) \in Link /\ Directory!Counted(link).id = link.id /\ Directory!Counted(link).slug = slug
    BY <1>1, <1>2, CountedType, Zenon DEF Directory!Counted
  <1>5. Links' = [Links EXCEPT ![slug] = Directory!Counted(link)]
    BY <1>1, <1>3, <1>4, DirectoryUpdated, Zenon
  <1> QED BY <1>1, <1>2, <1>5

\* A redirect that is served serves in the directory.
LEMMA ServedServes ==
    ASSUME IInv, NEW slug \in Names, RedirectServed(slug)
    PROVE  Directory!Next
  <1>1. /\ Links[slug] = linkForRead(slug) /\ linkForRead(slug) # Null
        /\ Links' = [Links EXCEPT ![slug] = Directory!Counted(Links[slug])]
    BY ServedIsCounted
  <1>2. resolveLinkStatus(Links[slug], now) = "active" /\ now' = now
    BY <1>1 DEF RedirectServed, isActive
  <1>3. \E c \in {301, 302} :
          reply' = [op |-> "redirect", slug |-> slug, code |-> c, view |-> Links[slug]]
    BY <1>1 DEF RedirectServed, Answer, redirectStatusFor
  <1>4. Directory!Serve(slug)
    BY <1>1, <1>2, <1>3, Zenon DEF Directory!Serve, Links
  <1> QED BY <1>4 DEF Directory!Next

\* Every handler is a step of the directory, and binds no slug that the redirect
\* handlers would refuse to look up.
LEMMA StepRefines ==
    ASSUME IInv, BoundIsValid, [Next]_vars
    PROVE  [Directory!Next]_(Directory!vars) /\ BoundIsValid'
  <1>1. ASSUME NEW cmd \in CreateCommands, CreateLink(cmd) PROVE Directory!Next /\ BoundIsValid'
    BY <1>1, CreateCreates
  <1>2. ASSUME ~ \E cmd \in CreateCommands : CreateLink(cmd) PROVE slug_to_id' = slug_to_id
    BY <1>2, OnlyCreateBinds
  <1>3. slug_to_id' = slug_to_id => BoundIsValid'
    BY DEF BoundIsValid
  <1>4. CASE CreateMalformed
    <2>1. Answer("create", Null, 400, Null) /\ UNCHANGED repository /\ now' = now
      BY <1>4 DEF CreateMalformed
    <2> QED BY <2>1, <1>3, AnswersFromDirectory DEF repository
  <1>5. ASSUME NEW id \in Ids, GetLinkById(id) PROVE Directory!Next
    BY <1>5, ByIdAnswers
  <1>6. ASSUME Tick PROVE Directory!Next
    <2>1. Links' = Links /\ now' = now + 1 /\ reply' = reply
      BY <1>6, DirectoryStays DEF Tick
    <2> QED BY <2>1 DEF Directory!Next, Directory!Tick, Links
  <1>7. ASSUME UNCHANGED vars PROVE UNCHANGED Directory!vars
    <2>1. Links' = Links /\ now' = now /\ reply' = reply
      BY <1>7, DirectoryStays DEF vars, repository
    <2> QED BY <2>1 DEF Directory!vars, Links
  <1>8. ASSUME NEW slug \in Names,
               \/ \E op \in {"patch", "delete", "set_enabled", "restore", "get"} : NotFound(op, slug)
               \/ \E patch \in Patches : UpdateLink(slug, patch)
               \/ PatchMalformed(slug) \/ DeleteLink(slug)
               \/ \E enabled \in BOOLEAN : SetLinkEnabled(slug, enabled)
               \/ RestoreLink(slug) \/ GetLink(slug)
               \/ \E w \in StatsWindows : GetLinkStats(slug, w[1], w[2])
               \/ RedirectInvalidSlug(slug) \/ RedirectRefused(slug) \/ RedirectServed(slug)
        PROVE  Directory!Next
    BY <1>8, CommandsAmend, ReadsAnswer, RefusalAnswers, ServedServes, Zenon
  <1>9. CASE \E cmd \in CreateCommands : CreateLink(cmd)
    BY <1>1, <1>9
  <1>10. CASE ~ \E cmd \in CreateCommands : CreateLink(cmd)
    <2>1. BoundIsValid'
      BY <1>2, <1>3, <1>10
    <2>2. CASE Next
      BY <1>4, <1>5, <1>6, <1>8, <1>10, <2>1, <2>2, Zenon DEF Next
    <2>3. CASE UNCHANGED vars
      BY <1>7, <2>1, <2>3
    <2> QED BY <2>2, <2>3
  <1> QED BY <1>9, <1>10

-----------------------------------------------------------------------------
(* The counts of the same traffic *)

\* The rows of the click repository that a served redirect to s left, and the
\* redirects the directory counts for s.
Hits(s) == {i \in 1 .. Len(clicks) : clicks[i].slug = s /\ clicks[i].status_code \in {301, 302}}
Total(s) == IF Links[s] = Null THEN 0 ELSE Links[s].total_redirects

TrafficCounted == AnalyticsEnabled => \A s \in Names : Cardinality(Hits(s)) = Total(s)
QueueCounted ==
    /\ enqueued_total + dropped_total = Len(clicks)
    /\ enqueued_total <= QueueCapacity
    /\ dropped_total > 0 => enqueued_total = QueueCapacity

\* The click log is finite, and so is every set of its rows.
LEMMA HitsAreFinite ==
    ASSUME LogOK, NEW s
    PROVE  IsFiniteSet(Hits(s)) /\ Cardinality(Hits(s)) \in Nat
  <1>1. Len(clicks) \in Nat
    BY DEF LogOK
  <1>2. IsFiniteSet(1 .. Len(clicks))
    BY <1>1, FS_Interval
  <1>3. Hits(s) \subseteq 1 .. Len(clicks)
    BY DEF Hits
  <1> QED BY <1>2, <1>3, FS_Subset, FS_CardinalityType

\* Over all time, the statistics count the rows of served redirects.
LEMMA StatsCountHits ==
    ASSUME LogOK, NEW s
    PROVE  aggregateStats(s, 0, MaxTime + 1).successful_redirects = Cardinality(Hits(s))
  <1> DEFINE rows == {i \in 1 .. Len(clicks) :
                         /\ clicks[i].slug = s
                         /\ clicks[i].occurred_at >= 0 /\ clicks[i].occurred_at < MaxTime + 1}
  <1>1. ASSUME NEW i \in 1 .. Len(clicks)
        PROVE  clicks[i].occurred_at \in Time /\ clicks[i].status_code \in {301, 302, 404, 410}
    <2>1. clicks[i] \in ClickEvent
      BY DEF LogOK
    <2> QED BY <2>1 DEF ClickEvent
  <1>2. ASSUME NEW i \in 1 .. Len(clicks)
        PROVE  /\ clicks[i].occurred_at >= 0 /\ clicks[i].occurred_at < MaxTime + 1
               /\ clicks[i].status_code \in 300 .. 399 <=> clicks[i].status_code \in {301, 302}
    <2>1. \A t \in Time : t >= 0 /\ t < MaxTime + 1
      BY BoundsAssumption DEF Time
    <2>2. \/ clicks[i].status_code = 301 \/ clicks[i].status_code = 302
          \/ clicks[i].status_code = 404 \/ clicks[i].status_code = 410
      BY <1>1
    <2>3. clicks[i].occurred_at >= 0 /\ clicks[i].occurred_at < MaxTime + 1
      BY <1>1, <2>1, SMTT(30)
    <2>4. clicks[i].status_code \in 300 .. 399 <=> clicks[i].status_code \in {301, 302}
      <3>1. PICK c : c = clicks[i].status_code
        BY Zenon
      <3>2. c \in {301, 302, 404, 410}
        BY <2>2, <3>1, Zenon
      <3>3. c \in 300 .. 399 <=> c \in {301, 302}
        BY <3>2
      <3> QED BY <3>1, <3>3
    <2> QED BY <2>3, <2>4, Zenon
  <1>3. {i \in rows : clicks[i].status_code \in 300 .. 399} = Hits(s)
    BY <1>2 DEF Hits
  <1>4. aggregateStats(s, 0, MaxTime + 1).successful_redirects
          = Cardinality({i \in rows : clicks[i].status_code \in 300 .. 399})
    BY DEF aggregateStats
  <1> QED BY <1>3, <1>4, Zenon

\* A click event adds its row to the rows of its slug when the redirect was
\* served, and leaves the rows of every other slug alone.
LEMMA EmitAddsRow ==
    ASSUME LogOK, AnalyticsEnabled, NEW slug \in Names, NEW id, NEW code,
           emitClickEvent(slug, id, code), NEW s \in Names
    PROVE  Cardinality(Hits(s))' =
               IF s = slug /\ code \in {301, 302} THEN Cardinality(Hits(s)) + 1
                                                 ELSE Cardinality(Hits(s))
  <1> DEFINE n == Len(clicks)
             row == [slug |-> slug, link_id |-> id, status_code |-> code, occurred_at |-> now]
  <1>1. clicks' = Append(clicks, row) /\ n \in Nat
    BY DEF emitClickEvent, LogOK
  <1>2. /\ Len(clicks') = n + 1
        /\ \A i \in 1 .. n : clicks'[i] = clicks[i]
        /\ clicks'[n + 1] = row
    BY <1>1 DEF LogOK
  <1>3. row.slug = slug /\ row.status_code = code
    OBVIOUS
  <1> HIDE DEF row
  <1>4. CASE s = slug /\ code \in {301, 302}
    <2>1. Hits(s)' = Hits(s) \cup {n + 1}
      BY <1>1, <1>2, <1>3, <1>4 DEF Hits
    <2>2. n + 1 \notin Hits(s)
      BY <1>1 DEF Hits
    <2>3. Cardinality(Hits(s) \cup {n + 1}) = Cardinality(Hits(s)) + 1
      BY <2>2, HitsAreFinite, FS_AddElement, Zenon
    <2> QED BY <1>4, <2>1, <2>3, Zenon
  <1>5. CASE ~(s = slug /\ code \in {301, 302})
    <2>1. Hits(s)' = Hits(s)
      BY <1>1, <1>2, <1>3, <1>5 DEF Hits
    <2> QED BY <1>5, <2>1
  <1> QED BY <1>4, <1>5

\* A click event is buffered by the legacy queue or dropped by a full one.
LEMMA EmitCountsEvent ==
    ASSUME LogOK, QueueCounted, NEW slug, NEW id, NEW code, emitClickEvent(slug, id, code)
    PROVE  QueueCounted'
  <1>1. CASE AnalyticsEnabled
    <2>1. Len(clicks') = Len(clicks) + 1 /\ Len(clicks) \in Nat
      BY <1>1 DEF emitClickEvent, LogOK
    <2>2. \/ /\ enqueued_total >= QueueCapacity
             /\ dropped_total' = dropped_total + 1 /\ enqueued_total' = enqueued_total
          \/ /\ ~(enqueued_total >= QueueCapacity)
             /\ enqueued_total' = enqueued_total + 1 /\ dropped_total' = dropped_total
      BY <1>1 DEF emitClickEvent
    <2> QED BY <2>1, <2>2, BoundsAssumption DEF QueueCounted, LogOK
  <1>2. CASE ~AnalyticsEnabled
    BY <1>2 DEF emitClickEvent, analytics, QueueCounted
  <1> QED BY <1>1, <1>2

\* No step of the directory but a redirect changes the redirects it counts.
LEMMA OnlyServingCounts ==
    ASSUME Directory!Next, reply'.op # "redirect" \/ now' # now, NEW s \in Names
    PROVE  Total(s)' = Total(s)
  <1>0. ASSUME Links'[s] = Links[s] PROVE Total(s)' = Total(s)
    BY <1>0 DEF Total
  <1>1. ASSUME NEW t \in Names, Directory!Create(t, Links'[t]) PROVE Total(s)' = Total(s)
    <2>1. /\ Links[t] = Null /\ Links'[t].total_redirects = 0
          /\ Links' = [Links EXCEPT ![t] = Links'[t]]
      BY <1>1 DEF Directory!Create, Links
    <2>2. \A x \in Names : x # t => Links'[x] = Links[x]
      BY <2>1, Zenon DEF Links
    <2>3. CASE s = t
      BY <2>1, <2>3, Zenon DEF Total
    <2>4. CASE s # t
      BY <1>0, <2>2, <2>4
    <2> QED BY <2>3, <2>4, ZenonT(30)
  <1>2. ASSUME NEW t \in Names, Directory!Amend(t, Links'[t], reply'.op) PROVE Total(s)' = Total(s)
    <2>1. /\ Links[t] # Null /\ Links'[t] # Null
          /\ Directory!Traffic(Links'[t]) = Directory!Traffic(Links[t])
          /\ Links' = [Links EXCEPT ![t] = Links'[t]]
      BY <1>2 DEF Directory!Amend, Links
    <2>2. Links'[t].total_redirects = Links[t].total_redirects
      BY <2>1 DEF Directory!Traffic
    <2>3. \A x \in Names : x # t => Links'[x] = Links[x]
      BY <2>1, Zenon DEF Links
    <2>4. CASE s = t
      BY <2>1, <2>2, <2>4, ZenonT(30) DEF Total
    <2>5. CASE s # t
      BY <1>0, <2>3, <2>5
    <2> QED BY <2>4, <2>5
  <1>3. ASSUME NEW t \in Names, Directory!Serve(t) PROVE FALSE
    BY <1>3 DEF Directory!Serve
  <1>4. CASE Links' = Links
    BY <1>0, <1>4
  <1>5. CASE Directory!Answer(reply'.slug, reply'.op, reply'.code, reply'.view) \/ Directory!Tick
    BY <1>4, <1>5 DEF Directory!Answer, Directory!Tick, Links
  <1> QED BY <1>1, <1>2, <1>3, <1>5 DEF Directory!Next, Links

\* Requests other than redirects leave the analytics alone, and do not answer
\* as a redirect does.
LEMMA OthersLeaveAnalytics ==
    ASSUME Next, \A slug \in Names :
               ~(RedirectInvalidSlug(slug) \/ RedirectRefused(slug) \/ RedirectServed(slug))
    PROVE  UNCHANGED analytics /\ (reply'.op # "redirect" \/ now' # now)
  <1> DEFINE Goal == UNCHANGED analytics /\ (reply'.op # "redirect" \/ now' # now)
  <1>0. ASSUME NEW op, NEW slug, NEW code, NEW view, Answer(op, slug, code, view), op # "redirect"
        PROVE  reply'.op # "redirect"
    BY <1>0 DEF Answer
  <1>1. ASSUME NEW cmd, CreateLink(cmd) PROVE Goal
    <2>1. UNCHANGED analytics
      BY <1>1 DEF CreateLink
    <2>2. \E slug, code, view : Answer("create", slug, code, view)
      <3>1. ASSUME NEW link, create(link) PROVE \E slug, code, view : Answer("create", slug, code, view)
        BY <3>1, ZenonT(30) DEF create
      <3>2. (\E link : create(link)) \/ \E code : Answer("create", Null, code, Null)
        BY <1>1 DEF CreateLink
      <3> QED BY <3>1, <3>2, Zenon
    <2> QED BY <1>0, <2>1, <2>2
  <1>2. ASSUME NEW op \in {"patch", "delete", "set_enabled", "restore"}, NEW link, Persist(op, link)
        PROVE  Goal
    <2>1. UNCHANGED analytics
      BY <1>2 DEF Persist
    <2>2. \E slug, code, view : Answer(op, slug, code, view)
      BY <1>2, ZenonT(30) DEF Persist
    <2> QED BY <1>0, <2>1, <2>2
  <1>3. ASSUME NEW slug, NEW patch, UpdateLink(slug, patch) PROVE Goal
    BY <1>2, <1>3 DEF UpdateLink
  <1>4. ASSUME NEW slug, NEW enabled,
               DeleteLink(slug) \/ SetLinkEnabled(slug, enabled) \/ RestoreLink(slug)
        PROVE  Goal
    <2> HIDE DEF Goal
    <2> QED BY <1>2, <1>4 DEF DeleteLink, SetLinkEnabled, RestoreLink
  <1>5. ASSUME NEW slug, NEW op \in {"patch", "delete", "set_enabled", "restore", "get"},
               NotFound(op, slug) \/ PatchMalformed(slug) \/ GetLink(slug)
        PROVE  Goal
    BY <1>5, SMTT(30) DEF NotFound, PatchMalformed, GetLink, Answer
  <1>6. ASSUME NEW slug, NEW from, NEW to, NEW id,
               GetLinkStats(slug, from, to) \/ GetLinkById(id) \/ CreateMalformed
        PROVE  Goal
    BY <1>6 DEF GetLinkStats, GetLinkById, CreateMalformed, Answer
  <1>7. ASSUME Tick PROVE Goal
    BY <1>7 DEF Tick
  <1> HIDE DEF Goal
  <1>8. Goal
    BY <1>1, <1>3, <1>4, <1>5, <1>6, <1>7, ZenonT(30) DEF Next
  <1> QED BY <1>8, Zenon DEF Goal

\* Every handler keeps the counts in step.
LEMMA StepCounts ==
    ASSUME IInv, BoundIsValid, TrafficCounted, QueueCounted, [Next]_vars
    PROVE  TrafficCounted' /\ QueueCounted'
  <1>1. LogOK /\ now \in Time
    BY DEF IInv
  <1>2. ASSUME UNCHANGED analytics, \A s \in Names : Total(s)' = Total(s)
        PROVE  TrafficCounted' /\ QueueCounted'
    <2>1. /\ clicks' = clicks /\ enqueued_total' = enqueued_total
          /\ dropped_total' = dropped_total
      BY <1>2 DEF analytics
    <2>2. QueueCounted'
      BY <2>1 DEF QueueCounted
    <2>3. TrafficCounted'
      <3>1. \A s \in Names : Hits(s)' = Hits(s)
        BY <2>1 DEF Hits
      <3>2. AnalyticsEnabled => \A s \in Names : Cardinality(Hits(s)') = Total(s)'
        BY <1>2, <3>1, Zenon DEF TrafficCounted
      <3> QED BY <3>2, Zenon DEF TrafficCounted
    <2> QED BY <2>2, <2>3
  <1>3. ASSUME NEW slug \in Names, NEW id, NEW code \in {404, 410}, emitClickEvent(slug, id, code),
               UNCHANGED repository
        PROVE  TrafficCounted' /\ QueueCounted'
    <2>1. \A s \in Names : Total(s)' = Total(s)
      BY <1>3, DirectoryStays DEF Total
    <2>2. ASSUME AnalyticsEnabled, NEW s \in Names PROVE Cardinality(Hits(s))' = Total(s)'
      BY <1>1, <1>3, <2>1, <2>2, EmitAddsRow DEF TrafficCounted
    <2>3. TrafficCounted'
      BY <2>2 DEF TrafficCounted
    <2> QED BY <1>1, <1>3, <2>3, EmitCountsEvent
  <1>4. ASSUME NEW slug \in Names, RedirectServed(slug) PROVE TrafficCounted' /\ QueueCounted'
    <2> DEFINE link == linkForRead(slug)
    <2>1. emitClickEvent(slug, link.id, redirectStatusFor(link)) /\ redirectStatusFor(link) \in {301, 302}
      BY <1>4 DEF RedirectServed, redirectStatusFor
    <2>2. /\ Links[slug] = link /\ link \in Link /\ link # Null
          /\ Links' = [Links EXCEPT ![slug] = Directory!Counted(link)]
      BY <1>4, ServedIsCounted
    <2>3. Directory!Counted(link).total_redirects = link.total_redirects + 1
      BY <2>2, ZenonT(30) DEF Directory!Counted, Link
    <2>4. Directory!Counted(link) # Null
      BY <1>1, <2>2, CountedType, NullAssumption, Zenon DEF Directory!Counted
    <2> HIDE DEF link
    <2>5. Links'[slug] = Directory!Counted(link) /\ \A s \in Names : s # slug => Links'[s] = Links[s]
      BY <2>2, Zenon DEF Links
    <2>6. Total(slug)' = Total(slug) + 1 /\ \A s \in Names : s # slug => Total(s)' = Total(s)
      <3>1. Total(slug)' = Directory!Counted(link).total_redirects
        BY <2>4, <2>5 DEF Total
      <3>2. Total(slug) = link.total_redirects
        BY <2>2 DEF Total
      <3>3. \A s \in Names : s # slug => Total(s)' = Total(s)
        BY <2>5, Zenon DEF Total
      <3> QED BY <2>3, <3>1, <3>2, <3>3
    <2>7. ASSUME AnalyticsEnabled, NEW s \in Names PROVE Cardinality(Hits(s))' = Total(s)'
      BY <1>1, <2>1, <2>6, <2>7, EmitAddsRow DEF TrafficCounted
    <2>8. TrafficCounted'
      BY <2>7 DEF TrafficCounted
    <2> QED BY <1>1, <2>1, <2>8, EmitCountsEvent
  <1>5. ASSUME NEW slug \in Names, RedirectInvalidSlug(slug) PROVE TrafficCounted' /\ QueueCounted'
    BY <1>3, <1>5 DEF RedirectInvalidSlug
  <1>6. ASSUME NEW slug \in Names, RedirectRefused(slug) PROVE TrafficCounted' /\ QueueCounted'
    <2>1. \E id : emitClickEvent(slug, id, 404) \/ emitClickEvent(slug, id, 410)
      BY <1>6 DEF RedirectRefused
    <2>2. UNCHANGED repository
      BY <1>6 DEF RedirectRefused, readThrough
    <2> QED BY <1>3, <2>1, <2>2
  <1>7. ASSUME UNCHANGED <<repository, analytics>> PROVE TrafficCounted' /\ QueueCounted'
    <2>1. \A s \in Names : Total(s)' = Total(s)
      BY <1>7, DirectoryStays DEF Total
    <2> QED BY <1>2, <1>7, <2>1, ZenonT(30)
  <1>8. ASSUME Next, \A slug \in Names :
               ~(RedirectInvalidSlug(slug) \/ RedirectRefused(slug) \/ RedirectServed(slug))
        PROVE  TrafficCounted' /\ QueueCounted'
    <2>1. UNCHANGED analytics /\ (reply'.op # "redirect" \/ now' # now)
      BY <1>8, OthersLeaveAnalytics
    <2>2. \A s \in Names : Total(s)' = Total(s)
      <3>1. [Directory!Next]_(Directory!vars)
        BY StepRefines
      <3>2. CASE UNCHANGED Directory!vars
        BY <3>2 DEF Directory!vars, Total, Links
      <3> QED BY <2>1, <3>1, <3>2, OnlyServingCounts
    <2> QED BY <1>2, <2>1, <2>2
  <1>9. CASE UNCHANGED vars
    BY <1>7, <1>9 DEF vars, repository, analytics
  <1> QED BY <1>4, <1>5, <1>6, <1>8, <1>9

-----------------------------------------------------------------------------
(* Results *)

\* The inductive invariant holds of every behaviour of the link commands.
THEOREM Invariance == Spec => []IInv
  BY InitEstablishes, StepPreserves, PTL DEF Spec

\* Type correctness: every handler leaves well-formed links, click rows and
\* counters behind.
THEOREM TypeCorrect == Spec => []TypeOK
  <1>1. IInv => TypeOK
    BY DEF IInv, StoreOK, LogOK, TypeOK
  <1> QED BY <1>1, Invariance, PTL

\* The cache of getLinkForRead never holds anything but the repository's
\* current record, whatever requests arrive in whatever order.
THEOREM CacheIsCoherent == Spec => []CacheCoherent
  <1>1. IInv => CacheCoherent
    BY DEF IInv, StoreOK
  <1> QED BY <1>1, Invariance, PTL

\* slug_to_id_ and by_id_ stay inverse to one another.
THEOREM IndexIsConsistent == Spec => []IndexConsistent
  <1>1. IInv => IndexConsistent
    BY DEF IInv, StoreOK
  <1> QED BY <1>1, Invariance, PTL

\* A slug is never freed or re-bound: create() writes slug_to_id_ only for a
\* free slug, and no other handler writes it.
THEOREM SlugStaysBound == Spec => SlugNeverRebound
  <1> DEFINE Kept == \A s \in Names : slug_to_id[s] # Null => slug_to_id'[s] = slug_to_id[s]
  <1>1. ASSUME slug_to_id' = slug_to_id PROVE Kept
    BY <1>1
  <1>2. ASSUME NEW link, create(link), StoreOK PROVE Kept
    BY <1>2, ZenonT(30) DEF create, repository, StoreOK
  <1>4. ASSUME IInv, NEW cmd, CreateLink(cmd) PROVE Kept
    <2>1. CASE UNCHANGED repository
      BY <2>1, <1>1 DEF repository
    <2>2. CASE \E link : create(link)
      BY <1>2, <1>4, <2>2 DEF IInv
    <2> QED BY <1>4, <2>1, <2>2 DEF CreateLink
  <1>5. ASSUME [Next]_vars, ~ \E cmd \in CreateCommands : CreateLink(cmd)
        PROVE  slug_to_id' = slug_to_id
    BY <1>5, OnlyCreateBinds
  <1>6. IInv /\ [Next]_vars => [Kept]_vars
    BY <1>1, <1>4, <1>5
  <1> QED BY <1>6, Invariance, PTL DEF Spec, SlugNeverRebound

\* The storage_failure branch of LinkCommandService is dead: the record a
\* command has read is still stored when the command writes it back.
THEOREM UpdatesSucceed == Spec => []UpdatesNeverFail
  <1>1. Init => UpdatesNeverFail
    BY DEF Init, UpdatesNeverFail
  <1>2. IInv /\ UpdatesNeverFail /\ [Next]_vars => UpdatesNeverFail'
    <2> SUFFICES ASSUME IInv, UpdatesNeverFail, [Next]_vars PROVE UpdatesNeverFail'
      BY ZenonT(30)
    <2>1. ASSUME NEW cmd, CreateLink(cmd) PROVE UpdatesNeverFail'
      BY <2>1 DEF CreateLink, create, Answer, UpdatesNeverFail
    <2>2. ASSUME reply'.code = 200 PROVE UpdatesNeverFail'
      BY <2>2 DEF UpdatesNeverFail
    <2>4. ASSUME NEW slug \in Names, NEW patch \in Patches, UpdateLink(slug, patch)
          PROVE  UpdatesNeverFail'
      BY <2>2, <2>4, CommandKeeps
    <2>5. ASSUME NEW slug \in Names, DeleteLink(slug) PROVE UpdatesNeverFail'
      BY <2>2, <2>5, CommandKeeps
    <2>6. ASSUME NEW slug \in Names, NEW enabled \in BOOLEAN, SetLinkEnabled(slug, enabled)
          PROVE  UpdatesNeverFail'
      BY <2>2, <2>6, CommandKeeps
    <2>7. ASSUME NEW slug \in Names, RestoreLink(slug) PROVE UpdatesNeverFail'
      BY <2>2, <2>7, CommandKeeps
    <2>8. ASSUME NEW slug \in Names, GetLink(slug) PROVE UpdatesNeverFail'
      BY <2>8 DEF GetLink, Answer, UpdatesNeverFail
    <2>9. ASSUME NEW slug \in Names,
                 RedirectInvalidSlug(slug) \/ RedirectRefused(slug) \/ RedirectServed(slug)
          PROVE  UpdatesNeverFail'
      BY <2>9 DEF RedirectInvalidSlug, RedirectRefused, RedirectServed, redirectStatusFor,
                  Answer, UpdatesNeverFail
    <2>10. ASSUME NEW slug \in Names, NEW op, NotFound(op, slug) \/ PatchMalformed(slug)
           PROVE  UpdatesNeverFail'
      BY <2>10 DEF NotFound, PatchMalformed, Answer, UpdatesNeverFail
    <2>11. ASSUME NEW slug \in Names, NEW from, NEW to, GetLinkStats(slug, from, to)
           PROVE  UpdatesNeverFail'
      BY <2>11 DEF GetLinkStats, Answer, UpdatesNeverFail
    <2>12. ASSUME NEW id \in Ids, GetLinkById(id) PROVE UpdatesNeverFail'
      BY <2>12 DEF GetLinkById, Answer, UpdatesNeverFail
    <2>13. CASE CreateMalformed \/ Tick \/ UNCHANGED vars
      BY <2>13 DEF CreateMalformed, Tick, vars, Answer, UpdatesNeverFail
    <2> QED
      BY <2>1, <2>4, <2>5, <2>6, <2>7, <2>8, <2>9, <2>10, <2>11, <2>12, <2>13, ZenonT(30) DEF Next
  <1> QED BY <1>1, <1>2, Invariance, PTL DEF Spec

\* The cache, the slug index and the analytics are invisible to clients: every
\* handler is a step of the plain directory, with the same answer.
THEOREM RefinesDirectory == Spec => ImplementsDirectory
  <1>1. Init => Directory!Init /\ BoundIsValid
    BY DEF Init, Directory!Init, BoundIsValid, getBySlug
  <1>2. IInv /\ BoundIsValid /\ [Next]_vars => [Directory!Next]_(Directory!vars) /\ BoundIsValid'
    BY StepRefines
  <1> QED BY <1>1, <1>2, Invariance, PTL DEF Spec, ImplementsDirectory, Directory!Spec

\* A link's own count, the click rows and the counters of the legacy queue
\* agree after every handler.
THEOREM CountersStayEqual == Spec => []CountersAgree
  <1>1. Init => BoundIsValid /\ TrafficCounted /\ QueueCounted
    <2> SUFFICES ASSUME Init PROVE BoundIsValid /\ TrafficCounted /\ QueueCounted
      OBVIOUS
    <2>1. BoundIsValid /\ \A s \in Names : Total(s) = 0
      BY DEF Init, BoundIsValid, Total, Links, getBySlug
    <2>2. \A s : Hits(s) = {}
      BY DEF Init, Hits
    <2>3. TrafficCounted
      BY <2>1, <2>2, FS_EmptySet, Zenon DEF TrafficCounted
    <2>4. QueueCounted
      BY BoundsAssumption DEF Init, QueueCounted
    <2> QED BY <2>1, <2>3, <2>4
  <1>2. IInv /\ BoundIsValid /\ TrafficCounted /\ QueueCounted /\ [Next]_vars
          => BoundIsValid' /\ TrafficCounted' /\ QueueCounted'
    BY StepRefines, StepCounts
  <1>3. IInv /\ TrafficCounted /\ QueueCounted => CountersAgree
    <2> SUFFICES ASSUME IInv, TrafficCounted, QueueCounted PROVE CountersAgree
      OBVIOUS
    <2>1. ASSUME AnalyticsEnabled, NEW i \in Ids, by_id[i] # Null
          PROVE  by_id[i].total_redirects
                     = aggregateStats(by_id[i].slug, 0, MaxTime + 1).successful_redirects
      <3>1. by_id[i].slug \in Names /\ slug_to_id[by_id[i].slug] = i
        BY <2>1 DEF IInv, StoreOK, IndexConsistent, Link
      <3>2. Links[by_id[i].slug] = by_id[i]
        BY <3>1, ValuesAssumption DEF Links, getBySlug
      <3>3. Total(by_id[i].slug) = by_id[i].total_redirects
        BY <2>1, <3>2 DEF Total
      <3> QED BY <2>1, <3>1, <3>3, StatsCountHits, ZenonT(30) DEF TrafficCounted, IInv
    <2> QED BY <2>1 DEF CountersAgree, QueueCounted
  <1> QED BY <1>1, <1>2, <1>3, Invariance, PTL DEF Spec
=============================================================================
