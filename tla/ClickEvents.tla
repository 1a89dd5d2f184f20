---------------------------- MODULE ClickEvents ----------------------------
(***************************************************************************)
(* The SQL click event repository, its statistics and the retention job.   *)
(* An object has one connection and one mutex, and no call of it uses a    *)
(* transaction: a batch is inserted row by row, statistics are taken by    *)
(* one query after the other, and other processes write in between.        *)
(***************************************************************************)
EXTENDS SqlSchema, FiniteSetsExt

CONSTANTS
    Repos,        \* repository objects
    Events,       \* event ids
    OccurredAt,   \* OccurredAt[e], in ticks
    StatusOf,     \* StatusOf[e]: the status of the response
    DomainOf,
    SlugOf,
    Batches,      \* the batches workers insert: sequences of events
    Queries,      \* [from, to, slug, bucket]: times, a slug or "any", and the width of
                  \* the time buckets, or 0 for none; times and widths in ticks
    Retention     \* retention_days, in ticks; 0 turns the job off

ASSUME EventsAssumption ==
    /\ OccurredAt \in [Events -> Nat] /\ StatusOf \in [Events -> Nat]
    /\ \A b \in Batches : b \in Seq(Events) /\ b # <<>>
    /\ Retention \in Nat /\ Retention % TicksPerSecond = 0

VARIABLES
    click_events,  \* the rows
    job,           \* the call of each repository object, and its last result
    stored         \* history: every event that has been a row

clickVars == <<click_events, job, stored>>

noQuery == [from |-> 0, to |-> 0, slug |-> "any", bucket |-> 0]
noStats == [total |-> 0, successful |-> 0, byStatus |-> 0, byDomain |-> 0, byBucket |-> 0]

Job == [at : {"idle", "insert", "total", "successful", "status", "domain", "buckets", "delete"},
        kind : {"none", "insert", "stats", "cleanup"}, left : Seq(Events), batch : Seq(Events),
        query : Queries \cup {noQuery}, stats : [DOMAIN noStats -> Nat], started : Nat,
        ok : BOOLEAN, failed : BOOLEAN, calm : BOOLEAN]

idleJob == [at |-> "idle", kind |-> "none", left |-> <<>>, batch |-> <<>>, query |-> noQuery,
            stats |-> noStats, started |-> 0, ok |-> FALSE, failed |-> FALSE, calm |-> TRUE]

ClickTypeOK ==
    /\ click_events \in SUBSET Events /\ stored \in SUBSET Events
    /\ job \in [Repos -> Job]

ClickInit ==
    /\ click_events = {} /\ stored = {}
    /\ job = [r \in Repos |-> idleJob]
-----------------------------------------------------------------------------
\* The rows a query counts.
matching(q) == {e \in click_events :
    /\ to_epoch(q.from) <= to_epoch(OccurredAt[e]) /\ to_epoch(OccurredAt[e]) < to_epoch(q.to)
    /\ q.slug \in {"any", SlugOf[e]}}

\* GROUP BY column: the counts of the groups, added up.
grouped(rows, column) ==
    MapThenSumSet(LAMBDA g : Cardinality({e \in rows : column[e] = g}), {column[e] : e \in rows})

bucketStart(e, width) == (to_epoch(OccurredAt[e]) \div width) * width

\* Rows came or went: statistics that are being taken mix two states of the table.
rowsBecome(rows, jobs) ==
    /\ click_events' = rows
    /\ stored' = stored \cup rows
    /\ job' = [r \in Repos |-> [jobs[r] EXCEPT !.calm = @ /\ (rows = click_events)]]

start(r, kind, at, j) ==
    /\ job[r].at = "idle"
    /\ begun
    /\ job' = [job EXCEPT ![r] = [j EXCEPT !.kind = kind, !.at = at]]
    /\ UNCHANGED <<schemaVars, now, faults, click_events, stored>>

hasTable == "click_events" \in tables

\* The repository object is made: its constructor creates the table and the indexes.
Bootstrap(r) ==
    /\ job[r].at = "idle" /\ ~hasTable
    /\ begun
    /\ tables' = tables \cup {"click_events"}
    /\ UNCHANGED <<backend, migration, dropped, now, faults, clickVars>>

InsertBatch(r, batch) == start(r, "insert", "insert", [idleJob EXCEPT !.left = batch, !.batch = batch])

\* Slip: a row that is there already fails the batch.
InsertRefusingDuplicates(r) ==
    LET e == Head(job[r].left) IN
    /\ job[r].at = "insert" /\ hasTable
    /\ IF e \in click_events
       THEN job' = [job EXCEPT ![r].at = "idle"] /\ UNCHANGED <<click_events, stored>>
       ELSE rowsBecome(click_events \cup {e}, [job EXCEPT ![r].left = Tail(@),
                ![r].at = IF Len(job[r].left) = 1 THEN "idle" ELSE @, ![r].ok = Len(job[r].left) = 1])
    /\ UNCHANGED <<schemaVars, now, calls, faults>>

\* One row of the batch; a row with the same event_id is left as it is.
InsertEvent(r) ==
    /\ job[r].at = "insert" /\ hasTable
    /\ rowsBecome(click_events \cup {Head(job[r].left)},
            [job EXCEPT ![r].left = Tail(@),
                        ![r].at = IF Len(job[r].left) = 1 THEN "idle" ELSE @,
                        ![r].ok = Len(job[r].left) = 1])
    /\ UNCHANGED <<schemaVars, now, calls, faults>>

\* AnalyticsStatsHandler::Handle refuses an empty interval and asks for the rest.
GetAggregateStats(r, q) ==
    /\ q.from < q.to
    /\ start(r, "stats", "total", [idleJob EXCEPT !.query = q])

counts(r, at, field, n, next) ==
    /\ job[r].at = at /\ hasTable
    /\ job' = [job EXCEPT ![r].stats[field] = n, ![r].at = next, ![r].ok = next = "idle"]
    /\ UNCHANGED <<schemaVars, now, calls, faults, click_events, stored>>

CountTotal(r) == counts(r, "total", "total", Cardinality(matching(job[r].query)), "successful")

CountSuccessful(r) ==
    counts(r, "successful", "successful",
           Cardinality({e \in matching(job[r].query) : StatusOf[e] >= 300 /\ StatusOf[e] < 400}), "status")

CountByStatus(r) ==
    counts(r, "status", "byStatus", grouped(matching(job[r].query), StatusOf), "domain")

\* PostgreSQL is not asked for time buckets.
afterDomains(r) == IF backend = "sqlite" /\ job[r].query.bucket > 0 THEN "buckets" ELSE "idle"

\* Slip: one of the queries lacks the WHERE of the others.
CountDomainsOfAll(r) ==
    counts(r, "domain", "byDomain", grouped(click_events, DomainOf),
           afterDomains(r))

CountByDomain(r) ==
    counts(r, "domain", "byDomain", grouped(matching(job[r].query), DomainOf),
           afterDomains(r))

CountByBucket(r) ==
    counts(r, "buckets", "byBucket",
           grouped(matching(job[r].query), [e \in Events |-> bucketStart(e, job[r].query.bucket)]), "idle")

\* RetentionCleanupJob::Run: the cutoff is taken from the clock before the statement.
Cleanup(r) ==
    /\ Retention > 0
    /\ start(r, "cleanup", "delete", [idleJob EXCEPT !.started = now])

\* Slip: an event of exactly the retention is taken for older.
expiredUpTo(t) == {e \in click_events : to_epoch(OccurredAt[e]) + Retention <= to_epoch(t)}
expired(t) == {e \in click_events : to_epoch(OccurredAt[e]) + Retention < to_epoch(t)}

DeleteOlderThan(r) ==
    /\ job[r].at = "delete" /\ hasTable
    /\ rowsBecome(click_events \ expired(job[r].started), [job EXCEPT ![r].at = "idle", ![r].ok = TRUE])
    /\ UNCHANGED <<schemaVars, now, calls, faults>>

\* A statement throws, before or after the server has executed it; a batch keeps the
\* rows it has inserted.
JobFails(r) ==
    /\ job[r].at # "idle"
    /\ LET failing == [job EXCEPT ![r].at = "idle", ![r].failed = TRUE] IN
       \/ /\ fault \/ (~hasTable /\ UNCHANGED faults)
          /\ job' = failing
          /\ UNCHANGED <<click_events, stored>>
       \/ /\ job[r].at \in {"insert", "delete"} /\ hasTable /\ backend = "postgres" /\ fault
          /\ rowsBecome(IF job[r].at = "insert" THEN click_events \cup {Head(job[r].left)}
                        ELSE click_events \ expired(job[r].started), failing)
    /\ UNCHANGED <<schemaVars, now, calls>>

\* DROP TABLE takes the rows with it.
ClicksFollowTable ==
    IF "click_events" \in tables' THEN UNCHANGED clickVars ELSE rowsBecome({}, job)

ClickNext ==
    \E r \in Repos :
        \/ Bootstrap(r)
        \/ \E b \in Batches : InsertBatch(r, b)
        \/ InsertEvent(r)
        \/ \E q \in Queries : GetAggregateStats(r, q)
        \/ CountTotal(r) \/ CountSuccessful(r) \/ CountByStatus(r) \/ CountByDomain(r) \/ CountByBucket(r)
        \/ Cleanup(r) \/ DeleteOlderThan(r)
        \/ JobFails(r)
-----------------------------------------------------------------------------
(* Correctness. *)

\* A batch can be sent again: InsertBatch returns true only when each of its events has
\* been a row, and fails only when a statement did, never over the rows that an earlier
\* attempt, cut off in the middle or unheard, has left.
BatchesCanBeRepeated ==
    \A r \in Repos :
        job[r].at = "idle" /\ job[r].kind = "insert" =>
            IF job[r].ok THEN {job[r].batch[i] : i \in DOMAIN job[r].batch} \subseteq stored
            ELSE job[r].failed

\* The statistics add up unless rows came or went between the queries: the counts by
\* status and by domain sum to the total, and so do those by time bucket, where they were
\* asked for and are taken, which is on SQLite only.
StatsAddUp ==
    \A r \in Repos :
        LET st == job[r].stats IN
        job[r].at = "idle" /\ job[r].kind = "stats" /\ job[r].ok /\ job[r].calm =>
            /\ st.byStatus = st.total /\ st.byDomain = st.total /\ st.successful <= st.total
            /\ backend = "sqlite" /\ job[r].query.bucket > 0 => st.byBucket = st.total

\* The retention job deletes no event that is within its retention, although the cutoff
\* is taken before the statement and both times are stored in whole seconds.
RetentionKeepsYoung ==
    [][hasTable' => \A e \in click_events \ click_events' : OccurredAt[e] + Retention < now]_clickVars
=============================================================================
