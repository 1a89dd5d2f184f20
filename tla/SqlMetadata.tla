----------------------------- MODULE SqlMetadata -----------------------------
(***************************************************************************)
(* The SQL metadata repository over SQLite or PostgreSQL sessions.  Every  *)
(* call opens a session, makes sure once per process that the table is     *)
(* there, and executes one statement, or two for an update on PostgreSQL;  *)
(* reads are repeated when they fail for a passing reason, writes are not. *)
(* A connection that is lost after the server has executed a statement     *)
(* reports the same failure as one that is lost before.                    *)
(***************************************************************************)
EXTENDS SqlSchema, FiniteSetsExt, Functions

CONSTANTS
    Threads,
    Servers,          \* processes, each with one repository
    ServerOf,         \* the process of each thread
    Codes,            \* short codes of valid requests
    NoTime,           \* no expiry
    Expiries,         \* expiry times callers ask for, in ticks, or NoTime
    PageSize,         \* limit of a list query
    MaxRetries        \* max_retries

ASSUME MetadataAssumption ==
    /\ ServerOf \in [Threads -> Servers]
    /\ MaxRetries \in Nat /\ PageSize \in Nat \ {0}
    /\ NoTime \notin Nat /\ Expiries \subseteq Nat \cup {NoTime} /\ "none" \notin Codes

VARIABLES
    links,         \* the rows, by short code
    bootstrapped,  \* per process: bootstrapped_
    op,            \* the call of each thread, and what the last one answered
    held,          \* the record a thread last read
    page,          \* the short codes a thread has listed, page after page
    still,         \* history: nothing was written since the thread's first page
    made           \* history: how many times a code was created

metaVars == <<links, bootstrapped, op, held, page, still, made>>

\* The id is a column, and a second time part of attributes_json.
Row == [id : Nat, payloadId : Nat, created_at : Nat, expires_at : Nat \cup {NoTime},
        asked : Nat \cup {NoTime}]
noRow == [id |-> 0, payloadId |-> 0, created_at |-> 0, expires_at |-> NoTime, asked |-> NoTime]
Record == [id : Nat, code : Codes \cup {"none"}, expires_at : Nat \cup {NoTime}]
noRecord == [id |-> 0, code |-> "none", expires_at |-> NoTime]

Kinds == {"create", "get", "exists", "update", "delete", "list", "more"}
RepoError == {"none", "not_found", "already_exists", "transient_failure", "permanent_failure"}
Op == [at : {"idle", "statement", "count"}, kind : Kinds, code : Codes \cup {"none"}, id : Nat,
       expires_at : Nat \cup {NoTime}, attempt : 0..MaxRetries, error : RepoError,
       now : Nat, wrote : BOOLEAN, raced : BOOLEAN]

MetadataTypeOK ==
    /\ links \in [Codes -> Row]
    /\ bootstrapped \in [Servers -> BOOLEAN]
    /\ op \in [Threads -> Op]
    /\ held \in [Threads -> Record]
    /\ page \in [Threads -> Seq(Codes)]
    /\ still \in [Threads -> BOOLEAN]
    /\ made \in [Codes -> Nat]

idleOp == [at |-> "idle", kind |-> "get", code |-> "none", id |-> 0, expires_at |-> NoTime,
           attempt |-> 0, error |-> "none", now |-> 0, wrote |-> FALSE, raced |-> FALSE]

MetadataInit ==
    /\ links = [c \in Codes |-> noRow]
    /\ bootstrapped = [s \in Servers |-> FALSE]
    /\ op = [t \in Threads |-> idleOp]
    /\ held = [t \in Threads |-> noRecord]
    /\ page = [t \in Threads |-> <<>>]
    /\ still = [t \in Threads |-> TRUE]
    /\ made = [c \in Codes |-> 0]
-----------------------------------------------------------------------------
present == {c \in Codes : links[c] # noRow}

\* Slip: a time is rounded down once more on every write.
ToEpochSecondsLess(t) == IF t = NoTime THEN NoTime ELSE to_epoch(IF t = 0 THEN 0 ELSE t - 1)

\* Whole seconds.
ToEpochSeconds(t) == IF t = NoTime THEN NoTime ELSE to_epoch(t)

\* FromRow: the id comes from the payload.
FromRow(c) == [id |-> links[c].payloadId, code |-> c, expires_at |-> links[c].expires_at]

\* Thread t's call returns; of the call, its answer remains.
returned(ops, t, error) ==
    [ops EXCEPT ![t] = [idleOp EXCEPT !.kind = ops[t].kind, !.error = error,
                                      !.wrote = ops[t].wrote, !.raced = ops[t].raced]]
answer(t, error) == op' = returned(op, t, error)

\* Slip: one retry too many.
failOrRetryAgain(t, retryable) ==
    IF backend = "postgres" /\ retryable /\ op[t].attempt <= MaxRetries
    THEN op' = [op EXCEPT ![t].attempt = @ + 1]
    ELSE answer(t, "transient_failure")

\* RunWithRetry, when the statement has thrown a passing failure.  SQLite waits in the
\* library instead and is not asked again.
failOrRetry(t, retryable) ==
    IF backend = "postgres" /\ retryable /\ op[t].attempt < MaxRetries
    THEN op' = [op EXCEPT ![t].attempt = @ + 1]
    ELSE answer(t, "transient_failure")

\* A row of code c came or went: whoever is between UPDATE and COUNT of c, or between
\* two pages, has missed it.
rowChanged(c, ops) ==
    [u \in Threads |-> IF ops[u].at = "count" /\ ops[u].code = c
                       THEN [ops[u] EXCEPT !.raced = TRUE] ELSE ops[u]]
disturb == still' = [t \in Threads |-> still[t] /\ page[t] = <<>>]

\* EnsureBootstrapped, under the mutex of the process: CREATE TABLE IF NOT EXISTS fails k
\* times.  PostgreSQL is asked again, SQLite is not.
bootstraps(k) == k <= IF backend = "postgres" THEN MaxRetries ELSE 0
EnsureBootstrapped(s, k) ==
    [bootstrapped EXCEPT ![s] = @ \/ bootstraps(k)]

\* A call begins, opens its session and makes sure of the table, or fails in one of the
\* two.  A creation brings the time its caller has read; an update writes back the record
\* its thread has just read; "list" asks for the first page and "more", right after it,
\* for the next.
Begin(t, kind, c, expires) ==
    LET s == ServerOf[t]
        o == [idleOp EXCEPT !.at = "statement", !.kind = kind, !.code = c,
                !.now = IF kind = "create" THEN now ELSE 0,
                !.id = IF kind = "update" THEN held[t].id ELSE IF kind = "create" THEN calls' ELSE 0,
                !.expires_at = IF kind = "update" THEN held[t].expires_at ELSE expires]
        begins == [op EXCEPT ![t] = o]
    IN
    /\ op[t].at = "idle"
    /\ kind = "update" => held[t].code = c
    /\ kind = "more" => page[t] # <<>>
    /\ begun
    /\ held' = [held EXCEPT ![t] = noRecord]
    /\ IF kind = "more" THEN UNCHANGED <<page, still>>
       ELSE page' = [page EXCEPT ![t] = <<>>] /\ still' = [still EXCEPT ![t] = TRUE]
    /\ \/ /\ fault
          /\ op' = returned(begins, t, "transient_failure")
          /\ UNCHANGED <<tables, bootstrapped>>
       \/ \E k \in 0..(MaxRetries + 1) :
             /\ IF bootstrapped[s] THEN k = 0 ELSE bootstraps(k) \/ bootstraps(k - 1)
             /\ faults + k <= MaxFaults /\ faults' = faults + k
             /\ bootstrapped' = EnsureBootstrapped(s, k)
             /\ tables' = IF ~bootstrapped[s] /\ bootstraps(k) THEN tables \cup {"links"} ELSE tables
             /\ op' = IF bootstraps(k) THEN begins ELSE returned(begins, t, "transient_failure")
    /\ UNCHANGED <<backend, migration, dropped, now, links, made>>

\* The statement of a call of this kind, on a table that is there.
executes(t, kind) == op[t].at = "statement" /\ op[t].kind = kind /\ "links" \in tables

\* Slip: a write is repeated like a read.
writtenOrRetried(t, ops, error) ==
    \/ op' = returned(ops, t, error) /\ UNCHANGED faults
    \/ /\ backend = "postgres" /\ fault
       /\ IF ops[t].attempt < MaxRetries
          THEN op' = [ops EXCEPT ![t].attempt = @ + 1]
          ELSE op' = returned(ops, t, "transient_failure")

\* The server has executed a write: the caller hears of it, or PostgreSQL's connection
\* is lost and it does not.
written(t, ops, error) ==
    \/ op' = returned(ops, t, error) /\ UNCHANGED faults
    \/ /\ backend = "postgres" /\ fault
       /\ op' = returned(ops, t, "transient_failure")

InsertRow(t) ==
    LET c == op[t].code IN
    /\ executes(t, "create")
    /\ \/ /\ c \in present
          /\ answer(t, "already_exists")
          /\ UNCHANGED <<links, made, still, faults>>
       \/ /\ c \notin present
          /\ links' = [links EXCEPT ![c] =
                [id |-> op[t].id, payloadId |-> op[t].id, created_at |-> to_epoch(op[t].now),
                 expires_at |-> ToEpochSeconds(op[t].expires_at), asked |-> op[t].expires_at]]
          /\ made' = [made EXCEPT ![c] = @ + 1]
          /\ disturb
          /\ written(t, rowChanged(c, [op EXCEPT ![t].wrote = TRUE]), "none")
    /\ UNCHANGED <<schemaVars, calls, now, bootstrapped, held, page>>

SelectByShortCode(t) ==
    LET c == op[t].code IN
    /\ executes(t, "get")
    /\ answer(t, IF c \in present THEN "none" ELSE "not_found")
    /\ held' = IF c \in present THEN [held EXCEPT ![t] = FromRow(c)] ELSE held
    /\ UNCHANGED <<schemaVars, calls, faults, now, links, bootstrapped, page, still, made>>

\* Exists counts rows; a missing one is no error.
ExistsRow(t) ==
    /\ executes(t, "exists")
    /\ answer(t, "none")
    /\ UNCHANGED <<schemaVars, calls, faults, now, links, bootstrapped, held, page, still, made>>

updated(row, o) == [row EXCEPT !.payloadId = o.id, !.expires_at = ToEpochSeconds(o.expires_at)]

\* UPDATE leaves the id and created_at columns alone.  SQLite then asks its own
\* connection how many rows it changed; PostgreSQL counts the rows in a second statement.
UpdateRow(t) ==
    LET c == op[t].code
        ops == [op EXCEPT ![t].wrote = c \in present] IN
    /\ executes(t, "update")
    /\ links' = IF c \in present THEN [links EXCEPT ![c] = updated(@, op[t])] ELSE links
    /\ \/ /\ backend = "sqlite"
          /\ op' = returned(ops, t, IF c \in present THEN "none" ELSE "not_found") /\ UNCHANGED faults
       \/ /\ backend = "postgres"
          /\ \/ op' = [ops EXCEPT ![t].at = "count"] /\ UNCHANGED faults
             \/ fault /\ op' = returned(ops, t, "transient_failure")
    /\ UNCHANGED <<schemaVars, calls, now, bootstrapped, held, page, still, made>>

CountRows(t) ==
    /\ op[t].at = "count" /\ "links" \in tables
    /\ answer(t, IF op[t].code \in present THEN "none" ELSE "not_found")
    /\ UNCHANGED <<schemaVars, calls, faults, now, links, bootstrapped, held, page, still, made>>

\* DELETE succeeds whether or not there is a row.
DeleteRow(t) ==
    LET c == op[t].code IN
    /\ executes(t, "delete")
    /\ links' = [links EXCEPT ![c] = noRow]
    /\ IF c \in present THEN disturb ELSE UNCHANGED still
    /\ written(t, IF c \in present THEN rowChanged(c, op) ELSE op, "none")
    /\ UNCHANGED <<schemaVars, calls, now, bootstrapped, held, page, made>>

\* ORDER BY created_at leaves the order of rows of the same second to the database.
ordered(s) == \A i, j \in DOMAIN s : i < j => links[s[i]].created_at <= links[s[j]].created_at

\* LIMIT PageSize OFFSET k
after(s, k) == SubSeq(s, k + 1, Min({k + PageSize, Len(s)}))

\* Slip: the query has no ORDER BY.
ListUnordered(t) ==
    /\ executes(t, op[t].kind) /\ op[t].kind \in {"list", "more"}
    /\ \E s \in Bijection(1..Cardinality(present), present) :
          page' = [page EXCEPT ![t] = @ \o after(s, Len(@))]
    /\ answer(t, "none")
    /\ UNCHANGED <<schemaVars, calls, faults, now, links, bootstrapped, held, still, made>>

ListRows(t) ==
    /\ executes(t, op[t].kind) /\ op[t].kind \in {"list", "more"}
    /\ \E s \in Bijection(1..Cardinality(present), present) :
          /\ ordered(s)
          /\ page' = [page EXCEPT ![t] = @ \o after(s, Len(@))]
    /\ answer(t, "none")
    /\ UNCHANGED <<schemaVars, calls, faults, now, links, bootstrapped, held, still, made>>

\* The statement fails without effect (libpq has the whole result before the first row is
\* read, so that a list that is asked for again starts from no rows): for a passing reason, or for want of its table.
StatementFails(t) ==
    /\ \/ /\ op[t].at \in {"statement", "count"} /\ fault
          /\ failOrRetry(t, op[t].kind \in {"get", "exists", "list", "more"})
       \/ /\ op[t].at \in {"statement", "count"} /\ "links" \notin tables
          /\ answer(t, "permanent_failure")
          /\ UNCHANGED faults
    /\ UNCHANGED <<schemaVars, calls, now, links, bootstrapped, held, page, still, made>>

\* DROP TABLE takes the rows with it.
LinksFollowTable ==
    IF "links" \in tables' THEN UNCHANGED metaVars
    ELSE /\ links' = [c \in Codes |-> noRow]
         /\ op' = [t \in Threads |-> [op[t] EXCEPT !.raced = @ \/ op[t].at = "count"]]
         /\ disturb
         /\ UNCHANGED <<bootstrapped, held, page, made>>

Call(t) ==
    \/ \E c \in Codes, e \in Expiries : Begin(t, "create", c, e)
    \/ \E kind \in {"get", "exists", "update", "delete"}, c \in Codes : Begin(t, kind, c, NoTime)
    \/ \E kind \in {"list", "more"} : Begin(t, kind, "none", NoTime)

MetadataNext ==
    \E t \in Threads :
        \/ Call(t)
        \/ InsertRow(t) \/ SelectByShortCode(t) \/ ExistsRow(t) \/ UpdateRow(t) \/ CountRows(t)
        \/ DeleteRow(t) \/ ListRows(t) \/ StatementFails(t)
-----------------------------------------------------------------------------
(* Correctness. *)

\* The answers of writes are true.  CreateLink reports already_exists only when the row is
\* not its own: a write whose answer was lost is never executed a second time.  UpdateLink
\* says whether a row was written, except on PostgreSQL when the row came or went between
\* its UPDATE and the statement that counts.
WritesReportTruth ==
    \A t \in Threads : op[t].at = "idle" =>
        /\ op[t].kind = "create" /\ op[t].error = "already_exists" => ~op[t].wrote
        /\ op[t].kind = "update" =>
              /\ op[t].error = "none" => op[t].wrote \/ op[t].raced
              /\ op[t].error = "not_found" => ~op[t].wrote \/ op[t].raced
              /\ op[t].raced => backend = "postgres"

\* A row keeps what it was created with, unless an update wrote back a record it read
\* before the code was deleted and created again.  The id readers see, which comes from
\* attributes_json, is the id column; and the stored expiry is less than a second before
\* the one asked for: reading a record and writing it back, however often, moves it no
\* further.
RowsStayTrue ==
    \A c \in present : made[c] = 1 =>
        /\ links[c].payloadId = links[c].id
        /\ links[c].asked # NoTime =>
              /\ links[c].expires_at <= links[c].asked
              /\ links[c].asked < links[c].expires_at + TicksPerSecond

\* Pages listed one after the other, with no write between them, show every link once,
\* provided no two links were created in the same second.
PagesCover ==
    \A t \in Threads :
        /\ still[t] /\ page[t] # <<>> /\ Len(page[t]) >= Cardinality(present)
        /\ \A c, d \in present : links[c].created_at = links[d].created_at => c = d
        => Range(page[t]) = present
=============================================================================
