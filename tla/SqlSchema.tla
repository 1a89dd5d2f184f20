------------------------------ MODULE SqlSchema ------------------------------
(***************************************************************************)
(* What the SQL repositories share: the database with its tables, and the  *)
(* PostgreSQL migration runner.  A migration file is one command, which    *)
(* the server runs as a whole or not at all; every file may be run again   *)
(* (IF NOT EXISTS, IF EXISTS), and there is no record of those that ran.   *)
(***************************************************************************)
EXTENDS Naturals, Sequences, FiniteSets

CONSTANTS
    Migrators,   \* processes that run migrations
    TicksPerSecond, \* the clock is finer than the whole seconds that are stored
    StartTime, MaxTime, \* bounds: the first and the last tick
    MaxCalls,    \* bound: calls begun; a run of migrations counts as two
    MaxFaults    \* bound: statements that fail for reasons of the database, and
                 \* migration files that are not there or not readable

ASSUME SchemaAssumption ==
    /\ TicksPerSecond \in Nat \ {0}
    /\ StartTime \in Nat /\ MaxTime \in Nat /\ StartTime <= MaxTime /\ MaxCalls \in Nat /\ MaxFaults \in Nat

Backends == {"sqlite", "postgres"}

VARIABLES
    backend,    \* what the repositories were configured with
    tables,     \* the tables there are
    migration,  \* the run of each migrator
    now,        \* the clock, in ticks
    calls, faults, \* how much of the bounds is used
    dropped     \* history: a down migration has dropped a table

schemaVars == <<backend, tables, migration, dropped>>

\* The tables each file is about, in the order of the file names.
Files == << {"links"}, {"auth"}, {"click_events"} >>
Tables == UNION {Files[i] : i \in DOMAIN Files}

Run == [state : {"none", "running", "true", "false"}, up : BOOLEAN, left : Seq(SUBSET Tables),
        alone : BOOLEAN, whole : BOOLEAN]

SchemaTypeOK ==
    /\ backend \in Backends /\ tables \in SUBSET Tables /\ dropped \in BOOLEAN
    /\ now \in StartTime..MaxTime /\ calls \in 0..MaxCalls /\ faults \in 0..MaxFaults
    /\ migration \in [Migrators -> Run]

SchemaInit ==
    /\ backend \in Backends /\ tables \in {{}, Tables} /\ dropped = FALSE
    /\ now = StartTime /\ calls = 0 /\ faults = 0
    /\ migration = [m \in Migrators |-> [state |-> "none", up |-> TRUE, left |-> <<>>, alone |-> TRUE,
                                       whole |-> TRUE]]

begun == calls < MaxCalls /\ calls' = calls + 1
fault == faults < MaxFaults /\ faults' = faults + 1

\* Stored times are whole seconds.
to_epoch(t) == (t \div TicksPerSecond) * TicksPerSecond

OrderedUpMigrations == Files
OrderedDownMigrations == [i \in DOMAIN Files |-> Files[Len(Files) + 1 - i]]

\* ApplyUp or ApplyDownToBase begins.  A directory that does not exist has no files.
\* History: a run is alone while no other goes down, and whole as long as it has found
\* and read every file.
BeginMigration(m, up) ==
    /\ backend = "postgres" /\ migration[m].state # "running"
    /\ calls + 2 <= MaxCalls /\ calls' = calls + 2
    /\ \E found \in BOOLEAN :
        /\ IF found THEN UNCHANGED faults ELSE fault
        /\ migration' = [n \in Migrators |->
              IF n = m THEN [state |-> "running", up |-> up,
                             left |-> IF ~found THEN <<>> ELSE IF up THEN OrderedUpMigrations
                                      ELSE OrderedDownMigrations,
                             alone |-> \A o \in Migrators \ {m} :
                                          migration[o].state = "running" => migration[o].up,
                             whole |-> found]
              ELSE [migration[n] EXCEPT !.alone = @ /\ up]]
    /\ UNCHANGED <<backend, tables, now, dropped>>

ApplyFile(m) ==
    /\ migration[m].state = "running" /\ migration[m].left # <<>>
    /\ tables' = IF migration[m].up THEN tables \cup Head(migration[m].left)
                 ELSE tables \ Head(migration[m].left)
    /\ dropped' = (dropped \/ ~migration[m].up)
    /\ migration' = [migration EXCEPT ![m].left = Tail(@)]
    /\ UNCHANGED <<backend, calls, faults, now>>

\* A file that cannot be opened reads as an empty command: the run goes on without it.
SkipFile(m) ==
    /\ migration[m].state = "running" /\ migration[m].left # <<>>
    /\ fault
    /\ migration' = [migration EXCEPT ![m].left = Tail(@), ![m].whole = FALSE]
    /\ UNCHANGED <<backend, tables, calls, now, dropped>>

\* Slip: a file that fails does not end the run.
FileFailsUnnoticed(m) ==
    /\ migration[m].state = "running" /\ migration[m].left # <<>>
    /\ fault
    /\ migration' = [migration EXCEPT ![m].left = Tail(@)]
    /\ UNCHANGED <<backend, tables, calls, now, dropped>>

\* A file throws: those before it stay applied, those after it are not tried.
FileFails(m) ==
    /\ migration[m].state = "running" /\ migration[m].left # <<>>
    /\ fault
    /\ migration' = [migration EXCEPT ![m].state = "false"]
    /\ UNCHANGED <<backend, tables, calls, now, dropped>>

MigrationReturns(m) ==
    /\ migration[m].state = "running" /\ migration[m].left = <<>>
    /\ migration' = [migration EXCEPT ![m].state = "true"]
    /\ UNCHANGED <<backend, tables, calls, faults, now, dropped>>

SchemaNext ==
    \E m \in Migrators :
        \/ \E up \in BOOLEAN : BeginMigration(m, up)
        \/ ApplyFile(m) \/ SkipFile(m) \/ FileFails(m) \/ MigrationReturns(m)
=============================================================================
