------------------------------ MODULE Database ------------------------------
(***************************************************************************)
(* The metadata repository, the click event repository and the migration   *)
(* runner of several processes over one database.  The repositories share  *)
(* nothing but the schema, so that a behaviour has calls to one of them,   *)
(* beside the migrations, which are about both.                            *)
(***************************************************************************)
EXTENDS SqlMetadata, ClickEvents

VARIABLE repository  \* the one that is called

vars == <<repository, schemaVars, now, calls, faults, metaVars, clickVars>>

\* The types of the three parts; rows are in tables that are there.
TypeOK ==
    /\ SchemaTypeOK /\ MetadataTypeOK /\ ClickTypeOK
    /\ "links" \notin tables => present = {}
    /\ "click_events" \notin tables => click_events = {}

Init == repository \in {"metadata", "click_events"} /\ SchemaInit /\ MetadataInit /\ ClickInit

Tick ==
    /\ now < MaxTime /\ now' = now + 1
    /\ UNCHANGED <<repository, schemaVars, calls, faults, metaVars, clickVars>>

Next ==
    \/ SchemaNext /\ LinksFollowTable /\ ClicksFollowTable /\ UNCHANGED repository
    \/ repository = "metadata" /\ MetadataNext /\ UNCHANGED <<repository, clickVars>>
    \/ repository = "click_events" /\ ClickNext /\ UNCHANGED <<repository, metaVars>>
    \/ Tick

Spec == Init /\ [][Next]_vars

\* Whoever relies on a table finds it.  ApplyUp that returns true has left every table in
\* place, however many runs were cut short before it and whichever others overlap it, as
\* long as none of them goes down and it has found and read every file: the runner itself
\* says true of a directory that is missing and of a file it cannot open.  A process that
\* takes its table for granted has seen it created; only a down migration can have taken
\* it away, and no call of that process puts it back.
TablesAreThere ==
    /\ \A m \in Migrators :
          migration[m].state = "true" /\ migration[m].up /\ migration[m].alone
              /\ migration[m].whole => tables = Tables
    /\ \A s \in Servers : bootstrapped[s] => "links" \in tables \/ dropped
=============================================================================
