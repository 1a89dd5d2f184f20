----------------------------- MODULE HttpServer -----------------------------
(***************************************************************************)
(* The server process: start-up, the HTTP and HTTPS listeners, the         *)
(* sessions they create, the signals, and the legacy URI store with the    *)
(* file it is saved to.  One thread runs the event loop, so a completion   *)
(* handler is one step; sessions interleave between handlers.  Saving the  *)
(* store is several steps because the process may die between two records. *)
(* Requests to the link API do not touch this state (see LinkCommands).    *)
(***************************************************************************)
EXTENDS Naturals, FiniteSets

CONSTANTS
    Conns,            \* connections that may be open at the same time
    Uris,             \* request targets that reach the URI store
    Bodies,           \* payloads, with their content types
    ReadBack,         \* ReadBack[b]: what one save and load leave of b, see below
    Renames,          \* Renames[b]: the key that a line "URI:..." of b names, or Null
    Incomplete,       \* payloads with a line "RecordEnd"
    Certs,            \* certificate and key pairs the operator installs
    GoodCerts,        \* those that buildTlsContext accepts
    Listeners,        \* {"http"}, {"https"} or both, by configuration
    RedirectToHttps,  \* ServerConfig::http_redirect_to_https
    Null,
    MaxAccepts,       \* bound: connections accepted by one process
    MaxReloads,       \* bound: reloads of the TLS context by one process
    MaxStarts         \* bound: starts of the process

\* A payload is written as it is and read line by line: what is read back is its first
\* line, or the last one after it that begins with "Content-Type:"; one line is left as
\* it is the next time.  A line "URI:..." takes the place of the key, and after a line
\* "RecordEnd" the rest of the record is an incomplete one.
ASSUME PayloadAssumption ==
    /\ ReadBack \in [Bodies -> Bodies]
    /\ \A b \in Bodies :
          /\ ReadBack[ReadBack[b]] = ReadBack[b]
          /\ Renames[ReadBack[b]] = Null /\ ReadBack[b] \notin Incomplete
    /\ Renames \in [Bodies -> [pad : Nat, uri : Uris] \cup {Null}]
    /\ Incomplete \subseteq Bodies
    /\ Null \notin Bodies

ASSUME ServerAssumption ==
    /\ GoodCerts \subseteq Certs /\ Null \notin Certs
    /\ Listeners \subseteq {"http", "https"}
    /\ RedirectToHttps \in BOOLEAN
    /\ IsFiniteSet(Conns)
    /\ MaxAccepts \in Nat /\ MaxReloads \in Nat /\ MaxStarts \in Nat

\* The key of a stored payload: a URI after some number of spaces.
Key == [pad : Nat, uri : Uris]

Value == [pad : Nat, body : Bodies]

ASSUME NullAssumption == Null \notin Value /\ Null \notin Key

\* What a request can be to this part of the server: "other" is any method the
\* store does not have, and every request that is answered elsewhere.
Request == [method : {"get", "post", "delete", "other"}, uri : Uris, body : Bodies,
            size : {"ok", "target", "body"}]

Counters == {"accepted", "handshake_success", "handshake_failure", "parse_errors",
             "malformed", "requests", "reload_success", "reload_failure"}

VARIABLES
    mode,      \* "down", "running" or "saving"
    starts,
    data,      \* UriMapSingleton::data_
    file,      \* the records of uri.txt; none as long as there is no such file
    session,   \* the session of each connection
    disk,      \* the certificate pair the configuration points to
    context,   \* tls_context_, or Null
    count,     \* the counters of the process
    wrote,     \* history: the last payload posted to each URI and not deleted
    lost       \* history: a process died, could not save or could not open the file, or
               \* has loaded a payload with lines of the file's own

vars == <<mode, starts, data, file, session, disk, context, count, wrote, lost>>

closed == [stage |-> "closed", context |-> Null, deadline |-> FALSE]

Stages == {"closed", "handshake", "read", "write", "shutdown"}

Session == [stage : Stages, context : Certs \cup {Null}, deadline : BOOLEAN]

\* Types; a process that is down holds no session.
TypeOK ==
    /\ mode \in {"down", "running", "saving"} /\ starts \in Nat
    /\ DOMAIN data \subseteq Key /\ \A k \in DOMAIN data : data[k] \in Value
    /\ DOMAIN file \subseteq Key /\ \A k \in DOMAIN file : file[k] \in Value
    /\ session \in [Conns -> Session]
    /\ mode = "down" => session = [c \in Conns |-> closed]
    /\ disk \in Certs /\ context \in Certs \cup {Null}
    /\ count \in [Counters -> Nat]
    /\ wrote \in [Uris -> Bodies \cup {Null}] /\ lost \in BOOLEAN

empty == [k \in {} |-> Null]

Init ==
    /\ mode = "down" /\ starts = 0
    /\ data = empty /\ file = empty
    /\ session = [c \in Conns |-> closed]
    /\ disk \in Certs /\ context = Null
    /\ count = [m \in Counters |-> 0]
    /\ wrote = [u \in Uris |-> Null] /\ lost = FALSE

Tally(m) == count' = [count EXCEPT ![m] = @ + 1]

-----------------------------------------------------------------------------
(* The URI store and its file *)

\* One record through serialize and deserialize: "URI: " is written and "URI:"
\* taken off, unless the payload has such a line, too.
reloadedKey(k) == [k EXCEPT !.pad = @ + 1]

keyRead(k, v) == IF Renames[v.body] = Null THEN reloadedKey(k) ELSE Renames[v.body]

reloadedValue(v) == [pad |-> v.pad + 1, body |-> ReadBack[v.body]]

\* deserialize replaces the map by the records of the file.  They were written in
\* the order of an unordered_map: of two under one key, either may be the last.
deserialize(f) ==
    {m \in [{keyRead(j, f[j]) : j \in DOMAIN f} -> {reloadedValue(f[j]) : j \in DOMAIN f}] :
        \A k \in DOMAIN m : \E j \in DOMAIN f : k = keyRead(j, f[j]) /\ m[k] = reloadedValue(f[j])}

\* Slip: a payload that is there already is kept.
saveDataOnce(u, b) ==
    LET k == [pad |-> 0, uri |-> u]
    IN  [j \in DOMAIN data \cup {k} |-> IF j \in DOMAIN data THEN data[j] ELSE [pad |-> 0, body |-> b]]

saveData(u, b) ==
    LET k == [pad |-> 0, uri |-> u]
    IN  [j \in DOMAIN data \cup {k} |-> IF j = k THEN [pad |-> 0, body |-> b] ELSE data[j]]

deleteData(u) == [j \in DOMAIN data \ {[pad |-> 0, uri |-> u]} |-> data[j]]

getData(u) ==
    LET k == [pad |-> 0, uri |-> u]
    IN  IF k \in DOMAIN data THEN data[k] ELSE Null

\* handleApplicationRequest.
handleApplicationRequest(r) ==
    /\ data' = CASE r.method = "post" -> saveData(r.uri, r.body)
                 [] r.method = "delete" -> deleteData(r.uri)
                 [] OTHER -> data
    /\ wrote' = CASE r.method = "post" -> [wrote EXCEPT ![r.uri] = r.body]
                  [] r.method = "delete" /\ getData(r.uri) # Null -> [wrote EXCEPT ![r.uri] = Null]
                  [] OTHER -> wrote

-----------------------------------------------------------------------------
(* The process *)

https == "https" \in Listeners

\* main loads uri.txt.  An incomplete record ends the process; a file that is
\* there and cannot be opened is logged, and the map stays empty.
Load ==
    \/ /\ \A k \in DOMAIN file : file[k].body \notin Incomplete
       /\ data' \in deserialize(file)
       /\ lost' = (lost \/ \E k \in DOMAIN file : Renames[file[k].body] # Null)
    \/ /\ file # empty
       /\ data' = empty /\ lost' = TRUE

\* main up to io_context.run(): load the file if there is one, open the
\* listeners, build the TLS context.  Any of it may end the process: an incomplete
\* record, a port that is taken, a certificate that is not good.
Start ==
    /\ mode = "down" /\ starts < MaxStarts
    /\ starts' = starts + 1
    /\ \/ /\ https => disk \in GoodCerts
          /\ mode' = "running"
          /\ Load
          /\ context' = IF https THEN disk ELSE Null
          /\ count' = [m \in Counters |-> 0]
       \/ UNCHANGED <<mode, data, context, count, lost>>
    /\ UNCHANGED <<file, session, disk, wrote>>

\* The operator swaps the certificate files.
Rotate ==
    /\ disk' \in Certs \ {disk}
    /\ UNCHANGED <<mode, starts, data, file, session, context, count, wrote, lost>>

\* Slip: the context is replaced before it is known to be good.
ReloadUnchecked ==
    /\ mode = "running" /\ https
    /\ context' = disk
    /\ Tally(IF disk \in GoodCerts THEN "reload_success" ELSE "reload_failure")
    /\ UNCHANGED <<mode, starts, data, file, session, disk, wrote, lost>>

\* Slip: the context is rebuilt in place, under the sessions that use it.
ReloadInPlace ==
    /\ mode = "running" /\ https
    /\ count["reload_success"] + count["reload_failure"] < MaxReloads
    /\ IF disk \in GoodCerts
       THEN /\ context' = disk /\ Tally("reload_success")
            /\ session' = [c \in Conns |-> IF session[c].context = Null THEN session[c]
                                           ELSE [session[c] EXCEPT !.context = disk]]
       ELSE UNCHANGED <<context, session>> /\ Tally("reload_failure")
    /\ UNCHANGED <<mode, starts, data, file, disk, wrote, lost>>

\* SIGHUP: a context that cannot be built leaves the old one in place.
Reload ==
    /\ mode = "running" /\ https
    /\ count["reload_success"] + count["reload_failure"] < MaxReloads
    /\ IF disk \in GoodCerts
       THEN context' = disk /\ Tally("reload_success")
       ELSE UNCHANGED context /\ Tally("reload_failure")
    /\ UNCHANGED <<mode, starts, data, file, session, disk, wrote, lost>>

\* SIGINT or SIGTERM: the listeners are closed and uri.txt is truncated.  No
\* other handler runs from here on.
Stop ==
    /\ mode = "running"
    /\ mode' = "saving"
    /\ file' = empty
    /\ UNCHANGED <<starts, data, session, disk, context, count, wrote, lost>>

\* The process is gone, with its sessions.
exit ==
    /\ mode' = "down"
    /\ data' = empty
    /\ session' = [c \in Conns |-> closed]
    /\ context' = Null
    /\ UNCHANGED <<starts, disk, count, wrote>>

\* The same signal when uri.txt cannot be opened: logged, and the process ends.
StopUnsaved ==
    /\ mode = "running"
    /\ exit
    /\ lost' = TRUE
    /\ UNCHANGED file

SaveRecord(k) ==
    /\ mode = "saving" /\ k \notin DOMAIN file
    /\ file' = [j \in DOMAIN file \cup {k} |-> data[j]]
    /\ UNCHANGED <<mode, starts, data, session, disk, context, count, wrote, lost>>

\* io_context.stop(): run() returns and main ends.
SaveDone ==
    /\ mode = "saving" /\ DOMAIN data \subseteq DOMAIN file
    /\ exit
    /\ UNCHANGED <<file, lost>>

\* The process dies; a save whose writes fail half way leaves the same file behind.
Crash ==
    /\ mode # "down"
    /\ exit
    /\ lost' = TRUE
    /\ UNCHANGED file

-----------------------------------------------------------------------------
(* Sessions *)

move(c, stage) == session' = [session EXCEPT ![c].stage = stage]

close(c) == session' = [session EXCEPT ![c] = closed]

\* Slip: the read has no deadline.
AcceptWithoutDeadline(l, c) ==
    /\ mode = "running" /\ session[c].stage = "closed"
    /\ count["accepted"] < MaxAccepts
    /\ Tally("accepted")
    /\ session' = [session EXCEPT ![c] =
                     IF l = "https" THEN [stage |-> "handshake", context |-> context, deadline |-> TRUE]
                     ELSE [stage |-> "read", context |-> Null, deadline |-> FALSE]]
    /\ UNCHANGED <<mode, starts, data, file, disk, context, wrote, lost>>

\* A connection is accepted and its session run; the listener waits for the
\* next one.  A failed accept changes nothing.
Accept(l, c) ==
    /\ mode = "running" /\ session[c].stage = "closed"
    /\ count["accepted"] < MaxAccepts
    /\ Tally("accepted")
    /\ session' = [session EXCEPT ![c] =
                     IF l = "https" THEN [stage |-> "handshake", context |-> context, deadline |-> TRUE]
                     ELSE [stage |-> "read", context |-> Null, deadline |-> TRUE]]
    /\ UNCHANGED <<mode, starts, data, file, disk, context, wrote, lost>>

\* TlsSession::onHandshake.
HandshakeDone(c) ==
    /\ mode = "running" /\ session[c].stage = "handshake"
    /\ Tally("handshake_success")
    /\ session' = [session EXCEPT ![c].stage = "read", ![c].deadline = TRUE]
    /\ UNCHANGED <<mode, starts, data, file, disk, context, wrote, lost>>

\* Slip: a failed handshake is only logged.
HandshakeFailedUncounted(c) ==
    /\ mode = "running" /\ session[c].stage = "handshake"
    /\ close(c)
    /\ UNCHANGED <<mode, starts, data, file, disk, context, count, wrote, lost>>

HandshakeFailed(c) ==
    /\ mode = "running" /\ session[c].stage = "handshake"
    /\ Tally("handshake_failure")
    /\ close(c)
    /\ UNCHANGED <<mode, starts, data, file, disk, context, wrote, lost>>

\* onRead: limits, then the redirect to HTTPS, then the handler; the request is
\* counted and the response written.  The in-flight gauge goes up and down
\* within the handler.
ReadDone(c, r) ==
    LET tls == session[c].context # Null
        refused == r.size # "ok"
    IN  /\ mode = "running" /\ session[c].stage = "read"
        /\ IF refused \/ (~tls /\ https /\ RedirectToHttps)
           THEN UNCHANGED <<data, wrote>>
           ELSE handleApplicationRequest(r)
        /\ count' = [count EXCEPT !["requests"] = @ + 1,
                                  !["malformed"] = IF refused THEN @ + 1 ELSE @]
        /\ move(c, "write")
        /\ UNCHANGED <<mode, starts, file, disk, context, lost>>

\* onRead with an error, the deadline included.
ReadFailed(c) ==
    /\ mode = "running" /\ session[c].stage = "read"
    /\ Tally("parse_errors")
    /\ close(c)
    /\ UNCHANGED <<mode, starts, data, file, disk, context, wrote, lost>>

\* onWrite, whatever became of the response: a plain session ends, a TLS
\* session says goodbye under a new deadline.
WriteDone(c) ==
    /\ mode = "running" /\ session[c].stage = "write"
    /\ IF session[c].context = Null THEN close(c)
       ELSE session' = [session EXCEPT ![c].stage = "shutdown", ![c].deadline = TRUE]
    /\ UNCHANGED <<mode, starts, data, file, disk, context, count, wrote, lost>>

\* TlsSession::onShutdown.
ShutdownDone(c) ==
    /\ mode = "running" /\ session[c].stage = "shutdown"
    /\ close(c)
    /\ UNCHANGED <<mode, starts, data, file, disk, context, count, wrote, lost>>

\* The deadline of the stream passes: the pending operation fails.
Expire(c) ==
    /\ session[c].deadline
    /\ HandshakeFailed(c) \/ ReadFailed(c) \/ WriteDone(c) \/ ShutdownDone(c)

Peer(c) ==
    \/ \E l \in Listeners : Accept(l, c)
    \/ HandshakeDone(c)
    \/ HandshakeFailed(c)
    \/ \E r \in Request : ReadDone(c, r)
    \/ ReadFailed(c)
    \/ WriteDone(c)
    \/ ShutdownDone(c)

Next ==
    \/ Start \/ Rotate \/ Reload \/ Stop \/ StopUnsaved \/ SaveDone \/ Crash
    \/ \E k \in DOMAIN data : SaveRecord(k)
    \/ \E c \in Conns : Peer(c)

Spec == Init /\ [][Next]_vars

\* The event loop runs the timers that are due and the signal handler to its
\* end; peers, operators and signals owe the server nothing.
FairSpec ==
    /\ Spec
    /\ \A c \in Conns : WF_vars(Expire(c))
    /\ WF_vars(\E k \in DOMAIN data : SaveRecord(k)) /\ WF_vars(SaveDone)

-----------------------------------------------------------------------------
(* Properties *)

\* Every connection of the process ends in exactly one of the counters, or is
\* still on its way to one: none is dropped without a trace or counted twice.
ConnectionsAccounted ==
    mode = "running" =>
        count["accepted"] = count["handshake_failure"] + count["parse_errors"] + count["requests"]
                            + Cardinality({c \in Conns : session[c].stage \in {"handshake", "read"}})

\* The listener and every TLS session use a context that could be built, over
\* any number of rotations and reloads, failed ones included.
ServesGoodContext ==
    /\ mode = "running" /\ https => context \in GoodCerts
    /\ \A c \in Conns : session[c].context \in GoodCerts \cup {Null}

\* A reload is for the connections to come: a session that is open, in its
\* handshake or later, keeps the context it began with to its end.
SessionKeepsContext ==
    [][\A c \in Conns :
          session[c].stage # "closed" /\ session'[c].stage # "closed" =>
              session'[c].context = session[c].context]_vars

\* What saves and loads may have left of a payload.
keptOf(b) == {b, ReadBack[b]}

\* Each URI that was posted and not deleted since has a record with the payload
\* of the last post, or what saves and loads have kept of it.
Holds(records) ==
    \A u \in Uris : wrote[u] # Null =>
        \E k \in DOMAIN records :
            k.uri = u /\ records[k].body \in keptOf(wrote[u])

\* A process that is stopped by a signal leaves a record in uri.txt for each URI
\* that was posted and not deleted since, over any number of restarts, those that
\* fail included.  What it takes to lose one is named in the history `lost`: a
\* crash, a file that cannot be written or opened, or a payload with a line
\* "URI:..." that went through the file.
StopSavesEverything == mode = "down" /\ ~lost => Holds(file)

\* Every session ends: silent peers are cut off at the deadline, in each stage.
SessionsEnd == \A c \in Conns : session[c].stage # "closed" ~> session[c].stage = "closed"

\* uri_map_singleton.hpp:34 "We save data in order to be able to retrieve it
\* for GET requests." and :15-17: what was posted is found by a GET, after a
\* clean restart too.
StoredUrisAreFound ==
    mode = "running" /\ ~lost =>
        \A u \in Uris : wrote[u] # Null => getData(u) # Null
=============================================================================
