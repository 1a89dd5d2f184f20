--------------------------- MODULE HttpServerProofs ---------------------------
(***************************************************************************)
(* The safety properties of the server process, for every number of        *)
(* connections, certificates, payloads, restarts and reloads.              *)
(***************************************************************************)
EXTENDS HttpServer, FiniteSetTheorems, TLAPS

\* While the file is written it holds records of the map, unchanged.
SavesTheMap ==
    mode = "saving" => \A k \in DOMAIN file : k \in DOMAIN data /\ file[k] = data[k]

\* What a session becomes in each of its steps is a session.
LEMMA SessionSteps ==
    ASSUME NEW s \in Session, NEW stage \in Stages, NEW ctx \in Certs \cup {Null}
    PROVE  /\ closed \in Session
           /\ [s EXCEPT !.stage = stage] \in Session
           /\ [s EXCEPT !.stage = stage, !.deadline = TRUE] \in Session
           /\ [stage |-> stage, context |-> ctx, deadline |-> TRUE] \in Session
  BY Zenon DEF Session, closed, Stages

\* A record that went through the file once more is a record of the store.
LEMMA ReloadedRecord ==
    ASSUME NEW k \in Key, NEW v \in Value
    PROVE  /\ reloadedKey(k) = [pad |-> k.pad + 1, uri |-> k.uri]
           /\ keyRead(k, v) \in Key
           /\ reloadedValue(v) \in Value /\ reloadedValue(v).body = ReadBack[v.body]
  <1>1. k.pad \in Nat /\ k.uri \in Uris /\ k = [pad |-> k.pad, uri |-> k.uri]
    BY DEF Key
  <1>2. reloadedKey(k) = [pad |-> k.pad + 1, uri |-> k.uri]
    BY <1>1 DEF reloadedKey
  <1>3. v.pad \in Nat /\ v.body \in Bodies /\ ReadBack[v.body] \in Bodies
    BY PayloadAssumption DEF Value
  <1>4. Renames[v.body] \in Key \cup {Null}
    BY <1>3, PayloadAssumption DEF Key
  <1>5. keyRead(k, v) \in Key
    BY <1>1, <1>2, <1>4 DEF keyRead, Key
  <1> QED BY <1>2, <1>3, <1>5 DEF Value, reloadedValue

\* Two keys that read the same after a load were the same before.
LEMMA ReloadedKeysDiffer ==
    ASSUME NEW i \in Key, NEW j \in Key, reloadedKey(i) = reloadedKey(j)
    PROVE  i = j
  <1>1. /\ i.pad \in Nat /\ i = [pad |-> i.pad, uri |-> i.uri]
        /\ j.pad \in Nat /\ j = [pad |-> j.pad, uri |-> j.uri]
    BY DEF Key
  <1>2. reloadedKey(i).pad = i.pad + 1 /\ reloadedKey(i).uri = i.uri
    BY <1>1 DEF reloadedKey
  <1>3. reloadedKey(j).pad = j.pad + 1 /\ reloadedKey(j).uri = j.uri
    BY <1>1 DEF reloadedKey
  <1>4. i.pad = j.pad /\ i.uri = j.uri
    BY <1>1, <1>2, <1>3
  <1> QED BY <1>1, <1>4

\* deserialize: what is in the map was a record of the file, and each record of the file
\* has a value under the key that is read for it.
LEMMA Deserialized ==
    ASSUME data' \in deserialize(file)
    PROVE  /\ DOMAIN data' = {keyRead(j, file[j]) : j \in DOMAIN file}
           /\ \A k \in DOMAIN data' : \E j \in DOMAIN file :
                 k = keyRead(j, file[j]) /\ data'[k] = reloadedValue(file[j])
  BY DEF deserialize

\* The map stays a map of records under each request.
LEMMA RequestKeepsRecords ==
    ASSUME DOMAIN data \subseteq Key, \A k \in DOMAIN data : data[k] \in Value,
           wrote \in [Uris -> Bodies \cup {Null}],
           NEW r \in Request, handleApplicationRequest(r)
    PROVE  /\ DOMAIN data' \subseteq Key /\ \A k \in DOMAIN data' : data'[k] \in Value
           /\ wrote' \in [Uris -> Bodies \cup {Null}]
  <1>1. r.uri \in Uris /\ r.body \in Bodies
    BY DEF Request
  <1>2. [pad |-> 0, uri |-> r.uri] \in Key /\ [pad |-> 0, body |-> r.body] \in Value
    BY <1>1 DEF Key, Value
  <1>3. wrote' \in [Uris -> Bodies \cup {Null}]
    BY <1>1 DEF handleApplicationRequest
  <1>4. CASE r.method = "post"
    <2>1. data' = saveData(r.uri, r.body)
      BY <1>4 DEF handleApplicationRequest
    <2> QED BY <1>2, <1>3, <2>1, Zenon DEF saveData
  <1>5. CASE r.method = "delete"
    <2>1. data' = deleteData(r.uri)
      BY <1>5 DEF handleApplicationRequest
    <2> QED BY <1>3, <2>1, Zenon DEF deleteData
  <1>6. CASE r.method # "post" /\ r.method # "delete"
    <2>1. data' = data
      BY <1>6 DEF handleApplicationRequest
    <2> QED BY <1>3, <2>1
  <1> QED BY <1>4, <1>5, <1>6
\* The step of a session that changes neither the store nor the process keeps the types
\* when the session it leaves is one.
LEMMA SessionStepKeepsType ==
    ASSUME TypeOK, SavesTheMap, mode = "running", NEW c \in Conns, NEW s \in Session,
           session' = [session EXCEPT ![c] = s], count' \in [Counters -> Nat],
           UNCHANGED <<mode, starts, file, disk, context, lost>>,
           DOMAIN data' \subseteq Key, \A k \in DOMAIN data' : data'[k] \in Value,
           wrote' \in [Uris -> Bodies \cup {Null}]
    PROVE  TypeOK' /\ SavesTheMap'
  <1>1. session' \in [Conns -> Session]
    BY DEF TypeOK
  <1> QED BY <1>1 DEF TypeOK, SavesTheMap

\* A counter that goes up is still a counter.
LEMMA TallyType ==
    ASSUME count \in [Counters -> Nat], NEW m \in Counters, Tally(m)
    PROVE  count' \in [Counters -> Nat]
  BY DEF Tally

\* TypeOK is inductive together with the state of a file that is being written.
LEMMA StepKeepsType == TypeOK /\ SavesTheMap /\ [Next]_vars => TypeOK' /\ SavesTheMap'
  <1> SUFFICES ASSUME TypeOK, SavesTheMap, [Next]_vars PROVE TypeOK' /\ SavesTheMap'
    OBVIOUS
  <1> USE DEF SavesTheMap
  <1>1. CASE Start
    <2>1. CASE mode' = "running"
      <3>1. /\ starts' = starts + 1 /\ UNCHANGED <<file, session, disk, wrote>> /\ Load
            /\ context' = IF https THEN disk ELSE Null
            /\ count' = [m \in Counters |-> 0]
        BY <1>1, <2>1 DEF Start
      <3>2. lost' \in BOOLEAN
        BY <3>1, Zenon DEF Load, TypeOK
      <3>3. DOMAIN file \subseteq Key /\ \A k \in DOMAIN file : file[k] \in Value
        BY DEF TypeOK
      <3>4. /\ DOMAIN data' \subseteq Key /\ \A k \in DOMAIN data' : data'[k] \in Value
        <4>1. CASE data' \in deserialize(file)
          <5>1. /\ DOMAIN data' = {keyRead(j, file[j]) : j \in DOMAIN file}
                /\ \A k \in DOMAIN data' : \E j \in DOMAIN file :
                      k = keyRead(j, file[j]) /\ data'[k] = reloadedValue(file[j])
            BY <4>1, Deserialized, Zenon
          <5>2. ASSUME NEW j \in DOMAIN file
                PROVE  keyRead(j, file[j]) \in Key /\ reloadedValue(file[j]) \in Value
            BY <3>3, ReloadedRecord, Zenon
          <5> QED BY <5>1, <5>2, Zenon
        <4>2. CASE data' = empty
          BY <4>2 DEF empty
        <4> QED BY <3>1, <4>1, <4>2, Zenon DEF Load
      <3> QED BY <2>1, <3>1, <3>2, <3>4 DEF TypeOK
    <2>2. CASE mode' # "running"
      <3>1. /\ starts' = starts + 1
            /\ UNCHANGED <<mode, data, file, session, disk, context, count, wrote, lost>>
        BY <1>1, <2>2 DEF Start
      <3> QED BY <3>1 DEF TypeOK
    <2> QED BY <2>1, <2>2
  <1>2. CASE Rotate
    BY <1>2 DEF Rotate, TypeOK
  <1>3. CASE Reload
    <2>1. count' \in [Counters -> Nat]
      BY <1>3 DEF Reload, Tally, Counters, TypeOK
    <2> QED BY <1>3, <2>1 DEF Reload, TypeOK
  <1>4. CASE Stop
    <2>1. DOMAIN file' = {}
      BY <1>4 DEF Stop, empty
    <2> QED BY <1>4, <2>1 DEF Stop, TypeOK
  <1>5. ASSUME exit, UNCHANGED file \/ SaveDone, lost' \in BOOLEAN PROVE TypeOK' /\ SavesTheMap'
    <2>1. /\ mode' = "down" /\ DOMAIN data' = {} /\ session' = [c \in Conns |-> closed]
          /\ context' = Null /\ UNCHANGED <<starts, disk, count, wrote, file>>
      BY <1>5 DEF exit, empty, SaveDone
    <2>2. closed \in Session
      BY DEF closed, Session, Stages
    <2>3. session' \in [Conns -> Session]
      BY <2>1, <2>2
    <2> QED BY <1>5, <2>1, <2>3 DEF TypeOK
  <1>6. CASE StopUnsaved \/ Crash
    BY <1>5, <1>6, Zenon DEF StopUnsaved, Crash
  <1>7. CASE SaveDone
    BY <1>5, <1>7 DEF SaveDone, TypeOK
  <1>8. ASSUME NEW k \in DOMAIN data, SaveRecord(k) PROVE TypeOK' /\ SavesTheMap'
    <2>1. /\ mode = "saving" /\ file' = [j \in DOMAIN file \cup {k} |-> data[j]]
          /\ UNCHANGED <<mode, starts, data, session, disk, context, count, wrote, lost>>
      BY <1>8 DEF SaveRecord
    <2>2. \A j \in DOMAIN file' : j \in DOMAIN data /\ file'[j] = data[j]
      BY <2>1
    <2>3. DOMAIN file' \subseteq Key /\ \A j \in DOMAIN file' : file'[j] \in Value
      BY <2>2 DEF TypeOK
    <2> QED BY <2>1, <2>2, <2>3 DEF TypeOK
  <1>9. ASSUME NEW c \in Conns, Peer(c) PROVE TypeOK' /\ SavesTheMap'
    <2> DEFINE s == session[c]
    <2>1. /\ s \in Session /\ session \in [Conns -> Session] /\ count \in [Counters -> Nat]
          /\ DOMAIN data \subseteq Key /\ \A k \in DOMAIN data : data[k] \in Value
          /\ wrote \in [Uris -> Bodies \cup {Null}] /\ context \in Certs \cup {Null}
      BY DEF TypeOK
    <2>2. \A m \in Counters : Tally(m) => count' \in [Counters -> Nat]
      BY <2>1, TallyType
    <2>3. ASSUME NEW l \in Listeners, Accept(l, c) PROVE TypeOK' /\ SavesTheMap'
      <3>1. count' \in [Counters -> Nat]
        BY <2>2, <2>3 DEF Accept, Counters
      <3>2. CASE l = "https"
        <4>1. [stage |-> "handshake", context |-> context, deadline |-> TRUE] \in Session
          BY <2>1, SessionSteps, Zenon DEF Stages
        <4> QED BY <2>1, <2>3, <3>1, <3>2, <4>1, SessionStepKeepsType, Zenon DEF Accept
      <3>3. CASE l # "https"
        <4>1. [stage |-> "read", context |-> Null, deadline |-> TRUE] \in Session
          BY <2>1, SessionSteps, Zenon DEF Stages
        <4> QED BY <2>1, <2>3, <3>1, <3>3, <4>1, SessionStepKeepsType, Zenon DEF Accept
      <3> QED BY <3>2, <3>3
    <2>4. CASE HandshakeDone(c)
      <3>1. [s EXCEPT !.stage = "read", !.deadline = TRUE] \in Session
        BY <2>1, SessionSteps, Zenon DEF Stages
      <3>2. session' = [session EXCEPT ![c] = [s EXCEPT !.stage = "read", !.deadline = TRUE]]
        BY <2>1, <2>4, Zenon DEF HandshakeDone
      <3>3. count' \in [Counters -> Nat]
        BY <2>2, <2>4 DEF HandshakeDone, Counters
      <3> QED BY <2>1, <2>4, <3>1, <3>2, <3>3, SessionStepKeepsType, Zenon DEF HandshakeDone
    <2>5. CASE HandshakeFailed(c) \/ ReadFailed(c)
      <3>1. closed \in Session
        BY <2>1, SessionSteps, Zenon DEF Stages
      <3>2. count' \in [Counters -> Nat]
        BY <2>2, <2>5 DEF HandshakeFailed, ReadFailed, Counters
      <3> QED BY <2>1, <2>5, <3>1, <3>2, SessionStepKeepsType DEF HandshakeFailed, ReadFailed, close
    <2>6. ASSUME NEW r \in Request, ReadDone(c, r) PROVE TypeOK' /\ SavesTheMap'
      <3>1. [s EXCEPT !.stage = "write"] \in Session
        BY <2>1, SessionSteps, Zenon DEF Stages
      <3>2. session' = [session EXCEPT ![c] = [s EXCEPT !.stage = "write"]]
        BY <2>1, <2>6 DEF ReadDone, move
      <3>3. count' \in [Counters -> Nat]
        BY <2>1, <2>6 DEF ReadDone, Counters
      <3>4. /\ DOMAIN data' \subseteq Key /\ \A k \in DOMAIN data' : data'[k] \in Value
            /\ wrote' \in [Uris -> Bodies \cup {Null}]
        <4>1. UNCHANGED <<data, wrote>> \/ handleApplicationRequest(r)
          BY <2>6 DEF ReadDone
        <4> QED BY <2>1, <4>1, RequestKeepsRecords
      <3> QED BY <2>6, <3>1, <3>2, <3>3, <3>4, SessionStepKeepsType, Zenon DEF ReadDone
    <2>7. CASE WriteDone(c) \/ ShutdownDone(c)
      <3>1. closed \in Session /\ [s EXCEPT !.stage = "shutdown", !.deadline = TRUE] \in Session
        BY <2>1, SessionSteps, Zenon DEF Stages
      <3>2. \/ session' = [session EXCEPT ![c] = closed]
            \/ session' = [session EXCEPT ![c] = [s EXCEPT !.stage = "shutdown", !.deadline = TRUE]]
        BY <2>1, <2>7, Zenon DEF WriteDone, ShutdownDone, close
      <3>3. /\ mode = "running"
            /\ UNCHANGED <<mode, starts, data, file, disk, context, count, wrote, lost>>
        BY <2>7 DEF WriteDone, ShutdownDone
      <3> QED BY <2>1, <3>1, <3>2, <3>3, SessionStepKeepsType, Zenon
    <2> QED BY <1>9, <2>3, <2>4, <2>5, <2>6, <2>7 DEF Peer
  <1>10. CASE UNCHANGED vars
    BY <1>10 DEF vars, TypeOK
  <1> QED BY <1>1, <1>2, <1>3, <1>4, <1>6, <1>7, <1>8, <1>9, <1>10 DEF Next
-----------------------------------------------------------------------------
(* The TLS context *)

\* A session only ever gets the context of the listener, and the listener one that could
\* be built.
LEMMA StepKeepsGoodContext == TypeOK /\ ServesGoodContext /\ [Next]_vars => ServesGoodContext'
  <1> SUFFICES ASSUME TypeOK, ServesGoodContext, [Next]_vars PROVE ServesGoodContext'
    OBVIOUS
  <1>1. session \in [Conns -> Session]
    BY DEF TypeOK
  <1>2. CASE Start
    BY <1>2 DEF Start, ServesGoodContext
  <1>3. CASE Rotate
    BY <1>3 DEF Rotate, ServesGoodContext
  <1>4. CASE Reload
    BY <1>4 DEF Reload, ServesGoodContext
  <1>5. CASE Stop
    BY <1>5 DEF Stop, ServesGoodContext
  <1>6. CASE StopUnsaved \/ SaveDone \/ Crash
    <2>1. mode' = "down" /\ session' = [c \in Conns |-> closed]
      BY <1>6 DEF StopUnsaved, SaveDone, Crash, exit
    <2> QED BY <2>1 DEF ServesGoodContext, closed
  <1>7. ASSUME NEW k \in DOMAIN data, SaveRecord(k) PROVE ServesGoodContext'
    BY <1>7 DEF SaveRecord, ServesGoodContext
  <1>8. ASSUME NEW c \in Conns, Peer(c) PROVE ServesGoodContext'
    <2>1. UNCHANGED <<mode, context>>
      BY <1>8 DEF Peer, Accept, HandshakeDone, HandshakeFailed, ReadDone, ReadFailed, WriteDone, ShutdownDone
    <2>2. ASSUME NEW s, session' = [session EXCEPT ![c] = s], s.context \in GoodCerts \cup {Null}
          PROVE  ServesGoodContext'
      BY <1>1, <2>1, <2>2 DEF ServesGoodContext
    <2>3. session[c] \in Session /\ session[c].context \in GoodCerts \cup {Null} /\ closed.context = Null
      BY <1>1 DEF ServesGoodContext, closed
    <2>4. ASSUME NEW l \in Listeners, Accept(l, c) PROVE ServesGoodContext'
      <3>1. l = "https" => context \in GoodCerts
        BY <2>4 DEF Accept, ServesGoodContext, https
      <3>2. \/ /\ l = "https"
               /\ session' = [session EXCEPT ![c] = [stage |-> "handshake", context |-> context, deadline |-> TRUE]]
            \/ session' = [session EXCEPT ![c] = [stage |-> "read", context |-> Null, deadline |-> TRUE]]
        BY <2>4, Zenon DEF Accept
      <3> QED BY <2>2, <3>1, <3>2, Zenon
    <2>5. CASE HandshakeDone(c)
      <3>1. session' = [session EXCEPT ![c] = [session[c] EXCEPT !.stage = "read", !.deadline = TRUE]]
        BY <1>1, <2>5, Zenon DEF HandshakeDone
      <3> QED BY <2>2, <2>3, <3>1, Zenon DEF Session
    <2>6. CASE HandshakeFailed(c) \/ ReadFailed(c) \/ ShutdownDone(c)
      BY <2>2, <2>3, <2>6 DEF HandshakeFailed, ReadFailed, ShutdownDone, close
    <2>7. ASSUME NEW r \in Request, ReadDone(c, r) PROVE ServesGoodContext'
      <3>1. session' = [session EXCEPT ![c] = [session[c] EXCEPT !.stage = "write"]]
        BY <1>1, <2>7 DEF ReadDone, move
      <3> QED BY <2>2, <2>3, <3>1, Zenon DEF Session
    <2>8. CASE WriteDone(c)
      <3>1. \/ session' = [session EXCEPT ![c] = closed]
            \/ session' = [session EXCEPT ![c] = [session[c] EXCEPT !.stage = "shutdown", !.deadline = TRUE]]
        BY <1>1, <2>8, Zenon DEF WriteDone, close
      <3> QED BY <2>2, <2>3, <3>1, Zenon DEF Session
    <2> QED BY <1>8, <2>4, <2>5, <2>6, <2>7, <2>8 DEF Peer
  <1>9. CASE UNCHANGED vars
    BY <1>9 DEF vars, ServesGoodContext
  <1> QED BY <1>2, <1>3, <1>4, <1>5, <1>6, <1>7, <1>8, <1>9 DEF Next

-----------------------------------------------------------------------------
(* The counters *)

pending == {c \in Conns : session[c].stage \in {"handshake", "read"}}

ended == count["handshake_failure"] + count["parse_errors"] + count["requests"]

\* Connections that are accepted, go on, or end: the balance stays even.
LEMMA Balance ==
    ASSUME TypeOK, count' \in [Counters -> Nat],
           count["accepted"] = ended + Cardinality(pending), NEW c \in Conns,
           \/ /\ c \notin pending /\ pending' = pending \cup {c}
              /\ count'["accepted"] = count["accepted"] + 1 /\ ended' = ended
           \/ /\ c \in pending /\ pending' = pending \ {c}
              /\ count'["accepted"] = count["accepted"] /\ ended' = ended + 1
           \/ /\ pending' = pending
              /\ count'["accepted"] = count["accepted"] /\ ended' = ended
    PROVE  count'["accepted"] = ended' + Cardinality(pending')
  <1>1. IsFiniteSet(pending)
    BY ServerAssumption, FS_Subset DEF pending
  <1>2. /\ Cardinality(pending \cup {c}) = IF c \in pending THEN Cardinality(pending) ELSE Cardinality(pending) + 1
        /\ Cardinality(pending \ {c}) = IF c \in pending THEN Cardinality(pending) - 1 ELSE Cardinality(pending)
        /\ Cardinality(pending) \in Nat
    BY <1>1, FS_AddElement, FS_RemoveElement, FS_CardinalityType
  <1>3. count["accepted"] \in Nat /\ ended \in Nat
    BY DEF TypeOK, Counters, ended
  <1>4. CASE c \notin pending /\ pending' = pending \cup {c}
    <2>1. Cardinality(pending') = Cardinality(pending) + 1
      BY <1>2, <1>4
    <2>2. count'["accepted"] = count["accepted"] + 1 /\ ended' = ended
      BY <1>4
    <2> QED BY <1>2, <1>3, <2>1, <2>2
  <1>5. CASE c \in pending /\ pending' = pending \ {c}
    <2>1. Cardinality(pending') = Cardinality(pending) - 1
      BY <1>2, <1>5
    <2>2. count'["accepted"] = count["accepted"] /\ ended' = ended + 1
      BY <1>5
    <2> QED BY <1>2, <1>3, <2>1, <2>2
  <1>6. CASE pending' = pending
    BY <1>6
  <1> QED BY <1>4, <1>5, <1>6

\* What a session becomes decides whether its connection is still pending.
LEMMA PendingAfter ==
    ASSUME session \in [Conns -> Session], NEW c \in Conns, NEW s,
           session' = [session EXCEPT ![c] = s]
    PROVE  pending' = IF s.stage \in {"handshake", "read"} THEN pending \cup {c} ELSE pending \ {c}
  BY DEF pending

\* Each handler that ends the first part of a connection counts it once.
LEMMA StepKeepsAccounts ==
    TypeOK /\ TypeOK' /\ ConnectionsAccounted /\ [Next]_vars => ConnectionsAccounted'
  <1> SUFFICES ASSUME TypeOK, TypeOK', ConnectionsAccounted, [Next]_vars, mode' = "running"
               PROVE  count'["accepted"] = ended' + Cardinality(pending')
    BY DEF ConnectionsAccounted, pending, ended
  <1>1. /\ session \in [Conns -> Session] /\ count \in [Counters -> Nat]
        /\ count' \in [Counters -> Nat]
    BY DEF TypeOK
  <1>2. mode = "running" => count["accepted"] = ended + Cardinality(pending)
    BY DEF ConnectionsAccounted, pending, ended
  <1>3. CASE mode = "running" /\ UNCHANGED <<session, count>>
    BY <1>2, <1>3 DEF pending, ended
  <1>4. CASE Start
    <2>1. mode = "down" /\ count' = [m \in Counters |-> 0] /\ session' = session
      BY <1>4 DEF Start
    <2>2. pending' = {}
      BY <2>1 DEF TypeOK, pending, closed
    <2>3. count'["accepted"] = 0 /\ ended' = 0
      BY <2>1 DEF ended, Counters
    <2> QED BY <2>2, <2>3, FS_EmptySet
  <1>5. CASE Rotate
    BY <1>3, <1>5 DEF Rotate
  <1>6. CASE Reload
    <2>1. /\ mode = "running" /\ session' = session
          /\ Tally("reload_success") \/ Tally("reload_failure")
      BY <1>6 DEF Reload
    <2>2. count'["accepted"] = count["accepted"] /\ ended' = ended
      BY <1>1, <2>1 DEF Tally, Counters, ended
    <2> QED BY <1>2, <2>1, <2>2 DEF pending
  <1>7. CASE Stop \/ StopUnsaved \/ SaveDone \/ Crash \/ \E k \in DOMAIN data : SaveRecord(k)
    BY <1>7, Zenon DEF Stop, StopUnsaved, SaveDone, Crash, exit, SaveRecord
  <1>8. ASSUME NEW c \in Conns, Peer(c) PROVE count'["accepted"] = ended' + Cardinality(pending')
    <2>1. mode = "running" /\ count["accepted"] = ended + Cardinality(pending)
      BY <1>2, <1>8 DEF Peer, Accept, HandshakeDone, HandshakeFailed, ReadDone, ReadFailed, WriteDone, ShutdownDone
    <2>2. c \in pending <=> session[c].stage \in {"handshake", "read"}
      BY DEF pending
    <2>3. session[c] \in Session /\ closed.stage = "closed"
      BY <1>1 DEF closed
    <2>4. ASSUME NEW l \in Listeners, Accept(l, c) PROVE count'["accepted"] = ended' + Cardinality(pending')
      <3>1. pending' = pending \cup {c} /\ c \notin pending
        <4>1. session[c].stage = "closed"
          BY <2>4 DEF Accept
        <4>2. \/ session' = [session EXCEPT ![c] = [stage |-> "handshake", context |-> context, deadline |-> TRUE]]
              \/ session' = [session EXCEPT ![c] = [stage |-> "read", context |-> Null, deadline |-> TRUE]]
          BY <2>4, Zenon DEF Accept
        <4> QED BY <1>1, <2>2, <4>1, <4>2, PendingAfter
      <3>2. count'["accepted"] = count["accepted"] + 1 /\ ended' = ended
        BY <1>1, <2>4 DEF Accept, Tally, Counters, ended
      <3> QED BY <1>1, <2>1, <3>1, <3>2, Balance, Zenon
    <2>5. CASE HandshakeDone(c)
      <3>1. session' = [session EXCEPT ![c] = [session[c] EXCEPT !.stage = "read", !.deadline = TRUE]]
        BY <1>1, <2>5, Zenon DEF HandshakeDone
      <3>2. [session[c] EXCEPT !.stage = "read", !.deadline = TRUE].stage = "read"
        BY <2>3 DEF Session
      <3>3. pending' = pending \cup {c} /\ c \in pending
        BY <1>1, <2>2, <2>5, <3>1, <3>2, PendingAfter, Zenon DEF HandshakeDone
      <3>4. pending' = pending
        BY <3>3
      <3>5. count'["accepted"] = count["accepted"] /\ ended' = ended
        BY <1>1, <2>5 DEF HandshakeDone, Tally, Counters, ended
      <3> QED BY <2>1, <3>4, <3>5
    <2>6. CASE HandshakeFailed(c)
      <3>1. pending' = pending \ {c} /\ c \in pending
        BY <1>1, <2>2, <2>3, <2>6, PendingAfter, Zenon DEF HandshakeFailed, close
      <3>2. count'["accepted"] = count["accepted"] /\ ended' = ended + 1
        BY <1>1, <2>6 DEF HandshakeFailed, Tally, Counters, ended
      <3> QED BY <1>1, <2>1, <3>1, <3>2, Balance
    <2>7. CASE ReadFailed(c)
      <3>1. pending' = pending \ {c} /\ c \in pending
        BY <1>1, <2>2, <2>3, <2>7, PendingAfter, Zenon DEF ReadFailed, close
      <3>2. count'["accepted"] = count["accepted"] /\ ended' = ended + 1
        BY <1>1, <2>7 DEF ReadFailed, Tally, Counters, ended
      <3> QED BY <1>1, <2>1, <3>1, <3>2, Balance
    <2>8. ASSUME NEW r \in Request, ReadDone(c, r) PROVE count'["accepted"] = ended' + Cardinality(pending')
      <3>1. session' = [session EXCEPT ![c] = [session[c] EXCEPT !.stage = "write"]]
        BY <1>1, <2>8 DEF ReadDone, move
      <3>2. [session[c] EXCEPT !.stage = "write"].stage = "write"
        BY <2>3 DEF Session
      <3>3. pending' = pending \ {c} /\ c \in pending
        BY <1>1, <2>2, <2>8, <3>1, <3>2, PendingAfter, Zenon DEF ReadDone
      <3>4. count'["accepted"] = count["accepted"] /\ ended' = ended + 1
        BY <1>1, <2>8 DEF ReadDone, Counters, ended
      <3> QED BY <1>1, <2>1, <3>3, <3>4, Balance
    <2>9. CASE WriteDone(c) \/ ShutdownDone(c)
      <3>1. /\ count' = count /\ c \notin pending
            /\ \/ session' = [session EXCEPT ![c] = closed]
               \/ session' = [session EXCEPT ![c] = [session[c] EXCEPT !.stage = "shutdown", !.deadline = TRUE]]
        BY <1>1, <2>2, <2>9, Zenon DEF WriteDone, ShutdownDone, close
      <3>2. [session[c] EXCEPT !.stage = "shutdown", !.deadline = TRUE].stage = "shutdown"
        BY <2>3 DEF Session
      <3>3. pending' = pending \ {c}
        BY <1>1, <2>3, <3>1, <3>2, PendingAfter, Zenon
      <3>4. pending' = pending
        BY <3>1, <3>3
      <3> QED BY <2>1, <3>1, <3>4 DEF ended
    <2> QED BY <1>8, <2>4, <2>5, <2>6, <2>7, <2>8, <2>9 DEF Peer
  <1>9. CASE UNCHANGED vars
    BY <1>3, <1>9 DEF vars
  <1> QED BY <1>4, <1>5, <1>6, <1>7, <1>8, <1>9 DEF Next
-----------------------------------------------------------------------------
(* The payloads *)

\* As long as nothing was lost, the posted payloads are in the map of a process and, when
\* there is none, in the file.
Kept ==
    /\ mode # "down" /\ ~lost => Holds(data)
    /\ mode = "down" /\ ~lost => Holds(file)

\* What is kept of a payload is kept by one more save and load.
LEMMA KeptAgain ==
    ASSUME NEW b \in Bodies, NEW x \in keptOf(b)
    PROVE  ReadBack[x] \in keptOf(b)
  BY PayloadAssumption DEF keptOf

\* Loading a file in which no payload takes the place of a key keeps what it holds.
LEMMA LoadKeeps ==
    ASSUME TypeOK, Holds(file), data' \in deserialize(file), wrote' = wrote,
           \A k \in DOMAIN file : Renames[file[k].body] = Null
    PROVE  Holds(data)'
  <1>1. DOMAIN file \subseteq Key /\ \A k \in DOMAIN file : file[k] \in Value
    BY DEF TypeOK
  <1>2. \A j \in DOMAIN file : keyRead(j, file[j]) = reloadedKey(j)
    BY DEF keyRead
  <1>3. /\ DOMAIN data' = {keyRead(j, file[j]) : j \in DOMAIN file}
        /\ \A k \in DOMAIN data' : \E j \in DOMAIN file :
              k = keyRead(j, file[j]) /\ data'[k] = reloadedValue(file[j])
    BY Deserialized, Zenon
  <1>4. ASSUME NEW u \in Uris, wrote[u] # Null
        PROVE  \E k \in DOMAIN data' : k.uri = u /\ data'[k].body \in keptOf(wrote[u])
    <2>1. PICK j \in DOMAIN file : j.uri = u /\ file[j].body \in keptOf(wrote[u])
      BY <1>4 DEF Holds
    <2>2. wrote[u] \in Bodies
      BY <1>4 DEF TypeOK
    <2>3. j \in Key /\ file[j] \in Value /\ reloadedKey(j) \in DOMAIN data'
      BY <1>1, <1>2, <1>3
    <2>4. PICK i \in DOMAIN file : reloadedKey(j) = keyRead(i, file[i])
                                  /\ data'[reloadedKey(j)] = reloadedValue(file[i])
      BY <1>3, <2>3, Zenon
    <2>5. i = j
      BY <1>1, <1>2, <2>3, <2>4, ReloadedKeysDiffer, Zenon
    <2>6. reloadedKey(j).uri = u
      BY <2>1, <2>3, ReloadedRecord
    <2>7. reloadedValue(file[j]).body = ReadBack[file[j].body]
      BY <2>3, ReloadedRecord, Zenon
    <2>8. ReadBack[file[j].body] \in keptOf(wrote[u])
      BY <2>1, <2>2, KeptAgain
    <2>9. data'[reloadedKey(j)].body = ReadBack[file[j].body]
      BY <2>4, <2>5, <2>7, Zenon
    <2> QED BY <2>3, <2>6, <2>8, <2>9, Zenon
  <1> QED BY <1>4 DEF Holds, keptOf

\* A request keeps the payloads of the other URIs, and the one it posts.
LEMMA RequestKeeps ==
    ASSUME TypeOK, Holds(data), NEW r \in Request, handleApplicationRequest(r)
    PROVE  Holds(data)'
  <1> DEFINE key == [pad |-> 0, uri |-> r.uri]
             new == [pad |-> 0, body |-> r.body]
  <1>1. /\ r.uri \in Uris /\ r.body \in Bodies /\ wrote \in [Uris -> Bodies \cup {Null}]
        /\ \A k \in DOMAIN data : data[k] \in Value
    BY DEF TypeOK, Request
  <1>2. key.uri = r.uri /\ new.body = r.body
    OBVIOUS
  <1>3. CASE r.method = "post"
    <2>1. /\ data' = [j \in DOMAIN data \cup {key} |-> IF j = key THEN new ELSE data[j]]
          /\ wrote' = [wrote EXCEPT ![r.uri] = r.body]
      BY <1>3, Zenon DEF handleApplicationRequest, saveData
    <2> HIDE DEF key, new
    <2>2. ASSUME NEW u \in Uris, wrote'[u] # Null
          PROVE  \E k \in DOMAIN data' : k.uri = u /\ data'[k].body \in keptOf(wrote'[u])
      <3>1. CASE u = r.uri
        <4>1. wrote'[u] = r.body /\ key \in DOMAIN data' /\ data'[key] = new
          BY <1>1, <2>1, <3>1
        <4>2. r.body \in keptOf(r.body)
          BY DEF keptOf
        <4> QED BY <1>2, <3>1, <4>1, <4>2
      <3>2. CASE u # r.uri
        <4>1. wrote'[u] = wrote[u]
          BY <1>1, <2>1, <3>2
        <4>2. PICK k \in DOMAIN data : k.uri = u /\ data[k].body \in keptOf(wrote[u])
          BY <2>2, <4>1 DEF Holds
        <4>3. k # key /\ k \in DOMAIN data' /\ data'[k] = data[k]
          BY <1>2, <2>1, <3>2, <4>2
        <4> QED BY <4>1, <4>2, <4>3
      <3> QED BY <3>1, <3>2
    <2> QED BY <2>2 DEF Holds, keptOf
  <1>4. CASE r.method = "delete"
    <2>1. /\ data' = [j \in DOMAIN data \ {key} |-> data[j]]
          /\ wrote' = IF getData(r.uri) # Null THEN [wrote EXCEPT ![r.uri] = Null] ELSE wrote
      BY <1>4 DEF handleApplicationRequest, deleteData
    <2>2. key \in DOMAIN data => getData(r.uri) # Null
      BY <1>1, NullAssumption DEF getData
    <2> HIDE DEF key, new
    <2>3. ASSUME NEW u \in Uris, wrote'[u] # Null
          PROVE  \E k \in DOMAIN data' : k.uri = u /\ data'[k].body \in keptOf(wrote'[u])
      <3>1. wrote'[u] = wrote[u] /\ (u = r.uri => key \notin DOMAIN data)
        BY <1>1, <2>1, <2>2, <2>3
      <3>2. PICK k \in DOMAIN data : k.uri = u /\ data[k].body \in keptOf(wrote[u])
        BY <2>3, <3>1 DEF Holds
      <3>3. k # key
        BY <1>2, <3>1, <3>2
      <3>4. k \in DOMAIN data' /\ data'[k] = data[k]
        BY <2>1, <3>3
      <3> QED BY <3>1, <3>2, <3>4
    <2> QED BY <2>3 DEF Holds, keptOf
  <1>5. CASE r.method # "post" /\ r.method # "delete"
    <2>1. data' = data /\ wrote' = wrote
      BY <1>5 DEF handleApplicationRequest
    <2> QED BY <2>1 DEF Holds, keptOf
  <1> QED BY <1>3, <1>4, <1>5

\* Nothing that was posted leaves the map before it is in the file.
LEMMA StepKeepsPayloads == TypeOK /\ SavesTheMap /\ Kept /\ [Next]_vars => Kept'
  <1> SUFFICES ASSUME TypeOK, SavesTheMap, Kept, [Next]_vars PROVE Kept'
    OBVIOUS
  <1>1. CASE UNCHANGED <<mode, data, file, wrote, lost>>
    BY <1>1 DEF Kept, Holds, keptOf
  <1>2. CASE Start
    <2>1. CASE mode' = "running"
      <3>1. mode = "down" /\ wrote' = wrote /\ Load
        BY <1>2, <2>1 DEF Start
      <3> SUFFICES ASSUME ~lost' PROVE Holds(data)'
        BY <2>1 DEF Kept
      <3>2. /\ ~lost /\ data' \in deserialize(file)
            /\ \A k \in DOMAIN file : Renames[file[k].body] = Null
        BY <3>1, Zenon DEF Load
      <3>3. Holds(file)
        BY <3>1, <3>2 DEF Kept
      <3> QED BY <3>1, <3>2, <3>3, LoadKeeps, Zenon
    <2>2. CASE mode' # "running"
      BY <1>1, <1>2, <2>2 DEF Start
    <2> QED BY <2>1, <2>2
  <1>3. CASE Rotate \/ Reload
    BY <1>1, <1>3 DEF Rotate, Reload
  <1>4. CASE Stop
    <2>1. mode = "running" /\ mode' = "saving" /\ UNCHANGED <<data, wrote, lost>>
      BY <1>4 DEF Stop
    <2> QED BY <2>1 DEF Kept, Holds, keptOf
  <1>5. CASE StopUnsaved \/ Crash
    BY <1>5 DEF StopUnsaved, Crash, Kept
  <1>6. CASE SaveDone
    <2>1. /\ mode = "saving" /\ mode' = "down" /\ DOMAIN data \subseteq DOMAIN file
          /\ UNCHANGED <<file, lost, wrote>>
      BY <1>6 DEF SaveDone, exit
    <2>2. Holds(data) => Holds(file)
      BY <2>1 DEF SavesTheMap, Holds
    <2> QED BY <2>1, <2>2 DEF Kept, Holds, keptOf
  <1>7. ASSUME NEW k \in DOMAIN data, SaveRecord(k) PROVE Kept'
    <2>1. mode = "saving" /\ UNCHANGED <<mode, data, wrote, lost>>
      BY <1>7 DEF SaveRecord
    <2> QED BY <2>1 DEF Kept, Holds, keptOf
  <1>8. ASSUME NEW c \in Conns, Peer(c) PROVE Kept'
    <2>1. ASSUME NEW r \in Request, ReadDone(c, r) PROVE Kept'
      <3>1. mode = "running" /\ UNCHANGED <<mode, file, lost>>
        BY <2>1 DEF ReadDone
      <3>2. UNCHANGED <<data, wrote>> \/ handleApplicationRequest(r)
        BY <2>1 DEF ReadDone
      <3> QED BY <1>1, <3>1, <3>2, RequestKeeps DEF Kept
    <2>2. CASE ~ \E r \in Request : ReadDone(c, r)
      BY <1>1, <1>8, <2>2 DEF Peer, Accept, HandshakeDone, HandshakeFailed, ReadFailed, WriteDone, ShutdownDone
    <2> QED BY <2>1, <2>2
  <1>9. CASE UNCHANGED vars
    BY <1>1, <1>9 DEF vars
  <1> QED BY <1>2, <1>3, <1>4, <1>5, <1>6, <1>7, <1>8, <1>9 DEF Next

-----------------------------------------------------------------------------
(* The theorems *)

Inv == TypeOK /\ SavesTheMap /\ ConnectionsAccounted /\ ServesGoodContext /\ Kept

\* The inductive invariant of the server process holds of every start, request, signal,
\* reload, save and crash.
THEOREM ServerInvariant == Spec => []Inv
  <1>1. Init => Inv
    <2> SUFFICES ASSUME Init PROVE Inv
      OBVIOUS
    <2>1. DOMAIN data = {} /\ DOMAIN file = {} /\ mode = "down"
      BY DEF Init, empty
    <2>2. closed \in Session /\ closed.context = Null
      BY DEF closed, Session, Stages
    <2>3. TypeOK
      BY <2>1, <2>2, Zenon DEF Init, TypeOK
    <2>4. SavesTheMap /\ ConnectionsAccounted
      BY <2>1 DEF SavesTheMap, ConnectionsAccounted
    <2>5. ServesGoodContext
      BY <2>1, <2>2 DEF Init, ServesGoodContext
    <2>6. Kept
      BY <2>1 DEF Init, Kept, Holds
    <2> QED BY <2>3, <2>4, <2>5, <2>6 DEF Inv
  <1>2. Inv /\ [Next]_vars => Inv'
    BY StepKeepsType, StepKeepsGoodContext, StepKeepsAccounts, StepKeepsPayloads DEF Inv
  <1> QED BY <1>1, <1>2, PTL DEF Spec

\* Every state of the server is well typed, and a process that is down has no session.
THEOREM TypeCorrect == Spec => []TypeOK
  <1>1. Inv => TypeOK
    BY DEF Inv
  <1> QED BY <1>1, ServerInvariant, PTL

\* Every accepted connection is counted once as a failed handshake, a parse error or a
\* request, or is still on its way, for any number of connections.
THEOREM EveryConnectionIsAccounted == Spec => []ConnectionsAccounted
  <1>1. Inv => ConnectionsAccounted
    BY DEF Inv
  <1> QED BY <1>1, ServerInvariant, PTL

\* The listener and the sessions use TLS contexts that could be built, whatever the
\* operator installs and however often a reload fails.
THEOREM OnlyGoodContexts == Spec => []ServesGoodContext
  <1>1. Inv => ServesGoodContext
    BY DEF Inv
  <1> QED BY <1>1, ServerInvariant, PTL

\* A session keeps its context until it is closed, whatever is reloaded in the meantime.
THEOREM ContextsAreKept == Spec => SessionKeepsContext
  <1> DEFINE Keeps == \A c \in Conns :
                         session[c].stage # "closed" /\ session'[c].stage # "closed" =>
                             session'[c].context = session[c].context
  <1>1. ASSUME TypeOK, [Next]_vars PROVE [Keeps]_vars
    <2>1. session \in [Conns -> Session]
      BY <1>1 DEF TypeOK
    <2>2. CASE UNCHANGED session
      BY <2>2
    <2>3. CASE Start \/ Rotate \/ Reload \/ Stop \/ (\E k \in DOMAIN data : SaveRecord(k)) \/ UNCHANGED vars
      BY <2>2, <2>3, Zenon DEF Start, Rotate, Reload, Stop, SaveRecord, vars
    <2>4. CASE StopUnsaved \/ SaveDone \/ Crash
      <3>1. session' = [c \in Conns |-> closed]
        BY <2>4 DEF StopUnsaved, SaveDone, Crash, exit
      <3> QED BY <3>1 DEF closed
    <2>5. ASSUME NEW c \in Conns, Peer(c) PROVE Keeps
      <3>1. ASSUME NEW s, session' = [session EXCEPT ![c] = s],
                   \/ session[c].stage = "closed" \/ s.stage = "closed" \/ s.context = session[c].context
            PROVE  Keeps
        BY <2>1, <3>1
      <3>2. session[c] \in Session /\ closed.stage = "closed"
        BY <2>1 DEF closed
      <3>3. ASSUME NEW l \in Listeners, Accept(l, c) PROVE Keeps
        <4>1. session[c].stage = "closed"
          BY <3>3 DEF Accept
        <4>2. \/ session' = [session EXCEPT ![c] = [stage |-> "handshake", context |-> context, deadline |-> TRUE]]
              \/ session' = [session EXCEPT ![c] = [stage |-> "read", context |-> Null, deadline |-> TRUE]]
          BY <3>3, Zenon DEF Accept
        <4> QED BY <3>1, <4>1, <4>2, Zenon
      <3>4. CASE HandshakeDone(c)
        <4>1. session' = [session EXCEPT ![c] = [session[c] EXCEPT !.stage = "read", !.deadline = TRUE]]
          BY <2>1, <3>4, Zenon DEF HandshakeDone
        <4>2. [session[c] EXCEPT !.stage = "read", !.deadline = TRUE].context = session[c].context
          BY <3>2, Zenon DEF Session
        <4> QED BY <3>1, <4>1, <4>2, Zenon
      <3>5. CASE HandshakeFailed(c) \/ ReadFailed(c) \/ ShutdownDone(c)
        <4>1. session' = [session EXCEPT ![c] = closed]
          BY <3>5 DEF HandshakeFailed, ReadFailed, ShutdownDone, close
        <4> QED BY <3>1, <3>2, <4>1, Zenon
      <3>6. ASSUME NEW r \in Request, ReadDone(c, r) PROVE Keeps
        <4>1. session' = [session EXCEPT ![c] = [session[c] EXCEPT !.stage = "write"]]
          BY <2>1, <3>6 DEF ReadDone, move
        <4>2. [session[c] EXCEPT !.stage = "write"].context = session[c].context
          BY <3>2, Zenon DEF Session
        <4> QED BY <3>1, <4>1, <4>2, Zenon
      <3>7. CASE WriteDone(c)
        <4>1. \/ session' = [session EXCEPT ![c] = closed]
              \/ session' = [session EXCEPT ![c] = [session[c] EXCEPT !.stage = "shutdown", !.deadline = TRUE]]
          BY <2>1, <3>7, Zenon DEF WriteDone, close
        <4>2. [session[c] EXCEPT !.stage = "shutdown", !.deadline = TRUE].context = session[c].context
          BY <3>2, Zenon DEF Session
        <4> QED BY <3>1, <3>2, <4>1, <4>2, Zenon
      <3> HIDE DEF Keeps
      <3> QED BY <2>5, <3>3, <3>4, <3>5, <3>6, <3>7, Zenon DEF Peer
    <2> HIDE DEF Keeps
    <2> QED BY <1>1, <2>3, <2>4, <2>5, Zenon DEF Next
  <1> QED BY <1>1, TypeCorrect, PTL DEF Spec, SessionKeepsContext

\* A stop that can write uri.txt leaves every payload that was posted and not deleted in
\* it, after any number of restarts.
THEOREM StopSaves == Spec => []StopSavesEverything
  <1>1. Inv => StopSavesEverything
    BY DEF Inv, Kept, StopSavesEverything
  <1> QED BY <1>1, ServerInvariant, PTL
=============================================================================
