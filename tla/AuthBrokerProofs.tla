-------------------------- MODULE AuthBrokerProofs --------------------------
(***************************************************************************)
(* Proofs about AuthBroker, for any number of processes, accounts and      *)
(* tokens, any lifetime and any bound.                                     *)
(***************************************************************************)
EXTENDS AuthBroker, TLAPS

\* An account that is there.
known(u) == u \in Users /\ app_users[u].state # "absent"

\* What a call relies on between two of its statements.
CallOK(p) ==
    /\ call[p].at \in {"touchLastLogin", "auditVerified", "insertSession", "auditSession"} =>
          known(call[p].user) /\ call[p].live
    /\ call[p].at \in {"touchLastUsed", "findById", "auditActive"} =>
          /\ known(call[p].user)
          /\ call[p].live \/ app_users[call[p].user].state = "inactive"
    /\ call[p].at = "auditActive" => call[p].live
    /\ call[p].at = "insertAdmin" => call[p].user \in Users

\* The token of a session that is about to be inserted is nobody else's.
TokenFresh(p) ==
    call[p].at = "insertSession" =>
        /\ call[p].token \in Tokens /\ auth_sessions[call[p].token] = noSession
        /\ \A q \in Procs : q # p /\ call[q].at = "insertSession" => call[q].token # call[p].token

\* A guard is a copy of an account that is still there.
GuardOK(p) ==
    guard[p].user # None =>
        known(guard[p].user) /\ guard[p].controlSet = app_users[guard[p].user].controlSet

SessionOK(k) == auth_sessions[k] # noSession => known(auth_sessions[k].user)

\* Histories: nothing is recorded of an account that is not there, and a process
\* that has bootstrapped an administrator is not about to insert another one.
HistoryOK(u) ==
    /\ app_users[u].state = "absent" => origin[u] = None /\ firsts[u] = None
    /\ firsts[u] # None => activeAdminExists /\ call[firsts[u]].at # "insertAdmin"

AuthInv ==
    /\ TypeOK
    /\ \A p \in Procs : CallOK(p) /\ TokenFresh(p) /\ GuardOK(p)
    /\ \A k \in Tokens : SessionOK(k)
    /\ \A u \in Users : HistoryOK(u)
    /\ AuthorityChain
    /\ OneFirstAdminEach
-----------------------------------------------------------------------------
(* What the records and the small operators yield. *)

\* The fields of a call.
LEMMA CallFields ==
    ASSUME NEW c \in Call
    PROVE  /\ c.at \in Steps /\ c.user \in Users \cup {None} /\ c.token \in Tokens \cup {None}
           /\ c.expiresAt \in Nat /\ c.session \in BOOLEAN /\ c.live \in BOOLEAN
BY DEF Call

\* What callAt puts together.
LEMMA CallAt ==
    ASSUME NEW s \in Steps, NEW u \in Users \cup {None}, NEW k \in Tokens \cup {None},
           NEW e \in Nat, NEW b \in BOOLEAN, NEW l \in BOOLEAN
    PROVE  LET c == callAt(s, u, k, e, b, l) IN
           /\ c \in Call
           /\ c.at = s /\ c.user = u /\ c.token = k /\ c.live = l
BY DEF Call, callAt

\* A process that does nothing.
LEMMA IdleCall == idle \in Call /\ idle.at = "idle" /\ idle.user = None /\ idle.token = None
BY DEF Call, Steps, idle, callAt

\* A call that goes on keeps everything but its place.
LEMMA Continued ==
    ASSUME TypeOK, NEW p \in Procs, NEW s \in Steps, continue(p, s)
    PROVE  /\ call' \in [Procs -> Call]
           /\ \A q \in Procs \ {p} : call'[q] = call[q]
           /\ call'[p].at = s /\ call'[p].user = call[p].user
           /\ call'[p].token = call[p].token /\ call'[p].live = call[p].live
<1>1. call \in [Procs -> Call]
  BY DEF TypeOK
<1>2. [call[p] EXCEPT !.at = s] \in Call
  BY <1>1, CallFields DEF Call
<1>3. QED
  BY <1>1, <1>2 DEF continue, Call

\* A call that returns or throws.
LEMMA Finished ==
    ASSUME TypeOK, NEW p \in Procs, finish(p)
    PROVE  /\ call' \in [Procs -> Call]
           /\ \A q \in Procs \ {p} : call'[q] = call[q]
           /\ call'[p] = idle
BY IdleCall DEF TypeOK, finish

\* Every appending step has an entry of the log's kind.
LEMMA Entries == \A s \in DOMAIN due : due[s] \in AuditAction \X AuditResult
BY DEF due, AuditAction, AuditResult

\* Appending keeps the log one.
LEMMA Appended ==
    ASSUME TypeOK, NEW entry \in AuditAction \X AuditResult, append(entry)
    PROVE  auth_audit_log' \in [AuditAction \X AuditResult -> Nat]
BY DEF TypeOK, append

\* The fields of an account and of a session.
LEMMA RowFields ==
    ASSUME TypeOK
    PROVE  /\ \A u \in Users : app_users[u].state \in {"absent", "active", "inactive"}
                               /\ app_users[u].controlSet \in ControlSet
           /\ \A k \in Tokens : auth_sessions[k].user \in Users \cup {None}
                               /\ auth_sessions[k].expiresAt \in Nat
                               /\ auth_sessions[k].revoked \in BOOLEAN
BY DEF TypeOK, User, Session

-----------------------------------------------------------------------------
(* What carries over a step. *)

\* No step deletes an account, changes its control set or makes it active again.
RowsStay ==
    \A v \in Users : app_users[v].state # "absent" =>
        /\ app_users'[v].state # "absent"
        /\ app_users'[v].controlSet = app_users[v].controlSet
        /\ app_users[v].state = "inactive" => app_users'[v].state = "inactive"

\* A call that stands still keeps what it relies on.
LEMMA CallKept ==
    ASSUME NEW q \in Procs, CallOK(q), call'[q] = call[q], RowsStay
    PROVE  CallOK(q)'
BY DEF CallOK, known, RowsStay

\* So does a guard that is not replaced.
LEMMA GuardKept ==
    ASSUME NEW q \in Procs, GuardOK(q), guard'[q] = guard[q], RowsStay
    PROVE  GuardOK(q)'
BY DEF GuardOK, known, RowsStay

\* And a session that stays with its account.
LEMMA SessionKept ==
    ASSUME NEW k \in Tokens, SessionOK(k), auth_sessions'[k].user = auth_sessions[k].user,
           auth_sessions[k] = noSession => auth_sessions'[k] = noSession, RowsStay
    PROVE  SessionOK(k)'
BY DEF SessionOK, known, RowsStay

\* AuthorityChain of one account.
Authorised(u) ==
    /\ app_users[u].state # "absent" => origin[u] # None
    /\ origin[u] = "bootstrap" => app_users[u].controlSet = "admin"
    /\ origin[u] \in Users =>
          /\ origin[u] # u
          /\ app_users[origin[u]].state # "absent" /\ app_users[origin[u]].controlSet = "admin"

\* The authority of an account whose row and origin stay is that of rows that stay.
LEMMA AuthorisedKept ==
    ASSUME NEW v \in Users, Authorised(v), RowsStay, origin'[v] = origin[v],
           app_users'[v].state # "absent" => app_users[v].state # "absent",
           app_users'[v].controlSet = app_users[v].controlSet
    PROVE  Authorised(v)'
BY DEF Authorised, RowsStay

\* A token that is about to be used stays unused when no other call takes it.
LEMMA TokenKept ==
    ASSUME NEW p \in Procs, \A q \in Procs : TokenFresh(q),
           \A q \in Procs \ {p} : call'[q] = call[q], call'[p].at # "insertSession",
           NEW q \in Procs,
           q # p /\ call[q].at = "insertSession" => auth_sessions'[call[q].token] = noSession
    PROVE  TokenFresh(q)'
<1>1. CASE q = p
  BY <1>1 DEF TokenFresh
<1>2. CASE q # p
  <2>1. call'[q] = call[q] /\ TokenFresh(q)
    BY <1>2
  <2>2. ASSUME NEW r \in Procs, r # q, call'[r].at = "insertSession", call[q].at = "insertSession"
        PROVE  call'[r].token # call[q].token
    <3>1. r # p /\ call'[r] = call[r]
      BY <2>2
    <3>2. QED
      BY <2>1, <2>2, <3>1 DEF TokenFresh
  <2>3. QED
    BY <1>2, <2>1, <2>2 DEF TokenFresh
<1>3. QED
  BY <1>1, <1>2

-----------------------------------------------------------------------------
(* Steps that leave the accounts and the sessions alone. *)

\* The part of the invariant that such a step has to show anew is about its own
\* call and guard.
LEMMA QuietStep ==
    ASSUME AuthInv, NEW p \in Procs,
           UNCHANGED <<app_users, auth_sessions, origin, firsts>>,
           now' \in Nat, calls' \in Nat, faults' \in Nat,
           auth_audit_log' \in [AuditAction \X AuditResult -> Nat],
           missed' \in [AuditAction \X AuditResult -> Nat],
           call' \in [Procs -> Call], \A q \in Procs \ {p} : call'[q] = call[q],
           guard' \in [Procs -> [user : Users \cup {None}, controlSet : ControlSet]],
           \A q \in Procs \ {p} : guard'[q] = guard[q],
           CallOK(p)', TokenFresh(p)', GuardOK(p)',
           call'[p].at = "insertAdmin" => ~activeAdminExists
    PROVE  AuthInv'
<1>1. TypeOK'
  BY AuthAssumption DEF AuthInv, TypeOK, TokenFresh
<1>2. ASSUME NEW q \in Procs PROVE CallOK(q)'
  BY DEF AuthInv, CallOK, known
<1>3. ASSUME NEW q \in Procs PROVE TokenFresh(q)'
  <2>1. CASE q = p
    BY <2>1
  <2>2. CASE q # p
    <3>1. TokenFresh(q) /\ call'[q] = call[q]
      BY <2>2 DEF AuthInv
    <3>2. SUFFICES ASSUME call[q].at = "insertSession", NEW r \in Procs, r # q,
                          call'[r].at = "insertSession"
                   PROVE  call'[r].token # call[q].token
      BY <3>1 DEF TokenFresh
    <3>3. CASE r = p
      BY <2>2, <3>1, <3>2, <3>3 DEF TokenFresh
    <3>4. CASE r # p
      BY <3>1, <3>2, <3>4 DEF TokenFresh
    <3>5. QED
      BY <3>3, <3>4
  <2>3. QED
    BY <2>1, <2>2
<1>4. ASSUME NEW q \in Procs PROVE GuardOK(q)'
  BY DEF AuthInv, GuardOK, known
<1>5. ASSUME NEW k \in Tokens PROVE SessionOK(k)'
  BY DEF AuthInv, SessionOK, known
<1>6. ASSUME NEW u \in Users PROVE HistoryOK(u)'
  BY DEF AuthInv, HistoryOK, activeAdminExists, TypeOK
<1>7. AuthorityChain' /\ OneFirstAdminEach'
  BY DEF AuthInv, AuthorityChain, OneFirstAdminEach
<1>8. QED
  BY <1>1, <1>2, <1>3, <1>4, <1>5, <1>6, <1>7 DEF AuthInv

\* Looking an account up, for verifyPassword.
LEMMA VerifyPasswordStep ==
    ASSUME AuthInv, NEW p \in Procs, NEW u \in Users, NEW matches \in BOOLEAN,
           NEW forSession \in BOOLEAN, VerifyPassword(p, u, matches, forSession)
    PROVE  AuthInv'
<1> DEFINE s == IF findByUsername(u) /\ matches THEN "touchLastLogin" ELSE "auditNotVerified"
<1>1. TypeOK /\ s \in Steps /\ findByUsername(u) \in BOOLEAN
  BY DEF AuthInv, Steps, findByUsername
<1> HIDE DEF s
<1>2. /\ call' \in [Procs -> Call] /\ \A q \in Procs \ {p} : call'[q] = call[q]
      /\ call'[p].at = s /\ call'[p].user = u /\ call'[p].live = findByUsername(u)
  <2> DEFINE c == callAt(s, u, None, 0, forSession, findByUsername(u))
  <2>1. call' = [call EXCEPT ![p] = c]
    BY DEF VerifyPassword, s
  <2>2. c \in Call /\ c.at = s /\ c.user = u /\ c.live = findByUsername(u)
    BY <1>1, CallAt
  <2> HIDE DEF c
  <2>3. QED
    BY <1>1, <2>1, <2>2 DEF TypeOK
<1>3. CallOK(p)' /\ TokenFresh(p)'
  BY <1>2 DEF VerifyPassword, tables, CallOK, TokenFresh, known, findByUsername, s
<1>4. GuardOK(p)'
  BY DEF AuthInv, VerifyPassword, tables, GuardOK, known
<1>5. QED
  BY <1>1, <1>2, <1>3, <1>4, QuietStep DEF VerifyPassword, begin, tables, history, TypeOK, s

\* Looking a session up, for introspectToken: the account of a session is there, and
\* one that is not active was deactivated.
LEMMA IntrospectTokenStep ==
    ASSUME AuthInv, NEW p \in Procs, NEW k \in Tokens, IntrospectToken(p, k)
    PROVE  AuthInv'
<1> DEFINE r == auth_sessions[k]
           active == isActive(r.expiresAt, r.revoked, now)
           s == IF r # noSession /\ active THEN "touchLastUsed" ELSE "auditInactive"
           l == active /\ findById(r.user)
<1>1. TypeOK /\ s \in Steps /\ l \in BOOLEAN /\ r.user \in Users \cup {None} /\ r.expiresAt \in Nat
  BY RowFields DEF AuthInv, Steps
<1>2. s = "touchLastUsed" => known(r.user) /\ (l \/ app_users[r.user].state = "inactive")
  BY <1>1, RowFields DEF AuthInv, SessionOK, known, findById
<1> HIDE DEF s, l
<1>3. /\ call' \in [Procs -> Call] /\ \A q \in Procs \ {p} : call'[q] = call[q]
      /\ call'[p].at = s /\ call'[p].user = r.user /\ call'[p].live = l
  <2> DEFINE c == callAt(s, r.user, k, r.expiresAt, FALSE, l)
  <2>1. call' = [call EXCEPT ![p] = c]
    BY DEF IntrospectToken, s, l
  <2>2. c \in Call /\ c.at = s /\ c.user = r.user /\ c.live = l
    BY <1>1 DEF Call, callAt
  <2> HIDE DEF c
  <2>3. QED
    BY <1>1, <2>1, <2>2 DEF TypeOK
<1>4. s \in {"touchLastUsed", "auditInactive"}
  BY DEF s
<1>5. CallOK(p)' /\ TokenFresh(p)'
  BY <1>2, <1>3, <1>4 DEF IntrospectToken, tables, CallOK, TokenFresh, known
<1>6. GuardOK(p)'
  BY DEF AuthInv, IntrospectToken, tables, GuardOK, known
<1>7. /\ UNCHANGED <<app_users, auth_sessions, origin, firsts, guard>>
      /\ now' \in Nat /\ calls' \in Nat /\ faults' \in Nat
      /\ auth_audit_log' \in [AuditAction \X AuditResult -> Nat]
      /\ missed' \in [AuditAction \X AuditResult -> Nat]
      /\ guard' \in [Procs -> [user : Users \cup {None}, controlSet : ControlSet]]
  BY <1>1 DEF IntrospectToken, begin, tables, history, TypeOK
<1>8. QED
  BY <1>1, <1>3, <1>4, <1>5, <1>6, <1>7, QuietStep

\* The bootstrap looks for an administrator.
LEMMA CreateFirstAdminStep ==
    ASSUME AuthInv, NEW p \in Procs, NEW u \in Users, CreateFirstAdmin(p, u)
    PROVE  AuthInv'
<1> DEFINE s == IF activeAdminExists THEN "auditDenied" ELSE "insertAdmin"
<1>1. TypeOK /\ s \in Steps
  BY DEF AuthInv, Steps
<1>2. s \in {"auditDenied", "insertAdmin"} /\ (s = "insertAdmin" => ~activeAdminExists)
  OBVIOUS
<1> HIDE DEF s
<1>3. /\ call' \in [Procs -> Call] /\ \A q \in Procs \ {p} : call'[q] = call[q]
      /\ call'[p].at = s /\ call'[p].user = u
  <2> DEFINE c == callAt(s, u, None, 0, FALSE, FALSE)
  <2>1. call' = [call EXCEPT ![p] = c]
    BY DEF CreateFirstAdmin, s
  <2>2. c \in Call /\ c.at = s /\ c.user = u
    BY <1>1 DEF Call, callAt
  <2> HIDE DEF c
  <2>3. QED
    BY <1>1, <2>1, <2>2 DEF TypeOK
<1>4. CallOK(p)' /\ TokenFresh(p)'
  BY <1>2, <1>3 DEF CallOK, TokenFresh
<1>5. GuardOK(p)'
  BY DEF AuthInv, CreateFirstAdmin, tables, GuardOK, known
<1>6. /\ UNCHANGED <<app_users, auth_sessions, origin, firsts, guard>>
      /\ now' \in Nat /\ calls' \in Nat /\ faults' \in Nat
      /\ auth_audit_log' \in [AuditAction \X AuditResult -> Nat]
      /\ missed' \in [AuditAction \X AuditResult -> Nat]
      /\ guard' \in [Procs -> [user : Users \cup {None}, controlSet : ControlSet]]
  BY <1>1 DEF CreateFirstAdmin, begin, tables, history, TypeOK
<1>7. QED
  BY <1>1, <1>2, <1>3, <1>4, <1>5, <1>6, QuietStep

\* A call that goes on to its next statement.
LEMMA ContinueStep ==
    ASSUME AuthInv, NEW p \in Procs, NEW s \in Steps, continue(p, s),
           UNCHANGED <<app_users, auth_sessions, guard, origin, firsts, missed, now, faults>>,
           calls' \in Nat, auth_audit_log' \in [AuditAction \X AuditResult -> Nat],
           CallOK(p)', s # "insertSession", s # "insertAdmin"
    PROVE  AuthInv'
<1>1. TypeOK
  BY DEF AuthInv
<1>2. /\ call' \in [Procs -> Call] /\ \A q \in Procs \ {p} : call'[q] = call[q]
      /\ call'[p].at = s
  BY <1>1, Continued
<1>3. TokenFresh(p)'
  BY <1>2 DEF TokenFresh
<1>4. GuardOK(p)'
  BY DEF AuthInv, GuardOK, known
<1>5. QED
  BY <1>1, <1>2, <1>3, <1>4, QuietStep DEF TypeOK

\* A call that returns or throws, and gives its caller no guard.
LEMMA FinishStep ==
    ASSUME AuthInv, NEW p \in Procs, finish(p),
           UNCHANGED <<app_users, auth_sessions, guard, origin, firsts, now, calls>>,
           faults' \in Nat, auth_audit_log' \in [AuditAction \X AuditResult -> Nat],
           missed' \in [AuditAction \X AuditResult -> Nat]
    PROVE  AuthInv'
<1>1. TypeOK
  BY DEF AuthInv
<1>2. /\ call' \in [Procs -> Call] /\ \A q \in Procs \ {p} : call'[q] = call[q]
      /\ call'[p].at = "idle"
  BY <1>1, Finished, IdleCall
<1>3. TokenFresh(p)' /\ CallOK(p)'
  BY <1>2 DEF TokenFresh, CallOK
<1>4. GuardOK(p)'
  BY DEF AuthInv, GuardOK, known
<1>5. QED
  BY <1>1, <1>2, <1>3, <1>4, QuietStep DEF TypeOK
-----------------------------------------------------------------------------
(* The statements in the middle and at the end of a call. *)

\* last_login_at is written, and nothing that is read back changes.
LEMMA TouchLastLoginStep ==
    ASSUME AuthInv, NEW p \in Procs, TouchLastLogin(p)
    PROVE  AuthInv'
<1>1. TypeOK /\ "auditVerified" \in Steps
  BY DEF AuthInv, Steps
<1>2. CallOK(p)'
  BY <1>1, Continued DEF AuthInv, TouchLastLogin, tables, CallOK, known
<1>3. /\ continue(p, "auditVerified")
      /\ UNCHANGED <<app_users, auth_sessions, guard, origin, firsts, missed, now, faults>>
      /\ calls' \in Nat /\ auth_audit_log' \in [AuditAction \X AuditResult -> Nat]
  BY <1>1 DEF TouchLastLogin, tables, history, TypeOK
<1>4. QED
  BY <1>1, <1>2, <1>3, ContinueStep

\* The copy of the session that introspectToken read is checked once more.
LEMMA TouchLastUsedStep ==
    ASSUME AuthInv, NEW p \in Procs, TouchLastUsed(p)
    PROVE  AuthInv'
<1>1. PICK s \in {"findById", "auditInactive"} : continue(p, s)
  BY DEF TouchLastUsed
<1>2. TypeOK /\ s \in Steps
  BY DEF AuthInv, Steps
<1>3. CallOK(p)'
  BY <1>1, <1>2, Continued DEF AuthInv, TouchLastUsed, tables, CallOK, known
<1>4. /\ UNCHANGED <<app_users, auth_sessions, guard, origin, firsts, missed, now, faults>>
      /\ calls' \in Nat /\ auth_audit_log' \in [AuditAction \X AuditResult -> Nat]
  BY <1>2 DEF TouchLastUsed, tables, history, TypeOK
<1>5. QED
  BY <1>1, <1>2, <1>3, <1>4, ContinueStep

\* An account that is active now was active when the call began: none becomes active
\* again.
LEMMA FindByIdStep ==
    ASSUME AuthInv, NEW p \in Procs, FindById(p)
    PROVE  AuthInv'
<1>1. PICK s \in {"auditActive", "auditInactive"} :
          continue(p, s) /\ (s = "auditActive" => findById(call[p].user))
  BY DEF FindById
<1>2. TypeOK /\ s \in Steps
  BY DEF AuthInv, Steps
<1>3. CallOK(p)'
  BY <1>1, <1>2, Continued DEF AuthInv, FindById, findById, tables, CallOK, known
<1>4. /\ UNCHANGED <<app_users, auth_sessions, guard, origin, firsts, missed, now, faults>>
      /\ calls' \in Nat /\ auth_audit_log' \in [AuditAction \X AuditResult -> Nat]
  BY <1>2 DEF FindById, tables, history, TypeOK
<1>5. QED
  BY <1>1, <1>2, <1>3, <1>4, ContinueStep

\* A password that was not verified ends the call, after one entry or two.
LEMMA AuditNotVerifiedStep ==
    ASSUME AuthInv, NEW p \in Procs, AuditNotVerified(p)
    PROVE  AuthInv'
<1>1. TypeOK /\ "auditNoSession" \in Steps
  BY DEF AuthInv, Steps
<1>2. auth_audit_log' \in [AuditAction \X AuditResult -> Nat]
  BY <1>1, Entries, Appended DEF AuditNotVerified, due
<1>3. /\ UNCHANGED <<app_users, auth_sessions, guard, origin, firsts, missed, now, faults, calls>>
      /\ calls' \in Nat /\ faults' \in Nat /\ missed' \in [AuditAction \X AuditResult -> Nat]
  BY <1>1 DEF AuditNotVerified, history, TypeOK
<1>4. CASE continue(p, "auditNoSession")
  <2>1. CallOK(p)'
    BY <1>1, <1>4, Continued DEF CallOK
  <2>2. QED
    BY <1>1, <1>2, <1>3, <1>4, <2>1, ContinueStep
<1>5. CASE finish(p)
  BY <1>2, <1>3, <1>5, FinishStep
<1>6. QED
  BY <1>4, <1>5 DEF AuditNotVerified

\* The last entry of a call is appended.
LEMMA AuditAndReturnStep ==
    ASSUME AuthInv, NEW p \in Procs, AuditAndReturn(p)
    PROVE  AuthInv'
<1>1. TypeOK
  BY DEF AuthInv
<1>2. call[p].at \in DOMAIN due
  BY DEF AuditAndReturn, due
<1>3. auth_audit_log' \in [AuditAction \X AuditResult -> Nat]
  BY <1>1, <1>2, Entries, Appended DEF AuditAndReturn
<1>4. /\ UNCHANGED <<app_users, auth_sessions, guard, origin, firsts, now, calls>>
      /\ finish(p) /\ faults' \in Nat /\ missed' \in [AuditAction \X AuditResult -> Nat]
  BY <1>1 DEF AuditAndReturn, history, TypeOK
<1>5. QED
  BY <1>3, <1>4, FinishStep

\* A statement that throws.
LEMMA FaultStep ==
    ASSUME AuthInv, NEW p \in Procs, Fault(p)
    PROVE  AuthInv'
<1>1. TypeOK
  BY DEF AuthInv
<1>2. missed' \in [AuditAction \X AuditResult -> Nat]
  <2>1. CASE call[p].at \in DOMAIN due
    <3>1. due[call[p].at] \in AuditAction \X AuditResult
      BY <2>1, Entries
    <3>2. QED
      BY <1>1, <2>1, <3>1 DEF Fault, TypeOK
  <2>2. CASE call[p].at \notin DOMAIN due
    BY <1>1, <2>2 DEF Fault, TypeOK
  <2>3. QED
    BY <2>1, <2>2
<1>3. /\ UNCHANGED <<app_users, auth_sessions, guard, origin, firsts, now, calls>>
      /\ finish(p) /\ faults' \in Nat /\ auth_audit_log' \in [AuditAction \X AuditResult -> Nat]
  BY <1>1 DEF Fault, tables, history, TypeOK
<1>4. QED
  BY <1>2, <1>3, FinishStep

\* A call that returns an account: its caller holds a guard with a copy of the control
\* set.
LEMMA GuardStep ==
    ASSUME AuthInv, NEW p \in Procs, finish(p), known(call[p].user),
           guard' = [guard EXCEPT ![p] = guardFor(call[p].user)],
           UNCHANGED <<app_users, auth_sessions, origin, firsts, now, calls, faults, missed>>,
           auth_audit_log' \in [AuditAction \X AuditResult -> Nat]
    PROVE  AuthInv'
<1>1. TypeOK
  BY DEF AuthInv
<1>2. /\ call' \in [Procs -> Call] /\ \A q \in Procs \ {p} : call'[q] = call[q]
      /\ call'[p].at = "idle"
  BY <1>1, Finished, IdleCall
<1>3. TokenFresh(p)' /\ CallOK(p)'
  BY <1>2 DEF TokenFresh, CallOK
<1> DEFINE g == guardFor(call[p].user)
<1>4. /\ g \in [user : Users \cup {None}, controlSet : ControlSet]
      /\ g.user = call[p].user /\ g.controlSet = app_users[call[p].user].controlSet
  BY <1>1, RowFields DEF guardFor, known
<1> HIDE DEF g
<1>5. /\ guard' \in [Procs -> [user : Users \cup {None}, controlSet : ControlSet]]
      /\ guard'[p] = g /\ \A q \in Procs \ {p} : guard'[q] = guard[q]
  BY <1>1, <1>4 DEF TypeOK, g
<1>6. GuardOK(p)'
  BY <1>4, <1>5 DEF GuardOK, known
<1>7. now' \in Nat /\ calls' \in Nat /\ faults' \in Nat /\ missed' \in [AuditAction \X AuditResult -> Nat]
  BY <1>1 DEF TypeOK
<1>8. QED
  BY <1>2, <1>3, <1>5, <1>6, <1>7, QuietStep

\* The token was active, and its account is returned.
LEMMA AuditActiveStep ==
    ASSUME AuthInv, NEW p \in Procs, AuditActive(p)
    PROVE  AuthInv'
<1>1. TypeOK /\ known(call[p].user)
  BY DEF AuthInv, AuditActive, CallOK
<1>2. auth_audit_log' \in [AuditAction \X AuditResult -> Nat]
  BY <1>1, Entries, Appended DEF AuditActive, due
<1>3. QED
  BY <1>1, <1>2, GuardStep DEF AuditActive, history

\* The verified account is returned, or a session begins under a token of its own.
LEMMA AuditVerifiedStep ==
    ASSUME AuthInv, NEW p \in Procs, AuditVerified(p)
    PROVE  AuthInv'
<1>1. TypeOK /\ known(call[p].user) /\ call[p].live
  BY DEF AuthInv, AuditVerified, CallOK
<1>2. auth_audit_log' \in [AuditAction \X AuditResult -> Nat]
  BY <1>1, Entries, Appended DEF AuditVerified, due
<1>3. CASE ~call[p].session
  BY <1>1, <1>2, <1>3, GuardStep DEF AuditVerified, history
<1>4. CASE call[p].session
  <2>1. PICK k \in Tokens :
            /\ auth_sessions[k] = noSession /\ \A q \in Procs : call[q].token # k
            /\ call' = [call EXCEPT ![p] = callAt("insertSession", call[p].user, k,
                            now + Lifetime * TicksPerSecond, call[p].session, call[p].live)]
            /\ UNCHANGED guard
    BY <1>1, <1>4 DEF AuditVerified, TypeOK
  <2> DEFINE e == now + Lifetime * TicksPerSecond
             c == callAt("insertSession", call[p].user, k, e, call[p].session, call[p].live)
  <2>2. "insertSession" \in Steps /\ call[p] \in Call /\ now \in Nat
    BY <1>1 DEF TypeOK, Steps
  <2>3. e \in Nat
    BY <2>2, AuthAssumption
  <2> HIDE DEF e
  <2>4. c \in Call /\ c.at = "insertSession" /\ c.user = call[p].user /\ c.token = k /\ c.live = call[p].live
    BY <2>2, <2>3, CallFields DEF callAt, Call
  <2>5. call' = [call EXCEPT ![p] = c]
    BY <2>1 DEF e
  <2> HIDE DEF c
  <2>6. /\ call' \in [Procs -> Call] /\ call'[p] = c
        /\ \A q \in Procs \ {p} : call'[q] = call[q]
    BY <1>1, <2>4, <2>5 DEF TypeOK
  <2>7. CallOK(p)'
    BY <1>1, <2>4, <2>6 DEF CallOK, AuditVerified, known
  <2>8. TokenFresh(p)'
    BY <2>1, <2>4, <2>6 DEF TokenFresh, AuditVerified
  <2>9. GuardOK(p)'
    BY <2>1 DEF AuthInv, AuditVerified, GuardOK, known
  <2>10. /\ UNCHANGED <<app_users, auth_sessions, origin, firsts, guard>>
        /\ now' \in Nat /\ calls' \in Nat /\ faults' \in Nat
        /\ missed' \in [AuditAction \X AuditResult -> Nat]
        /\ guard' \in [Procs -> [user : Users \cup {None}, controlSet : ControlSet]]
    BY <1>1, <2>1 DEF AuditVerified, history, TypeOK
  <2>11. call'[p].at # "insertAdmin"
    BY <2>4, <2>6
  <2>12. QED
    BY <1>2, <2>6, <2>7, <2>8, <2>9, <2>10, <2>11, QuietStep
<1>5. QED
  BY <1>3, <1>4
-----------------------------------------------------------------------------
(* Statements that change the sessions. *)

\* The accounts stay, so only the sessions, and the calls that are about to insert
\* one, have anything to show.
LEMMA SessionStep ==
    ASSUME AuthInv,
           UNCHANGED <<app_users, guard, origin, firsts, now, faults, missed, auth_audit_log>>,
           calls' \in Nat, call' \in [Procs -> Call], auth_sessions' \in [Tokens -> Session],
           \A q \in Procs : CallOK(q)' /\ TokenFresh(q)',
           \A q \in Procs : call'[q].at = "insertAdmin" => call[q].at = "insertAdmin",
           \A k \in Tokens : SessionOK(k)'
    PROVE  AuthInv'
<1>1. TypeOK'
  BY AuthAssumption DEF AuthInv, TypeOK, TokenFresh
<1>2. ASSUME NEW q \in Procs PROVE GuardOK(q)'
  BY DEF AuthInv, GuardOK, known
<1>3. ASSUME NEW u \in Users PROVE HistoryOK(u)'
  BY DEF AuthInv, HistoryOK, activeAdminExists, TypeOK
<1>4. AuthorityChain' /\ OneFirstAdminEach'
  BY DEF AuthInv, AuthorityChain, OneFirstAdminEach
<1>5. QED
  BY <1>1, <1>2, <1>3, <1>4 DEF AuthInv

\* A new session, under a token that no other call is about to use.
LEMMA InsertSessionStep ==
    ASSUME AuthInv, NEW p \in Procs, InsertSession(p)
    PROVE  AuthInv'
<1> DEFINE k == call[p].token
           e == toEpoch(call[p].expiresAt)
           s == [user |-> call[p].user, expiresAt |-> e, revoked |-> FALSE,
                 told |-> call[p].expiresAt]
<1>1. /\ TypeOK /\ call[p] \in Call /\ "auditSession" \in Steps
      /\ CallOK(p) /\ TokenFresh(p) /\ call[p].at = "insertSession"
  BY DEF AuthInv, InsertSession, TypeOK, Steps
<1>2. k \in Tokens /\ known(call[p].user) /\ call[p].live
  BY <1>1 DEF TokenFresh, CallOK
<1>3. call[p].expiresAt \div TicksPerSecond \in Nat
  BY <1>1, CallFields, AuthAssumption
<1>4. e \in Nat
  BY <1>3, AuthAssumption DEF toEpoch
<1> HIDE DEF e
<1>5. s \in Session /\ s.user = call[p].user
  BY <1>1, <1>4, CallFields DEF Session
<1>6. auth_sessions' = [auth_sessions EXCEPT ![k] = s]
  BY DEF InsertSession, e
<1> HIDE DEF s
<1>7. /\ auth_sessions' \in [Tokens -> Session] /\ auth_sessions'[k] = s
      /\ \A j \in Tokens \ {k} : auth_sessions'[j] = auth_sessions[j]
  BY <1>1, <1>2, <1>5, <1>6 DEF TypeOK
<1>8. /\ call' \in [Procs -> Call] /\ \A q \in Procs \ {p} : call'[q] = call[q]
      /\ call'[p].at = "auditSession" /\ call'[p].user = call[p].user
      /\ call'[p].live = call[p].live
  BY <1>1, Continued DEF InsertSession
<1>9. ASSUME NEW q \in Procs PROVE CallOK(q)'
  BY <1>2, <1>8 DEF AuthInv, InsertSession, CallOK, known
<1>10. ASSUME NEW q \in Procs PROVE TokenFresh(q)'
  <2>1. ASSUME q # p, call[q].at = "insertSession" PROVE auth_sessions'[call[q].token] = noSession
    <3>1. /\ call[q].token \in Tokens /\ auth_sessions[call[q].token] = noSession
          /\ call[q].token # k
      BY <1>1, <2>1 DEF AuthInv, TokenFresh
    <3>2. QED
      BY <1>7, <3>1
  <2>2. \A r \in Procs : TokenFresh(r)
    BY DEF AuthInv
  <2>3. QED
    BY <1>8, <2>1, <2>2, TokenKept
<1>11. ASSUME NEW j \in Tokens PROVE SessionOK(j)'
  BY <1>2, <1>5, <1>7 DEF AuthInv, InsertSession, SessionOK, known
<1>12. /\ UNCHANGED <<app_users, guard, origin, firsts, now, faults, missed, auth_audit_log>>
       /\ calls' \in Nat /\ \A q \in Procs : call'[q].at = "insertAdmin" => call[q].at = "insertAdmin"
  BY <1>1, <1>8 DEF InsertSession, history, TypeOK
<1>13. QED
  BY <1>7, <1>8, <1>9, <1>10, <1>11, <1>12, SessionStep

\* Revoking one session; a token without a row changes nothing.
LEMMA RevokeTokenStep ==
    ASSUME AuthInv, NEW p \in Procs, NEW k \in Tokens, RevokeToken(p, k)
    PROVE  AuthInv'
<1>1. TypeOK /\ "auditRevoked" \in Steps
  BY DEF AuthInv, Steps
<1>2. /\ call' \in [Procs -> Call] /\ \A q \in Procs \ {p} : call'[q] = call[q]
      /\ call'[p].at = "auditRevoked"
  BY <1>1, Continued DEF RevokeToken
<1>3. /\ auth_sessions' \in [Tokens -> Session]
      /\ \A j \in Tokens : auth_sessions'[j].user = auth_sessions[j].user
      /\ \A j \in Tokens : auth_sessions[j] = noSession => auth_sessions'[j] = noSession
  <2>1. CASE auth_sessions[k] = noSession
    BY <1>1, <2>1 DEF RevokeToken, TypeOK
  <2>2. CASE auth_sessions[k] # noSession
    <3> DEFINE s == [auth_sessions[k] EXCEPT !.revoked = TRUE]
    <3>1. auth_sessions' = [auth_sessions EXCEPT ![k] = s] /\ auth_sessions \in [Tokens -> Session]
      BY <1>1, <2>2 DEF RevokeToken, TypeOK
    <3>2. s \in Session /\ s.user = auth_sessions[k].user
      BY <3>1 DEF Session
    <3> HIDE DEF s
    <3>3. QED
      BY <2>2, <3>1, <3>2
  <2>3. QED
    BY <2>1, <2>2
<1>4. ASSUME NEW q \in Procs PROVE CallOK(q)'
  BY <1>2 DEF AuthInv, RevokeToken, CallOK, known
<1>5. ASSUME NEW q \in Procs PROVE TokenFresh(q)'
  <2>1. \A r \in Procs : TokenFresh(r)
    BY DEF AuthInv
  <2>2. QED
    BY <1>2, <1>3, <2>1, TokenKept DEF TokenFresh
<1>6. ASSUME NEW j \in Tokens PROVE SessionOK(j)'
  BY <1>3, SessionKept DEF AuthInv, RevokeToken, RowsStay
<1>7. /\ UNCHANGED <<app_users, guard, origin, firsts, now, faults, missed, auth_audit_log>>
      /\ calls' \in Nat /\ \A q \in Procs : call'[q].at = "insertAdmin" => call[q].at = "insertAdmin"
  BY <1>1, <1>2 DEF RevokeToken, begin, history, TypeOK
<1>8. QED
  BY <1>2, <1>3, <1>4, <1>5, <1>6, <1>7, SessionStep

\* Revoking the sessions of an account: an empty row belongs to none.
LEMMA RevokeAllForUserStep ==
    ASSUME AuthInv, NEW p \in Procs, NEW u \in Users, RevokeAllForUser(p, u)
    PROVE  AuthInv'
<1>1. TypeOK
  BY DEF AuthInv
<1>2. /\ auth_sessions' \in [Tokens -> Session]
      /\ \A j \in Tokens : auth_sessions'[j].user = auth_sessions[j].user
  <2>1. auth_sessions \in [Tokens -> Session]
    BY <1>1 DEF TypeOK
  <2>2. ASSUME NEW s \in Session
        PROVE  [s EXCEPT !.revoked = TRUE] \in Session /\ [s EXCEPT !.revoked = TRUE].user = s.user
    BY DEF Session
  <2>3. QED
    BY <2>1, <2>2 DEF RevokeAllForUser
<1>3. \A j \in Tokens : auth_sessions[j] = noSession => auth_sessions'[j] = noSession
  BY AuthAssumption DEF RevokeAllForUser, noSession
<1>4. ASSUME NEW q \in Procs PROVE CallOK(q)'
  BY DEF AuthInv, RevokeAllForUser, CallOK, known
<1>5. ASSUME NEW q \in Procs PROVE TokenFresh(q)'
  BY <1>3 DEF AuthInv, RevokeAllForUser, TokenFresh
<1>6. ASSUME NEW j \in Tokens PROVE SessionOK(j)'
  BY <1>2, <1>3, SessionKept DEF AuthInv, RevokeAllForUser, RowsStay
<1>7. /\ UNCHANGED <<app_users, guard, origin, firsts, now, faults, missed, auth_audit_log>>
      /\ calls' \in Nat /\ call' \in [Procs -> Call]
      /\ \A q \in Procs : call'[q].at = "insertAdmin" => call[q].at = "insertAdmin"
  BY <1>1 DEF RevokeAllForUser, begin, history, TypeOK
<1>8. QED
  BY <1>2, <1>4, <1>5, <1>6, <1>7, SessionStep
-----------------------------------------------------------------------------
(* Statements that change the accounts. *)

\* A new row is that of an account nothing refers to yet.
LEMMA Created ==
    ASSUME TypeOK, NEW u \in Users, NEW c \in ControlSet, app_users[u].state = "absent",
           created(u, c)
    PROVE  /\ app_users' \in [Users -> User]
           /\ app_users'[u].state = "active" /\ app_users'[u].controlSet = c
           /\ \A v \in Users \ {u} : app_users'[v] = app_users[v]
           /\ activeAdminExists => activeAdminExists'
<1> DEFINE r == [state |-> "active", controlSet |-> c]
<1>1. r \in User /\ r.state = "active" /\ r.controlSet = c
  BY DEF User
<1>2. app_users' = [app_users EXCEPT ![u] = r]
  BY DEF created
<1> HIDE DEF r
<1>3. /\ app_users' \in [Users -> User] /\ app_users'[u] = r
      /\ \A v \in Users \ {u} : app_users'[v] = app_users[v]
  BY <1>1, <1>2 DEF TypeOK
<1>4. activeAdminExists => activeAdminExists'
  BY <1>3 DEF activeAdminExists
<1>5. QED
  BY <1>1, <1>3, <1>4

\* The part of the invariant that a new row disturbs is about its histories.
LEMMA CreatedStep ==
    ASSUME AuthInv, NEW p \in Procs, NEW u \in Users, NEW c \in ControlSet,
           app_users[u].state = "absent", created(u, c),
           UNCHANGED <<auth_sessions, guard, now, faults, missed, auth_audit_log>>,
           calls' \in Nat, call' \in [Procs -> Call],
           \A q \in Procs \ {p} : call'[q] = call[q],
           call'[p].at \in {"auditAdmin", "auditUser"},
           origin' \in [Users -> Users \cup {None, "bootstrap"}],
           firsts' \in [Users -> Procs \cup {None}],
           AuthorityChain', OneFirstAdminEach', \A v \in Users : HistoryOK(v)'
    PROVE  AuthInv'
<1>1. /\ app_users' \in [Users -> User] /\ app_users'[u].state = "active"
      /\ \A v \in Users \ {u} : app_users'[v] = app_users[v]
  BY Created DEF AuthInv
<1>2. RowsStay
  BY <1>1 DEF RowsStay
<1>3. ASSUME NEW q \in Procs PROVE CallOK(q)'
  <2>1. CASE q = p
    BY <2>1 DEF CallOK
  <2>2. CASE q # p
    BY <1>2, <2>2, CallKept DEF AuthInv
  <2>3. QED
    BY <2>1, <2>2
<1>4. ASSUME NEW q \in Procs PROVE TokenFresh(q)'
  <2>1. \A r \in Procs : TokenFresh(r)
    BY DEF AuthInv
  <2>2. QED
    BY <2>1, TokenKept DEF TokenFresh
<1>5. ASSUME NEW q \in Procs PROVE GuardOK(q)'
  BY <1>2, GuardKept DEF AuthInv
<1>6. ASSUME NEW k \in Tokens PROVE SessionOK(k)'
  BY <1>2, SessionKept DEF AuthInv
<1>7. TypeOK'
  <2>1. ASSUME NEW q \in Procs, call'[q].at = "insertSession" PROVE call'[q].token # None
    BY <1>4, <2>1, AuthAssumption DEF TokenFresh
  <2>2. TypeOK
    BY DEF AuthInv
  <2>3. QED
    BY <1>1, <2>1, <2>2 DEF TypeOK
<1>8. QED
  BY <1>3, <1>4, <1>5, <1>6, <1>7 DEF AuthInv

\* The first administrator, or one of several that were bootstrapped at once.
LEMMA InsertAdminStep ==
    ASSUME AuthInv, NEW p \in Procs, InsertAdmin(p)
    PROVE  AuthInv'
<1> DEFINE u == call[p].user
<1>1. TypeOK /\ u \in Users /\ "auditAdmin" \in Steps /\ call[p].at = "insertAdmin"
  BY DEF AuthInv, InsertAdmin, CallOK, Steps
<1>2. CASE app_users[u].state # "absent"
  <2>1. /\ finish(p) /\ UNCHANGED <<app_users, auth_sessions, guard, origin, firsts, now, calls>>
        /\ faults' \in Nat /\ auth_audit_log' \in [AuditAction \X AuditResult -> Nat]
        /\ missed' \in [AuditAction \X AuditResult -> Nat]
    BY <1>1, <1>2 DEF InsertAdmin, TypeOK
  <2>2. QED
    BY <2>1, FinishStep
<1>3. CASE app_users[u].state = "absent"
  <2>1. /\ created(u, "admin") /\ continue(p, "auditAdmin")
        /\ origin' = [origin EXCEPT ![u] = "bootstrap"] /\ firsts' = [firsts EXCEPT ![u] = p]
        /\ UNCHANGED <<auth_sessions, guard, now, faults, missed, auth_audit_log, calls>>
    BY <1>3 DEF InsertAdmin
  <2>2. "admin" \in ControlSet
    BY DEF ControlSet
  <2>3. /\ app_users' \in [Users -> User]
        /\ app_users'[u].state = "active" /\ app_users'[u].controlSet = "admin"
        /\ \A v \in Users \ {u} : app_users'[v] = app_users[v]
    BY <1>1, <1>3, <2>1, <2>2, Created
  <2>4. activeAdminExists'
    BY <1>1, <2>1, <2>2 DEF activeAdminExists, created, TypeOK
  <2>5. /\ call' \in [Procs -> Call] /\ \A q \in Procs \ {p} : call'[q] = call[q]
        /\ call'[p].at = "auditAdmin"
    BY <1>1, <2>1, Continued
  <2>6. /\ origin' \in [Users -> Users \cup {None, "bootstrap"}] /\ origin'[u] = "bootstrap"
        /\ firsts' \in [Users -> Procs \cup {None}] /\ firsts'[u] = p
        /\ \A v \in Users \ {u} : origin'[v] = origin[v] /\ firsts'[v] = firsts[v]
    BY <1>1, <2>1 DEF TypeOK
  <2>7. ASSUME NEW v \in Users \ {u} PROVE firsts[v] # p
    BY <1>1, <2>7, AuthAssumption DEF AuthInv, HistoryOK
  <2>8. OneFirstAdminEach'
    <3>1. OneFirstAdminEach
      BY DEF AuthInv
    <3>2. QED
      BY <1>1, <2>6, <2>7, <3>1 DEF OneFirstAdminEach
  <2>9. ASSUME NEW v \in Users PROVE HistoryOK(v)'
    <3>1. CASE v = u
      BY <2>3, <2>4, <2>5, <2>6, <3>1 DEF HistoryOK
    <3>2. CASE v # u
      <4>1. HistoryOK(v) /\ app_users'[v] = app_users[v] /\ origin'[v] = origin[v]
            /\ firsts'[v] = firsts[v] /\ firsts[v] \in Procs \cup {None}
        BY <1>1, <2>3, <2>6, <3>2 DEF AuthInv, TypeOK
      <4>2. firsts[v] # None => call'[firsts[v]].at # "insertAdmin"
        BY <2>5, <4>1 DEF HistoryOK
      <4>3. QED
        BY <2>4, <4>1, <4>2 DEF HistoryOK
    <3>3. QED
      BY <3>1, <3>2
  <2>10. AuthorityChain'
    <3>1. AuthorityChain /\ origin \in [Users -> Users \cup {None, "bootstrap"}]
      BY DEF AuthInv, TypeOK
    <3>2. RowsStay
      BY <1>3, <2>3 DEF RowsStay
    <3>3. ASSUME NEW v \in Users, v # u PROVE Authorised(v)'
      <4>1. Authorised(v)
        BY <3>1 DEF AuthorityChain, Authorised
      <4>2. QED
        BY <2>3, <2>6, <3>2, <3>3, <4>1, AuthorisedKept
    <3>4. ASSUME NEW v \in Users, v = u PROVE Authorised(v)'
      <4>1. origin'[v] = "bootstrap" /\ app_users'[v].controlSet = "admin"
        BY <2>3, <2>6, <3>4
      <4>2. QED
        BY <4>1, AuthAssumption DEF Authorised
    <3>5. QED
      BY <3>3, <3>4 DEF AuthorityChain, Authorised
  <2>11. calls' \in Nat
    BY <1>1, <2>1 DEF TypeOK
  <2>12. QED
    BY <1>1, <1>3, <2>1, <2>2, <2>5, <2>6, <2>8, <2>9, <2>10, <2>11, CreatedStep
<1>4. QED
  BY <1>2, <1>3

\* An account that an administrator's guard creates.
LEMMA CreateUserStep ==
    ASSUME AuthInv, NEW p \in Procs, NEW u \in Users, NEW c \in ControlSet, CreateUser(p, u, c)
    PROVE  AuthInv'
<1>1. TypeOK /\ "auditUser" \in Steps /\ app_users[u].state = "absent"
  BY DEF AuthInv, Steps, CreateUser
<1>2. /\ app_users' \in [Users -> User] /\ app_users'[u].state = "active"
      /\ \A v \in Users \ {u} : app_users'[v] = app_users[v]
      /\ activeAdminExists => activeAdminExists'
  BY <1>1, Created DEF CreateUser
<1>3. /\ call' \in [Procs -> Call] /\ \A q \in Procs \ {p} : call'[q] = call[q]
      /\ call'[p].at = "auditUser"
  BY <1>1, Continued DEF CreateUser
<1>4. /\ known(guard[p].user) /\ guard[p].user # u
      /\ app_users[guard[p].user].controlSet = "admin"
  BY <1>1 DEF AuthInv, GuardOK, known, CreateUser, requireUserManagement, canManageUsers
<1>5. /\ origin' \in [Users -> Users \cup {None, "bootstrap"}] /\ origin'[u] = guard[p].user
      /\ \A v \in Users \ {u} : origin'[v] = origin[v]
  BY <1>1, <1>4 DEF CreateUser, TypeOK, known
<1>6. AuthorityChain'
  <2>1. AuthorityChain
    BY DEF AuthInv
  <2>2. RowsStay
    BY <1>1, <1>2 DEF RowsStay
  <2>3. ASSUME NEW v \in Users, v # u PROVE Authorised(v)'
    <3>1. Authorised(v)
      BY <2>1 DEF AuthorityChain, Authorised
    <3>2. QED
      BY <1>2, <1>5, <2>2, <2>3, <3>1, AuthorisedKept
  <2>4. Authorised(u)'
    <3>1. /\ origin'[u] = guard[p].user /\ guard[p].user \in Users \ {u}
          /\ app_users'[guard[p].user] = app_users[guard[p].user]
      BY <1>2, <1>4, <1>5 DEF known
    <3>2. QED
      BY <1>4, <3>1, AuthAssumption DEF Authorised, known
  <2>5. QED
    BY <2>3, <2>4 DEF AuthorityChain, Authorised
<1>7. OneFirstAdminEach' /\ firsts' \in [Users -> Procs \cup {None}]
  BY <1>1 DEF AuthInv, OneFirstAdminEach, CreateUser, TypeOK
<1>8. ASSUME NEW v \in Users PROVE HistoryOK(v)'
  <2>1. HistoryOK(v) /\ firsts'[v] = firsts[v] /\ firsts[v] \in Procs \cup {None}
    BY <1>1 DEF AuthInv, CreateUser, TypeOK
  <2>2. firsts[v] # None => activeAdminExists' /\ call'[firsts[v]].at # "insertAdmin"
    BY <1>2, <1>3, <2>1 DEF HistoryOK
  <2>3. app_users'[v].state = "absent" => app_users'[v] = app_users[v] /\ origin'[v] = origin[v]
    BY <1>2, <1>5
  <2>4. QED
    BY <2>1, <2>2, <2>3 DEF HistoryOK
<1>9. /\ created(u, c) /\ calls' \in Nat
      /\ UNCHANGED <<auth_sessions, guard, now, faults, missed, auth_audit_log>>
  BY <1>1 DEF CreateUser, begin, TypeOK
<1>10. QED
  BY <1>1, <1>3, <1>5, <1>6, <1>7, <1>8, <1>9, CreatedStep

\* A deactivated account stays where it is, with its control set; when it was the last
\* active administrator, the bootstrap may begin again.
LEMMA DeactivateUserStep ==
    ASSUME AuthInv, NEW p \in Procs, NEW u \in Users, DeactivateUser(p, u)
    PROVE  AuthInv'
<1>1. TypeOK /\ "auditDeactivated" \in Steps
  BY DEF AuthInv, Steps
<1>2. /\ app_users' \in [Users -> User]
      /\ \A v \in Users : /\ app_users'[v].controlSet = app_users[v].controlSet
                          /\ app_users'[v].state = "absent" <=> app_users[v].state = "absent"
                          /\ app_users[v].state = "inactive" => app_users'[v].state = "inactive"
  BY <1>1 DEF DeactivateUser, TypeOK, User
<1>3. /\ call' \in [Procs -> Call] /\ \A q \in Procs \ {p} : call'[q] = call[q]
      /\ call'[p].at = "auditDeactivated"
  BY <1>1, Continued DEF DeactivateUser
<1>4. /\ firsts' \in [Users -> Procs \cup {None}]
      /\ \A v \in Users : firsts'[v] # None => firsts'[v] = firsts[v] /\ activeAdminExists'
      /\ \A v \in Users : firsts[v] = None => firsts'[v] = None
  BY <1>1 DEF DeactivateUser, TypeOK
<1>5. /\ UNCHANGED <<auth_sessions, guard, now, faults, missed, auth_audit_log, origin>>
      /\ calls' \in Nat
  BY <1>1 DEF DeactivateUser, begin, TypeOK
<1>6. RowsStay
  BY <1>2 DEF RowsStay
<1>7. ASSUME NEW q \in Procs PROVE CallOK(q)' /\ TokenFresh(q)' /\ GuardOK(q)'
  <2>1. CallOK(q) /\ GuardOK(q) /\ \A r \in Procs : TokenFresh(r)
    BY DEF AuthInv
  <2>2. TokenFresh(q)'
    BY <1>3, <1>5, <2>1, TokenKept DEF TokenFresh
  <2>3. GuardOK(q)'
    BY <1>5, <1>6, <2>1, GuardKept
  <2>4. CASE q = p
    BY <1>3, <2>2, <2>3, <2>4 DEF CallOK
  <2>5. CASE q # p
    BY <1>3, <1>6, <2>1, <2>2, <2>3, <2>5, CallKept
  <2>6. QED
    BY <2>4, <2>5
<1>8. ASSUME NEW k \in Tokens PROVE SessionOK(k)'
  BY <1>5, <1>6, SessionKept DEF AuthInv
<1>9. ASSUME NEW v \in Users PROVE HistoryOK(v)'
  <2>1. HistoryOK(v) /\ firsts[v] \in Procs \cup {None}
    BY <1>1 DEF AuthInv, TypeOK
  <2>2. firsts'[v] # None => activeAdminExists' /\ call'[firsts'[v]].at # "insertAdmin"
    BY <1>3, <1>4, <2>1 DEF HistoryOK
  <2>3. app_users'[v].state = "absent" => origin'[v] = None /\ firsts'[v] = None
    BY <1>2, <1>4, <1>5, <2>1 DEF HistoryOK
  <2>4. QED
    BY <2>2, <2>3 DEF HistoryOK
<1>10. AuthorityChain'
  <2>1. AuthorityChain
    BY DEF AuthInv
  <2>2. ASSUME NEW v \in Users PROVE Authorised(v)'
    <3>1. Authorised(v)
      BY <2>1 DEF AuthorityChain, Authorised
    <3>2. QED
      BY <1>2, <1>5, <1>6, <3>1, AuthorisedKept
  <2>3. QED
    BY <2>2 DEF AuthorityChain, Authorised
<1>11. OneFirstAdminEach'
  BY <1>4 DEF AuthInv, OneFirstAdminEach
<1>12. TypeOK'
  BY <1>1, <1>2, <1>3, <1>4, <1>5, <1>7, AuthAssumption DEF TypeOK, TokenFresh
<1>13. QED
  BY <1>7, <1>8, <1>9, <1>10, <1>11, <1>12 DEF AuthInv
-----------------------------------------------------------------------------
(* The invariant, and what follows from it. *)

\* The invariant holds of the empty database.
LEMMA AuthInit == Init => AuthInv
<1> SUFFICES ASSUME Init PROVE AuthInv
  OBVIOUS
<1>1. /\ [state |-> "absent", controlSet |-> "user"] \in User /\ noSession \in Session
      /\ [user |-> None, controlSet |-> "user"] \in [user : Users \cup {None}, controlSet : ControlSet]
  BY DEF User, Session, noSession, ControlSet
<1>2. TypeOK
  BY <1>1, IdleCall DEF Init, TypeOK
<1>3. \A p \in Procs : CallOK(p) /\ TokenFresh(p) /\ GuardOK(p)
  BY IdleCall DEF Init, CallOK, TokenFresh, GuardOK
<1>4. \A k \in Tokens : SessionOK(k)
  BY DEF Init, SessionOK
<1>5. \A u \in Users : HistoryOK(u)
  BY DEF Init, HistoryOK
<1>6. AuthorityChain /\ OneFirstAdminEach
  BY AuthAssumption DEF Init, AuthorityChain, OneFirstAdminEach
<1>7. QED
  BY <1>2, <1>3, <1>4, <1>5, <1>6 DEF AuthInv

\* Every step of every process keeps it.
LEMMA AuthStep == AuthInv /\ [Next]_vars => AuthInv'
<1> SUFFICES ASSUME AuthInv, [Next]_vars PROVE AuthInv'
  OBVIOUS
<1>1. CASE \E p \in Procs, u \in Users, matches, forSession \in BOOLEAN :
              VerifyPassword(p, u, matches, forSession)
  BY <1>1, VerifyPasswordStep
<1>2. CASE \E p \in Procs, k \in Tokens : IntrospectToken(p, k)
  BY <1>2, IntrospectTokenStep
<1>3. CASE \E p \in Procs, k \in Tokens : RevokeToken(p, k)
  BY <1>3, RevokeTokenStep
<1>4. CASE \E p \in Procs, u \in Users : RevokeAllForUser(p, u)
  BY <1>4, RevokeAllForUserStep
<1>5. CASE \E p \in Procs, u \in Users : CreateFirstAdmin(p, u)
  BY <1>5, CreateFirstAdminStep
<1>6. CASE \E p \in Procs, u \in Users, c \in ControlSet : CreateUser(p, u, c)
  BY <1>6, CreateUserStep
<1>7. CASE \E p \in Procs, u \in Users : DeactivateUser(p, u)
  BY <1>7, DeactivateUserStep
<1>8. ASSUME NEW p \in Procs, Step(p) PROVE AuthInv'
  BY <1>8, TouchLastLoginStep, AuditVerifiedStep, AuditNotVerifiedStep, InsertSessionStep,
     TouchLastUsedStep, FindByIdStep, AuditActiveStep, InsertAdminStep, AuditAndReturnStep DEF Step
<1>9. CASE \E p \in Procs : Fault(p)
  BY <1>9, FaultStep
<1>10. ASSUME UNCHANGED <<tables, call, guard, calls, faults, history>>, now' \in Nat
       PROVE  AuthInv'
  <2>1. TypeOK'
    BY <1>10 DEF AuthInv, TypeOK, tables, history
  <2>2. ASSUME NEW q \in Procs PROVE CallOK(q)' /\ TokenFresh(q)' /\ GuardOK(q)'
    BY <1>10 DEF AuthInv, CallOK, TokenFresh, GuardOK, known, tables
  <2>3. ASSUME NEW k \in Tokens PROVE SessionOK(k)'
    BY <1>10 DEF AuthInv, SessionOK, known, tables
  <2>4. ASSUME NEW u \in Users PROVE HistoryOK(u)'
    BY <1>10 DEF AuthInv, HistoryOK, activeAdminExists, tables, history
  <2>5. AuthorityChain' /\ OneFirstAdminEach'
    BY <1>10 DEF AuthInv, AuthorityChain, OneFirstAdminEach, tables, history
  <2>6. QED
    BY <2>1, <2>2, <2>3, <2>4, <2>5 DEF AuthInv
<1>11. CASE Tick
  <2>1. now' \in Nat
    BY <1>11 DEF AuthInv, TypeOK, Tick
  <2>2. QED
    BY <1>10, <1>11, <2>1 DEF Tick
<1>12. CASE UNCHANGED vars
  BY <1>10, <1>12 DEF AuthInv, TypeOK, vars, tables, history
<1>13. QED
  BY <1>1, <1>2, <1>3, <1>4, <1>5, <1>6, <1>7, <1>8, <1>9, <1>11, <1>12 DEF Next

\* The inductive invariant holds throughout.
THEOREM AuthInvariant == Spec => []AuthInv
BY AuthInit, AuthStep, PTL DEF Spec

\* The accounts, the sessions, the log and the calls keep their types, and a session is
\* inserted under a token that was generated for it.
THEOREM AuthTypes == Spec => []TypeOK
<1>1. AuthInv => TypeOK
  BY DEF AuthInv
<1>2. QED
  BY <1>1, AuthInvariant, PTL

\* verifyPassword, createSession and introspectToken grant only what was live when
\* they were called.
THEOREM OnlyLiveGrants == Spec => []GrantsWereLive
<1>1. AuthInv => GrantsWereLive
  BY DEF AuthInv, CallOK, GrantsWereLive
<1>2. QED
  BY <1>1, AuthInvariant, PTL

\* Every account goes back to the bootstrap through administrators.
THEOREM AuthorityIsHandedDown == Spec => []AuthorityChain
<1>1. AuthInv => AuthorityChain
  BY DEF AuthInv
<1>2. QED
  BY <1>1, AuthInvariant, PTL

\* createFirstAdmin gives a process at most one administrator while there is one.
THEOREM OneFirstAdmin == Spec => []OneFirstAdminEach
<1>1. AuthInv => OneFirstAdminEach
  BY DEF AuthInv
<1>2. QED
  BY <1>1, AuthInvariant, PTL

\* A revoked session stays revoked and a deactivated account inactive, whatever calls
\* that read them earlier still write.
THEOREM RevokedForGood == Spec => RevocationIsFinal
<1> DEFINE Kept == /\ \A k \in Tokens : auth_sessions[k].revoked => auth_sessions'[k].revoked
                   /\ \A u \in Users : app_users[u].state = "inactive" => app_users'[u].state = "inactive"
<1>1. AuthInv /\ [Next]_vars => [Kept]_vars
  <2> SUFFICES ASSUME AuthInv, Next PROVE Kept
    OBVIOUS
  <2>1. TypeOK
    BY DEF AuthInv
  <2>2. CASE UNCHANGED <<app_users, auth_sessions>>
    BY <2>2
  <2>3. ASSUME NEW p \in Procs, InsertSession(p) PROVE Kept
    <3>1. ~auth_sessions[call[p].token].revoked
      <4>1. TokenFresh(p) /\ call[p].at = "insertSession"
        BY <2>3 DEF AuthInv, InsertSession
      <4>2. auth_sessions[call[p].token] = noSession
        BY <4>1 DEF TokenFresh
      <4>3. noSession.revoked = FALSE
        BY DEF noSession
      <4>4. QED
        BY <4>2, <4>3
    <3>2. \A k \in Tokens \ {call[p].token} : auth_sessions'[k] = auth_sessions[k]
      BY <2>1, <2>3 DEF InsertSession, TypeOK
    <3>3. UNCHANGED app_users
      BY <2>3 DEF InsertSession
    <3>4. QED
      BY <3>1, <3>2, <3>3
  <2>4. ASSUME NEW p \in Procs, NEW k \in Tokens, RevokeToken(p, k) PROVE Kept
    BY <2>1, <2>4 DEF RevokeToken, TypeOK, Session
  <2>5. ASSUME NEW p \in Procs, NEW u \in Users, RevokeAllForUser(p, u) PROVE Kept
    BY <2>1, <2>5 DEF RevokeAllForUser, TypeOK, Session
  <2>6. ASSUME NEW p \in Procs, InsertAdmin(p) PROVE Kept
    <3>1. call[p].user \in Users
      BY <2>6 DEF AuthInv, InsertAdmin, CallOK
    <3>2. QED
      BY <2>1, <2>6, <3>1 DEF InsertAdmin, created, TypeOK, User
  <2>7. ASSUME NEW p \in Procs, NEW u \in Users, NEW c \in ControlSet, CreateUser(p, u, c) PROVE Kept
    BY <2>1, <2>7 DEF CreateUser, created, TypeOK, User
  <2>8. ASSUME NEW p \in Procs, NEW u \in Users, DeactivateUser(p, u) PROVE Kept
    BY <2>1, <2>8 DEF DeactivateUser, TypeOK, User
  <2>9. \/ UNCHANGED <<app_users, auth_sessions>>
        \/ \E p \in Procs : InsertSession(p) \/ InsertAdmin(p)
        \/ \E p \in Procs, k \in Tokens : RevokeToken(p, k)
        \/ \E p \in Procs, u \in Users : RevokeAllForUser(p, u) \/ DeactivateUser(p, u)
        \/ \E p \in Procs, u \in Users, c \in ControlSet : CreateUser(p, u, c)
    BY DEF Next, Step, VerifyPassword, TouchLastLogin, AuditVerified, AuditNotVerified,
       IntrospectToken, TouchLastUsed, FindById, AuditActive, CreateFirstAdmin, AuditAndReturn,
       Fault, Tick, tables
  <2>10. QED
    BY <2>2, <2>3, <2>4, <2>5, <2>6, <2>7, <2>8, <2>9
<1>2. QED
  BY <1>1, AuthInvariant, PTL DEF Spec, RevocationIsFinal
=============================================================================
