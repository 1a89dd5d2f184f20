----------------------------- MODULE AuthBroker -----------------------------
(***************************************************************************)
(* Accounts, sessions and the audit log: the auth broker, the bootstrap of *)
(* the first administrator and the user management service.  They share    *)
(* one database and use no transaction, so every SQL statement is a step   *)
(* of its own, other processes run between two of them, and a statement    *)
(* that throws ends its operation where it stands.                         *)
(*                                                                         *)
(* An account's id is as good as its username: both are unique, and no row *)
(* is ever deleted or renamed.  A token stands for its hash.  Columns that *)
(* nothing reads back (last_login_at, last_used_at) are left out; the      *)
(* statements that write them are steps.                                   *)
(***************************************************************************)
EXTENDS Naturals, FiniteSets

CONSTANTS
    Procs,            \* processes with a database session, one call at a time
    Users,            \* usernames
    Tokens,           \* what TokenGenerator may return
    None,
    TicksPerSecond,   \* the clock is finer than the seconds that are stored
    Lifetime,         \* sessionLifetime, in seconds
    MaxTime,          \* bound: the last tick
    MaxCalls,         \* bound: calls begun
    MaxFaults         \* bound: statements that throw

ASSUME AuthAssumption ==
    /\ TicksPerSecond \in Nat \ {0} /\ Lifetime \in Nat
    /\ MaxTime \in Nat /\ MaxCalls \in Nat /\ MaxFaults \in Nat
    /\ None \notin Users /\ None \notin Tokens /\ None \notin Procs
    /\ "bootstrap" \notin Users /\ None # "bootstrap"

ControlSet == {"admin", "user"}
AuditAction == {"password.verify", "session.create", "token.introspect", "token.revoke",
                "user.create", "user.deactivate", "first_admin.create"}
AuditResult == {"success", "failure", "denied"}

VARIABLES
    now,        \* the clock, in ticks
    app_users,  \* the accounts: "absent", "active" or "inactive", and their control set
    auth_sessions, \* the sessions, by token
    auth_audit_log, \* how many entries there are of each action and result
    call,       \* the call each process is in, and where
    guard,      \* the AccessGuard a process holds: whose, and the control set it copied
    calls, faults, \* how much of the bounds is used
    missed,     \* history: entries that were due when their call was cut off
    origin,     \* history: the account that created an account, or "bootstrap"
    firsts      \* history: which process bootstrapped an account, since the last time
                \* there was no active administrator

vars == <<now, app_users, auth_sessions, auth_audit_log, call, guard, calls, faults,
          missed, origin, firsts>>

\* Where a call stands: the statement it executes next.
Steps == {"idle", "touchLastLogin", "auditVerified", "auditNotVerified", "auditNoSession",
          "insertSession", "auditSession", "touchLastUsed", "findById", "auditActive",
          "auditInactive", "auditRevoked", "insertAdmin", "auditAdmin", "auditDenied",
          "auditUser", "auditDeactivated"}

Call == [at : Steps, user : Users \cup {None}, token : Tokens \cup {None},
         expiresAt : Nat, session : BOOLEAN, live : BOOLEAN]

User == [state : {"absent", "active", "inactive"}, controlSet : ControlSet]
Session == [user : Users \cup {None}, expiresAt : Nat, revoked : BOOLEAN, told : Nat]

callAt(step, user, token, expiresAt, session, live) ==
    [at |-> step, user |-> user, token |-> token, expiresAt |-> expiresAt,
     session |-> session, live |-> live]
idle == callAt("idle", None, None, 0, FALSE, FALSE)
noSession == [user |-> None, expiresAt |-> 0, revoked |-> FALSE, told |-> 0]

\* Types; a session is inserted under a token that was generated for it.
TypeOK ==
    /\ now \in Nat /\ calls \in Nat /\ faults \in Nat
    /\ app_users \in [Users -> User]
    /\ auth_sessions \in [Tokens -> Session]
    /\ auth_audit_log \in [AuditAction \X AuditResult -> Nat]
    /\ missed \in [AuditAction \X AuditResult -> Nat]
    /\ call \in [Procs -> Call]
    /\ guard \in [Procs -> [user : Users \cup {None}, controlSet : ControlSet]]
    /\ origin \in [Users -> Users \cup {None, "bootstrap"}]
    /\ firsts \in [Users -> Procs \cup {None}]
    /\ \A p \in Procs : call[p].at = "insertSession" => call[p].token # None

Init ==
    /\ now = 0 /\ calls = 0 /\ faults = 0
    /\ app_users = [u \in Users |-> [state |-> "absent", controlSet |-> "user"]]
    /\ auth_sessions = [k \in Tokens |-> noSession]
    /\ auth_audit_log = [e \in AuditAction \X AuditResult |-> 0]
    /\ missed = [e \in AuditAction \X AuditResult |-> 0]
    /\ call = [p \in Procs |-> idle]
    /\ guard = [p \in Procs |-> [user |-> None, controlSet |-> "user"]]
    /\ origin = [u \in Users |-> None]
    /\ firsts = [u \in Users |-> None]
-----------------------------------------------------------------------------
(* What the statements read. *)

findByUsername(u) == app_users[u].state = "active"
findById(u) == u \in Users /\ app_users[u].state = "active"
activeAdminExists == \E u \in Users : app_users[u] = [state |-> "active", controlSet |-> "admin"]

\* The stored time is in whole seconds.
toEpoch(t) == (t \div TicksPerSecond) * TicksPerSecond

\* Slip: a session ends a second before its time.
isActiveASecondEarly(expiresAt, revoked, t) == ~revoked /\ t + TicksPerSecond < expiresAt
isActive(expiresAt, revoked, t) == ~revoked /\ t < expiresAt

canManageUsers(controlSet) == controlSet = "admin"
requireUserManagement(p) == guard[p].user # None /\ canManageUsers(guard[p].controlSet)

\* guardFor: the guard holds a copy of the account's control set, which no statement
\* changes once the account is there.
guardFor(u) == [user |-> u, controlSet |-> app_users[u].controlSet]
-----------------------------------------------------------------------------
(* Calls and their steps. *)

begin(p) == call[p] = idle /\ calls < MaxCalls /\ calls' = calls + 1

continue(p, step) == call' = [call EXCEPT ![p].at = step]

finish(p) == call' = [call EXCEPT ![p] = idle]

append(entry) == auth_audit_log' = [auth_audit_log EXCEPT ![entry] = @ + 1]

\* The entry that each appending step writes.
due ==
    [auditVerified |-> <<"password.verify", "success">>,
     auditNotVerified |-> <<"password.verify", "failure">>,
     auditNoSession |-> <<"session.create", "failure">>,
     auditSession |-> <<"session.create", "success">>,
     auditActive |-> <<"token.introspect", "success">>,
     auditInactive |-> <<"token.introspect", "failure">>,
     auditRevoked |-> <<"token.revoke", "success">>,
     auditAdmin |-> <<"first_admin.create", "success">>,
     auditDenied |-> <<"first_admin.create", "denied">>,
     auditUser |-> <<"user.create", "success">>,
     auditDeactivated |-> <<"user.deactivate", "success">>]

history == <<missed, origin, firsts>>
tables == <<app_users, auth_sessions, auth_audit_log>>

\* verifyPassword looks the account up and compares the hash, for its own sake or
\* for createSession.
VerifyPassword(p, u, matches, forSession) ==
    /\ begin(p)
    /\ call' = [call EXCEPT ![p] = callAt(
                    IF findByUsername(u) /\ matches THEN "touchLastLogin" ELSE "auditNotVerified",
                    u, None, 0, forSession, findByUsername(u))]
    /\ UNCHANGED <<now, tables, guard, faults, history>>

TouchLastLogin(p) ==
    /\ call[p].at = "touchLastLogin"
    /\ continue(p, "auditVerified")
    /\ UNCHANGED <<now, tables, guard, calls, faults, history>>

\* The verified account is returned to the caller, or createSession goes on with it:
\* it takes a fresh token and the time at which the session will expire.
AuditVerified(p) ==
    /\ call[p].at = "auditVerified"
    /\ append(due.auditVerified)
    /\ \/ /\ call[p].session
          /\ \E k \in Tokens :
                /\ auth_sessions[k] = noSession
                /\ \A q \in Procs : call[q].token # k
                /\ call' = [call EXCEPT ![p] = callAt("insertSession", @.user, k,
                                now + Lifetime * TicksPerSecond, @.session, @.live)]
          /\ UNCHANGED guard
       \/ /\ ~call[p].session
          /\ finish(p)
          /\ guard' = [guard EXCEPT ![p] = guardFor(call[p].user)]
    /\ UNCHANGED <<now, app_users, auth_sessions, calls, faults, history>>

AuditNotVerified(p) ==
    /\ call[p].at = "auditNotVerified"
    /\ append(due.auditNotVerified)
    /\ IF call[p].session THEN continue(p, "auditNoSession") ELSE finish(p)
    /\ UNCHANGED <<now, app_users, auth_sessions, guard, calls, faults, history>>

\* Slip: the audit entry is forgotten.
InsertSessionUnlogged(p) ==
    /\ call[p].at = "insertSession"
    /\ auth_sessions' = [auth_sessions EXCEPT ![call[p].token] =
            [user |-> call[p].user, expiresAt |-> toEpoch(call[p].expiresAt),
             revoked |-> FALSE, told |-> call[p].expiresAt]]
    /\ finish(p)
    /\ UNCHANGED <<now, app_users, auth_audit_log, guard, calls, faults, history>>

\* The row holds whole seconds, the session that is returned the exact time.
InsertSession(p) ==
    /\ call[p].at = "insertSession"
    /\ auth_sessions' = [auth_sessions EXCEPT ![call[p].token] =
            [user |-> call[p].user, expiresAt |-> toEpoch(call[p].expiresAt),
             revoked |-> FALSE, told |-> call[p].expiresAt]]
    /\ continue(p, "auditSession")
    /\ UNCHANGED <<now, app_users, auth_audit_log, guard, calls, faults, history>>

\* introspectToken reads the session's row; the rest works on that copy.
IntrospectToken(p, k) ==
    LET s == auth_sessions[k] IN
    /\ begin(p)
    /\ call' = [call EXCEPT ![p] = callAt(
                    IF s # noSession /\ isActive(s.expiresAt, s.revoked, now)
                        THEN "touchLastUsed" ELSE "auditInactive",
                    s.user, k, s.expiresAt, FALSE,
                    isActive(s.expiresAt, s.revoked, now) /\ findById(s.user))]
    /\ UNCHANGED <<now, tables, guard, faults, history>>

\* Slip: the row that was read is written back as a whole.
TouchLastUsedWholeRow(p) ==
    /\ call[p].at = "touchLastUsed"
    /\ auth_sessions' = [auth_sessions EXCEPT ![call[p].token].revoked = FALSE]
    /\ continue(p, IF isActive(call[p].expiresAt, FALSE, now) THEN "findById" ELSE "auditInactive")
    /\ UNCHANGED <<now, app_users, auth_audit_log, guard, calls, faults, history>>

\* last_used_at is written to the row as it is then; the copy's expiry is checked again.
TouchLastUsed(p) ==
    /\ call[p].at = "touchLastUsed"
    /\ continue(p, IF isActive(call[p].expiresAt, FALSE, now) THEN "findById" ELSE "auditInactive")
    /\ UNCHANGED <<now, tables, guard, calls, faults, history>>

\* Slip: the user of a session may be inactive.
FindByIdInactiveToo(p) ==
    /\ call[p].at = "findById"
    /\ continue(p, "auditActive")
    /\ UNCHANGED <<now, tables, guard, calls, faults, history>>

FindById(p) ==
    /\ call[p].at = "findById"
    /\ continue(p, IF findById(call[p].user) THEN "auditActive" ELSE "auditInactive")
    /\ UNCHANGED <<now, tables, guard, calls, faults, history>>

\* The token is reported active, with the account it belongs to.
AuditActive(p) ==
    /\ call[p].at = "auditActive"
    /\ append(due.auditActive)
    /\ finish(p)
    /\ guard' = [guard EXCEPT ![p] = guardFor(call[p].user)]
    /\ UNCHANGED <<now, app_users, auth_sessions, calls, faults, history>>

\* revokeToken succeeds whether or not there is a row with that token.
RevokeToken(p, k) ==
    /\ begin(p)
    /\ auth_sessions' = IF auth_sessions[k] = noSession THEN auth_sessions
                        ELSE [auth_sessions EXCEPT ![k].revoked = TRUE]
    /\ continue(p, "auditRevoked")
    /\ UNCHANGED <<now, app_users, auth_audit_log, guard, faults, history>>

RevokeAllForUser(p, u) ==
    /\ begin(p)
    /\ auth_sessions' = [k \in Tokens |-> IF auth_sessions[k].user = u
                                         THEN [auth_sessions[k] EXCEPT !.revoked = TRUE]
                                         ELSE auth_sessions[k]]
    /\ UNCHANGED <<now, app_users, auth_audit_log, call, guard, faults, history>>

\* Slip: nobody looks for an administrator.
CreateFirstAdminUnchecked(p, u) ==
    /\ begin(p)
    /\ call' = [call EXCEPT ![p] = callAt("insertAdmin", u, None, 0, FALSE, FALSE)]
    /\ UNCHANGED <<now, tables, guard, faults, history>>

\* createFirstAdmin looks for an administrator, and inserts one in a later statement.
CreateFirstAdmin(p, u) ==
    /\ begin(p)
    /\ call' = [call EXCEPT ![p] = callAt(
                    IF activeAdminExists THEN "auditDenied" ELSE "insertAdmin",
                    u, None, 0, FALSE, FALSE)]
    /\ UNCHANGED <<now, tables, guard, faults, history>>

created(u, controlSet) ==
    app_users' = [app_users EXCEPT ![u] = [state |-> "active", controlSet |-> controlSet]]

\* A username that is taken throws, and nothing is appended.
InsertAdmin(p) ==
    /\ call[p].at = "insertAdmin"
    /\ LET u == call[p].user IN
       \/ /\ app_users[u].state # "absent"
          /\ finish(p)
          /\ UNCHANGED <<app_users, origin, firsts>>
       \/ /\ app_users[u].state = "absent"
          /\ created(u, "admin")
          /\ continue(p, "auditAdmin")
          /\ origin' = [origin EXCEPT ![u] = "bootstrap"]
          /\ firsts' = [firsts EXCEPT ![u] = p]
    /\ UNCHANGED <<now, auth_sessions, auth_audit_log, guard, calls, faults, missed>>

\* Slip: the guard is not asked.
CreateUserUnguarded(p, u, controlSet) ==
    /\ begin(p)
    /\ app_users[u].state = "absent"
    /\ created(u, controlSet)
    /\ continue(p, "auditUser")
    /\ origin' = [origin EXCEPT ![u] = guard[p].user]
    /\ UNCHANGED <<now, auth_sessions, auth_audit_log, guard, faults, missed, firsts>>

\* UserManagementService::createUser; a guard that does not allow it, or a username
\* that is taken, throws and changes nothing.
CreateUser(p, u, controlSet) ==
    /\ begin(p)
    /\ requireUserManagement(p)
    /\ app_users[u].state = "absent"
    /\ created(u, controlSet)
    /\ continue(p, "auditUser")
    /\ origin' = [origin EXCEPT ![u] = guard[p].user]
    /\ UNCHANGED <<now, auth_sessions, auth_audit_log, guard, faults, missed, firsts>>

\* The account's sessions stay as they are; an unknown username changes no row.
DeactivateUser(p, u) ==
    /\ begin(p)
    /\ requireUserManagement(p)
    /\ app_users' = IF app_users[u].state = "absent" THEN app_users
                    ELSE [app_users EXCEPT ![u].state = "inactive"]
    /\ continue(p, "auditDeactivated")
    /\ firsts' = IF activeAdminExists' THEN firsts ELSE [v \in Users |-> None]
    /\ UNCHANGED <<now, auth_sessions, auth_audit_log, guard, faults, missed, origin>>

\* The last statement of a call appends its entry, and the call returns (or throws
\* AdminAlreadyExistsError).
AuditAndReturn(p) ==
    /\ call[p].at \in {"auditNoSession", "auditSession", "auditInactive", "auditRevoked",
                       "auditAdmin", "auditDenied", "auditUser", "auditDeactivated"}
    /\ append(due[call[p].at])
    /\ finish(p)
    /\ UNCHANGED <<now, app_users, auth_sessions, guard, calls, faults, history>>

\* A statement throws; nothing in the services catches it.
Fault(p) ==
    /\ call[p] # idle /\ faults < MaxFaults
    /\ faults' = faults + 1
    /\ finish(p)
    /\ missed' = IF call[p].at \in DOMAIN due THEN [missed EXCEPT ![due[call[p].at]] = @ + 1] ELSE missed
    /\ UNCHANGED <<now, tables, guard, calls, origin, firsts>>

Tick ==
    /\ now < MaxTime /\ now' = now + 1
    /\ UNCHANGED <<tables, call, guard, calls, faults, history>>

Step(p) ==
    \/ TouchLastLogin(p) \/ AuditVerified(p) \/ AuditNotVerified(p) \/ InsertSession(p)
    \/ TouchLastUsed(p) \/ FindById(p) \/ AuditActive(p) \/ InsertAdmin(p) \/ AuditAndReturn(p)

Next ==
    \/ \E p \in Procs, u \in Users, matches, forSession \in BOOLEAN :
            VerifyPassword(p, u, matches, forSession)
    \/ \E p \in Procs, k \in Tokens : IntrospectToken(p, k)
    \/ \E p \in Procs, k \in Tokens : RevokeToken(p, k)
    \/ \E p \in Procs, u \in Users : RevokeAllForUser(p, u)
    \/ \E p \in Procs, u \in Users : CreateFirstAdmin(p, u)
    \/ \E p \in Procs, u \in Users, c \in ControlSet : CreateUser(p, u, c)
    \/ \E p \in Procs, u \in Users : DeactivateUser(p, u)
    \/ \E p \in Procs : Step(p)
    \/ \E p \in Procs : Fault(p)
    \/ Tick

Spec == Init /\ [][Next]_vars
-----------------------------------------------------------------------------
(* Correctness. *)

\* An account is given a guard or a session only if it was active, and the token
\* neither revoked nor expired, when the call began: a deactivation or a revocation
\* that has returned is never overtaken by a later verifyPassword, createSession or
\* introspectToken, although deactivateUser leaves the sessions in place.
GrantsWereLive ==
    \A p \in Procs :
        call[p].at \in {"auditVerified", "insertSession", "auditSession", "auditActive"}
            => call[p].live

\* Every account was created by the bootstrap, as an administrator, or with the guard
\* of an account that is an administrator and existed before it, even when guards
\* outlive the accounts they were made for.
AuthorityChain ==
    \A u \in Users :
        /\ app_users[u].state # "absent" => origin[u] # None
        /\ origin[u] = "bootstrap" => app_users[u].controlSet = "admin"
        /\ origin[u] \in Users =>
              /\ origin[u] # u
              /\ app_users[origin[u]].state # "absent" /\ app_users[origin[u]].controlSet = "admin"

\* createFirstAdmin may run in several processes at once, and each may then insert an
\* administrator; but as long as there is one, no process bootstraps a second of its own.
OneFirstAdminEach ==
    \A u, v \in Users : firsts[u] # None /\ firsts[u] = firsts[v] => u = v

\* The audit log accounts for every row: a session or an account without its success
\* entry belongs to a call that is about to append it or that a failed statement cut off.
AuditAccountsForRows ==
    LET dueAt(step) == Cardinality({p \in Procs : call[p].at = step})
        booked(step) == auth_audit_log[due[step]] + missed[due[step]] + dueAt(step)
    IN  /\ booked("auditSession") = Cardinality({k \in Tokens : auth_sessions[k] # noSession})
        /\ booked("auditAdmin") = Cardinality({u \in Users : origin[u] = "bootstrap"})
        /\ booked("auditUser") = Cardinality({u \in Users : origin[u] \in Users})

\* No session comes back: once revoked it stays so, whatever an introspection that read
\* it earlier still writes, and a deactivated account is never active again.
RevocationIsFinal ==
    [][/\ \A k \in Tokens : auth_sessions[k].revoked => auth_sessions'[k].revoked
       /\ \A u \in Users : app_users[u].state = "inactive" => app_users'[u].state = "inactive"]_vars

\* A token that is not revoked and whose account is active is refused only in the last
\* second before the expiry its holder was told, which the stored whole seconds cut off.
LiveTokensAreHonoured ==
    [][\A p \in Procs :
          LET k == call'[p].token IN
          /\ call[p].at # "auditInactive" /\ call'[p].at = "auditInactive"
          /\ auth_sessions[k] # noSession /\ ~auth_sessions[k].revoked
          /\ app_users[auth_sessions[k].user].state = "active"
          => now + TicksPerSecond > auth_sessions[k].told]_vars
=============================================================================
