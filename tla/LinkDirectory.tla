--------------------------- MODULE LinkDirectory ---------------------------
(***************************************************************************)
(* What the link service promises its clients, with no cache, no id index  *)
(* and no analytics: one directory from slugs to links, a clock, and the   *)
(* answer to the last request.  LinkCommands implements this module.       *)
(***************************************************************************)
EXTENDS Naturals

CONSTANTS Names,        \* every slug string a client can send
          Null,         \* "no link", "no value"
          StatusOf(_, _) \* the status of a link at a time

VARIABLES links,        \* slug -> link or Null
          now,          \* wall clock, in seconds
          reply         \* [op, slug, code, view] of the last request

vars == <<links, now, reply>>

Init ==
    /\ links = [s \in Names |-> Null]
    /\ now = 0
    /\ reply = [op |-> "none", slug |-> Null, code |-> 0, view |-> Null]

\* The fields of a link that no request can change once it exists.
Identity(l) == [id |-> l.id, slug |-> l.slug, target_url |-> l.target_url,
                created_at |-> l.created_at, redirect_type |-> l.redirect_type]

\* The traffic counters of a link.
Traffic(l) == [total_redirects |-> l.total_redirects,
               redirects_24h |-> l.redirects_24h,
               redirects_7d |-> l.redirects_7d,
               last_accessed_at |-> l.last_accessed_at]

\* A free slug is bound to a new, undeleted link that has no traffic and whose
\* id is not in use; the answer shows the link.
Create(s, l) ==
    /\ links[s] = Null /\ l # Null
    /\ \A t \in Names : links[t] # Null => links[t].id # l.id
    /\ l.slug = s /\ l.created_at = now /\ l.updated_at = now
    /\ l.deleted_at = Null /\ l.total_redirects = 0
    /\ links' = [links EXCEPT ![s] = l]
    /\ reply' = [op |-> "create", slug |-> s, code |-> 201, view |-> l]
    /\ UNCHANGED now

\* A management request changes a bound link but neither its identity nor its
\* traffic counters, stamps it, and answers with the new record.
Amend(s, l, op) ==
    /\ links[s] # Null /\ l # Null
    /\ Identity(l) = Identity(links[s])
    /\ Traffic(l) = Traffic(links[s])
    /\ l.updated_at = now
    /\ op \in {"patch", "delete", "set_enabled", "restore"}
    /\ op # "delete" => l.deleted_at \in {links[s].deleted_at, Null}
    /\ l.deleted_at = Null /\ links[s].deleted_at # Null => op = "restore"
    /\ links' = [links EXCEPT ![s] = l]
    /\ reply' = [op |-> op, slug |-> s, code |-> 200, view |-> l]
    /\ UNCHANGED now

\* A link with one more redirect, made now.
Counted(l) == [l EXCEPT !.total_redirects = @ + 1, !.redirects_24h = @ + 1,
                        !.redirects_7d = @ + 1, !.last_accessed_at = now]

\* An active link is served: the answer carries the link as the directory
\* holds it now, and the service counts this one redirect and nothing else.
Serve(s) ==
    /\ links[s] # Null /\ StatusOf(links[s], now) = "active"
    /\ links' = [links EXCEPT ![s] = Counted(links[s])]
    /\ \E c \in {301, 302} :
          reply' = [op |-> "redirect", slug |-> s, code |-> c, view |-> links[s]]
    /\ UNCHANGED now

\* The answers that leave the directory alone.  A link is only shown as the
\* directory holds it, and a redirect is only refused to a link that is not
\* active.
Answer(s, op, code, view) ==
    /\ code \notin {201, 301, 302}
    /\ op \in {"get", "get_by_id"} /\ code = 200 => \E t \in Names : view = links[t] /\ view # Null
    /\ op = "get" /\ code = 200 => view = links[s]
    /\ op = "redirect" /\ code = 404 =>
          links[s] = Null \/ StatusOf(links[s], now) = "deleted"
    /\ op = "redirect" /\ code = 410 =>
          links[s] # Null /\ StatusOf(links[s], now) \in {"disabled", "expired"}
    /\ reply' = [op |-> op, slug |-> s, code |-> code, view |-> view]
    /\ UNCHANGED <<links, now>>

Tick ==
    /\ now' = now + 1
    /\ UNCHANGED <<links, reply>>

Next ==
    \/ \E s \in Names :
          \/ Create(s, links'[s])
          \/ Amend(s, links'[s], reply'.op)
          \/ Serve(s)
    \/ Answer(reply'.slug, reply'.op, reply'.code, reply'.view)
    \/ Tick

Spec == Init /\ [][Next]_vars
=============================================================================
