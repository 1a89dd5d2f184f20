------------------------------- MODULE Process ------------------------------
(***************************************************************************)
(* The url_shortener program from main to its exit (main.cpp): the command *)
(* line, a one-shot link command (cli/link_command_dispatch.cpp) or the    *)
(* server with its router, handlers and link store; and, beside it, a      *)
(* program that sets up the storage adapters.  Invocations follow each     *)
(* other; each process has a link store of its own.                        *)
(***************************************************************************)
EXTENDS CommandLine, Routing, StorageSetup, TLC

CONSTANTS
    Paths,      \* the paths that are requested
    Slugs,      \* the slugs asked for when a link is created
    Generated,  \* slugs generateSlug may return
    MaxLinks    \* links in the store of a process

ASSUME BoundAssumption == MaxLinks \in Nat

VARIABLES
    program,  \* "url_shortener", or "storage" for one that builds adapters
    stored,   \* the links of this process: [enabled, deleted, expiry] by slug
    request,  \* the request that is handled
    answer    \* and how it was answered

serverVars == <<stored, request, answer>>
vars == <<program, parserVars, serverVars, setupVars>>

NoArguments == [mode |-> "server", help |-> FALSE, verb |-> "", flags |-> NoCommand.flags,
                options |-> NoCommand.flags, stray |-> FALSE]
CleanEnvironment == [baseDomain |-> "unset", redirectType |-> "unset", expiry |-> Unset,
                     slugLength |-> Unset, allowPrivate |-> "unset"]
NoRequest == [method |-> "none", path |-> <<>>, query |-> ""]
NoAnswer == [handler |-> "none", label |-> "none", allowed |-> {}, outcome |-> "none"]
NoLinks == [s \in {} |-> [enabled |-> TRUE, deleted |-> FALSE, expiry |-> "none"]]

SlugLength == "shortener-generated-slug-length"
AllowPrivate == "shortener-allow-private-targets"
DefaultExpiry == "shortener-default-expiry-seconds"

Init ==
    /\ program \in {"url_shortener", "storage"}
    /\ phase = "down" /\ env = CleanEnvironment /\ argv = NoArguments
    /\ config = ServerConfig /\ command = NoCommand /\ code = -1
    /\ stored = NoLinks /\ request = NoRequest /\ answer = NoAnswer
    /\ SetupInit

\* A new process; nothing is loaded into its link repository.
Start ==
    /\ phase = "down" /\ phase' = "start"
    /\ \E i \in Invocations : env' = i.env /\ argv' = i.argv
    /\ UNCHANGED <<config, command, code, serverVars>>

\* Whoever started the process has its exit code; its link repository, an
\* object of the process, is gone with it.
Reap ==
    /\ phase = "exited" /\ phase' = "down"
    /\ env' = CleanEnvironment /\ argv' = NoArguments
    /\ config' = ServerConfig /\ command' = NoCommand /\ code' = -1
    /\ stored' = NoLinks /\ UNCHANGED <<request, answer>>

-----------------------------------------------------------------------------
(* The service behind both transports, as far as the store decides *)

result(error, slug) == [error |-> error, slug |-> slug]

\* A slug that is asked for is checked; a generated one has the configured
\* length and is checked for being free and not reserved, never for being valid;
\* after ten that are taken or reserved none is returned.
chooseSlug(requested, length) ==
    IF requested # ""
      THEN {CASE ~isValidSlug(requested) -> result("invalid_slug", "")
              [] isReservedSlug(requested) -> result("reserved_slug", "")
              [] requested \in DOMAIN stored -> result("slug_conflict", "")
              [] OTHER -> result("none", requested)}
      ELSE LET drawn == {s \in Generated : Len(s) = length}
               free == {s \in drawn \ DOMAIN stored : ~isReservedSlug(s)}
           IN  {result("none", s) : s \in free}
               \cup (IF drawn # free THEN {result("internal", "")} ELSE {})

\* CreateLink: the URL, the slug, then the fields.
CreateLink(url, requested, fieldsValid, c) ==
    IF url = "junk" \/ (url = "private" /\ ~c[AllowPrivate]) THEN {result("invalid_url", "")}
    ELSE {IF r.error = "none" /\ ~fieldsValid THEN result("invalid_field", "") ELSE r :
            r \in chooseSlug(requested, c[SlugLength])}

\* The link of a creation with these fields: enabled unless they say no; the
\* time it expires is the one they give ("good" is ahead, "past" is not), else
\* the configured one, else none.
withLink(slug, fields, c) ==
    (slug :> [enabled |-> given(fields, "enabled") => parseBool(fields["enabled"]),
              deleted |-> FALSE,
              expiry |-> CASE given(fields, "expires-at") -> fields["expires-at"]
                           [] c[DefaultExpiry] # Unset /\ ~given(fields, "expires-at") -> "good"
                           [] OTHER -> "none"]) @@ stored

\* What a method of the service does to a link there is; an update sets the
\* fields it is given.
changed(method, slug, flags) ==
    CASE method = "DeleteLink" -> [stored EXCEPT ![slug].deleted = TRUE]
      [] method = "RestoreLink" -> [stored EXCEPT ![slug].deleted = FALSE]
      [] method = "SetLinkEnabled true" -> [stored EXCEPT ![slug].enabled = TRUE]
      [] method = "SetLinkEnabled false" -> [stored EXCEPT ![slug].enabled = FALSE]
      [] method = "UpdateLink" ->
            [stored EXCEPT
                ![slug].enabled = IF given(flags, "enabled") THEN parseBool(flags["enabled"]) ELSE @,
                ![slug].expiry = CASE ~given(flags, "expires-at") -> @
                                   [] given(flags, "expires-at") /\ flags["expires-at"] = "clear" -> "none"
                                   [] OTHER -> flags["expires-at"]]
      [] OTHER -> stored

-----------------------------------------------------------------------------
(* A one-shot command *)

\* The method of the service DispatchLinkCommand calls for a verb.
serviceMethod(verb) ==
    CASE verb = "create" -> "CreateLink"
      [] verb = "get" -> "GetLink"
      [] verb = "update" -> "UpdateLink"
      [] verb = "delete" -> "DeleteLink"
      [] verb = "enable" -> "SetLinkEnabled true"
      [] verb = "disable" -> "SetLinkEnabled false"
      [] verb = "restore" -> "RestoreLink"
      [] verb = "preview" -> "PreviewLink"
      [] verb = "stats" -> "GetLinkStats"

ExitCodeForAppError(error) ==
    CASE error = "none" -> 0
      [] error = "not_found" -> 1
      [] error \in {"invalid_url", "invalid_slug", "invalid_field", "reserved_slug"} -> 2
      [] error = "slug_conflict" -> 3
      [] OTHER -> 4

\* Flag f has a value the service's own checks refuse.
refusedField(flags, f) == given(flags, f) /\ flags[f] = "junk"

slugOf(flags) == IF given(flags, "slug") THEN flags["slug"] ELSE ""

\* What the service answers.  An id that is asked for is no id of this store,
\* and the click statistics are there for a slug of no link, too.
commandResults(verb, flags) ==
    LET slug == slugOf(flags)
        refuses(fields) == \E f \in fields : refusedField(flags, f)
        known(fields) == IF refuses(fields) THEN "invalid_field" ELSE "none"
    IN  CASE verb = "create" ->
                CreateLink(flags["url"], slug, ~refuses({"expires-at", "tag"})
                    /\ (given(flags, "expires-at") => flags["expires-at"] # "clear"), config)
          [] verb = "stats" -> {result(known({"from", "to", "bucket"}), slug)}
          [] slug \notin DOMAIN stored -> {result("not_found", slug)}
          [] OTHER -> {result(known({"expires-at", "tags"}), slug)}

\* main: the command and nothing else; the server is not started.
DispatchLinkCommand ==
    /\ phase = "parsed" /\ command # NoCommand
    /\ \E r \in commandResults(command.verb, command.flags) :
          /\ Exit(ExitCodeForAppError(r.error))
          /\ stored' = CASE r.error # "none" -> stored
                         [] command.verb = "create" -> withLink(r.slug, command.flags, config)
                         [] OTHER -> changed(serviceMethod(command.verb), r.slug, command.flags)
    /\ UNCHANGED <<env, argv, config, command, request, answer>>

-----------------------------------------------------------------------------
(* The server *)

\* HttpServer's constructor refuses a base domain that is not one; the TLS
\* files, uri.txt and the ports may end main as well.  The fields kept are the
\* ones the handlers of this model read.
StartServer ==
    /\ phase = "parsed" /\ command = NoCommand
    /\ \/ Exit(1) /\ UNCHANGED <<env, argv, config>>
       \/ /\ config["shortener-base-domain"] # "junk"
          /\ phase' = "serving" /\ UNCHANGED code
          /\ env' = CleanEnvironment /\ argv' = NoArguments
          /\ config' = [f \in {SlugLength, DefaultExpiry} |-> config[f]]
    /\ UNCHANGED <<command, serverVars>>

\* The method of the service a handler calls.  Without a window the statistics
\* are the counters of the link, read from the store.
handlerMethod(handler, query) ==
    CASE handler \in {"GetLinkById", "GetLinkBySlug"} -> "GetLink"
      [] handler = "PatchLink" -> "UpdateLink"
      [] handler = "EnableLink" -> "SetLinkEnabled true"
      [] handler = "DisableLink" -> "SetLinkEnabled false"
      [] handler = "LinkStats" -> IF query = "window" THEN "GetLinkStats" ELSE "getLinkForRead"
      [] OTHER -> handler

\* resolveLinkStatus is active.
live(slug) ==
    /\ slug \in DOMAIN stored
    /\ stored[slug].enabled /\ ~stored[slug].deleted /\ stored[slug].expiry # "past"

redirect(slug) == IF live(slug) THEN "redirect" ELSE "link_state_error"

\* What the handler of the request answers, the creation of a link aside.
outcome(d, query, path) ==
    LET slug == d.param
        ofLink(answered) == IF slug \in DOMAIN stored THEN answered ELSE "not_found"
    IN  CASE d.handler = "none" -> IF d.status = 400 THEN "invalid_method" ELSE "no_route"
          [] d.handler \in {"Healthz", "Readyz", "Metrics"} -> "ok"
          [] d.handler = "GetLinkById" -> "not_found"
          [] d.handler = "PlaceholderFeature" -> ofLink("feature_not_enabled")
          [] d.handler = "LinkStats" -> IF query = "window" THEN "ok" ELSE ofLink("ok")
          [] d.handler = "PrefixedRedirect" ->
                IF isValidSlug(slug) THEN redirect(slug) ELSE "not_found"
          [] d.handler = "RootRedirect" ->
                IF query = "" /\ isValidSlug(slug) THEN redirect(slug) ELSE "uri_store"
          [] d.handler = "FallbackUriStore" ->
                IF isReservedFallbackPath(path) THEN "not_found" ELSE "uri_store"
          [] OTHER -> ofLink("ok")

answers(d, what) ==
    answer' = [handler |-> d.handler, label |-> d.label, allowed |-> d.allowed, outcome |-> what]

\* The field in the body of a PATCH or POST, if any.
Bodies == {NoCommand.flags, "enabled" :> "true", "enabled" :> "false", "expires-at" :> "good",
           "expires-at" :> "past"}

\* A request that creates no link; query "window" is the one of the stats.
HandleRequest(method, path, query) ==
    /\ LET d == dispatch(method, path)
           bodies == IF d.handler = "PatchLink" THEN Bodies \cup {"expires-at" :> "clear"}
                     ELSE {NoCommand.flags}
       IN  /\ d.handler # "CreateLink"
           /\ answers(d, outcome(d, query, path))
           /\ \E body \in bodies :
                 stored' = IF d.param \in DOMAIN stored
                             THEN changed(handlerMethod(d.handler, query), d.param, body)
                             ELSE stored
    /\ request' = [method |-> method, path |-> path, query |-> query]
    /\ UNCHANGED parserVars

\* createLinkFromRequest of a public URL, with a slug in the body or without.
HandleCreate(path) ==
    /\ Cardinality(DOMAIN stored) < MaxLinks
    /\ LET d == dispatch("POST", path)
       IN  /\ d.handler = "CreateLink"
           /\ \E slug \in Slugs \cup {""}, body \in Bodies :
              \E r \in CreateLink("good", slug, TRUE, config) :
                 /\ stored' = IF r.error = "none" THEN withLink(r.slug, body, config) ELSE stored
                 /\ answers(d, IF r.error = "none" THEN "created" ELSE r.error)
    /\ request' = [method |-> "POST", path |-> path, query |-> ""]
    /\ UNCHANGED parserVars

\* The answer is written and the next request can be read.
Respond ==
    /\ phase = "serving" /\ request # NoRequest
    /\ request' = NoRequest /\ answer' = NoAnswer
    /\ UNCHANGED <<parserVars, stored>>

\* SIGINT or SIGTERM, also between a request and its answer.
StopServer ==
    /\ phase = "serving" /\ Exit(0)
    /\ config' = ServerConfig /\ request' = NoRequest /\ answer' = NoAnswer
    /\ UNCHANGED <<env, argv, command, stored>>

\* The time a link was to expire at comes, between two requests.
Expire ==
    /\ phase = "serving" /\ request = NoRequest
    /\ \E s \in DOMAIN stored : stored[s].expiry = "good" /\ stored' = [stored EXCEPT ![s].expiry = "past"]
    /\ UNCHANGED <<parserVars, request, answer>>

\* The next request of a client, once the one before it was answered.
Handle ==
    /\ phase = "serving" /\ request = NoRequest
    /\ \/ \E method \in Methods, path \in Paths, query \in {"", "window"} : HandleRequest(method, path, query)
       \/ \E path \in Paths : HandleCreate(path)

Main ==
    \/ Start
    \/ (ReadEnvironment \/ ParseOptions \/ LinkHelp \/ ParseLinkCommand) /\ UNCHANGED serverVars
    \/ Reap \/ DispatchLinkCommand \/ StartServer \/ Handle \/ Respond \/ Expire \/ StopServer

Next ==
    \/ program = "url_shortener" /\ Main /\ UNCHANGED <<program, setupVars>>
    \/ program = "storage" /\ SetupNext /\ UNCHANGED <<program, parserVars, serverVars>>

Spec == Init /\ [][Next]_vars

-----------------------------------------------------------------------------

\* The router, its errors and the metrics agree.  A handler is found, or the error
\* names what the path takes: when it says "Only M is supported", M is what the same
\* path is handled for and no other method is; "Unsupported operation" is said of a
\* path that is handled for several methods; and "Route not found" is never said,
\* since the last routes take what the others leave.  A request is counted under the
\* label of the route it took, although the label comes from the text of the target:
\* they differ for the requests of the catch-all route, for a query after the
\* health, readiness or metrics path or after "/", and for a target that begins with
\* several slashes, which the router skips and the label takes for a root redirect.
RoutingAgrees ==
    request # NoRequest =>
        IF answer.handler = "none"
          THEN /\ answer.outcome = "invalid_method"
               /\ answer.allowed = {m \in Methods : dispatch(m, request.path).handler # "none"}
          ELSE \/ routeLabelForTarget(request.path, request.query) = answer.label
               \/ answer.handler = "FallbackUriStore"
               \/ request.query # "" /\ answer.handler \in {"Healthz", "Readyz", "Metrics"}
               \/ /\ Len(request.path) > 1 /\ request.path[1] = ""
                  /\ routeLabelForTarget(request.path, request.query) = "redirect_root"

\* A link that was created is served: while the configured length of generated
\* slugs is one of a valid slug, every active link redirects at /r/<slug>, and
\* at /<slug> unless its slug is the name of a route, which the reserved slugs
\* leave open for healthz and readyz.  A slug of another length is never
\* redirected.
CreatedIsServed ==
    phase = "serving" /\ request.method = "GET" /\ request.query = "" =>
        \A s \in DOMAIN stored :
            /\ config[SlugLength] \in 3 .. 64 => isValidSlug(s)
            /\ live(s) /\ request.path = <<"r", s>> => (answer.outcome = "redirect" <=> isValidSlug(s))
            /\ live(s) /\ request.path = <<s>> =>
                  (answer.outcome = "redirect" <=> isValidSlug(s) /\ s \notin {"healthz", "readyz"})

\* The request that docs/cli/README.md gives for a command about a link; the one
\* for the statistics has a window.
restRequest(verb, slug) ==
    LET onLink(word) == links \o <<slug, word>>
    IN  CASE verb = "get" -> [method |-> "GET", path |-> links \o <<slug>>]
          [] verb = "update" -> [method |-> "PATCH", path |-> links \o <<slug>>]
          [] verb = "delete" -> [method |-> "DELETE", path |-> links \o <<slug>>]
          [] verb \in {"enable", "disable", "restore"} -> [method |-> "POST", path |-> onLink(verb)]
          [] OTHER -> [method |-> "GET", path |-> onLink(verb)]

\* "Every CLI verb and its REST counterpart invoke the exact same
\* LinkCommandService method" (docs/cli/README.md:75), on the same link: for
\* every slug a link may have, although /api/v1/links/id/{id} is as specific
\* as the routes of a link whose slug is "id".
CommandPairs ==
    phase = "parsed" /\ command.verb \in LinkVerbs \ {"create"} =>
        LET slug == slugOf(command.flags)
            rest == restRequest(command.verb, slug)
            d == dispatch(rest.method, rest.path)
        IN  isValidSlug(slug) =>
                d.param = slug /\ handlerMethod(d.handler, "window") = serviceMethod(command.verb)
=============================================================================
