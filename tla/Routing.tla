------------------------------ MODULE Routing -------------------------------
(***************************************************************************)
(* The HTTP router (http/router.cpp), the routes the application registers *)
(* (http/router_builder.cpp), the labels the metrics use                   *)
(* (http/route_registry.cpp) and the slugs the service accepts             *)
(* (core/utils.cpp).  A path is the sequence of the words between its      *)
(* slashes: "/r/abc" is <<"r", "abc">>, "/" is <<"">>, "//a" is <<"",      *)
(* "a">>.  The words used are made of letters and digits.                  *)
(***************************************************************************)
EXTENDS Naturals, Sequences, FiniteSetsExt

Methods == {"GET", "POST", "PATCH", "DELETE"}

\* A word of a pattern that stands for any word that is not empty.
isCaptureSegment(word) == word \in {"{slug}", "{id}", "{path}"}

\* Leading slashes are skipped: the words from the first one that is not empty.
splitPath(path) ==
    LET named == {i \in DOMAIN path : path[i] # ""}
    IN  IF named = {} THEN <<>> ELSE SubSeq(path, Min(named), Len(path))

pathSpecificity(pattern) == Len(SelectSeq(pattern, LAMBDA word : ~isCaptureSegment(word)))

\* "/{path}" alone matches paths of any number of words, except "/".
matchPath(pattern, path) ==
    LET words == splitPath(path)
    IN  IF Len(words) # Len(pattern)
          THEN pattern = <<"{path}">> /\ path # <<"">>
          ELSE \A i \in DOMAIN pattern :
                  IF isCaptureSegment(pattern[i]) THEN words[i] # "" ELSE words[i] = pattern[i]

\* The value of a capture of the pattern, "" when it has none.
pathParam(pattern, path) ==
    LET words == splitPath(path)
        captures == {i \in DOMAIN pattern : isCaptureSegment(pattern[i])}
    IN  IF captures = {} \/ Len(words) # Len(pattern) THEN "" ELSE words[Min(captures)]

add(method, pattern, label, handler) ==
    [method |-> method, path |-> pattern, label |-> label, handler |-> handler]

links == <<"api", "v1", "links">>
shortUrls == <<"api", "v1", "short-urls">>

applicationRouter ==
    LET onLink(method, word, handler) ==
            add(method, links \o <<"{slug}", word>>, "api_links", handler)
        forMethods(pattern, label) ==
            [i \in 1 .. 3 |-> add(<<"GET", "POST", "DELETE">>[i], pattern, label, "FallbackUriStore")]
    IN  <<add("GET", <<"healthz">>, "healthz", "Healthz"),
          add("GET", <<"readyz">>, "readyz", "Readyz"),
          add("GET", <<"metrics">>, "metrics", "Metrics"),
          add("GET", links \o <<"id", "{id}">>, "api_links", "GetLinkById"),
          onLink("GET", "preview", "PreviewLink"),
          onLink("GET", "qr", "PlaceholderFeature"),
          onLink("GET", "routing", "PlaceholderFeature"),
          onLink("GET", "stats", "LinkStats"),
          onLink("POST", "enable", "EnableLink"),
          onLink("POST", "disable", "DisableLink"),
          onLink("POST", "restore", "RestoreLink"),
          add("GET", links \o <<"{slug}">>, "api_links", "GetLinkBySlug"),
          add("PATCH", links \o <<"{slug}">>, "api_links", "PatchLink"),
          add("DELETE", links \o <<"{slug}">>, "api_links", "DeleteLink"),
          add("POST", links, "api_links", "CreateLink"),
          add("POST", shortUrls, "api_links", "CreateLink"),
          add("GET", shortUrls \o <<"{slug}">>, "api_links", "GetLinkBySlug"),
          add("GET", <<"r", "{slug}">>, "redirect_prefixed", "PrefixedRedirect"),
          add("GET", <<"{slug}">>, "redirect_root", "RootRedirect")>>
        \o forMethods(<<"{path}">>, "redirect_root") \o forMethods(<<>>, "app")

\* What dispatch answers by itself: there is no handler to call.
routerError(status, allowed) ==
    [handler |-> "none", label |-> "none", param |-> "", status |-> status, allowed |-> allowed]

handled(route, path) ==
    [handler |-> route.handler, label |-> route.label, param |-> pathParam(route.path, path),
     status |-> 0, allowed |-> {}]

\* Slip: the methods named in the error are those of every pattern that matches.
dispatchNamingAnyMatch(method, path) ==
    LET matches == {i \in DOMAIN applicationRouter : matchPath(applicationRouter[i].path, path)}
        specificity(i) == pathSpecificity(applicationRouter[i].path)
        best == {i \in matches : \A j \in matches : specificity(j) <= specificity(i)}
        serving == {i \in best : applicationRouter[i].method = method}
    IN  IF serving # {} THEN handled(applicationRouter[Min(serving)], path)
        ELSE IF matches = {} THEN routerError(404, {})
        ELSE routerError(400, {applicationRouter[i].method : i \in matches})

\* Of the most specific patterns that match, the first registered with the
\* method.  An error names the method they take when it is the only one, and
\* says "Unsupported operation" otherwise.
dispatch(method, path) ==
    LET matches == {i \in DOMAIN applicationRouter : matchPath(applicationRouter[i].path, path)}
        specificity(i) == pathSpecificity(applicationRouter[i].path)
        best == {i \in matches : \A j \in matches : specificity(j) <= specificity(i)}
        serving == {i \in best : applicationRouter[i].method = method}
    IN  IF serving # {} THEN handled(applicationRouter[Min(serving)], path)
        ELSE IF matches = {} THEN routerError(404, {})
        ELSE routerError(400, {applicationRouter[i].method : i \in best})

-----------------------------------------------------------------------------
(* Labels and slugs *)

\* Words that begin with a prefix the registry looks for.
CONSTANTS LinksWords,      \* "links...": the text of the prefix and what follows it
          ShortUrlsWords,  \* "short-urls..."
          LowerCase        \* what std::tolower makes of the words with capitals

ASSUME PrefixAssumption == "links" \in LinksWords /\ "short-urls" \in ShortUrlsWords

\* The label of a request in the metrics, from the text of its target.
underApi(path, lasts) == Len(path) >= 3 /\ SubSeq(path, 1, 2) = <<"api", "v1">> /\ path[3] \in lasts

routeLabelForTarget(path, query) ==
    CASE query = "" /\ path \in {<<"metrics">>, <<"healthz">>, <<"readyz">>} -> path[1]
      [] Len(path) >= 2 /\ path[1] = "r" -> "redirect_prefixed"
      [] underApi(path, LinksWords) \/ underApi(path, ShortUrlsWords) -> "api_links"
      [] OTHER -> IF path # <<"">> \/ query # "" THEN "redirect_root" ELSE "app"

\* Slip: two characters are enough.
isValidSlugFromTwo(slug) == Len(slug) \in 2 .. 64

isValidSlug(slug) == Len(slug) \in 3 .. 64

reservedSlugs == {"api", "health", "metrics", "admin", "login", "logout", "r", "preview", "stats"}

lower(slug) == IF slug \in DOMAIN LowerCase THEN LowerCase[slug] ELSE slug

\* Slip: the list lacks the name of a route.
isReservedSlugButMetrics(slug) == lower(slug) \in reservedSlugs \ {"metrics"}

isReservedSlug(slug) == lower(slug) \in reservedSlugs

isReservedFallbackPath(path) == Len(path) >= 2 /\ path[1] \in {"api", "r"}
=============================================================================
