----------------------------- MODULE MCProcess ------------------------------
(* Small instances of Process for TLC. *)
EXTENDS Process

TooLong == "aaaaaaaaaaaaaaaaaaaaaaaaaaaaaaaaaaaaaaaaaaaaaaaaaaaaaaaaaaaaaaaaa"

\* Slugs that may be asked for or drawn: names of routes, reserved words,
\* words too short or too long, and plain ones.
SomeSlugs == {"abc", "healthz", "metrics", "Metrics", "preview", "id"}
SomeGenerated == {"", "id", "abc", "healthz", "metrics", TooLong}

Prefixes == {"links", "linksx"}
Compat == {"short-urls"}
Capitals == "Metrics" :> "metrics"

Words == SomeSlugs \cup SomeGenerated \cup {"readyz", "api", "r", "xyz"}

SomePaths ==
    {<<w>> : w \in Words} \cup {<<"", w>> : w \in {"", "abc", "healthz", "metrics"}}
    \cup {<<"">> \o p : p \in {<<"r", "abc">>, links, links \o <<"abc">>, <<"", "readyz">>}}
    \cup {<<"r", w>> : w \in Words} \cup {links, shortUrls, <<"api", "v1", "linksx">>, <<"abc", "">>}
    \cup {links \o <<w>> : w \in Words}
    \cup {shortUrls \o <<w>> : w \in {"", "abc", "id"}}
    \cup {links \o <<w, v>> : w \in {"abc", "id"},
             v \in {"", "abc", "preview", "qr", "routing", "stats", "enable", "disable", "restore"}}
    \cup {links \o p : p \in {<<"", "preview">>, <<"healthz", "disable">>, <<"id", "abc", "preview">>}}

\* At most one variable is set.
SomeEnvironments ==
    {[CleanEnvironment EXCEPT !.baseDomain = t] : t \in {"unset", "env", "junk"}}
    \cup {[CleanEnvironment EXCEPT !.redirectType = "env"]}
    \cup {[CleanEnvironment EXCEPT !.expiry = n] : n \in {NotNumber, 60}}
    \cup {[CleanEnvironment EXCEPT !.slugLength = n] : n \in {NotNumber, 0, 2, 65}}
    \cup {[CleanEnvironment EXCEPT !.allowPrivate = t] : t \in {"true", "off", "", "junk"}}

tokensOf(o) ==
    CASE o \in PortOptions \cup {"positional-port"} -> {NotNumber, 0, 1, 65535, 65536}
      [] o = SlugLength -> {NotNumber, 3}
      [] o = DefaultExpiry -> {NotNumber, 60}
      [] o \in Numbers -> {NotNumber, 9}
      [] o \in BoolOptions -> {"", "yes", "0", "junk"}
      [] o = "tls-client-auth" -> {"", "required", "junk"}
      [] o = "shortener-base-domain" -> {"cli", "junk"}
      [] o \in {"help", "unknown"} -> {""}
      [] OTHER -> {"", "cli"}

\* One option, or two of those that stand for their kind or share a field.
Representatives == {"http-port", "positional-port", "tls-enabled", AllowPrivate,
    "shortener-default-redirect-type", SlugLength, "shortener-default-expiry-seconds"}

\* Words that begin one option, several, or one the whole of which is given too.
Shortened == {"http-p", "https", "pos", "he", "tls-cipher", "tls-key-", "shortener-default-r", "max-request", "http"}
wordTokens(w) ==
    LET options == guesses(w, Options)
    IN  IF Cardinality(options) = 1 THEN UNION {tokensOf(o) : o \in options} ELSE {""}

ServerArguments ==
    {[NoArguments EXCEPT !.help = h] : h \in BOOLEAN}
    \cup {[NoArguments EXCEPT !.options = o :> t, !.help = h] :
             <<o, t, h>> \in UNION {{<<p, u, k>> : u \in wordTokens(p), k \in BOOLEAN} :
                                         p \in Options \cup Shortened \cup {"unknown"}}}
    \cup {[NoArguments EXCEPT !.options = o, !.stray = s] :
             o \in {NoCommand.flags, "positional-port" :> 1, ("http-port" :> 1) @@ ("http-p" :> 1),
                   ("http-p" :> 1) @@ ("pos" :> 65535), ("tls-key" :> "cli") @@ ("tls-key-" :> "cli")},
             s \in BOOLEAN}
    \cup UNION {{[NoArguments EXCEPT !.options = (o :> t) @@ (p :> u)] :
                    t \in tokensOf(o), u \in tokensOf(p)} :
                    <<o, p>> \in Representatives \X Representatives}

flagTokens(f) ==
    CASE f \in {"slug", "id"} -> {"", "abc", "id", "healthz", "metrics"}
      [] f = "url" -> {"", "good", "private", "junk"}
      [] f = "redirect-type" -> {"", "permanent", "junk"}
      [] f = "expires-at" -> {"", "good", "clear", "junk"}
      [] f = "enabled" -> {"", "true", "off", "junk"}
      [] f \in {"tag", "tags"} -> {"good", "junk"}
      [] f = "metadata" -> {"", "pair", "pairs", "junk"}
      [] f \in {"from", "to", "bucket"} -> {"", "good", "junk"}
      [] f \in {"allow-private-targets", "clear-campaign"} -> {""}
      [] OTHER -> {"", "cli"}

short(f) == CASE f = "url" -> "ur" [] f = "slug" -> "sl" [] f = "bucket" -> "buck" [] f = "from" -> "f" [] OTHER -> f

plainToken(f) == CASE f \in {"slug", "sl", "id"} -> "abc" [] OTHER -> "good"

Flags == {"url", "slug", "id", "redirect-type", "expires-at", "enabled", "tag", "tags", "metadata",
    "campaign-name", "base-domain", "allow-private-targets", "clear-campaign", "from", "to", "bucket"}
FlagWords == Flags \cup {"e", "exp", "en", "meta", "campaign", "clear", "i"}
flagWordTokens(w) == UNION {flagTokens(f) : f \in guesses(w, Flags)}

\* What a verb needs, less one flag at most or abbreviated, with one other token
\* or flag, and a campaign field or an id beside it.
bases(verb) ==
    LET needed == linkVerbHelp(verb).required \cup (linkVerbHelp(verb).oneOf \ {"id"})
    IN  {needed, {short(f) : f \in needed}} \cup {needed \ {f} : f \in needed}

LinkArguments ==
    UNION {{[NoArguments EXCEPT !.mode = "link", !.verb = verb, !.flags = more @@ first] :
              first \in UNION {{(f :> t) @@ [x \in base |-> plainToken(x)] : t \in flagWordTokens(f)} :
                                <<base, f>> \in bases(verb) \X FlagWords},
              more \in {NoCommand.flags, "campaign-name" :> "", "id" :> "abc"}} : verb \in LinkVerbs}
    \cup {[NoArguments EXCEPT !.mode = "link", !.verb = v, !.help = h] :
             v \in LinkVerbs \cup {"", "unknown"}, h \in BOOLEAN}
    \cup {[NoArguments EXCEPT !.mode = "link", !.verb = v, !.stray = TRUE,
                !.flags = [f \in linkVerbHelp(v).required |-> plainToken(f)]] : v \in LinkVerbs}

SomeInvocations ==
    [env : SomeEnvironments, argv : ServerArguments]
    \cup [env : {CleanEnvironment, [CleanEnvironment EXCEPT !.slugLength = 2],
                 [CleanEnvironment EXCEPT !.allowPrivate = "true"],
                 [CleanEnvironment EXCEPT !.allowPrivate = "junk"]}, argv : LinkArguments]

\* Every combination of backends and of what they need.
SomeDocuments ==
    {[metadata |-> m, sqlite_path |-> p, postgres_dsn |-> p, cache |-> c, redis_address |-> a,
      default_ttl_seconds |-> t, analytics |-> n, rate_limit |-> r, limiter |-> l,
      limiter_address |-> b] :
        m \in {"inmemory", "sqlite", "postgres", "text"}, p \in {"unset", "", "text"},
        c \in {"none", "redis", "text"}, a \in {"unset", "", "host", "port", "host:port", "[v6]:port"},
        t \in {-1, 30}, n \in {"inmemory", "text"}, r \in BOOLEAN,
        l \in {"inmemory", "redis", "text"}, b \in {"unset", "", "host", "port", "host:port", "[v6]:port"}}
    \cup {("metadata" :> "inmemory"), ("cache" :> "inmemory"), ("cache" :> "redis"), NoCommand.flags}
=============================================================================
