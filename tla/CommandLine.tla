----------------------------- MODULE CommandLine ----------------------------
(***************************************************************************)
(* The command line of the url_shortener program (cli_parser.cpp and       *)
(* cli/link_command_args.cpp): the environment, the options of the server  *)
(* and the flags of `link <verb>`.  A token is abstracted to what the      *)
(* parser tells apart: "" is the empty text, "junk" a text no parser of    *)
(* the flag takes, NotNumber a text that is not an unsigned number.  The   *)
(* options and flags of an invocation are functions from the words after   *)
(* "--" to their tokens; "stray" says that a word is left over which is no *)
(* option, no token of one and, for a server, not the port.                *)
(***************************************************************************)
EXTENDS Integers, Sequences, FiniteSets

CONSTANT Invocations  \* the environments and arguments the program may be started with

VARIABLES
    phase,    \* where the process is in main
    env,      \* its environment
    argv,     \* its arguments
    config,   \* ServerConfig, by the name of the option that sets a field
    command,  \* the parsed link command
    code      \* its exit code

parserVars == <<phase, env, argv, config, command, code>>

NotNumber == -1
Unset == -2      \* a number that is not there
NoCommand == [verb |-> "none", flags |-> [f \in {} |-> ""]]

TextOptions == {"tls-cert", "tls-key", "tls-min-version", "tls-cipher-suites", "tls-ciphers",
    "tls-curves", "tls-alpn", "shortener-base-domain", "shortener-default-redirect-type",
    "analytics-client-hash-salt"}
NumberOptions == {"shortener-generated-slug-length", "analytics-queue-capacity",
    "request-id-max-length", "max-request-body-bytes", "max-request-target-length"}
BoolOptions == {"http-enabled", "http-redirect-to-https", "tls-enabled", "tls-session-tickets",
    "tls-session-cache", "shortener-allow-private-targets", "analytics-enabled"}
OptionalTexts == {"tls-key-passphrase", "tls-ca-file", "tls-ca-path"}
OptionalNumbers == {"hsts-max-age", "shortener-default-expiry-seconds"}
PortOptions == {"http-port", "https-port"}

Texts == TextOptions \cup OptionalTexts \cup {"tls-client-auth"}
Numbers == NumberOptions \cup OptionalNumbers \cup PortOptions \cup {"positional-port"}
Fields == Texts \cup BoolOptions \cup (Numbers \ {"positional-port"})
Options == Texts \cup BoolOptions \cup Numbers \cup {"help"}

\* The members of ServerConfig as they are initialised; the limits of requests
\* and of the analytics queue are alike here.
ServerConfig == [f \in Fields |->
    CASE f \in TextOptions -> "default"
      [] f \in OptionalTexts -> "unset"
      [] f = "tls-client-auth" -> "none"
      [] f \in BoolOptions -> f \in {"http-enabled", "tls-session-cache", "analytics-enabled"}
      [] f \in OptionalNumbers -> Unset
      [] f = "shortener-generated-slug-length" -> 7
      [] f = "http-port" -> 8000
      [] f = "https-port" -> 443
      [] OTHER -> 1024]

Truths == {"true", "1", "on", "yes"}
isBool(token) == token \in Truths \cup {"false", "0", "off", "no"}
parseBool(token) == token \in Truths

isPort(n) == n \in 1 .. 65535

parseClientAuthMode(token) == IF token \in {"optional", "required"} THEN token ELSE "none"

Exit(n) == phase' = "exited" /\ code' = n

\* The default style of Boost.Program_options, allow_guessing included: a word
\* is the option it spells, else any option it begins.
isPrefixOf(word, option) == Len(word) <= Len(option) /\ SubSeq(option, 1, Len(word)) = word
guesses(word, known) == IF word \in known THEN {word} ELSE {o \in known : isPrefixOf(word, o)}

\* An unknown word, a word that begins several options and an option that is
\* given twice are errors.  (--tag and --metadata may be; that is not used here.)
parsesWords(words, known) ==
    /\ \A w \in DOMAIN words : Cardinality(guesses(w, known)) = 1
    /\ \A v, w \in DOMAIN words : guesses(v, known) = guesses(w, known) => v = w

\* The options by their names.
named(words, known) ==
    [o \in UNION {guesses(w, known) : w \in DOMAIN words} |->
        words[CHOOSE w \in DOMAIN words : o \in guesses(w, known)]]

-----------------------------------------------------------------------------
(* CliParser::parse, for a server *)

\* The five variables of the environment, read before the arguments.
badEnvironment(e) ==
    \/ e.expiry = NotNumber \/ e.slugLength = NotNumber
    \/ e.allowPrivate # "unset" /\ ~isBool(e.allowPrivate)

withEnvironment(c, e) ==
    [c EXCEPT !["shortener-base-domain"] = IF e.baseDomain = "unset" THEN @ ELSE e.baseDomain,
              !["shortener-default-redirect-type"] = IF e.redirectType = "unset" THEN @ ELSE e.redirectType,
              !["shortener-default-expiry-seconds"] = IF e.expiry = Unset THEN @ ELSE e.expiry,
              !["shortener-generated-slug-length"] = IF e.slugLength = Unset THEN @ ELSE e.slugLength,
              !["shortener-allow-private-targets"] =
                    IF e.allowPrivate = "unset" THEN @ ELSE parseBool(e.allowPrivate)]

\* An exception of the parser ends main with 1.
ReadEnvironment ==
    /\ phase = "start"
    /\ \/ badEnvironment(env) /\ Exit(1) /\ UNCHANGED config
       \/ ~badEnvironment(env)
          /\ config' = withEnvironment(config, env)
          /\ phase' = argv.mode /\ UNCHANGED code
    /\ UNCHANGED <<env, argv, command>>

\* po::command_line_parser and po::store: every word names an option, there is
\* one positional word at most, and the value of a number is one.
stores(args) ==
    /\ parsesWords(args.options, Options) /\ ~args.stray
    /\ LET options == named(args.options, Options)
       IN  \A o \in DOMAIN options \cap Numbers : options[o] # NotNumber

helpRequested(args) == args.help \/ "help" \in DOMAIN named(args.options, Options)

\* po::notify writes a bound value in the order of the options' names, so
\* that the positional port comes after --http-port.
http_port_raw(c, options) ==
    IF "positional-port" \in DOMAIN options THEN options["positional-port"]
    ELSE IF "http-port" \in DOMAIN options THEN options["http-port"]
    ELSE c["http-port"]

\* The conversions and checks after po::notify.
converts(c, options) ==
    /\ DOMAIN options \cap {"http-port", "positional-port"} # {} => isPort(http_port_raw(c, options))
    /\ "https-port" \in DOMAIN options => isPort(options["https-port"])
    /\ \A o \in DOMAIN options \cap BoolOptions : options[o] = "" \/ isBool(options[o])


\* The fields after the options: a default is the field itself, and the
\* empty text leaves a flag as it was.
withOptions(c, options) ==
    [f \in Fields |->
        CASE f = "http-port" -> http_port_raw(c, options) % 65536
          [] f \in BoolOptions \cap DOMAIN options ->
                IF options[f] = "" THEN c[f] ELSE parseBool(options[f])
          [] f = "tls-client-auth" /\ f \in DOMAIN options -> parseClientAuthMode(options[f])
          [] f \in DOMAIN options \ (BoolOptions \cup {"http-port", "tls-client-auth"}) -> options[f]
          [] OTHER -> c[f]]

\* Everything from the option descriptions to the return of parse.
ParseOptions ==
    /\ phase = "server"
    /\ \/ ~stores(argv) /\ Exit(1) /\ UNCHANGED config
       \/ stores(argv) /\ helpRequested(argv) /\ Exit(0) /\ UNCHANGED config
       \/ /\ stores(argv) /\ ~helpRequested(argv)
          /\ LET options == named(argv.options, Options)
             IN  IF converts(config, options)
                   THEN config' = withOptions(config, options) /\ phase' = "parsed" /\ UNCHANGED code
                   ELSE Exit(1) /\ UNCHANGED config
    /\ UNCHANGED <<env, argv, command>>

-----------------------------------------------------------------------------
(* The flags of `link <verb>` *)

CampaignFlags == {"campaign-name", "campaign-source", "campaign-medium", "campaign-term",
    "campaign-content", "campaign-id"}

LinkVerbs == {"create", "get", "update", "delete", "enable", "disable", "restore", "preview", "stats"}

given(flags, f) == f \in DOMAIN flags
nonEmpty(flags, f) == given(flags, f) => flags[f] # ""
asBool(flags, f) == given(flags, f) => isBool(flags[f])

\* The options_description of each verb.
verbOptions(verb) ==
    CASE verb = "create" -> CampaignFlags \cup {"url", "slug", "redirect-type", "expires-at",
            "enabled", "tag", "metadata", "base-domain", "allow-private-targets"}
      [] verb = "update" -> CampaignFlags \cup {"slug", "enabled", "expires-at", "tags", "metadata",
            "clear-campaign"}
      [] verb \in {"get", "preview"} -> {"slug", "id"}
      [] verb = "stats" -> {"slug", "from", "to", "bucket"}
      [] OTHER -> {"slug"}

\* There are no positional options, and po::store skips a word without a name.
runVerbParse(args) == parsesWords(args.flags, verbOptions(args.verb))

\* KEY=VALUE is "pair", KEY=A=B is "pairs".
parseCreateArgs(flags) ==
    /\ given(flags, "url") /\ nonEmpty(flags, "url")
    /\ nonEmpty(flags, "slug")
    /\ given(flags, "redirect-type") => flags["redirect-type"] \in {"temporary", "permanent"}
    /\ nonEmpty(flags, "expires-at")
    /\ asBool(flags, "enabled")
    /\ given(flags, "metadata") => flags["metadata"] \in {"pair", "pairs"}
    /\ nonEmpty(flags, "base-domain")

\* A field that is not given is left alone; "clear" and --clear-campaign are
\* an explicit null, an empty list of tags or metadata an empty one.
parseUpdateArgs(flags) ==
    /\ given(flags, "slug") /\ nonEmpty(flags, "slug")
    /\ asBool(flags, "enabled")
    /\ nonEmpty(flags, "expires-at")
    /\ given(flags, "metadata") => flags["metadata"] \in {"pair", ""}
    /\ ~(given(flags, "clear-campaign") /\ DOMAIN flags \cap CampaignFlags # {})

parseGetLikeArgs(flags) ==
    /\ given(flags, "slug") # given(flags, "id")
    /\ nonEmpty(flags, "slug") /\ nonEmpty(flags, "id")

parseSlugOnly(flags) ==
    /\ given(flags, "slug") /\ nonEmpty(flags, "slug")

parseStatsArgs(flags) ==
    \A f \in {"slug", "from", "to", "bucket"} : given(flags, f) /\ nonEmpty(flags, f)

parsesArgs(verb, flags) ==
    CASE verb = "create" -> parseCreateArgs(flags)
      [] verb = "update" -> parseUpdateArgs(flags)
      [] verb \in {"get", "preview"} -> parseGetLikeArgs(flags)
      [] verb \in {"delete", "enable", "disable", "restore"} -> parseSlugOnly(flags)
      [] verb = "stats" -> parseStatsArgs(flags)
      [] OTHER -> FALSE

\* `link --help` describes the verbs and `link <verb> --help` a verb there is.
LinkHelp ==
    /\ phase = "link" /\ argv.help
    /\ Exit(IF argv.verb \in LinkVerbs \cup {""} THEN 0 ELSE 1)
    /\ UNCHANGED <<env, argv, config, command>>

\* What `link create` overrides in the configuration.
withOverrides(c, verb, flags) ==
    IF verb # "create" THEN c
    ELSE [c EXCEPT !["shortener-base-domain"] =
                        IF given(flags, "base-domain") THEN flags["base-domain"] ELSE @,
                   !["shortener-allow-private-targets"] =
                        @ \/ given(flags, "allow-private-targets")]

ParseLinkCommand ==
    /\ phase = "link" /\ ~argv.help
    /\ LET flags == named(argv.flags, verbOptions(argv.verb))
       IN  IF runVerbParse(argv) /\ parsesArgs(argv.verb, flags)
             THEN /\ command' = [verb |-> argv.verb, flags |-> flags]
                  /\ config' = withOverrides(config, argv.verb, flags)
                  /\ phase' = "parsed" /\ UNCHANGED code
             ELSE Exit(1) /\ UNCHANGED <<command, config>>
    /\ UNCHANGED <<env, argv>>

-----------------------------------------------------------------------------
(* What the help text says of the flags *)

\* buildLinkVerbHelpText: the flags under "Required", those under "Optional"
\* and those of which exactly one is to be given.
linkVerbHelp(verb) ==
    CASE verb = "create" ->
            [required |-> {"url"}, oneOf |-> {},
             optional |-> CampaignFlags \cup {"slug", "redirect-type", "expires-at", "enabled",
                "tag", "metadata", "base-domain", "allow-private-targets"}]
      [] verb = "update" ->
            [required |-> {"slug"}, oneOf |-> {},
             optional |-> CampaignFlags \cup {"enabled", "expires-at", "tags", "metadata",
                "clear-campaign"}]
      [] verb \in {"get", "preview"} ->
            [required |-> {}, oneOf |-> {"slug", "id"}, optional |-> {}]
      [] verb = "stats" ->
            [required |-> {"slug", "from", "to", "bucket"}, oneOf |-> {}, optional |-> {}]
      [] OTHER -> [required |-> {"slug"}, oneOf |-> {}, optional |-> {}]

\* The token is what the help text says of the flag: <BOOL>, temporary|permanent,
\* <RFC3339|clear>, <KEY=VALUE>, "empty value clears all metadata", and so on.
fitsHelp(verb, f, token) ==
    CASE f = "enabled" -> isBool(token)
      [] f = "redirect-type" -> token \in {"temporary", "permanent"}
      [] f = "expires-at" -> token \in {"good"} \cup (IF verb = "update" THEN {"clear"} ELSE {})
      [] f = "metadata" -> token \in {"pair", "pairs"} \cup (IF verb = "update" THEN {""} ELSE {})
      [] f \in CampaignFlags \cup {"allow-private-targets", "clear-campaign"} -> TRUE
      [] f \in {"tag", "tags"} -> token # "junk"
      [] OTHER -> token \notin {"", "junk"}

\* The flags of which the parser asks only that their text is not empty; the
\* link service reads it.
ReadByService == {"url", "expires-at", "tag", "tags", "from", "to", "bucket"}

flagsFollowHelp(verb, flags) ==
    LET help == linkVerbHelp(verb)
    IN  /\ DOMAIN flags \subseteq help.required \cup help.oneOf \cup help.optional
        /\ help.required \subseteq DOMAIN flags
        /\ help.oneOf # {} => Cardinality(help.oneOf \cap DOMAIN flags) = 1
        /\ given(flags, "clear-campaign") => DOMAIN flags \cap CampaignFlags = {}

followsHelp(verb, flags) ==
    flagsFollowHelp(verb, flags) /\ \A f \in DOMAIN flags : fitsHelp(verb, f, flags[f])

\* The value the invocation asks for a field: its own option, else the
\* environment, else the default.
asked(f) ==
    LET fromEnvironment == withEnvironment(ServerConfig, env)[f]
        options == named(argv.options, Options)
        option == IF f = "http-port" /\ given(options, "positional-port") THEN "positional-port" ELSE f
    IN  CASE ~given(options, option) -> fromEnvironment
          [] f \in BoolOptions /\ options[option] = "" -> fromEnvironment
          [] f \in BoolOptions /\ options[option] # "" -> parseBool(options[option])
          [] f = "tls-client-auth" /\ given(options, f) -> parseClientAuthMode(options[f])
          [] OTHER -> options[option]

=============================================================================
