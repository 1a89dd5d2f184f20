---------------------------- MODULE StorageSetup ----------------------------
(***************************************************************************)
(* The storage configuration (config/storage_config.cpp) and the adapters  *)
(* built from it (composition/storage_factory.cpp).  "unset" is a key that *)
(* is not in the document, "" the empty text, and "text" any other.  The   *)
(* addresses are "host:port", "host", "port" alone and "[v6]:port", whose  *)
(* first colon is not the one before the port.                             *)
(***************************************************************************)
EXTENDS Integers

CONSTANT Documents  \* the YAML documents that may be loaded

VARIABLES
    setup,     \* "none", "parsed", "rejected", "built" or "failed"
    storage,   \* StorageConfig
    adapters   \* StorageAdapters

setupVars == <<setup, storage, adapters>>

\* The members of StorageConfig as they are initialised; a TTL that is not set
\* is 0, which the checks and the factory do not tell apart.
StorageConfig == [metadata |-> "inmemory", sqlite_path |-> "unset", postgres_dsn |-> "unset",
    cache |-> "none", redis_address |-> "unset", default_ttl_seconds |-> 0,
    analytics |-> "noop", rate_limit |-> FALSE, limiter |-> "inmemory", limiter_address |-> "unset"]

NoAdapters == [metadata |-> "null", cache |-> "null", analytics |-> "null", rate_limiter |-> "null"]

SetupInit == setup = "none" /\ storage = StorageConfig /\ adapters = NoAdapters

\* An option that is there and not empty.
hasText(value) == value \notin {"unset", ""}

\* Slip: the address of the limiter is not asked for.
RequiredWithoutLimiterAddress(c) ==
    /\ c.metadata \in {"inmemory", "sqlite", "postgres"}
    /\ c.metadata = "sqlite" => hasText(c.sqlite_path)
    /\ c.metadata = "postgres" => hasText(c.postgres_dsn)
    /\ c.cache \in {"none", "inmemory", "redis"}
    /\ c.cache = "redis" => hasText(c.redis_address)
    /\ c.default_ttl_seconds >= 0
    /\ c.analytics \in {"noop", "inmemory"}
    /\ c.rate_limit => c.limiter \in {"inmemory", "redis"}

\* The checks of ParseStorageConfigNode.
Required(c) ==
    /\ c.metadata \in {"inmemory", "sqlite", "postgres"}
    /\ c.metadata = "sqlite" => hasText(c.sqlite_path)
    /\ c.metadata = "postgres" => hasText(c.postgres_dsn)
    /\ c.cache \in {"none", "inmemory", "redis"}
    /\ c.cache = "redis" => hasText(c.redis_address)
    /\ c.default_ttl_seconds >= 0
    /\ c.analytics \in {"noop", "inmemory"}
    /\ c.rate_limit => /\ c.limiter \in {"inmemory", "redis"}
                       /\ c.limiter = "redis" => hasText(c.limiter_address)

\* A document gives some of the keys; the others keep their initial values.
ParseStorageConfigNode(doc) ==
    /\ setup = "none"
    /\ storage' = [k \in DOMAIN StorageConfig |-> IF k \in DOMAIN doc THEN doc[k] ELSE StorageConfig[k]]
    /\ setup' = IF Required(storage') THEN "parsed" ELSE "rejected"
    /\ UNCHANGED adapters

\* A Redis client is built from the text before and after the first colon;
\* without a colon both are the whole text.  std::stoi reads the port.
redis(address) ==
    CASE address = "unset" -> "undefined"
      [] address \in {"host:port", "port"} -> "redis"
      [] OTHER -> "not a port"

\* An option that is dereferenced without a look.
sql(backend, option) == IF option = "unset" THEN "undefined" ELSE backend

chosen(c) ==
    [metadata |-> CASE c.metadata = "inmemory" -> "inmemory"
                    [] c.metadata = "sqlite" -> sql("sqlite", c.sqlite_path)
                    [] OTHER -> sql("postgres", c.postgres_dsn),
     cache |-> IF c.cache \in {"none", "inmemory"} THEN c.cache ELSE redis(c.redis_address),
     analytics |-> IF c.analytics = "inmemory" THEN "inmemory" ELSE "noop",
     rate_limiter |-> CASE ~c.rate_limit -> "null"
                        [] c.limiter = "inmemory" -> "inmemory"
                        [] OTHER -> redis(c.limiter_address)]

\* std::stoi throws and nothing is returned.
BuildStorageAdapters ==
    /\ setup = "parsed"
    /\ LET built == chosen(storage)
       IN  IF "not a port" \in {built.cache, built.rate_limiter}
             THEN setup' = "failed" /\ UNCHANGED adapters
             ELSE setup' = "built" /\ adapters' = built
    /\ UNCHANGED storage

SetupNext ==
    \/ setup = "none" /\ \E doc \in Documents : ParseStorageConfigNode(doc)
    \/ BuildStorageAdapters

\* What ParseStorageConfigNode lets through can be built as it says: no option
\* is dereferenced that is not there, and the only refusal left to the factory
\* is a Redis address with no number after its first colon, of a cache or a
\* limiter that is used.
AcceptedConfigBuilds ==
    /\ setup = "built" =>
          /\ adapters.metadata = storage.metadata /\ adapters.cache = storage.cache
          /\ adapters.analytics = storage.analytics
          /\ adapters.rate_limiter = IF storage.rate_limit THEN storage.limiter ELSE "null"
    /\ setup = "failed" =>
          \/ storage.cache = "redis" /\ storage.redis_address \notin {"host:port", "port"}
          \/ /\ storage.rate_limit /\ storage.limiter = "redis"
             /\ storage.limiter_address \notin {"host:port", "port"}
=============================================================================
