SPECIFICATION Spec
CONSTANTS
    Invocations <- SomeInvocations
    Documents <- SomeDocuments
    LinksWords <- Prefixes
    ShortUrlsWords <- Compat
    LowerCase <- Capitals
    Paths <- SomePaths
    Slugs <- SomeSlugs
    Generated <- SomeGenerated
    MaxLinks = 1
 
INVARIANT AcceptedConfigBuilds
INVARIANT RoutingAgrees
INVARIANT CreatedIsServed
INVARIANT CommandPairs
CHECK_DEADLOCK FALSE
