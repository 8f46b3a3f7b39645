\* A stream and an invocation of one conversation, with memory that fails open or
\* closed, two retries and a budget of four chunks: answers fit it, exceed it, and
\* are flagged before and beyond it.  Requests end: deadlock is not checked.
CONSTANTS
    s1 = s1
    i1 = i1
    c1 = c1
    manager = manager
    None = None
    Requests <- MCRequests
    Streams <- MCStreams
    Conversations = {c1}
    ConversationOf <- MCConversationOf
    Personas = {manager}
    Given <- MCGiven
    Asking <- MCAsking
    Responses <- MCResponses
    Budget = 4
    Retries = 2
SPECIFICATION FairSpec
CHECK_DEADLOCK FALSE
INVARIANTS
    GuardedRelease
    RememberedWasReleased
    MemoryIsCoherent
    AuditAgreesWithClient
PROPERTY StreamIsBounded
