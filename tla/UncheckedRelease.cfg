\* The instance of MCRequestHandlers.cfg.
CONSTANTS
    s1 = s1
    i1 = i1
    c1 = c1
    manager = manager
    None = None
    Requests <- MCRequests
    Streams <- MCStreams
    Conversations = {c1}
    ConversationOf <- MCConversationOf
    Personas = {manager}
    Given <- MCGiven
    Asking <- MCAsking
    Responses <- MCResponses
    Budget = 4
    Retries = 2
SPECIFICATION Spec
CHECK_DEADLOCK FALSE
INVARIANT ReleasedWasChecked
