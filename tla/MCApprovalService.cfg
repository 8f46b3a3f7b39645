\* Two equal approvals, one without optional fields and a rejection of one request
\* in eight deployments, with restarts. Every call ends: deadlock is not checked.
CONSTANTS
    a1 = a1
    a2 = a2
    b1 = b1
    b2 = b2
    n1 = n1
    r1 = r1
    p1 = p1
    p2 = p2
    None = None
    Requests <- MCRequests
    RequestOf <- MCRequestOf
    FormOf <- MCFormOf
    Processes <- MCProcesses
    Texts <- MCTexts
    Names <- MCNames
    Intents <- MCIntents
    Logical <- MCLogical
    Agents <- MCAgents
    Calls <- MCRetries
    Settings <- MCSettings
SPECIFICATION Spec
CHECK_DEADLOCK FALSE
INVARIANTS
    FollowUpIsApproved
    AnswersAreKept
PROPERTIES
    DecisionIsFinal
