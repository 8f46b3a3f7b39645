SPECIFICATION Spec
CONSTANTS
    a = a  b = b  c = c  source = source
    Tokens = {a, b, c, source}
    Spelling <- MCSpelling
    Surfaces = {"chat", "invocations"}
    Answers <- MCAnswers
    MaxQueries = 2
    MaxClears = 1
    MaxNotices = 1
    MaxHistory = 2
    None = None
INVARIANTS ConversationIsIsolated TextIsFaithful
PROPERTIES SettledStays QueriesEnd
CHECK_DEADLOCK FALSE
