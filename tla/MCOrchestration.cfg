SPECIFICATION Spec
CONSTANTS
    exec = exec  mgr = mgr  ann = ann  bob = bob  chat = chat
    r1 = r1  r2 = r2
    Agents <- MCAgents
    Requests = {r1, r2}
    Users = {ann, bob}
    Personas = {exec, mgr}
    Conversations = {chat}
    Asks <- MCAsks
    Topics <- MCTopics
    Barred <- MCBarred
    Conditions <- MCConditions
    ConnectTimeout = 1
    ListTimeout = 1
    HealthTtl = 2
    FailureTtl = 1
    StickyTtl = 1
    ModelTtl = 1
    MaxTime = 4
    MaxChanges = 2
    MaxVersion = 1
    App = App
    None = None
INVARIANTS OnlyAllowedIsOffered BlamedForItsOwnFailure FaultIsForgotten ConnectIsBounded
PROPERTIES OnlyFreshIsUsed
CHECK_DEADLOCK FALSE
