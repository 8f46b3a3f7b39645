\* One handoff, one follow-up task, one app worker, under FairRSpec.  A clock of
\* four steps and a lease of one: a task that a cancelled handoff left claimed
\* lapses, is recovered, fails, is retried and is settled within the horizon.
CONSTANTS
    h1 = h1
    app = app
    d1 = d1
    f1 = f1
    handoffId = handoffId
    appId = appId
    None = None
    Tasks <- MCTasks
    Keys <- MCTasks
    KeyOf <- MCKeyOf
    ExpiresAt <- MCNoExpiry
    Workers <- MCWorkers
    MaxAttempts = 2
    LeaseSeconds = 1
    MaxTime = 4
    Handoffs <- MCHandoffs
    AppWorkers <- MCAppWorkers
    Request <- MCRequest
    Approvals <- MCApprovals
    WorkerId <- MCWorkerId
    Permitted <- MCPermitted
    EventsFail = TRUE
SPECIFICATION FairRSpec
CHECK_DEADLOCK FALSE
PROPERTIES
    TasksGetSettled
    ShutdownTerminates
