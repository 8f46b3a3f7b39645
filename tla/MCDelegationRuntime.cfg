\* Two handoffs of one delegation, one follow-up task and one app worker; two
\* attempts, a lease of one clock step and a clock of three, so that a lease can
\* lapse under a running executor, be taken over and lapse again; the follow-up
\* expires at two.  Requests end: deadlock is not checked.
CONSTANTS
    h1 = h1
    h2 = h2
    app = app
    d1 = d1
    d2 = d2
    f1 = f1
    kd = kd
    kf = kf
    handoffId = handoffId
    appId = appId
    None = None
    Tasks <- MCTasks
    Keys <- MCKeys
    KeyOf <- MCKeyOf
    ExpiresAt <- MCExpiresAt
    Workers <- MCWorkers
    MaxAttempts = 2
    LeaseSeconds = 1
    MaxTime = 3
    Handoffs <- MCHandoffs
    AppWorkers <- MCAppWorkers
    Request <- MCRequest
    Approvals <- MCApprovals
    WorkerId <- MCWorkerId
    Permitted <- MCPermitted
    EventsFail = TRUE
SPECIFICATION RSpec
CHECK_DEADLOCK FALSE
INVARIANTS
    OneTaskPerKey
    LeaseProtectsWorker
    StaleWorkerIsFenced
    OutcomeIsEarned
PROPERTIES
    ImplementsLifecycle
