\* Contention for one task, and statements that fail unnoticed: MCUcTaskBus.tla
\* names the two deployments.  Every process may stop: deadlock is not checked.
CONSTANTS
    h1 = h1
    h2 = h2
    h3 = h3
    app1 = app1
    app2 = app2
    t1 = t1
    t2 = t2
    t3 = t3
    k1 = k1
    k3 = k3
    id1 = id1
    id3 = id3
    idApp1 = idApp1
    idApp2 = idApp2
    None = None
    Tasks <- MCTasks
    Keys <- MCKeys
    KeyOf <- MCKeyOf
    Workers <- MCWorkers
    Request <- MCRequest
    WorkerId <- MCWorkerId
    Permitted <- MCPermitted
    Handoffs <- MCHandoffs
    AppWorkers <- MCApps
    MaxAttempts = 2
    LeaseSeconds = 1
    MaxRuns = 9
    Deployments <- MCDeployments
SPECIFICATION Spec
CHECK_DEADLOCK FALSE
INVARIANTS
    OneExecutorPerLease
    AttemptsFence
    AttemptBudgetDecides
    OutcomeIsEarned
PROPERTIES
    SettledRowsAreFinal
    ImplementsLifecycle
