SPECIFICATION SetupSpec
CONSTANTS
    old = old  db = db
    p1 = p1  p2 = p2
    Profiles = {p1, p2}
    PgEndpoints = {old}
    Instances = {db}
    MaxExperiments = 1
    MaxRuns = 3
    Templates <- MCTemplates
    AppResources <- MCAppResources
    Absent = Absent
    Empty = Empty
INVARIANTS FilesAgree LocalMatchesDeployed ConnectionIsComplete
CHECK_DEADLOCK FALSE
