CONSTANTS
  Spaces = {}
  Sources = {"source"}
  Endpoints = {}
  Searches = {}
  Indexes = {"index"}
  Branches = {"branch"}
  Privileges = {"select"}
  Hinted = {"index", "branch"}
  MemoryBranch = "branch"
  SharedSchemas = {"shared"}
  TypeSchemas = {"openai"}
  MaxPrincipals = 2
  MaxScripts = 2
  MaxMissing = 1
  Superuser = "superuser"
  Memberships = {"superuser", "other"}
  Options <- MCOptions
SPECIFICATION GrantsSpec
INVARIANTS ReportedIsGranted
PROPERTIES RerunTakesNothing
CHECK_DEADLOCK FALSE
