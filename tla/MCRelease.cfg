SPECIFICATION ReleaseSpec
CONSTANTS
    Revisions = {1, 2}
    Version <- MCVersion
    Tracked <- MCTracked
    Targets = {"dev"}
    MaxScripts = 3
    None = None
INVARIANTS UiMatchesCode SubmittedIsManifest
CHECK_DEADLOCK FALSE
