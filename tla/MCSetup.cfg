SPECIFICATION Spec
CONSTANTS
    None = None
    Runs = {r1, r2}
    PageSize = 1
    MaxHooks = 3
    MaxId = 3
INVARIANT SetupTypeOK
INVARIANT OneHook
INVARIANT LastSecretIsLive
PROPERTY OthersUntouched
PROPERTY RunsEnd
CHECK_DEADLOCK FALSE
