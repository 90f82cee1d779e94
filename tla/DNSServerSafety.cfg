SPECIFICATION Spec
CONSTANTS
    Query = {q1}
    Kinds = {"badid", "canary", "ddr", "foreign", "lease", "unleased", "rewritten", "listed", "replaced", "cname", "plain"}
    Access <- AllAccess
    Never = Never
    NoOne = NoOne
    MaxTime = 1
    MaxAdmin = 2
INVARIANTS TypeOK ProtectionInForce AccessInForce SavedCurrent BlockedLogged
CHECK_DEADLOCK FALSE
