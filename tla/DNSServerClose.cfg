SPECIFICATION FairSpec
CONSTANTS
    Query = {q1}
    Kinds = {"replaced", "plain"}
    Access <- OpenAccess
    Never = Never
    NoOne = NoOne
    MaxTime = 1
    MaxAdmin = 0
PROPERTIES CloseReturns
CHECK_DEADLOCK FALSE
