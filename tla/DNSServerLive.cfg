SPECIFICATION FairSpec
CONSTANTS
    Query = {q1, q2}
    Kinds = {"listed"}
    Access <- OpenAccess
    Never = Never
    NoOne = NoOne
    MaxTime = 0
    MaxAdmin = 1
PROPERTIES QueriesServed RequestsServed
CHECK_DEADLOCK FALSE
