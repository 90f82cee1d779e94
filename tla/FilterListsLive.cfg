SPECIFICATION FairSpec
CONSTANTS
    URL = {u1, u2}
    Rules = {a}
    UserRules = {r1, r2}
    Handler = {h1}
    Blank = Blank
    None = None
    Loop = Loop
    Ops = {"add", "remove", "set", "refresh", "rules"}
    MaxBoot = 1
    MaxID = 1
    MaxReq = 2
    MaxSource = 0
PROPERTIES DisabledListsStop RefreshEnds
