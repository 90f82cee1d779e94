SPECIFICATION Spec
CONSTANTS
    URL = {u1, u2}
    Rules = {a}
    UserRules = {r1, r2}
    Handler = {h1}
    Blank = Blank
    None = None
    Loop = Loop
    Ops = {"add", "remove", "set", "rules", "config", "refresh"}
    MaxBoot = 1
    MaxID = 2
    MaxReq = 2
    MaxSource = 1
SYMMETRY Symmetry
INVARIANTS TypeOK UniqueURLs DisabledListsUnused ChecksumSound UserRulesApplied
