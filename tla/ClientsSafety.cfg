SPECIFICATION Spec
CONSTANTS
    UIDs = {u1, u2}
    Names = {"ann", "bob"}
    ClientIDs = {"cid1"}
    IPs = {"ip1", "ip2"}
    Subnets = {"wide", "narrow"}
    MACs = {"mac1"}
    None = None
    Profiles <- MCProfiles
    Contains <- MCContains
    Bits <- MCBits
    Leased <- MCLeased
    MaxOps = 3
    MaxCommon = 1
INVARIANTS TypeOK IndexExact LookupExact UpstreamsCurrent ApplyHeld
PROPERTY Implements
SYMMETRY Symmetry
CHECK_DEADLOCK FALSE
