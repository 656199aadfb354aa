CONSTANTS
    a = a
    b = b
    c = c
    h1 = h1
    h2 = h2
    NoOwner = NoOwner
    Owners = {a, b, c}
    Hosts = {h1, h2}
    HostOf <- MCHostOf
    LateWriters = {a}
    MaxLoads = 2
SPECIFICATION FairSpec
INVARIANTS
    GuardHolderClaimedLast
    LastClaimantKeepsLease
    DiskFollowsLastClaimant
PROPERTY OrphanRecovered
CHECK_DEADLOCK FALSE
