SPECIFICATION Spec
CONSTANTS
    t1 = t1
    t2 = t2
    Threads <- OneThread
    WordModulus = 16
    MaxSeq = 3
    MaxDeviceGen = 2
    Profiles <- OneProfile
    MaxBuffers = 2
    MaxRegs = 2
    MaxDomains = 1
    MaxLeases = 1
    MaxKeyGen = 2
    MaxEpoch = 0
    MaxAccesses = 0
    MaxReuse = 0
    Descriptors <- TwoBuffers
    Snapshots <- TwoAuthorities
    Envelopes <- OneAuthority
    LeaseMasks <- WriteMask
    Requests <- PlainRequests
INVARIANTS
    SingleFlight
    InForceIsCurrent
    HandlesDistinct
    KeysAgree
    LeasedRegionIsLive
PROPERTIES
    KeysPartAtRollover
