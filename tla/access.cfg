SPECIFICATION Spec
CONSTANTS
    t1 = t1
    t2 = t2
    Threads <- OneThread
    WordModulus = 16
    MaxSeq = 2
    MaxDeviceGen = 2
    Profiles <- TwoProfiles
    MaxBuffers = 1
    MaxRegs = 1
    MaxDomains = 1
    MaxLeases = 0
    MaxKeyGen = 2
    MaxEpoch = 2
    MaxAccesses = 1
    MaxReuse = 1
    Descriptors <- OneBuffer
    Snapshots <- OneAuthority
    Envelopes <- TwoAuthorities
    LeaseMasks <- WriteMask
    Requests <- EdgeRequests
INVARIANTS
    AllowedMeansCurrent
    CurrentMeansAllowed
    ReuseOnlyCurrent
