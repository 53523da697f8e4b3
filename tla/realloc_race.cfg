SPECIFICATION Spec
CONSTANTS
    t1 = t1
    t2 = t2
    Threads <- TwoThreads
    WordModulus = 16
    MaxSeq = 3
    MaxDeviceGen = 1
    Profiles <- OneProfile
    MaxBuffers = 1
    MaxRegs = 2
    MaxDomains = 1
    MaxLeases = 0
    MaxKeyGen = 2
    MaxEpoch = 0
    MaxAccesses = 0
    MaxReuse = 0
    Descriptors <- OneBuffer
    Snapshots <- TwoAuthorities
    Envelopes <- OneAuthority
    LeaseMasks <- WriteMask
    Requests <- PlainRequests
INVARIANTS
    NoAccessAfterReallocation
