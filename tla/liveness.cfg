SPECIFICATION FairSpec
CONSTANTS
    t1 = t1
    t2 = t2
    Threads <- TwoThreads
    WordModulus = 16
    MaxSeq = 2
    MaxDeviceGen = 1
    Profiles <- TwoProfiles
    MaxBuffers = 1
    MaxRegs = 2
    MaxDomains = 1
    MaxLeases = 0
    MaxKeyGen = 1
    MaxEpoch = 0
    MaxAccesses = 0
    MaxReuse = 0
    Descriptors <- AutomaticToo
    Snapshots <- OneAuthority
    Envelopes <- OneAuthority
    LeaseMasks <- WriteMask
    Requests <- PlainRequests
PROPERTIES
    CallsReturn
    DeregisterSettles
