SPECIFICATION PersistenceSpec
CONSTANTS
    t1 = t1
    s1 = s1
    Threads <- OneThread
    Savers <- OneSaver
    Found <- EarlierFile
    Offerable <- Nothing
    MaxSaves = 1
    MaxCrashes = 1
    MaxRecycled = 1
    WordModulus = 16
    MaxSeq = 1
    MaxDeviceGen = 1
    Profiles <- OneProfile
    MaxBuffers = 1
    MaxRegs = 1
    MaxDomains = 1
    MaxLeases = 1
    MaxKeyGen = 1
    MaxEpoch = 0
    MaxAccesses = 0
    MaxReuse = 0
    Descriptors <- TwoKinds
    Snapshots <- OneAuthority
    Envelopes <- OneAuthority
    LeaseMasks <- Rights
    Requests <- PeerRequests
INVARIANTS
    NothingLiveRecovered
    LiveBytesExact
PROPERTIES
    TablesRoundTrip
