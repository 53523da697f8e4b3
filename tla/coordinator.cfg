SPECIFICATION ScenarioSpec
CONSTANTS
    Main = Main
    Threads <- OneThread
    TheBuffer <- WorkerBuffer
    AccessLength = 4
    MaxFaults = 2
    WordModulus = 32
    MaxSeq = 2
    MaxDeviceGen = 1
    Profiles <- OneProfile
    MaxBuffers = 1
    MaxRegs = 2
    MaxDomains = 1
    MaxLeases = 0
    MaxKeyGen = 1
    MaxEpoch = 3
    MaxAccesses = 16
    MaxReuse = 0
    Descriptors <- Nothing
    Snapshots <- Nothing
    Envelopes <- Nothing
    LeaseMasks <- Nothing
    Requests <- Nothing
CHECK_DEADLOCK FALSE
INVARIANTS
    NoProofFails
    WorkersKnowTheTruth
PROPERTIES
    FramesInOrder
    ScenarioEnds
