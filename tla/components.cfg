SPECIFICATION ComponentsSpec
CONSTANTS
    s1 = s1
    s2 = s2
    WordModulus = 8
    MaxSeq = 2
    MaxDeviceGen = 3
    MaxBackendKey = 3
    Profiles <- Profiles2
    Offered <- SyntheticDescriptors
    Probes <- Accesses
    MaxRegions = 2
    MaxRefKey = 3
    MaxRefGen = 2
    RefOffered <- ReferenceDescriptors
    RefProbes <- AllAccesses
    PageSize = 2
    Committable = 4
    Lengths <- ProbeLengths
    Asked <- EveryDescriptor
    FilesAsked <- SomeFiles
    Savers <- TwoSavers
    Found <- EarlierFiles
    Offerable <- Kept
    MaxSaves = 3
    MaxCrashes = 1
INVARIANTS
    SimulationIsAuthorised
    ReferenceAllowsExactly
    ProbeHonest
    RangeInsideExact
    RangeChecksAgree
    AcceptsExactlyWellFormed
    SaveSticks
PROPERTIES
    SyntheticHonoursContract
    ReferenceHonoursContract
    ImplementsStore
