SPECIFICATION FairSpec
CONSTANTS
    m1 = m1  m2 = m2  g = g
    z1 = z1
    None = None
    Others <- TwoOthers
    Generic = g
    Nulls <- OneNull
    Types <- SomeTypes
    Supports <- SomeSupport
    Files <- SomeFiles
    Tokens <- SomeTokens
    hash_pjw <- SomeHash
    Nics <- SomeNics
    NotExternal <- Local
    Hazards <- NoHazard
INVARIANTS
    TypeOK
    OptionsInOrder
    AddressesUsed
    ManagersListen
    NullAsConfigured
    NullIsLastResort
    OwnedOnce
PROPERTIES
    StartEnds
