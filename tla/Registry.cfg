CONSTANTS
    MaxNodes <- MC_MaxNodes
    NumAddrs <- MC_NumAddrs
    MaxTime <- MC_MaxTime
    MachineKeys = {m1, m2}
    NodeKeys = {k1}
    Users = {u1, u2}
    Hostnames = {h1}
    Suffixes = {s1}
    Tags = {}
    NULL = NULL
    NoSuffix = NoSuffix
    InvalidName = InvalidName
    UnknownUser = UnknownUser
SYMMETRY MC_Symmetry
SPECIFICATION Spec
INVARIANTS TypeOK CacheCoherent
PROPERTIES IPStable OwnerStable IdentitySpec
