CONSTANTS
    MaxNodes <- MC_MaxNodes
    NumAddrs <- MC_NumAddrs
    MaxTime <- MC_MaxTime
    InactivityThreshold <- MC_Threshold
    MachineKeys = {m1, m2}
    NodeKeys = {k1}
    Users = {u1, u2}
    Hostnames = {h1}
    Suffixes = {s1}
    Tags = {t1}
    NULL = NULL
    NoSuffix = NoSuffix
    InvalidName = InvalidName
    UnknownUser = UnknownUser
SYMMETRY MC_Symmetry
SPECIFICATION LSpec
PROPERTIES RemovedAreAbsent
CONSTRAINT MC_Constraint
