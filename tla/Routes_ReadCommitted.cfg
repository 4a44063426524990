CONSTANTS
    Nodes = {n1, n2, n3}
    Prefixes = {p1, x}
    ExitPrefixes = {x}
    NoPrimary = NoPrimary
SPECIFICATION ReadCommittedSpec
INVARIANTS AtMostOnePrimary
