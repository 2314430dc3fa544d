\* Every NodeID whose path has a backing array of at most two bytes from
\* {0, 1, 255}.
CONSTANTS
    Bytes <- MCBytes
    MaxLen = 2
    Misaligned = Misaligned
SPECIFICATION Spec
INVARIANT KeyMatchesReference
