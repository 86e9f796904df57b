CONSTANTS
    Splits = {s1, s2, s3}
    NoSplit = NoSplit
    Paths = {p1}
    Hashes = {h1, h2, h3}
    Times = {1, 2, 3}
    MaxEntries = 4
SPECIFICATION Spec
SYMMETRY Symmetry
INVARIANT LatestWins
CHECK_DEADLOCK FALSE
