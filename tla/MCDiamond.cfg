CONSTANTS
    Splits = {s1, s2}
    NoSplit = NoSplit
    Files = {f1, f2}
    Bundles = {b1, b2}
    NoBundle = NoBundle
    Adders = {a1, a2}
    Committers = {c1, c2}
    Cancelers = {k1}
    EntriesPerFile = 1
    EnableBundlePreserve = TRUE
SPECIFICATION Spec
SYMMETRY Symmetry
INVARIANTS SplitComplete BundleComplete DoneIsReadable OneConclusion
PROPERTIES NothingOverwritten ImplementsContract
CHECK_DEADLOCK FALSE
