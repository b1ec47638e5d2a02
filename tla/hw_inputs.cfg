SPECIFICATION Spec
CONSTANTS
    ByteBits = 2
    WordBytes = 4
    Sizes = {1, 2, 4}
    FewBits = 2
    Exprs <- MCExprs
    MaxConstraints = 3
    Offsets = {1}
    Lengths = {1, 3}
    powerSet <- PowerSet
INVARIANTS
    BranchesCovered
    FeedOverlay
PROPERTIES
    SecondDictSame
CHECK_DEADLOCK FALSE
