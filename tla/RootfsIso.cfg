CONSTANTS
    Creates = {c1, c2}
    Roots = {r1}
    Copied = {"hosts", "hostname"}
    Blocks = {"s", "l", "f", "g", "i"}
    Image <- MCImage
    Tree <- MCTree
    Bundles <- MCBundles
    MaxTries = 1
SPECIFICATION Spec
SYMMETRY CreateSymmetry
INVARIANTS TypeOK IsoWhole
CHECK_DEADLOCK FALSE
