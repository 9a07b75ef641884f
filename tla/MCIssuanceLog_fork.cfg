SPECIFICATION ExportSpec
CONSTANTS
    Processes = {p1, p2}
    MaxLines = 3
SYMMETRY ProcessSymmetry
CHECK_DEADLOCK FALSE
INVARIANTS
    CheckNeedsUnbrokenChain
