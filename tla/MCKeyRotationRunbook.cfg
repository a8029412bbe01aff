CONSTANTS
    Operators = {p1, p2}
    OpIds = {o1, o2}
    MaxKeyVersion = 3
    Materials = {"none", "init", "dev", o1, o2}
SYMMETRY Symmetry
SPECIFICATION KeySpec
INVARIANT RunbookOrderAccepted
