CONSTANTS
    Procs = {p1, p2}
    Frames = {f1, f2, f3, f4, f5, f6}
    NrPages = 4
    StackBottom = 2
    Tables = {"heap", "stack"}
    TableOf <- MCTableOf
    KernelPages = 1
    Values = {a, b}
    None = None
SYMMETRY MCSymmetry
SPECIFICATION Spec
PROPERTY CopyLands
CHECK_DEADLOCK FALSE
