CONSTANTS
    Procs = {p1, p2, p3}
    Frames = {f1, f2, f3, f4, f5}
    NrPages = 3
    StackBottom = 2
    Tables = {"heap", "stack"}
    TableOf <- MCTableOf
    KernelPages = 1
    Values = {a, b}
    None = None
SYMMETRY MCSymmetry
SPECIFICATION Spec
INVARIANTS
    RefsExact
    SoleWriter
    TablesSound
 
CHECK_DEADLOCK FALSE
