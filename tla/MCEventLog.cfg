SPECIFICATION Spec
CONSTANTS
    Procs = {p1, p2, p3}
    Events = {e1, e2, e3, e4}
    Root = root
    None = none
    MaxFiles = 4
SYMMETRY Symmetry
INVARIANTS
    IndexAgrees
    ParentsPrecede
PROPERTIES
    AppendOnly
