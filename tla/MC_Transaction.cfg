\* Transaction guards of both revisions: the invariants that hold.
CONSTANTS
    g1 = g1
    g2 = g2
    g3 = g3
    Guards <- MCGuards
    Revisions = {"current", "previous"}
SYMMETRY MCSymmetry
SPECIFICATION Spec
INVARIANTS
    EndsOnlyOwnBegin
\* The client program ends once its guards are destroyed.
CHECK_DEADLOCK FALSE
