\* The current revision's guards against GuardProtocol: a guard's end
\* reaches a transaction another guard opened.
CONSTANTS
    g1 = g1
    g2 = g2
    g3 = g3
    Guards <- MCGuards
    Revisions = {"current"}
SYMMETRY MCSymmetry
SPECIFICATION Spec
PROPERTY
    GuardRefines
CHECK_DEADLOCK FALSE
