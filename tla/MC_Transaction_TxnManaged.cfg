\* Transaction guards of the current revision: a committed transaction stays in the hands of its guard.
CONSTANTS
    g1 = g1
    g2 = g2
    g3 = g3
    Guards <- MCGuards
    Revisions = {"current"}
SYMMETRY MCSymmetry
SPECIFICATION Spec
INVARIANTS
    TxnManaged
\* The client program ends once its guards are destroyed.
CHECK_DEADLOCK FALSE
