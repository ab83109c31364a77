\* Hooks: every callback reaches a live, non-empty handler.
CONSTANTS
    d1 = d1
    d2 = d2
    h1 = h1
    h2 = h2
    h3 = h3
    kb = kb
    NULL = NULL
    Databases <- MCDatabases
    Handles <- MCHandles
    Kinds <- MCKinds
SPECIFICATION Spec
INVARIANT NoStrayCallback
\* The client may stop calling at any point.
CHECK_DEADLOCK FALSE
