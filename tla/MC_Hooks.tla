------------------------------ MODULE MC_Hooks ------------------------------
EXTENDS Hooks, TLC

CONSTANTS d1, d2, h1, h2, h3, kb

MCDatabases == {d1, d2}
MCHandles == {h1, h2, h3}
MCKinds == {kb}

MCSymmetry == Permutations(MCDatabases) \cup Permutations(MCHandles)

=============================================================================
