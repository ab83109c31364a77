--------------------------- MODULE MC_Transaction ---------------------------
(***************************************************************************)
(* Model-checking instance of Transaction: three guards on one database,   *)
(* enough for a guard nested in another and a third one begun after the    *)
(* first transaction ended (by the guard or by the engine).                *)
(***************************************************************************)
EXTENDS Transaction, TLC

CONSTANTS g1, g2, g3

MCGuards == {g1, g2, g3}

\* Guards are interchangeable.
MCSymmetry == Permutations(MCGuards)

=============================================================================
