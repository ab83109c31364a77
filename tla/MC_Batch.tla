----------------------------- MODULE MC_Batch -----------------------------
(***************************************************************************)
(* Model-checking instance of Batch: scripts of up to three tokens, enough *)
(* for two statements with a comment or an empty statement between or     *)
(* after them.                                                             *)
(***************************************************************************)
EXTENDS Batch, TLC

MCMaxScript == 3

=============================================================================
