----------------------------- MODULE MC_Inserter -----------------------------
EXTENDS Inserter, TLC

\* Positive rowids only, so that what a run shows is the stale rowid and not
\* the rejection of rowid 0; three of them so that the table fills up.
MCMinRowid == 1
MCMaxRowid == 3

=============================================================================
