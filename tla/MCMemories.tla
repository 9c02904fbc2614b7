----------------------------- MODULE MCMemories -----------------------------
(* Three threads, two documents, the first with a uuid that passes for a   *)
(* year, two places, quantities 0 (deleted) and 1.                         *)
EXTENDS Memories

CONSTANTS t1, t2, t3

MCThreads == {t1, t2, t3}
MCPlaces  == {1, 2}
MCQtys    == {0, 1}
MCDigits  == {1}
=============================================================================
