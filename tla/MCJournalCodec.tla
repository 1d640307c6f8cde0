--------------------------- MODULE MCJournalCodec ---------------------------
(***************************************************************************)
(* Instances of JournalCodec for TLC.                                      *)
(***************************************************************************)
EXTENDS JournalCodec, TLC

CONSTANTS v1, v2

\* Page contents are only compared for equality.
Symmetry == Permutations({v1, v2})
=============================================================================
