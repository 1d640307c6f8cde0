------------------------------ MODULE MCRekey ------------------------------
(***************************************************************************)
(* Instances of Rekey for TLC.                                             *)
(***************************************************************************)
EXTENDS Rekey, TLC

CONSTANTS k1, k2, v1, v2

\* Keys and page contents are only compared for equality.
Symmetry == Permutations({k1, k2}) \cup Permutations({v1, v2})
=============================================================================
