---------------------------- MODULE MCMainFiles -----------------------------
(***************************************************************************)
(* Instances of MainFiles for TLC.                                         *)
(***************************************************************************)
EXTENDS MainFiles

CONSTANTS t1, t2, c1, c2, n1, n2, k1, k2
=============================================================================
