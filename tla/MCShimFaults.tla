---------------------------- MODULE MCShimFaults ----------------------------
(***************************************************************************)
(* Instances of ShimFaults for TLC.                                        *)
(***************************************************************************)
EXTENDS ShimFaults

CONSTANTS p1, p2, p3, v1, v2
=============================================================================
