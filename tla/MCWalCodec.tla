----------------------------- MODULE MCWalCodec -----------------------------
(* Instances of WalCodec for TLC.                                          *)
EXTENDS WalCodec, TLC

CONSTANTS c1, c2, v1, v2, p1, p2, s1, s2

AuthNew    == [auth |-> TRUE, legacy |-> FALSE]
AuthLegacy == [auth |-> TRUE, legacy |-> TRUE]
BareNew    == [auth |-> FALSE, legacy |-> FALSE]
BareLegacy == [auth |-> FALSE, legacy |-> TRUE]

MCConn  == {c1, c2}
MCVals  == {v1, v2}
MCPass  == {p1, p2}
MCSalts == {s1, s2}

MCModes == {AuthNew, BareLegacy}
AuthNewOnly    == {AuthNew}
AuthLegacyOnly == {AuthLegacy}

Symmetry == Permutations(MCConn) \cup Permutations(MCVals)
              \cup Permutations(MCPass) \cup Permutations(MCSalts)
=============================================================================
