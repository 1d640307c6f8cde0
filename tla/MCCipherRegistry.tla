-------------------------- MODULE MCCipherRegistry --------------------------
(***************************************************************************)
(* Instances of CipherRegistry for TLC.                                    *)
(***************************************************************************)
EXTENDS CipherRegistry

CONSTANTS t1, t2, t3

OneBuiltin  == <<"chacha20">>
TwoBuiltins == <<"aes128cbc", "chacha20">>
=============================================================================
