--------------------------- MODULE MCCipherConfig ---------------------------
(***************************************************************************)
(* Instances of CipherConfig for TLC: cipher 1 is ChaCha20, cipher 2 is    *)
(* SQLCipher with some of its parameters.                                  *)
(***************************************************************************)
EXTENDS CipherConfig

SomeParams == <<{}, {"legacy", "hmac_use", "plaintext_header_size"}>>

\* Values that survive a key operation, one that checkParameterValue refuses,
\* and one that is out of range.
SomeInputs == {<<0, "cipher", 2>>, <<0, "hmac_check", 0>>, <<2, "legacy", 1>>,
               <<2, "plaintext_header_size", 24>>,
               <<2, "plaintext_header_size", 101>>}

\* A header size that SQLCipher cannot work with.
HeaderInputs == {<<0, "cipher", 2>>, <<2, "plaintext_header_size", 24>>}

\* URIs: with nothing; with a key; with a cipher and such a header size; with
\* an unknown cipher and a key.
NoParam    == [p \in {} |-> 0]
Bare       == [cipher |-> Absent, hmac_check |-> 1, mc_legacy_wal |-> -1,
               key |-> FALSE, param |-> NoParam]
KeyUri     == [Bare EXCEPT !.key = TRUE]
HeaderUri  == [Bare EXCEPT !.cipher = 2, !.key = TRUE, !.hmac_check = 0,
                           !.mc_legacy_wal = 1,
                           !.param = [plaintext_header_size |-> 24]]
UnknownUri == [KeyUri EXCEPT !.cipher = Unknown]

BareUris  == {Bare}
KeyedUris == {Bare, KeyUri}
SomeUris  == {Bare, HeaderUri, UnknownUri}
=============================================================================
