------------------------------ MODULE MCKeyring ------------------------------
(* Keyring with secrets of several sizes: of one entry, of two chunks (two of *)
(* them) and of three.                                                        *)
EXTENDS Keyring, TLC

CONSTANTS short, long, longer, other

MCSecrets == {short, long, longer, other}
MCSize == (short :> 0) @@ (long :> 2) @@ (other :> 2) @@ (longer :> 3)
=============================================================================
