------------------------------- MODULE MCTokens -------------------------------
(* A login, of any kind, and two callers of the credential that comes of it. *)
EXTENDS Tokens

CONSTANTS d, c1, c2
=============================================================================
