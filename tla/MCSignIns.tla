------------------------------ MODULE MCSignIns ------------------------------
(* SignIns with one sign-in, which a filter or a removal on the main thread   *)
(* and two tasks share, and one direct connection.                            *)
EXTENDS SignIns, TLC

CONSTANTS t1, t2

Symmetry == Permutations({t1, t2})
=============================================================================
