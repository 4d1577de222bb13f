--------------------------- MODULE MCIndexHealth ---------------------------
(* Small instances of IndexHealth for TLC. *)
EXTENDS IndexHealth, TLC

CONSTANTS u1, i1, i2

PlainSymmetry == Permutations({i1, i2})
=============================================================================
