---------------------------- MODULE MCPgSession ----------------------------
(* Small instances of PgSession for TLC. *)
EXTENDS PgSession, TLC

TaskSymmetry == Permutations(Tasks)

LoadOf(overlap, cancel, drop) ==
    [overlap |-> overlap, cancel |-> cancel, drop |-> drop]

(* Calls one after the other, at the same time, and cancelled. *)
MCSerial == LoadOf(FALSE, FALSE, TRUE)
MCLoads == {MCSerial, LoadOf(TRUE, FALSE, TRUE), LoadOf(FALSE, TRUE, TRUE),
            LoadOf(TRUE, TRUE, FALSE)}

MCStill == {LoadOf(FALSE, FALSE, FALSE)}
MCOverlapping == {LoadOf(TRUE, FALSE, FALSE)}
MCCancelling == {LoadOf(FALSE, TRUE, FALSE)}
=============================================================================
