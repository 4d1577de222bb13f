---------------------------- MODULE MCFullAudit ----------------------------
(* Small instances of FullAudit for TLC. *)
EXTENDS FullAudit, TLC

CONSTANTS q1, q2, c1, c2, c3, r1, u1, p1, p2, p3, db1, db2, lower, upper, junk

(* p1 and p3 audit the same database, p2 another one. *)
MCDatabaseOf == (p1 :> db1) @@ (p2 :> db2)

MCDatabaseOf3 == (p1 :> db1) @@ (p2 :> db2) @@ (p3 :> db1)

(* Two spellings of one UUID, and one that is no UUID. *)
MCIdOf == (lower :> r1) @@ (upper :> r1) @@ (junk :> InvalidId)

MCIdOfValid == lower :> r1

(* No client omits the run ID, or the one of c1 may. *)
MCAlwaysNamed == [c \in {} |-> r1]

MCFresh == c1 :> u1

CallSymmetry == Permutations(Creators)
=============================================================================
