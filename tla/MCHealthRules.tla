--------------------------- MODULE MCHealthRules ---------------------------
(* Small instances of HealthRules for TLC. *)
EXTENDS HealthRules, TLC

TableSymmetry == Permutations(Tables)

(* Every setting at its default, just past its bound, and at it.           *)
MCSettings ==
    {[shared_buffers |-> b, work_mem |-> w, autovacuum_vacuum_scale_factor |-> a,
      random_page_cost |-> r, log_min_duration_statement |-> l] :
        b \in {2048, 16383, 16384}, w \in {4096, 4097}, a \in {10, 20},
        r \in {150, 400}, l \in {-1, 0}}
=============================================================================
