---------------------------- MODULE MCMigrations ----------------------------
(* The base, the head, and revisions on either side of the early COMMITs,  *)
(* of the row-level policies (0024) and of the person columns (0028).      *)
EXTENDS Migrations

MCGoals == {0, 5, 10, 17, 27, 41, 42, 52}

=============================================================================
