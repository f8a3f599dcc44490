--------------------------- MODULE MCTaskExecutor ---------------------------
(* A small instance of TaskExecutor for TLC. *)
EXTENDS TaskExecutor

CONSTANTS w1, w2, c1, t1, t2
=============================================================================
