----------------------------- MODULE MCPoolBoard -----------------------------
(* The pool and the board it implements, with the transactions of MCPool.   *)
EXTENDS PoolBoard, MCPool
=============================================================================
