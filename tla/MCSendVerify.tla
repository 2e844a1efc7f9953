------------------------------ MODULE MCSendVerify ------------------------------
(* A bounded instance of SendVerify: two workers, two tasks and two keys, so that *)
(* runs meet on a task, on a key, on both and on neither.                         *)
EXTENDS SendVerify

CONSTANTS w1, w2, t1, t2, k1, k2
================================================================================
