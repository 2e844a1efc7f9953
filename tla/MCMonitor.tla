------------------------------- MODULE MCMonitor -------------------------------
(* Bounded instances of Monitor.                                                 *)
EXTENDS Monitor, TLC

CONSTANTS a, b

Symm == Permutations(Chats)
================================================================================
