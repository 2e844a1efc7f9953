------------------------------- MODULE MCGateway -------------------------------
(* Bounded instances of Gateway: two connections share a session ID, a third has *)
(* its own; two requests name the shared ID, and one the other.                  *)
EXTENDS Gateway, TLC

CONSTANTS c1, c2, c3, s1, s2, r1, r2, r3

SharedSid == [c \in Conns |-> IF c \in {c1, c2} THEN s1 ELSE s2]
OwnSid    == [c \in Conns |-> IF c = c1 THEN s1 ELSE s2]
Named     == [r \in Requests |-> IF r \in {r1, r2} THEN s1 ELSE s2]

Symm == Permutations({c1, c2} \cap Conns) \cup Permutations({r1, r2} \cap Requests)
================================================================================
