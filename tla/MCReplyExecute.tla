----------------------------- MODULE MCReplyExecute -----------------------------
(* Bounded instances of ReplyExecute: all tasks but the malformed one reply in the *)
(* same conversation.                                                             *)
EXTENDS ReplyExecute, TLC

CONSTANTS c1, c2

MCChatOf == [t \in Tasks |-> IF t \in Malformed THEN c2 ELSE c1]

\* The tasks are interchangeable except that the malformed one is its own value.
Symm == Permutations(Tasks \ Malformed)
================================================================================
