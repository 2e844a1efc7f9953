----------------------------- MODULE MCSessionSaves -----------------------------
(* A bounded instance of SessionSaves: one client (the monitor loop), whose changes *)
(* of one session outrun its savers, and a second contact, whose first save can     *)
(* hold the store's mutex while the savers, or the client under sm.mu, wait for it. *)
EXTENDS SessionSaves

CONSTANTS a, b, k1

MCChanges == [c \in Contacts |-> IF c = a THEN 2 ELSE 0]
MCPending == [c \in Contacts |-> IF c = a THEN 2 ELSE 0]
================================================================================
