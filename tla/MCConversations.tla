------------------------------ MODULE MCConversations ------------------------------
(* Bounded instances of Conversations: two chats under a search bar.            *)
EXTENDS Conversations, TLC

CONSTANTS ann, bob

\* The lines above and under the search bar and under the rows.
MCLines == {0, 60, 120, 180}

MCFeatures == {[text |-> TRUE, avatar |-> TRUE], [text |-> FALSE, avatar |-> TRUE]}
================================================================================
