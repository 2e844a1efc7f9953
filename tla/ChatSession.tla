------------------------------ MODULE ChatSession ------------------------------
(* One chat session and the session manager's operations on it                   *)
(* (internal/agent/session/manager.go).  Each operation holds the session's mutex *)
(* from its first field to its last, so it is a function from the session before *)
(* to the session after.  Kept: the fields the agent decides on.  Left out: time *)
(* stamps, names, contents.  A message is its fingerprint; an ID the manager      *)
(* draws itself ("msg_<clock>") is FreshID, equal to no fingerprint.             *)
EXTENDS Naturals, Sequences

CONSTANTS
    NoFp,         \* the empty string, as a fingerprint or message ID
    FreshID,      \* an ID drawn from the clock
    MaxHistory,   \* messages a session keeps (100 in the code)
    MaxReplies    \* replies a session keeps (50 in the code)

\* GetOrCreate: the session of a contact seen for the first time.
NewSession == [
    lastMessageID |-> NoFp,    \* LastMessageID
    history       |-> <<>>,    \* MessageHistory, as fingerprints
    unread        |-> 0,       \* UnreadCount
    lastIncoming  |-> NoFp,    \* LastProcessedIncomingFingerprint
    pending       |-> FALSE,   \* PendingReply is not empty
    replies       |-> <<>>,    \* ReplyHistory, as [taskID, success]
    lastSent      |-> NoFp,    \* LastSentReplyFingerprint
    active        |-> FALSE]   \* IsActive

\* A faulty cap, one entry too late.
CappedLate(s, n) == IF Len(s) > n + 1 THEN Tail(s) ELSE s

\* The histories drop their oldest entry when they have grown past their limit.
Capped(s, n) == IF Len(s) > n THEN Tail(s) ELSE s

Remembers(s, fp) == \E i \in DOMAIN s.history : s.history[i] = fp

\* AddMessage: a fingerprint the history holds is a duplicate and changes nothing.
AddMessage(s, fp, outgoing) ==
    IF Remembers(s, fp) THEN s
    ELSE [s EXCEPT !.history = Capped(Append(@, fp), MaxHistory),
                   !.lastMessageID = FreshID,
                   !.unread = IF outgoing THEN @ ELSE @ + 1,
                   !.lastIncoming = IF outgoing THEN @ ELSE fp]

\* MarkAsRead, with the ID the caller gives.
MarkAsRead(s, id) == [s EXCEPT !.lastMessageID = id, !.unread = 0]

\* AddReply: the pending reply is cleared, whatever came of the reply.
AddReply(s, taskID, success) ==
    [s EXCEPT !.replies = Capped(Append(@, [taskID |-> taskID, success |-> success]), MaxReplies),
              !.pending = FALSE,
              !.lastSent = IF success THEN taskID ELSE @]

SetPendingReply(s, nonEmpty) == [s EXCEPT !.pending = nonEmpty]

ClearPendingReply(s) == [s EXCEPT !.pending = FALSE]

\* SetConversationRef: the reference itself is kept by the caller.
SetConversationRef(s) == [s EXCEPT !.active = TRUE]

\* AddMessage for each of a sequence of incoming messages, in order.
AddMessages(s, fps) ==
    LET after[i \in 0..Len(fps)] ==
            IF i = 0 THEN s ELSE AddMessage(after[i - 1], fps[i], FALSE)
    IN  after[Len(fps)]
================================================================================
