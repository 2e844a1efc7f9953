-------------------------------- MODULE Monitor --------------------------------
(* The agent in monitor mode: the polling loop of internal/agent/monitor/service.go *)
(* over the chat adapter (internal/agent/adapter/wechat) and the session manager. *)
(* In each round the loop scans the conversation list, and for every entry with an *)
(* unread dot opens it, reads its messages, keeps those after the read mark, has  *)
(* the remote agent write a reply, focuses the entry again and sends the reply.   *)
(* The chat client is the environment: customers write at any moment, and a chat  *)
(* that gets a message moves to the top of the list.                              *)
(* Only the visual scan marks unread dots, and it names an entry by its rank in a *)
(* score, "conversation_<rank>"; that name is the contact's ID, and the entry's    *)
(* place in the list at the time of the scan is what Focus clicks.                *)
EXTENDS Naturals, Sequences, FiniteSets

CONSTANTS
    Chats,       \* the chats of the client
    NoChat,      \* "no chat"
    View,        \* messages a chat window shows
    ReadLimit,   \* messages Read returns (20 in the code)
    MaxHistory,  \* messages a session keeps (100 in the code)
    MaxReplies,  \* replies a session keeps (50 in the code)
    SureClicks,  \* whether a click on the list always takes effect
    SureEyes,    \* whether the scan sees dots and the selected row where they are, only there
    MaxMessages, \* bound: messages customers write
    MaxRounds,   \* bound: rounds of the loop
    MaxLives     \* bound: starts of the agent process

ASSUME MonitorAssumption ==
    /\ NoChat \notin Chats
    /\ IsFiniteSet(Chats) /\ Chats # {}
    /\ {View, ReadLimit, MaxHistory, MaxReplies} \subseteq Nat \ {0}
    /\ {SureClicks, SureEyes} \subseteq BOOLEAN
    /\ {MaxMessages, MaxRounds} \subseteq Nat /\ MaxLives \in Nat \ {0}

VARIABLES
    list,      \* the conversation list of the client, top first
    chat,      \* per chat, its messages, oldest first
    dot,       \* chats with an unread dot
    open,      \* the chat the client shows, or NoChat
    written,   \* messages customers have written
    pc,        \* where the loop is
    todo,      \* entries of this round still to do, the current one first
    batch,     \* the new messages of the current entry
    session,   \* sessions of the session manager: a session, or <<>> for none
    sends,     \* calls of adapter.Send, in order: what they answer, where they went (observer)
    from,      \* per ID, the chat and the place in it its session begins with (observer)
    lost,      \* IDs whose read mark was out of sight when messages were read (observer)
    rounds,    \* rounds so far
    stopped,   \* ms.ctx is cancelled
    life       \* starts of the process so far

chatVars == <<list, chat, dot, open, written>>
loopVars == <<pc, todo, batch>>
track == <<from, lost>>
vars == <<list, chat, dot, open, written, pc, todo, batch, session,
          sends, from, lost, rounds, stopped, life>>

--------------------------------------------------------------------------------
(* Messages, fingerprints, entries.                                              *)

Customer(k) == <<"customer", k>>
Reply(k)    == <<"reply", k>>
Messages == {Customer(k) : k \in 1..MaxMessages}
              \cup {Reply(k) : k \in 1..(MaxRounds * Cardinality(Chats))}

Last(s) == s[Len(s)]

\* IDs are ranks, and there are as many as the list has places.
Places == 1..Cardinality(Chats)
IDs    == Places

\* Strings the code compares with fingerprints: empty, drawn from the clock, task IDs.
NoFp      == <<0, "empty">>
FreshID   == <<0, "msg">>
TaskID(k) == <<k, "monitor">>

Sessions == INSTANCE ChatSession

Nowhere == <<NoChat, 0>>

\* The last n of a sequence.
Newest(s, n) == SubSeq(s, IF Len(s) > n THEN Len(s) - n + 1 ELSE 1, Len(s))

\* What the window shows of a chat: its newest View messages, each with its place
\* in the node tree.  Read takes them from the top down to its limit; the
\* fingerprint is made of the place and the text.
Shown(c) ==
    LET visible == Newest(chat[c], View)
    IN  [i \in DOMAIN visible |-> <<i, visible[i]>>]

Read(c) == [i \in {j \in DOMAIN Shown(c) : j <= ReadLimit} |-> Shown(c)[i]]

Text(fp) == fp[2]
Texts(fps) == {Text(fps[i]) : i \in DOMAIN fps}

\* A faulty FilterNew, newest message first: the code without its reversal.
FilterNewReversed(fps, mark) ==
    LET hits  == {i \in DOMAIN fps : fps[i] = mark}
        at    == CHOOSE i \in hits : \A j \in hits : j <= i
        n     == Len(fps)
    IN  IF mark = NoFp \/ hits = {} THEN fps
        ELSE [i \in 1..(n - at) |-> fps[n + 1 - i]]

\* filterNewMessages: what comes after the newest message with the marked ID; all of
\* them if there is no mark or it is not in sight.
FilterNew(fps, mark) ==
    LET hits == {i \in DOMAIN fps : fps[i] = mark}
        at   == CHOOSE i \in hits : \A j \in hits : j <= i
    IN  IF mark = NoFp \/ hits = {} THEN fps ELSE SubSeq(fps, at + 1, Len(fps))

\* readNewMessages: if any of them is the last message processed, all are dropped.
NewMessages(s, fps) ==
    LET new == FilterNew(fps, s.lastMessageID) IN
    IF s.lastIncoming # NoFp /\ \E i \in DOMAIN new : new[i] = s.lastIncoming
    THEN <<>>
    ELSE new

--------------------------------------------------------------------------------

Init ==
    /\ list \in {l \in [Places -> Chats] : \A i, j \in Places : i # j => l[i] # l[j]}
    /\ chat = [c \in Chats |-> <<>>]
    /\ dot = {} /\ open = NoChat /\ written = 0
    /\ pc = "idle" /\ todo = <<>> /\ batch = <<>>
    /\ session = [id \in IDs |-> <<>>]
    /\ sends = <<>>
    /\ from = [id \in IDs |-> Nowhere] /\ lost = {}
    /\ rounds = 0 /\ stopped = FALSE /\ life = 1

--------------------------------------------------------------------------------
(* The chat client (external).                                                   *)

\* The list with c moved to its top.
ToTop(c) ==
    LET at == CHOOSE i \in Places : list[i] = c
    IN  [i \in Places |-> IF i = 1 THEN c ELSE IF i <= at THEN list[i - 1] ELSE list[i]]

\* A customer writes; the chat goes to the top of the list, with an unread dot
\* unless it is the one on show (and even then, if the window is not in front).
Write(c) ==
    /\ written < MaxMessages
    /\ written' = written + 1
    /\ chat' = [chat EXCEPT ![c] = Append(@, Customer(written + 1))]
    /\ dot' \in {dot, dot \cup {c}} /\ (open # c => c \in dot')
    /\ list' = ToTop(c)
    /\ UNCHANGED <<open, loopVars, session, sends, track, rounds, stopped, life>>

\* Showing a chat takes its dot away.
Show(c) == open' = c /\ dot' = dot \ {c}

\* adapter.Focus clicks place p of the list.  It may succeed, succeed with a
\* confidence under 0.8, or fail, and in each case the click opens the chat that is at
\* that place now or, unless clicks are sure, has no effect.
Focus(p) ==
    /\ \/ Show(list[p])
       \/ ~SureClicks /\ UNCHANGED <<open, dot>>
    /\ UNCHANGED <<list, chat, written>>

--------------------------------------------------------------------------------
(* One round of the loop.                                                        *)

\* The chats that detectUnreadDot finds a dot at: enough red pixels where one would be.
DotsSeen == IF SureEyes THEN {dot} ELSE SUBSET Chats

\* Those that detectSelectedState takes for the selected one: the rows that are bright.
RowsLit == IF SureEyes THEN {{open} \cap Chats} ELSE SUBSET Chats

\* Score of a list entry in the visual scan; its other terms are the same for all.
Score(c, seen, lit) == (IF c \in lit THEN 10 ELSE 0) + (IF c \in seen THEN 5 ELSE 0)

\* Rankings of the list by score; the sort is not stable.
Rankings(seen, lit) ==
    {r \in [Places -> Places] :
        /\ \A i, j \in Places : i # j => r[i] # r[j]
        /\ \A i, j \in Places :
              Score(list[i], seen, lit) > Score(list[j], seen, lit) => r[i] < r[j]}

\* The ticker has fired.  Scan: the entries with a dot, in the order of their ranks.  A
\* cancelled context does not prevent it: of two ready cases, select takes either.
Scan ==
    /\ pc = "idle" /\ rounds < MaxRounds
    /\ rounds' = rounds + 1
    /\ \E seen \in DotsSeen \ {{}}, lit \in RowsLit : \E r \in Rankings(seen, lit) :
          LET entries == {[id |-> r[p], place |-> p] : p \in {q \in Places : list[q] \in seen}}
          IN  todo' = CHOOSE s \in [1..Cardinality(entries) -> entries] :
                         \A i, j \in DOMAIN s : i < j => s[i].id < s[j].id
    /\ pc' = "opening" /\ batch' = <<>>
    /\ UNCHANGED <<chatVars, session, sends, track, stopped, life>>

Entry == Head(todo)
Current == session[Entry.id]

\* A faulty NextEntry: the round ends with its first entry that does.
NextEntryLast ==
    /\ todo' = <<>>
    /\ pc' = "idle"
    /\ batch' = <<>>

\* The entry is finished; the loop takes the next one or waits for its ticker.
NextEntry ==
    /\ todo' = Tail(todo)
    /\ pc' = IF Len(todo) = 1 THEN "idle" ELSE "opening"
    /\ batch' = <<>>

\* openContact and SetConversationRef.  A focus that fails or is not sure enough is
\* followed by a search for the entry's name, and no chat is called
\* "conversation_<rank>".
OpenContact ==
    /\ pc = "opening"
    /\ Focus(Entry.place)
    /\ \/ /\ pc' = "reading"
          /\ session' = [session EXCEPT ![Entry.id] =
                Sessions!SetConversationRef(IF @ = <<>> THEN Sessions!NewSession ELSE @)]
          /\ UNCHANGED <<todo, batch>>
       \/ /\ NextEntry
          /\ UNCHANGED session
    /\ UNCHANGED <<sends, track, rounds, stopped, life>>

\* The observers of a reading of c that found something under an ID with this mark: the
\* first one begins the session, and a later one loses the thread if the mark is not in
\* sight.
Track(id, mark, c, fps) ==
    IF mark = NoFp
    THEN /\ from' = [from EXCEPT ![id] = <<c, Len(chat[c]) - Len(Shown(c)) + 1>>]
         /\ UNCHANGED lost
    ELSE /\ lost' = IF \E i \in DOMAIN fps : fps[i] = mark THEN lost ELSE lost \cup {id}
         /\ UNCHANGED from

\* readNewMessages.  SetConversationRef has created the session, so the branch for a
\* contact without one, which would set the read mark and return nothing, is never
\* taken.  New messages are added to the session and the last one becomes the mark.
ReadMessages ==
    /\ pc = "reading"
    /\ \/ NextEntry /\ UNCHANGED <<session, track>>
       \/ LET fps == IF open = NoChat THEN <<>> ELSE Read(open)
              new == NewMessages(Current, fps)
              s   == Sessions!MarkAsRead(Sessions!AddMessages(Current, new), Last(new))
          IN  \/ /\ new = <<>>
                 /\ NextEntry
                 /\ UNCHANGED <<session, track>>
              \/ /\ new # <<>>
                 /\ session' = [session EXCEPT ![Entry.id] = s]
                 /\ Track(Entry.id, Current.lastMessageID, open, fps)
                 /\ batch' = new /\ pc' = "asking"
                 /\ UNCHANGED todo
    /\ UNCHANGED <<chatVars, sends, rounds, stopped, life>>

\* A faulty Answers: a request that a stopped service still waits for.
AnswersAnyway == {"error", "empty", "reply"}

\* What GetReply may answer: its request has the context of the service, and fails when
\* that is cancelled.
Answers == IF stopped THEN {"error"} ELSE {"error", "empty", "reply"}

\* callRemoteAgent: an error ends the entry; an empty reply ends it without one.
AskAgent ==
    /\ pc = "asking"
    /\ \/ NextEntry /\ UNCHANGED session
       \/ /\ "empty" \in Answers
          /\ session' = [session EXCEPT ![Entry.id] = Sessions!SetPendingReply(@, FALSE)]
          /\ NextEntry
       \/ /\ "reply" \in Answers
          /\ session' = [session EXCEPT ![Entry.id] = Sessions!SetPendingReply(@, TRUE)]
          /\ pc' = "verifying"
          /\ UNCHANGED <<todo, batch>>
    /\ UNCHANGED <<chatVars, sends, track, rounds, stopped, life>>

\* verifyCurrentChat: Focus again, at the place of the scan; any success will do.
VerifyChat ==
    /\ pc = "verifying"
    /\ Focus(Entry.place)
    /\ \/ pc' = "sending" /\ UNCHANGED <<todo, batch>>
       \/ NextEntry
    /\ UNCHANGED <<session, sends, track, rounds, stopped, life>>

\* adapter.Send types into the chat on show.  It may succeed or fail, and in either
\* case the message may be in the chat or not.
Deliver(ok, landed) ==
    /\ sends' = Append(sends, [id |-> Entry.id, answers |-> batch, into |-> open,
                               ok |-> ok, landed |-> landed, late |-> stopped,
                               life |-> life])
    /\ \/ /\ landed /\ open # NoChat
          /\ chat' = [chat EXCEPT ![open] = Append(@, Reply(Len(sends) + 1))]
          /\ list' = ToTop(open)
       \/ /\ ~landed
          /\ UNCHANGED <<chat, list>>
    /\ UNCHANGED <<dot, open, written, session, track, rounds, stopped, life>>

\* A faulty SendReply, which sends again until a send succeeds.
SendRetries ==
    /\ pc = "sending"
    /\ \E ok, landed \in BOOLEAN :
          /\ Deliver(ok, landed)
          /\ pc' = IF ok THEN "recording" ELSE "sending"
          /\ UNCHANGED <<todo, batch>>

\* A faulty SendReply, which records the reply whatever Send answered.
SendUnchecked ==
    /\ pc = "sending"
    /\ \E ok, landed \in BOOLEAN : Deliver(ok, landed)
    /\ pc' = "recording" /\ UNCHANGED <<todo, batch>>

\* sendReply: a failure ends the entry.
SendReply ==
    /\ pc = "sending"
    /\ \E ok, landed \in BOOLEAN :
          /\ Deliver(ok, landed)
          /\ \/ ok /\ pc' = "recording" /\ UNCHANGED <<todo, batch>>
             \/ ~ok /\ NextEntry

\* updateSessionAfterReply.  A reply of success is recorded only with the confidence of
\* the send, which is above 0.8 when Send succeeds.
RecordReply ==
    /\ pc = "recording"
    /\ session' = [session EXCEPT ![Entry.id] =
          Sessions!ClearPendingReply(Sessions!AddReply(@, TaskID(Len(sends)), TRUE))]
    /\ NextEntry
    /\ UNCHANGED <<chatVars, sends, track, rounds, stopped, life>>

\* Stop cancels the context; it waits five seconds at most for the loop.
Stop ==
    /\ ~stopped /\ stopped' = TRUE
    /\ UNCHANGED <<chatVars, loopVars, session, sends, track, rounds, life>>

\* The loop sees that the context is cancelled.
LoopEnds ==
    /\ pc = "idle" /\ stopped
    /\ pc' = "ended"
    /\ UNCHANGED <<chatVars, todo, batch, session, sends, track, rounds, stopped, life>>

\* The process ends, between two steps or within one, and is started again: main()
\* gives it a session manager whose store is a map in memory.
Restart ==
    /\ life < MaxLives
    /\ life' = life + 1
    /\ pc' = "idle" /\ todo' = <<>> /\ batch' = <<>> /\ stopped' = FALSE
    /\ session' = [id \in IDs |-> <<>>]
    /\ from' = [id \in IDs |-> Nowhere] /\ lost' = {}
    /\ UNCHANGED <<chatVars, sends, rounds>>

--------------------------------------------------------------------------------

Round == OpenContact \/ ReadMessages \/ AskAgent \/ VerifyChat \/ SendReply \/ RecordReply

Next == Scan \/ Round \/ Stop \/ LoopEnds \/ Restart \/ \E c \in Chats : Write(c)

Spec == Init /\ [][Next]_vars

\* The loop's calls return (each has its own time-out) and its goroutine is
\* scheduled; nobody promises that customers write or that the process restarts.
FairSpec == Spec /\ WF_vars(Scan) /\ WF_vars(Round)

--------------------------------------------------------------------------------
(* Properties.                                                                   *)

Fps == {<<i, m>> : i \in 1..View, m \in Messages}

TaskIDs == {TaskID(k) : k \in 1..(MaxRounds * Cardinality(Chats))}

SessionRecords == [
    lastMessageID : Fps \cup {NoFp},
    history       : Seq(Fps),
    unread        : Nat,
    lastIncoming  : Fps \cup {NoFp},
    pending       : BOOLEAN,
    replies       : Seq([taskID : TaskIDs, success : BOOLEAN]),
    lastSent      : TaskIDs \cup {NoFp},
    active        : BOOLEAN]

SessionType(s) ==
    \/ s = <<>>
    \/ s \in SessionRecords /\ Len(s.history) <= MaxHistory /\ Len(s.replies) <= MaxReplies

SendRecords == [
    id : IDs, answers : Seq(Fps), into : Chats \cup {NoChat},
    ok : BOOLEAN, landed : BOOLEAN, late : BOOLEAN, life : 1..MaxLives]

\* Every variable keeps to its range, and no session outgrows its limits.
TypeOK ==
    /\ list \in [Places -> Chats]
    /\ chat \in [Chats -> Seq(Messages)]
    /\ dot \subseteq Chats /\ open \in Chats \cup {NoChat}
    /\ written \in 0..MaxMessages
    /\ pc \in {"idle", "opening", "reading", "asking", "verifying", "sending", "recording",
              "ended"}
    /\ todo \in Seq([id : IDs, place : Places])
    /\ batch \in Seq(Fps)
    /\ DOMAIN session = IDs /\ \A id \in IDs : SessionType(session[id])
    /\ sends \in Seq(SendRecords)
    /\ from \in [IDs -> (Chats \cup {NoChat}) \X Nat] /\ lost \subseteq IDs
    /\ rounds \in 0..MaxRounds /\ life \in 1..MaxLives
    /\ stopped \in BOOLEAN

MessagesOf(c) == {chat[c][i] : i \in DOMAIN chat[c]}

\* A message is answered by at most one reply of a process, under IDs whose read mark was
\* in sight at each reading: the mark keeps a message from being new twice, though sends
\* fail after they landed, the agent's own replies are read as messages, chats change their
\* places and others are read in between (readNewMessages, updateSessionWithMessages).  A
\* message is answered twice only if a mark is out of sight or its chat is read under two
\* IDs.
AnsweredOnce ==
    \A i, j \in DOMAIN sends :
        LET p == sends[i].id
            q == sends[j].id
        IN  /\ i < j /\ sends[i].life = life /\ sends[j].life = life
            /\ {p, q} \cap lost = {}
            /\ p # q => from[p][1] # from[q][1]
            => Texts(sends[i].answers) \cap Texts(sends[j].answers) = {}

\* A session whose read mark was in sight at each reading holds one chat from where it
\* began to the mark, the newest of it, in order and without a gap: the remote agent is
\* never asked to answer a conversation with a hole in it, or one of two customers.
HistoryIsWhole ==
    \A id \in IDs \ lost : session[id] # <<>> =>
        LET h     == [i \in DOMAIN session[id].history |-> Text(session[id].history[i])]
            c     == from[id][1]
            begin == from[id][2]
        IN  IF from[id] = Nowhere THEN h = <<>> /\ session[id].lastMessageID = NoFp
            ELSE \E n \in begin..Len(chat[c]) :
                    /\ Text(session[id].lastMessageID) = chat[c][n]
                    /\ h = Newest(SubSeq(chat[c], begin, n), MaxHistory)

\* The reply history of a session is the sends of this process that succeeded, the
\* newest ones, in order, one entry each, whatever failed between them: the report of a
\* closed loop, which processContactWithResult makes from the session, rests on it.
RepliesAreSends ==
    \A id \in IDs : (session[id] # <<>> /\ pc # "recording") =>
        LET sent    == {i \in DOMAIN sends : sends[i].id = id /\ sends[i].ok /\ sends[i].life = life}
            replies == session[id].replies
        IN  /\ Len(replies) = IF Cardinality(sent) < MaxReplies THEN Cardinality(sent) ELSE MaxReplies
            /\ \A k \in DOMAIN replies : \E i \in sent :
                  /\ replies[k] = [taskID |-> TaskID(i), success |-> TRUE]
                  /\ Cardinality({j \in sent : j > i}) = Len(replies) - k

\* A service that was stopped sends one more reply at most, the one it was about to send:
\* though the round goes on to its end and select may even begin others, the agent is not
\* asked with a cancelled context.
StopQuiets ==
    \A i, j \in DOMAIN sends :
        sends[i].late /\ sends[j].late /\ sends[i].life = sends[j].life => i = j

\* service.go:325 (confirm that the chat is still the contact's): a reply lands in the
\* chat whose messages it answers.
RepliesReachTheirChat ==
    \A i \in DOMAIN sends :
        sends[i].landed => Texts(sends[i].answers) \subseteq MessagesOf(sends[i].into)

\* The entries of the round that wait behind the current one.
Waiting == {todo[i] : i \in DOMAIN todo \ {1}}

\* A round that has begun comes to its end, and until the process ends no entry of it is
\* passed over, whatever failed for the ones before it: each one that waits becomes the
\* current one, and is opened.
RoundsEnd ==
    /\ (pc \notin {"idle", "ended"}) ~> (pc \in {"idle", "ended"})
    /\ [][(Waiting # {} /\ life' = life) =>
              \/ Waiting' = Waiting
              \/ pc' = "opening" /\ Waiting = Waiting' \cup {Entry'}]_vars
================================================================================
