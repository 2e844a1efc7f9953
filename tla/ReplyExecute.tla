------------------------------ MODULE ReplyExecute ------------------------------
(* The agent in WebSocket worker mode: main() and handleReplyExecute of           *)
(* cmd/agent/main.go, over the client of internal/agent/comm/client.go and the    *)
(* idempotency store.  The gateway puts commands on the socket; one goroutine     *)
(* (readLoop) takes them off one at a time and runs the handler to the end before *)
(* it reads again.  The handler goes through its stages, each announced by a      *)
(* task.progress event, and ends with task.completed, task.failed or silence.     *)
(* The chat adapter answers every call, but any answer it can give is possible:   *)
(* a send may fail before Enter is pressed, after it, or succeed.  The socket may *)
(* break at any moment and the process may stop at any moment, which loses        *)
(* everything the process holds, the idempotency store included.                  *)
EXTENDS Naturals, Sequences, FiniteSets

CONSTANTS
    Tasks,          \* identifiers of reply tasks
    Malformed,      \* the tasks whose payload does not decode
    Others,         \* messages that are not reply tasks: other commands, unreadable ones
    NoTask,         \* "no task"
    Chats,          \* conversations (payload.ConversationID)
    ChatOf,         \* the conversation a task replies in
    MaxReplies,     \* replies a session keeps (50 in the code)
    MaxDeliveries,  \* bound: commands the gateway ever puts on the socket
    MaxStarts       \* bound: starts of the agent process

ASSUME ReplyExecuteAssumption ==
    /\ Malformed \subseteq Tasks
    /\ Others \cap Tasks = {}
    /\ NoTask \notin Tasks \cup Others
    /\ ChatOf \in [Tasks -> Chats]
    /\ MaxReplies \in Nat \ {0}
    /\ MaxDeliveries \in Nat
    /\ MaxStarts \in Nat

VARIABLES
    proc,       \* the agent process: "down" or "up"
    conn,       \* the client's conn: "nil", "open", or "broken" (set, but the peer is gone)
    loop,       \* the readLoop goroutine: "off", "reading", "handling", "exited"
    wire,       \* messages on the socket not read yet
    stage,      \* where the handler is
    cur,        \* env.TaskID of the command being handled, or NoTask
    pressed,    \* has Enter been pressed for this command
    seen,       \* progress events of this command that reached the gateway
    records,    \* idempStore
    history,    \* per conversation, the task IDs of its session's ReplyHistory
    enters,     \* per task, how often Enter was pressed in the chat window (external)
    log,        \* the finished attempts, in order (observer)
    delivered,  \* commands put on the socket so far
    starts      \* starts of the process so far

vars == <<proc, conn, loop, wire, stage, cur, pressed, seen, records,
          history, enters, log, delivered, starts>>

agentVars == <<stage, cur, pressed, seen>>
keptVars  == <<proc, conn, wire, delivered, starts>>

--------------------------------------------------------------------------------

Stages == {"idle", "admit", "detecting", "scanning", "finding", "focusing",
           "sending", "entered", "verifying", "finishing"}

Codes == {"NO_INSTANCE", "SCAN_FAILED", "CONV_NOT_FOUND", "FOCUS_FAILED", "SEND_FAILED"}

\* The store as main.go uses it: the record it creates carries no dedupe key.
NoKey == ""
Store == INSTANCE IdempotencyStore WITH
            TaskIDs <- Tasks, DedupeKeys <- {NoKey}, Statuses <- {"completed"}

CompletedRecord(t) == [TaskID |-> t, DedupeKey |-> NoKey, Status |-> "completed"]

\* One line of the observer's log.  reached: the final event got to the gateway.
Entry == [task : Tasks,
          event : {"completed", "failed", "skipped", "dropped", "died"},
          code : Codes \cup {"none"},
          pressed : BOOLEAN, reached : BOOLEAN, seen : 0..6, life : 1..MaxStarts]

\* client.Send gets an event through only while the connection is up; its error
\* is logged and ignored by every caller.
Reaches == conn = "open"

Announce == seen' = IF Reaches THEN seen + 1 ELSE seen

--------------------------------------------------------------------------------
(* The process and its connection.                                               *)

Init ==
    /\ proc = "down" /\ conn = "nil" /\ loop = "off"
    /\ wire = <<>>
    /\ stage = "idle" /\ cur = NoTask /\ pressed = FALSE
    /\ seen = 0
    /\ records = {}
    /\ history = [c \in Chats |-> <<>>]
    /\ enters = [t \in Tasks |-> 0]
    /\ log = <<>>
    /\ delivered = 0 /\ starts = 0

\* main() builds empty stores, registers the handlers and connects; Connect starts
\* the read loop.  A refused connection ends the process (log.Fatalf): no step.
Start ==
    /\ proc = "down" /\ starts < MaxStarts
    /\ starts' = starts + 1
    /\ proc' = "up" /\ conn' = "open" /\ loop' = "reading"
    /\ UNCHANGED <<wire, records, history, enters, log, delivered, agentVars>>

\* Signal (ctx is cancelled, the client closed, main returns without waiting for
\* the handler) or crash: everything in memory is gone.
Stop ==
    /\ proc = "up"
    /\ proc' = "down" /\ conn' = "nil" /\ loop' = "off" /\ wire' = <<>>
    /\ stage' = "idle" /\ cur' = NoTask /\ pressed' = FALSE
    /\ seen' = 0
    /\ records' = {}
    /\ history' = [c \in Chats |-> <<>>]
    /\ log' = IF cur = NoTask
              THEN log
              ELSE Append(log, [task |-> cur, event |-> "died", code |-> "none",
                                pressed |-> pressed, reached |-> FALSE,
                                seen |-> seen, life |-> starts])
    /\ UNCHANGED <<enters, delivered, starts>>

\* The gateway writes a message to the socket (external).  Nothing stops it from
\* sending the same reply task again: that is what the store is for.
Deliver(m) ==
    /\ conn = "open" /\ delivered < MaxDeliveries
    /\ wire' = Append(wire, m)
    /\ delivered' = delivered + 1
    /\ UNCHANGED <<proc, conn, loop, records, history, enters, log, starts, agentVars>>

\* The socket breaks; what the agent had not received yet is lost.
Break ==
    /\ conn = "open"
    /\ conn' = "broken"
    /\ \E n \in 0..Len(wire) : wire' = SubSeq(wire, 1, n)
    /\ UNCHANGED <<proc, loop, records, history, enters, log, delivered, starts, agentVars>>

\* Slip: on a read error the loop dials again and goes on.
ReadErrorRedials ==
    /\ loop = "reading" /\ conn = "broken" /\ wire = <<>>
    /\ conn' = "open"
    /\ UNCHANGED <<proc, loop, wire, records, history, enters, log, delivered, starts,
                   agentVars>>

\* ReadMessage fails: readLoop logs and returns.  Nothing starts it again.
ReadError ==
    /\ loop = "reading" /\ conn = "broken" /\ wire = <<>>
    /\ loop' = "exited"
    /\ UNCHANGED <<keptVars, records, history, enters, log, agentVars>>

\* ReadMessage returns something else.  conversation.mode.set and diagnostic.capture
\* answer with one task.progress and store nothing; a message without a handler,
\* or one that does not parse, is logged; the loop reads on.
ReadOther ==
    /\ loop = "reading" /\ wire # <<>> /\ Head(wire) \in Others
    /\ wire' = Tail(wire)
    /\ UNCHANGED <<proc, conn, loop, records, history, enters, log, delivered, starts,
                   agentVars>>

\* ReadMessage returns a reply.execute command; the handler runs inside the loop.
ReadCommand ==
    /\ loop = "reading" /\ wire # <<>> /\ Head(wire) \in Tasks
    /\ loop' = "handling" /\ stage' = "admit"
    /\ cur' = Head(wire) /\ wire' = Tail(wire)
    /\ UNCHANGED <<proc, conn, pressed, seen, records, history, enters, log,
                   delivered, starts>>

--------------------------------------------------------------------------------
(* handleReplyExecute.                                                           *)

\* The handler returns to the loop.  Its last event, if it sends one, is logged.
Return(event, code, reached) ==
    /\ log' = Append(log, [task |-> cur, event |-> event, code |-> code,
                           pressed |-> pressed, reached |-> reached,
                           seen |-> seen', life |-> starts])
    /\ loop' = "reading" /\ stage' = "idle" /\ cur' = NoTask
    /\ pressed' = FALSE

\* A stage succeeded: the next one is up.
Continue(next) ==
    /\ stage' = next
    /\ UNCHANGED <<loop, cur, pressed, log>>

\* Slip: the progress of the last command is carried over.
AdmitKeepsProgress ==
    /\ stage = "admit"
    /\ seen' = seen
    /\ IF Store!HasRecord(records, cur) \/ cur \in Malformed
       THEN Return("skipped", "none", FALSE)
       ELSE Continue("detecting")
    /\ UNCHANGED <<keptVars, records, history, enters>>

\* Slip: the record is made when the command is accepted.
AdmitRecordsFirst ==
    /\ stage = "admit"
    /\ seen' = 0
    /\ IF Store!HasRecord(records, cur) \/ cur \in Malformed
       THEN Return("skipped", "none", FALSE) /\ UNCHANGED records
       ELSE /\ Continue("detecting")
            /\ records' = Store!CreateRecord(records, CompletedRecord(cur))
    /\ UNCHANGED <<keptVars, history, enters>>

\* Slip: nobody asks the store.
AdmitUnchecked ==
    /\ stage = "admit"
    /\ seen' = 0
    /\ IF cur \in Malformed
       THEN Return("dropped", "none", FALSE)
       ELSE Continue("detecting")
    /\ UNCHANGED <<keptVars, records, history, enters>>

\* Slip: a payload that does not decode ends the read loop.
AdmitEndsLoop ==
    /\ stage = "admit"
    /\ seen' = 0
    /\ IF Store!HasRecord(records, cur) \/ cur \in Malformed
       THEN /\ loop' = "exited" /\ stage' = "idle" /\ cur' = NoTask
            /\ UNCHANGED <<pressed, log>>
       ELSE Continue("detecting")
    /\ UNCHANGED <<keptVars, records, history, enters>>

\* The idempotency check, then the decoding of the payload.
Admit ==
    /\ stage = "admit"
    /\ \/ /\ Store!HasRecord(records, cur)
          /\ seen' = 0
          /\ Return("skipped", "none", FALSE)
       \/ /\ ~Store!HasRecord(records, cur)
          /\ cur \in Malformed
          /\ seen' = 0
          /\ Return("dropped", "none", FALSE)
       \/ /\ ~Store!HasRecord(records, cur)
          /\ cur \notin Malformed
          /\ seen' = 0
          /\ Continue("detecting")
    /\ UNCHANGED <<keptVars, records, history, enters>>

\* A stage that only asks the adapter: announce it, call it, go on or report code.
AdapterStage(here, next, code) ==
    /\ stage = here
    /\ Announce
    /\ \/ Continue(next)
       \/ Return("failed", code, Reaches)
    /\ UNCHANGED <<keptVars, records, history, enters>>

Detect == AdapterStage("detecting", "scanning", "NO_INSTANCE")
Scan   == AdapterStage("scanning", "finding", "SCAN_FAILED")
\* Slip: the stage is not announced.
FindUnannounced ==
    /\ stage = "finding"
    /\ UNCHANGED seen
    /\ \/ Continue("focusing")
       \/ Return("failed", "CONV_NOT_FOUND", Reaches)
    /\ UNCHANGED <<keptVars, records, history, enters>>

\* Finding the conversation also stores its reference in the session manager.
Find   == AdapterStage("finding", "focusing", "CONV_NOT_FOUND")
Focus  == AdapterStage("focusing", "sending", "FOCUS_FAILED")

\* Slip: the result of Send is not looked at.
SendUnchecked ==
    /\ stage = "sending"
    /\ Announce
    /\ \/ /\ enters' = [enters EXCEPT ![cur] = @ + 1]
          /\ pressed' = TRUE
          /\ stage' = "entered"
          /\ UNCHANGED <<loop, cur, log>>
       \/ /\ Continue("verifying")
          /\ UNCHANGED enters
    /\ UNCHANGED <<keptVars, records, history>>

\* Inside chatAdapter.Send: Enter goes to the chat window, or Send fails before.
Send ==
    /\ stage = "sending"
    /\ Announce
    /\ \/ /\ enters' = [enters EXCEPT ![cur] = @ + 1]
          /\ pressed' = TRUE
          /\ stage' = "entered"
          /\ UNCHANGED <<loop, cur, log>>
       \/ /\ Return("failed", "SEND_FAILED", Reaches)
          /\ UNCHANGED enters
    /\ UNCHANGED <<keptVars, records, history>>

\* Send returns after Enter: success, or a failed delivery assessment.
SendReturn ==
    /\ stage = "entered"
    /\ UNCHANGED seen
    /\ \/ Continue("verifying")
       \/ Return("failed", "SEND_FAILED", Reaches)
    /\ UNCHANGED <<keptVars, records, history, enters>>

\* Whatever Verify answers, the handler goes on: the answer only decides which
\* delivery state task.completed carries.
Verify ==
    /\ stage = "verifying"
    /\ Announce
    /\ Continue("finishing")
    /\ UNCHANGED <<keptVars, records, history, enters>>

\* Slip: the history drops its newest entry, not its oldest, to keep to its limit.
AddReplyDropsNewest(h, t) ==
    LET g == Append(h, t)
    IN  IF Len(g) > MaxReplies THEN SubSeq(g, 1, MaxReplies) ELSE g

\* AddReply: past its limit the history drops its oldest entry.
AddReply(h, t) ==
    LET g == Append(h, t)
    IN  IF Len(g) > MaxReplies THEN Tail(g) ELSE g

\* AddReply in the conversation's session (Find has made it, so there is one),
\* CreateRecord (its error is ignored), task.completed.
Finish ==
    /\ stage = "finishing"
    /\ UNCHANGED seen
    /\ history' = [history EXCEPT ![ChatOf[cur]] = AddReply(@, cur)]
    /\ records' = Store!CreateRecord(records, CompletedRecord(cur))
    /\ Return("completed", "none", Reaches)
    /\ UNCHANGED <<keptVars, enters>>

Handler ==
    \/ Admit \/ Detect \/ Scan \/ Find \/ Focus
    \/ Send \/ SendReturn \/ Verify \/ Finish

--------------------------------------------------------------------------------

Environment == Start \/ Stop \/ Break \/ \E m \in Tasks \cup Others : Deliver(m)

Next == Environment \/ ReadError \/ ReadOther \/ ReadCommand \/ Handler

Spec == Init /\ [][Next]_vars

\* The adapter's calls return and the loop's goroutine is scheduled; nobody
\* promises to start the process, to keep the socket up or to send a command.
Fairness ==
    /\ WF_vars(ReadError) /\ WF_vars(ReadOther)
    /\ WF_vars(ReadCommand) /\ WF_vars(Handler)

FairSpec == Spec /\ Fairness

--------------------------------------------------------------------------------
(* Properties.                                                                   *)

\* Every variable keeps to its range.
TypeOK ==
    /\ proc \in {"down", "up"}
    /\ conn \in {"nil", "open", "broken"}
    /\ loop \in {"off", "reading", "handling", "exited"}
    /\ wire \in Seq(Tasks \cup Others)
    /\ stage \in Stages
    /\ cur \in Tasks \cup {NoTask}
    /\ pressed \in BOOLEAN
    /\ seen \in 0..6
    /\ records \subseteq Store!Record
    /\ history \in [Chats -> Seq(Tasks)]
    /\ enters \in [Tasks -> Nat]
    /\ log \in Seq(Entry)
    /\ delivered \in 0..MaxDeliveries
    /\ starts \in 0..MaxStarts

\* What the log and the attempt under way say about presses of Enter for t, and the
\* completed attempts of the process that is running, for t and in conversation c.
LoggedPresses(t) == {i \in DOMAIN log : log[i].task = t /\ log[i].pressed}
PressNow(t) == IF cur = t /\ pressed THEN 1 ELSE 0

CompletedThisLife(t) ==
    {i \in DOMAIN log : /\ proc = "up" /\ log[i].life = starts
                        /\ log[i].task = t /\ log[i].event = "completed"}

CompletedIn(c) ==
    {i \in DOMAIN log : /\ proc = "up" /\ log[i].life = starts
                        /\ ChatOf[log[i].task] = c /\ log[i].event = "completed"}

\* The same from the j-th line of the log on.
CompletedSince(c, j) == {i \in CompletedIn(c) : j <= i}

\* The history of c holds the newest completed attempts, as many as there are up to
\* its limit, in their order: its i-th entry is the attempt from which on as many were
\* completed as there are entries from the i-th on.
HoldsTheNewest(c) ==
    /\ Len(history[c]) = IF Cardinality(CompletedIn(c)) < MaxReplies
                         THEN Cardinality(CompletedIn(c)) ELSE MaxReplies
    /\ \A i \in DOMAIN history[c] : \E j \in CompletedIn(c) :
          /\ log[j].task = history[c][i]
          /\ Cardinality(CompletedSince(c, j)) = Len(history[c]) - i + 1

\* Each time Enter was pressed is the work of exactly one attempt.
PressesAreLogged ==
    \A t \in Tasks : enters[t] = Cardinality(LoggedPresses(t)) + PressNow(t)

\* The reply history of a conversation is true to what this process did there (main.go
\* calls AddReply after Send and Verify, and AddReply drops the oldest entry past the
\* limit, manager.go:272-275), and to the chat window: a handler never presses Enter
\* twice, and never records a reply that it did not enter.
HistoryMatchesChat == (\A c \in Chats : HoldsTheNewest(c)) /\ PressesAreLogged

\* The idempotency store never speaks of a task that was not entered: a record
\* means this process completed the task and reported or tried to report so.
RecordsAreEarned ==
    \A r \in records : CompletedThisLife(r.TaskID) # {}

\* What the gateway sees of a task is whole: when task.completed arrives, all six
\* progress events of that attempt arrived before it, though every client.Send
\* error on the way is ignored (the link does not come back within a process).
CompletionSeenWhole ==
    \A i \in DOMAIN log :
        log[i].event = "completed" /\ log[i].reached => log[i].seen = 6

\* The idempotency check works for a task that has a record: Enter is not pressed
\* for it again while the process lives.
RecordedNeverEntered ==
    [][\A t \in Tasks : Store!HasRecord(records, t) => enters'[t] = enters[t]]_vars

\* main.go:291 "mark the task as processed" and the skip at main.go:181 say that a
\* task this process has completed is not run again when it is delivered again.
CompletedNeverEntered ==
    [][\A t \in Tasks : CompletedThisLife(t) # {} => enters'[t] = enters[t]]_vars

\* The handler keeps the promises of ReplyContract.
Verdict(e) ==
    IF e.event # "failed" THEN e.event
    ELSE IF e.code = "SEND_FAILED" THEN "send_failed" ELSE "failed_before_send"

Contract == INSTANCE ReplyContract WITH
    attempt  <- cur,
    settled  <- {r.TaskID : r \in records},
    verdicts <- [i \in DOMAIN log |->
                    [task |-> log[i].task, verdict |-> Verdict(log[i]),
                     pressed |-> log[i].pressed]]

ImplementsContract == Contract!CSpec

\* A command on the socket is read as long as the process lives, however the
\* attempts before it ended: no outcome of the handler wedges the read loop.
CommandsConsumed == (wire # <<>>) ~> (wire = <<>>)
================================================================================
