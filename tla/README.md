# GroupClaw Desktop: TLA+ models

Formal models of GroupClaw Desktop, a desktop agent that answers customers in a chat client
(WeChat) on behalf of a remote agent.  Each module is translated from the Go source;
`PROJECT.json` ties every definition to the lines it stands for, lists the runs of TLC, the
faulty variants that show the properties can fail, the hazards the properties are for, the
findings, and the theorems TLAPS has checked.

## 1. The system

| component | source | state it keeps | operations | talks to |
|---|---|---|---|---|
| agent, worker mode | `cmd/agent/main.go`, `internal/agent/comm/client.go` | one WebSocket, one read loop, handlers | `reply.execute`, `conv.mode_set`, `diagnostic.capture`; progress, completed and failed events | gateway, chat adapter, idempotency store, session manager |
| agent, monitor mode | `internal/agent/monitor/service.go` | running flag, context, round counter | `Start`, `Stop`, `monitorCycle` and its eight steps | chat adapter, session manager, remote agent |
| idempotency store | `internal/agent/idempotency` | map of records by task, one mutex | create, get, update, check duplicate, list | worker mode, the send-and-verify workflow |
| session manager | `internal/agent/session/manager.go` | map of sessions, a mutex per session, a store (memory or file) | get or create, add message, mark as read, replies, references, saves | both modes |
| chat adapter | `internal/agent/adapter/wechat` | none across calls | `Detect`, `Scan`, `Focus`, `Read`, `Send` (four stages), `Verify`, search fallback | window bridge, rules |
| rules | `wechat/rules.go`, `wechat/verification.go` | none | node paths, positioning, evidence, confidence, delivery state | chat adapter |
| window bridge, vision, OCR, UIA | `internal/agent/windows` | the screen | node enumeration, clicks, input, screenshots, rectangles | the chat client |
| remote agent client | `internal/agent/remote/client.go` | none | `GetReply` | an HTTP endpoint |
| review state | `internal/agent/state/review.go` | maps with mutexes | CRUD | nothing calls it |
| gateway | `internal/gateway` | session registry with a mutex; a goroutine per connection and per HTTP request | `/ws`, `/api/send-reply`, `/health`; routing; events are only logged | agents, HTTP clients |
| protocol | `pkg/protocol` | none | envelopes, payloads, IDs | everything |
| mock chat, bridge-dump, wechat-debug | `internal/mockchat`, `cmd/*` | windows, dumps | used by hand | the bridge |

The agent runs in one of the two modes, never in both.  In **worker mode** the gateway
pushes `reply.execute` commands over a WebSocket; the read loop runs each handler to its end
before it reads on.  In **monitor mode** the agent polls the conversation list itself and
asks a remote agent for replies.  Both end in `adapter.Send`, which presses Enter in
somebody else's window: it cannot be undone, and its success can only be guessed at.

What is hard, component by component (section 4 says which property covers it):

* **Worker mode.** Redelivered commands; a failure reported after Enter was pressed; a crash
  between Enter and the record; a socket that breaks under a running handler while every
  send error is ignored; a read loop that ends for good on its first error.
* **Gateway.** Agents that reconnect under the session ID of a connection that is still
  being served; a session used after the registry's lock is released; HTTP requests that
  write to one WebSocket at once, which its library forbids.
* **Monitor mode.** Every step may fail after the messages were marked as read; the list
  changes order between scan, click and second click; a contact is known by its rank only;
  fingerprints depend on positions; the window is shorter than the chat; the agent reads its
  own replies as messages; a restart forgets everything; `Stop` does not wait for a round
  longer than five seconds.
* **Chat adapter.** Send works on a window it cannot see: it guesses where the input box is,
  pastes once for each guess until the picture changes, and judges by pictures and nodes
  whether the message went out.  Focus has three ways, each with another idea of where the
  rows are, and goes on to the next after it has clicked.  Anything may move in between.
* **Window bridge.** The search for the window with accessible children is recursive over a
  flat listing, while the client builds and drops its accessible objects.
* **Session manager.** A goroutine per save, in any order; one of them without the session's
  mutex; changes that save nothing; bounded histories that deduplication relies on; three
  mutexes that nest.
* **Send-and-verify.** The only code that follows the documented flow of statuses is a
  helper of the integration tests, run by one goroutine.

## 2. Modules

| module | models | uses |
|---|---|---|
| `IdempotencyStore` | the store's methods as operators on a set of records | |
| `ReplyContract` | abstract: what worker mode promises of each attempt | |
| `ReplyExecute` | worker mode: process, connection, read loop, handlers | `IdempotencyStore`, `ReplyContract` |
| `Gateway` | connections, registry, requests, overlapping writes | |
| `ChatSession` | the session manager's operations on one session, as operators | |
| `SessionSaves` | its mutexes and asynchronous saves | |
| `Monitor` | the rounds of the monitor loop and the chat client around it | `ChatSession` |
| `SendVerify` | the send-and-verify workflow, several runs at once | `IdempotencyStore` |
| `Evidence` | the rules: weights, penalties, thresholds, as operators | |
| `SendContract` | abstract: what a call of `adapter.Send` promises | |
| `SendPipeline` | the four stages of `Send`, and `Verify`, over the client's window | `Evidence`, `SendContract` |
| `FocusContract` | abstract: what a call of `adapter.Focus` promises | |
| `Conversations` | `Scan`, the three ways of `Focus`, the search fallback, over a list that moves | `Evidence`, `FocusContract` |
| `WindowSearch` | `EnumerateAccessibleNodes` and its search through child windows | |
| `*_proofs` | theorems about the module of that name | |
| `MC*` | bounded instances for TLC | |

How they compose.  `Monitor` and `ReplyExecute` take a call of the adapter for one or two
steps with any answer it can give.  What those calls do inside is in the other modules, and
the two contracts are the joint: `SendPipeline` implements `SendContract`, which is the send
of `ReplyExecute` (a failure before Enter, or one press and then success or failure), and
`Conversations` implements `FocusContract`, which is the `Focus(p)` of `Monitor` (a failure
without a click, or at most two clicks and success).

**ReplyExecute.** `proc`, `conn`, `loop` and `wire` are the process, the client's
connection, the goroutine of `readLoop` and what is on the socket.  `stage` and `cur` say
where `handleReplyExecute` is and for which task; every return of that function is a
disjunct of an action, `Return` being its end and `Continue` its way on.  `records` is the
store, `history` the session manager's reply history per conversation, of which `AddReply`
keeps the newest, `enters` the chat window: how often Enter was pressed for a task.  `log`
is an observer: one entry per attempt with its last event, whether Enter had been pressed,
whether the gateway got the event, and how many progress events it had got.  `Stop` is a
signal or a crash at any point; main does not wait for the handler, so there is no
difference.  The adapter may answer anything; a send has two steps, because it may fail
before Enter and after it.  `Send` is one step with the progress event before it and the
failed event after it; a connection that breaks between the two is left out, and no property
counts the progress events of a failed attempt.  `ReadOther` is a message that is no reply
task: the commands that only report, and what has no handler or does not parse.

**ReplyContract** says what the attempts of an agent are worth to the gateway, without the
stages, the socket and the store: an attempt presses Enter at most once and only while it
runs; its verdict says honestly whether Enter was pressed (`completed`: yes; `failed` before
the send, skipped, dropped: no; a failed send: unknown); a task that is settled is not
pressed for again.  `ReplyExecute` implements it under the mapping `attempt <- cur`,
`settled <- ` the tasks that have a record, `verdicts <- log`.

**Gateway.** `handler[c]` is the goroutine of `handleWebSocket` for connection `c`, with its
two deferred calls; `registry` is the map of `registry.go`, whose methods are atomic.
`phase[r]` is where `handleSendReply` is for request `r`: the look-up and the write are
separate steps, with nothing held between.  The steps `Fill`, `Check`, `Write` and
`Conclude` model `WriteMessage` of gorilla/websocket 1.5.0 (external): one buffer and one
flag per connection; a second writer overwrites the buffer or trips over the flag, which
panics (net/http recovers: the client gets no answer).  `link` is the network, with a state
for a peer that vanished without a trace, since the code sets no deadline.

**Monitor.** One action per step of `processContact`, each with its error returns: `Scan`,
`OpenContact` (with `SetConversationRef`), `ReadMessages` (with
`updateSessionWithMessages`), `AskAgent`, `VerifyChat`, `SendReply`, `RecordReply`.  The
chat client is the environment: customers write at any moment, a chat that gets a message
(the agent's own replies included) moves to the top, unread dots come and go.  An entry of a
round is `[id, place]`: the rank that the scan turns into the contact's name and ID, and the
place in the list that `Focus` clicks, whatever is there by then.  A fingerprint is
`<<place, text>>`, a session is the record of `ChatSession`.  With `SureClicks = FALSE` a
click may also do nothing while `Focus` answers success; with `SureEyes = FALSE` the scan
sees dots and the selected row where there are none, or misses them.  `Stop` cancels the
context at any moment.  The loop notices only between rounds, and its `select` may take the
ticker even then; what stops the replies is that the agent's HTTP request carries the
cancelled context (`Answers`). `sends`, `from` and `lost` are observers: what was sent,
which chat and which place in it the session of an ID begins with, and the IDs whose read
mark was out of sight when messages were read; the code then takes everything on show for
new.  Two things are coarser than the code. A `Focus(p)` is one click or none, where
`adapter.Focus` may click twice and open another row; that it may do no more is
`FocusContract`.  And no two messages have the same text: equal texts at equal places of the
window, which share a fingerprint, are left out.

**SessionSaves.** The same manager seen from its mutexes: `session` is what is in memory,
reduced to three fields, the history and the mark, which a saved change writes one after the
other under `Mu`, and the pending reply, which `SetPendingReply` and `ClearPendingReply`
write without a save.  A client's call looks the session up under `sm.mu` (`mgr`) and then
changes it; `GetOrCreate` keeps `sm.mu` while `Load` waits for the store's mutex.  `due` are
the goroutines started to save: each takes `Mu`, under it `sm.mu` for a moment, under it the
store's mutex (`BeginSave`, `EnterMap`, `EndSave`).  `fresh` is the one `GetOrCreate`
starts, which takes the store's mutex only and copies the fields one by one.

**SendVerify.** `at[w]` is the next call worker `w` makes in `RunSendVerifyWorkflow`;
`records` is the store; `sends` observes the calls of `adapter.Send`.  The helper is run by
one goroutine of a test.  That several workers run it, run it again for a task or a key, and
that a run may stop anywhere is the model's: it asks what the store's operations, each
atomic under its mutex, guarantee a program that follows this flow.

**Evidence.** The weights and thresholds of `rules.go` as exact fractions, and differences
of pictures in thousandths.  Go computes with `float64`; for the sums the program can reach
the verdicts are the same.

**SendPipeline.** `pc` is the next step of the call; a step is one call of the bridge with
what the code makes of its answer.  Clicks and keys are only queued: `input` holds the keys
that the client has not taken, and `TakePaste` reads the clipboard when it does, which may
be after another program's copy, or after the call that pressed the key.  `box` is a
sequence of halves of texts: a click at the left quarter of the rectangle may set the caret
anywhere in what is there, so a paste goes in at any point, between the halves of a text
too.  `caret` says whether the candidate clicked last lies over the box, `own` and `others`
count the messages in the chat, and `setup` says whether the client sends on Enter (else it
ignores the key) and whether it exposes message nodes.  Candidates are numbers in the order
of detection; `over` are those that lie over the input box, which the program cannot know.
A picture is the box and the length of the chat, `Blank` for a hidden window, or none.
`left`, `late`, `tried`, `copied` and `presses` are observers.  Messages and copies of other
programs come between any two steps; other programs copy texts and never empty the
clipboard.  A `SendKeys` that fails has pressed nothing: it returns its error before the
first key event.

**Conversations.** `step` is the next step of a `Focus`; `held` the reference the caller
keeps from a `Scan`, with its position and the chat it stands for (observer).  The client is
`list`, `open` and `origin`, where its window begins on the screen.  Rows are intervals of
pixels: those a detection may find from the `Lines` it may see, or rows of 60.  What
`detectAvatarRegion` and `detectTextRegion` see in a row, and each of the four signals after
a click, is a choice, except that two pictures of the same window pass no signal but one.

**WindowSearch.** `frame[d]` is the call of `tryChildWindowsRecursive` at depth `d`: the
window whose children it goes through, the next of them, and the best so far; `held` is the
object the last `GetAccessible` gave, which asks a window for all its identifiers in one
step: a choice made of answers from before and after a change of the client is left out.
`last` is the tree of windows, numbered as EnumChildWindows lists them: the windows below
`w` are those after it up to `last[w]`.  `acc` is what each window answers, which the client
may change during the search.

Not modelled, and why, is in section 8.

## 3. Runs, bounds and what they show

| run | instance | states | shows |
|---|---|---|---|
| `reply_execute` | 2 good tasks (symmetric), 1 malformed, 1 other command, 3 deliveries, 2 starts | 1.2 M | the six safety properties and the refinement |
| `reply_execute_live` | 1 good task, 1 malformed, 1 other command, 3 deliveries, 1 start | 30 k | liveness |
| `reply_execute_redelivery` | 2 tasks, 3 deliveries | stops | finding: a completed task is entered again |
| `gateway` | 3 connections (2 share an ID), 2 requests | 287 k | registry, routing, answers, liveness |
| `monitor` | 2 chats, 2 messages, 4 rounds, 2 processes, clicks unsure; 4 messages in the window, 3 in a read | 497 k | no double answers and no holes while the mark is in sight, quiet after `Stop` |
| `monitor_two` | 2 chats, 1 message, 2 rounds, 2 processes, clicks and eyes unsure | 1.0 M | reply history; every entry of a round is taken, liveness |
| `monitor_wrong_chat` | 2 chats, clicks sure | stops | finding: reply in another customer's chat |
| `send_verify` | 2 workers, 2 tasks, 2 keys | 15 k | one send per key, truthful statuses that never go back, liveness |
| `session_saves` | 2 contacts, 1 client, 2 saved changes and 2 others of one contact | 89 k | the store catches up with what is saved, never goes back; liveness over three mutexes |
| `send_pipeline` | 2 calls, 2 candidates, 1 message, 1 copy, 4 setups of the client | 918 k | what Enter sends, what reason codes and verdicts mean, the refinement |
| `conversations` | 2 chats, 4 lines, 3 calls, 1 event, the window at the top of the screen or a row below | 857 k | where a Focus ends, what vision believes, the refinement |
| `window_search` | 4 windows in every tree, depth 2 (code: 3), 2 identifiers (code: 7), 1 change | 415 k | no window with nodes is passed by, the choice in a calm client, the search ends |

Why the bounds are enough.  Three deliveries let two tasks complete and one of them come
again, the shortest way to the collision of dedupe keys; the second start lets an attempt
die and its task come again.  Two connections under one ID and one under another are the
smallest case of replacement beside a bystander; two requests are enough to overlap, as a
flag and a buffer tell no third.  Four rounds with two customers let a chat be read, fail to
be answered, lose its place to the other, and come into view again with the agent's own
replies; the sizes keep the order of the code's, a read (20) smaller than a history (100),
with a window that shows more than a read takes; `MaxHistory = 4` and `MaxReplies = 1` bring
the limits of 100 and 50 into reach.  Two workers on two tasks and two keys meet on a task,
on a key, on both and on neither.  Two saved changes leave two savers in flight beside that
of the new session, and a second contact, of which nothing but a new session is saved, can
hold the store's mutex meanwhile.  Two calls of Send leave text of the first for the second;
two candidates allow a paste in vain before one that is seen; the three signals and the
three differences lie below, between and above the thresholds.  `MaxLate = 0` lets a second
call begin when the keys of the first have been taken, `MaxBox = 4` lets it paste while a
text of the first is in the box; the theorem is for every value of both.  A scan, a Focus
and a Focus again or a search are three calls; one event moves the list at every point of
them.  Four windows make every shape of a tree up to three levels below the top; with two
changes `window_search` has 5.3 M states and holds as well, too slow to keep.

The runs stop at their bounds, so they do not check for deadlock, except `send_verify`,
which has no bound; the liveness properties show that nobody waits for ever.

Fairness.  Weak fairness of the read loop and the handlers (`ReplyExecute`), of the
goroutines of connections and requests (`Gateway`), of the loop (`Monitor`), of each worker
(`SendVerify`) and of the steps of the search (`WindowSearch`): the scheduler runs
goroutines, and each call of the adapter, the remote agent, the socket or Windows returns
(they have time-outs, or fail).  In `SessionSaves` a client inside a call, the saver that
holds `Mu` or waits for it, and the saver of a new session get strong fairness, each as one
disjunction of its steps, since Go's mutexes hand over to a waiter that has waited for
long.  Nothing is assumed of peers: no command has to come, no customer has to write, no
connection has to last, nobody has to stop the service or leave it running.

## 4. Properties

*Worker mode.* `HistoryMatchesChat`: the reply history of a conversation is the completed
attempts there, the newest ones in their order up to the limit of `AddReply`, and each press
of Enter belongs to one attempt.  `RecordsAreEarned`: a record means a completed attempt of
this process.  `CompletionSeenWhole`: a gateway that sees `task.completed` has seen all
progress.  `RecordedNeverEntered`: a recorded task is not entered again.
`ImplementsContract`.  `CommandsConsumed`: liveness.

*Gateway.* `RegistryNeverDangles`, `ServedIsReachable`, `NeverMisrouted`,
`UnracedAnswerHonest`; `BrokenIsForgotten` (liveness).  The proviso of `ServedIsReachable`,
that nobody else uses the session ID, is needed: `Unregister` goes by ID, so the goroutine
of an old connection takes the new one out of the registry.

*Monitor mode.* `AnsweredOnce`: no process answers a message twice, under IDs whose read
mark was in sight at each reading; two IDs count together unless they began in the same
chat.  `HistoryIsWhole`: the session of such an ID is one chat, from where it began to the
mark, the newest part of it, without a gap.  Windows scroll, chats change places and IDs in
both; an ID that lost its mark is out of them, since the code then takes everything on show
for new (finding 4).  `RepliesAreSends`: the reply history is the successful sends.
`StopQuiets`: a stopped service sends one more reply at most. `RoundsEnd`: a round ends, and
passes over none of its entries whatever failed for the ones before.

*Send.* `KeepsSendContract`: a reason code tells whether Enter was pressed.
`EnterSendsContent`: when Enter sends, the box holds what earlier calls left in it, in its
order, and somewhere in it the content, at least once and at most once for each candidate
over the box that was clicked; in place of the content it may be what another program copied
before the client took the paste.  Keys of an earlier call that are taken in a later one are
left out of it.  `VerdictsRestOnPixels`: new message nodes never make a verdict, although
they weigh most.  `LandedIsVerified`: a message that landed is verified, if pictures can be
had and the nodes are quiet.

*Scan and Focus.* `KeepsFocusContract`: a Focus that fails has not clicked.
`VisionNeedsChange`: vision believes only in clicks that changed the chat.
`CalmFocusLands`: where a successful Focus ends when nothing moves, which is not always the
chat that was asked for: the exceptions of the formula are the findings 11 and 12.

*Window search.* `FindsNodes`: a window that has children throughout is not passed by for
one without.  `CalmPick`: what is chosen when nothing changes.  `SearchEnds`: liveness.

*Sessions.* `StoreCatchesUp`: with all savers done the store holds the session, except for a
pending reply that no saved change has followed.  `StoreNeverGoesBack`.  `ChangesAreSaved`:
no order of the three mutexes leaves a saver waiting (liveness).

*Send-and-verify.* `KeySentOnce`; `StatusIsTrue`; `StatusNeverGoesBack`: no status goes back
in the order of the flow (pending, sending, sent_unverified, an end), and no end is taken
for another.  It fixes no transitions, since README.md:523 and the tests
(send_verify_test.go:328, 398) do not have the same.  `RecordsSettle`.

Each property of a passing run has a mutant in `PROJECT.json`: an operator with a plausible
fault (its comment begins with "Slip" or "A faulty") that takes the place of a definition
and makes TLC find the property violated.

## 5. Findings

`PROJECT.json` quotes what the repository says for each.  Two have a run of their own that
TLC ends with a counterexample:

1. `reply_execute_redelivery`: records are made without a dedupe key, and the store refuses
   a second record with the same, empty, key; from the second completed task on nothing is
   recorded.
2. `monitor_wrong_chat`: the second check of the chat clicks the old place again.

The others are why a property of a passing run has the proviso or the exception it has, or
were read off the code while it was modelled:

3. Two requests for one agent share the WebSocket's write buffer (`UnracedAnswerHonest` is
   about requests without a race).
4. Fingerprints contain positions, so a window that scrolls makes every message new
   (`AnsweredOnce` leaves out the IDs that lost their mark).
5. The session is created before its absence is tested for: no cold start.
6. `Read` takes the first 20 messages of the window where service.go:414 wants the latest.
7. Stage D lists the nodes of before the send after it, and new nodes spoil the verdict they
   are the strong signal of (`VerdictsRestOnPixels`).
8. `Verify` always returns a message.
9. Stage B takes the candidates as they were detected, not by priority.
10. A Focus of the chat that is open is never believed by vision and clicks once more
    (`VisionNeedsChange`); the monitor uses one to make sure of the chat.
11. The click by position has rows of 40 pixels where detection has 60 (`CalmFocusLands`).
12. Nodes have screen coordinates and are clicked as if they were the window's
    (`CalmFocusLands`).
13. The search fallback looks at one node, the window, and never finds a search box.
14. The window search prefers the first window with children, not the shallowest
    (`CalmPick`).

Also: a contact's session collects the messages of several chats when ranks change; a round
that only read is reported as a closed loop if an earlier one replied (service.go:802); a
failed send is never retried (WORKFLOW_DESIGN.md:224); sessions do not survive a restart
(WORKFLOW_DESIGN.md:11); pending replies are set and cleared without a save
(manager.go:285-314); `MemoryStore.Save` copies a locked mutex (manager.go:377);
`GetSessionsWithUnread`, which nothing calls, and `Save` take two mutexes in opposite orders
(manager.go:352, 155).

## 6. Proofs

What TLC shows on the instances above, the modules `*_proofs` show for every value of the
constants: 34 of the 40 properties, all invariants and refinements among them.  The only
assumptions are the named `ASSUME`s of the modules, which TLC evaluates too: placeholders
(`NoTask`, `NoConn`, `Nobody`, `Garbled`) are none of the things they stand beside, maps
have their domains, bounds are naturals, limits and the number of processes of the service
are positive, measurements are integers. The chats of `Monitor` and of `Conversations` and
the places of lines in a screenshot are finite in number: a list has a last row.  The bounds
on deliveries, starts, calls and changes are arbitrary naturals.  No fairness is used.

| module | theorem | states |
|---|---|---|
| `ReplyExecute_proofs` | `TypeCorrect`, `StoreProtects`, `RecordsEarned` | `TypeOK`, `RecordedNeverEntered`, `RecordsAreEarned` |
| | `CompletionWhole`, `HistoryTrue` | `CompletionSeenWhole`, `HistoryMatchesChat` |
| | `KeepsContract` | `ImplementsContract`: the refinement of `ReplyContract` |
| `Gateway_proofs` | `TypeCorrect`, `RegistrySound`, `ServedReachable`, `CommandsNotMisrouted` | `TypeOK`, `RegistryNeverDangles`, `ServedIsReachable`, `NeverMisrouted` |
| | `AnswersHonest` | `UnracedAnswerHonest` |
| `SendVerify_proofs` | `TypeCorrect`, `SentOnce`, `StatusTrue`, `NeverGoesBack` | `TypeOK`, `KeySentOnce`, `StatusIsTrue`, `StatusNeverGoesBack` |
| `SessionSaves_proofs` | `TypeCorrect`, `CatchesUp`, `NeverGoesBack` | `TypeOK`, `StoreCatchesUp`, `StoreNeverGoesBack` |
| `SendPipeline_proofs` | `TypeCorrect`, `ContentSent`, `VerdictsOnPixels`, `LandedVerified` | `TypeOK`, `EnterSendsContent`, `VerdictsRestOnPixels`, `LandedIsVerified` |
| | `KeepsContract` | `KeepsSendContract`: the refinement of `SendContract` |
| `Conversations_proofs` | `TypeCorrect`, `VisionSeesChange`, `CalmFocus` | `TypeOK`, `VisionNeedsChange`, `CalmFocusLands` |
| | `KeepsContract` | `KeepsFocusContract`: the refinement of `FocusContract` |
| `WindowSearch_proofs` | `TypeCorrect`, `NodesFound`, `CalmSearch` | types of the stack, `FindsNodes`, `CalmPick` |
| `Monitor_proofs` | `TypeCorrect`, `RepliesTold`, `StopSilences` | `TypeOK`, `RepliesAreSends`, `StopQuiets` |
| | `HistoryWhole`, `NoAnswerTwice` | `HistoryIsWhole`, `AnsweredOnce` |

Each goes by an inductive invariant, one lemma or step per action.  What has to be added to
the property to make it inductive is the reason why the code is right:

* *Worker mode.*  A process that is down holds nothing; the handler is between two stages
  exactly when the loop handles a command (`HandlingInv`); Enter has been pressed exactly in
  the stages after the press (`PressInv`); past the store's check the task has no record
  (`AdmittedInv`), and only the handler makes records, one at a time.  While the socket is
  up the gateway has exactly the events of the stages behind (`LinkInv`); no line of the log
  is of a later process (`LifeInv`), and each new one adds to a count what the attempt did:
  the number of completed attempts behind a line is its distance from the end of the
  history, which is how `AddReply`'s limit comes out.  The refinement then follows step by
  step: stages stutter, the press, the verdicts and the death of the process map to the
  contract's actions.
* *Gateway.*  The connection a request holds was made under the ID the request names,
  however stale it is (`HeldFits`), so whatever is in a connection's write buffer is
  addressed to it (`BufferFits`): overlapping writes lose commands and never misroute them.
  Two requests inside `WriteMessage` on one connection are both raced, and so is whoever's
  command stands in the buffer under another's write (`OverlapsAreRaced`); a request alone
  there therefore writes its own command and finds its own flag (`FlagIsOwn`), once
  (`CarriersFit`).
* *Send-and-verify.*  A run past `CreateRecord` owns a record with the status of its place
  in the flow (`OwnersHaveRecords`), alone (`OwnersAreAlone`), and knows what has been sent
  for its task (`OwnersKnowSends`); every send has a record behind it (`SendsHaveRecords`),
  and records keep one per task and key (`StoreKeyedOnce`).  A second run for a key
  therefore finds a record and stops at its first step, and a status is written only by the
  owner, from the place of the flow the record is at.
* *Saves.*  A saver of a new session that is copying has the store's mutex, has copied
  nothing older than the store, and nothing older than memory, pending replies written since
  aside, unless another save is still to come (`CopyingHolds`); hence its unlocked copy is
  repaired by the save of the very change it missed (`SettledIsStored`).  A session is
  stored only after it was made (`MadeFirst`).
* *Send.*  A candidate is in the queue once and is not tried again (`QueueFresh`), the caret
  tells whether the one at hand lies over the box (`CaretOver`).  While Enter of the call
  may still come to the box (`Live`), Enter is its last key (`Shape`), and the pastes that
  the client has taken and those it has not are no more than such candidates (`Count`), and
  one at least (`Least`).  The box keeps what was left in it (`Kept`), and after one paste
  is exactly that with a text put into it (`Exact`); the clipboard holds the content as long
  as a paste is to be taken, or a copy that was made in between (`ClipText`, `ClipFirm`).
  The verdicts need no more than arithmetic (`SendVerdict`, `LaterVerdict`): with new nodes
  the message scores 15 of 135 at most, and 0.4 + 0.6 * 15/135 is less than one half.
* *Focus.*  The steps before the click have clicked nothing (`ClicksOK`); while nobody else
  acts, the picture from before the click shows the chat that was open at the call
  (`VisionInv`), and of two equal pictures one signal passes at most (`StillFails`).  The
  types (`TypeInv`) need that rows between lines can be put in order (`RowsSort`), that the
  row taken is one of those detected (`TargetType`) and that a place in the window divides
  into a row of the list (`DivisionBound`).  Where a Focus ends follows from what stays
  right while nothing moves (`LandsInv`): the reference says where its chat is, in the row
  at its position or in its node (`HeldOK`); the row to be clicked is that row when the same
  rows are seen again (`PointOK`, `SameRow`); before the first click the old chat is open,
  after it that of the conversation (`BeforeOK`, `OpenOK`).  Only three steps end a Focus
  that succeeds.
* *Window search.*  The frames above the current one stand at the window that was gone down
  into (`FramesOK`), and a steady window with children that the search has behind it is
  outweighed only by another with children (`PassInv`).  In a client that changes nothing
  the best of each frame is the right one among the windows it has gone through
  (`BestUpTo`): none of the windows it passed fits, and depth tells whether the best was
  found here or below, where `Better` must prefer it.  A frame that returns hands on such a
  best (`CalmInv`), and the top frame's is the answer of one pass over all windows.
* *Monitor.*  After a reply that was sent late the loop is past the steps that lead to a
  send (`LateInv`), and the way back to them leads through an answer of the agent.  The
  types (`TypeInv`) need that an entry at work has a session, and that there is a round's
  entry behind each send (`LoopInv`).  The records of replies match the sends of this
  process one by one, except for a send just made that is not recorded yet (`RepliesInv`).
  No message is said twice (`TalkOK`).  An ID whose mark was always in sight holds a place
  of its chat (`MarkOK`): the session is the chat from where it began up to the mark, the
  newest of it.  The fingerprint of the mark is found in the window at the mark's own place,
  since texts are distinct, so `FilterNew` returns exactly what lies behind it as far as the
  read goes (`ReadGoesOn`), whatever has scrolled; each of these is a new fingerprint to the
  session, and adding them in turn, with the oldest dropped, gives the newest messages up to
  the new mark (`NewestGrows`).  What was answered under the ID lies before the mark, and
  what is being answered was behind it (`AnswersIn`, `AnswersApart`), which no later send of
  the same process can share.  Two IDs that began in different chats have answered messages
  of different chats, which `TalkOK` keeps apart.  After a restart sessions and marks are
  empty, but so is the set of sends it is about.

`AddMessages` is a fold over the messages read.  That it adds them one after the other is
proved (`AddMessagesInTurn`) by induction stated about sets of numbers (`SetInduction`, from
the well-foundedness of the naturals): the library's induction theorems take a predicate and
cannot be cited here.

Only model-checked are the six liveness properties, since fairness is out of the prover's
reach: `CommandsConsumed`, `BrokenIsForgotten`, `RoundsEnd`, `RecordsSettle`,
`ChangesAreSaved` and `SearchEnds`; with `RoundsEnd` goes the condition on steps that is
part of it.

## 7. Plan

Done in this order, the most important behaviour first: worker mode and its contract; the
gateway; monitor mode; the send-and-verify workflow; the saves; their theorems; the send
pipeline with its evidence; scan and focus; the window search; stopping the monitor; the
theorems about these.  Left, in this order:

1. `NodePaths`: the strategies that find a node again by path, bounds or role, as operators
   against a reference; in `Conversations` they may answer anything.
2. `GatewayAgent`: gateway and worker mode composed, from HTTP request to event.
3. `SessionStores`: loading from a store that outlives the process; no code makes one now.
4. Theorems: lemmas under the liveness properties that need no fairness (a measure that
   every step of a round, a search or a save lowers).

## 8. Not modelled

* Pixel arithmetic (brightness, edges, red dots, differences of pictures) and OCR: what a
  detector sees is a choice of the model.  The thresholds on its results are modelled.
* UI automation and OCR are used by `bridge-dump` only; `GetWindowInfo` fails for handle 0
  only, so its failure is no case of the window search.
* Below the first level of nodes, the tree of accessible nodes: no operation of the adapter
  that keeps state looks there, except for message nodes, which are counted.
* `Start` after `Stop`, which nothing calls; the monitor's dry-run mode; the wording of
  reports.
* Review state, the gateway's dispatcher and its event handler, the protocol's types, the
  mock chat and the diagnostic tools: no callers, no state, or used by hand.
