------------------------------ MODULE Conversations ------------------------------
(* How the chat adapter finds a conversation and opens it: Scan, Focus and          *)
(* SearchContactFallback (wechat/adapter.go), with the vision functions they rest   *)
(* on (windows/vision.go).  Focus tries three ways, one after the other:            *)
(*   vision    detect rows in a screenshot, click the row at ListPosition, compare  *)
(*             screenshots from before and after                                    *)
(*   nodes     enumerate accessible nodes, click the one of the conversation        *)
(*   position  click where a list of rows 40 pixels high has the position           *)
(* The client shows a list of chats, a row each; a click on a row opens its chat,   *)
(* or is lost.  Messages move chats to the top, and the user of the desktop opens   *)
(* chats too, between any two steps.  Coordinates are those of the list, from top   *)
(* to bottom; across, everything is clicked inside the list.  A node has the place   *)
(* where the screen shows it, a click one in the window.  The program calls Init    *)
(* once before anything else, and ends if that fails.                               *)
EXTENDS Evidence, Sequences, FiniteSets, SequencesExt

CONSTANTS
    Chats,          \* contacts with a row in the list
    NoChat,         \* no chat is open, or no chat is meant
    Frame,          \* an accessible node with a name that is not a chat's
    RowHeight,      \* the client: pixels of a row
    Top,            \* the client: pixels above the first row
    Origins,        \* pixels of the screen above the window
    Lines,          \* where detectHorizontalLines may see a line
    Features,       \* what may be detected in a row
    MaxCalls,       \* bound: calls of Scan, Focus and SearchContactFallback
    MaxEvents       \* bound: messages, and chats opened by the user

ASSUME NamesAssumption == NoChat \notin Chats /\ Frame \notin Chats \cup {NoChat}
ASSUME ChatsAssumption == IsFiniteSet(Chats)
ASSUME LinesAssumption == Lines \subseteq Nat /\ IsFiniteSet(Lines)
ASSUME FeaturesAssumption == Features # {} /\ Features \subseteq [text : BOOLEAN, avatar : BOOLEAN]
ASSUME GeometryAssumption == RowHeight \in Nat \ {0} /\ Top \in Nat /\ Origins \subseteq Nat

VARIABLES
    step,       \* the next step of the call, or "idle"
    held,       \* the ConversationRef the caller has, a record
    point,      \* where the next click goes
    before,     \* beforeScreenshot
    result,     \* of the last call
    list,       \* the client: chats from top to bottom
    open,       \* the client: the chat on the right
    origin,     \* the client: pixels of the screen above its window
    events,     \* messages, and chats opened by the user, so far, all of them visible
    calls,
    clicks, was, same, calm, alone   \* observers: clicks of this Focus, the chat that was open
                                     \* before it, whether vision saw no other rows than the scan,
                                     \* nothing moved since the scan, since the call

client == <<list, open, events, origin>>
observers == <<clicks, was, same, calm, alone>>
vars == <<step, held, point, before, result, client, calls, observers>>

FocusSteps == {"window", "detect", "capture", "click", "judge", "nodes", "node", "position"}
Steps == FocusSteps \cup {"idle"}

\* name: DisplayName, as far as it can equal a node's; text: the hint has_text.
\* chat, rows: what was in the place, and all rows of the scan (observers).
NoRef == [position |-> -1, name |-> NoChat, text |-> FALSE, chat |-> NoChat, rows |-> <<>>]

NoPicture == [open |-> NoChat, list |-> <<>>, events |-> -1]

\* sure: a confidence of 0.8 or more, which openContact of the monitor asks for.
Answered(status, source, sure) == [status |-> status, source |-> source, sure |-> sure]

NoResult == Answered("none", "none", FALSE)

Init ==
    /\ step = "idle" /\ held = NoRef /\ point = 0
    /\ before = NoPicture /\ result = NoResult
    /\ list = SetToSeq(Chats) /\ open \in Chats \cup {NoChat} /\ events = 0
    /\ origin \in Origins
    /\ calls = 0
    /\ clicks = 0 /\ was = open /\ same = FALSE /\ calm = TRUE /\ alone = TRUE

--------------------------------------------------------------------------------
(* The list on the screen.                                                       *)

WindowHeight == Top + RowHeight * Cardinality(Chats)

\* The chat whose row is at y.
At(y) ==
    IF y \in Top..WindowHeight - 1 THEN list[(y - Top) \div RowHeight + 1] ELSE NoChat

RowPoint(c) ==
    Top + RowHeight * ((CHOOSE k \in DOMAIN list : list[k] = c) - 1) + RowHeight \div 2

\* accLocation: where the node of the row is on the screen.
ScreenPoint(c) == origin + RowPoint(c)

Middle(row) == row.top + row.height \div 2

\* Rows between two lines next to each other, if they have a plausible height.
Between(lines) ==
    {[top |-> p[1], height |-> p[2] - p[1]] : p \in
        {q \in lines \X lines : /\ q[2] - q[1] \in 20..150
                                /\ ~\E l \in lines : q[1] < l /\ l < q[2]}}

\* Without lines: rows of 60 pixels.
Grid == [i \in 1..WindowHeight \div 60 |-> [top |-> 60 * (i - 1), height |-> 60]]

FromTop(rows) ==
    CHOOSE s \in [1..Cardinality(rows) -> rows] : \A i, j \in DOMAIN s : i < j => s[i].top < s[j].top

\* DetectConversations: the sequences of rows it may find, all from top to bottom.
Detections ==
    {IF Between(lines) = {} THEN Grid ELSE FromTop(Between(lines)) : lines \in SUBSET Lines}

\* What detectAvatarRegion and detectTextRegion see in each of the rows: pixels decide.
Looks(rows) == [DOMAIN rows -> Features]

\* The first of a set of indices, if there is one, else of the next set.
FirstOf(s) == LET k == CHOOSE k \in DOMAIN s : s[k] # {} /\ \A j \in 1..k - 1 : s[j] = {}
              IN  CHOOSE i \in s[k] : \A j \in s[k] : i <= j

\* selectTargetConversation: the row of the position, else the first promising one.
Target(n, f, position) ==
    IF position \in 0..n - 1 THEN position + 1
    ELSE FirstOf(<<{i \in 1..n : f[i].text /\ f[i].avatar}, {i \in 1..n : f[i].text},
                   {i \in 1..n : f[i].avatar}, 1..n>>)

\* A click at y; it may be lost.
Land(y) ==
    /\ open' \in IF At(y) = NoChat THEN {open} ELSE {open, At(y)}
    /\ calm' = (calm /\ (At(y) = NoChat \/ open' = At(y)))
    /\ alone' = (alone /\ (At(y) = NoChat \/ open' = At(y)))
    /\ UNCHANGED <<list, events, origin>>

--------------------------------------------------------------------------------
(* Scan.                                                                         *)

\* Slip: positions that count from one.
VisualRefsFromOne(rows) ==
    {[position |-> i, name |-> NoChat, text |-> f.text,
      chat |-> At(Middle(rows[i])), rows |-> rows] : i \in DOMAIN rows, f \in Features}

\* Visual references have a name, their rank by score, that no node has.
VisualRefs(rows) ==
    {[position |-> i - 1, name |-> NoChat, text |-> f.text,
      chat |-> At(Middle(rows[i])), rows |-> rows] : i \in DOMAIN rows, f \in Features}

\* References made of nodes: candidates are all nodes with a name and a place, and
\* the position counts them all.
NodeRefs ==
    {[position |-> k, name |-> list[k], text |-> FALSE, chat |-> list[k], rows |-> <<>>] :
        k \in DOMAIN list}
    \cup {[NoRef EXCEPT !.position = 0, !.name = Frame]}

\* Scan, after which the caller keeps one of the references; or it fails, or finds none.
Scan ==
    /\ step = "idle" /\ calls < MaxCalls
    /\ \/ held' \in (UNION {VisualRefs(rows) : rows \in Detections}) \cup NodeRefs
       \/ held' = NoRef
    /\ calls' = calls + 1
    /\ result' = NoResult /\ calm' = TRUE
    /\ UNCHANGED <<step, point, before, client, clicks, was, same, alone>>

--------------------------------------------------------------------------------
(* Focus.                                                                        *)

\* The call returns.
Answer(status, source, sure) == step' = "idle" /\ result' = Answered(status, source, sure)

Goto(next) == step' = next /\ UNCHANGED result

Focus ==
    /\ step = "idle" /\ calls < MaxCalls /\ held # NoRef
    /\ calls' = calls + 1
    /\ step' = "window" /\ result' = NoResult
    /\ clicks' = 0 /\ was' = open /\ same' = TRUE /\ alone' = TRUE
    /\ before' = NoPicture /\ point' = 0
    /\ UNCHANGED <<held, client, calm>>

\* FocusWindow.
ToFront ==
    /\ step = "window"
    /\ Answer("failed", "none", FALSE) \/ Goto("detect")
    /\ UNCHANGED <<held, point, before, client, calls, observers>>

\* Rows are detected again, and the position is an index of these.  Vision fails without
\* a screenshot, without rows, or if the row has no text although the one of the scan had.
Detect ==
    /\ step = "detect"
    /\ \/ Goto("nodes") /\ UNCHANGED <<point, same>>
       \/ \E rows \in Detections : \E f \in Looks(rows) :
             LET k == Target(Len(rows), f, held.position) IN
             /\ rows # <<>>
             /\ held.text => f[k].text
             /\ point' = Middle(rows[k])
             /\ same' = (rows = held.rows)
             /\ Goto("capture")
    /\ UNCHANGED <<held, before, client, calls, clicks, was, calm, alone>>

Picture == [open |-> open, list |-> list, events |-> events]

Capture ==
    /\ step = "capture"
    /\ before' \in {NoPicture, Picture}
    /\ Goto("click")
    /\ UNCHANGED <<held, point, client, calls, observers>>

Click ==
    /\ step = "click"
    /\ \/ Goto("nodes") /\ UNCHANGED <<client, clicks, calm, alone>>
       \/ Land(point) /\ clicks' = clicks + 1 /\ Goto("judge")
    /\ UNCHANGED <<held, point, before, calls, was, same>>

\* The four signals, each of which may not be had.
Signals == [{"full", "right", "region", "box"} -> {"pass", "fail", "none"}]

\* Two pictures of the same differ by a caret at most: too little for a signal, except
\* for the place of the difference.
Still(s) == s.full # "pass" /\ s.right # "pass" /\ s.region # "pass"

Passed(s) == Cardinality({n \in DOMAIN s : s[n] = "pass"})
Counted(s) == Cardinality({n \in DOMAIN s : s[n] # "none"})

\* Slip: half of the signals are enough.
SucceededByHalf(s) == 2 * Passed(s) >= Counted(s) /\ Counted(s) > 0

\* evaluateFocusSuccess.
Succeeded(s) == Passed(s) >= 2 /\ 2 * Passed(s) >= Counted(s)

Judge ==
    /\ step = "judge"
    /\ \/ Goto("nodes")
       \/ \E s \in Signals :
             /\ before # NoPicture
             /\ before = Picture => Still(s)
             /\ Succeeded(s)
             /\ Answer("success", "vision", 100 * Passed(s) >= 80 * Counted(s))
    /\ before' = NoPicture
    /\ UNCHANGED <<held, point, client, calls, observers>>

\* FindNodeByStrategy: by path, bounds or role, and always by name.  A visual reference
\* finds nothing.
FindNode ==
    /\ step = "nodes"
    /\ \/ Goto("position") /\ UNCHANGED point
       \/ /\ held.name # NoChat
          /\ point' = IF held.name = Frame THEN 0 ELSE ScreenPoint(held.name)
          /\ Goto("node")
    /\ UNCHANGED <<held, before, client, calls, observers>>

\* What VerifySessionActivation may find in the nodes from before the click.
Activations ==
    {e \in [exists : BOOLEAN, active : BOOLEAN, title : BOOLEAN, panel : {FALSE},
            messages : BOOLEAN] : e.active => e.exists}

\* Focus succeeds whatever becomes of the click.
ClickNode ==
    /\ step = "node"
    /\ \/ Answer("success", "node", FALSE) /\ UNCHANGED <<client, clicks, calm, alone>>
       \/ /\ Land(point) /\ clicks' = clicks + 1
          /\ \E e \in Activations :
                Answer("success", "node", AtLeast(FocusConfidence(e), 80))
    /\ UNCHANGED <<held, point, before, calls, was, same>>

\* A list whose rows are 40 pixels high, from 50 on.
ListPoint(position) == 50 + 40 * position + 20

\* Slip: a click that fails is made again.
ClickPositionAgain ==
    /\ step = "position"
    /\ \/ Answer("success", "position", TRUE) /\ UNCHANGED <<client, clicks, calm, alone>>
       \/ Answer("success", "position", FALSE) /\ UNCHANGED <<client, clicks, calm, alone>>
       \/ /\ Land(ListPoint(held.position)) /\ clicks' = clicks + 1
          /\ \/ Answer("success", "position", TRUE)
             \/ clicks < 3 /\ Goto("position")
    /\ UNCHANGED <<held, point, before, calls, was, same>>

\* focusByListPosition, without window information sure of itself, and clicking nothing.
ClickPosition ==
    /\ step = "position"
    /\ \/ Answer("success", "position", TRUE) /\ UNCHANGED <<client, clicks, calm, alone>>
       \/ Answer("success", "position", FALSE) /\ UNCHANGED <<client, clicks, calm, alone>>
       \/ /\ Land(ListPoint(held.position)) /\ clicks' = clicks + 1
          /\ Answer("success", "position", TRUE)
    /\ UNCHANGED <<held, point, before, calls, was, same>>

--------------------------------------------------------------------------------
(* SearchContactFallback, for a conversation that Focus was not sure of.         *)

\* It looks for a search box among the nodes EnumerateAccessibleNodes returns, which is
\* one, the window: it never finds one, and clicks and types nothing.
Search ==
    /\ step = "idle" /\ calls < MaxCalls /\ held # NoRef
    /\ result.status # "none" /\ ~result.sure
    /\ calls' = calls + 1
    /\ Answer("failed", "search", FALSE)
    /\ UNCHANGED <<held, point, before, client, observers>>

--------------------------------------------------------------------------------
(* The world around.                                                             *)

\* The chat at the top, and the others below it as they were.
ToTop(c) ==
    LET at == CHOOSE k \in DOMAIN list : list[k] = c
    IN  [k \in DOMAIN list |-> IF k = 1 THEN c ELSE IF k <= at THEN list[k - 1] ELSE list[k]]

\* A message moves its chat to the top.
Incoming(c) ==
    /\ events < MaxEvents
    /\ events' = events + 1
    /\ list' = ToTop(c)
    /\ calm' = FALSE /\ alone' = FALSE
    /\ UNCHANGED <<step, held, point, before, result, open, origin, calls, clicks, was, same>>

Browse(c) ==
    /\ events < MaxEvents /\ c # open
    /\ events' = events + 1
    /\ open' = c
    /\ calm' = FALSE /\ alone' = FALSE
    /\ UNCHANGED <<step, held, point, before, result, list, origin, calls, clicks, was, same>>

Next ==
    \/ Scan
    \/ Focus \/ ToFront \/ Detect \/ Capture \/ Click \/ Judge
    \/ FindNode \/ ClickNode \/ ClickPosition
    \/ Search
    \/ \E c \in Chats : Incoming(c) \/ Browse(c)

Spec == Init /\ [][Next]_vars

--------------------------------------------------------------------------------
(* Properties.                                                                   *)

Ref == [position : Nat \cup {-1}, name : Chats \cup {NoChat, Frame}, text : BOOLEAN,
        chat : Chats \cup {NoChat}, rows : Seq([top : Nat, height : Nat])]

\* Every variable keeps to its range, the list shows every chat once, and the two later
\* ways of Focus begin with one click behind them at most.
TypeOK ==
    /\ step \in Steps /\ held \in Ref /\ point \in Int
    /\ result \in [status : {"none", "failed", "success"},
                   source : {"none", "vision", "node", "position", "search"}, sure : BOOLEAN]
    /\ Len(list) = Cardinality(Chats) /\ {list[k] : k \in DOMAIN list} = Chats
    /\ open \in Chats \cup {NoChat} /\ was \in Chats \cup {NoChat}
    /\ origin \in Origins /\ events \in Nat /\ calls \in Nat /\ clicks \in Nat
    /\ {same, calm, alone} \subseteq BOOLEAN
    /\ step \in {"window", "detect", "capture", "click"} => clicks = 0
    /\ step \in {"nodes", "node", "position"} => clicks <= 1

Contract ==
    INSTANCE FocusContract WITH
        phase <- IF step \in FocusSteps THEN "focusing" ELSE "idle",
        outcome <- IF result.source = "search" THEN "none" ELSE result.status

\* A Focus that fails has clicked nothing; it clicks twice at most, the second time last.
KeepsFocusContract == Contract!Spec

\* Vision believes in a click only if the window changed: while nobody else does anything,
\* it believes exactly in clicks that opened another chat, so a Focus of the chat that is
\* open already always goes on to the other ways.
VisionNeedsChange ==
    step = "idle" /\ result.source = "vision" /\ alone => open # was /\ clicks = 1

LastPoint == IF result.source = "node" THEN ScreenPoint(held.chat) ELSE ListPoint(held.position)

\* Where a successful Focus ends if nothing moved since the scan, and vision, if it clicked,
\* saw the rows of the scan or a node was clicked after it: in the conversation; or in the
\* chat below its row by what the window is below the top of the screen, if a node was
\* clicked; or in the chat where a list of rows 40 pixels high has it, by position; or
\* where it began, if no click was made or there is no chat at the last one.
CalmFocusLands ==
    (/\ step = "idle" /\ result.status = "success" /\ calm
     /\ held.chat # NoChat
     /\ same \/ (result.source = "node" /\ clicks = 2 /\ At(LastPoint) # NoChat))
    => \/ open = held.chat
       \/ result.source # "vision" /\ clicks > 0 /\ open = At(LastPoint)
       \/ result.source # "vision" /\ open = was /\ (clicks = 0 \/ At(LastPoint) = NoChat)
================================================================================
