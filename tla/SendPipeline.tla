------------------------------ MODULE SendPipeline ------------------------------
(* WeChatAdapter.Send with its four stages, and Verify, over the window of the    *)
(* chat client (wechat/adapter.go, windows/bridge.go, windows/vision.go).         *)
(*   A  find the rectangles that may be the input box, click and score each       *)
(*   B  click, set the clipboard, paste, and look for a change of the rectangle;  *)
(*      the best candidate if it is sure, else one after the other                *)
(*   C  press Enter                                                               *)
(*   D  compare screenshots and accessible nodes from before and after            *)
(* Every call of the bridge may fail, and every capture may be missing or blank.  *)
(* Clicks and keys are only put into the system's input queue; the client takes   *)
(* them in order whenever it comes to it, and reads the clipboard then.  A click  *)
(* on the box may set the caret anywhere in the text that is in it.  Messages     *)
(* arrive and other programs copy to the clipboard between any two steps.  Texts  *)
(* have two halves, so that one can be pasted into the middle of another.  What   *)
(* the client shows to a screenshot is abstracted to the lengths of the text in   *)
(* the box and of the chat: either grows, or both change.                         *)
EXTENDS Evidence, Sequences, FiniteSets

CONSTANTS
    Texts,          \* contents to send
    Foreign,        \* a text another program copies
    NoText,         \* an empty clipboard
    Signals,        \* what a probe may measure
    Diffs,          \* sizes of a change between two screenshots, in thousandths
    MaxCandidates,  \* at most 5 in DetectInputBoxArea
    MaxCalls,       \* bound: calls of Send
    MaxLate,        \* bound: keys of earlier calls not taken yet when a call begins
    MaxBox,         \* bound: halves of texts in the box before one more is pasted
    MaxIncoming,    \* bound: messages of others
    MaxCopies       \* bound: copies by other programs

ASSUME TextsAssumption == Foreign \notin Texts /\ NoText \notin Texts \cup {Foreign}
ASSUME SignalsAssumption ==
    \A s \in Signals : {s.visual, s.brightness, s.edges, s.editable, s.tests} \subseteq Int
ASSUME DiffsAssumption == Diffs \subseteq 1..1000
ASSUME BoundsAssumption ==
    {MaxCandidates, MaxCalls, MaxLate, MaxBox, MaxIncoming, MaxCopies} \subseteq Nat

VARIABLES
    pc,         \* the next step of the call, or "idle"
    text,       \* content
    over,       \* candidates that lie on the input box
    probes,     \* stage A: results of the probes so far, in candidate order
    number,     \* of candidates
    queue,      \* stage B: candidatesToTry
    before,     \* stageB.BeforeScreenshot
    after,      \* afterScreenshot of stage D
    nodes,      \* message nodes of nodesBefore
    evidence,   \* messageEvidence of stage D: new nodes, and whether the pictures differ
    result,     \* ReasonCode of the last call
    verdict,    \* of the last Verify: delivery state and message nodes
    caret,      \* stage B: the candidate clicked lies on the box, which gets the keys then
    input,      \* the keys the box gets that the client has not taken yet
    box,        \* the client: halves of texts in the input box
    own, others,  \* the client: messages in the chat, its user's and other people's
    clip,       \* the clipboard
    setup,      \* the client: does Enter send, does it expose message nodes
    calls, copies,            \* how often Send, other programs' copy
    left, late, tried, copied, presses
                \* observers: the box when the call began, keys of an earlier call still to
                \* come then, candidates clicked, a copy before a paste, presses of Enter

stageA == <<over, probes, number>>
observed == <<before, after, nodes>>
answers == <<evidence, result, verdict>>
chat == <<own, others>>
client == <<caret, input, box, chat>>
observers == <<left, late, tried, copied, presses>>
vars == <<pc, text, stageA, queue, observed, answers, client, clip, setup, calls, copies,
          observers>>

Stages == {"detect", "probe", "reprobe", "capture", "click", "clip", "paste", "compare",
           "enter", "look", "judge"}

NoShot == [kind |-> "none", box |-> 0, chat |-> 0]
Blank == [kind |-> "blank", box |-> 0, chat |-> 0]

\* CaptureWindow: nothing, the blank picture of a hidden window, or what there is.
Shots == {NoShot, Blank, [kind |-> "real", box |-> Len(box), chat |-> own + others]}

NoEvidence == [newNodes |-> 0, changed |-> FALSE]

NoVerdict == [state |-> "none", nodes |-> 0]

Init ==
    /\ pc = "idle" /\ text \in Texts
    /\ over = {} /\ probes = <<>> /\ number = 0 /\ queue = <<>>
    /\ before = NoShot /\ after = NoShot /\ nodes = 0
    /\ evidence = NoEvidence /\ result = "none"
    /\ verdict = NoVerdict
    /\ caret = FALSE /\ input = <<>> /\ box = <<>> /\ own = 0 /\ others = 0 /\ clip = NoText
    /\ setup \in [enterSends : BOOLEAN, exposes : BOOLEAN]
    /\ calls = 0 /\ copies = 0
    /\ left = <<>> /\ late = FALSE /\ tried = {} /\ copied = FALSE /\ presses = 0

--------------------------------------------------------------------------------
(* Stage A.                                                                      *)

\* Send is called, with local variables of its own.
Begin(t) ==
    /\ pc = "idle" /\ calls < MaxCalls /\ Len(input) <= MaxLate
    /\ pc' = "detect" /\ text' = t /\ calls' = calls + 1
    /\ over' = {} /\ number' = 0
    /\ evidence' = NoEvidence /\ verdict' = NoVerdict /\ result' = "none"
    /\ left' = box /\ late' = (input # <<>>) /\ tried' = {} /\ copied' = FALSE
    /\ caret' = FALSE
    /\ UNCHANGED <<probes, queue, observed, input, box, chat, clip, setup, copies, presses>>

\* The call returns with a reason code, and its screenshots and nodes are gone.
Finish(reason) ==
    /\ pc' = "idle" /\ result' = reason
    /\ queue' = <<>>
    /\ before' = NoShot /\ after' = NoShot /\ nodes' = 0

\* DetectConversations fails, or DetectInputBoxArea offers candidates: always one at
\* least, since it falls back on geometry.
Detect ==
    /\ pc = "detect"
    /\ \/ Finish("INPUT_BOX_PROBE_FAILED") /\ UNCHANGED <<over, number, evidence, verdict>>
       \/ /\ number' \in 1..MaxCandidates
          /\ over' \in SUBSET (1..number')
          /\ pc' = "probe"
          /\ UNCHANGED <<queue, observed, answers>>
    /\ UNCHANGED <<text, probes, client, clip, setup, calls, copies,
                   observers>>

ProbeError == [ok |-> FALSE, score |-> 0, strong |-> FALSE]

Positive(n) == IF n > 0 THEN n ELSE 0

\* Tenths of the activation score of ProbeInputBoxCandidate.
ActivationScore(s) ==
    10 * s.visual + 5 * Positive(s.brightness) + 3 * Positive(s.edges)
    + 300 * s.editable + 400 * s.tests

\* A probe that got through; the focused element is never known, so it gives no signal.
Probed(s) ==
    [ok |-> TRUE, score |-> ActivationScore(s),
     strong |-> s.visual > 0 \/ s.editable > 0 \/ s.tests > 0]

\* Slip: the loop over the candidates goes one too far.
ProbeOneMore ==
    /\ pc = "probe"
    /\ \E p \in {ProbeError} \cup {Probed(s) : s \in Signals} : probes' = Append(probes, p)
    /\ pc' = IF Len(probes') > number THEN "reprobe" ELSE "probe"
    /\ UNCHANGED <<text, over, number, queue, observed, answers, client, clip, setup,
                   calls, copies, observers>>

\* One candidate is probed.  The probe clicks before it measures, at a point that is
\* scaled twice on a scaled display; where it sets the caret does not matter, since stage
\* B clicks again before it presses a key.
Probe ==
    /\ pc = "probe"
    /\ \E p \in {ProbeError} \cup {Probed(s) : s \in Signals} : probes' = Append(probes, p)
    /\ pc' = IF Len(probes') = number THEN "reprobe" ELSE "probe"
    /\ UNCHANGED <<text, over, number, queue, observed, answers, client, clip, setup, calls,
                   copies, observers>>

Confirmed == {c \in 1..number : probes[c].score >= 500 /\ probes[c].strong}

\* The first of the highest activation score.
Highest(S) ==
    {c \in S : \A d \in S : /\ probes[d].score <= probes[c].score
                            /\ probes[d].score = probes[c].score => c <= d}

\* candidatesToTry: the best one if it is confirmed, else (probable or fallback) all, in
\* the order of detection.
Plan ==
    IF Confirmed # {} THEN {<<c>> : c \in Highest(Confirmed)}
    ELSE {[c \in 1..number |-> c]}

\* The end of stage A: the best candidate is probed, and clicked, once more.
Reprobe ==
    /\ pc = "reprobe"
    /\ queue' \in Plan
    /\ pc' = "capture"
    /\ probes' = <<>>
    /\ UNCHANGED <<text, over, number, observed, answers, client, clip, setup, calls, copies,
                   observers>>

--------------------------------------------------------------------------------
(* Stage B.                                                                      *)

CaptureBefore ==
    /\ pc = "capture"
    /\ before' \in Shots
    /\ pc' = "click"
    /\ UNCHANGED <<text, stageA, queue, after, nodes, answers, client, clip, setup, calls,
                   copies, observers>>

\* continue: the next candidate, or the end of the call.
NextCandidate ==
    /\ \/ Tail(queue) = <<>> /\ Finish("TEXT_INJECTION_FAILED")
       \/ /\ Tail(queue) # <<>>
          /\ queue' = Tail(queue)
          /\ pc' = "click"
          /\ UNCHANGED <<observed, result>>
    /\ UNCHANGED <<evidence, verdict>>

ClickCandidate ==
    /\ pc = "click"
    /\ \/ NextCandidate /\ UNCHANGED <<caret, tried>>
       \/ /\ caret' = (Head(queue) \in over)
          /\ tried' = tried \cup {Head(queue)}
          /\ pc' = "clip"
          /\ UNCHANGED <<queue, observed, answers>>
    /\ UNCHANGED <<text, stageA, input, box, chat, clip, setup, calls, copies, left,
                   late, copied, presses>>

\* Slip: a clipboard that could not be set does not stop the attempt.
SetClipboardUnchecked ==
    /\ pc = "clip"
    /\ clip' \in {clip, NoText, text}
    /\ pc' = "paste"
    /\ UNCHANGED <<text, stageA, queue, observed, answers, client, setup, calls, copies,
                   observers>>

\* A failure leaves the old text or none.
SetClipboard ==
    /\ pc = "clip"
    /\ \/ NextCandidate /\ clip' \in {clip, NoText}
       \/ clip' = text /\ pc' = "paste" /\ UNCHANGED <<queue, observed, answers>>
    /\ UNCHANGED <<text, stageA, client, setup, calls, copies, observers>>

\* Ctrl+V is put into the input queue; the client gets it where the clicks before it
\* have set the caret.
Paste ==
    /\ pc = "paste"
    /\ \/ NextCandidate /\ UNCHANGED input
       \/ /\ Len(box) < MaxBox
          /\ input' = IF caret THEN Append(input, "paste") ELSE input
          /\ pc' = "compare"
          /\ UNCHANGED <<queue, observed, answers>>
    /\ UNCHANGED <<text, stageA, caret, box, chat, clip, setup, calls, copies,
                   observers>>

\* Two pictures may differ at any spot if there are two, unless both are blank: even
\* a caret blinks.
MayDiffer(s, t) == "none" \notin {s.kind, t.kind} /\ {s.kind, t.kind} # {"blank"}

\* The rectangle of the candidate before and after.  A text that was pasted may change
\* less than a hundredth of it, or not be drawn yet, and then it is pasted again for
\* the next candidate.
Compare ==
    /\ pc = "compare"
    /\ \/ NextCandidate
       \/ /\ \E s \in Shots : MayDiffer(before, s)
          /\ pc' = "enter"
          /\ UNCHANGED <<queue, observed, answers>>
    /\ UNCHANGED <<text, stageA, client, clip, setup, calls, copies, observers>>

--------------------------------------------------------------------------------
(* Stages C and D.                                                               *)

\* Slip: Enter is pressed again when it failed.
PressEnterAgain ==
    /\ pc = "enter"
    /\ presses' = presses + 1
    /\ input' = IF caret THEN Append(input, "enter") ELSE input
    /\ pc' \in {"look", "enter"}
    /\ UNCHANGED <<text, stageA, queue, observed, answers, caret, box, chat, clip, setup, calls,
                   copies, left, late, tried, copied>>

\* SendKeys fails before it presses a key, or Enter is put into the input queue.
PressEnter ==
    /\ pc = "enter"
    /\ \/ /\ Finish("SEND_ACTION_FAILED")
          /\ UNCHANGED <<input, evidence, verdict, presses>>
       \/ /\ presses' = presses + 1
          /\ input' = IF caret THEN Append(input, "enter") ELSE input
          /\ pc' = "look"
          /\ UNCHANGED <<queue, observed, answers>>
    /\ UNCHANGED <<text, stageA, caret, box, chat, clip, setup, calls, copies,
                   left, late, tried, copied>>

\* EnumerateAccessibleNodes and FilterMessageAreaNodes: a failure is an empty list.
MessageNodes == {0, IF setup.exposes THEN own + others ELSE 0}

\* A screenshot, and the nodes that stand for those before the send.
Look ==
    /\ pc = "look"
    /\ after' \in Shots
    /\ nodes' \in MessageNodes
    /\ pc' = "judge"
    /\ UNCHANGED <<text, stageA, queue, before, answers, client, clip, setup, calls, copies,
                   observers>>

\* Does one of n message nodes contain the content?  Those of old messages may, and that
\* of the new one need not: nodes may have no name.
ContentSeen(n) == {FALSE, n > 0}

\* What VerifyMessageSendEnhanced is given: no screenshots after the click and after
\* Enter, two lists of nodes from after the send.  Pictures of different states differ.
Observations(n) ==
    [newNodes : {n - nodes}, match : ContentSeen(n),
     clickDiff : {-1}, pasteDiff : {-1}, areaDiffs : {{0}},
     changed : BOOLEAN, diff : Diffs \cup {0},
     indicator : IF after.kind = "none" THEN {FALSE} ELSE BOOLEAN]

Consistent(o) ==
    /\ o.changed <=> o.diff > 0
    /\ o.changed => MayDiffer(before, after)
    /\ after # before /\ MayDiffer(before, after) => o.changed

\* Slip: a new node is enough, whatever the overall confidence.
VerifiedByNodes(o) ==
    /\ o.newNodes > 0 \/ o.changed
    /\ o.newNodes > 0 \/ MoreThan(Assess(Certain, ConfidenceEnhanced(o), o.newNodes), 50)

\* SendVerified, with the strong signals spelt out.
SendVerified(o) ==
    LET overall == Assess(Certain, ConfidenceEnhanced(o), o.newNodes) IN
    /\ o.newNodes > 0 \/ o.changed
    /\ MoreThan(overall, 50)
    /\ \/ o.newNodes > 0
       \/ o.changed /\ o.diff > 10
       \/ MoreThan(overall, 80)

Judge ==
    /\ pc = "judge"
    /\ \E n \in MessageNodes : \E o \in Observations(n) :
          /\ Consistent(o)
          /\ evidence' = [newNodes |-> o.newNodes, changed |-> o.changed]
          /\ Finish(IF SendVerified(o) THEN "SEND_VERIFIED" ELSE "SEND_NOT_VERIFIED")
    /\ UNCHANGED <<text, stageA, verdict, client, clip, setup, calls,
                   copies, observers>>

\* What Verify hands to VerifyMessageSend: nothing from before, no screenshots.
VerifyObservation(n, seen) == [newNodes |-> n, match |-> seen, changed |-> FALSE, diff |-> 0]

\* adapter.Verify between two calls: FocusWindow fails, or the state is assessed.
Verify ==
    /\ pc = "idle" /\ calls > 0
    /\ \/ verdict' = [state |-> "FOCUS_FAILED", nodes |-> 0]
       \/ \E n \in MessageNodes : \E seen \in ContentSeen(n) :
             LET message == ConfidencePlain(VerifyObservation(n, seen)) IN
             verdict' = [state |-> DeliveryState(Assess(Certain, message, n)), nodes |-> n]
    /\ UNCHANGED <<pc, text, stageA, queue, observed, evidence, result, client, clip, setup,
                   calls, copies, observers>>

--------------------------------------------------------------------------------
(* The client and the world around.                                              *)

Halves == (Texts \cup {Foreign}) \X {1, 2}

Body(t) == <<<<t, 1>>, <<t, 2>>>>

\* Text t is put into s after its first n halves.
Insert(s, n, t) == SubSeq(s, 1, n) \o Body(t) \o SubSeq(s, n + 1, Len(s))

\* The client takes a Ctrl+V: what the clipboard holds now goes in where the caret is,
\* which a click at the left quarter of the candidate may have set anywhere in the text.
TakePaste ==
    /\ input # <<>> /\ Head(input) = "paste"
    /\ input' = Tail(input)
    /\ \/ clip = NoText /\ UNCHANGED box
       \/ clip # NoText /\ \E n \in 0..Len(box) : box' = Insert(box, n, clip)
    /\ UNCHANGED <<pc, text, stageA, queue, observed, answers, caret, chat, clip, setup, calls,
                   copies, observers>>

\* It takes Enter, and sends what is in the box if it is set up so.
TakeEnter ==
    /\ input # <<>> /\ Head(input) = "enter"
    /\ input' = Tail(input)
    /\ \/ /\ setup.enterSends /\ box # <<>>
          /\ own' = own + 1
          /\ box' = <<>>
       \/ /\ ~(setup.enterSends /\ box # <<>>)
          /\ UNCHANGED <<box, own>>
    /\ UNCHANGED <<pc, text, stageA, queue, observed, answers, caret, others, clip, setup,
                   calls, copies, observers>>

Incoming ==
    /\ others < MaxIncoming
    /\ others' = others + 1
    /\ UNCHANGED <<pc, text, stageA, queue, observed, answers, caret, input, box, own, clip, setup,
                   calls, copies, observers>>

PastePending == \E i \in DOMAIN input : input[i] = "paste"

\* Another program copies a text.
Copy ==
    /\ copies < MaxCopies
    /\ copies' = copies + 1
    /\ clip' = Foreign
    /\ copied' = (copied \/ pc = "paste" \/ PastePending)
    /\ UNCHANGED <<pc, text, stageA, queue, observed, answers, client, setup, calls, left,
                   late, tried, presses>>

Next ==
    \/ \E t \in Texts : Begin(t)
    \/ Detect \/ Probe \/ Reprobe
    \/ CaptureBefore \/ ClickCandidate \/ SetClipboard \/ Paste \/ Compare
    \/ PressEnter \/ Look \/ Judge
    \/ Verify
    \/ TakePaste \/ TakeEnter
    \/ Incoming \/ Copy

Spec == Init /\ [][Next]_vars

--------------------------------------------------------------------------------
(* Properties.                                                                   *)

Shot == [kind : {"none", "blank", "real"}, box : Nat, chat : Nat]

\* Every variable keeps to its range.
TypeOK ==
    /\ pc \in Stages \cup {"idle"} /\ text \in Texts
    /\ number \in Nat /\ over \subseteq 1..number /\ Len(probes) <= number
    /\ probes \in Seq([ok : BOOLEAN, score : Int, strong : BOOLEAN])
    /\ queue \in Seq(1..number)
    /\ before \in Shot /\ after \in Shot /\ nodes \in Nat
    /\ caret \in BOOLEAN /\ input \in Seq({"paste", "enter"})
    /\ box \in Seq(Halves) /\ own \in Nat /\ others \in Nat
    /\ clip \in Texts \cup {Foreign, NoText}
    /\ setup \in [enterSends : BOOLEAN, exposes : BOOLEAN]
    /\ calls \in Nat /\ copies \in Nat /\ presses \in Nat
    /\ left \in Seq(Halves) /\ late \in BOOLEAN
    /\ tried \subseteq 1..number /\ copied \in BOOLEAN

Contract ==
    INSTANCE SendContract WITH
        phase <- IF pc = "idle" THEN "idle"
                 ELSE IF pc \in {"look", "judge"} THEN "pressed" ELSE "trying",
        outcome <- CASE result = "none" -> "none"
                     [] result = "SEND_VERIFIED" -> "verified"
                     [] result = "SEND_NOT_VERIFIED" -> "unverified"
                     [] OTHER -> "failed"

\* A reason code tells whether Enter was pressed, whichever call of the bridge failed:
\* this is what ReplyExecute takes a send to be.
KeepsSendContract == Contract!Spec

\* What a paste of this call may have put into the box.
Pasted == {text} \cup (IF copied THEN {Foreign} ELSE {})

\* What stands in s stands in that order in r.
InOrder(s, r) ==
    \A i, j \in DOMAIN s : i < j =>
        \E p, q \in DOMAIN r : p < q /\ r[p] = s[i] /\ r[q] = s[j]

\* When Enter sends, the box holds what was left in it by earlier calls, in its order, and
\* in it the content of this call, once for each candidate over the box that was clicked in
\* vain, and at least once: not after what was left but anywhere in it, and broken itself
\* only by another paste.  An empty box and a single candidate over it make it exact,
\* unless another program copied before the client took the paste.  A client that had not
\* taken all keys of an earlier call when this one began is left out.
EnterSendsContent ==
    [][LET mine == Len(box) - Len(left)
       IN  (own' > own /\ ~late) =>
              /\ mine \in {2 * k : k \in 1..Cardinality(tried \cap over)}
              /\ InOrder(left, box)
              /\ \A i \in DOMAIN box :
                    box[i][1] \in Pasted \/ \E j \in DOMAIN left : box[i] = left[j]
              /\ mine = 2 => \E n \in 0..Len(left), t \in Pasted :
                                box = Insert(left, n, t)]_vars

\* No verdict rests on message nodes.  Stage D verifies exactly if the two pictures differ
\* and the number of nodes does not; Verify verifies only if it sees no node at all, and
\* then it does; it never answers "unknown".
VerdictsRestOnPixels ==
    /\ pc = "idle" /\ result \in {"SEND_VERIFIED", "SEND_NOT_VERIFIED"} =>
          (result = "SEND_VERIFIED" <=> evidence.changed /\ evidence.newNodes = 0)
    /\ verdict.state \in {"verified", "sent_unverified", "unknown"} =>
          verdict.state = IF verdict.nodes = 0 THEN "verified" ELSE "sent_unverified"

\* A message that landed is not reported as unverified while the window can be captured,
\* unless messages came in between two enumerations of nodes, or one of them failed.
LandedIsVerified ==
    [][(/\ pc = "judge" /\ pc' = "idle"
        /\ before.kind = "real" /\ after.kind = "real" /\ after.chat > before.chat
        /\ evidence'.newNodes = 0)
       => result' = "SEND_VERIFIED"]_vars
================================================================================
