-------------------------------- MODULE Evidence --------------------------------
(* What the rules of the chat adapter conclude from what was observed after a     *)
(* send or a focus: wechat/rules.go.  Differences of screenshots are integers in  *)
(* thousandths (0.01 is 10).  A confidence is an exact fraction [n, d] of         *)
(* hundredths; for every sum the program reaches, those on a threshold included,  *)
(* Go's float64 gives the same verdicts.                                          *)
EXTENDS Integers

\* Weight w counts if the evidence is there.
Weigh(there, w) == IF there THEN w ELSE 0

\* A penalty never takes a score below zero.
Penalised(score, there, w) ==
    IF there THEN (IF score < w THEN 0 ELSE score - w) ELSE score

AtLeast(c, hundredths) == 100 * c.n >= hundredths * c.d
MoreThan(c, hundredths) == 100 * c.n > hundredths * c.d

Certain == [n |-> 1, d |-> 1]

--------------------------------------------------------------------------------
(* Evidence of a send.  An observation o of VerifyMessageSendEnhanced has         *)
(*   newNodes    message nodes after minus message nodes before                   *)
(*   match       a message node after contains the content                        *)
(*   clickDiff, pasteDiff   change of the input box, or -1 without screenshots    *)
(*   areaDiffs   the set of the three timed changes, 0 without screenshots        *)
(*   changed, diff   bytes of the screenshots before and after                    *)
(*   indicator   a red mark was found                                             *)

SuspectedInputNotFocused(o) == o.clickDiff \in 0..9
SuspectedPasteFailed(o) == o.pasteDiff \in 0..9

\* Rules 1 to 5; each may set the flag and none clears it.
SuspectedSendFailed(o) ==
    \/ SuspectedInputNotFocused(o)
    \/ SuspectedPasteFailed(o)
    \/ \A d \in o.areaDiffs : d < 10
    \/ o.indicator
    \/ o.newNodes <= 0 /\ o.diff < 50

ConfidenceEnhanced(o) ==
    LET score == Weigh(o.newNodes > 0, 25) + Weigh(o.match, 20)
                 + Weigh(o.clickDiff > 10, 15) + Weigh(o.pasteDiff > 10, 10)
                 + Weigh(\E d \in o.areaDiffs : d > 10, 15)
                 + Weigh(~o.indicator, 10)
    IN [n |-> Penalised(score, SuspectedSendFailed(o), 40), d |-> 135]

\* The plain rule, used by Verify: fewer observations, other weights.
ConfidencePlain(o) ==
    LET score == Weigh(o.newNodes > 0, 40) + Weigh(o.match, 30)
                 + Weigh(o.changed, 20) + Weigh(o.diff > 10, 10)
    IN [n |-> Penalised(score, o.newNodes <= 0 /\ o.diff < 50, 30), d |-> 130]

\* Slip: the evidence of the message is weighed in even when there is none.
AssessCombined(focus, message, newNodes) ==
    [n |-> 4 * focus.n * message.d + 6 * message.n * focus.d,
     d |-> 10 * focus.d * message.d]

\* The overall confidence: focus and message, 40 to 60, or the focus alone if the
\* message evidence looks empty.
Assess(focus, message, newNodes) ==
    IF message.n = 0 /\ newNodes = 0
    THEN focus
    ELSE [n |-> 4 * focus.n * message.d + 6 * message.n * focus.d,
          d |-> 10 * focus.d * message.d]

\* The delivery state of an overall confidence, also that of a focus on its own.
DeliveryState(c) ==
    IF AtLeast(c, 80) THEN "verified"
    ELSE IF AtLeast(c, 50) THEN "sent_unverified" ELSE "unknown"

--------------------------------------------------------------------------------
(* Evidence of a focus.  An observation has five Boolean fields.                  *)

FocusConfidence(e) ==
    [n |-> Weigh(e.exists, 20) + Weigh(e.active, 30) + Weigh(e.title, 20)
           + Weigh(e.panel, 15) + Weigh(e.messages, 15),
     d |-> 100]
================================================================================
