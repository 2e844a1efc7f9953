----------------------------- MODULE ReplyContract -----------------------------
(* What the agent worker promises about one reply.execute command, without its   *)
(* stages, its connection or its stores.  An attempt is one run of the handler   *)
(* for one task.  During an attempt Enter is pressed in the chat window at most  *)
(* once, and never for a task that is settled (has a record in the idempotency   *)
(* store); when the attempt is over a verdict is logged, and the verdict is      *)
(* honest about the press.  A restart forgets what was settled, because the      *)
(* store lives in memory.                                                        *)
EXTENDS Sequences

CONSTANTS
    Tasks,     \* identifiers of reply tasks
    NoTask     \* "no attempt is under way"

VARIABLES
    attempt,   \* the task under way, or NoTask
    pressed,   \* has Enter been pressed in this attempt
    settled,   \* tasks the worker will refuse to run again
    verdicts   \* the finished attempts, in order

cvars == <<attempt, pressed, settled, verdicts>>

Verdicts == {"completed", "failed_before_send", "send_failed", "skipped", "dropped", "died"}

\* A verdict may be given to an attempt only if it tells the truth about the press:
\* a completed task was entered, and only a failed or interrupted send leaves doubt.
Honest(v, p) ==
    /\ v = "completed" => p
    /\ v \in {"failed_before_send", "skipped", "dropped"} => ~p

CInit ==
    /\ attempt = NoTask
    /\ pressed = FALSE
    /\ settled = {}
    /\ verdicts = <<>>

CBegin(t) ==
    /\ attempt = NoTask
    /\ attempt' = t
    /\ UNCHANGED <<pressed, settled, verdicts>>

CPress ==
    /\ attempt # NoTask
    /\ attempt \notin settled
    /\ ~pressed
    /\ pressed' = TRUE
    /\ UNCHANGED <<attempt, settled, verdicts>>

\* The attempt ends.  Only a completed attempt may settle its task (the store may
\* also refuse the record, and then it does not).
CConclude(v) ==
    /\ attempt # NoTask
    /\ Honest(v, pressed)
    /\ verdicts' = Append(verdicts, [task |-> attempt, verdict |-> v, pressed |-> pressed])
    /\ settled' \in {settled, IF v = "completed" THEN settled \cup {attempt} ELSE settled}
    /\ attempt' = NoTask
    /\ pressed' = FALSE

\* The process goes away; an attempt under way is cut short.
CRestart ==
    /\ settled' = {}
    /\ attempt' = NoTask
    /\ pressed' = FALSE
    /\ verdicts' = IF attempt = NoTask
                   THEN verdicts
                   ELSE Append(verdicts,
                               [task |-> attempt, verdict |-> "died", pressed |-> pressed])

CNext ==
    \/ \E t \in Tasks : CBegin(t)
    \/ CPress
    \/ \E v \in Verdicts \ {"died"} : CConclude(v)
    \/ CRestart

CSpec == CInit /\ [][CNext]_cvars
================================================================================
