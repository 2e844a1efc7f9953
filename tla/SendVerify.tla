------------------------------- MODULE SendVerify -------------------------------
(* The send-and-verify workflow over the idempotency store: RunSendVerifyWorkflow *)
(* of tests/integration/send_verify_test.go, the one place where the repository   *)
(* uses the store in full.  A run creates a record under a task ID and a dedupe   *)
(* key, and moves its status on while it sends and verifies.  Every call of the   *)
(* adapter may succeed or fail.  The test calls the helper from one goroutine; the *)
(* module takes any number of workers and any sequence of runs, with the same task *)
(* or with a fresh one and the same key, since each call of the store is atomic   *)
(* (its mutex): one worker is the test.                                           *)
EXTENDS Naturals, FiniteSets

CONSTANTS
    Workers,      \* goroutines that run the workflow
    Tasks,        \* task IDs
    DedupeKeys    \* dedupe keys

VARIABLES
    at,        \* per worker, the call it makes next, or "idle"
    task,      \* per worker, taskID of its run
    key,       \* per worker, dedupeKey of its run
    records,   \* the store
    sends      \* calls of adapter.Send: by whom, for what, and what came of it (observer)

vars == <<at, task, key, records, sends>>
runVars == <<task, key>>

Calls == {"create", "mark_sending", "send", "mark_failed", "mark_sent", "verify",
          "mark_unknown", "mark_verified"}

Statuses == {"pending", "sending", "sent_unverified", "failed", "verified",
             "unknown_delivery_state"}

Store == INSTANCE IdempotencyStore WITH TaskIDs <- Tasks

Init ==
    /\ at = [w \in Workers |-> "idle"]
    /\ task \in [Workers -> Tasks]
    /\ key \in [Workers -> DedupeKeys]
    /\ records = {}
    /\ sends = {}

Goto(w, call) == at' = [at EXCEPT ![w] = call]

\* RunSendVerifyWorkflow is called.
Begin(w, t, k) ==
    /\ at[w] = "idle"
    /\ Goto(w, "create")
    /\ task' = [task EXCEPT ![w] = t]
    /\ key' = [key EXCEPT ![w] = k]
    /\ UNCHANGED <<records, sends>>

\* Slip: the record is made without a status.
PendingUnset(w) == [TaskID |-> task[w], DedupeKey |-> key[w], Status |-> ""]

\* The record a run creates.
Pending(w) == [TaskID |-> task[w], DedupeKey |-> key[w], Status |-> "pending"]

\* Slip: only the task ID is looked at.
CreateByTask(w) ==
    /\ at[w] = "create"
    /\ \/ /\ Store!HasRecord(records, task[w])
          /\ Goto(w, "idle") /\ UNCHANGED records
       \/ /\ ~Store!HasRecord(records, task[w])
          /\ records' = records \cup {Pending(w)}
          /\ Goto(w, "mark_sending")
    /\ UNCHANGED <<runVars, sends>>

\* Slip: a refused record is only logged.
CreateUnchecked(w) ==
    /\ at[w] = "create"
    /\ records' = Store!CreateRecord(records, Pending(w))
    /\ Goto(w, "mark_sending")
    /\ UNCHANGED <<runVars, sends>>

\* Step 1: a refused record ends the run.
Create(w) ==
    /\ at[w] = "create"
    /\ records' = Store!CreateRecord(records, Pending(w))
    /\ \/ Store!CreateRefused(records, Pending(w)) /\ Goto(w, "idle")
       \/ ~Store!CreateRefused(records, Pending(w)) /\ Goto(w, "mark_sending")
    /\ UNCHANGED <<runVars, sends>>

\* A step that records status s; an unknown task is an error, which ends the run.
Mark(w, call, s, next) ==
    /\ at[w] = call
    /\ records' = Store!UpdateStatus(records, task[w], s)
    /\ \/ Store!HasRecord(records, task[w]) /\ Goto(w, next)
       \/ ~Store!HasRecord(records, task[w]) /\ Goto(w, "idle")
    /\ UNCHANGED <<runVars, sends>>

\* Step 2.
MarkSending(w) == Mark(w, "mark_sending", "sending", "send")

\* Step 3: adapter.Send.
Send(w) ==
    /\ at[w] = "send"
    /\ \E ok \in BOOLEAN :
          /\ sends' = sends \cup {[by |-> w, task |-> task[w], key |-> key[w], ok |-> ok,
                                   nth |-> Cardinality(sends)]}
          /\ Goto(w, IF ok THEN "mark_sent" ELSE "mark_failed")
    /\ UNCHANGED <<runVars, records>>

MarkFailed(w) == Mark(w, "mark_failed", "failed", "idle")

\* Step 4.
MarkSent(w) == Mark(w, "mark_sent", "sent_unverified", "verify")

\* Slip: a time-out of the verification counts as a failure to send.
VerifyFails(w) ==
    /\ at[w] = "verify"
    /\ \E seen \in BOOLEAN : Goto(w, IF seen THEN "mark_verified" ELSE "mark_failed")
    /\ UNCHANGED <<runVars, records, sends>>

\* Slip: a verification that times out ends the run as an error does.
VerifyGivesUp(w) ==
    /\ at[w] = "verify"
    /\ \E seen \in BOOLEAN : Goto(w, IF seen THEN "mark_verified" ELSE "idle")
    /\ UNCHANGED <<runVars, records, sends>>

\* Step 5: adapter.Verify.
Verify(w) ==
    /\ at[w] = "verify"
    /\ \E seen \in BOOLEAN : Goto(w, IF seen THEN "mark_verified" ELSE "mark_unknown")
    /\ UNCHANGED <<runVars, records, sends>>

MarkUnknown(w) == Mark(w, "mark_unknown", "unknown_delivery_state", "idle")

\* Step 6.
MarkVerified(w) == Mark(w, "mark_verified", "verified", "idle")

--------------------------------------------------------------------------------

Step(w) ==
    \/ Create(w) \/ MarkSending(w) \/ Send(w) \/ MarkFailed(w) \/ MarkSent(w)
    \/ Verify(w) \/ MarkUnknown(w) \/ MarkVerified(w)

Next == \E w \in Workers :
            Step(w) \/ \E t \in Tasks, k \in DedupeKeys : Begin(w, t, k)

Spec == Init /\ [][Next]_vars

\* A run that has begun is scheduled, and the adapter's calls return.
FairSpec == Spec /\ \A w \in Workers : WF_vars(Step(w))

--------------------------------------------------------------------------------
(* Properties.                                                                   *)

\* Every variable keeps to its range.
TypeOK ==
    /\ at \in [Workers -> Calls \cup {"idle"}]
    /\ task \in [Workers -> Tasks]
    /\ key \in [Workers -> DedupeKeys]
    /\ records \subseteq Store!Record
    /\ sends \subseteq [by : Workers, task : Tasks, key : DedupeKeys, ok : BOOLEAN, nth : Nat]

\* However many workers run however many tasks under a dedupe key, and however
\* often, adapter.Send is called for the key once (send_verify_test.go:300, a task of
\* unknown outcome is blocked), and so it is for a task.
KeySentOnce ==
    \A m, n \in sends : (m.key = n.key \/ m.task = n.task) => m = n

\* The store does not lie: a record that is pending has not been sent, one that says
\* it was sent (verified or not) or that its state is unknown has been sent with
\* success, and one that failed has been sent without, under its own key.
StatusIsTrue ==
    \A r \in records :
        LET mine == {n \in sends : n.task = r.TaskID} IN
        /\ \A n \in mine : n.key = r.DedupeKey
        /\ r.Status = "pending" => mine = {}
        /\ r.Status \in {"sent_unverified", "verified", "unknown_delivery_state"} =>
              \E n \in mine : n.ok
        /\ r.Status = "failed" => mine # {} /\ \A n \in mine : ~n.ok

\* How far a status is on the way pending -> sending -> sent_unverified -> the ends
\* (README.md:523).  Steps may be left out: the workflow goes from sending to failed,
\* the tests from pending to sent_unverified and from sending to an unknown state.
Ends == {"verified", "unknown_delivery_state", "failed"}

Rank == [pending |-> 0, sending |-> 1, sent_unverified |-> 2,
         verified |-> 3, unknown_delivery_state |-> 3, failed |-> 3]

\* Whoever else runs the workflow for its task or its key, a record's status does not
\* go back, an end is not taken for another, and the record stays under its names.
StatusNeverGoesBack ==
    [][\A r \in records : \E s \in records' :
          /\ s.TaskID = r.TaskID /\ s.DedupeKey = r.DedupeKey
          /\ s.Status = r.Status \/ Rank[r.Status] < Rank[s.Status]]_vars

\* A record never stays half way: it comes to an end.
RecordsSettle ==
    \A t \in Tasks :
        Store!HasRecord(records, t)
            ~> \E r \in records : r.TaskID = t /\ r.Status \in Ends
================================================================================
