-------------------------- MODULE ReplyExecute_proofs --------------------------
(* Proofs about ReplyExecute, for every set of tasks and every bound.            *)
EXTENDS ReplyExecute, SequenceTheorems, FiniteSetTheorems, TLAPS

--------------------------------------------------------------------------------
(* The inductive invariant: where the process and the loop are, what the stage   *)
(* says about the press, the progress count and the store.                       *)

\* A process that is down holds nothing; one that is up was started.
DownIsEmpty ==
    /\ proc = "down" => /\ conn = "nil" /\ loop = "off" /\ wire = <<>>
                        /\ stage = "idle" /\ records = {}
    /\ proc = "up" => starts \in 1..MaxStarts /\ conn # "nil" /\ loop # "off"

\* The handler is between two stages exactly when the loop is handling a command.
HandlingInv ==
    /\ stage = "idle" <=> cur = NoTask
    /\ stage # "idle" <=> loop = "handling"

\* Enter has been pressed exactly in the stages after the press.
PressInv == pressed <=> stage \in {"entered", "verifying", "finishing"}

\* Progress events that may have arrived when a stage begins.
SeenBefore == [s \in Stages |->
    CASE s = "detecting" -> 0
      [] s = "scanning"  -> 1
      [] s = "finding"   -> 2
      [] s = "focusing"  -> 3
      [] s = "sending"   -> 4
      [] s \in {"entered", "verifying"} -> 5
      [] OTHER -> 6]

SeenInv == seen <= SeenBefore[stage]

\* Past the check of the store the task has no record.
AdmittedInv ==
    stage \notin {"idle", "admit"} => ~Store!HasRecord(records, cur)

IInv == TypeOK /\ DownIsEmpty /\ HandlingInv /\ PressInv /\ SeenInv /\ AdmittedInv

--------------------------------------------------------------------------------
(* Facts about one step.                                                         *)

\* Every record the handler makes is one of the store's type.
LEMMA CompletedRecordType ==
    ASSUME NEW t \in Tasks
    PROVE  CompletedRecord(t) \in Store!Record
  BY DEF CompletedRecord, Store!Record, NoKey

\* CreateRecord adds at most the record it is given.
LEMMA CreateRecordAdds ==
    ASSUME NEW S, NEW r
    PROVE  /\ S \subseteq Store!CreateRecord(S, r)
           /\ Store!CreateRecord(S, r) \subseteq S \cup {r}
  BY DEF Store!CreateRecord

\* No process, no task, no record.
LEMMA InitIInv == Init => IInv
  <1> SUFFICES ASSUME Init PROVE IInv
    OBVIOUS
  <1> USE DEF Init
  <1>1. TypeOK
    <2>1. wire \in Seq(Tasks \cup Others) /\ log \in Seq(Entry)
      OBVIOUS
    <2>2. pressed \in BOOLEAN /\ records \subseteq Store!Record
      BY Zenon
    <2>3. /\ delivered \in 0..MaxDeliveries /\ starts \in 0..MaxStarts /\ seen \in 0..6
          /\ history \in [Chats -> Seq(Tasks)] /\ enters \in [Tasks -> Nat]
      BY ReplyExecuteAssumption
    <2> QED
      BY <2>1, <2>2, <2>3 DEF TypeOK, Stages
  <1>2. DownIsEmpty /\ HandlingInv /\ PressInv /\ AdmittedInv
    BY DEF DownIsEmpty, HandlingInv, PressInv, AdmittedInv
  <1>3. SeenInv
    BY DEF SeenInv, SeenBefore, Stages
  <1> QED
    BY <1>1, <1>2, <1>3 DEF IInv

--------------------------------------------------------------------------------
(* One lemma per kind of step.                                                   *)

\* Returning to the loop keeps the invariant, whatever the verdict.
LEMMA ReturnIInv ==
    ASSUME IInv, stage # "idle",
           NEW e \in {"completed", "failed", "skipped", "dropped"},
           NEW c \in Codes \cup {"none"}, NEW r \in BOOLEAN,
           Return(e, c, r), seen' \in 0..6, UNCHANGED keptVars,
           records' \subseteq Store!Record,
           history' \in [Chats -> Seq(Tasks)], enters' \in [Tasks -> Nat]
    PROVE  IInv'
  <1> USE DEF keptVars
  <1>1. starts \in 1..MaxStarts /\ cur \in Tasks /\ pressed \in BOOLEAN /\ proc = "up"
    BY DEF IInv, DownIsEmpty, HandlingInv, TypeOK
  <1>2. [task |-> cur, event |-> e, code |-> c, pressed |-> pressed, reached |-> r,
         seen |-> seen', life |-> starts] \in Entry
    BY <1>1 DEF Entry
  <1>3. /\ log' \in Seq(Entry)
        /\ loop' = "reading" /\ stage' = "idle" /\ cur' = NoTask /\ pressed' = FALSE
    BY <1>2 DEF Return, IInv, TypeOK
  <1>4. TypeOK'
    BY <1>3 DEF IInv, TypeOK, Stages
  <1>5. DownIsEmpty' /\ HandlingInv' /\ PressInv' /\ AdmittedInv'
    BY <1>1, <1>3 DEF IInv, DownIsEmpty, HandlingInv, PressInv, AdmittedInv
  <1>6. SeenInv'
    BY <1>3 DEF SeenInv, SeenBefore, Stages
  <1> QED
    BY <1>4, <1>5, <1>6 DEF IInv

\* Going on to the next stage keeps it, if the stage fits what has happened.
LEMMA ContinueIInv ==
    ASSUME IInv, stage # "idle",
           NEW next \in Stages \ {"idle", "admit"},
           Continue(next), ~Store!HasRecord(records, cur),
           pressed <=> next \in {"entered", "verifying", "finishing"},
           seen' \in 0..6, seen' <= SeenBefore[next],
           UNCHANGED <<keptVars, records, history, enters>>
    PROVE  IInv'
  <1> USE DEF keptVars, Continue
  <1>1. TypeOK'
    BY DEF IInv, TypeOK
  <1>2. DownIsEmpty' /\ HandlingInv' /\ PressInv'
    BY DEF IInv, DownIsEmpty, HandlingInv, PressInv
  <1>3. SeenInv' /\ AdmittedInv'
    BY DEF SeenInv, AdmittedInv, SeenBefore
  <1> QED
    BY <1>1, <1>2, <1>3 DEF IInv

\* Announcing a stage adds at most one progress event.
LEMMA AnnounceBound ==
    ASSUME IInv, Announce, stage \notin {"idle", "admit", "finishing"}
    PROVE  seen' \in 0..6 /\ seen' <= SeenBefore[stage] + 1
  BY DEF IInv, TypeOK, SeenInv, SeenBefore, Stages, Announce

\* The side conditions every stage of the handler shares.
LEMMA StageFacts ==
    ASSUME IInv
    PROVE  /\ records \subseteq Store!Record
           /\ history \in [Chats -> Seq(Tasks)] /\ enters \in [Tasks -> Nat]
           /\ stage \notin {"idle", "admit"} => ~Store!HasRecord(records, cur)
           /\ stage # "idle" => cur \in Tasks
           /\ Reaches \in BOOLEAN
  BY DEF IInv, TypeOK, AdmittedInv, HandlingInv, Reaches

\* A step of an adapter stage: announce, then go on or report a failure.
LEMMA AdapterStageIInv ==
    ASSUME IInv,
           NEW here \in {"detecting", "scanning", "finding", "focusing"},
           NEW next \in {"scanning", "finding", "focusing", "sending"},
           SeenBefore[next] = SeenBefore[here] + 1,
           NEW code \in Codes, AdapterStage(here, next, code)
    PROVE  IInv'
  <1> USE DEF AdapterStage
  <1>1. stage = here /\ next \in Stages \ {"idle", "admit"}
    BY DEF Stages
  <1>2. seen' \in 0..6 /\ seen' <= SeenBefore[next]
    BY <1>1, AnnounceBound
  <1>3. ~pressed
    BY <1>1 DEF IInv, PressInv
  <1>4. CASE Continue(next)
    BY <1>1, <1>2, <1>3, <1>4, StageFacts, ContinueIInv
  <1>5. CASE Return("failed", code, Reaches)
    <2>1. UNCHANGED keptVars /\ records' = records /\ history' = history /\ enters' = enters
      OBVIOUS
    <2> QED
      BY <1>1, <1>2, <1>5, <2>1, StageFacts, ReturnIInv
  <1> QED
    BY <1>4, <1>5

\* Steps of the process, the socket and the loop, outside the handler.
LEMMA OutsideIInv ==
    ASSUME IInv, Environment \/ ReadError \/ ReadOther \/ ReadCommand
    PROVE  IInv'
  <1> USE DEF IInv, agentVars, keptVars
  <1>1. CASE Start
    <2>1. starts' \in 1..MaxStarts
      BY <1>1, ReplyExecuteAssumption DEF Start, TypeOK
    <2>2. TypeOK'
      BY <1>1, <2>1 DEF Start, TypeOK
    <2>3. DownIsEmpty' /\ HandlingInv' /\ PressInv' /\ SeenInv' /\ AdmittedInv'
      BY <1>1, <2>1 DEF Start, DownIsEmpty, HandlingInv, PressInv, SeenInv, AdmittedInv
    <2> QED
      BY <2>2, <2>3
  <1>2. CASE Stop
    <2>1. log' \in Seq(Entry)
      <3>1. CASE cur = NoTask
        BY <1>2, <3>1 DEF Stop, TypeOK
      <3>2. CASE cur # NoTask
        <4>1. [task |-> cur, event |-> "died", code |-> "none", pressed |-> pressed,
               reached |-> FALSE, seen |-> seen, life |-> starts] \in Entry
          BY <1>2, <3>2 DEF Stop, TypeOK, DownIsEmpty, Entry
        <4> QED
          BY <1>2, <3>2, <4>1 DEF Stop, TypeOK
      <3> QED
        BY <3>1, <3>2
    <2>2. TypeOK'
      <3>1. wire' \in Seq(Tasks \cup Others) /\ records' \subseteq Store!Record
        BY <1>2 DEF Stop
      <3>2. /\ history' \in [Chats -> Seq(Tasks)] /\ enters' = enters /\ seen' \in 0..6
            /\ delivered' = delivered /\ starts' = starts
        BY <1>2 DEF Stop
      <3> QED
        BY <1>2, <2>1, <3>1, <3>2 DEF Stop, TypeOK, Stages
    <2>3. DownIsEmpty' /\ HandlingInv' /\ PressInv' /\ AdmittedInv'
      BY <1>2 DEF Stop, DownIsEmpty, HandlingInv, PressInv, AdmittedInv
    <2>4. SeenInv'
      BY <1>2 DEF Stop, SeenInv, SeenBefore, Stages
    <2> QED
      BY <2>2, <2>3, <2>4
  <1>3. CASE Break
    <2>1. PICK n \in 0..Len(wire) : wire' = SubSeq(wire, 1, n)
      BY <1>3 DEF Break
    <2>2. wire' \in Seq(Tasks \cup Others)
      BY <2>1 DEF TypeOK
    <2>3. TypeOK'
      BY <1>3, <2>2 DEF Break, TypeOK
    <2>4. DownIsEmpty' /\ HandlingInv' /\ PressInv' /\ SeenInv' /\ AdmittedInv'
      BY <1>3 DEF Break, TypeOK, DownIsEmpty, HandlingInv, PressInv, SeenInv, AdmittedInv
    <2> QED
      BY <2>3, <2>4
  <1>4. ASSUME NEW t \in Tasks \cup Others, Deliver(t)
        PROVE  IInv'
    <2>1. TypeOK'
      BY <1>4, ReplyExecuteAssumption DEF Deliver, TypeOK
    <2>2. DownIsEmpty' /\ HandlingInv' /\ PressInv' /\ SeenInv' /\ AdmittedInv'
      BY <1>4 DEF Deliver, TypeOK, DownIsEmpty, HandlingInv, PressInv, SeenInv, AdmittedInv
    <2> QED
      BY <2>1, <2>2
  <1>5. CASE ReadError
    BY <1>5 DEF ReadError, TypeOK, DownIsEmpty, HandlingInv, PressInv, SeenInv, AdmittedInv
  <1>6. CASE ReadCommand
    <2>1. Head(wire) \in Tasks /\ Tail(wire) \in Seq(Tasks \cup Others)
      BY <1>6 DEF ReadCommand, TypeOK
    <2>2. TypeOK'
      BY <1>6, <2>1 DEF ReadCommand, TypeOK, Stages
    <2>3. DownIsEmpty' /\ HandlingInv' /\ PressInv' /\ AdmittedInv'
      BY <1>6, <2>1, ReplyExecuteAssumption
      DEF ReadCommand, TypeOK, DownIsEmpty, HandlingInv, PressInv, AdmittedInv
    <2>4. SeenInv'
      BY <1>6 DEF ReadCommand, TypeOK, SeenInv, SeenBefore, Stages
    <2> QED
      BY <2>2, <2>3, <2>4
  <1>7. CASE ReadOther
    <2>1. TypeOK'
      BY <1>7 DEF ReadOther, TypeOK
    <2>2. DownIsEmpty' /\ HandlingInv' /\ PressInv' /\ SeenInv' /\ AdmittedInv'
      BY <1>7 DEF ReadOther, TypeOK, DownIsEmpty, HandlingInv, PressInv, SeenInv, AdmittedInv
    <2> QED
      BY <2>1, <2>2
  <1> QED
    BY <1>1, <1>2, <1>3, <1>4, <1>5, <1>6, <1>7 DEF Environment

\* Steps of the handler.
LEMMA HandlerIInv ==
    ASSUME IInv, Handler
    PROVE  IInv'
  <1> USE DEF keptVars
  <1>1. CASE Admit
    <2>1. /\ stage = "admit" /\ seen' = 0 /\ UNCHANGED keptVars
          /\ records' = records /\ history' = history /\ enters' = enters
      BY <1>1 DEF Admit
    <2>2. seen' \in 0..6 /\ seen' <= SeenBefore["detecting"]
      BY <2>1 DEF SeenBefore, Stages
    <2>3. ~pressed /\ "detecting" \in Stages \ {"idle", "admit"}
      BY <2>1 DEF IInv, PressInv, Stages
    <2>4. CASE \E e \in {"skipped", "dropped"} : Return(e, "none", FALSE)
      BY <2>1, <2>2, <2>4, StageFacts, ReturnIInv
    <2>5. CASE Continue("detecting") /\ ~Store!HasRecord(records, cur)
      BY <2>1, <2>2, <2>3, <2>5, ContinueIInv
    <2> QED
      BY <1>1, <2>4, <2>5 DEF Admit
  <1>2. CASE Detect
    <2>1. SeenBefore["scanning"] = SeenBefore["detecting"] + 1
      BY DEF SeenBefore, Stages
    <2> QED
      BY <1>2, <2>1, AdapterStageIInv, Zenon DEF Detect, Codes
  <1>3. CASE Scan
    <2>1. SeenBefore["finding"] = SeenBefore["scanning"] + 1
      BY DEF SeenBefore, Stages
    <2> QED
      BY <1>3, <2>1, AdapterStageIInv, Zenon DEF Scan, Codes
  <1>4. CASE Find
    <2>1. SeenBefore["focusing"] = SeenBefore["finding"] + 1
      BY DEF SeenBefore, Stages
    <2> QED
      BY <1>4, <2>1, AdapterStageIInv, Zenon DEF Find, Codes
  <1>5. CASE Focus
    <2>1. SeenBefore["sending"] = SeenBefore["focusing"] + 1
      BY DEF SeenBefore, Stages
    <2> QED
      BY <1>5, <2>1, AdapterStageIInv, Zenon DEF Focus, Codes
  <1>6. CASE Send
    <2>1. /\ stage = "sending" /\ UNCHANGED keptVars /\ cur \in Tasks
          /\ records' = records /\ history' = history
      BY <1>6, StageFacts DEF Send
    <2>2. seen' \in 0..6 /\ seen' <= SeenBefore["entered"]
      <3>1. SeenBefore["entered"] = SeenBefore["sending"] + 1
        BY DEF SeenBefore, Stages
      <3> QED
        BY <1>6, <2>1, <3>1, AnnounceBound DEF Send
    <2>3. CASE stage' = "entered"
      <3>1. /\ enters' = [enters EXCEPT ![cur] = @ + 1] /\ pressed' = TRUE
            /\ loop' = loop /\ cur' = cur /\ log' = log
        BY <1>6, <2>1, <2>3 DEF Send, Return
      <3>2. TypeOK'
        BY <2>1, <2>2, <2>3, <3>1 DEF IInv, TypeOK, Stages, keptVars
      <3>3. DownIsEmpty' /\ HandlingInv' /\ PressInv'
        BY <2>1, <2>3, <3>1 DEF IInv, DownIsEmpty, HandlingInv, PressInv, keptVars
      <3>4. SeenInv' /\ AdmittedInv'
        BY <2>1, <2>2, <2>3, <3>1, StageFacts DEF SeenInv, AdmittedInv, SeenBefore
      <3> QED
        BY <3>2, <3>3, <3>4 DEF IInv
    <2>4. CASE Return("failed", "SEND_FAILED", Reaches) /\ enters' = enters
      BY <2>1, <2>2, <2>4, StageFacts, ReturnIInv DEF Codes
    <2> QED
      BY <1>6, <2>3, <2>4 DEF Send
  <1>7. CASE SendReturn
    <2>1. /\ stage = "entered" /\ UNCHANGED keptVars /\ seen' = seen
          /\ records' = records /\ history' = history /\ enters' = enters
      BY <1>7 DEF SendReturn
    <2>2. seen' \in 0..6 /\ seen' <= SeenBefore["verifying"]
      BY <2>1 DEF IInv, TypeOK, SeenInv, SeenBefore, Stages
    <2>3. pressed /\ "verifying" \in Stages \ {"idle", "admit"}
      BY <2>1 DEF IInv, PressInv, Stages
    <2>4. CASE Continue("verifying")
      BY <2>1, <2>2, <2>3, <2>4, StageFacts, ContinueIInv
    <2>5. CASE Return("failed", "SEND_FAILED", Reaches)
      BY <2>1, <2>2, <2>5, StageFacts, ReturnIInv DEF Codes
    <2> QED
      BY <1>7, <2>4, <2>5 DEF SendReturn
  <1>8. CASE Verify
    <2>1. /\ stage = "verifying" /\ UNCHANGED keptVars /\ Continue("finishing") /\ Announce
          /\ records' = records /\ history' = history /\ enters' = enters
      BY <1>8 DEF Verify
    <2>2. seen' \in 0..6 /\ seen' <= SeenBefore["finishing"]
      <3>1. SeenBefore["finishing"] = SeenBefore["verifying"] + 1
        BY DEF SeenBefore, Stages
      <3> QED
        BY <2>1, <3>1, AnnounceBound
    <2>3. pressed /\ "finishing" \in Stages \ {"idle", "admit"}
      BY <2>1 DEF IInv, PressInv, Stages
    <2> QED
      BY <2>1, <2>2, <2>3, StageFacts, ContinueIInv
  <1>9. CASE Finish
    <2>1. /\ stage = "finishing" /\ UNCHANGED keptVars /\ seen' = seen /\ enters' = enters
          /\ cur \in Tasks /\ Return("completed", "none", Reaches)
      BY <1>9, StageFacts DEF Finish
    <2>2. seen' \in 0..6
      BY <2>1 DEF IInv, TypeOK
    <2>3. history' \in [Chats -> Seq(Tasks)]
      <3>1. history \in [Chats -> Seq(Tasks)] /\ ChatOf[cur] \in Chats
        BY <2>1, ReplyExecuteAssumption DEF IInv, TypeOK
      <3>2. AddReply(history[ChatOf[cur]], cur) \in Seq(Tasks)
        BY <2>1, <3>1 DEF AddReply
      <3> QED
        BY <1>9, <3>1, <3>2 DEF Finish
    <2>4. records' \subseteq Store!Record
      BY <1>9, <2>1, StageFacts, CompletedRecordType, CreateRecordAdds DEF Finish
    <2> QED
      BY <2>1, <2>2, <2>3, <2>4, StageFacts, ReturnIInv
  <1> QED
    BY <1>1, <1>2, <1>3, <1>4, <1>5, <1>6, <1>7, <1>8, <1>9 DEF Handler

\* Every step keeps the invariant.
LEMMA NextIInv == IInv /\ [Next]_vars => IInv'
  <1> SUFFICES ASSUME IInv, [Next]_vars PROVE IInv'
    OBVIOUS
  <1>1. CASE Environment \/ ReadError \/ ReadOther \/ ReadCommand
    BY <1>1, OutsideIInv
  <1>2. CASE Handler
    BY <1>2, HandlerIInv
  <1>3. CASE UNCHANGED vars
    BY <1>3 DEF vars, IInv, TypeOK, DownIsEmpty, HandlingInv, PressInv, SeenInv, AdmittedInv
  <1> QED
    BY <1>1, <1>2, <1>3 DEF Next

\* The invariant holds throughout.
LEMMA Invariance == Spec => []IInv
  BY InitIInv, NextIInv, PTL DEF Spec

\* Every variable of the worker keeps to its range, for every set of tasks and
\* every bound: in particular at most six progress events per command.
THEOREM TypeCorrect == Spec => []TypeOK
  <1>1. IInv => TypeOK
    BY DEF IInv
  <1> QED
    BY <1>1, Invariance, PTL

--------------------------------------------------------------------------------
(* The store protects a recorded task.                                           *)

\* Only the send stage presses Enter, and only for the task being handled.
LEMMA OnlySendPresses ==
    ASSUME IInv, [Next]_vars, NEW t \in Tasks, enters'[t] # enters[t]
    PROVE  stage = "sending" /\ t = cur
  <1>1. CASE Send
    BY <1>1 DEF Send, IInv, TypeOK
  <1>2. CASE ~Send
    <2>1. enters' = enters
      BY <1>2 DEF Next, vars, Environment, Start, Stop, Break, Deliver, ReadError, ReadOther,
                  ReadCommand, Handler, Admit, Detect, Scan, Find, Focus, AdapterStage, SendReturn, Verify,
                  Finish, Continue, Return
    <2> QED
      BY <2>1
  <1> QED
    BY <1>1, <1>2

\* Once the idempotency store has a record of a task, Enter is not pressed for that
\* task again while the process lives, however often the task is delivered and
\* wherever the socket breaks (handleReplyExecute asks the store first, and nothing
\* but this handler creates records).
THEOREM StoreProtects == Spec => RecordedNeverEntered
  <1>1. IInv /\ [Next]_vars =>
            [\A t \in Tasks : Store!HasRecord(records, t) => enters'[t] = enters[t]]_vars
    <2> SUFFICES ASSUME IInv, [Next]_vars, NEW t \in Tasks, Store!HasRecord(records, t)
                 PROVE  enters'[t] = enters[t]
      OBVIOUS
    <2>1. SUFFICES ASSUME enters'[t] # enters[t] PROVE FALSE
      OBVIOUS
    <2> QED
      BY <2>1, OnlySendPresses DEF IInv, AdmittedInv
  <1> QED
    BY <1>1, Invariance, PTL DEF Spec, RecordedNeverEntered

--------------------------------------------------------------------------------
(* A record is earned by a completed attempt.                                    *)

\* Appending to a sequence keeps its elements and puts the new one at the end.
LEMMA AppendKeeps ==
    ASSUME NEW S, NEW s \in Seq(S), NEW e
    PROVE  /\ \A i \in DOMAIN s : i \in DOMAIN Append(s, e) /\ Append(s, e)[i] = s[i]
           /\ Len(s) + 1 \in DOMAIN Append(s, e) /\ Append(s, e)[Len(s) + 1] = e
           /\ DOMAIN s = 1..Len(s) /\ DOMAIN Append(s, e) = 1..(Len(s) + 1)
  <1> DEFINE T == S \cup {e}
  <1>1. s \in Seq(T) /\ e \in T
    OBVIOUS
  <1> HIDE DEF T
  <1> QED
    BY <1>1

\* What every step does to the log: nothing, or one more entry.
LEMMA LogGrows ==
    ASSUME IInv, [Next]_vars
    PROVE  log' = log \/ \E e : log' = Append(log, e)
  BY DEF Next, vars, Environment, Start, Stop, Break, Deliver, ReadError, ReadOther, ReadCommand,
         Handler, Admit, Detect, Scan, Find, Focus, AdapterStage, Send, SendReturn, Verify,
         Finish, Continue, Return

\* A completed attempt of the running process stays one until the process ends.
LEMMA CompletedStays ==
    ASSUME IInv, [Next]_vars, proc' = "up", starts' = starts, NEW t \in Tasks,
           CompletedThisLife(t) # {}
    PROVE  CompletedThisLife(t)' # {}
  <1>1. PICK i \in DOMAIN log : /\ proc = "up" /\ log[i].life = starts
                               /\ log[i].task = t /\ log[i].event = "completed"
    BY DEF CompletedThisLife
  <1>2. i \in DOMAIN log' /\ log'[i] = log[i]
    <2>1. log \in Seq(Entry)
      BY DEF IInv, TypeOK
    <2> QED
      BY <1>1, <2>1, LogGrows, AppendKeeps
  <1> QED
    BY <1>1, <1>2 DEF CompletedThisLife

\* The last stage logs a completed attempt of this process.
LEMMA FinishCompletes ==
    ASSUME IInv, Finish, NEW t \in Tasks, cur = t
    PROVE  CompletedThisLife(t)' # {}
  <1>1. proc' = "up" /\ starts' = starts /\ log \in Seq(Entry)
    BY DEF Finish, keptVars, IInv, TypeOK, HandlingInv, DownIsEmpty
  <1>2. PICK e : /\ log' = Append(log, e)
                 /\ e.task = t /\ e.event = "completed" /\ e.life = starts
    BY DEF Finish, Return
  <1>3. Len(log) + 1 \in DOMAIN log' /\ log'[Len(log) + 1] = e
    BY <1>1, <1>2, AppendKeeps
  <1> QED
    BY <1>1, <1>2, <1>3 DEF CompletedThisLife

\* Where the store changes: it is emptied with the process, or Finish adds one record.
LEMMA StoreChanges ==
    ASSUME IInv, [Next]_vars
    PROVE  \/ records' = {}
           \/ proc' = proc /\ starts' = starts /\ records' = records
           \/ Finish
  <1>1. CASE Start
    BY <1>1 DEF Start, IInv, DownIsEmpty
  <1>2. CASE Stop
    BY <1>2 DEF Stop
  <1>3. CASE ~Start /\ ~Stop /\ ~Finish
    BY <1>3 DEF Next, vars, keptVars, Environment, Break, Deliver, ReadError, ReadOther,
                ReadCommand, Handler, Admit, Detect, Scan, Find, Focus, AdapterStage, Send, SendReturn,
                Verify
  <1> QED
    BY <1>1, <1>2, <1>3

\* The store never speaks of a task that this process did not complete: a record
\* is made by the last stage of the handler and lost with the process.
THEOREM RecordsEarned == Spec => []RecordsAreEarned
  <1>1. Init => RecordsAreEarned
    BY DEF Init, RecordsAreEarned
  <1>2. IInv /\ RecordsAreEarned /\ [Next]_vars => RecordsAreEarned'
    <2> SUFFICES ASSUME IInv, RecordsAreEarned, [Next]_vars, NEW r \in records'
                 PROVE  CompletedThisLife(r.TaskID)' # {}
      BY DEF RecordsAreEarned
    <2>1. CASE records' = {}
      BY <2>1
    <2>2. CASE proc' = proc /\ starts' = starts /\ records' = records
      <3>1. r.TaskID \in Tasks /\ CompletedThisLife(r.TaskID) # {}
        BY <2>2 DEF RecordsAreEarned, IInv, TypeOK, Store!Record
      <3>2. proc' = "up"
        BY <2>2, <3>1 DEF CompletedThisLife
      <3> QED
        BY <2>2, <3>1, <3>2, CompletedStays
    <2>3. CASE Finish
      <3>1. cur \in Tasks /\ proc' = "up" /\ starts' = starts
        BY <2>3, StageFacts DEF Finish, keptVars, IInv, HandlingInv, DownIsEmpty, TypeOK
      <3>2. CASE r \in records
        <4>1. r.TaskID \in Tasks /\ CompletedThisLife(r.TaskID) # {}
          BY <3>2 DEF RecordsAreEarned, IInv, TypeOK, Store!Record
        <4> QED
          BY <3>1, <4>1, CompletedStays
      <3>3. CASE r = CompletedRecord(cur)
        BY <2>3, <3>1, <3>3, FinishCompletes DEF CompletedRecord
      <3> QED
        BY <2>3, <3>2, <3>3, CreateRecordAdds DEF Finish
    <2> QED
      BY <2>1, <2>2, <2>3, StoreChanges
  <1> QED
    BY <1>1, <1>2, Invariance, PTL DEF Spec

--------------------------------------------------------------------------------
(* What the gateway sees of a completed task is whole.                           *)

\* While the socket is up the gateway has every progress event so far; the link does
\* not come back within a process.
LinkInv ==
    conn = "open" /\ stage \notin {"idle", "admit"} => seen = SeenBefore[stage]

\* A step that ends no attempt as completed keeps the property.
LEMMA OtherLineWhole ==
    ASSUME IInv, CompletionSeenWhole, NEW e, log' = Append(log, e),
           e.event = "completed" /\ e.reached => e.seen = 6
    PROVE  CompletionSeenWhole'
  <1>1. log \in Seq(Entry)
    BY DEF IInv, TypeOK
  <1>2. ASSUME NEW i \in DOMAIN log'
        PROVE  log'[i].event = "completed" /\ log'[i].reached => log'[i].seen = 6
    <2>1. CASE i \in DOMAIN log
      BY <1>1, <2>1, AppendKeeps DEF CompletionSeenWhole
    <2>2. CASE i = Len(log) + 1
      BY <1>1, <2>2, AppendKeeps
    <2> QED
      BY <1>1, <1>2, <2>1, <2>2, AppendKeeps
  <1> QED
    BY <1>2 DEF CompletionSeenWhole

\* A stage that announces itself adds the event that is due while the socket is up.
LEMMA AnnounceLink ==
    ASSUME IInv, LinkInv, Announce, NEW next \in Stages, UNCHANGED conn,
           stage \notin {"idle", "admit"}, SeenBefore[next] = SeenBefore[stage] + 1,
           stage' = next
    PROVE  LinkInv'
  BY DEF LinkInv, Announce, Reaches

\* An attempt that has ended owes the gateway nothing.
LEMMA IdleLink ==
    ASSUME stage' \in {"idle", "admit"}
    PROVE  LinkInv'
  BY DEF LinkInv

\* The progress events keep pace with the stages through every step.
LEMMA NextLink ==
    ASSUME IInv, LinkInv, [Next]_vars
    PROVE  LinkInv'
  <1> USE DEF keptVars, agentVars
  <1>1. CASE Environment \/ ReadError \/ ReadOther \/ ReadCommand
    BY <1>1, Zenon
    DEF Environment, Start, Stop, Break, Deliver, ReadError, ReadOther, ReadCommand, LinkInv,
        IInv, DownIsEmpty
  <1>2. CASE Admit
    BY <1>2 DEF Admit, LinkInv, SeenBefore, Stages, Return, Continue
  <1>3. CASE Detect
    BY <1>3, AnnounceLink, IdleLink
    DEF Detect, AdapterStage, SeenBefore, Stages, Continue, Return
  <1>4. CASE Scan
    BY <1>4, AnnounceLink, IdleLink
    DEF Scan, AdapterStage, SeenBefore, Stages, Continue, Return
  <1>5. CASE Find
    BY <1>5, AnnounceLink, IdleLink
    DEF Find, AdapterStage, SeenBefore, Stages, Continue, Return
  <1>6. CASE Focus
    BY <1>6, AnnounceLink, IdleLink
    DEF Focus, AdapterStage, SeenBefore, Stages, Continue, Return
  <1>7. CASE Send
    BY <1>7, AnnounceLink, IdleLink DEF Send, SeenBefore, Stages, Return
  <1>8. CASE SendReturn
    BY <1>8 DEF SendReturn, LinkInv, SeenBefore, Stages, Continue, Return
  <1>9. CASE Verify
    BY <1>9, AnnounceLink DEF Verify, SeenBefore, Stages, Continue
  <1>10. CASE Finish
    BY <1>10, IdleLink DEF Finish, Return
  <1>11. CASE UNCHANGED vars
    BY <1>11 DEF vars, LinkInv
  <1> QED
    BY <1>1, <1>2, <1>3, <1>4, <1>5, <1>6, <1>7, <1>8, <1>9, <1>10, <1>11 DEF Next, Handler

\* When task.completed arrives, the six progress events of that attempt arrived before
\* it, wherever the socket breaks and though handleReplyExecute ignores every error of
\* client.Send on the way.
THEOREM CompletionWhole == Spec => []CompletionSeenWhole
  <1>1. Init => LinkInv /\ CompletionSeenWhole
    BY DEF Init, LinkInv, CompletionSeenWhole
  <1>2. IInv /\ LinkInv /\ CompletionSeenWhole /\ [Next]_vars =>
            LinkInv' /\ CompletionSeenWhole'
    <2> SUFFICES ASSUME IInv, LinkInv, CompletionSeenWhole, [Next]_vars
                 PROVE  LinkInv' /\ CompletionSeenWhole'
      OBVIOUS
    <2>1. CASE Finish
      <3>1. conn = "open" => seen = 6
        BY <2>1 DEF Finish, LinkInv, SeenBefore, Stages
      <3>2. PICK e : /\ log' = Append(log, e)
                     /\ e.event = "completed" /\ e.reached = Reaches /\ e.seen = seen'
        BY <2>1 DEF Finish, Return
      <3>3. seen' = seen
        BY <2>1 DEF Finish
      <3> QED
        BY <3>1, <3>2, <3>3, OtherLineWhole, NextLink DEF Reaches
    <2>2. CASE ~Finish
      <3>1. log' = log \/ \E e : log' = Append(log, e) /\ e.event # "completed"
        BY <2>2 DEF Next, vars, Environment, Start, Stop, Break, Deliver, ReadError,
                    ReadOther, ReadCommand, Handler, Admit, Detect, Scan, Find, Focus,
                    AdapterStage, Send, SendReturn, Verify, Continue, Return
      <3>2. CASE log' = log
        BY <3>2, NextLink DEF CompletionSeenWhole
      <3> QED
        BY <3>1, <3>2, OtherLineWhole, NextLink
    <2> QED
      BY <2>1, <2>2
  <1> QED
    BY <1>1, <1>2, Invariance, PTL DEF Spec

--------------------------------------------------------------------------------
(* The reply history is true to what happened in the chat window.                 *)

\* Every attempt in the log belongs to this process or an earlier one.
LifeInv == \A i \in DOMAIN log : log[i].life <= starts

\* A line the log gains is that of the attempt under way, in the process that runs.
OwnLine(e) ==
    /\ log' = Append(log, e)
    /\ e.task = cur /\ e.pressed = pressed /\ e.life = starts

\* The lines of a log are finitely many.
LEMMA LinesFinite ==
    ASSUME NEW s \in Seq(Entry), NEW S \in SUBSET DOMAIN s
    PROVE  IsFiniteSet(S) /\ Cardinality(S) \in Nat /\ Len(s) + 1 \notin S
  <1>1. DOMAIN s = 1..Len(s) /\ Len(s) \in Nat
    OBVIOUS
  <1>2. IsFiniteSet(1..Len(s))
    BY <1>1, FS_Interval
  <1>3. IsFiniteSet(S)
    BY <1>1, <1>2, FS_Subset
  <1> QED
    BY <1>1, <1>3, FS_CardinalityType

\* One more line counts once where it belongs.
LEMMA OneMore ==
    ASSUME NEW s \in Seq(Entry), NEW S \in SUBSET DOMAIN s
    PROVE  Cardinality(S \cup {Len(s) + 1}) = Cardinality(S) + 1
  BY LinesFinite, FS_AddElement

\* What a new line does to the presses of a task.
LEMMA LineCounts ==
    ASSUME IInv, NEW t \in Tasks, NEW e, OwnLine(e)
    PROVE  /\ Cardinality(LoggedPresses(t)') = Cardinality(LoggedPresses(t)) + PressNow(t)
           /\ Cardinality(LoggedPresses(t)) \in Nat
  <1> DEFINE n == Len(log) + 1
             P == LoggedPresses(t)
  <1>1. log \in Seq(Entry) /\ pressed \in BOOLEAN /\ log' = Append(log, e)
    BY DEF IInv, TypeOK, OwnLine
  <1>2. /\ DOMAIN log' = DOMAIN log \cup {n} /\ n \notin DOMAIN log
        /\ \A i \in DOMAIN log : log'[i] = log[i]
        /\ log'[n] = e
    BY <1>1, AppendKeeps
  <1>3. P \in SUBSET DOMAIN log
    BY DEF LoggedPresses
  <1>4. /\ Cardinality(P) \in Nat
        /\ Cardinality(P \cup {n}) = Cardinality(P) + 1
    BY <1>1, <1>3, LinesFinite, OneMore
  <1>5. LoggedPresses(t)' = IF cur = t /\ pressed THEN P \cup {n} ELSE P
    BY <1>2 DEF LoggedPresses, OwnLine
  <1> HIDE DEF n, P
  <1>6. Cardinality(LoggedPresses(t)') = Cardinality(P) + PressNow(t)
    BY <1>4, <1>5 DEF PressNow
  <1> QED
    BY <1>4, <1>6 DEF P

\* What a new line does to the completed attempts of a conversation.
LEMMA LineCompletes ==
    ASSUME IInv, NEW c \in Chats, NEW e, OwnLine(e), proc = "up", UNCHANGED <<proc, starts>>
    PROVE  /\ \A j \in DOMAIN log : log'[j] = log[j]
           /\ log'[Len(log) + 1] = e
           /\ CompletedIn(c) \in SUBSET DOMAIN log
           /\ CompletedIn(c)' = IF ChatOf[cur] = c /\ e.event = "completed"
                                THEN CompletedIn(c) \cup {Len(log) + 1}
                                ELSE CompletedIn(c)
  <1>1. log \in Seq(Entry) /\ log' = Append(log, e)
    BY DEF IInv, TypeOK, OwnLine
  <1>2. /\ DOMAIN log' = DOMAIN log \cup {Len(log) + 1} /\ Len(log) + 1 \notin DOMAIN log
        /\ \A i \in DOMAIN log : log'[i] = log[i]
        /\ log'[Len(log) + 1] = e
    BY <1>1, AppendKeeps
  <1>3. CompletedIn(c) \in SUBSET DOMAIN log
    BY DEF CompletedIn
  <1>4. CompletedIn(c)' = IF ChatOf[cur] = c /\ e.event = "completed"
                         THEN CompletedIn(c) \cup {Len(log) + 1}
                         ELSE CompletedIn(c)
    BY <1>2 DEF CompletedIn, OwnLine
  <1> QED
    BY <1>2, <1>3, <1>4

\* The starts that the lines of the log name are numbers.
LEMMA LivesAreNumbers ==
    ASSUME IInv
    PROVE  /\ log \in Seq(Entry) /\ starts \in Nat
           /\ \A i \in DOMAIN log : log[i].life \in Nat
  <1>1. log \in Seq(Entry) /\ starts \in Nat
    BY ReplyExecuteAssumption DEF IInv, TypeOK
  <1>2. ASSUME NEW i \in DOMAIN log
        PROVE  log[i].life \in Nat
    <2>1. log[i] \in Entry
      BY <1>1
    <2>2. log[i].life \in 1..MaxStarts
      BY <2>1 DEF Entry
    <2> QED
      BY <2>2, ReplyExecuteAssumption
  <1> QED
    BY <1>1, <1>2

\* No line of the log is of a later process.
LEMMA NextLife ==
    ASSUME IInv, LifeInv, [Next]_vars
    PROVE  LifeInv'
  <1>1. log \in Seq(Entry) /\ starts \in Nat /\ \A i \in DOMAIN log : log[i].life \in Nat
    BY LivesAreNumbers
  <1>2. starts' \in Nat /\ starts <= starts'
    <2>1. starts' = starts \/ starts' = starts + 1
      BY Zenon DEF Next, vars, keptVars, Environment, Start, Stop, Break, Deliver, ReadError,
                   ReadOther, ReadCommand, Handler, Admit, Detect, Scan, Find, Focus,
                   AdapterStage, Send, SendReturn, Verify, Finish
    <2> QED
      BY <1>1, <2>1
  <1>3. log' = log \/ \E e : log' = Append(log, e) /\ e.life = starts
    BY DEF Next, vars, Environment, Start, Stop, Break, Deliver, ReadError, ReadOther,
           ReadCommand, Handler, Admit, Detect, Scan, Find, Focus, AdapterStage, Send,
           SendReturn, Verify, Finish, Continue, Return
  <1>4. CASE log' = log
    BY <1>1, <1>2, <1>4 DEF LifeInv
  <1>5. ASSUME NEW e, log' = Append(log, e), e.life = starts
        PROVE  LifeInv'
    <2>1. ASSUME NEW i \in DOMAIN log'
          PROVE  log'[i].life <= starts'
      <3>1. i \in DOMAIN log \/ i = Len(log) + 1
        BY <1>1, <1>5, <2>1, AppendKeeps
      <3>2. CASE i \in DOMAIN log
        BY <1>1, <1>2, <1>5, <3>2, AppendKeeps DEF LifeInv
      <3>3. CASE i = Len(log) + 1
        BY <1>1, <1>2, <1>5, <3>3, AppendKeeps
      <3> QED
        BY <3>1, <3>2, <3>3
    <2> QED
      BY <2>1 DEF LifeInv
  <1> QED
    BY <1>3, <1>4, <1>5

\* The presses stay true through a step that leaves them and the log alone.
LEMMA QuietPresses ==
    ASSUME PressesAreLogged, UNCHANGED <<log, enters>>,
           \A t \in Tasks : PressNow(t)' = PressNow(t)
    PROVE  PressesAreLogged'
  BY DEF PressesAreLogged, LoggedPresses

\* An attempt that ends settles its press.
LEMMA EndedPresses ==
    ASSUME IInv, PressesAreLogged, NEW e, OwnLine(e), cur # NoTask, cur' = NoTask,
           UNCHANGED enters
    PROVE  PressesAreLogged'
  <1> SUFFICES ASSUME NEW t \in Tasks
               PROVE  enters'[t] = Cardinality(LoggedPresses(t)') + PressNow(t)'
    BY DEF PressesAreLogged
  <1>1. enters \in [Tasks -> Nat] /\ t # NoTask
    BY ReplyExecuteAssumption DEF IInv, TypeOK
  <1>2. enters[t] = Cardinality(LoggedPresses(t)) + PressNow(t)
    BY DEF PressesAreLogged
  <1>3. PressNow(t)' = 0 /\ PressNow(t) \in {0, 1}
    BY <1>1 DEF PressNow
  <1> QED
    BY <1>1, <1>2, <1>3, LineCounts

\* The histories stay true through a step that leaves them, the log and the process
\* alone.
LEMMA QuietHistory ==
    ASSUME \A c \in Chats : HoldsTheNewest(c), UNCHANGED <<proc, starts, log, history>>
    PROVE  \A c \in Chats : HoldsTheNewest(c)'
  <1> SUFFICES ASSUME NEW c \in Chats
               PROVE  HoldsTheNewest(c)'
    OBVIOUS
  <1>1. CompletedIn(c)' = CompletedIn(c)
    BY DEF CompletedIn
  <1>2. \A j : CompletedSince(c, j)' = CompletedSince(c, j)
    BY <1>1 DEF CompletedSince
  <1>3. HoldsTheNewest(c)
    OBVIOUS
  <1> QED
    BY <1>1, <1>2, <1>3 DEF HoldsTheNewest

\* How many entries of a history go when one is added.
Dropped(h) == IF Len(h) < MaxReplies THEN 0 ELSE 1

\* A reply goes to the end of its history, and the oldest goes when there is no room.
LEMMA AddReplyShifts ==
    ASSUME NEW h \in Seq(Tasks), NEW t \in Tasks, Len(h) <= MaxReplies
    PROVE  /\ AddReply(h, t) \in Seq(Tasks)
           /\ Len(AddReply(h, t)) = Len(h) + 1 - Dropped(h)
           /\ AddReply(h, t)[Len(AddReply(h, t))] = t /\ Len(AddReply(h, t)) >= 1
           /\ \A i \in 1..(Len(AddReply(h, t)) - 1) :
                 i + Dropped(h) \in DOMAIN h /\ AddReply(h, t)[i] = h[i + Dropped(h)]
  <1> DEFINE a == Append(h, t)
             g == AddReply(h, t)
             d == Dropped(h)
  <1>1. MaxReplies \in Nat /\ MaxReplies >= 1 /\ Len(h) \in Nat /\ DOMAIN h = 1..Len(h)
    BY ReplyExecuteAssumption
  <1>2. /\ a \in Seq(Tasks) /\ Len(a) = Len(h) + 1 /\ a[Len(a)] = t
        /\ \A i \in 1..Len(h) : a[i] = h[i]
    OBVIOUS
  <1>3. g = IF Len(a) > MaxReplies THEN Tail(a) ELSE a
    BY DEF AddReply
  <1>4. d = IF Len(h) < MaxReplies THEN 0 ELSE 1
    BY DEF Dropped
  <1> HIDE DEF a, g, d
  <1>5. /\ g \in Seq(Tasks) /\ Len(g) = Len(h) + 1 - d
        /\ g[Len(g)] = t /\ Len(g) >= 1
        /\ \A i \in 1..(Len(g) - 1) : i + d \in DOMAIN h /\ g[i] = h[i + d]
    <2>1. CASE Len(h) < MaxReplies
      <3>1. g = a /\ d = 0
        BY <1>1, <1>2, <2>1, <1>3, <1>4
      <3> QED
        BY <1>1, <1>2, <3>1
    <2>2. CASE Len(h) >= MaxReplies
      <3>1. g = Tail(a) /\ d = 1
        BY <1>1, <1>2, <2>2, <1>3, <1>4
      <3>2. /\ Tail(a) \in Seq(Tasks) /\ Len(Tail(a)) = Len(h)
            /\ \A i \in 1..Len(h) : Tail(a)[i] = a[i + 1]
        BY <1>1, <1>2, <2>2
      <3> QED
        BY <1>1, <1>2, <2>2, <3>1, <3>2
    <2> QED
      BY <1>1, <2>1, <2>2
  <1> QED
    BY <1>5 DEF g, d

\* A completed attempt comes after all that its conversation's history holds.
LEMMA CompletedHistory ==
    ASSUME IInv, NEW c \in Chats, HoldsTheNewest(c), NEW e, OwnLine(e), proc = "up",
           cur \in Tasks, UNCHANGED <<proc, starts>>, e.event = "completed", ChatOf[cur] = c,
           history'[c] = AddReply(history[c], cur)
    PROVE  HoldsTheNewest(c)'
  <1> DEFINE n == Len(log) + 1
             C == CompletedIn(c)
             k == Cardinality(C)
             h == history[c]
             g == history'[c]
             d == Dropped(h)
  <1>1. /\ log \in Seq(Entry) /\ h \in Seq(Tasks) /\ Len(log) \in Nat
        /\ MaxReplies \in Nat /\ MaxReplies >= 1
    BY ReplyExecuteAssumption DEF IInv, TypeOK
  <1>2. /\ \A j \in DOMAIN log : log'[j] = log[j]
        /\ log'[n] = e /\ e.task = cur
        /\ C \in SUBSET DOMAIN log /\ CompletedIn(c)' = C \cup {n}
        /\ \A j \in C : j \in Nat /\ j < n
    BY <1>1, LineCompletes DEF OwnLine
  <1>3. k \in Nat /\ Cardinality(CompletedIn(c)') = k + 1
    BY <1>1, <1>2, LinesFinite, OneMore
  <1>4. /\ Len(h) = IF k < MaxReplies THEN k ELSE MaxReplies
        /\ \A i \in DOMAIN h : \E j \in C :
              log[j].task = h[i] /\ Cardinality(CompletedSince(c, j)) = Len(h) - i + 1
    BY DEF HoldsTheNewest
  <1>5. Len(h) <= MaxReplies
    BY <1>1, <1>3, <1>4
  <1>6. /\ g \in Seq(Tasks) /\ Len(g) = Len(h) + 1 - d
        /\ g[Len(g)] = cur /\ Len(g) >= 1
        /\ \A i \in 1..(Len(g) - 1) : i + d \in DOMAIN h /\ g[i] = h[i + d]
    <2>1. g = AddReply(h, cur) /\ d = Dropped(h)
      OBVIOUS
    <2> HIDE DEF g, d, h
    <2> QED
      BY <1>1, <1>5, <2>1, AddReplyShifts
  <1>7. ASSUME NEW j \in C
        PROVE  /\ Cardinality(CompletedSince(c, j)) \in Nat
               /\ Cardinality(CompletedSince(c, j)') = Cardinality(CompletedSince(c, j)) + 1
    <2>1. CompletedSince(c, j) \in SUBSET DOMAIN log
      BY <1>2 DEF CompletedSince
    <2>2. CompletedSince(c, j)' = CompletedSince(c, j) \cup {n}
      BY <1>1, <1>2 DEF CompletedSince
    <2> QED
      BY <1>1, <2>1, <2>2, LinesFinite, OneMore
  <1>8. \A j : j = n => Cardinality(CompletedSince(c, j)') = 1
    <2>1. \A j : j = n => CompletedSince(c, j)' = {n}
      BY <1>1, <1>2 DEF CompletedSince
    <2> QED
      BY <2>1, FS_Singleton
  <1>9. log[n] = log[n] /\ n \in CompletedIn(c)'
    BY <1>2
  <1> HIDE DEF n, C, k, g, d
  <1>10. Len(g) = IF k + 1 < MaxReplies THEN k + 1 ELSE MaxReplies
    BY <1>1, <1>3, <1>4, <1>6 DEF d, Dropped
  <1>11. ASSUME NEW i \in DOMAIN g
         PROVE  \E j \in CompletedIn(c)' :
                   log'[j].task = g[i] /\ Cardinality(CompletedSince(c, j)') = Len(g) - i + 1
    <2>1. CASE i = Len(g)
      <3>1. log'[n].task = g[i] /\ Len(g) - i + 1 = 1
        BY <1>2, <1>6, <2>1
      <3> QED
        BY <1>8, <1>9, <3>1
    <2>2. CASE i # Len(g)
      <3>1. i \in 1..(Len(g) - 1) /\ i \in Nat /\ Len(g) \in Nat
        BY <1>6, <2>2
      <3>2. i + d \in DOMAIN h /\ g[i] = h[i + d]
        BY <1>6, <3>1
      <3>3. PICK j \in C : /\ log[j].task = h[i + d]
                           /\ Cardinality(CompletedSince(c, j)) = Len(h) - (i + d) + 1
        BY <1>4, <3>2
      <3>4. Cardinality(CompletedSince(c, j)') = Len(g) - i + 1
        <4>1. Len(h) \in Nat /\ d \in {0, 1}
          BY <1>1 DEF d, Dropped
        <4>2. Cardinality(CompletedSince(c, j)') = Len(h) - (i + d) + 1 + 1
          BY <1>7, <3>3
        <4> QED
          BY <1>6, <3>1, <4>1, <4>2
      <3>5. j \in CompletedIn(c)' /\ log'[j] = log[j]
        BY <1>2
      <3> QED
        BY <3>2, <3>3, <3>4, <3>5
    <2> QED
      BY <2>1, <2>2
  <1>12. Cardinality(CompletedIn(c)') = k + 1
    BY <1>3
  <1> QED
    BY <1>10, <1>11, <1>12 DEF HoldsTheNewest, g

\* An attempt that ends adds a reply if it completed.
LEMMA EndedHistory ==
    ASSUME IInv, \A c \in Chats : HoldsTheNewest(c), NEW e, OwnLine(e), cur # NoTask,
           UNCHANGED <<proc, starts>>, e.event # "completed" => history' = history,
           e.event = "completed" =>
               history' = [history EXCEPT ![ChatOf[cur]] = AddReply(@, cur)]
    PROVE  \A c \in Chats : HoldsTheNewest(c)'
  <1> SUFFICES ASSUME NEW c \in Chats PROVE HoldsTheNewest(c)'
    OBVIOUS
  <1>1. /\ proc = "up" /\ history \in [Chats -> Seq(Tasks)] /\ cur \in Tasks
        /\ ChatOf[cur] \in Chats /\ log \in Seq(Entry)
    BY ReplyExecuteAssumption DEF IInv, TypeOK, DownIsEmpty, HandlingInv
  <1>2. CASE e.event = "completed" /\ ChatOf[cur] = c
    <2>1. history'[c] = AddReply(history[c], cur)
      BY <1>1, <1>2
    <2> QED
      BY <1>1, <1>2, <2>1, CompletedHistory
  <1>3. CASE ~(e.event = "completed" /\ ChatOf[cur] = c)
    <2>1. history'[c] = history[c]
      BY <1>1, <1>3
    <2>2. /\ \A j \in DOMAIN log : log'[j] = log[j]
          /\ CompletedIn(c) \in SUBSET DOMAIN log /\ CompletedIn(c)' = CompletedIn(c)
      BY <1>1, <1>3, LineCompletes
    <2>3. \A j : CompletedSince(c, j)' = CompletedSince(c, j)
      BY <2>2 DEF CompletedSince
    <2>4. \A j \in CompletedIn(c) : log'[j] = log[j]
      BY <2>2
    <2> QED
      BY <2>1, <2>2, <2>3, <2>4 DEF HoldsTheNewest
  <1> QED
    BY <1>2, <1>3

\* Every way the handler ends an attempt.
LEMMA ReturnHistory ==
    ASSUME IInv, HistoryMatchesChat, stage # "idle", UNCHANGED <<keptVars, enters>>,
           NEW v, NEW c, NEW r, Return(v, c, r), v # "completed" => history' = history,
           v = "completed" => history' = [history EXCEPT ![ChatOf[cur]] = AddReply(@, cur)]
    PROVE  HistoryMatchesChat'
  <1>1. PICK e : OwnLine(e) /\ e.event = v
    BY DEF Return, OwnLine
  <1>2. cur # NoTask /\ cur' = NoTask /\ UNCHANGED <<proc, starts, enters>>
    BY DEF Return, keptVars, IInv, HandlingInv
  <1>3. PressesAreLogged'
    BY <1>1, <1>2, EndedPresses DEF HistoryMatchesChat
  <1>4. \A d \in Chats : HoldsTheNewest(d)'
    BY <1>1, <1>2, EndedHistory DEF HistoryMatchesChat
  <1> QED
    BY <1>3, <1>4 DEF HistoryMatchesChat

\* A step that touches neither the log nor the counts keeps them true.
LEMMA QuietBoth ==
    ASSUME HistoryMatchesChat, UNCHANGED <<proc, starts, log, history, enters>>,
           \A t \in Tasks : PressNow(t)' = PressNow(t)
    PROVE  HistoryMatchesChat'
  BY QuietPresses, QuietHistory DEF HistoryMatchesChat

\* A stage that only asks the adapter leaves the histories true.
LEMMA StageHistory ==
    ASSUME IInv, HistoryMatchesChat, NEW here \in Stages \ {"idle"}, NEW next, NEW code,
           AdapterStage(here, next, code)
    PROVE  HistoryMatchesChat'
  <1>1. stage # "idle" /\ UNCHANGED <<keptVars, enters, history>>
    BY DEF AdapterStage
  <1>2. CASE Continue(next)
    BY <1>1, <1>2, QuietBoth DEF Continue, keptVars, PressNow
  <1>3. CASE Return("failed", code, Reaches)
    BY <1>1, <1>3, ReturnHistory
  <1> QED
    BY <1>2, <1>3 DEF AdapterStage

\* No process, no completed attempt of it.
LEMMA NothingCompleted ==
    ASSUME NEW c \in Chats, CompletedIn(c) = {}, history \in [Chats -> Seq(Tasks)]
    PROVE  HoldsTheNewest(c) <=> history[c] = <<>>
  <1>1. Cardinality(CompletedIn(c)) = 0 /\ 0 < MaxReplies /\ history[c] \in Seq(Tasks)
    BY FS_EmptySet, ReplyExecuteAssumption
  <1>2. HoldsTheNewest(c) => Len(history[c]) = 0
    BY <1>1 DEF HoldsTheNewest
  <1>3. history[c] = <<>> => HoldsTheNewest(c)
    BY <1>1 DEF HoldsTheNewest
  <1> QED
    BY <1>1, <1>2, <1>3

\* The histories and the presses stay true through every step.
LEMMA NextHistory ==
    ASSUME IInv, LifeInv, HistoryMatchesChat, [Next]_vars
    PROVE  HistoryMatchesChat'
  <1>0. /\ history \in [Chats -> Seq(Tasks)] /\ enters \in [Tasks -> Nat] /\ log \in Seq(Entry)
        /\ NoTask \notin Tasks /\ starts \in Nat
    BY ReplyExecuteAssumption DEF IInv, TypeOK
  <1>1. CASE Start
    <2>1. /\ proc = "down" /\ starts' = starts + 1
          /\ UNCHANGED <<log, history, enters, cur, pressed>>
      BY <1>1 DEF Start, agentVars
    <2>2. ASSUME NEW c \in Chats
          PROVE  CompletedIn(c) = {} /\ CompletedIn(c)' = {}
      <3>1. \A i \in DOMAIN log : log[i].life \in Nat /\ log[i].life <= starts
        BY LivesAreNumbers DEF LifeInv
      <3> QED
        BY <1>0, <2>1, <3>1 DEF CompletedIn
    <2>3. ASSUME NEW c \in Chats
          PROVE  HoldsTheNewest(c)'
      <3>1. CompletedIn(c)' = CompletedIn(c) /\ \A j : CompletedSince(c, j)' = CompletedSince(c, j)
        BY <2>2 DEF CompletedSince
      <3>2. HoldsTheNewest(c)
        BY DEF HistoryMatchesChat
      <3> QED
        BY <2>1, <3>1, <3>2 DEF HoldsTheNewest
    <2>4. PressesAreLogged'
      BY <2>1, QuietPresses DEF HistoryMatchesChat, PressNow
    <2> QED
      BY <2>3, <2>4 DEF HistoryMatchesChat
  <1>2. CASE Stop
    <2>1. /\ proc' = "down" /\ cur' = NoTask /\ starts' = starts /\ enters' = enters
          /\ history' = [c \in Chats |-> <<>>]
      BY <1>2 DEF Stop
    <2>2. ASSUME NEW c \in Chats
          PROVE  HoldsTheNewest(c)'
      <3>1. CompletedIn(c)' = {} /\ history'[c] = <<>>
        BY <2>1 DEF CompletedIn
      <3>2. Cardinality(CompletedIn(c)') = 0 /\ 0 < MaxReplies
        BY <3>1, FS_EmptySet, ReplyExecuteAssumption
      <3> QED
        BY <3>1, <3>2 DEF HoldsTheNewest
    <2>3. PressesAreLogged'
      <3>1. CASE cur = NoTask
        <4>1. log' = log /\ \A t \in Tasks : PressNow(t) = 0 /\ PressNow(t)' = 0
          BY <1>0, <1>2, <2>1, <3>1 DEF Stop, PressNow
        <4> QED
          BY <2>1, <4>1, QuietPresses DEF HistoryMatchesChat
      <3>2. CASE cur # NoTask
        <4>1. PICK e : OwnLine(e)
          BY <1>2, <3>2 DEF Stop, OwnLine
        <4> QED
          BY <2>1, <3>2, <4>1, EndedPresses DEF HistoryMatchesChat
      <3> QED
        BY <3>1, <3>2
    <2> QED
      BY <2>2, <2>3 DEF HistoryMatchesChat
  <1>3. CASE Break \/ (\E m \in Tasks \cup Others : Deliver(m)) \/ ReadError \/ ReadOther
    BY <1>3, QuietBoth
    DEF Break, Deliver, ReadError, ReadOther, agentVars, keptVars, PressNow
  <1>4. CASE ReadCommand
    <2>1. ~pressed /\ ~pressed'
      BY <1>4 DEF ReadCommand, IInv, HandlingInv, PressInv
    <2> QED
      BY <1>4, <2>1, QuietBoth DEF ReadCommand, PressNow
  <1>5. CASE Admit
    <2>1. stage # "idle" /\ UNCHANGED <<keptVars, enters, history>>
      BY <1>5 DEF Admit
    <2>2. CASE Continue("detecting")
      BY <2>1, <2>2, QuietBoth DEF Continue, keptVars, PressNow
    <2>3. ASSUME NEW v \in {"skipped", "dropped"}, Return(v, "none", FALSE)
          PROVE  HistoryMatchesChat'
      BY <2>1, <2>3, ReturnHistory
    <2> QED
      BY <1>5, <2>2, <2>3 DEF Admit
  <1>6. CASE Detect \/ Scan \/ Find \/ Focus
    BY <1>6, StageHistory, Zenon DEF Detect, Scan, Find, Focus, Stages
  <1>7. CASE Send
    <2>1. stage # "idle" /\ UNCHANGED <<keptVars, history>> /\ ~pressed
      BY <1>7 DEF Send, IInv, PressInv
    <2>2. CASE Return("failed", "SEND_FAILED", Reaches) /\ enters' = enters
      BY <2>1, <2>2, ReturnHistory
    <2>3. CASE /\ enters' = [enters EXCEPT ![cur] = @ + 1]
               /\ pressed' = TRUE /\ cur' = cur /\ log' = log
      <3>1. cur \in Tasks
        BY <2>1, StageFacts
      <3>2. \A c \in Chats : HoldsTheNewest(c)'
        BY <2>1, <2>3, QuietHistory DEF HistoryMatchesChat, keptVars
      <3>3. ASSUME NEW t \in Tasks
            PROVE  enters'[t] = Cardinality(LoggedPresses(t)') + PressNow(t)'
        <4>1. enters[t] = Cardinality(LoggedPresses(t)) + PressNow(t)
          BY DEF HistoryMatchesChat, PressesAreLogged
        <4>2. LoggedPresses(t)' = LoggedPresses(t) /\ LoggedPresses(t) \in SUBSET DOMAIN log
          BY <2>3 DEF LoggedPresses
        <4>3. Cardinality(LoggedPresses(t)) \in Nat
          BY <1>0, <4>2, LinesFinite
        <4>4. PressNow(t) = 0 /\ PressNow(t)' = IF cur = t THEN 1 ELSE 0
          BY <2>1, <2>3 DEF PressNow
        <4>5. enters'[t] = enters[t] + (IF cur = t THEN 1 ELSE 0)
          BY <1>0, <2>3, <3>1
        <4> QED
          BY <4>1, <4>2, <4>3, <4>4, <4>5
      <3> QED
        BY <3>2, <3>3 DEF HistoryMatchesChat, PressesAreLogged
    <2> QED
      BY <1>7, <2>2, <2>3 DEF Send
  <1>8. CASE SendReturn
    <2>1. stage # "idle" /\ UNCHANGED <<keptVars, enters, history>>
      BY <1>8 DEF SendReturn
    <2>2. CASE Continue("verifying")
      BY <2>1, <2>2, QuietBoth DEF Continue, keptVars, PressNow
    <2>3. CASE Return("failed", "SEND_FAILED", Reaches)
      BY <2>1, <2>3, ReturnHistory
    <2> QED
      BY <1>8, <2>2, <2>3 DEF SendReturn
  <1>9. CASE Verify
    BY <1>9, QuietBoth DEF Verify, Continue, keptVars, PressNow
  <1>10. CASE Finish
    BY <1>10, ReturnHistory DEF Finish
  <1>11. CASE UNCHANGED vars
    BY <1>11, QuietBoth DEF vars, PressNow
  <1> QED
    BY <1>1, <1>2, <1>3, <1>4, <1>5, <1>6, <1>7, <1>8, <1>9, <1>10, <1>11
    DEF Next, Environment, Handler

\* The reply history of a conversation holds the newest attempts that this process
\* completed there, up to the session's limit and in their order, and each press of Enter
\* is the work of exactly one attempt (main.go calls AddReply after Send and Verify, and
\* Send once per command; AddReply drops the oldest entry past the limit).
THEOREM HistoryTrue == Spec => []HistoryMatchesChat
  <1>1. Init => LifeInv /\ HistoryMatchesChat
    <2> SUFFICES ASSUME Init PROVE LifeInv /\ HistoryMatchesChat
      OBVIOUS
    <2>1. /\ log = <<>> /\ proc = "down" /\ cur = NoTask
          /\ enters = [t \in Tasks |-> 0] /\ history = [c \in Chats |-> <<>>]
      BY DEF Init
    <2>2. \A c \in Chats : HoldsTheNewest(c)
      BY <2>1, NothingCompleted DEF CompletedIn
    <2>3. PressesAreLogged
      BY <2>1, FS_EmptySet, ReplyExecuteAssumption DEF PressesAreLogged, LoggedPresses, PressNow
    <2> QED
      BY <2>1, <2>2, <2>3 DEF LifeInv, HistoryMatchesChat
  <1>2. IInv /\ LifeInv /\ HistoryMatchesChat /\ [Next]_vars =>
            LifeInv' /\ HistoryMatchesChat'
    BY NextLife, NextHistory
  <1> QED
    BY <1>1, <1>2, Invariance, PTL DEF Spec

--------------------------------------------------------------------------------
(* The handler keeps its contract.                                               *)

\* The contract's view of one line of the log, and of the whole log.
Line(e) == [task |-> e.task, verdict |-> Verdict(e), pressed |-> e.pressed]
Lines(s) == [i \in DOMAIN s |-> Line(s[i])]

\* Appending to the log appends to the contract's verdicts.
LEMMA LinesAppend ==
    ASSUME NEW s \in Seq(Entry), NEW e \in Entry
    PROVE  Lines(Append(s, e)) = Append(Lines(s), Line(e))
  <1> DEFINE T == {Line(x) : x \in Entry}
             a == Append(s, e)
  <1>1. /\ DOMAIN s = 1..Len(s) /\ Len(s) \in Nat
        /\ DOMAIN a = 1..(Len(s) + 1)
        /\ \A i \in 1..Len(s) : a[i] = s[i] /\ s[i] \in Entry
        /\ a[Len(s) + 1] = e
    OBVIOUS
  <1> HIDE DEF a
  <1>2. Lines(s) \in [1..Len(s) -> T]
    BY <1>1 DEF Lines
  <1>3. Line(e) \in T
    OBVIOUS
  <1> HIDE DEF T
  <1>4. Lines(s) \in Seq(T) /\ Len(Lines(s)) = Len(s)
    BY <1>1, <1>2
  <1> DEFINE b == Append(Lines(s), Line(e))
  <1>5. /\ DOMAIN b = 1..(Len(s) + 1) /\ b \in Seq(T)
        /\ \A i \in 1..Len(s) : b[i] = Lines(s)[i]
        /\ b[Len(s) + 1] = Line(e)
    BY <1>1, <1>3, <1>4
  <1>6. b = [i \in DOMAIN b |-> b[i]]
    <2>1. b \in [1..Len(b) -> T]
      BY <1>5, LenProperties, Zenon
    <2> QED
      BY <2>1
  <1> HIDE DEF b
  <1>7. ASSUME NEW i \in 1..(Len(s) + 1)
        PROVE  Line(a[i]) = b[i]
    <2>1. CASE i \in 1..Len(s)
      BY <1>1, <1>5, <2>1 DEF Lines
    <2>2. CASE i = Len(s) + 1
      BY <1>1, <1>5, <2>2
    <2> QED
      BY <1>1, <2>1, <2>2
  <1>8. Lines(a) = b
    BY <1>1, <1>5, <1>6, <1>7, Zenon DEF Lines
  <1> QED
    BY <1>8 DEF a, b

\* The observer's log line of an attempt that ends now.
NewEntry(event, code, reached, n) ==
    [task |-> cur, event |-> event, code |-> code, pressed |-> pressed,
     reached |-> reached, seen |-> n, life |-> starts]

\* Steps that the contract does not see: they leave its four variables alone.
LEMMA Stutters ==
    ASSUME UNCHANGED <<cur, pressed, records, log>>
    PROVE  UNCHANGED Contract!cvars
  BY DEF Contract!cvars

\* An attempt that ends concludes in the contract, if its verdict is honest.
LEMMA ReturnConcludes ==
    ASSUME IInv, stage # "idle", UNCHANGED starts, seen' \in 0..6,
           NEW e \in {"completed", "failed", "skipped", "dropped"},
           NEW c \in Codes \cup {"none"}, NEW r \in BOOLEAN, Return(e, c, r),
           e = "completed" => pressed,
           e \in {"skipped", "dropped"} \/ (e = "failed" /\ c # "SEND_FAILED") => ~pressed,
           \/ records' = records
           \/ e = "completed" /\ records' = records \cup {CompletedRecord(cur)}
    PROVE  Contract!CNext
  <1> DEFINE x == NewEntry(e, c, r, seen')
             v == Verdict(x)
  <1>1. /\ starts \in 1..MaxStarts /\ cur \in Tasks /\ cur # NoTask /\ pressed \in BOOLEAN
        /\ log \in Seq(Entry)
    BY ReplyExecuteAssumption DEF IInv, DownIsEmpty, HandlingInv, TypeOK
  <1>2. x \in Entry
    BY <1>1 DEF Entry, NewEntry
  <1>3. /\ x.event = e /\ x.code = c /\ x.task = cur /\ x.pressed = pressed
    BY DEF NewEntry
  <1>4. log' = Append(log, x) /\ cur' = NoTask /\ pressed' = FALSE
    BY DEF Return, NewEntry
  <1> HIDE DEF x
  <1>5. v = IF e = "failed"
            THEN IF c = "SEND_FAILED" THEN "send_failed" ELSE "failed_before_send"
            ELSE e
    BY <1>3 DEF Verdict
  <1>6. v \in Contract!Verdicts \ {"died"} /\ Contract!Honest(v, pressed)
    BY <1>5 DEF Contract!Verdicts, Contract!Honest
  <1>7. Lines(log') = Append(Lines(log), [task |-> cur, verdict |-> v, pressed |-> pressed])
    BY <1>1, <1>2, <1>3, <1>4, LinesAppend DEF Line
  <1>8. {q.TaskID : q \in records'} \in
            {{q.TaskID : q \in records},
             IF v = "completed" THEN {q.TaskID : q \in records} \cup {cur}
                                ELSE {q.TaskID : q \in records}}
    <2>1. CASE records' = records
      BY <2>1
    <2>2. CASE e = "completed" /\ records' = records \cup {CompletedRecord(cur)}
      <3> DEFINE z == CompletedRecord(cur)
      <3>0. z.TaskID = cur
        BY DEF CompletedRecord
      <3> HIDE DEF z
      <3>1. {q.TaskID : q \in records'} = {q.TaskID : q \in records} \cup {cur}
        <4>1. records' = records \cup {z}
          BY <2>2 DEF z
        <4> QED
          BY <3>0, <4>1
      <3> QED
        BY <2>2, <3>1, <1>5
    <2> QED
      BY <2>1, <2>2
  <1> HIDE DEF v
  <1>9. PICK w \in Contract!Verdicts \ {"died"} : w = v
    BY <1>6
  <1>10. Contract!CConclude(w)
    BY <1>1, <1>4, <1>6, <1>7, <1>8, <1>9 DEF Contract!CConclude, Lines, Line
  <1> QED
    BY <1>9, <1>10 DEF Contract!CNext

\* A stage that only asks the adapter stutters or concludes with a failure.
LEMMA AdapterStageRefines ==
    ASSUME IInv, NEW here \in {"detecting", "scanning", "finding", "focusing"}, NEW next,
           NEW code \in Codes \ {"SEND_FAILED"}, AdapterStage(here, next, code)
    PROVE  [Contract!CNext]_Contract!cvars
  <1>1. /\ stage = here /\ UNCHANGED keptVars /\ Announce
        /\ records' = records /\ history' = history /\ enters' = enters
    BY DEF AdapterStage
  <1>2. CASE Continue(next)
    BY <1>1, <1>2, Stutters DEF Continue
  <1>3. CASE Return("failed", code, Reaches)
    <2>1. ~pressed /\ stage # "idle"
      BY <1>1 DEF IInv, PressInv
    <2>2. seen' \in 0..6
      BY <1>1, AnnounceBound
    <2> QED
      BY <1>1, <1>3, <2>1, <2>2, StageFacts, ReturnConcludes DEF keptVars
  <1> QED
    BY <1>2, <1>3 DEF AdapterStage

\* Every step of the worker is a step of the contract or a stutter.
LEMMA NextRefines ==
    ASSUME IInv, [Next]_vars
    PROVE  [Contract!CNext]_Contract!cvars
  <1>1. CASE Start
    BY <1>1, Stutters DEF Start, agentVars
  <1>2. CASE Stop
    <2>1. /\ cur' = NoTask /\ pressed' = FALSE
          /\ {q.TaskID : q \in records'} = {}
      BY <1>2 DEF Stop
    <2>2. CASE cur = NoTask
      <3>1. log' = log
        BY <1>2, <2>2 DEF Stop
      <3> QED
        BY <2>1, <2>2, <3>1 DEF Contract!CNext, Contract!CRestart
    <2>3. CASE cur # NoTask
      <3> DEFINE x == [task |-> cur, event |-> "died", code |-> "none", pressed |-> pressed,
                       reached |-> FALSE, seen |-> seen, life |-> starts]
      <3>1. log' = Append(log, x) /\ x \in Entry /\ log \in Seq(Entry)
        BY <1>2, <2>3 DEF Stop, IInv, TypeOK, DownIsEmpty, Entry
      <3>2. Line(x) = [task |-> cur, verdict |-> "died", pressed |-> pressed]
        BY DEF Line, Verdict
      <3> HIDE DEF x
      <3>3. Lines(log') = Append(Lines(log), [task |-> cur, verdict |-> "died",
                                              pressed |-> pressed])
        BY <3>1, <3>2, LinesAppend
      <3>4. Contract!CRestart
        BY <2>1, <2>3, <3>3 DEF Contract!CRestart, Lines, Line
      <3> QED
        BY <3>4 DEF Contract!CNext
    <2> QED
      BY <2>2, <2>3
  <1>3. CASE Break \/ (\E m \in Tasks \cup Others : Deliver(m)) \/ ReadError \/ ReadOther
    BY <1>3, Stutters DEF Break, Deliver, ReadError, ReadOther, agentVars
  <1>4. CASE ReadCommand
    <2>1. cur = NoTask
      BY <1>4 DEF ReadCommand, IInv, HandlingInv
    <2>2. PICK t \in Tasks : t = Head(wire)
      BY <1>4 DEF ReadCommand, IInv, TypeOK
    <2>3. Contract!CBegin(t)
      BY <1>4, <2>1, <2>2 DEF ReadCommand, Contract!CBegin
    <2> QED
      BY <2>3 DEF Contract!CNext
  <1>5. CASE Admit
    <2>1. /\ stage = "admit" /\ seen' = 0 /\ UNCHANGED keptVars /\ records' = records
      BY <1>5 DEF Admit
    <2>2. CASE Continue("detecting")
      BY <2>1, <2>2, Stutters DEF Continue
    <2>3. CASE \E e \in {"skipped", "dropped"} : Return(e, "none", FALSE)
      <3>1. ~pressed /\ UNCHANGED starts /\ seen' \in 0..6 /\ stage # "idle"
        BY <2>1 DEF IInv, PressInv, keptVars
      <3>2. PICK e \in {"skipped", "dropped"} : Return(e, "none", FALSE)
        BY <2>3
      <3>3. Contract!CNext
        BY <2>1, <3>1, <3>2, ReturnConcludes
      <3> QED
        BY <3>3
    <2> QED
      BY <1>5, <2>2, <2>3 DEF Admit
  <1>6. CASE Detect \/ Scan \/ Find \/ Focus
    BY <1>6, AdapterStageRefines, Zenon DEF Detect, Scan, Find, Focus, Codes
  <1>7. CASE Send
    <2>1. stage = "sending" /\ UNCHANGED keptVars /\ records' = records /\ ~pressed /\ Announce
      BY <1>7 DEF Send, IInv, PressInv
    <2>2. CASE stage' = "entered"
      <3>1. cur # NoTask /\ ~Store!HasRecord(records, cur)
        BY <2>1 DEF IInv, HandlingInv, AdmittedInv
      <3>2. pressed' = TRUE /\ cur' = cur /\ log' = log
        BY <1>7, <2>2 DEF Send, Return
      <3>3. cur \notin {q.TaskID : q \in records}
        BY <3>1 DEF Store!HasRecord
      <3>4. Contract!CPress
        BY <2>1, <3>1, <3>2, <3>3 DEF Contract!CPress
      <3> QED
        BY <3>4 DEF Contract!CNext
    <2>3. CASE Return("failed", "SEND_FAILED", Reaches)
      <3>1. seen' \in 0..6
        BY <2>1, AnnounceBound
      <3> QED
        BY <2>1, <2>3, <3>1, StageFacts, ReturnConcludes DEF keptVars, Codes
    <2> QED
      BY <1>7, <2>2, <2>3 DEF Send
  <1>8. CASE SendReturn
    <2>1. stage = "entered" /\ UNCHANGED keptVars /\ records' = records /\ seen' = seen
      BY <1>8 DEF SendReturn
    <2>2. CASE Continue("verifying")
      BY <2>1, <2>2, Stutters DEF Continue
    <2>3. CASE Return("failed", "SEND_FAILED", Reaches)
      <3>1. seen' \in 0..6
        BY <2>1 DEF IInv, TypeOK
      <3> QED
        BY <2>1, <2>3, <3>1, StageFacts, ReturnConcludes DEF keptVars, Codes
    <2> QED
      BY <1>8, <2>2, <2>3 DEF SendReturn
  <1>9. CASE Verify
    BY <1>9, Stutters DEF Verify, Continue
  <1>10. CASE Finish
    <2>1. /\ stage = "finishing" /\ UNCHANGED keptVars /\ seen' = seen /\ pressed
          /\ Return("completed", "none", Reaches)
          /\ records' = Store!CreateRecord(records, CompletedRecord(cur))
      BY <1>10 DEF Finish, IInv, PressInv
    <2>2. \/ records' = records
          \/ records' = records \cup {CompletedRecord(cur)}
      BY <2>1 DEF Store!CreateRecord
    <2>3. seen' \in 0..6
      BY <2>1 DEF IInv, TypeOK
    <2> QED
      BY <2>1, <2>2, <2>3, StageFacts, ReturnConcludes DEF keptVars
  <1>11. CASE UNCHANGED vars
    BY <1>11, Stutters DEF vars
  <1> QED
    BY <1>1, <1>2, <1>3, <1>4, <1>5, <1>6, <1>7, <1>8, <1>9, <1>10, <1>11
    DEF Next, Environment, Handler

\* The worker keeps the contract of ReplyContract for every set of tasks: during an
\* attempt Enter is pressed at most once and never for a task the store knows, each
\* verdict is honest about the press, and only a completed attempt settles its task.
THEOREM KeepsContract == Spec => ImplementsContract
  <1>1. Init => Contract!CInit
    BY DEF Init, Contract!CInit
  <1>2. IInv /\ [Next]_vars => [Contract!CNext]_Contract!cvars
    BY NextRefines
  <1> QED
    BY <1>1, <1>2, Invariance, PTL DEF Spec, ImplementsContract, Contract!CSpec

================================================================================
