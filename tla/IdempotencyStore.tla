---------------------------- MODULE IdempotencyStore ----------------------------
(* The in-memory idempotency store of the agent worker                           *)
(* (internal/agent/idempotency/memory.go).  The store is one map guarded by one  *)
(* mutex, so every method is a single step; the operators below say what a       *)
(* method returns, or what the map is after it, as a function of the map before. *)
(* A record keeps the two fields the methods decide on, TaskID and DedupeKey,    *)
(* and the Status field that UpdateRecord rewrites; content, fingerprints,       *)
(* counters and time stamps are left out because nothing branches on them.       *)

CONSTANTS
    TaskIDs,      \* identifiers of reply tasks
    DedupeKeys,   \* values of Record.DedupeKey, the empty string being one of them
    Statuses      \* values of Record.Status

Record == [TaskID : TaskIDs, DedupeKey : DedupeKeys, Status : Statuses]

\* GetRecord returns an error exactly when this is false.
HasRecord(records, t) == \E r \in records : r.TaskID = t

\* CheckDuplicate returns a record exactly when this is true.
HasDuplicate(records, k) == \E r \in records : r.DedupeKey = k

\* The two refusals of CreateRecord: "record already exists", "dedupe_key already exists".
CreateRefused(records, r) ==
    \/ HasRecord(records, r.TaskID)
    \/ HasDuplicate(records, r.DedupeKey)

\* The map after CreateRecord: a refused record leaves it as it was.
CreateRecord(records, r) ==
    IF CreateRefused(records, r) THEN records ELSE records \cup {r}

\* The map after UpdateRecord(t, WithStatus(s)); an unknown task is an error and changes nothing.
UpdateStatus(records, t, s) ==
    {IF r.TaskID = t THEN [r EXCEPT !.Status = s] ELSE r : r \in records}

\* What the two refusals are there to maintain: the map has one entry per task
\* (it is keyed by TaskID) and no two entries share a dedupe key.
KeyedOnce(records) ==
    \A r, s \in records : (r.TaskID = s.TaskID \/ r.DedupeKey = s.DedupeKey) => r = s
================================================================================
