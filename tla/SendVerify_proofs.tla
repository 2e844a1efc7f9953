---------------------------- MODULE SendVerify_proofs ----------------------------
(* Proofs about SendVerify, for any number of workers, tasks and dedupe keys.    *)
EXTENDS SendVerify, FiniteSetTheorems, TLAPS

--------------------------------------------------------------------------------
(* The inductive invariant.  A run that got past CreateRecord owns a record: the *)
(* store's two refusals keep every other run out until the end of time.          *)

\* The status the record of a run has when the run is about to make a call.
StatusAt == [call \in Calls \ {"create"} |->
    CASE call = "mark_sending" -> "pending"
      [] call \in {"send", "mark_failed", "mark_sent"} -> "sending"
      [] OTHER -> "sent_unverified"]

\* Runs that got past CreateRecord.
Owner(w) == at[w] \notin {"idle", "create"}

\* The store holds the record of every such run.
OwnersHaveRecords ==
    \A w \in Workers : Owner(w) =>
        [TaskID |-> task[w], DedupeKey |-> key[w], Status |-> StatusAt[at[w]]] \in records

\* No two of them are for one task.
OwnersAreAlone ==
    \A v, w \in Workers : Owner(v) /\ Owner(w) /\ task[v] = task[w] => v = w

\* What has been sent for a task.
SentFor(t) == {n \in sends : n.task = t}

\* What a run that is about to make a call has sent.
OwnersKnowSends ==
    \A w \in Workers :
        /\ at[w] \in {"mark_sending", "send"} => SentFor(task[w]) = {}
        /\ at[w] \in {"mark_sent", "verify", "mark_unknown", "mark_verified"} =>
              \E n \in SentFor(task[w]) : n.ok
        /\ at[w] = "mark_failed" =>
              SentFor(task[w]) # {} /\ \A n \in SentFor(task[w]) : ~n.ok

\* Every call of Send has a record behind it.
SendsHaveRecords ==
    \A n \in sends : \E r \in records : r.TaskID = n.task /\ r.DedupeKey = n.key

StoreKeyedOnce == Store!KeyedOnce(records)

IInv == /\ TypeOK /\ IsFiniteSet(sends)
        /\ StoreKeyedOnce
        /\ OwnersHaveRecords /\ OwnersAreAlone /\ OwnersKnowSends
        /\ SendsHaveRecords
        /\ KeySentOnce /\ StatusIsTrue

\* No run, no record, nothing sent.
LEMMA InitIInv == Init => IInv
  <1> SUFFICES ASSUME Init PROVE IInv
    OBVIOUS
  <1> USE DEF Init
  <1>1. TypeOK
    BY DEF TypeOK
  <1>2. IsFiniteSet(sends)
    BY FS_EmptySet
  <1>3. StoreKeyedOnce /\ OwnersHaveRecords /\ OwnersAreAlone /\ OwnersKnowSends
    BY DEF StoreKeyedOnce, Store!KeyedOnce, OwnersHaveRecords, OwnersAreAlone,
           OwnersKnowSends, Owner
  <1>4. SendsHaveRecords /\ KeySentOnce /\ StatusIsTrue
    BY DEF SendsHaveRecords, KeySentOnce, StatusIsTrue
  <1> QED
    BY <1>1, <1>2, <1>3, <1>4 DEF IInv

--------------------------------------------------------------------------------
(* The store.                                                                    *)

\* CreateRecord keeps one record per task and per dedupe key.
LEMMA CreateKeepsKeys ==
    ASSUME NEW S, NEW r, Store!KeyedOnce(S)
    PROVE  Store!KeyedOnce(Store!CreateRecord(S, r))
  BY DEF Store!KeyedOnce, Store!CreateRecord, Store!CreateRefused, Store!HasRecord,
         Store!HasDuplicate

\* UpdateStatus rewrites the status of the records of one task and nothing else.
LEMMA UpdateChanges ==
    ASSUME NEW S \in SUBSET Store!Record, NEW t, NEW s
    PROVE  /\ \A x \in Store!UpdateStatus(S, t, s) : \E r \in S :
                 /\ x.TaskID = r.TaskID /\ x.DedupeKey = r.DedupeKey
                 /\ x.Status = IF r.TaskID = t THEN s ELSE r.Status
                 /\ x = [TaskID |-> r.TaskID, DedupeKey |-> r.DedupeKey, Status |-> x.Status]
           /\ \A r \in S :
                 [TaskID |-> r.TaskID, DedupeKey |-> r.DedupeKey,
                  Status |-> IF r.TaskID = t THEN s ELSE r.Status]
                    \in Store!UpdateStatus(S, t, s)
  <1>1. \A r \in S :
           (IF r.TaskID = t THEN [r EXCEPT !.Status = s] ELSE r)
              = [TaskID |-> r.TaskID, DedupeKey |-> r.DedupeKey,
                 Status |-> IF r.TaskID = t THEN s ELSE r.Status]
    BY DEF Store!Record
  <1>2. \A x \in Store!UpdateStatus(S, t, s) : \E r \in S :
           x = IF r.TaskID = t THEN [r EXCEPT !.Status = s] ELSE r
    BY DEF Store!UpdateStatus
  <1>3. \A r \in S :
           (IF r.TaskID = t THEN [r EXCEPT !.Status = s] ELSE r) \in Store!UpdateStatus(S, t, s)
    BY DEF Store!UpdateStatus
  <1>4. ASSUME NEW x \in Store!UpdateStatus(S, t, s)
        PROVE  \E r \in S :
                  /\ x.TaskID = r.TaskID /\ x.DedupeKey = r.DedupeKey
                  /\ x.Status = IF r.TaskID = t THEN s ELSE r.Status
                  /\ x = [TaskID |-> r.TaskID, DedupeKey |-> r.DedupeKey, Status |-> x.Status]
    <2>1. PICK r \in S : x = IF r.TaskID = t THEN [r EXCEPT !.Status = s] ELSE r
      BY <1>2
    <2>2. x = [TaskID |-> r.TaskID, DedupeKey |-> r.DedupeKey,
               Status |-> IF r.TaskID = t THEN s ELSE r.Status]
      BY <1>1, <2>1
    <2> QED
      BY <2>2
  <1> QED
    BY <1>1, <1>3, <1>4

\* So it keeps one record per task and per dedupe key.
LEMMA UpdateKeepsKeys ==
    ASSUME NEW S \in SUBSET Store!Record, NEW t, NEW s, Store!KeyedOnce(S)
    PROVE  Store!KeyedOnce(Store!UpdateStatus(S, t, s))
  <1> SUFFICES ASSUME NEW x \in Store!UpdateStatus(S, t, s),
                      NEW y \in Store!UpdateStatus(S, t, s),
                      x.TaskID = y.TaskID \/ x.DedupeKey = y.DedupeKey
               PROVE  x = y
    BY DEF Store!KeyedOnce
  <1>1. PICK p \in S :
           /\ x.TaskID = p.TaskID /\ x.DedupeKey = p.DedupeKey
           /\ x.Status = IF p.TaskID = t THEN s ELSE p.Status
           /\ x = [TaskID |-> p.TaskID, DedupeKey |-> p.DedupeKey, Status |-> x.Status]
    BY UpdateChanges
  <1>2. PICK q \in S :
           /\ y.TaskID = q.TaskID /\ y.DedupeKey = q.DedupeKey
           /\ y.Status = IF q.TaskID = t THEN s ELSE q.Status
           /\ y = [TaskID |-> q.TaskID, DedupeKey |-> q.DedupeKey, Status |-> y.Status]
    BY UpdateChanges
  <1>3. p = q
    BY <1>1, <1>2 DEF Store!KeyedOnce
  <1> QED
    BY <1>1, <1>2, <1>3

--------------------------------------------------------------------------------
(* One lemma per kind of step.                                                   *)

\* A run begins without a record of its own.
LEMMA BeginIInv ==
    ASSUME IInv, NEW w \in Workers, NEW t \in Tasks, NEW k \in DedupeKeys, Begin(w, t, k)
    PROVE  IInv'
  <1> USE DEF Begin, Goto
  <1>1. TypeOK' /\ IsFiniteSet(sends')
    BY DEF IInv, TypeOK, Calls
  <1>2. StoreKeyedOnce' /\ SendsHaveRecords' /\ KeySentOnce' /\ StatusIsTrue'
    BY DEF IInv, StoreKeyedOnce, SendsHaveRecords, KeySentOnce, StatusIsTrue
  <1>3. \A v \in Workers : v # w => at'[v] = at[v] /\ task'[v] = task[v] /\ key'[v] = key[v]
    BY DEF IInv, TypeOK
  <1>4. at'[w] = "create"
    BY DEF IInv, TypeOK
  <1>5. OwnersHaveRecords' /\ OwnersAreAlone'
    BY <1>3, <1>4 DEF IInv, OwnersHaveRecords, OwnersAreAlone, Owner
  <1>6. OwnersKnowSends'
    BY <1>3, <1>4 DEF IInv, OwnersKnowSends, SentFor
  <1> QED
    BY <1>1, <1>2, <1>5, <1>6 DEF IInv

\* A run gets a record only for a key and task that have none.
LEMMA CreateIInv ==
    ASSUME IInv, NEW w \in Workers, Create(w)
    PROVE  IInv'
  <1> USE DEF Create, Goto, runVars
  <1>1. task[w] \in Tasks /\ key[w] \in DedupeKeys /\ at[w] = "create"
    BY DEF IInv, TypeOK
  <1>2. \A v \in Workers : v # w => at'[v] = at[v]
    BY DEF IInv, TypeOK
  <1>3. CASE Store!CreateRefused(records, Pending(w))
    <2>1. UNCHANGED <<records, sends, task, key>> /\ at' = [at EXCEPT ![w] = "idle"]
      BY <1>3 DEF Store!CreateRecord
    <2>2. TypeOK' /\ IsFiniteSet(sends')
      BY <2>1 DEF IInv, TypeOK
    <2>3. at'[w] = "idle"
      BY <2>1 DEF IInv, TypeOK
    <2>4. StoreKeyedOnce' /\ SendsHaveRecords' /\ KeySentOnce' /\ StatusIsTrue'
      BY <2>1 DEF IInv, StoreKeyedOnce, SendsHaveRecords, KeySentOnce, StatusIsTrue
    <2>5. OwnersHaveRecords' /\ OwnersAreAlone' /\ OwnersKnowSends'
      BY <1>2, <2>1, <2>3
         DEF IInv, OwnersHaveRecords, OwnersAreAlone, OwnersKnowSends, Owner, SentFor
    <2> QED
      BY <2>2, <2>4, <2>5 DEF IInv
  <1>4. CASE ~Store!CreateRefused(records, Pending(w))
    <2>1. /\ UNCHANGED <<sends, task, key>> /\ at' = [at EXCEPT ![w] = "mark_sending"]
          /\ records' = records \cup {Pending(w)}
      BY <1>4 DEF Store!CreateRecord
    <2>2. Pending(w) \in Store!Record
      BY <1>1 DEF Pending, Store!Record, Statuses
    <2>3. TypeOK' /\ IsFiniteSet(sends')
      BY <2>1, <2>2 DEF IInv, TypeOK, Calls
    <2>4. at'[w] = "mark_sending"
      BY <2>1 DEF IInv, TypeOK
    <2>5. \A r \in records : r.TaskID # task[w] /\ r.DedupeKey # key[w]
      BY <1>4 DEF Store!CreateRefused, Store!HasRecord, Store!HasDuplicate, Pending
    <2>6. SentFor(task[w]) = {}
      BY <2>5 DEF IInv, SendsHaveRecords, SentFor
    <2>7. StoreKeyedOnce'
      BY CreateKeepsKeys DEF IInv, StoreKeyedOnce
    <2>8. SendsHaveRecords' /\ KeySentOnce'
      BY <2>1 DEF IInv, SendsHaveRecords, KeySentOnce
    <2>9. StatusIsTrue'
      <3>1. \A n \in sends : n.task # task[w]
        BY <2>6 DEF SentFor
      <3> QED
        BY <2>1, <3>1 DEF IInv, StatusIsTrue, Pending
    <2>10. OwnersHaveRecords'
      <3>1. StatusAt["mark_sending"] = "pending"
        BY DEF StatusAt, Calls
      <3> QED
        BY <1>2, <2>1, <2>4, <3>1 DEF IInv, OwnersHaveRecords, Owner, Pending
    <2>11. OwnersAreAlone'
      <3>1. \A v \in Workers : v # w /\ Owner(v) => task[v] # task[w]
        BY <2>5 DEF IInv, OwnersHaveRecords
      <3> QED
        BY <1>2, <2>1, <3>1 DEF IInv, OwnersAreAlone, Owner
    <2>12. OwnersKnowSends'
      BY <1>2, <2>1, <2>4, <2>6 DEF IInv, OwnersKnowSends, SentFor
    <2> QED
      BY <2>3, <2>7, <2>8, <2>9, <2>10, <2>11, <2>12 DEF IInv
  <1> QED
    BY <1>3, <1>4

\* A run that records a status it may claim, and goes on to a call that fits it.
LEMMA MarkIInv ==
    ASSUME IInv, NEW w \in Workers,
           NEW call \in Calls \ {"create"}, NEW s \in Statuses \ {"pending"},
           NEW next \in (Calls \ {"create"}) \cup {"idle"},
           Mark(w, call, s, next),
           next # "idle" => StatusAt[next] = s,
           s \in {"sent_unverified", "verified", "unknown_delivery_state"} =>
              \E n \in SentFor(task[w]) : n.ok,
           s = "failed" => SentFor(task[w]) # {} /\ \A n \in SentFor(task[w]) : ~n.ok,
           next \in {"send", "verify", "idle"},
           next = "send" => SentFor(task[w]) = {},
           next = "verify" => \E n \in SentFor(task[w]) : n.ok
    PROVE  IInv'
  <1> DEFINE mine == [TaskID |-> task[w], DedupeKey |-> key[w], Status |-> StatusAt[call]]
  <1>0. records \in SUBSET Store!Record
    BY DEF IInv, TypeOK
  <1>1. at[w] = call /\ Owner(w) /\ mine \in records
    BY DEF Mark, IInv, OwnersHaveRecords, Owner, Calls
  <1>2. /\ UNCHANGED <<task, key, sends>> /\ at' = [at EXCEPT ![w] = next]
        /\ records' = Store!UpdateStatus(records, task[w], s)
    BY <1>1 DEF Mark, Goto, runVars, Store!HasRecord
  <1>3. at'[w] = next /\ \A v \in Workers : v # w => at'[v] = at[v]
    BY <1>2 DEF IInv, TypeOK
  <1>4. \A x \in records' : \E r \in records :
           /\ x.TaskID = r.TaskID /\ x.DedupeKey = r.DedupeKey
           /\ x.Status = IF r.TaskID = task[w] THEN s ELSE r.Status
           /\ x = [TaskID |-> r.TaskID, DedupeKey |-> r.DedupeKey, Status |-> x.Status]
    BY <1>0, <1>2, UpdateChanges
  <1>5. \A r \in records :
           [TaskID |-> r.TaskID, DedupeKey |-> r.DedupeKey,
            Status |-> IF r.TaskID = task[w] THEN s ELSE r.Status] \in records'
    BY <1>0, <1>2, UpdateChanges
  <1>6. TypeOK' /\ IsFiniteSet(sends')
    <2>1. records' \subseteq Store!Record
      BY <1>0, <1>4 DEF Store!Record
    <2> QED
      BY <1>2, <2>1 DEF IInv, TypeOK
  <1>7. StoreKeyedOnce'
    BY <1>0, <1>2, UpdateKeepsKeys DEF IInv, StoreKeyedOnce
  <1>8. OwnersHaveRecords'
    <2> SUFFICES ASSUME NEW v \in Workers, Owner(v)'
                 PROVE  [TaskID |-> task[v], DedupeKey |-> key[v],
                         Status |-> StatusAt[at'[v]]] \in records'
      BY <1>2 DEF OwnersHaveRecords
    <2>1. CASE v = w
      BY <1>1, <1>3, <1>5, <2>1 DEF Owner
    <2>2. CASE v # w
      <3>1. Owner(v) /\ at'[v] = at[v]
        BY <1>3, <2>2 DEF Owner
      <3>2. task[v] # task[w]
        BY <1>1, <2>2, <3>1 DEF IInv, OwnersAreAlone
      <3>3. [TaskID |-> task[v], DedupeKey |-> key[v], Status |-> StatusAt[at[v]]] \in records
        BY <3>1 DEF IInv, OwnersHaveRecords
      <3> QED
        BY <1>5, <3>1, <3>2, <3>3
    <2> QED
      BY <2>1, <2>2
  <1>9. OwnersAreAlone'
    BY <1>1, <1>2, <1>3 DEF IInv, OwnersAreAlone, Owner
  <1>10. OwnersKnowSends'
    BY <1>2, <1>3 DEF IInv, OwnersKnowSends, SentFor
  <1>11. SendsHaveRecords'
    <2> SUFFICES ASSUME NEW n \in sends
                 PROVE  \E r \in records' : r.TaskID = n.task /\ r.DedupeKey = n.key
      BY <1>2 DEF SendsHaveRecords
    <2>1. PICK r \in records : r.TaskID = n.task /\ r.DedupeKey = n.key
      BY DEF IInv, SendsHaveRecords
    <2> QED
      BY <1>5, <2>1
  <1>12. KeySentOnce'
    BY <1>2 DEF IInv, KeySentOnce
  <1>13. StatusIsTrue'
    <2> SUFFICES ASSUME NEW x \in records'
                 PROVE  /\ \A n \in SentFor(x.TaskID) : n.key = x.DedupeKey
                        /\ x.Status = "pending" => SentFor(x.TaskID) = {}
                        /\ x.Status \in {"sent_unverified", "verified", "unknown_delivery_state"}
                              => \E n \in SentFor(x.TaskID) : n.ok
                        /\ x.Status = "failed" => /\ SentFor(x.TaskID) # {}
                                                  /\ \A n \in SentFor(x.TaskID) : ~n.ok
      BY <1>2 DEF StatusIsTrue, SentFor
    <2>1. PICK r \in records :
             /\ x.TaskID = r.TaskID /\ x.DedupeKey = r.DedupeKey
             /\ x.Status = IF r.TaskID = task[w] THEN s ELSE r.Status
      BY <1>4
    <2>2. /\ \A n \in SentFor(r.TaskID) : n.key = r.DedupeKey
          /\ r.Status = "pending" => SentFor(r.TaskID) = {}
          /\ r.Status \in {"sent_unverified", "verified", "unknown_delivery_state"}
                => \E n \in SentFor(r.TaskID) : n.ok
          /\ r.Status = "failed" => /\ SentFor(r.TaskID) # {}
                                    /\ \A n \in SentFor(r.TaskID) : ~n.ok
      BY DEF IInv, StatusIsTrue, SentFor
    <2>3. CASE r.TaskID = task[w]
      BY <2>1, <2>2, <2>3
    <2>4. CASE r.TaskID # task[w]
      BY <2>1, <2>2, <2>4
    <2> QED
      BY <2>3, <2>4
  <1> QED
    BY <1>6, <1>7, <1>8, <1>9, <1>10, <1>11, <1>12, <1>13 DEF IInv

\* The run that sends is the first to send for its task and for its key.
LEMMA SendIInv ==
    ASSUME IInv, NEW w \in Workers, Send(w)
    PROVE  IInv'
  <1> DEFINE mine == [TaskID |-> task[w], DedupeKey |-> key[w], Status |-> "sending"]
  <1>1. at[w] = "send" /\ Owner(w) /\ mine \in records /\ SentFor(task[w]) = {}
    <2>1. at[w] = "send"
      BY DEF Send
    <2>2. StatusAt["send"] = "sending"
      BY DEF StatusAt, Calls
    <2> QED
      BY <2>1, <2>2 DEF IInv, OwnersHaveRecords, OwnersKnowSends, Owner
  <1>2. PICK ok \in BOOLEAN :
           /\ sends' = sends \cup {[by |-> w, task |-> task[w], key |-> key[w], ok |-> ok,
                                    nth |-> Cardinality(sends)]}
           /\ at' = [at EXCEPT ![w] = IF ok THEN "mark_sent" ELSE "mark_failed"]
           /\ UNCHANGED <<task, key, records>>
    BY DEF Send, Goto, runVars
  <1> DEFINE new == [by |-> w, task |-> task[w], key |-> key[w], ok |-> ok,
                     nth |-> Cardinality(sends)]
  <1>3. new \in [by : Workers, task : Tasks, key : DedupeKeys, ok : BOOLEAN, nth : Nat]
    BY FS_CardinalityType DEF IInv, TypeOK
  <1>4. TypeOK' /\ IsFiniteSet(sends')
    <2>1. IsFiniteSet(sends')
      BY <1>2, FS_AddElement DEF IInv
    <2> QED
      BY <1>2, <1>3, <2>1 DEF IInv, TypeOK, Calls
  <1>5. /\ at'[w] = IF ok THEN "mark_sent" ELSE "mark_failed"
        /\ \A v \in Workers : v # w => at'[v] = at[v]
    BY <1>2 DEF IInv, TypeOK
  <1>6. /\ new.task = task[w] /\ new.key = key[w] /\ new.ok = ok
        /\ sends' = sends \cup {new}
    BY <1>2
  <1>7. \A t : SentFor(t)' = IF t = task[w] THEN {new} ELSE SentFor(t)
    BY <1>1, <1>6 DEF SentFor
  <1> HIDE DEF new
  <1>8. StoreKeyedOnce' /\ OwnersAreAlone'
    BY <1>1, <1>2, <1>5 DEF IInv, StoreKeyedOnce, OwnersAreAlone, Owner
  <1>9. OwnersHaveRecords'
    <2>1. StatusAt["mark_sent"] = "sending" /\ StatusAt["mark_failed"] = "sending"
      BY DEF StatusAt, Calls
    <2> QED
      BY <1>1, <1>2, <1>5, <2>1 DEF IInv, OwnersHaveRecords, Owner
  <1>10. OwnersKnowSends'
    <2> SUFFICES ASSUME NEW v \in Workers
                 PROVE  /\ at'[v] \in {"mark_sending", "send"} => SentFor(task[v])' = {}
                        /\ at'[v] \in {"mark_sent", "verify", "mark_unknown", "mark_verified"}
                              => \E n \in SentFor(task[v])' : n.ok
                        /\ at'[v] = "mark_failed" => /\ SentFor(task[v])' # {}
                                                     /\ \A n \in SentFor(task[v])' : ~n.ok
      BY DEF OwnersKnowSends
    <2>0. SentFor(task[v])' = IF task[v] = task[w] THEN {new} ELSE SentFor(task[v])
      BY <1>2, <1>6, <1>1 DEF SentFor
    <2>1. CASE v = w
      BY <1>5, <1>6, <2>0, <2>1
    <2>2. CASE v # w /\ Owner(v)
      <3>1. task[v] # task[w]
        BY <1>1, <2>2 DEF IInv, OwnersAreAlone
      <3> QED
        BY <1>5, <2>0, <2>2, <3>1 DEF IInv, OwnersKnowSends
    <2>3. CASE v # w /\ ~Owner(v)
      BY <1>5, <2>3 DEF Owner
    <2> QED
      BY <2>1, <2>2, <2>3
  <1>11. SendsHaveRecords'
    BY <1>1, <1>2, <1>6 DEF IInv, SendsHaveRecords
  <1>12. KeySentOnce'
    <2>1. \A m \in sends : m.key # key[w] /\ m.task # task[w]
      <3> SUFFICES ASSUME NEW m \in sends, m.key = key[w] \/ m.task = task[w] PROVE FALSE
        OBVIOUS
      <3>1. PICK r \in records : r.TaskID = m.task /\ r.DedupeKey = m.key
        BY DEF IInv, SendsHaveRecords
      <3>2. r = mine
        BY <1>1, <3>1 DEF IInv, StoreKeyedOnce, Store!KeyedOnce
      <3>3. m \in SentFor(task[w])
        BY <3>1, <3>2 DEF SentFor
      <3> QED
        BY <1>1, <3>3
    <2> QED
      BY <1>6, <2>1 DEF IInv, KeySentOnce
  <1>13. StatusIsTrue'
    <2> SUFFICES ASSUME NEW r \in records
                 PROVE  /\ \A n \in SentFor(r.TaskID)' : n.key = r.DedupeKey
                        /\ r.Status = "pending" => SentFor(r.TaskID)' = {}
                        /\ r.Status \in {"sent_unverified", "verified", "unknown_delivery_state"}
                              => \E n \in SentFor(r.TaskID)' : n.ok
                        /\ r.Status = "failed" => /\ SentFor(r.TaskID)' # {}
                                                  /\ \A n \in SentFor(r.TaskID)' : ~n.ok
      BY <1>2 DEF StatusIsTrue, SentFor
    <2>0. SentFor(r.TaskID)' = IF r.TaskID = task[w] THEN {new} ELSE SentFor(r.TaskID)
      BY <1>2, <1>6, <1>1 DEF SentFor
    <2>1. CASE r.TaskID = task[w]
      <3>1. r = mine
        BY <1>1, <2>1 DEF IInv, StoreKeyedOnce, Store!KeyedOnce
      <3> QED
        BY <1>6, <2>0, <2>1, <3>1
    <2>2. CASE r.TaskID # task[w]
      BY <2>0, <2>2 DEF IInv, StatusIsTrue, SentFor
    <2> QED
      BY <2>1, <2>2
  <1> QED
    BY <1>4, <1>8, <1>9, <1>10, <1>11, <1>12, <1>13 DEF IInv

\* Verification changes the record of its own run only.
LEMMA VerifyIInv ==
    ASSUME IInv, NEW w \in Workers, Verify(w)
    PROVE  IInv'
  <1>1. PICK next \in {"mark_verified", "mark_unknown"} :
           /\ at[w] = "verify" /\ at' = [at EXCEPT ![w] = next]
           /\ UNCHANGED <<task, key, records, sends>>
    BY DEF Verify, Goto, runVars
  <1>2. at'[w] = next /\ \A v \in Workers : v # w => at'[v] = at[v]
    BY <1>1 DEF IInv, TypeOK
  <1>3. StatusAt["verify"] = "sent_unverified" /\ StatusAt[next] = "sent_unverified"
    BY DEF StatusAt, Calls
  <1>4. TypeOK' /\ IsFiniteSet(sends')
    BY <1>1 DEF IInv, TypeOK, Calls
  <1>5. StoreKeyedOnce' /\ SendsHaveRecords' /\ KeySentOnce' /\ StatusIsTrue'
    BY <1>1 DEF IInv, StoreKeyedOnce, SendsHaveRecords, KeySentOnce, StatusIsTrue
  <1>6. OwnersHaveRecords' /\ OwnersAreAlone'
    BY <1>1, <1>2, <1>3 DEF IInv, OwnersHaveRecords, OwnersAreAlone, Owner
  <1>7. OwnersKnowSends'
    BY <1>1, <1>2 DEF IInv, OwnersKnowSends, SentFor
  <1> QED
    BY <1>4, <1>5, <1>6, <1>7 DEF IInv

--------------------------------------------------------------------------------
(* Every step.                                                                   *)

\* Every step of a worker keeps the invariant.
LEMMA StepIInv ==
    ASSUME IInv, NEW w \in Workers, Step(w)
    PROVE  IInv'
  <1> USE DEF Statuses, Calls
  <1>1. /\ StatusAt["send"] = "sending" /\ StatusAt["verify"] = "sent_unverified"
    BY DEF StatusAt
  <1>2. /\ at[w] \in {"mark_sending", "send"} => SentFor(task[w]) = {}
        /\ at[w] \in {"mark_sent", "verify", "mark_unknown", "mark_verified"} =>
              \E n \in SentFor(task[w]) : n.ok
        /\ at[w] = "mark_failed" =>
              SentFor(task[w]) # {} /\ \A n \in SentFor(task[w]) : ~n.ok
    BY DEF IInv, OwnersKnowSends
  <1>3. CASE Create(w)
    BY <1>3, CreateIInv
  <1>4. CASE MarkSending(w)
    <2>1. at[w] = "mark_sending"
      BY <1>4 DEF MarkSending, Mark
    <2> QED
      BY <1>1, <1>2, <1>4, <2>1, MarkIInv DEF MarkSending
  <1>5. CASE Send(w)
    BY <1>5, SendIInv
  <1>6. CASE MarkFailed(w)
    <2>1. at[w] = "mark_failed"
      BY <1>6 DEF MarkFailed, Mark
    <2> QED
      BY <1>2, <1>6, <2>1, MarkIInv DEF MarkFailed
  <1>7. CASE MarkSent(w)
    <2>1. at[w] = "mark_sent"
      BY <1>7 DEF MarkSent, Mark
    <2> QED
      BY <1>1, <1>2, <1>7, <2>1, MarkIInv DEF MarkSent
  <1>8. CASE Verify(w)
    BY <1>8, VerifyIInv
  <1>9. CASE MarkUnknown(w)
    <2>1. at[w] = "mark_unknown"
      BY <1>9 DEF MarkUnknown, Mark
    <2> QED
      BY <1>2, <1>9, <2>1, MarkIInv DEF MarkUnknown
  <1>10. CASE MarkVerified(w)
    <2>1. at[w] = "mark_verified"
      BY <1>10 DEF MarkVerified, Mark
    <2> QED
      BY <1>2, <1>10, <2>1, MarkIInv DEF MarkVerified
  <1> QED
    BY <1>3, <1>4, <1>5, <1>6, <1>7, <1>8, <1>9, <1>10 DEF Step

\* Every step keeps the invariant.
LEMMA NextIInv == IInv /\ [Next]_vars => IInv'
  <1> SUFFICES ASSUME IInv, [Next]_vars PROVE IInv'
    OBVIOUS
  <1>1. CASE Next
    BY <1>1, StepIInv, BeginIInv DEF Next
  <1>2. CASE UNCHANGED vars
    BY <1>2 DEF IInv, TypeOK, StoreKeyedOnce, OwnersHaveRecords, OwnersAreAlone,
                OwnersKnowSends, SendsHaveRecords, KeySentOnce, StatusIsTrue, Owner,
                SentFor, vars
  <1> QED
    BY <1>1, <1>2

\* The invariant holds throughout.
LEMMA IInvHolds == Spec => []IInv
  BY InitIInv, NextIInv, PTL DEF Spec

--------------------------------------------------------------------------------
(* The theorems.                                                                 *)

\* Every variable keeps to its range.
THEOREM TypeCorrect == Spec => []TypeOK
  <1>1. IInv => TypeOK
    BY DEF IInv
  <1> QED
    BY <1>1, IInvHolds, PTL

\* However many workers run the workflow, for whatever tasks and keys and however
\* often, adapter.Send is called once for a dedupe key and once for a task.
THEOREM SentOnce == Spec => []KeySentOnce
  <1>1. IInv => KeySentOnce
    BY DEF IInv
  <1> QED
    BY <1>1, IInvHolds, PTL

\* The status in the store says of the calls of adapter.Send what is so
\* (RunSendVerifyWorkflow's UpdateRecord calls).
THEOREM StatusTrue == Spec => []StatusIsTrue
  <1>1. IInv => StatusIsTrue
    BY DEF IInv
  <1> QED
    BY <1>1, IInvHolds, PTL

\* A call of UpdateRecord by a run takes no record back.
LEMMA MarkGoesOn ==
    ASSUME IInv, NEW w \in Workers,
           NEW call \in Calls \ {"create"}, NEW s \in Statuses, NEW next,
           Mark(w, call, s, next), Rank[StatusAt[call]] < Rank[s]
    PROVE  \A r \in records : \E x \in records' :
              /\ x.TaskID = r.TaskID /\ x.DedupeKey = r.DedupeKey
              /\ x.Status = r.Status \/ Rank[r.Status] < Rank[x.Status]
  <1> SUFFICES ASSUME NEW r \in records
               PROVE  \E x \in records' :
                         /\ x.TaskID = r.TaskID /\ x.DedupeKey = r.DedupeKey
                         /\ x.Status = r.Status \/ Rank[r.Status] < Rank[x.Status]
    OBVIOUS
  <1>1. [TaskID |-> r.TaskID, DedupeKey |-> r.DedupeKey,
         Status |-> IF r.TaskID = task[w] THEN s ELSE r.Status] \in records'
    BY UpdateChanges DEF Mark, IInv, TypeOK
  <1>2. r.TaskID = task[w] => r.Status = StatusAt[call]
    <2>1. [TaskID |-> task[w], DedupeKey |-> key[w], Status |-> StatusAt[call]] \in records
      BY DEF Mark, IInv, OwnersHaveRecords, Owner, Calls
    <2> QED
      BY <2>1 DEF IInv, StoreKeyedOnce, Store!KeyedOnce
  <1> QED
    BY <1>1, <1>2

\* No step takes the status of a record back on the way of README.md:523, one end for
\* another, or a record out of the store or from under its names, though any worker may
\* run the workflow for its task or its key at any time (RunSendVerifyWorkflow).
THEOREM NeverGoesBack == Spec => StatusNeverGoesBack
  <1> DEFINE Onward ==
        \A r \in records : \E s \in records' :
            /\ s.TaskID = r.TaskID /\ s.DedupeKey = r.DedupeKey
            /\ s.Status = r.Status \/ Rank[r.Status] < Rank[s.Status]
  <1>1. IInv /\ [Next]_vars => [Onward]_vars
    <2> SUFFICES ASSUME IInv, Next PROVE Onward
      OBVIOUS
    <2>1. ASSUME records \subseteq records' PROVE Onward
      BY <2>1
    <2>2. ASSUME NEW w \in Workers, Step(w) PROVE Onward
      <3> USE DEF Statuses, Calls
      <3>1. /\ Rank[StatusAt["mark_sending"]] < Rank["sending"]
            /\ Rank[StatusAt["mark_failed"]] < Rank["failed"]
            /\ Rank[StatusAt["mark_sent"]] < Rank["sent_unverified"]
            /\ Rank[StatusAt["mark_unknown"]] < Rank["unknown_delivery_state"]
            /\ Rank[StatusAt["mark_verified"]] < Rank["verified"]
        BY DEF Rank, StatusAt
      <3>2. CASE Create(w)
        BY <2>1, <3>2 DEF Create, Store!CreateRecord
      <3>3. CASE Send(w) \/ Verify(w)
        BY <2>1, <3>3 DEF Send, Verify
      <3>4. CASE MarkSending(w)
        BY <3>1, <3>4, MarkGoesOn DEF MarkSending
      <3>5. CASE MarkFailed(w)
        BY <3>1, <3>5, MarkGoesOn DEF MarkFailed
      <3>6. CASE MarkSent(w)
        BY <3>1, <3>6, MarkGoesOn DEF MarkSent
      <3>7. CASE MarkUnknown(w)
        BY <3>1, <3>7, MarkGoesOn DEF MarkUnknown
      <3>8. CASE MarkVerified(w)
        BY <3>1, <3>8, MarkGoesOn DEF MarkVerified
      <3> QED
        BY <2>2, <3>2, <3>3, <3>4, <3>5, <3>6, <3>7, <3>8 DEF Step
    <2>3. ASSUME NEW w \in Workers, NEW t \in Tasks, NEW k \in DedupeKeys, Begin(w, t, k)
          PROVE  Onward
      BY <2>1, <2>3 DEF Begin
    <2> HIDE DEF Onward
    <2> QED
      BY <2>2, <2>3 DEF Next
  <1>2. Spec => [][Onward]_vars
    BY <1>1, IInvHolds, PTL DEF Spec
  <1> QED
    BY <1>2 DEF StatusNeverGoesBack
================================================================================
