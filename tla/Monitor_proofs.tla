----------------------------- MODULE Monitor_proofs -----------------------------
(* Proofs about Monitor, for any number of chats, messages, rounds and restarts: its  *)
(* types, the replies a session lists, the history of a session whose read mark stays *)
(* in sight and the answers made from it, and what Stop puts an end to.               *)
EXTENDS Monitor, FiniteSetTheorems, SequenceTheorems, WellFoundedInduction, TLAPS

--------------------------------------------------------------------------------
(* Induction over the naturals, as a fact about sets.                               *)

\* Used in place of the induction theorem of the library, which takes a predicate.
LEMMA SetInduction ==
    ASSUME NEW S, 0 \in S, \A n \in Nat : n \in S => n + 1 \in S
    PROVE  Nat \subseteq S
<1> DEFINE T == Nat \ S
           R == OpToRel(<, Nat)
<1>1. SUFFICES ASSUME T # {} PROVE FALSE
  OBVIOUS
<1>2. \E x \in T : \A y \in T : ~ (<<y, x>> \in R)
  <2>1. IsWellFoundedOn(R, Nat)
    BY NatLessThanWellFounded
  <2> HIDE DEF R
  <2> QED
    BY <1>1, <2>1, WFMin
<1>3. \A x, y \in Nat : y < x => <<y, x>> \in R
  BY DEF OpToRel
<1> HIDE DEF R
<1> QED
  <2>1. PICK x \in T : \A y \in T : ~ (<<y, x>> \in R)
    BY <1>2
  <2>2. x # 0 /\ x - 1 \in Nat /\ x - 1 \in T
    BY <2>1
  <2>3. <<x - 1, x>> \in R
    <3>1. x \in Nat /\ x - 1 \in Nat /\ x - 1 < x
      BY <2>2
    <3> QED
      BY <1>3, <3>1
  <2> HIDE DEF T
  <2> QED
    BY <2>1, <2>2, <2>3

\* after[i] is the session after i of the messages were added.
AddedInTurn(s, fps, after) ==
    /\ Sessions!AddMessages(s, fps) = after[Len(fps)]
    /\ after[0] = s
    /\ \A i \in 1..Len(fps) : after[i] = Sessions!AddMessage(after[i - 1], fps[i], FALSE)

\* AddMessages is AddMessage for each message in turn (updateSessionWithMessages).
LEMMA AddMessagesInTurn ==
    ASSUME NEW s, NEW fps, Len(fps) \in Nat
    PROVE  \E after : AddedInTurn(s, fps, after)
<1> DEFINE step(x, i) == Sessions!AddMessage(x, fps[i], FALSE)
           Turns(f, n) == f[0] = s /\ \A i \in 1..n : f[i] = step(f[i - 1], i)
           S == {n \in Nat : \E f : Turns(f, n)}
           L == Len(fps)
           Rec(f) == f = [i \in 0..L |-> IF i = 0 THEN s ELSE step(f[i - 1], i)]
           after == CHOOSE f : Rec(f)
<1> HIDE DEF step
<1>1. 0 \in S
  <2>1. Turns([i \in {0} |-> s], 0)
    OBVIOUS
  <2> QED
    BY <2>1
<1>2. ASSUME NEW n \in Nat, n \in S PROVE n + 1 \in S
  <2>1. PICK f : Turns(f, n)
    BY <1>2
  <2>2. Turns([i \in 0..(n + 1) |-> IF i = n + 1 THEN step(f[n], n + 1) ELSE f[i]], n + 1)
    BY <2>1
  <2> HIDE DEF Turns
  <2> QED
    BY <2>2
<1>3. L \in S
  <2> HIDE DEF S
  <2> QED
    BY <1>1, <1>2, SetInduction
<1>4. \E f : Rec(f)
  <2>1. PICK f : Turns(f, L)
    BY <1>3
  <2>2. Rec([i \in 0..L |-> f[i]])
    BY <2>1
  <2> QED
    BY <2>2
<1>5. Rec(after)
  <2> HIDE DEF Rec
  <2> QED
    BY <1>4
<1>6. Sessions!AddMessages(s, fps) = after[L]
  BY DEF Sessions!AddMessages, step
<1> HIDE DEF after
<1>7. Turns(after, L)
  BY <1>5
<1> QED
  BY <1>6, <1>7 DEF step, AddedInTurn

--------------------------------------------------------------------------------
(* What the operations of the session manager return.                               *)

\* c is h with e at its end, of n entries at most.
Grown(h, e, n, c) ==
    /\ Len(c) = IF Len(h) = n THEN n ELSE Len(h) + 1
    /\ c[Len(c)] = e
    /\ \A k \in 1..Len(c) - 1 :
          k + Len(h) + 1 - Len(c) \in 1..Len(h) /\ c[k] = h[k + Len(h) + 1 - Len(c)]

\* A history that had its limit still has it, ends with what was added, and is otherwise the
\* newest of what it was (AddMessage, AddReply).
LEMMA CappedAppend ==
    ASSUME NEW S, NEW h \in Seq(S), NEW e \in S, NEW n \in Nat \ {0}, Len(h) <= n,
           NEW c, c = Sessions!Capped(Append(h, e), n)
    PROVE  c \in Seq(S) /\ c # <<>> /\ Grown(h, e, n, c)
<1> DEFINE a == Append(h, e)
<1>1. /\ a \in Seq(S) /\ Len(a) = Len(h) + 1 /\ a # <<>>
      /\ a[Len(a)] = e /\ \A k \in 1..Len(h) : a[k] = h[k]
  BY AppendProperties
<1>2. Len(h) \in Nat
  BY LenProperties
<1>3. CASE Len(h) < n
  <2>1. c = a
    BY <1>1, <1>2, <1>3 DEF Sessions!Capped
  <2> HIDE DEF a
  <2> QED
    BY <1>1, <1>2, <1>3, <2>1 DEF Grown
<1>4. CASE Len(h) = n
  <2>1. c = Tail(a)
    BY <1>1, <1>2, <1>4 DEF Sessions!Capped
  <2>2. /\ Tail(a) \in Seq(S) /\ Len(Tail(a)) = n
        /\ \A k \in 1..n : Tail(a)[k] = a[k + 1]
    BY <1>1, <1>2, <1>4, HeadTailProperties
  <2> HIDE DEF a
  <2>3. /\ c \in Seq(S) /\ Len(c) = n /\ c # <<>>
        /\ \A k \in 1..n : c[k] = a[k + 1]
    BY <2>1, <2>2, EmptySeq
  <2> QED
    BY <1>1, <1>2, <1>4, <2>3 DEF Grown
<1> QED
  BY <1>2, <1>3, <1>4

\* Sessions between two operations of the manager, whose IDs may be drawn from the clock.
LiveRecords ==
    [lastMessageID : Fps \cup {NoFp, FreshID}, history : Seq(Fps), unread : Nat,
     lastIncoming : Fps \cup {NoFp}, pending : BOOLEAN,
     replies : Seq([taskID : TaskIDs, success : BOOLEAN]),
     lastSent : TaskIDs \cup {NoFp}, active : BOOLEAN]

LiveSessions ==
    {s \in LiveRecords : Len(s.history) <= MaxHistory /\ Len(s.replies) <= MaxReplies}

\* Sessions as the loop leaves them.
KeptSessions ==
    {s \in SessionRecords : Len(s.history) <= MaxHistory /\ Len(s.replies) <= MaxReplies}

\* Once the clock-drawn ID is replaced by a fingerprint, a session is one the loop may keep.
LEMMA KeptIsLive == KeptSessions = {s \in LiveSessions : s.lastMessageID # FreshID}
<1>1. FreshID \notin Fps \cup {NoFp}
  BY DEF FreshID, NoFp, Fps
<1> QED
  BY <1>1 DEF KeptSessions, LiveSessions, LiveRecords, SessionRecords

\* SessionType in terms of the sets above.
LEMMA KeptType == \A s : SessionType(s) <=> s = <<>> \/ s \in KeptSessions
  BY DEF SessionType, KeptSessions

\* A session is told from the absence of one.
LEMMA SessionNotEmpty == <<>> \notin LiveSessions
<1>1. SUFFICES ASSUME <<>> \in LiveSessions PROVE FALSE
  OBVIOUS
<1>2. "pending" \in DOMAIN <<>>
  BY <1>1 DEF LiveSessions, LiveRecords
<1>3. DOMAIN <<>> = {}
  OBVIOUS
<1> QED
  BY <1>2, <1>3

\* AddMessage keeps the limit of the history and leaves the replies alone.
LEMMA AddMessageType ==
    ASSUME NEW s \in LiveSessions, NEW fp \in Fps
    PROVE  /\ Sessions!AddMessage(s, fp, FALSE) \in LiveSessions
           /\ Sessions!AddMessage(s, fp, FALSE).replies = s.replies
<1> DEFINE c == Sessions!Capped(Append(s.history, fp), MaxHistory)
<1>1. c \in Seq(Fps) /\ Len(c) <= MaxHistory
  <2>1. s.history \in Seq(Fps) /\ Len(s.history) <= MaxHistory /\ MaxHistory \in Nat \ {0}
    BY MonitorAssumption DEF LiveSessions, LiveRecords
  <2>2. Len(s.history) \in Nat
    BY <2>1
  <2> QED
    BY <2>1, <2>2, CappedAppend DEF Grown
<1> HIDE DEF c
<1>2. CASE Sessions!Remembers(s, fp)
  BY <1>2 DEF Sessions!AddMessage
<1>3. CASE ~Sessions!Remembers(s, fp)
  <2>1. Sessions!AddMessage(s, fp, FALSE) =
          [s EXCEPT !.history = c, !.lastMessageID = FreshID, !.unread = @ + 1, !.lastIncoming = fp]
    BY <1>3 DEF Sessions!AddMessage, c
  <2> DEFINE t == [s EXCEPT !.history = c, !.lastMessageID = FreshID, !.unread = @ + 1,
                            !.lastIncoming = fp]
  <2>2. t \in LiveRecords
    <3>1. s \in LiveRecords /\ s.unread + 1 \in Nat
      BY DEF LiveSessions, LiveRecords
    <3> QED
      BY <1>1, <3>1 DEF LiveRecords
  <2>3. t.history = c /\ t.replies = s.replies
    BY DEF LiveSessions, LiveRecords
  <2> HIDE DEF t
  <2>4. t \in LiveSessions
    BY <1>1, <2>2, <2>3 DEF LiveSessions
  <2>5. Sessions!AddMessage(s, fp, FALSE) = t
    BY <2>1 DEF t
  <2> QED
    BY <2>3, <2>4, <2>5
<1> QED
  BY <1>2, <1>3

\* So does AddMessages, however many messages a reading found.
LEMMA AddMessagesType ==
    ASSUME NEW s \in LiveSessions, NEW fps \in Seq(Fps)
    PROVE  /\ Sessions!AddMessages(s, fps) \in LiveSessions
           /\ Sessions!AddMessages(s, fps).replies = s.replies
<1>1. Len(fps) \in Nat /\ \A i \in 1..Len(fps) : fps[i] \in Fps
  BY LenProperties, ElementOfSeq
<1>0. Len(fps) \in Nat
  BY <1>1
<1>1a. PICK after : AddedInTurn(s, fps, after)
  BY <1>0, AddMessagesInTurn
<1>2. /\ Sessions!AddMessages(s, fps) = after[Len(fps)]
      /\ after[0] = s
      /\ \A i \in 1..Len(fps) : after[i] = Sessions!AddMessage(after[i - 1], fps[i], FALSE)
  BY <1>1a DEF AddedInTurn
<1> DEFINE S == {i \in Nat : i <= Len(fps) =>
                    after[i] \in LiveSessions /\ after[i].replies = s.replies}
<1>3. 0 \in S
  BY <1>2
<1>4. ASSUME NEW n \in Nat, n \in S PROVE n + 1 \in S
  <2>1. SUFFICES ASSUME n + 1 <= Len(fps)
                 PROVE  /\ after[n + 1] \in LiveSessions
                        /\ after[n + 1].replies = s.replies
    OBVIOUS
  <2>2. PICK i \in 1..Len(fps) : i = n + 1 /\ i - 1 = n
    BY <1>1, <2>1
  <2>3. after[n] \in LiveSessions /\ after[n].replies = s.replies
    BY <1>1, <1>4, <2>1
  <2>4. after[n + 1] = Sessions!AddMessage(after[n], fps[n + 1], FALSE) /\ fps[n + 1] \in Fps
    BY <1>1, <1>2, <2>2, Zenon
  <2> QED
    BY <2>3, <2>4, AddMessageType
<1>5. Len(fps) \in S
  <2> HIDE DEF S
  <2> QED
    BY <1>1, <1>3, <1>4, SetInduction
<1> QED
  BY <1>1, <1>2, <1>5

\* MarkAsRead puts a fingerprint in the place of the clock-drawn ID.
LEMMA MarkAsReadType ==
    ASSUME NEW s \in LiveSessions, NEW fp \in Fps
    PROVE  /\ Sessions!MarkAsRead(s, fp) \in KeptSessions
           /\ Sessions!MarkAsRead(s, fp).replies = s.replies
<1>1. [s EXCEPT !.lastMessageID = fp, !.unread = 0] \in KeptSessions
  BY DEF LiveSessions, LiveRecords, KeptSessions, SessionRecords
<1> QED
  BY <1>1 DEF Sessions!MarkAsRead, LiveSessions, LiveRecords

\* AddReply and ClearPendingReply, as they follow a send that succeeded.
LEMMA AddReplyType ==
    ASSUME NEW s \in KeptSessions, NEW t \in TaskIDs
    PROVE  LET r == Sessions!ClearPendingReply(Sessions!AddReply(s, t, TRUE))
           IN  /\ r \in KeptSessions
               /\ r.replies = Sessions!Capped(Append(s.replies, [taskID |-> t, success |-> TRUE]),
                                              MaxReplies)
<1> DEFINE e == [taskID |-> t, success |-> TRUE]
           c == Sessions!Capped(Append(s.replies, e), MaxReplies)
           R == [taskID : TaskIDs, success : BOOLEAN]
<1>1. c \in Seq(R) /\ Len(c) <= MaxReplies
  <2>1. /\ s.replies \in Seq(R) /\ Len(s.replies) <= MaxReplies /\ MaxReplies \in Nat \ {0}
        /\ e \in R
    BY MonitorAssumption DEF KeptSessions, SessionRecords
  <2> HIDE DEF e, R
  <2>2. Len(s.replies) \in Nat
    BY <2>1
  <2> QED
    BY <2>1, <2>2, CappedAppend DEF Grown
<1> HIDE DEF c
<1>2. Sessions!ClearPendingReply(Sessions!AddReply(s, t, TRUE)) =
        [s EXCEPT !.replies = c, !.pending = FALSE, !.lastSent = t]
  BY DEF Sessions!ClearPendingReply, Sessions!AddReply, c, KeptSessions, SessionRecords
<1>3. [s EXCEPT !.replies = c, !.pending = FALSE, !.lastSent = t] \in KeptSessions
  BY <1>1 DEF KeptSessions, SessionRecords
<1>4. [s EXCEPT !.replies = c, !.pending = FALSE, !.lastSent = t].replies = c
  BY DEF KeptSessions, SessionRecords
<1> QED
  BY <1>2, <1>3, <1>4 DEF c

\* SetPendingReply and SetConversationRef touch neither history nor replies.
LEMMA FlagTypes ==
    ASSUME NEW s \in KeptSessions, NEW b \in BOOLEAN
    PROVE  /\ Sessions!SetPendingReply(s, b) \in KeptSessions
           /\ Sessions!SetPendingReply(s, b).replies = s.replies
           /\ Sessions!SetConversationRef(s) \in KeptSessions
           /\ Sessions!SetConversationRef(s).replies = s.replies
<1>1. /\ [s EXCEPT !.pending = b] \in KeptSessions
      /\ [s EXCEPT !.active = TRUE] \in KeptSessions
  BY DEF KeptSessions, SessionRecords
<1> QED
  BY <1>1 DEF Sessions!SetPendingReply, Sessions!SetConversationRef, KeptSessions, SessionRecords

\* What GetOrCreateSession makes.
LEMMA NewSessionType ==
    /\ Sessions!NewSession \in KeptSessions
    /\ Sessions!NewSession.replies = <<>> /\ Sessions!NewSession.history = <<>>
    /\ Sessions!NewSession.lastMessageID = NoFp /\ Sessions!NewSession.lastIncoming = NoFp
<1>1. MaxHistory \in Nat /\ MaxReplies \in Nat
  BY MonitorAssumption
<1>2. <<>> \in Seq(Fps) /\ <<>> \in Seq([taskID : TaskIDs, success : BOOLEAN]) /\ Len(<<>>) = 0
  BY EmptySeq
<1> QED
  BY <1>1, <1>2 DEF KeptSessions, SessionRecords, Sessions!NewSession

--------------------------------------------------------------------------------
(* Sequences and lists.                                                             *)

\* The newest n of a sequence are its last ones, all of them if it is not longer.
LEMMA NewestIs ==
    ASSUME NEW S, NEW s \in Seq(S), NEW n \in Nat
    PROVE  /\ Newest(s, n) \in Seq(S)
           /\ Len(Newest(s, n)) = IF Len(s) > n THEN n ELSE Len(s)
           /\ \A k \in 1..Len(Newest(s, n)) :
                 Newest(s, n)[k] = s[k + Len(s) - Len(Newest(s, n))]
<1> DEFINE L == Len(s)
           m == IF L > n THEN L - n + 1 ELSE 1
<1>1. L \in Nat /\ \A i \in 1..L : s[i] \in S
  BY LenProperties, ElementOfSeq
<1>2. m \in Int /\ L \in Int /\ \A i \in m..L : s[i] \in S
  BY <1>1
<1>3. Newest(s, n) = SubSeq(s, m, L)
  BY DEF Newest
<1> HIDE DEF m, L
<1>4. /\ SubSeq(s, m, L) \in Seq(S)
      /\ Len(SubSeq(s, m, L)) = IF m <= L THEN L - m + 1 ELSE 0
      /\ \A i \in 1..L - m + 1 : SubSeq(s, m, L)[i] = s[m + i - 1]
  BY <1>2, SubSeqProperties
<1> USE DEF m
<1>5. Len(Newest(s, n)) = (IF L > n THEN n ELSE L) /\ Len(Newest(s, n)) = L - m + 1
  BY <1>1, <1>3, <1>4
<1>6. \A k \in 1..Len(Newest(s, n)) : m + k - 1 = k + L - Len(Newest(s, n))
  BY <1>1, <1>5
<1> HIDE DEF m
<1> QED
  BY <1>3, <1>4, <1>5, <1>6 DEF L

\* Entries with different IDs can be put in the order of their IDs (the sort of a scan).
InOrder(s) == \A i, j \in DOMAIN s : i < j => s[i].id < s[j].id

\* The sort of a scan has a result: entries with different IDs can be put in order.
LEMMA EntriesSort ==
    ASSUME NEW m \in Nat, NEW E, IsFiniteSet(E), \A e \in E : e.id \in 1..m,
           \A e, f \in E : e.id = f.id => e = f
    PROVE  \E s \in [1..Cardinality(E) -> E] : InOrder(s)
<1> DEFINE Fit(A, n) == /\ IsFiniteSet(A) /\ \A e \in A : e.id \in 1..n
                        /\ \A e, f \in A : e.id = f.id => e = f
           Sorts(A) == \E s \in [1..Cardinality(A) -> A] : InOrder(s)
           S == {n \in Nat : \A A : Fit(A, n) => Sorts(A)}
<1>1. 0 \in S
  <2>1. SUFFICES ASSUME NEW A, Fit(A, 0) PROVE Sorts(A)
    OBVIOUS
  <2>2. A = {}
    BY <2>1
  <2>3. Cardinality(A) = 0
    BY <2>2, FS_EmptySet
  <2>4. [i \in {} |-> i] \in [1..Cardinality(A) -> A] /\ InOrder([i \in {} |-> i])
    BY <2>2, <2>3 DEF InOrder
  <2> QED
    BY <2>4
<1>2. ASSUME NEW n \in Nat, n \in S PROVE n + 1 \in S
  <2>1. SUFFICES ASSUME NEW A, Fit(A, n + 1) PROVE Sorts(A)
    OBVIOUS
  <2>2. CASE \A e \in A : e.id # n + 1
    <3>1. Fit(A, n)
      BY <2>1, <2>2
    <3> HIDE DEF Fit, Sorts
    <3> QED
      BY <1>2, <3>1
  <2>3. ASSUME NEW e \in A, e.id = n + 1 PROVE Sorts(A)
    <3> DEFINE B == A \ {e}
               k == Cardinality(B)
    <3>1. Fit(B, n)
      <4>1. IsFiniteSet(B)
        BY <2>1, FS_RemoveElement
      <4>2. \A f \in B : f.id \in 1..n
        BY <2>1, <2>3
      <4> QED
        BY <2>1, <4>1, <4>2
    <3>2. Sorts(B)
      <4> HIDE DEF Fit, Sorts
      <4> QED
        BY <1>2, <3>1
    <3>3. PICK s \in [1..k -> B] : InOrder(s)
      BY <3>2
    <3>4. IsFiniteSet(A) /\ Cardinality(A) = k + 1 /\ k \in Nat
      <4>1. IsFiniteSet(A) /\ IsFiniteSet(B)
        BY <2>1, <3>1
      <4>2. A = B \cup {e} /\ e \notin B
        BY <2>3
      <4>3. Cardinality(B \cup {e}) = Cardinality(B) + 1
        BY <4>1, <4>2, FS_AddElement
      <4> QED
        BY <4>1, <4>2, <4>3, FS_CardinalityType
    <3> DEFINE t == [i \in 1..k + 1 |-> IF i = k + 1 THEN e ELSE s[i]]
    <3>4a. \A i \in 1..k : s[i] \in B
      BY <3>3
    <3>4b. \A i \in 1..k : s[i] \in A /\ s[i].id \in 1..n
      BY <3>1, <3>4a
    <3>4c. \A i, j \in 1..k : i < j => s[i].id < s[j].id
      <4>1. DOMAIN s = 1..k
        BY <3>3
      <4> QED
        BY <3>3, <4>1 DEF InOrder
    <3> HIDE DEF k, B, Fit, Sorts
    <3>5. t \in [1..Cardinality(A) -> A]
      BY <2>3, <3>4, <3>4b
    <3>6. \A i \in 1..k : s[i].id < n + 1
      BY <1>2, <3>4b
    <3>7. InOrder(t)
      <4>1. SUFFICES ASSUME NEW i \in 1..k + 1, NEW j \in 1..k + 1, i < j
                     PROVE  t[i].id < t[j].id
        BY DEF InOrder
      <4>2. i \in 1..k /\ t[i] = s[i]
        BY <3>4, <4>1
      <4>3. CASE j = k + 1
        BY <2>3, <3>6, <4>2, <4>3
      <4>4. CASE j \in 1..k
        BY <3>4, <3>4c, <4>1, <4>2, <4>4
      <4> QED
        BY <3>4, <4>3, <4>4
    <3> QED
      BY <3>5, <3>7 DEF Sorts
  <2> QED
    BY <2>2, <2>3
<1>3. m \in S
  <2> HIDE DEF S
  <2> QED
    BY <1>1, <1>2, SetInduction
<1> QED
  BY <1>3

\* A set of places that is not empty has a last one.
LEMMA LargestExists ==
    ASSUME NEW n \in Nat, NEW H \in SUBSET (1..n), H # {}
    PROVE  \E i \in H : \A j \in H : j <= i
<1> DEFINE Has(m) == \A A \in SUBSET (1..m) : A # {} => \E i \in A : \A j \in A : j <= i
           S == {m \in Nat : Has(m)}
<1>1. 0 \in S
  <2>1. \A A \in SUBSET (1..0) : A = {}
    OBVIOUS
  <2> QED
    BY <2>1
<1>2. ASSUME NEW m \in Nat, m \in S PROVE m + 1 \in S
  <2>1. SUFFICES ASSUME NEW A \in SUBSET (1..m + 1), A # {}
                 PROVE  \E i \in A : \A j \in A : j <= i
    OBVIOUS
  <2>2. CASE m + 1 \in A
    BY <2>2
  <2>3. CASE m + 1 \notin A
    <3>1. A \in SUBSET (1..m)
      BY <2>3
    <3> QED
      BY <1>2, <2>1, <3>1
  <2> QED
    BY <2>2, <2>3
<1>3. n \in S
  <2> HIDE DEF S
  <2> QED
    BY <1>1, <1>2, SetInduction
<1> QED
  BY <1>3

--------------------------------------------------------------------------------
(* Types.  What TypeOK does not say: every chat has its place in the list, the loop  *)
(* works on an entry whose session exists, and a reply is left for every entry that  *)
(* is still to do, so that there are no more sends than entries of rounds.           *)

ListFull == \A c \in Chats : \E p \in Places : list[p] = c

Working == {"opening", "reading", "asking", "verifying", "sending", "recording"}

LoopInv ==
    /\ pc \in Working <=> todo # <<>>
    /\ pc \in Working \ {"opening"} => session[Entry.id] # <<>>
    /\ pc = "recording" => sends # <<>>
    /\ Len(sends) + (IF pc = "recording" THEN Len(todo) - 1 ELSE Len(todo))
          <= rounds * Cardinality(Chats)

TypeInv == TypeOK /\ ListFull /\ LoopInv

\* The part of TypeOK about the observers of readings.
TrackOK == from \in [IDs -> (Chats \cup {NoChat}) \X Nat] /\ lost \subseteq IDs

Entries == [id : IDs, place : Places]

\* The number of chats.
LEMMA ChatsCount == Cardinality(Chats) \in Nat \ {0} /\ IsFiniteSet(Chats)
  BY MonitorAssumption, FS_CardinalityType, FS_EmptySet

\* Arithmetic of the bound on sends, which the solver does not find in context.
LEMMA RoundBound ==
    ASSUME NEW r \in 0..MaxRounds, NEW k \in Nat \ {0}
    PROVE  /\ r * k <= MaxRounds * k /\ r * k \in Nat /\ MaxRounds * k \in Nat
           /\ (r + 1) * k = r * k + k
  BY MonitorAssumption

\* A list that holds no chat twice has a place for every chat.
LEMMA InitList ==
    ASSUME Init
    PROVE  list \in [Places -> Chats] /\ ListFull
<1>1. list \in Injection(Places, Chats)
  BY DEF Init, Injection, IsInjective
<1>2. IsFiniteSet(Places) /\ Cardinality(Places) = Cardinality(Chats)
  BY ChatsCount, FS_Interval DEF Places
<1>3. list \in Surjection(Places, Chats)
  BY <1>1, <1>2, ChatsCount, FS_Injection
<1> QED
  BY <1>3 DEF Surjection, ListFull

\* No session, no round and no send before the service starts.
THEOREM TypeInit == Init => TypeInv
<1> SUFFICES ASSUME Init PROVE TypeInv
  OBVIOUS
<1>1. list \in [Places -> Chats] /\ ListFull
  BY InitList
<1>2. \A S : <<>> \in Seq(S) /\ Len(<<>>) = 0
  BY EmptySeq
<1>3. TypeOK
  <2>1. chat \in [Chats -> Seq(Messages)] /\ todo \in Seq(Entries) /\ batch \in Seq(Fps)
          /\ sends \in Seq(SendRecords)
    BY <1>2 DEF Init
  <2>2. DOMAIN session = IDs /\ \A id \in IDs : SessionType(session[id])
    BY DEF Init, SessionType
  <2>3. written \in 0..MaxMessages /\ rounds \in 0..MaxRounds /\ life \in 1..MaxLives
    BY MonitorAssumption DEF Init
  <2>4. dot \subseteq Chats /\ open \in Chats \cup {NoChat} /\ stopped \in BOOLEAN
          /\ pc = "idle"
    BY DEF Init
  <2>5. TrackOK
    BY DEF Init, TrackOK, Nowhere
  <2> QED
    BY <1>1, <2>1, <2>2, <2>3, <2>4, <2>5 DEF TypeOK, TrackOK, Entries
<1>4. rounds * Cardinality(Chats) \in Nat
  BY ChatsCount DEF Init
<1>5. LoopInv
  BY <1>2, <1>4 DEF Init, LoopInv, Working
<1> QED
  BY <1>1, <1>3, <1>5 DEF TypeInv

--------------------------------------------------------------------------------
(* The steps of which TypeInv's proof is made.                                      *)

\* The messages written and sent within the bounds are in Messages.
LEMMA MessageSets ==
    /\ \A k \in Nat : k < MaxMessages => Customer(k + 1) \in Messages
    /\ \A k \in Nat : k < MaxRounds * Cardinality(Chats) =>
          Reply(k + 1) \in Messages /\ TaskID(k + 1) \in TaskIDs
<1>1. MaxMessages \in Nat /\ MaxRounds * Cardinality(Chats) \in Nat
  BY MonitorAssumption, ChatsCount
<1> QED
  BY <1>1 DEF Messages, TaskIDs

\* A chat that comes to the top takes no other out of the list.
LEMMA ToTopType ==
    ASSUME list \in [Places -> Chats], ListFull, NEW c \in Chats
    PROVE  /\ ToTop(c) \in [Places -> Chats]
           /\ \A d \in Chats : \E p \in Places : ToTop(c)[p] = d
<1> DEFINE at == CHOOSE i \in Places : list[i] = c
           K == Cardinality(Chats)
<1>1. at \in Places /\ list[at] = c
  BY DEF ListFull
<1>2. Places = 1..K /\ K \in Nat \ {0}
  BY ChatsCount DEF Places
<1>3. ToTop(c) = [i \in Places |-> IF i = 1 THEN c ELSE IF i <= at THEN list[i - 1] ELSE list[i]]
  BY DEF ToTop
<1> HIDE DEF at, K
<1>4. ToTop(c) \in [Places -> Chats]
  <2>1. \A i \in Places : i # 1 => i - 1 \in Places
    BY <1>2
  <2> QED
    BY <1>3, <2>1
<1>5. ASSUME NEW d \in Chats PROVE \E p \in Places : ToTop(c)[p] = d
  <2>1. PICK p \in Places : list[p] = d
    BY DEF ListFull
  <2>2. CASE d = c
    <3>1. 1 \in Places
      BY <1>2
    <3> QED
      BY <1>3, <2>2, <3>1
  <2>3. CASE d # c /\ p < at
    <3>1. PICK q \in Places : q # 1 /\ q <= at /\ q - 1 = p
      BY <1>1, <1>2, <2>3
    <3>2. ToTop(c)[q] = list[p]
      BY <1>3, <3>1
    <3> QED
      BY <2>1, <3>2
  <2>4. CASE d # c /\ at < p
    <3>1. p # 1 /\ ~(p <= at)
      BY <1>1, <1>2, <2>4
    <3> QED
      BY <1>3, <2>1, <3>1
  <2>5. at # p \/ d = c
    BY <1>1, <2>1
  <2> QED
    BY <1>1, <1>2, <2>2, <2>3, <2>4, <2>5
<1> QED
  BY <1>4, <1>5

\* What a focus leaves of the client.
LEMMA FocusType ==
    ASSUME TypeOK, NEW p \in Places, Focus(p)
    PROVE  /\ UNCHANGED <<list, chat, written>>
           /\ dot' \subseteq Chats /\ open' \in Chats \cup {NoChat}
<1>1. list[p] \in Chats
  BY DEF TypeOK
<1> QED
  BY <1>1 DEF Focus, Show, TypeOK

\* The messages of a chat that its window does not show.
Above(c) == Len(chat[c]) - Len(Shown(c))

\* The fingerprints of a chat: places of the window, texts of messages next to each other.
LEMMA ReadIs ==
    ASSUME NEW c \in Chats, chat[c] \in Seq(Messages)
    PROVE  /\ Read(c) \in Seq(Fps)
           /\ Above(c) \in Nat /\ Above(c) + Len(Read(c)) <= Len(chat[c])
           /\ \A i \in 1..Len(Read(c)) : Read(c)[i] = <<i, chat[c][Above(c) + i]>>
<1> DEFINE v == Newest(chat[c], View)
           n == IF Len(v) <= ReadLimit THEN Len(v) ELSE ReadLimit
<1>0. View \in Nat \ {0} /\ ReadLimit \in Nat \ {0} /\ View \in Nat /\ Len(chat[c]) \in Nat
  BY MonitorAssumption, LenProperties
<1>1. /\ v \in Seq(Messages) /\ Len(v) \in Nat /\ DOMAIN v = 1..Len(v) /\ Len(v) <= View
      /\ Len(v) <= Len(chat[c])
      /\ \A k \in 1..Len(v) : v[k] \in Messages /\ v[k] = chat[c][k + Len(chat[c]) - Len(v)]
  <2>1. /\ v \in Seq(Messages) /\ Len(v) = IF Len(chat[c]) > View THEN View ELSE Len(chat[c])
        /\ \A k \in 1..Len(v) : v[k] = chat[c][k + Len(chat[c]) - Len(v)]
    BY <1>0, NewestIs
  <2> HIDE DEF v
  <2>2. Len(v) \in Nat /\ DOMAIN v = 1..Len(v) /\ \A k \in 1..Len(v) : v[k] \in Messages
    BY <2>1, LenProperties, ElementOfSeq
  <2>3. Len(v) <= View /\ Len(v) <= Len(chat[c])
    BY <1>0, <2>1, <2>2
  <2> QED
    BY <2>1, <2>2, <2>3
<1>2. Shown(c) = [i \in DOMAIN v |-> <<i, v[i]>>]
  BY DEF Shown
<1>3. Read(c) = [i \in {j \in DOMAIN Shown(c) : j <= ReadLimit} |-> Shown(c)[i]]
  BY DEF Read
<1> HIDE DEF v
<1>4. Len(Shown(c)) = Len(v)
  BY <1>1, <1>2
<1>5. Above(c) = Len(chat[c]) - Len(v) /\ Above(c) \in Nat
  BY <1>0, <1>1, <1>4 DEF Above
<1>6. Read(c) = [i \in 1..n |-> <<i, v[i]>>] /\ n \in Nat /\ n <= Len(v)
  <2>1. {j \in DOMAIN Shown(c) : j <= ReadLimit} = 1..n
    BY <1>0, <1>1, <1>2
  <2>2. n \in Nat /\ n <= Len(v)
    BY <1>0, <1>1
  <2>3. \A i \in 1..n : Shown(c)[i] = <<i, v[i]>>
    BY <1>0, <1>1, <1>2
  <2> HIDE DEF n
  <2> QED
    BY <1>3, <2>1, <2>2, <2>3
<1>7. Read(c) \in Seq(Fps) /\ Len(Read(c)) = n
  <2>1. \A i \in 1..n : <<i, v[i]>> \in Fps
    BY <1>0, <1>1 DEF Fps
  <2> HIDE DEF n
  <2>2. Read(c) \in [1..n -> Fps]
    BY <1>6, <2>1
  <2> QED
    BY <1>6, <2>2
<1>8. ASSUME NEW i \in 1..n PROVE Read(c)[i] = <<i, chat[c][Above(c) + i]>>
  <2>1. i \in 1..Len(v) /\ i + Len(chat[c]) - Len(v) = Above(c) + i
    BY <1>0, <1>1, <1>5, <1>6
  <2>2. v[i] = chat[c][Above(c) + i]
    BY <1>1, <2>1
  <2> HIDE DEF n
  <2> QED
    BY <1>6, <2>2
<1>9. Above(c) + n <= Len(chat[c])
  BY <1>0, <1>1, <1>5, <1>6
<1> QED
  BY <1>5, <1>7, <1>8, <1>9

\* FilterNew and the cold start return fingerprints of what was read.
LEMMA NewMessagesType ==
    ASSUME NEW s, NEW fps \in Seq(Fps)
    PROVE  /\ NewMessages(s, fps) \in Seq(Fps)
           /\ NewMessages(s, fps) # <<>> => Last(NewMessages(s, fps)) \in Fps
<1> DEFINE mark == s.lastMessageID
           hits == {i \in DOMAIN fps : fps[i] = mark}
           at == CHOOSE i \in hits : \A j \in hits : j <= i
<1>1. DOMAIN fps = 1..Len(fps) /\ Len(fps) \in Nat /\ \A i \in 1..Len(fps) : fps[i] \in Fps
  BY LenProperties, ElementOfSeq
<1>2. FilterNew(fps, mark) \in Seq(Fps)
  <2>1. CASE mark = NoFp \/ hits = {}
    BY <2>1 DEF FilterNew
  <2>2. CASE ~(mark = NoFp \/ hits = {})
    <3>1. FilterNew(fps, mark) = SubSeq(fps, at + 1, Len(fps))
      BY <2>2 DEF FilterNew
    <3>2. \E i \in hits : \A j \in hits : j <= i
      <4>1. hits \in SUBSET (1..Len(fps))
        BY <1>1
      <4> HIDE DEF hits
      <4> QED
        BY <1>1, <2>2, <4>1, LargestExists
    <3>3. at \in hits
      BY <3>2
    <3>4. at \in 1..Len(fps)
      BY <1>1, <3>3
    <3> HIDE DEF at
    <3>5. at + 1 \in Int /\ Len(fps) \in Int /\ \A i \in at + 1..Len(fps) : fps[i] \in Fps
      BY <1>1, <3>4
    <3> QED
      BY <3>1, <3>5, SubSeqProperties
  <2> QED
    BY <2>1, <2>2
<1>3. NewMessages(s, fps) \in Seq(Fps)
  <2>1. <<>> \in Seq(Fps)
    BY EmptySeq
  <2> QED
    BY <1>2, <2>1 DEF NewMessages
<1>4. ASSUME NEW new \in Seq(Fps), new # <<>> PROVE Last(new) \in Fps
  <2>1. Len(new) \in Nat \ {0}
    BY <1>4, EmptySeq
  <2> QED
    BY <1>4, <2>1, ElementOfSeq DEF Last
<1> QED
  BY <1>3, <1>4

\* What NextEntry does to the place of the loop.
LEMMA NextEntryPc == NextEntry => pc' \in {"idle", "opening"}
  BY DEF NextEntry

\* What is left to do counts as sends to come.
ToCome == IF pc = "recording" THEN Len(todo) - 1 ELSE Len(todo)

\* The entry that is worked on.
LEMMA EntryType ==
    ASSUME TypeInv, pc \in Working
    PROVE  /\ Entry \in Entries /\ Entry.id \in IDs /\ Entry.place \in Places
           /\ Len(todo) \in Nat \ {0}
<1>1. todo \in Seq(Entries) /\ todo # <<>>
  BY DEF TypeInv, TypeOK, LoopInv, Entries
<1>2. Entry \in Entries /\ Len(todo) \in Nat \ {0}
  BY <1>1, EmptySeq, HeadTailProperties DEF Entry
<1> QED
  BY <1>2 DEF Entries

\* The session of the entry that is worked on.
LEMMA CurrentType ==
    ASSUME TypeInv, pc \in Working \ {"opening"}
    PROVE  Current \in KeptSessions /\ session[Entry.id] = Current
  BY EntryType, KeptType DEF TypeInv, TypeOK, LoopInv, Current

\* Leaving an entry.
LEMMA NextEntryType ==
    ASSUME TypeInv, pc \in Working, NextEntry
    PROVE  /\ todo' \in Seq(Entries) /\ batch' \in Seq(Fps)
           /\ pc' \in {"idle", "opening"}
           /\ pc' \in Working <=> todo' # <<>>
           /\ Len(todo') = Len(todo) - 1 /\ Len(todo) \in Nat \ {0}
<1>1. todo \in Seq(Entries) /\ todo # <<>>
  BY DEF TypeInv, TypeOK, LoopInv, Entries
<1>2. todo' \in Seq(Entries) /\ Len(todo') = Len(todo) - 1 /\ Len(todo) \in Nat \ {0}
  BY <1>1, EmptySeq, HeadTailProperties DEF NextEntry
<1>3. todo' # <<>> <=> Len(todo) # 1
  <2>1. todo' # <<>> <=> Len(todo') # 0
    BY <1>2, EmptySeq
  <2> QED
    BY <1>2, <2>1
<1> QED
  BY <1>2, <1>3, EmptySeq DEF NextEntry, Working

\* A session of the loop's entry that stays one, and the others.
LEMMA SessionKept ==
    ASSUME TypeInv, pc \in Working, NEW s \in KeptSessions,
           session' = [session EXCEPT ![Entry.id] = s]
    PROVE  /\ DOMAIN session' = IDs /\ \A id \in IDs : SessionType(session'[id])
           /\ session'[Entry.id] = s /\ s # <<>>
<1>1. Entry.id \in IDs /\ DOMAIN session = IDs /\ \A id \in IDs : SessionType(session[id])
  BY EntryType DEF TypeInv, TypeOK
<1>2. s # <<>> /\ SessionType(s)
  BY KeptType, KeptIsLive, SessionNotEmpty
<1> QED
  BY <1>1, <1>2

\* A step of the loop that leaves the client and the sends alone, or only focuses.
LEMMA LoopStepType ==
    ASSUME TypeInv, pc \in Working,
           UNCHANGED <<list, chat, written, sends, rounds, life, stopped>>, TrackOK',
           dot' \subseteq Chats, open' \in Chats \cup {NoChat},
           DOMAIN session' = IDs, \A id \in IDs : SessionType(session'[id]),
           \/ NextEntry
           \/ /\ UNCHANGED todo /\ batch' \in Seq(Fps) /\ session'[Entry.id] # <<>>
              /\ pc \in Working \ {"recording"}
              /\ pc' \in {"reading", "asking", "verifying", "sending"}
    PROVE  TypeInv'
<1>1. /\ todo' \in Seq(Entries) /\ batch' \in Seq(Fps) /\ pc' \in Working \cup {"idle"}
      /\ pc' \in Working <=> todo' # <<>>
      /\ pc' \in Working \ {"opening"} => (session[Entry.id] # <<>>)'
      /\ pc' # "recording"
      /\ Len(todo') \in Int /\ Len(todo') <= ToCome
  <2>1. CASE NextEntry
    BY <2>1, NextEntryType DEF Working, ToCome
  <2>2. CASE ~NextEntry
    <3>1. UNCHANGED todo /\ Len(todo) \in Nat /\ pc # "recording"
      BY <2>2, EntryType DEF Working
    <3> QED
      BY <2>2, <3>1 DEF TypeInv, TypeOK, LoopInv, Entry, Entries, Working, ToCome
  <2> QED
    BY <2>1, <2>2
<1>2. TypeOK'
  BY <1>1 DEF TypeInv, TypeOK, TrackOK, Entries, Working, SessionType, KeptSessions
<1>3. ListFull'
  BY DEF TypeInv, ListFull
<1>4. LoopInv'
  <2>1. Len(sends) \in Nat /\ rounds * Cardinality(Chats) \in Nat /\ ToCome \in Int
    <3>1. sends \in Seq(SendRecords) /\ Len(todo) \in Nat
      BY EntryType DEF TypeInv, TypeOK
    <3> QED
      BY <3>1, ChatsCount, RoundBound DEF TypeInv, TypeOK, ToCome
  <2>2. Len(sends) + ToCome <= rounds * Cardinality(Chats)
    BY DEF TypeInv, LoopInv, ToCome
  <2>3. Len(sends) + Len(todo') <= rounds * Cardinality(Chats)
    BY <1>1, <2>1, <2>2
  <2> QED
    BY <1>1, <2>3 DEF LoopInv
<1> QED
  BY <1>2, <1>3, <1>4 DEF TypeInv

\* A scan lists each lit chat once, so a round has no more entries than there are chats.
LEMMA ScanType ==
    ASSUME TypeInv, Scan
    PROVE  TypeInv'
<1> DEFINE K == Cardinality(Chats)
<1>1. PICK seen \in DotsSeen \ {{}}, lit \in RowsLit : \E r \in Rankings(seen, lit) :
         LET entries == {[id |-> r[p], place |-> p] : p \in {q \in Places : list[q] \in seen}}
         IN  todo' = CHOOSE s \in [1..Cardinality(entries) -> entries] :
                        \A i, j \in DOMAIN s : i < j => s[i].id < s[j].id
  BY DEF Scan
<1>2. PICK r \in Rankings(seen, lit) :
         LET entries == {[id |-> r[p], place |-> p] : p \in {q \in Places : list[q] \in seen}}
         IN  todo' = CHOOSE s \in [1..Cardinality(entries) -> entries] :
                        \A i, j \in DOMAIN s : i < j => s[i].id < s[j].id
  BY <1>1
<1> DEFINE Q == {q \in Places : list[q] \in seen}
           E == {[id |-> r[p], place |-> p] : p \in Q}
           n == Cardinality(E)
           f == [p \in Q |-> [id |-> r[p], place |-> p]]
<1>3. todo' = CHOOSE s \in [1..n -> E] : InOrder(s)
  BY <1>2 DEF InOrder
<1>4. r \in [Places -> Places] /\ \A i, j \in Places : i # j => r[i] # r[j]
  BY DEF Rankings
<1>5. E \subseteq Entries
  BY <1>4 DEF Entries, IDs
<1>6. IsFiniteSet(E) /\ n <= K /\ n \in Nat /\ K \in Nat \ {0}
  <2>1. IsFiniteSet(Places) /\ Cardinality(Places) = K
    BY ChatsCount, FS_Interval DEF Places
  <2>2. Q \in SUBSET Places
    OBVIOUS
  <2>3. IsFiniteSet(Q) /\ Cardinality(Q) <= K /\ Cardinality(Q) \in Nat
    <3> HIDE DEF Q, K
    <3> QED
      BY <2>1, <2>2, FS_Subset, FS_CardinalityType
  <2>4. f \in Surjection(Q, E)
    BY DEF Surjection
  <2>5. IsFiniteSet(E) /\ n <= Cardinality(Q)
    <3> HIDE DEF f, Q, E
    <3> QED
      BY <2>3, <2>4, FS_Surjection DEF n
  <2>6. n \in Nat
    <3> HIDE DEF E
    <3> QED
      BY <2>5, FS_CardinalityType
  <2> QED
    BY <2>3, <2>5, <2>6, ChatsCount
<1>7. E # {}
  <2>1. PICK c \in seen : c \in Chats
    BY DEF DotsSeen, TypeInv, TypeOK
  <2>2. PICK p \in Places : list[p] = c
    BY <2>1 DEF TypeInv, ListFull
  <2> QED
    BY <2>2
<1>8. \E s \in [1..n -> E] : InOrder(s)
  <2>1. \A e \in E : e.id \in 1..K
    BY <1>4 DEF Places
  <2>2. \A e, g \in E : e.id = g.id => e = g
    BY <1>4
  <2>3. K \in Nat
    BY <1>6
  <2> HIDE DEF E, K
  <2> QED
    BY <1>6, <2>1, <2>2, <2>3, EntriesSort
<1>9. todo' \in [1..n -> E]
  <2> HIDE DEF E, n
  <2> QED
    BY <1>3, <1>8
<1>10. n # 0
  BY <1>6, <1>7, FS_EmptySet
<1> HIDE DEF E, n
<1>11. todo' \in Seq(Entries) /\ Len(todo') = n /\ todo' # <<>>
  <2>1. todo' \in [1..n -> Entries]
    BY <1>5, <1>9
  <2>2. todo' \in Seq(Entries) /\ Len(todo') = n
    BY <1>6, <2>1
  <2> QED
    BY <1>10, <2>2, EmptySeq
<1>12. <<>> \in Seq(Fps)
  BY EmptySeq
<1>13. TypeOK'
  <2>1. rounds' \in 0..MaxRounds
    BY MonitorAssumption DEF Scan, TypeInv, TypeOK
  <2>2. TypeOK
    BY DEF TypeInv
  <2> QED
    BY <1>11, <1>12, <2>1, <2>2 DEF TypeOK, Scan, chatVars, track, Entries, SessionType
<1>14. ListFull'
  BY DEF TypeInv, ListFull, Scan, chatVars
<1>15. LoopInv'
  <2>1. pc = "idle" /\ todo = <<>> /\ Len(todo) = 0
    BY EmptySeq DEF Scan, TypeInv, LoopInv, Working
  <2>2. Len(sends) \in Nat /\ Len(sends) <= rounds * K
    <3>1. sends \in Seq(SendRecords) /\ Len(sends) + 0 <= rounds * K
      BY <2>1 DEF TypeInv, TypeOK, LoopInv
    <3>2. Len(sends) \in Nat
      BY <3>1
    <3> HIDE DEF K
    <3> QED
      BY <3>1, <3>2
  <2>3. (rounds + 1) * K = rounds * K + K /\ rounds * K \in Nat
    BY <1>6, RoundBound DEF TypeInv, TypeOK
  <2>4. rounds' = rounds + 1 /\ pc' = "opening" /\ UNCHANGED sends
    BY DEF Scan
  <2> HIDE DEF K
  <2>5. Len(sends') + Len(todo') <= rounds' * K
    BY <1>6, <1>11, <2>2, <2>3, <2>4
  <2> QED
    BY <1>11, <2>4, <2>5 DEF LoopInv, Working, K
<1> QED
  BY <1>13, <1>14, <1>15 DEF TypeInv

\* What Deliver appends to the sends.
SendOf(ok, landed) ==
    [id |-> Entry.id, answers |-> batch, into |-> open, ok |-> ok, landed |-> landed,
     late |-> stopped, life |-> life]

\* A send is recorded at the end of sends, and one was still allowed.
LEMMA DeliverIs ==
    ASSUME TypeInv, pc = "sending", NEW ok \in BOOLEAN, NEW landed \in BOOLEAN,
           Deliver(ok, landed)
    PROVE  /\ SendOf(ok, landed) \in SendRecords
           /\ sends' = Append(sends, SendOf(ok, landed))
           /\ sends' \in Seq(SendRecords) /\ sends' # <<>>
           /\ Len(sends) \in Nat /\ Len(sends') = Len(sends) + 1
           /\ DOMAIN sends = 1..Len(sends) /\ DOMAIN sends' = 1..Len(sends) + 1
           /\ \A i \in 1..Len(sends) : sends'[i] = sends[i]
           /\ sends'[Len(sends) + 1] = SendOf(ok, landed)
           /\ Len(sends) < MaxRounds * Cardinality(Chats)
<1>1. SendOf(ok, landed) \in SendRecords
  <2>1. Entry.id \in IDs
    BY EntryType DEF Working
  <2> QED
    BY <2>1 DEF SendOf, SendRecords, TypeInv, TypeOK
<1>2. sends' = Append(sends, SendOf(ok, landed))
  BY DEF Deliver, SendOf
<1>3. sends \in Seq(SendRecords) /\ Len(sends) \in Nat
  BY DEF TypeInv, TypeOK
<1> HIDE DEF SendOf
<1>4. /\ sends' \in Seq(SendRecords) /\ sends' # <<>>
      /\ Len(sends') = Len(sends) + 1
      /\ \A i \in 1..Len(sends) : sends'[i] = sends[i]
      /\ sends'[Len(sends) + 1] = SendOf(ok, landed)
  BY <1>1, <1>2, <1>3, AppendProperties
<1>5. DOMAIN sends = 1..Len(sends) /\ DOMAIN sends' = 1..Len(sends) + 1
  BY <1>3, <1>4, LenProperties
<1>6. Len(sends) < MaxRounds * Cardinality(Chats)
  <2>1. Len(sends) + Len(todo) <= rounds * Cardinality(Chats) /\ Len(todo) \in Nat \ {0}
    BY EntryType DEF TypeInv, LoopInv, Working
  <2>2. rounds * Cardinality(Chats) <= MaxRounds * Cardinality(Chats)
          /\ rounds * Cardinality(Chats) \in Nat /\ MaxRounds * Cardinality(Chats) \in Nat
    BY ChatsCount, RoundBound DEF TypeInv, TypeOK
  <2> QED
    BY <1>3, <2>1, <2>2
<1> QED
  BY <1>1, <1>2, <1>3, <1>4, <1>5, <1>6

\* The client after a reply or a message of a customer has come.
LEMMA ArrivalType ==
    ASSUME TypeInv, NEW c \in Chats, NEW m \in Messages,
           chat' = [chat EXCEPT ![c] = Append(@, m)], list' = ToTop(c)
    PROVE  /\ chat' \in [Chats -> Seq(Messages)]
           /\ list' \in [Places -> Chats] /\ ListFull'
<1>1. /\ chat[c] \in Seq(Messages) /\ chat \in [Chats -> Seq(Messages)]
      /\ list \in [Places -> Chats] /\ ListFull
  BY DEF TypeInv, TypeOK
<1>2. Append(chat[c], m) \in Seq(Messages)
  BY <1>1, AppendProperties
<1>3. list' \in [Places -> Chats] /\ ListFull'
  BY <1>1, ToTopType DEF ListFull
<1> QED
  BY <1>1, <1>2, <1>3

\* Send, whether it lands or not.
LEMMA SendType ==
    ASSUME TypeInv, SendReply
    PROVE  TypeInv'
<1>1. PICK ok, landed \in BOOLEAN :
         /\ Deliver(ok, landed)
         /\ \/ ok /\ pc' = "recording" /\ UNCHANGED <<todo, batch>>
            \/ ~ok /\ NextEntry
  BY DEF SendReply
<1>2. pc = "sending" /\ pc \in Working
  BY DEF SendReply, Working
<1>3. /\ sends' \in Seq(SendRecords) /\ sends' # <<>>
      /\ Len(sends) \in Nat /\ Len(sends') = Len(sends) + 1
      /\ Len(sends) < MaxRounds * Cardinality(Chats)
  BY <1>1, <1>2, DeliverIs
<1>4. UNCHANGED <<dot, open, written, session, from, lost, rounds, stopped, life>>
  BY <1>1 DEF Deliver, track
<1>5. chat' \in [Chats -> Seq(Messages)] /\ list' \in [Places -> Chats] /\ ListFull'
  <2>1. CASE landed /\ open # NoChat
    <3>1. open \in Chats
      BY <2>1 DEF TypeInv, TypeOK
    <3>2. Reply(Len(sends) + 1) \in Messages
      BY <1>3, MessageSets
    <3>3. chat' = [chat EXCEPT ![open] = Append(@, Reply(Len(sends) + 1))] /\ list' = ToTop(open)
      BY <1>1, <2>1 DEF Deliver
    <3> QED
      BY <3>1, <3>2, <3>3, ArrivalType
  <2>2. CASE ~(landed /\ open # NoChat)
    <3>1. UNCHANGED <<chat, list>>
      BY <1>1, <2>2 DEF Deliver
    <3> QED
      BY <3>1 DEF TypeInv, TypeOK, ListFull
  <2> QED
    BY <2>1, <2>2
<1>6. /\ todo' \in Seq(Entries) /\ batch' \in Seq(Fps) /\ pc' \in Working \cup {"idle"}
      /\ pc' \in Working <=> todo' # <<>>
      /\ pc' \in Working \ {"opening"} => (session[Entry.id] # <<>>)'
      /\ ToCome' = Len(todo) - 1
  <2>1. CASE ok /\ pc' = "recording" /\ UNCHANGED <<todo, batch>>
    BY <1>2, <1>4, <2>1 DEF TypeInv, TypeOK, LoopInv, Entry, Entries, Working, ToCome
  <2>2. CASE NextEntry
    BY <1>2, <2>2, NextEntryType DEF Working, ToCome
  <2> QED
    BY <1>1, <2>1, <2>2
<1>7. TypeOK'
  BY <1>3, <1>4, <1>5, <1>6 DEF TypeInv, TypeOK, Entries, Working, SessionType
<1>8. LoopInv'
  <2>1. Len(sends) + Len(todo) <= rounds * Cardinality(Chats) /\ Len(todo) \in Nat \ {0}
    BY <1>2, EntryType DEF TypeInv, LoopInv
  <2>2. rounds * Cardinality(Chats) \in Nat /\ rounds' = rounds
    BY <1>4, ChatsCount, RoundBound DEF TypeInv, TypeOK
  <2>3. Len(sends') + ToCome' <= rounds' * Cardinality(Chats)
    BY <1>3, <1>6, <2>1, <2>2
  <2> QED
    BY <1>3, <1>6, <2>3 DEF LoopInv, ToCome
<1> QED
  BY <1>5, <1>7, <1>8 DEF TypeInv

\* AddReply after a send that succeeded.
LEMMA RecordType ==
    ASSUME TypeInv, RecordReply
    PROVE  /\ TypeInv'
           /\ TaskID(Len(sends)) \in TaskIDs
<1>1. pc = "recording" /\ pc \in Working
  BY DEF RecordReply, Working
<1>2. TaskID(Len(sends)) \in TaskIDs
  <2>1. sends \in Seq(SendRecords) /\ sends # <<>>
    BY <1>1 DEF TypeInv, TypeOK, LoopInv
  <2>2. Len(sends) \in Nat \ {0}
    BY <2>1, EmptySeq
  <2>3. Len(sends) + (Len(todo) - 1) <= rounds * Cardinality(Chats) /\ Len(todo) \in Nat \ {0}
    BY <1>1, EntryType DEF TypeInv, LoopInv
  <2>4. rounds * Cardinality(Chats) <= MaxRounds * Cardinality(Chats)
          /\ rounds * Cardinality(Chats) \in Nat /\ MaxRounds * Cardinality(Chats) \in Nat
    BY ChatsCount, RoundBound DEF TypeInv, TypeOK
  <2>5. Len(sends) \in 1..MaxRounds * Cardinality(Chats)
    BY <2>2, <2>3, <2>4
  <2> QED
    BY <2>5 DEF TaskIDs
<1>3. Current \in KeptSessions /\ session[Entry.id] = Current
  BY <1>1, CurrentType DEF Working
<1>4. Sessions!ClearPendingReply(Sessions!AddReply(Current, TaskID(Len(sends)), TRUE))
        \in KeptSessions
  BY <1>2, <1>3, AddReplyType
<1>5. DOMAIN session' = IDs /\ \A id \in IDs : SessionType(session'[id])
  <2>1. session' = [session EXCEPT ![Entry.id] =
           Sessions!ClearPendingReply(Sessions!AddReply(Current, TaskID(Len(sends)), TRUE))]
    BY <1>3 DEF RecordReply
  <2> QED
    BY <1>1, <1>4, <2>1, SessionKept
<1>6. NextEntry /\ UNCHANGED <<list, chat, written, sends, rounds, life, stopped>> /\ TrackOK'
        /\ dot' \subseteq Chats /\ open' \in Chats \cup {NoChat}
  BY DEF RecordReply, chatVars, track, TrackOK, TypeInv, TypeOK
<1> QED
  BY <1>1, <1>2, <1>5, <1>6, LoopStepType

\* Where nothing was read nothing is new.
LEMMA NothingNew == \A s : NewMessages(s, <<>>) = <<>>
<1> SUFFICES ASSUME NEW s PROVE NewMessages(s, <<>>) = <<>>
  OBVIOUS
<1>1. DOMAIN <<>> = {}
  OBVIOUS
<1>2. FilterNew(<<>>, s.lastMessageID) = <<>>
  BY <1>1 DEF FilterNew
<1> QED
  BY <1>2 DEF NewMessages

\* A reading that finds something new leaves a session the loop may keep.
LEMMA ReadType ==
    ASSUME TypeInv, ReadMessages, ~(NextEntry /\ UNCHANGED <<session, track>>)
    PROVE  LET fps == IF open = NoChat THEN <<>> ELSE Read(open)
               new == NewMessages(Current, fps)
               s   == Sessions!MarkAsRead(Sessions!AddMessages(Current, new), Last(new))
           IN  /\ fps \in Seq(Fps) /\ new \in Seq(Fps) /\ new # <<>> /\ Last(new) \in Fps
               /\ session' = [session EXCEPT ![Entry.id] = s]
               /\ batch' = new /\ pc' = "asking" /\ UNCHANGED <<todo, sends>>
               /\ Track(Entry.id, Current.lastMessageID, open, fps)
               /\ Current \in KeptSessions /\ session[Entry.id] = Current
               /\ s \in KeptSessions /\ s.replies = Current.replies
<1> DEFINE fps == IF open = NoChat THEN <<>> ELSE Read(open)
           new == NewMessages(Current, fps)
           s   == Sessions!MarkAsRead(Sessions!AddMessages(Current, new), Last(new))
<1>1. /\ new # <<>> /\ session' = [session EXCEPT ![Entry.id] = s]
      /\ batch' = new /\ pc' = "asking" /\ UNCHANGED <<todo, sends>>
      /\ Track(Entry.id, Current.lastMessageID, open, fps)
  BY DEF ReadMessages
<1>2. fps \in Seq(Fps)
  <2>1. CASE open = NoChat
    BY <2>1, EmptySeq
  <2>2. CASE open # NoChat
    <3>1. open \in Chats /\ chat[open] \in Seq(Messages)
      BY <2>2 DEF TypeInv, TypeOK
    <3> QED
      BY <2>2, <3>1, ReadIs
  <2> QED
    BY <2>1, <2>2
<1> HIDE DEF fps
<1>3. new \in Seq(Fps) /\ Last(new) \in Fps
  BY <1>1, <1>2, NewMessagesType
<1>4. Current \in KeptSessions /\ session[Entry.id] = Current
  BY CurrentType DEF ReadMessages, Working
<1> HIDE DEF new
<1>5. s \in KeptSessions /\ s.replies = Current.replies
  BY <1>3, <1>4, KeptIsLive, AddMessagesType, MarkAsReadType
<1> QED
  BY <1>1, <1>2, <1>3, <1>4, <1>5 DEF fps, new

\* The observers of readings.
LEMMA TrackType ==
    ASSUME TypeInv, [Next]_vars
    PROVE  TrackOK'
<1>0. TrackOK
  BY DEF TypeInv, TypeOK, TrackOK
<1>1. ASSUME UNCHANGED track PROVE TrackOK'
  BY <1>0, <1>1 DEF TrackOK, track
<1>2. CASE ReadMessages /\ ~(NextEntry /\ UNCHANGED <<session, track>>)
  <2> DEFINE fps == IF open = NoChat THEN <<>> ELSE Read(open)
             mark == Current.lastMessageID
  <2>1. Track(Entry.id, mark, open, fps) /\ NewMessages(Current, fps) # <<>>
    BY <1>2, ReadType
  <2>2. Entry.id \in IDs
    BY <1>2, EntryType DEF ReadMessages, Working
  <2>3. open \in Chats
    <3>1. SUFFICES ASSUME open = NoChat PROVE FALSE
      BY DEF TypeInv, TypeOK
    <3>2. NewMessages(Current, <<>>) = <<>>
      BY NothingNew
    <3> QED
      BY <2>1, <3>1, <3>2
  <2>4. Len(chat[open]) - Len(Shown(open)) + 1 \in Nat
    <3>1. chat[open] \in Seq(Messages)
      BY <2>3 DEF TypeInv, TypeOK
    <3>2. Above(open) \in Nat
      BY <2>3, <3>1, ReadIs
    <3> QED
      BY <3>2 DEF Above
  <2> HIDE DEF fps, mark
  <2>5. CASE mark = NoFp
    <3>1. from' = [from EXCEPT ![Entry.id] = <<open, Len(chat[open]) - Len(Shown(open)) + 1>>]
            /\ UNCHANGED lost
      BY <2>1, <2>5 DEF Track
    <3> QED
      BY <1>0, <2>2, <2>3, <2>4, <3>1 DEF TrackOK
  <2>6. CASE mark # NoFp
    <3>1. lost' \in {lost, lost \cup {Entry.id}} /\ UNCHANGED from
      BY <2>1, <2>6 DEF Track
    <3> QED
      BY <1>0, <2>2, <3>1 DEF TrackOK
  <2> QED
    BY <2>5, <2>6
<1>3. CASE Restart
  BY <1>3 DEF Restart, TrackOK, Nowhere
<1>4. CASE Scan \/ OpenContact \/ AskAgent \/ VerifyChat \/ SendReply \/ RecordReply
  BY <1>1, <1>4 DEF Scan, OpenContact, AskAgent, VerifyChat, SendReply, Deliver, RecordReply
<1>5. CASE Stop \/ LoopEnds \/ \E c \in Chats : Write(c)
  BY <1>1, <1>5 DEF Stop, LoopEnds, Write
<1>6. CASE ReadMessages /\ NextEntry /\ UNCHANGED <<session, track>>
  BY <1>1, <1>6
<1>7. CASE UNCHANGED vars
  BY <1>1, <1>7 DEF vars, track
<1> QED
  BY <1>2, <1>3, <1>4, <1>5, <1>6, <1>7 DEF Next, Round

\* A customer writes.
LEMMA WriteType ==
    ASSUME TypeInv, NEW c \in Chats, Write(c)
    PROVE  TypeInv'
<1>1. written \in 0..MaxMessages /\ MaxMessages \in Nat
  BY MonitorAssumption DEF TypeInv, TypeOK
<1>2. Customer(written + 1) \in Messages /\ written' \in 0..MaxMessages
  BY <1>1, MessageSets DEF Write
<1>3. chat' \in [Chats -> Seq(Messages)] /\ list' \in [Places -> Chats] /\ ListFull'
  BY <1>2, ArrivalType DEF Write
<1>4. dot' \subseteq Chats
  BY DEF Write, TypeInv, TypeOK
<1>5. UNCHANGED <<open, pc, todo, batch, session, sends, from, lost, rounds, stopped, life>>
  BY DEF Write, loopVars, track
<1>6. TypeOK'
  BY <1>2, <1>3, <1>4, <1>5 DEF TypeInv, TypeOK, SessionType
<1>7. LoopInv'
  BY <1>5 DEF TypeInv, LoopInv, Entry
<1> QED
  BY <1>3, <1>6, <1>7 DEF TypeInv

\* Every step of the loop, the customers and the service keeps the types.
THEOREM TypeNext == TypeInv /\ [Next]_vars => TypeInv'
<1> SUFFICES ASSUME TypeInv, [Next]_vars PROVE TypeInv'
  OBVIOUS
<1>0. TrackOK'
  BY TrackType
<1>1. CASE Scan
  BY <1>1, ScanType
<1>2. CASE OpenContact
  <2>1. pc \in Working /\ pc \in Working \ {"recording"}
    BY <1>2 DEF OpenContact, Working
  <2>2. /\ UNCHANGED <<list, chat, written, sends, rounds, life, stopped>>
        /\ dot' \subseteq Chats /\ open' \in Chats \cup {NoChat}
    BY <1>2, <2>1, EntryType, FocusType DEF OpenContact, TypeInv
  <2> DEFINE old == IF session[Entry.id] = <<>> THEN Sessions!NewSession ELSE session[Entry.id]
             s == Sessions!SetConversationRef(old)
  <2>3. CASE pc' = "reading" /\ session' = [session EXCEPT ![Entry.id] = s]
               /\ UNCHANGED <<todo, batch>>
    <3>1. old \in KeptSessions
      BY <2>1, EntryType, KeptType, NewSessionType DEF TypeInv, TypeOK
    <3>2. s \in KeptSessions
      BY <3>1, FlagTypes
    <3> HIDE DEF s
    <3>3. DOMAIN session' = IDs /\ (\A id \in IDs : SessionType(session'[id]))
            /\ session'[Entry.id] # <<>>
      BY <2>1, <2>3, <3>2, SessionKept
    <3>4. batch' \in Seq(Fps)
      BY <2>3 DEF TypeInv, TypeOK
    <3> QED
      BY <2>1, <2>2, <2>3, <3>3, <3>4, <1>0, LoopStepType
  <2>4. CASE NextEntry /\ UNCHANGED session
    <3>1. DOMAIN session' = IDs /\ \A id \in IDs : SessionType(session'[id])
      BY <2>4 DEF TypeInv, TypeOK
    <3> QED
      BY <2>1, <2>2, <2>4, <3>1, <1>0, LoopStepType
  <2>5. \/ pc' = "reading" /\ session' = [session EXCEPT ![Entry.id] = s]
             /\ UNCHANGED <<todo, batch>>
        \/ NextEntry /\ UNCHANGED session
    BY <1>2 DEF OpenContact
  <2> QED
    BY <2>3, <2>4, <2>5
<1>3. CASE ReadMessages
  <2>1. pc \in Working /\ pc \in Working \ {"recording"}
    BY <1>3 DEF ReadMessages, Working
  <2>2. /\ UNCHANGED <<list, chat, written, sends, rounds, life, stopped>>
        /\ dot' \subseteq Chats /\ open' \in Chats \cup {NoChat}
    BY <1>3 DEF ReadMessages, chatVars, TypeInv, TypeOK
  <2>3. CASE NextEntry /\ UNCHANGED <<session, track>>
    <3>1. DOMAIN session' = IDs /\ \A id \in IDs : SessionType(session'[id])
      BY <2>3 DEF TypeInv, TypeOK
    <3> QED
      BY <2>1, <2>2, <2>3, <3>1, <1>0, LoopStepType
  <2>4. CASE ~(NextEntry /\ UNCHANGED <<session, track>>)
    <3>1. PICK s \in KeptSessions :
             session' = [session EXCEPT ![Entry.id] = s] /\ UNCHANGED <<todo, sends>>
      BY <1>3, <2>4, ReadType
    <3>2. batch' \in Seq(Fps) /\ pc' = "asking"
      BY <1>3, <2>4, ReadType
    <3>3. DOMAIN session' = IDs /\ (\A id \in IDs : SessionType(session'[id]))
            /\ session'[Entry.id] # <<>>
      BY <2>1, <3>1, SessionKept
    <3> QED
      BY <2>1, <2>2, <3>1, <3>2, <3>3, <1>0, LoopStepType
  <2> QED
    BY <2>3, <2>4
<1>4. CASE AskAgent
  <2>1. pc \in Working /\ pc \in Working \ {"recording"} /\ pc = "asking"
    BY <1>4 DEF AskAgent, Working
  <2>2. /\ UNCHANGED <<list, chat, written, sends, rounds, life, stopped>>
        /\ dot' \subseteq Chats /\ open' \in Chats \cup {NoChat}
    BY <1>4 DEF AskAgent, chatVars, TypeInv, TypeOK
  <2>3. Current \in KeptSessions /\ session[Entry.id] = Current
    BY <2>1, CurrentType DEF Working
  <2>4. \A b \in BOOLEAN : Sessions!SetPendingReply(Current, b) \in KeptSessions
    BY <2>3, FlagTypes
  <2>5. CASE NextEntry /\ UNCHANGED session
    <3>1. DOMAIN session' = IDs /\ \A id \in IDs : SessionType(session'[id])
      BY <2>5 DEF TypeInv, TypeOK
    <3> QED
      BY <2>1, <2>2, <2>5, <3>1, <1>0, LoopStepType
  <2>6. ASSUME NEW b \in BOOLEAN,
               session' = [session EXCEPT ![Entry.id] = Sessions!SetPendingReply(@, b)],
               \/ NextEntry
               \/ pc' = "verifying" /\ UNCHANGED <<todo, batch>>
        PROVE  TypeInv'
    <3>1. session' = [session EXCEPT ![Entry.id] = Sessions!SetPendingReply(Current, b)]
      BY <2>3, <2>6
    <3>2. DOMAIN session' = IDs /\ (\A id \in IDs : SessionType(session'[id]))
            /\ session'[Entry.id] # <<>>
      BY <2>1, <2>4, <3>1, SessionKept
    <3>3. UNCHANGED batch => batch' \in Seq(Fps)
      BY DEF TypeInv, TypeOK
    <3> QED
      BY <2>1, <2>2, <2>6, <3>2, <3>3, <1>0, LoopStepType
  <2>7. \/ NextEntry /\ UNCHANGED session
        \/ /\ session' = [session EXCEPT ![Entry.id] = Sessions!SetPendingReply(@, FALSE)]
           /\ NextEntry
        \/ /\ session' = [session EXCEPT ![Entry.id] = Sessions!SetPendingReply(@, TRUE)]
           /\ pc' = "verifying" /\ UNCHANGED <<todo, batch>>
    BY <1>4 DEF AskAgent
  <2> QED
    BY <2>5, <2>6, <2>7
<1>5. CASE VerifyChat
  <2>1. pc \in Working \ {"opening"} /\ pc \in Working \ {"recording"}
    BY <1>5 DEF VerifyChat, Working
  <2>2. /\ UNCHANGED <<list, chat, written, session, sends, rounds, life, stopped>>
        /\ dot' \subseteq Chats /\ open' \in Chats \cup {NoChat}
    BY <1>5, <2>1, EntryType, FocusType DEF VerifyChat, TypeInv
  <2>3. DOMAIN session' = IDs /\ (\A id \in IDs : SessionType(session'[id]))
          /\ session'[Entry.id] # <<>>
    BY <2>1, <2>2 DEF TypeInv, TypeOK, LoopInv
  <2>4. UNCHANGED batch => batch' \in Seq(Fps)
    BY DEF TypeInv, TypeOK
  <2>5. \/ NextEntry
        \/ pc' = "sending" /\ UNCHANGED <<todo, batch>>
    BY <1>5 DEF VerifyChat
  <2> QED
    BY <2>1, <2>2, <2>3, <2>4, <2>5, <1>0, LoopStepType
<1>6. CASE SendReply
  BY <1>6, SendType
<1>7. CASE RecordReply
  BY <1>7, RecordType
<1>8. CASE Stop
  BY <1>8 DEF Stop, chatVars, loopVars, track, TypeInv, TypeOK, ListFull, LoopInv, Entry, SessionType
<1>9. CASE LoopEnds
  BY <1>9 DEF LoopEnds, chatVars, track, TypeInv, TypeOK, ListFull, LoopInv, Entry, Working, SessionType
<1>10. CASE Restart
  <2>1. life' \in 1..MaxLives
    BY <1>10, MonitorAssumption DEF Restart, TypeInv, TypeOK
  <2>2. todo' = <<>> /\ batch' = <<>> /\ \A S : <<>> \in Seq(S) /\ Len(<<>>) = 0
    BY <1>10, EmptySeq DEF Restart
  <2>3. DOMAIN session' = IDs /\ \A id \in IDs : SessionType(session'[id])
    BY <1>10 DEF Restart, SessionType
  <2>4. TypeOK'
    BY <1>0, <1>10, <2>1, <2>2, <2>3 DEF Restart, chatVars, TrackOK, TypeInv, TypeOK
  <2>5. LoopInv'
    <3>1. Len(sends) + ToCome <= rounds * Cardinality(Chats)
      BY DEF TypeInv, LoopInv, ToCome
    <3>2. ToCome >= 0 /\ ToCome \in Int
      <4>1. CASE pc = "recording"
        BY <4>1, EntryType DEF ToCome, Working
      <4>2. CASE pc # "recording"
        <5>1. todo \in Seq(Entries)
          BY DEF TypeInv, TypeOK, Entries
        <5> QED
          BY <4>2, <5>1 DEF ToCome
      <4> QED
        BY <4>1, <4>2
    <3>3. Len(sends) \in Nat /\ rounds * Cardinality(Chats) \in Nat
      <4>1. sends \in Seq(SendRecords) /\ rounds \in 0..MaxRounds
        BY DEF TypeInv, TypeOK
      <4>2. Cardinality(Chats) \in Nat \ {0}
        BY ChatsCount
      <4> QED
        BY <4>1, <4>2, RoundBound
    <3>4. Len(sends) <= rounds * Cardinality(Chats)
      BY <3>1, <3>2, <3>3
    <3> QED
      BY <1>10, <2>2, <3>3, <3>4 DEF Restart, LoopInv, Working
  <2> QED
    BY <1>10, <2>4, <2>5 DEF Restart, chatVars, TypeInv, ListFull
<1>11. ASSUME NEW c \in Chats, Write(c) PROVE TypeInv'
  BY <1>11, WriteType
<1>12. CASE UNCHANGED vars
  BY <1>12 DEF vars, TypeInv, TypeOK, ListFull, LoopInv, Entry, SessionType
<1> QED
  BY <1>1, <1>2, <1>3, <1>4, <1>5, <1>6, <1>7, <1>8, <1>9, <1>10, <1>11, <1>12 DEF Next, Round

\* Whatever the loop, the customers and the clicks do, the variables keep to their ranges, no
\* session outgrows its limits, and no more replies are sent than entries were scanned (TypeOK).
THEOREM TypeCorrect == Spec => []TypeOK
<1>1. TypeInv => TypeOK
  BY DEF TypeInv
<1> QED
  BY TypeInit, TypeNext, <1>1, PTL DEF Spec

--------------------------------------------------------------------------------
(* The replies of a session.  While a send that succeeded is still to be recorded,   *)
(* the session lacks it; a session the manager does not have yet has no sends.       *)

Sent(id) == {i \in DOMAIN sends : sends[i].id = id /\ sends[i].ok /\ sends[i].life = life}

Recorded(id) == IF pc = "recording" /\ id = Entry.id THEN Sent(id) \ {Len(sends)} ELSE Sent(id)

\* The replies are the newest of the sends, in order.
Match(replies, sent) ==
    /\ Len(replies) = IF Cardinality(sent) < MaxReplies THEN Cardinality(sent) ELSE MaxReplies
    /\ \A k \in DOMAIN replies : \E i \in sent :
          /\ replies[k] = [taskID |-> TaskID(i), success |-> TRUE]
          /\ Cardinality({j \in sent : j > i}) = Len(replies) - k

RepliesInv ==
    /\ \A id \in IDs : session[id] # <<>> => Match(session[id].replies, Recorded(id))
    /\ \A id \in IDs : session[id] = <<>> => Sent(id) = {}
    /\ pc = "recording" => Len(sends) \in Sent(Entry.id)
    /\ \A i \in DOMAIN sends : sends[i].life <= life

RepliesOf == Seq([taskID : TaskIDs, success : BOOLEAN])

\* No replies, no sends.
LEMMA MatchNothing == Match(<<>>, {})
<1>1. Len(<<>>) = 0 /\ DOMAIN <<>> = {} /\ Cardinality({}) = 0 /\ MaxReplies \in Nat \ {0}
  BY FS_EmptySet, EmptySeq, MonitorAssumption
<1> QED
  BY <1>1 DEF Match

\* Recording the latest send, in a history that may be full.
LEMMA MatchMore ==
    ASSUME NEW n \in Nat, NEW A, A \subseteq 1..n - 1, n >= 1,
           NEW r \in RepliesOf, Match(r, A), TaskID(n) \in TaskIDs,
           NEW c, c = Sessions!Capped(Append(r, [taskID |-> TaskID(n), success |-> TRUE]), MaxReplies)
    PROVE  Match(c, A \cup {n})
<1> DEFINE e == [taskID |-> TaskID(n), success |-> TRUE]
           B == A \cup {n}
           R == [taskID : TaskIDs, success : BOOLEAN]
<1>1. /\ IsFiniteSet(A) /\ Cardinality(A) \in Nat /\ n \notin A
      /\ \A T \in SUBSET A : IsFiniteSet(T) /\ Cardinality(T) \in Nat
  <2>1. IsFiniteSet(1..n - 1) /\ A \in SUBSET (1..n - 1)
    BY FS_Interval
  <2>2. IsFiniteSet(A) /\ Cardinality(A) \in Nat
    BY <2>1, FS_Subset, FS_CardinalityType
  <2>3. ASSUME NEW T \in SUBSET A PROVE IsFiniteSet(T) /\ Cardinality(T) \in Nat
    BY <2>2, FS_Subset, FS_CardinalityType
  <2>4. n \notin A
    OBVIOUS
  <2> QED
    BY <2>2, <2>3, <2>4
<1>1a. \A j \in A : j \in Nat /\ j < n
  OBVIOUS
<1>2. Cardinality(B) = Cardinality(A) + 1
  BY <1>1, FS_AddElement
<1>3. e \in R /\ r \in Seq(R) /\ Len(r) \in Nat /\ MaxReplies \in Nat \ {0}
  BY MonitorAssumption DEF RepliesOf
<1>4. Len(r) = IF Cardinality(A) < MaxReplies THEN Cardinality(A) ELSE MaxReplies
  BY DEF Match
<1> HIDE DEF e, R
<1>5. /\ c \in Seq(R) /\ c # <<>>
      /\ Len(c) = IF Len(r) = MaxReplies THEN MaxReplies ELSE Len(r) + 1
      /\ c[Len(c)] = e
      /\ \A k \in 1..Len(c) - 1 : /\ k + Len(r) + 1 - Len(c) \in 1..Len(r)
                                  /\ c[k] = r[k + Len(r) + 1 - Len(c)]
  <2>1. Len(r) <= MaxReplies /\ c = Sessions!Capped(Append(r, e), MaxReplies)
    BY <1>1, <1>3, <1>4 DEF e
  <2>2. c \in Seq(R) /\ c # <<>> /\ Grown(r, e, MaxReplies, c)
    BY <1>3, <2>1, CappedAppend
  <2> QED
    BY <2>2 DEF Grown
<1>6. Len(c) = IF Cardinality(B) < MaxReplies THEN Cardinality(B) ELSE MaxReplies
  BY <1>1, <1>2, <1>3, <1>4, <1>5
<1>7. DOMAIN c = 1..Len(c) /\ DOMAIN r = 1..Len(r) /\ Len(c) \in Nat
  BY <1>3, <1>5, LenProperties
<1>8. ASSUME NEW k \in 1..Len(c)
      PROVE  \E i \in B : c[k] = [taskID |-> TaskID(i), success |-> TRUE]
                            /\ Cardinality({j \in B : j > i}) = Len(c) - k
  <2>1. CASE k = Len(c)
    <3>1. {j \in B : j > n} = {} /\ n \in B
      <4>1. \A j \in B : ~(j > n)
        BY <1>1a
      <4> QED
        BY <4>1
    <3>1a. Len(c) - k = 0
      BY <1>7, <2>1
    <3>2. Cardinality({j \in B : j > n}) = Len(c) - k
      BY <3>1, <3>1a, FS_EmptySet
    <3>3. c[k] = [taskID |-> TaskID(n), success |-> TRUE]
      BY <1>5, <2>1 DEF e
    <3> QED
      BY <3>1, <3>2, <3>3
  <2>2. CASE k # Len(c)
    <3> DEFINE l == k + Len(r) + 1 - Len(c)
    <3>0. Len(c) \in Nat
      BY <1>7
    <3>1. k \in 1..Len(c) - 1
      BY <2>2, <3>0
    <3>2. l \in 1..Len(r) /\ c[k] = r[l]
      BY <1>5, <3>1
    <3>3. PICK i \in A : /\ r[l] = [taskID |-> TaskID(i), success |-> TRUE]
                         /\ Cardinality({j \in A : j > i}) = Len(r) - l
      BY <1>7, <3>2 DEF Match
    <3>4. {j \in B : j > i} = {j \in A : j > i} \cup {n}
      OBVIOUS
    <3>5. {j \in A : j > i} \in SUBSET A /\ n \notin {j \in A : j > i}
      BY <1>1
    <3>6. Cardinality({j \in B : j > i}) = Cardinality({j \in A : j > i}) + 1
      BY <1>1, <3>4, <3>5, FS_AddElement
    <3>7. Cardinality({j \in B : j > i}) = Len(c) - k
      BY <1>3, <1>7, <3>3, <3>6
    <3> QED
      BY <3>2, <3>3, <3>7
  <2> QED
    BY <2>1, <2>2
<1> QED
  BY <1>6, <1>7, <1>8 DEF Match

\* A manager that starts has neither replies nor sends.
LEMMA RepliesInit == Init => RepliesInv
<1> SUFFICES ASSUME Init PROVE RepliesInv
  OBVIOUS
<1>1. DOMAIN sends = {} /\ \A id \in IDs : Sent(id) = {} /\ session[id] = <<>>
  BY DEF Init, Sent
<1> QED
  BY <1>1 DEF Init, RepliesInv

\* A step that neither sends nor records, and keeps every session's replies.
LEMMA RepliesQuiet ==
    ASSUME RepliesInv, UNCHANGED <<sends, life>>, pc # "recording", pc' # "recording",
           \A id \in IDs : session[id] # <<>> =>
              session'[id] # <<>> /\ session'[id].replies = session[id].replies,
           \A id \in IDs : session[id] = <<>> =>
              session'[id] = <<>> \/ session'[id].replies = <<>>
    PROVE  RepliesInv'
<1>1. \A id \in IDs : Sent(id)' = Sent(id) /\ Recorded(id)' = Sent(id) /\ Recorded(id) = Sent(id)
  BY DEF Sent, Recorded
<1>2. ASSUME NEW id \in IDs, session'[id] # <<>>
      PROVE  Match(session'[id].replies, Recorded(id)')
  <2>1. CASE session[id] # <<>>
    BY <1>1, <2>1 DEF RepliesInv
  <2>2. CASE session[id] = <<>>
    <3>1. Sent(id) = {} /\ session'[id].replies = <<>>
      BY <1>2, <2>2 DEF RepliesInv
    <3> QED
      BY <1>1, <3>1, MatchNothing
  <2> QED
    BY <2>1, <2>2
<1>3. \A id \in IDs : session'[id] = <<>> => Sent(id)' = {}
  BY <1>1 DEF RepliesInv
<1>4. \A i \in DOMAIN sends' : sends'[i].life <= life'
  BY DEF RepliesInv
<1>5. \A id \in IDs : (session[id] # <<>>)' => (Match(session[id].replies, Recorded(id)))'
  BY <1>2 DEF Match
<1> QED
  BY <1>3, <1>4, <1>5 DEF RepliesInv

\* A step that leaves the loop where it is.
LEMMA RepliesStill ==
    ASSUME RepliesInv, UNCHANGED <<sends, life, session, pc, todo>>
    PROVE  RepliesInv'
<1>1. \A id \in IDs : Recorded(id)' = Recorded(id) /\ Sent(id)' = Sent(id)
  BY DEF Recorded, Sent, Entry
<1>2. pc = "recording" => Len(sends) \in Sent(Entry.id)'
  BY DEF RepliesInv, Sent, Entry
<1>3. \A id \in IDs : session[id] # <<>> => Match(session[id].replies, Recorded(id)')
  BY <1>1 DEF RepliesInv
<1>4. \A id \in IDs : (session[id] # <<>>)' => (Match(session[id].replies, Recorded(id)))'
  BY <1>3 DEF Match
<1>5. \A id \in IDs : session[id] = <<>> => Sent(id)' = {}
  BY <1>1 DEF RepliesInv
<1>6. \A i \in DOMAIN sends' : sends'[i].life <= life'
  BY DEF RepliesInv
<1>7. (pc = "recording" => Len(sends) \in Sent(Entry.id))'
  BY <1>2 DEF Entry, Sent
<1> QED
  BY <1>4, <1>5, <1>6, <1>7 DEF RepliesInv

\* Send: what succeeded is still to be recorded, what failed is no reply.
LEMMA RepliesSend ==
    ASSUME TypeInv, RepliesInv, SendReply
    PROVE  RepliesInv'
<1>1. PICK ok, landed \in BOOLEAN :
         /\ Deliver(ok, landed)
         /\ \/ ok /\ pc' = "recording" /\ UNCHANGED <<todo, batch>>
            \/ ~ok /\ NextEntry
  BY DEF SendReply
<1> DEFINE n == Len(sends)
<1>2. /\ pc = "sending" /\ pc \in Working /\ UNCHANGED <<session, life>>
      /\ session[Entry.id] # <<>> /\ Entry.id \in IDs
  BY <1>1, EntryType DEF SendReply, Deliver, Working, TypeInv, LoopInv
<1>3. /\ n \in Nat /\ DOMAIN sends = 1..n /\ DOMAIN sends' = 1..n + 1 /\ Len(sends') = n + 1
      /\ \A i \in 1..n : sends'[i] = sends[i]
      /\ sends'[n + 1] = SendOf(ok, landed)
  BY <1>1, <1>2, DeliverIs
<1>4. /\ sends'[n + 1].id = Entry.id /\ sends'[n + 1].ok = ok /\ sends'[n + 1].life = life
  BY <1>3 DEF SendOf
<1>5. \A id \in IDs : Recorded(id) = Sent(id) /\ n + 1 \notin Sent(id)
  BY <1>2, <1>3 DEF Recorded, Sent
<1> HIDE DEF n
<1>6. \A id \in IDs : Sent(id)' = IF ok /\ id = Entry.id THEN Sent(id) \cup {n + 1} ELSE Sent(id)
  BY <1>2, <1>3, <1>4 DEF Sent
<1>7. \A id \in IDs : Recorded(id)' = Sent(id)
  <2>1. CASE ok /\ pc' = "recording" /\ UNCHANGED <<todo, batch>>
    <3>1. Entry' = Entry
      BY <2>1 DEF Entry
    <3> QED
      BY <1>3, <1>5, <1>6, <2>1, <3>1 DEF Recorded
  <2>2. CASE ~ok /\ NextEntry
    <3>1. pc' # "recording"
      BY <2>2, NextEntryPc
    <3> QED
      BY <1>6, <2>2, <3>1 DEF Recorded
  <2> QED
    BY <1>1, <2>1, <2>2
<1>8. \A id \in IDs : (session[id] # <<>>)' => (Match(session[id].replies, Recorded(id)))'
  <2>1. \A id \in IDs : session[id] # <<>> => Match(session[id].replies, Recorded(id)')
    BY <1>5, <1>7 DEF RepliesInv
  <2> QED
    BY <1>2, <2>1 DEF Match
<1>9. \A id \in IDs : session'[id] = <<>> => Sent(id)' = {}
  BY <1>2, <1>6 DEF RepliesInv
<1>10. \A i \in DOMAIN sends' : sends'[i].life <= life'
  <2>1. life \in Nat
    BY DEF TypeInv, TypeOK
  <2> QED
    BY <1>2, <1>3, <1>4, <2>1 DEF RepliesInv
<1>11. (pc = "recording" => Len(sends) \in Sent(Entry.id))'
  <2>1. CASE ok /\ pc' = "recording" /\ UNCHANGED <<todo, batch>>
    <3>1. Entry' = Entry
      BY <2>1 DEF Entry
    <3>2. n + 1 \in {i \in DOMAIN sends' : sends'[i].id = Entry.id /\ sends'[i].ok
                                              /\ sends'[i].life = life'}
      <4>1. n + 1 \in DOMAIN sends'
        BY <1>3
      <4>2. sends'[n + 1].id = Entry.id /\ sends'[n + 1].ok /\ sends'[n + 1].life = life'
        BY <1>2, <1>4, <2>1
      <4> QED
        BY <4>1, <4>2
    <3> QED
      BY <1>3, <3>1, <3>2 DEF Sent
  <2>2. CASE ~ok /\ NextEntry
    BY <2>2, NextEntryPc
  <2> QED
    BY <1>1, <2>1, <2>2
<1> QED
  BY <1>8, <1>9, <1>10, <1>11 DEF RepliesInv

\* AddReply records the send that was made last, and no other.
LEMMA RepliesRecord ==
    ASSUME TypeInv, RepliesInv, RecordReply
    PROVE  RepliesInv'
<1> DEFINE n == Len(sends)
           me == Entry.id
           old == session[me]
           new == Sessions!ClearPendingReply(Sessions!AddReply(old, TaskID(n), TRUE))
<1>1. /\ pc = "recording" /\ pc \in Working /\ UNCHANGED <<sends, life>> /\ pc' # "recording"
      /\ session' = [session EXCEPT ![me] = new]
  BY NextEntryPc DEF RecordReply, Working
<1>2. old \in KeptSessions /\ TaskID(n) \in TaskIDs /\ me \in IDs
  BY <1>1, CurrentType, EntryType, RecordType DEF Working
<1>3. /\ new \in KeptSessions
      /\ new.replies = Sessions!Capped(Append(old.replies, [taskID |-> TaskID(n), success |-> TRUE]),
                                       MaxReplies)
  BY <1>2, AddReplyType
<1>4. old # <<>> /\ new # <<>> /\ old.replies \in RepliesOf
  BY <1>2, <1>3, KeptIsLive, SessionNotEmpty DEF KeptSessions, SessionRecords, RepliesOf
<1>5. DOMAIN session = IDs
  BY DEF TypeInv, TypeOK
<1> HIDE DEF new, old
<1>6. \A id \in IDs : Sent(id)' = Sent(id) /\ Recorded(id)' = Sent(id)
  BY <1>1 DEF Sent, Recorded
<1>7. Match(new.replies, Sent(me))
  <2>1. /\ n \in Sent(me) /\ Match(old.replies, Sent(me) \ {n})
    BY <1>1, <1>2, <1>4 DEF RepliesInv, Recorded, old
  <2>2. n \in Nat /\ DOMAIN sends = 1..n
    BY DEF TypeInv, TypeOK
  <2>3. n >= 1 /\ Sent(me) \ {n} \subseteq 1..n - 1
    BY <2>1, <2>2 DEF Sent
  <2>4. (Sent(me) \ {n}) \cup {n} = Sent(me)
    BY <2>1
  <2> DEFINE A == Sent(me) \ {n}
  <2>5. A \subseteq 1..n - 1 /\ Match(old.replies, A) /\ A \cup {n} = Sent(me)
    BY <2>1, <2>3, <2>4
  <2> HIDE DEF A, n, me
  <2>6. Match(new.replies, A \cup {n})
    BY <1>2, <1>3, <1>4, <2>2, <2>3, <2>5, MatchMore
  <2> QED
    BY <2>5, <2>6
<1>8. \A id \in IDs : id # me => Recorded(id) = Sent(id)
  BY DEF Recorded
<1>9. \A id \in IDs : session'[id] # <<>> => Match(session'[id].replies, Sent(id))
  <2> SUFFICES ASSUME NEW id \in IDs, session'[id] # <<>>
               PROVE  Match(session'[id].replies, Sent(id))
    OBVIOUS
  <2>1. CASE id = me
    BY <1>1, <1>2, <1>5, <1>7, <2>1
  <2>2. CASE id # me
    <3>1. session'[id] = session[id]
      BY <1>1, <1>5, <2>2
    <3> QED
      BY <1>8, <2>2, <3>1 DEF RepliesInv
  <2> QED
    BY <2>1, <2>2
<1>10. \A id \in IDs : (session[id] # <<>>)' => (Match(session[id].replies, Recorded(id)))'
  BY <1>6, <1>9 DEF Match
<1>11. \A id \in IDs : session'[id] = <<>> => Sent(id)' = {}
  <2> SUFFICES ASSUME NEW id \in IDs, session'[id] = <<>> PROVE Sent(id)' = {}
    OBVIOUS
  <2>1. id # me
    BY <1>1, <1>2, <1>4, <1>5
  <2>2. session[id] = <<>>
    BY <1>1, <1>5, <2>1
  <2> QED
    BY <1>6, <2>2 DEF RepliesInv
<1>12. \A i \in DOMAIN sends' : sends'[i].life <= life'
  BY <1>1 DEF RepliesInv
<1> QED
  BY <1>1, <1>10, <1>11, <1>12 DEF RepliesInv

\* The session of an entry is changed, but not in its replies.
LEMMA RepliesEdit ==
    ASSUME TypeInv, RepliesInv, UNCHANGED <<sends, life>>, pc # "recording", pc' # "recording",
           pc \in Working, NEW s \in KeptSessions, session' = [session EXCEPT ![Entry.id] = s],
           s.replies = IF session[Entry.id] = <<>> THEN <<>> ELSE session[Entry.id].replies
    PROVE  RepliesInv'
<1>1. DOMAIN session = IDs /\ Entry.id \in IDs /\ s # <<>>
  BY EntryType, KeptIsLive, SessionNotEmpty DEF TypeInv, TypeOK
<1>2. \A id \in IDs : session[id] # <<>> =>
         session'[id] # <<>> /\ session'[id].replies = session[id].replies
  BY <1>1
<1>3. \A id \in IDs : session[id] = <<>> => session'[id] = <<>> \/ session'[id].replies = <<>>
  BY <1>1
<1> QED
  BY <1>2, <1>3, RepliesQuiet

\* Every step keeps the replies the newest sends; between Send and AddReply one is missing.
THEOREM RepliesNext == TypeInv /\ RepliesInv /\ [Next]_vars => RepliesInv'
<1> SUFFICES ASSUME TypeInv, RepliesInv, [Next]_vars PROVE RepliesInv'
  OBVIOUS
<1>0. ASSUME UNCHANGED <<sends, life, session>>, pc # "recording", pc' # "recording"
      PROVE  RepliesInv'
  BY <1>0, RepliesQuiet
<1>1. CASE Scan
  BY <1>0, <1>1 DEF Scan
<1>2. CASE OpenContact
  <2>1. pc = "opening" /\ pc \in Working /\ pc' # "recording" /\ UNCHANGED <<sends, life>>
    BY <1>2, NextEntryPc DEF OpenContact, Working
  <2> DEFINE old == IF session[Entry.id] = <<>> THEN Sessions!NewSession ELSE session[Entry.id]
             s == Sessions!SetConversationRef(old)
  <2>2. CASE session' = [session EXCEPT ![Entry.id] = s]
    <3>1. old \in KeptSessions
      BY <2>1, EntryType, KeptType, NewSessionType DEF TypeInv, TypeOK
    <3>2. s \in KeptSessions /\ s.replies = old.replies
      BY <3>1, FlagTypes
    <3>3. old.replies = IF session[Entry.id] = <<>> THEN <<>> ELSE session[Entry.id].replies
      BY NewSessionType
    <3> HIDE DEF s, old
    <3>4. s.replies = IF session[Entry.id] = <<>> THEN <<>> ELSE session[Entry.id].replies
      BY <3>2, <3>3
    <3> QED
      BY <2>1, <2>2, <3>2, <3>4, RepliesEdit
  <2>3. CASE UNCHANGED session
    BY <1>0, <2>1, <2>3
  <2>4. \/ session' = [session EXCEPT ![Entry.id] = s]
        \/ UNCHANGED session
    BY <1>2 DEF OpenContact
  <2> QED
    BY <2>2, <2>3, <2>4
<1>3. CASE ReadMessages
  <2>1. pc = "reading" /\ pc \in Working /\ pc' # "recording" /\ UNCHANGED <<sends, life>>
    BY <1>3, NextEntryPc DEF ReadMessages, Working
  <2>2. CASE NextEntry /\ UNCHANGED <<session, track>>
    BY <1>0, <2>1, <2>2
  <2>3. CASE ~(NextEntry /\ UNCHANGED <<session, track>>)
    <3>1. PICK s \in KeptSessions :
             /\ session' = [session EXCEPT ![Entry.id] = s]
             /\ s.replies = Current.replies /\ session[Entry.id] = Current
      BY <1>3, <2>3, ReadType
    <3>2. session[Entry.id] # <<>>
      BY <2>1 DEF TypeInv, LoopInv, Working
    <3>3. s.replies = IF session[Entry.id] = <<>> THEN <<>> ELSE session[Entry.id].replies
      BY <3>1, <3>2
    <3> QED
      BY <2>1, <3>1, <3>3, RepliesEdit
  <2> QED
    BY <2>2, <2>3
<1>4. CASE AskAgent
  <2>1. pc = "asking" /\ pc \in Working /\ pc' # "recording" /\ UNCHANGED <<sends, life>>
    BY <1>4, NextEntryPc DEF AskAgent, Working
  <2>2. CASE UNCHANGED session
    BY <1>0, <2>1, <2>2
  <2>3. ASSUME NEW b \in BOOLEAN,
               session' = [session EXCEPT ![Entry.id] = Sessions!SetPendingReply(@, b)]
        PROVE  RepliesInv'
    <3>1. Current \in KeptSessions /\ session[Entry.id] = Current /\ session[Entry.id] # <<>>
      BY <2>1, CurrentType DEF Working, TypeInv, LoopInv
    <3> DEFINE s == Sessions!SetPendingReply(Current, b)
    <3>2. s \in KeptSessions /\ s.replies = Current.replies
      BY <3>1, FlagTypes
    <3>3. session' = [session EXCEPT ![Entry.id] = s]
      BY <2>3, <3>1
    <3> HIDE DEF s
    <3>4. s.replies = IF session[Entry.id] = <<>> THEN <<>> ELSE session[Entry.id].replies
      BY <3>1, <3>2
    <3> QED
      BY <2>1, <3>2, <3>3, <3>4, RepliesEdit
  <2>4. \/ UNCHANGED session
        \/ session' = [session EXCEPT ![Entry.id] = Sessions!SetPendingReply(@, FALSE)]
        \/ session' = [session EXCEPT ![Entry.id] = Sessions!SetPendingReply(@, TRUE)]
    BY <1>4 DEF AskAgent
  <2> QED
    BY <2>2, <2>3, <2>4
<1>5. CASE VerifyChat
  BY <1>0, <1>5, NextEntryPc DEF VerifyChat
<1>6. CASE SendReply
  BY <1>6, RepliesSend
<1>7. CASE RecordReply
  BY <1>7, RepliesRecord
<1>8. CASE Stop
  BY <1>8, RepliesStill DEF Stop, loopVars
<1>9. CASE LoopEnds
  BY <1>0, <1>9 DEF LoopEnds
<1>10. CASE Restart
  <2>1. /\ UNCHANGED sends /\ life' = life + 1 /\ life \in Nat /\ pc' # "recording"
        /\ \A id \in IDs : session'[id] = <<>>
    BY <1>10 DEF Restart, TypeInv, TypeOK
  <2>2. \A i \in DOMAIN sends : sends[i].life \in Nat
    <3>1. sends \in Seq(SendRecords)
      BY DEF TypeInv, TypeOK
    <3>2. \A i \in DOMAIN sends : sends[i] \in SendRecords
      BY <3>1
    <3> QED
      BY <3>2 DEF SendRecords
  <2>3. \A i \in DOMAIN sends' : sends'[i].life # life' /\ sends'[i].life <= life'
    BY <2>1, <2>2 DEF RepliesInv
  <2>4. \A id \in IDs : Sent(id)' = {}
    BY <2>3 DEF Sent
  <2> QED
    BY <2>1, <2>3, <2>4 DEF RepliesInv
<1>11. ASSUME NEW c \in Chats, Write(c) PROVE RepliesInv'
  BY <1>11, RepliesStill DEF Write, loopVars
<1>12. CASE UNCHANGED vars
  BY <1>12, RepliesStill DEF vars
<1> QED
  BY <1>1, <1>2, <1>3, <1>4, <1>5, <1>6, <1>7, <1>8, <1>9, <1>10, <1>11, <1>12 DEF Next, Round

\* The reply history of a session, out of which the report of a round is made, is the newest
\* of the sends of this process that succeeded, in order and each once, however many sends,
\* focuses or answers of the agent failed between them (RepliesAreSends).
THEOREM RepliesTold == Spec => []RepliesAreSends
<1>1. RepliesInv => RepliesAreSends
  <2> SUFFICES ASSUME RepliesInv, NEW id \in IDs, session[id] # <<>>, pc # "recording"
               PROVE  Match(session[id].replies, Sent(id))
    BY DEF RepliesAreSends, Match, Sent
  <2> QED
    BY DEF RepliesInv, Recorded
<1> QED
  BY TypeInit, TypeNext, RepliesInit, RepliesNext, <1>1, PTL DEF Spec

--------------------------------------------------------------------------------
(* Histories.  What a reading adds to a history is what follows it in the chat, and the *)
(* limit drops as much at its other end.                                            *)

TextsOf(h) == [i \in DOMAIN h |-> Text(h[i])]

\* The history of s is the newest of t from b to n.
Spans(s, t, b, n) == TextsOf(s.history) = Newest(SubSeq(t, b, n), MaxHistory)

\* The texts of fingerprints are messages.
LEMMA TextsType ==
    ASSUME NEW h \in Seq(Fps)
    PROVE  /\ TextsOf(h) \in Seq(Messages) /\ Len(TextsOf(h)) = Len(h) /\ Len(h) \in Nat
           /\ \A i \in 1..Len(h) : TextsOf(h)[i] = Text(h[i]) /\ h[i] \in Fps
<1>1. Len(h) \in Nat /\ DOMAIN h = 1..Len(h) /\ \A i \in 1..Len(h) : h[i] \in Fps
  BY LenProperties, ElementOfSeq
<1>2. \A fp \in Fps : Text(fp) \in Messages
  BY DEF Fps, Text
<1>3. TextsOf(h) \in [1..Len(h) -> Messages]
  BY <1>1, <1>2 DEF TextsOf
<1> QED
  BY <1>1, <1>3 DEF TextsOf

\* The newest of a sequence, and one more.
LEMMA NewestGrows ==
    ASSUME NEW S, NEW u \in Seq(S), NEW e \in S, NEW H \in Nat \ {0},
           NEW c, c = Sessions!Capped(Append(Newest(u, H), e), H)
    PROVE  c = Newest(Append(u, e), H)
<1> DEFINE a == Append(u, e)
           h == Newest(u, H)
           g == Newest(a, H)
           n == Len(u)
<1>1. /\ a \in Seq(S) /\ Len(a) = n + 1 /\ n \in Nat /\ H \in Nat
      /\ a[n + 1] = e /\ \A i \in 1..n : a[i] = u[i]
  BY AppendProperties, LenProperties
<1> HIDE DEF a
<1>2. /\ h \in Seq(S) /\ Len(h) = IF n > H THEN H ELSE n
      /\ \A k \in 1..Len(h) : h[k] = u[k + n - Len(h)]
  BY <1>1, NewestIs
<1>3. /\ g \in Seq(S) /\ Len(g) = IF n + 1 > H THEN H ELSE n + 1
      /\ \A k \in 1..Len(g) : g[k] = a[k + (n + 1) - Len(g)]
  <2>1. /\ g \in Seq(S) /\ Len(g) = IF Len(a) > H THEN H ELSE Len(a)
        /\ \A k \in 1..Len(g) : g[k] = a[k + Len(a) - Len(g)]
    BY <1>1, NewestIs
  <2> HIDE DEF g
  <2> QED
    BY <1>1, <2>1
<1>4. c = Sessions!Capped(Append(h, e), H)
  OBVIOUS
<1> HIDE DEF h, g, n
<1>5. c \in Seq(S) /\ Grown(h, e, H, c)
  <2>1. Len(h) <= H
    BY <1>1, <1>2
  <2> QED
    BY <1>2, <1>4, <2>1, CappedAppend
<1>6. Len(c) = Len(g) /\ Len(c) \in Nat /\ Len(h) \in Nat /\ Len(h) <= n
  BY <1>1, <1>2, <1>3, <1>5 DEF Grown
<1>7. ASSUME NEW k \in 1..Len(c) PROVE c[k] = g[k]
  <2>1. k + (n + 1) - Len(g) \in 1..n + 1 /\ k \in 1..Len(g)
    BY <1>1, <1>3, <1>6
  <2>2. g[k] = a[k + (n + 1) - Len(g)]
    BY <1>3, <2>1
  <2>3. CASE k = Len(c)
    <3>1. k + (n + 1) - Len(g) = n + 1
      BY <1>1, <1>6, <2>3
    <3>2. c[k] = e
      BY <1>5, <2>3 DEF Grown
    <3> QED
      BY <1>1, <2>2, <3>1, <3>2
  <2>4. CASE k # Len(c)
    <3> DEFINE l == k + Len(h) + 1 - Len(c)
    <3>1. k \in 1..Len(c) - 1
      BY <1>6, <2>4
    <3>2. l \in 1..Len(h) /\ c[k] = h[l]
      BY <1>5, <3>1 DEF Grown
    <3>3. l + n - Len(h) = k + (n + 1) - Len(g)
      BY <1>1, <1>6
    <3> HIDE DEF l
    <3>4. h[l] = u[l + n - Len(h)] /\ l + n - Len(h) \in 1..n
      BY <1>1, <1>2, <1>6, <3>2
    <3> QED
      BY <1>1, <2>2, <3>2, <3>3, <3>4
  <2> QED
    BY <2>3, <2>4
<1>8. c = g
  BY <1>3, <1>5, <1>6, <1>7, SeqEqual
<1> QED
  BY <1>8 DEF g, a

\* The limit works on texts as it does on fingerprints.
LEMMA TextsCapped ==
    ASSUME NEW h \in Seq(Fps), NEW fp \in Fps, NEW n \in Nat \ {0}, Len(h) <= n
    PROVE  TextsOf(Sessions!Capped(Append(h, fp), n))
              = Sessions!Capped(Append(TextsOf(h), Text(fp)), n)
<1> DEFINE c == Sessions!Capped(Append(h, fp), n)
           d == Sessions!Capped(Append(TextsOf(h), Text(fp)), n)
<1>1. /\ TextsOf(h) \in Seq(Messages) /\ Len(TextsOf(h)) = Len(h) /\ Len(h) \in Nat
      /\ \A i \in 1..Len(h) : TextsOf(h)[i] = Text(h[i])
  BY TextsType
<1>2. Text(fp) \in Messages
  BY DEF Fps, Text
<1>3. c \in Seq(Fps) /\ Grown(h, fp, n, c)
  BY CappedAppend
<1>4. d \in Seq(Messages) /\ Grown(TextsOf(h), Text(fp), n, d)
  BY <1>1, <1>2, CappedAppend
<1> HIDE DEF c, d
<1>5. /\ TextsOf(c) \in Seq(Messages) /\ Len(TextsOf(c)) = Len(c) /\ Len(c) \in Nat
      /\ \A i \in 1..Len(c) : TextsOf(c)[i] = Text(c[i])
  BY <1>3, TextsType
<1>6. Len(d) = Len(c) /\ Len(c) # 0
  BY <1>1, <1>3, <1>4 DEF Grown
<1>7. ASSUME NEW k \in 1..Len(c) PROVE TextsOf(c)[k] = d[k]
  <2>1. CASE k = Len(c)
    BY <1>3, <1>4, <1>5, <1>6, <2>1 DEF Grown
  <2>2. CASE k # Len(c)
    <3>1. k \in 1..Len(c) - 1
      BY <1>5, <2>2
    <3> DEFINE l == k + Len(h) + 1 - Len(c)
    <3>2. l \in 1..Len(h) /\ c[k] = h[l]
      BY <1>3, <3>1 DEF Grown
    <3>3. d[k] = TextsOf(h)[l]
      BY <1>1, <1>4, <1>6, <3>1 DEF Grown
    <3> QED
      BY <1>1, <1>5, <3>2, <3>3
  <2> QED
    BY <2>1, <2>2
<1>8. TextsOf(c) = d
  BY <1>4, <1>5, <1>6, <1>7, SeqEqual
<1> QED
  BY <1>8 DEF c, d

\* A part of a chat.
LEMMA PartIs ==
    ASSUME NEW t \in Seq(Messages), NEW b \in Nat \ {0}, NEW n \in Nat, n <= Len(t), b <= n + 1
    PROVE  /\ SubSeq(t, b, n) \in Seq(Messages) /\ Len(SubSeq(t, b, n)) = n - b + 1
           /\ \A i \in 1..n - b + 1 : SubSeq(t, b, n)[i] = t[b + i - 1]
<1>1. Len(t) \in Nat /\ \A i \in 1..Len(t) : t[i] \in Messages
  BY LenProperties, ElementOfSeq
<1>2. b \in Int /\ n \in Int /\ \A i \in b..n : t[i] \in Messages
  BY <1>1
<1>3. /\ SubSeq(t, b, n) \in Seq(Messages)
      /\ Len(SubSeq(t, b, n)) = IF b <= n THEN n - b + 1 ELSE 0
      /\ \A i \in 1..n - b + 1 : SubSeq(t, b, n)[i] = t[b + i - 1]
  BY <1>2, SubSeqProperties
<1> QED
  BY <1>3

\* A part of a chat, and the message after it.
LEMMA PartGrows ==
    ASSUME NEW t \in Seq(Messages), NEW b \in Nat \ {0}, NEW n \in Nat, n + 1 <= Len(t), b <= n + 1
    PROVE  SubSeq(t, b, n + 1) = Append(SubSeq(t, b, n), t[n + 1]) /\ t[n + 1] \in Messages
<1> DEFINE u == SubSeq(t, b, n)
           v == SubSeq(t, b, n + 1)
           m == n - b + 1
<1>1. Len(t) \in Nat /\ n <= Len(t) /\ n + 1 \in Nat /\ b <= n + 1 + 1 /\ m \in Nat
        /\ t[n + 1] \in Messages
  BY LenProperties, ElementOfSeq
<1>2. u \in Seq(Messages) /\ Len(u) = m /\ \A i \in 1..m : u[i] = t[b + i - 1]
  BY <1>1, PartIs
<1>3. /\ v \in Seq(Messages) /\ Len(v) = n + 1 - b + 1
      /\ \A i \in 1..n + 1 - b + 1 : v[i] = t[b + i - 1]
  BY <1>1, PartIs
<1> HIDE DEF u, v
<1>4. /\ Append(u, t[n + 1]) \in Seq(Messages) /\ Len(Append(u, t[n + 1])) = m + 1
      /\ Append(u, t[n + 1])[m + 1] = t[n + 1]
      /\ \A i \in 1..m : Append(u, t[n + 1])[i] = u[i]
  BY <1>1, <1>2, AppendProperties
<1>5. Len(v) = m + 1
  BY <1>1, <1>3
<1>6. ASSUME NEW i \in 1..m + 1 PROVE v[i] = Append(u, t[n + 1])[i]
  <2>1. CASE i = m + 1
    <3>1. b + i - 1 = n + 1 /\ i \in 1..n + 1 - b + 1
      BY <1>1, <2>1
    <3> QED
      BY <1>3, <1>4, <2>1, <3>1
  <2>2. CASE i # m + 1
    <3>1. i \in 1..m /\ i \in 1..n + 1 - b + 1
      BY <1>1, <2>2
    <3> QED
      BY <1>2, <1>3, <1>4, <3>1
  <2> QED
    BY <2>1, <2>2
<1>7. v = Append(u, t[n + 1])
  BY <1>3, <1>4, <1>5, <1>6, SeqEqual
<1> QED
  BY <1>1, <1>7 DEF u, v

\* The message after those the history spans is no duplicate, and the history spans it too.
LEMMA SpansMore ==
    ASSUME NEW t \in Seq(Messages), \A i, j \in 1..Len(t) : t[i] = t[j] => i = j,
           NEW b \in Nat \ {0}, NEW n \in Nat, n + 1 <= Len(t), b <= n + 1,
           NEW s \in LiveSessions, Spans(s, t, b, n), NEW fp \in Fps, Text(fp) = t[n + 1]
    PROVE  Spans(Sessions!AddMessage(s, fp, FALSE), t, b, n + 1)
<1> DEFINE h == s.history
           u == SubSeq(t, b, n)
           c == Sessions!Capped(Append(h, fp), MaxHistory)
<1>1. Len(t) \in Nat /\ n <= Len(t) /\ MaxHistory \in Nat \ {0} /\ MaxHistory \in Nat
  BY MonitorAssumption, LenProperties
<1>2. u \in Seq(Messages) /\ Len(u) = n - b + 1 /\ \A i \in 1..n - b + 1 : u[i] = t[b + i - 1]
  BY <1>1, PartIs
<1>3. TextsOf(h) = Newest(u, MaxHistory)
  BY DEF Spans
<1>4. h \in Seq(Fps) /\ Len(h) <= MaxHistory
  BY DEF LiveSessions, LiveRecords
<1> HIDE DEF u, h
<1>5. /\ Len(TextsOf(h)) = Len(h) /\ Len(h) \in Nat /\ DOMAIN h = 1..Len(h)
      /\ \A i \in 1..Len(h) : TextsOf(h)[i] = Text(h[i])
  BY <1>4, TextsType, LenProperties
<1>6. /\ Len(h) = IF n - b + 1 > MaxHistory THEN MaxHistory ELSE n - b + 1
      /\ \A k \in 1..Len(h) : TextsOf(h)[k] = u[k + (n - b + 1) - Len(h)]
  <2>1. /\ Len(TextsOf(h)) = IF Len(u) > MaxHistory THEN MaxHistory ELSE Len(u)
        /\ \A k \in 1..Len(TextsOf(h)) : TextsOf(h)[k] = u[k + Len(u) - Len(TextsOf(h))]
    <3>1. /\ Len(Newest(u, MaxHistory)) = IF Len(u) > MaxHistory THEN MaxHistory ELSE Len(u)
          /\ \A k \in 1..Len(Newest(u, MaxHistory)) :
                Newest(u, MaxHistory)[k] = u[k + Len(u) - Len(Newest(u, MaxHistory))]
      BY <1>1, <1>2, NewestIs
    <3> QED
      BY <1>3, <3>1
  <2> QED
    BY <1>2, <1>5, <2>1
<1>7. ~Sessions!Remembers(s, fp)
  <2>1. SUFFICES ASSUME NEW k \in 1..Len(h), h[k] = fp PROVE FALSE
    BY <1>5 DEF Sessions!Remembers, h
  <2> DEFINE l == k + (n - b + 1) - Len(h)
  <2>2. l \in 1..n - b + 1
    BY <1>1, <1>5, <1>6
  <2>3. t[n + 1] = u[l]
    BY <1>5, <1>6, <2>1
  <2> HIDE DEF l
  <2>4. u[l] = t[b + l - 1] /\ b + l - 1 \in 1..Len(t) /\ b + l - 1 # n + 1 /\ n + 1 \in 1..Len(t)
    BY <1>1, <1>2, <2>2
  <2> QED
    BY <2>3, <2>4
<1>8. TextsOf(c) = Newest(Append(u, t[n + 1]), MaxHistory)
  <2>1. TextsOf(c) = Sessions!Capped(Append(Newest(u, MaxHistory), t[n + 1]), MaxHistory)
    BY <1>1, <1>3, <1>4, TextsCapped
  <2>2. t[n + 1] \in Messages
    BY PartGrows
  <2> HIDE DEF c
  <2> QED
    BY <1>1, <1>2, <2>1, <2>2, NewestGrows
<1>9. SubSeq(t, b, n + 1) = Append(u, t[n + 1])
  BY PartGrows DEF u
<1> HIDE DEF c
<1>10. Sessions!AddMessage(s, fp, FALSE).history = c
  <2>1. Sessions!AddMessage(s, fp, FALSE) =
          [s EXCEPT !.history = c, !.lastMessageID = FreshID, !.unread = @ + 1, !.lastIncoming = fp]
    BY <1>7 DEF Sessions!AddMessage, c, h
  <2> QED
    BY <2>1 DEF LiveSessions, LiveRecords
<1> QED
  BY <1>8, <1>9, <1>10 DEF Spans

\* So does AddMessages with what follows in the chat.
LEMMA SpansAll ==
    ASSUME NEW t \in Seq(Messages), \A i, j \in 1..Len(t) : t[i] = t[j] => i = j,
           NEW b \in Nat \ {0}, NEW n \in Nat, b <= n + 1,
           NEW s \in LiveSessions, Spans(s, t, b, n),
           NEW fps \in Seq(Fps), n + Len(fps) <= Len(t),
           \A i \in 1..Len(fps) : Text(fps[i]) = t[n + i]
    PROVE  Spans(Sessions!AddMessages(s, fps), t, b, n + Len(fps))
<1> DEFINE m == Len(fps)
<1>1. m \in Nat /\ Len(t) \in Nat /\ \A i \in 1..m : fps[i] \in Fps
  BY LenProperties, ElementOfSeq
<1>2. PICK after : AddedInTurn(s, fps, after)
  BY <1>1, AddMessagesInTurn
<1>3. /\ Sessions!AddMessages(s, fps) = after[m]
      /\ after[0] = s
      /\ \A i \in 1..m : after[i] = Sessions!AddMessage(after[i - 1], fps[i], FALSE)
  BY <1>2 DEF AddedInTurn
<1> HIDE DEF m
<1> DEFINE S == {i \in Nat : i <= m => after[i] \in LiveSessions /\ Spans(after[i], t, b, n + i)}
<1>4. 0 \in S
  <2>1. n + 0 = n
    OBVIOUS
  <2> QED
    BY <1>3, <2>1
<1>5. ASSUME NEW i \in Nat, i \in S PROVE i + 1 \in S
  <2>1. SUFFICES ASSUME i + 1 <= m
                 PROVE  after[i + 1] \in LiveSessions /\ Spans(after[i + 1], t, b, n + (i + 1))
    OBVIOUS
  <2>2. after[i] \in LiveSessions /\ Spans(after[i], t, b, n + i)
    BY <1>1, <1>5, <2>1
  <2>3. PICK j \in 1..m : j = i + 1 /\ j - 1 = i
    BY <1>1, <2>1
  <2>4. PICK k \in Nat : k = n + i /\ k + 1 <= Len(t) /\ k + 1 = n + j /\ b <= k + 1
                           /\ k + 1 = n + (i + 1)
    BY <1>1, <2>1, <2>3 DEF m
  <2>5. fps[j] \in Fps /\ Text(fps[j]) = t[k + 1]
    BY <1>1, <2>3, <2>4 DEF m
  <2>6. after[j] = Sessions!AddMessage(after[i], fps[j], FALSE)
    BY <1>3, <2>3
  <2>7. Spans(after[i], t, b, k)
    BY <2>2, <2>4
  <2>8. after[j] \in LiveSessions
    BY <2>2, <2>5, <2>6, AddMessageType
  <2>9. Spans(after[j], t, b, k + 1)
    <3>1. PICK x \in LiveSessions, fp \in Fps : x = after[i] /\ fp = fps[j]
      BY <2>2, <2>5
    <3>2. Spans(x, t, b, k) /\ Text(fp) = t[k + 1]
      BY <2>5, <2>7, <3>1
    <3>3. Spans(Sessions!AddMessage(x, fp, FALSE), t, b, k + 1)
      BY <2>4, <3>2, SpansMore
    <3> QED
      BY <2>6, <3>1, <3>3
  <2> QED
    BY <2>3, <2>4, <2>8, <2>9
<1>6. m \in S
  <2> HIDE DEF S
  <2> QED
    BY <1>1, <1>4, <1>5, SetInduction
<1>7. Spans(after[m], t, b, n + m)
  BY <1>1, <1>6
<1> QED
  BY <1>3, <1>7 DEF m

--------------------------------------------------------------------------------
(* The chats.  No message is in two places, and none goes away.                      *)

Distinct ==
    \A c, d \in Chats : \A i \in 1..Len(chat[c]), j \in 1..Len(chat[d]) :
        chat[c][i] = chat[d][j] => c = d /\ i = j

TalkOK ==
    /\ Distinct
    /\ \A c \in Chats : \A i \in 1..Len(chat[c]), k \in Nat :
          /\ chat[c][i] = Customer(k) => k <= written
          /\ chat[c][i] = Reply(k) => k <= Len(sends)

\* How the chats grow.
Same == UNCHANGED <<chat, written, sends>>
Wrote(c) ==
    /\ chat' = [chat EXCEPT ![c] = Append(@, Customer(written + 1))]
    /\ written' = written + 1 /\ UNCHANGED sends
Replied ==
    /\ \/ UNCHANGED chat
       \/ open \in Chats /\ chat' = [chat EXCEPT ![open] = Append(@, Reply(Len(sends) + 1))]
    /\ UNCHANGED written /\ \E r \in SendRecords : sends' = Append(sends, r)

\* A step leaves the chats alone, or a customer writes, or a reply lands.
LEMMA TalkSteps ==
    ASSUME TypeInv, [Next]_vars
    PROVE  Same \/ (\E c \in Chats : Wrote(c)) \/ Replied
<1>1. CASE SendReply
  <2>1. PICK ok, landed \in BOOLEAN : Deliver(ok, landed)
    BY <1>1 DEF SendReply
  <2>2. open # NoChat => open \in Chats
    BY DEF TypeInv, TypeOK
  <2>3. UNCHANGED written /\ \E r \in SendRecords : sends' = Append(sends, r)
    BY <1>1, <2>1, DeliverIs DEF SendReply, Deliver
  <2> QED
    BY <2>1, <2>2, <2>3 DEF Replied, Deliver
<1>2. ASSUME NEW c \in Chats, Write(c) PROVE Wrote(c)
  BY <1>2 DEF Write, Wrote
<1>3. CASE Scan \/ ReadMessages \/ AskAgent \/ RecordReply \/ LoopEnds \/ Restart \/ Stop
  BY <1>3 DEF Scan, ReadMessages, AskAgent, RecordReply, LoopEnds, Restart, Stop, chatVars, Same
<1>4. CASE OpenContact \/ VerifyChat
  BY <1>4 DEF OpenContact, VerifyChat, Focus, Same
<1>5. CASE UNCHANGED vars
  BY <1>5 DEF vars, Same
<1> QED
  BY <1>1, <1>2, <1>3, <1>4, <1>5 DEF Next, Round

\* What was said stays said, and in its place.
Grows ==
    /\ {chat, chat'} \subseteq [Chats -> Seq(Messages)]
    /\ \A c \in Chats :
          /\ Len(chat[c]) \in Nat /\ Len(chat'[c]) \in Nat /\ Len(chat[c]) <= Len(chat'[c])
          /\ \A i \in 1..Len(chat[c]) : chat'[c][i] = chat[c][i]

\* One message more in one chat.
LEMMA OneMore ==
    ASSUME chat \in [Chats -> Seq(Messages)], NEW c \in Chats, NEW m,
           chat' = [chat EXCEPT ![c] = Append(@, m)]
    PROVE  \A d \in Chats :
              /\ Len(chat[d]) \in Nat
              /\ Len(chat'[d]) = IF d = c THEN Len(chat[d]) + 1 ELSE Len(chat[d])
              /\ \A i \in 1..Len(chat'[d]) :
                    \/ i \in 1..Len(chat[d]) /\ chat'[d][i] = chat[d][i]
                    \/ d = c /\ i = Len(chat[d]) + 1 /\ chat'[d][i] = m
<1> SUFFICES ASSUME NEW d \in Chats
             PROVE  /\ Len(chat[d]) \in Nat
                    /\ Len(chat'[d]) = IF d = c THEN Len(chat[d]) + 1 ELSE Len(chat[d])
                    /\ \A i \in 1..Len(chat'[d]) :
                          \/ i \in 1..Len(chat[d]) /\ chat'[d][i] = chat[d][i]
                          \/ d = c /\ i = Len(chat[d]) + 1 /\ chat'[d][i] = m
  OBVIOUS
<1>1. chat[d] \in Seq(Messages) /\ chat[d] \in Seq(Messages \cup {m}) /\ Len(chat[d]) \in Nat
  BY LenProperties
<1>2. CASE d = c
  <2>1. chat'[d] = Append(chat[d], m)
    BY <1>2
  <2>2. /\ Len(chat'[d]) = Len(chat[d]) + 1 /\ chat'[d][Len(chat[d]) + 1] = m
        /\ \A i \in 1..Len(chat[d]) : chat'[d][i] = chat[d][i]
    BY <1>1, <2>1, AppendProperties
  <2> QED
    BY <1>1, <1>2, <2>2
<1>3. CASE d # c
  BY <1>1, <1>3
<1> QED
  BY <1>2, <1>3

\* A message that is in no chat may be added to one.
LEMMA DistinctMore ==
    ASSUME chat \in [Chats -> Seq(Messages)], Distinct, NEW c \in Chats, NEW m,
           chat' = [chat EXCEPT ![c] = Append(@, m)],
           \A d \in Chats : \A i \in 1..Len(chat[d]) : chat[d][i] # m
    PROVE  Distinct'
<1>1. \A d \in Chats : \A i \in 1..Len(chat'[d]) :
         \/ i \in 1..Len(chat[d]) /\ chat'[d][i] = chat[d][i]
         \/ d = c /\ i = Len(chat[d]) + 1 /\ chat'[d][i] = m
  BY OneMore
<1> QED
  BY <1>1 DEF Distinct

\* No step takes anything from a chat, and what is added was in none.
LEMMA TalkNext ==
    ASSUME TypeInv, TalkOK, [Next]_vars
    PROVE  TalkOK' /\ Grows
<1>1. /\ chat \in [Chats -> Seq(Messages)] /\ chat' \in [Chats -> Seq(Messages)]
      /\ written \in Nat /\ sends \in Seq(SendRecords) /\ Len(sends) \in Nat
  <2>1. TypeInv'
    BY TypeNext
  <2>2. chat \in [Chats -> Seq(Messages)] /\ sends \in Seq(SendRecords) /\ written \in 0..MaxMessages
    BY DEF TypeInv, TypeOK
  <2>3. chat' \in [Chats -> Seq(Messages)]
    BY <2>1 DEF TypeInv, TypeOK
  <2> QED
    BY <2>2, <2>3, MonitorAssumption
<1>2. \A c \in Chats : Len(chat[c]) \in Nat
  BY <1>1, LenProperties
<1>3. ASSUME UNCHANGED chat, written' \in Nat, Len(sends') \in Nat,
             written <= written', Len(sends) <= Len(sends')
      PROVE  TalkOK' /\ Grows
  BY <1>1, <1>2, <1>3 DEF TalkOK, Distinct, Grows
<1>4. ASSUME NEW c \in Chats, NEW m, chat' = [chat EXCEPT ![c] = Append(@, m)],
             \A d \in Chats : \A i \in 1..Len(chat[d]) : chat[d][i] # m,
             written' \in Nat, Len(sends') \in Nat,
             written <= written', Len(sends) <= Len(sends'),
             \A k \in Nat : (m = Customer(k) => k <= written') /\ (m = Reply(k) => k <= Len(sends'))
      PROVE  TalkOK' /\ Grows
  <2>1. \A d \in Chats :
           /\ Len(chat'[d]) = IF d = c THEN Len(chat[d]) + 1 ELSE Len(chat[d])
           /\ \A i \in 1..Len(chat'[d]) :
                 \/ i \in 1..Len(chat[d]) /\ chat'[d][i] = chat[d][i]
                 \/ d = c /\ i = Len(chat[d]) + 1 /\ chat'[d][i] = m
    BY <1>1, <1>4, OneMore
  <2>2. Distinct'
    BY <1>1, <1>4, DistinctMore DEF TalkOK
  <2>3. ASSUME NEW d \in Chats, NEW i \in 1..Len(chat'[d]), NEW k \in Nat
        PROVE  /\ chat'[d][i] = Customer(k) => k <= written'
               /\ chat'[d][i] = Reply(k) => k <= Len(sends')
    <3>1. CASE i \in 1..Len(chat[d]) /\ chat'[d][i] = chat[d][i]
      <4>1. /\ chat[d][i] = Customer(k) => k <= written
            /\ chat[d][i] = Reply(k) => k <= Len(sends)
        BY <3>1 DEF TalkOK
      <4> QED
        BY <1>1, <1>4, <3>1, <4>1
    <3>2. CASE chat'[d][i] = m
      BY <1>4, <3>2
    <3> QED
      BY <2>1, <3>1, <3>2
  <2>4. Grows
    <3>1. ASSUME NEW d \in Chats
          PROVE  /\ Len(chat'[d]) \in Nat /\ Len(chat[d]) <= Len(chat'[d])
                 /\ \A i \in 1..Len(chat[d]) : chat'[d][i] = chat[d][i]
      <4>1. Len(chat'[d]) \in Nat /\ Len(chat[d]) <= Len(chat'[d])
        BY <1>2, <2>1
      <4>2. ASSUME NEW i \in 1..Len(chat[d]) PROVE chat'[d][i] = chat[d][i]
        <5>1. i \in 1..Len(chat'[d]) /\ i # Len(chat[d]) + 1
          BY <1>2, <4>1
        <5> QED
          BY <2>1, <5>1
      <4> QED
        BY <4>1, <4>2
    <3> QED
      BY <1>1, <1>2, <3>1 DEF Grows
  <2> QED
    BY <2>2, <2>3, <2>4 DEF TalkOK
<1>5. CASE Same
  BY <1>1, <1>3, <1>5 DEF Same
<1>6. ASSUME NEW c \in Chats, Wrote(c) PROVE TalkOK' /\ Grows
  <2>1. ~(written + 1 <= written) /\ written + 1 \in Nat /\ UNCHANGED sends /\ written' = written + 1
    BY <1>1, <1>6 DEF Wrote
  <2>2. \A d \in Chats : \A i \in 1..Len(chat[d]) : chat[d][i] # Customer(written + 1)
    BY <2>1 DEF TalkOK
  <2>3. \A k \in Nat : /\ Customer(written + 1) = Customer(k) => k <= written'
                       /\ Customer(written + 1) = Reply(k) => k <= Len(sends')
    BY <1>1, <2>1 DEF Customer, Reply
  <2>4. chat' = [chat EXCEPT ![c] = Append(@, Customer(written + 1))]
    BY <1>6 DEF Wrote
  <2>5. written' \in Nat /\ Len(sends') \in Nat /\ written <= written' /\ Len(sends) <= Len(sends')
    BY <1>1, <2>1
  <2> QED
    BY <1>4, <2>2, <2>3, <2>4, <2>5
<1>7. CASE Replied
  <2>1. Len(sends') = Len(sends) + 1 /\ UNCHANGED written
    BY <1>1, <1>7, AppendProperties DEF Replied
  <2>2. ~(Len(sends) + 1 <= Len(sends)) /\ Len(sends) + 1 \in Nat
    BY <1>1
  <2>3. \A d \in Chats : \A i \in 1..Len(chat[d]) : chat[d][i] # Reply(Len(sends) + 1)
    BY <2>2 DEF TalkOK
  <2>4. \A k \in Nat : /\ Reply(Len(sends) + 1) = Customer(k) => k <= written'
                       /\ Reply(Len(sends) + 1) = Reply(k) => k <= Len(sends')
    BY <1>1, <2>1 DEF Customer, Reply
  <2>5. written' \in Nat /\ Len(sends') \in Nat /\ written <= written' /\ Len(sends) <= Len(sends')
    BY <1>1, <2>1
  <2>6. CASE UNCHANGED chat
    BY <1>3, <2>5, <2>6
  <2>7. CASE open \in Chats /\ chat' = [chat EXCEPT ![open] = Append(@, Reply(Len(sends) + 1))]
    <3>1. PICK c \in Chats : chat' = [chat EXCEPT ![c] = Append(@, Reply(Len(sends) + 1))]
      BY <2>7
    <3> QED
      BY <1>4, <2>3, <2>4, <2>5, <3>1
  <2> QED
    BY <1>7, <2>6, <2>7 DEF Replied
<1> QED
  BY <1>5, <1>6, <1>7, TalkSteps

--------------------------------------------------------------------------------
(* Marks.  The session of an ID that never lost its mark spans its chat from where it *)
(* began to the mark, and everything answered under the ID lies before the mark.      *)

Asked == pc \in {"asking", "verifying", "sending"}

\* The loop has messages read under an ID that it has not answered yet.
Works(id) == Asked /\ Entry.id = id

\* A send under an ID in this life.
Mine(i, id) == sends[i].id = id /\ sends[i].life = life

\* The messages of a chat up to a place in it.
UpTo(c, n) == {chat[c][i] : i \in 1..n}

\* The session of an ID under which nothing was read.
Unread(id) ==
    /\ from[id] = Nowhere
    /\ session[id] # <<>> => session[id].history = <<>> /\ session[id].lastMessageID = NoFp

\* The session of an ID whose mark is at place n of its chat.
Holds(id, n) ==
    /\ from[id][1] \in Chats /\ from[id][2] \in Nat \ {0}
    /\ n \in Nat /\ from[id][2] <= n /\ n <= Len(chat[from[id][1]])
    /\ session[id] # <<>> /\ session[id].lastMessageID # NoFp
    /\ Text(session[id].lastMessageID) = chat[from[id][1]][n]
    /\ Spans(session[id], chat[from[id][1]], from[id][2], n)

MarkAt(id, n) == (n = 0 /\ Unread(id)) \/ Holds(id, n)

\* What was answered and is to be answered under an ID is in S.
AnswersIn(id, S) ==
    /\ \A i \in DOMAIN sends : Mine(i, id) => Texts(sends[i].answers) \subseteq S
    /\ Works(id) => Texts(batch) \subseteq S

\* None of it is answered twice.
AnswersApart(id) ==
    /\ \A i, j \in DOMAIN sends : (i < j /\ Mine(i, id) /\ Mine(j, id))
           => Texts(sends[i].answers) \cap Texts(sends[j].answers) = {}
    /\ Works(id) => \A i \in DOMAIN sends : Mine(i, id)
           => Texts(sends[i].answers) \cap Texts(batch) = {}

MarkOK ==
    \A id \in IDs \ lost : \E n \in Nat : MarkAt(id, n) /\ AnswersIn(id, UpTo(from[id][1], n))

LivesOK == \A i \in DOMAIN sends : sends[i].life <= life

WholeInv == TalkOK /\ LivesOK /\ MarkOK /\ \A id \in IDs \ lost : AnswersApart(id)

\* The operations that leave history and mark alone.
SameMark(s, t) == t.lastMessageID = s.lastMessageID /\ t.history = s.history

LEMMA EditsKeepMark ==
    ASSUME NEW s \in KeptSessions, NEW b \in BOOLEAN, NEW t
    PROVE  /\ SameMark(s, Sessions!SetPendingReply(s, b))
           /\ SameMark(s, Sessions!SetConversationRef(s))
           /\ SameMark(s, Sessions!ClearPendingReply(Sessions!AddReply(s, t, TRUE)))
  BY DEF KeptSessions, SessionRecords, SameMark, Sessions!SetPendingReply,
         Sessions!SetConversationRef, Sessions!ClearPendingReply, Sessions!AddReply

\* The mark of an ID stays where it is, or its session is new.
Stays(id) ==
    /\ from'[id] = from[id]
    /\ \/ session[id] # <<>> /\ session'[id] # <<>> /\ SameMark(session[id], session'[id])
       \/ /\ session[id] = <<>>
          /\ session'[id] = <<>> \/ SameMark(Sessions!NewSession, session'[id])

\* What was said from one place to another does not change.
LEMMA PastKept ==
    ASSUME Grows, NEW c \in Chats, NEW n \in Nat, n <= Len(chat[c])
    PROVE  /\ n <= Len(chat'[c]) /\ UpTo(c, n)' = UpTo(c, n)
           /\ n # 0 => chat'[c][n] = chat[c][n]
           /\ \A b \in Nat \ {0} : b <= n => SubSeq(chat'[c], b, n) = SubSeq(chat[c], b, n)
<1>1. /\ chat[c] \in Seq(Messages) /\ chat'[c] \in Seq(Messages)
      /\ Len(chat[c]) \in Nat /\ Len(chat'[c]) \in Nat /\ Len(chat[c]) <= Len(chat'[c])
      /\ \A i \in 1..n : chat'[c][i] = chat[c][i]
  BY DEF Grows
<1>2. UpTo(c, n)' = UpTo(c, n)
  BY <1>1 DEF UpTo
<1>3. n <= Len(chat'[c]) /\ (n # 0 => chat'[c][n] = chat[c][n])
  BY <1>1
<1>4. ASSUME NEW b \in Nat \ {0}, b <= n PROVE SubSeq(chat'[c], b, n) = SubSeq(chat[c], b, n)
  <2>1. PICK t \in Seq(Messages), u \in Seq(Messages) : t = chat[c] /\ u = chat'[c]
    BY <1>1
  <2>2. n <= Len(t) /\ n <= Len(u) /\ b <= n + 1 /\ \A i \in 1..n : u[i] = t[i]
    BY <1>1, <1>4, <2>1
  <2>3. /\ SubSeq(t, b, n) \in Seq(Messages) /\ Len(SubSeq(t, b, n)) = n - b + 1
        /\ \A i \in 1..n - b + 1 : SubSeq(t, b, n)[i] = t[b + i - 1]
    BY <2>2, PartIs
  <2>4. /\ SubSeq(u, b, n) \in Seq(Messages) /\ Len(SubSeq(u, b, n)) = n - b + 1
        /\ \A i \in 1..n - b + 1 : SubSeq(u, b, n)[i] = u[b + i - 1]
    BY <2>2, PartIs
  <2>5. \A i \in 1..n - b + 1 : b + i - 1 \in 1..n
    BY <1>4
  <2>6. SubSeq(u, b, n) = SubSeq(t, b, n)
    BY <2>2, <2>3, <2>4, <2>5, SeqEqual
  <2> QED
    BY <2>1, <2>6
<1> QED
  BY <1>2, <1>3, <1>4

\* A step that leaves the mark of an ID where it is keeps it true.
LEMMA MarkKept ==
    ASSUME Grows, NEW id \in IDs, Stays(id), NEW n \in Nat, MarkAt(id, n)
    PROVE  MarkAt(id, n)' /\ UpTo(from[id][1], n)' = UpTo(from[id][1], n)
<1>1. PICK f : f = from[id] /\ f = from'[id]
  BY DEF Stays
<1>2. CASE n = 0 /\ Unread(id)
  <2>1. session'[id] # <<>> => session'[id].history = <<>> /\ session'[id].lastMessageID = NoFp
    BY <1>2, NewSessionType DEF Unread, Stays, SameMark
  <2>2. Unread(id)'
    BY <1>1, <1>2, <2>1 DEF Unread
  <2>3. UpTo(from[id][1], n)' = {} /\ UpTo(from[id][1], n) = {}
    BY <1>2 DEF UpTo
  <2> QED
    BY <1>2, <2>2, <2>3 DEF MarkAt
<1>3. CASE Holds(id, n)
  <2>1. PICK c \in Chats, b \in Nat \ {0} : c = f[1] /\ b = f[2]
    BY <1>1, <1>3 DEF Holds
  <2>2. /\ b <= n /\ n <= Len(chat[c]) /\ session[id] # <<>> /\ session[id].lastMessageID # NoFp
        /\ Text(session[id].lastMessageID) = chat[c][n] /\ Spans(session[id], chat[c], b, n)
    BY <1>1, <1>3, <2>1 DEF Holds
  <2>3. /\ n <= Len(chat'[c]) /\ UpTo(c, n)' = UpTo(c, n) /\ chat'[c][n] = chat[c][n]
        /\ SubSeq(chat'[c], b, n) = SubSeq(chat[c], b, n)
    <3>1. n <= Len(chat[c]) /\ n # 0
      BY <2>2
    <3>2. /\ n <= Len(chat'[c]) /\ UpTo(c, n)' = UpTo(c, n)
          /\ n # 0 => chat'[c][n] = chat[c][n]
          /\ \A a \in Nat \ {0} : a <= n => SubSeq(chat'[c], a, n) = SubSeq(chat[c], a, n)
      BY <3>1, PastKept
    <3> QED
      BY <2>2, <3>1, <3>2
  <2>4. session'[id] # <<>> /\ session'[id].lastMessageID = session[id].lastMessageID
          /\ session'[id].history = session[id].history
    BY <2>2 DEF Stays, SameMark
  <2>5. Spans(session'[id], chat'[c], b, n)
    BY <2>2, <2>3, <2>4 DEF Spans
  <2>6. Holds(id, n)'
    BY <1>1, <2>1, <2>2, <2>3, <2>4, <2>5 DEF Holds
  <2>7. UpTo(from[id][1], n)' = UpTo(from[id][1], n)
    BY <1>1, <2>1, <2>3 DEF UpTo
  <2> QED
    BY <2>6, <2>7 DEF MarkAt
<1> QED
  BY <1>2, <1>3 DEF MarkAt

--------------------------------------------------------------------------------
(* A reading that finds something new.                                              *)

\* What is new is what was read, from some place on: from the first one if there is no mark,
\* and from after the mark if it is in sight.
LEMMA NewIs ==
    ASSUME NEW fps \in Seq(Fps), NEW s, NewMessages(s, fps) # <<>>
    PROVE  \E a \in 0..Len(fps) :
              /\ Len(NewMessages(s, fps)) = Len(fps) - a
              /\ \A i \in 1..Len(fps) - a : NewMessages(s, fps)[i] = fps[a + i]
              /\ s.lastMessageID = NoFp => a = 0
              /\ (s.lastMessageID # NoFp /\ \E i \in DOMAIN fps : fps[i] = s.lastMessageID)
                     => a # 0 /\ fps[a] = s.lastMessageID
<1> DEFINE mark == s.lastMessageID
           hits == {i \in DOMAIN fps : fps[i] = mark}
           at == CHOOSE i \in hits : \A j \in hits : j <= i
           new == NewMessages(s, fps)
<1>1. Len(fps) \in Nat /\ DOMAIN fps = 1..Len(fps) /\ \A i \in 1..Len(fps) : fps[i] \in Fps
  BY LenProperties, ElementOfSeq
<1>2. new = FilterNew(fps, mark)
  BY DEF NewMessages
<1>3. CASE mark = NoFp \/ hits = {}
  <2>1. new = fps
    BY <1>2, <1>3 DEF FilterNew
  <2>2. /\ Len(new) = Len(fps) - 0 /\ \A i \in 1..Len(fps) - 0 : new[i] = fps[0 + i]
        /\ 0 \in 0..Len(fps)
    BY <1>1, <2>1
  <2> HIDE DEF new
  <2> QED
    BY <1>3, <2>2 DEF new
<1>4. CASE ~(mark = NoFp \/ hits = {})
  <2>1. new = SubSeq(fps, at + 1, Len(fps))
    BY <1>2, <1>4 DEF FilterNew
  <2>2. at \in hits
    <3>1. hits \in SUBSET (1..Len(fps))
      BY <1>1
    <3> HIDE DEF hits
    <3>2. \E i \in hits : \A j \in hits : j <= i
      BY <1>1, <1>4, <3>1, LargestExists
    <3> QED
      BY <3>2
  <2>3. at \in 1..Len(fps) /\ fps[at] = mark
    BY <1>1, <2>2
  <2> HIDE DEF at, new
  <2>4. at + 1 \in Int /\ Len(fps) \in Int /\ \A i \in at + 1..Len(fps) : fps[i] \in Fps
    BY <1>1, <2>3
  <2>5. /\ Len(new) = IF at + 1 <= Len(fps) THEN Len(fps) - (at + 1) + 1 ELSE 0
        /\ \A i \in 1..Len(fps) - (at + 1) + 1 : new[i] = fps[at + 1 + i - 1]
    BY <2>1, <2>4, SubSeqProperties
  <2>6. Len(new) = Len(fps) - at /\ \A i \in 1..Len(fps) - at : new[i] = fps[at + i]
    <3>1. Len(new) = Len(fps) - at
      <4>1. PICK l \in Nat : l = Len(fps) /\ at \in 1..l
        BY <1>1, <2>3
      <4>2. PICK p \in 1..l : p = at
        BY <4>1
      <4>3. Len(new) = IF p + 1 <= l THEN l - (p + 1) + 1 ELSE 0
        BY <2>5, <4>1, <4>2
      <4>4. (IF p + 1 <= l THEN l - (p + 1) + 1 ELSE 0) = l - p
        BY <4>1, <4>2
      <4> QED
        BY <4>1, <4>2, <4>3, <4>4
    <3>2. ASSUME NEW i \in 1..Len(fps) - at PROVE new[i] = fps[at + i]
      <4>1. i \in 1..Len(fps) - (at + 1) + 1 /\ at + 1 + i - 1 = at + i
        BY <1>1, <2>3
      <4> QED
        BY <2>5, <4>1
    <3> QED
      BY <3>1, <3>2
  <2>7. at \in 0..Len(fps) /\ at # 0
    BY <1>1, <2>3
  <2> QED
    BY <1>4, <2>3, <2>6, <2>7 DEF new
<1> QED
  BY <1>3, <1>4

\* Where the session of the entry goes on from, after a reading of chat c that goes on from the
\* mark: it spans c from b to n0, and the new messages are the next ones of c.
GoesOn(c, b, n0, new) ==
    /\ c \in Chats /\ b \in Nat \ {0} /\ n0 \in Nat /\ b <= n0 + 1
    /\ n0 + Len(new) <= Len(chat[c])
    /\ \A i \in 1..Len(new) : Text(new[i]) = chat[c][n0 + i]
    /\ Spans(Current, chat[c], b, n0)

\* A reading under an ID that does not lose its mark goes on from it.
LEMMA ReadGoesOn ==
    ASSUME TypeInv, TalkOK, ReadMessages, ~(NextEntry /\ UNCHANGED <<session, track>>),
           Entry.id \notin lost', NEW n \in Nat, MarkAt(Entry.id, n)
    PROVE  \E b \in Nat \ {0}, n0 \in Nat :
              /\ GoesOn(open, b, n0, batch')
              /\ from'[Entry.id] = <<open, b>>
              /\ n = 0 \/ (n = n0 /\ from[Entry.id][1] = open)
<1> DEFINE fps == IF open = NoChat THEN <<>> ELSE Read(open)
           new == NewMessages(Current, fps)
           mark == Current.lastMessageID
           k == Above(open)
<1>1. /\ fps \in Seq(Fps) /\ new # <<>> /\ batch' = new
      /\ Track(Entry.id, mark, open, fps)
      /\ Current \in KeptSessions /\ session[Entry.id] = Current
  BY ReadType
<1>2. open \in Chats
  <2>1. SUFFICES ASSUME open = NoChat PROVE FALSE
    BY DEF TypeInv, TypeOK
  <2> QED
    BY <1>1, <2>1, NothingNew
<1>3. chat[open] \in Seq(Messages) /\ Len(chat[open]) \in Nat
  BY <1>2, LenProperties DEF TypeInv, TypeOK
<1>4. fps = Read(open)
  BY <1>2, MonitorAssumption
<1>5. /\ k \in Nat /\ k + Len(fps) <= Len(chat[open])
      /\ \A i \in 1..Len(fps) : fps[i] = <<i, chat[open][k + i]>>
  BY <1>2, <1>3, <1>4, ReadIs
<1>6. Len(fps) \in Nat /\ DOMAIN fps = 1..Len(fps)
  BY <1>1, LenProperties
<1> HIDE DEF fps, k
<1>7. PICK a \in 0..Len(fps) :
         /\ Len(new) = Len(fps) - a
         /\ \A i \in 1..Len(fps) - a : new[i] = fps[a + i]
         /\ mark = NoFp => a = 0
         /\ (mark # NoFp /\ \E i \in DOMAIN fps : fps[i] = mark) => a # 0 /\ fps[a] = mark
  BY <1>1, NewIs
<1> HIDE DEF new
<1>8. /\ k + a \in Nat /\ (k + a) + Len(new) <= Len(chat[open])
      /\ \A i \in 1..Len(new) : Text(new[i]) = chat[open][(k + a) + i]
  <2>1. k + a \in Nat /\ (k + a) + Len(new) <= Len(chat[open])
    BY <1>3, <1>5, <1>6, <1>7
  <2>2. ASSUME NEW i \in 1..Len(new) PROVE Text(new[i]) = chat[open][(k + a) + i]
    <3>1. new[i] = fps[a + i] /\ a + i \in 1..Len(fps) /\ k + (a + i) = (k + a) + i
      BY <1>5, <1>6, <1>7
    <3>2. fps[a + i] = <<a + i, chat[open][k + (a + i)]>>
      BY <1>5, <3>1
    <3> QED
      BY <3>1, <3>2 DEF Text
  <2> QED
    BY <2>1, <2>2
<1>9. CASE mark = NoFp
  <2>1. from'[Entry.id] = <<open, k + 1>>
    <3>1. from' = [from EXCEPT ![Entry.id] = <<open, k + 1>>]
      BY <1>1, <1>9 DEF Track, Above, k
    <3>2. Entry.id \in IDs /\ DOMAIN from = IDs
      BY EntryType DEF ReadMessages, Working, TypeInv, TypeOK
    <3> QED
      BY <3>1, <3>2
  <2>2. n = 0 /\ Current.history = <<>>
    <3>1. ~Holds(Entry.id, n)
      BY <1>1, <1>9 DEF Holds
    <3>2. n = 0 /\ Unread(Entry.id)
      BY <3>1 DEF MarkAt
    <3>3. Current # <<>>
      BY <1>1, KeptIsLive, SessionNotEmpty
    <3> QED
      BY <1>1, <3>2, <3>3 DEF Unread
  <2>3. Spans(Current, chat[open], k + 1, k)
    <3>1. PICK t \in Seq(Messages), b \in Nat \ {0}, m \in Nat :
             t = chat[open] /\ b = k + 1 /\ m = k /\ m <= Len(t) /\ b = m + 1
      BY <1>3, <1>5, <1>6
    <3>2. SubSeq(t, b, m) \in Seq(Messages) /\ Len(SubSeq(t, b, m)) = 0
      BY <3>1, PartIs
    <3>3. SubSeq(t, b, m) = <<>>
      BY <3>2, EmptySeq
    <3>4. Newest(<<>>, MaxHistory) = <<>>
      <4>1. PICK e \in Seq(Messages) : e = <<>> /\ Len(e) = 0
        BY EmptySeq
      <4>2. MaxHistory \in Nat
        BY MonitorAssumption
      <4>3. /\ Newest(e, MaxHistory) \in Seq(Messages)
            /\ Len(Newest(e, MaxHistory)) = IF Len(e) > MaxHistory THEN MaxHistory ELSE Len(e)
        BY <4>2, NewestIs
      <4>4. Len(Newest(e, MaxHistory)) = 0
        BY <4>1, <4>2, <4>3
      <4> QED
        BY <4>1, <4>3, <4>4, EmptySeq
    <3>5. TextsOf(<<>>) = <<>>
      BY DEF TextsOf
    <3> QED
      BY <2>2, <3>1, <3>3, <3>4, <3>5 DEF Spans
  <2>4. a = 0 /\ k + a = k
    BY <1>5, <1>7, <1>9
  <2>5. GoesOn(open, k + 1, k, new)
    BY <1>2, <1>5, <1>8, <2>3, <2>4 DEF GoesOn
  <2> QED
    BY <1>1, <1>5, <2>1, <2>2, <2>5
<1>10. CASE mark # NoFp
  <2>1. UNCHANGED from /\ \E i \in DOMAIN fps : fps[i] = mark
    BY <1>1, <1>10 DEF Track
  <2>2. a # 0 /\ fps[a] = mark /\ a \in 1..Len(fps)
    BY <1>6, <1>7, <1>10, <2>1
  <2>3. Holds(Entry.id, n)
    <3>1. ~Unread(Entry.id)
      BY <1>1, <1>10, KeptIsLive, SessionNotEmpty DEF Unread
    <3> QED
      BY <3>1 DEF MarkAt
  <2>4. PICK c \in Chats, b \in Nat \ {0} :
           /\ c = from[Entry.id][1] /\ b = from[Entry.id][2]
           /\ b <= n /\ n <= Len(chat[c]) /\ Text(mark) = chat[c][n]
           /\ Spans(Current, chat[c], b, n)
    BY <1>1, <2>3 DEF Holds
  <2>5. c = open /\ n = k + a
    <3>1. fps[a] = <<a, chat[open][k + a]>>
      BY <1>5, <2>2
    <3>2. Text(mark) = chat[open][k + a]
      BY <2>2, <3>1 DEF Text
    <3>3. k + a \in 1..Len(chat[open])
      <4> DEFINE l == Len(chat[open])
                 r == Len(fps)
      <4>1. k \in Nat /\ l \in Nat /\ r \in Nat /\ a \in 1..r /\ k + r <= l
        BY <1>3, <1>5, <1>6, <2>2
      <4> HIDE DEF l, r
      <4> QED
        BY <4>1 DEF l
    <3>4. n \in 1..Len(chat[c])
      <4>1. chat[c] \in Seq(Messages)
        BY DEF TypeInv, TypeOK
      <4>2. Len(chat[c]) \in Nat
        BY <4>1, LenProperties
      <4> QED
        BY <2>4, <4>2
    <3>5. chat[c][n] = chat[open][k + a]
      BY <2>4, <3>2
    <3> QED
      BY <1>2, <3>3, <3>4, <3>5 DEF TalkOK, Distinct
  <2>6. from'[Entry.id] = <<open, b>>
    <3>1. Entry.id \in IDs /\ from \in [IDs -> (Chats \cup {NoChat}) \X Nat]
      BY EntryType DEF ReadMessages, Working, TypeInv, TypeOK
    <3>2. from[Entry.id] \in (Chats \cup {NoChat}) \X Nat
      BY <3>1
    <3>3. PICK f : f = from[Entry.id] /\ f \in (Chats \cup {NoChat}) \X Nat
      BY <3>2
    <3>4. f = <<f[1], f[2]>>
      BY <3>3
    <3>5. f[1] = open /\ f[2] = b /\ from'[Entry.id] = f
      BY <2>1, <2>4, <2>5, <3>3
    <3> QED
      BY <3>4, <3>5
  <2>7. GoesOn(open, b, n, new)
    <3>1. /\ n + Len(new) <= Len(chat[open])
          /\ \A i \in 1..Len(new) : Text(new[i]) = chat[open][n + i]
      BY <1>8, <2>5
    <3>2. b <= n + 1 /\ Spans(Current, chat[open], b, n)
      BY <2>4, <2>5
    <3> QED
      BY <1>2, <3>1, <3>2 DEF GoesOn
  <2> QED
    BY <1>1, <2>4, <2>5, <2>6, <2>7
<1> QED
  BY <1>9, <1>10


\* A reading that finds something takes the mark of its ID on, past all that was answered under
\* it and to the last of what is to be answered.
LEMMA ReadMark ==
    ASSUME TypeInv, TalkOK, ReadMessages, ~(NextEntry /\ UNCHANGED <<session, track>>),
           NEW id, id = Entry.id, id \notin lost', NEW n \in Nat, MarkAt(id, n)
    PROVE  \E m \in Nat :
              /\ MarkAt(id, m)'
              /\ UpTo(from[id][1], n) \subseteq UpTo(from[id][1], m)'
              /\ Texts(batch)' \subseteq UpTo(from[id][1], m)'
              /\ Texts(batch)' \cap UpTo(from[id][1], n) = {}
<1> DEFINE fps == IF open = NoChat THEN <<>> ELSE Read(open)
           found == NewMessages(Current, fps)
           sess == Sessions!MarkAsRead(Sessions!AddMessages(Current, found), Last(found))
<1>1. /\ found \in Seq(Fps) /\ found # <<>> /\ batch' = found
      /\ session' = [session EXCEPT ![Entry.id] = sess]
      /\ Current \in KeptSessions /\ sess \in KeptSessions
  BY ReadType
<1>2. PICK new \in Seq(Fps), s \in LiveSessions : new = found /\ s = Current
  BY <1>1, KeptIsLive
<1>3. PICK b \in Nat \ {0}, k \in Nat :
         /\ GoesOn(open, b, k, batch')
         /\ from'[Entry.id] = <<open, b>>
         /\ n = 0 \/ (n = k /\ from[Entry.id][1] = open)
  BY ReadGoesOn
<1>4. PICK t \in Seq(Messages), c \in Chats : t = chat[c] /\ c = open
  BY <1>3 DEF GoesOn, TypeInv, TypeOK
<1>5. /\ batch' = new /\ new # <<>>
      /\ session'[id] = Sessions!MarkAsRead(Sessions!AddMessages(s, new), Last(new))
      /\ session'[id] \in KeptSessions
  <2>1. Entry.id \in IDs /\ DOMAIN session = IDs
    BY EntryType DEF ReadMessages, Working, TypeInv, TypeOK
  <2>2. session'[id] = sess
    BY <1>1, <2>1
  <2> QED
    BY <1>1, <1>2, <2>2
<1> HIDE DEF fps, found, sess
<1>6. /\ b <= k + 1 /\ k + Len(new) <= Len(t) /\ Spans(s, t, b, k)
      /\ \A i \in 1..Len(new) : Text(new[i]) = t[k + i]
  BY <1>2, <1>3, <1>4, <1>5 DEF GoesOn
<1>7. UNCHANGED <<chat, open>>
  BY DEF ReadMessages, chatVars
<1>8. Len(new) \in Nat \ {0} /\ Len(t) \in Nat /\ DOMAIN new = 1..Len(new)
        /\ new[Len(new)] \in Fps
  BY <1>5, LenProperties, EmptySeq, ElementOfSeq
<1>9. \A i, j \in 1..Len(t) : t[i] = t[j] => i = j
  BY <1>4 DEF TalkOK, Distinct
<1>10. PICK m \in Nat : m = k + Len(new) /\ b <= m /\ m <= Len(t) /\ k <= m
  <2>1. k + Len(new) \in Nat /\ b <= k + Len(new) /\ k <= k + Len(new)
    BY <1>6, <1>8
  <2> QED
    BY <1>6, <2>1
<1>11. Spans(Sessions!AddMessages(s, new), t, b, m)
  BY <1>6, <1>9, <1>10, SpansAll
<1>12. /\ session'[id].history = Sessions!AddMessages(s, new).history
       /\ session'[id].lastMessageID = Last(new)
  <2>1. PICK r \in LiveSessions : r = Sessions!AddMessages(s, new)
    BY AddMessagesType
  <2>2. session'[id] = Sessions!MarkAsRead(r, Last(new))
    BY <1>5, <2>1
  <2> QED
    BY <2>1, <2>2 DEF Sessions!MarkAsRead, LiveSessions, LiveRecords
<1>13. Last(new) # NoFp /\ Text(Last(new)) = t[m]
  <2>1. Last(new) = new[Len(new)]
    BY DEF Last
  <2>2. NoFp \notin Fps
    BY DEF NoFp, Fps
  <2>3. Text(new[Len(new)]) = t[k + Len(new)]
    BY <1>6, <1>8
  <2> QED
    BY <1>8, <1>10, <2>1, <2>2, <2>3
<1>14. from'[id] = <<c, b>> /\ chat'[c] = t
  BY <1>3, <1>4, <1>7
<1>15. Holds(id, m)'
  <2>1. from'[id][1] = c /\ from'[id][2] = b
    BY <1>14
  <2>2. session'[id] # <<>>
    BY <1>5, KeptIsLive, SessionNotEmpty
  <2>3. Spans(session'[id], t, b, m)
    BY <1>11, <1>12 DEF Spans
  <2> QED
    BY <1>10, <1>12, <1>13, <1>14, <2>1, <2>2, <2>3 DEF Holds
<1>16. UpTo(from[id][1], m)' = {t[i] : i \in 1..m}
  BY <1>14 DEF UpTo
<1>17. UpTo(from[id][1], n) \subseteq {t[i] : i \in 1..k}
  <2>1. CASE n = 0
    BY <2>1 DEF UpTo
  <2>2. CASE n = k /\ from[id][1] = c
    BY <1>4, <2>2 DEF UpTo
  <2> QED
    BY <1>3, <1>4, <2>1, <2>2
<1>18. ASSUME NEW x \in Texts(batch)'
       PROVE  \E i \in k + 1..m : x = t[i]
  <2>1. Texts(batch)' = {Text(new[i]) : i \in DOMAIN new}
    BY <1>5 DEF Texts
  <2>2. PICK i \in 1..Len(new) : x = Text(new[i])
    BY <1>8, <1>18, <2>1
  <2>3. x = t[k + i] /\ k + i \in k + 1..m
    BY <1>6, <1>8, <1>10, <2>2
  <2> QED
    BY <2>3
<1>19. Texts(batch)' \subseteq UpTo(from[id][1], m)'
  <2>1. \A i \in k + 1..m : i \in 1..m
    OBVIOUS
  <2> QED
    BY <1>16, <1>18, <2>1
<1>20. Texts(batch)' \cap UpTo(from[id][1], n) = {}
  <2>1. SUFFICES ASSUME NEW x \in Texts(batch)', x \in UpTo(from[id][1], n) PROVE FALSE
    OBVIOUS
  <2>2. PICK i \in k + 1..m : x = t[i]
    BY <1>18
  <2>3. PICK j \in 1..k : x = t[j]
    BY <1>17, <2>1
  <2>4. i \in 1..Len(t) /\ j \in 1..Len(t) /\ i # j
    BY <1>8, <1>10
  <2> QED
    BY <1>9, <2>2, <2>3, <2>4
<1>21. UpTo(from[id][1], n) \subseteq UpTo(from[id][1], m)'
  <2>1. \A i \in 1..k : i \in 1..m
    BY <1>10
  <2> QED
    BY <1>16, <1>17, <2>1
<1> QED
  BY <1>15, <1>19, <1>20, <1>21 DEF MarkAt

\* It leaves the marks of the others where they are.
LEMMA ReadStays ==
    ASSUME TypeInv, ReadMessages, ~(NextEntry /\ UNCHANGED <<session, track>>)
    PROVE  lost \subseteq lost' /\ \A id \in IDs : id # Entry.id => Stays(id)
<1> DEFINE fps == IF open = NoChat THEN <<>> ELSE Read(open)
           new == NewMessages(Current, fps)
           s == Sessions!MarkAsRead(Sessions!AddMessages(Current, new), Last(new))
<1>1. /\ session' = [session EXCEPT ![Entry.id] = s]
      /\ Track(Entry.id, Current.lastMessageID, open, fps)
  BY ReadType
<1>2. DOMAIN session = IDs /\ from \in [IDs -> (Chats \cup {NoChat}) \X Nat]
  BY DEF TypeInv, TypeOK
<1> HIDE DEF s, fps
<1>3. lost \subseteq lost'
  BY <1>1 DEF Track
<1>4. ASSUME NEW id \in IDs, id # Entry.id PROVE Stays(id)
  <2>1. session'[id] = session[id]
    BY <1>1, <1>2, <1>4
  <2>2. from'[id] = from[id]
    BY <1>1, <1>2, <1>4 DEF Track
  <2> QED
    BY <2>1, <2>2 DEF Stays, SameMark
<1> QED
  BY <1>3, <1>4

\* All steps but a reading that finds something and a restart leave the marks where they are.
LEMMA MarkSteps ==
    ASSUME TypeInv, [Next]_vars
    PROVE  \/ UNCHANGED lost /\ \A id \in IDs : Stays(id)
           \/ ReadMessages /\ ~(NextEntry /\ UNCHANGED <<session, track>>)
           \/ Restart
<1> DEFINE AllStay == UNCHANGED lost /\ \A id \in IDs : Stays(id)
<1>0. ASSUME UNCHANGED <<session, track>> PROVE AllStay
  BY <1>0 DEF Stays, SameMark, track
<1>1. ASSUME NEW s \in KeptSessions, pc \in Working, session' = [session EXCEPT ![Entry.id] = s],
             NEW old, old = session[Entry.id], UNCHANGED track,
             SameMark(IF old = <<>> THEN Sessions!NewSession ELSE old, s)
      PROVE  AllStay
  <2>1. Entry.id \in IDs /\ DOMAIN session = IDs /\ s # <<>>
    BY <1>1, EntryType, KeptIsLive, SessionNotEmpty DEF TypeInv, TypeOK
  <2>2. UNCHANGED lost /\ UNCHANGED from
    BY <1>1 DEF track
  <2>3. ASSUME NEW id \in IDs PROVE Stays(id)
    <3>1. CASE id = Entry.id
      <4>1. session'[id] = s /\ session[id] = old
        BY <1>1, <2>1, <3>1
      <4> QED
        BY <1>1, <2>1, <2>2, <4>1 DEF Stays
    <3>2. CASE id # Entry.id
      <4>1. session'[id] = session[id]
        BY <1>1, <2>1, <3>2
      <4> QED
        BY <2>2, <4>1 DEF Stays, SameMark
    <3> QED
      BY <3>1, <3>2
  <2> QED
    BY <2>2, <2>3
<1> SUFFICES \/ AllStay
             \/ ReadMessages /\ ~(NextEntry /\ UNCHANGED <<session, track>>)
             \/ Restart
  OBVIOUS
<1> HIDE DEF AllStay
<1>2. CASE OpenContact
  <2>1. pc \in Working /\ UNCHANGED track
    BY <1>2 DEF OpenContact, Working
  <2>2. PICK was : was = session[Entry.id]
    OBVIOUS
  <2> DEFINE old == IF was = <<>> THEN Sessions!NewSession ELSE was
             s == Sessions!SetConversationRef(old)
  <2>3. session' = [session EXCEPT ![Entry.id] = s] \/ UNCHANGED session
    BY <1>2, <2>2 DEF OpenContact
  <2>4. old \in KeptSessions
    BY <2>1, <2>2, EntryType, KeptType, NewSessionType DEF TypeInv, TypeOK
  <2>5. s \in KeptSessions /\ SameMark(old, s)
    BY <2>4, FlagTypes, EditsKeepMark
  <2>6. ASSUME session' = [session EXCEPT ![Entry.id] = s] PROVE AllStay
    <3> HIDE DEF s
    <3>1. SameMark(IF was = <<>> THEN Sessions!NewSession ELSE was, s)
      BY <2>5
    <3> QED
      BY <1>1, <2>1, <2>2, <2>5, <2>6, <3>1
  <2> QED
    BY <1>0, <2>1, <2>3, <2>6
<1>3. ASSUME NEW s \in KeptSessions, pc \in Working, session' = [session EXCEPT ![Entry.id] = s],
             Current \in KeptSessions, session[Entry.id] = Current, UNCHANGED track,
             SameMark(Current, s)
      PROVE  AllStay
  <2>1. PICK old : old = Current
    OBVIOUS
  <2>2. old # <<>>
    BY <1>3, <2>1, KeptIsLive, SessionNotEmpty
  <2>3. SameMark(IF old = <<>> THEN Sessions!NewSession ELSE old, s)
    BY <1>3, <2>1, <2>2
  <2> QED
    BY <1>1, <1>3, <2>1, <2>3
<1>4. CASE AskAgent
  <2>1. pc \in Working /\ Current \in KeptSessions /\ session[Entry.id] = Current
    BY <1>4, CurrentType DEF AskAgent, Working
  <2>2. UNCHANGED track
    BY <1>4 DEF AskAgent
  <2>3. ASSUME NEW b \in BOOLEAN,
               session' = [session EXCEPT ![Entry.id] = Sessions!SetPendingReply(@, b)]
        PROVE  AllStay
    <3> DEFINE s == Sessions!SetPendingReply(Current, b)
    <3>1. s \in KeptSessions /\ SameMark(Current, s)
      BY <2>1, FlagTypes, EditsKeepMark
    <3>2. session' = [session EXCEPT ![Entry.id] = s]
      BY <2>1, <2>3
    <3> HIDE DEF s
    <3> QED
      BY <1>3, <2>1, <2>2, <3>1, <3>2
  <2>4. \/ UNCHANGED session
        \/ session' = [session EXCEPT ![Entry.id] = Sessions!SetPendingReply(@, FALSE)]
        \/ session' = [session EXCEPT ![Entry.id] = Sessions!SetPendingReply(@, TRUE)]
    BY <1>4 DEF AskAgent
  <2> QED
    BY <1>0, <2>2, <2>3, <2>4
<1>5. CASE RecordReply
  <2>1. pc \in Working /\ Current \in KeptSessions /\ session[Entry.id] = Current
    BY <1>5, CurrentType DEF RecordReply, Working
  <2>2. UNCHANGED track
    BY <1>5 DEF RecordReply
  <2> DEFINE s == Sessions!ClearPendingReply(Sessions!AddReply(Current, TaskID(Len(sends)), TRUE))
  <2>3. s \in KeptSessions /\ SameMark(Current, s)
    BY <1>5, <2>1, RecordType, AddReplyType, EditsKeepMark
  <2>4. session' = [session EXCEPT ![Entry.id] = s]
    BY <1>5, <2>1 DEF RecordReply
  <2> HIDE DEF s
  <2> QED
    BY <1>3, <2>1, <2>2, <2>3, <2>4
<1>6. CASE Scan
  BY <1>0, <1>6 DEF Scan
<1>7. CASE ReadMessages /\ NextEntry /\ UNCHANGED <<session, track>>
  BY <1>0, <1>7
<1>8. CASE VerifyChat
  BY <1>0, <1>8 DEF VerifyChat
<1>9. CASE SendReply
  BY <1>0, <1>9 DEF SendReply, Deliver
<1>10. CASE Stop \/ LoopEnds \/ \E c \in Chats : Write(c)
  BY <1>0, <1>10 DEF Stop, LoopEnds, Write
<1>11. CASE UNCHANGED vars
  BY <1>0, <1>11 DEF vars, track
<1> QED
  BY <1>2, <1>4, <1>5, <1>6, <1>7, <1>8, <1>9, <1>10, <1>11 DEF Next, Round

--------------------------------------------------------------------------------
(* Answers.                                                                         *)

\* The processes are numbered in the order they ran.
LEMMA LivesType ==
    ASSUME TypeInv
    PROVE  /\ life \in Nat /\ Len(sends) \in Nat /\ DOMAIN sends = 1..Len(sends)
           /\ \A i \in DOMAIN sends : sends[i].life \in Nat
<1>1. sends \in Seq(SendRecords) /\ life \in Nat
  BY DEF TypeInv, TypeOK
<1>2. \A i \in DOMAIN sends : sends[i] \in SendRecords
  BY <1>1
<1> QED
  BY <1>1, <1>2, LenProperties DEF SendRecords

\* A step that leaves the sends, and the batch as long as it is worked on.
LEMMA AnswersKept ==
    ASSUME UNCHANGED <<sends, life>>, Asked' => Asked /\ UNCHANGED <<batch, todo>>,
           NEW id, NEW S, AnswersIn(id, S)
    PROVE  AnswersIn(id, S)' /\ (AnswersApart(id) => AnswersApart(id)')
<1>1. Works(id)' => Works(id) /\ Texts(batch)' = Texts(batch)
  BY DEF Works, Entry, Texts
<1>2. \A i \in DOMAIN sends : Texts(sends[i].answers)' = Texts(sends[i].answers)
  BY DEF Texts
<1>3. \A i : Mine(i, id)' <=> Mine(i, id)
  BY DEF Mine
<1> QED
  BY <1>1, <1>2, <1>3 DEF AnswersIn, AnswersApart

\* ReadMessages: what is to be answered lies past all that was answered under the ID; under
\* the others nothing is to be answered.
LEMMA AnswersRead ==
    ASSUME ReadMessages, UNCHANGED todo, NEW id, NEW S, AnswersIn(id, S)
    PROVE  /\ id # Entry.id => AnswersIn(id, S)' /\ (AnswersApart(id) => AnswersApart(id)')
           /\ \A T : (S \subseteq T /\ Texts(batch)' \subseteq T) => AnswersIn(id, T)'
           /\ AnswersApart(id) /\ Texts(batch)' \cap S = {} => AnswersApart(id)'
<1>1. UNCHANGED <<sends, life>> /\ ~Works(id) /\ (Works(id)' => Entry.id = id)
  BY DEF ReadMessages, Works, Asked, Entry
<1>2. \A i \in DOMAIN sends : Texts(sends[i].answers)' = Texts(sends[i].answers)
  BY <1>1 DEF Texts
<1>3. \A i : Mine(i, id)' <=> Mine(i, id)
  BY <1>1 DEF Mine
<1>4. \A i \in DOMAIN sends : Mine(i, id) => Texts(sends[i].answers) \subseteq S
  BY DEF AnswersIn
<1>5. id # Entry.id => AnswersIn(id, S)' /\ (AnswersApart(id) => AnswersApart(id)')
  BY <1>1, <1>2, <1>3, <1>4 DEF AnswersIn, AnswersApart
<1>6. ASSUME NEW T, S \subseteq T, Texts(batch)' \subseteq T PROVE AnswersIn(id, T)'
  BY <1>1, <1>2, <1>3, <1>4, <1>6 DEF AnswersIn
<1>7. ASSUME AnswersApart(id), Texts(batch)' \cap S = {} PROVE AnswersApart(id)'
  BY <1>1, <1>2, <1>3, <1>4, <1>7 DEF AnswersApart
<1> QED
  BY <1>5, <1>6, <1>7

\* Send: the batch is answered, and nothing is to be answered until the next reading.
LEMMA AnswersSend ==
    ASSUME TypeInv, SendReply, NEW id, NEW S, AnswersIn(id, S)
    PROVE  AnswersIn(id, S)' /\ (AnswersApart(id) => AnswersApart(id)')
<1>1. PICK ok, landed \in BOOLEAN :
         /\ Deliver(ok, landed)
         /\ \/ ok /\ pc' = "recording" /\ UNCHANGED <<todo, batch>>
            \/ ~ok /\ NextEntry
  BY DEF SendReply
<1>2. pc = "sending" /\ Asked /\ UNCHANGED life /\ pc' \in {"recording", "idle", "opening"}
  BY <1>1, NextEntryPc DEF SendReply, Asked, Deliver
<1>3. PICK n \in Nat :
         /\ n = Len(sends) /\ DOMAIN sends = 1..n /\ DOMAIN sends' = 1..n + 1
         /\ \A i \in 1..n : sends'[i] = sends[i]
         /\ sends'[n + 1] = SendOf(ok, landed)
  BY <1>1, <1>2, DeliverIs
<1>4. sends'[n + 1].answers = batch /\ sends'[n + 1].id = Entry.id
  BY <1>3 DEF SendOf
<1>5. ~Works(id)' /\ (Mine(n + 1, id)' => Works(id))
  BY <1>2, <1>4 DEF Works, Asked, Mine
<1>6. \A i \in 1..n : (Mine(i, id)' <=> Mine(i, id))
                        /\ Texts(sends[i].answers)' = Texts(sends[i].answers)
  BY <1>2, <1>3 DEF Mine, Texts
<1>7. Texts(sends[n + 1].answers)' = Texts(batch)
  BY <1>3, <1>4 DEF Texts
<1>8. \A i \in 1..n + 1 : i \in 1..n \/ i = n + 1
  OBVIOUS
<1>9. ASSUME NEW i \in 1..n + 1, Mine(i, id)'
      PROVE  \/ i \in 1..n /\ Mine(i, id) /\ Texts(sends[i].answers)' = Texts(sends[i].answers)
             \/ i = n + 1 /\ Works(id) /\ Texts(sends[i].answers)' = Texts(batch)
  BY <1>5, <1>6, <1>7, <1>8, <1>9
<1>10. AnswersIn(id, S)'
  <2>1. ASSUME NEW i \in 1..n + 1, Mine(i, id)' PROVE Texts(sends[i].answers)' \subseteq S
    BY <1>3, <1>9, <2>1 DEF AnswersIn
  <2> QED
    BY <1>3, <1>5, <2>1 DEF AnswersIn
<1>11. ASSUME AnswersApart(id) PROVE AnswersApart(id)'
  <2>1. ASSUME NEW i \in 1..n + 1, NEW j \in 1..n + 1, i < j, Mine(i, id)', Mine(j, id)'
        PROVE  Texts(sends[i].answers)' \cap Texts(sends[j].answers)' = {}
    <3>1. i \in 1..n
      BY <2>1
    <3>2. Mine(i, id) /\ Texts(sends[i].answers)' = Texts(sends[i].answers)
      BY <1>6, <2>1, <3>1
    <3>3. CASE j \in 1..n
      <4>1. Mine(j, id) /\ Texts(sends[j].answers)' = Texts(sends[j].answers)
        BY <1>6, <2>1, <3>3
      <4> QED
        BY <1>3, <1>11, <2>1, <3>1, <3>2, <3>3, <4>1 DEF AnswersApart
    <3>4. CASE j = n + 1
      <4>1. Works(id) /\ Texts(sends[j].answers)' = Texts(batch)
        BY <1>5, <1>7, <2>1, <3>4
      <4> QED
        BY <1>3, <1>11, <3>1, <3>2, <4>1 DEF AnswersApart
    <3> QED
      BY <1>8, <3>3, <3>4
  <2> QED
    BY <1>3, <1>5, <2>1 DEF AnswersApart
<1> QED
  BY <1>10, <1>11

\* No other step begins to ask, and none changes the batch or the entry while it is worked on.
LEMMA AskedSteps ==
    ASSUME [Next]_vars
    PROVE  \/ UNCHANGED <<sends, life>> /\ (Asked' => Asked /\ UNCHANGED <<batch, todo>>)
           \/ ReadMessages /\ ~(NextEntry /\ UNCHANGED <<session, track>>)
           \/ SendReply \/ Restart
<1> USE DEF Asked
<1>1. CASE Scan
  BY <1>1 DEF Scan
<1>2. CASE OpenContact
  BY <1>2, NextEntryPc DEF OpenContact
<1>3. CASE ReadMessages /\ NextEntry /\ UNCHANGED <<session, track>>
  BY <1>3, NextEntryPc DEF ReadMessages
<1>4. CASE AskAgent
  BY <1>4, NextEntryPc DEF AskAgent
<1>5. CASE VerifyChat
  BY <1>5, NextEntryPc DEF VerifyChat
<1>6. CASE RecordReply
  BY <1>6, NextEntryPc DEF RecordReply
<1>7. CASE Stop
  BY <1>7 DEF Stop, loopVars
<1>8. CASE LoopEnds
  BY <1>8 DEF LoopEnds
<1>9. ASSUME NEW c \in Chats, Write(c)
      PROVE  UNCHANGED <<sends, life>> /\ (Asked' => Asked /\ UNCHANGED <<batch, todo>>)
  BY <1>9 DEF Write, loopVars
<1>10. CASE UNCHANGED vars
  BY <1>10 DEF vars
<1> QED
  BY <1>1, <1>2, <1>3, <1>4, <1>5, <1>6, <1>7, <1>8, <1>9, <1>10 DEF Next, Round

\* The sends carry the number of their process.
LEMMA LivesNext ==
    ASSUME TypeInv, LivesOK, [Next]_vars
    PROVE  LivesOK'
<1>1. life \in Nat /\ \A i \in DOMAIN sends : sends[i].life \in Nat /\ sends[i].life <= life
  BY LivesType DEF LivesOK
<1>2. CASE SendReply
  <2>1. PICK ok, landed \in BOOLEAN : Deliver(ok, landed)
    BY <1>2 DEF SendReply
  <2>2. pc = "sending" /\ UNCHANGED life
    BY <1>2, <2>1 DEF SendReply, Deliver
  <2>3. PICK n \in Nat :
           /\ DOMAIN sends = 1..n /\ DOMAIN sends' = 1..n + 1
           /\ \A i \in 1..n : sends'[i] = sends[i]
           /\ sends'[n + 1] = SendOf(ok, landed)
    BY <2>1, <2>2, DeliverIs
  <2>4. \A i \in 1..n + 1 : sends'[i].life <= life
    BY <1>1, <2>3 DEF SendOf
  <2> QED
    BY <2>2, <2>3, <2>4 DEF LivesOK
<1>3. CASE UNCHANGED sends /\ life' \in {life, life + 1}
  BY <1>1, <1>3 DEF LivesOK
<1>4. CASE UNCHANGED <<sends, life>>
  BY <1>3, <1>4
<1>5. CASE Restart
  BY <1>3, <1>5 DEF Restart
<1>6. CASE ReadMessages
  BY <1>4, <1>6 DEF ReadMessages
<1> QED
  BY <1>2, <1>4, <1>5, <1>6, AskedSteps

--------------------------------------------------------------------------------

\* Chats without messages, a manager without sessions.
THEOREM WholeInit == Init => WholeInv
<1> SUFFICES ASSUME Init PROVE WholeInv
  OBVIOUS
<1>1. /\ \A c \in Chats : chat[c] = <<>> /\ Len(chat[c]) = 0
      /\ sends = <<>> /\ DOMAIN sends = {} /\ pc = "idle"
  BY EmptySeq DEF Init
<1>2. TalkOK
  BY <1>1 DEF TalkOK, Distinct
<1>3. LivesOK
  BY <1>1 DEF LivesOK
<1>4. ASSUME NEW id \in IDs
      PROVE  MarkAt(id, 0) /\ AnswersIn(id, UpTo(from[id][1], 0)) /\ AnswersApart(id)
  <2>1. Unread(id)
    BY DEF Init, Unread
  <2>2. ~Works(id)
    BY <1>1 DEF Works, Asked
  <2> QED
    BY <1>1, <2>1, <2>2 DEF MarkAt, AnswersIn, AnswersApart
<1> QED
  BY <1>2, <1>3, <1>4 DEF WholeInv, MarkOK

\* Every step keeps the history of an ID that has not lost its mark the newest of one chat up to
\* the mark, and what was answered under it before the mark (ReadMessages, MarkAsRead, Send and
\* restarts included).
THEOREM WholeNext == TypeInv /\ WholeInv /\ [Next]_vars => WholeInv'
<1> SUFFICES ASSUME TypeInv, WholeInv, [Next]_vars PROVE WholeInv'
  OBVIOUS
<1> DEFINE Reading == ReadMessages /\ ~(NextEntry /\ UNCHANGED <<session, track>>)
<1>1. TalkOK /\ LivesOK /\ MarkOK /\ \A id \in IDs \ lost : AnswersApart(id)
  BY DEF WholeInv
<1>2. TalkOK' /\ Grows /\ LivesOK'
  BY <1>1, TalkNext, LivesNext
\* The mark stays, and so do the answers.
<1>3. ASSUME NEW id \in IDs \ lost, Stays(id),
             \A S : AnswersIn(id, S) => AnswersIn(id, S)' /\ (AnswersApart(id) => AnswersApart(id)')
      PROVE  /\ \E n \in Nat : MarkAt(id, n)' /\ AnswersIn(id, UpTo(from[id][1], n))'
             /\ AnswersApart(id)'
  <2>1. PICK n \in Nat : MarkAt(id, n) /\ AnswersIn(id, UpTo(from[id][1], n))
    BY <1>1 DEF MarkOK
  <2>2. MarkAt(id, n)' /\ UpTo(from[id][1], n)' = UpTo(from[id][1], n)
    BY <1>2, <1>3, <2>1, MarkKept
  <2>3. PICK S : S = UpTo(from[id][1], n) /\ S = UpTo(from[id][1], n)'
    BY <2>2
  <2>4. AnswersIn(id, S)
    BY <2>1, <2>3
  <2>5. AnswersIn(id, S)' /\ AnswersApart(id)'
    BY <1>1, <1>3, <2>4
  <2>6. AnswersIn(id, UpTo(from[id][1], n))'
    BY <2>3, <2>5 DEF AnswersIn
  <2> QED
    BY <2>2, <2>5, <2>6
<1>4. CASE Reading
  <2>1. UNCHANGED todo /\ lost \subseteq lost' /\ \A id \in IDs : id # Entry.id => Stays(id)
    BY <1>4, ReadType, ReadStays
  <2>2. ASSUME NEW id \in IDs \ lost', id # Entry.id
        PROVE  /\ \E n \in Nat : MarkAt(id, n)' /\ AnswersIn(id, UpTo(from[id][1], n))'
               /\ AnswersApart(id)'
    <3>1. id \in IDs \ lost /\ Stays(id)
      BY <2>1, <2>2
    <3>2. \A S : AnswersIn(id, S) => AnswersIn(id, S)' /\ (AnswersApart(id) => AnswersApart(id)')
      BY <1>4, <2>1, <2>2, AnswersRead
    <3> QED
      BY <1>3, <3>1, <3>2
  <2>3. ASSUME NEW id \in IDs \ lost', id = Entry.id
        PROVE  /\ \E n \in Nat : MarkAt(id, n)' /\ AnswersIn(id, UpTo(from[id][1], n))'
               /\ AnswersApart(id)'
    <3>1. id \in IDs \ lost
      BY <2>1, <2>3
    <3>2. PICK n \in Nat : MarkAt(id, n) /\ AnswersIn(id, UpTo(from[id][1], n))
      BY <1>1, <3>1 DEF MarkOK
    <3>3. PICK m \in Nat :
             /\ MarkAt(id, m)'
             /\ UpTo(from[id][1], n) \subseteq UpTo(from[id][1], m)'
             /\ Texts(batch)' \subseteq UpTo(from[id][1], m)'
             /\ Texts(batch)' \cap UpTo(from[id][1], n) = {}
      BY <1>1, <1>4, <2>3, <3>2, ReadMark
    <3>4. PICK S, T : S = UpTo(from[id][1], n) /\ T = UpTo(from[id][1], m)'
      OBVIOUS
    <3>5. AnswersIn(id, S) /\ S \subseteq T /\ Texts(batch)' \subseteq T /\ Texts(batch)' \cap S = {}
      BY <3>2, <3>3, <3>4
    <3>6. AnswersIn(id, T)' /\ AnswersApart(id)'
      BY <1>1, <1>4, <2>1, <3>1, <3>5, AnswersRead
    <3>7. AnswersIn(id, UpTo(from[id][1], m))'
      BY <3>4, <3>6 DEF AnswersIn
    <3> QED
      BY <3>3, <3>6, <3>7
  <2>4. \A id \in IDs \ lost' :
           /\ \E n \in Nat : MarkAt(id, n)' /\ AnswersIn(id, UpTo(from[id][1], n))'
           /\ AnswersApart(id)'
    BY <2>2, <2>3
  <2>5. MarkOK'
    BY <2>4 DEF MarkOK, IDs, Places
  <2>6. (\A id \in IDs \ lost : AnswersApart(id))'
    BY <2>4 DEF IDs, Places
  <2> QED
    BY <1>2, <2>5, <2>6 DEF WholeInv
<1>5. CASE Restart
  <2>1. /\ UNCHANGED sends /\ life' = life + 1 /\ ~Asked' /\ lost' = {}
        /\ \A id \in IDs : session'[id] = <<>> /\ from'[id] = Nowhere
    BY <1>5 DEF Restart, Asked
  <2>2. \A i \in DOMAIN sends' : sends'[i].life # life'
    <3>1. life \in Nat /\ \A i \in DOMAIN sends : sends[i].life <= life /\ sends[i].life \in Nat
      BY <1>1, LivesType DEF LivesOK
    <3> QED
      BY <2>1, <3>1
  <2>3. ASSUME NEW id \in IDs
        PROVE  /\ MarkAt(id, 0)' /\ AnswersIn(id, UpTo(from[id][1], 0))' /\ AnswersApart(id)'
    BY <2>1, <2>2 DEF MarkAt, Unread, AnswersIn, AnswersApart, Works, Mine
  <2>4. MarkOK'
    <3>1. 0 \in Nat
      OBVIOUS
    <3> QED
      BY <2>3, <3>1 DEF MarkOK, IDs, Places
  <2>5. (\A id \in IDs \ lost : AnswersApart(id))'
    BY <2>3 DEF IDs, Places
  <2> QED
    BY <1>2, <2>4, <2>5 DEF WholeInv
<1>6. ASSUME UNCHANGED lost, \A id \in IDs : Stays(id), ~Restart, ~Reading PROVE WholeInv'
  <2>1. ASSUME NEW id \in IDs, NEW S, AnswersIn(id, S)
        PROVE  AnswersIn(id, S)' /\ (AnswersApart(id) => AnswersApart(id)')
    <3>1. CASE SendReply
      BY <2>1, <3>1, AnswersSend
    <3>2. CASE UNCHANGED <<sends, life>> /\ (Asked' => Asked /\ UNCHANGED <<batch, todo>>)
      BY <2>1, <3>2, AnswersKept
    <3> QED
      BY <1>6, <3>1, <3>2, AskedSteps
  <2>2. ASSUME NEW id \in IDs \ lost'
        PROVE  /\ \E n \in Nat : MarkAt(id, n)' /\ AnswersIn(id, UpTo(from[id][1], n))'
               /\ AnswersApart(id)'
    <3>1. id \in IDs \ lost /\ Stays(id)
      BY <1>6, <2>2
    <3>2. \A S : AnswersIn(id, S) => AnswersIn(id, S)' /\ (AnswersApart(id) => AnswersApart(id)')
      BY <2>1, <3>1
    <3> QED
      BY <1>3, <3>1, <3>2
  <2>3. MarkOK'
    BY <2>2 DEF MarkOK, IDs, Places
  <2>4. (\A id \in IDs \ lost : AnswersApart(id))'
    BY <2>2 DEF IDs, Places
  <2> QED
    BY <1>2, <2>3, <2>4 DEF WholeInv
<1> QED
  BY <1>4, <1>5, <1>6, MarkSteps

\* What the invariant says of the two properties.
LEMMA WholeMeans ==
    ASSUME TypeInv, WholeInv
    PROVE  HistoryIsWhole /\ AnsweredOnce
<1>1. /\ MarkOK /\ \A id \in IDs \ lost : AnswersApart(id)
      /\ Distinct
  BY DEF WholeInv, TalkOK
<1>2. ASSUME NEW id \in IDs \ lost, session[id] # <<>>
      PROVE  LET h     == [i \in DOMAIN session[id].history |-> Text(session[id].history[i])]
                 c     == from[id][1]
                 begin == from[id][2]
             IN  IF from[id] = Nowhere THEN h = <<>> /\ session[id].lastMessageID = NoFp
                 ELSE \E n \in begin..Len(chat[c]) :
                         /\ Text(session[id].lastMessageID) = chat[c][n]
                         /\ h = Newest(SubSeq(chat[c], begin, n), MaxHistory)
  <2>1. PICK n \in Nat : MarkAt(id, n)
    BY <1>1 DEF MarkOK
  <2>2. CASE Unread(id)
    <3>1. from[id] = Nowhere /\ session[id].history = <<>> /\ session[id].lastMessageID = NoFp
      BY <1>2, <2>2 DEF Unread
    <3>2. DOMAIN session[id].history = {}
      BY <3>1
    <3>3. [i \in DOMAIN session[id].history |-> Text(session[id].history[i])] = <<>>
      BY <3>1, <3>2
    <3> QED
      BY <3>1, <3>3
  <2>3. CASE Holds(id, n)
    <3>1. PICK c \in Chats, b \in Nat \ {0} : c = from[id][1] /\ b = from[id][2]
      BY <2>3 DEF Holds
    <3>2. /\ b <= n /\ n <= Len(chat[c]) /\ Text(session[id].lastMessageID) = chat[c][n]
          /\ Spans(session[id], chat[c], b, n)
      BY <2>3, <3>1 DEF Holds
    <3>3. from[id] # Nowhere
      BY <3>1, MonitorAssumption DEF Nowhere
    <3>4. Len(chat[c]) \in Nat
      BY LenProperties DEF TypeInv, TypeOK
    <3>5. n \in b..Len(chat[c])
      BY <3>2, <3>4
    <3> QED
      BY <3>1, <3>2, <3>3, <3>5 DEF Spans, TextsOf
  <2> QED
    BY <2>1, <2>2, <2>3 DEF MarkAt
<1>3. ASSUME NEW id \in IDs \ lost
      PROVE  \E n \in Nat :
                /\ \A i \in DOMAIN sends : Mine(i, id) => Texts(sends[i].answers) \subseteq UpTo(from[id][1], n)
                /\ n # 0 => from[id][1] \in Chats /\ n <= Len(chat[from[id][1]])
  <2>1. PICK n \in Nat : MarkAt(id, n) /\ AnswersIn(id, UpTo(from[id][1], n))
    BY <1>1 DEF MarkOK
  <2>2. n # 0 => from[id][1] \in Chats /\ n <= Len(chat[from[id][1]])
    BY <2>1 DEF MarkAt, Holds
  <2>3. \A i \in DOMAIN sends : Mine(i, id) => Texts(sends[i].answers) \subseteq UpTo(from[id][1], n)
    BY <2>1 DEF AnswersIn
  <2> QED
    BY <2>2, <2>3
<1>4. ASSUME NEW i \in DOMAIN sends, NEW j \in DOMAIN sends, i < j,
             NEW p \in IDs \ lost, NEW q \in IDs \ lost, Mine(i, p), Mine(j, q),
             p # q => from[p][1] # from[q][1]
      PROVE  Texts(sends[i].answers) \cap Texts(sends[j].answers) = {}
  <2>1. CASE p = q
    BY <1>1, <1>4, <2>1 DEF AnswersApart
  <2>2. CASE p # q
    <3>1. PICK n \in Nat :
             /\ Texts(sends[i].answers) \subseteq UpTo(from[p][1], n)
             /\ n # 0 => from[p][1] \in Chats /\ n <= Len(chat[from[p][1]])
      BY <1>3, <1>4
    <3>2. PICK m \in Nat :
             /\ Texts(sends[j].answers) \subseteq UpTo(from[q][1], m)
             /\ m # 0 => from[q][1] \in Chats /\ m <= Len(chat[from[q][1]])
      BY <1>3, <1>4
    <3>3. SUFFICES ASSUME NEW x \in UpTo(from[p][1], n), x \in UpTo(from[q][1], m) PROVE FALSE
      BY <3>1, <3>2
    <3>4. PICK k \in 1..n, l \in 1..m : x = chat[from[p][1]][k] /\ x = chat[from[q][1]][l]
      BY <3>3 DEF UpTo
    <3>5. PICK c \in Chats, d \in Chats : c = from[p][1] /\ d = from[q][1]
      BY <3>1, <3>2, <3>4
    <3>6. Len(chat[c]) \in Nat /\ Len(chat[d]) \in Nat
      BY LenProperties DEF TypeInv, TypeOK
    <3>7. k \in 1..Len(chat[c]) /\ l \in 1..Len(chat[d])
      BY <3>1, <3>2, <3>4, <3>5, <3>6
    <3>8. c # d
      BY <1>4, <2>2, <3>5
    <3>9. chat[c][k] = chat[d][l]
      BY <3>4, <3>5
    <3> QED
      BY <1>1, <3>7, <3>8, <3>9 DEF Distinct
  <2> QED
    BY <2>1, <2>2
<1>5. AnsweredOnce
  <2>1. \A i \in DOMAIN sends : sends[i].id \in IDs
    <3>1. sends \in Seq(SendRecords)
      BY DEF TypeInv, TypeOK
    <3>2. \A i \in DOMAIN sends : sends[i] \in SendRecords
      BY <3>1
    <3> QED
      BY <3>2 DEF SendRecords
  <2>2. SUFFICES ASSUME NEW i \in DOMAIN sends, NEW j \in DOMAIN sends, i < j,
                        sends[i].life = life, sends[j].life = life,
                        {sends[i].id, sends[j].id} \cap lost = {},
                        sends[i].id # sends[j].id => from[sends[i].id][1] # from[sends[j].id][1]
                 PROVE  Texts(sends[i].answers) \cap Texts(sends[j].answers) = {}
    BY DEF AnsweredOnce
  <2>3. PICK p \in IDs \ lost, q \in IDs \ lost : p = sends[i].id /\ q = sends[j].id
    BY <2>1, <2>2
  <2>4. Mine(i, p) /\ Mine(j, q)
    BY <2>2, <2>3 DEF Mine
  <2> QED
    BY <1>4, <2>2, <2>3, <2>4
<1> QED
  BY <1>2, <1>5 DEF HistoryIsWhole

\* The session of an ID whose mark was in sight at each reading holds the newest of one chat from
\* where it began to the mark, in order and without a gap, for any number of chats, any window,
\* any limits, through restarts, failed sends, clicks without effect, chats that change their
\* places and the agent's own replies that come back as messages (HistoryIsWhole).
THEOREM HistoryWhole == Spec => []HistoryIsWhole
<1>1. TypeInv /\ WholeInv => HistoryIsWhole
  BY WholeMeans
<1> QED
  BY TypeInit, TypeNext, WholeInit, WholeNext, <1>1, PTL DEF Spec

\* And no message is answered twice by a process under such IDs (AnsweredOnce).
THEOREM NoAnswerTwice == Spec => []AnsweredOnce
<1>1. TypeInv /\ WholeInv => AnsweredOnce
  BY WholeMeans
<1> QED
  BY TypeInit, TypeNext, WholeInit, WholeNext, <1>1, PTL DEF Spec

--------------------------------------------------------------------------------
(* When a reply of this process was sent after Stop, the loop is past every step that *)
(* leads to Send, and only an answer of the agent leads back to one.                  *)

\* sends is a sequence, whatever its entries hold.
SendsListed == \E T : sends \in Seq(T)

Ages == life \in Nat /\ \A i \in DOMAIN sends : sends[i].life \in Nat /\ sends[i].life <= life

Ready == pc \in {"verifying", "sending"}

LateInv ==
    /\ SendsListed /\ Ages /\ stopped \in BOOLEAN
    /\ \A i \in DOMAIN sends : sends[i].late /\ sends[i].life = life => stopped /\ ~Ready
    /\ StopQuiets

\* Nothing was sent late before the service starts.
THEOREM LateInit == Init => LateInv
<1> SUFFICES ASSUME Init PROVE LateInv
  OBVIOUS
<1>1. sends \in Seq({}) /\ DOMAIN sends = {}
  BY DEF Init
<1> QED
  BY <1>1 DEF Init, LateInv, SendsListed, Ages, StopQuiets

\* A step that neither sends nor restarts, and does not come near to sending when stopped.
LEMMA LateKept ==
    ASSUME LateInv, UNCHANGED <<sends, life>>, stopped' \in BOOLEAN, stopped => stopped',
           Ready' => Ready \/ ~stopped
    PROVE  LateInv'
  BY DEF LateInv, SendsListed, Ages, StopQuiets

\* Send, by a service that was stopped or not.
LEMMA LateSend ==
    ASSUME LateInv, NEW ok \in BOOLEAN, NEW landed \in BOOLEAN, pc = "sending",
           Deliver(ok, landed), pc' \in {"recording", "idle", "opening"}
    PROVE  LateInv'
<1> DEFINE r == [id |-> Entry.id, answers |-> batch, into |-> open, ok |-> ok,
                 landed |-> landed, late |-> stopped, life |-> life]
           n == Len(sends)
<1>1. sends' = Append(sends, r) /\ UNCHANGED <<stopped, life>>
  BY DEF Deliver
<1>2. PICK T : sends \in Seq(T)
  BY DEF LateInv, SendsListed
<1>3. r.late = stopped /\ r.life = life
  OBVIOUS
<1> HIDE DEF r
<1>4. sends \in Seq(T \cup {r}) /\ r \in T \cup {r}
  BY <1>2
<1>5. /\ sends' \in Seq(T \cup {r}) /\ n \in Nat /\ DOMAIN sends' = 1..(n + 1)
      /\ DOMAIN sends = 1..n /\ sends'[n + 1] = r
      /\ \A i \in 1..n : sends'[i] = sends[i]
  BY <1>1, <1>4
<1>6. SendsListed'
  BY <1>5 DEF SendsListed
<1>7. Ages'
  BY <1>1, <1>3, <1>5 DEF LateInv, Ages
<1>8. \A i \in 1..n : ~(sends[i].late /\ sends[i].life = life)
  BY <1>5 DEF LateInv, Ready
<1>9. ~Ready'
  BY DEF Ready
<1>10. \A i \in DOMAIN sends' : sends'[i].late /\ sends'[i].life = life => stopped
  BY <1>3, <1>5, <1>8
<1>11. StopQuiets'
  <2> SUFFICES ASSUME NEW i \in 1..(n + 1), NEW j \in 1..(n + 1), sends'[i].late,
                      sends'[j].late, sends'[i].life = sends'[j].life
               PROVE  i = j
    BY <1>5 DEF StopQuiets
  <2>1. CASE i \in 1..n /\ j \in 1..n
    BY <1>5, <2>1 DEF LateInv, StopQuiets
  <2>2. CASE i = n + 1 /\ j \in 1..n
    BY <1>3, <1>5, <1>8, <2>2
  <2>3. CASE j = n + 1 /\ i \in 1..n
    BY <1>3, <1>5, <1>8, <2>3
  <2> QED
    BY <1>5, <2>1, <2>2, <2>3
<1> QED
  BY <1>1, <1>6, <1>7, <1>9, <1>10, <1>11 DEF LateInv

\* Every step keeps a stopped loop away from Send once it has sent its last reply.
THEOREM LateNext == LateInv /\ [Next]_vars => LateInv'
<1> SUFFICES ASSUME LateInv, [Next]_vars PROVE LateInv'
  OBVIOUS
<1>0. stopped \in BOOLEAN
  BY DEF LateInv
<1> USE DEF Ready
<1>1. CASE Scan
  BY <1>0, <1>1, LateKept DEF Scan
<1>2. CASE OpenContact
  BY <1>0, <1>2, LateKept, NextEntryPc DEF OpenContact
<1>3. CASE ReadMessages
  BY <1>0, <1>3, LateKept, NextEntryPc DEF ReadMessages
<1>4. CASE AskAgent
  <2>1. "reply" \in Answers => ~stopped
    BY DEF Answers
  <2>2. UNCHANGED <<sends, life, stopped>> /\ (Ready' => ~stopped)
    BY <1>4, <2>1, NextEntryPc DEF AskAgent
  <2> QED
    BY <1>0, <2>2, LateKept
<1>5. CASE VerifyChat
  BY <1>0, <1>5, LateKept, NextEntryPc DEF VerifyChat
<1>6. CASE SendReply
  <2>1. PICK ok, landed \in BOOLEAN :
           /\ Deliver(ok, landed)
           /\ \/ ok /\ pc' = "recording" /\ UNCHANGED <<todo, batch>>
              \/ ~ok /\ NextEntry
    BY <1>6 DEF SendReply
  <2>2. pc' \in {"recording", "idle", "opening"} /\ pc = "sending"
    BY <1>6, <2>1, NextEntryPc DEF SendReply
  <2> QED
    BY <2>1, <2>2, LateSend
<1>7. CASE RecordReply
  BY <1>0, <1>7, LateKept, NextEntryPc DEF RecordReply
<1>8. CASE Stop
  BY <1>0, <1>8, LateKept DEF Stop, loopVars
<1>9. CASE LoopEnds
  BY <1>0, <1>9, LateKept DEF LoopEnds
<1>10. CASE Restart
  <2>1. UNCHANGED sends /\ life' = life + 1 /\ stopped' = FALSE
    BY <1>10 DEF Restart
  <2>2. Ages' /\ \A i \in DOMAIN sends' : sends'[i].life # life'
    BY <2>1 DEF LateInv, Ages
  <2> QED
    BY <2>1, <2>2 DEF LateInv, SendsListed, StopQuiets
<1>11. ASSUME NEW c \in Chats, Write(c) PROVE LateInv'
  BY <1>0, <1>11, LateKept DEF Write, loopVars
<1>12. CASE UNCHANGED vars
  BY <1>0, <1>12, LateKept DEF vars
<1> QED
  BY <1>1, <1>2, <1>3, <1>4, <1>5, <1>6, <1>7, <1>8, <1>9, <1>10, <1>11, <1>12 DEF Next, Round

\* A stopped service sends one more reply at most, however many rounds its loop still begins
\* and whenever it was stopped (StopQuiets).
THEOREM StopSilences == Spec => []StopQuiets
<1>1. LateInv => StopQuiets
  BY DEF LateInv
<1> QED
  BY LateInit, LateNext, <1>1, PTL DEF Spec
================================================================================
