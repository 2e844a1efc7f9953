-------------------------- MODULE SendPipeline_proofs --------------------------
(* Proofs about SendPipeline, for any texts, any number of candidates, calls,       *)
(* messages and copies, any measurements and any differences of screenshots.        *)
EXTENDS SendPipeline, FiniteSetTheorems, SequenceTheorems, TLAPS

--------------------------------------------------------------------------------
(* The contract needs no invariant: where the call is decides what it may report.   *)


\* No call is under way at the start, as in the contract.
LEMMA ContractInit == Init => Contract!Init
  BY DEF Init, Contract!Init

\* Every step is one of the contract: PressEnter presses, the ends answer, all others stutter.
LEMMA ContractNext == [Next]_vars => [Contract!Next]_(Contract!vars)
<1> SUFFICES ASSUME [Next]_vars PROVE [Contract!Next]_(Contract!vars)
  OBVIOUS
<1> USE DEF Contract!Next, Contract!vars, Finish, NextCandidate, answers, observers, stageA
<1>1. ASSUME NEW t \in Texts, Begin(t) PROVE Contract!Call
  BY <1>1 DEF Begin, Contract!Call
<1>2. CASE Detect
  BY <1>2 DEF Detect, Contract!GiveUp
<1>3. CASE Probe
  BY <1>3 DEF Probe
<1>4. CASE Reprobe
  BY <1>4 DEF Reprobe
<1>5. CASE CaptureBefore
  BY <1>5 DEF CaptureBefore
<1>6. CASE ClickCandidate
  BY <1>6 DEF ClickCandidate, Contract!GiveUp
<1>7. CASE SetClipboard
  BY <1>7 DEF SetClipboard, Contract!GiveUp
<1>8. CASE Paste
  BY <1>8 DEF Paste, Contract!GiveUp
<1>9. CASE Compare
  BY <1>9 DEF Compare, Contract!GiveUp
<1>10. CASE PressEnter
  BY <1>10 DEF PressEnter, Contract!GiveUp, Contract!Press
<1>11. CASE Look
  BY <1>11 DEF Look
<1>12. CASE Judge
  <2>1. pc = "judge" /\ pc' = "idle" /\ result' \in {"SEND_VERIFIED", "SEND_NOT_VERIFIED"}
        /\ presses' = presses
    BY <1>12 DEF Judge
  <2> QED
    BY <2>1 DEF Contract!Report
<1>13. CASE Verify
  BY <1>13 DEF Verify
<1>14. CASE Incoming
  BY <1>14 DEF Incoming
<1>15. CASE Copy
  BY <1>15 DEF Copy
<1>16. CASE TakePaste
  BY <1>16 DEF TakePaste
<1>17. CASE TakeEnter
  BY <1>17 DEF TakeEnter
<1>18. CASE UNCHANGED vars
  BY <1>18 DEF vars
<1> QED
  BY <1>1, <1>2, <1>3, <1>4, <1>5, <1>6, <1>7, <1>8, <1>9, <1>10, <1>11, <1>12, <1>13,
     <1>14, <1>15, <1>16, <1>17, <1>18 DEF Next

\* adapter.Send keeps its promise whichever call of the bridge fails: Enter is pressed at
\* most once for a call, and a reason code tells whether it was (KeepsSendContract).
THEOREM KeepsContract == Spec => KeepsSendContract
  BY ContractInit, ContractNext, PTL DEF Spec, KeepsSendContract, Contract!Spec

--------------------------------------------------------------------------------
(* Types.                                                                           *)

Trials == {"click", "clip", "paste", "compare"}

QueueOK ==
    /\ pc = "detect" => tried = {}
    /\ pc \in {"probe", "reprobe"} => number >= 1
    /\ pc = "probe" => Len(probes) < number
    /\ pc \notin {"probe", "reprobe"} => probes = <<>>
    /\ pc \in {"capture"} \cup Trials => queue # <<>>
    /\ pc \in {"idle", "detect", "probe", "reprobe"} => queue = <<>>

TypeInv == TypeOK /\ QueueOK

\* The score of a candidate is a number.
LEMMA ScoreType == ASSUME NEW s \in Signals PROVE ActivationScore(s) \in Int
<1>1. /\ s.visual \in Int /\ s.brightness \in Int /\ s.edges \in Int
      /\ s.editable \in Int /\ s.tests \in Int
  BY SignalsAssumption
<1>2. \A n \in Int : Positive(n) \in Int
  BY DEF Positive
<1> QED
  BY <1>1, <1>2 DEF ActivationScore

\* What a screenshot may be.
LEMMA ShotsType == TypeOK => Shots \subseteq Shot
<1> SUFFICES ASSUME TypeOK PROVE Shots \subseteq Shot
  OBVIOUS
<1>1. Len(box) \in Nat /\ own + others \in Nat
  BY DEF TypeOK
<1> QED
  BY <1>1 DEF Shots, Shot, NoShot, Blank

\* Message nodes are counted by naturals.
LEMMA NodesType == TypeOK => MessageNodes \subseteq Nat
  BY DEF MessageNodes, TypeOK

\* A plan is a sequence of candidates, and has one.
LEMMA PlanType ==
    ASSUME number \in Nat, number >= 1, NEW q \in Plan
    PROVE  q \in Seq(1..number) /\ q # <<>>
<1>1. ASSUME NEW c \in 1..number, q = <<c>> PROVE q \in Seq(1..number) /\ q # <<>>
  BY <1>1
<1>2. CASE q = [c \in 1..number |-> c]
  <2>1. q \in Seq(1..number) /\ Len(q) = number
    BY <1>2
  <2> QED
    BY <2>1
<1> QED
  BY <1>1, <1>2 DEF Plan, Highest, Confirmed

\* No screenshot is a kind of screenshot.
LEMMA NoShotType == NoShot \in Shot
  BY DEF NoShot, Shot

\* The end of a call leaves nothing out of its range.
LEMMA FinishType ==
    ASSUME TypeOK, NEW reason, Finish(reason)
    PROVE  /\ pc' = "idle" /\ queue' = <<>> /\ queue' \in Seq(1..number)
           /\ before' \in Shot /\ after' \in Shot /\ nodes' \in Nat
  BY NoShotType DEF Finish

\* A candidate that is passed over leaves a queue, or none and the end of the call.
LEMMA NextType ==
    ASSUME TypeInv, NextCandidate, pc \in Trials
    PROVE  /\ queue' \in Seq(1..number) /\ pc' \in {"idle", "click"}
           /\ pc' = "click" => queue' # <<>>
           /\ pc' = "idle" => queue' = <<>>
           /\ before' \in Shot /\ after' \in Shot /\ nodes' \in Nat
<1>1. TypeOK /\ queue # <<>>
  BY DEF TypeInv, QueueOK
<1>2. CASE Finish("TEXT_INJECTION_FAILED")
  BY <1>1, <1>2, FinishType
<1>3. CASE Tail(queue) # <<>> /\ queue' = Tail(queue) /\ pc' = "click" /\ UNCHANGED observed
  BY <1>1, <1>3 DEF TypeOK, observed
<1> QED
  BY <1>2, <1>3 DEF NextCandidate

\* The text in the box with one more in it: where its halves are, and those of the old.
LEMMA InsertFacts ==
    ASSUME NEW s \in Seq(Halves), NEW n \in 0..Len(s), NEW t \in Texts \cup {Foreign}
    PROVE  /\ Insert(s, n, t) \in Seq(Halves)
           /\ Len(Insert(s, n, t)) = Len(s) + 2
           /\ \A i \in 1..n : Insert(s, n, t)[i] = s[i]
           /\ Insert(s, n, t)[n + 1] = <<t, 1>> /\ Insert(s, n, t)[n + 2] = <<t, 2>>
           /\ \A i \in n + 1..Len(s) : Insert(s, n, t)[i + 2] = s[i]
<1> DEFINE a == SubSeq(s, 1, n)
           b == <<<<t, 1>>, <<t, 2>>>>
           c == SubSeq(s, n + 1, Len(s))
<1>1. a \in Seq(Halves) /\ Len(a) = n /\ \A i \in 1..n : a[i] = s[i]
  OBVIOUS
<1>2. /\ b \in Seq(Halves) /\ Len(b) = 2 /\ b[1] = <<t, 1>> /\ b[2] = <<t, 2>>
  <2>1. <<t, 1>> \in Halves /\ <<t, 2>> \in Halves
    BY DEF Halves
  <2> QED
    BY <2>1
<1>3. /\ c \in Seq(Halves) /\ Len(c) = Len(s) - n
      /\ \A i \in 1..Len(s) - n : c[i] = s[n + i]
  OBVIOUS
<1>4. Insert(s, n, t) = (a \o b) \o c
  BY DEF Insert, Body
<1> HIDE DEF a, b, c
<1>5. /\ a \o b \in Seq(Halves) /\ Len(a \o b) = n + 2
      /\ \A i \in 1..n : (a \o b)[i] = s[i]
      /\ (a \o b)[n + 1] = <<t, 1>> /\ (a \o b)[n + 2] = <<t, 2>>
  <2>1. a \in Seq(Halves) /\ b \in Seq(Halves) /\ Len(a) = n /\ Len(b) = 2
    BY <1>1, <1>2
  <2>2. /\ a \o b \in Seq(Halves) /\ Len(a \o b) = Len(a) + Len(b)
        /\ \A i \in 1..Len(a) + Len(b) :
              (a \o b)[i] = IF i <= Len(a) THEN a[i] ELSE b[i - Len(a)]
    BY <2>1, ConcatProperties, Zenon
  <2>3. \A i \in 1..n + 2 : (a \o b)[i] = IF i <= n THEN a[i] ELSE b[i - n]
    BY <2>1, <2>2
  <2>4. /\ (a \o b)[n + 1] = <<t, 1>> /\ (a \o b)[n + 2] = <<t, 2>>
    <3>1. /\ n + 1 \in 1..n + 2 /\ n + 2 \in 1..n + 2 /\ ~(n + 1 <= n) /\ ~(n + 2 <= n)
          /\ (n + 1) - n = 1 /\ (n + 2) - n = 2
      OBVIOUS
    <3> QED
      BY <1>2, <2>3, <3>1
  <2>5. \A i \in 1..n : (a \o b)[i] = s[i]
    <3>1. \A i \in 1..n : i \in 1..n + 2 /\ i <= n
      OBVIOUS
    <3> QED
      BY <1>1, <2>3, <3>1
  <2> QED
    BY <2>1, <2>2, <2>4, <2>5
<1>6. /\ (a \o b) \o c \in Seq(Halves) /\ Len((a \o b) \o c) = Len(s) + 2
      /\ \A i \in 1..n + 2 : ((a \o b) \o c)[i] = (a \o b)[i]
      /\ \A i \in n + 3..Len(s) + 2 : ((a \o b) \o c)[i] = c[i - (n + 2)]
  <2>1. /\ a \o b \in Seq(Halves) /\ c \in Seq(Halves)
        /\ Len(a \o b) = n + 2 /\ Len(c) = Len(s) - n
    BY <1>3, <1>5
  <2> DEFINE d == a \o b
  <2> HIDE DEF d
  <2>2. d \in Seq(Halves) /\ Len(d) = n + 2
    BY <2>1 DEF d
  <2>3. /\ d \o c \in Seq(Halves) /\ Len(d \o c) = Len(d) + Len(c)
        /\ \A i \in 1..Len(d) + Len(c) :
              (d \o c)[i] = IF i <= Len(d) THEN d[i] ELSE c[i - Len(d)]
    BY <2>1, <2>2, ConcatProperties, Zenon
  <2>4. Len(d \o c) = Len(s) + 2
    BY <2>1, <2>2, <2>3
  <2>5. /\ \A i \in 1..n + 2 : (d \o c)[i] = d[i]
        /\ \A i \in n + 3..Len(s) + 2 : (d \o c)[i] = c[i - (n + 2)]
    <3>1. /\ n \in Nat /\ Len(s) \in Nat /\ n <= Len(s) /\ Len(d) = n + 2
          /\ Len(d) + Len(c) = Len(s) + 2
      BY <2>1, <2>2
    <3>2. \A i \in 1..Len(s) + 2 : (d \o c)[i] = IF i <= n + 2 THEN d[i] ELSE c[i - (n + 2)]
      BY <2>3, <3>1
    <3>3. \A i \in 1..n + 2 : i \in 1..Len(s) + 2 /\ i <= n + 2
      BY <3>1
    <3>4. \A i \in n + 3..Len(s) + 2 : i \in 1..Len(s) + 2 /\ ~(i <= n + 2)
      BY <3>1
    <3> QED
      BY <3>2, <3>3, <3>4
  <2> QED
    BY <2>3, <2>4, <2>5 DEF d
<1>7. \A i \in n + 1..Len(s) : ((a \o b) \o c)[i + 2] = s[i]
  <2> SUFFICES ASSUME NEW i \in n + 1..Len(s) PROVE ((a \o b) \o c)[i + 2] = s[i]
    OBVIOUS
  <2>1. i + 2 \in n + 3..Len(s) + 2 /\ i - n \in 1..Len(s) - n /\ i = n + (i - n)
        /\ (i + 2) - (n + 2) = i - n
    OBVIOUS
  <2> QED
    BY <1>3, <1>6, <2>1
<1>8. /\ \A i \in 1..n : ((a \o b) \o c)[i] = s[i]
      /\ ((a \o b) \o c)[n + 1] = <<t, 1>> /\ ((a \o b) \o c)[n + 2] = <<t, 2>>
  <2>1. \A i \in 1..n + 2 : ((a \o b) \o c)[i] = (a \o b)[i]
    BY <1>6
  <2>2. n \in Nat /\ 1..n \subseteq 1..n + 2 /\ n + 1 \in 1..n + 2 /\ n + 2 \in 1..n + 2
    OBVIOUS
  <2> HIDE DEF a, b, c
  <2> QED
    BY <1>5, <2>1, <2>2
<1> QED
  BY <1>4, <1>6, <1>7, <1>8

\* Before the first call every variable is in its range.
THEOREM TypeInit == Init => TypeInv
<1> SUFFICES ASSUME Init PROVE TypeInv
  OBVIOUS
<1>1. \A S : <<>> \in Seq(S)
  OBVIOUS
<1>2. /\ probes \in Seq([ok : BOOLEAN, score : Int, strong : BOOLEAN]) /\ Len(probes) <= number
      /\ queue \in Seq(1..number) /\ number \in Nat /\ input \in Seq({"paste", "enter"})
  BY <1>1 DEF Init
<1>3. /\ box \in Seq(Halves) /\ left \in Seq(Halves)
  BY <1>1 DEF Init
<1> QED
  BY <1>2, <1>3, NoShotType DEF Init, TypeInv, TypeOK, QueueOK, Stages, Trials

\* Every stage of Send, Verify, the client and other programs keep the ranges.
THEOREM TypeNext == TypeInv /\ [Next]_vars => TypeInv'
<1> SUFFICES ASSUME TypeInv, [Next]_vars PROVE TypeInv'
  OBVIOUS
<1> USE DEF TypeInv, TypeOK, QueueOK, Stages, Trials, answers, observers, stageA, observed,
            client, chat
<1>1. ASSUME NEW t \in Texts, Begin(t) PROVE TypeInv'
  <2>1. \A S : <<>> \in Seq(S)
    OBVIOUS
  <2>2. /\ probes' \in Seq([ok : BOOLEAN, score : Int, strong : BOOLEAN])
        /\ queue' \in Seq(1..number') /\ Len(probes') <= number' /\ number' \in Nat
        /\ over' \subseteq 1..number' /\ tried' \subseteq 1..number'
    BY <1>1, <2>1 DEF Begin
  <2>3. calls' \in Nat /\ left' \in Seq(Halves) /\ late' \in BOOLEAN
    BY <1>1 DEF Begin
  <2>4. TypeOK'
    BY <1>1, <2>2, <2>3 DEF Begin
  <2>5. QueueOK'
    BY <1>1 DEF Begin
  <2> QED
    BY <2>4, <2>5
<1>2. CASE Detect
  <2>1. CASE Finish("INPUT_BOX_PROBE_FAILED") /\ UNCHANGED <<over, number, evidence, verdict>>
    BY <1>2, <2>1, FinishType DEF Detect
  <2>2. CASE /\ number' \in 1..MaxCandidates /\ over' \in SUBSET (1..number') /\ pc' = "probe"
             /\ UNCHANGED <<queue, observed, answers>>
    <3>1. number' \in Nat /\ number' >= 1 /\ over' \subseteq 1..number'
      BY <2>2, BoundsAssumption
    <3>2. probes' = <<>> /\ queue' = <<>> /\ Len(probes') = 0
      BY <1>2, <2>2 DEF Detect
    <3>3. \A S : <<>> \in Seq(S)
      OBVIOUS
    <3>4. /\ queue' \in Seq(1..number') /\ Len(probes') < number'
          /\ tried' \subseteq 1..number'
          /\ probes' \in Seq([ok : BOOLEAN, score : Int, strong : BOOLEAN])
      BY <1>2, <3>1, <3>2, <3>3 DEF Detect
    <3>5. TypeOK'
      BY <1>2, <2>2, <3>1, <3>4 DEF Detect
    <3>6. QueueOK'
      BY <2>2, <3>1, <3>2, <3>4
    <3> QED
      BY <3>5, <3>6
  <2> QED
    BY <1>2, <2>1, <2>2 DEF Detect
<1>3. CASE Probe
  <2>1. ASSUME NEW p \in {ProbeError} \cup {Probed(s) : s \in Signals}
        PROVE  p \in [ok : BOOLEAN, score : Int, strong : BOOLEAN]
    <3>1. ProbeError \in [ok : BOOLEAN, score : Int, strong : BOOLEAN]
      BY DEF ProbeError
    <3>2. ASSUME NEW s \in Signals
          PROVE  Probed(s) \in [ok : BOOLEAN, score : Int, strong : BOOLEAN]
      BY ScoreType DEF Probed
    <3> QED
      BY <2>1, <3>1, <3>2
  <2>2. PICK p \in {ProbeError} \cup {Probed(s) : s \in Signals} : probes' = Append(probes, p)
    BY <1>3 DEF Probe
  <2>3. /\ probes' \in Seq([ok : BOOLEAN, score : Int, strong : BOOLEAN])
        /\ Len(probes') = Len(probes) + 1
    BY <2>1, <2>2
  <2> QED
    BY <1>3, <2>3 DEF Probe
<1>4. CASE Reprobe
  BY <1>4, PlanType DEF Reprobe
<1>5. CASE CaptureBefore
  BY <1>5, ShotsType DEF CaptureBefore
<1>6. CASE ClickCandidate
  <2>1. CASE NextCandidate /\ UNCHANGED <<caret, tried>>
    BY <1>6, <2>1, NextType DEF ClickCandidate
  <2>2. CASE /\ caret' = (Head(queue) \in over) /\ tried' = tried \cup {Head(queue)}
             /\ pc' = "clip" /\ UNCHANGED <<queue, observed, answers>>
    <3>1. Head(queue) \in 1..number
      BY <1>6 DEF ClickCandidate
    <3>0. number' = number /\ queue' = queue
      BY <1>6, <2>2 DEF ClickCandidate
    <3>2. tried' \subseteq 1..number' /\ queue' \in Seq(1..number')
      BY <2>2, <3>0, <3>1
    <3>5. caret' \in BOOLEAN
      BY <2>2
    <3>3. TypeOK'
      BY <1>6, <2>2, <3>2, <3>5 DEF ClickCandidate
    <3>4. QueueOK'
      BY <1>6, <2>2 DEF ClickCandidate
    <3> QED
      BY <3>3, <3>4
  <2> QED
    BY <1>6, <2>1, <2>2 DEF ClickCandidate
<1>7. CASE SetClipboard
  BY <1>7, NextType DEF SetClipboard
<1>8. CASE Paste
  <2>1. input' \in Seq({"paste", "enter"})
    <3>1. Append(input, "paste") \in Seq({"paste", "enter"})
      OBVIOUS
    <3>2. input' \in {input, Append(input, "paste")}
      BY <1>8 DEF Paste
    <3> QED
      BY <3>1, <3>2
  <2> QED
    BY <1>8, <2>1, NextType DEF Paste
<1>9. CASE Compare
  BY <1>9, NextType DEF Compare
<1>10. CASE PressEnter
  <2>1. CASE Finish("SEND_ACTION_FAILED") /\ UNCHANGED <<input, evidence, verdict, presses>>
    BY <1>10, <2>1, FinishType DEF PressEnter
  <2>2. CASE /\ presses' = presses + 1
             /\ input' = (IF caret THEN Append(input, "enter") ELSE input)
             /\ pc' = "look"
             /\ UNCHANGED <<queue, observed, answers>>
    <3>1. Append(input, "enter") \in Seq({"paste", "enter"})
      OBVIOUS
    <3>2. input' \in Seq({"paste", "enter"}) /\ presses' \in Nat
      BY <2>2, <3>1
    <3> QED
      BY <1>10, <2>2, <3>2 DEF PressEnter
  <2> QED
    BY <1>10, <2>1, <2>2 DEF PressEnter
<1>11. CASE Look
  BY <1>11, ShotsType, NodesType DEF Look
<1>12. CASE Judge
  <2>1. \E reason : Finish(reason)
    BY <1>12 DEF Judge
  <2> QED
    BY <1>12, <2>1, FinishType DEF Judge
<1>13. CASE Verify
  BY <1>13 DEF Verify
<1>14. CASE Incoming
  BY <1>14 DEF Incoming
<1>15. CASE Copy
  <2>1. copied' \in BOOLEAN
    <3>1. (copied \/ pc = "paste" \/ PastePending) \in BOOLEAN
      OBVIOUS
    <3> QED
      BY <1>15, <3>1 DEF Copy
  <2> QED
    BY <1>15, <2>1 DEF Copy
<1>16. CASE TakePaste
  <2>1. input' \in Seq({"paste", "enter"})
    BY <1>16 DEF TakePaste
  <2>2. box' \in Seq(Halves)
    <3>1. CASE box' = box
      BY <3>1
    <3>2. ASSUME clip # NoText, NEW n \in 0..Len(box), box' = Insert(box, n, clip)
          PROVE  box' \in Seq(Halves)
      <4>1. clip \in Texts \cup {Foreign} /\ box \in Seq(Halves)
        BY <3>2
      <4> QED
        BY <3>2, <4>1, InsertFacts
    <3> QED
      BY <1>16, <3>1, <3>2 DEF TakePaste
  <2> QED
    BY <1>16, <2>1, <2>2 DEF TakePaste
<1>17. CASE TakeEnter
  <2>1. input' \in Seq({"paste", "enter"})
    BY <1>17 DEF TakeEnter
  <2>2. box' \in Seq(Halves) /\ own' \in Nat
    <3>1. box' \in {box, <<>>} /\ own' \in {own, own + 1}
      BY <1>17 DEF TakeEnter
    <3>2. <<>> \in Seq(Halves)
      OBVIOUS
    <3> QED
      BY <3>1, <3>2
  <2> QED
    BY <1>17, <2>1, <2>2 DEF TakeEnter
<1>18. CASE UNCHANGED vars
  BY <1>18 DEF vars
<1> QED
  BY <1>1, <1>2, <1>3, <1>4, <1>5, <1>6, <1>7, <1>8, <1>9, <1>10, <1>11, <1>12, <1>13,
     <1>14, <1>15, <1>16, <1>17, <1>18 DEF Next

\* Every variable keeps to its range, and only texts get into the box (TypeOK).
THEOREM TypeCorrect == Spec => []TypeOK
<1>1. TypeInv => TypeOK
  BY DEF TypeInv
<1> QED
  BY TypeInit, TypeNext, <1>1, PTL DEF Spec

--------------------------------------------------------------------------------
(* Verdicts.  New message nodes cost the adapter its verdict: they lift the message *)
(* score to 15 of 135 at most, which leaves the overall confidence below one half,  *)
(* while a score of zero with no new node leaves the focus alone, which is certain. *)

\* Content is seen in new nodes only.
LEMMA ContentSeenType ==
    ASSUME NEW n \in Int, NEW seen \in ContentSeen(n)
    PROVE  seen \in BOOLEAN /\ (n <= 0 => ~seen)
<1>1. seen = FALSE \/ seen = (n > 0)
  BY DEF ContentSeen
<1>2. CASE seen = FALSE
  BY <1>2
<1>3. CASE seen = (n > 0)
  <2>0. (n > 0) \in BOOLEAN
    OBVIOUS
  <2>1. seen \in BOOLEAN
    BY <1>3, <2>0, Zenon
  <2>2. seen => n > 0
    BY <1>3, Zenon
  <2> QED
    BY <2>1, <2>2
<1> QED
  BY <1>1, <1>2, <1>3

\* With pictures that can be compared, stage D concludes from the chat area and the absence of
\* new nodes (stageDSendVerification).
LEMMA SendVerdict ==
    ASSUME NEW n \in Int, NEW o \in Observations(n), nodes \in Int, Consistent(o)
    PROVE  SendVerified(o) <=> (o.changed /\ o.newNodes = 0)
<1> DEFINE m == ConfidenceEnhanced(o)
           s == Weigh(o.newNodes > 0, 25) + Weigh(o.match, 20) + Weigh(~o.indicator, 10)
<1>1. /\ o.newNodes \in Int /\ o.match \in BOOLEAN /\ o.clickDiff = -1 /\ o.pasteDiff = -1
      /\ o.areaDiffs = {0} /\ o.changed \in BOOLEAN /\ o.diff \in Int
      /\ o.indicator \in BOOLEAN
  <2>1. /\ o.newNodes = n - nodes /\ o.match \in ContentSeen(n) /\ o.clickDiff = -1
        /\ o.pasteDiff = -1 /\ o.areaDiffs = {0} /\ o.changed \in BOOLEAN
        /\ o.diff \in Diffs \cup {0} /\ o.indicator \in BOOLEAN
    BY DEF Observations
  <2>2. o.match \in BOOLEAN
    BY <2>1, ContentSeenType
  <2> QED
    <3>1. o.newNodes \in Int
      BY <2>1
    <3>2. \A d \in Diffs \cup {0} : d \in Int
      BY DiffsAssumption
    <3> QED
      BY <2>1, <2>2, <3>1, <3>2
<1>2. SuspectedSendFailed(o)
  BY <1>1 DEF SuspectedSendFailed
<1>3. Weigh(o.clickDiff > 10, 15) = 0 /\ Weigh(o.pasteDiff > 10, 10) = 0
      /\ Weigh(\E d \in o.areaDiffs : d > 10, 15) = 0
  BY <1>1 DEF Weigh
<1>4. /\ s \in 0..55
      /\ o.newNodes <= 0 => s \in 0..30
  BY <1>1 DEF Weigh
<1>5. m.d = 135 /\ m.n = IF s < 40 THEN 0 ELSE s - 40
  BY <1>1, <1>2, <1>3 DEF ConfidenceEnhanced, Penalised, Weigh
<1>6. m.n \in 0..15 /\ (o.newNodes <= 0 => m.n = 0)
  BY <1>4, <1>5
<1>7. CASE o.newNodes = 0
  <2>1. Assess(Certain, m, o.newNodes) = [n |-> 1, d |-> 1]
    BY <1>6, <1>7 DEF Assess, Certain
  <2> QED
    BY <1>1, <1>7, <2>1 DEF SendVerified, MoreThan
<1>8. CASE o.newNodes # 0
  <2> DEFINE k == m.n
  <2>1. Assess(Certain, m, o.newNodes) = [n |-> 540 + 6 * k, d |-> 1350]
    BY <1>5, <1>6, <1>8 DEF Assess, Certain
  <2>2. ~MoreThan([n |-> 540 + 6 * k, d |-> 1350], 50)
    BY <1>6 DEF MoreThan
  <2> QED
    BY <1>8, <2>1, <2>2 DEF SendVerified
<1> QED
  BY <1>1, <1>7, <1>8

\* Verify, which takes the focus for certain, says verified exactly if there is no new node
\* (VerifyMessageSend).
LEMMA LaterVerdict ==
    ASSUME NEW n \in Nat, NEW seen \in ContentSeen(n)
    PROVE  LET message == ConfidencePlain(VerifyObservation(n, seen))
           IN  DeliveryState(Assess(Certain, message, n))
                 = IF n = 0 THEN "verified" ELSE "sent_unverified"
<1> DEFINE o == VerifyObservation(n, seen)
           m == ConfidencePlain(o)
<1>1. o.newNodes = n /\ o.match = seen /\ o.changed = FALSE /\ o.diff = 0
  BY DEF VerifyObservation
<1>2. seen \in BOOLEAN /\ (n = 0 => ~seen)
  BY ContentSeenType
<1>3. m.d = 130 /\ m.n = IF n = 0 THEN 0 ELSE IF seen THEN 70 ELSE 40
  BY <1>1, <1>2 DEF ConfidencePlain, Weigh, Penalised
<1>4. CASE n = 0
  <2>1. Assess(Certain, m, n) = [n |-> 1, d |-> 1]
    BY <1>3, <1>4 DEF Assess, Certain
  <2> QED
    BY <1>4, <2>1 DEF DeliveryState, AtLeast
<1>5. CASE n > 0
  <2>1. Assess(Certain, m, n) = [n |-> 520 + 6 * (IF seen THEN 70 ELSE 40), d |-> 1300]
    BY <1>3, <1>5 DEF Assess, Certain
  <2>2. Assess(Certain, m, n) \in {[n |-> 940, d |-> 1300], [n |-> 760, d |-> 1300]}
    BY <1>2, <2>1
  <2> QED
    BY <1>5, <2>2 DEF DeliveryState, AtLeast
<1> QED
  BY <1>4, <1>5

\* The case of Judge, with what it saw.
LEMMA JudgeStep ==
    ASSUME TypeInv, Judge
    PROVE  \E n \in Nat : \E o \in Observations(n) :
              /\ Consistent(o)
              /\ evidence'.newNodes = o.newNodes /\ evidence'.changed = o.changed
              /\ result' = IF SendVerified(o) THEN "SEND_VERIFIED" ELSE "SEND_NOT_VERIFIED"
              /\ SendVerified(o) <=> (o.changed /\ o.newNodes = 0)
<1>1. PICK n \in MessageNodes : \E o \in Observations(n) :
         /\ Consistent(o)
         /\ evidence' = [newNodes |-> o.newNodes, changed |-> o.changed]
         /\ Finish(IF SendVerified(o) THEN "SEND_VERIFIED" ELSE "SEND_NOT_VERIFIED")
  BY DEF Judge
<1>4. PICK o \in Observations(n) :
         /\ Consistent(o)
         /\ evidence' = [newNodes |-> o.newNodes, changed |-> o.changed]
         /\ Finish(IF SendVerified(o) THEN "SEND_VERIFIED" ELSE "SEND_NOT_VERIFIED")
  BY <1>1
<1>2. n \in Nat /\ nodes \in Nat
  BY NodesType DEF TypeInv, TypeOK
<1>3. SendVerified(o) <=> (o.changed /\ o.newNodes = 0)
  BY <1>2, <1>4, SendVerdict
<1> QED
  BY <1>2, <1>3, <1>4 DEF Finish

VerdictInv == TypeInv /\ VerdictsRestOnPixels

\* What leaves evidence, result, verdict and the end of the call alone.
LEMMA VerdictKept ==
    ASSUME VerdictsRestOnPixels, UNCHANGED answers, pc' = "idle" => pc = "idle"
    PROVE  VerdictsRestOnPixels'
  BY DEF VerdictsRestOnPixels, answers

\* A step that reaches no verdict leaves the last one as right as it was.
LEMMA VerdictOnFailure ==
    ASSUME VerdictsRestOnPixels, verdict' = verdict,
           result' \notin {"SEND_VERIFIED", "SEND_NOT_VERIFIED"}
    PROVE  VerdictsRestOnPixels'
  BY DEF VerdictsRestOnPixels

\* Going to the next candidate reaches no verdict.
LEMMA VerdictOnNext ==
    ASSUME VerdictsRestOnPixels, NextCandidate
    PROVE  VerdictsRestOnPixels'
<1>1. CASE Finish("TEXT_INJECTION_FAILED")
  BY <1>1, VerdictOnFailure DEF Finish, NextCandidate
<1>2. CASE pc' = "click" /\ UNCHANGED result
  BY <1>2 DEF VerdictsRestOnPixels, NextCandidate
<1> QED
  BY <1>1, <1>2 DEF NextCandidate

\* There is no verdict yet.
THEOREM VerdictInit == Init => VerdictsRestOnPixels
  BY DEF Init, VerdictsRestOnPixels, NoVerdict

\* Only Judge and Verify reach verdicts, both on pixels.
THEOREM VerdictNext == VerdictInv /\ [Next]_vars => VerdictsRestOnPixels'
<1> SUFFICES ASSUME VerdictInv, [Next]_vars PROVE VerdictsRestOnPixels'
  OBVIOUS
<1>0. TypeInv /\ VerdictsRestOnPixels
  BY DEF VerdictInv
<1>1. ASSUME NEW t \in Texts, Begin(t) PROVE VerdictsRestOnPixels'
  BY <1>1 DEF Begin, VerdictsRestOnPixels, NoVerdict
<1>2. CASE Detect
  <2>1. CASE Finish("INPUT_BOX_PROBE_FAILED") /\ verdict' = verdict
    BY <1>0, <2>1, VerdictOnFailure DEF Finish
  <2>2. CASE pc' = "probe" /\ UNCHANGED answers
    BY <1>0, <2>2, VerdictKept
  <2> QED
    BY <1>2, <2>1, <2>2 DEF Detect
<1>3. CASE Probe
  BY <1>0, <1>3, VerdictKept DEF Probe
<1>4. CASE Reprobe
  BY <1>0, <1>4, VerdictKept DEF Reprobe
<1>5. CASE CaptureBefore
  BY <1>0, <1>5, VerdictKept DEF CaptureBefore
<1>6. CASE ClickCandidate
  BY <1>0, <1>6, VerdictKept, VerdictOnNext DEF ClickCandidate
<1>7. CASE SetClipboard
  BY <1>0, <1>7, VerdictKept, VerdictOnNext DEF SetClipboard
<1>8. CASE Paste
  BY <1>0, <1>8, VerdictKept, VerdictOnNext DEF Paste
<1>9. CASE Compare
  BY <1>0, <1>9, VerdictKept, VerdictOnNext DEF Compare
<1>10. CASE PressEnter
  <2>1. CASE Finish("SEND_ACTION_FAILED") /\ verdict' = verdict
    BY <1>0, <2>1, VerdictOnFailure DEF Finish
  <2>2. CASE pc' = "look" /\ UNCHANGED answers
    BY <1>0, <2>2, VerdictKept
  <2> QED
    BY <1>10, <2>1, <2>2 DEF PressEnter
<1>11. CASE Look
  BY <1>0, <1>11, VerdictKept DEF Look
<1>12. CASE Judge
  <2>1. PICK n \in Nat : \E o \in Observations(n) :
           /\ evidence'.newNodes = o.newNodes /\ evidence'.changed = o.changed
           /\ result' = IF SendVerified(o) THEN "SEND_VERIFIED" ELSE "SEND_NOT_VERIFIED"
           /\ SendVerified(o) <=> (o.changed /\ o.newNodes = 0)
    BY <1>0, <1>12, JudgeStep
  <2>2. result' = "SEND_VERIFIED" <=> (evidence'.changed /\ evidence'.newNodes = 0)
    BY <2>1
  <2>3. verdict' = verdict
    BY <1>12 DEF Judge
  <2> QED
    BY <1>0, <2>2, <2>3 DEF VerdictsRestOnPixels
<1>13. CASE Verify
  <2>1. pc' = pc /\ result' = result /\ evidence' = evidence
    BY <1>13 DEF Verify
  <2>2. CASE verdict' = [state |-> "FOCUS_FAILED", nodes |-> 0]
    BY <1>0, <2>1, <2>2 DEF VerdictsRestOnPixels
  <2>3. ASSUME NEW n \in MessageNodes, NEW seen \in ContentSeen(n),
               verdict' = [state |-> DeliveryState(Assess(Certain,
                                       ConfidencePlain(VerifyObservation(n, seen)), n)),
                           nodes |-> n]
        PROVE  VerdictsRestOnPixels'
    <3>1. n \in Nat
      BY <1>0, NodesType DEF TypeInv
    <3>2. verdict'.state = IF verdict'.nodes = 0 THEN "verified" ELSE "sent_unverified"
      BY <2>3, <3>1, LaterVerdict
    <3> QED
      BY <1>0, <2>1, <3>2 DEF VerdictsRestOnPixels
  <2> QED
    BY <1>13, <2>2, <2>3 DEF Verify
<1>14. CASE Incoming
  BY <1>0, <1>14, VerdictKept DEF Incoming
<1>15. CASE Copy
  BY <1>0, <1>15, VerdictKept DEF Copy
<1>16. CASE TakePaste
  BY <1>0, <1>16, VerdictKept DEF TakePaste
<1>17. CASE TakeEnter
  BY <1>0, <1>17, VerdictKept DEF TakeEnter
<1>18. CASE UNCHANGED vars
  BY <1>0, <1>18, VerdictKept DEF vars
<1> QED
  BY <1>1, <1>2, <1>3, <1>4, <1>5, <1>6, <1>7, <1>8, <1>9, <1>10, <1>11, <1>12, <1>13,
     <1>14, <1>15, <1>16, <1>17, <1>18 DEF Next

\* Stage D and Verify conclude nothing from a new message node: with one they never say
\* that the message was verified, whatever was measured (VerdictsRestOnPixels).
THEOREM VerdictsOnPixels == Spec => []VerdictsRestOnPixels
  BY TypeInit, TypeNext, VerdictInit, VerdictNext, PTL DEF Spec, VerdictInv

\* A step that judges a landed message with quiet nodes verifies it.
LEMMA LandedNext ==
    ASSUME TypeInv, [Next]_vars, pc = "judge", pc' = "idle",
           before.kind = "real", after.kind = "real", after.chat > before.chat,
           evidence'.newNodes = 0
    PROVE  result' = "SEND_VERIFIED"
<1>1. Judge
  BY DEF Next, vars, Begin, Detect, Probe, Reprobe, CaptureBefore, ClickCandidate,
         SetClipboard, Paste, Compare, PressEnter, Look, Verify, TakePaste, TakeEnter, Incoming, Copy
<1>2. PICK n \in Nat : \E o \in Observations(n) :
         /\ Consistent(o)
         /\ evidence'.newNodes = o.newNodes
         /\ result' = IF SendVerified(o) THEN "SEND_VERIFIED" ELSE "SEND_NOT_VERIFIED"
         /\ SendVerified(o) <=> (o.changed /\ o.newNodes = 0)
  BY <1>1, JudgeStep
<1>3. after # before /\ MayDiffer(before, after)
  <2>1. before.chat \in Nat /\ after.chat \in Nat
    BY DEF TypeInv, TypeOK, Shot
  <2> QED
    BY <2>1 DEF MayDiffer
<1> QED
  BY <1>2, <1>3 DEF Consistent

\* A message that landed between two screenshots of the window is verified, if the number
\* of message nodes did not change during the verification (LandedIsVerified).
THEOREM LandedVerified == Spec => LandedIsVerified
<1>1. TypeInv /\ [Next]_vars =>
        [(/\ pc = "judge" /\ pc' = "idle"
          /\ before.kind = "real" /\ after.kind = "real" /\ after.chat > before.chat
          /\ evidence'.newNodes = 0)
         => result' = "SEND_VERIFIED"]_vars
  BY LandedNext
<1> QED
  BY TypeInit, TypeNext, <1>1, PTL DEF Spec, LandedIsVerified


--------------------------------------------------------------------------------
(* What Enter sends.  From the beginning of a call until the client has taken its   *)
(* Enter, the box and the pastes still to be taken account for each candidate over  *)
(* the box that was clicked: a candidate is tried once, and the caret says whether  *)
(* it lies over the box.  A paste that is still to be taken will find the content   *)
(* in the clipboard, or another program's copy, and once one was pressed for the    *)
(* candidate that Enter is pressed for, it will find a text.                        *)

Mine == Len(box) - Len(left)

\* The candidates whose paste may be in the box or still to be taken.
Clicked == IF pc \in {"clip", "paste"} THEN tried \ {Head(queue)} ELSE tried

EnterPending == \E i \in DOMAIN input : input[i] = "enter"

Pastes == IF EnterPending THEN Len(input) - 1 ELSE Len(input)

Trying == {"detect", "probe", "reprobe", "capture", "click", "clip", "paste", "compare", "enter"}

\* Enter of this call may still come to the box.
Live == ~late /\ (pc \in Trying \/ EnterPending)

\* Enter is the last key of a call.
Shape ==
    /\ \A i \in 1..Len(input) - 1 : input[i] = "paste"
    /\ pc \in Trying => ~EnterPending

\* Every paste goes back to a candidate over the box.
Count == \E k \in Nat : Mine = 2 * k /\ k + Pastes <= Cardinality(Clicked \cap over)

Kept ==
    /\ InOrder(left, box)
    /\ \A i \in DOMAIN box : box[i][1] \in Pasted \/ \E j \in DOMAIN left : box[i] = left[j]

Exact ==
    /\ Mine = 0 => box = left
    /\ Mine = 2 => \E n \in 0..Len(left), t \in Pasted : box = Insert(left, n, t)

ClipText == pc = "paste" \/ PastePending => clip \in Pasted \cup {NoText}

ClipFirm == pc \in {"paste", "compare", "enter"} \/ EnterPending => clip # NoText

\* Where Enter will be taken by the box, the content is in it or comes before.
Least ==
    (pc \in {"compare", "enter"} /\ caret) \/ EnterPending => Mine >= 2 \/ Pastes >= 1

LiveInv == Shape /\ Count /\ Kept /\ Exact /\ ClipText /\ ClipFirm /\ Least

\* Each candidate is in the queue once, and those that were tried are no longer to come.
QueueFresh ==
    /\ pc \in {"detect", "probe", "reprobe", "capture"} => tried = {}
    /\ pc \in {"capture"} \cup Trials => \A i, j \in 1..Len(queue) : queue[i] = queue[j] => i = j
    /\ pc = "click" => \A i \in 1..Len(queue) : queue[i] \notin tried
    /\ pc \in {"clip", "paste", "compare"} =>
          queue[1] \in tried /\ \A i \in 2..Len(queue) : queue[i] \notin tried

CaretOver == pc \in {"clip", "paste", "compare"} => (caret <=> queue[1] \in over)

PasteInv == QueueFresh /\ CaretOver /\ (Live => LiveInv)

\* The candidates over the box that were tried can be counted.
LEMMA FiniteTried ==
    ASSUME TypeOK, NEW S \in SUBSET (1..number)
    PROVE  /\ IsFiniteSet(S \cap over) /\ Cardinality(S \cap over) \in Nat
           /\ \A T \in SUBSET S : Cardinality(T \cap over) <= Cardinality(S \cap over)
<1>1. IsFiniteSet(1..number)
  BY FS_Interval DEF TypeOK
<1>2. IsFiniteSet(S \cap over)
  BY <1>1, FS_Subset
<1>3. \A T \in SUBSET S : T \cap over \subseteq S \cap over
  OBVIOUS
<1> QED
  BY <1>2, <1>3, FS_Subset, FS_CardinalityType

\* Trying one more counts one more.
LEMMA OneMore ==
    ASSUME TypeOK, NEW S \in SUBSET (1..number), NEW c \in S, c \in over
    PROVE  Cardinality(S \cap over) = Cardinality((S \ {c}) \cap over) + 1
<1>1. IsFiniteSet(S \cap over) /\ c \in S \cap over
  BY FiniteTried
<1>2. (S \ {c}) \cap over = (S \cap over) \ {c}
  OBVIOUS
<1>3. Cardinality(S \cap over) \in Nat
  BY <1>1, FS_CardinalityType
<1> QED
  <2>1. Cardinality((S \cap over) \ {c}) = Cardinality(S \cap over) - 1
    BY <1>1, FS_RemoveElement, Zenon
  <2> QED
    BY <1>2, <1>3, <2>1

\* What the head and the tail of the queue are.
LEMMA HeadTail ==
    ASSUME TypeOK, queue # <<>>
    PROVE  /\ Head(queue) = queue[1] /\ queue[1] \in 1..number
           /\ Len(Tail(queue)) = Len(queue) - 1 /\ Len(queue) \in Nat /\ Len(queue) >= 1
           /\ \A i \in 1..Len(Tail(queue)) : Tail(queue)[i] = queue[i + 1]
  BY DEF TypeOK

\* A plan has no candidate twice.
LEMMA PlanDistinct ==
    ASSUME number \in Nat, number >= 1, NEW q \in Plan
    PROVE  \A i, j \in 1..Len(q) : q[i] = q[j] => i = j
<1>1. ASSUME NEW c \in 1..number, q = <<c>> PROVE \A i, j \in 1..Len(q) : q[i] = q[j] => i = j
  BY <1>1
<1>2. CASE q = [c \in 1..number |-> c]
  <2>1. Len(q) = number
    BY <1>2
  <2> QED
    BY <1>2, <2>1
<1> QED
  BY <1>1, <1>2 DEF Plan, Highest, Confirmed

\* The count of the candidates clicked is a number, and of all tried one no smaller.
LEMMA ClickedFacts ==
    ASSUME TypeOK
    PROVE  /\ Cardinality(Clicked \cap over) \in Nat /\ Cardinality(tried \cap over) \in Nat
           /\ Cardinality(Clicked \cap over) <= Cardinality(tried \cap over)
<1>1. Clicked \in SUBSET tried /\ tried \in SUBSET (1..number) /\ Clicked \in SUBSET (1..number)
  BY DEF Clicked, TypeOK
<1> QED
  BY <1>1, FiniteTried

\* A text goes in between halves and leaves them in their order.
LEMMA InsertInOrder ==
    ASSUME NEW l \in Seq(Halves), NEW s \in Seq(Halves), NEW n \in 0..Len(s),
           NEW t \in Texts \cup {Foreign}, InOrder(l, s)
    PROVE  InOrder(l, Insert(s, n, t))
<1> DEFINE r == Insert(s, n, t)
           at(p) == IF p <= n THEN p ELSE p + 2
<1>1. /\ r \in Seq(Halves) /\ Len(r) = Len(s) + 2
      /\ \A i \in 1..n : r[i] = s[i]
      /\ \A i \in n + 1..Len(s) : r[i + 2] = s[i]
  BY InsertFacts
<1> HIDE DEF r
<1>2. \A p \in DOMAIN s : at(p) \in DOMAIN r /\ r[at(p)] = s[p]
  BY <1>1
<1>3. \A p, q \in DOMAIN s : p < q => at(p) < at(q)
  OBVIOUS
<1> HIDE DEF at
<1>4. InOrder(l, r)
  BY <1>2, <1>3 DEF InOrder
<1> QED
  BY <1>4 DEF r

\* What keeps the accounts while the box, the keys and the clipboard stay as they are.
LEMMA LiveKept ==
    ASSUME TypeOK, Live => LiveInv,
           UNCHANGED <<text, input, box, clip, left, late, copied>>,
           pc' \in Trying => pc \in Trying,
           pc' \in {"compare", "enter"} /\ caret' => pc \in {"compare", "enter"} /\ caret,
           pc' = "paste" => pc = "paste",
           pc' \in {"paste", "compare", "enter"} => pc \in {"paste", "compare", "enter"},
           \A j \in Nat : j <= Cardinality(Clicked \cap over) =>
                             j <= Cardinality(Clicked' \cap over')
    PROVE  Live' => LiveInv'
<1>0. TypeOK
  OBVIOUS
<1>1. EnterPending' = EnterPending /\ Pastes' = Pastes /\ Mine' = Mine /\ Pasted' = Pasted
      /\ PastePending' = PastePending
  BY DEF EnterPending, Pastes, Mine, Pasted, PastePending
<1>2. Live' => Live
  BY <1>1 DEF Live
<1>3. Live => Shape /\ Count /\ Kept /\ Exact /\ ClipText /\ ClipFirm /\ Least
  BY DEF LiveInv
<1>4. Live => Shape' /\ Kept' /\ Exact'
  BY <1>1, <1>3 DEF Shape, Kept, Exact
<1>5. Live => Count'
  <2>1. SUFFICES ASSUME Live PROVE Count'
    OBVIOUS
  <2>2. PICK k \in Nat : Mine = 2 * k /\ k + Pastes <= Cardinality(Clicked \cap over)
    BY <1>3, <2>1 DEF Count
  <2>3. Pastes \in Nat
    BY <1>0 DEF TypeOK, Pastes, EnterPending
  <2>4. k + Pastes <= Cardinality(Clicked' \cap over')
    BY <2>2, <2>3
  <2> QED
    BY <1>1, <2>2, <2>4 DEF Count
<1>6. Live => ClipText' /\ ClipFirm' /\ Least'
  BY <1>1, <1>3 DEF ClipText, ClipFirm, Least
<1> QED
  BY <1>2, <1>4, <1>5, <1>6 DEF LiveInv

\* A candidate that is passed over: the box stays, and the next one was not tried.
LEMMA PastePassed ==
    ASSUME TypeInv, PasteInv, NextCandidate, pc \in Trials,
           UNCHANGED <<text, over, number, input, box, left, late, tried, copied>>,
           clip' \in {clip, NoText}
    PROVE  PasteInv'
<1> USE DEF TypeInv, Trials
<1>0. TypeOK /\ queue # <<>> /\ pc \in Trials
  BY DEF QueueOK
<1>1. CASE pc' = "idle"
  <2>1. ~Live'
    <3>1. Live => ~EnterPending
      BY <1>0 DEF PasteInv, LiveInv, Shape, Trying
    <3>2. EnterPending' = EnterPending /\ late' = late /\ pc \in Trying
      BY <1>0 DEF EnterPending, Trying
    <3> QED
      BY <1>1, <3>1, <3>2 DEF Live, Trying
  <2> QED
    BY <1>1, <2>1 DEF PasteInv, QueueFresh, CaretOver
<1>2. CASE pc' = "click" /\ queue' = Tail(queue)
  <2>1. QueueFresh'
    BY <1>0, <1>2, HeadTail DEF PasteInv, QueueFresh
  <2>2. CaretOver'
    BY <1>2 DEF CaretOver
  <2>3. ASSUME Live' PROVE LiveInv'
    <3>1. /\ EnterPending' = EnterPending /\ Pastes' = Pastes /\ Mine' = Mine
          /\ Pasted' = Pasted /\ PastePending' = PastePending
      BY DEF EnterPending, Pastes, Mine, Pasted, PastePending
    <3>2. Live /\ pc \in Trying
      BY <1>0, <2>3 DEF Live, Trying
    <3>3. Shape /\ Count /\ Kept /\ Exact /\ ClipText /\ ~EnterPending
      BY <3>2 DEF PasteInv, LiveInv, Shape
    <3>4. Shape' /\ Kept' /\ Exact'
      BY <3>1, <3>3 DEF Shape, Kept, Exact
    <3>5. Count'
      <4>1. PICK k \in Nat : Mine = 2 * k /\ k + Pastes <= Cardinality(Clicked \cap over)
        BY <3>3 DEF Count
      <4>2. Clicked' = tried
        BY <1>2 DEF Clicked
      <4>3. Pastes \in Nat
        BY <1>0 DEF TypeOK, Pastes, EnterPending
      <4>4. k + Pastes <= Cardinality(tried \cap over)
        BY <1>0, <4>1, <4>3, ClickedFacts
      <4> QED
        BY <3>1, <4>1, <4>2, <4>4 DEF Count
    <3>6. ClipText' /\ ClipFirm' /\ Least'
      BY <1>2, <3>1, <3>3 DEF ClipText, ClipFirm, Least
    <3> QED
      BY <3>4, <3>5, <3>6 DEF LiveInv
  <2> QED
    BY <2>1, <2>2, <2>3 DEF PasteInv
<1> QED
  BY <1>1, <1>2 DEF NextCandidate, Finish

\* The end of a call, and steps after Enter: nothing is tried any more.
LEMMA PasteOver ==
    ASSUME TypeInv, PasteInv, UNCHANGED <<text, over, tried>>,
           UNCHANGED <<input, box, clip, left, late, copied>>,
           pc' \in {"idle", "look", "judge"}
    PROVE  PasteInv'
<1>1. QueueFresh' /\ CaretOver'
  BY DEF QueueFresh, CaretOver, Trials
<1>2. \A j \in Nat : j <= Cardinality(Clicked \cap over) =>
                        j <= Cardinality(Clicked' \cap over')
  <2>1. Clicked' = tried /\ over' = over
    BY DEF Clicked
  <2> QED
    BY <2>1, ClickedFacts DEF TypeInv
<1>3. Live' => LiveInv'
  <2>1. TypeOK /\ (Live => LiveInv) /\ pc' \notin Trying
    BY DEF TypeInv, PasteInv, Trying
  <2>2. /\ pc' \notin {"compare", "enter"} /\ pc' # "paste"
        /\ pc' \notin {"paste", "compare", "enter"}
    OBVIOUS
  <2> QED
    BY <1>2, <2>1, <2>2, LiveKept
<1> QED
  BY <1>1, <1>3 DEF PasteInv

\* The steps that leave the call where it is, the box, the keys and the clipboard.
LEMMA PasteStill ==
    ASSUME TypeInv, PasteInv,
           UNCHANGED <<pc, text, over, queue, caret, tried>>,
           UNCHANGED <<input, box, clip, left, late, copied>>
    PROVE  PasteInv'
<1>1. QueueFresh' /\ CaretOver'
  BY DEF PasteInv, QueueFresh, CaretOver
<1>2. Clicked' = Clicked /\ over' = over
  BY DEF Clicked
<1>3. Live' => LiveInv'
  <2>1. TypeOK /\ (Live => LiveInv)
    BY DEF TypeInv, PasteInv
  <2> QED
    BY <1>2, <2>1, LiveKept
<1> QED
  BY <1>1, <1>3 DEF PasteInv

\* Stage A up to the first picture: nothing was tried yet.
LEMMA PasteUntried ==
    ASSUME TypeInv, PasteInv, pc \in {"detect", "probe", "reprobe", "capture"},
           pc' \in {"probe", "reprobe", "capture", "click"},
           UNCHANGED <<text, tried, input, box, clip, left, late, copied>>
    PROVE  /\ tried = {} /\ CaretOver' /\ (Live' => LiveInv')
<1>1. tried = {}
  BY DEF PasteInv, QueueFresh
<1>2. CaretOver'
  BY DEF CaretOver
<1>3. Clicked \cap over = {} /\ Clicked' \cap over' = {}
  BY <1>1 DEF Clicked
<1>4. Live' => LiveInv'
  <2>1. TypeOK /\ (Live => LiveInv) /\ pc \in Trying
    BY DEF TypeInv, PasteInv, Trying
  <2>2. /\ pc' \notin {"compare", "enter"} /\ pc' # "paste"
        /\ pc' \notin {"paste", "compare", "enter"}
    OBVIOUS
  <2> QED
    BY <1>3, <2>1, <2>2, LiveKept
<1> QED
  BY <1>1, <1>2, <1>4

\* A call begins: the box is what is left in it, and no key is to come or the call is late.
LEMMA PasteBegin ==
    ASSUME TypeInv, NEW t \in Texts, Begin(t)
    PROVE  PasteInv'
<1>1. /\ pc' = "detect" /\ tried' = {} /\ left' = box /\ box' = box /\ input' = input
      /\ late' = (input # <<>>)
  BY DEF Begin, chat
<1>2. QueueFresh' /\ CaretOver'
  BY <1>1 DEF QueueFresh, CaretOver, Trials
<1>3. ASSUME Live' PROVE LiveInv'
  <2>1. input' = <<>> /\ box' = left' /\ box \in Seq(Halves) /\ Len(box) \in Nat
    <3>1. ~late'
      BY <1>3 DEF Live
    <3>2. input = <<>>
      BY <1>1, <3>1
    <3> QED
      BY <1>1, <3>2 DEF TypeInv, TypeOK
  <2>2. ~EnterPending' /\ Pastes' = 0 /\ ~PastePending'
    BY <2>1 DEF EnterPending, Pastes, PastePending
  <2>3. Mine' = 0
    BY <1>1, <2>1 DEF Mine
  <2>4. Shape'
    BY <2>1, <2>2 DEF Shape
  <2>5. Count'
    <3>1. Clicked' \cap over' = {}
      BY <1>1 DEF Clicked
    <3>2. Cardinality(Clicked' \cap over') = 0
      BY <3>1, FS_EmptySet
    <3> QED
      BY <2>2, <2>3, <3>2 DEF Count
  <2>6. Kept'
    <3>1. InOrder(box, box)
      BY DEF InOrder
    <3> QED
      BY <1>1, <2>1, <3>1 DEF Kept
  <2>7. Exact'
    BY <2>1, <2>3 DEF Exact
  <2>8. ClipText' /\ ClipFirm' /\ Least'
    BY <1>1, <2>2 DEF ClipText, ClipFirm, Least
  <2> QED
    BY <2>4, <2>5, <2>6, <2>7, <2>8 DEF LiveInv
<1> QED
  BY <1>2, <1>3 DEF PasteInv

\* A candidate is clicked: its paste may come.
LEMMA PasteClick ==
    ASSUME TypeInv, PasteInv, ClickCandidate
    PROVE  PasteInv'
<1>0. TypeOK /\ pc = "click" /\ queue # <<>>
  BY DEF TypeInv, QueueOK, ClickCandidate, Trials
<1>1. CASE NextCandidate /\ UNCHANGED <<caret, tried>>
  BY <1>0, <1>1, PastePassed DEF ClickCandidate, stageA, Trials
<1>2. CASE /\ caret' = (Head(queue) \in over) /\ tried' = tried \cup {Head(queue)}
           /\ pc' = "clip" /\ UNCHANGED <<queue, observed, answers>>
  <2>1. /\ UNCHANGED <<text, over, queue>>
        /\ UNCHANGED <<input, box, clip, left, late, copied>>
    BY <1>2 DEF ClickCandidate, stageA
  <2>2. /\ Head(queue) = queue[1] /\ Len(queue) >= 1 /\ Len(queue) \in Nat
        /\ \A i \in 1..Len(queue) : queue[i] \notin tried
        /\ \A i, j \in 1..Len(queue) : queue[i] = queue[j] => i = j
    BY <1>0, HeadTail DEF PasteInv, QueueFresh, Trials
  <2>3. QueueFresh'
    BY <1>2, <2>1, <2>2 DEF QueueFresh, Trials
  <2>4. CaretOver'
    BY <1>2, <2>1, <2>2 DEF CaretOver
  <2>5. Clicked' = Clicked
    BY <1>0, <1>2, <2>1, <2>2 DEF Clicked
  <2>6. Live' => LiveInv'
    <3>1. (Live => LiveInv) /\ pc \in Trying
      BY <1>0 DEF PasteInv, Trying
    <3> QED
      BY <1>0, <1>2, <2>1, <2>5, <3>1, LiveKept
  <2> QED
    BY <2>3, <2>4, <2>6 DEF PasteInv
<1> QED
  BY <1>1, <1>2 DEF ClickCandidate

\* The clipboard is set: every paste that is still to be taken will find the content.
LEMMA PasteClip ==
    ASSUME TypeInv, PasteInv, SetClipboard
    PROVE  PasteInv'
<1>0. TypeOK /\ pc = "clip"
  BY DEF TypeInv, SetClipboard
<1>1. CASE NextCandidate /\ clip' \in {clip, NoText}
  BY <1>0, <1>1, PastePassed DEF SetClipboard, stageA, client, observers, Trials
<1>2. CASE clip' = text /\ pc' = "paste" /\ UNCHANGED <<queue, observed, answers>>
  <2>1. UNCHANGED <<text, over, queue, caret, tried, input, box, left, late, copied>>
    BY <1>2 DEF SetClipboard, stageA, client, observers
  <2>2. QueueFresh' /\ CaretOver'
    BY <1>0, <1>2, <2>1 DEF PasteInv, QueueFresh, CaretOver, Trials
  <2>3. ASSUME Live' PROVE LiveInv'
    <3>1. /\ EnterPending' = EnterPending /\ Pastes' = Pastes /\ Mine' = Mine
          /\ Pasted' = Pasted /\ Clicked' = Clicked
      BY <1>0, <1>2, <2>1 DEF EnterPending, Pastes, Mine, Pasted, Clicked
    <3>2. Live
      BY <1>0, <2>1, <2>3 DEF Live, Trying
    <3>3. Shape /\ Count /\ Kept /\ Exact /\ ~EnterPending
      BY <1>0, <3>2 DEF PasteInv, LiveInv, Shape, Trying
    <3>4. Shape' /\ Kept' /\ Exact'
      BY <2>1, <3>1, <3>3 DEF Shape, Kept, Exact
    <3>5. Count'
      BY <2>1, <3>1, <3>3 DEF Count
    <3>6. clip' = text' /\ clip' \in Pasted' /\ clip' # NoText
      BY <1>0, <1>2, <2>1, TextsAssumption DEF Pasted, TypeOK
    <3>7. ClipText' /\ ClipFirm' /\ Least'
      BY <1>2, <3>1, <3>3, <3>6 DEF ClipText, ClipFirm, Least
    <3> QED
      BY <3>4, <3>5, <3>7 DEF LiveInv
  <2> QED
    BY <2>2, <2>3 DEF PasteInv
<1> QED
  BY <1>1, <1>2 DEF SetClipboard

\* Ctrl+V is pressed for a candidate that was not counted before.
LEMMA PastePress ==
    ASSUME TypeInv, PasteInv, Paste
    PROVE  PasteInv'
<1>0. TypeOK /\ pc = "paste" /\ queue # <<>>
  BY DEF TypeInv, QueueOK, Paste, Trials
<1>1. CASE NextCandidate /\ UNCHANGED input
  BY <1>0, <1>1, PastePassed DEF Paste, stageA, observers, Trials
<1>2. CASE /\ input' = (IF caret THEN Append(input, "paste") ELSE input)
           /\ pc' = "compare" /\ UNCHANGED <<queue, observed, answers>>
  <2>1. UNCHANGED <<text, over, queue, caret, tried, box, clip, left, late, copied>>
    BY <1>2 DEF Paste, stageA, observers
  <2>2. QueueFresh' /\ CaretOver'
    BY <1>0, <1>2, <2>1 DEF PasteInv, QueueFresh, CaretOver, Trials
  <2>3. Clicked = tried \ {queue[1]} /\ Clicked' = tried /\ queue[1] \in tried
        /\ tried \in SUBSET (1..number) /\ (caret <=> queue[1] \in over)
    BY <1>0, <1>2, <2>1, HeadTail DEF Clicked, PasteInv, QueueFresh, CaretOver, TypeOK
  <2>4. ASSUME Live' PROVE LiveInv'
    <3>0. /\ input \in Seq({"paste", "enter"}) /\ Len(input) \in Nat
          /\ Append(input, "paste") \in Seq({"paste", "enter"})
          /\ Len(Append(input, "paste")) = Len(input) + 1
          /\ Append(input, "paste")[Len(input) + 1] = "paste"
          /\ \A i \in 1..Len(input) : Append(input, "paste")[i] = input[i]
      BY <1>0 DEF TypeOK
    <3>1. Live /\ Mine' = Mine /\ Pasted' = Pasted
      <4>1. late' = late /\ pc \in Trying
        BY <1>0, <2>1 DEF Trying
      <4> QED
        BY <2>1, <2>4, <4>1 DEF Live, Mine, Pasted
    <3>2. Shape /\ Count /\ Kept /\ Exact /\ ClipText /\ ClipFirm /\ ~EnterPending
      BY <1>0, <3>1 DEF PasteInv, LiveInv, Shape, Trying
    <3>3. Pastes = Len(input) /\ Pastes \in Nat
      BY <3>0, <3>2 DEF Pastes
    <3>4. \A i \in 1..Len(input) : input[i] = "paste"
      <4>1. \A i \in 1..Len(input) : input[i] \in {"paste", "enter"} /\ input[i] # "enter"
        BY <3>0, <3>2 DEF EnterPending
      <4> QED
        BY <4>1
    <3>5. /\ ~EnterPending' /\ Pastes' = (IF caret THEN Pastes + 1 ELSE Pastes)
          /\ \A i \in 1..Len(input') - 1 : input'[i] = "paste"
      <4>1. CASE caret
        <5>1. input' = Append(input, "paste")
          BY <1>2, <4>1
        <5>2. ~EnterPending'
          <6>1. DOMAIN input' = 1..Len(input) + 1
            BY <3>0, <5>1
          <6>2. \A i \in 1..Len(input) + 1 : input'[i] = "paste"
            BY <3>0, <3>4, <5>1
          <6> QED
            BY <6>1, <6>2 DEF EnterPending
        <5> QED
          BY <3>0, <3>3, <3>4, <4>1, <5>1, <5>2 DEF Pastes
      <4>2. CASE ~caret
        <5>1. input' = input
          BY <1>2, <4>2
        <5>2. ~EnterPending'
          BY <3>2, <5>1 DEF EnterPending
        <5> QED
          BY <3>0, <3>3, <3>4, <4>2, <5>1, <5>2 DEF Pastes
      <4> QED
        BY <4>1, <4>2
    <3>6. Shape' /\ Kept' /\ Exact'
      BY <2>1, <3>1, <3>2, <3>5 DEF Shape, Kept, Exact
    <3>7. Count'
      <4>1. PICK k \in Nat : Mine = 2 * k /\ k + Pastes <= Cardinality(Clicked \cap over)
        BY <3>2 DEF Count
      <4>2. CASE caret
        <5>1. Cardinality(tried \cap over) = Cardinality(Clicked \cap over) + 1
          BY <1>0, <2>3, <4>2, OneMore
        <5>2. k + (Pastes + 1) <= Cardinality(tried \cap over)
          BY <1>0, <3>3, <4>1, <5>1, ClickedFacts
        <5> QED
          BY <2>1, <2>3, <3>1, <3>5, <4>1, <4>2, <5>2 DEF Count
      <4>3. CASE ~caret
        <5>1. k + Pastes <= Cardinality(tried \cap over)
          BY <1>0, <3>3, <4>1, ClickedFacts
        <5> QED
          BY <2>1, <2>3, <3>1, <3>5, <4>1, <4>3, <5>1 DEF Count
      <4> QED
        BY <4>2, <4>3
    <3>8. ClipText' /\ ClipFirm'
      BY <1>0, <1>2, <2>1, <3>1, <3>2, <3>5 DEF ClipText, ClipFirm
    <3>9. Least'
      BY <1>2, <2>1, <3>3, <3>5 DEF Least
    <3> QED
      BY <3>6, <3>7, <3>8, <3>9 DEF LiveInv
  <2> QED
    BY <2>2, <2>4 DEF PasteInv
<1> QED
  BY <1>1, <1>2 DEF Paste

\* Enter is pressed: it is the last key, after the paste for the same candidate.
LEMMA PasteEnter ==
    ASSUME TypeInv, PasteInv, PressEnter
    PROVE  PasteInv'
<1>0. TypeOK /\ pc = "enter" /\ UNCHANGED <<text, over, tried, caret, box, clip, left, late, copied>>
  BY DEF TypeInv, PressEnter, stageA
<1>1. CASE UNCHANGED input /\ pc' \in {"idle", "look"}
  BY <1>0, <1>1, PasteOver
<1>2. CASE caret /\ input' = Append(input, "enter") /\ pc' = "look"
  <2>1. QueueFresh' /\ CaretOver'
    BY <1>2 DEF QueueFresh, CaretOver, Trials
  <2>2. ASSUME Live' PROVE LiveInv'
    <3>0. /\ input \in Seq({"paste", "enter"}) /\ Len(input) \in Nat
          /\ Append(input, "enter") \in Seq({"paste", "enter"})
          /\ Len(Append(input, "enter")) = Len(input) + 1
          /\ Append(input, "enter")[Len(input) + 1] = "enter"
          /\ \A i \in 1..Len(input) : Append(input, "enter")[i] = input[i]
      BY <1>0 DEF TypeOK
    <3>1. Live /\ Mine' = Mine /\ Pasted' = Pasted /\ Clicked' = Clicked
      <4>1. late' = late /\ pc \in Trying
        BY <1>0 DEF Trying
      <4> QED
        BY <1>0, <1>2, <2>2, <4>1 DEF Live, Mine, Pasted, Clicked
    <3>2. Shape /\ Count /\ Kept /\ Exact /\ ClipText /\ ClipFirm /\ Least /\ ~EnterPending
      BY <1>0, <3>1 DEF PasteInv, LiveInv, Shape, Trying
    <3>3. Pastes = Len(input) /\ \A i \in 1..Len(input) : input[i] = "paste"
      <4>1. \A i \in 1..Len(input) : input[i] \in {"paste", "enter"} /\ input[i] # "enter"
        BY <3>0, <3>2 DEF EnterPending
      <4> QED
        BY <3>2, <4>1 DEF Pastes
    <3>4. Len(input') = Len(input) + 1 /\ EnterPending' /\ Pastes' = Pastes
      BY <1>2, <3>0, <3>3 DEF EnterPending, Pastes
    <3>5. Shape'
      BY <1>2, <3>0, <3>3, <3>4 DEF Shape, Trying
    <3>6. Kept' /\ Exact' /\ Count'
      BY <1>0, <3>1, <3>2, <3>4 DEF Kept, Exact, Count
    <3>7. PastePending' => PastePending
      BY <1>2, <3>0, <3>4 DEF PastePending
    <3>8. ClipText' /\ ClipFirm' /\ Least'
      BY <1>0, <1>2, <3>1, <3>2, <3>4, <3>7 DEF ClipText, ClipFirm, Least
    <3> QED
      BY <3>5, <3>6, <3>8 DEF LiveInv
  <2> QED
    BY <2>1, <2>2 DEF PasteInv
<1> QED
  BY <1>1, <1>2 DEF PressEnter, Finish

\* Another program's copy is noted when a paste may find it.
LEMMA PasteCopy ==
    ASSUME TypeInv, PasteInv, Copy
    PROVE  PasteInv'
<1>0. /\ TypeOK /\ UNCHANGED <<pc, text, over, queue, tried, caret, input, box, left, late>>
      /\ clip' = Foreign /\ (copied => copied')
      /\ (pc = "paste" \/ PastePending => copied')
  BY DEF TypeInv, Copy, stageA, client
<1>1. QueueFresh' /\ CaretOver'
  BY <1>0 DEF PasteInv, QueueFresh, CaretOver
<1>2. ASSUME Live' PROVE LiveInv'
  <2>1. /\ EnterPending' = EnterPending /\ Pastes' = Pastes /\ Mine' = Mine
        /\ Clicked' = Clicked /\ PastePending' = PastePending /\ Pasted \subseteq Pasted'
    BY <1>0 DEF EnterPending, Pastes, Mine, Clicked, PastePending, Pasted
  <2>2. Live
    BY <1>0, <1>2, <2>1 DEF Live
  <2>3. Shape /\ Count /\ Kept /\ Exact /\ ClipText /\ ClipFirm /\ Least
    BY <2>2 DEF PasteInv, LiveInv
  <2>4. Shape' /\ Count' /\ Least'
    BY <1>0, <2>1, <2>3 DEF Shape, Count, Least
  <2>5. Kept' /\ Exact'
    BY <1>0, <2>1, <2>3 DEF Kept, Exact
  <2>6. pc = "paste" \/ PastePending => clip' \in Pasted'
    BY <1>0 DEF Pasted
  <2>7. ClipText' /\ ClipFirm'
    BY <1>0, <2>1, <2>6, TextsAssumption DEF ClipText, ClipFirm
  <2> QED
    BY <2>4, <2>5, <2>7 DEF LiveInv
<1> QED
  BY <1>1, <1>2 DEF PasteInv

\* The client takes a paste: one less to come, and its text is in the box.
LEMMA PasteTaken ==
    ASSUME TypeInv, PasteInv, TakePaste
    PROVE  PasteInv'
<1>0. /\ TypeOK /\ input # <<>> /\ Head(input) = "paste" /\ input' = Tail(input)
      /\ UNCHANGED <<pc, text, over, queue, tried, caret, clip, left, late, copied>>
  BY DEF TypeInv, TakePaste, stageA, observers
<1>1. QueueFresh' /\ CaretOver'
  BY <1>0 DEF PasteInv, QueueFresh, CaretOver
<1>2. ASSUME Live' PROVE LiveInv'
  <2>0. /\ Len(input) \in Nat /\ Len(input) >= 1 /\ input[1] = "paste"
        /\ Len(input') = Len(input) - 1
        /\ \A i \in 1..Len(input) - 1 : input'[i] = input[i + 1]
        /\ box \in Seq(Halves) /\ left \in Seq(Halves)
    BY <1>0 DEF TypeOK
  <2>1. /\ EnterPending' = EnterPending /\ Pastes = Pastes' + 1 /\ Pastes' \in Nat
        /\ Clicked' = Clicked /\ Pasted' = Pasted
    <3>0. DOMAIN input = 1..Len(input) /\ DOMAIN input' = 1..Len(input) - 1
      BY <1>0, <2>0 DEF TypeOK
    <3>1. EnterPending => EnterPending'
      <4>1. SUFFICES ASSUME NEW i \in 1..Len(input), input[i] = "enter" PROVE EnterPending'
        BY <3>0 DEF EnterPending
      <4>2. i - 1 \in 1..Len(input) - 1 /\ i = (i - 1) + 1
        BY <2>0, <4>1
      <4>3. input'[i - 1] = "enter"
        BY <2>0, <4>1, <4>2
      <4> QED
        BY <3>0, <4>2, <4>3 DEF EnterPending
    <3>2. EnterPending' => EnterPending
      BY <2>0, <3>0 DEF EnterPending
    <3>3. EnterPending => Len(input) >= 2
      <4>1. SUFFICES ASSUME NEW i \in 1..Len(input), input[i] = "enter" PROVE Len(input) >= 2
        BY <3>0 DEF EnterPending
      <4> QED
        BY <2>0, <4>1
    <3>4. EnterPending' = EnterPending
      BY <3>1, <3>2 DEF EnterPending
    <3>5. Pastes = Pastes' + 1 /\ Pastes' \in Nat
      <4>1. CASE EnterPending
        BY <2>0, <3>1, <3>3, <4>1 DEF Pastes
      <4>2. CASE ~EnterPending
        BY <2>0, <3>2, <4>2 DEF Pastes
      <4> QED
        BY <4>1, <4>2
    <3> QED
      BY <1>0, <3>4, <3>5 DEF Clicked, Pasted
  <2>2. Live
    BY <1>0, <1>2, <2>1 DEF Live
  <2>3. Shape /\ Count /\ Kept /\ Exact /\ ClipText /\ ClipFirm /\ Least
    BY <2>2 DEF PasteInv, LiveInv
  <2>4. Shape'
    BY <1>0, <2>0, <2>1, <2>3 DEF Shape
  <2>5. PastePending
    BY <2>0 DEF PastePending
  <2>6. ClipText' /\ ClipFirm'
    BY <1>0, <2>1, <2>3, <2>5 DEF ClipText, ClipFirm
  <2>7. PICK k \in Nat : Mine = 2 * k /\ k + Pastes <= Cardinality(Clicked \cap over)
    BY <2>3 DEF Count
  <2>8. CASE clip = NoText /\ box' = box
    <3>1. Mine' = Mine
      BY <1>0, <2>8 DEF Mine
    <3>2. k + Pastes' <= Cardinality(Clicked' \cap over')
      BY <1>0, <2>1, <2>7, ClickedFacts
    <3>3. Count'
      BY <2>7, <3>1, <3>2 DEF Count
    <3>4. Kept' /\ Exact'
      BY <1>0, <2>1, <2>3, <2>8, <3>1 DEF Kept, Exact
    <3>5. Least'
      BY <1>0, <2>1, <2>3, <2>8 DEF Least, ClipFirm
    <3> QED
      BY <2>4, <2>6, <3>3, <3>4, <3>5 DEF LiveInv
  <2>9. ASSUME clip # NoText, NEW n \in 0..Len(box), box' = Insert(box, n, clip)
        PROVE  LiveInv'
    <3>1. clip \in Texts \cup {Foreign} /\ clip \in Pasted
      BY <1>0, <2>3, <2>5, <2>9 DEF TypeOK, ClipText
    <3>2. /\ Len(box') = Len(box) + 2
          /\ \A i \in 1..n : box'[i] = box[i]
          /\ box'[n + 1] = <<clip, 1>> /\ box'[n + 2] = <<clip, 2>>
          /\ \A i \in n + 1..Len(box) : box'[i + 2] = box[i]
          /\ box' \in Seq(Halves)
      BY <2>0, <2>9, <3>1, InsertFacts
    <3>3. Mine' = 2 * (k + 1) /\ k + 1 \in Nat
      <4>1. Mine' = Len(box') - Len(left) /\ Len(box) \in Nat /\ Len(left) \in Nat
        BY <1>0, <2>0 DEF Mine
      <4>2. Mine = Len(box) - Len(left) /\ Mine = 2 * k /\ k \in Nat
        BY <2>7 DEF Mine
      <4>3. Len(box') = Len(box) + 2
        BY <3>2
      <4> QED
        BY <4>1, <4>2, <4>3
    <3>4. (k + 1) + Pastes' <= Cardinality(Clicked' \cap over')
      BY <1>0, <2>1, <2>7, ClickedFacts
    <3>5. Count'
      BY <3>3, <3>4 DEF Count
    <3>6. Least'
      BY <3>3 DEF Least
    <3>7. Kept'
      <4>1. InOrder(left, box')
        BY <2>0, <2>3, <2>9, <3>1, InsertInOrder DEF Kept
      <4>2. ASSUME NEW i \in 1..Len(box')
            PROVE  box'[i][1] \in Pasted \/ \E j \in DOMAIN left : box'[i] = left[j]
        <5>1. \A j \in 1..Len(box) :
                 box[j][1] \in Pasted \/ \E m \in DOMAIN left : box[j] = left[m]
          BY <2>0, <2>3 DEF Kept
        <5>2. CASE i <= n
          <6>1. i \in 1..n /\ i \in 1..Len(box)
            BY <2>0, <3>2, <5>2
          <6>2. box'[i] = box[i]
            BY <3>2, <6>1
          <6> QED
            BY <5>1, <6>1, <6>2
        <5>3. CASE i = n + 1 \/ i = n + 2
          BY <3>1, <3>2, <5>3
        <5>4. CASE i > n + 2
          <6>1. i - 2 \in n + 1..Len(box) /\ i - 2 \in 1..Len(box) /\ i = (i - 2) + 2
            BY <2>0, <3>2, <5>4
          <6>2. box'[i] = box[i - 2]
            BY <3>2, <6>1
          <6> QED
            BY <5>1, <6>1, <6>2
        <5> QED
          BY <5>2, <5>3, <5>4
      <4>3. DOMAIN box' = 1..Len(box')
        BY <3>2
      <4> QED
        BY <1>0, <2>1, <4>1, <4>2, <4>3 DEF Kept
    <3>8. Exact'
      <4>1. Mine' # 0
        BY <3>3
      <4>2. ASSUME Mine' = 2
            PROVE  \E m \in 0..Len(left), t \in Pasted : box' = Insert(left, m, t)
        <5>1. Mine = 0
          BY <2>7, <3>3, <4>2
        <5>2. box = left
          BY <2>3, <5>1 DEF Exact
        <5> QED
          BY <2>9, <3>1, <5>2
      <4> QED
        BY <1>0, <2>1, <4>1, <4>2 DEF Exact
    <3> QED
      BY <2>4, <2>6, <3>5, <3>6, <3>7, <3>8 DEF LiveInv
  <2> QED
    BY <2>8, <2>9 DEF TakePaste
<1> QED
  BY <1>1, <1>2 DEF PasteInv

\* The client takes Enter: it was the last key.
LEMMA PasteSent ==
    ASSUME TypeInv, PasteInv, TakeEnter
    PROVE  /\ PasteInv'
           /\ ~late => Pastes = 0 /\ Mine >= 2 /\ pc \notin Trying /\ Count /\ Kept /\ Exact
<1>0. /\ TypeOK /\ input # <<>> /\ Head(input) = "enter" /\ input' = Tail(input)
      /\ UNCHANGED <<pc, text, over, queue, tried, caret, clip, left, late, copied>>
  BY DEF TypeInv, TakeEnter, stageA, observers
<1>1. QueueFresh' /\ CaretOver'
  BY <1>0 DEF PasteInv, QueueFresh, CaretOver
<1>2. ASSUME ~late
      PROVE  /\ input' = <<>> /\ pc \notin Trying
             /\ Pastes = 0 /\ Mine >= 2 /\ Count /\ Kept /\ Exact
  <2>0. Len(input) \in Nat /\ Len(input) >= 1 /\ input[1] = "enter"
    BY <1>0 DEF TypeOK
  <2>1. EnterPending
    BY <1>0, <2>0 DEF EnterPending
  <2>2. Live
    BY <1>2, <2>1 DEF Live
  <2>3. Shape /\ Count /\ Kept /\ Exact /\ Least
    BY <2>2 DEF PasteInv, LiveInv
  <2>4. Len(input) = 1 /\ pc \notin Trying
    <3>1. \A i \in 1..Len(input) - 1 : input[i] = "paste"
      BY <2>3 DEF Shape
    <3>2. Len(input) > 1 => 1 \in 1..Len(input) - 1
      BY <2>0
    <3>3. ~(Len(input) > 1)
      BY <2>0, <3>1, <3>2
    <3>4. pc \notin Trying
      BY <2>1, <2>3 DEF Shape
    <3> QED
      BY <2>0, <3>3, <3>4
  <2>5. input' = <<>>
    BY <1>0, <2>0, <2>4 DEF TypeOK
  <2>6. Pastes = 0
    BY <2>1, <2>4 DEF Pastes
  <2>7. Mine >= 2
    BY <2>1, <2>3, <2>6 DEF Least
  <2> QED
    BY <2>3, <2>4, <2>5, <2>6, <2>7
<1>3. Live' => LiveInv'
  <2>1. SUFFICES ASSUME Live' PROVE FALSE
    OBVIOUS
  <2>2. ~late /\ input' = <<>> /\ pc' \notin Trying
    BY <1>0, <1>2, <2>1 DEF Live
  <2>3. ~EnterPending'
    BY <2>2 DEF EnterPending
  <2> QED
    BY <2>1, <2>2, <2>3 DEF Live
<1> QED
  BY <1>1, <1>2, <1>3 DEF PasteInv

\* The box is empty and no key is to come.
THEOREM PasteInit == Init => PasteInv
  BY DEF Init, PasteInv, QueueFresh, CaretOver, Live, EnterPending, Trying, Trials

\* Every step keeps the accounts of the box, the keys and the candidates.
THEOREM PasteNext == TypeInv /\ PasteInv /\ [Next]_vars => PasteInv'
<1> SUFFICES ASSUME TypeInv, PasteInv, [Next]_vars PROVE PasteInv'
  OBVIOUS
<1>0. TypeOK
  BY DEF TypeInv
<1>1. ASSUME NEW t \in Texts, Begin(t) PROVE PasteInv'
  BY <1>1, PasteBegin
<1>2. CASE Detect
  <2>1. pc = "detect" /\ UNCHANGED <<text, tried, input, box, clip, left, late, copied>>
    BY <1>2 DEF Detect, client, observers
  <2>2. CASE pc' = "idle" /\ UNCHANGED over
    BY <2>1, <2>2, PasteOver
  <2>3. CASE pc' = "probe"
    <3>1. tried = {} /\ CaretOver' /\ (Live' => LiveInv')
      BY <2>1, <2>3, PasteUntried
    <3>2. QueueFresh'
      BY <2>1, <2>3, <3>1 DEF QueueFresh, Trials
    <3> QED
      BY <3>1, <3>2 DEF PasteInv
  <2> QED
    BY <1>2, <2>2, <2>3 DEF Detect, Finish
<1>3. CASE Probe
  <2>1. /\ pc = "probe" /\ pc' \in {"probe", "reprobe"}
        /\ UNCHANGED <<text, tried, input, box, clip, left, late, copied>>
    BY <1>3 DEF Probe, client, observers
  <2>2. tried = {} /\ CaretOver' /\ (Live' => LiveInv')
    BY <2>1, PasteUntried
  <2>3. QueueFresh'
    BY <2>1, <2>2 DEF QueueFresh, Trials
  <2> QED
    BY <2>2, <2>3 DEF PasteInv
<1>4. CASE Reprobe
  <2>1. /\ pc = "reprobe" /\ pc' = "capture"
        /\ UNCHANGED <<text, tried, input, box, clip, left, late, copied>>
    BY <1>4 DEF Reprobe, client, observers
  <2>2. tried = {} /\ CaretOver' /\ (Live' => LiveInv')
    BY <2>1, PasteUntried
  <2>3. QueueFresh'
    <3>1. number \in Nat /\ number >= 1 /\ queue' \in Plan
      BY <1>0, <1>4 DEF TypeInv, TypeOK, QueueOK, Reprobe
    <3> QED
      BY <2>1, <2>2, <3>1, PlanDistinct DEF QueueFresh, Trials
  <2> QED
    BY <2>2, <2>3 DEF PasteInv
<1>5. CASE CaptureBefore
  <2>1. /\ pc = "capture" /\ pc' = "click" /\ queue' = queue
        /\ UNCHANGED <<text, tried, input, box, clip, left, late, copied>>
    BY <1>5 DEF CaptureBefore, client, observers
  <2>2. tried = {} /\ CaretOver' /\ (Live' => LiveInv')
    BY <2>1, PasteUntried
  <2>3. QueueFresh'
    BY <2>1, <2>2 DEF PasteInv, QueueFresh, Trials
  <2> QED
    BY <2>2, <2>3 DEF PasteInv
<1>6. CASE ClickCandidate
  BY <1>6, PasteClick
<1>7. CASE SetClipboard
  BY <1>7, PasteClip
<1>8. CASE Paste
  BY <1>8, PastePress
<1>9. CASE Compare
  <2>1. CASE NextCandidate
    BY <1>9, <2>1, PastePassed DEF Compare, stageA, client, observers, Trials
  <2>2. CASE pc' = "enter" /\ UNCHANGED <<queue, observed, answers>>
    <3>1. /\ pc = "compare"
          /\ UNCHANGED <<text, over, queue, caret, tried, input, box, clip, left, late, copied>>
      BY <1>9, <2>2 DEF Compare, stageA, client, observers
    <3>2. QueueFresh' /\ CaretOver'
      BY <2>2 DEF QueueFresh, CaretOver, Trials
    <3>3. Clicked' = Clicked /\ over' = over
      BY <2>2, <3>1 DEF Clicked
    <3>4. (Live => LiveInv) /\ pc \in Trying
      BY <3>1 DEF PasteInv, Trying
    <3>5. Live' => LiveInv'
      BY <1>0, <2>2, <3>1, <3>3, <3>4, LiveKept
    <3> QED
      BY <3>2, <3>5 DEF PasteInv
  <2> QED
    BY <1>9, <2>1, <2>2 DEF Compare
<1>10. CASE PressEnter
  BY <1>10, PasteEnter
<1>11. CASE Look
  BY <1>11, PasteOver DEF Look, stageA, client, observers
<1>12. CASE Judge
  BY <1>12, PasteOver DEF Judge, Finish, stageA, client, observers
<1>13. CASE Verify
  BY <1>13, PasteStill DEF Verify, stageA, client, observers
<1>14. CASE Incoming
  BY <1>14, PasteStill DEF Incoming, stageA, observers
<1>15. CASE Copy
  BY <1>15, PasteCopy
<1>16. CASE TakePaste
  BY <1>16, PasteTaken
<1>17. CASE TakeEnter
  BY <1>17, PasteSent
<1>18. CASE UNCHANGED vars
  BY <1>18, PasteStill DEF vars, stageA, client, observers
<1> QED
  BY <1>1, <1>2, <1>3, <1>4, <1>5, <1>6, <1>7, <1>8, <1>9, <1>10, <1>11, <1>12, <1>13,
     <1>14, <1>15, <1>16, <1>17, <1>18 DEF Next

\* What the box holds when a message of the user's appears.
SentRight ==
    LET mine == Len(box) - Len(left)
    IN  /\ mine \in {2 * k : k \in 1..Cardinality(tried \cap over)}
        /\ InOrder(left, box)
        /\ \A i \in DOMAIN box : box[i][1] \in Pasted \/ \E j \in DOMAIN left : box[i] = left[j]
        /\ mine = 2 => \E n \in 0..Len(left), t \in Pasted : box = Insert(left, n, t)

\* The one step that sends, seen with the invariant.
LEMMA EnterNext ==
    ASSUME TypeInv, PasteInv, [Next]_vars, own' > own, ~late
    PROVE  SentRight
<1>0. TypeOK /\ own \in Nat
  BY DEF TypeInv, TypeOK
<1>1. TakeEnter
  BY <1>0 DEF Next, vars, Begin, Detect, Probe, Reprobe, CaptureBefore, ClickCandidate, Judge,
         SetClipboard, Paste, Compare, PressEnter, Look, Verify, TakePaste, Incoming, Copy,
         client, chat
<1>2. Pastes = 0 /\ Mine >= 2 /\ pc \notin Trying /\ Count /\ Kept /\ Exact
  BY <1>1, PasteSent
<1>3. PICK k \in Nat : Mine = 2 * k /\ k + Pastes <= Cardinality(Clicked \cap over)
  BY <1>2 DEF Count
<1>4. Clicked = tried
  BY <1>2 DEF Clicked, Trying
<1>5. k \in 1..Cardinality(tried \cap over)
  BY <1>0, <1>2, <1>3, <1>4, ClickedFacts
<1>6. Mine \in {2 * j : j \in 1..Cardinality(tried \cap over)}
  BY <1>3, <1>5
<1> QED
  BY <1>2, <1>6 DEF SentRight, Mine, Kept, Exact

\* What Enter sends is what was left in the box, in its order, and in it the content, once
\* for each candidate over the box that was clicked in vain, or another program's copy; a
\* single paste is whole (EnterSendsContent).
THEOREM ContentSent == Spec => EnterSendsContent
<1>1. TypeInv /\ PasteInv /\ [Next]_vars => [(own' > own /\ ~late) => SentRight]_vars
  BY EnterNext
<1>2. TypeInv /\ PasteInv /\ [Next]_vars =>
        [LET mine == Len(box) - Len(left)
         IN  (own' > own /\ ~late) =>
                /\ mine \in {2 * k : k \in 1..Cardinality(tried \cap over)}
                /\ InOrder(left, box)
                /\ \A i \in DOMAIN box :
                      box[i][1] \in Pasted \/ \E j \in DOMAIN left : box[i] = left[j]
                /\ mine = 2 => \E n \in 0..Len(left), t \in Pasted :
                                  box = Insert(left, n, t)]_vars
  BY <1>1 DEF SentRight
<1> QED
  BY TypeInit, TypeNext, PasteInit, PasteNext, <1>2, PTL DEF Spec, EnterSendsContent
================================================================================
