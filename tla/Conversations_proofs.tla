-------------------------- MODULE Conversations_proofs --------------------------
(* Proofs about Conversations, for any list of chats, any rows that may be detected,  *)
(* any messages and any user of the desktop:                                          *)
(*   KeepsContract     Focus implements its contract, from the clicks behind each step *)
(*   VisionSeesChange  vision believes in clicks that changed the window, by VisionInv *)
(*   TypeCorrect       TypeOK, by TypeInv: the rows that are detected can be sorted, a  *)
(*                     row is chosen among them, what is at a place is a chat or none   *)
(*   CalmFocus         where a Focus ends if nothing moved, by LandsInv on top of it    *)
EXTENDS Conversations, FiniteSetTheorems, SequenceTheorems, WellFoundedInduction, TLAPS

(* How many clicks a Focus has behind it, step by step. *)
ClicksOK ==
    /\ step \in {"window", "detect", "capture", "click"} => clicks = 0
    /\ step = "judge" => clicks = 1

\* Nothing is clicked before the first Focus.
LEMMA ClicksInit == Init => ClicksOK
  BY DEF Init, ClicksOK

\* A Focus starts without clicks, and Click makes one.
LEMMA ClicksNext == ClicksOK /\ [Next]_vars => ClicksOK'
<1> SUFFICES ASSUME ClicksOK, [Next]_vars PROVE ClicksOK'
  OBVIOUS
<1> USE DEF ClicksOK, Goto, Answer, observers
<1>1. CASE Scan
  BY <1>1 DEF Scan
<1>2. CASE Focus
  BY <1>2 DEF Focus
<1>3. CASE ToFront
  BY <1>3 DEF ToFront
<1>4. CASE Detect
  BY <1>4 DEF Detect
<1>5. CASE Capture
  BY <1>5 DEF Capture
<1>6. CASE Click
  BY <1>6 DEF Click
<1>7. CASE Judge
  BY <1>7 DEF Judge
<1>8. CASE FindNode
  BY <1>8 DEF FindNode
<1>9. CASE ClickNode
  BY <1>9 DEF ClickNode
<1>10. CASE ClickPosition
  BY <1>10 DEF ClickPosition
<1>11. CASE Search
  BY <1>11 DEF Search
<1>12. ASSUME NEW c \in Chats, Incoming(c) \/ Browse(c) PROVE ClicksOK'
  BY <1>12 DEF Incoming, Browse
<1>13. CASE UNCHANGED vars
  BY <1>13 DEF vars
<1> QED
  BY <1>1, <1>2, <1>3, <1>4, <1>5, <1>6, <1>7, <1>8, <1>9, <1>10, <1>11, <1>12, <1>13 DEF Next

--------------------------------------------------------------------------------
\* No Focus is under way at the start, as in the contract.
LEMMA ContractInit == Init => Contract!Init
  BY DEF Init, Contract!Init, NoResult, Answered, FocusSteps

\* Every step is one of the contract: Focus calls, Click clicks, the three ends answer, all
\* others stutter.
LEMMA ContractNext == ClicksOK /\ [Next]_vars => [Contract!Next]_(Contract!vars)
<1> SUFFICES ASSUME ClicksOK, [Next]_vars PROVE [Contract!Next]_(Contract!vars)
  OBVIOUS
<1> USE DEF Contract!Next, Contract!vars, ClicksOK, Goto, Answer, Answered, observers, FocusSteps
<1>1. CASE Scan
  BY <1>1 DEF Scan, NoResult, Contract!Other
<1>2. CASE Focus
  BY <1>2 DEF Focus, NoResult, Contract!Call
<1>3. CASE ToFront
  BY <1>3 DEF ToFront, Contract!Refuse
<1>4. CASE Detect
  BY <1>4 DEF Detect
<1>5. CASE Capture
  BY <1>5 DEF Capture
<1>6. CASE Click
  BY <1>6 DEF Click, Contract!Click
<1>7. CASE Judge
  BY <1>7 DEF Judge, Contract!Answer
<1>8. CASE FindNode
  BY <1>8 DEF FindNode
<1>9. CASE ClickNode
  BY <1>9 DEF ClickNode, Contract!Answer
<1>10. CASE ClickPosition
  BY <1>10 DEF ClickPosition, Contract!Answer
<1>11. CASE Search
  BY <1>11 DEF Search, Contract!Other
<1>12. ASSUME NEW c \in Chats, Incoming(c) \/ Browse(c)
       PROVE  UNCHANGED Contract!vars
  BY <1>12 DEF Incoming, Browse
<1>13. CASE UNCHANGED vars
  BY <1>13 DEF vars
<1> QED
  BY <1>1, <1>2, <1>3, <1>4, <1>5, <1>6, <1>7, <1>8, <1>9, <1>10, <1>11, <1>12, <1>13 DEF Next

\* adapter.Focus keeps its promise whichever of its three ways it goes: it fails only before
\* its first click, and a second click is the last thing it does (KeepsFocusContract).
THEOREM KeepsContract == Spec => KeepsFocusContract
  BY ClicksInit, ClicksNext, ContractInit, ContractNext, PTL
     DEF Spec, KeepsFocusContract, Contract!Spec

--------------------------------------------------------------------------------
(* Vision.  While nobody but Focus acts, the picture from before the click shows the  *)
(* chat that was open when Focus was called; of a picture that is still the same one  *)
(* signal passes at most, and two are needed.                                         *)

StillHere == [open |-> was, list |-> list, events |-> events]

VisionInv ==
    /\ ClicksOK
    /\ alone /\ step \in {"window", "detect", "capture", "click"} => open = was
    /\ alone /\ step \in {"click", "judge"} => before \in {NoPicture, StillHere}
    /\ VisionNeedsChange

\* Of two pictures of the same, too few signals pass (evaluateFocusSuccess).
LEMMA StillFails ==
    ASSUME NEW s \in Signals, Still(s)
    PROVE  ~Succeeded(s)
<1>1. DOMAIN s = {"full", "right", "region", "box"}
  BY DEF Signals
<1>2. {n \in DOMAIN s : s[n] = "pass"} \subseteq {"box"}
  BY <1>1 DEF Still
<1>3. IsFiniteSet({"box"}) /\ Cardinality({"box"}) = 1
  BY FS_Singleton
<1>4. Passed(s) <= 1 /\ Passed(s) \in Nat
  BY <1>2, <1>3, FS_Subset, FS_CardinalityType DEF Passed
<1> QED
  BY <1>4 DEF Succeeded

\* Vision has believed in nothing yet.
LEMMA VisionInit == Init => VisionInv
  BY ClicksInit DEF Init, VisionInv, VisionNeedsChange, NoResult, Answered

\* Only Judge makes vision believe in a click, and not if the pictures are the same.
LEMMA VisionNext == VisionInv /\ [Next]_vars => VisionInv'
<1> SUFFICES ASSUME VisionInv, [Next]_vars PROVE VisionInv'
  OBVIOUS
<1>0. ClicksOK' /\ ClicksOK
  BY ClicksNext DEF VisionInv
<1> USE <1>0 DEF VisionInv, VisionNeedsChange, StillHere, Goto, Answer, Answered, observers, client
<1>1. CASE Scan
  BY <1>1 DEF Scan, NoResult
<1>2. CASE Focus
  BY <1>2 DEF Focus, NoResult
<1>3. CASE ToFront
  BY <1>3 DEF ToFront
<1>4. CASE Detect
  BY <1>4 DEF Detect
<1>5. CASE Capture
  BY <1>5 DEF Capture, Picture
<1>6. CASE Click
  <2>1. CASE Goto("nodes") /\ UNCHANGED <<client, clicks, calm, alone>>
    BY <1>6, <2>1 DEF Click
  <2>2. CASE Land(point) /\ clicks' = clicks + 1 /\ Goto("judge")
    <3>1. UNCHANGED <<list, events, was, before>> /\ (alone' => alone)
      BY <1>6, <2>2 DEF Click, Land
    <3> QED
      BY <1>6, <2>2, <3>1 DEF Click
  <2> QED
    BY <1>6, <2>1, <2>2 DEF Click
<1>7. CASE Judge
  <2>1. CASE Goto("nodes")
    BY <1>7, <2>1 DEF Judge
  <2>2. ASSUME NEW s \in Signals, before # NoPicture, before = Picture => Still(s),
               Succeeded(s), step' = "idle"
        PROVE  VisionInv'
    <3>1. before # Picture
      BY <2>2, StillFails
    <3>2. alone => open # was
      BY <1>7, <2>2, <3>1 DEF Judge, Picture
    <3>3. UNCHANGED <<open, was, alone, clicks>> /\ clicks = 1
      BY <1>7 DEF Judge, ClicksOK
    <3> QED
      BY <2>2, <3>2, <3>3
  <2> QED
    BY <1>7, <2>1, <2>2 DEF Judge
<1>8. CASE FindNode
  BY <1>8 DEF FindNode
<1>9. CASE ClickNode
  BY <1>9 DEF ClickNode
<1>10. CASE ClickPosition
  BY <1>10 DEF ClickPosition
<1>11. CASE Search
  BY <1>11 DEF Search
<1>12. ASSUME NEW c \in Chats, Incoming(c) \/ Browse(c) PROVE VisionInv'
  BY <1>12 DEF Incoming, Browse
<1>13. CASE UNCHANGED vars
  BY <1>13 DEF vars, Picture
<1> QED
  BY <1>1, <1>2, <1>3, <1>4, <1>5, <1>6, <1>7, <1>8, <1>9, <1>10, <1>11, <1>12, <1>13 DEF Next

\* Vision believes in a click only if another chat is open than before, unless somebody else
\* moved something: of a chat that is open already it can never say that it was opened
\* (VisionNeedsChange).
THEOREM VisionSeesChange == Spec => []VisionNeedsChange
<1>1. VisionInv => VisionNeedsChange
  BY DEF VisionInv
<1> QED
  BY VisionInit, VisionNext, <1>1, PTL DEF Spec

--------------------------------------------------------------------------------
(* Types: facts about numbers, sets of rows and the list.                           *)

\* A set of numbers has a least one.
LEMMA LeastExists ==
    ASSUME NEW A, A \subseteq Nat, A # {}
    PROVE  \E i \in A : \A j \in A : i <= j
<1> DEFINE R == OpToRel(<, Nat)
<1>1. \E x \in A : \A y \in A : ~ (<<y, x>> \in R)
  <2>1. IsWellFoundedOn(R, Nat)
    BY NatLessThanWellFounded
  <2> HIDE DEF R
  <2> QED
    BY <2>1, WFMin
<1>2. \A x, y \in Nat : y < x => <<y, x>> \in R
  BY DEF OpToRel
<1> HIDE DEF R
<1>3. PICK x \in A : \A y \in A : ~ (<<y, x>> \in R)
  BY <1>1
<1>4. ASSUME NEW y \in A PROVE x <= y
  <2>1. x \in Nat /\ y \in Nat /\ ~(<<y, x>> \in R)
    BY <1>3
  <2>2. ~(y < x)
    BY <1>2, <2>1
  <2> QED
    BY <2>1, <2>2
<1> QED
  BY <1>4

\* Induction over the naturals, used in place of the theorem that takes a predicate.
LEMMA SetInduction ==
    ASSUME NEW S, 0 \in S, \A n \in Nat : n \in S => n + 1 \in S
    PROVE  Nat \subseteq S
<1>1. SUFFICES ASSUME Nat \ S # {} PROVE FALSE
  OBVIOUS
<1>2. PICK x \in Nat \ S : \A y \in Nat \ S : x <= y
  BY <1>1, LeastExists
<1>3. x # 0 /\ x - 1 \in Nat /\ (x - 1) + 1 = x
  BY <1>2
<1>4. x - 1 \in S
  BY <1>2, <1>3
<1> QED
  BY <1>2, <1>3, <1>4

Row == [top : Nat, height : Nat]

\* Rows with different tops can be put in their order.
LEMMA RowsSort ==
    ASSUME NEW E, IsFiniteSet(E), E \subseteq Row, \A e, f \in E : e.top = f.top => e = f
    PROVE  \E s \in [1..Cardinality(E) -> E] : \A i, j \in DOMAIN s : i < j => s[i].top < s[j].top
<1> DEFINE Sorted(s) == \A i, j \in DOMAIN s : i < j => s[i].top < s[j].top
           Fit(A, n) == /\ IsFiniteSet(A) /\ Cardinality(A) = n /\ \A e \in A : e.top \in Nat
                        /\ \A e, f \in A : e.top = f.top => e = f
           Sorts(A, n) == \E s \in [1..n -> A] : Sorted(s)
           S == {n \in Nat : \A A : Fit(A, n) => Sorts(A, n)}
<1>1. 0 \in S
  <2>1. SUFFICES ASSUME NEW A, Fit(A, 0) PROVE Sorts(A, 0)
    OBVIOUS
  <2>2. [i \in {} |-> i] \in [1..0 -> A] /\ Sorted([i \in {} |-> i])
    OBVIOUS
  <2> QED
    BY <2>2
<1>2. ASSUME NEW n \in Nat, n \in S PROVE n + 1 \in S
  <2>1. SUFFICES ASSUME NEW A, Fit(A, n + 1) PROVE Sorts(A, n + 1)
    OBVIOUS
  <2>2. A # {}
    BY <2>1, FS_EmptySet
  <2>3. PICK e \in A : \A f \in A : e.top <= f.top
    <3> DEFINE T == {f.top : f \in A}
    <3>1. T \subseteq Nat /\ T # {}
      BY <2>1, <2>2
    <3>2. PICK i \in T : \A j \in T : i <= j
      <4> HIDE DEF T
      <4> QED
        BY <3>1, LeastExists
    <3> QED
      BY <3>2
  <2> DEFINE B == A \ {e}
  <2>4. Fit(B, n)
    <3>1. IsFiniteSet(B) /\ IsFiniteSet(A) /\ Cardinality(A) = n + 1
      BY <2>1, FS_RemoveElement
    <3>2. Cardinality(B) = n
      <4>1. A = B \cup {e} /\ e \notin B
        OBVIOUS
      <4>2. Cardinality(B \cup {e}) = Cardinality(B) + 1 /\ Cardinality(B) \in Nat
        BY <3>1, FS_AddElement, FS_CardinalityType
      <4>3. Cardinality(A) = Cardinality(B) + 1
        BY <4>1, <4>2, Zenon
      <4> QED
        BY <3>1, <4>2, <4>3
    <3> QED
      BY <2>1, <3>1, <3>2
  <2>5. PICK s \in [1..n -> B] : Sorted(s)
    <3>1. Sorts(B, n)
      <4> HIDE DEF Fit, Sorts, B
      <4> QED
        BY <1>2, <2>4
    <3> QED
      BY <3>1
  <2> DEFINE t == [i \in 1..n + 1 |-> IF i = 1 THEN e ELSE s[i - 1]]
  <2>6. \A i \in 1..n + 1 : i # 1 => i - 1 \in 1..n
    OBVIOUS
  <2>7. \A i \in 1..n : s[i] \in A /\ s[i] # e /\ s[i].top \in Nat /\ e.top < s[i].top
    <3>1. \A i \in 1..n : s[i] \in A /\ s[i] # e
      BY <2>5
    <3>2. e.top \in Nat /\ \A i \in 1..n : s[i].top \in Nat /\ s[i].top # e.top
      BY <2>1, <3>1
    <3> QED
      BY <2>3, <3>1, <3>2
  <2>8. t \in [1..n + 1 -> A]
    BY <2>6, <2>7
  <2>9. \A i, j \in 1..n : i < j => s[i].top < s[j].top
    <3>1. DOMAIN s = 1..n
      BY <2>5
    <3> QED
      BY <2>5, <3>1
  <2>10. Sorted(t)
    <3>1. SUFFICES ASSUME NEW i \in 1..n + 1, NEW j \in 1..n + 1, i < j
                   PROVE  t[i].top < t[j].top
      OBVIOUS
    <3>2. j - 1 \in 1..n /\ t[j] = s[j - 1]
      BY <2>6, <3>1
    <3>3. CASE i = 1
      BY <2>7, <3>2, <3>3
    <3>4. CASE i # 1
      <4>1. i - 1 \in 1..n /\ t[i] = s[i - 1] /\ i - 1 < j - 1
        BY <2>6, <3>1, <3>4
      <4> HIDE DEF t
      <4> QED
        BY <2>9, <3>2, <4>1
    <3> QED
      BY <3>3, <3>4
  <2> HIDE DEF t, Sorted
  <2> QED
    BY <2>8, <2>10
<1>3. Cardinality(E) \in S
  <2> HIDE DEF S
  <2> QED
    BY <1>1, <1>2, SetInduction, FS_CardinalityType
<1>4. Fit(E, Cardinality(E))
  BY DEF Row
<1>5. Sorts(E, Cardinality(E))
  <2> HIDE DEF Fit, Sorts
  <2> QED
    BY <1>3, <1>4
<1> QED
  BY <1>5

\* Division by the height of a row.
LEMMA DivisionBound ==
    ASSUME NEW a \in Nat, NEW b \in Nat \ {0}, NEW c \in Nat, a < b * c
    PROVE  a \div b \in 0..c - 1
<1>1. a \div b \in Int /\ b * (a \div b) <= a /\ a < b * (a \div b) + b
  OBVIOUS
<1> DEFINE q == a \div b
<1>2. q \in Int /\ b * q <= a /\ a < b * q + b /\ b * q + b = b * (q + 1)
  BY <1>1
<1> HIDE DEF q
<1>3. q >= 0
  <2>1. q + 1 <= 0 => b * (q + 1) <= 0
    BY <1>2
  <2> QED
    BY <1>2, <2>1
<1>4. q < c
  <2>1. q >= c => b * q >= b * c
    BY <1>2, <1>3
  <2> QED
    BY <1>2, <2>1
<1> QED
  BY <1>2, <1>3, <1>4 DEF q

\* The rows between lines lie apart, and there are finitely many of them.
LEMMA BetweenType ==
    ASSUME NEW lines \in SUBSET Lines
    PROVE  /\ Between(lines) \subseteq Row /\ IsFiniteSet(Between(lines))
           /\ \A r, s \in Between(lines) : r.top = s.top => r = s
<1> DEFINE Q == {q \in lines \X lines : /\ q[2] - q[1] \in 20..150
                                         /\ ~\E l \in lines : q[1] < l /\ l < q[2]}
           f == [r \in Between(lines) |-> r.top]
<1>1. lines \subseteq Nat /\ IsFiniteSet(lines)
  BY LinesAssumption, FS_Subset
<1>2. Between(lines) = {[top |-> p[1], height |-> p[2] - p[1]] : p \in Q}
  BY DEF Between
<1>3. \A p \in Q : /\ p[1] \in lines /\ p[2] \in lines /\ p[1] \in Nat /\ p[2] \in Nat
                   /\ p[2] - p[1] \in 20..150 /\ p = <<p[1], p[2]>>
                   /\ \A l \in lines : ~(p[1] < l /\ l < p[2])
  <2>1. SUFFICES ASSUME NEW p \in lines \X lines, p[2] - p[1] \in 20..150,
                        ~\E l \in lines : p[1] < l /\ l < p[2]
                 PROVE  /\ p[1] \in lines /\ p[2] \in lines /\ p[1] \in Nat /\ p[2] \in Nat
                        /\ p = <<p[1], p[2]>> /\ \A l \in lines : ~(p[1] < l /\ l < p[2])
    OBVIOUS
  <2>2. PICK a, b \in lines : p = <<a, b>>
    OBVIOUS
  <2>3. p[1] = a /\ p[2] = b
    BY <2>2
  <2>4. \A l \in lines : ~(p[1] < l /\ l < p[2])
    BY <2>1, Zenon
  <2> QED
    BY <1>1, <2>2, <2>3, <2>4
<1> HIDE DEF Q
<1>4. ASSUME NEW r \in Between(lines), NEW s \in Between(lines), r.top = s.top PROVE r = s
  <2>1. PICK p \in Q : r = [top |-> p[1], height |-> p[2] - p[1]]
    BY <1>2
  <2>2. PICK q \in Q : s = [top |-> q[1], height |-> q[2] - q[1]]
    BY <1>2
  <2>3. p[1] = q[1]
    BY <1>4, <2>1, <2>2
  <2>4. p[2] = q[2]
    BY <1>3, <2>3
  <2> QED
    BY <2>1, <2>2, <2>3, <2>4
<1>5. Between(lines) \subseteq Row
  <2>1. \A p \in Q : [top |-> p[1], height |-> p[2] - p[1]] \in Row
    BY <1>3 DEF Row
  <2> QED
    BY <1>2, <2>1
<1>6. f \in Injection(Between(lines), lines)
  <2>1. \A r \in Between(lines) : r.top \in lines
    BY <1>2, <1>3
  <2> QED
    BY <1>4, <2>1 DEF Injection, IsInjective
<1>7. IsFiniteSet(Between(lines))
  <2> HIDE DEF f
  <2> QED
    BY <1>1, <1>6, FS_Injection
<1> QED
  BY <1>4, <1>5, <1>7

\* DetectConversations returns rows, from top to bottom.
LEMMA DetectionsType ==
    ASSUME NEW rows \in Detections
    PROVE  /\ rows \in Seq(Row) /\ Len(rows) \in Nat /\ DOMAIN rows = 1..Len(rows)
           /\ \A i \in 1..Len(rows) : rows[i] \in Row
           /\ rows # <<>> => Len(rows) # 0
<1>1. PICK lines \in SUBSET Lines :
         rows = IF Between(lines) = {} THEN Grid ELSE FromTop(Between(lines))
  BY DEF Detections
<1>2. \E n \in Nat : rows \in [1..n -> Row]
  <2>1. CASE Between(lines) = {}
    <3> DEFINE n == WindowHeight \div 60
    <3>0. WindowHeight \in Nat
      <4>1. Cardinality(Chats) \in Nat
        BY ChatsAssumption, FS_CardinalityType
      <4> QED
        BY <4>1, GeometryAssumption DEF WindowHeight
    <3>1. n \in Nat
      BY <3>0
    <3>2. rows = [i \in 1..n |-> [top |-> 60 * (i - 1), height |-> 60]]
      BY <1>1, <2>1 DEF Grid
    <3> HIDE DEF n
    <3>3. \A i \in 1..n : [top |-> 60 * (i - 1), height |-> 60] \in Row
      BY <3>1 DEF Row
    <3> QED
      BY <3>1, <3>2, <3>3
  <2>2. CASE Between(lines) # {}
    <3> DEFINE B == Between(lines)
               Good(s) == \A i, j \in DOMAIN s : i < j => s[i].top < s[j].top
    <3>1. B \subseteq Row /\ IsFiniteSet(B) /\ Cardinality(B) \in Nat
      BY BetweenType, FS_CardinalityType
    <3>2. \E s \in [1..Cardinality(B) -> B] : Good(s)
      BY BetweenType, RowsSort
    <3>3. rows = CHOOSE s \in [1..Cardinality(B) -> B] : Good(s)
      BY <1>1, <2>2 DEF FromTop
    <3> HIDE DEF B, Good
    <3>4. rows \in [1..Cardinality(B) -> B]
      BY <3>2, <3>3
    <3> QED
      BY <3>1, <3>4
  <2> QED
    BY <2>1, <2>2
<1>3. PICK n \in Nat : rows \in [1..n -> Row]
  BY <1>2
<1>4. rows \in Seq(Row) /\ Len(rows) = n
  BY <1>3
<1> QED
  BY <1>3, <1>4, EmptySeq

\* The index that is taken is one of the rows (selectTargetConversation).
LEMMA TargetType ==
    ASSUME NEW n \in Nat \ {0}, NEW f, NEW position \in Nat \cup {-1}
    PROVE  /\ Target(n, f, position) \in 1..n
           /\ position \in 0..n - 1 => Target(n, f, position) = position + 1
<1> DEFINE s == <<{i \in 1..n : f[i].text /\ f[i].avatar}, {i \in 1..n : f[i].text},
                  {i \in 1..n : f[i].avatar}, 1..n>>
           first == CHOOSE k \in DOMAIN s : s[k] # {} /\ \A j \in 1..k - 1 : s[j] = {}
<1>1. /\ DOMAIN s = 1..4 /\ s[4] = 1..n
      /\ s[1] \subseteq 1..n /\ s[2] \subseteq 1..n /\ s[3] \subseteq 1..n
  OBVIOUS
<1>2. DOMAIN s = 1..4 /\ (\A k \in 1..4 : s[k] \subseteq 1..n) /\ s[4] # {}
  BY <1>1
<1>3. FirstOf(s) = CHOOSE i \in s[first] : \A j \in s[first] : i <= j
  BY DEF FirstOf
<1>4. Target(n, f, position) = IF position \in 0..n - 1 THEN position + 1 ELSE FirstOf(s)
  BY DEF Target
<1> HIDE DEF s
<1>5. \E k \in DOMAIN s : s[k] # {} /\ \A j \in 1..k - 1 : s[j] = {}
  <2> DEFINE K == {k \in 1..4 : s[k] # {}}
  <2>1. K \subseteq Nat /\ K # {}
    BY <1>2
  <2>2. PICK k \in K : \A j \in K : k <= j
    <3> HIDE DEF K
    <3> QED
      BY <2>1, LeastExists
  <2>3. \A j \in 1..k - 1 : s[j] = {}
    BY <2>2
  <2> QED
    BY <1>2, <2>2, <2>3
<1>6. first \in 1..4 /\ s[first] # {}
  BY <1>2, <1>5
<1> HIDE DEF first
<1>7. \E i \in s[first] : \A j \in s[first] : i <= j
  BY <1>2, <1>6, LeastExists
<1>8. FirstOf(s) \in 1..n
  BY <1>2, <1>3, <1>6, <1>7
<1> QED
  BY <1>4, <1>8

--------------------------------------------------------------------------------
(* Types.  TypeOK in parts that are easier to keep.  What it does not say: the list   *)
(* is a sequence of chats, and how many clicks a Focus has behind it before "nodes".   *)

ListOK ==
    /\ list \in [1..Cardinality(Chats) -> Chats]
    /\ \A c \in Chats : \E k \in 1..Cardinality(Chats) : list[k] = c

LaterClicks == step \in {"nodes", "node", "position"} => clicks <= 1

Results == [status : {"none", "failed", "success"},
            source : {"none", "vision", "node", "position", "search"}, sure : BOOLEAN]

Flags == same \in BOOLEAN /\ calm \in BOOLEAN /\ alone \in BOOLEAN

Ranges ==
    /\ step \in Steps /\ held \in Ref /\ point \in Int /\ result \in Results
    /\ open \in Chats \cup {NoChat} /\ was \in Chats \cup {NoChat}
    /\ origin \in Origins /\ events \in Nat /\ calls \in Nat /\ clicks \in Nat

TypeInv == Ranges /\ Flags /\ ListOK /\ ClicksOK /\ LaterClicks

\* A finite set has a size.
LEMMA ChatsCount == Cardinality(Chats) \in Nat
  BY ChatsAssumption, FS_CardinalityType

\* ListOK in the words of TypeOK.
LEMMA ListMeans ==
    ASSUME ListOK
    PROVE  Len(list) = Cardinality(Chats) /\ {list[k] : k \in DOMAIN list} = Chats
<1>1. list \in Seq(Chats) /\ Len(list) = Cardinality(Chats) /\ DOMAIN list = 1..Cardinality(Chats)
  BY ChatsCount DEF ListOK
<1> QED
  BY <1>1 DEF ListOK

\* The list at the start shows every chat once.
LEMMA InitList == list = SetToSeq(Chats) => ListOK
<1> DEFINE n == Cardinality(Chats)
           D == 1..n
           Good(f) == f \in [D -> Chats] /\ IsInjective(f)
<1> SUFFICES ASSUME list = SetToSeq(Chats) PROVE ListOK
  OBVIOUS
<1>1. ExistsBijection(D, Chats) /\ IsFiniteSet(D) /\ Cardinality(D) = n
  BY ChatsAssumption, FS_CardinalityType, FS_Interval
<1>2. PICK f : f \in Bijection(D, Chats)
  BY <1>1 DEF ExistsBijection
<1>3. f \in [D -> Chats] /\ IsInjective(f)
  BY <1>2 DEF Bijection, Injection, IsInjective
<1>4. list = CHOOSE g \in [D -> Chats] : IsInjective(g)
  BY DEF SetToSeq
<1>5. list \in [D -> Chats] /\ IsInjective(list)
  <2> HIDE DEF D
  <2> QED
    BY <1>3, <1>4
<1>6. list \in Injection(D, Chats)
  BY <1>5 DEF Injection, IsInjective
<1>7. list \in Surjection(D, Chats)
  <2> HIDE DEF D, n
  <2> QED
    BY <1>1, <1>6, ChatsAssumption, FS_Injection DEF n
<1> QED
  BY <1>5, <1>7 DEF Surjection, ListOK

\* The place a message's chat leaves is filled by the chats above it.
LEMMA ToTopType ==
    ASSUME ListOK, NEW c \in Chats
    PROVE  /\ ToTop(c) \in [1..Cardinality(Chats) -> Chats]
           /\ \A d \in Chats : \E k \in 1..Cardinality(Chats) : ToTop(c)[k] = d
<1> DEFINE at == CHOOSE k \in DOMAIN list : list[k] = c
           n == Cardinality(Chats)
<1>1. n \in Nat /\ DOMAIN list = 1..n /\ \A k \in 1..n : list[k] \in Chats
  BY ChatsCount DEF ListOK
<1>2. at \in 1..n /\ list[at] = c /\ 1 \in 1..n
  <2>1. \E k \in DOMAIN list : list[k] = c
    BY DEF ListOK
  <2>2. at \in 1..n /\ list[at] = c
    BY <1>1, <2>1
  <2> QED
    BY <1>1, <2>2
<1>3. ToTop(c) = [k \in 1..n |-> IF k = 1 THEN c ELSE IF k <= at THEN list[k - 1] ELSE list[k]]
  BY <1>1 DEF ToTop
<1> HIDE DEF at
<1>4. \A k \in 1..n : k # 1 => k - 1 \in 1..n
  BY <1>1
<1>5. ToTop(c) \in [1..n -> Chats]
  BY <1>1, <1>3, <1>4
<1>6. ASSUME NEW d \in Chats PROVE \E k \in 1..n : ToTop(c)[k] = d
  <2>1. PICK p \in 1..n : list[p] = d
    BY DEF ListOK
  <2>2. CASE d = c
    BY <1>2, <1>3, <2>2
  <2>3. CASE d # c /\ p < at
    <3>1. PICK q \in 1..n : q # 1 /\ q <= at /\ q - 1 = p
      BY <1>1, <1>2, <2>3
    <3> QED
      BY <1>3, <2>1, <3>1
  <2>4. CASE d # c /\ at < p
    <3>1. p # 1 /\ ~(p <= at)
      BY <1>1, <1>2, <2>4
    <3> QED
      BY <1>3, <2>1, <3>1
  <2>5. at # p \/ d = c
    BY <1>2, <2>1
  <2> QED
    BY <1>1, <1>2, <2>2, <2>3, <2>4, <2>5
<1> QED
  BY <1>5, <1>6

\* What is at a place in the window.
LEMMA AtType ==
    ASSUME ListOK, NEW y \in Int
    PROVE  At(y) \in Chats \cup {NoChat}
<1>1. CASE y \in Top..WindowHeight - 1
  <2> DEFINE n == Cardinality(Chats)
             a == y - Top
  <2>1. /\ a \in Nat /\ a < RowHeight * n /\ n \in Nat /\ RowHeight \in Nat \ {0}
        /\ RowHeight * n \in Nat
    BY <1>1, ChatsCount, GeometryAssumption DEF WindowHeight
  <2> HIDE DEF a, n
  <2>2. a \div RowHeight \in 0..n - 1
    BY <2>1, DivisionBound
  <2>3. a \div RowHeight + 1 \in 1..n
    BY <2>1, <2>2
  <2>4. list[a \div RowHeight + 1] \in Chats
    BY <2>3 DEF ListOK, n
  <2> QED
    BY <1>1, <2>4 DEF At, a
<1> QED
  BY <1>1 DEF At

\* Where a chat's node is said to be.
LEMMA ScreenPointType ==
    ASSUME ListOK, NEW c \in Chats, origin \in Origins
    PROVE  ScreenPoint(c) \in Int
<1> DEFINE k == CHOOSE k \in DOMAIN list : list[k] = c
<1>1. k \in Nat
  <2>1. \E j \in DOMAIN list : list[j] = c
    BY DEF ListOK
  <2>2. k \in DOMAIN list
    BY <2>1
  <2> QED
    BY <2>2, ChatsCount DEF ListOK
<1>2. RowPoint(c) = Top + RowHeight * (k - 1) + RowHeight \div 2
  BY DEF RowPoint
<1> HIDE DEF k
<1>3. RowHeight \in Nat /\ Top \in Nat /\ origin \in Nat
  BY GeometryAssumption
<1>4. RowHeight * (k - 1) \in Int /\ RowHeight \div 2 \in Int
  BY <1>1, <1>3
<1> QED
  BY <1>2, <1>3, <1>4 DEF ScreenPoint

\* The middle of a row.
LEMMA MiddleType == \A r \in Row : Middle(r) \in Int
  BY DEF Middle, Row

\* The references a scan returns.
LEMMA ScanRefs ==
    ASSUME TypeInv, Scan
    PROVE  held' \in Ref
<1>1. ASSUME NEW rows \in Detections, held' \in VisualRefs(rows) PROVE held' \in Ref
  <2>1. PICK i \in DOMAIN rows, f \in Features :
           held' = [position |-> i - 1, name |-> NoChat, text |-> f.text,
                    chat |-> At(Middle(rows[i])), rows |-> rows]
    BY <1>1 DEF VisualRefs
  <2>2. rows \in Seq(Row) /\ i - 1 \in Nat /\ rows[i] \in Row
    BY DetectionsType
  <2>3. At(Middle(rows[i])) \in Chats \cup {NoChat}
    BY <2>2, AtType, MiddleType DEF TypeInv
  <2>4. f.text \in BOOLEAN
    BY FeaturesAssumption
  <2> QED
    BY <2>1, <2>2, <2>3, <2>4 DEF Ref, Row
<1>2. ASSUME NEW r \in NodeRefs PROVE r \in Ref
  <2>1. <<>> \in Seq([top : Nat, height : Nat])
    BY EmptySeq
  <2>2. CASE r \in {[position |-> k, name |-> list[k], text |-> FALSE, chat |-> list[k],
                     rows |-> <<>>] : k \in DOMAIN list}
    <3>1. PICK k \in DOMAIN list : r = [position |-> k, name |-> list[k], text |-> FALSE,
                                        chat |-> list[k], rows |-> <<>>]
      BY <2>2
    <3>2. k \in Nat /\ list[k] \in Chats
      BY ChatsCount DEF TypeInv, ListOK
    <3> QED
      BY <2>1, <3>1, <3>2 DEF Ref
  <2>3. CASE r = [NoRef EXCEPT !.position = 0, !.name = Frame]
    BY <2>1, <2>3 DEF NoRef, Ref
  <2> QED
    BY <2>2, <2>3 DEF NodeRefs
<1>3. NoRef \in Ref
  BY EmptySeq DEF NoRef, Ref
<1>4. held' \in UNION {VisualRefs(rows) : rows \in Detections} \/ held' \in NodeRefs \/ held' = NoRef
  BY Zenon DEF Scan
<1>5. ASSUME held' \in UNION {VisualRefs(rows) : rows \in Detections} PROVE held' \in Ref
  <2>1. PICK rows \in Detections : held' \in VisualRefs(rows)
    BY <1>5
  <2> QED
    BY <1>1, <2>1
<1> QED
  BY <1>2, <1>3, <1>4, <1>5

\* A click leaves the list alone and opens a chat of it, if any.
LEMMA LandType ==
    ASSUME TypeInv, NEW y \in Int, Land(y)
    PROVE  /\ open' \in Chats \cup {NoChat} /\ calm' \in BOOLEAN /\ alone' \in BOOLEAN
           /\ UNCHANGED <<list, events, origin>>
<1>1. At(y) \in Chats \cup {NoChat} /\ open \in Chats \cup {NoChat}
  BY AtType DEF TypeInv, Ranges
<1>2. calm \in BOOLEAN /\ alone \in BOOLEAN
  BY DEF TypeInv, Flags
<1> QED
  BY <1>1, <1>2 DEF Land

\* The parts together say what TypeOK says.
LEMMA TypeMeans == TypeInv => TypeOK
<1> SUFFICES ASSUME TypeInv PROVE TypeOK
  OBVIOUS
<1>1. Len(list) = Cardinality(Chats) /\ {list[k] : k \in DOMAIN list} = Chats
  BY ListMeans DEF TypeInv
<1>2. {same, calm, alone} \subseteq BOOLEAN
  BY DEF TypeInv, Flags
<1> QED
  BY <1>1, <1>2 DEF TypeInv, Ranges, Results, ClicksOK, LaterClicks, TypeOK

\* Before the first call.
LEMMA TypeInit == Init => TypeInv
<1> SUFFICES ASSUME Init PROVE TypeInv
  OBVIOUS
<1>1. ListOK
  BY InitList DEF Init
<1>2. held \in Ref
  BY EmptySeq DEF Init, NoRef, Ref
<1>3. result \in Results
  BY DEF Init, Results, NoResult, Answered
<1>4. same \in BOOLEAN /\ calm \in BOOLEAN /\ alone \in BOOLEAN
  BY DEF Init
<1>5. /\ step = "idle" /\ point \in Int /\ open \in Chats \cup {NoChat}
      /\ was \in Chats \cup {NoChat} /\ origin \in Origins /\ events \in Nat /\ calls \in Nat
      /\ clicks \in Nat
  BY DEF Init
<1> QED
  BY <1>1, <1>2, <1>3, <1>4, <1>5, ClicksInit
     DEF TypeInv, Ranges, Flags, LaterClicks, Steps, FocusSteps

\* An answer is one of the results.
LEMMA AnswerType ==
    ASSUME NEW status \in {"none", "failed", "success"},
           NEW source \in {"none", "vision", "node", "position", "search"},
           NEW sure \in BOOLEAN
    PROVE  Answered(status, source, sure) \in Results
  BY DEF Answered, Results

\* The observers that are true or false.
LEMMA FlagsNext == TypeInv /\ [Next]_vars => Flags'
<1> SUFFICES ASSUME TypeInv, [Next]_vars PROVE Flags'
  OBVIOUS
<1>a. same \in BOOLEAN /\ calm \in BOOLEAN /\ alone \in BOOLEAN
  BY DEF TypeInv, Flags
<1>b. UNCHANGED <<calm, alone>> => calm' \in BOOLEAN /\ alone' \in BOOLEAN
  BY <1>a, Zenon
<1>c. UNCHANGED same => same' \in BOOLEAN
  BY <1>a, Zenon
<1>d. ASSUME NEW y, Land(y) PROVE calm' \in BOOLEAN /\ alone' \in BOOLEAN
  BY <1>d DEF Land
<1>1. CASE Scan
  BY <1>1, <1>a, Zenon DEF Scan, Flags
<1>2. CASE Focus
  BY <1>2, <1>a, Zenon DEF Focus, Flags
<1>3. CASE ToFront
  BY <1>3, <1>b, <1>c, Zenon DEF ToFront, observers, Flags
<1>4. CASE Detect
  <2>1. same' \in BOOLEAN
    BY <1>4, <1>c, Zenon DEF Detect
  <2>2. UNCHANGED <<calm, alone>>
    BY <1>4, Zenon DEF Detect
  <2> QED
    BY <2>1, <2>2, <1>b, Zenon DEF Flags
<1>5. CASE Capture
  BY <1>5, <1>b, <1>c, Zenon DEF Capture, observers, Flags
<1>6. CASE Click
  BY <1>6, <1>b, <1>c, <1>d, Zenon DEF Click, Flags
<1>7. CASE Judge
  BY <1>7, <1>b, <1>c, Zenon DEF Judge, observers, Flags
<1>8. CASE FindNode
  BY <1>8, <1>b, <1>c, Zenon DEF FindNode, observers, Flags
<1>9. CASE ClickNode
  BY <1>9, <1>b, <1>c, <1>d, Zenon DEF ClickNode, Flags
<1>10. CASE ClickPosition
  BY <1>10, <1>b, <1>c, <1>d, Zenon DEF ClickPosition, Flags
<1>11. CASE Search
  BY <1>11, <1>b, <1>c, Zenon DEF Search, observers, Flags
<1>12. ASSUME NEW c \in Chats, Incoming(c) \/ Browse(c) PROVE Flags'
  BY <1>12, <1>c, Zenon DEF Incoming, Browse, Flags
<1>13. CASE UNCHANGED vars
  BY <1>13, <1>b, <1>c, Zenon DEF vars, observers, Flags
<1> QED
  BY <1>1, <1>2, <1>3, <1>4, <1>5, <1>6, <1>7, <1>8, <1>9, <1>10, <1>11, <1>12, <1>13 DEF Next

\* Each operation, message and chat opened by the user keeps the parts.
LEMMA TypeNext == TypeInv /\ [Next]_vars => TypeInv'
<1> SUFFICES ASSUME TypeInv, [Next]_vars PROVE TypeInv'
  OBVIOUS
<1>0. ClicksOK'
  BY ClicksNext DEF TypeInv
<1>b. /\ step \in Steps /\ held \in Ref /\ point \in Int /\ result \in Results
       /\ open \in Chats \cup {NoChat} /\ was \in Chats \cup {NoChat}
       /\ origin \in Origins /\ events \in Nat /\ calls \in Nat /\ clicks \in Nat
       /\ ListOK /\ ClicksOK /\ LaterClicks
  BY DEF TypeInv, Ranges
<1>c. UNCHANGED list => ListOK'
  BY <1>b DEF ListOK
<1> DEFINE Rest == Ranges /\ ListOK /\ LaterClicks
<1>k. SUFFICES Rest'
  BY <1>0, FlagsNext DEF TypeInv
<1> DEFINE Positions == held.position \in Nat \cup {-1}
<1>p. Positions
  BY <1>b DEF Ref
<1> USE <1>0, <1>b, <1>c DEF Ranges, LaterClicks, Goto, Answer, observers, client, Steps, FocusSteps
<1>1. CASE Scan
  <2>1. held' \in Ref /\ result' \in Results
    BY <1>1, ScanRefs, AnswerType DEF Scan, NoResult
  <2> QED
    BY <1>1, <2>1 DEF Scan
<1>2. CASE Focus
  <2>1. result' \in Results
    BY <1>2, AnswerType DEF Focus, NoResult
  <2> QED
    BY <1>2, <2>1 DEF Focus
<1>3. CASE ToFront
  <2>1. result' \in Results
    BY <1>3, AnswerType DEF ToFront
  <2> QED
    BY <1>3, <2>1 DEF ToFront
<1>4. CASE Detect
  <2>1. point' \in Int
    <3>1. CASE UNCHANGED point
      BY <3>1
    <3>2. ASSUME NEW rows \in Detections, NEW f \in Looks(rows), rows # <<>>,
                 point' = Middle(rows[Target(Len(rows), f, held.position)])
          PROVE  point' \in Int
      <4>1. Target(Len(rows), f, held.position) \in 1..Len(rows)
        BY <1>p, <3>2, DetectionsType, TargetType
      <4>2. rows[Target(Len(rows), f, held.position)] \in Row
        BY <4>1, DetectionsType
      <4> QED
        BY <3>2, <4>2, MiddleType
    <3> QED
      BY <1>4, <3>1, <3>2 DEF Detect
  <2>2. Goto("nodes") \/ Goto("capture")
    BY <1>4 DEF Detect
  <2>3. UNCHANGED <<held, was, clicks, open, events, origin, list, calls>> /\ step = "detect"
    BY <1>4, Zenon DEF Detect
  <2> QED
    BY <2>1, <2>2, <2>3 DEF ClicksOK
<1>5. CASE Capture
  BY <1>5 DEF Capture
<1>6. CASE Click
  <2>1. CASE Goto("nodes") /\ UNCHANGED <<client, clicks, calm, alone>>
    <3>1. UNCHANGED <<held, point, was, clicks, open, events, origin, list, calls>> /\ step = "click"
      BY <1>6, <2>1, Zenon DEF Click
    <3> QED
      BY <2>1, <3>1 DEF ClicksOK
  <2>2. CASE Land(point) /\ clicks' = clicks + 1 /\ Goto("judge")
    BY <1>6, <2>2, LandType DEF Click
  <2> QED
    BY <1>6, <2>1, <2>2 DEF Click
<1>7. CASE Judge
  <2>1. \/ Goto("nodes")
        \/ step' = "idle" /\ result' \in Results
    <3>1. ASSUME NEW s \in Signals,
                 Answer("success", "vision", 100 * Passed(s) >= 80 * Counted(s))
          PROVE  step' = "idle" /\ result' \in Results
      <4>1. (100 * Passed(s) >= 80 * Counted(s)) \in BOOLEAN
        OBVIOUS
      <4> QED
        BY <3>1, <4>1, AnswerType
    <3> QED
      BY <1>7, <3>1 DEF Judge
  <2>2. UNCHANGED <<held, point, client, calls, observers>> /\ step = "judge"
    BY <1>7 DEF Judge
  <2> QED
    BY <2>1, <2>2 DEF ClicksOK
<1>8. CASE FindNode
  <2>1. point' \in Int
    <3>1. held.name # NoChat /\ held.name # Frame => ScreenPoint(held.name) \in Int
      BY ScreenPointType DEF Ref
    <3> QED
      BY <1>8, <3>1 DEF FindNode
  <2> QED
    BY <1>8, <2>1 DEF FindNode
<1>9. CASE ClickNode
  <2>1. result' \in Results /\ step' = "idle"
    <3>1. CASE Answer("success", "node", FALSE)
      BY <3>1, AnswerType
    <3>2. ASSUME NEW e \in Activations,
                 Answer("success", "node", AtLeast(FocusConfidence(e), 80))
          PROVE  result' \in Results /\ step' = "idle"
      <4>1. AtLeast(FocusConfidence(e), 80) \in BOOLEAN
        BY DEF AtLeast
      <4> QED
        BY <3>2, <4>1, AnswerType
    <3> QED
      BY <1>9, <3>1, <3>2 DEF ClickNode
  <2>2. \/ UNCHANGED <<client, clicks, calm, alone>>
        \/ Land(point) /\ clicks' = clicks + 1
    BY <1>9, Zenon DEF ClickNode
  <2>3. UNCHANGED <<held, point, before, calls, was, same>>
    BY <1>9 DEF ClickNode
  <2> QED
    BY <2>1, <2>2, <2>3, LandType
<1>10. CASE ClickPosition
  <2>1. result' \in Results /\ step' = "idle"
    BY <1>10, AnswerType DEF ClickPosition
  <2>2. \/ UNCHANGED <<client, clicks, calm, alone>>
        \/ Land(ListPoint(held.position)) /\ clicks' = clicks + 1
    BY <1>10 DEF ClickPosition
  <2>3. UNCHANGED <<held, point, before, calls, was, same>>
    BY <1>10 DEF ClickPosition
  <2>4. ListPoint(held.position) \in Int
    BY <1>p DEF ListPoint
  <2> QED
    BY <2>1, <2>2, <2>3, <2>4, LandType
<1>11. CASE Search
  <2>1. result' \in Results
    BY <1>11, AnswerType DEF Search
  <2>2. UNCHANGED <<held, point, was, clicks, open, events, origin, list>> /\ step' = "idle"
    BY <1>11, Zenon DEF Search
  <2>3. calls' \in Nat
    BY <1>11 DEF Search
  <2> QED
    BY <2>1, <2>2, <2>3
<1>12. ASSUME NEW c \in Chats, Incoming(c) PROVE Rest'
  <2>1. ListOK'
    BY <1>12, ToTopType DEF Incoming, ListOK
  <2> QED
    BY <1>12, <2>1 DEF Incoming
<1>13. ASSUME NEW c \in Chats, Browse(c) PROVE Rest'
  BY <1>13 DEF Browse
<1>14. CASE UNCHANGED vars
  BY <1>14 DEF vars
<1> QED
  BY <1>1, <1>2, <1>3, <1>4, <1>5, <1>6, <1>7, <1>8, <1>9, <1>10, <1>11, <1>12, <1>13, <1>14 DEF Next

\* Whatever is called and whoever moves chats, every variable keeps to its range, the list
\* shows every chat once, and of the two later ways of Focus each begins with one click
\* behind it at most (TypeOK).
THEOREM TypeCorrect == Spec => []TypeOK
  BY TypeInit, TypeNext, TypeMeans, PTL DEF Spec

--------------------------------------------------------------------------------
(* Where Focus ends if nothing moved since the scan.  Then the reference still says  *)
(* where its chat is: in the row at its position, if it is a visual one, or in the    *)
(* node of its name; and a click on a chat was not lost.                              *)

HeldOK ==
    calm /\ held.chat # NoChat =>
        \/ held.rows = <<>> /\ held.name = held.chat
        \/ /\ held.name = NoChat /\ held.position + 1 \in DOMAIN held.rows
           /\ \A y : y = Middle(held.rows[held.position + 1]) => At(y) = held.chat

\* Before its first click Focus has opened nothing.
BeforeOK == calm /\ step \in FocusSteps /\ clicks = 0 => open = was

\* The row that is to be clicked is the one of the scan.
PointOK ==
    calm /\ same /\ held.chat # NoChat /\ step \in {"capture", "click"} =>
        \A y : y = point => At(y) = held.chat

\* The first click was on it.
OpenOK == calm /\ same /\ held.chat # NoChat /\ step \in FocusSteps /\ clicks = 1 => open = held.chat

\* The node that is to be clicked is the one of the chat.
NodeOK ==
    calm /\ held.chat # NoChat /\ step = "node" => \A c : c = held.chat => point = ScreenPoint(c)

\* CalmFocusLands, for a last point p and a chat c of which it says only what they are.
LandedAt(p, c) ==
    (/\ step = "idle" /\ result.status = "success" /\ calm /\ held.chat # NoChat
     /\ c = held.chat
     /\ p = IF result.source = "node" THEN ScreenPoint(c) ELSE ListPoint(held.position)
     /\ same \/ (result.source = "node" /\ clicks = 2 /\ At(p) # NoChat))
    => \/ open = held.chat
       \/ result.source # "vision" /\ clicks > 0 /\ open = At(p)
       \/ result.source # "vision" /\ open = was /\ (clicks = 0 \/ At(p) = NoChat)

LandsInv ==
    HeldOK /\ BeforeOK /\ PointOK /\ OpenOK /\ NodeOK /\ \A p, c : LandedAt(p, c)

\* LandsInv says where a Focus ends.
LEMMA LandsMeans == LandsInv => CalmFocusLands
<1>1. LandsInv => LandedAt(LastPoint, held.chat)
  BY DEF LandsInv
<1> QED
  BY <1>1 DEF LandedAt, LastPoint, CalmFocusLands

\* Before the first call.
LEMMA LandsInit == Init => LandsInv
  BY DEF Init, LandsInv, HeldOK, BeforeOK, PointOK, OpenOK, NodeOK, LandedAt, NoRef, NoResult,
         Answered, FocusSteps

\* While the list and the window stay where they are, so does what is at a place.
LEMMA Stays ==
    /\ UNCHANGED list => \A y : At(y)' = At(y)
    /\ UNCHANGED <<list, origin>> => \A c : ScreenPoint(c)' = ScreenPoint(c)
<1>1. UNCHANGED list => \A y : At(y)' = At(y)
  BY DEF At
<1>2. UNCHANGED <<list, origin>> => \A c : ScreenPoint(c)' = ScreenPoint(c)
  BY DEF ScreenPoint, RowPoint
<1> QED
  BY <1>1, <1>2

\* A reference that was right stays so, until something moves.
LEMMA HeldKept ==
    ASSUME HeldOK, UNCHANGED <<held, list>>, calm' => calm
    PROVE  HeldOK'
  BY Stays DEF HeldOK

\* A reference is right when the scan returns it.
LEMMA HeldScanned ==
    ASSUME TypeInv, Scan
    PROVE  HeldOK'
<1>1. UNCHANGED list
  BY DEF Scan, client
<1>2. ASSUME NEW rows \in Detections, held' \in VisualRefs(rows) PROVE HeldOK'
  <2>1. PICK i \in DOMAIN rows, f \in Features :
           held' = [position |-> i - 1, name |-> NoChat, text |-> f.text,
                    chat |-> At(Middle(rows[i])), rows |-> rows]
    BY <1>2 DEF VisualRefs
  <2>2. (i - 1) + 1 = i
    BY DetectionsType
  <2>3. /\ held'.name = NoChat /\ held'.position + 1 = i /\ held'.rows = rows
        /\ held'.chat = At(Middle(rows[i]))
    BY <2>1, <2>2
  <2> QED
    BY <1>1, <2>3, Stays DEF HeldOK
<1>3. ASSUME NEW k \in DOMAIN list,
             held' = [position |-> k, name |-> list[k], text |-> FALSE, chat |-> list[k],
                      rows |-> <<>>]
      PROVE  HeldOK'
  BY <1>3 DEF HeldOK
<1>4. ASSUME held'.chat = NoChat PROVE HeldOK'
  BY <1>4 DEF HeldOK
<1>5. [NoRef EXCEPT !.position = 0, !.name = Frame].chat = NoChat /\ NoRef.chat = NoChat
  BY DEF NoRef
<1>6. \/ held' \in UNION {VisualRefs(rows) : rows \in Detections}
      \/ held' \in NodeRefs \/ held' = NoRef
  BY Zenon DEF Scan
<1>7. CASE held' \in UNION {VisualRefs(rows) : rows \in Detections}
  BY <1>2, <1>7
<1>8. CASE held' \in NodeRefs
  BY <1>3, <1>4, <1>5, <1>8 DEF NodeRefs
<1> QED
  BY <1>4, <1>5, <1>6, <1>7, <1>8

\* The row at the position of a visual reference, if the same rows are seen again.
LEMMA SameRow ==
    ASSUME TypeInv, HeldOK, calm, held.chat # NoChat,
           NEW rows \in Detections, rows # <<>>, rows = held.rows, NEW f
    PROVE  At(Middle(rows[Target(Len(rows), f, held.position)])) = held.chat
<1>1. held.position + 1 \in DOMAIN rows /\ At(Middle(rows[held.position + 1])) = held.chat
  BY DEF HeldOK
<1>2. held.position \in Nat \cup {-1}
  BY DEF TypeInv, Ranges, Ref
<1>3. held.position \in 0..Len(rows) - 1
  BY <1>1, <1>2, DetectionsType
<1>4. Target(Len(rows), f, held.position) = held.position + 1
  BY <1>2, <1>3, DetectionsType, TargetType
<1> QED
  BY <1>1, <1>4

\* The chat a reference made of a node is named for has a node.
LEMMA NamedChat ==
    ASSUME TypeInv, HeldOK, calm, held.chat # NoChat, held.name # NoChat
    PROVE  held.name = held.chat /\ held.name # Frame
<1>1. held.chat \in Chats \cup {NoChat}
  BY DEF TypeInv, Ranges, Ref
<1> QED
  BY <1>1, NamesAssumption DEF HeldOK

\* What a click at y means while nothing else moves.
LEMMA LandMeans ==
    ASSUME NEW y, Land(y)
    PROVE  /\ UNCHANGED <<list, events, origin>> /\ (calm' => calm)
           /\ calm' => IF At(y) = NoChat THEN open' = open ELSE open' = At(y)
  BY DEF Land

\* What an answer says.
LEMMA AnswerMeans ==
    ASSUME NEW status, NEW source, NEW sure, Answer(status, source, sure)
    PROVE  step' = "idle" /\ result'.status = status /\ result'.source = source
  BY DEF Answer, Answered

\* Each step keeps it: only three of them end a Focus that succeeds.
LEMMA LandsNext == TypeInv /\ LandsInv /\ [Next]_vars => LandsInv'
<1> SUFFICES ASSUME TypeInv, LandsInv, [Next]_vars PROVE LandsInv'
  OBVIOUS
<1>a. HeldOK /\ BeforeOK /\ PointOK /\ OpenOK /\ NodeOK /\ \A p, c : LandedAt(p, c)
  BY DEF LandsInv
<1>b. ClicksOK /\ LaterClicks /\ clicks \in Nat
  BY DEF TypeInv, Ranges
<1>c. ASSUME \/ result'.status # "success"
             \/ step' # "idle"
             \/ ~calm'
      PROVE  \A p, c : LandedAt(p, c)'
  BY <1>c DEF LandedAt
<1>1. CASE Scan
  <2>1. step' = "idle" /\ result'.status # "success"
    BY <1>1 DEF Scan, NoResult, Answered
  <2> QED
    BY <1>1, <1>c, <2>1, HeldScanned
       DEF LandsInv, BeforeOK, PointOK, OpenOK, NodeOK, FocusSteps
<1>2. CASE Focus
  <2>1. /\ UNCHANGED <<held, list, calm, open>> /\ step' = "window" /\ clicks' = 0 /\ was' = open
        /\ result'.status # "success"
    BY <1>2 DEF Focus, client, NoResult, Answered
  <2> QED
    BY <1>a, <1>c, <2>1, HeldKept DEF LandsInv, BeforeOK, PointOK, OpenOK, NodeOK
<1>3. CASE ToFront
  <2>1. UNCHANGED <<held, list, origin, calm, same, open, was, clicks, point>>
    BY <1>3 DEF ToFront, client, observers
  <2>2. /\ step = "window"
        /\ step' = "detect" \/ (step' = "idle" /\ result'.status # "success")
    BY <1>3 DEF ToFront, Answer, Answered, Goto
  <2> QED
    BY <1>a, <1>c, <2>1, <2>2, HeldKept
       DEF LandsInv, BeforeOK, PointOK, OpenOK, NodeOK, FocusSteps
<1>4. CASE Detect
  <2>1. UNCHANGED <<held, list, origin, calm, open, was, clicks>> /\ step = "detect" /\ clicks = 0
    BY <1>4, <1>b DEF Detect, client, ClicksOK
  <2>2. step' \in {"nodes", "capture"}
    BY <1>4 DEF Detect, Goto
  <2>3. PointOK'
    <3>1. ASSUME NEW rows \in Detections, NEW f \in Looks(rows), rows # <<>>,
                 point' = Middle(rows[Target(Len(rows), f, held.position)]),
                 same' = (rows = held.rows)
          PROVE  PointOK'
      <4>1. SUFFICES ASSUME calm', same', held'.chat # NoChat PROVE At(point') = held'.chat
        BY <2>1, Stays DEF PointOK
      <4> QED
        BY <1>a, <2>1, <3>1, <4>1, SameRow
    <3>2. CASE step' = "nodes"
      BY <3>2 DEF PointOK
    <3> QED
      BY <1>4, <3>1, <3>2 DEF Detect, Goto
  <2> QED
    BY <1>a, <1>c, <2>1, <2>2, <2>3, HeldKept DEF LandsInv, BeforeOK, OpenOK, NodeOK, FocusSteps
<1>5. CASE Capture
  <2>1. /\ UNCHANGED <<held, list, origin, calm, same, open, was, clicks, point>>
        /\ step = "capture" /\ step' = "click"
    BY <1>5 DEF Capture, Goto, client, observers
  <2> QED
    BY <1>a, <1>c, <2>1, HeldKept, Stays
       DEF LandsInv, BeforeOK, PointOK, OpenOK, NodeOK, FocusSteps
<1>6. CASE Click
  <2>1. UNCHANGED <<held, point, was, same>> /\ step = "click" /\ clicks = 0
    BY <1>6, <1>b DEF Click, ClicksOK
  <2>2. CASE Goto("nodes") /\ UNCHANGED <<client, clicks, calm, alone>>
    <3>1. UNCHANGED <<list, origin, open, calm, clicks>> /\ step' = "nodes"
      BY <2>2 DEF Goto, client
    <3> QED
      BY <1>a, <1>c, <2>1, <3>1, HeldKept
         DEF LandsInv, BeforeOK, PointOK, OpenOK, NodeOK, FocusSteps
  <2>3. CASE Land(point) /\ clicks' = clicks + 1 /\ Goto("judge")
    <3>1. step' = "judge" /\ clicks' = 1
      BY <2>1, <2>3 DEF Goto
    <3>2. /\ UNCHANGED <<list, origin>> /\ (calm' => calm)
          /\ calm' => IF At(point) = NoChat THEN open' = open ELSE open' = At(point)
      BY <2>3, LandMeans
    <3>3. HeldOK'
      BY <1>a, <2>1, <3>2, HeldKept
    <3>4. OpenOK'
      BY <1>a, <2>1, <3>1, <3>2 DEF OpenOK, PointOK
    <3> QED
      BY <1>c, <3>1, <3>3, <3>4 DEF LandsInv, BeforeOK, PointOK, NodeOK
  <2> QED
    BY <1>6, <2>2, <2>3 DEF Click
<1>7. CASE Judge
  <2>1. UNCHANGED <<held, list, origin, calm, same, open, was, clicks, point>> /\ step = "judge"
    BY <1>7 DEF Judge, client, observers
  <2>2. \/ step' = "nodes"
        \/ step' = "idle" /\ result'.source = "vision"
    BY <1>7, AnswerMeans, Zenon DEF Judge, Goto
  <2>3. HeldOK' /\ BeforeOK' /\ PointOK' /\ OpenOK' /\ NodeOK'
    BY <1>a, <2>1, <2>2, HeldKept DEF BeforeOK, PointOK, OpenOK, NodeOK, FocusSteps
  <2>4. ASSUME NEW p, NEW c PROVE LandedAt(p, c)'
    <3>1. clicks = 1
      BY <1>b, <2>1 DEF ClicksOK
    <3>2. calm /\ same /\ held.chat # NoChat => open = held.chat
      BY <1>a, <2>1, <3>1 DEF OpenOK, FocusSteps
    <3> QED
      BY <2>1, <2>2, <3>2 DEF LandedAt
  <2> QED
    BY <2>3, <2>4 DEF LandsInv
<1>8. CASE FindNode
  <2>1. /\ UNCHANGED <<held, list, origin, calm, same, open, was, clicks>>
        /\ step = "nodes" /\ step' \in {"position", "node"}
    BY <1>8 DEF FindNode, Goto, client, observers
  <2>2. NodeOK'
    <3>1. SUFFICES ASSUME calm', held'.chat # NoChat, step' = "node"
                   PROVE  point' = ScreenPoint(held.chat)
      BY <2>1, Stays DEF NodeOK
    <3>2. held.name # NoChat /\ point' = IF held.name = Frame THEN 0 ELSE ScreenPoint(held.name)
      BY <1>8, <3>1 DEF FindNode, Goto
    <3> QED
      BY <1>a, <2>1, <3>1, <3>2, NamedChat
  <2> QED
    BY <1>a, <1>c, <2>1, <2>2, HeldKept DEF LandsInv, BeforeOK, PointOK, OpenOK, FocusSteps
<1> DEFINE Begun == /\ calm /\ clicks = 0 => open = was
                    /\ calm /\ same /\ held.chat # NoChat /\ clicks = 1 => open = held.chat
                    /\ clicks \in {0, 1}
<1>9. CASE ClickNode
  <2>1. UNCHANGED <<held, point, was, same>> /\ step = "node" /\ step' = "idle"
    BY <1>9 DEF ClickNode, Answer
  <2>2. result'.source = "node"
    BY <1>9, AnswerMeans, Zenon DEF ClickNode
  <2>3. Begun
    BY <1>a, <1>b, <2>1 DEF BeforeOK, OpenOK, LaterClicks, FocusSteps
  <2>4. CASE UNCHANGED <<client, clicks, calm, alone>>
    <3>1. UNCHANGED <<list, origin, open, calm, clicks>>
      BY <2>4 DEF client
    <3>2. HeldOK'
      BY <1>a, <2>1, <3>1, HeldKept
    <3>3. ASSUME NEW p, NEW c PROVE LandedAt(p, c)'
      BY <2>1, <2>2, <2>3, <3>1 DEF LandedAt
    <3> QED
      BY <2>1, <3>2, <3>3 DEF LandsInv, BeforeOK, PointOK, OpenOK, NodeOK, FocusSteps
  <2>5. CASE Land(point) /\ clicks' = clicks + 1
    <3>1. /\ UNCHANGED <<list, origin>> /\ (calm' => calm)
          /\ calm' => IF At(point) = NoChat THEN open' = open ELSE open' = At(point)
      BY <2>5, LandMeans
    <3>2. HeldOK'
      BY <1>a, <2>1, <3>1, HeldKept
    <3>3. ASSUME NEW p, NEW c PROVE LandedAt(p, c)'
      <4>1. At(p)' = At(p) /\ ScreenPoint(c)' = ScreenPoint(c)
        BY <3>1, Stays
      <4>2. calm' /\ held.chat # NoChat /\ c = held.chat => point = ScreenPoint(c)
        BY <1>a, <2>1, <3>1 DEF NodeOK
      <4> QED
        BY <2>1, <2>2, <2>3, <2>5, <3>1, <4>1, <4>2 DEF LandedAt
    <3> QED
      BY <2>1, <3>2, <3>3 DEF LandsInv, BeforeOK, PointOK, OpenOK, NodeOK, FocusSteps
  <2> QED
    BY <1>9, <2>4, <2>5 DEF ClickNode
<1>10. CASE ClickPosition
  <2>1. UNCHANGED <<held, point, was, same>> /\ step = "position" /\ step' = "idle"
    BY <1>10 DEF ClickPosition, Answer
  <2>2. result'.source = "position"
    BY <1>10, AnswerMeans, Zenon DEF ClickPosition
  <2>3. Begun
    BY <1>a, <1>b, <2>1 DEF BeforeOK, OpenOK, LaterClicks, FocusSteps
  <2>4. CASE UNCHANGED <<client, clicks, calm, alone>>
    <3>1. UNCHANGED <<list, origin, open, calm, clicks>>
      BY <2>4 DEF client
    <3>2. HeldOK'
      BY <1>a, <2>1, <3>1, HeldKept
    <3>3. ASSUME NEW p, NEW c PROVE LandedAt(p, c)'
      BY <2>1, <2>2, <2>3, <3>1 DEF LandedAt
    <3> QED
      BY <2>1, <3>2, <3>3 DEF LandsInv, BeforeOK, PointOK, OpenOK, NodeOK, FocusSteps
  <2>5. CASE Land(ListPoint(held.position)) /\ clicks' = clicks + 1
    <3>1. /\ UNCHANGED <<list, origin>> /\ (calm' => calm)
          /\ calm' => IF At(ListPoint(held.position)) = NoChat THEN open' = open
                      ELSE open' = At(ListPoint(held.position))
      BY <2>5, LandMeans
    <3>2. HeldOK'
      BY <1>a, <2>1, <3>1, HeldKept
    <3>3. ASSUME NEW p, NEW c PROVE LandedAt(p, c)'
      <4>1. At(p)' = At(p)
        BY <3>1, Stays
      <4>2. ListPoint(held'.position) = ListPoint(held.position)
        BY <2>1
      <4> QED
        BY <2>1, <2>2, <2>3, <2>5, <3>1, <4>1, <4>2 DEF LandedAt
    <3> QED
      BY <2>1, <3>2, <3>3 DEF LandsInv, BeforeOK, PointOK, OpenOK, NodeOK, FocusSteps
  <2> QED
    BY <1>10, <2>4, <2>5 DEF ClickPosition
<1>11. CASE Search
  <2>1. /\ UNCHANGED <<held, list, calm>> /\ step' = "idle" /\ result'.status # "success"
    BY <1>11 DEF Search, Answer, Answered, client, observers
  <2> QED
    BY <1>a, <1>c, <2>1, HeldKept DEF LandsInv, BeforeOK, PointOK, OpenOK, NodeOK, FocusSteps
<1>12. ASSUME NEW c \in Chats, Incoming(c) \/ Browse(c) PROVE LandsInv'
  <2>1. calm' = FALSE
    BY <1>12 DEF Incoming, Browse
  <2> QED
    BY <1>c, <2>1 DEF LandsInv, HeldOK, BeforeOK, PointOK, OpenOK, NodeOK
<1>13. CASE UNCHANGED vars
  <2>1. UNCHANGED <<step, held, point, result, list, open, origin, clicks, was, same, calm>>
    BY <1>13 DEF vars, client, observers
  <2>2. HeldOK' /\ BeforeOK' /\ OpenOK'
    BY <1>a, <2>1, HeldKept DEF BeforeOK, OpenOK
  <2>3. PointOK' /\ NodeOK'
    BY <1>a, <2>1, Stays DEF PointOK, NodeOK
  <2>4. ASSUME NEW p, NEW c PROVE LandedAt(p, c)'
    BY <1>a, <2>1, Stays DEF LandedAt
  <2> QED
    BY <2>2, <2>3, <2>4 DEF LandsInv
<1> QED
  BY <1>1, <1>2, <1>3, <1>4, <1>5, <1>6, <1>7, <1>8, <1>9, <1>10, <1>11, <1>12, <1>13 DEF Next

\* Where a successful Focus ends if nothing moved since the scan: in the conversation, or in
\* the chat at its last click, or where it began; in the conversation if vision clicked the
\* rows of the scan and nothing was clicked after it (CalmFocusLands).
THEOREM CalmFocus == Spec => []CalmFocusLands
  BY TypeInit, TypeNext, LandsInit, LandsNext, LandsMeans, PTL DEF Spec
================================================================================
