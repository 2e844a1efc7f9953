-------------------------- MODULE WindowSearch_proofs --------------------------
(* Proofs about WindowSearch, for any number of windows, any tree of them, any      *)
(* depth of the search and any changes of the client: the variables keep to their   *)
(* ranges, a window that has children throughout is not passed by, and without a     *)
(* change the window is the one that a single pass would have chosen.                *)
EXTENDS WindowSearch, TLAPS

(* What TypeOK does not say of the frames: those of the depths above are filled and *)
(* stand at a window, and so is the current one while it is worked on.              *)
AtWindow(e) == frame[e] \in Frames /\ frame[e].next \in Windows

FramesOK ==
    /\ \A e \in Depths : e < depth => AtWindow(e)
    /\ step \in {"top", "top_count"} => depth = 0
    /\ step \in {"get", "count"} => frame[depth] \in Frames
    /\ step = "count" => AtWindow(depth) /\ held # Nothing
    /\ step # "top" => picked \in Found

TypeInv == TypeOK /\ FramesOK

--------------------------------------------------------------------------------

\* The windows below one end at a window, those of the top window at the last.
LEMMA LastType == last \in Trees => /\ last \in [Windows -> Windows] /\ last[1] = N
  BY DEF Trees

\* An advanced frame is a frame, and the others stay what they were.
LEMMA AdvancedType ==
    ASSUME NEW d \in Depths, NEW best \in Found \cup {NotFound},
           frame[d] \in Frames, frame[d].next \in Windows,
           frame \in [Depths -> Frames \cup {NoFrame}]
    PROVE  /\ Advanced(d, best) \in [Depths -> Frames \cup {NoFrame}]
           /\ Advanced(d, best)[d] \in Frames
           /\ \A e \in Depths \ {d} : Advanced(d, best)[e] = frame[e]
<1> USE SizesAssumption
<1>1. [window |-> frame[d].window, next |-> frame[d].next + 1, best |-> best] \in Frames
  BY DEF Frames, Windows
<1>2. \A e \in Depths : frame[e] \in Frames \cup {NoFrame}
  OBVIOUS
<1> DEFINE f == [frame EXCEPT ![d] = [window |-> frame[d].window, next |-> frame[d].next + 1,
                                     best |-> best]]
<1>3. Advanced(d, best) = f
  BY DEF Advanced
<1>4. f \in [Depths -> Frames \cup {NoFrame}]
  BY <1>1
<1>5. f[d] \in Frames
  BY <1>1
<1>6. \A e \in Depths \ {d} : f[e] = frame[e]
  OBVIOUS
<1> QED
  BY <1>1, <1>3, <1>4, <1>5, <1>6

\* What is kept is something found, or nothing.
LEMMA KeptType ==
    ASSUME NEW b \in Found \cup {NotFound}, NEW w \in Windows, NEW o \in Objects \cup {Nothing},
           NEW full \in BOOLEAN, NEW d \in Depths
    PROVE  Kept(b, w, o, full, d) \in Found \cup {NotFound}
  BY DEF Kept, Found

\* What GetAccessible leaves in held, and what it means to have children.
LEMMA GetType ==
    ASSUME NEW w \in Windows, GetAccessible(w)
    PROVE  held' \in Objects \cup {Nothing}
  BY DEF GetAccessible

\* What a best is made of.
LEMMA FoundFields ==
    ASSUME NEW b \in Found \cup {NotFound}, b # NotFound
    PROVE  /\ b \in Found /\ b.window \in Windows /\ b.object \in Objects \cup {Nothing}
           /\ b.full \in BOOLEAN /\ b.depth \in Depths
  BY DEF Found

--------------------------------------------------------------------------------
\* The search begins with the top window, at depth 0.
THEOREM TypeInit == Init => TypeInv
  BY SizesAssumption, StartsAssumption
     DEF Init, TypeInv, TypeOK, FramesOK, Depths, Steps, NoFrame, NoAnswer, NotFound, Windows

\* Every step of the search and every change of the client keep the stack in its places.
THEOREM TypeNext == TypeInv /\ [Next]_vars => TypeInv'
<1> SUFFICES ASSUME TypeInv, [Next]_vars PROVE TypeInv'
  OBVIOUS
<1> USE DEF TypeInv
<1>0. /\ 0 \in Depths /\ 1 \in Windows /\ last \in [Windows -> Windows] /\ last[1] = N
      /\ Depths \subseteq Nat /\ Windows \subseteq Nat /\ Nothing \notin Objects
      /\ N \in Nat /\ MaxDepth \in Nat /\ frame \in [Depths -> Frames \cup {NoFrame}]
  BY SizesAssumption, LastType DEF TypeOK, Depths, Windows, Objects, Nothing
<1>1. CASE AskTop
  <2>1. picked' \in Found /\ held' \in Objects \cup {Nothing}
    BY <1>0, <1>1, GetType DEF AskTop, Found
  <2> QED
    BY <1>0, <1>1, <2>1 DEF AskTop, TypeOK, FramesOK, Steps, AtWindow, client
<1>2. CASE CountTop
  <2>1. picked' \in Found
    BY <1>2 DEF CountTop, FramesOK, Found, HasChildren
  <2> QED
    BY <1>0, <1>2, <2>1 DEF CountTop, TypeOK, FramesOK, Steps, AtWindow, client
<1>3. CASE ListChildren
  <2> DEFINE w == IF depth = 0 THEN 1 ELSE frame[depth - 1].next
             f == [window |-> w, next |-> w + 1, best |-> NotFound]
  <2>1. w \in Windows
    BY <1>0, <1>3 DEF ListChildren, TypeOK, FramesOK, AtWindow, Depths
  <2>2. f \in Frames
    <3>1. w + 1 \in 1..N + 1
      BY <2>1, <1>0 DEF Windows
    <3> HIDE DEF w
    <3> QED
      BY <2>1, <3>1 DEF Frames
  <2>3. frame' = [frame EXCEPT ![depth] = f] /\ depth' = depth /\ step' = "get"
    BY <1>3 DEF ListChildren
  <2>4. frame' \in [Depths -> Frames \cup {NoFrame}] /\ frame'[depth] \in Frames
    BY <2>2, <2>3 DEF TypeOK
  <2> QED
    BY <1>0, <1>3, <2>3, <2>4 DEF ListChildren, TypeOK, FramesOK, AtWindow, Steps, client
<1>4. CASE ListFails
  <2>1. CASE depth = 0
    BY <1>0, <1>4, <2>1 DEF ListFails, TypeOK, FramesOK, AtWindow, Steps, client
  <2>2. CASE depth > 0
    <3>1. depth - 1 \in Depths /\ AtWindow(depth - 1) /\ depth \in Depths
      BY <1>0, <2>2 DEF TypeOK, FramesOK, Depths
    <3>2. frame[depth - 1].best \in Found \cup {NotFound}
      BY <3>1 DEF AtWindow, Frames
    <3>3. frame' = Advanced(depth - 1, frame[depth - 1].best) /\ depth' = depth - 1 /\ step' = "get"
      BY <1>4, <2>2, <1>0 DEF ListFails, TypeOK
    <3>4. /\ frame' \in [Depths -> Frames \cup {NoFrame}] /\ frame'[depth - 1] \in Frames
          /\ \A e \in Depths \ {depth - 1} : frame'[e] = frame[e]
      BY <1>0, <3>1, <3>2, <3>3, AdvancedType DEF AtWindow
    <3>5. \A e \in Depths : e < depth' => e < depth /\ e # depth - 1
      BY <3>1, <3>3, <1>0
    <3> QED
      BY <1>0, <1>4, <3>1, <3>3, <3>4, <3>5 DEF ListFails, TypeOK, FramesOK, AtWindow, Steps, client
  <2> QED
    BY <1>0, <1>4, <2>1, <2>2 DEF ListFails
<1>5. CASE AskChild
  <2>1. frame[depth] \in Frames /\ depth \in Depths
    BY <1>5 DEF AskChild, FramesOK, TypeOK
  <2>2. frame[depth].next \in Windows
    BY <1>0, <1>5, <2>1 DEF AskChild, Current, Frames, Windows
  <2>6. frame[depth].best \in Found \cup {NotFound}
    BY <2>1 DEF Frames
  <2>3. held' \in Objects \cup {Nothing}
    BY <1>5, <2>2, GetType DEF AskChild, Current
  <2>4. CASE held' # Nothing
    BY <1>0, <1>5, <2>1, <2>2, <2>3, <2>4 DEF AskChild, TypeOK, FramesOK, AtWindow, Steps, client
  <2>5. CASE held' = Nothing
    <3>1. frame' = Advanced(depth, frame[depth].best) /\ AtWindow(depth)
      BY <1>5, <2>1, <2>2, <2>5 DEF AskChild, Current, AtWindow
    <3>2. /\ frame' \in [Depths -> Frames \cup {NoFrame}] /\ frame'[depth] \in Frames
          /\ \A e \in Depths \ {depth} : frame'[e] = frame[e]
      BY <1>0, <2>1, <2>6, <3>1, AdvancedType DEF AtWindow
    <3> QED
      BY <1>0, <1>5, <2>1, <2>3, <2>5, <3>2 DEF AskChild, TypeOK, FramesOK, AtWindow, Steps, client
  <2> QED
    BY <2>4, <2>5
<1>6. CASE CountChild
  <2> DEFINE w == frame[depth].next
             best == Kept(frame[depth].best, w, held, HasChildren(w, held), depth)
  <2>1. /\ AtWindow(depth) /\ depth \in Depths /\ frame[depth].best \in Found \cup {NotFound}
        /\ HasChildren(w, held) \in BOOLEAN
    BY <1>6 DEF CountChild, FramesOK, TypeOK, AtWindow, Frames, HasChildren
  <2>2. best \in Found \cup {NotFound}
    BY <2>1, KeptType DEF TypeOK, AtWindow
  <2>3. CASE /\ frame' = Advanced(depth, best) /\ step' = "get" /\ UNCHANGED depth
    <3>1. /\ frame' \in [Depths -> Frames \cup {NoFrame}] /\ frame'[depth] \in Frames
          /\ \A e \in Depths \ {depth} : frame'[e] = frame[e]
      BY <1>0, <2>1, <2>2, <2>3, AdvancedType DEF AtWindow
    <3> QED
      BY <1>0, <1>6, <2>1, <2>3, <3>1 DEF CountChild, TypeOK, FramesOK, AtWindow, Steps, client
  <2>4. CASE /\ depth < MaxDepth
             /\ frame' = [frame EXCEPT ![depth] = [@ EXCEPT !.best = best]]
             /\ depth' = depth + 1 /\ step' = "list"
    <3>1. /\ frame' \in [Depths -> Frames \cup {NoFrame}]
          /\ frame'[depth] \in Frames /\ frame'[depth].next = frame[depth].next
          /\ \A e \in Depths \ {depth} : frame'[e] = frame[e]
      BY <2>1, <2>2, <2>4 DEF TypeOK, AtWindow, Frames
    <3>2. depth' \in Depths /\ \A e \in Depths : e < depth' => e < depth \/ e = depth
      BY <1>0, <2>1, <2>4 DEF Depths
    <3> QED
      BY <1>0, <1>6, <2>1, <2>4, <3>1, <3>2 DEF CountChild, TypeOK, FramesOK, AtWindow, Steps, client
  <2> QED
    BY <1>6, <2>3, <2>4 DEF CountChild, Current
<1>7. CASE Return
  <2> DEFINE b == frame[depth].best
             up == frame[depth - 1]
             best == IF b = NotFound THEN up.best
                     ELSE Kept(up.best, b.window, b.object, HasChildren(b.window, b.object), b.depth)
  <2>1. /\ depth - 1 \in Depths /\ AtWindow(depth - 1) /\ depth \in Depths
        /\ frame[depth] \in Frames
    BY <1>0, <1>7 DEF Return, TypeOK, FramesOK, Depths
  <2>2. up.best \in Found \cup {NotFound} /\ b \in Found \cup {NotFound}
    BY <2>1 DEF AtWindow, Frames
  <2>3. best \in Found \cup {NotFound}
    BY <2>2, FoundFields, KeptType DEF HasChildren
  <2>4. frame' = Advanced(depth - 1, best) /\ depth' = depth - 1 /\ step' = step /\ step = "get"
    BY <1>7 DEF Return, Current
  <2>5. /\ frame' \in [Depths -> Frames \cup {NoFrame}] /\ frame'[depth - 1] \in Frames
        /\ \A e \in Depths \ {depth - 1} : frame'[e] = frame[e]
    BY <1>0, <2>1, <2>3, <2>4, AdvancedType DEF AtWindow
  <2>6. \A e \in Depths : e < depth' => e < depth /\ e # depth - 1
    BY <2>1, <2>4, <1>0
  <2> QED
    BY <1>0, <1>7, <2>1, <2>4, <2>5, <2>6 DEF Return, TypeOK, FramesOK, AtWindow, Steps, client
<1>8. CASE TakeFound
  <2>1. Current.best \in Found \cup {NotFound}
    BY <1>8 DEF TakeFound, FramesOK, Frames, Current
  <2>2. picked' \in Found
    BY <1>8, <2>1 DEF TakeFound, FramesOK
  <2> QED
    BY <1>0, <1>8, <2>2 DEF TakeFound, TypeOK, FramesOK, AtWindow, Steps, client
<1>9. CASE EnumerateNodes
  <2>1. picked \in Found
    BY <1>9 DEF EnumerateNodes, FramesOK
  <2>2. ASSUME HasChildren(picked.window, picked.object)
        PROVE  acc[picked.window][picked.object] \in 0..MaxCount
    BY <2>1, <2>2, SizesAssumption DEF HasChildren, Found, TypeOK, Counts, Missing, Nothing
  <2>3. answer' \in [window : Windows \cup {0}, count : 0..MaxCount]
    BY <1>9, <2>1, <2>2, SizesAssumption DEF EnumerateNodes, Found
  <2> QED
    BY <1>0, <1>9, <2>3 DEF EnumerateNodes, TypeOK, FramesOK, AtWindow, Steps, client
<1>10. ASSUME NEW w \in Windows, NEW o \in Objects, Change(w, o) PROVE TypeInv'
  <2>1. acc' \in [Windows -> [Objects -> Counts]]
    BY <1>10 DEF Change, TypeOK
  <2> QED
    BY <1>0, <1>10, <2>1, SizesAssumption DEF Change, TypeOK, FramesOK, AtWindow
<1>11. CASE UNCHANGED vars
  BY <1>11 DEF vars, client, TypeOK, FramesOK, AtWindow
<1> QED
  BY <1>1, <1>2, <1>3, <1>4, <1>5, <1>6, <1>7, <1>8, <1>9, <1>10, <1>11 DEF Next, Search

\* Every variable keeps to its range (TypeOK), whatever the tree of windows and however the
\* client changes: the recursion never goes deeper than MaxDepth, and works on windows only.
THEOREM TypeCorrect == Spec => []TypeOK
<1>1. TypeInv => TypeOK
  BY DEF TypeInv
<1> QED
  BY TypeInit, TypeNext, <1>1, PTL DEF Spec

--------------------------------------------------------------------------------
(* The windows passed by.  While the search works through the child windows, the    *)
(* top window is not one with children throughout, nor is the window it went down   *)
(* from, and all such windows it has behind it at depth 0 have left it with one     *)
(* found that had children.                                                         *)
Scanning == step \in {"list", "get", "count"}

Behind ==
    /\ frame[0].window = 1
    /\ \A w \in Steady : w < frame[0].next => frame[0].best.full

PassInv ==
    /\ step \in {"top", "top_count"} => frame[0] = NoFrame
    /\ step = "top_count" /\ 1 \in Steady => HasChildren(1, held)
    /\ Scanning => 1 \notin Steady
    /\ Scanning /\ depth = 0 /\ step = "list" => frame[0] = NoFrame
    /\ Scanning /\ ~(depth = 0 /\ step = "list") => Behind
    /\ Scanning /\ depth > 0 => frame[0].next \notin Steady
    /\ step = "count" /\ frame[depth].next \in Steady => HasChildren(frame[depth].next, held)
    /\ FindsNodes

\* What is found stays one with children, and a window that has some makes it one.
LEMMA KeptFull ==
    ASSUME NEW b \in Found \cup {NotFound}, NEW w, NEW o, NEW full \in BOOLEAN, NEW d,
           b.full \/ full
    PROVE  Kept(b, w, o, full, d).full
<1>1. CASE Better(b, full, d)
  BY <1>1 DEF Kept, Better, NotFound, Found
<1>2. CASE ~Better(b, full, d)
  BY <1>2 DEF Kept, Better, NotFound, Found
<1> QED
  BY <1>1, <1>2

\* GetAccessible chooses an object with children, if the window has one.
LEMMA GetSteady ==
    ASSUME TypeOK, NEW w \in Windows, w \in Steady, GetAccessible(w)
    PROVE  held' # Nothing /\ acc[w][held'] > 0
<1>1. PICK p \in Objects : acc[w][p] > 0
  BY DEF Steady
<1>2. \A o \in Objects : acc[w][o] \in Int
  BY SizesAssumption DEF TypeOK, Counts, Missing
<1>3. acc[w][p] # Missing
  BY <1>1, <1>2 DEF Missing
<1>4. PICK o \in Objects : held' = o /\ Chosen(acc[w], o)
  BY <1>3 DEF GetAccessible
<1>5. acc[w][p] <= acc[w][o]
  BY <1>4 DEF Chosen
<1>6. acc[w][o] > 0
  BY <1>1, <1>2, <1>5
<1>7. o # Nothing
  BY SizesAssumption DEF Objects, Nothing
<1> QED
  BY <1>4, <1>6, <1>7

\* Nothing was passed yet.
THEOREM PassInit == Init => PassInv
  BY SizesAssumption DEF Init, PassInv, Scanning, FindsNodes, Depths

\* The client only takes windows out of Steady, and leaves the others in it as they are.
LEMMA ChangeSteady ==
    ASSUME TypeOK, NEW v \in Windows, NEW o \in Objects, Change(v, o)
    PROVE  /\ Steady' \subseteq Steady
           /\ \A w \in Steady' : acc'[w] = acc[w]
<1> SUFFICES ASSUME NEW w \in Steady' PROVE w \in Steady /\ acc'[w] = acc[w]
  OBVIOUS
<1>1. w \in Windows /\ w \notin changed /\ w # v
  BY DEF Steady, Change
<1>2. acc'[w] = acc[w]
  BY <1>1 DEF Change, TypeOK
<1> QED
  BY <1>1, <1>2 DEF Steady

\* Every step keeps a steady window with children outweighed only by another with children.
THEOREM PassNext == TypeInv /\ PassInv /\ [Next]_vars => PassInv'
<1> SUFFICES ASSUME TypeInv, PassInv, [Next]_vars PROVE PassInv'
  OBVIOUS
<1>0. /\ TypeOK /\ FramesOK /\ 0 \in Depths /\ 1 \in Windows /\ last[1] = N /\ N \in Nat
      /\ Depths \subseteq Nat /\ Windows \subseteq Nat /\ depth \in Depths
      /\ frame \in [Depths -> Frames \cup {NoFrame}]
      /\ Steady \subseteq Windows
  BY SizesAssumption, LastType DEF TypeInv, TypeOK, Depths, Windows, Steady
<1>02. \A v, n \in Windows : v < n + 1 => v < n \/ v = n
  BY <1>0
\* A step of the search that leaves the client alone.
<1>01. ASSUME UNCHANGED client PROVE Steady' = Steady /\ acc' = acc /\ last' = last
  BY <1>01 DEF client, Steady
<1>1. CASE AskTop
  <2>1. Steady' = Steady /\ acc' = acc /\ frame' = frame /\ depth' = depth /\ step = "top"
    BY <1>1, <1>01 DEF AskTop
  <2>2. 1 \in Steady => held' # Nothing /\ acc[1][held'] > 0
    BY <1>0, <1>1, GetSteady DEF AskTop
  <2>3. depth = 0 /\ frame[0] = NoFrame
    BY <2>1, <1>0 DEF FramesOK, PassInv
  <2>4. step' = IF held' = Nothing THEN "list" ELSE "top_count"
    BY <1>1 DEF AskTop
  <2>5. step' = "top_count" /\ 1 \in Steady' => HasChildren(1, held)'
    BY <2>1, <2>2 DEF HasChildren
  <2>6. Scanning' => 1 \notin Steady'
    BY <2>1, <2>2, <2>4 DEF Scanning
  <2> QED
    BY <2>1, <2>3, <2>4, <2>5, <2>6 DEF PassInv, Scanning, FindsNodes
<1>2. CASE CountTop
  <2>1. /\ Steady' = Steady /\ acc' = acc /\ frame' = frame /\ depth' = depth
        /\ step = "top_count" /\ held' = held
    BY <1>2, <1>01 DEF CountTop
  <2>2. depth = 0 /\ frame[0] = NoFrame
    BY <2>1, <1>0 DEF FramesOK, PassInv
  <2>3. picked'.full <=> HasChildren(1, held)
    BY <1>0, <1>2, <2>1 DEF CountTop, FramesOK, Found
  <2>4. step' = IF picked'.full THEN "nodes" ELSE "list"
    BY <1>2 DEF CountTop
  <2>5. 1 \in Steady => HasChildren(1, held)
    BY <2>1 DEF PassInv
  <2> QED
    BY <2>1, <2>2, <2>3, <2>4, <2>5 DEF PassInv, Scanning, FindsNodes
<1>3. CASE ListChildren
  <2>1. /\ Steady' = Steady /\ acc' = acc /\ depth' = depth /\ held' = held
        /\ step = "list" /\ step' = "get" /\ 1 \notin Steady
    BY <1>3, <1>01 DEF ListChildren, PassInv, Scanning
  <2>2. CASE depth = 0
    <3>1. frame'[0] = [window |-> 1, next |-> 2, best |-> NotFound]
      BY <1>0, <1>3, <2>2 DEF ListChildren
    <3>2. ~\E w \in Steady : w < 2
      BY <1>0, <2>1 DEF Windows
    <3>3. Behind'
      BY <2>1, <3>1, <3>2 DEF Behind
    <3> QED
      BY <2>1, <2>2, <3>3 DEF PassInv, Scanning, FindsNodes
  <2>3. CASE depth > 0
    <3>1. frame'[0] = frame[0]
      BY <1>0, <1>3, <2>3 DEF ListChildren
    <3>2. Behind /\ frame[0].next \notin Steady
      BY <2>1, <2>3 DEF PassInv, Scanning
    <3>3. Behind'
      BY <2>1, <3>1, <3>2 DEF Behind
    <3> QED
      BY <2>1, <2>3, <3>1, <3>2, <3>3 DEF PassInv, Scanning, FindsNodes
  <2> QED
    BY <1>0, <2>2, <2>3
<1>4. CASE ListFails
  <2>1. /\ Steady' = Steady /\ acc' = acc /\ held' = held
        /\ step = "list" /\ 1 \notin Steady
    BY <1>4, <1>01 DEF ListFails, PassInv, Scanning
  <2>2. CASE depth = 0
    <3>1. frame[0] = NoFrame
      BY <2>1, <2>2 DEF PassInv, Scanning
    <3>2. frame' = frame /\ step' = "nodes"
      BY <1>4, <2>2 DEF ListFails
    <3> QED
      BY <2>1, <3>1, <3>2 DEF PassInv, Scanning, FindsNodes
  <2>3. CASE depth > 0
    <3>1. Behind /\ frame[0].next \notin Steady /\ step' = "get" /\ depth' = depth - 1
      BY <1>4, <2>1, <2>3 DEF PassInv, Scanning, ListFails
    <3>2. frame' = Advanced(depth - 1, frame[depth - 1].best)
      BY <1>4, <2>3 DEF ListFails
    <3>3. AtWindow(0)
      BY <1>0, <2>3 DEF FramesOK
    <3>4. CASE depth = 1
      <4>1. frame'[0] = [window |-> frame[0].window, next |-> frame[0].next + 1,
                         best |-> frame[0].best]
        BY <1>0, <3>2, <3>4 DEF Advanced
      <4>2. \A w \in Steady : w < frame[0].next + 1 => w < frame[0].next
        BY <1>0, <1>02, <3>1, <3>3 DEF AtWindow
      <4>3. Behind'
        BY <2>1, <3>1, <4>1, <4>2 DEF Behind
      <4> QED
        BY <2>1, <3>1, <3>4, <4>3 DEF PassInv, Scanning, FindsNodes
    <3>5. CASE depth # 1
      <4>1. frame'[0] = frame[0]
        BY <1>0, <2>3, <3>2, <3>5 DEF Advanced
      <4>2. Behind'
        BY <2>1, <3>1, <4>1 DEF Behind
      <4> QED
        BY <1>0, <2>1, <2>3, <3>1, <4>1, <4>2 DEF PassInv, Scanning, FindsNodes
    <3> QED
      BY <3>4, <3>5
  <2> QED
    BY <1>0, <2>2, <2>3
<1>5. CASE AskChild
  <2> DEFINE w == frame[depth].next
  <2>1. /\ Steady' = Steady /\ acc' = acc /\ depth' = depth
        /\ step = "get" /\ 1 \notin Steady /\ Behind
        /\ (depth > 0 => frame[0].next \notin Steady)
    BY <1>5, <1>01 DEF AskChild, PassInv, Scanning
  <2>2. frame[depth] \in Frames /\ w <= last[frame[depth].window]
    BY <1>0, <1>5, <2>1 DEF AskChild, FramesOK, Current
  <2>3. w \in Windows
    BY <1>0, <2>2 DEF Frames, Windows, TypeOK, Trees
  <2>4. w \in Steady => held' # Nothing /\ acc[w][held'] > 0
    BY <1>0, <1>5, <2>3, GetSteady DEF AskChild, Current
  <2>5. CASE held' # Nothing /\ step' = "count" /\ UNCHANGED frame
    <3>1. Behind'
      BY <2>1, <2>5 DEF Behind
    <3>2. frame'[depth'].next = w
      BY <2>1, <2>5
    <3>3. w \in Steady => HasChildren(w, held)'
      BY <2>1, <2>4, <2>5 DEF HasChildren
    <3>4. step' = "count" /\ frame'[depth'].next \in Steady' => HasChildren(frame[depth].next, held)'
      BY <2>1, <3>2, <3>3 DEF HasChildren
    <3> QED
      BY <2>1, <2>5, <3>1, <3>4 DEF PassInv, Scanning, FindsNodes
  <2>6. CASE held' = Nothing /\ frame' = Advanced(depth, frame[depth].best) /\ UNCHANGED step
    <3>1. w \notin Steady
      BY <2>4, <2>6
    <3>2. CASE depth = 0
      <4>1. frame'[0] = [window |-> frame[0].window, next |-> w + 1, best |-> frame[0].best]
        BY <1>0, <2>6, <3>2 DEF Advanced
      <4>2. \A v \in Steady : v < w + 1 => v < frame[0].next
        BY <1>0, <1>02, <2>3, <3>1, <3>2
      <4>3. Behind'
        BY <2>1, <4>1, <4>2 DEF Behind
      <4> QED
        BY <2>1, <2>6, <3>2, <4>3 DEF PassInv, Scanning, FindsNodes
    <3>3. CASE depth > 0
      <4>1. frame'[0] = frame[0]
        BY <1>0, <2>6, <3>3 DEF Advanced
      <4>2. Behind'
        BY <2>1, <4>1 DEF Behind
      <4> QED
        BY <2>1, <2>6, <3>3, <4>1, <4>2 DEF PassInv, Scanning, FindsNodes
    <3> QED
      BY <1>0, <3>2, <3>3
  <2> QED
    BY <1>5, <2>5, <2>6 DEF AskChild, Current
<1>6. CASE CountChild
  <2> DEFINE w == frame[depth].next
             full == HasChildren(w, held)
             best == Kept(frame[depth].best, w, held, full, depth)
  <2>1. /\ Steady' = Steady /\ acc' = acc /\ held' = held
        /\ step = "count" /\ 1 \notin Steady /\ Behind
        /\ (depth > 0 => frame[0].next \notin Steady)
        /\ (w \in Steady => full)
    BY <1>6, <1>01 DEF CountChild, PassInv, Scanning
  <2>2. AtWindow(depth) /\ frame[depth].best \in Found \cup {NotFound} /\ full \in BOOLEAN
    BY <1>0, <2>1 DEF FramesOK, AtWindow, Frames, HasChildren
  <2>3. frame[depth].best.full \/ full => best.full
    BY <2>2, KeptFull
  <2>4. CASE frame' = Advanced(depth, best) /\ step' = "get" /\ UNCHANGED depth
    <3>1. CASE depth = 0
      <4>1. frame'[0] = [window |-> frame[0].window, next |-> w + 1, best |-> best]
        BY <1>0, <2>4, <3>1 DEF Advanced
      <4>2. \A v \in Steady : v < w + 1 => v < w \/ v = w
        BY <1>0, <1>02, <2>2, <3>1 DEF AtWindow
      <4>3. \A v \in Steady : v < w + 1 => best.full
        BY <2>1, <2>3, <3>1, <4>2 DEF Behind
      <4>4. Behind'
        BY <2>1, <4>1, <4>3 DEF Behind
      <4> QED
        BY <2>1, <2>4, <3>1, <4>4 DEF PassInv, Scanning, FindsNodes
    <3>2. CASE depth > 0
      <4>1. frame'[0] = frame[0]
        BY <1>0, <2>4, <3>2 DEF Advanced
      <4>2. Behind'
        BY <2>1, <4>1 DEF Behind
      <4> QED
        BY <2>1, <2>4, <3>2, <4>1, <4>2 DEF PassInv, Scanning, FindsNodes
    <3> QED
      BY <1>0, <3>1, <3>2
  <2>5. CASE /\ ~full
             /\ frame' = [frame EXCEPT ![depth] = [@ EXCEPT !.best = best]]
             /\ depth' = depth + 1 /\ step' = "list"
    <3>1. CASE depth = 0
      <4>1. frame'[0] = [frame[0] EXCEPT !.best = best] /\ frame[0] \in Frames
        BY <1>0, <2>2, <2>5, <3>1 DEF AtWindow
      <4>2. frame'[0].window = frame[0].window /\ frame'[0].next = w /\ frame'[0].best = best
        BY <3>1, <4>1 DEF Frames
      <4>3. \A v \in Steady : v < w => best.full
        BY <2>1, <2>3, <3>1 DEF Behind
      <4>4. Behind'
        BY <2>1, <4>2, <4>3 DEF Behind
      <4>5. frame'[0].next \notin Steady'
        BY <2>1, <2>5, <4>2
      <4> QED
        BY <2>1, <2>5, <3>1, <4>4, <4>5 DEF PassInv, Scanning, FindsNodes
    <3>2. CASE depth > 0
      <4>1. frame'[0] = frame[0] /\ ~(depth' = 0)
        BY <1>0, <2>5, <3>2
      <4>2. Behind'
        BY <2>1, <4>1 DEF Behind
      <4> QED
        BY <2>1, <2>5, <3>2, <4>1, <4>2 DEF PassInv, Scanning, FindsNodes
    <3> QED
      BY <1>0, <3>1, <3>2
  <2> QED
    BY <1>6, <2>4, <2>5 DEF CountChild, Current
<1>7. CASE Return
  <2> DEFINE b == frame[depth].best
             up == frame[depth - 1]
             best == IF b = NotFound THEN up.best
                     ELSE Kept(up.best, b.window, b.object, HasChildren(b.window, b.object), b.depth)
  <2>1. /\ Steady' = Steady /\ acc' = acc /\ held' = held /\ depth > 0 /\ depth' = depth - 1
        /\ step = "get" /\ step' = "get" /\ 1 \notin Steady /\ Behind
        /\ frame[0].next \notin Steady
    BY <1>7, <1>01 DEF Return, PassInv, Scanning
  <2>2. frame' = Advanced(depth - 1, best)
    BY <1>7 DEF Return, Current
  <2>3. AtWindow(depth - 1) /\ AtWindow(0)
    <3>1. depth - 1 \in Depths /\ depth - 1 < depth
      BY <1>0, <2>1, SizesAssumption DEF Depths
    <3> QED
      BY <1>0, <2>1, <3>1 DEF FramesOK
  <2>4. up.best.full => best.full
    BY <2>3, KeptFull DEF AtWindow, Frames, HasChildren
  <2>5. CASE depth = 1
    <3>1. frame'[0] = [window |-> frame[0].window, next |-> frame[0].next + 1, best |-> best]
      BY <1>0, <2>2, <2>5 DEF Advanced
    <3>2. \A w \in Steady : w < frame[0].next + 1 => w < frame[0].next
      BY <1>0, <1>02, <2>1, <2>3 DEF AtWindow
    <3>3. frame[0].best.full => best.full
      BY <2>4, <2>5
    <3>4. Behind'
      BY <2>1, <3>1, <3>2, <3>3 DEF Behind
    <3> QED
      BY <2>1, <2>5, <3>4 DEF PassInv, Scanning, FindsNodes
  <2>6. CASE depth # 1
    <3>1. frame'[0] = frame[0]
      BY <1>0, <2>1, <2>2, <2>6 DEF Advanced
    <3>2. Behind'
      BY <2>1, <3>1 DEF Behind
    <3> QED
      BY <2>1, <3>1, <3>2 DEF PassInv, Scanning, FindsNodes
  <2> QED
    BY <2>5, <2>6
<1>8. CASE TakeFound
  <2>1. /\ Steady' = Steady /\ frame' = frame /\ step = "get" /\ step' = "nodes" /\ depth = 0
        /\ Behind /\ frame[0].next > last[frame[0].window]
    BY <1>8, <1>01 DEF TakeFound, PassInv, Scanning, Current
  <2>2. frame[0] \in Frames
    BY <1>0, <2>1 DEF FramesOK
  <2>3. \A w \in Steady : w < frame[0].next
    BY <1>0, <2>1, <2>2 DEF Behind, Windows, Frames
  <2>4. Steady # {} => frame[0].best.full
    BY <2>1, <2>3 DEF Behind
  <2>5. frame[0].best.full => picked' = frame[0].best
    BY <1>8, <2>1 DEF TakeFound, Current, NotFound
  <2> QED
    BY <2>1, <2>4, <2>5 DEF PassInv, Scanning, FindsNodes
<1>9. CASE EnumerateNodes
  <2>1. /\ Steady' = Steady /\ frame' = frame /\ picked' = picked
        /\ step = "nodes" /\ step' = "done"
    BY <1>9, <1>01 DEF EnumerateNodes
  <2> QED
    BY <2>1 DEF PassInv, Scanning, FindsNodes
<1>10. ASSUME NEW v \in Windows, NEW o \in Objects, Change(v, o) PROVE PassInv'
  <2>1. /\ UNCHANGED <<last, step, depth, frame, held, picked, answer>>
        /\ Steady' \subseteq Steady /\ \A w \in Steady' : acc'[w] = acc[w]
    BY <1>0, <1>10, ChangeSteady DEF Change
  <2>2. Behind => Behind'
    BY <2>1 DEF Behind
  <2>3. \A w \in Steady' : HasChildren(w, held) => HasChildren(w, held)'
    BY <2>1 DEF HasChildren
  <2>4. step' = "top_count" /\ 1 \in Steady' => HasChildren(1, held)'
    BY <2>1, <2>3 DEF PassInv
  <2>5. step' = "count" /\ frame'[depth'].next \in Steady' => HasChildren(frame[depth].next, held)'
    BY <2>1, <2>3 DEF PassInv, HasChildren
  <2> QED
    BY <2>1, <2>2, <2>4, <2>5 DEF PassInv, Scanning, FindsNodes
<1>11. CASE UNCHANGED vars
  BY <1>11 DEF vars, client, PassInv, Scanning, Behind, FindsNodes, Steady, HasChildren
<1> QED
  BY <1>1, <1>2, <1>3, <1>4, <1>5, <1>6, <1>7, <1>8, <1>9, <1>10, <1>11 DEF Next, Search

\* A window that has children throughout the call is never passed by for one without
\* (FindsNodes), for any tree of windows and any changes of the others.
THEOREM NodesFound == Spec => []FindsNodes
<1>1. PassInv => FindsNodes
  BY DEF PassInv
<1> QED
  BY TypeInit, TypeNext, PassInit, PassNext, <1>1, PTL DEF Spec

--------------------------------------------------------------------------------
(* While the client changes nothing.  Of the windows a frame has gone through, the   *)
(* best is the first that has children, else the first that has an object.  A search  *)
(* below may know one with children that the frame is still to come to itself; it     *)
(* takes it again then, at its own smaller depth.                                     *)

Fits(v) == \E o \in Objects : acc[v][o] > 0
Accessible(v) == \E o \in Objects : acc[v][o] # Missing

\* The object is the one GetAccessible chooses of the window.
Chose(v, o) == o \in Objects /\ Chosen(acc[v], o)

\* b is the best of a frame of window w, at depth e, that has gone through its windows up to m.
BestUpTo(w, e, m, b) ==
    \/ b = NotFound /\ \A v \in w + 1..m : ~Accessible(v)
    \/ /\ b # NotFound /\ Chose(b.window, b.object) /\ b.window \in w + 1..last[w]
       /\ b.full <=> Fits(b.window)
       /\ \/ b.full /\ b.depth = e /\ b.window <= m /\ \A v \in w + 1..b.window - 1 : ~Fits(v)
          \/ b.full /\ b.depth > e /\ b.window > m /\ \A v \in w + 1..m : ~Fits(v)
          \/ /\ ~b.full /\ b.depth = e /\ b.window <= m
             /\ \A v \in w + 1..m : ~Fits(v)
             /\ \A v \in w + 1..b.window - 1 : ~Accessible(v)

\* A frame is for the window at which the one above stands.
Nested(e) == frame[e].window = IF e = 0 THEN 1 ELSE frame[e - 1].next

\* A frame above stands at a window that has an object without children.
AboveOK(e) ==
    /\ Nested(e) /\ frame[e].next \in frame[e].window + 1..last[frame[e].window]
    /\ Accessible(frame[e].next)
    /\ BestUpTo(frame[e].window, e, frame[e].next, frame[e].best)

CurrentOK ==
    /\ Nested(depth) /\ Current.next \in Current.window + 1..last[Current.window] + 1
    /\ step = "count" => Current.next <= last[Current.window] /\ Chose(Current.next, held)
    /\ BestUpTo(Current.window, depth, Current.next - 1, Current.best)

\* What CalmPick says of the window picked.
Right(w) ==
    \/ Fits(w) /\ \A v \in 1..w - 1 : ~Fits(v)
    \/ (\A v \in Windows : ~Fits(v)) /\ w # 1 /\ Accessible(w) /\ \A v \in 2..w - 1 : ~Accessible(v)
    \/ (\A v \in Windows : ~Fits(v)) /\ w = 1 /\ \A v \in 2..N : ~Accessible(v)

PickOK ==
    \/ Chose(picked.window, picked.object)
    \/ picked.object = Nothing /\ ~Accessible(picked.window)

Searching == {"list", "get", "count"}

CalmOK ==
    /\ step \in {"top", "top_count"} \/ (step = "list" /\ depth = 0) => frame[0] = NoFrame
    /\ step = "top_count" => held = picked.object
    /\ step # "top" => PickOK
    /\ step \in Searching \cup {"top_count"} => picked.window = 1
    /\ step \in Searching =>
          ~Fits(1) /\ \A e \in Depths : e < depth => AboveOK(e)
    /\ step \in {"get", "count"} => CurrentOK
    /\ step \in {"nodes", "done"} /\ frame[0] # NoFrame => Right(picked.window)
    /\ step = "done" => /\ answer.window = picked.window
                        /\ \A o \in Objects : acc[answer.window][o] <= answer.count

CalmInv == changed = {} => CalmOK

\* A window with children has an object.
LEMMA FitsIsAccessible ==
    ASSUME NEW v, Fits(v), acc[v] \in [Objects -> Counts]
    PROVE  Accessible(v)
  BY DEF Fits, Accessible, Missing

\* The object GetAccessible chooses has the most children (GetAccessible, getAccChildCount).
LEMMA ChoseMeans ==
    ASSUME TypeOK, NEW v \in Windows, NEW o, Chose(v, o)
    PROVE  /\ Accessible(v) /\ o # Nothing
           /\ HasChildren(v, o) <=> Fits(v)
           /\ HasChildren(v, o) \in BOOLEAN
           /\ \A p \in Objects : acc[v][p] <= acc[v][o]
           /\ acc[v][o] \in 0..MaxCount
<1>1. /\ acc[v] \in [Objects -> Counts] /\ MaxCount \in Nat /\ 0 \notin Objects
      /\ \A p \in Objects : acc[v][p] \in Counts
  BY SizesAssumption DEF TypeOK, Objects
<1>2. o \in Objects /\ acc[v][o] # Missing /\ \A p \in Objects : acc[v][p] <= acc[v][o]
  BY DEF Chose, Chosen
<1>3. acc[v][o] \in 0..MaxCount /\ \A p \in Objects : acc[v][p] \in Int
  BY <1>1, <1>2 DEF Counts, Missing
<1>4. acc[v][o] > 0 <=> Fits(v)
  BY <1>2, <1>3 DEF Fits
<1> QED
  BY <1>1, <1>2, <1>3, <1>4 DEF Accessible, HasChildren, Nothing

\* A window without an object changes nothing.
LEMMA BestPasses ==
    ASSUME TypeOK, NEW w \in Windows, NEW e, NEW m \in Nat, NEW b,
           m + 1 \in Windows, ~Accessible(m + 1), BestUpTo(w, e, m, b)
    PROVE  BestUpTo(w, e, m + 1, b)
<1>1. ~Fits(m + 1)
  BY FitsIsAccessible DEF TypeOK
<1>2. \A v \in w + 1..m + 1 : v \in w + 1..m \/ v = m + 1
  BY DEF Windows
<1>3. CASE b = NotFound
  BY <1>1, <1>2, <1>3 DEF BestUpTo
<1>4. CASE b # NotFound
  <2>1. b.window \in Int /\ (b.full <=> Fits(b.window))
    <3>1. b.window \in w + 1..last[w] /\ (b.full <=> Fits(b.window))
      BY <1>4 DEF BestUpTo
    <3> QED
      BY <3>1
  <2>2. b.full => b.window # m + 1
    BY <1>1, <2>1
  <2> QED
    BY <1>1, <1>2, <1>4, <2>1, <2>2 DEF BestUpTo
<1> QED
  BY <1>3, <1>4

\* A window that is counted (CountChild).
LEMMA BestCounts ==
    ASSUME TypeOK, NEW w \in Windows, NEW e \in Depths, NEW n \in w + 1..last[w],
           NEW b \in Found \cup {NotFound}, NEW o, Chose(n, o), BestUpTo(w, e, n - 1, b)
    PROVE  BestUpTo(w, e, n, Kept(b, n, o, HasChildren(n, o), e))
<1> DEFINE full == HasChildren(n, o)
           f == [window |-> n, object |-> o, full |-> full, depth |-> e]
<1>1. /\ n \in Windows /\ n \in Nat /\ w \in Nat /\ e \in Nat
      /\ \A v \in w + 1..n : v \in w + 1..n - 1 \/ v = n
  BY SizesAssumption, LastType DEF TypeOK, Windows, Depths
<1>2. Accessible(n) /\ (full <=> Fits(n)) /\ full \in BOOLEAN
  BY <1>1, ChoseMeans
<1>3. f # NotFound /\ f.window = n /\ f.object = o /\ (f.full <=> full) /\ f.depth = e
  BY <1>1 DEF NotFound
<1>4. Kept(b, n, o, full, e) = IF Better(b, full, e) THEN f ELSE b
  BY DEF Kept
<1> SUFFICES BestUpTo(w, e, n, Kept(b, n, o, full, e))
  OBVIOUS
<1> HIDE DEF f, full
<1>5. CASE b = NotFound
  <2>1. \A v \in w + 1..n - 1 : ~Accessible(v) /\ ~Fits(v)
    <3>1. \A v \in w + 1..n - 1 : v \in Windows
      BY <1>1, SizesAssumption DEF Windows
    <3> QED
      BY <1>5, <3>1, FitsIsAccessible DEF BestUpTo, TypeOK
  <2>2. Kept(b, n, o, full, e) = f
    BY <1>4, <1>5 DEF Better
  <2> QED
    BY <1>1, <1>2, <1>3, <2>1, <2>2 DEF BestUpTo
<1>6. CASE b # NotFound
  <2>0. /\ b.window \in Windows /\ b.full \in BOOLEAN /\ b.depth \in Nat /\ b.window \in Nat
        /\ (b.full <=> Fits(b.window)) /\ Chose(b.window, b.object) /\ b.window \in w + 1..last[w]
    BY <1>6, FoundFields DEF Depths, Windows, BestUpTo
  <2>1. CASE b.full /\ b.depth = e /\ b.window <= n - 1 /\ \A v \in w + 1..b.window - 1 : ~Fits(v)
    <3>0. ~(e < b.depth) /\ ~(full /\ ~b.full)
      BY <1>1, <2>1
    <3>1. Kept(b, n, o, full, e) = b
      BY <1>4, <1>6, <3>0 DEF Better
    <3> QED
      BY <1>1, <1>6, <2>0, <2>1, <3>1 DEF BestUpTo
  <2>2. CASE b.full /\ b.depth > e /\ b.window > n - 1 /\ \A v \in w + 1..n - 1 : ~Fits(v)
    <3>1. CASE full
      <4>1. Kept(b, n, o, full, e) = f
        BY <1>1, <1>2, <1>4, <1>6, <2>0, <2>2, <3>1 DEF Better
      <4>2. f.full /\ Fits(f.window) /\ Chose(f.window, f.object) /\ f.window \in w + 1..last[w]
        BY <1>2, <1>3, <3>1
      <4>3. f.depth = e /\ f.window <= n /\ \A v \in w + 1..f.window - 1 : ~Fits(v)
        BY <1>1, <1>3, <2>2
      <4> QED
        BY <1>3, <4>1, <4>2, <4>3 DEF BestUpTo
    <3>2. CASE ~full
      <4>1. Kept(b, n, o, full, e) = b
        BY <1>1, <1>2, <1>4, <1>6, <2>0, <2>2, <3>2 DEF Better
      <4>2. b.window # n
        BY <1>2, <2>0, <2>2, <3>2
      <4> QED
        BY <1>1, <1>2, <1>6, <2>0, <2>2, <3>2, <4>1, <4>2 DEF BestUpTo
    <3> QED
      BY <3>1, <3>2
  <2>3. CASE /\ ~b.full /\ b.depth = e /\ b.window <= n - 1
             /\ \A v \in w + 1..n - 1 : ~Fits(v)
             /\ \A v \in w + 1..b.window - 1 : ~Accessible(v)
    <3>1. CASE full
      <4>1. Kept(b, n, o, full, e) = f
        BY <1>1, <1>2, <1>4, <1>6, <2>0, <2>3, <3>1 DEF Better
      <4>2. f.full /\ Fits(f.window) /\ Chose(f.window, f.object) /\ f.window \in w + 1..last[w]
        BY <1>2, <1>3, <3>1
      <4>3. f.depth = e /\ f.window <= n /\ \A v \in w + 1..f.window - 1 : ~Fits(v)
        BY <1>1, <1>3, <2>3
      <4> QED
        BY <1>3, <4>1, <4>2, <4>3 DEF BestUpTo
    <3>2. CASE ~full
      <4>1. Kept(b, n, o, full, e) = b
        BY <1>1, <1>2, <1>4, <1>6, <2>0, <2>3, <3>2 DEF Better
      <4> QED
        BY <1>1, <1>2, <1>6, <2>0, <2>3, <3>2, <4>1 DEF BestUpTo
    <3> QED
      BY <3>1, <3>2
  <2> QED
    BY <1>6, <2>1, <2>2, <2>3 DEF BestUpTo
<1> QED
  BY <1>5, <1>6

\* What the search below found is counted once more (the return of tryChildWindowsRecursive).
LEMMA BestReturns ==
    ASSUME TypeOK, NEW w \in Windows, NEW e \in Nat, NEW n \in w + 1..last[w],
           NEW up \in Found \cup {NotFound}, BestUpTo(w, e, n, up), Accessible(n),
           NEW b \in Found, b # NotFound, BestUpTo(n, e + 1, last[n], b)
    PROVE  BestUpTo(w, e, n, Kept(up, b.window, b.object, HasChildren(b.window, b.object), b.depth))
<1> DEFINE full == HasChildren(b.window, b.object)
           f == [window |-> b.window, object |-> b.object, full |-> full, depth |-> b.depth]
<1>1. /\ n \in Windows /\ n \in Nat /\ w \in Nat /\ last[n] \in Windows /\ last[n] <= last[w]
      /\ last[w] \in Nat /\ last[n] \in Nat
  <2>1. last[w] \in Windows /\ last \in [Windows -> Windows]
    BY LastType DEF TypeOK
  <2>2. n \in Windows
    BY <2>1, SizesAssumption DEF Windows
  <2>3. last[n] <= last[w]
    BY DEF TypeOK, Trees
  <2> QED
    BY <2>1, <2>2, <2>3 DEF Windows
<1>2. /\ b.window \in Windows /\ b.depth = e + 1 /\ Chose(b.window, b.object)
      /\ b.window \in n + 1..last[n] /\ (b.full <=> Fits(b.window))
  <2>1. b.window \in Windows /\ b.window \in n + 1..last[n]
    BY DEF BestUpTo, Found
  <2> QED
    BY <1>1, <2>1 DEF BestUpTo
<1>3. (full <=> Fits(b.window)) /\ full \in BOOLEAN
  BY <1>2, ChoseMeans
<1>4. f # NotFound /\ f.window = b.window /\ f.object = b.object /\ (f.full <=> full)
        /\ f.depth = e + 1
  BY <1>2 DEF NotFound
<1>5. Kept(up, b.window, b.object, full, b.depth) = IF Better(up, full, b.depth) THEN f ELSE up
  BY DEF Kept
<1> SUFFICES BestUpTo(w, e, n, Kept(up, b.window, b.object, full, b.depth))
  OBVIOUS
<1> HIDE DEF f, full
<1>6. up # NotFound
  <2>1. n \in w + 1..n
    BY <1>1
  <2> QED
    BY <2>1 DEF BestUpTo
<1>7. /\ up.full \in BOOLEAN /\ up.depth \in Nat /\ up.window \in Nat
  BY <1>6, FoundFields DEF Depths, Windows
<1>8. CASE Better(up, full, b.depth)
  <2>1. full /\ (~up.full \/ up.depth > e + 1)
    BY <1>2, <1>3, <1>6, <1>7, <1>8 DEF Better, BestUpTo
  <2>2. \A v \in w + 1..n : ~Fits(v)
    BY <1>6, <1>7, <2>1 DEF BestUpTo
  <2>3. Kept(up, b.window, b.object, full, b.depth) = f
    BY <1>5, <1>8
  <2>4. b.window \in w + 1..last[w] /\ b.window > n
    BY <1>1, <1>2
  <2>5. f.full /\ Fits(f.window) /\ Chose(f.window, f.object) /\ f.window \in w + 1..last[w]
    BY <1>2, <1>3, <1>4, <2>1, <2>4
  <2>6. f.depth > e /\ f.window > n
    BY <1>4, <2>4
  <2> QED
    BY <1>4, <2>2, <2>3, <2>5, <2>6 DEF BestUpTo
<1>9. CASE ~Better(up, full, b.depth)
  BY <1>5, <1>9
<1> QED
  BY <1>8, <1>9

--------------------------------------------------------------------------------
(* The steps, while the client changes nothing.                                     *)

Quiet == UNCHANGED <<last, acc>>

\* What is said of windows holds as long as the client leaves them alone.
LEMMA Rigid ==
    ASSUME Quiet
    PROVE  /\ \A w, e, m, b : BestUpTo(w, e, m, b)' <=> BestUpTo(w, e, m, b)
           /\ \A v : (Accessible(v)' <=> Accessible(v)) /\ (Fits(v)' <=> Fits(v))
           /\ \A v, o : Chose(v, o)' <=> Chose(v, o)
<1> USE DEF Quiet
<1>1. \A v : (Accessible(v)' <=> Accessible(v)) /\ (Fits(v)' <=> Fits(v))
  BY DEF Accessible, Fits
<1>2. \A v, o : Chose(v, o)' <=> Chose(v, o)
  BY DEF Chose
<1>3. \A w, e, m, b : BestUpTo(w, e, m, b)' <=> BestUpTo(w, e, m, b)
  BY <1>1, <1>2 DEF BestUpTo
<1> QED
  BY <1>1, <1>2, <1>3

\* A frame above that a step leaves alone.
LEMMA AboveKept ==
    ASSUME Quiet, NEW e \in Depths, AboveOK(e), frame'[e] = frame[e],
           e > 0 => frame'[e - 1] = frame[e - 1]
    PROVE  AboveOK(e)'
<1>1. Nested(e)'
  BY SizesAssumption DEF AboveOK, Nested, Depths
<1> QED
  BY <1>1, Rigid DEF AboveOK, Quiet

\* A step on the frames, with the frames above it kept, is right if its own frame is.
LEMMA SearchGoesOn ==
    ASSUME TypeInv, CalmOK, Quiet, step \in Searching, step' \in {"get", "count"},
           UNCHANGED picked, depth' \in Depths, depth' <= depth,
           \A e \in Depths : e < depth' => frame'[e] = frame[e],
           CurrentOK'
    PROVE  CalmOK'
<1>1. ~Fits(1)' /\ picked'.window = 1
  BY Rigid DEF CalmOK, Searching
<1>2. PickOK'
  BY Rigid DEF CalmOK, PickOK, Searching
<1>3. ASSUME NEW e \in Depths, e < depth' PROVE AboveOK(e)'
  <2>1. e < depth /\ e \in Nat /\ (e > 0 => e - 1 \in Depths /\ e - 1 < depth')
    BY <1>3, SizesAssumption DEF Depths, TypeInv, TypeOK
  <2>2. AboveOK(e)
    BY <2>1 DEF CalmOK
  <2> QED
    BY <1>3, <2>1, <2>2, AboveKept
<1> QED
  BY <1>1, <1>2, <1>3 DEF CalmOK, Searching

\* The windows below a window lie together in the order of the list.
LEMMA WindowsOf ==
    ASSUME TypeInv, NEW w \in Windows
    PROVE  /\ last[w] \in Windows /\ w <= last[w] /\ \A v \in w + 1..last[w] : last[v] <= last[w]
           /\ w + 1..last[w] \subseteq Windows /\ Windows \subseteq Nat
<1>1. last[w] \in Windows /\ w <= last[w] /\ \A v \in w + 1..last[w] : last[v] <= last[w]
  BY DEF TypeInv, TypeOK, Trees
<1> QED
  BY <1>1, SizesAssumption DEF Windows

\* The frame above the current one.
LEMMA Above ==
    ASSUME TypeInv, CalmOK, step \in Searching, depth > 0
    PROVE  /\ depth \in Depths /\ depth - 1 \in Depths /\ depth \in Nat
           /\ AboveOK(depth - 1) /\ frame[depth - 1] \in Frames
           /\ frame[depth - 1].next \in Windows /\ frame[depth - 1].window \in Windows
           /\ frame[depth - 1].best \in Found \cup {NotFound}
           /\ frame \in [Depths -> Frames \cup {NoFrame}]
<1>1. depth \in Depths /\ depth - 1 \in Depths /\ depth \in Nat /\ depth - 1 < depth
  BY SizesAssumption DEF TypeInv, TypeOK, Depths
<1>2. AboveOK(depth - 1) /\ AtWindow(depth - 1)
  BY <1>1 DEF CalmOK, TypeInv, FramesOK
<1> QED
  BY <1>1, <1>2 DEF AtWindow, Frames, TypeInv, TypeOK

\* enumerateChildWindows.
LEMMA CalmList ==
    ASSUME TypeInv, CalmOK, ListChildren
    PROVE  CalmOK'
<1> DEFINE w == IF depth = 0 THEN 1 ELSE frame[depth - 1].next
<1>1. /\ step = "list" /\ step' = "get" /\ depth' = depth /\ UNCHANGED picked /\ Quiet
      /\ frame' = [frame EXCEPT ![depth] = [window |-> w, next |-> w + 1, best |-> NotFound]]
  BY DEF ListChildren, client, Quiet
<1>2. depth \in Depths /\ frame \in [Depths -> Frames \cup {NoFrame}] /\ depth \in Nat
  BY SizesAssumption DEF TypeInv, TypeOK, Depths
<1>3. w \in Windows
  <2>1. CASE depth = 0
    BY <2>1, SizesAssumption DEF Windows
  <2>2. CASE depth > 0
    BY <1>1, <2>2, Above DEF Searching
  <2> QED
    BY <1>2, <2>1, <2>2
<1>4. w = IF depth = 0 THEN 1 ELSE frame'[depth - 1].next
  BY <1>1, <1>2 DEF Depths
<1> HIDE DEF w
<1>5. frame'[depth].window = w /\ frame'[depth].next = w + 1 /\ frame'[depth].best = NotFound
  BY <1>1, <1>2
<1>6. CurrentOK'
  <2>1. w + 1 \in w + 1..last[w] + 1 /\ w \in Nat
    BY <1>3, WindowsOf DEF Windows
  <2>2. BestUpTo(w, depth, w, NotFound)
    BY <2>1 DEF BestUpTo
  <2>3. (w + 1) - 1 = w
    BY <2>1
  <2>4. Nested(depth)'
    BY <1>1, <1>4, <1>5 DEF Nested
  <2> QED
    BY <1>1, <1>5, <2>1, <2>2, <2>3, <2>4, Rigid DEF CurrentOK, Current, Quiet
<1> QED
  BY <1>1, <1>2, <1>6, SearchGoesOn DEF Searching, Depths

\* A listing that fails leaves the frame above at its next window.
LEMMA CalmListFails ==
    ASSUME TypeInv, CalmOK, ListFails
    PROVE  CalmOK'
<1>0. step = "list" /\ UNCHANGED picked /\ Quiet
  BY DEF ListFails, client, Quiet
<1>1. CASE depth = 0
  <2>1. step' = "nodes" /\ frame'[0] = NoFrame
    BY <1>0, <1>1 DEF ListFails, CalmOK
  <2> QED
    BY <1>0, <2>1, Rigid DEF CalmOK, PickOK, Searching
<1>2. CASE depth > 0
  <2> DEFINE d == depth - 1
             f == frame[d]
  <2>1. /\ depth' = d /\ step' = "get" /\ frame' = Advanced(d, f.best)
    BY <1>2, SizesAssumption DEF ListFails, TypeInv, TypeOK, Depths
  <2>2. /\ d \in Depths /\ depth \in Nat /\ AboveOK(d) /\ f \in Frames /\ f.next \in Windows
        /\ f.window \in Windows /\ frame \in [Depths -> Frames \cup {NoFrame}]
    BY <1>0, <1>2, Above DEF Searching
  <2>3. frame' = [frame EXCEPT ![d] = [window |-> f.window, next |-> f.next + 1, best |-> f.best]]
    BY <2>1 DEF Advanced
  <2> HIDE DEF f
  <2>4. frame'[d].window = f.window /\ frame'[d].next = f.next + 1 /\ frame'[d].best = f.best
          /\ \A e \in Depths : e # d => frame'[e] = frame[e]
    BY <2>2, <2>3
  <2>5. CurrentOK'
    <3>1. /\ f.next + 1 \in f.window + 1..last[f.window] + 1 /\ (f.next + 1) - 1 = f.next
          /\ BestUpTo(f.window, d, f.next, f.best) /\ Nested(d)
      <4>1. /\ f.next \in f.window + 1..last[f.window] /\ Nested(d)
            /\ BestUpTo(f.window, d, f.next, f.best)
        BY <2>2 DEF AboveOK, f
      <4>2. last[f.window] \in Nat /\ f.window \in Nat /\ f.next \in Nat
        BY <2>2, WindowsOf
      <4> QED
        BY <4>1, <4>2
    <3>2. Nested(depth)'
      <4>1. d # 0 => d - 1 \in Depths /\ d - 1 # d
        BY <2>2, SizesAssumption DEF Depths
      <4> QED
        BY <2>1, <2>4, <3>1, <4>1 DEF Nested, f
    <3> QED
      BY <1>0, <2>1, <2>4, <3>1, <3>2, Rigid DEF CurrentOK, Current, Quiet
  <2>6. d <= depth
    BY <2>2
  <2>7. \A e \in Depths : e < d => frame'[e] = frame[e]
    BY <2>4, <2>2 DEF Depths
  <2> HIDE DEF d
  <2> QED
    BY <1>0, <2>1, <2>2, <2>5, <2>6, <2>7, SearchGoesOn DEF Searching
<1> QED
  BY <1>1, <1>2, SizesAssumption DEF TypeInv, TypeOK, Depths

\* Where the search stands, in a frame that it goes through.
LEMMA Standing ==
    ASSUME TypeInv, CalmOK, step \in {"get", "count"}
    PROVE  /\ depth \in Depths /\ depth \in Nat /\ Current \in Frames
           /\ Current = frame[depth] /\ Current.window \in Windows
           /\ Current.next \in Nat /\ Current.best \in Found \cup {NotFound}
           /\ frame \in [Depths -> Frames \cup {NoFrame}]
           /\ Nested(depth) /\ Current.next \in Current.window + 1..last[Current.window] + 1
           /\ BestUpTo(Current.window, depth, Current.next - 1, Current.best)
           /\ ~Fits(1) /\ picked.window = 1 /\ PickOK
           /\ Current.next <= last[Current.window] => Current.next \in Windows
<1>1. depth \in Depths /\ depth \in Nat /\ Current \in Frames /\ Current = frame[depth]
        /\ frame \in [Depths -> Frames \cup {NoFrame}]
  BY SizesAssumption DEF TypeInv, TypeOK, FramesOK, Depths, Current
<1>2. Current.window \in Windows /\ Current.next \in Nat /\ Current.best \in Found \cup {NotFound}
  BY <1>1, SizesAssumption DEF Frames
<1>3. CurrentOK /\ ~Fits(1) /\ picked.window = 1 /\ PickOK
  BY DEF CalmOK, Searching
<1>4. last[Current.window] \in Windows /\ Current.window \in Nat /\ last[Current.window] \in Nat
        /\ Current.window + 1..last[Current.window] \subseteq Windows
  BY <1>2, WindowsOf
<1> QED
  BY <1>1, <1>2, <1>3, <1>4 DEF CurrentOK

\* The window at which the search stands is done: b is the best with it.
LEMMA GoesOn ==
    ASSUME TypeInv, CalmOK, Quiet, step \in {"get", "count"}, UNCHANGED <<picked, depth>>,
           Current.next <= last[Current.window], step' = "get",
           NEW b \in Found \cup {NotFound}, frame' = Advanced(depth, b),
           BestUpTo(Current.window, depth, Current.next, b)
    PROVE  CalmOK'
<1> DEFINE f == frame[depth]
           g == [window |-> f.window, next |-> f.next + 1, best |-> b]
<1>1. /\ depth \in Depths /\ depth \in Nat /\ f.window \in Windows
      /\ f.next \in Nat /\ frame \in [Depths -> Frames \cup {NoFrame}] /\ Nested(depth)
      /\ f.next \in f.window + 1..last[f.window] + 1 /\ f = Current
      /\ last[f.window] \in Nat /\ f.window \in Nat
  BY Standing, WindowsOf
<1>2. frame' = [frame EXCEPT ![depth] = g]
  BY DEF Advanced
<1>3. g.window = f.window /\ g.next = f.next + 1 /\ g.best = b
  OBVIOUS
<1> HIDE DEF f, g
<1>4. frame'[depth] = g /\ \A e \in Depths : e # depth => frame'[e] = frame[e]
  BY <1>1, <1>2
<1>5. CurrentOK'
  <2>1. f.next + 1 \in f.window + 1..last[f.window] + 1 /\ (f.next + 1) - 1 = f.next
    BY <1>1
  <2>2. Nested(depth)'
    <3>1. depth # 0 => depth - 1 \in Depths /\ depth - 1 # depth
      BY <1>1, SizesAssumption DEF Depths
    <3> QED
      BY <1>1, <1>3, <1>4, <3>1 DEF Nested, f
  <2> QED
    BY <1>1, <1>3, <1>4, <2>1, <2>2, Rigid DEF CurrentOK, Current, Quiet
<1>6. \A e \in Depths : e < depth => frame'[e] = frame[e]
  BY <1>1, <1>4 DEF Depths
<1> QED
  BY <1>1, <1>5, <1>6, SearchGoesOn DEF Searching

\* GetAccessible of the top window.
LEMMA CalmAskTop ==
    ASSUME TypeInv, CalmOK, AskTop
    PROVE  CalmOK'
<1>1. /\ Quiet /\ depth = 0 /\ depth' = depth /\ frame' = frame /\ frame[0] = NoFrame
      /\ picked'.window = 1 /\ picked'.object = held'
      /\ step' = IF held' = Nothing THEN "list" ELSE "top_count"
      /\ GetAccessible(1)
  BY DEF AskTop, Quiet, client, TypeInv, FramesOK, CalmOK
<1>2. acc[1] \in [Objects -> Counts] /\ \A o \in Objects : acc[1][o] \in Counts
  BY SizesAssumption DEF TypeInv, TypeOK, Windows
<1>3. \/ held' = Nothing /\ ~Accessible(1) /\ ~Fits(1)
      \/ held' # Nothing /\ Chose(1, held')
  <2>1. CASE held' = Nothing /\ \A o \in Objects : acc[1][o] = Missing
    <3>1. ~Accessible(1)
      BY <2>1 DEF Accessible
    <3> QED
      BY <1>2, <2>1, <3>1, FitsIsAccessible
  <2>2. CASE held' \in {o \in Objects : Chosen(acc[1], o)}
    BY <2>2 DEF Chose, Objects, Nothing
  <2> QED
    BY <1>1, <2>1, <2>2 DEF GetAccessible
<1>4. PickOK'
  BY <1>1, <1>3, Rigid DEF PickOK
<1>5. ~(\E e \in Depths : e < 0)
  BY DEF Depths
<1> QED
  BY <1>1, <1>3, <1>4, <1>5, Rigid DEF CalmOK, Searching

\* The top window is counted: without children it is only a last resort.
LEMMA CalmCountTop ==
    ASSUME TypeInv, CalmOK, CountTop
    PROVE  CalmOK'
<1>1. /\ Quiet /\ step = "top_count" /\ depth = 0 /\ depth' = depth /\ frame' = frame
      /\ frame[0] = NoFrame /\ picked \in Found /\ picked.window = 1 /\ held = picked.object
      /\ PickOK
      /\ picked' = [picked EXCEPT !.full = HasChildren(1, held)]
      /\ step' = IF picked'.full THEN "nodes" ELSE "list"
  BY DEF CountTop, Quiet, client, TypeInv, FramesOK, CalmOK, Searching
<1>2. /\ picked'.window = 1 /\ picked'.object = picked.object
      /\ picked'.full <=> HasChildren(1, held)
  BY <1>1 DEF Found
<1>3. PickOK'
  BY <1>1, <1>2, Rigid DEF PickOK
<1>4. ~HasChildren(1, held) => ~Fits(1)
  <2>0. 1 \in Windows /\ TypeOK
    BY SizesAssumption DEF Windows, TypeInv
  <2>1. CASE Chose(1, held)
    BY <2>0, <2>1, ChoseMeans
  <2>2. CASE ~Accessible(1)
    BY <2>0, <2>2, FitsIsAccessible DEF TypeOK
  <2> QED
    BY <1>1, <2>1, <2>2 DEF PickOK
<1>5. ~(\E e \in Depths : e < 0)
  BY DEF Depths
<1> QED
  BY <1>1, <1>2, <1>3, <1>4, <1>5, Rigid DEF CalmOK, Searching

\* GetAccessible of the next window of a frame.
LEMMA CalmAskChild ==
    ASSUME TypeInv, CalmOK, AskChild
    PROVE  CalmOK'
<1>1. /\ Quiet /\ step = "get" /\ depth' = depth /\ UNCHANGED picked
      /\ Current.next <= last[Current.window]
      /\ GetAccessible(Current.next)
      /\ \/ held' # Nothing /\ step' = "count" /\ UNCHANGED frame
         \/ held' = Nothing /\ frame' = Advanced(depth, Current.best) /\ step' = "get"
  BY DEF AskChild, Quiet, client
<1>2. CASE held' # Nothing /\ step' = "count" /\ UNCHANGED frame
  <2>1. Chose(Current.next, held')
    BY <1>1, <1>2 DEF GetAccessible, Chose
  <2>2. CurrentOK'
    <3>1. UNCHANGED Current /\ Nested(depth)'
      BY <1>1, <1>2, Standing DEF Current, Nested
    <3> QED
      BY <1>1, <1>2, <2>1, <3>1, Standing, Rigid DEF CurrentOK, Quiet
  <2>3. depth \in Depths /\ depth <= depth
    BY <1>1, Standing
  <2> QED
    BY <1>1, <1>2, <2>2, <2>3, SearchGoesOn DEF Searching
<1>3. CASE held' = Nothing /\ frame' = Advanced(depth, Current.best) /\ step' = "get"
  <2> DEFINE w == Current.window
             n == Current.next
             b == Current.best
  <2>1. w \in Windows /\ n \in Windows /\ n \in Nat /\ b \in Found \cup {NotFound} /\ n >= 1
        /\ BestUpTo(w, depth, n - 1, b)
    BY <1>1, Standing, SizesAssumption DEF Windows
  <2>2. ~Accessible(n)
    BY <1>1, <1>3 DEF GetAccessible, Accessible, Objects, Nothing
  <2>3. n - 1 \in Nat /\ (n - 1) + 1 = n /\ TypeOK
    BY <2>1 DEF TypeInv
  <2> HIDE DEF w, n, b
  <2>4. BestUpTo(w, depth, n, b)
    BY <2>1, <2>2, <2>3, BestPasses
  <2> QED
    BY <1>1, <1>3, <2>1, <2>4, GoesOn DEF w, n, b
<1> QED
  BY <1>1, <1>2, <1>3

\* A window is counted, kept if better, and gone into if it has no children.
LEMMA CalmCountChild ==
    ASSUME TypeInv, CalmOK, CountChild
    PROVE  CalmOK'
<1> DEFINE w == Current.window
           n == Current.next
           full == HasChildren(n, held)
           best == Kept(Current.best, n, held, full, depth)
<1>1. /\ Quiet /\ step = "count" /\ UNCHANGED picked
      /\ \/ /\ full \/ depth = MaxDepth
            /\ frame' = Advanced(depth, best) /\ step' = "get" /\ depth' = depth
         \/ /\ ~full /\ depth < MaxDepth
            /\ frame' = [frame EXCEPT ![depth] = [@ EXCEPT !.best = best]]
            /\ depth' = depth + 1 /\ step' = "list"
  BY DEF CountChild, Quiet, client
<1>2. /\ w \in Windows /\ n \in Windows /\ n <= last[w] /\ n \in w + 1..last[w]
      /\ Chose(n, held) /\ depth \in Depths /\ Current.best \in Found \cup {NotFound}
      /\ BestUpTo(w, depth, n - 1, Current.best)
  <2>1. n <= last[w] /\ Chose(n, held)
    BY <1>1 DEF CalmOK, CurrentOK
  <2>2. n \in Windows /\ w \in Windows /\ last[w] \in Nat /\ w \in Nat
    BY <1>1, <2>1, Standing, WindowsOf
  <2> QED
    BY <1>1, <2>1, <2>2, Standing
<1>3. full \in BOOLEAN /\ Accessible(n) /\ (full <=> Fits(n)) /\ held \in Objects \cup {Nothing}
  BY <1>2, ChoseMeans DEF TypeInv, TypeOK
<1>4. BestUpTo(w, depth, n, best)
  <2> HIDE DEF w, n
  <2> QED
    BY <1>2, BestCounts DEF TypeInv
<1>5. best \in Found \cup {NotFound}
  <2> HIDE DEF full, n
  <2> QED
    BY <1>2, <1>3, KeptType
<1> HIDE DEF full, best
<1>6. CASE frame' = Advanced(depth, best) /\ step' = "get" /\ depth' = depth
  BY <1>1, <1>2, <1>4, <1>5, <1>6, GoesOn
<1>7. CASE /\ ~full /\ depth < MaxDepth
           /\ frame' = [frame EXCEPT ![depth] = [@ EXCEPT !.best = best]]
           /\ depth' = depth + 1 /\ step' = "list"
  <2> DEFINE f == frame[depth]
             g == [f EXCEPT !.best = best]
  <2>1. f \in Frames /\ f = Current /\ frame \in [Depths -> Frames \cup {NoFrame}] /\ depth \in Nat
        /\ Nested(depth)
    BY <1>1, Standing
  <2>2. g.window = f.window /\ g.next = f.next /\ g.best = best
    BY <2>1 DEF Frames
  <2>3. frame' = [frame EXCEPT ![depth] = g]
    BY <1>7
  <2> HIDE DEF f, g
  <2>4. frame'[depth] = g /\ \A e \in Depths : e # depth => frame'[e] = frame[e]
    BY <1>2, <2>1, <2>3
  <2>5. ASSUME NEW e \in Depths, e = depth PROVE AboveOK(e)'
    <3>1. depth # 0 => depth - 1 \in Depths /\ depth - 1 # depth
      BY <1>2, SizesAssumption DEF Depths
    <3>2. Nested(e)'
      BY <2>1, <2>2, <2>4, <2>5, <3>1 DEF Nested, f
    <3> QED
      BY <1>1, <1>2, <1>3, <1>4, <2>1, <2>2, <2>4, <2>5, <3>2, Rigid DEF AboveOK, Quiet
  <2>6. ASSUME NEW e \in Depths, e < depth PROVE AboveOK(e)'
    <3>1. AboveOK(e) /\ e # depth /\ e \in Nat /\ (e > 0 => e - 1 \in Depths /\ e - 1 # depth)
      BY <1>1, <2>1, <2>6, SizesAssumption DEF CalmOK, Searching, Depths
    <3> QED
      BY <1>1, <2>4, <3>1, AboveKept
  <2>7. \A e \in Depths : e < depth' => e = depth \/ e < depth
    BY <1>7, <2>1 DEF Depths
  <2>8. ~Fits(1)' /\ picked'.window = 1 /\ PickOK' /\ depth' # 0
    BY <1>1, <1>7, <2>1, Standing, Rigid DEF PickOK
  <2> QED
    BY <1>7, <2>5, <2>6, <2>7, <2>8 DEF CalmOK, Searching
<1> QED
  BY <1>1, <1>6, <1>7

\* The search below a window is over.
LEMMA CalmReturn ==
    ASSUME TypeInv, CalmOK, Return
    PROVE  CalmOK'
<1> DEFINE d == depth - 1
           b == Current.best
           up == frame[d]
           best == IF b = NotFound THEN up.best
                   ELSE Kept(up.best, b.window, b.object, HasChildren(b.window, b.object), b.depth)
<1>1. /\ Quiet /\ step = "get" /\ step' = "get" /\ UNCHANGED picked /\ depth > 0
      /\ Current.next > last[Current.window]
      /\ depth' = d /\ frame' = Advanced(d, best)
  BY DEF Return, Quiet, client
<1>2. /\ d \in Depths /\ depth \in Nat /\ AboveOK(d) /\ up \in Frames /\ up.next \in Windows
      /\ up.window \in Windows /\ up.best \in Found \cup {NotFound}
      /\ frame \in [Depths -> Frames \cup {NoFrame}]
  BY <1>1, Above DEF Searching
<1>3. /\ Current.window = up.next /\ b \in Found \cup {NotFound}
      /\ BestUpTo(up.next, d + 1, last[up.next], b) /\ d \in Nat
  <2>1. /\ Nested(depth) /\ Current.next \in Current.window + 1..last[Current.window] + 1
        /\ BestUpTo(Current.window, depth, Current.next - 1, b) /\ b \in Found \cup {NotFound}
        /\ Current.window \in Windows /\ Current = frame[depth] /\ Current.next \in Nat
    BY <1>1, Standing
  <2>2. last[Current.window] \in Nat
    BY <2>1, WindowsOf
  <2>3. Current.next - 1 = last[Current.window] /\ d + 1 = depth /\ d \in Nat
    BY <1>1, <1>2, <2>1, <2>2
  <2>4. Current.window = up.next
    BY <1>1, <2>1 DEF Nested
  <2> QED
    BY <2>1, <2>3, <2>4
<1>4. /\ up.next \in up.window + 1..last[up.window] /\ Accessible(up.next) /\ Nested(d)
      /\ BestUpTo(up.window, d, up.next, up.best)
  BY <1>2 DEF AboveOK
<1>5. BestUpTo(up.window, d, up.next, best)
  <2>1. CASE b = NotFound
    BY <1>4, <2>1
  <2>2. CASE b # NotFound
    <3>1. b \in Found
      BY <1>3, <2>2
    <3> HIDE DEF b, up, d
    <3> QED
      BY <1>2, <1>3, <1>4, <2>2, <3>1, BestReturns DEF TypeInv
  <2> QED
    BY <2>1, <2>2
<1> DEFINE g == [window |-> up.window, next |-> up.next + 1, best |-> best]
<1>6. frame' = [frame EXCEPT ![d] = g]
  BY <1>1 DEF Advanced
<1>7. g.window = up.window /\ g.next = up.next + 1 /\ g.best = best
  OBVIOUS
<1> HIDE DEF g, best, b
<1>8. frame'[d] = g /\ \A e \in Depths : e # d => frame'[e] = frame[e]
  <2> HIDE DEF d
  <2> QED
    BY <1>2, <1>6
<1>9. CurrentOK'
  <2>1. up.next + 1 \in up.window + 1..last[up.window] + 1 /\ (up.next + 1) - 1 = up.next
    <3>1. last[up.window] \in Nat /\ up.window \in Nat /\ up.next \in Nat
      BY <1>2, WindowsOf
    <3> QED
      BY <1>4, <3>1
  <2>2. Nested(depth)'
    <3>1. d # 0 => d - 1 \in Depths /\ d - 1 # d
      BY <1>2, SizesAssumption DEF Depths
    <3> QED
      BY <1>1, <1>4, <1>7, <1>8, <3>1 DEF Nested
  <2> HIDE DEF d, up
  <2> QED
    BY <1>1, <1>5, <1>7, <1>8, <2>1, <2>2, Rigid DEF CurrentOK, Current, Quiet
<1>10. d <= depth /\ \A e \in Depths : e < d => frame'[e] = frame[e]
  BY <1>2, <1>8 DEF Depths
<1> HIDE DEF d
<1> QED
  BY <1>1, <1>2, <1>9, <1>10, SearchGoesOn DEF Searching

\* The search of the top frame is over.
LEMMA CalmTakeFound ==
    ASSUME TypeInv, CalmOK, TakeFound
    PROVE  CalmOK'
<1> DEFINE b == Current.best
<1>1. /\ Quiet /\ step = "get" /\ step' = "nodes" /\ depth = 0 /\ UNCHANGED frame
      /\ Current.next > last[Current.window]
      /\ picked' = IF b = NotFound THEN picked ELSE b
  BY DEF TakeFound, Quiet, client
<1>2. /\ BestUpTo(1, 0, N, b) /\ b \in Found \cup {NotFound} /\ ~Fits(1)
      /\ picked.window = 1 /\ PickOK
  <2>1. /\ Nested(0) /\ Current.next \in Current.window + 1..last[Current.window] + 1
        /\ BestUpTo(Current.window, 0, Current.next - 1, b) /\ b \in Found \cup {NotFound}
        /\ Current = frame[0] /\ Current.next \in Nat
        /\ ~Fits(1) /\ picked.window = 1 /\ PickOK
    BY <1>1, Standing
  <2>2. Current.window = 1 /\ last[1] = N /\ N \in Nat
    BY <2>1, LastType, SizesAssumption DEF Nested, TypeInv, TypeOK
  <2>3. Current.next - 1 = N
    BY <1>1, <2>1, <2>2
  <2> QED
    BY <2>1, <2>2, <2>3
<1>3. Windows = 1..N /\ N \in Nat \ {0} /\ last[1] = N /\ \A v \in Windows : Fits(v) => Accessible(v)
  BY SizesAssumption, LastType, FitsIsAccessible DEF Windows, TypeInv, TypeOK
<1> HIDE DEF b
<1>4. CASE b = NotFound
  <2>1. \A v \in 2..N : ~Accessible(v)
    BY <1>2, <1>4 DEF BestUpTo
  <2>2. Right(1)
    <3>1. \A v \in Windows : v = 1 \/ v \in 2..N
      BY <1>3
    <3> QED
      BY <1>2, <1>3, <2>1, <3>1 DEF Right
  <2>3. Right(1)' /\ PickOK'
    BY <1>1, <1>2, <1>4, <2>2, Rigid DEF Right, PickOK
  <2> QED
    BY <1>1, <1>2, <1>4, <2>3 DEF CalmOK, Searching
<1>5. CASE b # NotFound
  <2>1. /\ Chose(b.window, b.object) /\ b.window \in 2..N /\ (b.full <=> Fits(b.window))
        /\ \/ b.full /\ \A v \in 2..b.window - 1 : ~Fits(v)
           \/ /\ ~b.full /\ \A v \in 2..N : ~Fits(v)
              /\ \A v \in 2..b.window - 1 : ~Accessible(v)
    BY <1>2, <1>3, <1>5 DEF BestUpTo
  <2>2. Accessible(b.window)
    BY <1>3, <2>1, ChoseMeans DEF TypeInv
  <2>3. Right(b.window)
    <3>1. \A v \in Windows : v = 1 \/ v \in 2..N
      BY <1>3
    <3>2. \A v \in 1..b.window - 1 : v = 1 \/ v \in 2..b.window - 1
      BY <1>3, <2>1
    <3> QED
      BY <1>2, <2>1, <2>2, <3>1, <3>2 DEF Right
  <2>4. Right(b.window)' /\ PickOK'
    <3>1. UNCHANGED b
      BY <1>1 DEF b, Current, TakeFound
    <3> QED
      BY <1>1, <1>5, <2>1, <2>3, <3>1, Rigid DEF Right, PickOK
  <2>5. picked'.window = b'.window
    BY <1>1, <1>5 DEF b, Current, TakeFound
  <2> QED
    BY <1>1, <1>5, <2>4, <2>5 DEF CalmOK, Searching
<1> QED
  BY <1>4, <1>5

\* enumerateAccessibleChildren.
LEMMA CalmNodes ==
    ASSUME TypeInv, CalmOK, EnumerateNodes
    PROVE  CalmOK'
<1> DEFINE w == picked.window
           o == picked.object
<1>1. /\ Quiet /\ step = "nodes" /\ step' = "done" /\ UNCHANGED <<frame, picked>>
      /\ answer' = [window |-> w, count |-> IF HasChildren(w, o) THEN acc[w][o] ELSE 0]
  BY DEF EnumerateNodes, Quiet, client
<1>2. picked \in Found /\ PickOK /\ w \in Windows /\ (frame[0] # NoFrame => Right(w))
  BY <1>1 DEF TypeInv, FramesOK, CalmOK, Found
<1>3. \A p \in Objects : acc[w][p] <= answer'.count
  <2>1. CASE Chose(w, o)
    <3>1. /\ \A p \in Objects : acc[w][p] <= acc[w][o]
          /\ o # Nothing /\ acc[w][o] \in Nat
      BY <1>2, <2>1, ChoseMeans DEF TypeInv
    <3>2. acc[w][o] <= answer'.count /\ answer'.count \in Nat
      BY <1>1, <3>1 DEF HasChildren
    <3>3. \A p \in Objects : acc[w][p] \in Int
      BY <1>2, SizesAssumption DEF TypeInv, TypeOK, Counts, Missing
    <3> QED
      BY <3>1, <3>2, <3>3
  <2>2. CASE o = Nothing /\ ~Accessible(w)
    BY <1>1, <2>2 DEF HasChildren, Accessible, Missing
  <2> QED
    BY <1>2, <2>1, <2>2 DEF PickOK
<1>4. answer'.window = w /\ PickOK' /\ (frame[0] # NoFrame => Right(w)')
  BY <1>1, <1>2, Rigid DEF PickOK, Right
<1> QED
  BY <1>1, <1>3, <1>4 DEF CalmOK, Searching, Quiet

--------------------------------------------------------------------------------
\* No frame, and no window asked yet.
THEOREM CalmInit == Init => CalmInv
<1> SUFFICES ASSUME Init PROVE CalmOK
  BY DEF CalmInv
<1>1. frame[0] = NoFrame
  BY SizesAssumption DEF Init, Depths
<1> QED
  BY <1>1 DEF Init, CalmOK, Searching

\* Every step of the search keeps each frame's best window the one that a single pass over
\* the windows of the frame would have chosen (tryChildWindowsRecursive).
THEOREM CalmNext == TypeInv /\ CalmInv /\ [Next]_vars => CalmInv'
<1> SUFFICES ASSUME TypeInv, CalmInv, [Next]_vars, changed' = {} PROVE CalmOK'
  BY DEF CalmInv
<1>1. ASSUME NEW w \in Windows, NEW o \in Objects, Change(w, o) PROVE FALSE
  BY <1>1 DEF Change
<1>2. changed = {}
  BY <1>1 DEF Next, Search, AskTop, CountTop, ListChildren, ListFails, AskChild, CountChild,
              Return, TakeFound, EnumerateNodes, client, vars
<1>3. CalmOK
  BY <1>2 DEF CalmInv
<1>4. CASE UNCHANGED vars
  <2>1. Quiet /\ UNCHANGED <<step, depth, frame, held, picked, answer>>
    BY <1>4 DEF vars, client, Quiet
  <2>2. \A e \in Depths : AboveOK(e) <=> AboveOK(e)'
    BY <1>4 DEF vars, client, AboveOK, Nested, BestUpTo, Fits, Accessible, Chose
  <2>3. CurrentOK <=> CurrentOK'
    BY <1>4 DEF vars, client, CurrentOK, Current, Nested, BestUpTo, Fits, Accessible, Chose
  <2>4. /\ PickOK <=> PickOK'
        /\ Right(picked.window) <=> Right(picked.window)'
        /\ Fits(1) <=> Fits(1)'
    BY <1>4 DEF vars, client, PickOK, Right, Fits, Accessible, Chose
  <2>5. (\A o \in Objects : acc[answer.window][o] <= answer.count)
          => (\A o \in Objects : acc[answer.window][o] <= answer.count)'
    BY <1>4 DEF vars, client
  <2>6. /\ step' \in Searching => (\A e \in Depths : e < depth => AboveOK(e))'
        /\ step \in Searching <=> step' \in Searching
    BY <1>3, <2>1, <2>2 DEF CalmOK
  <2> QED
    BY <1>3, <2>1, <2>3, <2>4, <2>5, <2>6 DEF CalmOK
<1> QED
  BY <1>1, <1>3, <1>4, CalmAskTop, CalmCountTop, CalmList, CalmListFails, CalmAskChild,
     CalmCountChild, CalmReturn, CalmTakeFound, CalmNodes DEF Next, Search

\* While the client changes nothing, the recursion answers as one pass over its windows would:
\* for any tree of windows, any depth, and whatever listings fail below (CalmPick).
THEOREM CalmSearch == Spec => []CalmPick
<1>1. TypeInv /\ CalmInv => CalmPick
  <2> SUFFICES ASSUME TypeInv, CalmInv, step = "done", changed = {} PROVE CalmPick
    BY DEF CalmPick
  <2>1. /\ answer.window = picked.window
        /\ \A o \in Objects : acc[answer.window][o] <= answer.count
        /\ frame[0] # NoFrame => Right(answer.window)
    BY DEF CalmInv, CalmOK
  <2> QED
    BY <2>1 DEF CalmPick, Right, Fits, Accessible
<1> QED
  BY TypeInit, TypeNext, CalmInit, CalmNext, <1>1, PTL DEF Spec
================================================================================
