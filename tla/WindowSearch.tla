----------------------------- MODULE WindowSearch -----------------------------
(* EnumerateAccessibleNodes (windows/bridge.go): which window the agent reads the   *)
(* accessible nodes of.  The client's top window often has none, so the search goes *)
(* through its child windows: tryChildWindowsRecursive lists all windows below a    *)
(* window, asks each for its accessible objects and the number of their children,   *)
(* and goes down into a window that has an object without children.  Listing the    *)
(* windows below one is a step, and so are all the questions GetAccessible puts to  *)
(* one; the client builds and drops its objects between the steps.                  *)
(* Below the first level the tree of nodes is left out.  One call is modelled, of   *)
(* an initialised bridge, for a window that exists.                                 *)
EXTENDS Integers

CONSTANTS
    N,              \* windows: the top one, 1, and the others in the order the system lists them
    Identifiers,    \* how many object identifiers GetAccessible tries, 7 in the code
    MaxCount,       \* most children of an object
    Starts,         \* what the objects of a window may be before the call
    MaxDepth,       \* maxDepth of tryChildWindows, 3 in the code
    MaxChanges      \* bound: changes of the client's objects

ASSUME SizesAssumption ==
    /\ N \in Nat \ {0} /\ Identifiers \in Nat \ {0}
    /\ MaxCount \in Nat /\ MaxDepth \in Nat /\ MaxChanges \in Nat

Windows == 1..N
Objects == 1..Identifiers
Depths == 0..MaxDepth

\* The number of children of an object, if there is one.
Missing == -1
Counts == {Missing} \cup 0..MaxCount

ASSUME StartsAssumption == Starts # {} /\ Starts \subseteq [Objects -> Counts]

VARIABLES
    last,       \* the client: the windows below w are w+1..last[w]
    acc,        \* the client: the number of children of an object of a window, or Missing
    changed,    \* the client: windows whose objects changed during the call (an observer)
    changes,
    step,       \* the next step of the call
    depth,      \* currentDepth
    frame,      \* childHandles, the index in them, and found..., of each depth
    held,       \* the object GetAccessible chose last, or Nothing
    picked,     \* effectiveHandle and pAcc
    answer      \* the nodes returned: root window, number of children

client == <<last, acc, changed, changes>>
vars == <<client, step, depth, frame, held, picked, answer>>

Nothing == 0

\* A window, the object chosen of it, whether that had children, and the depth it was found at.
Found == [window : Windows, object : Objects \cup {Nothing}, full : BOOLEAN, depth : Depths]
NotFound == [window |-> 0, object |-> Nothing, full |-> FALSE, depth |-> 0]

Frames == [window : Windows, next : 1..N + 1, best : Found \cup {NotFound}]
NoFrame == [window |-> 0, next |-> 0, best |-> NotFound]

NoAnswer == [window |-> 0, count |-> 0]

Trees ==
    {l \in [Windows -> Windows] :
        /\ l[1] = N
        /\ \A w \in Windows : w <= l[w] /\ \A v \in w + 1..l[w] : l[v] <= l[w]}

Init ==
    /\ last \in Trees /\ acc \in [Windows -> Starts]
    /\ changed = {} /\ changes = 0
    /\ step = "top" /\ depth = 0 /\ frame = [d \in Depths |-> NoFrame]
    /\ held = Nothing /\ picked = NotFound /\ answer = NoAnswer

--------------------------------------------------------------------------------
(* GetAccessible.                                                                *)

\* The object with most children, the first of these.
Chosen(c, o) ==
    /\ c[o] # Missing
    /\ \A p \in Objects : c[p] <= c[o] /\ (p < o => c[p] < c[o])

\* held is the object chosen of the window, if it has any.
GetAccessible(w) ==
    \/ held' = Nothing /\ \A o \in Objects : acc[w][o] = Missing
    \/ held' \in {o \in Objects : Chosen(acc[w], o)}

\* getAccChildCount, of an object chosen earlier.
HasChildren(w, o) == o # Nothing /\ acc[w][o] > 0

--------------------------------------------------------------------------------
(* The top window.                                                               *)

\* GetAccessible of the top window; without an object, its child windows are next.
AskTop ==
    /\ step = "top"
    /\ GetAccessible(1)
    /\ step' = IF held' = Nothing THEN "list" ELSE "top_count"
    /\ picked' = [window |-> 1, object |-> held', full |-> FALSE, depth |-> 0]
    /\ UNCHANGED <<client, depth, frame, answer>>

\* An object with children ends the search; picked is what is left if the search fails.
CountTop ==
    /\ step = "top_count"
    /\ picked' = [picked EXCEPT !.full = HasChildren(1, held)]
    /\ step' = IF picked'.full THEN "nodes" ELSE "list"
    /\ UNCHANGED <<client, depth, frame, held, answer>>

--------------------------------------------------------------------------------
(* tryChildWindowsRecursive.                                                     *)

\* Slip: equally good windows displace the one found before.
BetterOrEqual(b, full, d) == b = NotFound \/ full \/ ~b.full

\* Slip: the depth alone decides.
BetterShallow(b, full, d) == b = NotFound \/ d < b.depth

\* One with children is better than one without, and among those equal in this, one found
\* at a smaller depth of the search.
Better(b, full, d) ==
    \/ b = NotFound
    \/ full /\ ~b.full
    \/ full = b.full /\ d < b.depth

Current == frame[depth]

\* The frame of depth d with the next window to come, and maybe a better one found.
Advanced(d, best) ==
    [frame EXCEPT ![d] = [window |-> @.window, next |-> @.next + 1, best |-> best]]

\* enumerateChildWindows of the top window, or of one that has an object without children.
ListChildren ==
    LET w == IF depth = 0 THEN 1 ELSE frame[depth - 1].next IN
    /\ step = "list"
    /\ frame' = [frame EXCEPT ![depth] = [window |-> w, next |-> w + 1, best |-> NotFound]]
    /\ step' = "get"
    /\ UNCHANGED <<client, depth, held, picked, answer>>

\* It fails: the caller above goes on with its next window, or the search is over.
ListFails ==
    /\ step = "list"
    /\ \/ /\ depth = 0
          /\ step' = "nodes" /\ UNCHANGED <<depth, frame>>
       \/ /\ depth > 0
          /\ depth' = depth - 1
          /\ frame' = Advanced(depth - 1, frame[depth - 1].best)
          /\ step' = "get"
    /\ UNCHANGED <<client, held, picked, answer>>

\* GetAccessible of the next window.
AskChild ==
    /\ step = "get" /\ Current.next <= last[Current.window]
    /\ GetAccessible(Current.next)
    /\ \/ held' # Nothing /\ step' = "count" /\ UNCHANGED frame
       \/ held' = Nothing /\ frame' = Advanced(depth, Current.best) /\ UNCHANGED step
    /\ UNCHANGED <<client, depth, picked, answer>>

\* What is found after a window whose object was counted.
Kept(best, w, object, full, d) ==
    IF Better(best, full, d) THEN [window |-> w, object |-> object, full |-> full, depth |-> d]
    ELSE best

\* It is counted, and maybe becomes the one found.  One without children is searched itself,
\* unless that would be too deep.
CountChild ==
    LET w == Current.next
        full == HasChildren(w, held)
        best == Kept(Current.best, w, held, full, depth)
    IN
    /\ step = "count"
    /\ \/ /\ full \/ depth = MaxDepth
          /\ frame' = Advanced(depth, best)
          /\ step' = "get" /\ UNCHANGED depth
       \/ /\ ~full /\ depth < MaxDepth
          /\ frame' = [frame EXCEPT ![depth] = [@ EXCEPT !.best = best]]
          /\ depth' = depth + 1
          /\ step' = "list"
    /\ UNCHANGED <<client, held, picked, answer>>

\* Slip: the caller goes on with the window it went down from.
ReturnSame ==
    LET b == Current.best
        up == frame[depth - 1]
        best == IF b = NotFound THEN up.best
                ELSE Kept(up.best, b.window, b.object, HasChildren(b.window, b.object), b.depth)
    IN
    /\ step = "get" /\ depth > 0 /\ Current.next > last[Current.window]
    /\ depth' = depth - 1
    /\ frame' = [frame EXCEPT ![depth - 1] = [@ EXCEPT !.best = best]]
    /\ UNCHANGED <<client, step, held, picked, answer>>

\* No window is left: the caller above counts the one found once more, and goes on.
Return ==
    LET b == Current.best
        up == frame[depth - 1]
        best == IF b = NotFound THEN up.best
                ELSE Kept(up.best, b.window, b.object, HasChildren(b.window, b.object), b.depth)
    IN
    /\ step = "get" /\ depth > 0 /\ Current.next > last[Current.window]
    /\ depth' = depth - 1
    /\ frame' = Advanced(depth - 1, best)
    /\ UNCHANGED <<client, step, held, picked, answer>>

\* tryChildWindows returns: the window found, or the top window as before.
TakeFound ==
    /\ step = "get" /\ depth = 0 /\ Current.next > last[Current.window]
    /\ picked' = IF Current.best = NotFound THEN picked ELSE Current.best
    /\ step' = "nodes"
    /\ UNCHANGED <<client, depth, frame, held, answer>>

--------------------------------------------------------------------------------

\* enumerateAccessibleChildren counts once more; without an object the root stays alone.
EnumerateNodes ==
    /\ step = "nodes"
    /\ answer' = [window |-> picked.window,
                  count |-> IF HasChildren(picked.window, picked.object)
                            THEN acc[picked.window][picked.object] ELSE 0]
    /\ step' = "done"
    /\ UNCHANGED <<client, depth, frame, held, picked>>

\* The client: an object comes, goes, or has other children.
Change(w, o) ==
    /\ step # "done" /\ changes < MaxChanges
    /\ \E n \in Counts \ {acc[w][o]} : acc' = [acc EXCEPT ![w][o] = n]
    /\ changed' = changed \cup {w}
    /\ changes' = changes + 1
    /\ UNCHANGED <<last, step, depth, frame, held, picked, answer>>

Search ==
    \/ AskTop \/ CountTop
    \/ ListChildren \/ ListFails \/ AskChild \/ CountChild \/ Return \/ TakeFound
    \/ EnumerateNodes

Next == Search \/ \E w \in Windows, o \in Objects : Change(w, o)

\* The call goes on: the system answers every question.
Spec == Init /\ [][Next]_vars /\ WF_vars(Search)
--------------------------------------------------------------------------------
(* Properties.                                                                   *)

Steps == {"top", "top_count", "list", "get", "count", "nodes", "done"}

\* Every variable keeps to its range, and the frames in use are filled.
TypeOK ==
    /\ last \in Trees /\ acc \in [Windows -> [Objects -> Counts]]
    /\ changed \subseteq Windows /\ changes \in Nat
    /\ step \in Steps /\ depth \in Depths
    /\ frame \in [Depths -> Frames \cup {NoFrame}]
    /\ held \in Objects \cup {Nothing}
    /\ picked \in Found \cup {NotFound}
    /\ answer \in [window : Windows \cup {0}, count : 0..MaxCount]

\* Windows that had children throughout the call.
Steady == {w \in Windows \ changed : \E o \in Objects : acc[w][o] > 0}

\* Whatever the client does to its other windows meanwhile, the search passes by no window
\* that has children throughout for one without: if there is one, and the windows of the
\* top window could be listed, the one picked had children when it was last counted.
FindsNodes ==
    step \in {"nodes", "done"} /\ Steady # {} /\ frame[0] # NoFrame => picked.full

\* While the client changes nothing, the search answers as one pass over the windows would:
\* the top window if it has children; else the first window listed that has; else the first
\* that has an object; else the top window.  Of the window, the fullest object.
CalmPick ==
    LET w == answer.window
        Fits(v) == \E o \in Objects : acc[v][o] > 0
        Accessible(v) == \E o \in Objects : acc[v][o] # Missing
    IN  step = "done" /\ changed = {} =>
          /\ \A o \in Objects : acc[w][o] <= answer.count
          /\ frame[0] # NoFrame =>
               \/ Fits(w) /\ \A v \in 1..w - 1 : ~Fits(v)
               \/ (\A v \in Windows : ~Fits(v)) /\ w # 1 /\ Accessible(w)
                    /\ \A v \in 2..w - 1 : ~Accessible(v)
               \/ (\A v \in Windows : ~Fits(v)) /\ w = 1 /\ \A v \in 2..N : ~Accessible(v)

\* The call ends, although it asks windows again at every depth.
SearchEnds == <>(step = "done")
================================================================================
