----------------------------- MODULE Gateway_proofs -----------------------------
(* Proofs about Gateway, for every set of connections, session IDs and requests. *)
EXTENDS Gateway, SequenceTheorems, FiniteSetTheorems, TLAPS

--------------------------------------------------------------------------------
(* The inductive invariant.                                                      *)

\* The connection a request holds was made under the session ID it names, for as
\* long as it holds it.
HeldFits == \A r \in Requests : held[r] # NoConn => SidOf[held[r]] = Target[r]

\* Whoever fills the write buffer of a connection is addressed to it.
BufferFits == \A c \in Conns : buf[c] \in Requests => Target[buf[c]] = SidOf[c]

IInv == /\ TypeOK
        /\ RegistryNeverDangles /\ ServedIsReachable
        /\ HeldFits /\ BufferFits /\ NeverMisrouted

\* Nobody is connected, no request is under way.
LEMMA InitIInv == Init => IInv
  <1> SUFFICES ASSUME Init PROVE IInv
    OBVIOUS
  <1> USE GatewayAssumption DEF Init
  <1>1. TypeOK
    <2>1. frames \in [Conns -> Seq(Requests \cup {Garbled})]
      BY EmptySeq, Zenon
    <2>2. /\ handler \in [Conns -> {"none", "upgraded", "serving", "leaving", "closed"}]
          /\ link \in [Conns -> {"none", "up", "lost", "cut"}]
          /\ answer \in [Requests -> {"none", "200", "500", "4xx", "aborted"}]
          /\ phase \in [Requests -> Phases]
          /\ \A r \in Requests : phase[r] = "new"
      BY DEF Phases
    <2>3. /\ registry \in [Sessions -> Conns \cup {NoConn}]
          /\ held \in [Requests -> Conns \cup {NoConn}]
          /\ buf \in [Conns -> Requests \cup {Garbled}]
          /\ writing \in [Conns -> BOOLEAN] /\ raced \subseteq Requests
      BY Zenon
    <2> QED
      BY <2>1, <2>2, <2>3 DEF TypeOK
  <1>2. RegistryNeverDangles /\ ServedIsReachable
    BY DEF RegistryNeverDangles, ServedIsReachable
  <1>3. HeldFits /\ BufferFits /\ NeverMisrouted
    BY DEF HeldFits, BufferFits, NeverMisrouted
  <1> QED
    BY <1>1, <1>2, <1>3 DEF IInv

--------------------------------------------------------------------------------
(* Connections come, are registered, break and are unregistered; requests stay.  *)

\* What connections do keeps the invariant: a registration replaces one of the same ID, a
\* removal goes by ID.
LEMMA AgentsIInv ==
    ASSUME IInv, NEW c \in Conns,
           Upgrade(c) \/ Lose(c) \/ Cut(c) \/ Register(c) \/ Unregister(c) \/ Close(c)
    PROVE  IInv'
  <1> USE GatewayAssumption DEF sendVars
  <1>1. TypeOK'
    <2>1. UNCHANGED sendVars
      BY DEF Upgrade, Lose, Cut, Register, Unregister, Close
    <2>2. /\ handler' \in [Conns -> {"none", "upgraded", "serving", "leaving", "closed"}]
          /\ link' \in [Conns -> {"none", "up", "lost", "cut"}]
          /\ registry' \in [Sessions -> Conns \cup {NoConn}]
      <3>1. CASE Upgrade(c) \/ Close(c)
        BY <3>1 DEF IInv, TypeOK, Upgrade, Close
      <3>2. CASE Lose(c) \/ Cut(c)
        BY <3>2 DEF IInv, TypeOK, Lose, Cut
      <3>3. CASE Register(c) \/ Unregister(c)
        <4>1. SidOf[c] \in Sessions
          BY GatewayAssumption
        <4>2. handler' \in [Conns -> {"none", "upgraded", "serving", "leaving", "closed"}]
          BY <3>3 DEF IInv, TypeOK, Register, Unregister
        <4>3. registry' \in [Sessions -> Conns \cup {NoConn}]
          BY <3>3, <4>1 DEF IInv, TypeOK, Register, Unregister
        <4> QED
          BY <3>3, <4>2, <4>3 DEF IInv, TypeOK, Register, Unregister
      <3> QED
        BY <3>1, <3>2, <3>3
    <2> QED
      BY <2>1, <2>2 DEF IInv, TypeOK
  <1>2. HeldFits' /\ BufferFits' /\ NeverMisrouted'
    BY DEF IInv, HeldFits, BufferFits, NeverMisrouted,
           Upgrade, Lose, Cut, Register, Unregister, Close
  <1>3. RegistryNeverDangles'
    <2> SUFFICES ASSUME NEW s \in Sessions, registry'[s] # NoConn
                 PROVE  handler'[registry'[s]] = "serving" /\ SidOf[registry'[s]] = s
      BY DEF RegistryNeverDangles
    <2>1. registry'[s] = registry[s] \/ (Register(c) /\ s = SidOf[c] /\ registry'[s] = c)
      BY DEF IInv, TypeOK, Upgrade, Lose, Cut, Register, Unregister, Close
    <2>2. CASE Register(c) /\ s = SidOf[c]
      BY <2>1, <2>2 DEF IInv, TypeOK, Register
    <2>3. CASE registry'[s] = registry[s]
      <3>1. handler[registry[s]] = "serving" /\ SidOf[registry[s]] = s /\ registry[s] \in Conns
        BY <2>3 DEF IInv, TypeOK, RegistryNeverDangles
      <3>2. handler'[registry[s]] = "serving"
        <4>1. CASE Unregister(c)
          BY <2>3, <3>1, <4>1 DEF IInv, TypeOK, Unregister
        <4>2. CASE ~Unregister(c)
          BY <3>1, <4>2 DEF IInv, TypeOK, Upgrade, Lose, Cut, Register, Close
        <4> QED
          BY <4>1, <4>2
      <3> QED
        BY <2>3, <3>1, <3>2
    <2> QED
      BY <2>1, <2>2, <2>3
  <1>4. ServedIsReachable'
    <2> SUFFICES ASSUME NEW d \in Conns, handler'[d] = "serving", Unique(d)
                 PROVE  registry'[SidOf[d]] = d
      BY DEF ServedIsReachable, Unique
    <2>1. CASE Register(c)
      <3>1. CASE d = c
        BY <2>1, <3>1 DEF IInv, TypeOK, Register
      <3>2. CASE d # c
        BY <2>1, <3>2 DEF IInv, TypeOK, ServedIsReachable, Unique, Register
      <3> QED
        BY <3>1, <3>2
    <2>2. CASE Unregister(c)
      BY <2>2 DEF IInv, TypeOK, ServedIsReachable, Unique, Unregister
    <2>3. CASE ~Register(c) /\ ~Unregister(c)
      BY <2>3 DEF IInv, TypeOK, ServedIsReachable, Upgrade, Lose, Cut, Close
    <2> QED
      BY <2>1, <2>2, <2>3
  <1> QED
    BY <1>1, <1>2, <1>3, <1>4 DEF IInv

--------------------------------------------------------------------------------
(* Requests look a session up and write; connections stay.                       *)

\* Nothing a request does touches a connection or the registry.
LEMMA ConnectionsStay ==
    ASSUME IInv, UNCHANGED connVars
    PROVE  RegistryNeverDangles' /\ ServedIsReachable'
  BY DEF IInv, RegistryNeverDangles, ServedIsReachable, connVars

\* A request takes the connection registered under the ID it names.
LEMMA LookupIInv ==
    ASSUME IInv, NEW r \in Requests, Lookup(r)
    PROVE  IInv'
  <1> USE GatewayAssumption DEF Lookup, connVars, Goto, Answer
  <1>1. registry[Target[r]] \in Conns \cup {NoConn}
    BY DEF IInv, TypeOK
  <1>2. TypeOK'
    <2>1. /\ phase' \in [Requests -> Phases] /\ held' \in [Requests -> Conns \cup {NoConn}]
          /\ answer' \in [Requests -> {"none", "200", "500", "4xx", "aborted"}]
      <3>1. /\ phase \in [Requests -> Phases] /\ held \in [Requests -> Conns \cup {NoConn}]
            /\ answer \in [Requests -> {"none", "200", "500", "4xx", "aborted"}]
        BY DEF IInv, TypeOK
      <3>2. phase' \in [Requests -> Phases]
        BY <3>1 DEF Phases
      <3>3. held' \in [Requests -> Conns \cup {NoConn}]
        BY <1>1, <3>1
      <3>4. answer' \in [Requests -> {"none", "200", "500", "4xx", "aborted"}]
        BY <3>1
      <3> QED
        BY <3>2, <3>3, <3>4
    <2>2. \A q \in Requests : phase'[q] \notin {"new", "done"} => held'[q] \in Conns
      <3> SUFFICES ASSUME NEW q \in Requests, phase'[q] \notin {"new", "done"}
                   PROVE  held'[q] \in Conns
        OBVIOUS
      <3>1. CASE q = r
        BY <1>1, <3>1 DEF IInv, TypeOK
      <3>2. CASE q # r
        BY <3>2 DEF IInv, TypeOK
      <3> QED
        BY <3>1, <3>2
    <2> QED
      BY <2>1, <2>2 DEF IInv, TypeOK
  <1>3. HeldFits'
    BY DEF IInv, TypeOK, HeldFits, RegistryNeverDangles
  <1>4. BufferFits' /\ NeverMisrouted'
    BY DEF IInv, BufferFits, NeverMisrouted
  <1> QED
    BY <1>2, <1>3, <1>4, ConnectionsStay DEF IInv

\* What it puts in the buffer of that connection is addressed to it.
LEMMA FillIInv ==
    ASSUME IInv, NEW r \in Requests, Fill(r)
    PROVE  IInv'
  <1> USE GatewayAssumption DEF Fill, connVars, Goto
  <1>1. held[r] \in Conns
    BY DEF IInv, TypeOK
  <1>2. TypeOK'
    <2>1. raced' \subseteq Requests
      BY DEF IInv, TypeOK, Writers
    <2> QED
      BY <1>1, <2>1 DEF IInv, TypeOK, Phases
  <1>3. BufferFits'
    BY <1>1 DEF IInv, TypeOK, BufferFits, HeldFits
  <1>4. HeldFits' /\ NeverMisrouted'
    BY DEF IInv, HeldFits, NeverMisrouted
  <1> QED
    BY <1>2, <1>3, <1>4, ConnectionsStay DEF IInv

\* The check for a second writer changes no buffer.
LEMMA CheckIInv ==
    ASSUME IInv, NEW r \in Requests, Check(r)
    PROVE  IInv'
  <1> USE DEF Check, connVars, Goto, Answer
  <1>1. TypeOK'
    BY DEF IInv, TypeOK, Phases
  <1>2. HeldFits' /\ BufferFits' /\ NeverMisrouted'
    BY DEF IInv, HeldFits, BufferFits, NeverMisrouted
  <1> QED
    BY <1>1, <1>2, ConnectionsStay DEF IInv

\* Whatever frame a write hands to the socket, it is garbled or addressed to the
\* connection.
LEMMA WriteIInv ==
    ASSUME IInv, NEW r \in Requests, Write(r)
    PROVE  IInv'
  <1> DEFINE c == held[r]
  <1> USE GatewayAssumption
  <1>1. c \in Conns
    BY DEF IInv, TypeOK, Write
  <1>2. /\ UNCHANGED <<connVars, held, answer, buf, raced>>
        /\ writing' = [writing EXCEPT ![c] = TRUE]
        /\ phase' \in [Requests -> Phases]
        /\ \A q \in Requests : phase'[q] \notin {"new", "done"} => held[q] \in Conns
    BY <1>1 DEF Write, Goto, IInv, TypeOK, Phases
  <1>3. \/ UNCHANGED frames
        \/ \E f \in Requests \cup {Garbled} :
              /\ f \in Requests => Target[f] = SidOf[c]
              /\ frames' = [frames EXCEPT ![c] = Append(@, f)]
    <2>1. /\ buf[c] \in Requests \cup {Garbled}
          /\ buf[c] \in Requests => Target[buf[c]] = SidOf[c]
          /\ Target[r] = SidOf[c]
      BY <1>1 DEF IInv, TypeOK, BufferFits, HeldFits
    <2>2. \/ UNCHANGED frames
          \/ \E f \in {r, buf[c], Garbled} : frames' = [frames EXCEPT ![c] = Append(@, f)]
      BY DEF Write
    <2> QED
      BY <2>1, <2>2
  <1>4. frames' \in [Conns -> Seq(Requests \cup {Garbled})] /\ NeverMisrouted'
    <2>1. CASE UNCHANGED frames
      BY <2>1 DEF IInv, TypeOK, NeverMisrouted
    <2>2. ASSUME NEW f \in Requests \cup {Garbled},
                 f \in Requests => Target[f] = SidOf[c],
                 frames' = [frames EXCEPT ![c] = Append(@, f)]
          PROVE  frames' \in [Conns -> Seq(Requests \cup {Garbled})] /\ NeverMisrouted'
      <3>1. /\ frames \in [Conns -> Seq(Requests \cup {Garbled})]
            /\ NeverMisrouted
        BY DEF IInv, TypeOK
      <3>2. frames[c] \in Seq(Requests \cup {Garbled})
        BY <1>1, <3>1
      <3>3. frames' \in [Conns -> Seq(Requests \cup {Garbled})]
        <4>1. Append(frames[c], f) \in Seq(Requests \cup {Garbled})
          BY <2>2, <3>2
        <4> QED
          BY <2>2, <3>1, <4>1
      <3>4. ASSUME NEW d \in Conns, NEW i \in DOMAIN frames'[d], frames'[d][i] \in Requests
            PROVE  Target[frames'[d][i]] = SidOf[d]
        <4>1. CASE d # c
          BY <2>2, <3>1, <3>4, <4>1 DEF NeverMisrouted
        <4>2. CASE d = c
          <5>1. frames'[d] = Append(frames[c], f)
            BY <1>1, <2>2, <3>1, <4>2
          <5>2. CASE i \in DOMAIN frames[c]
            BY <1>1, <3>1, <3>2, <3>4, <4>2, <5>1, <5>2 DEF NeverMisrouted
          <5>3. CASE i \notin DOMAIN frames[c]
            BY <2>2, <3>2, <3>4, <4>2, <5>1, <5>3
          <5> QED
            BY <5>2, <5>3
        <4> QED
          BY <4>1, <4>2
      <3> QED
        BY <3>3, <3>4 DEF NeverMisrouted
    <2> QED
      BY <1>3, <2>1, <2>2
  <1>5. TypeOK'
    BY <1>1, <1>2, <1>4 DEF IInv, TypeOK, connVars
  <1>6. HeldFits' /\ BufferFits'
    BY <1>2 DEF IInv, HeldFits, BufferFits
  <1> QED
    BY <1>2, <1>4, <1>5, <1>6, ConnectionsStay DEF IInv, connVars

\* A request that answers lets go of its connection.
LEMMA ConcludeIInv ==
    ASSUME IInv, NEW r \in Requests, Conclude(r)
    PROVE  IInv'
  <1> USE DEF Conclude, connVars, Goto, Answer
  <1>1. held[r] \in Conns
    BY DEF IInv, TypeOK
  <1>2. TypeOK'
    BY <1>1 DEF IInv, TypeOK, Phases
  <1>3. HeldFits' /\ BufferFits' /\ NeverMisrouted'
    BY DEF IInv, HeldFits, BufferFits, NeverMisrouted
  <1> QED
    BY <1>2, <1>3, ConnectionsStay DEF IInv

\* A step that changes nothing keeps the invariant.
LEMMA StutterIInv == IInv /\ UNCHANGED vars => IInv'
  BY DEF IInv, TypeOK, RegistryNeverDangles, ServedIsReachable, HeldFits, BufferFits,
         NeverMisrouted, vars

\* Every step keeps the invariant.
LEMMA NextIInv == IInv /\ [Next]_vars => IInv'
  <1> SUFFICES ASSUME IInv, [Next]_vars PROVE IInv'
    OBVIOUS
  <1>1. CASE Agents \/ Serving
    BY <1>1, AgentsIInv DEF Agents, Serving
  <1>2. CASE Sending
    BY <1>2, LookupIInv, FillIInv, CheckIInv, WriteIInv, ConcludeIInv DEF Sending
  <1>3. CASE UNCHANGED vars
    BY <1>3, StutterIInv
  <1> QED
    BY <1>1, <1>2, <1>3 DEF Next

\* The invariant holds throughout.
LEMMA IInvHolds == Spec => []IInv
  BY InitIInv, NextIInv, PTL DEF Spec

--------------------------------------------------------------------------------
(* The theorems.                                                                 *)

\* Every variable keeps to its range, and a request that is past its look-up has a
\* connection (the nil check of RouteReplyExecute, router/task.go).
THEOREM TypeCorrect == Spec => []TypeOK
  <1>1. IInv => TypeOK
    BY DEF IInv
  <1> QED
    BY <1>1, IInvHolds, PTL

\* However agents come, reuse session IDs, break and leave, the registry holds only
\* connections that are being served, each under its own ID (Register, Unregister).
THEOREM RegistrySound == Spec => []RegistryNeverDangles
  <1>1. IInv => RegistryNeverDangles
    BY DEF IInv
  <1> QED
    BY <1>1, IInvHolds, PTL

\* An agent that alone uses its session ID is in the registry while it is served
\* (handleWebSocket registers before it reads and unregisters after).
THEOREM ServedReachable == Spec => []ServedIsReachable
  <1>1. IInv => ServedIsReachable
    BY DEF IInv
  <1> QED
    BY <1>1, IInvHolds, PTL

\* However many requests write to a connection at once, and whatever has become of
\* the session since their look-up, no agent is sent a command for another
\* (RouteReplyExecute and WriteMessage without a lock between them).
THEOREM CommandsNotMisrouted == Spec => []NeverMisrouted
  <1>1. IInv => NeverMisrouted
    BY DEF IInv
  <1> QED
    BY <1>1, IInvHolds, PTL

--------------------------------------------------------------------------------
(* The answers to requests whose write no other write overlapped.                *)

\* Where requests overlap on a connection, all of them are raced; so is whoever's
\* command stands in the buffer under another's write.
OverlapsAreRaced ==
    \A q \in Requests : held[q] \in Conns /\ q \in Writers(held[q]) =>
        /\ \A p \in Writers(held[q]) : p # q => q \in raced
        /\ buf[held[q]] # q => q \in raced /\ buf[held[q]] \in raced

\* A request alone on its connection finds its own flag when it clears it.
FlagIsOwn ==
    \A r \in Requests \ raced : phase[r] \in {"written", "failed"} => writing[held[r]]

\* How many frames carry the command of a request that nobody raced.
CarriedOnce(r) == \E w : Carriers(r) = {w}

CarriersFit ==
    \A r \in Requests \ raced :
        /\ phase[r] \in {"new", "holding", "filled", "checked", "failed"} => Carriers(r) = {}
        /\ phase[r] = "written" => CarriedOnce(r)
        /\ phase[r] = "done" => IF answer[r] = "200" /\ held[r] # NoConn
                                THEN CarriedOnce(r) ELSE Carriers(r) = {}

\* An answer is the end of a request, and a request holds nothing at its start.
AnswersEnd ==
    \A r \in Requests :
        /\ answer[r] # "none" => phase[r] = "done"
        /\ phase[r] = "new" => held[r] = NoConn

HonestInv == OverlapsAreRaced /\ FlagIsOwn /\ CarriersFit /\ AnswersEnd

\* The invariant says what the property asks.
LEMMA HonestAnswers == HonestInv => UnracedAnswerHonest
  <1> SUFFICES ASSUME HonestInv, NEW r \in Requests \ raced, answer[r] # "none"
               PROVE  Copies(r) = IF answer[r] = "200" /\ held[r] # NoConn THEN 1 ELSE 0
    BY DEF UnracedAnswerHonest
  <1>1. IF answer[r] = "200" /\ held[r] # NoConn THEN CarriedOnce(r) ELSE Carriers(r) = {}
    BY DEF HonestInv, AnswersEnd, CarriersFit
  <1> QED
    BY <1>1, FS_Singleton, FS_EmptySet DEF Copies, CarriedOnce

\* No request holds a connection or has an answer.
LEMMA InitHonest == Init => HonestInv
  <1> SUFFICES ASSUME Init PROVE HonestInv
    OBVIOUS
  <1>1. \A c \in Conns : DOMAIN frames[c] = {}
    BY DEF Init
  <1>2. \A r \in Requests : Carriers(r) = {}
    BY <1>1 DEF Carriers
  <1> QED
    BY <1>2 DEF Init, HonestInv, OverlapsAreRaced, FlagIsOwn, CarriersFit, AnswersEnd, Writers

\* Steps of agents and connections do not concern requests.
LEMMA AgentsHonest ==
    ASSUME HonestInv, UNCHANGED sendVars
    PROVE  HonestInv'
  <1>1. \A r : Carriers(r)' = Carriers(r)
    BY DEF Carriers, sendVars
  <1>2. \A c : Writers(c)' = Writers(c)
    BY DEF Writers, sendVars
  <1> QED
    BY <1>1, <1>2
    DEF HonestInv, OverlapsAreRaced, FlagIsOwn, CarriersFit, CarriedOnce, AnswersEnd, sendVars

\* A request that begins has not been raced.
LEMMA LookupHonest ==
    ASSUME IInv, HonestInv, NEW r \in Requests, Lookup(r)
    PROVE  HonestInv'
  <1> USE DEF Lookup, Goto, Answer
  <1>1. /\ phase \in [Requests -> Phases] /\ held \in [Requests -> Conns \cup {NoConn}]
        /\ answer \in [Requests -> {"none", "200", "500", "4xx", "aborted"}]
        /\ phase[r] = "new" /\ held[r] = NoConn
        /\ UNCHANGED <<buf, writing, frames, raced>>
    BY DEF IInv, TypeOK, HonestInv, AnswersEnd
  <1>2. \A q : Carriers(q)' = Carriers(q)
    BY <1>1 DEF Carriers
  <1>3. \A c : Writers(c)' = Writers(c)
    BY <1>1 DEF Writers
  <1>4. \A q \in Requests \ {r} :
            phase'[q] = phase[q] /\ held'[q] = held[q] /\ answer'[q] = answer[q]
    BY <1>1
  <1>5. \/ phase'[r] = "done" /\ held'[r] = NoConn
        \/ phase'[r] = "holding" /\ answer'[r] = "none"
    BY <1>1 DEF HonestInv, AnswersEnd
  <1>6. \A c : r \notin Writers(c)
    BY <1>1 DEF Writers
  <1>7. OverlapsAreRaced' /\ FlagIsOwn'
    BY <1>1, <1>3, <1>4, <1>5, <1>6 DEF HonestInv, OverlapsAreRaced, FlagIsOwn
  <1>8. CarriersFit'
    <2> SUFFICES ASSUME NEW q \in Requests \ raced
                 PROVE  /\ phase'[q] \in {"new", "holding", "filled", "checked", "failed"}
                               => Carriers(q) = {}
                        /\ phase'[q] = "written" => CarriedOnce(q)
                        /\ phase'[q] = "done" =>
                               IF answer'[q] = "200" /\ held'[q] # NoConn
                               THEN CarriedOnce(q) ELSE Carriers(q) = {}
      BY <1>1, <1>2 DEF CarriersFit, CarriedOnce
    <2>1. CASE q = r
      BY <1>1, <1>5, <2>1 DEF HonestInv, CarriersFit
    <2>2. CASE q # r
      BY <1>1, <1>4, <2>2 DEF HonestInv, CarriersFit
    <2> QED
      BY <2>1, <2>2
  <1>9. AnswersEnd'
    BY <1>1, <1>4, <1>5 DEF HonestInv, AnswersEnd
  <1> QED
    BY <1>7, <1>8, <1>9 DEF HonestInv

\* A request that fills a buffer another is using makes both raced.
LEMMA FillHonest ==
    ASSUME IInv, HonestInv, NEW r \in Requests, Fill(r)
    PROVE  HonestInv'
  <1> DEFINE c == held[r]
  <1> USE DEF Fill, Goto
  <1>1. /\ c \in Conns /\ phase[r] = "holding" /\ phase' = [phase EXCEPT ![r] = "filled"]
        /\ buf' = [buf EXCEPT ![c] = r] /\ buf \in [Conns -> Requests \cup {Garbled}]
        /\ phase \in [Requests -> Phases] /\ raced \subseteq raced'
        /\ UNCHANGED <<held, answer, writing, frames>>
    BY DEF IInv, TypeOK
  <1>2. \A q : Carriers(q)' = Carriers(q)
    BY <1>1 DEF Carriers
  <1>3. /\ \A d : d # c => Writers(d)' = Writers(d)
        /\ Writers(c)' = Writers(c) \cup {r} /\ r \notin Writers(c)
    BY <1>1 DEF Writers
  <1>4. Writers(c) # {} => r \in raced' /\ Writers(c) \subseteq raced'
    OBVIOUS
  <1>5. OverlapsAreRaced'
    <2> SUFFICES ASSUME NEW q \in Requests, held[q] \in Conns, q \in Writers(held[q])'
                 PROVE  /\ \A p \in Writers(held[q])' : p # q => q \in raced'
                        /\ buf'[held[q]] # q => q \in raced' /\ buf'[held[q]] \in raced'
      BY <1>1 DEF OverlapsAreRaced
    <2>1. CASE held[q] = c
      BY <1>1, <1>3, <1>4, <2>1
    <2>2. CASE held[q] # c
      BY <1>1, <1>3, <2>2 DEF HonestInv, OverlapsAreRaced
    <2> QED
      BY <2>1, <2>2
  <1>6. FlagIsOwn'
    BY <1>1 DEF HonestInv, FlagIsOwn
  <1>7. CarriersFit' /\ AnswersEnd'
    BY <1>1, <1>2 DEF HonestInv, CarriersFit, CarriedOnce, AnswersEnd
  <1> QED
    BY <1>5, <1>6, <1>7 DEF HonestInv

\* A request alone in WriteMessage finds its own flag.
LEMMA CheckHonest ==
    ASSUME IInv, HonestInv, NEW r \in Requests, Check(r)
    PROVE  HonestInv'
  <1> USE DEF Check, Goto, Answer
  <1>1. /\ phase[r] = "filled" /\ phase'[r] \in {"checked", "done"}
        /\ \A q \in Requests \ {r} : phase'[q] = phase[q] /\ answer'[q] = answer[q]
        /\ phase'[r] = "done" => answer'[r] = "aborted"
        /\ phase'[r] = "checked" => answer'[r] = answer[r]
        /\ UNCHANGED <<held, buf, writing, frames, raced>>
    BY DEF IInv, TypeOK
  <1>2. \A q : Carriers(q)' = Carriers(q)
    BY <1>1 DEF Carriers
  <1>3. \A d : Writers(d)' \subseteq Writers(d)
    BY <1>1 DEF Writers
  <1>4. OverlapsAreRaced'
    BY <1>1, <1>3 DEF HonestInv, OverlapsAreRaced
  <1>5. FlagIsOwn'
    BY <1>1 DEF HonestInv, FlagIsOwn
  <1>6. CarriersFit'
    <2> SUFFICES ASSUME NEW q \in Requests \ raced
                 PROVE  /\ phase'[q] \in {"new", "holding", "filled", "checked", "failed"}
                               => Carriers(q) = {}
                        /\ phase'[q] = "written" => CarriedOnce(q)
                        /\ phase'[q] = "done" =>
                               IF answer'[q] = "200" /\ held[q] # NoConn
                               THEN CarriedOnce(q) ELSE Carriers(q) = {}
      BY <1>1, <1>2 DEF CarriersFit, CarriedOnce
    <2>1. CASE q = r
      BY <1>1, <2>1 DEF HonestInv, CarriersFit
    <2>2. CASE q # r
      BY <1>1, <2>2 DEF HonestInv, CarriersFit
    <2> QED
      BY <2>1, <2>2
  <1>7. AnswersEnd'
    BY <1>1 DEF HonestInv, AnswersEnd
  <1> QED
    BY <1>4, <1>5, <1>6, <1>7 DEF HonestInv

\* What one more frame on a connection does to the carriers of a request.
LEMMA FrameCarries ==
    ASSUME IInv, NEW c \in Conns, NEW f \in Requests \cup {Garbled},
           frames' = [frames EXCEPT ![c] = Append(@, f)], NEW q \in Requests
    PROVE  Carriers(q)' = IF f = q THEN Carriers(q) \cup {<<c, Len(frames[c]) + 1>>}
                          ELSE Carriers(q)
  <1> DEFINE n == Len(frames[c]) + 1
  <1>1. /\ frames \in [Conns -> Seq(Requests \cup {Garbled})]
        /\ frames[c] \in Seq(Requests \cup {Garbled})
    BY DEF IInv, TypeOK
  <1>2. /\ DOMAIN frames'[c] = DOMAIN frames[c] \cup {n} /\ n \notin DOMAIN frames[c]
        /\ frames'[c][n] = f /\ \A i \in DOMAIN frames[c] : frames'[c][i] = frames[c][i]
        /\ \A d \in Conns \ {c} : frames'[d] = frames[d]
    <2>1. frames'[c] = Append(frames[c], f)
      BY <1>1
    <2> QED
      BY <1>1, <2>1
  <1> HIDE DEF n
  <1>3. ASSUME NEW w
        PROVE  w \in Carriers(q)' <=>
                   w \in Carriers(q) \/ (f = q /\ w = <<c, n>>)
    <2>1. w \in Carriers(q)' <=>
              \E d \in Conns : \E i \in DOMAIN frames'[d] : w = <<d, i>> /\ frames'[d][i] = q
      BY DEF Carriers
    <2>2. w \in Carriers(q) <=>
              \E d \in Conns : \E i \in DOMAIN frames[d] : w = <<d, i>> /\ frames[d][i] = q
      BY DEF Carriers
    <2> QED
      BY <1>2, <2>1, <2>2
  <1> QED
    BY <1>3 DEF n

\* It then writes its own command, once.
LEMMA WriteHonest ==
    ASSUME IInv, HonestInv, NEW r \in Requests, Write(r)
    PROVE  HonestInv'
  <1> DEFINE c == held[r]
  <1>1. /\ c \in Conns /\ phase[r] = "checked" /\ phase'[r] \in {"written", "failed"}
        /\ \A q \in Requests \ {r} : phase'[q] = phase[q]
        /\ writing' = [writing EXCEPT ![c] = TRUE] /\ writing \in [Conns -> BOOLEAN]
        /\ held \in [Requests -> Conns \cup {NoConn}]
        /\ UNCHANGED <<held, answer, buf, raced>>
    BY DEF Write, Goto, IInv, TypeOK
  <1>2. r \in Writers(c)
    BY <1>1 DEF Writers
  <1>3. \A d : Writers(d)' = Writers(d)
    BY <1>1 DEF Writers
  <1>4. OverlapsAreRaced'
    BY <1>1, <1>3 DEF HonestInv, OverlapsAreRaced
  <1>5. FlagIsOwn'
    <2> SUFFICES ASSUME NEW q \in Requests \ raced, phase'[q] \in {"written", "failed"}
                 PROVE  writing'[held[q]]
      BY <1>1 DEF FlagIsOwn
    <2>1. held[q] \in Conns
      BY <1>1 DEF IInv, TypeOK
    <2>2. q # r => writing[held[q]]
      BY <1>1 DEF HonestInv, FlagIsOwn
    <2> QED
      BY <1>1, <2>1, <2>2
  <1>6. ASSUME NEW q \in Requests \ raced
        PROVE  /\ q # r => Carriers(q)' = Carriers(q)
               /\ q = r /\ phase'[r] = "failed" => Carriers(q)' = Carriers(q)
               /\ q = r /\ phase'[r] = "written" =>
                     \E w : Carriers(q)' = Carriers(q) \cup {w}
    <2>1. CASE UNCHANGED frames /\ phase'[r] = "failed"
      BY <2>1 DEF Carriers
    <2>2. ASSUME NEW f \in IF buf[c] = r THEN {r} ELSE {buf[c], Garbled},
                 frames' = [frames EXCEPT ![c] = Append(@, f)], phase'[r] = "written"
          PROVE  /\ q # r => Carriers(q)' = Carriers(q)
                 /\ q = r => \E w : Carriers(q)' = Carriers(q) \cup {w}
      <3>1. f \in Requests \cup {Garbled}
        BY <1>1, <2>2 DEF IInv, TypeOK
      <3>2. f = q <=> q = r
        <4>1. CASE buf[c] = r
          BY <2>2, <4>1
        <4>2. CASE buf[c] # r
          BY <1>1, <1>2, <2>2, <4>2, GatewayAssumption DEF HonestInv, OverlapsAreRaced
        <4> QED
          BY <4>1, <4>2
      <3>3. Carriers(q)' = IF f = q THEN Carriers(q) \cup {<<c, Len(frames[c]) + 1>>}
                           ELSE Carriers(q)
        BY <1>1, <2>2, <3>1, FrameCarries
      <3> QED
        BY <3>2, <3>3
    <2>3. \/ UNCHANGED frames /\ phase'[r] = "failed"
          \/ /\ phase'[r] = "written"
             /\ \E f \in IF buf[c] = r THEN {r} ELSE {buf[c], Garbled} :
                    frames' = [frames EXCEPT ![c] = Append(@, f)]
      BY DEF Write, Goto, IInv, TypeOK
    <2> QED
      BY <2>1, <2>2, <2>3
  <1>7. CarriersFit'
    <2> SUFFICES ASSUME NEW q \in Requests \ raced
                 PROVE  /\ phase'[q] \in {"new", "holding", "filled", "checked", "failed"}
                               => Carriers(q)' = {}
                        /\ phase'[q] = "written" => CarriedOnce(q)'
                        /\ phase'[q] = "done" =>
                               IF answer[q] = "200" /\ held[q] # NoConn
                               THEN CarriedOnce(q)' ELSE Carriers(q)' = {}
      BY <1>1 DEF CarriersFit
    <2>1. CASE q = r
      BY <1>1, <1>6, <2>1 DEF HonestInv, CarriersFit, CarriedOnce
    <2>2. CASE q # r
      BY <1>1, <1>6, <2>2 DEF HonestInv, CarriersFit, CarriedOnce
    <2> QED
      BY <2>1, <2>2
  <1>8. AnswersEnd'
    BY <1>1 DEF HonestInv, AnswersEnd
  <1> QED
    BY <1>4, <1>5, <1>7, <1>8 DEF HonestInv

\* The answer of a request nobody raced says what became of its command.
LEMMA ConcludeHonest ==
    ASSUME IInv, HonestInv, NEW r \in Requests, Conclude(r)
    PROVE  HonestInv'
  <1> DEFINE c == held[r]
  <1>1. /\ c \in Conns /\ phase[r] \in {"written", "failed"} /\ phase'[r] = "done"
        /\ \A q \in Requests \ {r} : phase'[q] = phase[q] /\ answer'[q] = answer[q]
        /\ writing' = [writing EXCEPT ![c] = FALSE] /\ writing \in [Conns -> BOOLEAN]
        /\ UNCHANGED <<held, buf, frames, raced>>
        /\ writing[c] /\ phase[r] = "written" => answer'[r] = "200"
        /\ writing[c] /\ phase[r] = "failed" => answer'[r] = "500"
    BY DEF Conclude, Goto, Answer, IInv, TypeOK
  <1>2. r \in Writers(c)
    BY <1>1 DEF Writers
  <1>3. \A d : Writers(d)' \subseteq Writers(d)
    BY <1>1 DEF Writers
  <1>4. \A q : Carriers(q)' = Carriers(q)
    BY <1>1 DEF Carriers
  <1>5. OverlapsAreRaced'
    BY <1>1, <1>3 DEF HonestInv, OverlapsAreRaced
  <1>6. FlagIsOwn'
    <2> SUFFICES ASSUME NEW q \in Requests \ raced, phase'[q] \in {"written", "failed"}
                 PROVE  writing'[held[q]]
      BY <1>1 DEF FlagIsOwn
    <2>1. q # r /\ held[q] \in Conns /\ q \in Writers(held[q])
      BY <1>1 DEF IInv, TypeOK, Writers
    <2>2. writing[held[q]] /\ held[q] # c
      BY <1>1, <1>2, <2>1 DEF HonestInv, FlagIsOwn, OverlapsAreRaced
    <2> QED
      BY <1>1, <2>1, <2>2
  <1>7. CarriersFit'
    <2> SUFFICES ASSUME NEW q \in Requests \ raced
                 PROVE  /\ phase'[q] \in {"new", "holding", "filled", "checked", "failed"}
                               => Carriers(q) = {}
                        /\ phase'[q] = "written" => CarriedOnce(q)
                        /\ phase'[q] = "done" =>
                               IF answer'[q] = "200" /\ held[q] # NoConn
                               THEN CarriedOnce(q) ELSE Carriers(q) = {}
      BY <1>1, <1>4 DEF CarriersFit, CarriedOnce
    <2>1. CASE q = r
      <3>1. writing[c] /\ held[q] # NoConn
        BY <1>1, <2>1, GatewayAssumption DEF HonestInv, FlagIsOwn
      <3> QED
        BY <1>1, <2>1, <3>1 DEF HonestInv, CarriersFit
    <2>2. CASE q # r
      BY <1>1, <2>2 DEF HonestInv, CarriersFit
    <2> QED
      BY <2>1, <2>2
  <1>8. AnswersEnd'
    BY <1>1 DEF HonestInv, AnswersEnd
  <1> QED
    BY <1>5, <1>6, <1>7, <1>8 DEF HonestInv

\* Every step keeps the answers honest.
LEMMA NextHonest ==
    ASSUME IInv, HonestInv, [Next]_vars
    PROVE  HonestInv'
  <1>1. CASE Agents \/ Serving
    BY <1>1, AgentsHonest
    DEF Agents, Serving, Upgrade, Lose, Cut, Register, Unregister, Close
  <1>2. CASE Sending
    BY <1>2, LookupHonest, FillHonest, CheckHonest, WriteHonest, ConcludeHonest DEF Sending
  <1>3. CASE UNCHANGED vars
    BY <1>3, AgentsHonest DEF vars, sendVars
  <1> QED
    BY <1>1, <1>2, <1>3 DEF Next

\* The HTTP answer is honest for every request whose write no other write overlapped,
\* whoever reconnects under whichever session ID: 200 for a session that was found
\* means that the command was handed to the socket exactly once, and every other answer
\* that it was not (handleSendReply, RouteReplyExecute, WriteMessage).
THEOREM AnswersHonest == Spec => []UnracedAnswerHonest
  <1>1. IInv /\ HonestInv /\ [Next]_vars => HonestInv'
    BY NextHonest
  <1> QED
    BY <1>1, InitHonest, HonestAnswers, IInvHolds, PTL DEF Spec
================================================================================
