--------------------------- MODULE SessionSaves_proofs ---------------------------
(* Proofs about SessionSaves, for any number of contacts, clients and changes.   *)
EXTENDS SessionSaves, TLAPS

--------------------------------------------------------------------------------
(* The inductive invariant.                                                      *)

\* What exists of a session: its saver, its copy and its saves only once it has been
\* made, and a call goes on with it only then.
MadeFirst ==
    /\ \A c \in Contacts :
          /\ fresh[c] = "none" <=> session[c] = {}
          /\ session[c] = {} => stored[c] = {} /\ due[c] = {}
    /\ \A k \in Clients : at[k] \in {"found", "changing"} => session[of[k]] # {}

\* The copy s is no newer than t.
Behind(s, t) == s.history <= t.history /\ s.mark <= t.mark /\ s.pending <= t.pending

\* No saved change of c is being made or waits to be saved: the history is written
\* before the mark.
Settled(c) == due[c] = {} /\ \A s \in session[c] : s.mark = s.history

\* The saver of a new session has the store to itself while it copies; what it has
\* read is no older than the store, and can be older than memory only if another save
\* is still to come.
CopyingHolds(c) ==
    fresh[c] = "copying" =>
        /\ storeMu = c
        /\ \A s \in stored[c] : Behind(s, copied[c])
        /\ \A t \in session[c] : /\ Behind(copied[c], t)
                                 /\ Settled(c) => CopyOf(c, copied[c], t)

\* With no save to come, the store holds the session.
SettledIsStored(c) ==
    fresh[c] \notin {"due", "copying"} /\ Settled(c) =>
        \A s \in session[c] : \E t \in stored[c] : CopyOf(c, t, s)

\* What holds of one session: the mark is behind the history, the store behind memory.
Kept(c) ==
    /\ \A s \in session[c] : s.mark <= s.history
    /\ \A s \in stored[c], t \in session[c] : Behind(s, t)
    /\ CopyingHolds(c)
    /\ SettledIsStored(c)

IInv == TypeOK /\ MadeFirst /\ \A c \in Contacts : Kept(c)

\* No session, nothing saved.
LEMMA InitIInv == Init => IInv
  <1> SUFFICES ASSUME Init PROVE IInv
    OBVIOUS
  <1> USE SessionSavesAssumption DEF Init
  <1>1. TypeOK
    BY DEF TypeOK, Session, NewSession
  <1>2. MadeFirst
    BY DEF MadeFirst
  <1>3. \A c \in Contacts : Kept(c)
    BY DEF Kept, CopyingHolds, SettledIsStored
  <1> QED
    BY <1>1, <1>2, <1>3 DEF IInv

\* The session of a contact, once it has been made.
LEMMA TheSession ==
    ASSUME TypeOK, NEW c \in Contacts, session[c] # {}
    PROVE  /\ session[c] = {The(session[c])}
           /\ The(session[c]) \in Session(c)
           /\ The(session[c]).history \in 0..MaxChanges[c]
           /\ The(session[c]).mark \in 0..MaxChanges[c]
           /\ The(session[c]).pending \in Nat
           /\ MaxChanges[c] \in Nat
  <1>1. PICK s \in session[c] : TRUE
    OBVIOUS
  <1>2. session[c] = {s} /\ s \in Session(c)
    BY <1>1 DEF TypeOK
  <1>3. The(session[c]) = s
    BY <1>2 DEF The
  <1>4. MaxChanges[c] \in Nat
    BY SessionSavesAssumption
  <1> QED
    BY <1>2, <1>3, <1>4 DEF Session

\* A contact whose own part of the state does not change keeps its part of the
\* invariant.
LEMMA OthersKept ==
    ASSUME NEW d \in Contacts, Kept(d),
           session'[d] = session[d], stored'[d] = stored[d], due'[d] = due[d],
           fresh'[d] = fresh[d], copied'[d] = copied[d], d \in touched' <=> d \in touched,
           fresh[d] = "copying" => storeMu' = storeMu
    PROVE  Kept(d)'
  <1>1. Settled(d)' <=> Settled(d)
    BY DEF Settled
  <1>2. \A s, t : CopyOf(d, s, t)' <=> CopyOf(d, s, t)
    BY DEF CopyOf
  <1>3. CopyingHolds(d)'
    BY <1>1, <1>2 DEF Kept, CopyingHolds, Behind
  <1>4. SettledIsStored(d)'
    BY <1>1, <1>2 DEF Kept, SettledIsStored
  <1> QED
    BY <1>3, <1>4 DEF Kept, Behind

--------------------------------------------------------------------------------
(* One lemma per step.                                                           *)

\* Steps that only look for a session, or leave it as it is.
LEMMA LookingIInv ==
    ASSUME IInv, NEW k \in Clients,
           \/ \E c \in Contacts, m \in Creating : GetOrCreate(k, c, m)
           \/ \E c \in Contacts, m \in Finding : Get(k, c, m)
           \/ Found(k) \/ Duplicate(k)
    PROVE  IInv'
  <1> USE SessionSavesAssumption
  <1>1. UNCHANGED <<session, stored, mu, storeMu, saverVars, touched>>
    BY DEF GetOrCreate, Get, Found, Duplicate
  <1>2. UNCHANGED <<session, stored, mu, storeMu, saving, due, fresh, copied, touched>>
    BY <1>1 DEF saverVars
  <1>3. /\ at' \in [Clients -> {"idle", "looking", "found", "changing"}]
        /\ of' \in [Clients -> Contacts]
        /\ does' \in [Clients -> Creating \cup Finding \cup {"nothing"}]
        /\ mgr' \in Clients \cup {Nobody}
    <2>1. CASE \E c \in Contacts, m \in Creating : GetOrCreate(k, c, m)
      BY <2>1 DEF GetOrCreate, IInv, TypeOK
    <2>2. CASE \E c \in Contacts, m \in Finding : Get(k, c, m)
      BY <2>2 DEF Get, IInv, TypeOK
    <2>3. CASE Found(k)
      BY <2>3 DEF Found, IInv, TypeOK
    <2>4. CASE Duplicate(k)
      BY <2>4 DEF Duplicate, IInv, TypeOK
    <2> QED
      BY <2>1, <2>2, <2>3, <2>4
  <1>4. TypeOK'
    BY <1>2, <1>3 DEF IInv, TypeOK
  <1>5. \A j \in Clients : at'[j] \in {"found", "changing"} => session[of'[j]] # {}
    BY DEF GetOrCreate, Get, Found, Duplicate, IInv, TypeOK, MadeFirst
  <1>6. MadeFirst'
    BY <1>2, <1>5 DEF IInv, MadeFirst
  <1>7. \A d \in Contacts : Kept(d)'
    BY <1>2, OthersKept DEF IInv
  <1> QED
    BY <1>4, <1>6, <1>7 DEF IInv

\* A new session begins with a saver of its own due.
LEMMA CreatedIInv ==
    ASSUME IInv, NEW k \in Clients, Created(k)
    PROVE  IInv'
  <1> USE SessionSavesAssumption
  <1>0. PICK c \in Contacts : c = of[k]
    BY DEF IInv, TypeOK
  <1>1. /\ session[c] = {} /\ storeMu = Nobody
        /\ session' = [session EXCEPT ![c] = {NewSession}]
        /\ fresh' = [fresh EXCEPT ![c] = "due"]
        /\ at' = [at EXCEPT ![k] = "found"] /\ mgr' = Nobody
        /\ UNCHANGED <<stored, of, does, mu, saving, storeMu, due, copied, touched>>
    BY <1>0 DEF Created
  <1>2. /\ session'[c] = {NewSession} /\ fresh'[c] = "due"
        /\ \A d \in Contacts : d # c => session'[d] = session[d] /\ fresh'[d] = fresh[d]
    BY <1>1 DEF IInv, TypeOK
  <1>3. NewSession \in Session(c) /\ NewSession.mark = 0 /\ NewSession.history = 0
    BY DEF NewSession, Session
  <1>4. TypeOK'
    <2>1. \A d \in Contacts :
             /\ session'[d] \subseteq Session(d) /\ \A s, t \in session'[d] : s = t
             /\ \A s \in session'[d] : mu'[d] \notin Clients => s.mark = s.history
      BY <1>1, <1>2, <1>3 DEF IInv, TypeOK
    <2>2. /\ at' \in [Clients -> {"idle", "looking", "found", "changing"}]
          /\ fresh' \in [Contacts -> {"none", "due", "copying", "done"}]
          /\ DOMAIN session' = Contacts
      BY <1>1 DEF IInv, TypeOK
    <2> QED
      BY <1>1, <2>1, <2>2 DEF IInv, TypeOK
  <1>5. MadeFirst'
    <2>1. \A d \in Contacts :
             /\ fresh'[d] = "none" <=> session'[d] = {}
             /\ session'[d] = {} => stored'[d] = {} /\ due'[d] = {}
      BY <1>1, <1>2 DEF IInv, MadeFirst
    <2>2. \A j \in Clients : at'[j] \in {"found", "changing"} => session'[of'[j]] # {}
      <3> SUFFICES ASSUME NEW j \in Clients, at'[j] \in {"found", "changing"}
                   PROVE  session'[of[j]] # {}
        BY <1>1
      <3>1. of[j] \in Contacts
        BY DEF IInv, TypeOK
      <3>2. CASE of[j] = c
        BY <1>2, <3>2
      <3>3. CASE of[j] # c
        <4>1. j # k /\ at'[j] = at[j]
          BY <1>0, <1>1, <3>3 DEF IInv, TypeOK
        <4> QED
          BY <1>2, <3>1, <3>3, <4>1 DEF IInv, MadeFirst
      <3> QED
        BY <3>2, <3>3
    <2> QED
      BY <2>1, <2>2 DEF MadeFirst
  <1>6. Kept(c)'
    <2>1. stored'[c] = {}
      BY <1>1 DEF IInv, MadeFirst
    <2> QED
      BY <1>2, <1>3, <2>1 DEF Kept, CopyingHolds, SettledIsStored
  <1>7. \A d \in Contacts : Kept(d)'
    BY <1>1, <1>2, <1>6, OthersKept DEF IInv
  <1> QED
    BY <1>4, <1>5, <1>7 DEF IInv

\* A pending reply is written: the mark and the history stay.
LEMMA WritePendingIInv ==
    ASSUME IInv, NEW k \in Clients, WritePending(k)
    PROVE  IInv'
  <1> USE SessionSavesAssumption
  <1>0. PICK c \in Contacts : c = of[k]
    BY DEF IInv, TypeOK
  <1>1. session[c] # {}
    BY <1>0 DEF WritePending, IInv, MadeFirst
  <1> DEFINE s == The(session[c])
             t == [s EXCEPT !.pending = @ + 1]
  <1>2. /\ session[c] = {s} /\ s \in Session(c)
        /\ s.history \in 0..MaxChanges[c] /\ s.mark \in 0..MaxChanges[c] /\ s.pending \in Nat
        /\ MaxChanges[c] \in Nat
    BY <1>1, TheSession DEF IInv
  <1>3. /\ UNCHANGED <<stored, of, mgr, mu, storeMu, saving, due, fresh, copied>>
        /\ session' = [session EXCEPT ![c] = {t}]
        /\ touched' = touched \cup {c}
        /\ at' = [at EXCEPT ![k] = "idle"] /\ does' = [does EXCEPT ![k] = "nothing"]
    BY <1>0 DEF WritePending, saverVars
  <1>4. t \in Session(c) /\ t.history = s.history /\ t.mark = s.mark /\ t.pending = s.pending + 1
    BY <1>2 DEF Session
  <1> HIDE DEF s, t
  <1>5. /\ session'[c] = {t}
        /\ \A d \in Contacts : d # c => session'[d] = session[d]
        /\ \A d \in Contacts : d # c => (d \in touched' <=> d \in touched)
    BY <1>3 DEF IInv, TypeOK
  <1>6. TypeOK'
    <2>1. \A d \in Contacts :
             /\ session'[d] \subseteq Session(d) /\ \A x, y \in session'[d] : x = y
             /\ \A x \in session'[d] : mu'[d] \notin Clients => x.mark = x.history
      BY <1>2, <1>3, <1>4, <1>5 DEF IInv, TypeOK
    <2>2. /\ at' \in [Clients -> {"idle", "looking", "found", "changing"}]
          /\ does' \in [Clients -> Creating \cup Finding \cup {"nothing"}]
          /\ DOMAIN session' = Contacts /\ touched' \subseteq Contacts
      BY <1>3 DEF IInv, TypeOK
    <2> QED
      BY <1>3, <2>1, <2>2 DEF IInv, TypeOK
  <1>7. MadeFirst'
    <2>1. \A d \in Contacts : session'[d] = {} <=> session[d] = {}
      BY <1>1, <1>5
    <2>2. \A j \in Clients : of[j] \in Contacts
                             /\ (at'[j] \in {"found", "changing"} => at[j] \in {"found", "changing"})
      BY <1>3 DEF IInv, TypeOK
    <2> QED
      BY <1>3, <2>1, <2>2 DEF IInv, MadeFirst
  <1>8. Kept(c)'
    <2>1. Settled(c)' <=> Settled(c)
      BY <1>2, <1>3, <1>4, <1>5 DEF Settled
    <2>2. c \in touched'
      BY <1>3
    <2>3. Kept(c)
      BY DEF IInv
    <2>4. /\ copied[c].history \in Nat /\ copied[c].mark \in Nat /\ copied[c].pending \in Nat
          /\ \A x \in stored[c] : x.history \in Nat /\ x.mark \in Nat /\ x.pending \in Nat
      BY DEF IInv, TypeOK, Session
    <2>5. \A x : x.pending \in Nat /\ Behind(x, s) => Behind(x, t)
      BY <1>2, <1>4 DEF Behind
    <2>6. \A x, y : y = t /\ CopyOf(c, x, s) => CopyOf(c, x, y)'
      BY <1>4, <2>2 DEF CopyOf
    <2>7. CopyingHolds(c)'
      BY <1>2, <1>3, <1>5, <2>1, <2>3, <2>4, <2>5, <2>6 DEF Kept, CopyingHolds, Behind
    <2>8. SettledIsStored(c)'
      BY <1>2, <1>3, <1>5, <2>1, <2>3, <2>6 DEF Kept, SettledIsStored
    <2> QED
      BY <1>2, <1>3, <1>4, <1>5, <2>3, <2>4, <2>5, <2>7, <2>8 DEF Kept, Behind
  <1>9. \A d \in Contacts : Kept(d)'
    BY <1>3, <1>5, <1>8, OthersKept DEF IInv
  <1> QED
    BY <1>6, <1>7, <1>9 DEF IInv

\* A saved change begins: until its mark is written, the session is not settled.
LEMMA ChangeIInv ==
    ASSUME IInv, NEW k \in Clients, Change(k)
    PROVE  IInv'
  <1> USE SessionSavesAssumption
  <1>0. PICK c \in Contacts : c = of[k]
    BY DEF IInv, TypeOK
  <1>1. session[c] # {}
    BY <1>0 DEF Change, IInv, MadeFirst
  <1> DEFINE s == The(session[c])
             t == [s EXCEPT !.history = @ + 1]
  <1>2. /\ session[c] = {s} /\ s \in Session(c) /\ s.mark <= s.history
        /\ s.history \in 0..MaxChanges[c] /\ s.mark \in 0..MaxChanges[c] /\ s.pending \in Nat
        /\ MaxChanges[c] \in Nat
    <2>1. session[c] = {s}
      BY <1>1, TheSession DEF IInv
    <2>2. s.mark <= s.history
      BY <2>1 DEF IInv, Kept
    <2> QED
      BY <1>1, <2>2, TheSession DEF IInv
  <1>3. /\ UNCHANGED <<stored, of, does, mgr, storeMu, saving, due, fresh, copied, touched>>
        /\ s.history < MaxChanges[c]
        /\ mu' = [mu EXCEPT ![c] = k] /\ session' = [session EXCEPT ![c] = {t}]
        /\ at[k] = "found" /\ at' = [at EXCEPT ![k] = "changing"]
    BY <1>0 DEF Change, saverVars
  <1>4. t \in Session(c) /\ t.history = s.history + 1 /\ t.mark = s.mark /\ t.pending = s.pending
    BY <1>2, <1>3 DEF Session
  <1> HIDE DEF s, t
  <1>5. /\ session'[c] = {t} /\ mu'[c] = k
        /\ \A d \in Contacts : d # c => session'[d] = session[d] /\ mu'[d] = mu[d]
    BY <1>3 DEF IInv, TypeOK
  <1>6. TypeOK'
    <2>1. \A d \in Contacts :
             /\ session'[d] \subseteq Session(d) /\ \A x, y \in session'[d] : x = y
             /\ \A x \in session'[d] : mu'[d] \notin Clients => x.mark = x.history
      BY <1>4, <1>5 DEF IInv, TypeOK
    <2>2. /\ at' \in [Clients -> {"idle", "looking", "found", "changing"}]
          /\ mu' \in [Contacts -> Clients \cup Contacts \cup {Nobody}]
          /\ DOMAIN session' = Contacts
      BY <1>3 DEF IInv, TypeOK
    <2> QED
      BY <1>3, <2>1, <2>2 DEF IInv, TypeOK
  <1>7. MadeFirst'
    <2>1. \A d \in Contacts : session'[d] = {} <=> session[d] = {}
      BY <1>1, <1>5
    <2>2. \A j \in Clients : of[j] \in Contacts
                             /\ (at'[j] \in {"found", "changing"} => at[j] \in {"found", "changing"})
      BY <1>3 DEF IInv, TypeOK
    <2> QED
      BY <1>3, <2>1, <2>2 DEF IInv, MadeFirst
  <1>8. Kept(c)'
    <2>1. ~Settled(c)'
      BY <1>2, <1>4, <1>5 DEF Settled
    <2>2. Kept(c)
      BY DEF IInv
    <2>3. /\ copied[c].history \in Nat
          /\ \A x \in stored[c] : x.history \in Nat
      BY <1>2 DEF IInv, TypeOK, Session
    <2>4. \A x : x.history \in Nat /\ Behind(x, s) => Behind(x, t)
      BY <1>2, <1>4 DEF Behind
    <2>5. CopyingHolds(c)'
      BY <1>2, <1>3, <1>5, <2>1, <2>2, <2>3, <2>4 DEF Kept, CopyingHolds, Behind
    <2>6. SettledIsStored(c)'
      BY <2>1 DEF SettledIsStored
    <2> QED
      BY <1>2, <1>3, <1>4, <1>5, <2>2, <2>3, <2>4, <2>5, <2>6 DEF Kept, Behind
  <1>9. \A d \in Contacts : Kept(d)'
    BY <1>3, <1>5, <1>8, OthersKept DEF IInv
  <1> QED
    BY <1>6, <1>7, <1>9 DEF IInv

\* It ends with a saver due, so another save is to come.
LEMMA ReturnIInv ==
    ASSUME IInv, NEW k \in Clients, Return(k)
    PROVE  IInv'
  <1> USE SessionSavesAssumption
  <1>0. PICK c \in Contacts : c = of[k]
    BY DEF IInv, TypeOK
  <1>1. session[c] # {}
    BY <1>0 DEF Return, IInv, MadeFirst
  <1> DEFINE s == The(session[c])
             t == Marked(s, does[k])
  <1>2. /\ session[c] = {s} /\ s \in Session(c) /\ s.mark <= s.history
        /\ s.history \in 0..MaxChanges[c] /\ s.mark \in 0..MaxChanges[c] /\ s.pending \in Nat
        /\ MaxChanges[c] \in Nat
    <2>1. session[c] = {s}
      BY <1>1, TheSession DEF IInv
    <2>2. s.mark <= s.history
      BY <2>1 DEF IInv, Kept
    <2> QED
      BY <1>1, <2>2, TheSession DEF IInv
  <1>3. /\ UNCHANGED <<stored, of, mgr, saving, storeMu, fresh, copied>>
        /\ due' = [due EXCEPT ![c] = @ \cup {s.history}]
        /\ mu' = [mu EXCEPT ![c] = Nobody] /\ session' = [session EXCEPT ![c] = {t}]
        /\ at[k] = "changing" /\ at' = [at EXCEPT ![k] = "idle"]
        /\ does' = [does EXCEPT ![k] = "nothing"] /\ touched' = touched \ {c}
    BY <1>0 DEF Return
  <1>4. /\ t \in Session(c) /\ t.history = s.history /\ t.mark = s.history
        /\ t.pending \in Nat /\ s.pending <= t.pending
    <2>1. t = [s EXCEPT !.mark = s.history,
                        !.pending = IF does[k] = "AddReply" THEN @ + 1 ELSE @]
      BY DEF Marked
    <2> HIDE DEF t
    <2>2. CASE does[k] = "AddReply"
      <3>1. t = [history |-> s.history, mark |-> s.history, pending |-> s.pending + 1]
        BY <1>2, <2>1, <2>2 DEF Session
      <3> QED
        BY <1>2, <3>1 DEF Session
    <2>3. CASE does[k] # "AddReply"
      <3>1. t = [history |-> s.history, mark |-> s.history, pending |-> s.pending]
        BY <1>2, <2>1, <2>3 DEF Session
      <3> QED
        BY <1>2, <3>1 DEF Session
    <2> QED
      BY <2>2, <2>3
  <1> HIDE DEF s, t
  <1>5. /\ session'[c] = {t} /\ mu'[c] = Nobody /\ due'[c] = due[c] \cup {s.history}
        /\ \A d \in Contacts : d # c => /\ session'[d] = session[d] /\ mu'[d] = mu[d]
                                        /\ due'[d] = due[d]
                                        /\ d \in touched' <=> d \in touched
    BY <1>3 DEF IInv, TypeOK
  <1>6. TypeOK'
    <2>1. \A d \in Contacts :
             /\ session'[d] \subseteq Session(d) /\ \A x, y \in session'[d] : x = y
             /\ \A x \in session'[d] : mu'[d] \notin Clients => x.mark = x.history
             /\ due'[d] \subseteq 0..MaxChanges[d]
      BY <1>2, <1>4, <1>5 DEF IInv, TypeOK
    <2>2. /\ at' \in [Clients -> {"idle", "looking", "found", "changing"}]
          /\ does' \in [Clients -> Creating \cup Finding \cup {"nothing"}]
          /\ mu' \in [Contacts -> Clients \cup Contacts \cup {Nobody}]
          /\ DOMAIN session' = Contacts /\ DOMAIN due' = Contacts /\ touched' \subseteq Contacts
      BY <1>3 DEF IInv, TypeOK
    <2> QED
      BY <1>3, <2>1, <2>2 DEF IInv, TypeOK
  <1>7. MadeFirst'
    <2>1. \A d \in Contacts : session'[d] = {} <=> session[d] = {}
      BY <1>1, <1>5
    <2>2. \A j \in Clients : of[j] \in Contacts
                             /\ (at'[j] \in {"found", "changing"} => at[j] \in {"found", "changing"})
      BY <1>3 DEF IInv, TypeOK
    <2>3. \A d \in Contacts : session'[d] = {} => due'[d] = due[d]
      BY <1>5
    <2>4. MadeFirst
      BY DEF IInv
    <2>5. \A d \in Contacts :
             /\ fresh'[d] = "none" <=> session'[d] = {}
             /\ session'[d] = {} => stored'[d] = {} /\ due'[d] = {}
      <3>1. fresh' = fresh /\ stored' = stored
        BY <1>3
      <3> QED
        BY <2>1, <2>3, <2>4, <3>1 DEF MadeFirst
    <2>6. \A j \in Clients : at'[j] \in {"found", "changing"} => session'[of'[j]] # {}
      <3>1. of' = of
        BY <1>3
      <3> QED
        BY <2>1, <2>2, <2>4, <3>1 DEF MadeFirst
    <2> QED
      BY <2>5, <2>6 DEF MadeFirst
  <1>8. Kept(c)'
    <2>1. ~Settled(c)'
      BY <1>5 DEF Settled
    <2>2. Kept(c)
      BY DEF IInv
    <2>3. /\ copied[c].mark \in Nat /\ copied[c].pending \in Nat
          /\ \A x \in stored[c] : x.mark \in Nat /\ x.pending \in Nat
      BY <1>2 DEF IInv, TypeOK, Session
    <2>4. \A x : x.mark \in Nat /\ x.pending \in Nat /\ Behind(x, s) => Behind(x, t)
      BY <1>2, <1>4 DEF Behind
    <2>5. CopyingHolds(c)'
      BY <1>2, <1>3, <1>5, <2>1, <2>2, <2>3, <2>4 DEF Kept, CopyingHolds, Behind
    <2>6. SettledIsStored(c)'
      BY <2>1 DEF SettledIsStored
    <2> QED
      BY <1>2, <1>3, <1>4, <1>5, <2>2, <2>3, <2>4, <2>5, <2>6 DEF Kept, Behind
  <1>9. \A d \in Contacts : Kept(d)'
    BY <1>3, <1>5, <1>8, OthersKept DEF IInv
  <1> QED
    BY <1>6, <1>7, <1>9 DEF IInv

\* A saver takes the mutex of a session, and under it the manager's.
LEMMA BeginSaveIInv ==
    ASSUME IInv, NEW c \in Contacts, BeginSave(c) \/ EnterMap(c)
    PROVE  IInv'
  <1> USE SessionSavesAssumption
  <1>1. /\ UNCHANGED <<session, stored, at, of, does, mgr, storeMu, due, fresh, copied, touched>>
        /\ \/ mu' = mu
           \/ mu[c] = Nobody /\ mu' = [mu EXCEPT ![c] = c]
        /\ \E p \in {"begun", "listed"} : saving' = [saving EXCEPT ![c] = p]
    BY DEF BeginSave, EnterMap, callVars
  <1>2. \A d \in Contacts : mu'[d] \in Clients <=> mu[d] \in Clients
    BY <1>1 DEF IInv, TypeOK
  <1>3. TypeOK'
    <2>1. /\ mu' \in [Contacts -> Clients \cup Contacts \cup {Nobody}]
          /\ saving' \in [Contacts -> {"no", "begun", "listed"}]
      BY <1>1 DEF IInv, TypeOK
    <2> QED
      BY <1>1, <1>2, <2>1 DEF IInv, TypeOK
  <1>4. MadeFirst'
    BY <1>1 DEF IInv, MadeFirst
  <1>5. \A d \in Contacts : Kept(d)'
    BY <1>1, OthersKept DEF IInv
  <1> QED
    BY <1>3, <1>4, <1>5 DEF IInv

\* It copies memory into the store and lets go of the mutex.
LEMMA EndSaveIInv ==
    ASSUME IInv, NEW c \in Contacts, EndSave(c)
    PROVE  IInv'
  <1> USE SessionSavesAssumption
  <1>1. /\ UNCHANGED <<session, at, of, does, mgr, storeMu, fresh, copied, touched>>
        /\ mu[c] = c /\ mu' = [mu EXCEPT ![c] = Nobody] /\ storeMu = Nobody
        /\ stored' = [stored EXCEPT ![c] = session[c]]
        /\ saving' = [saving EXCEPT ![c] = "no"]
    BY DEF EndSave, callVars
  <1>2. PICK n \in due[c] : due' = [due EXCEPT ![c] = @ \ {n}]
    BY DEF EndSave
  <1>3. /\ stored'[c] = session[c] /\ mu'[c] = Nobody /\ due'[c] = due[c] \ {n}
        /\ \A d \in Contacts : d # c => /\ stored'[d] = stored[d] /\ mu'[d] = mu[d]
                                        /\ due'[d] = due[d]
    BY <1>1, <1>2 DEF IInv, TypeOK
  <1>4. session[c] # {}
    BY <1>2 DEF IInv, MadeFirst
  <1>6. TypeOK'
    <2>1. \A d \in Contacts :
             /\ stored'[d] \subseteq Session(d) /\ \A x, y \in stored'[d] : x = y
             /\ due'[d] \subseteq 0..MaxChanges[d]
      BY <1>3 DEF IInv, TypeOK
    <2>2. /\ mu' \in [Contacts -> Clients \cup Contacts \cup {Nobody}]
          /\ saving' \in [Contacts -> {"no", "begun", "listed"}]
          /\ DOMAIN stored' = Contacts /\ DOMAIN due' = Contacts
      BY <1>1, <1>2 DEF IInv, TypeOK
    <2>3. \A d \in Contacts : \A s \in session[d] : mu'[d] \notin Clients => s.mark = s.history
      BY <1>1, <1>3 DEF IInv, TypeOK
    <2> QED
      BY <1>1, <2>1, <2>2, <2>3 DEF IInv, TypeOK
  <1>7. MadeFirst'
    BY <1>1, <1>3, <1>4 DEF IInv, MadeFirst
  <1>8. \A d \in Contacts : fresh[d] # "copying"
    BY <1>1 DEF IInv, Kept, CopyingHolds
  <1>9. Kept(c)'
    <2>1. \A s, t \in session[c] : s = t /\ s.history \in Nat /\ s.mark \in Nat /\ s.pending \in Nat
      BY SessionSavesAssumption DEF IInv, TypeOK, Session
    <2>2. \A s, t \in session[c] : Behind(s, t)
      BY <2>1 DEF Behind
    <2>3. \A s : CopyOf(c, s, s)'
      BY DEF CopyOf
    <2>4. CopyingHolds(c)'
      BY <1>1, <1>8 DEF CopyingHolds
    <2>5. SettledIsStored(c)'
      BY <1>1, <1>3, <2>3 DEF SettledIsStored
    <2> QED
      BY <1>1, <1>3, <2>2, <2>4, <2>5 DEF IInv, Kept, Behind
  <1>10. \A d \in Contacts : Kept(d)'
    BY <1>1, <1>3, <1>9, OthersKept DEF IInv
  <1> QED
    BY <1>6, <1>7, <1>10 DEF IInv

\* The saver of a new session reads it while it may be changed.
LEMMA BeginFreshIInv ==
    ASSUME IInv, NEW c \in Contacts, BeginFresh(c)
    PROVE  IInv'
  <1> USE SessionSavesAssumption
  <1> DEFINE s == The(session[c])
  <1>1. /\ UNCHANGED <<session, stored, at, of, does, mgr, mu, saving, due, touched>>
        /\ fresh[c] = "due" /\ storeMu = Nobody /\ storeMu' = c
        /\ fresh' = [fresh EXCEPT ![c] = "copying"]
        /\ copied' = [copied EXCEPT ![c] = s]
    BY DEF BeginFresh, callVars
  <1>2. session[c] # {}
    BY <1>1 DEF IInv, MadeFirst
  <1>3. /\ session[c] = {s} /\ s \in Session(c)
        /\ s.history \in Nat /\ s.mark \in Nat /\ s.pending \in Nat
    BY <1>2, TheSession DEF IInv
  <1> HIDE DEF s
  <1>4. /\ fresh'[c] = "copying" /\ copied'[c] = s
        /\ \A d \in Contacts : d # c => fresh'[d] = fresh[d] /\ copied'[d] = copied[d]
    BY <1>1 DEF IInv, TypeOK
  <1>5. TypeOK'
    <2>1. /\ \A d \in Contacts : copied'[d] \in Session(d)
          /\ DOMAIN copied' = Contacts
          /\ fresh' \in [Contacts -> {"none", "due", "copying", "done"}]
      BY <1>1, <1>3, <1>4 DEF IInv, TypeOK
    <2> QED
      BY <1>1, <2>1 DEF IInv, TypeOK
  <1>6. MadeFirst'
    BY <1>1, <1>2, <1>4 DEF IInv, MadeFirst
  <1>7. Kept(c)'
    <2>1. Kept(c)
      BY DEF IInv
    <2>2. \A x \in stored[c] : Behind(x, s)
      BY <1>3, <2>1 DEF Kept
    <2>3. Behind(s, s) /\ \A x : CopyOf(c, x, x)'
      BY <1>3 DEF Behind, CopyOf
    <2>4. CopyingHolds(c)'
      BY <1>1, <1>3, <1>4, <2>2, <2>3 DEF CopyingHolds, Behind
    <2>5. SettledIsStored(c)'
      BY <1>4 DEF SettledIsStored
    <2> QED
      BY <1>1, <2>1, <2>4, <2>5 DEF Kept, Behind
  <1>8. \A d \in Contacts : fresh[d] # "copying"
    BY <1>1 DEF IInv, Kept, CopyingHolds
  <1>9. \A d \in Contacts : Kept(d)'
    BY <1>1, <1>4, <1>7, <1>8, OthersKept DEF IInv
  <1> QED
    BY <1>5, <1>6, <1>9 DEF IInv

\* A field read later is no older than it was.
LEMMA ReadLaterIInv ==
    ASSUME IInv, NEW c \in Contacts, ReadLater(c)
    PROVE  IInv'
  <1> USE SessionSavesAssumption
  <1> DEFINE s == The(session[c])
             r == copied[c]
  <1>1. /\ UNCHANGED <<session, stored, at, of, does, mgr, mu, saving, storeMu, due, fresh, touched>>
        /\ fresh[c] = "copying"
    BY DEF ReadLater, callVars
  <1>2. session[c] # {}
    BY <1>1 DEF IInv, MadeFirst
  <1>3. /\ session[c] = {s} /\ s \in Session(c)
        /\ s.history \in Nat /\ s.mark \in Nat /\ s.pending \in Nat
    BY <1>2, TheSession DEF IInv
  <1>4. PICK h \in {r.history, s.history}, m \in {r.mark, s.mark}, p \in {r.pending, s.pending} :
                copied' = [copied EXCEPT ![c] = [history |-> h, mark |-> m, pending |-> p]]
    BY DEF ReadLater
  <1> DEFINE t == [history |-> h, mark |-> m, pending |-> p]
  <1>5. t.history = h /\ t.mark = m /\ t.pending = p /\ t \in Session(c)
    BY <1>3 DEF IInv, TypeOK, Session
  <1>6. r.history \in Nat /\ r.mark \in Nat /\ r.pending \in Nat
    BY DEF IInv, TypeOK, Session
  <1>7. /\ copied'[c] = t
        /\ \A d \in Contacts : d # c => copied'[d] = copied[d]
    BY <1>4 DEF IInv, TypeOK
  <1> HIDE DEF t
  <1>8. TypeOK'
    <2>1. (\A d \in Contacts : copied'[d] \in Session(d)) /\ DOMAIN copied' = Contacts
      BY <1>4, <1>5, <1>7 DEF IInv, TypeOK
    <2> QED
      BY <1>1, <2>1 DEF IInv, TypeOK
  <1>9. MadeFirst'
    BY <1>1 DEF IInv, MadeFirst
  <1>10. Kept(c)'
    <2>1. Kept(c)
      BY DEF IInv
    <2>2. Behind(r, s) /\ storeMu = c /\ \A x \in stored[c] : Behind(x, r)
      BY <1>1, <1>3, <2>1 DEF Kept, CopyingHolds
    <2>3. Settled(c) => CopyOf(c, r, s)
      BY <1>1, <1>3, <2>1 DEF Kept, CopyingHolds
    <2> HIDE DEF r, s
    <2>4. Behind(r, t) /\ Behind(t, s)
      BY <1>3, <1>4, <1>5, <1>6, <2>2 DEF Behind
    <2>5. CopyOf(c, r, s) => CopyOf(c, t, s)
      BY <1>4, <1>5 DEF CopyOf
    <2>6. \A x \in stored[c] : Behind(x, t)
      <3>1. \A x \in stored[c] : x.history \in Nat /\ x.mark \in Nat /\ x.pending \in Nat
        BY DEF IInv, TypeOK, Session
      <3>2. t.history \in Nat /\ t.mark \in Nat /\ t.pending \in Nat
        BY <1>3, <1>4, <1>5, <1>6
      <3> QED
        BY <1>6, <2>2, <2>4, <3>1, <3>2 DEF Behind
    <2>7. Settled(c)' <=> Settled(c)
      BY <1>1 DEF Settled
    <2>9. CopyingHolds(c)'
      <3>1. \A x : x = t => (\A y \in stored'[c] : Behind(y, x))
        BY <1>1, <2>6
      <3>2. \A x, y : x = t /\ y = s /\ Settled(c)' => CopyOf(c, x, y)'
        <4>1. \A x, y : CopyOf(c, x, y)' <=> CopyOf(c, x, y)
          BY <1>1 DEF CopyOf
        <4> QED
          BY <2>3, <2>5, <2>7, <4>1
      <3>3. \A x \in session'[c] : x = s
        BY <1>1, <1>3
      <3> QED
        BY <1>1, <1>7, <2>2, <2>4, <3>1, <3>2, <3>3 DEF CopyingHolds, Behind
    <2>10. SettledIsStored(c)'
      BY <1>1 DEF SettledIsStored
    <2> QED
      BY <1>1, <2>1, <2>9, <2>10 DEF Kept, Behind
  <1>11. \A d \in Contacts : Kept(d)'
    BY <1>1, <1>7, <1>10, OthersKept DEF IInv
  <1> QED
    BY <1>8, <1>9, <1>11 DEF IInv

\* What it then stores is repaired by a save still to come, if it is old.
LEMMA EndFreshIInv ==
    ASSUME IInv, NEW c \in Contacts, EndFresh(c)
    PROVE  IInv'
  <1> USE SessionSavesAssumption
  <1>1. /\ UNCHANGED <<session, at, of, does, mgr, mu, saving, due, touched>>
        /\ fresh[c] = "copying" /\ storeMu' = Nobody
        /\ fresh' = [fresh EXCEPT ![c] = "done"]
        /\ stored' = [stored EXCEPT ![c] = {copied[c]}]
        /\ copied' = [copied EXCEPT ![c] = NewSession]
    BY DEF EndFresh, callVars
  <1>2. session[c] # {}
    BY <1>1 DEF IInv, MadeFirst
  <1>3. Kept(c)
    BY DEF IInv
  <1>4. /\ fresh'[c] = "done" /\ stored'[c] = {copied[c]}
        /\ \A d \in Contacts : d # c => /\ fresh'[d] = fresh[d] /\ stored'[d] = stored[d]
                                        /\ copied'[d] = copied[d]
    BY <1>1 DEF IInv, TypeOK
  <1>5. TypeOK'
    <2>1. NewSession \in Session(c)
      BY DEF NewSession, Session
    <2>2. /\ \A d \in Contacts :
                /\ stored'[d] \subseteq Session(d) /\ \A x, y \in stored'[d] : x = y
                /\ copied'[d] \in Session(d)
          /\ DOMAIN stored' = Contacts /\ DOMAIN copied' = Contacts
          /\ fresh' \in [Contacts -> {"none", "due", "copying", "done"}]
      BY <1>1, <1>4, <2>1 DEF IInv, TypeOK
    <2> QED
      BY <1>1, <2>2 DEF IInv, TypeOK
  <1>6. MadeFirst'
    BY <1>1, <1>2, <1>4 DEF IInv, MadeFirst
  <1>7. Kept(c)'
    <2>1. \A t \in session[c] : Behind(copied[c], t) /\ (Settled(c) => CopyOf(c, copied[c], t))
      BY <1>1, <1>3 DEF Kept, CopyingHolds
    <2>2. Settled(c)' <=> Settled(c)
      BY <1>1 DEF Settled
    <2>3. \A x, y : CopyOf(c, x, y)' <=> CopyOf(c, x, y)
      BY <1>1 DEF CopyOf
    <2>4. SettledIsStored(c)'
      BY <1>1, <1>4, <2>1, <2>2, <2>3 DEF SettledIsStored
    <2>5. CopyingHolds(c)'
      BY <1>4 DEF CopyingHolds
    <2> QED
      BY <1>1, <1>3, <1>4, <2>1, <2>4, <2>5 DEF Kept, Behind
  <1>8. \A d \in Contacts : d # c => fresh[d] # "copying"
    BY <1>1 DEF IInv, Kept, CopyingHolds
  <1>9. \A d \in Contacts : Kept(d)'
    BY <1>1, <1>4, <1>7, <1>8, OthersKept DEF IInv
  <1> QED
    BY <1>5, <1>6, <1>9 DEF IInv

--------------------------------------------------------------------------------
(* Every step.                                                                   *)

\* Every step keeps the invariant.
LEMMA NextIInv == IInv /\ [Next]_vars => IInv'
  <1> SUFFICES ASSUME IInv, [Next]_vars PROVE IInv'
    OBVIOUS
  <1>1. ASSUME NEW k \in Clients, Calling(k) PROVE IInv'
    BY <1>1, LookingIInv, CreatedIInv, WritePendingIInv, ChangeIInv, ReturnIInv DEF Calling
  <1>2. ASSUME NEW c \in Contacts, Saving(c) PROVE IInv'
    BY <1>2, BeginSaveIInv, EndSaveIInv, BeginFreshIInv, ReadLaterIInv, EndFreshIInv DEF Saving
  <1>3. CASE UNCHANGED vars
    <2>1. TypeOK'
      BY <1>3 DEF IInv, TypeOK, vars, callVars, saverVars
    <2>2. MadeFirst'
      BY <1>3 DEF IInv, MadeFirst, vars, callVars, saverVars
    <2>3. \A d \in Contacts : Kept(d)'
      BY <1>3, OthersKept DEF IInv, vars, saverVars
    <2> QED
      BY <2>1, <2>2, <2>3 DEF IInv
  <1> QED
    BY <1>1, <1>2, <1>3 DEF Next

\* The invariant holds throughout.
LEMMA IInvHolds == Spec => []IInv
  BY InitIInv, NextIInv, PTL DEF Spec

--------------------------------------------------------------------------------
(* The theorems.                                                                 *)

\* Every variable keeps to its range; the history is ahead of the mark only while a
\* client holds the session's Mu.
THEOREM TypeCorrect == Spec => []TypeOK
  <1>1. IInv => TypeOK
    BY DEF IInv
  <1> QED
    BY <1>1, IInvHolds, PTL

\* Whatever order the savers of a session run in, and though the first one copies
\* without the session's mutex (GetOrCreate's goroutine), the store ends up holding
\* what is in memory, a pending reply that no saved change has followed excepted.
THEOREM CatchesUp == Spec => []StoreCatchesUp
  <1>1. IInv => StoreCatchesUp
    <2> SUFFICES ASSUME IInv, NEW c \in Contacts, Quiet(c), NEW s \in session[c]
                 PROVE  \E t \in stored[c] : CopyOf(c, t, s)
      BY DEF StoreCatchesUp
    <2>1. Settled(c)
      BY SessionSavesAssumption DEF IInv, TypeOK, Settled, Quiet
    <2> QED
      BY <2>1 DEF IInv, Kept, SettledIsStored, Quiet
  <1> QED
    BY <1>1, IInvHolds, PTL

\* No saver puts back an older session than the one in the store.
THEOREM NeverGoesBack == Spec => StoreNeverGoesBack
  <1> DEFINE Forward == \A c \in Contacts : \A s \in stored[c], t \in stored'[c] :
                s.history <= t.history /\ s.mark <= t.mark /\ s.pending <= t.pending
  <1>1. IInv /\ [Next]_vars => [Forward]_vars
    <2> SUFFICES ASSUME IInv, Next PROVE Forward
      OBVIOUS
    <2>0. \A c \in Contacts : \A s, t \in stored[c] : Behind(s, t)
      <3>1. \A c \in Contacts : \A s, t \in stored[c] :
               s = t /\ s.history \in Nat /\ s.mark \in Nat /\ s.pending \in Nat
        BY SessionSavesAssumption DEF IInv, TypeOK, Session
      <3> QED
        BY <3>1 DEF Behind
    <2>1. ASSUME UNCHANGED stored PROVE Forward
      BY <2>0, <2>1 DEF Behind
    <2>2. ASSUME NEW c \in Contacts, NEW S, stored' = [stored EXCEPT ![c] = S],
                 \A s \in stored[c], t \in S : Behind(s, t)
          PROVE  Forward
      <3> SUFFICES ASSUME NEW d \in Contacts, NEW s \in stored[d], NEW t \in stored'[d]
                   PROVE  Behind(s, t)
        BY DEF Behind
      <3>1. CASE d = c
        BY <2>2, <3>1 DEF IInv, TypeOK
      <3>2. CASE d # c
        <4>1. stored'[d] = stored[d]
          BY <2>2, <3>2 DEF IInv, TypeOK
        <4> QED
          BY <2>0, <4>1
      <3> QED
        BY <3>1, <3>2
    <2> HIDE DEF Forward
    <2>3. ASSUME NEW k \in Clients, Calling(k) PROVE Forward
      <3>1. UNCHANGED stored
        BY <2>3 DEF Calling, GetOrCreate, Get, Found, Created, Duplicate, WritePending,
                    Change, Return
      <3> QED
        BY <2>1, <3>1
    <2>4. ASSUME NEW c \in Contacts, EndSave(c) PROVE Forward
      BY <2>2, <2>4 DEF EndSave, IInv, Kept
    <2>5. ASSUME NEW c \in Contacts, EndFresh(c) PROVE Forward
      <3>1. \A s \in stored[c] : Behind(s, copied[c])
        BY <2>5 DEF EndFresh, IInv, Kept, CopyingHolds
      <3>2. PICK S : S = {copied[c]}
        OBVIOUS
      <3>3. stored' = [stored EXCEPT ![c] = S]
        BY <2>5, <3>2 DEF EndFresh
      <3>4. \A s \in stored[c], t \in S : Behind(s, t)
        BY <3>1, <3>2
      <3> QED
        BY <2>2, <3>3, <3>4
    <2>6. ASSUME NEW c \in Contacts, BeginSave(c) \/ EnterMap(c) \/ BeginFresh(c) \/ ReadLater(c)
          PROVE  Forward
      BY <2>1, <2>6 DEF BeginSave, EnterMap, BeginFresh, ReadLater
    <2> QED
      BY <2>3, <2>4, <2>5, <2>6 DEF Next, Saving
  <1>2. Spec => [][Forward]_vars
    BY <1>1, IInvHolds, PTL DEF Spec
  <1> QED
    BY <1>2 DEF StoreNeverGoesBack
================================================================================
