------------------------------ MODULE SessionSaves ------------------------------
(* The session manager's mutexes and its asynchronous saves                      *)
(* (internal/agent/session/manager.go).  A session lives in the manager's map,    *)
(* which sm.mu guards, and is changed under its own mutex Mu.  Most calls that    *)
(* change it start a goroutine that saves it; SetPendingReply and                 *)
(* ClearPendingReply do not.  Such a goroutine takes Mu, under it for a moment    *)
(* sm.mu, and then copies the session into the store under the store's mutex;     *)
(* GetOrCreate keeps sm.mu while it waits for the store's mutex.  The goroutine   *)
(* that saves a new session takes the store's mutex only, and so copies a session *)
(* that may be changing.  Nothing orders the goroutines.                          *)
(* A session is three of its fields: the history (ReplyHistory, MessageHistory),  *)
(* the mark (LastMessageID and what else is written after it) and the pending     *)
(* reply.  The changes that are saved are numbered, and so are the writes of the  *)
(* pending reply; a number stands for what the field holds.  A field is read and  *)
(* written whole.                                                                 *)
(* GetActiveSessions, GetSessionsWithUnread and FileStore have no caller.         *)
EXTENDS Naturals, FiniteSets

CONSTANTS
    Contacts,     \* contact IDs
    Clients,      \* goroutines that call the manager
    Nobody,       \* "nobody holds the mutex"
    MaxChanges,   \* bound: the saved changes of each session
    MaxPending    \* bound: writes of each pending reply, those of saved changes aside

ASSUME SessionSavesAssumption ==
    /\ Nobody \notin Clients \cup Contacts
    /\ Clients \cap Contacts = {}
    /\ MaxChanges \in [Contacts -> Nat]
    /\ MaxPending \in [Contacts -> Nat]

VARIABLES
    session,   \* per contact, {} or the singleton of its session in memory
    stored,    \* per contact, {} or the singleton of its copy in the store
    at,        \* per client, where its call is
    of,        \* per client, the contact of its call
    does,      \* per client, what its call does: "nothing" between calls
    mgr,       \* who holds sm.mu: a client, Nobody
    mu,        \* per contact, who holds the session's Mu: a client, the contact (a saver), Nobody
    saving,    \* per contact, how far the saver that holds Mu is: "no", "begun", "listed"
    storeMu,   \* who holds the store's mutex: a contact (the saver of a new session), Nobody
    due,       \* per contact, the saves to be done: the numbers of the changes that started them
    fresh,     \* per contact, the saver of the new session: "none", "due", "copying", "done"
    copied     \* per contact, what that saver has read

\* Observed only: the contacts whose pending reply was written since their last saved
\* change.
VARIABLE touched

callVars == <<at, of, does>>
saverVars == <<saving, due, fresh, copied>>
vars == <<session, stored, callVars, mgr, mu, storeMu, saverVars, touched>>

NewSession == [history |-> 0, mark |-> 0, pending |-> 0]

\* Calls that make the session if they must, calls that fail without one, and of
\* these the calls that save nothing.  AddMessage stands for SetConversationRef too,
\* SetPendingReply for ClearPendingReply.
Creating == {"AddMessage"}
Finding == {"MarkAsRead", "AddReply", "SetPendingReply"}

The(S) == CHOOSE s \in S : TRUE

Init ==
    /\ session = [c \in Contacts |-> {}]
    /\ stored = [c \in Contacts |-> {}]
    /\ at = [k \in Clients |-> "idle"]
    /\ of \in [Clients -> Contacts]
    /\ does = [k \in Clients |-> "nothing"]
    /\ mgr = Nobody
    /\ mu = [c \in Contacts |-> Nobody]
    /\ saving = [c \in Contacts |-> "no"]
    /\ storeMu = Nobody
    /\ due = [c \in Contacts |-> {}]
    /\ fresh = [c \in Contacts |-> "none"]
    /\ copied = [c \in Contacts |-> NewSession]
    /\ touched = {}

--------------------------------------------------------------------------------
(* A call that changes a session: first it looks the session up.                 *)

\* GetOrCreate takes sm.mu.
GetOrCreate(k, c, m) ==
    /\ at[k] = "idle" /\ mgr = Nobody
    /\ m \in Creating
    /\ at' = [at EXCEPT ![k] = "looking"]
    /\ of' = [of EXCEPT ![k] = c]
    /\ does' = [does EXCEPT ![k] = m]
    /\ mgr' = k
    /\ UNCHANGED <<session, stored, mu, storeMu, saverVars, touched>>

\* Slip: to write LastActivityAt it takes Mu while it holds sm.mu.
FoundUnderMu(k) ==
    /\ at[k] = "looking" /\ session[of[k]] # {}
    /\ mu[of[k]] = Nobody
    /\ at' = [at EXCEPT ![k] = "found"]
    /\ mgr' = Nobody
    /\ UNCHANGED <<session, stored, of, does, mu, storeMu, saverVars, touched>>

\* The session is in memory.
Found(k) ==
    /\ at[k] = "looking" /\ session[of[k]] # {}
    /\ at' = [at EXCEPT ![k] = "found"]
    /\ mgr' = Nobody
    /\ UNCHANGED <<session, stored, of, does, mu, storeMu, saverVars, touched>>

\* It is not: Load waits for the store's mutex, with sm.mu held, and finds none (the
\* store holds no session that was not in memory first); a new one is made and its
\* saver started.
Created(k) ==
    /\ at[k] = "looking" /\ session[of[k]] = {} /\ storeMu = Nobody
    /\ session' = [session EXCEPT ![of[k]] = {NewSession}]
    /\ fresh' = [fresh EXCEPT ![of[k]] = "due"]
    /\ at' = [at EXCEPT ![k] = "found"]
    /\ mgr' = Nobody
    /\ UNCHANGED <<stored, of, does, mu, saving, storeMu, due, copied, touched>>

\* Get holds sm.mu for the look-up only; without a session the call returns an error.
Get(k, c, m) ==
    /\ at[k] = "idle" /\ mgr = Nobody /\ session[c] # {}
    /\ m \in Finding
    /\ at' = [at EXCEPT ![k] = "found"]
    /\ of' = [of EXCEPT ![k] = c]
    /\ does' = [does EXCEPT ![k] = m]
    /\ UNCHANGED <<session, stored, mgr, mu, storeMu, saverVars, touched>>

--------------------------------------------------------------------------------
(* Then it changes the session under Mu.                                         *)

\* AddMessage of a message the history holds changes nothing.
Duplicate(k) ==
    /\ at[k] = "found" /\ does[k] = "AddMessage" /\ mu[of[k]] = Nobody
    /\ at' = [at EXCEPT ![k] = "idle"]
    /\ does' = [does EXCEPT ![k] = "nothing"]
    /\ UNCHANGED <<session, stored, of, mgr, mu, storeMu, saverVars, touched>>

\* SetPendingReply and ClearPendingReply write one field and start no save.
WritePending(k) ==
    LET c == of[k]
        s == The(session[c])
    IN  /\ at[k] = "found" /\ does[k] = "SetPendingReply" /\ mu[c] = Nobody
        /\ s.pending < MaxPending[c]
        /\ session' = [session EXCEPT ![c] = {[s EXCEPT !.pending = @ + 1]}]
        /\ touched' = touched \cup {c}
        /\ at' = [at EXCEPT ![k] = "idle"]
        /\ does' = [does EXCEPT ![k] = "nothing"]
        /\ UNCHANGED <<stored, of, mgr, mu, storeMu, saverVars>>

\* Slip: the call writes without Mu.
ChangeUnlocked(k) ==
    LET c == of[k]
        s == The(session[c])
    IN  /\ at[k] = "found" /\ does[k] # "SetPendingReply"
        /\ s.history < MaxChanges[c]
        /\ session' = [session EXCEPT ![c] = {[s EXCEPT !.history = @ + 1]}]
        /\ at' = [at EXCEPT ![k] = "changing"]
        /\ UNCHANGED <<stored, of, does, mgr, mu, storeMu, saverVars, touched>>

\* The other calls take Mu and write the history.
Change(k) ==
    LET c == of[k]
        s == The(session[c])
    IN  /\ at[k] = "found" /\ does[k] # "SetPendingReply" /\ mu[c] = Nobody
        /\ s.history < MaxChanges[c]
        /\ mu' = [mu EXCEPT ![c] = k]
        /\ session' = [session EXCEPT ![c] = {[s EXCEPT !.history = @ + 1]}]
        /\ at' = [at EXCEPT ![k] = "changing"]
        /\ UNCHANGED <<stored, of, does, mgr, storeMu, saverVars, touched>>

\* What a saved change leaves of s: the mark is written, and AddReply clears the
\* pending reply.
Marked(s, m) ==
    [s EXCEPT !.mark = s.history, !.pending = IF m = "AddReply" THEN @ + 1 ELSE @]

\* Slip: MarkAsRead starts no save.
ReturnUnsaved(k) ==
    LET c == of[k]
        s == The(session[c])
    IN  /\ at[k] = "changing"
        /\ session' = [session EXCEPT ![c] = {Marked(s, does[k])}]
        /\ due' = [due EXCEPT ![c] = IF does[k] = "MarkAsRead" THEN @ ELSE @ \cup {s.history}]
        /\ touched' = touched \ {c}
        /\ mu' = [mu EXCEPT ![c] = Nobody]
        /\ at' = [at EXCEPT ![k] = "idle"]
        /\ does' = [does EXCEPT ![k] = "nothing"]
        /\ UNCHANGED <<stored, of, mgr, saving, storeMu, fresh, copied>>

\* They write the mark, start a save, give Mu back and return.
Return(k) ==
    LET c == of[k]
        s == The(session[c])
    IN  /\ at[k] = "changing"
        /\ session' = [session EXCEPT ![c] = {Marked(s, does[k])}]
        /\ due' = [due EXCEPT ![c] = @ \cup {s.history}]
        /\ touched' = touched \ {c}
        /\ mu' = [mu EXCEPT ![c] = Nobody]
        /\ at' = [at EXCEPT ![k] = "idle"]
        /\ does' = [does EXCEPT ![k] = "nothing"]
        /\ UNCHANGED <<stored, of, mgr, saving, storeMu, fresh, copied>>

--------------------------------------------------------------------------------
(* The savers.                                                                   *)

\* Save takes Mu.
BeginSave(c) ==
    /\ mu[c] = Nobody /\ due[c] # {}
    /\ mu' = [mu EXCEPT ![c] = c]
    /\ saving' = [saving EXCEPT ![c] = "begun"]
    /\ UNCHANGED <<session, stored, callVars, mgr, storeMu, due, fresh, copied, touched>>

\* Under it, sm.mu for as long as it takes to put the session in the map, where it is.
EnterMap(c) ==
    /\ mu[c] = c /\ saving[c] = "begun" /\ mgr = Nobody
    /\ saving' = [saving EXCEPT ![c] = "listed"]
    /\ UNCHANGED <<session, stored, callVars, mgr, mu, storeMu, due, fresh, copied, touched>>

\* Slip: a saver stores the session as it was when it was started.
EndSaveSnapshot(c) ==
    /\ mu[c] = c /\ saving[c] = "listed" /\ storeMu = Nobody
    /\ \E n \in due[c] :
          /\ due' = [due EXCEPT ![c] = @ \ {n}]
          /\ stored' = [stored EXCEPT ![c] = {[history |-> n, mark |-> n, pending |-> 0]}]
    /\ mu' = [mu EXCEPT ![c] = Nobody]
    /\ saving' = [saving EXCEPT ![c] = "no"]
    /\ UNCHANGED <<session, callVars, mgr, storeMu, fresh, copied, touched>>

\* It copies the session as it is now into the store, and gives Mu back.
EndSave(c) ==
    /\ mu[c] = c /\ saving[c] = "listed" /\ storeMu = Nobody
    /\ \E n \in due[c] : due' = [due EXCEPT ![c] = @ \ {n}]
    /\ stored' = [stored EXCEPT ![c] = session[c]]
    /\ mu' = [mu EXCEPT ![c] = Nobody]
    /\ saving' = [saving EXCEPT ![c] = "no"]
    /\ UNCHANGED <<session, callVars, mgr, storeMu, fresh, copied, touched>>

\* The saver of a new session takes the store's mutex and reads the fields.
BeginFresh(c) ==
    /\ fresh[c] = "due" /\ storeMu = Nobody
    /\ fresh' = [fresh EXCEPT ![c] = "copying"]
    /\ storeMu' = c
    /\ copied' = [copied EXCEPT ![c] = The(session[c])]
    /\ UNCHANGED <<session, stored, callVars, mgr, mu, saving, due, touched>>

\* It reads some of them later than others, whatever has become of them meanwhile.
ReadLater(c) ==
    LET s == The(session[c])
        r == copied[c]
    IN  /\ fresh[c] = "copying"
        /\ \E h \in {r.history, s.history}, m \in {r.mark, s.mark}, p \in {r.pending, s.pending} :
              copied' = [copied EXCEPT ![c] = [history |-> h, mark |-> m, pending |-> p]]
        /\ UNCHANGED <<session, stored, callVars, mgr, mu, saving, storeMu, due, fresh, touched>>

\* It stores what it has read.
EndFresh(c) ==
    /\ fresh[c] = "copying"
    /\ stored' = [stored EXCEPT ![c] = {copied[c]}]
    /\ fresh' = [fresh EXCEPT ![c] = "done"]
    /\ storeMu' = Nobody
    /\ copied' = [copied EXCEPT ![c] = NewSession]
    /\ UNCHANGED <<session, callVars, mgr, mu, saving, due, touched>>

--------------------------------------------------------------------------------

Calling(k) ==
    \/ \E c \in Contacts, m \in Creating : GetOrCreate(k, c, m)
    \/ \E c \in Contacts, m \in Finding : Get(k, c, m)
    \/ Found(k) \/ Created(k)
    \/ Duplicate(k) \/ WritePending(k) \/ Change(k) \/ Return(k)

Saving(c) ==
    BeginSave(c) \/ EnterMap(c) \/ EndSave(c) \/ BeginFresh(c) \/ ReadLater(c) \/ EndFresh(c)

Next == (\E k \in Clients : Calling(k)) \/ (\E c \in Contacts : Saving(c))

Spec == Init /\ [][Next]_vars

\* Goroutines are scheduled, and a mutex is not kept from one who waits for it
\* forever.  Nothing makes a client begin a call or a change.
Fairness ==
    /\ \A k \in Clients : SF_vars(Found(k) \/ Created(k) \/ Return(k))
    /\ \A c \in Contacts : /\ SF_vars(BeginSave(c) \/ EnterMap(c) \/ EndSave(c))
                           /\ SF_vars(BeginFresh(c) \/ EndFresh(c))

FairSpec == Spec /\ Fairness

--------------------------------------------------------------------------------
(* Properties.                                                                   *)

\* What a session of c can hold.
Session(c) == [history : 0..MaxChanges[c], mark : 0..MaxChanges[c], pending : Nat]

\* Every variable keeps to its range, and the history is ahead of the mark only under Mu.
TypeOK ==
    /\ DOMAIN session = Contacts /\ DOMAIN stored = Contacts
    /\ \A c \in Contacts :
          /\ session[c] \subseteq Session(c) /\ \A s, t \in session[c] : s = t
          /\ stored[c] \subseteq Session(c) /\ \A s, t \in stored[c] : s = t
          /\ \A s \in session[c] : mu[c] \notin Clients => s.mark = s.history
    /\ at \in [Clients -> {"idle", "looking", "found", "changing"}]
    /\ of \in [Clients -> Contacts]
    /\ does \in [Clients -> Creating \cup Finding \cup {"nothing"}]
    /\ mgr \in Clients \cup {Nobody}
    /\ mu \in [Contacts -> Clients \cup Contacts \cup {Nobody}]
    /\ saving \in [Contacts -> {"no", "begun", "listed"}]
    /\ storeMu \in Contacts \cup {Nobody}
    /\ DOMAIN due = Contacts /\ \A c \in Contacts : due[c] \subseteq 0..MaxChanges[c]
    /\ fresh \in [Contacts -> {"none", "due", "copying", "done"}]
    /\ DOMAIN copied = Contacts /\ \A c \in Contacts : copied[c] \in Session(c)
    /\ touched \subseteq Contacts

\* Nothing is left to be saved of c, and nobody is at it.
Quiet(c) == mu[c] = Nobody /\ fresh[c] \notin {"due", "copying"} /\ due[c] = {}

\* The copy t says what the session s of c says, but for a pending reply that no saved
\* change has followed.
CopyOf(c, t, s) ==
    /\ t.history = s.history /\ t.mark = s.mark
    /\ c \notin touched => t.pending = s.pending

\* When the savers of a session have all run, in whatever order, the store holds the
\* session as it is in memory, though the first of them copies without its mutex
\* (GetOrCreate's goroutine).  The exception is the code's: SetPendingReply and
\* ClearPendingReply start no save (manager.go:285-314), so what they wrote is in the
\* store only once a later change has been saved.
StoreCatchesUp ==
    \A c \in Contacts : Quiet(c) => \A s \in session[c] : \E t \in stored[c] : CopyOf(c, t, s)

\* No saver, however late, puts back an older session than the one in the store:
\* a saver saves what the session is when it runs, not what it was when it was
\* started.
StoreNeverGoesBack ==
    [][\A c \in Contacts : \A s \in stored[c], t \in stored'[c] :
          s.history <= t.history /\ s.mark <= t.mark /\ s.pending <= t.pending]_vars

\* A change that starts a save reaches the store: no order in which clients and savers
\* take sm.mu, Mu and the store's mutex (Save takes sm.mu and the store's under Mu,
\* GetOrCreate the store's under sm.mu) leaves a saver waiting.
ChangesAreSaved ==
    \A c \in Contacts : \A n \in 1..MaxChanges[c] :
        (n \in due[c]) ~> (\E s \in stored[c] : s.history >= n /\ s.mark >= n)
================================================================================
