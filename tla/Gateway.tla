-------------------------------- MODULE Gateway --------------------------------
(* The gateway (internal/gateway): agents come in over WebSocket, each served by *)
(* its own goroutine (server.go, handleWebSocket) that keeps the session registry *)
(* up to date; HTTP requests to /api/send-reply, each in its own goroutine, look  *)
(* a session up, and write one command to its connection (handleSendReply,        *)
(* RouteReplyExecute).  The registry has a mutex; between the look-up and the     *)
(* write nothing is held, and nothing serialises two writers of one connection.   *)
(* gorilla/websocket allows one writer at a time: a server's WriteMessage copies  *)
(* the message into the connection's one write buffer, checks a flag, sets it,    *)
(* hands the buffer to the socket and clears the flag, so two writers may         *)
(* overwrite each other's message, and a writer that finds the flag in the wrong  *)
(* state panics (net/http recovers, the client gets no answer).                   *)
EXTENDS Naturals, Sequences, FiniteSets

CONSTANTS
    Conns,      \* connections agents make, each used once
    Sessions,   \* session IDs
    SidOf,      \* the session ID a connection is made under (given, or drawn by the server)
    Requests,   \* HTTP requests, each made once and carrying one command
    Target,     \* the session ID a request names
    NoConn,     \* "no connection"
    Garbled     \* a frame mixed from two commands

ASSUME GatewayAssumption ==
    /\ SidOf \in [Conns -> Sessions]
    /\ Target \in [Requests -> Sessions]
    /\ NoConn \notin Conns
    /\ Garbled \notin Requests

VARIABLES
    handler,    \* per connection, where handleWebSocket is
    link,       \* per connection: "none", "up", "lost" (peer gone, nobody knows), "cut"
    registry,   \* sessions of the registry: the connection a session ID stands for
    phase,      \* per request, where handleSendReply is
    held,       \* per request, the connection its look-up returned
    answer,     \* per request, the HTTP answer
    buf,        \* per connection, the command in its write buffer (gorilla)
    writing,    \* per connection, isWriting (gorilla)
    frames,     \* per connection, the frames handed to the socket
    raced       \* requests whose write overlapped another on their connection (observer)

connVars == <<handler, link, registry>>
sendVars == <<phase, held, answer, buf, writing, frames, raced>>
vars == <<handler, link, registry, phase, held, answer, buf, writing, frames, raced>>

--------------------------------------------------------------------------------

Init ==
    /\ handler = [c \in Conns |-> "none"]
    /\ link = [c \in Conns |-> "none"]
    /\ registry = [s \in Sessions |-> NoConn]
    /\ phase = [r \in Requests |-> "new"]
    /\ held = [r \in Requests |-> NoConn]
    /\ answer = [r \in Requests |-> "none"]
    /\ buf = [c \in Conns |-> Garbled]
    /\ writing = [c \in Conns |-> FALSE]
    /\ frames = [c \in Conns |-> <<>>]
    /\ raced = {}

--------------------------------------------------------------------------------
(* Agents and their connections.                                                 *)

\* The upgrade is answered: the agent believes it is connected.
Upgrade(c) ==
    /\ handler[c] = "none"
    /\ handler' = [handler EXCEPT ![c] = "upgraded"]
    /\ link' = [link EXCEPT ![c] = "up"]
    /\ UNCHANGED <<registry, sendVars>>

\* Register: whatever stood under the session ID is replaced.
Register(c) ==
    /\ handler[c] = "upgraded"
    /\ handler' = [handler EXCEPT ![c] = "serving"]
    /\ registry' = [registry EXCEPT ![SidOf[c]] = c]
    /\ UNCHANGED <<link, sendVars>>

\* The peer vanishes without a word: reads go on waiting, writes go on succeeding.
Lose(c) ==
    /\ link[c] = "up"
    /\ link' = [link EXCEPT ![c] = "lost"]
    /\ UNCHANGED <<handler, registry, sendVars>>

\* The connection breaks for both sides to see.
Cut(c) ==
    /\ link[c] \in {"up", "lost"}
    /\ link' = [link EXCEPT ![c] = "cut"]
    /\ UNCHANGED <<handler, registry, sendVars>>

\* Slip: the session is not unregistered.
UnregisterForgotten(c) ==
    /\ handler[c] = "serving" /\ link[c] = "cut"
    /\ handler' = [handler EXCEPT ![c] = "leaving"]
    /\ UNCHANGED <<registry, link, sendVars>>

\* Slip: sessions are unregistered by device ID, and every agent is "agent-001".
UnregisterByDevice(c) ==
    /\ handler[c] = "serving" /\ link[c] = "cut"
    /\ handler' = [handler EXCEPT ![c] = "leaving"]
    /\ registry' = [s \in Sessions |-> NoConn]
    /\ UNCHANGED <<link, sendVars>>

\* ReadMessage fails and the deferred Unregister runs: it removes whatever stands
\* under the session ID, be it this connection or the one that replaced it.
Unregister(c) ==
    /\ handler[c] = "serving" /\ link[c] = "cut"
    /\ handler' = [handler EXCEPT ![c] = "leaving"]
    /\ registry' = [registry EXCEPT ![SidOf[c]] = NoConn]
    /\ UNCHANGED <<link, sendVars>>

\* The deferred conn.Close runs last.
Close(c) ==
    /\ handler[c] = "leaving"
    /\ handler' = [handler EXCEPT ![c] = "closed"]
    /\ UNCHANGED <<link, registry, sendVars>>

--------------------------------------------------------------------------------
(* One request to /api/send-reply.                                               *)

Goto(r, p) == phase' = [phase EXCEPT ![r] = p]

Answer(r, a) == Goto(r, "done") /\ answer' = [answer EXCEPT ![r] = a]

\* Slip: a command for a session that is not there goes to any other.
LookupAny(r) ==
    /\ phase[r] = "new"
    /\ \E s \in Sessions :
          /\ registry[s] # NoConn
          /\ registry[Target[r]] # NoConn => s = Target[r]
          /\ held' = [held EXCEPT ![r] = registry[s]]
          /\ Goto(r, "holding")
    /\ UNCHANGED <<connVars, answer, buf, writing, frames, raced>>

\* Slip: nobody looks whether the session is there.
LookupUnchecked(r) ==
    /\ phase[r] = "new"
    /\ held' = [held EXCEPT ![r] = registry[Target[r]]]
    /\ Goto(r, "holding")
    /\ UNCHANGED <<connVars, answer, buf, writing, frames, raced>>

\* The request is refused (method, body), or the session is looked up.  A session
\* that is not there is no error: the command is dropped and the answer is 200.
Lookup(r) ==
    /\ phase[r] = "new"
    /\ \/ Answer(r, "4xx") /\ UNCHANGED held
       \/ /\ registry[Target[r]] = NoConn
          /\ Answer(r, "200") /\ UNCHANGED held
       \/ /\ registry[Target[r]] # NoConn
          /\ held' = [held EXCEPT ![r] = registry[Target[r]]]
          /\ Goto(r, "holding") /\ UNCHANGED answer
    /\ UNCHANGED <<connVars, buf, writing, frames, raced>>

\* Requests inside WriteMessage on connection c.
Writers(c) == {r \in Requests : held[r] = c /\ phase[r] \in {"filled", "checked", "written", "failed"}}

\* WriteMessage copies the command into the connection's buffer.
Fill(r) ==
    LET c == held[r] IN
    /\ phase[r] = "holding"
    /\ buf' = [buf EXCEPT ![c] = r]
    /\ raced' = IF Writers(c) = {} THEN raced ELSE raced \cup Writers(c) \cup {r}
    /\ Goto(r, "filled")
    /\ UNCHANGED <<connVars, held, answer, writing, frames>>

\* It checks isWriting: a writer at work is a panic.
Check(r) ==
    /\ phase[r] = "filled"
    /\ \/ /\ writing[held[r]]
          /\ Answer(r, "aborted")
       \/ /\ ~writing[held[r]]
          /\ Goto(r, "checked") /\ UNCHANGED answer
    /\ UNCHANGED <<connVars, held, buf, writing, frames, raced>>

\* It sets isWriting and hands the buffer to the socket: this command, or what
\* another writer left there, whole or mixed.  A broken or closed connection is an
\* error.
Write(r) ==
    LET c == held[r] IN
    /\ phase[r] = "checked"
    /\ writing' = [writing EXCEPT ![c] = TRUE]
    /\ \/ /\ link[c] \in {"up", "lost"}
          /\ \E f \in IF buf[c] = r THEN {r} ELSE {buf[c], Garbled} :
                frames' = [frames EXCEPT ![c] = Append(@, f)]
          /\ Goto(r, "written")
       \/ /\ link[c] = "cut"
          /\ UNCHANGED frames
          /\ Goto(r, "failed")
    /\ UNCHANGED <<connVars, held, answer, buf, raced>>

\* Slip: the error of the write is only logged.
ConcludeIgnoresError(r) ==
    LET c == held[r] IN
    /\ phase[r] \in {"written", "failed"}
    /\ writing' = [writing EXCEPT ![c] = FALSE]
    /\ Answer(r, IF writing[c] THEN "200" ELSE "aborted")
    /\ UNCHANGED <<connVars, held, buf, frames, raced>>

\* It clears isWriting; a flag somebody else has cleared is a panic.
Conclude(r) ==
    LET c == held[r] IN
    /\ phase[r] \in {"written", "failed"}
    /\ writing' = [writing EXCEPT ![c] = FALSE]
    /\ \/ ~writing[c] /\ Answer(r, "aborted")
       \/ writing[c] /\ phase[r] = "written" /\ Answer(r, "200")
       \/ writing[c] /\ phase[r] = "failed" /\ Answer(r, "500")
    /\ UNCHANGED <<connVars, held, buf, frames, raced>>

--------------------------------------------------------------------------------

Agents  == \E c \in Conns : Upgrade(c) \/ Lose(c) \/ Cut(c)
Serving == \E c \in Conns : Register(c) \/ Unregister(c) \/ Close(c)
Sending == \E r \in Requests : Lookup(r) \/ Fill(r) \/ Check(r) \/ Write(r) \/ Conclude(r)

Next == Agents \/ Serving \/ Sending

Spec == Init /\ [][Next]_vars

\* Goroutines are scheduled, a broken connection fails the read, and a write to the
\* socket returns; no agent has to come, and no request has to be made.
Fairness ==
    /\ \A c \in Conns : WF_vars(Register(c)) /\ WF_vars(Unregister(c)) /\ WF_vars(Close(c))
    /\ \A r \in Requests : WF_vars(Fill(r) \/ Check(r) \/ Write(r) \/ Conclude(r))

FairSpec == Spec /\ Fairness

--------------------------------------------------------------------------------
(* Properties.                                                                   *)

Phases == {"new", "holding", "filled", "checked", "written", "failed", "done"}

\* Every variable keeps to its range, and a request at its write has a connection.
TypeOK ==
    /\ handler \in [Conns -> {"none", "upgraded", "serving", "leaving", "closed"}]
    /\ link \in [Conns -> {"none", "up", "lost", "cut"}]
    /\ registry \in [Sessions -> Conns \cup {NoConn}]
    /\ phase \in [Requests -> Phases]
    /\ held \in [Requests -> Conns \cup {NoConn}]
    /\ \A r \in Requests : phase[r] \notin {"new", "done"} => held[r] \in Conns
    /\ answer \in [Requests -> {"none", "200", "500", "4xx", "aborted"}]
    /\ buf \in [Conns -> Requests \cup {Garbled}]
    /\ writing \in [Conns -> BOOLEAN]
    /\ frames \in [Conns -> Seq(Requests \cup {Garbled})]
    /\ raced \subseteq Requests

\* No other connection is ever made under c's session ID.
Unique(c) == \A d \in Conns : SidOf[d] = SidOf[c] => d = c

\* The registry never holds a connection whose goroutine has left, nor one that came
\* in under another session ID, even when agents reuse session IDs
\* (Register and Unregister work by ID only).
RegistryNeverDangles ==
    \A s \in Sessions : registry[s] # NoConn =>
        handler[registry[s]] = "serving" /\ SidOf[registry[s]] = s

\* An agent that is being served can be reached, provided nobody else uses its
\* session ID: neither another agent's departure nor a failed write takes it out
\* of the registry.
ServedIsReachable ==
    \A c \in Conns : handler[c] = "serving" /\ Unique(c) => registry[SidOf[c]] = c

\* A command never reaches an agent it was not addressed to, though the look-up is
\* stale by the time of the write and the write buffer is shared.
NeverMisrouted ==
    \A c \in Conns : \A i \in DOMAIN frames[c] :
        frames[c][i] \in Requests => Target[frames[c][i]] = SidOf[c]

\* The frames that carry the command of r, each by its connection and place, and how
\* many they are.
Carriers(r) ==
    {w \in UNION {{c} \X DOMAIN frames[c] : c \in Conns} : frames[w[1]][w[2]] = r}

Copies(r) == Cardinality(Carriers(r))

\* The HTTP answer is honest about a write that no other write overlapped: 200 for a
\* session that was found means the command was handed to the socket once, anything
\* else that it was not.
UnracedAnswerHonest ==
    \A r \in Requests \ raced :
        answer[r] # "none" =>
            Copies(r) = IF answer[r] = "200" /\ held[r] # NoConn THEN 1 ELSE 0

\* A connection that breaks is forgotten by the registry.
BrokenIsForgotten ==
    \A c \in Conns : (handler[c] = "serving" /\ link[c] = "cut") ~> (registry[SidOf[c]] # c)
================================================================================
