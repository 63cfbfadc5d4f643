------------------------------- MODULE Daemon -------------------------------
(***************************************************************************)
(* The session registry, the life of a session and the life of a client    *)
(* connection (internal/server/server.go, internal/server/session.go, and  *)
(* the parts of pkg/ptysession/session.go they call).                      *)
(*                                                                         *)
(* Every goroutine is a thread of its own and every critical section is    *)
(* one action: a region under Server.mu, conn.mu or the session's lock, or *)
(* an access to one of the atomics `alive' and `killed'.  No region nests  *)
(* in another, so the regions are atomic.  The goroutines are              *)
(*   - one reader per connection, which runs one handler at a time (pc),   *)
(*   - the goroutine that runs conn.shutdown, once per connection (sd),    *)
(*   - one readLoop per session, which ends in finish and onExit (loop),   *)
(*   - the one that calls Server.Close (pc[Closer]).                       *)
(* What the frames carry, the sizes, the scrollback and the bounded queues *)
(* are not modelled here; requests that only read (list, capture) or only  *)
(* set the size (resize) change no state of this module.                   *)
(***************************************************************************)
EXTENDS Integers, FiniteSets

CONSTANTS
    Conn,       \* connections, one element per accepted net.Conn
    Sess,       \* session objects, one element per newSession
    Key,        \* registry keys: the pairs (namespace, id)
    KeyOf,      \* the key a session object is created under
    Closer,     \* the goroutine that calls Server.Close
    Asks,       \* what the client of each connection asks for (Requests)
    MayClose,   \* whether Close is ever called
    NoSess,     \* no session
    NoConn      \* no connection

ASSUME KeyOfAssumption == KeyOf \in [Sess -> Key]
Requests == {"new", "attach", "detach", "write", "kill", "gc", "hangup"}

ASSUME AsksAssumption == Asks \in [Conn -> SUBSET Requests]
ASSUME MayCloseAssumption == MayClose \in BOOLEAN
ASSUME DistinctAssumption ==
    /\ Closer \notin Conn
    /\ NoSess \notin Sess
    /\ NoConn \notin Conn

Thread == Conn \cup {Closer}

VARIABLES
    \* Server
    sessions,     \* Server.sessions
    conns,        \* Server.conns
    closeConns,   \* the connections Close has still to shut down
    \* session and ptysession.Session
    loop,         \* where the session's readLoop is
    coreSet,      \* session.core has been assigned
    killed,       \* ptysession.Session.killed
    attachments,  \* the connections in session.attachments
    toNotify,     \* onExit's `conns', those it has still to tell
    dropping,     \* the connection onExit has told and not yet dropped
    \* conn
    attached,     \* conn.attached
    sd,           \* where conn.shutdown is
    sdKeys,       \* shutdown's `keys', those it has still to detach
    sdSess,       \* the session shutdown is detaching from
    \* threads
    pc,           \* what the reader of a connection, or Close, is doing
    tgt,          \* the session it works on
    victims,      \* the sessions it has still to kill
    \* what the clients know
    told          \* the sessions a connected client was told it is attached to

serverVars == <<sessions, conns, closeConns>>
sessVars   == <<loop, coreSet, killed, attachments, toNotify, dropping>>
connVars   == <<attached, sd, sdKeys, sdSess>>
threadVars == <<pc, tgt, victims>>
vars == <<serverVars, sessVars, connVars, threadVars, told>>

LoopState == {"none", "start", "read", "exit", "notify", "done",
              "lost"}
PcState   == {"new", "accepted", "idle", "spawn", "core", "add",
              "attachAdd", "attachLock", "detachLock", "detachDrop", "write",
              "victims", "kill", "wait", "ret", "gone",
              "serving", "snapshot", "drop"}
SdState   == {"open", "closed", "keys", "detach", "dropKey", "end"}

\* The places where a thread holds a session in tgt.
OnSession == {"spawn", "core", "add", "attachAdd", "attachLock",
              "detachLock", "detachDrop", "write", "kill", "wait", "ret"}

Init ==
    /\ sessions = [k \in Key |-> NoSess]
    /\ conns = {}
    /\ closeConns = {}
    /\ loop = [s \in Sess |-> "none"]
    /\ coreSet = [s \in Sess |-> FALSE]
    /\ killed = [s \in Sess |-> FALSE]
    /\ attachments = [s \in Sess |-> {}]
    /\ toNotify = [s \in Sess |-> {}]
    /\ dropping = [s \in Sess |-> NoConn]
    /\ attached = [c \in Conn |-> {}]
    /\ sd = [c \in Conn |-> "open"]
    /\ sdKeys = [c \in Conn |-> {}]
    /\ sdSess = [c \in Conn |-> NoSess]
    /\ pc = [t \in Thread |-> IF t = Closer THEN "serving" ELSE "new"]
    /\ tgt = [t \in Thread |-> NoSess]
    /\ victims = [t \in Thread |-> {}]
    /\ told = [c \in Conn |-> {}]

(* Alive: the flag is set before readLoop is started and cleared by finish. *)
Alive(s) == loop[s] = "read"

\* The listener is open.
Listening == pc[Closer] = "serving"

Held(k)  == sessions[k] # NoSess
HeldLive(k) == Held(k) /\ Alive(sessions[k])
WithKey(k) == {s \in Sess : KeyOf[s] = k}
Registered == {s \in Sess : sessions[KeyOf[s]] = s}

\* A thread moves on within its handler, takes up a session, or is done with
\* it and goes back to a place where it has none in hand.
Goto(t, p) == pc' = [pc EXCEPT ![t] = p] /\ UNCHANGED tgt
Take(t, p, s) == pc' = [pc EXCEPT ![t] = p] /\ tgt' = [tgt EXCEPT ![t] = s]
Leave(t, p) == Take(t, p, NoSess)

-----------------------------------------------------------------------------
(* Accepting a connection. *)

\* Serve accepts a connection and builds its conn.
Accept(c) ==
    /\ Listening
    /\ pc[c] = "new"
    /\ Goto(c, "accepted")
    /\ UNCHANGED <<serverVars, sessVars, connVars, victims, told>>

\* Serve enters it in Server.conns and starts its reader and writer.
Register(c) ==
    /\ pc[c] = "accepted"
    /\ conns' = conns \cup {c}
    /\ Goto(c, "idle")
    /\ UNCHANGED <<sessions, closeConns, sessVars, connVars, victims, told>>

-----------------------------------------------------------------------------
(* new_session *)

\* No live session holds the id: newSession allocates the object.  When one
\* does, the handler only replies (ok or error) and nothing changes.
NewSession(c, s) ==
    /\ pc[c] = "idle"
    /\ loop[s] = "none"
    /\ ~HeldLive(KeyOf[s])
    /\ loop' = [loop EXCEPT ![s] = "start"]
    /\ Take(c, "spawn", s)
    /\ UNCHANGED <<serverVars, coreSet, killed, attachments, toNotify,
                   dropping, connVars, victims, told>>

\* ptysession.Start: the child runs, alive is set and readLoop is started.
Spawn(c) ==
    /\ pc[c] = "spawn"
    /\ loop' = [loop EXCEPT ![tgt[c]] = "read"]
    /\ Goto(c, "core")
    /\ UNCHANGED <<serverVars, coreSet, killed, attachments, toNotify,
                   dropping, connVars, victims, told>>

\* ptysession.Start fails (no such command): an error reply, the object is
\* garbage.
SpawnFails(c) ==
    /\ pc[c] = "spawn"
    /\ loop' = [loop EXCEPT ![tgt[c]] = "none"]
    /\ Leave(c, "idle")
    /\ UNCHANGED <<serverVars, coreSet, killed, attachments, toNotify,
                   dropping, connVars, victims, told>>

\* s.core = core, after Start has returned.
SetCore(c) ==
    /\ pc[c] = "core"
    /\ coreSet' = [coreSet EXCEPT ![tgt[c]] = TRUE]
    /\ Goto(c, "add")
    /\ UNCHANGED <<serverVars, loop, killed, attachments, toNotify,
                   dropping, connVars, victims, told>>

\* The session takes the id, in a map entry that may hold a dead one.
Enter(c) ==
    /\ sessions' = [sessions EXCEPT ![KeyOf[tgt[c]]] = tgt[c]]
    /\ Leave(c, "idle")
    /\ UNCHANGED <<conns, closeConns, sessVars, connVars, victims, told>>

\* Mutant: addSession overwrites whoever holds the id.
AddSessionOverwrites(c) == pc[c] = "add" /\ Enter(c)

\* addSession: no live session holds the id.
AddSession(c) == pc[c] = "add" /\ ~HeldLive(KeyOf[tgt[c]]) /\ Enter(c)

\* addSession: a live holder wins, and the loser will be killed.
LoseRace(c) ==
    /\ pc[c] = "add"
    /\ HeldLive(KeyOf[tgt[c]])
    /\ Goto(c, "kill")
    /\ UNCHANGED <<serverVars, sessVars, connVars, victims, told>>

-----------------------------------------------------------------------------
(* attach and detach *)

\* getSession and the `attached' reply.
AttachGet(c, k) ==
    /\ pc[c] = "idle"
    /\ Held(k)
    /\ told' = [told EXCEPT ![c] =
                   @ \cup {s \in Sess : s = sessions[k] /\ sd[c] = "open"}]
    /\ Take(c, "attachAdd", sessions[k])
    /\ UNCHANGED <<serverVars, sessVars, connVars, victims>>

\* c.addSession, under conn.mu.
AttachAdd(c) ==
    /\ pc[c] = "attachAdd"
    /\ attached' = [attached EXCEPT ![c] = @ \cup {KeyOf[tgt[c]]}]
    /\ Goto(c, "attachLock")
    /\ UNCHANGED <<serverVars, sessVars, sd, sdKeys, sdSess, victims, told>>

\* The locked region of attach: the connection joins the fan-out.
AttachLock(c) ==
    /\ pc[c] = "attachLock"
    /\ attachments' = [attachments EXCEPT ![tgt[c]] = @ \cup {c}]
    /\ Leave(c, "idle")
    /\ UNCHANGED <<serverVars, loop, coreSet, killed, toNotify, dropping,
                   connVars, victims, told>>

\* The client counts itself detached from the key, and the reader goes on to
\* detach it from what getSession returned.
DetachFrom(c, k) ==
    /\ told' = [told EXCEPT ![c] = @ \ WithKey(k)]
    /\ Take(c, "detachLock", sessions[k])
    /\ UNCHANGED <<serverVars, sessVars, connVars, victims>>

\* Mutant: the detach request does not check for a missing session.
DetachGetUnchecked(c, k) == pc[c] = "idle" /\ DetachFrom(c, k)

\* The detach request, when there is a session under the key.
DetachGet(c, k) == pc[c] = "idle" /\ Held(k) /\ DetachFrom(c, k)

\* ... or has none, and nothing else happens.
DetachNone(c, k) ==
    /\ pc[c] = "idle"
    /\ ~Held(k)
    /\ told' = [told EXCEPT ![c] = @ \ WithKey(k)]
    /\ UNCHANGED <<serverVars, sessVars, connVars, threadVars>>

\* The locked region of session.detach.
DetachLock(c) ==
    /\ pc[c] = "detachLock"
    /\ attachments' = [attachments EXCEPT ![tgt[c]] = @ \ {c}]
    /\ Goto(c, "detachDrop")
    /\ UNCHANGED <<serverVars, loop, coreSet, killed, toNotify, dropping,
                   connVars, victims, told>>

\* c.dropSession, under conn.mu.
DetachDrop(c) ==
    /\ pc[c] = "detachDrop"
    /\ attached' = [attached EXCEPT ![c] = @ \ {KeyOf[tgt[c]]}]
    /\ Leave(c, "idle")
    /\ UNCHANGED <<serverVars, sessVars, sd, sdKeys, sdSess, victims, told>>

-----------------------------------------------------------------------------
(* write_pane *)

\* handleWrite: the session is there and alive, and the reader goes into the
\* PTY's write.  Without one, or with a dead one, it replies an error.
Write(c, k) ==
    /\ pc[c] = "idle"
    /\ HeldLive(k)
    /\ Take(c, "write", sessions[k])
    /\ UNCHANGED <<serverVars, sessVars, connVars, victims, told>>

\* The child reads its input and the write returns, when it pleases.
WriteReturns(c) ==
    /\ pc[c] = "write"
    /\ Alive(tgt[c])
    /\ Leave(c, "idle")
    /\ UNCHANGED <<serverVars, sessVars, connVars, victims, told>>

\* The child is gone and the write fails.
WriteFails(c) ==
    /\ pc[c] = "write"
    /\ ~Alive(tgt[c])
    /\ Leave(c, "idle")
    /\ UNCHANGED <<serverVars, sessVars, connVars, victims, told>>

-----------------------------------------------------------------------------
(* Killing: kill, gc, the loser of a create race, and Close share the loop  *)
(* over `victims' and ptysession.Session.Kill.                              *)

\* handleKill: getSession, then Kill.
KillRequest(c, k) ==
    /\ pc[c] = "idle"
    /\ Held(k)
    /\ Take(c, "kill", sessions[k])
    /\ UNCHANGED <<serverVars, sessVars, connVars, victims, told>>

\* gc picks the idle sessions of a namespace under Server.mu: any subset.
GcRequest(c) ==
    /\ pc[c] = "idle"
    /\ \E V \in SUBSET Registered : victims' = [victims EXCEPT ![c] = V]
    /\ Goto(c, "victims")
    /\ UNCHANGED <<serverVars, sessVars, connVars, told>>

\* The loop over the victims (sessions outside any lock), and its end: the
\* reply of the request, or the return of Close.
NextVictim(t) ==
    /\ pc[t] = "victims"
    /\ \E s \in victims[t] :
         /\ Take(t, "kill", s)
         /\ victims' = [victims EXCEPT ![t] = @ \ {s}]
    /\ UNCHANGED <<serverVars, sessVars, connVars, told>>

VictimsDone(t) ==
    /\ pc[t] = "victims"
    /\ victims[t] = {}
    /\ Goto(t, IF t = Closer THEN "gone" ELSE "idle")
    /\ UNCHANGED <<serverVars, sessVars, connVars, victims, told>>

\* Kill returns without doing anything.
SkipKill(t) ==
    /\ Goto(t, "ret")
    /\ UNCHANGED <<serverVars, sessVars, connVars, victims, told>>

\* Mutant: it does so as soon as anybody has called Kill.
KillAgainTrustsFlag(t) == pc[t] = "kill" /\ killed[tgt[t]] /\ SkipKill(t)

\* Kill's early return: the session is dead and has been killed before.
KillAgain(t) ==
    pc[t] = "kill" /\ ~Alive(tgt[t]) /\ killed[tgt[t]] /\ SkipKill(t)

\* Kill: the flag, the PTY's close and SIGKILL.
Kill(t) ==
    /\ pc[t] = "kill"
    /\ Alive(tgt[t]) \/ ~killed[tgt[t]]
    /\ killed' = [killed EXCEPT ![tgt[t]] = TRUE]
    /\ Goto(t, "wait")
    /\ UNCHANGED <<serverVars, loop, coreSet, attachments, toNotify, dropping,
                   connVars, victims, told>>

\* wg.Wait: readLoop, with finish and onExit in it, has returned.
KillWaited(t) ==
    /\ pc[t] = "wait"
    /\ loop[tgt[t]] = "done"
    /\ Goto(t, "ret")
    /\ UNCHANGED <<serverVars, sessVars, connVars, victims, told>>

\* Kill has returned to its caller, which goes on with its next victim.
KillReturned(t) ==
    /\ pc[t] = "ret"
    /\ Leave(t, "victims")
    /\ UNCHANGED <<serverVars, sessVars, connVars, victims, told>>

-----------------------------------------------------------------------------
(* The end of a session: readLoop's finish and onExit. *)

\* The child is gone: finish reaps it and clears alive.
Finish(s) ==
    /\ loop[s] = "read"
    /\ loop' = [loop EXCEPT ![s] = "exit"]
    /\ UNCHANGED <<serverVars, coreSet, killed, attachments, toNotify,
                   dropping, connVars, threadVars, told>>

\* onExit reads session.core before newSession has assigned it: a nil
\* dereference.  The daemon dies, with every goroutine and every PTY.
OnExitNilCore(s) ==
    /\ loop[s] = "exit"
    /\ ~coreSet[s]
    /\ loop' = [x \in Sess |-> "lost"]
    /\ pc' = [t \in Thread |-> "gone"]
    /\ sd' = [c \in Conn |-> "end"]
    /\ sessions' = [k \in Key |-> NoSess]
    /\ dropping' = [x \in Sess |-> NoConn]
    /\ told' = [c \in Conn |-> {}]
    /\ UNCHANGED <<conns, closeConns, coreSet, killed, attachments, toNotify,
                   attached, sdKeys, sdSess, tgt, victims>>

\* The locked region of onExit: the list is made, the attachments forgotten.
TakeList(s, list) ==
    /\ loop[s] = "exit"
    /\ coreSet[s]
    /\ toNotify' = [toNotify EXCEPT ![s] = list]
    /\ attachments' = [attachments EXCEPT ![s] = {}]
    /\ loop' = [loop EXCEPT ![s] = "notify"]
    /\ UNCHANGED <<serverVars, coreSet, killed, dropping, connVars, threadVars,
                   told>>

\* Mutant: the attachments are forgotten before the list is made.
OnExitForgets(s) == TakeList(s, {})

OnExit(s) == TakeList(s, attachments[s])

\* onExit sends exit and session_closed to one connection.  The frame names
\* the key, so the client takes it for every session it had under that key.
Tell(s, c, rest) ==
    /\ loop[s] = "notify"
    /\ dropping[s] = NoConn
    /\ c \in toNotify[s]
    /\ toNotify' = [toNotify EXCEPT ![s] = rest]
    /\ dropping' = [dropping EXCEPT ![s] = c]
    /\ told' = [told EXCEPT ![c] = @ \ WithKey(KeyOf[s])]
    /\ UNCHANGED <<serverVars, loop, coreSet, killed, attachments, connVars,
                   threadVars>>

\* Mutant: a send blocks once the connection is shut down.
OnExitTellBlocks(s, c) == sd[c] = "open" /\ Tell(s, c, toNotify[s] \ {c})

OnExitTell(s, c) == Tell(s, c, toNotify[s] \ {c})

\* ... and drops the key from that connection's set.
OnExitDrop(s) ==
    /\ dropping[s] # NoConn
    /\ attached' = [attached EXCEPT ![dropping[s]] = @ \ {KeyOf[s]}]
    /\ dropping' = [dropping EXCEPT ![s] = NoConn]
    /\ UNCHANGED <<serverVars, loop, coreSet, killed, attachments, toNotify,
                   sd, sdKeys, sdSess, threadVars, told>>

\* onExit has told everybody: the registry entry is settled and readLoop
\* returns.
EndLoop(s, entry) ==
    /\ loop[s] = "notify"
    /\ toNotify[s] = {} /\ dropping[s] = NoConn
    /\ sessions' = [sessions EXCEPT ![KeyOf[s]] = entry]
    /\ loop' = [loop EXCEPT ![s] = "done"]
    /\ UNCHANGED <<conns, closeConns, coreSet, killed, attachments, toNotify,
                   dropping, connVars, threadVars, told>>

\* Mutant: removeSession deletes by id, whoever holds it now.
RemoveSessionBlindly(s) == EndLoop(s, NoSess)

\* removeSession, only when the id still maps to this session.
RemoveSession(s) ==
    EndLoop(s, IF sessions[KeyOf[s]] = s THEN NoSess ELSE sessions[KeyOf[s]])

-----------------------------------------------------------------------------
(* conn.shutdown *)

\* The first caller closes done and the socket: the reader at end of file,
\* the writer on an error, a send that found the queue full, or Close.
ShutdownBegin(c) ==
    /\ c \in conns
    /\ sd[c] = "open"
    /\ sd' = [sd EXCEPT ![c] = "closed"]
    /\ told' = [told EXCEPT ![c] = {}]
    /\ UNCHANGED <<serverVars, sessVars, attached, sdKeys, sdSess, threadVars>>

\* It copies conn.attached under conn.mu.
ShutdownKeys(c) ==
    /\ sd[c] = "closed"
    /\ sdKeys' = [sdKeys EXCEPT ![c] = attached[c]]
    /\ sd' = [sd EXCEPT ![c] = "keys"]
    /\ UNCHANGED <<serverVars, sessVars, attached, sdSess, threadVars, told>>

\* getSession for one of the keys has a session, or has none any more.
ShutdownGet(c, k) ==
    /\ sd[c] = "keys"
    /\ k \in sdKeys[c]
    /\ Held(k)
    /\ sdKeys' = [sdKeys EXCEPT ![c] = @ \ {k}]
    /\ sdSess' = [sdSess EXCEPT ![c] = sessions[k]]
    /\ sd' = [sd EXCEPT ![c] = "detach"]
    /\ UNCHANGED <<serverVars, sessVars, attached, threadVars, told>>

ShutdownSkip(c, k) ==
    /\ sd[c] = "keys"
    /\ k \in sdKeys[c]
    /\ ~Held(k)
    /\ sdKeys' = [sdKeys EXCEPT ![c] = @ \ {k}]
    /\ UNCHANGED <<serverVars, sessVars, attached, sd, sdSess, threadVars,
                   told>>

\* session.detach: its locked region, then c.dropSession.
ShutdownDetach(c) ==
    /\ sd[c] = "detach"
    /\ attachments' = [attachments EXCEPT ![sdSess[c]] = @ \ {c}]
    /\ sd' = [sd EXCEPT ![c] = "dropKey"]
    /\ UNCHANGED <<serverVars, loop, coreSet, killed, toNotify, dropping,
                   attached, sdKeys, sdSess, threadVars, told>>

ShutdownDrop(c) ==
    /\ sd[c] = "dropKey"
    /\ attached' = [attached EXCEPT ![c] = @ \ {KeyOf[sdSess[c]]}]
    /\ sd' = [sd EXCEPT ![c] = "keys"]
    /\ sdSess' = [sdSess EXCEPT ![c] = NoSess]
    /\ UNCHANGED <<serverVars, sessVars, sdKeys, threadVars, told>>

ShutdownEnd(c) ==
    /\ sd[c] = "keys"
    /\ sdKeys[c] = {}
    /\ sd' = [sd EXCEPT ![c] = "end"]
    /\ UNCHANGED <<serverVars, sessVars, attached, sdKeys, sdSess,
                   threadVars, told>>

\* The reader fails to decode, its shutdown call returns once the shutdown
\* has ended, run returns and the connection leaves Server.conns.  Requests
\* already in the decoder's buffer may still be handled before.
ReaderExit(c) ==
    /\ pc[c] = "idle"
    /\ sd[c] = "end"
    /\ conns' = conns \ {c}
    /\ Goto(c, "gone")
    /\ UNCHANGED <<sessions, closeConns, sessVars, connVars, victims, told>>

-----------------------------------------------------------------------------
(* Server.Close *)

\* The listener is closed.
CloseListener ==
    /\ MayClose
    /\ pc[Closer] = "serving"
    /\ Goto(Closer, "snapshot")
    /\ UNCHANGED <<sessions, conns, closeConns, sessVars, connVars,
                   victims, told>>

\* The connections and the sessions are copied under Server.mu.
CloseSnapshot ==
    /\ pc[Closer] = "snapshot"
    /\ closeConns' = conns
    /\ victims' = [victims EXCEPT ![Closer] = Registered]
    /\ Goto(Closer, "drop")
    /\ UNCHANGED <<sessions, conns, sessVars, connVars, told>>

\* Close calls c.shutdown, which begins it or waits for whoever has.
CloseShuts(c) ==
    /\ pc[Closer] = "drop"
    /\ c \in closeConns
    /\ ShutdownBegin(c)

\* That call has returned.
CloseDropped(c) ==
    /\ pc[Closer] = "drop"
    /\ c \in closeConns
    /\ sd[c] = "end"
    /\ closeConns' = closeConns \ {c}
    /\ UNCHANGED <<sessions, conns, sessVars, connVars, threadVars, told>>

\* All connections are dropped: go on to the sessions.
CloseKills ==
    /\ pc[Closer] = "drop"
    /\ closeConns = {}
    /\ Goto(Closer, "victims")
    /\ UNCHANGED <<serverVars, sessVars, connVars, victims, told>>

-----------------------------------------------------------------------------
(* What the client of a connection asks for. *)
Request(c) ==
    \/ "new" \in Asks[c] /\ \E s \in Sess : NewSession(c, s)
    \/ "attach" \in Asks[c] /\ \E k \in Key : AttachGet(c, k)
    \/ "detach" \in Asks[c] /\ \E k \in Key : DetachGet(c, k) \/ DetachNone(c, k)
    \/ "write" \in Asks[c] /\ \E k \in Key : Write(c, k)
    \/ "kill" \in Asks[c] /\ \E k \in Key : KillRequest(c, k)
    \/ "gc" \in Asks[c] /\ GcRequest(c)
    \/ "hangup" \in Asks[c] /\ ShutdownBegin(c)

(* The steps of its handlers that need nobody else. *)
Handler(c) ==
    \/ Spawn(c) \/ SpawnFails(c) \/ SetCore(c) \/ AddSession(c) \/ LoseRace(c)
    \/ AttachAdd(c) \/ AttachLock(c)
    \/ DetachLock(c) \/ DetachDrop(c)
    \/ WriteFails(c)

Killing(t) ==
    \/ NextVictim(t) \/ VictimsDone(t) \/ KillAgain(t) \/ Kill(t)
    \/ KillWaited(t) \/ KillReturned(t)

Exiting(s) ==
    \/ OnExitNilCore(s) \/ OnExit(s)
    \/ \E c \in Conn : OnExitTell(s, c)
    \/ OnExitDrop(s) \/ RemoveSession(s)

Shutdown(c) ==
    \/ ShutdownKeys(c)
    \/ \E k \in Key : ShutdownGet(c, k) \/ ShutdownSkip(c, k)
    \/ ShutdownDetach(c) \/ ShutdownDrop(c) \/ ShutdownEnd(c)

Close ==
    \/ CloseSnapshot
    \/ \E c \in Conn : CloseShuts(c) \/ CloseDropped(c)
    \/ CloseKills

Next ==
    \/ \E c \in Conn : \/ Accept(c) \/ Register(c) \/ Request(c) \/ Handler(c)
                       \/ WriteReturns(c) \/ Shutdown(c) \/ ReaderExit(c)
    \/ \E t \in Thread : Killing(t)
    \/ \E s \in Sess : Finish(s) \/ Exiting(s)
    \/ CloseListener \/ Close

(***************************************************************************)
(* Goroutines are scheduled fairly, so every step a goroutine can take on  *)
(* its own is weakly fair.  Clients, children that exit by themselves and  *)
(* the call of Close are free not to act, and a child is free not to read  *)
(* its input; a killed child does die, and a write to it returns.  The     *)
(* requests left in a dead connection's buffer are finitely many, so its   *)
(* reader, back at Decode again and again, does leave: strong fairness.    *)
(***************************************************************************)
Fairness ==
    /\ \A c \in Conn :
         /\ WF_vars(Register(c))
         /\ WF_vars(Handler(c))
         /\ WF_vars(Shutdown(c))
         /\ SF_vars(ReaderExit(c))
    /\ \A t \in Thread : WF_vars(Killing(t))
    /\ \A s \in Sess :
         /\ WF_vars(killed[s] /\ Finish(s))
         /\ WF_vars(Exiting(s))
    /\ WF_vars(Close)

Spec == Init /\ [][Next]_vars

FairSpec == Spec /\ Fairness

-----------------------------------------------------------------------------
(* Properties *)

\* Types.  A registry entry is under its session's own key (addSession and
\* removeSession agree on it), and a thread that works on a session has one:
\* every handler has checked getSession's result for nil.
TypeOK ==
    /\ sessions \in [Key -> Sess \cup {NoSess}]
    /\ \A k \in Key : Held(k) => KeyOf[sessions[k]] = k
    /\ conns \subseteq Conn
    /\ closeConns \subseteq Conn
    /\ loop \in [Sess -> LoopState]
    /\ coreSet \in [Sess -> BOOLEAN]
    /\ killed \in [Sess -> BOOLEAN]
    /\ attachments \in [Sess -> SUBSET Conn]
    /\ toNotify \in [Sess -> SUBSET Conn]
    /\ dropping \in [Sess -> Conn \cup {NoConn}]
    /\ attached \in [Conn -> SUBSET Key]
    /\ sd \in [Conn -> SdState]
    /\ sdKeys \in [Conn -> SUBSET Key]
    /\ sdSess \in [Conn -> Sess \cup {NoSess}]
    /\ \A c \in Conn : sd[c] \in {"detach", "dropKey"} => sdSess[c] \in Sess
    /\ pc \in [Thread -> PcState]
    /\ tgt \in [Thread -> Sess \cup {NoSess}]
    /\ \A t \in Thread : pc[t] \in OnSession => tgt[t] \in Sess
    /\ victims \in [Thread -> SUBSET Sess]
    /\ told \in [Conn -> SUBSET Sess]

\* The strengthening the proofs need.  A session object whose child is not
\* running yet is in the hands of the one handler that is starting it; a
\* session that is registered, or that somebody has found to kill, or has just
\* spawned, has been started.
Started(s) == loop[s] \notin {"none", "start"}

SessionsStarted ==
    /\ \A t \in Thread : pc[t] = "spawn" => loop[tgt[t]] = "start"
    /\ \A t, u \in Thread :
         pc[t] = "spawn" /\ pc[u] = "spawn" /\ tgt[t] = tgt[u] => t = u
    /\ \A t \in Thread :
         /\ pc[t] \in {"core", "add", "kill", "wait", "ret"} => Started(tgt[t])
         /\ \A s \in victims[t] : Started(s)
    /\ \A s \in Registered : Started(s)

\* No live PTY is orphaned: a session that is alive and that nobody has
\* killed is in the registry under its id, or the handler that spawned it
\* still has it in hand, to register or to kill.  addSession's live-holder
\* check and the kill of a create race's loser are there for this.
NoOrphan ==
    \A s \in Sess :
        Alive(s) /\ ~killed[s] =>
            \/ sessions[KeyOf[s]] = s
            \/ \E t \in Thread : tgt[t] = s /\ pc[t] \in {"core", "add", "kill"}

\* When Kill returns to its caller (a kill or gc request about to be answered,
\* a create race's loser, Close) the child is dead, also when another
\* goroutine is killing the same session.
KilledIsDead ==
    \A t \in Thread : pc[t] = "ret" => ~Alive(tgt[t])

\* A client that was told `attached' and not yet `session_closed', and that
\* is still connected, is never forgotten: the session fans out to it, or
\* onExit has it on the list it is telling, or its own attach is under way.
ToldIsTracked ==
    \A c \in Conn : \A s \in told[c] :
        \/ c \in attachments[s] \cup toNotify[s]
        \/ pc[c] \in {"attachAdd", "attachLock"} /\ tgt[c] = s

\* The registry as a lease on ids: one live holder at most, given up only by
\* its death (see KeyLease).
Lease == INSTANCE KeyLease WITH
    holder <- [k \in Key |-> IF HeldLive(k) THEN sessions[k] ELSE NoSess],
    ended  <- {s \in Sess : loop[s] \in {"exit", "notify", "done", "lost"}}

LeaseSpec == Lease!Spec

\* Kill returns: what it waits for (the child's death, finish, the frames of
\* onExit and the registry) never waits for a client or for another kill.
KillReturns ==
    \A t \in Thread : pc[t] \in {"kill", "wait"} ~> pc[t] \in {"ret", "gone"}

\* A client that is in the fan-out when the child dies is told session_closed
\* (or asks to be detached, or loses its connection).
ExitDelivered ==
    \A c \in Conn, s \in Sess :
        (loop[s] = "exit" /\ s \in told[c] /\ c \in attachments[s])
            ~> s \notin told[c]

\* A connection that is shut down leaves Server.conns, whatever handler its
\* reader was in, unless that is a write to a live child that does not read.
ConnLeaves ==
    \A c \in Conn :
        sd[c] # "open" ~> \/ pc[c] = "gone"
                          \/ pc[c] = "write" /\ Alive(tgt[c])

\* Close, once called, returns.
CloseReturns == pc[Closer] = "snapshot" ~> pc[Closer] = "gone"

-----------------------------------------------------------------------------
(* What the comments and PROTOCOL.md say and the code does not do. *)

\* PROTOCOL.md:73, session.go:110: a session whose end has been handled is
\* not in the registry any more.
ExitedLeaves ==
    \A s \in Sess : loop[s] = "done" => sessions[KeyOf[s]] # s

\* server.go:447: once a connection is gone, no session counts it attached.
DisconnectDetaches ==
    \A c \in Conn : pc[c] = "gone" =>
        \A s \in Registered : Alive(s) => c \notin attachments[s]

\* ptysession/session.go:492: Kill waits for the read loop to drain.
KillDrains ==
    \A t \in Thread : pc[t] = "ret" => loop[tgt[t]] = "done"

\* server/session.go:110: a client that is attached when the session's end
\* has been handled has been told.
ExitReachesAttached ==
    \A c \in Conn, s \in Sess :
        loop[s] = "done" /\ s \in told[c] =>
            pc[c] \in {"attachAdd", "attachLock"}
=============================================================================
