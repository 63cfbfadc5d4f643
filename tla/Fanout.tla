------------------------------- MODULE Fanout -------------------------------
(***************************************************************************)
(* The output of one session on its way to its clients: readLoop, the      *)
(* session's lock, attach with its scrollback replay, the bounded queue of *)
(* each connection and of each raw subscriber, their writers, and the drop *)
(* of a client that does not keep up (internal/server/session.go, raw.go,  *)
(* and send and shutdown in server.go).                                    *)
(*                                                                         *)
(* The output is the stream of pieces 1, 2, 3, ...; `last' is the newest   *)
(* one in the ring, which keeps the newest RingMax.  A piece stands for    *)
(* one chunk of a PTY read and for one frame of a replay.                  *)
(*                                                                         *)
(* A region under the session's lock is one action, except attach's: it    *)
(* sends frame after frame while the writer of that connection drains the  *)
(* queue, so it holds `mu' from one send to the next.                      *)
(***************************************************************************)
EXTENDS Integers, Sequences

CONSTANTS
    Conn,       \* connections
    Raw,        \* raw subscribers
    RingMax,    \* pieces the ring keeps
    OutCap,     \* outboundQueue, in frames
    RawCap,     \* rawQueue, in chunks
    MaxOut,     \* bound on the pieces the child writes
    NoConn      \* no connection

ASSUME RingMaxAssumption == RingMax \in Nat \ {0}
ASSUME CapAssumption == OutCap \in Nat \ {0} /\ RawCap \in Nat \ {0}
ASSUME MaxOutAssumption == MaxOut \in Nat
ASSUME NoConnAssumption == NoConn \notin Conn

VARIABLES
    \* ptysession.Session
    last,        \* the newest piece in the ring
    mu,          \* the connection whose attach holds the lock
    loop,        \* where readLoop is
    \* session
    attachments, \* the connections in session.attachments
    rawSubs,     \* the subscribers in session.rawSubs
    next,        \* the piece the attach that holds the lock sends next
    toTell,      \* onExit's `conns', those it has still to tell
    telling,     \* the one it has sent exit and not yet session_closed
    toEnd,       \* onExit's `raws', those it has still to shut down
    \* conn
    pc,          \* the reader: idle, or inside attach
    keyed,       \* conn.attached has the session
    sd,          \* where conn.shutdown is
    sent,        \* the output and scrollback_end queued since the latest
                 \* attach got the lock
    pending,     \* how many frames of any kind the queue still holds
    \* rawConn
    rpc,         \* where handleRawConn is
    rsd,         \* its shutdown
    rawSent,     \* the chunks queued so far, as pairs (first, last piece)
    rawPending   \* how many of them the queue still holds

ptyVars  == <<last, mu, loop>>
sessVars == <<attachments, rawSubs, next, toTell, telling, toEnd>>
queues   == <<sd, sent, pending>>
connVars == <<pc, keyed, queues>>
rawQs    == <<rsd, rawSent, rawPending>>
rawVars  == <<rpc, rawQs>>
vars == <<ptyVars, sessVars, connVars, rawVars>>

\* In `sent', scrollback_end among the pieces of output.
ScrollbackEndMark == 0

Init ==
    /\ last = 0 /\ mu = NoConn /\ loop = "read"
    /\ attachments = {} /\ rawSubs = {} /\ next = 0
    /\ toTell = {} /\ telling = NoConn /\ toEnd = {}
    /\ pc = [c \in Conn |-> "idle"]
    /\ keyed = [c \in Conn |-> FALSE]
    /\ sd = [c \in Conn |-> "open"]
    /\ sent = [c \in Conn |-> <<>>]
    /\ pending = [c \in Conn |-> 0]
    /\ rpc = [r \in Raw |-> "new"]
    /\ rsd = [r \in Raw |-> "open"]
    /\ rawSent = [r \in Raw |-> <<>>]
    /\ rawPending = [r \in Raw |-> 0]

Free == mu = NoConn

\* getSession still finds the session: removeSession comes last.
InRegistry == loop # "done"

\* The oldest piece of a ring whose newest is n.
Oldest(n) == IF n > RingMax THEN n - RingMax + 1 ELSE 1

\* `done' is not closed.
Up(c) == sd[c] \in {"open", "asked"}

(* conn.send and rawConn.enqueue, for all of a set of clients: queued when  *)
(* there is room; when there is none the piece is lost and a goroutine is   *)
(* started that shuts the client down.  After `done' is closed the writer   *)
(* has left, and whether a frame still enters the queue makes no difference.*)
Queue(cap, C) ==
    /\ pending' = [c \in Conn |->
                     IF c \in C /\ Up(c) /\ pending[c] < cap
                     THEN pending[c] + 1 ELSE pending[c]]
    /\ sd' = [c \in Conn |->
                IF c \in C /\ sd[c] = "open" /\ pending[c] >= cap
                THEN "asked" ELSE sd[c]]

\* Mutant: one frame too many.
SendOneMore(C) == Queue(OutCap + 1, C)

\* A reply or a notice ...
Send(C) == Queue(OutCap, C)

\* ... and a piece of the stream.
SendPiece(C, piece) ==
    /\ Send(C)
    /\ sent' = [c \in Conn |->
                  IF c \in C /\ Up(c) /\ pending[c] < OutCap
                  THEN Append(sent[c], piece) ELSE sent[c]]

Enqueue(R, chunk) ==
    /\ rawSent' = [r \in Raw |->
                     IF r \in R /\ rsd[r] # "closed" /\ rawPending[r] < RawCap
                     THEN Append(rawSent[r], chunk) ELSE rawSent[r]]
    /\ rawPending' = [r \in Raw |->
                        IF r \in R /\ rsd[r] # "closed" /\ rawPending[r] < RawCap
                        THEN rawPending[r] + 1 ELSE rawPending[r]]
    /\ rsd' = [r \in Raw |->
                 IF r \in R /\ rsd[r] = "open" /\ rawPending[r] >= RawCap
                 THEN "asked" ELSE rsd[r]]

(* rawConn.shutdown closes the socket; what the queue holds is lost.        *)
CloseRaw(r) ==
    /\ rsd' = [rsd EXCEPT ![r] = "closed"]
    /\ rawSent' = [rawSent EXCEPT ![r] = <<>>]
    /\ rawPending' = [rawPending EXCEPT ![r] = 0]

-----------------------------------------------------------------------------
(* readLoop *)

\* pty.Read returns a chunk.
Read ==
    /\ loop = "read"
    /\ last < MaxOut
    /\ loop' = "chunk"
    /\ UNCHANGED <<last, mu, sessVars, connVars, rawVars>>

\* Under the lock: ring.append and onOutput.
Emit ==
    /\ loop = "chunk"
    /\ last' = last + 1
    /\ SendPiece(attachments, last + 1)
    /\ Enqueue(rawSubs, <<last + 1, last + 1>>)
    /\ loop' = "read"
    /\ UNCHANGED <<mu, sessVars, pc, keyed, rpc>>

\* Mutants: onOutput runs outside the lock; a full queue makes it wait.
OnOutputUnlocked == Emit
OnOutputBlocks == Free /\ (\A c \in attachments : pending[c] < OutCap) /\ Emit

OnOutput == Free /\ Emit

\* pty.Read fails, for the child is gone or the PTY closed: finish.
Finish ==
    /\ loop = "read"
    /\ loop' = "exit"
    /\ UNCHANGED <<last, mu, sessVars, connVars, rawVars>>

\* The locked region of onExit.
TakeLists(raws) ==
    /\ loop = "exit" /\ Free
    /\ toTell' = attachments /\ attachments' = {}
    /\ toEnd' = raws /\ rawSubs' = {}
    /\ loop' = "tell"
    /\ UNCHANGED <<last, mu, next, telling, connVars, rawVars>>

\* Mutant: the raw subscribers are forgotten.
OnExitForgetsRaws == TakeLists({})

OnExit == TakeLists(rawSubs)

\* onExit tells a connection: exit, unless Kill has been called by now ...
TellExit(c) ==
    /\ telling = NoConn
    /\ c \in toTell
    /\ telling' = c
    /\ (Send({c}) /\ UNCHANGED sent) \/ UNCHANGED queues
    /\ UNCHANGED <<ptyVars, attachments, rawSubs, next, toTell, toEnd,
                   pc, keyed, rawVars>>

\* ... and session_closed, and conn.dropSession.
TellClosed(c) ==
    /\ telling = c
    /\ Send({c}) /\ UNCHANGED sent
    /\ keyed' = [keyed EXCEPT ![c] = FALSE]
    /\ toTell' = toTell \ {c}
    /\ telling' = NoConn
    /\ UNCHANGED <<ptyVars, attachments, rawSubs, next, toEnd, pc, rawVars>>

\* Then it shuts the raw subscribers down: end of file is their signal.
EndRaw(r) ==
    /\ toTell = {}
    /\ r \in toEnd
    /\ CloseRaw(r)
    /\ toEnd' = toEnd \ {r}
    /\ UNCHANGED <<ptyVars, attachments, rawSubs, next, toTell, telling,
                   connVars, rpc>>

\* removeSession.
RemoveSession ==
    /\ loop = "tell"
    /\ toTell = {} /\ toEnd = {}
    /\ loop' = "done"
    /\ UNCHANGED <<last, mu, sessVars, connVars, rawVars>>

-----------------------------------------------------------------------------
(* attach and detach.  A client may attach again without detaching first.  *)

\* getSession, the reply, conn.addSession.
AttachRequest(c) ==
    /\ pc[c] = "idle"
    /\ InRegistry
    /\ Send({c}) /\ UNCHANGED sent
    /\ keyed' = [keyed EXCEPT ![c] = TRUE]
    /\ pc' = [pc EXCEPT ![c] = "attach"]
    /\ UNCHANGED <<ptyVars, sessVars, rawVars>>

\* The locked region starts: from here on the connection gets live output.
Attach(c) ==
    /\ pc[c] = "attach"
    /\ Free
    /\ mu' = c
    /\ attachments' = attachments \cup {c}
    /\ next' = Oldest(last)
    /\ sent' = [sent EXCEPT ![c] = <<>>]
    /\ UNCHANGED <<last, loop, rawSubs, toTell, telling, toEnd,
                   pc, keyed, sd, pending, rawVars>>

\* The replay, frame by frame, and its end.
Replay(c) ==
    /\ mu = c
    /\ next <= last
    /\ SendPiece({c}, next)
    /\ next' = next + 1
    /\ UNCHANGED <<ptyVars, attachments, rawSubs, toTell, telling, toEnd,
                   pc, keyed, rawVars>>

FinishReplay(c, holder) ==
    /\ mu = c
    /\ next > last
    /\ SendPiece({c}, ScrollbackEndMark)
    /\ mu' = holder
    /\ pc' = [pc EXCEPT ![c] = "idle"]
    /\ next' = 0
    /\ UNCHANGED <<last, loop, attachments, rawSubs, toTell, telling,
                   toEnd, keyed, rawVars>>

\* Mutant: the lock is not released.
ScrollbackEndKeepsLock(c) == FinishReplay(c, c)

ScrollbackEnd(c) == FinishReplay(c, NoConn)

\* The detach request.
Detach(c) ==
    /\ pc[c] = "idle"
    /\ InRegistry /\ Free
    /\ attachments' = attachments \ {c}
    /\ keyed' = [keyed EXCEPT ![c] = FALSE]
    /\ UNCHANGED <<ptyVars, rawSubs, next, toTell, telling, toEnd,
                   pc, queues, rawVars>>

-----------------------------------------------------------------------------
(* The writer of a connection and its shutdown. *)

\* writeLoop writes a frame: the client has it.
Deliver(c) ==
    /\ Up(c)
    /\ pending[c] > 0
    /\ pending' = [pending EXCEPT ![c] = @ - 1]
    /\ UNCHANGED <<ptyVars, sessVars, pc, keyed, sd, sent, rawVars>>

\* shutdown: by the goroutine a full queue has started, or because the client
\* hangs up.  What the queue holds reaches nobody any more.
ShutdownBegin(c) ==
    /\ Up(c)
    /\ sd' = [sd EXCEPT ![c] = "closed"]
    /\ sent' = [sent EXCEPT ![c] = <<>>]
    /\ pending' = [pending EXCEPT ![c] = 0]
    /\ UNCHANGED <<ptyVars, sessVars, pc, keyed, rawVars>>

\* It looks whether the connection is attached to the session ...
ShutdownKeys(c) ==
    /\ sd[c] = "closed"
    /\ sd' = [sd EXCEPT ![c] =
                 IF keyed[c] /\ InRegistry THEN "detach" ELSE "end"]
    /\ UNCHANGED <<ptyVars, sessVars, pc, keyed, sent, pending, rawVars>>

\* ... and detaches it, under the lock.
ShutdownDetach(c) ==
    /\ sd[c] = "detach"
    /\ Free
    /\ attachments' = attachments \ {c}
    /\ keyed' = [keyed EXCEPT ![c] = FALSE]
    /\ sd' = [sd EXCEPT ![c] = "end"]
    /\ UNCHANGED <<ptyVars, rawSubs, next, toTell, telling, toEnd,
                   pc, sent, pending, rawVars>>

-----------------------------------------------------------------------------
(* Raw subscribers. *)

\* The handshake finds the session, OK is written, the writer runs.
RawHandshake(r) ==
    /\ rpc[r] = "new"
    /\ InRegistry
    /\ rpc' = [rpc EXCEPT ![r] = "attach"]
    /\ UNCHANGED <<ptyVars, sessVars, connVars, rawQs>>

\* attachRaw: the snapshot is one chunk.
Subscribe(r, oldest) ==
    /\ rpc[r] = "attach"
    /\ Free
    /\ rawSubs' = rawSubs \cup {r}
    /\ IF last = 0 THEN UNCHANGED rawQs ELSE Enqueue({r}, <<oldest, last>>)
    /\ rpc' = [rpc EXCEPT ![r] = "read"]
    /\ UNCHANGED <<ptyVars, attachments, next, toTell, telling, toEnd,
                   connVars>>

\* Mutant: the replay is the latest chunk only.
AttachRawNewest(r) == Subscribe(r, last)

AttachRaw(r) == Subscribe(r, Oldest(last))

\* The input side reads end of file: the client's, or that of the shutdown.
RawEof(r) ==
    /\ rpc[r] = "read"
    /\ rpc' = [rpc EXCEPT ![r] = "detach"]
    /\ UNCHANGED <<ptyVars, sessVars, connVars, rawQs>>

DetachRaw(r) ==
    /\ rpc[r] = "detach"
    /\ Free
    /\ rawSubs' = rawSubs \ {r}
    /\ rpc' = [rpc EXCEPT ![r] = "close"]
    /\ UNCHANGED <<ptyVars, attachments, next, toTell, telling, toEnd,
                   connVars, rawQs>>

\* rawConn.shutdown: by handleRawConn at its end, by the goroutine a full
\* queue has started, or by the writer when the client is gone.
RawShutdown(r) ==
    /\ rpc[r] # "new"
    /\ rsd[r] # "closed"
    /\ CloseRaw(r)
    /\ UNCHANGED <<ptyVars, sessVars, connVars, rpc>>

RawDeliver(r) ==
    /\ rsd[r] # "closed"
    /\ rawPending[r] > 0
    /\ rawPending' = [rawPending EXCEPT ![r] = @ - 1]
    /\ UNCHANGED <<ptyVars, sessVars, connVars, rpc, rsd, rawSent>>

-----------------------------------------------------------------------------
Exiting ==
    \/ OnExit
    \/ \E c \in Conn : TellExit(c) \/ TellClosed(c)
    \/ \E r \in Raw : EndRaw(r)
    \/ RemoveSession

Holding(c) == Replay(c) \/ ScrollbackEnd(c)

Shutdown(c) == ShutdownKeys(c) \/ ShutdownDetach(c)

Next ==
    \/ Read \/ OnOutput \/ Finish \/ Exiting
    \/ \E c \in Conn :
         \/ AttachRequest(c) \/ Attach(c) \/ Holding(c) \/ Detach(c)
         \/ Deliver(c) \/ ShutdownBegin(c) \/ Shutdown(c)
    \/ \E r \in Raw :
         \/ RawHandshake(r) \/ AttachRaw(r) \/ RawEof(r) \/ DetachRaw(r)
         \/ RawShutdown(r) \/ RawDeliver(r)

(***************************************************************************)
(* Goroutines run.  sync.Mutex hands a waiter the lock after a millisecond *)
(* at most, so a region under the lock is strongly fair.  Nothing is fair  *)
(* that depends on a client: writers may be stuck in a write for ever.     *)
(***************************************************************************)
Fairness ==
    /\ SF_vars(OnOutput)
    /\ SF_vars(OnExit)
    /\ WF_vars(Exiting)
    /\ \A c \in Conn :
         /\ WF_vars(Holding(c))
         /\ SF_vars(Attach(c))
         /\ WF_vars(sd[c] = "asked" /\ ShutdownBegin(c))
         /\ WF_vars(ShutdownKeys(c))
         /\ SF_vars(ShutdownDetach(c))

Spec == Init /\ [][Next]_vars

FairSpec == Spec /\ Fairness

-----------------------------------------------------------------------------
(* Properties *)

TypePty ==
    /\ last \in 0..MaxOut
    /\ mu \in Conn \cup {NoConn}
    /\ loop \in {"read", "chunk", "exit", "tell", "done"}
    /\ loop = "chunk" => last < MaxOut

TypeSess ==
    /\ attachments \subseteq Conn
    /\ rawSubs \subseteq Raw
    /\ next \in Nat
    /\ toTell \subseteq Conn
    /\ telling \in toTell \cup {NoConn}
    /\ toEnd \subseteq Raw
    /\ loop # "tell" => toTell = {} /\ toEnd = {}

TypeConn ==
    /\ pc \in [Conn -> {"idle", "attach"}]
    /\ keyed \in [Conn -> BOOLEAN]
    /\ sd \in [Conn -> {"open", "asked", "closed", "detach", "end"}]
    /\ sent \in [Conn -> Seq(Nat)]
    /\ pending \in [Conn -> 0..OutCap]

TypeRaw ==
    /\ rpc \in [Raw -> {"new", "attach", "read", "detach", "close"}]
    /\ rsd \in [Raw -> {"open", "asked", "closed"}]
    /\ rawSent \in [Raw -> Seq(Nat \X Nat)]
    /\ rawPending \in [Raw -> 0..RawCap]

TypeOK == TypePty /\ TypeSess /\ TypeConn /\ TypeRaw

\* The replay of a ring whose newest piece is a, and the live output up to b.
Stream(a, b) ==
    LET replay == a - Oldest(a) + 1
    IN [i \in 1 .. b - Oldest(a) + 2 |->
           IF i <= replay THEN Oldest(a) + i - 1
           ELSE IF i = replay + 1 THEN ScrollbackEndMark
           ELSE Oldest(a) + i - 2]

\* The snapshot of a ring, if it has anything, and every later chunk.
RawStream(a, b) ==
    IF a = 0 THEN [i \in 1 .. b |-> <<i, i>>]
    ELSE [i \in 1 .. b - a + 1 |->
             IF i = 1 THEN <<Oldest(a), a>> ELSE <<a + i - 1, a + i - 1>>]

\* Every piece exactly once and in order, the scrollback first and
\* scrollback_end exactly between it and the live output, for a connection
\* that is in the fan-out or is about to be told of the exit, as long as its
\* queue has not overflowed: what attach and onOutput do under one lock is
\* for this (session.go:165-168).
StreamExact ==
    \A c \in attachments \cup toTell :
        sd[c] = "open" /\ mu # c => \E a \in 0..last : sent[c] = Stream(a, last)

\* The same for a raw subscriber.
RawExact ==
    \A r \in rawSubs \cup toEnd :
        rsd[r] = "open" => \E a \in 0..last : rawSent[r] = RawStream(a, last)

\* A raw subscriber whose connection is up is never forgotten: it is in the
\* fan-out, or onExit is about to give it end of file.
RawTracked ==
    \A r \in Raw :
        rpc[r] = "read" /\ rsd[r] = "open" => r \in rawSubs \cup toEnd

\* The PTY never waits for a client: a chunk that was read is appended and
\* fanned out, whatever the writers do.
OutputFlows == loop = "chunk" ~> loop = "read"

\* A client whose queue overflowed is shut down and detached, although the
\* overflow was met under the lock that the detach takes.
DropCompletes == \A c \in Conn : sd[c] = "asked" ~> sd[c] = "end"

\* The end of the session is handled to its end, whatever the clients do.
ExitCompletes == loop = "exit" ~> loop = "done"

-----------------------------------------------------------------------------
(* What PROTOCOL.md says and the code does not do. *)

\* What a client has received of the stream, at least: the frames still in
\* the queue are counted as if all were pieces.
Received(c) == SubSeq(sent[c], 1, Len(sent[c]) - pending[c])

\* PROTOCOL.md:69: every attached connection receives the same output bytes,
\* hence no piece is missing between two that a client has received.
IsPiece(n) == n # ScrollbackEndMark

SameBytes ==
    \A c \in Conn :
        LET got == SelectSeq(Received(c), IsPiece)
        IN \A i \in 1 .. Len(got) - 1 : got[i + 1] = got[i] + 1
=============================================================================
