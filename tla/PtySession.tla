----------------------------- MODULE PtySession -----------------------------
(***************************************************************************)
(* One supervised PTY (pkg/ptysession/session.go): readLoop and finish,    *)
(* drainTerm with the emulator's reply pipe, Resize, the captures, Wait    *)
(* and Kill.  Output is counted in chunks.                                 *)
(*                                                                         *)
(* A region under the lock `mu' is one action, except where it writes to   *)
(* the emulator: the emulator answers queries on an unbuffered pipe, and   *)
(* the writer waits, with the lock, until each answer is read.             *)
(*                                                                         *)
(* The end of the output and the end of the child are two events: another  *)
(* process may keep the terminal open after the child has gone, and the    *)
(* child may close it and live on.                                         *)
(***************************************************************************)
EXTENDS Integers

CONSTANTS
    Caller,     \* goroutines that use the session, one call at a time
    Sizes,      \* terminal sizes asked for
    Word,       \* 2^16: the sizes of a PTY are below
    MaxOut,     \* bound on the chunks the programs write
    MaxReplies, \* bound on the answers to the queries of one chunk
    Free        \* nobody, as the holder of a lock

ASSUME WordAssumption == Word \in Nat \ {0}
ASSUME SizesAssumption == Sizes \subseteq Nat /\ 1 \in Sizes /\ 1 < Word
ASSUME BoundAssumption == MaxOut \in Nat /\ MaxReplies \in Nat
ASSUME FreeAssumption ==
    Free \notin Caller \cup {"readLoop"} /\ "readLoop" \notin Caller

VARIABLES
    \* the kernel and the programs
    child,      \* "runs", or how it ended
    holders,    \* the processes that have the terminal open
    written,    \* chunks written to it
    pty,        \* the master side
    ptySize,    \* its size
    \* Session
    raw,        \* without an emulator
    mu,         \* who holds the lock
    loop,       \* where readLoop is
    ring,       \* chunks appended to the ring
    replies,    \* answers the emulator has still to write
    pipe,       \* the emulator's reply pipe
    drain,      \* drainTerm
    effSize,    \* effCols, effRows; also the size of the emulator
    calm,       \* lastActivity is longer ago than the settle window
    late,       \* the callers whose deadline has passed: of waitSettle, or
                \* of lockTimeout
    alive, killed,
    exitCode,
    exited,     \* the channel is closed
    pc          \* where each caller is: in a call, or back from its last

progVars == <<child, holders, written>>
ptyVars  == <<pty, ptySize>>
termVars == <<replies, pipe, drain>>
timeVars == <<calm, late>>
endVars  == <<alive, killed, exitCode, exited>>
vars == <<progVars, ptyVars, raw, mu, loop, ring, termVars, effSize,
          timeVars, endVars, pc>>

Codes == {"zero", "failed", "signalled"}

\* Start: `raw' is the caller's choice, and so is what the program starts.
Init ==
    /\ child = "runs"
    /\ holders \in {{"child"}, {"child", "other"}}
    /\ written = 0
    /\ pty = "open" /\ ptySize = 1
    /\ raw \in BOOLEAN
    /\ mu = Free /\ loop = "read" /\ ring = 0
    /\ replies = 0 /\ pipe = "open"
    /\ drain = IF raw THEN "done" ELSE "read"
    /\ effSize = 1 /\ calm = FALSE /\ late = {}
    /\ alive = TRUE /\ killed = FALSE
    /\ exitCode = "zero" /\ exited = FALSE
    /\ pc = [c \in Caller |-> "idle"]

-----------------------------------------------------------------------------
(* The programs and the terminal *)

Program ==
    \/ /\ holders # {} /\ pty = "open" /\ written < MaxOut
       /\ written' = written + 1
       /\ UNCHANGED <<child, holders>>
    \/ \E c \in Codes :
         /\ child = "runs"
         /\ child' = c
         /\ holders' = holders \ {"child"}
         /\ UNCHANGED written
    \/ \E p \in holders :
         /\ holders' = holders \ {p}
         /\ UNCHANGED <<child, written>>

ProgramStep ==
    /\ Program
    /\ UNCHANGED <<ptyVars, raw, mu, loop, ring, termVars, effSize, timeVars,
                   endVars, pc>>

\* The chunks that are in the PTY and not yet read.
Unread == written - ring - (IF loop = "chunk" THEN 1 ELSE 0)

\* A read of the master fails: the PTY is closed, or nobody has the other
\* side open any more and all is read.
ReadFails == pty = "closed" \/ (holders = {} /\ Unread = 0)

\* Time passes; it matters only to a caller that waits for it.
Calm ==
    /\ ~calm /\ \E c \in Caller : pc[c] = "settle"
    /\ calm' = TRUE
    /\ UNCHANGED <<progVars, ptyVars, raw, mu, loop, ring, termVars, effSize,
                   late, endVars, pc>>

\* ... and so do the deadlines of those who wait for silence or for the lock.
Deadline(c) ==
    /\ pc[c] \in {"settle", "lock"} /\ c \notin late
    /\ late' = late \cup {c}
    /\ UNCHANGED <<progVars, ptyVars, raw, mu, loop, ring, termVars, effSize,
                   calm, endVars, pc>>

\* Write: touch, and bytes for the child.
Write ==
    /\ alive
    /\ calm' = FALSE
    /\ UNCHANGED <<progVars, ptyVars, raw, mu, loop, ring, termVars, effSize,
                   late, endVars, pc>>

-----------------------------------------------------------------------------
(* The emulator and drainTerm *)

\* Mutant: no drainTerm.
NobodyDrains == pipe = "closed"

\* Mutant: an answer is not refused when the pipe is closed.
NobodyRefuses == drain = "read"

\* An answer does not stay in the pipe: drainTerm reads it, or it fails
\* because the pipe is closed.
Drained == drain = "read" \/ pipe = "closed"

Answer ==
    /\ replies > 0
    /\ Drained
    /\ replies' = replies - 1
    /\ UNCHANGED <<progVars, ptyVars, raw, mu, loop, ring, pipe, drain,
                   effSize, timeVars, endVars, pc>>

DrainEnds ==
    /\ drain = "read"
    /\ pipe = "closed"
    /\ drain' = "done"
    /\ UNCHANGED <<progVars, ptyVars, raw, mu, loop, ring, replies, pipe,
                   effSize, timeVars, endVars, pc>>

\* Mutant: the emulator stays open.
CloseNothing == UNCHANGED pipe

\* closeTerm, by finish and by Kill in either order.
CloseTerm == IF raw THEN UNCHANGED pipe ELSE pipe' = "closed"

-----------------------------------------------------------------------------
(* readLoop *)

Read ==
    /\ loop = "read"
    /\ pty = "open" /\ Unread > 0
    /\ loop' = "chunk"
    /\ calm' = FALSE
    /\ UNCHANGED <<progVars, ptyVars, raw, mu, ring, termVars, effSize,
                   late, endVars, pc>>

\* Under the lock: ring.append, and term.Write unless the session is raw ...
Chunk ==
    /\ loop = "chunk"
    /\ mu = Free
    /\ ring' = ring + 1
    /\ IF raw
       THEN loop' = "read" /\ UNCHANGED <<mu, replies>>
       ELSE /\ mu' = "readLoop" /\ loop' = "write"
            /\ replies' \in 0..MaxReplies
    /\ UNCHANGED <<progVars, ptyVars, raw, pipe, drain, effSize, timeVars,
                   endVars, pc>>

\* ... then onOutput, and the lock is released.
ChunkDone ==
    /\ loop = "write"
    /\ replies = 0
    /\ mu' = Free
    /\ loop' = "read"
    /\ UNCHANGED <<progVars, ptyVars, raw, ring, termVars, effSize, timeVars,
                   endVars, pc>>

LeaveLoop(ended) ==
    /\ loop = "read"
    /\ ended
    /\ loop' = "reap"
    /\ UNCHANGED <<progVars, ptyVars, raw, mu, ring, termVars, effSize,
                   timeVars, endVars, pc>>

\* Mutant: the loop ends when the child has.
ReadUntilDead == LeaveLoop(pty = "closed" \/ child # "runs")

ReadError == LeaveLoop(ReadFails)

-----------------------------------------------------------------------------
(* finish *)

\* cmd.Wait.
Waited(signal) ==
    /\ loop = "reap"
    /\ child # "runs"
    /\ exited' = signal
    /\ loop' = "record"
    /\ UNCHANGED <<progVars, ptyVars, raw, mu, ring, termVars, effSize,
                   timeVars, alive, killed, exitCode, pc>>

\* Mutant: the waiters are woken before the code is stored.
ReapAndSignal == Waited(TRUE)

Reap == Waited(FALSE)

\* The exit code, and no longer alive.
Record ==
    /\ loop = "record"
    /\ exitCode' = child
    /\ alive' = FALSE
    /\ loop' = "close"
    /\ UNCHANGED <<progVars, ptyVars, raw, mu, ring, termVars, effSize,
                   timeVars, killed, exited, pc>>

\* closeTerm; close(exited) ...
Close(closing) ==
    /\ \/ /\ loop = "close" /\ loop' = "signal"
          /\ closing /\ UNCHANGED exited
       \/ /\ loop = "signal" /\ loop' = "tell"
          /\ exited' = TRUE /\ UNCHANGED pipe
    /\ UNCHANGED <<progVars, ptyVars, raw, mu, ring, replies, drain, effSize,
                   timeVars, alive, killed, exitCode, pc>>

\* Mutant: finish leaves the reply pipe open.
SignalOnly == Close(UNCHANGED pipe)

Signal == Close(CloseTerm)

\* ... and onExit; readLoop returns.
Tell ==
    /\ loop = "tell"
    /\ loop' = "done"
    /\ UNCHANGED <<progVars, ptyVars, raw, mu, ring, termVars, effSize,
                   timeVars, endVars, pc>>

-----------------------------------------------------------------------------
(* Resize *)

\* Under the lock: the effective size and the emulator's, which may answer
\* with a report of its own ...
ResizeStart(c, size, holder) ==
    /\ pc[c] = "idle"
    /\ mu = Free
    /\ size > 0 /\ size # effSize
    /\ effSize' = size
    /\ replies' \in IF raw THEN {0} ELSE 0..1
    /\ mu' = holder
    /\ pc' = [pc EXCEPT ![c] = "resize"]
    /\ UNCHANGED <<progVars, ptyVars, raw, loop, ring, pipe, drain, timeVars,
                   endVars>>

\* Mutant: the lock is released between the two.
ResizeUnlocks(c, size) == ResizeStart(c, size, Free)

Resize(c, size) == ResizeStart(c, size, c)

SetPtySize(c, n) ==
    /\ pc[c] = "resize"
    /\ replies = 0
    /\ ptySize' = IF pty = "open" THEN n ELSE ptySize
    /\ mu' = Free
    /\ pc' = [pc EXCEPT ![c] = "idle"]
    /\ UNCHANGED <<progVars, pty, raw, loop, ring, termVars, effSize, timeVars,
                   endVars>>

\* Mutant: as many columns as were asked for.
ResizeWide(c) == SetPtySize(c, effSize)

\* ... then the size of the PTY, in 16 bits.
ResizePty(c) == SetPtySize(c, effSize % Word)

-----------------------------------------------------------------------------
(* CaptureRaw and CaptureScreen *)

\* The deadline of the next stage is a new one.
CaptureStep(c, from, to) ==
    /\ pc[c] = from
    /\ pc' = [pc EXCEPT ![c] = to]
    /\ late' = late \ {c}
    /\ UNCHANGED <<progVars, ptyVars, raw, mu, loop, ring, termVars, effSize,
                   calm, endVars>>

Capture(c) ==
    CaptureStep(c, "idle", "settle") \/ CaptureStep(c, "idle", "lock")

\* waitSettle returns when the PTY has been quiet for long enough, or at the
\* deadline; lockTimeout is then given the whole timeout once more.
SettleDone(c) == (calm \/ c \in late) /\ CaptureStep(c, "settle", "lock")

\* lockTimeout: the snapshot is taken under the lock ...
Snapshot(c) == mu = Free /\ CaptureStep(c, "lock", "idle")

\* ... or the attempt to get the lock that follows the deadline has failed too.
CaptureFails(c) == c \in late /\ mu # Free /\ CaptureStep(c, "lock", "idle")

-----------------------------------------------------------------------------
(* Wait *)

WaitStep(c, from, to) ==
    /\ pc[c] = from
    /\ pc' = [pc EXCEPT ![c] = to]
    /\ UNCHANGED <<progVars, ptyVars, raw, mu, loop, ring, termVars, effSize,
                   timeVars, endVars>>

Wait(c) == WaitStep(c, "idle", "wait")

WaitReturns(c) == exited /\ WaitStep(c, "wait", exitCode)

\* The context is done.
WaitGivesUp(c) == WaitStep(c, "wait", "idle")

-----------------------------------------------------------------------------
(* Kill, its steps in their order *)

KillStep(c, from, to) ==
    /\ pc[c] = from
    /\ pc' = [pc EXCEPT ![c] = to]
    /\ UNCHANGED <<written, ptySize, raw, mu, loop, ring, replies, drain,
                   effSize, timeVars, alive, exitCode, exited>>

KillBegin(c) ==
    /\ KillStep(c, "idle", IF ~alive /\ killed THEN "returned" ELSE "mark")
    /\ UNCHANGED <<killed, pty, child, holders, pipe>>

KillMark(c) ==
    /\ KillStep(c, "mark", "close")
    /\ killed' = TRUE
    /\ UNCHANGED <<pty, child, holders, pipe>>

KillPty(c) ==
    /\ KillStep(c, "close", "kill")
    /\ pty' = "closed"
    /\ UNCHANGED <<killed, child, holders, pipe>>

\* Process.Kill and closeTerm.
KillChild(c) ==
    /\ KillStep(c, "kill", "drain")
    /\ child' = IF child = "runs" THEN "signalled" ELSE child
    /\ holders' = holders \ {"child"}
    /\ CloseTerm
    /\ UNCHANGED <<killed, pty>>

\* wg.Wait.
KillWait(c) ==
    /\ loop = "done" /\ drain = "done"
    /\ KillStep(c, "drain", "returned")
    /\ UNCHANGED <<killed, pty, child, holders, pipe>>

-----------------------------------------------------------------------------
ReadLoop ==
    \/ Read \/ Chunk \/ ChunkDone \/ ReadError
    \/ Reap \/ Record \/ Signal \/ Tell

Killing(c) ==
    KillMark(c) \/ KillPty(c) \/ KillChild(c) \/ KillWait(c)

Next ==
    \/ ProgramStep \/ Calm \/ Write \/ Answer \/ DrainEnds \/ ReadLoop
    \/ \E c \in Caller :
         \/ (\E n \in Sizes : Resize(c, n)) \/ ResizePty(c)
         \/ Capture(c) \/ Deadline(c) \/ SettleDone(c)
         \/ Snapshot(c) \/ CaptureFails(c)
         \/ Wait(c) \/ WaitReturns(c) \/ WaitGivesUp(c)
         \/ KillBegin(c) \/ Killing(c)

(***************************************************************************)
(* Goroutines run, and readLoop, waiting for the lock, gets it in the end. *)
(* Nothing is fair that depends on the programs or on the callers: output  *)
(* may stop or not, nobody need call Kill.  Nor are time and the captures, *)
(* which hold nothing that another waits for.                              *)
(***************************************************************************)
Fairness ==
    /\ WF_vars(ReadLoop) /\ SF_vars(Chunk)
    /\ WF_vars(Answer) /\ WF_vars(DrainEnds)
    /\ \A c \in Caller :
         /\ WF_vars(ResizePty(c))
         /\ WF_vars(WaitReturns(c))
         /\ WF_vars(Killing(c))

Spec == Init /\ [][Next]_vars /\ Fairness

-----------------------------------------------------------------------------
(* Properties *)

TypeOK ==
    /\ child \in Codes \cup {"runs"}
    /\ holders \subseteq {"child", "other"}
    /\ written \in 0..MaxOut /\ ring \in 0..MaxOut
    /\ pty \in {"open", "closed"} /\ ptySize \in 0 .. Word - 1
    /\ raw \in BOOLEAN
    /\ mu \in Caller \cup {"readLoop", Free}
    /\ loop \in {"read", "chunk", "write", "reap", "record", "close",
                 "signal", "tell", "done"}
    /\ replies \in 0 .. MaxReplies + 1
    /\ pipe \in {"open", "closed"} /\ drain \in {"read", "done"}
    /\ effSize \in Sizes
    /\ calm \in BOOLEAN /\ late \subseteq Caller
    /\ alive \in BOOLEAN /\ killed \in BOOLEAN
    /\ exitCode \in Codes /\ exited \in BOOLEAN
    /\ pc \in [Caller -> {"idle", "resize", "settle", "lock", "wait", "mark",
                          "close", "kill", "drain", "returned"}
                         \cup Codes]

Contract == INSTANCE PtyContract WITH
    delivered <- ring,
    torn <- pty = "closed",
    over <- exited \/ \E c \in Caller : pc[c] = "returned"

\* What the program wrote is in the scrollback before the exit is announced,
\* even what another process wrote after the child had gone, unless Kill
\* closed the PTY; after an announced exit, or after a Kill has returned by
\* its early exit or by its wait, nothing is appended any more.
Promise == Contract!Spec

\* Wait never returns anything but the code the child ended with: the code is
\* stored before the channel is closed.
WaitCode == \A c \in Caller : pc[c] \in Codes => pc[c] = child

\* Whoever gets the lock finds the emulator and the PTY of one size, for any
\* size a PTY can have, while there is a PTY.
SizesAgree ==
    mu = Free /\ pty = "open" /\ effSize < Word => ptySize = effSize

\* A chunk that was read gets into the ring and through the emulator, however
\* many queries it holds and whoever wants the lock.
OutputProcessed == loop \in {"chunk", "write"} ~> loop = "read"

\* Kill returns: from any state of the output and of the emulator, with
\* another Kill under way, with a process left that holds the terminal.
KillReturns == \A c \in Caller : pc[c] = "mark" ~> pc[c] = "returned"

\* Nobody keeps the lock: not readLoop in the emulator, nor a resize that makes
\* the emulator report, and not after the end either, when nobody reads the
\* reports any more.  That a capture finds it free at once, and needs nothing of
\* the second timeout that lockTimeout has for it, rests on this
\* (session.go:343-347); so do an attach, a resize and the output.
LockReleased == mu # Free ~> mu = Free

\* No goroutine outlives its session.
NoLeak == loop = "done" ~> drain = "done"

\* When the child has gone and nobody has its terminal open any more, a
\* caller that waits does not wait for ever.
ExitAnnounced ==
    \A c \in Caller :
        pc[c] = "wait" /\ child # "runs" /\ holders = {} ~> pc[c] # "wait"
=============================================================================
