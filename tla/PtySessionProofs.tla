-------------------------- MODULE PtySessionProofs --------------------------
(***************************************************************************)
(* Proofs about PtySession, for any callers, sizes and bounds.  The        *)
(* inductive invariant has, beside the types, one part for each thing that *)
(* a property depends on: what readLoop has taken from the PTY (Counted,   *)
(* AllRead), what finish has stored by when (Finished), and what the       *)
(* holder of the lock is about to do (Locked).                             *)
(***************************************************************************)
EXTENDS PtySession, TLAPS

\* finish has stored the exit code.
Recorded == loop \in {"close", "signal", "tell", "done"}

\* readLoop has left its loop.
LoopLeft == loop \notin {"read", "chunk", "write"}

\* What is in the ring, and what readLoop has in its hands, was written.
Counted == ring + (IF loop = "chunk" THEN 1 ELSE 0) <= written

\* finish goes on when the child has ended, and says so in its order: the
\* code, no longer alive, the channel; a Kill has returned only after that.
Finished ==
    /\ loop \notin {"read", "chunk", "write", "reap"} => child # "runs"
    /\ Recorded => exitCode = child
    /\ alive <=> ~Recorded
    /\ exited <=> loop \in {"tell", "done"}
    /\ \A c \in Caller : pc[c] = "returned" => ~alive

\* The loop ends only when nobody can write any more and all is in the ring,
\* unless the PTY was closed.
AllRead == LoopLeft /\ pty = "open" => holders = {} /\ ring = written

\* The lock is held over a write to the emulator and over a resize, and
\* between those the two sizes are one.
Locked ==
    /\ mu = "readLoop" <=> loop = "write"
    /\ \A c \in Caller : mu = c <=> pc[c] = "resize"
    /\ mu \notin Caller /\ pty = "open" /\ effSize < Word => ptySize = effSize

-----------------------------------------------------------------------------
\* A new session is well typed, has read nothing and holds no lock.
LEMMA InitInv == Init => TypeOK /\ Counted /\ Finished /\ AllRead /\ Locked
                         /\ WaitCode
  <1> SUFFICES ASSUME Init
               PROVE  TypeOK /\ Counted /\ Finished /\ AllRead /\ Locked
                      /\ WaitCode
    OBVIOUS
  <1> USE DEF Init
  <1>1. TypeOK
    <2>1. written \in 0..MaxOut /\ ring \in 0..MaxOut /\ effSize \in Sizes
          /\ ptySize \in 0 .. Word - 1 /\ replies \in 0 .. MaxReplies + 1
      BY SizesAssumption, WordAssumption, BoundAssumption
    <2>2. drain \in {"read", "done"} /\ pc \in [Caller -> {"idle"}]
      OBVIOUS
    <2> QED
      BY <2>1, <2>2 DEF TypeOK, Codes
  <1>2. Counted /\ AllRead
    BY DEF Counted, AllRead, LoopLeft
  <1>3. Finished /\ WaitCode
    BY DEF Finished, Recorded, WaitCode, Codes
  <1>4. Locked
    BY FreeAssumption DEF Locked
  <1> QED
    BY <1>1, <1>2, <1>3, <1>4

\* Nothing gets into the ring that was not written, and nothing twice.
LEMMA CountedStep == TypeOK /\ Counted /\ [Next]_vars => Counted'
  <1> SUFFICES ASSUME TypeOK, Counted, [Next]_vars PROVE Counted'
    OBVIOUS
  <1> USE DEF TypeOK, Counted, progVars, ptyVars, termVars, endVars
  <1>1. ASSUME ProgramStep PROVE Counted'
    BY <1>1 DEF ProgramStep, Program
  <1>2. ASSUME Calm PROVE Counted'
    BY <1>2 DEF Calm
  <1>3. ASSUME Write PROVE Counted'
    BY <1>3 DEF Write
  <1>4. ASSUME Answer PROVE Counted'
    BY <1>4 DEF Answer
  <1>5. ASSUME DrainEnds PROVE Counted'
    BY <1>5 DEF DrainEnds
  <1>6. ASSUME Read PROVE Counted'
    BY <1>6 DEF Read, Unread
  <1>7. ASSUME Chunk PROVE Counted'
    BY <1>7 DEF Chunk
  <1>8. ASSUME ChunkDone PROVE Counted'
    BY <1>8 DEF ChunkDone
  <1>9. ASSUME ReadError PROVE Counted'
    BY <1>9 DEF ReadError, LeaveLoop, ReadFails, Unread
  <1>10. ASSUME Reap PROVE Counted'
    BY <1>10 DEF Reap, Waited
  <1>11. ASSUME Record PROVE Counted'
    BY <1>11 DEF Record
  <1>12. ASSUME Signal PROVE Counted'
    BY <1>12 DEF Signal, Close, CloseTerm
  <1>13. ASSUME Tell PROVE Counted'
    BY <1>13 DEF Tell
  <1>14. ASSUME NEW c \in Caller, NEW n \in Sizes, Resize(c, n) PROVE Counted'
    BY <1>14 DEF Resize, ResizeStart
  <1>15. ASSUME NEW c \in Caller, ResizePty(c) PROVE Counted'
    BY <1>15 DEF ResizePty, SetPtySize
  <1>16. ASSUME NEW c \in Caller, Capture(c) PROVE Counted'
    BY <1>16 DEF Capture, CaptureStep
  <1>17. ASSUME NEW c \in Caller, SettleDone(c) PROVE Counted'
    BY <1>17 DEF SettleDone, CaptureStep
  <1>18. ASSUME NEW c \in Caller, Snapshot(c) PROVE Counted'
    BY <1>18 DEF Snapshot, CaptureStep
  <1>19. ASSUME NEW c \in Caller, CaptureFails(c) PROVE Counted'
    BY <1>19 DEF CaptureFails, CaptureStep
  <1>20. ASSUME NEW c \in Caller, Wait(c) PROVE Counted'
    BY <1>20 DEF Wait, WaitStep
  <1>21. ASSUME NEW c \in Caller, WaitReturns(c) PROVE Counted'
    BY <1>21 DEF WaitReturns, WaitStep
  <1>22. ASSUME NEW c \in Caller, WaitGivesUp(c) PROVE Counted'
    BY <1>22 DEF WaitGivesUp, WaitStep
  <1>23. ASSUME NEW c \in Caller, KillBegin(c) PROVE Counted'
    BY <1>23 DEF KillBegin, KillStep
  <1>24. ASSUME NEW c \in Caller, KillMark(c) PROVE Counted'
    BY <1>24 DEF KillMark, KillStep
  <1>25. ASSUME NEW c \in Caller, KillPty(c) PROVE Counted'
    BY <1>25 DEF KillPty, KillStep
  <1>26. ASSUME NEW c \in Caller, KillChild(c) PROVE Counted'
    BY <1>26 DEF KillChild, KillStep, CloseTerm
  <1>27. ASSUME NEW c \in Caller, KillWait(c) PROVE Counted'
    BY <1>27 DEF KillWait, KillStep
  <1>28. ASSUME NEW c \in Caller, Deadline(c) PROVE Counted'
    BY <1>28 DEF Deadline
  <1>29. CASE UNCHANGED vars
    BY <1>29 DEF vars
  <1> QED
    BY <1>1, <1>2, <1>3, <1>4, <1>5, <1>6, <1>7, <1>8, <1>9, <1>10, <1>11,
       <1>12, <1>13, <1>14, <1>15, <1>16, <1>17, <1>18, <1>19, <1>20, <1>21,
       <1>22, <1>23, <1>24, <1>25, <1>26, <1>27, <1>28, <1>29
    DEF Next, ReadLoop, Killing

\* finish keeps its order, and the child's end is for good.
LEMMA FinishedStep == TypeOK /\ Finished /\ [Next]_vars => Finished'
  <1> SUFFICES ASSUME TypeOK, Finished, [Next]_vars PROVE Finished'
    OBVIOUS
  <1> USE DEF TypeOK, Finished, Recorded, Codes, progVars, ptyVars, termVars,
              endVars
  <1>1. ASSUME ProgramStep PROVE Finished'
    BY <1>1 DEF ProgramStep, Program
  <1>2. ASSUME Calm PROVE Finished'
    BY <1>2 DEF Calm
  <1>3. ASSUME Write PROVE Finished'
    BY <1>3 DEF Write
  <1>4. ASSUME Answer PROVE Finished'
    BY <1>4 DEF Answer
  <1>5. ASSUME DrainEnds PROVE Finished'
    BY <1>5 DEF DrainEnds
  <1>6. ASSUME Read PROVE Finished'
    BY <1>6 DEF Read, Unread
  <1>7. ASSUME Chunk PROVE Finished'
    BY <1>7 DEF Chunk
  <1>8. ASSUME ChunkDone PROVE Finished'
    BY <1>8 DEF ChunkDone
  <1>9. ASSUME ReadError PROVE Finished'
    BY <1>9 DEF ReadError, LeaveLoop, ReadFails, Unread
  <1>10. ASSUME Reap PROVE Finished'
    BY <1>10 DEF Reap, Waited
  <1>11. ASSUME Record PROVE Finished'
    BY <1>11 DEF Record
  <1>12. ASSUME Signal PROVE Finished'
    BY <1>12 DEF Signal, Close, CloseTerm
  <1>13. ASSUME Tell PROVE Finished'
    BY <1>13 DEF Tell
  <1>14. ASSUME NEW c \in Caller, NEW n \in Sizes, Resize(c, n) PROVE Finished'
    BY <1>14 DEF Resize, ResizeStart
  <1>15. ASSUME NEW c \in Caller, ResizePty(c) PROVE Finished'
    BY <1>15 DEF ResizePty, SetPtySize
  <1>16. ASSUME NEW c \in Caller, Capture(c) PROVE Finished'
    BY <1>16 DEF Capture, CaptureStep
  <1>17. ASSUME NEW c \in Caller, SettleDone(c) PROVE Finished'
    BY <1>17 DEF SettleDone, CaptureStep
  <1>18. ASSUME NEW c \in Caller, Snapshot(c) PROVE Finished'
    BY <1>18 DEF Snapshot, CaptureStep
  <1>19. ASSUME NEW c \in Caller, CaptureFails(c) PROVE Finished'
    BY <1>19 DEF CaptureFails, CaptureStep
  <1>20. ASSUME NEW c \in Caller, Wait(c) PROVE Finished'
    BY <1>20 DEF Wait, WaitStep
  <1>21. ASSUME NEW c \in Caller, WaitReturns(c) PROVE Finished'
    BY <1>21 DEF WaitReturns, WaitStep
  <1>22. ASSUME NEW c \in Caller, WaitGivesUp(c) PROVE Finished'
    BY <1>22 DEF WaitGivesUp, WaitStep
  <1>23. ASSUME NEW c \in Caller, KillBegin(c) PROVE Finished'
    BY <1>23 DEF KillBegin, KillStep
  <1>24. ASSUME NEW c \in Caller, KillMark(c) PROVE Finished'
    BY <1>24 DEF KillMark, KillStep
  <1>25. ASSUME NEW c \in Caller, KillPty(c) PROVE Finished'
    BY <1>25 DEF KillPty, KillStep
  <1>26. ASSUME NEW c \in Caller, KillChild(c) PROVE Finished'
    BY <1>26 DEF KillChild, KillStep, CloseTerm
  <1>27. ASSUME NEW c \in Caller, KillWait(c) PROVE Finished'
    BY <1>27 DEF KillWait, KillStep
  <1>28. ASSUME NEW c \in Caller, Deadline(c) PROVE Finished'
    BY <1>28 DEF Deadline
  <1>29. CASE UNCHANGED vars
    BY <1>29 DEF vars
  <1> QED
    BY <1>1, <1>2, <1>3, <1>4, <1>5, <1>6, <1>7, <1>8, <1>9, <1>10, <1>11,
       <1>12, <1>13, <1>14, <1>15, <1>16, <1>17, <1>18, <1>19, <1>20, <1>21,
       <1>22, <1>23, <1>24, <1>25, <1>26, <1>27, <1>28, <1>29
    DEF Next, ReadLoop, Killing

\* Every step keeps the types: the ring by Counted, the exit code by Finished.
LEMMA TypeStep == TypeOK /\ Counted' /\ Finished /\ [Next]_vars => TypeOK'
  <1> SUFFICES ASSUME TypeOK, Counted', Finished, [Next]_vars PROVE TypeOK'
    OBVIOUS
  <1> USE DEF TypeOK, Counted, Finished, Codes, progVars, ptyVars, termVars,
              timeVars, endVars
  <1>1. ASSUME ProgramStep PROVE TypeOK'
    <2>1. written' \in 0..MaxOut
      BY <1>1, BoundAssumption DEF ProgramStep, Program
    <2>2. child' \in Codes \cup {"runs"} /\ holders' \subseteq {"child", "other"}
      BY <1>1 DEF ProgramStep, Program
    <2> QED
      BY <1>1, <2>1, <2>2 DEF ProgramStep
  <1>2. ASSUME Calm PROVE TypeOK'
    BY <1>2 DEF Calm
  <1>3. ASSUME Write PROVE TypeOK'
    <2>1. calm' \in BOOLEAN
      BY <1>3 DEF Write
    <2>2. UNCHANGED <<progVars, ptyVars, raw, mu, loop, ring, termVars,
                      effSize, late, endVars, pc>>
      BY <1>3 DEF Write
    <2> QED
      BY <2>1, <2>2
  <1>4. ASSUME Answer PROVE TypeOK'
    BY <1>4, BoundAssumption DEF Answer
  <1>5. ASSUME DrainEnds PROVE TypeOK'
    BY <1>5 DEF DrainEnds
  <1>6. ASSUME Read PROVE TypeOK'
    BY <1>6 DEF Read, Unread
  <1>7. ASSUME Chunk PROVE TypeOK'
    BY <1>7, BoundAssumption DEF Chunk
  <1>8. ASSUME ChunkDone PROVE TypeOK'
    BY <1>8 DEF ChunkDone
  <1>9. ASSUME ReadError PROVE TypeOK'
    BY <1>9 DEF ReadError, LeaveLoop, ReadFails, Unread
  <1>10. ASSUME Reap PROVE TypeOK'
    BY ZenonT(30), <1>10 DEF Reap, Waited
  <1>11. ASSUME Record PROVE TypeOK'
    BY <1>11 DEF Record
  <1>12. ASSUME Signal PROVE TypeOK'
    <2>1. pipe' \in {"open", "closed"} /\ exited' \in BOOLEAN
      BY <1>12 DEF Signal, Close, CloseTerm
    <2>2. loop' \in {"signal", "tell"}
      BY <1>12 DEF Signal, Close
    <2>3. UNCHANGED <<progVars, ptyVars, raw, mu, ring, replies, drain,
                      effSize, timeVars, alive, killed, exitCode, pc>>
      BY <1>12 DEF Signal, Close
    <2> QED
      BY <2>1, <2>2, <2>3
  <1>13. ASSUME Tell PROVE TypeOK'
    BY <1>13 DEF Tell
  <1>14. ASSUME NEW c \in Caller, NEW n \in Sizes, Resize(c, n) PROVE TypeOK'
    BY <1>14, BoundAssumption DEF Resize, ResizeStart
  <1>15. ASSUME NEW c \in Caller, ResizePty(c) PROVE TypeOK'
    <2>1. effSize % Word \in 0 .. Word - 1
      BY SizesAssumption, WordAssumption
    <2> QED
      BY <1>15, <2>1 DEF ResizePty, SetPtySize
  <1>16. ASSUME NEW c \in Caller, Capture(c) PROVE TypeOK'
    <2>1. CASE CaptureStep(c, "idle", "settle")
      BY <2>1 DEF CaptureStep
    <2>2. CASE CaptureStep(c, "idle", "lock")
      BY <2>2 DEF CaptureStep
    <2> QED
      BY <1>16, <2>1, <2>2 DEF Capture
  <1>17. ASSUME NEW c \in Caller, SettleDone(c) PROVE TypeOK'
    BY <1>17 DEF SettleDone, CaptureStep
  <1>18. ASSUME NEW c \in Caller, Snapshot(c) PROVE TypeOK'
    BY <1>18 DEF Snapshot, CaptureStep
  <1>19. ASSUME NEW c \in Caller, CaptureFails(c) PROVE TypeOK'
    BY <1>19 DEF CaptureFails, CaptureStep
  <1>20. ASSUME NEW c \in Caller, Wait(c) PROVE TypeOK'
    BY <1>20 DEF Wait, WaitStep
  <1>21. ASSUME NEW c \in Caller, WaitReturns(c) PROVE TypeOK'
    BY <1>21 DEF WaitReturns, WaitStep
  <1>22. ASSUME NEW c \in Caller, WaitGivesUp(c) PROVE TypeOK'
    BY <1>22 DEF WaitGivesUp, WaitStep
  <1>23. ASSUME NEW c \in Caller, KillBegin(c) PROVE TypeOK'
    BY <1>23 DEF KillBegin, KillStep
  <1>24. ASSUME NEW c \in Caller, KillMark(c) PROVE TypeOK'
    BY <1>24 DEF KillMark, KillStep
  <1>25. ASSUME NEW c \in Caller, KillPty(c) PROVE TypeOK'
    BY <1>25 DEF KillPty, KillStep
  <1>26. ASSUME NEW c \in Caller, KillChild(c) PROVE TypeOK'
    BY <1>26 DEF KillChild, KillStep, CloseTerm
  <1>27. ASSUME NEW c \in Caller, KillWait(c) PROVE TypeOK'
    BY <1>27 DEF KillWait, KillStep
  <1>28. ASSUME NEW c \in Caller, Deadline(c) PROVE TypeOK'
    BY <1>28 DEF Deadline
  <1>29. CASE UNCHANGED vars
    BY <1>29 DEF vars
  <1> QED
    BY <1>1, <1>2, <1>3, <1>4, <1>5, <1>6, <1>7, <1>8, <1>9, <1>10, <1>11,
       <1>12, <1>13, <1>14, <1>15, <1>16, <1>17, <1>18, <1>19, <1>20, <1>21,
       <1>22, <1>23, <1>24, <1>25, <1>26, <1>27, <1>28, <1>29
    DEF Next, ReadLoop, Killing

\* Nothing is written, and nothing comes into the ring, after the last read.
LEMMA AllReadStep == TypeOK /\ Counted /\ AllRead /\ [Next]_vars => AllRead'
  <1> SUFFICES ASSUME TypeOK, Counted, AllRead, [Next]_vars PROVE AllRead'
    OBVIOUS
  <1> USE DEF TypeOK, Counted, AllRead, LoopLeft, progVars, ptyVars, termVars,
              endVars
  <1>1. ASSUME ProgramStep PROVE AllRead'
    BY <1>1 DEF ProgramStep, Program
  <1>2. ASSUME Calm PROVE AllRead'
    BY <1>2 DEF Calm
  <1>3. ASSUME Write PROVE AllRead'
    BY <1>3 DEF Write
  <1>4. ASSUME Answer PROVE AllRead'
    BY <1>4 DEF Answer
  <1>5. ASSUME DrainEnds PROVE AllRead'
    BY <1>5 DEF DrainEnds
  <1>6. ASSUME Read PROVE AllRead'
    BY <1>6 DEF Read, Unread
  <1>7. ASSUME Chunk PROVE AllRead'
    BY <1>7 DEF Chunk
  <1>8. ASSUME ChunkDone PROVE AllRead'
    BY <1>8 DEF ChunkDone
  <1>9. ASSUME ReadError PROVE AllRead'
    BY <1>9 DEF ReadError, LeaveLoop, ReadFails, Unread
  <1>10. ASSUME Reap PROVE AllRead'
    BY <1>10 DEF Reap, Waited
  <1>11. ASSUME Record PROVE AllRead'
    BY <1>11 DEF Record
  <1>12. ASSUME Signal PROVE AllRead'
    BY <1>12 DEF Signal, Close, CloseTerm
  <1>13. ASSUME Tell PROVE AllRead'
    BY <1>13 DEF Tell
  <1>14. ASSUME NEW c \in Caller, NEW n \in Sizes, Resize(c, n) PROVE AllRead'
    BY <1>14 DEF Resize, ResizeStart
  <1>15. ASSUME NEW c \in Caller, ResizePty(c) PROVE AllRead'
    BY <1>15 DEF ResizePty, SetPtySize
  <1>16. ASSUME NEW c \in Caller, Capture(c) PROVE AllRead'
    BY <1>16 DEF Capture, CaptureStep
  <1>17. ASSUME NEW c \in Caller, SettleDone(c) PROVE AllRead'
    BY <1>17 DEF SettleDone, CaptureStep
  <1>18. ASSUME NEW c \in Caller, Snapshot(c) PROVE AllRead'
    BY <1>18 DEF Snapshot, CaptureStep
  <1>19. ASSUME NEW c \in Caller, CaptureFails(c) PROVE AllRead'
    BY <1>19 DEF CaptureFails, CaptureStep
  <1>20. ASSUME NEW c \in Caller, Wait(c) PROVE AllRead'
    BY <1>20 DEF Wait, WaitStep
  <1>21. ASSUME NEW c \in Caller, WaitReturns(c) PROVE AllRead'
    BY <1>21 DEF WaitReturns, WaitStep
  <1>22. ASSUME NEW c \in Caller, WaitGivesUp(c) PROVE AllRead'
    BY <1>22 DEF WaitGivesUp, WaitStep
  <1>23. ASSUME NEW c \in Caller, KillBegin(c) PROVE AllRead'
    BY <1>23 DEF KillBegin, KillStep
  <1>24. ASSUME NEW c \in Caller, KillMark(c) PROVE AllRead'
    BY <1>24 DEF KillMark, KillStep
  <1>25. ASSUME NEW c \in Caller, KillPty(c) PROVE AllRead'
    BY <1>25 DEF KillPty, KillStep
  <1>26. ASSUME NEW c \in Caller, KillChild(c) PROVE AllRead'
    BY <1>26 DEF KillChild, KillStep, CloseTerm
  <1>27. ASSUME NEW c \in Caller, KillWait(c) PROVE AllRead'
    BY <1>27 DEF KillWait, KillStep
  <1>28. ASSUME NEW c \in Caller, Deadline(c) PROVE AllRead'
    BY <1>28 DEF Deadline
  <1>29. CASE UNCHANGED vars
    BY <1>29 DEF vars
  <1> QED
    BY <1>1, <1>2, <1>3, <1>4, <1>5, <1>6, <1>7, <1>8, <1>9, <1>10, <1>11,
       <1>12, <1>13, <1>14, <1>15, <1>16, <1>17, <1>18, <1>19, <1>20, <1>21,
       <1>22, <1>23, <1>24, <1>25, <1>26, <1>27, <1>28, <1>29
    DEF Next, ReadLoop, Killing

\* Whoever takes the lock to change a size changes both before it gives it back.
LEMMA LockedStep == TypeOK /\ Locked /\ [Next]_vars => Locked'
  <1> SUFFICES ASSUME TypeOK, Locked, [Next]_vars PROVE Locked'
    OBVIOUS
  <1> USE FreeAssumption, SizesAssumption, WordAssumption
  <1> USE DEF TypeOK, Locked, Codes, progVars, ptyVars, termVars, endVars
  <1>1. ASSUME ProgramStep PROVE Locked'
    BY <1>1 DEF ProgramStep, Program
  <1>2. ASSUME Calm PROVE Locked'
    BY <1>2 DEF Calm
  <1>3. ASSUME Write PROVE Locked'
    BY <1>3 DEF Write
  <1>4. ASSUME Answer PROVE Locked'
    BY <1>4 DEF Answer
  <1>5. ASSUME DrainEnds PROVE Locked'
    BY <1>5 DEF DrainEnds
  <1>6. ASSUME Read PROVE Locked'
    BY <1>6 DEF Read, Unread
  <1>7. ASSUME Chunk PROVE Locked'
    BY <1>7 DEF Chunk
  <1>8. ASSUME ChunkDone PROVE Locked'
    BY <1>8 DEF ChunkDone
  <1>9. ASSUME ReadError PROVE Locked'
    BY <1>9 DEF ReadError, LeaveLoop, ReadFails, Unread
  <1>10. ASSUME Reap PROVE Locked'
    BY <1>10 DEF Reap, Waited
  <1>11. ASSUME Record PROVE Locked'
    BY <1>11 DEF Record
  <1>12. ASSUME Signal PROVE Locked'
    BY <1>12 DEF Signal, Close, CloseTerm
  <1>13. ASSUME Tell PROVE Locked'
    BY <1>13 DEF Tell
  <1>14. ASSUME NEW c \in Caller, NEW n \in Sizes, Resize(c, n) PROVE Locked'
    BY <1>14 DEF Resize, ResizeStart
  <1>15. ASSUME NEW c \in Caller, ResizePty(c) PROVE Locked'
    BY <1>15 DEF ResizePty, SetPtySize
  <1>16. ASSUME NEW c \in Caller, Capture(c) PROVE Locked'
    BY <1>16 DEF Capture, CaptureStep
  <1>17. ASSUME NEW c \in Caller, SettleDone(c) PROVE Locked'
    BY <1>17 DEF SettleDone, CaptureStep
  <1>18. ASSUME NEW c \in Caller, Snapshot(c) PROVE Locked'
    BY <1>18 DEF Snapshot, CaptureStep
  <1>19. ASSUME NEW c \in Caller, CaptureFails(c) PROVE Locked'
    BY <1>19 DEF CaptureFails, CaptureStep
  <1>20. ASSUME NEW c \in Caller, Wait(c) PROVE Locked'
    BY <1>20 DEF Wait, WaitStep
  <1>21. ASSUME NEW c \in Caller, WaitReturns(c) PROVE Locked'
    BY <1>21 DEF WaitReturns, WaitStep
  <1>22. ASSUME NEW c \in Caller, WaitGivesUp(c) PROVE Locked'
    BY <1>22 DEF WaitGivesUp, WaitStep
  <1>23. ASSUME NEW c \in Caller, KillBegin(c) PROVE Locked'
    BY <1>23 DEF KillBegin, KillStep
  <1>24. ASSUME NEW c \in Caller, KillMark(c) PROVE Locked'
    BY <1>24 DEF KillMark, KillStep
  <1>25. ASSUME NEW c \in Caller, KillPty(c) PROVE Locked'
    BY <1>25 DEF KillPty, KillStep
  <1>26. ASSUME NEW c \in Caller, KillChild(c) PROVE Locked'
    BY <1>26 DEF KillChild, KillStep, CloseTerm
  <1>27. ASSUME NEW c \in Caller, KillWait(c) PROVE Locked'
    BY <1>27 DEF KillWait, KillStep
  <1>28. ASSUME NEW c \in Caller, Deadline(c) PROVE Locked'
    BY <1>28 DEF Deadline
  <1>29. CASE UNCHANGED vars
    BY <1>29 DEF vars
  <1> QED
    BY <1>1, <1>2, <1>3, <1>4, <1>5, <1>6, <1>7, <1>8, <1>9, <1>10, <1>11,
       <1>12, <1>13, <1>14, <1>15, <1>16, <1>17, <1>18, <1>19, <1>20, <1>21,
       <1>22, <1>23, <1>24, <1>25, <1>26, <1>27, <1>28, <1>29
    DEF Next, ReadLoop, Killing

\* The code is stored before the channel is closed, and the child ends once.
LEMMA WaitCodeStep ==
    TypeOK /\ Finished /\ WaitCode /\ [Next]_vars => WaitCode'
  <1> SUFFICES ASSUME TypeOK, Finished, WaitCode, [Next]_vars PROVE WaitCode'
    OBVIOUS
  <1> USE DEF TypeOK, Finished, Recorded, WaitCode, Codes, progVars, ptyVars,
              termVars, endVars
  <1>1. ASSUME ProgramStep PROVE WaitCode'
    BY <1>1 DEF ProgramStep, Program
  <1>2. ASSUME Calm PROVE WaitCode'
    BY <1>2 DEF Calm
  <1>3. ASSUME Write PROVE WaitCode'
    BY <1>3 DEF Write
  <1>4. ASSUME Answer PROVE WaitCode'
    BY <1>4 DEF Answer
  <1>5. ASSUME DrainEnds PROVE WaitCode'
    BY <1>5 DEF DrainEnds
  <1>6. ASSUME Read PROVE WaitCode'
    BY <1>6 DEF Read, Unread
  <1>7. ASSUME Chunk PROVE WaitCode'
    BY <1>7 DEF Chunk
  <1>8. ASSUME ChunkDone PROVE WaitCode'
    BY <1>8 DEF ChunkDone
  <1>9. ASSUME ReadError PROVE WaitCode'
    BY <1>9 DEF ReadError, LeaveLoop, ReadFails, Unread
  <1>10. ASSUME Reap PROVE WaitCode'
    BY <1>10 DEF Reap, Waited
  <1>11. ASSUME Record PROVE WaitCode'
    BY <1>11 DEF Record
  <1>12. ASSUME Signal PROVE WaitCode'
    BY <1>12 DEF Signal, Close, CloseTerm
  <1>13. ASSUME Tell PROVE WaitCode'
    BY <1>13 DEF Tell
  <1>14. ASSUME NEW c \in Caller, NEW n \in Sizes, Resize(c, n) PROVE WaitCode'
    BY <1>14 DEF Resize, ResizeStart
  <1>15. ASSUME NEW c \in Caller, ResizePty(c) PROVE WaitCode'
    BY <1>15 DEF ResizePty, SetPtySize
  <1>16. ASSUME NEW c \in Caller, Capture(c) PROVE WaitCode'
    BY <1>16 DEF Capture, CaptureStep
  <1>17. ASSUME NEW c \in Caller, SettleDone(c) PROVE WaitCode'
    BY <1>17 DEF SettleDone, CaptureStep
  <1>18. ASSUME NEW c \in Caller, Snapshot(c) PROVE WaitCode'
    BY <1>18 DEF Snapshot, CaptureStep
  <1>19. ASSUME NEW c \in Caller, CaptureFails(c) PROVE WaitCode'
    BY <1>19 DEF CaptureFails, CaptureStep
  <1>20. ASSUME NEW c \in Caller, Wait(c) PROVE WaitCode'
    BY <1>20 DEF Wait, WaitStep
  <1>21. ASSUME NEW c \in Caller, WaitReturns(c) PROVE WaitCode'
    BY <1>21 DEF WaitReturns, WaitStep
  <1>22. ASSUME NEW c \in Caller, WaitGivesUp(c) PROVE WaitCode'
    BY <1>22 DEF WaitGivesUp, WaitStep
  <1>23. ASSUME NEW c \in Caller, KillBegin(c) PROVE WaitCode'
    BY <1>23 DEF KillBegin, KillStep
  <1>24. ASSUME NEW c \in Caller, KillMark(c) PROVE WaitCode'
    BY <1>24 DEF KillMark, KillStep
  <1>25. ASSUME NEW c \in Caller, KillPty(c) PROVE WaitCode'
    BY <1>25 DEF KillPty, KillStep
  <1>26. ASSUME NEW c \in Caller, KillChild(c) PROVE WaitCode'
    BY <1>26 DEF KillChild, KillStep, CloseTerm
  <1>27. ASSUME NEW c \in Caller, KillWait(c) PROVE WaitCode'
    BY <1>27 DEF KillWait, KillStep
  <1>28. ASSUME NEW c \in Caller, Deadline(c) PROVE WaitCode'
    BY <1>28 DEF Deadline
  <1>29. CASE UNCHANGED vars
    BY <1>29 DEF vars
  <1> QED
    BY <1>1, <1>2, <1>3, <1>4, <1>5, <1>6, <1>7, <1>8, <1>9, <1>10, <1>11,
       <1>12, <1>13, <1>14, <1>15, <1>16, <1>17, <1>18, <1>19, <1>20, <1>21,
       <1>22, <1>23, <1>24, <1>25, <1>26, <1>27, <1>28, <1>29
    DEF Next, ReadLoop, Killing

-----------------------------------------------------------------------------
\* The inductive invariant.
IInv == TypeOK /\ Counted /\ Finished /\ AllRead /\ Locked /\ WaitCode

\* It holds in every reachable state.
LEMMA Invariant == Spec => []IInv
  <1>1. Init => IInv
    BY InitInv DEF IInv
  <1>2. IInv /\ [Next]_vars => IInv'
    BY TypeStep, CountedStep, FinishedStep, AllReadStep, LockedStep,
       WaitCodeStep
    DEF IInv
  <1> QED
    BY <1>1, <1>2, PTL DEF Spec

\* The types are right in every reachable state; with them, that the ring
\* never holds more than was written and that a size of the PTY fits in Word.
THEOREM TypeCorrect == Spec => []TypeOK
  <1>1. IInv => TypeOK
    BY DEF IInv
  <1> QED
    BY Invariant, <1>1, PTL

\* Wait returns no code but the one the child ended with: finish stores the
\* code before it closes the channel.
THEOREM WaitCodeCorrect == Spec => []WaitCode
  <1>1. IInv => WaitCode
    BY DEF IInv
  <1> QED
    BY Invariant, <1>1, PTL

\* Whoever gets the lock finds the emulator and the PTY of one size: Resize
\* changes both in one critical section.
THEOREM SizesCorrect == Spec => []SizesAgree
  <1>1. IInv => SizesAgree
    BY FreeAssumption DEF IInv, TypeOK, Locked, SizesAgree
  <1> QED
    BY Invariant, <1>1, PTL

-----------------------------------------------------------------------------
\* The session is over, for the contract.
Over == exited \/ \E c \in Caller : pc[c] = "returned"

\* A session that is over has nothing left to deliver, and nobody delivers.
LEMMA OverIsFinal == IInv /\ Over => ~alive /\ Recorded /\ LoopLeft
  BY DEF IInv, Over, Finished, Recorded, LoopLeft

\* Every step is one of the contract's, or none of its business.
LEMMA ContractStep ==
    IInv /\ [Next]_vars => [Contract!Next]_(Contract!vars)
  <1> SUFFICES ASSUME IInv, [Next]_vars
               PROVE  [Contract!Next]_(Contract!vars)
    OBVIOUS
  <1> DEFINE same == UNCHANGED <<written, ring, pty, Over>>
  <1>0. same => UNCHANGED Contract!vars
    BY DEF Contract!vars, Over
  <1>1. ASSUME UNCHANGED vars PROVE same
    <2>1. UNCHANGED <<written, ring, pty, exited, pc>>
      BY <1>1 DEF vars, progVars, ptyVars, endVars
    <2> QED
      BY <2>1, Zenon DEF Over
  <1> USE DEF IInv, TypeOK, Codes, progVars, ptyVars, termVars, endVars, Over
  <1>2. ASSUME ProgramStep PROVE same \/ Contract!Write
    <2>1. CASE written' = written
      BY <1>2, <2>1 DEF ProgramStep, Program
    <2>2. CASE written' = written + 1 /\ holders # {} /\ pty = "open"
      <3>1. ~LoopLeft
        BY <2>2 DEF AllRead
      <3>2. ~Over
        BY <3>1, OverIsFinal
      <3> QED
        BY <1>2, <2>2, <3>2 DEF ProgramStep, Contract!Write
    <2> QED
      BY <1>2, <2>1, <2>2 DEF ProgramStep, Program
  <1>3. ASSUME Chunk PROVE Contract!Deliver
    <2>1. ~Over
      BY <1>3, OverIsFinal DEF Chunk, LoopLeft
    <2> QED
      BY <1>3, <2>1 DEF Chunk, Counted, Contract!Deliver
  <1>4. ASSUME Signal PROVE same \/ Contract!End
    BY <1>4 DEF Signal, Close, CloseTerm, AllRead, LoopLeft, Contract!End
  <1>5. ASSUME NEW c \in Caller, KillBegin(c) PROVE same \/ Contract!End
    BY <1>5
    DEF KillBegin, KillStep, Finished, Recorded, AllRead, LoopLeft,
        Contract!End
  <1>6. ASSUME NEW c \in Caller, KillPty(c) PROVE Contract!TearDown
    BY <1>6 DEF KillPty, KillStep, Contract!TearDown
  <1>7. ASSUME NEW c \in Caller, KillWait(c) PROVE Contract!End
    BY <1>7
    DEF KillWait, KillStep, AllRead, LoopLeft, Contract!End
  <1>8. ASSUME Calm PROVE same
    BY <1>8 DEF Calm
  <1>9. ASSUME Write PROVE same
    BY <1>9 DEF Write
  <1>10. ASSUME Answer PROVE same
    BY <1>10 DEF Answer
  <1>11. ASSUME DrainEnds PROVE same
    BY <1>11 DEF DrainEnds
  <1>12. ASSUME Read PROVE same
    BY <1>12 DEF Read, Unread
  <1>13. ASSUME ChunkDone PROVE same
    BY <1>13 DEF ChunkDone
  <1>14. ASSUME ReadError PROVE same
    BY <1>14 DEF ReadError, LeaveLoop, ReadFails, Unread
  <1>15. ASSUME Reap PROVE same
    BY <1>15 DEF Reap, Waited, Finished
  <1>16. ASSUME Record PROVE same
    BY <1>16 DEF Record
  <1>17. ASSUME Tell PROVE same
    BY <1>17 DEF Tell
  <1>18. ASSUME NEW c \in Caller, NEW n \in Sizes, Resize(c, n) PROVE same
    BY <1>18 DEF Resize, ResizeStart
  <1>19. ASSUME NEW c \in Caller, ResizePty(c) PROVE same
    BY <1>19 DEF ResizePty, SetPtySize
  <1>20. ASSUME NEW c \in Caller, Capture(c) PROVE same
    BY <1>20 DEF Capture, CaptureStep
  <1>21. ASSUME NEW c \in Caller, SettleDone(c) PROVE same
    BY <1>21 DEF SettleDone, CaptureStep
  <1>22. ASSUME NEW c \in Caller, Snapshot(c) PROVE same
    BY <1>22 DEF Snapshot, CaptureStep
  <1>23. ASSUME NEW c \in Caller, CaptureFails(c) PROVE same
    BY <1>23 DEF CaptureFails, CaptureStep
  <1>24. ASSUME NEW c \in Caller, Wait(c) PROVE same
    BY <1>24 DEF Wait, WaitStep
  <1>25. ASSUME NEW c \in Caller, WaitReturns(c) PROVE same
    BY <1>25 DEF WaitReturns, WaitStep
  <1>26. ASSUME NEW c \in Caller, WaitGivesUp(c) PROVE same
    BY <1>26 DEF WaitGivesUp, WaitStep
  <1>27. ASSUME NEW c \in Caller, KillMark(c) PROVE same
    BY <1>27 DEF KillMark, KillStep
  <1>28. ASSUME NEW c \in Caller, KillChild(c) PROVE same
    BY <1>28 DEF KillChild, KillStep, CloseTerm
  <1>29. ASSUME NEW c \in Caller, Deadline(c) PROVE same
    BY <1>29 DEF Deadline
  <1> HIDE DEF same, Over
  <1> QED
    BY <1>0, <1>1, <1>2, <1>3, <1>4, <1>5, <1>6, <1>7, <1>8, <1>9, <1>10,
       <1>11, <1>12, <1>13, <1>14, <1>15, <1>16, <1>17, <1>18, <1>19, <1>20,
       <1>21, <1>22, <1>23, <1>24, <1>25, <1>26, <1>27, <1>28,
       <1>29
    DEF Next, ReadLoop, Killing, Contract!Next

\* A session keeps the contract: what was written before the end of the output
\* is in the scrollback before the exit is announced, unless Kill closed the
\* PTY, and nothing is appended after an exit that was announced or a Kill
\* that has returned.
THEOREM PromiseKept == Spec => Promise
  <1>1. Init => Contract!Init
    BY DEF Init, Contract!Init
  <1> QED
    BY <1>1, Invariant, ContractStep, PTL DEF Spec, Promise, Contract!Spec
=============================================================================
