---------------------------- MODULE DaemonProofs ----------------------------
(***************************************************************************)
(* Proofs about Daemon, for any sets of connections, sessions and keys.    *)
(* TypeOK is inductive.  With it, so is SessionsStarted: a session that a  *)
(* handler is about to start is in nobody else's hands, and every session  *)
(* that is registered, about to be killed or being killed has been started.*)
(* The safety properties follow from the two, each by one induction more.  *)
(***************************************************************************)
EXTENDS Daemon, TLAPS

\* The initial state is well typed.
LEMMA TypeInit == Init => TypeOK
  <1> SUFFICES ASSUME Init PROVE TypeOK
    OBVIOUS
  <1> USE KeyOfAssumption, DistinctAssumption
      DEF KeyOfAssumption, DistinctAssumption, Init
  <1>1. tgt \in [Thread -> Sess \cup {NoSess}] /\ victims \in [Thread -> SUBSET Sess]
    OBVIOUS
  <1>2. pc \in [Thread -> {"serving", "new"}]
    OBVIOUS
  <1> QED
    BY <1>1, <1>2 DEF TypeOK, LoopState, PcState, SdState, OnSession, Held

\* Every step of the daemon keeps the types.
LEMMA TypeStep == TypeOK /\ [Next]_vars => TypeOK'
  <1> SUFFICES ASSUME TypeOK, [Next]_vars PROVE TypeOK'
    OBVIOUS
  <1> USE KeyOfAssumption, DistinctAssumption
      DEF KeyOfAssumption, DistinctAssumption
  <1> USE DEF TypeOK, Thread, LoopState, PcState, SdState, OnSession, Held,
              HeldLive, WithKey, Registered, Goto, Take, Leave,
              serverVars, sessVars, connVars, threadVars
  <1>1. ASSUME NEW c \in Conn, Accept(c) PROVE TypeOK'
    BY <1>1 DEF Accept
  <1>2. ASSUME NEW c \in Conn, Register(c) PROVE TypeOK'
    BY <1>2 DEF Register
  <1>3. ASSUME NEW c \in Conn, NEW s \in Sess, NewSession(c, s) PROVE TypeOK'
    BY <1>3 DEF NewSession
  <1>4. ASSUME NEW c \in Conn, NEW k \in Key, AttachGet(c, k) PROVE TypeOK'
    BY <1>4 DEF AttachGet
  <1>5. ASSUME NEW c \in Conn, NEW k \in Key, DetachGet(c, k) PROVE TypeOK'
    BY <1>5 DEF DetachGet, DetachFrom
  <1>6. ASSUME NEW c \in Conn, NEW k \in Key, DetachNone(c, k) PROVE TypeOK'
    BY <1>6 DEF DetachNone
  <1>7. ASSUME NEW c \in Conn, NEW k \in Key, Write(c, k) PROVE TypeOK'
    BY <1>7 DEF Write
  <1>8. ASSUME NEW c \in Conn, NEW k \in Key, KillRequest(c, k) PROVE TypeOK'
    BY <1>8 DEF KillRequest
  <1>9. ASSUME NEW c \in Conn, GcRequest(c) PROVE TypeOK'
    BY <1>9 DEF GcRequest
  <1>10. ASSUME NEW c \in Conn, ShutdownBegin(c) PROVE TypeOK'
    BY <1>10 DEF ShutdownBegin
  <1>11. ASSUME NEW c \in Conn, Spawn(c) PROVE TypeOK'
    BY <1>11 DEF Spawn
  <1>12. ASSUME NEW c \in Conn, SpawnFails(c) PROVE TypeOK'
    BY <1>12 DEF SpawnFails
  <1>13. ASSUME NEW c \in Conn, SetCore(c) PROVE TypeOK'
    BY <1>13 DEF SetCore
  <1>14. ASSUME NEW c \in Conn, AddSession(c) PROVE TypeOK'
    BY <1>14 DEF AddSession, Enter
  <1>15. ASSUME NEW c \in Conn, LoseRace(c) PROVE TypeOK'
    BY <1>15 DEF LoseRace
  <1>16. ASSUME NEW c \in Conn, AttachAdd(c) PROVE TypeOK'
    BY <1>16 DEF AttachAdd
  <1>17. ASSUME NEW c \in Conn, AttachLock(c) PROVE TypeOK'
    BY <1>17 DEF AttachLock
  <1>18. ASSUME NEW c \in Conn, DetachLock(c) PROVE TypeOK'
    BY <1>18 DEF DetachLock
  <1>19. ASSUME NEW c \in Conn, DetachDrop(c) PROVE TypeOK'
    BY <1>19 DEF DetachDrop
  <1>20. ASSUME NEW c \in Conn, WriteReturns(c) PROVE TypeOK'
    BY <1>20 DEF WriteReturns
  <1>21. ASSUME NEW c \in Conn, WriteFails(c) PROVE TypeOK'
    BY <1>21 DEF WriteFails
  <1>22. ASSUME NEW c \in Conn, ShutdownKeys(c) PROVE TypeOK'
    BY <1>22 DEF ShutdownKeys
  <1>23. ASSUME NEW c \in Conn, NEW k \in Key, ShutdownGet(c, k) PROVE TypeOK'
    BY <1>23 DEF ShutdownGet
  <1>24. ASSUME NEW c \in Conn, NEW k \in Key, ShutdownSkip(c, k) PROVE TypeOK'
    BY <1>24 DEF ShutdownSkip
  <1>25. ASSUME NEW c \in Conn, ShutdownDetach(c) PROVE TypeOK'
    BY <1>25 DEF ShutdownDetach
  <1>26. ASSUME NEW c \in Conn, ShutdownDrop(c) PROVE TypeOK'
    BY <1>26 DEF ShutdownDrop
  <1>27. ASSUME NEW c \in Conn, ShutdownEnd(c) PROVE TypeOK'
    BY <1>27 DEF ShutdownEnd
  <1>28. ASSUME NEW c \in Conn, ReaderExit(c) PROVE TypeOK'
    BY <1>28 DEF ReaderExit
  <1>29. ASSUME NEW t \in Thread, NextVictim(t) PROVE TypeOK'
    BY <1>29 DEF NextVictim
  <1>30. ASSUME NEW t \in Thread, VictimsDone(t) PROVE TypeOK'
    BY <1>30 DEF VictimsDone
  <1>31. ASSUME NEW t \in Thread, KillAgain(t) PROVE TypeOK'
    BY <1>31 DEF KillAgain, SkipKill
  <1>32. ASSUME NEW t \in Thread, Kill(t) PROVE TypeOK'
    BY <1>32 DEF Kill
  <1>33. ASSUME NEW t \in Thread, KillWaited(t) PROVE TypeOK'
    BY <1>33 DEF KillWaited
  <1>34. ASSUME NEW t \in Thread, KillReturned(t) PROVE TypeOK'
    BY <1>34 DEF KillReturned
  <1>35. ASSUME NEW s \in Sess, Finish(s) PROVE TypeOK'
    BY <1>35 DEF Finish
  <1>36. ASSUME NEW s \in Sess, OnExitNilCore(s) PROVE TypeOK'
    BY <1>36 DEF OnExitNilCore
  <1>37. ASSUME NEW s \in Sess, OnExit(s) PROVE TypeOK'
    BY <1>37 DEF OnExit, TakeList
  <1>38. ASSUME NEW s \in Sess, NEW c \in Conn, OnExitTell(s, c) PROVE TypeOK'
    BY <1>38 DEF OnExitTell, Tell
  <1>39. ASSUME NEW s \in Sess, OnExitDrop(s) PROVE TypeOK'
    BY <1>39 DEF OnExitDrop
  <1>40. ASSUME NEW s \in Sess, RemoveSession(s) PROVE TypeOK'
    BY <1>40 DEF RemoveSession, EndLoop
  <1>41. ASSUME CloseListener PROVE TypeOK'
    BY <1>41 DEF CloseListener
  <1>42. ASSUME CloseSnapshot PROVE TypeOK'
    BY <1>42 DEF CloseSnapshot
  <1>43. ASSUME NEW c \in Conn, CloseDropped(c) PROVE TypeOK'
    BY <1>43 DEF CloseDropped
  <1>44. ASSUME CloseKills PROVE TypeOK'
    BY <1>44 DEF CloseKills
  <1>45. CASE UNCHANGED vars
    BY <1>45 DEF vars
  <1> QED
    BY <1>1, <1>2, <1>3, <1>4, <1>5, <1>6, <1>7, <1>8, <1>9, <1>10, <1>11,
       <1>12, <1>13, <1>14, <1>15, <1>16, <1>17, <1>18, <1>19, <1>20, <1>21,
       <1>22, <1>23, <1>24, <1>25, <1>26, <1>27, <1>28, <1>29, <1>30, <1>31,
       <1>32, <1>33, <1>34, <1>35, <1>36, <1>37, <1>38, <1>39, <1>40, <1>41,
       <1>42, <1>43, <1>44, <1>45
    DEF Next, Request, Handler, Killing, Exiting, Shutdown, Close, CloseShuts

\* The types are right in every reachable state; with them, that every handler
\* works on a session getSession has found.
THEOREM TypeCorrect == Spec => []TypeOK
  BY TypeInit, TypeStep, PTL DEF Spec

-----------------------------------------------------------------------------
\* Nobody holds a session before it is started, except the handler starting it.
LEMMA StartedStep ==
    TypeOK /\ SessionsStarted /\ [Next]_vars => SessionsStarted'
  <1> SUFFICES ASSUME TypeOK, SessionsStarted, [Next]_vars
               PROVE  SessionsStarted'
    OBVIOUS
  <1> USE KeyOfAssumption, DistinctAssumption
      DEF KeyOfAssumption, DistinctAssumption
  <1> USE DEF TypeOK, SessionsStarted, Started, Thread, OnSession, Held,
              HeldLive, Registered, Goto, Take, Leave,
              serverVars, sessVars, connVars, threadVars
  <1>1. ASSUME NEW c \in Conn, Accept(c) PROVE SessionsStarted'
    BY <1>1 DEF Accept
  <1>2. ASSUME NEW c \in Conn, Register(c) PROVE SessionsStarted'
    BY <1>2 DEF Register
  <1>3. ASSUME NEW c \in Conn, NEW s \in Sess, NewSession(c, s) PROVE SessionsStarted'
    BY <1>3 DEF NewSession
  <1>4. ASSUME NEW c \in Conn, NEW k \in Key, AttachGet(c, k) PROVE SessionsStarted'
    BY <1>4 DEF AttachGet
  <1>5. ASSUME NEW c \in Conn, NEW k \in Key, DetachGet(c, k) PROVE SessionsStarted'
    BY <1>5 DEF DetachGet, DetachFrom
  <1>6. ASSUME NEW c \in Conn, NEW k \in Key, DetachNone(c, k) PROVE SessionsStarted'
    BY <1>6 DEF DetachNone
  <1>7. ASSUME NEW c \in Conn, NEW k \in Key, Write(c, k) PROVE SessionsStarted'
    BY <1>7 DEF Write
  <1>8. ASSUME NEW c \in Conn, NEW k \in Key, KillRequest(c, k) PROVE SessionsStarted'
    BY <1>8 DEF KillRequest
  <1>9. ASSUME NEW c \in Conn, GcRequest(c) PROVE SessionsStarted'
    BY <1>9 DEF GcRequest
  <1>10. ASSUME NEW c \in Conn, ShutdownBegin(c) PROVE SessionsStarted'
    BY <1>10 DEF ShutdownBegin
  <1>11. ASSUME NEW c \in Conn, Spawn(c) PROVE SessionsStarted'
    BY <1>11 DEF Spawn
  <1>12. ASSUME NEW c \in Conn, SpawnFails(c) PROVE SessionsStarted'
    BY <1>12 DEF SpawnFails
  <1>13. ASSUME NEW c \in Conn, SetCore(c) PROVE SessionsStarted'
    BY <1>13 DEF SetCore
  <1>14. ASSUME NEW c \in Conn, AddSession(c) PROVE SessionsStarted'
    BY <1>14 DEF AddSession, Enter
  <1>15. ASSUME NEW c \in Conn, LoseRace(c) PROVE SessionsStarted'
    BY <1>15 DEF LoseRace
  <1>16. ASSUME NEW c \in Conn, AttachAdd(c) PROVE SessionsStarted'
    BY <1>16 DEF AttachAdd
  <1>17. ASSUME NEW c \in Conn, AttachLock(c) PROVE SessionsStarted'
    BY <1>17 DEF AttachLock
  <1>18. ASSUME NEW c \in Conn, DetachLock(c) PROVE SessionsStarted'
    BY <1>18 DEF DetachLock
  <1>19. ASSUME NEW c \in Conn, DetachDrop(c) PROVE SessionsStarted'
    BY <1>19 DEF DetachDrop
  <1>20. ASSUME NEW c \in Conn, WriteReturns(c) PROVE SessionsStarted'
    BY <1>20 DEF WriteReturns
  <1>21. ASSUME NEW c \in Conn, WriteFails(c) PROVE SessionsStarted'
    BY <1>21 DEF WriteFails
  <1>22. ASSUME NEW c \in Conn, ShutdownKeys(c) PROVE SessionsStarted'
    BY <1>22 DEF ShutdownKeys
  <1>23. ASSUME NEW c \in Conn, NEW k \in Key, ShutdownGet(c, k) PROVE SessionsStarted'
    BY <1>23 DEF ShutdownGet
  <1>24. ASSUME NEW c \in Conn, NEW k \in Key, ShutdownSkip(c, k) PROVE SessionsStarted'
    BY <1>24 DEF ShutdownSkip
  <1>25. ASSUME NEW c \in Conn, ShutdownDetach(c) PROVE SessionsStarted'
    BY <1>25 DEF ShutdownDetach
  <1>26. ASSUME NEW c \in Conn, ShutdownDrop(c) PROVE SessionsStarted'
    BY <1>26 DEF ShutdownDrop
  <1>27. ASSUME NEW c \in Conn, ShutdownEnd(c) PROVE SessionsStarted'
    BY <1>27 DEF ShutdownEnd
  <1>28. ASSUME NEW c \in Conn, ReaderExit(c) PROVE SessionsStarted'
    BY <1>28 DEF ReaderExit
  <1>29. ASSUME NEW t \in Thread, NextVictim(t) PROVE SessionsStarted'
    BY <1>29 DEF NextVictim
  <1>30. ASSUME NEW t \in Thread, VictimsDone(t) PROVE SessionsStarted'
    BY <1>30 DEF VictimsDone
  <1>31. ASSUME NEW t \in Thread, KillAgain(t) PROVE SessionsStarted'
    BY <1>31 DEF KillAgain, SkipKill
  <1>32. ASSUME NEW t \in Thread, Kill(t) PROVE SessionsStarted'
    BY <1>32 DEF Kill
  <1>33. ASSUME NEW t \in Thread, KillWaited(t) PROVE SessionsStarted'
    BY <1>33 DEF KillWaited
  <1>34. ASSUME NEW t \in Thread, KillReturned(t) PROVE SessionsStarted'
    BY <1>34 DEF KillReturned
  <1>35. ASSUME NEW s \in Sess, Finish(s) PROVE SessionsStarted'
    BY <1>35 DEF Finish
  <1>36. ASSUME NEW s \in Sess, OnExitNilCore(s) PROVE SessionsStarted'
    BY <1>36 DEF OnExitNilCore
  <1>37. ASSUME NEW s \in Sess, OnExit(s) PROVE SessionsStarted'
    BY <1>37 DEF OnExit, TakeList
  <1>38. ASSUME NEW s \in Sess, NEW c \in Conn, OnExitTell(s, c) PROVE SessionsStarted'
    BY <1>38 DEF OnExitTell, Tell
  <1>39. ASSUME NEW s \in Sess, OnExitDrop(s) PROVE SessionsStarted'
    BY <1>39 DEF OnExitDrop
  <1>40. ASSUME NEW s \in Sess, RemoveSession(s) PROVE SessionsStarted'
    BY <1>40 DEF RemoveSession, EndLoop
  <1>41. ASSUME CloseListener PROVE SessionsStarted'
    BY <1>41 DEF CloseListener
  <1>42. ASSUME CloseSnapshot PROVE SessionsStarted'
    BY <1>42 DEF CloseSnapshot
  <1>43. ASSUME NEW c \in Conn, CloseDropped(c) PROVE SessionsStarted'
    BY <1>43 DEF CloseDropped
  <1>44. ASSUME CloseKills PROVE SessionsStarted'
    BY <1>44 DEF CloseKills
  <1>45. CASE UNCHANGED vars
    BY <1>45 DEF vars
  <1> QED
    BY <1>1, <1>2, <1>3, <1>4, <1>5, <1>6, <1>7, <1>8, <1>9, <1>10, <1>11,
       <1>12, <1>13, <1>14, <1>15, <1>16, <1>17, <1>18, <1>19, <1>20, <1>21,
       <1>22, <1>23, <1>24, <1>25, <1>26, <1>27, <1>28, <1>29, <1>30, <1>31,
       <1>32, <1>33, <1>34, <1>35, <1>36, <1>37, <1>38, <1>39, <1>40, <1>41,
       <1>42, <1>43, <1>44, <1>45
    DEF Next, Request, Handler, Killing, Exiting, Shutdown, Close, CloseShuts

\* SessionsStarted holds in every reachable state.
THEOREM StartedCorrect == Spec => []SessionsStarted
  <1>1. Init => SessionsStarted
    BY KeyOfAssumption, DistinctAssumption
    DEF KeyOfAssumption, DistinctAssumption, Init, SessionsStarted, Started,
        Thread, Registered
  <1> QED
    BY <1>1, TypeCorrect, StartedStep, PTL DEF Spec

-----------------------------------------------------------------------------
\* A step never leaves a live session without the registry or a handler.
LEMMA NoOrphanStep ==
    TypeOK /\ SessionsStarted /\ NoOrphan /\ [Next]_vars => NoOrphan'
  <1> SUFFICES ASSUME TypeOK, SessionsStarted, NoOrphan, [Next]_vars
               PROVE  NoOrphan'
    OBVIOUS
  <1> USE KeyOfAssumption, DistinctAssumption
      DEF KeyOfAssumption, DistinctAssumption
  <1> USE DEF TypeOK, SessionsStarted, NoOrphan, Alive, Thread, OnSession, Held,
              HeldLive, Goto, Take, Leave,
              serverVars, sessVars, connVars, threadVars
  <1>1. ASSUME NEW c \in Conn, Accept(c) PROVE NoOrphan'
    BY <1>1 DEF Accept
  <1>2. ASSUME NEW c \in Conn, Register(c) PROVE NoOrphan'
    BY <1>2 DEF Register
  <1>3. ASSUME NEW c \in Conn, NEW s \in Sess, NewSession(c, s) PROVE NoOrphan'
    BY <1>3 DEF NewSession
  <1>4. ASSUME NEW c \in Conn, NEW k \in Key, AttachGet(c, k) PROVE NoOrphan'
    BY <1>4 DEF AttachGet
  <1>5. ASSUME NEW c \in Conn, NEW k \in Key, DetachGet(c, k) PROVE NoOrphan'
    BY <1>5 DEF DetachGet, DetachFrom
  <1>6. ASSUME NEW c \in Conn, NEW k \in Key, DetachNone(c, k) PROVE NoOrphan'
    BY <1>6 DEF DetachNone
  <1>7. ASSUME NEW c \in Conn, NEW k \in Key, Write(c, k) PROVE NoOrphan'
    BY <1>7 DEF Write
  <1>8. ASSUME NEW c \in Conn, NEW k \in Key, KillRequest(c, k) PROVE NoOrphan'
    BY <1>8 DEF KillRequest
  <1>9. ASSUME NEW c \in Conn, GcRequest(c) PROVE NoOrphan'
    BY <1>9 DEF GcRequest
  <1>10. ASSUME NEW c \in Conn, ShutdownBegin(c) PROVE NoOrphan'
    BY <1>10 DEF ShutdownBegin
  <1>11. ASSUME NEW c \in Conn, Spawn(c) PROVE NoOrphan'
    BY <1>11 DEF Spawn
  <1>12. ASSUME NEW c \in Conn, SpawnFails(c) PROVE NoOrphan'
    BY <1>12 DEF SpawnFails
  <1>13. ASSUME NEW c \in Conn, SetCore(c) PROVE NoOrphan'
    BY <1>13 DEF SetCore
  <1>14. ASSUME NEW c \in Conn, AddSession(c) PROVE NoOrphan'
    BY <1>14 DEF AddSession, Enter
  <1>15. ASSUME NEW c \in Conn, LoseRace(c) PROVE NoOrphan'
    BY <1>15 DEF LoseRace
  <1>16. ASSUME NEW c \in Conn, AttachAdd(c) PROVE NoOrphan'
    BY <1>16 DEF AttachAdd
  <1>17. ASSUME NEW c \in Conn, AttachLock(c) PROVE NoOrphan'
    BY <1>17 DEF AttachLock
  <1>18. ASSUME NEW c \in Conn, DetachLock(c) PROVE NoOrphan'
    BY <1>18 DEF DetachLock
  <1>19. ASSUME NEW c \in Conn, DetachDrop(c) PROVE NoOrphan'
    BY <1>19 DEF DetachDrop
  <1>20. ASSUME NEW c \in Conn, WriteReturns(c) PROVE NoOrphan'
    BY <1>20 DEF WriteReturns
  <1>21. ASSUME NEW c \in Conn, WriteFails(c) PROVE NoOrphan'
    BY <1>21 DEF WriteFails
  <1>22. ASSUME NEW c \in Conn, ShutdownKeys(c) PROVE NoOrphan'
    BY <1>22 DEF ShutdownKeys
  <1>23. ASSUME NEW c \in Conn, NEW k \in Key, ShutdownGet(c, k) PROVE NoOrphan'
    BY <1>23 DEF ShutdownGet
  <1>24. ASSUME NEW c \in Conn, NEW k \in Key, ShutdownSkip(c, k) PROVE NoOrphan'
    BY <1>24 DEF ShutdownSkip
  <1>25. ASSUME NEW c \in Conn, ShutdownDetach(c) PROVE NoOrphan'
    BY <1>25 DEF ShutdownDetach
  <1>26. ASSUME NEW c \in Conn, ShutdownDrop(c) PROVE NoOrphan'
    BY <1>26 DEF ShutdownDrop
  <1>27. ASSUME NEW c \in Conn, ShutdownEnd(c) PROVE NoOrphan'
    BY <1>27 DEF ShutdownEnd
  <1>28. ASSUME NEW c \in Conn, ReaderExit(c) PROVE NoOrphan'
    BY <1>28 DEF ReaderExit
  <1>29. ASSUME NEW t \in Thread, NextVictim(t) PROVE NoOrphan'
    BY <1>29 DEF NextVictim
  <1>30. ASSUME NEW t \in Thread, VictimsDone(t) PROVE NoOrphan'
    BY <1>30 DEF VictimsDone
  <1>31. ASSUME NEW t \in Thread, KillAgain(t) PROVE NoOrphan'
    BY <1>31 DEF KillAgain, SkipKill
  <1>32. ASSUME NEW t \in Thread, Kill(t) PROVE NoOrphan'
    BY <1>32 DEF Kill
  <1>33. ASSUME NEW t \in Thread, KillWaited(t) PROVE NoOrphan'
    BY <1>33 DEF KillWaited
  <1>34. ASSUME NEW t \in Thread, KillReturned(t) PROVE NoOrphan'
    BY <1>34 DEF KillReturned
  <1>35. ASSUME NEW s \in Sess, Finish(s) PROVE NoOrphan'
    BY <1>35 DEF Finish
  <1>36. ASSUME NEW s \in Sess, OnExitNilCore(s) PROVE NoOrphan'
    BY <1>36 DEF OnExitNilCore
  <1>37. ASSUME NEW s \in Sess, OnExit(s) PROVE NoOrphan'
    BY <1>37 DEF OnExit, TakeList
  <1>38. ASSUME NEW s \in Sess, NEW c \in Conn, OnExitTell(s, c) PROVE NoOrphan'
    BY <1>38 DEF OnExitTell, Tell
  <1>39. ASSUME NEW s \in Sess, OnExitDrop(s) PROVE NoOrphan'
    BY <1>39 DEF OnExitDrop
  <1>40. ASSUME NEW s \in Sess, RemoveSession(s) PROVE NoOrphan'
    BY <1>40 DEF RemoveSession, EndLoop
  <1>41. ASSUME CloseListener PROVE NoOrphan'
    BY <1>41 DEF CloseListener
  <1>42. ASSUME CloseSnapshot PROVE NoOrphan'
    BY <1>42 DEF CloseSnapshot
  <1>43. ASSUME NEW c \in Conn, CloseDropped(c) PROVE NoOrphan'
    BY <1>43 DEF CloseDropped
  <1>44. ASSUME CloseKills PROVE NoOrphan'
    BY <1>44 DEF CloseKills
  <1>45. CASE UNCHANGED vars
    BY <1>45 DEF vars
  <1> QED
    BY <1>1, <1>2, <1>3, <1>4, <1>5, <1>6, <1>7, <1>8, <1>9, <1>10, <1>11,
       <1>12, <1>13, <1>14, <1>15, <1>16, <1>17, <1>18, <1>19, <1>20, <1>21,
       <1>22, <1>23, <1>24, <1>25, <1>26, <1>27, <1>28, <1>29, <1>30, <1>31,
       <1>32, <1>33, <1>34, <1>35, <1>36, <1>37, <1>38, <1>39, <1>40, <1>41,
       <1>42, <1>43, <1>44, <1>45
    DEF Next, Request, Handler, Killing, Exiting, Shutdown, Close, CloseShuts

\* No live PTY is ever orphaned, whatever creations, kills and exits of one id
\* interleave.
THEOREM NoOrphanCorrect == Spec => []NoOrphan
  <1>1. Init => NoOrphan
    BY DEF Init, NoOrphan, Alive
  <1> QED
    BY <1>1, TypeCorrect, StartedCorrect, NoOrphanStep, PTL DEF Spec

-----------------------------------------------------------------------------
\* Kill returns early only for a dead session, and a dead one stays dead.
LEMMA KilledStep ==
    TypeOK /\ SessionsStarted /\ KilledIsDead /\ [Next]_vars => KilledIsDead'
  <1> SUFFICES ASSUME TypeOK, SessionsStarted, KilledIsDead, [Next]_vars
               PROVE  KilledIsDead'
    OBVIOUS
  <1> USE KeyOfAssumption, DistinctAssumption
      DEF KeyOfAssumption, DistinctAssumption
  <1> USE DEF TypeOK, SessionsStarted, Started, KilledIsDead, Alive, Thread,
              OnSession, Held, HeldLive, Goto, Take, Leave,
              serverVars, sessVars, connVars, threadVars
  <1>1. ASSUME NEW c \in Conn, Accept(c) PROVE KilledIsDead'
    BY <1>1 DEF Accept
  <1>2. ASSUME NEW c \in Conn, Register(c) PROVE KilledIsDead'
    BY <1>2 DEF Register
  <1>3. ASSUME NEW c \in Conn, NEW s \in Sess, NewSession(c, s) PROVE KilledIsDead'
    BY <1>3 DEF NewSession
  <1>4. ASSUME NEW c \in Conn, NEW k \in Key, AttachGet(c, k) PROVE KilledIsDead'
    BY <1>4 DEF AttachGet
  <1>5. ASSUME NEW c \in Conn, NEW k \in Key, DetachGet(c, k) PROVE KilledIsDead'
    BY <1>5 DEF DetachGet, DetachFrom
  <1>6. ASSUME NEW c \in Conn, NEW k \in Key, DetachNone(c, k) PROVE KilledIsDead'
    BY <1>6 DEF DetachNone
  <1>7. ASSUME NEW c \in Conn, NEW k \in Key, Write(c, k) PROVE KilledIsDead'
    BY <1>7 DEF Write
  <1>8. ASSUME NEW c \in Conn, NEW k \in Key, KillRequest(c, k) PROVE KilledIsDead'
    BY <1>8 DEF KillRequest
  <1>9. ASSUME NEW c \in Conn, GcRequest(c) PROVE KilledIsDead'
    BY <1>9 DEF GcRequest
  <1>10. ASSUME NEW c \in Conn, ShutdownBegin(c) PROVE KilledIsDead'
    BY <1>10 DEF ShutdownBegin
  <1>11. ASSUME NEW c \in Conn, Spawn(c) PROVE KilledIsDead'
    BY <1>11 DEF Spawn
  <1>12. ASSUME NEW c \in Conn, SpawnFails(c) PROVE KilledIsDead'
    BY <1>12 DEF SpawnFails
  <1>13. ASSUME NEW c \in Conn, SetCore(c) PROVE KilledIsDead'
    BY <1>13 DEF SetCore
  <1>14. ASSUME NEW c \in Conn, AddSession(c) PROVE KilledIsDead'
    BY <1>14 DEF AddSession, Enter
  <1>15. ASSUME NEW c \in Conn, LoseRace(c) PROVE KilledIsDead'
    BY <1>15 DEF LoseRace
  <1>16. ASSUME NEW c \in Conn, AttachAdd(c) PROVE KilledIsDead'
    BY <1>16 DEF AttachAdd
  <1>17. ASSUME NEW c \in Conn, AttachLock(c) PROVE KilledIsDead'
    BY <1>17 DEF AttachLock
  <1>18. ASSUME NEW c \in Conn, DetachLock(c) PROVE KilledIsDead'
    BY <1>18 DEF DetachLock
  <1>19. ASSUME NEW c \in Conn, DetachDrop(c) PROVE KilledIsDead'
    BY <1>19 DEF DetachDrop
  <1>20. ASSUME NEW c \in Conn, WriteReturns(c) PROVE KilledIsDead'
    BY <1>20 DEF WriteReturns
  <1>21. ASSUME NEW c \in Conn, WriteFails(c) PROVE KilledIsDead'
    BY <1>21 DEF WriteFails
  <1>22. ASSUME NEW c \in Conn, ShutdownKeys(c) PROVE KilledIsDead'
    BY <1>22 DEF ShutdownKeys
  <1>23. ASSUME NEW c \in Conn, NEW k \in Key, ShutdownGet(c, k) PROVE KilledIsDead'
    BY <1>23 DEF ShutdownGet
  <1>24. ASSUME NEW c \in Conn, NEW k \in Key, ShutdownSkip(c, k) PROVE KilledIsDead'
    BY <1>24 DEF ShutdownSkip
  <1>25. ASSUME NEW c \in Conn, ShutdownDetach(c) PROVE KilledIsDead'
    BY <1>25 DEF ShutdownDetach
  <1>26. ASSUME NEW c \in Conn, ShutdownDrop(c) PROVE KilledIsDead'
    BY <1>26 DEF ShutdownDrop
  <1>27. ASSUME NEW c \in Conn, ShutdownEnd(c) PROVE KilledIsDead'
    BY <1>27 DEF ShutdownEnd
  <1>28. ASSUME NEW c \in Conn, ReaderExit(c) PROVE KilledIsDead'
    BY <1>28 DEF ReaderExit
  <1>29. ASSUME NEW t \in Thread, NextVictim(t) PROVE KilledIsDead'
    BY <1>29 DEF NextVictim
  <1>30. ASSUME NEW t \in Thread, VictimsDone(t) PROVE KilledIsDead'
    BY <1>30 DEF VictimsDone
  <1>31. ASSUME NEW t \in Thread, KillAgain(t) PROVE KilledIsDead'
    BY <1>31 DEF KillAgain, SkipKill
  <1>32. ASSUME NEW t \in Thread, Kill(t) PROVE KilledIsDead'
    BY <1>32 DEF Kill
  <1>33. ASSUME NEW t \in Thread, KillWaited(t) PROVE KilledIsDead'
    BY <1>33 DEF KillWaited
  <1>34. ASSUME NEW t \in Thread, KillReturned(t) PROVE KilledIsDead'
    BY <1>34 DEF KillReturned
  <1>35. ASSUME NEW s \in Sess, Finish(s) PROVE KilledIsDead'
    BY <1>35 DEF Finish
  <1>36. ASSUME NEW s \in Sess, OnExitNilCore(s) PROVE KilledIsDead'
    BY <1>36 DEF OnExitNilCore
  <1>37. ASSUME NEW s \in Sess, OnExit(s) PROVE KilledIsDead'
    BY <1>37 DEF OnExit, TakeList
  <1>38. ASSUME NEW s \in Sess, NEW c \in Conn, OnExitTell(s, c) PROVE KilledIsDead'
    BY <1>38 DEF OnExitTell, Tell
  <1>39. ASSUME NEW s \in Sess, OnExitDrop(s) PROVE KilledIsDead'
    BY <1>39 DEF OnExitDrop
  <1>40. ASSUME NEW s \in Sess, RemoveSession(s) PROVE KilledIsDead'
    BY <1>40 DEF RemoveSession, EndLoop
  <1>41. ASSUME CloseListener PROVE KilledIsDead'
    BY <1>41 DEF CloseListener
  <1>42. ASSUME CloseSnapshot PROVE KilledIsDead'
    BY <1>42 DEF CloseSnapshot
  <1>43. ASSUME NEW c \in Conn, CloseDropped(c) PROVE KilledIsDead'
    BY <1>43 DEF CloseDropped
  <1>44. ASSUME CloseKills PROVE KilledIsDead'
    BY <1>44 DEF CloseKills
  <1>45. CASE UNCHANGED vars
    BY <1>45 DEF vars
  <1> QED
    BY <1>1, <1>2, <1>3, <1>4, <1>5, <1>6, <1>7, <1>8, <1>9, <1>10, <1>11,
       <1>12, <1>13, <1>14, <1>15, <1>16, <1>17, <1>18, <1>19, <1>20, <1>21,
       <1>22, <1>23, <1>24, <1>25, <1>26, <1>27, <1>28, <1>29, <1>30, <1>31,
       <1>32, <1>33, <1>34, <1>35, <1>36, <1>37, <1>38, <1>39, <1>40, <1>41,
       <1>42, <1>43, <1>44, <1>45
    DEF Next, Request, Handler, Killing, Exiting, Shutdown, Close, CloseShuts

\* Whoever is answered that a session is killed or reaped finds its child dead,
\* also when two goroutines kill it at once.
THEOREM KilledCorrect == Spec => []KilledIsDead
  <1>1. Init => KilledIsDead
    BY DEF Init, KilledIsDead, Thread
  <1> QED
    BY <1>1, TypeCorrect, StartedCorrect, KilledStep, PTL DEF Spec

-----------------------------------------------------------------------------
\* ToldIsTracked with what makes it inductive: a client whose detach request is
\* being carried out counts itself detached already, one that is gone counts
\* itself attached to nothing, and onExit's list is empty until it fills it.
ToldInv ==
    /\ ToldIsTracked
    /\ \A c \in Conn : pc[c] = "detachLock" => tgt[c] \notin told[c]
    /\ \A c \in Conn : sd[c] # "open" => told[c] = {}
    /\ \A s \in Sess :
         loop[s] \in {"none", "start", "read", "exit"} => toNotify[s] = {}

\* A step never makes the server forget a client that counts itself attached.
LEMMA ToldStep ==
    TypeOK /\ SessionsStarted /\ ToldInv /\ [Next]_vars => ToldInv'
  <1> SUFFICES ASSUME TypeOK, SessionsStarted, ToldInv, [Next]_vars
               PROVE  ToldInv'
    OBVIOUS
  <1> USE KeyOfAssumption, DistinctAssumption
      DEF KeyOfAssumption, DistinctAssumption
  <1> USE DEF TypeOK, SessionsStarted, ToldInv, ToldIsTracked, Thread, OnSession, Held,
              HeldLive, WithKey, Goto, Take, Leave,
              serverVars, sessVars, connVars, threadVars
  <1>1. ASSUME NEW c \in Conn, Accept(c) PROVE ToldInv'
    BY <1>1 DEF Accept
  <1>2. ASSUME NEW c \in Conn, Register(c) PROVE ToldInv'
    BY <1>2 DEF Register
  <1>3. ASSUME NEW c \in Conn, NEW s \in Sess, NewSession(c, s) PROVE ToldInv'
    BY <1>3 DEF NewSession
  <1>4. ASSUME NEW c \in Conn, NEW k \in Key, AttachGet(c, k) PROVE ToldInv'
    BY <1>4 DEF AttachGet
  <1>5. ASSUME NEW c \in Conn, NEW k \in Key, DetachGet(c, k) PROVE ToldInv'
    BY <1>5 DEF DetachGet, DetachFrom
  <1>6. ASSUME NEW c \in Conn, NEW k \in Key, DetachNone(c, k) PROVE ToldInv'
    BY <1>6 DEF DetachNone
  <1>7. ASSUME NEW c \in Conn, NEW k \in Key, Write(c, k) PROVE ToldInv'
    BY <1>7 DEF Write
  <1>8. ASSUME NEW c \in Conn, NEW k \in Key, KillRequest(c, k) PROVE ToldInv'
    BY <1>8 DEF KillRequest
  <1>9. ASSUME NEW c \in Conn, GcRequest(c) PROVE ToldInv'
    BY <1>9 DEF GcRequest
  <1>10. ASSUME NEW c \in Conn, ShutdownBegin(c) PROVE ToldInv'
    BY <1>10 DEF ShutdownBegin
  <1>11. ASSUME NEW c \in Conn, Spawn(c) PROVE ToldInv'
    BY <1>11 DEF Spawn
  <1>12. ASSUME NEW c \in Conn, SpawnFails(c) PROVE ToldInv'
    BY <1>12 DEF SpawnFails
  <1>13. ASSUME NEW c \in Conn, SetCore(c) PROVE ToldInv'
    BY <1>13 DEF SetCore
  <1>14. ASSUME NEW c \in Conn, AddSession(c) PROVE ToldInv'
    BY <1>14 DEF AddSession, Enter
  <1>15. ASSUME NEW c \in Conn, LoseRace(c) PROVE ToldInv'
    BY <1>15 DEF LoseRace
  <1>16. ASSUME NEW c \in Conn, AttachAdd(c) PROVE ToldInv'
    BY <1>16 DEF AttachAdd
  <1>17. ASSUME NEW c \in Conn, AttachLock(c) PROVE ToldInv'
    BY <1>17 DEF AttachLock
  <1>18. ASSUME NEW c \in Conn, DetachLock(c) PROVE ToldInv'
    BY <1>18 DEF DetachLock
  <1>19. ASSUME NEW c \in Conn, DetachDrop(c) PROVE ToldInv'
    BY <1>19 DEF DetachDrop
  <1>20. ASSUME NEW c \in Conn, WriteReturns(c) PROVE ToldInv'
    BY <1>20 DEF WriteReturns
  <1>21. ASSUME NEW c \in Conn, WriteFails(c) PROVE ToldInv'
    BY <1>21 DEF WriteFails
  <1>22. ASSUME NEW c \in Conn, ShutdownKeys(c) PROVE ToldInv'
    BY <1>22 DEF ShutdownKeys
  <1>23. ASSUME NEW c \in Conn, NEW k \in Key, ShutdownGet(c, k) PROVE ToldInv'
    BY <1>23 DEF ShutdownGet
  <1>24. ASSUME NEW c \in Conn, NEW k \in Key, ShutdownSkip(c, k) PROVE ToldInv'
    BY <1>24 DEF ShutdownSkip
  <1>25. ASSUME NEW c \in Conn, ShutdownDetach(c) PROVE ToldInv'
    BY <1>25 DEF ShutdownDetach
  <1>26. ASSUME NEW c \in Conn, ShutdownDrop(c) PROVE ToldInv'
    BY <1>26 DEF ShutdownDrop
  <1>27. ASSUME NEW c \in Conn, ShutdownEnd(c) PROVE ToldInv'
    BY <1>27 DEF ShutdownEnd
  <1>28. ASSUME NEW c \in Conn, ReaderExit(c) PROVE ToldInv'
    BY <1>28 DEF ReaderExit
  <1>29. ASSUME NEW t \in Thread, NextVictim(t) PROVE ToldInv'
    BY <1>29 DEF NextVictim
  <1>30. ASSUME NEW t \in Thread, VictimsDone(t) PROVE ToldInv'
    BY <1>30 DEF VictimsDone
  <1>31. ASSUME NEW t \in Thread, KillAgain(t) PROVE ToldInv'
    BY <1>31 DEF KillAgain, SkipKill
  <1>32. ASSUME NEW t \in Thread, Kill(t) PROVE ToldInv'
    BY <1>32 DEF Kill
  <1>33. ASSUME NEW t \in Thread, KillWaited(t) PROVE ToldInv'
    BY <1>33 DEF KillWaited
  <1>34. ASSUME NEW t \in Thread, KillReturned(t) PROVE ToldInv'
    BY <1>34 DEF KillReturned
  <1>35. ASSUME NEW s \in Sess, Finish(s) PROVE ToldInv'
    BY <1>35 DEF Finish
  <1>36. ASSUME NEW s \in Sess, OnExitNilCore(s) PROVE ToldInv'
    BY <1>36 DEF OnExitNilCore
  <1>37. ASSUME NEW s \in Sess, OnExit(s) PROVE ToldInv'
    BY <1>37 DEF OnExit, TakeList
  <1>38. ASSUME NEW s \in Sess, NEW c \in Conn, OnExitTell(s, c) PROVE ToldInv'
    BY <1>38 DEF OnExitTell, Tell
  <1>39. ASSUME NEW s \in Sess, OnExitDrop(s) PROVE ToldInv'
    BY <1>39 DEF OnExitDrop
  <1>40. ASSUME NEW s \in Sess, RemoveSession(s) PROVE ToldInv'
    BY <1>40 DEF RemoveSession, EndLoop
  <1>41. ASSUME CloseListener PROVE ToldInv'
    BY <1>41 DEF CloseListener
  <1>42. ASSUME CloseSnapshot PROVE ToldInv'
    BY <1>42 DEF CloseSnapshot
  <1>43. ASSUME NEW c \in Conn, CloseDropped(c) PROVE ToldInv'
    BY <1>43 DEF CloseDropped
  <1>44. ASSUME CloseKills PROVE ToldInv'
    BY <1>44 DEF CloseKills
  <1>45. CASE UNCHANGED vars
    BY <1>45 DEF vars
  <1> QED
    BY <1>1, <1>2, <1>3, <1>4, <1>5, <1>6, <1>7, <1>8, <1>9, <1>10, <1>11,
       <1>12, <1>13, <1>14, <1>15, <1>16, <1>17, <1>18, <1>19, <1>20, <1>21,
       <1>22, <1>23, <1>24, <1>25, <1>26, <1>27, <1>28, <1>29, <1>30, <1>31,
       <1>32, <1>33, <1>34, <1>35, <1>36, <1>37, <1>38, <1>39, <1>40, <1>41,
       <1>42, <1>43, <1>44, <1>45
    DEF Next, Request, Handler, Killing, Exiting, Shutdown, Close, CloseShuts

\* No client that counts itself attached is ever dropped from a session's
\* fan-out without being on the list of those onExit is telling.
THEOREM ToldCorrect == Spec => []ToldIsTracked
  <1>1. Init => ToldInv
    BY DEF Init, ToldInv, ToldIsTracked, Thread
  <1>2. ToldInv => ToldIsTracked
    BY DEF ToldInv
  <1> QED
    BY <1>1, <1>2, TypeCorrect, StartedCorrect, ToldStep, PTL DEF Spec

-----------------------------------------------------------------------------
\* Every step of the registry is a step of the lease, or none.
LEMMA LeaseStep ==
    TypeOK /\ SessionsStarted /\ [Next]_vars => [Lease!Next]_(Lease!vars)
  <1> SUFFICES ASSUME TypeOK, SessionsStarted, [Next]_vars
               PROVE  [Lease!Next]_(Lease!vars)
    OBVIOUS
  <1> USE KeyOfAssumption, DistinctAssumption
      DEF KeyOfAssumption, DistinctAssumption
  <1> USE DEF TypeOK, SessionsStarted, Started, Alive, Thread, OnSession, Held,
              HeldLive, Registered, Goto, Take, Leave, Lease!vars,
              serverVars, sessVars, connVars, threadVars
  <1>1. ASSUME NEW c \in Conn, Accept(c) PROVE [Lease!Next]_(Lease!vars)
    BY <1>1 DEF Accept
  <1>2. ASSUME NEW c \in Conn, Register(c) PROVE [Lease!Next]_(Lease!vars)
    BY <1>2 DEF Register
  <1>3. ASSUME NEW c \in Conn, NEW s \in Sess, NewSession(c, s) PROVE [Lease!Next]_(Lease!vars)
    BY <1>3 DEF NewSession
  <1>4. ASSUME NEW c \in Conn, NEW k \in Key, AttachGet(c, k) PROVE [Lease!Next]_(Lease!vars)
    BY <1>4 DEF AttachGet
  <1>5. ASSUME NEW c \in Conn, NEW k \in Key, DetachGet(c, k) PROVE [Lease!Next]_(Lease!vars)
    BY <1>5 DEF DetachGet, DetachFrom
  <1>6. ASSUME NEW c \in Conn, NEW k \in Key, DetachNone(c, k) PROVE [Lease!Next]_(Lease!vars)
    BY <1>6 DEF DetachNone
  <1>7. ASSUME NEW c \in Conn, NEW k \in Key, Write(c, k) PROVE [Lease!Next]_(Lease!vars)
    BY <1>7 DEF Write
  <1>8. ASSUME NEW c \in Conn, NEW k \in Key, KillRequest(c, k) PROVE [Lease!Next]_(Lease!vars)
    BY <1>8 DEF KillRequest
  <1>9. ASSUME NEW c \in Conn, GcRequest(c) PROVE [Lease!Next]_(Lease!vars)
    BY <1>9 DEF GcRequest
  <1>10. ASSUME NEW c \in Conn, ShutdownBegin(c) PROVE [Lease!Next]_(Lease!vars)
    BY <1>10 DEF ShutdownBegin
  <1>11. ASSUME NEW c \in Conn, Spawn(c) PROVE [Lease!Next]_(Lease!vars)
    BY <1>11 DEF Spawn
  <1>12. ASSUME NEW c \in Conn, SpawnFails(c) PROVE [Lease!Next]_(Lease!vars)
    BY <1>12 DEF SpawnFails
  <1>13. ASSUME NEW c \in Conn, SetCore(c) PROVE [Lease!Next]_(Lease!vars)
    BY <1>13 DEF SetCore
  <1>14. ASSUME NEW c \in Conn, AddSession(c) PROVE [Lease!Next]_(Lease!vars)
    <2>1. CASE Alive(tgt[c])
      <3>1. PICK s \in Sess : s = tgt[c]
        BY <1>14 DEF AddSession
      <3>2. Lease!Acquire(s)
        <4>1. /\ loop[s] = "read" /\ ~HeldLive(KeyOf[s])
              /\ sessions' = [sessions EXCEPT ![KeyOf[s]] = s]
              /\ loop' = loop
          BY <1>14, <2>1, <3>1 DEF AddSession, Enter
        <4>2. \A k \in Key : HeldLive(k)' <=> k = KeyOf[s] \/ HeldLive(k)
          BY <4>1
        <4>3. /\ KeyOf[s] \in Key
              /\ \A k \in Key :
                    sessions'[k] = IF k = KeyOf[s] THEN s ELSE sessions[k]
          BY <4>1
        <4> HIDE DEF TypeOK, SessionsStarted, Started, Held, HeldLive
        <4>4. [k \in Key |-> IF HeldLive(k)' THEN sessions'[k] ELSE NoSess]
                = [[k \in Key |-> IF HeldLive(k) THEN sessions[k] ELSE NoSess]
                     EXCEPT ![KeyOf[s]] = s]
          BY <4>2, <4>3
        <4> QED
          BY <4>1, <4>3, <4>4 DEF Lease!Acquire
      <3> QED  BY <3>2 DEF Lease!Next
    <2>2. CASE ~Alive(tgt[c])
      BY <1>14, <2>2 DEF AddSession, Enter
    <2> QED  BY <2>1, <2>2
  <1>15. ASSUME NEW c \in Conn, LoseRace(c) PROVE [Lease!Next]_(Lease!vars)
    BY <1>15 DEF LoseRace
  <1>16. ASSUME NEW c \in Conn, AttachAdd(c) PROVE [Lease!Next]_(Lease!vars)
    BY <1>16 DEF AttachAdd
  <1>17. ASSUME NEW c \in Conn, AttachLock(c) PROVE [Lease!Next]_(Lease!vars)
    BY <1>17 DEF AttachLock
  <1>18. ASSUME NEW c \in Conn, DetachLock(c) PROVE [Lease!Next]_(Lease!vars)
    BY <1>18 DEF DetachLock
  <1>19. ASSUME NEW c \in Conn, DetachDrop(c) PROVE [Lease!Next]_(Lease!vars)
    BY <1>19 DEF DetachDrop
  <1>20. ASSUME NEW c \in Conn, WriteReturns(c) PROVE [Lease!Next]_(Lease!vars)
    BY <1>20 DEF WriteReturns
  <1>21. ASSUME NEW c \in Conn, WriteFails(c) PROVE [Lease!Next]_(Lease!vars)
    BY <1>21 DEF WriteFails
  <1>22. ASSUME NEW c \in Conn, ShutdownKeys(c) PROVE [Lease!Next]_(Lease!vars)
    BY <1>22 DEF ShutdownKeys
  <1>23. ASSUME NEW c \in Conn, NEW k \in Key, ShutdownGet(c, k) PROVE [Lease!Next]_(Lease!vars)
    BY <1>23 DEF ShutdownGet
  <1>24. ASSUME NEW c \in Conn, NEW k \in Key, ShutdownSkip(c, k) PROVE [Lease!Next]_(Lease!vars)
    BY <1>24 DEF ShutdownSkip
  <1>25. ASSUME NEW c \in Conn, ShutdownDetach(c) PROVE [Lease!Next]_(Lease!vars)
    BY <1>25 DEF ShutdownDetach
  <1>26. ASSUME NEW c \in Conn, ShutdownDrop(c) PROVE [Lease!Next]_(Lease!vars)
    BY <1>26 DEF ShutdownDrop
  <1>27. ASSUME NEW c \in Conn, ShutdownEnd(c) PROVE [Lease!Next]_(Lease!vars)
    BY <1>27 DEF ShutdownEnd
  <1>28. ASSUME NEW c \in Conn, ReaderExit(c) PROVE [Lease!Next]_(Lease!vars)
    BY <1>28 DEF ReaderExit
  <1>29. ASSUME NEW t \in Thread, NextVictim(t) PROVE [Lease!Next]_(Lease!vars)
    BY <1>29 DEF NextVictim
  <1>30. ASSUME NEW t \in Thread, VictimsDone(t) PROVE [Lease!Next]_(Lease!vars)
    BY <1>30 DEF VictimsDone
  <1>31. ASSUME NEW t \in Thread, KillAgain(t) PROVE [Lease!Next]_(Lease!vars)
    BY <1>31 DEF KillAgain, SkipKill
  <1>32. ASSUME NEW t \in Thread, Kill(t) PROVE [Lease!Next]_(Lease!vars)
    BY <1>32 DEF Kill
  <1>33. ASSUME NEW t \in Thread, KillWaited(t) PROVE [Lease!Next]_(Lease!vars)
    BY <1>33 DEF KillWaited
  <1>34. ASSUME NEW t \in Thread, KillReturned(t) PROVE [Lease!Next]_(Lease!vars)
    BY <1>34 DEF KillReturned
  <1>35. ASSUME NEW s \in Sess, Finish(s) PROVE [Lease!Next]_(Lease!vars)
    <2>1. Lease!End(s)
      BY <1>35 DEF Finish, Lease!End
    <2> QED  BY <2>1 DEF Lease!Next
  <1>36. ASSUME NEW s \in Sess, OnExitNilCore(s) PROVE [Lease!Next]_(Lease!vars)
    <2>1. Lease!Crash
      BY <1>36 DEF OnExitNilCore, Lease!Crash
    <2> QED  BY <2>1 DEF Lease!Next
  <1>37. ASSUME NEW s \in Sess, OnExit(s) PROVE [Lease!Next]_(Lease!vars)
    BY <1>37 DEF OnExit, TakeList
  <1>38. ASSUME NEW s \in Sess, NEW c \in Conn, OnExitTell(s, c) PROVE [Lease!Next]_(Lease!vars)
    BY <1>38 DEF OnExitTell, Tell
  <1>39. ASSUME NEW s \in Sess, OnExitDrop(s) PROVE [Lease!Next]_(Lease!vars)
    BY <1>39 DEF OnExitDrop
  <1>40. ASSUME NEW s \in Sess, RemoveSession(s) PROVE [Lease!Next]_(Lease!vars)
    BY <1>40 DEF RemoveSession, EndLoop
  <1>41. ASSUME CloseListener PROVE [Lease!Next]_(Lease!vars)
    BY <1>41 DEF CloseListener
  <1>42. ASSUME CloseSnapshot PROVE [Lease!Next]_(Lease!vars)
    BY <1>42 DEF CloseSnapshot
  <1>43. ASSUME NEW c \in Conn, CloseDropped(c) PROVE [Lease!Next]_(Lease!vars)
    BY <1>43 DEF CloseDropped
  <1>44. ASSUME CloseKills PROVE [Lease!Next]_(Lease!vars)
    BY <1>44 DEF CloseKills
  <1>45. CASE UNCHANGED vars
    BY <1>45 DEF vars
  <1> QED
    BY <1>1, <1>2, <1>3, <1>4, <1>5, <1>6, <1>7, <1>8, <1>9, <1>10, <1>11,
       <1>12, <1>13, <1>14, <1>15, <1>16, <1>17, <1>18, <1>19, <1>20, <1>21,
       <1>22, <1>23, <1>24, <1>25, <1>26, <1>27, <1>28, <1>29, <1>30, <1>31,
       <1>32, <1>33, <1>34, <1>35, <1>36, <1>37, <1>38, <1>39, <1>40, <1>41,
       <1>42, <1>43, <1>44, <1>45
    DEF Next, Request, Handler, Killing, Exiting, Shutdown, Close, CloseShuts

\* The registry implements the lease on ids: a live holder is never displaced
\* and two live sessions never hold one id.
THEOREM LeaseCorrect == Spec => LeaseSpec
  <1>1. Init => Lease!Init
    BY DEF Init, Lease!Init, HeldLive, Held, Alive
  <1> QED
    BY <1>1, TypeCorrect, StartedCorrect, LeaseStep, PTL
    DEF Spec, LeaseSpec, Lease!Spec
=============================================================================
