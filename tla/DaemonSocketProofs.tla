------------------------- MODULE DaemonSocketProofs -------------------------
(***************************************************************************)
(* Proofs about DaemonSocket, for any number of processes.  While no start *)
(* or stop has overlapped another and accept has not failed, at most one   *)
(* process is on the move; what holds then of the paths and the listeners  *)
(* depends on where it is.                                                 *)
(***************************************************************************)
EXTENDS DaemonSocket, TLAPS

Starting == {"dial", "remove", "listen", "removeRaw", "listenRaw"}
Stopping == {"unlink", "close", "unlinkRaw", "closeRaw", "exit"}

\* The types, those of pc and tail included.
Typed ==
    /\ TypeOK
    /\ pc \in [Process -> {"off", "serve", "gone"} \cup Starting \cup Stopping]
    /\ tail \in [Process -> {"off", "accept", "remove", "removeRaw", "done"}]

\* No two are on the move.
OneMoves ==
    \A i, j \in Process :
        pc[i] \in Starting \cup Stopping /\ pc[j] \in Starting \cup Stopping
        => i = j

\* Who serves has both listeners, both paths and its goroutine, and nobody
\* else has come past the dial.
Serving ==
    \A i \in Process : pc[i] = "serve" =>
        /\ tail[i] = "accept" /\ listening[i] = Sockets
        /\ path[Main] = i /\ path[Raw] = i
        /\ \A j \in Process : j # i => pc[j] \in {"off", "dial", "gone"}

\* Who starts has what it has bound so far, and no goroutine.
Binding ==
    \A i \in Process :
        /\ pc[i] \in {"off", "gone", "dial", "remove", "listen"} =>
              listening[i] = {}
        /\ pc[i] \in {"removeRaw", "listenRaw"} =>
              listening[i] = {Main} /\ path[Main] = i
        /\ pc[i] \in {"off"} \cup Starting => tail[i] = "off"

\* All of it, with the exceptions of Reachable.
Orderly == ~overlap /\ ~failed => OneMoves /\ Serving /\ Binding

-----------------------------------------------------------------------------
\* At first nothing has been started.
LEMMA InitInv == Init => Typed /\ Orderly
  BY RunsAssumption
  DEF Init, Typed, TypeOK, Orderly, OneMoves, Serving, Binding, Starting,
      Stopping, Process, None, Sockets, Main, Raw

\* Every step keeps the types.
LEMMA TypeStep == Typed /\ [Next]_vars => Typed'
  <1> SUFFICES ASSUME Typed, [Next]_vars PROVE Typed'
    OBVIOUS
  <1> USE RunsAssumption
  <1> USE DEF Typed, TypeOK, Starting, Stopping, At, Unlinked, Process, None,
              Sockets, Main, Raw
  <1>1. ASSUME NEW i \in Process, Begin(i) PROVE Typed'
    BY <1>1 DEF Begin
  <1>2. ASSUME NEW i \in Process, DialCheck(i) PROVE Typed'
    BY <1>2 DEF DialCheck, Dials
  <1>3. ASSUME NEW i \in Process, RemoveStale(i) PROVE Typed'
    BY <1>3 DEF RemoveStale
  <1>4. ASSUME NEW i \in Process, Listen(i) PROVE Typed'
    BY <1>4 DEF Listen, Bind
  <1>5. ASSUME NEW i \in Process, RemoveStaleRaw(i) PROVE Typed'
    BY <1>5 DEF RemoveStaleRaw
  <1>6. ASSUME NEW i \in Process, ListenRaw(i) PROVE Typed'
    BY SMTT(20), <1>6 DEF ListenRaw, Bind
  <1>7. ASSUME NEW i \in Process, ServeReturns(i) PROVE Typed'
    BY <1>7 DEF ServeReturns
  <1>8. ASSUME NEW i \in Process, RemoveSockets(i) PROVE Typed'
    BY <1>8 DEF RemoveSockets
  <1>9. ASSUME NEW i \in Process, Close(i) PROVE Typed'
    <2>1. CASE CloseListener(i, Main, "unlink", "close", "unlinkRaw")
      <3>1. CASE At(i, "unlink", "close") /\ Unlinked(Main) /\ UNCHANGED listening
        BY <1>9, <3>1 DEF Close
      <3>2. CASE At(i, "close", "unlinkRaw") /\ UNCHANGED path
                 /\ listening' = [listening EXCEPT ![i] = listening[i] \ {Main}]
        BY <1>9, <3>2 DEF Close
      <3> QED
        BY <2>1, <3>1, <3>2 DEF CloseListener
    <2>2. CASE CloseListener(i, Raw, "unlinkRaw", "closeRaw", "exit")
      <3>1. CASE At(i, "unlinkRaw", "closeRaw") /\ Unlinked(Raw)
                 /\ UNCHANGED listening
        BY <1>9, <3>1 DEF Close
      <3>2. CASE At(i, "closeRaw", "exit") /\ UNCHANGED path
                 /\ listening' = [listening EXCEPT ![i] = listening[i] \ {Raw}]
        BY <1>9, <3>2 DEF Close
      <3> QED
        BY <2>2, <3>1, <3>2 DEF CloseListener
    <2> QED
      BY <1>9, <2>1, <2>2 DEF Close
  <1>10. ASSUME NEW i \in Process, Exit(i) PROVE Typed'
    BY <1>10 DEF Exit, End
  <1>11. ASSUME NEW i \in Process, AcceptFails(i) PROVE Typed'
    BY <1>11 DEF AcceptFails
  <1>12. ASSUME NEW i \in Process, Stop(i) PROVE Typed'
    BY <1>12 DEF Stop
  <1>13. ASSUME NEW i \in Process, Crash(i) PROVE Typed'
    BY <1>13 DEF Crash, End
  <1>14. ASSUME Get PROVE Typed'
    BY <1>14 DEF Get, Dials
  <1>15. CASE UNCHANGED vars
    BY <1>15 DEF vars
  <1> QED
    BY <1>1, <1>2, <1>3, <1>4, <1>5, <1>6, <1>7, <1>8, <1>9, <1>10, <1>11,
       <1>12, <1>13, <1>14, <1>15
    DEF Next, Step

\* Only who is on the move changes the paths, and whoever finds a listener on them
\* goes no further.
LEMMA OrderlyStep == Typed /\ Orderly /\ [Next]_vars => Orderly'
  <1> SUFFICES ASSUME Typed, Orderly, [Next]_vars PROVE Orderly'
    OBVIOUS
  <1> USE DEF Typed, TypeOK, Orderly, OneMoves, Serving, Binding, Starting,
              Stopping, At, Unlinked, None, Sockets, Main, Raw, Live, Settled
  <1>1. ASSUME NEW i \in Process, Begin(i) PROVE Orderly'
    <2>1. ASSUME ~overlap', ~failed' PROVE OneMoves' /\ Serving' /\ Binding'
      <3>1. ~overlap /\ ~failed /\ \A j \in Process : pc[j] \in {"off", "serve", "gone"}
        BY <1>1, <2>1 DEF Begin
      <3>2. pc[i] = "off" /\ pc' = [pc EXCEPT ![i] = "dial"]
        BY <1>1 DEF Begin
      <3>3. OneMoves'
        BY <3>1, <3>2
      <3> QED
        BY <1>1, <3>1, <3>2, <3>3 DEF Begin
    <2> QED
      BY <2>1
  <1>2. ASSUME NEW i \in Process, DialCheck(i) PROVE Orderly'
    <2>1. CASE Dials(Main)
      BY <1>2, <2>1 DEF DialCheck
    <2>2. CASE ~Dials(Main)
      <3>1. ASSUME ~overlap, ~failed PROVE \A j \in Process : pc[j] # "serve"
        <4> SUFFICES ASSUME NEW j \in Process, pc[j] = "serve" PROVE FALSE
          OBVIOUS
        <4>1. path[Main] = j /\ Main \in listening[j]
          BY <3>1
        <4> QED
          BY <2>2, <4>1, RunsAssumption DEF Dials, Process
      <3> QED
        BY <1>2, <2>2, <3>1 DEF DialCheck
    <2> QED
      BY <2>1, <2>2
  <1>3. ASSUME NEW i \in Process, RemoveStale(i) PROVE Orderly'
    BY <1>3 DEF RemoveStale
  <1>4. ASSUME NEW i \in Process, Listen(i) PROVE Orderly'
    BY <1>4 DEF Listen, Bind
  <1>5. ASSUME NEW i \in Process, RemoveStaleRaw(i) PROVE Orderly'
    BY <1>5 DEF RemoveStaleRaw
  <1>6. ASSUME NEW i \in Process, ListenRaw(i) PROVE Orderly'
    BY <1>6 DEF ListenRaw, Bind
  <1>7. ASSUME NEW i \in Process, ServeReturns(i) PROVE Orderly'
    BY <1>7 DEF ServeReturns
  <1>8. ASSUME NEW i \in Process, RemoveSockets(i) PROVE Orderly'
    BY <1>8 DEF RemoveSockets
  <1>9. ASSUME NEW i \in Process, Close(i) PROVE Orderly'
    BY <1>9 DEF Close, CloseListener
  <1>10. ASSUME NEW i \in Process, Exit(i) PROVE Orderly'
    BY <1>10 DEF Exit, End
  <1>11. ASSUME NEW i \in Process, AcceptFails(i) PROVE Orderly'
    BY <1>11 DEF AcceptFails
  <1>12. ASSUME NEW i \in Process, Stop(i) PROVE Orderly'
    <2>1. ASSUME ~overlap', ~failed' PROVE OneMoves' /\ Serving' /\ Binding'
      <3>1. ~overlap /\ ~failed /\ \A j \in Process : pc[j] \in {"off", "serve", "gone"}
        BY <1>12, <2>1 DEF Stop
      <3>2. pc[i] = "serve" /\ pc' = [pc EXCEPT ![i] = "unlink"]
        BY <1>12 DEF Stop
      <3>3. OneMoves'
        BY <3>1, <3>2
      <3> QED
        BY <1>12, <3>1, <3>2, <3>3 DEF Stop
    <2> QED
      BY <2>1
  <1>13. ASSUME NEW i \in Process, Crash(i) PROVE Orderly'
    BY <1>13 DEF Crash, End
  <1>14. ASSUME Get PROVE Orderly'
    BY <1>14 DEF Get, Dials
  <1>15. CASE UNCHANGED vars
    BY <1>15 DEF vars
  <1> QED
    BY <1>1, <1>2, <1>3, <1>4, <1>5, <1>6, <1>7, <1>8, <1>9, <1>10, <1>11,
       <1>12, <1>13, <1>14, <1>15
    DEF Next, Step

\* A daemon that accepts connections is the one both its paths lead to, however
\* often daemons have been started, stopped and killed before, as long as no
\* start or stop has overlapped another and accept has not failed.
THEOREM ReachableCorrect == Spec => []Reachable
  <1>1. Init => Typed /\ Orderly
    BY InitInv
  <1>2. Typed /\ Orderly /\ [Next]_vars => (Typed /\ Orderly)'
    BY TypeStep, OrderlyStep
  <1>3. Orderly => Reachable
    BY DEF Orderly, Serving, Reachable, Sockets
  <1> QED
    BY <1>1, <1>2, <1>3, PTL DEF Spec
=============================================================================
