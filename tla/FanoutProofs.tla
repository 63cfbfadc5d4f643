---------------------------- MODULE FanoutProofs ----------------------------
(***************************************************************************)
(* Theorems about Fanout, for any sets of connections and raw subscribers, *)
(* any ring and queue sizes and any amount of output.                      *)
(***************************************************************************)
EXTENDS Fanout, SequenceTheorems, TLAPS

LEMMA OldestType ==
    \A n \in Nat : Oldest(n) \in Nat /\ Oldest(n) >= 1 /\ Oldest(n) <= n + 1
BY RingMaxAssumption DEF RingMaxAssumption, Oldest

\* Appending its last element to all but the last of a sequence.
LEMMA AppendLast ==
    ASSUME NEW S, NEW n \in Nat,
           NEW s \in [1..n -> S], NEW t \in [1 .. n + 1 -> S],
           \A i \in 1..n : t[i] = s[i]
    PROVE  Append(s, t[n + 1]) = t
<1>1. s \in Seq(S) /\ t \in Seq(S)
  BY SeqDef
<1>2. Len(s) = n /\ Len(t) = n + 1 /\ t[n + 1] \in S
  BY <1>1, LenProperties
<1>3. /\ Append(s, t[n + 1]) \in Seq(S)
      /\ Len(Append(s, t[n + 1])) = n + 1
      /\ \A i \in 1..n : Append(s, t[n + 1])[i] = s[i]
      /\ Append(s, t[n + 1])[n + 1] = t[n + 1]
  BY <1>1, <1>2, AppendProperties
<1>4. \A i \in 1 .. n + 1 : Append(s, t[n + 1])[i] = t[i]
  BY <1>3
<1> QED
  BY <1>1, <1>2, <1>3, <1>4, SeqEqual

-----------------------------------------------------------------------------
(* Type correctness.  The sends first, then one step per action.           *)

LEMMA TypeInit == Init => TypeOK
BY RingMaxAssumption, CapAssumption, MaxOutAssumption
   DEF CapAssumption, MaxOutAssumption, Init,
       TypeOK, TypePty, TypeSess, TypeConn, TypeRaw

LEMMA QueueType ==
    ASSUME TypeConn, NEW C \in SUBSET Conn, Send(C)
    PROVE  /\ pending' \in [Conn -> 0..OutCap]
           /\ sd' \in [Conn -> {"open", "asked", "closed", "detach", "end"}]
BY CapAssumption DEF CapAssumption, TypeConn, Send, Queue, Up

LEMMA SendPieceType ==
    ASSUME TypeConn, NEW C \in SUBSET Conn, NEW n \in Nat, SendPiece(C, n)
    PROVE  sent' \in [Conn -> Seq(Nat)]
BY DEF TypeConn, SendPiece

LEMMA EnqueueType ==
    ASSUME TypeRaw, NEW R \in SUBSET Raw, NEW x \in Nat \X Nat, Enqueue(R, x)
    PROVE  /\ rsd' \in [Raw -> {"open", "asked", "closed"}]
           /\ rawSent' \in [Raw -> Seq(Nat \X Nat)]
           /\ rawPending' \in [Raw -> 0..RawCap]
BY CapAssumption DEF CapAssumption, TypeRaw, Enqueue

LEMMA CloseRawType ==
    ASSUME TypeRaw, NEW r \in Raw, CloseRaw(r)
    PROVE  /\ rsd' \in [Raw -> {"open", "asked", "closed"}]
           /\ rawSent' \in [Raw -> Seq(Nat \X Nat)]
           /\ rawPending' \in [Raw -> 0..RawCap]
BY CapAssumption DEF CapAssumption, TypeRaw, CloseRaw

LEMMA TypeStep == TypeOK /\ [Next]_vars => TypeOK'
<1> SUFFICES ASSUME TypePty, TypeSess, TypeConn, TypeRaw, [Next]_vars
             PROVE  TypeOK'
  BY DEF TypeOK
<1>1. CASE Read
  <2>1. TypePty'
    BY <1>1, MaxOutAssumption DEF Read, ptyVars, TypePty, MaxOutAssumption
  <2>2. TypeSess'
    BY <1>1 DEF Read, sessVars, TypeSess, ptyVars, TypePty
  <2>3. TypeConn'
    BY <1>1 DEF Read, connVars, queues, TypeConn
  <2>4. TypeRaw'
    BY <1>1 DEF Read, rawVars, rawQs, TypeRaw
  <2> QED
    BY <2>1, <2>2, <2>3, <2>4 DEF TypeOK
<1>2. CASE OnOutput
  <2>1. attachments \in SUBSET Conn /\ last + 1 \in Nat
    BY DEF TypePty, TypeSess, ScrollbackEndMark
  <2>2. SendPiece(attachments, last + 1) /\ Send(attachments)
    BY <1>2 DEF OnOutput, Emit, SendPiece
  <2>3. sent' \in [Conn -> Seq(Nat)]
    BY <2>1, <2>2, SendPieceType
  <2>4. /\ pending' \in [Conn -> 0..OutCap]
        /\ sd' \in [Conn -> {"open", "asked", "closed", "detach", "end"}]
    BY <2>1, <2>2, QueueType
  <2>5. rawSubs \in SUBSET Raw /\ <<last + 1, last + 1>> \in Nat \X Nat
    BY DEF TypePty, TypeSess
  <2>6. Enqueue(rawSubs, <<last + 1, last + 1>>)
    BY <1>2 DEF OnOutput, Emit
  <2>7. /\ rsd' \in [Raw -> {"open", "asked", "closed"}]
        /\ rawSent' \in [Raw -> Seq(Nat \X Nat)]
        /\ rawPending' \in [Raw -> 0..RawCap]
    BY <2>5, <2>6, EnqueueType
  <2>8. TypePty'
    BY <1>2, MaxOutAssumption DEF OnOutput, Emit, ptyVars, TypePty, MaxOutAssumption
  <2>9. TypeSess'
    BY <1>2 DEF OnOutput, Emit, sessVars, TypeSess, ptyVars, TypePty
  <2>10. TypeConn'
    BY <1>2, <2>3, <2>4 DEF OnOutput, Emit, connVars, queues, TypeConn
  <2>11. TypeRaw'
    BY <1>2, <2>7 DEF OnOutput, Emit, rawVars, rawQs, TypeRaw
  <2> QED
    BY <2>8, <2>9, <2>10, <2>11 DEF TypeOK
<1>3. CASE Finish
  <2>1. TypePty'
    BY <1>3 DEF Finish, ptyVars, TypePty
  <2>2. TypeSess'
    BY <1>3 DEF Finish, sessVars, TypeSess, ptyVars, TypePty
  <2>3. TypeConn'
    BY <1>3 DEF Finish, connVars, queues, TypeConn
  <2>4. TypeRaw'
    BY <1>3 DEF Finish, rawVars, rawQs, TypeRaw
  <2> QED
    BY <2>1, <2>2, <2>3, <2>4 DEF TypeOK
<1>4. CASE OnExit
  <2>1. TypePty'
    BY <1>4 DEF OnExit, TakeLists, ptyVars, TypePty
  <2>2. TypeSess'
    BY <1>4 DEF OnExit, TakeLists, sessVars, TypeSess, ptyVars, TypePty
  <2>3. TypeConn'
    BY <1>4 DEF OnExit, TakeLists, connVars, queues, TypeConn
  <2>4. TypeRaw'
    BY <1>4 DEF OnExit, TakeLists, rawVars, rawQs, TypeRaw
  <2> QED
    BY <2>1, <2>2, <2>3, <2>4 DEF TypeOK
<1>5. ASSUME NEW c \in Conn, TellExit(c)
      PROVE  TypeOK'
  <2>1. /\ pending' \in [Conn -> 0..OutCap]
        /\ sd' \in [Conn -> {"open", "asked", "closed", "detach", "end"}]
    BY <1>5, QueueType DEF TellExit, queues, TypeConn
  <2>2. TypePty'
    BY <1>5 DEF TellExit, ptyVars, TypePty
  <2>3. TypeSess'
    BY <1>5 DEF TellExit, sessVars, TypeSess, ptyVars, TypePty
  <2>4. TypeConn'
    BY <1>5, <2>1 DEF TellExit, connVars, queues, TypeConn
  <2>5. TypeRaw'
    BY <1>5 DEF TellExit, rawVars, rawQs, TypeRaw
  <2> QED
    BY <2>2, <2>3, <2>4, <2>5 DEF TypeOK
<1>6. ASSUME NEW c \in Conn, TellClosed(c)
      PROVE  TypeOK'
  <2>1. /\ pending' \in [Conn -> 0..OutCap]
        /\ sd' \in [Conn -> {"open", "asked", "closed", "detach", "end"}]
    BY <1>6, QueueType DEF TellClosed
  <2>2. TypePty'
    BY <1>6 DEF TellClosed, ptyVars, TypePty
  <2>3. TypeSess'
    BY <1>6 DEF TellClosed, sessVars, TypeSess, ptyVars, TypePty
  <2>4. TypeConn'
    BY <1>6, <2>1 DEF TellClosed, connVars, queues, TypeConn
  <2>5. TypeRaw'
    BY <1>6 DEF TellClosed, rawVars, rawQs, TypeRaw
  <2> QED
    BY <2>2, <2>3, <2>4, <2>5 DEF TypeOK
<1>7. ASSUME NEW r \in Raw, EndRaw(r)
      PROVE  TypeOK'
  <2>1. /\ rsd' \in [Raw -> {"open", "asked", "closed"}]
        /\ rawSent' \in [Raw -> Seq(Nat \X Nat)]
        /\ rawPending' \in [Raw -> 0..RawCap]
    BY <1>7, CloseRawType DEF EndRaw
  <2>2. TypePty'
    BY <1>7 DEF EndRaw, ptyVars, TypePty
  <2>3. TypeSess'
    BY <1>7 DEF EndRaw, sessVars, TypeSess, ptyVars, TypePty
  <2>4. TypeConn'
    BY <1>7 DEF EndRaw, connVars, queues, TypeConn
  <2>5. TypeRaw'
    BY <1>7, <2>1 DEF EndRaw, rawVars, rawQs, TypeRaw
  <2> QED
    BY <2>2, <2>3, <2>4, <2>5 DEF TypeOK
<1>8. CASE RemoveSession
  <2>1. TypePty'
    BY <1>8 DEF RemoveSession, ptyVars, TypePty
  <2>2. TypeSess'
    BY <1>8 DEF RemoveSession, sessVars, TypeSess, ptyVars, TypePty
  <2>3. TypeConn'
    BY <1>8 DEF RemoveSession, connVars, queues, TypeConn
  <2>4. TypeRaw'
    BY <1>8 DEF RemoveSession, rawVars, rawQs, TypeRaw
  <2> QED
    BY <2>1, <2>2, <2>3, <2>4 DEF TypeOK
<1>9. ASSUME NEW c \in Conn, AttachRequest(c)
      PROVE  TypeOK'
  <2>1. /\ pending' \in [Conn -> 0..OutCap]
        /\ sd' \in [Conn -> {"open", "asked", "closed", "detach", "end"}]
    BY <1>9, QueueType DEF AttachRequest
  <2>2. TypePty'
    BY <1>9 DEF AttachRequest, ptyVars, TypePty
  <2>3. TypeSess'
    BY <1>9 DEF AttachRequest, sessVars, TypeSess, ptyVars, TypePty
  <2>4. TypeConn'
    BY <1>9, <2>1 DEF AttachRequest, connVars, queues, TypeConn
  <2>5. TypeRaw'
    BY <1>9 DEF AttachRequest, rawVars, rawQs, TypeRaw
  <2> QED
    BY <2>2, <2>3, <2>4, <2>5 DEF TypeOK
<1>10. ASSUME NEW c \in Conn, Attach(c)
      PROVE  TypeOK'
  <2>1. Oldest(last) \in Nat
    BY OldestType DEF TypePty
  <2>2. TypePty'
    BY <1>10 DEF Attach, ptyVars, TypePty
  <2>3. TypeSess'
    BY <1>10, <2>1 DEF Attach, sessVars, TypeSess, ptyVars, TypePty
  <2>4. TypeConn'
    BY <1>10 DEF Attach, connVars, queues, TypeConn
  <2>5. TypeRaw'
    BY <1>10 DEF Attach, rawVars, rawQs, TypeRaw
  <2> QED
    BY <2>2, <2>3, <2>4, <2>5 DEF TypeOK
<1>11. ASSUME NEW c \in Conn, Replay(c)
      PROVE  TypeOK'
  <2>1. {c} \in SUBSET Conn /\ next \in Nat
    BY DEF TypePty, TypeSess, ScrollbackEndMark
  <2>2. SendPiece({c}, next) /\ Send({c})
    BY <1>11 DEF Replay, SendPiece
  <2>3. sent' \in [Conn -> Seq(Nat)]
    BY <2>1, <2>2, SendPieceType
  <2>4. /\ pending' \in [Conn -> 0..OutCap]
        /\ sd' \in [Conn -> {"open", "asked", "closed", "detach", "end"}]
    BY <2>1, <2>2, QueueType
  <2>5. TypePty'
    BY <1>11 DEF Replay, ptyVars, TypePty
  <2>6. TypeSess'
    BY <1>11 DEF Replay, sessVars, TypeSess, ptyVars, TypePty
  <2>7. TypeConn'
    BY <1>11, <2>3, <2>4 DEF Replay, connVars, queues, TypeConn
  <2>8. TypeRaw'
    BY <1>11 DEF Replay, rawVars, rawQs, TypeRaw
  <2> QED
    BY <2>5, <2>6, <2>7, <2>8 DEF TypeOK
<1>12. ASSUME NEW c \in Conn, ScrollbackEnd(c)
      PROVE  TypeOK'
  <2>1. {c} \in SUBSET Conn /\ ScrollbackEndMark \in Nat
    BY DEF TypePty, TypeSess, ScrollbackEndMark
  <2>2. SendPiece({c}, ScrollbackEndMark) /\ Send({c})
    BY <1>12 DEF ScrollbackEnd, FinishReplay, SendPiece
  <2>3. sent' \in [Conn -> Seq(Nat)]
    BY <2>1, <2>2, SendPieceType
  <2>4. /\ pending' \in [Conn -> 0..OutCap]
        /\ sd' \in [Conn -> {"open", "asked", "closed", "detach", "end"}]
    BY <2>1, <2>2, QueueType
  <2>5. TypePty'
    BY <1>12 DEF ScrollbackEnd, FinishReplay, ptyVars, TypePty
  <2>6. TypeSess'
    BY <1>12 DEF ScrollbackEnd, FinishReplay, sessVars, TypeSess, ptyVars, TypePty
  <2>7. TypeConn'
    BY <1>12, <2>3, <2>4 DEF ScrollbackEnd, FinishReplay, connVars, queues, TypeConn
  <2>8. TypeRaw'
    BY <1>12 DEF ScrollbackEnd, FinishReplay, rawVars, rawQs, TypeRaw
  <2> QED
    BY <2>5, <2>6, <2>7, <2>8 DEF TypeOK
<1>13. ASSUME NEW c \in Conn, Detach(c)
      PROVE  TypeOK'
  <2>1. TypePty'
    BY <1>13 DEF Detach, ptyVars, TypePty
  <2>2. TypeSess'
    BY <1>13 DEF Detach, sessVars, TypeSess, ptyVars, TypePty
  <2>3. TypeConn'
    BY <1>13 DEF Detach, connVars, queues, TypeConn
  <2>4. TypeRaw'
    BY <1>13 DEF Detach, rawVars, rawQs, TypeRaw
  <2> QED
    BY <2>1, <2>2, <2>3, <2>4 DEF TypeOK
<1>14. ASSUME NEW c \in Conn, Deliver(c)
      PROVE  TypeOK'
  <2>1. TypePty'
    BY <1>14 DEF Deliver, Up, ptyVars, TypePty
  <2>2. TypeSess'
    BY <1>14 DEF Deliver, Up, sessVars, TypeSess, ptyVars, TypePty
  <2>3. TypeConn'
    BY <1>14, CapAssumption DEF Deliver, Up, connVars, queues, TypeConn, CapAssumption
  <2>4. TypeRaw'
    BY <1>14 DEF Deliver, Up, rawVars, rawQs, TypeRaw
  <2> QED
    BY <2>1, <2>2, <2>3, <2>4 DEF TypeOK
<1>15. ASSUME NEW c \in Conn, ShutdownBegin(c)
      PROVE  TypeOK'
  <2>1. TypePty'
    BY <1>15 DEF ShutdownBegin, Up, ptyVars, TypePty
  <2>2. TypeSess'
    BY <1>15 DEF ShutdownBegin, Up, sessVars, TypeSess, ptyVars, TypePty
  <2>3. TypeConn'
    BY <1>15, CapAssumption DEF ShutdownBegin, Up, connVars, queues, TypeConn, CapAssumption
  <2>4. TypeRaw'
    BY <1>15 DEF ShutdownBegin, Up, rawVars, rawQs, TypeRaw
  <2> QED
    BY <2>1, <2>2, <2>3, <2>4 DEF TypeOK
<1>16. ASSUME NEW c \in Conn, ShutdownKeys(c)
      PROVE  TypeOK'
  <2>1. TypePty'
    BY <1>16 DEF ShutdownKeys, ptyVars, TypePty
  <2>2. TypeSess'
    BY <1>16 DEF ShutdownKeys, sessVars, TypeSess, ptyVars, TypePty
  <2>3. TypeConn'
    BY <1>16 DEF ShutdownKeys, connVars, queues, TypeConn
  <2>4. TypeRaw'
    BY <1>16 DEF ShutdownKeys, rawVars, rawQs, TypeRaw
  <2> QED
    BY <2>1, <2>2, <2>3, <2>4 DEF TypeOK
<1>17. ASSUME NEW c \in Conn, ShutdownDetach(c)
      PROVE  TypeOK'
  <2>1. TypePty'
    BY <1>17 DEF ShutdownDetach, ptyVars, TypePty
  <2>2. TypeSess'
    BY <1>17 DEF ShutdownDetach, sessVars, TypeSess, ptyVars, TypePty
  <2>3. TypeConn'
    BY <1>17 DEF ShutdownDetach, connVars, queues, TypeConn
  <2>4. TypeRaw'
    BY <1>17 DEF ShutdownDetach, rawVars, rawQs, TypeRaw
  <2> QED
    BY <2>1, <2>2, <2>3, <2>4 DEF TypeOK
<1>18. ASSUME NEW r \in Raw, RawHandshake(r)
      PROVE  TypeOK'
  <2>1. TypePty'
    BY <1>18 DEF RawHandshake, ptyVars, TypePty
  <2>2. TypeSess'
    BY <1>18 DEF RawHandshake, sessVars, TypeSess, ptyVars, TypePty
  <2>3. TypeConn'
    BY <1>18 DEF RawHandshake, connVars, queues, TypeConn
  <2>4. TypeRaw'
    BY <1>18 DEF RawHandshake, rawVars, rawQs, TypeRaw
  <2> QED
    BY <2>1, <2>2, <2>3, <2>4 DEF TypeOK
<1>19. ASSUME NEW r \in Raw, AttachRaw(r)
      PROVE  TypeOK'
  <2>1. <<Oldest(last), last>> \in Nat \X Nat
    BY OldestType DEF TypePty
  <2>2. /\ rsd' \in [Raw -> {"open", "asked", "closed"}]
        /\ rawSent' \in [Raw -> Seq(Nat \X Nat)]
        /\ rawPending' \in [Raw -> 0..RawCap]
    BY <1>19, <2>1, EnqueueType DEF AttachRaw, Subscribe, rawQs, TypeRaw
  <2>3. TypePty'
    BY <1>19 DEF AttachRaw, Subscribe, ptyVars, TypePty
  <2>4. TypeSess'
    BY <1>19 DEF AttachRaw, Subscribe, sessVars, TypeSess, ptyVars, TypePty
  <2>5. TypeConn'
    BY <1>19 DEF AttachRaw, Subscribe, connVars, queues, TypeConn
  <2>6. TypeRaw'
    BY <1>19, <2>2 DEF AttachRaw, Subscribe, rawVars, rawQs, TypeRaw
  <2> QED
    BY <2>3, <2>4, <2>5, <2>6 DEF TypeOK
<1>20. ASSUME NEW r \in Raw, RawEof(r)
      PROVE  TypeOK'
  <2>1. TypePty'
    BY <1>20 DEF RawEof, ptyVars, TypePty
  <2>2. TypeSess'
    BY <1>20 DEF RawEof, sessVars, TypeSess, ptyVars, TypePty
  <2>3. TypeConn'
    BY <1>20 DEF RawEof, connVars, queues, TypeConn
  <2>4. TypeRaw'
    BY <1>20 DEF RawEof, rawVars, rawQs, TypeRaw
  <2> QED
    BY <2>1, <2>2, <2>3, <2>4 DEF TypeOK
<1>21. ASSUME NEW r \in Raw, DetachRaw(r)
      PROVE  TypeOK'
  <2>1. TypePty'
    BY <1>21 DEF DetachRaw, ptyVars, TypePty
  <2>2. TypeSess'
    BY <1>21 DEF DetachRaw, sessVars, TypeSess, ptyVars, TypePty
  <2>3. TypeConn'
    BY <1>21 DEF DetachRaw, connVars, queues, TypeConn
  <2>4. TypeRaw'
    BY <1>21 DEF DetachRaw, rawVars, rawQs, TypeRaw
  <2> QED
    BY <2>1, <2>2, <2>3, <2>4 DEF TypeOK
<1>22. ASSUME NEW r \in Raw, RawShutdown(r)
      PROVE  TypeOK'
  <2>1. /\ rsd' \in [Raw -> {"open", "asked", "closed"}]
        /\ rawSent' \in [Raw -> Seq(Nat \X Nat)]
        /\ rawPending' \in [Raw -> 0..RawCap]
    BY <1>22, CloseRawType DEF RawShutdown
  <2>2. TypePty'
    BY <1>22 DEF RawShutdown, ptyVars, TypePty
  <2>3. TypeSess'
    BY <1>22 DEF RawShutdown, sessVars, TypeSess, ptyVars, TypePty
  <2>4. TypeConn'
    BY <1>22 DEF RawShutdown, connVars, queues, TypeConn
  <2>5. TypeRaw'
    BY <1>22, <2>1 DEF RawShutdown, rawVars, rawQs, TypeRaw
  <2> QED
    BY <2>2, <2>3, <2>4, <2>5 DEF TypeOK
<1>23. ASSUME NEW r \in Raw, RawDeliver(r)
      PROVE  TypeOK'
  <2>1. TypePty'
    BY <1>23 DEF RawDeliver, ptyVars, TypePty
  <2>2. TypeSess'
    BY <1>23 DEF RawDeliver, sessVars, TypeSess, ptyVars, TypePty
  <2>3. TypeConn'
    BY <1>23 DEF RawDeliver, connVars, queues, TypeConn
  <2>4. TypeRaw'
    BY <1>23, CapAssumption DEF RawDeliver, rawVars, rawQs, TypeRaw, CapAssumption
  <2> QED
    BY <2>1, <2>2, <2>3, <2>4 DEF TypeOK
<1>24. CASE UNCHANGED vars
  BY <1>24 DEF sessVars, ptyVars, connVars, queues, rawVars, rawQs, vars, TypePty, TypeSess, TypeConn, TypeRaw, TypeOK
<1> QED
  BY <1>1, <1>2, <1>3, <1>4, <1>5, <1>6, <1>7, <1>8, <1>9, <1>10, <1>11,
     <1>12, <1>13, <1>14, <1>15, <1>16, <1>17, <1>18, <1>19, <1>20, <1>21,
     <1>22, <1>23, <1>24
     DEF Next, Exiting, Holding, Shutdown

\* Types, the bounds of both kinds of queues (a send never goes over the
\* capacity of the channel), and the bound on the output.
THEOREM TypeCorrect == Spec => []TypeOK
BY TypeInit, TypeStep, PTL DEF Spec

-----------------------------------------------------------------------------
(* Raw subscribers.  One that has not subscribed yet is on no list and has *)
(* nothing queued: subscribing happens once, so the snapshot comes first.  *)

RawFresh ==
    \A r \in Raw :
        rpc[r] \in {"new", "attach"} =>
            r \notin rawSubs \cup toEnd /\ rawSent[r] = <<>>

RawInv == RawFresh /\ RawTracked /\ RawExact

\* How the stream of a subscriber starts and grows.
LEMMA RawStreamEmpty == RawStream(0, 0) = <<>>
BY DEF RawStream

LEMMA RawStreamStarts ==
    ASSUME NEW a \in Nat, a # 0
    PROVE  Append(<<>>, <<Oldest(a), a>>) = RawStream(a, a)
BY OldestType DEF RawStream

LEMMA RawStreamGrows ==
    ASSUME NEW b \in Nat, NEW a \in 0..b
    PROVE  Append(RawStream(a, b), <<b + 1, b + 1>>) = RawStream(a, b + 1)
<1> DEFINE n == IF a = 0 THEN b ELSE b - a + 1
<1>1. n \in Nat /\ Oldest(a) \in Nat
  BY OldestType
<1>2. /\ RawStream(a, b) \in [1..n -> Nat \X Nat]
      /\ RawStream(a, b + 1) \in [1 .. n + 1 -> Nat \X Nat]
  BY <1>1 DEF RawStream
<1>3. /\ \A i \in 1..n : RawStream(a, b + 1)[i] = RawStream(a, b)[i]
      /\ RawStream(a, b + 1)[n + 1] = <<b + 1, b + 1>>
  BY <1>1 DEF RawStream
<1> DEFINE s == RawStream(a, b)
           t == RawStream(a, b + 1)
<1>4. /\ n \in Nat
      /\ s \in [1..n -> Nat \X Nat]
      /\ t \in [1 .. n + 1 -> Nat \X Nat]
      /\ \A i \in 1..n : t[i] = s[i]
      /\ t[n + 1] = <<b + 1, b + 1>>
  BY <1>1, <1>2, <1>3
<1> HIDE DEF n, s, t
<1>5. Append(s, t[n + 1]) = t
  BY <1>4, AppendLast
<1>6. Append(s, <<b + 1, b + 1>>) = t
  BY <1>4, <1>5
<1> QED
  BY <1>6 DEF s, t

LEMMA RawFrame ==
    ASSUME RawFresh, RawTracked, RawExact,
           UNCHANGED <<last, rawSubs, toEnd, rpc, rsd, rawSent>>
    PROVE  RawFresh' /\ RawTracked' /\ RawExact'
BY DEF RawFresh, RawTracked, RawExact

LEMMA RawInit == Init => RawInv
BY DEF Init, RawInv, RawFresh, RawTracked, RawExact

LEMMA RawStep == TypeOK /\ RawInv /\ [Next]_vars => RawInv'
<1> SUFFICES ASSUME TypePty, TypeSess, TypeConn, TypeRaw,
                    RawFresh, RawTracked, RawExact, [Next]_vars
             PROVE  RawFresh' /\ RawTracked' /\ RawExact'
  BY DEF TypeOK, RawInv
<1>1. CASE Read
  BY <1>1, RawFrame DEF Read, sessVars, ptyVars, connVars, queues, rawVars, rawQs
<1>2. CASE OnOutput
  <2>1. /\ last \in Nat /\ last' = last + 1 /\ toEnd = {}
        /\ UNCHANGED <<rawSubs, toEnd, rpc>>
    BY <1>2 DEF OnOutput, Emit, sessVars, TypePty, TypeSess
  <2>2. ASSUME NEW r \in Raw, r \notin rawSubs
        PROVE  rawSent'[r] = rawSent[r] /\ rsd'[r] = rsd[r]
    BY <1>2, <2>2 DEF OnOutput, Emit, Enqueue, TypeRaw
  <2>3. ASSUME NEW r \in rawSubs, rsd'[r] = "open"
        PROVE  /\ rsd[r] = "open"
               /\ rawSent'[r] = Append(rawSent[r], <<last + 1, last + 1>>)
    <3>1. Enqueue(rawSubs, <<last + 1, last + 1>>) /\ r \in Raw
      BY <1>2 DEF OnOutput, Emit, TypeSess
    <3>2. rsd[r] = "open" /\ rawPending[r] < RawCap
      BY <2>3, <3>1, CapAssumption DEF CapAssumption, Enqueue, TypeRaw
    <3> QED
      BY <3>1, <3>2 DEF Enqueue
  <2>4. RawFresh'
    BY <2>1, <2>2 DEF RawFresh
  <2>5. RawTracked'
    BY <1>2, <2>1 DEF OnOutput, Emit, Enqueue, TypeRaw, RawTracked
  <2>6. ASSUME NEW r \in rawSubs, rsd'[r] = "open"
        PROVE  \E a \in 0..last + 1 : rawSent'[r] = RawStream(a, last + 1)
    <3>1. PICK a \in 0..last : rawSent[r] = RawStream(a, last)
      BY <2>3, <2>6 DEF RawExact
    <3>2. Append(RawStream(a, last), <<last + 1, last + 1>>)
            = RawStream(a, last + 1)
      BY <2>1, <3>1, RawStreamGrows
    <3>3. rawSent'[r] = RawStream(a, last + 1)
      BY <2>3, <2>6, <3>1, <3>2
    <3>4. a \in 0..last + 1
      BY <2>1
    <3> QED
      BY <3>3, <3>4
  <2>7. RawExact'
    BY <2>1, <2>6 DEF RawExact
  <2> QED
    BY <2>4, <2>5, <2>7
<1>3. CASE Finish
  BY <1>3, RawFrame DEF Finish, sessVars, ptyVars, connVars, queues, rawVars, rawQs
<1>4. CASE OnExit
  <2>1. RawFresh'
    BY <1>4 DEF OnExit, TakeLists, sessVars, ptyVars, rawVars, rawQs, TypePty,
       TypeSess, TypeRaw, RawFresh
  <2>2. RawTracked'
    BY <1>4 DEF OnExit, TakeLists, sessVars, ptyVars, rawVars, rawQs, TypePty,
       TypeSess, TypeRaw, RawTracked
  <2>3. RawExact'
    BY <1>4 DEF OnExit, TakeLists, sessVars, ptyVars, rawVars, rawQs, TypePty,
       TypeSess, TypeRaw, RawExact
  <2> QED
    BY <2>1, <2>2, <2>3
<1>5. ASSUME NEW c \in Conn, TellExit(c)
      PROVE  RawFresh' /\ RawTracked' /\ RawExact'
  BY <1>5, RawFrame DEF TellExit, sessVars, ptyVars, connVars, queues, rawVars, rawQs
<1>6. ASSUME NEW c \in Conn, TellClosed(c)
      PROVE  RawFresh' /\ RawTracked' /\ RawExact'
  BY <1>6, RawFrame DEF TellClosed, sessVars, ptyVars, connVars, queues, rawVars, rawQs
<1>7. ASSUME NEW r \in Raw, EndRaw(r)
      PROVE  RawFresh' /\ RawTracked' /\ RawExact'
  <2>1. RawFresh'
    BY <1>7 DEF EndRaw, CloseRaw, sessVars, ptyVars, rawVars, rawQs, TypePty, TypeSess,
       TypeRaw, RawFresh
  <2>2. RawTracked'
    BY <1>7 DEF EndRaw, CloseRaw, sessVars, ptyVars, rawVars, rawQs, TypePty, TypeSess,
       TypeRaw, RawTracked
  <2>3. RawExact'
    BY <1>7 DEF EndRaw, CloseRaw, sessVars, ptyVars, rawVars, rawQs, TypePty, TypeSess,
       TypeRaw, RawExact
  <2> QED
    BY <2>1, <2>2, <2>3
<1>8. CASE RemoveSession
  BY <1>8, RawFrame DEF RemoveSession, sessVars, ptyVars, connVars, queues, rawVars, rawQs
<1>9. ASSUME NEW c \in Conn, AttachRequest(c)
      PROVE  RawFresh' /\ RawTracked' /\ RawExact'
  BY <1>9, RawFrame DEF AttachRequest, sessVars, ptyVars, connVars, queues, rawVars, rawQs
<1>10. ASSUME NEW c \in Conn, Attach(c)
      PROVE  RawFresh' /\ RawTracked' /\ RawExact'
  BY <1>10, RawFrame DEF Attach, sessVars, ptyVars, connVars, queues, rawVars, rawQs
<1>11. ASSUME NEW c \in Conn, Replay(c)
      PROVE  RawFresh' /\ RawTracked' /\ RawExact'
  BY <1>11, RawFrame DEF Replay, sessVars, ptyVars, connVars, queues, rawVars, rawQs
<1>12. ASSUME NEW c \in Conn, ScrollbackEnd(c)
      PROVE  RawFresh' /\ RawTracked' /\ RawExact'
  BY <1>12, RawFrame DEF ScrollbackEnd, FinishReplay, sessVars, ptyVars, connVars, queues,
       rawVars, rawQs
<1>13. ASSUME NEW c \in Conn, Detach(c)
      PROVE  RawFresh' /\ RawTracked' /\ RawExact'
  BY <1>13, RawFrame DEF Detach, sessVars, ptyVars, connVars, queues, rawVars, rawQs
<1>14. ASSUME NEW c \in Conn, Deliver(c)
      PROVE  RawFresh' /\ RawTracked' /\ RawExact'
  BY <1>14, RawFrame DEF Deliver, Up, sessVars, ptyVars, connVars, queues, rawVars, rawQs
<1>15. ASSUME NEW c \in Conn, ShutdownBegin(c)
      PROVE  RawFresh' /\ RawTracked' /\ RawExact'
  BY <1>15, RawFrame DEF ShutdownBegin, Up, sessVars, ptyVars, connVars, queues, rawVars, rawQs
<1>16. ASSUME NEW c \in Conn, ShutdownKeys(c)
      PROVE  RawFresh' /\ RawTracked' /\ RawExact'
  BY <1>16, RawFrame DEF ShutdownKeys, sessVars, ptyVars, connVars, queues, rawVars, rawQs
<1>17. ASSUME NEW c \in Conn, ShutdownDetach(c)
      PROVE  RawFresh' /\ RawTracked' /\ RawExact'
  BY <1>17, RawFrame DEF ShutdownDetach, sessVars, ptyVars, connVars, queues, rawVars, rawQs
<1>18. ASSUME NEW r \in Raw, RawHandshake(r)
      PROVE  RawFresh' /\ RawTracked' /\ RawExact'
  <2>1. RawFresh'
    BY <1>18 DEF RawHandshake, sessVars, ptyVars, rawVars, rawQs, TypePty, TypeSess,
       TypeRaw, RawFresh
  <2>2. RawTracked'
    BY <1>18 DEF RawHandshake, sessVars, ptyVars, rawVars, rawQs, TypePty, TypeSess,
       TypeRaw, RawTracked
  <2>3. RawExact'
    BY <1>18 DEF RawHandshake, sessVars, ptyVars, rawVars, rawQs, TypePty, TypeSess,
       TypeRaw, RawExact
  <2> QED
    BY <2>1, <2>2, <2>3
<1>19. ASSUME NEW r \in Raw, AttachRaw(r)
      PROVE  RawFresh' /\ RawTracked' /\ RawExact'
  <2>1. /\ last \in Nat /\ r \notin rawSubs \cup toEnd /\ rawSent[r] = <<>>
        /\ rawSubs' = rawSubs \cup {r} /\ rpc' = [rpc EXCEPT ![r] = "read"]
        /\ UNCHANGED <<last, toEnd>>
    BY <1>19 DEF AttachRaw, Subscribe, ptyVars, RawFresh, TypePty
  <2>2. \A x \in Raw : x # r => rawSent'[x] = rawSent[x] /\ rsd'[x] = rsd[x]
    BY <1>19 DEF AttachRaw, Subscribe, Enqueue, rawQs, TypeRaw
  <2>3. rsd'[r] = "open" => \E a \in 0..last : rawSent'[r] = RawStream(a, last)
    <3>1. CASE last = 0
      BY <1>19, <2>1, <3>1, RawStreamEmpty DEF AttachRaw, Subscribe, rawQs
    <3>2. CASE last # 0
      <4>1. HAVE rsd'[r] = "open"
      <4>2. rawSent'[r] = Append(<<>>, <<Oldest(last), last>>)
        <5>1. Enqueue({r}, <<Oldest(last), last>>)
          BY <1>19, <3>2 DEF AttachRaw, Subscribe
        <5>2. rsd[r] = "open" /\ rawPending[r] < RawCap
          BY <4>1, <5>1, CapAssumption DEF CapAssumption, Enqueue, TypeRaw
        <5> QED
          BY <2>1, <5>1, <5>2 DEF Enqueue
      <4> QED
        BY <2>1, <3>2, <4>2, RawStreamStarts
    <3> QED
      BY <3>1, <3>2
  <2>4. RawFresh'
    BY <2>1, <2>2 DEF RawFresh, TypeRaw
  <2>5. RawTracked'
    BY <2>1, <2>2 DEF RawTracked, TypeRaw
  <2>6. RawExact'
    BY <2>1, <2>2, <2>3 DEF RawExact, TypeSess
  <2> QED
    BY <2>4, <2>5, <2>6
<1>20. ASSUME NEW r \in Raw, RawEof(r)
      PROVE  RawFresh' /\ RawTracked' /\ RawExact'
  <2>1. RawFresh'
    BY <1>20 DEF RawEof, sessVars, ptyVars, rawVars, rawQs, TypePty, TypeSess, TypeRaw,
       RawFresh
  <2>2. RawTracked'
    BY <1>20 DEF RawEof, sessVars, ptyVars, rawVars, rawQs, TypePty, TypeSess, TypeRaw,
       RawTracked
  <2>3. RawExact'
    BY <1>20 DEF RawEof, sessVars, ptyVars, rawVars, rawQs, TypePty, TypeSess, TypeRaw,
       RawExact
  <2> QED
    BY <2>1, <2>2, <2>3
<1>21. ASSUME NEW r \in Raw, DetachRaw(r)
      PROVE  RawFresh' /\ RawTracked' /\ RawExact'
  <2>1. RawFresh'
    BY <1>21 DEF DetachRaw, sessVars, ptyVars, rawVars, rawQs, TypePty, TypeSess,
       TypeRaw, RawFresh
  <2>2. RawTracked'
    BY <1>21 DEF DetachRaw, sessVars, ptyVars, rawVars, rawQs, TypePty, TypeSess,
       TypeRaw, RawTracked
  <2>3. RawExact'
    BY <1>21 DEF DetachRaw, sessVars, ptyVars, rawVars, rawQs, TypePty, TypeSess,
       TypeRaw, RawExact
  <2> QED
    BY <2>1, <2>2, <2>3
<1>22. ASSUME NEW r \in Raw, RawShutdown(r)
      PROVE  RawFresh' /\ RawTracked' /\ RawExact'
  <2>1. RawFresh'
    BY <1>22 DEF RawShutdown, CloseRaw, sessVars, ptyVars, rawVars, rawQs, TypePty,
       TypeSess, TypeRaw, RawFresh
  <2>2. RawTracked'
    BY <1>22 DEF RawShutdown, CloseRaw, sessVars, ptyVars, rawVars, rawQs, TypePty,
       TypeSess, TypeRaw, RawTracked
  <2>3. RawExact'
    BY <1>22 DEF RawShutdown, CloseRaw, sessVars, ptyVars, rawVars, rawQs, TypePty,
       TypeSess, TypeRaw, RawExact
  <2> QED
    BY <2>1, <2>2, <2>3
<1>23. ASSUME NEW r \in Raw, RawDeliver(r)
      PROVE  RawFresh' /\ RawTracked' /\ RawExact'
  BY <1>23, RawFrame DEF RawDeliver, sessVars, ptyVars, connVars, queues, rawVars, rawQs
<1>24. CASE UNCHANGED vars
  BY <1>24, RawFrame DEF sessVars, ptyVars, connVars, queues, rawVars, rawQs, vars
<1> QED
  BY <1>1, <1>2, <1>3, <1>4, <1>5, <1>6, <1>7, <1>8, <1>9, <1>10, <1>11,
     <1>12, <1>13, <1>14, <1>15, <1>16, <1>17, <1>18, <1>19, <1>20, <1>21,
     <1>22, <1>23, <1>24
     DEF Next, Exiting, Holding, Shutdown

LEMMA RawCorrect == Spec => [](TypeOK /\ RawInv)
BY TypeInit, TypeStep, RawInit, RawStep, PTL DEF Spec

\* A raw subscriber that is up is in the fan-out or about to get end of file.
THEOREM RawTrackedCorrect == Spec => []RawTracked
<1>1. RawInv => RawTracked
  BY DEF RawInv
<1> QED
  BY <1>1, RawCorrect, PTL

\* Until its queue overflows a raw subscriber is sent the snapshot and then
\* every chunk, once and in order.
THEOREM RawExactCorrect == Spec => []RawExact
<1>1. RawInv => RawExact
  BY DEF RawInv
<1> QED
  BY <1>1, RawCorrect, PTL

-----------------------------------------------------------------------------
(* Connections.  While attach holds the lock nothing else can send a piece *)
(* to the connection, nor move the ring: what it has been sent is the      *)
(* replay up to `next'.                                                    *)

Replayed(l, n) == [i \in 1 .. n - Oldest(l) |-> Oldest(l) + i - 1]

LockInv ==
    mu # NoConn => mu \in attachments /\ next \in Oldest(last) .. last + 1

ReplayExact ==
    mu # NoConn /\ sd[mu] = "open" => sent[mu] = Replayed(last, next)

StreamInv == LockInv /\ ReplayExact /\ StreamExact

LEMMA ReplayedEmpty ==
    ASSUME NEW l \in Nat PROVE Replayed(l, Oldest(l)) = <<>>
<1>1. 1 .. Oldest(l) - Oldest(l) = {}
  BY OldestType
<1> QED
  BY <1>1 DEF Replayed

LEMMA ReplayedGrows ==
    ASSUME NEW l \in Nat, NEW p \in Nat, p >= Oldest(l)
    PROVE  Append(Replayed(l, p), p) = Replayed(l, p + 1)
<1> DEFINE n == p - Oldest(l)
           s == Replayed(l, p)
           t == Replayed(l, p + 1)
<1>1. n \in Nat /\ Oldest(l) \in Nat /\ n = p - Oldest(l) /\ Oldest(l) >= 1
  BY OldestType DEF ScrollbackEndMark
<1>2. s \in [1..n -> Nat] /\ t \in [1 .. n + 1 -> Nat]
  BY <1>1 DEF Replayed
<1>3. (\A i \in 1..n : t[i] = s[i]) /\ t[n + 1] = p
  BY <1>1 DEF Replayed
<1> HIDE DEF n, s, t
<1>4. Append(s, t[n + 1]) = t
  BY <1>1, <1>2, <1>3, AppendLast
<1>5. Append(s, p) = t
  BY <1>3, <1>4
<1> QED
  BY <1>5 DEF s, t

LEMMA StreamStarts ==
    ASSUME NEW l \in Nat
    PROVE  Append(Replayed(l, l + 1), ScrollbackEndMark) = Stream(l, l)
<1> DEFINE n == l + 1 - Oldest(l)
           s == Replayed(l, l + 1)
           t == Stream(l, l)
<1>1. /\ n \in Nat /\ n = l + 1 - Oldest(l)
      /\ Oldest(l) \in Nat /\ Oldest(l) >= 1 /\ ScrollbackEndMark = 0
  BY OldestType DEF ScrollbackEndMark
<1>2. s \in [1..n -> Nat] /\ t \in [1 .. n + 1 -> Nat]
  BY <1>1 DEF Replayed, Stream
<1>3. (\A i \in 1..n : t[i] = s[i]) /\ t[n + 1] = ScrollbackEndMark
  BY <1>1 DEF Replayed, Stream
<1> HIDE DEF n, s, t
<1>4. Append(s, t[n + 1]) = t
  BY <1>1, <1>2, <1>3, AppendLast
<1>5. Append(s, ScrollbackEndMark) = t
  BY <1>3, <1>4
<1> QED
  BY <1>5 DEF s, t

LEMMA StreamGrows ==
    ASSUME NEW b \in Nat, NEW a \in 0..b
    PROVE  Append(Stream(a, b), b + 1) = Stream(a, b + 1)
<1> DEFINE o == Oldest(a)
           n == b - o + 2
           s == Stream(a, b)
           t == Stream(a, b + 1)
<1>1. /\ o \in Nat /\ o >= 1 /\ o <= a + 1 /\ a <= b /\ a \in Nat /\ n \in Nat
      /\ b + 1 - o + 2 = n + 1
  BY OldestType
<1>2. s \in [1..n -> Nat]
  <2>1. \A i \in 1..n : /\ o + i - 1 \in Nat
                        /\ ~(i <= a - o + 1) => o + i - 2 \in Nat
    BY <1>1
  <2> QED
    BY <2>1 DEF Stream, ScrollbackEndMark
<1>3. t \in [1 .. n + 1 -> Nat]
  <2> DEFINE e(i) == IF i <= a - o + 1 THEN o + i - 1
                     ELSE IF i = a - o + 1 + 1 THEN 0 ELSE o + i - 2
  <2>1. \A i \in 1 .. n + 1 : e(i) \in Nat
    BY <1>1
  <2>2. t = [i \in 1 .. n + 1 |-> e(i)]
    BY <1>1 DEF Stream, ScrollbackEndMark
  <2> HIDE DEF e, t, n
  <2> QED
    BY <2>1, <2>2
<1>4. (\A i \in 1..n : t[i] = s[i]) /\ t[n + 1] = b + 1
  BY SMTT(20), <1>1 DEF Stream
<1>5. n \in Nat
  BY <1>1
<1> HIDE DEF n, s, t
<1>6. Append(s, t[n + 1]) = t
  BY <1>2, <1>3, <1>4, <1>5, AppendLast
<1>7. Append(s, b + 1) = t
  BY <1>4, <1>6
<1> QED
  BY <1>7 DEF s, t

\* A client whose queue is still sound after a send got what was sent.
LEMMA SendOpen ==
    ASSUME TypeConn, NEW C \in SUBSET Conn, Send(C)
    PROVE  \A x \in Conn : sd'[x] = "open" => sd[x] = "open"
BY DEF TypeConn, Send, Queue

LEMMA SendPieceOpen ==
    ASSUME TypeConn, NEW C \in SUBSET Conn, NEW p, SendPiece(C, p)
    PROVE  /\ \A x \in C : sd'[x] = "open" =>
                 sd[x] = "open" /\ sent'[x] = Append(sent[x], p)
           /\ \A x \in Conn \ C :
                 sd'[x] = "open" => sd[x] = "open" /\ sent'[x] = sent[x]
BY CapAssumption DEF CapAssumption, TypeConn, SendPiece, Send, Queue, Up

LEMMA StreamFrame ==
    ASSUME TypePty, TypeSess, LockInv, ReplayExact, StreamExact,
           UNCHANGED <<last, mu, attachments, next, toTell, sent>>,
           \A x \in Conn : sd'[x] = "open" => sd[x] = "open"
    PROVE  LockInv' /\ ReplayExact' /\ StreamExact'
BY DEF TypePty, TypeSess, LockInv, ReplayExact, StreamExact

LEMMA StreamInit == Init => StreamInv
BY DEF Init, StreamInv, LockInv, ReplayExact, StreamExact

LEMMA StreamStep == TypeOK /\ StreamInv /\ [Next]_vars => StreamInv'
<1> SUFFICES ASSUME TypePty, TypeSess, TypeConn, TypeRaw,
                    LockInv, ReplayExact, StreamExact, [Next]_vars
             PROVE  LockInv' /\ ReplayExact' /\ StreamExact'
  BY DEF TypeOK, StreamInv
<1>1. CASE Read
  <2>1. UNCHANGED <<last, mu, attachments, next, toTell, sent>>
    BY <1>1 DEF Read, sessVars, ptyVars, connVars, queues, rawVars, rawQs
  <2>2. \A x \in Conn : sd'[x] = "open" => sd[x] = "open"
    BY <1>1 DEF Read, sessVars, ptyVars, connVars, queues, rawVars, rawQs, TypeConn
  <2> QED
    BY <2>1, <2>2, StreamFrame
<1>2. CASE OnOutput
  <2>1. /\ mu = NoConn /\ toTell = {} /\ last \in Nat /\ last' = last + 1
        /\ UNCHANGED <<mu, attachments, toTell>>
        /\ SendPiece(attachments, last + 1)
    BY <1>2 DEF OnOutput, Emit, sessVars, ptyVars, connVars, queues, rawVars, rawQs, Free, TypeSess, TypePty
  <2>2. LockInv' /\ ReplayExact'
    BY <2>1, NoConnAssumption DEF NoConnAssumption, LockInv, ReplayExact
  <2>3. ASSUME NEW x \in attachments, sd'[x] = "open"
        PROVE  \E a \in 0..last + 1 : sent'[x] = Stream(a, last + 1)
    <3>1. x \in Conn /\ mu # x
      BY <2>1, NoConnAssumption DEF NoConnAssumption, TypeSess
    <3>2. sd[x] = "open" /\ sent'[x] = Append(sent[x], last + 1)
      BY <2>1, <2>3, <3>1, SendPieceOpen DEF TypeSess
    <3>3. PICK a \in 0..last : sent[x] = Stream(a, last)
      BY <2>3, <3>1, <3>2 DEF StreamExact
    <3>4. Append(Stream(a, last), last + 1) = Stream(a, last + 1)
      BY <2>1, <3>3, StreamGrows
    <3>5. a \in 0..last + 1
      BY <2>1
    <3> QED
      BY <3>2, <3>3, <3>4, <3>5
  <2>4. StreamExact'
    BY <2>1, <2>3 DEF StreamExact
  <2> QED
    BY <2>2, <2>4
<1>3. CASE Finish
  <2>1. UNCHANGED <<last, mu, attachments, next, toTell, sent>>
    BY <1>3 DEF Finish, sessVars, ptyVars, connVars, queues, rawVars, rawQs
  <2>2. \A x \in Conn : sd'[x] = "open" => sd[x] = "open"
    BY <1>3 DEF Finish, sessVars, ptyVars, connVars, queues, rawVars, rawQs, TypeConn
  <2> QED
    BY <2>1, <2>2, StreamFrame
<1>4. CASE OnExit
  <2>1. /\ mu = NoConn /\ toTell' = attachments /\ attachments' = {}
        /\ UNCHANGED <<last, mu, sd, sent>>
    BY <1>4 DEF OnExit, TakeLists, sessVars, ptyVars, connVars, queues, rawVars, rawQs, Free
  <2>2. LockInv' /\ ReplayExact'
    BY <2>1, NoConnAssumption DEF NoConnAssumption, LockInv, ReplayExact
  <2>3. StreamExact'
    BY <2>1 DEF StreamExact
  <2> QED
    BY <2>2, <2>3
<1>5. ASSUME NEW c \in Conn, TellExit(c)
      PROVE  LockInv' /\ ReplayExact' /\ StreamExact'
  <2>1. UNCHANGED <<last, mu, attachments, next, toTell, sent>>
    BY <1>5 DEF TellExit, sessVars, ptyVars, connVars, queues, rawVars, rawQs
  <2>2. \A x \in Conn : sd'[x] = "open" => sd[x] = "open"
    BY <1>5, SendOpen DEF TellExit, sessVars, ptyVars, connVars, queues, rawVars, rawQs, TypeConn
  <2> QED
    BY <2>1, <2>2, StreamFrame
<1>6. ASSUME NEW c \in Conn, TellClosed(c)
      PROVE  LockInv' /\ ReplayExact' /\ StreamExact'
  <2>1. UNCHANGED <<last, mu, attachments, next, sent>> /\ toTell' \subseteq toTell
    BY <1>6 DEF TellClosed, sessVars, ptyVars, connVars, queues, rawVars, rawQs, Free
  <2>2. \A x \in Conn : sd'[x] = "open" => sd[x] = "open" /\ sent'[x] = sent[x]
    BY <1>6, SendOpen DEF TellClosed, sessVars, ptyVars, connVars, queues, rawVars, rawQs, TypeConn
  <2>3. LockInv'
    BY <2>1, NoConnAssumption DEF NoConnAssumption, LockInv
  <2>4. ReplayExact'
    BY <2>1, <2>2 DEF ReplayExact, TypePty
  <2>5. StreamExact'
    BY <2>1, <2>2 DEF StreamExact, TypeSess
  <2> QED
    BY <2>3, <2>4, <2>5
<1>7. ASSUME NEW r \in Raw, EndRaw(r)
      PROVE  LockInv' /\ ReplayExact' /\ StreamExact'
  <2>1. UNCHANGED <<last, mu, attachments, next, toTell, sent>>
    BY <1>7 DEF EndRaw, sessVars, ptyVars, connVars, queues, rawVars, rawQs
  <2>2. \A x \in Conn : sd'[x] = "open" => sd[x] = "open"
    BY <1>7 DEF EndRaw, sessVars, ptyVars, connVars, queues, rawVars, rawQs, TypeConn
  <2> QED
    BY <2>1, <2>2, StreamFrame
<1>8. CASE RemoveSession
  <2>1. UNCHANGED <<last, mu, attachments, next, toTell, sent>>
    BY <1>8 DEF RemoveSession, sessVars, ptyVars, connVars, queues, rawVars, rawQs
  <2>2. \A x \in Conn : sd'[x] = "open" => sd[x] = "open"
    BY <1>8 DEF RemoveSession, sessVars, ptyVars, connVars, queues, rawVars, rawQs,
       TypeConn
  <2> QED
    BY <2>1, <2>2, StreamFrame
<1>9. ASSUME NEW c \in Conn, AttachRequest(c)
      PROVE  LockInv' /\ ReplayExact' /\ StreamExact'
  <2>1. UNCHANGED <<last, mu, attachments, next, toTell, sent>>
    BY <1>9 DEF AttachRequest, sessVars, ptyVars, connVars, queues, rawVars, rawQs
  <2>2. \A x \in Conn : sd'[x] = "open" => sd[x] = "open"
    BY <1>9, SendOpen DEF AttachRequest, sessVars, ptyVars, connVars, queues, rawVars, rawQs,
       TypeConn
  <2> QED
    BY <2>1, <2>2, StreamFrame
<1>10. ASSUME NEW c \in Conn, Attach(c)
      PROVE  LockInv' /\ ReplayExact' /\ StreamExact'
  <2>1. /\ mu = NoConn /\ mu' = c /\ attachments' = attachments \cup {c}
        /\ next' = Oldest(last) /\ last \in Nat
        /\ UNCHANGED <<last, toTell, sd>>
    BY <1>10 DEF Attach, sessVars, ptyVars, connVars, queues, rawVars, rawQs, Free, TypePty
  <2>2. sent'[c] = <<>> /\ \A x \in Conn \ {c} : sent'[x] = sent[x]
    BY <1>10 DEF Attach, TypeConn
  <2>3. LockInv'
    BY <2>1, OldestType DEF LockInv
  <2>4. ReplayExact'
    BY <2>1, <2>2, ReplayedEmpty DEF ReplayExact
  <2>5. StreamExact'
    BY <2>1, <2>2, NoConnAssumption DEF NoConnAssumption, StreamExact, TypeSess
  <2> QED
    BY <2>3, <2>4, <2>5
<1>11. ASSUME NEW c \in Conn, Replay(c)
      PROVE  LockInv' /\ ReplayExact' /\ StreamExact'
  <2>1. /\ mu = c /\ next <= last /\ next' = next + 1
        /\ UNCHANGED <<last, mu, attachments, toTell>>
        /\ SendPiece({c}, next)
    BY <1>11 DEF Replay, sessVars, ptyVars, connVars, queues, rawVars, rawQs
  <2>2. last \in Nat /\ next \in Oldest(last)..last + 1 /\ Oldest(last) \in Nat
    BY <2>1, OldestType, NoConnAssumption
       DEF NoConnAssumption, LockInv, TypePty
  <2>3. /\ sd'[c] = "open" => sd[c] = "open" /\ sent'[c] = Append(sent[c], next)
        /\ \A x \in Conn \ {c} :
               sd'[x] = "open" => sd[x] = "open" /\ sent'[x] = sent[x]
    BY <2>1, SendPieceOpen
  <2>4. LockInv'
    BY <2>1, <2>2 DEF LockInv
  <2>5. ReplayExact'
    <3>1. Append(Replayed(last, next), next) = Replayed(last, next + 1)
      BY <2>1, <2>2, ReplayedGrows
    <3> QED
      BY <2>1, <2>3, <3>1 DEF ReplayExact
  <2>6. StreamExact'
    BY <2>1, <2>3 DEF StreamExact, TypeSess
  <2> QED
    BY <2>4, <2>5, <2>6
<1>12. ASSUME NEW c \in Conn, ScrollbackEnd(c)
      PROVE  LockInv' /\ ReplayExact' /\ StreamExact'
  <2>1. /\ mu = c /\ next > last /\ mu' = NoConn
        /\ UNCHANGED <<last, attachments, toTell>>
        /\ SendPiece({c}, ScrollbackEndMark)
    BY <1>12 DEF ScrollbackEnd, FinishReplay, sessVars, ptyVars, connVars, queues,
       rawVars, rawQs
  <2>2. last \in Nat /\ next = last + 1
    <3>1. last \in Nat /\ next \in Nat /\ next <= last + 1
      BY <2>1, OldestType, NoConnAssumption
         DEF NoConnAssumption, LockInv, TypePty, TypeSess
    <3> QED
      BY <2>1, <3>1
  <2>3. /\ sd'[c] = "open" => /\ sd[c] = "open"
                              /\ sent'[c] = Append(sent[c], ScrollbackEndMark)
        /\ \A x \in Conn \ {c} :
               sd'[x] = "open" => sd[x] = "open" /\ sent'[x] = sent[x]
    BY <2>1, SendPieceOpen
  <2>4. LockInv' /\ ReplayExact'
    BY <2>1, NoConnAssumption DEF NoConnAssumption, LockInv, ReplayExact
  <2>5. sd'[c] = "open" => sent'[c] = Stream(last, last)
    <3>1. Append(Replayed(last, last + 1), ScrollbackEndMark)
            = Stream(last, last)
      BY <2>2, StreamStarts
    <3> QED
      BY <2>1, <2>2, <2>3, <3>1, NoConnAssumption
         DEF NoConnAssumption, ReplayExact
  <2>6. last \in 0..last
    BY <2>2
  <2>7. StreamExact'
    BY <2>1, <2>3, <2>5, <2>6 DEF StreamExact, TypeSess
  <2> QED
    BY <2>4, <2>7
<1>13. ASSUME NEW c \in Conn, Detach(c)
      PROVE  LockInv' /\ ReplayExact' /\ StreamExact'
  <2>1. UNCHANGED <<last, mu, next, toTell, sent, sd>> /\ mu = NoConn /\ attachments' \subseteq attachments
    BY <1>13 DEF Detach, sessVars, ptyVars, connVars, queues, rawVars, rawQs, Free
  <2>2. \A x \in Conn : sd'[x] = "open" => sd[x] = "open" /\ sent'[x] = sent[x]
    BY <1>13 DEF Detach, sessVars, ptyVars, connVars, queues, rawVars, rawQs, TypeConn
  <2>3. LockInv'
    BY <2>1, NoConnAssumption DEF NoConnAssumption, LockInv
  <2>4. ReplayExact'
    BY <2>1, <2>2 DEF ReplayExact, TypePty
  <2>5. StreamExact'
    BY <2>1, <2>2 DEF StreamExact, TypeSess
  <2> QED
    BY <2>3, <2>4, <2>5
<1>14. ASSUME NEW c \in Conn, Deliver(c)
      PROVE  LockInv' /\ ReplayExact' /\ StreamExact'
  <2>1. UNCHANGED <<last, mu, attachments, next, toTell, sent>>
    BY <1>14 DEF Deliver, Up, sessVars, ptyVars, connVars, queues, rawVars, rawQs
  <2>2. \A x \in Conn : sd'[x] = "open" => sd[x] = "open"
    BY <1>14 DEF Deliver, Up, sessVars, ptyVars, connVars, queues, rawVars, rawQs,
       TypeConn
  <2> QED
    BY <2>1, <2>2, StreamFrame
<1>15. ASSUME NEW c \in Conn, ShutdownBegin(c)
      PROVE  LockInv' /\ ReplayExact' /\ StreamExact'
  <2>1. UNCHANGED <<last, mu, attachments, next, toTell>>
    BY <1>15 DEF ShutdownBegin, Up, sessVars, ptyVars, connVars, queues, rawVars, rawQs, Free
  <2>2. \A x \in Conn : sd'[x] = "open" => sd[x] = "open" /\ sent'[x] = sent[x]
    BY <1>15 DEF ShutdownBegin, Up, sessVars, ptyVars, connVars, queues, rawVars, rawQs, TypeConn
  <2>3. LockInv'
    BY <2>1, NoConnAssumption DEF NoConnAssumption, LockInv
  <2>4. ReplayExact'
    BY <2>1, <2>2 DEF ReplayExact, TypePty
  <2>5. StreamExact'
    BY <2>1, <2>2 DEF StreamExact, TypeSess
  <2> QED
    BY <2>3, <2>4, <2>5
<1>16. ASSUME NEW c \in Conn, ShutdownKeys(c)
      PROVE  LockInv' /\ ReplayExact' /\ StreamExact'
  <2>1. UNCHANGED <<last, mu, attachments, next, toTell, sent>>
    BY <1>16 DEF ShutdownKeys, sessVars, ptyVars, connVars, queues, rawVars, rawQs
  <2>2. \A x \in Conn : sd'[x] = "open" => sd[x] = "open"
    BY <1>16 DEF ShutdownKeys, sessVars, ptyVars, connVars, queues, rawVars, rawQs,
       TypeConn
  <2> QED
    BY <2>1, <2>2, StreamFrame
<1>17. ASSUME NEW c \in Conn, ShutdownDetach(c)
      PROVE  LockInv' /\ ReplayExact' /\ StreamExact'
  <2>1. UNCHANGED <<last, mu, next, toTell, sent>> /\ mu = NoConn /\ attachments' \subseteq attachments
    BY <1>17 DEF ShutdownDetach, sessVars, ptyVars, connVars, queues, rawVars, rawQs, Free
  <2>2. \A x \in Conn : sd'[x] = "open" => sd[x] = "open" /\ sent'[x] = sent[x]
    BY <1>17 DEF ShutdownDetach, sessVars, ptyVars, connVars, queues, rawVars, rawQs, TypeConn
  <2>3. LockInv'
    BY <2>1, NoConnAssumption DEF NoConnAssumption, LockInv
  <2>4. ReplayExact'
    BY <2>1, <2>2 DEF ReplayExact, TypePty
  <2>5. StreamExact'
    BY <2>1, <2>2 DEF StreamExact, TypeSess
  <2> QED
    BY <2>3, <2>4, <2>5
<1>18. ASSUME NEW r \in Raw, RawHandshake(r)
      PROVE  LockInv' /\ ReplayExact' /\ StreamExact'
  <2>1. UNCHANGED <<last, mu, attachments, next, toTell, sent>>
    BY <1>18 DEF RawHandshake, sessVars, ptyVars, connVars, queues, rawVars, rawQs
  <2>2. \A x \in Conn : sd'[x] = "open" => sd[x] = "open"
    BY <1>18 DEF RawHandshake, sessVars, ptyVars, connVars, queues, rawVars, rawQs,
       TypeConn
  <2> QED
    BY <2>1, <2>2, StreamFrame
<1>19. ASSUME NEW r \in Raw, AttachRaw(r)
      PROVE  LockInv' /\ ReplayExact' /\ StreamExact'
  <2>1. UNCHANGED <<last, mu, attachments, next, toTell, sent>>
    BY <1>19 DEF AttachRaw, Subscribe, sessVars, ptyVars, connVars, queues, rawVars,
       rawQs
  <2>2. \A x \in Conn : sd'[x] = "open" => sd[x] = "open"
    BY <1>19 DEF AttachRaw, Subscribe, sessVars, ptyVars, connVars, queues, rawVars,
       rawQs, TypeConn
  <2> QED
    BY <2>1, <2>2, StreamFrame
<1>20. ASSUME NEW r \in Raw, RawEof(r)
      PROVE  LockInv' /\ ReplayExact' /\ StreamExact'
  <2>1. UNCHANGED <<last, mu, attachments, next, toTell, sent>>
    BY <1>20 DEF RawEof, sessVars, ptyVars, connVars, queues, rawVars, rawQs
  <2>2. \A x \in Conn : sd'[x] = "open" => sd[x] = "open"
    BY <1>20 DEF RawEof, sessVars, ptyVars, connVars, queues, rawVars, rawQs, TypeConn
  <2> QED
    BY <2>1, <2>2, StreamFrame
<1>21. ASSUME NEW r \in Raw, DetachRaw(r)
      PROVE  LockInv' /\ ReplayExact' /\ StreamExact'
  <2>1. UNCHANGED <<last, mu, attachments, next, toTell, sent>>
    BY <1>21 DEF DetachRaw, sessVars, ptyVars, connVars, queues, rawVars, rawQs
  <2>2. \A x \in Conn : sd'[x] = "open" => sd[x] = "open"
    BY <1>21 DEF DetachRaw, sessVars, ptyVars, connVars, queues, rawVars, rawQs,
       TypeConn
  <2> QED
    BY <2>1, <2>2, StreamFrame
<1>22. ASSUME NEW r \in Raw, RawShutdown(r)
      PROVE  LockInv' /\ ReplayExact' /\ StreamExact'
  <2>1. UNCHANGED <<last, mu, attachments, next, toTell, sent>>
    BY <1>22 DEF RawShutdown, sessVars, ptyVars, connVars, queues, rawVars, rawQs
  <2>2. \A x \in Conn : sd'[x] = "open" => sd[x] = "open"
    BY <1>22 DEF RawShutdown, sessVars, ptyVars, connVars, queues, rawVars, rawQs,
       TypeConn
  <2> QED
    BY <2>1, <2>2, StreamFrame
<1>23. ASSUME NEW r \in Raw, RawDeliver(r)
      PROVE  LockInv' /\ ReplayExact' /\ StreamExact'
  <2>1. UNCHANGED <<last, mu, attachments, next, toTell, sent>>
    BY <1>23 DEF RawDeliver, sessVars, ptyVars, connVars, queues, rawVars, rawQs
  <2>2. \A x \in Conn : sd'[x] = "open" => sd[x] = "open"
    BY <1>23 DEF RawDeliver, sessVars, ptyVars, connVars, queues, rawVars, rawQs,
       TypeConn
  <2> QED
    BY <2>1, <2>2, StreamFrame
<1>24. CASE UNCHANGED vars
  BY <1>24, StreamFrame DEF sessVars, ptyVars, connVars, queues, rawVars, rawQs, vars
<1> QED
  BY <1>1, <1>2, <1>3, <1>4, <1>5, <1>6, <1>7, <1>8, <1>9, <1>10, <1>11,
     <1>12, <1>13, <1>14, <1>15, <1>16, <1>17, <1>18, <1>19, <1>20, <1>21,
     <1>22, <1>23, <1>24
     DEF Next, Exiting, Holding, Shutdown

LEMMA StreamCorrect == Spec => [](TypeOK /\ StreamInv)
BY TypeInit, TypeStep, StreamInit, StreamStep, PTL DEF Spec

\* Until its queue overflows an attached client is sent the scrollback, then
\* scrollback_end, then every later piece, each once and in order.
THEOREM StreamExactCorrect == Spec => []StreamExact
<1>1. StreamInv => StreamExact
  BY DEF StreamInv
<1> QED
  BY <1>1, StreamCorrect, PTL

=============================================================================
