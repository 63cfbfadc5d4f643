---------------------------- MODULE ClientProofs ----------------------------
(***************************************************************************)
(* Proofs about Client, for any number of callers and any bounds.  That a  *)
(* call returns its own reply follows from what may be in its slot.  That  *)
(* no reply is taken for an event needs the whole way of an id: given out  *)
(* once (Fresh), on the wire at most once (OnceSent), and with an entry as *)
(* long as its reply is under way and somebody waits for it (Awaited).     *)
(***************************************************************************)
EXTENDS Client, SequenceTheorems, TLAPS

\* The id n is somewhere in s.
Occurs(n, s) == \E i \in 1 .. Len(s) : s[i] = n

\* No id is twice in s, where 0 is not one.
Distinct(s) == \A i, j \in 1 .. Len(s) : s[i] = s[j] /\ s[i] # 0 => i = j

\* The channel of events is a sequence.
EventsTyped == events \in Seq({0})

\* Ids are given out in their order, to one call each.
Fresh ==
    /\ \A n \in Ids : n > nextId => /\ ~Occurs(n, requests)
                                    /\ ~Occurs(n, messages)
                                    /\ n \notin stray
    /\ \A c \in Caller : id[c] <= nextId /\ (pc[c] # "idle" => id[c] \in Ids)
    /\ \A c, d \in Caller :
          pc[c] # "idle" /\ pc[d] # "idle" /\ id[c] = id[d] => c = d

\* An id goes out once, after its call has begun to send.
OnceSent ==
    /\ Distinct(requests) /\ Distinct(messages)
    /\ \A n \in Ids : ~(Occurs(n, requests) /\ Occurs(n, messages))
    /\ \A c \in Caller :
          pc[c] = "send" => /\ ~Occurs(id[c], requests)
                            /\ ~Occurs(id[c], messages)

\* As long as the reader reads, a call in progress has its entry, until its
\* reply has been taken off the wire.
Awaited ==
    \A c \in Caller :
        reader \in {"read", "event"} /\ pc[c] # "idle" /\ id[c] \notin pending
        => /\ pc[c] = "wait"
           /\ ~Occurs(id[c], requests) /\ ~Occurs(id[c], messages)

\* No reply to a call in progress has been taken for an event.
Unstrayed == \A c \in Caller : pc[c] # "idle" => id[c] \notin stray

\* What has arrived for a call is its own reply, or the news that none will.
OwnSlot == \A c \in Caller : slot[c] \in {None, Failed, id[c]}

-----------------------------------------------------------------------------
(* Sequences of ids, as the socket handles them *)

\* What is taken from the front was there, once, and what is left was there.
LEMMA TakeFromFront ==
    ASSUME NEW S, NEW s \in Seq(S), s # <<>>
    PROVE  /\ Head(s) \in S /\ Tail(s) \in Seq(S)
           /\ Occurs(Head(s), s)
           /\ \A n : Occurs(n, Tail(s)) => Occurs(n, s)
           /\ Distinct(s) =>
                 /\ Distinct(Tail(s))
                 /\ Head(s) # 0 => ~Occurs(Head(s), Tail(s))
  <1>1. /\ Head(s) \in S /\ Tail(s) \in Seq(S)
        /\ Len(Tail(s)) = Len(s) - 1
        /\ \A i \in 1 .. Len(Tail(s)) : Tail(s)[i] = s[i + 1]
    BY HeadTailProperties
  <1>2. Len(s) \in Nat \ {0} /\ Head(s) = s[1]
    BY EmptySeq
  <1>3. Occurs(Head(s), s)
    BY <1>2 DEF Occurs
  <1>4. ASSUME NEW n, Occurs(n, Tail(s)) PROVE Occurs(n, s)
    <2>1. PICK i \in 1 .. Len(Tail(s)) : Tail(s)[i] = n
      BY <1>4 DEF Occurs
    <2>2. i + 1 \in 1 .. Len(s) /\ s[i + 1] = n
      BY <1>1, <1>2, <2>1
    <2> QED
      BY <2>2 DEF Occurs
  <1>5. ASSUME Distinct(s) PROVE Distinct(Tail(s))
    <2> SUFFICES ASSUME NEW i \in 1 .. Len(Tail(s)),
                        NEW j \in 1 .. Len(Tail(s)),
                        Tail(s)[i] = Tail(s)[j], Tail(s)[i] # 0
                 PROVE  i = j
      BY DEF Distinct
    <2>1. i + 1 \in 1 .. Len(s) /\ j + 1 \in 1 .. Len(s)
      BY <1>1, <1>2
    <2>2. s[i + 1] = s[j + 1] /\ s[i + 1] # 0
      BY <1>1
    <2>3. i + 1 = j + 1
      BY <1>5, <2>1, <2>2 DEF Distinct
    <2> QED
      BY <1>1, <1>2, <2>3
  <1>6. ASSUME Distinct(s), Head(s) # 0, Occurs(Head(s), Tail(s)) PROVE FALSE
    <2>1. PICK i \in 1 .. Len(Tail(s)) : Tail(s)[i] = Head(s)
      BY <1>6 DEF Occurs
    <2>2. i + 1 \in 1 .. Len(s) /\ s[i + 1] = s[1] /\ 1 \in 1 .. Len(s)
      BY <1>1, <1>2, <2>1
    <2>3. i + 1 = 1
      BY <1>2, <1>6, <2>2 DEF Distinct
    <2> QED
      BY <1>1, <1>2, <2>3
  <1> QED
    BY <1>1, <1>3, <1>4, <1>5, <1>6

\* What is put at the end is there, and nothing else is new.
LEMMA PutAtEnd ==
    ASSUME NEW S, NEW s \in Seq(S), NEW e \in S
    PROVE  /\ Append(s, e) \in Seq(S)
           /\ \A n : Occurs(n, Append(s, e)) <=> Occurs(n, s) \/ n = e
           /\ Distinct(s) /\ (e = 0 \/ ~Occurs(e, s)) =>
                 Distinct(Append(s, e))
  <1>1. /\ Append(s, e) \in Seq(S)
        /\ Len(Append(s, e)) = Len(s) + 1
        /\ \A i \in 1 .. Len(s) : Append(s, e)[i] = s[i]
        /\ Append(s, e)[Len(s) + 1] = e
    BY AppendProperties
  <1>2. Len(s) \in Nat
    BY LenProperties
  <1>3. ASSUME NEW n PROVE Occurs(n, Append(s, e)) <=> Occurs(n, s) \/ n = e
    <2>1. ASSUME Occurs(n, Append(s, e)) PROVE Occurs(n, s) \/ n = e
      BY <1>1, <1>2, <2>1 DEF Occurs
    <2>2. ASSUME Occurs(n, s) PROVE Occurs(n, Append(s, e))
      <3>1. PICK i \in 1 .. Len(s) : s[i] = n
        BY <2>2 DEF Occurs
      <3>2. i \in 1 .. Len(Append(s, e)) /\ Append(s, e)[i] = n
        BY <1>1, <1>2, <3>1
      <3> QED
        BY <3>2 DEF Occurs
    <2>3. ASSUME n = e PROVE Occurs(n, Append(s, e))
      <3>1. Len(s) + 1 \in 1 .. Len(Append(s, e))
        BY <1>1, <1>2
      <3> QED
        BY <1>1, <2>3, <3>1 DEF Occurs
    <2> QED
      BY <2>1, <2>2, <2>3
  <1>4. ASSUME Distinct(s), e = 0 \/ ~Occurs(e, s)
        PROVE  Distinct(Append(s, e))
    BY <1>1, <1>2, <1>4 DEF Distinct, Occurs
  <1> QED
    BY <1>1, <1>3, <1>4

\* What Send adds to the requests is its own id.
LEMMA Sent ==
    ASSUME TypeOK, NEW c \in Caller, Send(c), id[c] \in Ids
    PROVE  /\ requests' \in Seq(Ids)
           /\ \A n : Occurs(n, requests') => Occurs(n, requests) \/ n = id[c]
           /\ Distinct(requests) /\ ~Occurs(id[c], requests) =>
                 Distinct(requests')
  <1>1. requests \in Seq(Ids)
    BY DEF TypeOK
  <1>2. requests' = requests \/ requests' = Append(requests, id[c])
    BY DEF Send
  <1>3. /\ Append(requests, id[c]) \in Seq(Ids)
        /\ \A n : Occurs(n, Append(requests, id[c])) =>
                     Occurs(n, requests) \/ n = id[c]
        /\ Distinct(requests) /\ ~Occurs(id[c], requests) =>
              Distinct(Append(requests, id[c]))
    <2> DEFINE e == id[c]
    <2>1. e \in Ids
      OBVIOUS
    <2> HIDE DEF e
    <2>2. /\ Append(requests, e) \in Seq(Ids)
          /\ \A n : Occurs(n, Append(requests, e)) =>
                       Occurs(n, requests) \/ n = e
          /\ Distinct(requests) /\ ~Occurs(e, requests) =>
                Distinct(Append(requests, e))
      BY <1>1, <2>1, PutAtEnd
    <2> QED
      BY <2>2 DEF e
  <1>4. CASE requests' = requests
    BY <1>1, <1>4
  <1>5. CASE requests' = Append(requests, id[c])
    BY <1>3, <1>5
  <1> QED
    BY <1>2, <1>4, <1>5

\* Nothing is in the empty sequence.
LEMMA NothingInEmpty == Distinct(<<>>) /\ \A n : ~Occurs(n, <<>>)
  BY DEF Distinct, Occurs

-----------------------------------------------------------------------------
\* A new connection: no call, nothing on the wire.
LEMMA InitInv ==
    Init => /\ TypeOK /\ EventsTyped /\ Fresh /\ OnceSent /\ Awaited
            /\ Unstrayed /\ OwnSlot /\ ReplyMatches
  <1> SUFFICES ASSUME Init
               PROVE  /\ TypeOK /\ EventsTyped /\ Fresh /\ OnceSent /\ Awaited
                      /\ Unstrayed /\ OwnSlot /\ ReplyMatches
    OBVIOUS
  <1>1. TypeOK /\ EventsTyped
    BY BoundAssumption, CapAssumption
    DEF Init, TypeOK, EventsTyped, Ids, None, Failed
  <1>2. Fresh /\ OnceSent
    BY NothingInEmpty DEF Init, Fresh, OnceSent, None, Ids
  <1>3. Awaited /\ Unstrayed /\ OwnSlot /\ ReplyMatches
    BY DEF Init, Awaited, Unstrayed, OwnSlot, ReplyMatches, None, Ids
  <1> QED
    BY <1>1, <1>2, <1>3

\* Every step keeps the types.
LEMMA TypeStep ==
    TypeOK /\ EventsTyped /\ Fresh /\ [Next]_vars => (TypeOK /\ EventsTyped)'
  <1> SUFFICES ASSUME TypeOK, EventsTyped, Fresh, [Next]_vars
               PROVE  (TypeOK /\ EventsTyped)'
    OBVIOUS
  <1> USE DEF TypeOK, EventsTyped, Fresh, Ids, None, Failed, wireVars,
              readVars, callVars
  <1>1. ASSUME Daemon PROVE (TypeOK /\ EventsTyped)'
    <2>1. CASE Reply
      <3>1. Head(requests) \in Ids /\ Tail(requests) \in Seq(Ids)
        BY <2>1, TakeFromFront DEF Reply
      <3>2. Append(messages, Head(requests)) \in Seq(Ids \cup {0})
        BY <3>1, PutAtEnd
      <3> QED
        BY <1>1, <2>1, <3>1, <3>2 DEF Daemon, Reply
    <2>2. CASE Event
      <3>1. Append(messages, 0) \in Seq(Ids \cup {0})
        BY PutAtEnd
      <3> QED
        BY <1>1, <2>2, <3>1 DEF Daemon, Event
    <2>3. CASE Gone
      BY <1>1, <2>3 DEF Daemon, Gone
    <2> QED
      BY <1>1, <2>1, <2>2, <2>3 DEF Daemon
  <1>2. ASSUME NEW c \in Caller, Call(c) PROVE (TypeOK /\ EventsTyped)'
    <2>1. nextId + 1 \in Ids /\ nextId + 1 \in 0..MaxId
      BY <1>2, BoundAssumption DEF Call, BeginWith
    <2> HIDE DEF Ids
    <2> QED
      BY <1>2, <2>1 DEF Call, BeginWith
  <1>3. ASSUME NEW c \in Caller, Send(c) PROVE (TypeOK /\ EventsTyped)'
    <2>1. requests' \in Seq(Ids)
      BY <1>3, Sent DEF Send
    <2> QED
      BY <1>3, <2>1 DEF Send
  <1>4. ASSUME NEW c \in Caller, SendFails(c) PROVE (TypeOK /\ EventsTyped)'
    BY <1>4 DEF SendFails, Return
  <1>5. ASSUME NEW c \in Caller, Returned(c) PROVE (TypeOK /\ EventsTyped)'
    BY <1>5 DEF Returned, Return
  <1>6. ASSUME NEW c \in Caller, GiveUp(c) PROVE (TypeOK /\ EventsTyped)'
    BY <1>6 DEF GiveUp, GiveUpWhen, Return
  <1>7. ASSUME Read PROVE (TypeOK /\ EventsTyped)'
    <2>1. Tail(messages) \in Seq(Ids \cup {0}) /\ Head(messages) \in Ids \cup {0}
      BY <1>7, TakeFromFront DEF Read
    <2>2. /\ pending' \subseteq Ids /\ stray' \subseteq Ids
          /\ slot' \in [Caller -> Ids \cup {None, Failed}]
          /\ reader' \in {"read", "event"}
      <3> HIDE DEF Ids
      <3>1. CASE Take(Head(messages), Head(messages))
        BY <1>7, <2>1, <3>1 DEF Read, Take
      <3>2. CASE AsEvent(Head(messages))
        BY <1>7, <2>1, <3>2 DEF Read, AsEvent
      <3> QED
        BY <1>7, <3>1, <3>2 DEF Read, Route
    <2> QED
      BY <1>7, <2>1, <2>2 DEF Read
  <1>8. ASSUME PutEvent PROVE (TypeOK /\ EventsTyped)'
    <2>1. CASE Len(events) < EventCap /\ events' = Append(events, 0)
               /\ reader' = "read"
      <3>1. events' \in Seq({0}) /\ Len(events') = Len(events) + 1
        BY <2>1, AppendProperties
      <3>2. Len(events') <= EventCap
        BY <2>1, <3>1, CapAssumption, LenProperties
      <3> QED
        BY <1>8, <2>1, <3>1, <3>2 DEF PutEvent, PutWhen
    <2>2. CASE reader' = "left" /\ UNCHANGED events
      BY <1>8, <2>2 DEF PutEvent, PutWhen
    <2> QED
      BY <1>8, <2>1, <2>2 DEF PutEvent, PutWhen
  <1>9. ASSUME FailPending PROVE (TypeOK /\ EventsTyped)'
    BY <1>9 DEF FailPending
  <1>10. ASSUME ReaderEnd PROVE (TypeOK /\ EventsTyped)'
    BY <1>10 DEF ReaderEnd, EndReader
  <1>11. ASSUME Consume PROVE (TypeOK /\ EventsTyped)'
    <2>1. Tail(events) \in Seq({0}) /\ Len(Tail(events)) = Len(events) - 1
      BY <1>11, HeadTailProperties DEF Consume
    <2>2. Len(Tail(events)) <= EventCap
      BY <2>1, LenProperties, CapAssumption
    <2> QED
      BY <1>11, <2>1, <2>2 DEF Consume
  <1>12. ASSUME Close PROVE (TypeOK /\ EventsTyped)'
    BY <1>12 DEF Close
  <1>13. CASE UNCHANGED vars
    BY <1>13 DEF vars
  <1> QED
    BY <1>1, <1>2, <1>3, <1>4, <1>5, <1>6, <1>7, <1>8, <1>9, <1>10, <1>11,
       <1>12, <1>13
    DEF Next, Reader, Calling

\* A reply is put only where its own call looks.
LEMMA OwnSlotStep == TypeOK /\ OwnSlot /\ [Next]_vars => OwnSlot'
  <1> SUFFICES ASSUME TypeOK, OwnSlot, [Next]_vars PROVE OwnSlot'
    OBVIOUS
  <1> USE DEF TypeOK, OwnSlot, None, Failed, Ids, wireVars, readVars, callVars
  <1>1. ASSUME Daemon PROVE OwnSlot'
    BY <1>1 DEF Daemon, Reply, Event, Gone
  <1>2. ASSUME NEW c \in Caller, Call(c) PROVE OwnSlot'
    BY <1>2 DEF Call, BeginWith
  <1>3. ASSUME NEW c \in Caller, Send(c) PROVE OwnSlot'
    BY <1>3 DEF Send
  <1>4. ASSUME NEW c \in Caller, SendFails(c) PROVE OwnSlot'
    BY <1>4 DEF SendFails, Return
  <1>5. ASSUME NEW c \in Caller, Returned(c) PROVE OwnSlot'
    BY <1>5 DEF Returned, Return
  <1>6. ASSUME NEW c \in Caller, GiveUp(c) PROVE OwnSlot'
    BY <1>6 DEF GiveUp, GiveUpWhen, Return
  <1>7. ASSUME Read PROVE OwnSlot'
    BY <1>7 DEF Read, Route, Take, AsEvent, Waiters
  <1>8. ASSUME PutEvent PROVE OwnSlot'
    BY <1>8 DEF PutEvent, PutWhen
  <1>9. ASSUME FailPending PROVE OwnSlot'
    BY <1>9 DEF FailPending
  <1>10. ASSUME ReaderEnd PROVE OwnSlot'
    BY <1>10 DEF ReaderEnd, EndReader
  <1>11. ASSUME Consume PROVE OwnSlot'
    BY <1>11 DEF Consume
  <1>12. ASSUME Close PROVE OwnSlot'
    BY <1>12 DEF Close
  <1>13. CASE UNCHANGED vars
    BY <1>13 DEF vars
  <1> QED
    BY <1>1, <1>2, <1>3, <1>4, <1>5, <1>6, <1>7, <1>8, <1>9, <1>10, <1>11,
       <1>12, <1>13
    DEF Next, Reader, Calling

\* A call returns what has arrived for it.
LEMMA ReplyStep ==
    TypeOK /\ OwnSlot /\ ReplyMatches /\ [Next]_vars => ReplyMatches'
  <1> SUFFICES ASSUME TypeOK, OwnSlot, ReplyMatches, [Next]_vars
               PROVE  ReplyMatches'
    OBVIOUS
  <1> USE DEF TypeOK, OwnSlot, ReplyMatches, None, Failed, Ids, wireVars,
              readVars, callVars
  <1>1. ASSUME Daemon PROVE ReplyMatches'
    BY <1>1 DEF Daemon, Reply, Event, Gone
  <1>2. ASSUME NEW c \in Caller, Call(c) PROVE ReplyMatches'
    BY <1>2 DEF Call, BeginWith
  <1>3. ASSUME NEW c \in Caller, Send(c) PROVE ReplyMatches'
    BY <1>3 DEF Send
  <1>4. ASSUME NEW c \in Caller, SendFails(c) PROVE ReplyMatches'
    BY <1>4 DEF SendFails, Return
  <1>5. ASSUME NEW c \in Caller, Returned(c) PROVE ReplyMatches'
    BY <1>5 DEF Returned, Return
  <1>6. ASSUME NEW c \in Caller, GiveUp(c) PROVE ReplyMatches'
    BY <1>6 DEF GiveUp, GiveUpWhen, Return
  <1>7. ASSUME Read PROVE ReplyMatches'
    BY <1>7 DEF Read, Route, Take, AsEvent, Waiters
  <1>8. ASSUME PutEvent PROVE ReplyMatches'
    BY <1>8 DEF PutEvent, PutWhen
  <1>9. ASSUME FailPending PROVE ReplyMatches'
    BY <1>9 DEF FailPending
  <1>10. ASSUME ReaderEnd PROVE ReplyMatches'
    BY <1>10 DEF ReaderEnd, EndReader
  <1>11. ASSUME Consume PROVE ReplyMatches'
    BY <1>11 DEF Consume
  <1>12. ASSUME Close PROVE ReplyMatches'
    BY <1>12 DEF Close
  <1>13. CASE UNCHANGED vars
    BY <1>13 DEF vars
  <1> QED
    BY <1>1, <1>2, <1>3, <1>4, <1>5, <1>6, <1>7, <1>8, <1>9, <1>10, <1>11,
       <1>12, <1>13
    DEF Next, Reader, Calling

\* An id that has not been given out is nowhere.
LEMMA FreshStep == TypeOK /\ Fresh /\ [Next]_vars => Fresh'
  <1> SUFFICES ASSUME TypeOK, Fresh, [Next]_vars PROVE Fresh'
    OBVIOUS
  <1> USE DEF TypeOK, Fresh, None, Ids, wireVars, readVars, callVars
  <1>1. ASSUME Daemon PROVE Fresh'
    <2>1. CASE Reply
      <3>1. Head(requests) \in Ids /\ Tail(requests) \in Seq(Ids)
        BY <2>1, TakeFromFront DEF Reply
      <3> QED
        BY <1>1, <2>1, <3>1, TakeFromFront, PutAtEnd DEF Daemon, Reply
    <2>2. CASE Event
      BY <1>1, <2>2, PutAtEnd DEF Daemon, Event
    <2>3. CASE Gone
      BY <1>1, <2>3 DEF Daemon, Gone
    <2> QED
      BY <1>1, <2>1, <2>2, <2>3 DEF Daemon
  <1>2. ASSUME NEW c \in Caller, Call(c) PROVE Fresh'
    <2>1. nextId + 1 \in Ids /\ nextId + 1 > nextId
      BY <1>2, BoundAssumption DEF Call, BeginWith
    <2>2. \A d \in Caller : id[d] < nextId + 1
      BY <2>1
    <2> QED
      BY <1>2, <2>1, <2>2 DEF Call, BeginWith
  <1>3. ASSUME NEW c \in Caller, Send(c) PROVE Fresh'
    <2>1. id[c] \in Ids
      BY <1>3 DEF Send
    <2>2. /\ \A n : Occurs(n, requests') => Occurs(n, requests) \/ n = id[c]
          /\ Distinct(requests) /\ ~Occurs(id[c], requests) =>
                Distinct(requests')
      BY <1>3, <2>1, Sent
    <2> QED
      BY <1>3, <2>1, <2>2 DEF Send
  <1>4. ASSUME NEW c \in Caller, SendFails(c) PROVE Fresh'
    BY <1>4 DEF SendFails, Return
  <1>5. ASSUME NEW c \in Caller, Returned(c) PROVE Fresh'
    BY <1>5 DEF Returned, Return
  <1>6. ASSUME NEW c \in Caller, GiveUp(c) PROVE Fresh'
    BY <1>6 DEF GiveUp, GiveUpWhen, Return
  <1>7. ASSUME Read PROVE Fresh'
    <2>1. messages # <<>> /\ messages' = Tail(messages)
      BY <1>7 DEF Read
    <2> QED
      BY <1>7, <2>1, TakeFromFront DEF Read, Route, Take, AsEvent
  <1>8. ASSUME PutEvent PROVE Fresh'
    BY <1>8 DEF PutEvent, PutWhen
  <1>9. ASSUME FailPending PROVE Fresh'
    BY <1>9 DEF FailPending
  <1>10. ASSUME ReaderEnd PROVE Fresh'
    BY <1>10 DEF ReaderEnd, EndReader
  <1>11. ASSUME Consume PROVE Fresh'
    BY <1>11 DEF Consume
  <1>12. ASSUME Close PROVE Fresh'
    BY <1>12 DEF Close
  <1>13. CASE UNCHANGED vars
    BY <1>13 DEF vars
  <1> QED
    BY <1>1, <1>2, <1>3, <1>4, <1>5, <1>6, <1>7, <1>8, <1>9, <1>10, <1>11,
       <1>12, <1>13
    DEF Next, Reader, Calling

\* No id gets on the wire twice.
LEMMA OnceStep == TypeOK /\ Fresh /\ OnceSent /\ [Next]_vars => OnceSent'
  <1> SUFFICES ASSUME TypeOK, Fresh, OnceSent, [Next]_vars PROVE OnceSent'
    OBVIOUS
  <1> USE DEF TypeOK, Fresh, OnceSent, None, Ids, wireVars, readVars, callVars
  <1>1. ASSUME Daemon PROVE OnceSent'
    <2>1. CASE Reply
      <3>1. Head(requests) \in Ids /\ Tail(requests) \in Seq(Ids)
        BY <2>1, TakeFromFront DEF Reply
      <3> QED
        BY <1>1, <2>1, <3>1, TakeFromFront, PutAtEnd DEF Daemon, Reply
    <2>2. CASE Event
      BY <1>1, <2>2, PutAtEnd DEF Daemon, Event
    <2>3. CASE Gone
      BY <1>1, <2>3 DEF Daemon, Gone
    <2> QED
      BY <1>1, <2>1, <2>2, <2>3 DEF Daemon
  <1>2. ASSUME NEW c \in Caller, Call(c) PROVE OnceSent'
    <2>1. nextId + 1 \in Ids /\ nextId + 1 > nextId
      BY <1>2, BoundAssumption DEF Call, BeginWith
    <2>2. \A d \in Caller : id[d] < nextId + 1
      BY <2>1
    <2> QED
      BY <1>2, <2>1, <2>2 DEF Call, BeginWith
  <1>3. ASSUME NEW c \in Caller, Send(c) PROVE OnceSent'
    <2>1. id[c] \in Ids
      BY <1>3 DEF Send
    <2>2. /\ \A n : Occurs(n, requests') => Occurs(n, requests) \/ n = id[c]
          /\ Distinct(requests) /\ ~Occurs(id[c], requests) =>
                Distinct(requests')
      BY <1>3, <2>1, Sent
    <2> QED
      BY <1>3, <2>1, <2>2 DEF Send
  <1>4. ASSUME NEW c \in Caller, SendFails(c) PROVE OnceSent'
    BY <1>4 DEF SendFails, Return
  <1>5. ASSUME NEW c \in Caller, Returned(c) PROVE OnceSent'
    BY <1>5 DEF Returned, Return
  <1>6. ASSUME NEW c \in Caller, GiveUp(c) PROVE OnceSent'
    BY <1>6 DEF GiveUp, GiveUpWhen, Return
  <1>7. ASSUME Read PROVE OnceSent'
    <2>1. messages # <<>> /\ messages' = Tail(messages)
      BY <1>7 DEF Read
    <2> QED
      BY <1>7, <2>1, TakeFromFront DEF Read, Route, Take, AsEvent
  <1>8. ASSUME PutEvent PROVE OnceSent'
    BY <1>8 DEF PutEvent, PutWhen
  <1>9. ASSUME FailPending PROVE OnceSent'
    BY <1>9 DEF FailPending
  <1>10. ASSUME ReaderEnd PROVE OnceSent'
    BY <1>10 DEF ReaderEnd, EndReader
  <1>11. ASSUME Consume PROVE OnceSent'
    BY <1>11 DEF Consume
  <1>12. ASSUME Close PROVE OnceSent'
    BY <1>12 DEF Close
  <1>13. CASE UNCHANGED vars
    BY <1>13 DEF vars
  <1> QED
    BY <1>1, <1>2, <1>3, <1>4, <1>5, <1>6, <1>7, <1>8, <1>9, <1>10, <1>11,
       <1>12, <1>13
    DEF Next, Reader, Calling

\* An entry goes when its reply has come, or with its call.
LEMMA AwaitedStep ==
    TypeOK /\ Fresh /\ OnceSent /\ Awaited /\ [Next]_vars => Awaited'
  <1> SUFFICES ASSUME TypeOK, Fresh, OnceSent, Awaited, [Next]_vars
               PROVE  Awaited'
    OBVIOUS
  <1> USE DEF TypeOK, Fresh, OnceSent, Awaited, None, Ids, wireVars, readVars,
              callVars
  <1>1. ASSUME Daemon PROVE Awaited'
    <2>1. CASE Reply
      <3>1. Head(requests) \in Ids /\ Tail(requests) \in Seq(Ids)
        BY <2>1, TakeFromFront DEF Reply
      <3> QED
        BY <1>1, <2>1, <3>1, TakeFromFront, PutAtEnd DEF Daemon, Reply
    <2>2. CASE Event
      BY <1>1, <2>2, PutAtEnd DEF Daemon, Event
    <2>3. CASE Gone
      BY <1>1, <2>3 DEF Daemon, Gone
    <2> QED
      BY <1>1, <2>1, <2>2, <2>3 DEF Daemon
  <1>2. ASSUME NEW c \in Caller, Call(c) PROVE Awaited'
    BY <1>2 DEF Call, BeginWith
  <1>3. ASSUME NEW c \in Caller, Send(c) PROVE Awaited'
    <2>1. id[c] \in Ids
      BY <1>3 DEF Send
    <2>2. /\ \A n : Occurs(n, requests') => Occurs(n, requests) \/ n = id[c]
          /\ Distinct(requests) /\ ~Occurs(id[c], requests) =>
                Distinct(requests')
      BY <1>3, <2>1, Sent
    <2> QED
      BY <1>3, <2>1, <2>2 DEF Send
  <1>4. ASSUME NEW c \in Caller, SendFails(c) PROVE Awaited'
    BY <1>4 DEF SendFails, Return
  <1>5. ASSUME NEW c \in Caller, Returned(c) PROVE Awaited'
    BY <1>5 DEF Returned, Return
  <1>6. ASSUME NEW c \in Caller, GiveUp(c) PROVE Awaited'
    BY <1>6 DEF GiveUp, GiveUpWhen, Return
  <1>7. ASSUME Read PROVE Awaited'
    <2>1. messages # <<>> /\ messages' = Tail(messages)
      BY <1>7 DEF Read
    <2> QED
      BY <1>7, <2>1, TakeFromFront DEF Read, Route, Take, AsEvent
  <1>8. ASSUME PutEvent PROVE Awaited'
    BY <1>8 DEF PutEvent, PutWhen
  <1>9. ASSUME FailPending PROVE Awaited'
    BY <1>9 DEF FailPending
  <1>10. ASSUME ReaderEnd PROVE Awaited'
    BY <1>10 DEF ReaderEnd, EndReader
  <1>11. ASSUME Consume PROVE Awaited'
    BY <1>11 DEF Consume
  <1>12. ASSUME Close PROVE Awaited'
    BY <1>12 DEF Close
  <1>13. CASE UNCHANGED vars
    BY <1>13 DEF vars
  <1> QED
    BY <1>1, <1>2, <1>3, <1>4, <1>5, <1>6, <1>7, <1>8, <1>9, <1>10, <1>11,
       <1>12, <1>13
    DEF Next, Reader, Calling

\* A reply that is not waited for is nobody's.
LEMMA UnstrayedStep ==
    TypeOK /\ Fresh /\ OnceSent /\ Awaited /\ Unstrayed /\ [Next]_vars => Unstrayed'
  <1> SUFFICES ASSUME TypeOK, Fresh, OnceSent, Awaited, Unstrayed, [Next]_vars
               PROVE  Unstrayed'
    OBVIOUS
  <1> USE DEF TypeOK, Fresh, OnceSent, Awaited, Unstrayed, None, Ids,
              wireVars, readVars, callVars
  <1>1. ASSUME Daemon PROVE Unstrayed'
    BY <1>1 DEF Daemon, Reply, Event, Gone
  <1>2. ASSUME NEW c \in Caller, Call(c) PROVE Unstrayed'
    BY <1>2 DEF Call, BeginWith
  <1>3. ASSUME NEW c \in Caller, Send(c) PROVE Unstrayed'
    BY <1>3 DEF Send
  <1>4. ASSUME NEW c \in Caller, SendFails(c) PROVE Unstrayed'
    BY <1>4 DEF SendFails, Return
  <1>5. ASSUME NEW c \in Caller, Returned(c) PROVE Unstrayed'
    BY <1>5 DEF Returned, Return
  <1>6. ASSUME NEW c \in Caller, GiveUp(c) PROVE Unstrayed'
    BY <1>6 DEF GiveUp, GiveUpWhen, Return
  <1>7. ASSUME Read PROVE Unstrayed'
    <2>1. messages # <<>> /\ messages' = Tail(messages)
      BY <1>7 DEF Read
    <2> QED
      BY <1>7, <2>1, TakeFromFront DEF Read, Route, Take, AsEvent
  <1>8. ASSUME PutEvent PROVE Unstrayed'
    BY <1>8 DEF PutEvent, PutWhen
  <1>9. ASSUME FailPending PROVE Unstrayed'
    BY <1>9 DEF FailPending
  <1>10. ASSUME ReaderEnd PROVE Unstrayed'
    BY <1>10 DEF ReaderEnd, EndReader
  <1>11. ASSUME Consume PROVE Unstrayed'
    BY <1>11 DEF Consume
  <1>12. ASSUME Close PROVE Unstrayed'
    BY <1>12 DEF Close
  <1>13. CASE UNCHANGED vars
    BY <1>13 DEF vars
  <1> QED
    BY <1>1, <1>2, <1>3, <1>4, <1>5, <1>6, <1>7, <1>8, <1>9, <1>10, <1>11,
       <1>12, <1>13
    DEF Next, Reader, Calling

-----------------------------------------------------------------------------
\* The inductive invariant.
IInv ==
    /\ TypeOK /\ EventsTyped
    /\ Fresh /\ OnceSent /\ Awaited /\ Unstrayed
    /\ OwnSlot /\ ReplyMatches

\* It holds in every reachable state.
LEMMA Invariant == Spec => []IInv
  <1>1. Init => IInv
    BY InitInv DEF IInv
  <1>2. IInv /\ [Next]_vars => IInv'
    BY TypeStep, FreshStep, OnceStep, AwaitedStep, UnstrayedStep,
       OwnSlotStep, ReplyStep
    DEF IInv
  <1> QED
    BY <1>1, <1>2, PTL DEF Spec

\* The types are right in every reachable state; with them, that the channel
\* of events never holds more than its capacity.
THEOREM TypeCorrect == Spec => []TypeOK
  <1>1. IInv => TypeOK
    BY DEF IInv
  <1> QED
    BY Invariant, <1>1, PTL

\* A call never returns the reply to another call: what the reader puts in a
\* waiter's slot carries the waiter's id, and a new call empties the slot.
THEOREM ReplyCorrect == Spec => []ReplyMatches
  <1>1. IInv => ReplyMatches
    BY DEF IInv
  <1> QED
    BY Invariant, <1>1, PTL

\* While a call waits, its reply is not taken for an event: the entry is made
\* before the request goes out, and only its reply, the end of the reader or
\* the call itself removes it.
THEOREM NoStrayCorrect == Spec => []NoReplyStrays
  <1>1. IInv => NoReplyStrays
    BY DEF IInv, Unstrayed, NoReplyStrays
  <1> QED
    BY Invariant, <1>1, PTL
=============================================================================
