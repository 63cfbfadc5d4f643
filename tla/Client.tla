------------------------------- MODULE Client -------------------------------
(***************************************************************************)
(* The client libraries: a connection to the daemon on which several       *)
(* goroutines, threads or promises make calls; replies are matched by id,  *)
(* everything else is an event (clients/go/client.go,                      *)
(* clients/python/pupptyeer_client.py, clients/typescript/index.mjs).      *)
(*                                                                         *)
(* `lang' says which library it is.  What the three share is one action,   *)
(* what differs has the library's name.  The daemon answers the requests   *)
(* of a connection in their order, sends events at any time, and may go.   *)
(***************************************************************************)
EXTENDS Integers, Sequences

CONSTANTS
    Caller,     \* those who call
    MaxId,      \* bound on the calls of a connection
    MaxEvents,  \* bound on the events the daemon sends
    EventCap    \* capacity of the channel of events (Go)

ASSUME BoundAssumption == MaxId \in Nat /\ MaxEvents \in Nat
ASSUME CapAssumption == EventCap \in Nat \ {0}

VARIABLES
    lang,
    \* the daemon and the socket
    requests,   \* ids on the way to the daemon
    messages,   \* ids on the way to the client; 0 for an event
    sentEvents, \* how many events
    gone,       \* the daemon has closed the connection
    \* the client
    nextId,
    pending,    \* the ids with a waiter
    open,       \* the socket is open on this side
    closed,     \* the channel closed (Go)
    reader,     \* where the reader is
    events,     \* the channel of events (Go): 0, or the id of a reply
    eventsEnd,  \* closed (Go)
    stray,      \* ids of replies that were handled as events
    userClosed, \* Close has been called
    \* a caller
    pc, id,     \* where it is in a call, and the id of the call
    slot,       \* what has arrived for it: an id, or Failed
    result      \* what its latest call returned

wireVars == <<requests, messages, sentEvents, gone>>
readVars == <<reader, events, eventsEnd, stray>>
callVars == <<pc, id, slot, result>>
vars == <<lang, wireVars, nextId, pending, open, closed, readVars,
          userClosed, callVars>>

None == 0
Failed == -1

Init ==
    /\ lang \in {"go", "python", "typescript"}
    /\ requests = <<>> /\ messages = <<>> /\ sentEvents = 0 /\ gone = FALSE
    /\ nextId = 0 /\ pending = {} /\ open = TRUE /\ closed = FALSE
    /\ reader = "read" /\ events = <<>> /\ eventsEnd = FALSE /\ stray = {}
    /\ userClosed = FALSE
    /\ pc = [c \in Caller |-> "idle"]
    /\ id = [c \in Caller |-> None]
    /\ slot = [c \in Caller |-> None]
    /\ result = [c \in Caller |-> None]

-----------------------------------------------------------------------------
(* The daemon *)

Reply ==
    /\ ~gone /\ requests # <<>>
    /\ messages' = Append(messages, Head(requests))
    /\ requests' = Tail(requests)
    /\ UNCHANGED <<sentEvents, gone>>

Event ==
    /\ ~gone /\ sentEvents < MaxEvents
    /\ messages' = Append(messages, 0)
    /\ sentEvents' = sentEvents + 1
    /\ UNCHANGED <<requests, gone>>

\* It stops, or drops this client, or has read its end of file; what it has
\* written can still be read.
Gone ==
    /\ ~gone
    /\ gone' = TRUE
    /\ UNCHANGED <<requests, messages, sentEvents>>

Daemon ==
    /\ Reply \/ Event \/ Gone
    /\ UNCHANGED <<lang, nextId, pending, open, closed, readVars, userClosed,
                   callVars>>

-----------------------------------------------------------------------------
(* A call *)

\* Under the lock: a fresh id, and its entry among those that are waited for.
BeginWith(c, entry) ==
    /\ pc[c] = "idle" /\ nextId < MaxId
    /\ nextId' = nextId + 1
    /\ pending' = pending \cup entry
    /\ id' = [id EXCEPT ![c] = nextId + 1]
    /\ slot' = [slot EXCEPT ![c] = None]
    /\ result' = [result EXCEPT ![c] = None]
    /\ pc' = [pc EXCEPT ![c] = "send"]
    /\ UNCHANGED <<lang, wireVars, open, closed, readVars, userClosed>>

\* Mutant: the entry is made by nobody before the request is out.
CallUnregistered(c) == BeginWith(c, {})

Call(c) == BeginWith(c, {nextId + 1})

Return(c, value) ==
    /\ result' = [result EXCEPT ![c] = value]
    /\ pc' = [pc EXCEPT ![c] = "idle"]
    /\ UNCHANGED <<id, slot>>

\* The request is written.  With the daemon gone, the write may fail or the
\* bytes may go nowhere, and so they do after a Close; the TypeScript client
\* never sees it fail.
Send(c) ==
    /\ pc[c] = "send"
    /\ open \/ lang = "typescript"
    /\ requests' = IF gone \/ ~open \/ userClosed THEN requests
                   ELSE Append(requests, id[c])
    /\ pc' = [pc EXCEPT ![c] = "wait"]
    /\ UNCHANGED <<lang, messages, sentEvents, gone, nextId, pending, open,
                   closed, readVars, userClosed, id, slot, result>>

\* The Go client takes the entry back; the Python client leaves it.
SendFails(c) ==
    /\ pc[c] = "send" /\ lang # "typescript"
    /\ gone \/ ~open
    /\ pending' = IF lang = "go" THEN pending \ {id[c]} ELSE pending
    /\ Return(c, Failed)
    /\ UNCHANGED <<lang, wireVars, nextId, open, closed, readVars, userClosed>>

\* What has arrived is returned ...
Returned(c) ==
    /\ pc[c] = "wait"
    /\ slot[c] # None
    /\ Return(c, slot[c])
    /\ UNCHANGED <<lang, wireVars, nextId, pending, open, closed, readVars,
                   userClosed>>

\* ... or the call gives up: Go when `closed' is closed, Python after five
\* seconds, and neither of them takes the entry back.
GiveUpWhen(c, condition) ==
    /\ pc[c] = "wait"
    /\ condition
    /\ Return(c, Failed)
    /\ UNCHANGED <<lang, wireVars, nextId, pending, open, closed, readVars,
                   userClosed>>

\* Mutant: a Go call waits for its reply only.
AwaitReplyOnly(c) == GiveUpWhen(c, lang = "python")

GiveUp(c) == GiveUpWhen(c, (lang = "go" /\ closed) \/ lang = "python")

-----------------------------------------------------------------------------
(* The reader: a goroutine, a thread, the socket's callbacks *)

\* In TypeScript nothing comes between a call's two steps.
Between == lang # "typescript" \/ \A c \in Caller : pc[c] # "send"

Waiters(n) == {c \in Caller : id[c] = n /\ pc[c] # "idle"}

\* A reply for which there is an entry; whoever has given up does not look.
Take(n, entry) ==
    /\ pending' = pending \ {entry}
    /\ slot' = [c \in Caller |-> IF c \in Waiters(entry) THEN n ELSE slot[c]]
    /\ UNCHANGED <<reader, stray>>

\* Everything else: Go has a channel for it, the others call their handlers.
AsEvent(n) ==
    /\ reader' = IF lang = "go" THEN "event" ELSE reader
    /\ stray' = stray \cup ({n} \ {0})
    /\ UNCHANGED <<pending, slot>>

\* Mutant: replies are given to the calls in the order of their ids.
RouteInOrder(n) ==
    IF n # 0 /\ pending # {}
    THEN Take(n, CHOOSE k \in pending : \A j \in pending : k <= j)
    ELSE AsEvent(n)

Route(n) == IF n \in pending THEN Take(n, n) ELSE AsEvent(n)

Read ==
    /\ reader = "read" /\ messages # <<>> /\ Between
    /\ Route(Head(messages))
    /\ messages' = Tail(messages)
    /\ UNCHANGED <<lang, requests, sentEvents, gone, nextId, open, closed,
                   events, eventsEnd, userClosed, pc, id, result>>

PutWhen(room) ==
    /\ reader = "event"
    /\ \/ /\ room
          /\ events' = Append(events, 0)
          /\ reader' = "read"
       \/ closed /\ reader' = "left" /\ UNCHANGED events
    /\ UNCHANGED <<lang, wireVars, nextId, pending, open, closed, eventsEnd,
                   stray, userClosed, callVars>>

\* Mutant: the channel has no limit.
PutUnbounded == PutWhen(TRUE)

\* Go: the event is in the channel, which may be full; or the client has been
\* closed, and the reader leaves at once.
PutEvent == PutWhen(Len(events) < EventCap)

\* The end of file, or the socket closed on this side: every waiter gets an
\* error.  Go does it first, and in steps; Python's thread may sit in recv for
\* ever when the socket is closed by another thread.
FailPending ==
    /\ reader = "read" /\ Between
    /\ ~open \/ (gone /\ messages = <<>>)
    /\ pending' = {}
    /\ slot' = [c \in Caller |->
                  IF id[c] \in pending /\ pc[c] # "idle" THEN Failed
                  ELSE slot[c]]
    /\ reader' = IF lang = "go" THEN "end" ELSE "left"
    /\ open' = IF lang = "typescript" THEN FALSE ELSE open
    /\ UNCHANGED <<lang, wireVars, nextId, closed, events, eventsEnd, stray,
                   userClosed, pc, id, result>>

\* Go: close(events); then Close.
EndReader(ended) ==
    /\ \/ /\ reader = "end" /\ reader' = "close"
          /\ eventsEnd' = ended /\ UNCHANGED <<closed, open>>
       \/ /\ reader = "close" /\ reader' = "left"
          /\ closed' = TRUE /\ open' = FALSE /\ UNCHANGED eventsEnd
    /\ UNCHANGED <<lang, wireVars, nextId, pending, events, stray,
                   userClosed, callVars>>

\* Mutant: those who range over the events are not told.
LeaveEventsOpen == EndReader(FALSE)

ReaderEnd == EndReader(TRUE)

-----------------------------------------------------------------------------
(* The user *)

Consume ==
    /\ events # <<>>
    /\ events' = Tail(events)
    /\ UNCHANGED <<lang, wireVars, nextId, pending, open, closed, reader,
                   eventsEnd, stray, userClosed, callVars>>

\* Go closes `closed' and the socket; Python the socket; TypeScript ends its
\* side of it, and reads on until the daemon has closed the other.
Close ==
    /\ ~userClosed
    /\ userClosed' = TRUE
    /\ closed' = (lang = "go" \/ closed)
    /\ open' = (lang = "typescript" /\ open)
    /\ UNCHANGED <<lang, wireVars, nextId, pending, readVars, callVars>>

-----------------------------------------------------------------------------
Calling(c) == Send(c) \/ SendFails(c) \/ Returned(c) \/ GiveUp(c)

Reader == Read \/ PutEvent \/ FailPending \/ ReaderEnd

Next ==
    \/ Daemon \/ Reader \/ Consume \/ Close
    \/ \E c \in Caller : Call(c) \/ Calling(c)

(***************************************************************************)
(* Threads run; the daemon answers (its handlers end) unless it is gone,   *)
(* and closes a connection whose other side has ended; the user of a Go    *)
(* client drains the events, as client.go:129-135 demands.                 *)
(***************************************************************************)
Fairness ==
    /\ WF_vars(Daemon /\ Reply)
    /\ WF_vars(userClosed /\ Daemon /\ Gone)
    /\ WF_vars(Reader /\ (lang # "python" \/ open))
    /\ WF_vars(Consume)
    /\ \A c \in Caller : WF_vars(Calling(c))

Spec == Init /\ [][Next]_vars /\ Fairness

-----------------------------------------------------------------------------
(* Properties *)

Ids == 1..MaxId

TypeOK ==
    /\ nextId \in 0..MaxId /\ pending \subseteq Ids /\ stray \subseteq Ids
    /\ requests \in Seq(Ids) /\ messages \in Seq(Ids \cup {0})
    /\ reader \in {"read", "event", "end", "close", "left"}
    /\ Len(events) <= EventCap
    /\ pc \in [Caller -> {"idle", "send", "wait"}]
    /\ id \in [Caller -> Ids \cup {None}]
    /\ slot \in [Caller -> Ids \cup {None, Failed}]
    /\ result \in [Caller -> Ids \cup {None, Failed}]

\* A call returns the reply to its own request or an error, never the reply
\* to another call, of the same caller or not, timed out or not.
ReplyMatches == \A c \in Caller : result[c] \in Ids => result[c] = id[c]

\* A reply is not taken for an event while its call is waiting: the entry is
\* made before the request is sent.
NoReplyStrays == \A c \in Caller : pc[c] = "wait" => id[c] \notin stray

\* A call ends: with its reply, or because the connection has ended, at
\* whatever moment, or, in Python, after its five seconds.  Excepted is the
\* call made on a TypeScript client whose socket had been closed by then.
CallEnds ==
    \A c \in Caller :
        pc[c] = "wait" /\ (lang = "typescript" => open) ~> pc[c] # "wait"

\* Events is closed when the connection has ended (client.go:126-127), unless
\* Close has been called: the reader may then leave before it does so.
EventsEnd == lang = "go" /\ gone ~> eventsEnd \/ userClosed
=============================================================================
