------------------------------- MODULE Attach -------------------------------
(***************************************************************************)
(* `pupptyeer ctl attach': the local terminal, the command (its select     *)
(* loop, the goroutine that reads stdin, the two channels of window        *)
(* changes), its connection, and the session's votes on the terminal size  *)
(* (cmd/pupptyeer/ctl.go, attach_unix.go, internal/server/session.go).     *)
(*                                                                         *)
(* The session has one other client, of which only the votes are seen.     *)
(* Output is left out but for the end of the scrollback: OutputPath and    *)
(* Fanout have it.  The client library is a pair of queues: see Client.    *)
(***************************************************************************)
EXTENDS DetachKey

CONSTANTS
    Sizes,      \* of a window: <<columns, rows>>
    Typeable,   \* the bytes the user types
    Starts,     \* records: tty, the size of the local window; size, that of
                \* the session; config, the specifications of detach_prefix
                \* and detach_key; budget, bounds: [type, resize, other]
    UpCap       \* messages the socket holds

ASSUME SizeAssumption == Sizes \subseteq (Nat \ {0}) \X (Nat \ {0})
ASSUME UpAssumption == UpCap \in Nat \ {0}
ASSUME StartsAssumption == \A s \in Starts : s.tty \in Sizes

VARIABLES
    mode,       \* "interactive", or "readonly": attach -r, or stdin no terminal
    config,     \* the two specifications in the configuration file
    budget,
    \* the local terminal
    tty, rawMode, typed, eof,
    missed,     \* its size has changed since it was read, unnoticed
    \* the command
    pc, asked,  \* where it is; the size it has read
    seq,        \* the sequence that detaches
    term,       \* the channel of SIGINT and SIGTERM
    sigwinch, winch,                \* the channels of SIGWINCH
    pump, taken, matched, chunk,    \* the reader of stdin, and what it writes
    \* the connection
    up, down, gone,
    \* the session
    alive, pane, votes, size

ttyVars == <<tty, rawMode, typed, eof, missed>>
cmdVars == <<pc, asked, seq>>
sigVars == <<term, sigwinch, winch>>
pumpVars == <<pump, taken, matched, chunk>>
netVars == <<up, down, gone>>
sessVars == <<alive, pane, votes, size>>
attachVars == <<mode, config, budget, ttyVars, cmdVars, sigVars, pumpVars,
                netVars, sessVars>>

NoVote == <<-1, -1>>
NoSize == <<0, 0>>

Begin(m) ==
    /\ mode = m
    /\ \E s \in Starts : /\ config = s.config /\ budget = s.budget
                        /\ tty = s.tty /\ size = s.size
    /\ rawMode = FALSE /\ typed = <<>> /\ eof = FALSE
    /\ missed = FALSE
    /\ pc = "config" /\ asked = NoSize /\ seq = <<>>
    /\ term = FALSE /\ sigwinch = FALSE /\ winch = FALSE
    /\ pump = "off" /\ taken = 0 /\ matched = 0 /\ chunk = Matcher
    /\ up = <<>> /\ down = <<>> /\ gone = FALSE
    /\ alive = TRUE /\ pane = <<>>
    /\ votes = [ctl |-> NoVote, other |-> NoVote]

Running == pc \notin {"ended", "died"}

Notified == pc \in {"loop", "resize", "leave"}

-----------------------------------------------------------------------------
(* The command *)

Send(m) == ~gone /\ Len(up) < UpCap /\ up' = Append(up, m)

\* Restoring the terminal is deferred.
End ==
    /\ pc' = "ended" /\ rawMode' = FALSE
    /\ UNCHANGED <<tty, typed, eof, missed>>

Go(next) == pc' = next /\ UNCHANGED ttyVars

LoadConfig ==
    /\ pc = "config"
    /\ LET s == ResolveDetach(config[1], config[2]) IN
       IF mode = "readonly" THEN Go("size") /\ UNCHANGED seq
       ELSE IF s = BadConfig THEN End /\ UNCHANGED seq
       ELSE Go("size") /\ seq' = s
    /\ UNCHANGED <<asked, sigVars, pumpVars, netVars>>

\* A read-only client has no say in the size.
GetSize ==
    /\ pc = "size"
    /\ asked' = IF mode = "readonly" THEN NoSize ELSE tty
    /\ Go("attach")
    /\ UNCHANGED <<seq, sigVars, pumpVars, netVars>>

AskAttach ==
    /\ pc = "attach"
    /\ \/ Send([type |-> "attach", arg |-> asked]) /\ Go("reply")
       \/ gone /\ End /\ UNCHANGED up
    /\ UNCHANGED <<asked, seq, sigVars, pumpVars, down, gone>>

Attached ==
    /\ pc = "reply"
    /\ \/ /\ down # <<>>
          /\ down' = Tail(down)
          /\ IF Head(down) = "error" THEN End
             ELSE Go(IF mode = "readonly" THEN "watch" ELSE "raw")
       \/ gone /\ down = <<>> /\ End /\ UNCHANGED down
    /\ UNCHANGED <<asked, seq, sigVars, pumpVars, up, gone>>

\* MakeRaw, and the goroutine that reads stdin.
MakeRaw ==
    /\ pc = "raw"
    /\ pc' = "watch" /\ rawMode' = TRUE /\ pump' = "read"
    /\ UNCHANGED <<tty, typed, eof, missed, asked, seq, sigVars, taken, matched,
                   chunk, netVars>>

\* The signals are asked for.
Notify ==
    /\ pc = "watch"
    /\ Go("loop")
    /\ UNCHANGED <<asked, seq, sigVars, pumpVars, netVars>>

\* The select: any case that is ready.
SelectLeave ==
    /\ pc = "loop"
    /\ pump = "left" \/ term
    /\ Go("leave")
    /\ UNCHANGED <<asked, seq, sigVars, pumpVars, netVars>>

SelectWinch ==
    /\ pc = "loop" /\ winch
    /\ winch' = FALSE /\ asked' = tty
    /\ Go("resize")
    /\ UNCHANGED <<seq, term, sigwinch, pumpVars, netVars>>

SelectEvent ==
    /\ pc = "loop"
    /\ \/ /\ down # <<>>
          /\ down' = Tail(down)
          /\ IF Head(down) = "session_closed" THEN End ELSE Go("loop")
       \/ gone /\ down = <<>> /\ End /\ UNCHANGED down
    /\ UNCHANGED <<asked, seq, sigVars, pumpVars, up, gone>>

\* What was chosen is written; that may have to wait for room.  The error of
\* a resize is ignored, that of a detach is returned.
SendResize ==
    /\ pc = "resize"
    /\ Send([type |-> "resize", arg |-> asked]) \/ (gone /\ UNCHANGED up)
    /\ Go("loop")
    /\ UNCHANGED <<asked, seq, sigVars, pumpVars, down, gone>>

Leave ==
    /\ pc = "leave"
    /\ Send([type |-> "detach", arg |-> NoSize]) \/ (gone /\ UNCHANGED up)
    /\ End
    /\ UNCHANGED <<asked, seq, sigVars, pumpVars, down, gone>>

Main ==
    /\ \/ LoadConfig \/ GetSize \/ AskAttach \/ Attached \/ MakeRaw \/ Notify
       \/ SelectLeave \/ SelectWinch \/ SelectEvent \/ SendResize \/ Leave
    /\ UNCHANGED <<mode, config, budget, sessVars>>

-----------------------------------------------------------------------------
(* The goroutine that reads stdin: `pump' is "left" when `detached' is      *)
(* closed.                                                                  *)

PumpNext(m) ==
    IF m.out # <<>> THEN "write" ELSE IF m.done THEN "left" ELSE "read"

PumpRead ==
    /\ pump = "read" /\ taken < Len(typed)
    /\ \E n \in (taken + 1)..Len(typed) :
           LET m == Feed(seq, matched, SubSeq(typed, taken + 1, n)) IN
           /\ taken' = n
           /\ matched' = m.matched /\ chunk' = m /\ pump' = PumpNext(m)
    /\ UNCHANGED up

PumpWrite ==
    /\ pump = "write"
    /\ \/ /\ Send([type |-> "write_pane", arg |-> chunk.out])
          /\ pump' = IF chunk.done THEN "left" ELSE "read"
       \/ gone /\ pump' = "left" /\ UNCHANGED up
    /\ chunk' = Matcher
    /\ UNCHANGED <<taken, matched>>


PumpEof ==
    /\ pump = "read" /\ eof /\ taken = Len(typed)
    /\ pump' = "left"
    /\ UNCHANGED <<taken, matched, chunk, up>>

Pump ==
    /\ Running
    /\ PumpRead \/ PumpWrite \/ PumpEof
    /\ UNCHANGED <<mode, config, budget, ttyVars, cmdVars, sigVars, down, gone,
                   sessVars>>

\* Mutant: a change is passed on only to a loop that waits for one.
ForwardToWaiting ==
    /\ Running /\ sigwinch
    /\ sigwinch' = FALSE /\ winch' = (winch \/ pc = "loop")
    /\ UNCHANGED <<mode, config, budget, ttyVars, cmdVars, term, pumpVars,
                   netVars, sessVars>>

\* notifyResize: both channels hold one change; one that finds the other still
\* there is dropped.
Forward ==
    /\ Running /\ sigwinch
    /\ sigwinch' = FALSE /\ winch' = TRUE
    /\ UNCHANGED <<mode, config, budget, ttyVars, cmdVars, term, pumpVars,
                   netVars, sessVars>>

-----------------------------------------------------------------------------
(* The user *)

Type ==
    /\ Running /\ rawMode /\ ~eof
    /\ \/ \E b \in Typeable :
              /\ Len(typed) < budget.type
              /\ typed' = Append(typed, b) /\ UNCHANGED eof
       \/ eof' = TRUE /\ UNCHANGED typed
    /\ UNCHANGED <<mode, config, budget, tty, rawMode, missed, cmdVars, sigVars,
                   pumpVars, netVars, sessVars>>

\* SIGWINCH is ignored by a process that has not asked for it.
ResizeWindow ==
    /\ Running /\ budget.resize > 0
    /\ budget' = [budget EXCEPT !.resize = @ - 1]
    /\ \E s \in Sizes \ {tty} : tty' = s
    /\ sigwinch' = (sigwinch \/ (Notified /\ mode = "interactive"))
    /\ missed' = (pc \in {"attach", "reply", "raw", "watch"})
    /\ UNCHANGED <<mode, config, rawMode, typed, eof, cmdVars, term, winch,
                   pumpVars, netVars, sessVars>>

\* SIGINT or SIGTERM; before it is asked for it ends the process there and
\* then, with the terminal as it is.
Terminate ==
    /\ Running /\ ~term
    /\ IF Notified THEN term' = TRUE /\ UNCHANGED pc
       ELSE pc' = "died" /\ UNCHANGED term
    /\ UNCHANGED <<mode, config, budget, ttyVars, asked, seq, sigwinch, winch,
                   pumpVars, netVars, sessVars>>

User == Type \/ ResizeWindow \/ Terminate

-----------------------------------------------------------------------------
(* The session *)

Votes(v, i) == {v[c][i] : c \in {d \in DOMAIN v : v[d] # NoVote}} \ {0}

Least(S) == IF S = {} THEN 0 ELSE CHOOSE n \in S : \A m \in S : n <= m

\* The smallest of each dimension over those attached; a zero is no vote, and
\* with a dimension nobody votes on the size stays.
RecomputeSize(v) ==
    LET least == <<Least(Votes(v, 1)), Least(Votes(v, 2))>> IN
    /\ votes' = v
    /\ size' = IF 0 \in {least[1], least[2]} THEN size ELSE least

Vote(c, s) == RecomputeSize([votes EXCEPT ![c] = s])

Detach(c) == Vote(c, NoVote)

\* A vote of somebody who is not attached is not counted.
ResizeFrom(c, s) ==
    IF c \in DOMAIN votes /\ votes[c] # NoVote THEN Vote(c, s)
    ELSE RecomputeSize(votes)

\* A request of the command's connection.
Handle(m) ==
    CASE m.type = "attach" /\ alive ->
             /\ Vote("ctl", m.arg)
             /\ down' = down \o <<"attached", "scrollback_end">>
             /\ UNCHANGED pane
      [] m.type = "write_pane" /\ alive ->
             pane' = pane \o m.arg /\ UNCHANGED <<down, votes, size>>
      [] m.type = "resize" /\ alive ->
             ResizeFrom("ctl", m.arg) /\ UNCHANGED <<down, pane>>
      [] m.type = "detach" /\ alive ->
             Detach("ctl") /\ UNCHANGED <<down, pane>>
      [] OTHER ->
             /\ down' = IF m.type \in {"attach", "write_pane"}
                        THEN Append(down, "error") ELSE down
             /\ UNCHANGED <<pane, votes, size>>

Serve ==
    /\ ~gone /\ up # <<>>
    /\ Handle(Head(up))
    /\ up' = Tail(up)
    /\ UNCHANGED <<gone, alive, budget>>

\* The end of the connection, once what was on it has been handled.
HangUp ==
    /\ ~Running /\ ~gone /\ up = <<>> /\ votes.ctl # NoVote
    /\ Detach("ctl")
    /\ UNCHANGED <<netVars, alive, pane, budget>>

OtherVotes ==
    /\ alive /\ ~gone /\ budget.other > 0
    /\ budget' = [budget EXCEPT !.other = @ - 1]
    /\ \/ \E s \in Sizes \cup {NoSize} : Vote("other", s)
       \/ \E s \in Sizes : ResizeFrom("other", s)
       \/ votes.other # NoVote /\ Detach("other")
    /\ UNCHANGED <<netVars, alive, pane>>

\* `ctl resize', and the MCP server's tool: their connections attach to
\* nothing, and so the session stays as it is.
OutsiderResizes ==
    /\ alive /\ ~gone
    /\ \E s \in Sizes : ResizeFrom("outsider", s)
    /\ UNCHANGED <<netVars, alive, pane, budget>>

SessionEnds ==
    /\ alive /\ ~gone
    /\ alive' = FALSE
    /\ down' = IF votes.ctl = NoVote THEN down
               ELSE down \o <<"exit", "session_closed">>
    /\ votes' = [c \in DOMAIN votes |-> NoVote]
    /\ UNCHANGED <<up, gone, pane, size, budget>>

\* The daemon stops, or drops the connection.
Gone ==
    /\ ~gone /\ gone' = TRUE
    /\ UNCHANGED <<up, down, sessVars, budget>>

Daemon ==
    /\ \/ Serve \/ HangUp \/ OtherVotes \/ OutsiderResizes
       \/ SessionEnds \/ Gone
    /\ UNCHANGED <<mode, config, ttyVars, cmdVars, sigVars, pumpVars>>

-----------------------------------------------------------------------------
AttachNext == Main \/ Pump \/ Forward \/ User \/ Daemon

(***************************************************************************)
(* Goroutines run, and the daemon serves its connections: it does as long  *)
(* as the program in the session reads what is written to it.              *)
(***************************************************************************)
AttachFairness ==
    /\ WF_attachVars(Main) /\ WF_attachVars(Pump) /\ WF_attachVars(Forward)
    /\ WF_attachVars(Daemon /\ (Serve \/ HangUp))

-----------------------------------------------------------------------------
(* Properties *)

Written(m) == IF m.type = "write_pane" THEN m.arg ELSE <<>>

OnTheWay ==
    LET f[i \in 0..Len(up)] ==
            IF i = 0 THEN <<>> ELSE f[i - 1] \o Written(up[i])
    IN  f[Len(up)]

\* However stdin is cut into chunks, the session gets the bytes before the
\* first detach sequence, all of them, once and in order, and the start of a
\* sequence is held until it is known not to be one; and `detached' is closed
\* by the sequence or by the end of stdin only.
DetachExact ==
    LET read == SubSeq(typed, 1, taken) IN
    Running /\ alive /\ ~gone =>
        /\ pane \o OnTheWay \o chunk.out = Forwarded(seq, read)
        /\ pump \in {"write", "left"} \/ ~Occurs(seq, read)
        /\ pump = "left" => eof \/ Occurs(seq, read)

\* A session in the end has the size of the smallest window that looks at it,
\* the local terminal among them while the command runs and no longer: the
\* last change of a window is not lost, with any number of them in between.
\* Excepted is a change between the first reading of the size and the request
\* for SIGWINCH (ctl.go:554-610): it is missed until the next one.
Windows == [votes EXCEPT !.ctl =
              IF pc = "loop" /\ mode = "interactive" THEN tty ELSE NoVote]

Wanted == <<Least(Votes(Windows, 1)), Least(Votes(Windows, 2))>>

SizeFollows ==
    <>[](/\ alive /\ ~gone /\ ~missed
         /\ pc \in {"loop", "ended", "died"}
         /\ 0 \notin {Wanted[1], Wanted[2]}
         => size = Wanted)

=============================================================================
