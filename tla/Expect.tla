------------------------------- MODULE Expect -------------------------------
(***************************************************************************)
(* `pupptyeer ctl expect' (cmd/pupptyeer/ctl.go): it attaches to a session *)
(* and looks for a pattern in the output as the events arrive, keeping a   *)
(* window of what it has not yet matched.                                  *)
(*                                                                         *)
(* A pattern is the sequence of bytes it matches, for --regex as well as   *)
(* for --substr; the empty one stands for a regexp that matches nothing,   *)
(* as `x*' does at any place.                                              *)
(***************************************************************************)
EXTENDS Integers, Sequences

CONSTANTS
    Options,    \* the flags it may be called with
    Window,     \* expectWindow
    NoPattern   \* a flag that is not given

ASSUME WindowAssumption == Window \in Nat

VARIABLES
    opt,        \* the flags of this call
    armed,      \* matching has begun
    timer,      \* the idle timer has been started
    buf, base,  \* the window and its offset
    hits,       \* the matches reported
    outcome     \* "run", the exit code, or "panic"

expectVars == <<opt, armed, timer, buf, base, hits, outcome>>

\* The first place at which p is in s, as an offset; -1 if at none.
IndexOf(s, p) ==
    LET at == {i \in 0 .. Len(s) - Len(p) :
                  SubSeq(s, i + 1, i + Len(p)) = p}
    IN IF at = {} THEN -1 ELSE CHOOSE i \in at : \A j \in at : i <= j

\* The earlier of the two; where both match, --regex.
FirstMatch(s) ==
    LET re  == IF opt.regex = NoPattern THEN -1 ELSE IndexOf(s, opt.regex)
        sub == IF opt.substr = NoPattern THEN -1 ELSE IndexOf(s, opt.substr)
    IN IF sub >= 0 /\ (re < 0 \/ sub < re)
       THEN [kind |-> "substr", start |-> sub, end |-> sub + Len(opt.substr)]
       ELSE [kind |-> "regex", start |-> re,
             end |-> IF re < 0 THEN re ELSE re + Len(opt.regex)]

\* The closure scan, on the text s whose offset is b, from the offset i in it
\* on, where rest is the scan from each later one on: what it reports, up to
\* where it consumes s, and how it goes on.
ScannedFrom(s, b, rest, i) ==
    LET m    == FirstMatch(SubSeq(s, i + 1, Len(s)))
        next == i + IF m.end <= m.start THEN m.start + 1 ELSE m.end
        hit  == [kind |-> m.kind, off |-> b + i + m.start]
    IN IF m.start < 0 THEN [hits |-> <<>>, at |-> i, then |-> "run"]
       ELSE IF next > Len(s) THEN [hits |-> <<hit>>, at |-> i, then |-> "panic"]
       ELSE IF ~opt.follow THEN [hits |-> <<hit>>, at |-> next, then |-> "0"]
       ELSE [rest[next] EXCEPT !.hits = <<hit>> \o @]

Scanned(s, b) ==
    LET from[i \in 0 .. Len(s)] == ScannedFrom(s, b, from, i) IN from[0]

\* Mutant: the window grows without limit.
Untrimmed(s, b, at) == [buf |-> SubSeq(s, at + 1, Len(s)), base |-> b + at]

\* The window after s has been consumed up to `at'.
Trimmed(s, b, at) ==
    LET rest == SubSeq(s, at + 1, Len(s))
        drop == IF Len(rest) > Window THEN Len(rest) - Window ELSE 0
    IN [buf |-> SubSeq(rest, drop + 1, Len(rest)), base |-> b + at + drop]

ScanText(s, keep) ==
    LET r == Scanned(s, base)
        w == IF keep THEN Trimmed(s, base, r.at)
             ELSE [buf |-> <<>>, base |-> base + Len(s)]
    IN /\ hits' = hits \o r.hits
       /\ buf' = w.buf
       /\ base' = w.base
       /\ outcome' = r.then

ArmIdle == timer' = (opt.idle \/ timer)

ExpectInit ==
    /\ opt \in Options
    /\ armed = FALSE /\ timer = FALSE
    /\ buf = <<>> /\ base = 0 /\ hits = <<>>
    /\ outcome = "idle"

\* The call: the attach request is out, the idle timer runs if matching has
\* begun already.
ExpectStart ==
    /\ outcome = "idle"
    /\ outcome' = "run"
    /\ armed' = opt.scrollback
    /\ timer' = (opt.scrollback /\ opt.idle)
    /\ UNCHANGED <<opt, buf, base, hits>>

\* Mutant: nothing is kept from one chunk to the next.
ScanChunk(text) == ScanText(text, FALSE)

ScanBuf(text) == ScanText(text, TRUE)

\* The event output: before matching has begun it is dropped.
OnOutput(chunk) ==
    /\ IF armed
       THEN ScanBuf(buf \o chunk) /\ ArmIdle
       ELSE UNCHANGED <<timer, buf, base, hits, outcome>>
    /\ UNCHANGED <<opt, armed>>

\* The event scrollback_end.
OnScrollbackEnd ==
    /\ armed' = TRUE
    /\ ScanBuf(buf)
    /\ ArmIdle
    /\ UNCHANGED opt

ExpectEnds(code) ==
    /\ outcome' = code
    /\ UNCHANGED <<opt, armed, timer, buf, base, hits>>

\* exit counts only if asked for; session_closed and the end of the events
\* always do.
OnExit == ExpectEnds(IF opt.exit THEN "0" ELSE "run")
OnClosed == ExpectEnds("3")

\* The timers and the signals.
OnIdle ==
    /\ timer
    /\ ExpectEnds(IF opt.follow THEN "run" ELSE "0")
OnDeadline == opt.timeout /\ ExpectEnds("2")
OnSignal == ExpectEnds("130")
=============================================================================
