----------------------------- MODULE OutputPath -----------------------------
(***************************************************************************)
(* What becomes of the bytes a program writes: in whatever chunks they are *)
(* read, readLoop appends them to the ring, feeds them rewritten to the    *)
(* emulator, and sends them to an attached client, here `ctl expect',      *)
(* which has got the ring's content before them (pkg/ptysession/session.go *)
(* readLoop, internal/server/session.go attach).                           *)
(***************************************************************************)
EXTENDS RingBuffer, Scorc, Expect

CONSTANTS
    Bytes,      \* the alphabet
    MaxLen,     \* bound on the bytes written
    MaxChunk,   \* bound on the bytes of one read
    MaxFrame    \* bytes of one frame of the replay

ASSUME BoundsAssumption ==
    MaxLen \in Nat /\ MaxChunk \in Nat /\ MaxFrame \in Nat \ {0}

ASSUME OptionsAssumption ==
    Options \subseteq [regex : Seq(Bytes) \cup {NoPattern},
                       substr : Seq(Bytes) \cup {NoPattern},
                       follow : BOOLEAN, scrollback : BOOLEAN, idle : BOOLEAN,
                       exit : BOOLEAN, timeout : BOOLEAN]

VARIABLES
    stream,     \* all bytes written so far
    ring,       \* ringBuffer
    pending,    \* scorcRewriter.pending
    fed,        \* all the emulator has been fed
    replay,     \* scrollback the client has still to get
    client,     \* "none", "replay", "live"
    from,       \* the bytes of the stream before the text that is matched
    alive       \* the session has not ended

vars == <<stream, ring, pending, fed, replay, client, from, alive,
          expectVars>>

Init ==
    /\ stream = <<>> /\ ring = NewRingBuffer
    /\ pending = <<>> /\ fed = <<>>
    /\ replay = <<>> /\ client = "none" /\ from = 0
    /\ alive = TRUE
    /\ ExpectInit

Running == outcome = "run"

\* readLoop; attach holds the lock during the replay.
Chunk(p) ==
    /\ alive /\ client # "replay"
    /\ Len(stream) + Len(p) <= MaxLen
    /\ stream' = stream \o p
    /\ ring' = RingAppend(ring, p)
    /\ LET r == Translate(pending, p)
       IN fed' = fed \o r.out /\ pending' = r.hold
    /\ IF client = "live" /\ Running THEN OnOutput(p)
       ELSE UNCHANGED expectVars
    /\ UNCHANGED <<replay, client, from, alive>>

Attach ==
    /\ alive /\ client = "none"
    /\ replay' = Snapshot(ring)
    /\ client' = "replay"
    /\ from' = IF opt.scrollback THEN Len(stream) - Len(Snapshot(ring))
               ELSE Len(stream)
    /\ ExpectStart
    /\ UNCHANGED <<stream, ring, pending, fed, alive>>

\* encodeScrollback: the snapshot in frames.
Frame ==
    /\ client = "replay" /\ replay # <<>>
    /\ LET n == IF Len(replay) < MaxFrame THEN Len(replay) ELSE MaxFrame
       IN /\ replay' = SubSeq(replay, n + 1, Len(replay))
          /\ IF Running THEN OnOutput(SubSeq(replay, 1, n))
             ELSE UNCHANGED expectVars
    /\ UNCHANGED <<stream, ring, pending, fed, client, from, alive>>

ReplayEnd ==
    /\ client = "replay" /\ replay = <<>>
    /\ client' = "live"
    /\ IF Running THEN OnScrollbackEnd ELSE UNCHANGED expectVars
    /\ UNCHANGED <<stream, ring, pending, fed, replay, from, alive>>

\* The session ends, with somebody attached: exit, unless it was killed, and
\* session_closed.
Exit ==
    /\ alive /\ client = "live"
    /\ alive' = FALSE
    /\ IF Running THEN OnExit ELSE UNCHANGED expectVars
    /\ UNCHANGED <<stream, ring, pending, fed, replay, client, from>>

Killed ==
    /\ alive /\ client = "live"
    /\ alive' = FALSE
    /\ UNCHANGED <<stream, ring, pending, fed, replay, client, from,
                   expectVars>>

Closed ==
    /\ client \in {"replay", "live"} /\ Running
    /\ OnClosed
    /\ UNCHANGED <<stream, ring, pending, fed, replay, client, from, alive>>

Timer ==
    /\ Running
    /\ OnIdle \/ OnDeadline \/ OnSignal
    /\ UNCHANGED <<stream, ring, pending, fed, replay, client, from, alive>>

Chunks == UNION {[1..n -> Bytes] : n \in 1..MaxChunk}

Next ==
    \/ \E p \in Chunks : Chunk(p)
    \/ Attach \/ Frame \/ ReplayEnd \/ Exit \/ Killed \/ Closed \/ Timer

Spec == Init /\ [][Next]_vars

-----------------------------------------------------------------------------
(* Properties *)

TypeOK ==
    /\ Len(stream) <= MaxLen
    /\ ring.pos \in 0 .. RingMax - 1 /\ Len(ring.buf) <= RingMax
    /\ ring.full = (Len(ring.buf) = RingMax)
    /\ pending \in {<<>>, <<"ESC">>, <<"ESC", "[">>}
    /\ client \in {"none", "replay", "live"}
    /\ Len(buf) <= Window /\ base >= 0
    /\ outcome \in {"idle", "run", "0", "2", "3", "130", "panic"}

\* In whatever chunks it was written, the ring holds the newest RingMax bytes
\* in their order (ring_test.go:21 compares it with such an oracle).
RingIsNewest ==
    Snapshot(ring) =
        IF Len(stream) < RingMax THEN stream ELSE LastOf(stream, RingMax)

\* The emulator has been fed what it would have been if the whole stream had
\* come in one read, however the reads cut the sequences (scorc.go:33-37), and
\* what is kept for the next read is the same.
RewritingIgnoresChunks ==
    [out |-> fed, hold |-> pending] = Translate(<<>>, stream)

\* What `expect' looks at: all it is to match, and what it may match in it.
Text == SubSeq(stream, from + 1, Len(stream) - Len(replay))

Pattern(kind) == IF kind = "regex" THEN opt.regex ELSE opt.substr

Kinds == {k \in {"regex", "substr"} : Pattern(k) \notin {NoPattern, <<>>}}

OccursAt(k, off) == SubSeq(Text, off + 1, off + Len(Pattern(k))) = Pattern(k)

EndOf(hit) == hit.off + Len(Pattern(hit.kind))

\* What `expect' reports is in the output at the offset it says, whatever the
\* chunks and the frames: the reports do not overlap, and no pattern is in
\* the text between two of them or after the last; without --include-scrollback
\* nothing that was written before it attached is reported.
ReportsExact ==
    outcome # "panic" =>
        LET start(i) == IF i = 0 THEN 0 ELSE EndOf(hits[i])
            stop(i)  == IF i < Len(hits) THEN hits[i + 1].off ELSE Len(Text)
        IN /\ \A i \in 1 .. Len(hits) :
                 /\ OccursAt(hits[i].kind, hits[i].off)
                 /\ hits[i].off >= start(i - 1)
           /\ outcome = "run" => ~\E i \in 0 .. Len(hits), k \in Kinds :
                 \E off \in start(i) .. stop(i) - Len(Pattern(k)) :
                    OccursAt(k, off)
=============================================================================
