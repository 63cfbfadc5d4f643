----------------------------- MODULE DetachKey -----------------------------
(***************************************************************************)
(* The keys that end `ctl attach': how the configuration's detach_prefix   *)
(* and detach_key become a sequence of bytes (cmd/pupptyeer/config.go),    *)
(* and how that sequence is looked for in what is typed, chunk by chunk    *)
(* (detachMatcher, cmd/pupptyeer/ctl.go).                                  *)
(*                                                                         *)
(* A key's specification is a pair: the form it is written in, "none",     *)
(* "ctrl" (ctrl-x, ctrl+x, c-x, ^x), "hex" or "bare", and the code of the  *)
(* character or the byte.                                                  *)
(***************************************************************************)
EXTENDS Integers, Sequences

NoKey == -1
BadKey == -2

\* Upper case first; ctrl-? is DEL; of `@' to `_' the low five bits are kept.
ControlByte(ch) ==
    LET c == IF ch \in 97..122 THEN ch - 32 ELSE ch
    IN  IF c = 63 THEN 127
        ELSE IF c \in 64..95 THEN c % 32
        ELSE BadKey

ParseKey(spec, allowBare) ==
    CASE spec[1] = "none" -> NoKey
      [] spec[1] = "hex"  -> IF spec[2] \in 0..255 THEN spec[2] ELSE BadKey
      [] spec[1] = "ctrl" -> ControlByte(spec[2])
      [] spec[1] = "bare" -> IF allowBare THEN spec[2] ELSE BadKey

BadConfig == <<BadKey>>

\* After a prefix any key will do; on its own it has to be a control key.
ResolveDetach(prefixSpec, keySpec) ==
    LET prefix == ParseKey(prefixSpec, FALSE)
        key    == ParseKey(keySpec, prefix >= 0)
    IN  IF BadKey \in {prefix, key} THEN BadConfig
        ELSE IF key = NoKey THEN <<>>
        ELSE IF prefix >= 0 THEN <<prefix, key>>
        ELSE <<key>>

\* The matcher: how many bytes of `seq' are held, and, of one chunk, what is
\* to be forwarded and whether the sequence is complete.
Matcher == [matched |-> 0, out |-> <<>>, done |-> FALSE]

\* A byte that breaks a match, after what was held: it may itself begin one.
Restart(seq, m, b, again) ==
    LET replayed == m.out \o SubSeq(seq, 1, m.matched)
    IN  IF again /\ b = seq[1]
        THEN [m EXCEPT !.matched = 1, !.out = replayed]
        ELSE [m EXCEPT !.matched = 0, !.out = Append(replayed, b)]

FeedByte(seq, m, b, again) ==
    IF b # seq[m.matched + 1] THEN Restart(seq, m, b, again)
    ELSE IF m.matched + 1 = Len(seq)
         THEN [m EXCEPT !.matched = 0, !.done = TRUE]
         ELSE [m EXCEPT !.matched = @ + 1]

\* The chunk `in', from the first byte on until the sequence is complete.
FeedChunk(seq, matched, in, again) ==
    LET start == [Matcher EXCEPT !.matched = matched]
        run[i \in 0..Len(in)] ==
            IF i = 0 THEN start
            ELSE IF run[i - 1].done THEN run[i - 1]
            ELSE FeedByte(seq, run[i - 1], in[i], again)
    IN  IF seq = <<>> THEN [start EXCEPT !.out = in] ELSE run[Len(in)]

\* Mutant: the byte that breaks a match is forwarded without another look.
FeedNoRestart(seq, matched, in) == FeedChunk(seq, matched, in, FALSE)

Feed(seq, matched, in) == FeedChunk(seq, matched, in, TRUE)

-----------------------------------------------------------------------------
(* What the program reads in what is typed, whatever the chunks: the bytes  *)
(* before the first occurrence of `seq', or all but the longest end that    *)
(* may still become one.                                                    *)

EndsAt(seq, typed, i) ==
    /\ seq # <<>> /\ i >= Len(seq)
    /\ SubSeq(typed, i - Len(seq) + 1, i) = seq

Occurs(seq, typed) == \E i \in 1..Len(typed) : EndsAt(seq, typed, i)

Held(seq, typed) ==
    IF Len(seq) = 2 /\ typed # <<>> /\ typed[Len(typed)] = seq[1] THEN 1 ELSE 0

Forwarded(seq, typed) ==
    IF Occurs(seq, typed)
    THEN LET first == CHOOSE i \in 1..Len(typed) :
                 /\ EndsAt(seq, typed, i)
                 /\ \A j \in 1..(i - 1) : ~EndsAt(seq, typed, j)
         IN  SubSeq(typed, 1, first - Len(seq))
    ELSE SubSeq(typed, 1, Len(typed) - Held(seq, typed))
=============================================================================
