----------------------------- MODULE RingBuffer -----------------------------
(***************************************************************************)
(* The scrollback ring (pkg/ptysession/ring.go): it grows until it holds   *)
(* RingMax bytes, from then on it is a circular buffer written at pos.     *)
(***************************************************************************)
EXTENDS Integers, Sequences

CONSTANT RingMax

ASSUME RingAssumption == RingMax \in Nat \ {0}

NewRingBuffer == [buf |-> <<>>, pos |-> 0, full |-> FALSE]

\* The last n elements of s.
LastOf(s, n) == SubSeq(s, Len(s) - n + 1, Len(s))

\* p is copied to the buffer from pos on, n bytes up to its end and the rest
\* to its front.
Wrapped(r, p, n) ==
    [i \in 1 .. RingMax |->
        IF i > r.pos /\ i <= r.pos + n THEN p[i - r.pos]
        ELSE IF i <= Len(p) - n THEN p[n + i]
        ELSE r.buf[i]]

Circular(r, p, restart) ==
    IF Len(p) >= RingMax
    THEN [buf |-> LastOf(p, RingMax), pos |-> restart, full |-> TRUE]
    ELSE LET room == RingMax - r.pos
             n == IF Len(p) < room THEN Len(p) ELSE room
         IN [buf |-> Wrapped(r, p, n),
             pos |-> (r.pos + Len(p)) % RingMax,
             full |-> TRUE]

\* Mutant: a chunk that replaces all leaves pos where it was.
CircularKeepsPos(r, p) == Circular(r, p, r.pos)

AppendCircular(r, p) == Circular(r, p, 0)

RingAppend(r, p) ==
    LET grown == r.buf \o p
    IN IF r.full THEN AppendCircular(r, p)
       ELSE IF Len(grown) >= RingMax
       THEN [buf |-> LastOf(grown, RingMax), pos |-> 0, full |-> TRUE]
       ELSE [r EXCEPT !.buf = grown]

Snapshot(r) ==
    IF r.full
    THEN SubSeq(r.buf, r.pos + 1, RingMax) \o SubSeq(r.buf, 1, r.pos)
    ELSE r.buf
=============================================================================
