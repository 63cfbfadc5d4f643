-------------------------------- MODULE Scorc --------------------------------
(***************************************************************************)
(* The rewriting of ESC [ u into ESC 8 on the way to the emulator          *)
(* (pkg/ptysession/scorc.go).                                              *)
(***************************************************************************)
EXTENDS Integers, Sequences

\* out is for the emulator; hold is the sequence the chunk cuts, kept for the
\* next one.
Emit(bytes, rest) == [rest EXCEPT !.out = bytes \o @]

\* The scan of `in' from its i-th byte on, where rest is the scan from each
\* later one on.
ScanFrom(in, rest, i) ==
    CASE i > Len(in) -> [out |-> <<>>, hold |-> <<>>]
      [] i <= Len(in) /\ in[i] # "ESC" -> Emit(<<in[i]>>, rest[i + 1])
      [] i = Len(in) /\ in[i] = "ESC" -> [out |-> <<>>, hold |-> <<"ESC">>]
      [] i < Len(in) /\ in[i] = "ESC" /\ in[i + 1] # "[" ->
           Emit(<<"ESC", in[i + 1]>>, rest[i + 2])
      [] i + 1 = Len(in) /\ in[i] = "ESC" /\ in[i + 1] = "[" ->
           [out |-> <<>>, hold |-> <<"ESC", "[">>]
      [] i + 1 < Len(in) /\ in[i] = "ESC" /\ in[i + 1] = "[" ->
           IF in[i + 2] = "u" THEN Emit(<<"ESC", "8">>, rest[i + 3])
           ELSE Emit(SubSeq(in, i, i + 2), rest[i + 3])

Scan(in) ==
    LET from[i \in 1 .. Len(in) + 1] == ScanFrom(in, from, i) IN from[1]

\* Mutant: only a lone ESC is kept.
TranslateShort(pending, chunk) ==
    LET r == Scan(pending \o chunk)
    IN IF Len(r.hold) = 2 THEN [out |-> r.out \o r.hold, hold |-> <<>>] ELSE r

Translate(pending, chunk) == Scan(pending \o chunk)
=============================================================================
