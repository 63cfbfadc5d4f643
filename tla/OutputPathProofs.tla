-------------------------- MODULE OutputPathProofs --------------------------
(***************************************************************************)
(* Proofs about OutputPath, for any alphabet, ring size, window, chunks,   *)
(* frames and calls of `expect', in this order:                            *)
(*   - the ring: appending keeps the newest bytes (Appended);              *)
(*   - the rewriting: the scan of a chunk goes on byte by byte from chunk  *)
(*     to chunk (RewrittenChunk), as it does in one read of all            *)
(*     (RewrittenAtOnce);                                                  *)
(*   - the matching: a scan reports what is there and misses nothing       *)
(*     (ScannedOK), and the window is all of the text that a later match   *)
(*     may begin in (ScanOfText);                                          *)
(*   - the system: the invariants Written, Typed, Replaying and Watched,   *)
(*     and the theorems.                                                   *)
(* Scan, Scanned and Rewritten are recursive functions: that they have the *)
(* values their definitions say is RecursiveFunction of Induction.         *)
(***************************************************************************)
EXTENDS OutputPath, Induction, SequenceTheorems, TLAPS

-----------------------------------------------------------------------------
(* The ring *)

\* The place in a full ring of its i-th byte from the oldest on.
Place(r, i) == IF r.pos + i <= RingMax THEN r.pos + i ELSE r.pos + i - RingMax

\* r holds the newest bytes of s: all of them, or RingMax from pos on.
Newest(r, s) ==
    /\ r \in [buf : Seq(Bytes), pos : 0 .. RingMax - 1, full : BOOLEAN]
    /\ ~r.full => r.pos = 0 /\ r.buf = s /\ Len(s) < RingMax
    /\ r.full =>
          /\ Len(r.buf) = RingMax /\ Len(s) >= RingMax
          /\ \A i \in 1 .. RingMax :
                s[Len(s) - RingMax + i] = r.buf[Place(r, i)]

\* The last n elements of s are n of its elements.
LEMMA LastOfProperties ==
    ASSUME NEW S, NEW s \in Seq(S), NEW n \in 0 .. Len(s)
    PROVE  /\ LastOf(s, n) \in Seq(S) /\ Len(LastOf(s, n)) = n
           /\ \A i \in 1..n : LastOf(s, n)[i] = s[Len(s) - n + i]
  <1> DEFINE a == Len(s) - n + 1
             b == Len(s)
  <1>1. a \in Int /\ b \in Int /\ b - a + 1 = n /\ \A i \in a .. b : s[i] \in S
    BY ElementOfSeq
  <1> HIDE DEF a, b
  <1>2. /\ SubSeq(s, a, b) \in Seq(S)
        /\ Len(SubSeq(s, a, b)) = IF a <= b THEN b - a + 1 ELSE 0
        /\ \A i \in 1 .. b - a + 1 : SubSeq(s, a, b)[i] = s[a + i - 1]
    BY <1>1, SubSeqProperties
  <1> USE DEF a, b
  <1> QED
    BY <1>1, <1>2 DEF LastOf

\* The wrapping of pos in a step that does not overwrite all.
LEMMA OneTurn ==
    ASSUME NEW M \in Nat \ {0}, NEW k \in 0 .. M + M - 1
    PROVE  k % M = IF k < M THEN k ELSE k - M
  OBVIOUS

\* A full ring, in which p overwrites the oldest bytes.
LEMMA Overwritten ==
    ASSUME NEW r, NEW s \in Seq(Bytes), NEW p \in Seq(Bytes),
           Newest(r, s), r.full, Len(p) < RingMax
    PROVE  Newest(AppendCircular(r, p), s \o p)
  <1> DEFINE M == RingMax
             k == Len(p)
             q == r.pos
             n == IF k < M - q THEN k ELSE M - q
             w == Wrapped(r, p, n)
             t == s \o p
             q2 == IF q + k < M THEN q + k ELSE q + k - M
             l == Len(s)
             b == r.buf
  <1>1. /\ M \in Nat \ {0} /\ k \in 0 .. M - 1 /\ q \in 0 .. M - 1
        /\ b \in Seq(Bytes) /\ Len(b) = M
        /\ l \in Nat /\ l >= M
    BY RingAssumption DEF Newest
  <1>2. AppendCircular(r, p) = [buf |-> w, pos |-> q2, full |-> TRUE]
    <2>1. q + k \in 0 .. M + M - 1
      BY <1>1
    <2>2. (q + k) % M = q2
      <3> DEFINE e == q + k
      <3>1. M \in Nat \ {0} /\ e \in 0 .. M + M - 1
        BY <1>1, <2>1
      <3> HIDE DEF M, e
      <3>2. e % M = IF e < M THEN e ELSE e - M
        BY <3>1, OneTurn
      <3> QED
        BY <1>1, <3>2 DEF e
    <2>3. ~(k >= M)
      BY <1>1
    <2> HIDE DEF q2
    <2> QED
      BY <2>2, <2>3 DEF AppendCircular, Circular
  <1>3. n \in 0..k /\ k - n <= q /\ q + n <= M
        /\ (n = k \/ n = M - q)
    BY <1>1
  <1>4. /\ \A i \in 1..k : p[i] \in Bytes
        /\ \A i \in 1..M : b[i] \in Bytes
    BY <1>1
  <1>5. w = [i \in 1..M |-> IF i > q /\ i <= q + n THEN p[i - q]
                            ELSE IF i <= k - n THEN p[n + i]
                            ELSE b[i]]
    BY DEF Wrapped
  <1>6. q2 \in 0 .. M - 1 /\ (q2 = q + k \/ q2 = q + k - M)
    BY <1>1
  <1>7. t \in Seq(Bytes) /\ Len(t) = l + k
        /\ \A i \in 1 .. l + k : t[i] = IF i <= l THEN s[i] ELSE p[i - l]
    BY ConcatProperties
  <1>8. \A i \in 1..M : s[l - M + i] = b[Place(r, i)]
    BY DEF Newest
  <1>9. \A i : Place(r, i) = IF q + i <= M THEN q + i ELSE q + i - M
    BY DEF Place
  <1> HIDE DEF M, k, q, n, w, t, q2, l, b
  <1>10. w \in Seq(Bytes) /\ Len(w) = M
    <2>1. ASSUME NEW i \in 1..M PROVE w[i] \in Bytes
      <3>1. CASE i > q /\ i <= q + n
        <4>1. i - q \in 1..k /\ w[i] = p[i - q]
          BY <1>1, <1>3, <1>5, <3>1
        <4> QED
          BY <1>4, <4>1
      <3>2. CASE ~(i > q /\ i <= q + n) /\ i <= k - n
        <4>1. n + i \in 1..k /\ w[i] = p[n + i]
          BY <1>1, <1>3, <1>5, <3>2
        <4> QED
          BY <1>4, <4>1
      <3>3. CASE ~(i > q /\ i <= q + n) /\ ~(i <= k - n)
        BY <1>1, <1>4, <1>5, <3>3
      <3> QED
        BY <3>1, <3>2, <3>3
    <2>2. w \in [1..M -> Bytes]
      BY <1>5, <2>1
    <2> QED
      BY <1>1, <2>2
  <1>11. ASSUME NEW i \in 1..M
         PROVE  t[Len(t) - M + i] =
                   w[IF q2 + i <= M THEN q2 + i ELSE q2 + i - M]
    <2> DEFINE j == IF q2 + i <= M THEN q2 + i ELSE q2 + i - M
    <2>1. j \in 1..M /\ (j = q2 + i \/ j = q2 + i - M)
      BY <1>1, <1>6
    <2>2. CASE i > M - k
      <3>1. t[Len(t) - M + i] = p[i - (M - k)]
        <4>1. Len(t) - M + i \in 1 .. l + k /\ ~(Len(t) - M + i <= l)
              /\ (Len(t) - M + i) - l = i - (M - k)
          BY <1>1, <1>7, <2>2
        <4> QED
          BY <1>7, <4>1
      <3>2. CASE j > q /\ j <= q + n
        <4>1. j - q = i - (M - k)
          BY <1>1, <1>3, <1>6, <2>1, <2>2, <3>2
        <4> HIDE DEF j
        <4>2. w[j] = p[j - q]
          BY <1>5, <2>1, <3>2
        <4> QED
          BY <3>1, <4>1, <4>2 DEF j
      <3>3. CASE ~(j > q /\ j <= q + n)
        <4>1. j <= k - n /\ n + j = i - (M - k)
          BY <1>1, <1>3, <1>6, <2>1, <2>2, <3>3
        <4> HIDE DEF j
        <4>2. w[j] = p[n + j]
          BY <1>5, <2>1, <3>3, <4>1
        <4> QED
          BY <3>1, <4>1, <4>2 DEF j
      <3> QED
        BY <3>2, <3>3
    <2>3. CASE i <= M - k
      <3>1. t[Len(t) - M + i] = s[l - M + (i + k)]
        <4>1. Len(t) - M + i \in 1 .. l + k /\ Len(t) - M + i <= l
              /\ Len(t) - M + i = l - M + (i + k)
          BY <1>1, <1>7, <2>3
        <4> QED
          BY <1>7, <4>1
      <3>2. i + k \in 1..M
        BY <1>1, <2>3
      <3>3. Place(r, i + k) = j
        BY <1>1, <1>6, <1>9, <2>3 DEF q2
      <3>4. ~(j > q /\ j <= q + n) /\ ~(j <= k - n)
        BY <1>1, <1>3, <1>6, <2>1, <2>3 DEF q2
      <3> HIDE DEF j
      <3>5. w[j] = b[j]
        BY <1>5, <2>1, <3>4
      <3>6. s[l - M + (i + k)] = b[j]
        BY <1>8, <3>2, <3>3
      <3> QED
        BY <3>1, <3>5, <3>6 DEF j
    <2> QED
      BY <1>1, <2>2, <2>3
  <1>12. /\ RingMax = M
         /\ Len(t) >= M
         /\ t = s \o p
    BY <1>1, <1>7 DEF M, t
  <1> DEFINE r2 == [buf |-> w, pos |-> q2, full |-> TRUE]
  <1>13. /\ r2 \in [buf : Seq(Bytes), pos : 0 .. RingMax - 1,
                    full : BOOLEAN]
         /\ r2.buf = w /\ r2.pos = q2 /\ r2.full
    BY <1>6, <1>10, <1>12
  <1>14. \A i : Place(r2, i) = IF q2 + i <= M THEN q2 + i ELSE q2 + i - M
    BY <1>12, <1>13 DEF Place
  <1> HIDE DEF r2
  <1>15. Newest(r2, t)
    <2>1. \A i \in 1 .. RingMax : t[Len(t) - RingMax + i] = w[Place(r2, i)]
      BY <1>11, <1>12, <1>14
    <2> QED
      BY <1>10, <1>12, <1>13, <2>1 DEF Newest
  <1> QED
    BY <1>2, <1>12, <1>15 DEF r2

\* A read appends to the ring what it appends to the stream.
LEMMA Appended ==
    ASSUME NEW r, NEW s \in Seq(Bytes), NEW p \in Seq(Bytes), Newest(r, s)
    PROVE  Newest(RingAppend(r, p), s \o p)
  <1> DEFINE t == s \o p
  <1>1. /\ t \in Seq(Bytes) /\ Len(t) = Len(s) + Len(p)
        /\ Len(s) \in Nat /\ Len(p) \in Nat
        /\ \A i \in 1 .. Len(s) + Len(p) :
              t[i] = IF i <= Len(s) THEN s[i] ELSE p[i - Len(s)]
    BY ConcatProperties
  <1>2. RingMax \in Nat \ {0}
    BY RingAssumption
  <1> HIDE DEF t
  <1>3. CASE r.full /\ Len(p) < RingMax
    BY <1>3, Overwritten DEF RingAppend
  <1>4. ASSUME NEW u \in {t, p}, Len(u) >= RingMax
        PROVE  Newest([buf |-> LastOf(u, RingMax), pos |-> 0,
                       full |-> TRUE], t)
    <2> DEFINE b == LastOf(u, RingMax)
               c == Len(u)
    <2>1. u \in Seq(Bytes) /\ c \in Nat /\ c >= RingMax
      BY <1>1, <1>4
    <2>2. /\ b \in Seq(Bytes) /\ Len(b) = RingMax
          /\ \A i \in 1 .. RingMax : b[i] = u[c - RingMax + i]
      <3>1. RingMax \in 0 .. Len(u)
        BY <1>2, <2>1
      <3> QED
        BY <2>1, <3>1, LastOfProperties
    <2> HIDE DEF b, c
    <2>3. ASSUME NEW i \in 1 .. RingMax
          PROVE  t[Len(t) - RingMax + i] = u[c - RingMax + i]
      <3>1. CASE u = t
        BY <3>1 DEF c
      <3>2. CASE u = p
        <4> DEFINE e == Len(t) - RingMax + i
        <4>1. /\ e \in 1 .. Len(s) + Len(p)
              /\ ~(e <= Len(s))
              /\ e - Len(s) = c - RingMax + i
          BY <1>1, <1>2, <2>1, <3>2 DEF c
        <4> HIDE DEF e
        <4>2. t[e] = p[c - RingMax + i]
          BY <1>1, <4>1
        <4> QED
          BY <3>2, <4>2 DEF e
      <3> QED
        BY <3>1, <3>2
    <2>4. Len(t) >= RingMax
      BY <1>1, <1>2, <1>4
    <2> DEFINE r2 == [buf |-> b, pos |-> 0, full |-> TRUE]
    <2>5. /\ r2 \in [buf : Seq(Bytes), pos : 0 .. RingMax - 1,
                     full : BOOLEAN]
          /\ r2.buf = b /\ r2.pos = 0 /\ r2.full
      BY <1>2, <2>2
    <2>6. \A i \in 1 .. RingMax : Place(r2, i) = i
      BY <1>2, <2>5 DEF Place
    <2> HIDE DEF r2
    <2>7. \A i \in 1 .. RingMax :
             t[Len(t) - RingMax + i] = r2.buf[Place(r2, i)]
      BY <2>2, <2>3, <2>5, <2>6
    <2>8. Newest(r2, t)
      BY <2>2, <2>4, <2>5, <2>7 DEF Newest
    <2> QED
      BY <2>8 DEF r2, b
  <1>5. CASE r.full /\ Len(p) >= RingMax
    BY <1>4, <1>5 DEF RingAppend, AppendCircular, Circular, t
  <1>6. CASE ~r.full
    <2>1. /\ r.buf = s /\ r.pos = 0
          /\ r \in [buf : Seq(Bytes), pos : 0 .. RingMax - 1,
                    full : BOOLEAN]
      BY <1>6 DEF Newest
    <2>2. CASE Len(t) >= RingMax
      BY <1>4, <1>6, <2>1, <2>2 DEF RingAppend, t
    <2>3. CASE ~(Len(t) >= RingMax)
      <3>1. RingAppend(r, p) = [r EXCEPT !.buf = t]
        BY <1>6, <2>1, <2>3 DEF RingAppend, t
      <3>2. Len(t) < RingMax
        BY <1>1, <1>2, <2>3
      <3>3. Newest([r EXCEPT !.buf = t], t)
        BY <1>1, <1>6, <2>1, <3>2 DEF Newest
      <3> QED
        BY <3>1, <3>3 DEF t
    <2> QED
      BY <2>2, <2>3
  <1>7. r.full \in BOOLEAN
    BY DEF Newest
  <1> QED
    BY <1>1, <1>2, <1>3, <1>5, <1>6

\* What an attaching client is sent of a ring that holds the newest bytes.
LEMMA NewestSnapshot ==
    ASSUME NEW r, NEW s \in Seq(Bytes), Newest(r, s)
    PROVE  Snapshot(r) =
               IF Len(s) < RingMax THEN s ELSE LastOf(s, RingMax)
  <1> DEFINE M == RingMax
             q == r.pos
             b == r.buf
             x == SubSeq(b, q + 1, M)
             y == SubSeq(b, 1, q)
             l == LastOf(s, M)
  <1>1. CASE ~r.full
    BY <1>1 DEF Newest, Snapshot
  <1>2. CASE r.full
    <2>1. /\ M \in Nat \ {0} /\ q \in 0 .. M - 1
          /\ b \in Seq(Bytes) /\ Len(b) = M
          /\ Len(s) \in Nat /\ Len(s) >= M
      BY <1>2, RingAssumption DEF Newest
    <2>2. \A i \in 1..M : s[Len(s) - M + i] = b[Place(r, i)]
      BY <1>2 DEF Newest
    <2>3. \A i : Place(r, i) = IF q + i <= M THEN q + i ELSE q + i - M
      BY DEF Place
    <2>4. \A i \in 1..M : b[i] \in Bytes
      BY <2>1
    <2>5. /\ l \in Seq(Bytes) /\ Len(l) = M
          /\ \A i \in 1..M : l[i] = s[Len(s) - M + i]
      BY <2>1, LastOfProperties
    <2>6. Snapshot(r) = x \o y
      BY <1>2 DEF Snapshot
    <2>12. ~(Len(s) < RingMax)
      BY <2>1
    <2> HIDE DEF M, q, b, l
    <2>7. /\ x \in Seq(Bytes) /\ Len(x) = M - q
          /\ \A i \in 1 .. M - q : x[i] = b[q + i]
      <3> DEFINE a == q + 1
      <3>1. a \in Int /\ M \in Int /\ a <= M /\ M - a + 1 = M - q
            /\ (\A i \in a .. M : b[i] \in Bytes)
            /\ \A i \in 1 .. M - q : a + i - 1 = q + i
        BY <2>1, <2>4
      <3> HIDE DEF a
      <3>2. /\ SubSeq(b, a, M) \in Seq(Bytes)
            /\ Len(SubSeq(b, a, M)) = IF a <= M THEN M - a + 1 ELSE 0
            /\ \A i \in 1 .. M - a + 1 : SubSeq(b, a, M)[i] = b[a + i - 1]
        BY <3>1, SubSeqProperties
      <3> QED
        BY <3>1, <3>2 DEF a
    <2>8. /\ y \in Seq(Bytes) /\ Len(y) = q
          /\ \A i \in 1..q : y[i] = b[i]
      <3>1. /\ SubSeq(b, 1, q) \in Seq(Bytes)
            /\ Len(SubSeq(b, 1, q)) = IF 1 <= q THEN q - 1 + 1 ELSE 0
            /\ \A i \in 1 .. q - 1 + 1 : SubSeq(b, 1, q)[i] = b[1 + i - 1]
        BY <2>1, <2>4, SubSeqProperties
      <3>2. /\ q - 1 + 1 = q
            /\ \A i \in 1..q : 1 + i - 1 = i
        BY <2>1
      <3> QED
        BY <2>1, <3>1, <3>2
    <2> HIDE DEF x, y
    <2>9. /\ x \o y \in Seq(Bytes) /\ Len(x \o y) = M
          /\ \A i \in 1..M : (x \o y)[i] =
                IF i <= M - q THEN x[i] ELSE y[i - (M - q)]
      <3>1. /\ x \o y \in Seq(Bytes) /\ Len(x \o y) = Len(x) + Len(y)
            /\ \A i \in 1 .. Len(x) + Len(y) : (x \o y)[i] =
                  IF i <= Len(x) THEN x[i] ELSE y[i - Len(x)]
        BY <2>7, <2>8, ConcatProperties
      <3>2. Len(x) + Len(y) = M
        BY <2>1, <2>7, <2>8
      <3> QED
        BY <2>7, <3>1, <3>2
    <2>10. ASSUME NEW i \in 1..M PROVE (x \o y)[i] = l[i]
      <3>1. l[i] = b[Place(r, i)]
        BY <2>2, <2>5
      <3>2. CASE i <= M - q
        <4>1. Place(r, i) = q + i /\ i \in 1 .. M - q
          BY <2>1, <2>3, <3>2
        <4> QED
          BY <2>7, <2>9, <3>1, <3>2, <4>1
      <3>3. CASE ~(i <= M - q)
        <4>1. Place(r, i) = i - (M - q) /\ i - (M - q) \in 1..q
          BY <2>1, <2>3, <3>3
        <4> QED
          BY <2>8, <2>9, <3>1, <3>3, <4>1
      <3> QED
        BY <3>2, <3>3
    <2>11. x \o y = l
      BY <2>5, <2>9, <2>10, SeqEqual
    <2> QED
      BY <2>6, <2>11, <2>12 DEF l, M
  <1>3. r.full \in BOOLEAN
    BY DEF Newest
  <1> QED
    BY <1>1, <1>2

-----------------------------------------------------------------------------
(* The rewriting *)

Symbols == Bytes \cup {"ESC", "[", "8"}

\* The beginnings of a sequence.
Holds == {<<>>, <<"ESC">>, <<"ESC", "[">>}

Rewritings == [out : Seq(Symbols), hold : Holds]

Nothing == [out |-> <<>>, hold |-> <<>>]

\* What the scan does, byte by byte: a sequence is what an ESC begins; it ends
\* with the byte after the ESC, or with the byte after ESC [, and only ESC [ u
\* is changed.
RewriteByte(r, b) ==
    CASE r.hold = <<>> /\ b = "ESC" -> [r EXCEPT !.hold = <<b>>]
      [] r.hold = <<>> /\ b # "ESC" -> [r EXCEPT !.out = Append(@, b)]
      [] r.hold = <<"ESC">> /\ b = "[" -> [r EXCEPT !.hold = Append(@, b)]
      [] r.hold = <<"ESC", "[">> /\ b = "u" ->
           [out |-> r.out \o <<"ESC", "8">>, hold |-> <<>>]
      [] OTHER -> [out |-> r.out \o Append(r.hold, b), hold |-> <<>>]

Rewritten(s) ==
    LET after[n \in 0 .. Len(s)] ==
            IF n = 0 THEN Nothing
            ELSE RewriteByte(after[n - 1], s[n])
    IN after[Len(s)]

\* What is given out, and what is kept, of one byte after a beginning.
LEMMA ByteByByte ==
    ASSUME NEW r \in Rewritings, NEW b \in Symbols
    PROVE  /\ r.hold = <<>> /\ b = "ESC" =>
                 RewriteByte(r, b) = [out |-> r.out, hold |-> <<"ESC">>]
           /\ r.hold = <<>> /\ b # "ESC" =>
                 RewriteByte(r, b) = [out |-> r.out \o <<b>>, hold |-> <<>>]
           /\ r.hold = <<"ESC">> /\ b = "[" =>
                 RewriteByte(r, b) = [out |-> r.out, hold |-> <<"ESC", "[">>]
           /\ r.hold = <<"ESC">> /\ b # "[" =>
                 RewriteByte(r, b) =
                     [out |-> r.out \o <<"ESC", b>>, hold |-> <<>>]
           /\ r.hold = <<"ESC", "[">> /\ b = "u" =>
                 RewriteByte(r, b) =
                     [out |-> r.out \o <<"ESC", "8">>, hold |-> <<>>]
           /\ r.hold = <<"ESC", "[">> /\ b # "u" =>
                 RewriteByte(r, b) =
                     [out |-> r.out \o <<"ESC", "[", b>>, hold |-> <<>>]
  <1>1. /\ <<"ESC">> # <<>> /\ <<"ESC", "[">> # <<>>
        /\ <<"ESC">> # <<"ESC", "[">>
    OBVIOUS
  <1>2. /\ r = [out |-> r.out, hold |-> r.hold]
        /\ r.out \in Seq(Symbols) /\ r.hold \in Holds
    BY DEF Rewritings
  <1>3. /\ Append(r.out, b) = r.out \o <<b>>
        /\ Append(<<"ESC">>, b) = <<"ESC", b>>
        /\ Append(<<"ESC", "[">>, b) = <<"ESC", "[", b>>
    <2>1. <<"ESC">> \in Seq(Symbols) /\ <<"ESC", "[">> \in Seq(Symbols)
      BY DEF Symbols
    <2>2. /\ Append(r.out, b) = r.out \o <<b>>
          /\ Append(<<"ESC">>, b) = <<"ESC">> \o <<b>>
          /\ Append(<<"ESC", "[">>, b) = <<"ESC", "[">> \o <<b>>
      BY <1>2, <2>1, AppendIsConcat
    <2>3. <<"ESC">> \o <<b>> = <<"ESC", b>>
      <3> DEFINE x == <<"ESC">> \o <<b>>
                 y == <<"ESC", b>>
      <3>1. /\ x \in Seq(Symbols) /\ Len(x) = 2
            /\ x[1] = "ESC" /\ x[2] = b
        BY <2>1
      <3>2. /\ y \in Seq(Symbols) /\ Len(y) = 2
            /\ y[1] = "ESC" /\ y[2] = b
        BY DEF Symbols
      <3> HIDE DEF x, y
      <3>3. \A i \in 1..2 : x[i] = y[i]
        BY <3>1, <3>2
      <3>4. x = y
        BY <3>1, <3>2, <3>3, SeqEqual
      <3> QED
        BY <3>4 DEF x, y
    <2>4. <<"ESC", "[">> \o <<b>> = <<"ESC", "[", b>>
      <3> DEFINE x == <<"ESC", "[">> \o <<b>>
                 y == <<"ESC", "[", b>>
      <3>1. /\ x \in Seq(Symbols) /\ Len(x) = 3
            /\ x[1] = "ESC" /\ x[2] = "[" /\ x[3] = b
        BY <2>1
      <3>2. /\ y \in Seq(Symbols) /\ Len(y) = 3
            /\ y[1] = "ESC" /\ y[2] = "[" /\ y[3] = b
        BY DEF Symbols
      <3> HIDE DEF x, y
      <3>3. \A i \in 1..3 : x[i] = y[i]
        BY <3>1, <3>2
      <3>4. x = y
        BY <3>1, <3>2, <3>3, SeqEqual
      <3> QED
        BY <3>4 DEF x, y
    <2> QED
      BY <2>2, <2>3, <2>4
  <1>4. CASE r.hold = <<>> /\ b = "ESC"
    BY <1>1, <1>2, <1>4 DEF RewriteByte
  <1>5. CASE r.hold = <<>> /\ b # "ESC"
    BY <1>1, <1>2, <1>3, <1>5 DEF RewriteByte
  <1>6. CASE r.hold = <<"ESC">> /\ b = "["
    BY <1>1, <1>2, <1>3, <1>6 DEF RewriteByte
  <1>7. CASE r.hold = <<"ESC">> /\ b # "["
    BY <1>1, <1>2, <1>3, <1>7 DEF RewriteByte
  <1>8. CASE r.hold = <<"ESC", "[">> /\ b = "u"
    BY <1>1, <1>2, <1>3, <1>8 DEF RewriteByte
  <1>9. CASE r.hold = <<"ESC", "[">> /\ b # "u"
    BY <1>1, <1>2, <1>3, <1>9 DEF RewriteByte
  <1> QED
    BY <1>1, <1>2, <1>4, <1>5, <1>6, <1>7, <1>8, <1>9 DEF Holds

\* What is kept is always the beginning of a sequence.
LEMMA ByteType ==
    ASSUME NEW r \in Rewritings, NEW b \in Symbols
    PROVE  RewriteByte(r, b) \in Rewritings
  <1>1. /\ <<b>> \in Seq(Symbols) /\ <<"ESC", b>> \in Seq(Symbols)
        /\ <<"ESC", "8">> \in Seq(Symbols)
        /\ <<"ESC", "[", b>> \in Seq(Symbols)
    BY DEF Symbols
  <1>2. r.out \in Seq(Symbols) /\ r.hold \in Holds
    BY DEF Rewritings
  <1>3. /\ r.out \o <<b>> \in Seq(Symbols)
        /\ r.out \o <<"ESC", b>> \in Seq(Symbols)
        /\ r.out \o <<"ESC", "8">> \in Seq(Symbols)
        /\ r.out \o <<"ESC", "[", b>> \in Seq(Symbols)
    BY <1>1, <1>2, ConcatProperties
  <1>4. \A o \in Seq(Symbols), h \in Holds :
           [out |-> o, hold |-> h] \in Rewritings
    BY DEF Rewritings
  <1>5. <<>> \in Holds /\ <<"ESC">> \in Holds /\ <<"ESC", "[">> \in Holds
    BY DEF Holds
  <1>6. PICK o \in Seq(Symbols), h \in Holds :
           RewriteByte(r, b) = [out |-> o, hold |-> h]
    <2>1. CASE r.hold = <<>>
      BY <1>2, <1>3, <1>5, <2>1, ByteByByte
    <2>2. CASE r.hold = <<"ESC">>
      BY <1>2, <1>3, <1>5, <2>2, ByteByByte
    <2>3. CASE r.hold = <<"ESC", "[">>
      BY <1>2, <1>3, <1>5, <2>3, ByteByByte
    <2> QED
      BY <1>2, <2>1, <2>2, <2>3 DEF Holds
  <1> QED
    BY <1>4, <1>6

\* Rewritten(s) is the last value of a function that rewrites byte by byte.
LEMMA RewrittenIs ==
    ASSUME NEW s \in Seq(Bytes)
    PROVE  \E f \in [0 .. Len(s) -> Rewritings] :
              /\ f[0] = Nothing
              /\ \A n \in 1 .. Len(s) : f[n] = RewriteByte(f[n - 1], s[n])
              /\ Rewritten(s) = f[Len(s)]
  <1> DEFINE L == Len(s)
             I == 0..L
             body(f) == [n \in 0 .. Len(s) |->
                            IF n = 0 THEN Nothing
                            ELSE RewriteByte(f[n - 1], s[n])]
             after == CHOOSE f : f = body(f)
             B == [a \in I \X [I -> Rewritings] |->
                      IF a[1] = 0 THEN Nothing
                      ELSE RewriteByte(a[2][a[1] - 1], s[a[1]])]
             m == [n \in I |-> n]
  <1>1. Rewritten(s) = after[Len(s)]
    BY DEF Rewritten
  <1>2. L \in Nat /\ \A n \in 1..L : s[n] \in Symbols
    BY DEF Symbols
  <1>3. Nothing \in Rewritings
    BY EmptySeq DEF Nothing, Rewritings, Holds
  <1>4. ASSUME NEW n \in I, NEW f \in [I -> Rewritings]
        PROVE  /\ B[<<n, f>>] = IF n = 0 THEN Nothing
                                ELSE RewriteByte(f[n - 1], s[n])
               /\ B[<<n, f>>] \in Rewritings
    <2>1. B[<<n, f>>] = IF n = 0 THEN Nothing ELSE RewriteByte(f[n - 1], s[n])
      OBVIOUS
    <2>2. CASE n # 0
      <3>1. n - 1 \in I /\ n \in 1..L
        BY <1>2, <2>2
      <3>2. f[n - 1] \in Rewritings
        BY <3>1
      <3> QED
        BY <1>2, <2>1, <2>2, <3>1, <3>2, ByteType
    <2> QED
      BY <1>3, <2>1, <2>2
  <1>5. B \in [I \X [I -> Rewritings] -> Rewritings]
    <2>1. \A a \in I \X [I -> Rewritings] :
             a[1] \in I /\ a[2] \in [I -> Rewritings] /\ a = <<a[1], a[2]>>
      OBVIOUS
    <2> QED
      BY <1>4, <2>1
  <1>6. m \in [I -> 0..L] /\ \A n \in I : m[n] = n
    OBVIOUS
  <1>7. ASSUME NEW n \in I, NEW f \in [I -> Rewritings],
               NEW g \in [I -> Rewritings],
               \A j \in I : m[j] < m[n] => f[j] = g[j]
        PROVE  B[<<n, f>>] = B[<<n, g>>]
    <2>1. CASE n # 0
      <3>1. n - 1 \in I /\ n - 1 < n
        BY <1>2, <2>1
      <3> QED
        BY <1>4, <1>6, <1>7, <3>1
    <2> QED
      BY <1>4, <2>1
  <1> HIDE DEF m
  <1>8. \E f \in [I -> Rewritings] : \A n \in I : f[n] = B[<<n, f>>]
    <2>1. \A n \in I : \A f, g \in [I -> Rewritings] :
             (\A j \in I : m[j] < m[n] => f[j] = g[j]) =>
                 B[<<n, f>>] = B[<<n, g>>]
      BY <1>7
    <2>2. L \in Nat /\ Rewritings # {} /\ m \in [I -> 0..L]
      BY <1>2, <1>3, <1>6
    <2>3. Descends(I, Rewritings, L, m, B)
      BY <1>5, <2>1, <2>2 DEF Descends
    <2> HIDE DEF B, I, L
    <2> QED
      BY <2>3, RecursiveFunction
  <1>9. \E f \in [I -> Rewritings] : f = body(f)
    <2>1. PICK f \in [I -> Rewritings] : \A n \in I : f[n] = B[<<n, f>>]
      BY <1>8
    <2>2. \A n \in I : f[n] = body(f)[n]
      BY <1>4, <2>1
    <2> QED
      BY <2>2
  <1>10. after = body(after)
    <2> HIDE DEF body
    <2> QED
      BY <1>9
  <1> HIDE DEF after
  <1>11. /\ after[0] = Nothing
         /\ \A n \in 1..L : after[n] = RewriteByte(after[n - 1], s[n])
         /\ after = [n \in I |-> after[n]]
    BY <1>2, <1>10
  <1>12. \A n \in 0..L : n \in {k \in I : after[k] \in Rewritings}
    <2> DEFINE T == {n \in I : after[n] \in Rewritings}
    <2>1. 0 \in T
      BY <1>2, <1>3, <1>11
    <2>2. ASSUME NEW k \in 0 .. L - 1, k \in T PROVE k + 1 \in T
      <3>1. k + 1 \in 1..L /\ k + 1 \in I /\ (k + 1) - 1 = k
        BY <1>2
      <3>2. after[k + 1] = RewriteByte(after[k], s[k + 1])
        BY <1>11, <3>1
      <3> QED
        BY <1>2, <2>2, <3>1, <3>2, ByteType
    <2> HIDE DEF T
    <2> QED
      BY <1>2, <2>1, <2>2, UpTo DEF T
  <1>13. after \in [I -> Rewritings]
    BY <1>11, <1>12
  <1> QED
    BY <1>1, <1>11, <1>13

\* What Emit gives.
LEMMA EmitIs ==
    ASSUME NEW x \in Seq(Symbols), NEW r \in Rewritings
    PROVE  /\ Emit(x, r) = [out |-> x \o r.out, hold |-> r.hold]
           /\ Emit(x, r) \in Rewritings
  <1>1. r.out \in Seq(Symbols) /\ r.hold \in Holds
        /\ r = [out |-> r.out, hold |-> r.hold]
    BY DEF Rewritings
  <1>2. x \o r.out \in Seq(Symbols)
    BY <1>1, ConcatProperties
  <1>3. Emit(x, r) = [out |-> x \o r.out, hold |-> r.hold]
    <2>1. Emit(x, r) \in [out : Seq(Symbols), hold : Holds]
      BY <1>1, <1>2 DEF Emit, Rewritings
    <2>2. Emit(x, r).out = x \o r.out /\ Emit(x, r).hold = r.hold
      BY DEF Emit, Rewritings
    <2> QED
      BY <2>1, <2>2
  <1> QED
    BY <1>1, <1>2, <1>3 DEF Rewritings

\* The cases of the scan, one by one, as bytes of a sequence of symbols.
LEMMA ScanCases ==
    ASSUME NEW in \in Seq(Symbols), NEW i \in 1 .. Len(in) + 1, NEW f
    PROVE  /\ i > Len(in) => ScanFrom(in, f, i) = Nothing
           /\ i <= Len(in) /\ in[i] # "ESC" =>
                 ScanFrom(in, f, i) = Emit(<<in[i]>>, f[i + 1])
           /\ i = Len(in) /\ in[i] = "ESC" =>
                 ScanFrom(in, f, i) = [out |-> <<>>, hold |-> <<"ESC">>]
           /\ i < Len(in) /\ in[i] = "ESC" /\ in[i + 1] # "[" =>
                 ScanFrom(in, f, i) = Emit(<<"ESC", in[i + 1]>>, f[i + 2])
           /\ i + 1 = Len(in) /\ in[i] = "ESC" /\ in[i + 1] = "[" =>
                 ScanFrom(in, f, i) = [out |-> <<>>, hold |-> <<"ESC", "[">>]
           /\ i + 1 < Len(in) /\ in[i] = "ESC" /\ in[i + 1] = "["
              /\ in[i + 2] = "u" =>
                 ScanFrom(in, f, i) = Emit(<<"ESC", "8">>, f[i + 3])
           /\ i + 1 < Len(in) /\ in[i] = "ESC" /\ in[i + 1] = "["
              /\ in[i + 2] # "u" =>
                 ScanFrom(in, f, i) =
                     Emit(<<"ESC", "[", in[i + 2]>>, f[i + 3])
  <1> DEFINE L == Len(in)
             v == ScanFrom(in, f, i)
  <1>1. L \in Nat /\ i \in 1 .. L + 1
    OBVIOUS
  <1>2. i > L => v = Nothing
    BY <1>1 DEF ScanFrom, Nothing
  <1>3. i <= L /\ in[i] # "ESC" => v = Emit(<<in[i]>>, f[i + 1])
    BY <1>1 DEF ScanFrom, Nothing
  <1>4. i = L /\ in[i] = "ESC" => v = [out |-> <<>>, hold |-> <<"ESC">>]
    BY <1>1 DEF ScanFrom, Nothing
  <1>5. i < L /\ in[i] = "ESC" /\ in[i + 1] # "[" =>
           v = Emit(<<"ESC", in[i + 1]>>, f[i + 2])
    BY <1>1 DEF ScanFrom, Nothing
  <1>6. i + 1 = L /\ in[i] = "ESC" /\ in[i + 1] = "[" =>
           v = [out |-> <<>>, hold |-> <<"ESC", "[">>]
    BY <1>1 DEF ScanFrom, Nothing
  <1>7. ASSUME i + 1 < L, in[i] = "ESC", in[i + 1] = "["
        PROVE  v = IF in[i + 2] = "u" THEN Emit(<<"ESC", "8">>, f[i + 3])
                   ELSE Emit(<<"ESC", "[", in[i + 2]>>, f[i + 3])
    <2>1. v = IF in[i + 2] = "u" THEN Emit(<<"ESC", "8">>, f[i + 3])
              ELSE Emit(SubSeq(in, i, i + 2), f[i + 3])
      BY <1>1, <1>7 DEF ScanFrom, Nothing
    <2>2. SubSeq(in, i, i + 2) = <<"ESC", "[", in[i + 2]>>
      <3> DEFINE x == SubSeq(in, i, i + 2)
                 y == <<"ESC", "[", in[i + 2]>>
                 e == i + 2
      <3>1. /\ e \in Int /\ i <= e /\ e - i + 1 = 3
            /\ \A j \in i .. e : in[j] \in Symbols
        BY <1>1, <1>7
      <3>2. y \in Seq(Symbols) /\ Len(y) = 3
            /\ y[1] = "ESC" /\ y[2] = "[" /\ y[3] = in[i + 2]
        BY <1>1, <1>7 DEF Symbols
      <3> HIDE DEF e, y
      <3>3. /\ SubSeq(in, i, e) \in Seq(Symbols)
            /\ Len(SubSeq(in, i, e)) = IF i <= e THEN e - i + 1 ELSE 0
            /\ \A j \in 1 .. e - i + 1 : SubSeq(in, i, e)[j] = in[i + j - 1]
        BY <1>1, <3>1, SubSeqProperties
      <3>4. x \in Seq(Symbols) /\ Len(x) = 3
            /\ \A j \in 1..3 : x[j] = in[i + j - 1]
        BY <3>1, <3>3 DEF e
      <3> HIDE DEF x
      <3>5. /\ in[i + 1 - 1] = "ESC" /\ in[i + 2 - 1] = "["
            /\ in[i + 3 - 1] = in[i + 2]
        BY <1>1, <1>7
      <3>6. \A j \in 1..3 : x[j] = y[j]
        <4>1. x[1] = y[1] /\ x[2] = y[2] /\ x[3] = y[3]
          BY <3>2, <3>4, <3>5
        <4>2. \A j \in 1..3 : j = 1 \/ j = 2 \/ j = 3
          OBVIOUS
        <4> QED
          BY <4>1, <4>2
      <3>7. x = y
        BY <3>2, <3>4, <3>6, SeqEqual
      <3> QED
        BY <3>7 DEF x, y
    <2> QED
      BY <2>1, <2>2
  <1> HIDE DEF v
  <1> QED
    BY <1>2, <1>3, <1>4, <1>5, <1>6, <1>7 DEF v

\* What is made of the bytes from i on depends on places after i only.
LEMMA ScanFromLater ==
    ASSUME NEW in \in Seq(Symbols), NEW i \in 1 .. Len(in) + 1, NEW f,
           \A j \in 1 .. Len(in) + 1 : j > i => f[j] \in Rewritings
    PROVE  /\ ScanFrom(in, f, i) \in Rewritings
           /\ \A g : (\A j \in 1 .. Len(in) + 1 : j > i => f[j] = g[j]) =>
                        ScanFrom(in, f, i) = ScanFrom(in, g, i)
  <1> DEFINE L == Len(in)
             v == ScanFrom(in, f, i)
  <1>1. L \in Nat /\ i \in 1 .. L + 1 /\ \A j \in 1..L : in[j] \in Symbols
    OBVIOUS
  <1>2. CASE i > L
    <2>1. Nothing \in Rewritings
      BY EmptySeq DEF Nothing, Rewritings, Holds
    <2> QED
      BY <1>2, <2>1, ScanCases
  <1>3. CASE i <= L /\ in[i] # "ESC"
    <2>1. i + 1 \in 1 .. L + 1 /\ i + 1 > i
      BY <1>1, <1>3
    <2>2. <<in[i]>> \in Seq(Symbols)
      BY <1>1, <1>3
    <2>3. Emit(<<in[i]>>, f[i + 1]) \in Rewritings
      BY <2>1, <2>2, EmitIs
    <2> QED
      BY <1>3, <2>1, <2>3, ScanCases
  <1>4. CASE i = L /\ in[i] = "ESC"
    <2>1. [out |-> <<>>, hold |-> <<"ESC">>] \in Rewritings
      BY EmptySeq DEF Rewritings, Holds
    <2> QED
      BY <1>4, <2>1, ScanCases
  <1>5. CASE i < L /\ in[i] = "ESC" /\ in[i + 1] # "["
    <2>1. i + 2 \in 1 .. L + 1 /\ i + 2 > i /\ i + 1 \in 1..L
      BY <1>1, <1>5
    <2>2. <<"ESC", in[i + 1]>> \in Seq(Symbols)
      BY <1>1, <2>1 DEF Symbols
    <2>3. Emit(<<"ESC", in[i + 1]>>, f[i + 2]) \in Rewritings
      BY <2>1, <2>2, EmitIs
    <2> QED
      BY <1>5, <2>1, <2>3, ScanCases
  <1>6. CASE i + 1 = L /\ in[i] = "ESC" /\ in[i + 1] = "["
    <2>1. [out |-> <<>>, hold |-> <<"ESC", "[">>] \in Rewritings
      BY EmptySeq DEF Rewritings, Holds
    <2> QED
      BY <1>6, <2>1, ScanCases
  <1>7. CASE i + 1 < L /\ in[i] = "ESC" /\ in[i + 1] = "["
    <2>1. i + 3 \in 1 .. L + 1 /\ i + 3 > i /\ i + 2 \in 1..L
      BY <1>1, <1>7
    <2>2. /\ <<"ESC", "8">> \in Seq(Symbols)
          /\ <<"ESC", "[", in[i + 2]>> \in Seq(Symbols)
      BY <1>1, <2>1 DEF Symbols
    <2>3. /\ Emit(<<"ESC", "8">>, f[i + 3]) \in Rewritings
          /\ Emit(<<"ESC", "[", in[i + 2]>>, f[i + 3]) \in Rewritings
      BY <2>1, <2>2, EmitIs
    <2>4. CASE in[i + 2] = "u"
      BY ZenonT(30), <1>7, <2>1, <2>3, <2>4, ScanCases
    <2>5. CASE in[i + 2] # "u"
      BY ZenonT(30), <1>7, <2>1, <2>3, <2>5, ScanCases
    <2> QED
      BY <2>4, <2>5
  <1>8. \/ i > L
        \/ i <= L /\ in[i] # "ESC"
        \/ i = L /\ in[i] = "ESC"
        \/ i < L /\ in[i] = "ESC" /\ in[i + 1] # "["
        \/ i + 1 = L /\ in[i] = "ESC" /\ in[i + 1] = "["
        \/ i + 1 < L /\ in[i] = "ESC" /\ in[i + 1] = "["
    BY <1>1
  <1> QED
    BY <1>2, <1>3, <1>4, <1>5, <1>6, <1>7, <1>8

\* Scan(in) is the first value of a function that satisfies its recursion.
LEMMA ScanIs ==
    ASSUME NEW in \in Seq(Symbols)
    PROVE  \E f \in [1 .. Len(in) + 1 -> Rewritings] :
              /\ \A i \in 1 .. Len(in) + 1 : f[i] = ScanFrom(in, f, i)
              /\ Scan(in) = f[1]
  <1> DEFINE L == Len(in)
             I == 1 .. Len(in) + 1
             body(f) == [i \in 1 .. Len(in) + 1 |-> ScanFrom(in, f, i)]
             scan == CHOOSE f : f = body(f)
             B == [a \in I \X [I -> Rewritings] |-> ScanFrom(in, a[2], a[1])]
             m == [i \in I |-> L + 1 - i]
  <1>1. Scan(in) = scan[1]
    BY DEF Scan
  <1>2. L \in Nat /\ 1 \in I
    OBVIOUS
  <1>3. Nothing \in Rewritings
    BY EmptySeq DEF Nothing, Rewritings, Holds
  <1>4. ASSUME NEW i \in I, NEW f \in [I -> Rewritings]
        PROVE  B[<<i, f>>] = ScanFrom(in, f, i) /\ B[<<i, f>>] \in Rewritings
    <2>1. B[<<i, f>>] = ScanFrom(in, f, i)
      OBVIOUS
    <2>2. ScanFrom(in, f, i) \in Rewritings
      BY ScanFromLater
    <2> QED
      BY <2>1, <2>2
  <1>5. B \in [I \X [I -> Rewritings] -> Rewritings]
    <2>1. \A a \in I \X [I -> Rewritings] :
             a[1] \in I /\ a[2] \in [I -> Rewritings] /\ a = <<a[1], a[2]>>
      OBVIOUS
    <2> QED
      BY <1>4, <2>1
  <1>6. m \in [I -> 0..L] /\ \A i \in I : m[i] = L + 1 - i
    BY <1>2
  <1>7. ASSUME NEW i \in I, NEW f \in [I -> Rewritings],
               NEW g \in [I -> Rewritings],
               \A j \in I : m[j] < m[i] => f[j] = g[j]
        PROVE  B[<<i, f>>] = B[<<i, g>>]
    <2>1. \A j \in I : j > i => m[j] < m[i]
      BY <1>2, <1>6
    <2>2. ScanFrom(in, f, i) = ScanFrom(in, g, i)
      <3>1. \A j \in I : j > i => f[j] = g[j] /\ f[j] \in Rewritings
        BY <1>7, <2>1
      <3> QED
        BY <3>1, ScanFromLater
    <2> QED
      BY <1>4, <2>2
  <1> HIDE DEF m
  <1>8. \E f \in [I -> Rewritings] : \A i \in I : f[i] = B[<<i, f>>]
    <2>1. \A i \in I : \A f, g \in [I -> Rewritings] :
             (\A j \in I : m[j] < m[i] => f[j] = g[j]) =>
                 B[<<i, f>>] = B[<<i, g>>]
      BY <1>7
    <2>2. L \in Nat /\ Rewritings # {} /\ m \in [I -> 0..L]
      BY <1>2, <1>3, <1>6
    <2>3. Descends(I, Rewritings, L, m, B)
      BY <1>5, <2>1, <2>2 DEF Descends
    <2> HIDE DEF B, I, L
    <2> QED
      BY <2>3, RecursiveFunction
  <1>9. \E f \in [I -> Rewritings] : f = body(f)
    <2>1. PICK f \in [I -> Rewritings] : \A i \in I : f[i] = B[<<i, f>>]
      BY <1>8
    <2>2. \A i \in I : f[i] = body(f)[i]
      BY <1>4, <2>1
    <2> QED
      BY <2>2
  <1>10. scan = body(scan)
    <2> HIDE DEF body
    <2> QED
      BY <1>9
  <1> HIDE DEF scan
  <1>11. /\ \A i \in I : scan[i] = ScanFrom(in, scan, i)
         /\ scan = [i \in I |-> scan[i]]
    BY <1>10
  <1>12. ASSUME NEW i \in I PROVE scan[i] \in Rewritings
    <2> DEFINE T == {k \in 0..L : \A j \in I : L + 1 - j <= k =>
                                                  scan[j] \in Rewritings}
    <2>1. 0 \in T
      <3>1. ASSUME NEW j \in I, L + 1 - j <= 0 PROVE scan[j] \in Rewritings
        <4>1. j = L + 1
          BY <1>2, <3>1
        <4>2. \A e \in I : ~(e > j)
          BY <1>2, <4>1
        <4> QED
          BY <1>11, <4>2, ScanFromLater
      <3> QED
        BY <1>2, <3>1
    <2>2. ASSUME NEW k \in 0 .. L - 1, k \in T PROVE k + 1 \in T
      <3>1. ASSUME NEW j \in I, L + 1 - j <= k + 1
            PROVE  scan[j] \in Rewritings
        <4>1. ASSUME NEW e \in I, e > j PROVE scan[e] \in Rewritings
          <5>1. L + 1 - e <= k
            BY <1>2, <3>1, <4>1
          <5> QED
            BY <2>2, <5>1
        <4> QED
          BY <1>11, <4>1, ScanFromLater
      <3> QED
        BY <1>2, <3>1
    <2>3. L \in T
      <3> HIDE DEF T
      <3> QED
        BY <1>2, <2>1, <2>2, UpTo
    <2>4. L + 1 - i <= L
      BY <1>2
    <2> QED
      BY <2>3, <2>4
  <1>13. scan \in [I -> Rewritings]
    BY <1>11, <1>12
  <1> QED
    BY <1>1, <1>11, <1>13

\* A scan of `in' is what rewriting it byte by byte comes to, after anything
\* that left nothing kept: both go on from the end of one sequence to the end
\* of the next.
LEMMA ScanIsByteByByte ==
    ASSUME NEW in \in Seq(Symbols), NEW g \in [0 .. Len(in) -> Rewritings],
           g[0].hold = <<>>,
           \A n \in 1 .. Len(in) : g[n] = RewriteByte(g[n - 1], in[n])
    PROVE  /\ Scan(in) \in Rewritings
           /\ g[Len(in)] = [out |-> g[0].out \o Scan(in).out,
                            hold |-> Scan(in).hold]
  <1> DEFINE L == Len(in)
             I == 1 .. Len(in) + 1
  <1>1. PICK f \in [I -> Rewritings] :
           (\A i \in I : f[i] = ScanFrom(in, f, i)) /\ Scan(in) = f[1]
    BY ScanIs
  <1>2. /\ L \in Nat /\ I = 1 .. L + 1 /\ g \in [0..L -> Rewritings]
        /\ \A n \in 1..L : in[n] \in Symbols /\ g[n] = RewriteByte(g[n - 1], in[n])
        /\ \A i \in I : i \in 1 .. Len(in) + 1
    OBVIOUS
  <1>3. \A r \in Rewritings : r.out \in Seq(Symbols) /\ r.hold \in Holds
    BY DEF Rewritings
  <1> DEFINE Ends(i) == g[i - 1].hold = <<>> =>
                           g[L] = [out |-> g[i - 1].out \o f[i].out,
                                   hold |-> f[i].hold]
  <1>6. L = Len(in)
    OBVIOUS
  <1> HIDE DEF L, I
  <1>4. ASSUME NEW i \in I, \A j \in I : j > i => Ends(j) PROVE Ends(i)
    <2> DEFINE o == g[i - 1].out
               b == in[i]
    <2>1. SUFFICES ASSUME g[i - 1].hold = <<>>
                   PROVE  g[L] = [out |-> o \o f[i].out, hold |-> f[i].hold]
      OBVIOUS
    <2>2. i - 1 \in 0..L /\ g[i - 1] \in Rewritings /\ o \in Seq(Symbols)
      <3>1. i - 1 \in 0..L
        BY <1>2
      <3>2. g[i - 1] \in Rewritings
        BY <1>2, <3>1
      <3> QED
        BY <1>3, <3>1, <3>2
    <2>6. i = L + 1 \/ i <= L
      BY <1>2
    \* What is emitted of a sequence that ends before the place j.
    <2>3. ASSUME NEW j \in I, j > i, NEW x \in Seq(Symbols),
                 g[j - 1] = [out |-> o \o x, hold |-> <<>>],
                 f[i] = Emit(x, f[j])
          PROVE  g[L] = [out |-> o \o f[i].out, hold |-> f[i].hold]
      <3>1. f[j] \in Rewritings /\ f[j].out \in Seq(Symbols)
        BY <1>3
      <3>2. f[i] = [out |-> x \o f[j].out, hold |-> f[j].hold]
        BY <2>3, <3>1, EmitIs
      <3>3. g[L] = [out |-> (o \o x) \o f[j].out, hold |-> f[j].hold]
        <4>1. Ends(j)
          BY <1>4, <2>3
        <4>2. g[j - 1].hold = <<>> /\ g[j - 1].out = o \o x
          BY <2>3
        <4> QED
          BY <4>1, <4>2
      <3>4. (o \o x) \o f[j].out = o \o (x \o f[j].out)
        <4> DEFINE y == f[j].out
        <4>1. o \in Seq(Symbols) /\ x \in Seq(Symbols) /\ y \in Seq(Symbols)
          BY <2>2, <2>3, <3>1
        <4> HIDE DEF o, y
        <4>2. \A u, v, w \in Seq(Symbols) : (u \o v) \o w = u \o (v \o w)
          BY ConcatAssociative
        <4>3. (o \o x) \o y = o \o (x \o y)
          BY <4>1, <4>2
        <4> QED
          BY <4>3 DEF y
      <3> QED
        BY <3>2, <3>3, <3>4
    <2> HIDE DEF Ends, o
    <2>4. CASE i = L + 1
      <3>1. f[i] = Nothing
        <4>1. i > Len(in) /\ i \in 1 .. Len(in) + 1
          BY <1>2, <1>6, <2>4
        <4> QED
          BY <1>1, <4>1, ScanCases
      <3>2. g[L] = [out |-> o, hold |-> <<>>]
        <4>1. i - 1 = L
          BY <1>2, <2>4
        <4>2. g[i - 1] = [out |-> o, hold |-> g[i - 1].hold]
          BY <2>2 DEF Rewritings, o
        <4> QED
          BY <2>1, <4>1, <4>2
      <3>3. o \o <<>> = o
        BY <2>2, ConcatEmptySeq
      <3> QED
        BY <3>1, <3>2, <3>3 DEF Nothing
    <2>5. CASE i <= L
      <3>1. /\ i \in 1..L /\ b \in Symbols
            /\ g[i] = RewriteByte(g[i - 1], b) /\ g[i] \in Rewritings
            /\ g[i - 1].out = o /\ i \in 1 .. Len(in) + 1 /\ i <= Len(in)
        BY <1>2, <1>6, <2>5 DEF o
      <3>2. CASE b # "ESC"
        <4>1. f[i] = Emit(<<b>>, f[i + 1])
          BY <1>1, <3>1, <3>2, ScanCases
        <4>2. g[i] = [out |-> o \o <<b>>, hold |-> <<>>]
          BY <2>1, <2>2, <3>1, <3>2, ByteByByte
        <4>3. i + 1 \in I /\ i + 1 > i /\ (i + 1) - 1 = i
          BY <1>2, <2>5
        <4>4. <<b>> \in Seq(Symbols)
          BY <3>1
        <4> QED
          BY <2>3, <4>1, <4>2, <4>3, <4>4
      <3>3. CASE b = "ESC"
        <4>1. g[i] = [out |-> o, hold |-> <<"ESC">>]
          BY <2>1, <2>2, <3>1, <3>3, ByteByByte
        <4>2. CASE i = L
          <5>1. f[i] = [out |-> <<>>, hold |-> <<"ESC">>]
            BY <1>1, <1>6, <3>1, <3>3, <4>2, ScanCases
          <5>2. o \o <<>> = o
            BY <2>2, ConcatEmptySeq
          <5> QED
            BY <4>1, <4>2, <5>1, <5>2
        <4>3. CASE i < L
          <5> DEFINE c == in[i + 1]
          <5>1. /\ i + 1 \in 1..L /\ c \in Symbols /\ (i + 1) - 1 = i
                /\ i + 2 \in I /\ i + 2 > i /\ (i + 2) - 1 = i + 1
            BY <1>2, <4>3
          <5>2. g[i + 1] = RewriteByte(g[i], c) /\ g[i + 1] \in Rewritings
            BY <1>2, <5>1
          <5>3. g[i].hold = <<"ESC">> /\ g[i].out = o
            BY <4>1
          <5>4. CASE c # "["
            <6>1. f[i] = Emit(<<"ESC", c>>, f[i + 2])
              BY <1>1, <1>6, <3>1, <3>3, <4>3, <5>4, ScanCases
            <6>2. g[i + 1] = [out |-> o \o <<"ESC", c>>, hold |-> <<>>]
              BY <3>1, <5>1, <5>2, <5>3, <5>4, ByteByByte
            <6>3. <<"ESC", c>> \in Seq(Symbols)
              BY <5>1 DEF Symbols
            <6> QED
              BY <2>3, <5>1, <6>1, <6>2, <6>3
          <5>5. CASE c = "["
            <6>1. g[i + 1] = [out |-> o, hold |-> <<"ESC", "[">>]
              BY <3>1, <5>1, <5>2, <5>3, <5>5, ByteByByte
            <6>2. CASE i + 1 = L
              <7>1. f[i] = [out |-> <<>>, hold |-> <<"ESC", "[">>]
                BY <1>1, <1>6, <3>1, <3>3, <5>5, <6>2, ScanCases
              <7>2. o \o <<>> = o
                BY <2>2, ConcatEmptySeq
              <7> QED
                BY <6>1, <6>2, <7>1, <7>2
            <6>3. CASE i + 1 < L
              <7> DEFINE d == in[i + 2]
                         x == IF d = "u" THEN <<"ESC", "8">>
                              ELSE <<"ESC", "[", d>>
              <7>1. /\ i + 2 \in 1..L /\ d \in Symbols /\ (i + 2) - 1 = i + 1
                    /\ i + 3 \in I /\ i + 3 > i /\ (i + 3) - 1 = i + 2
                BY <1>2, <6>3
              <7>2. g[i + 2] = RewriteByte(g[i + 1], d)
                BY <1>2, <7>1
              <7>3. g[i + 1].hold = <<"ESC", "[">> /\ g[i + 1].out = o
                BY <6>1
              <7>4. g[i + 2] = [out |-> o \o x, hold |-> <<>>]
                BY <5>2, <7>1, <7>2, <7>3, ByteByByte
              <7>5. f[i] = Emit(x, f[i + 3])
                <8>1. CASE d = "u"
                  BY <1>1, <1>6, <3>1, <3>3, <5>5, <6>3, <8>1, ScanCases
                <8>2. CASE d # "u"
                  BY <1>1, <1>6, <3>1, <3>3, <5>5, <6>3, <8>2, ScanCases
                <8> QED
                  BY <8>1, <8>2
              <7>6. x \in Seq(Symbols)
                <8>1. <<"ESC", "8">> \in Seq(Symbols)
                  BY DEF Symbols
                <8>2. <<"ESC", "[", d>> \in Seq(Symbols)
                  BY <7>1 DEF Symbols
                <8> QED
                  BY <8>1, <8>2
              <7> HIDE DEF x
              <7> QED
                BY <2>3, <7>1, <7>4, <7>5, <7>6
            <6>4. i + 1 = L \/ i + 1 < L
              BY <1>2, <5>1
            <6> QED
              BY <6>2, <6>3, <6>4
          <5> QED
            BY <5>4, <5>5
        <4>4. i = L \/ i < L
          BY <1>2, <2>5
        <4> QED
          BY <4>2, <4>3, <4>4
      <3> QED
        BY <3>2, <3>3
    <2> QED
      BY <2>4, <2>5, <2>6
  <1>5. Ends(1)
    <2> DEFINE T == {k \in 0..L : \A j \in I : L + 1 - j <= k => Ends(j)}
    <2> HIDE DEF Ends
    <2>1. 0 \in T
      <3>1. ASSUME NEW j \in I, L + 1 - j <= 0 PROVE Ends(j)
        <4>1. \A e \in I : ~(e > j)
          BY <1>2, <3>1
        <4> QED
          BY <1>4, <4>1
      <3> QED
        BY <1>2, <3>1
    <2>2. ASSUME NEW k \in 0 .. L - 1, k \in T PROVE k + 1 \in T
      <3>1. ASSUME NEW j \in I, L + 1 - j <= k + 1 PROVE Ends(j)
        <4>1. ASSUME NEW e \in I, e > j PROVE Ends(e)
          <5>1. L + 1 - e <= k
            BY <1>2, <3>1, <4>1
          <5> QED
            BY <2>2, <5>1
        <4> QED
          BY <1>4, <4>1
      <3> QED
        BY <1>2, <3>1
    <2>3. L \in T
      <3>1. L \in Nat /\ L \in 0..L
        BY <1>2
      <3> HIDE DEF T
      <3> QED
        BY <2>1, <2>2, <3>1, UpTo
    <2>4. 1 \in I /\ L + 1 - 1 <= L
      BY <1>2
    <2> QED
      BY <2>3, <2>4
  <1>7. 1 - 1 = 0 /\ 1 \in I
    BY <1>2
  <1>8. g[L] = [out |-> g[0].out \o f[1].out, hold |-> f[1].hold]
    BY <1>5, <1>7
  <1> QED
    BY <1>1, <1>6, <1>7, <1>8

\* The rewriting of a longer stream goes on where that of the shorter ended:
\* a chunk is translated as if the stream had been rewritten all at once.
LEMMA RewrittenChunk ==
    ASSUME NEW s \in Seq(Bytes), NEW p \in Seq(Bytes)
    PROVE  LET r == Rewritten(s)
               t == Translate(r.hold, p)
           IN /\ r \in Rewritings /\ t \in Rewritings
              /\ Rewritten(s \o p) = [out |-> r.out \o t.out, hold |-> t.hold]
  <1> DEFINE q == s \o p
             a == Len(s)
             c == Len(p)
  <1>1. /\ q \in Seq(Bytes) /\ Len(q) = a + c
        /\ \A i \in 1 .. a + c : q[i] = IF i <= a THEN s[i] ELSE p[i - a]
    BY ConcatProperties
  <1>2. PICK f \in [0..a -> Rewritings] :
           /\ f[0] = Nothing
           /\ \A n \in 1..a : f[n] = RewriteByte(f[n - 1], s[n])
           /\ Rewritten(s) = f[a]
    BY RewrittenIs
  <1>3. PICK e \in [0 .. Len(q) -> Rewritings] :
           /\ e[0] = Nothing
           /\ \A n \in 1 .. Len(q) : e[n] = RewriteByte(e[n - 1], q[n])
           /\ Rewritten(q) = e[Len(q)]
    BY <1>1, RewrittenIs
  <1>4. a \in Nat /\ c \in Nat
    OBVIOUS
  <1>5. p \in Seq(Symbols) /\ \A i \in 1..c : p[i] \in Symbols
    BY SeqMonotonic DEF Symbols
  <1> HIDE DEF q, a, c
  <1>6. f[a] = e[a]
    <2> DEFINE T == {n \in 0..a : f[n] = e[n]}
    <2>1. 0 \in T
      BY <1>2, <1>3, <1>4
    <2>2. ASSUME NEW k \in 0 .. a - 1, k \in T PROVE k + 1 \in T
      <3>1. /\ k + 1 \in 1..a /\ k + 1 \in 1 .. a + c /\ k + 1 \in 0..a
            /\ k + 1 <= a /\ (k + 1) - 1 = k
        BY <1>4
      <3>2. q[k + 1] = s[k + 1]
        BY <1>1, <3>1
      <3>3. f[k + 1] = RewriteByte(f[k], s[k + 1])
        BY <1>2, <3>1
      <3>4. e[k + 1] = RewriteByte(e[k], q[k + 1])
        BY <1>1, <1>3, <3>1
      <3> QED
        BY <2>2, <3>1, <3>2, <3>3, <3>4
    <2>3. a \in T
      <3>1. a \in 0..a
        BY <1>4
      <3> HIDE DEF T
      <3> QED
        BY <1>4, <2>1, <2>2, <3>1, UpTo
    <2> QED
      BY <2>3
  <1> DEFINE r == e[a]
             h == r.hold
             o == r.out
             H == Len(h)
             in == h \o p
             L == Len(in)
  <1>7. r \in Rewritings /\ o \in Seq(Symbols) /\ h \in Holds
        /\ r = [out |-> o, hold |-> h]
    <2>1. a \in 0 .. Len(q)
      BY <1>1, <1>4
    <2>2. r \in Rewritings
      BY <1>3, <2>1
    <2> QED
      BY <2>2 DEF Rewritings
  <1>8. Rewritten(s) = r
    BY <1>2, <1>6
  <1> HIDE DEF r
  <1> HIDE DEF h, o
  <1>9. h \in Seq(Symbols) /\ H \in 0..2
        /\ \/ H = 0 /\ h = <<>>
           \/ H = 1 /\ h = <<"ESC">> /\ h[1] = "ESC"
           \/ H = 2 /\ h = <<"ESC", "[">> /\ h[1] = "ESC" /\ h[2] = "["
    <2>1. CASE h = <<>>
      BY <2>1, EmptySeq
    <2>2. CASE h = <<"ESC">>
      BY <2>2 DEF Symbols
    <2>3. CASE h = <<"ESC", "[">>
      BY <2>3 DEF Symbols
    <2> QED
      BY <1>7, <2>1, <2>2, <2>3 DEF Holds
  <1>10. /\ in \in Seq(Symbols) /\ L = H + c
         /\ \A i \in 1 .. H + c : in[i] = IF i <= H THEN h[i] ELSE p[i - H]
    <2>1. /\ in \in Seq(Symbols) /\ Len(in) = Len(h) + Len(p)
          /\ \A i \in 1 .. Len(h) + Len(p) :
                in[i] = IF i <= Len(h) THEN h[i] ELSE p[i - Len(h)]
      BY <1>5, <1>9, ConcatProperties
    <2> QED
      BY <2>1 DEF c
  <1> HIDE DEF H, in, L
  <1> DEFINE begun(k) == [out |-> o,
                          hold |-> IF k = 0 THEN <<>> ELSE <<"ESC">>]
             g == [k \in 0..L |-> IF k >= H THEN e[a + k - H] ELSE begun(k)]
  <1>11. /\ \A k \in 0..L : k >= H => g[k] = e[a + k - H]
         /\ \A k \in 0..L : k < H => g[k] = begun(k)
    BY <1>4, <1>9, <1>10
  <1>12. \A k : begun(k) \in Rewritings
    BY <1>7 DEF Rewritings, Holds
  <1>13. g \in [0..L -> Rewritings]
    <2>1. ASSUME NEW k \in 0..L, k >= H PROVE e[a + k - H] \in Rewritings
      <3>1. a + k - H \in 0 .. Len(q)
        BY <1>1, <1>4, <1>9, <1>10, <2>1
      <3> QED
        BY <1>3, <3>1
    <2> HIDE DEF begun
    <2> QED
      BY <1>12, <2>1
  <1> HIDE DEF g
  <1>14. g[0] = [out |-> o, hold |-> <<>>]
    <2>0. 0 \in 0..L
      BY <1>4, <1>9, <1>10
    <2>1. CASE H = 0
      <3>1. g[0] = e[a + 0 - H]
        BY <1>11, <2>0, <2>1
      <3>2. a + 0 - H = a
        BY <1>4, <2>1
      <3> QED
        BY <1>7, <1>9, <2>1, <3>1, <3>2 DEF r
    <2>2. CASE H > 0
      BY <1>11, <2>0, <2>2
    <2> QED
      BY <1>9, <2>1, <2>2
  <1>15. ASSUME NEW k \in 1..L PROVE g[k] = RewriteByte(g[k - 1], in[k])
    <2>1. k \in 1 .. H + c /\ k \in 0..L /\ k - 1 \in 0..L
      BY <1>4, <1>9, <1>10
    <2>2. CASE k > H
      <3> DEFINE n == a + k - H
      <3>1. n \in 1 .. Len(q) /\ n \in 1 .. a + c /\ ~(n <= a)
            /\ n - a = k - H /\ n - 1 = a + (k - 1) - H
            /\ k >= H /\ k - 1 >= H /\ ~(k <= H)
        BY <1>1, <1>4, <1>9, <2>1, <2>2
      <3>2. g[k] = e[n] /\ g[k - 1] = e[n - 1]
        <4>1. g[k] = e[n]
          BY <1>11, <2>1, <3>1
        <4>2. g[k - 1] = e[a + (k - 1) - H]
          BY <1>11, <2>1, <3>1
        <4> QED
          BY <3>1, <4>1, <4>2
      <3> HIDE DEF n
      <3>3. e[n] = RewriteByte(e[n - 1], q[n])
        BY <1>3, <3>1
      <3>4. q[n] = p[k - H] /\ in[k] = p[k - H]
        BY <1>1, <1>10, <2>1, <3>1
      <3> QED
        BY <3>2, <3>3, <3>4
    <2>3. CASE k <= H
      <3>1. in[k] = h[k]
        BY <1>10, <2>1, <2>3
      <3>2. CASE k = 1
        <4>1. in[k] = "ESC"
          BY <1>9, <2>3, <3>1, <3>2
        <4>2. RewriteByte(g[0], in[k]) = [out |-> o, hold |-> <<"ESC">>]
          <5>1. g[0] \in Rewritings /\ g[0].hold = <<>> /\ g[0].out = o
            BY <1>14, <1>7 DEF Rewritings, Holds
          <5> QED
            BY <4>1, <5>1, ByteByByte DEF Symbols
        <4>3. g[1] = [out |-> o, hold |-> <<"ESC">>]
          <5>1. CASE H = 1
            <6>1. g[1] = e[a + 1 - H] /\ a + 1 - H = a
              BY <1>4, <1>11, <2>1, <3>2, <5>1
            <6> QED
              BY <1>7, <1>9, <5>1, <6>1 DEF r
          <5>2. CASE H = 2
            BY <1>11, <2>1, <3>2, <5>2
          <5> QED
            BY <1>9, <2>3, <3>2, <5>1, <5>2
        <4> QED
          BY <3>2, <4>2, <4>3
      <3>3. CASE k = 2
        <4>1. H = 2 /\ in[k] = "["
          BY <1>9, <2>3, <3>1, <3>3
        <4>2. g[1] = [out |-> o, hold |-> <<"ESC">>]
          BY <1>11, <2>1, <3>3, <4>1
        <4>3. RewriteByte(g[1], in[k]) = [out |-> o, hold |-> <<"ESC", "[">>]
          <5>1. g[1] \in Rewritings /\ g[1].hold = <<"ESC">> /\ g[1].out = o
            BY <1>7, <4>2 DEF Rewritings, Holds
          <5> QED
            BY <4>1, <5>1, ByteByByte DEF Symbols
        <4>4. g[2] = e[a + 2 - H] /\ a + 2 - H = a
          BY <1>4, <1>11, <2>1, <3>3, <4>1
        <4>5. g[2] = r
          BY <4>4 DEF r
        <4>6. h = <<"ESC", "[">>
          BY <1>9, <4>1
        <4>7. g[2] = [out |-> o, hold |-> <<"ESC", "[">>]
          BY <1>7, <4>5, <4>6
        <4>8. g[2 - 1] = g[1]
          OBVIOUS
        <4> QED
          BY <3>3, <4>3, <4>7, <4>8
      <3> QED
        BY <1>9, <2>1, <2>3, <3>2, <3>3
    <2> QED
      BY <1>9, <2>1, <2>2, <2>3
  <1>16. /\ Scan(in) \in Rewritings
         /\ g[L] = [out |-> o \o Scan(in).out, hold |-> Scan(in).hold]
    <2>1. /\ in \in Seq(Symbols) /\ L = Len(in) /\ g[0].hold = <<>>
          /\ g[0].out = o
      BY <1>10, <1>14 DEF L
    <2> QED
      BY <1>13, <1>15, <2>1, ScanIsByteByByte
  <1>17. g[L] = Rewritten(q)
    <2>1. L \in 0..L /\ L >= H /\ a + L - H = Len(q)
      BY <1>1, <1>4, <1>9, <1>10
    <2> QED
      BY <1>3, <1>11, <2>1
  <1>18. Scan(in) = Translate(h, p)
    BY DEF Translate, in
  <1> QED
    BY <1>7, <1>8, <1>16, <1>17, <1>18 DEF q, h, o

\* Byte by byte is as in one read.
LEMMA RewrittenAtOnce ==
    ASSUME NEW s \in Seq(Bytes) PROVE Rewritten(s) = Translate(<<>>, s)
  <1> DEFINE e == <<>>
  <1>1. e \in Seq(Bytes) /\ Len(e) = 0 /\ e \o s = s
    BY EmptySeq, ConcatEmptySeq
  <1>2. PICK f \in [0 .. Len(e) -> Rewritings] :
           f[0] = Nothing /\ Rewritten(e) = f[Len(e)]
    BY <1>1, RewrittenIs
  <1>3. Rewritten(e).out = <<>> /\ Rewritten(e).hold = <<>>
    BY <1>1, <1>2 DEF Nothing
  <1> DEFINE t == Translate(<<>>, s)
  <1>4. t \in Rewritings
        /\ Rewritten(e \o s) = [out |-> <<>> \o t.out, hold |-> t.hold]
    BY <1>1, <1>3, RewrittenChunk
  <1> HIDE DEF t, e
  <1>5. <<>> \o t.out = t.out /\ t = [out |-> t.out, hold |-> t.hold]
    BY <1>4, ConcatEmptySeq DEF Rewritings
  <1> QED
    BY <1>1, <1>4, <1>5 DEF t

-----------------------------------------------------------------------------
(* The window of `ctl expect' *)

\* The pattern p is in s at the offset i.
IsAt(p, s, i) == SubSeq(s, i + 1, i + Len(p)) = p

\* The offsets at which p has room in s.
Places(p, s) == 0 .. Len(s) - Len(p)

\* IndexOf gives the first place of the pattern, or -1.
LEMMA IndexOfIs ==
    ASSUME NEW s \in Seq(Bytes), NEW p \in Seq(Bytes)
    PROVE  \/ /\ IndexOf(s, p) = -1
              /\ \A i \in Places(p, s) : ~IsAt(p, s, i)
           \/ /\ IndexOf(s, p) \in Places(p, s)
              /\ IsAt(p, s, IndexOf(s, p))
              /\ \A i \in Places(p, s) : i < IndexOf(s, p) => ~IsAt(p, s, i)
  <1> DEFINE at == {i \in 0 .. Len(s) - Len(p) :
                       SubSeq(s, i + 1, i + Len(p)) = p}
             least == CHOOSE i \in at : \A j \in at : i <= j
  <1>1. IndexOf(s, p) = IF at = {} THEN -1 ELSE least
    BY DEF IndexOf
  <1>2. \A i : i \in at <=> i \in Places(p, s) /\ IsAt(p, s, i)
    BY DEF Places, IsAt
  <1>3. at \in SUBSET Nat /\ \A i \in Places(p, s) : i \in Nat
    BY DEF Places
  <1> HIDE DEF at
  <1>4. CASE at = {}
    BY <1>1, <1>2, <1>4
  <1>5. CASE at # {}
    <2>1. \E i \in at : \A j \in at : i <= j
      BY <1>3, <1>5, LeastNumber
    <2>2. least \in at /\ \A j \in at : least <= j
      BY <2>1
    <2>3. IndexOf(s, p) = least
      BY <1>1, <1>5
    <2> HIDE DEF least
    <2>4. \A i \in Places(p, s) : i < least => ~IsAt(p, s, i)
      <3>1. ASSUME NEW i \in Places(p, s), i < least, IsAt(p, s, i) PROVE FALSE
        <4>1. i \in at
          BY <1>2, <3>1
        <4>2. least <= i /\ least \in Nat /\ i \in Nat
          BY <1>3, <2>2, <4>1
        <4> QED
          BY <3>1, <4>2
      <3> QED
        BY <3>1
    <2> QED
      BY <1>2, <2>2, <2>3, <2>4
  <1> QED
    BY <1>4, <1>5

\* The patterns of this call.
GivenKinds == {k \in {"regex", "substr"} : Pattern(k) # NoPattern}

LEMMA GivenPattern ==
    ASSUME opt \in Options, NEW k \in GivenKinds
    PROVE  Pattern(k) \in Seq(Bytes) /\ Len(Pattern(k)) \in Nat
  <1>1. /\ opt.regex \in Seq(Bytes) \cup {NoPattern}
        /\ opt.substr \in Seq(Bytes) \cup {NoPattern}
    BY OptionsAssumption
  <1>2. Pattern(k) \in Seq(Bytes)
    BY <1>1 DEF GivenKinds, Pattern
  <1> QED
    BY <1>2

\* FirstMatch gives the first place of any of the patterns; a negative start
\* stands for none.
LEMMA FirstMatchIs ==
    ASSUME opt \in Options, NEW s \in Seq(Bytes)
    PROVE  LET m == FirstMatch(s)
           IN /\ m.start \in Int
              /\ m.start < 0 =>
                    \A k \in GivenKinds : \A i \in Places(Pattern(k), s) :
                        ~IsAt(Pattern(k), s, i)
              /\ m.start >= 0 =>
                    /\ m.kind \in GivenKinds
                    /\ m.end = m.start + Len(Pattern(m.kind))
                    /\ m.start \in Places(Pattern(m.kind), s)
                    /\ IsAt(Pattern(m.kind), s, m.start)
                    /\ \A k \in GivenKinds : \A i \in Places(Pattern(k), s) :
                          i < m.start => ~IsAt(Pattern(k), s, i)
  <1> DEFINE m == FirstMatch(s)
             re == IF opt.regex = NoPattern THEN -1 ELSE IndexOf(s, opt.regex)
             sub == IF opt.substr = NoPattern THEN -1
                    ELSE IndexOf(s, opt.substr)
  <1>1. m = IF sub >= 0 /\ (re < 0 \/ sub < re)
            THEN [kind |-> "substr", start |-> sub,
                  end |-> sub + Len(opt.substr)]
            ELSE [kind |-> "regex", start |-> re,
                  end |-> IF re < 0 THEN re ELSE re + Len(opt.regex)]
    BY DEF FirstMatch
  <1>2. \A k \in {"regex", "substr"} : k \in GivenKinds <=> Pattern(k) # NoPattern
    BY DEF GivenKinds
  <1>3. /\ \A k \in GivenKinds : k = "regex" \/ k = "substr"
        /\ Pattern("regex") = opt.regex /\ Pattern("substr") = opt.substr
    BY DEF GivenKinds, Pattern
  <1>4. \A k \in GivenKinds : /\ Pattern(k) \in Seq(Bytes)
                              /\ Len(Pattern(k)) \in Nat
    BY GivenPattern
  <1>5. \A k \in GivenKinds : Places(Pattern(k), s) \subseteq Nat
    BY DEF Places
  <1>6. "regex" \in GivenKinds =>
           \/ re = -1 /\ \A i \in Places(Pattern("regex"), s) :
                            ~IsAt(Pattern("regex"), s, i)
           \/ /\ re \in Places(Pattern("regex"), s)
              /\ IsAt(Pattern("regex"), s, re)
              /\ \A i \in Places(Pattern("regex"), s) :
                    i < re => ~IsAt(Pattern("regex"), s, i)
    BY <1>2, <1>3, <1>4, IndexOfIs
  <1>7. "substr" \in GivenKinds =>
           \/ sub = -1 /\ \A i \in Places(Pattern("substr"), s) :
                             ~IsAt(Pattern("substr"), s, i)
           \/ /\ sub \in Places(Pattern("substr"), s)
              /\ IsAt(Pattern("substr"), s, sub)
              /\ \A i \in Places(Pattern("substr"), s) :
                    i < sub => ~IsAt(Pattern("substr"), s, i)
    BY <1>2, <1>3, <1>4, IndexOfIs
  <1>8. /\ "regex" \notin GivenKinds => re = -1
        /\ "substr" \notin GivenKinds => sub = -1
    BY <1>2, <1>3
  <1> HIDE DEF re, sub, m
  <1>9. /\ re \in Nat \cup {-1} /\ sub \in Nat \cup {-1}
        /\ re >= 0 => "regex" \in GivenKinds
        /\ sub >= 0 => "substr" \in GivenKinds
    BY <1>5, <1>6, <1>7, <1>8
  <1>10. CASE sub >= 0 /\ (re < 0 \/ sub < re)
    <2>1. /\ m.kind = "substr" /\ m.start = sub
          /\ m.end = sub + Len(Pattern("substr"))
      BY <1>1, <1>3, <1>10
    <2>2. "substr" \in GivenKinds /\ sub \in Nat
      BY <1>9, <1>10
    <2>3. /\ sub \in Places(Pattern("substr"), s)
          /\ IsAt(Pattern("substr"), s, sub)
          /\ \A i \in Places(Pattern("substr"), s) :
                i < sub => ~IsAt(Pattern("substr"), s, i)
      BY <1>7, <2>2
    <2>4. ASSUME "regex" \in GivenKinds, NEW i \in Places(Pattern("regex"), s),
                 i < sub
          PROVE  ~IsAt(Pattern("regex"), s, i)
      <3>1. i \in Nat
        BY <1>5, <2>4
      <3>2. re < 0 \/ i < re
        BY <1>9, <1>10, <2>4, <3>1
      <3> QED
        BY <1>5, <1>6, <1>9, <2>4, <3>1, <3>2
    <2>5. \A k \in GivenKinds : \A i \in Places(Pattern(k), s) :
             i < sub => ~IsAt(Pattern(k), s, i)
      BY <1>3, <2>3, <2>4
    <2> QED
      BY <2>1, <2>2, <2>3, <2>5 DEF m
  <1>11. CASE ~(sub >= 0 /\ (re < 0 \/ sub < re))
    <2>1. /\ m.kind = "regex" /\ m.start = re
          /\ re >= 0 => m.end = re + Len(Pattern("regex"))
      BY <1>1, <1>3, <1>9, <1>11
    <2>2. CASE re < 0
      <3>1. sub = -1 /\ re = -1
        BY <1>9, <1>11, <2>2
      <3>2. \A k \in GivenKinds : \A i \in Places(Pattern(k), s) :
               ~IsAt(Pattern(k), s, i)
        BY <1>3, <1>5, <1>6, <1>7, <3>1
      <3> QED
        BY <2>1, <3>1, <3>2 DEF m
    <2>3. CASE re >= 0
      <3>1. "regex" \in GivenKinds /\ re \in Nat
        BY <1>9, <2>3
      <3>2. /\ re \in Places(Pattern("regex"), s)
            /\ IsAt(Pattern("regex"), s, re)
            /\ \A i \in Places(Pattern("regex"), s) :
                  i < re => ~IsAt(Pattern("regex"), s, i)
        BY <1>6, <3>1
      <3>3. ASSUME "substr" \in GivenKinds,
                   NEW i \in Places(Pattern("substr"), s), i < re
            PROVE  ~IsAt(Pattern("substr"), s, i)
        <4>1. i \in Nat
          BY <1>5, <3>3
        <4>2. sub = -1 \/ i < sub
          BY <1>9, <1>11, <3>1, <3>3, <4>1
        <4>3. sub = -1 => sub \notin Nat
          OBVIOUS
        <4> QED
          BY <1>5, <1>7, <3>3, <4>2, <4>3
      <3>4. \A k \in GivenKinds : \A i \in Places(Pattern(k), s) :
               i < re => ~IsAt(Pattern(k), s, i)
        BY <1>3, <3>2, <3>3
      <3> QED
        BY <2>1, <2>3, <3>1, <3>2, <3>4 DEF m
    <2> QED
      BY <1>9, <2>2, <2>3
  <1> QED
    BY <1>10, <1>11

\* t is a part of s, from the offset d on.
PartOf(t, s, d) ==
    /\ d \in Nat /\ d + Len(t) <= Len(s)
    /\ \A n \in 1 .. Len(t) : t[n] = s[d + n]

\* A pattern is where its bytes are.
LEMMA IsAtElements ==
    ASSUME NEW s \in Seq(Bytes), NEW p \in Seq(Bytes), NEW i \in Places(p, s)
    PROVE  IsAt(p, s, i) <=> \A n \in 1 .. Len(p) : s[i + n] = p[n]
  <1> DEFINE a == i + 1
             z == i + Len(p)
             x == SubSeq(s, a, z)
  <1>1. /\ Len(p) \in Nat /\ Len(s) \in Nat /\ i \in Nat
        /\ i + Len(p) <= Len(s)
    BY DEF Places
  <1>2. /\ a \in Int /\ z \in Int /\ z - a + 1 = Len(p)
        /\ a <= z <=> Len(p) # 0
        /\ \A n \in a .. z : s[n] \in Bytes
    BY <1>1
  <1>3. \A n \in 1 .. Len(p) : a + n - 1 = i + n
    BY <1>1
  <1> HIDE DEF a, z
  <1>4. /\ x \in Seq(Bytes)
        /\ Len(x) = IF a <= z THEN z - a + 1 ELSE 0
        /\ \A n \in 1 .. z - a + 1 : x[n] = s[a + n - 1]
    BY <1>2, SubSeqProperties
  <1>5. /\ Len(x) = Len(p)
        /\ \A n \in 1 .. Len(p) : x[n] = s[i + n]
    BY <1>1, <1>2, <1>3, <1>4
  <1> HIDE DEF x
  <1>6. x = p <=> \A n \in 1 .. Len(p) : x[n] = p[n]
    BY <1>4, <1>5, SeqEqual
  <1>7. IsAt(p, s, i) <=> x = p
    BY DEF IsAt, x, a, z
  <1> QED
    BY <1>5, <1>6, <1>7

\* A pattern that is in a part is in the whole, and the other way round.
LEMMA IsAtPart ==
    ASSUME NEW s \in Seq(Bytes), NEW t \in Seq(Bytes), NEW p \in Seq(Bytes),
           NEW d, PartOf(t, s, d), NEW i \in Places(p, t)
    PROVE  d + i \in Places(p, s) /\ (IsAt(p, t, i) <=> IsAt(p, s, d + i))
  <1>1. /\ d \in Nat /\ i \in Nat /\ Len(p) \in Nat /\ Len(t) \in Nat
        /\ Len(s) \in Nat /\ d + Len(t) <= Len(s) /\ i + Len(p) <= Len(t)
    BY DEF PartOf, Places
  <1>2. d + i \in Places(p, s)
    BY <1>1 DEF Places
  <1>3. ASSUME NEW n \in 1 .. Len(p) PROVE t[i + n] = s[d + i + n]
    <2>1. i + n \in 1 .. Len(t) /\ d + (i + n) = d + i + n
      BY <1>1
    <2> QED
      BY <2>1 DEF PartOf
  <1>4. /\ IsAt(p, t, i) <=> \A n \in 1 .. Len(p) : t[i + n] = p[n]
        /\ IsAt(p, s, d + i) <=> \A n \in 1 .. Len(p) : s[d + i + n] = p[n]
    BY <1>2, IsAtElements
  <1> QED
    BY <1>2, <1>3, <1>4

\* What is left of s after its first i bytes.
LEMMA RestIs ==
    ASSUME NEW s \in Seq(Bytes), NEW i \in 0 .. Len(s)
    PROVE  LET t == SubSeq(s, i + 1, Len(s))
           IN t \in Seq(Bytes) /\ Len(t) = Len(s) - i /\ PartOf(t, s, i)
  <1> DEFINE a == i + 1
             z == Len(s)
             t == SubSeq(s, a, z)
  <1>1. /\ a \in Int /\ z \in Int /\ i \in Nat /\ z - a + 1 = z - i
        /\ a <= z \/ z - i = 0
        /\ \A n \in a .. z : s[n] \in Bytes
    OBVIOUS
  <1>2. \A n \in 1 .. z - i : a + n - 1 = i + n
    OBVIOUS
  <1> HIDE DEF a, z
  <1>3. /\ t \in Seq(Bytes)
        /\ Len(t) = IF a <= z THEN z - a + 1 ELSE 0
        /\ \A n \in 1 .. z - a + 1 : t[n] = s[a + n - 1]
    BY <1>1, SubSeqProperties
  <1>4. Len(t) = z - i /\ \A n \in 1 .. z - i : t[n] = s[i + n]
    BY <1>1, <1>2, <1>3
  <1>5. i + (z - i) = z
    BY <1>1
  <1> HIDE DEF t
  <1>6. PartOf(t, s, i)
    BY <1>1, <1>4, <1>5 DEF PartOf, z
  <1> QED
    BY <1>3, <1>4, <1>6 DEF t, a, z

\* A match that is reported.
Hits == [kind : GivenKinds, off : Int]

\* Where the text between the j-th hit and the next begins and ends; a and z
\* are the ends of the whole.
EndBefore(hs, j, a) == IF j = 0 THEN a ELSE EndOf(hs[j])
NextStart(hs, j, z) == IF j < Len(hs) THEN hs[j + 1].off ELSE z

\* The hits hs are in the text s, whose offset is b, one after the other.
HitsIn(s, b, hs, a) ==
    \A j \in 1 .. Len(hs) :
        /\ hs[j].off - b \in Places(Pattern(hs[j].kind), s)
        /\ IsAt(Pattern(hs[j].kind), s, hs[j].off - b)
        /\ hs[j].off >= EndBefore(hs, j - 1, a)

\* Nothing that may be reported is between two of them, or before the first or
\* after the last.
GapsFree(s, b, hs, a, z) ==
    \A j \in 0 .. Len(hs), k \in GivenKinds :
        \A i \in Places(Pattern(k), s) :
            /\ EndBefore(hs, j, a) <= b + i
            /\ b + i + Len(Pattern(k)) <= NextStart(hs, j, z)
            => ~IsAt(Pattern(k), s, i)

NoneEmpty == \A k \in GivenKinds : Len(Pattern(k)) > 0

\* What a scan is to give, from the offset i in s on.
ScanOK(s, b, i, r) ==
    /\ r \in [hits : Seq(Hits), at : 0 .. Len(s),
              then : {"run", "0", "panic"}]
    /\ r.at >= i
    /\ HitsIn(s, b, r.hits, b + i)
    /\ r.then = "run" =>
          /\ NoneEmpty
          /\ b + r.at = EndBefore(r.hits, Len(r.hits), b + i)
          /\ GapsFree(s, b, r.hits, b + i, b + Len(s))

\* One hit before others.
LEMMA HitInFront ==
    ASSUME NEW h \in Hits, NEW hs \in Seq(Hits)
    PROVE  /\ <<h>> \o hs \in Seq(Hits)
           /\ Len(<<h>> \o hs) = Len(hs) + 1
           /\ (<<h>> \o hs)[1] = h
           /\ \A j \in 1 .. Len(hs) : (<<h>> \o hs)[j + 1] = hs[j]
  <1>1. <<h>> \in Seq(Hits) /\ Len(<<h>>) = 1 /\ <<h>>[1] = h
    OBVIOUS
  <1> DEFINE x == <<h>>
             y == x \o hs
  <1>2. Len(hs) \in Nat
    OBVIOUS
  <1> HIDE DEF x
  <1>3. /\ y \in Seq(Hits) /\ Len(y) = Len(x) + Len(hs)
        /\ \A i \in 1 .. Len(x) + Len(hs) :
              y[i] = IF i <= Len(x) THEN x[i] ELSE hs[i - Len(x)]
    BY <1>1, ConcatProperties DEF x
  <1> HIDE DEF y
  <1>4. Len(x) = 1 /\ x[1] = h
    BY <1>1 DEF x
  <1>5. Len(y) = Len(hs) + 1 /\ y[1] = h
    BY <1>2, <1>3, <1>4
  <1>6. ASSUME NEW j \in 1 .. Len(hs) PROVE y[j + 1] = hs[j]
    <2>1. /\ j + 1 \in 1 .. Len(x) + Len(hs) /\ ~(j + 1 <= Len(x))
          /\ j + 1 - Len(x) = j
      BY <1>2, <1>4
    <2> QED
      BY <1>3, <2>1
  <1> QED
    BY <1>3, <1>5, <1>6 DEF x, y

\* Where the first match is none, the scan ends.
LEMMA ScanEnds ==
    ASSUME opt \in Options, NEW s \in Seq(Bytes), NEW b \in Nat,
           NEW i \in 0 .. Len(s),
           FirstMatch(SubSeq(s, i + 1, Len(s))).start < 0
    PROVE  ScanOK(s, b, i, [hits |-> <<>>, at |-> i, then |-> "run"])
  <1> DEFINE t == SubSeq(s, i + 1, Len(s))
             r == [hits |-> <<>>, at |-> i, then |-> "run"]
  <1>1. /\ t \in Seq(Bytes) /\ Len(t) = Len(s) - i /\ PartOf(t, s, i)
        /\ Len(s) \in Nat /\ i \in Nat
    BY RestIs
  <1>2. \A k \in GivenKinds : \A e \in Places(Pattern(k), t) :
           ~IsAt(Pattern(k), t, e)
    BY <1>1, FirstMatchIs
  <1>3. \A k \in GivenKinds : /\ Pattern(k) \in Seq(Bytes)
                              /\ Len(Pattern(k)) \in Nat
    BY GivenPattern
  <1> HIDE DEF t
  <1>4. NoneEmpty
    <2> SUFFICES ASSUME NEW k \in GivenKinds PROVE Len(Pattern(k)) > 0
      BY DEF NoneEmpty
    <2>1. SUFFICES ASSUME Len(Pattern(k)) = 0 PROVE FALSE
      BY <1>3
    <2>2. 0 \in Places(Pattern(k), t)
      BY <1>1, <2>1 DEF Places
    <2>3. IsAt(Pattern(k), t, 0)
      BY <1>1, <1>3, <2>1, <2>2, IsAtElements
    <2> QED
      BY <1>2, <2>2, <2>3
  <1>5. GapsFree(s, b, <<>>, b + i, b + Len(s))
    <2> SUFFICES ASSUME NEW j \in 0 .. Len(<<>>), NEW k \in GivenKinds,
                        NEW e \in Places(Pattern(k), s),
                        EndBefore(<<>>, j, b + i) <= b + e
                 PROVE  ~IsAt(Pattern(k), s, e)
      BY DEF GapsFree
    <2>1. j = 0 /\ EndBefore(<<>>, j, b + i) = b + i
      BY EmptySeq DEF EndBefore
    <2> DEFINE n == e - i
    <2>2. e \in Nat /\ i <= e /\ e + Len(Pattern(k)) <= Len(s)
      BY <1>1, <1>3, <2>1 DEF Places
    <2>3. n \in Places(Pattern(k), t) /\ i + n = e
      BY <1>1, <1>3, <2>2 DEF Places
    <2> HIDE DEF n
    <2>4. IsAt(Pattern(k), t, n) <=> IsAt(Pattern(k), s, i + n)
      BY <1>1, <1>3, <2>3, IsAtPart
    <2> QED
      BY <1>2, <2>3, <2>4
  <1>6. HitsIn(s, b, <<>>, b + i)
    BY EmptySeq DEF HitsIn
  <1>7. b + i = EndBefore(<<>>, Len(<<>>), b + i)
    BY EmptySeq DEF EndBefore
  <1>8. /\ r \in [hits : Seq(Hits), at : 0 .. Len(s),
                  then : {"run", "0", "panic"}]
        /\ r.hits = <<>> /\ r.at = i /\ r.then = "run"
    BY EmptySeq
  <1> HIDE DEF r
  <1> QED
    BY <1>1, <1>4, <1>5, <1>6, <1>7, <1>8 DEF ScanOK, r

\* The first match from the offset i in s on, the hit it is reported as, and
\* the place behind it.
FirstFrom(s, i) == FirstMatch(SubSeq(s, i + 1, Len(s)))
HitFrom(s, b, i) ==
    [kind |-> FirstFrom(s, i).kind, off |-> b + i + FirstFrom(s, i).start]
Behind(s, i) ==
    i + IF FirstFrom(s, i).end <= FirstFrom(s, i).start
        THEN FirstFrom(s, i).start + 1 ELSE FirstFrom(s, i).end

\* Where there is a match, the scan reports it, and goes on behind it.
LEMMA ScanHit ==
    ASSUME opt \in Options, NEW s \in Seq(Bytes), NEW b \in Nat,
           NEW i \in 0 .. Len(s), FirstFrom(s, i).start >= 0
    PROVE  LET hit == HitFrom(s, b, i)
           IN /\ hit \in Hits /\ Behind(s, i) \in Nat /\ Behind(s, i) > i
              /\ HitsIn(s, b, <<hit>>, b + i)
              /\ EndOf(hit) <= b + Behind(s, i)
              /\ NoneEmpty => EndOf(hit) = b + Behind(s, i)
              /\ \A k \in GivenKinds : \A e \in Places(Pattern(k), s) :
                    b + i <= b + e /\ e < i + FirstFrom(s, i).start =>
                        ~IsAt(Pattern(k), s, e)
  <1> DEFINE t == SubSeq(s, i + 1, Len(s))
             m == FirstFrom(s, i)
             p == Pattern(m.kind)
             hit == HitFrom(s, b, i)
             next == Behind(s, i)
  <1>0. /\ m = FirstMatch(t) /\ m.start >= 0
        /\ next = i + IF m.end <= m.start THEN m.start + 1 ELSE m.end
        /\ hit = [kind |-> m.kind, off |-> b + i + m.start]
    BY DEF FirstFrom, HitFrom, Behind
  <1> HIDE DEF m, next, hit
  <1>1. /\ t \in Seq(Bytes) /\ Len(t) = Len(s) - i /\ PartOf(t, s, i)
        /\ Len(s) \in Nat /\ i \in Nat
    BY RestIs
  <1>2. /\ m.start \in Int /\ m.start >= 0
        /\ m.kind \in GivenKinds /\ m.end = m.start + Len(p)
        /\ m.start \in Places(p, t) /\ IsAt(p, t, m.start)
        /\ \A k \in GivenKinds : \A e \in Places(Pattern(k), t) :
              e < m.start => ~IsAt(Pattern(k), t, e)
    BY <1>0, <1>1, FirstMatchIs
  <1>3. \A k \in GivenKinds : /\ Pattern(k) \in Seq(Bytes)
                              /\ Len(Pattern(k)) \in Nat
    BY GivenPattern
  <1>4. p \in Seq(Bytes) /\ Len(p) \in Nat
    BY <1>2, <1>3
  <1>5. /\ hit.kind = m.kind /\ hit.off = b + i + m.start
        /\ hit \in Hits /\ Pattern(hit.kind) = p
    BY <1>0, <1>1, <1>2 DEF Hits
  <1>6. /\ i + m.start \in Places(p, s) /\ IsAt(p, s, i + m.start)
    BY <1>1, <1>2, <1>4, IsAtPart
  <1> HIDE DEF t, p
  <1>7. EndOf(hit) = b + i + m.start + Len(p)
    BY <1>5 DEF EndOf
  <1>8. /\ next \in Nat /\ next > i /\ EndOf(hit) <= b + next
        /\ Len(p) > 0 => EndOf(hit) = b + next
    <2>1. CASE m.end <= m.start
      <3>1. next = i + m.start + 1 /\ Len(p) = 0
        BY <1>0, <1>1, <1>2, <1>4, <2>1
      <3> QED
        BY <1>1, <1>2, <1>4, <1>7, <3>1
    <2>2. CASE ~(m.end <= m.start)
      <3>1. next = i + m.start + Len(p) /\ Len(p) > 0
        BY <1>0, <1>1, <1>2, <1>4, <2>2
      <3> QED
        BY <1>1, <1>2, <1>4, <1>7, <3>1
    <2> QED
      BY <2>1, <2>2
  <1>9. NoneEmpty => EndOf(hit) = b + next
    BY <1>2, <1>8 DEF NoneEmpty, p
  <1>10. HitsIn(s, b, <<hit>>, b + i)
    <2> SUFFICES ASSUME NEW j \in 1 .. Len(<<hit>>)
                 PROVE  /\ <<hit>>[j].off - b \in
                               Places(Pattern(<<hit>>[j].kind), s)
                        /\ IsAt(Pattern(<<hit>>[j].kind), s, <<hit>>[j].off - b)
                        /\ <<hit>>[j].off >= EndBefore(<<hit>>, j - 1, b + i)
      BY DEF HitsIn
    <2>1. j = 1 /\ <<hit>>[j] = hit
      OBVIOUS
    <2>2. hit.off - b = i + m.start /\ hit.off >= b + i
      BY <1>1, <1>2, <1>5
    <2>3. EndBefore(<<hit>>, j - 1, b + i) = b + i
      BY <2>1 DEF EndBefore
    <2> QED
      BY <1>5, <1>6, <2>1, <2>2, <2>3
  <1>11. ASSUME NEW k \in GivenKinds, NEW e \in Places(Pattern(k), s),
                b + i <= b + e, e < i + m.start
         PROVE  ~IsAt(Pattern(k), s, e)
    <2> DEFINE n == e - i
    <2>1. e \in Nat /\ i <= e /\ e + Len(Pattern(k)) <= Len(s)
      BY <1>1, <1>3, <1>11 DEF Places
    <2>2. n \in Places(Pattern(k), t) /\ i + n = e /\ n < m.start
      BY <1>1, <1>2, <1>3, <1>11, <2>1 DEF Places
    <2> HIDE DEF n
    <2>3. IsAt(Pattern(k), t, n) <=> IsAt(Pattern(k), s, i + n)
      BY <1>1, <1>3, <2>2, IsAtPart
    <2> QED
      BY <1>2, <2>2, <2>3
  <1> QED
    BY <1>5, <1>8, <1>9, <1>10, <1>11 DEF hit, next, m

\* A scan that goes on after a hit, as it should, is itself as it should be.
LEMMA ScanGoesOn ==
    ASSUME opt \in Options, NEW s \in Seq(Bytes), NEW b \in Nat,
           NEW i \in 0 .. Len(s), NEW hit \in Hits,
           NEW next \in 0 .. Len(s), next > i,
           HitsIn(s, b, <<hit>>, b + i),
           EndOf(hit) <= b + next,
           NoneEmpty => EndOf(hit) = b + next,
           \A k \in GivenKinds : \A e \in Places(Pattern(k), s) :
              b + i <= b + e /\ b + e < hit.off => ~IsAt(Pattern(k), s, e),
           NEW r, ScanOK(s, b, next, r)
    PROVE  ScanOK(s, b, i, [r EXCEPT !.hits = <<hit>> \o r.hits])
  <1> DEFINE hs == r.hits
             H == <<hit>> \o hs
             q == [r EXCEPT !.hits = H]
             a == b + i
             z == b + Len(s)
  <1>1. /\ r \in [hits : Seq(Hits), at : 0 .. Len(s),
                  then : {"run", "0", "panic"}]
        /\ hs \in Seq(Hits) /\ r.at \in 0 .. Len(s) /\ r.at >= next
    BY DEF ScanOK
  <1>2. /\ H \in Seq(Hits) /\ Len(H) = Len(hs) + 1 /\ H[1] = hit
        /\ \A j \in 1 .. Len(hs) : H[j + 1] = hs[j]
        /\ Len(hs) \in Nat
    BY <1>1, HitInFront
  <1>3. HitsIn(s, b, hs, b + next)
    BY DEF ScanOK
  <1>4. /\ q.hits = H /\ q.at = r.at /\ q.then = r.then
        /\ q \in [hits : Seq(Hits), at : 0 .. Len(s),
                  then : {"run", "0", "panic"}]
    BY <1>1, <1>2
  <1>5. /\ hit.off - b \in Places(Pattern(hit.kind), s)
        /\ IsAt(Pattern(hit.kind), s, hit.off - b)
        /\ hit.off >= a /\ hit.off \in Int
    <2>1. 1 \in 1 .. Len(<<hit>>) /\ <<hit>>[1] = hit /\ 1 - 1 = 0
      OBVIOUS
    <2> QED
      BY <2>1 DEF HitsIn, EndBefore, Hits
  <1>6. \A k \in GivenKinds : Len(Pattern(k)) \in Nat
    BY GivenPattern
  <1>7. /\ Len(s) \in Nat /\ a \in Nat /\ z \in Nat /\ b + next \in Nat
        /\ a < b + next
    OBVIOUS
  <1>8. /\ EndOf(hit) \in Int
        /\ \A j \in 1 .. Len(hs) : EndOf(hs[j]) \in Int /\ hs[j].off \in Int
    <2>1. ASSUME NEW h \in Hits PROVE EndOf(h) \in Int /\ h.off \in Int
      <3>1. h.off \in Int /\ h.kind \in GivenKinds
        BY DEF Hits
      <3> QED
        BY <1>6, <3>1 DEF EndOf
    <2>2. \A j \in 1 .. Len(hs) : hs[j] \in Hits
      BY <1>1
    <2> QED
      BY <2>1, <2>2
  <1> HIDE DEF H, q, hs
  \* The end before a later hit is what it was without the first.
  <1>9. ASSUME NEW j \in 1 .. Len(hs) + 1
        PROVE  /\ EndBefore(H, j, a) = IF j = 1 THEN EndOf(hit)
                                       ELSE EndBefore(hs, j - 1, b + next)
               /\ NextStart(H, j, z) = NextStart(hs, j - 1, z)
    <2>1. CASE j = 1
      <3>1. EndBefore(H, j, a) = EndOf(hit)
        BY <1>2, <2>1 DEF EndBefore
      <3>2. NextStart(H, j, z) = NextStart(hs, j - 1, z)
        <4>1. CASE Len(hs) = 0
          BY <1>2, <2>1, <4>1 DEF NextStart
        <4>2. CASE Len(hs) # 0
          <5>1. 1 \in 1 .. Len(hs) /\ H[1 + 1] = hs[1]
            BY <1>2, <4>2
          <5> QED
            BY <1>2, <2>1, <4>2, <5>1 DEF NextStart
        <4> QED
          BY <4>1, <4>2
      <3> QED
        BY <2>1, <3>1, <3>2
    <2>2. CASE j > 1
      <3>1. j - 1 \in 1 .. Len(hs) /\ (j - 1) + 1 = j
        BY <1>2, <2>2
      <3>2. H[j] = hs[j - 1]
        BY <1>2, <3>1
      <3>3. EndBefore(H, j, a) = EndBefore(hs, j - 1, b + next)
        BY <1>2, <2>2, <3>1, <3>2 DEF EndBefore
      <3>4. NextStart(H, j, z) = NextStart(hs, j - 1, z)
        <4>1. CASE j < Len(H)
          <5>1. j \in 1 .. Len(hs) /\ H[j + 1] = hs[j]
            BY <1>2, <4>1
          <5> QED
            BY <1>2, <3>1, <4>1, <5>1 DEF NextStart
        <4>2. CASE ~(j < Len(H))
          BY <1>2, <3>1, <4>2 DEF NextStart
        <4> QED
          BY <4>1, <4>2
      <3> QED
        BY <2>2, <3>3, <3>4
    <2> QED
      BY <1>2, <2>1, <2>2
  <1>10. HitsIn(s, b, H, a)
    <2> SUFFICES ASSUME NEW j \in 1 .. Len(H)
                 PROVE  /\ H[j].off - b \in Places(Pattern(H[j].kind), s)
                        /\ IsAt(Pattern(H[j].kind), s, H[j].off - b)
                        /\ H[j].off >= EndBefore(H, j - 1, a)
      BY DEF HitsIn
    <2>1. CASE j = 1
      BY <1>2, <1>5, <2>1 DEF EndBefore
    <2>2. CASE j > 1
      <3> DEFINE n == j - 1
      <3>1. n \in 1 .. Len(hs) /\ H[j] = hs[n]
        <4>1. n \in 1 .. Len(hs) /\ n + 1 = j
          BY <1>2, <2>2
        <4>2. H[n + 1] = hs[n]
          BY <1>2, <4>1
        <4> QED
          BY <4>1, <4>2
      <3> HIDE DEF n
      <3>2. /\ hs[n].off - b \in Places(Pattern(hs[n].kind), s)
            /\ IsAt(Pattern(hs[n].kind), s, hs[n].off - b)
            /\ hs[n].off >= EndBefore(hs, n - 1, b + next)
        BY <1>3, <3>1 DEF HitsIn
      <3>3. EndBefore(H, n, a) = IF n = 1 THEN EndOf(hit)
                                 ELSE EndBefore(hs, n - 1, b + next)
        <4>1. n \in 1 .. Len(hs) + 1
          BY <1>2, <3>1
        <4> QED
          BY <1>9, <4>1
      <3>4. hs[n].off >= EndBefore(H, n, a)
        <4>1. CASE n = 1
          <5>1. EndBefore(hs, n - 1, b + next) = b + next
            BY <4>1 DEF EndBefore
          <5> QED
            BY <1>7, <1>8, <3>1, <3>2, <3>3, <4>1, <5>1
        <4>2. CASE n # 1
          BY <3>2, <3>3, <4>2
        <4> QED
          BY <4>1, <4>2
      <3> QED
        BY <3>1, <3>2, <3>4 DEF n
    <2> QED
      BY <1>2, <2>1, <2>2
  <1>11. ASSUME r.then = "run"
         PROVE  /\ NoneEmpty
                /\ b + r.at = EndBefore(H, Len(H), a)
                /\ GapsFree(s, b, H, a, z)
    <2>1. /\ NoneEmpty /\ EndOf(hit) = b + next
          /\ b + r.at = EndBefore(hs, Len(hs), b + next)
          /\ GapsFree(s, b, hs, b + next, z)
      BY <1>11 DEF ScanOK, hs
    <2>2. \A j \in 1 .. Len(hs) + 1 :
             EndBefore(H, j, a) = EndBefore(hs, j - 1, b + next)
      BY <1>2, <1>9, <2>1 DEF EndBefore
    <2>3. b + r.at = EndBefore(H, Len(H), a)
      <3>1. Len(H) \in 1 .. Len(hs) + 1 /\ Len(H) - 1 = Len(hs)
        BY <1>2
      <3> QED
        BY <2>1, <2>2, <3>1
    <2>4. ASSUME NEW j \in 0 .. Len(H), NEW k \in GivenKinds,
                 NEW e \in Places(Pattern(k), s),
                 EndBefore(H, j, a) <= b + e,
                 b + e + Len(Pattern(k)) <= NextStart(H, j, z)
          PROVE  ~IsAt(Pattern(k), s, e)
      <3>1. e \in Nat /\ Len(Pattern(k)) \in Nat /\ Len(Pattern(k)) > 0
        BY <1>6, <2>1 DEF Places, NoneEmpty
      <3>2. CASE j = 0
        <4>1. NextStart(H, j, z) = hit.off /\ EndBefore(H, j, a) = a
          BY <1>2, <3>2 DEF NextStart, EndBefore
        <4>2. b + e < hit.off
          BY <1>5, <2>4, <3>1, <4>1
        <4> QED
          BY <2>4, <4>1, <4>2
      <3>3. CASE j > 0
        <4> DEFINE n == j - 1
        <4>1. j \in 1 .. Len(hs) + 1 /\ n \in 0 .. Len(hs)
          BY <1>2, <3>3
        <4>2. /\ EndBefore(H, j, a) = EndBefore(hs, n, b + next)
              /\ NextStart(H, j, z) = NextStart(hs, n, z)
          BY <1>9, <2>2, <4>1
        <4> HIDE DEF n
        <4> QED
          BY <2>1, <2>4, <4>1, <4>2 DEF GapsFree
      <3> QED
        BY <1>2, <3>2, <3>3
    <2>5. GapsFree(s, b, H, a, z)
      BY <2>4 DEF GapsFree
    <2> QED
      BY <2>1, <2>3, <2>5
  <1>12. q.at >= i
    BY <1>1, <1>4, <1>7
  <1> HIDE DEF a, z
  <1>13. ScanOK(s, b, i, q)
    <2>1. a = b + i /\ z = b + Len(s)
      BY DEF a, z
    <2> QED
      BY <1>4, <1>10, <1>11, <1>12, <2>1 DEF ScanOK
  <1> QED
    BY <1>13 DEF q, H, hs

\* The results of a scan of s.
Scans(s) == [hits : Seq(Hits), at : 0 .. Len(s), then : {"run", "0", "panic"}]

\* The scan from i on, if it is as it should be from each later place on; it
\* depends on nothing else.
LEMMA ScannedFromOK ==
    ASSUME opt \in Options, NEW s \in Seq(Bytes), NEW b \in Nat,
           NEW i \in 0 .. Len(s), NEW f
    PROVE  /\ (\A j \in 0 .. Len(s) : j > i => ScanOK(s, b, j, f[j])) =>
                 ScanOK(s, b, i, ScannedFrom(s, b, f, i))
           /\ (\A j \in 0 .. Len(s) : j > i => f[j] \in Scans(s)) =>
                 ScannedFrom(s, b, f, i) \in Scans(s)
           /\ \A g : (\A j \in 0 .. Len(s) : j > i => f[j] = g[j]) =>
                 ScannedFrom(s, b, f, i) = ScannedFrom(s, b, g, i)
  <1> DEFINE m == FirstFrom(s, i)
             next == Behind(s, i)
             hit == HitFrom(s, b, i)
             L == Len(s)
  <1>1. \A h : ScannedFrom(s, b, h, i) =
           IF m.start < 0 THEN [hits |-> <<>>, at |-> i, then |-> "run"]
           ELSE IF next > L THEN [hits |-> <<hit>>, at |-> i, then |-> "panic"]
           ELSE IF ~opt.follow
           THEN [hits |-> <<hit>>, at |-> next, then |-> "0"]
           ELSE [h[next] EXCEPT !.hits = <<hit>> \o @]
    BY DEF ScannedFrom, FirstFrom, Behind, HitFrom
  <1>2. m.start \in Int
    <2>1. SubSeq(s, i + 1, Len(s)) \in Seq(Bytes)
      BY RestIs
    <2> QED
      BY <2>1, FirstMatchIs DEF FirstFrom
  <1>3. i \in 0..L /\ L \in Nat
    OBVIOUS
  <1>4. m.start >= 0 =>
           /\ hit \in Hits /\ next \in Nat /\ next > i
           /\ HitsIn(s, b, <<hit>>, b + i)
           /\ EndOf(hit) <= b + next
           /\ NoneEmpty => EndOf(hit) = b + next
           /\ \A k \in GivenKinds : \A e \in Places(Pattern(k), s) :
                 b + i <= b + e /\ e < i + m.start => ~IsAt(Pattern(k), s, e)
    BY ScanHit
  <1>5. m.start < 0 =>
           ScanOK(s, b, i, [hits |-> <<>>, at |-> i, then |-> "run"])
    BY ScanEnds DEF FirstFrom
  <1>6. hit.off = b + i + m.start
    BY DEF HitFrom
  <1> HIDE DEF m, next, hit, L
  <1>7. CASE m.start < 0
    <2>1. [hits |-> <<>>, at |-> i, then |-> "run"] \in Scans(s)
      BY EmptySeq DEF Scans
    <2> QED
      BY <1>1, <1>5, <1>7, <2>1
  <1>8. CASE ~(m.start < 0)
    <2>1. /\ hit \in Hits /\ next \in Nat /\ next > i
          /\ HitsIn(s, b, <<hit>>, b + i)
          /\ EndOf(hit) <= b + next
          /\ NoneEmpty => EndOf(hit) = b + next
          /\ \A k \in GivenKinds : \A e \in Places(Pattern(k), s) :
                b + i <= b + e /\ e < i + m.start => ~IsAt(Pattern(k), s, e)
      BY <1>2, <1>4, <1>8
    <2>2. <<hit>> \in Seq(Hits)
      BY <2>1
    <2>3. ASSUME NEW a \in 0..L, a >= i, NEW t \in {"0", "panic"}
          PROVE  /\ ScanOK(s, b, i, [hits |-> <<hit>>, at |-> a, then |-> t])
                 /\ [hits |-> <<hit>>, at |-> a, then |-> t] \in Scans(s)
      <3> DEFINE r == [hits |-> <<hit>>, at |-> a, then |-> t]
      <3>1. /\ r \in Scans(s) /\ r.at >= i /\ r.then # "run"
            /\ r.hits = <<hit>>
        BY <2>2, <2>3 DEF Scans, L
      <3> HIDE DEF r
      <3> QED
        BY <2>1, <3>1 DEF ScanOK, Scans, r
    <2>4. CASE next > L
      <3>1. \A h : ScannedFrom(s, b, h, i) =
                      [hits |-> <<hit>>, at |-> i, then |-> "panic"]
        BY <1>1, <1>8, <2>4
      <3>2. i \in 0..L /\ i >= i
        BY <1>3
      <3> QED
        BY <2>3, <3>1, <3>2
    <2>5. CASE ~(next > L) /\ ~opt.follow
      <3>1. next \in 0..L /\ next >= i
        BY <1>3, <2>1, <2>5
      <3> QED
        BY <1>1, <1>8, <2>3, <2>5, <3>1
    <2>6. CASE ~(next > L) /\ opt.follow
      <3>1. next \in 0..L /\ next > i
        BY <1>3, <2>1, <2>6
      <3>2. \A h : ScannedFrom(s, b, h, i) =
                      [h[next] EXCEPT !.hits = <<hit>> \o h[next].hits]
        BY <1>1, <1>8, <2>6
      <3>3. ASSUME \A j \in 0..L : j > i => ScanOK(s, b, j, f[j])
            PROVE  ScanOK(s, b, i, ScannedFrom(s, b, f, i))
        <4> DEFINE r == f[next]
        <4>1. ScanOK(s, b, next, r)
          BY <3>1, <3>3
        <4>2. ScannedFrom(s, b, f, i) = [r EXCEPT !.hits = <<hit>> \o r.hits]
          BY <3>2
        <4>3. \A k \in GivenKinds : \A e \in Places(Pattern(k), s) :
                 b + i <= b + e /\ b + e < hit.off => ~IsAt(Pattern(k), s, e)
          <5> SUFFICES ASSUME NEW k \in GivenKinds,
                              NEW e \in Places(Pattern(k), s),
                              b + i <= b + e, b + e < hit.off
                       PROVE  ~IsAt(Pattern(k), s, e)
            OBVIOUS
          <5>1. e \in Nat
            BY DEF Places
          <5>2. e < i + m.start
            BY <1>2, <1>3, <1>6, <5>1
          <5> QED
            BY <2>1, <5>2
        <4> HIDE DEF r
        <4>4. next \in 0 .. Len(s)
          BY <3>1 DEF L
        <4>5. ScanOK(s, b, i, [r EXCEPT !.hits = <<hit>> \o r.hits])
          BY <2>1, <3>1, <4>1, <4>3, <4>4, ScanGoesOn
        <4> QED
          BY <4>2, <4>5
      <3>4. ASSUME \A j \in 0..L : j > i => f[j] \in Scans(s)
            PROVE  ScannedFrom(s, b, f, i) \in Scans(s)
        <4> DEFINE r == f[next]
        <4>1. r \in Scans(s)
          BY <3>1, <3>4
        <4>2. <<hit>> \o r.hits \in Seq(Hits)
          BY <2>1, <4>1, HitInFront DEF Scans
        <4>3. ScannedFrom(s, b, f, i) = [r EXCEPT !.hits = <<hit>> \o r.hits]
          BY <3>2
        <4> HIDE DEF r
        <4> QED
          BY <4>1, <4>2, <4>3 DEF Scans
      <3>5. ASSUME NEW g, \A j \in 0..L : j > i => f[j] = g[j]
            PROVE  ScannedFrom(s, b, f, i) = ScannedFrom(s, b, g, i)
        <4>1. f[next] = g[next]
          BY <3>1, <3>5
        <4> QED
          BY <3>2, <4>1
      <3> QED
        BY <3>3, <3>4, <3>5 DEF L
    <2> QED
      BY <2>4, <2>5, <2>6
  <1> QED
    BY <1>7, <1>8

\* The scan is as it should be.
LEMMA ScannedOK ==
    ASSUME opt \in Options, NEW s \in Seq(Bytes), NEW b \in Nat
    PROVE  ScanOK(s, b, 0, Scanned(s, b))
  <1> DEFINE L == Len(s)
             I == 0 .. Len(s)
             body(f) == [i \in 0 .. Len(s) |-> ScannedFrom(s, b, f, i)]
             scan == CHOOSE f : f = body(f)
             D == Scans(s)
             B == [a \in I \X [I -> D] |-> ScannedFrom(s, b, a[2], a[1])]
             m == [i \in I |-> L - i]
  <1>1. Scanned(s, b) = scan[0]
    BY DEF Scanned
  <1>2. L \in Nat /\ 0 \in I
    OBVIOUS
  <1>3. [hits |-> <<>>, at |-> 0, then |-> "run"] \in D
    BY EmptySeq DEF Scans
  <1>4. ASSUME NEW i \in I, NEW f \in [I -> D]
        PROVE  B[<<i, f>>] = ScannedFrom(s, b, f, i) /\ B[<<i, f>>] \in D
    <2>1. B[<<i, f>>] = ScannedFrom(s, b, f, i)
      OBVIOUS
    <2>2. ScannedFrom(s, b, f, i) \in D
      BY ScannedFromOK
    <2> QED
      BY <2>1, <2>2
  <1>5. B \in [I \X [I -> D] -> D]
    <2>1. \A a \in I \X [I -> D] :
             a[1] \in I /\ a[2] \in [I -> D] /\ a = <<a[1], a[2]>>
      OBVIOUS
    <2> QED
      BY <1>4, <2>1
  <1>6. m \in [I -> 0..L] /\ \A i \in I : m[i] = L - i
    BY <1>2
  <1>7. ASSUME NEW i \in I, NEW f \in [I -> D], NEW g \in [I -> D],
               \A j \in I : m[j] < m[i] => f[j] = g[j]
        PROVE  B[<<i, f>>] = B[<<i, g>>]
    <2>1. \A j \in I : j > i => m[j] < m[i]
      BY <1>2, <1>6
    <2>2. ScannedFrom(s, b, f, i) = ScannedFrom(s, b, g, i)
      <3>1. \A j \in I : j > i => f[j] = g[j]
        BY <1>7, <2>1
      <3> QED
        BY <3>1, ScannedFromOK
    <2> QED
      BY <1>4, <2>2
  <1> HIDE DEF m
  <1>8. \E f \in [I -> D] : \A i \in I : f[i] = B[<<i, f>>]
    <2>1. \A i \in I : \A f, g \in [I -> D] :
             (\A j \in I : m[j] < m[i] => f[j] = g[j]) =>
                 B[<<i, f>>] = B[<<i, g>>]
      BY <1>7
    <2>2. L \in Nat /\ D # {} /\ m \in [I -> 0..L]
      BY <1>2, <1>3, <1>6
    <2>3. Descends(I, D, L, m, B)
      BY <1>5, <2>1, <2>2 DEF Descends
    <2> HIDE DEF B, I, L, D
    <2> QED
      BY <2>3, RecursiveFunction
  <1>9. \E f : f = body(f)
    <2>1. PICK f \in [I -> D] : \A i \in I : f[i] = B[<<i, f>>]
      BY <1>8
    <2>2. \A i \in I : f[i] = body(f)[i]
      BY <1>4, <2>1
    <2>3. f = body(f)
      BY <2>2
    <2> QED
      BY <2>3
  <1>10. scan = body(scan)
    <2> HIDE DEF body
    <2> QED
      BY <1>9
  <1> HIDE DEF scan
  <1>11. \A i \in I : scan[i] = ScannedFrom(s, b, scan, i)
    BY <1>10
  <1>12. ASSUME NEW i \in I, \A j \in I : j > i => ScanOK(s, b, j, scan[j])
         PROVE  ScanOK(s, b, i, scan[i])
    <2>1. ScanOK(s, b, i, ScannedFrom(s, b, scan, i))
      BY <1>12, ScannedFromOK
    <2> QED
      BY <1>11, <2>1
  <1> DEFINE T == {k \in 0..L : \A j \in I : L - j <= k =>
                                                ScanOK(s, b, j, scan[j])}
  <1>13. 0 \in T
    <2>1. ASSUME NEW j \in I, L - j <= 0 PROVE ScanOK(s, b, j, scan[j])
      <3>1. \A e \in I : ~(e > j)
        BY <1>2, <2>1
      <3> QED
        BY <1>12, <3>1
    <2> QED
      BY <1>2, <2>1
  <1>14. ASSUME NEW k \in 0 .. L - 1, k \in T PROVE k + 1 \in T
    <2>1. ASSUME NEW j \in I, L - j <= k + 1 PROVE ScanOK(s, b, j, scan[j])
      <3>1. ASSUME NEW e \in I, e > j PROVE ScanOK(s, b, e, scan[e])
        <4>1. L - e <= k
          BY <1>2, <2>1, <3>1
        <4> QED
          BY <1>14, <4>1
      <3> QED
        BY <1>12, <3>1
    <2> QED
      BY <1>2, <2>1
  <1>15. L \in T
    <2>1. L \in Nat /\ L \in 0..L
      BY <1>2
    <2> HIDE DEF T
    <2> QED
      BY <1>13, <1>14, <2>1, UpTo
  <1>16. L - 0 <= L
    BY <1>2
  <1>17. ScanOK(s, b, 0, scan[0])
    BY <1>2, <1>15, <1>16
  <1> QED
    BY <1>1, <1>17

\* A part of a part.
LEMMA PartOfPart ==
    ASSUME NEW s \in Seq(Bytes), NEW t \in Seq(Bytes), NEW u \in Seq(Bytes),
           NEW d, NEW e, PartOf(t, s, d), PartOf(u, t, e)
    PROVE  PartOf(u, s, d + e)
  <1>1. /\ d \in Nat /\ e \in Nat /\ Len(s) \in Nat /\ Len(t) \in Nat
        /\ Len(u) \in Nat /\ d + Len(t) <= Len(s) /\ e + Len(u) <= Len(t)
    BY DEF PartOf
  <1>2. ASSUME NEW n \in 1 .. Len(u) PROVE u[n] = s[(d + e) + n]
    <2>1. e + n \in 1 .. Len(t) /\ d + (e + n) = (d + e) + n
      BY <1>1
    <2>2. u[n] = t[e + n] /\ t[e + n] = s[d + (e + n)]
      BY <2>1 DEF PartOf
    <2> QED
      BY <2>1, <2>2
  <1>3. d + e \in Nat /\ d + e + Len(u) <= Len(s)
    BY <1>1
  <1> QED
    BY <1>2, <1>3 DEF PartOf

\* A stretch of a sequence.
LEMMA Stretch ==
    ASSUME NEW x \in Seq(Bytes), NEW a \in 0 .. Len(x), NEW m \in 0 .. Len(x)
    PROVE  LET t == SubSeq(x, a + 1, m)
           IN /\ t \in Seq(Bytes) /\ Len(t) = (IF a <= m THEN m - a ELSE 0)
              /\ PartOf(t, x, a)
  <1> DEFINE c == a + 1
             t == SubSeq(x, c, m)
  <1>1. /\ c \in Int /\ m \in Int /\ a \in Nat /\ m - c + 1 = m - a
        /\ c <= m <=> a < m
        /\ Len(x) \in Nat /\ a <= Len(x) /\ m <= Len(x)
        /\ \A n \in c .. m : x[n] \in Bytes
    OBVIOUS
  <1>2. \A n \in 1 .. m - a : c + n - 1 = a + n
    OBVIOUS
  <1> HIDE DEF c
  <1>3. /\ t \in Seq(Bytes)
        /\ Len(t) = IF c <= m THEN m - c + 1 ELSE 0
        /\ \A n \in 1 .. m - c + 1 : t[n] = x[c + n - 1]
    BY <1>1, SubSeqProperties
  <1> HIDE DEF t
  <1>4. Len(t) = IF a <= m THEN m - a ELSE 0
    BY <1>1, <1>3
  <1>5. \A n \in 1 .. Len(t) : t[n] = x[a + n]
    BY SMTT(20), <1>1, <1>2, <1>3, <1>4
  <1>6. a + Len(t) <= Len(x)
    BY <1>1, <1>4
  <1> QED
    BY <1>1, <1>3, <1>4, <1>5, <1>6 DEF PartOf, t, c

\* The window after a scan: what is left of s, or the last Window bytes of it.
LEMMA TrimmedIs ==
    ASSUME NEW s \in Seq(Bytes), NEW b \in Nat, NEW at \in 0 .. Len(s)
    PROVE  LET w == Trimmed(s, b, at)
           IN /\ w.buf \in Seq(Bytes) /\ Len(w.buf) <= Window
              /\ w.base \in Nat /\ w.base >= b + at
              /\ w.base + Len(w.buf) = b + Len(s)
              /\ w.base = b + at \/ Len(w.buf) = Window
              /\ PartOf(w.buf, s, w.base - b)
  <1> DEFINE rest == SubSeq(s, at + 1, Len(s))
             drop == IF Len(rest) > Window THEN Len(rest) - Window ELSE 0
             x == SubSeq(rest, drop + 1, Len(rest))
             w == Trimmed(s, b, at)
  <1>1. /\ rest \in Seq(Bytes) /\ Len(rest) = Len(s) - at
        /\ PartOf(rest, s, at)
    BY RestIs
  <1>2. Len(rest) \in Nat /\ Len(s) \in Nat /\ at \in Nat /\ Window \in Nat
    BY <1>1, WindowAssumption
  <1>3. w = [buf |-> x, base |-> b + at + drop]
    BY DEF Trimmed
  <1> HIDE DEF rest, w
  <1>4. /\ drop \in 0 .. Len(rest) /\ Len(rest) - drop <= Window
        /\ drop = 0 \/ Len(rest) - drop = Window
    BY <1>2
  <1> HIDE DEF drop
  <1>5. /\ x \in Seq(Bytes) /\ Len(x) = Len(rest) - drop
        /\ PartOf(x, rest, drop)
    BY <1>1, <1>4, RestIs
  <1> HIDE DEF x
  <1>6. PartOf(x, s, at + drop)
    BY <1>1, <1>5, PartOfPart
  <1>7. w.buf = x /\ w.base = b + at + drop /\ w.base - b = at + drop
    BY <1>2, <1>3, <1>4
  <1> QED
    BY <1>1, <1>2, <1>4, <1>5, <1>6, <1>7 DEF w

\* Every pattern that is looked for is in some window as a whole: the window
\* may end before its last byte.
PatternsFit ==
    \A o \in Options : /\ o.regex # NoPattern => Len(o.regex) <= Window + 1
                       /\ o.substr # NoPattern => Len(o.substr) <= Window + 1

\* Nothing has been missed in t, or nothing has been scanned yet.
Calm(t, hs) == \/ NoneEmpty /\ GapsFree(t, 0, hs, 0, Len(t))
               \/ hs = <<>> /\ t = <<>>

\* The window w, at b, is the end of the text t, and begins where the last hit
\* ends unless it is full.
WindowOf(t, hs, w, b) ==
    /\ PartOf(w, t, b) /\ b + Len(w) = Len(t)
    /\ EndBefore(hs, Len(hs), 0) <= b
    /\ b = EndBefore(hs, Len(hs), 0) \/ Len(w) = Window

\* What has been reported stays in the text when it grows.
LEMMA TextGrows ==
    ASSUME opt \in Options, NEW t \in Seq(Bytes), NEW t2 \in Seq(Bytes),
           PartOf(t, t2, 0), NEW hs \in Seq(Hits), HitsIn(t, 0, hs, 0)
    PROVE  HitsIn(t2, 0, hs, 0)
  <1> SUFFICES ASSUME NEW j \in 1 .. Len(hs)
               PROVE  /\ hs[j].off - 0 \in Places(Pattern(hs[j].kind), t2)
                      /\ IsAt(Pattern(hs[j].kind), t2, hs[j].off - 0)
                      /\ hs[j].off >= EndBefore(hs, j - 1, 0)
    BY DEF HitsIn
  <1> DEFINE p == Pattern(hs[j].kind)
             e == hs[j].off
  <1>1. hs[j].kind \in GivenKinds /\ e \in Int
    <2>1. hs[j] \in Hits
      BY ElementOfSeq
    <2> QED
      BY <2>1 DEF Hits
  <1>2. p \in Seq(Bytes)
    BY <1>1, GivenPattern
  <1>3. /\ e - 0 \in Places(p, t) /\ IsAt(p, t, e - 0)
        /\ e >= EndBefore(hs, j - 1, 0)
    BY DEF HitsIn
  <1>4. e - 0 = e /\ 0 + e = e
    BY <1>1
  <1> HIDE DEF p, e
  <1>5. 0 + e \in Places(p, t2) /\ (IsAt(p, t, e) <=> IsAt(p, t2, 0 + e))
    BY <1>2, <1>3, <1>4, IsAtPart
  <1> QED
    BY <1>3, <1>4, <1>5 DEF p, e

\* The hits hs and then rs, where the text of the latter begins at b and the
\* whole ends at z: where each begins and ends.
Joined(hs, rs, b, z) ==
    LET H == hs \o rs
        J == Len(hs)
    IN /\ H \in Seq(Hits) /\ Len(H) = J + Len(rs)
       /\ J \in Nat /\ Len(rs) \in Nat
       /\ \A j \in 1..J : H[j] = hs[j]
       /\ \A n \in 1 .. Len(rs) : H[J + n] = rs[n]
       /\ \A j \in 0..J : EndBefore(H, j, 0) = EndBefore(hs, j, 0)
       /\ \A j \in 0 .. J - 1 : NextStart(H, j, z) = hs[j + 1].off
       /\ \A n \in 1 .. Len(rs) : EndBefore(H, J + n, 0) = EndBefore(rs, n, b)
       /\ \A n \in 0 .. Len(rs) : NextStart(H, J + n, z) = NextStart(rs, n, z)

\* Hits after hits keep their places.
LEMMA HitsAppended ==
    ASSUME opt \in Options, NEW hs \in Seq(Hits), NEW rs \in Seq(Hits),
           NEW b \in Nat, NEW z
    PROVE  Joined(hs, rs, b, z)
  <1> DEFINE H == hs \o rs
             J == Len(hs)
             R == Len(rs)
  <1>1. /\ H \in Seq(Hits) /\ Len(H) = J + R
        /\ \A i \in 1 .. J + R :
              H[i] = IF i <= J THEN hs[i] ELSE rs[i - J]
    BY ConcatProperties
  <1>2. J \in Nat /\ R \in Nat
    OBVIOUS
  <1> HIDE DEF H, J, R
  <1>3. \A j \in 1..J : H[j] = hs[j]
    BY <1>1, <1>2
  <1>4. ASSUME NEW n \in 1..R PROVE H[J + n] = rs[n]
    <2>1. J + n \in 1 .. J + R /\ ~(J + n <= J) /\ (J + n) - J = n
      BY <1>2
    <2> QED
      BY <1>1, <2>1
  <1>5. \A j \in 0..J : EndBefore(H, j, 0) = EndBefore(hs, j, 0)
    BY <1>2, <1>3 DEF EndBefore
  <1>6. ASSUME NEW j \in 0 .. J - 1 PROVE NextStart(H, j, z) = hs[j + 1].off
    <2>1. j < Len(H) /\ j + 1 \in 1..J
      BY <1>1, <1>2
    <2> QED
      BY <1>3, <2>1 DEF NextStart
  <1>7. ASSUME NEW n \in 1..R
        PROVE  EndBefore(H, J + n, 0) = EndBefore(rs, n, b)
    <2>1. J + n # 0 /\ n # 0
      BY <1>2
    <2> QED
      BY <1>4, <2>1 DEF EndBefore
  <1>8. ASSUME NEW n \in 0..R PROVE NextStart(H, J + n, z) = NextStart(rs, n, z)
    <2>1. CASE n < R
      <3>1. /\ n + 1 \in 1..R /\ J + (n + 1) = (J + n) + 1 /\ J + n < Len(H)
        BY <1>1, <1>2, <2>1
      <3>2. H[J + (n + 1)] = rs[n + 1]
        BY <1>4, <3>1
      <3> QED
        BY <2>1, <3>1, <3>2 DEF NextStart, R
    <2>2. CASE ~(n < R)
      <3>1. ~(J + n < Len(H))
        BY <1>1, <1>2, <2>2
      <3> QED
        BY <2>2, <3>1 DEF NextStart, R
    <2> QED
      BY <2>1, <2>2
  <1> QED
    BY <1>1, <1>2, <1>3, <1>4, <1>5, <1>6, <1>7, <1>8 DEF Joined, H, J, R

\* A scan of the window and what has come in gives what is in the text; if it
\* is to go on, nothing in the text has been missed, and the rest is kept.
LEMMA ScanOfText ==
    ASSUME opt \in Options, PatternsFit,
           NEW t \in Seq(Bytes), NEW t2 \in Seq(Bytes), PartOf(t, t2, 0),
           NEW w \in Seq(Bytes), NEW b \in Nat, NEW s \in Seq(Bytes),
           PartOf(s, t2, b), b + Len(s) = Len(t2),
           NEW hs \in Seq(Hits), HitsIn(t, 0, hs, 0),
           WindowOf(t, hs, w, b), Calm(t, hs),
           NEW r, ScanOK(s, b, 0, r)
    PROVE  /\ hs \o r.hits \in Seq(Hits)
           /\ HitsIn(t2, 0, hs \o r.hits, 0)
           /\ r.then = "run" =>
                 /\ Calm(t2, hs \o r.hits)
                 /\ WindowOf(t2, hs \o r.hits, Trimmed(s, b, r.at).buf,
                             Trimmed(s, b, r.at).base)
  <1> DEFINE rs == r.hits
             H == hs \o rs
             J == Len(hs)
             R == Len(rs)
             z == Len(t2)
  <1>1. /\ rs \in Seq(Hits) /\ r.at \in 0 .. Len(s)
        /\ HitsIn(s, b, rs, b + 0)
        /\ r.then = "run" =>
              /\ NoneEmpty
              /\ b + r.at = EndBefore(rs, R, b + 0)
              /\ GapsFree(s, b, rs, b + 0, b + Len(s))
    BY DEF ScanOK
  <1>2. /\ b + 0 = b /\ b + Len(s) = z /\ z \in Nat
        /\ Len(t) \in Nat /\ Len(s) \in Nat /\ Len(w) \in Nat
        /\ Window \in Nat /\ Len(t) <= z
    BY WindowAssumption DEF PartOf
  <1>3. /\ H \in Seq(Hits) /\ Len(H) = J + R /\ J \in Nat /\ R \in Nat
        /\ \A j \in 1..J : H[j] = hs[j]
        /\ \A n \in 1..R : H[J + n] = rs[n]
        /\ \A j \in 0..J : EndBefore(H, j, 0) = EndBefore(hs, j, 0)
        /\ \A j \in 0 .. J - 1 : NextStart(H, j, z) = hs[j + 1].off
        /\ \A n \in 1..R : EndBefore(H, J + n, 0) = EndBefore(rs, n, b)
        /\ \A n \in 0..R : NextStart(H, J + n, z) = NextStart(rs, n, z)
    <2>1. Joined(hs, r.hits, b, Len(t2))
      BY <1>1, HitsAppended
    <2> QED
      BY <2>1 DEF Joined
  <1>4. \A h \in Hits : /\ h.kind \in GivenKinds /\ h.off \in Int
                        /\ Pattern(h.kind) \in Seq(Bytes)
                        /\ Len(Pattern(h.kind)) \in Nat
    BY GivenPattern DEF Hits
  <1>5. \A n \in 1..R : rs[n] \in Hits
    BY <1>1
  <1>6. \A j \in 1..J : hs[j] \in Hits
    OBVIOUS
  <1>7. HitsIn(t2, 0, hs, 0)
    BY TextGrows
  <1>8. \A k \in GivenKinds : /\ Pattern(k) \in Seq(Bytes)
                              /\ Len(Pattern(k)) \in Nat
                              /\ Len(Pattern(k)) <= Window + 1
    <2> SUFFICES ASSUME NEW k \in GivenKinds
                 PROVE  Len(Pattern(k)) <= Window + 1
      BY GivenPattern
    <2>1. (k = "regex" \/ k = "substr") /\ Pattern(k) # NoPattern
      BY DEF GivenKinds
    <2> QED
      BY <2>1 DEF PatternsFit, Pattern
  <1>9. /\ EndBefore(hs, J, 0) <= b
        /\ b + Len(w) = Len(t)
        /\ b = EndBefore(hs, J, 0) \/ Len(w) = Window
    BY DEF WindowOf
  <1>10. /\ \A n \in 1..R : EndBefore(rs, n, b) \in Int
         /\ \A n \in 1..R : EndBefore(rs, n, b) >= b
         /\ EndBefore(rs, 0, b) = b
    <2> SUFFICES ASSUME NEW n \in 1..R
                 PROVE  EndBefore(rs, n, b) \in Int /\ EndBefore(rs, n, b) >= b
      BY DEF EndBefore
    <2>1. EndBefore(rs, n, b) = rs[n].off + Len(Pattern(rs[n].kind))
      BY <1>3 DEF EndBefore, EndOf
    <2>2. rs[n].off - b \in Places(Pattern(rs[n].kind), s)
      BY <1>1 DEF HitsIn
    <2>3. rs[n].off \in Int /\ Len(Pattern(rs[n].kind)) \in Nat
      BY <1>4, <1>5
    <2> DEFINE x == rs[n].off
               y == Len(Pattern(rs[n].kind))
    <2>4. x - b >= 0
      BY <2>2 DEF Places
    <2> HIDE DEF x, y
    <2>5. x \in Int /\ y \in Nat
      BY <2>3 DEF x, y
    <2>6. x + y \in Int /\ x + y >= b
      BY <2>4, <2>5
    <2> QED
      BY <2>1, <2>6 DEF x, y
  <1>11. EndBefore(hs, J, 0) \in Int
    <2>1. CASE J = 0
      BY <2>1 DEF EndBefore
    <2>2. CASE J # 0
      <3> DEFINE x == hs[J].off
                 y == Len(Pattern(hs[J].kind))
      <3>1. J \in 1..J
        BY <1>3, <2>2
      <3>2. x \in Int /\ y \in Nat
        BY <1>4, <1>6, <3>1
      <3>3. EndBefore(hs, J, 0) = x + y
        BY <2>2 DEF EndBefore, EndOf
      <3> HIDE DEF x, y
      <3>4. x + y \in Int
        BY <3>2
      <3> QED
        BY <3>3, <3>4
    <2> QED
      BY <2>1, <2>2
  <1> HIDE DEF rs, H, J, R, z
  <1>12. HitsIn(t2, 0, H, 0)
    <2> SUFFICES ASSUME NEW j \in 1 .. Len(H)
                 PROVE  /\ H[j].off - 0 \in Places(Pattern(H[j].kind), t2)
                        /\ IsAt(Pattern(H[j].kind), t2, H[j].off - 0)
                        /\ H[j].off >= EndBefore(H, j - 1, 0)
      BY DEF HitsIn
    <2>1. CASE j <= J
      <3>1. j \in 1..J /\ j - 1 \in 0..J
        BY <1>3, <2>1
      <3>2. /\ hs[j].off - 0 \in Places(Pattern(hs[j].kind), t2)
            /\ IsAt(Pattern(hs[j].kind), t2, hs[j].off - 0)
            /\ hs[j].off >= EndBefore(hs, j - 1, 0)
        BY <1>7, <3>1 DEF HitsIn, J
      <3> QED
        BY <1>3, <3>1, <3>2
    <2>2. CASE j > J
      <3> DEFINE n == j - J
      <3>1. n \in 1..R /\ J + n = j /\ n - 1 \in 0..R /\ J + (n - 1) = j - 1
        BY <1>3, <2>2
      <3> HIDE DEF n
      <3> DEFINE h == rs[n]
                 p == Pattern(h.kind)
                 e == h.off - b
      <3>2. /\ e \in Places(p, s) /\ IsAt(p, s, e)
            /\ h.off >= EndBefore(rs, n - 1, b)
        BY <1>1, <1>2, <3>1 DEF HitsIn, R
      <3>3. h \in Hits /\ p \in Seq(Bytes) /\ h.off \in Int
        BY <1>4, <1>5, <3>1
      <3>4. H[j] = h
        BY <1>3, <3>1
      <3>5. b + e = h.off - 0
        BY <3>3
      <3> HIDE DEF h, p, e
      <3>6. b + e \in Places(p, t2) /\ (IsAt(p, s, e) <=> IsAt(p, t2, b + e))
        BY <3>2, <3>3, IsAtPart
      <3>7. h.off >= EndBefore(H, j - 1, 0)
        <4>1. CASE n = 1
          <5>1. j - 1 = J /\ EndBefore(rs, n - 1, b) = b
            BY <1>3, <1>10, <3>1, <4>1
          <5>2. EndBefore(H, J, 0) = EndBefore(hs, J, 0)
            BY <1>3
          <5>3. EndBefore(hs, J, 0) \in Int
            BY <1>11
          <5> QED
            BY <1>9, <3>2, <3>3, <5>1, <5>2, <5>3
        <4>2. CASE n # 1
          <5>1. n - 1 \in 1..R
            BY <1>3, <3>1, <4>2
          <5>2. EndBefore(H, J + (n - 1), 0) = EndBefore(rs, n - 1, b)
            BY <1>3, <5>1
          <5> QED
            BY <3>1, <3>2, <5>2
        <4> QED
          BY <4>1, <4>2
      <3> QED
        BY <3>2, <3>4, <3>5, <3>6, <3>7 DEF p
    <2> QED
      BY <1>3, <2>1, <2>2
  <1>13. ASSUME r.then = "run" PROVE Calm(t2, H)
    <2>1. NoneEmpty /\ GapsFree(s, b, rs, b, z)
      BY <1>1, <1>2, <1>13
    <2> SUFFICES ASSUME NEW j \in 0 .. Len(H), NEW k \in GivenKinds,
                        NEW e \in Places(Pattern(k), t2),
                        EndBefore(H, j, 0) <= 0 + e,
                        0 + e + Len(Pattern(k)) <= NextStart(H, j, Len(t2))
                 PROVE  ~IsAt(Pattern(k), t2, e)
      BY <2>1 DEF Calm, GapsFree
    <2> DEFINE p == Pattern(k)
               l == Len(Pattern(k))
    <2>2. /\ p \in Seq(Bytes) /\ l \in Nat /\ l > 0 /\ l <= Window + 1
          /\ Len(p) = l
      BY <1>8, <2>1 DEF NoneEmpty
    <2>3. e \in Nat /\ e + l <= z /\ 0 + e = e /\ 0 + e + l = e + l
      BY <1>2, <2>2 DEF Places, z
    <2>4. EndBefore(H, j, 0) <= e /\ e + l <= NextStart(H, j, z)
      BY <2>3 DEF z
    <2> HIDE DEF p, l
    \* A place that was in the text before.
    <2>5. ASSUME e + l <= Len(t), NEW i \in 0..J, EndBefore(hs, i, 0) <= e,
                 e + l <= NextStart(hs, i, Len(t))
          PROVE  ~IsAt(p, t2, e)
      <3>1. e \in Places(p, t)
        BY <1>2, <2>2, <2>3, <2>5 DEF Places
      <3>2. t # <<>>
        BY <2>2, <2>3, <2>5, EmptySeq
      <3>3. GapsFree(t, 0, hs, 0, Len(t))
        BY <3>2 DEF Calm
      <3>4. ~IsAt(p, t, e)
        <4>1. \A k1 \in GivenKinds : \A e1 \in Places(Pattern(k1), t) :
                 /\ EndBefore(hs, i, 0) <= 0 + e1
                 /\ 0 + e1 + Len(Pattern(k1)) <= NextStart(hs, i, Len(t))
                 => ~IsAt(Pattern(k1), t, e1)
          BY <3>3 DEF GapsFree, J
        <4> QED
          BY <2>3, <2>5, <3>1, <4>1 DEF p, l
      <3>5. IsAt(p, t, e) <=> IsAt(p, t2, 0 + e)
        BY <2>2, <3>1, IsAtPart
      <3> QED
        BY <2>3, <3>4, <3>5
    \* A place in what has been scanned.
    <2>6. ASSUME e >= b, NEW n \in 0..R, EndBefore(rs, n, b) <= e,
                 e + l <= NextStart(rs, n, z)
          PROVE  ~IsAt(p, t2, e)
      <3> DEFINE f == e - b
      <3>1. f \in Places(p, s) /\ b + f = e
        BY <1>2, <2>2, <2>3, <2>6 DEF Places
      <3> HIDE DEF f
      <3>2. ~IsAt(p, s, f)
        <4>1. \A k1 \in GivenKinds : \A e1 \in Places(Pattern(k1), s) :
                 /\ EndBefore(rs, n, b) <= b + e1
                 /\ b + e1 + Len(Pattern(k1)) <= NextStart(rs, n, z)
                 => ~IsAt(Pattern(k1), s, e1)
          BY <2>1 DEF GapsFree, R
        <4> QED
          BY <2>6, <3>1, <4>1 DEF p, l
      <3>3. IsAt(p, s, f) <=> IsAt(p, t2, b + f)
        BY <2>2, <3>1, IsAtPart
      <3> QED
        BY <3>1, <3>2, <3>3
    <2>7. CASE j < J
      <3>1. j \in 0..J /\ j \in 0 .. J - 1 /\ j + 1 \in 1..J
        BY <1>3, <2>7
      <3>2. /\ EndBefore(H, j, 0) = EndBefore(hs, j, 0)
            /\ NextStart(H, j, z) = hs[j + 1].off
        BY <1>3, <3>1
      <3>3. NextStart(hs, j, Len(t)) = hs[j + 1].off
        BY <2>7 DEF NextStart, J
      <3>4. hs[j + 1].off <= Len(t)
        <4> DEFINE h == hs[j + 1]
        <4>1. h.off - 0 \in Places(Pattern(h.kind), t)
          BY <3>1 DEF HitsIn, J
        <4>2. h \in Hits
          BY <1>6, <3>1
        <4>3. h.off \in Int /\ Len(Pattern(h.kind)) \in Nat
          BY <1>4, <4>2
        <4> HIDE DEF h
        <4>4. h.off <= Len(t)
          BY <1>2, <4>1, <4>3 DEF Places
        <4> QED
          BY <4>4 DEF h
      <3>5. e + l <= Len(t)
        <4>1. hs[j + 1].off \in Int
          BY <1>4, <1>6, <3>1
        <4> QED
          BY <1>2, <2>2, <2>3, <2>4, <3>2, <3>4, <4>1
      <3>6. ~IsAt(p, t2, e)
        BY <2>4, <2>5, <3>1, <3>2, <3>3, <3>5
      <3> QED
        BY <3>6 DEF p
    <2>8. CASE j = J
      <3>1. /\ EndBefore(H, J, 0) = EndBefore(hs, J, 0)
            /\ NextStart(H, J, z) = NextStart(rs, 0, z)
        <4>1. J \in 0..J /\ 0 \in 0..R /\ J + 0 = J
          BY <1>3
        <4> QED
          BY <1>3, <4>1
      <3>2. CASE e + l <= Len(t)
        <4>1. NextStart(hs, J, Len(t)) = Len(t)
          BY <1>3 DEF NextStart, J
        <4>2. ~IsAt(p, t2, e)
          BY <1>3, <2>4, <2>5, <2>8, <3>1, <3>2, <4>1
        <4> QED
          BY <4>2 DEF p
      <3>3. CASE ~(e + l <= Len(t))
        <4>1. e >= b
          <5>1. CASE b = EndBefore(hs, J, 0)
            BY <2>4, <2>8, <3>1, <5>1
          <5>2. CASE Len(w) = Window
            BY <1>2, <1>9, <2>2, <2>3, <3>3, <5>2
          <5> QED
            BY <1>9, <5>1, <5>2
        <4>2. 0 \in 0..R /\ EndBefore(rs, 0, b) <= e
          BY <1>3, <1>10, <4>1
        <4>3. ~IsAt(p, t2, e)
          BY <2>4, <2>6, <2>8, <3>1, <4>1, <4>2
        <4> QED
          BY <4>3 DEF p
      <3> QED
        BY <3>2, <3>3
    <2>9. CASE j > J
      <3> DEFINE n == j - J
      <3>1. n \in 1..R /\ n \in 0..R /\ J + n = j
        BY <1>3, <2>9
      <3> HIDE DEF n
      <3>2. /\ EndBefore(H, j, 0) = EndBefore(rs, n, b)
            /\ NextStart(H, j, z) = NextStart(rs, n, z)
        BY <1>3, <3>1
      <3>3. e >= b
        BY <1>10, <2>3, <2>4, <3>1, <3>2
      <3>4. ~IsAt(p, t2, e)
        BY <2>4, <2>6, <3>1, <3>2, <3>3
      <3> QED
        BY <3>4 DEF p
    <2> QED
      BY <1>3, <2>7, <2>8, <2>9
  <1>14. ASSUME r.then = "run"
         PROVE  WindowOf(t2, H, Trimmed(s, b, r.at).buf,
                         Trimmed(s, b, r.at).base)
    <2> DEFINE x == Trimmed(s, b, r.at)
               a == r.at
               end == EndBefore(H, Len(H), 0)
    <2>1. /\ x.buf \in Seq(Bytes) /\ x.base \in Nat /\ x.base >= b + a
          /\ Len(x.buf) <= Window
          /\ x.base + Len(x.buf) = b + Len(s)
          /\ x.base = b + a \/ Len(x.buf) = Window
          /\ PartOf(x.buf, s, x.base - b)
      BY <1>1, TrimmedIs
    <2>2. b + a = EndBefore(rs, R, b)
      BY <1>1, <1>2, <1>14
    <2>3. a \in Nat /\ a <= Len(s)
      BY <1>1
    <2> HIDE DEF x, a, end
    <2>4. PartOf(x.buf, t2, b + (x.base - b)) /\ b + (x.base - b) = x.base
      BY <2>1, PartOfPart
    <2>5. end <= b + a /\ (end = b + a \/ R = 0)
      <3>1. CASE R = 0
        <4>1. Len(H) = J /\ end = EndBefore(hs, J, 0)
          BY <1>3, <3>1 DEF end
        <4>2. EndBefore(hs, J, 0) \in Int
          BY <1>11
        <4> QED
          BY <1>9, <2>3, <3>1, <4>1, <4>2
      <3>2. CASE R # 0
        <4>1. R \in 1..R /\ Len(H) = J + R
          BY <1>3, <3>2
        <4>2. end = EndBefore(rs, R, b)
          BY <1>3, <4>1 DEF end
        <4> QED
          BY <2>2, <2>3, <4>2
      <3> QED
        BY <3>1, <3>2
    <2>6. end \in Int
      <3>1. CASE Len(H) = 0
        BY <3>1 DEF end, EndBefore
      <3>2. CASE Len(H) # 0
        <4>1. Len(H) \in 1 .. Len(H) /\ H[Len(H)] \in Hits
          BY <1>3, <3>2
        <4> QED
          BY <1>4, <3>2, <4>1 DEF end, EndBefore, EndOf
      <3> QED
        BY <3>1, <3>2
    <2>7. x.base = end \/ Len(x.buf) = Window
      <3>1. CASE R = 0
        <4>1. a = 0
          BY <1>10, <2>2, <2>3, <3>1
        <4>2. end = EndBefore(hs, J, 0)
          BY <1>3, <3>1 DEF end
        <4>3. CASE Len(x.buf) = Window
          BY <4>3
        <4>4. CASE Len(x.buf) # Window
          <5>1. x.base = b /\ Len(x.buf) = Len(s) /\ Len(x.buf) \in Nat
            BY <1>2, <2>1, <4>1, <4>4
          <5>2. Len(w) <= Len(s)
            BY <1>2, <1>9
          <5>3. Len(w) # Window
            BY <1>2, <2>1, <4>4, <5>1, <5>2
          <5> QED
            BY <1>9, <4>2, <5>1, <5>3
        <4> QED
          BY <4>3, <4>4
      <3>2. CASE R # 0
        BY <2>1, <2>5, <3>2
      <3> QED
        BY <3>1, <3>2
    <2>8. end <= x.base /\ x.base + Len(x.buf) = Len(t2)
      BY SMTT(20), <1>2, <2>1, <2>3, <2>5, <2>6 DEF z
    <2>9. PartOf(x.buf, t2, x.base)
      BY <2>4
    <2> QED
      BY <2>7, <2>8, <2>9 DEF WindowOf, x, a, end
  <1> QED
    BY <1>3, <1>12, <1>13, <1>14 DEF H, rs

-----------------------------------------------------------------------------
(* The inductive invariants *)

\* The reports so far are in the text.
Reported == HitsIn(Text, 0, hits, 0)

\* The types of what the client and `expect' have.
Typed ==
    /\ replay \in Seq(Bytes) /\ from \in Nat
    /\ opt \in Options /\ hits \in Seq(Hits)
    /\ buf \in Seq(Bytes) /\ Len(buf) <= Window /\ base \in Nat
    /\ client \in {"none", "replay", "live"}
    /\ outcome \in {"idle", "run", "0", "2", "3", "130", "panic"}

\* The call of `expect' does not change.
LEMMA SameCall ==
    ASSUME opt' = opt
    PROVE  /\ GivenKinds' = GivenKinds /\ Hits' = Hits
           /\ Reported' <=> HitsIn(Text', 0, hits', 0)
  <1>1. \A k : Pattern(k)' = Pattern(k)
    BY DEF Pattern
  <1>2. GivenKinds' = GivenKinds /\ Hits' = Hits
    BY <1>1 DEF GivenKinds, Hits
  <1>3. Reported' <=> HitsIn(Text', 0, hits', 0)
    BY DEF Reported, HitsIn, EndBefore, EndOf, Pattern
  <1> QED
    BY <1>2, <1>3

-----------------------------------------------------------------------------
(* What has been written: the ring and the emulator *)

\* The emulator has what the rewriting makes of the stream, byte by byte.
RewrittenSoFar == [out |-> fed, hold |-> pending] = Rewritten(stream)

\* The ring has the newest of it, and the rewriting is that of the whole.
Written ==
    /\ stream \in Seq(Bytes) /\ Len(stream) <= MaxLen
    /\ Newest(ring, stream)
    /\ RewrittenSoFar

\* A chunk is a sequence of bytes.
LEMMA ChunkIs == ASSUME NEW p \in Chunks PROVE p \in Seq(Bytes)
  BY DEF Chunks

\* The empty ring, and the rewriting of nothing.
LEMMA InitWritten == Init => Written
  <1> SUFFICES ASSUME Init PROVE Written
    OBVIOUS
  <1>1. stream = <<>> /\ ring = NewRingBuffer /\ pending = <<>> /\ fed = <<>>
    BY DEF Init
  <1>2. Len(stream) = 0 /\ stream \in Seq(Bytes)
    BY <1>1
  <1>3. Len(stream) <= MaxLen
    BY <1>2, BoundsAssumption
  <1>4. Newest(ring, stream)
    BY <1>1, <1>2, RingAssumption DEF Newest, NewRingBuffer
  <1>5. Rewritten(stream) = [out |-> <<>>, hold |-> <<>>]
    <2>1. PICK f \in [0 .. Len(stream) -> Rewritings] :
             /\ f[0] = Nothing
             /\ Rewritten(stream) = f[Len(stream)]
      BY <1>2, RewrittenIs
    <2> QED
      BY <1>2, <2>1 DEF Nothing
  <1>6. RewrittenSoFar
    BY <1>1, <1>5 DEF RewrittenSoFar
  <1> QED
    BY <1>2, <1>3, <1>4, <1>6 DEF Written

\* Only readLoop writes.
LEMMA NextWritten == Written /\ [Next]_vars => Written'
  <1> SUFFICES ASSUME Written, [Next]_vars PROVE Written'
    OBVIOUS
  <1>1. CASE UNCHANGED <<stream, ring, pending, fed>>
    BY <1>1 DEF Written, RewrittenSoFar, Newest, Place
  <1>2. ASSUME NEW p \in Chunks, Chunk(p) PROVE Written'
    <2> DEFINE r == Rewritten(stream)
               t == Translate(r.hold, p)
    <2>1. p \in Seq(Bytes)
      BY ChunkIs
    <2>2. /\ stream' = stream \o p /\ Len(stream) + Len(p) <= MaxLen
          /\ ring' = RingAppend(ring, p)
          /\ fed' = fed \o Translate(pending, p).out
          /\ pending' = Translate(pending, p).hold
      BY <1>2 DEF Chunk
    <2>3. stream' \in Seq(Bytes) /\ Len(stream') <= MaxLen
      <3>1. stream' \in Seq(Bytes) /\ Len(stream') = Len(stream) + Len(p)
        BY <2>1, <2>2 DEF Written
      <3> QED
        BY <2>2, <3>1
    <2>4. Newest(ring', stream')
      BY <2>1, <2>2, Appended DEF Written
    <2>5. Rewritten(stream') = [out |-> r.out \o t.out, hold |-> t.hold]
      BY <2>1, <2>2, RewrittenChunk DEF Written
    <2> HIDE DEF r
    <2>6. r.out = fed /\ r.hold = pending
      BY DEF Written, RewrittenSoFar, r
    <2>7. Rewritten(stream') = [out |-> fed', hold |-> pending']
      BY <2>2, <2>5, <2>6
    <2>8. RewrittenSoFar'
      BY <2>7 DEF RewrittenSoFar
    <2>9. Newest(ring, stream)'
      BY <2>4
    <2> QED
      BY <2>3, <2>8, <2>9 DEF Written
  <1>3. CASE Attach
    BY <1>1, <1>3 DEF Attach
  <1>4. CASE Frame
    BY <1>1, <1>4 DEF Frame
  <1>5. CASE ReplayEnd
    BY <1>1, <1>5 DEF ReplayEnd
  <1>6. CASE Exit
    BY <1>1, <1>6 DEF Exit
  <1>7. CASE Killed
    BY <1>1, <1>7 DEF Killed
  <1>8. CASE Closed
    BY <1>1, <1>8 DEF Closed
  <1>9. CASE Timer
    BY <1>1, <1>9 DEF Timer
  <1>10. CASE UNCHANGED vars
    BY <1>1, <1>10 DEF vars
  <1> QED
    BY <1>2, <1>3, <1>4, <1>5, <1>6, <1>7, <1>8, <1>9, <1>10 DEF Next

\* What has been written stays in the ring and with the emulator as it should.
LEMMA WrittenCorrect == Spec => []Written
  BY InitWritten, NextWritten, PTL DEF Spec

\* In whatever chunks readLoop gets the output, and however often it has gone
\* around, the ring's snapshot is the newest RingMax bytes in their order
\* (ring.go, ringBuffer.append and snapshot).
THEOREM RingCorrect == Spec => []RingIsNewest
  <1>1. Written => RingIsNewest
    BY NewestSnapshot DEF Written, RingIsNewest
  <1> QED
    BY <1>1, WrittenCorrect, PTL

\* However the reads cut the sequences, the emulator is fed what it would have
\* been had the whole output come in one read (scorc.go, translate).
THEOREM RewritingCorrect == Spec => []RewritingIgnoresChunks
  <1>1. Written => RewritingIgnoresChunks
    BY RewrittenAtOnce DEF Written, RewrittenSoFar, RewritingIgnoresChunks
  <1> QED
    BY <1>1, WrittenCorrect, PTL

\* The snapshot is the end of what has been written.
LEMMA SnapshotIs ==
    ASSUME Written
    PROVE  /\ Snapshot(ring) \in Seq(Bytes)
           /\ PartOf(Snapshot(ring), stream, Len(stream) - Len(Snapshot(ring)))
  <1>1. Snapshot(ring) =
           IF Len(stream) < RingMax THEN stream ELSE LastOf(stream, RingMax)
    BY NewestSnapshot DEF Written
  <1>2. stream \in Seq(Bytes) /\ Len(stream) \in Nat /\ RingMax \in Nat
    BY RingAssumption DEF Written
  <1>3. CASE Len(stream) < RingMax
    <2>1. Len(stream) - Len(stream) = 0 /\ 0 + Len(stream) <= Len(stream)
          /\ \A n \in 1 .. Len(stream) : 0 + n = n
      BY <1>2
    <2>2. PartOf(stream, stream, 0)
      BY <2>1 DEF PartOf
    <2> QED
      BY <1>1, <1>2, <1>3, <2>1, <2>2
  <1>4. CASE ~(Len(stream) < RingMax)
    <2> DEFINE k == Len(stream) - RingMax
               x == LastOf(stream, RingMax)
    <2>1. RingMax \in 0 .. Len(stream) /\ k \in Nat
          /\ k + RingMax <= Len(stream)
      BY <1>2, <1>4
    <2>2. /\ x \in Seq(Bytes) /\ Len(x) = RingMax
          /\ \A i \in 1 .. RingMax : x[i] = stream[k + i]
      BY <1>2, <2>1, LastOfProperties
    <2> HIDE DEF x
    <2>3. PartOf(x, stream, k)
      BY <2>1, <2>2 DEF PartOf
    <2> QED
      BY <1>1, <1>4, <2>2, <2>3 DEF x
  <1> QED
    BY <1>3, <1>4

-----------------------------------------------------------------------------
(* What the client and `expect' have: types *)

\* A scan keeps a window of what it is given.
LEMMA ScanTyped ==
    ASSUME Typed, opt' = opt, NEW s \in Seq(Bytes), ScanBuf(s)
    PROVE  /\ hits' \in Seq(Hits) /\ hits' \in Seq(Hits')
           /\ buf' \in Seq(Bytes) /\ Len(buf') <= Window /\ base' \in Nat
           /\ outcome' \in {"run", "0", "panic"}
  <1> DEFINE r == Scanned(s, base)
             w == Trimmed(s, base, r.at)
  <1>1. /\ hits' = hits \o r.hits /\ buf' = w.buf /\ base' = w.base
        /\ outcome' = r.then
    BY DEF ScanBuf, ScanText
  <1>2. opt \in Options /\ base \in Nat /\ hits \in Seq(Hits)
    BY DEF Typed
  <1>3. ScanOK(s, base, 0, r)
    BY <1>2, ScannedOK
  <1> HIDE DEF r
  <1>4. /\ r.hits \in Seq(Hits) /\ r.at \in 0 .. Len(s)
        /\ r.then \in {"run", "0", "panic"}
    BY <1>3 DEF ScanOK
  <1>5. w.buf \in Seq(Bytes) /\ Len(w.buf) <= Window /\ w.base \in Nat
    BY <1>2, <1>4, TrimmedIs
  <1>6. Hits' = Hits
    BY SameCall
  <1> HIDE DEF w
  <1>7. hits' \in Seq(Hits)
    BY <1>1, <1>2, <1>4
  <1> QED
    BY <1>1, <1>4, <1>5, <1>6, <1>7

\* The flags are those of the call.
LEMMA NextSameCall == [Next]_vars => opt' = opt
  BY DEF Next, vars, expectVars, Chunk, Attach, Frame, ReplayEnd, Exit,
         Killed, Closed, Timer, OnOutput, ExpectStart, OnScrollbackEnd,
         OnExit, OnClosed, OnIdle, OnDeadline, OnSignal, ExpectEnds

\* A frame is the beginning of what there is still to get.
LEMMA FrameIs ==
    ASSUME Typed, Frame
    PROVE  \E n \in 0 .. Len(replay) :
              /\ replay' = SubSeq(replay, n + 1, Len(replay))
              /\ replay' \in Seq(Bytes) /\ Len(replay') = Len(replay) - n
              /\ PartOf(replay', replay, n)
              /\ SubSeq(replay, 1, n) \in Seq(Bytes)
              /\ Len(SubSeq(replay, 1, n)) = n
              /\ PartOf(SubSeq(replay, 1, n), replay, 0)
              /\ Running => OnOutput(SubSeq(replay, 1, n))
              /\ ~Running => UNCHANGED expectVars
  <1> DEFINE L == Len(replay)
             n == IF L < MaxFrame THEN L ELSE MaxFrame
             q == SubSeq(replay, 0 + 1, n)
  <1>1. /\ replay' = SubSeq(replay, n + 1, L)
        /\ IF Running THEN OnOutput(SubSeq(replay, 1, n))
           ELSE UNCHANGED expectVars
    BY DEF Frame
  <1>2. replay \in Seq(Bytes) /\ L \in Nat /\ n \in 0..L /\ 0 \in 0..L
    BY BoundsAssumption DEF Typed
  <1> HIDE DEF n
  <1>3. /\ replay' \in Seq(Bytes) /\ Len(replay') = L - n
        /\ PartOf(replay', replay, n)
    BY <1>1, <1>2, RestIs
  <1>4. /\ q \in Seq(Bytes) /\ Len(q) = (IF 0 <= n THEN n - 0 ELSE 0)
        /\ PartOf(q, replay, 0)
    BY <1>2, Stretch
  <1>5. q = SubSeq(replay, 1, n)
    OBVIOUS
  <1> HIDE DEF q
  <1>6. Len(q) = n
    BY <1>2, <1>4
  <1> QED
    BY <1>1, <1>2, <1>3, <1>4, <1>5, <1>6

\* The initial types.
LEMMA InitTyped == Init => Typed
  <1> SUFFICES ASSUME Init PROVE Typed
    OBVIOUS
  <1>1. /\ replay = <<>> /\ from = 0 /\ client = "none" /\ opt \in Options
        /\ buf = <<>> /\ base = 0 /\ hits = <<>> /\ outcome = "idle"
    BY DEF Init, ExpectInit
  <1>2. buf \in Seq(Bytes) /\ Len(buf) <= Window /\ hits \in Seq(Hits)
    BY <1>1, WindowAssumption
  <1>3. replay \in Seq(Bytes)
    BY <1>1
  <1> QED
    BY <1>1, <1>2, <1>3 DEF Typed

\* Only Attach and the frames of the replay change what the client has still
\* to get; beside them and the scans, a step changes at most the outcome.
LEMMA NextTyped == Written /\ Typed /\ [Next]_vars => Typed'
  <1> SUFFICES ASSUME Written, Typed, [Next]_vars PROVE Typed'
    OBVIOUS
  <1>1. opt' = opt
    BY NextSameCall
  <1>2. Hits' = Hits
    BY <1>1, SameCall
  <1> DEFINE Looked ==
                /\ hits' \in Seq(Hits')
                /\ buf' \in Seq(Bytes) /\ Len(buf') <= Window
                /\ base' \in Nat
                /\ outcome' \in {"idle", "run", "0", "2", "3", "130", "panic"}
             Got == replay' \in Seq(Bytes) /\ from' \in Nat
                      /\ client' \in {"none", "replay", "live"}
  <1>3. ASSUME UNCHANGED <<replay, from, client>> PROVE Got
    BY <1>3 DEF Typed
  <1>4. ASSUME UNCHANGED <<hits, buf, base>>,
               outcome' \in {"idle", "run", "0", "2", "3", "130", "panic"}
        PROVE  Looked
    BY <1>2, <1>4 DEF Typed
  <1>5. ASSUME UNCHANGED expectVars PROVE Looked
    BY <1>4, <1>5 DEF Typed, expectVars
  <1>6. ASSUME NEW q \in Seq(Bytes), OnOutput(q) PROVE Looked
    <2>1. CASE armed
      <3>1. ScanBuf(buf \o q)
        BY <1>6, <2>1 DEF OnOutput
      <3>2. buf \o q \in Seq(Bytes)
        BY DEF Typed
      <3> QED
        BY <1>1, <3>1, <3>2, ScanTyped
    <2>2. CASE ~armed
      BY <1>4, <1>6, <2>2 DEF OnOutput, Typed
    <2> QED
      BY <2>1, <2>2
  <1>7. ASSUME Got, Looked PROVE Typed'
    BY <1>1, <1>7 DEF Typed
  <1> HIDE DEF Looked
  <1>8. ASSUME NEW p \in Chunks, Chunk(p) PROVE Typed'
    <2>1. Looked
      BY <1>5, <1>6, <1>8, ChunkIs DEF Chunk
    <2> QED
      BY <1>3, <1>7, <1>8, <2>1 DEF Chunk
  <1>9. CASE Attach
    <2>1. Looked
      BY <1>4, <1>9 DEF Attach, ExpectStart
    <2>2. Snapshot(ring) \in Seq(Bytes) /\ Len(Snapshot(ring)) <= Len(stream)
      <3>1. Len(stream) - Len(Snapshot(ring)) \in Nat
        BY SnapshotIs DEF PartOf
      <3>2. Len(stream) \in Nat /\ Len(Snapshot(ring)) \in Nat
        BY SnapshotIs DEF Written
      <3> QED
        BY <3>1, <3>2, SnapshotIs
    <2>3. from' \in Nat
      <3>1. from' = IF opt.scrollback THEN Len(stream) - Len(Snapshot(ring))
                    ELSE Len(stream)
        BY <1>9 DEF Attach
      <3>2. Len(stream) \in Nat /\ Len(Snapshot(ring)) \in Nat
        BY <2>2 DEF Written
      <3> QED
        BY <2>2, <3>1, <3>2
    <2>4. replay' \in Seq(Bytes) /\ client' = "replay"
      BY <1>9, <2>2 DEF Attach
    <2> QED
      BY <1>7, <2>1, <2>3, <2>4
  <1>10. CASE Frame
    <2>1. PICK n \in 0 .. Len(replay) :
             /\ replay' \in Seq(Bytes)
             /\ SubSeq(replay, 1, n) \in Seq(Bytes)
             /\ Running => OnOutput(SubSeq(replay, 1, n))
             /\ ~Running => UNCHANGED expectVars
      BY <1>10, FrameIs
    <2>2. Looked
      BY <1>5, <1>6, <2>1
    <2>3. from' \in Nat /\ client' \in {"none", "replay", "live"}
      BY <1>10 DEF Frame, Typed
    <2> QED
      BY <1>7, <2>1, <2>2, <2>3
  <1>11. CASE ReplayEnd
    <2>1. Looked
      <3>1. CASE Running
        <4>1. ScanBuf(buf) /\ buf \in Seq(Bytes)
          BY <1>11, <3>1 DEF ReplayEnd, OnScrollbackEnd, Typed
        <4> QED
          BY <1>1, <4>1, ScanTyped DEF Looked
      <3>2. CASE ~Running
        BY <1>5, <1>11, <3>2 DEF ReplayEnd
      <3> QED
        BY <3>1, <3>2
    <2>2. Got
      BY <1>11 DEF ReplayEnd, Typed
    <2> QED
      BY <1>7, <2>1, <2>2
  <1>12. CASE Exit
    <2>1. Looked
      BY <1>4, <1>5, <1>12 DEF Exit, OnExit, ExpectEnds
    <2> QED
      BY <1>3, <1>7, <1>12, <2>1 DEF Exit
  <1>13. CASE Killed
    BY <1>3, <1>5, <1>7, <1>13 DEF Killed
  <1>14. CASE Closed
    <2>1. Looked
      BY <1>4, <1>14 DEF Closed, OnClosed, ExpectEnds
    <2> QED
      BY <1>3, <1>7, <1>14, <2>1 DEF Closed
  <1>15. CASE Timer
    <2>1. Looked
      BY <1>4, <1>15 DEF Timer, OnIdle, OnDeadline, OnSignal, ExpectEnds
    <2> QED
      BY <1>3, <1>7, <1>15, <2>1 DEF Timer
  <1>16. CASE UNCHANGED vars
    BY <1>3, <1>5, <1>7, <1>16 DEF vars
  <1> QED
    BY <1>8, <1>9, <1>10, <1>11, <1>12, <1>13, <1>14, <1>15, <1>16 DEF Next

\* The types stay.
LEMMA TypedCorrect == Spec => []Typed
  BY InitTyped, NextTyped, WrittenCorrect, PTL DEF Spec

\* Type correctness: the ring is full when it holds RingMax bytes, the
\* rewriter keeps at most ESC [, the window is never longer than Window, and
\* `expect' ends with one of its codes.
THEOREM TypeCorrect == Spec => []TypeOK
  <1>1. Written /\ Typed => TypeOK
    <2> SUFFICES ASSUME Written, Typed PROVE TypeOK
      OBVIOUS
    <2>1. /\ ring.pos \in 0 .. RingMax - 1 /\ Len(ring.buf) <= RingMax
          /\ ring.full = (Len(ring.buf) = RingMax)
      <3>1. ring.full \in BOOLEAN /\ Len(ring.buf) \in Nat /\ RingMax \in Nat
        BY RingAssumption DEF Written, Newest
      <3>2. /\ ring.pos \in 0 .. RingMax - 1 /\ Len(ring.buf) <= RingMax
            /\ ring.full <=> Len(ring.buf) = RingMax
        BY <3>1 DEF Written, Newest
      <3>3. (Len(ring.buf) = RingMax) \in BOOLEAN
        OBVIOUS
      <3> QED
        BY <3>1, <3>2, <3>3
    <2>2. pending \in {<<>>, <<"ESC">>, <<"ESC", "[">>}
      <3> DEFINE r == Rewritten(stream)
      <3>1. r \in Rewritings
        <4>1. PICK f \in [0 .. Len(stream) -> Rewritings] : r = f[Len(stream)]
          BY RewrittenIs DEF Written
        <4>2. Len(stream) \in 0 .. Len(stream)
          BY DEF Written
        <4> QED
          BY <4>1, <4>2
      <3>2. pending = r.hold
        BY DEF Written, RewrittenSoFar
      <3> HIDE DEF r
      <3> QED
        BY <3>1, <3>2 DEF Rewritings, Holds
    <2> QED
      BY <2>1, <2>2 DEF TypeOK, Written, Typed
  <1> QED
    BY <1>1, WrittenCorrect, TypedCorrect, PTL

-----------------------------------------------------------------------------
(* What `expect' reports *)

\* What there is of the replay is the end of what has been written; `expect'
\* begins with it or after it, and has begun to match in time.
Replaying ==
    /\ client = "none" => outcome = "idle" /\ replay = <<>> /\ from = 0
                          /\ hits = <<>> /\ buf = <<>> /\ base = 0
    /\ client = "replay" =>
          /\ PartOf(replay, stream, Len(stream) - Len(replay))
          /\ armed <=> opt.scrollback
          /\ armed => from <= Len(stream) - Len(replay)
          /\ ~armed => from = Len(stream)
    /\ client = "live" => /\ replay = <<>> /\ from <= Len(stream)
                          /\ outcome = "run" => armed

\* What has been reported is in the text; while `expect' runs nothing else is,
\* and it has the end of the text in its window.
Watched ==
    /\ Reported
    /\ outcome = "run" => Calm(Text, hits) /\ WindowOf(Text, hits, buf, base)

\* The same of a later state, in which the call is still the same.
LEMMA SameWatch ==
    ASSUME opt' = opt
    PROVE  Watched' <=>
              /\ HitsIn(Text', 0, hits', 0)
              /\ outcome' = "run" => /\ Calm(Text', hits')
                                     /\ WindowOf(Text', hits', buf', base')
  <1>1. Reported' <=> HitsIn(Text', 0, hits', 0)
    BY SameCall
  <1>2. Calm(Text, hits)' <=> Calm(Text', hits')
    BY DEF Calm, NoneEmpty, GapsFree, EndBefore, EndOf, Pattern, NextStart,
           GivenKinds
  <1>3. WindowOf(Text, hits, buf, base)'
           <=> WindowOf(Text', hits', buf', base')
    BY DEF WindowOf, PartOf, EndBefore, EndOf, Pattern
  <1> QED
    BY <1>1, <1>2, <1>3 DEF Watched

\* The window and what comes in are the end of the longer text.
LEMMA WindowAppended ==
    ASSUME NEW w \in Seq(Bytes), NEW q \in Seq(Bytes), NEW t \in Seq(Bytes),
           NEW t2 \in Seq(Bytes), NEW b, PartOf(t, t2, 0), PartOf(w, t, b),
           b + Len(w) = Len(t), PartOf(q, t2, Len(t)),
           Len(t) + Len(q) = Len(t2)
    PROVE  /\ w \o q \in Seq(Bytes) /\ PartOf(w \o q, t2, b)
           /\ b + Len(w \o q) = Len(t2)
  <1> DEFINE s == w \o q
             k == Len(w)
             l == Len(q)
             m == Len(t)
             z == Len(s)
  <1>1. /\ s \in Seq(Bytes) /\ z = k + l
        /\ \A i \in 1 .. k + l : s[i] = IF i <= k THEN w[i] ELSE q[i - k]
    BY ConcatProperties
  <1>2. /\ b \in Nat /\ k \in Nat /\ l \in Nat /\ m \in Nat /\ z \in Nat
        /\ b + k = m /\ m + l = Len(t2)
    BY <1>1 DEF PartOf
  <1> HIDE DEF s, k, l, m, z
  <1>3. ASSUME NEW n \in 1..z PROVE s[n] = t2[b + n]
    <2>1. CASE n <= k
      <3>1. n \in 1..k /\ b + n \in 1..m /\ 0 + (b + n) = b + n
        BY <1>1, <1>2, <2>1
      <3>2. s[n] = w[n] /\ w[n] = t[b + n] /\ t[b + n] = t2[0 + (b + n)]
        BY <1>1, <2>1, <3>1 DEF PartOf, k, m
      <3> QED
        BY <3>1, <3>2
    <2>2. CASE ~(n <= k)
      <3> DEFINE i == n - k
      <3>1. i \in 1..l /\ m + i = b + n
        BY <1>1, <1>2, <2>2
      <3>2. s[n] = q[i]
        BY <1>1, <2>2
      <3> HIDE DEF i
      <3>3. q[i] = t2[m + i]
        BY <3>1 DEF PartOf, l, m
      <3> QED
        BY <3>1, <3>2, <3>3
    <2> QED
      BY <2>1, <2>2
  <1>4. b + z = m + l
    BY <1>1, <1>2
  <1>5. b + z = Len(t2)
    BY <1>2, <1>4
  <1>6. PartOf(s, t2, b)
    BY <1>2, <1>3, <1>5 DEF PartOf, z
  <1> QED
    BY <1>1, <1>5, <1>6 DEF s, z

\* What a scan does to what is watched: s is the end of the new text, and has
\* the window as its beginning.
LEMMA ScanWatched ==
    ASSUME PatternsFit, Typed, opt' = opt, outcome = "run", Watched,
           NEW s \in Seq(Bytes), ScanBuf(s),
           Text \in Seq(Bytes), Text' \in Seq(Bytes), PartOf(Text, Text', 0),
           PartOf(s, Text', base), base + Len(s) = Len(Text')
    PROVE  Watched'
  <1> DEFINE r == Scanned(s, base)
             t == Text
             t2 == Text'
  <1>1. /\ hits' = hits \o r.hits
        /\ buf' = Trimmed(s, base, r.at).buf
        /\ base' = Trimmed(s, base, r.at).base
        /\ outcome' = r.then
    BY DEF ScanBuf, ScanText
  <1>2. /\ opt \in Options /\ base \in Nat /\ hits \in Seq(Hits)
        /\ buf \in Seq(Bytes)
    BY DEF Typed
  <1>3. ScanOK(s, base, 0, r)
    BY <1>2, ScannedOK
  <1>4. HitsIn(t, 0, hits, 0) /\ Calm(t, hits) /\ WindowOf(t, hits, buf, base)
    BY DEF Watched, Reported
  <1>5. t \in Seq(Bytes) /\ t2 \in Seq(Bytes) /\ PartOf(t, t2, 0)
        /\ PartOf(s, t2, base) /\ base + Len(s) = Len(t2)
    OBVIOUS
  <1> HIDE DEF r, t, t2
  <1>6. /\ HitsIn(t2, 0, hits \o r.hits, 0)
        /\ r.then = "run" =>
              /\ Calm(t2, hits \o r.hits)
              /\ WindowOf(t2, hits \o r.hits, Trimmed(s, base, r.at).buf,
                          Trimmed(s, base, r.at).base)
    BY <1>2, <1>3, <1>4, <1>5, ScanOfText
  <1>7. /\ HitsIn(Text', 0, hits', 0)
        /\ outcome' = "run" =>
              Calm(Text', hits') /\ WindowOf(Text', hits', buf', base')
    BY <1>1, <1>6 DEF t2
  <1> QED
    BY <1>7, SameWatch

\* Nothing is watched of a text and a window that stay as they are, whatever
\* becomes of the call.
LEMMA SameText ==
    ASSUME Watched, opt' = opt, Text' = Text, UNCHANGED <<hits, buf, base>>,
           outcome' = "run" => outcome = "run"
    PROVE  Watched'
  <1>1. /\ HitsIn(Text', 0, hits', 0)
        /\ outcome' = "run" =>
              Calm(Text', hits') /\ WindowOf(Text', hits', buf', base')
    BY DEF Watched, Reported
  <1> QED
    BY <1>1, SameWatch

\* More output, of which nothing is looked at: what has been reported stays.
LEMMA MoreText ==
    ASSUME Typed, Watched, opt' = opt, UNCHANGED hits, outcome' # "run",
           Text \in Seq(Bytes), Text' \in Seq(Bytes), PartOf(Text, Text', 0)
    PROVE  Watched'
  <1>1. opt \in Options /\ hits \in Seq(Hits) /\ HitsIn(Text, 0, hits, 0)
    BY DEF Typed, Watched, Reported
  <1> DEFINE t == Text
             t2 == Text'
  <1>2. /\ t \in Seq(Bytes) /\ t2 \in Seq(Bytes) /\ PartOf(t, t2, 0)
        /\ HitsIn(t, 0, hits, 0)
    BY <1>1
  <1> HIDE DEF t, t2
  <1>3. HitsIn(t2, 0, hits, 0)
    BY <1>1, <1>2, TextGrows
  <1> QED
    BY <1>3, SameWatch DEF t2

\* Nothing has been reported, and nothing is looked at.
LEMMA NothingReported ==
    ASSUME opt' = opt, hits' = <<>>, outcome' # "run" PROVE Watched'
  <1>1. HitsIn(Text', 0, hits', 0)
    BY DEF HitsIn
  <1> QED
    BY <1>1, SameWatch

\* There is nothing to look at yet.
LEMMA NothingWatched ==
    ASSUME opt' = opt, Text' = <<>>, hits' = <<>>, buf' = <<>>, base' = 0
    PROVE  Watched'
  <1> DEFINE t == Text'
             hs == hits'
             w == buf'
             b == base'
  <1>1. t = <<>> /\ hs = <<>> /\ w = <<>> /\ b = 0
    OBVIOUS
  <1> HIDE DEF t, hs, w, b
  <1>2. HitsIn(t, 0, hs, 0)
    BY <1>1 DEF HitsIn
  <1>3. Calm(t, hs)
    BY <1>1 DEF Calm
  <1>4. WindowOf(t, hs, w, b)
    BY <1>1 DEF WindowOf, PartOf, EndBefore
  <1> QED
    BY <1>2, <1>3, <1>4, SameWatch DEF t, hs, w, b

\* The stretch of x from a to m, and the one of y that goes on with q.
Longer(x, y, m, a, q) ==
    LET t  == SubSeq(x, a + 1, m)
        t2 == SubSeq(y, a + 1, m + Len(q))
    IN /\ t \in Seq(Bytes) /\ t2 \in Seq(Bytes) /\ PartOf(t, t2, 0)
       /\ PartOf(q, t2, Len(t)) /\ Len(t) + Len(q) = Len(t2)

\* If x is the beginning of y and q is in y after m, one goes on with q where
\* the other ends.
LEMMA LongerStretch ==
    ASSUME NEW x \in Seq(Bytes), NEW y \in Seq(Bytes), PartOf(x, y, 0),
           NEW m \in 0 .. Len(x), NEW a \in 0..m,
           NEW q \in Seq(Bytes), PartOf(q, y, m)
    PROVE  Longer(x, y, m, a, q)
  <1> DEFINE l == Len(q)
             t == SubSeq(x, a + 1, m)
             t2 == SubSeq(y, a + 1, m + l)
  <1>1. /\ Len(x) \in Nat /\ Len(y) \in Nat /\ l \in Nat /\ a \in Nat
        /\ m \in Nat /\ Len(x) <= Len(y) /\ m + l <= Len(y)
    BY DEF PartOf
  <1>2. /\ a \in 0 .. Len(x) /\ a \in 0 .. Len(y) /\ m + l \in 0 .. Len(y)
    BY <1>1
  <1>3. /\ t \in Seq(Bytes) /\ Len(t) = (IF a <= m THEN m - a ELSE 0)
        /\ PartOf(t, x, a)
    BY <1>2, Stretch
  <1>4. /\ t2 \in Seq(Bytes)
        /\ Len(t2) = (IF a <= m + l THEN m + l - a ELSE 0)
        /\ PartOf(t2, y, a)
    BY <1>2, Stretch
  <1> HIDE DEF t, t2
  <1>5. Len(t) = m - a /\ Len(t2) = m + l - a
    BY <1>1, <1>3, <1>4
  <1>6. ASSUME NEW n \in 1 .. m - a PROVE t[n] = t2[0 + n]
    <2>1. /\ n \in 1 .. m + l - a /\ a + n \in 1 .. Len(x)
          /\ 0 + (a + n) = a + n /\ 0 + n = n
      BY <1>1
    <2> QED
      BY <1>3, <1>4, <1>5, <2>1 DEF PartOf
  <1>7. ASSUME NEW n \in 1..l PROVE q[n] = t2[m - a + n]
    <2>1. m - a + n \in 1 .. m + l - a /\ a + (m - a + n) = m + n
      BY <1>1
    <2> HIDE DEF l
    <2>2. q[n] = y[m + n]
      BY DEF PartOf, l
    <2>3. t2[m - a + n] = y[a + (m - a + n)]
      BY <1>4, <1>5, <2>1 DEF PartOf
    <2> QED
      BY <2>1, <2>2, <2>3
  <1>8. 0 + (m - a) <= m + l - a /\ m - a + l <= m + l - a /\ m - a \in Nat
        /\ m - a + l = m + l - a
    BY <1>1
  <1>9. PartOf(t, t2, 0)
    BY <1>5, <1>6, <1>8 DEF PartOf
  <1>10. PartOf(q, t2, Len(t))
    BY <1>5, <1>7, <1>8 DEF PartOf
  <1> QED
    BY <1>3, <1>4, <1>5, <1>8, <1>9, <1>10 DEF Longer, t, t2, l

\* Before it attaches.
LEMMA InitReplaying == Init => Replaying /\ Watched
  <1> SUFFICES ASSUME Init PROVE Replaying /\ Watched
    OBVIOUS
  <1>1. /\ replay = <<>> /\ from = 0 /\ client = "none"
        /\ buf = <<>> /\ base = 0 /\ hits = <<>> /\ outcome = "idle"
    BY DEF Init, ExpectInit
  <1>2. Watched
    BY <1>1 DEF Watched, Reported, HitsIn
  <1> QED
    BY <1>1, <1>2 DEF Replaying

\* The client goes through its phases: the frames get shorter from the front,
\* and matching begins at the latest with the end of the replay.
LEMMA NextReplaying ==
    Written /\ Typed /\ Replaying /\ [Next]_vars => Replaying'
  <1> SUFFICES ASSUME Written, Typed, Replaying, [Next]_vars
               PROVE  Replaying'
    OBVIOUS
  <1>1. opt' = opt
    BY NextSameCall
  <1>2. /\ stream \in Seq(Bytes) /\ Len(stream) \in Nat
        /\ replay \in Seq(Bytes) /\ Len(replay) \in Nat /\ from \in Nat
    BY DEF Written, Typed
  <1>3. ASSUME NEW q, OnOutput(q) PROVE armed' = armed
    BY <1>3 DEF OnOutput
  <1>4. ASSUME NEW p \in Chunks, Chunk(p) PROVE Replaying'
    <2>1. /\ client # "replay" /\ stream' = stream \o p
          /\ UNCHANGED <<replay, client, from>>
          /\ IF client = "live" /\ Running THEN OnOutput(p)
             ELSE UNCHANGED expectVars
      BY <1>4 DEF Chunk
    <2>2. p \in Seq(Bytes) /\ Len(p) \in Nat
      BY ChunkIs
    <2>3. Len(stream') = Len(stream) + Len(p)
      BY <1>2, <2>1, <2>2
    <2>4. CASE client = "none"
      BY <2>1, <2>4 DEF Replaying, expectVars
    <2>5. CASE client = "live"
      <3>1. from <= Len(stream')
        BY <1>2, <2>2, <2>3, <2>5 DEF Replaying
      <3>2. outcome' = "run" => armed'
        <4>1. CASE Running
          BY <1>3, <2>1, <2>5, <4>1 DEF Replaying, Running
        <4>2. CASE ~Running
          BY <2>1, <4>2 DEF expectVars, Running
        <4> QED
          BY <4>1, <4>2
      <3> QED
        BY <2>1, <2>5, <3>1, <3>2 DEF Replaying
    <2> QED
      BY <2>1, <2>4, <2>5 DEF Typed
  <1>5. CASE Attach
    <2> DEFINE x == Snapshot(ring)
    <2>1. /\ x \in Seq(Bytes) /\ PartOf(x, stream, Len(stream) - Len(x))
          /\ Len(x) \in Nat
      BY SnapshotIs
    <2>2. /\ replay' = x /\ client' = "replay" /\ stream' = stream
          /\ from' = IF opt.scrollback THEN Len(stream) - Len(x)
                     ELSE Len(stream)
          /\ armed' = opt.scrollback
      BY <1>5 DEF Attach, ExpectStart
    <2> HIDE DEF x
    <2>3. Len(stream) - Len(x) <= Len(stream) - Len(x)
      BY <1>2, <2>1
    <2>4. PartOf(replay', stream', Len(stream') - Len(replay'))
      BY <2>1, <2>2
    <2>5. PartOf(replay, stream, Len(stream) - Len(replay))'
      BY <2>4 DEF PartOf
    <2>6. /\ armed' <=> opt'.scrollback
          /\ armed' => from' <= Len(stream') - Len(replay')
          /\ ~armed' => from' = Len(stream')
      BY <1>1, <2>2, <2>3
    <2> QED
      BY <2>2, <2>5, <2>6 DEF Replaying
  <1>6. CASE Frame
    <2>1. PICK n \in 0 .. Len(replay) :
             /\ replay' \in Seq(Bytes) /\ Len(replay') = Len(replay) - n
             /\ PartOf(replay', replay, n)
             /\ Running => OnOutput(SubSeq(replay, 1, n))
             /\ ~Running => UNCHANGED expectVars
      BY <1>6, FrameIs
    <2>2. client = "replay" /\ UNCHANGED <<stream, client, from>>
      BY <1>6 DEF Frame
    <2>3. armed' = armed
      BY <1>3, <2>1 DEF expectVars
    <2>4. Len(stream) - Len(replay) \in Nat
      BY <2>2 DEF Replaying, PartOf
    <2>5. Len(stream) - Len(replay) + n = Len(stream) - Len(replay')
          /\ Len(stream) - Len(replay) <= Len(stream) - Len(replay')
      BY <1>2, <2>1
    <2>6. PartOf(replay', stream, Len(stream) - Len(replay) + n)
      BY <1>2, <2>1, <2>2, PartOfPart DEF Replaying
    <2>7. PartOf(replay, stream, Len(stream) - Len(replay))'
      BY <2>2, <2>5, <2>6 DEF PartOf
    <2>8. armed => from <= Len(stream) - Len(replay')
      <3>1. armed => from <= Len(stream) - Len(replay)
        BY <2>2 DEF Replaying
      <3>2. Len(stream) - Len(replay') \in Int
        BY <1>2, <2>1
      <3> QED
        BY <1>2, <2>4, <2>5, <3>1, <3>2
    <2> QED
      BY <1>1, <2>2, <2>3, <2>7, <2>8 DEF Replaying
  <1>7. CASE ReplayEnd
    <2>1. /\ client = "replay" /\ replay = <<>> /\ client' = "live"
          /\ IF Running THEN OnScrollbackEnd ELSE UNCHANGED expectVars
          /\ UNCHANGED <<stream, replay, from>>
      BY <1>7 DEF ReplayEnd
    <2>2. from <= Len(stream)
      <3>1. Len(replay) = 0
        BY <2>1
      <3> QED
        BY <1>2, <2>1, <3>1 DEF Replaying
    <2>3. outcome' = "run" => armed'
      BY <2>1 DEF OnScrollbackEnd, expectVars, Running
    <2> QED
      BY <2>1, <2>2, <2>3 DEF Replaying
  <1>8. ASSUME UNCHANGED <<stream, replay, client, from, armed, hits, buf, base>>,
               outcome' = outcome \/ outcome = "run"
        PROVE  Replaying'
    BY <1>1, <1>8 DEF Replaying, PartOf
  <1>9. CASE Exit
    BY <1>8, <1>9 DEF Exit, OnExit, ExpectEnds, Running, expectVars
  <1>10. CASE Killed
    BY <1>8, <1>10 DEF Killed, expectVars
  <1>11. CASE Closed
    BY <1>8, <1>11 DEF Closed, OnClosed, ExpectEnds, Running
  <1>12. CASE Timer
    BY <1>8, <1>12 DEF Timer, OnIdle, OnDeadline, OnSignal, ExpectEnds, Running
  <1>13. CASE UNCHANGED vars
    BY <1>8, <1>13 DEF vars, expectVars
  <1> QED
    BY <1>4, <1>5, <1>6, <1>7, <1>9, <1>10, <1>11, <1>12, <1>13 DEF Next

\* The text is a sequence of bytes.
LEMMA TextIs ==
    ASSUME Written, Typed, Replaying PROVE Text \in Seq(Bytes)
  <1> DEFINE m == Len(stream) - Len(replay)
  <1>1. /\ stream \in Seq(Bytes) /\ Len(stream) \in Nat
        /\ replay \in Seq(Bytes) /\ Len(replay) \in Nat /\ from \in Nat
    BY DEF Written, Typed
  <1>2. CASE client \in {"none", "live"}
    <2>1. Len(replay) = 0 /\ from <= Len(stream)
      BY <1>1, <1>2 DEF Replaying
    <2>2. m \in 0 .. Len(stream) /\ from \in 0 .. Len(stream)
      BY <1>1, <2>1
    <2> HIDE DEF m
    <2> QED
      BY <1>1, <2>2, Stretch DEF Text, m
  <1>3. CASE client = "replay"
    <2>1. m \in Nat /\ m <= Len(stream)
      BY <1>1, <1>3 DEF Replaying, PartOf
    <2>2. from <= Len(stream)
      BY <1>1, <1>3, <2>1 DEF Replaying
    <2>3. m \in 0 .. Len(stream) /\ from \in 0 .. Len(stream)
      BY <1>1, <2>1, <2>2
    <2> HIDE DEF m
    <2> QED
      BY <1>1, <2>3, Stretch DEF Text, m
  <1> QED
    BY <1>2, <1>3 DEF Typed

\* What is watched grows with what comes in, and what is looked at is the
\* window and what has come in.
LEMMA NextWatched ==
    ASSUME PatternsFit, Written, Typed, Replaying, Watched, [Next]_vars
    PROVE  Watched'
  <1> DEFINE L == Len(stream)
             m == L - Len(replay)
  <1>1. opt' = opt
    BY NextSameCall
  <1>2. /\ stream \in Seq(Bytes) /\ L \in Nat
        /\ replay \in Seq(Bytes) /\ Len(replay) \in Nat /\ from \in Nat
        /\ buf \in Seq(Bytes) /\ base \in Nat
    BY DEF Written, Typed
  <1>3. Text = SubSeq(stream, from + 1, m)
    BY DEF Text
  <1>4. Text' = SubSeq(stream', from' + 1, Len(stream') - Len(replay'))
    BY DEF Text
  <1>5. ASSUME client # "none" PROVE m \in 0..L /\ from \in 0..L
    <2>1. CASE client = "replay"
      <3>1. m \in Nat /\ m <= L
        BY <1>2, <2>1 DEF Replaying, PartOf
      <3>2. from <= L
        BY <1>2, <2>1, <3>1 DEF Replaying
      <3> QED
        BY <1>2, <3>1, <3>2
    <2>2. CASE client = "live"
      <3>1. Len(replay) = 0 /\ from <= L
        BY <2>2 DEF Replaying
      <3> QED
        BY <1>2, <3>1
    <2> QED
      BY <1>5, <2>1, <2>2 DEF Typed
  \* Output that comes in after the text.
  <1>6. ASSUME NEW q \in Seq(Bytes), from \in 0..m, m \in 0..L,
               stream' \in Seq(Bytes), PartOf(stream, stream', 0),
               PartOf(q, stream', m), from' = from,
               Len(stream') - Len(replay') = m + Len(q),
               outcome = "run" => armed,
               Running => OnOutput(q), ~Running => UNCHANGED expectVars
        PROVE  Watched'
    <2>1. /\ Text \in Seq(Bytes) /\ Text' \in Seq(Bytes)
          /\ PartOf(Text, Text', 0) /\ PartOf(q, Text', Len(Text))
          /\ Len(Text) + Len(q) = Len(Text')
      <3> DEFINE k == m
                 y == stream'
                 t == SubSeq(stream, from + 1, k)
                 t2 == SubSeq(y, from + 1, k + Len(q))
      <3>1. t = Text /\ t2 = Text'
        BY <1>3, <1>4, <1>6
      <3>2. /\ k \in 0 .. Len(stream) /\ from \in 0..k /\ y \in Seq(Bytes)
            /\ PartOf(stream, y, 0) /\ PartOf(q, y, k)
        BY <1>6
      <3> HIDE DEF k, y, L
      <3>3. /\ t \in Seq(Bytes) /\ t2 \in Seq(Bytes) /\ PartOf(t, t2, 0)
            /\ PartOf(q, t2, Len(t)) /\ Len(t) + Len(q) = Len(t2)
        <4>1. Longer(stream, y, k, from, q)
          BY <1>2, <1>6, <3>2, LongerStretch
        <4> QED
          BY <4>1 DEF Longer
      <3> HIDE DEF t, t2
      <3> QED
        BY <3>1, <3>3
    <2>2. CASE Running
      <3> DEFINE s == buf \o q
      <3>1. ScanBuf(s)
        BY <1>6, <2>2 DEF OnOutput, Running
      <3>2. outcome = "run" /\ WindowOf(Text, hits, buf, base)
        BY <2>2 DEF Watched, Running
      <3>3. PartOf(buf, Text, base) /\ base + Len(buf) = Len(Text)
        BY <3>2 DEF WindowOf
      <3>4. /\ s \in Seq(Bytes) /\ PartOf(s, Text', base)
            /\ base + Len(s) = Len(Text')
        <4> DEFINE t == Text
                   t2 == Text'
        <4>1. /\ t \in Seq(Bytes) /\ t2 \in Seq(Bytes) /\ PartOf(t, t2, 0)
              /\ PartOf(q, t2, Len(t)) /\ Len(t) + Len(q) = Len(t2)
              /\ PartOf(buf, t, base) /\ base + Len(buf) = Len(t)
              /\ q \in Seq(Bytes) /\ buf \in Seq(Bytes)
          BY <1>2, <1>6, <2>1, <3>3
        <4> HIDE DEF t, t2
        <4>2. /\ s \in Seq(Bytes) /\ PartOf(s, t2, base)
              /\ base + Len(s) = Len(t2)
          BY <4>1, WindowAppended
        <4> HIDE DEF s
        <4> QED
          BY <4>2 DEF t2
      <3> HIDE DEF s
      <3> QED
        BY <1>1, <2>1, <3>1, <3>2, <3>4, ScanWatched
    <2>3. CASE ~Running
      <3>1. UNCHANGED hits /\ outcome' # "run"
        BY <1>6, <2>3 DEF Running, expectVars
      <3> QED
        BY <1>1, <2>1, <3>1, MoreText
    <2> QED
      BY <2>2, <2>3
  <1>7. ASSUME UNCHANGED <<stream, replay, from, hits, buf, base>>,
               outcome' = outcome \/ outcome = "run"
        PROVE  Watched'
    BY <1>1, <1>7, SameText DEF Text
  <1> HIDE DEF L, m
  <1>8. ASSUME NEW p \in Chunks, Chunk(p) PROVE Watched'
    <2>1. /\ client # "replay" /\ stream' = stream \o p
          /\ UNCHANGED <<replay, client, from>>
          /\ IF client = "live" /\ Running THEN OnOutput(p)
             ELSE UNCHANGED expectVars
      BY <1>8 DEF Chunk
    <2>2. p \in Seq(Bytes) /\ Len(p) \in Nat
      BY ChunkIs
    <2>3. CASE client = "none"
      <3>1. hits' = <<>> /\ outcome' = "idle"
        BY <2>1, <2>3 DEF Replaying, expectVars
      <3> QED
        BY <1>1, <3>1, NothingReported
    <2>4. CASE client = "live"
      <3>1. /\ Len(replay) = 0 /\ from <= L
            /\ outcome = "run" => armed
        BY <2>4 DEF Replaying, L
      <3>2. m = L /\ from \in 0..m /\ m \in 0..L
        BY <1>2, <3>1 DEF m
      <3>3. /\ stream' \in Seq(Bytes) /\ Len(stream') = L + Len(p)
            /\ \A i \in 1 .. L + Len(p) :
                  stream'[i] = IF i <= L THEN stream[i] ELSE p[i - L]
        BY <1>2, <2>1, <2>2, ConcatProperties DEF L
      <3>4. PartOf(stream, stream', 0)
        <4>1. \A n \in 1..L : n \in 1 .. L + Len(p) /\ 0 + n = n /\ n <= L
          BY <1>2, <2>2
        <4>2. 0 + L <= Len(stream')
          BY <1>2, <2>2, <3>3
        <4> QED
          BY <3>3, <4>1, <4>2 DEF PartOf, L
      <3>5. PartOf(p, stream', L)
        <4>1. ASSUME NEW n \in 1 .. Len(p) PROVE stream'[L + n] = p[n]
          <5> DEFINE i == L + n
          <5>1. i \in 1 .. L + Len(p) /\ ~(i <= L) /\ i - L = n
            BY <1>2, <2>2
          <5> HIDE DEF i
          <5>2. stream'[i] = p[n]
            BY <3>3, <5>1
          <5> QED
            BY <5>2 DEF i
        <4>2. L + Len(p) <= Len(stream')
          BY <1>2, <2>2, <3>3
        <4> QED
          BY <1>2, <4>1, <4>2 DEF PartOf
      <3>6. Len(stream') - Len(replay') = m + Len(p)
        BY <1>2, <2>1, <2>2, <3>1, <3>2, <3>3
      <3> QED
        BY <1>6, <2>1, <2>2, <2>4, <3>1, <3>2, <3>3, <3>4, <3>5, <3>6
    <2> QED
      BY <2>1, <2>3, <2>4 DEF Typed
  <1>9. CASE Attach
    <2> DEFINE x == Snapshot(ring)
    <2>1. PartOf(x, stream, L - Len(x)) /\ Len(x) \in Nat
      BY SnapshotIs DEF L
    <2>2. /\ replay' = x /\ stream' = stream /\ client = "none"
          /\ from' = IF opt.scrollback THEN L - Len(x) ELSE L
          /\ UNCHANGED <<hits, buf, base>>
      BY <1>9 DEF Attach, ExpectStart, L
    <2> HIDE DEF x
    <2>3. L - Len(x) \in 0..L /\ from' \in 0..L
          /\ (from' <= L - Len(x) => L - Len(x) - from' = 0)
      <3>1. L - Len(x) \in Nat /\ L - Len(x) <= L
        BY <1>2, <2>1 DEF PartOf
      <3> QED
        BY <1>2, <2>1, <2>2, <3>1
    <2>4. Text' = <<>>
      <3> DEFINE a == from'
                 z == L - Len(x)
                 t == SubSeq(stream, a + 1, z)
      <3>1. Text' = t
        BY <1>4, <2>2 DEF L
      <3>2. /\ a \in 0 .. Len(stream) /\ z \in 0 .. Len(stream)
            /\ a <= z => z - a = 0
        BY <2>3 DEF L
      <3> HIDE DEF a, z
      <3>3. t \in Seq(Bytes) /\ Len(t) = (IF a <= z THEN z - a ELSE 0)
        BY <1>2, <3>2, Stretch
      <3> HIDE DEF t
      <3>4. Len(t) = 0
        BY <3>2, <3>3
      <3> QED
        BY <3>1, <3>3, <3>4, EmptySeq
    <2>5. hits' = <<>> /\ buf' = <<>> /\ base' = 0
      BY <2>2 DEF Replaying
    <2> QED
      BY <1>1, <2>4, <2>5, NothingWatched
  <1>10. CASE Frame
    <2>1. PICK n \in 0 .. Len(replay) :
             /\ replay' \in Seq(Bytes) /\ Len(replay') = Len(replay) - n
             /\ SubSeq(replay, 1, n) \in Seq(Bytes)
             /\ Len(SubSeq(replay, 1, n)) = n
             /\ PartOf(SubSeq(replay, 1, n), replay, 0)
             /\ Running => OnOutput(SubSeq(replay, 1, n))
             /\ ~Running => UNCHANGED expectVars
      BY <1>10, FrameIs
    <2> DEFINE q == SubSeq(replay, 1, n)
    <2>2. client = "replay" /\ UNCHANGED <<stream, client, from>>
      BY <1>10 DEF Frame
    <2>3. m \in 0..L /\ from \in 0..L
      BY <1>5, <2>2
    <2>4. Len(stream') - Len(replay') = m + n
      BY <1>2, <2>1, <2>2 DEF m, L
    <2>5. CASE armed
      <3>1. from \in 0..m
        BY <1>2, <2>2, <2>3, <2>5 DEF Replaying, m, L
      <3>2. PartOf(stream, stream', 0)
        <4>1. 0 + L <= L /\ \A i \in 1..L : 0 + i = i
          BY <1>2
        <4> QED
          BY <2>2, <4>1 DEF PartOf, L
      <3>3. PartOf(q, stream', m)
        <4>1. PartOf(replay, stream, m)
          BY <2>2 DEF Replaying, m, L
        <4>2. q \in Seq(Bytes) /\ PartOf(q, replay, 0) /\ m + 0 = m
          BY <2>1, <2>3
        <4> HIDE DEF q
        <4>3. PartOf(q, stream, m + 0)
          BY <1>2, <4>1, <4>2, PartOfPart
        <4> QED
          BY <2>2, <4>2, <4>3
      <3>4. /\ q \in Seq(Bytes) /\ Len(q) = n /\ stream' \in Seq(Bytes)
            /\ Running => OnOutput(q)
        BY <1>2, <2>1, <2>2
      <3> HIDE DEF q
      <3> QED
        BY <1>6, <2>1, <2>2, <2>3, <2>4, <2>5, <3>1, <3>2, <3>3, <3>4
    <2>6. CASE ~armed
      <3>1. UNCHANGED <<hits, buf, base, outcome>>
        BY <2>1, <2>6 DEF OnOutput, expectVars
      <3>2. from = L
        BY <2>2, <2>6 DEF Replaying, L
      <3>3. \A z \in 0..L : SubSeq(stream, L + 1, z) = <<>>
        <4>1. ASSUME NEW z \in 0 .. Len(stream)
              PROVE  SubSeq(stream, Len(stream) + 1, z) = <<>>
          <5> DEFINE a == Len(stream)
                     t == SubSeq(stream, a + 1, z)
          <5>1. a \in 0 .. Len(stream) /\ (a <= z => z - a = 0)
            BY <1>2
          <5> HIDE DEF a
          <5>2. t \in Seq(Bytes) /\ Len(t) = (IF a <= z THEN z - a ELSE 0)
            BY <1>2, <5>1, Stretch
          <5> HIDE DEF t
          <5>3. t = <<>>
            BY <5>1, <5>2, EmptySeq
          <5> QED
            BY <5>3 DEF t, a
        <4> QED
          BY <4>1 DEF L
      <3>4. m + n \in 0..L
        BY <1>2, <2>1, <2>3 DEF m
      <3>5. Text' = Text
        BY <1>3, <1>4, <2>2, <2>3, <2>4, <3>2, <3>3, <3>4
      <3> QED
        BY <1>1, <3>1, <3>5, SameText
    <2> QED
      BY <2>5, <2>6
  <1>11. CASE ReplayEnd
    <2>1. /\ client = "replay" /\ UNCHANGED <<stream, replay, from>>
          /\ IF Running THEN OnScrollbackEnd ELSE UNCHANGED expectVars
      BY <1>11 DEF ReplayEnd
    <2>2. Text' = Text
      BY <2>1 DEF Text
    <2>3. Text \in Seq(Bytes)
      BY TextIs
    <2>4. CASE Running
      <3>1. outcome = "run" /\ ScanBuf(buf)
        BY <2>1, <2>4 DEF OnScrollbackEnd, Running
      <3>2. PartOf(buf, Text, base) /\ base + Len(buf) = Len(Text)
        BY <3>1 DEF Watched, WindowOf
      <3>3. PartOf(Text, Text, 0)
        <4>1. Len(Text) \in Nat
          BY <2>3
        <4>2. 0 + Len(Text) <= Len(Text) /\ \A i \in 1 .. Len(Text) : 0 + i = i
          BY <4>1
        <4> QED
          BY <4>2 DEF PartOf
      <3> QED
        BY <1>1, <1>2, <2>2, <2>3, <3>1, <3>2, <3>3, ScanWatched
    <2>5. CASE ~Running
      BY <1>7, <2>1, <2>5 DEF expectVars
    <2> QED
      BY <2>4, <2>5
  <1>12. CASE Exit
    BY <1>7, <1>12 DEF Exit, OnExit, ExpectEnds, Running, expectVars
  <1>13. CASE Killed
    BY <1>7, <1>13 DEF Killed, expectVars
  <1>14. CASE Closed
    BY <1>7, <1>14 DEF Closed, OnClosed, ExpectEnds, Running
  <1>15. CASE Timer
    BY <1>7, <1>15 DEF Timer, OnIdle, OnDeadline, OnSignal, ExpectEnds, Running
  <1>16. CASE UNCHANGED vars
    BY <1>7, <1>16 DEF vars, expectVars
  <1> QED
    BY <1>8, <1>9, <1>10, <1>11, <1>12, <1>13, <1>14, <1>15, <1>16 DEF Next

\* What is watched is so as long as `expect' may find what it looks for.
LEMMA WatchedCorrect ==
    ASSUME PatternsFit PROVE Spec => [](Replaying /\ Watched)
  <1> DEFINE IInv == Written /\ Typed /\ Replaying /\ Watched
  <1>1. Init => IInv
    BY InitWritten, InitTyped, InitReplaying
  <1>2. IInv /\ [Next]_vars => IInv'
    BY NextWritten, NextTyped, NextReplaying, NextWatched
  <1>3. IInv => Replaying /\ Watched
    OBVIOUS
  <1> QED
    BY <1>1, <1>2, <1>3, PTL DEF Spec

\* What `expect' reports (ctl.go, ctlExpect): whatever the chunks and the
\* frames, every match it reports is in the output at the offset it says, the
\* matches do not overlap, and while it runs no pattern is between them or
\* after the last; nothing of what was written before it attached counts
\* unless it was asked for.  The patterns may be at most one byte longer than
\* the window: a longer one is lost when it comes in small chunks.
THEOREM ReportsCorrect == ASSUME PatternsFit PROVE Spec => []ReportsExact
  <1>1. Written /\ Typed /\ Replaying /\ Watched => ReportsExact
    <2> SUFFICES ASSUME Written, Typed, Replaying, Watched
                 PROVE  ReportsExact
      OBVIOUS
    <2> DEFINE hs == hits
               t == Text
    <2>1. /\ opt \in Options /\ hs \in Seq(Hits) /\ Len(hs) \in Nat
          /\ t \in Seq(Bytes) /\ HitsIn(t, 0, hs, 0)
          /\ outcome = "run" => Calm(t, hs)
      BY TextIs DEF Typed, Watched, Reported
    <2>2. \A i \in 1 .. Len(hs) :
             /\ hs[i].kind \in GivenKinds /\ hs[i].off \in Int
             /\ Len(Pattern(hs[i].kind)) \in Nat
      <3>1. \A i \in 1 .. Len(hs) : hs[i] \in Hits
        BY <2>1
      <3> QED
        BY <2>1, <3>1, GivenPattern DEF Hits
    <2>3. ASSUME NEW i \in 1 .. Len(hs)
          PROVE  /\ OccursAt(hs[i].kind, hs[i].off)
                 /\ hs[i].off >= EndBefore(hs, i - 1, 0)
                 /\ 0 <= hs[i].off /\ EndOf(hs[i]) <= Len(t)
                 /\ EndOf(hs[i]) >= 0 /\ hs[i].off <= Len(t)
      <3> DEFINE o == hs[i].off
                 l == Len(Pattern(hs[i].kind))
      <3>1. /\ o - 0 \in Places(Pattern(hs[i].kind), t)
            /\ IsAt(Pattern(hs[i].kind), t, o - 0)
            /\ o >= EndBefore(hs, i - 1, 0)
        BY <2>1 DEF HitsIn
      <3>2. o \in Int /\ l \in Nat
        BY <2>2
      <3>3. o - 0 = o
        BY <3>2
      <3> HIDE DEF o
      <3>4. o \in 0 .. Len(t) - l
        BY <3>1, <3>3 DEF Places
      <3>5. OccursAt(hs[i].kind, o)
        BY <3>1, <3>3 DEF OccursAt, IsAt
      <3> HIDE DEF l
      <3>6. 0 <= o /\ o + l <= Len(t) /\ o + l >= 0 /\ o <= Len(t)
        BY <3>2, <3>4
      <3> QED
        BY <3>1, <3>5, <3>6 DEF EndOf, o, l
    <2> HIDE DEF hs, t
    <2>4. ASSUME outcome = "run", NEW i \in 0 .. Len(hs), NEW k \in Kinds,
                 NEW off \in EndBefore(hs, i, 0)
                             .. NextStart(hs, i, Len(t)) - Len(Pattern(k))
          PROVE  ~OccursAt(k, off)
      <3> DEFINE l == Len(Pattern(k))
                 a == EndBefore(hs, i, 0)
                 z == NextStart(hs, i, Len(t))
      <3>1. /\ k \in GivenKinds /\ Pattern(k) # <<>>
            /\ Pattern(k) \in Seq(Bytes) /\ l \in Nat
        <4>1. k \in GivenKinds /\ Pattern(k) # <<>>
          BY DEF Kinds, GivenKinds
        <4> QED
          BY <2>1, <4>1, GivenPattern
      <3>2. l > 0
        BY <3>1, EmptySeq
      <3>3. a \in Int /\ a >= 0
        <4>1. CASE i = 0
          BY <4>1 DEF EndBefore
        <4>2. CASE i # 0
          <5>1. i \in 1 .. Len(hs)
            BY <2>1, <4>2
          <5> DEFINE o == hs[i].off
                     y == Len(Pattern(hs[i].kind))
          <5>2. o \in Int /\ y \in Nat
            BY <2>2, <5>1
          <5>3. a = o + y
            BY <4>2 DEF EndBefore, EndOf
          <5>4. 0 <= o
            BY <2>3, <5>1
          <5> HIDE DEF o, y, a
          <5> QED
            BY <5>2, <5>3, <5>4
        <4> QED
          BY <4>1, <4>2
      <3>4. z \in Int /\ z <= Len(t) /\ Len(t) \in Nat
        <4>1. Len(t) \in Nat
          BY <2>1
        <4>2. CASE i < Len(hs)
          <5>1. i + 1 \in 1 .. Len(hs)
            BY <2>1, <4>2
          <5> QED
            BY <2>2, <2>3, <4>1, <4>2, <5>1 DEF NextStart
        <4>3. CASE ~(i < Len(hs))
          BY <4>1, <4>3 DEF NextStart
        <4> QED
          BY <4>2, <4>3
      <3> HIDE DEF l, a, z
      <3>5. /\ off \in Int /\ a <= off /\ off + l <= z
            /\ off \in 0 .. Len(t) - l
            /\ 0 + off = off /\ 0 + off + l = off + l
        <4>1. off \in a .. z - l
          BY <2>4 DEF a, z, l
        <4> QED
          BY <3>1, <3>3, <3>4, <4>1
      <3>6. t # <<>>
        <4>1. Len(t) # 0
          BY <3>1, <3>2, <3>4, <3>5
        <4> QED
          BY <4>1
      <3>7. GapsFree(t, 0, hs, 0, Len(t))
        BY <2>1, <2>4, <3>6 DEF Calm
      <3>8. off \in Places(Pattern(k), t)
        BY <3>5 DEF Places, l
      <3>9. ~IsAt(Pattern(k), t, off)
        BY <3>1, <3>5, <3>7, <3>8 DEF GapsFree, a, z, l
      <3> QED
        BY <3>9 DEF IsAt, OccursAt, t
    <2>5. \A i \in 1 .. Len(hs) :
             (IF i - 1 = 0 THEN 0 ELSE EndOf(hs[i - 1])) = EndBefore(hs, i - 1, 0)
      BY DEF EndBefore
    <2>6. /\ \A i \in 0 .. Len(hs) :
                /\ (IF i = 0 THEN 0 ELSE EndOf(hs[i])) = EndBefore(hs, i, 0)
                /\ (IF i < Len(hs) THEN hs[i + 1].off ELSE Len(t))
                      = NextStart(hs, i, Len(t))
      BY DEF EndBefore, NextStart
    <2> QED
      BY <2>3, <2>4, <2>5, <2>6 DEF ReportsExact, hs, t
  <1> QED
    BY <1>1, WrittenCorrect, TypedCorrect, WatchedCorrect, PTL
=============================================================================
