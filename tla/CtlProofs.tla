------------------------------ MODULE CtlProofs ------------------------------
(***************************************************************************)
(* Proofs about Ctl, for any keys, typing, windows and command lines, in   *)
(* this order:                                                             *)
(*   - occurrences of a sequence of at most two bytes in what is typed     *)
(*     (EndsAtLonger, OccursLonger);                                       *)
(*   - the matcher: byte by byte (ByteRead) and so chunk by chunk          *)
(*     (FeedRead) it has read what the definition of Forwarded says;       *)
(*   - the bytes on their way to the session (CarriedAppend,               *)
(*     CarriedFirst);                                                      *)
(*   - the system: the invariants Typed and Exact, and the theorem about   *)
(*     what is typed (DetachCorrect);                                      *)
(*   - the votes for the size of the session: the invariants Voting, Sized *)
(*     and Following, and the theorem about its size (SizeCorrect);        *)
(*   - the command line: the namespace flags (ExtractReads), the flags of  *)
(*     `new' (FileReads, ArgsReads), and that they are the request that    *)
(*     the definition of IsRequest reads off the line (AnswerIsRequest);   *)
(*   - the invariant Answered, and the theorem about what is asked of the  *)
(*     daemon (RequestCorrect).                                            *)
(***************************************************************************)
EXTENDS Ctl, Induction, SequenceTheorems, TLAPS

-----------------------------------------------------------------------------
(* Sequences of bytes: what is typed, and the keys *)

\* The sequences that may detach.
Keys == {<<>>} \cup {ResolveDetach(s.config[1], s.config[2]) : s \in Starts}

\* What the bytes of stdin, and of those sequences, may be.
Symbols == Typeable \cup {k[i] : k \in Keys, i \in 1..2}

\* A sequence that detaches has at most two bytes.
LEMMA KeysAre ==
    ASSUME NEW q \in Keys PROVE q \in Seq(Symbols) /\ Len(q) \in 0..2
  <1>1. \A i \in 1..2 : q[i] \in Symbols
    BY DEF Symbols
  <1>2. q = <<>> \/ (\E x : q = <<x>>) \/ (\E x, y : q = <<x, y>>)
    <2>1. \A c, d : LET r == ResolveDetach(c, d)
                    IN r = <<>> \/ (\E x : r = <<x>>) \/ (\E x, y : r = <<x, y>>)
      <3> SUFFICES ASSUME NEW c, NEW d
                   PROVE  LET r == ResolveDetach(c, d)
                          IN \/ r = <<>> \/ (\E x : r = <<x>>)
                             \/ (\E x, y : r = <<x, y>>)
        OBVIOUS
      <3> DEFINE p == ParseKey(c, FALSE)
                 k == ParseKey(d, p >= 0)
      <3> HIDE DEF p, k
      <3>1. ResolveDetach(c, d) = IF BadKey \in {p, k} THEN <<BadKey>>
                                  ELSE IF k = NoKey THEN <<>>
                                  ELSE IF p >= 0 THEN <<p, k>> ELSE <<k>>
        BY DEF ResolveDetach, BadConfig, p, k
      <3> QED
        BY <3>1
    <2> QED
      BY <2>1 DEF Keys
  <1>3. CASE q = <<>>
    BY <1>3
  <1>4. ASSUME NEW x, q = <<x>> PROVE q \in Seq(Symbols) /\ Len(q) \in 0..2
    <2>1. x \in Symbols
      BY <1>1, <1>4
    <2> QED
      BY <1>4, <2>1
  <1>5. ASSUME NEW x, NEW y, q = <<x, y>>
        PROVE  q \in Seq(Symbols) /\ Len(q) \in 0..2
    <2>1. x \in Symbols /\ y \in Symbols
      BY <1>1, <1>5
    <2> QED
      BY <1>5, <2>1
  <1> QED
    BY <1>2, <1>3, <1>4, <1>5

\* Writing one after the other.
LEMMA Joining ==
    /\ \A x, y \in Seq(Symbols) : x \o y \in Seq(Symbols)
    /\ \A x, y, z \in Seq(Symbols) : (x \o y) \o z = x \o (y \o z)
    /\ \A x \in Seq(Symbols) : x \o <<>> = x /\ <<>> \o x = x
    /\ \A x \in Seq(Symbols), b \in Symbols :
          Append(x, b) \in Seq(Symbols) /\ Append(x, b) = x \o <<b>>
    /\ <<>> \in Seq(Symbols) /\ \A b \in Symbols : <<b>> \in Seq(Symbols)
  <1>1. \A x, y \in Seq(Symbols) : x \o y \in Seq(Symbols)
    OBVIOUS
  <1>2. \A x, y, z \in Seq(Symbols) : (x \o y) \o z = x \o (y \o z)
    BY ConcatAssociative
  <1>3. \A x \in Seq(Symbols) : x \o <<>> = x /\ <<>> \o x = x
    BY ConcatEmptySeq
  <1>4. \A x \in Seq(Symbols), b \in Symbols :
           Append(x, b) \in Seq(Symbols) /\ Append(x, b) = x \o <<b>>
    BY AppendProperties, AppendIsConcat
  <1>5. <<>> \in Seq(Symbols) /\ \A b \in Symbols : <<b>> \in Seq(Symbols)
    OBVIOUS
  <1> QED
    BY <1>1, <1>2, <1>3, <1>4, <1>5

\* The first n of them.
LEMMA FirstOf ==
    ASSUME NEW x \in Seq(Symbols), NEW n \in 0 .. Len(x)
    PROVE  /\ SubSeq(x, 1, n) \in Seq(Symbols) /\ Len(SubSeq(x, 1, n)) = n
           /\ \A i \in 1..n : SubSeq(x, 1, n)[i] = x[i]
  <1>1. \A i \in 1..n : x[i] \in Symbols
    BY ElementOfSeq
  <1>2. /\ SubSeq(x, 1, n) \in Seq(Symbols)
        /\ Len(SubSeq(x, 1, n)) = IF 1 <= n THEN n - 1 + 1 ELSE 0
        /\ \A i \in 1 .. n - 1 + 1 : SubSeq(x, 1, n)[i] = x[1 + i - 1]
    BY <1>1, SubSeqProperties
  <1>3. n - 1 + 1 = n /\ \A i \in 1..n : 1 + i - 1 = i
    OBVIOUS
  <1> QED
    BY <1>2, <1>3

\* The first n of a longer one are the same.
LEMMA FirstOfLonger ==
    ASSUME NEW x \in Seq(Symbols), NEW b \in Symbols, NEW n \in 0 .. Len(x)
    PROVE  SubSeq(Append(x, b), 1, n) = SubSeq(x, 1, n)
  <1> DEFINE z == Append(x, b)
  <1>1. /\ z \in Seq(Symbols) /\ Len(z) = Len(x) + 1
        /\ \A i \in 1 .. Len(x) : z[i] = x[i]
    BY AppendProperties
  <1>2. n \in 0 .. Len(z)
    BY <1>1
  <1> HIDE DEF z
  <1>3. /\ SubSeq(z, 1, n) \in Seq(Symbols) /\ Len(SubSeq(z, 1, n)) = n
        /\ \A i \in 1..n : SubSeq(z, 1, n)[i] = z[i]
    BY <1>1, <1>2, FirstOf
  <1>4. /\ SubSeq(x, 1, n) \in Seq(Symbols) /\ Len(SubSeq(x, 1, n)) = n
        /\ \A i \in 1..n : SubSeq(x, 1, n)[i] = x[i]
    BY FirstOf
  <1> DEFINE u == SubSeq(z, 1, n)
             v == SubSeq(x, 1, n)
  <1>5. Len(u) = Len(v) /\ \A i \in 1 .. Len(u) : u[i] = v[i]
    BY <1>1, <1>3, <1>4
  <1> HIDE DEF u, v
  <1>6. u = v
    BY <1>3, <1>4, <1>5, SeqEqual DEF u, v
  <1> QED
    BY <1>6 DEF u, v, z

\* All but the last, and the last.
LEMMA LastByte ==
    ASSUME NEW x \in Seq(Symbols), x # <<>>
    PROVE  /\ Len(x) \in Nat \ {0} /\ x[Len(x)] \in Symbols
           /\ x = SubSeq(x, 1, Len(x) - 1) \o <<x[Len(x)]>>
  <1>1. Len(x) \in Nat \ {0}
    BY EmptySeq
  <1>2. SubSeq(x, 1, Len(x)) = x
    BY SubSeqFull
  <1>3. 1 \in 1 .. Len(x) /\ Len(x) \in 1 .. Len(x)
    BY <1>1
  <1>4. SubSeq(x, 1, Len(x)) = SubSeq(x, 1, Len(x) - 1) \o <<x[Len(x)]>>
    BY <1>3, SubSeqRecursiveSecond
  <1> QED
    BY <1>1, <1>2, <1>3, <1>4, ElementOfSeq


\* Three and four pieces, whichever are joined first.
LEMMA Three ==
    ASSUME NEW x \in Seq(Symbols), NEW y \in Seq(Symbols),
           NEW z \in Seq(Symbols)
    PROVE  (x \o y) \o z = x \o (y \o z)
  BY ConcatAssociative

\* The same for four.
LEMMA Four ==
    ASSUME NEW x \in Seq(Symbols), NEW y \in Seq(Symbols),
           NEW z \in Seq(Symbols), NEW u \in Seq(Symbols)
    PROVE  (x \o (y \o z)) \o u = x \o (y \o (z \o u))
  <1> DEFINE v == y \o z
  <1>1. v \in Seq(Symbols)
    OBVIOUS
  <1>2. v \o u = y \o (z \o u)
    BY Three
  <1> HIDE DEF v
  <1>3. (x \o v) \o u = x \o (v \o u)
    BY <1>1, Three
  <1> QED
    BY <1>2, <1>3 DEF v
-----------------------------------------------------------------------------
(* The matcher *)

\* An occurrence, byte by byte.
LEMMA EndsAtIs ==
    ASSUME NEW q \in Seq(Symbols), Len(q) \in 1..2,
           NEW x \in Seq(Symbols), NEW i \in 1 .. Len(x)
    PROVE  EndsAt(q, x, i) <=> /\ i >= Len(q) /\ x[i] = q[Len(q)]
                               /\ Len(q) = 2 => x[i - 1] = q[1]
  <1> DEFINE l == Len(q)
             a == i - l + 1
             u == SubSeq(x, a, i)
  <1>1. q # <<>>
    <2>1. \A n \in 1..2 : n # 0
      OBVIOUS
    <2> QED
      BY <2>1, EmptySeq
  <1>2. l \in 1..2 /\ i \in Nat /\ \A n \in 1..i : x[n] \in Symbols
    BY ElementOfSeq
  <1> HIDE DEF l
  <1>3. ASSUME i >= l
        PROVE  /\ u \in Seq(Symbols) /\ Len(u) = l
               /\ \A n \in 1..l : u[n] = x[a + n - 1]
    <2>1. /\ a \in Int /\ i \in Int /\ a <= i /\ i - a + 1 = l
          /\ \A n \in a..i : n \in 1..i
      BY <1>2, <1>3
    <2>2. \A n \in a..i : x[n] \in Symbols
      BY <1>2, <2>1
    <2> HIDE DEF a
    <2> QED
      BY <2>1, <2>2, SubSeqProperties
  <1>4. ASSUME i >= l
        PROVE  u = q <=> x[i] = q[l] /\ (l = 2 => x[i - 1] = q[1])
    <2>1. u = q <=> \A n \in 1..l : u[n] = q[n]
      <3> HIDE DEF u
      <3> QED
        BY <1>3, <1>4, SeqEqual DEF l
    <2>2. l \in 1..l /\ a + l - 1 = i /\ (l = 2 => a + 1 - 1 = i - 1)
          /\ 1 \in 1..l
      BY <1>2
    <2> HIDE DEF u, a
    <2>3. u[l] = x[i] /\ (l = 2 => u[1] = x[i - 1])
      BY <1>3, <1>4, <2>2
    <2>4. \A n \in 1..l : n = l \/ (n = 1 /\ l = 2)
      BY <1>2
    <2> QED
      BY <2>1, <2>2, <2>3, <2>4
  <1> QED
    BY <1>1, <1>4 DEF EndsAt, l

\* The end of a longer text: what was there before, and whether it ends there.
LEMMA EndsAtLonger ==
    ASSUME NEW q \in Seq(Symbols), Len(q) \in 0..2,
           NEW x \in Seq(Symbols), NEW b \in Symbols
    PROVE  /\ \A i \in 1 .. Len(x) :
                 EndsAt(q, Append(x, b), i) <=> EndsAt(q, x, i)
           /\ EndsAt(q, Append(x, b), Len(x) + 1) <=>
                 \/ Len(q) = 1 /\ b = q[1]
                 \/ Len(q) = 2 /\ b = q[2] /\ x # <<>> /\ x[Len(x)] = q[1]
  <1> DEFINE z == Append(x, b)
  <1>1. /\ z \in Seq(Symbols) /\ Len(z) = Len(x) + 1 /\ Len(x) \in Nat
        /\ \A i \in 1 .. Len(x) : z[i] = x[i]
        /\ z[Len(x) + 1] = b
    BY AppendProperties
  <1> HIDE DEF z
  <1>2. CASE Len(q) = 0
    <2>1. q = <<>>
      BY <1>2, EmptySeq
    <2> QED
      BY <1>2, <2>1 DEF EndsAt
  <1>3. CASE Len(q) \in 1..2
    <2>1. ASSUME NEW i \in 1 .. Len(x) PROVE EndsAt(q, z, i) <=> EndsAt(q, x, i)
      <3>1. EndsAt(q, x, i) <=> /\ i >= Len(q) /\ x[i] = q[Len(q)]
                                /\ Len(q) = 2 => x[i - 1] = q[1]
        BY <1>3, EndsAtIs
      <3>2. i \in 1 .. Len(z)
        BY <1>1
      <3>3. EndsAt(q, z, i) <=> /\ i >= Len(q) /\ z[i] = q[Len(q)]
                                /\ Len(q) = 2 => z[i - 1] = q[1]
        BY <1>1, <1>3, <3>2, EndsAtIs
      <3>4. z[i] = x[i]
        BY <1>1
      <3>5. i >= 2 => z[i - 1] = x[i - 1]
        <4>1. i >= 2 => i - 1 \in 1 .. Len(x)
          BY <1>1
        <4> QED
          BY <1>1, <4>1
      <3> QED
        BY <3>1, <3>3, <3>4, <3>5
    <2> DEFINE k == Len(x) + 1
    <2>2. k \in 1 .. Len(z) /\ k - 1 = Len(x) /\ (k >= 2 <=> Len(x) # 0)
          /\ k >= 1
      BY <1>1
    <2>3. z[k] = b
      BY <1>1
    <2> HIDE DEF k
    <2>4. EndsAt(q, z, k) <=> /\ k >= Len(q) /\ z[k] = q[Len(q)]
                              /\ Len(q) = 2 => z[k - 1] = q[1]
      BY <1>1, <1>3, <2>2, EndsAtIs
    <2>5. x # <<>> <=> Len(x) # 0
      BY EmptySeq
    <2>6. Len(x) # 0 => z[k - 1] = x[Len(x)]
      <3>1. Len(x) # 0 => Len(x) \in 1 .. Len(x)
        BY <1>1
      <3> QED
        BY <1>1, <2>2, <3>1
    <2>7. EndsAt(q, z, k) <=>
             \/ Len(q) = 1 /\ b = q[1]
             \/ Len(q) = 2 /\ b = q[2] /\ x # <<>> /\ x[Len(x)] = q[1]
      <3>1. CASE Len(q) = 1
        BY <2>2, <2>3, <2>4, <3>1
      <3>2. CASE Len(q) = 2
        BY <2>2, <2>3, <2>4, <2>5, <2>6, <3>2
      <3> QED
        BY <1>3, <3>1, <3>2
    <2> QED
      BY <2>1, <2>7 DEF z, k
  <1> QED
    BY <1>2, <1>3

\* The first occurrence is the first one, if there is one.
LEMMA FirstOccurrence ==
    ASSUME NEW q, NEW x \in Seq(Symbols), NEW i \in 1 .. Len(x),
           EndsAt(q, x, i), \A j \in 1 .. i - 1 : ~EndsAt(q, x, j)
    PROVE  Forwarded(q, x) = SubSeq(x, 1, i - Len(q))
  <1> DEFINE P(k) == /\ EndsAt(q, x, k)
                     /\ \A j \in 1 .. k - 1 : ~EndsAt(q, x, j)
             first == CHOOSE k \in 1 .. Len(x) : P(k)
  <1>1. first \in 1 .. Len(x) /\ P(first)
    OBVIOUS
  <1>2. first = i
    <2> HIDE DEF first
    <2>1. ~(first < i) /\ ~(i < first)
      BY <1>1
    <2> QED
      BY <1>1, <2>1
  <1>3. Occurs(q, x)
    BY DEF Occurs
  <1>4. Forwarded(q, x) = SubSeq(x, 1, first - Len(q))
    BY <1>3 DEF Forwarded
  <1> QED
    BY <1>2, <1>4

\* There is a first one.
LEMMA FirstOne ==
    ASSUME NEW q, NEW x \in Seq(Symbols), Occurs(q, x)
    PROVE  \E i \in 1 .. Len(x) :
              EndsAt(q, x, i) /\ \A j \in 1 .. i - 1 : ~EndsAt(q, x, j)
  <1> DEFINE T == {i \in 1 .. Len(x) : EndsAt(q, x, i)}
  <1>1. T \in SUBSET Nat /\ T # {}
    BY DEF Occurs
  <1>2. \A i : i \in T <=> i \in 1 .. Len(x) /\ EndsAt(q, x, i)
    OBVIOUS
  <1> HIDE DEF T
  <1>3. PICK i \in T : \A j \in T : i <= j
    BY <1>1, LeastNumber
  <1>4. ASSUME NEW j \in 1 .. i - 1 PROVE ~EndsAt(q, x, j)
    <2>1. j \in 1 .. Len(x) /\ ~(i <= j)
      BY <1>2, <1>3
    <2> QED
      BY <1>2, <1>3, <2>1
  <1> QED
    BY <1>2, <1>3, <1>4

\* What has been read once is not read in another way later.
LEMMA OccursLonger ==
    ASSUME NEW q \in Seq(Symbols), Len(q) \in 0..2,
           NEW x \in Seq(Symbols), NEW b \in Symbols, Occurs(q, x)
    PROVE  /\ Occurs(q, Append(x, b))
           /\ Forwarded(q, Append(x, b)) = Forwarded(q, x)
  <1> DEFINE z == Append(x, b)
  <1>1. PICK i \in 1 .. Len(x) :
           EndsAt(q, x, i) /\ \A j \in 1 .. i - 1 : ~EndsAt(q, x, j)
    BY FirstOne
  <1>2. /\ z \in Seq(Symbols) /\ Len(z) = Len(x) + 1 /\ Len(x) \in Nat
    BY AppendProperties
  <1>3. \A j \in 1 .. Len(x) : EndsAt(q, z, j) <=> EndsAt(q, x, j)
    BY EndsAtLonger
  <1>4. SubSeq(z, 1, i - Len(q)) = SubSeq(x, 1, i - Len(q))
    <2>1. i >= Len(q)
      BY <1>1 DEF EndsAt
    <2>2. i - Len(q) \in 0 .. Len(x)
      BY <1>2, <2>1
    <2> QED
      BY <2>2, FirstOfLonger
  <1> HIDE DEF z
  <1>5. /\ i \in 1 .. Len(z) /\ EndsAt(q, z, i)
        /\ \A j \in 1 .. i - 1 : ~EndsAt(q, z, j)
    <2>1. \A j \in 1 .. i - 1 : j \in 1 .. Len(x)
      OBVIOUS
    <2> QED
      BY <1>1, <1>2, <1>3, <2>1
  <1>6. Forwarded(q, z) = SubSeq(z, 1, i - Len(q))
    BY <1>2, <1>5, FirstOccurrence
  <1>7. Forwarded(q, x) = SubSeq(x, 1, i - Len(q))
    BY <1>1, FirstOccurrence
  <1>8. Occurs(q, z)
    BY <1>5 DEF Occurs
  <1> QED
    BY <1>4, <1>6, <1>7, <1>8 DEF z

\* What is held is the end of what has been read.
LEMMA HeldIs ==
    ASSUME NEW q \in Seq(Symbols), Len(q) \in 0..2, NEW x \in Seq(Symbols)
    PROVE  /\ Held(q, x) \in 0..1 /\ Held(q, x) <= Len(x)
           /\ Held(q, x) = 1 <=> /\ Len(q) = 2 /\ x # <<>>
                                 /\ x[Len(x)] = q[1]
           /\ SubSeq(q, 1, Held(q, x)) \in Seq(Symbols)
           /\ x = SubSeq(x, 1, Len(x) - Held(q, x)) \o SubSeq(q, 1, Held(q, x))
  <1> DEFINE h == Held(q, x)
  <1>1. Len(x) \in Nat /\ (x # <<>> => Len(x) >= 1)
    BY EmptySeq
  <1>2. /\ h \in 0..1
        /\ h = 1 <=> Len(q) = 2 /\ x # <<>> /\ x[Len(x)] = q[1]
    BY DEF Held
  <1> HIDE DEF h
  <1>3. h <= Len(x)
    BY <1>1, <1>2
  <1>4. CASE h = 0
    <2>1. SubSeq(q, 1, 0) = <<>>
      BY SubSeqEmpty
    <2>2. SubSeq(x, 1, Len(x)) = x /\ Len(x) - 0 = Len(x)
      BY <1>1, SubSeqFull
    <2>3. x = SubSeq(x, 1, Len(x) - 0) \o SubSeq(q, 1, 0)
      BY <2>1, <2>2, Joining
    <2>4. SubSeq(q, 1, 0) \in Seq(Symbols)
      BY <2>1, Joining
    <2> QED
      BY <1>2, <1>3, <1>4, <2>3, <2>4 DEF h
  <1>5. CASE h = 1
    <2>1. Len(q) = 2 /\ x # <<>> /\ x[Len(x)] = q[1]
      BY <1>2, <1>5
    <2>2. SubSeq(q, 1, 1) = <<q[1]>> /\ <<q[1]>> \in Seq(Symbols)
      <3>1. 1 \in 1 .. Len(q)
        BY <2>1
      <3>2. q[1] \in Symbols
        BY <3>1, ElementOfSeq
      <3>3. /\ SubSeq(q, 1, 1) \in Seq(Symbols) /\ Len(SubSeq(q, 1, 1)) = 1
            /\ SubSeq(q, 1, 1)[1] = q[1]
        <4>1. 1 \in 0 .. Len(q) /\ 1 \in 1..1
          BY <2>1
        <4> QED
          BY <4>1, FirstOf
      <3> DEFINE u == SubSeq(q, 1, 1)
                 v == <<q[1]>>
      <3>4. v \in Seq(Symbols) /\ Len(v) = 1 /\ v[1] = q[1]
        BY <3>2
      <3>5. \A n \in 1..1 : n = 1
        OBVIOUS
      <3> HIDE DEF u, v
      <3>6. u = v
        <4>1. Len(u) = Len(v) /\ \A n \in 1 .. Len(u) : u[n] = v[n]
          BY <3>3, <3>4, <3>5 DEF u
        <4> QED
          BY <3>3, <3>4, <4>1, SeqEqual DEF u
      <3> QED
        BY <3>4, <3>6 DEF u, v
    <2>3. x = SubSeq(x, 1, Len(x) - 1) \o <<x[Len(x)]>>
      BY <2>1, LastByte
    <2> QED
      BY <1>2, <1>3, <1>5, <2>1, <2>2, <2>3 DEF h
  <1> QED
    <2>1. h = 0 \/ h = 1
      BY <1>2
    <2> QED
      BY <1>4, <1>5, <2>1

\* The states of the matcher.
Matchers == [matched : 0..1, out : Seq(Symbols), done : BOOLEAN]

\* The matcher m has read x, of which w had been forwarded before.
HasRead(q, m, x, w) ==
    /\ m \in Matchers
    /\ m.done <=> Occurs(q, x)
    /\ ~m.done => m.matched = Held(q, x)
    /\ Forwarded(q, x) = w \o m.out

\* The byte that completes the sequence.
LEMMA Completed ==
    ASSUME NEW q \in Seq(Symbols), Len(q) \in 1..2, NEW m,
           NEW x \in Seq(Symbols), NEW w \in Seq(Symbols),
           HasRead(q, m, x, w), ~m.done, NEW b \in Symbols,
           b = q[m.matched + 1], m.matched + 1 = Len(q)
    PROVE  HasRead(q, [m EXCEPT !.matched = 0, !.done = TRUE], Append(x, b), w)
  <1> DEFINE h == m.matched
             l == Len(x)
             z == Append(x, b)
             r == [m EXCEPT !.matched = 0, !.done = TRUE]
  <1>1. /\ m \in Matchers /\ h = Held(q, x) /\ ~Occurs(q, x)
        /\ Forwarded(q, x) = w \o m.out
    BY DEF HasRead
  <1>2. /\ h \in 0..1 /\ h <= l /\ l \in Nat
        /\ h = 1 <=> Len(q) = 2 /\ x # <<>> /\ x[Len(x)] = q[1]
    <2>1. Len(q) \in 0..2 /\ l \in Nat
      OBVIOUS
    <2>2. /\ Held(q, x) \in 0..1 /\ Held(q, x) <= Len(x)
          /\ Held(q, x) = 1 <=> Len(q) = 2 /\ x # <<>> /\ x[Len(x)] = q[1]
      BY <2>1, HeldIs
    <2> HIDE DEF h
    <2> QED
      BY <1>1, <2>1, <2>2
  <1>3. /\ r \in Matchers /\ r.done /\ r.out = m.out
    <2>1. 0 \in 0..1 /\ TRUE \in BOOLEAN
      OBVIOUS
    <2> QED
      BY <1>1, <2>1 DEF Matchers
  <1>4. z \in Seq(Symbols) /\ Len(z) = l + 1
    BY AppendProperties
  <1>5. /\ \A i \in 1..l : ~EndsAt(q, z, i)
        /\ EndsAt(q, z, l + 1)
    <2>1. \A i \in 1..l : ~EndsAt(q, x, i)
      BY <1>1 DEF Occurs
    <2>2. \/ Len(q) = 1 /\ b = q[1]
          \/ Len(q) = 2 /\ b = q[2] /\ x # <<>> /\ x[Len(x)] = q[1]
      <3>1. b = q[h + 1] /\ h + 1 = Len(q)
        OBVIOUS
      <3> HIDE DEF h, l
      <3>2. h = 0 \/ h = 1
        BY <1>2
      <3> QED
        BY <1>2, <3>1, <3>2
    <2>3. Len(q) \in 0..2
      OBVIOUS
    <2> QED
      BY <2>1, <2>2, <2>3, EndsAtLonger
  <1>6. l + 1 \in 1 .. Len(z) /\ l + 1 - Len(q) = l - h /\ l + 1 - 1 = l
        /\ l - h \in 0..l
    <2>1. h + 1 = Len(q)
      OBVIOUS
    <2> HIDE DEF h, l, z
    <2> QED
      BY <1>2, <1>4, <2>1
  <1>7. SubSeq(z, 1, l - h) = SubSeq(x, 1, l - h)
    BY <1>6, FirstOfLonger
  <1>8. Forwarded(q, x) = SubSeq(x, 1, l - h)
    BY <1>1 DEF Forwarded
  <1> HIDE DEF z, l, h, r
  <1>9. Occurs(q, z) /\ Forwarded(q, z) = SubSeq(z, 1, l - h)
    <2>1. \A j \in 1 .. l + 1 - 1 : ~EndsAt(q, z, j)
      BY <1>5, <1>6
    <2> DEFINE i == l + 1
    <2>2. i \in 1 .. Len(z) /\ EndsAt(q, z, i) /\ i - Len(q) = l - h
          /\ \A j \in 1 .. i - 1 : ~EndsAt(q, z, j)
      <3>1. i \in 1 .. Len(z) /\ i - Len(q) = l - h
        BY <1>2, <1>6
      <3>2. EndsAt(q, z, i)
        BY <1>5
      <3>3. \A j \in 1 .. i - 1 : ~EndsAt(q, z, j)
        <4>1. i - 1 = l + 1 - 1
          BY <1>2
        <4> HIDE DEF i
        <4> QED
          BY <2>1, <4>1
      <3> HIDE DEF i
      <3> QED
        BY <3>1, <3>2, <3>3
    <2> HIDE DEF i
    <2>3. Forwarded(q, z) = SubSeq(z, 1, i - Len(q))
      BY <1>4, <2>2, FirstOccurrence
    <2> QED
      BY <1>4, <2>2, <2>3 DEF Occurs
  <1> QED
    BY <1>1, <1>3, <1>7, <1>8, <1>9 DEF HasRead, r, z

\* A byte that does not complete the sequence: what is held then, and what is
\* forwarded.
LEMMA NotCompleted ==
    ASSUME NEW q \in Seq(Symbols), Len(q) \in 1..2, NEW m,
           NEW x \in Seq(Symbols), NEW w \in Seq(Symbols),
           HasRead(q, m, x, w), ~m.done, NEW b \in Symbols,
           b # q[m.matched + 1] \/ m.matched + 1 # Len(q),
           NEW r \in Matchers, ~r.done,
           r.matched = (IF Len(q) = 2 /\ b = q[1] THEN 1 ELSE 0),
           r.out = m.out \o
                     (IF r.matched = 0 THEN SubSeq(q, 1, m.matched) \o <<b>>
                      ELSE SubSeq(q, 1, m.matched))
    PROVE  HasRead(q, r, Append(x, b), w)
  <1> DEFINE h == m.matched
             l == Len(x)
             z == Append(x, b)
             k == SubSeq(q, 1, h)
             f == Forwarded(q, x)
  <1>1. /\ m \in Matchers /\ h = Held(q, x) /\ ~Occurs(q, x)
        /\ f = w \o m.out /\ m.out \in Seq(Symbols)
    BY DEF HasRead, Matchers
  <1>2. /\ h \in 0..1 /\ h <= l /\ l \in Nat
        /\ h = 1 <=> Len(q) = 2 /\ x # <<>> /\ x[Len(x)] = q[1]
        /\ k \in Seq(Symbols) /\ x = SubSeq(x, 1, l - h) \o k
    <2>1. Len(q) \in 0..2 /\ l \in Nat
      OBVIOUS
    <2>2. /\ Held(q, x) \in 0..1 /\ Held(q, x) <= Len(x)
          /\ Held(q, x) = 1 <=> Len(q) = 2 /\ x # <<>> /\ x[Len(x)] = q[1]
          /\ SubSeq(q, 1, Held(q, x)) \in Seq(Symbols)
          /\ x = SubSeq(x, 1, Len(x) - Held(q, x))
                    \o SubSeq(q, 1, Held(q, x))
      BY <2>1, HeldIs
    <2> HIDE DEF h
    <2> QED
      BY <1>1, <2>1, <2>2 DEF k
  <1>3. f = SubSeq(x, 1, l - h)
    BY <1>1 DEF Forwarded
  <1>4. /\ z \in Seq(Symbols) /\ Len(z) = l + 1 /\ z # <<>>
        /\ z[Len(z)] = b
    <2>1. z \in Seq(Symbols) /\ Len(z) = Len(x) + 1 /\ z[Len(x) + 1] = b
      BY AppendProperties
    <2> HIDE DEF z
    <2>2. z # <<>>
      BY <1>2, <2>1, EmptySeq
    <2> QED
      BY <2>1, <2>2
  <1>5. ~Occurs(q, z)
    <2>1. \A i \in 1..l : ~EndsAt(q, z, i)
      <3>1. \A i \in 1..l : ~EndsAt(q, x, i)
        BY <1>1 DEF Occurs
      <3>2. Len(q) \in 0..2
        OBVIOUS
      <3> QED
        BY <3>1, <3>2, EndsAtLonger
    <2>2. ~EndsAt(q, z, l + 1)
      <3>1. ~(\/ Len(q) = 1 /\ b = q[1]
              \/ Len(q) = 2 /\ b = q[2] /\ x # <<>> /\ x[Len(x)] = q[1])
        <4>1. b # q[h + 1] \/ h + 1 # Len(q)
          OBVIOUS
        <4> HIDE DEF h, l
        <4>2. h = 0 \/ h = 1
          BY <1>2
        <4>3. Len(q) = 1 => h = 0
          BY <1>2, <4>2
        <4>4. Len(q) = 2 /\ x # <<>> /\ x[Len(x)] = q[1] => h = 1
          BY <1>2
        <4>5. 0 + 1 = 1 /\ 1 + 1 = 2
          OBVIOUS
        <4>6. h = 0 => (b # q[1] \/ Len(q) # 1)
          BY <4>1, <4>5
        <4>7. h = 1 => (b # q[2] \/ Len(q) # 2)
          BY <4>1, <4>5
        <4>8. ~(Len(q) = 1 /\ b = q[1])
          BY <4>3, <4>6
        <4>9. ~(Len(q) = 2 /\ b = q[2] /\ x # <<>> /\ x[Len(x)] = q[1])
          BY <4>4, <4>7
        <4> QED
          BY <4>8, <4>9
      <3>2. Len(q) \in 0..2
        OBVIOUS
      <3> QED
        BY <3>1, <3>2, EndsAtLonger
    <2>3. \A i \in 1 .. l + 1 : i \in 1..l \/ i = l + 1
      BY <1>2
    <2> HIDE DEF l, z
    <2> QED
      BY <1>4, <2>1, <2>2, <2>3 DEF Occurs
  <1>6. r.matched = Held(q, z)
    BY <1>4 DEF Held
  <1>7. Forwarded(q, z) = SubSeq(z, 1, l + 1 - r.matched)
    <2> HIDE DEF z, l
    <2>1. Forwarded(q, z) = SubSeq(z, 1, Len(z) - Held(q, z))
      BY <1>5 DEF Forwarded
    <2>2. r.matched \in {0, 1}
      OBVIOUS
    <2>3. Len(z) - r.matched = l + 1 - r.matched
      BY <1>2, <1>4, <2>2
    <2> QED
      BY <1>6, <2>1, <2>3
  <1>8. Forwarded(q, z) = IF r.matched = 0 THEN z ELSE x
    <2>1. CASE r.matched = 0
      <3>1. l + 1 - 0 = Len(z)
        <4> HIDE DEF z, l
        <4> QED
          BY <1>2, <1>4
      <3> QED
        BY <1>4, <1>7, <2>1, <3>1, SubSeqFull
    <2>2. CASE r.matched # 0
      <3>1. r.matched = 1 /\ l + 1 - 1 = l /\ l \in 0..l
        BY <1>2, <2>2
      <3>2. SubSeq(z, 1, l) = SubSeq(x, 1, l) /\ SubSeq(x, 1, l) = x
        BY <3>1, FirstOfLonger, SubSeqFull
      <3> QED
        BY <1>7, <2>2, <3>1, <3>2
    <2> QED
      BY <2>1, <2>2
  <1>9. x = w \o (m.out \o k) /\ z = x \o <<b>> /\ <<b>> \in Seq(Symbols)
    <2>1. z = x \o <<b>> /\ <<b>> \in Seq(Symbols)
      BY Joining
    <2>2. x = f \o k
      BY <1>2, <1>3
    <2> DEFINE t == m.out
    <2>3. t \in Seq(Symbols) /\ f = w \o t
      BY <1>1
    <2> HIDE DEF k, f, t, z
    <2>4. (w \o t) \o k = w \o (t \o k)
      BY <1>2, <2>3, Three
    <2> QED
      BY <2>1, <2>2, <2>3, <2>4 DEF t
  <1> HIDE DEF k, f, z
  <1>10. Forwarded(q, z) = w \o r.out
    <2>1. CASE r.matched = 0
      <3> DEFINE t == m.out
                 c == <<b>>
      <3>1. r.out = t \o (k \o c)
        BY <2>1 DEF k
      <3>2. /\ t \in Seq(Symbols) /\ c \in Seq(Symbols)
            /\ k \in Seq(Symbols) /\ w \in Seq(Symbols)
        BY <1>1, <1>2, <1>9
      <3>3. z = (w \o (t \o k)) \o c /\ Forwarded(q, z) = z
        BY <1>8, <1>9, <2>1
      <3> HIDE DEF t, c
      <3>4. (t \o k) \o c = t \o (k \o c) /\ t \o k \in Seq(Symbols)
        <4>1. t \o k \in Seq(Symbols)
          BY <3>2
        <4>2. (t \o k) \o c = t \o (k \o c)
          BY <3>2, Three
        <4> QED
          BY <4>1, <4>2
      <3> DEFINE v == t \o k
      <3>5. v \in Seq(Symbols) /\ z = (w \o v) \o c
        BY <3>3, <3>4
      <3> HIDE DEF v
      <3>6. (w \o v) \o c = w \o (v \o c)
        BY <3>2, <3>5, Three
      <3>7. v \o c = r.out
        BY <3>1, <3>4 DEF v
      <3> QED
        BY <3>3, <3>5, <3>6, <3>7
    <2>2. CASE r.matched # 0
      BY <1>8, <1>9, <2>2 DEF k
    <2> QED
      BY <2>1, <2>2
  <1> QED
    BY <1>5, <1>6, <1>10 DEF HasRead, z


\* A state of the matcher, part by part.
IsMatcher(r, h, t, d) ==
    r \in Matchers /\ r.matched = h /\ r.out = t /\ r.done = d

\* What a byte makes of the matcher: complete, or what is held then and what
\* has been let go.
AfterByte(r, q, m, b) ==
    IF b = q[m.matched + 1] /\ m.matched + 1 = Len(q)
    THEN r = [m EXCEPT !.matched = 0, !.done = TRUE]
    ELSE /\ r.done = m.done
         /\ r.matched = IF Len(q) = 2 /\ b = q[1] THEN 1 ELSE 0
         /\ r.out = m.out \o
                (IF r.matched = 0 THEN SubSeq(q, 1, m.matched) \o <<b>>
                 ELSE SubSeq(q, 1, m.matched))

\* A matcher whose sequence is complete.
LEMMA MadeDone ==
    ASSUME NEW m \in Matchers, NEW r,
           r = [m EXCEPT !.matched = 0, !.done = TRUE]
    PROVE  IsMatcher(r, 0, m.out, TRUE)
  <1>1. r = [matched |-> 0, out |-> m.out, done |-> TRUE]
    BY DEF Matchers
  <1>2. m.out \in Seq(Symbols) /\ 0 \in 0..1 /\ TRUE \in BOOLEAN
    BY DEF Matchers
  <1>3. r \in Matchers
    BY <1>1, <1>2 DEF Matchers
  <1> QED
    BY <1>1, <1>3 DEF IsMatcher

\* One that holds h bytes.
LEMMA MadeHold ==
    ASSUME NEW m \in Matchers, NEW r, NEW h \in 0..1,
           r = [m EXCEPT !.matched = h]
    PROVE  IsMatcher(r, h, m.out, m.done)
  BY DEF Matchers, IsMatcher

\* One that holds h bytes and has let others go.
LEMMA MadeOut ==
    ASSUME NEW m \in Matchers, NEW r, NEW h \in 0..1, NEW t \in Seq(Symbols),
           r = [m EXCEPT !.matched = h, !.out = t]
    PROVE  IsMatcher(r, h, t, m.done)
  BY DEF Matchers, IsMatcher

\* A byte makes that of the matcher.
LEMMA ByteMatcher ==
    ASSUME NEW q \in Seq(Symbols), Len(q) \in 1..2,
           NEW m \in Matchers, m.matched < Len(q), NEW b \in Symbols
    PROVE  LET r == FeedByte(q, m, b, TRUE)
           IN  r \in Matchers /\ r.matched < Len(q) /\ AfterByte(r, q, m, b)
  <1> DEFINE h == m.matched
             r == FeedByte(q, m, b, TRUE)
             k == SubSeq(q, 1, h)
             ends == b = q[h + 1] /\ h + 1 = Len(q)
             t == m.out
             B == IF Len(q) = 2 /\ b = q[1] THEN 1 ELSE 0
             G == IF r.matched = 0 THEN k \o <<b>> ELSE k
  <1>1. /\ h \in 0..1 /\ t \in Seq(Symbols) /\ m.done \in BOOLEAN
        /\ h < Len(q) /\ Len(q) \in 1..2
    BY DEF Matchers
  <1>2. k \in Seq(Symbols)
    <2>1. h \in 0 .. Len(q)
      BY <1>1
    <2> QED
      BY <2>1, FirstOf
  <1>3. CASE ends
    <2>1. r = [m EXCEPT !.matched = 0, !.done = TRUE]
      BY <1>3 DEF FeedByte
    <2> HIDE DEF r
    <2>2. 0 \in 0..1 /\ TRUE \in BOOLEAN /\ 0 < Len(q)
      BY <1>1
    <2>3. r \in Matchers /\ r.matched = 0
      <3>1. IsMatcher(r, 0, m.out, TRUE)
        BY <2>1, MadeDone
      <3> QED
        BY <3>1 DEF IsMatcher
    <2>5. r.matched < Len(q)
      BY <2>2, <2>3
    <2> QED
      BY <1>3, <2>1, <2>3, <2>5 DEF r, AfterByte
  <1>4. CASE b = q[h + 1] /\ h + 1 # Len(q)
    <2>1. h = 0 /\ Len(q) = 2 /\ b = q[1]
      <3> HIDE DEF h
      <3>1. h = 0 /\ Len(q) = 2
        <4> DEFINE j == Len(q)
        <4>1. h \in 0..1 /\ j \in 1..2 /\ h < j /\ h + 1 # j
          BY <1>1, <1>4
        <4> HIDE DEF j
        <4>2. h = 0 /\ j = 2
          BY <4>1
        <4> QED
          BY <4>2 DEF j
      <3>2. h + 1 = 1
        BY <3>1
      <3> QED
        BY <1>4, <3>1, <3>2
    <2>2. r = [m EXCEPT !.matched = @ + 1]
      BY <1>4 DEF FeedByte
    <2> HIDE DEF r
    <2>3. 1 \in 0..1 /\ h + 1 = 1
      BY <2>1
    <2>8. r = [m EXCEPT !.matched = 1]
      BY <2>2, <2>3
    <2>4. r \in Matchers /\ r.matched = 1 /\ r.out = t /\ r.done = m.done
      <3>1. IsMatcher(r, 1, m.out, m.done)
        BY <2>3, <2>8, MadeHold
      <3> QED
        BY <3>1 DEF IsMatcher
    <2>6. t \o k = t
      <3>1. k = <<>>
        BY <2>1, SubSeqEmpty
      <3> QED
        BY <1>1, <3>1, Joining
    <2>7. r.out = t \o G /\ r.matched = B /\ r.matched < Len(q)
      BY <2>1, <2>4, <2>6
    <2> QED
      BY <1>4, <2>4, <2>7 DEF r, AfterByte
  <1>5. CASE b # q[h + 1] /\ b = q[1]
    <2>1. h = 1 /\ Len(q) = 2
      BY <1>1, <1>5
    <2>2. r = [m EXCEPT !.matched = 1, !.out = t \o k]
      BY <1>5 DEF FeedByte, Restart
    <2>3. 1 \in 0..1
      OBVIOUS
    <2>4. t \o k \in Seq(Symbols)
      <3> HIDE DEF t, k
      <3> QED
        BY <1>1, <1>2
    <2> HIDE DEF r
    <2>6. /\ r \in Matchers /\ r.matched = 1 /\ r.out = t \o k
          /\ r.done = m.done
      <3> DEFINE v == t \o k
      <3>1. v \in Seq(Symbols) /\ r = [m EXCEPT !.matched = 1, !.out = v]
        BY <2>2, <2>4
      <3> HIDE DEF v
      <3>2. IsMatcher(r, 1, v, m.done)
        BY <2>3, <3>1, MadeOut
      <3> QED
        BY <3>2 DEF IsMatcher, v
    <2>7. r.out = t \o G /\ r.matched = B /\ r.matched < Len(q)
      BY <1>5, <2>1, <2>6
    <2> QED
      BY <1>5, <2>6, <2>7 DEF r, AfterByte
  <1>6. CASE b # q[h + 1] /\ b # q[1]
    <2>2. r = [m EXCEPT !.matched = 0, !.out = Append(t \o k, b)]
      BY <1>6 DEF FeedByte, Restart
    <2> HIDE DEF r
    <2>3. 0 \in 0..1
      OBVIOUS
    <2> DEFINE c == <<b>>
    <2>4. /\ Append(t \o k, b) \in Seq(Symbols)
          /\ Append(t \o k, b) = t \o (k \o c)
      <3>1. t \o k \in Seq(Symbols)
        <4> HIDE DEF t, k
        <4> QED
          BY <1>1, <1>2
      <3> DEFINE v == t \o k
      <3>6. v \in Seq(Symbols)
        BY <3>1
      <3>2. Append(t \o k, b) \in Seq(Symbols)
            /\ Append(t \o k, b) = (t \o k) \o <<b>> /\ c \in Seq(Symbols)
        <4> HIDE DEF v
        <4>1. Append(v, b) \in Seq(Symbols) /\ Append(v, b) = v \o <<b>>
              /\ c \in Seq(Symbols)
          BY <3>6, Joining
        <4> QED
          BY <4>1 DEF v
      <3>3. t \in Seq(Symbols) /\ k \in Seq(Symbols)
        BY <1>1, <1>2
      <3>4. Append(t \o k, b) = (t \o k) \o c
        BY <3>2
      <3> HIDE DEF t, k, c
      <3>5. (t \o k) \o c = t \o (k \o c)
        BY <3>2, <3>3, Three
      <3> QED
        BY <3>2, <3>4, <3>5
    <2>5. /\ r \in Matchers /\ r.matched = 0 /\ r.out = Append(t \o k, b)
          /\ r.done = m.done
      <3> DEFINE v == Append(t \o k, b)
      <3>1. v \in Seq(Symbols) /\ r = [m EXCEPT !.matched = 0, !.out = v]
        BY <2>2, <2>4
      <3> HIDE DEF v
      <3>2. IsMatcher(r, 0, v, m.done)
        BY <2>3, <3>1, MadeOut
      <3> QED
        BY <3>2 DEF IsMatcher, v
    <2>6. r.out = t \o (k \o c)
      BY <2>4, <2>5
    <2>7. r.out = t \o G /\ r.matched = B /\ r.matched < Len(q)
      <3>1. 0 < Len(q) /\ B = 0 /\ G = k \o c
        BY <1>1, <1>6, <2>5
      <3> HIDE DEF B, G, c
      <3> QED
        BY <2>5, <2>6, <3>1
    <2> QED
      BY <1>6, <2>5, <2>6, <2>7 DEF r, AfterByte
  <1> QED
    BY <1>3, <1>4, <1>5, <1>6

\* The matcher reads one byte more.
LEMMA ByteRead ==
    ASSUME NEW q \in Seq(Symbols), Len(q) \in 1..2, NEW m,
           NEW x \in Seq(Symbols), NEW w \in Seq(Symbols),
           HasRead(q, m, x, w), NEW b \in Symbols
    PROVE  HasRead(q, IF m.done THEN m ELSE FeedByte(q, m, b, TRUE),
                   Append(x, b), w)
  <1>1. CASE m.done
    <2>1. Len(q) \in 0..2 /\ Occurs(q, x)
      BY <1>1 DEF HasRead
    <2>2. /\ Occurs(q, Append(x, b))
          /\ Forwarded(q, Append(x, b)) = Forwarded(q, x)
      BY <2>1, OccursLonger
    <2> QED
      BY <1>1, <2>2 DEF HasRead
  <1>2. CASE ~m.done
    <2> DEFINE r == FeedByte(q, m, b, TRUE)
               ends == b = q[m.matched + 1] /\ m.matched + 1 = Len(q)
    <2>1. m \in Matchers /\ m.matched = Held(q, x)
      BY <1>2 DEF HasRead
    <2>2. m.matched < Len(q)
      <3>1. Len(q) \in 0..2
        OBVIOUS
      <3>2. Held(q, x) \in 0..1 /\ (Held(q, x) = 1 => Len(q) = 2)
        BY DEF Held
      <3> DEFINE h == m.matched
      <3>3. h \in 0..1 /\ (h = 1 => Len(q) = 2)
        BY <2>1, <3>2
      <3> HIDE DEF h
      <3>4. h < Len(q)
        BY <3>3
      <3> QED
        BY <3>4 DEF h
    <2>6. r \in Matchers /\ AfterByte(r, q, m, b)
      BY <2>1, <2>2, ByteMatcher
    <2> HIDE DEF r
    <2>3. /\ r \in Matchers
          /\ ends => r = [m EXCEPT !.matched = 0, !.done = TRUE]
          /\ ~ends =>
               /\ r.done = m.done
               /\ r.matched = IF Len(q) = 2 /\ b = q[1] THEN 1 ELSE 0
               /\ r.out = m.out \o
                    (IF r.matched = 0 THEN SubSeq(q, 1, m.matched) \o <<b>>
                     ELSE SubSeq(q, 1, m.matched))
      BY <2>6 DEF AfterByte
    <2>4. CASE ends
      <3>1. HasRead(q, [m EXCEPT !.matched = 0, !.done = TRUE], Append(x, b), w)
        BY <1>2, <2>4, Completed
      <3> QED
        BY <1>2, <2>3, <2>4, <3>1 DEF r
    <2>5. CASE ~ends
      <3>1. HasRead(q, r, Append(x, b), w)
        BY <1>2, <2>3, <2>5, NotCompleted
      <3> QED
        BY <1>2, <3>1 DEF r
    <2> QED
      BY <2>4, <2>5
  <1> QED
    BY <1>1, <1>2

\* The matcher at the start of a chunk.
LEMMA Started ==
    ASSUME NEW h \in 0..1
    PROVE  IsMatcher([Matcher EXCEPT !.matched = h], h, <<>>, FALSE)
  <1> DEFINE r == [Matcher EXCEPT !.matched = h]
  <1>1. /\ Matcher \in Matchers /\ Matcher.out = <<>>
        /\ Matcher.done = FALSE
    BY Joining DEF Matcher, Matchers
  <1>2. IsMatcher(r, h, Matcher.out, Matcher.done)
    <2> HIDE DEF r
    <2>1. r = [Matcher EXCEPT !.matched = h]
      BY DEF r
    <2> QED
      BY <1>1, <2>1, MadeHold
  <1> QED
    BY <1>1, <1>2

\* The states of the matcher while it reads the chunk c, from h bytes held on.
Runs(f, q, h, c) ==
    /\ f[0] = [Matcher EXCEPT !.matched = h]
    /\ \A n \in 1 .. Len(c) :
          f[n] = IF f[n - 1].done THEN f[n - 1]
                 ELSE FeedByte(q, f[n - 1], c[n], TRUE)

\* The matcher goes through such states.
LEMMA FeedRuns ==
    ASSUME NEW q \in Seq(Symbols), Len(q) \in 1..2,
           NEW h \in 0..1, h < Len(q), NEW c \in Seq(Symbols)
    PROVE  \E f : Runs(f, q, h, c) /\ Feed(q, h, c) = f[Len(c)]
  <1> DEFINE L == Len(c)
             I == 0..L
             D == {m \in Matchers : m.matched < Len(q)}
             start == [Matcher EXCEPT !.matched = h]
             step(m, n) == IF m.done THEN m ELSE FeedByte(q, m, c[n], TRUE)
             G == [a \in D \X (1..L) |-> step(a[1], a[2])]
             body(f) == [i \in 0 .. Len(c) |->
                            IF i = 0 THEN start
                            ELSE IF f[i - 1].done THEN f[i - 1]
                            ELSE FeedByte(q, f[i - 1], c[i], TRUE)]
             run == CHOOSE f : f = body(f)
  <1>1. Feed(q, h, c) = run[Len(c)]
    <2>1. q # <<>>
      <3>1. \A n \in 1..2 : n # 0
        OBVIOUS
      <3> QED
        BY <3>1, EmptySeq
    <2> QED
      BY <2>1 DEF Feed, FeedChunk
  <1>2. L \in Nat /\ \A n \in 1..L : c[n] \in Symbols
    BY ElementOfSeq
  <1>3. start \in D
    <2>2. start \in Matchers /\ start.matched = h
      BY Started DEF IsMatcher
    <2> HIDE DEF start
    <2> QED
      BY <2>2
  <1>4. \A m \in D, n \in 1..L : step(m, n) \in D
    <2> SUFFICES ASSUME NEW m \in D, NEW n \in 1..L PROVE step(m, n) \in D
      OBVIOUS
    <2>1. m \in Matchers /\ m.matched < Len(q) /\ c[n] \in Symbols
      BY <1>2
    <2> DEFINE b == c[n]
               r == FeedByte(q, m, b, TRUE)
    <2>2. b \in Symbols
      BY <2>1
    <2> HIDE DEF b
    <2>3. r \in Matchers /\ r.matched < Len(q)
      BY <2>1, <2>2, ByteMatcher
    <2> HIDE DEF r
    <2>4. r \in D
      BY <2>3
    <2> QED
      BY <2>4 DEF r, b
  <1>5. G \in [D \X (1..L) -> D]
    BY <1>4
  <1> HIDE DEF start, D
  <1>6. PICK g \in [I -> D] : Goes(g, L, start, G)
    <2> HIDE DEF G, L
    <2> QED
      BY <1>2, <1>3, <1>5, LeftRecursion DEF I
  <1>7. g[0] = start /\ \A n \in 1..L : g[n] = step(g[n - 1], n)
    <2>1. g[0] = start /\ \A n \in 1..L : g[n] = G[<<g[n - 1], n>>]
      BY <1>6 DEF Goes
    <2>2. ASSUME NEW n \in 1..L PROVE g[n] = step(g[n - 1], n)
      <3>1. n - 1 \in I
        BY <1>2
      <3>2. g[n - 1] \in D
        BY <3>1
      <3> QED
        BY <2>1, <3>2
    <2> QED
      BY <2>1, <2>2
  <1>8. \E f : f = body(f)
    <2>1. \A n \in I : g[n] = body(g)[n]
      <3>1. \A n \in I : n = 0 \/ n \in 1..L
        BY <1>2
      <3> QED
        BY <1>7, <3>1
    <2>2. g = [n \in I |-> g[n]] /\ body(g) = [n \in I |-> body(g)[n]]
      OBVIOUS
    <2>3. g = body(g)
      BY <2>1, <2>2
    <2> QED
      BY <2>3
  <1>9. run = body(run)
    <2> HIDE DEF body
    <2> QED
      BY <1>8
  <1> HIDE DEF run
  <1>10. Runs(run, q, h, c)
    <2>1. \A n \in 1..L : n \in I /\ n # 0
      BY <1>2
    <2>2. 0 \in I
      BY <1>2
    <2> QED
      BY <1>9, <2>1, <2>2 DEF Runs, start
  <1> QED
    BY <1>1, <1>10

\* However what is typed is cut, the matcher knows what it has read.
LEMMA FeedRead ==
    ASSUME NEW q \in Keys, NEW x \in Seq(Symbols), NEW c \in Seq(Symbols),
           ~Occurs(q, x)
    PROVE  HasRead(q, Feed(q, Held(q, x), c), x \o c, Forwarded(q, x))
  <1> DEFINE w == Forwarded(q, x)
             h == Held(q, x)
             L == Len(c)
             start == [Matcher EXCEPT !.matched = h]
  <1>1. q \in Seq(Symbols) /\ Len(q) \in 0..2
    BY KeysAre
  <1>2. /\ h \in 0..1 /\ h <= Len(x) /\ (h = 1 => Len(q) = 2)
    BY <1>1, HeldIs
  <1>3. w = SubSeq(x, 1, Len(x) - h) /\ w \in Seq(Symbols)
    <2>1. w = SubSeq(x, 1, Len(x) - h)
      BY DEF Forwarded
    <2> DEFINE n == Len(x) - h
    <2>2. n \in 0 .. Len(x)
      <3>1. Len(x) \in Nat
        OBVIOUS
      <3> HIDE DEF h
      <3> QED
        BY <1>2, <3>1
    <2> HIDE DEF n
    <2>3. SubSeq(x, 1, n) \in Seq(Symbols)
      BY <2>2, FirstOf
    <2> QED
      BY <2>1, <2>3 DEF n
  <1> HIDE DEF w, h
  <1>4. IsMatcher(start, h, <<>>, FALSE)
    BY <1>2, Started
  <1>5. CASE q = <<>>
    <2>1. Len(q) = 0
      BY <1>5, EmptySeq
    <2>2. h = 0
      BY <1>2, <2>1
    <2>3. Feed(q, h, c) = [start EXCEPT !.out = c]
      BY <1>5 DEF Feed, FeedChunk
    <2> DEFINE r == Feed(q, h, c)
               z == x \o c
    <2>4. /\ r \in Matchers /\ r.matched = 0 /\ r.out = c /\ r.done = FALSE
      <3> HIDE DEF start
      <3> QED
        BY <1>4, <2>2, <2>3 DEF Matchers, IsMatcher
    <2>5. z \in Seq(Symbols)
      OBVIOUS
    <2> HIDE DEF r, z
    <2>6. ~Occurs(q, z) /\ Held(q, z) = 0
      BY <1>5, <2>1 DEF Occurs, EndsAt, Held
    <2>7. Forwarded(q, z) = z
      <3>1. Len(z) - 0 = Len(z)
        BY <2>5
      <3> QED
        BY <2>5, <2>6, <3>1, SubSeqFull DEF Forwarded
    <2>8. w = x
      <3>1. Len(x) - 0 = Len(x)
        OBVIOUS
      <3> QED
        BY <1>3, <2>2, <3>1, SubSeqFull
    <2>9. Forwarded(q, z) = w \o r.out
      BY <2>4, <2>7, <2>8 DEF z
    <2> QED
      BY <2>4, <2>6, <2>9 DEF HasRead, r, z, w, h
  <1>6. CASE q # <<>>
    <2>1. Len(q) \in 1..2
      <3>1. Len(q) # 0
        BY <1>1, <1>6, EmptySeq
      <3> QED
        BY <1>1, <3>1
    <2>2. h < Len(q)
      <3> DEFINE j == Len(q)
      <3>1. j \in 1..2 /\ (h = 1 => j = 2)
        BY <1>2, <2>1
      <3> HIDE DEF j
      <3>2. h < j
        BY <1>2, <3>1
      <3> QED
        BY <3>2 DEF j
    <2>3. PICK f : Runs(f, q, h, c) /\ Feed(q, h, c) = f[Len(c)]
      BY <1>1, <1>2, <2>1, <2>2, FeedRuns
    <2> DEFINE T == {n \in 0..L : HasRead(q, f[n], x \o SubSeq(c, 1, n), w)}
    <2>4. 0 \in T
      <3>1. x \o SubSeq(c, 1, 0) = x
        BY SubSeqEmpty, Joining
      <3>2. f[0] = start /\ start.matched = h /\ start.out = <<>>
            /\ start.done = FALSE /\ start \in Matchers
        BY <1>4, <2>3 DEF Runs, IsMatcher
      <3>3. Forwarded(q, x) = w \o <<>>
        BY <1>3, Joining DEF w
      <3>4. HasRead(q, f[0], x, w)
        <4> DEFINE m == f[0]
        <4>1. /\ m \in Matchers /\ m.matched = h /\ m.out = <<>>
              /\ m.done = FALSE
          BY <3>2
        <4> HIDE DEF m, h
        <4>2. HasRead(q, m, x, w)
          BY <3>3, <4>1 DEF HasRead, h
        <4> QED
          BY <4>2 DEF m
      <3>5. 0 \in 0..L
        OBVIOUS
      <3>6. HasRead(q, f[0], x \o SubSeq(c, 1, 0), w)
        BY <3>1, <3>4
      <3> QED
        BY <3>5, <3>6
    <2>5. ASSUME NEW n \in 0 .. L - 1, n \in T PROVE n + 1 \in T
      <3>1. HasRead(q, f[n], x \o SubSeq(c, 1, n), w)
        BY <2>5
      <3> DEFINE u == SubSeq(c, 1, n)
                 j == n + 1
                 b == c[j]
      <3>2. L \in Nat /\ n \in 0..L /\ j \in 1..L /\ j \in 0..L /\ j - 1 = n
        OBVIOUS
      <3>3. b \in Symbols
        BY <3>2, ElementOfSeq
      <3>4. u \in Seq(Symbols) /\ x \o u \in Seq(Symbols)
        <4>1. u \in Seq(Symbols)
          BY <3>2, FirstOf
        <4> HIDE DEF u
        <4> QED
          BY <4>1
      <3>5. SubSeq(c, 1, j) = u \o <<b>>
        <4>1. 1 \in 1..L /\ j \in 1..L /\ j - 1 = n
          BY <3>2
        <4> HIDE DEF j
        <4>2. SubSeq(c, 1, j) = SubSeq(c, 1, j - 1) \o <<c[j]>>
          BY <4>1, <3>2, SubSeqRecursiveSecond
        <4> QED
          BY <4>1, <4>2
      <3>6. f[j] = IF f[n].done THEN f[n] ELSE FeedByte(q, f[n], b, TRUE)
        <4> HIDE DEF j
        <4> QED
          BY <2>3, <3>2 DEF Runs
      <3> HIDE DEF u, b, j
      <3>7. Append(x \o u, b) = x \o SubSeq(c, 1, j)
        <4> DEFINE v == x \o u
                   d == <<b>>
        <4>1. v \in Seq(Symbols)
          BY <3>4
        <4>2. d \in Seq(Symbols)
          BY <3>3, Joining
        <4> HIDE DEF v, d
        <4>3. Append(v, b) = v \o d
          BY <3>3, <4>1, Joining DEF d
        <4>4. (x \o u) \o d = x \o (u \o d)
          BY <3>4, <4>2, Three
        <4> QED
          BY <3>5, <4>3, <4>4 DEF v, d
      <3> DEFINE v == x \o u
                 m == f[n]
      <3>8. v \in Seq(Symbols) /\ HasRead(q, m, v, w)
        BY <3>1, <3>4 DEF u
      <3> HIDE DEF v, m
      <3>9. HasRead(q, IF m.done THEN m ELSE FeedByte(q, m, b, TRUE),
                    Append(v, b), w)
        BY <1>1, <1>3, <2>1, <3>3, <3>8, ByteRead
      <3>10. HasRead(q, f[j], x \o SubSeq(c, 1, j), w)
        BY <3>6, <3>7, <3>9 DEF v, m
      <3> QED
        BY <3>2, <3>10 DEF j
    <2>6. L \in T
      <3>1. L \in Nat /\ L \in 0..L
        OBVIOUS
      <3> HIDE DEF T, L
      <3> QED
        BY <2>4, <2>5, <3>1, UpTo
    <2>7. SubSeq(c, 1, Len(c)) = c
      BY SubSeqFull
    <2> QED
      BY <2>3, <2>6, <2>7 DEF w, h
  <1> QED
    BY <1>5, <1>6

-----------------------------------------------------------------------------
(* What is on its way to the session *)

\* The windows' sizes, and the requests of the command.
Screens == Sizes \cup {s.tty : s \in Starts} \cup {NoSize}

Messages == [type : {"attach", "resize", "detach"}, arg : Screens]
            \cup [type : {"write_pane"}, arg : Seq(Symbols)]

\* The bytes that the requests u carry: OnTheWay is Carried(up).
Carried(u) ==
    LET f[i \in 0..Len(u)] ==
            IF i = 0 THEN <<>> ELSE f[i - 1] \o Written(u[i])
    IN  f[Len(u)]

\* The bytes of a request are symbols.
LEMMA WrittenType ==
    ASSUME NEW m \in Messages PROVE Written(m) \in Seq(Symbols)
  <1>1. CASE m.type = "write_pane"
    BY <1>1 DEF Messages, Written
  <1>2. CASE m.type # "write_pane"
    BY <1>2, Joining DEF Written
  <1> QED
    BY <1>1, <1>2

\* Gathered request by request.
Gathers(f, u) ==
    /\ f \in [0 .. Len(u) -> Seq(Symbols)]
    /\ f[0] = <<>>
    /\ \A n \in 1 .. Len(u) : f[n] = f[n - 1] \o Written(u[n])

\* What is carried is gathered request by request.
LEMMA CarriedIs ==
    ASSUME NEW u \in Seq(Messages)
    PROVE  \E f : Gathers(f, u) /\ Carried(u) = f[Len(u)]
  <1> DEFINE L == Len(u)
             I == 0..L
             D == Seq(Symbols)
             G == [a \in D \X (1..L) |-> a[1] \o Written(u[a[2]])]
             body(f) == [i \in 0 .. Len(u) |->
                            IF i = 0 THEN <<>> ELSE f[i - 1] \o Written(u[i])]
             all == CHOOSE f : f = body(f)
  <1>1. Carried(u) = all[Len(u)]
    BY DEF Carried
  <1>2. L \in Nat /\ \A n \in 1..L : Written(u[n]) \in D
    <2>1. L \in Nat /\ \A n \in 1..L : u[n] \in Messages
      BY ElementOfSeq
    <2> QED
      BY <2>1, WrittenType
  <1>3. <<>> \in D
    BY Joining
  <1>4. \A m \in D, n \in 1..L : m \o Written(u[n]) \in D
    <2> SUFFICES ASSUME NEW m \in D, NEW n \in 1..L
                 PROVE  m \o Written(u[n]) \in D
      OBVIOUS
    <2> DEFINE b == Written(u[n])
    <2>1. b \in D
      BY <1>2
    <2> HIDE DEF b
    <2>2. m \o b \in D
      BY <2>1
    <2> QED
      BY <2>2 DEF b
  <1>5. G \in [D \X (1..L) -> D]
    BY <1>4
  <1> HIDE DEF D
  <1>6. PICK g \in [I -> D] : Goes(g, L, <<>>, G)
    <2> HIDE DEF G, L
    <2> QED
      BY <1>2, <1>3, <1>5, LeftRecursion DEF I
  <1>7. g[0] = <<>> /\ \A n \in 1..L : g[n] = g[n - 1] \o Written(u[n])
    <2>1. g[0] = <<>> /\ \A n \in 1..L : g[n] = G[<<g[n - 1], n>>]
      BY <1>6 DEF Goes
    <2>2. ASSUME NEW n \in 1..L PROVE g[n] = g[n - 1] \o Written(u[n])
      <3>1. n - 1 \in I
        BY <1>2
      <3>2. g[n - 1] \in D
        BY <3>1
      <3> QED
        BY <2>1, <3>2
    <2> QED
      BY <2>1, <2>2
  <1>8. \E f : f = body(f)
    <2>1. \A n \in I : g[n] = body(g)[n]
      <3>1. \A n \in I : n = 0 \/ n \in 1..L
        BY <1>2
      <3> QED
        BY <1>7, <3>1
    <2>2. g = [n \in I |-> g[n]] /\ body(g) = [n \in I |-> body(g)[n]]
      OBVIOUS
    <2>3. g = body(g)
      BY <2>1, <2>2
    <2> QED
      BY <2>3
  <1>9. all = body(all)
    <2> HIDE DEF body
    <2> QED
      BY <1>8
  <1> HIDE DEF all
  <1>10. all[0] = <<>> /\ all = [n \in I |-> all[n]]
         /\ \A n \in 1..L : all[n] = all[n - 1] \o Written(u[n])
    <2>1. \A n \in 1..L : n \in I /\ n # 0
      BY <1>2
    <2>2. 0 \in I
      BY <1>2
    <2> QED
      BY <1>9, <2>1, <2>2
  <1> DEFINE T == {n \in I : all[n] \in D}
  <1>11. 0 \in T
    BY <1>2, <1>3, <1>10
  <1>12. ASSUME NEW k \in 0 .. L - 1, k \in T PROVE k + 1 \in T
    <2>1. k + 1 \in 1..L /\ k + 1 \in I /\ (k + 1) - 1 = k
      BY <1>2
    <2> DEFINE j == k + 1
    <2>2. j \in 1..L /\ j \in I /\ j - 1 = k
      BY <2>1
    <2> HIDE DEF j
    <2>3. all[j] = all[k] \o Written(u[j]) /\ all[k] \in D
      BY <1>10, <1>12, <2>2
    <2>4. all[j] \in D
      BY <1>4, <2>2, <2>3
    <2> QED
      BY <2>2, <2>4 DEF j
  <1>13. \A n \in I : n \in T
    <2> HIDE DEF T
    <2> QED
      BY <1>2, <1>11, <1>12, UpTo
  <1>14. all \in [I -> D]
    BY <1>10, <1>13
  <1> QED
    BY <1>1, <1>10, <1>14 DEF Gathers, D

\* One request more.
LEMMA CarriedAppend ==
    ASSUME NEW u \in Seq(Messages), NEW m \in Messages
    PROVE  /\ Append(u, m) \in Seq(Messages)
           /\ Carried(u) \in Seq(Symbols)
           /\ Carried(Append(u, m)) = Carried(u) \o Written(m)
  <1> DEFINE v == Append(u, m)
             L == Len(u)
  <1>1. /\ v \in Seq(Messages) /\ Len(v) = L + 1 /\ L \in Nat
        /\ \A i \in 1..L : v[i] = u[i]
        /\ v[L + 1] = m
    BY AppendProperties
  <1> HIDE DEF v
  <1>2. PICK f : Gathers(f, u) /\ Carried(u) = f[Len(u)]
    BY CarriedIs
  <1>3. PICK g : Gathers(g, v) /\ Carried(v) = g[Len(v)]
    BY <1>1, CarriedIs
  <1> HIDE DEF L
  <1> DEFINE T == {n \in 0..L : f[n] = g[n]}
  <1>4. 0 \in T
    BY <1>1, <1>2, <1>3 DEF Gathers
  <1>5. ASSUME NEW k \in 0 .. L - 1, k \in T PROVE k + 1 \in T
    <2> DEFINE j == k + 1
    <2>1. j \in 1..L /\ j \in 0..L /\ j - 1 = k /\ j \in 1 .. L + 1
      BY <1>1
    <2> HIDE DEF j
    <2>2. f[j] = f[k] \o Written(u[j])
      BY <1>2, <2>1 DEF Gathers, L
    <2>3. g[j] = g[k] \o Written(v[j])
      BY <1>1, <1>3, <2>1 DEF Gathers
    <2>4. v[j] = u[j]
      BY <1>1, <2>1
    <2> QED
      BY <1>5, <2>1, <2>2, <2>3, <2>4 DEF j
  <1>6. L \in T
    <2>1. L \in 0..L
      BY <1>1
    <2> HIDE DEF T
    <2> QED
      BY <1>1, <1>4, <1>5, <2>1, UpTo
  <1>7. g[L + 1] = g[L] \o Written(m)
    <2>1. L + 1 \in 1 .. L + 1 /\ (L + 1) - 1 = L
      BY <1>1
    <2> DEFINE j == L + 1
    <2>2. j \in 1 .. Len(v) /\ j - 1 = L /\ v[j] = m
      BY <1>1, <2>1
    <2> HIDE DEF j
    <2>3. g[j] = g[L] \o Written(m)
      BY <1>3, <2>2 DEF Gathers
    <2> QED
      BY <2>3 DEF j
  <1>8. f[L] \in Seq(Symbols)
    <2>1. L \in 0..L
      BY <1>1
    <2> QED
      BY <1>2, <2>1 DEF Gathers, L
  <1>9. Carried(u) = f[L] /\ Carried(v) = g[L + 1] /\ f[L] = g[L]
    BY <1>1, <1>2, <1>3, <1>6 DEF L
  <1> QED
    BY <1>1, <1>7, <1>8, <1>9 DEF v

\* Nothing carries nothing.
LEMMA CarriedNone == Carried(<<>>) = <<>>
  <1>1. <<>> \in Seq(Messages) /\ Len(<<>>) = 0
    OBVIOUS
  <1>2. PICK f : Gathers(f, <<>>) /\ Carried(<<>>) = f[Len(<<>>)]
    BY <1>1, CarriedIs
  <1> QED
    BY <1>1, <1>2 DEF Gathers

\* The first request, and the others.
LEMMA CarriedFirst ==
    ASSUME NEW u \in Seq(Messages), u # <<>>
    PROVE  /\ Head(u) \in Messages /\ Tail(u) \in Seq(Messages)
           /\ Carried(Tail(u)) \in Seq(Symbols)
           /\ Carried(u) = Written(Head(u)) \o Carried(Tail(u))
  <1> DEFINE t == Tail(u)
             h == Head(u)
             L == Len(t)
             b == Written(h)
  <1>1. /\ t \in Seq(Messages) /\ Len(u) = L + 1 /\ L \in Nat
        /\ h \in Messages /\ h = u[1]
        /\ \A i \in 1..L : t[i] = u[i + 1]
    <2>1. /\ t \in Seq(Messages) /\ Len(t) = Len(u) - 1 /\ h = u[1]
          /\ \A i \in 1 .. Len(t) : t[i] = u[i + 1]
          /\ h \in Messages
      BY HeadTailProperties
    <2>2. Len(u) \in Nat /\ Len(t) \in Nat
      BY <2>1
    <2> HIDE DEF t, h
    <2> QED
      BY <2>1, <2>2
  <1> HIDE DEF t, h
  <1>2. PICK f : Gathers(f, t) /\ Carried(t) = f[Len(t)]
    BY <1>1, CarriedIs
  <1>3. PICK g : Gathers(g, u) /\ Carried(u) = g[Len(u)]
    BY CarriedIs
  <1>4. b \in Seq(Symbols)
    BY <1>1, WrittenType
  <1> HIDE DEF L, b
  <1> DEFINE T == {n \in 0..L : g[n + 1] = b \o f[n]}
  <1>5. 0 \in T
    <2>1. 1 \in 1 .. Len(u) /\ 1 - 1 = 0 /\ 0 + 1 = 1 /\ 0 \in 0..L
      BY <1>1
    <2>2. g[1] = <<>> \o Written(u[1])
      BY <1>3, <2>1 DEF Gathers
    <2>3. g[1] = b /\ f[0] = <<>>
      BY <1>1, <1>2, <1>4, <2>2, Joining DEF Gathers, b
    <2>4. b \o <<>> = b
      BY <1>4, Joining
    <2> QED
      BY <2>1, <2>3, <2>4
  <1>6. ASSUME NEW k \in 0 .. L - 1, k \in T PROVE k + 1 \in T
    <2> DEFINE j == k + 1
               i == j + 1
    <2>1. /\ j \in 1..L /\ j \in 0..L /\ j - 1 = k /\ k \in 0..L
          /\ i \in 1 .. L + 1 /\ i - 1 = j
      BY <1>1
    <2>2. t[j] = u[i] /\ t[j] \in Messages
      BY <1>1, <2>1 DEF L
    <2>3. g[j] = b \o f[k]
      BY <1>6
    <2> HIDE DEF j, i
    <2>4. f[j] = f[k] \o Written(t[j]) /\ f[k] \in Seq(Symbols)
      BY <1>2, <2>1 DEF Gathers, L
    <2>5. g[i] = g[j] \o Written(u[i])
      BY <1>1, <1>3, <2>1 DEF Gathers
    <2> DEFINE a == f[k]
               c == Written(t[j])
    <2>6. a \in Seq(Symbols) /\ c \in Seq(Symbols)
      BY <2>2, <2>4, WrittenType
    <2>7. g[i] = (b \o a) \o c /\ f[j] = a \o c
      BY <2>2, <2>3, <2>4, <2>5
    <2> HIDE DEF a, c
    <2>8. (b \o a) \o c = b \o (a \o c)
      BY <1>4, <2>6, Three
    <2>9. g[j + 1] = b \o f[j]
      BY <2>7, <2>8 DEF i
    <2> QED
      BY <2>1, <2>9 DEF j
  <1>7. L \in T
    <2>1. L \in 0..L
      BY <1>1
    <2> HIDE DEF T
    <2> QED
      BY <1>1, <1>5, <1>6, <2>1, UpTo
  <1>8. f[L] \in Seq(Symbols)
    <2>1. L \in 0..L
      BY <1>1
    <2> QED
      BY <1>2, <2>1 DEF Gathers, L
  <1>9. Carried(t) = f[L] /\ Carried(u) = g[L + 1]
    BY <1>1, <1>2, <1>3 DEF L
  <1> QED
    BY <1>1, <1>7, <1>8, <1>9 DEF t, h, b

-----------------------------------------------------------------------------
(* The command, its connection and the session *)

\* Where the command is before the reader of stdin runs.
Before == {"config", "size", "attach", "reply", "raw"}

\* Types; and until the reader runs it has read nothing.
Typed ==
    /\ config \in {s.config : s \in Starts} /\ seq \in Keys
    /\ tty \in Screens /\ asked \in Screens
    /\ typed \in Seq(Symbols) /\ taken \in 0 .. Len(typed)
    /\ chunk \in Matchers /\ pump \in {"off", "read", "write", "left"}
    /\ up \in Seq(Messages) /\ pane \in Seq(Symbols)
    /\ pc \in Before => pump = "off"
    /\ pump = "off" => taken = 0 /\ matched = 0 /\ chunk = Matcher

\* What has been read of stdin; what the session has got or will get of it.
Read == SubSeq(typed, 1, taken)
Passed == pane \o Carried(up)

\* The matcher knows whether the sequence was in what was read, and how much
\* it holds; and while nothing has ended, what the session has got, what is on
\* its way and what is about to be written are what was to be forwarded.
Exact ==
    /\ pump # "write" => chunk.out = <<>>
    /\ pump \in {"off", "read"} \/ (pump = "write" /\ ~chunk.done) =>
           ~Occurs(seq, Read) /\ matched = Held(seq, Read)
    /\ pump = "write" /\ chunk.done => Occurs(seq, Read)
    /\ Running /\ alive /\ ~gone =>
           /\ Passed \o chunk.out = Forwarded(seq, Read)
           /\ pump = "left" => eof \/ Occurs(seq, Read)

\* Steps that neither read nor write.
Idle ==
    /\ Running' => Running
    /\ alive' => alive
    /\ ~gone' => ~gone
    /\ eof => eof'
    /\ Passed' = Passed
    /\ Read' = Read
    /\ seq' = seq
    /\ pump' = pump /\ matched' = matched /\ chunk' = chunk

\* They leave what is exact exact.
LEMMA IdleStep == Exact /\ Idle => Exact'
  BY DEF Exact, Idle

\* Of nothing nothing is forwarded, and nothing held.
LEMMA NothingRead ==
    ASSUME NEW q
    PROVE  Forwarded(q, <<>>) = <<>> /\ ~Occurs(q, <<>>) /\ Held(q, <<>>) = 0
  <1>1. Len(<<>>) = 0 /\ 1..0 = {}
    OBVIOUS
  <1>2. ~Occurs(q, <<>>)
    BY <1>1 DEF Occurs
  <1>3. Held(q, <<>>) = 0
    BY DEF Held
  <1>4. Forwarded(q, <<>>) = SubSeq(<<>>, 1, 0)
    <2>1. 0 - 0 = 0
      OBVIOUS
    <2> QED
      BY <1>1, <1>2, <1>3, <2>1 DEF Forwarded
  <1>5. SubSeq(<<>>, 1, 0) = <<>>
    BY SubSeqEmpty
  <1> QED
    BY <1>2, <1>3, <1>4, <1>5

\* At the start.
LEMMA InitInv == Init => Typed /\ Exact
  <1> SUFFICES ASSUME Init PROVE Typed /\ Exact
    OBVIOUS
  <1>1. PICK m : Begin(m)
    BY DEF Init
  <1>2. /\ typed = <<>> /\ taken = 0 /\ matched = 0 /\ chunk = Matcher
        /\ pump = "off" /\ up = <<>> /\ pane = <<>> /\ seq = <<>>
        /\ asked = NoSize /\ pc = "config"
        /\ tty \in {s.tty : s \in Starts}
        /\ config \in {s.config : s \in Starts}
    BY <1>1 DEF Begin
  <1>3. Matcher \in Matchers /\ Matcher.out = <<>> /\ Matcher.done = FALSE
    BY Joining DEF Matcher, Matchers
  <1>4. Typed
    <2>1. <<>> \in Seq(Symbols) /\ <<>> \in Seq(Messages) /\ Len(<<>>) = 0
          /\ 0 \in 0..0
      OBVIOUS
    <2>2. seq \in Keys /\ tty \in Screens /\ asked \in Screens
      BY <1>2 DEF Keys, Screens
    <2> QED
      BY <1>2, <1>3, <2>1, <2>2 DEF Typed
  <1>5. Read = <<>>
    BY <1>2, SubSeqEmpty DEF Read
  <1>6. Passed = <<>> /\ Passed \o chunk.out = <<>>
    <2>1. <<>> \o <<>> = <<>>
      BY Joining
    <2> QED
      BY <1>2, <1>3, <2>1, CarriedNone DEF Passed
  <1>7. Exact
    BY <1>2, <1>3, <1>5, <1>6, NothingRead DEF Exact
  <1> QED
    BY <1>4, <1>7

\* A request that carries no bytes.
LEMMA SendStep ==
    ASSUME Typed, NEW m \in Messages, Written(m) = <<>>, Send(m)
    PROVE  up' \in Seq(Messages) /\ Carried(up') = Carried(up)
  <1>1. up \in Seq(Messages) /\ up' = Append(up, m)
    BY DEF Typed, Send
  <1>2. /\ Append(up, m) \in Seq(Messages) /\ Carried(up) \in Seq(Symbols)
        /\ Carried(Append(up, m)) = Carried(up) \o Written(m)
    BY <1>1, CarriedAppend
  <1>3. Carried(up) \o <<>> = Carried(up)
    BY <1>2, Joining
  <1> QED
    BY <1>1, <1>2, <1>3

\* The steps of the command.
LEMMA MainStep ==
    ASSUME Typed, Exact, Main PROVE Typed' /\ Exact'
  <1> USE DEF Go
  <1>1. CASE LoadConfig
    <2>1. /\ pump = "off" /\ taken = 0 /\ matched = 0 /\ chunk = Matcher
          /\ pc = "config"
      BY <1>1 DEF Typed, LoadConfig, Before
    <2>2. UNCHANGED <<mode, config, tty, typed, eof, asked, pumpVars, netVars,
                      sessVars>>
      BY <1>1 DEF LoadConfig, Main, End, ttyVars
    <2>3. seq' \in Keys
      <3>1. seq' = seq \/ seq' = ResolveDetach(config[1], config[2])
        BY <1>1 DEF LoadConfig
      <3>2. ResolveDetach(config[1], config[2]) \in Keys
        BY DEF Typed, Keys
      <3> QED
        BY <3>1, <3>2 DEF Typed
    <2>4. Typed'
      BY <2>1, <2>2, <2>3 DEF Typed, pumpVars, netVars, sessVars
    <2>5. Read = <<>> /\ Read' = <<>>
      BY <2>1, <2>2, SubSeqEmpty DEF Read, pumpVars
    <2>6. Exact'
      <3>1. Passed' = Passed /\ chunk' = Matcher /\ pump' = "off"
            /\ matched' = 0 /\ chunk = Matcher /\ Matcher.out = <<>>
        BY <2>1, <2>2 DEF Passed, pumpVars, netVars, sessVars, Matcher
      <3>2. Running' /\ alive' /\ ~gone' => Running /\ alive /\ ~gone
        BY <2>1, <2>2 DEF Running, netVars, sessVars
      <3>3. Running /\ alive /\ ~gone => Passed \o chunk.out = <<>>
        BY <2>5, NothingRead DEF Exact
      <3> QED
        BY <2>5, <3>1, <3>2, <3>3, NothingRead DEF Exact
    <2> QED
      BY <2>4, <2>6
  <1>2. CASE GetSize
    <2>1. /\ UNCHANGED <<config, tty, typed, eof, seq, taken, matched, chunk,
                         pump, up, down, gone, alive, pane>>
          /\ asked' \in Screens /\ pc = "size" /\ pc' = "attach"
      BY <1>2 DEF GetSize, Main, ttyVars, pumpVars, netVars, sessVars, Typed,
                  Screens
    <2>2. Typed'
      BY <2>1 DEF Typed, Before
    <2>3. Idle
      BY <2>1 DEF Idle, Passed, Read, Running
    <2> QED
      BY <2>2, <2>3, IdleStep
  <1>3. CASE AskAttach
    <2>1. /\ UNCHANGED <<config, tty, typed, eof, seq, taken, matched, chunk,
                         pump, down, gone, alive, pane, asked>>
          /\ pc = "attach" /\ pc' \in {"reply", "ended"}
      BY <1>3 DEF AskAttach, Main, End, ttyVars, pumpVars, netVars, sessVars
    <2>2. up' \in Seq(Messages) /\ Carried(up') = Carried(up)
      <3> DEFINE m == [type |-> "attach", arg |-> asked]
      <3>1. CASE Send(m)
        <4>1. m \in Messages /\ Written(m) = <<>>
          BY DEF Messages, Written, Typed
        <4> HIDE DEF m
        <4> QED
          BY <3>1, <4>1, SendStep
      <3>2. CASE up' = up
        BY <3>2 DEF Typed
      <3> QED
        BY <1>3, <3>1, <3>2 DEF AskAttach
    <2>3. Typed'
      BY <2>1, <2>2 DEF Typed, Before
    <2>4. Idle
      BY <2>1, <2>2 DEF Idle, Passed, Read, Running
    <2> QED
      BY <2>3, <2>4, IdleStep
  <1>4. CASE Attached
    <2>1. /\ UNCHANGED <<config, tty, typed, eof, seq, taken, matched, chunk,
                         pump, up, gone, alive, pane, asked>>
          /\ pc = "reply" /\ pc' \in {"watch", "raw", "ended"}
      BY <1>4 DEF Attached, Main, End, ttyVars, pumpVars, netVars, sessVars
    <2>2. Typed'
      BY <2>1 DEF Typed, Before
    <2>3. Idle
      BY <2>1 DEF Idle, Passed, Read, Running
    <2> QED
      BY <2>2, <2>3, IdleStep
  <1>5. CASE MakeRaw
    <2>1. /\ UNCHANGED <<config, tty, typed, eof, seq, taken, matched, chunk,
                         up, gone, alive, pane, asked>>
          /\ pc = "raw" /\ pc' = "watch" /\ pump' = "read"
      BY <1>5 DEF MakeRaw, Main, netVars, sessVars
    <2>2. pump = "off"
      BY <2>1 DEF Typed, Before
    <2>3. Typed'
      BY <2>1, <2>2 DEF Typed, Before
    <2>4. Read' = Read /\ Passed' = Passed
      BY <2>1 DEF Read, Passed
    <2>5. Exact'
      BY <2>1, <2>2, <2>4 DEF Exact, Running
    <2> QED
      BY <2>3, <2>5
  <1>6. CASE Notify \/ SelectLeave
    <2>1. /\ UNCHANGED <<config, tty, typed, eof, seq, taken, matched, chunk,
                         pump, up, gone, alive, pane, asked>>
          /\ pc \in {"watch", "loop"} /\ pc' \in {"loop", "leave"}
      BY <1>6 DEF Notify, SelectLeave, Main, ttyVars, pumpVars, netVars, sessVars
    <2>2. Typed'
      BY <2>1 DEF Typed, Before
    <2>3. Idle
      BY <2>1 DEF Idle, Passed, Read, Running
    <2> QED
      BY <2>2, <2>3, IdleStep
  <1>7. CASE SelectWinch
    <2>1. /\ UNCHANGED <<config, tty, typed, eof, seq, taken, matched, chunk,
                         pump, up, gone, alive, pane>>
          /\ pc = "loop" /\ pc' = "resize" /\ asked' = tty
      BY <1>7 DEF SelectWinch, Main, ttyVars, pumpVars, netVars, sessVars
    <2>2. Typed'
      BY <2>1 DEF Typed, Before
    <2>3. Idle
      BY <2>1 DEF Idle, Passed, Read, Running
    <2> QED
      BY <2>2, <2>3, IdleStep
  <1>8. CASE SelectEvent
    <2>1. /\ UNCHANGED <<config, tty, typed, eof, seq, taken, matched, chunk,
                         pump, up, gone, alive, pane, asked>>
          /\ pc = "loop" /\ pc' \in {"loop", "ended"}
      BY <1>8 DEF SelectEvent, Main, End, ttyVars, pumpVars, netVars, sessVars
    <2>2. Typed'
      BY <2>1 DEF Typed, Before
    <2>3. Idle
      BY <2>1 DEF Idle, Passed, Read, Running
    <2> QED
      BY <2>2, <2>3, IdleStep
  <1>9. CASE SendResize \/ Leave
    <2>1. /\ UNCHANGED <<config, tty, typed, eof, seq, taken, matched, chunk,
                         pump, down, gone, alive, pane, asked>>
          /\ pc \in {"resize", "leave"} /\ pc' \in {"loop", "ended"}
      BY <1>9 DEF SendResize, Leave, Main, End, ttyVars, pumpVars, netVars,
                  sessVars
    <2>2. up' \in Seq(Messages) /\ Carried(up') = Carried(up)
      <3> DEFINE m == [type |-> "resize", arg |-> asked]
                 n == [type |-> "detach", arg |-> NoSize]
      <3>1. CASE Send(m)
        <4>1. m \in Messages /\ Written(m) = <<>>
          BY DEF Messages, Written, Typed
        <4> HIDE DEF m
        <4> QED
          BY <3>1, <4>1, SendStep
      <3>2. CASE Send(n)
        <4>1. n \in Messages /\ Written(n) = <<>>
          BY DEF Messages, Written, Screens
        <4> HIDE DEF n
        <4> QED
          BY <3>2, <4>1, SendStep
      <3>3. CASE up' = up
        BY <3>3 DEF Typed
      <3> QED
        BY <1>9, <3>1, <3>2, <3>3 DEF SendResize, Leave
    <2>3. Typed'
      BY <2>1, <2>2 DEF Typed, Before
    <2>4. Idle
      BY <2>1, <2>2 DEF Idle, Passed, Read, Running
    <2> QED
      BY <2>3, <2>4, IdleStep
  <1> QED
    BY <1>1, <1>2, <1>3, <1>4, <1>5, <1>6, <1>7, <1>8, <1>9 DEF Main

\* The steps of the reader of stdin.
LEMMA PumpStep ==
    ASSUME Typed, Exact, Pump PROVE Typed' /\ Exact'
  <1>1. /\ UNCHANGED <<config, tty, typed, eof, pc, asked, seq, gone, alive,
                       pane>>
        /\ Running /\ Running' = Running
    BY DEF Pump, ttyVars, cmdVars, sessVars, Running
  <1>2. /\ typed \in Seq(Symbols) /\ taken \in 0 .. Len(typed)
        /\ seq \in Keys /\ up \in Seq(Messages) /\ pane \in Seq(Symbols)
        /\ Carried(up) \in Seq(Symbols)
    <2> DEFINE z == [type |-> "detach", arg |-> NoSize]
    <2>1. z \in Messages
      BY DEF Messages, Screens
    <2> HIDE DEF z
    <2>2. up \in Seq(Messages)
      BY DEF Typed
    <2>3. Carried(up) \in Seq(Symbols)
      BY <2>1, <2>2, CarriedAppend
    <2> QED
      BY <2>2, <2>3 DEF Typed
  <1>3. CASE PumpRead
    <2>1. pump = "read" /\ up' = up
      BY <1>3 DEF PumpRead
    <2>2. PICK n \in (taken + 1) .. Len(typed) :
             LET m == Feed(seq, matched, SubSeq(typed, taken + 1, n)) IN
             /\ taken' = n
             /\ matched' = m.matched /\ chunk' = m /\ pump' = PumpNext(m)
      BY <1>3 DEF PumpRead
    <2> DEFINE c == SubSeq(typed, taken + 1, n)
               m == Feed(seq, matched, c)
               x == Read
               y == SubSeq(typed, 1, n)
               w == Forwarded(seq, x)
    <2>3. n \in 0 .. Len(typed) /\ taken \in Nat /\ Len(typed) \in Nat
      BY <1>2
    <2>4. c \in Seq(Symbols) /\ x \in Seq(Symbols) /\ y = x \o c
      <3>1. x \in Seq(Symbols)
        BY <1>2, FirstOf DEF Read
      <3> DEFINE a == taken + 1
      <3>2. /\ a \in Int /\ n \in Int
            /\ \A i \in a..n : i \in 1 .. Len(typed)
        BY <1>2, <2>3
      <3>3. \A i \in a..n : typed[i] \in Symbols
        BY <1>2, <3>2, ElementOfSeq
      <3> HIDE DEF a
      <3>4. SubSeq(typed, a, n) \in Seq(Symbols)
        BY <3>2, <3>3, SubSeqProperties
      <3>5. /\ 1 \in 1 .. Len(typed) + 1 /\ taken \in 1 - 1 .. Len(typed)
            /\ n \in taken .. Len(typed)
        BY <1>2, <2>3
      <3>6. y = x \o c
        BY <1>2, <3>5, ConcatAdjacentSubSeq DEF Read
      <3> QED
        BY <3>1, <3>4, <3>6 DEF a
    <2>5. ~Occurs(seq, x) /\ matched = Held(seq, x) /\ chunk.out = <<>>
      BY <2>1 DEF Exact
    <2>6. taken' = n /\ matched' = m.matched /\ chunk' = m
          /\ pump' = PumpNext(m)
      BY <2>2
    <2>7. Read' = y
      BY <1>1, <2>6 DEF Read
    <2> HIDE DEF c, x, y, w
    <2>8. HasRead(seq, m, y, w)
      BY <1>2, <2>4, <2>5, FeedRead DEF w
    <2> HIDE DEF m
    <2>9. /\ m \in Matchers
          /\ m.done <=> Occurs(seq, y)
          /\ ~m.done => m.matched = Held(seq, y)
          /\ Forwarded(seq, y) = w \o m.out
      BY <2>8 DEF HasRead
    <2>10. /\ pump' \in {"write", "left", "read"}
           /\ pump' # "write" => m.out = <<>>
           /\ pump' = "left" => m.done
           /\ pump' = "read" => ~m.done
      BY <2>6 DEF PumpNext
    <2>11. Typed'
      <3>1. taken' \in 0 .. Len(typed')
        BY <1>1, <2>3, <2>6
      <3>2. chunk' \in Matchers /\ pump' \in {"off", "read", "write", "left"}
            /\ pump' # "off" /\ up' = up
        BY <2>1, <2>6, <2>9, <2>10
      <3>3. pc' = pc /\ pc \notin Before
        BY <1>1, <2>1 DEF Typed
      <3> QED
        BY <1>1, <3>1, <3>2, <3>3 DEF Typed
    <2>12. Exact'
      <3>1. /\ Passed' = Passed /\ Passed \in Seq(Symbols)
        <4> DEFINE z == Carried(up)
        <4>1. z \in Seq(Symbols)
          BY <1>2
        <4> HIDE DEF z
        <4>2. pane \o z \in Seq(Symbols)
          BY <1>2, <4>1
        <4> QED
          BY <1>1, <2>1, <4>2 DEF Passed, z
      <3>2. Running' /\ alive' /\ ~gone' => Passed = w
        <4>1. Passed \o <<>> = Passed
          BY <3>1, Joining
        <4>2. Running /\ alive /\ ~gone => Passed \o chunk.out = w
          BY DEF Exact, w, x
        <4> QED
          BY <1>1, <2>5, <4>1, <4>2
      <3>3. Running' /\ alive' /\ ~gone' =>
               /\ Passed' \o chunk'.out = Forwarded(seq', Read')
               /\ pump' = "left" => eof' \/ Occurs(seq', Read')
        BY <1>1, <2>6, <2>7, <2>9, <2>10, <3>1, <3>2
      <3>4. /\ pump' # "write" => chunk'.out = <<>>
            /\ pump' \in {"off", "read"} \/ (pump' = "write" /\ ~chunk'.done) =>
                   ~Occurs(seq', Read') /\ matched' = Held(seq', Read')
            /\ pump' = "write" /\ chunk'.done => Occurs(seq', Read')
        BY <1>1, <2>6, <2>7, <2>9, <2>10
      <3> QED
        BY <3>3, <3>4 DEF Exact
    <2> QED
      BY <2>11, <2>12
  <1>4. CASE PumpWrite
    <2>1. /\ pump = "write" /\ chunk' = Matcher
          /\ taken' = taken /\ matched' = matched
      BY <1>4 DEF PumpWrite
    <2>2. Matcher \in Matchers /\ Matcher.out = <<>> /\ Matcher.done = FALSE
      BY Joining DEF Matcher, Matchers
    <2>3. Read' = Read
      BY <1>1, <2>1 DEF Read
    <2>4. chunk \in Matchers /\ pc \notin Before
      BY <2>1 DEF Typed
    <2>5. CASE gone
      <3>1. pump' = "left" /\ up' = up
        BY <1>4, <2>5 DEF PumpWrite, Send
      <3>2. Typed'
        BY <1>1, <2>1, <2>2, <2>4, <3>1 DEF Typed
      <3>3. Exact'
        BY <1>1, <2>1, <2>2, <2>5, <3>1 DEF Exact
      <3> QED
        BY <3>2, <3>3
    <2>6. CASE ~gone
      <3> DEFINE b == chunk.out
                 m == [type |-> "write_pane", arg |-> b]
      <3>1. /\ Send(m) /\ pump' = IF chunk.done THEN "left" ELSE "read"
            /\ up' = Append(up, m)
        BY <1>4, <2>6 DEF PumpWrite, Send
      <3>2. m \in Messages /\ Written(m) = b /\ b \in Seq(Symbols)
        BY <2>4 DEF Messages, Matchers, Written
      <3> HIDE DEF m, b
      <3>3. /\ up' \in Seq(Messages)
            /\ Carried(up') = Carried(up) \o b
        BY <1>2, <3>1, <3>2, CarriedAppend
      <3>4. Typed'
        BY <1>1, <2>1, <2>2, <2>4, <3>1, <3>3 DEF Typed
      <3>5. Passed' = Passed \o b /\ Passed \o b \in Seq(Symbols)
        <4> DEFINE z == Carried(up)
        <4>1. z \in Seq(Symbols)
          BY <1>2
        <4>2. Passed' = pane \o (z \o b) /\ Passed = pane \o z
          BY <1>1, <3>3 DEF Passed
        <4> HIDE DEF z
        <4>3. (pane \o z) \o b = pane \o (z \o b)
          BY <1>2, <3>2, <4>1, Three
        <4>4. pane \o z \in Seq(Symbols)
          BY <1>2, <4>1
        <4> DEFINE v == pane \o z
        <4>5. v \in Seq(Symbols) /\ Passed = v /\ Passed' = v \o b
          BY <4>2, <4>3, <4>4
        <4> HIDE DEF v
        <4>6. v \o b \in Seq(Symbols)
          BY <3>2, <4>5
        <4> QED
          BY <4>5, <4>6
      <3>6. Running' /\ alive' /\ ~gone' =>
               Passed' \o chunk'.out = Forwarded(seq', Read')
        <4>1. Passed' \o <<>> = Passed'
          BY <3>5, Joining
        <4>2. Running /\ alive /\ ~gone => Passed \o b = Forwarded(seq, Read)
          BY DEF Exact, b
        <4> QED
          BY <1>1, <2>1, <2>2, <2>3, <3>5, <4>1, <4>2
      <3>7. /\ chunk.done => Occurs(seq, Read)
            /\ ~chunk.done => ~Occurs(seq, Read) /\ matched = Held(seq, Read)
        BY <2>1 DEF Exact
      <3>8. Exact'
        BY <1>1, <2>1, <2>2, <2>3, <3>1, <3>6, <3>7 DEF Exact
      <3> QED
        BY <3>4, <3>8
    <2> QED
      BY <2>5, <2>6
  <1>5. CASE PumpEof
    <2>1. /\ pump = "read" /\ eof /\ pump' = "left"
          /\ UNCHANGED <<taken, matched, chunk, up>>
      BY <1>5 DEF PumpEof
    <2>2. pc \notin Before
      BY <2>1 DEF Typed
    <2>3. Typed'
      BY <1>1, <2>1, <2>2 DEF Typed
    <2>4. Passed' = Passed /\ Read' = Read
      BY <1>1, <2>1 DEF Passed, Read
    <2>5. Exact'
      BY <1>1, <2>1, <2>4 DEF Exact
    <2> QED
      BY <2>3, <2>5
  <1> QED
    BY <1>3, <1>4, <1>5 DEF Pump

\* The window's and the signals' steps, and the user's.
LEMMA OutsideStep ==
    ASSUME Typed, Exact, Forward \/ User PROVE Typed' /\ Exact'
  <1>1. /\ typed \in Seq(Symbols) /\ taken \in 0 .. Len(typed)
    BY DEF Typed
  <1>2. CASE Forward
    <2>1. UNCHANGED <<config, tty, typed, eof, pc, asked, seq, taken, matched,
                      chunk, pump, up, gone, alive, pane>>
      BY <1>2 DEF Forward, ttyVars, cmdVars, pumpVars, netVars, sessVars
    <2>2. Typed'
      BY <2>1 DEF Typed
    <2>3. Idle
      BY <2>1 DEF Idle, Passed, Read, Running
    <2> QED
      BY <2>2, <2>3, IdleStep
  <1>3. CASE Type
    <2>1. /\ UNCHANGED <<config, tty, pc, asked, seq, taken, matched, chunk,
                         pump, up, gone, alive, pane>>
          /\ eof => eof'
      BY <1>3 DEF Type, cmdVars, pumpVars, netVars, sessVars
    <2>2. /\ typed' \in Seq(Symbols) /\ taken \in 0 .. Len(typed')
          /\ Read' = Read
      <3>1. CASE typed' = typed
        BY <1>1, <2>1, <3>1 DEF Read
      <3>2. ASSUME NEW b \in Typeable, typed' = Append(typed, b)
            PROVE  /\ typed' \in Seq(Symbols) /\ taken \in 0 .. Len(typed')
                   /\ Read' = Read
        <4>1. b \in Symbols
          BY DEF Symbols
        <4>2. /\ typed' \in Seq(Symbols) /\ Len(typed') = Len(typed) + 1
              /\ Len(typed) \in Nat
          BY <1>1, <3>2, <4>1, AppendProperties
        <4>3. taken \in 0 .. Len(typed')
          BY <1>1, <4>2
        <4>4. SubSeq(typed', 1, taken) = SubSeq(typed, 1, taken)
          BY <1>1, <3>2, <4>1, FirstOfLonger
        <4> QED
          BY <2>1, <4>2, <4>3, <4>4 DEF Read
      <3> QED
        BY <1>3, <3>1, <3>2 DEF Type
    <2>3. Typed'
      BY <2>1, <2>2 DEF Typed
    <2>4. Idle
      BY <2>1, <2>2 DEF Idle, Passed, Running
    <2> QED
      BY <2>3, <2>4, IdleStep
  <1>4. CASE ResizeWindow
    <2>1. /\ UNCHANGED <<config, typed, eof, pc, asked, seq, taken, matched,
                         chunk, pump, up, gone, alive, pane>>
          /\ tty' \in Screens
      BY <1>4 DEF ResizeWindow, cmdVars, pumpVars, netVars, sessVars, Screens
    <2>2. Typed'
      BY <2>1 DEF Typed
    <2>3. Idle
      BY <2>1 DEF Idle, Passed, Read, Running
    <2> QED
      BY <2>2, <2>3, IdleStep
  <1>5. CASE Terminate
    <2>1. /\ UNCHANGED <<config, tty, typed, eof, asked, seq, taken, matched,
                         chunk, pump, up, gone, alive, pane>>
          /\ pc' = pc \/ pc' = "died"
      BY <1>5 DEF Terminate, ttyVars, pumpVars, netVars, sessVars
    <2>2. Typed'
      BY <2>1 DEF Typed, Before
    <2>3. Idle
      BY <1>5, <2>1 DEF Idle, Passed, Read, Running, Terminate
    <2> QED
      BY <2>2, <2>3, IdleStep
  <1> QED
    BY <1>2, <1>3, <1>4, <1>5 DEF User

\* The steps of the session.
LEMMA DaemonStep ==
    ASSUME Typed, Exact, Daemon PROVE Typed' /\ Exact'
  <1>1. UNCHANGED <<config, tty, typed, eof, pc, asked, seq, taken, matched,
                    chunk, pump>>
    BY DEF Daemon, ttyVars, cmdVars, pumpVars
  <1>2. Read' = Read
    BY <1>1 DEF Read
  <1>3. CASE Serve
    <2> DEFINE m == Head(up)
    <2>1. /\ up # <<>> /\ up \in Seq(Messages) /\ pane \in Seq(Symbols)
          /\ gone' = gone /\ alive' = alive /\ up' = Tail(up) /\ Handle(m)
      BY <1>3 DEF Serve, Typed
    <2>2. /\ m \in Messages /\ up' \in Seq(Messages)
          /\ Carried(up') \in Seq(Symbols)
          /\ Carried(up) = Written(m) \o Carried(up')
      BY <2>1, CarriedFirst
    <2> HIDE DEF m
    <2>3. CASE m.type = "write_pane" /\ alive
      <3> DEFINE b == m.arg
                 z == Carried(up')
      <3>1. pane' = pane \o b
        BY <2>1, <2>3 DEF Handle
      <3>2. b \in Seq(Symbols) /\ z \in Seq(Symbols) /\ Written(m) = b
        <4>1. Written(m) = b
          BY <2>3 DEF Written
        <4> QED
          BY <2>2, <4>1, WrittenType
      <3>3. Passed' = (pane \o b) \o z /\ Passed = pane \o (b \o z)
        BY <2>2, <3>1, <3>2 DEF Passed
      <3> HIDE DEF b, z
      <3>4. (pane \o b) \o z = pane \o (b \o z)
        BY <2>1, <3>2, Three
      <3>5. pane' \in Seq(Symbols)
        BY <2>1, <3>1, <3>2
      <3>6. Typed'
        BY <1>1, <2>2, <3>5 DEF Typed
      <3>7. Idle
        BY <1>1, <1>2, <2>1, <3>3, <3>4 DEF Idle, Running
      <3> QED
        BY <3>6, <3>7, IdleStep
    <2>4. CASE m.type # "write_pane" /\ alive
      <3>1. pane' = pane
        BY <2>1, <2>4 DEF Handle
      <3>2. Written(m) = <<>>
        BY <2>4 DEF Written
      <3> DEFINE z == Carried(up')
      <3>3. Carried(up) = z
        <4>1. z \in Seq(Symbols) /\ Carried(up) = <<>> \o z
          BY <2>2, <3>2
        <4> HIDE DEF z
        <4> QED
          BY <4>1, Joining
      <3>4. Passed' = Passed
        BY <3>1, <3>3 DEF Passed
      <3>5. Typed'
        BY <1>1, <2>1, <2>2, <3>1 DEF Typed
      <3>6. Idle
        BY <1>1, <1>2, <2>1, <3>4 DEF Idle, Running
      <3> QED
        BY <3>5, <3>6, IdleStep
    <2>5. CASE ~alive
      <3>1. pane' = pane /\ ~alive'
        BY <2>1, <2>5 DEF Handle
      <3>2. Typed'
        BY <1>1, <2>1, <2>2, <3>1 DEF Typed
      <3>3. Exact'
        BY <1>1, <1>2, <3>1 DEF Exact
      <3> QED
        BY <3>2, <3>3
    <2> QED
      BY <2>3, <2>4, <2>5
  <1>4. CASE HangUp \/ OtherVotes \/ OutsiderResizes
    <2>1. UNCHANGED <<up, pane, gone, alive>>
      BY <1>4 DEF HangUp, OtherVotes, OutsiderResizes, netVars
    <2>2. Typed'
      BY <1>1, <2>1 DEF Typed
    <2>3. Idle
      BY <1>1, <1>2, <2>1 DEF Idle, Passed, Running
    <2> QED
      BY <2>2, <2>3, IdleStep
  <1>5. CASE SessionEnds
    <2>1. up' = up /\ pane' = pane /\ gone' = gone /\ alive' = FALSE
      BY <1>5 DEF SessionEnds
    <2>2. Typed'
      BY <1>1, <2>1 DEF Typed
    <2>3. Exact'
      BY <1>1, <1>2, <2>1 DEF Exact
    <2> QED
      BY <2>2, <2>3
  <1>6. CASE Gone
    <2>1. up' = up /\ pane' = pane /\ gone' = TRUE /\ alive' = alive
      BY <1>6 DEF Gone, sessVars
    <2>2. Typed'
      BY <1>1, <2>1 DEF Typed
    <2>3. Exact'
      BY <1>1, <1>2, <2>1 DEF Exact
    <2> QED
      BY <2>2, <2>3
  <1> QED
    BY <1>3, <1>4, <1>5, <1>6 DEF Daemon

\* No step of the command, of what is outside it, of the daemon or of another
\* command line makes what the session got differ from what was read.
LEMMA TypedStep == Typed /\ Exact /\ [Next]_vars => (Typed /\ Exact)'
  <1> SUFFICES ASSUME Typed, Exact, [Next]_vars PROVE Typed' /\ Exact'
    OBVIOUS
  <1>1. CASE Dispatch \/ UNCHANGED vars
    <2>1. UNCHANGED <<config, tty, typed, eof, pc, asked, seq, taken,
                      matched, chunk, pump, up, gone, alive, pane>>
      BY <1>1 DEF Dispatch, vars, attachVars, ttyVars, cmdVars, pumpVars,
                  netVars, sessVars
    <2>2. Typed'
      BY <2>1 DEF Typed
    <2>3. Idle
      BY <2>1 DEF Idle, Passed, Read, Running
    <2> QED
      BY <2>2, <2>3, IdleStep
  <1>2. CASE AttachNext
    BY <1>2, MainStep, PumpStep, OutsideStep, DaemonStep DEF AttachNext
  <1> QED
    BY <1>1, <1>2 DEF Next

\* However what is typed is cut into pieces, and whatever signals, window
\* changes and votes come in between, the session gets the bytes before the
\* sequence that detaches, each once and in order, and the command detaches by
\* it or by the end of stdin only.
THEOREM DetachCorrect == Spec => []DetachExact
  <1>1. Typed /\ Exact => DetachExact
    <2> SUFFICES ASSUME Typed, Exact, Running, alive, ~gone
                 PROVE  /\ pane \o OnTheWay \o chunk.out
                              = Forwarded(seq, SubSeq(typed, 1, taken))
                        /\ \/ pump \in {"write", "left"}
                           \/ ~Occurs(seq, SubSeq(typed, 1, taken))
                        /\ pump = "left" =>
                              eof \/ Occurs(seq, SubSeq(typed, 1, taken))
      BY DEF DetachExact
    <2>1. OnTheWay = Carried(up)
      BY DEF OnTheWay, Carried
    <2>2. Passed \o chunk.out = Forwarded(seq, Read)
      BY DEF Exact
    <2>3. pump \in {"off", "read"} => ~Occurs(seq, Read)
      BY DEF Exact
    <2>4. pump = "left" => eof \/ Occurs(seq, Read)
      BY DEF Exact
    <2>5. pump \in {"off", "read", "write", "left"}
      BY DEF Typed
    <2> QED
      BY <2>1, <2>2, <2>3, <2>4, <2>5 DEF Passed, Read
  <1> QED
    BY <1>1, InitInv, TypedStep, PTL DEF Spec

-----------------------------------------------------------------------------
(* The size of the session *)

\* What may be counted as a vote.
Places == Sizes \cup {NoVote, NoSize}

\* Requests that say, and those that bear on, what the command votes.
Asks(m) == m.type \in {"attach", "resize"}
Bears(m) == m.type \in {"attach", "resize", "detach"}

\* Of the requests u: none bears on the vote; the last that does asks for s;
\* what they ask for is in S; none is the last request.
Quiet(u) == \A i \in 1 .. Len(u) : ~Bears(u[i])
Asking(u, s) ==
    \E i \in 1 .. Len(u) : /\ Asks(u[i]) /\ u[i].arg = s
                           /\ \A j \in (i + 1) .. Len(u) : ~Bears(u[j])
Args(u, S) == \A i \in 1 .. Len(u) : Asks(u[i]) => u[i].arg \in S
Stays(u) == \A i \in 1 .. Len(u) : u[i].type # "detach"

\* One more request.
LEMMA OneMore ==
    ASSUME NEW u \in Seq(Messages), NEW m \in Messages
    PROVE  LET v == Append(u, m) IN
           /\ v # <<>> /\ (u # <<>> => v[1] = u[1]) /\ (u = <<>> => v[1] = m)
           /\ ~Bears(m) => /\ Quiet(u) => Quiet(v)
                           /\ \A s : Asking(u, s) => Asking(v, s)
           /\ Asks(m) => Asking(v, m.arg)
           /\ \A S : Args(u, S) /\ (Asks(m) => m.arg \in S) => Args(v, S)
           /\ Stays(u) /\ m.type # "detach" => Stays(v)
  <1> DEFINE v == Append(u, m)
             L == Len(u)
  <1>1. /\ L \in Nat /\ Len(v) = L + 1 /\ v # <<>>
        /\ v[L + 1] = m /\ \A i \in 1..L : v[i] = u[i]
    BY AppendProperties
  <1>2. /\ u # <<>> => L # 0
        /\ u = <<>> => L = 0
    BY EmptySeq
  <1> HIDE DEF v, L
  <1>3. \A i \in 1 .. Len(v) : i = L + 1 \/ (i \in 1..L /\ v[i] = u[i])
    BY <1>1
  <1>4. (u # <<>> => v[1] = u[1]) /\ (u = <<>> => v[1] = m)
    BY <1>1, <1>2
  <1>5. ASSUME ~Bears(m), Quiet(u) PROVE Quiet(v)
    BY <1>1, <1>3, <1>5 DEF Quiet, L
  <1>6. ASSUME ~Bears(m), NEW s, Asking(u, s) PROVE Asking(v, s)
    <2>1. PICK i \in 1..L : /\ Asks(u[i]) /\ u[i].arg = s
                            /\ \A j \in (i + 1)..L : ~Bears(u[j])
      BY <1>6 DEF Asking, L
    <2>2. i \in 1 .. Len(v) /\ v[i] = u[i]
      BY <1>1
    <2>3. \A j \in (i + 1) .. Len(v) : j = L + 1 \/ j \in (i + 1)..L
      BY <1>1
    <2>4. \A j \in (i + 1)..L : v[j] = u[j]
      BY <1>1
    <2> QED
      BY <1>1, <1>6, <2>1, <2>2, <2>3, <2>4 DEF Asking
  <1>7. ASSUME Asks(m) PROVE Asking(v, m.arg)
    <2>1. L + 1 \in 1 .. Len(v) /\ \A j : j \notin (L + 1 + 1) .. Len(v)
      BY <1>1
    <2> QED
      BY <1>1, <1>7, <2>1 DEF Asking
  <1>8. ASSUME NEW S, Args(u, S), Asks(m) => m.arg \in S PROVE Args(v, S)
    BY <1>1, <1>3, <1>8 DEF Args, L
  <1>9. ASSUME Stays(u), m.type # "detach" PROVE Stays(v)
    BY <1>1, <1>3, <1>9 DEF Stays, L
  <1> QED
    BY <1>1, <1>4, <1>5, <1>6, <1>7, <1>8, <1>9 DEF v

\* One request less.
LEMMA OneLess ==
    ASSUME NEW u \in Seq(Messages), u # <<>>
    PROVE  LET v == Tail(u)
               m == Head(u)
           IN  /\ m \in Messages /\ v \in Seq(Messages) /\ m = u[1]
               /\ Quiet(u) => Quiet(v) /\ ~Bears(m)
               /\ \A s : Asking(u, s) =>
                            \/ Asking(v, s)
                            \/ Asks(m) /\ m.arg = s /\ Quiet(v)
               /\ \A S : Args(u, S) => Args(v, S) /\ (Asks(m) => m.arg \in S)
               /\ Stays(u) => Stays(v) /\ m.type # "detach"
  <1> DEFINE v == Tail(u)
             m == Head(u)
             L == Len(u)
  <1>1. /\ L \in Nat /\ L # 0 /\ Len(v) = L - 1 /\ v \in Seq(Messages)
        /\ m \in Messages /\ m = u[1]
        /\ \A i \in 1 .. Len(v) : v[i] = u[i + 1]
    BY EmptySeq, HeadTailProperties
  <1> HIDE DEF v, m, L
  <1>2. \A i \in 1 .. Len(v) : i + 1 \in 1..L /\ v[i] = u[i + 1]
    BY <1>1
  <1>3. 1 \in 1..L
    BY <1>1
  <1>4. ASSUME Quiet(u) PROVE Quiet(v) /\ ~Bears(m)
    BY <1>1, <1>2, <1>3, <1>4 DEF Quiet, L
  <1>5. ASSUME NEW s, Asking(u, s)
        PROVE  Asking(v, s) \/ (Asks(m) /\ m.arg = s /\ Quiet(v))
    <2>1. PICK i \in 1..L : /\ Asks(u[i]) /\ u[i].arg = s
                            /\ \A j \in (i + 1)..L : ~Bears(u[j])
      BY <1>5 DEF Asking, L
    <2>2. CASE i = 1
      <3>1. \A j \in 1 .. Len(v) : j + 1 \in (i + 1)..L
        BY <1>1, <2>2
      <3> QED
        BY <1>1, <1>2, <2>1, <2>2, <3>1 DEF Quiet
    <2>3. CASE i # 1
      <3> DEFINE k == i - 1
      <3>1. k \in 1 .. Len(v) /\ k + 1 = i
        BY <1>1, <2>3
      <3> HIDE DEF k
      <3>2. \A j \in (k + 1) .. Len(v) : j \in 1 .. Len(v) /\ j + 1 \in (i + 1)..L
        BY <1>1, <3>1
      <3>3. Asking(v, s)
        BY <1>2, <2>1, <3>1, <3>2 DEF Asking
      <3> QED
        BY <3>3
    <2> QED
      BY <2>2, <2>3
  <1>6. ASSUME NEW S, Args(u, S) PROVE Args(v, S) /\ (Asks(m) => m.arg \in S)
    BY <1>1, <1>2, <1>3, <1>6 DEF Args, L
  <1>7. ASSUME Stays(u) PROVE Stays(v) /\ m.type # "detach"
    BY <1>1, <1>2, <1>3, <1>7 DEF Stays, L
  <1> QED
    BY <1>1, <1>4, <1>5, <1>6, <1>7 DEF v, m

\* Nothing was asked for.
LEMMA NothingAsked ==
    Quiet(<<>>) /\ Stays(<<>>) /\ \A S : Args(<<>>, S)
  <1>1. Len(<<>>) = 0 /\ \A i : i \notin 1..0
    OBVIOUS
  <1> QED
    BY <1>1 DEF Quiet, Stays, Args

\* Where the command is between its request to attach and its end.
Within == {"reply", "raw", "watch", "loop", "resize", "leave"}

\* Types, and what is so before the command attaches, and when it is read-only.
Voting ==
    /\ mode \in {"none", "interactive", "readonly"}
    /\ pc \in {"config", "size", "attach", "ended", "died"} \cup Within
    /\ request = Unparsed => mode = "none"
    /\ mode = "none" => pc = "config"
    /\ tty \in Sizes
    /\ votes \in [{"ctl", "other"} -> Places]
    /\ pc \in {"config", "size", "attach"} => up = <<>> /\ votes["ctl"] = NoVote
    /\ (~sigwinch /\ ~winch) \/ Notified \/ ~Running
    /\ mode # "interactive" =>
          /\ ~sigwinch /\ ~winch /\ pc # "resize" /\ asked = NoSize
          /\ votes["ctl"] \in {NoVote, NoSize} /\ Args(up, {NoSize})
    /\ mode = "interactive" =>
          /\ pc \in {"attach", "resize"} => asked \in Sizes
          /\ Args(up, Sizes)

\* While anybody votes on it, the size is the smallest of the votes.
Sized ==
    LET least == <<Least(Votes(votes, 1)), Least(Votes(votes, 2))>> IN
    0 \in {least[1], least[2]} \/ size = least \/ ~alive

\* The session counts s as the command's vote, or will.
WillCount(s) == (votes["ctl"] = s /\ Quiet(up)) \/ Asking(up, s)

\* As long as nothing has ended, the size of the window is counted, or it will
\* be, or is about to be asked for, or a change of it has still to be noticed.
Following ==
    mode = "interactive" /\ alive /\ ~gone /\ Running =>
        /\ Stays(up)
        /\ pc \in Within =>
              votes["ctl"] # NoVote \/ (up # <<>> /\ up[1].type = "attach")
        /\ ~missed =>
              /\ pc = "attach" => asked = tty
              /\ pc \in {"reply", "raw", "watch"} => WillCount(tty)
              /\ pc = "loop" => sigwinch \/ winch \/ WillCount(tty)
              /\ pc = "resize" => sigwinch \/ winch \/ asked = tty

Counted == Voting /\ Sized /\ Following

\* What the steps that do not touch it leave as it is.
LEMMA CountedKept ==
    ASSUME Counted, alive' => alive, ~gone' => ~gone,
           UNCHANGED <<mode, request, tty, missed, pc, asked, sigwinch, winch,
                       up, votes, size>>
    PROVE  Counted'
  <1>1. Voting'
    BY DEF Counted, Voting, Notified, Running
  <1>2. Sized'
    BY DEF Counted, Sized
  <1>3. Following'
    BY DEF Counted, Following, WillCount, Running
  <1> QED
    BY <1>1, <1>2, <1>3 DEF Counted

\* A vote is counted at once.
LEMMA VoteIs ==
    ASSUME votes \in [{"ctl", "other"} -> Places],
           NEW c \in {"ctl", "other"}, NEW s \in Places, Vote(c, s)
    PROVE  /\ votes' \in [{"ctl", "other"} -> Places]
           /\ votes'[c] = s
           /\ \A d \in {"ctl", "other"} \ {c} : votes'[d] = votes[d]
           /\ Sized'
  <1>1. RecomputeSize([votes EXCEPT ![c] = s])
    BY DEF Vote
  <1>2. votes' = [votes EXCEPT ![c] = s]
    BY <1>1 DEF RecomputeSize
  <1>3. Sized'
    BY <1>1 DEF RecomputeSize, Sized
  <1> QED
    BY <1>2, <1>3

\* And one that is not attached has none.
LEMMA ResizeIs ==
    ASSUME votes \in [{"ctl", "other"} -> Places], NEW c, NEW s \in Places,
           ResizeFrom(c, s)
    PROVE  \/ c \in {"ctl", "other"} /\ votes[c] # NoVote /\ Vote(c, s)
           \/ /\ c \in {"ctl", "other"} => votes[c] = NoVote
              /\ votes' = votes /\ Sized'
  <1>1. DOMAIN votes = {"ctl", "other"}
    OBVIOUS
  <1>2. CASE c \in DOMAIN votes /\ votes[c] # NoVote
    BY <1>1, <1>2 DEF ResizeFrom
  <1>3. CASE ~(c \in DOMAIN votes /\ votes[c] # NoVote)
    <2>1. RecomputeSize(votes)
      BY <1>3 DEF ResizeFrom
    <2>2. votes' = votes /\ Sized'
      BY <2>1 DEF RecomputeSize, Sized
    <2> QED
      BY <1>1, <1>3, <2>2
  <1> QED
    BY <1>2, <1>3

\* The marks are no sizes.
LEMMA Marks ==
    /\ NoVote \notin Sizes /\ NoSize \notin Sizes /\ NoVote # NoSize
    /\ Sizes \subseteq Places /\ NoSize \in Places /\ NoVote \in Places
  <1>1. NoVote # NoSize
    BY DEF NoVote, NoSize
  <1>2. NoVote \notin Sizes /\ NoSize \notin Sizes
    BY SizeAssumption DEF NoVote, NoSize
  <1> QED
    BY <1>1, <1>2 DEF Places

\* The steps of the command.
LEMMA CountedMain ==
    ASSUME Typed, Counted, Main, mode # "none", request' = request
    PROVE  Counted'
  <1> USE DEF Go
  <1>1. /\ UNCHANGED <<mode, votes, size, alive>> /\ up \in Seq(Messages)
        /\ Sized /\ Voting /\ Following
    BY DEF Main, sessVars, Typed, Counted
  <1>2. Sized'
    BY <1>1 DEF Sized
  <1>3. CASE LoadConfig
    <2>1. /\ pc = "config" /\ pc' \in {"size", "ended"}
          /\ UNCHANGED <<tty, missed, asked, sigwinch, winch, up, gone>>
      BY <1>3 DEF LoadConfig, End, ttyVars, sigVars, netVars
    <2>2. Voting'
      BY <1>1, <2>1 DEF Voting, Within, Notified, Running
    <2>3. Following'
      BY <1>1, <2>1 DEF Following, Running, Within, Voting, NothingAsked
    <2> QED
      BY <1>2, <2>2, <2>3 DEF Counted
  <1>4. CASE GetSize
    <2>1. /\ pc = "size" /\ pc' = "attach"
          /\ asked' = IF mode = "readonly" THEN NoSize ELSE tty
          /\ UNCHANGED <<tty, missed, sigwinch, winch, up, gone>>
      BY <1>4 DEF GetSize, ttyVars, sigVars, netVars
    <2>2. mode # "none"
      BY <1>1, <2>1 DEF Voting
    <2>3. Voting'
      BY <1>1, <2>1, <2>2 DEF Voting, Within, Notified, Running
    <2>4. Following'
      BY <1>1, <2>1 DEF Following, Running, Within
    <2> QED
      BY <1>2, <2>3, <2>4 DEF Counted
  <1>5. CASE AskAttach
    <2>1. /\ pc = "attach" /\ up = <<>>
          /\ UNCHANGED <<asked, sigwinch, winch, gone, missed, tty>>
      BY <1>1, <1>5 DEF AskAttach, End, ttyVars, sigVars, Voting
    <2>2. CASE pc' = "ended" /\ up' = up
      <3>1. Voting'
        BY <1>1, <2>1, <2>2 DEF Voting, Within, Notified, Running
      <3>2. Following'
        BY <2>2 DEF Following, Running
      <3> QED
        BY <1>2, <3>1, <3>2 DEF Counted
    <2>3. CASE pc' = "reply" /\ Send([type |-> "attach", arg |-> asked])
      <3> DEFINE m == [type |-> "attach", arg |-> asked]
      <3>1. /\ m \in Messages /\ Asks(m) /\ m.arg = asked /\ m.type = "attach"
            /\ up' = Append(up, m)
        BY <2>3 DEF Send, Messages, Asks, Typed
      <3> HIDE DEF m
      <3>2. /\ up' # <<>> /\ up'[1] = m /\ Asking(up', asked)
            /\ \A S : asked \in S => Args(up', S)
            /\ Stays(up')
        <4>1. Stays(up) /\ \A S : Args(up, S)
          BY <2>1, NothingAsked
        <4> QED
          BY <1>1, <2>1, <3>1, <4>1, OneMore
      <3>3. Voting'
        BY <1>1, <2>1, <2>3, <3>2 DEF Voting, Within, Notified, Running
      <3>4. Following'
        BY <1>1, <2>1, <2>3, <3>1, <3>2
           DEF Following, Within, Running, WillCount
      <3> QED
        BY <1>2, <3>3, <3>4 DEF Counted
    <2> QED
      BY <1>5, <2>2, <2>3 DEF AskAttach, End
  <1>6. CASE Attached
    <2>1. /\ pc = "reply" /\ pc' \in {"ended", "watch", "raw"}
          /\ UNCHANGED <<tty, missed, asked, sigwinch, winch, up, gone>>
      BY <1>6 DEF Attached, End, ttyVars, sigVars
    <2>2. Voting'
      BY <1>1, <2>1 DEF Voting, Within, Notified, Running
    <2>3. Following'
      BY <1>1, <2>1 DEF Following, Running, Within, WillCount
    <2> QED
      BY <1>2, <2>2, <2>3 DEF Counted
  <1>7. CASE MakeRaw \/ Notify
    <2>1. /\ \/ pc = "raw" /\ pc' = "watch"
             \/ pc = "watch" /\ pc' = "loop"
          /\ UNCHANGED <<tty, missed, asked, sigwinch, winch, up, gone>>
      BY <1>7 DEF MakeRaw, Notify, ttyVars, sigVars, netVars
    <2>2. Voting'
      BY <1>1, <2>1 DEF Voting, Within, Notified, Running
    <2>3. Following'
      BY <1>1, <2>1 DEF Following, Running, Within, WillCount
    <2> QED
      BY <1>2, <2>2, <2>3 DEF Counted
  <1>8. CASE SelectLeave \/ SelectEvent
    <2>1. /\ pc = "loop" /\ pc' \in {"leave", "loop", "ended"}
          /\ UNCHANGED <<tty, missed, asked, sigwinch, winch, up, gone>>
      BY <1>8 DEF SelectLeave, SelectEvent, End, ttyVars, sigVars, netVars
    <2>2. Voting'
      BY <1>1, <2>1 DEF Voting, Within, Notified, Running
    <2>3. Following'
      BY <1>1, <2>1 DEF Following, Running, Within, WillCount
    <2> QED
      BY <1>2, <2>2, <2>3 DEF Counted
  <1>9. CASE SelectWinch
    <2>1. /\ pc = "loop" /\ pc' = "resize" /\ winch /\ ~winch' /\ asked' = tty
          /\ UNCHANGED <<tty, missed, sigwinch, up, gone>>
      BY <1>9 DEF SelectWinch, ttyVars, netVars
    <2>2. mode = "interactive"
      BY <1>1, <2>1 DEF Voting
    <2>3. Voting'
      BY <1>1, <2>1, <2>2 DEF Voting, Within, Notified, Running
    <2>4. Following'
      BY <1>1, <2>1 DEF Following, Running, Within
    <2> QED
      BY <1>2, <2>3, <2>4 DEF Counted
  <1>10. CASE SendResize
    <2>1. /\ pc = "resize" /\ pc' = "loop"
          /\ UNCHANGED <<tty, missed, asked, sigwinch, winch, gone>>
      BY <1>10 DEF SendResize, ttyVars, sigVars
    <2>2. mode = "interactive" /\ asked \in Sizes
      BY <1>1, <2>1 DEF Voting
    <2>3. CASE gone /\ up' = up
      <3>1. Voting'
        BY <1>1, <2>1, <2>3 DEF Voting, Within, Notified, Running
      <3>2. Following'
        BY <2>1, <2>3 DEF Following
      <3> QED
        BY <1>2, <3>1, <3>2 DEF Counted
    <2>4. CASE Send([type |-> "resize", arg |-> asked])
      <3> DEFINE m == [type |-> "resize", arg |-> asked]
      <3>1. /\ m \in Messages /\ Asks(m) /\ m.arg = asked /\ m.type = "resize"
            /\ up' = Append(up, m)
        BY <2>4 DEF Send, Messages, Asks, Typed
      <3> HIDE DEF m
      <3>2. /\ up' # <<>> /\ (up # <<>> => up'[1] = up[1]) /\ Asking(up', asked)
            /\ \A S : Args(up, S) /\ asked \in S => Args(up', S)
            /\ Stays(up) => Stays(up')
        BY <1>1, <3>1, OneMore
      <3>3. Voting'
        BY <1>1, <2>1, <2>2, <3>2 DEF Voting, Within, Notified, Running
      <3>4. Following'
        BY <1>1, <2>1, <3>2 DEF Following, Within, Running, WillCount
      <3> QED
        BY <1>2, <3>3, <3>4 DEF Counted
    <2> QED
      BY <1>10, <2>3, <2>4 DEF SendResize
  <1>11. CASE Leave
    <2>1. /\ pc = "leave" /\ pc' = "ended"
          /\ UNCHANGED <<tty, missed, asked, sigwinch, winch, gone>>
      BY <1>11 DEF Leave, End, sigVars
    <2>2. \A S : Args(up, S) => Args(up', S)
      <3>1. CASE up' = up
        BY <3>1
      <3>2. CASE Send([type |-> "detach", arg |-> NoSize])
        <4> DEFINE m == [type |-> "detach", arg |-> NoSize]
        <4>1. /\ m \in Messages /\ ~Asks(m) /\ up' = Append(up, m)
          BY <3>2 DEF Send, Messages, Asks, Screens
        <4> HIDE DEF m
        <4> QED
          BY <1>1, <4>1, OneMore
      <3> QED
        BY <1>11, <3>1, <3>2 DEF Leave
    <2>3. Voting'
      BY <1>1, <2>1, <2>2 DEF Voting, Within, Notified, Running
    <2>4. Following'
      BY <2>1 DEF Following, Running
    <2> QED
      BY <1>2, <2>3, <2>4 DEF Counted
  <1> QED
    BY <1>3, <1>4, <1>5, <1>6, <1>7, <1>8, <1>9, <1>10, <1>11 DEF Main

\* The steps of the reader of stdin, of the channel of window changes and of
\* the user.
LEMMA CountedOutside ==
    ASSUME Typed, Counted, Pump \/ Forward \/ User, mode # "none",
           request' = request
    PROVE  Counted'
  <1>1. /\ up \in Seq(Messages) /\ chunk \in Matchers
        /\ Sized /\ Voting /\ Following
    BY DEF Typed, Counted
  <1>2. CASE Pump
    <2>1. UNCHANGED <<mode, tty, missed, pc, asked, sigwinch, winch, gone,
                      alive, votes, size>>
      BY <1>2 DEF Pump, ttyVars, cmdVars, sigVars, sessVars
    <2>2. CASE up' = up
      BY <2>1, <2>2, CountedKept
    <2>3. CASE Send([type |-> "write_pane", arg |-> chunk.out])
      <3> DEFINE m == [type |-> "write_pane", arg |-> chunk.out]
      <3>1. /\ m \in Messages /\ ~Asks(m) /\ ~Bears(m) /\ m.type # "detach"
            /\ up' = Append(up, m)
        BY <1>1, <2>3 DEF Send, Messages, Asks, Bears, Matchers
      <3> HIDE DEF m
      <3>2. /\ up' # <<>> /\ (up # <<>> => up'[1] = up[1])
            /\ Quiet(up) => Quiet(up')
            /\ \A s : Asking(up, s) => Asking(up', s)
            /\ \A S : Args(up, S) => Args(up', S)
            /\ Stays(up) => Stays(up')
        BY <1>1, <3>1, OneMore
      <3>3. pc \notin Before
        BY <1>2 DEF Typed, Pump, PumpRead, PumpWrite, PumpEof
      <3>4. Voting'
        BY <1>1, <2>1, <3>2, <3>3 DEF Voting, Within, Notified, Running, Before
      <3>5. Sized'
        BY <1>1, <2>1 DEF Sized
      <3>6. Following'
        BY <1>1, <2>1, <3>2, <3>3 DEF Following, Within, Running, WillCount
      <3> QED
        BY <3>4, <3>5, <3>6 DEF Counted
    <2> QED
      BY <1>2, <2>2, <2>3 DEF Pump, PumpRead, PumpWrite, PumpEof
  <1>3. CASE Forward
    <2>1. /\ UNCHANGED <<mode, tty, missed, pc, asked, up, gone, alive, votes,
                         size>>
          /\ Running /\ sigwinch /\ winch'
      BY <1>3 DEF Forward, ttyVars, cmdVars, netVars, sessVars
    <2>2. Notified /\ mode = "interactive"
      BY <1>1, <2>1 DEF Voting
    <2>3. Voting'
      BY <1>1, <2>1, <2>2 DEF Voting, Within, Notified, Running
    <2>4. Sized'
      BY <1>1, <2>1 DEF Sized
    <2>5. Following'
      BY <1>1, <2>1, <2>2 DEF Following, Within, Running, WillCount, Notified
    <2> QED
      BY <2>3, <2>4, <2>5 DEF Counted
  <1>4. CASE Type
    <2>1. UNCHANGED <<mode, tty, missed, pc, asked, sigwinch, winch, up, gone,
                      alive, votes, size>>
      BY <1>4 DEF Type, cmdVars, sigVars, netVars, sessVars
    <2> QED
      BY <2>1, CountedKept
  <1>5. CASE ResizeWindow
    <2>1. /\ UNCHANGED <<mode, pc, asked, winch, up, gone, alive, votes, size>>
          /\ tty' \in Sizes
          /\ sigwinch' = (sigwinch \/ (Notified /\ mode = "interactive"))
          /\ missed' = (pc \in {"attach", "reply", "raw", "watch"})
      BY <1>5 DEF ResizeWindow, cmdVars, netVars, sessVars
    <2>2. Voting'
      BY <1>1, <2>1 DEF Voting, Within, Notified, Running
    <2>3. Sized'
      BY <1>1, <2>1 DEF Sized
    <2>4. Following'
      BY <1>1, <2>1 DEF Following, Within, Running, Notified
    <2> QED
      BY <2>2, <2>3, <2>4 DEF Counted
  <1>6. CASE Terminate
    <2>1. /\ UNCHANGED <<mode, tty, missed, asked, sigwinch, winch, up, gone,
                         alive, votes, size>>
          /\ pc' = pc \/ pc' = "died"
      BY <1>6 DEF Terminate, ttyVars, netVars, sessVars
    <2>2. CASE pc' = pc
      BY <2>1, <2>2, CountedKept
    <2>3. CASE pc' = "died"
      <3>1. Voting'
        BY <1>1, <2>1, <2>3 DEF Voting, Within, Notified, Running
      <3>2. Sized'
        BY <1>1, <2>1 DEF Sized
      <3>3. Following'
        BY <2>3 DEF Following, Running
      <3> QED
        BY <3>1, <3>2, <3>3 DEF Counted
    <2> QED
      BY <2>1, <2>2, <2>3
  <1> QED
    BY <1>2, <1>3, <1>4, <1>5, <1>6 DEF User

\* The steps of the session.
LEMMA CountedDaemon ==
    ASSUME Typed, Counted, Daemon, mode # "none", request' = request
    PROVE  Counted'
  <1>1. /\ UNCHANGED <<mode, tty, missed, pc, asked, sigwinch, winch>>
        /\ up \in Seq(Messages)
        /\ Sized /\ Voting /\ Following
        /\ votes \in [{"ctl", "other"} -> Places]
    BY DEF Daemon, ttyVars, cmdVars, sigVars, Typed, Counted, Voting
  <1>2. /\ NoVote \notin Sizes /\ NoSize \notin Sizes /\ NoVote # NoSize
        /\ \A s \in Sizes : s \in Places
        /\ NoSize \in Places /\ NoVote \in Places
    BY Marks
  <1>3. CASE Serve
    <2> DEFINE m == Head(up)
               v == Tail(up)
    <2>1. ~gone /\ up # <<>> /\ up' = v /\ gone' = gone /\ alive' = alive
          /\ Handle(m)
      BY <1>3 DEF Serve
    <2>2. /\ m \in Messages /\ v \in Seq(Messages) /\ m = up[1]
          /\ Quiet(up) => Quiet(v) /\ ~Bears(m)
          /\ \A s : Asking(up, s) =>
                       \/ Asking(v, s)
                       \/ Asks(m) /\ m.arg = s /\ Quiet(v)
          /\ \A S : Args(up, S) => Args(v, S) /\ (Asks(m) => m.arg \in S)
          /\ Stays(up) => Stays(v) /\ m.type # "detach"
      BY <1>1, <2>1, OneLess
    <2> HIDE DEF m, v
    <2>3. pc \notin {"config", "size", "attach"}
      BY <1>1, <2>1 DEF Voting
    <2>4. /\ mode # "interactive" => (Asks(m) => m.arg = NoSize)
          /\ mode = "interactive" => (Asks(m) => m.arg \in Sizes)
      BY <1>1, <2>2 DEF Voting
    <2>5. Asks(m) => m.arg \in Places
      BY <1>1, <1>2, <2>4 DEF Voting
    <2>6. CASE alive /\ m.type = "attach"
      <3>1. Vote("ctl", m.arg) /\ Asks(m)
        BY <2>1, <2>6 DEF Handle, Asks
      <3>2. /\ votes' \in [{"ctl", "other"} -> Places]
            /\ votes'["ctl"] = m.arg /\ Sized'
        BY <1>1, <2>5, <3>1, VoteIs
      <3>3. Voting'
        BY <1>1, <2>1, <2>2, <2>3, <2>4, <3>1, <3>2
           DEF Voting, Notified, Running
      <3>4. ASSUME WillCount(tty) PROVE WillCount(tty)'
        BY <1>1, <2>1, <2>2, <3>1, <3>2, <3>4 DEF WillCount, Asks, Bears
      <3>5. Following'
        BY <1>1, <1>2, <2>1, <2>2, <2>3, <2>4, <3>1, <3>2, <3>4
           DEF Following, Within, Running
      <3> QED
        BY <3>2, <3>3, <3>5 DEF Counted
    <2>7. CASE alive /\ m.type = "resize"
      <3>1. ResizeFrom("ctl", m.arg) /\ Asks(m)
        BY <2>1, <2>7 DEF Handle, Asks
      <3>2. \/ votes["ctl"] # NoVote /\ Vote("ctl", m.arg)
            \/ votes["ctl"] = NoVote /\ votes' = votes /\ Sized'
        BY <1>1, <2>5, <3>1, ResizeIs
      <3>3. ASSUME Vote("ctl", m.arg)
            PROVE  /\ votes' \in [{"ctl", "other"} -> Places]
                   /\ votes'["ctl"] = m.arg /\ Sized'
        BY <1>1, <2>5, <3>1, <3>3, VoteIs
      <3>4. Voting'
        BY <1>1, <2>1, <2>2, <2>3, <2>4, <3>1, <3>2, <3>3
           DEF Voting, Notified, Running
      <3>5. ASSUME WillCount(tty), votes["ctl"] # NoVote
            PROVE  WillCount(tty)'
        BY <1>1, <2>1, <2>2, <3>1, <3>2, <3>3, <3>5
           DEF WillCount, Asks, Bears
      <3>6. Following'
        <4> SUFFICES ASSUME mode = "interactive", alive, ~gone, Running
                     PROVE  Following'
          BY <1>1, <2>1 DEF Following, Running
        <4>1. votes["ctl"] # NoVote
          BY <1>1, <2>2, <2>3, <2>7 DEF Following, Within, Running, Voting
        <4>2. votes'["ctl"] # NoVote
          BY <1>2, <2>4, <3>1, <3>2, <3>3, <4>1
        <4> QED
          BY <1>1, <2>1, <2>2, <2>3, <3>5, <4>1, <4>2
             DEF Following, Within, Running
      <3> QED
        BY <3>2, <3>3, <3>4, <3>6 DEF Counted
    <2>8. CASE alive /\ m.type = "detach"
      <3>1. Vote("ctl", NoVote)
        BY <2>1, <2>8 DEF Handle, Detach
      <3>2. /\ votes' \in [{"ctl", "other"} -> Places]
            /\ votes'["ctl"] = NoVote /\ Sized'
        BY <1>1, <1>2, <3>1, VoteIs
      <3>3. Voting'
        BY <1>1, <2>1, <2>2, <2>3, <3>2 DEF Voting, Notified, Running
      <3>4. Following'
        BY <1>1, <2>1, <2>2, <2>8 DEF Following, Running
      <3> QED
        BY <3>2, <3>3, <3>4 DEF Counted
    <2>9. CASE ~alive \/ m.type = "write_pane"
      <3>1. UNCHANGED <<votes, size>>
        BY <2>1, <2>9 DEF Handle
      <3>2. Voting'
        BY <1>1, <2>1, <2>2, <2>3, <3>1 DEF Voting, Notified, Running
      <3>3. Sized'
        BY <1>1, <2>1, <3>1 DEF Sized
      <3>4. CASE ~alive
        BY <2>1, <3>2, <3>3, <3>4 DEF Counted, Following
      <3>5. CASE m.type = "write_pane"
        <4>1. WillCount(tty) => WillCount(tty)'
          BY <1>1, <2>1, <2>2, <3>1, <3>5 DEF WillCount, Asks
        <4>2. Following'
          BY <1>1, <2>1, <2>2, <2>3, <3>1, <3>5, <4>1
             DEF Following, Within, Running
        <4> QED
          BY <3>2, <3>3, <4>2 DEF Counted
      <3> QED
        BY <2>9, <3>4, <3>5
    <2>10. m.type \in {"attach", "resize", "detach", "write_pane"}
      BY <2>2 DEF Messages
    <2> QED
      BY <2>6, <2>7, <2>8, <2>9, <2>10
  <1>4. CASE HangUp
    <2>1. /\ UNCHANGED <<up, gone, alive>> /\ ~Running
          /\ Vote("ctl", NoVote)
      BY <1>4 DEF HangUp, Detach, netVars
    <2>2. /\ votes' \in [{"ctl", "other"} -> Places]
          /\ votes'["ctl"] = NoVote /\ Sized'
      BY <1>1, <1>2, <2>1, VoteIs
    <2>3. Voting'
      BY <1>1, <2>1, <2>2 DEF Voting, Notified, Running
    <2>4. Following'
      BY <1>1, <2>1 DEF Following, Running
    <2> QED
      BY <2>2, <2>3, <2>4 DEF Counted
  <1>5. CASE OtherVotes \/ OutsiderResizes
    <2>1. UNCHANGED <<up, gone, alive>>
      BY <1>5 DEF OtherVotes, OutsiderResizes, netVars
    <2>2. \/ \E s \in Places : Vote("other", s)
          \/ \E c \in {"other", "outsider"}, s \in Places : ResizeFrom(c, s)
      BY <1>2, <1>5 DEF OtherVotes, OutsiderResizes, Detach
    <2>3. \/ \E s \in Places : Vote("other", s)
          \/ votes' = votes /\ Sized'
      <3>1. ASSUME NEW c \in {"other", "outsider"}, NEW s \in Places,
                   ResizeFrom(c, s)
            PROVE  Vote("other", s) \/ (votes' = votes /\ Sized')
        <4>1. \/ c \in {"ctl", "other"} /\ votes[c] # NoVote /\ Vote(c, s)
              \/ votes' = votes /\ Sized'
          BY <1>1, <3>1, ResizeIs
        <4>2. c \in {"ctl", "other"} => c = "other"
          OBVIOUS
        <4> QED
          BY <4>1, <4>2
      <3> QED
        BY <2>2, <3>1
    <2>4. /\ votes' \in [{"ctl", "other"} -> Places]
          /\ votes'["ctl"] = votes["ctl"] /\ Sized'
      <3>1. ASSUME NEW s \in Places, Vote("other", s)
            PROVE  /\ votes' \in [{"ctl", "other"} -> Places]
                   /\ votes'["ctl"] = votes["ctl"] /\ Sized'
        BY <1>1, <3>1, VoteIs
      <3> QED
        BY <1>1, <2>3, <3>1
    <2>5. Voting'
      BY <1>1, <2>1, <2>4 DEF Voting, Notified, Running
    <2>6. Following'
      BY <1>1, <2>1, <2>4 DEF Following, Within, Running, WillCount
    <2> QED
      BY <2>4, <2>5, <2>6 DEF Counted
  <1>6. CASE SessionEnds
    <2>1. /\ UNCHANGED <<up, gone>> /\ ~alive'
          /\ votes' = [c \in DOMAIN votes |-> NoVote]
      BY <1>6 DEF SessionEnds
    <2>2. /\ votes' \in [{"ctl", "other"} -> Places]
          /\ votes'["ctl"] = NoVote
      BY <1>1, <1>2, <2>1
    <2>3. Voting'
      BY <1>1, <2>1, <2>2 DEF Voting, Notified, Running
    <2> QED
      BY <2>1, <2>3 DEF Counted, Sized, Following
  <1>7. CASE Gone
    <2>1. UNCHANGED <<up, alive, votes, size>> /\ gone'
      BY <1>7 DEF Gone, sessVars
    <2> QED
      BY <1>1, <2>1, CountedKept
  <1> QED
    BY <1>3, <1>4, <1>5, <1>6, <1>7 DEF Daemon

\* Parsing and dispatching.
LEMMA CountedDispatch ==
    ASSUME Counted, Dispatch PROVE Counted'
  <1>1. /\ UNCHANGED <<tty, missed, pc, asked, sigwinch, winch, up, gone, alive,
                       votes, size>>
        /\ request = Unparsed /\ request' = RunCtl(line)
        /\ mode' = IF line.cmd # "attach" \/ request' = Failed THEN "none"
                   ELSE IF line.sub[1] = <<"read-only">> THEN "readonly"
                   ELSE "interactive"
    BY DEF Dispatch, ttyVars, cmdVars, sigVars, netVars, sessVars
  <1>2. Voting /\ Sized /\ mode = "none" /\ pc = "config"
    BY <1>1 DEF Counted, Voting
  <1>3. /\ up = <<>> /\ votes["ctl"] = NoVote /\ asked = NoSize
        /\ ~sigwinch /\ ~winch
    BY <1>2 DEF Voting
  <1>4. line.cmd = "attach" => RunCtl(line) # Unparsed
    <2>1. ASSUME line.cmd = "attach"
          PROVE  \/ RunCtl(line) = Failed
                 \/ \E x, y, z : RunCtl(line) = [ns |-> x, all |-> y, rest |-> z]
      BY <2>1 DEF RunCtl, Scope
    <2>2. /\ Failed # Unparsed
          /\ \A x, y, z : [ns |-> x, all |-> y, rest |-> z] # Unparsed
      BY DEF Failed, Unparsed
    <2> QED
      BY <2>1, <2>2
  <1>5. Voting'
    <2>1. \A S : Args(up', S)
      BY <1>1, <1>3, NothingAsked
    <2>2. request' = Unparsed => mode' = "none"
      BY <1>1, <1>4
    <2> QED
      BY <1>1, <1>2, <1>3, <2>1, <2>2 DEF Voting, Within, Notified, Running
  <1>6. Sized'
    BY <1>1, <1>2 DEF Sized
  <1>7. Stays(up')
    BY <1>1, <1>3, NothingAsked
  <1>8. Following'
    BY <1>1, <1>2, <1>7 DEF Following, Within
  <1> QED
    BY <1>5, <1>6, <1>8 DEF Counted

\* A zero is no vote.
LEMMA NoSizeVotes ==
    ASSUME NEW v \in [{"ctl", "other"} -> Places], NEW s \in Places,
           v["ctl"] \in {NoVote, NoSize}, NEW i \in 1..2
    PROVE  Votes([v EXCEPT !.ctl = NoVote], i) = Votes(v, i)
  <1> DEFINE w == [v EXCEPT !.ctl = NoVote]
  <1>1. /\ DOMAIN w = {"ctl", "other"} /\ DOMAIN v = {"ctl", "other"}
        /\ w["ctl"] = NoVote /\ w["other"] = v["other"]
    OBVIOUS
  <1>2. NoSize[i] = 0
    BY DEF NoSize
  <1> HIDE DEF w
  <1>3. \A n : n \in Votes(w, i) <=> n \in Votes(v, i)
    BY <1>1, <1>2 DEF Votes
  <1>4. Votes(w, i) = Votes(v, i)
    BY <1>3
  <1> QED
    BY <1>4 DEF w

\* Nothing is under way that bears on the command's vote.
Settled ==
    /\ Quiet(up)
    /\ IF Running THEN ~sigwinch /\ ~winch ELSE votes["ctl"] = NoVote

\* What SizeFollows says of the end, of every state in which nothing is under
\* way: the size is that of the smallest window that looks at the session.
SizeExact ==
    /\ alive /\ ~gone /\ ~missed /\ Settled
    /\ pc \in {"loop", "ended", "died"}
    /\ 0 \notin {Wanted[1], Wanted[2]}
    => size = Wanted

\* However changes of the window, votes of the other client, the end of the
\* command and the requests on the connection follow each other, none is lost:
\* once nothing is under way the session has the size of the smallest window.
THEOREM SizeCorrect == Spec => []SizeExact
  <1>1. Counted => SizeExact
    <2> SUFFICES ASSUME Counted, alive, ~gone, ~missed, Settled,
                        pc \in {"loop", "ended", "died"},
                        0 \notin {Wanted[1], Wanted[2]}
                 PROVE  size = Wanted
      BY DEF SizeExact
    <2>1. Voting /\ Sized /\ Following
          /\ votes \in [{"ctl", "other"} -> Places]
      BY DEF Counted, Voting
    <2>2. /\ Votes(Windows, 1) = Votes(votes, 1)
          /\ Votes(Windows, 2) = Votes(votes, 2)
      <3>1. CASE pc = "loop" /\ mode = "interactive"
        <4>1. WillCount(tty) /\ Quiet(up)
          BY <2>1, <3>1 DEF Following, Running, Settled
        <4>2. votes["ctl"] = tty
          BY <4>1 DEF WillCount, Quiet, Asking, Asks, Bears
        <4>3. Windows = votes
          BY <2>1, <3>1, <4>2 DEF Windows
        <4> QED
          BY <4>3
      <3>2. CASE ~(pc = "loop" /\ mode = "interactive")
        <4>1. votes["ctl"] \in {NoVote, NoSize}
          BY <2>1, <3>2 DEF Voting, Settled, Running
        <4>2. Windows = [votes EXCEPT !.ctl = NoVote]
          BY <3>2 DEF Windows
        <4>3. 1 \in 1..2 /\ 2 \in 1..2
          OBVIOUS
        <4> QED
          BY <2>1, <4>1, <4>2, <4>3, NoSizeVotes
      <3> QED
        BY <3>1, <3>2
    <2>3. Wanted = <<Least(Votes(votes, 1)), Least(Votes(votes, 2))>>
      BY <2>2 DEF Wanted
    <2> QED
      BY <2>1, <2>3 DEF Sized
  <1>2. Init => Counted
    <2> SUFFICES ASSUME Init PROVE Counted
      OBVIOUS
    <2>1. Begin("none") /\ request = Unparsed
      BY DEF Init
    <2>2. /\ mode = "none" /\ pc = "config" /\ asked = NoSize /\ up = <<>>
          /\ ~sigwinch /\ ~winch
          /\ votes = [ctl |-> NoVote, other |-> NoVote]
      BY <2>1 DEF Begin
    <2>3. tty \in Sizes
      BY <2>1, StartsAssumption DEF Begin
    <2>4. /\ votes \in [{"ctl", "other"} -> Places]
          /\ votes["ctl"] = NoVote /\ votes["other"] = NoVote
      BY <2>2, Marks
    <2>5. Voting
      BY <2>1, <2>2, <2>3, <2>4, NothingAsked
         DEF Voting, Within, Notified, Running
    <2>6. Sized
      <3>1. Votes(votes, 1) = {}
        BY <2>4 DEF Votes
      <3> QED
        BY <3>1 DEF Sized, Least
    <2>7. Following
      BY <2>2 DEF Following
    <2> QED
      BY <2>5, <2>6, <2>7 DEF Counted
  <1>3. Typed /\ Counted /\ [Next]_vars => Counted'
    <2> SUFFICES ASSUME Typed, Counted, [Next]_vars PROVE Counted'
      OBVIOUS
    <2>1. CASE Dispatch
      BY <2>1, CountedDispatch
    <2>2. CASE mode # "none" /\ AttachNext /\ UNCHANGED <<line, request>>
      BY <2>2, CountedMain, CountedOutside, CountedDaemon DEF AttachNext
    <2>3. CASE UNCHANGED vars
      BY <2>3, CountedKept
         DEF vars, attachVars, ttyVars, cmdVars, sigVars, netVars, sessVars
    <2> QED
      BY <2>1, <2>2, <2>3 DEF Next
  <1> QED
    BY <1>1, <1>2, <1>3, InitInv, TypedStep, PTL DEF Spec

-----------------------------------------------------------------------------
(* The flags of a command line *)

\* A word is a tuple of one of the kinds.
LEMMA WordIs ==
    ASSUME NEW w \in Word
    PROVE  /\ w[1] = "ns" => w[2] \in STRING
           /\ w[1] = "env" => w[2] \in STRING /\ w[3] \in STRING
           /\ w[1] = "file" => w[2] \in Seq(EnvLine)
           /\ w[1] = "all" <=> w = <<"all">>
           /\ w[1] = "bad" <=> w = <<"bad">>
           /\ w[1] = "clean" <=> w = <<"clean">>
           /\ w \in NsWord <=> w[1] \in {"ns", "all"}
           /\ w[1] \in {"ns", "all", "copy", "clean", "other", "bad", "env",
                        "file", "word"}
  BY DEF Word, NsWord

\* A word of a line is a word.
LEMMA WordOf ==
    ASSUME NEW S, NEW words \in Seq(S)
    PROVE  Len(words) \in Nat /\ \A i \in 1 .. Len(words) : words[i] \in S
  BY ElementOfSeq

\* What is known when the namespace flags of some words have been taken.
NsTaken == [ns : STRING \cup {""}, all : BOOLEAN, failed : BOOLEAN,
            rest : Seq(Word)]

\* x is the name that the last -n of the first n words gives, if there is one.
NsAfter(words, n, x) ==
    \/ x = "" /\ \A i \in 1..n : words[i][1] # "ns"
    \/ \E i \in 1..n : /\ words[i][1] = "ns" /\ words[i][2] = x
                       /\ \A j \in (i + 1)..n : words[j][1] # "ns"

\* o is what the first n words say.
NsRead(words, leadingOnly, n, o) ==
    /\ o \in NsTaken
    /\ leadingOnly => o.rest = <<>>
    /\ o.failed <=> \E i \in 1..n : words[i] = <<"bad">>
    /\ ~o.failed => /\ NsAfter(words, n, o.ns)
                    /\ o.all <=> \E i \in 1..n : words[i] = <<"all">>

\* The name of the last -n, where the definition chooses it.
LEMMA LastNsIs ==
    ASSUME NEW words \in Seq(Word), NEW x, NsAfter(words, Len(words), x)
    PROVE  LastNs(words) = x
  <1> DEFINE L == Len(words)
             F == NsFlags(words)
  <1>1. L \in Nat /\ \A i : i \in F <=> i \in 1..L /\ words[i][1] = "ns"
    BY WordOf DEF NsFlags
  <1>2. CASE F = {}
    <2>1. LastNs(words) = ""
      BY <1>2 DEF LastNs
    <2> HIDE DEF F, L
    <2> QED
      BY <1>1, <1>2, <2>1 DEF NsAfter, L
  <1>3. ASSUME NEW k \in F PROVE LastNs(words) = x
    <2> DEFINE last == CHOOSE i \in F : \A j \in F : j <= i
    <2>1. LastNs(words) = words[last][2]
      BY <1>3 DEF LastNs
    <2> HIDE DEF F, L
    <2>2. PICK i \in 1..L : /\ words[i][1] = "ns" /\ words[i][2] = x
                            /\ \A j \in (i + 1)..L : words[j][1] # "ns"
      BY <1>1, <1>3 DEF NsAfter, L
    <2>3. i \in F /\ \A j \in F : j <= i
      BY <1>1, <2>2
    <2>4. last \in F /\ \A j \in F : j <= last
      BY <2>3
    <2> HIDE DEF last
    <2>5. last = i
      BY <1>1, <2>3, <2>4
    <2> QED
      BY <2>1, <2>2, <2>5
  <1> QED
    BY <1>2, <1>3

\* Taking one more flag.
LEMMA TakeNsFlagType ==
    ASSUME NEW o \in NsTaken, NEW w \in Word, NEW leadingOnly \in BOOLEAN
    PROVE  TakeNsFlag(o, w, leadingOnly) \in NsTaken
  <1>1. Append(o.rest, w) \in Seq(Word)
    BY AppendProperties DEF NsTaken
  <1>2. w[1] = "ns" => w[2] \in STRING
    BY WordIs
  <1> QED
    BY <1>1, <1>2 DEF TakeNsFlag, NsTaken

LEMMA NsReadStep ==
    ASSUME NEW words \in Seq(Word), NEW leadingOnly \in BOOLEAN,
           leadingOnly => words \in Seq(NsWord),
           NEW n \in 1 .. Len(words), NEW o,
           NsRead(words, leadingOnly, n - 1, o)
    PROVE  NsRead(words, leadingOnly, n, TakeNsFlag(o, words[n], leadingOnly))
  <1> DEFINE w == words[n]
             r == TakeNsFlag(o, w, leadingOnly)
  <1>1. /\ w \in Word /\ (leadingOnly => w \in NsWord)
        /\ n \in Nat /\ n >= 1
    BY WordOf
  <1>2. \A i \in 1..n : i \in 1 .. n - 1 \/ i = n
    BY <1>1
  <1>3. \A i \in 1 .. n - 1 : i \in 1..n
    BY <1>1
  <1>4. o \in NsTaken /\ r \in NsTaken
    BY <1>1, TakeNsFlagType DEF NsRead
  <1>5. n \in 1..n /\ \A j : j \notin (n + 1)..n
    BY <1>1
  <1>6. /\ w[1] = "all" <=> w = <<"all">>
        /\ w[1] = "bad" <=> w = <<"bad">>
        /\ leadingOnly => w[1] \in {"ns", "all"}
    BY <1>1, WordIs
  <1>7. CASE o.failed
    <2>1. r = o
      BY <1>7 DEF TakeNsFlag
    <2> QED
      BY <1>2, <1>3, <1>4, <1>7, <2>1 DEF NsRead
  <1>8. CASE ~o.failed /\ w[1] = "bad"
    <2>1. r.failed /\ ~leadingOnly
      BY <1>4, <1>6, <1>8 DEF TakeNsFlag, NsTaken
    <2> QED
      BY <1>4, <1>5, <1>6, <1>8, <2>1 DEF NsRead
  <1>9. CASE ~o.failed /\ w[1] # "bad"
    <2>1. /\ ~r.failed
          /\ r.ns = IF w[1] = "ns" THEN w[2] ELSE o.ns
          /\ r.all <=> w[1] = "all" \/ o.all
          /\ leadingOnly => r.rest = <<>>
      <3>1. leadingOnly => o.rest = <<>>
        BY DEF NsRead
      <3> QED
        BY <1>4, <1>6, <1>9, <3>1 DEF TakeNsFlag, NsTaken
    <2>2. ~\E i \in 1..n : words[i] = <<"bad">>
      BY <1>2, <1>6, <1>9 DEF NsRead
    <2>3. r.all <=> \E i \in 1..n : words[i] = <<"all">>
      <3>1. o.all <=> \E i \in 1 .. n - 1 : words[i] = <<"all">>
        BY <1>9 DEF NsRead
      <3> HIDE DEF r
      <3> QED
        BY <1>2, <1>3, <1>5, <1>6, <2>1, <3>1
    <2>4. NsAfter(words, n - 1, o.ns)
      BY <1>9 DEF NsRead
    <2> HIDE DEF r
    <2>5. w[1] = "ns" => NsAfter(words, n, r.ns)
      BY <1>5, <2>1 DEF NsAfter
    <2>6. w[1] # "ns" => NsAfter(words, n, r.ns)
      <3>1. \A i \in 1 .. n - 1 : \A j \in (i + 1)..n :
               j = n \/ j \in (i + 1)..(n - 1)
        BY <1>1
      <3> QED
        BY <1>2, <1>3, <2>1, <2>4, <3>1 DEF NsAfter
    <2>7. NsRead(words, leadingOnly, n, r)
      BY <1>4, <2>1, <2>2, <2>3, <2>5, <2>6 DEF NsRead
    <2> QED
      BY <2>7 DEF r
  <1> QED
    BY <1>7, <1>8, <1>9

\* Taking the flags from the first word on.
LEMMA ExtractReads ==
    ASSUME NEW words \in Seq(Word), NEW leadingOnly \in BOOLEAN,
           leadingOnly => words \in Seq(NsWord)
    PROVE  NsRead(words, leadingOnly, Len(words),
                  ExtractNSFlags(words, leadingOnly))
  <1> DEFINE L == Len(words)
             I == 0..L
             D == NsTaken
             step(o, n) == TakeNsFlag(o, words[n], leadingOnly)
             G == [a \in D \X (1..L) |-> step(a[1], a[2])]
             body(f) == [i \in 0 .. Len(words) |->
                            IF i = 0 THEN NoFlags
                            ELSE TakeNsFlag(f[i - 1], words[i], leadingOnly)]
             all == CHOOSE f : f = body(f)
  <1>1. ExtractNSFlags(words, leadingOnly) = all[Len(words)]
    BY DEF ExtractNSFlags
  <1>2. L \in Nat /\ \A n \in 1..L : words[n] \in Word
    BY WordOf
  <1>3. NoFlags \in D
    <2>1. <<>> \in Seq(Word)
      BY EmptySeq
    <2> QED
      BY <2>1 DEF NoFlags, NsTaken
  <1>4. \A o \in D, n \in 1..L : step(o, n) \in D
    BY <1>2, TakeNsFlagType
  <1>5. G \in [D \X (1..L) -> D]
    BY <1>4
  <1> HIDE DEF D
  <1>6. PICK g \in [I -> D] : Goes(g, L, NoFlags, G)
    <2> HIDE DEF G, L
    <2> QED
      BY <1>2, <1>3, <1>5, LeftRecursion DEF I
  <1>7. g[0] = NoFlags /\ \A n \in 1..L : g[n] = step(g[n - 1], n)
    <2>1. g[0] = NoFlags /\ \A n \in 1..L : g[n] = G[<<g[n - 1], n>>]
      BY <1>6 DEF Goes
    <2>2. ASSUME NEW n \in 1..L PROVE g[n] = step(g[n - 1], n)
      <3>1. n - 1 \in I
        BY <1>2
      <3>2. g[n - 1] \in D
        BY <3>1
      <3> HIDE DEF step
      <3> QED
        BY <2>1, <3>2
    <2> QED
      BY <2>1, <2>2
  <1>8. all = body(all)
    <2>1. \A n \in I : g[n] = body(g)[n]
      <3>1. \A n \in I : n = 0 \/ n \in 1..L
        BY <1>2
      <3> QED
        BY <1>7, <3>1
    <2>2. g = [n \in I |-> g[n]] /\ body(g) = [n \in I |-> body(g)[n]]
      OBVIOUS
    <2>3. g = body(g)
      BY <2>1, <2>2
    <2> HIDE DEF body
    <2> QED
      BY <2>3
  <1> HIDE DEF all
  <1>9. all[0] = NoFlags /\ \A n \in 1..L : all[n] = step(all[n - 1], n)
    <2>1. 0 \in I /\ \A n \in 1..L : n \in I /\ n # 0
      BY <1>2
    <2> QED
      BY <1>8, <2>1
  <1> DEFINE T == {n \in I : NsRead(words, leadingOnly, n, all[n])}
  <1>10. 0 \in T
    <2>1. NsAfter(words, 0, "")
      BY DEF NsAfter
    <2>2. 0 \in I /\ NoFlags.rest = <<>> /\ ~NoFlags.failed /\ ~NoFlags.all
          /\ NoFlags.ns = ""
      BY <1>2 DEF NoFlags
    <2>3. \A i : i \notin 1..0
      OBVIOUS
    <2>4. NoFlags \in NsTaken
      BY <1>3 DEF D
    <2>5. NsRead(words, leadingOnly, 0, NoFlags)
      BY <2>1, <2>2, <2>3, <2>4 DEF NsRead
    <2> QED
      BY <1>9, <2>2, <2>5
  <1>11. ASSUME NEW k \in 0 .. L - 1, k \in T PROVE k + 1 \in T
    <2>1. k + 1 \in 1..L /\ k + 1 \in I /\ (k + 1) - 1 = k
      BY <1>2
    <2> DEFINE j == k + 1
    <2>2. j \in 1..L /\ j \in I /\ j - 1 = k
      BY <2>1
    <2> HIDE DEF j
    <2>3. all[j] = step(all[k], j) /\ NsRead(words, leadingOnly, k, all[k])
      BY <1>9, <1>11, <2>2
    <2>4. NsRead(words, leadingOnly, j, all[j])
      BY <2>2, <2>3, NsReadStep
    <2> QED
      BY <2>2, <2>4 DEF j
  <1>12. \A n \in I : n \in T
    <2> HIDE DEF T
    <2> QED
      BY <1>2, <1>10, <1>11, UpTo
  <1> QED
    BY <1>1, <1>2, <1>12

-----------------------------------------------------------------------------
(* The environment that the flags of `new' make *)

\* The environments.
Envs == UNION {[S -> STRING] : S \in SUBSET STRING}

\* An environment gives variables their values.
LEMMA EnvIs ==
    ASSUME NEW env \in Envs
    PROVE  DOMAIN env \subseteq STRING /\ env \in [DOMAIN env -> STRING]
  <1>1. PICK S \in SUBSET STRING : env \in [S -> STRING]
    BY DEF Envs
  <1> QED
    BY <1>1

\* A function from variables to values is one.
LEMMA EnvOf ==
    ASSUME NEW S \in SUBSET STRING, NEW env \in [S -> STRING]
    PROVE  env \in Envs
  BY DEF Envs

\* The empty one is the only one without a variable.
LEMMA NoneIs ==
    /\ None \in Envs /\ DOMAIN None = {}
    /\ \A env \in Envs : env = None <=> DOMAIN env = {}
  <1>1. DOMAIN None = {}
    BY DEF None
  <1>2. None \in [{} -> STRING]
    BY DEF None
  <1>3. None \in Envs
    BY <1>2, EnvOf
  <1>4. ASSUME NEW env \in Envs, DOMAIN env = {} PROVE env = None
    <2>1. env \in [{} -> STRING]
      BY <1>4, EnvIs
    <2> QED
      BY <1>2, <2>1
  <1> QED
    BY <1>1, <1>3, <1>4

\* One variable.
LEMMA SingleIs ==
    ASSUME NEW k \in STRING, NEW v \in STRING
    PROVE  /\ Single(k, v) \in Envs
           /\ DOMAIN Single(k, v) = {k} /\ Single(k, v)[k] = v
  <1>1. Single(k, v) \in [{k} -> STRING]
    BY DEF Single
  <1> QED
    BY <1>1, EnvOf DEF Single

\* What is merged in goes before what was there.
LEMMA MergeIs ==
    ASSUME NEW env \in Envs, NEW more \in Envs
    PROVE  /\ Merge(env, more) \in Envs
           /\ DOMAIN Merge(env, more) = DOMAIN env \cup DOMAIN more
           /\ \A k \in DOMAIN more : Merge(env, more)[k] = more[k]
           /\ \A k \in DOMAIN env \ DOMAIN more : Merge(env, more)[k] = env[k]
  <1> DEFINE S == DOMAIN env \cup DOMAIN more
  <1>1. /\ DOMAIN env \subseteq STRING /\ env \in [DOMAIN env -> STRING]
        /\ DOMAIN more \subseteq STRING /\ more \in [DOMAIN more -> STRING]
    BY EnvIs
  <1>2. S \in SUBSET STRING
    BY <1>1
  <1>3. Merge(env, more) \in [S -> STRING]
    BY <1>1 DEF Merge
  <1> QED
    BY <1>2, <1>3, EnvOf DEF Merge

\* The environment of this process.
LEMMA EnvironIs == Environ \in Envs
  BY EnvironAssumption, EnvOf

\* Numbers up to L have a last one.
LEMMA LastNumber ==
    ASSUME NEW L \in Nat, NEW T \in SUBSET (1..L), T # {}
    PROVE  \E x \in T : \A y \in T : y <= x
  <1> DEFINE U == {L - x : x \in T}
  <1>1. \A x \in T : L - x \in Nat /\ L - x \in U
    OBVIOUS
  <1>2. \A u \in U : \E x \in T : u = L - x
    OBVIOUS
  <1> HIDE DEF U
  <1>3. U \in SUBSET Nat /\ U # {}
    BY <1>1, <1>2
  <1>4. PICK u \in U : \A v \in U : u <= v
    BY <1>3, LeastNumber
  <1>5. PICK x \in T : u = L - x
    BY <1>2
  <1>6. \A y \in T : y <= x
    <2>1. \A y \in T : u <= L - y /\ x \in Nat /\ y \in Nat
      BY <1>1, <1>4
    <2> QED
      BY <1>5, <2>1
  <1> QED
    BY <1>6

\* Line i of the first n is the last for variable k.
LastLine(lines, n, i, k) ==
    /\ i \in 1..n /\ lines[i][1] = k
    /\ \A j \in (i + 1)..n : lines[j][1] # k

\* There is one for every variable of a line.
LEMMA LastLineIs ==
    ASSUME NEW lines, NEW n \in Nat, NEW h \in 1..n
    PROVE  \E i : LastLine(lines, n, i, lines[h][1])
  <1> DEFINE T == {i \in 1..n : lines[i][1] = lines[h][1]}
  <1>1. T \in SUBSET (1..n) /\ h \in T
    OBVIOUS
  <1>2. \A i \in 1..n : i \in T <=> lines[i][1] = lines[h][1]
    OBVIOUS
  <1> HIDE DEF T
  <1>3. PICK i \in T : \A j \in T : j <= i
    BY <1>1, LastNumber
  <1>4. i \in 1..n /\ \A j \in (i + 1)..n : j \in 1..n /\ j > i
    BY <1>1
  <1>5. LastLine(lines, n, i, lines[h][1])
    BY <1>2, <1>3, <1>4 DEF LastLine
  <1> QED
    BY <1>5

\* What is known when some flags of `new' have been taken.
Options == [env : Envs, touched : BOOLEAN, base : BOOLEAN, failed : BOOLEAN,
            command : Seq(Word)]

\* p is what o has become after the first n lines of a file.
FileRead(lines, n, o, p) ==
    /\ p \in Options
    /\ p.touched /\ p.base = o.base /\ p.command = o.command
    /\ p.failed <=> \E i \in 1..n : lines[i] = <<>>
    /\ ~p.failed =>
          /\ \A k : k \in DOMAIN p.env <=>
                        \/ k \in DOMAIN o.env
                        \/ \E i \in 1..n : lines[i][1] = k
          /\ \A i, k : LastLine(lines, n, i, k) => p.env[k] = lines[i][2]
          /\ \A k \in DOMAIN o.env :
                (\A i \in 1..n : lines[i][1] # k) => p.env[k] = o.env[k]

\* A line that is not empty is a variable and its value.
LEMMA LineIs ==
    ASSUME NEW l \in EnvLine, l # <<>>
    PROVE  l[1] \in STRING /\ l[2] \in STRING
  BY DEF EnvLine

\* One more line is no more than that.
LEMMA TakeLineType ==
    ASSUME NEW p \in Options, NEW l \in EnvLine
    PROVE  /\ TakeLine(p, l) \in Options
           /\ p.failed => TakeLine(p, l) = p
           /\ ~p.failed /\ l = <<>> =>
                 TakeLine(p, l) = [p EXCEPT !.failed = TRUE]
           /\ ~p.failed /\ l # <<>> =>
                 /\ Single(l[1], l[2]) \in Envs
                 /\ TakeLine(p, l) =
                       [p EXCEPT !.env = Merge(p.env, Single(l[1], l[2]))]
  <1>1. CASE p.failed
    BY <1>1 DEF TakeLine
  <1>2. CASE ~p.failed /\ l = <<>>
    <2>1. TakeLine(p, l) = [p EXCEPT !.failed = TRUE]
      BY <1>2 DEF TakeLine
    <2>2. [p EXCEPT !.failed = TRUE] \in Options
      BY DEF Options
    <2> QED
      BY <1>2, <2>1, <2>2
  <1>3. CASE ~p.failed /\ l # <<>>
    <2> DEFINE env == Merge(p.env, Single(l[1], l[2]))
    <2>1. p.env \in Envs /\ Single(l[1], l[2]) \in Envs
      <3>1. l[1] \in STRING /\ l[2] \in STRING
        BY <1>3, LineIs
      <3> QED
        BY <3>1, SingleIs DEF Options
    <2>2. env \in Envs
      BY <2>1, MergeIs
    <2>3. TakeLine(p, l) = [p EXCEPT !.env = env]
      BY <1>3 DEF TakeLine
    <2> HIDE DEF env
    <2>4. [p EXCEPT !.env = env] \in Options
      BY <2>2 DEF Options
    <2> QED
      BY <1>3, <2>1, <2>3, <2>4 DEF env
  <1> QED
    BY <1>1, <1>2, <1>3

\* Reading one more line.
LEMMA FileReadStep ==
    ASSUME NEW lines \in Seq(EnvLine), NEW o \in Options,
           NEW n \in 1 .. Len(lines), NEW p, FileRead(lines, n - 1, o, p)
    PROVE  FileRead(lines, n, o, TakeLine(p, lines[n]))
  <1> DEFINE l == lines[n]
             q == TakeLine(p, l)
  <1>1. l \in EnvLine /\ n \in Nat /\ n >= 1
    BY WordOf
  <1>2. p \in Options /\ q \in Options
    BY <1>1, TakeLineType DEF FileRead
  <1>3. /\ n \in 1..n /\ \A j : j \notin (n + 1)..n
        /\ \A i \in 1..n : i \in 1 .. n - 1 \/ i = n
        /\ \A i \in 1 .. n - 1 : i \in 1..n
    BY <1>1
  <1>4. CASE p.failed
    <2>1. q = p
      BY <1>1, <1>2, <1>4, TakeLineType
    <2> QED
      BY <1>3, <1>4, <2>1 DEF FileRead
  <1>5. CASE ~p.failed /\ l = <<>>
    <2>1. q = [p EXCEPT !.failed = TRUE]
      BY <1>1, <1>2, <1>5, TakeLineType
    <2>2. q.touched /\ q.base = o.base /\ q.command = o.command /\ q.failed
      BY <1>2, <2>1 DEF FileRead, Options
    <2> HIDE DEF q
    <2> QED
      BY <1>2, <1>3, <1>5, <2>2 DEF FileRead, q
  <1>6. CASE ~p.failed /\ l # <<>>
    <2> DEFINE s == Single(l[1], l[2])
    <2>1. s \in Envs /\ q = [p EXCEPT !.env = Merge(p.env, s)]
      BY <1>1, <1>2, <1>6, TakeLineType
    <2>2. /\ q.touched /\ q.base = o.base /\ q.command = o.command
          /\ ~q.failed /\ q.env = Merge(p.env, s)
      BY <1>2, <1>6, <2>1 DEF FileRead, Options
    <2>3. DOMAIN s = {l[1]} /\ s[l[1]] = l[2]
      BY <1>1, <1>6, LineIs, SingleIs
    <2>4. /\ DOMAIN q.env = DOMAIN p.env \cup {l[1]}
          /\ q.env[l[1]] = l[2]
          /\ \A k \in DOMAIN p.env : k # l[1] => q.env[k] = p.env[k]
      <3>1. p.env \in Envs
        BY <1>2 DEF Options
      <3> HIDE DEF q, s
      <3> DEFINE e == Merge(p.env, s)
      <3>2. /\ DOMAIN e = DOMAIN p.env \cup DOMAIN s
            /\ \A k \in DOMAIN s : e[k] = s[k]
            /\ \A k \in DOMAIN p.env \ DOMAIN s : e[k] = p.env[k]
        BY <2>1, <3>1, MergeIs
      <3>3. q.env = e
        BY <2>2
      <3> HIDE DEF e
      <3> QED
        BY <2>3, <3>2, <3>3
    <2> HIDE DEF q, s
    <2>5. ~\E i \in 1..n : lines[i] = <<>>
      BY <1>3, <1>6 DEF FileRead
    <2>6. \A k : k \in DOMAIN q.env <=> \/ k \in DOMAIN o.env
                                        \/ \E i \in 1..n : lines[i][1] = k
      <3>1. \A k : k \in DOMAIN p.env <=>
                      \/ k \in DOMAIN o.env
                      \/ \E i \in 1 .. n - 1 : lines[i][1] = k
        BY <1>6 DEF FileRead
      <3> QED
        BY <1>3, <2>4, <3>1
    <2>7. ASSUME NEW i, NEW k, LastLine(lines, n, i, k)
          PROVE  q.env[k] = lines[i][2]
      <3>1. CASE i = n
        BY <2>4, <2>7, <3>1 DEF LastLine
      <3>2. CASE i # n
        <4>1. i \in 1 .. n - 1 /\ n \in (i + 1)..n
          BY <1>1, <2>7, <3>2 DEF LastLine
        <4>2. \A j \in (i + 1)..(n - 1) : j \in (i + 1)..n
          BY <1>1, <4>1
        <4>3. LastLine(lines, n - 1, i, k) /\ k # l[1]
          BY <2>7, <4>1, <4>2 DEF LastLine
        <4>4. k \in DOMAIN p.env /\ p.env[k] = lines[i][2]
          BY <1>6, <4>1, <4>3 DEF FileRead, LastLine
        <4> QED
          BY <2>4, <4>3, <4>4
      <3> QED
        BY <3>1, <3>2
    <2>8. \A k \in DOMAIN o.env :
             (\A i \in 1..n : lines[i][1] # k) => q.env[k] = o.env[k]
      <3> SUFFICES ASSUME NEW k \in DOMAIN o.env,
                          \A i \in 1..n : lines[i][1] # k
                   PROVE  q.env[k] = o.env[k]
        OBVIOUS
      <3>1. k \in DOMAIN p.env /\ p.env[k] = o.env[k]
        BY <1>3, <1>6 DEF FileRead
      <3> QED
        BY <1>3, <2>4, <3>1
    <2>9. FileRead(lines, n, o, q)
      BY <1>2, <2>2, <2>5, <2>6, <2>7, <2>8 DEF FileRead
    <2> QED
      BY <2>9 DEF q
  <1> QED
    BY <1>4, <1>5, <1>6

\* Reading the lines from the first on.
LEMMA FileReads ==
    ASSUME NEW lines \in Seq(EnvLine), NEW o \in Options, ~o.failed
    PROVE  FileRead(lines, Len(lines), o, ReadEnvFile(lines, o))
  <1> DEFINE L == Len(lines)
             I == 0..L
             D == Options
             start == [o EXCEPT !.touched = TRUE]
             step(p, n) == TakeLine(p, lines[n])
             G == [a \in D \X (1..L) |-> step(a[1], a[2])]
             body(f) == [i \in 0 .. Len(lines) |->
                            IF i = 0 THEN [o EXCEPT !.touched = TRUE]
                            ELSE TakeLine(f[i - 1], lines[i])]
             all == CHOOSE f : f = body(f)
  <1>1. ReadEnvFile(lines, o) = all[Len(lines)]
    BY DEF ReadEnvFile
  <1>2. L \in Nat /\ \A n \in 1..L : lines[n] \in EnvLine
    BY WordOf
  <1>3. start \in D
    BY DEF Options
  <1>4. \A p \in D, n \in 1..L : step(p, n) \in D
    BY <1>2, TakeLineType
  <1>5. G \in [D \X (1..L) -> D]
    BY <1>4
  <1> HIDE DEF D
  <1>6. PICK g \in [I -> D] : Goes(g, L, start, G)
    <2> HIDE DEF G, L, start
    <2> QED
      BY <1>2, <1>3, <1>5, LeftRecursion DEF I
  <1>7. g[0] = start /\ \A n \in 1..L : g[n] = step(g[n - 1], n)
    <2>1. g[0] = start /\ \A n \in 1..L : g[n] = G[<<g[n - 1], n>>]
      BY <1>6 DEF Goes
    <2>2. ASSUME NEW n \in 1..L PROVE g[n] = step(g[n - 1], n)
      <3>1. n - 1 \in I
        BY <1>2
      <3>2. g[n - 1] \in D
        BY <3>1
      <3> HIDE DEF step, start
      <3> QED
        BY <2>1, <3>2
    <2> QED
      BY <2>1, <2>2
  <1>8. all = body(all)
    <2>1. \A n \in I : g[n] = body(g)[n]
      <3>1. \A n \in I : n = 0 \/ n \in 1..L
        BY <1>2
      <3> QED
        BY <1>7, <3>1
    <2>2. g = [n \in I |-> g[n]] /\ body(g) = [n \in I |-> body(g)[n]]
      OBVIOUS
    <2>3. g = body(g)
      BY <2>1, <2>2
    <2> HIDE DEF body
    <2> QED
      BY <2>3
  <1> HIDE DEF all
  <1>9. all[0] = start /\ \A n \in 1..L : all[n] = step(all[n - 1], n)
    <2>1. 0 \in I /\ \A n \in 1..L : n \in I /\ n # 0
      BY <1>2
    <2> QED
      BY <1>8, <2>1
  <1> DEFINE T == {n \in I : FileRead(lines, n, o, all[n])}
  <1>10. 0 \in T
    <2>1. 0 \in I /\ \A i : i \notin 1..0
      BY <1>2
    <2>2. start \in Options /\ start.touched /\ start.base = o.base
          /\ start.command = o.command /\ ~start.failed /\ start.env = o.env
      BY DEF Options
    <2> HIDE DEF start
    <2>3. FileRead(lines, 0, o, start)
      BY <2>1, <2>2 DEF FileRead, LastLine
    <2> QED
      BY <1>9, <2>1, <2>3
  <1>11. ASSUME NEW k \in 0 .. L - 1, k \in T PROVE k + 1 \in T
    <2> DEFINE j == k + 1
    <2>1. j \in 1..L /\ j \in I /\ j - 1 = k
      BY <1>2
    <2> HIDE DEF j
    <2>2. all[j] = step(all[k], j) /\ FileRead(lines, k, o, all[k])
      BY <1>9, <1>11, <2>1
    <2>3. FileRead(lines, j, o, all[j])
      BY <2>1, <2>2, FileReadStep
    <2> QED
      BY <2>1, <2>3 DEF j
  <1>12. \A n \in I : n \in T
    <2> HIDE DEF T
    <2> QED
      BY <1>2, <1>10, <1>11, UpTo
  <1> QED
    BY <1>1, <1>2, <1>12

\* What a file sets is what was read from it.
LEMMA FileSets ==
    ASSUME NEW lines \in Seq(EnvLine), NEW w, w[1] = "file", w[2] = lines,
           \A i \in 1 .. Len(lines) : lines[i] # <<>>
    PROVE  /\ SetBy(w) \in Envs
           /\ \A k : k \in DOMAIN SetBy(w) <=>
                        \E i \in 1 .. Len(lines) : lines[i][1] = k
           /\ \A k \in DOMAIN SetBy(w) :
                 \E i : /\ LastLine(lines, Len(lines), i, k)
                        /\ SetBy(w)[k] = lines[i][2]
  <1> DEFINE L == Len(lines)
             S == {lines[i][1] : i \in 1..L}
             last(k) == CHOOSE i \in 1..L :
                           /\ lines[i][1] = k
                           /\ \A j \in (i + 1)..L : lines[j][1] # k
  <1>1. /\ L \in Nat
        /\ \A i \in 1..L : lines[i][1] \in STRING /\ lines[i][2] \in STRING
    <2>1. L \in Nat /\ \A i \in 1..L : lines[i] \in EnvLine
      BY WordOf
    <2> QED
      BY <2>1, LineIs
  <1>2. SetBy(w) = [k \in S |-> lines[last(k)][2]]
    BY DEF SetBy
  <1>3. /\ S \in SUBSET STRING
        /\ \A k : k \in S <=> \E i \in 1..L : lines[i][1] = k
    BY <1>1
  <1> HIDE DEF L, S
  <1>4. ASSUME NEW k \in S PROVE LastLine(lines, L, last(k), k)
    <2>1. PICK h \in 1..L : lines[h][1] = k
      BY <1>3
    <2>2. \E i : LastLine(lines, L, i, k)
      BY <1>1, <2>1, LastLineIs
    <2>3. \E i \in 1..L : /\ lines[i][1] = k
                          /\ \A j \in (i + 1)..L : lines[j][1] # k
      BY <2>2 DEF LastLine
    <2>4. last(k) \in 1..L /\ lines[last(k)][1] = k
          /\ \A j \in (last(k) + 1)..L : lines[j][1] # k
      BY <2>3
    <2> HIDE DEF last
    <2> QED
      BY <2>4 DEF LastLine
  <1> HIDE DEF last
  <1>5. \A k \in S : lines[last(k)][2] \in STRING
    BY <1>1, <1>4 DEF LastLine
  <1>6. SetBy(w) \in [S -> STRING]
    BY <1>2, <1>5
  <1>7. SetBy(w) \in Envs
    BY <1>3, <1>6, EnvOf
  <1>8. DOMAIN SetBy(w) = S /\ \A k \in S : SetBy(w)[k] = lines[last(k)][2]
    BY <1>2
  <1> QED
    BY <1>3, <1>4, <1>7, <1>8 DEF L

\* A file is read into the environment, all of it or nothing.
LEMMA FileIs ==
    ASSUME NEW w \in Word, w[1] = "file", NEW o \in Options, ~o.failed
    PROVE  LET p == ReadEnvFile(w[2], o) IN
           /\ p \in Options
           /\ p.touched /\ p.base = o.base /\ p.command = o.command
           /\ p.failed <=> Wrong(w)
           /\ ~Wrong(w) => /\ SetBy(w) \in Envs
                           /\ p.env = Merge(o.env, SetBy(w))
  <1> DEFINE lines == w[2]
             p == ReadEnvFile(lines, o)
  <1>1. lines \in Seq(EnvLine)
    BY WordIs
  <1>2. FileRead(lines, Len(lines), o, p)
    BY <1>1, FileReads
  <1>3. Wrong(w) <=> \E i \in 1 .. Len(lines) : lines[i] = <<>>
    BY DEF Wrong
  <1> HIDE DEF p
  <1>4. ASSUME ~Wrong(w)
        PROVE  SetBy(w) \in Envs /\ p.env = Merge(o.env, SetBy(w))
    <2> DEFINE s == SetBy(w)
               e == Merge(o.env, s)
               L == Len(lines)
    <2>1. /\ s \in Envs
          /\ \A k : k \in DOMAIN s <=> \E i \in 1..L : lines[i][1] = k
          /\ \A k \in DOMAIN s : \E i : /\ LastLine(lines, L, i, k)
                                        /\ s[k] = lines[i][2]
      BY <1>1, <1>3, <1>4, FileSets
    <2> HIDE DEF s
    <2>2. o.env \in Envs /\ p.env \in Envs
      BY <1>2 DEF FileRead, Options
    <2>3. /\ e \in Envs /\ DOMAIN e = DOMAIN o.env \cup DOMAIN s
          /\ \A k \in DOMAIN s : e[k] = s[k]
          /\ \A k \in DOMAIN o.env \ DOMAIN s : e[k] = o.env[k]
      BY <2>1, <2>2, MergeIs
    <2> HIDE DEF e
    <2>4. /\ \A k : k \in DOMAIN p.env <=> \/ k \in DOMAIN o.env
                                           \/ \E i \in 1..L : lines[i][1] = k
          /\ \A i, k : LastLine(lines, L, i, k) => p.env[k] = lines[i][2]
          /\ \A k \in DOMAIN o.env :
                (\A i \in 1..L : lines[i][1] # k) => p.env[k] = o.env[k]
      BY <1>2, <1>3, <1>4 DEF FileRead
    <2>5. DOMAIN p.env = DOMAIN e
      BY <2>1, <2>3, <2>4
    <2>6. ASSUME NEW k \in DOMAIN e PROVE p.env[k] = e[k]
      <3>1. CASE k \in DOMAIN s
        BY <2>1, <2>3, <2>4, <3>1
      <3>2. CASE k \notin DOMAIN s
        BY <2>1, <2>3, <2>4, <2>6, <3>2
      <3> QED
        BY <3>1, <3>2
    <2>7. p.env = e
      <3>1. p.env \in [DOMAIN e -> STRING] /\ e \in [DOMAIN e -> STRING]
        BY <2>2, <2>3, <2>5, EnvIs
      <3> QED
        BY <2>6, <3>1
    <2> QED
      BY <2>1, <2>7 DEF s, e
  <1> QED
    BY <1>2, <1>3, <1>4 DEF FileRead, p

\* What a flag other than a file, and other than a wrong one, sets.
LEMMA FlagSets ==
    ASSUME NEW w \in Word, w[1] # "file"
    PROVE  /\ SetBy(w) \in Envs
           /\ w[1] = "copy" => SetBy(w) = Environ
           /\ w[1] = "env" => SetBy(w) = Single(w[2], w[3])
           /\ w[1] \notin {"copy", "env"} => SetBy(w) = None
           /\ Wrong(w) <=> w[1] = "bad"
  <1>1. w[1] = "env" => Single(w[2], w[3]) \in Envs
    BY WordIs, SingleIs
  <1>2. SetBy(w) = IF w[1] = "copy" THEN Environ
                   ELSE IF w[1] = "env" THEN Single(w[2], w[3]) ELSE None
    BY DEF SetBy
  <1>3. Wrong(w) <=> w[1] = "bad"
    BY DEF Wrong
  <1> QED
    BY <1>1, <1>2, <1>3, EnvironIs, NoneIs

\* The words at which the flags of `new' end.
Ends == {"word", "ns", "all"}

\* Taking a flag.
LEMMA TakeFlagIs ==
    ASSUME NEW o \in Options, ~o.failed, o.command = <<>>,
           NEW w \in Word, w[1] \notin Ends
    PROVE  LET p == TakeFlag(o, w) IN
           /\ p \in Options /\ p.command = <<>>
           /\ p.failed <=> Wrong(w)
           /\ ~Wrong(w) =>
                 /\ p.touched <=>
                       o.touched \/ w[1] \in {"copy", "clean", "env", "file"}
                 /\ p.base <=> o.base \/ w[1] \in {"copy", "clean"}
                 /\ SetBy(w) \in Envs
                 /\ p.env = IF w[1] = "clean" THEN None
                            ELSE Merge(o.env, SetBy(w))
  <1> DEFINE p == TakeFlag(o, w)
  <1>1. /\ o.env \in Envs /\ None \in Envs /\ Environ \in Envs
        /\ Merge(o.env, Environ) \in Envs
    BY NoneIs, EnvironIs, MergeIs DEF Options
  <1>2. CASE w[1] = "file"
    <2>1. p = ReadEnvFile(w[2], o)
      BY <1>2 DEF TakeFlag
    <2> HIDE DEF p
    <2>2. /\ p \in Options
          /\ p.touched /\ p.base = o.base /\ p.command = o.command
          /\ p.failed <=> Wrong(w)
          /\ ~Wrong(w) => /\ SetBy(w) \in Envs
                          /\ p.env = Merge(o.env, SetBy(w))
      BY <1>2, <2>1, FileIs
    <2> QED
      BY <1>2, <2>2 DEF p
  <1>3. ASSUME w[1] # "file"
        PROVE  /\ SetBy(w) \in Envs
               /\ w[1] = "copy" => SetBy(w) = Environ
               /\ w[1] = "env" => SetBy(w) = Single(w[2], w[3])
               /\ w[1] \notin {"copy", "env"} => SetBy(w) = None
               /\ Wrong(w) <=> w[1] = "bad"
    BY <1>3, FlagSets
  <1>4. CASE w[1] = "copy"
    <2> DEFINE e == Merge(o.env, Environ)
    <2>1. p = [o EXCEPT !.env = e, !.touched = TRUE, !.base = TRUE]
      BY <1>4 DEF TakeFlag
    <2>2. SetBy(w) = Environ /\ ~Wrong(w) /\ e \in Envs
      BY <1>1, <1>3, <1>4
    <2>3. SetBy(w) = Environ => e = Merge(o.env, SetBy(w))
      OBVIOUS
    <2> HIDE DEF e
    <2> QED
      BY <1>1, <1>4, <2>1, <2>2, <2>3 DEF Options
  <1>5. CASE w[1] = "clean"
    <2>1. p = [o EXCEPT !.env = None, !.touched = TRUE, !.base = TRUE]
      BY <1>5 DEF TakeFlag, CleanEnv
    <2>2. SetBy(w) \in Envs /\ ~Wrong(w)
      BY <1>3, <1>5
    <2> QED
      BY <1>1, <1>5, <2>1, <2>2 DEF Options
  <1>6. CASE w[1] = "env"
    <2> DEFINE s == Single(w[2], w[3])
               e == Merge(o.env, s)
    <2>1. p = [o EXCEPT !.env = e, !.touched = TRUE]
      BY <1>6 DEF TakeFlag
    <2>2. SetBy(w) = s /\ SetBy(w) \in Envs /\ ~Wrong(w)
      BY <1>3, <1>6
    <2>3. e = Merge(o.env, SetBy(w))
      BY <2>2
    <2>4. e \in Envs
      BY <1>1, <2>2, <2>3, MergeIs
    <2> HIDE DEF e
    <2> QED
      BY <1>1, <1>6, <2>1, <2>2, <2>3, <2>4 DEF Options
  <1>7. CASE w[1] = "bad"
    <2>1. p = [o EXCEPT !.failed = TRUE]
      BY <1>7 DEF TakeFlag
    <2>2. Wrong(w)
      BY <1>3, <1>7
    <2> QED
      BY <2>1, <2>2 DEF Options
  <1>8. CASE w[1] = "other"
    <2>1. p = o
      BY <1>8 DEF TakeFlag
    <2>2. ~Wrong(w) /\ SetBy(w) = None /\ None \in Envs
      BY <1>1, <1>3, <1>8
    <2>3. Merge(o.env, None) = o.env
      <3> DEFINE e == Merge(o.env, None)
      <3>1. /\ e \in Envs /\ DOMAIN e = DOMAIN o.env
            /\ \A k \in DOMAIN o.env : e[k] = o.env[k]
        <4>1. o.env \in Envs /\ None \in Envs /\ DOMAIN None = {}
          BY <1>1, NoneIs
        <4>2. /\ e \in Envs /\ DOMAIN e = DOMAIN o.env \cup DOMAIN None
              /\ \A k \in DOMAIN o.env \ DOMAIN None : e[k] = o.env[k]
          BY <4>1, MergeIs
        <4> HIDE DEF e
        <4> QED
          BY <4>1, <4>2
      <3> HIDE DEF e
      <3>2. e \in [DOMAIN e -> STRING] /\ o.env \in [DOMAIN o.env -> STRING]
        BY <1>1, <3>1, EnvIs
      <3>3. e = o.env
        BY <3>1, <3>2
      <3> QED
        BY <3>3 DEF e
    <2> QED
      BY <1>8, <2>1, <2>2, <2>3
  <1>9. w[1] \in {"file", "copy", "clean", "env", "bad", "other"}
    BY WordIs DEF Ends
  <1> QED
    BY <1>2, <1>4, <1>5, <1>6, <1>7, <1>8, <1>9

\* Of the first n words, word i is the last that has to do with variable k, and
\* sets it.
Sets(words, n, i, k) ==
    /\ i \in 1..n /\ k \in DOMAIN SetBy(words[i])
    /\ \A j \in (i + 1)..n :
          words[j][1] # "clean" /\ k \notin DOMAIN SetBy(words[j])

\* o is what the first n words say, all of them flags.
FlagsRead(words, n, o) ==
    /\ o \in Options
    /\ o.failed <=> \E i \in 1..n : Wrong(words[i])
    /\ ~o.failed =>
          /\ o.touched <=> \E i \in 1..n :
                              words[i][1] \in {"copy", "clean", "env", "file"}
          /\ o.base <=> \E i \in 1..n : words[i][1] \in {"copy", "clean"}
          /\ \A i \in 1..n : SetBy(words[i]) \in Envs
          /\ \A k : k \in DOMAIN o.env <=> \E i : Sets(words, n, i, k)
          /\ \A i, k : Sets(words, n, i, k) => o.env[k] = SetBy(words[i])[k]

\* One more flag.
LEMMA FlagsReadStep ==
    ASSUME NEW words \in Seq(Word), NEW n \in 1 .. Len(words),
           words[n][1] \notin Ends, NEW o, FlagsRead(words, n - 1, o),
           ~o.failed => o.command = <<>>
    PROVE  LET p == TakeFlag(o, words[n]) IN
           FlagsRead(words, n, p) /\ (~p.failed => p.command = <<>>)
  <1> DEFINE w == words[n]
             p == TakeFlag(o, w)
             s == SetBy(w)
  <1>1. w \in Word /\ n \in Nat /\ n >= 1 /\ o \in Options
    BY WordOf DEF FlagsRead
  <1>2. /\ n \in 1..n /\ \A j : j \notin (n + 1)..n
        /\ \A i \in 1..n : i \in 1 .. n - 1 \/ i = n
        /\ \A i \in 1 .. n - 1 : i \in 1..n
    BY <1>1
  <1>3. CASE o.failed
    <2>1. p = o
      <3>1. p = [o EXCEPT !.command = o.command]
        BY <1>3 DEF TakeFlag
      <3> QED
        BY <1>1, <3>1 DEF Options
    <2> QED
      BY <1>2, <1>3, <2>1 DEF FlagsRead
  <1>4. CASE ~o.failed
    <2>1. /\ p \in Options /\ p.command = <<>>
          /\ p.failed <=> Wrong(w)
          /\ ~Wrong(w) =>
                /\ p.touched <=>
                      o.touched \/ w[1] \in {"copy", "clean", "env", "file"}
                /\ p.base <=> o.base \/ w[1] \in {"copy", "clean"}
                /\ s \in Envs
                /\ p.env = IF w[1] = "clean" THEN None ELSE Merge(o.env, s)
      BY <1>1, <1>4, TakeFlagIs
    <2> HIDE DEF p
    <2>2. p.failed <=> \E i \in 1..n : Wrong(words[i])
      BY <1>2, <1>4, <2>1 DEF FlagsRead
    <2>3. CASE Wrong(w)
      BY <1>2, <2>1, <2>2, <2>3 DEF FlagsRead, p
    <2>4. CASE ~Wrong(w)
      <3>1. /\ o.touched <=> \E i \in 1 .. n - 1 :
                   words[i][1] \in {"copy", "clean", "env", "file"}
            /\ o.base <=> \E i \in 1 .. n - 1 :
                             words[i][1] \in {"copy", "clean"}
            /\ \A i \in 1 .. n - 1 : SetBy(words[i]) \in Envs
            /\ \A k : k \in DOMAIN o.env <=> \E i : Sets(words, n - 1, i, k)
            /\ \A i, k : Sets(words, n - 1, i, k) =>
                            o.env[k] = SetBy(words[i])[k]
        BY <1>4 DEF FlagsRead
      <3>2. /\ p.touched <=> \E i \in 1..n :
                   words[i][1] \in {"copy", "clean", "env", "file"}
            /\ p.base <=> \E i \in 1..n : words[i][1] \in {"copy", "clean"}
        BY <1>2, <2>1, <2>4, <3>1
      <3>3. \A i \in 1..n : SetBy(words[i]) \in Envs
        BY <1>2, <2>1, <2>4, <3>1
      <3>4. \A i, k : Sets(words, n, i, k) <=>
                         \/ i = n /\ k \in DOMAIN s
                         \/ /\ Sets(words, n - 1, i, k)
                            /\ w[1] # "clean" /\ k \notin DOMAIN s
        <4> SUFFICES ASSUME NEW i, NEW k
                     PROVE  Sets(words, n, i, k) <=>
                               \/ i = n /\ k \in DOMAIN s
                               \/ /\ Sets(words, n - 1, i, k)
                                  /\ w[1] # "clean" /\ k \notin DOMAIN s
          OBVIOUS
        <4>1. CASE i = n
          <5>1. i \notin 1 .. n - 1
            BY <1>1, <4>1
          <5> QED
            BY <1>2, <4>1, <5>1 DEF Sets
        <4>2. CASE i \in 1 .. n - 1
          <5>1. /\ i # n /\ i \in 1..n
                /\ \A j : j \in (i + 1)..n <=> j \in (i + 1)..(n - 1) \/ j = n
            BY <1>1, <4>2
          <5> QED
            BY <4>2, <5>1 DEF Sets
        <4>3. CASE i \notin 1..n
          <5>1. i # n /\ i \notin 1 .. n - 1
            BY <1>2, <4>3
          <5> QED
            BY <4>3, <5>1 DEF Sets
        <4> QED
          BY <1>2, <4>1, <4>2, <4>3
      <3> DEFINE e == p.env
      <3>5. CASE w[1] = "clean"
        <4>1. e = None /\ DOMAIN None = {} /\ DOMAIN s = {}
          <5>1. w[1] # "file" /\ w[1] \notin {"copy", "env"}
            BY <3>5
          <5>2. s = None
            BY <1>1, <5>1, FlagSets
          <5> QED
            BY <2>1, <2>4, <3>5, <5>2, NoneIs
        <4> HIDE DEF e, s
        <4>2. \A i, k : ~Sets(words, n, i, k)
          BY <3>4, <3>5, <4>1
        <4>3. /\ \A k : k \in DOMAIN e <=> \E i : Sets(words, n, i, k)
              /\ \A i, k : Sets(words, n, i, k) => e[k] = SetBy(words[i])[k]
          BY <4>1, <4>2
        <4>4. FlagsRead(words, n, p)
          BY <2>1, <2>2, <3>2, <3>3, <4>3 DEF FlagsRead, e
        <4> QED
          BY <2>1, <4>4 DEF p
      <3>6. CASE w[1] # "clean"
        <4>1. o.env \in Envs /\ s \in Envs
          BY <1>1, <2>1, <2>4 DEF Options
        <4>2. e = Merge(o.env, s)
          BY <2>1, <2>4, <3>6
        <4> HIDE DEF e, s
        <4>3. /\ DOMAIN e = DOMAIN o.env \cup DOMAIN s
              /\ \A k \in DOMAIN s : e[k] = s[k]
              /\ \A k \in DOMAIN o.env \ DOMAIN s : e[k] = o.env[k]
          BY <4>1, <4>2, MergeIs
        <4>4. \A k : k \in DOMAIN e <=> \E i : Sets(words, n, i, k)
          BY <3>1, <3>4, <3>6, <4>3
        <4>5. \A i, k : Sets(words, n, i, k) => e[k] = SetBy(words[i])[k]
          <5> SUFFICES ASSUME NEW i, NEW k, Sets(words, n, i, k)
                       PROVE  e[k] = SetBy(words[i])[k]
            OBVIOUS
          <5>1. CASE i = n /\ k \in DOMAIN s
            BY <4>3, <5>1 DEF s
          <5>2. CASE Sets(words, n - 1, i, k) /\ k \notin DOMAIN s
            BY <3>1, <4>3, <5>2
          <5> QED
            BY <3>4, <5>1, <5>2
        <4>6. FlagsRead(words, n, p)
          BY <2>1, <2>2, <3>2, <3>3, <4>4, <4>5 DEF FlagsRead, e
        <4> QED
          BY <2>1, <4>6 DEF p
      <3> QED
        BY <3>5, <3>6
    <2> QED
      BY <2>3, <2>4
  <1> QED
    BY <1>3, <1>4

\* The first e words are the flags.
FlagsEnd(words, e) ==
    /\ e \in 0 .. Len(words)
    /\ \A i \in 1..e : words[i][1] \notin Ends
    /\ e < Len(words) => words[e + 1][1] \in Ends

\* They are where the definition looks for them.
LEMMA FlagsAre ==
    ASSUME NEW words \in Seq(Word)
    PROVE  \E e : /\ FlagsEnd(words, e) /\ Len(Flags(words)) = e
                  /\ \A i \in 1..e : Flags(words)[i] = words[i]
  <1> DEFINE L == Len(words)
             T == {i \in 1 .. Len(words) :
                      words[i][1] \in {"word", "ns", "all"}}
             least == CHOOSE i \in T : \A j \in T : i <= j
  <1>1. L \in Nat /\ \A i \in 1..L : words[i] \in Word
    BY WordOf
  <1>2. T \in SUBSET (1..L)
        /\ \A i \in 1..L : i \in T <=> words[i][1] \in Ends
    BY DEF Ends
  <1>3. /\ T = {} => Flags(words) = words
        /\ T # {} => Flags(words) = SubSeq(words, 1, least - 1)
    BY DEF Flags
  <1> HIDE DEF T, L
  <1>4. CASE T = {}
    <2>1. FlagsEnd(words, L)
      BY <1>1, <1>2, <1>4 DEF FlagsEnd, L
    <2> QED
      BY <1>3, <1>4, <2>1 DEF L
  <1>5. CASE T # {}
    <2>1. T \in SUBSET Nat
      BY <1>1, <1>2
    <2>2. least \in T /\ \A j \in T : least <= j
      <3>1. \E i \in T : \A j \in T : i <= j
        BY <1>5, <2>1, LeastNumber
      <3> QED
        BY <3>1
    <2> HIDE DEF least
    <2> DEFINE e == least - 1
    <2>3. e \in Nat /\ least = e + 1 /\ e + 1 \in 1..L
      BY <1>1, <1>2, <2>2
    <2> HIDE DEF e
    <2>4. \A i \in 1..e : i \in 1..L /\ i < least
      BY <1>1, <2>3
    <2>5. FlagsEnd(words, e)
      <3>1. \A i \in 1..e : words[i][1] \notin Ends
        <4>1. \A i \in 1..e : i \notin T
          BY <1>1, <2>1, <2>2, <2>4
        <4> QED
          BY <1>2, <2>4, <4>1
      <3>2. words[e + 1][1] \in Ends
        BY <1>2, <2>2, <2>3
      <3>3. e \in 0..L
        BY <1>1, <2>3
      <3> QED
        BY <3>1, <3>2, <3>3 DEF FlagsEnd, L
    <2>6. Flags(words) = SubSeq(words, 1, e)
      BY <1>3, <1>5 DEF e
    <2>7. Len(SubSeq(words, 1, e)) = e
          /\ \A i \in 1..e : SubSeq(words, 1, e)[i] = words[i]
      <3>1. \A i \in 1..e : words[i] \in Word
        BY <1>1, <2>4
      <3>2. /\ Len(SubSeq(words, 1, e)) = IF 1 <= e THEN e - 1 + 1 ELSE 0
            /\ \A i \in 1 .. e - 1 + 1 :
                  SubSeq(words, 1, e)[i] = words[1 + i - 1]
        BY <2>3, <3>1, SubSeqProperties
      <3>3. e - 1 + 1 = e /\ \A i \in 1..e : 1 + i - 1 = i
        BY <2>3
      <3>4. (IF 1 <= e THEN e - 1 + 1 ELSE 0) = e
        BY <2>3
      <3> QED
        BY <3>2, <3>3, <3>4
    <2> QED
      BY <2>5, <2>6, <2>7
  <1> QED
    BY <1>4, <1>5

\* o is what the first n words say, of which those after the first e are the
\* command.
ArgsRead(words, e, n, o) ==
    /\ FlagsRead(words, IF n <= e THEN n ELSE e, o)
    /\ ~o.failed => o.command = SubSeq(words, e + 1, n)

\* The words after the flags, and one more.
LEMMA CommandIs ==
    ASSUME NEW words \in Seq(Word), NEW e \in 0 .. Len(words),
           NEW n \in 0 .. Len(words)
    PROVE  /\ SubSeq(words, e + 1, n) \in Seq(Word)
           /\ SubSeq(words, e + 1, n) = <<>> <=> n <= e
           /\ n >= 1 /\ n > e =>
                 SubSeq(words, e + 1, n) =
                    Append(SubSeq(words, e + 1, n - 1), words[n])
  <1> DEFINE c(m) == SubSeq(words, e + 1, m)
  <1>1. /\ Len(words) \in Nat /\ e \in Nat /\ n \in Nat
        /\ \A i \in 1 .. Len(words) : words[i] \in Word
    BY WordOf
  <1>2. ASSUME NEW m \in 0 .. Len(words)
        PROVE  /\ c(m) \in Seq(Word)
               /\ m > e => Len(c(m)) # 0
               /\ m <= e => c(m) = <<>>
    <2>1. m \in Int /\ e + 1 \in Int /\ \A i \in (e + 1)..m : words[i] \in Word
      BY <1>1
    <2>2. /\ c(m) \in Seq(Word)
          /\ Len(c(m)) = IF e + 1 <= m THEN m - (e + 1) + 1 ELSE 0
      BY <2>1, SubSeqProperties
    <2>3. m <= e => c(m) = <<>>
      <3>1. m <= e => m < e + 1
        BY <1>1
      <3> QED
        BY <2>1, <3>1, SubSeqEmpty
    <2>4. m > e => e + 1 <= m /\ m - (e + 1) + 1 # 0
      BY <1>1, <2>1
    <2> HIDE DEF c
    <2> QED
      BY <2>2, <2>3, <2>4
  <1>3. c(n) = <<>> <=> n <= e
    <2> HIDE DEF c
    <2> QED
      BY <1>1, <1>2, EmptySeq
  <1>4. ASSUME n >= 1, n > e PROVE c(n) = Append(c(n - 1), words[n])
    <2>1. /\ e + 1 \in 1 .. Len(words) /\ n \in (e + 1) .. Len(words)
          /\ n - 1 \in 0 .. Len(words)
      BY <1>1, <1>4
    <2>2. c(n) = c(n - 1) \o <<words[n]>>
      BY <2>1, SubSeqRecursiveSecond
    <2>3. c(n - 1) \in Seq(Word) /\ words[n] \in Word
      BY <1>1, <1>2, <1>4, <2>1
    <2> HIDE DEF c
    <2>4. Append(c(n - 1), words[n]) = c(n - 1) \o <<words[n]>>
      BY <2>3, AppendIsConcat
    <2> QED
      BY <2>2, <2>4
  <1> QED
    BY <1>2, <1>3, <1>4

\* Whatever is taken.
LEMMA TakeFlagType ==
    ASSUME NEW o \in Options, NEW w \in Word
    PROVE  /\ TakeFlag(o, w) \in Options
           /\ o.failed => TakeFlag(o, w) = o
           /\ ~o.failed /\ (o.command # <<>> \/ w[1] \in Ends) =>
                 TakeFlag(o, w) = [o EXCEPT !.command = Append(o.command, w)]
  <1> DEFINE p == TakeFlag(o, w)
  <1>1. Append(o.command, w) \in Seq(Word)
    BY AppendProperties DEF Options
  <1>2. ASSUME NEW c \in Seq(Word) PROVE [o EXCEPT !.command = c] \in Options
    BY <1>2 DEF Options
  <1>3. CASE o.failed
    <2>1. p = [o EXCEPT !.command = o.command]
      BY <1>3 DEF TakeFlag
    <2>2. p = o
      BY <2>1 DEF Options
    <2> QED
      BY <1>3, <2>2
  <1>4. CASE ~o.failed /\ (o.command # <<>> \/ w[1] \in Ends)
    <2>1. p = [o EXCEPT !.command = Append(o.command, w)]
      <3>1. CASE o.command # <<>>
        BY <1>4, <3>1 DEF TakeFlag
      <3>2. CASE o.command = <<>> /\ w[1] \in Ends
        <4>1. p = [o EXCEPT !.command = <<w>>]
          BY <1>4, <3>2 DEF TakeFlag, Ends
        <4>2. Append(<<>>, w) = <<w>>
          OBVIOUS
        <4> QED
          BY <3>2, <4>1, <4>2
      <3> QED
        BY <1>4, <3>1, <3>2
    <2> HIDE DEF p
    <2> QED
      BY <1>1, <1>2, <1>4, <2>1 DEF p
  <1>5. CASE ~o.failed /\ o.command = <<>> /\ w[1] \notin Ends
    BY <1>5, TakeFlagIs
  <1> QED
    BY <1>3, <1>4, <1>5

\* One more word, whatever it is.
LEMMA ArgsReadStep ==
    ASSUME NEW words \in Seq(Word), NEW e, FlagsEnd(words, e),
           NEW n \in 1 .. Len(words), NEW o, ArgsRead(words, e, n - 1, o)
    PROVE  ArgsRead(words, e, n, TakeFlag(o, words[n]))
  <1> DEFINE L == Len(words)
             w == words[n]
             p == TakeFlag(o, w)
             c(m) == SubSeq(words, e + 1, m)
  <1>1. /\ L \in Nat /\ e \in 0..L /\ n \in Nat /\ n >= 1 /\ w \in Word
        /\ n - 1 \in 0..L /\ n \in 0..L /\ e \in Nat
    BY WordOf DEF FlagsEnd
  <1>2. o \in Options /\ (~o.failed => o.command = c(n - 1))
    BY DEF ArgsRead, FlagsRead
  <1>3. /\ c(n - 1) = <<>> <=> n - 1 <= e
        /\ c(n) = <<>> <=> n <= e
        /\ n > e => c(n) = Append(c(n - 1), w)
    BY <1>1, CommandIs
  <1> HIDE DEF c
  <1>4. CASE n <= e
    <2>1. n - 1 <= e
      BY <1>1, <1>4
    <2>2. FlagsRead(words, n - 1, o)
      BY <2>1 DEF ArgsRead
    <2>3. words[n][1] \notin Ends
      BY <1>1, <1>4 DEF FlagsEnd
    <2>4. ~o.failed => o.command = <<>>
      BY <1>2, <1>3, <2>1
    <2>5. FlagsRead(words, n, p) /\ (~p.failed => p.command = <<>>)
      BY <2>2, <2>3, <2>4, FlagsReadStep
    <2> HIDE DEF p
    <2>6. ArgsRead(words, e, n, p)
      BY <1>3, <1>4, <2>5 DEF ArgsRead, c
    <2> QED
      BY <2>6 DEF p
  <1>5. CASE n > e
    <2>1. FlagsRead(words, e, o)
      <3>1. n - 1 = e \/ ~(n - 1 <= e)
        BY <1>1, <1>5
      <3> QED
        BY <3>1 DEF ArgsRead
    <2>2. ~o.failed /\ o.command = <<>> => w[1] \in Ends
      <3>1. n - 1 <= e => n = e + 1 /\ e < L
        BY <1>1, <1>5
      <3> QED
        BY <1>2, <1>3, <3>1 DEF FlagsEnd
    <2>3. /\ p \in Options
          /\ o.failed => p = o
          /\ ~o.failed => p = [o EXCEPT !.command = Append(o.command, w)]
      BY <1>1, <1>2, <2>2, TakeFlagType
    <2> HIDE DEF p, w
    <2>4. CASE o.failed
      <3>1. ArgsRead(words, e, n, p)
        BY <1>1, <1>5, <2>1, <2>3, <2>4 DEF ArgsRead
      <3> QED
        BY <3>1 DEF p, w
    <2>5. CASE ~o.failed
      <3>1. /\ p.env = o.env /\ p.touched = o.touched /\ p.base = o.base
            /\ p.failed = o.failed /\ p.command = c(n)
        BY <1>2, <1>3, <1>5, <2>3, <2>5 DEF Options
      <3>2. FlagsRead(words, e, p)
        BY <2>1, <2>3, <3>1 DEF FlagsRead
      <3>3. ArgsRead(words, e, n, p)
        BY <1>1, <1>5, <3>1, <3>2 DEF ArgsRead, c
      <3> QED
        BY <3>3 DEF p, w
    <2> QED
      BY <2>4, <2>5
  <1> QED
    BY <1>1, <1>4, <1>5

\* What makes `new' refuse what it has read.
Refused(o) ==
    \/ o.failed
    \/ o.command = <<>>
    \/ o.touched /\ ~o.base
    \/ o.touched /\ o.env = None

\* What `new' reads, and what it makes of it.
LEMMA ArgsReads ==
    ASSUME NEW words \in Seq(Word), NEW e, FlagsEnd(words, e)
    PROVE  \E o : /\ ArgsRead(words, e, Len(words), o)
                  /\ ParseNewArgs(words) =
                        IF Refused(o) THEN Failed
                        ELSE [env |-> o.env, command |-> o.command]
  <1> DEFINE L == Len(words)
             I == 0..L
             D == Options
             step(o, n) == TakeFlag(o, words[n])
             G == [a \in D \X (1..L) |-> step(a[1], a[2])]
             body(f) == [i \in 0 .. Len(words) |->
                            IF i = 0 THEN NoOptions
                            ELSE TakeFlag(f[i - 1], words[i])]
             all == CHOOSE f : f = body(f)
  <1>1. ParseNewArgs(words) =
           IF Refused(all[Len(words)]) THEN Failed
           ELSE [env |-> all[Len(words)].env,
                 command |-> all[Len(words)].command]
    BY DEF ParseNewArgs, Refused
  <1>2. L \in Nat /\ \A n \in 1..L : words[n] \in Word
    BY WordOf
  <1>3. NoOptions \in D
    <2>1. <<>> \in Seq(Word) /\ None \in Envs
      BY EmptySeq, NoneIs
    <2> QED
      BY <2>1 DEF NoOptions, Options
  <1>4. \A o \in D, n \in 1..L : step(o, n) \in D
    BY <1>2, TakeFlagType
  <1>5. G \in [D \X (1..L) -> D]
    BY <1>4
  <1> HIDE DEF D
  <1>6. PICK g \in [I -> D] : Goes(g, L, NoOptions, G)
    <2> HIDE DEF G, L
    <2> QED
      BY <1>2, <1>3, <1>5, LeftRecursion DEF I
  <1>7. g[0] = NoOptions /\ \A n \in 1..L : g[n] = step(g[n - 1], n)
    <2>1. g[0] = NoOptions /\ \A n \in 1..L : g[n] = G[<<g[n - 1], n>>]
      BY <1>6 DEF Goes
    <2>2. ASSUME NEW n \in 1..L PROVE g[n] = step(g[n - 1], n)
      <3>1. n - 1 \in I
        BY <1>2
      <3>2. g[n - 1] \in D
        BY <3>1
      <3> HIDE DEF step
      <3> QED
        BY <2>1, <3>2
    <2> QED
      BY <2>1, <2>2
  <1>8. all = body(all)
    <2>1. \A n \in I : g[n] = body(g)[n]
      <3>1. \A n \in I : n = 0 \/ n \in 1..L
        BY <1>2
      <3> QED
        BY <1>7, <3>1
    <2>2. g = [n \in I |-> g[n]] /\ body(g) = [n \in I |-> body(g)[n]]
      OBVIOUS
    <2>3. g = body(g)
      BY <2>1, <2>2
    <2> HIDE DEF body
    <2> QED
      BY <2>3
  <1> HIDE DEF all
  <1>9. all[0] = NoOptions /\ \A n \in 1..L : all[n] = step(all[n - 1], n)
    <2>1. 0 \in I /\ \A n \in 1..L : n \in I /\ n # 0
      BY <1>2
    <2> QED
      BY <1>8, <2>1
  <1> DEFINE T == {n \in I : ArgsRead(words, e, n, all[n])}
  <1>10. 0 \in T
    <2>1. 0 \in I /\ (\A i : i \notin 1..0) /\ e \in Nat
      BY <1>2 DEF FlagsEnd
    <2>2. NoOptions \in Options
      BY <1>3 DEF D
    <2>3. /\ ~NoOptions.failed /\ ~NoOptions.touched /\ ~NoOptions.base
          /\ NoOptions.env = None /\ NoOptions.command = <<>>
      BY DEF NoOptions
    <2>4. FlagsRead(words, 0, NoOptions)
      <3>1. DOMAIN None = {}
        BY NoneIs
      <3> QED
        BY <2>1, <2>2, <2>3, <3>1 DEF FlagsRead, Sets
    <2>5. SubSeq(words, e + 1, 0) = <<>>
      <3>1. 0 \in 0 .. Len(words) /\ e \in 0 .. Len(words) /\ 0 <= e
        BY <1>2, <2>1 DEF FlagsEnd
      <3> QED
        BY <3>1, CommandIs
    <2>6. ArgsRead(words, e, 0, NoOptions)
      <3>1. 0 <= e
        BY <2>1
      <3> QED
        BY <2>3, <2>4, <2>5, <3>1 DEF ArgsRead
    <2> QED
      BY <1>9, <2>1, <2>6
  <1>11. ASSUME NEW k \in 0 .. L - 1, k \in T PROVE k + 1 \in T
    <2> DEFINE j == k + 1
    <2>1. j \in 1..L /\ j \in I /\ j - 1 = k
      BY <1>2
    <2> HIDE DEF j
    <2>2. all[j] = step(all[k], j) /\ ArgsRead(words, e, k, all[k])
      BY <1>9, <1>11, <2>1
    <2>3. ArgsRead(words, e, j, all[j])
      BY <2>1, <2>2, ArgsReadStep
    <2> QED
      BY <2>1, <2>3 DEF j
  <1>12. \A n \in I : n \in T
    <2> HIDE DEF T
    <2> QED
      BY <1>2, <1>10, <1>11, UpTo
  <1>13. ArgsRead(words, e, Len(words), all[Len(words)])
    BY <1>2, <1>12
  <1> QED
    BY <1>1, <1>13

\* That is what the line asks for.
LEMMA AnswerIsRequest ==
    ASSUME NEW words \in Seq(Word), NEW e, FlagsEnd(words, e),
           Len(Flags(words)) = e, \A i \in 1..e : Flags(words)[i] = words[i],
           NEW o, ArgsRead(words, e, Len(words), o),
           NEW answer, answer = Failed <=> Refused(o),
           ~Refused(o) => answer.env = o.env /\ answer.command = o.command
    PROVE  IsRequest(words, answer)
  <1> DEFINE flags == Flags(words)
             kinds == {flags[i][1] : i \in 1 .. Len(flags)}
             touched == kinds \cap {"copy", "clean", "env", "file"} # {}
             based == kinds \cap {"copy", "clean"} # {}
             wrong == \E i \in 1 .. Len(flags) : Wrong(flags[i])
             L == Len(words)
  <1>1. L \in Nat /\ e \in 0..L /\ e \in Nat
    BY WordOf DEF FlagsEnd
  <1>2. /\ FlagsRead(words, e, o)
        /\ ~o.failed => o.command = SubSeq(words, e + 1, L)
    <2>1. (IF L <= e THEN L ELSE e) = e
      BY <1>1
    <2> QED
      BY <2>1 DEF ArgsRead
  <1>3. /\ touched <=> \E i \in 1..e :
              words[i][1] \in {"copy", "clean", "env", "file"}
        /\ based <=> \E i \in 1..e : words[i][1] \in {"copy", "clean"}
        /\ wrong <=> \E i \in 1..e : Wrong(words[i])
    OBVIOUS
  <1>4. /\ o.failed <=> wrong
        /\ ~o.failed => (o.touched <=> touched) /\ (o.base <=> based)
    BY <1>2, <1>3 DEF FlagsRead
  <1>5. ~o.failed => (o.command = <<>> <=> Len(flags) = L)
    <2>1. L \in 0 .. Len(words)
      BY <1>1
    <2>2. SubSeq(words, e + 1, L) = <<>> <=> L <= e
      BY <1>1, <2>1, CommandIs
    <2> QED
      BY <1>1, <1>2, <2>2
  <1>6. \A i \in 1..e : flags[i][1] = "clean" <=> flags[i] = <<"clean">>
    <2>1. \A i \in 1..e : words[i] \in Word
      BY <1>1, WordOf
    <2> QED
      BY <2>1, WordIs
  <1>7. ASSUME NEW i, NEW k, NEW v
        PROVE  i \in 1..e /\ Defines(flags, i, k, v) <=>
                  Sets(words, e, i, k) /\ SetBy(words[i])[k] = v
    <2>1. i \in 1..e => \A j \in (i + 1)..e : j \in 1..e
      BY <1>1
    <2> HIDE DEF flags
    <2> QED
      BY <1>6, <2>1 DEF Defines, Sets, flags
  <1>8. ASSUME ~o.failed
        PROVE  /\ o.env \in Envs
               /\ \A k : k \in DOMAIN o.env <=> \E i : Sets(words, e, i, k)
               /\ \A i, k : Sets(words, e, i, k) =>
                               o.env[k] = SetBy(words[i])[k]
    BY <1>2, <1>8 DEF FlagsRead, Options
  <1> DEFINE defines(i, k) == Defines(flags, i, k, SetBy(flags[i])[k])
  <1>9. CASE answer = Failed
    <2>1. Refused(o)
      BY <1>9
    <2>2. \/ wrong
          \/ Len(flags) = Len(words)
          \/ touched /\ kinds \cap {"copy", "clean"} = {}
          \/ touched /\ \A i \in 1 .. Len(flags) :
                 \A k \in DOMAIN SetBy(flags[i]) : ~defines(i, k)
      <3>1. CASE o.failed \/ o.command = <<>> \/ (o.touched /\ ~o.base)
        <4> HIDE DEF wrong, touched, kinds, flags
        <4>1. ~based <=> kinds \cap {"copy", "clean"} = {}
          OBVIOUS
        <4> QED
          BY <1>4, <1>5, <3>1, <4>1
      <3>2. CASE ~o.failed /\ o.touched /\ o.env = None
        <4>1. \A i, k : ~Sets(words, e, i, k)
          BY <1>8, <3>2, NoneIs
        <4>2. \A i \in 1..e : \A k, v : ~Defines(flags, i, k, v)
          BY <1>7, <4>1
        <4>3. touched
          BY <1>4, <3>2
        <4> HIDE DEF touched, flags
        <4> QED
          BY <4>2, <4>3 DEF flags
      <3> QED
        BY <2>1, <3>1, <3>2 DEF Refused
    <2> QED
      BY <1>9, <2>2 DEF IsRequest
  <1>10. CASE answer # Failed
    <2>1. ~Refused(o) /\ ~o.failed
      BY <1>10 DEF Refused
    <2>2. answer.env = o.env /\ answer.command = SubSeq(words, e + 1, L)
      BY <1>2, <2>1
    <2>3. (~wrong) /\ (touched => based) /\ (touched => answer.env # None)
      <3> HIDE DEF wrong, touched, based
      <3> QED
        BY <1>4, <2>1, <2>2 DEF Refused
    <2>4. ASSUME NEW i \in 1 .. Len(flags), NEW k \in DOMAIN SetBy(flags[i]),
                 Defines(flags, i, k, SetBy(flags[i])[k])
          PROVE  k \in DOMAIN answer.env /\ answer.env[k] = SetBy(flags[i])[k]
      <3>1. i \in 1..e /\ flags[i] = words[i]
        OBVIOUS
      <3>2. Sets(words, e, i, k)
        BY <1>7, <2>4, <3>1
      <3> QED
        BY <1>8, <2>1, <2>2, <3>1, <3>2
    <2>5. ASSUME NEW k \in DOMAIN answer.env
          PROVE  \E i \in 1 .. Len(flags) : Defines(flags, i, k, answer.env[k])
      <3>1. PICK i : Sets(words, e, i, k)
        BY <1>8, <2>1, <2>2, <2>5
      <3>2. answer.env[k] = SetBy(words[i])[k]
        BY <1>8, <2>1, <2>2, <3>1
      <3>3. i \in 1..e /\ Defines(flags, i, k, answer.env[k])
        BY <1>7, <3>1, <3>2
      <3> QED
        BY <3>3
    <2> QED
      BY <1>10, <2>2, <2>3, <2>4, <2>5 DEF IsRequest
  <1> QED
    BY <1>9, <1>10

-----------------------------------------------------------------------------
(* The system: what is asked of the daemon *)

\* What the namespace flags in front of the subcommand, and behind it, say.
LEMMA FlagsSay ==
    ASSUME NEW words \in Seq(Word), NEW leadingOnly \in BOOLEAN,
           leadingOnly => words \in Seq(NsWord)
    PROVE  LET o == ExtractNSFlags(words, leadingOnly) IN
           /\ o \in NsTaken
           /\ o.failed <=> Has(words, <<"bad">>)
           /\ ~o.failed => /\ o.ns = LastNs(words)
                           /\ o.all <=> Has(words, <<"all">>)
  <1> DEFINE o == ExtractNSFlags(words, leadingOnly)
  <1>1. NsRead(words, leadingOnly, Len(words), o)
    BY ExtractReads
  <1> HIDE DEF o
  <1>2. ~o.failed => NsAfter(words, Len(words), o.ns)
    BY <1>1 DEF NsRead
  <1>3. ~o.failed => o.ns = LastNs(words)
    BY <1>2, LastNsIs
  <1>4. /\ o \in NsTaken
        /\ o.failed <=> Has(words, <<"bad">>)
        /\ ~o.failed => (o.all <=> Has(words, <<"all">>))
    BY <1>1 DEF NsRead, Has
  <1> QED
    BY <1>3, <1>4 DEF o

\* The flags before the subcommand are namespace flags.
LEMMA LeadSays ==
    ASSUME NEW words \in Seq(NsWord)
    PROVE  LET o == ExtractNSFlags(words, TRUE) IN
           /\ o \in NsTaken /\ ~o.failed
           /\ o.ns = LastNs(words)
           /\ o.all <=> Has(words, <<"all">>)
  <1>1. words \in Seq(Word) /\ ~Has(words, <<"bad">>)
    <2>1. Len(words) \in Nat /\ \A i \in 1 .. Len(words) : words[i] \in NsWord
      BY WordOf
    <2>2. words \in Seq(Word)
      <3>1. NsWord \subseteq Word
        BY DEF Word
      <3> HIDE DEF NsWord, Word
      <3> QED
        BY <3>1
    <2>3. \A i \in 1 .. Len(words) : words[i] # <<"bad">>
      BY <2>1 DEF NsWord
    <2> QED
      BY <2>2, <2>3 DEF Has
  <1> DEFINE o == ExtractNSFlags(words, TRUE)
  <1>2. /\ o \in NsTaken
        /\ o.failed <=> Has(words, <<"bad">>)
        /\ ~o.failed => /\ o.ns = LastNs(words)
                        /\ o.all <=> Has(words, <<"all">>)
    BY <1>1, FlagsSay
  <1> HIDE DEF o
  <1> QED
    BY <1>1, <1>2 DEF o

\* An answer is not the refusal.
LEMMA NotFailed ==
    /\ \A x, y, z : [ns |-> x, all |-> y, rest |-> z] # Failed
    /\ \A x, y : [env |-> x, command |-> y] # Failed
    /\ \A x, y, z : [env |-> x, command |-> y, ns |-> z] # Failed
  BY DEF Failed

\* `new' asks for what its flags say.
LEMMA NewAsks ==
    ASSUME NEW l, l.cmd = "new", l.lead \in Seq(NsWord), l.sub \in Seq(Word)
    PROVE  /\ RunCtl(l) # Failed => RunCtl(l).ns = LastNs(l.lead)
           /\ Has(l.lead, <<"all">>) \/ IsRequest(l.sub, RunCtl(l))
  <1> DEFINE lead == ExtractNSFlags(l.lead, TRUE)
             scope == Scope(l)
             r == RunCtl(l)
             a == ParseNewArgs(l.sub)
  <1>1. /\ lead \in NsTaken /\ ~lead.failed
        /\ lead.ns = LastNs(l.lead)
        /\ lead.all <=> Has(l.lead, <<"all">>)
    BY LeadSays
  <1>2. scope = IF lead.all THEN Failed
                ELSE [ns |-> lead.ns, all |-> FALSE, rest |-> l.sub]
    <2> DEFINE sub == [NoFlags EXCEPT !.rest = l.sub]
    <2>1. ~sub.failed /\ ~sub.all /\ sub.ns = "" /\ sub.rest = l.sub
          /\ sub.all = FALSE
      BY DEF NoFlags
    <2>2. scope = IF \/ lead.failed \/ sub.failed
                     \/ (lead.all \/ sub.all) /\ l.cmd \notin {"list", "gc"}
                  THEN Failed
                  ELSE [ns |-> IF sub.ns # "" THEN sub.ns ELSE lead.ns,
                        all |-> lead.all \/ sub.all, rest |-> sub.rest]
      BY DEF Scope
    <2> HIDE DEF sub, lead, scope
    <2>3. lead.all \in BOOLEAN
      BY <1>1 DEF NsTaken
    <2>4. CASE lead.all
      BY <1>1, <2>1, <2>2, <2>4
    <2>5. CASE ~lead.all
      <3>1. (lead.all \/ sub.all) = FALSE
        BY <2>1, <2>5
      <3> QED
        BY <1>1, <2>1, <2>2, <2>5, <3>1
    <2> QED
      BY <2>4, <2>5
  <1> HIDE DEF lead, scope
  <1>3. scope = Failed <=> lead.all
    BY <1>2, NotFailed
  <1>4. r = IF scope = Failed THEN Failed
            ELSE IF a = Failed THEN Failed
            ELSE [env |-> a.env, command |-> a.command, ns |-> scope.ns]
    BY DEF RunCtl, scope
  <1>5. PICK e : /\ FlagsEnd(l.sub, e) /\ Len(Flags(l.sub)) = e
                 /\ \A i \in 1..e : Flags(l.sub)[i] = l.sub[i]
    BY FlagsAre
  <1> HIDE DEF a
  <1>6. PICK o : /\ ArgsRead(l.sub, e, Len(l.sub), o)
                 /\ a = IF Refused(o) THEN Failed
                        ELSE [env |-> o.env, command |-> o.command]
    BY <1>5, ArgsReads DEF a
  <1>7. CASE lead.all
    <2>1. r = Failed
      BY <1>3, <1>4, <1>7
    <2> HIDE DEF r
    <2> QED
      BY <1>1, <1>7, <2>1 DEF r
  <1>8. CASE ~lead.all
    <2>1. scope.ns = LastNs(l.lead)
      BY <1>1, <1>2, <1>8
    <2>2. /\ r = Failed <=> Refused(o)
          /\ ~Refused(o) => r.env = o.env /\ r.command = o.command
          /\ r # Failed => r.ns = scope.ns
      <3>1. CASE Refused(o)
        BY <1>4, <1>6, <3>1
      <3>2. CASE ~Refused(o)
        <4>1. a = [env |-> o.env, command |-> o.command]
          BY <1>6, <3>2
        <4>2. a # Failed /\ a.env = o.env /\ a.command = o.command
          BY <4>1, NotFailed
        <4>3. r = [env |-> o.env, command |-> o.command, ns |-> scope.ns]
          BY <1>3, <1>4, <1>8, <4>2
        <4>4. r # Failed
          BY <4>3, NotFailed
        <4> HIDE DEF r
        <4> QED
          BY <3>2, <4>3, <4>4
      <3> QED
        BY <3>1, <3>2
    <2> HIDE DEF r
    <2>3. IsRequest(l.sub, r)
      BY <1>5, <1>6, <2>2, AnswerIsRequest
    <2> QED
      BY <2>1, <2>2, <2>3 DEF r
  <1> QED
    BY <1>7, <1>8

\* r is what the namespace flags of a line ask of `list' and `gc'.
ListSays(l, r) ==
    /\ Has(l.sub, <<"bad">>) => r = Failed
    /\ ~Has(l.sub, <<"bad">>) =>
          /\ r.ns = IF LastNs(l.sub) = "" THEN LastNs(l.lead) ELSE LastNs(l.sub)
          /\ r.all = (Has(l.lead, <<"all">>) \/ Has(l.sub, <<"all">>))

\* `list' and `gc' ask about the namespace that their flags say.
LEMMA ListAsks ==
    ASSUME NEW l, l.cmd \in {"list", "gc"}, l.lead \in Seq(NsWord),
           l.sub \in Seq(Word)
    PROVE  ListSays(l, RunCtl(l))
  <1> DEFINE lead == ExtractNSFlags(l.lead, TRUE)
             sub == ExtractNSFlags(l.sub, FALSE)
             r == RunCtl(l)
  <1>1. /\ lead \in NsTaken /\ ~lead.failed
        /\ lead.ns = LastNs(l.lead)
        /\ lead.all <=> Has(l.lead, <<"all">>)
    BY LeadSays
  <1>2. /\ sub \in NsTaken
        /\ sub.failed <=> Has(l.sub, <<"bad">>)
        /\ ~sub.failed => /\ sub.ns = LastNs(l.sub)
                          /\ sub.all <=> Has(l.sub, <<"all">>)
    BY FlagsSay
  <1>3. Scope(l) = IF \/ lead.failed \/ sub.failed
                      \/ (lead.all \/ sub.all) /\ l.cmd \notin {"list", "gc"}
                   THEN Failed
                   ELSE [ns |-> IF sub.ns # "" THEN sub.ns ELSE lead.ns,
                         all |-> lead.all \/ sub.all, rest |-> sub.rest]
    BY DEF Scope
  <1>4. r = Scope(l)
    BY DEF RunCtl
  <1> HIDE DEF lead, sub, r
  <1>5. CASE sub.failed
    <2>1. r = Failed
      BY <1>3, <1>4, <1>5
    <2> QED
      BY <1>2, <1>5, <2>1 DEF r, ListSays
  <1>6. CASE ~sub.failed
    <2>1. r = [ns |-> IF sub.ns # "" THEN sub.ns ELSE lead.ns,
               all |-> lead.all \/ sub.all, rest |-> sub.rest]
      BY <1>1, <1>3, <1>4, <1>6
    <2>2. r.ns = (IF sub.ns # "" THEN sub.ns ELSE lead.ns)
          /\ r.all = (lead.all \/ sub.all)
      BY <2>1
    <2>3. r.all = (Has(l.lead, <<"all">>) \/ Has(l.sub, <<"all">>))
      BY <1>1, <1>2, <1>6, <2>2
    <2> QED
      BY <1>1, <1>2, <1>6, <2>2, <2>3 DEF r, ListSays
  <1> QED
    BY <1>5, <1>6

\* A request is what runCtl makes of its line, and both stay as they are.
Answered ==
    /\ line \in AttachLines \cup OtherLines
    /\ request # Unparsed => request = RunCtl(line)

\* The request means what the command line says, for any command line: its
\* namespace is that of the last -n, and what `new' asks for is the environment
\* and the command that its flags and words are, or it is refused.
THEOREM RequestCorrect == Spec => []RequestExact
  <1>1. Init => Answered
    BY DEF Init, Answered
  <1>2. Answered /\ [Next]_vars => Answered'
    <2> SUFFICES ASSUME Answered, [Next]_vars PROVE Answered'
      OBVIOUS
    <2>1. CASE Dispatch
      BY <2>1 DEF Dispatch, Answered
    <2>2. CASE UNCHANGED <<line, request>>
      BY <2>2 DEF Answered
    <2> QED
      BY <2>1, <2>2 DEF Next, vars
  <1>3. Answered => RequestExact
    <2> SUFFICES ASSUME Answered, request # Unparsed, line.cmd # "attach"
                 PROVE  RequestExact
      BY DEF RequestExact
    <2>1. /\ line.lead \in Seq(NsWord) /\ line.sub \in Seq(Word)
          /\ request = RunCtl(line)
      BY LinesAssumption DEF Answered
    <2>2. CASE line.cmd = "new"
      <3>1. /\ RunCtl(line) # Failed => RunCtl(line).ns = LastNs(line.lead)
            /\ Has(line.lead, <<"all">>) \/ IsRequest(line.sub, RunCtl(line))
        BY <2>1, <2>2, NewAsks
      <3>2. line.cmd \notin {"list", "gc"}
        BY <2>2
      <3> QED
        BY <2>1, <3>1, <3>2 DEF RequestExact
    <2>3. CASE line.cmd \in {"list", "gc"}
      <3> DEFINE r == RunCtl(line)
      <3>1. ListSays(line, r)
        BY <2>1, <2>3, ListAsks
      <3>2. line.cmd # "new"
        BY <2>3
      <3>3. request = r
        BY <2>1
      <3> HIDE DEF r
      <3> QED
        BY <2>3, <3>1, <3>2, <3>3 DEF RequestExact, ListSays
    <2>4. CASE line.cmd \notin {"new", "list", "gc"}
      BY <2>4 DEF RequestExact
    <2> QED
      BY <2>2, <2>3, <2>4
  <1> QED
    BY <1>1, <1>2, <1>3, PTL DEF Spec
=============================================================================
