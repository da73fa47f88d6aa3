-------------------------- MODULE BinaryFormatProofs --------------------------
(***************************************************************************)
(* The decoder inverts the binary format: the file of a module decodes to  *)
(* that module.  Wherever the stream stands, what is ahead of it is the    *)
(* encoding of what has not been read.                                     *)
(***************************************************************************)
EXTENDS BinaryFormat, DecoderProofs

Tokens == Seq(Nat)

-----------------------------------------------------------------------------
(* FlattenSeq.  What is left of a sequence of pieces after the first k.    *)
LEMMA RangeInduction ==
  ASSUME NEW n \in Nat \ {0}, NEW S, 1 \in S, \A i \in 1..(n - 1) : i \in S => i + 1 \in S
  PROVE  \A i \in 1..n : i \in S
<1> DEFINE T == {k \in Nat : k = 0 \/ k > n \/ k \in S}
<1>1. 0 \in T
  OBVIOUS
<1>2. ASSUME NEW k \in Nat, k \in T
      PROVE  k + 1 \in T
  <2>1. CASE k = 0
    <3>1. k + 1 = 1
      BY <2>1
    <3> QED
      BY <3>1
  <2>2. CASE k >= n
    BY <2>2
  <2>3. CASE k \in 1..(n - 1)
    <3>1. k \in S
      BY <1>2, <2>3
    <3>2. k + 1 \in S
      BY <2>3, <3>1
    <3> QED
      BY <2>3, <3>2
  <2> QED
    BY <2>1, <2>2, <2>3
<1>3. \A k \in Nat : k \in T
  <2> HIDE DEF T
  <2> QED
    BY <1>1, <1>2, NatSetInduction
<1>4. ASSUME NEW i \in 1..n
      PROVE  i \in S
  <2>1. i \in T /\ i \in Nat /\ i # 0 /\ ~(i > n)
    BY <1>3
  <2> QED
    BY <2>1
<1> QED
  BY <1>4

LEMMA Assoc ==
  ASSUME NEW a \in Tokens, NEW b \in Tokens, NEW c \in Tokens
  PROVE  (a \o b) \o c = a \o (b \o c)
<1>1. a \in Seq(Nat) /\ b \in Seq(Nat) /\ c \in Seq(Nat)
  BY DEF Tokens
<1> QED
  BY <1>1, ConcatAssociative

Pieced(g, n, e) == g = [i \in 1..n |-> IF i = 1 THEN e[i] ELSE g[i - 1] \o e[i]]
Chained(g, n, e) ==
  /\ DOMAIN g = 1..n /\ g[1] = e[1]
  /\ \A i \in 1..(n - 1) : g[i + 1] = g[i] \o e[i + 1]

LEMMA Piece ==
  ASSUME NEW n \in Nat \ {0}, NEW e, NEW g, Pieced(g, n, e)
  PROVE  Chained(g, n, e)
<1>1. DOMAIN g = 1..n
  BY Zenon DEF Pieced
<1>2. \A i \in 1..n : g[i] = IF i = 1 THEN e[i] ELSE g[i - 1] \o e[i]
  BY Zenon DEF Pieced
<1>3. ASSUME NEW i \in 1..(n - 1)
      PROVE  g[i + 1] = g[i] \o e[i + 1]
  <2> DEFINE k == i + 1
  <2>1. k \in 1..n /\ k # 1 /\ k - 1 = i
    OBVIOUS
  <2> HIDE DEF k
  <2>2. g[k] = g[k - 1] \o e[k]
    BY <1>2, <2>1
  <2> QED
    BY <2>1, <2>2 DEF k
<1>4. g[1] = e[1]
  <2>1. 1 \in 1..n
    OBVIOUS
  <2>2. g[1] = IF 1 = 1 THEN e[1] ELSE g[1 - 1] \o e[1]
    BY <1>2, <2>1, Zenon
  <2> QED
    BY <2>2
<1> QED
  BY <1>1, <1>3, <1>4, Zenon DEF Chained

LEMMA PiecesAreTokens ==
  ASSUME NEW n \in Nat \ {0}, NEW e \in [1..n -> Tokens], NEW g, Pieced(g, n, e)
  PROVE  g \in [1..n -> Tokens]
<1> DEFINE S == {i \in 1..n : g[i] \in Tokens}
<1>1. /\ DOMAIN g = 1..n /\ g[1] = e[1]
      /\ \A i \in 1..(n - 1) : g[i + 1] = g[i] \o e[i + 1]
  <2>1. Chained(g, n, e)
    BY Piece
  <2> QED
    BY <2>1 DEF Chained
<1>2. ASSUME NEW i \in 1..(n - 1), i \in S
      PROVE  i + 1 \in S
  <2>1. g[i] \in Tokens /\ e[i + 1] \in Tokens /\ i + 1 \in 1..n
    BY <1>2
  <2>2. g[i] \o e[i + 1] \in Tokens
    BY <2>1 DEF Tokens
  <2>3. g[i + 1] \in Tokens
    BY <1>1, <2>2
  <2> QED
    BY <2>1, <2>3
<1>3. 1 \in S
  BY <1>1
<1>4. \A i \in 1..n : i \in S
  <2> HIDE DEF S
  <2> QED
    BY <1>2, <1>3, RangeInduction
<1>5. \A i \in 1..n : g[i] \in Tokens
  BY <1>4
<1>6. g = [i \in 1..n |-> g[i]]
  BY <1>1, Zenon DEF Pieced
<1> QED
  BY <1>5, <1>6

LEMMA PiecesExist ==
  \A n \in Nat : \A e : n # 0 => \E g : Pieced(g, n, e)
<1> DEFINE S == {n \in Nat : \A e : n # 0 => \E g : Pieced(g, n, e)}
<1>1. 0 \in S
  OBVIOUS
<1>2. ASSUME NEW n \in Nat, n \in S
      PROVE  n + 1 \in S
  <2> SUFFICES ASSUME NEW e
               PROVE  \E h : Pieced(h, n + 1, e)
    <3> n + 1 \in Nat
      OBVIOUS
    <3> QED
      BY Zenon
  <2>1. CASE n = 0
    <3> DEFINE h == [i \in 1..(n + 1) |-> e[1]]
    <3>1. \A i \in 1..(n + 1) : h[i] = IF i = 1 THEN e[i] ELSE h[i - 1] \o e[i]
      BY <2>1
    <3>2. h = [i \in 1..(n + 1) |-> IF i = 1 THEN e[i] ELSE h[i - 1] \o e[i]]
      BY <3>1, Zenon
    <3> QED
      BY <3>2, Zenon DEF Pieced
  <2>2. CASE n # 0
    <3>1. PICK g : Pieced(g, n, e)
      BY <1>2, <2>2, Zenon
    <3>2. /\ g[1] = e[1]
          /\ \A i \in 1..(n - 1) : g[i + 1] = g[i] \o e[i + 1]
      <4>1. n \in Nat \ {0}
        BY <2>2
      <4> QED
        <5>1. Chained(g, n, e)
          BY <3>1, <4>1, Piece
        <5> QED
          BY <5>1 DEF Chained
    <3> DEFINE h == [i \in 1..(n + 1) |-> IF i = n + 1 THEN g[n] \o e[n + 1] ELSE g[i]]
    <3>3. ASSUME NEW i \in 1..(n + 1)
          PROVE  h[i] = IF i = 1 THEN e[i] ELSE h[i - 1] \o e[i]
      <4>1. CASE i = 1
        BY <2>2, <3>2, <4>1
      <4>2. CASE i = n + 1
        <5>1. h[i] = g[n] \o e[n + 1]
          BY <4>2
        <5>3. i # 1 /\ i - 1 = n /\ n \in 1..(n + 1) /\ n # n + 1
          BY <2>2, <4>2
        <5>2. h[n] = g[n]
          BY <5>3
        <5> QED
          BY <4>2, <5>1, <5>2, <5>3
      <4>3. CASE i # 1 /\ i # n + 1
        <5> DEFINE j == i - 1
        <5>1. j \in 1..(n - 1) /\ j + 1 = i /\ j \in 1..(n + 1) /\ j # n + 1
          BY <4>3
        <5>2. g[i] = g[j] \o e[i]
          <6> HIDE DEF j
          <6>1. g[j + 1] = g[j] \o e[j + 1]
            BY <3>2, <5>1
          <6> QED
            BY <5>1, <6>1
        <5>3. h[i] = g[i] /\ h[j] = g[j]
          <6> HIDE DEF j
          <6> QED
            BY <4>3, <5>1
        <5> QED
          BY <4>3, <5>2, <5>3
      <4> QED
        BY <4>1, <4>2, <4>3
    <3>4. h = [i \in 1..(n + 1) |-> IF i = 1 THEN e[i] ELSE h[i - 1] \o e[i]]
      BY <3>3, Zenon
    <3> QED
      BY <3>4, Zenon DEF Pieced
  <2> QED
    BY <2>1, <2>2
<1>3. \A n \in Nat : n \in S
  <2> HIDE DEF S
  <2> QED
    BY <1>1, <1>2, NatSetInduction
<1> QED
  BY <1>3

LEMMA FlattenPieces ==
  ASSUME NEW ss \in Seq(Tokens), ss # <<>>
  PROVE  \E g \in [1..Len(ss) -> Tokens] :
           /\ FlattenSeq(ss) = g[Len(ss)] /\ g[1] = ss[1]
           /\ \A i \in 1..(Len(ss) - 1) : g[i + 1] = g[i] \o ss[i + 1]
<1> DEFINE g == CHOOSE f : f = [i \in 1..Len(ss) |-> IF i = 1 THEN ss[i] ELSE f[i - 1] \o ss[i]]
<1>1. Len(ss) \in Nat \ {0} /\ ss \in [1..Len(ss) -> Tokens]
  BY EmptySeq, LenProperties
<1>2. FlattenSeq(ss) = g[Len(ss)]
  BY <1>1 DEF FlattenSeq
<1>3. \E h : Pieced(h, Len(ss), ss)
  BY <1>1, PiecesExist
<1>4. Pieced(g, Len(ss), ss)
  BY <1>3, Zenon DEF Pieced
<1> HIDE DEF g
<1>5. g \in [1..Len(ss) -> Tokens]
  BY <1>1, <1>4, PiecesAreTokens
<1>6. g[1] = ss[1] /\ \A i \in 1..(Len(ss) - 1) : g[i + 1] = g[i] \o ss[i + 1]
  <2>1. Chained(g, Len(ss), ss)
    BY <1>1, <1>4, Piece
  <2> QED
    BY <2>1 DEF Chained
<1> QED
  BY <1>2, <1>5, <1>6

LEMMA FlattenEmpty == FlattenSeq(<<>>) = <<>>
BY DEF FlattenSeq

LEMMA TailFacts ==
  ASSUME NEW S, NEW ss \in Seq(S), ss # <<>>
  PROVE  /\ Len(ss) \in Nat \ {0} /\ Tail(ss) \in Seq(S) /\ Len(Tail(ss)) = Len(ss) - 1
         /\ \A i \in 1..(Len(ss) - 1) : Tail(ss)[i] = ss[i + 1]
         /\ Tail(ss) = <<>> <=> Len(ss) = 1
<1>1. Len(ss) \in Nat \ {0}
  BY EmptySeq
<1>2. /\ Tail(ss) \in Seq(S) /\ Len(Tail(ss)) = Len(ss) - 1
      /\ \A i \in 1..Len(Tail(ss)) : Tail(ss)[i] = ss[i + 1]
  BY HeadTailProperties
<1> DEFINE t == Tail(ss)
<1> HIDE DEF t
<1>3. t \in Seq(S) /\ Len(t) = Len(ss) - 1 /\ \A i \in 1..Len(t) : t[i] = ss[i + 1]
  BY <1>2 DEF t
<1>4. t = <<>> <=> Len(t) = 0
  BY <1>3, EmptySeq
<1>5. t = <<>> <=> Len(ss) = 1
  BY <1>1, <1>3, <1>4
<1> QED
  BY <1>1, <1>2, <1>3, <1>5 DEF t

LEMMA FlattenHead ==
  ASSUME NEW ss \in Seq(Tokens), ss # <<>>
  PROVE  FlattenSeq(ss) \in Tokens /\ FlattenSeq(ss) = ss[1] \o FlattenSeq(Tail(ss))
<1> DEFINE n == Len(ss)
           t == Tail(ss)
<1>1. PICK g \in [1..n -> Tokens] :
        /\ FlattenSeq(ss) = g[n] /\ g[1] = ss[1]
        /\ \A i \in 1..(n - 1) : g[i + 1] = g[i] \o ss[i + 1]
  BY FlattenPieces
<1>2. /\ n \in Nat \ {0} /\ t \in Seq(Tokens) /\ Len(t) = n - 1
      /\ \A i \in 1..(n - 1) : t[i] = ss[i + 1]
      /\ t = <<>> <=> n = 1
  BY TailFacts
<1>3. \A i \in 1..n : ss[i] \in Tokens
  BY ElementOfSeq
<1> HIDE DEF n, t
<1>4. CASE n = 1
  <2>1. t = <<>>
    BY <1>2, <1>4
  <2>2. g[n] = ss[1] /\ ss[1] \in Tokens
    BY <1>1, <1>3, <1>4
  <2>3. ss[1] \o <<>> = ss[1]
    BY <2>2, ConcatEmptySeq DEF Tokens
  <2> QED
    BY <1>1, <2>1, <2>2, <2>3, FlattenEmpty DEF t
<1>5. CASE n # 1
  <2>1. t # <<>>
    BY <1>2, <1>5
  <2>2. PICK h \in [1..(n - 1) -> Tokens] :
          /\ FlattenSeq(t) = h[n - 1] /\ h[1] = t[1]
          /\ \A i \in 1..(n - 1 - 1) : h[i + 1] = h[i] \o t[i + 1]
    <3>1. \E h \in [1..Len(t) -> Tokens] :
            /\ FlattenSeq(t) = h[Len(t)] /\ h[1] = t[1]
            /\ \A i \in 1..(Len(t) - 1) : h[i + 1] = h[i] \o t[i + 1]
      BY <1>2, <2>1, FlattenPieces
    <3> QED
      BY <1>2, <3>1
  <2> DEFINE S == {i \in 1..(n - 1) : g[i + 1] = ss[1] \o h[i]}
  <2>0. n - 1 \in Nat \ {0} /\ 1 \in 1..(n - 1)
    BY <1>2, <1>5
  <2>3. 1 \in S
    <3>1. g[1 + 1] = g[1] \o ss[1 + 1]
      BY <1>1, <2>0
    <3>2. t[1] = ss[1 + 1]
      BY <1>2, <2>0
    <3>3. g[1 + 1] = ss[1] \o h[1]
      BY <1>1, <2>2, <3>1, <3>2
    <3> QED
      BY <2>0, <3>3
  <2>4. ASSUME NEW i \in 1..(n - 1 - 1), i \in S
        PROVE  i + 1 \in S
    <3> DEFINE j == i + 1
    <3>1. i \in 1..(n - 1) /\ j \in 1..(n - 1) /\ i \in 1..n /\ j + 1 \in 1..n
      BY <1>2
    <3>2. h[j] = h[i] \o t[j]
      BY <2>2
    <3>3. g[j] = ss[1] \o h[i]
      BY <2>4
    <3> HIDE DEF j
    <3>4. g[j + 1] = g[j] \o ss[j + 1] /\ t[j] = ss[j + 1]
      BY <1>1, <1>2, <3>1
    <3>5. h[i] \in Tokens /\ ss[1] \in Tokens /\ ss[j + 1] \in Tokens
      BY <1>2, <1>3, <2>2, <3>1
    <3>6. (ss[1] \o h[i]) \o ss[j + 1] = ss[1] \o (h[i] \o ss[j + 1])
      BY <3>5, Assoc
    <3>7. g[j + 1] = ss[1] \o h[j]
      BY <3>2, <3>3, <3>4, <3>6
    <3>8. j \in S
      BY <3>1, <3>7
    <3> QED
      BY <3>8 DEF j
  <2>5. n - 1 \in S
    <3> HIDE DEF S
    <3>1. \A i \in 1..(n - 1) : i \in S
      BY <2>0, <2>3, <2>4, RangeInduction
    <3> QED
      BY <2>0, <3>1
  <2>6. g[(n - 1) + 1] = ss[1] \o h[n - 1]
    BY <2>5
  <2>7. (n - 1) + 1 = n /\ n \in 1..n
    BY <1>2
  <2> QED
    BY <1>1, <2>2, <2>6, <2>7 DEF t
<1> QED
  BY <1>4, <1>5

(* What is left of a sequence of pieces after the first k.                 *)
Left(ss, k) == FlattenSeq(SubSeq(ss, k + 1, Len(ss)))

LEMMA LeftStep ==
  ASSUME NEW ss \in Seq(Tokens), NEW k \in Nat, k < Len(ss)
  PROVE  Left(ss, k) \in Tokens /\ Left(ss, k) = ss[k + 1] \o Left(ss, k + 1)
<1> DEFINE m == k + 1
           s == SubSeq(ss, m, Len(ss))
<1>1. m \in 1..Len(ss) /\ Len(ss) \in m..Len(ss) /\ m \in Int /\ Len(ss) \in Nat
  OBVIOUS
<1>2. \A i \in m..Len(ss) : ss[i] \in Tokens
  BY <1>1, ElementOfSeq
<1> HIDE DEF m
<1>3. Head(s) = ss[m] /\ Tail(s) = SubSeq(ss, m + 1, Len(ss))
  BY <1>1, HeadTailOfSubSeq
<1>4. s \in Seq(Tokens) /\ Len(s) = Len(ss) - m + 1
  BY <1>1, <1>2, SubSeqProperties
<1>5. s # <<>> /\ s[1] = ss[m]
  <2>1. Len(s) # 0
    BY <1>1, <1>4
  <2> HIDE DEF s
  <2>2. s # <<>>
    BY <1>4, <2>1
  <2>3. SubSeq(ss, m, Len(ss))[1] = ss[m]
    BY <1>1, <1>2, SubSeqProperties
  <2> QED
    BY <2>2, <2>3 DEF s
<1>6. FlattenSeq(s) \in Tokens /\ FlattenSeq(s) = s[1] \o FlattenSeq(Tail(s))
  BY <1>4, <1>5, FlattenHead
<1> QED
  BY <1>3, <1>5, <1>6 DEF m, Left

LEMMA LeftEnds ==
  ASSUME NEW ss \in Seq(Tokens)
  PROVE  /\ Left(ss, 0) = FlattenSeq(ss) /\ Left(ss, Len(ss)) = <<>>
         /\ \A k \in 0..Len(ss) : Left(ss, k) \in Tokens
<1>1. Len(ss) \in Nat
  OBVIOUS
<1>2. Left(ss, 0) = FlattenSeq(ss)
  <2>1. SubSeq(ss, 1, Len(ss)) = ss
    BY SubSeqFull
  <2>2. 0 + 1 = 1
    OBVIOUS
  <2> QED
    BY <2>1, <2>2, Zenon DEF Left
<1>3. Left(ss, Len(ss)) = <<>>
  <2> DEFINE m == Len(ss) + 1
  <2>1. m \in Int /\ Len(ss) \in Int /\ Len(ss) < m
    BY <1>1
  <2> HIDE DEF m
  <2>2. SubSeq(ss, m, Len(ss)) = <<>>
    BY <2>1, SubSeqEmpty
  <2> QED
    BY <2>2, FlattenEmpty DEF m, Left
<1>4. ASSUME NEW k \in 0..Len(ss)
      PROVE  Left(ss, k) \in Tokens
  <2>1. CASE k = Len(ss)
    BY <1>3, <2>1, EmptySeq DEF Tokens
  <2>2. CASE k # Len(ss)
    <3>1. k \in Nat /\ k < Len(ss)
      BY <1>1, <2>2
    <3> QED
      BY <3>1, LeftStep
  <2> QED
    BY <2>1, <2>2
<1> QED
  BY <1>2, <1>3, <1>4

-----------------------------------------------------------------------------
(* What stands in a file: At(f, p, t), the tokens t from p on; Ahead, to   *)
(* the end of the file.                                                    *)
At(f, p, t) ==
  /\ f \in Tokens /\ t \in Tokens /\ p \in Nat /\ p + Len(t) <= Len(f)
  /\ \A i \in 1..Len(t) : f[p + i] = t[i]
Ahead(f, p, t) == At(f, p, t) /\ p + Len(t) = Len(f)

LEMMA Concat ==
  ASSUME NEW a \in Tokens, NEW b \in Tokens
  PROVE  /\ a \o b \in Tokens /\ Len(a) \in Nat /\ Len(b) \in Nat /\ Len(a \o b) = Len(a) + Len(b)
         /\ \A i \in 1..Len(a) : (a \o b)[i] = a[i]
         /\ \A i \in 1..Len(b) : (a \o b)[Len(a) + i] = b[i]
BY DEF Tokens

LEMMA AtParts ==
  ASSUME NEW f, NEW p, NEW a \in Tokens, NEW b \in Tokens, At(f, p, a \o b)
  PROVE  /\ At(f, p, a) /\ At(f, p + Len(a), b) /\ Len(a \o b) = Len(a) + Len(b)
<1> DEFINE c == a \o b
<1>1. /\ c \in Tokens /\ Len(a) \in Nat /\ Len(b) \in Nat /\ Len(c) = Len(a) + Len(b)
      /\ \A i \in 1..Len(a) : c[i] = a[i]
      /\ \A i \in 1..Len(b) : c[Len(a) + i] = b[i]
  BY Concat
<1> HIDE DEF c
<1>2. /\ f \in Tokens /\ p \in Nat /\ p + Len(c) <= Len(f) /\ \A i \in 1..Len(c) : f[p + i] = c[i]
  BY DEF At, c
<1>3. Len(f) \in Nat
  BY <1>2 DEF Tokens
<1>4. At(f, p, a)
  BY <1>1, <1>2, <1>3 DEF At
<1>5. \A i \in 1..Len(b) : f[(p + Len(a)) + i] = b[i]
  <2> SUFFICES ASSUME NEW i \in 1..Len(b)
               PROVE  f[(p + Len(a)) + i] = b[i]
    OBVIOUS
  <2> DEFINE j == Len(a) + i
  <2>1. j \in 1..Len(c) /\ (p + Len(a)) + i = p + j
    BY <1>1, <1>2
  <2>2. c[j] = b[i]
    BY <1>1
  <2> HIDE DEF j
  <2> QED
    BY <1>2, <2>1, <2>2
<1>6. At(f, p + Len(a), b)
  <2>1. p + Len(a) \in Nat /\ (p + Len(a)) + Len(b) <= Len(f)
    BY <1>1, <1>2, <1>3
  <2> QED
    BY <1>2, <1>5, <2>1, Zenon DEF At
<1> QED
  BY <1>1, <1>4, <1>6 DEF c

LEMMA AheadParts ==
  ASSUME NEW f, NEW p, NEW a \in Tokens, NEW b \in Tokens, Ahead(f, p, a \o b)
  PROVE  At(f, p, a) /\ Ahead(f, p + Len(a), b)
<1>1. /\ At(f, p, a) /\ At(f, p + Len(a), b) /\ Len(a \o b) = Len(a) + Len(b)
  BY AtParts DEF Ahead
<1>2. Len(a) \in Nat /\ Len(b) \in Nat /\ p \in Nat
  BY <1>1 DEF At, Tokens
<1> QED
  BY <1>1, <1>2 DEF Ahead

LEMMA ByteAt ==
  ASSUME NEW p, NEW t, At(file, p, t)
  PROVE  /\ p \in Nat /\ Len(t) \in Nat
         /\ Len(t) >= 1 => Byte(p) = t[1]
         /\ \A i \in 1..(Len(t) - 1) : Byte(p + i) = t[i + 1]
<1>1. /\ file \in Tokens /\ p \in Nat /\ Len(t) \in Nat /\ Len(file) \in Nat /\ p + Len(t) <= Len(file)
      /\ \A i \in 1..Len(t) : file[p + i] = t[i]
  BY DEF At, Tokens
<1>2. ASSUME NEW i \in 1..(Len(t) - 1)
      PROVE  Byte(p + i) = t[i + 1]
  <2> DEFINE j == i + 1
  <2>1. j \in 1..Len(t) /\ (p + i) + 1 = p + j /\ p + i < Len(file)
    BY <1>1
  <2>2. file[p + j] = t[j]
    <3> HIDE DEF j
    <3> QED
      BY <1>1, <2>1
  <2> QED
    BY <2>1, <2>2 DEF Byte
<1>3. ASSUME Len(t) >= 1
      PROVE  Byte(p) = t[1]
  <2>1. 1 \in 1..Len(t) /\ p < Len(file)
    BY <1>1, <1>3
  <2> QED
    BY <1>1, <2>1 DEF Byte
<1> QED
  BY <1>1, <1>2, <1>3

LEMMA BytesAt ==
  ASSUME NEW p
  PROVE  /\ \A a : At(file, p, <<a>>) => p \in Nat /\ Byte(p) = a
         /\ \A a, b : At(file, p, <<a, b>>) => p \in Nat /\ Byte(p) = a /\ Byte(p + 1) = b
         /\ \A a, b, c : At(file, p, <<a, b, c>>) =>
              p \in Nat /\ Byte(p) = a /\ Byte(p + 1) = b /\ Byte(p + 2) = c
<1>1. ASSUME NEW a, At(file, p, <<a>>)
      PROVE  p \in Nat /\ Byte(p) = a
  <2> DEFINE t == <<a>>
  <2>1. Len(t) = 1 /\ t[1] = a
    OBVIOUS
  <2> HIDE DEF t
  <2>2. At(file, p, t)
    BY <1>1 DEF t
  <2>3. p \in Nat /\ (Len(t) >= 1 => Byte(p) = t[1])
    BY <2>2, ByteAt
  <2> QED
    BY <2>1, <2>3
<1>2. ASSUME NEW a, NEW b, At(file, p, <<a, b>>)
      PROVE  p \in Nat /\ Byte(p) = a /\ Byte(p + 1) = b
  <2> DEFINE t == <<a, b>>
  <2>1. Len(t) = 2 /\ t[1] = a /\ t[1 + 1] = b
    OBVIOUS
  <2> HIDE DEF t
  <2>2. At(file, p, t)
    BY <1>2 DEF t
  <2>3. \A i \in 1..(2 - 1) : Byte(p + i) = t[i + 1]
    BY <2>1, <2>2, ByteAt
  <2>4. p \in Nat /\ Byte(p) = t[1]
    BY <2>1, <2>2, ByteAt
  <2> QED
    BY <2>1, <2>3, <2>4
<1>3. ASSUME NEW a, NEW b, NEW c, At(file, p, <<a, b, c>>)
      PROVE  p \in Nat /\ Byte(p) = a /\ Byte(p + 1) = b /\ Byte(p + 2) = c
  <2> DEFINE t == <<a, b, c>>
  <2>1. Len(t) = 3 /\ t[1] = a /\ t[1 + 1] = b /\ t[2 + 1] = c
    OBVIOUS
  <2> HIDE DEF t
  <2>2. At(file, p, t)
    BY <1>3 DEF t
  <2>3. \A i \in 1..(3 - 1) : Byte(p + i) = t[i + 1]
    BY <2>1, <2>2, ByteAt
  <2>4. p \in Nat /\ Byte(p) = t[1]
    BY <2>1, <2>2, ByteAt
  <2> QED
    BY <2>1, <2>3, <2>4
<1> QED
  BY <1>1, <1>2, <1>3

LEMMA ConsTokens ==
  ASSUME NEW a \in Nat, NEW b \in Tokens
  PROVE  <<a>> \o b \in Tokens /\ Len(<<a>> \o b) = Len(b) + 1 /\ Len(b) \in Nat
<1> DEFINE t == <<a>>
<1>1. t \in Tokens /\ Len(t) = 1
  BY DEF Tokens
<1> HIDE DEF t
<1>2. t \o b \in Tokens /\ Len(t) \in Nat /\ Len(b) \in Nat /\ Len(t \o b) = Len(t) + Len(b)
  BY <1>1, Concat
<1>3. t \o b \in Tokens /\ Len(b) \in Nat /\ Len(t \o b) = Len(b) + 1
  BY <1>1, <1>2
<1> QED
  BY <1>3 DEF t

LEMMA ConsAt ==
  ASSUME NEW a \in Nat, NEW b \in Tokens, NEW p, At(file, p, <<a>> \o b)
  PROVE  p \in Nat /\ Byte(p) = a /\ At(file, p + 1, b)
<1> DEFINE t == <<a>>
<1>1. t \in Tokens /\ Len(t) = 1
  BY DEF Tokens
<1> HIDE DEF t
<1>2. At(file, p, t) /\ At(file, p + 1, b)
  <2>1. At(file, p, t \o b)
    BY DEF t
  <2> QED
    BY <1>1, <2>1, AtParts
<1>3. p \in Nat /\ Byte(p) = a
  BY <1>2, BytesAt DEF t
<1> QED
  BY <1>2, <1>3

LEMMA TwoTokens ==
  ASSUME NEW a \in Nat, NEW b \in Nat, NEW c \in Tokens
  PROVE  /\ <<a, b>> \o c \in Tokens /\ Len(<<a, b>> \o c) = Len(c) + 2 /\ Len(c) \in Nat
         /\ <<a, b>> \o c # <<>>
         /\ \A p : At(file, p, <<a, b>> \o c) =>
              p \in Nat /\ Byte(p) = a /\ Byte(p + 1) = b /\ At(file, p + 2, c)
<1> DEFINE t == <<a, b>>
<1>1. t \in Tokens /\ Len(t) = 2
  BY DEF Tokens
<1> HIDE DEF t
<1>2. t \o c \in Tokens /\ Len(t) \in Nat /\ Len(c) \in Nat /\ Len(t \o c) = Len(t) + Len(c)
  BY <1>1, Concat
<1>3. Len(t \o c) = Len(c) + 2 /\ Len(t \o c) # 0
  BY <1>1, <1>2
<1>4. t \o c # <<>>
  BY <1>2, <1>3, EmptySeq
<1>5. ASSUME NEW p, At(file, p, t \o c)
      PROVE  p \in Nat /\ Byte(p) = a /\ Byte(p + 1) = b /\ At(file, p + 2, c)
  <2>1. At(file, p, t) /\ At(file, p + Len(t), c)
    BY <1>1, <1>5, AtParts
  <2> QED
    BY <1>1, <2>1, BytesAt DEF t
<1> QED
  BY <1>2, <1>3, <1>4, <1>5 DEF t

-----------------------------------------------------------------------------
(* Each reader inverts its encoding.                                       *)
LEMMA VecTokens ==
  ASSUME NEW s \in Tokens
  PROVE  Vec(s) \in Tokens /\ <<Len(s)>> \in Tokens /\ Len(Vec(s)) = Len(s) + 1 /\ Len(s) \in Nat
<1>1. <<Len(s)>> \in Tokens /\ Len(<<Len(s)>>) = 1 /\ Len(s) \in Nat
  BY DEF Tokens
<1> QED
  BY <1>1, Concat DEF Vec

LEMMA VecRead ==
  ASSUME NEW s \in Tokens, NEW p, At(file, p, Vec(s))
  PROVE  ReadVec(p) = Read(s, p + Len(Vec(s)))
<1>1. Vec(s) \in Tokens /\ <<Len(s)>> \in Tokens /\ Len(Vec(s)) = Len(s) + 1 /\ Len(s) \in Nat
  BY VecTokens
<1>2. At(file, p, <<Len(s)>>) /\ At(file, p + Len(<<Len(s)>>), s)
  BY <1>1, AtParts DEF Vec
<1>3. p \in Nat /\ Byte(p) = Len(s)
  BY <1>2, BytesAt
<1>4. At(file, p + 1, s)
  BY <1>2
<1>5. ASSUME NEW i \in 1..Len(s)
      PROVE  Byte(p + i) = s[i]
  <2>1. CASE i = 1
    BY <1>1, <1>4, <2>1, ByteAt
  <2>2. CASE i # 1
    <3> DEFINE j == i - 1
    <3>1. j \in 1..(Len(s) - 1) /\ (p + 1) + j = p + i /\ j + 1 = i
      BY <1>1, <1>3, <2>2
    <3> HIDE DEF j
    <3>2. Byte((p + 1) + j) = s[j + 1]
      BY <1>4, <3>1, ByteAt
    <3> QED
      BY <3>1, <3>2
  <2> QED
    BY <2>1, <2>2
<1>6. s = [i \in 1..Len(s) |-> s[i]]
  BY LenProperties DEF Tokens
<1>7. [i \in 1..Byte(p) |-> Byte(p + i)] = s
  BY <1>3, <1>5, <1>6
<1>8. p + 1 + Byte(p) = p + Len(Vec(s))
  BY <1>1, <1>3
<1> QED
  BY <1>7, <1>8 DEF ReadVec, Read

LEMMA LimitRead ==
  ASSUME NEW l \in Limits
  PROVE  /\ EncodeLimit(l) \in Tokens
         /\ \A p : At(file, p, EncodeLimit(l)) => ReadLimit(p) = Read(l, p + Len(EncodeLimit(l)))
<1>1. PICK a \in Nat, b \in Nat : l = <<a, b>>
  BY DEF Limits
<1>2. CASE b = 0
  <2>1. EncodeLimit(l) = <<0, a>>
    BY <1>1, <1>2 DEF EncodeLimit
  <2>2. <<0, a>> \in Tokens /\ Len(<<0, a>>) = 2
    BY <1>1 DEF Tokens
  <2>3. ASSUME NEW p, At(file, p, <<0, a>>)
        PROVE  ReadLimit(p) = Read(<<a, 0>>, p + 2)
    <3>1. Byte(p) = 0 /\ Byte(p + 1) = a
      BY <2>3, BytesAt
    <3> QED
      BY <3>1 DEF ReadLimit, BoolAt, WasmTrue
  <2> QED
    BY <1>1, <1>2, <2>1, <2>2, <2>3
<1>3. CASE b # 0
  <2>1. EncodeLimit(l) = <<1>> \o l
    BY <1>1, <1>3 DEF EncodeLimit
  <2>2. <<1>> \in Tokens /\ Len(<<1>>) = 1 /\ l \in Tokens /\ Len(l) = 2
    BY <1>1 DEF Tokens
  <2>3. ASSUME NEW p, At(file, p, << 1 >> \o l)
        PROVE  ReadLimit(p) = Read(l, p + 3)
    <3>1. p \in Nat /\ Byte(p) = 1 /\ At(file, p + 1, <<a, b>>)
      BY <1>1, <2>2, <2>3, ConsAt
    <3>2. Byte(p + 1) = a /\ Byte((p + 1) + 1) = b
      BY <3>1, BytesAt
    <3>3. (p + 1) + 1 = p + 2
      BY <3>1
    <3> QED
      BY <1>1, <3>1, <3>2, <3>3 DEF ReadLimit, BoolAt, WasmTrue
  <2>4. <<1>> \o l \in Tokens /\ Len(<<1>> \o l) = 3
    <3>1. <<1>> \o l \in Tokens /\ Len(<<1>> \o l) = Len(l) + 1
      BY <2>2, ConsTokens
    <3> QED
      BY <2>2, <3>1
  <2> QED
    BY <2>1, <2>3, <2>4
<1> QED
  BY <1>1, <1>2, <1>3

LEMMA TableRead ==
  ASSUME NEW t \in TableTypes
  PROVE  /\ EncodeTable(t) \in Tokens
         /\ \A p : At(file, p, EncodeTable(t)) => ReadTableType(p) = Read(t, p + Len(EncodeTable(t)))
<1>1. PICK a \in Nat, b \in Nat, c \in Nat : t = <<a, b, c>>
  BY DEF TableTypes
<1> DEFINE l == <<b, c>>
<1>2. l \in Limits
  BY <1>1 DEF Limits
<1>3. EncodeTable(t) = <<a>> \o EncodeLimit(l)
  BY <1>1 DEF EncodeTable
<1>4. <<a>> \o l = t
  <2>1. l \in Tokens /\ Len(l) = 2 /\ l[1] = b /\ l[2] = c
    BY <1>1 DEF Tokens
  <2>2. t \in Tokens /\ Len(t) = 3 /\ t[1] = a /\ t[2] = b /\ t[3] = c
    BY <1>1 DEF Tokens
  <2> DEFINE u == <<a>>
  <2>3. u \in Tokens /\ Len(u) = 1 /\ u[1] = a
    BY <1>1 DEF Tokens
  <2> HIDE DEF l, u
  <2> DEFINE v == u \o l
  <2>4. /\ v \in Tokens /\ Len(v) = Len(u) + Len(l)
        /\ \A i \in 1..Len(u) : v[i] = u[i]
        /\ \A i \in 1..Len(l) : v[Len(u) + i] = l[i]
    BY <2>1, <2>3, Concat
  <2> HIDE DEF v
  <2>5. Len(v) = 3 /\ v[1] = a
    BY <2>1, <2>3, <2>4
  <2>6. v[1 + 1] = b /\ v[1 + 2] = c
    <3>1. \A i \in 1..2 : v[1 + i] = l[i]
      BY <2>1, <2>3, <2>4
    <3>2. v[1 + 1] = l[1] /\ v[1 + 2] = l[2]
      BY <3>1
    <3> QED
      BY <2>1, <3>2
  <2>7. v[2] = b /\ v[3] = c
    BY <2>6
  <2>8. \A i \in 1..3 : v[i] = t[i]
    BY <2>2, <2>5, <2>7
  <2>9. v = t
    BY <2>2, <2>4, <2>5, <2>8, SeqEqual DEF Tokens
  <2> QED
    BY <2>9 DEF u, v
<1> HIDE DEF l
<1>5. <<a>> \in Tokens /\ Len(<<a>>) = 1 /\ EncodeLimit(l) \in Tokens
  BY <1>1, <1>2, LimitRead DEF Tokens
<1>6. <<a>> \o EncodeLimit(l) \in Tokens /\ Len(<<a>> \o EncodeLimit(l)) = 1 + Len(EncodeLimit(l))
      /\ Len(EncodeLimit(l)) \in Nat
  BY <1>1, <1>5, ConsTokens
<1>7. ASSUME NEW p, At(file, p, <<a>> \o EncodeLimit(l))
      PROVE  ReadTableType(p) = Read(t, p + (1 + Len(EncodeLimit(l))))
  <2>1. At(file, p + 1, EncodeLimit(l))
    BY <1>1, <1>5, <1>7, ConsAt
  <2>2. p \in Nat /\ Byte(p) = a
    BY <1>1, <1>5, <1>7, ConsAt
  <2>3. ReadLimit(p + 1) = Read(l, (p + 1) + Len(EncodeLimit(l)))
    BY <1>2, <2>1, LimitRead
  <2>4. (p + 1) + Len(EncodeLimit(l)) = p + (1 + Len(EncodeLimit(l)))
    BY <1>6, <2>2
  <2> QED
    <3>1. ReadLimit(p + 1) = Read(l, p + (1 + Len(EncodeLimit(l))))
      BY <2>3, <2>4
    <3>2. ReadTableType(p) = Read(<<Byte(p)>> \o ReadLimit(p + 1).val, ReadLimit(p + 1).pos)
      BY DEF ReadTableType
    <3>3. ReadLimit(p + 1).val = l /\ ReadLimit(p + 1).pos = p + (1 + Len(EncodeLimit(l)))
      BY <3>1 DEF Read
    <3> QED
      BY <1>4, <2>2, <3>2, <3>3
<1> QED
  BY <1>3, <1>6, <1>7

LEMMA GlobalTypeRead ==
  ASSUME NEW t \in GlobalTypes
  PROVE  /\ t \in Tokens /\ Len(t) = 2
         /\ \A p : At(file, p, t) => ReadGlobalType(p) = Read(t, p + 2)
<1>1. PICK a \in Nat, b \in {0, 1} : t = <<a, b>>
  BY DEF GlobalTypes
<1>2. ASSUME NEW p, At(file, p, <<a, b>>)
      PROVE  ReadGlobalType(p) = Read(<<a, b>>, p + 2)
  <2>1. Byte(p) = a /\ Byte(p + 1) = b
    BY <1>2, BytesAt
  <2> QED
    BY <2>1 DEF ReadGlobalType, BoolAt, WasmTrue
<1> QED
  BY <1>1, <1>2 DEF Tokens

(* What each kind of section has for items.                                *)
LEMMA TheItems ==
  /\ ItemsOf(SectionType) = Types
  /\ ItemsOf(SectionImport) = Imports
  /\ ItemsOf(SectionFunction) = Functions
  /\ ItemsOf(SectionTable) = TableTypes
  /\ ItemsOf(SectionMemory) = Limits
  /\ ItemsOf(SectionGlobal) = Globals
  /\ ItemsOf(SectionExport) = Exports
  /\ ItemsOf(SectionStart) = Nat
  /\ ItemsOf(SectionElement) = Segments
  /\ ItemsOf(SectionData) = Segments
  /\ ItemsOf(SectionCode) = {}
BY DEF ItemsOf, SectionType, SectionImport, SectionFunction, SectionTable, SectionMemory, SectionGlobal,
       SectionExport, SectionStart, SectionElement, SectionCode, SectionData

LEMMA ThePlain ==
  /\ \A x : EncodePlain(SectionType, x) = EncodeType(x)
  /\ \A p : ReadPlain(SectionType, p) = ReadFuncType(p)
  /\ \A x : EncodePlain(SectionImport, x) = EncodeImport(x)
  /\ \A p : ReadPlain(SectionImport, p) = ReadImport(p)
  /\ \A x : EncodePlain(SectionFunction, x) = <<x.typeIdx>>
  /\ \A p : ReadPlain(SectionFunction, p) = ReadFunction(p)
  /\ \A x : EncodePlain(SectionTable, x) = EncodeTable(x)
  /\ \A p : ReadPlain(SectionTable, p) = ReadTableType(p)
  /\ \A x : EncodePlain(SectionMemory, x) = EncodeLimit(x)
  /\ \A p : ReadPlain(SectionMemory, p) = ReadLimit(p)
  /\ \A x : EncodePlain(SectionExport, x) = <<x.name, x.type, x.addr>>
  /\ \A p : ReadPlain(SectionExport, p) = ReadExport(p)
<1>1. /\ \A x : EncodePlain(SectionType, x) = EncodeType(x)
      /\ \A p : ReadPlain(SectionType, p) = ReadFuncType(p)
  BY DEF EncodePlain, ReadPlain, SectionType, SectionImport, SectionFunction, SectionTable,
         SectionMemory, SectionExport
<1>2. /\ \A x : EncodePlain(SectionImport, x) = EncodeImport(x)
      /\ \A p : ReadPlain(SectionImport, p) = ReadImport(p)
  BY DEF EncodePlain, ReadPlain, SectionType, SectionImport, SectionFunction, SectionTable,
         SectionMemory, SectionExport
<1>3. /\ \A x : EncodePlain(SectionFunction, x) = <<x.typeIdx>>
      /\ \A p : ReadPlain(SectionFunction, p) = ReadFunction(p)
  BY DEF EncodePlain, ReadPlain, SectionType, SectionImport, SectionFunction, SectionTable,
         SectionMemory, SectionExport
<1>4. /\ \A x : EncodePlain(SectionTable, x) = EncodeTable(x)
      /\ \A p : ReadPlain(SectionTable, p) = ReadTableType(p)
  BY DEF EncodePlain, ReadPlain, SectionType, SectionImport, SectionFunction, SectionTable,
         SectionMemory, SectionExport
<1>5. /\ \A x : EncodePlain(SectionMemory, x) = EncodeLimit(x)
      /\ \A p : ReadPlain(SectionMemory, p) = ReadLimit(p)
  BY DEF EncodePlain, ReadPlain, SectionType, SectionImport, SectionFunction, SectionTable,
         SectionMemory, SectionExport
<1>6. /\ \A x : EncodePlain(SectionExport, x) = <<x.name, x.type, x.addr>>
      /\ \A p : ReadPlain(SectionExport, p) = ReadExport(p)
  BY DEF EncodePlain, ReadPlain, SectionType, SectionImport, SectionFunction, SectionTable,
         SectionMemory, SectionExport
<1> QED
  BY <1>1, <1>2, <1>3, <1>4, <1>5, <1>6, Zenon

Results(t) == IF t.ret = ValueTypeVoid THEN <<>> ELSE <<t.ret>>

LEMMA TypeRead ==
  ASSUME NEW t \in ItemsOf(SectionType)
  PROVE  /\ EncodeType(t) \in Tokens
         /\ \A p : At(file, p, EncodeType(t)) =>
              /\ ReadFuncType(p) = Read(t, p + Len(EncodeType(t)))
              /\ Byte(p + 1) <= MaxParams /\ Byte(ReadVec(p + 1).pos) <= MaxParams
<1>1. /\ t \in [params : Seq(Nat), ret : Nat]
      /\ Len(t.params) <= MaxParams /\ (t.ret # ValueTypeVoid => MaxParams >= 1)
  BY TheItems DEF Types
<1> DEFINE s == t.params
           r == Results(t)
           e == Vec(s) \o Vec(r)
<1>2. s \in Tokens /\ r \in Tokens /\ Len(r) <= MaxParams
  <2>1. MaxParams \in Nat
    BY DecoderAssumption
  <2>2. CASE t.ret = ValueTypeVoid
    <3>1. r = <<>>
      BY <2>2 DEF Results
    <3> QED
      BY <1>1, <2>1, <3>1 DEF Tokens
  <2>3. CASE t.ret # ValueTypeVoid
    <3>1. r = <<t.ret>> /\ t.ret \in Nat
      BY <1>1, <2>3 DEF Results
    <3>2. r \in Tokens /\ Len(r) = 1
      BY <3>1 DEF Tokens
    <3> QED
      BY <1>1, <2>3, <3>2 DEF Tokens
  <2> QED
    BY <2>2, <2>3
<1>3. /\ Vec(s) \in Tokens /\ Len(Vec(s)) = Len(s) + 1 /\ Len(s) \in Nat
      /\ Vec(r) \in Tokens /\ Len(Vec(r)) = Len(r) + 1 /\ Len(r) \in Nat
  BY <1>2, VecTokens
<1>4. e \in Tokens /\ Len(e) = Len(Vec(s)) + Len(Vec(r))
  BY <1>3, Concat
<1>5. EncodeType(t) = <<WasmValueTypeFunc>> \o e
  <2>1. EncodeType(t) = (<<WasmValueTypeFunc>> \o Vec(s)) \o Vec(r)
    BY DEF EncodeType, Results
  <2>2. <<WasmValueTypeFunc>> \in Tokens
    BY DEF WasmValueTypeFunc, Tokens
  <2> QED
    BY <1>3, <2>1, <2>2, Assoc
<1> HIDE DEF s, r, e
<1>6. WasmValueTypeFunc \in Nat
  BY DEF WasmValueTypeFunc
<1>7. EncodeType(t) \in Tokens /\ Len(EncodeType(t)) = Len(e) + 1
  BY <1>4, <1>5, <1>6, ConsTokens
<1>8. ASSUME NEW p, At(file, p, EncodeType(t))
      PROVE  /\ ReadFuncType(p) = Read(t, p + Len(EncodeType(t)))
             /\ Byte(p + 1) <= MaxParams /\ Byte(ReadVec(p + 1).pos) <= MaxParams
  <2> DEFINE q == p + 1
             q2 == q + Len(Vec(s))
  <2>1. p \in Nat /\ At(file, q, e)
    BY <1>4, <1>5, <1>6, <1>8, ConsAt
  <2>2. At(file, q, Vec(s)) /\ At(file, q2, Vec(r))
    BY <1>3, <2>1, AtParts DEF e
  <2> HIDE DEF q, q2
  <2>3. ReadVec(q) = Read(s, q2)
    BY <1>2, <2>2, VecRead DEF q2
  <2>4. ReadVec(q2) = Read(r, q2 + Len(Vec(r)))
    BY <1>2, <2>2, VecRead
  <2>5. Byte(q) = Len(s) /\ Byte(q2) = Len(r)
    <3>1. Byte(q) = Len(s)
      BY <1>2, <1>3, <2>2, ConsAt DEF Vec
    <3>2. Byte(q2) = Len(r)
      BY <1>2, <1>3, <2>2, ConsAt DEF Vec
    <3> QED
      BY <3>1, <3>2
  <2>6. Read(s, q2).val = s /\ Read(s, q2).pos = q2 /\ Read(r, q2 + Len(Vec(r))).val = r
        /\ Read(r, q2 + Len(Vec(r))).pos = q2 + Len(Vec(r))
    BY DEF Read
  <2>7. (IF r = <<>> THEN ValueTypeVoid ELSE r[1]) = t.ret
    BY DEF r, Results
  <2>8. ReadFuncType(p) = Read([params |-> s, ret |-> t.ret], q2 + Len(Vec(r)))
    <3>1. ReadFuncType(p) =
            Read([params |-> ReadVec(q).val,
                  ret |-> IF ReadVec(ReadVec(q).pos).val = <<>> THEN ValueTypeVoid
                          ELSE ReadVec(ReadVec(q).pos).val[1]], ReadVec(ReadVec(q).pos).pos)
      BY Zenon DEF ReadFuncType, q
    <3>2. ReadVec(q).val = s /\ ReadVec(q).pos = q2
      BY <2>3, <2>6
    <3>3. ReadVec(q2).val = r /\ ReadVec(q2).pos = q2 + Len(Vec(r))
      BY <2>4, <2>6
    <3> QED
      BY <2>7, <3>1, <3>2, <3>3
  <2>9. [params |-> s, ret |-> t.ret] = t
    BY <1>1 DEF s
  <2>10. q2 + Len(Vec(r)) = p + Len(EncodeType(t))
    BY <1>3, <1>4, <1>7, <2>1 DEF q, q2
  <2>11. Byte(q) <= MaxParams /\ Byte(ReadVec(q).pos) <= MaxParams
    <3>1. Len(s) <= MaxParams
      BY <1>1 DEF s
    <3> QED
      BY <1>2, <2>3, <2>5, <2>6, <3>1
  <2> QED
    BY <2>8, <2>9, <2>10, <2>11 DEF q
<1> QED
  BY <1>7, <1>8

LEMMA DescRead ==
  ASSUME NEW i, i.type \in 0..3, i.desc \in DescOf(i.type)
  PROVE  /\ EncodeDesc(i) \in Tokens
         /\ \A p : At(file, p, EncodeDesc(i)) =>
              ReadDesc(i.type, p) = Read(i.desc, p + Len(EncodeDesc(i)))
<1>1. CASE i.type = 0
  <2>1. EncodeDesc(i) = i.desc /\ i.desc \in [1..1 -> Nat]
    BY <1>1 DEF EncodeDesc, DescOf
  <2>2. PICK a \in Nat : i.desc = <<a>>
    <3>1. i.desc[1] \in Nat /\ i.desc = <<i.desc[1]>>
      BY <2>1
    <3> QED
      BY <3>1
  <2>3. <<a>> \in Tokens /\ Len(<<a>>) = 1
    BY <2>2 DEF Tokens
  <2>4. ASSUME NEW p, At(file, p, <<a>>)
        PROVE  ReadDesc(0, p) = Read(<<a>>, p + 1)
    <3>1. Byte(p) = a
      BY <2>4, BytesAt
    <3> QED
      BY <3>1 DEF ReadDesc
  <2> QED
    BY <1>1, <2>1, <2>2, <2>3, <2>4
<1>2. CASE i.type = 1
  <2>1. EncodeDesc(i) = EncodeTable(i.desc) /\ i.desc \in TableTypes
    BY <1>2 DEF EncodeDesc, DescOf
  <2>2. \A p : ReadDesc(1, p) = ReadTableType(p)
    BY DEF ReadDesc
  <2> QED
    BY <1>2, <2>1, <2>2, TableRead
<1>3. CASE i.type = 2
  <2>1. EncodeDesc(i) = EncodeLimit(i.desc) /\ i.desc \in Limits
    BY <1>3 DEF EncodeDesc, DescOf
  <2>2. \A p : ReadDesc(2, p) = ReadLimit(p)
    BY DEF ReadDesc
  <2> QED
    BY <1>3, <2>1, <2>2, LimitRead
<1>4. CASE i.type = 3
  <2>1. EncodeDesc(i) = i.desc /\ i.desc \in GlobalTypes
    BY <1>4 DEF EncodeDesc, DescOf
  <2>2. \A p : ReadDesc(3, p) = ReadGlobalType(p)
    BY DEF ReadDesc
  <2> QED
    BY <1>4, <2>1, <2>2, GlobalTypeRead
<1> QED
  BY <1>1, <1>2, <1>3, <1>4

LEMMA ImportRead ==
  ASSUME NEW i \in ItemsOf(SectionImport)
  PROVE  /\ EncodeImport(i) \in Tokens
         /\ \A p : At(file, p, EncodeImport(i)) => ReadImport(p) = Read(i, p + Len(EncodeImport(i)))
<1>1. i \in [module : Nat, name : Nat, type : 0..3, desc : Seq(Nat)] /\ i.desc \in DescOf(i.type)
  BY TheItems DEF Imports
<1> DEFINE h == <<i.module, i.name, i.type>>
           d == EncodeDesc(i)
<1>2. d \in Tokens
  BY <1>1, DescRead
<1>3. h \in Tokens /\ Len(h) = 3
  BY <1>1 DEF Tokens
<1>4. EncodeImport(i) = h \o d
  BY DEF EncodeImport
<1> HIDE DEF h, d
<1>5. h \o d \in Tokens /\ Len(h \o d) = Len(h) + Len(d) /\ Len(d) \in Nat
  BY <1>2, <1>3, Concat
<1>6. ASSUME NEW p, At(file, p, h \o d)
      PROVE  ReadImport(p) = Read(i, p + Len(h \o d))
  <2>1. At(file, p, h) /\ At(file, p + Len(h), d)
    BY <1>2, <1>3, <1>6, AtParts
  <2>2. p \in Nat /\ Byte(p) = i.module /\ Byte(p + 1) = i.name /\ Byte(p + 2) = i.type
    BY <2>1, BytesAt DEF h
  <2>3. At(file, p + 3, d)
    BY <1>3, <2>1
  <2>4. ReadDesc(i.type, p + 3) = Read(i.desc, (p + 3) + Len(d))
    BY <1>1, <2>3, DescRead DEF d
  <2>5. (p + 3) + Len(d) = p + Len(h \o d)
    BY <1>3, <1>5, <2>2
  <2>6. ReadDesc(i.type, p + 3).val = i.desc /\ ReadDesc(i.type, p + 3).pos = p + Len(h \o d)
    BY <2>4, <2>5 DEF Read
  <2>7. [module |-> i.module, name |-> i.name, type |-> i.type, desc |-> i.desc] = i
    BY <1>1
  <2>8. ReadImport(p) =
          Read([module |-> Byte(p), name |-> Byte(p + 1), type |-> Byte(p + 2),
                desc |-> ReadDesc(Byte(p + 2), p + 3).val], ReadDesc(Byte(p + 2), p + 3).pos)
    BY Zenon DEF ReadImport
  <2> QED
    BY <2>2, <2>6, <2>7, <2>8
<1> QED
  BY <1>4, <1>5, <1>6

LEMMA ExportRead ==
  ASSUME NEW x \in ItemsOf(SectionExport)
  PROVE  /\ <<x.name, x.type, x.addr>> \in Tokens
         /\ \A p : At(file, p, <<x.name, x.type, x.addr>>) => ReadExport(p) = Read(x, p + 3)
<1>1. x \in [name : Nat, type : Nat, addr : Nat]
  BY TheItems DEF Exports
<1>2. <<x.name, x.type, x.addr>> \in Tokens
  BY <1>1 DEF Tokens
<1>3. ASSUME NEW p, At(file, p, <<x.name, x.type, x.addr>>)
      PROVE  ReadExport(p) = Read(x, p + 3)
  <2>1. Byte(p) = x.name /\ Byte(p + 1) = x.type /\ Byte(p + 2) = x.addr
    BY <1>3, BytesAt
  <2>2. [name |-> x.name, type |-> x.type, addr |-> x.addr] = x
    BY <1>1
  <2> QED
    BY <2>1, <2>2 DEF ReadExport
<1> QED
  BY <1>2, <1>3

(* A function's code comes later than its type.                            *)
Declared(x) == Func(x.typeIdx, NotRead, <<>>)
AsRead(id, x) == IF id = SectionFunction THEN Declared(x) ELSE x
PlainSections == (SectionType..SectionExport) \ {SectionGlobal}

LEMMA PlainRead ==
  ASSUME NEW id \in PlainSections, NEW x \in ItemsOf(id)
  PROVE  /\ EncodePlain(id, x) \in Tokens
         /\ \A p : At(file, p, EncodePlain(id, x)) =>
              /\ ReadPlain(id, p) = Read(AsRead(id, x), p + Len(EncodePlain(id, x)))
              /\ id = SectionType =>
                   Byte(p + 1) <= MaxParams /\ Byte(ReadVec(p + 1).pos) <= MaxParams
<1>0. SectionFunction \notin {SectionType, SectionImport, SectionTable, SectionMemory, SectionExport}
  BY DEF SectionFunction, SectionType, SectionImport, SectionTable, SectionMemory, SectionExport
<1>8. SectionType \notin {SectionImport, SectionFunction, SectionTable, SectionMemory, SectionExport}
  BY DEF SectionFunction, SectionType, SectionImport, SectionTable, SectionMemory, SectionExport
<1>1. CASE id = SectionType
  <2>1. EncodePlain(id, x) = EncodeType(x) /\ AsRead(id, x) = x
    BY <1>0, <1>1, ThePlain, TheItems DEF AsRead
  <2>2. \A p : ReadPlain(id, p) = ReadFuncType(p)
    BY <1>1, ThePlain
  <2>3. x \in ItemsOf(SectionType)
    BY <1>1
  <2> QED
    BY <2>1, <2>2, <2>3, TypeRead
<1>2. CASE id = SectionImport
  <2>1. EncodePlain(id, x) = EncodeImport(x) /\ AsRead(id, x) = x
    BY <1>0, <1>2, ThePlain, TheItems DEF AsRead
  <2>2. \A p : ReadPlain(id, p) = ReadImport(p)
    BY <1>2, ThePlain
  <2> QED
    BY <1>8, <1>2, <2>1, <2>2, ImportRead
<1>3. CASE id = SectionFunction
  <2>1. EncodePlain(id, x) = <<x.typeIdx>> /\ AsRead(id, x) = Declared(x) /\ x.typeIdx \in Nat
    BY <1>0, <1>3, ThePlain, TheItems DEF AsRead, Functions
  <2>2. \A p : ReadPlain(id, p) = ReadFunction(p)
    BY <1>3, ThePlain
  <2>3. <<x.typeIdx>> \in Tokens /\ Len(<<x.typeIdx>>) = 1
    BY <2>1 DEF Tokens
  <2>4. ASSUME NEW p, At(file, p, <<x.typeIdx>>)
        PROVE  ReadFunction(p) = Read(Declared(x), p + 1)
    BY <2>4, BytesAt DEF ReadFunction, Declared
  <2> QED
    BY <1>8, <1>3, <2>1, <2>2, <2>3, <2>4
<1>4. CASE id = SectionTable
  <2>1. EncodePlain(id, x) = EncodeTable(x) /\ AsRead(id, x) = x /\ x \in TableTypes
    BY <1>0, <1>4, ThePlain, TheItems DEF AsRead
  <2>2. \A p : ReadPlain(id, p) = ReadTableType(p)
    BY <1>4, ThePlain
  <2> QED
    BY <1>8, <1>4, <2>1, <2>2, TableRead
<1>5. CASE id = SectionMemory
  <2>1. EncodePlain(id, x) = EncodeLimit(x) /\ AsRead(id, x) = x /\ x \in Limits
    BY <1>0, <1>5, ThePlain, TheItems DEF AsRead
  <2>2. \A p : ReadPlain(id, p) = ReadLimit(p)
    BY <1>5, ThePlain
  <2> QED
    BY <1>8, <1>5, <2>1, <2>2, LimitRead
<1>6. CASE id = SectionExport
  <2>1. EncodePlain(id, x) = <<x.name, x.type, x.addr>> /\ AsRead(id, x) = x
    BY <1>0, <1>6, ThePlain, TheItems DEF AsRead
  <2>2. \A p : ReadPlain(id, p) = ReadExport(p)
    BY <1>6, ThePlain
  <2>3. Len(<<x.name, x.type, x.addr>>) = 3
    OBVIOUS
  <2> QED
    BY <1>8, <1>6, <2>1, <2>2, <2>3, ExportRead
<1>7. id \in {SectionType, SectionImport, SectionFunction, SectionTable, SectionMemory, SectionExport}
  BY DEF PlainSections, SectionType, SectionImport, SectionFunction, SectionTable, SectionMemory,
         SectionGlobal, SectionExport
<1> QED
  BY <1>1, <1>2, <1>3, <1>4, <1>5, <1>6, <1>7

-----------------------------------------------------------------------------
(* The immediates of instructions.                                         *)
LEMMA BytesFrom ==
  ASSUME NEW s, NEW p \in Nat, At(file, p + 1, s)
  PROVE  \A i \in 1..Len(s) : Byte(p + i) = s[i]
<1>1. Len(s) \in Nat /\ (Len(s) >= 1 => Byte(p + 1) = s[1])
  BY ByteAt
<1>2. \A i \in 1..(Len(s) - 1) : Byte((p + 1) + i) = s[i + 1]
  BY ByteAt
<1>3. ASSUME NEW i \in 1..Len(s)
      PROVE  Byte(p + i) = s[i]
  <2>1. CASE i = 1
    BY <1>1, <2>1
  <2>2. CASE i # 1
    <3> DEFINE j == i - 1
    <3>1. j \in 1..(Len(s) - 1) /\ (p + 1) + j = p + i /\ j + 1 = i
      BY <1>1, <2>2
    <3> HIDE DEF j
    <3>2. Byte((p + 1) + j) = s[j + 1]
      BY <1>2, <3>1
    <3> QED
      BY <3>1, <3>2
  <2> QED
    BY <2>1, <2>2
<1> QED
  BY <1>3

PlainOps == (0..Op_f64_reinterpret_i64) \ (Blocks \cup Reserved \cup {Op_end})
ReadsImm(ins, op) ==
  /\ EncodeImm(ins) \in Tokens
  /\ \A p : At(file, p, EncodeImm(ins)) =>
       /\ Immediates(op, p) = Read(ins.imm, p + Len(EncodeImm(ins)))
       /\ op \in MemorySizes => Byte(p) = WasmZeroByte

LEMMA OneRead ==
  ASSUME NEW ins, NEW op \in PlainOps, ins.op = op, ins.imm \in ImmediatesOf(op),
         op \in OneImmediate, op # Op_call_indirect
  PROVE  ReadsImm(ins, op)
<1>1. ins.imm \in [1..1 -> Nat] /\ EncodeImm(ins) = ins.imm
  BY DEF ImmediatesOf, EncodeImm, OneImmediate, MemorySizes, Op_br, Op_br_if, Op_call, Op_call_indirect,
         Op_br_table, Op_select, Op_set_global, Op_memory_grow, Op_f64_const, Op_i64_store32
<1>2. op \notin MemorySizes /\ \A p : Immediates(op, p) = Read(<<Byte(p)>>, p + 1)
  <2>1. op \notin MemorySizes
    BY DEF OneImmediate, MemorySizes, Op_br, Op_br_if, Op_call, Op_call_indirect, Op_select,
           Op_set_global, Op_memory_grow, Op_f64_const, Op_i64_store32
  <2>2. CASE op \in {Op_br, Op_br_if, Op_call}
    <3>1. /\ op # Op_br_table /\ op # Op_call_indirect /\ op \notin (Op_select + 1)..Op_set_global
          /\ op \notin (Op_set_global + 1)..Op_i64_store32 /\ op \notin (Op_memory_grow + 1)..Op_f64_const
      BY <2>2 DEF Op_br, Op_br_if, Op_call, Op_call_indirect, Op_br_table, Op_select, Op_set_global,
                  Op_memory_grow, Op_f64_const, Op_i64_store32
    <3> QED
      BY <2>1, <2>2, <3>1 DEF Immediates
  <2>3. CASE op \in (Op_select + 1)..Op_set_global
    <3>1. /\ op # Op_br_table /\ op # Op_call_indirect /\ op \notin {Op_br, Op_br_if, Op_call}
          /\ op \notin (Op_set_global + 1)..Op_i64_store32 /\ op \notin (Op_memory_grow + 1)..Op_f64_const
      BY <2>3 DEF Op_br, Op_br_if, Op_call, Op_call_indirect, Op_br_table, Op_select, Op_set_global,
                  Op_memory_grow, Op_f64_const, Op_i64_store32
    <3> QED
      BY <2>1, <2>3, <3>1 DEF Immediates
  <2>4. CASE op \in (Op_memory_grow + 1)..Op_f64_const
    <3>1. /\ op # Op_br_table /\ op # Op_call_indirect /\ op \notin {Op_br, Op_br_if, Op_call}
          /\ op \notin (Op_set_global + 1)..Op_i64_store32 /\ op \notin (Op_select + 1)..Op_set_global
      BY <2>4 DEF Op_br, Op_br_if, Op_call, Op_call_indirect, Op_br_table, Op_select, Op_set_global,
                  Op_memory_grow, Op_f64_const, Op_i64_store32
    <3> QED
      BY <2>1, <2>4, <3>1 DEF Immediates
  <2> QED
    BY <2>1, <2>2, <2>3, <2>4 DEF OneImmediate
<1>3. PICK a \in Nat : ins.imm = <<a>>
  <2>1. ins.imm[1] \in Nat /\ ins.imm = <<ins.imm[1]>>
    BY <1>1
  <2> QED
    BY <2>1
<1>4. <<a>> \in Tokens /\ Len(<<a>>) = 1
  BY <1>3 DEF Tokens
<1>5. \A p : At(file, p, <<a>>) => Byte(p) = a
  BY BytesAt
<1> QED
  BY <1>1, <1>2, <1>3, <1>4, <1>5 DEF ReadsImm

LEMMA TwoRead ==
  ASSUME NEW ins, NEW op \in PlainOps, ins.op = op, ins.imm \in ImmediatesOf(op), op \in TwoImmediates
  PROVE  ReadsImm(ins, op)
<1>1. ins.imm \in [1..2 -> Nat] /\ EncodeImm(ins) = ins.imm
  BY DEF ImmediatesOf, EncodeImm, OneImmediate, TwoImmediates, MemorySizes, Op_br, Op_br_if, Op_call,
         Op_call_indirect, Op_br_table, Op_select, Op_set_global, Op_memory_grow, Op_f64_const,
         Op_i64_store32
<1>2. op \notin MemorySizes /\ \A p : Immediates(op, p) = Read(<<Byte(p), Byte(p + 1)>>, p + 2)
  <2>1. /\ op # Op_br_table /\ op # Op_call_indirect /\ op \notin {Op_br, Op_br_if, Op_call}
        /\ op \notin (Op_select + 1)..Op_set_global /\ op \notin (Op_memory_grow + 1)..Op_f64_const
        /\ op \notin MemorySizes
    BY DEF TwoImmediates, MemorySizes, Op_br, Op_br_if, Op_call, Op_call_indirect, Op_br_table,
           Op_select, Op_set_global, Op_memory_grow, Op_f64_const, Op_i64_store32
  <2> QED
    BY <2>1 DEF Immediates, TwoImmediates
<1>3. PICK a \in Nat, b \in Nat : ins.imm = <<a, b>>
  <2>1. ins.imm[1] \in Nat /\ ins.imm[2] \in Nat /\ ins.imm = <<ins.imm[1], ins.imm[2]>>
    BY <1>1
  <2> QED
    BY <2>1
<1>4. <<a, b>> \in Tokens /\ Len(<<a, b>>) = 2
  BY <1>3 DEF Tokens
<1>5. \A p : At(file, p, <<a, b>>) => Byte(p) = a /\ Byte(p + 1) = b
  BY BytesAt
<1> QED
  BY <1>1, <1>2, <1>3, <1>4, <1>5 DEF ReadsImm

LEMMA IndirectRead ==
  ASSUME NEW ins, NEW op, ins.op = op, ins.imm \in ImmediatesOf(op), op = Op_call_indirect
  PROVE  ReadsImm(ins, op)
<1>1. ins.imm \in [1..1 -> Nat] /\ EncodeImm(ins) = ins.imm \o <<WasmZeroByte>>
  BY DEF ImmediatesOf, EncodeImm, OneImmediate, Op_br_table, Op_call_indirect
<1>2. op \notin MemorySizes /\ \A p : Immediates(op, p) = Read(<<Byte(p)>>, p + 2)
  <2>1. /\ op # Op_br_table /\ op \notin {Op_br, Op_br_if, Op_call}
        /\ op \notin (Op_select + 1)..Op_set_global /\ op \notin (Op_memory_grow + 1)..Op_f64_const
        /\ op \notin (Op_set_global + 1)..Op_i64_store32 /\ op \notin MemorySizes
    BY DEF MemorySizes, Op_br, Op_br_if, Op_call, Op_call_indirect, Op_br_table,
           Op_select, Op_set_global, Op_memory_grow, Op_f64_const, Op_i64_store32
  <2> QED
    BY <2>1 DEF Immediates
<1>3. PICK a \in Nat : ins.imm = <<a>>
  <2>1. ins.imm[1] \in Nat /\ ins.imm = <<ins.imm[1]>>
    BY <1>1
  <2> QED
    BY <2>1
<1> DEFINE t == <<WasmZeroByte>>
<1>4. t \in Tokens /\ Len(t) = 1
  BY DEF Tokens, WasmZeroByte
<1> HIDE DEF t
<1>5. <<a>> \o t \in Tokens /\ Len(<<a>> \o t) = 2
  <2>1. <<a>> \o t \in Tokens /\ Len(<<a>> \o t) = Len(t) + 1
    BY <1>4, ConsTokens
  <2> QED
    BY <1>4, <2>1
<1>6. \A p : At(file, p, <<a>> \o t) => Byte(p) = a
  BY <1>4, ConsAt
<1> QED
  BY <1>1, <1>2, <1>3, <1>5, <1>6 DEF ReadsImm, t

LEMMA TableOfLabelsRead ==
  ASSUME NEW ins, NEW op, ins.op = op, ins.imm \in ImmediatesOf(op), op = Op_br_table
  PROVE  ReadsImm(ins, op)
<1> DEFINE s == ins.imm
           n == Len(s)
<1>1. s \in Seq(Nat) \ {<<>>} /\ EncodeImm(ins) = <<n - 1>> \o s
  BY DEF ImmediatesOf, EncodeImm
<1>2. op \notin MemorySizes
      /\ \A p : Immediates(op, p) = Read(Append(ReadVec(p).val, Byte(ReadVec(p).pos)), ReadVec(p).pos + 1)
  <2>1. /\ op # Op_call_indirect /\ op \notin {Op_br, Op_br_if, Op_call}
        /\ op \notin (Op_select + 1)..Op_set_global /\ op \notin (Op_memory_grow + 1)..Op_f64_const
        /\ op \notin (Op_set_global + 1)..Op_i64_store32 /\ op \notin MemorySizes
    BY DEF MemorySizes, Op_br, Op_br_if, Op_call, Op_call_indirect, Op_br_table,
           Op_select, Op_set_global, Op_memory_grow, Op_f64_const, Op_i64_store32
  <2> QED
    BY <2>1 DEF Immediates
<1>3. n \in Nat \ {0} /\ n - 1 \in Nat /\ s \in Tokens
  <2>1. n \in Nat \ {0}
    BY <1>1, EmptySeq
  <2> QED
    BY <1>1, <2>1 DEF Tokens
<1> HIDE DEF s
<1>4. <<n - 1>> \o s \in Tokens /\ Len(<<n - 1>> \o s) = n + 1
  BY <1>3, ConsTokens
<1>5. ASSUME NEW p, At(file, p, <<n - 1>> \o s)
      PROVE  Immediates(op, p) = Read(s, p + (n + 1))
  <2>1. p \in Nat /\ Byte(p) = n - 1 /\ At(file, p + 1, s)
    BY <1>3, <1>5, ConsAt
  <2>2. \A i \in 1..n : Byte(p + i) = s[i]
    BY <2>1, BytesFrom
  <2> DEFINE v == [i \in 1..(n - 1) |-> Byte(p + i)]
             t == [i \in 1..(n - 1) |-> s[i]]
  <2>3. v = t
    BY <1>3, <2>2
  <2>4. ReadVec(p).val = v /\ ReadVec(p).pos = p + n
    <3>1. p + 1 + (n - 1) = p + n
      BY <1>3, <2>1
    <3> QED
      BY <2>1, <3>1 DEF ReadVec, Read
  <2>5. s[n] \in Nat /\ \A i \in 1..(n - 1) : s[i] \in Nat
    BY <1>3, ElementOfSeq DEF Tokens
  <2>6. t \in Seq(Nat) /\ Len(t) = n - 1 /\ \A i \in 1..(n - 1) : t[i] = s[i]
    BY <1>3, <2>5
  <2> HIDE DEF t, v
  <2>7. Append(t, s[n]) = s
    <3> DEFINE u == Append(t, s[n])
    <3>1. /\ u \in Seq(Nat) /\ Len(u) = Len(t) + 1 /\ u[Len(t) + 1] = s[n]
          /\ \A i \in 1..Len(t) : u[i] = t[i]
      BY <2>5, <2>6, AppendProperties
    <3> HIDE DEF u
    <3>2. Len(u) = n /\ u[n] = s[n] /\ \A i \in 1..(n - 1) : u[i] = s[i]
      BY <1>3, <2>6, <3>1
    <3>3. \A i \in 1..n : u[i] = s[i]
      <4> SUFFICES ASSUME NEW i \in 1..n PROVE u[i] = s[i]
        OBVIOUS
      <4>1. CASE i = n
        BY <3>2, <4>1
      <4>2. CASE i # n
        <5>1. i \in 1..(n - 1)
          BY <1>3, <4>2
        <5> QED
          BY <3>2, <5>1
      <4> QED
        BY <4>1, <4>2
    <3>4. s \in Seq(Nat)
      BY <1>3 DEF Tokens
    <3>5. u = s
      BY <3>1, <3>2, <3>3, <3>4, SeqEqual
    <3> QED
      BY <3>5 DEF u
  <2>8. Byte(p + n) = s[n]
    BY <1>3, <2>2
  <2>9. (p + n) + 1 = p + (n + 1)
    BY <1>3, <2>1
  <2> QED
    BY <1>2, <2>3, <2>4, <2>7, <2>8, <2>9
<1> QED
  BY <1>1, <1>2, <1>4, <1>5 DEF ReadsImm, s

LEMMA OtherRead ==
  ASSUME NEW ins, NEW op \in PlainOps, ins.op = op, ins.imm \in ImmediatesOf(op),
         op \notin OneImmediate, op \notin TwoImmediates, op # Op_br_table
  PROVE  ReadsImm(ins, op)
<1>1. ins.imm = <<>> /\ op # Op_call_indirect
  BY DEF ImmediatesOf, OneImmediate
<1>2. CASE op \in MemorySizes
  <2> DEFINE t == <<WasmZeroByte>>
  <2>1. t \in Tokens /\ Len(t) = 1
    BY DEF Tokens, WasmZeroByte
  <2>2. EncodeImm(ins) = t
    BY <1>1, <1>2 DEF EncodeImm
  <2>3. \A p : Immediates(op, p) = Read(<<>>, p + 1)
    BY <1>2 DEF Immediates, MemorySizes, Op_br, Op_br_if, Op_call, Op_call_indirect, Op_br_table,
         Op_i64_store32, Op_memory_grow, Op_select, Op_set_global
  <2>4. \A p : At(file, p, t) => Byte(p) = WasmZeroByte
    BY BytesAt
  <2> HIDE DEF t
  <2> QED
    BY <1>1, <2>1, <2>2, <2>3, <2>4 DEF ReadsImm
<1>3. CASE op \notin MemorySizes
  <2>1. EncodeImm(ins) = <<>> /\ <<>> \in Tokens /\ Len(<<>>) = 0
    BY <1>1, <1>3 DEF EncodeImm, Tokens
  <2>2. \A p : Immediates(op, p) = Read(<<>>, p)
    BY <1>1, <1>3 DEF Immediates, OneImmediate, TwoImmediates
  <2>3. \A p : At(file, p, <<>>) => p + 0 = p
    BY DEF At
  <2> QED
    BY <1>1, <1>3, <2>1, <2>2, <2>3 DEF ReadsImm
<1> QED
  BY <1>2, <1>3

LEMMA ImmRead ==
  ASSUME NEW ins, NEW op \in PlainOps, ins.op = op, ins.imm \in ImmediatesOf(op)
  PROVE  ReadsImm(ins, op)
BY OneRead, TwoRead, IndirectRead, TableOfLabelsRead, OtherRead

-----------------------------------------------------------------------------
(* The locals of a function.  FoldLeft adds them up by their positions.    *)
Summed(f, s) ==
  f = [t \in SUBSET DOMAIN s |-> IF t = {} THEN 0 ELSE f[t \ {Max(t)}] + s[Max(t)]]

LEMMA FoldIsSummed ==
  ASSUME NEW s
  PROVE  FoldLeft(+, 0, s) = (CHOOSE f : Summed(f, s))[DOMAIN s]
BY Zenon DEF FoldLeft, MapThenFoldSet, Summed

LEMMA MaxOf ==
  ASSUME NEW t, NEW x \in t, t \subseteq Nat, \A y \in t : y <= x
  PROVE  Max(t) = x
<1>1. \A y \in t : x >= y
  OBVIOUS
<1>2. \A z \in t : (\A y \in t : z >= y) => z = x
  OBVIOUS
<1> QED
  BY <1>1, <1>2 DEF Max

LEMMA SumTwo ==
  ASSUME NEW s, DOMAIN s = {1, 2}, s[1] \in Nat, s[2] \in Nat
  PROVE  /\ \E f : Summed(f, s)
         /\ \A f : Summed(f, s) => f[{1, 2}] = s[1] + s[2]
<1>1. Max({1}) = 1 /\ Max({2}) = 2 /\ Max({1, 2}) = 2
  <2>1. Max({1}) = 1
    BY MaxOf
  <2>2. Max({2}) = 2
    BY MaxOf
  <2>3. Max({1, 2}) = 2
    BY MaxOf
  <2> QED
    BY <2>1, <2>2, <2>3
<1>2. SUBSET {1, 2} = {{}, {1}, {2}, {1, 2}} /\ {1} # {} /\ {2} # {} /\ {1, 2} # {}
  /\ {1} \ {1} = {} /\ {2} \ {2} = {} /\ {1, 2} \ {2} = {1}
  OBVIOUS
<1> DEFINE g == [t \in SUBSET {1, 2} |-> IF t = {} THEN 0 ELSE IF t = {1} THEN s[1] ELSE IF t = {2} THEN s[2] ELSE s[1] + s[2]]
<1>6. {} \in SUBSET {1, 2} /\ {1} \in SUBSET {1, 2} /\ {2} \in SUBSET {1, 2} /\ {1, 2} \in SUBSET {1, 2}
      /\ {1} # {2} /\ {1} # {1, 2} /\ {2} # {1, 2}
  OBVIOUS
<1>7. g[{}] = 0 /\ g[{1}] = s[1] /\ g[{2}] = s[2] /\ g[{1, 2}] = s[1] + s[2]
  BY <1>2, <1>6
<1>3. \A t \in SUBSET {1, 2} : g[t] = IF t = {} THEN 0 ELSE g[t \ {Max(t)}] + s[Max(t)]
  <2> SUFFICES ASSUME NEW t \in SUBSET {1, 2}
               PROVE  g[t] = IF t = {} THEN 0 ELSE g[t \ {Max(t)}] + s[Max(t)]
    OBVIOUS
  <2> HIDE DEF g
  <2>1. CASE t = {}
    BY <1>7, <2>1
  <2>2. CASE t = {1}
    <3>1. t \ {Max(t)} = {} /\ Max(t) = 1
      BY <1>1, <1>2, <2>2
    <3>2. g[t \ {Max(t)}] = 0
      BY <1>7, <3>1
    <3>3. g[t] = s[1]
      BY <1>7, <2>2
    <3> QED
      BY <1>2, <2>2, <3>1, <3>2, <3>3
  <2>3. CASE t = {2}
    <3>1. t \ {Max(t)} = {} /\ Max(t) = 2
      BY <1>1, <1>2, <2>3
    <3>2. g[t \ {Max(t)}] = 0
      BY <1>7, <3>1
    <3>3. g[t] = s[2]
      BY <1>7, <2>3
    <3> QED
      BY <1>2, <2>3, <3>1, <3>2, <3>3
  <2>4. CASE t = {1, 2}
    <3>1. t \ {Max(t)} = {1} /\ Max(t) = 2
      BY <1>1, <1>2, <2>4
    <3>2. g[t \ {Max(t)}] = s[1]
      BY <1>7, <3>1
    <3>3. g[t] = s[1] + s[2]
      BY <1>7, <2>4
    <3> QED
      BY <1>2, <2>4, <3>1, <3>2, <3>3
  <2> QED
    BY <1>2, <2>1, <2>2, <2>3, <2>4
<1>4. Summed(g, s)
  BY <1>3, Zenon DEF Summed
<1>5. ASSUME NEW f, Summed(f, s)
      PROVE  f[{1, 2}] = s[1] + s[2]
  <2>1. \A t \in SUBSET {1, 2} : f[t] = IF t = {} THEN 0 ELSE f[t \ {Max(t)}] + s[Max(t)]
    BY <1>5, Zenon DEF Summed
  <2>2. f[{}] = 0
    BY <2>1
  <2>3. f[{1}] = f[{}] + s[1]
    <3>1. f[{1}] = IF {1} = {} THEN 0 ELSE f[{1} \ {Max({1})}] + s[Max({1})]
      BY <1>6, <2>1
    <3>2. {1} \ {Max({1})} = {}
      BY <1>1, <1>2
    <3> QED
      BY <1>1, <1>2, <3>1, <3>2
  <2>4. f[{1, 2}] = f[{1}] + s[2]
    <3>1. f[{1, 2}] = IF {1, 2} = {} THEN 0 ELSE f[{1, 2} \ {Max({1, 2})}] + s[Max({1, 2})]
      BY <1>6, <2>1
    <3>2. {1, 2} \ {Max({1, 2})} = {1}
      BY <1>1, <1>2
    <3> QED
      BY <1>1, <1>2, <3>1, <3>2
  <2> QED
    BY <2>2, <2>3, <2>4
<1> QED
  BY <1>4, <1>5

LEMMA LocalsRead ==
  ASSUME NEW n \in Nat, NEW size \in Nat
  PROVE  /\ <<size>> \o EncodeLocals(n) \in Tokens
         /\ \A p : At(file, p, <<size>> \o EncodeLocals(n)) =>
              ReadLocals(p) = Read(<<n>>, p + Len(<<size>> \o EncodeLocals(n)))
<1> DEFINE e == EncodeLocals(n)
           s(p) == [i \in 1..Byte(p + 1) |-> Byte(p + 2 * i)]
<1>0. \A p : ReadLocals(p) = Read(<<FoldLeft(+, 0, s(p))>>, p + 2 + 2 * Byte(p + 1))
  BY DEF ReadLocals, LocalCount
<1>1. CASE n = 0
  <2>1. e = <<0>>
    BY <1>1 DEF EncodeLocals
  <2>2. e \in Tokens /\ Len(e) = 1
    BY <2>1 DEF Tokens
  <2> HIDE DEF e
  <2>3. <<size>> \o e \in Tokens /\ Len(<<size>> \o e) = 2
    <3>1. <<size>> \o e \in Tokens /\ Len(<<size>> \o e) = Len(e) + 1
      BY <2>2, ConsTokens
    <3> QED
      BY <2>2, <3>1
  <2>4. ASSUME NEW p, At(file, p, <<size>> \o e)
        PROVE  ReadLocals(p) = Read(<<0>>, p + 2)
    <3>1. p \in Nat /\ At(file, p + 1, e)
      BY <2>2, <2>4, ConsAt
    <3>2. Byte(p + 1) = 0
      BY <2>1, <3>1, BytesAt
    <3>3. DOMAIN s(p) = {}
      BY <3>2
    <3> DEFINE t == s(p)
    <3> HIDE DEF t
    <3>4. FoldLeft(+, 0, t) = 0
      <4>1. DOMAIN t = {}
        BY <3>3 DEF t
      <4> DEFINE f == [u \in SUBSET DOMAIN t |-> 0]
      <4>2. Summed(f, t)
        <5>1. \A u \in SUBSET DOMAIN t :
                f[u] = IF u = {} THEN 0 ELSE f[u \ {Max(u)}] + t[Max(u)]
          BY <4>1
        <5> QED
          BY <5>1, Zenon DEF Summed
      <4> DEFINE g == CHOOSE h : Summed(h, t)
      <4>3. Summed(g, t)
        BY <4>2, Zenon
      <4> HIDE DEF g
      <4>4. g[{}] = 0
        BY <4>1, <4>3, Zenon DEF Summed
      <4> QED
        BY <4>1, <4>4, FoldIsSummed DEF g
    <3>5. p + 2 + 2 * 0 = p + 2
      BY <3>1
    <3> QED
      BY <1>0, <3>2, <3>4, <3>5 DEF t
  <2> QED
    BY <1>1, <2>3, <2>4 DEF e
<1>2. CASE n # 0
  <2>1. e = <<2, n - 1, 127, 1, 126>>
    BY <1>2 DEF EncodeLocals
  <2>2. e \in Tokens /\ Len(e) = 5 /\ e[1] = 2 /\ e[2] = n - 1 /\ e[4] = 1
    BY <1>2, <2>1 DEF Tokens
  <2> HIDE DEF e
  <2>3. <<size>> \o e \in Tokens /\ Len(<<size>> \o e) = 6
    <3>1. <<size>> \o e \in Tokens /\ Len(<<size>> \o e) = Len(e) + 1
      BY <2>2, ConsTokens
    <3> QED
      BY <2>2, <3>1
  <2>4. ASSUME NEW p, At(file, p, <<size>> \o e)
        PROVE  ReadLocals(p) = Read(<<n>>, p + 6)
    <3>1. p \in Nat /\ At(file, p + 1, e)
      BY <2>2, <2>4, ConsAt
    <3>2. \A i \in 1..5 : Byte(p + i) = e[i]
      BY <2>2, <3>1, BytesFrom
    <3>3. Byte(p + 1) = 2 /\ Byte(p + 2) = n - 1 /\ Byte(p + 4) = 1
      BY <2>2, <3>2
    <3> DEFINE t == s(p)
    <3>4. DOMAIN t = {1, 2} /\ t[1] = n - 1 /\ t[2] = 1
      <4>1. DOMAIN t = 1..2
        BY <3>3
      <4>2. 1..2 = {1, 2}
        OBVIOUS
      <4>3. t[1] = Byte(p + 2 * 1) /\ t[2] = Byte(p + 2 * 2)
        BY <3>3
      <4>4. p + 2 * 1 = p + 2 /\ p + 2 * 2 = p + 4
        BY <3>1
      <4> QED
        BY <3>3, <4>1, <4>2, <4>3, <4>4
    <3> HIDE DEF t
    <3>5. FoldLeft(+, 0, t) = n
      <4> DEFINE g == CHOOSE h : Summed(h, t)
      <4>1. t[1] \in Nat /\ t[2] \in Nat /\ t[1] + t[2] = n
        BY <1>2, <3>4
      <4>2. Summed(g, t)
        BY <3>4, <4>1, SumTwo, Zenon
      <4> HIDE DEF g
      <4>3. g[{1, 2}] = t[1] + t[2]
        BY <3>4, <4>1, <4>2, SumTwo
      <4> QED
        BY <3>4, <4>1, <4>3, FoldIsSummed DEF g
    <3>6. p + 2 + 2 * 2 = p + 6
      BY <3>1
    <3> QED
      BY <1>0, <3>3, <3>5, <3>6 DEF t
  <2> QED
    BY <1>2, <2>3, <2>4 DEF e
<1> QED
  BY <1>1, <1>2

-----------------------------------------------------------------------------
(* What is spelled.                                                        *)
SpellUpTo(g, n) == g = [d \in 0..n |-> IF d = 0 THEN <<>> ELSE Spelling(d, g[d - 1])]

LEMMA SpellUpToExists == \A n \in Nat : \E g : SpellUpTo(g, n)
<1> DEFINE S == {n \in Nat : \E g : SpellUpTo(g, n)}
<1>1. 0 \in S
  <2>1. SpellUpTo([d \in 0..0 |-> <<>>], 0)
    BY DEF SpellUpTo
  <2> QED
    BY <2>1
<1>2. ASSUME NEW n \in Nat, n \in S PROVE n + 1 \in S
  <2>1. PICK g : SpellUpTo(g, n)
    BY <1>2
  <2> DEFINE h == [d \in 0..(n + 1) |-> IF d = 0 THEN <<>> ELSE Spelling(d, g[d - 1])]
  <2>2. \A d \in 0..n : h[d] = g[d]
    <3>1. \A d \in 0..n : g[d] = IF d = 0 THEN <<>> ELSE Spelling(d, g[d - 1])
      BY <2>1, Zenon DEF SpellUpTo
    <3>2. \A d \in 0..n : d \in 0..(n + 1)
      OBVIOUS
    <3> QED
      BY <3>1, <3>2, Zenon
  <2>3. \A d \in 0..(n + 1) : d # 0 => d - 1 \in 0..n
    OBVIOUS
  <2>4. \A d \in 0..(n + 1) : h[d] = IF d = 0 THEN <<>> ELSE Spelling(d, h[d - 1])
    <3>1. \A d \in 0..(n + 1) : h[d] = IF d = 0 THEN <<>> ELSE Spelling(d, g[d - 1])
      BY Zenon
    <3> HIDE DEF h
    <3> QED
      BY <2>2, <2>3, <3>1, Zenon
  <2>5. h = [d \in 0..(n + 1) |-> h[d]]
    BY Zenon
  <2> HIDE DEF h
  <2>6. SpellUpTo(h, n + 1)
    BY <2>4, <2>5, Zenon DEF SpellUpTo
  <2> QED
    BY <2>6
<1> HIDE DEF S
<1>3. \A n \in Nat : n \in S
  BY <1>1, <1>2, NatSetInduction
<1> QED
  BY <1>3 DEF S

LEMMA SpellUpToUnique ==
  \A n \in Nat : \A m, k \in Nat : \A g, h :
    n <= m /\ n <= k /\ SpellUpTo(g, m) /\ SpellUpTo(h, k) => g[n] = h[n]
<1> DEFINE S == {n \in Nat : \A m, k \in Nat : \A g, h :
                  n <= m /\ n <= k /\ SpellUpTo(g, m) /\ SpellUpTo(h, k) => g[n] = h[n]}
<1>1. \A m \in Nat : \A n \in 0..m : \A g :
        SpellUpTo(g, m) => g[n] = IF n = 0 THEN <<>> ELSE Spelling(n, g[n - 1])
  BY Zenon DEF SpellUpTo
<1>2. 0 \in S
  <2>1. \A m \in Nat : 0 \in 0..m
    OBVIOUS
  <2> QED
    BY <1>1, <2>1
<1>3. ASSUME NEW n \in Nat, n \in S PROVE n + 1 \in S
  <2>1. SUFFICES ASSUME NEW m \in Nat, NEW k \in Nat, NEW g, NEW h, n + 1 <= m, n + 1 <= k,
                        SpellUpTo(g, m), SpellUpTo(h, k)
                 PROVE  g[n + 1] = h[n + 1]
    OBVIOUS
  <2>2. n + 1 \in 0..m /\ n + 1 \in 0..k /\ n <= m /\ n <= k /\ n + 1 # 0 /\ (n + 1) - 1 = n
    BY <2>1
  <2>3. g[n] = h[n]
    BY <1>3, <2>1, <2>2
  <2>4. g[n + 1] = Spelling(n + 1, g[n]) /\ h[n + 1] = Spelling(n + 1, h[n])
    BY <1>1, <2>1, <2>2
  <2> QED
    BY <2>3, <2>4
<1> HIDE DEF S
<1>4. \A n \in Nat : n \in S
  BY <1>2, <1>3, NatSetInduction
<1> QED
  BY <1>4 DEF S

LEMMA SpellDef ==
  \A d \in Nat : Spell[d] = IF d = 0 THEN <<>> ELSE Spelling(d, Spell[d - 1])
<1> DEFINE upTo(n) == CHOOSE g : SpellUpTo(g, n)
           f == [d \in Nat |-> upTo(d)[d]]
<1>1. \A n \in Nat : SpellUpTo(upTo(n), n)
  BY SpellUpToExists
<1>2. ASSUME NEW d \in Nat PROVE f[d] = IF d = 0 THEN <<>> ELSE Spelling(d, f[d - 1])
  <2> HIDE DEF upTo
  <2>1. d \in 0..d
    OBVIOUS
  <2>2. upTo(d)[d] = IF d = 0 THEN <<>> ELSE Spelling(d, upTo(d)[d - 1])
    BY <1>1, <2>1, Zenon DEF SpellUpTo
  <2>3. CASE d = 0
    BY <2>2, <2>3
  <2>4. CASE d # 0
    <3>1. d - 1 \in Nat /\ d - 1 <= d /\ d - 1 <= d - 1
      BY <2>4
    <3>2. upTo(d)[d - 1] = upTo(d - 1)[d - 1]
      BY <1>1, <3>1, SpellUpToUnique
    <3>3. f[d - 1] = upTo(d - 1)[d - 1] /\ f[d] = upTo(d)[d]
      BY <3>1
    <3> HIDE DEF f
    <3> QED
      BY <2>2, <2>4, <3>2, <3>3
  <2> QED
    BY <2>3, <2>4
<1>3. f = [d \in Nat |-> f[d]]
  <2> HIDE DEF upTo
  <2> QED
    OBVIOUS
<1> HIDE DEF f
<1>4. f = [d \in Nat |-> IF d = 0 THEN <<>> ELSE Spelling(d, f[d - 1])]
  BY <1>2, <1>3, Zenon
<1>5. Spell = [d \in Nat |-> IF d = 0 THEN <<>> ELSE Spelling(d, Spell[d - 1])]
  BY <1>4, Zenon DEF Spell
<1> QED
  BY <1>5, Zenon

LEMMA InSpell ==
  ASSUME NEW d \in Nat, NEW codes
  PROVE  /\ DOMAIN Spell[0] = {}
         /\ codes \in DOMAIN Spell[d + 1] <=> codes \in Lists(d + 1, DOMAIN Spell[d])
         /\ codes \in DOMAIN Spell[d + 1] => Spell[d + 1][codes] = EncodeList(codes, Spell[d])
<1>1. d + 1 \in Nat /\ d + 1 # 0 /\ (d + 1) - 1 = d
  OBVIOUS
<1>2. Spell[d + 1] = Spelling(d + 1, Spell[d])
  BY <1>1, SpellDef, Zenon
<1>3. Spell[0] = <<>>
  BY SpellDef
<1>4. DOMAIN Spell[0] = {}
  BY <1>3
<1>5. /\ codes \in DOMAIN Spell[d + 1] <=> codes \in Lists(d + 1, DOMAIN Spell[d])
      /\ codes \in DOMAIN Spell[d + 1] => Spell[d + 1][codes] = EncodeList(codes, Spell[d])
  BY <1>2, Zenon DEF Spelling
<1> QED
  BY <1>4, <1>5

(* A list is the encodings of its instructions, one after the other.       *)
Enc(codes, d) == [i \in DOMAIN codes |-> EncodeInstr(codes[i], Spell[d])]
Spelled(d) == \A codes \in DOMAIN Spell[d] : Spell[d][codes] \in Tokens

LEMMA InstrTokens ==
  ASSUME NEW d \in Nat, Spelled(d), NEW ins \in Instrs(Ended[d]),
         InstrOf(ins, DOMAIN Spell[d]) \/ ins = EndInstr
  PROVE  EncodeInstr(ins, Spell[d]) \in Tokens
<1>1. ins.op \in Nat /\ ins.type \in Nat
  BY DEF Instrs
<1>2. CASE ins.op \in Blocks
  <2>1. Source(ins) \in DOMAIN Spell[d]
    <3>1. ins # EndInstr
      BY <1>2 DEF EndInstr, Instr, Blocks, Op_block, Op_if, Op_end
    <3> QED
      BY <1>2, <3>1 DEF InstrOf
  <2> DEFINE h == <<ins.op, ins.type>>
             t == Spell[d][Source(ins)]
  <2>2. h \in Tokens /\ t \in Tokens
    BY <1>1, <2>1 DEF Spelled, Tokens
  <2>3. EncodeInstr(ins, Spell[d]) = h \o t
    BY <1>2 DEF EncodeInstr
  <2> HIDE DEF h, t
  <2> QED
    BY <2>2, <2>3, Concat
<1>3. CASE ins.op \notin Blocks
  <2> DEFINE t == EncodeImm(ins)
             op == ins.op
  <2>1. t \in Tokens
    <3>1. CASE ins = EndInstr
      <4>1. op = Op_end /\ ins.imm = <<>>
        BY <3>1 DEF EndInstr, Instr
      <4>2. t = <<>>
        BY <4>1
        DEF EncodeImm, Op_end, Op_br_table, Op_call_indirect, MemorySizes, Op_i64_store32, Op_memory_grow
      <4> QED
        BY <4>2 DEF Tokens
    <3>2. CASE InstrOf(ins, DOMAIN Spell[d])
      <4>1. op \in PlainOps /\ ins.imm \in ImmediatesOf(op)
        BY <1>3, <3>2 DEF InstrOf, PlainOps
      <4>2. ReadsImm(ins, op)
        BY <4>1, ImmRead
      <4> QED
        BY <4>2 DEF ReadsImm
    <3> QED
      BY <3>1, <3>2
  <2>2. EncodeInstr(ins, Spell[d]) = <<op>> \o t
    BY <1>3 DEF EncodeInstr
  <2> HIDE DEF op, t
  <2>3. op \in Nat
    BY <1>1 DEF op
  <2> QED
    BY <2>1, <2>2, <2>3, ConsTokens
<1> QED
  BY <1>2, <1>3

LEMMA EndEncoded == \A spell : EncodeInstr(EndInstr, spell) = <<Op_end>>
<1>1. EndInstr.op = Op_end /\ EndInstr.imm = <<>>
  BY DEF EndInstr, Instr
<1>2. EncodeImm(EndInstr) = <<>> /\ Op_end \notin Blocks
  BY <1>1
  DEF EncodeImm, Op_end, Op_br_table, Op_call_indirect, MemorySizes, Op_i64_store32, Op_memory_grow,
      Blocks, Op_block, Op_if
<1>3. <<Op_end>> \o <<>> = <<Op_end>>
  OBVIOUS
<1> QED
  BY <1>1, <1>2, <1>3 DEF EncodeInstr

LEMMA ListSpelled ==
  ASSUME NEW d \in Nat, Spelled(d), NEW codes \in DOMAIN Spell[d + 1]
  PROVE  /\ codes \in Seq(Instrs(Ended[d])) /\ Len(codes) \in Nat \ {0} /\ Len(codes) <= d
         /\ codes \in Ended[d + 1] /\ codes[Len(codes)] = EndInstr
         /\ \A i \in 1..(Len(codes) - 1) : InstrOf(codes[i], DOMAIN Spell[d])
         /\ Enc(codes, d) \in Seq(Tokens) /\ Len(Enc(codes, d)) = Len(codes)
         /\ \A i \in 1..Len(codes) : Enc(codes, d)[i] = EncodeInstr(codes[i], Spell[d])
         /\ Spell[d + 1][codes] = FlattenSeq(Enc(codes, d))
         /\ Spell[d + 1][codes] \in Tokens
<1>1. /\ codes \in Ended[d + 1] /\ Len(codes) < d + 1
      /\ \A i \in 1..(Len(codes) - 1) : InstrOf(codes[i], DOMAIN Spell[d])
  BY InSpell DEF Lists
<1>2. /\ codes \in Seq(Instrs(Ended[d])) /\ codes # <<>> /\ codes[Len(codes)] = EndInstr
  BY <1>1, InEnded
<1>3. Len(codes) \in Nat \ {0} /\ DOMAIN codes = 1..Len(codes) /\ Len(codes) <= d
  <2>1. Len(codes) \in Nat \ {0} /\ DOMAIN codes = 1..Len(codes)
    BY <1>2, EmptySeq, LenProperties
  <2> QED
    BY <1>1, <2>1
<1>4. ASSUME NEW i \in 1..Len(codes)
      PROVE  EncodeInstr(codes[i], Spell[d]) \in Tokens
  <2>1. codes[i] \in Instrs(Ended[d])
    BY <1>2, ElementOfSeq
  <2>2. InstrOf(codes[i], DOMAIN Spell[d]) \/ codes[i] = EndInstr
    <3>1. i = Len(codes) \/ i \in 1..(Len(codes) - 1)
      BY <1>3
    <3> QED
      BY <1>1, <1>2, <3>1
  <2> QED
    BY <2>1, <2>2, InstrTokens
<1> DEFINE e == Enc(codes, d)
<1>5. DOMAIN e = 1..Len(codes) /\ e = [i \in 1..Len(codes) |-> EncodeInstr(codes[i], Spell[d])]
  BY <1>3 DEF Enc
<1>6. \A i \in 1..Len(codes) : e[i] = EncodeInstr(codes[i], Spell[d])
  BY <1>5, Zenon
<1>7. e \in [1..Len(codes) -> Tokens]
  BY <1>4, <1>5, Zenon
<1>8. e \in Seq(Tokens) /\ Len(e) = Len(codes)
  <2> HIDE DEF e
  <2> QED
    BY <1>3, <1>7
<1>9. e # <<>> /\ Spell[d + 1][codes] = FlattenSeq(e)
  <2>1. Spell[d + 1][codes] = FlattenSeq(e)
    BY InSpell DEF EncodeList, Enc
  <2> HIDE DEF e
  <2> QED
    BY <1>3, <1>8, <2>1
<1>10. FlattenSeq(e) \in Tokens
  <2> HIDE DEF e
  <2> QED
    BY <1>8, <1>9, FlattenHead
<1> QED
  BY <1>1, <1>2, <1>3, <1>6, <1>8, <1>9, <1>10

LEMMA AllSpelled == \A d \in Nat : Spelled(d)
<1> DEFINE S == {d \in Nat : Spelled(d)}
<1>1. 0 \in S
  BY InSpell DEF Spelled
<1>2. ASSUME NEW d \in Nat, d \in S PROVE d + 1 \in S
  <2>1. Spelled(d)
    BY <1>2
  <2>2. \A codes \in DOMAIN Spell[d + 1] : Spell[d + 1][codes] \in Tokens
    BY <2>1, ListSpelled
  <2> QED
    BY <2>2 DEF Spelled
<1> HIDE DEF S
<1>3. \A d \in Nat : d \in S
  BY <1>1, <1>2, NatSetInduction
<1> QED
  BY <1>3 DEF S

(* An if is the instruction that readControlInstr makes of its source.     *)
LEMMA BlockSpelled ==
  ASSUME NEW d \in Nat, NEW ins \in Instrs(Ended[d]), ins.op \in Blocks, BlockEnds(ins),
         InstrOf(ins, DOMAIN Spell[d]), NEW r, r.op = ins.op, r.type = ins.type
  PROVE  Source(ins) \in DOMAIN Spell[d] /\ BlockInstr(r, Source(ins)) = ins
<1> DEFINE src == Source(ins)
           body == ins.body
           e == ins.elseIdx
<1>1. /\ src \in DOMAIN Spell[d] /\ ins = Instr(ins.op, <<>>, ins.type, body, e)
      /\ IF ins.op = Op_if
         THEN e <= Len(body) /\ \A i \in 1..e : ~IsElse(body[i])
         ELSE e = 0
  BY DEF InstrOf
<1>2. CASE ins.op # Op_if
  <2>1. src = body
    BY <1>2 DEF Source
  <2>2. BlockInstr(r, body) = Instr(ins.op, <<>>, ins.type, body, 0)
    BY <1>2 DEF BlockInstr
  <2> QED
    BY <1>1, <1>2, <2>1, <2>2
<1>3. CASE ins.op = Op_if
  <2>1. PICK S : body \in Seq(S) /\ EndInstr \in S /\ ElseInstr \in S
    <3>1. d # 0
      BY <1>1, InSpell
    <3>2. d - 1 \in Nat /\ d = (d - 1) + 1
      BY <3>1
    <3>3. body \in Ended[d] \cup {<<>>}
      BY DEF Instrs
    <3>4. body \in Seq(Instrs(Ended[d - 1]))
      BY <3>2, <3>3, InEnded, EmptySeq
    <3> DEFINE S == Instrs(Ended[d - 1]) \cup {EndInstr, ElseInstr}
    <3>5. body \in Seq(S)
      BY <3>4, SeqMonotonic
    <3> QED
      BY <3>5
  <2>2. Len(body) \in Nat /\ DOMAIN body = 1..Len(body)
    BY <2>1, LenProperties
  <2>3. e \in Nat
    BY DEF Instrs
  <2>4. BlockInstr(r, src) = Instr(ins.op, <<>>, ins.type, WithoutElse(src), ElseIdx(src))
    BY <1>3 DEF BlockInstr
  <2>5. CASE e = Len(body)
    <3>1. src = body
      BY <1>3, <2>2, <2>5 DEF Source
    <3>2. ElseIdx(body) \in 0..Len(body) /\ (ElseIdx(body) < Len(body) => IsElse(body[ElseIdx(body) + 1]))
      BY <2>1, ElseFound
    <3>3. ElseIdx(body) = Len(body)
      <4>1. \A i \in 1..Len(body) : ~IsElse(body[i])
        BY <1>1, <1>3, <2>5
      <4> DEFINE k == ElseIdx(body)
      <4> HIDE DEF k
      <4>2. ~(k < Len(body))
        <5>1. k < Len(body) => k + 1 \in 1..Len(body)
          BY <2>2, <3>2 DEF k
        <5> QED
          BY <3>2, <4>1, <5>1 DEF k
      <4>3. k \in 0..Len(body)
        BY <3>2 DEF k
      <4>4. k = Len(body)
        BY <2>2, <4>2, <4>3
      <4> QED
        BY <4>4 DEF k
    <3>4. WithoutElse(body) = body
      BY <2>2, <3>3 DEF WithoutElse
    <3> QED
      BY <1>1, <2>4, <2>5, <3>1, <3>3, <3>4
  <2>6. CASE e < Len(body)
    <3>1. e + 1 < Len(body) /\ body[e + 1] = EndInstr /\ e + 1 \in 1..Len(body)
      BY <1>3, <2>2, <2>3, <2>6 DEF BlockEnds
    <3>2. src = [body EXCEPT ![e + 1] = ElseInstr]
      BY <1>3, <2>6 DEF Source
    <3>3. /\ src \in Seq(S) /\ Len(src) = Len(body) /\ src[e + 1] = ElseInstr
          /\ DOMAIN src = 1..Len(body)
          /\ \A i \in 1..Len(body) : i # e + 1 => src[i] = body[i]
      BY <2>1, <2>2, <3>1, <3>2, ExceptSeq
    <3> DEFINE k == ElseIdx(src)
    <3>4. /\ k \in 0..Len(src)
          /\ k < Len(src) => IsElse(src[k + 1]) /\ \A i \in 1..k : ~IsElse(src[i])
          /\ k = Len(src) => \A i \in 1..Len(src) : ~IsElse(src[i])
      BY <3>3, ElseFound
    <3>5. IsElse(src[e + 1]) /\ \A i \in 1..e : ~IsElse(src[i])
      <4>1. IsElse(ElseInstr)
        BY DEF IsElse, ElseInstr, Instr
      <4>2. \A i \in 1..e : i \in 1..Len(body) /\ i # e + 1
        BY <2>2, <2>3, <2>6
      <4> QED
        BY <1>1, <1>3, <3>3, <4>1, <4>2
    <3> HIDE DEF src, k
    <3>6. k = e
      <4>1. k # Len(src)
        BY <3>1, <3>3, <3>4, <3>5
      <4>2. k < Len(src) /\ k \in Nat
        BY <2>2, <3>3, <3>4, <4>1
      <4>3. ~(k + 1 <= e)
        BY <2>3, <3>4, <3>5, <4>2
      <4>4. ~(e + 1 <= k)
        <5>1. e + 1 <= k => e + 1 \in 1..k
          BY <2>3, <4>2
        <5> QED
          BY <3>4, <3>5, <4>2, <5>1
      <4> QED
        BY <2>3, <4>2, <4>3, <4>4
    <3>7. WithoutElse(src) = body
      <4>1. WithoutElse(src) = [src EXCEPT ![e + 1] = EndInstr]
        BY <2>6, <3>3, <3>6 DEF WithoutElse, k
      <4> DEFINE w == [src EXCEPT ![e + 1] = EndInstr]
      <4>2. /\ w \in Seq(S) /\ Len(w) = Len(src) /\ w[e + 1] = EndInstr
            /\ \A i \in 1..Len(body) : i # e + 1 => w[i] = src[i]
        BY <2>1, <3>1, <3>3, ExceptSeq
      <4> HIDE DEF w
      <4>3. \A i \in 1..Len(body) : w[i] = body[i]
        BY <3>1, <3>3, <4>2
      <4>4. w = body
        BY <2>1, <3>3, <4>2, <4>3, SeqEqual
      <4> QED
        BY <4>1, <4>4 DEF w
    <3> QED
      BY <1>1, <2>4, <3>6, <3>7 DEF src, k
  <2> QED
    BY <1>1, <1>3, <2>2, <2>3, <2>5, <2>6
<1> QED
  BY <1>2, <1>3

-----------------------------------------------------------------------------
(* The items.                                                              *)
KindOf(id) == IF id = SectionCode THEN SectionFunction ELSE id
HeadOf(id, x) == CASE id = SectionGlobal -> x.type
                   [] id = SectionCode -> <<x.localCnt>>
                   [] id \in {SectionElement, SectionData} -> <<x.idx>>

LEMMA TheModules ==
  ASSUME NEW m \in Modules
  PROVE  /\ m.version \in Nat /\ m.name \in Nat /\ m.custom \in BOOLEAN
         /\ NameWord \in Nat /\ MaxList \in Nat \ {0}
         /\ m.built = [id \in SectionType..SectionData |-> m.built[id]]
         /\ Len(m.built[SectionStart]) <= 1
         /\ \A id \in SectionType..SectionData :
              m.built[id] \in Seq(ItemsOf(id)) /\ Len(m.built[id]) <= MaxList
         /\ m.built[SectionCode] = <<>>
<1>1. Encodable(m) /\ NameWord \in Nat
  BY FormatAssumption
<1>2. SectionCode \in SectionType..SectionData
  BY DEF SectionCode, SectionType, SectionData
<1>3. m.built[SectionCode] \in Seq({})
  BY <1>1, <1>2, TheItems DEF Encodable
<1>4. m.built[SectionCode] = <<>>
  <2> DEFINE s == m.built[SectionCode]
  <2>1. s \in Seq({})
    BY <1>3
  <2> HIDE DEF s
  <2>2. Len(s) \in Nat /\ \A i \in 1..Len(s) : s[i] \in {}
    BY <2>1, ElementOfSeq, LenProperties
  <2>3. Len(s) = 0
    <3>1. 1 \notin 1..Len(s)
      BY <2>2
    <3> QED
      BY <2>2, <3>1
  <2>4. s = <<>>
    BY <2>1, <2>3, EmptySeq
  <2> QED
    BY <2>4 DEF s
<1> QED
  BY <1>1, <1>4, DecoderAssumption DEF Encodable

LEMMA TheExprs ==
  /\ \A x : /\ ExprOf(SectionGlobal, x) = x.init /\ HeadOf(SectionGlobal, x) = x.type
            /\ EncodeHead(SectionGlobal, x) = x.type /\ EncodeTail(SectionGlobal, x) = <<>>
  /\ \A p : ReadHead(SectionGlobal, p) = ReadGlobalType(p)
  /\ \A x : /\ ExprOf(SectionCode, x) = x.codes /\ HeadOf(SectionCode, x) = <<x.localCnt>>
            /\ EncodeHead(SectionCode, x) =
                 <<Len(EncodeLocals(x.localCnt)) + Len(EncodeExpr(x.codes))>> \o EncodeLocals(x.localCnt)
            /\ EncodeTail(SectionCode, x) = <<>>
  /\ \A p : ReadHead(SectionCode, p) = ReadLocals(p)
  /\ \A id \in {SectionElement, SectionData} :
       /\ \A x : /\ ExprOf(id, x) = x.offset /\ HeadOf(id, x) = <<x.idx>>
                 /\ EncodeHead(id, x) = <<x.idx>> /\ EncodeTail(id, x) = Vec(x.init)
       /\ \A p : ReadHead(id, p) = Read(<<Byte(p)>>, p + 1)
<1>1. /\ SectionGlobal # SectionCode /\ SectionGlobal \notin {SectionElement, SectionData}
      /\ SectionCode \notin {SectionElement, SectionData}
  BY DEF SectionGlobal, SectionCode, SectionElement, SectionData
<1>2. /\ \A x : /\ ExprOf(SectionGlobal, x) = x.init /\ HeadOf(SectionGlobal, x) = x.type
                /\ EncodeHead(SectionGlobal, x) = x.type /\ EncodeTail(SectionGlobal, x) = <<>>
      /\ \A p : ReadHead(SectionGlobal, p) = ReadGlobalType(p)
  BY <1>1 DEF ExprOf, HeadOf, EncodeHead, EncodeTail, ReadHead
<1>3. /\ \A x : /\ ExprOf(SectionCode, x) = x.codes /\ HeadOf(SectionCode, x) = <<x.localCnt>>
                /\ EncodeHead(SectionCode, x) =
                     <<Len(EncodeLocals(x.localCnt)) + Len(EncodeExpr(x.codes))>>
                       \o EncodeLocals(x.localCnt)
                /\ EncodeTail(SectionCode, x) = <<>>
      /\ \A p : ReadHead(SectionCode, p) = ReadLocals(p)
  BY <1>1 DEF ExprOf, HeadOf, EncodeHead, EncodeTail, ReadHead
<1>4. ASSUME NEW id \in {SectionElement, SectionData}
      PROVE  /\ \A x : /\ ExprOf(id, x) = x.offset /\ HeadOf(id, x) = <<x.idx>>
                       /\ EncodeHead(id, x) = <<x.idx>> /\ EncodeTail(id, x) = Vec(x.init)
             /\ \A p : ReadHead(id, p) = Read(<<Byte(p)>>, p + 1)
  <2>1. id # SectionGlobal /\ id # SectionCode
    BY <1>1
  <2> QED
    BY <2>1 DEF ExprOf, HeadOf, EncodeHead, EncodeTail, ReadHead
<1> QED
  BY <1>2, <1>3, <1>4

LEMMA ExprTokens ==
  ASSUME NEW codes \in Expressions
  PROVE  EncodeExpr(codes) \in Tokens /\ Len(EncodeExpr(codes)) \in Nat
<1>1. MaxList \in Nat
  BY DecoderAssumption
<1>2. EncodeExpr(codes) \in Tokens
  BY <1>1, AllSpelled DEF Spelled, Expressions, EncodeExpr
<1> QED
  BY <1>2 DEF Tokens

LEMMA HeadRead ==
  ASSUME NEW id \in WithExpr, NEW x \in ItemsOf(KindOf(id))
  PROVE  /\ ExprOf(id, x) \in Expressions
         /\ EncodeHead(id, x) \in Tokens /\ EncodeTail(id, x) \in Tokens
         /\ \A p : At(file, p, EncodeHead(id, x)) =>
              ReadHead(id, p) = Read(HeadOf(id, x), p + Len(EncodeHead(id, x)))
         /\ id \in {SectionElement, SectionData} => x \in Segments
         /\ id = SectionGlobal => x \in Globals
         /\ id = SectionCode => x \in Functions
<1>1. /\ SectionGlobal # SectionCode /\ SectionGlobal \notin {SectionElement, SectionData}
      /\ SectionCode \notin {SectionElement, SectionData}
  BY DEF SectionGlobal, SectionCode, SectionElement, SectionData
<1>2. CASE id = SectionGlobal
  <2>1. x \in Globals
    BY <1>1, <1>2, TheItems DEF KindOf
  <2>2. x.type \in GlobalTypes /\ x.init \in Expressions
    BY <2>1 DEF Globals
  <2>3. <<>> \in Tokens
    BY DEF Tokens
  <2> QED
    BY <1>1, <1>2, <2>1, <2>2, <2>3, TheExprs, GlobalTypeRead
<1>3. CASE id = SectionCode
  <2>1. x \in Functions
    BY <1>1, <1>3, TheItems DEF KindOf
  <2>2. x.localCnt \in Nat /\ x.codes \in Expressions
    BY <2>1 DEF Functions
  <2>3. <<>> \in Tokens
    BY DEF Tokens
  <2> DEFINE size == Len(EncodeLocals(x.localCnt)) + Len(EncodeExpr(x.codes))
             n == x.localCnt
  <2>4. size \in Nat
    <3>1. Len(EncodeLocals(n)) \in {1, 5}
      BY DEF EncodeLocals
    <3> HIDE DEF n
    <3> QED
      BY <2>2, <3>1, ExprTokens DEF n
  <2>5. EncodeHead(id, x) = <<size>> \o EncodeLocals(n) /\ HeadOf(id, x) = <<n>>
        /\ EncodeTail(id, x) = <<>> /\ ExprOf(id, x) = x.codes
    BY <1>3, TheExprs
  <2>6. \A p : ReadHead(id, p) = ReadLocals(p)
    BY <1>3, TheExprs
  <2>7. n \in Nat
    BY <2>2
  <2> HIDE DEF size, n
  <2> QED
    BY <1>1, <1>3, <2>1, <2>2, <2>3, <2>4, <2>5, <2>6, <2>7, LocalsRead
<1>4. CASE id \in {SectionElement, SectionData}
  <2>1. x \in Segments
    BY <1>1, <1>4, TheItems DEF KindOf
  <2>2. x.idx \in Nat /\ x.offset \in Expressions /\ x.init \in Tokens
    BY <2>1 DEF Segments, Tokens
  <2>3. <<x.idx>> \in Tokens /\ Len(<<x.idx>>) = 1
    BY <2>2 DEF Tokens
  <2>4. Vec(x.init) \in Tokens
    BY <2>2, VecTokens
  <2>5. \A p : At(file, p, <<x.idx>>) => Byte(p) = x.idx
    BY BytesAt
  <2>6. /\ EncodeHead(id, x) = <<x.idx>> /\ HeadOf(id, x) = <<x.idx>>
        /\ EncodeTail(id, x) = Vec(x.init) /\ ExprOf(id, x) = x.offset
    BY <1>4, TheExprs
  <2>7. \A p : ReadHead(id, p) = Read(<<Byte(p)>>, p + 1)
    BY <1>4, TheExprs
  <2> QED
    BY <1>1, <1>4, <2>1, <2>2, <2>3, <2>4, <2>5, <2>6, <2>7
<1> QED
  BY <1>2, <1>3, <1>4 DEF WithExpr

ItemSections == (SectionType..SectionData) \ {SectionStart}

LEMMA ItemKinds ==
  /\ \A id \in ItemSections : id \in WithExpr \/ (id \in PlainSections /\ KindOf(id) = id)
  /\ PlainSections \cup WithExpr \subseteq ItemSections /\ PlainSections \cap WithExpr = {}
  /\ ItemSections \subseteq SectionType..SectionData
  /\ \A id \in ItemSections : KindOf(id) \in ItemSections \ {SectionCode}
BY DEF ItemSections, WithExpr, PlainSections, KindOf, SectionType, SectionFunction, SectionGlobal,
       SectionExport, SectionStart, SectionElement, SectionCode, SectionData

LEMMA ItemTokens ==
  ASSUME NEW id \in ItemSections, NEW x \in ItemsOf(KindOf(id))
  PROVE  EncodeItem(id, x) \in Tokens
<1>1. CASE id \in WithExpr
  <2> DEFINE h == EncodeHead(id, x)
             e == EncodeExpr(ExprOf(id, x))
             t == EncodeTail(id, x)
  <2>1. h \in Tokens /\ e \in Tokens /\ t \in Tokens
    BY <1>1, HeadRead, ExprTokens
  <2>2. EncodeItem(id, x) = (h \o e) \o t
    BY <1>1 DEF EncodeItem
  <2> HIDE DEF h, e, t
  <2>3. h \o e \in Tokens
    BY <2>1, Concat
  <2> QED
    BY <2>1, <2>2, <2>3, Concat
<1>2. CASE id \notin WithExpr
  BY <1>2, ItemKinds, PlainRead DEF EncodeItem
<1> QED
  BY <1>1, <1>2

LEMMA ItemsEncoded ==
  ASSUME NEW m \in Modules, NEW id \in ItemSections
  PROVE  /\ Items(m, id) = m.built[KindOf(id)]
         /\ Items(m, id) \in Seq(ItemsOf(KindOf(id))) /\ Len(Items(m, id)) \in 0..MaxList
         /\ DOMAIN Items(m, id) = 1..Len(Items(m, id))
         /\ EncodeItems(m, id) \in Seq(Tokens) /\ Len(EncodeItems(m, id)) = Len(Items(m, id))
         /\ \A i \in 1..Len(Items(m, id)) :
              /\ Items(m, id)[i] \in ItemsOf(KindOf(id))
              /\ EncodeItems(m, id)[i] = EncodeItem(id, Items(m, id)[i])
<1> DEFINE s == Items(m, id)
           e == EncodeItems(m, id)
<1>1. s = m.built[KindOf(id)]
  BY DEF Items, KindOf
<1>2. s \in Seq(ItemsOf(KindOf(id))) /\ Len(s) <= MaxList /\ MaxList \in Nat
  <2>1. KindOf(id) \in SectionType..SectionData
    BY ItemKinds
  <2> QED
    BY <1>1, <2>1, TheModules
<1>3. e = [i \in DOMAIN s |-> EncodeItem(id, s[i])]
  BY DEF EncodeItems
<1> HIDE DEF s, e
<1>4. Len(s) \in 0..MaxList /\ DOMAIN s = 1..Len(s) /\ \A i \in 1..Len(s) : s[i] \in ItemsOf(KindOf(id))
  BY <1>2, LenProperties, ElementOfSeq
<1>5. \A i \in 1..Len(s) : EncodeItem(id, s[i]) \in Tokens
  BY <1>4, ItemTokens
<1>6. e \in [1..Len(s) -> Tokens] /\ \A i \in 1..Len(s) : e[i] = EncodeItem(id, s[i])
  BY <1>3, <1>4, <1>5
<1>7. e \in Seq(Tokens) /\ Len(e) = Len(s)
  BY <1>4, <1>6
<1> QED
  BY <1>1, <1>2, <1>4, <1>6, <1>7 DEF s, e

-----------------------------------------------------------------------------
(* The sections, in their order.                                           *)
Place(id) == IF id <= SectionGlobal THEN id + 1 ELSE id + 2
Customs == {1, 8, 15}
Sections(m) == [k \in DOMAIN Order |-> EncodeSection(m, Order[k])]
Rest(m, k) == Left(Sections(m), k)

LEMMA Places ==
  /\ DOMAIN Order = 1..15
  /\ \A k \in Customs : k \in 1..15 /\ Order[k] = SectionCustom
  /\ \A id \in SectionType..SectionName : Place(id) \in (1..15) \ Customs /\ Order[Place(id)] = id
  /\ \A k \in 1..15 : k \in Customs \/ \E id \in SectionType..SectionName : k = Place(id)
  /\ \A id, j \in SectionType..SectionName : Place(id) = Place(j) => id = j
<1>1. DOMAIN Order = 1..15
  BY DEF Order
<1>2. \A k \in Customs : k \in 1..15 /\ Order[k] = SectionCustom
  BY DEF Order, Customs
<1>3. ASSUME NEW id \in SectionType..SectionName
      PROVE  Place(id) \in (1..15) \ Customs /\ Order[Place(id)] = id
  <2>1. id \in {1, 2, 3, 4, 5, 6, 7, 8, 9, 10, 11, 12}
    BY DEF SectionType, SectionName, SectionLength
  <2>2. CASE id \in {1, 2, 3, 4, 5, 6}
    <3>1. Place(id) = id + 1
      BY <2>2 DEF Place, SectionGlobal
    <3>2. Order[2] = 1 /\ Order[3] = 2 /\ Order[4] = 3 /\ Order[5] = 4 /\ Order[6] = 5 /\ Order[7] = 6
      BY DEF Order, SectionType, SectionImport, SectionFunction, SectionTable, SectionMemory, SectionGlobal
    <3> QED
      BY <2>2, <3>1, <3>2 DEF Customs
  <2>3. CASE id \in {7, 8, 9, 10, 11, 12}
    <3>1. Place(id) = id + 2
      BY <2>3 DEF Place, SectionGlobal
    <3>2. Order[9] = 7 /\ Order[10] = 8 /\ Order[11] = 9 /\ Order[12] = 10 /\ Order[13] = 11 /\ Order[14] = 12
      BY DEF Order, SectionExport, SectionStart, SectionElement, SectionCode, SectionData, SectionName,
             SectionLength
    <3> QED
      BY <2>3, <3>1, <3>2 DEF Customs
  <2> QED
    BY <2>1, <2>2, <2>3
<1>4. ASSUME NEW k \in 1..15
      PROVE  k \in Customs \/ \E id \in SectionType..SectionName : k = Place(id)
  <2>1. CASE k \in 2..7
    <3>1. k - 1 \in SectionType..SectionName /\ k = Place(k - 1)
      BY <2>1 DEF Place, SectionGlobal, SectionType, SectionName, SectionLength
    <3> QED
      BY <3>1
  <2>2. CASE k \in 9..14
    <3>1. k - 2 \in SectionType..SectionName /\ k = Place(k - 2)
      BY <2>2 DEF Place, SectionGlobal, SectionType, SectionName, SectionLength
    <3> QED
      BY <3>1
  <2> QED
    BY <2>1, <2>2 DEF Customs
<1>5. \A id, j \in SectionType..SectionName : Place(id) = Place(j) => id = j
  BY DEF Place, SectionGlobal, SectionType, SectionName, SectionLength
<1> QED
  BY <1>1, <1>2, <1>3, <1>4, <1>5

Content(m, id) == <<Len(Items(m, id))>> \o Left(EncodeItems(m, id), 0)

LEMMA SectionShapes ==
  ASSUME NEW m \in Modules
  PROVE  /\ EncodeSection(m, SectionCustom) = EncodeCustom(m)
         /\ EncodeSection(m, SectionName) = EncodeName(m)
         /\ EncodeSection(m, SectionStart) =
              IF m.built[SectionStart] = <<>> THEN <<>> ELSE <<SectionStart, 1>> \o m.built[SectionStart]
         /\ \A id \in ItemSections :
              /\ Items(m, id) = <<>> => EncodeSection(m, id) = <<>>
              /\ Items(m, id) # <<>> =>
                   EncodeSection(m, id) = <<id, Len(Content(m, id))>> \o Content(m, id)
<1>1. EncodeSection(m, SectionCustom) = EncodeCustom(m)
  BY DEF EncodeSection
<1>2. EncodeSection(m, SectionName) = EncodeName(m)
  BY DEF EncodeSection, SectionName, SectionCustom, SectionLength
<1>3. EncodeSection(m, SectionStart) =
        IF m.built[SectionStart] = <<>> THEN <<>> ELSE <<SectionStart, 1>> \o m.built[SectionStart]
  BY DEF EncodeSection, Items, SectionName, SectionCustom, SectionLength, SectionStart, SectionCode
<1>4. ASSUME NEW id \in ItemSections
      PROVE  /\ Items(m, id) = <<>> => EncodeSection(m, id) = <<>>
             /\ Items(m, id) # <<>> =>
                  EncodeSection(m, id) = <<id, Len(Content(m, id))>> \o Content(m, id)
  <2>1. id # SectionCustom /\ id # SectionName /\ id # SectionStart
    BY DEF ItemSections, SectionType, SectionData, SectionCustom, SectionName, SectionLength
  <2>2. Left(EncodeItems(m, id), 0) = FlattenSeq(EncodeItems(m, id))
    BY ItemsEncoded, LeftEnds
  <2>3. CASE Items(m, id) = <<>>
    BY <2>1, <2>3, Zenon DEF EncodeSection
  <2>4. CASE Items(m, id) # <<>>
    <3>1. Content(m, id) = <<Len(Items(m, id))>> \o FlattenSeq(EncodeItems(m, id))
      BY <2>2, Zenon DEF Content
    <3>2. EncodeSection(m, id) =
            <<id, Len(<<Len(Items(m, id))>> \o FlattenSeq(EncodeItems(m, id)))>>
              \o (<<Len(Items(m, id))>> \o FlattenSeq(EncodeItems(m, id)))
      BY <2>1, <2>4, Zenon DEF EncodeSection
    <3> QED
      BY <2>4, <3>1, <3>2, Zenon
  <2> QED
    BY <2>3, <2>4, Zenon
<1> QED
  BY <1>1, <1>2, <1>3, <1>4

LEMMA ContentTokens ==
  ASSUME NEW m \in Modules, NEW id \in ItemSections
  PROVE  /\ Left(EncodeItems(m, id), 0) \in Tokens /\ Len(Items(m, id)) \in Nat
         /\ Content(m, id) \in Tokens /\ Len(Content(m, id)) \in Nat
<1>1. Left(EncodeItems(m, id), 0) \in Tokens /\ Len(Items(m, id)) \in Nat
  <2>1. EncodeItems(m, id) \in Seq(Tokens) /\ Len(Items(m, id)) \in 0..MaxList
    BY ItemsEncoded
  <2>2. 0 \in 0..Len(EncodeItems(m, id))
    BY <2>1
  <2> QED
    BY <2>1, <2>2, LeftEnds
<1>2. Content(m, id) \in Tokens
  BY <1>1, ConsTokens DEF Content
<1> QED
  BY <1>1, <1>2 DEF Tokens

LEMMA SectionTokens ==
  ASSUME NEW m \in Modules, NEW k \in 1..15
  PROVE  EncodeSection(m, Order[k]) \in Tokens
<1>0. <<>> \in Tokens
  BY DEF Tokens
<1>1. CASE k \in Customs
  <2>1. EncodeCustom(m) \in Tokens
    <3>1. NameWord + 1 \in Nat
      BY FormatAssumption
    <3> QED
      BY <1>0, <3>1 DEF EncodeCustom, Tokens, SectionCustom
  <2> QED
    BY <1>1, <2>1, Places, SectionShapes
<1>2. ASSUME NEW id \in SectionType..SectionName, k = Place(id)
      PROVE  EncodeSection(m, Order[k]) \in Tokens
  <2>1. Order[k] = id
    BY <1>2, Places
  <2>2. CASE id = SectionName
    <3>1. NameWord \in Nat /\ m.name \in Nat
      BY TheModules
    <3>2. EncodeName(m) \in Tokens
      BY <1>0, <3>1 DEF EncodeName, Tokens, SectionCustom
    <3> QED
      BY <2>1, <2>2, <3>2, SectionShapes
  <2>3. CASE id = SectionStart
    <3> DEFINE s == m.built[SectionStart]
               h == <<SectionStart, 1>>
    <3>1. s \in Tokens
      <4>1. SectionStart \in SectionType..SectionData
        BY DEF SectionType, SectionStart, SectionData
      <4>2. s \in Seq(ItemsOf(SectionStart))
        BY <4>1, TheModules
      <4> QED
        BY <4>2, TheItems DEF Tokens
    <3>2. h \in Tokens
      BY DEF SectionStart, Tokens
    <3>3. EncodeSection(m, SectionStart) = IF s = <<>> THEN <<>> ELSE h \o s
      BY SectionShapes
    <3> HIDE DEF s, h
    <3>4. h \o s \in Tokens
      BY <3>1, <3>2, Concat
    <3> QED
      BY <1>0, <2>1, <2>3, <3>3, <3>4
  <2>4. CASE id # SectionName /\ id # SectionStart
    <3>1. id \in ItemSections
      BY <2>4 DEF ItemSections, SectionType, SectionData, SectionName, SectionLength, SectionStart
    <3> DEFINE c == Content(m, id)
               h == <<id, Len(c)>>
    <3>2. c \in Tokens /\ Len(c) \in Nat
      BY <3>1, ContentTokens
    <3>3. h \in Tokens
      BY <3>2 DEF Tokens, SectionType, SectionName
    <3>4. EncodeSection(m, id) = <<>> \/ EncodeSection(m, id) = h \o c
      BY <3>1, SectionShapes
    <3> HIDE DEF c, h
    <3>5. h \o c \in Tokens
      BY <3>2, <3>3, Concat
    <3> QED
      BY <1>0, <2>1, <3>4, <3>5
  <2> QED
    BY <2>2, <2>3, <2>4
<1> QED
  BY <1>1, <1>2, Places

LEMMA RestStep ==
  ASSUME NEW m \in Modules
  PROVE  /\ \A k \in 0..15 : Rest(m, k) \in Tokens
         /\ \A k \in 0..14 : /\ EncodeSection(m, Order[k + 1]) \in Tokens
                             /\ Rest(m, k) = EncodeSection(m, Order[k + 1]) \o Rest(m, k + 1)
         /\ Rest(m, 15) = <<>>
         /\ File(m) = <<WasmMagic, m.version>> \o Rest(m, 0)
<1> DEFINE s == Sections(m)
<1>1. DOMAIN s = 1..15 /\ \A k \in 1..15 : s[k] = EncodeSection(m, Order[k])
  BY Places DEF Sections
<1>2. s = [k \in 1..15 |-> EncodeSection(m, Order[k])]
  BY Places DEF Sections
<1>3. s \in [1..15 -> Tokens]
  BY <1>2, SectionTokens
<1>4. File(m) = <<WasmMagic, m.version>> \o FlattenSeq(s)
  BY DEF File, Sections
<1> HIDE DEF s
<1>5. s \in Seq(Tokens) /\ Len(s) = 15
  <2> DEFINE n == 15
  <2>1. n \in Nat /\ s \in [1..n -> Tokens]
    BY <1>3
  <2> HIDE DEF n
  <2>2. s \in Seq(Tokens) /\ Len(s) = n
    BY <2>1
  <2> QED
    BY <2>2 DEF n
<1>6. Left(s, 0) = FlattenSeq(s) /\ Left(s, 15) = <<>> /\ \A k \in 0..15 : Left(s, k) \in Tokens
  BY <1>5, LeftEnds
<1>7. ASSUME NEW k \in 0..14
      PROVE  /\ EncodeSection(m, Order[k + 1]) \in Tokens
             /\ Left(s, k) = EncodeSection(m, Order[k + 1]) \o Left(s, k + 1)
  <2>1. k + 1 \in 1..15 /\ k \in Nat /\ k < Len(s)
    BY <1>5
  <2>2. Left(s, k) = s[k + 1] \o Left(s, k + 1)
    BY <1>5, <2>1, LeftStep
  <2> QED
    BY <1>1, <2>1, <2>2, SectionTokens
<1> QED
  BY <1>4, <1>6, <1>7 DEF Rest, s

-----------------------------------------------------------------------------
(* What has been built when the first k sections have been read, and then  *)
(* n items of the next.                                                    *)
Bodies(m, n) ==
  LET fs == m.built[SectionFunction]
  IN [i \in DOMAIN fs |-> IF i <= n THEN fs[i] ELSE Declared(fs[i])]
Value(m, id, k) ==
  IF Place(id) > k THEN <<>>
  ELSE IF id = SectionFunction /\ k < Place(SectionCode) THEN Bodies(m, 0) ELSE m.built[id]
ReadUpTo(m, k) == [id \in SectionType..SectionData |-> Value(m, id, k)]
NameAt(m, k) == IF k >= Place(SectionName) THEN m.name ELSE 0
Listed(m, id) == IF id = SectionFunction THEN Bodies(m, 0) ELSE m.built[id]
Partial(m, id, n) == IF id = SectionCode THEN Bodies(m, n) ELSE SubSeq(Listed(m, id), 1, n)
Partly(m, id, n) == [ReadUpTo(m, Place(id) - 1) EXCEPT ![KindOf(id)] = Partial(m, id, n)]

LEMMA PrefixStep ==
  ASSUME NEW S, NEW s \in Seq(S)
  PROVE  /\ SubSeq(s, 1, 0) = <<>> /\ SubSeq(s, 1, Len(s)) = s
         /\ \A n \in 0..Len(s) : SubSeq(s, 1, n) \in Seq(S) /\ Len(SubSeq(s, 1, n)) = n
         /\ \A n \in 0..(Len(s) - 1) : Append(SubSeq(s, 1, n), s[n + 1]) = SubSeq(s, 1, n + 1)
<1>1. Len(s) \in Nat /\ \A i \in 1..Len(s) : s[i] \in S
  BY LenProperties, ElementOfSeq
<1>2. SubSeq(s, 1, 0) = <<>>
  BY SubSeqEmpty
<1>3. SubSeq(s, 1, Len(s)) = s
  BY SubSeqFull
<1>4. ASSUME NEW n \in 0..Len(s)
      PROVE  /\ SubSeq(s, 1, n) \in Seq(S) /\ Len(SubSeq(s, 1, n)) = n
             /\ \A i \in 1..n : SubSeq(s, 1, n)[i] = s[i]
  <2>1. \A i \in 1..n : s[i] \in S
    BY <1>1
  <2>2. n \in Nat /\ \A i \in 1..n : (1 + i) - 1 = i
    OBVIOUS
  <2>3. SubSeq(s, 1, n) = [i \in 1..n |-> s[(1 + i) - 1]]
    BY <2>2
  <2>4. SubSeq(s, 1, n) = [i \in 1..n |-> s[i]]
    BY <2>2, <2>3
  <2>5. [i \in 1..n |-> s[i]] \in [1..n -> S]
    BY <2>1
  <2> DEFINE t == [i \in 1..n |-> s[i]]
  <2>6. \A i \in 1..n : t[i] = s[i]
    OBVIOUS
  <2> HIDE DEF t
  <2>7. t \in Seq(S) /\ Len(t) = n
    BY <2>2, <2>5 DEF t
  <2> QED
    BY <2>4, <2>6, <2>7 DEF t
<1>5. ASSUME NEW n \in 0..(Len(s) - 1)
      PROVE  Append(SubSeq(s, 1, n), s[n + 1]) = SubSeq(s, 1, n + 1)
  <2> DEFINE k == n + 1
             t == SubSeq(s, 1, n)
             u == SubSeq(s, 1, k)
             v == Append(t, s[k])
  <2>1. n \in 0..Len(s) /\ k \in 1..Len(s) /\ k \in 0..Len(s) /\ n \in Nat
    BY <1>1
  <2>2. /\ t \in Seq(S) /\ Len(t) = n /\ \A i \in 1..n : t[i] = s[i]
        /\ u \in Seq(S) /\ Len(u) = k /\ \A i \in 1..k : u[i] = s[i]
    <3> HIDE DEF k
    <3> QED
      BY <1>4, <2>1
  <2> HIDE DEF t, u
  <2>3. s[k] \in S
    BY <1>1, <2>1
  <2>4. /\ v \in Seq(S) /\ Len(v) = n + 1 /\ v[n + 1] = s[k] /\ \A i \in 1..n : v[i] = t[i]
    BY <2>2, <2>3, AppendProperties
  <2>5. \A i \in 1..k : v[i] = u[i]
    <3> SUFFICES ASSUME NEW i \in 1..k PROVE v[i] = u[i]
      OBVIOUS
    <3> HIDE DEF v
    <3>1. i = k \/ i \in 1..n
      BY <2>1
    <3> QED
      BY <2>2, <2>4, <3>1
  <2> HIDE DEF v
  <2>6. v = u
    BY <2>2, <2>4, <2>5, SeqEqual
  <2> QED
    BY <2>6 DEF t, u, v
<1> QED
  BY <1>2, <1>3, <1>4, <1>5

LEMMA TheFunctions ==
  ASSUME NEW m \in Modules, NEW fs, fs = m.built[SectionFunction]
  PROVE  /\ fs \in Seq(Functions) /\ Len(fs) \in 0..MaxList /\ DOMAIN fs = 1..Len(fs)
         /\ \A i \in 1..Len(fs) : fs[i] \in Functions
         /\ \A n : /\ DOMAIN Bodies(m, n) = 1..Len(fs)
                   /\ Bodies(m, n) = [i \in 1..Len(fs) |-> IF i <= n THEN fs[i] ELSE Declared(fs[i])]
                   /\ IsSeq(Bodies(m, n)) /\ Len(Bodies(m, n)) = Len(fs)
         /\ Bodies(m, Len(fs)) = fs
         /\ fs = <<>> => Bodies(m, 0) = <<>>
<1>1. SectionFunction \in SectionType..SectionData
  BY DEF SectionFunction, SectionType, SectionData
<1>2. fs \in Seq(Functions) /\ Len(fs) <= MaxList /\ MaxList \in Nat
  BY <1>1, TheModules, TheItems
<1>3. Len(fs) \in 0..MaxList /\ DOMAIN fs = 1..Len(fs) /\ \A i \in 1..Len(fs) : fs[i] \in Functions
  BY <1>2, LenProperties, ElementOfSeq
<1>4. \A n : Bodies(m, n) = [i \in 1..Len(fs) |-> IF i <= n THEN fs[i] ELSE Declared(fs[i])]
  BY <1>3 DEF Bodies
<1>5. ASSUME NEW n
      PROVE  /\ DOMAIN Bodies(m, n) = 1..Len(fs)
             /\ IsSeq(Bodies(m, n)) /\ Len(Bodies(m, n)) = Len(fs)
  <2> DEFINE b == [i \in 1..Len(fs) |-> IF i <= n THEN fs[i] ELSE Declared(fs[i])]
             S == {b[i] : i \in 1..Len(fs)}
  <2>1. b \in [1..Len(fs) -> S] /\ DOMAIN b = 1..Len(fs)
    OBVIOUS
  <2> HIDE DEF b, S
  <2>2. b \in Seq(S) /\ Len(b) = Len(fs)
    BY <1>3, <2>1
  <2> QED
    BY <1>4, <2>1, <2>2 DEF b, IsSeq
<1>6. Bodies(m, Len(fs)) = fs
  <2>1. fs = [i \in 1..Len(fs) |-> fs[i]]
    BY <1>2, LenProperties
  <2>2. \A i \in 1..Len(fs) : i <= Len(fs)
    BY <1>3
  <2>3. Bodies(m, Len(fs)) = [i \in 1..Len(fs) |-> IF i <= Len(fs) THEN fs[i] ELSE Declared(fs[i])]
    BY <1>4
  <2>4. Bodies(m, Len(fs)) = [i \in 1..Len(fs) |-> fs[i]]
    BY <2>2, <2>3
  <2> QED
    BY <2>1, <2>4
<1>7. fs = <<>> => Bodies(m, 0) = <<>>
  BY <1>5, EmptySeq DEF IsSeq
<1> QED
  BY <1>2, <1>3, <1>4, <1>5, <1>6, <1>7

LEMMA ValueKept ==
  ASSUME NEW m, NEW j \in SectionType..SectionData, NEW k \in 0..14, Place(j) # k + 1,
         ~(j = SectionFunction /\ k + 1 = Place(SectionCode))
  PROVE  Value(m, j, k + 1) = Value(m, j, k)
<1>1. Place(j) \in Nat /\ Place(SectionCode) \in Nat
  BY DEF Place, SectionType, SectionData, SectionGlobal, SectionCode
<1>2. Place(j) > k + 1 <=> Place(j) > k
  BY <1>1
<1>3. j = SectionFunction => (k + 1 < Place(SectionCode) <=> k < Place(SectionCode))
  BY <1>1
<1> QED
  BY <1>2, <1>3, Zenon DEF Value

LEMMA NothingThere ==
  ASSUME NEW m \in Modules, NEW k \in 0..14, EncodeSection(m, Order[k + 1]) = <<>>
  PROVE  /\ ReadUpTo(m, k + 1) = ReadUpTo(m, k) /\ NameAt(m, k + 1) = NameAt(m, k)
         /\ Rest(m, k) = Rest(m, k + 1)
<1>1. k + 1 \in 1..15 /\ Place(SectionCode) = 12 /\ Place(SectionFunction) = 4 /\ Place(SectionName) = 14
      /\ 12 \notin Customs
  BY DEF Place, SectionCode, SectionGlobal, SectionFunction, SectionName, SectionLength, Customs
<1>2. Rest(m, k) = Rest(m, k + 1)
  <2> DEFINE r == Rest(m, k + 1)
  <2>1. r \in Tokens /\ Rest(m, k) = EncodeSection(m, Order[k + 1]) \o r
    <3>1. k + 1 \in 0..15
      OBVIOUS
    <3> QED
      BY <3>1, RestStep, Zenon
  <2> HIDE DEF r
  <2>2. <<>> \o r = r
    BY <2>1 DEF Tokens
  <2> QED
    BY <2>1, <2>2 DEF r
<1>3. NameAt(m, k + 1) = NameAt(m, k)
  <2>1. CASE k + 1 # 14
    BY <1>1, <2>1 DEF NameAt
  <2>2. CASE k + 1 = 14
    <3>1. EncodeName(m) = <<>>
      <4>1. SectionName \in SectionType..SectionName
        BY DEF SectionType, SectionName, SectionLength
      <4>2. Order[14] = SectionName
        BY <1>1, <4>1, Places
      <4> QED
        BY <2>2, <4>2, SectionShapes
    <3>2. m.name = 0
      BY <3>1 DEF EncodeName
    <3> QED
      BY <3>2 DEF NameAt
  <2> QED
    BY <2>1, <2>2
<1>4. \A j \in SectionType..SectionData : Value(m, j, k + 1) = Value(m, j, k)
  <2> SUFFICES ASSUME NEW j \in SectionType..SectionData
               PROVE  Value(m, j, k + 1) = Value(m, j, k)
    OBVIOUS
  <2>0. j \in SectionType..SectionName /\ Place(j) \in 1..15
    <3>1. j \in SectionType..SectionName
      BY DEF SectionType, SectionData, SectionName, SectionLength
    <3> QED
      BY <3>1, Places
  <2>1. CASE Place(j) # k + 1 /\ ~(j = SectionFunction /\ k + 1 = Place(SectionCode))
    BY <2>1, ValueKept
  <2>2. CASE Place(j) = k + 1
    <3>1. Order[k + 1] = j
      BY <2>0, <2>2, Places
    <3>2. Value(m, j, k) = <<>>
      BY <2>0, <2>2 DEF Value
    <3>3. CASE j = SectionStart
      <4> DEFINE s == m.built[SectionStart]
                 h == <<SectionStart, 1>>
      <4>1. s \in Tokens
        <5>1. s \in Seq(ItemsOf(SectionStart))
          BY <3>3, TheModules
        <5> QED
          BY <5>1, TheItems DEF Tokens
      <4>3. (IF s = <<>> THEN <<>> ELSE h \o s) = <<>>
        BY <3>1, <3>3, SectionShapes
      <4> HIDE DEF s
      <4>6. h \o s # <<>>
        BY <4>1, TwoTokens DEF SectionStart
      <4>7. s = <<>>
        BY <4>3, <4>6
      <4>8. j # SectionFunction
        BY <3>3 DEF SectionStart, SectionFunction
      <4>9. Value(m, j, k + 1) = <<>>
        BY <2>2, <3>3, <4>7, <4>8 DEF Value, s
      <4> QED
        BY <3>2, <4>9
    <3>4. CASE j # SectionStart
      <4>1. j \in ItemSections
        BY <3>4 DEF ItemSections
      <4>2. Items(m, j) = <<>>
        <5> DEFINE c == Content(m, j)
                   h == <<j, Len(c)>>
        <5>1. c \in Tokens /\ Len(c) \in Nat
          BY <4>1, ContentTokens
        <5>3. Items(m, j) # <<>> => h \o c = <<>>
          BY <3>1, <4>1, SectionShapes
        <5> HIDE DEF c
        <5>6. h \o c # <<>>
          BY <5>1, TwoTokens DEF SectionType, SectionData
        <5> QED
          BY <5>3, <5>6
      <4>3. m.built[KindOf(j)] = <<>>
        BY <4>1, <4>2, ItemsEncoded
      <4>4. m.built[j] = <<>>
        BY <4>3, TheModules DEF KindOf
      <4>5. j = SectionFunction => Bodies(m, 0) = <<>>
        BY <4>4, TheFunctions
      <4> QED
        BY <2>0, <2>2, <3>2, <4>4, <4>5 DEF Value
    <3> QED
      BY <3>3, <3>4
  <2>3. CASE j = SectionFunction /\ k + 1 = Place(SectionCode)
    <3> DEFINE fs == m.built[SectionFunction]
    <3>1. SectionCode \in ItemSections /\ SectionCode \in SectionType..SectionName
      BY DEF ItemSections, SectionType, SectionData, SectionCode, SectionStart, SectionName, SectionLength
    <3>2. Order[k + 1] = SectionCode
      BY <2>3, <3>1, Places
    <3>3. Items(m, SectionCode) = <<>>
      <4> DEFINE c == Content(m, SectionCode)
                 h == <<SectionCode, Len(c)>>
      <4>1. c \in Tokens /\ Len(c) \in Nat
        BY <3>1, ContentTokens
      <4>3. Items(m, SectionCode) # <<>> => h \o c = <<>>
        BY <3>1, <3>2, SectionShapes
      <4> HIDE DEF c
      <4>6. h \o c # <<>>
        BY <4>1, TwoTokens DEF SectionCode
      <4> QED
        BY <4>3, <4>6
    <3>4. fs = <<>>
      BY <3>3 DEF Items
    <3>5. Bodies(m, 0) = <<>>
      BY <3>4, TheFunctions
    <3> HIDE DEF fs
    <3> QED
      BY <1>1, <2>3, <3>4, <3>5 DEF Value, fs
  <2> QED
    BY <2>1, <2>2, <2>3
<1>5. ReadUpTo(m, k + 1) = ReadUpTo(m, k)
  BY <1>4 DEF ReadUpTo
<1> QED
  BY <1>2, <1>3, <1>5

-----------------------------------------------------------------------------
(* The nested calls of readExpr.  Each has read the first instructions of  *)
(* its list, lists[j], and more[j] is what is ahead after the list.  The   *)
(* instruction after those is the block whose list the next call reads.    *)
Frame(stack, lists, more, j) ==
  /\ stack[j] \in [op : Nat, type : Nat, instrs : Seq(Instrs(Ended[MaxList - j]))]
  /\ lists[j] \in DOMAIN Spell[(MaxList - j) + 1] /\ more[j] \in Tokens
  /\ Len(stack[j].instrs) < Len(lists[j])
  /\ stack[j].instrs = SubSeq(lists[j], 1, Len(stack[j].instrs))
Link(stack, lists, more, j) ==
  LET q == Len(stack[j].instrs)
      ins == lists[j][q + 1]
  IN /\ q + 1 < Len(lists[j]) /\ ins.op \in Blocks
     /\ stack[j + 1].op = ins.op /\ stack[j + 1].type = ins.type /\ lists[j + 1] = Source(ins)
     /\ more[j + 1] = Left(Enc(lists[j], MaxList - j), q + 1) \o more[j]
Stacked(stack, lists, more) ==
  /\ IsSeq(stack) /\ Len(stack) \in 1..MaxList
  /\ \A j \in 1..Len(stack) : Frame(stack, lists, more, j)
  /\ \A j \in 1..(Len(stack) - 1) : Link(stack, lists, more, j)
Remaining(list, d, q, rest) == Left(Enc(list, d), q) \o rest
Toward(stack, lists, more) ==
  LET n == Len(stack) IN Remaining(lists[n], MaxList - n, Len(stack[n].instrs), more[n])

(* The instruction that is read next, whether more follow, what is ahead then. *)
Upcoming(stack, lists) == LET n == Len(stack) IN lists[n][Len(stack[n].instrs) + 1]
Continues(stack, lists) == LET n == Len(stack) IN Len(stack[n].instrs) + 1 < Len(lists[n])
Later(stack, lists, more) ==
  LET n == Len(stack) IN Remaining(lists[n], MaxList - n, Len(stack[n].instrs) + 1, more[n])

LEMMA ListTail ==
  ASSUME NEW d \in Nat, NEW codes \in DOMAIN Spell[d + 1], NEW q \in Nat, q < Len(codes)
  PROVE  /\ Left(Enc(codes, d), q) \in Tokens /\ Left(Enc(codes, d), q + 1) \in Tokens
         /\ EncodeInstr(codes[q + 1], Spell[d]) \in Tokens
         /\ Left(Enc(codes, d), q) = EncodeInstr(codes[q + 1], Spell[d]) \o Left(Enc(codes, d), q + 1)
         /\ codes[q + 1] \in Instrs(Ended[d]) /\ BlockEnds(codes[q + 1])
         /\ q + 1 = Len(codes) => codes[q + 1] = EndInstr /\ Left(Enc(codes, d), q + 1) = <<>>
         /\ q + 1 < Len(codes) => InstrOf(codes[q + 1], DOMAIN Spell[d])
         /\ Left(Enc(codes, d), 0) = Spell[d + 1][codes]
<1> DEFINE e == Enc(codes, d)
<1>1. /\ codes \in Seq(Instrs(Ended[d])) /\ Len(codes) \in Nat \ {0}
      /\ codes \in Ended[d + 1] /\ codes[Len(codes)] = EndInstr
      /\ \A i \in 1..(Len(codes) - 1) : InstrOf(codes[i], DOMAIN Spell[d])
      /\ e \in Seq(Tokens) /\ Len(e) = Len(codes)
      /\ \A i \in 1..Len(codes) : e[i] = EncodeInstr(codes[i], Spell[d])
      /\ Spell[d + 1][codes] = FlattenSeq(e)
  BY AllSpelled, ListSpelled
<1>2. q + 1 \in 1..Len(codes) /\ q + 1 \in 0..Len(codes) /\ (q + 1 < Len(codes) => q + 1 \in 1..(Len(codes) - 1))
  BY <1>1
<1> HIDE DEF e
<1>3. /\ Left(e, q) \in Tokens /\ Left(e, q) = e[q + 1] \o Left(e, q + 1)
      /\ Left(e, 0) = FlattenSeq(e) /\ Left(e, Len(e)) = <<>> /\ Left(e, q + 1) \in Tokens
  BY <1>1, <1>2, LeftStep, LeftEnds
<1>4. DOMAIN codes = 1..Len(codes) /\ \A i \in DOMAIN codes : BlockEnds(codes[i])
  BY <1>1, LenProperties, InEnded
<1>5. codes[q + 1] \in Instrs(Ended[d]) /\ BlockEnds(codes[q + 1])
  BY <1>1, <1>2, <1>4, ElementOfSeq
<1>6. e[q + 1] = EncodeInstr(codes[q + 1], Spell[d]) /\ e[q + 1] \in Tokens
  BY <1>1, <1>2, ElementOfSeq
<1> QED
  BY <1>1, <1>2, <1>3, <1>5, <1>6 DEF e

LEMMA StackAppend ==
  ASSUME NEW stack, NEW lists, NEW more, Stacked(stack, lists, more), Continues(stack, lists)
  PROVE  /\ Stacked(WithInstr(stack, Upcoming(stack, lists)), lists, more)
         /\ Toward(WithInstr(stack, Upcoming(stack, lists)), lists, more) = Later(stack, lists, more)
<1> SUFFICES ASSUME NEW n, NEW q, NEW ins, n = Len(stack), q = Len(stack[n].instrs),
                    q + 1 < Len(lists[n]), ins = lists[n][q + 1]
             PROVE  /\ Stacked(WithInstr(stack, ins), lists, more)
                    /\ Toward(WithInstr(stack, ins), lists, more) =
                         Remaining(lists[n], MaxList - n, q + 1, more[n])
  BY DEF Continues, Upcoming, Later
<1> DEFINE w == WithInstr(stack, ins)
           d == MaxList - n
           e == [stack[n] EXCEPT !.instrs = Append(@, ins)]
<1>1. /\ IsSeq(stack) /\ n \in 1..MaxList /\ MaxList \in Nat /\ Frame(stack, lists, more, n)
  BY DecoderAssumption DEF Stacked
<1>2. d \in Nat
  BY <1>1
<1>3. /\ stack[n] \in [op : Nat, type : Nat, instrs : Seq(Instrs(Ended[d]))]
      /\ lists[n] \in DOMAIN Spell[d + 1] /\ stack[n].instrs = SubSeq(lists[n], 1, q)
  BY <1>1 DEF Frame
<1>4. q \in Nat
  BY <1>3, LenProperties
<1> HIDE DEF d
<1>5. lists[n] \in Seq(Instrs(Ended[d])) /\ Len(lists[n]) \in Nat
  BY <1>2, <1>3, AllSpelled, ListSpelled
<1>6. ins \in Instrs(Ended[d])
  BY <1>4, <1>5, ElementOfSeq
<1>7. Append(stack[n].instrs, ins) = SubSeq(lists[n], 1, q + 1) /\ Len(SubSeq(lists[n], 1, q + 1)) = q + 1
  <2>1. q \in 0..(Len(lists[n]) - 1) /\ q + 1 \in 0..Len(lists[n])
    BY <1>4, <1>5
  <2> QED
    BY <1>3, <1>5, <2>1, PrefixStep
<1>8. /\ e \in [op : Nat, type : Nat, instrs : Seq(Instrs(Ended[d]))]
      /\ e.instrs = SubSeq(lists[n], 1, q + 1) /\ Len(e.instrs) = q + 1
      /\ e.op = stack[n].op /\ e.type = stack[n].type
  <2>1. Append(stack[n].instrs, ins) \in Seq(Instrs(Ended[d]))
    BY <1>3, <1>6, AppendProperties
  <2> QED
    BY <1>3, <1>7, <2>1
<1>9. w = [stack EXCEPT ![n] = e]
  BY DEF WithInstr
<1> HIDE DEF e, w
<1>10. DOMAIN stack = 1..n /\ stack # <<>>
  BY <1>1, LenProperties, EmptySeq DEF IsSeq
<1>11. /\ IsSeq(w) /\ Len(w) = n /\ w[n] = e
       /\ \A k \in 1..(n - 1) : w[k] = stack[k]
  <2>1. IsSeq(w) /\ Len(w) = n
    BY <1>1, <1>9, ExceptIsSeq
  <2>2. w[n] = e /\ \A k \in 1..(n - 1) : w[k] = stack[k]
    BY <1>1, <1>9, <1>10
  <2> QED
    BY <2>1, <2>2
<1>12. \A j \in 1..n : Frame(w, lists, more, j)
  <2>1. Frame(w, lists, more, n)
    BY <1>1, <1>8, <1>11 DEF Frame, d
  <2>2. ASSUME NEW j \in 1..(n - 1)
        PROVE  Frame(w, lists, more, j)
    <3>1. Frame(stack, lists, more, j) /\ w[j] = stack[j]
      BY <1>1, <1>11 DEF Stacked
    <3> QED
      BY <3>1 DEF Frame
  <2> QED
    BY <1>1, <2>1, <2>2
<1>13. ASSUME NEW j \in 1..(n - 1)
       PROVE  Link(w, lists, more, j)
  <2>1. Link(stack, lists, more, j) /\ w[j] = stack[j]
    BY <1>11 DEF Stacked
  <2>2. w[j + 1].op = stack[j + 1].op /\ w[j + 1].type = stack[j + 1].type
    <3>1. j + 1 = n \/ j + 1 \in 1..(n - 1)
      BY <1>1
    <3> QED
      BY <1>8, <1>11, <3>1
  <2> QED
    BY <2>1, <2>2 DEF Link
<1>14. Stacked(w, lists, more)
  BY <1>1, <1>11, <1>12, <1>13 DEF Stacked
<1>15. Toward(w, lists, more) = Remaining(lists[n], MaxList - n, q + 1, more[n])
  BY <1>8, <1>11 DEF Toward
<1> QED
  BY <1>14, <1>15 DEF w

(* A block is begun: the calls are new, and t is ahead.                    *)
Deeper(new, t, lists, more) ==
  \E ls, ms : /\ Stacked(new, ls, ms) /\ Toward(new, ls, ms) = t
              /\ ls[1] = lists[1] /\ ms[1] = more[1]

LEMMA StackPush ==
  ASSUME NEW stack, NEW lists, NEW more, Stacked(stack, lists, more), Continues(stack, lists),
         NEW ins, ins = Upcoming(stack, lists), ins.op \in Blocks
  PROVE  /\ Source(ins) \in DOMAIN Spell[MaxList - Len(stack)]
         /\ Deeper(Append(stack, Reader(ins.op, ins.type)),
                   Spell[MaxList - Len(stack)][Source(ins)] \o Later(stack, lists, more), lists, more)
<1> SUFFICES ASSUME NEW n, NEW q, n = Len(stack), q = Len(stack[n].instrs),
                    q + 1 < Len(lists[n]), ins = lists[n][q + 1]
             PROVE  /\ Source(ins) \in DOMAIN Spell[MaxList - n]
                    /\ Deeper(Append(stack, Reader(ins.op, ins.type)),
                              Spell[MaxList - n][Source(ins)]
                                \o Remaining(lists[n], MaxList - n, q + 1, more[n]), lists, more)
  BY DEF Continues, Upcoming, Later
<1> DEFINE r == Reader(ins.op, ins.type)
           new == Append(stack, r)
           rest == Remaining(lists[n], MaxList - n, q + 1, more[n])
           ls == [j \in 1..(n + 1) |-> IF j = n + 1 THEN Source(ins) ELSE lists[j]]
           ms == [j \in 1..(n + 1) |-> IF j = n + 1 THEN rest ELSE more[j]]
           d == MaxList - n
           src == Source(ins)
<1>1. /\ IsSeq(stack) /\ n \in 1..MaxList /\ MaxList \in Nat /\ Frame(stack, lists, more, n)
  BY DecoderAssumption DEF Stacked
<1>2. d \in Nat
  BY <1>1
<1>3. /\ stack[n] \in [op : Nat, type : Nat, instrs : Seq(Instrs(Ended[d]))]
      /\ lists[n] \in DOMAIN Spell[d + 1] /\ more[n] \in Tokens
  BY <1>1 DEF Frame
<1>4. q \in Nat
  BY <1>3, LenProperties
<1> HIDE DEF d
<1>5. /\ InstrOf(ins, DOMAIN Spell[d]) /\ ins \in Instrs(Ended[d])
      /\ Left(Enc(lists[n], d), q + 1) \in Tokens
  <2>1. q < Len(lists[n])
    <3>1. Len(lists[n]) \in Nat
      BY <1>2, <1>3, AllSpelled, ListSpelled
    <3> QED
      BY <1>4, <3>1
  <2>2. PICK codes : codes = lists[n]
    OBVIOUS
  <2>3. codes \in DOMAIN Spell[d + 1] /\ q < Len(codes) /\ q + 1 < Len(codes)
    BY <1>3, <2>1, <2>2
  <2>4. codes[q + 1] \in Instrs(Ended[d]) /\ Left(Enc(codes, d), q + 1) \in Tokens
    BY <1>2, <1>4, <2>3, ListTail
  <2>5. InstrOf(codes[q + 1], DOMAIN Spell[d])
    BY <1>2, <1>4, <2>3, ListTail
  <2> QED
    BY <2>2, <2>4, <2>5
<1>6. src \in DOMAIN Spell[d]
  BY <1>5 DEF InstrOf
<1> DEFINE c == d - 1
<1>7. d # 0 /\ c \in Nat /\ d = c + 1 /\ n + 1 \in 1..MaxList /\ MaxList - (n + 1) = c
  <2>1. d # 0
    BY <1>6, InSpell
  <2> QED
    BY <1>1, <1>2, <2>1 DEF d
<1>8. rest \in Tokens
  <2>1. rest = Left(Enc(lists[n], d), q + 1) \o more[n]
    BY DEF Remaining, d
  <2> QED
    <3> DEFINE a == Left(Enc(lists[n], d), q + 1)
    <3>1. a \in Tokens
      BY <1>5
    <3> HIDE DEF a, rest
    <3>2. a \o more[n] \in Tokens
      BY <1>3, <3>1, Concat
    <3>3. rest = a \o more[n]
      BY <2>1 DEF a
    <3> QED
      BY <3>2, <3>3
<1> HIDE DEF rest, src, r, new, c
<1>9. ls[n + 1] = src /\ ms[n + 1] = rest /\ \A j \in 1..n : ls[j] = lists[j] /\ ms[j] = more[j]
  <2>1. n + 1 \in 1..(n + 1)
    BY <1>1
  <2>2. \A j \in 1..n : j \in 1..(n + 1) /\ j # n + 1
    BY <1>1
  <2> QED
    BY <2>1, <2>2 DEF src
<1> HIDE DEF ls, ms
<1>10. /\ IsSeq(new) /\ Len(new) = n + 1 /\ new[n + 1] = r
       /\ \A j \in 1..n : new[j] = stack[j]
  <2>1. IsSeq(new) /\ Len(new) = n + 1
    BY <1>1, AppendIsSeq DEF new
  <2>2. PICK S : stack \in Seq(S)
    BY <1>1 DEF IsSeq
  <2>3. stack \in Seq(S \cup {r}) /\ r \in S \cup {r}
    BY <2>2, SeqMonotonic
  <2>4. new[n + 1] = r /\ \A j \in 1..n : new[j] = stack[j]
    BY <2>3, AppendProperties DEF new
  <2> QED
    BY <2>1, <2>4
<1>11. r.op = ins.op /\ r.type = ins.type /\ r.instrs = <<>> /\ Len(r.instrs) = 0
  BY DEF r, Reader
<1>12. ASSUME NEW j \in 1..n
       PROVE  Frame(new, ls, ms, j)
  <2>1. Frame(stack, lists, more, j)
    BY DEF Stacked
  <2> QED
    BY <1>9, <1>10, <2>1 DEF Frame
<1>13. Len(src) \in Nat \ {0} /\ Left(Enc(src, c), 0) = Spell[d][src] /\ SubSeq(src, 1, 0) = <<>>
  <2>1. src \in Seq(Instrs(Ended[c])) /\ Len(src) \in Nat \ {0}
    BY <1>6, <1>7, AllSpelled, ListSpelled
  <2>2. 0 \in Nat /\ 0 < Len(src)
    BY <2>1
  <2> QED
    BY <1>6, <1>7, <2>1, <2>2, ListTail, PrefixStep
<1>14. Frame(new, ls, ms, n + 1)
  <2>1. r \in [op : Nat, type : Nat, instrs : Seq(Instrs(Ended[c]))]
    <3>1. ins.op \in Nat /\ ins.type \in Nat
      BY <1>5 DEF Instrs
    <3>2. <<>> \in Seq(Instrs(Ended[c]))
      OBVIOUS
    <3> QED
      BY <3>1, <3>2 DEF r, Reader
  <2> QED
    BY <1>6, <1>7, <1>8, <1>9, <1>10, <1>11, <1>13, <2>1 DEF Frame
<1>15. ASSUME NEW j \in 1..n
       PROVE  Link(new, ls, ms, j)
  <2>1. CASE j = n
    <3>1. new[n] = stack[n] /\ ls[n] = lists[n] /\ ms[n] = more[n]
      BY <1>1, <1>9, <1>10
    <3>2. rest = Left(Enc(lists[n], MaxList - n), q + 1) \o more[n]
      BY DEF rest, Remaining
    <3> QED
      BY <1>9, <1>10, <1>11, <2>1, <3>1, <3>2 DEF Link, src
  <2>2. CASE j # n
    <3>1. j \in 1..(n - 1) /\ j + 1 \in 1..n
      BY <1>1, <2>2
    <3>2. Link(stack, lists, more, j)
      BY <3>1 DEF Stacked
    <3> QED
      BY <1>9, <1>10, <3>1, <3>2 DEF Link
  <2> QED
    BY <2>1, <2>2
<1>16. Stacked(new, ls, ms)
  <2>1. \A j \in 1..(n + 1) : j = n + 1 \/ j \in 1..n
    BY <1>1
  <2>2. \A j \in 1..(n + 1) : Frame(new, ls, ms, j)
    BY <1>12, <1>14, <2>1
  <2>3. (n + 1) - 1 = n
    BY <1>1
  <2> QED
    BY <1>7, <1>10, <1>15, <2>2, <2>3 DEF Stacked
<1>17. Toward(new, ls, ms) = Spell[d][src] \o rest
  BY <1>7, <1>9, <1>10, <1>11, <1>13 DEF Toward, Remaining
<1>18. ls[1] = lists[1] /\ ms[1] = more[1]
  BY <1>1, <1>9
<1>19. Deeper(new, Spell[d][src] \o rest, lists, more)
  BY <1>16, <1>17, <1>18 DEF Deeper
<1> QED
  BY <1>6, <1>19 DEF new, rest, r, d, src

(* A list has been read but for its end.                                   *)
LEMMA ListWhole ==
  ASSUME NEW stack, NEW lists, NEW more, Stacked(stack, lists, more), ~Continues(stack, lists)
  PROVE  Append(stack[Len(stack)].instrs, EndInstr) = lists[Len(stack)]
<1> DEFINE n == Len(stack)
           d == MaxList - n
           p == Len(stack[n].instrs)
           list == lists[n]
<1>1. n \in 1..MaxList /\ MaxList \in Nat /\ Frame(stack, lists, more, n)
  BY DecoderAssumption DEF Stacked
<1>2. d \in Nat
  BY <1>1
<1>3. /\ list \in DOMAIN Spell[d + 1] /\ stack[n].instrs = SubSeq(list, 1, p)
      /\ stack[n].instrs \in Seq(Instrs(Ended[d])) /\ p < Len(list) /\ ~(p + 1 < Len(list))
  BY <1>1 DEF Frame, Continues
<1> HIDE DEF d
<1>4. list \in Seq(Instrs(Ended[d])) /\ list[Len(list)] = EndInstr /\ Len(list) \in Nat
  BY <1>2, <1>3, AllSpelled, ListSpelled
<1>5. p \in Nat
  BY <1>3, LenProperties
<1> HIDE DEF p, list
<1>6. Len(list) = p + 1 /\ p \in 0..(Len(list) - 1)
  BY <1>3, <1>4, <1>5
<1>7. Append(SubSeq(list, 1, p), list[p + 1]) = SubSeq(list, 1, p + 1) /\ SubSeq(list, 1, Len(list)) = list
  BY <1>4, <1>6, PrefixStep
<1> QED
  BY <1>3, <1>4, <1>6, <1>7 DEF list, n

(* A block ends: readControlInstr has its instruction.                     *)
LEMMA StackPop ==
  ASSUME NEW stack, NEW lists, NEW more, Stacked(stack, lists, more), NEW n,
         n = Len(stack), n > 1, Len(stack[n].instrs) + 1 = Len(lists[n])
  PROVE  LET new == WithInstr(Front(stack), BlockInstr(stack[n], Append(stack[n].instrs, EndInstr)))
         IN Stacked(new, lists, more) /\ Toward(new, lists, more) = more[n]
<1> DEFINE f == Front(stack)
           k == n - 1
           q == Len(stack[k].instrs)
           ins == lists[k][q + 1]
           codes == Append(stack[n].instrs, EndInstr)
<1>1. /\ IsSeq(stack) /\ n \in 1..MaxList /\ MaxList \in Nat /\ Frame(stack, lists, more, n)
      /\ k \in 1..n /\ k \in 1..(n - 1) /\ k + 1 = n /\ k \in 1..MaxList /\ n - 1 = k
  BY DecoderAssumption DEF Stacked
<1>2. Frame(stack, lists, more, k) /\ Link(stack, lists, more, k)
  BY <1>1 DEF Stacked
<1>3. codes = lists[n]
  <2>1. ~Continues(stack, lists)
    BY DEF Continues
  <2> QED
    BY <2>1, ListWhole
<1> HIDE DEF k
<1>4. IsSeq(f) /\ Len(f) = k /\ \A j \in 1..k : f[j] = stack[j]
  <2>1. PICK S : stack \in Seq(S)
    BY <1>1 DEF IsSeq
  <2>2. k \in 0..n
    BY <1>1
  <2>3. SubSeq(stack, 1, k) \in Seq(S) /\ Len(SubSeq(stack, 1, k)) = k
    BY <2>1, <2>2, PrefixStep
  <2>4. k \in Nat /\ \A j \in 1..k : stack[j] \in S /\ (1 + j) - 1 = j
    BY <1>1, <2>1, ElementOfSeq
  <2>5. \A j \in 1..k : SubSeq(stack, 1, k)[j] = stack[j]
    BY <2>4
  <2>6. f = SubSeq(stack, 1, k)
    BY <1>1 DEF Front
  <2> HIDE DEF f
  <2> QED
    BY <2>3, <2>5, <2>6 DEF IsSeq
<1> HIDE DEF f
<1>5. Stacked(f, lists, more)
  <2>1. ASSUME NEW j \in 1..k
        PROVE  Frame(f, lists, more, j)
    <3>1. Frame(stack, lists, more, j)
      BY <1>1 DEF Stacked
    <3> QED
      BY <1>4, <3>1 DEF Frame
  <2>2. ASSUME NEW j \in 1..(k - 1)
        PROVE  Link(f, lists, more, j)
    <3>1. j \in 1..(n - 1) /\ j \in 1..k /\ j + 1 \in 1..k
      BY <1>1
    <3>2. Link(stack, lists, more, j)
      BY <3>1 DEF Stacked
    <3> QED
      BY <1>4, <3>1, <3>2 DEF Link
  <2> QED
    BY <1>1, <1>4, <2>1, <2>2 DEF Stacked
<1>6. /\ q + 1 < Len(lists[k]) /\ ins.op \in Blocks
      /\ stack[n].op = ins.op /\ stack[n].type = ins.type /\ lists[n] = Source(ins)
      /\ more[n] = Left(Enc(lists[k], MaxList - k), q + 1) \o more[k]
  BY <1>1, <1>2 DEF Link
<1>7. f[k] = stack[k]
  BY <1>1, <1>4
<1>8. BlockInstr(stack[n], Source(ins)) = ins
  <2> DEFINE d == MaxList - k
  <2>1. d \in Nat
    BY <1>1
  <2>2. lists[k] \in DOMAIN Spell[d + 1] /\ q \in Nat /\ q < Len(lists[k])
    BY <1>2, LenProperties DEF Frame
  <2> HIDE DEF d
  <2>3. /\ ins \in Instrs(Ended[d]) /\ BlockEnds(ins) /\ InstrOf(ins, DOMAIN Spell[d])
    BY <1>6, <2>1, <2>2, ListTail
  <2> HIDE DEF ins
  <2> QED
    BY <1>6, <2>1, <2>3, BlockSpelled
<1>9. /\ Stacked(WithInstr(f, ins), lists, more)
      /\ Toward(WithInstr(f, ins), lists, more) = Remaining(lists[k], MaxList - k, q + 1, more[k])
  <2>1. k = Len(f) /\ q = Len(f[k].instrs)
    BY <1>4, <1>7
  <2>2. Continues(f, lists) /\ Upcoming(f, lists) = ins
        /\ Later(f, lists, more) = Remaining(lists[k], MaxList - k, q + 1, more[k])
    BY <1>6, <2>1 DEF Continues, Upcoming, Later
  <2> QED
    BY <1>5, <2>2, StackAppend
<1> QED
  BY <1>3, <1>6, <1>8, <1>9 DEF f, Remaining

-----------------------------------------------------------------------------
(* The built lists between sections and items.                             *)
LEMMA TheListed ==
  ASSUME NEW m \in Modules, NEW id \in ItemSections \ {SectionCode}
  PROVE  /\ IsSeq(Listed(m, id)) /\ Len(Listed(m, id)) = Len(Items(m, id))
         /\ \A i \in 1..Len(Items(m, id)) : Listed(m, id)[i] = AsRead(id, Items(m, id)[i])
<1>1. /\ KindOf(id) = id /\ Items(m, id) = m.built[id]
      /\ Items(m, id) \in Seq(ItemsOf(id)) /\ Len(Items(m, id)) \in Nat
  BY ItemsEncoded DEF KindOf
<1>2. CASE id = SectionFunction
  <2> DEFINE fs == m.built[SectionFunction]
  <2>1. \A n : /\ Bodies(m, n) = [i \in 1..Len(fs) |-> IF i <= n THEN fs[i] ELSE Declared(fs[i])]
               /\ IsSeq(Bodies(m, n)) /\ Len(Bodies(m, n)) = Len(fs)
    BY TheFunctions
  <2> HIDE DEF fs
  <2>2. \A i \in 1..Len(fs) : Bodies(m, 0)[i] = Declared(fs[i])
    BY <2>1
  <2> QED
    BY <1>1, <1>2, <2>1, <2>2 DEF Listed, AsRead, fs
<1>3. CASE id # SectionFunction
  BY <1>1, <1>3 DEF Listed, AsRead, IsSeq
<1> QED
  BY <1>2, <1>3

LEMMA PartlyBegins ==
  ASSUME NEW m \in Modules, NEW id \in ItemSections
  PROVE  Partly(m, id, 0) = ReadUpTo(m, Place(id) - 1)
<1> DEFINE r == ReadUpTo(m, Place(id) - 1)
           kind == KindOf(id)
<1>1. kind \in SectionType..SectionData
  BY ItemKinds
<1>2. r = [j \in SectionType..SectionData |-> Value(m, j, Place(id) - 1)]
  BY DEF ReadUpTo
<1>3. Partial(m, id, 0) = Value(m, kind, Place(id) - 1)
  <2>1. CASE id = SectionCode
    <3>1. kind = SectionFunction /\ Place(SectionFunction) = 4 /\ Place(id) = 12
      BY <2>1 DEF KindOf, Place, SectionFunction, SectionGlobal, SectionCode
    <3>2. Value(m, SectionFunction, 11) = Bodies(m, 0)
      BY <2>1, <3>1 DEF Value
    <3> QED
      BY <2>1, <3>1, <3>2 DEF Partial
  <2>2. CASE id # SectionCode
    <3>1. IsSeq(Listed(m, id)) /\ kind = id
      BY <2>2, TheListed DEF KindOf
    <3>2. Partial(m, id, 0) = <<>>
      BY <2>2, <3>1, PrefixStep DEF Partial, IsSeq
    <3>3. Place(id) \in Nat
      BY ItemKinds DEF Place, SectionType, SectionData, SectionGlobal
    <3> QED
      BY <3>1, <3>2, <3>3 DEF Value
  <2> QED
    BY <2>1, <2>2
<1> HIDE DEF r, kind
<1>4. [r EXCEPT ![kind] = Value(m, kind, Place(id) - 1)] = r
  BY <1>1, <1>2
<1> QED
  BY <1>3, <1>4 DEF Partly, r, kind

LEMMA PartlyEnds ==
  ASSUME NEW m \in Modules, NEW id \in ItemSections
  PROVE  Partly(m, id, Len(Items(m, id))) = ReadUpTo(m, Place(id))
<1> DEFINE r == ReadUpTo(m, Place(id) - 1)
           kind == KindOf(id)
           n == Len(Items(m, id))
           k == Place(id) - 1
<1>1. kind \in SectionType..SectionData /\ id \in SectionType..SectionData
  BY ItemKinds
<1>2. k \in 0..14 /\ k + 1 = Place(id)
  BY <1>1 DEF Place, SectionType, SectionData, SectionGlobal
<1>3. Partial(m, id, n) = Value(m, kind, k + 1)
  <2>1. CASE id = SectionCode
    <3>1. kind = SectionFunction /\ Place(SectionFunction) = 4 /\ k + 1 = 12 /\ Place(SectionCode) = 12
      BY <1>2, <2>1 DEF KindOf, Place, SectionFunction, SectionGlobal, SectionCode
    <3>2. Value(m, SectionFunction, 12) = m.built[SectionFunction]
      BY <3>1 DEF Value
    <3>3. Bodies(m, n) = m.built[SectionFunction]
      BY <2>1, TheFunctions DEF Items
    <3> QED
      BY <2>1, <3>1, <3>2, <3>3 DEF Partial
  <2>2. CASE id # SectionCode
    <3>1. IsSeq(Listed(m, id)) /\ kind = id /\ Len(Listed(m, id)) = n
      BY <2>2, TheListed DEF KindOf
    <3>2. Partial(m, id, n) = Listed(m, id)
      BY <2>2, <3>1, PrefixStep DEF Partial, IsSeq
    <3>3. k + 1 < Place(SectionCode) \/ id # SectionFunction
      BY <1>2 DEF Place, SectionFunction, SectionGlobal, SectionCode
    <3>4. Place(id) \in Nat
      BY <1>2
    <3> QED
      BY <1>2, <3>1, <3>2, <3>3, <3>4 DEF Value, Listed
  <2> QED
    BY <2>1, <2>2
<1>4. ASSUME NEW j \in SectionType..SectionData, j # kind
      PROVE  Value(m, j, k + 1) = Value(m, j, k)
  <2>1. CASE j = id
    <3>1. id = SectionCode
      BY <1>4, <2>1 DEF KindOf
    <3>2. m.built[id] = <<>>
      BY <3>1, TheModules
    <3>3. Place(id) = 12 /\ id # SectionFunction
      BY <3>1 DEF Place, SectionGlobal, SectionCode, SectionFunction
    <3> QED
      BY <1>2, <2>1, <3>2, <3>3 DEF Value
  <2>2. CASE j # id
    <3>1. Place(j) # k + 1
      <4>1. j \in SectionType..SectionName /\ id \in SectionType..SectionName
        BY <1>1 DEF SectionType, SectionData, SectionName, SectionLength
      <4> QED
        BY <1>2, <2>2, <4>1, Places
    <3>2. ~(j = SectionFunction /\ k + 1 = Place(SectionCode))
      <4>1. ASSUME k + 1 = Place(SectionCode)
            PROVE  id = SectionCode
        BY <1>1, <1>2, <4>1 DEF Place, SectionType, SectionData, SectionGlobal, SectionCode
      <4> QED
        BY <1>4, <4>1 DEF KindOf
    <3> QED
      BY <1>2, <3>1, <3>2, ValueKept
  <2> QED
    BY <2>1, <2>2
<1>5. r = [j \in SectionType..SectionData |-> Value(m, j, k)]
      /\ ReadUpTo(m, k + 1) = [j \in SectionType..SectionData |-> Value(m, j, k + 1)]
  BY DEF ReadUpTo
<1> HIDE DEF r, kind, k, n
<1>6. [r EXCEPT ![kind] = Value(m, kind, k + 1)] = ReadUpTo(m, k + 1)
  BY <1>1, <1>4, <1>5
<1> QED
  BY <1>2, <1>3, <1>6 DEF Partly, r, kind, n

LEMMA UpToEnds ==
  ASSUME NEW m \in Modules
  PROVE  /\ ReadUpTo(m, 0) = [id \in SectionType..SectionData |-> <<>>] /\ NameAt(m, 0) = 0
         /\ ReadUpTo(m, 15) = m.built /\ NameAt(m, 15) = m.name
         /\ \A k : \A id \in SectionType..SectionData :
              Len(ReadUpTo(m, k)[id]) \in Nat /\ Len(ReadUpTo(m, k)[id]) <= MaxList
<1>1. \A id \in SectionType..SectionData : Place(id) \in 1..14
  BY DEF Place, SectionType, SectionData, SectionGlobal
<1>2. Place(SectionName) = 14 /\ Place(SectionCode) = 12
  BY DEF Place, SectionName, SectionLength, SectionGlobal, SectionCode
<1>3. NameAt(m, 0) = 0 /\ NameAt(m, 15) = m.name
  BY <1>2 DEF NameAt
<1>4. ReadUpTo(m, 0) = [id \in SectionType..SectionData |-> <<>>]
  <2>1. \A id \in SectionType..SectionData : Value(m, id, 0) = <<>>
    BY <1>1 DEF Value
  <2> QED
    BY <2>1 DEF ReadUpTo
<1>5. ReadUpTo(m, 15) = m.built
  <2>1. \A id \in SectionType..SectionData : Value(m, id, 15) = m.built[id]
    BY <1>1, <1>2 DEF Value
  <2>2. ReadUpTo(m, 15) = [id \in SectionType..SectionData |-> m.built[id]]
    BY <2>1 DEF ReadUpTo
  <2>3. m.built = [id \in SectionType..SectionData |-> m.built[id]]
    BY TheModules
  <2> QED
    BY <2>2, <2>3, Zenon
<1>6. ASSUME NEW k, NEW id \in SectionType..SectionData
      PROVE  Len(ReadUpTo(m, k)[id]) \in Nat /\ Len(ReadUpTo(m, k)[id]) <= MaxList
  <2>1. MaxList \in Nat /\ m.built[id] \in Seq(ItemsOf(id)) /\ Len(m.built[id]) <= MaxList
    BY TheModules
  <2>2. Len(m.built[id]) \in Nat
    BY <2>1, LenProperties
  <2>3. id = SectionFunction => Len(Bodies(m, 0)) = Len(m.built[id])
    BY TheFunctions
  <2>4. Len(<<>>) \in Nat /\ Len(<<>>) <= MaxList
    BY <2>1
  <2>5. Value(m, id, k) \in {<<>>, m.built[id]} \/ (id = SectionFunction /\ Value(m, id, k) = Bodies(m, 0))
    BY DEF Value
  <2>6. ReadUpTo(m, k)[id] = Value(m, id, k)
    BY DEF ReadUpTo
  <2> QED
    BY <2>1, <2>2, <2>3, <2>4, <2>5, <2>6
<1> QED
  BY <1>3, <1>4, <1>5, <1>6

(* An item is added.                                                       *)
LEMMA PartlyAdds ==
  ASSUME NEW m \in Modules, NEW id \in ItemSections \ {SectionCode},
         NEW n \in 0..(Len(Items(m, id)) - 1)
  PROVE  [Partly(m, id, n) EXCEPT ![id] = Append(@, AsRead(id, Items(m, id)[n + 1]))]
           = Partly(m, id, n + 1)
<1> DEFINE r == ReadUpTo(m, Place(id) - 1)
           x == AsRead(id, Items(m, id)[n + 1])
           a == Partial(m, id, n)
           b == Partial(m, id, n + 1)
<1>1. KindOf(id) = id /\ id \in SectionType..SectionData
  BY ItemKinds DEF KindOf
<1>2. Append(a, x) = b
  <2> DEFINE s == Listed(m, id)
  <2>1. IsSeq(s) /\ Len(s) = Len(Items(m, id)) /\ s[n + 1] = x /\ n \in 0..(Len(s) - 1)
    <3>1. Len(Items(m, id)) \in Nat
      BY ItemsEncoded
    <3>2. n + 1 \in 1..Len(Items(m, id))
      BY <3>1
    <3> QED
      BY <3>2, TheListed
  <2>2. a = SubSeq(s, 1, n) /\ b = SubSeq(s, 1, n + 1)
    BY DEF Partial
  <2> HIDE DEF s, x, a, b
  <2>3. PICK S : s \in Seq(S)
    BY <2>1 DEF IsSeq
  <2> QED
    BY <2>1, <2>2, <2>3, PrefixStep
<1>3. DOMAIN r = SectionType..SectionData
  BY DEF ReadUpTo
<1>4. Partly(m, id, n) = [r EXCEPT ![id] = a] /\ Partly(m, id, n + 1) = [r EXCEPT ![id] = b]
  BY <1>1 DEF Partly
<1> HIDE DEF r, x, a, b
<1> DEFINE p == [r EXCEPT ![id] = a]
<1>5. p[id] = a /\ [p EXCEPT ![id] = Append(p[id], x)] = [r EXCEPT ![id] = b]
  BY <1>1, <1>2, <1>3
<1>6. [p EXCEPT ![id] = Append(@, x)] = [p EXCEPT ![id] = Append(p[id], x)]
  OBVIOUS
<1> QED
  BY <1>4, <1>5, <1>6 DEF x

(* A body is read in two steps: its locals, and its code.                  *)
WithLocals(f, n) == [f EXCEPT !.localCnt = n]
WithCodes(f, codes) == [f EXCEPT !.codes = codes]
Begun(m, id, n) ==
  IF id = SectionCode
  THEN [Partly(m, id, n) EXCEPT ![SectionFunction][n + 1].localCnt = Items(m, id)[n + 1].localCnt]
  ELSE Partly(m, id, n)

LEMMA BodyRead ==
  ASSUME NEW m \in Modules, NEW id, id = SectionCode, NEW n \in 0..(Len(Items(m, id)) - 1)
  PROVE  [Begun(m, id, n) EXCEPT ![SectionFunction][n + 1].codes = Items(m, id)[n + 1].codes]
           = Partly(m, id, n + 1)
<1> DEFINE r == ReadUpTo(m, Place(id) - 1)
           fs == m.built[SectionFunction]
           x == Items(m, id)[n + 1]
           k == n + 1
           a == Bodies(m, n)
           b == Bodies(m, n + 1)
           y == WithLocals(a[k], x.localCnt)
<1>1. Partly(m, id, n) = [r EXCEPT ![SectionFunction] = a]
      /\ Partly(m, id, n + 1) = [r EXCEPT ![SectionFunction] = b]
  BY DEF Partly, Partial, KindOf
<1>2. DOMAIN r = SectionType..SectionData /\ SectionFunction \in SectionType..SectionData
  BY DEF ReadUpTo, SectionType, SectionFunction, SectionData
<1>3. /\ Len(fs) \in Nat /\ k \in 1..Len(fs) /\ x = fs[k] /\ x \in Functions
      /\ a = [i \in 1..Len(fs) |-> IF i <= n THEN fs[i] ELSE Declared(fs[i])]
      /\ b = [i \in 1..Len(fs) |-> IF i <= n + 1 THEN fs[i] ELSE Declared(fs[i])]
  <2>1. x = fs[k] /\ n \in 0..(Len(fs) - 1)
    BY DEF Items
  <2>2. /\ Len(fs) \in 0..MaxList /\ \A i \in 1..Len(fs) : fs[i] \in Functions
        /\ \A j : Bodies(m, j) = [i \in 1..Len(fs) |-> IF i <= j THEN fs[i] ELSE Declared(fs[i])]
    BY TheFunctions
  <2> HIDE DEF fs, x
  <2>3. Len(fs) \in Nat /\ k \in 1..Len(fs)
    BY <2>1, <2>2
  <2> QED
    BY <2>1, <2>2, <2>3
<1> HIDE DEF fs, x, a, b
<1>4. WithCodes(y, x.codes) = x /\ a[k] = Declared(x)
  <2>1. a[k] = Declared(x)
    BY <1>3
  <2>2. x = [typeIdx |-> x.typeIdx, localCnt |-> x.localCnt, codes |-> x.codes]
    BY <1>3 DEF Functions
  <2>3. WithCodes(WithLocals(Declared(x), x.localCnt), x.codes)
          = [typeIdx |-> x.typeIdx, localCnt |-> x.localCnt, codes |-> x.codes]
    <3>1. \A t, l, c, v : WithLocals(Func(t, l, c), v) = Func(t, v, c)
      BY DEF WithLocals, Func
    <3>2. \A t, l, c, v : WithCodes(Func(t, l, c), v) = Func(t, l, v)
      BY DEF WithCodes, Func
    <3>3. WithCodes(WithLocals(Declared(x), x.localCnt), x.codes) = Func(x.typeIdx, x.localCnt, x.codes)
      BY <3>1, <3>2 DEF Declared
    <3> QED
      BY <3>3 DEF Func
  <2> QED
    BY <2>1, <2>2, <2>3
<1>5. [a EXCEPT ![k] = x] = b
  <2>1. ASSUME NEW i \in 1..Len(fs)
        PROVE  [a EXCEPT ![k] = x][i] = b[i]
    <3>1. CASE i = k
      BY <1>3, <3>1
    <3>2. CASE i # k
      <4>1. i <= n <=> i <= n + 1
        BY <1>3, <3>2
      <4> QED
        BY <1>3, <3>2, <4>1
    <3> QED
      BY <3>1, <3>2
  <2>2. DOMAIN a = 1..Len(fs) /\ DOMAIN b = 1..Len(fs)
    BY <1>3
  <2>3. [a EXCEPT ![k] = x] = [i \in 1..Len(fs) |-> [a EXCEPT ![k] = x][i]]
    BY <2>2
  <2>4. b = [i \in 1..Len(fs) |-> b[i]]
    BY <1>3
  <2> QED
    BY <2>1, <2>3, <2>4
<1> HIDE DEF k
<1> DEFINE p == [r EXCEPT ![SectionFunction] = a]
           c == [a EXCEPT ![k] = y]
           q == [r EXCEPT ![SectionFunction] = c]
<1>6. DOMAIN a = 1..Len(fs) /\ [c EXCEPT ![k] = x] = [a EXCEPT ![k] = x] /\ c[k] = y
  BY <1>3
<1>7. Begun(m, id, n) = q
  <2>1. Begun(m, id, n) = [p EXCEPT ![SectionFunction] = [p[SectionFunction] EXCEPT ![k] = WithLocals(p[SectionFunction][k], x.localCnt)]]
    BY <1>1 DEF Begun, WithLocals, x, k
  <2>2. p[SectionFunction] = a
    BY <1>2
  <2> HIDE DEF r
  <2> QED
    BY <1>2, <2>1, <2>2
<1> HIDE DEF r, y, c
<1>8. [q EXCEPT ![SectionFunction][k].codes = x.codes]
        = [q EXCEPT ![SectionFunction] = [q[SectionFunction] EXCEPT ![k] = WithCodes(q[SectionFunction][k], x.codes)]]
  BY DEF WithCodes
<1>9. q[SectionFunction] = c
  BY <1>2
<1>10. [q EXCEPT ![SectionFunction] = b] = [r EXCEPT ![SectionFunction] = b]
  BY <1>2
<1> HIDE DEF q
<1>11. [q EXCEPT ![SectionFunction][k].codes = x.codes] = [q EXCEPT ![SectionFunction] = b]
  BY <1>4, <1>5, <1>6, <1>8, <1>9 DEF c, y
<1> QED
  BY <1>1, <1>7, <1>10, <1>11 DEF x, k

-----------------------------------------------------------------------------
(* The invariant: the decoder is at one of the places of the file of m.    *)
After(m, id, n) == Left(EncodeItems(m, id), n) \o Rest(m, Place(id))

Beginning(m) ==
  /\ status = "header" /\ failbit = FALSE /\ eofbit = FALSE /\ pos = 0
  /\ Ahead(file, 0, <<WasmMagic, m.version>> \o Rest(m, 0))
  /\ section = NoSection /\ item = <<>> /\ exprs = <<>>
  /\ built = ReadUpTo(m, 0) /\ name = NameAt(m, 0)
Between(m, k) ==
  /\ section = NoSection /\ item = <<>> /\ exprs = <<>>
  /\ built = ReadUpTo(m, k) /\ name = NameAt(m, k)
  /\ Ahead(file, pos, Rest(m, k))
Naming(m, start) ==
  /\ m.name # 0 /\ Ahead(file, start, EncodeName(m) \o Rest(m, Place(SectionName)))
  /\ section = Section(SectionCustom, start + 10) /\ exprs = <<>>
  /\ built = ReadUpTo(m, Place(SectionName) - 1)
  /\ \/ pos = start + 3 /\ item = <<>> /\ name = 0
     \/ pos = start + 5 /\ item = <<1, 2>> /\ name = 0
     \/ pos = start + 7 /\ item = <<>> /\ name = 0
     \/ pos = start + 9 /\ item = <<0, 1>> /\ name = 0
     \/ pos = start + 10 /\ item = <<>> /\ name = m.name
Listing(m, id, n) ==
  /\ section = [id |-> id, size |-> Len(Items(m, id)), next |-> n]
  /\ item = <<>> /\ exprs = <<>>
  /\ built = Partly(m, id, n) /\ name = NameAt(m, Place(id))
  /\ Ahead(file, pos, After(m, id, n))
Expressing(m, id, n, lists, more) ==
  LET x == Items(m, id)[n + 1]
  IN /\ section = [id |-> id, size |-> Len(Items(m, id)), next |-> n]
     /\ item = HeadOf(id, x)
     /\ built = Begun(m, id, n) /\ name = NameAt(m, Place(id))
     /\ Stacked(exprs, lists, more) /\ Ahead(file, pos, Toward(exprs, lists, more))
     /\ lists[1] = ExprOf(id, x) /\ more[1] = EncodeTail(id, x) \o After(m, id, n + 1)
Clear(m) == status = "reading" /\ failbit = FALSE /\ eofbit = FALSE /\ version = m.version
Reading(m) ==
  /\ Clear(m)
  /\ \/ \E k \in 0..15 : Between(m, k)
     \/ \E start : Naming(m, start)
     \/ \E id \in ItemSections : \E n \in 0..Len(Items(m, id)) : Listing(m, id, n)
     \/ \E id \in WithExpr : \E n \in 0..(Len(Items(m, id)) - 1) :
          \E lists, more : Expressing(m, id, n, lists, more)
Done(m) == status = "ok" /\ version = m.version /\ name = m.name /\ built = m.built
Follows(m) == Beginning(m) \/ Reading(m) \/ Done(m)

LEMMA Consumed ==
  ASSUME NEW p \in Nat, Consume(p), failbit = FALSE, eofbit = FALSE, Len(file) \in Nat, p <= Len(file)
  PROVE  file' = file /\ pos' = p /\ failbit' = FALSE /\ eofbit' = FALSE
<1>1. (p > Len(file)) = FALSE
  OBVIOUS
<1>2. file' = file
  BY DEF Consume
<1>3. pos' = p
  BY <1>1 DEF Consume
<1>4. failbit' = (failbit \/ p > Len(file)) /\ eofbit' = (eofbit \/ (~failbit /\ p > Len(file)))
  BY DEF Consume
<1> QED
  BY <1>1, <1>2, <1>3, <1>4, Zenon

LEMMA AheadBytes ==
  ASSUME NEW p, NEW a \in Tokens, NEW b \in Tokens, Ahead(file, p, a \o b)
  PROVE  /\ p \in Nat /\ Len(a) \in Nat /\ Len(file) \in Nat
         /\ p + Len(a) <= Len(file) /\ Ahead(file, p + Len(a), b)
         /\ \A i \in 0..(Len(a) - 1) : Byte(p + i) = a[i + 1]
         /\ b # <<>> => p + Len(a) < Len(file)
<1>1. At(file, p, a) /\ Ahead(file, p + Len(a), b)
  BY AheadParts
<1>2. /\ p \in Nat /\ Len(a) \in Nat
      /\ Len(a) >= 1 => Byte(p) = a[1]
      /\ \A i \in 1..(Len(a) - 1) : Byte(p + i) = a[i + 1]
  BY <1>1, ByteAt
<1>3. Len(b) \in Nat /\ Len(file) \in Nat /\ p + Len(a) + Len(b) = Len(file) /\ (b # <<>> => Len(b) # 0)
  BY <1>1, EmptySeq DEF Ahead, At, Tokens
<1>4. ASSUME NEW i \in 0..(Len(a) - 1)
      PROVE  Byte(p + i) = a[i + 1]
  <2>1. CASE i = 0
    BY <1>2, <2>1
  <2>2. CASE i # 0
    BY <1>2, <2>2
  <2> QED
    BY <2>1, <2>2
<1> QED
  BY <1>1, <1>2, <1>3, <1>4

-----------------------------------------------------------------------------
(* Which actions there are where.                                          *)
LEMMA BetweenNext ==
  ASSUME Next, status = "reading", section = NoSection, exprs = <<>>
  PROVE  \/ EndOfFile \/ InvalidSection \/ MoreCode \/ BeginSection \/ StartSection
         \/ SkipCustom \/ NameSection \/ (OutOfMemory /\ ListsFull)
<1>1. ~InSection /\ ~InNames /\ ~InExpr
  BY DEF InSection, InNames, InExpr, NoSection, Section, SectionCustom, SectionType, SectionData,
         SectionLength
<1>2. /\ ~ReadHeader /\ ~ReadSubsection /\ ~ModuleName /\ ~SkipSubsection /\ ~EndNames
      /\ ~EndSection /\ ~TooManyTypes /\ ~ReadItem /\ ~BeginItem
      /\ ~BeginBlock /\ ~ReadInstr /\ ~SkipReserved /\ ~EndExpr /\ ~BreakExpr
  BY <1>1 DEF ReadHeader, ReadSubsection, ModuleName, SkipSubsection, EndNames, EndSection,
              TooManyTypes, ReadItem, BeginItem, MoreItems, BeginBlock, ReadInstr, SkipReserved,
              EndExpr, BreakExpr
<1>3. OutOfMemory => ListsFull
  BY DEF OutOfMemory
<1> QED
  BY <1>2, <1>3 DEF Next

LEMMA NamesNext ==
  ASSUME Next, status = "reading", section.id = SectionCustom, exprs = <<>>
  PROVE  ReadSubsection \/ ModuleName \/ SkipSubsection \/ EndNames
<1>1. ~InSection /\ ~InExpr /\ section # NoSection
  BY DEF InSection, InExpr, NoSection, Section, SectionCustom, SectionType, SectionData, SectionLength
<1>2. /\ ~ReadHeader /\ ~EndSection /\ ~TooManyTypes /\ ~ReadItem /\ ~BeginItem
      /\ ~BeginBlock /\ ~ReadInstr /\ ~SkipReserved /\ ~EndExpr /\ ~BreakExpr /\ ~OutOfMemory
  BY <1>1 DEF ReadHeader, EndSection, TooManyTypes, ReadItem, BeginItem, MoreItems, BeginBlock,
              ReadInstr, SkipReserved, EndExpr, BreakExpr, OutOfMemory
<1>3. /\ ~EndOfFile /\ ~InvalidSection /\ ~MoreCode /\ ~BeginSection /\ ~StartSection
      /\ ~SkipCustom /\ ~NameSection
  BY <1>1 DEF EndOfFile, InvalidSection, MoreCode, BeginSection, StartSection, SkipCustom,
              NameSection, SectionIs, BetweenSections
<1> QED
  BY <1>2, <1>3 DEF Next

LEMMA ItemsNext ==
  ASSUME Next, status = "reading", section.id \in SectionType..SectionData, exprs = <<>>
  PROVE  EndSection \/ TooManyTypes \/ ReadItem \/ BeginItem
<1>1. ~InNames /\ ~InExpr /\ section # NoSection
  BY DEF InNames, InExpr, NoSection, Section, SectionCustom, SectionType, SectionData, SectionLength
<1>2. /\ ~ReadHeader /\ ~ReadSubsection /\ ~ModuleName /\ ~SkipSubsection /\ ~EndNames
      /\ ~BeginBlock /\ ~ReadInstr /\ ~SkipReserved /\ ~EndExpr /\ ~BreakExpr /\ ~OutOfMemory
  BY <1>1 DEF ReadHeader, ReadSubsection, ModuleName, SkipSubsection, EndNames, BeginBlock,
              ReadInstr, SkipReserved, EndExpr, BreakExpr, OutOfMemory
<1>3. /\ ~EndOfFile /\ ~InvalidSection /\ ~MoreCode /\ ~BeginSection /\ ~StartSection
      /\ ~SkipCustom /\ ~NameSection
  BY <1>1 DEF EndOfFile, InvalidSection, MoreCode, BeginSection, StartSection, SkipCustom,
              NameSection, SectionIs, BetweenSections
<1> QED
  BY <1>2, <1>3 DEF Next

LEMMA ExprNext ==
  ASSUME Next, status = "reading", section.id \in WithExpr, exprs # <<>>
  PROVE  \/ BeginBlock \/ ReadInstr \/ SkipReserved \/ EndExpr \/ BreakExpr
         \/ (OutOfMemory /\ Used >= MaxList)
<1>1. ~InNames /\ ~InSection /\ section # NoSection
  BY DEF InNames, InSection, NoSection, Section, SectionCustom, SectionLength, WithExpr, SectionGlobal,
         SectionElement, SectionCode, SectionData
<1>2. /\ ~ReadHeader /\ ~ReadSubsection /\ ~ModuleName /\ ~SkipSubsection /\ ~EndNames
      /\ ~EndSection /\ ~TooManyTypes /\ ~ReadItem /\ ~BeginItem
  BY <1>1 DEF ReadHeader, ReadSubsection, ModuleName, SkipSubsection, EndNames, EndSection,
              TooManyTypes, ReadItem, BeginItem, MoreItems
<1>3. /\ ~EndOfFile /\ ~InvalidSection /\ ~MoreCode /\ ~BeginSection /\ ~StartSection
      /\ ~SkipCustom /\ ~NameSection
  BY <1>1 DEF EndOfFile, InvalidSection, MoreCode, BeginSection, StartSection, SkipCustom,
              NameSection, SectionIs, BetweenSections
<1>4. OutOfMemory => Used >= MaxList
  BY <1>1 DEF OutOfMemory
<1> QED
  BY <1>2, <1>3, <1>4 DEF Next

-----------------------------------------------------------------------------
(* A step to one of the places.                                            *)
LEMMA ToBetween ==
  ASSUME NEW m, NEW k \in 0..15, Clear(m)', section' = NoSection, item' = <<>>, exprs' = <<>>,
         built' = ReadUpTo(m, k), name' = NameAt(m, k), Ahead(file', pos', Rest(m, k))
  PROVE  Follows(m)'
BY DEF Follows, Reading, Between

LEMMA ToNaming ==
  ASSUME NEW m, NEW start, Clear(m)', Naming(m, start)'
  PROVE  Follows(m)'
BY DEF Follows, Reading

LEMMA ToListing ==
  ASSUME NEW m, NEW id \in ItemSections, NEW n \in 0..Len(Items(m, id)), Clear(m)',
         section' = [id |-> id, size |-> Len(Items(m, id)), next |-> n], item' = <<>>, exprs' = <<>>,
         built' = Partly(m, id, n), name' = NameAt(m, Place(id)),
         Ahead(file', pos', After(m, id, n))
  PROVE  Follows(m)'
<1>1. Listing(m, id, n)'
  BY DEF Listing
<1> QED
  BY <1>1 DEF Follows, Reading

LEMMA ToExpressing ==
  ASSUME NEW m, NEW id \in WithExpr, NEW n \in 0..(Len(Items(m, id)) - 1), NEW x, Clear(m)',
         x = Items(m, id)[n + 1],
         section' = [id |-> id, size |-> Len(Items(m, id)), next |-> n], item' = HeadOf(id, x),
         built' = Begun(m, id, n), name' = NameAt(m, Place(id)),
         NEW lists, NEW more,
         Stacked(exprs', lists, more), Ahead(file', pos', Toward(exprs', lists, more)),
         lists[1] = ExprOf(id, x), more[1] = EncodeTail(id, x) \o After(m, id, n + 1)
  PROVE  Follows(m)'
<1>1. Expressing(m, id, n, lists, more)'
  BY DEF Expressing
<1> QED
  BY <1>1 DEF Follows, Reading

(* The file is begun.                                                      *)
LEMMA FollowsInitially ==
  ASSUME NEW m \in Modules, Init, file = File(m)
  PROVE  Follows(m)
<1> DEFINE t == <<WasmMagic, m.version>> \o Rest(m, 0)
<1>1. t \in Tokens
  <2>1. WasmMagic \in Nat
    BY SMT DEF WasmMagic
  <2>2. m.version \in Nat
    BY TheModules
  <2>3. 0 \in 0..15
    OBVIOUS
  <2>4. Rest(m, 0) \in Tokens
    BY <2>3, RestStep, Zenon
  <2> QED
    BY <2>1, <2>2, <2>4, TwoTokens
<1>2. file = t
  BY RestStep
<1> HIDE DEF t
<1>3. Ahead(file, 0, t)
  BY <1>1, <1>2 DEF Ahead, At, Tokens
<1>4. built = ReadUpTo(m, 0) /\ name = NameAt(m, 0)
  BY UpToEnds DEF Init
<1> QED
  BY <1>3, <1>4 DEF Init, Follows, Beginning, t

LEMMA HeaderFollows ==
  ASSUME NEW m \in Modules, Beginning(m), Next
  PROVE  Follows(m)'
<1> DEFINE r == Rest(m, 0)
           h == <<WasmMagic, m.version>>
<1>1. h \in Tokens /\ Len(h) = 2 /\ h[1] = WasmMagic /\ h[2] = m.version /\ r \in Tokens
  <2>1. WasmMagic \in Nat
    BY SMT DEF WasmMagic
  <2>2. m.version \in Nat
    BY TheModules
  <2>3. 0 \in 0..15
    OBVIOUS
  <2>4. r \in Tokens
    BY <2>3, RestStep, Zenon
  <2> QED
    BY <2>1, <2>2, <2>4 DEF Tokens
<1>2. Ahead(file, 0, h \o r)
  BY DEF Beginning
<1> HIDE DEF h, r
<1>3. /\ 0 + Len(h) <= Len(file) /\ Ahead(file, 0 + Len(h), r) /\ Len(file) \in Nat
      /\ \A i \in 0..(Len(h) - 1) : Byte(0 + i) = h[i + 1]
  BY <1>1, <1>2, AheadBytes
<1>4. 2 <= Len(file) /\ Ahead(file, 2, r) /\ Byte(0) = WasmMagic /\ Byte(1) = m.version
  BY <1>1, <1>3
<1>5. ReadHeader
  <2>1. ~InSection /\ ~InNames /\ ~InExpr /\ ~BetweenSections /\ status # "reading"
    BY DEF Beginning, InSection, InNames, InExpr, BetweenSections
  <2>2. /\ ~ReadSubsection /\ ~ModuleName /\ ~SkipSubsection /\ ~EndNames /\ ~OutOfMemory
        /\ ~EndSection /\ ~TooManyTypes /\ ~ReadItem /\ ~BeginItem
        /\ ~BeginBlock /\ ~ReadInstr /\ ~SkipReserved /\ ~EndExpr /\ ~BreakExpr
    BY <2>1 DEF ReadSubsection, ModuleName, SkipSubsection, EndNames, EndSection, OutOfMemory,
                TooManyTypes, ReadItem, BeginItem, MoreItems, BeginBlock, ReadInstr, SkipReserved,
                EndExpr, BreakExpr
  <2>3. /\ ~EndOfFile /\ ~InvalidSection /\ ~MoreCode /\ ~BeginSection /\ ~StartSection
        /\ ~SkipCustom /\ ~NameSection
    BY <2>1 DEF EndOfFile, InvalidSection, MoreCode, BeginSection, StartSection, SkipCustom,
                NameSection, SectionIs
  <2> QED
    BY <2>2, <2>3 DEF Next
<1>6. /\ status' = "reading" /\ version' = m.version /\ Consume(2)
      /\ UNCHANGED <<name, built, section, item, exprs>>
  BY <1>4, <1>5 DEF ReadHeader
<1>7. file' = file /\ pos' = 2 /\ failbit' = FALSE /\ eofbit' = FALSE
  BY <1>3, <1>4, <1>6, Consumed DEF Beginning
<1>8. Ahead(file', pos', Rest(m, 0))
  BY <1>4, <1>7 DEF r
<1>9. section' = NoSection /\ item' = <<>> /\ exprs' = <<>> /\ built' = ReadUpTo(m, 0) /\ name' = NameAt(m, 0)
  BY <1>6 DEF Beginning
<1>10. Clear(m)' /\ 0 \in 0..15
  BY <1>6, <1>7 DEF Clear
<1> HIDE DEF r
<1> QED
  BY <1>8, <1>9, <1>10, ToBetween

-----------------------------------------------------------------------------
(* Between two sections.                                                   *)
LEMMA BetweenMoved ==
  ASSUME NEW m \in Modules, NEW k \in 0..15, Between(m, k)
  PROVE  \E j \in 0..15 : Between(m, j) /\ (j = 15 \/ EncodeSection(m, Order[j + 1]) # <<>>)
<1> DEFINE Moved == \E j \in 0..15 : Between(m, j) /\ (j = 15 \/ EncodeSection(m, Order[j + 1]) # <<>>)
           n == 16
           S == {i \in 1..n : Between(m, n - i) => Moved}
<1>1. n \in Nat \ {0} /\ 1 \in S
  <2>1. n - 1 = 15 /\ 15 \in 0..15 /\ 1 \in 1..n
    OBVIOUS
  <2>2. Between(m, n - 1) => Moved
    BY <2>1
  <2> QED
    BY <2>1, <2>2
<1>2. ASSUME NEW i \in 1..(n - 1), i \in S
      PROVE  i + 1 \in S
  <2> DEFINE l == n - (i + 1)
  <2>1. l \in 0..14 /\ l + 1 = n - i /\ i + 1 \in 1..n /\ l \in 0..15
    OBVIOUS
  <2>2. Between(m, l + 1) => Moved
    BY <1>2, <2>1
  <2> HIDE DEF l
  <2>3. ASSUME Between(m, l)
        PROVE  Moved
    <3>1. CASE EncodeSection(m, Order[l + 1]) = <<>>
      <4>1. /\ ReadUpTo(m, l + 1) = ReadUpTo(m, l) /\ NameAt(m, l + 1) = NameAt(m, l)
            /\ Rest(m, l) = Rest(m, l + 1)
        BY <2>1, <3>1, NothingThere
      <4>2. Between(m, l + 1)
        BY <2>3, <4>1 DEF Between
      <4> QED
        BY <2>2, <4>2
    <3>2. CASE EncodeSection(m, Order[l + 1]) # <<>>
      BY <2>1, <2>3, <3>2
    <3> QED
      BY <3>1, <3>2
  <2> HIDE DEF Moved, n
  <2> QED
    BY <2>1, <2>3 DEF l
<1> HIDE DEF S, n, Moved
<1>3. \A i \in 1..n : i \in S
  BY <1>1, <1>2, RangeInduction
<1>4. n - k \in 1..n /\ n - (n - k) = k
  BY DEF n
<1>5. Moved
  BY <1>3, <1>4 DEF S
<1> QED
  BY <1>5 DEF Moved

LEMMA NotFull ==
  ASSUME NEW m \in Modules, NEW k, built = ReadUpTo(m, k)
  PROVE  ~ListsFull
<1>1. DOMAIN built = SectionType..SectionData
  BY DEF ReadUpTo
<1>2. \A id \in SectionType..SectionData :
        Len(built[id]) \in Nat /\ Len(built[id]) <= MaxList
  BY UpToEnds
<1>3. MaxList \in Nat
  BY DecoderAssumption
<1>4. \A id \in SectionType..SectionData : ~(Len(built[id]) > MaxList)
  BY <1>2, <1>3
<1> QED
  BY <1>1, <1>4 DEF ListsFull

LEMMA EndFollows ==
  ASSUME NEW m \in Modules, Clear(m), Between(m, 15), Next
  PROVE  Follows(m)'
<1>1. pos \in Nat /\ Len(file) \in Nat /\ pos = Len(file)
  <2>1. Ahead(file, pos, <<>>)
    BY RestStep DEF Between
  <2> QED
    BY <2>1 DEF Ahead, At, Tokens
<1>2. ~ListsFull
  BY NotFull DEF Between
<1>3. AtEnd
  BY <1>1 DEF AtEnd, Clear
<1>4. /\ ~InvalidSection /\ ~MoreCode /\ ~BeginSection /\ ~StartSection
      /\ ~SkipCustom /\ ~NameSection
  BY <1>3 DEF InvalidSection, MoreCode, BeginSection, StartSection, SkipCustom,
              NameSection, SectionIs
<1>5. EndOfFile
  BY <1>2, <1>4, BetweenNext DEF Clear, Between
<1>6. status' = "ok" /\ UNCHANGED <<version, name, built>>
  BY <1>5 DEF EndOfFile, End, module
<1>7. built = m.built /\ name = m.name
  BY UpToEnds DEF Between
<1>8. Done(m)'
  BY <1>6, <1>7 DEF Done, Clear
<1> QED
  BY <1>8 DEF Follows

LEMMA SectionChosen ==
  ASSUME Next, status = "reading", section = NoSection, exprs = <<>>, ~ListsFull, failbit = FALSE,
         eofbit = FALSE, pos \in Nat, Len(file) \in Nat, pos < Len(file), NEW id, Byte(pos) = id,
         id \in SectionCustom..SectionData
  PROVE  /\ id = SectionCustom => SkipCustom \/ NameSection
         /\ id = SectionStart => StartSection
         /\ id \in ItemSections =>
              \/ MoreCode /\ id = SectionCode /\ TooLong(Count)
              \/ BeginSection /\ section' = Section(id, Count)
<1>1. ~AtEnd
  BY DEF AtEnd
<1>2. \A j : SectionIs(j) => j = id
  BY DEF SectionIs
<1>3. ~EndOfFile /\ ~InvalidSection
  <2>1. ~EndOfFile
    BY <1>1 DEF EndOfFile
  <2>2. \A j \in SectionLength..255 : j # id
    BY DEF SectionCustom, SectionData, SectionLength
  <2>3. ~InvalidSection
    BY <1>2, <2>2 DEF InvalidSection
  <2> QED
    BY <2>1, <2>3
<1>4. /\ SkipCustom \/ NameSection => id = SectionCustom
      /\ StartSection => id = SectionStart
      /\ MoreCode => id = SectionCode /\ TooLong(Count)
      /\ BeginSection => id \in ItemSections /\ section' = Section(id, Count)
  BY <1>2 DEF SkipCustom, NameSection, StartSection, MoreCode, BeginSection, ItemSections
<1>5. \/ MoreCode \/ BeginSection \/ StartSection \/ SkipCustom \/ NameSection
  BY <1>3, BetweenNext
<1>6. SectionCode \in ItemSections /\ SectionCustom \notin ItemSections /\ SectionStart \notin ItemSections
      /\ SectionStart # SectionCustom
  BY DEF ItemSections, SectionType, SectionData, SectionCode, SectionCustom, SectionStart
<1> QED
  BY <1>4, <1>5, <1>6

LEMMA NothingAdded ==
  ASSUME NEW m, NEW k \in 0..14, k + 1 \in Customs \cup {Place(SectionName)}
  PROVE  /\ ReadUpTo(m, k + 1) = ReadUpTo(m, k)
         /\ k + 1 \in Customs => NameAt(m, k + 1) = NameAt(m, k)
<1>1. Place(SectionCode) = 12 /\ Place(SectionName) = 14 /\ 12 \notin Customs /\ 14 \notin Customs
  BY DEF Place, SectionCode, SectionGlobal, SectionName, SectionLength, Customs
<1>2. ASSUME NEW j \in SectionType..SectionData
      PROVE  Value(m, j, k + 1) = Value(m, j, k)
  <2>1. j \in SectionType..SectionName /\ SectionName \in SectionType..SectionName /\ j # SectionName
    BY DEF SectionType, SectionData, SectionName, SectionLength
  <2>2. Place(j) \notin Customs /\ Place(j) # Place(SectionName)
    BY <2>1, Places
  <2>3. Place(j) # k + 1 /\ k + 1 # Place(SectionCode)
    BY <1>1, <2>2
  <2> QED
    BY <2>3, ValueKept
<1>3. k + 1 \in Customs => NameAt(m, k + 1) = NameAt(m, k)
  BY <1>1 DEF NameAt
<1> QED
  BY <1>2, <1>3 DEF ReadUpTo

LEMMA CustomFollows ==
  ASSUME NEW m \in Modules, Clear(m), NEW k \in 0..14, Between(m, k), k + 1 \in Customs,
         EncodeSection(m, Order[k + 1]) # <<>>, Next
  PROVE  Follows(m)'
<1> DEFINE a == <<SectionCustom, 3, NameWord + 1, 0, 0>>
           r == Rest(m, k + 1)
<1>1. NameWord \in Nat /\ k + 1 \in 0..15
  <2>1. k + 1 \in 0..15
    OBVIOUS
  <2> QED
    BY <2>1, FormatAssumption
<1>2. EncodeSection(m, Order[k + 1]) = a
  <2>1. EncodeSection(m, Order[k + 1]) = EncodeCustom(m)
    BY Places, SectionShapes
  <2> QED
    BY <2>1 DEF EncodeCustom
<1>3. /\ a \in Tokens /\ Len(a) = 5
      /\ a[1] = SectionCustom /\ a[2] = 3 /\ a[3] = NameWord + 1
  BY <1>1 DEF Tokens, SectionCustom
<1> HIDE DEF a
<1>4. r \in Tokens /\ Ahead(file, pos, a \o r)
  <2>1. r \in Tokens /\ Rest(m, k) = a \o r
    BY <1>1, <1>2, RestStep, Zenon
  <2> QED
    BY <2>1 DEF Between
<1> HIDE DEF r
<1>5. /\ pos \in Nat /\ Len(file) \in Nat /\ pos + Len(a) <= Len(file) /\ Ahead(file, pos + Len(a), r)
      /\ \A i \in 0..(Len(a) - 1) : Byte(pos + i) = a[i + 1]
  BY <1>3, <1>4, AheadBytes
<1>6. /\ pos + 5 <= Len(file) /\ Ahead(file, pos + 5, r)
      /\ Byte(pos) = SectionCustom /\ Byte(pos + 1) = 3 /\ Byte(pos + 2) = NameWord + 1
  <2>1. Byte(pos + 0) = a[1] /\ Byte(pos + 1) = a[2] /\ Byte(pos + 2) = a[3]
    BY <1>3, <1>5
  <2> QED
    BY <1>3, <1>5, <2>1
<1>7. SkipCustom
  <2>1. ~ListsFull
    BY NotFull DEF Between
  <2>2. pos < Len(file) /\ SectionCustom \in SectionCustom..SectionData
    BY <1>5, <1>6 DEF SectionCustom, SectionData
  <2>3. SkipCustom \/ NameSection
    BY <1>5, <1>6, <2>1, <2>2, SectionChosen DEF Clear, Between
  <2>4. ~NameSection
    BY <1>1, <1>6 DEF NameSection
  <2> QED
    BY <2>3, <2>4
<1>8. /\ failbit' = FALSE /\ eofbit' = FALSE /\ pos' = pos + 5 /\ file' = file
      /\ UNCHANGED <<status, module, section, item, exprs>>
  <2>1. (failbit \/ pos + 3 > Len(file)) = FALSE
    BY <1>5, <1>6 DEF Clear
  <2>2. CustomEnd(pos) = pos + 5
    BY <1>5, <1>6 DEF CustomEnd
  <2>3. failbit' = FALSE /\ eofbit' = FALSE /\ pos' = CustomEnd(pos)
    BY <1>7, <2>1, Zenon DEF SkipCustom
  <2> QED
    BY <1>7, <2>2, <2>3 DEF SkipCustom
<1>9. ReadUpTo(m, k + 1) = ReadUpTo(m, k) /\ NameAt(m, k + 1) = NameAt(m, k)
  BY NothingAdded
<1>10. /\ Clear(m)' /\ section' = NoSection /\ item' = <<>> /\ exprs' = <<>>
       /\ built' = ReadUpTo(m, k + 1) /\ name' = NameAt(m, k + 1)
  BY <1>8, <1>9 DEF Clear, Between, module
<1>11. Ahead(file', pos', Rest(m, k + 1))
  BY <1>6, <1>8 DEF r
<1> QED
  BY <1>1, <1>10, <1>11, ToBetween

LEMMA NameTokens ==
  ASSUME NEW m \in Modules, m.name # 0
  PROVE  /\ EncodeName(m) \in Tokens /\ Len(EncodeName(m)) = 10
         /\ EncodeName(m)[1] = SectionCustom /\ EncodeName(m)[2] = 8 /\ EncodeName(m)[3] = NameWord
         /\ EncodeName(m)[4] = 1 /\ EncodeName(m)[5] = 2 /\ EncodeName(m)[8] = 0
         /\ EncodeName(m)[9] = 1 /\ EncodeName(m)[10] = m.name
         /\ Rest(m, Place(SectionName)) \in Tokens /\ Place(SectionName) = 14
<1>1. NameWord \in Nat /\ m.name \in Nat
  BY TheModules
<1>2. EncodeName(m) = <<SectionCustom, 8, NameWord, 1, 2, 0, 0, 0, 1, m.name>>
  BY DEF EncodeName
<1>3. Place(SectionName) = 14 /\ 14 \in 0..15
  BY DEF Place, SectionGlobal, SectionName, SectionLength
<1>4. Rest(m, 14) \in Tokens
  BY <1>3, RestStep, Zenon
<1> QED
  BY <1>1, <1>2, <1>3, <1>4 DEF Tokens, SectionCustom

LEMMA NameFollows ==
  ASSUME NEW m \in Modules, Clear(m), NEW k \in 0..14, Between(m, k), k + 1 = Place(SectionName),
         EncodeSection(m, Order[k + 1]) # <<>>, Next
  PROVE  Follows(m)'
<1> DEFINE a == EncodeName(m)
           r == Rest(m, Place(SectionName))
<1>1. NameWord \in Nat /\ k + 1 \in 0..15
  <2>1. k + 1 \in 0..15
    OBVIOUS
  <2> QED
    BY <2>1, FormatAssumption
<1>2. EncodeSection(m, Order[k + 1]) = a /\ m.name # 0
  <2>1. SectionName \in SectionType..SectionName
    BY DEF SectionType, SectionName, SectionLength
  <2>2. EncodeSection(m, Order[k + 1]) = a
    BY <2>1, Places, SectionShapes
  <2> QED
    BY <2>2 DEF EncodeName
<1>3. /\ a \in Tokens /\ Len(a) = 10 /\ r \in Tokens /\ k = 13
      /\ a[1] = SectionCustom /\ a[2] = 8 /\ a[3] = NameWord
  BY <1>2, NameTokens
<1> HIDE DEF a
<1>4. Ahead(file, pos, a \o r)
  <2>1. Rest(m, k) = a \o r
    BY <1>1, <1>2, RestStep, Zenon
  <2> QED
    BY <2>1 DEF Between
<1> HIDE DEF r
<1>5. /\ pos \in Nat /\ Len(file) \in Nat /\ pos + Len(a) <= Len(file)
      /\ \A i \in 0..(Len(a) - 1) : Byte(pos + i) = a[i + 1]
  BY <1>3, <1>4, AheadBytes
<1>6. /\ pos + 10 <= Len(file)
      /\ Byte(pos) = SectionCustom /\ Byte(pos + 1) = 8 /\ Byte(pos + 2) = NameWord
  <2>1. Byte(pos + 0) = a[1] /\ Byte(pos + 1) = a[2] /\ Byte(pos + 2) = a[3]
    BY <1>3, <1>5
  <2> QED
    BY <1>3, <1>5, <2>1
<1>7. NameSection
  <2>1. ~ListsFull
    BY NotFull DEF Between
  <2>2. pos < Len(file) /\ SectionCustom \in SectionCustom..SectionData
    BY <1>5, <1>6 DEF SectionCustom, SectionData
  <2>3. SkipCustom \/ NameSection
    BY <1>5, <1>6, <2>1, <2>2, SectionChosen DEF Clear, Between
  <2>4. ~SkipCustom
    BY <1>6 DEF SkipCustom
  <2> QED
    BY <2>3, <2>4
<1>8. /\ section' = Section(SectionCustom, pos + 10) /\ Consume(pos + 3)
      /\ UNCHANGED <<status, module, item, exprs>>
  <2>1. CustomEnd(pos) = pos + 10
    BY <1>5, <1>6 DEF CustomEnd
  <2> QED
    BY <1>7, <2>1 DEF NameSection
<1>9. file' = file /\ pos' = pos + 3 /\ failbit' = FALSE /\ eofbit' = FALSE
  <2>1. pos + 3 \in Nat /\ pos + 3 <= Len(file)
    BY <1>5, <1>6
  <2> QED
    BY <1>5, <1>8, <2>1, Consumed DEF Clear
<1>10. name = 0 /\ built = ReadUpTo(m, Place(SectionName) - 1)
  BY <1>3, NameTokens, <1>2 DEF Between, NameAt
<1>11. PICK start : start = pos
  OBVIOUS
<1>13. Naming(m, start)'
  <2>1. Ahead(file', start, a \o r)
    BY <1>4, <1>9, <1>11
  <2>2. section' = Section(SectionCustom, start + 10) /\ pos' = start + 3
    BY <1>8, <1>9, <1>11
  <2>3. exprs' = <<>> /\ item' = <<>> /\ name' = 0 /\ built' = ReadUpTo(m, Place(SectionName) - 1)
    BY <1>8, <1>10 DEF Between, module
  <2> QED
    BY <1>2, <2>1, <2>2, <2>3 DEF Naming, a, r
<1>12. Clear(m)'
  BY <1>8, <1>9 DEF Clear, module
<1> QED
  BY <1>12, <1>13, ToNaming

(* The name section: a subsection that is skipped, and the module's name.  *)
LEMMA NamingFacts ==
  ASSUME NEW m \in Modules, NEW start, Naming(m, start)
  PROVE  /\ start \in Nat /\ Len(file) \in Nat /\ start + 10 <= Len(file)
         /\ Ahead(file, start + 10, Rest(m, 14))
         /\ Byte(start + 3) = 1 /\ Byte(start + 4) = 2 /\ Byte(start + 7) = 0 /\ Byte(start + 8) = 1
         /\ Byte(start + 9) = m.name /\ section.id = SectionCustom /\ section.size = start + 10
         /\ section # NoSection
<1> DEFINE a == EncodeName(m)
           r == Rest(m, Place(SectionName))
<1>1. /\ a \in Tokens /\ Len(a) = 10 /\ r \in Tokens /\ Place(SectionName) = 14
      /\ a[4] = 1 /\ a[5] = 2 /\ a[8] = 0 /\ a[9] = 1 /\ a[10] = m.name
  BY NameTokens DEF Naming
<1>2. Ahead(file, start, a \o r)
  BY DEF Naming
<1> HIDE DEF a, r
<1>3. /\ start \in Nat /\ Len(file) \in Nat /\ start + Len(a) <= Len(file)
      /\ Ahead(file, start + Len(a), r)
      /\ \A i \in 0..(Len(a) - 1) : Byte(start + i) = a[i + 1]
  BY <1>1, <1>2, AheadBytes
<1>4. /\ Byte(start + 3) = a[4] /\ Byte(start + 4) = a[5] /\ Byte(start + 7) = a[8]
      /\ Byte(start + 8) = a[9] /\ Byte(start + 9) = a[10]
  <2>1. 3 \in 0..(Len(a) - 1) /\ 4 \in 0..(Len(a) - 1) /\ 7 \in 0..(Len(a) - 1)
        /\ 8 \in 0..(Len(a) - 1) /\ 9 \in 0..(Len(a) - 1)
    BY <1>1
  <2> QED
    BY <1>3, <2>1
<1>5. section.id = SectionCustom /\ section.size = start + 10 /\ section # NoSection
  BY DEF Naming, Section, NoSection, SectionCustom, SectionLength
<1> QED
  BY <1>1, <1>3, <1>4, <1>5 DEF r

LEMMA NamingFollows ==
  ASSUME NEW m \in Modules, Clear(m), NEW start, Naming(m, start), Next
  PROVE  Follows(m)'
<1>1. /\ start \in Nat /\ Len(file) \in Nat /\ start + 10 <= Len(file)
      /\ Ahead(file, start + 10, Rest(m, 14))
      /\ Byte(start + 3) = 1 /\ Byte(start + 4) = 2 /\ Byte(start + 7) = 0 /\ Byte(start + 8) = 1
      /\ Byte(start + 9) = m.name /\ section.id = SectionCustom /\ section.size = start + 10
      /\ section # NoSection
  BY NamingFacts
<1>2. ReadSubsection \/ ModuleName \/ SkipSubsection \/ EndNames
  BY <1>1, NamesNext DEF Clear, Naming
<1>3. ASSUME file' = file, section' = section, built' = built, exprs' = exprs, status' = status,
             version' = version, failbit' = FALSE, eofbit' = FALSE,
             \/ pos' = start + 5 /\ item' = <<1, 2>> /\ name' = 0
             \/ pos' = start + 7 /\ item' = <<>> /\ name' = 0
             \/ pos' = start + 9 /\ item' = <<0, 1>> /\ name' = 0
             \/ pos' = start + 10 /\ item' = <<>> /\ name' = m.name
      PROVE  Follows(m)'
  <2>1. Naming(m, start)'
    BY <1>3 DEF Naming
  <2>2. Clear(m)'
    BY <1>3 DEF Clear
  <2> QED
    BY <2>1, <2>2, ToNaming
<1>4. CASE pos = start + 3 /\ item = <<>> /\ name = 0
  <2>1. MoreNames
    BY <1>1, <1>4 DEF MoreNames
  <2>2. ReadSubsection
    BY <1>2, <1>4, <2>1 DEF ModuleName, SkipSubsection, EndNames
  <2>3. Byte(pos) = 1 /\ Byte(pos + 1) = 2 /\ pos + 2 = start + 5 /\ start + 5 \in Nat /\ start + 5 <= Len(file)
    BY <1>1, <1>4
  <2>4. item' = <<1, 2>> /\ Consume(start + 5) /\ UNCHANGED <<status, module, section, exprs>>
    BY <2>2, <2>3 DEF ReadSubsection
  <2>5. file' = file /\ pos' = start + 5 /\ failbit' = FALSE /\ eofbit' = FALSE
    BY <1>1, <2>3, <2>4, Consumed DEF Clear
  <2> QED
    BY <1>3, <1>4, <2>4, <2>5 DEF module
<1>5. CASE pos = start + 5 /\ item = <<1, 2>> /\ name = 0
  <2>1. item # <<>> /\ item[1] = 1 /\ item[2] = 2
    BY <1>5
  <2>2. SkipSubsection
    BY <1>2, <2>1 DEF ReadSubsection, ModuleName, EndNames
  <2>3. pos + 2 = start + 7
    BY <1>1, <1>5
  <2>4. item' = <<>> /\ Seek(start + 7) /\ UNCHANGED <<status, module, section, exprs>>
    BY <2>1, <2>2, <2>3 DEF SkipSubsection
  <2>5. file' = file /\ pos' = start + 7 /\ failbit' = FALSE /\ eofbit' = FALSE
    BY <2>4 DEF Seek, Clear
  <2> QED
    BY <1>3, <1>5, <2>4, <2>5 DEF module
<1>6. CASE pos = start + 7 /\ item = <<>> /\ name = 0
  <2>1. MoreNames
    BY <1>1, <1>6 DEF MoreNames
  <2>2. ReadSubsection
    BY <1>2, <1>6, <2>1 DEF ModuleName, SkipSubsection, EndNames
  <2>3. Byte(pos) = 0 /\ Byte(pos + 1) = 1 /\ pos + 2 = start + 9 /\ start + 9 \in Nat /\ start + 9 <= Len(file)
    BY <1>1, <1>6
  <2>4. item' = <<0, 1>> /\ Consume(start + 9) /\ UNCHANGED <<status, module, section, exprs>>
    BY <2>2, <2>3 DEF ReadSubsection
  <2>5. file' = file /\ pos' = start + 9 /\ failbit' = FALSE /\ eofbit' = FALSE
    BY <1>1, <2>3, <2>4, Consumed DEF Clear
  <2> QED
    BY <1>3, <1>6, <2>4, <2>5 DEF module
<1>7. CASE pos = start + 9 /\ item = <<0, 1>> /\ name = 0
  <2>1. item # <<>> /\ item[1] = 0
    BY <1>7
  <2>2. ModuleName
    BY <1>2, <2>1 DEF ReadSubsection, SkipSubsection, EndNames
  <2>3. Byte(pos) = m.name /\ pos + 1 = start + 10 /\ start + 10 \in Nat
    BY <1>1, <1>7
  <2>4. /\ item' = <<>> /\ name' = m.name /\ Consume(start + 10)
        /\ UNCHANGED <<status, version, built, section, exprs>>
    BY <2>2, <2>3 DEF ModuleName
  <2>5. file' = file /\ pos' = start + 10 /\ failbit' = FALSE /\ eofbit' = FALSE
    BY <1>1, <2>3, <2>4, Consumed DEF Clear
  <2> QED
    BY <1>3, <2>4, <2>5
<1>8. CASE pos = start + 10 /\ item = <<>> /\ name = m.name
  <2>1. ~MoreNames
    BY <1>1, <1>8 DEF MoreNames, Clear
  <2>2. EndNames
    BY <1>2, <1>8, <2>1 DEF ModuleName, SkipSubsection, ReadSubsection
  <2>3. section' = NoSection /\ UNCHANGED <<stream, status, module, item, exprs>>
    BY <2>2 DEF EndNames
  <2>4. ReadUpTo(m, 14) = ReadUpTo(m, 13) /\ NameAt(m, 14) = m.name /\ Place(SectionName) = 14
    <3>1. Place(SectionName) = 14
      BY DEF Place, SectionGlobal, SectionName, SectionLength
    <3> DEFINE k == 13
    <3>2. k \in 0..14 /\ k + 1 \in Customs \cup {Place(SectionName)} /\ k + 1 = 14
      BY <3>1
    <3> HIDE DEF k
    <3>3. ReadUpTo(m, k + 1) = ReadUpTo(m, k)
      BY <3>2, NothingAdded
    <3> QED
      BY <3>1, <3>2, <3>3 DEF NameAt, k
  <2>5. built' = ReadUpTo(m, 14) /\ name' = NameAt(m, 14) /\ item' = <<>> /\ exprs' = <<>>
    BY <1>8, <2>3, <2>4 DEF Naming, module
  <2>6. Ahead(file', pos', Rest(m, 14)) /\ Clear(m)'
    BY <1>1, <1>8, <2>3 DEF stream, module, Clear
  <2>7. 14 \in 0..15
    OBVIOUS
  <2> QED
    BY <2>3, <2>5, <2>6, <2>7, ToBetween
<1> QED
  BY <1>4, <1>5, <1>6, <1>7, <1>8 DEF Naming

LEMMA StartFollows ==
  ASSUME NEW m \in Modules, Clear(m), NEW k \in 0..14, Between(m, k), k + 1 = Place(SectionStart),
         EncodeSection(m, Order[k + 1]) # <<>>, Next
  PROVE  Follows(m)'
<1> DEFINE s == m.built[SectionStart]
           v == s[1]
           h == <<SectionStart, 1>>
           a == h \o s
           r == Rest(m, k + 1)
<1>1. /\ k + 1 \in 0..15 /\ k + 1 = 10 /\ SectionStart \in SectionType..SectionName
      /\ SectionStart \in SectionType..SectionData /\ SectionStart # SectionFunction
  BY DEF Place, SectionGlobal, SectionStart, SectionType, SectionName, SectionLength, SectionData,
         SectionFunction
<1>2. EncodeSection(m, Order[k + 1]) = <<SectionStart, 1>> \o s /\ s # <<>>
  BY <1>1, Places, SectionShapes
<1>3. s = <<v>> /\ v \in Nat
  <2>1. s \in Seq(Nat) /\ Len(s) <= 1
    BY <1>1, TheModules, TheItems
  <2>5. s # <<>>
    BY <1>2
  <2> HIDE DEF s
  <2>6. Len(s) \in Nat /\ Len(s) # 0
    BY <2>1, <2>5, EmptySeq, LenProperties
  <2>2. Len(s) = 1
    <3> DEFINE l == Len(s)
    <3>1. l <= 1
      BY <2>1
    <3>2. l \in Nat /\ l # 0
      BY <2>6
    <3> HIDE DEF l
    <3>3. l = 1
      BY <3>1, <3>2
    <3> QED
      BY <3>3 DEF l
  <2>3. v \in Nat
    <3>1. 1 \in 1..Len(s)
      BY <2>2
    <3> QED
      BY <2>1, <3>1, ElementOfSeq
  <2>4. s = [i \in 1..1 |-> s[i]]
    BY <2>1, <2>2, LenProperties
  <2> QED
    BY <2>3, <2>4
<1> HIDE DEF s, v
<1>4. EncodeSection(m, Order[k + 1]) = a
  BY <1>2
<1>5. a \in Tokens /\ Len(a) = 3 /\ a[1] = SectionStart /\ a[3] = v
  <2>1. h \in Tokens /\ Len(h) = 2 /\ h[1] = SectionStart
    BY DEF Tokens, SectionStart
  <2>2. s \in Tokens /\ Len(s) = 1 /\ s[1] = v
    <3>1. <<v>> \in Tokens /\ Len(<<v>>) = 1 /\ <<v>>[1] = v
      BY <1>3 DEF Tokens
    <3> QED
      BY <1>3, <3>1
  <2> HIDE DEF h
  <2>3. /\ h \o s \in Tokens /\ Len(h \o s) = Len(h) + Len(s)
        /\ \A i \in 1..Len(h) : (h \o s)[i] = h[i]
        /\ \A i \in 1..Len(s) : (h \o s)[Len(h) + i] = s[i]
    BY <2>1, <2>2, Concat
  <2>4. (h \o s)[1] = SectionStart /\ (h \o s)[2 + 1] = v /\ Len(h \o s) = 3
    BY <2>1, <2>2, <2>3
  <2> QED
    BY <2>3, <2>4
<1> HIDE DEF a
<1>6. r \in Tokens /\ Ahead(file, pos, a \o r)
  <2>1. r \in Tokens /\ Rest(m, k) = a \o r
    BY <1>1, <1>4, RestStep, Zenon
  <2> QED
    BY <2>1 DEF Between
<1> HIDE DEF r
<1>7. /\ pos \in Nat /\ Len(file) \in Nat /\ pos + Len(a) <= Len(file) /\ Ahead(file, pos + Len(a), r)
      /\ \A i \in 0..(Len(a) - 1) : Byte(pos + i) = a[i + 1]
  BY <1>5, <1>6, AheadBytes
<1>8. /\ pos + 3 <= Len(file) /\ Ahead(file, pos + 3, r)
      /\ Byte(pos) = SectionStart /\ Byte(pos + 2) = v
  <2>1. Byte(pos + 0) = a[1] /\ Byte(pos + 2) = a[3]
    BY <1>5, <1>7
  <2> QED
    BY <1>5, <1>7, <2>1
<1>9. StartSection
  <2>1. ~ListsFull
    BY NotFull DEF Between
  <2>2. pos < Len(file) /\ SectionStart \in SectionCustom..SectionData
    BY <1>7, <1>8 DEF SectionCustom, SectionStart, SectionData
  <2> QED
    BY <1>7, <1>8, <2>1, <2>2, SectionChosen DEF Clear, Between
<1>10. /\ built' = [built EXCEPT ![SectionStart] = s] /\ Consume(pos + 3)
       /\ UNCHANGED <<status, version, name, section, item, exprs>>
  BY <1>3, <1>8, <1>9 DEF StartSection
<1>11. file' = file /\ pos' = pos + 3 /\ failbit' = FALSE /\ eofbit' = FALSE
  <2>1. pos + 3 \in Nat
    BY <1>7
  <2> QED
    BY <1>7, <1>8, <1>10, <2>1, Consumed DEF Clear
<1>12. built' = ReadUpTo(m, k + 1)
  <2>1. \A j \in SectionType..SectionData : j # SectionStart => Value(m, j, k + 1) = Value(m, j, k)
    <3> SUFFICES ASSUME NEW j \in SectionType..SectionData, j # SectionStart
                 PROVE  Value(m, j, k + 1) = Value(m, j, k)
      OBVIOUS
    <3>1. j \in SectionType..SectionName
      BY DEF SectionType, SectionData, SectionName, SectionLength
    <3>2. Place(j) # k + 1
      BY <1>1, <3>1, Places
    <3>3. Place(SectionCode) # k + 1
      BY <1>1 DEF Place, SectionCode, SectionGlobal
    <3> QED
      BY <3>2, <3>3, ValueKept
  <2>2. Value(m, SectionStart, k + 1) = s
    BY <1>1 DEF Value, s
  <2>3. built = [j \in SectionType..SectionData |-> Value(m, j, k)]
    BY DEF Between, ReadUpTo
  <2>4. [built EXCEPT ![SectionStart] = s] = [j \in SectionType..SectionData |-> Value(m, j, k + 1)]
    BY <2>1, <2>2, <2>3
  <2> QED
    BY <1>10, <2>4 DEF ReadUpTo
<1>13. name' = NameAt(m, k + 1)
  <2>1. NameAt(m, k + 1) = NameAt(m, k)
    BY <1>1 DEF NameAt, Place, SectionGlobal, SectionName, SectionLength
  <2> QED
    BY <1>10, <2>1 DEF Between
<1>14. Ahead(file', pos', Rest(m, k + 1)) /\ Clear(m)'
  BY <1>8, <1>10, <1>11 DEF r, Clear
<1>15. section' = NoSection /\ item' = <<>> /\ exprs' = <<>>
  BY <1>10 DEF Between
<1> QED
  BY <1>1, <1>12, <1>13, <1>14, <1>15, ToBetween

LEMMA AfterTokens ==
  ASSUME NEW m \in Modules, NEW id \in ItemSections
  PROVE  /\ Rest(m, Place(id)) \in Tokens
         /\ \A n \in 0..Len(Items(m, id)) : After(m, id, n) \in Tokens
         /\ After(m, id, Len(Items(m, id))) = Rest(m, Place(id))
         /\ \A n \in 0..(Len(Items(m, id)) - 1) :
              /\ EncodeItem(id, Items(m, id)[n + 1]) \in Tokens /\ After(m, id, n + 1) \in Tokens
              /\ After(m, id, n) = EncodeItem(id, Items(m, id)[n + 1]) \o After(m, id, n + 1)
<1> DEFINE e == EncodeItems(m, id)
           l == Len(Items(m, id))
           r == Rest(m, Place(id))
<1>1. /\ e \in Seq(Tokens) /\ Len(e) = l /\ l \in Nat
      /\ \A i \in 1..l : e[i] = EncodeItem(id, Items(m, id)[i])
  BY ItemsEncoded
<1>2. r \in Tokens
  <2>1. Place(id) \in 0..15
    BY ItemKinds DEF Place, SectionType, SectionData, SectionGlobal
  <2> QED
    BY <2>1, RestStep
<1> HIDE DEF e, r
<1>3. ASSUME NEW n \in 0..l
      PROVE  After(m, id, n) \in Tokens
  <2>1. Left(e, n) \in Tokens
    BY <1>1, LeftEnds
  <2>2. Left(e, n) \o r \in Tokens
    BY <1>2, <2>1, Concat
  <2> QED
    BY <2>2 DEF After, e, r
<1>4. After(m, id, l) = r
  <2>1. Left(e, l) = <<>>
    BY <1>1, LeftEnds
  <2>2. <<>> \o r = r
    BY <1>2 DEF Tokens
  <2> QED
    BY <2>1, <2>2 DEF After, e, r
<1>5. ASSUME NEW n \in 0..(l - 1)
      PROVE  /\ EncodeItem(id, Items(m, id)[n + 1]) \in Tokens /\ After(m, id, n + 1) \in Tokens
             /\ After(m, id, n) = EncodeItem(id, Items(m, id)[n + 1]) \o After(m, id, n + 1)
  <2> DEFINE k == n + 1
             x == e[k]
             t == Left(e, k)
  <2>1. k \in 0..l /\ k \in 1..l /\ n < Len(e) /\ n \in Nat
    BY <1>1
  <2>2. Left(e, n) = x \o t /\ t \in Tokens /\ x \in Tokens
    <3>1. Left(e, n) = x \o t
      BY <1>1, <2>1, LeftStep
    <3>2. t \in Tokens
      BY <1>1, <2>1, LeftEnds
    <3>3. x \in Tokens
      BY <1>1, <2>1, ElementOfSeq
    <3> QED
      BY <3>1, <3>2, <3>3
  <2>3. x = EncodeItem(id, Items(m, id)[k])
    BY <1>1, <2>1
  <2> HIDE DEF x, t
  <2>4. (x \o t) \o r = x \o (t \o r)
    BY <1>2, <2>2, Assoc
  <2>5. After(m, id, n) = (x \o t) \o r /\ After(m, id, k) = t \o r
    BY <2>2 DEF After, e, r, t
  <2>6. After(m, id, k) \in Tokens
    BY <1>3, <2>1
  <2> QED
    BY <2>2, <2>3, <2>4, <2>5, <2>6
<1> QED
  BY <1>2, <1>3, <1>4, <1>5 DEF r

LEMMA SectionAhead ==
  ASSUME NEW m \in Modules, NEW id \in ItemSections, NEW k \in 0..14, k + 1 = Place(id),
         EncodeSection(m, Order[k + 1]) # <<>>, NEW p, Ahead(file, p, Rest(m, k))
  PROVE  /\ p \in Nat /\ Len(file) \in Nat /\ p + 3 <= Len(file)
         /\ Byte(p) = id /\ Byte(p + 2) = Len(Items(m, id))
         /\ Ahead(file, p + 3, After(m, id, 0))
<1> DEFINE l == Len(Items(m, id))
           c == Len(Content(m, id))
           h == <<id, c>>
           t == <<l>>
           e == Left(EncodeItems(m, id), 0)
           r == Rest(m, Place(id))
<1>1. /\ id \in SectionType..SectionData /\ id \in SectionType..SectionName /\ id \in Nat
      /\ k + 1 \in 0..15
  <2>1. id \in SectionType..SectionData
    BY ItemKinds
  <2>2. k + 1 \in 0..15
    OBVIOUS
  <2> QED
    BY <2>1, <2>2 DEF SectionType, SectionData, SectionName, SectionLength
<1>2. /\ l \in Nat /\ c \in Nat /\ e \in Tokens /\ t \o e \in Tokens
  BY ContentTokens DEF Content
<1>3. EncodeSection(m, Order[k + 1]) = h \o (t \o e)
  <2>1. Order[k + 1] = id
    BY <1>1, Places
  <2> QED
    BY <2>1, SectionShapes DEF Content
<1>4. h \in Tokens /\ Len(h) = 2 /\ h[1] = id /\ t \in Tokens /\ Len(t) = 1 /\ t[1] = l
  BY <1>1, <1>2 DEF Tokens
<1>5. r \in Tokens /\ After(m, id, 0) = e \o r /\ After(m, id, 0) \in Tokens
  <2>1. 0 \in 0..l
    BY <1>2
  <2> QED
    BY <2>1, AfterTokens DEF After
<1>6. Rest(m, k) = (h \o (t \o e)) \o r
  <2>1. Rest(m, k) = EncodeSection(m, Order[k + 1]) \o Rest(m, k + 1)
    BY RestStep, Zenon
  <2> QED
    BY <1>3, <2>1
<1> HIDE DEF l, c, h, t, e, r
<1>7. (h \o (t \o e)) \o r = h \o ((t \o e) \o r)
  <2>1. h \in Tokens /\ t \o e \in Tokens /\ r \in Tokens
    BY <1>2, <1>4, <1>5, Concat
  <2> QED
    BY <2>1, Assoc, ZenonT(30)
<1>8. (t \o e) \o r = t \o (e \o r)
  <2>1. t \in Tokens /\ e \in Tokens /\ r \in Tokens
    BY <1>2, <1>4, <1>5
  <2> QED
    BY <2>1, Assoc, ZenonT(30)
<1> DEFINE x == e \o r
           y == t \o x
<1>9. x \in Tokens /\ y \in Tokens /\ Ahead(file, p, h \o y)
  <2>1. x \in Tokens
    BY <1>2, <1>5, Concat
  <2> HIDE DEF x
  <2>2. t \o x \in Tokens
    BY <1>4, <2>1, Concat
  <2>3. Rest(m, k) = h \o y
    BY <1>6, <1>7, <1>8 DEF x
  <2> QED
    BY <2>1, <2>2, <2>3
<1> HIDE DEF x, y
<1>10. /\ p \in Nat /\ Ahead(file, p + Len(h), y)
       /\ \A i \in 0..(Len(h) - 1) : Byte(p + i) = h[i + 1]
  BY <1>4, <1>9, AheadBytes
<1>11. Ahead(file, p + 2, t \o x) /\ Byte(p) = id
  <2>1. Byte(p + 0) = h[1]
    BY <1>4, <1>10
  <2> QED
    BY <1>4, <1>10, <2>1 DEF y
<1> DEFINE q == p + 2
<1> HIDE DEF q
<1>12. /\ q \in Nat /\ Len(file) \in Nat /\ q + Len(t) <= Len(file) /\ Ahead(file, q + Len(t), x)
       /\ \A i \in 0..(Len(t) - 1) : Byte(q + i) = t[i + 1]
  <2>1. Ahead(file, q, t \o x)
    BY <1>11 DEF q
  <2> QED
    BY <1>4, <1>9, <2>1, AheadBytes
<1>13. q + 1 <= Len(file) /\ Ahead(file, q + 1, x) /\ Byte(q) = l
  <2>1. Byte(q + 0) = t[1]
    BY <1>4, <1>12
  <2> QED
    BY <1>4, <1>12, <2>1
<1>14. q + 1 = p + 3
  BY <1>10 DEF q
<1> QED
  BY <1>5, <1>10, <1>11, <1>12, <1>13, <1>14 DEF q, l, x

LEMMA SectionFollows ==
  ASSUME NEW m \in Modules, Clear(m), NEW id \in ItemSections, NEW k \in 0..14, Between(m, k),
         k + 1 = Place(id), EncodeSection(m, Order[k + 1]) # <<>>, Next
  PROVE  Follows(m)'
<1> DEFINE l == Len(Items(m, id))
<1>1. /\ pos \in Nat /\ Len(file) \in Nat /\ pos + 3 <= Len(file)
      /\ Byte(pos) = id /\ Byte(pos + 2) = l
      /\ Ahead(file, pos + 3, After(m, id, 0))
  BY SectionAhead DEF Between
<1>2. l \in Nat /\ id \in SectionType..SectionData
  BY ItemKinds, ItemsEncoded
<1>3. \/ MoreCode /\ id = SectionCode /\ TooLong(l)
      \/ BeginSection /\ section' = Section(id, l)
  <2>1. ~ListsFull
    BY NotFull DEF Between
  <2>2. pos < Len(file) /\ id \in SectionCustom..SectionData
    BY <1>1, <1>2 DEF SectionCustom, SectionType, SectionData
  <2> QED
    BY <1>1, <2>1, <2>2, SectionChosen DEF Clear, Between, Count
<1>4. BeginSection /\ section' = Section(id, l)
  <2>1. SUFFICES ASSUME id = SectionCode
                 PROVE  ~TooLong(l)
    BY <1>3
  <2> DEFINE fs == m.built[SectionFunction]
  <2>2. Items(m, id) = fs
    BY <2>1 DEF Items
  <2>3. Len(fs) \in Nat /\ Len(Bodies(m, 0)) = Len(fs)
    BY TheFunctions
  <2>4. built[SectionFunction] = Bodies(m, 0)
    <3>1. k = 11 /\ Place(SectionFunction) = 4 /\ Place(SectionCode) = 12
          /\ SectionFunction \in SectionType..SectionData
      BY <2>1 DEF Place, SectionCode, SectionGlobal, SectionFunction, SectionType, SectionData
    <3>2. Value(m, SectionFunction, 11) = Bodies(m, 0)
      BY <3>1 DEF Value
    <3> QED
      BY <3>1, <3>2 DEF Between, ReadUpTo
  <2> HIDE DEF fs
  <2> QED
    BY <2>2, <2>3, <2>4 DEF TooLong
<1>5. Consume(pos + 3) /\ UNCHANGED <<status, module, item, exprs>>
  BY <1>4 DEF BeginSection
<1>6. file' = file /\ pos' = pos + 3 /\ failbit' = FALSE /\ eofbit' = FALSE
  <2>1. pos + 3 \in Nat
    BY <1>1
  <2> QED
    BY <1>1, <1>5, <2>1, Consumed DEF Clear
<1>7. Ahead(file', pos', After(m, id, 0)) /\ Clear(m)'
  BY <1>1, <1>5, <1>6 DEF Clear, module
<1>8. built' = Partly(m, id, 0)
  <2>1. Place(id) - 1 = k
    OBVIOUS
  <2>2. Partly(m, id, 0) = ReadUpTo(m, k)
    BY <2>1, PartlyBegins
  <2> QED
    BY <1>5, <2>2 DEF Between, module
<1>9. name' = NameAt(m, Place(id))
  <2>1. k + 1 # 14
    BY <1>2 DEF Place, SectionGlobal, SectionType, SectionData
  <2>2. NameAt(m, Place(id)) = NameAt(m, k)
    BY <2>1 DEF NameAt, Place, SectionGlobal, SectionName, SectionLength
  <2> QED
    BY <1>5, <2>2 DEF Between, module
<1>10. /\ section' = [id |-> id, size |-> l, next |-> 0] /\ item' = <<>> /\ exprs' = <<>>
       /\ 0 \in 0..l
  BY <1>2, <1>4, <1>5 DEF Section, Between
<1> QED
  BY <1>7, <1>8, <1>9, <1>10, ToListing

LEMMA BetweenFollows ==
  ASSUME NEW m \in Modules, Clear(m), NEW k \in 0..15, Between(m, k), Next
  PROVE  Follows(m)'
<1>1. PICK j \in 0..15 : Between(m, j) /\ (j = 15 \/ EncodeSection(m, Order[j + 1]) # <<>>)
  BY BetweenMoved
<1>2. CASE j = 15
  BY <1>1, <1>2, EndFollows
<1>3. CASE j # 15 /\ EncodeSection(m, Order[j + 1]) # <<>>
  <2>1. j \in 0..14 /\ j + 1 \in 1..15
    BY <1>3
  <2>2. \/ j + 1 \in Customs \/ j + 1 = Place(SectionName) \/ j + 1 = Place(SectionStart)
        \/ \E id \in ItemSections : j + 1 = Place(id)
    <3>1. j + 1 \in Customs \/ \E id \in SectionType..SectionName : j + 1 = Place(id)
      BY <2>1, Places
    <3>2. \A id \in SectionType..SectionName : id \in {SectionName, SectionStart} \cup ItemSections
      BY DEF ItemSections, SectionType, SectionName, SectionData, SectionLength
    <3> QED
      BY <3>1, <3>2
  <2>3. CASE j + 1 \in Customs
    BY <1>1, <1>3, <2>1, <2>3, CustomFollows
  <2>4. CASE j + 1 = Place(SectionName)
    BY <1>1, <1>3, <2>1, <2>4, NameFollows
  <2>5. CASE j + 1 = Place(SectionStart)
    BY <1>1, <1>3, <2>1, <2>5, StartFollows
  <2>6. CASE \E id \in ItemSections : j + 1 = Place(id)
    BY <1>1, <1>3, <2>1, <2>6, SectionFollows
  <2> QED
    BY <2>2, <2>3, <2>4, <2>5, <2>6
<1> QED
  BY <1>1, <1>2, <1>3

-----------------------------------------------------------------------------
(* Between two items.                                                      *)
LEMMA StackBegin ==
  ASSUME NEW codes \in Expressions, NEW rest \in Tokens
  PROVE  /\ Stacked(<<Reader(0, 0)>>, <<codes>>, <<rest>>)
         /\ Toward(<<Reader(0, 0)>>, <<codes>>, <<rest>>) = EncodeExpr(codes) \o rest
<1> DEFINE r == Reader(0, 0)
           s == <<r>>
           ls == <<codes>>
           ms == <<rest>>
           d == MaxList - 1
<1>1. d \in Nat /\ d + 1 = MaxList /\ 1 \in 1..MaxList
  BY DecoderAssumption
<1> HIDE DEF d
<1>2. codes \in DOMAIN Spell[d + 1] /\ EncodeExpr(codes) = Spell[d + 1][codes]
  BY <1>1 DEF Expressions, EncodeExpr
<1>3. codes \in Seq(Instrs(Ended[d])) /\ Len(codes) \in Nat \ {0}
  BY <1>1, <1>2, AllSpelled, ListSpelled
<1>4. 0 \in Nat /\ 0 < Len(codes)
  BY <1>3
<1>5. Left(Enc(codes, d), 0) = EncodeExpr(codes)
  BY <1>1, <1>2, <1>4, ListTail
<1>6. SubSeq(codes, 1, 0) = <<>>
  BY <1>3, PrefixStep
<1>7. /\ r \in [op : Nat, type : Nat, instrs : Seq(Instrs(Ended[d]))]
      /\ r.instrs = <<>> /\ Len(r.instrs) = 0
  <2>1. <<>> \in Seq(Instrs(Ended[d]))
    OBVIOUS
  <2> QED
    BY <2>1 DEF Reader
<1> HIDE DEF r
<1>8. IsSeq(s) /\ Len(s) = 1 /\ s[1] = r /\ ls[1] = codes /\ ms[1] = rest
  BY SingletonIsSeq
<1> HIDE DEF s, ls, ms
<1>9. Frame(s, ls, ms, 1)
  <2>1. MaxList - 1 = d
    BY DEF d
  <2> QED
    BY <1>2, <1>4, <1>6, <1>7, <1>8, <2>1 DEF Frame
<1>10. Stacked(s, ls, ms)
  <2>1. \A j \in 1..1 : j = 1
    OBVIOUS
  <2>2. 1..(1 - 1) = {}
    OBVIOUS
  <2> QED
    BY <1>1, <1>8, <1>9, <2>1, <2>2 DEF Stacked
<1>11. Toward(s, ls, ms) = EncodeExpr(codes) \o rest
  BY <1>5, <1>7, <1>8 DEF Toward, Remaining, d
<1> QED
  BY <1>10, <1>11 DEF s, ls, ms, r

LEMMA ListFollows ==
  ASSUME NEW m \in Modules, Clear(m), NEW id \in ItemSections, NEW n \in 0..Len(Items(m, id)),
         Listing(m, id, n), Next
  PROVE  /\ section.id = id /\ section.size = Len(Items(m, id)) /\ section.next = n
         /\ EndSection \/ TooManyTypes \/ ReadItem \/ BeginItem
         /\ n = Len(Items(m, id)) => EndSection
         /\ n # Len(Items(m, id)) => ~EndSection
<1>1. section.id = id /\ section.size = Len(Items(m, id)) /\ section.next = n
  BY DEF Listing
<1>2. id \in SectionType..SectionData /\ Len(Items(m, id)) \in Nat
  BY ItemKinds, ItemsEncoded
<1>3. EndSection \/ TooManyTypes \/ ReadItem \/ BeginItem
  BY <1>1, <1>2, ItemsNext DEF Clear, Listing
<1>4. n = Len(Items(m, id)) => ~MoreItems
  BY <1>1, <1>2 DEF MoreItems
<1>5. ~MoreItems => ~TooManyTypes /\ ~ReadItem /\ ~BeginItem
  BY DEF TooManyTypes, ReadItem, BeginItem
<1>6. n # Len(Items(m, id)) => ~EndSection
  BY <1>1 DEF EndSection
<1> QED
  BY <1>1, <1>3, <1>4, <1>5, <1>6

LEMMA EndSectionFollows ==
  ASSUME NEW m \in Modules, Clear(m), NEW id \in ItemSections, NEW n, n = Len(Items(m, id)),
         Listing(m, id, n), Next
  PROVE  Follows(m)'
<1>1. n \in 0..Len(Items(m, id))
  BY ItemsEncoded
<1>2. EndSection
  BY <1>1, ListFollows
<1>3. section' = NoSection /\ UNCHANGED <<stream, status, module, item, exprs>>
  BY <1>2 DEF EndSection
<1>4. After(m, id, n) = Rest(m, Place(id)) /\ Partly(m, id, n) = ReadUpTo(m, Place(id))
  BY AfterTokens, PartlyEnds
<1>5. Place(id) \in 0..15
  BY ItemKinds DEF Place, SectionType, SectionData, SectionGlobal
<1>6. Ahead(file', pos', Rest(m, Place(id))) /\ Clear(m)'
  BY <1>3, <1>4 DEF Listing, Clear, stream, module
<1>7. /\ item' = <<>> /\ exprs' = <<>>
      /\ built' = ReadUpTo(m, Place(id)) /\ name' = NameAt(m, Place(id))
  BY <1>3, <1>4 DEF Listing, module
<1> QED
  BY <1>3, <1>5, <1>6, <1>7, ToBetween

LEMMA PlainFollows ==
  ASSUME Typed, NEW m \in Modules, Clear(m), NEW id \in PlainSections,
         NEW n \in 0..(Len(Items(m, id)) - 1), Listing(m, id, n), Next
  PROVE  Follows(m)'
<1> DEFINE x == Items(m, id)[n + 1]
           l == Len(Items(m, id))
           a == EncodePlain(id, x)
           r == After(m, id, n + 1)
<1>1. /\ id \in ItemSections \ {SectionCode} /\ KindOf(id) = id /\ id \notin WithExpr /\ id # SectionCode
  <2>1. SectionCode \in WithExpr
    BY DEF WithExpr
  <2> QED
    BY <2>1, ItemKinds DEF KindOf
<1>2. l \in Nat /\ n \in 0..l /\ n + 1 \in 0..l /\ n + 1 \in 1..l /\ n # l
  <2>1. l \in Nat
    BY <1>1, ItemsEncoded
  <2> HIDE DEF l
  <2>2. n \in 0..(l - 1)
    BY DEF l
  <2> QED
    BY <2>1, <2>2
<1>3. x \in ItemsOf(id)
  BY <1>1, <1>2, ItemsEncoded
<1> HIDE DEF x, l
<1>4. /\ a \in Tokens
      /\ \A p : At(file, p, a) =>
           /\ ReadPlain(id, p) = Read(AsRead(id, x), p + Len(a))
           /\ id = SectionType => Byte(p + 1) <= MaxParams /\ Byte(ReadVec(p + 1).pos) <= MaxParams
  BY <1>3, PlainRead
<1>5. r \in Tokens /\ After(m, id, n) = a \o r
  <2>1. After(m, id, n) = EncodeItem(id, x) \o r /\ r \in Tokens
    BY <1>1, AfterTokens DEF x
  <2> QED
    BY <1>1, <2>1 DEF EncodeItem
<1> HIDE DEF a, r
<1>6. Ahead(file, pos, a \o r)
  BY <1>5 DEF Listing
<1>7. /\ pos \in Nat /\ Len(a) \in Nat /\ Len(file) \in Nat /\ pos + Len(a) <= Len(file)
      /\ Ahead(file, pos + Len(a), r)
  BY <1>4, <1>5, <1>6, AheadBytes
<1>8. At(file, pos, a)
  BY <1>4, <1>5, <1>6, AheadParts
<1>9. /\ section.id = id /\ section.size = l /\ section.next = n
      /\ TooManyTypes \/ ReadItem \/ BeginItem
  BY <1>1, <1>2, ListFollows DEF l
<1>10. ~Overflows
  <2>1. ASSUME Overflows, id = SectionType
        PROVE  FALSE
    <3> DEFINE b == Byte(pos + 1)
               c == Byte(ReadVec(pos + 1).pos)
    <3>1. b <= MaxParams /\ c <= MaxParams
      BY <1>4, <1>8, <2>1
    <3>2. b > MaxParams \/ c > MaxParams
      BY <2>1 DEF Overflows
    <3>3. b \in Nat /\ c \in Nat /\ MaxParams \in Nat
      <4>1. pos + 1 \in Nat
        BY <1>7
      <4>2. ReadVec(pos + 1).pos \in Nat
        BY <4>1, VecType
      <4> QED
        BY <4>1, <4>2, ByteType, DecoderAssumption
    <3> QED
      BY <3>1, <3>2, <3>3
  <2> QED
    BY <1>9, <2>1 DEF Overflows
<1>11. ReadItem
  BY <1>1, <1>9, <1>10 DEF TooManyTypes, BeginItem
<1>12. ReadPlain(section.id, pos) = Read(AsRead(id, x), pos + Len(a))
  BY <1>4, <1>8, <1>9
<1>13. /\ Add(id, AsRead(id, x)) /\ NextItem /\ Consume(pos + Len(a))
       /\ UNCHANGED <<status, version, name, item, exprs>>
  BY <1>9, <1>11, <1>12 DEF ReadItem, Read
<1>14. file' = file /\ pos' = pos + Len(a) /\ failbit' = FALSE /\ eofbit' = FALSE
  <2>1. pos + Len(a) \in Nat
    BY <1>7
  <2> QED
    BY <1>7, <1>13, <2>1, Consumed DEF Clear
<1>15. Ahead(file', pos', After(m, id, n + 1)) /\ Clear(m)'
  BY <1>7, <1>13, <1>14 DEF Clear, r
<1>16. built' = Partly(m, id, n + 1)
  <2>1. [Partly(m, id, n) EXCEPT ![id] = Append(@, AsRead(id, x))] = Partly(m, id, n + 1)
    BY <1>1, PartlyAdds DEF x
  <2> QED
    BY <1>13, <2>1 DEF Add, Listing
<1>17. section' = [id |-> id, size |-> l, next |-> n + 1]
  <2>1. section = [id |-> id, size |-> l, next |-> n]
    BY DEF Listing, l
  <2>2. section' = [section EXCEPT !.next = @ + 1]
    BY <1>13 DEF NextItem
  <2> QED
    BY <2>1, <2>2
<1>18. item' = <<>> /\ exprs' = <<>> /\ name' = NameAt(m, Place(id))
  BY <1>13 DEF Listing
<1> DEFINE k == n + 1
<1>19. k \in 0..Len(Items(m, id))
  BY <1>2 DEF l
<1> HIDE DEF k
<1> QED
  BY <1>1, <1>15, <1>16, <1>17, <1>18, <1>19, ToListing DEF k, l

LEMMA HeadFollows ==
  ASSUME NEW m \in Modules, Clear(m), NEW id \in WithExpr,
         NEW n \in 0..(Len(Items(m, id)) - 1), Listing(m, id, n), Next
  PROVE  Follows(m)'
<1> DEFINE x == Items(m, id)[n + 1]
           l == Len(Items(m, id))
           a == EncodeHead(id, x)
           b == EncodeExpr(ExprOf(id, x))
           c == EncodeTail(id, x)
           r == After(m, id, n + 1)
           codes == ExprOf(id, x)
<1>1. id \in ItemSections
  BY ItemKinds
<1>2. l \in Nat /\ n \in 0..l /\ n + 1 \in 1..l /\ n # l
  <2>1. l \in Nat
    BY <1>1, ItemsEncoded
  <2> HIDE DEF l
  <2>2. n \in 0..(l - 1)
    BY DEF l
  <2> QED
    BY <2>1, <2>2
<1>3. x \in ItemsOf(KindOf(id))
  BY <1>1, <1>2, ItemsEncoded
<1> HIDE DEF x, l
<1>4. /\ codes \in Expressions /\ a \in Tokens /\ c \in Tokens
      /\ \A p : At(file, p, a) => ReadHead(id, p) = Read(HeadOf(id, x), p + Len(a))
      /\ id = SectionCode => x \in Functions
  BY <1>3, HeadRead
<1>5. b \in Tokens
  BY <1>4, ExprTokens
<1>6. r \in Tokens /\ After(m, id, n) = EncodeItem(id, x) \o r
  BY <1>1, AfterTokens DEF x
<1>7. EncodeItem(id, x) = (a \o b) \o c
  BY DEF EncodeItem
<1> HIDE DEF a, b, c, r, codes
<1> DEFINE rest == c \o r
           next == b \o rest
<1>8. rest \in Tokens /\ next \in Tokens /\ After(m, id, n) = a \o next
  <2>1. a \o b \in Tokens
    BY <1>4, <1>5, Concat
  <2>2. ((a \o b) \o c) \o r = (a \o b) \o (c \o r)
    BY <1>4, <1>6, <2>1, Assoc
  <2>3. rest \in Tokens
    BY <1>4, <1>6, Concat
  <2> HIDE DEF rest
  <2>4. (a \o b) \o rest = a \o (b \o rest)
    BY <1>4, <1>5, <2>3, Assoc
  <2>5. b \o rest \in Tokens
    BY <1>5, <2>3, Concat
  <2> QED
    BY <1>6, <1>7, <2>2, <2>3, <2>4, <2>5 DEF rest
<1> HIDE DEF rest, next
<1>9. Ahead(file, pos, a \o next)
  BY <1>8 DEF Listing
<1>10. /\ pos \in Nat /\ Len(a) \in Nat /\ Len(file) \in Nat /\ pos + Len(a) <= Len(file)
       /\ Ahead(file, pos + Len(a), next)
  BY <1>4, <1>8, <1>9, AheadBytes
<1>11. At(file, pos, a)
  BY <1>4, <1>8, <1>9, AheadParts
<1>12. /\ section.id = id /\ section.size = l /\ section.next = n
       /\ TooManyTypes \/ ReadItem \/ BeginItem
  BY <1>1, <1>2, ListFollows DEF l
<1>13. BeginItem
  <2>1. SectionType \notin WithExpr
    BY DEF WithExpr, SectionType, SectionGlobal, SectionElement, SectionCode, SectionData
  <2>2. ~ReadItem
    BY <1>12 DEF ReadItem
  <2>3. ~Overflows
    BY <1>12, <2>1 DEF Overflows
  <2> QED
    BY <1>12, <2>2, <2>3 DEF TooManyTypes
<1>14. ReadHead(section.id, pos) = Read(HeadOf(id, x), pos + Len(a))
  BY <1>4, <1>11, <1>12
<1>15. /\ item' = HeadOf(id, x) /\ exprs' = <<Reader(0, 0)>> /\ Consume(pos + Len(a))
       /\ built' = IF id = SectionCode
                   THEN [built EXCEPT ![SectionFunction][n + 1].localCnt = HeadOf(id, x)[1]]
                   ELSE built
       /\ UNCHANGED <<status, version, name, section>>
  BY <1>12, <1>13, <1>14 DEF BeginItem, Read
<1>16. file' = file /\ pos' = pos + Len(a) /\ failbit' = FALSE /\ eofbit' = FALSE
  <2>1. pos + Len(a) \in Nat
    BY <1>10
  <2> QED
    BY <1>10, <1>15, <2>1, Consumed DEF Clear
<1>17. built' = Begun(m, id, n)
  <2>1. id = SectionCode => HeadOf(id, x)[1] = x.localCnt
    <3>1. id = SectionCode => HeadOf(id, x) = <<x.localCnt>>
      BY TheExprs
    <3> QED
      BY <3>1
  <2>2. built = Partly(m, id, n)
    BY DEF Listing
  <2> QED
    BY <1>15, <2>1, <2>2 DEF Begun, x
<1>18. /\ Stacked(exprs', <<codes>>, <<rest>>)
       /\ Toward(exprs', <<codes>>, <<rest>>) = EncodeExpr(codes) \o rest
  BY <1>4, <1>8, <1>15, StackBegin
<1>19. Ahead(file', pos', Toward(exprs', <<codes>>, <<rest>>)) /\ Clear(m)'
  <2>1. Toward(exprs', <<codes>>, <<rest>>) = next
    BY <1>18 DEF next, b, codes
  <2> QED
    BY <1>10, <1>15, <1>16, <2>1 DEF Clear
<1>20. section' = [id |-> id, size |-> l, next |-> n] /\ name' = NameAt(m, Place(id))
  BY <1>15 DEF Listing, l
<1> DEFINE lists == <<codes>>
           more == <<rest>>
<1>21. lists[1] = codes /\ more[1] = rest
  OBVIOUS
<1> HIDE DEF lists, more
<1>22. Stacked(exprs', lists, more) /\ Ahead(file', pos', Toward(exprs', lists, more))
  BY <1>18, <1>19 DEF lists, more
<1>23. lists[1] = ExprOf(id, x) /\ more[1] = EncodeTail(id, x) \o After(m, id, n + 1)
  BY <1>21 DEF codes, rest, c, r
<1> QED
  BY <1>15, <1>17, <1>19, <1>20, <1>22, <1>23, ToExpressing DEF x, l

-----------------------------------------------------------------------------
(* In an expression.                                                       *)
LEMMA StackAhead ==
  ASSUME NEW stack, NEW lists, NEW more, Stacked(stack, lists, more), NEW ins, ins = Upcoming(stack, lists)
  PROVE  /\ Len(stack) \in 1..MaxList /\ MaxList - Len(stack) \in Nat
         /\ Len(stack) + Len(stack[Len(stack)].instrs) < MaxList
         /\ ins \in Instrs(Ended[MaxList - Len(stack)])
         /\ Later(stack, lists, more) \in Tokens
         /\ EncodeInstr(ins, Spell[MaxList - Len(stack)]) \in Tokens
         /\ Toward(stack, lists, more) =
              EncodeInstr(ins, Spell[MaxList - Len(stack)]) \o Later(stack, lists, more)
         /\ Continues(stack, lists) => InstrOf(ins, DOMAIN Spell[MaxList - Len(stack)])
         /\ ~Continues(stack, lists) =>
              /\ ins = EndInstr /\ Later(stack, lists, more) = more[Len(stack)]
              /\ Len(stack[Len(stack)].instrs) + 1 = Len(lists[Len(stack)])
<1> DEFINE n == Len(stack)
           d == MaxList - n
           q == Len(stack[n].instrs)
           list == lists[n]
           rest == more[n]
           a == EncodeInstr(list[q + 1], Spell[d])
           b == Left(Enc(list, d), q + 1)
<1>1. n \in 1..MaxList /\ MaxList \in Nat /\ Frame(stack, lists, more, n)
  BY DecoderAssumption DEF Stacked
<1>2. d \in Nat
  BY <1>1
<1>3. /\ list \in DOMAIN Spell[d + 1] /\ rest \in Tokens
      /\ stack[n].instrs \in Seq(Instrs(Ended[d])) /\ q < Len(list)
  BY <1>1 DEF Frame
<1>4. q \in Nat
  BY <1>3, LenProperties
<1>5. ins = list[q + 1] /\ (Continues(stack, lists) <=> q + 1 < Len(list))
  BY DEF Upcoming, Continues
<1>6. Toward(stack, lists, more) = Left(Enc(list, d), q) \o rest /\ Later(stack, lists, more) = b \o rest
  BY DEF Toward, Later, Remaining
<1> HIDE DEF d, list, q, rest
<1>7. Len(list) \in Nat /\ Len(list) <= d
  BY <1>2, <1>3, AllSpelled, ListSpelled
<1>8. /\ Left(Enc(list, d), q) = a \o b /\ a \in Tokens /\ b \in Tokens
      /\ list[q + 1] \in Instrs(Ended[d])
      /\ q + 1 = Len(list) => list[q + 1] = EndInstr /\ b = <<>>
      /\ q + 1 < Len(list) => InstrOf(list[q + 1], DOMAIN Spell[d])
  BY <1>2, <1>3, <1>4, ListTail
<1> HIDE DEF a, b
<1>9. /\ (a \o b) \o rest = a \o (b \o rest) /\ b \o rest \in Tokens
      /\ b = <<>> => b \o rest = rest
  <2>1. (a \o b) \o rest = a \o (b \o rest)
    BY <1>3, <1>8, Assoc
  <2>2. b \o rest \in Tokens
    BY <1>3, <1>8, Concat
  <2>3. <<>> \o rest = rest
    BY <1>3 DEF Tokens
  <2> QED
    BY <2>1, <2>2, <2>3
<1>10. n + q < MaxList
  BY <1>1, <1>3, <1>4, <1>7 DEF d
<1>11. ~(q + 1 < Len(list)) => q + 1 = Len(list)
  BY <1>3, <1>4, <1>7
<1>12. Toward(stack, lists, more) = a \o Later(stack, lists, more) /\ Later(stack, lists, more) \in Tokens
  BY <1>6, <1>8, <1>9
<1>13. /\ Continues(stack, lists) => InstrOf(ins, DOMAIN Spell[d])
       /\ ~Continues(stack, lists) =>
            ins = EndInstr /\ Later(stack, lists, more) = rest /\ q + 1 = Len(list)
  BY <1>5, <1>6, <1>8, <1>9, <1>11
<1>14. a = EncodeInstr(ins, Spell[d])
  BY <1>5 DEF a
<1> QED
  BY <1>1, <1>2, <1>5, <1>8, <1>10, <1>12, <1>13, <1>14 DEF d, list, q, rest

LEMMA ExprFollows ==
  ASSUME NEW m \in Modules, Clear(m), NEW id \in WithExpr, NEW n \in 0..(Len(Items(m, id)) - 1),
         NEW lists, NEW more, Expressing(m, id, n, lists, more), Next
  PROVE  /\ section.id = id /\ section.next = n /\ exprs # <<>>
         /\ Used < MaxList
         /\ BeginBlock \/ ReadInstr \/ SkipReserved \/ EndExpr \/ BreakExpr
<1>1. Stacked(exprs, lists, more) /\ section.id = id /\ section.next = n
  BY DEF Expressing
<1>2. /\ Len(exprs) \in 1..MaxList
      /\ Len(exprs) + Len(exprs[Len(exprs)].instrs) < MaxList
  BY <1>1, StackAhead
<1>3. Len(exprs[Len(exprs)].instrs) \in Nat /\ MaxList \in Nat
  BY <1>1, <1>2, LenProperties, DecoderAssumption DEF Stacked, Frame
<1>4. Used < MaxList /\ ~(Used >= MaxList)
  BY <1>2, <1>3 DEF Used, Inner
<1>5. exprs # <<>>
  BY <1>1, <1>2, EmptySeq DEF Stacked, IsSeq
<1>6. \/ BeginBlock \/ ReadInstr \/ SkipReserved \/ EndExpr \/ BreakExpr
  BY <1>1, <1>4, <1>5, ExprNext DEF Clear
<1> QED
  BY <1>1, <1>4, <1>5, <1>6

LEMMA BlockFollows ==
  ASSUME NEW m \in Modules, Clear(m), NEW id \in WithExpr, NEW n \in 0..(Len(Items(m, id)) - 1),
         NEW lists, NEW more, Expressing(m, id, n, lists, more), Next,
         NEW ins, ins = Upcoming(exprs, lists), ins.op \in Blocks
  PROVE  Follows(m)'
<1> DEFINE d == MaxList - Len(exprs)
           b == Spell[d][Source(ins)]
           r == Later(exprs, lists, more)
           h == <<ins.op, ins.type>>
<1>1. /\ ins \in Instrs(Ended[d]) /\ r \in Tokens /\ d \in Nat
      /\ Toward(exprs, lists, more) = EncodeInstr(ins, Spell[d]) \o r
      /\ ~Continues(exprs, lists) => ins = EndInstr
  <2>1. Stacked(exprs, lists, more)
    BY DEF Expressing
  <2>2. /\ ins \in Instrs(Ended[MaxList - Len(exprs)])
        /\ Later(exprs, lists, more) \in Tokens /\ MaxList - Len(exprs) \in Nat
    BY <2>1, StackAhead
  <2>3. Toward(exprs, lists, more) =
          EncodeInstr(ins, Spell[MaxList - Len(exprs)]) \o Later(exprs, lists, more)
    BY <2>1, StackAhead
  <2>4. ~Continues(exprs, lists) => ins = EndInstr
    BY <2>1, StackAhead
  <2> QED
    BY <2>2, <2>3, <2>4
<1>2. Continues(exprs, lists)
  <2>1. EndInstr.op \notin Blocks
    BY DEF EndInstr, Instr, Op_end, Blocks, Op_block, Op_if
  <2> QED
    BY <1>1, <2>1
<1>3. /\ Source(ins) \in DOMAIN Spell[d]
      /\ Deeper(Append(exprs, Reader(ins.op, ins.type)), b \o r, lists, more)
  <2>1. Stacked(exprs, lists, more)
    BY DEF Expressing
  <2> QED
    BY <1>2, <2>1, StackPush
<1>4. b \in Tokens
  BY <1>1, <1>3, AllSpelled DEF Spelled
<1>5. h \in Tokens /\ Len(h) = 2 /\ h[1] = ins.op /\ h[2] = ins.type
  BY <1>1 DEF Instrs, Tokens
<1>6. EncodeInstr(ins, Spell[d]) = h \o b
  BY DEF EncodeInstr
<1> HIDE DEF d, b, r, h
<1> DEFINE t == b \o r
<1>7. t \in Tokens /\ Toward(exprs, lists, more) = h \o t
  <2>1. (h \o b) \o r = h \o (b \o r) /\ b \o r \in Tokens
    <3>1. (h \o b) \o r = h \o (b \o r)
      BY <1>1, <1>4, <1>5, Assoc
    <3>2. b \o r \in Tokens
      BY <1>1, <1>4, Concat
    <3> QED
      BY <3>1, <3>2
  <2> QED
    BY <1>1, <1>6, <2>1
<1> HIDE DEF t
<1>8. Ahead(file, pos, h \o t)
  BY <1>7 DEF Expressing
<1>9. /\ pos \in Nat /\ Len(file) \in Nat /\ pos + Len(h) <= Len(file) /\ Ahead(file, pos + Len(h), t)
      /\ \A i \in 0..(Len(h) - 1) : Byte(pos + i) = h[i + 1]
  BY <1>5, <1>7, <1>8, AheadBytes
<1>10. /\ pos + 2 <= Len(file) /\ pos + 2 \in Nat /\ Ahead(file, pos + 2, t)
       /\ Byte(pos) = ins.op /\ Byte(pos + 1) = ins.type
  <2>1. Byte(pos + 0) = h[1] /\ Byte(pos + 1) = h[2]
    BY <1>5, <1>9
  <2> QED
    BY <1>5, <1>9, <2>1
<1>11. Opcode = ins.op
  BY <1>10 DEF Opcode
<1>12. BeginBlock
  <2>1. BeginBlock \/ ReadInstr \/ SkipReserved \/ EndExpr \/ BreakExpr
    BY ExprFollows
  <2>2. \A op \in Blocks :
          op \notin Reserved /\ op # Op_end /\ op \notin Invalid /\ op \notin MemorySizes
    BY DEF Blocks, Op_block, Op_if, Reserved, Op_else, Op_end, Invalid, Op_f64_reinterpret_i64, MemorySizes,
           Op_i64_store32, Op_memory_grow
  <2>3. ~ReadInstr /\ ~SkipReserved /\ ~EndExpr /\ ~BreakExpr
    BY <1>11, <2>2 DEF ReadInstr, SkipReserved, EndExpr, BreakExpr, FlagWrong
  <2> QED
    BY <2>1, <2>3
<1>13. /\ exprs' = Append(exprs, Reader(ins.op, ins.type)) /\ Consume(pos + 2)
       /\ UNCHANGED <<status, module, section, item>>
  BY <1>10, <1>11, <1>12 DEF BeginBlock
<1>14. file' = file /\ pos' = pos + 2 /\ failbit' = FALSE /\ eofbit' = FALSE
  BY <1>9, <1>10, <1>13, Consumed DEF Clear
<1>15. PICK ls, ms : /\ Stacked(exprs', ls, ms) /\ Toward(exprs', ls, ms) = t
                     /\ ls[1] = lists[1] /\ ms[1] = more[1]
  BY <1>3, <1>13 DEF t, Deeper
<1>16. Clear(m)' /\ Ahead(file', pos', Toward(exprs', ls, ms))
  BY <1>10, <1>13, <1>14, <1>15 DEF Clear, module
<1> DEFINE x == Items(m, id)[n + 1]
<1>17. /\ section' = [id |-> id, size |-> Len(Items(m, id)), next |-> n]
       /\ item' = HeadOf(id, x) /\ built' = Begun(m, id, n) /\ name' = NameAt(m, Place(id))
       /\ ls[1] = ExprOf(id, x) /\ ms[1] = EncodeTail(id, x) \o After(m, id, n + 1)
  BY <1>13, <1>15 DEF Expressing, module
<1> HIDE DEF x
<1> QED
  BY <1>15, <1>16, <1>17, ToExpressing DEF x

LEMMA InstrFollows ==
  ASSUME NEW m \in Modules, Clear(m), NEW id \in WithExpr, NEW n \in 0..(Len(Items(m, id)) - 1),
         NEW lists, NEW more, Expressing(m, id, n, lists, more), Next,
         NEW ins, ins = Upcoming(exprs, lists), ins.op \notin Blocks, Continues(exprs, lists)
  PROVE  Follows(m)'
<1> DEFINE d == MaxList - Len(exprs)
           r == Later(exprs, lists, more)
           op == ins.op
           imm == EncodeImm(ins)
           h == <<op>>
           a == h \o imm
<1>1. /\ ins \in Instrs(Ended[d]) /\ r \in Tokens
      /\ Toward(exprs, lists, more) = EncodeInstr(ins, Spell[d]) \o r
      /\ InstrOf(ins, DOMAIN Spell[d])
  BY StackAhead DEF Expressing
<1>2. /\ ins = Instr(op, ins.imm, 0, <<>>, 0) /\ ins.imm \in ImmediatesOf(op)
      /\ op \in 0..Op_f64_reinterpret_i64 /\ op \notin Reserved \cup {Op_end}
  BY <1>1 DEF InstrOf
<1>3. op \in PlainOps /\ op \in Nat
  <2>1. op \in Nat
    <3>1. \A o \in 0..Op_f64_reinterpret_i64 : o \in Nat
      BY DEF Op_f64_reinterpret_i64
    <3> QED
      BY <1>2, <3>1
  <2>2. op \notin Blocks
    OBVIOUS
  <2> QED
    BY <1>2, <2>1, <2>2, Zenon DEF PlainOps
<1>4. EncodeInstr(ins, Spell[d]) = a
  BY DEF EncodeInstr
<1> HIDE DEF d, r, op
<1>5. ReadsImm(ins, op)
  BY <1>2, <1>3, ImmRead DEF op
<1>6. /\ imm \in Tokens
      /\ \A p : At(file, p, imm) =>
           /\ Immediates(op, p) = Read(ins.imm, p + Len(imm))
           /\ op \in MemorySizes => Byte(p) = WasmZeroByte
  BY <1>5 DEF ReadsImm
<1> HIDE DEF imm
<1>7. h \in Tokens /\ Len(h) = 1 /\ h[1] = op
  BY <1>3 DEF Tokens
<1> HIDE DEF h
<1>8. a \in Tokens /\ Len(a) = Len(imm) + 1 /\ Len(imm) \in Nat
  <2>1. /\ h \o imm \in Tokens /\ Len(h) \in Nat /\ Len(imm) \in Nat
        /\ Len(h \o imm) = Len(h) + Len(imm)
    BY <1>6, <1>7, Concat
  <2> QED
    BY <1>7, <2>1
<1>9. Ahead(file, pos, a \o r)
  BY <1>1, <1>4 DEF Expressing
<1> HIDE DEF a
<1>10. /\ pos \in Nat /\ Len(file) \in Nat /\ pos + Len(a) <= Len(file) /\ Ahead(file, pos + Len(a), r)
  BY <1>1, <1>8, <1>9, AheadBytes
<1>11. At(file, pos, a)
  BY <1>1, <1>8, <1>9, AheadParts
<1>12. At(file, pos, h) /\ At(file, pos + Len(h), imm)
  BY <1>6, <1>7, <1>11, AtParts DEF a
<1>13. Byte(pos) = op
  <2>1. Len(h) >= 1 => Byte(pos) = h[1]
    BY <1>12, ByteAt
  <2> QED
    BY <1>7, <2>1
<1>14. At(file, pos + 1, imm)
  BY <1>7, <1>12
<1>15. Opcode = op /\ ~FlagWrong
  BY <1>6, <1>13, <1>14 DEF Opcode, FlagWrong
<1>16. ReadInstr
  <2>1. BeginBlock \/ ReadInstr \/ SkipReserved \/ EndExpr \/ BreakExpr
    BY ExprFollows
  <2>2. op \notin Invalid
    BY <1>2 DEF Invalid, Op_f64_reinterpret_i64
  <2>3. ~BeginBlock /\ ~SkipReserved /\ ~EndExpr /\ ~BreakExpr
    BY <1>2, <1>15, <2>2 DEF BeginBlock, SkipReserved, EndExpr, BreakExpr, op
  <2> QED
    BY <2>1, <2>3
<1>17. Immediates(Opcode, pos + 1) = Read(ins.imm, (pos + 1) + Len(imm))
  BY <1>6, <1>14, <1>15
<1>18. (pos + 1) + Len(imm) = pos + Len(a) /\ pos + Len(a) \in Nat
  BY <1>8, <1>10
<1>19. /\ exprs' = WithInstr(exprs, ins) /\ Consume(pos + Len(a))
       /\ UNCHANGED <<status, module, section, item>>
  <2>1. Instr(Opcode, ins.imm, 0, <<>>, 0) = ins
    BY <1>2, <1>15
  <2>2. Immediates(Opcode, pos + 1).val = ins.imm /\ Immediates(Opcode, pos + 1).pos = pos + Len(a)
    BY <1>17, <1>18 DEF Read
  <2> QED
    BY <1>16, <2>1, <2>2 DEF ReadInstr
<1>20. file' = file /\ pos' = pos + Len(a) /\ failbit' = FALSE /\ eofbit' = FALSE
  BY <1>10, <1>18, <1>19, Consumed DEF Clear
<1>21. Stacked(exprs', lists, more) /\ Toward(exprs', lists, more) = r
  <2>1. Stacked(exprs, lists, more)
    BY DEF Expressing
  <2> QED
    BY <1>19, <2>1, StackAppend DEF r
<1>22. Clear(m)' /\ Ahead(file', pos', Toward(exprs', lists, more))
  BY <1>10, <1>19, <1>20, <1>21 DEF Clear, module
<1> DEFINE x == Items(m, id)[n + 1]
<1>23. /\ section' = [id |-> id, size |-> Len(Items(m, id)), next |-> n]
       /\ item' = HeadOf(id, x) /\ built' = Begun(m, id, n) /\ name' = NameAt(m, Place(id))
       /\ lists[1] = ExprOf(id, x) /\ more[1] = EncodeTail(id, x) \o After(m, id, n + 1)
  BY <1>19 DEF Expressing, module
<1> HIDE DEF x
<1> QED
  BY <1>21, <1>22, <1>23, ToExpressing DEF x

(* The end of a list.                                                      *)
LEMMA EndRead ==
  ASSUME NEW m \in Modules, Clear(m), NEW id \in WithExpr, NEW n \in 0..(Len(Items(m, id)) - 1),
         NEW lists, NEW more, Expressing(m, id, n, lists, more), Next, ~Continues(exprs, lists)
  PROVE  /\ ReturnTo(pos + 1) /\ status' = status
         /\ Ahead(file, pos + 1, more[Len(exprs)]) /\ more[Len(exprs)] \in Tokens
         /\ pos \in Nat /\ Len(file) \in Nat /\ pos + 1 <= Len(file)
         /\ Append(Inner.instrs, EndInstr) = lists[Len(exprs)]
         /\ Len(Inner.instrs) + 1 = Len(lists[Len(exprs)])
<1> DEFINE d == MaxList - Len(exprs)
           r == more[Len(exprs)]
           h == <<Op_end>>
<1>1. Stacked(exprs, lists, more) /\ Ahead(file, pos, Toward(exprs, lists, more))
  BY DEF Expressing
<1>2. PICK ins : ins = Upcoming(exprs, lists)
  OBVIOUS
<1>3. /\ Toward(exprs, lists, more) = EncodeInstr(ins, Spell[d]) \o Later(exprs, lists, more)
      /\ ins = EndInstr /\ Later(exprs, lists, more) = r /\ Later(exprs, lists, more) \in Tokens
      /\ Len(exprs[Len(exprs)].instrs) + 1 = Len(lists[Len(exprs)])
  <2>1. /\ Toward(exprs, lists, more) = EncodeInstr(ins, Spell[d]) \o Later(exprs, lists, more)
        /\ Later(exprs, lists, more) \in Tokens
    BY <1>1, <1>2, StackAhead
  <2>2. /\ ins = EndInstr /\ Later(exprs, lists, more) = more[Len(exprs)]
        /\ Len(exprs[Len(exprs)].instrs) + 1 = Len(lists[Len(exprs)])
    BY <1>1, <1>2, StackAhead
  <2> QED
    BY <2>1, <2>2
<1>4. Toward(exprs, lists, more) = h \o r /\ r \in Tokens
  BY <1>3, EndEncoded
<1>5. h \in Tokens /\ Len(h) = 1 /\ h[1] = Op_end
  BY DEF Tokens, Op_end
<1> HIDE DEF d, r, h
<1>11. Ahead(file, pos, h \o r)
  BY <1>1, <1>4
<1>6. /\ pos \in Nat /\ Len(file) \in Nat /\ pos + Len(h) <= Len(file) /\ Ahead(file, pos + Len(h), r)
      /\ \A i \in 0..(Len(h) - 1) : Byte(pos + i) = h[i + 1]
  BY <1>4, <1>5, <1>11, AheadBytes
<1>7. pos + 1 <= Len(file) /\ Ahead(file, pos + 1, r) /\ Byte(pos) = Op_end
  <2>1. Byte(pos + 0) = h[1]
    BY <1>5, <1>6
  <2> QED
    BY <1>5, <1>6, <2>1
<1>8. EndExpr
  <2>1. BeginBlock \/ ReadInstr \/ SkipReserved \/ EndExpr \/ BreakExpr
    BY ExprFollows
  <2>2. Op_end \notin Blocks \cup Reserved \cup Invalid \cup MemorySizes
    BY DEF Blocks, Op_block, Op_if, Reserved, Op_else, Op_end, Invalid, Op_f64_reinterpret_i64, MemorySizes,
           Op_i64_store32, Op_memory_grow
  <2>3. ~BeginBlock /\ ~ReadInstr /\ ~SkipReserved /\ ~BreakExpr
    BY <1>7, <2>2 DEF BeginBlock, ReadInstr, SkipReserved, BreakExpr, FlagWrong, Opcode
  <2> QED
    BY <2>1, <2>3
<1>9. ReturnTo(pos + 1) /\ status' = status
  BY <1>8 DEF EndExpr
<1>10. Append(Inner.instrs, EndInstr) = lists[Len(exprs)]
  BY <1>1, ListWhole DEF Inner
<1> QED
  BY <1>3, <1>4, <1>6, <1>7, <1>9, <1>10 DEF r, Inner

LEMMA PopFollows ==
  ASSUME NEW m \in Modules, Clear(m), NEW id \in WithExpr, NEW n \in 0..(Len(Items(m, id)) - 1),
         NEW lists, NEW more, Expressing(m, id, n, lists, more), Next, ~Continues(exprs, lists),
         Len(exprs) > 1
  PROVE  Follows(m)'
<1> DEFINE k == Len(exprs)
<1>1. /\ ReturnTo(pos + 1) /\ status' = status
      /\ Ahead(file, pos + 1, more[k])
      /\ pos \in Nat /\ Len(file) \in Nat /\ pos + 1 <= Len(file)
      /\ Len(Inner.instrs) + 1 = Len(lists[k])
  BY EndRead
<1>2. /\ exprs' = WithInstr(Front(exprs), BlockInstr(exprs[k], Append(exprs[k].instrs, EndInstr)))
      /\ Consume(pos + 1) /\ UNCHANGED <<module, section, item>>
  BY <1>1 DEF ReturnTo, Inner
<1>3. Stacked(exprs', lists, more) /\ Toward(exprs', lists, more) = more[k]
  <2>1. Stacked(exprs, lists, more) /\ Len(exprs[k].instrs) + 1 = Len(lists[k]) /\ k > 1
    BY <1>1 DEF Expressing, Inner
  <2> HIDE DEF k
  <2>2. k = Len(exprs)
    BY DEF k
  <2> QED
    BY <1>2, <2>1, <2>2, StackPop
<1>4. file' = file /\ pos' = pos + 1 /\ failbit' = FALSE /\ eofbit' = FALSE
  <2>1. pos + 1 \in Nat
    BY <1>1
  <2> QED
    BY <1>1, <1>2, <2>1, Consumed DEF Clear
<1>5. Clear(m)' /\ Ahead(file', pos', Toward(exprs', lists, more))
  BY <1>1, <1>2, <1>3, <1>4 DEF Clear, module
<1> DEFINE x == Items(m, id)[n + 1]
<1>6. /\ section' = [id |-> id, size |-> Len(Items(m, id)), next |-> n]
      /\ item' = HeadOf(id, x) /\ built' = Begun(m, id, n) /\ name' = NameAt(m, Place(id))
      /\ lists[1] = ExprOf(id, x) /\ more[1] = EncodeTail(id, x) \o After(m, id, n + 1)
  BY <1>2 DEF Expressing, module
<1> HIDE DEF x
<1> QED
  BY <1>3, <1>5, <1>6, ToExpressing DEF x

(* The last end of an item.                                                *)
LEMMA ItemKept ==
  ASSUME NEW m \in Modules, NEW id \in WithExpr, NEW n \in 0..(Len(Items(m, id)) - 1),
         NEW x, x = Items(m, id)[n + 1], x \in ItemsOf(KindOf(id)),
         section.id = id, section.next = n, item = HeadOf(id, x), built = Begun(m, id, n),
         NEW init, id \in {SectionElement, SectionData} => init = x.init, Keep(ExprOf(id, x), init)
  PROVE  built' = Partly(m, id, n + 1)
<1>1. /\ id \in {SectionElement, SectionData} => x \in Segments
      /\ id = SectionGlobal => x \in Globals
      /\ id = SectionCode => x \in Functions
  BY HeadRead
<1>2. /\ SectionCode \notin {SectionElement, SectionData, SectionGlobal, SectionFunction}
      /\ SectionGlobal \notin {SectionElement, SectionData, SectionFunction}
      /\ SectionFunction \notin {SectionElement, SectionData}
  BY DEF SectionElement, SectionData, SectionCode, SectionGlobal, SectionFunction
<1>3. id \in ItemSections
  BY ItemKinds
<1>4. CASE id = SectionCode
  <2>1. built' = [built EXCEPT ![SectionFunction][n + 1].codes = ExprOf(id, x)]
    BY <1>2, <1>4 DEF Keep
  <2>2. ExprOf(id, x) = x.codes
    BY <1>2, <1>4 DEF ExprOf
  <2>3. [Begun(m, id, n) EXCEPT ![SectionFunction][n + 1].codes = Items(m, id)[n + 1].codes]
          = Partly(m, id, n + 1)
    BY <1>4, BodyRead
  <2> QED
    BY <2>1, <2>2, <2>3, Zenon
<1>5. CASE id # SectionCode
  <2>1. Begun(m, id, n) = Partly(m, id, n) /\ AsRead(id, x) = x
    BY <1>2, <1>5 DEF Begun, AsRead, WithExpr
  <2>2. [Partly(m, id, n) EXCEPT ![id] = Append(@, AsRead(id, Items(m, id)[n + 1]))]
          = Partly(m, id, n + 1)
    BY <1>3, <1>5, PartlyAdds
  <2>3. built' = [built EXCEPT ![id] = Append(@, x)]
    <3>1. CASE id = SectionGlobal
      <4>1. Add(SectionGlobal, [type |-> item, init |-> ExprOf(id, x)])
        BY <1>2, <3>1 DEF Keep
      <4>2. item = x.type /\ ExprOf(id, x) = x.init
        BY <1>2, <3>1 DEF HeadOf, ExprOf
      <4>3. [type |-> item, init |-> ExprOf(id, x)] = x
        BY <1>1, <3>1, <4>2 DEF Globals
      <4> QED
        BY <3>1, <4>1, <4>3 DEF Add
    <3>2. CASE id \in {SectionElement, SectionData}
      <4>1. Add(id, [idx |-> item[1], offset |-> ExprOf(id, x), init |-> init])
        BY <1>2, <3>2 DEF Keep
      <4>2. item = <<x.idx>> /\ ExprOf(id, x) = x.offset
        BY <1>2, <3>2 DEF HeadOf, ExprOf
      <4>3. item[1] = x.idx
        BY <4>2
      <4>4. [idx |-> item[1], offset |-> ExprOf(id, x), init |-> init] = x
        BY <1>1, <3>2, <4>2, <4>3 DEF Segments
      <4> QED
        BY <4>1, <4>4 DEF Add
    <3> QED
      BY <1>5, <3>1, <3>2 DEF WithExpr
  <2> QED
    BY <2>1, <2>2, <2>3, Zenon
<1> QED
  BY <1>4, <1>5

LEMMA EndItemFollows ==
  ASSUME NEW m \in Modules, Clear(m), NEW id \in WithExpr, NEW n \in 0..(Len(Items(m, id)) - 1),
         NEW lists, NEW more, Expressing(m, id, n, lists, more), Next, ~Continues(exprs, lists),
         Len(exprs) = 1
  PROVE  Follows(m)'
<1> DEFINE x == Items(m, id)[n + 1]
           l == Len(Items(m, id))
           t == EncodeTail(id, x)
           r == After(m, id, n + 1)
           rest == IF section.id \in {SectionElement, SectionData}
                   THEN ReadVec(pos + 1) ELSE Read(<<>>, pos + 1)
<1>1. /\ ReturnTo(pos + 1) /\ status' = status
      /\ Ahead(file, pos + 1, more[1])
      /\ pos \in Nat /\ Len(file) \in Nat /\ pos + 1 <= Len(file)
      /\ Append(Inner.instrs, EndInstr) = lists[1]
  <2>1. /\ ReturnTo(pos + 1) /\ status' = status
        /\ Ahead(file, pos + 1, more[Len(exprs)])
        /\ pos \in Nat /\ Len(file) \in Nat /\ pos + 1 <= Len(file)
        /\ Append(Inner.instrs, EndInstr) = lists[Len(exprs)]
    BY EndRead
  <2> QED
    BY <2>1
<1>2. /\ section = [id |-> id, size |-> l, next |-> n]
      /\ item = HeadOf(id, x) /\ built = Begun(m, id, n) /\ name = NameAt(m, Place(id))
      /\ lists[1] = ExprOf(id, x) /\ more[1] = t \o r
  BY DEF Expressing
<1>3. section.id = id /\ section.next = n /\ [section EXCEPT !.next = @ + 1] = [id |-> id, size |-> l, next |-> n + 1]
  BY <1>2
<1>4. id \in ItemSections
  BY ItemKinds
<1>5. l \in Nat /\ n + 1 \in 1..l /\ n + 1 \in 0..l
  <2>1. l \in Nat
    BY <1>4, ItemsEncoded
  <2> HIDE DEF l
  <2>2. n \in 0..(l - 1)
    BY DEF l
  <2> QED
    BY <2>1, <2>2
<1>6. x \in ItemsOf(KindOf(id))
  BY <1>4, <1>5, ItemsEncoded
<1>7. t \in Tokens /\ r \in Tokens
  <2>1. t \in Tokens
    BY <1>6, HeadRead
  <2>2. r \in Tokens
    BY <1>4, AfterTokens
  <2> QED
    BY <2>1, <2>2
<1>8. /\ id \in {SectionElement, SectionData} => x \in Segments /\ t = Vec(x.init)
      /\ id \notin {SectionElement, SectionData} => t = <<>>
  BY <1>6, HeadRead DEF EncodeTail
<1> HIDE DEF x, l, t, r
<1>9. Ahead(file, pos + 1, t \o r)
  BY <1>1, <1>2
<1>10. At(file, pos + 1, t)
  BY <1>7, <1>9, AheadParts
<1>11. /\ Len(t) \in Nat /\ (pos + 1) + Len(t) <= Len(file)
       /\ Ahead(file, (pos + 1) + Len(t), r)
  BY <1>7, <1>9, AheadBytes
<1>12. /\ rest.pos = (pos + 1) + Len(t)
       /\ id \in {SectionElement, SectionData} => rest.val = x.init
  <2>1. CASE id \in {SectionElement, SectionData}
    <3>1. x.init \in Tokens /\ t = Vec(x.init)
      BY <1>8, <2>1 DEF Segments, Tokens
    <3>2. ReadVec(pos + 1) = Read(x.init, (pos + 1) + Len(Vec(x.init)))
      BY <1>10, <3>1, VecRead
    <3>3. rest = Read(x.init, (pos + 1) + Len(t))
      BY <1>3, <2>1, <3>1, <3>2
    <3> HIDE DEF rest
    <3> QED
      BY <3>3 DEF Read
  <2>2. CASE id \notin {SectionElement, SectionData}
    <3>1. Len(t) = 0
      BY <1>8, <2>2
    <3>2. rest = Read(<<>>, pos + 1)
      BY <1>3, <2>2
    <3>3. (pos + 1) + Len(t) = pos + 1
      BY <1>1, <3>1
    <3> HIDE DEF rest
    <3> QED
      BY <2>2, <3>2, <3>3 DEF Read
  <2> QED
    BY <2>1, <2>2
<1>13. /\ exprs' = <<>> /\ item' = <<>> /\ NextItem
       /\ Keep(Append(Inner.instrs, EndInstr), rest.val)
       /\ Consume(rest.pos) /\ UNCHANGED <<version, name>>
  BY <1>1 DEF ReturnTo
<1> HIDE DEF rest
<1>14. file' = file /\ pos' = (pos + 1) + Len(t) /\ failbit' = FALSE /\ eofbit' = FALSE
  <2>1. (pos + 1) + Len(t) \in Nat
    BY <1>1, <1>11
  <2>2. Consume((pos + 1) + Len(t))
    BY <1>12, <1>13
  <2> QED
    BY <1>1, <1>11, <2>1, <2>2, Consumed DEF Clear
<1>15. built' = Partly(m, id, n + 1)
  <2>1. Keep(ExprOf(id, x), rest.val)
    BY <1>1, <1>2, <1>13
  <2>2. x = Items(m, id)[n + 1]
    BY DEF x
  <2> QED
    BY <1>2, <1>3, <1>6, <1>12, <2>1, <2>2, ItemKept
<1>16. Clear(m)' /\ Ahead(file', pos', After(m, id, n + 1))
  BY <1>1, <1>11, <1>13, <1>14 DEF Clear, r
<1>17. section' = [id |-> id, size |-> Len(Items(m, id)), next |-> n + 1]
  BY <1>3, <1>13 DEF NextItem, l
<1>18. n + 1 \in 0..Len(Items(m, id)) /\ name' = NameAt(m, Place(id))
  BY <1>2, <1>5, <1>13 DEF l
<1> QED
  BY <1>4, <1>13, <1>15, <1>16, <1>17, <1>18, ToListing

LEMMA ExpressingFollows ==
  ASSUME NEW m \in Modules, Clear(m), NEW id \in WithExpr, NEW n \in 0..(Len(Items(m, id)) - 1),
         NEW lists, NEW more, Expressing(m, id, n, lists, more), Next
  PROVE  Follows(m)'
<1>1. PICK ins : ins = Upcoming(exprs, lists)
  OBVIOUS
<1>2. CASE ins.op \in Blocks
  BY <1>1, <1>2, BlockFollows
<1>3. CASE ins.op \notin Blocks /\ Continues(exprs, lists)
  BY <1>1, <1>3, InstrFollows
<1>4. CASE ~Continues(exprs, lists) /\ Len(exprs) > 1
  BY <1>4, PopFollows
<1>5. CASE ~Continues(exprs, lists) /\ ~(Len(exprs) > 1)
  <2>1. Stacked(exprs, lists, more)
    BY DEF Expressing
  <2>2. Len(exprs) \in 1..MaxList
    BY <1>1, <2>1, StackAhead
  <2>3. MaxList \in Nat
    BY TheModules
  <2>4. Len(exprs) = 1
    <3>1. \A k \in 1..MaxList : k > 1 \/ k = 1
      BY <2>3
    <3> QED
      BY <1>5, <2>2, <3>1
  <2> QED
    BY <1>5, <2>4, EndItemFollows
<1> QED
  BY <1>2, <1>3, <1>4, <1>5

-----------------------------------------------------------------------------
(* All steps.                                                              *)
LEMMA ListingFollows ==
  ASSUME Typed, NEW m \in Modules, Clear(m), NEW id \in ItemSections, NEW n \in 0..Len(Items(m, id)),
         Listing(m, id, n), Next
  PROVE  Follows(m)'
<1>1. CASE n = Len(Items(m, id))
  BY <1>1, EndSectionFollows
<1>2. CASE n # Len(Items(m, id))
  <2>1. n \in 0..(Len(Items(m, id)) - 1)
    <3>1. Len(Items(m, id)) \in Nat
      BY ItemsEncoded
    <3> QED
      BY <1>2, <3>1
  <2>2. id \in WithExpr \/ id \in PlainSections
    BY ItemKinds
  <2> QED
    BY <2>1, <2>2, HeadFollows, PlainFollows
<1> QED
  BY <1>1, <1>2

LEMMA ReadingFollows ==
  ASSUME Typed, NEW m \in Modules, Reading(m), Next
  PROVE  Follows(m)'
<1>1. Clear(m)
  BY DEF Reading
<1>2. CASE \E k \in 0..15 : Between(m, k)
  BY <1>1, <1>2, BetweenFollows
<1>3. CASE \E start : Naming(m, start)
  BY <1>1, <1>3, NamingFollows
<1>4. CASE \E id \in ItemSections : \E n \in 0..Len(Items(m, id)) : Listing(m, id, n)
  BY <1>1, <1>4, ListingFollows
<1>5. CASE \E id \in WithExpr : \E n \in 0..(Len(Items(m, id)) - 1) :
             \E lists, more : Expressing(m, id, n, lists, more)
  BY <1>1, <1>5, ExpressingFollows
<1> QED
  BY <1>2, <1>3, <1>4, <1>5 DEF Reading

LEMMA NothingAfter ==
  ASSUME status \notin {"header", "reading"}
  PROVE  ~Next
<1>1. ~BetweenSections /\ ~InNames /\ ~InSection /\ ~InExpr
  BY DEF BetweenSections, InNames, InSection, InExpr
<1>2. /\ ~ReadHeader /\ ~EndOfFile /\ ~InvalidSection /\ ~MoreCode /\ ~BeginSection
      /\ ~StartSection /\ ~SkipCustom /\ ~NameSection
  BY <1>1 DEF ReadHeader, EndOfFile, SectionIs, InvalidSection, MoreCode, BeginSection,
              StartSection, SkipCustom, NameSection
<1>3. /\ ~ReadSubsection /\ ~ModuleName /\ ~SkipSubsection /\ ~EndNames
      /\ ~EndSection /\ ~TooManyTypes /\ ~ReadItem /\ ~BeginItem
  BY <1>1 DEF ReadSubsection, ModuleName, SkipSubsection, EndNames, EndSection, TooManyTypes,
              ReadItem, BeginItem, MoreItems
<1>4. /\ ~OutOfMemory /\ ~BeginBlock /\ ~ReadInstr /\ ~SkipReserved /\ ~EndExpr /\ ~BreakExpr
  BY <1>1 DEF OutOfMemory, BeginBlock, ReadInstr, SkipReserved, EndExpr, BreakExpr
<1> QED
  BY <1>2, <1>3, <1>4 DEF Next

LEMMA FileKept ==
  ASSUME Next
  PROVE  file' = file
<1>1. CASE \/ ReadHeader \/ EndOfFile \/ InvalidSection \/ MoreCode \/ BeginSection \/ StartSection
           \/ SkipCustom \/ NameSection
  BY <1>1 DEF ReadHeader, EndOfFile, InvalidSection, MoreCode, BeginSection, StartSection,
              SkipCustom, NameSection, Consume
<1>2. CASE ReadSubsection \/ ModuleName \/ SkipSubsection \/ EndNames
  BY <1>2 DEF ReadSubsection, ModuleName, SkipSubsection, EndNames, Consume, Seek, stream
<1>3. CASE EndSection \/ TooManyTypes \/ ReadItem \/ BeginItem \/ OutOfMemory
  BY <1>3 DEF EndSection, TooManyTypes, ReadItem, BeginItem, OutOfMemory, Consume, stream
<1>4. CASE BeginBlock \/ ReadInstr \/ SkipReserved
  BY <1>4 DEF BeginBlock, ReadInstr, SkipReserved, Consume
<1>5. CASE EndExpr \/ BreakExpr
  BY <1>5 DEF EndExpr, BreakExpr, ReturnTo, Consume
<1> QED
  BY <1>1, <1>2, <1>3, <1>4, <1>5 DEF Next

LEMMA FollowsOn ==
  ASSUME NEW m \in Modules, Follows(m), UNCHANGED vars
  PROVE  Follows(m)'
<1>1. /\ file' = file /\ pos' = pos /\ failbit' = failbit /\ eofbit' = eofbit /\ status' = status
      /\ version' = version /\ name' = name /\ built' = built /\ section' = section
      /\ item' = item /\ exprs' = exprs
  BY DEF vars, stream, module
<1>2. CASE Beginning(m)
  BY <1>1, <1>2 DEF Follows, Beginning
<1>3. CASE Done(m)
  BY <1>1, <1>3 DEF Follows, Done
<1>4. CASE Reading(m)
  <2>1. Clear(m)'
    BY <1>1, <1>4 DEF Reading, Clear
  <2>2. CASE \E k \in 0..15 : Between(m, k)
    BY <1>1, <2>1, <2>2, ToBetween DEF Between
  <2>3. CASE \E start : Naming(m, start)
    <3>1. PICK start : Naming(m, start)
      BY <2>3
    <3>2. Naming(m, start)'
      BY <1>1, <3>1 DEF Naming
    <3> QED
      BY <2>1, <3>2, ToNaming
  <2>4. CASE \E id \in ItemSections : \E n \in 0..Len(Items(m, id)) : Listing(m, id, n)
    <3>0. PICK id \in ItemSections : \E n \in 0..Len(Items(m, id)) : Listing(m, id, n)
      BY <2>4
    <3>1. PICK n \in 0..Len(Items(m, id)) : Listing(m, id, n)
      BY <3>0
    <3>2. Listing(m, id, n)'
      BY <1>1, <3>1 DEF Listing
    <3> QED
      BY <2>1, <3>2 DEF Follows, Reading
  <2>5. CASE \E id \in WithExpr : \E n \in 0..(Len(Items(m, id)) - 1) :
               \E lists, more : Expressing(m, id, n, lists, more)
    <3>0. PICK id \in WithExpr : \E n \in 0..(Len(Items(m, id)) - 1) :
                 \E lists, more : Expressing(m, id, n, lists, more)
      BY <2>5
    <3>1. PICK n \in 0..(Len(Items(m, id)) - 1) : \E lists, more : Expressing(m, id, n, lists, more)
      BY <3>0
    <3>3. PICK lists, more : Expressing(m, id, n, lists, more)
      BY <3>1
    <3>2. Expressing(m, id, n, lists, more)'
      BY <1>1, <3>3 DEF Expressing
    <3> QED
      BY <2>1, <3>2 DEF Follows, Reading
  <2> QED
    BY <1>4, <2>2, <2>3, <2>4, <2>5 DEF Reading
<1> QED
  BY <1>2, <1>3, <1>4 DEF Follows

(* The inductive invariant.                                                *)
Inverts == \A m \in Modules : file = File(m) => Follows(m)

LEMMA InvertsInitially == Init => Inverts
BY FollowsInitially DEF Inverts

LEMMA InvertsInductive == DInv /\ Inverts /\ [Next]_vars => Inverts'
<1> SUFFICES ASSUME DInv, Inverts, [Next]_vars, NEW m \in Modules, file' = File(m)
             PROVE  Follows(m)'
  BY DEF Inverts
<1>1. file' = file
  <2>1. UNCHANGED vars => file' = file
    BY DEF vars, stream
  <2> QED
    BY <2>1, FileKept
<1>2. Follows(m)
  BY <1>1 DEF Inverts
<1>3. CASE UNCHANGED vars
  BY <1>2, <1>3, FollowsOn
<1>4. CASE Next
  <2>1. CASE Beginning(m)
    BY <1>4, <2>1, HeaderFollows
  <2>2. CASE Reading(m)
    <3>1. Typed
      BY DEF DInv
    <3> QED
      BY <1>4, <2>2, <3>1, ReadingFollows
  <2>3. CASE Done(m)
    <3>1. status \notin {"header", "reading"}
      BY <2>3 DEF Done
    <3> QED
      BY <1>4, <3>1, NothingAfter
  <2> QED
    BY <1>2, <2>1, <2>2, <2>3 DEF Follows
<1> QED
  BY <1>3, <1>4

(* Whatever module is written as a file, with all its sections, nested     *)
(* blocks and functions, decodeStream accepts the file and makes that very *)
(* module of it.                                                           *)
THEOREM DecodingInverts == Spec => []Faithful
<1>1. Inverts => Faithful
  <2> SUFFICES ASSUME Inverts, status \notin {"header", "reading"}, NEW e \in Encoded, file = e.file
               PROVE  /\ status = "ok" /\ version = e.module.version /\ name = e.module.name
                      /\ built = e.module.built
    BY DEF Faithful
  <2>1. PICK m \in Modules : e = [module |-> m, file |-> File(m)]
    BY DEF Encoded
  <2>2. e.module = m /\ e.file = File(m)
    BY <2>1
  <2>3. Follows(m)
    BY <2>2 DEF Inverts
  <2>4. Done(m)
    BY <2>3 DEF Follows, Beginning, Reading, Clear
  <2> QED
    BY <2>2, <2>4 DEF Done
<1> QED
  BY Initially, Inductive, InvertsInitially, InvertsInductive, <1>1, PTL DEF Spec
=============================================================================
