------------------------- MODULE LogAndRate_proofs -------------------------
(***************************************************************************)
(* Proofs about the two classes that stand by themselves.  First the log   *)
(* of the main screen (ProtocolLog), for any text, any pieces and any room *)
(* for lines: induction over sequences, what Pieces(), Split() and         *)
(* NonBlank() give, and the invariant of the append.  Then Rate, for words *)
(* of any width and any rates, stalls and settings of the clock that a     *)
(* word has room for.                                                      *)
(***************************************************************************)
EXTENDS ProtocolLog, Rate, SequenceTheorems, FiniteSetTheorems, WellFoundedInduction, TLAPS

-----------------------------------------------------------------------------
(* Induction over the natural numbers and over sequences, in set form.     *)

LEMMA Least ==
  ASSUME NEW T, T \subseteq Nat, T # {}
  PROVE  \E n \in T : \A m \in T : n <= m
<1> DEFINE R == StrictSubsetOrdering(Nat)
           Fin == FiniteSubsetsOf(Nat)
           F == {0 .. n : n \in T}
<1>1. IsWellFoundedOn(R, Fin)
  BY FS_StrictSubsetOrderingWellFounded
<1>2. F \subseteq Fin /\ F # {}
  <2>1. \A n \in T : 0 .. n \subseteq Nat /\ IsFiniteSet(0 .. n)
    BY FS_Interval
  <2>2. QED
    BY <2>1 DEF FiniteSubsetsOf
<1> HIDE DEF F, R, Fin
<1>3. PICK x \in F : \A y \in F : ~(<<y, x>> \in R)
  BY <1>1, <1>2, WFMin
<1>4. PICK n \in T : x = 0 .. n
  BY <1>3 DEF F
<1>5. ASSUME NEW m \in T, ~(n <= m)
      PROVE  FALSE
  <2>1. 0 .. m \in F
    BY DEF F
  <2>2. 0 .. m \subseteq Nat /\ 0 .. n \subseteq Nat /\ 0 .. m \subseteq 0 .. n /\ n \in 0 .. n /\ n \notin 0 .. m
    BY <1>5
  <2>3. <<0 .. m, 0 .. n>> \in R
    BY <2>2 DEF R, StrictSubsetOrdering
  <2>4. QED
    BY <1>3, <1>4, <2>1, <2>3
<1>6. QED
  BY <1>5

LEMMA Induct ==
  ASSUME NEW T, T \subseteq Nat, 0 \in T, \A n \in T : n + 1 \in T
  PROVE  T = Nat
<1> SUFFICES ASSUME T # Nat PROVE FALSE
  OBVIOUS
<1>1. PICK n \in Nat \ T : \A m \in Nat \ T : n <= m
  <2>1. Nat \ T # {}
    OBVIOUS
  <2>2. QED
    BY <2>1, Least
<1>2. n # 0 /\ n - 1 \in Nat
  BY <1>1
<1>3. n - 1 \in T
  BY <1>1, <1>2
<1>4. QED
  BY <1>1, <1>3, <1>2
-----------------------------------------------------------------------------
\* What holds of the empty sequence and of every longer one holds of all.
LEMMA InductSeq ==
  ASSUME NEW S, NEW T, T \subseteq Seq(S), <<>> \in T,
         \A s \in T, e \in S : Append(s, e) \in T
  PROVE  T = Seq(S)
<1> DEFINE N == {n \in Nat : \A s \in Seq(S) : Len(s) = n => s \in T}
<1>1. 0 \in N
  BY EmptySeq
<1>2. ASSUME NEW n \in N PROVE n + 1 \in N
  <2>1. ASSUME NEW s \in Seq(S), Len(s) = n + 1 PROVE s \in T
    <3>1. s # <<>>
      BY <2>1, EmptySeq
    <3>2. PICK r \in Seq(S), e \in S : s = Append(r, e)
      BY <3>1, SequenceEmptyOrAppend
    <3>3. Len(r) = n
      BY <2>1, <3>2, AppendProperties, LenProperties
    <3>4. QED
      BY <3>2, <3>3
  <2>2. QED
    BY <2>1
<1>3. N = Nat
  <2>1. N \subseteq Nat
    OBVIOUS
  <2> HIDE DEF N
  <2>2. QED
    BY <1>1, <1>2, <2>1, Induct
<1>4. QED
  BY <1>3, LenProperties

-----------------------------------------------------------------------------
(* Pieces().  The function it is built from exists, and what a text gives  *)
(* is what its front gives with one more character.                        *)

PiecesOf(f, t, l) == f = [n \in 0 .. l |-> IF n = 0 THEN << <<>> >> ELSE Put(f[n - 1], t[n])]

LEMMA PiecesExist ==
  ASSUME NEW t
  PROVE  \A l \in Nat : \E f : PiecesOf(f, t, l)
<1> DEFINE T == {l \in Nat : \E f : PiecesOf(f, t, l)}
<1>1. 0 \in T
  <2> DEFINE f == [n \in 0 .. 0 |-> << <<>> >>]
  <2>1. f = [n \in 0 .. 0 |-> IF n = 0 THEN << <<>> >> ELSE Put(f[n - 1], t[n])]
    OBVIOUS
  <2>2. QED
    BY <2>1 DEF PiecesOf
<1>2. ASSUME NEW l \in T PROVE l + 1 \in T
  <2>1. l \in Nat
    OBVIOUS
  <2>2. PICK f : PiecesOf(f, t, l)
    OBVIOUS
  <2> HIDE DEF T
  <2> DEFINE g == [n \in 0 .. l + 1 |-> IF n = l + 1 THEN Put(f[l], t[n]) ELSE f[n]]
             h(n) == IF n = 0 THEN << <<>> >> ELSE Put(g[n - 1], t[n])
  <2>3. \A n \in 0 .. l : f[n] = IF n = 0 THEN << <<>> >> ELSE Put(f[n - 1], t[n])
    BY <2>2 DEF PiecesOf
  <2>4. \A n \in 0 .. l + 1 : g[n] = IF n = l + 1 THEN Put(f[l], t[n]) ELSE f[n]
    BY <2>1
  <2>5. g = [n \in 0 .. l + 1 |-> g[n]]
    OBVIOUS
  <2> HIDE DEF g
  <2>6. ASSUME NEW n \in 0 .. l + 1 PROVE g[n] = h(n)
    <3>1. CASE n = l + 1
      <4>1. n # 0 /\ n - 1 = l /\ l \in 0 .. l + 1 /\ l # l + 1
        BY <2>1, <3>1
      <4>2. g[n - 1] = f[l]
        BY <2>4, <4>1
      <4>3. QED
        BY <2>4, <3>1, <4>1, <4>2
    <3>2. CASE n # l + 1
      <4>1. n \in 0 .. l /\ (n # 0 => n - 1 \in 0 .. l + 1 /\ n - 1 # l + 1)
        BY <2>1, <3>2
      <4>2. g[n] = f[n] /\ (n # 0 => g[n - 1] = f[n - 1])
        BY <2>4, <3>2, <4>1
      <4>3. QED
        BY <2>3, <4>1, <4>2
    <3>3. QED
      BY <3>1, <3>2
  <2> HIDE DEF h
  <2>7. g = [n \in 0 .. l + 1 |-> h(n)]
    BY <2>5, <2>6
  <2>8. PiecesOf(g, t, l + 1)
    BY <2>7 DEF PiecesOf, h
  <2>9. QED
    BY <2>1, <2>8 DEF T
<1>3. T = Nat
  <2>1. T \subseteq Nat
    OBVIOUS
  <2> HIDE DEF T
  <2>2. QED
    BY <1>1, <1>2, <2>1, Induct
<1>4. QED
  BY <1>3

LEMMA PiecesAre ==
  ASSUME NEW t, Len(t) \in Nat
  PROVE  \E f : PiecesOf(f, t, Len(t)) /\ Pieces(t) = f[Len(t)]
<1> DEFINE f == CHOOSE f : f = [n \in 0 .. Len(t) |-> IF n = 0 THEN << <<>> >> ELSE Put(f[n - 1], t[n])]
<1>1. \E g : PiecesOf(g, t, Len(t))
  BY PiecesExist
<1>2. PiecesOf(f, t, Len(t))
  BY <1>1 DEF PiecesOf
<1>3. Pieces(t) = f[Len(t)]
  BY DEF Pieces
<1>4. QED
  BY <1>2, <1>3

LEMMA PiecesOfEmpty == Pieces(<<>>) = << <<>> >>
<1>1. Len(<<>>) = 0
  OBVIOUS
<1>2. PICK f : PiecesOf(f, <<>>, 0) /\ Pieces(<<>>) = f[0]
  BY <1>1, PiecesAre
<1>3. QED
  BY <1>2 DEF PiecesOf

LEMMA PiecesOfAppend ==
  ASSUME NEW S, NEW t \in Seq(S), NEW c \in S
  PROVE  Pieces(Append(t, c)) = Put(Pieces(t), c)
<1> DEFINE u == Append(t, c)
           l == Len(t)
<1>1. l \in Nat /\ Len(u) = l + 1 /\ u[l + 1] = c /\ \A n \in 1 .. l : u[n] = t[n]
  BY AppendProperties, LenProperties
<1> HIDE DEF u
<1>2. PICK f : PiecesOf(f, t, l) /\ Pieces(t) = f[l]
  BY <1>1, PiecesAre
<1>3. PICK g : PiecesOf(g, u, l + 1) /\ Pieces(u) = g[l + 1]
  BY <1>1, PiecesAre
<1> HIDE DEF l
<1> DEFINE T == {n \in Nat : n <= l => g[n] = f[n]}
<1>4. \A n \in 0 .. l : f[n] = IF n = 0 THEN << <<>> >> ELSE Put(f[n - 1], t[n])
  BY <1>2 DEF PiecesOf
<1>5. \A n \in 0 .. l + 1 : g[n] = IF n = 0 THEN << <<>> >> ELSE Put(g[n - 1], u[n])
  BY <1>3 DEF PiecesOf
<1>6. 0 \in T
  BY <1>1, <1>4, <1>5
<1>7. ASSUME NEW n \in T PROVE n + 1 \in T
  <2>1. n \in Nat /\ (n <= l => g[n] = f[n])
    OBVIOUS
  <2> HIDE DEF T
  <2>2. ASSUME n + 1 <= l PROVE g[n + 1] = f[n + 1]
    <3>1. n + 1 \in 0 .. l /\ n + 1 \in 0 .. l + 1 /\ n + 1 # 0 /\ n + 1 \in 1 .. l /\ (n + 1) - 1 = n
      BY <1>1, <2>1, <2>2
    <3>2. f[n + 1] = Put(f[n], t[n + 1]) /\ g[n + 1] = Put(g[n], u[n + 1])
      BY <1>4, <1>5, <3>1
    <3>3. u[n + 1] = t[n + 1] /\ g[n] = f[n]
      BY <1>1, <2>1, <2>2, <3>1
    <3>4. QED
      BY <3>2, <3>3
  <2>3. QED
    BY <2>1, <2>2 DEF T
<1>8. T = Nat
  <2>1. T \subseteq Nat
    OBVIOUS
  <2> HIDE DEF T
  <2>2. QED
    BY <1>6, <1>7, <2>1, Induct
<1>9. g[l] = f[l]
  BY <1>1, <1>8
<1>10. g[l + 1] = Put(g[l], c)
  <2>1. l + 1 \in 0 .. l + 1 /\ l + 1 # 0 /\ (l + 1) - 1 = l
    BY <1>1
  <2>2. QED
    BY <1>1, <1>5, <2>1
<1>11. QED
  BY <1>2, <1>3, <1>9, <1>10 DEF u
-----------------------------------------------------------------------------
(* The same for NonBlank().                                                *)

Keep(kept, line) == IF line = <<>> THEN kept ELSE Append(kept, line)

KeptOf(f, t, l) == f = [n \in 0 .. l |-> IF n = 0 THEN <<>> ELSE Keep(f[n - 1], t[n])]

LEMMA KeptExist ==
  ASSUME NEW t
  PROVE  \A l \in Nat : \E f : KeptOf(f, t, l)
<1> DEFINE T == {l \in Nat : \E f : KeptOf(f, t, l)}
<1>1. 0 \in T
  <2> DEFINE f == [n \in 0 .. 0 |-> <<>>]
  <2>1. f = [n \in 0 .. 0 |-> IF n = 0 THEN <<>> ELSE Keep(f[n - 1], t[n])]
    OBVIOUS
  <2>2. QED
    BY <2>1 DEF KeptOf
<1>2. ASSUME NEW l \in T PROVE l + 1 \in T
  <2>1. l \in Nat
    OBVIOUS
  <2>2. PICK f : KeptOf(f, t, l)
    OBVIOUS
  <2> HIDE DEF T
  <2> DEFINE g == [n \in 0 .. l + 1 |-> IF n = l + 1 THEN Keep(f[l], t[n]) ELSE f[n]]
             h(n) == IF n = 0 THEN <<>> ELSE Keep(g[n - 1], t[n])
  <2>3. \A n \in 0 .. l : f[n] = IF n = 0 THEN <<>> ELSE Keep(f[n - 1], t[n])
    BY <2>2 DEF KeptOf
  <2>4. \A n \in 0 .. l + 1 : g[n] = IF n = l + 1 THEN Keep(f[l], t[n]) ELSE f[n]
    BY <2>1
  <2>5. g = [n \in 0 .. l + 1 |-> g[n]]
    OBVIOUS
  <2> HIDE DEF g
  <2>6. ASSUME NEW n \in 0 .. l + 1 PROVE g[n] = h(n)
    <3>1. CASE n = l + 1
      <4>1. n # 0 /\ n - 1 = l /\ l \in 0 .. l + 1 /\ l # l + 1
        BY <2>1, <3>1
      <4>2. g[n - 1] = f[l]
        BY <2>4, <4>1
      <4>3. QED
        BY <2>4, <3>1, <4>1, <4>2
    <3>2. CASE n # l + 1
      <4>1. n \in 0 .. l /\ (n # 0 => n - 1 \in 0 .. l + 1 /\ n - 1 # l + 1)
        BY <2>1, <3>2
      <4>2. g[n] = f[n] /\ (n # 0 => g[n - 1] = f[n - 1])
        BY <2>4, <3>2, <4>1
      <4>3. QED
        BY <2>3, <4>1, <4>2
    <3>3. QED
      BY <3>1, <3>2
  <2> HIDE DEF h
  <2>7. g = [n \in 0 .. l + 1 |-> h(n)]
    BY <2>5, <2>6
  <2>8. KeptOf(g, t, l + 1)
    BY <2>7 DEF KeptOf, h
  <2>9. QED
    BY <2>1, <2>8 DEF T
<1>3. T = Nat
  <2>1. T \subseteq Nat
    OBVIOUS
  <2> HIDE DEF T
  <2>2. QED
    BY <1>1, <1>2, <2>1, Induct
<1>4. QED
  BY <1>3

LEMMA KeptAre ==
  ASSUME NEW t, Len(t) \in Nat
  PROVE  \E f : KeptOf(f, t, Len(t)) /\ NonBlank(t) = f[Len(t)]
<1> DEFINE f == CHOOSE f : f = [n \in 0 .. Len(t) |-> IF n = 0 THEN <<>> ELSE IF t[n] = <<>> THEN f[n - 1] ELSE Append(f[n - 1], t[n])]
<1>1. \E g : KeptOf(g, t, Len(t))
  BY KeptExist
<1>2. KeptOf(f, t, Len(t))
  BY <1>1 DEF KeptOf, Keep
<1>3. NonBlank(t) = f[Len(t)]
  BY DEF NonBlank
<1>4. QED
  BY <1>2, <1>3

LEMMA NonBlankEmpty == NonBlank(<<>>) = <<>>
<1>1. Len(<<>>) = 0
  OBVIOUS
<1>2. PICK f : KeptOf(f, <<>>, 0) /\ NonBlank(<<>>) = f[0]
  BY <1>1, KeptAre
<1>3. QED
  BY <1>2 DEF KeptOf

LEMMA NonBlankAppend ==
  ASSUME NEW S, NEW t \in Seq(S), NEW c \in S
  PROVE  NonBlank(Append(t, c)) = Keep(NonBlank(t), c)
<1> DEFINE u == Append(t, c)
           l == Len(t)
<1>1. l \in Nat /\ Len(u) = l + 1 /\ u[l + 1] = c /\ \A n \in 1 .. l : u[n] = t[n]
  BY AppendProperties, LenProperties
<1> HIDE DEF u
<1>2. PICK f : KeptOf(f, t, l) /\ NonBlank(t) = f[l]
  BY <1>1, KeptAre
<1>3. PICK g : KeptOf(g, u, l + 1) /\ NonBlank(u) = g[l + 1]
  BY <1>1, KeptAre
<1> HIDE DEF l
<1> DEFINE T == {n \in Nat : n <= l => g[n] = f[n]}
<1>4. \A n \in 0 .. l : f[n] = IF n = 0 THEN <<>> ELSE Keep(f[n - 1], t[n])
  BY <1>2 DEF KeptOf
<1>5. \A n \in 0 .. l + 1 : g[n] = IF n = 0 THEN <<>> ELSE Keep(g[n - 1], u[n])
  BY <1>3 DEF KeptOf
<1>6. 0 \in T
  BY <1>1, <1>4, <1>5
<1>7. ASSUME NEW n \in T PROVE n + 1 \in T
  <2>1. n \in Nat /\ (n <= l => g[n] = f[n])
    OBVIOUS
  <2> HIDE DEF T
  <2>2. ASSUME n + 1 <= l PROVE g[n + 1] = f[n + 1]
    <3>1. n + 1 \in 0 .. l /\ n + 1 \in 0 .. l + 1 /\ n + 1 # 0 /\ n + 1 \in 1 .. l /\ (n + 1) - 1 = n
      BY <1>1, <2>1, <2>2
    <3>2. f[n + 1] = Keep(f[n], t[n + 1]) /\ g[n + 1] = Keep(g[n], u[n + 1])
      BY <1>4, <1>5, <3>1
    <3>3. u[n + 1] = t[n + 1] /\ g[n] = f[n]
      BY <1>1, <2>1, <2>2, <3>1
    <3>4. QED
      BY <3>2, <3>3
  <2>3. QED
    BY <2>1, <2>2 DEF T
<1>8. T = Nat
  <2>1. T \subseteq Nat
    OBVIOUS
  <2> HIDE DEF T
  <2>2. QED
    BY <1>6, <1>7, <2>1, Induct
<1>9. g[l] = f[l]
  BY <1>1, <1>8
<1>10. g[l + 1] = Keep(g[l], c)
  <2>1. l + 1 \in 0 .. l + 1 /\ l + 1 # 0 /\ (l + 1) - 1 = l
    BY <1>1
  <2>2. QED
    BY <1>1, <1>5, <2>1
<1>11. QED
  BY <1>2, <1>3, <1>9, <1>10 DEF u

-----------------------------------------------------------------------------
Line == Seq(Char)
Text == Seq(Char \cup {NL})

LEMMA ConcatAppend ==
  ASSUME NEW S, NEW s \in Seq(S), NEW t \in Seq(S), NEW e \in S
  PROVE  s \o Append(t, e) = Append(s \o t, e)
<1>1. <<e>> \in Seq(S) /\ s \o t \in Seq(S)
  BY ConcatProperties
<1>2. Append(t, e) = t \o <<e>> /\ Append(s \o t, e) = (s \o t) \o <<e>>
  BY <1>1, AppendIsConcat
<1>3. QED
  BY <1>1, <1>2, ConcatAssociative, SMTT(60)

LEMMA LinesAreText == Line \subseteq Text
BY SeqMonotonic DEF Line, Text

\* One more character: a new line, or a longer last one.
LEMMA PutIs ==
  ASSUME NEW ls \in Seq(Line), ls # <<>>, NEW c \in Char \cup {NL}
  PROVE  /\ Put(ls, c) \in Seq(Line)
         /\ Put(ls, c) # <<>>
         /\ Len(Put(ls, c)) = IF c = NL THEN Len(ls) + 1 ELSE Len(ls)
         /\ \A k \in 1 .. Len(ls) :
              Put(ls, c)[k] = IF k = Len(ls) /\ c # NL THEN Append(ls[k], c) ELSE ls[k]
         /\ c = NL => Put(ls, c)[Len(ls) + 1] = <<>>
<1>1. Len(ls) \in Nat \ {0} /\ \A k \in 1 .. Len(ls) : ls[k] \in Line
  BY EmptySeq, ElementOfSeq
<1>2. CASE c = NL
  <2>1. Put(ls, c) = Append(ls, <<>>) /\ <<>> \in Line
    BY <1>2, EmptySeq DEF Put, Line
  <2>2. QED
    BY <1>1, <1>2, <2>1, AppendProperties
<1>3. CASE c # NL
  <2> DEFINE n == Len(ls)
             l == Append(ls[n], c)
  <2>1. n \in 1 .. n /\ c \in Char
    BY <1>1, <1>3
  <2>2. l \in Line
    BY <1>1, <2>1, AppendProperties DEF Line
  <2>3. Put(ls, c) = [ls EXCEPT ![n] = l]
    BY <1>3 DEF Put
  <2> HIDE DEF l
  <2>4. /\ Put(ls, c) \in Seq(Line)
        /\ Len(Put(ls, c)) = n
        /\ \A k \in 1 .. n : Put(ls, c)[k] = IF k = n THEN l ELSE ls[k]
    BY <2>1, <2>2, <2>3, ExceptSeq
  <2>5. Put(ls, c) # <<>>
    BY <1>1, <2>4, EmptySeq
  <2>6. QED
    BY <1>3, <2>4, <2>5 DEF l
<1>4. QED
  BY <1>2, <1>3

LEMMA PutAfter ==
  ASSUME NEW q \in Seq(Line), NEW ls \in Seq(Line), ls # <<>>, NEW c \in Char \cup {NL}
  PROVE  q \o Put(ls, c) = Put(q \o ls, c)
<1> DEFINE m == Len(q)
           n == Len(ls)
           a == q \o Put(ls, c)
           b == Put(q \o ls, c)
<1>1. m \in Nat /\ n \in Nat \ {0}
  BY EmptySeq, LenProperties
<1>2. /\ q \o ls \in Seq(Line) /\ Len(q \o ls) = m + n
      /\ \A k \in 1 .. m + n : (q \o ls)[k] = IF k <= m THEN q[k] ELSE ls[k - m]
  BY ConcatProperties
<1>3. q \o ls # <<>>
  BY <1>1, <1>2, EmptySeq
<1> DEFINE p == Put(ls, c)
<1>4. /\ p \in Seq(Line) /\ Len(p) = (IF c = NL THEN n + 1 ELSE n)
      /\ \A k \in 1 .. n : p[k] = IF k = n /\ c # NL THEN Append(ls[k], c) ELSE ls[k]
      /\ c = NL => p[n + 1] = <<>>
  BY PutIs
<1>5. /\ b \in Seq(Line) /\ Len(b) = (IF c = NL THEN m + n + 1 ELSE m + n)
      /\ \A k \in 1 .. m + n :
           b[k] = IF k = m + n /\ c # NL THEN Append((q \o ls)[k], c) ELSE (q \o ls)[k]
      /\ c = NL => b[m + n + 1] = <<>>
  <2> DEFINE r == q \o ls
  <2>1. r \in Seq(Line) /\ r # <<>> /\ Len(r) = m + n
    BY <1>2, <1>3
  <2> HIDE DEF r
  <2>2. /\ Put(r, c) \in Seq(Line)
        /\ Len(Put(r, c)) = IF c = NL THEN Len(r) + 1 ELSE Len(r)
        /\ \A k \in 1 .. Len(r) :
             Put(r, c)[k] = IF k = Len(r) /\ c # NL THEN Append(r[k], c) ELSE r[k]
        /\ c = NL => Put(r, c)[Len(r) + 1] = <<>>
    BY <2>1, PutIs
  <2> HIDE DEF m, n
  <2>3. QED
    BY <2>1, <2>2 DEF r
<1> HIDE DEF p
<1>6. /\ a \in Seq(Line) /\ Len(a) = m + Len(p)
      /\ \A k \in 1 .. m + Len(p) : a[k] = IF k <= m THEN q[k] ELSE p[k - m]
  BY <1>4, ConcatProperties DEF p
<1> HIDE DEF a, b, m, n
<1>7. Len(a) = Len(b)
  BY <1>1, <1>4, <1>5, <1>6
<1>8. ASSUME NEW k \in 1 .. Len(a) PROVE a[k] = b[k]
  <2>1. CASE k <= m
    <3>1. k \in 1 .. m + n /\ k # m + n /\ k \in 1 .. m + Len(p)
      BY <1>1, <1>4, <1>6, <2>1
    <3>2. QED
      BY <1>2, <1>5, <1>6, <2>1, <3>1
  <2>2. CASE m < k /\ k <= m + n
    <3>1. k \in 1 .. m + n /\ ~(k <= m) /\ k - m \in 1 .. n /\ (k - m = n <=> k = m + n) /\ k \in 1 .. m + Len(p)
      BY <1>1, <1>4, <1>6, <2>2
    <3>2. (q \o ls)[k] = ls[k - m] /\ a[k] = p[k - m]
      BY <1>2, <1>6, <3>1
    <3>3. QED
      BY <1>4, <1>5, <3>1, <3>2
  <2>3. CASE m + n < k
    <3>1. k = m + n + 1 /\ c = NL /\ k - m = n + 1 /\ ~(k <= m) /\ k \in 1 .. m + Len(p)
      BY <1>1, <1>4, <1>6, <2>3
    <3>2. QED
      BY <1>4, <1>5, <1>6, <3>1
  <2>4. QED
    BY <1>1, <1>6, <2>1, <2>2, <2>3
<1>9. a = b
  BY <1>5, <1>6, <1>7, <1>8, SeqEqual
<1>10. QED
  BY <1>9 DEF a, b

-----------------------------------------------------------------------------
(* What Pieces() gives.                                                    *)

LEMMA PiecesAreLines ==
  ASSUME NEW t \in Text
  PROVE  Pieces(t) \in Seq(Line) /\ Pieces(t) # <<>> /\ Len(Pieces(t)) \in Nat \ {0}
<1> DEFINE T == {u \in Text : Pieces(u) \in Seq(Line) /\ Pieces(u) # <<>>}
<1>1. <<>> \in T
  <2>1. << <<>> >> \in Seq(Line) /\ << <<>> >> # <<>> /\ <<>> \in Text
    BY EmptySeq DEF Line, Text
  <2>2. QED
    BY <2>1, PiecesOfEmpty
<1>2. ASSUME NEW u \in T, NEW c \in Char \cup {NL} PROVE Append(u, c) \in T
  <2>1. Append(u, c) \in Text /\ Pieces(Append(u, c)) = Put(Pieces(u), c)
    BY AppendProperties, PiecesOfAppend DEF Text
  <2>2. QED
    BY <2>1, PutIs
<1>3. T = Text
  <2>1. T \subseteq Seq(Char \cup {NL})
    BY DEF Text
  <2> HIDE DEF T
  <2>2. QED
    BY <1>1, <1>2, <2>1, InductSeq DEF Text
<1>4. Pieces(t) \in Seq(Line) /\ Pieces(t) # <<>>
  BY <1>3
<1>5. QED
  BY <1>4, EmptySeq

LEMMA PiecesOfLine ==
  ASSUME NEW l \in Line
  PROVE  Pieces(l) = <<l>>
<1> DEFINE T == {s \in Line : Pieces(s) = <<s>>}
<1>1. <<>> \in T
  BY EmptySeq, PiecesOfEmpty DEF Line
<1>2. ASSUME NEW s \in T, NEW c \in Char PROVE Append(s, c) \in T
  <2>1. Append(s, c) \in Line /\ Pieces(Append(s, c)) = Put(Pieces(s), c)
    BY AppendProperties, PiecesOfAppend DEF Line
  <2>2. c # NL
    BY ProtocolLogAssumption
  <2>3. Put(<<s>>, c) = <<Append(s, c)>>
    <3>1. Len(<<s>>) = 1 /\ <<s>>[1] = s
      OBVIOUS
    <3>2. Put(<<s>>, c) = [<<s>> EXCEPT ![1] = Append(s, c)]
      BY <2>2, <3>1 DEF Put
    <3>3. QED
      BY <3>2
  <2>4. QED
    BY <2>1, <2>3
<1>3. T = Line
  <2>1. T \subseteq Seq(Char)
    BY DEF Line
  <2> HIDE DEF T
  <2>2. QED
    BY <1>1, <1>2, <2>1, InductSeq DEF Line
<1>4. QED
  BY <1>3

\* A sequence is its front and its last element.
LEMMA FrontAndLast ==
  ASSUME NEW S, NEW s \in Seq(S), s # <<>>
  PROVE  Front(s) \in Seq(S) /\ Last(s) \in S /\ s = Front(s) \o <<Last(s)>> /\ Len(Front(s)) = Len(s) - 1
<1>1. PICK r \in Seq(S), e \in S : s = Append(r, e)
  BY SequenceEmptyOrAppend
<1>2. Len(s) = Len(r) + 1 /\ Len(r) \in Nat /\ s[Len(s)] = e
  BY <1>1, AppendProperties, LenProperties
<1>3. Front(s) = r
  <2>1. /\ \A k \in 1 .. Len(r) : s[k] = r[k] /\ s[k] \in S
    BY <1>1, AppendProperties, ElementOfSeq
  <2>2. Len(s) - 1 = Len(r)
    BY <1>2
  <2>3. SubSeq(s, 1, Len(r)) \in Seq(S) /\ Len(SubSeq(s, 1, Len(r))) = Len(r)
        /\ \A k \in 1 .. Len(r) : SubSeq(s, 1, Len(r))[k] = s[k]
    BY <1>2, <2>1, SubSeqProperties
  <2>4. SubSeq(s, 1, Len(r)) = r
    BY <2>1, <2>3, SeqEqual
  <2>5. QED
    BY <2>2, <2>4 DEF Front
<1>4. QED
  BY <1>1, <1>2, <1>3, AppendIsConcat DEF Last

\* The pieces of two texts put together: those of the first, of which the last
\* is gone on with.
LEMMA PiecesOfConcat ==
  ASSUME NEW u \in Text, NEW v \in Text
  PROVE  Pieces(u \o v) = Front(Pieces(u)) \o Pieces(Last(Pieces(u)) \o v)
<1> DEFINE q == Front(Pieces(u))
           l == Last(Pieces(u))
           T == {w \in Text : Pieces(u \o w) = q \o Pieces(l \o w)}
<1>1. q \in Seq(Line) /\ l \in Line /\ Pieces(u) = q \o <<l>>
  BY PiecesAreLines, FrontAndLast
<1>2. l \in Text
  BY <1>1, LinesAreText
<1> HIDE DEF q, l
<1>3. <<>> \in T
  <2>1. u \o <<>> = u /\ l \o <<>> = l /\ <<>> \in Text
    BY <1>2, ConcatEmptySeq, EmptySeq DEF Text
  <2>2. QED
    BY <1>1, <2>1, PiecesOfLine
<1>4. ASSUME NEW w \in T, NEW c \in Char \cup {NL} PROVE Append(w, c) \in T
  <2>1. w \in Text /\ Pieces(u \o w) = q \o Pieces(l \o w)
    OBVIOUS
  <2> HIDE DEF T
  <2>2. u \o w \in Text /\ l \o w \in Text /\ Append(w, c) \in Text
    BY <1>2, <2>1, ConcatProperties, AppendProperties DEF Text
  <2>3. u \o Append(w, c) = Append(u \o w, c) /\ l \o Append(w, c) = Append(l \o w, c)
    BY <1>2, <2>1, ConcatAppend DEF Text
  <2>4. Pieces(u \o Append(w, c)) = Put(Pieces(u \o w), c)
    BY <2>2, <2>3, PiecesOfAppend DEF Text
  <2>5. Pieces(l \o Append(w, c)) = Put(Pieces(l \o w), c)
    BY <2>2, <2>3, PiecesOfAppend DEF Text
  <2>6. q \o Put(Pieces(l \o w), c) = Put(q \o Pieces(l \o w), c)
    BY <1>1, <2>2, PiecesAreLines, PutAfter
  <2>7. QED
    BY <2>1, <2>2, <2>4, <2>5, <2>6 DEF T
<1>5. T = Text
  <2>1. T \subseteq Seq(Char \cup {NL})
    BY DEF Text
  <2> HIDE DEF T
  <2>2. QED
    BY <1>3, <1>4, <2>1, InductSeq DEF Text
<1>6. QED
  BY <1>5 DEF q, l

-----------------------------------------------------------------------------
\* The last piece is blank just when the text ends with NL, or is empty.
LEMMA LastPiece ==
  ASSUME NEW t \in Text
  PROVE  Last(Pieces(t)) = <<>> <=> t = <<>> \/ Last(t) = NL
<1>1. CASE t = <<>>
  <2>1. Len(<< <<>> >>) = 1 /\ << <<>> >>[1] = <<>>
    OBVIOUS
  <2>2. QED
    BY <1>1, <2>1, PiecesOfEmpty DEF Last
<1>2. CASE t # <<>>
  <2>1. PICK u \in Text, c \in Char \cup {NL} : t = Append(u, c)
    BY <1>2, SequenceEmptyOrAppend DEF Text
  <2>2. Last(t) = c
    BY <2>1, AppendProperties DEF Text, Last
  <2> DEFINE ls == Pieces(u)
             n == Len(ls)
  <2>3. ls \in Seq(Line) /\ ls # <<>> /\ n \in Nat \ {0} /\ Pieces(t) = Put(ls, c)
    BY <2>1, PiecesAreLines, PiecesOfAppend DEF Text
  <2>4. ls[n] \in Line
    BY <2>3, ElementOfSeq
  <2> HIDE DEF ls
  <2>5. CASE c = NL
    BY <2>2, <2>3, <2>5, <1>2, PutIs DEF Last
  <2>6. CASE c # NL
    <3>1. Last(Pieces(t)) = Append(ls[n], c)
      <4>1. n \in 1 .. n
        BY <2>3
      <4>2. Len(Put(ls, c)) = n /\ Put(ls, c)[n] = Append(ls[n], c)
        BY <2>3, <2>6, <4>1, PutIs
      <4>3. QED
        BY <2>3, <4>2 DEF Last
    <3>2. Append(ls[n], c) # <<>>
      BY <2>4, <2>6, AppendProperties DEF Line
    <3>3. QED
      BY <1>2, <2>2, <2>6, <3>1, <3>2
  <2>7. QED
    BY <2>5, <2>6
<1>3. QED
  BY <1>1, <1>2

\* The first piece goes on with the line the text begins with.
LEMMA FirstPiece ==
  ASSUME NEW l \in Line, l # <<>>, NEW v \in Text
  PROVE  Pieces(l \o v)[1] # <<>>
<1> DEFINE T == {w \in Text : Pieces(l \o w)[1] # <<>>}
<1>1. l \in Text
  BY LinesAreText
<1>2. <<>> \in T
  <2>1. l \o <<>> = l /\ <<>> \in Text /\ <<l>>[1] = l
    BY <1>1, ConcatEmptySeq, EmptySeq DEF Text
  <2>2. QED
    BY <2>1, PiecesOfLine
<1>3. ASSUME NEW w \in T, NEW c \in Char \cup {NL} PROVE Append(w, c) \in T
  <2>1. w \in Text /\ Pieces(l \o w)[1] # <<>>
    OBVIOUS
  <2> HIDE DEF T
  <2> DEFINE ls == Pieces(l \o w)
  <2>2. /\ l \o w \in Text /\ Append(w, c) \in Text
        /\ l \o Append(w, c) = Append(l \o w, c)
    BY <1>1, <2>1, ConcatProperties, AppendProperties, ConcatAppend DEF Text
  <2>3. Pieces(l \o Append(w, c)) = Put(ls, c) /\ ls \in Seq(Line) /\ ls # <<>> /\ Len(ls) \in Nat \ {0}
    BY <2>2, PiecesOfAppend, PiecesAreLines DEF Text
  <2>4. ls[1] \in Line
    BY <2>3, ElementOfSeq
  <2> HIDE DEF ls
  <2>5. 1 \in 1 .. Len(ls)
    BY <2>3
  <2>6. Put(ls, c)[1] = ls[1] \/ (c # NL /\ Put(ls, c)[1] = Append(ls[1], c))
    BY <2>3, <2>5, PutIs
  <2>7. c # NL => Append(ls[1], c) # <<>>
    BY <2>4, AppendProperties DEF Line
  <2>8. Put(ls, c)[1] # <<>>
    BY <2>1, <2>6, <2>7 DEF ls
  <2>9. QED
    BY <2>2, <2>3, <2>8 DEF T
<1>4. T = Text
  <2>1. T \subseteq Seq(Char \cup {NL})
    BY DEF Text
  <2> HIDE DEF T
  <2>2. QED
    BY <1>2, <1>3, <2>1, InductSeq DEF Text
<1>5. QED
  BY <1>4

\* A text of n characters put to a line gives n + 1 pieces at most, and all of
\* them after the first are blank when it gives as many.
LEMMA CountPieces ==
  ASSUME NEW l \in Line, NEW v \in Text
  PROVE  /\ Len(Pieces(l \o v)) <= Len(v) + 1
         /\ Len(Pieces(l \o v)) = Len(v) + 1 =>
              \A k \in 2 .. Len(Pieces(l \o v)) : Pieces(l \o v)[k] = <<>>
<1> DEFINE Few(w) == /\ Len(Pieces(l \o w)) <= Len(w) + 1
                     /\ Len(Pieces(l \o w)) = Len(w) + 1 =>
                          \A k \in 2 .. Len(Pieces(l \o w)) : Pieces(l \o w)[k] = <<>>
           T == {w \in Text : Few(w)}
<1>1. l \in Text
  BY LinesAreText
<1>2. <<>> \in T
  <2>1. l \o <<>> = l /\ <<>> \in Text /\ Len(<<l>>) = 1 /\ Len(<<>>) = 0
    BY <1>1, ConcatEmptySeq, EmptySeq DEF Text
  <2>2. Pieces(l \o <<>>) = <<l>>
    BY <2>1, PiecesOfLine
  <2>3. Few(<<>>)
    <3> DEFINE p == Pieces(l \o <<>>)
    <3>1. Len(p) = 1 /\ 1 <= 0 + 1 /\ 2 .. 1 = {}
      BY <2>1, <2>2
    <3> HIDE DEF p
    <3>2. /\ Len(p) <= Len(<<>>) + 1
          /\ Len(p) = Len(<<>>) + 1 => \A k \in 2 .. Len(p) : p[k] = <<>>
      BY <2>1, <3>1
    <3>3. QED
      BY <3>2 DEF p
  <2>4. QED
    BY <2>1, <2>3
<1>3. ASSUME NEW w \in T, NEW c \in Char \cup {NL} PROVE Append(w, c) \in T
  <2>1. w \in Text /\ Few(w)
    OBVIOUS
  <2> HIDE DEF T
  <2> DEFINE ls == Pieces(l \o w)
             n == Len(ls)
             p == Put(ls, c)
             z == Len(w)
  <2>2. /\ l \o w \in Text /\ Append(w, c) \in Text /\ z \in Nat
        /\ l \o Append(w, c) = Append(l \o w, c) /\ Len(Append(w, c)) = z + 1
    BY <1>1, <2>1, ConcatProperties, AppendProperties, ConcatAppend, LenProperties DEF Text
  <2>3. Pieces(l \o Append(w, c)) = p /\ ls \in Seq(Line) /\ ls # <<>> /\ n \in Nat \ {0}
    BY <2>2, PiecesOfAppend, PiecesAreLines DEF Text
  <2>4. n <= z + 1 /\ (n = z + 1 => \A k \in 2 .. n : ls[k] = <<>>)
    BY <2>1
  <2> HIDE DEF ls
  <2>5. /\ Len(p) = IF c = NL THEN n + 1 ELSE n
        /\ \A k \in 1 .. n : p[k] = IF k = n /\ c # NL THEN Append(ls[k], c) ELSE ls[k]
        /\ c = NL => p[n + 1] = <<>>
    BY <2>3, PutIs
  <2> HIDE DEF n, p, z
  <2>6. Len(p) <= (z + 1) + 1
    BY <2>2, <2>3, <2>4, <2>5
  <2>7. ASSUME Len(p) = (z + 1) + 1, NEW k \in 2 .. Len(p)
        PROVE  p[k] = <<>>
    <3>1. c = NL /\ n = z + 1 /\ Len(p) = n + 1
      BY <2>2, <2>3, <2>4, <2>5, <2>7
    <3>2. k = n + 1 \/ (k \in 2 .. n /\ k \in 1 .. n)
      BY <2>3, <2>7, <3>1
    <3>3. QED
      BY <2>4, <2>5, <3>1, <3>2
  <2>8. QED
    BY <2>2, <2>3, <2>6, <2>7 DEF T
<1>4. T = Text
  <2>1. T \subseteq Seq(Char \cup {NL})
    BY DEF Text
  <2> HIDE DEF T
  <2>2. QED
    BY <1>2, <1>3, <2>1, InductSeq DEF Text
<1>5. QED
  BY <1>4

-----------------------------------------------------------------------------
(* Split(): the pieces without the blank ones at the end.                  *)

\* Of some natural numbers up to n one is the greatest.
LEMMA Greatest ==
  ASSUME NEW n \in Nat, NEW E, E \subseteq 1 .. n, E # {}
  PROVE  \E a \in E : \A b \in E : b <= a
<1> DEFINE D == {n - a : a \in E}
<1>1. D \subseteq Nat /\ D # {}
  <2>1. \A a \in E : n - a \in Nat
    OBVIOUS
  <2>2. QED
    BY <2>1
<1>2. PICK d \in D : \A e \in D : d <= e
  <2> HIDE DEF D
  <2>1. QED
    BY <1>1, Least
<1>3. PICK a \in E : d = n - a
  OBVIOUS
<1>4. ASSUME NEW b \in E PROVE b <= a
  <2>1. n - b \in D
    OBVIOUS
  <2> HIDE DEF D
  <2>2. a \in 1 .. n /\ b \in 1 .. n /\ n - a <= n - b
    BY <1>2, <1>3, <2>1
  <2>3. QED
    BY <2>2
<1>5. QED
  BY <1>4

LEMMA SplitIs ==
  ASSUME NEW t \in Text
  PROVE  \E m \in 0 .. Len(Pieces(t)) :
           /\ Split(t) = SubSeq(Pieces(t), 1, m)
           /\ \A k \in m + 1 .. Len(Pieces(t)) : Pieces(t)[k] = <<>>
           /\ m # 0 => Pieces(t)[m] # <<>>
<1> DEFINE ls == Pieces(t)
           n == Len(ls)
           E == {k \in DOMAIN ls : ls[k] # <<>>}
           m == IF E = {} THEN 0 ELSE CHOOSE a \in E : \A b \in E : b <= a
<1>1. ls \in Seq(Line) /\ n \in Nat /\ DOMAIN ls = 1 .. n
  BY PiecesAreLines, LenProperties
<1>2. E = {k \in 1 .. n : ls[k] # <<>>}
  BY <1>1
<1>3. Split(t) = SubSeq(ls, 1, m)
  BY DEF Split
<1> HIDE DEF ls, n
<1>4. CASE E = {}
  <2>1. m = 0 /\ \A k \in 1 .. n : ls[k] = <<>>
    BY <1>2, <1>4
  <2>2. m \in 0 .. n /\ m + 1 = 1
    BY <1>1, <2>1
  <2> HIDE DEF m
  <2>3. QED
    BY <1>3, <2>1, <2>2 DEF ls, n
<1>5. CASE E # {}
  <2>1. E \subseteq 1 .. n
    BY <1>2
  <2> HIDE DEF E
  <2>2. \E a \in E : \A b \in E : b <= a
    BY <1>1, <1>5, <2>1, Greatest
  <2>3. m \in E /\ \A b \in E : b <= m
    BY <1>5, <2>2
  <2> HIDE DEF m
  <2>4. m \in 1 .. n /\ ls[m] # <<>>
    BY <1>2, <2>3
  <2>5. ASSUME NEW k \in m + 1 .. n PROVE ls[k] = <<>>
    <3>1. k \in 1 .. n /\ ~(k <= m)
      BY <1>1, <2>4
    <3>2. QED
      BY <1>2, <2>3, <3>1
  <2>6. m \in 0 .. n
    BY <1>1, <2>4
  <2>7. QED
    BY <1>3, <2>4, <2>5, <2>6 DEF ls, n
<1>6. QED
  BY <1>4, <1>5

\* Split() gives lines, and adds no more of them than characters.
LEMMA SplitFits ==
  ASSUME NEW l \in Line, NEW v \in Text, v # <<>>
  PROVE  Split(l \o v) \in Seq(Line) /\ Len(Split(l \o v)) <= Len(v)
<1> DEFINE ls == Pieces(l \o v)
           n == Len(ls)
<1>1. l \o v \in Text /\ Len(v) \in Nat \ {0}
  BY LinesAreText, ConcatProperties, EmptySeq DEF Text
<1>2. ls \in Seq(Line) /\ n \in Nat \ {0}
  BY <1>1, PiecesAreLines
<1>3. PICK m \in 0 .. n :
        /\ Split(l \o v) = SubSeq(ls, 1, m)
        /\ \A k \in m + 1 .. n : ls[k] = <<>>
        /\ m # 0 => ls[m] # <<>>
  BY <1>1, SplitIs
<1>4. n <= Len(v) + 1 /\ (n = Len(v) + 1 => \A k \in 2 .. n : ls[k] = <<>>)
  BY CountPieces
<1> HIDE DEF ls, n
<1>5. m <= Len(v)
  BY <1>1, <1>2, <1>3, <1>4
<1>6. \A k \in 1 .. m : ls[k] \in Line
  BY <1>2, <1>3, ElementOfSeq DEF n
<1>7. SubSeq(ls, 1, m) \in Seq(Line) /\ Len(SubSeq(ls, 1, m)) = m
  BY <1>2, <1>3, <1>6, SubSeqProperties
<1>8. QED
  BY <1>3, <1>5, <1>7

-----------------------------------------------------------------------------
(* What NonBlank() keeps.                                                  *)

LEMMA NonBlankIsSeq ==
  ASSUME NEW S, NEW s \in Seq(S)
  PROVE  NonBlank(s) \in Seq(S)
<1> DEFINE T == {t \in Seq(S) : NonBlank(t) \in Seq(S)}
<1>1. <<>> \in T
  BY EmptySeq, NonBlankEmpty
<1>2. ASSUME NEW t \in T, NEW e \in S PROVE Append(t, e) \in T
  <2>1. t \in Seq(S) /\ NonBlank(t) \in Seq(S)
    OBVIOUS
  <2>2. Append(t, e) \in Seq(S) /\ NonBlank(Append(t, e)) = Keep(NonBlank(t), e)
    BY <2>1, AppendProperties, NonBlankAppend
  <2>3. Keep(NonBlank(t), e) \in Seq(S)
    BY <2>1, AppendProperties DEF Keep
  <2>4. QED
    BY <2>2, <2>3
<1>3. T = Seq(S)
  <2>1. T \subseteq Seq(S)
    OBVIOUS
  <2> HIDE DEF T
  <2>2. QED
    BY <1>1, <1>2, <2>1, InductSeq
<1>4. QED
  BY <1>3

LEMMA NonBlankConcat ==
  ASSUME NEW S, NEW s \in Seq(S), NEW t \in Seq(S)
  PROVE  NonBlank(s \o t) = NonBlank(s) \o NonBlank(t)
<1> DEFINE T == {u \in Seq(S) : NonBlank(s \o u) = NonBlank(s) \o NonBlank(u)}
<1>1. <<>> \in T
  <2>1. s \o <<>> = s /\ NonBlank(s) \in Seq(S) /\ NonBlank(s) \o <<>> = NonBlank(s) /\ <<>> \in Seq(S)
    BY ConcatEmptySeq, EmptySeq, NonBlankIsSeq
  <2>2. QED
    BY <2>1, NonBlankEmpty
<1>2. ASSUME NEW u \in T, NEW e \in S PROVE Append(u, e) \in T
  <2>1. u \in Seq(S) /\ NonBlank(s \o u) = NonBlank(s) \o NonBlank(u)
    OBVIOUS
  <2> HIDE DEF T
  <2>2. /\ s \o u \in Seq(S) /\ Append(u, e) \in Seq(S)
        /\ s \o Append(u, e) = Append(s \o u, e)
    BY <2>1, ConcatProperties, AppendProperties, ConcatAppend
  <2>3. /\ NonBlank(s \o Append(u, e)) = Keep(NonBlank(s \o u), e)
        /\ NonBlank(Append(u, e)) = Keep(NonBlank(u), e)
    BY <2>1, <2>2, NonBlankAppend
  <2>4. NonBlank(s) \in Seq(S) /\ NonBlank(u) \in Seq(S)
    BY <2>1, NonBlankIsSeq
  <2>5. NonBlank(s) \o Append(NonBlank(u), e) = Append(NonBlank(s) \o NonBlank(u), e)
    BY <2>4, ConcatAppend
  <2>6. QED
    BY <2>1, <2>2, <2>3, <2>5 DEF T, Keep
<1>3. T = Seq(S)
  <2>1. T \subseteq Seq(S)
    OBVIOUS
  <2> HIDE DEF T
  <2>2. QED
    BY <1>1, <1>2, <2>1, InductSeq
<1>4. QED
  BY <1>3

LEMMA NonBlankOfOne ==
  ASSUME NEW e
  PROVE  NonBlank(<<e>>) = IF e = <<>> THEN <<>> ELSE <<e>>
<1>1. <<e>> = Append(<<>>, e) /\ <<>> \in Seq({e})
  OBVIOUS
<1>2. NonBlank(<<e>>) = Keep(<<>>, e)
  BY <1>1, NonBlankAppend, NonBlankEmpty
<1>3. QED
  BY <1>1, <1>2 DEF Keep

LEMMA NonBlankOfBlanks ==
  ASSUME NEW S, NEW s \in Seq(S), \A k \in 1 .. Len(s) : s[k] = <<>>
  PROVE  NonBlank(s) = <<>>
<1> DEFINE T == {t \in Seq(S) : (\A k \in 1 .. Len(t) : t[k] = <<>>) => NonBlank(t) = <<>>}
<1>1. <<>> \in T
  BY EmptySeq, NonBlankEmpty
<1>2. ASSUME NEW t \in T, NEW e \in S PROVE Append(t, e) \in T
  <2>1. t \in Seq(S) /\ ((\A k \in 1 .. Len(t) : t[k] = <<>>) => NonBlank(t) = <<>>)
    OBVIOUS
  <2> HIDE DEF T
  <2> DEFINE u == Append(t, e)
  <2>2. /\ u \in Seq(S) /\ Len(u) = Len(t) + 1 /\ Len(t) \in Nat
        /\ \A k \in 1 .. Len(t) : u[k] = t[k]
        /\ u[Len(t) + 1] = e
        /\ NonBlank(u) = Keep(NonBlank(t), e)
    BY <2>1, AppendProperties, LenProperties, NonBlankAppend
  <2> HIDE DEF u
  <2>3. ASSUME \A k \in 1 .. Len(u) : u[k] = <<>>
        PROVE  NonBlank(u) = <<>>
    <3>1. \A k \in 1 .. Len(t) : t[k] = <<>>
      BY <2>2, <2>3
    <3>2. Len(t) + 1 \in 1 .. Len(u)
      BY <2>2
    <3>3. e = <<>>
      BY <2>2, <2>3, <3>2
    <3>4. QED
      BY <2>1, <2>2, <3>1, <3>3 DEF Keep
  <2>4. QED
    BY <2>2, <2>3 DEF T, u
<1>3. T = Seq(S)
  <2>1. T \subseteq Seq(S)
    OBVIOUS
  <2> HIDE DEF T
  <2>2. QED
    BY <1>1, <1>2, <2>1, InductSeq
<1>4. QED
  BY <1>3

\* Blank lines at the end are not counted.
LEMMA NonBlankOfBeginning ==
  ASSUME NEW S, NEW s \in Seq(S), NEW m \in 0 .. Len(s), \A k \in m + 1 .. Len(s) : s[k] = <<>>
  PROVE  NonBlank(SubSeq(s, 1, m)) = NonBlank(s)
<1> DEFINE n == Len(s)
           a == SubSeq(s, 1, m)
           b == SubSeq(s, m + 1, n)
<1>1. n \in Nat /\ m \in Nat /\ m <= n /\ \A k \in 1 .. n : s[k] \in S
  BY LenProperties, ElementOfSeq
<1>2. a \o b = s
  <2>1. 1 \in 1 .. n + 1 /\ m \in 1 - 1 .. n /\ n \in m .. n
    BY <1>1
  <2>2. a \o b = SubSeq(s, 1, n)
    BY <2>1, ConcatAdjacentSubSeq
  <2>3. QED
    BY <2>2, SubSeqFull
<1>3. a \in Seq(S)
  <2>1. \A k \in 1 .. m : s[k] \in S
    BY <1>1
  <2>2. QED
    BY <1>1, <2>1, SubSeqProperties
<1>4. /\ b \in Seq(S) /\ Len(b) = (IF m + 1 <= n THEN n - (m + 1) + 1 ELSE 0)
      /\ \A k \in 1 .. n - (m + 1) + 1 : b[k] = s[(m + 1) + k - 1]
  <2>1. \A k \in m + 1 .. n : s[k] \in S
    BY <1>1
  <2>2. m + 1 \in Int /\ n \in Int
    BY <1>1
  <2>3. QED
    BY <2>1, <2>2, SubSeqProperties
<1> HIDE DEF a, b
<1>5. \A k \in 1 .. Len(b) : b[k] = <<>>
  <2>1. ASSUME NEW k \in 1 .. Len(b) PROVE b[k] = <<>>
    <3>1. k \in 1 .. n - (m + 1) + 1 /\ (m + 1) + k - 1 \in m + 1 .. n
      BY <1>1, <1>4
    <3>2. QED
      BY <1>4, <3>1
  <2>2. QED
    BY <2>1
<1>6. NonBlank(b) = <<>>
  BY <1>4, <1>5, NonBlankOfBlanks
<1>7. NonBlank(a) \in Seq(S)
  BY <1>3, NonBlankIsSeq
<1>8. NonBlank(s) = NonBlank(a) \o <<>>
  BY <1>2, <1>3, <1>4, <1>6, NonBlankConcat
<1>9. QED
  BY <1>7, <1>8, ConcatEmptySeq DEF a

LEMMA NonBlankOfSplit ==
  ASSUME NEW t \in Text
  PROVE  NonBlank(Split(t)) = NonBlank(Pieces(t))
<1> DEFINE ls == Pieces(t)
<1>1. ls \in Seq(Line)
  BY PiecesAreLines
<1>2. PICK m \in 0 .. Len(ls) :
        Split(t) = SubSeq(ls, 1, m) /\ \A k \in m + 1 .. Len(ls) : ls[k] = <<>>
  BY SplitIs
<1> HIDE DEF ls
<1>3. NonBlank(SubSeq(ls, 1, m)) = NonBlank(ls)
  BY <1>1, <1>2, NonBlankOfBeginning
<1>4. QED
  BY <1>2, <1>3 DEF ls

-----------------------------------------------------------------------------
(* What a text that is put to another one adds to its lines.               *)

Entry == Line \cup {Null}

LEMMA LinesAreEntries ==
  ASSUME NEW s \in Seq(Line) PROVE s \in Seq(Entry)
BY SeqMonotonic DEF Entry

\* The last piece of the whole is the last piece of what goes on with the last.
LEMMA LastOfConcat ==
  ASSUME NEW u \in Text, NEW v \in Text
  PROVE  Last(Pieces(u \o v)) = Last(Pieces(Last(Pieces(u)) \o v))
<1> DEFINE q == Front(Pieces(u))
           l == Last(Pieces(u))
           ls == Pieces(l \o v)
<1>1. q \in Seq(Line) /\ l \in Line
  BY PiecesAreLines, FrontAndLast
<1>2. l \o v \in Text
  BY <1>1, LinesAreText, ConcatProperties DEF Text
<1>3. ls \in Seq(Line) /\ Len(ls) \in Nat \ {0}
  BY <1>2, PiecesAreLines
<1>4. Pieces(u \o v) = q \o ls
  BY PiecesOfConcat
<1> HIDE DEF q, ls
<1>5. Len(q) \in Nat
  BY <1>1, LenProperties
<1>6. /\ Len(q \o ls) = Len(q) + Len(ls)
      /\ \A k \in 1 .. Len(q) + Len(ls) : (q \o ls)[k] = IF k <= Len(q) THEN q[k] ELSE ls[k - Len(q)]
  BY <1>1, <1>3, ConcatProperties
<1>7. /\ Len(q) + Len(ls) \in 1 .. Len(q) + Len(ls) /\ ~(Len(q) + Len(ls) <= Len(q))
      /\ (Len(q) + Len(ls)) - Len(q) = Len(ls)
  BY <1>3, <1>5
<1>8. QED
  BY <1>4, <1>6, <1>7 DEF Last, ls

LEMMA LinesOfConcat ==
  ASSUME NEW u \in Text, NEW v \in Text
  PROVE  NonBlank(Pieces(u \o v)) = NonBlank(Front(Pieces(u))) \o NonBlank(Split(Last(Pieces(u)) \o v))
<1> DEFINE q == Front(Pieces(u))
           l == Last(Pieces(u))
<1>1. q \in Seq(Line) /\ l \in Line
  BY PiecesAreLines, FrontAndLast
<1>2. l \o v \in Text
  BY <1>1, LinesAreText, ConcatProperties DEF Text
<1>3. Pieces(l \o v) \in Seq(Line) /\ NonBlank(Split(l \o v)) = NonBlank(Pieces(l \o v))
  BY <1>2, PiecesAreLines, NonBlankOfSplit
<1>4. Pieces(u \o v) = q \o Pieces(l \o v)
  BY PiecesOfConcat
<1> DEFINE ls == Pieces(l \o v)
<1> HIDE DEF q, ls
<1>5. NonBlank(q \o ls) = NonBlank(q) \o NonBlank(ls)
  BY <1>1, <1>3, NonBlankConcat DEF ls
<1>6. QED
  BY <1>3, <1>4, <1>5 DEF q, ls

\* The log s holds the lines of u but the first ones, p; so it does with what
\* v adds, when the last piece of u is blank, and when it is the last line of s
\* and taken out of it.
LEMMA GoOnAfterEnd ==
  ASSUME NEW u \in Text, NEW v \in Text, NEW s \in Seq(Entry), NEW p \in Seq(Entry),
         NonBlank(Pieces(u)) = p \o NonBlank(s), Last(Pieces(u)) = <<>>
  PROVE  NonBlank(Pieces(u \o v)) = p \o (NonBlank(s) \o NonBlank(Split(<<>> \o v)))
<1> DEFINE q == Front(Pieces(u))
           r == NonBlank(Split(<<>> \o v))
<1>1. q \in Seq(Line) /\ Pieces(u) = q \o << <<>> >> /\ << <<>> >> \in Seq(Line)
  BY PiecesAreLines, FrontAndLast, SMTT(60)
<1>2. NonBlank(Pieces(u \o v)) = NonBlank(q) \o r
  <2> DEFINE l == Last(Pieces(u))
             added(x) == NonBlank(Split(x \o v))
  <2>1. NonBlank(Pieces(u \o v)) = NonBlank(q) \o added(l)
    BY LinesOfConcat
  <2>2. l = <<>> /\ r = added(<<>>)
    OBVIOUS
  <2> HIDE DEF l, q, r, added
  <2>3. QED
    BY <2>1, <2>2
<1>3. NonBlank(q) \in Seq(Line) /\ NonBlank(s) \in Seq(Entry)
  BY <1>1, NonBlankIsSeq
<1>4. NonBlank(Pieces(u)) = NonBlank(q) \o NonBlank(<< <<>> >>)
  BY <1>1, NonBlankConcat
<1>5. NonBlank(Pieces(u)) = NonBlank(q)
  BY <1>3, <1>4, NonBlankOfOne, ConcatEmptySeq
<1>6. r \in Seq(Entry)
  <2>1. <<>> \o v \in Text
    BY EmptySeq, ConcatProperties DEF Text
  <2>2. r \in Seq(Line)
    BY <2>1, PiecesAreLines, NonBlankOfSplit, NonBlankIsSeq
  <2>3. QED
    BY <2>2, LinesAreEntries
<1>7. (p \o NonBlank(s)) \o r = p \o (NonBlank(s) \o r)
  <2> DEFINE x == NonBlank(s)
  <2>1. x \in Seq(Entry) /\ r \in Seq(Entry)
    BY <1>3, <1>6
  <2> HIDE DEF x, r
  <2>2. (p \o x) \o r = p \o (x \o r)
    BY <2>1, ConcatAssociative, SMTT(60)
  <2>3. QED
    BY <2>2 DEF x
<1>8. QED
  BY <1>2, <1>5, <1>7

LEMMA GoOnWithLast ==
  ASSUME NEW u \in Text, NEW v \in Text, NEW s \in Seq(Entry), NEW p \in Seq(Entry),
         NonBlank(Pieces(u)) = p \o NonBlank(s),
         s # <<>>, Last(s) = Last(Pieces(u)), Last(s) # <<>>
  PROVE  NonBlank(Pieces(u \o v)) = p \o (NonBlank(Front(s)) \o NonBlank(Split(Last(s) \o v)))
<1> DEFINE q == Front(Pieces(u))
           l == Last(s)
           f == Front(s)
           r == NonBlank(Split(l \o v))
<1>1. q \in Seq(Line) /\ l \in Line /\ Pieces(u) = q \o <<l>> /\ <<l>> \in Seq(Line)
  <2> DEFINE m == Last(Pieces(u))
  <2>1. q \in Seq(Line) /\ m \in Line /\ Pieces(u) = q \o <<m>> /\ l = m
    BY PiecesAreLines, FrontAndLast
  <2> HIDE DEF q, l, m
  <2>2. QED
    BY <2>1
<1>2. f \in Seq(Entry) /\ s = f \o <<l>> /\ <<l>> \in Seq(Entry)
  BY FrontAndLast
<1>3. NonBlank(Pieces(u \o v)) = NonBlank(q) \o r
  <2> DEFINE m == Last(Pieces(u))
  <2>1. NonBlank(Pieces(u \o v)) = NonBlank(q) \o NonBlank(Split(m \o v)) /\ l = m
    BY LinesOfConcat
  <2> HIDE DEF q, l, m
  <2>2. QED
    BY <2>1
<1>4. l # <<>>
  OBVIOUS
<1> HIDE DEF q, l, f, r
<1>5. NonBlank(Pieces(u)) = NonBlank(q) \o <<l>> /\ NonBlank(s) = NonBlank(f) \o <<l>>
  <2>1. NonBlank(q \o <<l>>) = NonBlank(q) \o NonBlank(<<l>>)
    BY <1>1, NonBlankConcat
  <2>2. NonBlank(f \o <<l>>) = NonBlank(f) \o NonBlank(<<l>>)
    BY <1>2, NonBlankConcat
  <2>3. NonBlank(<<l>>) = <<l>>
    BY <1>4, NonBlankOfOne
  <2>4. QED
    BY <1>1, <1>2, <2>1, <2>2, <2>3
<1>6. NonBlank(q) \in Seq(Entry) /\ NonBlank(f) \in Seq(Entry)
  BY <1>1, <1>2, NonBlankIsSeq, LinesAreEntries
<1>7. NonBlank(q) \o <<l>> = (p \o NonBlank(f)) \o <<l>>
  <2>1. p \o (NonBlank(f) \o <<l>>) = (p \o NonBlank(f)) \o <<l>>
    <3> DEFINE x == NonBlank(f)
               y == <<l>>
    <3>1. x \in Seq(Entry) /\ y \in Seq(Entry)
      BY <1>2, <1>6
    <3> HIDE DEF x, y
    <3>2. (p \o x) \o y = p \o (x \o y)
      BY <3>1, ConcatAssociative, SMTT(60)
    <3>3. QED
      BY <3>2 DEF x, y
  <2>2. NonBlank(Pieces(u)) = p \o NonBlank(s)
    OBVIOUS
  <2>3. QED
    BY <1>5, <2>1, <2>2
<1>8. p \o NonBlank(f) \in Seq(Entry)
  BY <1>6, ConcatProperties
<1>9. NonBlank(q) = p \o NonBlank(f)
  BY <1>2, <1>6, <1>7, <1>8, ConcatSimplifications
<1>10. r \in Seq(Entry)
  <2>1. l \o v \in Text
    BY <1>1, LinesAreText, ConcatProperties DEF Text
  <2>2. r \in Seq(Line)
    BY <2>1, PiecesAreLines, NonBlankOfSplit, NonBlankIsSeq DEF r
  <2>3. QED
    BY <2>2, LinesAreEntries
<1>11. (p \o NonBlank(f)) \o r = p \o (NonBlank(f) \o r)
  <2> DEFINE x == NonBlank(f)
  <2>1. x \in Seq(Entry)
    BY <1>6
  <2> HIDE DEF x
  <2>2. (p \o x) \o r = p \o (x \o r)
    BY <1>10, <2>1, ConcatAssociative, SMTT(60)
  <2>3. QED
    BY <2>2 DEF x
<1>12. QED
  BY <1>3, <1>9, <1>11 DEF l, f, r

-----------------------------------------------------------------------------
(* Lemmas on sequences the actions need.                                   *)

LEMMA SplitIsPieces ==
  ASSUME NEW t \in Text, Last(Pieces(t)) # <<>>
  PROVE  Split(t) = Pieces(t)
<1> DEFINE ls == Pieces(t)
           n == Len(ls)
<1>1. ls \in Seq(Line) /\ n \in Nat \ {0} /\ ls[n] # <<>>
  BY PiecesAreLines DEF Last
<1>2. PICK m \in 0 .. n : Split(t) = SubSeq(ls, 1, m) /\ \A k \in m + 1 .. n : ls[k] = <<>>
  BY SplitIs
<1> HIDE DEF ls
<1>3. m = n
  <2>1. n \notin m + 1 .. n
    BY <1>1, <1>2
  <2>2. QED
    BY <1>1, <2>1
<1>4. SubSeq(ls, 1, n) = ls
  BY <1>1, SubSeqFull
<1>5. QED
  BY <1>2, <1>3, <1>4 DEF ls

LEMMA SplitIsNotEmpty ==
  ASSUME NEW l \in Line, l # <<>>, NEW v \in Text
  PROVE  Split(l \o v) # <<>>
<1> DEFINE t == l \o v
           ls == Pieces(t)
           n == Len(ls)
<1>1. t \in Text
  BY LinesAreText, ConcatProperties DEF Text
<1>2. ls \in Seq(Line) /\ n \in Nat \ {0} /\ ls[1] # <<>>
  BY <1>1, PiecesAreLines, FirstPiece
<1>3. PICK m \in 0 .. n : Split(t) = SubSeq(ls, 1, m) /\ \A k \in m + 1 .. n : ls[k] = <<>>
  BY <1>1, SplitIs
<1> HIDE DEF ls
<1>4. m \in 1 .. n
  <2>1. 1 \notin m + 1 .. n
    BY <1>2, <1>3
  <2>2. QED
    BY <1>2, <2>1
<1>5. \A k \in 1 .. m : ls[k] \in Line
  BY <1>2, <1>4, ElementOfSeq
<1>6. SubSeq(ls, 1, m) \in Seq(Line) /\ Len(SubSeq(ls, 1, m)) = m
  BY <1>4, <1>5, SubSeqProperties
<1>7. Len(<<>>) = 0
  OBVIOUS
<1>8. QED
  BY <1>3, <1>4, <1>6, <1>7

LEMMA RemoveLast ==
  ASSUME NEW S, NEW s \in Seq(S), s # <<>>
  PROVE  RemoveAt(s, Len(s)) = Front(s) /\ Front(s) \in Seq(S) /\ Len(Front(s)) = Len(s) - 1
<1>1. Front(s) \in Seq(S) /\ Len(Front(s)) = Len(s) - 1 /\ Len(s) \in Nat
  BY FrontAndLast, LenProperties
<1>2. SubSeq(s, Len(s) + 1, Len(s)) = <<>>
  BY <1>1, SubSeqEmpty
<1>3. RemoveAt(s, Len(s)) = Front(s) \o <<>>
  BY <1>2 DEF RemoveAt, Front
<1>4. QED
  BY <1>1, <1>3, ConcatEmptySeq

LEMMA HeadAndTail ==
  ASSUME NEW S, NEW s \in Seq(S), s # <<>>
  PROVE  /\ Head(s) \in S /\ Tail(s) \in Seq(S) /\ Len(Tail(s)) = Len(s) - 1 /\ Len(s) \in Nat \ {0}
         /\ s = <<Head(s)>> \o Tail(s)
         /\ Tail(s) # <<>> => Last(Tail(s)) = Last(s)
         /\ Tail(s) = <<>> <=> Len(s) = 1
         /\ Tail(s) = <<>> => Last(s) = Head(s)
<1>1. /\ Head(s) \in S /\ Tail(s) \in Seq(S) /\ Len(Tail(s)) = Len(s) - 1 /\ Len(s) \in Nat \ {0}
      /\ \A k \in 1 .. Len(Tail(s)) : Tail(s)[k] = s[k + 1]
  BY HeadTailProperties, EmptySeq
<1>2. 1 \in 1 .. Len(s) /\ Len(s) \in 1 .. Len(s)
  BY <1>1
<1>3. /\ Head(SubSeq(s, 1, Len(s))) = s[1]
      /\ SubSeq(s, 1, Len(s)) = <<s[1]>> \o SubSeq(s, 1 + 1, Len(s))
  BY <1>2, HeadTailOfSubSeq, SubSeqRecursiveFirst
<1>4. Head(s) = s[1] /\ s = <<s[1]>> \o SubSeq(s, 2, Len(s))
  BY <1>3, SubSeqFull
<1>5. s = <<Head(s)>> \o Tail(s)
  BY <1>4, TailIsSubSeq
<1>6. Tail(s) = <<>> <=> Len(s) = 1
  <2>1. Tail(s) # <<>> => Len(Tail(s)) \in Nat \ {0}
    BY <1>1, EmptySeq
  <2>2. Len(<<>>) = 0
    OBVIOUS
  <2>3. Tail(s) = <<>> => Len(Tail(s)) = 0
    BY <2>2
  <2>4. QED
    BY <1>1, <2>1, <2>3
<1>7. ASSUME Tail(s) # <<>> PROVE Last(Tail(s)) = Last(s)
  <2>1. Len(Tail(s)) \in Nat \ {0}
    BY <1>1, <1>7, EmptySeq
  <2>2. Len(Tail(s)) \in 1 .. Len(Tail(s)) /\ Len(Tail(s)) + 1 = Len(s)
    BY <1>1, <2>1
  <2>3. QED
    BY <1>1, <2>2 DEF Last
<1>8. Tail(s) = <<>> => Last(s) = Head(s)
  BY <1>4, <1>6 DEF Last
<1>9. QED
  BY <1>1, <1>5, <1>6, <1>7, <1>8

\* The first of the lines to add goes to the end of the log.
LEMMA MoveOne ==
  ASSUME NEW s \in Seq(Entry), NEW t \in Seq(Line), t # <<>>
  PROVE  NonBlank(s) \o NonBlank(t) = NonBlank(Append(s, Head(t))) \o NonBlank(Tail(t))
<1> DEFINE h == Head(t)
           r == Tail(t)
<1>1. h \in Line /\ r \in Seq(Line) /\ t = <<h>> \o r
  BY HeadAndTail
<1>2. h \in Entry /\ r \in Seq(Entry)
  BY <1>1, LinesAreEntries DEF Entry
<1> HIDE DEF h, r
<1>3. <<h>> \in Seq(Entry) /\ Append(s, h) = s \o <<h>>
  BY <1>2, AppendIsConcat
<1>4. NonBlank(t) = NonBlank(<<h>>) \o NonBlank(r)
  BY <1>1, <1>2, <1>3, NonBlankConcat
<1>5. NonBlank(Append(s, h)) = NonBlank(s) \o NonBlank(<<h>>)
  BY <1>3, NonBlankConcat
<1>6. NonBlank(s) \in Seq(Entry) /\ NonBlank(<<h>>) \in Seq(Entry) /\ NonBlank(r) \in Seq(Entry)
  BY <1>2, <1>3, NonBlankIsSeq
<1>7. NonBlank(s) \o (NonBlank(<<h>>) \o NonBlank(r)) = (NonBlank(s) \o NonBlank(<<h>>)) \o NonBlank(r)
  <2> DEFINE x == NonBlank(s)
             y == NonBlank(<<h>>)
             z == NonBlank(r)
  <2>1. x \in Seq(Entry) /\ y \in Seq(Entry) /\ z \in Seq(Entry)
    BY <1>6
  <2> HIDE DEF x, y, z
  <2>2. (x \o y) \o z = x \o (y \o z)
    BY <2>1, ConcatAssociative, SMTT(60)
  <2>3. QED
    BY <2>2 DEF x, y, z
<1>8. QED
  BY <1>4, <1>5, <1>7 DEF h, r

\* The oldest line of the log goes.
LEMMA DropOne ==
  ASSUME NEW s \in Seq(Entry), s # <<>>, NEW p \in Seq(Entry), NEW r \in Seq(Entry)
  PROVE  \E q \in Seq(Entry) : p \o (NonBlank(s) \o r) = q \o (NonBlank(Tail(s)) \o r)
<1> DEFINE h == <<Head(s)>>
           t == Tail(s)
           x == NonBlank(h)
           y == NonBlank(t)
<1>1. h \in Seq(Entry) /\ t \in Seq(Entry) /\ s = h \o t
  BY HeadAndTail
<1> HIDE DEF h, t
<1>2. NonBlank(s) = x \o y /\ x \in Seq(Entry) /\ y \in Seq(Entry)
  BY <1>1, NonBlankConcat, NonBlankIsSeq
<1> HIDE DEF x, y
<1>3. (x \o y) \o r = x \o (y \o r)
  BY <1>2, ConcatAssociative, SMTT(60)
<1>4. y \o r \in Seq(Entry) /\ p \o x \in Seq(Entry)
  BY <1>2, ConcatProperties
<1>5. p \o (x \o (y \o r)) = (p \o x) \o (y \o r)
  <2> DEFINE z == y \o r
  <2>1. z \in Seq(Entry)
    BY <1>4
  <2> HIDE DEF z
  <2>2. x \in Seq(Entry)
    BY <1>2
  <2>3. (p \o x) \o z = p \o (x \o z)
    BY <2>1, <2>2, ConcatAssociative, SMTT(60)
  <2>4. QED
    BY <2>3 DEF z
<1>6. QED
  BY <1>2, <1>3, <1>4, <1>5 DEF y, t

LEMMA SuffixOfConcat ==
  ASSUME NEW S, NEW p \in Seq(S), NEW s \in Seq(S)
  PROVE  IsSuffix(s, p \o s)
<1> DEFINE t == p \o s
           m == Len(s)
           n == Len(p)
           rs == Reverse(s)
           rt == Reverse(t)
<1>1. /\ m \in Nat /\ n \in Nat /\ Len(t) = n + m
      /\ \A k \in 1 .. n + m : t[k] = IF k <= n THEN p[k] ELSE s[k - n]
  BY ConcatProperties, LenProperties
<1>2. \A k \in 1 .. m : s[k] \in S
  BY ElementOfSeq
<1>3. t \in Seq(S) /\ \A k \in 1 .. n + m : t[k] \in S
  BY <1>1, ConcatProperties, ElementOfSeq
<1> HIDE DEF t, m, n
<1>4. /\ rs = [k \in 1 .. m |-> s[(m - k) + 1]]
      /\ rt = [k \in 1 .. n + m |-> t[((n + m) - k) + 1]]
  BY <1>1 DEF Reverse, m
<1> HIDE DEF rs, rt
<1>5. rs \in Seq(S) /\ Len(rs) = m /\ \A k \in 1 .. m : rs[k] = s[(m - k) + 1]
  <2>1. \A k \in 1 .. m : s[(m - k) + 1] \in S
    BY <1>1, <1>2
  <2>2. m \in Nat
    BY <1>1
  <2>3. rs = [k \in 1 .. m |-> s[(m - k) + 1]]
    BY <1>4
  <2>4. QED
    BY <2>1, <2>2, <2>3
<1>6. rt \in Seq(S) /\ Len(rt) = n + m /\ \A k \in 1 .. n + m : rt[k] = t[((n + m) - k) + 1]
  <2>1. \A k \in 1 .. n + m : t[((n + m) - k) + 1] \in S
    BY <1>1, <1>3
  <2>2. n + m \in Nat
    BY <1>1
  <2>3. rt = [k \in 1 .. n + m |-> t[((n + m) - k) + 1]]
    BY <1>4
  <2>4. QED
    BY <2>1, <2>2, <2>3
<1>7. ASSUME NEW k \in 1 .. m PROVE rt[k] = rs[k]
  <2>1. k \in 1 .. n + m /\ ((n + m) - k) + 1 \in 1 .. n + m /\ ~(((n + m) - k) + 1 <= n)
        /\ (((n + m) - k) + 1) - n = (m - k) + 1
    BY <1>1
  <2>2. QED
    BY <1>1, <1>5, <1>6, <2>1
<1> DEFINE a == SubSeq(rt, 1, m)
<1>8. a \in Seq(S) /\ Len(a) = m /\ \A k \in 1 .. m : a[k] = rt[k]
  <2>1. \A k \in 1 .. m : k \in 1 .. n + m /\ rt[k] \in S
    BY <1>1, <1>6, ElementOfSeq
  <2>2. QED
    BY <1>1, <2>1, SubSeqProperties
<1> HIDE DEF a
<1>9. a = rs
  BY <1>5, <1>7, <1>8, SeqEqual
<1>10. SubSeq(rs, 1, Len(rs)) = rs
  BY <1>5, SubSeqFull
<1>11. Len(rs) <= Len(rt)
  BY <1>1, <1>5, <1>6
<1>12. IsPrefix(rs, rt)
  BY <1>5, <1>9, <1>10, <1>11 DEF IsPrefix, a
<1>13. QED
  BY <1>12 DEF IsSuffix, rs, rt, t

-----------------------------------------------------------------------------
(* The invariant of the log.                                               *)

GoesOn == protocol # <<>> /\ ~lastCharIsNL

Busy == step \in {"add", "trim", "show"}

Sizes ==
  /\ Len(protocol) <= IF step = "trim" THEN MaxLines + 1 ELSE MaxLines
  /\ step = "join" => Len(protocol) <= protocolSize /\ out # <<>>
  /\ step \in {"free", "join"} => i = 0 /\ lines = <<>>
  /\ Busy => Len(protocol) <= protocolSize + i /\ i + Len(lines) <= Len(out)
  /\ Len(out) <= total
  /\ step = "trim" => protocolSize + i > MaxLines
  /\ step = "show" => lines = <<>>
  /\ crashed => step # "free"

\* Between two appends, or before one: the log holds the newest lines of the
\* text w, and knows the line that w leaves open.
Agrees(w) ==
  /\ \E p \in Seq(Entry) :
       /\ NonBlank(Pieces(w)) = p \o NonBlank(protocol)
       /\ p # <<>> => Len(protocol) >= MaxLines - 1
  /\ Last(Pieces(w)) = IF GoesOn THEN lastLine ELSE <<>>
  /\ GoesOn => lastLine # <<>> /\ Last(protocol) = lastLine

\* In an append: the log and the lines to add are the newest of what is
\* written.  g is 1 when the append went on with the last line.
Adding ==
  /\ \E g \in {0, 1}, p \in Seq(Entry) :
       /\ NonBlank(Pieces(written)) = p \o (NonBlank(protocol) \o NonBlank(lines))
       /\ p # <<>> => protocolSize >= MaxLines - 1 \/ protocolSize + i > MaxLines
       /\ Len(protocol) = (IF protocolSize + i <= MaxLines THEN protocolSize + i - g
                                                            ELSE MaxLines - g)
                            + (IF step = "trim" THEN 1 ELSE 0)
       /\ g = 1 => i >= 1 \/ lines # <<>>
  /\ Last(Pieces(written)) =
       IF lastCharIsNL THEN <<>> ELSE IF lines = <<>> THEN lastLine ELSE Last(lines)
  /\ ~lastCharIsNL => Last(Pieces(written)) # <<>>
  /\ ~lastCharIsNL /\ lines = <<>> => protocol # <<>> /\ Last(protocol) = lastLine

Content ==
  ~disturbed /\ ~crashed =>
    /\ step = "free" => Agrees(written)
    /\ step = "join" => \E w \in Text : written = w \o out /\ Agrees(w) /\ protocolSize = Len(protocol)
    /\ Busy => Adding

LogInv == LogTypeOK /\ Sizes /\ Content

-----------------------------------------------------------------------------
LEMMA Assumed == NL \notin Char /\ MaxLines \in Nat /\ MaxLines >= 2 /\ MaxPiece \in Nat /\ MaxText \in Nat
BY ProtocolLogAssumption

LEMMA NothingWritten ==
  ASSUME protocol = <<>>
  PROVE  Agrees(<<>>)
<1>1. NonBlank(Pieces(<<>>)) = <<>>
  BY PiecesOfEmpty, NonBlankOfOne
<1>2. <<>> \in Seq(Entry) /\ <<>> \o <<>> = <<>>
  BY EmptySeq, ConcatEmptySeq
<1>3. Last(Pieces(<<>>)) = <<>>
  BY PiecesOfEmpty DEF Last
<1>4. NonBlank(Pieces(<<>>)) = <<>> \o NonBlank(protocol)
  BY <1>1, <1>2, NonBlankEmpty
<1>5. ~GoesOn
  BY DEF GoesOn
<1>6. QED
  BY <1>2, <1>3, <1>4, <1>5 DEF Agrees

LEMMA InitHolds == LogInit => LogInv
<1> SUFFICES ASSUME LogInit PROVE LogInv
  OBVIOUS
<1> USE DEF LogInit
<1>1. LogTypeOK
  <2>1. \A S : <<>> \in Seq(S)
    BY EmptySeq
  <2>2. Len(<<>>) = 0
    OBVIOUS
  <2>3. 0 \in 0 .. MaxText /\ 0 \in 0 .. MaxLines /\ 0 <= MaxLines + 1
    BY Assumed
  <2>4. QED
    BY <2>1, <2>2, <2>3 DEF LogTypeOK
<1>2. Sizes
  BY Assumed DEF Sizes, Busy
<1>3. Content
  BY NothingWritten DEF Content, Busy
<1>4. QED
  BY <1>1, <1>2, <1>3 DEF LogInv

LEMMA AppendMessageKeeps ==
  ASSUME LogInv, NEW msg \in BoundedSeq(Char \cup {NL}, MaxPiece) \ {<<>>}, AppendMessage(msg)
  PROVE  LogInv'
<1> USE DEF LogInv, AppendMessage, tail
<1>1. msg \in Text /\ msg # <<>> /\ Len(msg) \in Nat \ {0}
  <2>1. PICK m \in 0 .. MaxPiece : msg \in [1 .. m -> Char \cup {NL}]
    BY DEF BoundedSeq, SeqOf
  <2>2. msg \in Text
    BY <2>1, Assumed, SeqDef DEF Text
  <2>3. QED
    BY <2>2, EmptySeq DEF Text
<1>2. LogTypeOK'
  <2>1. written' \in Text
    BY <1>1, ConcatProperties DEF LogTypeOK, Text
  <2>2. protocolSize' \in 0 .. MaxLines
    BY Assumed, LenProperties DEF LogTypeOK, Sizes
  <2>3. total' \in 0 .. MaxText
    BY <1>1, Assumed DEF LogTypeOK
  <2>4. QED
    BY <1>1, <2>1, <2>2, <2>3 DEF LogTypeOK, Text
<1>3. Sizes'
  <2>1. Len(msg) <= total'
    BY <1>1, Assumed DEF LogTypeOK
  <2>2. Len(protocol) \in Nat
    BY LenProperties DEF LogTypeOK
  <2>3. QED
    BY <1>1, <2>1, <2>2 DEF Sizes, Busy
<1>4. Content'
  <2> SUFFICES ASSUME ~disturbed
               PROVE  \E w \in Text : written' = w \o out' /\ Agrees(w)' /\ protocolSize' = Len(protocol')
    BY DEF Content, Busy
  <2>1. ~crashed /\ step = "free"
    OBVIOUS
  <2>2. PICK w \in Text : w = written
    BY DEF LogTypeOK, Text
  <2>3. Agrees(w)
    BY <2>1, <2>2 DEF Content
  <2>4. Agrees(w)'
    BY <2>3 DEF Agrees, GoesOn
  <2>5. written' = w \o out' /\ protocolSize' = Len(protocol')
    BY <2>2
  <2>6. QED
    BY <2>4, <2>5
<1>5. QED
  BY <1>2, <1>3, <1>4

\* What an append goes on with, and the lines it makes of it.
Open == IF protocolSize > 0 /\ ~lastCharIsNL THEN lastLine ELSE <<>>

LEMMA JoinMakes ==
  ASSUME LogInv, Join
  PROVE  /\ Open \in Line /\ out \in Text /\ out # <<>>
         /\ Open \o out \in Text /\ Open \o out # <<>>
         /\ lines' = Split(Open \o out) /\ lines' \in Seq(Line) /\ Len(lines') <= Len(out)
         /\ lastCharIsNL' = (Last(Open \o out) = NL)
<1>1. Open \in Line
  BY EmptySeq DEF LogInv, LogTypeOK, Line, Open
<1>2. out \in Text /\ out # <<>>
  BY DEF LogInv, LogTypeOK, Sizes, Text, Join
<1>3. lines' = Split(Open \o out) /\ lastCharIsNL' = (Last(Open \o out) = NL)
  BY DEF Join, Open
<1>4. Open \o out \in Text /\ Open \o out # <<>>
  BY <1>1, <1>2, LinesAreText, ConcatProperties, ConcatEqualIffEmpty DEF Text
<1>5. lines' \in Seq(Line) /\ Len(lines') <= Len(out)
  BY <1>1, <1>2, <1>3, SplitFits
<1>6. QED
  BY <1>1, <1>2, <1>3, <1>4, <1>5

\* The last line is taken out, or the log stays as it is; when it is shorter
\* than what was read, the thread dies.
LEMMA JoinTakes ==
  ASSUME LogInv, Join
  PROVE  \/ /\ protocolSize > 0 /\ ~lastCharIsNL /\ protocolSize = Len(protocol)
            /\ protocol # <<>> /\ protocol' = Front(protocol) /\ ~crashed'
         \/ protocolSize > 0 /\ ~lastCharIsNL /\ protocolSize # Len(protocol) /\ protocol' = protocol
         \/ ~(protocolSize > 0 /\ ~lastCharIsNL) /\ protocol' = protocol /\ ~crashed'
<1>1. /\ protocol \in Seq(Entry) /\ Len(protocol) \in Nat /\ protocolSize \in Nat
      /\ Len(protocol) <= protocolSize /\ lastCharIsNL \in BOOLEAN
  BY Assumed, LenProperties DEF LogInv, LogTypeOK, Sizes, Join, Entry, Line
<1>2. CASE ~(protocolSize > 0 /\ ~lastCharIsNL)
  BY <1>2 DEF Join
<1>3. CASE (protocolSize > 0 /\ ~lastCharIsNL) /\ protocolSize = Len(protocol)
  <2>1. protocol # <<>>
    <3>1. Len(<<>>) = 0
      OBVIOUS
    <3>2. QED
      BY <1>3, <3>1
  <2>2. ~(protocolSize > Len(protocol))
    BY <1>1, <1>3
  <2>3. protocol' = RemoveAt(protocol, Len(protocol)) /\ ~crashed'
    BY <1>3, <2>2 DEF Join
  <2>4. QED
    BY <1>1, <1>3, <2>1, <2>3, RemoveLast
<1>4. CASE (protocolSize > 0 /\ ~lastCharIsNL) /\ protocolSize # Len(protocol)
  <2>1. protocolSize > Len(protocol)
    BY <1>1, <1>4
  <2>2. QED
    BY <1>4, <2>1 DEF Join
<1>5. QED
  BY <1>2, <1>3, <1>4

LEMMA JoinKeeps ==
  ASSUME LogInv, Join
  PROVE  LogInv'
<1> USE DEF LogInv
<1> DEFINE goes == protocolSize > 0 /\ ~lastCharIsNL
           t == Open \o out
<1>1. /\ protocol \in Seq(Entry) /\ Len(protocol) \in Nat /\ protocolSize \in 0 .. MaxLines
      /\ Len(protocol) <= protocolSize /\ lastCharIsNL \in BOOLEAN /\ i \in Nat
      /\ total \in 0 .. MaxText /\ Len(out) <= total /\ written \in Text /\ disturbed \in BOOLEAN
      /\ crashed = FALSE
  BY Assumed, LenProperties DEF LogTypeOK, Sizes, Join, Entry, Line, Text
<1>2. /\ Open \in Line /\ out \in Text /\ out # <<>>
      /\ t \in Text /\ t # <<>>
      /\ lines' = Split(t) /\ lines' \in Seq(Line) /\ Len(lines') <= Len(out)
      /\ lastCharIsNL' = (Last(t) = NL)
  BY JoinMakes
<1> HIDE DEF t
<1>3. Len(out) \in Nat /\ Len(lines') \in Nat
  BY <1>2, LenProperties DEF Text
<1>4. protocol' \in Seq(Entry) /\ Len(protocol') \in Nat /\ Len(protocol') <= Len(protocol)
  <2>1. protocol # <<>> => Front(protocol) \in Seq(Entry) /\ Len(Front(protocol)) = Len(protocol) - 1
    BY <1>1, RemoveLast
  <2>2. protocol' = protocol \/ (protocol # <<>> /\ protocol' = Front(protocol))
    BY JoinTakes
  <2>3. protocol' \in Seq(Entry) /\ Len(protocol') <= Len(protocol)
    BY <1>1, <2>1, <2>2
  <2>4. QED
    BY <2>3, LenProperties
<1>5. step' = "add" /\ i' = 0 /\ UNCHANGED <<lastLine, out, protocolSize, written, disturbed, total>>
  BY DEF Join, history
<1>6. crashed' \in BOOLEAN
  BY DEF Join
<1>7. LogTypeOK'
  <2>1. Len(protocol') <= MaxLines + 1 /\ i' \in 0 .. MaxText /\ lastCharIsNL' \in BOOLEAN
    BY <1>1, <1>2, <1>4, <1>5, Assumed
  <2>2. QED
    BY <1>2, <1>4, <1>5, <1>6, <2>1 DEF LogTypeOK, Entry, Line
<1>8. Sizes'
  <2>1. Len(protocol') <= MaxLines /\ Len(protocol') <= protocolSize' + i' /\ i' + Len(lines') <= Len(out')
    BY <1>1, <1>2, <1>3, <1>4, <1>5, Assumed
  <2>2. QED
    BY <1>1, <1>5, <2>1 DEF Sizes, Busy
<1>9. Content'
  <2> SUFFICES ASSUME ~disturbed PROVE Adding'
    BY <1>5 DEF Content, Busy
  <2>1. PICK w \in Text : written = w \o out /\ Agrees(w) /\ protocolSize = Len(protocol)
    BY <1>1 DEF Content, Join
  <2>2. PICK p \in Seq(Entry) :
          /\ NonBlank(Pieces(w)) = p \o NonBlank(protocol)
          /\ p # <<>> => Len(protocol) >= MaxLines - 1
    BY <2>1 DEF Agrees
  <2>3. goes <=> GoesOn
    <3>1. protocol # <<>> <=> Len(protocol) > 0
      BY <1>1, EmptySeq
    <3>2. QED
      BY <1>1, <2>1, <3>1 DEF GoesOn
  <2>4. Last(Pieces(w)) = Open /\ (goes => Open # <<>> /\ Last(protocol) = Open)
    BY <2>1, <2>3 DEF Agrees, Open, GoesOn
  <2>5. Last(Pieces(written)) = Last(Pieces(t))
    BY <1>2, <2>1, <2>4, LastOfConcat DEF t
  <2> DEFINE g == IF goes THEN 1 ELSE 0
  <2>6. NonBlank(Pieces(written)) = p \o (NonBlank(protocol') \o NonBlank(lines'))
        /\ Len(protocol') = protocolSize - g /\ ~crashed'
    <3>1. CASE goes
      <4>1. protocol # <<>> /\ protocol' = Front(protocol) /\ ~crashed'
        BY <2>1, <3>1, JoinTakes
      <4>2. Len(protocol') = protocolSize - g
        BY <1>1, <2>1, <3>1, <4>1, RemoveLast
      <4>3. NonBlank(Pieces(w \o out)) = p \o (NonBlank(Front(protocol)) \o NonBlank(Split(Last(protocol) \o out)))
        BY <1>1, <1>2, <2>2, <2>4, <3>1, <4>1, GoOnWithLast
      <4>4. Split(Last(protocol) \o out) = lines'
        <5>1. t = Last(protocol) \o out
          BY <2>4, <3>1 DEF t
        <5>2. lines' = Split(t)
          BY <1>2
        <5>3. QED
          BY <5>1, <5>2
      <4>5. NonBlank(Pieces(written)) = p \o (NonBlank(protocol') \o NonBlank(lines'))
        BY <2>1, <4>1, <4>3, <4>4
      <4>6. QED
        BY <4>1, <4>2, <4>5
    <3>2. CASE ~goes
      <4>1. protocol' = protocol /\ ~crashed'
        BY <3>2, JoinTakes
      <4>2. Open = <<>>
        BY <3>2 DEF Open
      <4>3. NonBlank(Pieces(w \o out)) = p \o (NonBlank(protocol) \o NonBlank(Split(<<>> \o out)))
        <5>1. Last(Pieces(w)) = <<>>
          BY <2>4, <4>2
        <5>2. QED
          BY <1>1, <1>2, <2>2, <5>1, GoOnAfterEnd
      <4>4. Split(<<>> \o out) = lines'
        BY <1>2, <4>2 DEF t
      <4>5. NonBlank(Pieces(written)) = p \o (NonBlank(protocol') \o NonBlank(lines'))
        BY <2>1, <4>1, <4>3, <4>4
      <4>6. Len(protocol') = protocolSize - g
        <5>1. g = 0 /\ protocolSize \in Nat
          BY <1>1, <3>2
        <5>2. QED
          BY <2>1, <4>1, <5>1
      <4>7. QED
        BY <4>1, <4>5, <4>6
    <3>3. QED
      BY <3>1, <3>2
  <2>7. Last(Pieces(t)) = <<>> <=> lastCharIsNL'
    BY <1>2, LastPiece
  <2>8. Last(Pieces(t)) # <<>> => lines' = Pieces(t) /\ lines' # <<>>
    BY <1>2, SplitIsPieces, PiecesAreLines
  <2>9. goes => lines' # <<>>
    BY <1>2, <2>4, SplitIsNotEmpty DEF t
  <2>10. \E h \in {0, 1}, q \in Seq(Entry) :
           /\ NonBlank(Pieces(written')) = q \o (NonBlank(protocol') \o NonBlank(lines'))
           /\ q # <<>> => protocolSize' >= MaxLines - 1 \/ protocolSize' + i' > MaxLines
           /\ Len(protocol') = (IF protocolSize' + i' <= MaxLines THEN protocolSize' + i' - h
                                                                  ELSE MaxLines - h)
                                + (IF step' = "trim" THEN 1 ELSE 0)
           /\ h = 1 => i' >= 1 \/ lines' # <<>>
    <3>1. g \in {0, 1} /\ (g = 1 => lines' # <<>>)
      BY <2>9
    <3> HIDE DEF g
    <3>2. p # <<>> => protocolSize' >= MaxLines - 1
      BY <1>5, <2>1, <2>2
    <3>3. Len(protocol') = (IF protocolSize' + i' <= MaxLines THEN protocolSize' + i' - g
                                                                  ELSE MaxLines - g)
                                + (IF step' = "trim" THEN 1 ELSE 0)
      BY <1>1, <1>5, <2>6, <3>1, Assumed
    <3>4. QED
      BY <1>5, <2>6, <3>1, <3>2, <3>3
  <2>11. Last(Pieces(written')) =
           IF lastCharIsNL' THEN <<>> ELSE IF lines' = <<>> THEN lastLine' ELSE Last(lines')
    BY <1>5, <2>5, <2>7, <2>8
  <2>12. /\ ~lastCharIsNL' => Last(Pieces(written')) # <<>>
         /\ ~lastCharIsNL' /\ lines' = <<>> => protocol' # <<>> /\ Last(protocol') = lastLine'
    BY <1>5, <2>5, <2>7, <2>8
  <2>13. QED
    BY <2>10, <2>11, <2>12 DEF Adding
<1>10. QED
  BY <1>7, <1>8, <1>9

\* The types of what an append works on.
LEMMA Typed ==
  ASSUME LogInv
  PROVE  /\ protocol \in Seq(Entry) /\ Len(protocol) \in Nat /\ lines \in Seq(Line) /\ Len(lines) \in Nat
         /\ protocolSize \in 0 .. MaxLines /\ i \in 0 .. MaxText /\ lastLine \in Line
         /\ lastCharIsNL \in BOOLEAN /\ out \in Text /\ Len(out) \in Nat /\ total \in 0 .. MaxText
         /\ written \in Text /\ disturbed \in BOOLEAN /\ crashed \in BOOLEAN
         /\ step \in {"free", "join", "add", "trim", "show"} /\ Len(protocol) <= MaxLines + 1
BY LenProperties DEF LogInv, LogTypeOK, Entry, Line, Text

LEMMA AddKeeps ==
  ASSUME LogInv, Add
  PROVE  LogInv'
<1> DEFINE h == Head(lines)
<1>1. /\ protocol' = Append(protocol, h) /\ lines' = Tail(lines) /\ lastLine' = h /\ i' = i + 1
      /\ step' = (IF protocolSize + i >= MaxLines THEN "trim" ELSE "add")
      /\ lines # <<>> /\ step = "add" /\ crashed = FALSE
      /\ UNCHANGED <<lastCharIsNL, out, protocolSize, written, disturbed, total, crashed>>
  BY Typed DEF Add, history
<1>2. /\ Len(protocol) <= MaxLines /\ Len(protocol) <= protocolSize + i /\ i + Len(lines) <= Len(out)
      /\ Len(out) <= total
  BY <1>1 DEF LogInv, Sizes, Busy
<1>3. /\ h \in Line /\ Tail(lines) \in Seq(Line) /\ Len(Tail(lines)) = Len(lines) - 1
      /\ Len(lines) \in Nat \ {0}
      /\ Tail(lines) # <<>> => Last(Tail(lines)) = Last(lines)
      /\ Tail(lines) = <<>> => Last(lines) = h
  BY <1>1, Typed, HeadAndTail
<1>4. h \in Entry
  BY <1>3 DEF Entry
<1> HIDE DEF h
<1>5. /\ protocol' \in Seq(Entry) /\ Len(protocol') = Len(protocol) + 1 /\ protocol' # <<>>
      /\ Last(protocol') = h
  BY <1>1, <1>4, Typed, AppendProperties DEF Last
<1>6. LogTypeOK'
  <2>1. Len(protocol') <= MaxLines + 1 /\ i' \in 0 .. MaxText
    BY <1>1, <1>2, <1>3, <1>5, Assumed, Typed
  <2>2. protocol' \in Seq(Seq(Char) \cup {Null}) /\ lastLine' \in Seq(Char) /\ lines' \in Seq(Seq(Char))
    BY <1>1, <1>3, <1>5 DEF Entry, Line
  <2>3. step' \in {"free", "join", "add", "trim", "show"}
    BY <1>1
  <2>4. QED
    BY <1>1, <2>1, <2>2, <2>3 DEF LogInv, LogTypeOK
<1>7. Sizes'
  <2>1. /\ Len(protocol') <= (IF step' = "trim" THEN MaxLines + 1 ELSE MaxLines)
        /\ step' = "trim" => protocolSize' + i' > MaxLines
    BY <1>1, <1>2, <1>5, Assumed, Typed
  <2>2. Len(protocol') <= protocolSize' + i' /\ i' + Len(lines') <= Len(out') /\ Len(out') <= total'
    BY <1>1, <1>2, <1>3, <1>5, Typed
  <2>3. QED
    BY <1>1, <2>1, <2>2 DEF Sizes, Busy
<1>8. Content'
  <2> SUFFICES ASSUME ~disturbed PROVE Adding'
    BY <1>1 DEF Content, Busy
  <2>1. Adding
    BY <1>1 DEF LogInv, Content, Busy
  <2>2. PICK g \in {0, 1}, p \in Seq(Entry) :
          /\ NonBlank(Pieces(written)) = p \o (NonBlank(protocol) \o NonBlank(lines))
          /\ p # <<>> => protocolSize >= MaxLines - 1 \/ protocolSize + i > MaxLines
          /\ Len(protocol) = (IF protocolSize + i <= MaxLines THEN protocolSize + i - g ELSE MaxLines - g)
                               + (IF step = "trim" THEN 1 ELSE 0)
    BY <2>1 DEF Adding
  <2>3. NonBlank(protocol) \o NonBlank(lines) = NonBlank(protocol') \o NonBlank(lines')
    BY <1>1, Typed, MoveOne DEF h
  <2>4. NonBlank(Pieces(written')) = p \o (NonBlank(protocol') \o NonBlank(lines'))
    BY <1>1, <2>2, <2>3
  <2>5. p # <<>> => protocolSize' >= MaxLines - 1 \/ protocolSize' + i' > MaxLines
    <3>1. protocolSize \in Nat /\ i \in Nat /\ MaxLines \in Nat
      BY Assumed, Typed
    <3>2. protocolSize' = protocolSize /\ i' = i + 1
      BY <1>1
    <3>3. p # <<>> => protocolSize >= MaxLines - 1 \/ protocolSize + i > MaxLines
      BY <2>2
    <3>4. QED
      BY <3>1, <3>2, <3>3
  <2>6. Len(protocol') = (IF protocolSize' + i' <= MaxLines THEN protocolSize' + i' - g ELSE MaxLines - g)
                           + (IF step' = "trim" THEN 1 ELSE 0)
    <3>1. /\ Len(protocol) = (IF protocolSize + i <= MaxLines THEN protocolSize + i - g ELSE MaxLines - g)
          /\ protocolSize \in Nat /\ i \in Nat /\ MaxLines \in Nat /\ Len(protocol) \in Nat
      BY <1>1, <2>2, Assumed, Typed
    <3>2. CASE protocolSize + i >= MaxLines
      <4>1. step' = "trim" /\ ~(protocolSize + (i + 1) <= MaxLines)
        BY <1>1, <3>1, <3>2
      <4>2. Len(protocol) = MaxLines - g
        BY <3>1, <3>2
      <4>3. QED
        BY <1>1, <1>5, <4>1, <4>2
    <3>3. CASE ~(protocolSize + i >= MaxLines)
      <4>1. step' = "add" /\ protocolSize + (i + 1) <= MaxLines
        BY <1>1, <3>1, <3>3
      <4>2. Len(protocol) = protocolSize + i - g
        BY <3>1, <3>3
      <4>3. Len(protocol) + 1 = protocolSize + (i + 1) - g
        BY <3>1, <4>2
      <4>4. QED
        BY <1>1, <1>5, <4>1, <4>3
    <3>4. QED
      BY <3>2, <3>3
  <2>7. i' >= 1
    BY <1>1, Typed
  <2>8. Last(Pieces(written)) = IF lastCharIsNL THEN <<>> ELSE Last(lines)
    BY <1>1, <2>1 DEF Adding
  <2>9. Last(Pieces(written')) =
          IF lastCharIsNL' THEN <<>> ELSE IF lines' = <<>> THEN lastLine' ELSE Last(lines')
    BY <1>1, <1>3, <2>8
  <2>10. /\ ~lastCharIsNL' => Last(Pieces(written')) # <<>>
         /\ ~lastCharIsNL' /\ lines' = <<>> => protocol' # <<>> /\ Last(protocol') = lastLine'
    <3>1. ~lastCharIsNL => Last(Pieces(written)) # <<>>
      BY <2>1 DEF Adding
    <3>2. QED
      BY <1>1, <1>5, <3>1
  <2>11. QED
    BY <2>4, <2>5, <2>6, <2>7, <2>9, <2>10 DEF Adding
<1>9. QED
  BY <1>6, <1>7, <1>8 DEF LogInv

LEMMA TrimKeeps ==
  ASSUME LogInv, Trim
  PROVE  LogInv'
<1>1. /\ protocol' = (IF protocol = <<>> THEN protocol ELSE Tail(protocol))
      /\ crashed' = (protocol = <<>>)
      /\ step = "trim" /\ step' = "add" /\ crashed = FALSE
      /\ UNCHANGED <<lastCharIsNL, lastLine, out, lines, i, protocolSize, written, disturbed, total>>
  BY Typed DEF Trim, tail, locals, history
<1>2. /\ Len(protocol) <= MaxLines + 1 /\ Len(protocol) <= protocolSize + i /\ i + Len(lines) <= Len(out)
      /\ Len(out) <= total /\ protocolSize + i > MaxLines
  BY <1>1 DEF LogInv, Sizes, Busy
<1>3. protocol # <<>> => /\ Tail(protocol) \in Seq(Entry)
                         /\ Len(Tail(protocol)) = Len(protocol) - 1
                         /\ Tail(protocol) # <<>> => Last(Tail(protocol)) = Last(protocol)
                         /\ Tail(protocol) = <<>> => Len(protocol) = 1
  BY Typed, HeadAndTail
<1>4. protocol' \in Seq(Entry) /\ Len(protocol') \in Nat /\ Len(protocol') <= MaxLines
  <2>1. CASE protocol = <<>>
    <3>1. Len(<<>>) = 0
      OBVIOUS
    <3>2. QED
      BY <1>1, <2>1, <3>1, Typed, Assumed
  <2>2. CASE protocol # <<>>
    <3>1. Len(Tail(protocol)) \in Nat
      BY <1>3, <2>2, LenProperties
    <3>2. QED
      BY <1>1, <1>2, <1>3, <2>2, <3>1, Typed, Assumed
  <2>3. QED
    BY <2>1, <2>2
<1>5. LogTypeOK'
  <2>1. protocol' \in Seq(Seq(Char) \cup {Null}) /\ Len(protocol') <= MaxLines + 1
    BY <1>4, Assumed DEF Entry, Line
  <2>2. crashed' \in BOOLEAN /\ step' \in {"free", "join", "add", "trim", "show"}
    BY <1>1
  <2>3. QED
    BY <1>1, <2>1, <2>2 DEF LogInv, LogTypeOK
<1>6. Sizes'
  <2>1. Len(protocol') <= protocolSize + i
    BY <1>2, <1>4, Typed, Assumed
  <2>2. QED
    BY <1>1, <1>2, <1>4, <2>1 DEF Sizes, Busy
<1>7. Content'
  <2> SUFFICES ASSUME ~disturbed PROVE Adding'
    BY <1>1 DEF Content, Busy
  <2>1. Adding
    BY <1>1 DEF LogInv, Content, Busy
  <2>2. PICK g \in {0, 1}, p \in Seq(Entry) :
          /\ NonBlank(Pieces(written)) = p \o (NonBlank(protocol) \o NonBlank(lines))
          /\ Len(protocol) = (IF protocolSize + i <= MaxLines THEN protocolSize + i - g ELSE MaxLines - g)
                               + (IF step = "trim" THEN 1 ELSE 0)
          /\ g = 1 => i >= 1 \/ lines # <<>>
    BY <2>1 DEF Adding
  <2>3. Len(protocol) = MaxLines - g + 1 /\ Len(protocol) >= 2
    BY <1>1, <1>2, <2>2, Typed, Assumed
  <2>4. protocol # <<>>
    <3>1. Len(<<>>) = 0
      OBVIOUS
    <3>2. QED
      BY <2>3, <3>1
  <2>5. protocol' = Tail(protocol) /\ Len(protocol') = MaxLines - g /\ protocol' # <<>>
        /\ Last(protocol') = Last(protocol)
    BY <1>1, <1>3, <2>3, <2>4, Assumed
  <2>6. PICK q \in Seq(Entry) :
          p \o (NonBlank(protocol) \o NonBlank(lines)) = q \o (NonBlank(protocol') \o NonBlank(lines'))
    <3>1. NonBlank(lines) \in Seq(Entry)
      BY Typed, NonBlankIsSeq, LinesAreEntries
    <3>2. \E q \in Seq(Entry) :
            p \o (NonBlank(protocol) \o NonBlank(lines)) = q \o (NonBlank(Tail(protocol)) \o NonBlank(lines))
      BY <2>4, <3>1, Typed, DropOne
    <3>3. NonBlank(lines') = NonBlank(lines) /\ NonBlank(protocol') = NonBlank(Tail(protocol))
      BY <1>1, <2>5
    <3>4. QED
      BY <3>2, <3>3
  <2>7. NonBlank(Pieces(written')) = q \o (NonBlank(protocol') \o NonBlank(lines'))
    BY <1>1, <2>2, <2>6
  <2>8. protocolSize' + i' > MaxLines
    BY <1>1, <1>2
  <2>9. Len(protocol') = (IF protocolSize' + i' <= MaxLines THEN protocolSize' + i' - g ELSE MaxLines - g)
                           + (IF step' = "trim" THEN 1 ELSE 0)
    BY <1>1, <2>5, <2>8, Typed, Assumed
  <2>10. g = 1 => i' >= 1 \/ lines' # <<>>
    BY <1>1, <2>2
  <2>11. Last(Pieces(written')) =
          IF lastCharIsNL' THEN <<>> ELSE IF lines' = <<>> THEN lastLine' ELSE Last(lines')
    BY <1>1, <2>1 DEF Adding
  <2>12. /\ ~lastCharIsNL' => Last(Pieces(written')) # <<>>
         /\ ~lastCharIsNL' /\ lines' = <<>> => protocol' # <<>> /\ Last(protocol') = lastLine'
    BY <1>1, <2>1, <2>5 DEF Adding
  <2>13. QED
    BY <2>7, <2>8, <2>9, <2>10, <2>11, <2>12 DEF Adding
<1>8. QED
  BY <1>5, <1>6, <1>7 DEF LogInv

LEMMA ShowKeeps ==
  ASSUME LogInv, Show
  PROVE  LogInv'
<1>1. /\ step = "add" /\ step' = "show" /\ lines = <<>>
      /\ UNCHANGED <<protocol, lastCharIsNL, lastLine, out, lines, i, protocolSize, written, disturbed, total, crashed>>
  BY DEF Show, tail, locals, history
<1>2. LogTypeOK'
  BY <1>1 DEF LogInv, LogTypeOK
<1>3. Sizes'
  BY <1>1 DEF LogInv, Sizes, Busy
<1>4. Content'
  <2> SUFFICES ASSUME ~disturbed, ~crashed PROVE Adding'
    BY <1>1 DEF Content, Busy
  <2>1. Adding
    BY <1>1 DEF LogInv, Content, Busy
  <2>2. QED
    BY <1>1, <2>1 DEF Adding
<1>5. QED
  BY <1>2, <1>3, <1>4 DEF LogInv

LEMMA ShownKeeps ==
  ASSUME LogInv, Shown
  PROVE  LogInv'
<1>1. /\ step = "show" /\ step' = "free" /\ out' = <<>> /\ i' = 0 /\ protocolSize' = 0 /\ crashed = FALSE
      /\ UNCHANGED <<protocol, lastCharIsNL, lastLine, lines, written, disturbed, total, crashed>>
  BY Typed DEF Shown, tail, history
<1>2. lines = <<>> /\ Len(protocol) <= MaxLines
  BY <1>1 DEF LogInv, Sizes
<1>3. Len(<<>>) = 0
  OBVIOUS
<1>4. LogTypeOK'
  <2>1. out' \in Seq(Char \cup {NL})
    BY <1>1, EmptySeq
  <2>2. i' \in 0 .. MaxText /\ protocolSize' \in 0 .. MaxLines
    BY <1>1, Assumed
  <2>3. step' \in {"free", "join", "add", "trim", "show"}
    BY <1>1
  <2>4. QED
    BY <1>1, <2>1, <2>2, <2>3 DEF LogInv, LogTypeOK
<1>5. Sizes'
  <2>1. Len(out') <= total'
    BY <1>1, <1>3, Typed
  <2>2. QED
    BY <1>1, <1>2, <2>1 DEF Sizes, Busy
<1>6. Content'
  <2> SUFFICES ASSUME ~disturbed PROVE Agrees(written)'
    BY <1>1 DEF Content, Busy
  <2>1. Adding
    BY <1>1 DEF LogInv, Content, Busy
  <2>2. PICK g \in {0, 1}, p \in Seq(Entry) :
          /\ NonBlank(Pieces(written)) = p \o (NonBlank(protocol) \o NonBlank(lines))
          /\ p # <<>> => protocolSize >= MaxLines - 1 \/ protocolSize + i > MaxLines
          /\ Len(protocol) = (IF protocolSize + i <= MaxLines THEN protocolSize + i - g ELSE MaxLines - g)
                               + (IF step = "trim" THEN 1 ELSE 0)
          /\ g = 1 => i >= 1 \/ lines # <<>>
    BY <2>1 DEF Adding
  <2>3. NonBlank(Pieces(written)) = p \o NonBlank(protocol)
    <3>1. NonBlank(protocol) \in Seq(Entry) /\ NonBlank(lines) = <<>>
      BY <1>2, Typed, NonBlankIsSeq, NonBlankEmpty
    <3>2. NonBlank(protocol) \o <<>> = NonBlank(protocol)
      BY <3>1, ConcatEmptySeq
    <3>3. QED
      BY <2>2, <3>1, <3>2
  <2>4. p # <<>> => Len(protocol) >= MaxLines - 1
    BY <1>1, <1>2, <2>2, Typed, Assumed
  <2>5. Last(Pieces(written)) = IF lastCharIsNL THEN <<>> ELSE lastLine
    BY <1>2, <2>1 DEF Adding
  <2>6. ~lastCharIsNL => lastLine # <<>> /\ protocol # <<>> /\ Last(protocol) = lastLine
    BY <1>2, <2>1, <2>5 DEF Adding
  <2>7. \E q \in Seq(Entry) :
          /\ NonBlank(Pieces(written')) = q \o NonBlank(protocol')
          /\ q # <<>> => Len(protocol') >= MaxLines - 1
    BY <1>1, <2>3, <2>4
  <2>8. QED
    BY <1>1, <2>5, <2>6, <2>7 DEF Agrees, GoesOn
<1>7. QED
  BY <1>4, <1>5, <1>6 DEF LogInv

LEMMA ClearKeeps ==
  ASSUME LogInv, Clear
  PROVE  LogInv'
<1>1. /\ written' = <<>> /\ disturbed' = (step # "free") /\ crashed = FALSE
      /\ crashed' \in (IF step = "show" THEN BOOLEAN ELSE {FALSE})
      /\ UNCHANGED <<lastCharIsNL, lastLine, step, out, lines, i, protocolSize, total>>
      /\ protocol' = <<>> \/ (step # "free" /\ protocol' = [n \in DOMAIN protocol |-> Null])
  BY Typed DEF Clear, tail, locals
<1>2. protocol' \in Seq(Entry) /\ Len(protocol') <= Len(protocol)
  <2>1. CASE protocol' = <<>>
    <3>1. Len(<<>>) = 0
      OBVIOUS
    <3>2. QED
      BY <2>1, <3>1, Typed, EmptySeq
  <2>2. CASE protocol' = [n \in DOMAIN protocol |-> Null]
    <3>1. DOMAIN protocol = 1 .. Len(protocol) /\ Len(protocol) \in Nat /\ Null \in Entry
      BY Typed, LenProperties DEF Entry
    <3>2. protocol' = [n \in 1 .. Len(protocol) |-> Null]
      BY <2>2, <3>1
    <3> DEFINE m == Len(protocol)
    <3> HIDE DEF m
    <3>3. [n \in 1 .. m |-> Null] \in Seq(Entry) /\ Len([n \in 1 .. m |-> Null]) = m
      BY <3>1 DEF m
    <3>4. QED
      BY <3>1, <3>2, <3>3 DEF m
  <2>3. QED
    BY <1>1, <2>1, <2>2
<1>3. Len(protocol') \in Nat
  BY <1>2, LenProperties
<1>4. LogTypeOK'
  <2>1. protocol' \in Seq(Seq(Char) \cup {Null}) /\ Len(protocol') <= MaxLines + 1
    BY <1>2, <1>3, Typed, Assumed DEF Entry, Line
  <2>2. written' \in Seq(Char \cup {NL}) /\ disturbed' \in BOOLEAN /\ crashed' \in BOOLEAN
    BY <1>1, EmptySeq
  <2>3. QED
    BY <1>1, <2>1, <2>2 DEF LogInv, LogTypeOK
<1>5. Sizes'
  <2>1. \A n \in Nat : Len(protocol) <= n => Len(protocol') <= n
    BY <1>2, <1>3, Typed
  <2>2. MaxLines \in Nat /\ MaxLines + 1 \in Nat /\ protocolSize \in Nat /\ protocolSize + i \in Nat
    BY Typed, Assumed
  <2>3. /\ Len(protocol) <= (IF step = "trim" THEN MaxLines + 1 ELSE MaxLines)
        /\ step = "join" => Len(protocol) <= protocolSize
        /\ Busy => Len(protocol) <= protocolSize + i
    BY DEF LogInv, Sizes
  <2>4. /\ Len(protocol') <= (IF step' = "trim" THEN MaxLines + 1 ELSE MaxLines)
        /\ step' = "join" => Len(protocol') <= protocolSize'
        /\ Busy' => Len(protocol') <= protocolSize' + i'
    BY <1>1, <2>1, <2>2, <2>3 DEF Busy
  <2>5. crashed' => step' # "free"
    BY <1>1
  <2>6. QED
    BY <1>1, <2>4, <2>5 DEF LogInv, Sizes, Busy
<1>6. Content'
  <2>1. CASE step # "free"
    BY <1>1, <2>1 DEF Content
  <2>2. CASE step = "free"
    <3>1. protocol' = <<>>
      BY <1>1, <2>2
    <3>2. NonBlank(Pieces(<<>>)) = <<>>
      BY PiecesOfEmpty, NonBlankOfOne
    <3>3. <<>> \in Seq(Entry) /\ <<>> \o <<>> = <<>>
      BY EmptySeq, ConcatEmptySeq
    <3>4. Last(Pieces(<<>>)) = <<>>
      BY PiecesOfEmpty DEF Last
    <3>5. ~GoesOn'
      BY <3>1 DEF GoesOn
    <3>6. \E p \in Seq(Entry) :
            /\ NonBlank(Pieces(written')) = p \o NonBlank(protocol')
            /\ p # <<>> => Len(protocol') >= MaxLines - 1
      BY <1>1, <3>1, <3>2, <3>3, NonBlankEmpty
    <3>7. Agrees(written)'
      BY <1>1, <3>4, <3>5, <3>6 DEF Agrees
    <3>8. QED
      BY <1>1, <2>2, <3>7 DEF Content, Busy
  <2>3. QED
    BY <2>1, <2>2
<1>7. QED
  BY <1>4, <1>5, <1>6 DEF LogInv

LEMMA OthersKeep ==
  ASSUME LogInv, Resume \/ UNCHANGED logVars
  PROVE  LogInv'
<1>1. /\ UNCHANGED <<protocol, lastCharIsNL, lastLine, step, out, lines, i, protocolSize, written, disturbed, total>>
      /\ crashed' \in BOOLEAN /\ (crashed => crashed') /\ (crashed' => crashed \/ step # "free")
  <2>1. CASE Resume
    BY <2>1 DEF Resume, tail, locals, history
  <2>2. CASE UNCHANGED logVars
    BY <2>2, Typed DEF logVars, tail, locals, history
  <2>3. QED
    BY <2>1, <2>2
<1>2. LogTypeOK'
  BY <1>1 DEF LogInv, LogTypeOK
<1>3. Sizes'
  BY <1>1 DEF LogInv, Sizes, Busy
<1>4. Content'
  BY <1>1 DEF LogInv, Content, Busy, Agrees, Adding, GoesOn
<1>5. QED
  BY <1>2, <1>3, <1>4 DEF LogInv

LEMMA LogInvariant == LogSpec => []LogInv
<1>1. LogInv /\ [LogNext]_logVars => LogInv'
  BY AppendMessageKeeps, JoinKeeps, AddKeeps, TrimKeeps, ShowKeeps, ShownKeeps, ClearKeeps, OthersKeep
  DEF LogNext
<1>2. QED
  BY InitHolds, <1>1, PTL DEF LogSpec

\* appendMessage(), clear() and show(): each variable of the log keeps its type.
THEOREM LogTypes == LogSpec => []LogTypeOK
<1>1. LogInv => LogTypeOK
  BY DEF LogInv
<1>2. QED
  BY LogInvariant, <1>1, PTL

\* appendMessage(): wherever the pieces begin and end, and however many lines
\* there is room for, the log holds the newest lines of the text.
THEOREM TheNewestAreKept == LogSpec => []KeepsNewest
<1>1. LogInv => KeepsNewest
  <2> SUFFICES ASSUME LogInv, step = "free", ~disturbed
               PROVE  /\ IsSuffix(NonBlank(protocol), NonBlank(Pieces(written)))
                      /\ Len(protocol) <= MaxLines
                      /\ NonBlank(protocol) # NonBlank(Pieces(written)) => Len(protocol) >= MaxLines - 1
    BY DEF KeepsNewest
  <2>1. Len(protocol) <= MaxLines /\ ~crashed
    BY DEF LogInv, Sizes
  <2>2. PICK p \in Seq(Entry) :
          /\ NonBlank(Pieces(written)) = p \o NonBlank(protocol)
          /\ p # <<>> => Len(protocol) >= MaxLines - 1
    BY <2>1 DEF LogInv, Content, Agrees
  <2>3. NonBlank(protocol) \in Seq(Entry)
    BY Typed, NonBlankIsSeq
  <2>4. IsSuffix(NonBlank(protocol), NonBlank(Pieces(written)))
    BY <2>2, <2>3, SuffixOfConcat
  <2>5. p = <<>> => NonBlank(Pieces(written)) = NonBlank(protocol)
    BY <2>2, <2>3, ConcatEmptySeq
  <2>6. QED
    BY <2>1, <2>2, <2>4, <2>5
<1>2. QED
  BY LogInvariant, <1>1, PTL

-----------------------------------------------------------------------------
(* Rate::sleep().                                                          *)

\* What the clocks can have come to.
Bounds ==
  /\ now <= MaxTime + Len(returns) * Second
  /\ Len(returns) <= MaxSleeps
  /\ start_ <= 2 * MaxTime + now
  /\ clock <= 2 * MaxTime + now

\* The publisher's schedule, while nobody sets the clock.
Schedule ==
  jumps = 0 => /\ clock = MaxTime + now
               /\ start_ = MaxTime + cycle * Len(returns)
               /\ start_ <= clock

Types ==
  /\ cycle \in 0 .. Second
  /\ start_ \in Nat /\ clock \in Nat /\ now \in Nat
  /\ jumps \in 0 .. MaxJumps
  /\ slept \in Nat
  /\ returns \in Seq(Nat)

RateInv == Types /\ Bounds /\ Schedule /\ SleepAtMostOneCycle

-----------------------------------------------------------------------------
(* Arithmetic the provers have to be told.                                 *)

LEMMA TimesGrows ==
  ASSUME NEW a \in Nat, NEW b \in Nat, NEW c \in Nat, a <= b
  PROVE  a * c <= b * c /\ a * c \in Nat /\ b * c \in Nat
OBVIOUS

LEMMA TimesOneMore ==
  ASSUME NEW a \in Nat, NEW c \in Nat
  PROVE  (a + 1) * c = a * c + c /\ c * (a + 1) = c * a + c /\ c * a \in Nat
OBVIOUS

LEMMA QuotientType ==
  ASSUME NEW a \in Nat, NEW b \in Nat \ {0}
  PROVE  a \div b \in 0 .. a
OBVIOUS

\* A word holds what is in its range, and wraps once below it.
LEMMA WordOf ==
  ASSUME NEW x \in Int
  PROVE  /\ 0 <= x /\ x < 2 * HalfWord => Word(x) = x
         /\ -(2 * HalfWord) <= x /\ x < 0 => Word(x) = x + 2 * HalfWord
BY RateAssumption DEF Word

\* No cycle is longer than a second, whatever rate was asked for.
LEMMA CycleTimeType ==
  ASSUME NEW fps \in Nat
  PROVE  CycleTime(fps) \in 0 .. Second
BY QuotientType, RateAssumption DEF CycleTime

\* Room is left in a word for what the clocks come to.
LEMMA InRange ==
  ASSUME Types, Bounds, Len(returns) < MaxSleeps
  PROVE  /\ now + 2 * Second + 2 * MaxTime < HalfWord
         /\ MaxSleeps \in Nat /\ MaxTime \in Nat /\ Second \in Nat /\ Len(returns) \in Nat
<1>1. /\ MaxSleeps \in Nat /\ MaxTime \in Nat /\ Second \in Nat /\ Len(returns) \in Nat
      /\ HalfWord \in Nat
  BY RateAssumption DEF Types
<1> DEFINE n == Len(returns)
<1> HIDE DEF n
<1>2. n \in Nat /\ n < MaxSleeps /\ now <= MaxTime + n * Second /\ now \in Nat
  BY <1>1 DEF Bounds, Types, n
<1>3. n * Second <= MaxSleeps * Second /\ n * Second \in Nat
  BY <1>1, <1>2, TimesGrows
<1>4. (MaxSleeps + 2) * Second = MaxSleeps * Second + 2 * Second
  BY <1>1
<1>5. 3 * MaxTime + (MaxSleeps + 2) * Second < HalfWord
  BY RateAssumption
<1>6. QED
  BY <1>1, <1>2, <1>3, <1>4, <1>5

\* What a call of sleep() does: it ends the cycle, and sleeps until then unless
\* the cycle has ended.
LEMMA SleepDoes ==
  ASSUME RateInv, SleepNative
  PROVE  /\ start_' = End
         /\ slept' = IF End > clock THEN End - clock ELSE 0
         /\ now' = now + slept' /\ clock' = clock + slept'
         /\ returns' = Append(returns, now') /\ Len(returns) < MaxSleeps
         /\ UNCHANGED <<cycle, jumps>>
<1> DEFINE e == Word(End)
           w == Word(e - clock)
           d == Milliseconds(w)
<1>1. /\ start_' = IF w = 0 /\ clock > Word(e + cycle) THEN clock ELSE e
      /\ Sleeps(IF d > 0 THEN d ELSE 0)
  BY DEF SleepNative
<1>2. /\ Len(returns) < MaxSleeps
      /\ slept' = (IF d > 0 THEN d ELSE 0)
      /\ now' = now + slept' /\ clock' = clock + slept'
      /\ returns' = Append(returns, now') /\ UNCHANGED <<cycle, jumps>>
  BY <1>1 DEF Sleeps
<1>3. /\ cycle \in Nat /\ start_ \in Nat /\ clock \in Nat /\ now \in Nat /\ cycle <= Second
      /\ now + 2 * Second + 2 * MaxTime < HalfWord
      /\ start_ <= 2 * MaxTime + now /\ clock <= 2 * MaxTime + now
      /\ HalfWord \in Nat /\ Second \in Nat /\ MaxTime \in Nat
  BY <1>2, InRange, RateAssumption DEF RateInv, Types, Bounds
<1>4. End \in Nat /\ End <= 2 * MaxTime + now + Second
  BY <1>3 DEF End
<1>5. e = End
  BY <1>3, <1>4, WordOf
<1>6. Word(e + cycle) = End + cycle
  BY <1>3, <1>4, <1>5, WordOf
<1>7. w = IF End >= clock THEN End - clock ELSE End - clock + 2 * HalfWord
  BY <1>3, <1>4, <1>5, WordOf
<1> HIDE DEF e, w
<1>8. d = End - clock
  BY <1>3, <1>4, <1>7 DEF Milliseconds
<1>9. start_' = End
  BY <1>1, <1>3, <1>4, <1>5, <1>6, <1>7
<1> HIDE DEF d
<1>10. QED
  BY <1>2, <1>3, <1>4, <1>8, <1>9

LEMMA NextSleep == RateInv /\ SleepNative => RateInv'
<1> SUFFICES ASSUME RateInv, SleepNative PROVE RateInv'
  OBVIOUS
<1> DEFINE n == Len(returns)
<1>1. /\ cycle \in 0 .. Second /\ start_ \in Nat /\ clock \in Nat /\ now \in Nat
      /\ n \in Nat /\ n < MaxSleeps /\ returns \in Seq(Nat) /\ jumps \in 0 .. MaxJumps
      /\ now <= MaxTime + n * Second
      /\ start_ <= 2 * MaxTime + now /\ clock <= 2 * MaxTime + now
      /\ Second \in Nat /\ MaxTime \in Nat /\ MaxSleeps \in Nat
  BY SleepDoes, RateAssumption DEF RateInv, Types, Bounds
<1>2. /\ start_' = End
      /\ slept' = IF End > clock THEN End - clock ELSE 0
      /\ now' = now + slept' /\ clock' = clock + slept'
      /\ returns' = Append(returns, now') /\ UNCHANGED <<cycle, jumps>>
  BY SleepDoes
<1>3. End = IF clock < start_ THEN clock + cycle ELSE start_ + cycle
  BY DEF End
<1>4. slept' \in 0 .. cycle /\ End \in Nat /\ now' \in Nat /\ clock' \in Nat
  BY <1>1, <1>2, <1>3
<1>5. returns' \in Seq(Nat) /\ Len(returns') = n + 1
  BY <1>1, <1>2, <1>4
<1>6. Types'
  BY <1>1, <1>2, <1>4, <1>5 DEF Types
<1>7. jumps = 0 => /\ clock = MaxTime + now
                   /\ start_ = MaxTime + cycle * n
                   /\ start_ <= clock
  BY DEF RateInv, Schedule
<1> HIDE DEF n
<1>8. (n + 1) * Second = n * Second + Second /\ n * Second \in Nat
  BY <1>1, TimesOneMore
<1>9. cycle * (n + 1) = cycle * n + cycle /\ cycle * n \in Nat
  BY <1>1, TimesOneMore
<1>10. Bounds'
  <2>1. now' <= MaxTime + (n + 1) * Second /\ n + 1 <= MaxSleeps
    BY <1>1, <1>2, <1>4, <1>8
  <2>2. start_' <= 2 * MaxTime + now' /\ clock' <= 2 * MaxTime + now'
    BY <1>1, <1>2, <1>3, <1>4
  <2>3. QED
    BY <1>5, <2>1, <2>2 DEF Bounds
<1>11. Schedule'
  <2>1. jumps' = 0 => /\ clock' = MaxTime + now'
                      /\ start_' = MaxTime + cycle * (n + 1)
                      /\ start_' <= clock'
    BY <1>1, <1>2, <1>3, <1>4, <1>7, <1>9
  <2>2. QED
    BY <1>2, <1>5, <2>1 DEF Schedule
<1>12. SleepAtMostOneCycle'
  BY <1>1, <1>2, <1>4 DEF SleepAtMostOneCycle
<1>13. QED
  BY <1>6, <1>10, <1>11, <1>12 DEF RateInv

LEMMA NextEnvironment == RateInv /\ Environment => RateInv'
<1> SUFFICES ASSUME RateInv, Environment PROVE RateInv'
  OBVIOUS
<1> USE DEF RateInv, Types, Bounds, Schedule, SleepAtMostOneCycle
<1>1. MaxTime \in Nat /\ MaxJumps \in Nat
  BY RateAssumption
<1>2. ASSUME NEW d \in 1 .. MaxTime, Work(d) PROVE RateInv'
  <2>1. now' = now + d /\ clock' = clock + d /\ UNCHANGED <<cycle, start_, jumps, slept, returns>>
    BY <1>2 DEF Work
  <2> DEFINE n == Len(returns)
             m == cycle * n
             s == n * Second
  <2>2. /\ now \in Nat /\ start_ \in Nat /\ clock \in Nat
        /\ now <= MaxTime + s /\ now + d <= MaxTime
        /\ start_ <= 2 * MaxTime + now /\ clock <= 2 * MaxTime + now
        /\ jumps = 0 => clock = MaxTime + now /\ start_ = MaxTime + m /\ start_ <= clock
    BY <1>2 DEF Work
  <2>3. s \in Nat
    BY TimesGrows, RateAssumption
  <2> HIDE DEF s, m
  <2>4. /\ now' \in Nat /\ clock' \in Nat /\ now' <= MaxTime + s
        /\ start_ <= 2 * MaxTime + now' /\ clock' <= 2 * MaxTime + now'
        /\ jumps = 0 => clock' = MaxTime + now' /\ start_ = MaxTime + m /\ start_ <= clock'
    BY <1>1, <2>1, <2>2, <2>3
  <2>5. QED
    BY <2>1, <2>4 DEF s, m
<1>3. ASSUME NEW to \in 0 .. 2 * MaxTime, SetClock(to) PROVE RateInv'
  BY <1>1, <1>3 DEF SetClock
<1>4. QED
  BY <1>2, <1>3 DEF Environment

LEMMA RateInvariant == Spec => []RateInv
<1>1. Init => RateInv
  <2>1. SUFFICES ASSUME Init PROVE RateInv
    OBVIOUS
  <2>2. cycle \in 0 .. Second /\ MaxTime \in Nat /\ MaxSleeps \in Nat /\ MaxJumps \in Nat
        /\ Second \in Nat
    BY <2>1, CycleTimeType, RateAssumption DEF Init
  <2>3. returns \in Seq(Nat) /\ Len(returns) = 0
    BY <2>1 DEF Init
  <2>4. 0 * Second = 0 /\ cycle * 0 = 0
    BY <2>2
  <2>5. QED
    BY <2>1, <2>2, <2>3, <2>4 DEF Init, RateInv, Types, Bounds, Schedule, SleepAtMostOneCycle
<1>2. RateInv /\ [Next]_vars => RateInv'
  <2>1. RateInv /\ UNCHANGED vars => RateInv'
    BY DEF vars, RateInv, Types, Bounds, Schedule, SleepAtMostOneCycle
  <2>2. QED
    BY <2>1, NextSleep, NextEnvironment DEF Next
<1>3. QED
  BY <1>1, <1>2, PTL DEF Spec

\* Every variable keeps its type: the clocks never outgrow a word.
THEOREM RateTypes == Spec => []TypeOK
<1>1. RateInv => TypeOK
  <2>1. SUFFICES ASSUME RateInv PROVE TypeOK
    OBVIOUS
  <2>2. Types /\ Bounds
    BY <2>1 DEF RateInv
  <2> DEFINE n == Len(returns)
  <2>3. /\ n \in Nat /\ n <= MaxSleeps /\ now <= MaxTime + n * Second /\ now \in Nat
        /\ MaxSleeps \in Nat /\ MaxTime \in Nat /\ Second \in Nat /\ HalfWord \in Nat
        /\ 3 * MaxTime + (MaxSleeps + 2) * Second < HalfWord
    BY <2>2, RateAssumption DEF Types, Bounds
  <2> HIDE DEF n
  <2>4. n * Second <= MaxSleeps * Second /\ n * Second \in Nat
    BY <2>3, TimesGrows
  <2>5. (MaxSleeps + 2) * Second = MaxSleeps * Second + 2 * Second
    BY <2>3
  <2>6. 2 * MaxTime + now < 2 * HalfWord
    BY <2>3, <2>4, <2>5
  <2>7. QED
    BY <2>2, <2>3, <2>6 DEF TypeOK, Types, Bounds
<1>2. QED
  BY <1>1, RateInvariant, PTL

\* sleep() never sleeps longer than a cycle, however late it is called and
\* wherever the system clock was set meanwhile (rate.cpp).
THEOREM NeverSleepsLonger == Spec => []SleepAtMostOneCycle
<1>1. RateInv => SleepAtMostOneCycle
  BY DEF RateInv
<1>2. QED
  BY <1>1, RateInvariant, PTL

\* Without a setting of the clock no sleep() returns before its turn, however
\* many cycles are made up for after a stall (rate.cpp).
THEOREM NeverReturnsEarly == Spec => []NeverEarly
<1>1. RateInv => NeverEarly
  <2>1. SUFFICES ASSUME RateInv, jumps = 0 PROVE cycle * Len(returns) <= now
    BY DEF NeverEarly
  <2> DEFINE m == cycle * Len(returns)
  <2>2. /\ clock = MaxTime + now /\ start_ = MaxTime + m /\ start_ <= clock
        /\ MaxTime \in Nat /\ now \in Nat /\ m \in Nat
    BY <2>1, TimesOneMore, RateAssumption DEF RateInv, Schedule, Types
  <2> HIDE DEF m
  <2>3. m <= now
    BY <2>2
  <2>4. QED
    BY <2>3 DEF m
<1>2. QED
  BY <1>1, RateInvariant, PTL
=============================================================================
