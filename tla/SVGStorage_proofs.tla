------------------------- MODULE SVGStorage_proofs -------------------------
(***************************************************************************)
(* Proofs about PhilSVGStorage, for every set of contents and every limit: *)
(* what each call keeps of the storage.  The release of the art and the    *)
(* launch of a drop both rest on them.                                     *)
(***************************************************************************)
EXTENDS SVGStorage, SequenceTheorems, FiniteSetTheorems, WellFoundedInduction, TLAPS

-----------------------------------------------------------------------------
(* Sequences.                                                              *)

(* Induction over the natural numbers, as the least member of a set.       *)
LEMMA SmallestNumber ==
    ASSUME NEW T \in SUBSET Nat, T # {}
    PROVE  \E n \in T : \A m \in Nat : m < n => m \notin T
<1>1. IsWellFoundedOn(OpToRel(<, Nat), Nat)
  BY NatLessThanWellFounded DEF OpToRel
<1>2. PICK n \in T : \A m \in T : ~ (<<m, n>> \in OpToRel(<, Nat))
  BY <1>1, WFMin
<1> QED
  BY <1>2 DEF OpToRel

(* g concatenates the first sequences of s, one more at each number.       *)
Flattens(g, s) ==
    \A i \in 1 .. Len(s) : g[i] = IF i = 1 THEN s[i] ELSE g[i - 1] \o s[i]

LEMMA FlattensUnique ==
    ASSUME NEW s, Len(s) \in Nat, NEW g, NEW h, Flattens(g, s), Flattens(h, s)
    PROVE  \A i \in 1 .. Len(s) : g[i] = h[i]
<1> DEFINE Wrong == {i \in 1 .. Len(s) : g[i] # h[i]}
<1> SUFFICES ASSUME Wrong # {} PROVE FALSE
  OBVIOUS
<1>0. Wrong \in SUBSET Nat
  OBVIOUS
<1>1. PICK n \in Wrong : \A m \in Nat : m < n => m \notin Wrong
  <2> HIDE DEF Wrong
  <2> QED
    BY <1>0, SmallestNumber
<1>2. n = 1 \/ (n - 1 \in 1 .. Len(s) /\ g[n - 1] = h[n - 1])
  BY <1>1
<1> HIDE DEF Wrong
<1>3. n \in 1 .. Len(s) /\ g[n] # h[n]
  BY DEF Wrong
<1> QED
  BY <1>2, <1>3 DEF Flattens

LEMMA FlattensExists ==
    ASSUME NEW S, NEW s \in Seq(Seq(S))
    PROVE  \E g \in [1 .. Len(s) -> Seq(S)] : Flattens(g, s)
<1> DEFINE UpTo(g, n) == \A i \in 1 .. n : g[i] = IF i = 1 THEN s[i] ELSE g[i - 1] \o s[i]
           Short == {n \in 0 .. Len(s) : ~ \E g \in [1 .. n -> Seq(S)] : UpTo(g, n)}
<1>0. Short \in SUBSET Nat
  OBVIOUS
<1>1. Short = {}
  <2> SUFFICES ASSUME Short # {} PROVE FALSE
    OBVIOUS
  <2>1. PICK n \in Short : \A m \in Nat : m < n => m \notin Short
    <3> HIDE DEF Short
    <3> QED
      BY <1>0, SmallestNumber
  <2>2. n # 0
    <3>1. <<>> \in [1 .. 0 -> Seq(S)] /\ UpTo(<<>>, 0)
      OBVIOUS
    <3> QED
      BY <3>1
  <2>3. PICK g \in [1 .. n - 1 -> Seq(S)] : UpTo(g, n - 1)
    <3> HIDE DEF UpTo
    <3>1. n - 1 \in Nat /\ n - 1 < n /\ n - 1 \in 0 .. Len(s)
      BY <2>2
    <3>2. n - 1 \notin Short
      <4> HIDE DEF Short
      <4> QED
        BY <2>1, <3>1
    <3> QED
      BY <3>1, <3>2
  <2> DEFINE h == [i \in 1 .. n |-> IF i = n THEN IF n = 1 THEN s[1] ELSE g[n - 1] \o s[n]
                                    ELSE g[i]]
  <2>4. h \in [1 .. n -> Seq(S)]
    <3>1. s[n] \in Seq(S) /\ (n # 1 => g[n - 1] \in Seq(S))
      BY <2>2, <2>3
    <3>2. n # 1 => g[n - 1] \o s[n] \in Seq(S)
      BY <3>1
    <3> QED
      BY <2>3, <3>1, <3>2
  <2>5. UpTo(h, n)
    <3> SUFFICES ASSUME NEW i \in 1 .. n
                 PROVE  h[i] = IF i = 1 THEN s[i] ELSE h[i - 1] \o s[i]
      OBVIOUS
    <3>1. CASE i = n
      BY <3>1
    <3>2. CASE i # n
      <4>1. i \in 1 .. n - 1 /\ h[i] = g[i] /\ (i # 1 => h[i - 1] = g[i - 1])
        BY <3>2
      <4> QED
        BY <2>3, <4>1
    <3> QED
      BY <3>1, <3>2
  <2> QED
    BY <2>4, <2>5
<1>2. Len(s) \in 0 .. Len(s)
  OBVIOUS
<1> QED
  BY <1>1, <1>2 DEF Flattens

(* FlattenSeq concatenates its sequences in order.                         *)
LEMMA FlattenByConcat ==
    ASSUME NEW S, NEW s \in Seq(Seq(S)), s # <<>>, NEW h, Flattens(h, s)
    PROVE  FlattenSeq(s) = h[Len(s)]
<1> DEFINE F(f) == f = [i \in 1 .. Len(s) |-> IF i = 1 THEN s[i] ELSE f[i - 1] \o s[i]]
<1>1. PICK g \in [1 .. Len(s) -> Seq(S)] : Flattens(g, s)
  BY FlattensExists
<1>2. F(g)
  BY <1>1 DEF Flattens
<1> DEFINE f == CHOOSE f : F(f)
<1>3. F(f)
  BY <1>2
<1> HIDE DEF f
<1>4. Flattens(f, s)
  BY <1>3 DEF Flattens
<1>5. Len(s) \in Nat /\ Len(s) # 0
  OBVIOUS
<1>6. FlattenSeq(s) = f[Len(s)]
  BY <1>5 DEF FlattenSeq, f
<1> QED
  BY <1>4, <1>5, <1>6, FlattensUnique

LEMMA FlattenType ==
    ASSUME NEW S, NEW s \in Seq(Seq(S))
    PROVE  FlattenSeq(s) \in Seq(S)
<1>1. CASE s = <<>>
  BY <1>1 DEF FlattenSeq
<1>2. CASE s # <<>>
  <2>1. PICK g \in [1 .. Len(s) -> Seq(S)] : Flattens(g, s)
    BY FlattensExists
  <2>2. FlattenSeq(s) = g[Len(s)] /\ Len(s) \in 1 .. Len(s)
    BY <1>2, <2>1, FlattenByConcat
  <2> QED
    BY <2>1, <2>2
<1> QED
  BY <1>1, <1>2

LEMMA FlattenEmpty == FlattenSeq(<<>>) = <<>>
  BY DEF FlattenSeq

(* Sequences by their own elements.                                        *)
IsSeq(s) == s \in Seq(ToSet(s))

LEMMA MadeSeq ==
    ASSUME NEW s, NEW n \in Nat, DOMAIN s = 1 .. n, s = [i \in DOMAIN s |-> s[i]]
    PROVE  IsSeq(s) /\ Len(s) = n
<1>1. s \in [1 .. n -> ToSet(s)]
  BY DEF ToSet
<1> QED
  BY <1>1, SeqDef DEF IsSeq

LEMMA IsSeqProperties ==
    ASSUME NEW s, IsSeq(s)
    PROVE  Len(s) \in Nat /\ DOMAIN s = 1 .. Len(s)
  BY LenProperties DEF IsSeq

LEMMA SeqIsSeq ==
    ASSUME NEW S, NEW s \in Seq(S)
    PROVE  IsSeq(s)
<1>1. Len(s) \in Nat /\ DOMAIN s = 1 .. Len(s) /\ s = [i \in DOMAIN s |-> s[i]]
  BY LenProperties
<1> QED
  BY <1>1, MadeSeq

LEMMA ConcatIsSeq ==
    ASSUME NEW a, NEW b, IsSeq(a), IsSeq(b)
    PROVE  IsSeq(a \o b)
<1> DEFINE S == ToSet(a) \cup ToSet(b)
<1>1. a \in Seq(S) /\ b \in Seq(S)
  BY SeqMonotonic DEF IsSeq
<1> HIDE DEF S
<1>2. a \o b \in Seq(S)
  BY <1>1, ConcatProperties
<1> QED
  BY <1>2, SeqIsSeq

LEMMA AppendIsSeq ==
    ASSUME NEW s, IsSeq(s), NEW e
    PROVE  /\ IsSeq(Append(s, e)) /\ Len(Append(s, e)) = Len(s) + 1 /\ Len(s) \in Nat
           /\ \A i \in DOMAIN s : Append(s, e)[i] = s[i]
           /\ Append(s, e)[Len(s) + 1] = e
<1> DEFINE S == ToSet(s) \cup {e}
<1>1. s \in Seq(S) /\ e \in S
  BY SeqMonotonic DEF IsSeq
<1> HIDE DEF S
<1>2. /\ Append(s, e) \in Seq(S) /\ Len(Append(s, e)) = Len(s) + 1
      /\ \A i \in 1 .. Len(s) : Append(s, e)[i] = s[i]
      /\ Append(s, e)[Len(s) + 1] = e
  BY <1>1, AppendProperties
<1>3. IsSeq(Append(s, e))
  BY <1>2, SeqIsSeq
<1>4. Len(s) \in Nat /\ DOMAIN s = 1 .. Len(s)
  BY <1>1
<1> QED
  BY <1>2, <1>3, <1>4

(* What is left of a sequence when its first or its last element goes.     *)
LEMMA TailFacts ==
    ASSUME NEW s, IsSeq(s), s # <<>>
    PROVE  /\ IsSeq(Tail(s)) /\ 1 \in DOMAIN s /\ Head(s) = s[1]
           /\ Len(s) \in DOMAIN s
           /\ \A k \in DOMAIN Tail(s) : k + 1 \in DOMAIN s /\ Tail(s)[k] = s[k + 1]
           /\ Tail(s) = <<>> => Len(s) = 1 /\ Last(s) = Head(s)
           /\ Tail(s) # <<>> => Len(s) # 1 /\ Last(Tail(s)) = Last(s)
<1>1. s \in Seq(ToSet(s))
  BY DEF IsSeq
<1> DEFINE S == ToSet(s)
<1> HIDE DEF S
<1>2. s \in Seq(S)
  BY <1>1 DEF S
<1>3. /\ Tail(s) \in Seq(S) /\ Len(Tail(s)) = Len(s) - 1
      /\ \A k \in 1 .. Len(Tail(s)) : Tail(s)[k] = s[k + 1]
      /\ Len(s) \in Nat \ {0} /\ DOMAIN s = 1 .. Len(s)
      /\ DOMAIN Tail(s) = 1 .. Len(Tail(s)) /\ Head(s) = s[1]
  BY <1>2, HeadTailProperties, EmptySeq, LenProperties
<1>4. IsSeq(Tail(s))
  BY <1>3, SeqIsSeq
<1>5. Tail(s) = <<>> <=> Len(s) = 1
  BY <1>3, EmptySeq
<1>6. ASSUME Tail(s) # <<>> PROVE Last(Tail(s)) = Last(s)
  BY <1>3, <1>5, <1>6 DEF Last
<1>7. Tail(s) = <<>> => Last(s) = Head(s)
  BY <1>3, <1>5 DEF Last
<1> QED
  BY <1>3, <1>4, <1>5, <1>6, <1>7

LEMMA FrontFacts ==
    ASSUME NEW s, IsSeq(s), s # <<>>
    PROVE  /\ IsSeq(Front(s))
           /\ \A k \in DOMAIN Front(s) : k \in DOMAIN s /\ Front(s)[k] = s[k]
<1>1. Len(s) \in Nat \ {0} /\ DOMAIN s = 1 .. Len(s)
  BY TailFacts, IsSeqProperties
<1>2. Front(s) = [k \in 1 .. Len(s) - 1 |-> s[k]]
  BY <1>1 DEF Front
<1>3. /\ DOMAIN Front(s) = 1 .. Len(s) - 1 /\ Len(s) - 1 \in Nat
      /\ Front(s) = [k \in DOMAIN Front(s) |-> Front(s)[k]]
  BY <1>1, <1>2
<1>4. IsSeq(Front(s))
  BY <1>3, MadeSeq
<1> QED
  BY <1>1, <1>2, <1>3, <1>4

LEMMA SeqRange ==
    ASSUME NEW S, NEW s \in Seq(S)
    PROVE  /\ ToSet(s) \subseteq S /\ ToSet(s) = {s[i] : i \in 1 .. Len(s)}
           /\ IsFiniteSet(ToSet(s))
<1>1. DOMAIN s = 1 .. Len(s) /\ Len(s) \in Nat
  OBVIOUS
<1>2. IsFiniteSet(DOMAIN s)
  BY <1>1, FS_Interval
<1>3. IsFiniteSet(ToSet(s))
  <2>1. s \in Surjection(DOMAIN s, ToSet(s))
    BY DEF Surjection, ToSet
  <2> QED
    BY <1>2, <2>1, FS_Surjection
<1> QED
  BY <1>1, <1>3 DEF ToSet

-----------------------------------------------------------------------------
(* PhilSVGStorage.                                                         *)

ChunkCount(bytes) == (Len(bytes) + StorageChunkLimit - 1) \div StorageChunkLimit

LEMMA ContentIsSeq ==
    ASSUME NEW c \in Contents
    PROVE  c \in Seq(ToSet(c)) /\ Len(c) \in Nat
  BY StorageAssumption

(* The chunks cover the bytes: all but the last one are full.              *)
LEMMA ChunkCountCovers ==
    ASSUME NEW n \in Nat, NEW l \in Nat \ {0}, NEW q, q = (n + l - 1) \div l
    PROVE  q \in Nat /\ n <= q * l /\ (q # 0 => (q - 1) * l < n) /\ (q = 0 <=> n = 0)
<1>1. q \in Nat
  OBVIOUS
<1>2. l * q <= n + l - 1 /\ n + l - 1 < l * q + l
  OBVIOUS
<1>3. l * q = q * l /\ (q - 1) * l = q * l - l
  BY <1>1
<1>4. q = 0 => q * l = 0
  BY <1>1
<1>5. q # 0 => q * l >= l
  BY <1>1
<1> DEFINE p == q * l
<1>6. p \in Nat
  BY <1>1
<1> QED
  BY <1>1, <1>2, <1>3, <1>4, <1>5, <1>6

LEMMA ProductInNat == ASSUME NEW a \in Nat, NEW b \in Nat PROVE a * b \in Nat
  OBVIOUS

LEMMA ChunksType ==
    ASSUME NEW c \in Contents
    PROVE  /\ ChunksOf(c) \in Seq(Seq(ToSet(c)))
           /\ Len(ChunksOf(c)) = ChunkCount(c) /\ ChunkCount(c) \in Nat
           /\ \A i \in 1 .. ChunkCount(c) :
                 ChunksOf(c)[i] = SubSeq(c, (i - 1) * StorageChunkLimit + 1,
                                         Smaller(i * StorageChunkLimit, Len(c)))
<1>1. ChunkCount(c) \in Nat
  BY ContentIsSeq, StorageAssumption, ChunkCountCovers DEF ChunkCount
<1>2. ChunksOf(c) = [i \in 1 .. ChunkCount(c) |->
                        SubSeq(c, (i - 1) * StorageChunkLimit + 1,
                               Smaller(i * StorageChunkLimit, Len(c)))]
  BY DEF ChunksOf, ChunkCount
<1>3. ASSUME NEW i \in 1 .. ChunkCount(c)
      PROVE  SubSeq(c, (i - 1) * StorageChunkLimit + 1,
                    Smaller(i * StorageChunkLimit, Len(c))) \in Seq(ToSet(c))
  <2> DEFINE m == (i - 1) * StorageChunkLimit + 1
             n == Smaller(i * StorageChunkLimit, Len(c))
  <2>1. i - 1 \in Nat /\ i \in Nat /\ StorageChunkLimit \in Nat
    BY <1>1, StorageAssumption
  <2>2. (i - 1) * StorageChunkLimit \in Nat /\ i * StorageChunkLimit \in Nat
    BY <2>1, ProductInNat
  <2>3. m \in Nat \ {0} /\ n \in Nat /\ n <= Len(c)
    BY <2>2, ContentIsSeq DEF Smaller
  <2> HIDE DEF m, n
  <2>4. \A j \in m .. n : c[j] \in ToSet(c)
    BY <2>3, ContentIsSeq DEF ToSet
  <2>5. SubSeq(c, m, n) \in Seq(ToSet(c))
    BY <2>3, <2>4, SubSeqProperties
  <2> QED
    BY <2>5 DEF m, n
<1> HIDE DEF ChunkCount
<1>4. /\ ChunksOf(c) \in [1 .. ChunkCount(c) -> Seq(ToSet(c))]
  BY <1>2, <1>3
<1>5. ChunksOf(c) \in Seq(Seq(ToSet(c))) /\ Len(ChunksOf(c)) = ChunkCount(c)
  BY <1>1, <1>4
<1> QED
  BY <1>1, <1>2, <1>5

(* Whatever the chunk limit, the chunks of a file put together are the     *)
(* file.                                                                   *)
LEMMA ChunksRoundTrip ==
    ASSUME NEW c \in Contents
    PROVE  FlattenSeq(ChunksOf(c)) = c
<1> DEFINE L == StorageChunkLimit
           N == ChunkCount(c)
           h == [i \in 1 .. N |-> SubSeq(c, 1, Smaller(i * L, Len(c)))]
<1>1. /\ c \in Seq(ToSet(c)) /\ Len(c) \in Nat /\ L \in Nat \ {0} /\ N \in Nat
      /\ Len(c) <= N * L /\ (N # 0 => (N - 1) * L < Len(c)) /\ (N = 0 <=> Len(c) = 0)
  BY ContentIsSeq, StorageAssumption, ChunkCountCovers DEF ChunkCount
<1>2. /\ ChunksOf(c) \in Seq(Seq(ToSet(c))) /\ Len(ChunksOf(c)) = N
      /\ \A i \in 1 .. N : ChunksOf(c)[i] = SubSeq(c, (i - 1) * L + 1, Smaller(i * L, Len(c)))
  BY ChunksType
<1> HIDE DEF L, N
<1>3. CASE N = 0
  <2>1. c = <<>> /\ ChunksOf(c) = <<>>
    BY <1>1, <1>2, <1>3
  <2> QED
    BY <2>1, FlattenEmpty
<1>4. CASE N # 0
  <2>1. ASSUME NEW i \in 1 .. N
        PROVE  h[i] = IF i = 1 THEN ChunksOf(c)[i] ELSE h[i - 1] \o ChunksOf(c)[i]
    <3>1. /\ i \in Nat /\ i - 1 \in Nat
          /\ (i - 1) * L \in Nat /\ i * L = (i - 1) * L + L
      <4>1. i \in Nat /\ i - 1 \in Nat
        BY <1>1
      <4> QED
        BY <1>1, <4>1, ProductInNat
    <3>2. (i - 1) * L <= (N - 1) * L
      BY <1>1
    <3> DEFINE m == (i - 1) * L
               n == Smaller(i * L, Len(c))
    <3>3. /\ m \in Nat /\ m < Len(c) /\ n \in Nat /\ m <= n /\ n <= Len(c)
          /\ m = Smaller(m, Len(c))
      <4>1. (N - 1) * L \in Int
        BY <1>1
      <4> QED
        BY <1>1, <1>4, <3>1, <3>2, <4>1 DEF Smaller
    <3>4. ChunksOf(c)[i] = SubSeq(c, m + 1, n) /\ h[i] = SubSeq(c, 1, n)
      BY <1>2
    <3>5. i # 1 => h[i - 1] = SubSeq(c, 1, m)
      BY <1>1, <3>3
    <3>6. i = 1 => m = 0
      BY <1>1
    <3>7. SubSeq(c, 1, m) \o SubSeq(c, m + 1, n) = SubSeq(c, 1, n)
      <4> HIDE DEF m, n
      <4>1. 1 \in 1 .. Len(c) + 1 /\ m \in 1 - 1 .. Len(c) /\ n \in m .. Len(c)
        BY <1>1, <3>3
      <4> QED
        BY <1>1, <4>1, ConcatAdjacentSubSeq
    <3> HIDE DEF m, n, h
    <3>8. i = 1 => m + 1 = 1
      BY <3>6
    <3>9. i = 1 => ChunksOf(c)[i] = h[i]
      BY <3>4, <3>8
    <3>10. i # 1 => h[i] = h[i - 1] \o ChunksOf(c)[i]
      BY <3>4, <3>5, <3>7
    <3> QED
      BY <3>9, <3>10
  <2>2. Flattens(h, ChunksOf(c))
    <3> HIDE DEF h
    <3> QED
      BY <1>2, <2>1 DEF Flattens
  <2>3. ChunksOf(c) # <<>>
    BY <1>2, <1>4
  <2>4. h[N] = SubSeq(c, 1, Smaller(N * L, Len(c)))
    <3>1. N \in 1 .. N
      BY <1>1, <1>4
    <3> QED
      BY <3>1
  <2>5. Smaller(N * L, Len(c)) = Len(c)
    BY <1>1, ProductInNat DEF Smaller
  <2>6. FlattenSeq(ChunksOf(c)) = h[N]
    <3> HIDE DEF h
    <3> QED
      BY <1>2, <2>2, <2>3, FlattenByConcat
  <2> QED
    BY <1>1, <2>4, <2>5, <2>6, SubSeqFull
<1> QED
  BY <1>3, <1>4

(* The new contents of a batch.                                            *)
Skipped(store, svgs, k) ==
    ExistingId(store, svgs[k]) # 0 \/ \E j \in 1 .. k - 1 : svgs[j] = svgs[k]

Lists(g, store, svgs, n) ==
    \A k \in 0 .. n :
        g[k] = IF k = 0 THEN <<>>
               ELSE IF Skipped(store, svgs, k) THEN g[k - 1] ELSE Append(g[k - 1], svgs[k])

LEMMA ListsExists ==
    ASSUME NEW store, NEW svgs \in Seq(Contents)
    PROVE  \E g \in [0 .. Len(svgs) -> Seq(Contents)] : Lists(g, store, svgs, Len(svgs))
<1> DEFINE Has(n) == \E g \in [0 .. n -> Seq(Contents)] : Lists(g, store, svgs, n)
           Lacking == {n \in 0 .. Len(svgs) : ~Has(n)}
<1>1. Lacking \in SUBSET Nat
  OBVIOUS
<1>2. ASSUME Lacking # {} PROVE FALSE
  <2>1. PICK n \in Lacking : \A m \in Nat : m < n => m \notin Lacking
    <3> HIDE DEF Lacking
    <3> QED
      BY <1>1, <1>2, SmallestNumber
  <2>2. n \in 0 .. Len(svgs) /\ ~Has(n)
    BY <2>1
  <2>3. n # 0
    <3>1. [k \in 0 .. 0 |-> <<>>] \in [0 .. 0 -> Seq(Contents)]
      OBVIOUS
    <3>2. Lists([k \in 0 .. 0 |-> <<>>], store, svgs, 0)
      BY DEF Lists
    <3> QED
      BY <2>2, <3>1, <3>2
  <2>4. Has(n - 1)
    <3> HIDE DEF Has
    <3>1. n - 1 \in Nat /\ n - 1 < n /\ n - 1 \in 0 .. Len(svgs)
      BY <2>2, <2>3
    <3> QED
      BY <2>1, <3>1
  <2>5. PICK g \in [0 .. n - 1 -> Seq(Contents)] : Lists(g, store, svgs, n - 1)
    BY <2>4
  <2> DEFINE last == IF Skipped(store, svgs, n) THEN g[n - 1] ELSE Append(g[n - 1], svgs[n])
             h == [k \in 0 .. n |-> IF k = n THEN last ELSE g[k]]
  <2>6. last \in Seq(Contents)
    <3>1. g[n - 1] \in Seq(Contents) /\ svgs[n] \in Contents
      BY <2>2, <2>3, <2>5
    <3> QED
      BY <3>1
  <2>7. h \in [0 .. n -> Seq(Contents)]
    <3> HIDE DEF last
    <3> QED
      BY <2>2, <2>5, <2>6
  <2>8. Lists(h, store, svgs, n)
    <3> SUFFICES ASSUME NEW k \in 0 .. n
                 PROVE  h[k] = IF k = 0 THEN <<>>
                               ELSE IF Skipped(store, svgs, k) THEN h[k - 1]
                                    ELSE Append(h[k - 1], svgs[k])
      BY DEF Lists
    <3> HIDE DEF last
    <3>1. CASE k = n
      <4>1. h[k] = last /\ h[k - 1] = g[n - 1]
        BY <2>2, <2>3, <3>1
      <4> QED
        BY <2>3, <3>1, <4>1 DEF last
    <3>2. CASE k # n
      <4>1. k \in 0 .. n - 1 /\ h[k] = g[k] /\ (k # 0 => h[k - 1] = g[k - 1])
        BY <2>2, <3>2
      <4> QED
        BY <2>5, <4>1 DEF Lists
    <3> QED
      BY <3>1, <3>2
  <2> QED
    BY <2>2, <2>7, <2>8
<1>3. Len(svgs) \in 0 .. Len(svgs)
  OBVIOUS
<1> HIDE DEF Has
<1>4. Has(Len(svgs))
  BY <1>2, <1>3
<1> QED
  BY <1>4 DEF Has

(* What `list` has of the first n of a batch: each new content once, in the *)
(* order in which it first comes.                                          *)
NewAmongFirst(list, store, svgs, n) ==
    /\ list \in Seq(Contents)
    /\ \A i \in 1 .. Len(list) :
          /\ ExistingId(store, list[i]) = 0
          /\ \E k \in 1 .. n :
                /\ svgs[k] = list[i]
                /\ \A j \in 1 .. k - 1 : ExistingId(store, svgs[j]) = 0 =>
                      \E m \in 1 .. i - 1 : list[m] = svgs[j]
    /\ \A k \in 1 .. n : ExistingId(store, svgs[k]) = 0 =>
          \E i \in 1 .. Len(list) : list[i] = svgs[k]
    /\ \A i, j \in 1 .. Len(list) : list[i] = list[j] => i = j

LEMMA ListGrows ==
    ASSUME NEW store, NEW svgs \in Seq(Contents), NEW n \in 1 .. Len(svgs), NEW list,
           NewAmongFirst(list, store, svgs, n - 1)
    PROVE  NewAmongFirst(IF Skipped(store, svgs, n) THEN list ELSE Append(list, svgs[n]),
                         store, svgs, n)
<1>0. n \in Nat /\ n - 1 \in Nat /\ svgs[n] \in Contents
  OBVIOUS
<1>1. CASE Skipped(store, svgs, n)
  <2>1. ASSUME ExistingId(store, svgs[n]) = 0
        PROVE  \E i \in 1 .. Len(list) : list[i] = svgs[n]
    <3>1. PICK j \in 1 .. n - 1 : svgs[j] = svgs[n]
      BY <1>1, <2>1 DEF Skipped
    <3> QED
      BY <2>1, <3>1 DEF NewAmongFirst
  <2>2. /\ \A k \in 1 .. n : k = n \/ k \in 1 .. n - 1
        /\ \A k \in 1 .. n - 1 : k \in 1 .. n
    BY <1>0
  <2>3. \A k \in 1 .. n : ExistingId(store, svgs[k]) = 0 =>
           \E i \in 1 .. Len(list) : list[i] = svgs[k]
    BY <2>1, <2>2 DEF NewAmongFirst
  <2>4. ASSUME NEW i \in 1 .. Len(list)
        PROVE  /\ ExistingId(store, list[i]) = 0
               /\ \E k \in 1 .. n :
                     /\ svgs[k] = list[i]
                     /\ \A j \in 1 .. k - 1 : ExistingId(store, svgs[j]) = 0 =>
                           \E m \in 1 .. i - 1 : list[m] = svgs[j]
    BY <2>2, <2>4, Zenon DEF NewAmongFirst
  <2>5. /\ list \in Seq(Contents)
        /\ \A i, j \in 1 .. Len(list) : list[i] = list[j] => i = j
    BY DEF NewAmongFirst
  <2>6. NewAmongFirst(list, store, svgs, n)
    BY <2>3, <2>4, <2>5, Zenon DEF NewAmongFirst
  <2> QED
    BY <1>1, <2>6
<1>2. CASE ~Skipped(store, svgs, n)
  <2> DEFINE longer == Append(list, svgs[n])
  <2>1. /\ list \in Seq(Contents) /\ longer \in Seq(Contents)
        /\ Len(list) \in Nat /\ Len(longer) = Len(list) + 1
        /\ \A i \in 1 .. Len(list) : longer[i] = list[i]
        /\ longer[Len(list) + 1] = svgs[n]
    BY <1>0, AppendProperties DEF NewAmongFirst
  <2>2. /\ ExistingId(store, svgs[n]) = 0
        /\ \A j \in 1 .. n - 1 : svgs[j] # svgs[n]
    BY <1>2 DEF Skipped
  <2> HIDE DEF longer
  <2>3. ASSUME NEW i \in 1 .. Len(longer)
        PROVE  /\ ExistingId(store, longer[i]) = 0
               /\ \E k \in 1 .. n :
                     /\ svgs[k] = longer[i]
                     /\ \A j \in 1 .. k - 1 : ExistingId(store, svgs[j]) = 0 =>
                           \E m \in 1 .. i - 1 : longer[m] = svgs[j]
    <3>1. CASE i \in 1 .. Len(list)
      <4>1. PICK k \in 1 .. n - 1 :
                /\ svgs[k] = list[i]
                /\ \A j \in 1 .. k - 1 : ExistingId(store, svgs[j]) = 0 =>
                      \E m \in 1 .. i - 1 : list[m] = svgs[j]
        BY <3>1 DEF NewAmongFirst
      <4>2. \A m \in 1 .. i - 1 : longer[m] = list[m]
        BY <2>1, <3>1
      <4>3. k \in 1 .. n
        BY <1>0
      <4> QED
        BY <2>1, <3>1, <4>1, <4>2, <4>3 DEF NewAmongFirst
    <3>2. CASE i = Len(list) + 1
      <4>1. n \in 1 .. n /\ svgs[n] = longer[i]
        BY <1>0, <2>1, <3>2
      <4>2. ASSUME NEW j \in 1 .. n - 1, ExistingId(store, svgs[j]) = 0
            PROVE  \E m \in 1 .. i - 1 : longer[m] = svgs[j]
        <5>1. PICK m \in 1 .. Len(list) : list[m] = svgs[j]
          BY <4>2 DEF NewAmongFirst
        <5> QED
          BY <2>1, <3>2, <5>1
      <4> QED
        BY <2>2, <4>1, <4>2
    <3> QED
      BY <2>1, <3>1, <3>2
  <2>4. ASSUME NEW k \in 1 .. n, ExistingId(store, svgs[k]) = 0
        PROVE  \E i \in 1 .. Len(longer) : longer[i] = svgs[k]
    <3>1. CASE k = n
      BY <2>1, <3>1
    <3>2. CASE k # n
      <4>1. k \in 1 .. n - 1
        BY <1>0, <3>2
      <4>2. PICK i \in 1 .. Len(list) : list[i] = svgs[k]
        BY <2>4, <4>1 DEF NewAmongFirst
      <4> QED
        BY <2>1, <4>2
    <3> QED
      BY <3>1, <3>2
  <2>5. \A i \in 1 .. Len(list) : list[i] # svgs[n]
    <3> SUFFICES ASSUME NEW i \in 1 .. Len(list) PROVE list[i] # svgs[n]
      OBVIOUS
    <3>1. PICK k \in 1 .. n - 1 : svgs[k] = list[i]
      BY DEF NewAmongFirst
    <3> QED
      BY <2>2, <3>1
  <2>6. \A i, j \in 1 .. Len(longer) : longer[i] = longer[j] => i = j
    <3>1. \A i \in 1 .. Len(longer) : i \in 1 .. Len(list) \/ i = Len(list) + 1
      BY <2>1
    <3>2. \A i, j \in 1 .. Len(list) : list[i] = list[j] => i = j
      BY DEF NewAmongFirst
    <3> QED
      BY <2>1, <2>5, <3>1, <3>2
  <2>7. NewAmongFirst(longer, store, svgs, n)
    BY <2>1, <2>3, <2>4, <2>6 DEF NewAmongFirst
  <2> QED
    BY <1>2, <2>7 DEF longer
<1> QED
  BY <1>1, <1>2

LEMMA NewContentsListed ==
    ASSUME NEW store, NEW svgs \in Seq(Contents)
    PROVE  \E g : Lists(g, store, svgs, Len(svgs)) /\ NewContents(store, svgs) = g[Len(svgs)]
<1> DEFINE F(f) == f = [k \in 0 .. Len(svgs) |->
                           IF k = 0 THEN <<>>
                           ELSE IF ExistingId(store, svgs[k]) # 0
                                   \/ \E j \in 1 .. k - 1 : svgs[j] = svgs[k]
                                THEN f[k - 1] ELSE Append(f[k - 1], svgs[k])]
           upTo == CHOOSE f : F(f)
<1>1. PICK g \in [0 .. Len(svgs) -> Seq(Contents)] : Lists(g, store, svgs, Len(svgs))
  BY ListsExists
<1>2. F(g)
  BY <1>1 DEF Lists, Skipped
<1>3. F(upTo)
  BY <1>2
<1> HIDE DEF upTo
<1>4. Lists(upTo, store, svgs, Len(svgs))
  BY <1>3 DEF Lists, Skipped
<1>5. NewContents(store, svgs) = upTo[Len(svgs)]
  BY DEF NewContents, upTo
<1> QED
  BY <1>4, <1>5

LEMMA NewContentsOfBatch ==
    ASSUME NEW store, NEW svgs \in Seq(Contents)
    PROVE  NewAmongFirst(NewContents(store, svgs), store, svgs, Len(svgs))
<1>1. PICK upTo : /\ Lists(upTo, store, svgs, Len(svgs))
                  /\ NewContents(store, svgs) = upTo[Len(svgs)]
  BY NewContentsListed
<1>2. Lists(upTo, store, svgs, Len(svgs))
  BY <1>1
<1>3. NewContents(store, svgs) = upTo[Len(svgs)]
  BY <1>1
<1> DEFINE Wrong == {n \in 0 .. Len(svgs) : ~NewAmongFirst(upTo[n], store, svgs, n)}
<1>4. Wrong \in SUBSET Nat
  OBVIOUS
<1>5. ASSUME Wrong # {} PROVE FALSE
  <2>1. PICK n \in Wrong : \A m \in Nat : m < n => m \notin Wrong
    <3> HIDE DEF Wrong
    <3> QED
      BY <1>4, <1>5, SmallestNumber
  <2>2. n \in 0 .. Len(svgs) /\ ~NewAmongFirst(upTo[n], store, svgs, n)
    BY <2>1
  <2>3. CASE n = 0
    <3>1. upTo[0] = <<>>
      BY <1>2, <2>2, <2>3 DEF Lists
    <3>2. NewAmongFirst(<<>>, store, svgs, 0)
      BY DEF NewAmongFirst
    <3> QED
      BY <2>2, <2>3, <3>1, <3>2
  <2>4. CASE n # 0
    <3>1. n - 1 \in Nat /\ n - 1 < n /\ n - 1 \in 0 .. Len(svgs) /\ n \in 1 .. Len(svgs)
      BY <2>2, <2>4
    <3>2. NewAmongFirst(upTo[n - 1], store, svgs, n - 1)
      BY <2>1, <3>1
    <3>3. upTo[n] = IF Skipped(store, svgs, n) THEN upTo[n - 1] ELSE Append(upTo[n - 1], svgs[n])
      BY <1>2, <2>2, <2>4 DEF Lists
    <3> QED
      BY <2>2, <3>1, <3>2, <3>3, ListGrows
  <2> QED
    BY <2>3, <2>4
<1>6. Len(svgs) \in 0 .. Len(svgs)
  OBVIOUS
<1> QED
  BY <1>3, <1>5, <1>6

(* A batch of which nothing is stored and nothing repeated is all new.     *)
LEMMA AllNew ==
    ASSUME NEW store, NEW svgs \in Seq(Contents),
           \A k \in 1 .. Len(svgs) : ~Skipped(store, svgs, k)
    PROVE  NewContents(store, svgs) = svgs
<1>1. PICK upTo : /\ Lists(upTo, store, svgs, Len(svgs))
                  /\ NewContents(store, svgs) = upTo[Len(svgs)]
  BY NewContentsListed
<1> DEFINE All(n) == /\ upTo[n] \in Seq(Contents) /\ Len(upTo[n]) = n
                     /\ \A i \in 1 .. n : upTo[n][i] = svgs[i]
           Wrong == {n \in 0 .. Len(svgs) : ~All(n)}
<1>2. Wrong \in SUBSET Nat
  OBVIOUS
<1>3. ASSUME Wrong # {} PROVE FALSE
  <2>1. PICK n \in Wrong : \A m \in Nat : m < n => m \notin Wrong
    <3> HIDE DEF Wrong
    <3> QED
      BY <1>2, <1>3, SmallestNumber
  <2>2. n \in 0 .. Len(svgs) /\ ~All(n)
    BY <2>1
  <2>3. CASE n = 0
    <3>1. upTo[n] = <<>>
      BY <1>1, <2>2, <2>3 DEF Lists
    <3> QED
      BY <2>2, <2>3, <3>1
  <2>4. CASE n # 0
    <3>1. n - 1 \in Nat /\ n - 1 < n /\ n - 1 \in 0 .. Len(svgs) /\ n \in 1 .. Len(svgs)
      BY <2>2, <2>4
    <3>2. All(n - 1)
      <4> HIDE DEF All
      <4> QED
        BY <2>1, <3>1
    <3>3. upTo[n] = Append(upTo[n - 1], svgs[n]) /\ svgs[n] \in Contents
      <4>1. upTo[n] = IF Skipped(store, svgs, n) THEN upTo[n - 1]
                      ELSE Append(upTo[n - 1], svgs[n])
        BY <1>1, <2>2, <2>4 DEF Lists
      <4> QED
        BY <3>1, <4>1
    <3> DEFINE old == upTo[n - 1]
    <3> HIDE DEF old
    <3>4. /\ old \in Seq(Contents) /\ Len(old) = n - 1
          /\ \A i \in 1 .. n - 1 : old[i] = svgs[i]
          /\ upTo[n] = Append(old, svgs[n])
      BY <3>2, <3>3 DEF old
    <3>5. /\ upTo[n] \in Seq(Contents) /\ Len(upTo[n]) = n - 1 + 1
          /\ \A i \in 1 .. n - 1 : upTo[n][i] = old[i]
          /\ upTo[n][n - 1 + 1] = svgs[n]
      BY <3>3, <3>4, AppendProperties
    <3>6. n - 1 + 1 = n /\ \A i \in 1 .. n : i \in 1 .. n - 1 \/ i = n
      BY <3>1
    <3>7. All(n)
      BY <3>4, <3>5, <3>6
    <3> QED
      BY <2>2, <3>7
  <2> QED
    BY <2>3, <2>4
<1>4. All(Len(svgs))
  <2>1. Len(svgs) \in 0 .. Len(svgs)
    OBVIOUS
  <2> HIDE DEF All
  <2> QED
    BY <1>3, <2>1
<1>5. upTo[Len(svgs)] = svgs
  BY <1>4, SeqEqual
<1> QED
  BY <1>1, <1>5

-----------------------------------------------------------------------------
(* A storage names each content once, its index and its records agree, and *)
(* what is finalized is the content announced.                             *)
Symbols == UNION {ToSet(c) : c \in Contents}
Records == [totalSize : Nat, expectedChunks : Nat, contentHash : Contents,
            chunkPointers : Seq(Seq(Symbols)), finalized : BOOLEAN]
Stores == [records : Seq(Records), svgIdForHash : [Contents -> Nat]]

Indexed(store) ==
    /\ \A r \in DOMAIN store.records : store.svgIdForHash[store.records[r].contentHash] = r
    /\ \A c \in Contents : ExistingId(store, c) # 0 =>
          /\ Known(store, ExistingId(store, c))
          /\ store.records[ExistingId(store, c)].contentHash = c
HoldsContent(store) ==
    \A r \in DOMAIN store.records :
        store.records[r].finalized => StoredBytes(store.records[r]) = store.records[r].contentHash
StoreOK(store) == store \in Stores /\ Indexed(store) /\ HoldsContent(store)

(* A later state of the same storage.                                      *)
Grows(old, new) ==
    /\ Len(old.records) <= Len(new.records)
    /\ \A r \in DOMAIN old.records :
          /\ new.records[r].contentHash = old.records[r].contentHash
          /\ old.records[r].finalized => new.records[r] = old.records[r]
    /\ \A c \in Contents : ExistingId(old, c) # 0 => ExistingId(new, c) = ExistingId(old, c)

LEMMA EmptyStoreOK == StoreOK(EmptyStore)
  BY DEF StoreOK, EmptyStore, Stores, Indexed, HoldsContent, ExistingId

LEMMA StoreFacts ==
    ASSUME NEW store \in Stores
    PROVE  /\ store.records \in Seq(Records) /\ Len(store.records) \in Nat
           /\ DOMAIN store.records = 1 .. Len(store.records)
           /\ \A r \in DOMAIN store.records : store.records[r] \in Records
           /\ store.svgIdForHash \in [Contents -> Nat]
           /\ \A c \in Contents : ExistingId(store, c) \in Nat
  BY DEF Stores, ExistingId

LEMMA GrowsReflexive == ASSUME NEW store \in Stores PROVE Grows(store, store)
  BY StoreFacts DEF Grows

LEMMA GrowsTransitive ==
    ASSUME NEW a \in Stores, NEW b \in Stores, NEW c \in Stores, Grows(a, b), Grows(b, c)
    PROVE  Grows(a, c)
<1>1. \A r \in DOMAIN a.records : r \in DOMAIN b.records
  BY StoreFacts DEF Grows
<1> QED
  BY <1>1, StoreFacts DEF Grows

LEMMA ChunksAreStored ==
    ASSUME NEW c \in Contents
    PROVE  ChunksOf(c) \in Seq(Seq(Symbols))
<1>1. ToSet(c) \subseteq Symbols
  BY DEF Symbols
<1>2. Seq(ToSet(c)) \subseteq Seq(Symbols)
  BY <1>1, SeqMonotonic
<1> QED
  BY <1>2, ChunksType, SeqMonotonic

LEMMA SingleUploadType ==
    ASSUME NEW c \in Contents
    PROVE  /\ SingleUpload(c) \in Records
           /\ SingleUpload(c).contentHash = c /\ SingleUpload(c).finalized
           /\ StoredBytes(SingleUpload(c)) = c
  BY ChunksAreStored, ChunksType, ChunksRoundTrip, ContentIsSeq
  DEF SingleUpload, RecordOf, Records, StoredBytes

(* initializeChunkedSvg, and any one new record.                           *)
LEMMA CreateRecordKeeps ==
    ASSUME NEW store, StoreOK(store), NEW record \in Records,
           ExistingId(store, record.contentHash) = 0,
           record.finalized => StoredBytes(record) = record.contentHash
    PROVE  StoreOK(CreateRecord(store, record)) /\ Grows(store, CreateRecord(store, record))
<1> DEFINE new == CreateRecord(store, record)
           n == Len(store.records) + 1
<1>1. store \in Stores /\ Indexed(store) /\ HoldsContent(store)
  BY DEF StoreOK
<1>2. /\ new.records \in Seq(Records) /\ Len(new.records) = n /\ n \in Nat \ {0}
      /\ DOMAIN new.records = 1 .. n /\ DOMAIN store.records = 1 .. n - 1
      /\ \A r \in 1 .. n - 1 : new.records[r] = store.records[r]
      /\ new.records[n] = record
  BY <1>1, StoreFacts, AppendProperties DEF CreateRecord
<1>3. /\ new.svgIdForHash \in [Contents -> Nat]
      /\ record.contentHash \in Contents
      /\ \A c \in Contents : ExistingId(new, c) =
            IF c = record.contentHash THEN n ELSE ExistingId(store, c)
  BY <1>1, <1>2, StoreFacts DEF CreateRecord, Records, ExistingId
<1>4. new \in Stores
  BY <1>2, <1>3 DEF CreateRecord, Stores
<1>5. \A r \in 1 .. n - 1 : store.records[r] \in Records
  BY <1>1, <1>2, StoreFacts
<1>6. \A r \in 1 .. n - 1 : store.records[r].contentHash \in Contents
                            /\ ExistingId(store, store.records[r].contentHash) = r
  BY <1>1, <1>2, <1>5 DEF Indexed, ExistingId, Records
<1> HIDE DEF new, n
<1>7. Indexed(new)
  <2>1. ASSUME NEW r \in DOMAIN new.records
        PROVE  ExistingId(new, new.records[r].contentHash) = r
    <3>1. CASE r = n
      BY <1>2, <1>3, <3>1
    <3>2. CASE r # n
      <4>1. r \in 1 .. n - 1
        BY <1>2, <3>2
      <4>2. r # 0
        BY <4>1
      <4> QED
        BY <1>2, <1>3, <1>6, <4>1, <4>2
    <3> QED
      BY <3>1, <3>2
  <2>2. ASSUME NEW c \in Contents, ExistingId(new, c) # 0
        PROVE  /\ Known(new, ExistingId(new, c))
               /\ new.records[ExistingId(new, c)].contentHash = c
    <3>1. CASE c = record.contentHash
      BY <1>2, <1>3, <3>1 DEF Known
    <3>2. CASE c # record.contentHash
      <4>1. ExistingId(new, c) = ExistingId(store, c)
        BY <1>3, <3>2
      <4>2. ExistingId(store, c) \in 1 .. n - 1
            /\ store.records[ExistingId(store, c)].contentHash = c
        BY <1>1, <1>2, <2>2, <4>1 DEF Indexed, Known
      <4> QED
        BY <1>2, <4>1, <4>2 DEF Known
    <3> QED
      BY <3>1, <3>2
  <2> QED
    BY <2>1, <2>2 DEF Indexed, ExistingId
<1>8. HoldsContent(new)
  <2> SUFFICES ASSUME NEW r \in DOMAIN new.records, new.records[r].finalized
               PROVE  StoredBytes(new.records[r]) = new.records[r].contentHash
    BY DEF HoldsContent
  <2>1. CASE r = n
    BY <1>2, <2>1
  <2>2. CASE r # n
    <3>1. r \in 1 .. n - 1
      BY <1>2, <2>2
    <3> QED
      BY <1>1, <1>2, <3>1 DEF HoldsContent
  <2> QED
    BY <2>1, <2>2
<1>9. Grows(store, new)
  <2>1. \A r \in DOMAIN store.records : new.records[r] = store.records[r]
    BY <1>2
  <2>2. Len(store.records) <= Len(new.records)
    BY <1>1, <1>2, StoreFacts DEF n
  <2> QED
    BY <1>3, <2>1, <2>2 DEF Grows
<1> QED
  BY <1>4, <1>7, <1>8, <1>9 DEF StoreOK, new

LEMMA InitializeKeeps ==
    ASSUME NEW store, StoreOK(store), NEW size \in Nat, NEW hash \in Contents,
           NEW expected \in Nat
    PROVE  /\ StoreOK(InitializeChunkedSvg(store, size, hash, expected).store)
           /\ Grows(store, InitializeChunkedSvg(store, size, hash, expected).store)
<1> DEFINE record == RecordOf(size, expected, hash, <<>>, FALSE)
<1>1. record \in Records /\ record.contentHash = hash /\ ~record.finalized
  BY DEF RecordOf, Records
<1>2. store \in Stores
  BY DEF StoreOK
<1>3. CASE size # 0 /\ expected # 0 /\ ExistingId(store, hash) = 0
  <2>1. InitializeChunkedSvg(store, size, hash, expected).store = CreateRecord(store, record)
    BY <1>3 DEF InitializeChunkedSvg, Done
  <2> HIDE DEF record
  <2> QED
    BY <1>1, <1>3, <2>1, CreateRecordKeeps
<1>4. CASE ~(size # 0 /\ expected # 0 /\ ExistingId(store, hash) = 0)
  <2>1. InitializeChunkedSvg(store, size, hash, expected).store = store
    BY <1>4 DEF InitializeChunkedSvg, Done, Reverted
  <2> QED
    BY <1>2, <2>1, GrowsReflexive
<1> QED
  BY <1>3, <1>4

(* appendChunks and finalizeChunkedSvg change one record that is not yet   *)
(* finalized.                                                              *)
LEMMA UnfinalizedChangeKeeps ==
    ASSUME NEW store, StoreOK(store), NEW id \in DOMAIN store.records,
           ~store.records[id].finalized, NEW record \in Records,
           record.contentHash = store.records[id].contentHash,
           record.finalized => StoredBytes(record) = record.contentHash
    PROVE  /\ StoreOK([store EXCEPT !.records[id] = record])
           /\ Grows(store, [store EXCEPT !.records[id] = record])
<1> DEFINE new == [store EXCEPT !.records[id] = record]
<1>1. store \in Stores /\ Indexed(store) /\ HoldsContent(store)
  BY DEF StoreOK
<1>2. /\ store.records \in Seq(Records) /\ Len(store.records) \in Nat
      /\ DOMAIN store.records = 1 .. Len(store.records)
      /\ store.svgIdForHash \in [Contents -> Nat]
  BY <1>1, StoreFacts
<1>3. /\ new.records = [store.records EXCEPT ![id] = record]
      /\ new.svgIdForHash = store.svgIdForHash
  BY <1>1 DEF Stores
<1>12. [store.records EXCEPT ![id] = record] \in Seq(Records)
  BY <1>2, ExceptSeq
<1>5. new \in Stores
  BY <1>1, <1>12 DEF Stores
<1> HIDE DEF new
<1>4. /\ new.records \in Seq(Records) /\ Len(new.records) = Len(store.records)
      /\ DOMAIN new.records = DOMAIN store.records
      /\ new.records[id] = record
      /\ \A r \in DOMAIN store.records : r # id => new.records[r] = store.records[r]
  BY <1>2, <1>3, ExceptSeq
<1>6. \A r \in DOMAIN store.records : new.records[r].contentHash = store.records[r].contentHash
  BY <1>4
<1>7. \A c \in Contents : ExistingId(new, c) = ExistingId(store, c)
  BY <1>3 DEF ExistingId
<1>8. Indexed(new)
  BY <1>1, <1>3, <1>4, <1>6, <1>7 DEF Indexed, Known
<1>9. HoldsContent(new)
  BY <1>1, <1>4 DEF HoldsContent
<1>10. Grows(store, new)
  BY <1>2, <1>4, <1>6, <1>7 DEF Grows
<1> QED
  BY <1>5, <1>8, <1>9, <1>10 DEF StoreOK, new

LEMMA AppendChunksKeeps ==
    ASSUME NEW store, StoreOK(store), NEW id, NEW chunks \in Seq(Seq(Symbols))
    PROVE  /\ StoreOK(AppendChunks(store, id, chunks).store)
           /\ Grows(store, AppendChunks(store, id, chunks).store)
<1>1. store \in Stores
  BY DEF StoreOK
<1>2. CASE AppendChunks(store, id, chunks).ok
  <2> DEFINE record == [store.records[id] EXCEPT !.chunkPointers = @ \o chunks]
  <2>1. /\ id \in DOMAIN store.records /\ ~store.records[id].finalized
        /\ AppendChunks(store, id, chunks).store =
              [store EXCEPT !.records[id].chunkPointers = @ \o chunks]
    BY <1>2 DEF AppendChunks, Known, Done, Reverted
  <2>2. store.records[id] \in Records
    BY <1>1, <2>1, StoreFacts
  <2>3. store.records[id].chunkPointers \o chunks \in Seq(Seq(Symbols))
    BY <2>2, ConcatProperties DEF Records
  <2>4. /\ record \in Records /\ record.contentHash = store.records[id].contentHash
        /\ ~record.finalized
    BY <2>1, <2>2, <2>3 DEF Records
  <2>5. AppendChunks(store, id, chunks).store = [store EXCEPT !.records[id] = record]
    BY <2>1
  <2> HIDE DEF record
  <2> QED
    BY <2>1, <2>4, <2>5, UnfinalizedChangeKeeps
<1>3. CASE ~AppendChunks(store, id, chunks).ok
  <2>1. AppendChunks(store, id, chunks).store = store
    BY <1>3 DEF AppendChunks, Done, Reverted
  <2> QED
    BY <1>1, <2>1, GrowsReflexive
<1> QED
  BY <1>2, <1>3

LEMMA FinalizeKeeps ==
    ASSUME NEW store, StoreOK(store), NEW id
    PROVE  /\ StoreOK(FinalizeChunkedSvg(store, id).store)
           /\ Grows(store, FinalizeChunkedSvg(store, id).store)
<1>1. store \in Stores
  BY DEF StoreOK
<1>2. CASE FinalizeChunkedSvg(store, id).ok
  <2> DEFINE record == [store.records[id] EXCEPT !.finalized = TRUE]
  <2>1. /\ id \in DOMAIN store.records /\ ~store.records[id].finalized
        /\ StoredBytes(store.records[id]) = store.records[id].contentHash
        /\ FinalizeChunkedSvg(store, id).store = [store EXCEPT !.records[id].finalized = TRUE]
    BY <1>2 DEF FinalizeChunkedSvg, Known, Done, Reverted
  <2>2. store.records[id] \in Records
    BY <1>1, <2>1, StoreFacts
  <2>3. /\ record \in Records /\ record.contentHash = store.records[id].contentHash
        /\ record.chunkPointers = store.records[id].chunkPointers
    BY <2>2 DEF Records
  <2>4. StoredBytes(record) = record.contentHash
    BY <2>1, <2>3 DEF StoredBytes
  <2>5. FinalizeChunkedSvg(store, id).store = [store EXCEPT !.records[id] = record]
    BY <2>1
  <2> HIDE DEF record
  <2> QED
    BY <2>1, <2>3, <2>4, <2>5, UnfinalizedChangeKeeps
<1>3. CASE ~FinalizeChunkedSvg(store, id).ok
  <2>1. FinalizeChunkedSvg(store, id).store = store
    BY <1>3 DEF FinalizeChunkedSvg, Done, Reverted
  <2> QED
    BY <1>1, <2>1, GrowsReflexive
<1> QED
  BY <1>2, <1>3

(* storeSvgBatch: what a batch that is not refused leaves.                 *)
LEMMA BatchStores ==
    ASSUME NEW store, StoreOK(store), NEW svgs \in Seq(Contents),
           StoreSvgBatch(store, svgs).ok
    PROVE  LET new == NewContents(store, svgs)
               n == Len(store.records)
               after == StoreSvgBatch(store, svgs).store
           IN /\ after.records \in Seq(Records) /\ Len(after.records) = n + Len(new)
              /\ \A r \in 1 .. n : after.records[r] = store.records[r]
              /\ \A i \in 1 .. Len(new) : /\ after.records[n + i] = SingleUpload(new[i])
                                          /\ ExistingId(after, new[i]) = n + i
              /\ after.svgIdForHash \in [Contents -> Nat] /\ after \in Stores
              /\ \A c \in Contents : ExistingId(store, c) # 0 =>
                    ExistingId(after, c) = ExistingId(store, c)
              /\ \A c \in Contents : ExistingId(store, c) = 0 /\ ExistingId(after, c) # 0 =>
                    \E i \in 1 .. Len(new) : new[i] = c
              /\ StoreSvgBatch(store, svgs).id =
                    [k \in 1 .. Len(svgs) |-> ExistingId(after, svgs[k])]
<1> DEFINE new == NewContents(store, svgs)
           n == Len(store.records)
           after == StoreSvgBatch(store, svgs).store
           IdOf(svg) == IF ExistingId(store, svg) # 0 THEN ExistingId(store, svg)
                        ELSE n + (CHOOSE i \in DOMAIN new : new[i] = svg)
           added == [i \in DOMAIN new |-> SingleUpload(new[i])]
<1>1. /\ store \in Stores /\ store.records \in Seq(Records) /\ n \in Nat
      /\ DOMAIN store.records = 1 .. n
      /\ \A c \in Contents : ExistingId(store, c) \in Nat
  BY StoreFacts DEF StoreOK
<1>2. NewAmongFirst(new, store, svgs, Len(svgs))
  BY NewContentsOfBatch
<1>3. /\ after.records = store.records \o added
      /\ after.svgIdForHash = [c \in Contents |-> IF c \in ToSet(svgs) THEN IdOf(c)
                                                  ELSE store.svgIdForHash[c]]
      /\ after = [records |-> after.records, svgIdForHash |-> after.svgIdForHash]
      /\ StoreSvgBatch(store, svgs).id = [k \in 1 .. Len(svgs) |-> IdOf(svgs[k])]
  <2>1. ~ \E k \in DOMAIN svgs : ~Storable(store, svgs[k])
    BY DEF StoreSvgBatch, Reverted
  <2>2. StoreSvgBatch(store, svgs) =
           [ok |-> TRUE,
            store |-> [records |-> store.records \o added,
                       svgIdForHash |-> [c \in Contents |-> IF c \in ToSet(svgs) THEN IdOf(c)
                                                            ELSE store.svgIdForHash[c]]],
            id |-> [k \in DOMAIN svgs |-> IdOf(svgs[k])]]
    BY <2>1 DEF StoreSvgBatch, Done
  <2>3. DOMAIN svgs = 1 .. Len(svgs)
    OBVIOUS
  <2> DEFINE index == [c \in Contents |-> IF c \in ToSet(svgs) THEN IdOf(c)
                                         ELSE store.svgIdForHash[c]]
             ids == [k \in DOMAIN svgs |-> IdOf(svgs[k])]
  <2>4. ids = [k \in 1 .. Len(svgs) |-> IdOf(svgs[k])]
    BY <2>3
  <2> HIDE DEF added, index, ids
  <2>5. StoreSvgBatch(store, svgs) =
           [ok |-> TRUE, store |-> [records |-> store.records \o added, svgIdForHash |-> index],
            id |-> ids]
    BY <2>2 DEF index, ids
  <2>6. /\ after.records = store.records \o added /\ after.svgIdForHash = index
        /\ after = [records |-> after.records, svgIdForHash |-> after.svgIdForHash]
        /\ StoreSvgBatch(store, svgs).id = ids
    <3>1. after = [records |-> store.records \o added, svgIdForHash |-> index]
      BY <2>5
    <3>2. StoreSvgBatch(store, svgs).id = ids
      BY <2>5
    <3> HIDE DEF after
    <3> QED
      BY <3>1, <3>2
  <2> QED
    BY <2>4, <2>6 DEF index
<1> HIDE DEF new, after
<1>4. new \in Seq(Contents) /\ Len(new) \in Nat /\ DOMAIN new = 1 .. Len(new)
  BY <1>2 DEF NewAmongFirst
<1>5. /\ added \in Seq(Records) /\ Len(added) = Len(new)
      /\ \A i \in 1 .. Len(new) : added[i] = SingleUpload(new[i])
  BY <1>4, SingleUploadType
<1> HIDE DEF added
<1>6. /\ after.records \in Seq(Records) /\ Len(after.records) = n + Len(new)
      /\ \A r \in 1 .. n : after.records[r] = store.records[r]
      /\ \A i \in 1 .. Len(new) : after.records[n + i] = SingleUpload(new[i])
  <2>1. /\ store.records \o added \in Seq(Records)
        /\ Len(store.records \o added) = n + Len(new)
        /\ \A i \in 1 .. n + Len(new) :
              (store.records \o added)[i] = IF i <= n THEN store.records[i] ELSE added[i - n]
    <3>1. /\ store.records \o added \in Seq(Records)
          /\ Len(store.records \o added) = Len(store.records) + Len(added)
          /\ \A i \in 1 .. Len(store.records) + Len(added) :
              (store.records \o added)[i] = IF i <= Len(store.records) THEN store.records[i]
                                            ELSE added[i - Len(store.records)]
      <4>1. \A a, b \in Seq(Records) :
               /\ a \o b \in Seq(Records) /\ Len(a \o b) = Len(a) + Len(b)
               /\ \A i \in 1 .. Len(a) + Len(b) : (a \o b)[i] = IF i <= Len(a) THEN a[i]
                                                              ELSE b[i - Len(a)]
        BY ConcatProperties
      <4> QED
        BY <1>1, <1>5, <4>1
    <3> QED
      BY <1>5, <3>1
  <2>2. ASSUME NEW i \in 1 .. Len(new) PROVE after.records[n + i] = SingleUpload(new[i])
    <3>1. n + i \in 1 .. n + Len(new) /\ ~(n + i <= n) /\ (n + i) - n = i
      BY <1>1, <1>4
    <3> QED
      BY <1>3, <1>5, <2>1, <3>1
  <2> QED
    BY <1>1, <1>3, <1>4, <2>1, <2>2
<1>7. ASSUME NEW i \in 1 .. Len(new) PROVE (CHOOSE j \in DOMAIN new : new[j] = new[i]) = i
  <2>1. \A j \in DOMAIN new : new[j] = new[i] => j = i
    BY <1>2, <1>4 DEF NewAmongFirst
  <2> QED
    BY <1>4, <2>1
<1>8. ASSUME NEW i \in 1 .. Len(new)
      PROVE  new[i] \in Contents /\ IdOf(new[i]) = n + i /\ new[i] \in ToSet(svgs)
  <2>1. ExistingId(store, new[i]) = 0 /\ \E k \in 1 .. Len(svgs) : svgs[k] = new[i]
    BY <1>2 DEF NewAmongFirst
  <2>2. IdOf(new[i]) = n + i
    BY <1>7, <2>1
  <2>3. new[i] \in ToSet(svgs)
    BY <2>1 DEF ToSet
  <2> HIDE DEF IdOf
  <2> QED
    BY <1>4, <2>2, <2>3
<1>9. ASSUME NEW c \in ToSet(svgs)
      PROVE  /\ c \in Contents /\ IdOf(c) \in Nat
             /\ ExistingId(store, c) = 0 => \E i \in 1 .. Len(new) : new[i] = c
  <2>1. PICK k \in 1 .. Len(svgs) : svgs[k] = c
    BY DEF ToSet
  <2>2. ExistingId(store, c) = 0 => \E i \in 1 .. Len(new) : new[i] = c
    BY <1>2, <2>1 DEF NewAmongFirst
  <2>3. ASSUME ExistingId(store, c) = 0 PROVE IdOf(c) \in Nat
    <3>1. PICK i \in 1 .. Len(new) : new[i] = c
      BY <2>2, <2>3
    <3> HIDE DEF IdOf
    <3>2. i \in Nat /\ n + i \in Nat
      BY <1>1, <1>4
    <3> QED
      BY <1>8, <3>1, <3>2
  <2> QED
    BY <1>1, <2>1, <2>2, <2>3
<1> HIDE DEF IdOf
<1>10. after.svgIdForHash \in [Contents -> Nat]
  BY <1>1, <1>3, <1>9, StoreFacts
<1>11. \A c \in Contents : ExistingId(after, c) = IF c \in ToSet(svgs) THEN IdOf(c)
                                                  ELSE ExistingId(store, c)
  BY <1>3 DEF ExistingId
<1>12. after \in Stores
  BY <1>3, <1>6, <1>10 DEF Stores
<1>13. \A i \in 1 .. Len(new) : ExistingId(after, new[i]) = n + i
  BY <1>8, <1>11
<1>14. \A c \in Contents : ExistingId(store, c) # 0 => ExistingId(after, c) = ExistingId(store, c)
  BY <1>11 DEF IdOf
<1>15. \A c \in Contents : ExistingId(store, c) = 0 /\ ExistingId(after, c) # 0 =>
                    \E i \in 1 .. Len(new) : new[i] = c
  BY <1>9, <1>11
<1>16. \A k \in 1 .. Len(svgs) : ExistingId(after, svgs[k]) = IdOf(svgs[k])
  BY <1>11 DEF ToSet
<1>17. StoreSvgBatch(store, svgs).id = [k \in 1 .. Len(svgs) |-> ExistingId(after, svgs[k])]
  BY <1>3, <1>16
<1> QED
  BY <1>6, <1>10, <1>12, <1>13, <1>14, <1>15, <1>17 DEF new, after

LEMMA BatchKeeps ==
    ASSUME NEW store, StoreOK(store), NEW svgs \in Seq(Contents)
    PROVE  /\ StoreOK(StoreSvgBatch(store, svgs).store)
           /\ Grows(store, StoreSvgBatch(store, svgs).store)
<1> DEFINE new == NewContents(store, svgs)
           n == Len(store.records)
           after == StoreSvgBatch(store, svgs).store
<1>1. /\ store \in Stores /\ Indexed(store) /\ HoldsContent(store)
      /\ store.records \in Seq(Records) /\ n \in Nat /\ DOMAIN store.records = 1 .. n
  BY StoreFacts DEF StoreOK
<1>2. CASE ~StoreSvgBatch(store, svgs).ok
  <2>1. after = store
    BY <1>2 DEF StoreSvgBatch, Done, Reverted
  <2> QED
    BY <1>1, <2>1, GrowsReflexive
<1>3. CASE StoreSvgBatch(store, svgs).ok
  <2>1. /\ after.records \in Seq(Records) /\ Len(after.records) = n + Len(new)
        /\ \A r \in 1 .. n : after.records[r] = store.records[r]
        /\ \A i \in 1 .. Len(new) : /\ after.records[n + i] = SingleUpload(new[i])
                                    /\ ExistingId(after, new[i]) = n + i
        /\ after \in Stores
        /\ \A c \in Contents : ExistingId(store, c) # 0 =>
              ExistingId(after, c) = ExistingId(store, c)
        /\ \A c \in Contents : ExistingId(store, c) = 0 /\ ExistingId(after, c) # 0 =>
              \E i \in 1 .. Len(new) : new[i] = c
    BY <1>3, BatchStores
  <2>2. new \in Seq(Contents) /\ Len(new) \in Nat
    BY NewContentsOfBatch DEF NewAmongFirst
  <2> HIDE DEF new, after, n
  <2>3. DOMAIN after.records = 1 .. n + Len(new)
    BY <2>1
  <2>4. ASSUME NEW r \in 1 .. n + Len(new)
        PROVE  \/ r \in 1 .. n /\ after.records[r] = store.records[r]
               \/ \E i \in 1 .. Len(new) : /\ r = n + i /\ ExistingId(after, new[i]) = r
                                           /\ after.records[r] = SingleUpload(new[i])
    <3>1. CASE r <= n
      <4>1. r \in 1 .. n
        BY <1>1, <2>2, <3>1
      <4> QED
        BY <2>1, <4>1
    <3>2. CASE ~(r <= n)
      <4>1. r - n \in 1 .. Len(new) /\ r = n + (r - n)
        BY <1>1, <2>2, <3>2
      <4> QED
        BY <2>1, <4>1
    <3> QED
      BY <3>1, <3>2
  <2>5. \A c \in Contents : /\ SingleUpload(c).contentHash = c
                            /\ StoredBytes(SingleUpload(c)) = c
    BY SingleUploadType
  <2>6. \A i \in 1 .. Len(new) : new[i] \in Contents
    BY <2>2
  <2>7. \A r \in 1 .. n : /\ store.records[r].contentHash \in Contents /\ r # 0
                          /\ ExistingId(store, store.records[r].contentHash) = r
    <3>1. \A r \in 1 .. n : store.records[r] \in Records
      BY <1>1
    <3>2. \A r \in 1 .. n : store.records[r].contentHash \in Contents
      BY <3>1 DEF Records
    <3>3. \A r \in 1 .. n : ExistingId(store, store.records[r].contentHash) = r
      BY <1>1 DEF Indexed, ExistingId
    <3>4. \A r \in 1 .. n : r # 0
      BY <1>1
    <3> QED
      BY <3>2, <3>3, <3>4
  <2>8. Indexed(after)
    <3>1. ASSUME NEW r \in 1 .. n + Len(new)
          PROVE  ExistingId(after, after.records[r].contentHash) = r
      BY <2>1, <2>4, <2>5, <2>6, <2>7
    <3>2. ASSUME NEW c \in Contents, ExistingId(after, c) # 0
          PROVE  /\ ExistingId(after, c) \in 1 .. n + Len(new)
                 /\ after.records[ExistingId(after, c)].contentHash = c
      <4>1. CASE ExistingId(store, c) # 0
        <5>1. /\ ExistingId(after, c) = ExistingId(store, c)
              /\ ExistingId(store, c) \in 1 .. n
              /\ store.records[ExistingId(store, c)].contentHash = c
          BY <1>1, <2>1, <4>1 DEF Indexed, Known
        <5>2. ExistingId(after, c) \in 1 .. n + Len(new)
          BY <1>1, <2>2, <5>1
        <5> QED
          BY <2>1, <5>1, <5>2
      <4>2. CASE ExistingId(store, c) = 0
        <5>1. PICK i \in 1 .. Len(new) : new[i] = c
          BY <2>1, <3>2, <4>2
        <5>2. n + i \in 1 .. n + Len(new)
          BY <1>1, <2>2
        <5> QED
          BY <2>1, <2>5, <5>1, <5>2
      <4> QED
        BY <4>1, <4>2
    <3> QED
      BY <2>3, <3>1, <3>2 DEF Indexed, ExistingId, Known
  <2>9. HoldsContent(after)
    <3> SUFFICES ASSUME NEW r \in 1 .. n + Len(new), after.records[r].finalized
                 PROVE  StoredBytes(after.records[r]) = after.records[r].contentHash
      BY <2>3 DEF HoldsContent
    <3>1. CASE r \in 1 .. n /\ after.records[r] = store.records[r]
      BY <1>1, <3>1 DEF HoldsContent
    <3>2. CASE \E i \in 1 .. Len(new) : after.records[r] = SingleUpload(new[i])
      BY <2>5, <2>6, <3>2
    <3> QED
      BY <2>4, <3>1, <3>2
  <2>10. Grows(store, after)
    <3>1. n <= Len(after.records)
      BY <1>1, <2>1, <2>2
    <3> QED
      <4>1. \A r \in 1 .. n : after.records[r] = store.records[r]
        BY <2>1
      <4>2. Len(store.records) = n
        BY DEF n
      <4> QED
        BY <1>1, <2>1, <3>1, <4>1, <4>2 DEF Grows
  <2> QED
    BY <2>1, <2>8, <2>9, <2>10 DEF StoreOK, after
<1> QED
  BY <1>2, <1>3
=============================================================================
