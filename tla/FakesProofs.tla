---------------------------- MODULE FakesProofs ----------------------------
(***************************************************************************)
(* Proofs about the channel doubles of Fakes: for scripts and datagrams of *)
(* any length, every script is played from its start and in its order, and *)
(* the two doubles implement the contracts of the transports they stand    *)
(* for.                                                                    *)
(*                                                                         *)
(* What a test double has received is the concatenation of its buffers, so *)
(* the proofs rest on facts about FlattenSeq, a recursive function.  They  *)
(* are proved by induction over sets (NatInduct, SeqInduct), each of which *)
(* follows from the well-foundedness of < on the naturals.                 *)
(***************************************************************************)
EXTENDS Fakes, SequenceTheorems, WellFoundedInduction, TLAPS

-----------------------------------------------------------------------------
(* Induction *)

\* Induction over the naturals, for a set instead of a predicate.
LEMMA NatInduct ==
  ASSUME NEW T \in SUBSET Nat, 0 \in T, \A n \in T : n + 1 \in T
  PROVE  T = Nat
<1> SUFFICES ASSUME Nat \ T # {} PROVE FALSE
  OBVIOUS
<1> DEFINE R == OpToRel(<, Nat)
<1>1. PICK m \in Nat \ T : \A k \in Nat \ T : ~(<<k, m>> \in R)
  <2>1. IsWellFoundedOn(R, Nat)
    BY NatLessThanWellFounded
  <2> HIDE DEF R
  <2> QED
    BY <2>1, WFMin
<1>2. m # 0 /\ m - 1 \in Nat /\ m - 1 < m
  OBVIOUS
<1>3. <<m - 1, m>> \in R
  BY <1>2 DEF OpToRel
<1>4. m - 1 \in T
  BY <1>1, <1>2, <1>3
<1> QED
  BY <1>2, <1>4

\* Induction over sequences, likewise.
LEMMA SeqInduct ==
  ASSUME NEW S, NEW T \in SUBSET Seq(S), <<>> \in T,
         \A s \in T, e \in S : Append(s, e) \in T
  PROVE  T = Seq(S)
<1> DEFINE L == {n \in Nat : \A s \in Seq(S) : Len(s) = n => s \in T}
<1>1. 0 \in L
  <2>1. \A s \in Seq(S) : Len(s) = 0 => s = <<>>
    BY EmptySeq
  <2> QED
    BY <2>1
<1>2. ASSUME NEW n \in L PROVE n + 1 \in L
  <2> SUFFICES ASSUME NEW s \in Seq(S), Len(s) = n + 1 PROVE s \in T
    OBVIOUS
  <2>1. s # <<>>
    BY EmptySeq
  <2>2. PICK t \in Seq(S), e \in S : s = Append(t, e)
    BY <2>1, SequenceEmptyOrAppend
  <2>3. Len(s) = Len(t) + 1 /\ Len(t) \in Nat
    BY <2>2, AppendProperties, LenProperties
  <2>4. Len(t) = n
    BY <2>3
  <2> QED
    BY <1>2, <2>2, <2>4
<1>3. L = Nat
  <2>1. L \in SUBSET Nat
    OBVIOUS
  <2> HIDE DEF L
  <2> QED
    BY <1>1, <1>2, <2>1, NatInduct
<1> QED
  BY <1>3, LenProperties

-----------------------------------------------------------------------------
\* The function FlattenSeq computes: the concatenation of the first i sequences.
Unrolls(s, f) == f = [i \in 1..Len(s) |-> IF i = 1 THEN s[i] ELSE f[i - 1] \o s[i]]

\* It exists ...
LEMMA UnrollExists ==
  ASSUME NEW S, NEW s \in Seq(S)
  PROVE  \E f : Unrolls(s, f)
<1> DEFINE T == {t \in Seq(S) : \E f : Unrolls(t, f)}
<1>1. <<>> \in T
  <2>1. Unrolls(<<>>, <<>>)
    BY DEF Unrolls
  <2> QED
    BY <2>1, EmptySeq
<1>2. ASSUME NEW t \in T, NEW e \in S PROVE Append(t, e) \in T
  <2>1. PICK f : Unrolls(t, f)
    OBVIOUS
  <2>2. PICK n \in Nat : n = Len(t)
    BY LenProperties
  <2>3. PICK u \in Seq(S) : u = Append(t, e)
    BY AppendProperties
  <2>4. Len(u) = n + 1 /\ (\A i \in 1..n : u[i] = t[i]) /\ u[n + 1] = e
    BY <2>2, <2>3, AppendProperties
  <2> DEFINE g == [i \in 1..(n + 1) |-> IF i \in 1..n THEN f[i]
                                        ELSE IF i = 1 THEN u[i] ELSE f[i - 1] \o u[i]]
  <2>5. ASSUME NEW i \in 1..(n + 1)
        PROVE  g[i] = IF i = 1 THEN u[i] ELSE g[i - 1] \o u[i]
    <3>1. CASE i \in 1..n
      <4>1. g[i] = f[i] /\ u[i] = t[i]
        BY <2>4, <3>1
      <4>2. f[i] = IF i = 1 THEN t[i] ELSE f[i - 1] \o t[i]
        BY <2>1, <2>2, <3>1 DEF Unrolls
      <4>3. i # 1 => i - 1 \in 1..n /\ i - 1 \in 1..(n + 1)
        BY <3>1
      <4>4. i # 1 => g[i - 1] = f[i - 1]
        BY <4>3
      <4> HIDE DEF g
      <4> QED
        BY <4>1, <4>2, <4>4
    <3>2. CASE i \notin 1..n
      <4>1. g[i] = IF i = 1 THEN u[i] ELSE f[i - 1] \o u[i]
        BY <3>2
      <4>2. i # 1 => i - 1 \in 1..n /\ i - 1 \in 1..(n + 1)
        BY <3>2
      <4>3. i # 1 => g[i - 1] = f[i - 1]
        BY <4>2
      <4> HIDE DEF g
      <4> QED
        BY <4>1, <4>3
    <3> QED
      BY <3>1, <3>2
  <2>6. g = [i \in 1..Len(u) |-> g[i]]
    BY <2>4
  <2> HIDE DEF g
  <2>7. Unrolls(u, g)
    <3>1. [i \in 1..Len(u) |-> g[i]] =
            [i \in 1..Len(u) |-> IF i = 1 THEN u[i] ELSE g[i - 1] \o u[i]]
      BY <2>4, <2>5, Zenon
    <3> QED
      BY <2>6, <3>1, Zenon DEF Unrolls
  <2> QED
    BY <2>3, <2>7
<1>3. T = Seq(S)
  <2>1. T \in SUBSET Seq(S)
    OBVIOUS
  <2> HIDE DEF T
  <2> QED
    BY <1>1, <1>2, <2>1, SeqInduct
<1> QED
  BY <1>3

\* ... and it is unique.
LEMMA UnrollUnique ==
  ASSUME NEW s, Len(s) \in Nat, NEW f, NEW g, Unrolls(s, f), Unrolls(s, g)
  PROVE  f = g
<1> DEFINE T == {n \in Nat : n + 1 \in 1..Len(s) => f[n + 1] = g[n + 1]}
<1>0. PICK n \in Nat : n = Len(s)
  OBVIOUS
<1>1. ASSUME NEW i \in 1..n
      PROVE  /\ f[i] = IF i = 1 THEN s[i] ELSE f[i - 1] \o s[i]
             /\ g[i] = IF i = 1 THEN s[i] ELSE g[i - 1] \o s[i]
  BY <1>0 DEF Unrolls
<1>2. 0 \in T
  <2>1. 1 \in 1..n => f[1] = g[1]
    BY <1>1
  <2> QED
    BY <1>0, <2>1
<1>3. ASSUME NEW k \in T PROVE k + 1 \in T
  <2> SUFFICES ASSUME k + 2 \in 1..n PROVE f[k + 2] = g[k + 2]
    BY <1>0
  <2>1. f[k + 1] = g[k + 1]
    BY <1>0
  <2>2. k + 2 # 1 /\ (k + 2) - 1 = k + 1
    OBVIOUS
  <2>3. f[k + 2] = f[k + 1] \o s[k + 2] /\ g[k + 2] = g[k + 1] \o s[k + 2]
    <3>1. PICK i \in 1..n : i = k + 2 /\ i # 1 /\ i - 1 = k + 1
      BY <2>2
    <3>2. f[i] = f[i - 1] \o s[i] /\ g[i] = g[i - 1] \o s[i]
      BY <1>1, <3>1
    <3> QED
      BY <3>1, <3>2, Zenon
  <2> QED
    BY <2>1, <2>3, Zenon
<1>4. T = Nat
  <2>1. T \in SUBSET Nat
    OBVIOUS
  <2> HIDE DEF T
  <2> QED
    BY <1>2, <1>3, <2>1, NatInduct
<1>5. ASSUME NEW i \in 1..n PROVE f[i] = g[i]
  <2>1. PICK k \in Nat : k + 1 = i
    <3>1. i - 1 \in Nat /\ (i - 1) + 1 = i
      OBVIOUS
    <3> QED
      BY <3>1
  <2>2. k \in T
    BY <1>4
  <2> QED
    BY <2>1, <2>2, <1>0
<1>6. f = [i \in 1..n |-> f[i]] /\ g = [i \in 1..n |-> g[i]]
  BY <1>0 DEF Unrolls
<1> HIDE DEF T
<1> QED
  BY <1>5, <1>6, Zenon

\* What FlattenSeq returns.
LEMMA FlattenIs ==
  ASSUME NEW S, NEW s \in Seq(S), s # <<>>, NEW f, Unrolls(s, f)
  PROVE  FlattenSeq(s) = f[Len(s)]
<1>1. Len(s) # 0 /\ Len(s) \in Nat
  BY EmptySeq, LenProperties
<1>2. PICK h : h = CHOOSE g : g = [i \in 1..Len(s) |-> IF i = 1 THEN s[i] ELSE g[i - 1] \o s[i]]
  OBVIOUS
<1>3. Unrolls(s, h)
  BY <1>2 DEF Unrolls
<1>4. FlattenSeq(s) = h[Len(s)]
  BY <1>1, <1>2, Zenon DEF FlattenSeq
<1>5. h = f
  BY <1>1, <1>3, UnrollUnique
<1> QED
  BY <1>4, <1>5

\* FlattenSeq of nothing.
LEMMA FlattenEmpty == FlattenSeq(<<>>) = <<>>
<1>1. Len(<<>>) = 0
  OBVIOUS
<1> QED
  BY <1>1, Zenon DEF FlattenSeq

\* FlattenSeq, one sequence longer.
LEMMA FlattenAppend ==
  ASSUME NEW S, NEW s \in Seq(Seq(S)), NEW c \in Seq(S)
  PROVE  FlattenSeq(Append(s, c)) = FlattenSeq(s) \o c
<1>1. PICK u \in Seq(Seq(S)) : u = Append(s, c)
  BY AppendProperties
<1>2. PICK n \in Nat : n = Len(s)
  BY LenProperties
<1>3. Len(u) = n + 1 /\ (\A i \in 1..n : u[i] = s[i]) /\ u[n + 1] = c /\ u # <<>>
  BY <1>1, <1>2, AppendProperties
<1>4. PICK f : Unrolls(u, f)
  BY UnrollExists
<1>5. FlattenSeq(u) = f[n + 1]
  BY <1>3, <1>4, FlattenIs
<1>6. ASSUME NEW i \in 1..(n + 1)
      PROVE  f[i] = IF i = 1 THEN u[i] ELSE f[i - 1] \o u[i]
  BY <1>3, <1>4 DEF Unrolls
<1>7. CASE n = 0
  <2>1. s = <<>>
    BY <1>2, <1>7, EmptySeq
  <2>2. f[n + 1] = u[n + 1]
    BY <1>6, <1>7
  <2>3. FlattenSeq(s) \o c = c
    BY <2>1, FlattenEmpty, ConcatEmptySeq
  <2> QED
    BY <1>1, <1>3, <1>5, <2>2, <2>3, Zenon
<1>8. CASE n # 0
  <2>1. s # <<>>
    BY <1>2, <1>8
  <2> DEFINE g == [i \in 1..n |-> f[i]]
  <2>2. ASSUME NEW i \in 1..n
        PROVE  f[i] = IF i = 1 THEN s[i] ELSE g[i - 1] \o s[i]
    <3>1. i \in 1..(n + 1) /\ u[i] = s[i] /\ (i # 1 => i - 1 \in 1..n)
      BY <1>3
    <3>2. i # 1 => g[i - 1] = f[i - 1]
      BY <3>1
    <3>3. f[i] = IF i = 1 THEN u[i] ELSE f[i - 1] \o u[i]
      BY <1>6, <3>1
    <3> HIDE DEF g
    <3> QED
      BY <3>1, <3>2, <3>3, Zenon
  <2>3. Unrolls(s, g)
    <3>1. [i \in 1..n |-> f[i]] = [i \in 1..n |-> IF i = 1 THEN s[i] ELSE g[i - 1] \o s[i]]
      BY <2>2, Zenon
    <3> QED
      BY <3>1, <1>2, Zenon DEF Unrolls
  <2>4. FlattenSeq(s) = g[n]
    BY <1>2, <2>1, <2>3, FlattenIs
  <2>5. n \in 1..n /\ n + 1 \in 1..(n + 1) /\ n + 1 # 1 /\ (n + 1) - 1 = n
    BY <1>8
  <2>6. g[n] = f[n]
    BY <2>5
  <2>7. f[n + 1] = f[n] \o u[n + 1]
    <3>1. PICK i \in 1..(n + 1) : i = n + 1 /\ i # 1 /\ i - 1 = n
      BY <2>5
    <3>2. f[i] = f[i - 1] \o u[i]
      BY <1>6, <3>1
    <3> QED
      BY <3>1, <3>2, Zenon
  <2> HIDE DEF g
  <2> QED
    BY <1>1, <1>3, <1>5, <2>4, <2>6, <2>7, Zenon
<1> QED
  BY <1>7, <1>8

\* FlattenSeq returns a sequence of the elements' elements.
LEMMA FlattenType ==
  ASSUME NEW S, NEW s \in Seq(Seq(S))
  PROVE  FlattenSeq(s) \in Seq(S)
<1> DEFINE T == {t \in Seq(Seq(S)) : FlattenSeq(t) \in Seq(S)}
<1>1. <<>> \in T
  BY FlattenEmpty, EmptySeq
<1>2. ASSUME NEW t \in T, NEW e \in Seq(S) PROVE Append(t, e) \in T
  <2>1. FlattenSeq(Append(t, e)) = FlattenSeq(t) \o e
    BY FlattenAppend
  <2>2. FlattenSeq(t) \o e \in Seq(S)
    BY ConcatProperties
  <2>3. Append(t, e) \in Seq(Seq(S))
    BY AppendProperties
  <2> QED
    BY <2>1, <2>2, <2>3
<1>3. T = Seq(Seq(S))
  <2>1. T \in SUBSET Seq(Seq(S))
    OBVIOUS
  <2> HIDE DEF T
  <2> QED
    BY <1>1, <1>2, <2>1, SeqInduct
<1> QED
  BY <1>3

\* FlattenSeq with one sequence in front.
LEMMA FlattenCons ==
  ASSUME NEW S, NEW c \in Seq(S), NEW s \in Seq(Seq(S))
  PROVE  FlattenSeq(<<c>> \o s) = c \o FlattenSeq(s)
<1> DEFINE T == {t \in Seq(Seq(S)) : FlattenSeq(<<c>> \o t) = c \o FlattenSeq(t)}
<1>0. <<c>> \in Seq(Seq(S)) /\ <<>> \in Seq(Seq(S)) /\ <<c>> = Append(<<>>, c)
  BY EmptySeq
<1>1. <<>> \in T
  <2>1. <<c>> \o <<>> = Append(<<>>, c)
    BY <1>0, ConcatEmptySeq
  <2>2. FlattenSeq(Append(<<>>, c)) = FlattenSeq(<<>>) \o c
    BY <1>0, FlattenAppend
  <2>3. FlattenSeq(<<>>) \o c = c \o FlattenSeq(<<>>)
    BY FlattenEmpty, ConcatEmptySeq
  <2> QED
    BY <1>0, <2>1, <2>2, <2>3
<1>2. ASSUME NEW t \in T, NEW e \in Seq(S) PROVE Append(t, e) \in T
  <2>1. <<c>> \o Append(t, e) = Append(<<c>> \o t, e)
    <3>1. <<e>> \in Seq(Seq(S)) /\ <<c>> \o t \in Seq(Seq(S))
      BY <1>0, ConcatProperties
    <3>2. Append(t, e) = t \o <<e>> /\ Append(<<c>> \o t, e) = (<<c>> \o t) \o <<e>>
      BY <3>1, AppendIsConcat
    <3> QED
      BY <1>0, <3>1, <3>2, ConcatAssociative, SMTT(60)
  <2>2. <<c>> \o t \in Seq(Seq(S)) /\ FlattenSeq(t) \in Seq(S)
    BY <1>0, ConcatProperties, FlattenType
  <2>3. FlattenSeq(Append(<<c>> \o t, e)) = FlattenSeq(<<c>> \o t) \o e
    BY <2>2, FlattenAppend
  <2>4. FlattenSeq(Append(t, e)) = FlattenSeq(t) \o e
    BY FlattenAppend
  <2>5. (c \o FlattenSeq(t)) \o e = c \o (FlattenSeq(t) \o e)
    BY <2>2, ConcatAssociative, SMTT(60)
  <2>6. Append(t, e) \in Seq(Seq(S))
    BY AppendProperties
  <2> QED
    BY <2>1, <2>3, <2>4, <2>5, <2>6
<1>3. T = Seq(Seq(S))
  <2>1. T \in SUBSET Seq(Seq(S))
    OBVIOUS
  <2> HIDE DEF T
  <2> QED
    BY <1>1, <1>2, <2>1, SeqInduct
<1> QED
  BY <1>3

-----------------------------------------------------------------------------
(* Sequences of chunks *)

\* A scripted chunk or datagram.
Chunk == {c \in Seq(Byte) : Len(c) <= MaxSize}

\* A sequence of chunks is one of sequences of bytes.
LEMMA ChunksAreBytes ==
  ASSUME NEW s \in Seq(Chunk)
  PROVE  s \in Seq(Seq(Byte))
<1>1. Chunk \subseteq Seq(Byte)
  BY DEF Chunk
<1> QED
  BY <1>1, SeqMonotonic

\* A sequence is its head followed by its tail.
LEMMA HeadAndTail ==
  ASSUME NEW S, NEW s \in Seq(S), s # <<>>
  PROVE  s = <<Head(s)>> \o Tail(s) /\ Head(s) \in S /\ Tail(s) \in Seq(S)
<1>1. PICK n \in Nat : n = Len(s) /\ n # 0
  BY EmptySeq
<1>2. SubSeq(s, 1, n) = <<s[1]>> \o SubSeq(s, 2, n)
  <2>1. 1 \in 1..Len(s) /\ n \in 1..Len(s)
    BY <1>1
  <2>2. SubSeq(s, 1, n) = <<s[1]>> \o SubSeq(s, 1 + 1, n)
    BY <2>1, SubSeqRecursiveFirst
  <2> QED
    BY <2>2
<1>3. SubSeq(s, 1, n) = s /\ SubSeq(s, 2, n) = Tail(s)
  BY <1>1, SubSeqFull, TailIsSubSeq
<1>4. Head(s) = s[1]
  OBVIOUS
<1> QED
  BY <1>2, <1>3, <1>4, HeadTailProperties

\* The chunk the test scripts.
LEMMA ScriptedChunk ==
  ASSUME NEW w \in Nat, NEW n \in 0..MaxSize
  PROVE  Bytes(w, 0, n) \in Chunk /\ Len(Bytes(w, 0, n)) = n
<1>0. MaxSize \in Nat /\ n \in Nat /\ n <= MaxSize
  BY FakesAssumption
<1>1. \A i \in 1..n : <<w, 0 + i>> \in Byte
  BY <1>0 DEF Byte
<1>2. Bytes(w, 0, n) \in [1..n -> Byte]
  BY <1>1, <1>0 DEF Bytes
<1>3. Bytes(w, 0, n) \in Seq(Byte) /\ Len(Bytes(w, 0, n)) = n
  BY <1>0, <1>2
<1> QED
  BY <1>0, <1>3 DEF Chunk

\* A chunk in two parts, in front of the others.
LEMMA ChunkSplit ==
  ASSUME NEW b \in Seq(Byte), NEW r \in Seq(Byte), NEW t \in Seq(Seq(Byte))
  PROVE  FlattenSeq(<<b \o r>> \o t) = b \o FlattenSeq(<<r>> \o t)
<1>1. PICK f \in Seq(Byte) : f = FlattenSeq(t)
  BY FlattenType
<1>2. FlattenSeq(<<r>> \o t) = r \o f
  BY <1>1, FlattenCons
<1>3. PICK c \in Seq(Byte) : c = b \o r
  BY ConcatProperties
<1>4. FlattenSeq(<<c>> \o t) = c \o f
  BY <1>1, FlattenCons
<1>5. (b \o r) \o f = b \o (r \o f)
  BY ConcatAssociative, SMTT(60)
<1> QED
  BY <1>2, <1>3, <1>4, <1>5

\* A chunk cut after count bytes.
LEMMA ChunkCut ==
  ASSUME NEW c \in Chunk, NEW count \in 0..Len(c)
  PROVE  /\ SubSeq(c, 1, count) \in Seq(Byte) /\ Len(SubSeq(c, 1, count)) = count
         /\ SubSeq(c, count + 1, Len(c)) \in Chunk
         /\ SubSeq(c, 1, count) \o SubSeq(c, count + 1, Len(c)) = c
<1>1. c \in Seq(Byte) /\ Len(c) \in Nat /\ Len(c) <= MaxSize
  BY LenProperties DEF Chunk
<1>2. count \in Nat /\ count <= Len(c) /\ MaxSize \in Nat
  BY <1>1, FakesAssumption
<1>3. SubSeq(c, 1, count) \in Seq(Byte) /\ Len(SubSeq(c, 1, count)) = count
  <2>1. \A i \in 1..count : c[i] \in Byte
    BY <1>1, <1>2, ElementOfSeq
  <2>2. SubSeq(c, 1, count) \in Seq(Byte)
    BY <2>1, <1>2, SubSeqProperties
  <2>3. Len(SubSeq(c, 1, count)) = IF 1 <= count THEN count - 1 + 1 ELSE 0
    BY <2>1, <1>2, SubSeqProperties
  <2>4. Len(SubSeq(c, 1, count)) = count
    BY <1>2, <2>3
  <2> QED
    BY <2>2, <2>4
<1>4. SubSeq(c, count + 1, Len(c)) \in Chunk
  <2>1. \A i \in (count + 1)..Len(c) : c[i] \in Byte
    BY <1>1, <1>2, ElementOfSeq
  <2>2. SubSeq(c, count + 1, Len(c)) \in Seq(Byte)
    BY <1>1, <1>2, <2>1, SubSeqProperties
  <2>3. Len(SubSeq(c, count + 1, Len(c))) =
          IF count + 1 <= Len(c) THEN Len(c) - (count + 1) + 1 ELSE 0
    BY <1>1, <1>2, <2>1, SubSeqProperties
  <2>4. Len(SubSeq(c, count + 1, Len(c))) <= MaxSize
    BY <1>1, <1>2, <2>3
  <2> QED
    BY <2>2, <2>4 DEF Chunk
<1>5. SubSeq(c, 1, count) \o SubSeq(c, count + 1, Len(c)) = SubSeq(c, 1, Len(c))
  <2>1. 1 \in 1..(Len(c) + 1) /\ count \in (1 - 1)..Len(c) /\ Len(c) \in count..Len(c)
    BY <1>1, <1>2
  <2> QED
    BY <1>1, <2>1, ConcatAdjacentSubSeq
<1>6. SubSeq(c, 1, Len(c)) = c
  BY <1>1, SubSeqFull
<1> QED
  BY <1>3, <1>4, <1>5, <1>6

\* The chunks that ReadSome leaves still hold everything it did not copy.
LEMMA RestKeeps ==
  ASSUME incoming \in Seq(Chunk), incoming # <<>>, NEW count \in 0..Len(Head(incoming))
  PROVE  /\ Rest(count) \in Seq(Chunk)
         /\ SubSeq(Head(incoming), 1, count) \in Seq(Byte)
         /\ Len(SubSeq(Head(incoming), 1, count)) = count
         /\ FlattenSeq(incoming) =
              SubSeq(Head(incoming), 1, count) \o FlattenSeq(Rest(count))
<1>1. PICK c \in Chunk, t \in Seq(Chunk) :
        c = Head(incoming) /\ t = Tail(incoming) /\ incoming = <<c>> \o t
  BY HeadAndTail
<1>2. c \in Seq(Byte) /\ t \in Seq(Seq(Byte)) /\ FlattenSeq(t) \in Seq(Byte)
  BY ChunksAreBytes, FlattenType DEF Chunk
<1>3. count \in 0..Len(c)
  BY <1>1
<1>4. PICK b \in Seq(Byte) : b = SubSeq(c, 1, count) /\ Len(b) = count
  BY <1>3, ChunkCut
<1>5. CASE count = Len(c)
  <2>1. Rest(count) = t
    BY <1>1, <1>5 DEF Rest
  <2>2. b = c
    BY <1>2, <1>4, <1>5, SubSeqFull
  <2>3. FlattenSeq(incoming) = c \o FlattenSeq(t)
    BY <1>1, <1>2, FlattenCons
  <2> QED
    BY <1>1, <1>4, <2>1, <2>2, <2>3
<1>6. CASE count # Len(c)
  <2>1. PICK r \in Chunk : r = SubSeq(c, count + 1, Len(c)) /\ b \o r = c
    BY <1>3, <1>4, ChunkCut
  <2>2. Rest(count) = <<r>> \o t
    BY <1>1, <1>6, <2>1 DEF Rest
  <2>3. Rest(count) \in Seq(Chunk)
    <3>1. <<r>> \in Seq(Chunk)
      OBVIOUS
    <3> QED
      BY <2>2, <3>1, ConcatProperties
  <2>4. r \in Seq(Byte)
    BY DEF Chunk
  <2>5. FlattenSeq(<<b \o r>> \o t) = b \o FlattenSeq(<<r>> \o t)
    BY <1>2, <2>4, ChunkSplit
  <2> QED
    BY <1>1, <1>4, <2>1, <2>2, <2>3, <2>5
<1> QED
  BY <1>5, <1>6

-----------------------------------------------------------------------------
(* The inductive invariant *)

\* Types of the members and of the history.
TypeOK ==
  /\ kind \in {"stream", "datagram"}
  /\ open_ \in BOOLEAN
  /\ incoming \in Seq(Chunk) /\ scripts \in Seq(Chunk)
  /\ captured \in Seq(0..MaxSize)
  /\ nextInput \in ReadStatuses \cup {"Ok"} /\ nextOutput \in WriteStatuses \cup {"Ok"}
  /\ got \in Seq(IF kind = "stream" THEN Byte ELSE Chunk)
  /\ started \in [got : Nat, captured : Nat]

\* What is older than the session is a part of the whole.
SessionOK ==
  /\ started.got <= Len(got)
  /\ started.captured <= Len(captured) /\ Len(captured) <= MaxWrites

IInv == TypeOK /\ SessionOK /\ ScriptPlayed

\* The invariant holds at the start.
LEMMA InitInv == Init => IInv
<1> SUFFICES ASSUME Init PROVE IInv
  OBVIOUS
<1>1. TypeOK
  BY EmptySeq DEF Init, TypeOK
<1>2. SessionOK
  BY EmptySeq, FakesAssumption DEF Init, SessionOK
<1>3. ScriptPlayed
  <2>1. <<>> \o <<>> = <<>>
    BY ConcatEmptySeq, EmptySeq
  <2> QED
    BY <2>1, FlattenEmpty DEF Init, ScriptPlayed
<1> QED
  BY <1>1, <1>2, <1>3 DEF IInv

\* The lengths, as numbers.
LEMMA Lengths ==
  ASSUME TypeOK
  PROVE  /\ Len(got) \in Nat /\ Len(captured) \in Nat /\ Len(incoming) \in Nat
         /\ Len(scripts) \in Nat
         /\ started.got \in Nat /\ started.captured \in Nat
         /\ started = [got |-> started.got, captured |-> started.captured]
         /\ MaxSize \in Nat /\ MaxWrites \in Nat
<1>1. Len(got) \in Nat
  <2>1. PICK S : got \in Seq(S)
    BY DEF TypeOK
  <2> QED
    BY <2>1, LenProperties
<1>2. Len(captured) \in Nat /\ Len(incoming) \in Nat /\ Len(scripts) \in Nat
  BY LenProperties DEF TypeOK
<1> QED
  BY <1>1, <1>2, FakesAssumption DEF TypeOK

\* A step that touches neither the script nor what was handed over.
LEMMA Unplayed ==
  ASSUME IInv, UNCHANGED <<kind, incoming, scripts, got>>
  PROVE  ScriptPlayed'
  BY Zenon DEF IInv, ScriptPlayed

\* Open and Close.
LEMMA OpenCloseInv ==
  ASSUME IInv, Open \/ Close
  PROVE  IInv'
<1> USE DEF IInv
<1>1. CASE Open
  <2>1. TypeOK'
    <3>1. started' \in [got : Nat, captured : Nat]
      BY <1>1, Lengths DEF Open, TypeOK
    <3> QED
      BY <1>1, <3>1 DEF Open, TypeOK
  <2>2. SessionOK'
    BY <1>1, Lengths DEF Open, SessionOK
  <2>3. ScriptPlayed'
    BY <1>1, Unplayed DEF Open
  <2> QED
    BY <2>1, <2>2, <2>3
<1>2. CASE Close
  <2>1. TypeOK' /\ SessionOK'
    BY <1>2 DEF Close, TypeOK, SessionOK, history
  <2>2. ScriptPlayed'
    BY <1>2, Unplayed DEF Close, history
  <2> QED
    BY <2>1, <2>2
<1> QED
  BY <1>1, <1>2

\* Reset.
LEMMA ResetInv ==
  ASSUME IInv, Reset
  PROVE  IInv'
<1>1. TypeOK'
  BY EmptySeq DEF IInv, Reset, TypeOK
<1>2. SessionOK'
  BY EmptySeq, FakesAssumption DEF Reset, SessionOK
<1>3. ScriptPlayed'
  <2>1. <<>> \o <<>> = <<>>
    BY ConcatEmptySeq, EmptySeq
  <2>2. incoming' = <<>> /\ scripts' = <<>> /\ got' = <<>>
    BY DEF Reset
  <2> QED
    BY <2>1, <2>2, FlattenEmpty DEF ScriptPlayed
<1> QED
  BY <1>1, <1>2, <1>3 DEF IInv

\* A call that is refused or finds nothing.
LEMMA RefusedInv ==
  ASSUME IInv, NEW op, NEW size, NEW invalid \in BOOLEAN,
         RefusedInput(op, invalid) \/ RefusedOutput(op, size, invalid) \/ Empty(op)
  PROVE  IInv'
<1>1. UNCHANGED <<kind, open_, incoming, captured, scripts, got, started>>
  BY DEF RefusedInput, RefusedOutput, Empty, history, double
<1>2. nextInput' \in {"Ok", nextInput} /\ nextOutput' \in {"Ok", nextOutput}
  BY DEF RefusedInput, RefusedOutput, Empty, history, double
<1>3. TypeOK' /\ SessionOK'
  BY <1>1, <1>2 DEF IInv, TypeOK, SessionOK
<1>4. ScriptPlayed'
  BY <1>1, Unplayed
<1> QED
  BY <1>3, <1>4 DEF IInv

\* A buffer is captured.
LEMMA CaptureInv ==
  ASSUME IInv, NEW op, NEW size \in WriteSizes, Capture(op, size)
  PROVE  IInv'
<1>1. size \in 0..MaxSize
  BY FakesAssumption
<1>2. captured' \in Seq(0..MaxSize) /\ Len(captured') = Len(captured) + 1
  BY <1>1, AppendProperties DEF IInv, TypeOK, Capture
<1>3. TypeOK'
  BY <1>2 DEF IInv, TypeOK, Capture, history
<1>4. SessionOK'
  BY <1>2, Lengths DEF IInv, SessionOK, Capture, history
<1>5. ScriptPlayed'
  BY Unplayed DEF Capture, history
<1> QED
  BY <1>3, <1>4, <1>5 DEF IInv

\* How many bytes ReadSome copies, and what it changes.
LEMMA ReadChunkIs ==
  ASSUME IInv, kind = "stream", NEW n \in 0..MaxSize, ReadChunk(n)
  PROVE  \E count \in 0..n :
           /\ incoming' \in Seq(Chunk)
           /\ got \in Seq(Byte) /\ got' \in Seq(Byte) /\ Len(got') = Len(got) + count
           /\ got' \o FlattenSeq(incoming') = got \o FlattenSeq(incoming)
           /\ ret' = Result("ReadSome", "Ok", count)
           /\ UNCHANGED <<kind, open_, captured, nextInput, nextOutput, scripts, started>>
<1>0. PICK count : count = IF n < Len(Head(incoming)) THEN n ELSE Len(Head(incoming))
  OBVIOUS
<1>1. /\ incoming # <<>>
      /\ got' = got \o SubSeq(Head(incoming), 1, count)
      /\ incoming' = Rest(count)
      /\ ret' = Result("ReadSome", "Ok", count)
      /\ UNCHANGED <<kind, open_, captured, nextInput, nextOutput, scripts, started>>
  BY <1>0 DEF ReadChunk
<1>2. incoming \in Seq(Chunk) /\ got \in Seq(Byte) /\ MaxSize \in Nat
  BY FakesAssumption DEF IInv, TypeOK
<1>3. Len(Head(incoming)) \in Nat
  <2>1. Head(incoming) \in Chunk
    BY <1>1, <1>2, HeadAndTail
  <2> QED
    BY <2>1, LenProperties DEF Chunk
<1>4. count \in 0..n /\ count \in 0..Len(Head(incoming))
  BY <1>0, <1>2, <1>3
<1>5. PICK b \in Seq(Byte) : b = SubSeq(Head(incoming), 1, count)
  BY <1>1, <1>2, <1>4, RestKeeps
<1>6. /\ incoming' \in Seq(Chunk) /\ Len(b) = count
      /\ FlattenSeq(incoming) = b \o FlattenSeq(incoming')
  BY <1>1, <1>2, <1>4, <1>5, RestKeeps
<1>7. got' = got \o b
  BY <1>1, <1>5
<1>8. got' \in Seq(Byte) /\ Len(got') = Len(got) + count
  BY <1>2, <1>6, <1>7, ConcatProperties
<1>9. got' \o FlattenSeq(incoming') = got \o FlattenSeq(incoming)
  <2>1. PICK f \in Seq(Byte) : f = FlattenSeq(incoming')
    BY <1>6, ChunksAreBytes, FlattenType
  <2>2. (got \o b) \o f = got \o (b \o f)
    BY <1>2, ConcatAssociative, SMTT(60)
  <2> QED
    BY <1>6, <1>7, <2>1, <2>2
<1> QED
  BY <1>1, <1>2, <1>4, <1>6, <1>8, <1>9

\* ... so the invariant is preserved by it.
LEMMA ReadChunkInv ==
  ASSUME IInv, kind = "stream", NEW n \in 0..MaxSize, ReadChunk(n)
  PROVE  IInv'
<1>1. PICK count \in 0..n :
        /\ incoming' \in Seq(Chunk)
        /\ got' \in Seq(Byte) /\ Len(got') = Len(got) + count
        /\ got' \o FlattenSeq(incoming') = got \o FlattenSeq(incoming)
        /\ UNCHANGED <<kind, open_, captured, nextInput, nextOutput, scripts, started>>
  BY ReadChunkIs
<1>2. TypeOK'
  BY <1>1 DEF IInv, TypeOK
<1>3. SessionOK'
  BY <1>1, Lengths DEF IInv, SessionOK
<1>4. ScriptPlayed'
  BY <1>1, Zenon DEF IInv, ScriptPlayed
<1> QED
  BY <1>2, <1>3, <1>4 DEF IInv

\* A datagram is handed over or left.
LEMMA ReceiveDatagramInv ==
  ASSUME IInv, kind = "datagram", NEW n \in 0..MaxSize, ReceiveDatagram(n)
  PROVE  IInv'
<1>1. /\ incoming # <<>> /\ incoming \in Seq(Chunk) /\ got \in Seq(Chunk)
      /\ got \o incoming = scripts
      /\ UNCHANGED <<kind, open_, captured, nextInput, nextOutput, scripts, started>>
  BY DEF IInv, TypeOK, ScriptPlayed, ReceiveDatagram
<1>2. PICK c \in Chunk, t \in Seq(Chunk) :
        c = Head(incoming) /\ t = Tail(incoming) /\ incoming = <<c>> \o t
  BY <1>1, HeadAndTail
<1>3. CASE n < Len(c)
  <2>1. UNCHANGED <<incoming, got>>
    BY <1>2, <1>3 DEF ReceiveDatagram
  <2>2. TypeOK' /\ SessionOK'
    BY <1>1, <2>1 DEF IInv, TypeOK, SessionOK
  <2>3. ScriptPlayed'
    BY <1>1, <2>1, Unplayed
  <2> QED
    BY <2>2, <2>3 DEF IInv
<1>4. CASE ~(n < Len(c))
  <2>1. got' = Append(got, c) /\ incoming' = t
    BY <1>2, <1>4 DEF ReceiveDatagram
  <2>2. got' \in Seq(Chunk) /\ Len(got') = Len(got) + 1
    BY <1>1, <2>1, AppendProperties
  <2>3. TypeOK'
    BY <1>1, <2>1, <2>2 DEF IInv, TypeOK
  <2>4. SessionOK'
    BY <1>1, <2>2, Lengths DEF IInv, SessionOK
  <2>5. got' \o incoming' = scripts
    <3>1. got' = got \o <<c>> /\ <<c>> \in Seq(Chunk)
      BY <1>1, <2>1, AppendIsConcat
    <3>2. (got \o <<c>>) \o t = got \o (<<c>> \o t)
      BY <1>1, <3>1, ConcatAssociative, SMTT(60)
    <3> QED
      BY <1>1, <1>2, <2>1, <3>1, <3>2
  <2>6. ScriptPlayed'
    BY <1>1, <2>5 DEF ScriptPlayed
  <2> QED
    BY <2>3, <2>4, <2>6 DEF IInv
<1> QED
  BY <1>3, <1>4

\* What scripting a chunk changes.
LEMMA ScriptIs ==
  ASSUME IInv, NEW n \in 0..MaxSize, Script(n)
  PROVE  \E c \in Chunk :
           /\ incoming' = Append(incoming, c) /\ scripts' = Append(scripts, c)
           /\ Len(c) = n
           /\ FlattenSeq(incoming') = FlattenSeq(incoming) \o c
           /\ FlattenSeq(scripts') = FlattenSeq(scripts) \o c
<1>1. PICK w \in Nat : w = Len(scripts) + 1
  BY Lengths DEF IInv
<1>2. PICK c \in Chunk : c = Bytes(w, 0, n) /\ Len(c) = n
  BY ScriptedChunk
<1>3. incoming' = Append(incoming, c) /\ scripts' = Append(scripts, c)
  BY <1>1, <1>2, Zenon DEF Script
<1>4. c \in Seq(Byte) /\ incoming \in Seq(Seq(Byte)) /\ scripts \in Seq(Seq(Byte))
  BY ChunksAreBytes DEF Chunk, IInv, TypeOK
<1>5. /\ FlattenSeq(Append(incoming, c)) = FlattenSeq(incoming) \o c
      /\ FlattenSeq(Append(scripts, c)) = FlattenSeq(scripts) \o c
  BY <1>4, FlattenAppend
<1> QED
  BY <1>2, <1>3, <1>5

\* The test scripts a chunk.
LEMMA ScriptInv ==
  ASSUME IInv, NEW n \in 0..MaxSize, Script(n)
  PROVE  IInv'
<1>1. PICK c \in Chunk :
        /\ incoming' = Append(incoming, c) /\ scripts' = Append(scripts, c)
        /\ FlattenSeq(incoming') = FlattenSeq(incoming) \o c
        /\ FlattenSeq(scripts') = FlattenSeq(scripts) \o c
  BY ScriptIs
<1>2. UNCHANGED <<kind, open_, captured, nextInput, nextOutput, got, started>>
  BY DEF Script
<1>3. incoming \in Seq(Chunk) /\ scripts \in Seq(Chunk)
  BY DEF IInv, TypeOK
<1>4. incoming' \in Seq(Chunk) /\ scripts' \in Seq(Chunk)
  BY <1>1, <1>3, AppendProperties
<1>5. TypeOK' /\ SessionOK'
  BY <1>2, <1>4 DEF IInv, TypeOK, SessionOK
<1>6. CASE kind = "stream"
  <2>1. got \in Seq(Byte) /\ c \in Seq(Byte) /\ got \o FlattenSeq(incoming) = FlattenSeq(scripts)
    BY <1>6 DEF IInv, TypeOK, ScriptPlayed, Chunk
  <2>2. PICK f \in Seq(Byte) : f = FlattenSeq(incoming)
    BY <1>3, ChunksAreBytes, FlattenType
  <2>3. (got \o f) \o c = got \o (f \o c)
    BY <2>1, ConcatAssociative, SMTT(60)
  <2>4. got' \o FlattenSeq(incoming') = FlattenSeq(scripts')
    BY <1>1, <1>2, <2>1, <2>2, <2>3
  <2> QED
    BY <1>2, <1>5, <1>6, <2>4 DEF IInv, ScriptPlayed
<1>7. CASE kind = "datagram"
  <2>1. got \in Seq(Chunk) /\ got \o incoming = scripts
    BY <1>7 DEF IInv, TypeOK, ScriptPlayed
  <2>2. /\ <<c>> \in Seq(Chunk)
        /\ Append(incoming, c) = incoming \o <<c>> /\ Append(scripts, c) = scripts \o <<c>>
    BY <1>3, AppendIsConcat
  <2>3. (got \o incoming) \o <<c>> = got \o (incoming \o <<c>>)
    BY <1>3, <2>1, <2>2, ConcatAssociative, SMTT(60)
  <2>4. got' \o incoming' = scripts'
    BY <1>1, <1>2, <2>1, <2>2, <2>3
  <2> QED
    BY <1>2, <1>5, <1>7, <2>4 DEF IInv, ScriptPlayed
<1> QED
  BY <1>6, <1>7 DEF IInv, TypeOK

\* The test scripts a status.
LEMMA ScriptNextInv ==
  ASSUME IInv, ScriptNextInput \/ ScriptNextOutput
  PROVE  IInv'
<1>1. UNCHANGED <<kind, open_, incoming, captured, scripts, got, started>>
  BY DEF ScriptNextInput, ScriptNextOutput, history
<1>2. /\ nextInput' \in ReadStatuses \cup {"Ok"} /\ nextOutput' \in WriteStatuses \cup {"Ok"}
  BY DEF IInv, TypeOK, ScriptNextInput, ScriptNextOutput
<1>3. TypeOK' /\ SessionOK'
  BY <1>1, <1>2 DEF IInv, TypeOK, SessionOK
<1> QED
  BY <1>1, <1>3, Unplayed DEF IInv

\* Every step preserves the invariant.
LEMMA NextInv == IInv /\ [Next]_vars => IInv'
<1> SUFFICES ASSUME IInv, [Next]_vars PROVE IInv'
  OBVIOUS
<1>1. CASE Open \/ Close \/ Reset
  BY <1>1, OpenCloseInv, ResetInv
<1>2. ASSUME NEW n \in 0..MaxSize, NEW isNull \in BOOLEAN,
             \/ kind = "stream" /\ ReadSome(n, isNull)
             \/ kind = "datagram" /\ Receive(n, isNull)
      PROVE  IInv'
  <2>1. PICK invalid \in BOOLEAN : invalid = (isNull /\ n # 0)
    OBVIOUS
  <2>2. CASE kind = "stream" /\ ReadSome(n, isNull)
    <3>1. RefusedInput("ReadSome", invalid) \/ Empty("ReadSome") \/ ReadChunk(n)
      BY <2>1, <2>2, Zenon DEF ReadSome
    <3> QED
      BY <2>2, <3>1, RefusedInv, ReadChunkInv
  <2>3. CASE kind = "datagram" /\ Receive(n, isNull)
    <3>1. RefusedInput("Receive", invalid) \/ Empty("Receive") \/ ReceiveDatagram(n)
      BY <2>1, <2>3, Zenon DEF Receive
    <3> QED
      BY <2>3, <3>1, RefusedInv, ReceiveDatagramInv
  <2> QED
    BY <1>2, <2>2, <2>3
<1>3. ASSUME NEW n \in WriteSizes, NEW isNull \in BOOLEAN,
             WriteAll(n, isNull) \/ Send(n, isNull)
      PROVE  IInv'
  <2>1. PICK invalid \in BOOLEAN : invalid = (isNull /\ n # 0)
    OBVIOUS
  <2>2. \E op : RefusedOutput(op, n, invalid) \/ Capture(op, n)
    BY <1>3, <2>1, Zenon DEF WriteAll, Send
  <2> QED
    BY <2>2, RefusedInv, CaptureInv
<1>4. ASSUME NEW n \in 0..MaxSize, Script(n) PROVE IInv'
  BY <1>4, ScriptInv
<1>5. CASE ScriptNextInput \/ ScriptNextOutput
  BY <1>5, ScriptNextInv
<1>6. CASE UNCHANGED vars
  <2>1. UNCHANGED <<kind, open_, incoming, captured, nextInput, nextOutput, scripts, got, started>>
    BY <1>6 DEF vars, double, history
  <2>2. TypeOK' /\ SessionOK'
    BY <2>1 DEF IInv, TypeOK, SessionOK
  <2> QED
    BY <2>1, <2>2, Unplayed DEF IInv
<1> QED
  BY <1>1, <1>2, <1>3, <1>4, <1>5, <1>6, Zenon DEF Next

\* The invariant holds in every reachable state.
LEMMA Invariance == Spec => []IInv
  BY InitInv, NextInv, PTL DEF Spec

\* ScriptPlayed: whatever the buffer sizes, the chunk sizes, the scripted statuses
\* and the number of calls, a double hands over what was scripted once and in
\* order, chunk after chunk (ReadSome) or datagram by datagram (Receive).
THEOREM ScriptIsPlayed == Spec => []ScriptPlayed
<1>1. IInv => ScriptPlayed
  BY DEF IInv
<1> QED
  BY <1>1, Invariance, PTL

-----------------------------------------------------------------------------
(* The refinements *)

\* Statuses the real transports return with no other effect: what a test may
\* script without leaving the contracts.  A scripted ConnectionClosed, say, leaves
\* the double open, which no transport does.
ContractStatuses ==
  /\ ReadStatuses \subseteq {"Ok", "InvalidArgument", "Timeout", "WouldBlock", "ReadFailed"}
  /\ WriteStatuses \subseteq {"Ok", "InvalidArgument", "Timeout", "WouldBlock", "WriteFailed"}

\* A function on 1..n is a sequence.
LEMMA FunctionIsSeq ==
  ASSUME NEW S, NEW n \in Nat, NEW f \in [1..n -> S]
  PROVE  f \in Seq(S) /\ Len(f) = n
OBVIOUS

\* Append and Tail, with the length as a number.
LEMMA AppendAt ==
  ASSUME NEW S, NEW n \in Nat, NEW s \in Seq(S), Len(s) = n, NEW e \in S, NEW u, u = Append(s, e)
  PROVE  /\ u \in Seq(S) /\ Len(u) = n + 1
         /\ (\A i \in 1..n : u[i] = s[i]) /\ u[n + 1] = e
BY AppendProperties

\* The elements of a sequence without its head.
LEMMA TailAt ==
  ASSUME NEW S, NEW n \in Nat, NEW s \in Seq(S), Len(s) = n + 1, NEW t, t = Tail(s)
  PROVE  t \in Seq(S) /\ Len(t) = n /\ (\A i \in 1..n : t[i] = s[i + 1])
<1>0. s # <<>>
  BY EmptySeq
<1>1. /\ Tail(s) \in Seq(S) /\ Len(Tail(s)) = Len(s) - 1
      /\ \A i \in 1..Len(Tail(s)) : Tail(s)[i] = s[i + 1]
  BY <1>0, HeadTailProperties
<1>2. Len(Tail(s)) = n
  BY <1>1
<1> QED
  BY <1>1, <1>2

\* The end of a sequence.
LEMMA SuffixIs ==
  ASSUME NEW S, NEW n \in Nat, NEW s \in Seq(S), Len(s) = n, NEW k \in 0..n
  PROVE  /\ SubSeq(s, k + 1, n) \in Seq(S) /\ Len(SubSeq(s, k + 1, n)) = n - k
         /\ \A i \in 1..(n - k) : SubSeq(s, k + 1, n)[i] = s[k + i]
<1>1. \A i \in (k + 1)..n : s[i] \in S
  BY ElementOfSeq
<1>2. /\ SubSeq(s, k + 1, n) \in Seq(S)
      /\ Len(SubSeq(s, k + 1, n)) = IF k + 1 <= n THEN n - (k + 1) + 1 ELSE 0
      /\ \A i \in 1..(n - (k + 1) + 1) : SubSeq(s, k + 1, n)[i] = s[(k + 1) + i - 1]
  BY <1>1, SubSeqProperties
<1>3. k \in Nat /\ k <= n
  OBVIOUS
<1>4. Len(SubSeq(s, k + 1, n)) = n - k
  BY <1>2, <1>3
<1>5. ASSUME NEW i \in 1..(n - k) PROVE SubSeq(s, k + 1, n)[i] = s[k + i]
  BY <1>2, <1>3
<1> QED
  BY <1>2, <1>4, <1>5

\* It grows with the sequence.
LEMMA SuffixGrows ==
  ASSUME NEW S, NEW n \in Nat, NEW s \in Seq(S), Len(s) = n, NEW e \in S, NEW k \in 0..n,
         NEW u \in Seq(S), Len(u) = n + 1, \A i \in 1..n : u[i] = s[i], u[n + 1] = e
  PROVE  SubSeq(u, k + 1, n + 1) = Append(SubSeq(s, k + 1, n), e)
<1>1. PICK m \in Nat : m = n - k
  OBVIOUS
<1>2. PICK a \in Seq(S) :
        a = SubSeq(s, k + 1, n) /\ Len(a) = m /\ \A i \in 1..m : a[i] = s[k + i]
  <2>1. /\ SubSeq(s, k + 1, n) \in Seq(S) /\ Len(SubSeq(s, k + 1, n)) = n - k
        /\ \A i \in 1..(n - k) : SubSeq(s, k + 1, n)[i] = s[k + i]
    BY SuffixIs
  <2> QED
    BY <1>1, <2>1, Zenon
<1>3. PICK b \in Seq(S) :
        b = SubSeq(u, k + 1, n + 1) /\ Len(b) = m + 1 /\ \A i \in 1..(m + 1) : b[i] = u[k + i]
  <2>1. PICK p \in Nat : p = n + 1 /\ k \in 0..p /\ p - k = m + 1
    BY <1>1
  <2>2. /\ SubSeq(u, k + 1, p) \in Seq(S) /\ Len(SubSeq(u, k + 1, p)) = p - k
        /\ \A i \in 1..(p - k) : SubSeq(u, k + 1, p)[i] = u[k + i]
    BY <2>1, SuffixIs
  <2> QED
    BY <2>1, <2>2, Zenon
<1>4. PICK c : c = Append(a, e)
  OBVIOUS
<1>5. c \in Seq(S) /\ Len(c) = m + 1 /\ (\A i \in 1..m : c[i] = a[i]) /\ c[m + 1] = e
  BY <1>2, <1>4, AppendAt
<1>6. ASSUME NEW i \in 1..(m + 1) PROVE b[i] = c[i]
  <2>1. CASE i = m + 1
    <3>1. k + i = n + 1
      BY <1>1, <2>1
    <3> QED
      BY <1>3, <1>5, <2>1, <3>1, Zenon
  <2>2. CASE i \in 1..m
    <3>1. k + i \in 1..n
      BY <1>1, <2>2
    <3>2. b[i] = u[k + i] /\ c[i] = a[i] /\ a[i] = s[k + i]
      BY <1>2, <1>3, <1>5, <2>2, Zenon
    <3>3. u[k + i] = s[k + i]
      BY <3>1, Zenon
    <3> QED
      BY <3>2, <3>3, Zenon
  <2> QED
    BY <2>1, <2>2
<1>7. b = c
  BY <1>3, <1>5, <1>6, SeqEqual
<1> QED
  BY <1>2, <1>3, <1>4, <1>7

\* Suffix(s, k) is s without its first k elements.
Suffix(s, k) == SubSeq(s, k + 1, Len(s))

\* An element appended to a sequence is appended to each of its suffixes.
LEMMA SuffixAppend ==
  ASSUME NEW S, NEW n \in Nat, NEW s \in Seq(S), Len(s) = n, NEW e \in S, NEW k \in 0..n
  PROVE  /\ Suffix(s, k) \in Seq(S) /\ Len(Suffix(s, k)) = n - k
         /\ Suffix(Append(s, e), k) = Append(Suffix(s, k), e)
<1>1. Suffix(s, k) = SubSeq(s, k + 1, n)
  BY DEF Suffix
<1>2. Suffix(s, k) \in Seq(S) /\ Len(Suffix(s, k)) = n - k
  BY <1>1, SuffixIs
<1>3. PICK u : u = Append(s, e)
  OBVIOUS
<1>4. u \in Seq(S) /\ Len(u) = n + 1 /\ (\A i \in 1..n : u[i] = s[i]) /\ u[n + 1] = e
  BY <1>3, AppendAt
<1>5. SubSeq(u, k + 1, n + 1) = Append(SubSeq(s, k + 1, n), e)
  BY <1>4, SuffixGrows, SMTT(60)
<1>6. Suffix(u, k) = SubSeq(u, k + 1, n + 1)
  BY <1>4, Zenon DEF Suffix
<1> QED
  BY <1>1, <1>2, <1>3, <1>5, <1>6, Zenon

\* Sizes of a queue that grows at its end and shrinks at its front.
LEMMA SizesOf ==
  ASSUME NEW s \in Seq(Chunk)
  PROVE  /\ Sizes(s) \in Seq([size : 0..MaxSize]) /\ Len(Sizes(s)) = Len(s)
         /\ \A i \in 1..Len(s) : Sizes(s)[i] = [size |-> Len(s[i])]
<1>1. PICK n \in Nat : n = Len(s)
  BY LenProperties
<1>2. ASSUME NEW i \in 1..n PROVE [size |-> Len(s[i])] \in [size : 0..MaxSize]
  <2>1. s[i] \in Chunk
    BY <1>1, ElementOfSeq
  <2>2. Len(s[i]) \in Nat /\ Len(s[i]) <= MaxSize /\ MaxSize \in Nat
    BY <2>1, LenProperties, FakesAssumption DEF Chunk
  <2> QED
    BY <2>2
<1>3. Sizes(s) \in [1..n -> [size : 0..MaxSize]]
  BY <1>1, <1>2 DEF Sizes
<1>4. Sizes(s) \in Seq([size : 0..MaxSize]) /\ Len(Sizes(s)) = n
  BY <1>3, FunctionIsSeq, Zenon
<1> QED
  BY <1>1, <1>4 DEF Sizes

\* A datagram captured is a size appended ...
LEMMA SizesAppend ==
  ASSUME NEW s \in Seq(Chunk), NEW c \in Chunk
  PROVE  Sizes(Append(s, c)) = Append(Sizes(s), [size |-> Len(c)])
<1>0. PICK D : D = [size : 0..MaxSize]
  OBVIOUS
<1>1. PICK n \in Nat : n = Len(s)
  BY LenProperties
<1>2. PICK u : u = Append(s, c)
  OBVIOUS
<1>3. u \in Seq(Chunk) /\ Len(u) = n + 1 /\ (\A i \in 1..n : u[i] = s[i]) /\ u[n + 1] = c
  BY <1>1, <1>2, AppendAt
<1>4. PICK x : x = Sizes(s)
  OBVIOUS
<1>5. x \in Seq(D) /\ Len(x) = n /\ \A i \in 1..n : x[i] = [size |-> Len(s[i])]
  BY <1>0, <1>1, <1>4, SizesOf, Zenon
<1>6. PICK y : y = Sizes(u)
  OBVIOUS
<1>7. y \in Seq(D) /\ Len(y) = n + 1 /\ \A i \in 1..(n + 1) : y[i] = [size |-> Len(u[i])]
  <2>1. /\ Sizes(u) \in Seq(D) /\ Len(Sizes(u)) = Len(u)
        /\ \A i \in 1..Len(u) : Sizes(u)[i] = [size |-> Len(u[i])]
    BY <1>0, <1>3, SizesOf, Zenon
  <2> QED
    BY <1>3, <1>6, <2>1
<1>8. PICK d : d = [size |-> Len(c)]
  OBVIOUS
<1>9. y[n + 1] = d /\ d \in D
  <2>1. n + 1 \in 1..(n + 1)
    OBVIOUS
  <2>2. y[n + 1] = d
    BY <1>3, <1>7, <1>8, <2>1, Zenon
  <2>3. y[n + 1] \in D
    BY <1>7, <2>1, ElementOfSeq
  <2> QED
    BY <2>2, <2>3
<1>10. PICK z : z = Append(x, d)
  OBVIOUS
<1>11. z \in Seq(D) /\ Len(z) = n + 1 /\ (\A i \in 1..n : z[i] = x[i]) /\ z[n + 1] = d
  BY <1>5, <1>9, <1>10, AppendAt
<1>12. ASSUME NEW i \in 1..(n + 1) PROVE y[i] = z[i]
  <2>1. CASE i \in 1..n
    BY <1>3, <1>5, <1>7, <1>11, <2>1, Zenon
  <2>2. CASE i = n + 1
    BY <1>9, <1>11, <2>2
  <2> QED
    BY <2>1, <2>2
<1>13. y = z
  BY <1>7, <1>11, <1>12, SeqEqual
<1> QED
  BY <1>2, <1>4, <1>6, <1>8, <1>10, <1>13

\* ... and a datagram taken is a size removed.
LEMMA SizesTail ==
  ASSUME NEW s \in Seq(Chunk), s # <<>>
  PROVE  /\ Sizes(s) # <<>> /\ Head(Sizes(s)).size = Len(Head(s))
         /\ Sizes(Tail(s)) = Tail(Sizes(s))
<1>0. PICK D : D = [size : 0..MaxSize]
  OBVIOUS
<1>1. PICK n \in Nat : Len(s) = n + 1
  <2>1. Len(s) \in Nat /\ Len(s) # 0
    BY EmptySeq
  <2>2. Len(s) - 1 \in Nat /\ Len(s) = (Len(s) - 1) + 1
    BY <2>1
  <2> QED
    BY <2>2
<1>2. PICK t : t = Tail(s)
  OBVIOUS
<1>3. t \in Seq(Chunk) /\ Len(t) = n /\ \A i \in 1..n : t[i] = s[i + 1]
  BY <1>1, <1>2, TailAt
<1>4. PICK x : x = Sizes(s)
  OBVIOUS
<1>5. x \in Seq(D) /\ Len(x) = n + 1 /\ \A i \in 1..(n + 1) : x[i] = [size |-> Len(s[i])]
  <2>1. /\ Sizes(s) \in Seq(D) /\ Len(Sizes(s)) = Len(s)
        /\ \A i \in 1..Len(s) : Sizes(s)[i] = [size |-> Len(s[i])]
    BY <1>0, SizesOf, Zenon
  <2> QED
    BY <1>1, <1>4, <2>1
<1>6. PICK y : y = Sizes(t)
  OBVIOUS
<1>7. y \in Seq(D) /\ Len(y) = n /\ \A i \in 1..n : y[i] = [size |-> Len(t[i])]
  BY <1>0, <1>3, <1>6, SizesOf, Zenon
<1>8. x # <<>>
  BY <1>5, EmptySeq
<1>9. Head(x).size = Len(Head(s))
  <2>1. Head(x) = x[1] /\ Head(s) = s[1] /\ 1 \in 1..(n + 1)
    BY <1>8
  <2>2. x[1] = [size |-> Len(s[1])]
    BY <1>5, <2>1, Zenon
  <2> QED
    BY <2>1, <2>2
<1>10. PICK z : z = Tail(x)
  OBVIOUS
<1>11. z \in Seq(D) /\ Len(z) = n /\ \A i \in 1..n : z[i] = x[i + 1]
  BY <1>5, <1>10, TailAt
<1>12. ASSUME NEW i \in 1..n PROVE y[i] = z[i]
  <2>1. i + 1 \in 1..(n + 1)
    OBVIOUS
  <2> QED
    BY <1>3, <1>5, <1>7, <1>11, <2>1, Zenon
<1>13. y = z
  BY <1>7, <1>11, <1>12, SeqEqual
<1> QED
  BY <1>2, <1>4, <1>6, <1>8, <1>9, <1>10, <1>13

\* Nothing of a session is left when a new one starts.
LEMMA SessionEmpty ==
  ASSUME NEW S, NEW s \in Seq(S)
  PROVE  SubSeq(s, Len(s) + 1, Len(s)) = <<>>
<1>1. Len(s) \in Nat
  BY LenProperties
<1>2. Len(s) + 1 \in Int /\ Len(s) \in Int /\ Len(s) < Len(s) + 1
  BY <1>1
<1> QED
  BY <1>2, SubSeqEmpty

\* What the session captured, and what one more capture makes of it.
LEMMA CapturedIs ==
  ASSUME IInv, NEW op, NEW size \in WriteSizes, Capture(op, size)
  PROVE  /\ SessionCaptured \in Seq(0..MaxSize) /\ Len(SessionCaptured) + 1 \in 1..MaxWrites
         /\ SessionCaptured' = Append(SessionCaptured, size)
         /\ size \in 0..MaxSize
<1>1. size \in 0..MaxSize
  BY FakesAssumption
<1>2. PICK S : S = 0..MaxSize
  OBVIOUS
<1>3. captured \in Seq(S) /\ captured' = Append(captured, size) /\ started' = started
  BY <1>2 DEF IInv, TypeOK, Capture, history
<1>4. PICK n \in Nat, k \in Nat : n = Len(captured) /\ k = started.captured /\ k \in 0..n
  BY Lengths DEF IInv, SessionOK
<1>5. PICK s \in Seq(S), e \in S : s = captured /\ Len(s) = n /\ e = size
  BY <1>1, <1>2, <1>3, <1>4
<1>6. /\ Suffix(s, k) \in Seq(S) /\ Len(Suffix(s, k)) = n - k
      /\ Suffix(Append(s, e), k) = Append(Suffix(s, k), e)
  BY <1>4, <1>5, SuffixAppend, SMTT(60)
<1>7. SessionCaptured = Suffix(s, k)
  BY <1>4, <1>5, Zenon DEF SessionCaptured, Suffix
<1>8. SessionCaptured' = Suffix(Append(s, e), k)
  BY <1>3, <1>4, <1>5, Zenon DEF SessionCaptured, Suffix
<1>9. Len(SessionCaptured) + 1 \in 1..MaxWrites
  <2>1. MaxWrites \in Nat /\ n < MaxWrites
    BY <1>4, Lengths DEF IInv, Capture
  <2> QED
    BY <1>4, <1>6, <1>7, <2>1
<1> QED
  BY <1>1, <1>2, <1>5, <1>6, <1>7, <1>8, <1>9, Zenon

\* The status of a refused input or output call.
LEMMA RefusedStatus ==
  ASSUME ContractStatuses, IInv, NEW invalid \in BOOLEAN
  PROVE  /\ Refused(nextInput, invalid) \in
              {"Ok", "NotOpen", "InvalidArgument", "Timeout", "WouldBlock", "ReadFailed"}
         /\ Refused(nextOutput, invalid) \in
              {"Ok", "NotOpen", "InvalidArgument", "Timeout", "WouldBlock", "WriteFailed"}
         /\ (Refused(nextInput, invalid) = "NotOpen") = ~open_
         /\ (Refused(nextOutput, invalid) = "NotOpen") = ~open_
<1>1. /\ nextInput \in {"Ok", "InvalidArgument", "Timeout", "WouldBlock", "ReadFailed"}
      /\ nextOutput \in {"Ok", "InvalidArgument", "Timeout", "WouldBlock", "WriteFailed"}
  BY DEF IInv, TypeOK, ContractStatuses
<1>2. open_ \in BOOLEAN
  BY DEF IInv, TypeOK
<1> QED
  BY <1>1, <1>2 DEF Refused

\* Each step of a FakeDatagramTransport is a step of the contract or none.
LEMMA EndpointStep ==
  ASSUME ContractStatuses, IInv, kind = "datagram", Next
  PROVE  Endpoint!Next \/ UNCHANGED Endpoint!vars
<1>0. /\ open_ \in BOOLEAN /\ incoming \in Seq(Chunk) /\ captured \in Seq(0..MaxSize)
      /\ MaxSize \in Nat
  BY FakesAssumption DEF IInv, TypeOK
<1>1. DatagramOpen = open_
  BY <1>0 DEF DatagramOpen
<1>2. ASSUME UNCHANGED <<kind, open_, incoming, captured, started>>
      PROVE  UNCHANGED <<DatagramOpen, Inbox, Outbox>>
  BY <1>2 DEF DatagramOpen, Inbox, Outbox, SessionCaptured
<1>3. CASE Open
  <2>1. kind' = kind /\ DatagramRet' = ret' /\ DatagramOpen' = TRUE
    BY <1>3 DEF Open, DatagramRet, DatagramOpen
  <2>2. CASE open_
    <3>1. UNCHANGED <<DatagramOpen, Inbox, Outbox>>
      <4>1. open_' = open_
        BY <1>3, <2>2 DEF Open
      <4> QED
        BY <1>2, <1>3, <2>2, <4>1 DEF Open
    <3>2. ret' = Result("Open", "AlreadyOpen", 0)
      BY <1>3, <2>2 DEF Open
    <3>3. Endpoint!OpenRefused
      BY <1>1, <2>1, <2>2, <3>1, <3>2 DEF Endpoint!OpenRefused, Endpoint!Result, Result
    <3> QED
      BY <3>3 DEF Endpoint!Next
  <2>3. CASE ~open_
    <3>1. ret' = Result("Open", "Ok", 0)
      BY <1>3, <2>3 DEF Open
    <3>2. Outbox' = <<>>
      <4>1. SessionCaptured' = SubSeq(captured, Len(captured) + 1, Len(captured))
        BY <1>3, <2>3 DEF Open, SessionCaptured
      <4>2. SubSeq(captured, Len(captured) + 1, Len(captured)) = <<>>
        BY <1>0, SessionEmpty
      <4> QED
        BY <2>1, <4>1, <4>2 DEF Outbox
    <3>3. Inbox' \in Seq([size : 0..MaxSize])
      <4>1. incoming' = incoming
        BY <1>3 DEF Open
      <4>2. Inbox' = Sizes(incoming)
        BY <2>1, <4>1 DEF Inbox
      <4> QED
        BY <1>0, <4>2, SizesOf
    <3>4. Endpoint!OpenOk
      BY <1>1, <2>1, <2>3, <3>1, <3>2, <3>3 DEF Endpoint!OpenOk, Endpoint!Result, Result
    <3> QED
      BY <3>4 DEF Endpoint!Next
  <2> QED
    BY <2>2, <2>3
<1>4. CASE Close \/ Reset
  <2>1. kind' = kind /\ open_' = FALSE /\ ret' = Result("Close", "Ok", 0)
    BY <1>4 DEF Close, Reset
  <2>2. DatagramOpen' = FALSE /\ DatagramRet' = ret'
    BY <2>1 DEF DatagramOpen, DatagramRet
  <2>3. Inbox' = <<>> /\ Outbox' = <<>>
    BY <2>2 DEF Inbox, Outbox
  <2>4. Endpoint!Close
    BY <2>1, <2>2, <2>3 DEF Endpoint!Close, Endpoint!Result, Result
  <2> QED
    BY <2>4 DEF Endpoint!Next
<1>5. ASSUME NEW n \in 0..MaxSize, NEW isNull \in BOOLEAN, Receive(n, isNull)
      PROVE  Endpoint!Next
  <2>0. PICK invalid \in BOOLEAN : invalid = (isNull /\ n # 0)
    OBVIOUS
  <2>1. ASSUME UNCHANGED <<kind, open_, incoming, captured, started>>,
               NEW s \in {"NotOpen", "InvalidArgument", "Timeout", "WouldBlock", "ReadFailed"},
               (s = "NotOpen") = ~open_, ret' = Result("Receive", s, 0)
        PROVE  Endpoint!Next
    <3>1. UNCHANGED <<DatagramOpen, Inbox, Outbox>> /\ DatagramRet' = ret'
      BY <1>2, <2>1 DEF DatagramRet
    <3>2. Endpoint!ReceiveRefused
      BY <1>1, <2>1, <3>1 DEF Endpoint!ReceiveRefused, Endpoint!Result, Result
    <3> QED
      BY <3>2 DEF Endpoint!Next
  <2>2. CASE RefusedInput("Receive", invalid)
    <3>1. PICK s : s = Refused(nextInput, invalid)
      OBVIOUS
    <3>2. /\ UNCHANGED <<kind, open_, incoming, captured, started>>
          /\ s # "Ok" /\ ret' = Result("Receive", s, 0)
      BY <2>2, <3>1 DEF RefusedInput, history
    <3>3. /\ s \in {"NotOpen", "InvalidArgument", "Timeout", "WouldBlock", "ReadFailed"}
          /\ (s = "NotOpen") = ~open_
      BY <3>1, <3>2, RefusedStatus
    <3> QED
      BY <2>1, <3>2, <3>3
  <2>3. CASE Refused(nextInput, invalid) = "Ok" /\ Empty("Receive")
    <3>1. open_
      BY <2>3 DEF Refused
    <3>2. /\ UNCHANGED <<kind, open_, incoming, captured, started>>
          /\ ret' = Result("Receive", "WouldBlock", 0)
      BY <2>3 DEF Empty, double, history
    <3> QED
      BY <1>0, <2>1, <3>1, <3>2
  <2>4. CASE Refused(nextInput, invalid) = "Ok" /\ ReceiveDatagram(n)
    <3>1. open_
      BY <2>4 DEF Refused
    <3>2. /\ incoming # <<>>
          /\ UNCHANGED <<kind, open_, captured, started>>
      BY <2>4 DEF ReceiveDatagram
    <3>3. /\ Sizes(incoming) # <<>> /\ Head(Sizes(incoming)).size = Len(Head(incoming))
          /\ Sizes(Tail(incoming)) = Tail(Sizes(incoming))
      BY <1>0, <3>2, SizesTail
    <3>4. /\ DatagramOpen = TRUE /\ DatagramOpen' = TRUE /\ DatagramRet' = ret'
          /\ Inbox = Sizes(incoming) /\ Inbox' = Sizes(incoming') /\ Outbox' = Outbox
      BY <3>1, <3>2 DEF DatagramOpen, DatagramRet, Inbox, Outbox, SessionCaptured
    <3>5. CASE n < Len(Head(incoming))
      <4>1. ret' = Result("Receive", "OutputBufferTooSmall", 0) /\ incoming' = incoming
        BY <2>4, <3>5 DEF ReceiveDatagram
      <4>2. Head(Inbox).size > 0
        <5>1. PICK m : m = Len(Head(incoming))
          OBVIOUS
        <5>2. m \in Nat
          <6>1. Head(incoming) \in Chunk
            BY <1>0, <3>2, HeadAndTail
          <6> QED
            BY <5>1, <6>1, LenProperties DEF Chunk
        <5>3. m > 0
          BY <1>0, <3>5, <5>1, <5>2
        <5> QED
          BY <3>3, <3>4, <5>1, <5>3
      <4>3. Endpoint!ReceiveTooSmall
        BY <3>3, <3>4, <4>1, <4>2 DEF Endpoint!ReceiveTooSmall, Endpoint!Result, Result
      <4> QED
        BY <4>3 DEF Endpoint!Next
    <3>6. CASE ~(n < Len(Head(incoming)))
      <4>1. ret' = Result("Receive", "Ok", Len(Head(incoming))) /\ incoming' = Tail(incoming)
        BY <2>4, <3>6 DEF ReceiveDatagram
      <4>2. Endpoint!Receive
        BY <3>3, <3>4, <4>1 DEF Endpoint!Receive, Endpoint!Result, Result
      <4> QED
        BY <4>2 DEF Endpoint!Next
    <3> QED
      BY <3>5, <3>6
  <2> QED
    BY <1>5, <2>0, <2>2, <2>3, <2>4, Zenon DEF Receive
<1>6. ASSUME NEW n \in WriteSizes, NEW isNull \in BOOLEAN, Send(n, isNull)
      PROVE  Endpoint!Next
  <2>0. PICK invalid \in BOOLEAN : invalid = (isNull /\ n # 0)
    OBVIOUS
  <2>1. n \in 0..MaxSize
    BY FakesAssumption
  <2>2. CASE RefusedOutput("Send", n, invalid)
    <3>1. PICK s : s = Refused(nextOutput, invalid)
      OBVIOUS
    <3>2. /\ UNCHANGED <<kind, open_, incoming, captured, started>>
          /\ s # "Ok" /\ ret' = Result("Send", s, n)
      BY <2>2, <3>1 DEF RefusedOutput, history
    <3>3. /\ s \in {"NotOpen", "InvalidArgument", "Timeout", "WouldBlock", "WriteFailed"}
          /\ (s = "NotOpen") = ~open_
      BY <3>1, <3>2, RefusedStatus
    <3>4. UNCHANGED <<DatagramOpen, Inbox, Outbox>> /\ DatagramRet' = ret'
      BY <1>2, <3>2 DEF DatagramRet
    <3>5. Endpoint!SendRefused(n)
      BY <1>1, <3>2, <3>3, <3>4 DEF Endpoint!SendRefused, Endpoint!Result, Result
    <3> QED
      BY <2>1, <3>5 DEF Endpoint!Next
  <2>3. CASE Refused(nextOutput, invalid) = "Ok" /\ Capture("Send", n)
    <3>1. open_
      BY <2>3 DEF Refused
    <3>2. /\ UNCHANGED <<kind, open_, incoming>> /\ ret' = Result("Send", "Ok", n)
      BY <2>3 DEF Capture
    <3>3. SessionCaptured' = Append(SessionCaptured, n)
      BY <2>3, CapturedIs
    <3>4. /\ DatagramOpen = TRUE /\ DatagramOpen' = TRUE /\ DatagramRet' = ret'
          /\ Inbox' = Inbox /\ Outbox = SessionCaptured /\ Outbox' = SessionCaptured'
      BY <3>1, <3>2 DEF DatagramOpen, DatagramRet, Inbox, Outbox
    <3>5. Endpoint!Send(n)
      BY <3>2, <3>3, <3>4 DEF Endpoint!Send, Endpoint!Result, Result
    <3> QED
      BY <2>1, <3>5 DEF Endpoint!Next
  <2> QED
    BY <1>6, <2>0, <2>2, <2>3, Zenon DEF Send
<1>7. ASSUME NEW n \in 0..MaxSize, Script(n)
      PROVE  Endpoint!Next \/ UNCHANGED Endpoint!vars
  <2>1. UNCHANGED <<kind, open_, captured, started, ret>>
    BY <1>7 DEF Script
  <2>2. PICK c \in Chunk : incoming' = Append(incoming, c)
    BY <1>7, ScriptIs
  <2>3. UNCHANGED <<DatagramOpen, Outbox, DatagramRet>>
    BY <2>1 DEF DatagramOpen, Outbox, DatagramRet, SessionCaptured
  <2>4. CASE ~open_
    <3>1. Inbox' = Inbox
      BY <2>1, <2>4 DEF Inbox, DatagramOpen
    <3> QED
      BY <2>3, <3>1 DEF Endpoint!vars
  <2>5. CASE open_
    <3>1. Inbox = Sizes(incoming) /\ Inbox' = Sizes(incoming')
      BY <2>1, <2>5 DEF Inbox, DatagramOpen
    <3>2. PICK d : d = [size |-> Len(c)]
      OBVIOUS
    <3>3. Inbox' = Append(Inbox, d)
      BY <1>0, <2>2, <3>1, <3>2, SizesAppend
    <3>4. d \in [size : 0..MaxSize]
      <4>1. Len(c) \in Nat /\ Len(c) <= MaxSize
        BY LenProperties DEF Chunk
      <4> QED
        BY <1>0, <3>2, <4>1
    <3>5. Endpoint!Arrive
      BY <1>1, <2>3, <2>5, <3>3, <3>4 DEF Endpoint!Arrive
    <3> QED
      BY <3>5 DEF Endpoint!Next
  <2> QED
    BY <2>4, <2>5
<1>8. CASE ScriptNextInput \/ ScriptNextOutput
  <2>1. UNCHANGED <<kind, open_, incoming, captured, started, ret>>
    BY <1>8 DEF ScriptNextInput, ScriptNextOutput, history
  <2>2. UNCHANGED <<DatagramOpen, Inbox, Outbox>> /\ DatagramRet' = DatagramRet
    BY <1>2, <2>1 DEF DatagramRet
  <2> QED
    BY <2>2 DEF Endpoint!vars
<1>9. kind # "stream"
  OBVIOUS
<1> QED
  BY <1>3, <1>4, <1>5, <1>6, <1>7, <1>8, <1>9, Zenon DEF Next

\* A FakeByteStream says nothing to the user of a datagram transport.
LEMMA NotADatagram ==
  ASSUME kind # "datagram", kind' = kind
  PROVE  UNCHANGED Endpoint!vars
<1>1. DatagramOpen = FALSE /\ DatagramOpen' = FALSE
  BY DEF DatagramOpen
<1>2. UNCHANGED <<DatagramOpen, Inbox, Outbox, DatagramRet>>
  BY <1>1 DEF Inbox, Outbox, DatagramRet
<1> QED
  BY <1>2 DEF Endpoint!vars

\* The double never becomes one of the other kind.
LEMMA KindKept ==
  ASSUME [Next]_vars
  PROVE  kind' = kind
BY DEF Next, vars, double, Open, Close, Reset, ReadSome, Receive, WriteAll, Send, Script,
       ScriptNextInput, ScriptNextOutput, RefusedInput, RefusedOutput, Empty, Capture,
       ReadChunk, ReceiveDatagram

\* FakeImplementsDatagram: a FakeDatagramTransport that is scripted with statuses
\* the contract knows shows the code under test nothing that an
\* IDatagramTransport may not do.
THEOREM FakeIsDatagram ==
  ASSUME ContractStatuses
  PROVE  Spec => FakeImplementsDatagram
<1>1. Init => Endpoint!Init
  <2> SUFFICES ASSUME Init PROVE Endpoint!Init
    OBVIOUS
  <2>1. DatagramOpen = FALSE
    BY DEF Init, DatagramOpen
  <2>2. Inbox = <<>> /\ Outbox = <<>> /\ DatagramRet = NoResult
    BY <2>1 DEF Init, Inbox, Outbox, DatagramRet
  <2> QED
    BY <2>1, <2>2 DEF Endpoint!Init, NoResult, Result, Endpoint!NoResult, Endpoint!Result
<1>2. IInv /\ [Next]_vars => [Endpoint!Next]_(Endpoint!vars)
  <2> SUFFICES ASSUME IInv, [Next]_vars PROVE Endpoint!Next \/ UNCHANGED Endpoint!vars
    OBVIOUS
  <2>1. CASE kind # "datagram"
    BY <2>1, KindKept, NotADatagram
  <2>2. CASE kind = "datagram" /\ Next
    BY <2>2, EndpointStep
  <2>3. CASE UNCHANGED vars
    <3>1. UNCHANGED <<kind, open_, incoming, captured, started, ret>>
      BY <2>3 DEF vars, double, history
    <3>2. UNCHANGED <<DatagramOpen, Inbox, Outbox, DatagramRet>>
      BY <3>1 DEF DatagramOpen, Inbox, Outbox, DatagramRet, SessionCaptured
    <3> QED
      BY <3>2 DEF Endpoint!vars
  <2> QED
    BY <2>1, <2>2, <2>3
<1> QED
  BY <1>1, <1>2, Invariance, PTL DEF Spec, FakeImplementsDatagram, Endpoint!Spec

\* One more buffer.
LEMMA BuffersAppend ==
  ASSUME NEW s \in Seq(0..MaxSize), NEW e \in 0..MaxSize
  PROVE  /\ Buffers(s) \in Seq(Seq(Byte))
         /\ Bytes(Len(s) + 1, 0, e) \in Seq(Byte)
         /\ Buffers(Append(s, e)) = Append(Buffers(s), Bytes(Len(s) + 1, 0, e))
<1>0. PICK S : S = 0..MaxSize
  OBVIOUS
<1>1. PICK n \in Nat : n = Len(s)
  BY LenProperties
<1>2. PICK u : u = Append(s, e)
  OBVIOUS
<1>3. u \in Seq(S) /\ Len(u) = n + 1 /\ (\A i \in 1..n : u[i] = s[i]) /\ u[n + 1] = e
  BY <1>0, <1>1, <1>2, AppendAt
<1>4. ASSUME NEW i \in 1..(n + 1) PROVE Bytes(i, 0, u[i]) \in Seq(Byte)
  <2>1. i \in Nat /\ u[i] \in 0..MaxSize
    <3>1. u \in Seq(S) /\ i \in 1..Len(u) /\ i \in Nat
      BY <1>3
    <3>2. u[i] \in S
      BY <3>1, ElementOfSeq
    <3> QED
      BY <1>0, <3>1, <3>2
  <2>2. Bytes(i, 0, u[i]) \in Chunk
    BY <2>1, ScriptedChunk
  <2> QED
    BY <2>2 DEF Chunk
<1>5. PICK x : x = Buffers(s)
  OBVIOUS
<1>6. x \in Seq(Seq(Byte)) /\ Len(x) = n /\ \A i \in 1..n : x[i] = Bytes(i, 0, u[i])
  <2>1. x = [i \in 1..n |-> Bytes(i, 0, s[i])]
    BY <1>1, <1>5 DEF Buffers
  <2>2. ASSUME NEW i \in 1..n
        PROVE  Bytes(i, 0, s[i]) \in Seq(Byte) /\ Bytes(i, 0, s[i]) = Bytes(i, 0, u[i])
    <3>1. i \in 1..(n + 1) /\ s[i] = u[i]
      BY <1>3
    <3> QED
      BY <1>4, <3>1
  <2>3. x \in [1..n -> Seq(Byte)]
    BY <2>1, <2>2, Zenon
  <2>4. x \in Seq(Seq(Byte)) /\ Len(x) = n
    BY <2>3, FunctionIsSeq, Zenon
  <2> QED
    BY <2>1, <2>2, <2>4, Zenon
<1>7. PICK y : y = Buffers(u)
  OBVIOUS
<1>8. y \in Seq(Seq(Byte)) /\ Len(y) = n + 1 /\ \A i \in 1..(n + 1) : y[i] = Bytes(i, 0, u[i])
  <2>0. PICK m \in Nat : m = n + 1
    OBVIOUS
  <2>1. y = [i \in 1..m |-> Bytes(i, 0, u[i])]
    BY <1>3, <1>7, <2>0 DEF Buffers
  <2>2. y \in [1..m -> Seq(Byte)]
    BY <1>4, <2>0, <2>1, Zenon
  <2>3. y \in Seq(Seq(Byte)) /\ Len(y) = m
    BY <2>2, FunctionIsSeq, Zenon
  <2> QED
    BY <2>0, <2>1, <2>3, Zenon
<1>9. PICK b : b = Bytes(n + 1, 0, e)
  OBVIOUS
<1>10. b \in Seq(Byte) /\ y[n + 1] = b
  <2>1. n + 1 \in 1..(n + 1)
    OBVIOUS
  <2> QED
    BY <1>3, <1>4, <1>8, <1>9, <2>1, Zenon
<1>11. PICK z : z = Append(x, b)
  OBVIOUS
<1>12. z \in Seq(Seq(Byte)) /\ Len(z) = n + 1 /\ (\A i \in 1..n : z[i] = x[i]) /\ z[n + 1] = b
  BY <1>6, <1>10, <1>11, AppendAt
<1>13. ASSUME NEW i \in 1..(n + 1) PROVE y[i] = z[i]
  <2>1. CASE i \in 1..n
    BY <1>6, <1>8, <1>12, <2>1, Zenon
  <2>2. CASE i = n + 1
    BY <1>10, <1>12, <2>2
  <2> QED
    BY <2>1, <2>2
<1>14. y = z
  BY <1>8, <1>12, <1>13, SeqEqual
<1> QED
  BY <1>1, <1>2, <1>5, <1>6, <1>7, <1>9, <1>10, <1>11, <1>14

\* The bytes handed over and those still scripted are all the bytes scripted.
LEMMA CountsOf ==
  ASSUME NEW g \in Seq(Byte), NEW chunks \in Seq(Chunk), NEW all,
         g \o FlattenSeq(chunks) = FlattenSeq(all)
  PROVE  /\ Len(g) \in Nat /\ Len(FlattenSeq(chunks)) \in Nat
         /\ Len(g) + Len(FlattenSeq(chunks)) = Len(FlattenSeq(all))
<1>1. PICK f \in Seq(Byte) : f = FlattenSeq(chunks)
  BY ChunksAreBytes, FlattenType
<1>2. Len(g \o f) = Len(g) + Len(f)
  BY ConcatProperties
<1>3. Len(g) \in Nat /\ Len(f) \in Nat
  BY LenProperties
<1> QED
  BY <1>1, <1>2, <1>3

\* The same of the double, before a step and after it.
LEMMA StreamCounts ==
  ASSUME IInv, IInv', kind = "stream", kind' = kind
  PROVE  /\ SessionGot \in Nat /\ SessionGot' \in Nat
         /\ Len(FlattenSeq(incoming)) \in Nat /\ Len(FlattenSeq(incoming')) \in Nat
         /\ Len(got) \in Nat /\ started.got \in Nat
         /\ Len(got) + Len(FlattenSeq(incoming)) = Len(FlattenSeq(scripts))
         /\ Len(got') + Len(FlattenSeq(incoming')) = Len(FlattenSeq(scripts'))
<1>1. /\ got \in Seq(Byte) /\ incoming \in Seq(Chunk)
      /\ got \o FlattenSeq(incoming) = FlattenSeq(scripts)
      /\ started.got \in Nat /\ started.got <= Len(got)
  BY DEF IInv, TypeOK, ScriptPlayed, SessionOK
<1>2. /\ got' \in Seq(Byte) /\ incoming' \in Seq(Chunk)
      /\ got' \o FlattenSeq(incoming') = FlattenSeq(scripts')
      /\ started'.got \in Nat /\ started'.got <= Len(got')
  BY DEF IInv, TypeOK, ScriptPlayed, SessionOK
<1>3. /\ Len(got) \in Nat /\ Len(FlattenSeq(incoming)) \in Nat
      /\ Len(got) + Len(FlattenSeq(incoming)) = Len(FlattenSeq(scripts))
  BY <1>1, CountsOf
<1>4. /\ Len(got') \in Nat /\ Len(FlattenSeq(incoming')) \in Nat
      /\ Len(got') + Len(FlattenSeq(incoming')) = Len(FlattenSeq(scripts'))
  BY <1>2, CountsOf
<1>5. SessionGot \in Nat
  BY <1>1, <1>3 DEF SessionGot
<1>6. SessionGot' \in Nat
  <2>1. PICK a \in Nat, b \in Nat : a = Len(got') /\ b = started'.got /\ b <= a
    BY <1>2, <1>4, Zenon
  <2>2. SessionGot' = a - b
    BY <2>1, Zenon DEF SessionGot
  <2> QED
    BY <2>1, <2>2
<1> QED
  BY <1>1, <1>3, <1>4, <1>5, <1>6

\* What was sent is a sequence of bytes.
LEMMA SentType ==
  ASSUME IInv
  PROVE  Sent \in Seq(Byte)
<1>1. PICK S : S = 0..MaxSize
  OBVIOUS
<1>2. PICK s \in Seq(S) : s = captured
  BY <1>1 DEF IInv, TypeOK
<1>3. PICK n \in Nat, k \in Nat : n = Len(s) /\ k = started.captured /\ k \in 0..n
  BY <1>2, Lengths DEF IInv, SessionOK
<1>4. 0 \in 0..MaxSize
  BY FakesAssumption
<1>5. SubSeq(s, k + 1, n) \in Seq(S)
  BY <1>3, SuffixIs
<1>6. Buffers(SessionCaptured) \in Seq(Seq(Byte))
  BY <1>1, <1>2, <1>3, <1>4, <1>5, BuffersAppend DEF SessionCaptured
<1> QED
  BY <1>6, FlattenType, EmptySeq DEF Sent

\* Each step of a FakeByteStream is a step of the contract or none.
LEMMA StreamStep ==
  ASSUME ContractStatuses, MaxWrites # 0, IInv, IInv', kind = "stream", Next
  PROVE  Stream!Next \/ UNCHANGED Stream!vars
<1>0. /\ open_ \in BOOLEAN /\ incoming \in Seq(Chunk) /\ captured \in Seq(0..MaxSize)
      /\ MaxSize \in Nat /\ MaxWrites \in Nat
  BY FakesAssumption DEF IInv, TypeOK
<1>1. StreamOpen = open_
  BY <1>0 DEF StreamOpen
<1>2. ASSUME UNCHANGED <<kind, open_, incoming, captured, got, started>>
      PROVE  UNCHANGED <<StreamOpen, Delivered, PeerSent, Sent>>
  BY <1>2 DEF StreamOpen, Delivered, PeerSent, Sent, SessionGot, SessionCaptured
<1>3. CASE Open
  <2>1. kind' = kind /\ StreamRet' = ret' /\ StreamOpen' = TRUE
    BY <1>3 DEF Open, StreamRet, StreamOpen
  <2>2. CASE open_
    <3>1. UNCHANGED <<StreamOpen, Delivered, PeerSent, Sent>>
      <4>1. open_' = open_
        BY <1>3, <2>2 DEF Open
      <4> QED
        BY <1>2, <1>3, <2>2, <4>1 DEF Open
    <3>2. ret' = Result("Open", "AlreadyOpen", 0)
      BY <1>3, <2>2 DEF Open
    <3>3. Stream!OpenRefused
      BY <1>1, <2>1, <2>2, <3>1, <3>2
      DEF Stream!OpenRefused, Stream!Session, Stream!Result, Result
    <3> QED
      BY <3>3 DEF Stream!Next
  <2>3. CASE ~open_
    <3>1. ret' = Result("Open", "Ok", 0)
      BY <1>3, <2>3 DEF Open
    <3>2. Sent' = <<>>
      <4>1. SessionCaptured' = SubSeq(captured, Len(captured) + 1, Len(captured))
        BY <1>3, <2>3 DEF Open, SessionCaptured
      <4>2. SubSeq(captured, Len(captured) + 1, Len(captured)) = <<>>
        BY <1>0, SessionEmpty
      <4>3. Buffers(<<>>) = <<>>
        BY DEF Buffers
      <4> QED
        BY <2>1, <4>1, <4>2, <4>3, FlattenEmpty DEF Sent
    <3>3. Delivered' = 0
      <4>1. SessionGot' = Len(got) - Len(got) /\ Len(got) \in Nat
        BY <1>3, <2>3, Lengths DEF Open, SessionGot, IInv
      <4> QED
        BY <2>1, <4>1 DEF Delivered
    <3>4. PeerSent' \in Nat
      <4>1. SessionGot' \in Nat /\ Len(FlattenSeq(incoming))' \in Nat
        BY <2>1, StreamCounts
      <4> QED
        BY <2>1, <4>1 DEF PeerSent
    <3>5. Stream!OpenOk
      BY <1>1, <2>1, <2>3, <3>1, <3>2, <3>3, <3>4 DEF Stream!OpenOk, Stream!Result, Result
    <3> QED
      BY <3>5 DEF Stream!Next
  <2> QED
    BY <2>2, <2>3
<1>4. CASE Close \/ Reset
  <2>1. kind' = kind /\ open_' = FALSE /\ ret' = Result("Close", "Ok", 0)
    BY <1>4 DEF Close, Reset
  <2>2. StreamOpen' = FALSE /\ StreamRet' = ret'
    BY <2>1 DEF StreamOpen, StreamRet
  <2>3. Delivered' = 0 /\ PeerSent' = 0 /\ Sent' = <<>>
    BY <2>2 DEF Delivered, PeerSent, Sent
  <2>4. (Stream!Session)' = <<0, 0, FALSE, FALSE, <<>> >>
    BY <2>3, Zenon DEF Stream!Session
  <2>5. Stream!Close
    BY <2>1, <2>2, <2>4 DEF Stream!Close, Stream!EndSession, Stream!Result, Result
  <2> QED
    BY <2>5 DEF Stream!Next
<1>5. ASSUME NEW n \in 0..MaxSize, NEW isNull \in BOOLEAN, ReadSome(n, isNull)
      PROVE  Stream!Next
  <2>0. PICK invalid \in BOOLEAN : invalid = (isNull /\ n # 0)
    OBVIOUS
  <2>1. ASSUME UNCHANGED <<kind, open_, incoming, captured, got, started>>,
               NEW s \in {"NotOpen", "InvalidArgument", "Timeout", "WouldBlock", "ReadFailed"},
               (s = "NotOpen") = ~open_, ret' = Result("ReadSome", s, 0)
        PROVE  Stream!Next
    <3>1. UNCHANGED <<StreamOpen, Delivered, PeerSent, Sent>> /\ StreamRet' = ret'
      BY <1>2, <2>1 DEF StreamRet
    <3>2. Stream!ReadRefused
      BY <1>1, <2>1, <3>1 DEF Stream!ReadRefused, Stream!Session, Stream!Result, Result
    <3> QED
      BY <3>2 DEF Stream!Next
  <2>2. CASE RefusedInput("ReadSome", invalid)
    <3>1. PICK s : s = Refused(nextInput, invalid)
      OBVIOUS
    <3>2. /\ UNCHANGED <<kind, open_, incoming, captured, got, started>>
          /\ s # "Ok" /\ ret' = Result("ReadSome", s, 0)
      BY <2>2, <3>1 DEF RefusedInput, history
    <3>3. /\ s \in {"NotOpen", "InvalidArgument", "Timeout", "WouldBlock", "ReadFailed"}
          /\ (s = "NotOpen") = ~open_
      BY <3>1, <3>2, RefusedStatus
    <3> QED
      BY <2>1, <3>2, <3>3
  <2>3. CASE Refused(nextInput, invalid) = "Ok" /\ Empty("ReadSome")
    <3>1. open_
      BY <2>3 DEF Refused
    <3>2. /\ UNCHANGED <<kind, open_, incoming, captured, got, started>>
          /\ ret' = Result("ReadSome", "WouldBlock", 0)
      BY <2>3 DEF Empty, double, history
    <3> QED
      BY <1>0, <2>1, <3>1, <3>2
  <2>4. CASE Refused(nextInput, invalid) = "Ok" /\ ReadChunk(n)
    <3>1. open_
      BY <2>4 DEF Refused
    <3>2. PICK count \in 0..n :
            /\ Len(got') = Len(got) + count
            /\ ret' = Result("ReadSome", "Ok", count)
            /\ UNCHANGED <<kind, open_, captured, scripts, started>>
      BY <2>4, ReadChunkIs
    <3>3. /\ StreamOpen = TRUE /\ StreamOpen' = TRUE /\ StreamRet' = ret'
          /\ Delivered = SessionGot /\ Delivered' = SessionGot'
          /\ PeerSent = SessionGot + Len(FlattenSeq(incoming))
          /\ PeerSent' = SessionGot' + Len(FlattenSeq(incoming))' /\ Sent' = Sent
      BY <3>1, <3>2
      DEF StreamOpen, StreamRet, Delivered, PeerSent, Sent, SessionCaptured
    <3>4. /\ Len(got) + Len(FlattenSeq(incoming)) = Len(FlattenSeq(scripts))
          /\ Len(got') + Len(FlattenSeq(incoming')) = Len(FlattenSeq(scripts'))
          /\ Len(FlattenSeq(incoming)) \in Nat /\ Len(FlattenSeq(incoming')) \in Nat
          /\ Len(got) \in Nat /\ started.got \in Nat
      BY <3>2, StreamCounts
    <3>5. count \in Nat /\ count \in 0..MaxSize
      BY <1>0
    <3>6. SessionGot = Len(got) - started.got /\ SessionGot' = Len(got') - started.got
      BY <3>2 DEF SessionGot
    <3>7. PICK a \in Nat, b \in Nat, c \in Nat, d \in Nat, s \in Nat :
            /\ a = Len(got) /\ b = Len(FlattenSeq(incoming)) /\ d = Len(got')
            /\ c = Len(FlattenSeq(incoming')) /\ s = started.got
      <4>1. Len(got') \in Nat
        BY <3>2, <3>4
      <4> QED
        BY <3>4, <4>1, Zenon
    <3>8. Delivered = a - s /\ Delivered' = d - s
      BY <3>3, <3>6, <3>7, Zenon
    <3>9. PeerSent = a - s + b /\ PeerSent' = d - s + c
      BY <3>3, <3>6, <3>7, Zenon
    <3>10. a + b = d + c /\ d = a + count
      BY <3>2, <3>4, <3>7
    <3>11. /\ Delivered' = Delivered + count /\ Delivered + count <= PeerSent
           /\ PeerSent' = PeerSent
      BY <3>5, <3>8, <3>9, <3>10
    <3>12. Stream!Read(count)
      BY <3>2, <3>3, <3>11 DEF Stream!Read, Stream!Result, Result
    <3> QED
      BY <3>5, <3>12 DEF Stream!Next
  <2> QED
    BY <1>5, <2>0, <2>2, <2>3, <2>4, Zenon DEF ReadSome
<1>6. ASSUME NEW n \in WriteSizes, NEW isNull \in BOOLEAN, WriteAll(n, isNull)
      PROVE  Stream!Next
  <2>0. PICK invalid \in BOOLEAN : invalid = (isNull /\ n # 0)
    OBVIOUS
  <2>1. n \in 0..MaxSize /\ n \in Nat
    BY <1>0, FakesAssumption
  <2>2. CASE RefusedOutput("WriteAll", n, invalid)
    <3>1. PICK s : s = Refused(nextOutput, invalid)
      OBVIOUS
    <3>2. /\ UNCHANGED <<kind, open_, incoming, captured, got, started>>
          /\ s # "Ok" /\ ret' = Result("WriteAll", s, n)
      BY <2>2, <3>1 DEF RefusedOutput, history
    <3>3. /\ s \in {"NotOpen", "InvalidArgument", "Timeout", "WouldBlock", "WriteFailed"}
          /\ (s = "NotOpen") = ~open_
      BY <3>1, <3>2, RefusedStatus
    <3>4. UNCHANGED <<StreamOpen, Delivered, PeerSent, Sent>> /\ StreamRet' = ret'
      BY <1>2, <3>2 DEF StreamRet
    <3>5. CASE s \in {"NotOpen", "InvalidArgument"}
      <4>1. Stream!WriteRefused
        BY <1>1, <2>1, <3>2, <3>3, <3>4, <3>5
        DEF Stream!WriteRefused, Stream!Session, Stream!Result, Result
      <4> QED
        BY <4>1 DEF Stream!Next
    <3>6. CASE s \in {"Timeout", "WouldBlock", "WriteFailed"}
      <4>1. open_
        BY <3>3, <3>6
      <4>2. Sent \o Bytes(1, 0, 0) = Sent
        <5>1. PICK one \in Nat, zero \in 0..MaxSize : one = 1 /\ zero = 0
          BY <1>0
        <5>2. Bytes(one, 0, zero) \in Seq(Byte) /\ Len(Bytes(one, 0, zero)) = 0
          BY <5>1, ScriptedChunk DEF Chunk
        <5>3. Bytes(1, 0, 0) = <<>>
          BY <5>1, <5>2, EmptySeq
        <5>4. Sent \in Seq(Byte)
          BY SentType
        <5> QED
          BY <5>3, <5>4, ConcatEmptySeq
      <4>3. /\ \E t \in {"Ok", "Timeout", "WouldBlock", "WriteFailed"} :
                 /\ (t = "Ok") = (0 = n) \/ n = 0
                 /\ StreamRet' = Stream!Result("WriteAll", t, n)
        <5>1. StreamRet' = Stream!Result("WriteAll", s, n)
          BY <3>2, <3>4 DEF Stream!Result, Result
        <5>2. (s = "Ok") = (0 = n) \/ n = 0
          BY <3>6
        <5> QED
          BY <3>6, <5>1, <5>2
      <4>4. Stream!Write(1, n, 0)
        BY <1>1, <3>4, <4>1, <4>2, <4>3 DEF Stream!Write, Stream!Bytes, Bytes
      <4>5. 1 \in 1..MaxWrites /\ 0 \in 0..n
        BY <1>0, <2>1
      <4> QED
        BY <2>1, <4>4, <4>5 DEF Stream!Next
    <3> QED
      BY <3>3, <3>5, <3>6
  <2>3. CASE Refused(nextOutput, invalid) = "Ok" /\ Capture("WriteAll", n)
    <3>1. open_
      BY <2>3 DEF Refused
    <3>2. /\ UNCHANGED <<kind, open_, incoming, got, started>>
          /\ ret' = Result("WriteAll", "Ok", n)
      BY <2>3 DEF Capture, history
    <3>3. /\ SessionCaptured' = Append(SessionCaptured, n)
          /\ SessionCaptured \in Seq(0..MaxSize)
          /\ Len(SessionCaptured) + 1 \in 1..MaxWrites
      BY <2>3, CapturedIs
    <3>4. PICK w \in 1..MaxWrites : w = Len(SessionCaptured) + 1
      BY <3>3
    <3>5. PICK b \in Seq(Byte) : b = Bytes(w, 0, n)
      BY <2>1, <3>3, <3>4, BuffersAppend
    <3>6. /\ Buffers(SessionCaptured) \in Seq(Seq(Byte))
          /\ Buffers(SessionCaptured') = Append(Buffers(SessionCaptured), b)
      BY <2>1, <3>3, <3>4, <3>5, BuffersAppend
    <3>7. /\ StreamOpen = TRUE /\ StreamOpen' = TRUE /\ StreamRet' = ret'
          /\ Delivered' = Delivered /\ PeerSent' = PeerSent
          /\ Sent = FlattenSeq(Buffers(SessionCaptured))
          /\ Sent' = FlattenSeq(Buffers(SessionCaptured'))
      BY <3>1, <3>2 DEF StreamOpen, StreamRet, Delivered, PeerSent, Sent, SessionGot
    <3>8. Sent' = Sent \o Bytes(w, 0, n)
      BY <3>5, <3>6, <3>7, FlattenAppend
    <3>9. Stream!Write(w, n, n)
      BY <3>2, <3>7, <3>8 DEF Stream!Write, Stream!Bytes, Bytes, Stream!Result, Result
    <3> QED
      BY <2>1, <3>9 DEF Stream!Next
  <2> QED
    BY <1>6, <2>0, <2>2, <2>3, Zenon DEF WriteAll
<1>7. ASSUME NEW n \in 0..MaxSize, Script(n)
      PROVE  Stream!Next \/ UNCHANGED Stream!vars
  <2>1. UNCHANGED <<kind, open_, captured, got, started, ret>>
    BY <1>7 DEF Script
  <2>2. PICK c \in Chunk :
          Len(c) = n /\ FlattenSeq(incoming') = FlattenSeq(incoming) \o c
    BY <1>7, ScriptIs
  <2>3. UNCHANGED <<StreamOpen, Delivered, Sent, StreamRet>>
    BY <2>1 DEF StreamOpen, Delivered, Sent, StreamRet, SessionGot, SessionCaptured
  <2>4. CASE ~open_
    <3>1. PeerSent' = PeerSent
      BY <2>1, <2>4 DEF PeerSent, StreamOpen
    <3> QED
      BY <2>3, <3>1 DEF Stream!vars
  <2>5. CASE open_
    <3>1. /\ PeerSent = SessionGot + Len(FlattenSeq(incoming))
          /\ PeerSent' = SessionGot + Len(FlattenSeq(incoming'))
      BY <2>1, <2>5 DEF PeerSent, StreamOpen, SessionGot
    <3>2. Len(FlattenSeq(incoming')) = Len(FlattenSeq(incoming)) + n
      <4>1. FlattenSeq(incoming) \in Seq(Byte) /\ c \in Seq(Byte)
        BY <1>0, ChunksAreBytes, FlattenType DEF Chunk
      <4> QED
        BY <2>2, <4>1, ConcatProperties
    <3>3. SessionGot \in Nat /\ Len(FlattenSeq(incoming)) \in Nat /\ n \in Nat
      BY <1>0, <2>1, StreamCounts
    <3>4. PeerSent' = PeerSent + n /\ PeerSent \in Nat
      BY <3>1, <3>2, <3>3
    <3>5. CASE n = 0
      BY <2>3, <3>4, <3>5 DEF Stream!vars
    <3>6. CASE n # 0
      <4>1. PeerSent' \in Nat /\ PeerSent' > PeerSent
        BY <3>3, <3>4, <3>6
      <4>2. Stream!PeerSends
        BY <1>1, <2>3, <2>5, <4>1 DEF Stream!PeerSends
      <4> QED
        BY <4>2 DEF Stream!Next
    <3> QED
      BY <3>5, <3>6
  <2> QED
    BY <2>4, <2>5
<1>8. CASE ScriptNextInput \/ ScriptNextOutput
  <2>1. UNCHANGED <<kind, open_, incoming, captured, got, started, ret>>
    BY <1>8 DEF ScriptNextInput, ScriptNextOutput, history
  <2>2. UNCHANGED <<StreamOpen, Delivered, PeerSent, Sent>> /\ StreamRet' = StreamRet
    BY <1>2, <2>1 DEF StreamRet
  <2> QED
    BY <2>2 DEF Stream!vars
<1>9. kind # "datagram"
  OBVIOUS
<1> QED
  BY <1>3, <1>4, <1>5, <1>6, <1>7, <1>8, <1>9, Zenon DEF Next

\* A FakeDatagramTransport says nothing to the user of a byte stream.
LEMMA NotAStream ==
  ASSUME kind # "stream", kind' = kind
  PROVE  UNCHANGED Stream!vars
<1>1. StreamOpen = FALSE /\ StreamOpen' = FALSE
  BY DEF StreamOpen
<1>2. UNCHANGED <<StreamOpen, Delivered, PeerSent, Sent, StreamRet>>
  BY <1>1 DEF Delivered, PeerSent, Sent, StreamRet
<1> QED
  BY <1>2 DEF Stream!vars

\* FakeImplementsByteStream: a FakeByteStream that is scripted with statuses the
\* contract knows shows the code under test nothing that an IByteStream may not
\* do, however it cuts the scripted chunks into reads.  (MaxWrites bounds the
\* model only: with 0, the contract would have no write that can be refused.)
THEOREM FakeIsByteStream ==
  ASSUME ContractStatuses, MaxWrites # 0
  PROVE  Spec => FakeImplementsByteStream
<1>1. Init => Stream!Init
  <2> SUFFICES ASSUME Init PROVE Stream!Init
    OBVIOUS
  <2>1. StreamOpen = FALSE
    BY DEF Init, StreamOpen
  <2>2. Delivered = 0 /\ PeerSent = 0 /\ Sent = <<>> /\ StreamRet = NoResult
    BY <2>1 DEF Init, Delivered, PeerSent, Sent, StreamRet
  <2>3. Stream!Session = <<0, 0, FALSE, FALSE, <<>> >>
    BY <2>2, Zenon DEF Stream!Session
  <2> QED
    BY <2>1, <2>2, <2>3 DEF Stream!Init, NoResult, Result, Stream!NoResult, Stream!Result
<1>2. IInv /\ IInv' /\ [Next]_vars => [Stream!Next]_(Stream!vars)
  <2> SUFFICES ASSUME IInv, IInv', [Next]_vars PROVE Stream!Next \/ UNCHANGED Stream!vars
    OBVIOUS
  <2>1. CASE kind # "stream"
    BY <2>1, KindKept, NotAStream
  <2>2. CASE kind = "stream" /\ Next
    BY <2>2, StreamStep
  <2>3. CASE UNCHANGED vars
    <3>1. UNCHANGED <<kind, open_, incoming, captured, got, started, ret>>
      BY <2>3 DEF vars, double, history
    <3>2. UNCHANGED <<StreamOpen, Delivered, PeerSent, Sent, StreamRet>>
      BY <3>1 DEF StreamOpen, Delivered, PeerSent, Sent, StreamRet, SessionGot, SessionCaptured
    <3> QED
      BY <3>2 DEF Stream!vars
  <2> QED
    BY <2>1, <2>2, <2>3
<1> QED
  BY <1>1, <1>2, Invariance, PTL DEF Spec, FakeImplementsByteStream, Stream!Spec
=============================================================================
