--------------------------- MODULE SequenceLemmas ---------------------------
(***************************************************************************)
(* What the proofs need to know of sequences: the least of some numbers,   *)
(* by which a fact about every beginning of a sequence is shown, what the  *)
(* sequences of a sequence make when they are joined, where an element of  *)
(* rows of one length is then, and what a sequence of integers sums up to. *)
(***************************************************************************)
EXTENDS Integers, SequencesExt, SequenceTheorems, WellFoundedInduction, TLAPS

(* There is a least one of any numbers. *)
LEMMA LeastExists ==
  ASSUME NEW S \in SUBSET Nat, S # {}
  PROVE  \E x \in S : \A y \in S : x <= y
<1> DEFINE R == OpToRel(<, Nat)
<1>1. IsWellFoundedOn(R, Nat)
  BY NatLessThanWellFounded
<1>2. R = {ss \in Nat \X Nat : ss[1] < ss[2]}
  BY DEF OpToRel
<1> HIDE DEF R
<1>3. PICK x \in S : \A y \in S : ~(<<y, x>> \in R)
  BY <1>1, WFMin
<1>4. ASSUME NEW y \in S PROVE x <= y
  <2> DEFINE ss == <<y, x>>
  <2>1. ss \notin R /\ ss \in Nat \X Nat /\ ss[1] = y /\ ss[2] = x
    BY <1>3
  <2> HIDE DEF ss
  <2>2. ~(ss[1] < ss[2])
    BY <1>2, <2>1
  <2> QED
    BY <2>1, <2>2
<1> QED
  BY <1>4

(* f has the first sequences of seqs joined, for every number of them. *)
Joins(f, seqs, n) ==
  \A i \in 1..n : f[i] = IF i = 1 THEN seqs[i] ELSE f[i - 1] \o seqs[i]

(* They are sequences of the same elements. *)
LEMMA JoinsTyped ==
  ASSUME NEW S, NEW seqs \in Seq(Seq(S)), NEW f, Joins(f, seqs, Len(seqs))
  PROVE  \A i \in 1..Len(seqs) : f[i] \in Seq(S)
<1> DEFINE Bad == {i \in 1..Len(seqs) : f[i] \notin Seq(S)}
<1>1. SUFFICES ASSUME Bad # {} PROVE FALSE
  OBVIOUS
<1>2. PICK i \in Bad : \A j \in Bad : i <= j
  <2>1. Bad \in SUBSET Nat
    OBVIOUS
  <2> HIDE DEF Bad
  <2> QED BY <1>1, <2>1, LeastExists
<1>3. i \in 1..Len(seqs) /\ seqs[i] \in Seq(S) /\ f[i] \notin Seq(S)
  OBVIOUS
<1>4. CASE i = 1
  BY <1>3, <1>4 DEF Joins
<1>5. CASE i # 1
  <2>1. i - 1 \in 1..Len(seqs) /\ i - 1 \notin Bad
    BY <1>2, <1>3, <1>5
  <2>2. f[i - 1] \in Seq(S)
    BY <2>1
  <2>3. f[i] = f[i - 1] \o seqs[i]
    BY <1>3, <1>5 DEF Joins
  <2> QED BY <1>3, <2>2, <2>3
<1> QED BY <1>4, <1>5

(* There is one such f at most. *)
LEMMA JoinsUnique ==
  ASSUME NEW S, NEW seqs \in Seq(Seq(S)), NEW n \in 0..Len(seqs),
         NEW f, Joins(f, seqs, n), NEW g, Joins(g, seqs, n)
  PROVE  \A i \in 1..n : f[i] = g[i]
<1> DEFINE Bad == {i \in 1..n : f[i] # g[i]}
<1>1. SUFFICES ASSUME Bad # {} PROVE FALSE
  OBVIOUS
<1>2. PICK i \in Bad : \A j \in Bad : i <= j
  <2>1. Bad \in SUBSET Nat
    OBVIOUS
  <2> HIDE DEF Bad
  <2> QED BY <1>1, <2>1, LeastExists
<1>3. i \in 1..n /\ f[i] # g[i]
  OBVIOUS
<1>4. CASE i = 1
  BY <1>3, <1>4 DEF Joins
<1>5. CASE i # 1
  <2>1. i - 1 \in 1..n /\ i - 1 \notin Bad
    BY <1>2, <1>3, <1>5
  <2>2. f[i - 1] = g[i - 1]
    BY <2>1
  <2> QED BY <1>3, <1>5, <2>2 DEF Joins
<1> QED BY <1>4, <1>5

(* And there is one: the longest that there is cannot be shorter than seqs. *)
LEMMA JoinsExist ==
  ASSUME NEW S, NEW seqs \in Seq(Seq(S))
  PROVE  \E f : f = [i \in 1..Len(seqs) |-> IF i = 1 THEN seqs[i] ELSE f[i - 1] \o seqs[i]]
<1> DEFINE Joined(n) == \E f : DOMAIN f = 1..n /\ Joins(f, seqs, n)
           Bad == {n \in 0..Len(seqs) : ~Joined(n)}
<1>1. Joined(Len(seqs))
  <2>1. SUFFICES ASSUME Bad # {} PROVE FALSE
    OBVIOUS
  <2>2. PICK n \in Bad : \A j \in Bad : n <= j
    <3>1. Bad \in SUBSET Nat
      OBVIOUS
    <3> HIDE DEF Bad
    <3> QED BY <2>1, <3>1, LeastExists
  <2>3. n \in 0..Len(seqs) /\ ~Joined(n)
    OBVIOUS
  <2>4. CASE n = 0
    <3>1. Joins([i \in 1..0 |-> 0], seqs, 0)
      BY DEF Joins
    <3> QED BY <2>3, <2>4, <3>1
  <2>5. CASE n # 0
    <3>1. n - 1 \in 0..Len(seqs) /\ ~(n <= n - 1)
      BY <2>3, <2>5
    <3>a. n - 1 \notin Bad
      <4> HIDE DEF Bad
      <4> QED BY <2>2, <3>1
    <3>2. PICK f : DOMAIN f = 1..(n - 1) /\ Joins(f, seqs, n - 1)
      BY <3>1, <3>a
    <3> DEFINE g == [i \in 1..n |-> IF i < n THEN f[i] ELSE IF n = 1 THEN seqs[n] ELSE f[n - 1] \o seqs[n]]
    <3>3. ASSUME NEW i \in 1..n PROVE g[i] = IF i = 1 THEN seqs[i] ELSE g[i - 1] \o seqs[i]
      <4>1. CASE i = n /\ n = 1
        BY <4>1
      <4>2. CASE i = n /\ n # 1
        <5>0. g[i] = IF i < n THEN f[i] ELSE IF n = 1 THEN seqs[n] ELSE f[n - 1] \o seqs[n]
          OBVIOUS
        <5>z. ~(i < n) /\ n # 1
          BY <2>3, <4>2
        <5> HIDE DEF g
        <5>1. g[i] = f[n - 1] \o seqs[n]
          BY <5>0, <5>z
        <5>2. i - 1 \in 1..n /\ i - 1 < n
          BY <2>3, <4>2
        <5> USE DEF g
        <5>3. g[i - 1] = f[i - 1]
          BY <5>2
        <5> HIDE DEF g
        <5> QED BY <4>2, <5>1, <5>3
      <4>3. CASE i < n
        <5>1. i \in 1..(n - 1)
          BY <2>3, <4>3
        <5>2. f[i] = IF i = 1 THEN seqs[i] ELSE f[i - 1] \o seqs[i]
          BY <3>2, <5>1 DEF Joins
        <5>3. g[i] = f[i]
          BY <4>3
        <5>4. i # 1 => g[i - 1] = f[i - 1]
          BY <2>3, <4>3
        <5> HIDE DEF g
        <5> QED BY <5>2, <5>3, <5>4
      <4> QED BY <2>3, <4>1, <4>2, <4>3
    <3>4. DOMAIN g = 1..n
      OBVIOUS
    <3> HIDE DEF g
    <3>5. Joins(g, seqs, n)
      BY <3>3 DEF Joins
    <3> QED BY <2>3, <3>4, <3>5
  <2> QED BY <2>4, <2>5
<1> HIDE DEF Joined
<1>2. PICK f : DOMAIN f = 1..Len(seqs) /\ Joins(f, seqs, Len(seqs))
  BY <1>1 DEF Joined
<1> DEFINE h == [i \in 1..Len(seqs) |-> f[i]]
<1>3. \A i \in 1..Len(seqs) : h[i] = IF i = 1 THEN seqs[i] ELSE h[i - 1] \o seqs[i]
  <2>1. TAKE i \in 1..Len(seqs)
  <2>2. f[i] = IF i = 1 THEN seqs[i] ELSE f[i - 1] \o seqs[i]
    BY <1>2 DEF Joins
  <2>3. h[i] = f[i] /\ (i # 1 => h[i - 1] = f[i - 1])
    OBVIOUS
  <2> HIDE DEF h
  <2> QED BY <2>2, <2>3
<1>4. h = [i \in 1..Len(seqs) |-> h[i]]
  OBVIOUS
<1> HIDE DEF h
<1>5. h = [i \in 1..Len(seqs) |-> IF i = 1 THEN seqs[i] ELSE h[i - 1] \o seqs[i]]
  BY <1>3, <1>4
<1> QED BY <1>5

(* FlattenSeq is the last of the joined sequences. *)
LEMMA FlattenJoins ==
  ASSUME NEW S, NEW seqs \in Seq(Seq(S)), seqs # <<>>
  PROVE  \E f : Joins(f, seqs, Len(seqs)) /\ FlattenSeq(seqs) = f[Len(seqs)]
<1> DEFINE f == CHOOSE g : g = [i \in 1..Len(seqs) |-> IF i = 1 THEN seqs[i] ELSE g[i - 1] \o seqs[i]]
<1>1. f = [i \in 1..Len(seqs) |-> IF i = 1 THEN seqs[i] ELSE f[i - 1] \o seqs[i]]
  BY JoinsExist
<1>2. FlattenSeq(seqs) = f[Len(seqs)]
  <2>1. Len(seqs) # 0
    OBVIOUS
  <2> QED BY <2>1 DEF FlattenSeq
<1> HIDE DEF f
<1>3. Joins(f, seqs, Len(seqs))
  BY <1>1 DEF Joins
<1> QED BY <1>2, <1>3

(* Nothing joined is nothing. *)
LEMMA FlattenEmpty == FlattenSeq(<<>>) = <<>>
  BY DEF FlattenSeq

(* What is joined is a sequence of the same elements. *)
LEMMA FlattenTyped ==
  ASSUME NEW S, NEW seqs \in Seq(Seq(S))
  PROVE  FlattenSeq(seqs) \in Seq(S)
<1>1. CASE seqs = <<>>
  <2>1. <<>> \in Seq(S)
    OBVIOUS
  <2> QED BY <1>1, <2>1, FlattenEmpty
<1>2. CASE seqs # <<>>
  <2>1. PICK f : Joins(f, seqs, Len(seqs)) /\ FlattenSeq(seqs) = f[Len(seqs)]
    BY <1>2, FlattenJoins
  <2>2. Len(seqs) \in 1..Len(seqs)
    BY <1>2
  <2> QED BY <2>1, <2>2, JoinsTyped
<1> QED BY <1>1, <1>2

(* One more sequence is joined at the end. *)
LEMMA FlattenAppend ==
  ASSUME NEW S, NEW seqs \in Seq(Seq(S)), NEW s \in Seq(S)
  PROVE  FlattenSeq(Append(seqs, s)) = FlattenSeq(seqs) \o s
<1> DEFINE more == Append(seqs, s)
           n == Len(seqs)
<1>1. /\ more \in Seq(Seq(S)) /\ Len(more) = n + 1 /\ more # <<>>
      /\ \A i \in 1..n : more[i] = seqs[i]
      /\ more[n + 1] = s /\ n \in Nat
  BY AppendProperties
<1> HIDE DEF more
<1>2. PICK f : Joins(f, more, n + 1) /\ FlattenSeq(more) = f[n + 1]
  <2>1. \E f : Joins(f, more, Len(more)) /\ FlattenSeq(more) = f[Len(more)]
    BY <1>1, FlattenJoins
  <2> QED BY <1>1, <2>1
<1>3. f[n + 1] = IF n + 1 = 1 THEN s ELSE f[n] \o s
  <2>1. n + 1 \in 1..(n + 1) /\ (n + 1) - 1 = n
    BY <1>1
  <2>2. f[n + 1] = IF n + 1 = 1 THEN more[n + 1] ELSE f[(n + 1) - 1] \o more[n + 1]
    BY <1>2, <2>1 DEF Joins
  <2> QED BY <1>1, <2>1, <2>2
<1>4. CASE n = 0
  <2>1. seqs = <<>> /\ FlattenSeq(seqs) = <<>>
    BY <1>4, FlattenEmpty
  <2> QED BY <1>2, <1>3, <1>4, <2>1 DEF more
<1>5. CASE n # 0
  <2>1. PICK g : Joins(g, seqs, n) /\ FlattenSeq(seqs) = g[n]
    BY <1>5, FlattenJoins
  <2>2. Joins(f, seqs, n)
    BY <1>1, <1>2 DEF Joins
  <2>3. n \in 0..Len(seqs) /\ n \in 1..n
    BY <1>1, <1>5
  <2>4. f[n] = g[n]
    BY <2>1, <2>2, <2>3, JoinsUnique
  <2> QED BY <1>1, <1>2, <1>3, <1>5, <2>1, <2>4 DEF more
<1> QED BY <1>4, <1>5

(* The first sequence comes first. *)
LEMMA FlattenFirst ==
  ASSUME NEW S, NEW seqs \in Seq(Seq(S)), NEW s \in Seq(S)
  PROVE  FlattenSeq(<<s>> \o seqs) = s \o FlattenSeq(seqs)
<1> DEFINE Front_(n) == SubSeq(seqs, 1, n)
           Good(n) == FlattenSeq(<<s>> \o Front_(n)) = s \o FlattenSeq(Front_(n))
           Bad == {n \in 0..Len(seqs) : ~Good(n)}
<1>1. SUFFICES Good(Len(seqs))
  <2>1. SubSeq(seqs, 1, Len(seqs)) = seqs
    BY SubSeqFull
  <2> QED BY <2>1
<1> HIDE DEF Good
<1>2. SUFFICES ASSUME Bad # {} PROVE FALSE
  OBVIOUS
<1>3. PICK n \in Bad : \A j \in Bad : n <= j
  <2>1. Bad \in SUBSET Nat
    OBVIOUS
  <2> HIDE DEF Bad
  <2> QED BY <1>2, <2>1, LeastExists
<1>4. n \in 0..Len(seqs) /\ ~Good(n) /\ Len(seqs) \in Nat
  OBVIOUS
<1>5. CASE n = 0
  <2>1. Front_(0) = <<>>
    BY SubSeqEmpty
  <2>2. <<s>> \o <<>> = Append(<<>>, s) /\ <<>> \in Seq(Seq(S))
    OBVIOUS
  <2>3. FlattenSeq(Append(<<>>, s)) = FlattenSeq(<<>>) \o s
    BY <2>2, FlattenAppend
  <2>4. FlattenSeq(<<>>) \o s = s \o FlattenSeq(<<>>)
    BY FlattenEmpty, ConcatEmptySeq
  <2> QED BY <1>4, <1>5, <2>1, <2>2, <2>3, <2>4 DEF Good
<1>6. CASE n # 0
  <2>1. n - 1 \in 0..Len(seqs) /\ ~(n <= n - 1) /\ n \in 1..Len(seqs)
    BY <1>4, <1>6
  <2>2. Good(n - 1)
    <3>1. n - 1 \notin Bad
      <4> HIDE DEF Bad
      <4> QED BY <1>3, <2>1
    <3> QED BY <2>1, <3>1
  <2> DEFINE r == Front_(n - 1)
             e == seqs[n]
  <2>3. r \in Seq(Seq(S)) /\ e \in Seq(S) /\ <<s>> \in Seq(Seq(S))
    BY <2>1, SubSeqProperties
  <2>4. Front_(n) = Append(r, e)
    BY <2>1, SubSeqRecursiveSecond
  <2>5. FlattenSeq(<<s>> \o r) = s \o FlattenSeq(r)
    BY <2>2 DEF Good
  <2>6. ~(FlattenSeq(<<s>> \o Append(r, e)) = s \o FlattenSeq(Append(r, e)))
    BY <1>4, <2>4 DEF Good
  <2> HIDE DEF r, e
  <2>7. <<s>> \o Append(r, e) = Append(<<s>> \o r, e) /\ <<s>> \o r \in Seq(Seq(S))
    BY <2>3
  <2>8. FlattenSeq(Append(<<s>> \o r, e)) = FlattenSeq(<<s>> \o r) \o e
    BY <2>3, <2>7, FlattenAppend
  <2>9. FlattenSeq(Append(r, e)) = FlattenSeq(r) \o e /\ FlattenSeq(r) \in Seq(S)
    BY <2>3, FlattenAppend, FlattenTyped
  <2>10. (s \o FlattenSeq(r)) \o e = s \o (FlattenSeq(r) \o e)
    BY <2>3, <2>9, ConcatAssociative
  <2> QED BY <2>5, <2>6, <2>7, <2>8, <2>9, <2>10
<1> QED BY <1>5, <1>6

(* The first sequence comes before the others joined. *)
LEMMA FlattenHeadTail ==
  ASSUME NEW S, NEW seqs \in Seq(Seq(S)), seqs # <<>>
  PROVE  FlattenSeq(seqs) = Head(seqs) \o FlattenSeq(Tail(seqs))
<1>1. Head(seqs) \in Seq(S) /\ Tail(seqs) \in Seq(Seq(S))
  BY HeadTailProperties
<1>2. seqs = <<Head(seqs)>> \o Tail(seqs)
  OBVIOUS
<1> QED BY <1>1, <1>2, FlattenFirst

(* A function on the indices of a sequence. *)
LEMMA MapTyped ==
  ASSUME NEW T, NEW l \in Seq(T), NEW S, NEW f, DOMAIN f = DOMAIN l, f = [i \in DOMAIN l |-> f[i]],
         \A i \in DOMAIN l : f[i] \in S
  PROVE  f \in Seq(S) /\ Len(f) = Len(l)
<1>1. Len(l) \in Nat /\ DOMAIN l = 1..Len(l)
  OBVIOUS
<1>2. f = [i \in 1..Len(l) |-> f[i]]
  BY <1>1
<1>3. f \in [1..Len(l) -> S]
  BY <1>1, <1>2
<1> QED BY <1>1, <1>3


(* The first n sequences joined: what there is to know in an induction on n. *)
LEMMA FlattenPrefix ==
  ASSUME NEW S, NEW seqs \in Seq(Seq(S)), NEW n \in 1..Len(seqs)
  PROVE  /\ FlattenSeq(SubSeq(seqs, 1, 0)) = <<>>
         /\ FlattenSeq(SubSeq(seqs, 1, Len(seqs))) = FlattenSeq(seqs)
         /\ FlattenSeq(SubSeq(seqs, 1, n - 1)) \in Seq(S) /\ seqs[n] \in Seq(S)
         /\ FlattenSeq(SubSeq(seqs, 1, n)) = FlattenSeq(SubSeq(seqs, 1, n - 1)) \o seqs[n]
<1>1. SubSeq(seqs, 1, 0) = <<>>
  BY SubSeqEmpty
<1>2. SubSeq(seqs, 1, Len(seqs)) = seqs
  BY SubSeqFull
<1> DEFINE r == SubSeq(seqs, 1, n - 1)
           e == seqs[n]
<1>3. r \in Seq(Seq(S)) /\ e \in Seq(S)
  BY SubSeqProperties
<1>4. SubSeq(seqs, 1, n) = Append(r, e)
  BY SubSeqRecursiveSecond
<1> HIDE DEF r, e
<1>5. FlattenSeq(Append(r, e)) = FlattenSeq(r) \o e /\ FlattenSeq(r) \in Seq(S)
  BY <1>3, FlattenAppend, FlattenTyped
<1> QED BY <1>1, <1>2, <1>3, <1>4, <1>5, FlattenEmpty DEF r, e

(* The elements of the joined sequence are those of the sequences. *)
LEMMA FlattenElements ==
  ASSUME NEW S, NEW seqs \in Seq(Seq(S))
  PROVE  /\ \A i \in 1..Len(seqs) : \A k \in 1..Len(seqs[i]) :
              \E j \in 1..Len(FlattenSeq(seqs)) : FlattenSeq(seqs)[j] = seqs[i][k]
         /\ \A j \in 1..Len(FlattenSeq(seqs)) :
              \E i \in 1..Len(seqs) : \E k \in 1..Len(seqs[i]) : FlattenSeq(seqs)[j] = seqs[i][k]
<1> DEFINE P(n) == FlattenSeq(SubSeq(seqs, 1, n))
           Good(n) ==
             /\ \A i \in 1..n : \A k \in 1..Len(seqs[i]) : \E j \in 1..Len(P(n)) : P(n)[j] = seqs[i][k]
             /\ \A j \in 1..Len(P(n)) :
                  \E i \in 1..n : \E k \in 1..Len(seqs[i]) : P(n)[j] = seqs[i][k]
           Bad == {n \in 0..Len(seqs) : ~Good(n)}
<1>0. P(Len(seqs)) = FlattenSeq(seqs)
  BY SubSeqFull
<1> HIDE DEF P
<1>1. SUFFICES Good(Len(seqs))
  BY <1>0
<1> HIDE DEF Good
<1>2. SUFFICES ASSUME Bad # {} PROVE FALSE
  OBVIOUS
<1>3. PICK n \in Bad : \A j \in Bad : n <= j
  <2>1. Bad \in SUBSET Nat
    OBVIOUS
  <2> HIDE DEF Bad
  <2> QED BY <1>2, <2>1, LeastExists
<1>4. n \in 0..Len(seqs) /\ ~Good(n) /\ Len(seqs) \in Nat
  OBVIOUS
<1>5. CASE n = 0
  <2>0. SubSeq(seqs, 1, 0) = <<>>
    BY SubSeqEmpty
  <2>1. P(0) = <<>>
    BY <2>0, FlattenEmpty DEF P
  <2> QED BY <1>4, <1>5, <2>1 DEF Good
<1>6. CASE n # 0
  <2>1. n - 1 \in 0..Len(seqs) /\ ~(n <= n - 1) /\ n \in 1..Len(seqs) /\ n \in Nat
    BY <1>4, <1>6
  <2>2. Good(n - 1)
    <3>1. n - 1 \notin Bad
      <4> HIDE DEF Bad
      <4> QED BY <1>3, <2>1
    <3> QED BY <2>1, <3>1
  <2> DEFINE r == P(n - 1)
             e == seqs[n]
  <2>3. r \in Seq(S) /\ e \in Seq(S) /\ P(n) = r \o e
    BY <2>1, FlattenPrefix DEF P
  <2>4. /\ \A i \in 1..(n - 1) : \A k \in 1..Len(seqs[i]) : \E j \in 1..Len(r) : r[j] = seqs[i][k]
        /\ \A j \in 1..Len(r) :
                  \E i \in 1..(n - 1) : \E k \in 1..Len(seqs[i]) : r[j] = seqs[i][k]
    BY <2>2 DEF Good
  <2>5. e = seqs[n]
    OBVIOUS
  <2> HIDE DEF r, e
  <2>6. /\ Len(r \o e) = Len(r) + Len(e) /\ Len(r) \in Nat /\ Len(e) \in Nat
        /\ \A j \in 1..Len(r) : (r \o e)[j] = r[j]
        /\ \A k \in 1..Len(e) : (r \o e)[Len(r) + k] = e[k]
    BY <2>3
  <2>7. ASSUME NEW i \in 1..n, NEW k \in 1..Len(seqs[i])
        PROVE  \E j \in 1..Len(r \o e) : (r \o e)[j] = seqs[i][k]
    <3>1. CASE i = n
      <4>1. Len(r) + k \in 1..Len(r \o e) /\ (r \o e)[Len(r) + k] = seqs[i][k]
        BY <2>5, <2>6, <3>1
      <4> QED BY <4>1
    <3>2. CASE i # n
      <4>1. i \in 1..(n - 1)
        BY <2>1, <3>2
      <4>2. PICK j \in 1..Len(r) : r[j] = seqs[i][k]
        BY <2>4, <4>1
      <4>3. j \in 1..Len(r \o e) /\ (r \o e)[j] = r[j]
        BY <2>6
      <4> QED BY <4>2, <4>3
    <3> QED BY <3>1, <3>2
  <2>8. ASSUME NEW j \in 1..Len(r \o e)
        PROVE  \E i \in 1..n : \E k \in 1..Len(seqs[i]) : (r \o e)[j] = seqs[i][k]
    <3>1. CASE j \in 1..Len(r)
      <4>1. PICK i \in 1..(n - 1) : \E k \in 1..Len(seqs[i]) : r[j] = seqs[i][k]
        BY <2>4, <3>1
      <4>2. i \in 1..n
        BY <2>1
      <4> QED BY <2>6, <3>1, <4>1, <4>2
    <3>2. CASE j \notin 1..Len(r)
      <4>1. j - Len(r) \in 1..Len(e) /\ j = Len(r) + (j - Len(r))
        BY <2>6, <3>2
      <4>2. (r \o e)[j] = e[j - Len(r)]
        BY <2>6, <4>1
      <4>3. n \in 1..n
        BY <2>1
      <4> QED BY <2>5, <4>1, <4>2, <4>3
    <3> QED BY <3>1, <3>2
  <2>9. Good(n)
    <3> DEFINE q == r \o e
    <3>1. P(n) = q
      BY <2>3
    <3>2. /\ \A i \in 1..n : \A k \in 1..Len(seqs[i]) : \E j \in 1..Len(q) : q[j] = seqs[i][k]
          /\ \A j \in 1..Len(q) : \E i \in 1..n : \E k \in 1..Len(seqs[i]) : q[j] = seqs[i][k]
      BY <2>7, <2>8
    <3> HIDE DEF q
    <3> QED BY <3>1, <3>2 DEF Good
  <2> QED BY <1>4, <2>9
<1> QED BY <1>5, <1>6

(* pos tells where each element of out has come from: from those of the first n that are kept. *)
KeptIn(out, n, kept, item, pos) ==
  /\ DOMAIN pos = 1..Len(out)
  /\ \A j \in 1..Len(out) : pos[j] \in 1..n /\ pos[j] \in kept /\ out[j] = item[pos[j]]
  /\ \A j, k \in 1..Len(out) : j < k => pos[j] < pos[k]
  /\ \A i \in 1..n : i \in kept => \E j \in 1..Len(out) : pos[j] = i

(* When each sequence has an item or nothing, the items are there in their order. *)
LEMMA FlattenKept ==
  ASSUME NEW S, NEW seqs \in Seq(Seq(S)), NEW kept, NEW item,
         \A i \in 1..Len(seqs) : seqs[i] = IF i \in kept THEN <<item[i]>> ELSE <<>>
  PROVE  \E pos : KeptIn(FlattenSeq(seqs), Len(seqs), kept, item, pos)
<1> DEFINE P(n) == FlattenSeq(SubSeq(seqs, 1, n))
           Good(n) == \E pos : KeptIn(P(n), n, kept, item, pos)
           Bad == {n \in 0..Len(seqs) : ~Good(n)}
<1>0. P(Len(seqs)) = FlattenSeq(seqs)
  BY SubSeqFull
<1> HIDE DEF P
<1>1. SUFFICES Good(Len(seqs))
  BY <1>0
<1> HIDE DEF Good
<1>2. SUFFICES ASSUME Bad # {} PROVE FALSE
  OBVIOUS
<1>3. PICK n \in Bad : \A j \in Bad : n <= j
  <2>1. Bad \in SUBSET Nat
    OBVIOUS
  <2> HIDE DEF Bad
  <2> QED BY <1>2, <2>1, LeastExists
<1>4. n \in 0..Len(seqs) /\ ~Good(n) /\ Len(seqs) \in Nat
  OBVIOUS
<1>5. CASE n = 0
  <2>0. SubSeq(seqs, 1, 0) = <<>>
    BY SubSeqEmpty
  <2>1. P(0) = <<>>
    BY <2>0, FlattenEmpty DEF P
  <2>2. KeptIn(<<>>, 0, kept, item, <<>>)
    BY DEF KeptIn
  <2> QED BY <1>4, <1>5, <2>1, <2>2 DEF Good
<1>6. CASE n # 0
  <2>1. n - 1 \in 0..Len(seqs) /\ ~(n <= n - 1) /\ n \in 1..Len(seqs) /\ n \in Nat
    BY <1>4, <1>6
  <2>2. Good(n - 1)
    <3>1. n - 1 \notin Bad
      <4> HIDE DEF Bad
      <4> QED BY <1>3, <2>1
    <3> QED BY <2>1, <3>1
  <2> DEFINE r == P(n - 1)
             e == seqs[n]
  <2>3. r \in Seq(S) /\ e \in Seq(S) /\ P(n) = r \o e
    BY <2>1, FlattenPrefix DEF P
  <2>4. PICK pos : KeptIn(r, n - 1, kept, item, pos)
    BY <2>2 DEF Good
  <2>5. e = IF n \in kept THEN <<item[n]>> ELSE <<>>
    BY <2>1
  <2> HIDE DEF r, e
  <2>6. Len(r) \in Nat
    BY <2>3
  <2>7. CASE n \notin kept
    <3>1. P(n) = r
      BY <2>3, <2>5, <2>7, ConcatEmptySeq
    <3>2. KeptIn(r, n, kept, item, pos)
      <4>1. \A i \in 1..n : i \in kept => i \in 1..(n - 1)
        BY <2>1, <2>7
      <4>2. 1..(n - 1) \subseteq 1..n
        BY <2>1
      <4> QED BY <2>4, <4>1, <4>2, ZenonT(30) DEF KeptIn
    <3> QED BY <1>4, <3>1, <3>2 DEF Good
  <2>8. CASE n \in kept
    <3> DEFINE q == r \o <<item[n]>>
               m == Len(r)
               more == [j \in 1..(m + 1) |-> IF j = m + 1 THEN n ELSE pos[j]]
    <3>0. <<item[n]>> \in Seq(S)
      BY <2>3, <2>5, <2>8
    <3>1. P(n) = q /\ Len(q) = m + 1 /\ q[m + 1] = item[n] /\ \A j \in 1..m : q[j] = r[j]
      BY <2>3, <2>5, <2>6, <2>8, <3>0
    <3>2. DOMAIN more = 1..(m + 1) /\ more[m + 1] = n /\ \A j \in 1..m : more[j] = pos[j]
      BY <2>6
    <3> HIDE DEF q, more
    <3>3. /\ \A j \in 1..m : pos[j] \in 1..(n - 1) /\ pos[j] \in kept /\ r[j] = item[pos[j]]
          /\ \A j, k \in 1..m : j < k => pos[j] < pos[k]
          /\ \A i \in 1..(n - 1) : i \in kept => \E j \in 1..m : pos[j] = i
      BY <2>4 DEF KeptIn
    <3>4. ASSUME NEW j \in 1..(m + 1)
          PROVE  more[j] \in 1..n /\ more[j] \in kept /\ q[j] = item[more[j]]
      <4>1. CASE j = m + 1
        BY <2>1, <2>8, <3>1, <3>2, <4>1
      <4>2. CASE j # m + 1
        <5>1. j \in 1..m
          BY <2>6, <4>2
        <5>2. pos[j] \in 1..n
          BY <2>1, <3>3, <5>1
        <5> QED BY <3>1, <3>2, <3>3, <5>1, <5>2
      <4> QED BY <4>1, <4>2
    <3>5. ASSUME NEW j \in 1..(m + 1), NEW k \in 1..(m + 1), j < k
          PROVE  more[j] < more[k]
      <4>1. j \in 1..m
        BY <2>6, <3>5
      <4>2. CASE k = m + 1
        <5>1. pos[j] \in 1..(n - 1)
          BY <3>3, <4>1
        <5> QED BY <2>1, <3>2, <4>1, <4>2, <5>1
      <4>3. CASE k # m + 1
        <5>1. k \in 1..m
          BY <2>6, <4>3
        <5> QED BY <3>2, <3>3, <3>5, <4>1, <5>1
      <4> QED BY <4>2, <4>3
    <3>6. ASSUME NEW i \in 1..n, i \in kept PROVE \E j \in 1..(m + 1) : more[j] = i
      <4>1. CASE i = n
        <5>1. m + 1 \in 1..(m + 1)
          BY <2>6
        <5> QED BY <3>2, <4>1, <5>1
      <4>2. CASE i # n
        <5>1. i \in 1..(n - 1)
          BY <2>1, <4>2
        <5>2. PICK j \in 1..m : pos[j] = i
          BY <3>3, <3>6, <5>1
        <5>3. j \in 1..(m + 1) /\ more[j] = i
          BY <2>6, <3>2, <5>2
        <5> QED BY <5>3
      <4> QED BY <4>1, <4>2
    <3>7. KeptIn(q, n, kept, item, more)
      BY <3>1, <3>2, <3>4, <3>5, <3>6 DEF KeptIn
    <3> QED BY <1>4, <3>1, <3>7 DEF Good
  <2> QED BY <2>7, <2>8
<1> QED BY <1>5, <1>6

(* One sequence after another. *)
LEMMA ConcatParts ==
  ASSUME NEW S, NEW a \in Seq(S), NEW b \in Seq(S)
  PROVE  /\ a \o b \in Seq(S) /\ Len(a \o b) = Len(a) + Len(b)
         /\ \A k \in 1..Len(a) : k \in 1..Len(a \o b) /\ (a \o b)[k] = a[k]
         /\ \A k \in 1..Len(b) : Len(a) + k \in 1..Len(a \o b) /\ (a \o b)[Len(a) + k] = b[k]
<1>1. /\ a \o b \in Seq(S) /\ Len(a \o b) = Len(a) + Len(b)
      /\ \A i \in 1..Len(a) + Len(b) : (a \o b)[i] = IF i <= Len(a) THEN a[i] ELSE b[i - Len(a)]
  BY ConcatProperties
<1>2. PICK m \in Nat, n \in Nat : m = Len(a) /\ n = Len(b)
  OBVIOUS
<1>3. ASSUME NEW k \in 1..m PROVE k \in 1..(m + n) /\ (a \o b)[k] = a[k]
  BY <1>1, <1>2
<1>4. ASSUME NEW k \in 1..n PROVE m + k \in 1..(m + n) /\ (a \o b)[m + k] = b[k]
  <2>1. m + k \in 1..(m + n) /\ ~(m + k <= m) /\ (m + k) - m = k
    OBVIOUS
  <2> QED BY <1>1, <1>2, <2>1
<1> QED BY <1>1, <1>2, <1>3, <1>4

(* Rows of one length. *)
LEMMA Products ==
  ASSUME NEW n \in Nat \ {0}, NEW w \in Nat
  PROVE  /\ (n - 1) * w \in Nat /\ n * w \in Nat
         /\ n * w = (n - 1) * w + w
         /\ \A i \in 1..n : (i - 1) * w + w <= n * w /\ (i - 1) * w \in Nat
<1>1. /\ (n - 1) * w \in Nat /\ n * w \in Nat
      /\ n * w = (n - 1) * w + w
  OBVIOUS
<1>2. ASSUME NEW i \in 1..n PROVE (i - 1) * w + w <= n * w /\ (i - 1) * w \in Nat
  <2>1. n * w = (i - 1) * w + w + (n - i) * w
    BY SMT
  <2>2. (n - i) * w \in Nat /\ (i - 1) * w \in Nat
    BY SMT
  <2> QED BY <2>1, <2>2
<1> QED BY <1>1, <1>2

(* Where the element of a row is in the rows one after another: the prefixes are *)
(* counted up to the first that would have it elsewhere.                         *)
LEMMA FlattenRows ==
  ASSUME NEW S, NEW rows \in Seq(Seq(S)), NEW w \in Nat, \A i \in 1..Len(rows) : Len(rows[i]) = w
  PROVE  /\ Len(FlattenSeq(rows)) = Len(rows) * w
         /\ \A i \in 1..Len(rows) : \A k \in 1..w :
              /\ (i - 1) * w + k \in 1..Len(FlattenSeq(rows))
              /\ FlattenSeq(rows)[(i - 1) * w + k] = rows[i][k]
<1> DEFINE P(n) == FlattenSeq(SubSeq(rows, 1, n))
           Good(n) == /\ Len(P(n)) = n * w
                      /\ \A i \in 1..n : \A k \in 1..w :
                           (i - 1) * w + k \in 1..Len(P(n)) /\ P(n)[(i - 1) * w + k] = rows[i][k]
           Bad == {n \in 0..Len(rows) : ~Good(n)}
<1>1. SUFFICES Good(Len(rows))
  <2>1. P(Len(rows)) = FlattenSeq(rows)
    <3>1. SubSeq(rows, 1, Len(rows)) = rows
      BY SubSeqFull
    <3> QED BY <3>1
  <2> HIDE DEF P
  <2> QED BY <2>1 DEF Good
<1> HIDE DEF Good, P
<1>2. SUFFICES ASSUME Bad # {} PROVE FALSE
  OBVIOUS
<1>3. PICK n \in Bad : \A j \in Bad : n <= j
  <2>1. Bad \in SUBSET Nat
    OBVIOUS
  <2> HIDE DEF Bad
  <2> QED BY <1>2, <2>1, LeastExists
<1>4. n \in 0..Len(rows) /\ ~Good(n) /\ Len(rows) \in Nat
  OBVIOUS
<1>5. CASE n = 0
  <2>1. SubSeq(rows, 1, 0) = <<>>
    BY SubSeqEmpty
  <2>2. P(0) = <<>>
    BY <2>1, FlattenEmpty DEF P
  <2>3. Len(<<>>) = 0 /\ 0 * w = 0 /\ 1..0 = {}
    OBVIOUS
  <2> QED BY <1>4, <1>5, <2>2, <2>3 DEF Good
<1>6. CASE n # 0
  <2>1. n - 1 \in 0..Len(rows) /\ ~(n <= n - 1) /\ n \in 1..Len(rows) /\ n \in Nat \ {0}
    BY <1>4, <1>6
  <2>2. Good(n - 1)
    <3>1. n - 1 \notin Bad
      <4> HIDE DEF Bad
      <4> QED BY <1>3, <2>1
    <3> QED BY <2>1, <3>1
  <2> DEFINE r == P(n - 1)
             e == rows[n]
             a == (n - 1) * w
  <2>3. r \in Seq(S) /\ e \in Seq(S) /\ P(n) = r \o e
    BY <2>1, FlattenPrefix DEF P
  <2>4. Len(e) = w /\ Len(r) = a
    BY <2>1, <2>2 DEF Good
  <2>5. \A i \in 1..(n - 1) : \A k \in 1..w : (i - 1) * w + k \in 1..Len(r) /\ r[(i - 1) * w + k] = rows[i][k]
    BY <2>2 DEF Good
  <2>6. a \in Nat /\ n * w = a + w
    BY <2>1, Products
  <2>7. e = rows[n] /\ a = (n - 1) * w
    OBVIOUS
  <2> HIDE DEF r, e, a
  <2>8. /\ Len(r \o e) = a + w
        /\ \A k \in 1..a : (r \o e)[k] = r[k]
        /\ \A k \in 1..w : (r \o e)[a + k] = e[k]
    <3>1. /\ Len(r \o e) = Len(r) + Len(e)
          /\ \A k \in 1..Len(r) : (r \o e)[k] = r[k]
          /\ \A k \in 1..Len(e) : (r \o e)[Len(r) + k] = e[k]
      BY <2>3, ConcatProperties
    <3> QED BY <2>4, <3>1
  <2>9. ASSUME NEW i \in 1..n, NEW k \in 1..w
        PROVE  (i - 1) * w + k \in 1..(a + w) /\ (r \o e)[(i - 1) * w + k] = rows[i][k]
    <3>1. CASE i = n
      <4>1. (i - 1) * w = a
        BY <2>7, <3>1
      <4>2. a + k \in 1..(a + w)
        <5>1. a \in Nat
          BY <2>6
        <5> QED BY <5>1
      <4>3. (r \o e)[a + k] = e[k]
        BY <2>8
      <4> QED BY <2>7, <3>1, <4>1, <4>2, <4>3
    <3>2. CASE i # n
      <4>1. i \in 1..(n - 1)
        BY <2>1, <3>2
      <4>2. (i - 1) * w + k \in 1..a /\ r[(i - 1) * w + k] = rows[i][k]
        BY <2>4, <2>5, <4>1
      <4> DEFINE m == (i - 1) * w + k
      <4> HIDE DEF m
      <4>3. m \in 1..a /\ r[m] = rows[i][k]
        BY <4>2 DEF m
      <4>4. m \in 1..(a + w) /\ (r \o e)[m] = rows[i][k]
        BY <2>6, <2>8, <4>3
      <4> QED BY <4>4 DEF m
    <3> QED BY <3>1, <3>2
  <2> QED BY <1>4, <2>3, <2>6, <2>8, <2>9 DEF Good
<1> QED BY <1>5, <1>6

(* f has the sums of the beginnings of q. *)
Sums(f, q) == \A k \in 0..Len(q) : f[k] = IF k = 0 THEN 0 ELSE f[k - 1] + q[k]

(* There are such sums: the longest there are cannot be those of a part of q. *)
LEMMA SumsExist ==
  ASSUME NEW q \in Seq(Int)
  PROVE  \E f : f = [k \in 0..Len(q) |-> IF k = 0 THEN 0 ELSE f[k - 1] + q[k]]
<1> DEFINE Upto(n, f) == f = [k \in 0..n |-> IF k = 0 THEN 0 ELSE f[k - 1] + q[k]]
           Bad == {n \in 0..Len(q) : ~\E f : Upto(n, f)}
<1>0. PICK N \in Nat : N = Len(q)
  OBVIOUS
<1>1. \E f : Upto(N, f)
  <2>1. SUFFICES ASSUME Bad # {} PROVE FALSE
    BY <1>0
  <2>2. PICK n \in Bad : \A j \in Bad : n <= j
    <3>1. Bad \in SUBSET Nat
      OBVIOUS
    <3> HIDE DEF Bad
    <3> QED BY <2>1, <3>1, LeastExists
  <2>3. n \in 0..N /\ ~\E f : Upto(n, f)
    BY <1>0
  <2>4. CASE n = 0
    <3>1. Upto(0, [k \in 0..0 |-> 0])
      OBVIOUS
    <3> QED BY <2>3, <2>4, <3>1
  <2>5. CASE n # 0
    <3>1. n - 1 \in 0..Len(q) /\ ~(n <= n - 1)
      BY <1>0, <2>3, <2>5
    <3>2. n - 1 \notin Bad
      <4> HIDE DEF Bad
      <4> QED BY <2>2, <3>1
    <3>3. PICK f : Upto(n - 1, f)
      <4>1. \E f : Upto(n - 1, f)
        BY <3>1, <3>2
      <4> HIDE DEF Upto
      <4> QED BY <4>1
    <3> DEFINE g == [k \in 0..n |-> IF k < n THEN f[k] ELSE f[n - 1] + q[n]]
    <3>4. ASSUME NEW k \in 0..n PROVE g[k] = IF k = 0 THEN 0 ELSE g[k - 1] + q[k]
      <4>1. CASE k = n
        <5>1. n - 1 \in 0..n /\ n - 1 < n /\ ~(n < n)
          BY <2>3, <2>5
        <5>2. g[n] = f[n - 1] + q[n] /\ g[n - 1] = f[n - 1]
          BY <5>1
        <5> HIDE DEF g
        <5> QED BY <2>5, <4>1, <5>2
      <4>2. CASE k # n
        <5>1. k \in 0..(n - 1) /\ k < n
          BY <2>3, <4>2
        <5>2. f[k] = IF k = 0 THEN 0 ELSE f[k - 1] + q[k]
          BY <3>3, <5>1
        <5>3. g[k] = f[k] /\ (k # 0 => g[k - 1] = f[k - 1])
          BY <2>3, <5>1
        <5> HIDE DEF g
        <5> QED BY <5>2, <5>3
      <4> QED BY <4>1, <4>2
    <3>5. Upto(n, g)
      <4>1. g = [k \in 0..n |-> g[k]]
        OBVIOUS
      <4> HIDE DEF g
      <4> QED BY <3>4, <4>1
    <3> QED BY <2>3, <3>5
  <2> QED BY <2>4, <2>5
<1> QED BY <1>0, <1>1

(* Sums of integers are integers. *)
LEMMA SumsTyped ==
  ASSUME NEW q \in Seq(Int), NEW f, Sums(f, q)
  PROVE  \A k \in 0..Len(q) : f[k] \in Int
<1> DEFINE Bad == {k \in 0..Len(q) : f[k] \notin Int}
<1>1. SUFFICES ASSUME Bad # {} PROVE FALSE
  OBVIOUS
<1>2. PICK n \in Bad : \A j \in Bad : n <= j
  <2>1. Bad \in SUBSET Nat
    OBVIOUS
  <2> HIDE DEF Bad
  <2> QED BY <1>1, <2>1, LeastExists
<1>3. n \in 0..Len(q) /\ f[n] \notin Int
  OBVIOUS
<1>4. n # 0 /\ f[n] = f[n - 1] + q[n]
  BY <1>3 DEF Sums
<1>5. n - 1 \in 0..Len(q) /\ ~(n <= n - 1) /\ n \in 1..Len(q)
  BY <1>3, <1>4
<1>6. n - 1 \notin Bad
  <2> HIDE DEF Bad
  <2> QED BY <1>2, <1>5
<1>7. f[n - 1] \in Int /\ q[n] \in Int
  BY <1>5, <1>6
<1> QED BY <1>3, <1>4, <1>7

(* Sequences that are alike but for one element. *)
AlikeBut(q, r, i) ==
  Len(r) = Len(q) /\ i \in 1..Len(q) /\ \A k \in 1..Len(q) : k # i => q[k] = r[k]

(* Their sums differ by what that element does. *)
LEMMA SumsApart ==
  ASSUME NEW q \in Seq(Int), NEW r \in Seq(Int), NEW i, AlikeBut(q, r, i),
         NEW f, Sums(f, q), NEW g, Sums(g, r)
  PROVE  f[Len(q)] - g[Len(q)] = q[i] - r[i]
<1>a. Len(r) = Len(q) /\ i \in 1..Len(q) /\ \A k \in 1..Len(q) : k # i => q[k] = r[k]
  BY DEF AlikeBut
<1>0. PICK N \in Nat : N = Len(q)
  OBVIOUS
<1>t. /\ \A k \in 0..N : f[k] \in Int /\ g[k] \in Int
      /\ \A k \in 1..N : q[k] \in Int /\ r[k] \in Int
  BY <1>0, <1>a, SumsTyped
<1>s. \A k \in 0..N : /\ f[k] = IF k = 0 THEN 0 ELSE f[k - 1] + q[k]
                      /\ g[k] = IF k = 0 THEN 0 ELSE g[k - 1] + r[k]
  BY <1>0, <1>a DEF Sums
<1> DEFINE Bad == {k \in 0..N : f[k] - g[k] # IF k < i THEN 0 ELSE q[i] - r[i]}
<1>1. ASSUME Bad # {} PROVE FALSE
  <2>2. PICK n \in Bad : \A j \in Bad : n <= j
    <3>1. Bad \in SUBSET Nat
      OBVIOUS
    <3> HIDE DEF Bad
    <3> QED BY <1>1, <3>1, LeastExists
  <2>3. n \in 0..N /\ f[n] - g[n] # IF n < i THEN 0 ELSE q[i] - r[i]
    OBVIOUS
  <2>4. n # 0
    BY <1>0, <1>a, <1>s, <2>3
  <2>5. n - 1 \in 0..N /\ ~(n <= n - 1) /\ n \in 1..N
    BY <2>3, <2>4
  <2>6. n - 1 \notin Bad
    <3> HIDE DEF Bad
    <3> QED BY <2>2, <2>5
  <2>7. f[n - 1] - g[n - 1] = IF n - 1 < i THEN 0 ELSE q[i] - r[i]
    BY <2>5, <2>6
  <2>8. f[n] = f[n - 1] + q[n] /\ g[n] = g[n - 1] + r[n]
    BY <1>s, <2>4, <2>5
  <2>9. /\ f[n - 1] \in Int /\ g[n - 1] \in Int /\ q[n] \in Int /\ r[n] \in Int
        /\ q[i] \in Int /\ r[i] \in Int /\ i \in 1..N
    BY <1>0, <1>a, <1>t, <2>5
  <2> HIDE DEF Bad
  <2>10. CASE n = i
    <3>1. f[n - 1] - g[n - 1] = 0 /\ ~(n < i)
      BY <2>5, <2>7, <2>10
    <3> QED BY <2>3, <2>8, <2>9, <2>10, <3>1
  <2>11. CASE n # i
    <3>1. q[n] = r[n] /\ ((n - 1 < i) = (n < i))
      BY <1>0, <1>a, <2>5, <2>9, <2>11
    <3>2. f[n] - g[n] = f[n - 1] - g[n - 1]
      BY <2>8, <2>9, <3>1
    <3> QED BY <2>3, <2>7, <3>1, <3>2
  <2> QED BY <2>10, <2>11
<1>2. N \in 0..N /\ ~(N < i)
  BY <1>0, <1>a
<1> QED BY <1>0, <1>1, <1>2

(* r is how q begins. *)
Begins(r, q) == Len(q) \in Nat /\ Len(r) \in 0..Len(q) /\ \A k \in 1..Len(r) : r[k] = q[k]

(* The sums of a beginning are those of the whole. *)
LEMMA SumsPart ==
  ASSUME NEW q, NEW r, NEW f, Sums(f, q), NEW g, Sums(g, r), Begins(r, q)
  PROVE  \A k \in 0..Len(r) : g[k] = f[k]
<1>0. Len(q) \in Nat /\ Len(r) \in 0..Len(q) /\ \A k \in 1..Len(r) : r[k] = q[k]
  BY DEF Begins
<1> DEFINE Bad == {k \in 0..Len(r) : g[k] # f[k]}
<1>1. SUFFICES ASSUME Bad # {} PROVE FALSE
  OBVIOUS
<1>2. PICK n \in Bad : \A j \in Bad : n <= j
  <2>1. Bad \in SUBSET Nat
    OBVIOUS
  <2> HIDE DEF Bad
  <2> QED BY <1>1, <2>1, LeastExists
<1>3. n \in 0..Len(r) /\ n \in 0..Len(q) /\ g[n] # f[n]
  BY <1>0
<1>4. n # 0
  BY <1>3 DEF Sums
<1>5. n - 1 \in 0..Len(r) /\ ~(n <= n - 1) /\ n \in 1..Len(r)
  BY <1>3, <1>4
<1>6. n - 1 \notin Bad
  <2> HIDE DEF Bad
  <2> QED BY <1>2, <1>5
<1>7. g[n - 1] = f[n - 1] /\ r[n] = q[n]
  BY <1>0, <1>5, <1>6
<1>8. f[n] = f[n - 1] + q[n] /\ g[n] = g[n - 1] + r[n]
  BY <1>3, <1>4 DEF Sums
<1> QED BY <1>3, <1>7, <1>8

(* Parts of n widths: each place up to their sum is in one of them. *)
Counted(f, ws, n) ==
  /\ \A k \in 0..n : f[k] \in Nat /\ f[k] <= f[n]
  /\ \A p \in 1..f[n] : \E k \in 1..n : \E j \in 1..ws[k] : p = f[k - 1] + j

(* So it is for every number of parts. *)
LEMMA SumsCounted ==
  ASSUME NEW ws \in Seq(Nat), NEW f, Sums(f, ws)
  PROVE  \A n \in 0..Len(ws) : Counted(f, ws, n)
<1> DEFINE Bad == {n \in 0..Len(ws) : ~Counted(f, ws, n)}
<1>1. SUFFICES ASSUME Bad # {} PROVE FALSE
  OBVIOUS
<1>2. PICK n \in Bad : \A j \in Bad : n <= j
  <2>1. Bad \in SUBSET Nat
    OBVIOUS
  <2> HIDE DEF Bad
  <2> QED BY <1>1, <2>1, LeastExists
<1>3. n \in 0..Len(ws) /\ ~Counted(f, ws, n) /\ Len(ws) \in Nat
  OBVIOUS
<1>4. CASE n = 0
  <2>1. f[0] = 0
    BY <1>3 DEF Sums
  <2>2. Counted(f, ws, 0)
    BY <2>1 DEF Counted
  <2> QED BY <1>3, <1>4, <2>2
<1>5. CASE n # 0
  <2>1. n - 1 \in 0..Len(ws) /\ ~(n <= n - 1) /\ n \in 1..Len(ws) /\ ws[n] \in Nat
    BY <1>3, <1>5
  <2>2. n - 1 \notin Bad
    <3> HIDE DEF Bad
    <3> QED BY <1>2, <2>1
  <2>3. Counted(f, ws, n - 1)
    BY <2>1, <2>2
  <2>4. f[n] = f[n - 1] + ws[n] /\ f[n - 1] \in Nat
    <3>1. f[n] = f[n - 1] + ws[n]
      BY <1>3, <1>5 DEF Sums
    <3>2. n - 1 \in 0..(n - 1)
      BY <2>1
    <3> QED BY <2>3, <3>1, <3>2 DEF Counted
  <2>5. ASSUME NEW k \in 0..n PROVE f[k] \in Nat /\ f[k] <= f[n]
    <3>1. CASE k = n
      BY <2>1, <2>4, <3>1
    <3>2. CASE k # n
      <4>1. k \in 0..(n - 1)
        BY <2>1, <3>2
      <4>2. f[k] \in Nat /\ f[k] <= f[n - 1]
        BY <2>3, <4>1 DEF Counted
      <4> QED BY <2>1, <2>4, <4>2
    <3> QED BY <3>1, <3>2
  <2>6. ASSUME NEW p \in 1..f[n] PROVE \E k \in 1..n : \E j \in 1..ws[k] : p = f[k - 1] + j
    <3>1. CASE p <= f[n - 1]
      <4>1. p \in 1..f[n - 1]
        BY <2>1, <2>4, <3>1
      <4>2. PICK k \in 1..(n - 1) : \E j \in 1..ws[k] : p = f[k - 1] + j
        BY <2>3, <4>1 DEF Counted
      <4>3. k \in 1..n
        BY <2>1
      <4> QED BY <4>2, <4>3
    <3>2. CASE p > f[n - 1]
      <4>1. p - f[n - 1] \in 1..ws[n] /\ p = f[n - 1] + (p - f[n - 1])
        BY <2>1, <2>4, <3>2
      <4>2. n \in 1..n
        BY <2>1
      <4> QED BY <4>1, <4>2
    <3> QED BY <2>4, <3>1, <3>2
  <2> QED BY <1>3, <2>5, <2>6 DEF Counted
<1> QED BY <1>4, <1>5

(* No place is in two of them. *)
LEMMA PlacesApart ==
  ASSUME NEW ws \in Seq(Nat), NEW f, Sums(f, ws),
         NEW k \in 1..Len(ws), NEW j \in 1..ws[k], NEW l \in 1..Len(ws), NEW i \in 1..ws[l],
         f[k - 1] + j = f[l - 1] + i
  PROVE  k = l /\ i = j
<1>1. ASSUME NEW a \in 1..Len(ws), NEW b \in 1..Len(ws), NEW x \in 1..ws[a], NEW y \in 1..ws[b], a < b
      PROVE  f[a - 1] + x < f[b - 1] + y
  <2>1. a \in 0..(b - 1) /\ b - 1 \in 0..Len(ws) /\ a \in 0..Len(ws) /\ a # 0 /\ a - 1 \in 0..Len(ws)
    BY <1>1
  <2>2. Counted(f, ws, b - 1)
    BY <2>1, SumsCounted
  <2>3. f[a] \in Nat /\ f[a] <= f[b - 1]
    BY <2>1, <2>2 DEF Counted
  <2>4. f[a] = f[a - 1] + ws[a]
    BY <2>1 DEF Sums
  <2>5. Counted(f, ws, a - 1) /\ a - 1 \in 0..(a - 1)
    BY <2>1, SumsCounted
  <2>6. f[a - 1] \in Nat
    BY <2>5 DEF Counted
  <2>7. b - 1 \in 0..(b - 1)
    BY <2>1
  <2>8. f[b - 1] \in Nat
    BY <2>2, <2>7 DEF Counted
  <2>9. ws[a] \in Nat
    OBVIOUS
  <2> DEFINE u == f[a - 1]
             v == f[a]
             t == f[b - 1]
             d == ws[a]
  <2>10. u \in Nat /\ v \in Nat /\ t \in Nat /\ d \in Nat /\ v = u + d /\ v <= t /\ x \in 1..d /\ y \in Nat /\ y > 0
    BY <2>3, <2>4, <2>6, <2>8, <2>9
  <2> HIDE DEF u, v, t, d
  <2>11. u + x < t + y
    BY <2>10
  <2> QED BY <2>11 DEF u, t
<1>2. ~(k < l) /\ ~(l < k)
  <2>1. ASSUME k < l PROVE FALSE
    <3>1. f[k - 1] + j < f[l - 1] + i
      BY <1>1, <2>1
    <3>2. f[l - 1] \in Nat
      <4>1. l - 1 \in 0..Len(ws) /\ l - 1 \in 0..(l - 1)
        OBVIOUS
      <4> QED BY <4>1, SumsCounted DEF Counted
    <3>3. ws[l] \in Nat
      OBVIOUS
    <3> QED BY <3>1, <3>2, <3>3
  <2>2. ASSUME l < k PROVE FALSE
    <3>1. f[l - 1] + i < f[k - 1] + j
      BY <1>1, <2>2
    <3>2. f[k - 1] \in Nat
      <4>1. k - 1 \in 0..Len(ws) /\ k - 1 \in 0..(k - 1)
        OBVIOUS
      <4> QED BY <4>1, SumsCounted DEF Counted
    <3>3. ws[k] \in Nat
      OBVIOUS
    <3> QED BY <3>1, <3>2, <3>3
  <2> QED BY <2>1, <2>2
<1>3. k = l
  BY <1>2
<1>4. f[k - 1] \in Nat /\ ws[k] \in Nat
  <2>1. k - 1 \in 0..Len(ws) /\ k - 1 \in 0..(k - 1)
    OBVIOUS
  <2> QED BY <2>1, SumsCounted DEF Counted
<1> QED BY <1>3, <1>4

(* Rows of any lengths that are joined: element k of a row is at that place of the row's part. *)
LEMMA FlattenParts ==
  ASSUME NEW S, NEW rows \in Seq(Seq(S)), NEW ws \in Seq(Nat), Len(ws) = Len(rows),
         \A i \in 1..Len(rows) : Len(rows[i]) = ws[i], NEW f, Sums(f, ws)
  PROVE  /\ Len(FlattenSeq(rows)) = f[Len(rows)]
         /\ \A i \in 1..Len(rows) : \A k \in 1..ws[i] :
              FlattenSeq(rows)[f[i - 1] + k] = rows[i][k]
<1> DEFINE P(n) == FlattenSeq(SubSeq(rows, 1, n))
           Good(n) == /\ Len(P(n)) = f[n]
                      /\ \A i \in 1..n : \A k \in 1..ws[i] : P(n)[f[i - 1] + k] = rows[i][k]
           Bad == {n \in 0..Len(rows) : ~Good(n)}
<1>1. SUFFICES Good(Len(rows))
  <2>1. P(Len(rows)) = FlattenSeq(rows)
    <3>1. SubSeq(rows, 1, Len(rows)) = rows
      BY SubSeqFull
    <3> QED BY <3>1
  <2> HIDE DEF P
  <2> QED BY <2>1 DEF Good
<1> HIDE DEF Good, P
<1>2. SUFFICES ASSUME Bad # {} PROVE FALSE
  OBVIOUS
<1>3. PICK n \in Bad : \A j \in Bad : n <= j
  <2>1. Bad \in SUBSET Nat
    OBVIOUS
  <2> HIDE DEF Bad
  <2> QED BY <1>2, <2>1, LeastExists
<1>4. n \in 0..Len(rows) /\ ~Good(n) /\ Len(rows) \in Nat /\ n \in 0..Len(ws)
  OBVIOUS
<1>5. CASE n = 0
  <2>1. SubSeq(rows, 1, 0) = <<>>
    BY SubSeqEmpty
  <2>2. P(0) = <<>>
    BY <2>1, FlattenEmpty DEF P
  <2>3. Len(<<>>) = 0 /\ f[0] = 0 /\ 1..0 = {}
    BY <1>4 DEF Sums
  <2> QED BY <1>4, <1>5, <2>2, <2>3 DEF Good
<1>6. CASE n # 0
  <2>1. n - 1 \in 0..Len(rows) /\ ~(n <= n - 1) /\ n \in 1..Len(rows) /\ n \in Nat \ {0}
        /\ n - 1 \in 0..Len(ws) /\ n \in 1..Len(ws)
    BY <1>4, <1>6
  <2>2. Good(n - 1)
    <3>1. n - 1 \notin Bad
      <4> HIDE DEF Bad
      <4> QED BY <1>3, <2>1
    <3> QED BY <2>1, <3>1
  <2> DEFINE r == P(n - 1)
             e == rows[n]
             a == f[n - 1]
             w == ws[n]
  <2>3. r \in Seq(S) /\ e \in Seq(S) /\ P(n) = r \o e
    BY <2>1, FlattenPrefix DEF P
  <2>4. Len(e) = w /\ Len(r) = a
    BY <2>1, <2>2 DEF Good
  <2>5. \A i \in 1..(n - 1) : \A k \in 1..ws[i] : r[f[i - 1] + k] = rows[i][k]
    BY <2>2 DEF Good
  <2>6. a \in Nat /\ w \in Nat /\ f[n] = a + w
    <3>1. Counted(f, ws, n - 1) /\ n - 1 \in 0..(n - 1)
      BY <2>1, SumsCounted
    <3>2. a \in Nat
      BY <3>1 DEF Counted
    <3>3. f[n] = a + w
      BY <1>4, <1>6 DEF Sums
    <3> QED BY <2>1, <3>2, <3>3
  <2>7. e = rows[n] /\ a = f[n - 1] /\ w = ws[n]
    OBVIOUS
  <2> HIDE DEF r, e, a, w
  <2>8. /\ Len(r \o e) = a + w
        /\ \A k \in 1..a : (r \o e)[k] = r[k]
        /\ \A k \in 1..w : (r \o e)[a + k] = e[k]
    <3>1. /\ Len(r \o e) = Len(r) + Len(e)
          /\ \A k \in 1..Len(r) : (r \o e)[k] = r[k]
          /\ \A k \in 1..Len(e) : (r \o e)[Len(r) + k] = e[k]
      BY <2>3, ConcatParts
    <3> QED BY <2>4, <3>1
  <2>9. ASSUME NEW i \in 1..n, NEW k \in 1..ws[i]
        PROVE  (r \o e)[f[i - 1] + k] = rows[i][k]
    <3>1. CASE i = n
      BY <2>7, <2>8, <3>1
    <3>2. CASE i # n
      <4>1. i \in 1..(n - 1) /\ i \in 1..Len(ws) /\ i \in 0..(n - 1) /\ i - 1 \in 0..(n - 1) /\ i # 0
            /\ i \in 0..Len(ws)
        BY <2>1, <3>2
      <4>2. r[f[i - 1] + k] = rows[i][k]
        BY <2>5, <4>1
      <4>3. f[i - 1] + k \in 1..a
        <5>1. Counted(f, ws, n - 1)
          BY <2>1, SumsCounted
        <5>2. f[i - 1] \in Nat /\ f[i] \in Nat /\ f[i] <= a
          BY <2>7, <4>1, <5>1 DEF Counted
        <5>3. f[i] = f[i - 1] + ws[i]
          BY <4>1 DEF Sums
        <5>4. ws[i] \in Nat
          BY <4>1
        <5> DEFINE u == f[i - 1]
                   v == f[i]
                   d == ws[i]
        <5>5. /\ u \in Nat /\ v \in Nat /\ d \in Nat /\ v = u + d /\ v <= a /\ k \in 1..d
              /\ f[i - 1] = u
          BY <5>2, <5>3, <5>4
        <5> HIDE DEF u, v, d
        <5>6. u + k \in 1..a
          BY <2>6, <5>5
        <5> QED BY <5>5, <5>6
      <4> QED BY <2>8, <4>2, <4>3
    <3> QED BY <3>1, <3>2
  <2> QED BY <1>4, <2>3, <2>6, <2>8, <2>9 DEF Good
<1> QED BY <1>5, <1>6

(* And a place in a part is one up to the sum of all. *)
LEMMA PartWithin ==
  ASSUME NEW ws \in Seq(Nat), NEW f, Sums(f, ws), NEW k \in 1..Len(ws), NEW j \in 1..ws[k]
  PROVE  f[k - 1] \in Nat /\ f[k - 1] + j \in 1..f[Len(ws)]
<1>1. Counted(f, ws, Len(ws))
  BY SumsCounted
<1>2. /\ f[k - 1] \in Nat /\ f[k] \in Nat /\ f[k] <= f[Len(ws)] /\ f[Len(ws)] \in Nat
  <2>1. k - 1 \in 0..Len(ws) /\ k \in 0..Len(ws) /\ Len(ws) \in 0..Len(ws)
    OBVIOUS
  <2> QED BY <1>1, <2>1 DEF Counted
<1>3. f[k] = f[k - 1] + ws[k]
  BY DEF Sums
<1>4. ws[k] \in Nat
  OBVIOUS
<1> DEFINE u == f[k - 1]
           v == f[k]
           d == ws[k]
           t == f[Len(ws)]
<1>5. u \in Nat /\ v \in Nat /\ d \in Nat /\ t \in Nat /\ v = u + d /\ v <= t /\ j \in 1..d
  BY <1>2, <1>3, <1>4
<1> HIDE DEF u, v, d, t
<1>6. u \in Nat /\ u + j \in 1..t
  BY <1>5
<1> QED BY <1>6 DEF u, t
=============================================================================
