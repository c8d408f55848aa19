--------------------------- MODULE SequenceLemmas ---------------------------
(***************************************************************************)
(* Lemmas about finite sequences that the proofs share, and about what is  *)
(* defined step by step along one: induction over the numbers comes from   *)
(* the least number of a set that has any, as the library has it for well- *)
(* founded relations.                                                      *)
(***************************************************************************)
EXTENDS Integers, SequencesExt, Functions, Filter, Sums, WellFoundedInduction, FiniteSetTheorems,
        SequenceTheorems, TLAPS

(* What is left when the i-th element is taken out: the gap is closed.     *)
LEMMA RemoveAtProperties ==
  ASSUME NEW T, NEW s \in Seq(T), NEW i \in 1..Len(s)
  PROVE  /\ RemoveAt(s, i) \in Seq(T)
         /\ Len(RemoveAt(s, i)) = Len(s) - 1
         /\ \A k \in 1..Len(s) - 1 :
              RemoveAt(s, i)[k] = IF k < i THEN s[k] ELSE s[k + 1]
<1>1. i \in Nat /\ Len(s) \in Nat /\ 1 <= i /\ i <= Len(s)
  OBVIOUS
<1>2. /\ SubSeq(s, 1, i - 1) \in Seq(T)
      /\ Len(SubSeq(s, 1, i - 1)) = i - 1
      /\ \A k \in 1..i - 1 : SubSeq(s, 1, i - 1)[k] = s[k]
  BY <1>1
<1>3. /\ SubSeq(s, i + 1, Len(s)) \in Seq(T)
      /\ Len(SubSeq(s, i + 1, Len(s))) = Len(s) - i
      /\ \A k \in 1..Len(s) - i : SubSeq(s, i + 1, Len(s))[k] = s[i + k]
  BY <1>1
<1>. DEFINE front == SubSeq(s, 1, i - 1)
            back  == SubSeq(s, i + 1, Len(s))
<1>. HIDE DEF front, back
<1>4. /\ front \o back \in Seq(T)
      /\ Len(front \o back) = Len(front) + Len(back)
      /\ \A k \in 1..Len(front) + Len(back) :
           (front \o back)[k] = IF k <= Len(front) THEN front[k] ELSE back[k - Len(front)]
  BY <1>2, <1>3, ConcatProperties DEF front, back
<1>5. ASSUME NEW k \in 1..Len(s) - 1
      PROVE  (front \o back)[k] = IF k < i THEN s[k] ELSE s[k + 1]
  <2>1. Len(front) = i - 1 /\ Len(back) = Len(s) - i
    BY <1>2, <1>3 DEF front, back
  <2>2. CASE k < i
    BY <1>1, <1>2, <1>4, <2>1, <2>2 DEF front
  <2>3. CASE k >= i
    <3>1. k - (i - 1) \in 1..Len(s) - i /\ i + (k - (i - 1)) = k + 1
      BY <1>1, <2>3
    <3>2. back[k - (i - 1)] = s[k + 1]
      BY <1>3, <3>1 DEF back
    <3>. QED  BY <1>1, <1>4, <2>1, <2>3, <3>2
  <2>4. k < i \/ k >= i
    BY <1>1
  <2>. QED  BY <2>2, <2>3, <2>4, Zenon
<1>6. Len(front) + Len(back) = Len(s) - 1
  <2>1. Len(front) = i - 1 /\ Len(back) = Len(s) - i
    BY <1>2, <1>3 DEF front, back
  <2>. QED  BY <1>1, <2>1
<1>7. RemoveAt(s, i) = front \o back
  BY DEF RemoveAt, front, back
<1>. QED  BY <1>4, <1>5, <1>6, <1>7

(* What the first n elements are.                                          *)
LEMMA PrefixProperties ==
  ASSUME NEW T, NEW s \in Seq(T), NEW n \in 0..Len(s)
  PROVE  /\ SubSeq(s, 1, n) \in Seq(T)
         /\ Len(SubSeq(s, 1, n)) = n
         /\ \A k \in 1..n : SubSeq(s, 1, n)[k] = s[k]
OBVIOUS

(* All elements of t are elements of s.                                    *)
Within(t, s) == \A k \in 1..Len(t) : \E l \in 1..Len(s) : t[k] = s[l]

(* What is left after RemoveAt was there before.                           *)
LEMMA RemoveAtWithin ==
  ASSUME NEW T, NEW s \in Seq(T), NEW i \in 1..Len(s)
  PROVE  Within(RemoveAt(s, i), s)
<1>1. ASSUME NEW k \in 1..Len(RemoveAt(s, i))
      PROVE  \E l \in 1..Len(s) : RemoveAt(s, i)[k] = s[l]
  <2>1. /\ k \in 1..Len(s) - 1
        /\ RemoveAt(s, i)[k] = IF k < i THEN s[k] ELSE s[k + 1]
    BY RemoveAtProperties
  <2>2. k \in 1..Len(s) /\ k + 1 \in 1..Len(s)
    BY <2>1
  <2>. QED  BY <2>1, <2>2
<1>. QED  BY <1>1 DEF Within

(* So was what is in a prefix.                                             *)
LEMMA PrefixWithin ==
  ASSUME NEW T, NEW s \in Seq(T), NEW n \in 0..Len(s)
  PROVE  Within(SubSeq(s, 1, n), s)
<1>1. /\ Len(SubSeq(s, 1, n)) = n
      /\ \A k \in 1..n : k \in 1..Len(s) /\ SubSeq(s, 1, n)[k] = s[k]
  BY PrefixProperties
<1>. QED  BY <1>1 DEF Within

(* So was what is in the tail.                                             *)
LEMMA TailWithin ==
  ASSUME NEW T, NEW s \in Seq(T), s # <<>>
  PROVE  Within(Tail(s), s)
<1>1. /\ Len(Tail(s)) = Len(s) - 1
      /\ \A k \in 1..Len(s) - 1 : k + 1 \in 1..Len(s) /\ Tail(s)[k] = s[k + 1]
  OBVIOUS
<1>. QED  BY <1>1 DEF Within

(* What an appended element adds to the elements of a sequence.            *)
LEMMA RangeOfAppend ==
  ASSUME NEW T, NEW s \in Seq(T), NEW e \in T
  PROVE  Range(Append(s, e)) = Range(s) \cup {e}
<1>1. /\ DOMAIN s = 1..Len(s) /\ DOMAIN Append(s, e) = 1..Len(s) + 1
      /\ \A k \in 1..Len(s) : Append(s, e)[k] = s[k]
      /\ Append(s, e)[Len(s) + 1] = e
      /\ Len(s) \in Nat
  BY AppendProperties
<1>. QED  BY <1>1 DEF Range

(* The elements of a sequence are its head and those of its tail.          *)
LEMMA RangeOfTail ==
  ASSUME NEW T, NEW s \in Seq(T), s # <<>>
  PROVE  /\ Head(s) \in T /\ Tail(s) \in Seq(T)
         /\ Range(s) = {Head(s)} \cup Range(Tail(s))
<1>1. /\ DOMAIN s = 1..Len(s) /\ DOMAIN Tail(s) = 1..Len(s) - 1
      /\ \A k \in 1..Len(s) - 1 : Tail(s)[k] = s[k + 1]
      /\ Head(s) = s[1] /\ Head(s) \in T /\ Tail(s) \in Seq(T)
      /\ Len(s) \in Nat \ {0}
  BY HeadTailProperties, EmptySeq
<1>2. ASSUME NEW k \in 1..Len(s) PROVE s[k] \in {Head(s)} \cup Range(Tail(s))
  <2>1. CASE k = 1
    BY <1>1, <2>1
  <2>2. CASE k # 1
    <3>1. k - 1 \in DOMAIN Tail(s) /\ Tail(s)[k - 1] = s[k]
      BY <1>1, <2>2
    <3>. QED  BY <3>1 DEF Range
  <2>. QED  BY <2>1, <2>2
<1>3. ASSUME NEW k \in 1..Len(s) - 1 PROVE Tail(s)[k] \in Range(s)
  BY <1>1, <1>3 DEF Range
<1>4. Head(s) \in Range(s)
  BY <1>1 DEF Range
<1>. QED  BY <1>1, <1>2, <1>3, <1>4 DEF Range

(* The elements of two sequences in a row are those of the two.            *)
LEMMA RangeOfConcat ==
  ASSUME NEW T, NEW s \in Seq(T), NEW t \in Seq(T)
  PROVE  Range(s \o t) = Range(s) \cup Range(t)
<1>1. /\ DOMAIN s = 1..Len(s) /\ DOMAIN t = 1..Len(t) /\ DOMAIN (s \o t) = 1..Len(s) + Len(t)
      /\ \A k \in 1..Len(s) + Len(t) :
           (s \o t)[k] = IF k <= Len(s) THEN s[k] ELSE t[k - Len(s)]
      /\ Len(s) \in Nat /\ Len(t) \in Nat
  BY ConcatProperties
<1>2. ASSUME NEW k \in 1..Len(t) PROVE t[k] = (s \o t)[Len(s) + k] /\ Len(s) + k \in DOMAIN (s \o t)
  BY <1>1
<1>3. ASSUME NEW k \in 1..Len(s) PROVE s[k] = (s \o t)[k] /\ k \in DOMAIN (s \o t)
  BY <1>1
<1>4. ASSUME NEW k \in 1..Len(s) + Len(t) PROVE (s \o t)[k] \in Range(s) \cup Range(t)
  <2>1. CASE k <= Len(s)
    BY <1>1, <2>1 DEF Range
  <2>2. CASE ~(k <= Len(s))
    <3>1. k - Len(s) \in 1..Len(t)
      BY <1>1, <2>2
    <3>. QED  BY <1>1, <2>2, <3>1 DEF Range
  <2>. QED  BY <2>1, <2>2
<1>5. Range(s) \subseteq Range(s \o t)
  BY <1>1, <1>3 DEF Range
<1>6. Range(t) \subseteq Range(s \o t)
  <2>. SUFFICES ASSUME NEW x \in Range(t) PROVE x \in Range(s \o t)
    OBVIOUS
  <2>1. PICK k \in 1..Len(t) : x = t[k]
    BY <1>1, Zenon DEF Range
  <2>2. x = (s \o t)[Len(s) + k] /\ Len(s) + k \in DOMAIN (s \o t)
    BY <1>2, <2>1, Zenon
  <2>. QED  BY <2>2, Zenon DEF Range
<1>7. Range(s \o t) \subseteq Range(s) \cup Range(t)
  BY <1>1, <1>4 DEF Range
<1>. QED  BY <1>5, <1>6, <1>7

(* An empty sequence has no elements.                                      *)
LEMMA RangeOfEmpty == Range(<<>>) = {}
BY DEF Range

-----------------------------------------------------------------------------
(* Induction over numbers, and what is defined step by step                *)

(* There is a least number in every set of numbers that has any.           *)
LEMMA LeastNumber ==
  ASSUME NEW S \in SUBSET Nat, S # {}
  PROVE  \E n \in S : \A m \in S : n <= m
<1> DEFINE R == {ss \in Nat \X Nat : ss[1] < ss[2]}
<1>1. IsWellFoundedOn(R, Nat)
  BY NatLessThanWellFounded DEF OpToRel
<1>. HIDE DEF R
<1>2. PICK n \in S : \A y \in S : ~(<<y, n>> \in R)
  BY <1>1, WFMin
<1>3. ASSUME NEW m \in S PROVE n <= m
  <2>1. m < n => <<m, n>> \in R
    BY DEF R
  <2>. QED  BY <1>2, <2>1
<1>. QED
  BY <1>3

(* Induction: a set that has 0, and with a number the next, has them all.  *)
LEMMA EveryNumber ==
  ASSUME NEW S \in SUBSET Nat, 0 \in S, \A n \in S : n + 1 \in S
  PROVE  S = Nat
<1> DEFINE T == Nat \ S
<1>1. SUFFICES ASSUME T # {} PROVE FALSE
  OBVIOUS
<1>2. PICK n \in T : \A m \in T : n <= m
  BY <1>1, LeastNumber
<1>3. n # 0 /\ n - 1 \in S
  BY <1>2
<1>. QED  BY <1>2, <1>3

(* The first value of g and each that follows from the one before it.      *)
Steps(g, n, T, first, step) ==
  /\ g \in [0..n -> T] /\ g[0] = first
  /\ \A i \in 1..n : g[i] = step[<<i, g[i - 1]>>]

(* A function may be defined by its value at 0 and by a step from each     *)
(* value to the next.                                                      *)
LEMMA StepByStep ==
  ASSUME NEW T, NEW n \in Nat, NEW first \in T, NEW step \in [(1..n) \X T -> T]
  PROVE  \E g : Steps(g, n, T, first, step)
<1> DEFINE Good(m, g) == g[0] = first /\ \A i \in 1..m : g[i] = step[<<i, g[i - 1]>>]
           S == {m \in Nat : m <= n => \E g \in [0..m -> T] : Good(m, g)}
<1>1. 0 \in S
  <2>1. [i \in 0..0 |-> first] \in [0..0 -> T] /\ Good(0, [i \in 0..0 |-> first])
    OBVIOUS
  <2>. QED  BY <2>1
<1>2. ASSUME NEW m \in S PROVE m + 1 \in S
  <2>. SUFFICES ASSUME m + 1 <= n PROVE \E g \in [0..(m + 1) -> T] : Good(m + 1, g)
    OBVIOUS
  <2>1. PICK g \in [0..m -> T] : Good(m, g)
    BY <1>2
  <2>. HIDE DEF S
  <2> DEFINE h == [i \in 0..(m + 1) |-> IF i <= m THEN g[i] ELSE step[<<m + 1, g[m]>>]]
  <2>2. m \in Nat
    BY DEF S
  <2>3. step[<<m + 1, g[m]>>] \in T
    BY <2>2
  <2>4. h \in [0..(m + 1) -> T]
    BY <2>2, <2>3
  <2>5. h[0] = first
    BY <2>1, <2>2
  <2>6. ASSUME NEW i \in 1..(m + 1) PROVE h[i] = step[<<i, h[i - 1]>>]
    <3>. HIDE DEF Good
    <3>1. CASE i = m + 1
      <4>1. h[m + 1] = step[<<m + 1, g[m]>>] /\ h[m] = g[m] /\ i - 1 = m
        BY <2>2, <3>1
      <4>. QED  BY <3>1, <4>1
    <3>2. CASE i # m + 1
      <4>1. i \in 1..m /\ i \in 0..m /\ i - 1 \in 0..m /\ i - 1 <= m
        BY <2>2, <3>2
      <4>2. h[i] = g[i] /\ h[i - 1] = g[i - 1]
        BY <2>2, <4>1
      <4>3. g[i] = step[<<i, g[i - 1]>>]
        BY <2>1, <4>1 DEF Good
      <4>. QED  BY <4>2, <4>3
    <3>. QED  BY <3>1, <3>2
  <2>. QED  BY <2>4, <2>5, <2>6
<1>3. S = Nat
  <2>1. S \in SUBSET Nat
    OBVIOUS
  <2>. HIDE DEF S
  <2>. QED  BY <1>1, <1>2, <2>1, EveryNumber
<1>. QED  BY <1>3 DEF Steps

(* What FlattenSeq defines by recursion.                                   *)
FlatEq(g, seqs) == g = [i \in 1..Len(seqs) |-> IF i = 1 THEN seqs[i] ELSE g[i - 1] \o seqs[i]]

(* The elements of the sequences in seqs.                                  *)
Elements(seqs) == UNION {Range(seqs[i]) : i \in DOMAIN seqs}

(* What is put in a row step by step has the elements of all its parts.    *)
LEMMA InARow ==
  ASSUME NEW T, NEW N \in Nat \ {0}, NEW seqs \in [1..N -> Seq(T)], NEW f,
         f[1] = seqs[1], \A i \in 2..N : f[i] = f[i - 1] \o seqs[i]
  PROVE  f[N] \in Seq(T) /\ Range(f[N]) = Elements(seqs)
<1> DEFINE Good(n) == /\ f[n] \in Seq(T)
                      /\ \A x : x \in Range(f[n]) <=> \E i \in 1..n : x \in Range(seqs[i])
           S == {n \in Nat : n + 1 <= N => Good(n + 1)}
<1>1. Good(1)
  <2>1. seqs[1] \in Seq(T) /\ 1..1 = {1}
    OBVIOUS
  <2>. QED  BY <2>1
<1>2. ASSUME NEW n \in Nat, n + 2 <= N, Good(n + 1) PROVE Good(n + 2)
  <2>1. n + 2 \in 2..N /\ (n + 2) - 1 = n + 1 /\ n + 2 \in 1..N
    BY <1>2
  <2>2. f[n + 2] = f[n + 1] \o seqs[n + 2] /\ seqs[n + 2] \in Seq(T)
    BY <2>1
  <2>3. Range(f[n + 2]) = Range(f[n + 1]) \cup Range(seqs[n + 2])
    BY <1>2, <2>2, RangeOfConcat
  <2>4. 1..(n + 2) = 1..(n + 1) \cup {n + 2}
    BY <1>2
  <2>5. f[n + 2] \in Seq(T)
    BY <1>2, <2>2
  <2>. QED  BY <1>2, <2>3, <2>4, <2>5
<1>. HIDE DEF Good
<1>3. 0 \in S
  BY <1>1
<1>4. ASSUME NEW n \in S PROVE n + 1 \in S
  BY <1>2
<1>5. S = Nat
  <2>1. S \in SUBSET Nat
    OBVIOUS
  <2>. HIDE DEF S
  <2>. QED  BY <1>3, <1>4, <2>1, EveryNumber
<1>6. N - 1 \in Nat /\ (N - 1) + 1 = N
  OBVIOUS
<1>7. Good((N - 1) + 1)
  <2>1. N - 1 \in S /\ (N - 1) + 1 <= N
    <3>1. (N - 1) + 1 <= N
      BY <1>6
    <3>. HIDE DEF S
    <3>. QED  BY <1>5, <1>6, <3>1
  <2>. QED  BY <2>1
<1>8. \A x : x \in Range(f[N]) <=> x \in Elements(seqs)
  <2>1. DOMAIN seqs = 1..N
    OBVIOUS
  <2>. QED  BY <1>6, <1>7, <2>1 DEF Good, Elements
<1>. QED  BY <1>6, <1>7, <1>8 DEF Good

(* FlattenSeq is defined by a function of which there is one.              *)
LEMMA FlatGiven ==
  ASSUME NEW T, NEW seqs \in Seq(Seq(T)), Len(seqs) # 0
  PROVE  \E g : FlatEq(g, seqs)
<1> DEFINE N == Len(seqs)
           step == [p \in (1..(N - 1)) \X Seq(T) |-> p[2] \o seqs[p[1] + 1]]
<1>1. N \in Nat \ {0} /\ \A i \in 1..N : seqs[i] \in Seq(T)
  OBVIOUS
<1>2. step \in [(1..(N - 1)) \X Seq(T) -> Seq(T)]
  BY <1>1
<1>3. \E g : Steps(g, N - 1, Seq(T), seqs[1], step)
  <2>1. N - 1 \in Nat /\ seqs[1] \in Seq(T)
    BY <1>1
  <2>. HIDE DEF step, N
  <2>. QED  BY <1>2, <2>1, StepByStep
<1>4. PICK g \in [0..(N - 1) -> Seq(T)] :
         g[0] = seqs[1] /\ \A i \in 1..(N - 1) : g[i] = step[<<i, g[i - 1]>>]
  BY <1>3 DEF Steps
<1> DEFINE h == [i \in 1..N |-> g[i - 1]]
<1>5. ASSUME NEW i \in 1..N PROVE h[i] = IF i = 1 THEN seqs[i] ELSE h[i - 1] \o seqs[i]
  <2>1. CASE i = 1
    BY <1>1, <1>4, <2>1
  <2>2. CASE i # 1
    <3>1. i - 1 \in 1..(N - 1) /\ i - 1 \in 1..N /\ (i - 1) - 1 \in 0..(N - 1)
      BY <1>1, <2>2
    <3>2. step[<<i - 1, g[(i - 1) - 1]>>] = g[(i - 1) - 1] \o seqs[(i - 1) + 1]
      BY <1>4, <3>1
    <3>3. h[i] = g[i - 1] /\ h[i - 1] = g[(i - 1) - 1] /\ (i - 1) + 1 = i
      BY <3>1
    <3>. QED  BY <1>4, <2>2, <3>1, <3>2, <3>3
  <2>. QED  BY <2>1, <2>2
<1>6. FlatEq(h, seqs)
  BY <1>5 DEF FlatEq
<1>. QED  BY <1>6

(* FlattenSeq puts the sequences in a row: the elements are all of theirs. *)
LEMMA Flattened ==
  ASSUME NEW T, NEW seqs \in Seq(Seq(T))
  PROVE  /\ FlattenSeq(seqs) \in Seq(T)
         /\ Range(FlattenSeq(seqs)) = Elements(seqs)
<1>1. CASE Len(seqs) = 0
  <2>1. seqs = <<>> /\ FlattenSeq(seqs) = <<>>
    BY <1>1 DEF FlattenSeq
  <2>2. Range(<<>>) = {} /\ <<>> \in Seq(T) /\ Len(<<>>) = 0
    BY RangeOfEmpty
  <2>3. 1..Len(seqs) = {}
    BY <1>1
  <2>4. DOMAIN seqs = 1..Len(seqs)
    OBVIOUS
  <2>5. Elements(seqs) = {}
    BY <2>3, <2>4 DEF Elements
  <2>. QED  BY <2>1, <2>2, <2>5
<1>2. CASE Len(seqs) # 0
  <2> DEFINE f == CHOOSE g : FlatEq(g, seqs)
  <2>1. FlatEq(f, seqs)
    BY <1>2, FlatGiven
  <2>2. FlattenSeq(seqs) = f[Len(seqs)]
    BY <1>2 DEF FlattenSeq, FlatEq
  <2>. HIDE DEF f
  <2>3. f = [i \in 1..Len(seqs) |-> IF i = 1 THEN seqs[i] ELSE f[i - 1] \o seqs[i]]
    BY <2>1 DEF FlatEq
  <2>4. \A i \in 1..Len(seqs) : f[i] = IF i = 1 THEN seqs[i] ELSE f[i - 1] \o seqs[i]
    BY <2>3
  <2>5. Len(seqs) \in Nat \ {0} /\ seqs \in [1..Len(seqs) -> Seq(T)]
    BY <1>2
  <2>6. f[1] = seqs[1] /\ \A i \in 2..Len(seqs) : f[i] = f[i - 1] \o seqs[i]
    <3> DEFINE N == Len(seqs)
    <3>1. N \in Nat \ {0} /\ \A i \in 1..N : f[i] = IF i = 1 THEN seqs[i] ELSE f[i - 1] \o seqs[i]
      BY <2>4, <2>5
    <3>. HIDE DEF N
    <3>2. f[1] = seqs[1] /\ \A i \in 2..N : f[i] = f[i - 1] \o seqs[i]
      <4>1. 1 \in 1..N /\ \A i \in 2..N : i \in 1..N /\ i # 1
        BY <3>1
      <4>. QED  BY <3>1, <4>1
    <3>. QED  BY <3>2 DEF N
  <2> DEFINE N == Len(seqs)
  <2>7. /\ N \in Nat \ {0} /\ seqs \in [1..N -> Seq(T)]
        /\ f[1] = seqs[1] /\ \A i \in 2..N : f[i] = f[i - 1] \o seqs[i]
    BY <2>5, <2>6
  <2>. HIDE DEF N
  <2>8. f[N] \in Seq(T) /\ Range(f[N]) = Elements(seqs)
    <3>1. N \in Nat \ {0}
      BY <2>7, Zenon
    <3>2. seqs \in [1..N -> Seq(T)]
      BY <2>7, Zenon
    <3>3. f[1] = seqs[1]
      BY <2>7, Zenon
    <3>4. \A i \in 2..N : f[i] = f[i - 1] \o seqs[i]
      BY <2>7, Zenon
    <3>. QED  BY ONLY <3>1, <3>2, <3>3, <3>4, InARow, ZenonT(30)
  <2>. QED  BY <2>2, <2>8 DEF N
<1>. QED  BY <1>1, <1>2

(* SetToSeq lists each element of a finite set once.                       *)
LEMMA Listed ==
  ASSUME NEW S, IsFiniteSet(S)
  PROVE  /\ SetToSeq(S) \in Seq(S) /\ Range(SetToSeq(S)) = S
         /\ \A i, j \in DOMAIN SetToSeq(S) : SetToSeq(S)[i] = SetToSeq(S)[j] => i = j
<1>1. Cardinality(S) \in Nat /\ ExistsBijection(1..Cardinality(S), S)
  BY FS_CardinalityType
<1>2. PICK f : f \in Bijection(1..Cardinality(S), S)
  BY <1>1 DEF ExistsBijection
<1>3. f \in [1..Cardinality(S) -> S] /\ IsInjective(f)
  BY <1>2 DEF Bijection, Injection, IsInjective
<1>4. SetToSeq(S) \in [1..Cardinality(S) -> S] /\ IsInjective(SetToSeq(S))
  BY <1>3 DEF SetToSeq
<1>5. SetToSeq(S) \in Injection(1..Cardinality(S), S)
  BY <1>4 DEF Injection, IsInjective
<1>6. IsFiniteSet(1..Cardinality(S)) /\ Cardinality(1..Cardinality(S)) = Cardinality(S)
  BY <1>1, FS_Interval
<1>7. SetToSeq(S) \in Surjection(1..Cardinality(S), S)
  BY <1>5, <1>6, FS_Injection
<1>8. Range(SetToSeq(S)) = S
  BY <1>4, <1>7 DEF Surjection, Range
<1>. QED  BY <1>1, <1>4, <1>8 DEF IsInjective

-----------------------------------------------------------------------------
(* Only                                                                    *)

(* The elements of a list are there once each.                             *)
Once(list) == \A i, j \in DOMAIN list : list[i] = list[j] => i = j

(* How Only goes through a list: what it has after i elements.             *)
Filters(f, n, list, S) ==
  /\ f[0] = <<>>
  /\ \A i \in 1..n : f[i] = IF list[i] \in S THEN Append(f[i - 1], list[i]) ELSE f[i - 1]

(* What Only defines by recursion, and                                     *)
OnlyEq(f, list, S) ==
  f = [i \in 0..Len(list) |->
         IF i = 0 THEN <<>>
         ELSE IF list[i] \in S THEN Append(f[i - 1], list[i]) ELSE f[i - 1]]

(* that there is such a function.                                          *)
LEMMA OnlyGiven ==
  ASSUME NEW T, NEW list \in Seq(T), NEW S
  PROVE  \E f : OnlyEq(f, list, S)
<1> DEFINE n == Len(list)
           step == [p \in (1..n) \X Seq(T) |-> IF list[p[1]] \in S THEN Append(p[2], list[p[1]]) ELSE p[2]]
<1>1. n \in Nat /\ \A i \in 1..n : list[i] \in T
  OBVIOUS
<1>2. step \in [(1..n) \X Seq(T) -> Seq(T)]
  BY <1>1
<1>3. \E g : Steps(g, n, Seq(T), <<>>, step)
  <2>1. <<>> \in Seq(T)
    OBVIOUS
  <2>. HIDE DEF step, n
  <2>. QED  BY <1>1, <1>2, <2>1, StepByStep
<1>4. PICK g \in [0..n -> Seq(T)] :
         g[0] = <<>> /\ \A i \in 1..n : g[i] = step[<<i, g[i - 1]>>]
  BY <1>3 DEF Steps
<1>5. ASSUME NEW i \in 0..n
      PROVE  g[i] = IF i = 0 THEN <<>>
                    ELSE IF list[i] \in S THEN Append(g[i - 1], list[i]) ELSE g[i - 1]
  <2>1. CASE i = 0
    BY <1>4, <2>1
  <2>2. CASE i # 0
    <3>1. i \in 1..n /\ i - 1 \in 0..n
      BY <1>1, <2>2
    <3>2. step[<<i, g[i - 1]>>] = IF list[i] \in S THEN Append(g[i - 1], list[i]) ELSE g[i - 1]
      BY <1>4, <3>1
    <3>. QED  BY <1>4, <2>2, <3>1, <3>2
  <2>. QED  BY <2>1, <2>2
<1>6. OnlyEq(g, list, S)
  BY <1>4, <1>5 DEF OnlyEq
<1>. QED  BY <1>6

(* Only goes through its list.                                             *)
LEMMA OnlyFilters ==
  ASSUME NEW T, NEW list \in Seq(T), NEW S
  PROVE  \E f : Filters(f, Len(list), list, S) /\ Only(list, S) = f[Len(list)]
<1> DEFINE f == CHOOSE g : OnlyEq(g, list, S)
<1>1. OnlyEq(f, list, S)
  BY OnlyGiven
<1>2. Only(list, S) = f[Len(list)]
  BY DEF Only, OnlyEq
<1>. HIDE DEF f
<1> DEFINE n == Len(list)
<1>3. n \in Nat /\ \A i \in 0..n : f[i] = IF i = 0 THEN <<>>
           ELSE IF list[i] \in S THEN Append(f[i - 1], list[i]) ELSE f[i - 1]
  <2>1. f = [i \in 0..n |-> IF i = 0 THEN <<>>
                           ELSE IF list[i] \in S THEN Append(f[i - 1], list[i]) ELSE f[i - 1]]
    BY <1>1 DEF OnlyEq
  <2>2. n \in Nat
    OBVIOUS
  <2>. HIDE DEF n
  <2>. QED  BY <2>1, <2>2, Zenon
<1>. HIDE DEF n
<1>4. Filters(f, n, list, S)
  <2>1. 0 \in 0..n /\ \A i \in 1..n : i \in 0..n /\ i # 0
    BY <1>3
  <2>. QED  BY <1>3, <2>1 DEF Filters
<1>. QED  BY <1>2, <1>4 DEF n

(* What it has after i elements, of whatever it goes through.              *)
LEMMA FiltersTyped ==
  ASSUME NEW T, NEW n \in Nat, NEW list \in [1..n -> T], NEW S, NEW f, Filters(f, n, list, S)
  PROVE  /\ f[n] \in Seq(T)
         /\ \A x : x \in Range(f[n]) <=> x \in S /\ \E i \in 1..n : x = list[i]
         /\ Once(list) => Once(f[n])
<1> DEFINE Good(m) == /\ f[m] \in Seq(T)
                      /\ \A x : x \in Range(f[m]) <=> x \in S /\ \E i \in 1..m : x = list[i]
                      /\ Once(list) => Once(f[m])
           N == {m \in Nat : m <= n => Good(m)}
<1>1. Good(0)
  <2>1. f[0] = <<>> /\ DOMAIN <<>> = {} /\ 1..0 = {}
    BY DEF Filters
  <2>. QED  BY <2>1, RangeOfEmpty DEF Once
<1>2. ASSUME NEW m \in Nat, m + 1 <= n, Good(m) PROVE Good(m + 1)
  <2>1. m + 1 \in 1..n /\ (m + 1) - 1 = m /\ list[m + 1] \in T
    BY <1>2
  <2>2. 1..(m + 1) = 1..m \cup {m + 1} /\ m + 1 \notin 1..m /\ \A i \in 1..m : i \in 1..n
    BY <1>2
  <2>3. CASE list[m + 1] \in S
    <3>1. f[m + 1] = Append(f[m], list[m + 1])
      BY <2>1, <2>3 DEF Filters
    <3>2. f[m + 1] \in Seq(T) /\ Range(f[m + 1]) = Range(f[m]) \cup {list[m + 1]}
      BY <1>2, <2>1, <3>1, RangeOfAppend
    <3>3. ASSUME Once(list) PROVE Once(f[m + 1])
      <4>1. list[m + 1] \notin Range(f[m])
        BY <1>2, <2>1, <2>2, <3>3 DEF Once
      <4>2. \A i \in DOMAIN f[m] : f[m][i] # list[m + 1]
        BY <4>1 DEF Range
      <4>3. Len(f[m]) \in Nat /\ DOMAIN f[m] = 1..Len(f[m])
        BY <1>2
      <4>4. /\ DOMAIN f[m + 1] = 1..(Len(f[m]) + 1) /\ f[m + 1][Len(f[m]) + 1] = list[m + 1]
            /\ \A i \in 1..Len(f[m]) : f[m + 1][i] = f[m][i]
        BY <1>2, <2>1, <3>1
      <4>5. Once(f[m])
        BY <1>2, <3>3
      <4>. HIDE DEF Good
      <4>6. ASSUME NEW i \in DOMAIN f[m + 1], NEW j \in DOMAIN f[m + 1], f[m + 1][i] = f[m + 1][j]
            PROVE  i = j
        <5>1. /\ i = Len(f[m]) + 1 \/ i \in DOMAIN f[m]
              /\ j = Len(f[m]) + 1 \/ j \in DOMAIN f[m]
          BY <4>3, <4>4
        <5>2. CASE i \in DOMAIN f[m] /\ j \in DOMAIN f[m]
          BY <4>3, <4>4, <4>5, <4>6, <5>2, Zenon DEF Once
        <5>3. CASE i \in DOMAIN f[m] /\ j = Len(f[m]) + 1
          BY <4>2, <4>3, <4>4, <4>6, <5>3, Zenon
        <5>4. CASE i = Len(f[m]) + 1 /\ j \in DOMAIN f[m]
          BY <4>2, <4>3, <4>4, <4>6, <5>4, Zenon
        <5>. QED  BY <5>1, <5>2, <5>3, <5>4, Zenon
      <4>. QED  BY <4>6, Zenon DEF Once
    <3>. QED  BY <1>2, <2>2, <2>3, <3>2, <3>3
  <2>4. CASE list[m + 1] \notin S
    <3>1. f[m + 1] = f[m]
      BY <2>1, <2>4 DEF Filters
    <3>. QED  BY <1>2, <2>2, <2>4, <3>1
  <2>. QED  BY <2>3, <2>4
<1>. HIDE DEF Good
<1>3. N = Nat
  <2>1. 0 \in N /\ \A m \in N : m + 1 \in N
    BY <1>1, <1>2
  <2>2. N \in SUBSET Nat
    OBVIOUS
  <2>. HIDE DEF N
  <2>. QED  BY <2>1, <2>2, EveryNumber
<1>4. Good(n)
  <2>1. n \in N /\ n <= n
    <3>. HIDE DEF N
    <3>. QED  BY <1>3
  <2>. QED  BY <2>1
<1>. QED  BY <1>4 DEF Good

(* Going through the same elements gives the same.                         *)
LEMMA FiltersSame ==
  ASSUME NEW n \in Nat, NEW S, NEW f, NEW g, NEW list, NEW other,
         Filters(f, n, list, S), Filters(g, n, other, S), \A i \in 1..n : list[i] = other[i]
  PROVE  f[n] = g[n]
<1> DEFINE N == {m \in Nat : m <= n => f[m] = g[m]}
<1>1. 0 \in N
  BY DEF Filters
<1>2. ASSUME NEW m \in N PROVE m + 1 \in N
  <2>. SUFFICES ASSUME m + 1 <= n PROVE f[m + 1] = g[m + 1]
    OBVIOUS
  <2>1. m + 1 \in 1..n /\ (m + 1) - 1 = m /\ f[m] = g[m]
    BY <1>2
  <2>. QED  BY <2>1 DEF Filters
<1>3. N = Nat
  <2>1. N \in SUBSET Nat
    OBVIOUS
  <2>. HIDE DEF N
  <2>. QED  BY <1>1, <1>2, <2>1, EveryNumber
<1>4. n \in N /\ n <= n
  <2>. HIDE DEF N
  <2>. QED  BY <1>3
<1>. QED  BY <1>4

(* What Only returns: the elements in S, each as often as before.          *)
LEMMA OnlyIs ==
  ASSUME NEW T, NEW list \in Seq(T), NEW S
  PROVE  /\ Only(list, S) \in Seq(T)
         /\ Range(Only(list, S)) = Range(list) \cap S
         /\ Once(list) => Once(Only(list, S))
<1>1. PICK f : Filters(f, Len(list), list, S) /\ Only(list, S) = f[Len(list)]
  BY OnlyFilters
<1> DEFINE n == Len(list)
<1>2. n \in Nat /\ list \in [1..n -> T] /\ Filters(f, n, list, S) /\ Only(list, S) = f[n] /\ DOMAIN list = 1..n
  BY <1>1
<1>. HIDE DEF n
<1>3. /\ f[n] \in Seq(T)
      /\ \A x : x \in Range(f[n]) <=> x \in S /\ \E i \in 1..n : x = list[i]
      /\ Once(list) => Once(f[n])
  BY <1>2, FiltersTyped
<1>4. \A x : x \in Range(list) <=> \E i \in 1..n : x = list[i]
  BY <1>2 DEF Range
<1>. QED  BY <1>2, <1>3, <1>4

(* Of nothing nothing is left.                                             *)
LEMMA OnlyEmpty == \A S : Only(<<>>, S) = <<>>
<1>. TAKE S
<1>1. <<>> \in Seq({}) /\ Len(<<>>) = 0
  OBVIOUS
<1>2. PICK f : Filters(f, 0, <<>>, S) /\ Only(<<>>, S) = f[0]
  BY <1>1, OnlyFilters
<1>. QED  BY <1>2 DEF Filters

(* An element more at the end,                                             *)
LEMMA OnlyAppend ==
  ASSUME NEW T, NEW list \in Seq(T), NEW x \in T, NEW S
  PROVE  Only(Append(list, x), S) = IF x \in S THEN Append(Only(list, S), x) ELSE Only(list, S)
<1> DEFINE n == Len(list)
           more == Append(list, x)
<1>1. n \in Nat /\ more \in Seq(T) /\ Len(more) = n + 1 /\ more[n + 1] = x
      /\ \A i \in 1..n : more[i] = list[i]
  OBVIOUS
<1>2. PICK f : Filters(f, n, list, S) /\ Only(list, S) = f[n]
  BY OnlyFilters
<1>. HIDE DEF n, more
<1>3. PICK g : Filters(g, n + 1, more, S) /\ Only(more, S) = g[n + 1]
  BY <1>1, OnlyFilters
<1>4. n + 1 \in 1..(n + 1) /\ (n + 1) - 1 = n /\ \A i \in 1..n : i \in 1..(n + 1)
  BY <1>1
<1>5. Filters(g, n, more, S)
  BY <1>3, <1>4 DEF Filters
<1>6. f[n] = g[n]
  BY <1>1, <1>2, <1>5, FiltersSame
<1>7. g[n + 1] = IF x \in S THEN Append(g[n], x) ELSE g[n]
  BY <1>1, <1>3, <1>4 DEF Filters
<1>. QED  BY <1>2, <1>3, <1>6, <1>7 DEF more

(* and one less at the beginning.                                          *)
LEMMA OnlyTail ==
  ASSUME NEW T, NEW list \in Seq(T), list # <<>>, NEW S
  PROVE  Only(list, S) = IF Head(list) \in S THEN <<Head(list)>> \o Only(Tail(list), S)
                         ELSE Only(Tail(list), S)
<1> DEFINE n == Len(Tail(list))
           rest == Tail(list)
           first == IF Head(list) \in S THEN <<Head(list)>> ELSE <<>>
<1>1. n \in Nat /\ rest \in Seq(T) /\ Len(rest) = n /\ Len(list) = n + 1 /\ list[1] = Head(list)
      /\ list[1] \in T /\ \A i \in 1..n : rest[i] = list[i + 1] /\ rest[i] \in T
  OBVIOUS
<1>2. first \in Seq(T)
  BY <1>1
<1>3. PICK f : Filters(f, Len(list), list, S) /\ Only(list, S) = f[Len(list)]
  BY OnlyFilters
<1>4. PICK g : Filters(g, n, rest, S) /\ Only(rest, S) = g[n]
  BY <1>1, OnlyFilters
<1> DEFINE Good(m) == g[m] \in Seq(T) /\ f[m + 1] = first \o g[m]
           N == {m \in Nat : m <= n => Good(m)}
<1>5. Good(0)
  <2>1. g[0] = <<>> /\ f[0] = <<>> /\ 1 \in 1..Len(list) /\ 1 - 1 = 0
    BY <1>1, <1>3, <1>4 DEF Filters
  <2>2. f[1] = IF list[1] \in S THEN Append(f[1 - 1], list[1]) ELSE f[1 - 1]
    BY <1>3, <2>1 DEF Filters
  <2>3. f[1] = first
    <3>1. \A x : Append(<<>>, x) = <<x>>
      OBVIOUS
    <3>2. f[1] = IF Head(list) \in S THEN Append(<<>>, Head(list)) ELSE <<>>
      BY <1>1, <2>1, <2>2
    <3>. QED  BY <3>1, <3>2
  <2>4. first \o <<>> = first /\ <<>> \in Seq(T) /\ 0 + 1 = 1
    BY <1>2
  <2>. QED  BY <2>1, <2>3, <2>4
<1>. HIDE DEF n, rest, first
<1>6. ASSUME NEW m \in Nat, m + 1 <= n, Good(m) PROVE Good(m + 1)
  <2>1. m + 1 \in 1..n /\ (m + 1) - 1 = m /\ m + 2 \in 1..(n + 1) /\ (m + 2) - 1 = m + 1 /\ (m + 1) + 1 = m + 2
    BY <1>1, <1>6
  <2>2. g[m + 1] = IF rest[m + 1] \in S THEN Append(g[m], rest[m + 1]) ELSE g[m]
    BY <1>4, <2>1 DEF Filters
  <2>3. f[m + 2] = IF list[m + 2] \in S THEN Append(f[m + 1], list[m + 2]) ELSE f[m + 1]
    BY <1>1, <1>3, <2>1 DEF Filters
  <2>4. rest[m + 1] = list[m + 2] /\ rest[m + 1] \in T
    BY <1>1, <2>1
  <2>5. \A a \in Seq(T), b \in Seq(T), x \in T : Append(a \o b, x) = a \o Append(b, x) /\ Append(b, x) \in Seq(T)
    BY SMTT(30)
  <2>6. CASE rest[m + 1] \in S
    <3>1. g[m + 1] = Append(g[m], rest[m + 1]) /\ f[m + 2] = Append(first \o g[m], rest[m + 1])
      BY <1>6, <2>2, <2>3, <2>4, <2>6
    <3>2. /\ Append(first \o g[m], rest[m + 1]) = first \o Append(g[m], rest[m + 1])
          /\ Append(g[m], rest[m + 1]) \in Seq(T)
      BY <1>2, <1>6, <2>4, <2>5
    <3>3. g[m + 1] \in Seq(T) /\ f[m + 2] = first \o g[m + 1]
      BY <3>1, <3>2
    <3>. QED  BY <2>1, <3>3
  <2>7. CASE rest[m + 1] \notin S
    BY <1>6, <2>1, <2>2, <2>3, <2>4, <2>7
  <2>. QED  BY <2>6, <2>7
<1>. HIDE DEF Good
<1>7. N = Nat
  <2>1. 0 \in N /\ \A m \in N : m + 1 \in N
    BY <1>1, <1>5, <1>6
  <2>2. N \in SUBSET Nat
    OBVIOUS
  <2>. HIDE DEF N
  <2>. QED  BY <2>1, <2>2, EveryNumber
<1>8. Good(n)
  <2>1. n \in N /\ n <= n
    <3>. HIDE DEF N
    <3>. QED  BY <1>1, <1>7
  <2>. QED  BY <2>1
<1>9. Only(list, S) = first \o Only(rest, S)
  BY <1>1, <1>3, <1>4, <1>8 DEF Good
<1>10. Only(rest, S) \in Seq(T)
  BY <1>1, OnlyIs
<1>11. <<>> \o Only(rest, S) = Only(rest, S)
  BY <1>10
<1>. QED  BY <1>9, <1>11 DEF first, rest

(* Two lists with nothing in common, one behind the other.                 *)
LEMMA OnceConcat ==
  ASSUME NEW T, NEW s \in Seq(T), NEW t \in Seq(T), Once(s), Once(t), Range(s) \cap Range(t) = {}
  PROVE  Once(s \o t)
<1>1. /\ DOMAIN s = 1..Len(s) /\ DOMAIN t = 1..Len(t) /\ DOMAIN (s \o t) = 1..Len(s) + Len(t)
      /\ \A k \in 1..Len(s) + Len(t) :
           (s \o t)[k] = IF k <= Len(s) THEN s[k] ELSE t[k - Len(s)]
      /\ Len(s) \in Nat /\ Len(t) \in Nat
  OBVIOUS
<1>2. \A k \in 1..Len(s) : s[k] \in Range(s)
  BY <1>1 DEF Range
<1>3. \A k \in 1..Len(t) : t[k] \in Range(t)
  BY <1>1 DEF Range
<1> DEFINE u == s \o t
           m == Len(s)
           n == Len(t)
<1>. HIDE DEF u, m, n
<1>4. /\ DOMAIN s = 1..m /\ DOMAIN t = 1..n /\ DOMAIN u = 1..m + n /\ m \in Nat /\ n \in Nat
      /\ \A k \in 1..m + n : u[k] = IF k <= m THEN s[k] ELSE t[k - m]
      /\ (\A k \in 1..m : s[k] \in Range(s)) /\ (\A k \in 1..n : t[k] \in Range(t))
  BY <1>1, <1>2, <1>3 DEF u, m, n
<1>5. ASSUME NEW i \in 1..m + n, NEW j \in 1..m + n, u[i] = u[j] PROVE i = j
  <2>1. CASE i <= m /\ j <= m
    BY <1>4, <1>5, <2>1 DEF Once
  <2>2. CASE i > m /\ j > m
    <3>1. i - m \in 1..n /\ j - m \in 1..n /\ u[i] = t[i - m] /\ u[j] = t[j - m]
      BY <1>4, <2>2
    <3>2. i - m = j - m
      BY <1>4, <1>5, <3>1 DEF Once
    <3>. QED  BY <1>4, <3>2
  <2>3. CASE i <= m /\ j > m
    <3>1. j - m \in 1..n /\ i \in 1..m /\ u[i] = s[i] /\ u[j] = t[j - m]
      BY <1>4, <2>3
    <3>. QED  BY <1>4, <1>5, <3>1
  <2>4. CASE i > m /\ j <= m
    <3>1. i - m \in 1..n /\ j \in 1..m /\ u[j] = s[j] /\ u[i] = t[i - m]
      BY <1>4, <2>4
    <3>. QED  BY <1>4, <1>5, <3>1
  <2>. QED  BY <1>4, <2>1, <2>2, <2>3, <2>4
<1>6. Once(u)
  BY <1>4, <1>5 DEF Once
<1>. QED  BY <1>6 DEF u

(* The first element is not there again.                                   *)
LEMMA OnceTail ==
  ASSUME NEW T, NEW s \in Seq(T), s # <<>>, Once(s)
  PROVE  Once(Tail(s)) /\ Head(s) \notin Range(Tail(s))
<1>1. /\ DOMAIN s = 1..Len(s) /\ DOMAIN Tail(s) = 1..Len(s) - 1 /\ Len(s) \in Nat /\ 1 \in 1..Len(s)
      /\ \A k \in 1..Len(s) - 1 : Tail(s)[k] = s[k + 1] /\ k + 1 \in 1..Len(s) /\ k + 1 # 1
      /\ Head(s) = s[1]
  OBVIOUS
<1>. QED  BY <1>1 DEF Once, Range

(* The first element of the second of two lists is taken out.              *)
LEMMA TakenOut ==
  ASSUME NEW T, NEW s \in Seq(T), NEW t \in Seq(T), t # <<>>
  PROVE  /\ Len(s) + 1 \in 1..Len(s \o t) /\ (s \o t)[Len(s) + 1] = Head(t)
         /\ RemoveAt(s \o t, Len(s) + 1) = s \o Tail(t)
<1> DEFINE m == Len(s)
           n == Len(t)
           u == s \o t
           v == s \o Tail(t)
<1>1. /\ m \in Nat /\ n \in Nat /\ n > 0 /\ Len(Tail(t)) = n - 1 /\ Tail(t) \in Seq(T)
      /\ \A k \in 1..(n - 1) : Tail(t)[k] = t[k + 1]
      /\ Head(t) = t[1]
  OBVIOUS
<1>2. /\ u \in Seq(T) /\ Len(u) = m + n
      /\ \A k \in 1..(m + n) : u[k] = IF k <= m THEN s[k] ELSE t[k - m]
  BY <1>1
<1>3. /\ v \in Seq(T) /\ Len(v) = m + (n - 1)
      /\ \A k \in 1..(m + (n - 1)) : v[k] = IF k <= m THEN s[k] ELSE Tail(t)[k - m]
  BY <1>1
<1>. HIDE DEF m, n, u, v
<1>4. m + 1 \in 1..Len(u) /\ u[m + 1] = Head(t)
  <2>1. m + 1 \in 1..(m + n) /\ ~(m + 1 <= m) /\ (m + 1) - m = 1
    BY <1>1
  <2>. QED  BY <1>1, <1>2, <2>1
<1>5. /\ RemoveAt(u, m + 1) \in Seq(T) /\ Len(RemoveAt(u, m + 1)) = Len(u) - 1
      /\ \A k \in 1..Len(u) - 1 : RemoveAt(u, m + 1)[k] = IF k < m + 1 THEN u[k] ELSE u[k + 1]
  BY <1>2, <1>4, RemoveAtProperties
<1>6. ASSUME NEW k \in 1..(m + n) - 1 PROVE RemoveAt(u, m + 1)[k] = v[k]
  <2>1. CASE k <= m
    <3>1. k < m + 1 /\ k \in 1..(m + n) /\ k \in 1..(m + (n - 1)) /\ k \in 1..Len(u) - 1
      BY <1>1, <1>2, <2>1
    <3>. QED  BY <1>2, <1>3, <1>5, <2>1, <3>1
  <2>2. CASE ~(k <= m)
    <3>1. /\ ~(k < m + 1) /\ k + 1 \in 1..(m + n) /\ k \in 1..(m + (n - 1)) /\ ~(k + 1 <= m)
          /\ k \in 1..Len(u) - 1 /\ k - m \in 1..(n - 1) /\ (k - m) + 1 = (k + 1) - m
      BY <1>1, <1>2, <2>2
    <3>2. RemoveAt(u, m + 1)[k] = u[k + 1] /\ u[k + 1] = t[(k + 1) - m] /\ v[k] = Tail(t)[k - m]
      BY <1>2, <1>3, <1>5, <2>2, <3>1
    <3>3. Tail(t)[k - m] = t[(k + 1) - m]
      BY <1>1, <3>1
    <3>. QED  BY <3>2, <3>3
  <2>. QED  BY <2>1, <2>2
<1>7. Len(u) - 1 = Len(v) /\ Len(v) = (m + n) - 1
  BY <1>1, <1>2, <1>3
<1>8. RemoveAt(u, m + 1) = v
  BY <1>3, <1>5, <1>6, <1>7, SeqEqual
<1>. QED  BY <1>4, <1>8 DEF m, u, v

-----------------------------------------------------------------------------
(* Sequences seen through a function                                       *)

(* A sequence seen through a function.                                     *)
Through(s, f) == [i \in 1..Len(s) |-> f[s[i]]]

(* What it is, and                                                         *)
Shows(g, s, f, T) ==
  /\ g \in Seq(T) /\ Len(g) = Len(s)
  /\ \A i \in 1..Len(s) : g[i] = f[s[i]]

(* that it is that.                                                        *)
LEMMA ThroughIs ==
  ASSUME NEW S, NEW T, NEW f \in [S -> T], NEW s \in Seq(S)
  PROVE  Shows(Through(s, f), s, f, T)
<1>1. \A i \in 1..Len(s) : f[s[i]] \in T
  OBVIOUS
<1>2. Through(s, f) \in [1..Len(s) -> T] /\ Len(s) \in Nat
  BY <1>1 DEF Through
<1>3. \A i \in 1..Len(s) : Through(s, f)[i] = f[s[i]]
  BY DEF Through
<1> DEFINE g == Through(s, f)
           n == Len(s)
<1>. HIDE DEF g, n
<1>4. g \in [1..n -> T] /\ n \in Nat
  BY <1>2 DEF g, n
<1>5. g \in Seq(T) /\ Len(g) = n
  BY <1>4
<1>. QED  BY <1>3, <1>5 DEF g, n, Shows

(* The operations on a sequence are the same on what is seen of it.        *)
LEMMA ThroughAppend ==
  ASSUME NEW S, NEW T, NEW f \in [S -> T], NEW s \in Seq(S), NEW m \in S
  PROVE  Through(Append(s, m), f) = Append(Through(s, f), f[m])
<1>1. /\ Append(s, m) \in Seq(S) /\ Len(Append(s, m)) = Len(s) + 1
      /\ \A i \in 1..Len(s) : Append(s, m)[i] = s[i]
      /\ Append(s, m)[Len(s) + 1] = m
  BY AppendProperties
<1>2. f[m] \in T
  OBVIOUS
<1>3. /\ Through(s, f) \in Seq(T) /\ Len(Through(s, f)) = Len(s)
      /\ \A i \in 1..Len(s) : Through(s, f)[i] = f[s[i]]
  <2>1. Shows(Through(s, f), s, f, T)
    BY ThroughIs, Zenon
  <2>. QED  BY <2>1 DEF Shows
<1>4. /\ Through(Append(s, m), f) \in Seq(T) /\ Len(Through(Append(s, m), f)) = Len(s) + 1
      /\ \A i \in 1..Len(s) + 1 : Through(Append(s, m), f)[i] = f[Append(s, m)[i]]
  <2>1. Shows(Through(Append(s, m), f), Append(s, m), f, T)
    BY <1>1, ThroughIs, Zenon
  <2>. QED  BY <1>1, <2>1 DEF Shows
<1>5. /\ Append(Through(s, f), f[m]) \in Seq(T)
      /\ Len(Append(Through(s, f), f[m])) = Len(s) + 1
      /\ \A i \in 1..Len(s) : Append(Through(s, f), f[m])[i] = Through(s, f)[i]
      /\ Append(Through(s, f), f[m])[Len(s) + 1] = f[m]
  BY <1>2, <1>3, AppendProperties
<1>6. \A i \in 1..Len(s) + 1 : i = Len(s) + 1 \/ i \in 1..Len(s)
  OBVIOUS
<1>7. \A i \in 1..Len(s) + 1 :
        Through(Append(s, m), f)[i] = Append(Through(s, f), f[m])[i]
  <2>. TAKE i \in 1..Len(s) + 1
  <2>1. Through(Append(s, m), f)[i] = f[Append(s, m)[i]]
    BY <1>4, Zenon
  <2>2. CASE i = Len(s) + 1
    BY <1>1, <1>5, <2>1, <2>2, Zenon
  <2>3. CASE i \in 1..Len(s)
    BY <1>1, <1>3, <1>5, <2>1, <2>3, Zenon
  <2>. QED  BY <1>6, <2>2, <2>3, Zenon
<1>. QED  BY <1>4, <1>5, <1>7, SeqEqual, Zenon

(* (As ThroughAppend.)                                                     *)
LEMMA ThroughPrefix ==
  ASSUME NEW S, NEW T, NEW f \in [S -> T], NEW s \in Seq(S), NEW n \in 0..Len(s)
  PROVE  Through(SubSeq(s, 1, n), f) = SubSeq(Through(s, f), 1, n)
<1>1. /\ SubSeq(s, 1, n) \in Seq(S) /\ Len(SubSeq(s, 1, n)) = n
      /\ \A i \in 1..n : SubSeq(s, 1, n)[i] = s[i]
  BY PrefixProperties, Zenon
<1>2. /\ Through(s, f) \in Seq(T) /\ Len(Through(s, f)) = Len(s)
      /\ \A i \in 1..Len(s) : Through(s, f)[i] = f[s[i]]
  <2>1. Shows(Through(s, f), s, f, T)
    BY ThroughIs, Zenon
  <2>. QED  BY <2>1 DEF Shows
<1>3. /\ SubSeq(Through(s, f), 1, n) \in Seq(T) /\ Len(SubSeq(Through(s, f), 1, n)) = n
      /\ \A i \in 1..n : SubSeq(Through(s, f), 1, n)[i] = Through(s, f)[i]
  BY <1>2, PrefixProperties
<1>4. /\ Through(SubSeq(s, 1, n), f) \in Seq(T) /\ Len(Through(SubSeq(s, 1, n), f)) = n
      /\ \A i \in 1..n : Through(SubSeq(s, 1, n), f)[i] = f[SubSeq(s, 1, n)[i]]
  <2>1. Shows(Through(SubSeq(s, 1, n), f), SubSeq(s, 1, n), f, T)
    BY <1>1, ThroughIs, Zenon
  <2>. QED  BY <1>1, <2>1 DEF Shows
<1>5. \A i \in 1..n : i \in 1..Len(s)
  OBVIOUS
<1>6. \A i \in 1..n : Through(SubSeq(s, 1, n), f)[i] = SubSeq(Through(s, f), 1, n)[i]
  <2>. TAKE i \in 1..n
  <2>1. Through(SubSeq(s, 1, n), f)[i] = f[s[i]]
    BY <1>1, <1>4, Zenon
  <2>2. SubSeq(Through(s, f), 1, n)[i] = f[s[i]]
    BY <1>2, <1>3, <1>5, Zenon
  <2>. QED  BY <2>1, <2>2, Zenon
<1>. QED  BY <1>3, <1>4, <1>6, SeqEqual, Zenon

(* (As ThroughAppend.)                                                     *)
LEMMA ThroughTail ==
  ASSUME NEW S, NEW T, NEW f \in [S -> T], NEW s \in Seq(S), s # <<>>
  PROVE  /\ Through(Tail(s), f) = Tail(Through(s, f))
         /\ Through(s, f) # <<>> /\ Head(Through(s, f)) = f[Head(s)]
<1>1. /\ Tail(s) \in Seq(S) /\ Len(Tail(s)) = Len(s) - 1
      /\ \A i \in 1..Len(s) - 1 : Tail(s)[i] = s[i + 1]
      /\ Head(s) = s[1] /\ 1 \in 1..Len(s) /\ Len(s) # 0
  OBVIOUS
<1>2. /\ Through(s, f) \in Seq(T) /\ Len(Through(s, f)) = Len(s)
      /\ \A i \in 1..Len(s) : Through(s, f)[i] = f[s[i]]
  <2>1. Shows(Through(s, f), s, f, T)
    BY ThroughIs, Zenon
  <2>. QED  BY <2>1 DEF Shows
<1>3. Through(s, f) # <<>>
  <2>1. Len(<<>>) = 0
    OBVIOUS
  <2>. QED  BY <1>1, <1>2, <2>1, Zenon
<1>4. /\ Tail(Through(s, f)) \in Seq(T) /\ Len(Tail(Through(s, f))) = Len(s) - 1
      /\ \A i \in 1..Len(s) - 1 : Tail(Through(s, f))[i] = Through(s, f)[i + 1]
      /\ Head(Through(s, f)) = Through(s, f)[1]
  BY <1>2, <1>3, SMTT(30)
<1>5. /\ Through(Tail(s), f) \in Seq(T) /\ Len(Through(Tail(s), f)) = Len(s) - 1
      /\ \A i \in 1..Len(s) - 1 : Through(Tail(s), f)[i] = f[Tail(s)[i]]
  <2>1. Shows(Through(Tail(s), f), Tail(s), f, T)
    BY <1>1, ThroughIs, Zenon
  <2>. QED  BY <1>1, <2>1 DEF Shows
<1>6. \A i \in 1..Len(s) - 1 : i + 1 \in 1..Len(s)
  OBVIOUS
<1>7. \A i \in 1..Len(s) - 1 : Through(Tail(s), f)[i] = Tail(Through(s, f))[i]
  <2>. TAKE i \in 1..Len(s) - 1
  <2>1. Through(Tail(s), f)[i] = f[s[i + 1]]
    BY <1>1, <1>5, Zenon
  <2>2. Tail(Through(s, f))[i] = f[s[i + 1]]
    BY <1>2, <1>4, <1>6, Zenon
  <2>. QED  BY <2>1, <2>2, Zenon
<1>8. Through(Tail(s), f) = Tail(Through(s, f))
  BY <1>4, <1>5, <1>7, SeqEqual, Zenon
<1>. QED  BY <1>1, <1>2, <1>3, <1>4, <1>8, Zenon

(* (As ThroughAppend.)                                                     *)
LEMMA ThroughRemoveAt ==
  ASSUME NEW S, NEW T, NEW f \in [S -> T], NEW s \in Seq(S), NEW k \in 1..Len(s)
  PROVE  Through(RemoveAt(s, k), f) = RemoveAt(Through(s, f), k)
<1>1. /\ RemoveAt(s, k) \in Seq(S) /\ Len(RemoveAt(s, k)) = Len(s) - 1
      /\ \A i \in 1..Len(s) - 1 : RemoveAt(s, k)[i] = IF i < k THEN s[i] ELSE s[i + 1]
  BY RemoveAtProperties, Zenon
<1>2. /\ Through(s, f) \in Seq(T) /\ Len(Through(s, f)) = Len(s)
      /\ \A i \in 1..Len(s) : Through(s, f)[i] = f[s[i]]
  <2>1. Shows(Through(s, f), s, f, T)
    BY ThroughIs, Zenon
  <2>. QED  BY <2>1 DEF Shows
<1>3. /\ RemoveAt(Through(s, f), k) \in Seq(T) /\ Len(RemoveAt(Through(s, f), k)) = Len(s) - 1
      /\ \A i \in 1..Len(s) - 1 :
           RemoveAt(Through(s, f), k)[i] = IF i < k THEN Through(s, f)[i] ELSE Through(s, f)[i + 1]
  BY <1>2, RemoveAtProperties
<1>4. /\ Through(RemoveAt(s, k), f) \in Seq(T) /\ Len(Through(RemoveAt(s, k), f)) = Len(s) - 1
      /\ \A i \in 1..Len(s) - 1 : Through(RemoveAt(s, k), f)[i] = f[RemoveAt(s, k)[i]]
  <2>1. Shows(Through(RemoveAt(s, k), f), RemoveAt(s, k), f, T)
    BY <1>1, ThroughIs, Zenon
  <2>. QED  BY <1>1, <2>1 DEF Shows
<1>5. \A i \in 1..Len(s) - 1 : i \in 1..Len(s) /\ i + 1 \in 1..Len(s)
  OBVIOUS
<1>6. \A i \in 1..Len(s) - 1 : Through(RemoveAt(s, k), f)[i] = RemoveAt(Through(s, f), k)[i]
  <2>. TAKE i \in 1..Len(s) - 1
  <2>1. Through(RemoveAt(s, k), f)[i] = f[RemoveAt(s, k)[i]]
    BY <1>4, Zenon
  <2>2. RemoveAt(Through(s, f), k)[i] = IF i < k THEN Through(s, f)[i] ELSE Through(s, f)[i + 1]
    BY <1>3, Zenon
  <2>3. RemoveAt(s, k)[i] = IF i < k THEN s[i] ELSE s[i + 1]
    BY <1>1, Zenon
  <2>4. Through(s, f)[i] = f[s[i]] /\ Through(s, f)[i + 1] = f[s[i + 1]]
    BY <1>2, <1>5, Zenon
  <2>. QED  BY <2>1, <2>2, <2>3, <2>4
<1>. QED  BY <1>3, <1>4, <1>6, SeqEqual, Zenon

-----------------------------------------------------------------------------
(* Sums                                                                    *)

(* What SumTo defines by recursion, and                                    *)
SumEq(g, f, n) == g = [i \in 0..n |-> IF i = 0 THEN 0 ELSE g[i - 1] + f[i]]

(* what such a function does.                                              *)
Adds(g, f, n) ==
  /\ g \in [0..n -> Nat] /\ g[0] = 0
  /\ \A i \in 1..n : g[i] = g[i - 1] + f[i]

(* The sums are of numbers.                                                *)
NumbersTo(f, n) == \A i \in 1..n : f[i] \in Nat

(* There is such a function, so                                            *)
LEMMA SumGiven ==
  ASSUME NEW n \in Nat, NEW f, NumbersTo(f, n)
  PROVE  \E g : SumEq(g, f, n)
<1> DEFINE step == [p \in (1..n) \X Nat |-> p[2] + f[p[1]]]
<1>1. step \in [(1..n) \X Nat -> Nat]
  BY DEF NumbersTo
<1>2. \E g : Steps(g, n, Nat, 0, step)
  <2>. HIDE DEF step
  <2>. QED  BY <1>1, StepByStep
<1>3. PICK g \in [0..n -> Nat] : g[0] = 0 /\ \A i \in 1..n : g[i] = step[<<i, g[i - 1]>>]
  BY <1>2 DEF Steps
<1>4. ASSUME NEW i \in 0..n PROVE g[i] = IF i = 0 THEN 0 ELSE g[i - 1] + f[i]
  <2>1. CASE i = 0
    BY <1>3, <2>1
  <2>2. CASE i # 0
    <3>1. i \in 1..n /\ i - 1 \in 0..n
      BY <2>2
    <3>2. step[<<i, g[i - 1]>>] = g[i - 1] + f[i]
      BY <1>3, <3>1
    <3>. QED  BY <1>3, <2>2, <3>1, <3>2
  <2>. QED  BY <2>1, <2>2
<1>5. SumEq(g, f, n)
  BY <1>3, <1>4 DEF SumEq
<1>. QED  BY <1>5

(* SumTo is the last of its values.                                        *)
LEMMA SumAdds ==
  ASSUME NEW n \in Nat, NEW f, NumbersTo(f, n)
  PROVE  \E g : Adds(g, f, n) /\ SumTo(f, n) = g[n]
<1> DEFINE g == CHOOSE h : SumEq(h, f, n)
<1>1. SumEq(g, f, n)
  BY SumGiven
<1>2. SumTo(f, n) = g[n]
  BY DEF SumTo, SumEq
<1>. HIDE DEF g
<1>3. \A i \in 0..n : g[i] = IF i = 0 THEN 0 ELSE g[i - 1] + f[i]
  BY <1>1, Zenon DEF SumEq
<1>4. g[0] = 0 /\ \A i \in 1..n : g[i] = g[i - 1] + f[i]
  <2>1. 0 \in 0..n /\ \A i \in 1..n : i \in 0..n /\ i # 0
    OBVIOUS
  <2>. QED  BY <1>3, <2>1
<1> DEFINE N == {m \in Nat : m <= n => g[m] \in Nat}
<1>5. N = Nat
  <2>1. 0 \in N
    BY <1>4
  <2>2. ASSUME NEW m \in N PROVE m + 1 \in N
    <3>. SUFFICES ASSUME m + 1 <= n PROVE g[m + 1] \in Nat
      OBVIOUS
    <3>1. m + 1 \in 1..n /\ (m + 1) - 1 = m /\ g[m] \in Nat
      OBVIOUS
    <3>. QED  BY <1>4, <3>1 DEF NumbersTo
  <2>3. N \in SUBSET Nat
    OBVIOUS
  <2>. HIDE DEF N
  <2>. QED  BY <2>1, <2>2, <2>3, EveryNumber
<1>6. ASSUME NEW i \in 0..n PROVE g[i] \in Nat
  <2>1. i \in N
    BY <1>5
  <2>. QED  BY <2>1
<1>7. g = [i \in 0..n |-> g[i]]
  <2>. DEFINE E(i) == IF i = 0 THEN 0 ELSE g[i - 1] + f[i]
  <2>1. g = [i \in 0..n |-> E(i)]
    BY <1>1 DEF SumEq
  <2>. HIDE DEF E
  <2>. QED  BY <2>1, Zenon
<1>. HIDE DEF N
<1>8. g \in [0..n -> Nat]
  BY <1>6, <1>7
<1>. QED  BY <1>2, <1>4, <1>8 DEF Adds

(* Two functions that add the same have the same values,                   *)
LEMMA AddsSame ==
  ASSUME NEW n \in Nat, NEW m \in Nat, n <= m, NEW f, NEW e, NEW g, NEW h, Adds(g, f, n), Adds(h, e, m),
         \A i \in 1..n : f[i] = e[i]
  PROVE  g[n] = h[n]
<1> DEFINE N == {k \in Nat : k <= n => g[k] = h[k]}
<1>1. 0 \in N
  BY DEF Adds
<1>2. ASSUME NEW k \in N PROVE k + 1 \in N
  <2>. SUFFICES ASSUME k + 1 <= n PROVE g[k + 1] = h[k + 1]
    OBVIOUS
  <2>1. k + 1 \in 1..n /\ k + 1 \in 1..m /\ (k + 1) - 1 = k /\ g[k] = h[k]
    BY <1>2
  <2>. QED  BY <2>1 DEF Adds
<1>3. N = Nat
  <2>1. N \in SUBSET Nat
    OBVIOUS
  <2>. HIDE DEF N
  <2>. QED  BY <1>1, <1>2, <2>1, EveryNumber
<1>4. n \in N /\ n <= n
  <2>. HIDE DEF N
  <2>. QED  BY <1>3
<1>. QED  BY <1>4

(* so sums of the same numbers are the same.                               *)
LEMMA SumSame ==
  ASSUME NEW n \in Nat, NEW f, NEW e, NumbersTo(f, n), \A i \in 1..n : f[i] = e[i]
  PROVE  SumTo(f, n) = SumTo(e, n)
<1>1. NumbersTo(e, n)
  BY DEF NumbersTo
<1>2. PICK g : Adds(g, f, n) /\ SumTo(f, n) = g[n]
  BY SumAdds
<1>3. PICK h : Adds(h, e, n) /\ SumTo(e, n) = h[n]
  BY <1>1, SumAdds
<1>. QED  BY <1>2, <1>3, AddsSame

(* A sum, number by number.                                                *)
LEMMA SumIs ==
  ASSUME NEW n \in Nat, NEW f, NumbersTo(f, n)
  PROVE  /\ SumTo(f, n) \in Nat
         /\ SumTo(f, 0) = 0
         /\ n # 0 => SumTo(f, n) = SumTo(f, n - 1) + f[n]
<1>1. PICK g : Adds(g, f, n) /\ SumTo(f, n) = g[n]
  BY SumAdds
<1>2. SumTo(f, n) \in Nat
  BY <1>1 DEF Adds
<1>3. SumTo(f, 0) = 0
  <2>1. PICK h : Adds(h, f, 0) /\ SumTo(f, 0) = h[0]
    BY SumAdds DEF NumbersTo
  <2>. QED  BY <2>1 DEF Adds
<1>4. ASSUME n # 0 PROVE SumTo(f, n) = SumTo(f, n - 1) + f[n]
  <2>1. n - 1 \in Nat /\ n - 1 <= n /\ n \in 1..n /\ NumbersTo(f, n - 1)
    BY <1>4 DEF NumbersTo
  <2>2. PICK h : Adds(h, f, n - 1) /\ SumTo(f, n - 1) = h[n - 1]
    BY <2>1, SumAdds
  <2>3. h[n - 1] = g[n - 1]
    BY <1>1, <2>1, <2>2, AddsSame
  <2>. QED  BY <1>1, <2>1, <2>2, <2>3 DEF Adds
<1>. QED  BY <1>2, <1>3, <1>4

(* It grows by what is added.                                              *)
LEMMA SumGrows ==
  ASSUME NEW n \in Nat, NEW f, NumbersTo(f, n), NEW i \in 0..n, NEW j \in i..n
  PROVE  /\ SumTo(f, i) \in Nat /\ SumTo(f, j) \in Nat /\ SumTo(f, i) <= SumTo(f, j)
         /\ i < j => SumTo(f, i) + f[i + 1] <= SumTo(f, j)
<1>1. ASSUME NEW k \in 0..n PROVE SumTo(f, k) \in Nat /\ (k # 0 => SumTo(f, k) = SumTo(f, k - 1) + f[k] /\ f[k] \in Nat)
  <2>1. k \in Nat /\ NumbersTo(f, k) /\ (k # 0 => f[k] \in Nat)
    BY DEF NumbersTo
  <2>. QED  BY <2>1, SumIs
<1> DEFINE N == {d \in Nat : \A k \in 0..n : k + d <= n => SumTo(f, k) <= SumTo(f, k + d)}
<1>2. 0 \in N
  BY <1>1
<1>3. ASSUME NEW d \in N PROVE d + 1 \in N
  <2>. SUFFICES ASSUME NEW k \in 0..n, k + (d + 1) <= n PROVE SumTo(f, k) <= SumTo(f, k + (d + 1))
    OBVIOUS
  <2>1. k + d <= n /\ k + d \in 0..n /\ k + (d + 1) \in 0..n /\ (k + (d + 1)) - 1 = k + d /\ k + (d + 1) # 0
    OBVIOUS
  <2>2. SumTo(f, k) <= SumTo(f, k + d)
    BY <1>3, <2>1
  <2>. HIDE DEF N
  <2>3. SumTo(f, k + (d + 1)) = SumTo(f, k + d) + f[k + (d + 1)] /\ f[k + (d + 1)] \in Nat
    BY <1>1, <2>1
  <2>. QED  BY <1>1, <2>1, <2>2, <2>3
<1>4. N = Nat
  <2>1. N \in SUBSET Nat
    OBVIOUS
  <2>. HIDE DEF N
  <2>. QED  BY <1>2, <1>3, <2>1, EveryNumber
<1>5. ASSUME NEW k \in 0..n, NEW l \in k..n PROVE SumTo(f, k) <= SumTo(f, l)
  <2>1. l - k \in N /\ k + (l - k) = l /\ k + (l - k) <= n
    <3>1. l - k \in Nat /\ k + (l - k) = l /\ k + (l - k) <= n
      OBVIOUS
    <3>. HIDE DEF N
    <3>. QED  BY <1>4, <3>1
  <2>. QED  BY <2>1
<1>. HIDE DEF N
<1>6. ASSUME i < j PROVE SumTo(f, i) + f[i + 1] <= SumTo(f, j)
  <2>1. i + 1 \in 0..n /\ j \in (i + 1)..n /\ i + 1 # 0 /\ (i + 1) - 1 = i
    BY <1>6
  <2>2. SumTo(f, i + 1) <= SumTo(f, j)
    BY <1>5, <2>1
  <2>3. SumTo(f, i + 1) = SumTo(f, i) + f[i + 1]
    BY <1>1, <2>1
  <2>. QED  BY <2>2, <2>3
<1>. QED  BY <1>1, <1>5, <1>6

(* What is below a sum is in one of its summands.                          *)
LEMMA SumFinds ==
  ASSUME NEW n \in Nat, NEW f, NumbersTo(f, n), NEW p \in Nat, p < SumTo(f, n)
  PROVE  \E i \in 1..n : SumTo(f, i - 1) <= p /\ p < SumTo(f, i) /\ SumTo(f, i) = SumTo(f, i - 1) + f[i]
<1> DEFINE N == {i \in 0..n : p < SumTo(f, i)}
<1>1. N \in SUBSET Nat /\ n \in N
  OBVIOUS
<1>2. PICK i \in N : \A j \in N : i <= j
  <2>. HIDE DEF N
  <2>. QED  BY <1>1, LeastNumber
<1>3. ASSUME NEW k \in 0..n PROVE SumTo(f, k) \in Nat /\ (k # 0 => SumTo(f, k) = SumTo(f, k - 1) + f[k]) /\ SumTo(f, 0) = 0
  <2>1. k \in Nat /\ NumbersTo(f, k)
    BY DEF NumbersTo
  <2>. QED  BY <2>1, SumIs
<1>4. i # 0
  BY <1>3
<1>5. i - 1 \in 0..n /\ i - 1 \notin N
  BY <1>2, <1>4
<1>. QED  BY <1>2, <1>3, <1>4, <1>5
=============================================================================
