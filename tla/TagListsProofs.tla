-------------------------- MODULE TagListsProofs --------------------------
(***************************************************************************)
(* TLAPS proofs about TagLists, for any tag keys and values, any lists     *)
(* that users write, with keys repeated or missing, any choice of order by *)
(* Go and by AWS, and any edits and changes by other clients: types, that  *)
(* no list of the controller names a key twice, that the user's tags come  *)
(* back as they were written, that the lists implement the tag maps, and   *)
(* that the rounds settle the tags and then leave them alone.              *)
(***************************************************************************)
EXTENDS TagLists, FiniteSetTheorems, SequenceTheorems, TLAPS

-----------------------------------------------------------------------------
(***************************************************************************)
(* Places.                                                                 *)
(***************************************************************************)

(***************************************************************************)
(* A set of naturals has a least element: the form of induction that the   *)
(* lemmas about sequences use.                                             *)
(***************************************************************************)
LEMMA LeastNat ==
  ASSUME NEW T \in SUBSET Nat, T # {}
  PROVE  \E n \in T : \A m \in T : n <= m
<1> DEFINE R == OpToRel(<, Nat)
<1>1. IsWellFoundedOn(R, Nat)
  BY NatLessThanWellFounded, Zenon
<1>2. \A x, y \in Nat : x < y => <<x, y>> \in R
  BY DEF OpToRel
<1> HIDE DEF R
<1>3. \E x \in T : \A y \in T : ~(<<y, x>> \in R)
  BY <1>1, WFMin
<1>4. PICK n \in T : \A m \in T : ~(<<m, n>> \in R)
  BY <1>3
<1>5. ASSUME NEW m \in T PROVE n <= m
  <2>1. n \in Nat /\ m \in Nat
    OBVIOUS
  <2>2. ~(m < n)
    BY <1>2, <1>4, <2>1
  <2> QED
    BY <2>1, <2>2
<1> QED
  BY <1>5

(***************************************************************************)
(* The last of some places.                                                *)
(***************************************************************************)
LEMMA LastPlace ==
  ASSUME NEW n \in Nat, NEW I \in SUBSET (1 .. n), I # {}
  PROVE  Max(I) \in I /\ \A i \in I : i <= Max(I)
<1> DEFINE T == {n - i : i \in I}
<1>0. \A i \in I : i \in Int /\ n - i \in Nat
  OBVIOUS
<1>1. T \in SUBSET Nat /\ T # {}
  BY <1>0
<1>2. PICK d \in T : \A e \in T : d <= e
  BY <1>1, LeastNat
<1>3. PICK m \in I : d = n - m
  BY <1>2
<1>4. \A i \in I : m >= i
  <2> TAKE i \in I
  <2>1. d <= n - i
    BY <1>2
  <2> QED
    BY <1>3, <2>1
<1>5. Max(I) \in I /\ \A i \in I : Max(I) >= i
  BY <1>4 DEF Max
<1>6. \A i \in I : i <= Max(I)
  <2> TAKE i \in I
  <2>1. i \in Int /\ Max(I) \in Int
    BY <1>0, <1>5
  <2> QED
    BY <1>5, <2>1
<1> QED
  BY <1>5, <1>6

\* How many of the places I are reached at i, and the n-th of them.
Rank(I, i) == Cardinality({j \in I : j <= i})
Nth(I, n) == CHOOSE i \in I : Rank(I, i) = n

(***************************************************************************)
(* Ranks are numbers up to the number of places, and grow.                 *)
(***************************************************************************)
LEMMA RankGrows ==
  ASSUME NEW n \in Nat, NEW I \in SUBSET (1 .. n)
  PROVE  /\ IsFiniteSet(I) /\ Cardinality(I) \in Nat
         /\ \A i \in I : Rank(I, i) \in 1 .. Cardinality(I)
         /\ \A i, j \in I : i < j => Rank(I, i) < Rank(I, j)
<1> DEFINE Upto(i) == {j \in I : j <= i}
<1>0. \A i \in I : i \in Int
  OBVIOUS
<1>1. IsFiniteSet(I) /\ Cardinality(I) \in Nat
  <2>1. IsFiniteSet(1 .. n)
    BY FS_Interval
  <2> QED
    BY <2>1, FS_Subset, FS_CardinalityType
<1>2. ASSUME NEW i \in I
      PROVE  IsFiniteSet(Upto(i)) /\ Cardinality(Upto(i)) \in 1 .. Cardinality(I)
  <2>1. Upto(i) \in SUBSET I /\ i \in Upto(i)
    BY <1>0
  <2>2. IsFiniteSet(Upto(i)) /\ Cardinality(Upto(i)) <= Cardinality(I)
    BY <1>1, <2>1, FS_Subset
  <2>3. Cardinality(Upto(i)) \in Nat /\ Cardinality(Upto(i)) # 0
    BY <2>1, <2>2, FS_CardinalityType, FS_EmptySet
  <2> QED
    BY <1>1, <2>2, <2>3
<1>3. ASSUME NEW i \in I, NEW j \in I, i < j
      PROVE  Cardinality(Upto(i)) < Cardinality(Upto(j))
  <2>1. Upto(i) \in SUBSET Upto(j) /\ j \in Upto(j) /\ j \notin Upto(i)
    <3>1. i \in Int /\ j \in Int
      BY <1>0
    <3>2. \A k \in I : k <= i => k <= j
      BY <1>0, <1>3, <3>1
    <3>3. j <= j /\ ~(j <= i)
      BY <1>3, <3>1
    <3> QED
      BY <3>2, <3>3
  <2>2. Cardinality(Upto(i)) <= Cardinality(Upto(j))
        /\ Cardinality(Upto(i)) # Cardinality(Upto(j))
    <3> HIDE DEF Upto
    <3> QED
      BY <1>2, <2>1, FS_Subset
  <2>3. Cardinality(Upto(i)) \in Int /\ Cardinality(Upto(j)) \in Int
    BY <1>2
  <2> QED
    BY <2>2, <2>3
<1> QED
  BY <1>1, <1>2, <1>3 DEF Rank

(***************************************************************************)
(* Counting the places goes through all of them, in order.                 *)
(***************************************************************************)
LEMMA NthPlace ==
  ASSUME NEW n \in Nat, NEW I \in SUBSET (1 .. n)
  PROVE  /\ Cardinality(I) \in Nat
         /\ \A c \in 1 .. Cardinality(I) : Nth(I, c) \in I /\ Nth(I, c) \in 1 .. n
         /\ \A c \in 1 .. Cardinality(I) : Rank(I, Nth(I, c)) = c
         /\ \A i \in I : \E c \in 1 .. Cardinality(I) : Nth(I, c) = i
         /\ \A c, d \in 1 .. Cardinality(I) : c < d <=> Nth(I, c) < Nth(I, d)
<1> DEFINE C == 1 .. Cardinality(I)
           f == [i \in I |-> Rank(I, i)]
<1>0. Cardinality(I) \in Nat /\ IsFiniteSet(I)
  BY RankGrows
<1>1. f \in Injection(I, C)
  <2>1. f \in [I -> C]
    BY RankGrows
  <2>2. ASSUME NEW i \in I, NEW j \in I, f[i] = f[j] PROVE i = j
    <3>1. i \in Int /\ j \in Int /\ Rank(I, i) = Rank(I, j)
      BY <2>2
    <3>2. Rank(I, i) \in 1 .. Cardinality(I) /\ Rank(I, j) \in 1 .. Cardinality(I)
      BY RankGrows
    <3>3. i < j => Rank(I, i) < Rank(I, j)
      BY RankGrows
    <3>4. j < i => Rank(I, j) < Rank(I, i)
      BY RankGrows
    <3>5. ~(i < j) /\ ~(j < i)
      BY <1>0, <3>1, <3>2, <3>3, <3>4
    <3> QED
      BY <3>1, <3>5
  <2> QED
    BY <2>1, <2>2 DEF Injection, IsInjective
<1>2. IsFiniteSet(C) /\ Cardinality(C) = Cardinality(I)
  BY <1>0, FS_Interval
<1>3. f \in Surjection(I, C)
  <2> HIDE DEF f, C
  <2> QED
    BY <1>1, <1>2, FS_Injection
<1>4. ASSUME NEW c \in C PROVE Nth(I, c) \in I /\ Rank(I, Nth(I, c)) = c
  <2>1. \E i \in I : Rank(I, i) = c
    BY <1>3 DEF Surjection
  <2> QED
    BY <2>1 DEF Nth
<1>5. ASSUME NEW i \in I PROVE Rank(I, i) \in C /\ Nth(I, Rank(I, i)) = i
  <2>1. Rank(I, i) \in C
    BY RankGrows
  <2>2. Nth(I, Rank(I, i)) \in I /\ Rank(I, Nth(I, Rank(I, i))) = Rank(I, i)
    BY <1>4, <2>1
  <2> QED
    BY <1>1, <2>1, <2>2 DEF Injection, IsInjective
<1>6. ASSUME NEW c \in C, NEW d \in C PROVE c < d <=> Nth(I, c) < Nth(I, d)
  <2> DEFINE x == Nth(I, c)
             y == Nth(I, d)
  <2>1. x \in I /\ y \in I /\ Rank(I, x) = c /\ Rank(I, y) = d
    BY <1>4
  <2> HIDE DEF x, y
  <2>2. x \in Int /\ y \in Int /\ c \in Int /\ d \in Int
    BY <2>1
  <2>3. x < y => c < d
    BY <2>1, RankGrows
  <2>4. y < x => d < c
    BY <2>1, RankGrows
  <2>5. x < y <=> c < d
    BY <2>1, <2>2, <2>3, <2>4
  <2> QED
    BY <2>5 DEF x, y
<1>7. \A c \in C : Nth(I, c) \in 1 .. n
  <2> HIDE DEF C
  <2> QED
    BY <1>4
<1> QED
  BY <1>0, <1>4, <1>5, <1>6, <1>7

-----------------------------------------------------------------------------
(***************************************************************************)
(* Parts of sequences, and the order in which elements first come.         *)
(***************************************************************************)

\* a comes in s before any b.
Precedes(s, a, b) == \E i \in 1 .. Len(s) : s[i] = a /\ \A j \in 1 .. i : s[j] # b

\* The first place of a in s is among I.
Keeps(I, s, a) == \A i \in 1 .. Len(s) : s[i] = a => \E j \in I : j <= i /\ s[j] = a

(***************************************************************************)
(* The elements at some places are a sequence of them, without repetition  *)
(* when the elements differ.                                               *)
(***************************************************************************)
LEMMA AtElements ==
  ASSUME NEW X, NEW s \in Seq(X), NEW I \in SUBSET (1 .. Len(s)),
         NEW Y, \A i \in I : s[i] \in Y
  PROVE  /\ At(s, I) \in Seq(Y)
         /\ Len(At(s, I)) = Cardinality(I) /\ Cardinality(I) \in Nat
         /\ \A c \in 1 .. Cardinality(I) : At(s, I)[c] = s[Nth(I, c)]
         /\ ToSet(At(s, I)) = {s[i] : i \in I}
         /\ (\A i, j \in I : i # j => s[i] # s[j]) => IsInjective(At(s, I))
<1> DEFINE C == 1 .. Cardinality(I)
<1>0. Len(s) \in Nat
  OBVIOUS
<1>1. /\ Cardinality(I) \in Nat
      /\ \A c \in C : Nth(I, c) \in I /\ Nth(I, c) \in 1 .. Len(s)
      /\ \A i \in I : \E c \in C : Nth(I, c) = i
      /\ \A c, d \in C : c < d <=> Nth(I, c) < Nth(I, d)
  BY <1>0, NthPlace
<1>2. At(s, I) = [c \in C |-> s[Nth(I, c)]]
  BY DEF At, Nth, Rank
<1>3. At(s, I) \in Seq(Y) /\ Len(At(s, I)) = Cardinality(I)
  <2>1. \A c \in C : s[Nth(I, c)] \in Y
    BY <1>1
  <2>2. At(s, I) \in [C -> Y]
    BY <1>2, <2>1
  <2> QED
    BY <1>1, <2>2
<1>4. ToSet(At(s, I)) = {s[i] : i \in I}
  <2>1. ToSet(At(s, I)) = {s[Nth(I, c)] : c \in C}
    BY <1>2 DEF ToSet
  <2> QED
    BY <1>1, <2>1
<1>5. ASSUME \A i, j \in I : i # j => s[i] # s[j],
             NEW c \in C, NEW d \in C, At(s, I)[c] = At(s, I)[d]
      PROVE  c = d
  <2>1. s[Nth(I, c)] = s[Nth(I, d)] /\ Nth(I, c) \in I /\ Nth(I, d) \in I
    BY <1>1, <1>2, <1>5
  <2>2. Nth(I, c) = Nth(I, d)
    BY <1>5, <2>1
  <2>3. Nth(I, c) \in 1 .. Len(s) /\ c \in Int /\ d \in Int
    BY <1>1
  <2>4. ~(c < d) /\ ~(d < c)
    BY <1>0, <1>1, <2>2, <2>3
  <2> QED
    BY <2>3, <2>4
<1>6. DOMAIN At(s, I) = C
  BY <1>2
<1> QED
  BY <1>1, <1>2, <1>3, <1>4, <1>5, <1>6 DEF IsInjective

(***************************************************************************)
(* They come in the same order.                                            *)
(***************************************************************************)
LEMMA AtOrder ==
  ASSUME NEW X, NEW s \in Seq(X), NEW I \in SUBSET (1 .. Len(s)),
         NEW a, NEW b, Keeps(I, s, a), Keeps(I, s, b)
  PROVE  Precedes(At(s, I), a, b) <=> Precedes(s, a, b)
<1> DEFINE C == 1 .. Cardinality(I)
<1>0. Len(s) \in Nat /\ \A i \in I : i \in 1 .. Len(s) /\ i \in Int
  OBVIOUS
<1>1. /\ Cardinality(I) \in Nat
      /\ \A c \in C : Nth(I, c) \in I /\ Nth(I, c) \in 1 .. Len(s)
      /\ \A i \in I : \E c \in C : Nth(I, c) = i
      /\ \A c, d \in C : c < d <=> Nth(I, c) < Nth(I, d)
  BY <1>0, NthPlace
<1>2. Len(At(s, I)) = Cardinality(I) /\ \A c \in C : At(s, I)[c] = s[Nth(I, c)]
  BY AtElements, <1>0
<1>3. ASSUME NEW c \in C, NEW d \in C PROVE d <= c <=> Nth(I, d) <= Nth(I, c)
  <2>1. c \in Int /\ d \in Int /\ Nth(I, c) \in 1 .. Len(s) /\ Nth(I, d) \in 1 .. Len(s)
    BY <1>1
  <2>2. c < d <=> Nth(I, c) < Nth(I, d)
    BY <1>1
  <2> QED
    BY <1>0, <2>1, <2>2
<1>4. ASSUME Precedes(At(s, I), a, b) PROVE Precedes(s, a, b)
  <2>1. PICK c \in C : s[Nth(I, c)] = a /\ \A d \in 1 .. c : At(s, I)[d] # b
    BY <1>2, <1>4 DEF Precedes
  <2>2. Nth(I, c) \in 1 .. Len(s)
    BY <1>1
  <2>3. ASSUME NEW j \in 1 .. Nth(I, c), s[j] = b PROVE FALSE
    <3>1. j \in 1 .. Len(s)
      BY <1>0, <2>2
    <3>2. PICK k \in I : k <= j /\ s[k] = b
      BY <2>3, <3>1 DEF Keeps
    <3>3. PICK d \in C : Nth(I, d) = k
      BY <1>1
    <3>4. Nth(I, d) <= Nth(I, c)
      <4>1. k \in Int /\ j \in Int /\ Nth(I, c) \in Int /\ j <= Nth(I, c)
        BY <1>0, <2>2
      <4> QED
        BY <3>2, <3>3, <4>1
    <3>5. d \in 1 .. c
      BY <1>3, <3>4
    <3> QED
      BY <1>2, <2>1, <3>2, <3>3, <3>5
  <2> QED
    BY <1>0, <2>1, <2>2, <2>3 DEF Precedes
<1>5. ASSUME Precedes(s, a, b) PROVE Precedes(At(s, I), a, b)
  <2>1. PICK i \in 1 .. Len(s) : s[i] = a /\ \A j \in 1 .. i : s[j] # b
    BY <1>5 DEF Precedes
  <2>2. PICK k \in I : k <= i /\ s[k] = a
    BY <2>1 DEF Keeps
  <2>3. PICK c \in C : Nth(I, c) = k
    BY <1>1
  <2>4. ASSUME NEW d \in 1 .. c PROVE At(s, I)[d] # b
    <3>1. d \in C /\ d <= c
      BY <1>1
    <3>2. Nth(I, d) \in 1 .. Len(s) /\ Nth(I, d) <= k
      BY <1>0, <1>1, <1>3, <2>3, <3>1
    <3>3. Nth(I, d) \in 1 .. i
      BY <1>0, <2>2, <3>2
    <3> QED
      BY <1>2, <2>1, <3>1, <3>3
  <2> QED
    BY <1>2, <2>2, <2>3, <2>4 DEF Precedes
<1> QED
  BY <1>4, <1>5

(***************************************************************************)
(* What is appended behind does not change the order of what was there.    *)
(***************************************************************************)
LEMMA ConcatOrder ==
  ASSUME NEW X, NEW s \in Seq(X), NEW t \in Seq(X), NEW a \in ToSet(s), NEW b \in ToSet(s)
  PROVE  Precedes(s \o t, a, b) <=> Precedes(s, a, b)
<1>1. Len(s) \in Nat /\ Len(t) \in Nat /\ Len(s \o t) = Len(s) + Len(t)
      /\ \A i \in 1 .. Len(s) : i \in 1 .. Len(s \o t) /\ (s \o t)[i] = s[i]
  OBVIOUS
<1>2. ASSUME Precedes(s, a, b) PROVE Precedes(s \o t, a, b)
  <2>1. PICK i \in 1 .. Len(s) : s[i] = a /\ \A j \in 1 .. i : s[j] # b
    BY <1>2 DEF Precedes
  <2>2. \A j \in 1 .. i : j \in 1 .. Len(s)
    BY <1>1
  <2> QED
    BY <1>1, <2>1, <2>2 DEF Precedes
<1>3. ASSUME Precedes(s \o t, a, b) PROVE Precedes(s, a, b)
  <2>1. PICK i \in 1 .. Len(s \o t) : (s \o t)[i] = a /\ \A j \in 1 .. i : (s \o t)[j] # b
    BY <1>3 DEF Precedes
  <2>2. PICK k \in 1 .. Len(s) : s[k] = b
    BY DEF ToSet
  <2>3. ~(k \in 1 .. i)
    BY <1>1, <2>1, <2>2
  <2>4. i \in 1 .. Len(s)
    BY <1>1, <2>3
  <2>5. \A j \in 1 .. i : j \in 1 .. Len(s)
    BY <1>1, <2>4
  <2> QED
    BY <1>1, <2>1, <2>4, <2>5 DEF Precedes
<1> QED
  BY <1>2, <1>3

(***************************************************************************)
(* Two sequences without repetition of the same elements in the same order *)
(* are equal: at the first place where they differ, each would need the    *)
(* element of the other later on.                                          *)
(***************************************************************************)
LEMMA SameOrder ==
  ASSUME NEW X, NEW s \in Seq(X), NEW t \in Seq(X), IsInjective(s), IsInjective(t),
         ToSet(s) = ToSet(t),
         \A a, b \in ToSet(s) : Precedes(s, a, b) <=> Precedes(t, a, b)
  PROVE  s = t
<1>1. /\ Len(s) \in Nat /\ Len(t) \in Nat /\ DOMAIN s = 1 .. Len(s) /\ DOMAIN t = 1 .. Len(t)
      /\ \A i \in 1 .. Len(s) : i \in Nat
      /\ \A i \in 1 .. Len(t) : i \in Nat
  OBVIOUS
<1>2. \A i \in 1 .. Len(s) : \E j \in 1 .. Len(t) : t[j] = s[i]
  BY <1>1 DEF ToSet
<1>3. \A j \in 1 .. Len(t) : \E i \in 1 .. Len(s) : s[i] = t[j]
  BY <1>1 DEF ToSet
<1>4. /\ \A i, j \in 1 .. Len(s) : s[i] = s[j] => i = j
      /\ \A i, j \in 1 .. Len(t) : t[i] = t[j] => i = j
  BY <1>1 DEF IsInjective
<1>5. \A i \in 1 .. Len(s) : i \in 1 .. Len(t) /\ s[i] = t[i]
  <2> DEFINE Bad == {i \in 1 .. Len(s) : ~(i \in 1 .. Len(t) /\ s[i] = t[i])}
  <2> SUFFICES ASSUME Bad # {} PROVE FALSE
    OBVIOUS
  <2>1. PICK i \in Bad : \A j \in Bad : i <= j
    <3>1. Bad \in SUBSET Nat
      BY <1>1
    <3> QED
      BY <3>1, LeastNat
  <2>2. i \in 1 .. Len(s) /\ i \in Nat
    BY <1>1
  <2>3. \A j \in 1 .. i - 1 : j \in 1 .. Len(s) /\ j \in 1 .. Len(t) /\ s[j] = t[j]
    <3> TAKE j \in 1 .. i - 1
    <3>1. j \in 1 .. Len(s) /\ ~(i <= j)
      BY <1>1, <2>2
    <3> QED
      BY <2>1, <3>1
  <2>4. PICK j \in 1 .. Len(t) : t[j] = s[i]
    BY <1>2, <2>2
  <2>5. j \in Nat /\ i < j
    <3>1. j \in Nat /\ j # i
      BY <1>1, <2>4
    <3>2. ~(j \in 1 .. i - 1)
      <4> SUFFICES ASSUME j \in 1 .. i - 1 PROVE FALSE
        OBVIOUS
      <4>1. s[j] = s[i] /\ j \in 1 .. Len(s)
        BY <2>3, <2>4
      <4> QED
        BY <1>4, <2>2, <3>1, <4>1
    <3> QED
      BY <2>2, <3>1, <3>2
  <2>6. i \in 1 .. Len(t)
    BY <1>1, <2>2, <2>5
  <2>7. PICK k \in 1 .. Len(s) : s[k] = t[i]
    BY <1>3, <2>6
  <2>8. k \in Nat /\ i < k
    <3>1. k \in Nat /\ k # i
      BY <1>1, <2>6, <2>7
    <3>2. ~(k \in 1 .. i - 1)
      <4> SUFFICES ASSUME k \in 1 .. i - 1 PROVE FALSE
        OBVIOUS
      <4>1. t[k] = t[i] /\ k \in 1 .. Len(t)
        BY <2>3, <2>7
      <4> QED
        BY <1>4, <2>6, <3>1, <4>1
    <3> QED
      BY <2>2, <3>1, <3>2
  <2>9. s[i] \in ToSet(s) /\ s[k] \in ToSet(s)
    BY <1>1, <2>2, <2>7 DEF ToSet
  <2>10. Precedes(s, s[i], s[k])
    <3>1. \A m \in 1 .. i : m \in 1 .. Len(s) /\ m # k
      BY <1>1, <2>2, <2>8
    <3> QED
      BY <1>4, <2>2, <2>7, <3>1 DEF Precedes
  <2>11. ~Precedes(t, s[i], s[k])
    <3> SUFFICES ASSUME NEW m \in 1 .. Len(t), t[m] = s[i], \A q \in 1 .. m : t[q] # s[k]
                 PROVE  FALSE
      BY DEF Precedes
    <3>1. m = j
      BY <1>4, <2>4
    <3>2. i \in 1 .. m
      BY <2>2, <2>5, <3>1
    <3> QED
      BY <2>7, <3>2
  <2> QED
    BY <2>9, <2>10, <2>11
<1>6. Len(s) = Len(t)
  <2>1. Len(s) <= Len(t)
    BY <1>1, <1>5
  <2>2. ASSUME Len(s) < Len(t) PROVE FALSE
    <3>1. Len(t) \in 1 .. Len(t)
      BY <1>1, <2>2
    <3>2. PICK i \in 1 .. Len(s) : s[i] = t[Len(t)]
      BY <1>3, <3>1
    <3>3. t[i] = t[Len(t)] /\ i \in 1 .. Len(t)
      BY <1>5, <3>2
    <3>4. i = Len(t)
      BY <1>4, <3>1, <3>3
    <3> QED
      BY <1>1, <2>2, <3>4
  <2>3. Len(s) \in Int /\ Len(t) \in Int /\ ~(Len(s) < Len(t))
    BY <2>2
  <2> QED
    BY <2>1, <2>3
<1> QED
  BY <1>5, <1>6, SeqEqual

(***************************************************************************)
(* All places give the sequence itself.                                    *)
(***************************************************************************)
LEMMA AtAll == ASSUME NEW X, NEW s \in Seq(X) PROVE At(s, 1 .. Len(s)) = s
<1> DEFINE I == 1 .. Len(s)
<1>1. Len(s) \in Nat
  OBVIOUS
<1>2. Cardinality(I) = Len(s)
  <2>1. ASSUME NEW n \in Nat PROVE Cardinality(1 .. n) = n
    BY FS_Interval
  <2> QED
    BY <1>1, <2>1
<1>3. ASSUME NEW c \in I PROVE Rank(I, c) = c
  <2>1. c \in Nat /\ c >= 1 /\ {j \in I : j <= c} = 1 .. c
    BY <1>1
  <2>2. Cardinality(1 .. c) = c
    BY <2>1, FS_Interval
  <2> QED
    BY <2>1, <2>2 DEF Rank
<1>4. \A c \in I : Nth(I, c) \in I /\ Rank(I, Nth(I, c)) = c
  BY <1>1, <1>2, NthPlace
<1>5. \A c \in I : Nth(I, c) = c
  <2> HIDE DEF I
  <2> QED
    BY <1>3, <1>4
<1>6. /\ At(s, I) \in Seq(X) /\ Len(At(s, I)) = Len(s)
      /\ \A c \in I : At(s, I)[c] = s[Nth(I, c)]
  BY <1>1, <1>2, AtElements
<1> QED
  BY <1>5, <1>6, SeqEqual

(***************************************************************************)
(* An element of a sequence has a first place.                             *)
(***************************************************************************)
LEMMA FirstPlace ==
  ASSUME NEW X, NEW s \in Seq(X), NEW i \in 1 .. Len(s)
  PROVE  \E j \in Firsts(s) : j <= i /\ s[j] = s[i]
<1> DEFINE T == {j \in 1 .. Len(s) : s[j] = s[i]}
<1>0. Len(s) \in Nat /\ \A j \in 1 .. Len(s) : j \in Nat
  OBVIOUS
<1>1. PICK j \in T : \A k \in T : j <= k
  <2>1. T \in SUBSET Nat /\ i \in T
    BY <1>0
  <2> QED
    BY <2>1, LeastNat
<1>2. j <= i
  BY <1>1
<1>3. ASSUME NEW k \in 1 .. j - 1 PROVE s[k] # s[j]
  <2>1. k \in 1 .. Len(s) /\ ~(j <= k)
    BY <1>0, <1>1
  <2> QED
    BY <1>1, <2>1
<1> QED
  BY <1>1, <1>2, <1>3 DEF Firsts

-----------------------------------------------------------------------------
(***************************************************************************)
(* Lists and maps.                                                         *)
(***************************************************************************)

\* An entry that the controller makes.
MadeEntry == [key : Keys, val : TagVals]

\* The keys that a map has.
Has(m) == {k \in Keys : m[k] # NoTag}

(***************************************************************************)
(* A made entry is an entry.                                               *)
(***************************************************************************)
LEMMA MadeIsEntry == ASSUME NEW l \in Seq(MadeEntry) PROVE l \in Seq(Entry)
<1>1. MadeEntry \subseteq Entry
  BY DEF MadeEntry, Entry
<1> QED
  BY <1>1, SeqMonotonic

(***************************************************************************)
(* The map of a list is a tag map, and has the keys of the list.           *)
(***************************************************************************)
LEMMA ToMapType ==
  ASSUME NEW l \in Seq(Entry)
  PROVE  /\ ToMap(l) \in TagMap
         /\ \A k \in Keys : ToMap(l)[k] # NoTag <=> \E i \in 1 .. Len(l) : l[i].key = k
<1>1. ASSUME NEW k \in Keys, Places(l, k) # {}
      PROVE  ValueOf(l[Max(Places(l, k))]) \in TagVals
  <2>1. Len(l) \in Nat /\ Places(l, k) \in SUBSET (1 .. Len(l))
    BY DEF Places
  <2>2. Max(Places(l, k)) \in 1 .. Len(l)
    BY <1>1, <2>1, LastPlace
  <2>3. l[Max(Places(l, k))] \in Entry
    BY <2>2
  <2> QED
    BY <2>3, TagListAssumptions DEF ValueOf, Entry
<1>2. \A k \in Keys : Places(l, k) # {} <=> \E i \in 1 .. Len(l) : l[i].key = k
  BY DEF Places
<1> QED
  BY <1>1, <1>2, TagAssumptions DEF ToMap, TagMap

(***************************************************************************)
(* The order of a list is of its keys, in the order of their entries.      *)
(***************************************************************************)
LEMMA KeyOrderType ==
  ASSUME NEW l \in Seq(Entry)
  PROVE  /\ KeyOrder(l) \in Seq(Keys)
         /\ ToSet(KeyOrder(l)) = Has(ToMap(l))
<1> DEFINE ks == [i \in 1 .. Len(l) |-> l[i].key]
           I == {i \in 1 .. Len(l) : l[i].key # NoKey}
<1>1. ks \in Seq(Keys \cup {NoKey}) /\ Len(ks) = Len(l) /\ Len(l) \in Nat
  <2>1. \A i \in 1 .. Len(l) : l[i] \in Entry
    OBVIOUS
  <2> QED
    BY <2>1 DEF Entry
<1>2. I \in SUBSET (1 .. Len(ks)) /\ \A i \in I : ks[i] \in Keys
  BY <1>1
<1>3. At(ks, I) \in Seq(Keys) /\ ToSet(At(ks, I)) = {ks[i] : i \in I}
  <2> HIDE DEF ks, I
  <2> QED
    BY <1>1, <1>2, AtElements
<1>4. KeyOrder(l) = At(ks, I)
  BY DEF KeyOrder
<1>5. {ks[i] : i \in I} = Has(ToMap(l))
  BY <1>2, ToMapType, TagListAssumptions DEF Has
<1> QED
  BY <1>3, <1>4, <1>5

(***************************************************************************)
(* The order of a made list is that of its entries.                        *)
(***************************************************************************)
LEMMA MadeOrder ==
  ASSUME NEW l \in Seq(MadeEntry)
  PROVE  KeyOrder(l) = [i \in 1 .. Len(l) |-> l[i].key]
<1> DEFINE ks == [i \in 1 .. Len(l) |-> l[i].key]
<1>1. \A i \in 1 .. Len(l) : l[i].key \in Keys /\ l[i].key # NoKey
  <2>1. \A i \in 1 .. Len(l) : l[i] \in MadeEntry
    OBVIOUS
  <2> QED
    BY <2>1, TagListAssumptions DEF MadeEntry
<1>2. ks \in Seq(Keys) /\ Len(ks) = Len(l)
  BY <1>1
<1>3. {i \in 1 .. Len(l) : l[i].key # NoKey} = 1 .. Len(ks)
  BY <1>1, <1>2
<1>4. KeyOrder(l) = At(ks, 1 .. Len(ks))
  BY <1>3 DEF KeyOrder
<1> HIDE DEF ks
<1>5. At(ks, 1 .. Len(ks)) = ks
  BY <1>2, AtAll
<1> QED
  BY <1>4, <1>5 DEF ks

(***************************************************************************)
(* A set made into a sequence: each of its elements once.                  *)
(***************************************************************************)
LEMMA SetToSeqsElements ==
  ASSUME NEW S, IsFiniteSet(S), NEW s \in SetToSeqs(S)
  PROVE  s \in Seq(S) /\ IsInjective(s) /\ ToSet(s) = S
<1> DEFINE D == 1 .. Cardinality(S)
<1>1. Cardinality(S) \in Nat
  BY FS_CardinalityType
<1>2. s \in [D -> S] /\ \A i, j \in D : i # j => s[i] # s[j]
  BY DEF SetToSeqs
<1>3. s \in Injection(D, S)
  BY <1>2 DEF Injection, IsInjective
<1>4. IsFiniteSet(D) /\ Cardinality(D) = Cardinality(S)
  BY <1>1, FS_Interval
<1>5. s \in Surjection(D, S)
  <2> HIDE DEF D
  <2> QED
    BY <1>3, <1>4, FS_Injection
<1> QED
  BY <1>1, <1>2, <1>3, <1>5 DEF Injection, Surjection, ToSet

(***************************************************************************)
(* The keys taken in order, and any sequence of the others behind them:    *)
(* each key of the map once.                                               *)
(***************************************************************************)
LEMMA KeysTaken ==
  ASSUME NEW m \in TagMap, NEW order \in Seq(Keys),
         NEW rest \in SetToSeqs(Has(m) \ ToSet(Taken(m, order)))
  PROVE  /\ Taken(m, order) \o rest \in Seq(Has(m))
         /\ IsInjective(Taken(m, order) \o rest)
         /\ ToSet(Taken(m, order) \o rest) = Has(m)
         /\ ToSet(Taken(m, order)) = ToSet(order) \cap Has(m)
<1> DEFINE H == Has(m)
           I == {i \in Firsts(order) : m[order[i]] # NoTag}
           t == At(order, I)
<1>1. Taken(m, order) = t
  BY DEF Taken
<1>2. I \in SUBSET (1 .. Len(order)) /\ (\A i \in I : order[i] \in H) /\ Len(order) \in Nat
  <2>1. \A i \in 1 .. Len(order) : order[i] \in Keys
    OBVIOUS
  <2> QED
    BY <2>1 DEF Firsts, Has
<1>3. \A i, j \in I : i # j => order[i] # order[j]
  <2> TAKE i, j \in I
  <2>1. i \in 1 .. Len(order) /\ j \in 1 .. Len(order) /\ i \in Firsts(order) /\ j \in Firsts(order)
    BY <1>2
  <2>2. i < j => order[i] # order[j]
    BY <1>2, <2>1 DEF Firsts
  <2>3. j < i => order[i] # order[j]
    BY <1>2, <2>1 DEF Firsts
  <2> QED
    BY <1>2, <2>1, <2>2, <2>3
<1>4. t \in Seq(H) /\ IsInjective(t) /\ ToSet(t) = {order[i] : i \in I}
  <2> HIDE DEF I, H
  <2> QED
    BY <1>2, <1>3, AtElements
<1>5. {order[i] : i \in I} = ToSet(order) \cap H
  <2>1. ASSUME NEW i \in 1 .. Len(order), order[i] \in H
        PROVE  \E j \in I : order[j] = order[i]
    <3>1. PICK j \in Firsts(order) : order[j] = order[i]
      BY FirstPlace
    <3> QED
      BY <2>1, <3>1 DEF Has
  <2>2. ToSet(order) = {order[i] : i \in 1 .. Len(order)}
    BY DEF ToSet
  <2> QED
    BY <1>2, <2>1, <2>2
<1> HIDE DEF t, H
<1>6. rest \in Seq(H \ ToSet(t)) /\ IsInjective(rest) /\ ToSet(rest) = H \ ToSet(t)
  <2>1. IsFiniteSet(H \ ToSet(t))
    BY TagListAssumptions, FS_Subset DEF H, Has
  <2> QED
    BY <1>1, <2>1, SetToSeqsElements DEF H
<1>7. rest \in Seq(H)
  BY <1>6, SeqMonotonic
<1>8. /\ Len(t) \in Nat /\ Len(rest) \in Nat /\ DOMAIN t = 1 .. Len(t)
      /\ DOMAIN rest = 1 .. Len(rest) /\ Len(t \o rest) = Len(t) + Len(rest)
      /\ DOMAIN (t \o rest) = 1 .. Len(t) + Len(rest)
      /\ t \o rest \in Seq(H)
  BY <1>4, <1>7
<1>9. \A i \in 1 .. Len(t) + Len(rest) :
        (t \o rest)[i] = IF i <= Len(t) THEN t[i] ELSE rest[i - Len(t)]
  BY <1>4, <1>7, ConcatProperties
<1>10. \A i \in 1 .. Len(t) + Len(rest) :
         IF i <= Len(t) THEN i \in DOMAIN t ELSE i - Len(t) \in DOMAIN rest
  BY <1>8
<1>11. IsInjective(t \o rest)
  <2> SUFFICES ASSUME NEW i \in 1 .. Len(t) + Len(rest), NEW j \in 1 .. Len(t) + Len(rest),
                      (t \o rest)[i] = (t \o rest)[j]
               PROVE  i = j
    BY <1>8 DEF IsInjective
  <2>0. i \in Int /\ j \in Int /\ Len(t) \in Int
    BY <1>8
  <2>1. CASE i <= Len(t) /\ j <= Len(t)
    BY <1>4, <1>9, <1>10, <2>1 DEF IsInjective
  <2>2. CASE ~(i <= Len(t)) /\ ~(j <= Len(t))
    <3>1. i - Len(t) = j - Len(t)
      BY <1>6, <1>9, <1>10, <2>2 DEF IsInjective
    <3> QED
      BY <2>0, <3>1
  <2>3. CASE i <= Len(t) /\ ~(j <= Len(t))
    <3>1. t[i] \in ToSet(t) /\ rest[j - Len(t)] \in ToSet(rest)
      BY <1>10, <2>3 DEF ToSet
    <3> QED
      BY <1>6, <1>9, <2>3, <3>1
  <2>4. CASE ~(i <= Len(t)) /\ j <= Len(t)
    <3>1. t[j] \in ToSet(t) /\ rest[i - Len(t)] \in ToSet(rest)
      BY <1>10, <2>4 DEF ToSet
    <3> QED
      BY <1>6, <1>9, <2>4, <3>1
  <2> QED
    BY <2>1, <2>2, <2>3, <2>4
<1>12. ToSet(t \o rest) = ToSet(t) \cup ToSet(rest)
  <2>1. Range(t \o rest) = Range(t) \cup Range(rest)
    BY <1>4, <1>7, RangeConcatenation
  <2> QED
    BY <2>1 DEF ToSet, Range
<1>13. ToSet(t) \subseteq H
  BY <1>4, <1>5
<1> QED
  BY <1>1, <1>4, <1>5, <1>6, <1>8, <1>11, <1>12, <1>13 DEF H

(***************************************************************************)
(* What fromACKTags makes of a map, in whatever order Go ranges over it:   *)
(* a list of made entries with each key once, whose map is the map again,  *)
(* and in which the keys of the given order keep it.                       *)
(***************************************************************************)
LEMMA FromMapGives ==
  ASSUME NEW m \in TagMap, NEW order \in Seq(Keys), NEW l \in FromMap(m, order)
  PROVE  /\ l \in Seq(MadeEntry)
         /\ IsInjective(KeyOrder(l))
         /\ ToMap(l) = m
         /\ \A a, b \in ToSet(order) \cap Has(m) :
              Precedes(KeyOrder(l), a, b) <=> Precedes(order, a, b)
<1> DEFINE t == Taken(m, order)
<1>1. PICK rest \in SetToSeqs(Has(m) \ ToSet(t)) :
        l = [i \in 1 .. Len(t \o rest) |-> [key |-> (t \o rest)[i], val |-> m[(t \o rest)[i]]]]
  BY DEF FromMap, Has
<1> DEFINE ks == t \o rest
<1>2. /\ ks \in Seq(Has(m)) /\ IsInjective(ks) /\ ToSet(ks) = Has(m)
      /\ ToSet(t) = ToSet(order) \cap Has(m)
  BY KeysTaken
<1>3. l = [i \in 1 .. Len(ks) |-> [key |-> ks[i], val |-> m[ks[i]]]]
  BY <1>1
<1> HIDE DEF ks
<1>4. Len(ks) \in Nat /\ DOMAIN ks = 1 .. Len(ks)
      /\ \A i \in 1 .. Len(ks) : ks[i] \in Keys /\ m[ks[i]] \in TagVals
  <2>1. \A k \in Has(m) : k \in Keys /\ m[k] \in TagVals
    BY DEF Has, TagMap
  <2> QED
    BY <1>2, <2>1
<1>5. l \in Seq(MadeEntry) /\ Len(l) = Len(ks)
  <2>1. \A i \in 1 .. Len(ks) : [key |-> ks[i], val |-> m[ks[i]]] \in MadeEntry
    BY <1>4 DEF MadeEntry
  <2> QED
    BY <1>3, <1>4, <2>1
<1>6. \A i \in 1 .. Len(l) : l[i].key = ks[i] /\ l[i].val = m[ks[i]]
  BY <1>3, <1>5
<1>7. KeyOrder(l) = ks
  <2>1. KeyOrder(l) = [i \in 1 .. Len(ks) |-> ks[i]]
    BY <1>5, <1>6, MadeOrder
  <2>2. ks = [i \in 1 .. Len(ks) |-> ks[i]]
    BY <1>2
  <2> QED
    BY <2>1, <2>2
<1>8. ASSUME NEW k \in Keys PROVE ToMap(l)[k] = m[k]
  <2>1. CASE Places(l, k) = {}
    <3>1. \A i \in 1 .. Len(ks) : ks[i] # k
      BY <1>5, <1>6, <2>1 DEF Places
    <3>2. k \notin Has(m)
      BY <1>2, <1>4, <3>1 DEF ToSet
    <3> QED
      BY <2>1, <3>2 DEF ToMap, Has
  <2>2. CASE Places(l, k) # {}
    <3>1. Max(Places(l, k)) \in Places(l, k)
      <4>1. Len(l) \in Nat /\ Places(l, k) \in SUBSET (1 .. Len(l))
        BY <1>4, <1>5 DEF Places
      <4> QED
        BY <2>2, <4>1, LastPlace
    <3>2. l[Max(Places(l, k))].val = m[k] /\ m[k] \in TagVals
      BY <1>4, <1>5, <1>6, <3>1 DEF Places
    <3> QED
      BY <2>2, <3>2, TagListAssumptions DEF ToMap, ValueOf
  <2> QED
    BY <2>1, <2>2
<1>9. ToMap(l) = m
  BY <1>8 DEF ToMap, TagMap
<1>10. ASSUME NEW a \in ToSet(order) \cap Has(m), NEW b \in ToSet(order) \cap Has(m)
       PROVE  Precedes(ks, a, b) <=> Precedes(order, a, b)
  <2> DEFINE I == {i \in Firsts(order) : m[order[i]] # NoTag}
  <2>1. ASSUME NEW c \in Has(m) PROVE Keeps(I, order, c)
    <3> SUFFICES ASSUME NEW i \in 1 .. Len(order), order[i] = c
                 PROVE  \E j \in I : j <= i /\ order[j] = c
      BY DEF Keeps
    <3>1. PICK j \in Firsts(order) : j <= i /\ order[j] = order[i]
      BY FirstPlace
    <3> QED
      BY <3>1 DEF Has
  <2>2. t = At(order, I) /\ I \in SUBSET (1 .. Len(order))
    BY DEF Taken, Firsts
  <2>3. Precedes(t, a, b) <=> Precedes(order, a, b)
    <3> HIDE DEF I, t
    <3> QED
      BY <2>1, <2>2, AtOrder
  <2>4. a \in ToSet(t) /\ b \in ToSet(t)
    BY <1>2
  <2>5. Precedes(ks, a, b) <=> Precedes(t, a, b)
    <3>1. t \in Seq(Keys) /\ rest \in Seq(Keys)
      <4>1. I \in SUBSET (1 .. Len(order)) /\ \A i \in I : order[i] \in Keys
        BY <2>2
      <4>2. t \in Seq(Keys)
        BY <2>2, <4>1, AtElements
      <4>3. IsFiniteSet(Has(m) \ ToSet(t))
        BY TagListAssumptions, FS_Subset DEF Has
      <4>4. rest \in Seq(Has(m) \ ToSet(t))
        BY <4>3, SetToSeqsElements
      <4> QED
        BY <4>2, <4>4, SeqMonotonic DEF Has
    <3> HIDE DEF t
    <3> QED
      BY <2>4, <3>1, ConcatOrder DEF ks
  <2> QED
    BY <2>3, <2>5
<1> QED
  BY <1>2, <1>5, <1>7, <1>9, <1>10

-----------------------------------------------------------------------------
(***************************************************************************)
(* The user's own tags.                                                    *)
(***************************************************************************)

\* The keys that are the user's to manage.
Own == Keys \ (AwsKeys \cup SystemKeys)

\* l carries the user's own tags of u, in the order of u.
Carries(l, u) ==
  /\ \A k \in Own : ToMap(l)[k] = ToMap(u)[k]
  /\ \A a, b \in Own \cap Has(ToMap(u)) :
       Precedes(KeyOrder(l), a, b) <=> Precedes(KeyOrder(u), a, b)

(***************************************************************************)
(* EnsureTags, syncAWSTags and ignoreSystemTags keep the user's own tags.  *)
(***************************************************************************)
LEMMA OwnKept ==
  ASSUME NEW t \in TagMap, NEW u \in TagMap
  PROVE  /\ EnsureTags(t) \in TagMap /\ \A k \in Own : EnsureTags(t)[k] = t[k]
         /\ SyncAWSTags(t, u) \in TagMap /\ \A k \in Own : SyncAWSTags(t, u)[k] = t[k]
         /\ IgnoreSystemTags(t) \in TagMap /\ \A k \in Own : IgnoreSystemTags(t)[k] = t[k]
         /\ Has(IgnoreSystemTags(t)) \subseteq Own
<1>1. EnsureTags(t) \in TagMap /\ \A k \in Own : EnsureTags(t)[k] = t[k]
  BY TagAssumptions DEF EnsureTags, TagMap, Own, SystemKeys
<1>2. SyncAWSTags(t, u) \in TagMap /\ \A k \in Own : SyncAWSTags(t, u)[k] = t[k]
  BY TagAssumptions DEF SyncAWSTags, TagMap, Own
<1>3. IgnoreSystemTags(t) \in TagMap /\ \A k \in Own : IgnoreSystemTags(t)[k] = t[k]
  BY TagAssumptions DEF IgnoreSystemTags, TagMap, Own
<1>4. Has(IgnoreSystemTags(t)) \subseteq Own
  BY DEF IgnoreSystemTags, Has, Own
<1> QED
  BY <1>1, <1>2, <1>3, <1>4

(***************************************************************************)
(* The calls of a synchronisation leave a tag map.                         *)
(***************************************************************************)
LEMMA SyncTagsType ==
  ASSUME NEW g \in TagMap, NEW d \in TagMap, NEW l \in TagMap
  PROVE  SyncTags(g, d, l) \in TagMap
<1>1. \A ks : WithTags(g, d, ks) \in TagMap
  BY DEF WithTags, TagMap
<1>2. \A m \in TagMap : \A ks : WithoutTags(m, ks) \in TagMap
  BY DEF WithoutTags, TagMap
<1> QED
  BY <1>1, <1>2 DEF SyncTags

(***************************************************************************)
(* A list made of the map of another, with the user's own tags unchanged,  *)
(* carries them.                                                           *)
(***************************************************************************)
LEMMA Converted ==
  ASSUME NEW u \in Seq(Entry), NEW m \in TagMap, NEW l \in FromMap(m, KeyOrder(u)),
         \A k \in Own : m[k] = ToMap(u)[k]
  PROVE  Carries(l, u)
<1>1. KeyOrder(u) \in Seq(Keys) /\ ToSet(KeyOrder(u)) = Has(ToMap(u))
  BY KeyOrderType
<1>2. /\ ToMap(l) = m
      /\ \A a, b \in ToSet(KeyOrder(u)) \cap Has(m) :
           Precedes(KeyOrder(l), a, b) <=> Precedes(KeyOrder(u), a, b)
  BY <1>1, FromMapGives
<1>3. Own \cap Has(ToMap(u)) \subseteq ToSet(KeyOrder(u)) \cap Has(m)
  BY <1>1 DEF Has
<1> QED
  BY <1>2, <1>3 DEF Carries

(***************************************************************************)
(* What is carried twice is carried.                                       *)
(***************************************************************************)
LEMMA CarriesOn ==
  ASSUME NEW l, NEW w, NEW u, Carries(l, w), Carries(w, u)
  PROVE  Carries(l, u)
<1>1. Own \cap Has(ToMap(u)) = Own \cap Has(ToMap(w))
  BY DEF Carries, Has
<1> QED
  BY <1>1 DEF Carries

(***************************************************************************)
(* Managed: the user's own tags of a list, once each, with the values of   *)
(* its map and in its order.                                               *)
(***************************************************************************)
LEMMA ManagedIs ==
  ASSUME NEW u \in Seq(Entry)
  PROVE  /\ Managed(u) \in Seq(MadeEntry)
         /\ \A i \in 1 .. Len(Managed(u)) : Managed(u)[i].val = ToMap(u)[Managed(u)[i].key]
         /\ IsInjective(KeyOrder(Managed(u)))
         /\ ToSet(KeyOrder(Managed(u))) = Own \cap Has(ToMap(u))
         /\ \A a, b \in Own \cap Has(ToMap(u)) :
              Precedes(KeyOrder(Managed(u)), a, b) <=> Precedes(KeyOrder(u), a, b)
<1> DEFINE last(k) == u[Max(Places(u, k))]
           tags == [i \in 1 .. Len(u) |->
                      [key |-> u[i].key,
                       val |-> IF last(u[i].key).val = NoVal THEN Empty ELSE last(u[i].key).val]]
           ks == [i \in 1 .. Len(u) |-> u[i].key]
           I == {i \in 1 .. Len(u) : /\ u[i].key \notin AwsKeys \cup SystemKeys \cup {NoKey}
                                     /\ \A j \in 1 .. i - 1 : u[j].key # u[i].key}
           J == {i \in 1 .. Len(u) : u[i].key # NoKey}
<1>1. Managed(u) = At(tags, I) /\ KeyOrder(u) = At(ks, J)
  BY DEF Managed, KeyOrder
<1>2. /\ Len(u) \in Nat
      /\ \A i \in 1 .. Len(u) : i \in Nat /\ u[i] \in Entry /\ u[i].key \in Keys \cup {NoKey}
  <2>1. \A i \in 1 .. Len(u) : i \in Nat /\ u[i] \in Entry
    OBVIOUS
  <2> QED
    BY <2>1 DEF Entry
<1>3. I \in SUBSET (1 .. Len(u)) /\ J \in SUBSET (1 .. Len(u))
  OBVIOUS
<1>4. ks \in Seq(Keys \cup {NoKey}) /\ Len(ks) = Len(u)
  BY <1>2
<1>5. ASSUME NEW i \in I PROVE u[i].key \in Own /\ tags[i].val = ToMap(u)[u[i].key]
  <2>1. u[i].key \in Keys /\ u[i].key \in Own
    BY <1>2 DEF Own
  <2>2. Places(u, u[i].key) # {}
    BY DEF Places
  <2> QED
    BY <2>1, <2>2 DEF ToMap, ValueOf
<1>6. \A i \in I : tags[i] \in MadeEntry /\ tags[i].key = u[i].key
  <2> TAKE i \in I
  <2>1. u[i].key \in Keys /\ tags[i].val = ToMap(u)[u[i].key]
    BY <1>5 DEF Own
  <2>2. ToMap(u)[u[i].key] # NoTag /\ ToMap(u) \in TagMap
    BY <2>1, ToMapType
  <2>3. tags[i].val \in TagVals
    BY <2>1, <2>2 DEF TagMap
  <2> QED
    BY <2>1, <2>3 DEF MadeEntry
<1>7. \A i, j \in I : i # j => ks[i] # ks[j]
  <2> TAKE i, j \in I
  <2>1. i \in 1 .. Len(u) /\ j \in 1 .. Len(u) /\ i \in Nat /\ j \in Nat
    BY <1>2
  <2>2. i < j => ks[i] # ks[j]
    BY <2>1
  <2>3. j < i => ks[i] # ks[j]
    BY <2>1
  <2> QED
    BY <2>1, <2>2, <2>3
<1>8. tags \in Seq({tags[i] : i \in 1 .. Len(u)}) /\ Len(tags) = Len(u)
  <2> DEFINE X == {tags[i] : i \in 1 .. Len(u)}
  <2>1. \A i \in 1 .. Len(u) : tags[i] \in X
    OBVIOUS
  <2> HIDE DEF X
  <2>2. tags \in [1 .. Len(u) -> X]
    BY <2>1
  <2>3. tags \in Seq(X) /\ Len(tags) = Len(u)
    BY <1>2, <2>2
  <2> QED
    BY <2>3 DEF X
<1>9. /\ Managed(u) \in Seq(MadeEntry) /\ Len(Managed(u)) = Cardinality(I)
      /\ Cardinality(I) \in Nat
      /\ \A c \in 1 .. Cardinality(I) : Managed(u)[c] = tags[Nth(I, c)] /\ Nth(I, c) \in I
  <2>1. \A c \in 1 .. Cardinality(I) : Nth(I, c) \in I
    <3> HIDE DEF I
    <3> QED
      BY <1>2, <1>3, NthPlace
  <2> HIDE DEF I, tags
  <2> QED
    BY <1>1, <1>3, <1>6, <1>8, <2>1, AtElements
<1>10. /\ At(ks, I) \in Seq(Own) /\ Len(At(ks, I)) = Cardinality(I)
       /\ \A c \in 1 .. Cardinality(I) : At(ks, I)[c] = ks[Nth(I, c)]
       /\ ToSet(At(ks, I)) = {ks[i] : i \in I}
       /\ IsInjective(At(ks, I))
  <2>1. \A i \in I : ks[i] \in Own
    BY <1>5
  <2> HIDE DEF I, ks
  <2> QED
    BY <1>3, <1>4, <1>7, <2>1, AtElements
<1>11. KeyOrder(Managed(u)) = At(ks, I)
  <2> DEFINE mk == [c \in 1 .. Len(Managed(u)) |-> Managed(u)[c].key]
  <2>1. KeyOrder(Managed(u)) = mk
    BY <1>9, MadeOrder
  <2>2. \A c \in 1 .. Cardinality(I) : mk[c] = ks[Nth(I, c)]
    <3> TAKE c \in 1 .. Cardinality(I)
    <3>1. Nth(I, c) \in I /\ mk[c] = tags[Nth(I, c)].key
      BY <1>9
    <3>2. tags[Nth(I, c)].key = u[Nth(I, c)].key
      <4> HIDE DEF I, tags
      <4> QED
        BY <1>6, <3>1
    <3> QED
      BY <3>1, <3>2
  <2>3. mk = [c \in 1 .. Cardinality(I) |-> ks[Nth(I, c)]]
    <3> HIDE DEF ks, I
    <3> QED
      BY <1>9, <2>2
  <2>4. At(ks, I) = [c \in 1 .. Cardinality(I) |-> ks[Nth(I, c)]]
    BY DEF At, Nth, Rank
  <2> QED
    BY <2>1, <2>3, <2>4
<1>12. ASSUME NEW a \in Own \cap Has(ToMap(u))
       PROVE  /\ Keeps(I, ks, a) /\ Keeps(J, ks, a)
              /\ \E i \in I : ks[i] = a
  <2>1. ASSUME NEW i \in 1 .. Len(u), ks[i] = a
        PROVE  i \in J /\ \E j \in I : j <= i /\ ks[j] = a
    <3>1. PICK j \in Firsts(ks) : j <= i /\ ks[j] = a
      <4> HIDE DEF ks
      <4> QED
        BY <1>4, <2>1, FirstPlace
    <3>2. a \in Keys /\ a \notin AwsKeys \cup SystemKeys /\ a # NoKey
      BY TagListAssumptions DEF Own
    <3>3. j \in 1 .. Len(u) /\ u[j].key = a /\ \A q \in 1 .. j - 1 : ks[q] # a
      BY <1>4, <3>1 DEF Firsts
    <3>4. \A q \in 1 .. j - 1 : q \in 1 .. Len(u)
      BY <1>2, <3>3
    <3>5. j \in I
      BY <3>2, <3>3, <3>4
    <3> QED
      BY <2>1, <3>1, <3>2, <3>5
  <2>2. \A i \in 1 .. Len(u) : i <= i
    BY <1>2
  <2>3. \E i \in 1 .. Len(u) : ks[i] = a
    <3>1. a \in Keys /\ ToMap(u)[a] # NoTag
      BY DEF Has
    <3> QED
      BY <3>1, ToMapType
  <2>4. \E i \in I : ks[i] = a
    <3> HIDE DEF I, J, ks
    <3> QED
      BY <2>1, <2>3
  <2>5. Keeps(I, ks, a) /\ Keeps(J, ks, a)
    <3> HIDE DEF I, J, ks
    <3> QED
      BY <1>4, <2>1, <2>2 DEF Keeps
  <2> QED
    BY <2>4, <2>5
<1>13. {ks[i] : i \in I} = Own \cap Has(ToMap(u))
  <2>1. ASSUME NEW i \in I PROVE ks[i] \in Own \cap Has(ToMap(u))
    <3>1. ks[i] \in Own /\ ks[i] \in Keys /\ i \in 1 .. Len(u) /\ u[i].key = ks[i]
      BY <1>5 DEF Own
    <3>2. ToMap(u)[ks[i]] # NoTag
      <4> HIDE DEF ks, I
      <4> QED
        BY <3>1, ToMapType
    <3> QED
      BY <3>1, <3>2 DEF Has
  <2> HIDE DEF I, ks
  <2> QED
    BY <1>12, <2>1
<1>14. ASSUME NEW a \in Own \cap Has(ToMap(u)), NEW b \in Own \cap Has(ToMap(u))
       PROVE  Precedes(At(ks, I), a, b) <=> Precedes(At(ks, J), a, b)
  <2>1. Keeps(I, ks, a) /\ Keeps(J, ks, a) /\ Keeps(I, ks, b) /\ Keeps(J, ks, b)
    BY <1>12
  <2> HIDE DEF I, J, ks
  <2>2. Precedes(At(ks, I), a, b) <=> Precedes(ks, a, b)
    BY <1>3, <1>4, <2>1, AtOrder
  <2>3. Precedes(At(ks, J), a, b) <=> Precedes(ks, a, b)
    BY <1>3, <1>4, <2>1, AtOrder
  <2> QED
    BY <2>2, <2>3
<1>15. \A i \in 1 .. Len(Managed(u)) : Managed(u)[i].val = ToMap(u)[Managed(u)[i].key]
  <2> TAKE c \in 1 .. Len(Managed(u))
  <2>1. Nth(I, c) \in I /\ Managed(u)[c] = tags[Nth(I, c)]
    BY <1>9
  <2> HIDE DEF I, tags
  <2> QED
    BY <1>5, <1>6, <2>1
<1> HIDE DEF I, J, ks, tags
<1> QED
  BY <1>1, <1>9, <1>10, <1>11, <1>13, <1>14, <1>15

-----------------------------------------------------------------------------
(***************************************************************************)
(* The inductive invariant.                                                *)
(***************************************************************************)

\* From EnsureTags on, the working copy carries the user's own tags.
UserKept == pc # "start" => Carries(work, spec)

\* FilterSystemTags leaves no others.
OnlyOwn == pc = "filtered" => Has(ToMap(work)) \subseteq Own

ListInv == TypeOK /\ NoDuplicates /\ UserKept /\ OnlyOwn

(***************************************************************************)
(* The parts of a state that the actions make.                             *)
(***************************************************************************)
LEMMA ListsTyped ==
  ASSUME ListInv
  PROVE  /\ spec \in Seq(Entry) /\ work \in Seq(MadeEntry) /\ latest \in Seq(MadeEntry)
         /\ work \in Seq(Entry) /\ latest \in Seq(Entry)
         /\ ToMap(spec) \in TagMap /\ ToMap(work) \in TagMap /\ ToMap(latest) \in TagMap
         /\ group \in TagMap
         /\ KeyOrder(spec) \in Seq(Keys) /\ KeyOrder(work) \in Seq(Keys)
<1>1. spec \in Seq(Entry) /\ work \in Seq(MadeEntry) /\ latest \in Seq(MadeEntry)
      /\ group \in TagMap
  BY DEF ListInv, TypeOK, MadeEntry
<1>2. work \in Seq(Entry) /\ latest \in Seq(Entry)
  BY <1>1, MadeIsEntry
<1> QED
  BY <1>1, <1>2, ToMapType, KeyOrderType

(***************************************************************************)
(* The lists are empty in the beginning.                                   *)
(***************************************************************************)
LEMMA EmptyList ==
  /\ <<>> \in Seq(MadeEntry) /\ ToMap(<<>>) = NoTags /\ KeyOrder(<<>>) = <<>>
  /\ IsInjective(<<>>)
<1>1. <<>> \in Seq(MadeEntry) /\ Len(<<>>) = 0
  OBVIOUS
<1>2. \A k \in Keys : Places(<<>>, k) = {}
  BY DEF Places
<1>3. KeyOrder(<<>>) = <<>>
  <2>1. KeyOrder(<<>>) = [i \in 1 .. Len(<<>>) |-> <<>>[i].key]
    BY <1>1, MadeOrder
  <2>2. 1 .. Len(<<>>) = {}
    BY <1>1
  <2>3. [i \in 1 .. Len(<<>>) |-> <<>>[i].key] = [i \in {} |-> <<>>[i].key]
    BY <2>2, Zenon
  <2>4. [i \in {} |-> <<>>[i].key] = <<>>
    OBVIOUS
  <2> QED
    BY <2>1, <2>3, <2>4
<1> QED
  BY <1>1, <1>2, <1>3 DEF ToMap, NoTags, IsInjective

(***************************************************************************)
(* The invariant holds at first.                                           *)
(***************************************************************************)
LEMMA InitListInv == Init => ListInv
<1> SUFFICES ASSUME Init PROVE ListInv
  OBVIOUS
<1>1. TypeOK
  BY EmptyList, TagListAssumptions DEF Init, TypeOK, MadeEntry, TagMap, NoTags
<1>2. NoDuplicates
  BY EmptyList DEF Init, NoDuplicates
<1> QED
  BY <1>1, <1>2 DEF ListInv, UserKept, OnlyOwn, Init

(***************************************************************************)
(* EnsureTags makes a list that carries the user's tags.                   *)
(***************************************************************************)
LEMMA EnsureKeeps == ASSUME ListInv, Ensure PROVE ListInv'
<1> DEFINE m == EnsureTags(ToMap(spec))
<1>1. m \in TagMap /\ \A k \in Own : m[k] = ToMap(spec)[k]
  BY ListsTyped, OwnKept
<1>2. work' \in FromMap(m, KeyOrder(spec)) /\ pc' = "ensured"
      /\ spec' = spec /\ latest' = latest /\ group' = group /\ changes' = changes
  BY DEF Ensure
<1>3. work' \in Seq(MadeEntry) /\ IsInjective(KeyOrder(work'))
  BY <1>1, <1>2, ListsTyped, FromMapGives
<1>4. Carries(work', spec)
  BY <1>1, <1>2, ListsTyped, Converted
<1>5. TypeOK'
  BY <1>2, <1>3 DEF ListInv, TypeOK, MadeEntry
<1>6. NoDuplicates'
  BY <1>2, <1>3 DEF ListInv, NoDuplicates
<1> QED
  BY <1>2, <1>4, <1>5, <1>6 DEF ListInv, UserKept, OnlyOwn

(***************************************************************************)
(* So does the mirroring of the aws: tags of what was read.                *)
(***************************************************************************)
LEMMA ReadKeeps == ASSUME ListInv, Read PROVE ListInv'
<1> DEFINE m == SyncAWSTags(ToMap(work), ToMap(latest'))
<1>1. /\ pc = "ensured" /\ pc' = "read" /\ latest' \in FromMap(group, <<>>)
      /\ work' \in FromMap(m, KeyOrder(work))
      /\ spec' = spec /\ group' = group /\ changes' = changes
  BY DEF Read
<1>2. latest' \in Seq(MadeEntry) /\ IsInjective(KeyOrder(latest')) /\ ToMap(latest') = group
  <2>1. group \in TagMap /\ <<>> \in Seq(Keys)
    BY ListsTyped
  <2> QED
    BY <1>1, <2>1, FromMapGives
<1>3. m \in TagMap /\ \A k \in Own : m[k] = ToMap(work)[k]
  BY <1>2, ListsTyped, OwnKept
<1>4. work' \in Seq(MadeEntry) /\ IsInjective(KeyOrder(work'))
  BY <1>1, <1>3, ListsTyped, FromMapGives
<1>5. Carries(work', spec)
  <2>1. Carries(work', work)
    BY <1>1, <1>3, ListsTyped, Converted
  <2>2. Carries(work, spec)
    BY <1>1 DEF ListInv, UserKept
  <2> QED
    BY <2>1, <2>2, CarriesOn
<1>6. TypeOK'
  BY <1>1, <1>2, <1>4 DEF ListInv, TypeOK, MadeEntry
<1>7. NoDuplicates'
  BY <1>2, <1>4 DEF NoDuplicates
<1> QED
  BY <1>1, <1>5, <1>6, <1>7 DEF ListInv, UserKept, OnlyOwn

(***************************************************************************)
(* And the filter, which leaves nothing else.                              *)
(***************************************************************************)
LEMMA FilterKeeps == ASSUME ListInv, Filter PROVE ListInv'
<1> DEFINE m == IgnoreSystemTags(ToMap(work))
<1>1. /\ pc = "synced" /\ pc' = "filtered" /\ work' \in FromMap(m, KeyOrder(work))
      /\ spec' = spec /\ latest' = latest /\ group' = group /\ changes' = changes
  BY DEF Filter
<1>2. m \in TagMap /\ (\A k \in Own : m[k] = ToMap(work)[k]) /\ Has(m) \subseteq Own
  BY ListsTyped, OwnKept
<1>3. work' \in Seq(MadeEntry) /\ IsInjective(KeyOrder(work')) /\ ToMap(work') = m
  BY <1>1, <1>2, ListsTyped, FromMapGives
<1>4. Carries(work', spec)
  <2>1. Carries(work', work)
    BY <1>1, <1>2, ListsTyped, Converted
  <2>2. Carries(work, spec)
    BY <1>1 DEF ListInv, UserKept
  <2> QED
    BY <2>1, <2>2, CarriesOn
<1>5. TypeOK'
  BY <1>1, <1>3 DEF ListInv, TypeOK, MadeEntry
<1>6. NoDuplicates'
  BY <1>1, <1>3 DEF ListInv, NoDuplicates
<1>7. Has(ToMap(work')) \subseteq Own
  BY <1>2, <1>3
<1> QED
  BY <1>1, <1>4, <1>5, <1>6, <1>7 DEF ListInv, UserKept, OnlyOwn

(***************************************************************************)
(* The tag calls, the end of a reconcile, an edit and a change by another  *)
(* client do not change the list that the filter makes.                    *)
(***************************************************************************)
LEMMA OthersKeep ==
  ASSUME ListInv, Sync \/ Rest \/ Edit \/ Outside
  PROVE  ListInv'
<1>1. CASE Sync
  <2>1. group' \in TagMap
    BY <1>1, ListsTyped, SyncTagsType DEF Sync
  <2> QED
    BY <1>1, <2>1 DEF Sync, ListInv, TypeOK, NoDuplicates, UserKept, OnlyOwn
<1>2. CASE Rest
  <2>1. work' = <<>> /\ latest' = <<>> /\ pc' = "start"
        /\ spec' = spec /\ group' = group /\ changes' = changes
    BY <1>2 DEF Rest
  <2>2. TypeOK'
    BY <2>1, EmptyList DEF ListInv, TypeOK, MadeEntry
  <2>3. NoDuplicates'
    BY <2>1, EmptyList DEF NoDuplicates
  <2> QED
    BY <2>1, <2>2, <2>3 DEF ListInv, UserKept, OnlyOwn
<1>3. CASE Edit
  <2>1. /\ spec' \in UserLists /\ pc = "start" /\ pc' = pc /\ changes < MaxChanges
        /\ changes' = changes + 1 /\ work' = work /\ latest' = latest /\ group' = group
    BY <1>3 DEF Edit
  <2>2. TypeOK'
    BY <2>1, TagListAssumptions DEF ListInv, TypeOK
  <2>3. NoDuplicates'
    BY <2>1 DEF ListInv, NoDuplicates
  <2> QED
    BY <2>1, <2>2, <2>3 DEF ListInv, UserKept, OnlyOwn
<1>4. CASE Outside
  <2>1. group' \in TagMap
    BY <1>4, ListsTyped DEF Outside, TagMap
  <2>2. /\ changes < MaxChanges /\ changes' = changes + 1
        /\ spec' = spec /\ work' = work /\ latest' = latest /\ pc' = pc
    BY <1>4 DEF Outside
  <2>3. TypeOK'
    BY <2>1, <2>2, TagListAssumptions DEF ListInv, TypeOK
  <2> QED
    BY <2>2, <2>3 DEF ListInv, NoDuplicates, UserKept, OnlyOwn
<1> QED
  BY <1>1, <1>2, <1>3, <1>4

(***************************************************************************)
(* Every step keeps the invariant.                                         *)
(***************************************************************************)
LEMMA StepKeepsListInv == ListInv /\ [Next]_vars => ListInv'
<1> SUFFICES ASSUME ListInv, [Next]_vars PROVE ListInv'
  OBVIOUS
<1>1. CASE UNCHANGED vars
  BY <1>1 DEF vars, ListInv, TypeOK, NoDuplicates, UserKept, OnlyOwn
<1> QED
  BY <1>1, EnsureKeeps, ReadKeeps, FilterKeeps, OthersKeep DEF Next, Worker

LEMMA Invariance == Spec => []ListInv
  BY InitListInv, StepKeepsListInv, PTL DEF Spec

(***************************************************************************)
(* The variables have their types.                                         *)
(***************************************************************************)
THEOREM TypeCorrect == Spec => []TypeOK
<1>1. ListInv => TypeOK
  BY DEF ListInv
<1> QED
  BY <1>1, Invariance, PTL

(***************************************************************************)
(* No list of the controller names a key twice.                            *)
(***************************************************************************)
THEOREM DuplicateFree == Spec => []NoDuplicates
<1>1. ListInv => NoDuplicates
  BY DEF ListInv
<1> QED
  BY <1>1, Invariance, PTL

-----------------------------------------------------------------------------
(***************************************************************************)
(* What comes back to the spec.                                            *)
(***************************************************************************)

(***************************************************************************)
(* In a list without repeated keys every value is that of the map.         *)
(***************************************************************************)
LEMMA MadeValue ==
  ASSUME NEW l \in Seq(MadeEntry), IsInjective(KeyOrder(l)), NEW i \in 1 .. Len(l)
  PROVE  l[i].val = ToMap(l)[l[i].key]
<1>1. KeyOrder(l) = [j \in 1 .. Len(l) |-> l[j].key]
  BY MadeOrder
<1>2. \A j \in 1 .. Len(l) : l[j].key = l[i].key => j = i
  BY <1>1 DEF IsInjective
<1>3. l[i] \in MadeEntry
  OBVIOUS
<1>4. i \in Places(l, l[i].key) /\ Len(l) \in Nat
  BY DEF Places
<1>5. Max(Places(l, l[i].key)) = i
  <2>1. Places(l, l[i].key) \in SUBSET (1 .. Len(l)) /\ Places(l, l[i].key) # {}
    BY <1>4 DEF Places
  <2>2. Max(Places(l, l[i].key)) \in Places(l, l[i].key)
    BY <1>4, <2>1, LastPlace
  <2> QED
    BY <1>2, <2>2 DEF Places
<1> QED
  BY <1>3, <1>4, <1>5, TagListAssumptions DEF ToMap, ValueOf, MadeEntry

(***************************************************************************)
(* Two lists without repeated keys, with the keys in the same order and    *)
(* the same values, are equal.                                             *)
(***************************************************************************)
LEMMA SameList ==
  ASSUME NEW l \in Seq(MadeEntry), NEW n \in Seq(MadeEntry), KeyOrder(l) = KeyOrder(n),
         \A i \in 1 .. Len(l) : l[i].key = n[i].key => l[i].val = n[i].val
  PROVE  l = n
<1>1. /\ KeyOrder(l) = [i \in 1 .. Len(l) |-> l[i].key]
      /\ KeyOrder(n) = [i \in 1 .. Len(n) |-> n[i].key]
  BY MadeOrder
<1>2. Len(l) \in Nat /\ Len(n) \in Nat /\ 1 .. Len(l) = 1 .. Len(n)
  <2>1. DOMAIN KeyOrder(l) = 1 .. Len(l) /\ DOMAIN KeyOrder(n) = 1 .. Len(n)
    BY <1>1
  <2> QED
    BY <2>1
<1>3. Len(l) = Len(n)
  BY <1>2
<1>4. ASSUME NEW i \in 1 .. Len(l) PROVE l[i] = n[i]
  <2>1. l[i].key = n[i].key
    BY <1>1, <1>3
  <2>2. l[i] \in MadeEntry /\ n[i] \in MadeEntry
    BY <1>3
  <2> QED
    BY <2>1, <2>2 DEF MadeEntry
<1> QED
  BY <1>3, <1>4, SeqEqual

(***************************************************************************)
(* After the filter the list is the user's own tags, as they were written: *)
(* it has the same keys, in the same order, with the same values.          *)
(***************************************************************************)
LEMMA FilteredIsManaged == ListInv => RoundTrip
<1> SUFFICES ASSUME ListInv, pc = "filtered" PROVE work = Managed(spec)
  BY DEF RoundTrip
<1> DEFINE mine == Own \cap Has(ToMap(spec))
           n == Managed(spec)
<1>1. spec \in Seq(Entry) /\ work \in Seq(MadeEntry) /\ work \in Seq(Entry)
  BY ListsTyped
<1>2. /\ IsInjective(KeyOrder(work)) /\ Carries(work, spec) /\ Has(ToMap(work)) \subseteq Own
  BY DEF ListInv, NoDuplicates, UserKept, OnlyOwn
<1>3. KeyOrder(work) \in Seq(Keys) /\ ToSet(KeyOrder(work)) = mine
  <2>1. KeyOrder(work) \in Seq(Keys) /\ ToSet(KeyOrder(work)) = Has(ToMap(work))
    BY <1>1, KeyOrderType
  <2>2. Has(ToMap(work)) = mine
    BY <1>2 DEF Carries, Has
  <2> QED
    BY <2>1, <2>2
<1>4. /\ n \in Seq(MadeEntry)
      /\ \A i \in 1 .. Len(n) : n[i].val = ToMap(spec)[n[i].key]
      /\ IsInjective(KeyOrder(n)) /\ ToSet(KeyOrder(n)) = mine
      /\ \A a, b \in mine : Precedes(KeyOrder(n), a, b) <=> Precedes(KeyOrder(spec), a, b)
  BY <1>1, ManagedIs
<1> HIDE DEF n
<1>5. KeyOrder(n) \in Seq(Keys)
  BY <1>4, MadeIsEntry, KeyOrderType
<1>6. KeyOrder(work) = KeyOrder(n)
  <2>1. \A a, b \in mine : Precedes(KeyOrder(work), a, b) <=> Precedes(KeyOrder(n), a, b)
    BY <1>2, <1>4 DEF Carries
  <2> QED
    BY <1>2, <1>3, <1>4, <1>5, <2>1, SameOrder
<1>7. ASSUME NEW i \in 1 .. Len(work), work[i].key = n[i].key PROVE work[i].val = n[i].val
  <2>1. KeyOrder(work) = [j \in 1 .. Len(work) |-> work[j].key]
    BY <1>1, MadeOrder
  <2>2. KeyOrder(n) = [j \in 1 .. Len(n) |-> n[j].key]
    BY <1>4, MadeOrder
  <2>3. i \in DOMAIN KeyOrder(n)
    BY <1>6, <2>1
  <2>4. i \in 1 .. Len(n)
    BY <2>2, <2>3
  <2>5. n[i].val = ToMap(spec)[work[i].key]
    BY <1>4, <1>7, <2>4
  <2>6. work[i].val = ToMap(work)[work[i].key]
    BY <1>1, <1>2, MadeValue
  <2>7. work[i].key \in ToSet(KeyOrder(work))
    BY <2>1 DEF ToSet
  <2> QED
    BY <1>2, <1>3, <2>5, <2>6, <2>7 DEF Carries
<1> QED
  BY <1>1, <1>4, <1>6, <1>7, SameList DEF n

(***************************************************************************)
(* EnsureTags, mirrorAWSTags and FilterSystemTags give back the tags that  *)
(* the user wrote, in the user's order.                                    *)
(***************************************************************************)
THEOREM TagsComeBack == Spec => []RoundTrip
  BY FilteredIsManaged, Invariance, PTL

-----------------------------------------------------------------------------
(***************************************************************************)
(* The lists implement the maps.                                           *)
(***************************************************************************)

(***************************************************************************)
(* The beginning.                                                          *)
(***************************************************************************)
LEMMA InitMaps == Init => Maps!Init
  BY EmptyList DEF Init, Maps!Init, Maps!NoTags, NoTags

(***************************************************************************)
(* Every step on the lists is one on their maps.                           *)
(***************************************************************************)
LEMMA StepMaps == ListInv /\ [Next]_vars => [Maps!Next]_(Maps!vars)
<1> SUFFICES ASSUME ListInv, [Next]_vars PROVE [Maps!Next]_(Maps!vars)
  OBVIOUS
<1>1. CASE Ensure
  <2>1. ToMap(work') = EnsureTags(ToMap(spec))
    BY <1>1, ListsTyped, OwnKept, FromMapGives DEF Ensure
  <2>2. Maps!Ensure
    BY <1>1, <2>1 DEF Ensure, EnsureTags, Maps!Ensure, Maps!EnsureTags
  <2> QED
    BY <2>2 DEF Maps!Next
<1>2. CASE Read
  <2>1. ToMap(latest') = group
    <3>1. <<>> \in Seq(Keys)
      OBVIOUS
    <3> QED
      BY <1>2, <3>1, ListsTyped, FromMapGives DEF Read
  <2>2. ToMap(work') = SyncAWSTags(ToMap(work), group)
    BY <1>2, <2>1, ListsTyped, OwnKept, FromMapGives DEF Read
  <2>3. Maps!Read
    BY <1>2, <2>1, <2>2 DEF Read, SyncAWSTags, Maps!Read, Maps!SyncAWSTags
  <2> QED
    BY <2>3 DEF Maps!Next
<1>3. CASE Sync
  <2>1. Maps!Sync
    BY <1>3 DEF Sync, Maps!Sync, SyncTags, Maps!SyncTags, ToAdd, Maps!ToAdd, ToRemove,
                Maps!ToRemove, DifferenceRemoved, Maps!DifferenceRemoved, WithTags,
                Maps!WithTags, WithoutTags, Maps!WithoutTags
  <2> QED
    BY <2>1 DEF Maps!Next
<1>4. CASE Filter
  <2>1. ToMap(work') = IgnoreSystemTags(ToMap(work))
    BY <1>4, ListsTyped, OwnKept, FromMapGives DEF Filter
  <2>2. Maps!Filter
    BY <1>4, <2>1 DEF Filter, IgnoreSystemTags, SystemKeys, Maps!Filter,
                      Maps!IgnoreSystemTags, Maps!SystemKeys
  <2> QED
    BY <2>2 DEF Maps!Next
<1>5. CASE Rest
  <2>1. Maps!Rest
    BY <1>5, EmptyList DEF Rest, NoTags, Maps!Rest, Maps!NoTags
  <2> QED
    BY <2>1 DEF Maps!Next
<1>6. CASE Edit
  <2>1. Maps!Edit
    BY <1>6 DEF Edit, Maps!Edit
  <2> QED
    BY <2>1 DEF Maps!Next
<1>7. CASE Outside
  <2>1. Maps!Outside
    BY <1>7 DEF Outside, Maps!Outside
  <2> QED
    BY <2>1 DEF Maps!Next
<1>8. CASE UNCHANGED vars
  BY <1>8 DEF vars, Maps!vars
<1> QED
  BY <1>1, <1>2, <1>3, <1>4, <1>5, <1>6, <1>7, <1>8 DEF Next, Worker

(***************************************************************************)
(* The order of the lists, repeated keys and missing values make no        *)
(* difference to the tags.                                                 *)
(***************************************************************************)
THEOREM Implements == Spec => ImplementsMaps
<1>1. Init /\ []ListInv /\ [][Next]_vars => Maps!Spec
  BY InitMaps, StepMaps, PTL DEF Maps!Spec
<1> QED
  BY <1>1, Invariance, PTL DEF Spec, ImplementsMaps

-----------------------------------------------------------------------------
(***************************************************************************)
(* Rounds settle the tags.                                                 *)
(***************************************************************************)

\* What the working copy holds, from EnsureTags to the tag calls.
CopyInv ==
  /\ pc = "ensured" => ToMap(work) = EnsureTags(ToMap(spec))
  /\ pc = "read" => ToMap(work) = SyncAWSTags(EnsureTags(ToMap(spec)), ToMap(latest))

(***************************************************************************)
(* What a read makes of the working copy.                                  *)
(***************************************************************************)
LEMMA ReadGives ==
  ASSUME ListInv, CopyInv, Read
  PROVE  /\ ToMap(latest') = group
         /\ ToMap(work') = SyncAWSTags(EnsureTags(ToMap(spec)), group)
         /\ spec' = spec /\ group' = group
<1>1. ToMap(latest') = group
  <2>1. <<>> \in Seq(Keys)
    OBVIOUS
  <2> QED
    BY <2>1, ListsTyped, FromMapGives DEF Read
<1>2. ToMap(work') = SyncAWSTags(ToMap(work), group)
  BY <1>1, ListsTyped, OwnKept, FromMapGives DEF Read
<1> QED
  BY <1>1, <1>2 DEF Read, CopyInv

(***************************************************************************)
(* Every step keeps what is known of the copy.                             *)
(***************************************************************************)
LEMMA StepKeepsCopyInv == ListInv /\ CopyInv /\ [Next]_vars => CopyInv'
<1> SUFFICES ASSUME ListInv, CopyInv, [Next]_vars PROVE CopyInv'
  OBVIOUS
<1>1. CASE Ensure
  <2>1. ToMap(work') = EnsureTags(ToMap(spec))
    BY <1>1, ListsTyped, OwnKept, FromMapGives DEF Ensure
  <2> QED
    BY <1>1, <2>1 DEF Ensure, CopyInv
<1>2. CASE Read
  <2>1. pc' = "read"
    BY <1>2 DEF Read
  <2> QED
    BY <1>2, <2>1, ReadGives DEF CopyInv
<1>3. CASE Sync \/ Filter \/ Rest
  BY <1>3 DEF Sync, Filter, Rest, CopyInv
<1>4. CASE Edit \/ Outside
  BY <1>4 DEF Edit, Outside, CopyInv
<1>5. CASE UNCHANGED vars
  BY <1>5 DEF vars, CopyInv
<1> QED
  BY <1>1, <1>2, <1>3, <1>4, <1>5 DEF Next, Worker

LEMMA CopyKnown == Spec => []CopyInv
<1>1. Init => CopyInv
  BY DEF Init, CopyInv
<1> QED
  BY <1>1, Invariance, StepKeepsCopyInv, PTL DEF Spec

(***************************************************************************)
(* The calls of Tags on what was read make the group what is desired, when *)
(* the aws: tags are mirrored and none is to be written.                   *)
(***************************************************************************)
LEMMA SyncReaches ==
  ASSUME NEW e \in TagMap, NEW g \in TagMap,
         ToAdd(SyncAWSTags(e, g), g) \cap AwsKeys = {}
  PROVE  LET d == SyncAWSTags(e, g)
         IN  SyncTags(g, d, g) = d /\ SyncAWSTags(e, d) = d
<1> DEFINE d == SyncAWSTags(e, g)
<1>1. \A k \in Keys : d[k] = IF k \in AwsKeys /\ g[k] # NoTag THEN g[k] ELSE e[k]
  BY DEF SyncAWSTags
<1>2. d \in TagMap
  BY OwnKept
<1>3. SyncAWSTags(e, d) = d
  BY <1>1 DEF SyncAWSTags
<1> HIDE DEF d
<1>4. ToRemove(d, g) \cap AwsKeys = {}
  BY <1>1 DEF ToRemove, DifferenceRemoved
<1>5. SyncTags(g, d, g) = WithoutTags(WithTags(g, d, ToAdd(d, g)), ToRemove(d, g))
  BY <1>4 DEF SyncTags, d
<1>6. ASSUME NEW k \in Keys
      PROVE  WithoutTags(WithTags(g, d, ToAdd(d, g)), ToRemove(d, g))[k] = d[k]
  BY DEF WithoutTags, WithTags, ToAdd, ToRemove, DifferenceRemoved
<1>7. SyncTags(g, d, g) = d
  BY <1>2, <1>5, <1>6 DEF WithoutTags, TagMap
<1> QED
  BY <1>3, <1>7 DEF d

(***************************************************************************)
(* On settled tags they change nothing, whatever read they work on.        *)
(***************************************************************************)
LEMMA SyncRests ==
  ASSUME NEW e \in TagMap, NEW g \in TagMap, NEW l \in TagMap, SyncAWSTags(e, g) = g
  PROVE  SyncTags(g, SyncAWSTags(e, l), l) = g
<1> DEFINE d == SyncAWSTags(e, l)
<1>1. \A k \in Keys : d[k] = IF k \in AwsKeys /\ l[k] # NoTag THEN l[k] ELSE e[k]
  BY DEF SyncAWSTags
<1>2. \A k \in Keys \ AwsKeys : g[k] = e[k]
  BY DEF SyncAWSTags
<1> HIDE DEF d
<1>3. ToRemove(d, l) \cap AwsKeys = {}
  BY <1>1 DEF ToRemove, DifferenceRemoved
<1>4. CASE ToAdd(d, l) \cap AwsKeys # {}
  BY <1>4 DEF SyncTags, d
<1>5. CASE ToAdd(d, l) \cap AwsKeys = {}
  <2>1. SyncTags(g, d, l) = WithoutTags(WithTags(g, d, ToAdd(d, l)), ToRemove(d, l))
    BY <1>3, <1>5 DEF SyncTags
  <2>2. \A k \in ToAdd(d, l) : k \in Keys \ AwsKeys /\ d[k] = g[k]
    BY <1>1, <1>2, <1>5 DEF ToAdd
  <2>3. \A k \in ToRemove(d, l) : g[k] = NoTag
    BY <1>1, <1>2, <1>3 DEF ToRemove, DifferenceRemoved, ToAdd
  <2>4. ASSUME NEW k \in Keys
        PROVE  WithoutTags(WithTags(g, d, ToAdd(d, l)), ToRemove(d, l))[k] = g[k]
    BY <2>2, <2>3 DEF WithoutTags, WithTags
  <2>5. WithoutTags(WithTags(g, d, ToAdd(d, l)), ToRemove(d, l)) = g
    BY <2>4 DEF WithoutTags, TagMap
  <2> QED
    BY <2>1, <2>5 DEF d
<1> QED
  BY <1>4, <1>5

(***************************************************************************)
(* A synchronisation of what was just read settles the tags.               *)
(***************************************************************************)
LEMMA SyncSettlesStep ==
  ASSUME ListInv, CopyInv, [Next]_vars, pc # "synced", pc' = "synced",
         group = ToMap(latest), ToAdd(ToMap(work), ToMap(latest)) \cap AwsKeys = {}
  PROVE  Settled'
<1>1. Sync
  BY DEF Next, Worker, Ensure, Read, Sync, Filter, Rest, Edit, Outside, vars
<1>2. /\ ToMap(work) = SyncAWSTags(EnsureTags(ToMap(spec)), group)
      /\ group' = SyncTags(group, ToMap(work), group) /\ spec' = spec
  BY <1>1 DEF Sync, CopyInv
<1>3. EnsureTags(ToMap(spec)) \in TagMap /\ group \in TagMap
  BY ListsTyped, OwnKept
<1> QED
  BY <1>2, <1>3, SyncReaches DEF Settled

(***************************************************************************)
(* Settled tags are left alone by the controller.                          *)
(***************************************************************************)
LEMMA SettledStaysStep ==
  ASSUME ListInv, CopyInv, [Next]_vars, pc' # pc, Settled
  PROVE  group' = group /\ (pc' = "read" => ToMap(work') = ToMap(latest'))
<1>1. CASE Ensure \/ Filter \/ Rest
  BY <1>1 DEF Ensure, Filter, Rest
<1>2. CASE Read
  BY <1>2, ReadGives DEF Settled
<1>3. CASE Sync
  <2>1. /\ ToMap(work) = SyncAWSTags(EnsureTags(ToMap(spec)), ToMap(latest))
        /\ group' = SyncTags(group, ToMap(work), ToMap(latest)) /\ pc' = "synced"
    BY <1>3 DEF Sync, CopyInv
  <2>2. EnsureTags(ToMap(spec)) \in TagMap /\ group \in TagMap /\ ToMap(latest) \in TagMap
    BY ListsTyped, OwnKept
  <2> QED
    BY <2>1, <2>2, SyncRests DEF Settled
<1>4. CASE Edit \/ Outside \/ UNCHANGED vars
  BY <1>4 DEF Edit, Outside, vars
<1> QED
  BY <1>1, <1>2, <1>3, <1>4 DEF Next, Worker

(***************************************************************************)
(* One round is enough to settle the tags.                                 *)
(***************************************************************************)
THEOREM OneRoundSettles == Spec => SyncSettles
<1>1. ListInv /\ CopyInv /\ [Next]_vars
        => [pc # "synced" /\ pc' = "synced" /\ group = ToMap(latest)
            /\ ToAdd(ToMap(work), ToMap(latest)) \cap AwsKeys = {} => Settled']_vars
  BY SyncSettlesStep
<1> QED
  BY <1>1, Invariance, CopyKnown, PTL DEF Spec, SyncSettles

(***************************************************************************)
(* No later round changes settled tags or finds a difference.              *)
(***************************************************************************)
THEOREM RoundsRest == Spec => SettledStays
<1>1. ListInv /\ CopyInv /\ [Next]_vars
        => [pc' # pc /\ Settled =>
              group' = group /\ (pc' = "read" => ToMap(work') = ToMap(latest'))]_vars
  BY SettledStaysStep
<1> QED
  BY <1>1, Invariance, CopyKnown, PTL DEF Spec, SettledStays
=============================================================================
