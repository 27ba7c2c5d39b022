------------------------- MODULE SubsequencesProofs -------------------------
(***************************************************************************)
(* What is selected of a sequence that grows or shrinks at its ends.       *)
(***************************************************************************)
EXTENDS Subsequences, Functions, FiniteSetTheorems, SequenceTheorems,
        WellFoundedInduction, TLAPS

(* Induction over the numbers: what fails somewhere fails first somewhere. *)
LEMMA LeastOfNats ==
    ASSUME NEW S, S \subseteq Nat, S # {}
    PROVE  \E x \in S : \A y \in S : x <= y
<1>. DEFINE Less == {p \in Nat \X Nat : p[1] < p[2]}
<1>1. IsWellFoundedOn(Less, Nat)
  BY NatLessThanWellFounded, Zenon DEF OpToRel
<1>2. \E x \in S : \A y \in S : ~(<<y, x>> \in Less)
  <2>. HIDE DEF Less
  <2>. QED BY <1>1, WFMin
<1>3. PICK x \in S : \A y \in S : ~(<<y, x>> \in Less)
  BY <1>2
<1>4. ASSUME NEW y \in S PROVE x <= y
  <2>1. <<y, x>> \in Nat \X Nat /\ ~(<<y, x>>[1] < <<y, x>>[2])
    BY <1>3
  <2>2. x \in Nat /\ y \in Nat /\ ~(y < x)
    BY <2>1
  <2>. QED BY <2>2
<1>. QED BY <1>4

----
(* Positions and their ranks.                                              *)

LEMMA RankType ==
    ASSUME NEW I, IsFiniteSet(I), NEW j
    PROVE  /\ IsFiniteSet({k \in I : k <= j})
           /\ Rank(I, j) \in Nat /\ Cardinality(I) \in Nat /\ Rank(I, j) <= Cardinality(I)
<1>1. {k \in I : k <= j} \in SUBSET I
  OBVIOUS
<1>2. /\ IsFiniteSet({k \in I : k <= j})
      /\ Cardinality({k \in I : k <= j}) <= Cardinality(I)
  BY <1>1, FS_Subset
<1>. QED BY <1>2, FS_CardinalityType DEF Rank

(* A later position has a higher rank.                                     *)
LEMMA RankGrows ==
    ASSUME NEW I \in SUBSET Nat, IsFiniteSet(I), NEW j \in I, NEW k \in I, j < k
    PROVE  Rank(I, j) < Rank(I, k)
<1> DEFINE A == {m \in I : m <= j}  B == {m \in I : m <= k}
<1>1. A \in SUBSET B /\ A # B
  <2>1. \A m \in A : m <= k
    OBVIOUS
  <2>2. k \in B /\ k \notin A
    OBVIOUS
  <2>. QED BY <2>1, <2>2
<1>2. IsFiniteSet(A) /\ IsFiniteSet(B) /\ Cardinality(A) \in Nat /\ Cardinality(B) \in Nat
  BY RankType DEF Rank
<1>3. Cardinality(A) <= Cardinality(B) /\ Cardinality(A) # Cardinality(B)
  <2> HIDE DEF A, B
  <2>. QED BY <1>1, <1>2, FS_Subset
<1>. QED BY <1>2, <1>3 DEF Rank

(* The ranks of n positions are the numbers from 1 to n.                   *)
LEMMA RankOnto ==
    ASSUME NEW I \in SUBSET Nat, IsFiniteSet(I), NEW i \in 1 .. Cardinality(I)
    PROVE  /\ Nth(I, i) \in I /\ Rank(I, Nth(I, i)) = i
           /\ \A j \in I : Rank(I, j) = i => j = Nth(I, i)
<1> DEFINE n == Cardinality(I)
           r == [j \in I |-> Rank(I, j)]
<1>1. n \in Nat /\ IsFiniteSet(1 .. n) /\ Cardinality(1 .. n) = n
  <2>1. n \in Nat
    BY FS_CardinalityType
  <2>. QED BY <2>1, FS_Interval
<1>2. \A j \in I : Rank(I, j) \in 1 .. n
  <2> TAKE j \in I
  <2>1. Rank(I, j) \in Nat /\ Rank(I, j) <= n /\ IsFiniteSet({k \in I : k <= j})
    BY RankType
  <2>2. j \in {k \in I : k <= j}
    OBVIOUS
  <2>3. Rank(I, j) # 0
    BY <2>1, <2>2, FS_EmptySet DEF Rank
  <2>. QED BY <2>1, <2>3, <1>1
<1>3. \A j, k \in I : Rank(I, j) = Rank(I, k) => j = k
  <2> TAKE j, k \in I
  <2>1. Rank(I, j) \in Nat /\ Rank(I, k) \in Nat
    BY RankType
  <2>2. j < k => Rank(I, j) < Rank(I, k)
    BY RankGrows
  <2>3. k < j => Rank(I, k) < Rank(I, j)
    BY RankGrows
  <2>. QED BY <2>1, <2>2, <2>3
<1>4. r \in Injection(I, 1 .. n)
  BY <1>2, <1>3 DEF Injection, IsInjective
<1>5. r \in Surjection(I, 1 .. n)
  <2> HIDE DEF r
  <2>. QED BY <1>1, <1>4, FS_Injection
<1>6. \E j \in I : r[j] = i
  BY <1>5 DEF Surjection
<1>. QED BY <1>3, <1>6 DEF Nth

LEMMA AtType ==
    ASSUME NEW S, NEW s \in Seq(S), NEW I \in SUBSET (1 .. Len(s))
    PROVE  /\ IsFiniteSet(I) /\ Cardinality(I) \in Nat /\ I \in SUBSET Nat
           /\ At(s, I) \in Seq(S) /\ Len(At(s, I)) = Cardinality(I)
           /\ \A i \in 1 .. Cardinality(I) : Nth(I, i) \in I /\ At(s, I)[i] = s[Nth(I, i)]
<1>1. Len(s) \in Nat /\ \A i \in 1 .. Len(s) : s[i] \in S
  BY LenProperties, ElementOfSeq
<1>2. IsFiniteSet(I) /\ Cardinality(I) \in Nat /\ I \in SUBSET Nat
  <2>1. IsFiniteSet(1 .. Len(s)) /\ 1 .. Len(s) \subseteq Nat
    BY <1>1, FS_Interval
  <2>2. IsFiniteSet(I)
    BY <2>1, FS_Subset
  <2>. QED BY <2>1, <2>2, FS_CardinalityType
<1>3. \A i \in 1 .. Cardinality(I) : Nth(I, i) \in I
  BY <1>2, RankOnto
<1>4. \A i \in 1 .. Cardinality(I) : s[Nth(I, i)] \in S
  BY <1>1, <1>3
<1>. QED BY <1>2, <1>3, <1>4 DEF At

(* A new element is selected last or not at all.                           *)
LEMMA AtAppend ==
    ASSUME NEW S, NEW s \in Seq(S), NEW x \in S, NEW I \in SUBSET (1 .. Len(s))
    PROVE  /\ At(Append(s, x), I) = At(s, I)
           /\ At(Append(s, x), I \cup {Len(s) + 1}) = Append(At(s, I), x)
<1> DEFINE n == Len(s)  c == Cardinality(I)  J == I \cup {n + 1}  t == Append(s, x)
<1>1. /\ n \in Nat /\ t \in Seq(S) /\ Len(t) = n + 1 /\ t[n + 1] = x
      /\ \A i \in 1 .. n : t[i] = s[i]
  BY LenProperties, AppendProperties
<1>2. I \in SUBSET (1 .. Len(t)) /\ J \in SUBSET (1 .. Len(t)) /\ J \in SUBSET Nat
  <2>1. \A i \in I : i \in 1 .. n
    OBVIOUS
  <2>2. \A i \in J : i \in 1 .. n + 1 /\ i \in Nat
    BY <2>1, <1>1
  <2>3. \A i \in I : i \in 1 .. n + 1
    BY <2>2
  <2> HIDE DEF n, t, J
  <2>. QED BY <2>2, <2>3, <1>1
<1>3. /\ IsFiniteSet(I) /\ c \in Nat /\ I \in SUBSET Nat /\ At(s, I) \in Seq(S) /\ Len(At(s, I)) = c
      /\ \A i \in 1 .. c : Nth(I, i) \in I /\ At(s, I)[i] = s[Nth(I, i)]
  BY AtType
<1>4. At(t, I) = At(s, I)
  <2>1. \A i \in 1 .. c : t[Nth(I, i)] = s[Nth(I, i)]
    BY <1>1, <1>3
  <2>. QED BY <2>1 DEF At
<1>5. IsFiniteSet(J) /\ Cardinality(J) = c + 1
  <2>1. n + 1 \notin I
    BY <1>1
  <2>. QED BY <2>1, <1>3, FS_AddElement, Zenon
<1>6. \A j \in I : Rank(J, j) = Rank(I, j)
  <2> TAKE j \in I
  <2>1. {k \in J : k <= j} = {k \in I : k <= j}
    BY <1>1
  <2>. QED BY <2>1 DEF Rank
<1>7. Rank(J, n + 1) = c + 1
  <2>1. \A k \in J : k <= n + 1
    BY <1>1
  <2>2. {k \in J : k <= n + 1} = J
    BY <2>1
  <2>. QED BY <2>2, <1>5 DEF Rank
<1>8. \A i \in 1 .. c : Nth(J, i) = Nth(I, i)
  <2> TAKE i \in 1 .. c
  <2>1. Nth(I, i) \in I /\ Rank(I, Nth(I, i)) = i
    BY <1>3, RankOnto
  <2>2. Nth(I, i) \in J /\ Rank(J, Nth(I, i)) = i
    BY <2>1, <1>6
  <2>3. i \in 1 .. Cardinality(J)
    BY <1>3, <1>5
  <2>4. \A j \in J : Rank(J, j) = i => j = Nth(J, i)
    BY <2>3, <1>2, <1>5, RankOnto
  <2>. QED BY <2>2, <2>4
<1>9. Nth(J, c + 1) = n + 1
  <2>1. c + 1 \in 1 .. Cardinality(J) /\ n + 1 \in J
    BY <1>3, <1>5
  <2>2. \A j \in J : Rank(J, j) = c + 1 => j = Nth(J, c + 1)
    BY <2>1, <1>2, <1>5, RankOnto
  <2>. QED BY <2>1, <2>2, <1>7
<1>10. At(t, J) = Append(At(s, I), x)
  <2> DEFINE a == At(t, J)  b == Append(At(s, I), x)
  <2>1. a \in Seq(S) /\ Len(a) = c + 1 /\ \A i \in 1 .. c + 1 : a[i] = t[Nth(J, i)]
    BY <1>1, <1>2, <1>5, AtType
  <2>2. /\ b \in Seq(S) /\ Len(b) = c + 1 /\ b[c + 1] = x
        /\ \A i \in 1 .. c : b[i] = At(s, I)[i]
    BY <1>3, AppendProperties
  <2>6. \A i \in 1 .. c : Nth(I, i) \in 1 .. n /\ i \in 1 .. c + 1
    <3>1. \A j \in I : j \in 1 .. n
      OBVIOUS
    <3>2. \A i \in 1 .. c : Nth(I, i) \in I
      BY <1>3
    <3>3. \A i \in 1 .. c : i \in 1 .. c + 1
      BY <1>3
    <3> HIDE DEF c, n
    <3>. QED BY <3>1, <3>2, <3>3
  <2> HIDE DEF a, b, c, n, t, J
  <2>3. \A i \in 1 .. c : a[i] = b[i]
    BY <2>1, <2>2, <2>6, <1>1, <1>3, <1>8
  <2>4. a[c + 1] = b[c + 1]
    BY <2>1, <2>2, <1>1, <1>3, <1>9
  <2>5. \A i \in 1 .. Len(a) : a[i] = b[i]
    BY <2>1, <2>3, <2>4, <1>3
  <2>7. a = b
    BY <2>1, <2>2, <2>5, SeqEqual
  <2>. QED BY <2>7 DEF a, b
<1>. QED BY <1>4, <1>10

LEMMA Shifted ==
    ASSUME NEW A \in SUBSET Nat, IsFiniteSet(A)
    PROVE  IsFiniteSet({j + 1 : j \in A}) /\ Cardinality({j + 1 : j \in A}) = Cardinality(A)
<1> DEFINE B == {j + 1 : j \in A}  f == [j \in A |-> j + 1]
<1>1. f \in Bijection(A, B)
  <2>1. f \in [A -> B]
    OBVIOUS
  <2>2. \A j, k \in A : f[j] = f[k] => j = k
    OBVIOUS
  <2>3. \A y \in B : \E j \in A : f[j] = y
    OBVIOUS
  <2> HIDE DEF f, B
  <2>. QED BY <2>1, <2>2, <2>3 DEF Bijection, Injection, Surjection, IsInjective
<1>2. ExistsBijection(A, B)
  BY <1>1 DEF ExistsBijection
<1>. QED BY <1>2, FS_Bijection

(* When the first element goes, the others stay in their order.            *)
LEMMA AtTail ==
    ASSUME NEW S, NEW s \in Seq(S), s # << >>, NEW I \in SUBSET (1 .. Len(s))
    PROVE  LET K == {j \in 1 .. Len(s) - 1 : j + 1 \in I}
           IN  /\ 1 \in I => /\ At(s, I) # << >> /\ Head(At(s, I)) = Head(s)
                            /\ At(Tail(s), K) = Tail(At(s, I))
               /\ 1 \notin I => At(Tail(s), K) = At(s, I)
<1> DEFINE n == Len(s)  t == Tail(s)  K == {j \in 1 .. n - 1 : j + 1 \in I}
           c == Cardinality(K)  Up(A) == {j + 1 : j \in A}
           Low(j) == {k \in K : k <= j}
<1>1. /\ n \in Nat \ {0} /\ t \in Seq(S) /\ Len(t) = n - 1 /\ s[1] = Head(s)
      /\ \A i \in 1 .. n - 1 : t[i] = s[i + 1]
  BY LenProperties, HeadTailProperties, EmptySeq
<1>2. K \in SUBSET (1 .. Len(t)) /\ \A j \in I : j \in 1 .. n
  BY <1>1
<1>3. /\ IsFiniteSet(I) /\ Cardinality(I) \in Nat /\ I \in SUBSET Nat
      /\ At(s, I) \in Seq(S) /\ Len(At(s, I)) = Cardinality(I)
      /\ \A i \in 1 .. Cardinality(I) : Nth(I, i) \in I /\ At(s, I)[i] = s[Nth(I, i)]
  BY AtType
<1>4. /\ IsFiniteSet(K) /\ c \in Nat /\ K \in SUBSET Nat
      /\ At(t, K) \in Seq(S) /\ Len(At(t, K)) = c
      /\ \A i \in 1 .. c : Nth(K, i) \in K /\ At(t, K)[i] = t[Nth(K, i)]
  <2> HIDE DEF t, K
  <2>. QED BY <1>1, <1>2, AtType
<1>5. \A j \in K : IsFiniteSet(Low(j)) /\ Low(j) \in SUBSET Nat /\ Cardinality(Low(j)) = Rank(K, j)
                   /\ Rank(K, j) \in Nat
  <2> TAKE j \in K
  <2> HIDE DEF K
  <2>. QED BY <1>4, RankType DEF Rank
<1>6. /\ \A j \in K : IsFiniteSet(Up(Low(j))) /\ Cardinality(Up(Low(j))) = Rank(K, j)
      /\ IsFiniteSet(Up(K)) /\ Cardinality(Up(K)) = c
  <2> HIDE DEF K, Low
  <2>. QED BY <1>4, <1>5, Shifted
<1>7. \A j \in K : j + 1 \in I
  OBVIOUS
<1>8. \A i \in I : i # 1 => i - 1 \in K /\ i = (i - 1) + 1
  <2> TAKE i \in I
  <2>1. i \in 1 .. n
    BY <1>2
  <2>. QED BY <1>1, <2>1
<1>9. ASSUME 1 \notin I
      PROVE  At(t, K) = At(s, I)
  <2>1. Up(K) = I
    BY <1>7, <1>8, <1>9
  <2>2. Cardinality(I) = c
    BY <2>1, <1>6
  <2>3. \A j \in K : Rank(I, j + 1) = Rank(K, j)
    <3> TAKE j \in K
    <3>2. \A k \in I : k <= j + 1 => k - 1 \in Low(j) /\ k = (k - 1) + 1
      BY <1>8, <1>9, <1>2, <1>4
    <3>3. \A k \in Low(j) : k + 1 \in I /\ k + 1 <= j + 1
      BY <1>7, <1>4
    <3>1. {k \in I : k <= j + 1} = Up(Low(j))
      BY <3>2, <3>3
    <3>. QED BY <3>1, <1>6 DEF Rank
  <2>4. \A i \in 1 .. c : Nth(I, i) = Nth(K, i) + 1
    <3> TAKE i \in 1 .. c
    <3> DEFINE m == Nth(K, i)
    <3>1. m \in K /\ Rank(K, m) = i
      <4> HIDE DEF K
      <4>. QED BY <1>4, RankOnto
    <3>2. m + 1 \in I /\ Rank(I, m + 1) = i
      <4> HIDE DEF m
      <4>. QED BY <3>1, <1>7, <2>3
    <3>3. \A j \in I : Rank(I, j) = i => j = Nth(I, i)
      BY <1>3, <2>2, RankOnto
    <3>. QED BY <3>2, <3>3
  <2>5. \A i \in 1 .. c : At(t, K)[i] = At(s, I)[i]
    <3> TAKE i \in 1 .. c
    <3>1. Nth(K, i) \in 1 .. n - 1
      BY <1>4
    <3>2. t[Nth(K, i)] = s[Nth(K, i) + 1]
      <4> HIDE DEF K, t, n
      <4>. QED BY <3>1, <1>1
    <3>3. At(s, I)[i] = s[Nth(I, i)] /\ At(t, K)[i] = t[Nth(K, i)]
      <4> HIDE DEF K, t, n
      <4>. QED BY <1>3, <1>4, <2>2
    <3>. QED BY <3>2, <3>3, <2>4
  <2> HIDE DEF K, t
  <2>. QED BY <2>2, <2>5, <1>3, <1>4, SeqEqual
<1>10. ASSUME 1 \in I
       PROVE  /\ At(s, I) # << >> /\ Head(At(s, I)) = Head(s)
              /\ At(t, K) = Tail(At(s, I))
  <2>1. Up(K) \cup {1} = I /\ 1 \notin Up(K)
    <3>1. \A j \in K : j + 1 \in I /\ j + 1 # 1
      BY <1>7, <1>1
    <3>2. \A i \in I : i = 1 \/ i \in Up(K)
      BY <1>8
    <3>. QED BY <3>1, <3>2, <1>10
  <2>2. Cardinality(I) = c + 1
    <3> HIDE DEF Up, c
    <3>1. Cardinality(Up(K) \cup {1}) = Cardinality(Up(K)) + 1
      BY <2>1, <1>6, FS_AddElement, Zenon
    <3>. QED BY <3>1, <2>1, <1>6
  <2>3. \A j \in K : Rank(I, j + 1) = Rank(K, j) + 1
    <3> TAKE j \in K
    <3>4. \A k \in I : k <= j + 1 => k = 1 \/ (k - 1 \in Low(j) /\ k = (k - 1) + 1)
      BY <1>8, <1>2, <1>4
    <3>5. \A k \in Low(j) : k + 1 \in I /\ k + 1 <= j + 1 /\ k + 1 # 1
      BY <1>7, <1>1
    <3>6. 1 <= j + 1
      BY <1>1
    <3>1. {k \in I : k <= j + 1} = Up(Low(j)) \cup {1} /\ 1 \notin Up(Low(j))
      BY <3>4, <3>5, <3>6, <1>10
    <3>2. IsFiniteSet(Up(Low(j))) /\ Cardinality(Up(Low(j))) = Rank(K, j)
      BY <1>6
    <3>3. Cardinality(Up(Low(j)) \cup {1}) = Cardinality(Up(Low(j))) + 1
      <4> HIDE DEF Up, Low
      <4>. QED BY <3>1, <3>2, FS_AddElement, Zenon
    <3>. QED BY <3>1, <3>2, <3>3 DEF Rank
  <2>4. \A i \in 1 .. c : Nth(I, i + 1) = Nth(K, i) + 1
    <3> TAKE i \in 1 .. c
    <3> DEFINE m == Nth(K, i)
    <3>1. m \in K /\ Rank(K, m) = i
      <4> HIDE DEF K
      <4>. QED BY <1>4, RankOnto
    <3>2. m + 1 \in I /\ Rank(I, m + 1) = i + 1
      <4> HIDE DEF m
      <4>. QED BY <3>1, <1>7, <2>3
    <3>4. i + 1 \in 1 .. Cardinality(I)
      BY <2>2, <1>4
    <3>3. \A j \in I : Rank(I, j) = i + 1 => j = Nth(I, i + 1)
      BY <3>4, <1>3, RankOnto
    <3>. QED BY <3>2, <3>3
  <2>5. Nth(I, 1) = 1
    <3>4. \A k \in I : k <= 1 <=> k = 1
      <4> TAKE k \in I
      <4>1. k \in 1 .. n
        BY <1>2
      <4>. QED BY <4>1, <1>1
    <3>1. {k \in I : k <= 1} = {1}
      BY <1>10, <3>4
    <3>2. Rank(I, 1) = 1
      BY <3>1, FS_Singleton DEF Rank
    <3>3. 1 \in 1 .. Cardinality(I)
      BY <2>2, <1>4
    <3>. QED BY <3>2, <3>3, <1>3, <1>10, RankOnto
  <2>6. At(s, I) # << >> /\ Head(At(s, I)) = At(s, I)[1] /\ At(s, I)[1] = s[1]
    <3>1. Len(At(s, I)) # 0 /\ 1 \in 1 .. Cardinality(I)
      BY <2>2, <1>3, <1>4
    <3>2. At(s, I) # << >>
      BY <3>1, EmptySeq
    <3>. QED BY <3>1, <3>2, <2>5, <1>3, HeadTailProperties
  <2>7. /\ Tail(At(s, I)) \in Seq(S) /\ Len(Tail(At(s, I))) = c
        /\ \A i \in 1 .. c : Tail(At(s, I))[i] = At(s, I)[i + 1]
    <3> DEFINE a == At(s, I)
    <3>1. Len(a) = c + 1 /\ a \in Seq(S) /\ a # << >>
      BY <2>2, <2>6, <1>3
    <3> HIDE DEF a, c
    <3>2. /\ Tail(a) \in Seq(S) /\ Len(Tail(a)) = Len(a) - 1
          /\ \A i \in 1 .. Len(Tail(a)) : Tail(a)[i] = a[i + 1]
      BY <3>1, HeadTailProperties
    <3>3. Len(Tail(a)) = c
      BY <3>1, <3>2, <1>4
    <3>. QED BY <3>2, <3>3 DEF a
  <2>8. \A i \in 1 .. c : At(t, K)[i] = Tail(At(s, I))[i]
    <3> TAKE i \in 1 .. c
    <3>1. Nth(K, i) \in 1 .. n - 1 /\ i + 1 \in 1 .. Cardinality(I)
      BY <1>4, <2>2
    <3>2. t[Nth(K, i)] = s[Nth(K, i) + 1]
      <4> HIDE DEF K, t, n
      <4>. QED BY <3>1, <1>1
    <3>3. At(s, I)[i + 1] = s[Nth(I, i + 1)] /\ At(t, K)[i] = t[Nth(K, i)]
      <4> HIDE DEF K, t, n
      <4>. QED BY <3>1, <1>3, <1>4, <2>2
    <3>. QED BY <3>2, <3>3, <2>4, <2>7
  <2>9. At(t, K) = Tail(At(s, I))
    <3> HIDE DEF K, t
    <3>. QED BY <2>7, <2>8, <1>4, SeqEqual
  <2>. QED BY <2>6, <2>9, <1>1
<1>. QED BY <1>9, <1>10

----
(* What is selected.                                                       *)

LEMMA SelectedType ==
    ASSUME NEW P, NEW q \in Seq(P), NEW S
    PROVE  Selected(q, S) \in Seq(P)
  BY AtType DEF Selected

(* Only what was asked for is selected.                                    *)
LEMMA SelectedIn ==
    ASSUME NEW P, NEW q \in Seq(P), NEW S
    PROVE  Selected(q, S) \in Seq(S)
<1> DEFINE I == {i \in 1 .. Len(q) : q[i] \in S}
<1>1. I \in SUBSET (1 .. Len(q)) /\ \A i \in I : q[i] \in S
  OBVIOUS
<1> HIDE DEF I
<1>2. /\ Cardinality(I) \in Nat
      /\ \A i \in 1 .. Cardinality(I) : Nth(I, i) \in I
  BY <1>1, AtType
<1>3. \A i \in 1 .. Cardinality(I) : q[Nth(I, i)] \in S
  BY <1>1, <1>2
<1>4. At(q, I) \in Seq(S)
  BY <1>2, <1>3 DEF At
<1>. QED BY <1>4 DEF Selected, I

LEMMA SelectedAppend ==
    ASSUME NEW P, NEW q \in Seq(P), NEW x \in P, NEW S
    PROVE  Selected(Append(q, x), S) = IF x \in S THEN Append(Selected(q, S), x) ELSE Selected(q, S)
<1> DEFINE n == Len(q)  I == {i \in 1 .. n : q[i] \in S}
           J == {i \in 1 .. Len(Append(q, x)) : Append(q, x)[i] \in S}
<1>1. /\ n \in Nat /\ Len(Append(q, x)) = n + 1 /\ Append(q, x)[n + 1] = x
      /\ \A i \in 1 .. n : Append(q, x)[i] = q[i]
  BY LenProperties, AppendProperties
<1>2. \A i : i \in 1 .. n + 1 <=> i \in 1 .. n \/ i = n + 1
  BY <1>1
<1>3. J = IF x \in S THEN I \cup {n + 1} ELSE I
  <2> HIDE DEF n
  <2>. QED BY <1>1, <1>2
<1>4. /\ At(Append(q, x), I) = At(q, I)
      /\ At(Append(q, x), I \cup {n + 1}) = Append(At(q, I), x)
  BY AtAppend
<1> HIDE DEF I, J
<1>5. At(Append(q, x), J) = IF x \in S THEN Append(At(q, I), x) ELSE At(q, I)
  BY <1>3, <1>4
<1>. QED BY <1>5 DEF Selected, I, J

LEMMA SelectedTail ==
    ASSUME NEW P, NEW q \in Seq(P), q # << >>, NEW S
    PROVE  /\ Head(q) \in S => /\ Selected(q, S) # << >> /\ Head(Selected(q, S)) = Head(q)
                               /\ Selected(Tail(q), S) = Tail(Selected(q, S))
           /\ Head(q) \notin S => Selected(Tail(q), S) = Selected(q, S)
<1> DEFINE n == Len(q)  I == {i \in 1 .. n : q[i] \in S}
           J == {i \in 1 .. Len(Tail(q)) : Tail(q)[i] \in S}
           K == {j \in 1 .. n - 1 : j + 1 \in I}
<1>1. /\ n \in Nat \ {0} /\ Len(Tail(q)) = n - 1 /\ q[1] = Head(q)
      /\ \A i \in 1 .. n - 1 : Tail(q)[i] = q[i + 1]
  BY LenProperties, HeadTailProperties, EmptySeq
<1>2. \A j \in 1 .. n - 1 : j + 1 \in 1 .. n
  BY <1>1
<1>3. J = K
  <2> HIDE DEF n
  <2>. QED BY <1>1, <1>2
<1>4. 1 \in I <=> Head(q) \in S
  BY <1>1
<1>5. I \in SUBSET (1 .. Len(q))
  OBVIOUS
<1> HIDE DEF I
<1>6. /\ 1 \in I => At(q, I) # << >> /\ Head(At(q, I)) = Head(q) /\ At(Tail(q), K) = Tail(At(q, I))
      /\ 1 \notin I => At(Tail(q), K) = At(q, I)
  BY <1>5, AtTail
<1> HIDE DEF J, K
<1>. QED BY <1>3, <1>4, <1>6 DEF Selected, I, J

LEMMA AtNothing ==
    ASSUME NEW q
    PROVE  At(q, {}) = << >>
<1>1. 1 .. Cardinality({}) = {}
  BY FS_EmptySet
<1>2. At(q, {}) = [i \in {} |-> q[Nth({}, i)]]
  BY <1>1 DEF At
<1>. QED BY <1>2

LEMMA SelectedNothing ==
    ASSUME NEW S
    PROVE  Selected(<< >>, S) = << >>
<1>1. {i \in 1 .. Len(<< >>) : << >>[i] \in S} = {}
  BY EmptySeq
<1>. QED BY <1>1, AtNothing DEF Selected

----
(* Where an element of a sequence is found again.                          *)

(* Only the selected positions matter.                                     *)
LEMMA AtSame ==
    ASSUME NEW S, NEW s \in Seq(S), NEW t \in Seq(S),
           NEW I \in SUBSET (1 .. Len(s)), I \in SUBSET (1 .. Len(t)),
           \A i \in I : s[i] = t[i]
    PROVE  At(s, I) = At(t, I)
<1>1. /\ Cardinality(I) \in Nat
      /\ \A i \in 1 .. Cardinality(I) : Nth(I, i) \in I
  BY AtType
<1>. QED BY <1>1 DEF At

(* One position more, after all the others.                                *)
LEMMA AtExtend ==
    ASSUME NEW S, NEW s \in Seq(S), NEW n \in Nat, n < Len(s), NEW I \in SUBSET (1 .. n)
    PROVE  At(s, I \cup {n + 1}) = Append(At(s, I), s[n + 1])
<1> DEFINE p == [i \in 1 .. n |-> s[i]]  t == Append(p, s[n + 1])  J == I \cup {n + 1}
<1>1. Len(s) \in Nat /\ \A i \in 1 .. Len(s) : s[i] \in S
  BY LenProperties, ElementOfSeq
<1>2. p \in Seq(S) /\ Len(p) = n
  <2>1. p \in [1 .. n -> S]
    BY <1>1
  <2>. QED BY <2>1
<1>3. s[n + 1] \in S
  BY <1>1
<1>4. t \in Seq(S) /\ Len(t) = n + 1 /\ t[n + 1] = s[n + 1] /\ \A i \in 1 .. n : t[i] = p[i]
  BY <1>2, <1>3, AppendProperties
<1>5. \A i \in 1 .. n : p[i] = s[i]
  OBVIOUS
<1> HIDE DEF p, t
<1>6. /\ I \in SUBSET (1 .. Len(p)) /\ I \in SUBSET (1 .. Len(s))
      /\ \A i \in I : p[i] = s[i]
  BY <1>1, <1>2, <1>5
<1>7. At(p, I) = At(s, I)
  BY <1>2, <1>6, AtSame
<1>8. At(t, J) = Append(At(p, I), s[n + 1])
  <2> DEFINE x == s[n + 1]
  <2>1. p \in Seq(S) /\ x \in S /\ I \in SUBSET (1 .. Len(p))
    BY <1>2, <1>3, <1>6
  <2> HIDE DEF x
  <2>2. At(Append(p, x), I \cup {Len(p) + 1}) = Append(At(p, I), x)
    BY ONLY <2>1, AtAppend
  <2>. QED BY <1>2, <2>2 DEF t, x
<1>9. /\ J \in SUBSET (1 .. Len(t)) /\ J \in SUBSET (1 .. Len(s))
      /\ \A i \in J : t[i] = s[i]
  <2>1. \A i \in J : i \in 1 .. n + 1 /\ t[i] = s[i]
    <3>1. \A i \in I : i \in 1 .. n /\ i \in 1 .. n + 1
      OBVIOUS
    <3>2. \A i \in I : t[i] = s[i]
      BY <1>4, <1>5, <3>1
    <3>3. n + 1 \in 1 .. n + 1 /\ t[n + 1] = s[n + 1]
      BY <1>4
    <3>. QED BY <3>1, <3>2, <3>3
  <2> HIDE DEF J
  <2>. QED BY <1>1, <1>4, <2>1
<1>10. At(t, J) = At(s, J)
  <2> HIDE DEF J
  <2>. QED BY <1>4, <1>9, AtSame
<1>. QED BY <1>7, <1>8, <1>10

(* What is at a selected position is found at its rank.                    *)
LEMMA AtRank ==
    ASSUME NEW S, NEW s \in Seq(S), NEW I \in SUBSET (1 .. Len(s)), NEW i \in I
    PROVE  /\ Rank(I, i) \in 1 .. Len(At(s, I)) /\ Nth(I, Rank(I, i)) = i
           /\ At(s, I)[Rank(I, i)] = s[i]
<1>1. /\ IsFiniteSet(I) /\ Cardinality(I) \in Nat /\ I \in SUBSET Nat
      /\ Len(At(s, I)) = Cardinality(I)
      /\ \A j \in 1 .. Cardinality(I) : At(s, I)[j] = s[Nth(I, j)]
  BY AtType
<1>2. Rank(I, i) \in 1 .. Cardinality(I)
  <2>1. Rank(I, i) \in Nat /\ Rank(I, i) <= Cardinality(I) /\ IsFiniteSet({k \in I : k <= i})
    BY <1>1, RankType
  <2>2. i \in {k \in I : k <= i}
    OBVIOUS
  <2>3. Rank(I, i) # 0
    BY <2>1, <2>2, FS_EmptySet DEF Rank
  <2>. QED BY <1>1, <2>1, <2>3
<1>3. Nth(I, Rank(I, i)) = i
  BY <1>1, <1>2, RankOnto
<1>. QED BY <1>1, <1>2, <1>3

(* How many of the selected positions D come before a selected one.        *)
Below(D, i) == {j \in D : j < i}
RanksBelow(I, D, i) == {k \in 1 .. Rank(I, i) - 1 : Nth(I, k) \in D}

LEMMA AtBefore ==
    ASSUME NEW n \in Nat, NEW I \in SUBSET (1 .. n), NEW i \in I, NEW D \in SUBSET I
    PROVE  Cardinality(RanksBelow(I, D, i)) = Cardinality(Below(D, i))
<1> DEFINE c == Cardinality(I)  k == Rank(I, i)
           F == {j \in D : j < i}  E == {m \in 1 .. k - 1 : Nth(I, m) \in D}
           r == [j \in F |-> Rank(I, j)]
           s == [j \in 1 .. n |-> j]
<1>0. s \in Seq(Nat) /\ I \in SUBSET (1 .. Len(s))
  <2>1. s \in [1 .. n -> Nat] /\ Len(s) = n
    OBVIOUS
  <2> HIDE DEF s
  <2>. QED BY <2>1
<1> HIDE DEF s
<1>1. /\ IsFiniteSet(I) /\ c \in Nat /\ I \in SUBSET Nat /\ Len(At(s, I)) = c
  BY <1>0, AtType
<1>2. \A j \in I : Rank(I, j) \in 1 .. c /\ Nth(I, Rank(I, j)) = j
  BY <1>0, <1>1, AtRank
<1>3. \A m \in 1 .. c : Nth(I, m) \in I /\ Rank(I, Nth(I, m)) = m
  BY <1>1, RankOnto
<1>4. \A j, m \in I : j < m => Rank(I, j) < Rank(I, m)
  BY <1>1, RankGrows
<1>5. k \in 1 .. c
  BY <1>2
<1>6. \A j \in F : j \in I /\ Rank(I, j) \in E
  <2> TAKE j \in F
  <2>1. j \in I /\ j \in D /\ j < i
    OBVIOUS
  <2>2. Rank(I, j) \in 1 .. c /\ Rank(I, j) < k /\ Nth(I, Rank(I, j)) = j
    BY <1>2, <1>4, <2>1
  <2>. QED BY <1>5, <2>1, <2>2
<1>7. \A m \in E : \E j \in F : Rank(I, j) = m
  <2> TAKE m \in E
  <2>1. m \in 1 .. c /\ m < k /\ Nth(I, m) \in D
    <3>1. m \in 1 .. k - 1 /\ Nth(I, m) \in D
      OBVIOUS
    <3> HIDE DEF E, c, k
    <3>. QED BY <1>1, <1>5, <3>1
  <2>2. Nth(I, m) \in I /\ Rank(I, Nth(I, m)) = m
    BY <1>3, <2>1
  <2>3. Nth(I, m) < i
    <3>1. Nth(I, m) \in Nat /\ i \in Nat
      BY <1>1, <2>2
    <3>2. i < Nth(I, m) => k < m
      BY <1>4, <2>2
    <3>3. i = Nth(I, m) => k = m
      BY <2>2
    <3>. QED BY <2>1, <3>1, <3>2, <3>3, <1>5
  <2>. QED BY <2>1, <2>2, <2>3
<1>8. r \in Bijection(F, E)
  <2>1. r \in [F -> E]
    BY <1>6
  <2>2. \A j, m \in F : r[j] = r[m] => j = m
    BY <1>2, <1>6
  <2>3. \A m \in E : \E j \in F : r[j] = m
    BY <1>7
  <2> HIDE DEF r, E, F
  <2>. QED BY <2>1, <2>2, <2>3 DEF Bijection, Injection, Surjection, IsInjective
<1>9. IsFiniteSet(F)
  <2>1. F \in SUBSET I
    OBVIOUS
  <2>. QED BY <1>1, <2>1, FS_Subset
<1>10. IsFiniteSet(E) /\ Cardinality(E) = Cardinality(F)
  <2> HIDE DEF E, F, r
  <2>1. ExistsBijection(F, E)
    BY <1>8 DEF ExistsBijection
  <2>. QED BY <1>9, <2>1, FS_Bijection
<1>. QED BY <1>10 DEF Below, RanksBelow

----
(* A function defined from its own values before: step[n] gives the value  *)
(* at n from the function up to n - 1.                                     *)
Total(step, N, V) == \A n \in 0 .. N : \A g \in [0 .. n - 1 -> V] : step[n][g] \in V

Solves(f, step, N) == \A n \in 0 .. N : f[n] = step[n][[m \in 0 .. n - 1 |-> f[m]]]

LEMMA RecursionExists ==
    ASSUME NEW N \in Nat, NEW V, NEW step, Total(step, N, V)
    PROVE  \E f \in [0 .. N -> V] : Solves(f, step, N)
<1> DEFINE Upto(n) == \E f \in [0 .. n -> V] :
                         \A m \in 0 .. n : f[m] = step[m][[l \in 0 .. m - 1 |-> f[l]]]
           Bad == {n \in 0 .. N : ~Upto(n)}
<1>1. ASSUME Bad # {} PROVE FALSE
  <2>1. PICK n \in Bad : \A m \in Bad : n <= m
    <3>1. Bad \subseteq Nat
      OBVIOUS
    <3> HIDE DEF Bad
    <3>. QED BY <1>1, <3>1, LeastOfNats
  <2>2. n \in 0 .. N /\ ~Upto(n)
    OBVIOUS
  <2>3. \E g \in [0 .. n - 1 -> V] :
            \A m \in 0 .. n - 1 : g[m] = step[m][[l \in 0 .. m - 1 |-> g[l]]]
    <3>1. CASE n = 0
      <4>1. 0 .. n - 1 = {}
        BY <3>1
      <4>2. [x \in {} |-> x] \in [0 .. n - 1 -> V]
        BY <4>1
      <4>. QED BY <4>1, <4>2
    <3>2. CASE n # 0
      <4>1. n - 1 \in 0 .. N /\ n - 1 < n
        BY <2>2, <3>2
      <4>2. n - 1 \notin Bad
        <5> HIDE DEF Bad
        <5>. QED BY <2>1, <2>2, <4>1
      <4>3. Upto(n - 1)
        BY <4>1, <4>2
      <4>. QED BY <4>3
    <3>. QED BY <3>1, <3>2
  <2>4. PICK g \in [0 .. n - 1 -> V] :
            \A m \in 0 .. n - 1 : g[m] = step[m][[l \in 0 .. m - 1 |-> g[l]]]
    BY <2>3
  <2> DEFINE f == [m \in 0 .. n |-> IF m = n THEN step[n][g] ELSE g[m]]
  <2>5. f \in [0 .. n -> V]
    <3>1. step[n][g] \in V
      BY <2>2, <2>4 DEF Total
    <3>2. \A m \in 0 .. n : m # n => m \in 0 .. n - 1
      BY <2>2
    <3>. QED BY <2>4, <3>1, <3>2
  <2>6. \A m \in 0 .. n : f[m] = step[m][[l \in 0 .. m - 1 |-> f[l]]]
    <3> TAKE m \in 0 .. n
    <3>1. \A l \in 0 .. m - 1 : l \in 0 .. n /\ l # n /\ l \in 0 .. n - 1
      BY <2>2
    <3>2. [l \in 0 .. m - 1 |-> f[l]] = [l \in 0 .. m - 1 |-> g[l]]
      BY <3>1
    <3>3. CASE m = n
      <4>1. [l \in 0 .. n - 1 |-> g[l]] = g
        BY <2>4
      <4>2. f[m] = step[n][g]
        BY <3>3
      <4> HIDE DEF f
      <4>. QED BY <3>2, <3>3, <4>1, <4>2
    <3>4. CASE m # n
      <4>1. m \in 0 .. n - 1 /\ f[m] = g[m]
        BY <2>2, <3>4
      <4> HIDE DEF f
      <4>. QED BY <2>4, <3>2, <4>1
    <3>. QED BY <3>3, <3>4
  <2>7. Upto(n)
    <3> HIDE DEF f
    <3>. QED BY <2>5, <2>6
  <2>. QED BY <2>2, <2>7
<1>2. Upto(N)
  <2>1. N \in 0 .. N
    OBVIOUS
  <2>. QED BY <1>1, <2>1
<1>. QED BY <1>2 DEF Solves
=============================================================================
