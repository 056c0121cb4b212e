----------------------------- MODULE DataLemmas -----------------------------
(***************************************************************************)
(* Lemmas about numbers and sequences that the proofs of several modules   *)
(* need: induction, and the ends of sequences.                             *)
(***************************************************************************)
EXTENDS Integers, SequencesExt, SequenceTheorems, WellFoundedInduction, TLAPS

-----------------------------------------------------------------------------
(* Induction over the natural numbers, stated with sets and functions.     *)
(* The theorems of NaturalsInduction take the property or the defining     *)
(* expression as an operator; here a property is the set of the numbers    *)
(* that have it, and the step of a recursive definition is a function, so  *)
(* that proofs can cite these lemmas with the facts they have.             *)

(***************************************************************************)
(* A set with 0 and with the successor of each of its numbers has them     *)
(* all, or else there is a least number that it lacks.                     *)
(***************************************************************************)
LEMMA SetInduction ==
  ASSUME NEW S, 0 \in S, \A n \in Nat : n \in S => n + 1 \in S
  PROVE  Nat \subseteq S
<1>. DEFINE T == Nat \ S
           R == {p \in Nat \X Nat : p[1] < p[2]}
<1>1. IsWellFoundedOn(R, Nat)
  BY NatLessThanWellFounded DEF OpToRel
<1>2. SUFFICES ASSUME T # {} PROVE FALSE
  OBVIOUS
<1>3. PICK x \in T : \A y \in T : ~(<<y, x>> \in R)
  <2>. HIDE DEF R
  <2>. QED
    BY <1>1, <1>2, WFMin
<1>4. \A y \in T : ~(y < x)
  BY <1>3
<1>5. x # 0 /\ x - 1 \in Nat /\ x - 1 < x
  OBVIOUS
<1>6. x - 1 \in S
  BY <1>4, <1>5
<1>. QED
  BY <1>5, <1>6

(* Induction up to a bound.                                                *)
LEMMA SetInductionUpTo ==
  ASSUME NEW m \in Nat, NEW S, 0 \in S,
         \A n \in 0..m - 1 : n \in S => n + 1 \in S
  PROVE  0..m \subseteq S
<1>. DEFINE T == {n \in Nat : n <= m => n \in S}
<1>1. 0 \in T
  OBVIOUS
<1>2. \A n \in Nat : n \in T => n + 1 \in T
  OBVIOUS
<1>3. Nat \subseteq T
  <2>. HIDE DEF T
  <2>. QED
    BY <1>1, <1>2, SetInduction
<1>. QED
  BY <1>3

(***************************************************************************)
(* A function is defined by its value at 0 and its value at n + 1 from the *)
(* one at n.                                                               *)
(***************************************************************************)
Recurs(f, m, base, Step) ==
  f[0] = base /\ \A n \in 0..m - 1 : f[n + 1] = Step[n][f[n]]

(* Two functions with the same definition agree as far as both go.         *)
LEMMA RecursUnique ==
  ASSUME NEW m \in Nat, NEW base, NEW Step, NEW f, NEW g,
         Recurs(f, m, base, Step), Recurs(g, m, base, Step)
  PROVE  \A n \in 0..m : f[n] = g[n]
<1>. DEFINE T == {n \in 0..m : f[n] = g[n]}
<1>1. 0 \in T
  BY DEF Recurs
<1>2. \A n \in 0..m - 1 : n \in T => n + 1 \in T
  BY DEF Recurs
<1>3. 0..m \subseteq T
  <2>. HIDE DEF T
  <2>. QED
    BY <1>1, <1>2, SetInductionUpTo
<1>. QED
  BY <1>3

(* There is such a function up to any bound.                               *)
LEMMA RecursExists ==
  ASSUME NEW V, NEW base \in V, NEW Step \in [Nat -> [V -> V]], NEW m \in Nat
  PROVE  \E f \in [0..m -> V] : Recurs(f, m, base, Step)
<1>. DEFINE T == {n \in Nat : \E f \in [0..n -> V] : Recurs(f, n, base, Step)}
<1>1. 0 \in T
  <2>. DEFINE f == [i \in 0..0 |-> base]
  <2>1. f \in [0..0 -> V] /\ Recurs(f, 0, base, Step)
    BY DEF Recurs
  <2>. QED
    BY <2>1
<1>2. ASSUME NEW n \in Nat, n \in T
      PROVE  n + 1 \in T
  <2>1. PICK f \in [0..n -> V] : Recurs(f, n, base, Step)
    BY <1>2
  <2>. DEFINE g == [i \in 0..n + 1 |-> IF i <= n THEN f[i] ELSE Step[n][f[n]]]
  <2>2. g \in [0..n + 1 -> V]
    OBVIOUS
  <2>3. Recurs(g, n + 1, base, Step)
    BY <2>1 DEF Recurs
  <2>. QED
    BY <2>2, <2>3
<1>3. Nat \subseteq T
  <2>. HIDE DEF T
  <2>. QED
    BY <1>1, <1>2, SetInduction
<1>. QED
  BY <1>3

-----------------------------------------------------------------------------
(* Several functions that are defined by recursion on one another, each    *)
(* from A a function on I: f[a][i] is taken from those f[b][j] whose rank  *)
(* is less.  Step computes all of them from all of them, and B is what it  *)
(* keeps to, as far as the recursion depends on that.                      *)

KeptWithin(g, A, I, V, B) ==
  g \in [A -> [I -> V]] /\ \A a \in A : \A i \in I : g[a][i] \in B[a][i]

Lower(rank, A, I, g, h, a, i) ==
  \A b \in A : \A j \in I : rank[b][j] < rank[a][i] => g[b][j] = h[b][j]

Recursion(A, I, V, B, m, rank, G, g0, Step) ==
  /\ m \in Nat /\ rank \in [A -> [I -> 0..m]]
  /\ \A g : g \in G <=> KeptWithin(g, A, I, V, B)
  /\ g0 \in G /\ Step \in [G -> G]
  /\ \A g \in G : \A h \in G : \A a \in A : \A i \in I :
       Lower(rank, A, I, g, h, a, i) => Step[g][a][i] = Step[h][a][i]

LEMMA RankedExists ==
  ASSUME NEW A, NEW I, NEW V, NEW B, NEW m, NEW rank, NEW G, NEW g0, NEW Step,
         Recursion(A, I, V, B, m, rank, G, g0, Step)
  PROVE  \E f \in G : f = Step[f]
<1>0. /\ m \in Nat /\ rank \in [A -> [I -> 0..m]]
      /\ \A g : g \in G <=> KeptWithin(g, A, I, V, B)
      /\ g0 \in G /\ Step \in [G -> G]
      /\ \A g \in G : \A h \in G : \A a \in A : \A i \in I :
           Lower(rank, A, I, g, h, a, i) => Step[g][a][i] = Step[h][a][i]
  BY DEF Recursion
<1>. USE <1>0
<1>. DEFINE Steps == [n \in Nat |-> Step]
<1>1. Steps \in [Nat -> [G -> G]] /\ \A n \in Nat : Steps[n] = Step
  OBVIOUS
<1>2. PICK k \in Nat : k = m + 2
  OBVIOUS
<1>3. PICK F \in [0..k -> G] : Recurs(F, k, g0, Steps)
  <2>. HIDE DEF Steps
  <2>. QED
    BY ONLY <1>1, k \in Nat, g0 \in G, RecursExists
<1>4. \A n \in 0..m + 1 : F[n] \in G /\ F[n + 1] \in G /\ F[n + 1] = Step[F[n]]
  <2>. HIDE DEF Steps
  <2>. QED
    BY <1>1, <1>2, <1>3 DEF Recurs
<1>. DEFINE Same(n) == \A a \in A : \A i \in I : rank[a][i] < n => F[n][a][i] = F[n + 1][a][i]
           T == {n \in 0..m + 1 : Same(n)}
<1>5. 0 \in T
  OBVIOUS
<1>6. ASSUME NEW n \in 0..m, n \in T
      PROVE  n + 1 \in T
  <2>1. n \in 0..m + 1 /\ n + 1 \in 0..m + 1
    OBVIOUS
  <2>2. ASSUME NEW a \in A, NEW i \in I, rank[a][i] < n + 1
        PROVE  F[n + 1][a][i] = F[(n + 1) + 1][a][i]
    <3>1. Same(n)
      BY <1>6
    <3>2. Lower(rank, A, I, F[n], F[n + 1], a, i)
      <4>1. ASSUME NEW b \in A, NEW j \in I, rank[b][j] < rank[a][i]
            PROVE  F[n][b][j] = F[n + 1][b][j]
        <5>1. rank[b][j] < n
          <6>1. rank[b][j] \in 0..m /\ rank[a][i] \in 0..m
            OBVIOUS
          <6>. QED
            BY <2>2, <4>1, <6>1
        <5>. QED
          BY <3>1, <5>1
      <4>. QED
        BY <4>1 DEF Lower
    <3>3. Step[F[n]][a][i] = Step[F[n + 1]][a][i]
      BY <1>4, <2>1, <3>2
    <3>4. F[n + 1] = Step[F[n]] /\ F[(n + 1) + 1] = Step[F[n + 1]]
      BY <1>4, <2>1
    <3>. QED
      BY <3>3, <3>4
  <2>. QED
    BY <2>1, <2>2
<1>7. 0..m + 1 \subseteq T
  <2>. HIDE DEF T
  <2>1. m + 1 \in Nat /\ 0..(m + 1) - 1 = 0..m
    OBVIOUS
  <2>. QED
    BY <1>5, <1>6, <2>1, SetInductionUpTo
<1>8. PICK n \in 0..m + 1 : n = m + 1
  OBVIOUS
<1>9. F[n] \in G /\ F[n + 1] \in G /\ F[n + 1] = Step[F[n]]
  BY <1>4
<1>10. \A a \in A : \A i \in I : F[n][a][i] = F[n + 1][a][i]
  <2>1. Same(n)
    BY <1>7
  <2>2. \A a \in A : \A i \in I : rank[a][i] < n
    BY <1>8
  <2>. QED
    BY <2>1, <2>2
<1>11. F[n] \in [A -> [I -> V]] /\ F[n + 1] \in [A -> [I -> V]]
  BY <1>9 DEF KeptWithin
<1>12. \A a \in A : F[n][a] = F[n + 1][a]
  BY <1>10, <1>11
<1>13. F[n] = F[n + 1]
  BY <1>11, <1>12
<1>. QED
  BY <1>9, <1>13

(* Two functions of which each value is the same where all of a lower rank *)
(* are.                                                                    *)
Determined(A, I, m, rank, f, h) ==
  /\ m \in Nat /\ rank \in [A -> [I -> 0..m]]
  /\ \A a \in A : \A i \in I : Lower(rank, A, I, h, f, a, i) => h[a][i] = f[a][i]

LEMMA RankedUnique ==
  ASSUME NEW A, NEW I, NEW m, NEW rank, NEW f, NEW h, Determined(A, I, m, rank, f, h)
  PROVE  \A a \in A : \A i \in I : h[a][i] = f[a][i]
<1>0. /\ m \in Nat /\ rank \in [A -> [I -> 0..m]]
      /\ \A a \in A : \A i \in I : Lower(rank, A, I, h, f, a, i) => h[a][i] = f[a][i]
  BY DEF Determined
<1>. USE <1>0
<1>. DEFINE T == {n \in 0..m + 1 : \A a \in A : \A i \in I : rank[a][i] < n => h[a][i] = f[a][i]}
<1>1. 0 \in T
  OBVIOUS
<1>2. ASSUME NEW n \in 0..m, n \in T
      PROVE  n + 1 \in T
  <2>1. ASSUME NEW a \in A, NEW i \in I, rank[a][i] < n + 1
        PROVE  h[a][i] = f[a][i]
    <3>1. ASSUME NEW b \in A, NEW j \in I, rank[b][j] < rank[a][i]
          PROVE  h[b][j] = f[b][j]
      <4>1. rank[b][j] \in 0..m /\ rank[a][i] \in 0..m
        OBVIOUS
      <4>2. rank[b][j] < n
        BY <2>1, <3>1, <4>1
      <4>. QED
        BY <1>2, <4>2
    <3>. QED
      BY <3>1 DEF Lower
  <2>. QED
    BY <2>1
<1>3. 0..m + 1 \subseteq T
  <2>. HIDE DEF T
  <2>1. m + 1 \in Nat /\ 0..(m + 1) - 1 = 0..m
    OBVIOUS
  <2>. QED
    BY <1>1, <1>2, <2>1, SetInductionUpTo
<1>4. m + 1 \in 0..m + 1 /\ \A a \in A : \A i \in I : rank[a][i] < m + 1
  OBVIOUS
<1>. QED
  BY <1>3, <1>4

-----------------------------------------------------------------------------
(* The least and the greatest number of a set.                             *)

LEMMA LeastOf ==
  ASSUME NEW S, S \subseteq Nat, S # {}
  PROVE  \E x \in S : \A y \in S : x <= y
<1>. DEFINE R == {p \in Nat \X Nat : p[1] < p[2]}
<1>1. IsWellFoundedOn(R, Nat)
  BY NatLessThanWellFounded DEF OpToRel
<1>2. PICK x \in S : \A y \in S : ~(<<y, x>> \in R)
  <2>. HIDE DEF R
  <2>. QED
    BY <1>1, WFMin
<1>3. \A y \in S : ~(y < x)
  BY <1>2
<1>4. \A y \in S : y \in Nat /\ x \in Nat
  OBVIOUS
<1>. HIDE DEF R
<1>5. \A y \in S : x <= y
  BY ONLY <1>3, <1>4
<1>. QED
  BY <1>5

LEMMA GreatestOf ==
  ASSUME NEW S, NEW b \in Nat, S \subseteq 0..b, S # {}
  PROVE  \E x \in S : \A y \in S : x >= y
<1>. DEFINE T == {b - x : x \in S}
<1>1. T \subseteq Nat /\ T # {}
  <2>1. \A x \in S : b - x \in Nat
    BY ONLY S \subseteq 0..b, b \in Nat
  <2>2. T \subseteq Nat
    BY <2>1
  <2>3. T # {}
    OBVIOUS
  <2>. QED
    BY <2>2, <2>3
<1>2. PICK z \in T : \A y \in T : z <= y
  <2>. HIDE DEF T
  <2>. QED
    BY <1>1, LeastOf
<1>3. PICK x \in S : z = b - x
  BY <1>2
<1>4. ASSUME NEW y \in S
      PROVE  x >= y
  <2>1. b - y \in T /\ x \in 0..b /\ y \in 0..b
    OBVIOUS
  <2>2. b - x <= b - y
    BY <1>2, <1>3, <2>1
  <2>. QED
    BY <2>1, <2>2
<1>. QED
  BY <1>4

-----------------------------------------------------------------------------
(* Lemmas about sequences.                                                 *)

LEMMA FrontAppend ==
  ASSUME NEW S, NEW s \in Seq(S), NEW e \in S
  PROVE  /\ Append(s, e) \in Seq(S)
         /\ Len(Append(s, e)) = Len(s) + 1
         /\ Front(Append(s, e)) = s
         /\ Last(Append(s, e)) = e
         /\ \A i \in 1..Len(s) : Append(s, e)[i] = s[i]
<1>1. /\ Append(s, e) \in Seq(S)
      /\ Len(Append(s, e)) = Len(s) + 1
      /\ \A i \in 1..Len(s) : Append(s, e)[i] = s[i]
      /\ Append(s, e)[Len(s) + 1] = e
  BY AppendProperties
<1>2. Len(s) \in Nat
  BY LenProperties
<1>. DEFINE longer == Append(s, e)
<1>3. /\ SubSeq(longer, 1, Len(s)) \in Seq(S)
      /\ Len(SubSeq(longer, 1, Len(s))) = Len(s)
      /\ \A i \in 1..Len(s) : SubSeq(longer, 1, Len(s))[i] = s[i]
  BY <1>1, <1>2, SubSeqProperties
<1>4. SubSeq(longer, 1, Len(s)) = s
  BY <1>3, SeqEqual
<1>. QED
  BY <1>1, <1>2, <1>4 DEF Front, Last

LEMMA ConcatFacts ==
  ASSUME NEW S, NEW s \in Seq(S), NEW t \in Seq(S),
         NEW l \in Nat, NEW n \in Nat, l = Len(s), n = Len(t)
  PROVE  /\ s \o t \in Seq(S) /\ Len(s \o t) = l + n
         /\ \A j \in 1..l + n : (s \o t)[j] = IF j <= l THEN s[j] ELSE t[j - l]
BY ConcatProperties, Zenon

LEMMA PrefixFacts ==
  ASSUME NEW S, NEW s \in Seq(S), NEW m \in 0..Len(s)
  PROVE  /\ SubSeq(s, 1, m) \in Seq(S) /\ Len(SubSeq(s, 1, m)) = m
         /\ \A j \in 1..m : SubSeq(s, 1, m)[j] = s[j]
<1>1. PICK l \in Nat : l = Len(s)
  OBVIOUS
<1>2. m \in 0..l
  BY <1>1
<1>3. \A j \in 1..m : s[j] \in S /\ 1 + j - 1 = j
  BY <1>1, ElementOfSeq
<1>4. 1 \in Int /\ m \in Int /\ (m - 1) + 1 = m /\ (1 <= m \/ m = 0)
  BY <1>2
<1>5. /\ SubSeq(s, 1, m) \in Seq(S)
      /\ Len(SubSeq(s, 1, m)) = IF 1 <= m THEN m - 1 + 1 ELSE 0
      /\ \A j \in 1..m - 1 + 1 : SubSeq(s, 1, m)[j] = s[1 + j - 1]
  BY ONLY <1>3, <1>4, SubSeqProperties
<1>. QED
  BY ONLY <1>3, <1>4, <1>5

LEMMA ReverseFacts ==
  ASSUME NEW S, NEW s \in Seq(S)
  PROVE  /\ Reverse(s) \in Seq(S) /\ Len(Reverse(s)) = Len(s)
         /\ \A j \in 1..Len(s) : Reverse(s)[j] = s[Len(s) - j + 1]
<1>1. PICK l \in Nat : l = Len(s)
  OBVIOUS
<1>2. Reverse(s) = [j \in 1..l |-> s[(l - j) + 1]]
  BY <1>1 DEF Reverse
<1>3. \A j \in 1..l : (l - j) + 1 \in 1..l
  OBVIOUS
<1>4. \A j \in 1..l : s[(l - j) + 1] \in S
  BY <1>1, <1>3, ElementOfSeq
<1>5. Reverse(s) \in [1..l -> S]
  BY ONLY <1>2, <1>4
<1>6. Reverse(s) \in Seq(S) /\ Len(Reverse(s)) = l
  BY ONLY <1>5, l \in Nat, SeqDef
<1>7. \A j \in 1..l : Reverse(s)[j] = s[(l - j) + 1]
  BY ONLY <1>2
<1>. QED
  BY ONLY <1>1, <1>6, <1>7

LEMMA AppendTwo ==
  ASSUME NEW S, NEW s \in Seq(S), NEW a \in S, NEW b \in S
  PROVE  Append(Append(s, a), b) = s \o <<a, b>>
<1>1. <<a>> \in Seq(S) /\ <<b>> \in Seq(S) /\ <<a>> \o <<b>> = <<a, b>>
  <2>1. <<a>> \in Seq(S) /\ <<b>> \in Seq(S)
    OBVIOUS
  <2>2. Append(<<a>>, b) = <<a>> \o <<b>>
    BY <2>1, AppendIsConcat
  <2>3. Append(<<a>>, b) = <<a, b>>
    <3>1. PICK one \in Seq(S) : one = <<a>> /\ Len(one) = 1 /\ one[1] = a
      BY <2>1
    <3>2. PICK two : two = <<a, b>>
      OBVIOUS
    <3>3. two \in Seq(S) /\ Len(two) = 2 /\ two[1] = a /\ two[2] = b
      BY <3>2
    <3>4. PICK u \in Seq(S) : /\ u = Append(one, b) /\ Len(u) = Len(one) + 1
                             /\ \A i \in 1..Len(one) : u[i] = one[i]
                             /\ u[Len(one) + 1] = b
      BY AppendProperties
    <3>5. Len(u) = Len(two) /\ \A i \in 1..Len(u) : u[i] = two[i]
      BY <3>1, <3>3, <3>4
    <3>. QED
      BY <3>1, <3>2, <3>3, <3>4, <3>5, SeqEqual
  <2>. QED
    BY <2>1, <2>2, <2>3
<1>2. Append(s, a) = s \o <<a>> /\ Append(s, a) \in Seq(S)
  BY AppendIsConcat, AppendProperties
<1>3. Append(Append(s, a), b) = Append(s, a) \o <<b>>
  BY <1>2, AppendIsConcat
<1>4. (s \o <<a>>) \o <<b>> = s \o (<<a>> \o <<b>>)
  BY <1>1, ConcatAssociative
<1>. QED
  BY <1>1, <1>2, <1>3, <1>4

LEMMA FrontProperties ==
  ASSUME NEW S, NEW s \in Seq(S), Len(s) > 0
  PROVE  /\ Front(s) \in Seq(S)
         /\ Len(Front(s)) = Len(s) - 1
         /\ \A i \in 1..(Len(s) - 1) : Front(s)[i] = s[i]
         /\ Last(s) \in S
<1>. DEFINE n == Len(s) - 1
<1>1. Len(s) \in Nat /\ n \in 0..Len(s) /\ n = Len(s) - 1
  BY LenProperties
<1>2. s[Len(s)] \in S
  BY <1>1, ElementOfSeq
<1>3. Front(s) = SubSeq(s, 1, n) /\ Last(s) = s[Len(s)]
  BY DEF Front, Last
<1>. HIDE DEF n
<1>4. /\ SubSeq(s, 1, n) \in Seq(S)
      /\ Len(SubSeq(s, 1, n)) = n
      /\ \A i \in 1..n : SubSeq(s, 1, n)[i] = s[i]
  BY <1>1, SubSeqProperties
<1>5. 1..(Len(s) - 1) = 1..n
  BY <1>1
<1>. QED
  BY <1>1, <1>2, <1>3, <1>4, <1>5

-----------------------------------------------------------------------------
(* Ranks, and sequences one behind the other.                              *)

(* Induction over a finite number of ranks: a set that has each element of *)
(* which it has all those of a lower rank has them all.                    *)
LEMMA RankInduction ==
  ASSUME NEW A, NEW m \in Nat, NEW rank \in [A -> 0..m], NEW P,
         \A a \in A : (\A b \in A : rank[b] < rank[a] => b \in P) => a \in P
  PROVE  A \subseteq P
<1>. DEFINE T == {n \in 0..m + 1 : \A a \in A : rank[a] < n => a \in P}
<1>1. 0 \in T
  OBVIOUS
<1>2. ASSUME NEW n \in 0..m, n \in T
      PROVE  n + 1 \in T
  <2>1. ASSUME NEW a \in A, rank[a] < n + 1
        PROVE  a \in P
    <3>1. \A b \in A : rank[b] < rank[a] => b \in P
      <4>1. \A b \in A : rank[b] \in 0..m /\ rank[a] \in 0..m
        OBVIOUS
      <4>. QED
        BY <1>2, <2>1, <4>1
    <3>. QED
      BY <3>1
  <2>. QED
    BY <2>1
<1>3. 0..m + 1 \subseteq T
  <2>. HIDE DEF T
  <2>1. m + 1 \in Nat /\ 0..(m + 1) - 1 = 0..m
    OBVIOUS
  <2>. QED
    BY <1>1, <1>2, <2>1, SetInductionUpTo
<1>4. m + 1 \in 0..m + 1 /\ \A a \in A : rank[a] < m + 1
  OBVIOUS
<1>. QED
  BY <1>3, <1>4

(* A recursion of one function, each value from those of a lower rank.     *)
Ranked(A, V, m, rank, v0, Step) ==
  /\ m \in Nat /\ rank \in [A -> 0..m] /\ v0 \in V
  /\ Step \in [[A -> V] -> [A -> V]]
  /\ \A g \in [A -> V] : \A h \in [A -> V] : \A a \in A :
       (\A b \in A : rank[b] < rank[a] => g[b] = h[b]) => Step[g][a] = Step[h][a]

LEMMA RankedFunction ==
  ASSUME NEW A, NEW V, NEW m, NEW rank, NEW v0, NEW Step, Ranked(A, V, m, rank, v0, Step)
  PROVE  \E f \in [A -> V] : f = Step[f]
<1>0. /\ m \in Nat /\ rank \in [A -> 0..m] /\ v0 \in V
      /\ Step \in [[A -> V] -> [A -> V]]
      /\ \A g \in [A -> V] : \A h \in [A -> V] : \A a \in A :
           (\A b \in A : rank[b] < rank[a] => g[b] = h[b]) => Step[g][a] = Step[h][a]
  BY DEF Ranked
<1>. USE <1>0
<1>. DEFINE I  == {0}
            G  == [A -> [I -> V]]
            B  == [a \in A |-> [i \in I |-> V]]
            rk == [a \in A |-> [i \in I |-> rank[a]]]
            g0 == [a \in A |-> [i \in I |-> v0]]
            Flat == [g \in G |-> [a \in A |-> g[a][0]]]
            St == [g \in G |-> [a \in A |-> [i \in I |-> Step[Flat[g]][a]]]]
<1>1. rk \in [A -> [I -> 0..m]]
  OBVIOUS
<1>2. \A g : g \in G <=> KeptWithin(g, A, I, V, B)
  BY DEF KeptWithin
<1>3. g0 \in G
  OBVIOUS
<1>4. \A g \in G : Flat[g] \in [A -> V] /\ \A a \in A : Flat[g][a] = g[a][0]
  OBVIOUS
<1>5. \A f \in [A -> V] : Step[f] \in [A -> V]
  OBVIOUS
<1>6. St \in [G -> G] /\ \A g \in G : \A a \in A : St[g][a] = [i \in I |-> Step[Flat[g]][a]]
  <2>. HIDE DEF Flat
  <2>. QED
    BY <1>4, <1>5
<1>7. ASSUME NEW g \in G, NEW h \in G, NEW a \in A, NEW i \in I, Lower(rk, A, I, g, h, a, i)
      PROVE  St[g][a][i] = St[h][a][i]
  <2>1. \A b \in A : rank[b] < rank[a] => Flat[g][b] = Flat[h][b]
    <3>1. \A b \in A : rk[b][0] = rank[b] /\ rk[a][i] = rank[a]
      OBVIOUS
    <3>. HIDE DEF rk, Flat
    <3>. QED
      BY <1>4, <1>7, <3>1 DEF Lower
  <2>2. Step[Flat[g]][a] = Step[Flat[h]][a]
    <3>. HIDE DEF Flat
    <3>. QED
      BY <1>4, <2>1
  <2>. HIDE DEF St, Flat
  <2>3. /\ St[g][a] = [j \in I |-> Step[Flat[g]][a]]
        /\ St[h][a] = [j \in I |-> Step[Flat[h]][a]]
    BY <1>6
  <2>. QED
    BY <2>2, <2>3
<1>8. Recursion(A, I, V, B, m, rk, G, g0, St)
  <2>. HIDE DEF G, B, rk, g0, St
  <2>. QED
    BY <1>1, <1>2, <1>3, <1>6, <1>7 DEF Recursion
<1>9. PICK F \in G : F = St[F]
  <2>. HIDE DEF I, G, B, rk, g0, St
  <2>. QED
    BY ONLY <1>8, RankedExists
<1>10. Flat[F] \in [A -> V] /\ Step[Flat[F]] \in [A -> V]
  <2>. HIDE DEF Flat
  <2>. QED
    BY <1>4, <1>5
<1>11. \A a \in A : Flat[F][a] = Step[Flat[F]][a]
  <2>1. \A a \in A : F[a] = [i \in I |-> Step[Flat[F]][a]]
    <3>. HIDE DEF St, Flat, G, I
    <3>1. St[F] = F
      BY <1>9
    <3>2. \A a \in A : St[F][a] = [i \in I |-> Step[Flat[F]][a]]
      BY <1>6, <1>9
    <3>. QED
      BY <3>1, <3>2
  <2>. HIDE DEF Flat
  <2>. QED
    BY <1>4, <2>1
<1>. HIDE DEF Flat
<1>. QED
  BY <1>10, <1>11

LEMMA ConcatAppend ==
  ASSUME NEW S, NEW u \in Seq(S), NEW x \in Seq(S), NEW e \in S
  PROVE  /\ u \o x \in Seq(S) /\ u \o << >> = u
         /\ Append(u \o x, e) = u \o Append(x, e)
         /\ Len(u \o x) = Len(u) + Len(x) /\ Len(Append(x, e)) = Len(x) + 1
         /\ Len(u) \in Nat /\ Len(x) \in Nat
OBVIOUS

(* What two sequences give, one behind the other, stated so that the       *)
(* provers find the instance that they need.                               *)
IsConcat(y, u, x) == y = u \o x

LEMMA ConcatStep ==
  ASSUME NEW S, NEW u \in Seq(S), NEW x \in Seq(S), NEW e \in S, NEW y, IsConcat(y, u, x)
  PROVE  IsConcat(Append(y, e), u, Append(x, e))
<1>1. Append(u \o x, e) = u \o Append(x, e)
  OBVIOUS
<1>. QED
  BY <1>1 DEF IsConcat

LEMMA ConcatChain ==
  ASSUME NEW S, NEW u \in Seq(S), NEW v \in Seq(S), NEW w \in Seq(S), NEW x, NEW y, NEW z,
         IsConcat(x, u, v), IsConcat(y, v, w), IsConcat(z, x, w)
  PROVE  IsConcat(z, u, y)
<1>1. (u \o v) \o w = u \o (v \o w)
  OBVIOUS
<1>. QED
  BY <1>1 DEF IsConcat

LEMMA ConcatIs ==
  ASSUME NEW S, NEW u \in Seq(S), NEW v \in Seq(S)
  PROVE  /\ IsConcat(u \o v, u, v) /\ u \o v \in Seq(S)
         /\ IsConcat(u, u, << >>) /\ IsConcat(u, << >>, u)
BY DEF IsConcat

(* What is where, in two sequences one behind the other.                   *)
LEMMA ConcatAt ==
  ASSUME NEW S, NEW u \in Seq(S), NEW v \in Seq(S), NEW y, IsConcat(y, u, v)
  PROVE  /\ y \in Seq(S) /\ Len(u) \in Nat /\ Len(v) \in Nat /\ Len(y) = Len(u) + Len(v)
         /\ \A j \in 1..Len(u) : y[j] = u[j]
         /\ \A j \in 1..Len(v) : y[Len(u) + j] = v[j]
         /\ \A j \in Len(u) + 1..Len(u) + Len(v) : y[j] = v[j - Len(u)]
<1>0. PICK l \in Nat, n \in Nat : l = Len(u) /\ n = Len(v)
  OBVIOUS
<1>2. y \in Seq(S) /\ Len(y) = l + n /\ \A j \in 1..l + n : y[j] = IF j <= l THEN u[j] ELSE v[j - l]
  BY <1>0, ConcatFacts DEF IsConcat
<1>3. \A j \in 1..l : y[j] = u[j]
  BY <1>2
<1>4. \A j \in 1..n : y[l + j] = v[j]
  <2>1. ASSUME NEW j \in 1..n
        PROVE  y[l + j] = v[j]
    <3>1. l + j \in 1..l + n /\ ~(l + j <= l) /\ (l + j) - l = j
      OBVIOUS
    <3>. QED
      BY <1>2, <3>1
  <2>. QED
    BY <2>1
<1>5. \A j \in l + 1..l + n : y[j] = v[j - l]
  <2>1. \A j \in l + 1..l + n : j \in 1..l + n /\ ~(j <= l)
    OBVIOUS
  <2>. QED
    BY <1>2, <2>1
<1>. QED
  BY <1>0, <1>2, <1>3, <1>4, <1>5

(* A sequence cut in two.                                                  *)
LEMMA CutAt ==
  ASSUME NEW S, NEW s \in Seq(S), NEW k \in 0..Len(s), NEW n, n = Len(s)
  PROVE  /\ SubSeq(s, 1, k) \in Seq(S) /\ Len(SubSeq(s, 1, k)) = k
         /\ \A j \in 1..k : SubSeq(s, 1, k)[j] = s[j]
         /\ SubSeq(s, k + 1, n) \in Seq(S) /\ Len(SubSeq(s, k + 1, n)) = n - k
         /\ \A j \in 1..n - k : SubSeq(s, k + 1, n)[j] = s[k + j]
         /\ IsConcat(s, SubSeq(s, 1, k), SubSeq(s, k + 1, n))
<1>0. n \in Nat /\ k \in Nat /\ k <= n /\ n - k \in Nat
  BY LenProperties
<1>1. /\ SubSeq(s, 1, k) \in Seq(S) /\ Len(SubSeq(s, 1, k)) = k
      /\ \A j \in 1..k : SubSeq(s, 1, k)[j] = s[j]
  BY PrefixFacts
<1>2. /\ SubSeq(s, k + 1, n) \in Seq(S) /\ Len(SubSeq(s, k + 1, n)) = n - k
      /\ \A j \in 1..n - k : SubSeq(s, k + 1, n)[j] = s[k + j]
  <2>1. k + 1 \in 1..Len(s) + 1 /\ n \in (k + 1) - 1..Len(s)
    BY <1>0
  <2>2. /\ SubSeq(s, k + 1, n) \in Seq(S) /\ Len(SubSeq(s, k + 1, n)) = n - (k + 1) + 1
        /\ \A j \in 1..n - (k + 1) + 1 : SubSeq(s, k + 1, n)[j] = s[(k + 1) + j - 1]
    BY <2>1, SubSeqProperties
  <2>3. n - (k + 1) + 1 = n - k /\ \A j \in 1..n - k : (k + 1) + j - 1 = k + j
    BY <1>0
  <2>. QED
    BY <2>2, <2>3
<1>3. PICK a \in Seq(S) : a = SubSeq(s, 1, k) /\ Len(a) = k /\ \A j \in 1..k : a[j] = s[j]
  BY <1>1
<1>4. PICK b \in Seq(S) : b = SubSeq(s, k + 1, n) /\ Len(b) = n - k /\ \A j \in 1..n - k : b[j] = s[k + j]
  BY <1>2
<1>5. PICK y : IsConcat(y, a, b)
  BY DEF IsConcat
<1>6. /\ y \in Seq(S) /\ Len(y) = k + (n - k)
      /\ \A j \in 1..k : y[j] = a[j]
      /\ \A j \in k + 1..k + (n - k) : y[j] = b[j - k]
  <2>1. /\ y \in Seq(S) /\ Len(y) = Len(a) + Len(b)
        /\ \A j \in 1..Len(a) : y[j] = a[j]
        /\ \A j \in Len(a) + 1..Len(a) + Len(b) : y[j] = b[j - Len(a)]
    BY <1>5, ConcatAt
  <2>. QED
    BY <1>3, <1>4, <2>1
<1>7. ASSUME NEW j \in 1..n
      PROVE  y[j] = s[j]
  <2>1. CASE j <= k
    BY <1>0, <1>3, <1>6, <2>1
  <2>2. CASE ~(j <= k)
    <3>1. j \in k + 1..k + (n - k) /\ j - k \in 1..n - k /\ k + (j - k) = j
      BY <1>0, <2>2
    <3>. QED
      BY <1>4, <1>6, <3>1
  <2>. QED
    BY <2>1, <2>2
<1>8. Len(y) = n
  BY <1>0, <1>6
<1>9. y = s
  BY <1>6, <1>7, <1>8, SeqEqual
<1>. QED
  BY <1>1, <1>2, <1>3, <1>4, <1>5, <1>9

(* Induction over sequences.                                               *)
LEMMA SeqInduction ==
  ASSUME NEW S, NEW P, << >> \in P, \A s \in Seq(S) : \A e \in S : s \in P => Append(s, e) \in P
  PROVE  Seq(S) \subseteq P
<1>. DEFINE T == {n \in Nat : \A s \in Seq(S) : Len(s) = n => s \in P}
<1>1. 0 \in T
  <2>1. \A s \in Seq(S) : Len(s) = 0 => s = << >>
    BY EmptySeq
  <2>. QED
    BY <2>1
<1>2. ASSUME NEW n \in Nat, n \in T
      PROVE  n + 1 \in T
  <2>1. ASSUME NEW s \in Seq(S), Len(s) = n + 1
        PROVE  s \in P
    <3>1. PICK r \in Seq(S), e \in S : r = SubSeq(s, 1, n) /\ e = s[n + 1]
      <4>1. SubSeq(s, 1, n) \in Seq(S) /\ s[n + 1] \in S
        BY <2>1
      <4>. QED
        BY <4>1
    <3>2. Len(r) = n /\ s = Append(r, e)
      <4>1. Len(r) = n /\ \A j \in 1..n : r[j] = s[j]
        BY <2>1, <3>1
      <4>2. /\ Append(r, e) \in Seq(S) /\ Len(Append(r, e)) = n + 1
            /\ \A j \in 1..n + 1 : Append(r, e)[j] = s[j]
        BY <3>1, <4>1
      <4>. QED
        BY <2>1, <4>1, <4>2, SeqEqual
    <3>. QED
      BY <1>2, <3>2
  <2>. QED
    BY <2>1
<1>3. Nat \subseteq T
  <2>. HIDE DEF T
  <2>. QED
    BY <1>1, <1>2, SetInduction
<1>. QED
  BY <1>3, LenProperties

(***************************************************************************)
(* The sequences of a sequence one behind the other.                       *)
(***************************************************************************)
Flattens(f, q, n) == f[1] = q[1] /\ \A i \in 2..n : f[i] = f[i - 1] \o q[i]

LEMMA FlattenFunction ==
  ASSUME NEW S, NEW q \in Seq(Seq(S)), NEW n \in Nat, n = Len(q), n > 0
  PROVE  \E f : /\ Flattens(f, q, n) /\ FlattenSeq(q) = f[n]
                /\ \A i \in 1..n : f[i] \in Seq(S)
<1>. DEFINE Body(f) == [i \in 1..n |-> IF i = 1 THEN q[i] ELSE f[i - 1] \o q[i]]
            Step == [k \in Nat |-> [x \in Seq(S) |-> IF k + 1 \in 1..n THEN x \o q[k + 1] ELSE x]]
<1>1. \A i \in 1..n : q[i] \in Seq(S)
  OBVIOUS
<1>2. << >> \in Seq(S) /\ Step \in [Nat -> [Seq(S) -> Seq(S)]]
  BY <1>1
<1>3. PICK F \in [0..n -> Seq(S)] : Recurs(F, n, << >>, Step)
  <2>. HIDE DEF Step
  <2>. QED
    BY ONLY <1>2, n \in Nat, RecursExists
<1>4. /\ F[0] = << >>
      /\ \A k \in 0..n - 1 : F[k + 1] = F[k] \o q[k + 1]
  <2>1. F[0] = << >> /\ \A k \in 0..n - 1 : F[k + 1] = Step[k][F[k]]
    <3>. HIDE DEF Step
    <3>. QED
      BY <1>3 DEF Recurs
  <2>2. ASSUME NEW k \in 0..n - 1
        PROVE  F[k + 1] = F[k] \o q[k + 1]
    <3>1. k \in Nat /\ k + 1 \in 1..n /\ k \in 0..n
      OBVIOUS
    <3>2. F[k] \in Seq(S)
      BY <3>1
    <3>3. Step[k][F[k]] = F[k] \o q[k + 1]
      BY <3>1, <3>2
    <3>. QED
      BY <2>1, <3>3
  <2>. QED
    BY <2>1, <2>2
<1>. DEFINE f == [i \in 1..n |-> F[i]]
<1>5. f = Body(f)
  <2>1. ASSUME NEW i \in 1..n
        PROVE  f[i] = IF i = 1 THEN q[i] ELSE f[i - 1] \o q[i]
    <3>1. i - 1 \in 0..n - 1 /\ (i - 1) + 1 = i
      OBVIOUS
    <3>2. F[i] = F[i - 1] \o q[i]
      BY <1>4, <3>1
    <3>3. CASE i = 1
      <4>1. F[i] = << >> \o q[i]
        BY <1>4, <3>2, <3>3
      <4>. QED
        BY <1>1, <3>3, <4>1
    <3>4. CASE i # 1
      <4>1. i - 1 \in 1..n
        BY <3>4
      <4>. QED
        BY <3>2, <3>4, <4>1
    <3>. QED
      BY <3>3, <3>4
  <2>. QED
    BY <2>1
<1>6. PICK g : g = (CHOOSE h : h = Body(h))
  OBVIOUS
<1>7. g = Body(g)
  BY <1>5, <1>6
<1>8. FlattenSeq(q) = g[n]
  <2>1. ~(Len(q) = 0)
    OBVIOUS
  <2>. QED
    BY <2>1, <1>6 DEF FlattenSeq
<1>9. \A i \in 1..n : g[i] = IF i = 1 THEN q[i] ELSE g[i - 1] \o q[i]
  BY <1>7
<1>10. Flattens(g, q, n)
  <2>1. g[1] = q[1]
    BY <1>9
  <2>2. ASSUME NEW i \in 2..n
        PROVE  g[i] = g[i - 1] \o q[i]
    <3>1. i \in 1..n /\ i # 1
      OBVIOUS
    <3>. QED
      BY <1>9, <3>1
  <2>. QED
    BY <2>1, <2>2 DEF Flattens
<1>11. \A i \in 1..n : g[i] \in Seq(S)
  <2>. DEFINE T == {i \in 0..n : i > 0 => g[i] \in Seq(S)}
  <2>1. 0 \in T
    OBVIOUS
  <2>2. ASSUME NEW i \in 0..n - 1, i \in T
        PROVE  i + 1 \in T
    <3>1. i + 1 \in 1..n /\ (i + 1) - 1 = i
      OBVIOUS
    <3>2. g[i + 1] = IF i + 1 = 1 THEN q[i + 1] ELSE g[i] \o q[i + 1]
      BY <1>9, <3>1
    <3>3. CASE i = 0
      BY <1>1, <3>1, <3>2, <3>3
    <3>4. CASE i > 0
      <4>1. g[i] \in Seq(S) /\ q[i + 1] \in Seq(S)
        BY <1>1, <2>2, <3>1, <3>4
      <4>2. g[i] \o q[i + 1] \in Seq(S)
        BY <4>1
      <4>3. i + 1 \in 0..n /\ i + 1 # 1
        BY <3>1, <3>4
      <4>4. g[i + 1] \in Seq(S)
        BY <3>2, <4>2, <4>3
      <4>. QED
        BY <4>3, <4>4
    <3>. QED
      BY <3>3, <3>4
  <2>3. 0..n \subseteq T
    <3>. HIDE DEF T
    <3>. QED
      BY <2>1, <2>2, SetInductionUpTo
  <2>4. ASSUME NEW i \in 1..n
        PROVE  g[i] \in Seq(S)
    <3>1. i \in 0..n /\ i > 0
      OBVIOUS
    <3>2. i \in T
      <4>. HIDE DEF T
      <4>. QED
        BY <2>3, <3>1
    <3>. QED
      BY <3>1, <3>2
  <2>. QED
    BY <2>4
<1>. QED
  BY <1>8, <1>10, <1>11

LEMMA FlattenAppend ==
  ASSUME NEW S, NEW q \in Seq(Seq(S)), NEW s \in Seq(S)
  PROVE  /\ FlattenSeq(q) \in Seq(S)
         /\ FlattenSeq(Append(q, s)) = FlattenSeq(q) \o s
<1>. DEFINE n == Len(q)
            r == Append(q, s)
<1>1. n \in Nat /\ r \in Seq(Seq(S)) /\ Len(r) = n + 1 /\ r[n + 1] = s /\ \A i \in 1..n : r[i] = q[i]
  OBVIOUS
<1>2. PICK g : /\ Flattens(g, r, n + 1) /\ FlattenSeq(r) = g[n + 1]
               /\ \A i \in 1..n + 1 : g[i] \in Seq(S)
  <2>1. n + 1 \in Nat /\ n + 1 > 0
    BY <1>1
  <2>. HIDE DEF r, n
  <2>. QED
    BY <1>1, <2>1, FlattenFunction
<1>3. CASE n = 0
  <2>1. q = << >>
    BY <1>3, EmptySeq
  <2>2. FlattenSeq(q) = << >>
    BY <2>1 DEF FlattenSeq
  <2>3. FlattenSeq(r) = s
    BY <1>1, <1>2, <1>3 DEF Flattens
  <2>. QED
    BY <2>2, <2>3
<1>4. CASE n > 0
  <2>1. PICK f : /\ Flattens(f, q, n) /\ FlattenSeq(q) = f[n]
                 /\ \A i \in 1..n : f[i] \in Seq(S)
    BY <1>1, <1>4, FlattenFunction
  <2>. DEFINE T == {i \in 0..n : i > 0 => f[i] = g[i]}
  <2>2. 0 \in T
    OBVIOUS
  <2>3. ASSUME NEW i \in 0..n - 1, i \in T
        PROVE  i + 1 \in T
    <3>1. i + 1 \in 1..n /\ (i + 1) - 1 = i /\ r[i + 1] = q[i + 1]
      BY <1>1
    <3>2. CASE i = 0
      BY <1>2, <2>1, <3>1, <3>2 DEF Flattens
    <3>3. CASE i > 0
      <4>1. i + 1 \in 2..n /\ i + 1 \in 2..n + 1
        BY <3>1, <3>3
      <4>2. f[i + 1] = f[i] \o q[i + 1] /\ g[i + 1] = g[i] \o r[i + 1]
        <5>. HIDE DEF r
        <5>. QED
          BY <1>2, <2>1, <3>1, <4>1 DEF Flattens
      <4>3. f[i] = g[i] /\ i + 1 \in 0..n
        BY <2>3, <3>1, <3>3
      <4>4. f[i + 1] = g[i + 1]
        BY <3>1, <4>2, <4>3
      <4>. QED
        BY <4>3, <4>4
    <3>. QED
      BY <3>2, <3>3
  <2>4. 0..n \subseteq T
    <3>. HIDE DEF T, n
    <3>. QED
      BY <1>1, <2>2, <2>3, SetInductionUpTo
  <2>5. f[n] = g[n]
    BY <1>4, <2>4
  <2>6. g[n + 1] = g[n] \o s
    <3>1. n + 1 \in 2..n + 1 /\ (n + 1) - 1 = n
      BY <1>4
    <3>. HIDE DEF r, n
    <3>. QED
      BY <1>1, <1>2, <3>1 DEF Flattens
  <2>7. f[n] \in Seq(S)
    BY <1>4, <2>1
  <2>. QED
    BY <1>2, <2>1, <2>5, <2>6, <2>7
<1>. QED
  BY <1>1, <1>3, <1>4
=============================================================================
