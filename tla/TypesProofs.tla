----------------------------- MODULE TypesProofs -----------------------------
(***************************************************************************)
(* Proofs about Types: in a program that keeps to the rules, for every set *)
(* of structs, roles, functions and globals, the types that the compiler   *)
(* has for the working stack are those of the values on it.                *)
(*                                                                         *)
(* The invariant TypesInv says more than StackTyped and MemoryTyped, which *)
(* are about single values: a reference is to a global that has a value, a *)
(* role has the methods of an impl that is for its data, behind two        *)
(* references there is exactly what the type says, and each call or store  *)
(* that waits for its arguments still finds below them the stack that it   *)
(* began on.  Conversions keep it because what a slot holds can be taken   *)
(* for what is required (SubSlot): an object of a child has, at its start, *)
(* one of each of its ancestors (AncestorPart).                            *)
(***************************************************************************)
EXTENDS Types, DataLemmas, FiniteSetTheorems

-----------------------------------------------------------------------------
(* The working stack without the addresses of stores.                      *)

(* A value on top is left out when it is at one of the positions.          *)
LEMMA WithoutAppend ==
  ASSUME NEW S, NEW s \in Seq(S), NEW e \in S, NEW at
  PROVE  /\ Without(s, at) \in Seq(S) /\ Without(<< >>, at) = << >>
         /\ Without(Append(s, e), at) =
              IF Len(s) + 1 \in at THEN Without(s, at) ELSE Append(Without(s, at), e)
<1>. DEFINE Body(q, f) == [n \in 0..Len(q) |->
              IF n = 0 THEN << >> ELSE IF n \in at THEN f[n - 1] ELSE Append(f[n - 1], q[n])]
            Fn0(q) == CHOOSE f : f = Body(q, f)
<1>1. ASSUME NEW q \in Seq(S), NEW m \in Nat, m = Len(q)
      PROVE  /\ Fn0(q)[0] = << >> /\ Without(q, at) = Fn0(q)[m]
             /\ \A n \in 0..m - 1 : Fn0(q)[n + 1] =
                  IF n + 1 \in at THEN Fn0(q)[n] ELSE Append(Fn0(q)[n], q[n + 1])
  <2>. DEFINE Step == [k \in Nat |-> [x \in Seq(S) |->
                IF k + 1 \in at \/ k + 1 \notin 1..m THEN x ELSE Append(x, q[k + 1])]]
  <2>1. \A i \in 1..m : q[i] \in S
    BY <1>1
  <2>2. Step \in [Nat -> [Seq(S) -> Seq(S)]]
    BY <2>1
  <2>3. PICK F \in [0..m -> Seq(S)] : Recurs(F, m, << >>, Step)
    <3>1. << >> \in Seq(S)
      OBVIOUS
    <3>. HIDE DEF Step
    <3>. QED
      BY ONLY <2>2, <3>1, m \in Nat, RecursExists
  <2>4. F[0] = << >>
    BY <2>3 DEF Recurs
  <2>5. ASSUME NEW k \in 0..m - 1
        PROVE  F[k + 1] = IF k + 1 \in at THEN F[k] ELSE Append(F[k], q[k + 1])
    <3>1. k \in Nat /\ k + 1 \in 1..m /\ k \in 0..m
      OBVIOUS
    <3>2. F[k] \in Seq(S)
      BY <3>1
    <3>3. Step[k][F[k]] = IF k + 1 \in at THEN F[k] ELSE Append(F[k], q[k + 1])
      BY <3>1, <3>2
    <3>4. F[k + 1] = Step[k][F[k]]
      <4>. HIDE DEF Step
      <4>. QED
        BY <2>3 DEF Recurs
    <3>. QED
      BY <3>3, <3>4
  <2>6. F = Body(q, F)
    <3>1. ASSUME NEW n \in 0..Len(q)
          PROVE  F[n] = IF n = 0 THEN << >> ELSE IF n \in at THEN F[n - 1] ELSE Append(F[n - 1], q[n])
      <4>1. CASE n = 0
        BY <2>4, <4>1
      <4>2. CASE n # 0
        <5>1. n - 1 \in 0..m - 1 /\ (n - 1) + 1 = n
          BY <1>1, <4>2
        <5>2. F[(n - 1) + 1] = IF (n - 1) + 1 \in at THEN F[n - 1] ELSE Append(F[n - 1], q[(n - 1) + 1])
          BY <2>5, <5>1
        <5>. QED
          BY <4>2, <5>1, <5>2
      <4>. QED
        BY <4>1, <4>2
    <3>2. DOMAIN F = 0..Len(q)
      BY <1>1
    <3>3. F = [n \in 0..Len(q) |-> F[n]]
      BY <1>1
    <3>. QED
      BY <3>1, <3>3
  <2>7. PICK g : g = Fn0(q)
    OBVIOUS
  <2>8. g = Body(q, g)
    BY <2>6, <2>7
  <2>9. Without(q, at) = g[m]
    BY <1>1, <2>7 DEF Without
  <2>10. \A n \in 0..m : g[n] = IF n = 0 THEN << >> ELSE IF n \in at
             THEN g[n - 1] ELSE Append(g[n - 1], q[n])
    BY <1>1, <2>8
  <2>11. g[0] = << >>
    BY <2>10
  <2>12. ASSUME NEW n \in 0..m - 1
         PROVE  g[n + 1] = IF n + 1 \in at THEN g[n] ELSE Append(g[n], q[n + 1])
    <3>1. n + 1 \in 0..m /\ n + 1 # 0 /\ (n + 1) - 1 = n
      OBVIOUS
    <3>. QED
      BY <2>10, <3>1
  <2>. HIDE DEF Fn0
  <2>. QED
    BY <2>7, <2>9, <2>11, <2>12
<1>2. PICK m \in Nat : m = Len(s)
  BY LenProperties
<1>3. PICK r \in Seq(S) : r = Append(s, e)
  <2>1. Append(s, e) \in Seq(S)
    OBVIOUS
  <2>. QED
    BY <2>1
<1>4. Len(r) = m + 1 /\ r[m + 1] = e /\ \A i \in 1..m : r[i] = s[i] /\ s[i] \in S
  BY <1>2, <1>3
<1>. HIDE DEF Fn0
<1>5. PICK f : /\ f[0] = << >> /\ Without(s, at) = f[m]
               /\ \A n \in 0..m - 1 : f[n + 1] = IF n + 1 \in at THEN f[n] ELSE Append(f[n], s[n + 1])
  BY <1>1, <1>2
<1>6. PICK g : /\ g[0] = << >> /\ Without(r, at) = g[m + 1]
               /\ \A n \in 0..m : g[n + 1] = IF n + 1 \in at THEN g[n] ELSE Append(g[n], r[n + 1])
  <2>1. m + 1 \in Nat /\ (m + 1) - 1 = m
    OBVIOUS
  <2>. QED
    BY <1>1, <1>4, <2>1, SMTT(40)
<1>7. \A n \in 0..m : f[n] = g[n] /\ f[n] \in Seq(S)
  <2>. DEFINE P == {n \in 0..m : f[n] = g[n] /\ f[n] \in Seq(S)}
  <2>1. 0 \in P
    <3>1. 0 \in 0..m /\ << >> \in Seq(S)
      OBVIOUS
    <3>. QED
      BY <1>5, <1>6, <3>1
  <2>2. ASSUME NEW n \in 0..m - 1, n \in P
        PROVE  n + 1 \in P
    <3>1. n + 1 \in 1..m /\ n \in 0..m /\ n + 1 \in 0..m
      OBVIOUS
    <3>2. r[n + 1] = s[n + 1] /\ s[n + 1] \in S
      BY <1>4, <3>1
    <3>3. f[n] = g[n] /\ f[n] \in Seq(S)
      BY <2>2
    <3>4. Append(f[n], s[n + 1]) \in Seq(S)
      BY <3>2, <3>3
    <3>5. f[n + 1] = g[n + 1] /\ f[n + 1] \in Seq(S)
      BY <1>5, <1>6, <3>1, <3>2, <3>3, <3>4
    <3>. QED
      BY <3>1, <3>5
  <2>3. 0..m \subseteq P
    <3>. HIDE DEF P
    <3>. QED
      BY <2>1, <2>2, SetInductionUpTo
  <2>. QED
    BY <2>3
<1>8. m \in 0..m
  OBVIOUS
<1>9. g[m + 1] = IF m + 1 \in at THEN f[m] ELSE Append(f[m], e)
  BY <1>4, <1>6, <1>7, <1>8
<1>10. Without(<< >>, at) = << >>
  <2>1. << >> \in Seq(S) /\ Len(<< >>) = 0
    OBVIOUS
  <2>. QED
    BY <1>1, <2>1
<1>. QED
  BY <1>2, <1>3, <1>5, <1>6, <1>7, <1>8, <1>9, <1>10

LEMMA WithoutType ==
  ASSUME NEW S, NEW s \in Seq(S), NEW at
  PROVE  Without(s, at) \in Seq(S)
<1>1. CASE s = << >>
  <2>1. << >> \in Seq({0}) /\ 0 \in {0} /\ << >> \in Seq(S)
    OBVIOUS
  <2>2. Without(<< >>, at) = << >>
    BY ONLY <2>1, WithoutAppend
  <2>. QED
    BY <1>1, <2>1, <2>2
<1>2. CASE s # << >>
  <2>1. PICK e \in S : TRUE
    <3>1. Len(s) \in Nat /\ Len(s) # 0
      BY <1>2, EmptySeq
    <3>2. s[1] \in S
      BY <3>1
    <3>. QED
      BY <3>2
  <2>. QED
    BY <2>1, WithoutAppend
<1>. QED
  BY <1>1, <1>2

(* Where there is no address, nothing is left out.                         *)
LEMMA WithoutConcat ==
  ASSUME NEW S, NEW u \in Seq(S), NEW v \in Seq(S), NEW at, \A i \in at : i \in 0..Len(u)
  PROVE  Without(u \o v, at) = Without(u, at) \o v
<1>. DEFINE P == {x \in Seq(S) : Without(u \o x, at) = Without(u, at) \o x}
<1>1. << >> \in P
  <2>1. PICK w \in Seq(S) : w = Without(u, at)
    BY WithoutType
  <2>2. u \o << >> = u /\ w \o << >> = w /\ << >> \in Seq(S)
    OBVIOUS
  <2>. QED
    BY <2>1, <2>2
<1>2. ASSUME NEW x \in Seq(S), NEW e \in S, x \in P
      PROVE  Append(x, e) \in P
  <2>1. PICK y \in Seq(S) : y = u \o x
    BY ConcatAppend
  <2>2. u \o Append(x, e) = Append(y, e) /\ Len(y) + 1 \notin at /\ Append(x, e) \in Seq(S)
    <3>1. /\ u \o Append(x, e) = Append(y, e) /\ Append(x, e) \in Seq(S)
          /\ Len(y) = Len(u) + Len(x) /\ Len(u) \in Nat /\ Len(x) \in Nat
      BY <2>1, ConcatAppend
    <3>. QED
      BY <3>1
  <2>3. Without(Append(y, e), at) = Append(Without(y, at), e)
    BY <2>2, WithoutAppend, SMTT(40)
  <2>4. PICK w \in Seq(S) : w = Without(u, at)
    BY WithoutType
  <2>5. PICK z : IsConcat(z, w, x)
    BY DEF IsConcat
  <2>6. IsConcat(Append(z, e), w, Append(x, e))
    BY <2>5, ConcatStep
  <2>7. Without(y, at) = z
    BY <1>2, <2>1, <2>4, <2>5 DEF IsConcat
  <2>. QED
    BY <2>1, <2>2, <2>3, <2>4, <2>6, <2>7 DEF IsConcat
<1>3. Seq(S) \subseteq P
  <2>. HIDE DEF P
  <2>. QED
    BY <1>1, <1>2, SeqInduction
<1>. QED
  BY <1>3

(* Only the positions in the sequence matter.                              *)
LEMMA WithoutSame ==
  ASSUME NEW S, NEW u \in Seq(S), NEW at, NEW at2,
         \A i \in 1..Len(u) : i \in at <=> i \in at2
  PROVE  Without(u, at) = Without(u, at2)
<1>. DEFINE P == {x \in Seq(S) : (\A i \in 1..Len(x) : i \in at <=> i \in at2) =>
                    Without(x, at) = Without(x, at2)}
<1>1. << >> \in P
  <2>1. << >> \in Seq({0}) /\ 0 \in {0} /\ << >> \in Seq(S)
    OBVIOUS
  <2>2. Without(<< >>, at) = << >> /\ Without(<< >>, at2) = << >>
    BY ONLY <2>1, WithoutAppend
  <2>. QED
    BY <2>1, <2>2
<1>2. ASSUME NEW x \in Seq(S), NEW e \in S, x \in P
      PROVE  Append(x, e) \in P
  <2>1. /\ Append(x, e) \in Seq(S) /\ Len(Append(x, e)) = Len(x) + 1
        /\ Len(x) \in Nat /\ Len(x) + 1 \in 1..Len(x) + 1
        /\ \A i \in 1..Len(x) : i \in 1..Len(x) + 1
    OBVIOUS
  <2>2. SUFFICES ASSUME \A i \in 1..Len(x) + 1 : i \in at <=> i \in at2
                 PROVE  Without(Append(x, e), at) = Without(Append(x, e), at2)
    BY <2>1
  <2>3. Without(x, at) = Without(x, at2)
    BY <1>2, <2>1, <2>2
  <2>4. Len(x) + 1 \in at <=> Len(x) + 1 \in at2
    BY <2>1, <2>2
  <2>5. /\ Without(Append(x, e), at) =
             IF Len(x) + 1 \in at THEN Without(x, at) ELSE Append(Without(x, at), e)
        /\ Without(Append(x, e), at2) =
             IF Len(x) + 1 \in at2 THEN Without(x, at2) ELSE Append(Without(x, at2), e)
    BY WithoutAppend
  <2>. QED
    BY <2>3, <2>4, <2>5
<1>3. Seq(S) \subseteq P
  <2>. HIDE DEF P
  <2>. QED
    BY <1>1, <1>2, SeqInduction
<1>. QED
  BY <1>3

(* Behind a prefix there are at most as many values as positions.          *)
LEMMA WithoutLen ==
  ASSUME NEW S, NEW u \in Seq(S), NEW v \in Seq(S), NEW at
  PROVE  /\ Len(Without(u, at)) \in Nat /\ Len(Without(u \o v, at)) \in Nat
         /\ Len(Without(u \o v, at)) <= Len(Without(u, at)) + Len(v)
<1>. DEFINE P == {x \in Seq(S) : Len(Without(u \o x, at)) <= Len(Without(u, at)) + Len(x)}
<1>0. Without(u, at) \in Seq(S) /\ Len(Without(u, at)) \in Nat
  BY WithoutType
<1>1. << >> \in P
  <2>1. u \o << >> = u /\ Len(<< >>) = 0
    OBVIOUS
  <2>. QED
    BY <1>0, <2>1
<1>2. ASSUME NEW x \in Seq(S), NEW e \in S, x \in P
      PROVE  Append(x, e) \in P
  <2>1. PICK y \in Seq(S) : y = u \o x
    BY ConcatAppend
  <2>2. PICK w \in Seq(S) : w = Without(y, at)
    BY WithoutType
  <2>3. /\ u \o Append(x, e) = Append(y, e) /\ Append(x, e) \in Seq(S)
        /\ Len(Append(x, e)) = Len(x) + 1 /\ Len(x) \in Nat
    BY <2>1, ConcatAppend
  <2>4. PICK z : z = Without(Append(y, e), at)
    OBVIOUS
  <2>5. z \in {w, Append(w, e)}
    BY <2>2, <2>4, WithoutAppend, SMTT(40)
  <2>6. Len(z) \in Nat /\ Len(w) \in Nat /\ Len(z) <= Len(w) + 1
    BY <2>5
  <2>7. Len(w) <= Len(Without(u, at)) + Len(x)
    BY <1>2, <2>1, <2>2
  <2>8. Len(z) <= Len(Without(u, at)) + (Len(x) + 1)
    BY <1>0, <2>3, <2>6, <2>7
  <2>. QED
    BY <2>3, <2>4, <2>8
<1>3. Seq(S) \subseteq P
  <2>. HIDE DEF P
  <2>. QED
    BY <1>1, <1>2, SeqInduction
<1>4. u \o v \in Seq(S)
  OBVIOUS
<1>. QED
  BY <1>0, <1>3, <1>4, WithoutType, LenProperties

-----------------------------------------------------------------------------
(* Types and the values of a struct.                                       *)

LEMMA TFacts ==
  /\ \A refs, ty : T(refs, ty).refs = refs /\ T(refs, ty).ty = ty
  /\ \A t \in Type : t = T(t.refs, t.ty) /\ t.refs \in 0..2
BY DEF T, Type

(* What one slot of a variable that is no role holds: a native or a        *)
(* reference.                                                              *)
SlotType == {t \in Type : t.ty # "Self" /\ (t.refs > 0 \/ t.ty \in Native)}

FieldTypes(s) == [i \in DOMAIN Fields[s] |-> Fields[s][i].ty]

LEMMA FieldFacts ==
  ASSUME NEW s \in Struct
  PROVE  /\ FieldTypes(s) \in Seq(FieldType) /\ FieldTypes(s) \in Seq(Type)
         /\ DOMAIN FieldTypes(s) = DOMAIN Fields[s] /\ Len(FieldTypes(s)) \in Nat
         /\ DOMAIN Fields[s] = 1..Len(FieldTypes(s))
         /\ \A i \in DOMAIN Fields[s] : FieldTypes(s)[i] = Fields[s][i].ty
            /\ Fields[s][i].ty \in FieldType
<1>1. Fields[s] \in Seq([name : STRING, ty : FieldType])
  BY TypeAssumption
<1>2. PICK n \in Nat : n = Len(Fields[s])
  BY <1>1
<1>3. DOMAIN Fields[s] = 1..n /\ \A i \in 1..n : Fields[s][i].ty \in FieldType
  <2>1. \A i \in 1..n : Fields[s][i] \in [name : STRING, ty : FieldType]
    BY <1>1, <1>2, ElementOfSeq
  <2>2. DOMAIN Fields[s] = 1..n
    BY <1>1, <1>2
  <2>. QED
    BY <2>1, <2>2
<1>4. FieldTypes(s) = [i \in 1..n |-> Fields[s][i].ty]
  BY <1>3 DEF FieldTypes
<1>5. FieldTypes(s) \in Seq(FieldType)
  BY <1>3, <1>4
<1>6. FieldType \subseteq Type
  BY DEF FieldType, Named
<1>7. FieldTypes(s) \in Seq(Type)
  BY <1>3, <1>4, <1>6
<1>8. Len(FieldTypes(s)) = n
  BY <1>4, <1>5
<1>. QED
  BY <1>3, <1>4, <1>5, <1>7, <1>8

LEMMA FieldTypeFacts ==
  ASSUME NEW t \in FieldType
  PROVE  /\ t \in Type /\ t.ty # "Self" /\ (t.refs = 0 => t.ty # Role)
         /\ ~(t.refs = 0 /\ t.ty \in Struct) => t \in SlotType
         /\ t.refs = 0 /\ t.ty \in Struct => t = T(0, t.ty)
<1>1. t \in Type /\ t.ty # "Self" /\ t # T(0, Role)
  BY DEF FieldType, Named
<1>2. t = T(t.refs, t.ty) /\ t.refs \in 0..2
  BY <1>1, TFacts
<1>3. t.ty \in Struct \union Native \union {Role, "Self"}
  BY <1>1 DEF Type
<1>4. t.refs = 0 => t.ty # Role
  BY <1>1, <1>2
<1>5. ~(t.refs = 0 /\ t.ty \in Struct) => t.refs > 0 \/ t.ty \in Native
  BY <1>1, <1>2, <1>3, <1>4
<1>. QED
  BY <1>1, <1>2, <1>4, <1>5 DEF SlotType

(* A number for each struct, less for those that it is made of.            *)
IsRank(rank) ==
  /\ Cardinality(Struct) \in Nat /\ rank \in [Struct -> 0..Cardinality(Struct)]
  /\ \A s \in Struct : \A i \in DOMAIN Fields[s] :
       Fields[s][i].ty.refs = 0 /\ Fields[s][i].ty.ty \in Struct => rank[Fields[s][i].ty.ty] < rank[s]

LEMMA RankExists == \E rank : IsRank(rank)
<1>1. Cardinality(Struct) \in Nat
  BY StructAssumption, FS_CardinalityType
<1>2. PICK rank \in [Struct -> 0..Cardinality(Struct)] : \A s, p \in Struct :
        \A i \in DOMAIN Fields[s] : Fields[s][i].ty = T(0, p) => rank[p] < rank[s]
  BY StructAssumption
<1>3. \A s \in Struct : \A i \in DOMAIN Fields[s] :
        Fields[s][i].ty.refs = 0 /\ Fields[s][i].ty.ty \in Struct => rank[Fields[s][i].ty.ty] < rank[s]
  BY <1>2, FieldFacts, FieldTypeFacts
<1>. QED
  BY <1>1, <1>2, <1>3 DEF IsRank

(* One behind the other, what has types has types.                         *)
LEMMA FlattenTyped ==
  ASSUME NEW S, NEW q \in Seq(Seq(S))
  PROVE  FlattenSeq(q) \in Seq(S)
<1>1. << >> \in Seq(S)
  OBVIOUS
<1>. QED
  BY <1>1, FlattenAppend

OfType(g, t)    == IF t.refs = 0 /\ t.ty \in Struct THEN g[t.ty] ELSE <<t>>
SlotsBody(g, s) == FlattenSeq([i \in DOMAIN Fields[s] |-> OfType(g, Fields[s][i].ty)])

(* The slots of a struct are those of its fields.                          *)
LEMMA SlotsEquation ==
  /\ Slots \in [Struct -> Seq(SlotType)]
  /\ \A s \in Struct : Slots[s] = AllSlots(FieldTypes(s))
<1>1. PICK rank : IsRank(rank)
  BY RankExists
<1>2. ASSUME NEW s \in Struct, NEW g,
             \A i \in DOMAIN Fields[s] : Fields[s][i].ty.refs = 0 /\ Fields[s][i].ty.ty \in Struct =>
               g[Fields[s][i].ty.ty] \in Seq(SlotType)
      PROVE  SlotsBody(g, s) \in Seq(SlotType)
  <2>. DEFINE q == [i \in DOMAIN Fields[s] |-> OfType(g, Fields[s][i].ty)]
  <2>1. PICK n \in Nat : DOMAIN Fields[s] = 1..n
    BY FieldFacts
  <2>2. ASSUME NEW i \in 1..n
        PROVE  OfType(g, Fields[s][i].ty) \in Seq(SlotType)
    <3>1. i \in DOMAIN Fields[s] /\ Fields[s][i].ty \in FieldType
      BY <2>1, FieldFacts
    <3>2. CASE Fields[s][i].ty.refs = 0 /\ Fields[s][i].ty.ty \in Struct
      BY <1>2, <3>1, <3>2 DEF OfType
    <3>3. CASE ~(Fields[s][i].ty.refs = 0 /\ Fields[s][i].ty.ty \in Struct)
      <4>1. Fields[s][i].ty \in SlotType
        BY <3>1, <3>3, FieldTypeFacts
      <4>. QED
        BY <3>3, <4>1 DEF OfType
    <3>. QED
      BY <3>2, <3>3
  <2>3. q \in Seq(Seq(SlotType))
    BY <2>1, <2>2
  <2>4. FlattenSeq(q) \in Seq(SlotType)
    <3>. HIDE DEF q
    <3>. QED
      BY <2>3, FlattenTyped
  <2>. QED
    BY <2>4 DEF SlotsBody
<1>3. ASSUME NEW s \in Struct, NEW g, NEW h,
             \A p \in Struct : rank[p] < rank[s] => g[p] = h[p]
      PROVE  SlotsBody(g, s) = SlotsBody(h, s)
  <2>1. ASSUME NEW i \in DOMAIN Fields[s]
        PROVE  OfType(g, Fields[s][i].ty) = OfType(h, Fields[s][i].ty)
    BY <1>1, <1>3 DEF IsRank, OfType
  <2>2. [i \in DOMAIN Fields[s] |-> OfType(g, Fields[s][i].ty)] =
            [i \in DOMAIN Fields[s] |-> OfType(h, Fields[s][i].ty)]
    BY <2>1
  <2>. QED
    BY <2>2 DEF SlotsBody
<1>. DEFINE V    == Seq(SlotType)
            Step == [g \in [Struct -> V] |-> [s \in Struct |-> SlotsBody(g, s)]]
            Body(g) == [s \in Struct |-> SlotsBody(g, s)]
<1>4. Step \in [[Struct -> V] -> [Struct -> V]] /\ \A g \in [Struct -> V] : Step[g] = Body(g)
  BY <1>2
<1>5. \E f \in [Struct -> V] : f = Step[f]
  <2>1. << >> \in V
    OBVIOUS
  <2>2. \A g \in [Struct -> V] : \A h \in [Struct -> V] : \A s \in Struct :
          (\A p \in Struct : rank[p] < rank[s] => g[p] = h[p]) => Step[g][s] = Step[h][s]
    BY <1>3, <1>4
  <2>3. Cardinality(Struct) \in Nat /\ rank \in [Struct -> 0..Cardinality(Struct)]
    BY <1>1 DEF IsRank
  <2>. HIDE DEF Step, V
  <2>4. Ranked(Struct, V, Cardinality(Struct), rank, << >>, Step)
    BY <1>4, <2>1, <2>2, <2>3 DEF Ranked
  <2>. QED
    BY <2>4, RankedFunction
<1>6. \E f : f = Body(f)
  <2>. HIDE DEF Step, V, Body
  <2>. QED
    BY <1>4, <1>5
<1>7. Slots = CHOOSE f : f = Body(f)
  BY DEF Slots, SlotsBody, OfType
<1>8. Slots = Body(Slots)
  <2>. HIDE DEF Body
  <2>. QED
    BY <1>6, <1>7
<1>9. \A s \in Struct : Slots[s] = SlotsBody(Slots, s)
  BY <1>8
<1>10. \A s \in Struct : Slots[s] \in V
  <2>. DEFINE P == {s \in Struct : Slots[s] \in V}
  <2>1. ASSUME NEW s \in Struct, \A p \in Struct : rank[p] < rank[s] => p \in P
        PROVE  s \in P
    <3>1. \A i \in DOMAIN Fields[s] : Fields[s][i].ty.refs = 0 /\ Fields[s][i].ty.ty \in Struct =>
            Slots[Fields[s][i].ty.ty] \in V
      BY <1>1, <2>1 DEF IsRank
    <3>2. SlotsBody(Slots, s) \in V
      BY <1>2, <3>1
    <3>. QED
      BY <1>9, <3>2
  <2>2. Cardinality(Struct) \in Nat /\ rank \in [Struct -> 0..Cardinality(Struct)]
    BY <1>1 DEF IsRank
  <2>3. Struct \subseteq P
    <3>. HIDE DEF P
    <3>. QED
      BY <2>1, <2>2, RankInduction
  <2>. QED
    BY <2>3
<1>11. ASSUME NEW s \in Struct
       PROVE  SlotsBody(Slots, s) = AllSlots(FieldTypes(s))
  <2>1. ASSUME NEW i \in DOMAIN Fields[s]
        PROVE  OfType(Slots, Fields[s][i].ty) = SlotsOf(FieldTypes(s)[i])
    <3>1. PICK t \in FieldType : t = Fields[s][i].ty /\ t = FieldTypes(s)[i]
      BY FieldFacts
    <3>2. CASE t.refs = 0 /\ t.ty \in Struct
      <4>1. t.ty \notin Native /\ t.ty # "Self" /\ t.ty # Role
        BY <3>2, NamesAssumption
      <4>. QED
        BY <3>1, <3>2, <4>1 DEF OfType, SlotsOf
    <3>3. CASE ~(t.refs = 0 /\ t.ty \in Struct)
      <4>1. t.refs > 0 \/ t.ty \in Native
        BY <3>3, FieldTypeFacts DEF SlotType
      <4>. QED
        BY <3>1, <3>3, <4>1 DEF OfType, SlotsOf
    <3>. QED
      BY <3>2, <3>3
  <2>2. DOMAIN FieldTypes(s) = DOMAIN Fields[s]
    BY FieldFacts
  <2>3. [i \in DOMAIN Fields[s] |-> OfType(Slots, Fields[s][i].ty)] =
          [i \in DOMAIN FieldTypes(s) |-> SlotsOf(FieldTypes(s)[i])]
    BY <2>1, <2>2
  <2>. QED
    BY <2>3 DEF SlotsBody, AllSlots
<1>12. Slots \in [Struct -> V]
  BY <1>8, <1>10
<1>. QED
  BY <1>9, <1>11, <1>12

-----------------------------------------------------------------------------
(* The slots of several values.                                            *)

(* Every type has slots, of types that are no struct.                      *)
LEMMA SlotsOfFacts ==
  ASSUME NEW t \in Type
  PROVE  /\ SlotsOf(t) \in Seq(Type) /\ Size(t) \in Nat /\ Len(SlotsOf(t)) = Size(t)
         /\ t.refs > 0 \/ t.ty \in Native \union {"Self"} => SlotsOf(t) = <<t>>
         /\ t = T(0, Role) => SlotsOf(t) = <<rSelf, t>>
         /\ t.refs = 0 /\ t.ty \in Struct => SlotsOf(t) = Slots[t.ty] /\ SlotsOf(t) \in Seq(SlotType)
<1>1. t.ty \in Struct \union Native \union {Role, "Self"} /\ t.refs \in 0..2
  BY DEF Type
<1>2. rSelf \in Type
  BY DEF rSelf, T, Type
<1>3. CASE t.refs > 0 \/ t.ty \in Native \union {"Self"}
  <2>1. SlotsOf(t) = <<t>>
    BY <1>3 DEF SlotsOf
  <2>2. ~(t.refs = 0 /\ t.ty \in Struct) /\ t # T(0, Role)
    BY <1>1, <1>3, NamesAssumption DEF T, Native
  <2>3. <<t>> \in Seq(Type) /\ Len(<<t>>) = 1
    OBVIOUS
  <2>. QED
    BY <2>1, <2>2, <2>3 DEF Size
<1>4. CASE t = T(0, Role)
  <2>1. t.refs = 0 /\ t.ty = Role
    BY <1>4 DEF T
  <2>2. SlotsOf(t) = <<rSelf, t>>
    BY <2>1, NamesAssumption DEF SlotsOf
  <2>3. <<rSelf, t>> \in Seq(Type) /\ Len(<<rSelf, t>>) = 2
    BY <1>2
  <2>. QED
    BY <2>1, <2>2, <2>3, NamesAssumption DEF Size
<1>5. CASE t.refs = 0 /\ t.ty \in Struct
  <2>1. t.ty \notin Native \union {"Self"} /\ t.ty # Role /\ t # T(0, Role)
    BY <1>5, NamesAssumption DEF T
  <2>2. SlotsOf(t) = Slots[t.ty]
    BY <1>5, <2>1 DEF SlotsOf
  <2>3. Slots[t.ty] \in Seq(SlotType)
    BY <1>5, SlotsEquation
  <2>4. Slots[t.ty] \in Seq(Type) /\ Len(Slots[t.ty]) \in Nat
    BY <2>3 DEF SlotType
  <2>. QED
    BY <1>5, <2>1, <2>2, <2>3, <2>4 DEF Size
<1>6. t.refs = 0 /\ t.ty = Role => t = T(0, Role)
  BY TFacts
<1>. QED
  BY <1>1, <1>3, <1>4, <1>5, <1>6

(* One more value has its slots behind the others.                         *)
LEMMA AllSlotsAppend ==
  ASSUME NEW ts \in Seq(Type), NEW t \in Type
  PROVE  /\ AllSlots(ts) \in Seq(Type) /\ AllSlots(<< >>) = << >>
         /\ IsConcat(AllSlots(Append(ts, t)), AllSlots(ts), SlotsOf(t))
<1>. DEFINE q(s) == [i \in DOMAIN s |-> SlotsOf(s[i])]
<1>1. PICK n \in Nat : n = Len(ts)
  OBVIOUS
<1>2. PICK r \in Seq(Type) : r = Append(ts, t)
  <2>1. Append(ts, t) \in Seq(Type)
    OBVIOUS
  <2>. QED
    BY <2>1
<1>3. /\ DOMAIN ts = 1..n /\ DOMAIN r = 1..n + 1 /\ r[n + 1] = t
      /\ \A i \in 1..n : r[i] = ts[i] /\ ts[i] \in Type
  BY <1>1, <1>2
<1>4. \A i \in 1..n : SlotsOf(ts[i]) \in Seq(Type)
  BY <1>3, SlotsOfFacts
<1>5. q(ts) \in Seq(Seq(Type)) /\ Len(q(ts)) = n
  BY <1>1, <1>3, <1>4
<1>6. SlotsOf(t) \in Seq(Type)
  BY SlotsOfFacts
<1>7. q(r) = Append(q(ts), SlotsOf(t))
  <2>1. q(r) \in Seq(Seq(Type)) /\ Len(q(r)) = n + 1
    <3>1. \A i \in 1..n + 1 : SlotsOf(r[i]) \in Seq(Type)
      <4>1. ASSUME NEW i \in 1..n + 1
            PROVE  SlotsOf(r[i]) \in Seq(Type)
        <5>1. i \in 1..n \/ i = n + 1
          OBVIOUS
        <5>. QED
          BY <1>3, <1>4, <1>6, <5>1
      <4>. QED
        BY <4>1
    <3>. QED
      BY <1>3, <3>1
  <2>2. PICK b \in Seq(Seq(Type)) : b = q(ts) /\ Len(b) = n
    BY <1>5
  <2>3. PICK e \in Seq(Type) : e = SlotsOf(t)
    BY <1>6
  <2>4. /\ Append(b, e) \in Seq(Seq(Type)) /\ Len(Append(b, e)) = n + 1
        /\ Append(b, e)[n + 1] = e /\ \A i \in 1..n : Append(b, e)[i] = b[i]
    BY <2>2
  <2>5. \A i \in 1..n + 1 : q(r)[i] = Append(b, e)[i]
    <3>1. ASSUME NEW i \in 1..n + 1
          PROVE  q(r)[i] = Append(b, e)[i]
      <4>1. q(r)[i] = SlotsOf(r[i])
        BY <1>3
      <4>2. CASE i \in 1..n
        <5>1. b[i] = SlotsOf(ts[i])
          BY <1>3, <2>2, <4>2
        <5>. QED
          BY <1>3, <2>4, <4>1, <4>2, <5>1
      <4>3. CASE i = n + 1
        BY <1>3, <2>3, <2>4, <4>1, <4>3
      <4>4. i \in 1..n \/ i = n + 1
        OBVIOUS
      <4>. HIDE DEF q
      <4>. QED
        BY <4>2, <4>3, <4>4
    <3>. QED
      BY <3>1
  <2>6. q(r) = Append(b, e)
    <3>. HIDE DEF q
    <3>. QED
      BY <2>1, <2>4, <2>5, SeqEqual
  <2>. QED
    BY <2>2, <2>3, <2>6
<1>8. /\ FlattenSeq(q(ts)) \in Seq(Type)
      /\ FlattenSeq(Append(q(ts), SlotsOf(t))) = FlattenSeq(q(ts)) \o SlotsOf(t)
  <2>. HIDE DEF q
  <2>. QED
    BY <1>5, <1>6, FlattenAppend
<1>9. AllSlots(<< >>) = << >>
  BY DEF AllSlots, FlattenSeq
<1>10. AllSlots(ts) = FlattenSeq(q(ts)) /\ AllSlots(r) = FlattenSeq(q(r))
  BY DEF AllSlots
<1>. HIDE DEF q
<1>. QED
  BY <1>2, <1>7, <1>8, <1>9, <1>10 DEF IsConcat

LEMMA AllSlotsFacts ==
  ASSUME NEW ts \in Seq(Type)
  PROVE  AllSlots(ts) \in Seq(Type) /\ SizeOf(ts) \in Nat /\ Len(AllSlots(ts)) = SizeOf(ts)
<1>1. rSelf \in Type
  BY DEF rSelf, T, Type
<1>2. AllSlots(ts) \in Seq(Type)
  BY <1>1, AllSlotsAppend
<1>. QED
  BY <1>2 DEF SizeOf

LEMMA AllSlotsOne ==
  /\ AllSlots(<< >>) = << >> /\ SizeOf(<< >>) = 0
  /\ \A t \in Type : AllSlots(<<t>>) = SlotsOf(t) /\ SizeOf(<<t>>) = Size(t)
<1>1. AllSlots(<< >>) = << >>
  BY DEF AllSlots, FlattenSeq
<1>2. ASSUME NEW t \in Type
      PROVE  AllSlots(<<t>>) = SlotsOf(t)
  <2>1. << >> \in Seq(Type) /\ Append(<< >>, t) = <<t>>
    OBVIOUS
  <2>2. IsConcat(AllSlots(<<t>>), << >>, SlotsOf(t))
    BY <1>1, <2>1, AllSlotsAppend
  <2>3. SlotsOf(t) \in Seq(Type)
    BY SlotsOfFacts
  <2>. QED
    BY <2>2, <2>3 DEF IsConcat
<1>. QED
  BY <1>1, <1>2 DEF SizeOf, Size

(* The slots of two sequences of values are one behind the other.          *)
LEMMA AllSlotsConcat ==
  ASSUME NEW a \in Seq(Type), NEW b \in Seq(Type), NEW c, IsConcat(c, a, b)
  PROVE  IsConcat(AllSlots(c), AllSlots(a), AllSlots(b)) /\ SizeOf(c) = SizeOf(a) + SizeOf(b)
<1>. DEFINE P == {x \in Seq(Type) : IsConcat(AllSlots(a \o x), AllSlots(a), AllSlots(x))}
<1>0. AllSlots(a) \in Seq(Type)
  BY AllSlotsFacts
<1>1. << >> \in P
  <2>1. a \o << >> = a /\ AllSlots(<< >>) = << >> /\ << >> \in Seq(Type)
    BY AllSlotsOne
  <2>2. IsConcat(AllSlots(a), AllSlots(a), << >>)
    BY <1>0, <2>1, ConcatIs
  <2>. QED
    BY <2>1, <2>2
<1>2. ASSUME NEW x \in Seq(Type), NEW t \in Type, x \in P
      PROVE  Append(x, t) \in P
  <2>1. PICK y \in Seq(Type) : IsConcat(y, a, x)
    BY ConcatIs
  <2>2. PICK z \in Seq(Type) : z = Append(x, t)
    <3>1. Append(x, t) \in Seq(Type)
      OBVIOUS
    <3>. QED
      BY <3>1
  <2>3. IsConcat(Append(y, t), a, z)
    BY <2>1, <2>2, ConcatStep
  <2>4. IsConcat(AllSlots(Append(y, t)), AllSlots(y), SlotsOf(t))
    BY AllSlotsAppend
  <2>5. IsConcat(AllSlots(z), AllSlots(x), SlotsOf(t))
    BY <2>2, AllSlotsAppend
  <2>6. IsConcat(AllSlots(y), AllSlots(a), AllSlots(x))
    BY <1>2, <2>1 DEF IsConcat
  <2>7. AllSlots(x) \in Seq(Type) /\ SlotsOf(t) \in Seq(Type)
    BY AllSlotsFacts, SlotsOfFacts
  <2>8. IsConcat(AllSlots(Append(y, t)), AllSlots(a), AllSlots(z))
    BY <1>0, <2>4, <2>5, <2>6, <2>7, ConcatChain
  <2>. QED
    BY <2>2, <2>3, <2>8 DEF IsConcat
<1>3. Seq(Type) \subseteq P
  <2>. HIDE DEF P
  <2>. QED
    BY <1>1, <1>2, SeqInduction
<1>4. IsConcat(AllSlots(c), AllSlots(a), AllSlots(b))
  BY <1>3 DEF IsConcat
<1>5. AllSlots(b) \in Seq(Type)
  BY AllSlotsFacts
<1>. QED
  BY <1>0, <1>4, <1>5, ConcatAt DEF SizeOf

(* Where the slots of one of several values are.                           *)
LEMMA AllSlotsAt ==
  ASSUME NEW ts \in Seq(Type), NEW i \in 1..Len(ts), NEW t, t = ts[i],
         NEW o, o = SizeOf(SubSeq(ts, 1, i - 1))
  PROVE  /\ o \in Nat /\ t \in Type /\ o + Size(t) <= SizeOf(ts)
         /\ \A k \in 1..Size(t) : AllSlots(ts)[o + k] = SlotsOf(t)[k]
         /\ \A k \in 1..o : AllSlots(ts)[k] = AllSlots(SubSeq(ts, 1, i - 1))[k]
<1>1. PICK n \in Nat : n = Len(ts)
  OBVIOUS
<1>2. PICK a \in Seq(Type) : a = SubSeq(ts, 1, i - 1) /\ Len(a) = i - 1
          /\ \A j \in 1..i - 1 : a[j] = ts[j]
  <2>1. i - 1 \in 0..Len(ts)
    OBVIOUS
  <2>. QED
    BY <2>1, PrefixFacts
<1>3. PICK b \in Seq(Type) : b = SubSeq(ts, i + 1, n)
  <2>1. i \in 0..Len(ts)
    OBVIOUS
  <2>. QED
    BY <1>1, <2>1, CutAt
<1>4. t \in Type
  OBVIOUS
<1>5. PICK d \in Seq(Type) : d = SubSeq(ts, 1, i) /\ d = Append(a, t)
  <2>1. /\ SubSeq(ts, 1, i) \in Seq(Type) /\ Len(SubSeq(ts, 1, i)) = i
        /\ \A j \in 1..i : SubSeq(ts, 1, i)[j] = ts[j]
    <3>1. i \in 0..Len(ts)
      OBVIOUS
    <3>. QED
      BY <3>1, PrefixFacts
  <2>2. Append(a, t) \in Seq(Type) /\ Len(Append(a, t)) = i /\ \A j \in 1..i : Append(a, t)[j] = ts[j]
    BY <1>1, <1>2, <1>4
  <2>3. SubSeq(ts, 1, i) = Append(a, t)
    BY <2>1, <2>2, SeqEqual
  <2>. QED
    BY <2>1, <2>3
<1>6. IsConcat(ts, d, b)
  <2>1. i \in 0..Len(ts)
    OBVIOUS
  <2>. QED
    BY <1>1, <1>3, <1>5, <2>1, CutAt
<1>7. IsConcat(AllSlots(ts), AllSlots(d), AllSlots(b))
  BY <1>6, AllSlotsConcat
<1>8. IsConcat(AllSlots(d), AllSlots(a), SlotsOf(t))
  BY <1>4, <1>5, AllSlotsAppend
<1>9. /\ AllSlots(a) \in Seq(Type) /\ AllSlots(b) \in Seq(Type) /\ AllSlots(d) \in Seq(Type)
      /\ SlotsOf(t) \in Seq(Type) /\ Len(AllSlots(a)) = o /\ Len(SlotsOf(t)) = Size(t)
      /\ Len(AllSlots(ts)) = SizeOf(ts)
  BY <1>2, <1>4, AllSlotsFacts, SlotsOfFacts
<1>10. PICK z \in Nat : z = Size(t)
  BY <1>4, SlotsOfFacts
<1>11. /\ o \in Nat /\ Len(AllSlots(d)) = o + z
       /\ \A j \in 1..o : AllSlots(d)[j] = AllSlots(a)[j]
       /\ \A j \in 1..z : AllSlots(d)[o + j] = SlotsOf(t)[j]
  <2>1. /\ Len(AllSlots(a)) \in Nat /\ Len(AllSlots(d)) = Len(AllSlots(a)) + Len(SlotsOf(t))
        /\ \A j \in 1..Len(AllSlots(a)) : AllSlots(d)[j] = AllSlots(a)[j]
        /\ \A j \in 1..Len(SlotsOf(t)) : AllSlots(d)[Len(AllSlots(a)) + j] = SlotsOf(t)[j]
    <3>1. AllSlots(a) \in Seq(Type) /\ SlotsOf(t) \in Seq(Type)
      BY <1>9
    <3>. QED
      BY ONLY <1>8, <3>1, ConcatAt
  <2>. QED
    BY <1>9, <1>10, <2>1
<1>12. /\ Len(AllSlots(ts)) = (o + z) + Len(AllSlots(b)) /\ Len(AllSlots(b)) \in Nat
       /\ \A j \in 1..o + z : AllSlots(ts)[j] = AllSlots(d)[j]
  <2>1. /\ Len(AllSlots(ts)) = Len(AllSlots(d)) + Len(AllSlots(b)) /\ Len(AllSlots(b)) \in Nat
        /\ \A j \in 1..Len(AllSlots(d)) : AllSlots(ts)[j] = AllSlots(d)[j]
    <3>1. AllSlots(d) \in Seq(Type) /\ AllSlots(b) \in Seq(Type)
      BY <1>9
    <3>. QED
      BY ONLY <1>7, <3>1, ConcatAt
  <2>. QED
    BY <1>11, <2>1
<1>13. \A k \in 1..z : o + k \in 1..o + z
  BY <1>11
<1>14. \A k \in 1..o : k \in 1..o + z
  BY <1>11
<1>15. o + z <= SizeOf(ts)
  BY <1>9, <1>11, <1>12, SMTT(40)
<1>. QED
  BY <1>2, <1>4, <1>10, <1>11, <1>12, <1>13, <1>14, <1>15

-----------------------------------------------------------------------------
(* The parts of a struct, and its ancestors.                               *)

OffsetOf(s, i) == SizeOf([j \in 1..(i - 1) |-> Fields[s][j].ty])
PartsWith(g, t) == IF t.refs = 0 /\ t.ty \in Struct THEN g[t.ty] ELSE {<<0, t>>}
PartsBody(g, s) ==
  {<<0, T(0, s)>>} \union UNION {PartsAt(PartsWith(g, Fields[s][i].ty), OffsetOf(s, i)) :
      i \in DOMAIN Fields[s]}

(* Where a field starts.                                                   *)
LEMMA OffsetFacts ==
  ASSUME NEW s \in Struct, NEW i \in DOMAIN Fields[s]
  PROVE  /\ i \in 1..Len(FieldTypes(s)) /\ OffsetOf(s, i) \in Nat
         /\ OffsetOf(s, i) = SizeOf(SubSeq(FieldTypes(s), 1, i - 1))
<1>1. PICK ts \in Seq(Type) : ts = FieldTypes(s)
  BY FieldFacts
<1>2. PICK n \in Nat : n = Len(ts)
  OBVIOUS
<1>3. i \in 1..n /\ DOMAIN Fields[s] = 1..n /\ \A j \in 1..n : ts[j] = Fields[s][j].ty
  BY <1>1, <1>2, FieldFacts
<1>4. PICK a \in Seq(Type) : a = SubSeq(ts, 1, i - 1) /\ Len(a) = i - 1
          /\ \A j \in 1..i - 1 : a[j] = ts[j]
  <2>1. i - 1 \in 0..Len(ts)
    BY <1>2, <1>3
  <2>. QED
    BY <2>1, PrefixFacts
<1>5. a = [j \in 1..(i - 1) |-> Fields[s][j].ty]
  <2>1. a = [j \in 1..(i - 1) |-> a[j]]
    BY <1>3, <1>4
  <2>2. \A j \in 1..(i - 1) : a[j] = Fields[s][j].ty
    BY <1>3, <1>4
  <2>. QED
    BY <2>1, <2>2
<1>6. SizeOf(a) \in Nat
  BY AllSlotsFacts
<1>. QED
  BY <1>1, <1>2, <1>3, <1>4, <1>5, <1>6 DEF OffsetOf

(* The parts of a struct are itself and those of its fields.               *)
LEMMA PartsEquation ==
  \A s \in Struct : Parts[s] =
    {<<0, T(0, s)>>} \union UNION {PartsAt(PartsOf(Fields[s][i].ty), OffsetOf(s, i)) :
        i \in DOMAIN Fields[s]}
<1>1. PICK rank : IsRank(rank)
  BY RankExists
<1>. DEFINE V == SUBSET (Nat \X Type)
<1>2. ASSUME NEW s \in Struct, NEW g \in [Struct -> V]
      PROVE  PartsBody(g, s) \in V
  <2>1. T(0, s) \in Type
    BY DEF Type, T
  <2>2. ASSUME NEW i \in DOMAIN Fields[s]
        PROVE  PartsAt(PartsWith(g, Fields[s][i].ty), OffsetOf(s, i)) \in V
    <3>1. OffsetOf(s, i) \in Nat
      BY OffsetFacts
    <3>2. Fields[s][i].ty \in Type
      BY FieldFacts, FieldTypeFacts
    <3>3. PartsWith(g, Fields[s][i].ty) \in V
      BY <3>2 DEF PartsWith
    <3>4. \A p \in Nat \X Type : <<p[1] + OffsetOf(s, i), p[2]>> \in Nat \X Type
      BY <3>1
    <3>. QED
      BY <3>3, <3>4 DEF PartsAt
  <2>. QED
    BY <2>1, <2>2 DEF PartsBody
<1>3. ASSUME NEW s \in Struct, NEW g, NEW h,
             \A p \in Struct : rank[p] < rank[s] => g[p] = h[p]
      PROVE  PartsBody(g, s) = PartsBody(h, s)
  <2>1. ASSUME NEW i \in DOMAIN Fields[s]
        PROVE  PartsWith(g, Fields[s][i].ty) = PartsWith(h, Fields[s][i].ty)
    BY <1>1, <1>3 DEF IsRank, PartsWith
  <2>. QED
    BY <2>1 DEF PartsBody
<1>. DEFINE Step == [g \in [Struct -> V] |-> [s \in Struct |-> PartsBody(g, s)]]
            Body(g) == [s \in Struct |-> PartsBody(g, s)]
<1>4. Step \in [[Struct -> V] -> [Struct -> V]] /\ \A g \in [Struct -> V] : Step[g] = Body(g)
  <2>. HIDE DEF V
  <2>. QED
    BY <1>2
<1>5. \E f \in [Struct -> V] : f = Step[f]
  <2>1. {} \in V
    OBVIOUS
  <2>2. \A g \in [Struct -> V] : \A h \in [Struct -> V] : \A s \in Struct :
          (\A p \in Struct : rank[p] < rank[s] => g[p] = h[p]) => Step[g][s] = Step[h][s]
    <3>. HIDE DEF V
    <3>. QED
      BY <1>3, <1>4
  <2>3. Cardinality(Struct) \in Nat /\ rank \in [Struct -> 0..Cardinality(Struct)]
    BY <1>1 DEF IsRank
  <2>. HIDE DEF Step, V
  <2>4. Ranked(Struct, V, Cardinality(Struct), rank, {}, Step)
    BY <1>4, <2>1, <2>2, <2>3 DEF Ranked
  <2>. QED
    BY <2>4, RankedFunction
<1>6. \E f : f = Body(f)
  <2>. HIDE DEF Step, V, Body
  <2>. QED
    BY <1>4, <1>5
<1>7. Parts = CHOOSE f : f = Body(f)
  BY DEF Parts, PartsBody, PartsWith, OffsetOf
<1>8. Parts = Body(Parts)
  <2>. HIDE DEF Body
  <2>. QED
    BY <1>6, <1>7
<1>9. \A s \in Struct : Parts[s] = PartsBody(Parts, s)
  BY <1>8
<1>10. \A t : PartsWith(Parts, t) = PartsOf(t)
  BY DEF PartsWith, PartsOf
<1>. QED
  BY <1>9, <1>10 DEF PartsBody

(* A part is the struct, or a part of a field.                             *)
LEMMA PartCases ==
  ASSUME NEW s \in Struct, NEW n, NEW t
  PROVE  <<n, t>> \in Parts[s] <=>
           \/ n = 0 /\ t = T(0, s)
           \/ \E i \in DOMAIN Fields[s] : \E m : n = m + OffsetOf(s, i)
              /\ <<m, t>> \in PartsOf(Fields[s][i].ty)
<1>1. ASSUME NEW i \in DOMAIN Fields[s]
      PROVE  \A p \in PartsOf(Fields[s][i].ty) : p = <<p[1], p[2]>>
  <2>1. Fields[s][i].ty.refs = 0 /\ Fields[s][i].ty.ty \in Struct =>
          \A p \in Parts[Fields[s][i].ty.ty] : p = <<p[1], p[2]>>
    BY PartsEquation DEF PartsAt
  <2>. QED
    BY <2>1 DEF PartsOf
<1>2. ASSUME NEW i \in DOMAIN Fields[s]
      PROVE  <<n, t>> \in PartsAt(PartsOf(Fields[s][i].ty), OffsetOf(s, i)) <=>
               \E m : n = m + OffsetOf(s, i) /\ <<m, t>> \in PartsOf(Fields[s][i].ty)
  <2>. DEFINE parts == PartsOf(Fields[s][i].ty)
              o == OffsetOf(s, i)
  <2>1. <<n, t>> \in PartsAt(parts, o) <=> \E p \in parts : <<n, t>> = <<p[1] + o, p[2]>>
    BY DEF PartsAt
  <2>2. \A p \in parts : p = <<p[1], p[2]>>
    BY <1>1
  <2>. HIDE DEF parts, o
  <2>3. ASSUME NEW p \in parts, <<n, t>> = <<p[1] + o, p[2]>>
        PROVE  \E m : n = m + o /\ <<m, t>> \in parts
    <3>1. n = p[1] + o /\ t = p[2]
      BY <2>3
    <3>2. <<p[1], t>> \in parts
      BY <2>2, <3>1
    <3>. QED
      BY <3>1, <3>2
  <2>4. ASSUME NEW m, n = m + o, <<m, t>> \in parts
        PROVE  \E p \in parts : <<n, t>> = <<p[1] + o, p[2]>>
    <3>1. <<m, t>>[1] = m /\ <<m, t>>[2] = t
      OBVIOUS
    <3>. QED
      BY <2>4, <3>1
  <2>5. <<n, t>> \in PartsAt(parts, o) <=> \E m : n = m + o /\ <<m, t>> \in parts
    BY <2>1, <2>3, <2>4
  <2>. QED
    BY <2>5 DEF parts, o
<1>3. <<n, t>> \in Parts[s] <=>
        \/ <<n, t>> = <<0, T(0, s)>>
        \/ \E i \in DOMAIN Fields[s] : <<n, t>> \in PartsAt(PartsOf(Fields[s][i].ty), OffsetOf(s, i))
  BY PartsEquation
<1>. QED
  BY <1>2, <1>3

LEMMA PartsOfCases ==
  ASSUME NEW u \in Type, NEW n, NEW t
  PROVE  <<n, t>> \in PartsOf(u) <=>
           \/ u.refs = 0 /\ u.ty \in Struct /\ <<n, t>> \in Parts[u.ty]
           \/ ~(u.refs = 0 /\ u.ty \in Struct) /\ n = 0 /\ t = u
BY DEF PartsOf

(* The value of the type u has at n a value of the type t.                 *)
HasPart(u, n, t) ==
  /\ n \in Nat /\ t \in Type /\ t.ty # "Self" /\ n + Size(t) <= Size(u)
  /\ \A k \in 1..Size(t) : SlotsOf(u)[n + k] = SlotsOf(t)[k]

LEMMA PartSlots ==
  ASSUME NEW u \in Type, u.ty # "Self", NEW n, NEW t, <<n, t>> \in PartsOf(u)
  PROVE  HasPart(u, n, t)
<1>1. PICK rank : IsRank(rank)
  BY RankExists
<1>2. ASSUME NEW v \in Type, v.ty # "Self"
      PROVE  HasPart(v, 0, v)
  BY <1>2, SlotsOfFacts DEF HasPart
<1>. DEFINE P == {s \in Struct : \A m, x : <<m, x>> \in Parts[s] => HasPart(T(0, s), m, x)}
<1>3. ASSUME NEW s \in Struct, \A p \in Struct : rank[p] < rank[s] => p \in P
      PROVE  s \in P
  <2>1. SUFFICES ASSUME NEW m, NEW x, <<m, x>> \in Parts[s]
                 PROVE  HasPart(T(0, s), m, x)
    OBVIOUS
  <2>2. T(0, s) \in Type /\ T(0, s).refs = 0 /\ T(0, s).ty = s /\ s # "Self"
    BY NamesAssumption DEF T, Type
  <2>3. CASE m = 0 /\ x = T(0, s)
    BY <1>2, <2>2, <2>3
  <2>4. ASSUME NEW i \in DOMAIN Fields[s], NEW k, m = k + OffsetOf(s, i),
               <<k, x>> \in PartsOf(Fields[s][i].ty)
        PROVE  HasPart(T(0, s), m, x)
    <3>1. PICK f \in FieldType : f = Fields[s][i].ty /\ f = FieldTypes(s)[i]
      BY FieldFacts
    <3>2. f \in Type /\ f.ty # "Self" /\ (f.refs = 0 /\ f.ty \in Struct => f = T(0, f.ty))
      BY FieldTypeFacts
    <3>3. HasPart(f, k, x)
      <4>1. CASE f.refs = 0 /\ f.ty \in Struct
        <5>1. f.ty \in P
          BY <1>1, <1>3, <3>1, <4>1 DEF IsRank
        <5>2. <<k, x>> \in Parts[f.ty]
          BY <2>4, <3>1, <3>2, <4>1, PartsOfCases
        <5>. QED
          BY <3>2, <4>1, <5>1, <5>2
      <4>2. CASE ~(f.refs = 0 /\ f.ty \in Struct)
        <5>1. k = 0 /\ x = f
          BY <2>4, <3>1, <3>2, <4>2, PartsOfCases
        <5>. QED
          BY <1>2, <3>2, <5>1
      <4>. QED
        BY <4>1, <4>2
    <3>4. PICK ts \in Seq(Type) : ts = FieldTypes(s) /\ i \in 1..Len(ts) /\ f = ts[i]
      BY <3>1, FieldFacts, OffsetFacts
    <3>5. PICK o : o = OffsetOf(s, i) /\ o = SizeOf(SubSeq(ts, 1, i - 1))
      BY <3>4, OffsetFacts
    <3>6. /\ o \in Nat /\ o + Size(f) <= SizeOf(ts)
          /\ \A j \in 1..Size(f) : AllSlots(ts)[o + j] = SlotsOf(f)[j]
      BY <3>4, <3>5, AllSlotsAt
    <3>7. SlotsOf(T(0, s)) = AllSlots(ts) /\ Size(T(0, s)) = SizeOf(ts)
      <4>1. SlotsOf(T(0, s)) = Slots[s]
        BY <2>2, SlotsOfFacts
      <4>2. Slots[s] = AllSlots(ts)
        BY <3>4, SlotsEquation
      <4>. QED
        BY <4>1, <4>2 DEF Size, SizeOf
    <3>8. /\ k \in Nat /\ x \in Type /\ x.ty # "Self" /\ k + Size(x) <= Size(f)
          /\ \A j \in 1..Size(x) : SlotsOf(f)[k + j] = SlotsOf(x)[j]
      BY <3>3 DEF HasPart
    <3>9. PICK z \in Nat, y \in Nat, w \in Nat : z = Size(x) /\ y = Size(f) /\ w = SizeOf(ts)
      BY <3>2, <3>8, AllSlotsFacts, SlotsOfFacts
    <3>10. m = k + o /\ m \in Nat /\ m + z <= w
      <4>1. m = k + o
        BY <2>4, <3>5
      <4>2. o \in Nat /\ k \in Nat /\ o + y <= w /\ k + z <= y
        BY <3>6, <3>8, <3>9
      <4>. QED
        BY <4>1, <4>2
    <3>11. ASSUME NEW j \in 1..z
           PROVE  AllSlots(ts)[m + j] = SlotsOf(x)[j]
      <4>1. k + j \in 1..y /\ o + (k + j) = m + j
        BY <3>6, <3>8, <3>9, <3>10
      <4>. QED
        BY <3>6, <3>8, <3>9, <4>1
    <3>. QED
      BY <3>7, <3>8, <3>9, <3>10, <3>11 DEF HasPart
  <2>5. \/ m = 0 /\ x = T(0, s)
        \/ \E i \in DOMAIN Fields[s] : \E k : m = k + OffsetOf(s, i)
           /\ <<k, x>> \in PartsOf(Fields[s][i].ty)
    BY <2>1, PartCases
  <2>. QED
    BY <2>3, <2>4, <2>5
<1>4. Struct \subseteq P
  <2>1. Cardinality(Struct) \in Nat /\ rank \in [Struct -> 0..Cardinality(Struct)]
    BY <1>1 DEF IsRank
  <2>. HIDE DEF P
  <2>. QED
    BY <1>3, <2>1, RankInduction
<1>5. CASE u.refs = 0 /\ u.ty \in Struct
  <2>1. <<n, t>> \in Parts[u.ty] /\ u = T(0, u.ty)
    BY <1>5, PartsOfCases, TFacts
  <2>2. u.ty \in P
    <3>. HIDE DEF P
    <3>. QED
      BY <1>4, <1>5
  <2>. QED
    BY <2>1, <2>2
<1>6. CASE ~(u.refs = 0 /\ u.ty \in Struct)
  BY <1>2, <1>6, PartsOfCases
<1>. QED
  BY <1>5, <1>6

(* What is a part of a part is a part.                                     *)
LEMMA PartsTransitive ==
  ASSUME NEW u \in Type, NEW n, NEW p \in Struct, <<n, T(0, p)>> \in PartsOf(u),
         NEW m, NEW t, <<m, t>> \in Parts[p], n \in Nat, m \in Nat
  PROVE  <<n + m, t>> \in PartsOf(u)
<1>1. PICK rank : IsRank(rank)
  BY RankExists
<1>. DEFINE P == {s \in Struct : \A k \in Nat : <<k, T(0, p)>> \in Parts[s] => <<k + m, t>> \in Parts[s]}
<1>2. T(0, p) \in Type /\ T(0, p).refs = 0 /\ T(0, p).ty = p
  BY DEF T, Type
<1>3. ASSUME NEW s \in Struct, \A q \in Struct : rank[q] < rank[s] => q \in P
      PROVE  s \in P
  <2>1. SUFFICES ASSUME NEW k \in Nat, <<k, T(0, p)>> \in Parts[s]
                 PROVE  <<k + m, t>> \in Parts[s]
    OBVIOUS
  <2>2. CASE k = 0 /\ T(0, p) = T(0, s)
    <3>1. p = s
      BY <2>2 DEF T
    <3>. QED
      BY <2>2, <3>1
  <2>3. ASSUME NEW i \in DOMAIN Fields[s], NEW j, k = j + OffsetOf(s, i),
               <<j, T(0, p)>> \in PartsOf(Fields[s][i].ty)
        PROVE  <<k + m, t>> \in Parts[s]
    <3>1. PICK f \in FieldType : f = Fields[s][i].ty
      BY FieldFacts
    <3>2. f \in Type /\ f.ty # "Self"
      BY FieldTypeFacts
    <3>3. HasPart(f, j, T(0, p))
      BY <2>3, <3>1, <3>2, PartSlots
    <3>4. j \in Nat /\ OffsetOf(s, i) \in Nat
      BY <3>3, OffsetFacts DEF HasPart
    <3>5. <<j + m, t>> \in PartsOf(f)
      <4>1. CASE f.refs = 0 /\ f.ty \in Struct
        <5>1. f.ty \in P
          BY <1>1, <1>3, <3>1, <4>1 DEF IsRank
        <5>2. <<j, T(0, p)>> \in Parts[f.ty]
          BY <2>3, <3>1, <3>2, <4>1, PartsOfCases
        <5>3. <<j + m, t>> \in Parts[f.ty]
          BY <3>4, <5>1, <5>2
        <5>. QED
          BY <3>2, <4>1, <5>3, PartsOfCases
      <4>2. CASE ~(f.refs = 0 /\ f.ty \in Struct)
        <5>1. T(0, p) = f
          BY <2>3, <3>1, <3>2, <4>2, PartsOfCases
        <5>. QED
          BY <1>2, <4>2, <5>1
      <4>. QED
        BY <4>1, <4>2
    <3>6. k + m = (j + m) + OffsetOf(s, i)
      BY <2>3, <3>4
    <3>. QED
      BY <3>1, <3>5, <3>6, PartCases
  <2>4. \/ k = 0 /\ T(0, p) = T(0, s)
        \/ \E i \in DOMAIN Fields[s] : \E j : k = j + OffsetOf(s, i)
           /\ <<j, T(0, p)>> \in PartsOf(Fields[s][i].ty)
    BY <2>1, PartCases
  <2>. QED
    BY <2>2, <2>3, <2>4
<1>4. Struct \subseteq P
  <2>1. Cardinality(Struct) \in Nat /\ rank \in [Struct -> 0..Cardinality(Struct)]
    BY <1>1 DEF IsRank
  <2>. HIDE DEF P
  <2>. QED
    BY <1>3, <2>1, RankInduction
<1>5. CASE u.refs = 0 /\ u.ty \in Struct
  <2>1. <<n, T(0, p)>> \in Parts[u.ty]
    BY <1>5, PartsOfCases
  <2>2. u.ty \in P
    <3>. HIDE DEF P
    <3>. QED
      BY <1>4, <1>5
  <2>3. <<n + m, t>> \in Parts[u.ty]
    BY <2>1, <2>2
  <2>. QED
    BY <1>5, <2>3, PartsOfCases
<1>6. CASE ~(u.refs = 0 /\ u.ty \in Struct)
  <2>1. T(0, p) = u
    BY <1>6, PartsOfCases
  <2>. QED
    BY <1>2, <1>6, <2>1
<1>. QED
  BY <1>5, <1>6

(* The parent is the first field, and of a lower rank.                     *)
LEMMA ParentFacts ==
  ASSUME NEW s \in Struct, Parent(s) # {}, NEW p, p = CHOOSE x \in Parent(s) : TRUE
  PROVE  /\ p \in Struct /\ 1 \in DOMAIN Fields[s] /\ Fields[s][1].ty = T(0, p)
         /\ Fields[s][1].ty.refs = 0 /\ Fields[s][1].ty.ty = p
<1>1. Fields[s] # << >> /\ Fields[s][1].name = "parent" /\ p = Fields[s][1].ty.ty
  BY DEF Parent
<1>2. PICK q \in Struct : Fields[s][1].ty = T(0, q)
  BY <1>1, StructAssumption
<1>3. p = q /\ Fields[s][1].ty.refs = 0
  BY <1>1, <1>2, TFacts
<1>4. 1 \in DOMAIN Fields[s]
  <2>1. Fields[s] \in Seq([name : STRING, ty : FieldType])
    BY TypeAssumption
  <2>2. Len(Fields[s]) \in Nat /\ Len(Fields[s]) # 0 /\ DOMAIN Fields[s] = 1..Len(Fields[s])
    BY <1>1, <2>1, EmptySeq
  <2>. QED
    BY <2>2
<1>. QED
  BY <1>1, <1>2, <1>3, <1>4

(* A struct and its ancestors.                                             *)
LEMMA LineageEquation ==
  /\ Lineage \in [Struct -> Seq(Struct)]
  /\ \A s \in Struct : Lineage[s] =
       IF Parent(s) = {} THEN <<s>> ELSE <<s>> \o Lineage[CHOOSE p \in Parent(s) : TRUE]
<1>1. PICK rank : IsRank(rank)
  BY RankExists
<1>. DEFINE V == Seq(Struct)
            Elder(s) == CHOOSE p \in Parent(s) : TRUE
            Of(g, s) == IF Parent(s) = {} THEN <<s>> ELSE <<s>> \o g[Elder(s)]
            Step == [g \in [Struct -> V] |-> [s \in Struct |-> Of(g, s)]]
            Body(g) == [s \in Struct |-> Of(g, s)]
<1>2. \A s \in Struct : Parent(s) # {} => Elder(s) \in Struct /\ rank[Elder(s)] < rank[s]
  <2>1. ASSUME NEW s \in Struct, Parent(s) # {}
        PROVE  Elder(s) \in Struct /\ rank[Elder(s)] < rank[s]
    <3>1. PICK p : p = Elder(s)
      OBVIOUS
    <3>2. p \in Struct /\ 1 \in DOMAIN Fields[s] /\ Fields[s][1].ty.refs = 0 /\ Fields[s][1].ty.ty = p
      BY <2>1, <3>1, ParentFacts
    <3>. QED
      BY <1>1, <3>1, <3>2 DEF IsRank
  <2>. QED
    BY <2>1
<1>. HIDE DEF Elder
<1>3. ASSUME NEW s \in Struct, NEW g, Parent(s) # {} => g[Elder(s)] \in V
      PROVE  Of(g, s) \in V
  <2>1. <<s>> \in V
    OBVIOUS
  <2>2. Parent(s) # {} => <<s>> \o g[Elder(s)] \in V
    BY <1>3, <2>1, ConcatIs
  <2>. QED
    BY <2>1, <2>2
<1>4. ASSUME NEW s \in Struct, NEW g, NEW h,
             \A p \in Struct : rank[p] < rank[s] => g[p] = h[p]
      PROVE  Of(g, s) = Of(h, s)
  BY <1>2, <1>4
<1>5. Step \in [[Struct -> V] -> [Struct -> V]] /\ \A g \in [Struct -> V] : Step[g] = Body(g)
  <2>1. \A g \in [Struct -> V] : \A s \in Struct : Of(g, s) \in V
    <3>. HIDE DEF V, Of
    <3>. QED
      BY <1>2, <1>3
  <2>. HIDE DEF V, Of
  <2>. QED
    BY <2>1
<1>6. \E f \in [Struct -> V] : f = Step[f]
  <2>1. << >> \in V
    OBVIOUS
  <2>2. \A g \in [Struct -> V] : \A h \in [Struct -> V] : \A s \in Struct :
          (\A p \in Struct : rank[p] < rank[s] => g[p] = h[p]) => Step[g][s] = Step[h][s]
    <3>. HIDE DEF V, Of
    <3>. QED
      BY <1>4, <1>5
  <2>3. Cardinality(Struct) \in Nat /\ rank \in [Struct -> 0..Cardinality(Struct)]
    BY <1>1 DEF IsRank
  <2>. HIDE DEF Step, V
  <2>4. Ranked(Struct, V, Cardinality(Struct), rank, << >>, Step)
    BY <1>5, <2>1, <2>2, <2>3 DEF Ranked
  <2>. QED
    BY <2>4, RankedFunction
<1>7. \E f : f = Body(f)
  <2>. HIDE DEF Step, V, Body
  <2>. QED
    BY <1>5, <1>6
<1>8. Lineage = CHOOSE f : f = Body(f)
  BY DEF Lineage, Elder
<1>9. Lineage = Body(Lineage)
  <2>. HIDE DEF Body
  <2>. QED
    BY <1>7, <1>8
<1>10. \A s \in Struct : Lineage[s] = Of(Lineage, s)
  <2>. HIDE DEF Of
  <2>. QED
    BY <1>9
<1>11. \A s \in Struct : Lineage[s] \in V
  <2>. DEFINE P == {s \in Struct : Lineage[s] \in V}
  <2>1. ASSUME NEW s \in Struct, \A p \in Struct : rank[p] < rank[s] => p \in P
        PROVE  s \in P
    <3>1. Parent(s) # {} => Lineage[Elder(s)] \in V
      BY <1>2, <2>1
    <3>2. Of(Lineage, s) \in V
      <4>. HIDE DEF Of, V
      <4>. QED
        BY <1>3, <3>1
    <3>. HIDE DEF Of, V
    <3>. QED
      BY <1>10, <3>2
  <2>2. Cardinality(Struct) \in Nat /\ rank \in [Struct -> 0..Cardinality(Struct)]
    BY <1>1 DEF IsRank
  <2>3. Struct \subseteq P
    <3>. HIDE DEF P
    <3>. QED
      BY <2>1, <2>2, RankInduction
  <2>. QED
    BY <2>3
<1>12. Lineage \in [Struct -> V]
  <2>. HIDE DEF Of, V
  <2>. QED
    BY <1>9, <1>11
<1>. QED
  BY <1>10, <1>12 DEF Elder

(* The ancestors of a struct start where it does.                          *)
LEMMA AncestorPart ==
  ASSUME NEW s \in Struct
  PROVE  /\ Lineage[s] \in Seq(Struct) /\ s \in Range(Lineage[s]) /\ Range(Lineage[s]) \subseteq Struct
         /\ Above(s) \subseteq Range(Lineage[s])
         /\ \A d \in Range(Lineage[s]) : <<0, T(0, d)>> \in Parts[s]
<1>1. PICK rank : IsRank(rank)
  BY RankExists
<1>2. \A q \in Struct : Lineage[q] \in Seq(Struct)
  BY LineageEquation
<1>. DEFINE P == {q \in Struct : /\ Len(Lineage[q]) \in Nat \ {0} /\ Lineage[q][1] = q
                                 /\ \A i \in 1..Len(Lineage[q]) : <<0, T(0, Lineage[q][i])>> \in Parts[q]}
<1>3. ASSUME NEW q \in Struct, \A p \in Struct : rank[p] < rank[q] => p \in P
      PROVE  q \in P
  <2>1. <<0, T(0, q)>> \in Parts[q]
    BY PartCases
  <2>2. CASE Parent(q) = {}
    <3>1. Lineage[q] = <<q>>
      BY <2>2, LineageEquation
    <3>2. Len(<<q>>) = 1 /\ <<q>>[1] = q /\ \A i \in 1..1 : <<q>>[i] = q
      OBVIOUS
    <3>. QED
      BY <2>1, <3>1, <3>2
  <2>3. CASE Parent(q) # {}
    <3>1. PICK p : p = CHOOSE x \in Parent(q) : TRUE
      OBVIOUS
    <3>2. /\ p \in Struct /\ 1 \in DOMAIN Fields[q] /\ Fields[q][1].ty = T(0, p)
          /\ Fields[q][1].ty.refs = 0 /\ Fields[q][1].ty.ty = p
      BY <2>3, <3>1, ParentFacts
    <3>3. p \in P
      BY <1>1, <1>3, <3>2 DEF IsRank
    <3>4. IsConcat(Lineage[q], <<q>>, Lineage[p])
      BY <2>3, <3>1, LineageEquation DEF IsConcat
    <3>5. <<q>> \in Seq(Struct) /\ Len(<<q>>) = 1 /\ <<q>>[1] = q /\ Lineage[p] \in Seq(Struct)
      BY <1>2, <3>2
    <3>6. PICK n \in Nat : n = Len(Lineage[p])
      BY <3>5
    <3>7. /\ Len(Lineage[q]) = 1 + n /\ Lineage[q][1] = q
          /\ \A j \in 1 + 1..1 + n : Lineage[q][j] = Lineage[p][j - 1]
      <4>1. /\ Len(Lineage[q]) = Len(<<q>>) + Len(Lineage[p])
            /\ \A j \in 1..Len(<<q>>) : Lineage[q][j] = <<q>>[j]
            /\ \A j \in Len(<<q>>) + 1..Len(<<q>>) + Len(Lineage[p]) :
               Lineage[q][j] = Lineage[p][j - Len(<<q>>)]
        <5>1. PICK u, v, w : /\ u \in Seq(Struct) /\ v \in Seq(Struct) /\ IsConcat(w, u, v)
                             /\ u = <<q>> /\ v = Lineage[p] /\ w = Lineage[q]
          BY <3>4, <3>5
        <5>2. u \in Seq(Struct) /\ v \in Seq(Struct) /\ IsConcat(w, u, v)
          BY <5>1
        <5>3. /\ Len(w) = Len(u) + Len(v) /\ \A j \in 1..Len(u) : w[j] = u[j]
              /\ \A j \in Len(u) + 1..Len(u) + Len(v) : w[j] = v[j - Len(u)]
          BY ONLY <5>2, ConcatAt
        <5>. QED
          BY <5>1, <5>3
      <4>. QED
        BY <3>5, <3>6, <4>1
    <3>8. OffsetOf(q, 1) = 0
      <4>1. [j \in 1..(1 - 1) |-> Fields[q][j].ty] = << >>
        OBVIOUS
      <4>. QED
        BY <4>1, AllSlotsOne DEF OffsetOf
    <3>9. ASSUME NEW t, <<0, t>> \in Parts[p]
          PROVE  <<0, t>> \in Parts[q]
      <4>1. <<0, t>> \in PartsOf(Fields[q][1].ty)
        BY <3>2, <3>9 DEF PartsOf
      <4>2. 0 = 0 + OffsetOf(q, 1)
        BY <3>8
      <4>. QED
        BY <3>2, <4>1, <4>2, PartCases
    <3>10. ASSUME NEW i \in 1..1 + n
           PROVE  <<0, T(0, Lineage[q][i])>> \in Parts[q]
      <4>1. CASE i = 1
        BY <2>1, <3>7, <4>1
      <4>2. CASE i # 1
        <5>1. i - 1 \in 1..n /\ i \in 1 + 1..1 + n
          BY <4>2
        <5>2. <<0, T(0, Lineage[p][i - 1])>> \in Parts[p]
          BY <3>3, <3>6, <5>1
        <5>. QED
          BY <3>7, <3>9, <5>1, <5>2
      <4>. QED
        BY <4>1, <4>2
    <3>. QED
      BY <3>7, <3>10
  <2>. QED
    BY <2>2, <2>3
<1>4. Struct \subseteq P
  <2>1. Cardinality(Struct) \in Nat /\ rank \in [Struct -> 0..Cardinality(Struct)]
    BY <1>1 DEF IsRank
  <2>. HIDE DEF P
  <2>. QED
    BY <1>3, <2>1, RankInduction
<1>5. PICK l \in Seq(Struct) : l = Lineage[s]
  BY <1>2
<1>6. PICK n \in Nat : n = Len(l) /\ n > 0 /\ l[1] = s /\ \A i \in 1..n : <<0, T(0, l[i])>> \in Parts[s]
  <2>1. s \in P
    <3>. HIDE DEF P
    <3>. QED
      BY <1>4
  <2>2. Len(l) \in Nat \ {0} /\ l[1] = s /\ \A i \in 1..Len(l) : <<0, T(0, l[i])>> \in Parts[s]
    BY <1>5, <2>1
  <2>. QED
    BY <2>2
<1>7. DOMAIN l = 1..n /\ 1 \in 1..n /\ \A i \in 1..n : l[i] \in Struct
  BY <1>5, <1>6
<1>8. Range(l) = {l[i] : i \in 1..n}
  BY <1>7 DEF Range
<1>9. Range(Tail(l)) \subseteq Range(l)
  <2>1. DOMAIN Tail(l) = 1..n - 1 /\ \A i \in 1..n - 1 : Tail(l)[i] = l[i + 1] /\ i + 1 \in 1..n
    <3>1. l # << >>
      BY <1>6
    <3>. QED
      BY <1>6, <3>1
  <2>2. Range(Tail(l)) = {Tail(l)[i] : i \in 1..n - 1}
    BY <2>1 DEF Range
  <2>. QED
    BY <1>8, <2>1, <2>2
<1>10. Above(s) = Range(Tail(l))
  BY <1>5 DEF Above
<1>11. s \in Range(l) /\ Range(l) \subseteq Struct /\ \A d \in Range(l) : <<0, T(0, d)>> \in Parts[s]
  BY <1>6, <1>7, <1>8
<1>. QED
  BY <1>5, <1>9, <1>10, <1>11

(* TyDict_find.                                                            *)
LEMMA FindFacts ==
  ASSUME NEW s \in Struct, NEW having, Finds(s, having)
  PROVE  TyDict_find(s, having) \in having \intersect Range(Lineage[s])
<1>1. PICK l \in Seq(Struct) : l = Lineage[s]
  BY AncestorPart
<1>. DEFINE at == {i \in DOMAIN l : l[i] \in having}
<1>2. at # {} /\ at \subseteq Nat
  BY <1>1 DEF Finds
<1>3. PICK x \in at : \A y \in at : x <= y
  <2>. HIDE DEF at
  <2>. QED
    BY <1>2, LeastOf
<1>4. Min(at) \in at
  BY <1>3 DEF Min
<1>5. TyDict_find(s, having) = l[Min(at)]
  BY <1>1 DEF TyDict_find
<1>. QED
  BY <1>1, <1>4, <1>5 DEF Range

-----------------------------------------------------------------------------
(* What is in a slot, whatever memory holds.                               *)

Word == {num} \union {ref(g, n) : g \in DOMAIN Global, n \in Nat} \union {methsOf(s) : s \in Struct}

LEMMA WordFacts ==
  /\ \A g, n : IsRef(ref(g, n)) /\ ref(g, n)[2] = g /\ ref(g, n)[3] = n
  /\ ~IsRef(num) /\ \A s : ~IsRef(methsOf(s)) /\ methsOf(s)[1] = "impl" /\ methsOf(s)[2] = s
  /\ num \in Word /\ \A s \in Struct : methsOf(s) \in Word
  /\ \A g \in DOMAIN Global : \A n \in Nat : ref(g, n) \in Word
BY DEF IsRef, ref, num, methsOf, Word

(* A reference into one of the globals D.                                  *)
RefOk(v, D) == \E g \in D : \E n \in Nat : v = ref(g, n)

(* What is in a slot of the type t: behind two references there is exactly *)
(* what the type says.                                                     *)
SlotOk(v, t, D) ==
  /\ t.refs = 0 => v = num
  /\ t.refs > 0 => RefOk(v, D)
  /\ t.refs = 1 => RefFits(v, t) /\ (t.ty \in Native => v[3] < Size(Global[v[2]]))
  /\ t.refs = 2 => v[3] < Size(Global[v[2]]) /\ SlotAt(v) = T(1, t.ty)

(* The data of a role and its methods, which are those of an open impl.    *)
RoleOk(d, m, D, O) == \E s \in O : m = methsOf(s) /\ SlotOk(d, T(1, s), D)

SlotsOk(x, of, D, O) ==
  /\ x \in Seq(Word) /\ Len(x) = Len(of)
  /\ \A i \in 1..Len(of) :
       /\ of[i] # T(0, Role) => SlotOk(x[i], of[i], D)
       /\ of[i] = T(0, Role) => i > 1 /\ RoleOk(x[i - 1], x[i], D, O)

AllOk(x, ts, D, O) == SlotsOk(x, AllSlots(ts), D, O)

LEMMA RefOkFacts ==
  ASSUME NEW v, NEW D, D \subseteq DOMAIN Global, RefOk(v, D)
  PROVE  IsRef(v) /\ v[2] \in D /\ v[3] \in Nat /\ v = ref(v[2], v[3]) /\ v \in Word
BY WordFacts DEF RefOk

(* More globals and more impls do no harm.                                 *)
LEMMA MoreOk ==
  ASSUME NEW D, NEW O, NEW D2, NEW O2, D \subseteq D2, O \subseteq O2
  PROVE  /\ \A v, t : SlotOk(v, t, D) => SlotOk(v, t, D2)
         /\ \A x, of : SlotsOk(x, of, D, O) => SlotsOk(x, of, D2, O2)
         /\ \A x, ts : AllOk(x, ts, D, O) => AllOk(x, ts, D2, O2)
<1>1. \A v : RefOk(v, D) => RefOk(v, D2)
  BY DEF RefOk
<1>2. \A v, t : SlotOk(v, t, D) => SlotOk(v, t, D2)
  BY <1>1 DEF SlotOk
<1>3. \A d, m : RoleOk(d, m, D, O) => RoleOk(d, m, D2, O2)
  BY <1>2 DEF RoleOk
<1>4. \A x, of : SlotsOk(x, of, D, O) => SlotsOk(x, of, D2, O2)
  BY <1>2, <1>3 DEF SlotsOk
<1>. QED
  BY <1>2, <1>4 DEF AllOk

(* The methods of a role are never in the first slot.                      *)
BehindData(of) == \A i \in 1..Len(of) : of[i] = T(0, Role) => i > 1

LEMMA SlotTypeFacts ==
  ASSUME NEW t \in SlotType
  PROVE  t \in Type /\ t # T(0, Role) /\ t # rSelf /\ SlotsOf(t) = <<t>>
<1>1. t \in Type /\ t.ty # "Self" /\ (t.refs > 0 \/ t.ty \in Native)
  BY DEF SlotType
<1>2. t # T(0, Role) /\ t # rSelf
  BY <1>1, NamesAssumption, TFacts DEF rSelf
<1>. QED
  BY <1>1, <1>2, SlotsOfFacts

(* Data stands in front of the methods of a role only.                     *)
LEMMA OneBehindData ==
  ASSUME NEW t \in Type
  PROVE  BehindData(SlotsOf(t))
<1>1. t.ty \in Struct \union Native \union {Role, "Self"} /\ t.refs \in 0..2
  BY DEF Type
<1>2. CASE t.refs = 0 /\ t.ty \in Struct
  <2>1. SlotsOf(t) \in Seq(SlotType)
    BY <1>2, SlotsOfFacts
  <2>. QED
    BY <2>1, SlotTypeFacts DEF BehindData
<1>3. CASE t.refs > 0 \/ t.ty \in Native \union {"Self"}
  <2>1. SlotsOf(t) = <<t>> /\ Len(<<t>>) = 1 /\ <<t>>[1] = t
    BY <1>3, SlotsOfFacts
  <2>2. t # T(0, Role)
    BY <1>3, NamesAssumption, TFacts
  <2>. QED
    BY <2>1, <2>2 DEF BehindData
<1>4. CASE t = T(0, Role)
  <2>1. SlotsOf(t) = <<rSelf, t>> /\ Len(<<rSelf, t>>) = 2 /\ <<rSelf, t>>[1] = rSelf
    BY <1>4, SlotsOfFacts
  <2>2. rSelf # T(0, Role)
    BY TFacts DEF rSelf
  <2>. QED
    BY <2>1, <2>2 DEF BehindData
<1>5. t.refs = 0 /\ t.ty = Role => t = T(0, Role)
  BY TFacts
<1>. QED
  BY <1>1, <1>2, <1>3, <1>4, <1>5

LEMMA AllBehindData ==
  ASSUME NEW ts \in Seq(Type)
  PROVE  BehindData(AllSlots(ts))
<1>. DEFINE P == {x \in Seq(Type) : BehindData(AllSlots(x))}
<1>1. << >> \in P
  BY AllSlotsOne DEF BehindData
<1>2. ASSUME NEW x \in Seq(Type), NEW t \in Type, x \in P
      PROVE  Append(x, t) \in P
  <2>1. PICK u, v, w : /\ u \in Seq(Type) /\ v \in Seq(Type) /\ IsConcat(w, u, v)
                       /\ u = AllSlots(x) /\ v = SlotsOf(t) /\ w = AllSlots(Append(x, t))
    BY AllSlotsAppend, SlotsOfFacts
  <2>2. u \in Seq(Type) /\ v \in Seq(Type) /\ IsConcat(w, u, v)
    BY <2>1
  <2>3. /\ Len(u) \in Nat /\ Len(v) \in Nat /\ Len(w) = Len(u) + Len(v)
        /\ \A j \in 1..Len(u) : w[j] = u[j]
        /\ \A j \in Len(u) + 1..Len(u) + Len(v) : w[j] = v[j - Len(u)]
    BY ONLY <2>2, ConcatAt
  <2>4. BehindData(u) /\ BehindData(v)
    BY <1>2, <2>1, OneBehindData
  <2>5. ASSUME NEW i \in 1..Len(w), w[i] = T(0, Role)
        PROVE  i > 1
    <3>1. CASE i <= Len(u)
      <4>1. i \in 1..Len(u)
        BY <2>3, <3>1
      <4>. QED
        BY <2>3, <2>4, <2>5, <4>1 DEF BehindData
    <3>2. CASE ~(i <= Len(u))
      <4>1. i \in Len(u) + 1..Len(u) + Len(v) /\ i - Len(u) \in 1..Len(v)
        BY <2>3, <3>2
      <4>2. i - Len(u) > 1
        BY <2>3, <2>4, <2>5, <4>1 DEF BehindData
      <4>. QED
        BY <2>3, <4>1, <4>2
    <3>. QED
      BY <3>1, <3>2
  <2>6. BehindData(w)
    BY <2>5 DEF BehindData
  <2>7. Append(x, t) \in Seq(Type)
    OBVIOUS
  <2>. QED
    BY <2>1, <2>6, <2>7
<1>3. Seq(Type) \subseteq P
  <2>. HIDE DEF P
  <2>. QED
    BY <1>1, <1>2, SeqInduction
<1>. QED
  BY <1>3

(* Values one behind the other fit when each of them does.                 *)
LEMMA SlotsOkConcat ==
  ASSUME NEW D, NEW O, NEW a \in Seq(Type), NEW b \in Seq(Type), NEW c, IsConcat(c, a, b),
         BehindData(b),
         NEW y \in Seq(Word), NEW z \in Seq(Word), NEW x, IsConcat(x, y, z), Len(y) = Len(a)
  PROVE  SlotsOk(x, c, D, O) <=> SlotsOk(y, a, D, O) /\ SlotsOk(z, b, D, O)
<1>1. /\ Len(a) \in Nat /\ Len(b) \in Nat /\ Len(c) = Len(a) + Len(b)
      /\ \A j \in 1..Len(a) : c[j] = a[j]
      /\ \A j \in 1..Len(b) : c[Len(a) + j] = b[j]
      /\ \A j \in Len(a) + 1..Len(a) + Len(b) : c[j] = b[j - Len(a)]
  BY ConcatAt
<1>2. /\ x \in Seq(Word) /\ Len(z) \in Nat /\ Len(x) = Len(a) + Len(z)
      /\ \A j \in 1..Len(a) : x[j] = y[j]
      /\ \A j \in 1..Len(z) : x[Len(a) + j] = z[j]
  <2>1. /\ x \in Seq(Word) /\ Len(y) \in Nat /\ Len(z) \in Nat /\ Len(x) = Len(y) + Len(z)
        /\ \A j \in 1..Len(y) : x[j] = y[j]
        /\ \A j \in 1..Len(z) : x[Len(y) + j] = z[j]
    BY ConcatAt
  <2>. QED
    BY <2>1
<1>. DEFINE At1(s, of, i) == /\ of[i] # T(0, Role) => SlotOk(s[i], of[i], D)
                             /\ of[i] = T(0, Role) => i > 1 /\ RoleOk(s[i - 1], s[i], D, O)
<1>3. Len(z) = Len(b) => \A i \in 1..Len(a) : At1(x, c, i) <=> At1(y, a, i)
  <2>1. ASSUME Len(z) = Len(b), NEW i \in 1..Len(a)
        PROVE  At1(x, c, i) <=> At1(y, a, i)
    <3>1. c[i] = a[i] /\ x[i] = y[i]
      BY <1>1, <1>2
    <3>2. i > 1 => x[i - 1] = y[i - 1]
      <4>1. i > 1 => i - 1 \in 1..Len(a)
        BY <1>1
      <4>. QED
        BY <1>2, <4>1
    <3>. QED
      BY <3>1, <3>2
  <2>. QED
    BY <2>1
<1>4. Len(z) = Len(b) => \A i \in 1..Len(b) : At1(x, c, Len(a) + i) <=> At1(z, b, i)
  <2>1. ASSUME Len(z) = Len(b), NEW i \in 1..Len(b)
        PROVE  At1(x, c, Len(a) + i) <=> At1(z, b, i)
    <3>1. c[Len(a) + i] = b[i] /\ x[Len(a) + i] = z[i]
      BY <1>1, <1>2, <2>1
    <3>2. i > 1 => x[(Len(a) + i) - 1] = z[i - 1]
      <4>1. i > 1 => i - 1 \in 1..Len(z) /\ (Len(a) + i) - 1 = Len(a) + (i - 1)
        BY <1>1, <2>1
      <4>. QED
        BY <1>2, <4>1
    <3>3. b[i] = T(0, Role) => i > 1 /\ Len(a) + i > 1
      BY <1>1 DEF BehindData
    <3>. QED
      BY <3>1, <3>2, <3>3
  <2>. QED
    BY <2>1
<1>5. SlotsOk(x, c, D, O) <=> Len(z) = Len(b) /\ \A i \in 1..Len(a) + Len(b) : At1(x, c, i)
  <2>1. Len(x) = Len(c) <=> Len(z) = Len(b)
    <3>1. /\ Len(a) \in Nat /\ Len(b) \in Nat /\ Len(z) \in Nat
          /\ Len(c) = Len(a) + Len(b) /\ Len(x) = Len(a) + Len(z)
      BY <1>1, <1>2
    <3>. QED
      BY ONLY <3>1
  <2>. QED
    BY <1>1, <1>2, <2>1 DEF SlotsOk
<1>6. SlotsOk(y, a, D, O) <=> \A i \in 1..Len(a) : At1(y, a, i)
  BY DEF SlotsOk
<1>7. SlotsOk(z, b, D, O) <=> Len(z) = Len(b) /\ \A i \in 1..Len(b) : At1(z, b, i)
  BY DEF SlotsOk
<1>. HIDE DEF At1
<1>8. (\A i \in 1..Len(a) + Len(b) : At1(x, c, i)) <=>
        (\A i \in 1..Len(a) : At1(x, c, i)) /\ (\A i \in 1..Len(b) : At1(x, c, Len(a) + i))
  <2>1. \A i \in 1..Len(a) : i \in 1..Len(a) + Len(b)
    BY <1>1
  <2>2. \A i \in 1..Len(b) : Len(a) + i \in 1..Len(a) + Len(b)
    BY <1>1
  <2>3. ASSUME NEW i \in 1..Len(a) + Len(b), ~(i \in 1..Len(a))
        PROVE  i - Len(a) \in 1..Len(b) /\ Len(a) + (i - Len(a)) = i
    BY <1>1, <2>3
  <2>. QED
    BY <2>1, <2>2, <2>3
<1>. QED
  BY <1>3, <1>4, <1>5, <1>6, <1>7, <1>8

LEMMA AllOkConcat ==
  ASSUME NEW D, NEW O, NEW a \in Seq(Type), NEW b \in Seq(Type), NEW c, IsConcat(c, a, b),
         NEW y \in Seq(Word), NEW z \in Seq(Word), NEW x, IsConcat(x, y, z), Len(y) = SizeOf(a)
  PROVE  AllOk(x, c, D, O) <=> AllOk(y, a, D, O) /\ AllOk(z, b, D, O)
<1>1. /\ AllSlots(a) \in Seq(Type) /\ AllSlots(b) \in Seq(Type) /\ Len(y) = Len(AllSlots(a))
      /\ IsConcat(AllSlots(c), AllSlots(a), AllSlots(b)) /\ BehindData(AllSlots(b))
  BY AllSlotsFacts, AllSlotsConcat, AllBehindData
<1>. QED
  BY <1>1, SlotsOkConcat DEF AllOk

-----------------------------------------------------------------------------
(* Conversions.                                                            *)

KeepsRules == Rules = RuleNames

(* What the slot b holds can be taken for what the slot a says.            *)
SubSlot(a, b) ==
  \/ a = b
  \/ a.refs = 0 /\ b.refs = 0 /\ a.ty \in Native /\ b.ty \in Native
  \/ a.refs = 1 /\ b.refs = 1 /\ b.ty \in Struct /\ a.ty \in Range(Lineage[b.ty])

LEMMA GlobalFacts ==
  /\ \A g \in DOMAIN Global : Global[g] \in Named /\ Global[g] \in Type /\ Global[g].ty # "Self"
BY TypeAssumption DEF Named

(* A slot keeps what can be taken for more.                                *)
LEMMA SubSlotOk ==
  ASSUME NEW a \in Type, NEW b \in Type, NEW D, D \subseteq DOMAIN Global, SubSlot(a, b)
  PROVE  /\ \A v : SlotOk(v, b, D) => SlotOk(v, a, D)
         /\ a = T(0, Role) <=> b = T(0, Role)
<1>1. CASE a = b
  BY <1>1
<1>2. CASE a.refs = 0 /\ b.refs = 0 /\ a.ty \in Native /\ b.ty \in Native
  <2>1. a # T(0, Role) /\ b # T(0, Role)
    BY <1>2, NamesAssumption, TFacts
  <2>. QED
    BY <1>2, <2>1 DEF SlotOk
<1>3. CASE a.refs = 1 /\ b.refs = 1 /\ b.ty \in Struct /\ a.ty \in Range(Lineage[b.ty])
  <2>1. a # T(0, Role) /\ b # T(0, Role)
    BY <1>3, TFacts
  <2>2. a.ty \in Struct /\ <<0, T(0, a.ty)>> \in Parts[b.ty]
    BY <1>3, AncestorPart
  <2>3. a.ty # "Self" /\ a.ty \notin Native /\ b.ty # "Self" /\ b.ty \notin Native
    BY <1>3, <2>2, NamesAssumption
  <2>4. ASSUME NEW v, SlotOk(v, b, D)
        PROVE  SlotOk(v, a, D)
    <3>1. RefOk(v, D) /\ RefFits(v, b)
      BY <1>3, <2>4 DEF SlotOk
    <3>2. IsRef(v) /\ v[2] \in D /\ v[3] \in Nat
      BY <3>1, RefOkFacts
    <3>3. <<v[3], T(0, b.ty)>> \in PartsOf(Global[v[2]])
      BY <2>3, <3>1 DEF RefFits
    <3>4. Global[v[2]] \in Type
      BY <3>2, GlobalFacts
    <3>5. <<v[3] + 0, T(0, a.ty)>> \in PartsOf(Global[v[2]])
      BY <1>3, <2>2, <3>2, <3>3, <3>4, PartsTransitive
    <3>6. v[3] + 0 = v[3]
      BY <3>2
    <3>7. RefFits(v, a)
      BY <2>3, <3>2, <3>5, <3>6 DEF RefFits
    <3>. QED
      BY <1>3, <2>3, <3>1, <3>7 DEF SlotOk
  <2>. QED
    BY <2>1, <2>4
<1>. QED
  BY <1>1, <1>2, <1>3 DEF SubSlot

Like(p, q)  == Len(p) = Len(q) /\ \A i \in 1..Len(p) : SubSlot(p[i], q[i])
SubTy(r, g) == r = g \/ (SlotsOf(r) = <<r>> /\ SlotsOf(g) = <<g>> /\ SubSlot(r, g))

LEMMA OneLike ==
  ASSUME NEW r \in Type, NEW g \in Type, SubTy(r, g)
  PROVE  Like(SlotsOf(r), SlotsOf(g))
<1>1. CASE r = g
  BY <1>1 DEF Like, SubSlot
<1>2. CASE SlotsOf(r) = <<r>> /\ SlotsOf(g) = <<g>> /\ SubSlot(r, g)
  <2>1. Len(<<r>>) = 1 /\ Len(<<g>>) = 1 /\ <<r>>[1] = r /\ <<g>>[1] = g /\ \A i \in 1..1 : i = 1
    OBVIOUS
  <2>. QED
    BY <1>2, <2>1 DEF Like
<1>. QED
  BY <1>1, <1>2 DEF SubTy

LEMMA LikeConcat ==
  ASSUME NEW u \in Seq(Type), NEW v \in Seq(Type), NEW w, IsConcat(w, u, v),
         NEW x \in Seq(Type), NEW y \in Seq(Type), NEW z, IsConcat(z, x, y),
         Like(u, x), Like(v, y)
  PROVE  Like(w, z)
<1>1. /\ Len(u) \in Nat /\ Len(v) \in Nat /\ Len(w) = Len(u) + Len(v)
      /\ \A j \in 1..Len(u) : w[j] = u[j]
      /\ \A j \in Len(u) + 1..Len(u) + Len(v) : w[j] = v[j - Len(u)]
  BY ConcatAt
<1>2. /\ Len(z) = Len(x) + Len(y)
      /\ \A j \in 1..Len(x) : z[j] = x[j]
      /\ \A j \in Len(x) + 1..Len(x) + Len(y) : z[j] = y[j - Len(x)]
  BY ConcatAt
<1>3. Len(u) = Len(x) /\ Len(v) = Len(y)
  BY DEF Like
<1>4. ASSUME NEW i \in 1..Len(w)
      PROVE  SubSlot(w[i], z[i])
  <2>1. CASE i <= Len(u)
    <3>1. i \in 1..Len(u)
      BY <1>1, <2>1
    <3>. QED
      BY <1>1, <1>2, <1>3, <3>1 DEF Like
  <2>2. CASE ~(i <= Len(u))
    <3>1. i \in Len(u) + 1..Len(u) + Len(v) /\ i - Len(u) \in 1..Len(v)
      BY <1>1, <2>2
    <3>. QED
      BY <1>1, <1>2, <1>3, <3>1 DEF Like
  <2>. QED
    BY <2>1, <2>2
<1>5. Len(w) = Len(z)
  BY <1>1, <1>2, <1>3
<1>. QED
  BY <1>4, <1>5 DEF Like

LEMMA AppendFacts ==
  ASSUME NEW S, NEW s \in Seq(S), NEW e \in S, NEW q, q = Append(s, e)
  PROVE  /\ q \in Seq(S) /\ Len(s) \in Nat /\ Len(q) = Len(s) + 1
         /\ q[Len(s) + 1] = e /\ \A i \in 1..Len(s) : q[i] = s[i]
OBVIOUS

(* Values of types that can be taken for others have slots like theirs.    *)
LEMMA AllLike ==
  ASSUME NEW rs \in Seq(Type), NEW gs \in Seq(Type), Len(rs) = Len(gs),
         \A i \in 1..Len(rs) : SubTy(rs[i], gs[i])
  PROVE  Like(AllSlots(rs), AllSlots(gs))
<1>. DEFINE Sub(p, q) == Len(p) = Len(q) /\ \A i \in 1..Len(p) : SubTy(p[i], q[i])
            P == {p \in Seq(Type) : \A q \in Seq(Type) : Sub(p, q) => Like(AllSlots(p), AllSlots(q))}
<1>1. << >> \in P
  <2>1. ASSUME NEW q \in Seq(Type), Sub(<< >>, q)
        PROVE  Like(AllSlots(<< >>), AllSlots(q))
    <3>1. q = << >>
      BY <2>1, EmptySeq
    <3>2. Like(<< >>, << >>)
      BY DEF Like
    <3>. QED
      BY <3>1, <3>2, AllSlotsOne
  <2>. HIDE DEF Sub
  <2>2. << >> \in Seq(Type)
    OBVIOUS
  <2>. QED
    BY <2>1, <2>2
<1>2. ASSUME NEW p \in Seq(Type), NEW t \in Type, p \in P
      PROVE  Append(p, t) \in P
  <2>1. ASSUME NEW q \in Seq(Type), Sub(Append(p, t), q)
        PROVE  Like(AllSlots(Append(p, t)), AllSlots(q))
    <3>1. PICK n \in Nat : n = Len(p)
      OBVIOUS
    <3>2. /\ Len(Append(p, t)) = n + 1 /\ Append(p, t)[n + 1] = t
          /\ \A i \in 1..n : Append(p, t)[i] = p[i] /\ i \in 1..n + 1
      BY <3>1
    <3>3. PICK r, e : r \in Seq(Type) /\ e \in Type /\ q = Append(r, e)
      <4>1. Len(q) = n + 1 /\ Len(<< >>) = 0
        BY <2>1, <3>2
      <4>2. q # << >>
        BY <3>1, <4>1
      <4>. QED
        BY <4>2, SequenceEmptyOrAppend
    <3>4. Len(r) = n
      <4>1. Len(q) = n + 1
        BY <2>1, <3>2
      <4>2. Len(q) = Len(r) + 1 /\ Len(r) \in Nat
        BY ONLY <3>3, AppendFacts
      <4>. QED
        BY ONLY <4>1, <4>2, <3>1
    <3>5. q[n + 1] = e /\ \A i \in 1..n : q[i] = r[i]
      <4>1. q[Len(r) + 1] = e /\ \A i \in 1..Len(r) : q[i] = r[i]
        BY ONLY <3>3, AppendFacts
      <4>. QED
        BY <3>4, <4>1
    <3>6. Sub(p, r) /\ SubTy(t, e)
      <4>1. \A i \in 1..n : SubTy(p[i], r[i])
        BY <2>1, <3>2, <3>5
      <4>2. n + 1 \in 1..n + 1
        OBVIOUS
      <4>3. SubTy(t, e)
        BY <2>1, <3>2, <3>5, <4>2
      <4>. QED
        BY <3>1, <3>4, <4>1, <4>3
    <3>7. Like(AllSlots(p), AllSlots(r)) /\ Like(SlotsOf(t), SlotsOf(e))
      <4>. HIDE DEF Sub
      <4>. QED
        BY <1>2, <3>3, <3>6, OneLike
    <3>8. PICK u, v, w : /\ u \in Seq(Type) /\ v \in Seq(Type) /\ IsConcat(w, u, v)
                         /\ u = AllSlots(p) /\ v = SlotsOf(t) /\ w = AllSlots(Append(p, t))
      BY AllSlotsAppend, SlotsOfFacts
    <3>9. PICK x, y, z : /\ x \in Seq(Type) /\ y \in Seq(Type) /\ IsConcat(z, x, y)
                         /\ x = AllSlots(r) /\ y = SlotsOf(e) /\ z = AllSlots(q)
      BY <3>3, AllSlotsAppend, SlotsOfFacts
    <3>10. /\ u \in Seq(Type) /\ v \in Seq(Type) /\ IsConcat(w, u, v) /\ Like(u, x) /\ Like(v, y)
           /\ x \in Seq(Type) /\ y \in Seq(Type) /\ IsConcat(z, x, y)
      BY <3>7, <3>8, <3>9
    <3>11. Like(w, z)
      BY ONLY <3>10, LikeConcat
    <3>. QED
      BY <3>8, <3>9, <3>11
  <2>2. Append(p, t) \in Seq(Type)
    OBVIOUS
  <2>. HIDE DEF Sub
  <2>. QED
    BY <2>1, <2>2
<1>3. Seq(Type) \subseteq P
  <2>. HIDE DEF P
  <2>. QED
    BY <1>1, <1>2, SeqInduction
<1>. QED
  BY <1>3

(* Values can be taken for what their types can.                           *)
LEMMA AllOkLike ==
  ASSUME NEW D, D \subseteq DOMAIN Global, NEW O, NEW x, NEW rs \in Seq(Type), NEW gs \in Seq(Type),
         AllOk(x, gs, D, O), Len(rs) = Len(gs), \A i \in 1..Len(rs) : SubTy(rs[i], gs[i])
  PROVE  AllOk(x, rs, D, O) /\ SizeOf(rs) = SizeOf(gs) /\ Len(x) = SizeOf(rs)
<1>1. PICK p \in Seq(Type), q \in Seq(Type) : p = AllSlots(rs) /\ q = AllSlots(gs)
  BY AllSlotsFacts
<1>2. Len(p) = Len(q) /\ \A i \in 1..Len(p) : SubSlot(p[i], q[i]) /\ p[i] \in Type /\ q[i] \in Type
  <2>1. Like(p, q)
    BY <1>1, AllLike
  <2>2. Len(p) = Len(q)
    BY <2>1 DEF Like
  <2>. QED
    BY <2>1, <2>2 DEF Like
<1>3. /\ x \in Seq(Word) /\ Len(x) = Len(q)
      /\ \A i \in 1..Len(q) :
           /\ q[i] # T(0, Role) => SlotOk(x[i], q[i], D)
           /\ q[i] = T(0, Role) => i > 1 /\ RoleOk(x[i - 1], x[i], D, O)
  BY <1>1 DEF AllOk, SlotsOk
<1>4. \A i \in 1..Len(p) :
        /\ p[i] # T(0, Role) => SlotOk(x[i], p[i], D)
        /\ p[i] = T(0, Role) => i > 1 /\ RoleOk(x[i - 1], x[i], D, O)
  BY <1>2, <1>3, SubSlotOk
<1>. QED
  BY <1>1, <1>2, <1>3, <1>4 DEF AllOk, SlotsOk, SizeOf

(* TyI_check, with what the rules leave, lets through only what can be     *)
(* taken for what is required.                                             *)
LEMMA RuledSub ==
  ASSUME KeepsRules, NEW r \in Type, NEW g \in Type, TyI_check(r, g), Ruled(r, g)
  PROVE  SubTy(r, g)
<1>1. /\ r.refs = 0 /\ r.ty \in Struct => r = g
      /\ r.refs > 1 => r = g
      /\ r.refs > 0 /\ r.ty \in Native => r = g
  BY DEF KeepsRules, Ruled, RuleNames
<1>2. r.refs = g.refs /\ r.refs \in 0..2
  BY TFacts DEF TyI_check
<1>3. CASE r.ty = g.ty
  BY <1>2, <1>3, TFacts DEF SubTy
<1>4. CASE r.ty = "U4" /\ g.ty \in Native
  <2>1. r.ty \in Native
    BY <1>4 DEF Native
  <2>2. SlotsOf(r) = <<r>> /\ SlotsOf(g) = <<g>>
    BY <1>4, <2>1, SlotsOfFacts
  <2>3. r.refs = 0 => SubSlot(r, g)
    BY <1>2, <1>4, <2>1 DEF SubSlot
  <2>. QED
    BY <1>1, <1>2, <2>1, <2>2, <2>3 DEF SubTy
<1>5. CASE r.ty \in Struct /\ g.ty \in Struct /\ r.ty \in Above(g.ty)
  <2>1. r.ty \in Range(Lineage[g.ty])
    BY <1>5, AncestorPart
  <2>2. r.refs = 1 => SlotsOf(r) = <<r>> /\ SlotsOf(g) = <<g>>
    <3>1. r.refs = 1 => r.refs > 0 /\ g.refs > 0
      BY <1>2
    <3>. QED
      BY <3>1, SlotsOfFacts
  <2>3. r.refs = 1 => SubSlot(r, g)
    BY <1>2, <1>5, <2>1 DEF SubSlot
  <2>. QED
    BY <1>1, <1>2, <1>5, <2>2, <2>3 DEF SubTy
<1>. QED
  BY <1>3, <1>4, <1>5 DEF TyI_check

(* What tyCheck has let through are values of the types that are required. *)
LEMMA CheckedOk ==
  ASSUME KeepsRules, NEW D, D \subseteq DOMAIN Global, NEW O, NEW x,
         NEW rs \in Seq(Type), NEW gs \in Seq(Type),
         AllOk(x, gs, D, O), CheckAll(rs, gs), \A i \in DOMAIN rs : Ruled(rs[i], gs[i])
  PROVE  AllOk(x, rs, D, O) /\ SizeOf(rs) = SizeOf(gs) /\ Len(x) = SizeOf(rs)
<1>1. /\ Len(rs) = Len(gs) /\ DOMAIN rs = 1..Len(rs)
      /\ \A i \in 1..Len(rs) : TyI_check(rs[i], gs[i]) /\ Ruled(rs[i], gs[i])
  BY DEF CheckAll
<1>2. \A i \in 1..Len(rs) : rs[i] \in Type /\ gs[i] \in Type
  BY <1>1
<1>3. \A i \in 1..Len(rs) : SubTy(rs[i], gs[i])
  BY <1>1, <1>2, RuledSub
<1>4. /\ D \subseteq DOMAIN Global /\ rs \in Seq(Type) /\ gs \in Seq(Type)
      /\ AllOk(x, gs, D, O) /\ Len(rs) = Len(gs) /\ \A i \in 1..Len(rs) : SubTy(rs[i], gs[i])
  BY <1>1, <1>3
<1>. QED
  BY ONLY <1>4, AllOkLike, SMTT(40)

-----------------------------------------------------------------------------
(* States.                                                                 *)

Has(m) == {g \in DOMAIN Global : m[g] # << >>}

MemOk(m, O) ==
  /\ m \in [DOMAIN Global -> Seq(Word)]
  /\ \A g \in Has(m) : AllOk(m[g], <<Global[g]>>, Has(m), O)

Frame ==
  [at : {"sr"}, ty : Type, types : Nat, slots : Nat]
    \union [at : {"meth"}, code : DOMAIN Method, self : Struct]
    \union [at : {"role"}, op : DOMAIN Op, var : DOMAIN Global, types : Nat, slots : Nat]
ImplFrame == [at : {"impl"}, struct : Struct, given : SUBSET DOMAIN Op]

(* Where the addresses of the frames k are on the working stack.           *)
Adr(k) == {k[i].slots : i \in {j \in 1..Len(k) : k[j].at = "sr"}}

(* What a frame counts on, in the stack w of the types ts: what was there  *)
(* when it began still is.                                                 *)
BaseOk(c, w, ts, at, D, O) ==
  /\ c.slots \in 1..Len(w) /\ c.types \in 0..Len(ts)
  /\ AllOk(Without(SubSeq(w, 1, c.slots), at), SubSeq(ts, 1, c.types), D, O)
StoreOk(c, w, D) ==
  /\ c.ty.ty # "Self" /\ c.ty.refs < 2 /\ (c.ty.refs = 0 => c.ty.ty \in Native \union Struct)
  /\ SlotOk(w[c.slots], T(c.ty.refs + 1, c.ty.ty), D)
CallOk(c, w, ts, m) ==
  /\ c.var \in Has(m) /\ Global[c.var].ty = Role /\ Global[c.var].refs < 2
  /\ rSelf \notin Range(Op[c.op].inp)
  /\ c.types > 0 /\ ts[c.types] = rSelf /\ w[c.slots] = RoleAt(m, c.var)[1]
FrameOk(c, w, ts, at, m, O) ==
  /\ c.at # "meth" => BaseOk(c, w, ts, at, Has(m), O)
  /\ c.at = "sr"   => StoreOk(c, w, Has(m))
  /\ c.at = "role" => CallOk(c, w, ts, m)
  /\ c.at = "meth" => c.code[1] \in Range(Lineage[c.self])

(* A frame begins above those that wait for it.                            *)
InOrder(k) ==
  \A i, j \in 1..Len(k) : i < j /\ k[i].at # "meth" /\ k[j].at # "meth" => k[i].slots < k[j].slots

StackOk(w, ts, k, m, O) ==
  /\ w \in Seq(Word) /\ ts \in Seq(InType) /\ k \in Seq(Frame)
  /\ AllOk(Without(w, Adr(k)), ts, Has(m), O)
  /\ \A i \in 1..Len(k) : FrameOk(k[i], w, ts, Adr(k), m, O)
  /\ InOrder(k)

(* What a method has to be for an op, of a role that has the data of s.    *)
AsSelf(t, s) == IF t.ty = "Self" THEN T(t.refs, s) ELSE t
ImplFor(s, op, code) ==
  /\ code \in DOMAIN Method /\ code[1] \in Range(Lineage[s])
  /\ Len(Op[op].inp) = Len(Method[code].inp) /\ Len(Op[op].out) = Len(Method[code].out)
  /\ \A i \in 1..Len(Op[op].inp) : AsSelf(Op[op].inp[i], s) = AsSelf(Method[code].inp[i], s)
  /\ \A i \in 1..Len(Op[op].out) : SubTy(AsSelf(Op[op].out[i], s), AsSelf(Method[code].out[i], s))

Waiting == IF ctl # << >> /\ ctl[1].at = "impl" THEN << >> ELSE ctl

ImplsOk ==
  /\ opened \subseteq Struct /\ DOMAIN impls \subseteq Struct \X DOMAIN Op
  /\ \A s \in Struct : \A op \in DOMAIN Op : <<s, op>> \in DOMAIN impls
     => ImplFor(s, op, impls[<<s, op>>])
OpenedOk ==
  phase = "run" => \A s \in opened : \A op \in DOMAIN Op :
    \/ <<s, op>> \in DOMAIN impls
    \/ ctl # << >> /\ ctl[1].at = "impl" /\ ctl[1].struct = s /\ op \notin ctl[1].given
CtlOk ==
  /\ ctl # << >> /\ ctl[1].at = "impl" => ctl \in [{1} -> ImplFrame] /\ Len(ctl) = 1 /\ tys = << >>
  /\ phase \in {"run", "left"} /\ (phase = "left" => ctl = << >>)

TypesInv ==
  /\ meths \subseteq DOMAIN Method /\ ImplsOk /\ OpenedOk /\ CtlOk
  /\ MemOk(mem, opened) /\ StackOk(ws, tys, Waiting, mem, opened) /\ faults = {}

-----------------------------------------------------------------------------
(* Memory.                                                                 *)

LEMMA OneOk ==
  ASSUME NEW t \in Type, NEW D, NEW O, NEW x
  PROVE  AllOk(x, <<t>>, D, O) <=> SlotsOk(x, SlotsOf(t), D, O)
BY AllSlotsOne DEF AllOk

LEMMA HasFacts ==
  ASSUME NEW m, NEW g \in Has(m)
  PROVE  /\ g \in DOMAIN Global /\ m[g] # << >> /\ Has(m) \subseteq DOMAIN Global
         /\ Global[g] \in Type /\ Global[g] \in Named /\ Global[g].ty # "Self"
BY GlobalFacts DEF Has

LEMMA MemFacts ==
  ASSUME NEW m, NEW O, MemOk(m, O), NEW g \in Has(m)
  PROVE  /\ m[g] \in Seq(Word) /\ Len(m[g]) = Size(Global[g]) /\ Size(Global[g]) \in Nat
         /\ \A i \in 1..Size(Global[g]) :
              /\ m[g][i] \in Word /\ SlotsOf(Global[g])[i] \in Type
              /\ SlotsOf(Global[g])[i] # T(0, Role) => SlotOk(m[g][i], SlotsOf(Global[g])[i], Has(m))
              /\ SlotsOf(Global[g])[i] = T(0, Role) => i > 1 /\ RoleOk(m[g][i - 1], m[g][i], Has(m), O)
<1>1. Global[g] \in Type
  BY HasFacts
<1>2. SlotsOk(m[g], SlotsOf(Global[g]), Has(m), O)
  BY <1>1, OneOk DEF MemOk
<1>3. /\ SlotsOf(Global[g]) \in Seq(Type) /\ Size(Global[g]) \in Nat
      /\ Len(SlotsOf(Global[g])) = Size(Global[g])
  BY <1>1, SlotsOfFacts
<1>4. m[g] \in Seq(Word) /\ Len(m[g]) = Size(Global[g])
  BY <1>2, <1>3 DEF SlotsOk
<1>5. \A i \in 1..Size(Global[g]) : m[g][i] \in Word /\ SlotsOf(Global[g])[i] \in Type
  BY <1>3, <1>4
<1>. QED
  BY <1>2, <1>3, <1>4, <1>5 DEF SlotsOk

(* A role in memory: data and the methods of an impl for it.               *)
LEMMA RoleMemFacts ==
  ASSUME NEW m, NEW O, MemOk(m, O), NEW g \in Has(m), Global[g] = T(0, Role)
  PROVE  /\ Len(m[g]) = 2 /\ m[g][1] \in Word /\ m[g][2] \in Word
         /\ SlotOk(m[g][1], rSelf, Has(m)) /\ RoleOk(m[g][1], m[g][2], Has(m), O)
<1>1. SlotsOf(Global[g]) = <<rSelf, T(0, Role)>> /\ Size(Global[g]) = 2
  BY HasFacts, SlotsOfFacts DEF Size
<1>2. <<rSelf, T(0, Role)>>[1] = rSelf /\ <<rSelf, T(0, Role)>>[2] = T(0, Role) /\ rSelf # T(0, Role)
  BY TFacts DEF rSelf
<1>3. /\ Len(m[g]) = 2
      /\ \A i \in 1..2 : 
              /\ m[g][i] \in Word
              /\ <<rSelf, T(0, Role)>>[i] # T(0, Role)
                 => SlotOk(m[g][i], <<rSelf, T(0, Role)>>[i], Has(m))
              /\ <<rSelf, T(0, Role)>>[i] = T(0, Role) => i > 1 /\ RoleOk(m[g][i - 1], m[g][i], Has(m), O)
  BY <1>1, MemFacts
<1>4. 1 \in 1..2 /\ 2 \in 1..2 /\ 2 - 1 = 1
  OBVIOUS
<1>. QED
  BY <1>2, <1>3, <1>4

(* The part of a global that a reference refers to.                        *)
LEMMA GlobalPart ==
  ASSUME NEW g \in DOMAIN Global, NEW n, NEW t, <<n, t>> \in PartsOf(Global[g])
  PROVE  /\ n \in Nat /\ t \in Type /\ t.ty # "Self"
         /\ Size(t) \in Nat /\ Size(Global[g]) \in Nat /\ n + Size(t) <= Size(Global[g])
         /\ \A k \in 1..Size(t) : SlotsOf(Global[g])[n + k] = SlotsOf(t)[k]
<1>1. Global[g] \in Type /\ Global[g].ty # "Self"
  BY GlobalFacts
<1>2. HasPart(Global[g], n, t)
  BY <1>1, PartSlots
<1>3. t \in Type
  BY <1>2 DEF HasPart
<1>. QED
  BY <1>1, <1>2, <1>3, SlotsOfFacts DEF HasPart

(* Only a role is a role.                                                  *)
LEMMA RolePart ==
  ASSUME NEW g \in DOMAIN Global, NEW n, <<n, T(0, Role)>> \in PartsOf(Global[g])
  PROVE  n = 0 /\ Global[g] = T(0, Role)
<1>1. n \in Nat /\ T(0, Role) \in Type
  BY GlobalPart
<1>2. SlotsOf(T(0, Role)) = <<rSelf, T(0, Role)>> /\ Size(T(0, Role)) = 2
  BY <1>1, SlotsOfFacts DEF Size
<1>3. SlotsOf(Global[g])[n + 2] = T(0, Role) /\ n + 2 <= Size(Global[g]) /\ Size(Global[g]) \in Nat
  <2>1. \A k \in 1..2 : SlotsOf(Global[g])[n + k] = <<rSelf, T(0, Role)>>[k]
    BY <1>2, GlobalPart
  <2>2. 2 \in 1..2 /\ <<rSelf, T(0, Role)>>[2] = T(0, Role)
    OBVIOUS
  <2>. QED
    BY <1>2, <2>1, <2>2, GlobalPart
<1>4. Global[g] \in Type
  BY GlobalFacts
<1>5. CASE Global[g].refs = 0 /\ Global[g].ty \in Struct
  <2>1. SlotsOf(Global[g]) \in Seq(SlotType) /\ Len(SlotsOf(Global[g])) = Size(Global[g])
    BY <1>4, <1>5, SlotsOfFacts
  <2>2. n + 2 \in 1..Size(Global[g])
    BY <1>1, <1>3
  <2>3. T(0, Role) \in SlotType
    BY <1>3, <2>1, <2>2
  <2>. QED
    BY <2>3, SlotTypeFacts
<1>6. CASE ~(Global[g].refs = 0 /\ Global[g].ty \in Struct)
  BY <1>4, <1>6, PartsOfCases
<1>. QED
  BY <1>5, <1>6

(* A role is nowhere but in a variable that is one.                        *)
LEMMA RoleSlot ==
  ASSUME NEW g \in DOMAIN Global, NEW j \in 1..Size(Global[g]), SlotsOf(Global[g])[j] = T(0, Role)
  PROVE  Global[g] = T(0, Role) /\ j = 2
<1>1. Global[g] \in Type /\ Global[g].ty # "Self"
  BY GlobalFacts
<1>2. /\ Len(SlotsOf(Global[g])) = Size(Global[g])
      /\ Global[g].refs > 0 \/ Global[g].ty \in Native \union {"Self"}
         => SlotsOf(Global[g]) = <<Global[g]>>
      /\ Global[g] = T(0, Role) => SlotsOf(Global[g]) = <<rSelf, Global[g]>>
      /\ Global[g].refs = 0 /\ Global[g].ty \in Struct => SlotsOf(Global[g]) \in Seq(SlotType)
  BY <1>1, SlotsOfFacts
<1>3. CASE Global[g].refs = 0 /\ Global[g].ty \in Struct
  <2>1. T(0, Role) \in SlotType
    BY <1>2, <1>3
  <2>. QED
    BY <2>1, SlotTypeFacts
<1>4. CASE Global[g] = T(0, Role)
  <2>1. Len(<<rSelf, Global[g]>>) = 2 /\ <<rSelf, Global[g]>>[1] = rSelf /\ rSelf # T(0, Role)
    BY TFacts DEF rSelf
  <2>2. j \in 1..2
    BY <1>2, <1>4, <2>1
  <2>. QED
    BY <1>2, <1>4, <2>1, <2>2
<1>5. CASE Global[g].refs > 0 \/ Global[g].ty \in Native
  <2>1. SlotsOf(Global[g]) = <<Global[g]>> /\ Len(<<Global[g]>>) = 1 /\ <<Global[g]>>[1] = Global[g]
    BY <1>2, <1>5
  <2>2. j = 1
    BY <1>2, <2>1
  <2>3. Global[g] = T(0, Role)
    BY <2>1, <2>2
  <2>. QED
    BY <1>4, <2>3
<1>6. Global[g].refs \in 0..2 /\ Global[g].ty \in Struct \union Native \union {Role, "Self"}
  BY <1>1 DEF Type
<1>7. Global[g].refs = 0 /\ Global[g].ty = Role => Global[g] = T(0, Role)
  BY <1>1, TFacts
<1>. QED
  BY <1>1, <1>3, <1>4, <1>5, <1>6, <1>7

(* What is behind a reference that is really one is of its type.           *)
LEMMA FetchOk ==
  ASSUME NEW m, NEW O, MemOk(m, O), NEW t \in Type, t.ty # "Self", t.refs > 0,
         t.refs = 1 => t.ty \in Native, NEW v, SlotOk(v, t, Has(m)), NEW x, x = m[v[2]][v[3] + 1]
  PROVE  /\ SlotOk(x, T(t.refs - 1, t.ty), Has(m)) /\ x \in Word /\ T(t.refs - 1, t.ty) \in Type
         /\ v[2] \in Has(m) /\ v[3] \in Nat /\ v[3] < Size(Global[v[2]]) /\ Size(Global[v[2]]) \in Nat
         /\ t.refs = 1 => SlotAt(v) \in {T(0, t.ty), T(0, "U4")}
         /\ t.refs = 2 => SlotAt(v) = T(1, t.ty)
<1>1. t.refs \in 0..2 /\ t.ty \in Struct \union Native \union {Role, "Self"}
  BY DEF Type
<1>2. T(t.refs - 1, t.ty) \in Type
  <2>1. t.refs - 1 \in 0..2
    BY <1>1
  <2>. QED
    BY <1>1, <2>1 DEF T, Type
<1>3. RefOk(v, Has(m)) /\ Has(m) \subseteq DOMAIN Global
  BY DEF SlotOk, Has
<1>4. v[2] \in Has(m) /\ v[3] \in Nat
  BY <1>3, RefOkFacts
<1>5. v[3] < Size(Global[v[2]])
  BY <1>1 DEF SlotOk
<1>6. v[3] + 1 \in 1..Size(Global[v[2]]) /\ Size(Global[v[2]]) \in Nat
  BY <1>4, <1>5, MemFacts
<1>7. /\ t.refs = 1 => SlotAt(v) \in {T(0, t.ty), T(0, "U4")}
      /\ t.refs = 2 => SlotAt(v) = T(1, t.ty)
  BY <1>1 DEF SlotOk, RefFits
<1>8. SlotAt(v) # T(0, Role)
  BY <1>1, <1>7, NamesAssumption, TFacts DEF Native
<1>9. x \in Word /\ SlotOk(x, SlotAt(v), Has(m))
  BY <1>4, <1>6, <1>8, MemFacts DEF SlotAt
<1>10. CASE t.refs = 1
  <2>1. SlotAt(v).refs = 0 /\ T(t.refs - 1, t.ty).refs = 0
    BY <1>7, <1>10, TFacts
  <2>2. x = num
    BY <1>9, <2>1 DEF SlotOk
  <2>. QED
    BY <1>2, <1>4, <1>5, <1>6, <1>7, <1>9, <2>1, <2>2 DEF SlotOk
<1>11. CASE t.refs = 2
  <2>1. T(t.refs - 1, t.ty) = T(1, t.ty)
    BY <1>11
  <2>. QED
    BY <1>2, <1>4, <1>5, <1>6, <1>7, <1>9, <1>11, <2>1
<1>. QED
  BY <1>1, <1>10, <1>11

(* The address of a part of a global.                                      *)
LEMMA AmpOk ==
  ASSUME NEW m, NEW g \in Has(m), NEW n, NEW t, <<n, t>> \in PartsOf(Global[g]), t.refs < 2
  PROVE  /\ SlotOk(ref(g, n), T(t.refs + 1, t.ty), Has(m)) /\ ref(g, n) \in Word
         /\ T(t.refs + 1, t.ty) \in Type /\ t.ty # "Self"
<1>1. /\ n \in Nat /\ t \in Type /\ t.ty # "Self"
      /\ Size(t) \in Nat /\ Size(Global[g]) \in Nat /\ n + Size(t) <= Size(Global[g])
      /\ \A k \in 1..Size(t) : SlotsOf(Global[g])[n + k] = SlotsOf(t)[k]
  BY HasFacts, GlobalPart
<1>2. t.refs \in 0..2 /\ t.ty \in Struct \union Native \union {Role, "Self"} /\ t = T(t.refs, t.ty)
  BY <1>1, TFacts DEF Type
<1>3. T(t.refs + 1, t.ty) \in Type
  <2>1. t.refs + 1 \in 0..2
    BY <1>2
  <2>. QED
    BY <1>2, <2>1 DEF T, Type
<1>4. /\ RefOk(ref(g, n), Has(m)) /\ ref(g, n) \in Word
      /\ IsRef(ref(g, n)) /\ ref(g, n)[2] = g /\ ref(g, n)[3] = n
  BY <1>1, HasFacts, WordFacts DEF RefOk
<1>5. t.refs > 0 \/ t.ty \in Native => n < Size(Global[g]) /\ SlotsOf(Global[g])[n + 1] = t
  <2>1. ASSUME t.refs > 0 \/ t.ty \in Native
        PROVE  n < Size(Global[g]) /\ SlotsOf(Global[g])[n + 1] = t
    <3>1. SlotsOf(t) = <<t>>
      BY <1>1, <2>1, SlotsOfFacts
    <3>2. Len(<<t>>) = 1 /\ <<t>>[1] = t /\ 1 \in 1..1
      OBVIOUS
    <3>3. Size(t) = 1
      BY <3>1, <3>2 DEF Size
    <3>. QED
      BY <1>1, <3>1, <3>2, <3>3
  <2>. QED
    BY <2>1
<1>6. /\ T(t.refs + 1, t.ty).refs = t.refs + 1 /\ T(t.refs + 1, t.ty).ty = t.ty
  BY TFacts
<1>7. CASE t.refs = 0
  <2>1. t = T(0, t.ty)
    BY <1>2, <1>7
  <2>2. RefFits(ref(g, n), T(t.refs + 1, t.ty))
    <3>1. CASE t.ty \in Native
      BY <1>1, <1>4, <1>5, <1>6, <2>1, <3>1 DEF RefFits, SlotAt
    <3>2. CASE t.ty \notin Native
      BY <1>1, <1>4, <1>6, <2>1, <3>2 DEF RefFits
    <3>. QED
      BY <3>1, <3>2
  <2>. QED
    BY <1>1, <1>3, <1>4, <1>5, <1>6, <1>7, <2>2 DEF SlotOk
<1>8. CASE t.refs = 1
  <2>1. t = T(1, t.ty)
    BY <1>2, <1>8
  <2>. QED
    BY <1>1, <1>3, <1>4, <1>5, <1>6, <1>8, <2>1 DEF SlotOk, SlotAt
<1>. QED
  BY <1>2, <1>7, <1>8

(* What really is of its types fits, in the words of the model.            *)
LEMMA AllFitOk ==
  ASSUME NEW O, MemOk(mem, O), NEW x, NEW ts \in Seq(Type), AllOk(x, ts, Has(mem), O)
  PROVE  AllFit(x, ts)
<1>1. PICK of \in Seq(Type) : of = AllSlots(ts)
  BY AllSlotsFacts
<1>2. /\ x \in Seq(Word) /\ Len(x) = Len(of) /\ DOMAIN of = 1..Len(of)
      /\ \A i \in 1..Len(of) :
           /\ of[i] # T(0, Role) => SlotOk(x[i], of[i], Has(mem))
           /\ of[i] = T(0, Role) => i > 1 /\ RoleOk(x[i - 1], x[i], Has(mem), O)
  BY <1>1 DEF AllOk, SlotsOk
<1>3. ASSUME NEW v, NEW t \in Type, SlotOk(v, t, Has(mem))
      PROVE  SlotFits(v, t)
  <2>1. t.refs \in 0..2
    BY TFacts
  <2>2. CASE t.refs = 0
    BY <1>3, <2>2 DEF SlotOk, SlotFits
  <2>3. CASE t.refs = 1
    BY <1>3, <2>3 DEF SlotOk, SlotFits
  <2>4. CASE t.refs = 2
    <3>1. /\ RefOk(v, Has(mem)) /\ Has(mem) \subseteq DOMAIN Global /\ v[3] < Size(Global[v[2]])
          /\ SlotAt(v) = T(1, t.ty)
      BY <1>3, <2>4 DEF SlotOk, Has
    <3>2. IsRef(v) /\ v[2] \in Has(mem) /\ v[3] \in Nat
      BY <3>1, RefOkFacts
    <3>3. v[3] + 1 \in 1..Size(Global[v[2]])
      BY <3>1, <3>2, MemFacts
    <3>4. SlotOk(At(v), T(1, t.ty), Has(mem))
      <4>1. SlotAt(v) # T(0, Role)
        BY <3>1, TFacts
      <4>. QED
        BY <3>1, <3>2, <3>3, <4>1, MemFacts DEF At, SlotAt
    <3>5. RefFits(At(v), T(1, t.ty)) /\ SlotAt(v).refs > 0
      BY <3>1, <3>4, TFacts DEF SlotOk
    <3>. QED
      BY <2>4, <3>2, <3>5 DEF SlotFits
  <2>. QED
    BY <2>1, <2>2, <2>3, <2>4
<1>4. ASSUME NEW i \in DOMAIN of
      PROVE  /\ SlotFits(x[i], of[i])
             /\ of[i] = T(0, Role) => x[i][1] = "impl" /\ RefFits(x[i - 1], T(1, x[i][2]))
  <2>1. i \in 1..Len(of) /\ of[i] \in Type
    BY <1>2
  <2>2. CASE of[i] # T(0, Role)
    BY <1>2, <1>3, <2>1, <2>2
  <2>3. CASE of[i] = T(0, Role)
    <3>1. PICK s \in O : x[i] = methsOf(s) /\ SlotOk(x[i - 1], T(1, s), Has(mem))
      BY <1>2, <2>1, <2>3 DEF RoleOk
    <3>2. x[i][1] = "impl" /\ RefFits(x[i - 1], T(1, x[i][2]))
      BY <3>1, WordFacts, TFacts DEF SlotOk
    <3>3. SlotFits(x[i], of[i])
      <4>1. of[i].refs = 0 /\ of[i].ty = Role
        BY <2>3, TFacts
      <4>2. Role \notin Native
        BY NamesAssumption
      <4>. QED
        BY ONLY <4>1, <4>2 DEF SlotFits
    <3>. QED
      BY <3>2, <3>3
  <2>. QED
    BY <2>2, <2>3
<1>. QED
  BY <1>1, <1>2, <1>4 DEF AllFit

-----------------------------------------------------------------------------
(* Stores.                                                                 *)

(* A global is given a value of its type.                                  *)
LEMMA AssignMem ==
  ASSUME NEW m, NEW O, MemOk(m, O), NEW g \in DOMAIN Global, NEW y,
         AllOk(y, <<Global[g]>>, Has(m), O)
  PROVE  /\ Has(m) \subseteq Has([m EXCEPT ![g] = y]) /\ MemOk([m EXCEPT ![g] = y], O)
         /\ g \in Has(m) => Has([m EXCEPT ![g] = y]) = Has(m)
<1>. DEFINE m2 == [m EXCEPT ![g] = y]
<1>1. /\ m \in [DOMAIN Global -> Seq(Word)] /\ \A h \in Has(m) : AllOk(m[h], <<Global[h]>>, Has(m), O)
      /\ Global[g] \in Type
  BY GlobalFacts DEF MemOk
<1>2. y \in Seq(Word) /\ Len(y) = Size(Global[g])
  BY <1>1, OneOk DEF SlotsOk, Size
<1>3. /\ m2 \in [DOMAIN Global -> Seq(Word)] /\ m2[g] = y
      /\ \A h \in DOMAIN Global : h # g => m2[h] = m[h]
  BY <1>1, <1>2
<1>4. g \in Has(m) => y # << >>
  <2>1. ASSUME g \in Has(m)
        PROVE  y # << >>
    <3>1. m[g] # << >> /\ m[g] \in Seq(Word) /\ Len(m[g]) = Size(Global[g])
      BY <2>1, MemFacts, HasFacts
    <3>2. Len(m[g]) # 0
      BY <3>1, EmptySeq
    <3>3. Len(y) # 0 /\ Len(<< >>) = 0
      BY <1>2, <3>1, <3>2
    <3>. QED
      BY <3>3
  <2>. QED
    BY <2>1
<1>. HIDE DEF m2
<1>5. Has(m) \subseteq Has(m2) /\ Has(m2) \subseteq Has(m) \union {g}
  BY <1>3, <1>4 DEF Has
<1>6. AllOk(y, <<Global[g]>>, Has(m2), O) /\ \A h \in Has(m) : AllOk(m[h], <<Global[h]>>, Has(m2), O)
  BY <1>1, <1>5, MoreOk
<1>7. \A h \in Has(m2) : AllOk(m2[h], <<Global[h]>>, Has(m2), O)
  <2>1. ASSUME NEW h \in Has(m2)
        PROVE  AllOk(m2[h], <<Global[h]>>, Has(m2), O)
    <3>1. CASE h = g
      BY <1>3, <1>6, <3>1
    <3>2. CASE h # g
      <4>1. h \in Has(m) /\ h \in DOMAIN Global
        BY <1>5, <3>2, HasFacts
      <4>. QED
        BY <1>3, <1>6, <3>2, <4>1
    <3>. QED
      BY <3>1, <3>2
  <2>. QED
    BY <2>1
<1>8. MemOk(m2, O)
  BY <1>3, <1>7 DEF MemOk
<1>9. g \in Has(m) => Has(m2) = Has(m)
  BY <1>5
<1>. QED
  BY <1>5, <1>8, <1>9 DEF m2

(* A slot is overwritten with what is of the type that it has.             *)
LEMMA StoreMem ==
  ASSUME NEW m, NEW O, MemOk(m, O), NEW t \in Type, t.ty # "Self", t.refs < 2,
         t.refs = 0 => t.ty \in Native,
         NEW a, SlotOk(a, T(t.refs + 1, t.ty), Has(m)),
         NEW x \in Word, SlotOk(x, t, Has(m)),
         NEW y, y = [m[a[2]] EXCEPT ![a[3] + 1] = x]
  PROVE  MemOk([m EXCEPT ![a[2]] = y], O) /\ Has([m EXCEPT ![a[2]] = y]) = Has(m)
<1>1. t.refs \in 0..2 /\ t = T(t.refs, t.ty) /\ t.ty \in Struct \union Native \union {Role, "Self"}
  BY TFacts DEF Type
<1>2. T(t.refs + 1, t.ty).refs = t.refs + 1 /\ T(t.refs + 1, t.ty).ty = t.ty
  BY TFacts
<1>3. T(t.refs + 1, t.ty) \in Type
  <2>1. t.refs + 1 \in 0..2
    BY <1>1
  <2>. QED
    BY <1>1, <2>1 DEF T, Type
<1>4. /\ a[2] \in Has(m) /\ a[3] \in Nat /\ a[3] < Size(Global[a[2]]) /\ Size(Global[a[2]]) \in Nat
      /\ t.refs = 0 => SlotAt(a) \in {T(0, t.ty), T(0, "U4")}
      /\ t.refs = 1 => SlotAt(a) = T(1, t.ty)
  <2>. DEFINE u == T(t.refs + 1, t.ty)
  <2>1. u \in Type /\ u.ty # "Self" /\ u.refs > 0 /\ (u.refs = 1 => u.ty \in Native)
            /\ SlotOk(a, u, Has(m))
    BY <1>1, <1>2, <1>3
  <2>2. u.refs = t.refs + 1 /\ u.ty = t.ty
    BY <1>2
  <2>. HIDE DEF u
  <2>3. /\ a[2] \in Has(m) /\ a[3] \in Nat /\ a[3] < Size(Global[a[2]]) /\ Size(Global[a[2]]) \in Nat
        /\ u.refs = 1 => SlotAt(a) \in {T(0, u.ty), T(0, "U4")}
        /\ u.refs = 2 => SlotAt(a) = T(1, u.ty)
    BY <2>1, FetchOk
  <2>. QED
    BY <1>1, <2>2, <2>3
<1>5. PICK g \in Has(m), i \in 1..Size(Global[a[2]]) : g = a[2] /\ i = a[3] + 1
  BY <1>4
<1>6. /\ g \in DOMAIN Global /\ Global[g] \in Type
      /\ m[g] \in Seq(Word) /\ Len(m[g]) = Size(Global[g]) /\ Size(Global[g]) \in Nat
      /\ \A j \in 1..Size(Global[g]) :
           /\ SlotsOf(Global[g])[j] # T(0, Role) => SlotOk(m[g][j], SlotsOf(Global[g])[j], Has(m))
           /\ SlotsOf(Global[g])[j] = T(0, Role) => j > 1 /\ RoleOk(m[g][j - 1], m[g][j], Has(m), O)
  BY <1>5, HasFacts, MemFacts
<1>7. /\ y \in Seq(Word) /\ Len(y) = Size(Global[g]) /\ y[i] = x
      /\ \A j \in 1..Size(Global[g]) : j # i => y[j] = m[g][j]
  BY <1>5, <1>6
<1>8. SlotAt(a) = SlotsOf(Global[g])[i] /\ i \in 1..Size(Global[g])
  BY <1>5 DEF SlotAt
<1>9. SlotOk(x, SlotAt(a), Has(m)) /\ SlotAt(a) # T(0, Role) /\ SlotAt(a) # rSelf
  <2>1. CASE t.refs = 0
    <3>1. SlotAt(a).refs = 0 /\ SlotAt(a).ty # Role
      BY <1>1, <1>4, <2>1, NamesAssumption, TFacts DEF Native
    <3>2. x = num
      BY <2>1 DEF SlotOk
    <3>. QED
      BY <3>1, <3>2, TFacts DEF SlotOk, rSelf
  <2>2. CASE t.refs = 1
    BY <1>1, <1>4, <2>2, TFacts DEF rSelf
  <2>. QED
    BY <1>1, <2>1, <2>2
<1>10. ASSUME NEW j \in 1..Size(Global[g])
       PROVE  /\ SlotsOf(Global[g])[j] # T(0, Role) => SlotOk(y[j], SlotsOf(Global[g])[j], Has(m))
              /\ SlotsOf(Global[g])[j] = T(0, Role) => j > 1 /\ RoleOk(y[j - 1], y[j], Has(m), O)
  <2>1. CASE SlotsOf(Global[g])[j] # T(0, Role)
    <3>1. CASE j = i
      BY <1>7, <1>8, <1>9, <2>1, <3>1
    <3>2. CASE j # i
      BY <1>6, <1>7, <2>1, <3>2
    <3>. QED
      BY <3>1, <3>2
  <2>2. CASE SlotsOf(Global[g])[j] = T(0, Role)
    <3>1. Global[g] = T(0, Role) /\ j = 2
      BY <1>6, <2>2, RoleSlot
    <3>2. SlotsOf(Global[g]) = <<rSelf, T(0, Role)>> /\ <<rSelf, T(0, Role)>>[1] = rSelf
      BY <1>6, <3>1, SlotsOfFacts
    <3>3. i # 1 /\ i # 2
      BY <1>8, <1>9, <2>2, <3>1, <3>2
    <3>4. y[j] = m[g][j] /\ y[j - 1] = m[g][j - 1]
      <4>1. 1 \in 1..Size(Global[g]) /\ 2 \in 1..Size(Global[g]) /\ 2 - 1 = 1
        BY <1>6, <3>1
      <4>. QED
        BY <1>7, <3>1, <3>3, <4>1
    <3>. QED
      BY <1>6, <2>2, <3>4
  <2>. QED
    BY <2>1, <2>2
<1>11. SlotsOk(y, SlotsOf(Global[g]), Has(m), O)
  <2>1. Len(SlotsOf(Global[g])) = Size(Global[g])
    BY DEF Size
  <2>. QED
    BY <1>7, <1>10, <2>1 DEF SlotsOk
<1>12. AllOk(y, <<Global[g]>>, Has(m), O)
  BY <1>6, <1>11, OneOk
<1>. QED
  BY <1>5, <1>6, <1>12, AssignMem

(* Behind a reference to a role is all of a variable.                      *)
LEMMA RoleBehindFacts ==
  ASSUME NEW m, NEW O, MemOk(m, O), NEW v, SlotOk(v, T(1, Role), Has(m))
  PROVE  /\ v[2] \in Has(m) /\ Global[v[2]] = T(0, Role)
         /\ Len(m[v[2]]) = 2 /\ m[v[2]] \in Seq(Word) /\ RoleBehind(m, v) = m[v[2]]
<1>1. T(1, Role).refs = 1 /\ T(1, Role).ty = Role
  BY TFacts
<1>2. RefOk(v, Has(m)) /\ RefFits(v, T(1, Role)) /\ Has(m) \subseteq DOMAIN Global
  BY <1>1 DEF SlotOk, Has
<1>3. v[2] \in Has(m) /\ v[2] \in DOMAIN Global
  BY <1>2, RefOkFacts
<1>4. <<v[3], T(0, Role)>> \in PartsOf(Global[v[2]])
  BY <1>1, <1>2, NamesAssumption DEF RefFits
<1>5. v[3] = 0 /\ Global[v[2]] = T(0, Role)
  BY <1>3, <1>4, RolePart
<1>6. Len(m[v[2]]) = 2 /\ m[v[2]] \in Seq(Word)
  BY <1>3, <1>5, RoleMemFacts, MemFacts
<1>7. RoleBehind(m, v) = SubSeq(m[v[2]], 1, 2)
  BY <1>5 DEF RoleBehind
<1>8. SubSeq(m[v[2]], 1, 2) = m[v[2]]
  BY ONLY <1>6
<1>. QED
  BY <1>3, <1>5, <1>6, <1>7, <1>8

(* Where a variable is a role, or refers to one.                           *)
LEMMA RoleAtFacts ==
  ASSUME NEW m, NEW O, MemOk(m, O), NEW g \in Has(m), Global[g].ty = Role, Global[g].refs < 2
  PROVE  /\ RoleAt(m, g)[1] \in Word /\ RoleAt(m, g)[2] \in Word
         /\ SlotOk(RoleAt(m, g)[1], rSelf, Has(m))
         /\ RoleOk(RoleAt(m, g)[1], RoleAt(m, g)[2], Has(m), O)
<1>1. Global[g] \in Type /\ Global[g] = T(Global[g].refs, Role) /\ Global[g].refs \in 0..2
  BY HasFacts, TFacts
<1>2. CASE Global[g].refs = 0
  <2>1. Global[g] = T(0, Role)
    BY <1>1, <1>2
  <2>2. RoleAt(m, g) = m[g]
    BY <1>2 DEF RoleAt
  <2>. QED
    BY <2>1, <2>2, RoleMemFacts
<1>3. CASE Global[g].refs = 1
  <2>1. SlotsOf(Global[g]) = <<Global[g]>> /\ Size(Global[g]) = 1
    <3>1. Global[g].refs > 0
      BY <1>3
    <3>2. SlotsOf(Global[g]) = <<Global[g]>>
      BY <1>1, <3>1, SlotsOfFacts
    <3>. QED
      BY <3>2 DEF Size
  <2>2. PICK v : v = m[g][1]
    OBVIOUS
  <2>3. SlotOk(v, Global[g], Has(m))
    <3>1. 1 \in 1..Size(Global[g]) /\ <<Global[g]>>[1] = Global[g]
      BY <2>1
    <3>2. Global[g] # T(0, Role)
      BY <1>3, TFacts
    <3>. QED
      BY <2>1, <2>2, <3>1, <3>2, MemFacts
  <2>4. SlotOk(v, T(1, Role), Has(m))
    BY <1>1, <1>3, <2>3
  <2>5. /\ v[2] \in Has(m) /\ Global[v[2]] = T(0, Role)
        /\ Len(m[v[2]]) = 2 /\ m[v[2]] \in Seq(Word) /\ RoleBehind(m, v) = m[v[2]]
    BY <2>4, RoleBehindFacts
  <2>6. /\ m[v[2]][1] \in Word /\ m[v[2]][2] \in Word
        /\ SlotOk(m[v[2]][1], rSelf, Has(m)) /\ RoleOk(m[v[2]][1], m[v[2]][2], Has(m), O)
    BY <2>5, RoleMemFacts
  <2>7. RoleAt(m, g) = m[v[2]]
    BY <1>3, <2>2, <2>5 DEF RoleAt
  <2>. QED
    BY <2>6, <2>7
<1>. QED
  BY <1>1, <1>2, <1>3

(* A move: from behind the reference b to behind the reference a.          *)
Moved(m, a, b, n) ==
  [i \in DOMAIN m[a[2]] |-> IF i \in (a[3] + 1)..(a[3] + n)
      THEN m[b[2]][b[3] + (i - a[3])] ELSE m[a[2]][i]]

LEMMA MoveMem ==
  ASSUME NEW m, NEW O, MemOk(m, O), NEW l \in Type, NEW r \in Type, l.refs = 1, r.refs = 1, r.ty # "Self",
         l.ty = r.ty \/ (l.ty \in Native /\ r.ty \in Native),
         NEW a, SlotOk(a, l, Has(m)), NEW b, SlotOk(b, r, Has(m)),
         NEW n, n = Size(T(0, r.ty)), NEW y, y = Moved(m, a, b, n)
  PROVE  /\ a[3] + n <= Len(m[a[2]])
         /\ MemOk([m EXCEPT ![a[2]] = y], O) /\ Has([m EXCEPT ![a[2]] = y]) = Has(m)
<1>1. /\ l.ty \in Struct \union Native \union {Role, "Self"}
      /\ r.ty \in Struct \union Native \union {Role, "Self"}
      /\ T(0, l.ty) \in Type /\ T(0, r.ty) \in Type
  BY DEF Type, T
<1>2. /\ RefOk(a, Has(m)) /\ RefFits(a, l) /\ RefOk(b, Has(m)) /\ RefFits(b, r)
      /\ l.ty \in Native => a[3] < Size(Global[a[2]])
      /\ r.ty \in Native => b[3] < Size(Global[b[2]])
      /\ Has(m) \subseteq DOMAIN Global
  <2>1. l.refs > 0 /\ r.refs > 0
    OBVIOUS
  <2>. QED
    BY <2>1 DEF SlotOk, Has
<1>3. PICK g, h, i, j : /\ g = a[2] /\ h = b[2] /\ i = a[3] /\ j = b[3]
                        /\ g \in Has(m) /\ h \in Has(m) /\ i \in Nat /\ j \in Nat
  BY <1>2, RefOkFacts
<1>4. /\ g \in DOMAIN Global /\ Global[g] \in Type
      /\ m[g] \in Seq(Word) /\ Len(m[g]) = Size(Global[g]) /\ Size(Global[g]) \in Nat
      /\ \A k \in 1..Size(Global[g]) :
           /\ m[g][k] \in Word
           /\ SlotsOf(Global[g])[k] # T(0, Role) => SlotOk(m[g][k], SlotsOf(Global[g])[k], Has(m))
           /\ SlotsOf(Global[g])[k] = T(0, Role) => k > 1 /\ RoleOk(m[g][k - 1], m[g][k], Has(m), O)
  BY <1>3, HasFacts, MemFacts
<1>5. /\ h \in DOMAIN Global /\ Global[h] \in Type
      /\ m[h] \in Seq(Word) /\ Len(m[h]) = Size(Global[h]) /\ Size(Global[h]) \in Nat
      /\ \A k \in 1..Size(Global[h]) :
           /\ m[h][k] \in Word
           /\ SlotsOf(Global[h])[k] # T(0, Role) => SlotOk(m[h][k], SlotsOf(Global[h])[k], Has(m))
           /\ SlotsOf(Global[h])[k] = T(0, Role) => k > 1 /\ RoleOk(m[h][k - 1], m[h][k], Has(m), O)
  BY <1>3, HasFacts, MemFacts
<1>6. n \in Nat
  BY <1>1, SlotsOfFacts
(* Both references are to a place of n slots; what is behind the second    *)
(* one is of the types that are behind the first one.                      *)
<1>7. /\ i + n <= Size(Global[g]) /\ j + n <= Size(Global[h])
      /\ \A k \in 1..n :
           \/ SlotsOf(Global[g])[i + k] = SlotsOf(Global[h])[j + k]
           \/ SlotsOf(Global[g])[i + k].refs = 0 /\ SlotsOf(Global[h])[j + k].refs = 0
      /\ (\E k \in 1..n : SlotsOf(Global[g])[i + k] \in {T(0, Role), rSelf}
               \/ SlotsOf(Global[h])[j + k] \in {T(0, Role), rSelf})
           => i = 0 /\ j = 0 /\ n = 2 /\ Global[g] = Global[h]
  <2>1. CASE l.ty \in Native /\ r.ty \in Native
    <3>1. /\ SlotsOf(Global[g])[i + 1] \in {T(0, l.ty), T(0, "U4")}
          /\ SlotsOf(Global[h])[j + 1] \in {T(0, r.ty), T(0, "U4")}
          /\ i < Size(Global[g]) /\ j < Size(Global[h])
      <4>1. l.ty # "Self" /\ r.ty # "Self"
        BY <2>1 DEF Native
      <4>. QED
        BY <1>2, <1>3, <2>1, <4>1 DEF RefFits, SlotAt
    <3>2. n = 1
      <4>1. T(0, r.ty).ty \in Native
        BY <2>1, TFacts
      <4>2. SlotsOf(T(0, r.ty)) = <<T(0, r.ty)>>
        BY <1>1, <4>1, SlotsOfFacts
      <4>. QED
        BY <4>2 DEF Size
    <3>3. /\ SlotsOf(Global[g])[i + 1].refs = 0 /\ SlotsOf(Global[h])[j + 1].refs = 0
          /\ SlotsOf(Global[g])[i + 1] \notin {T(0, Role), rSelf}
          /\ SlotsOf(Global[h])[j + 1] \notin {T(0, Role), rSelf}
      <4>1. Role \notin Native /\ "U4" \in Native
        BY NamesAssumption DEF Native
      <4>2. \A ty \in Native : T(0, ty).refs = 0 /\ T(0, ty) \notin {T(0, Role), rSelf}
        BY <4>1, TFacts DEF rSelf
      <4>. QED
        BY <2>1, <3>1, <4>1, <4>2
    <3>4. \A k \in 1..n : k = 1
      BY <3>2
    <3>5. i + n <= Size(Global[g]) /\ j + n <= Size(Global[h])
      BY <1>3, <1>4, <1>5, <3>1, <3>2
    <3>. QED
      BY <3>3, <3>4, <3>5
  <2>2. CASE ~(l.ty \in Native /\ r.ty \in Native)
    <3>1. l.ty = r.ty /\ r.ty \notin Native
      BY <2>2
    <3>2. <<i, T(0, r.ty)>> \in PartsOf(Global[g]) /\ <<j, T(0, r.ty)>> \in PartsOf(Global[h])
      BY <1>2, <1>3, <3>1 DEF RefFits
    <3>3. /\ i + n <= Size(Global[g])
          /\ \A k \in 1..n : SlotsOf(Global[g])[i + k] = SlotsOf(T(0, r.ty))[k]
      BY <1>4, <3>2, GlobalPart
    <3>4. /\ j + n <= Size(Global[h])
          /\ \A k \in 1..n : SlotsOf(Global[h])[j + k] = SlotsOf(T(0, r.ty))[k]
      BY <1>5, <3>2, GlobalPart
    <3>5. CASE r.ty = Role
      <4>1. i = 0 /\ Global[g] = T(0, Role) /\ j = 0 /\ Global[h] = T(0, Role)
        BY <1>4, <1>5, <3>2, <3>5, RolePart
      <4>2. n = 2
        <5>1. SlotsOf(T(0, Role)) = <<rSelf, T(0, Role)>>
          BY <1>1, <3>5, SlotsOfFacts
        <5>. QED
          BY <3>5, <5>1 DEF Size
      <4>. QED
        BY <3>3, <3>4, <4>1, <4>2
    <3>6. CASE r.ty \in Struct
      <4>1. SlotsOf(T(0, r.ty)) \in Seq(SlotType) /\ Len(SlotsOf(T(0, r.ty))) = n
        <5>1. T(0, r.ty).refs = 0 /\ T(0, r.ty).ty \in Struct
          BY <3>6, TFacts
        <5>. QED
          BY <1>1, <5>1, SlotsOfFacts
      <4>2. \A k \in 1..n : SlotsOf(T(0, r.ty))[k] \in SlotType
        BY <4>1
      <4>3. \A k \in 1..n : SlotsOf(T(0, r.ty))[k] \notin {T(0, Role), rSelf}
        BY <4>2, SlotTypeFacts
      <4>. QED
        BY <3>3, <3>4, <4>3
    <3>. QED
      BY <1>1, <3>1, <3>5, <3>6
  <2>. QED
    BY <2>1, <2>2
<1>8. /\ y \in Seq(Word) /\ Len(y) = Size(Global[g])
      /\ \A k \in 1..Size(Global[g]) : k \notin (i + 1)..(i + n) => y[k] = m[g][k]
      /\ \A k \in 1..n : y[i + k] = m[h][j + k]
  <2>1. y = [k \in 1..Size(Global[g]) |-> IF k \in (i + 1)..(i + n) THEN m[h][j + (k - i)] ELSE m[g][k]]
    BY <1>3, <1>4 DEF Moved
  <2>2. ASSUME NEW k \in 1..Size(Global[g])
        PROVE  y[k] \in Word
    <3>1. CASE k \in (i + 1)..(i + n)
      <4>1. j + (k - i) \in 1..Size(Global[h])
        <5>1. /\ i \in Nat /\ j \in Nat /\ n \in Nat /\ Size(Global[h]) \in Nat
              /\ j + n <= Size(Global[h])
              /\ k \in (i + 1)..(i + n)
          BY <1>3, <1>5, <1>6, <1>7, <3>1
        <5>. QED
          BY ONLY <5>1
      <4>. QED
        BY <1>5, <2>1, <3>1, <4>1
    <3>2. CASE k \notin (i + 1)..(i + n)
      BY <1>4, <2>1, <3>2
    <3>. QED
      BY <3>1, <3>2
  <2>3. ASSUME NEW k \in 1..n
        PROVE  y[i + k] = m[h][j + k]
    <3>1. i + k \in (i + 1)..(i + n) /\ i + k \in 1..Size(Global[g]) /\ j + ((i + k) - i) = j + k
      BY <1>3, <1>4, <1>6, <1>7, SMTT(40)
    <3>. QED
      BY <2>1, <3>1
  <2>4. y \in Seq(Word) /\ Len(y) = Size(Global[g])
    BY <1>4, <2>1, <2>2
  <2>. QED
    BY <2>1, <2>3, <2>4
<1>9. ASSUME NEW k \in 1..Size(Global[g])
      PROVE  /\ SlotsOf(Global[g])[k] # T(0, Role) => SlotOk(y[k], SlotsOf(Global[g])[k], Has(m))
             /\ SlotsOf(Global[g])[k] = T(0, Role) => k > 1 /\ RoleOk(y[k - 1], y[k], Has(m), O)
  <2>1. CASE SlotsOf(Global[g])[k] # T(0, Role)
    <3>1. CASE k \in (i + 1)..(i + n)
      <4>1. PICK q : q \in 1..n /\ k = i + q
        <5>1. k - i \in 1..n /\ k = i + (k - i)
          BY <1>3, <1>4, <1>6, <3>1
        <5>. QED
          BY <5>1
      <4>2. j + q \in 1..Size(Global[h])
        BY <1>3, <1>5, <1>6, <1>7, <4>1, SMTT(40)
      <4>3. SlotsOf(Global[h])[j + q] # T(0, Role)
                => SlotOk(m[h][j + q], SlotsOf(Global[h])[j + q], Has(m))
        BY <1>5, <4>2
      <4>4. y[k] = m[h][j + q]
        BY <1>8, <4>1
      <4>5. SlotsOf(Global[h])[j + q] # T(0, Role)
        <5>1. ASSUME SlotsOf(Global[h])[j + q] = T(0, Role)
              PROVE  FALSE
          <6>1. i = 0 /\ j = 0 /\ Global[g] = Global[h]
            BY <1>7, <4>1, <5>1
          <6>2. i + q = j + q
            BY <4>1, <6>1
          <6>. QED
            BY <2>1, <4>1, <5>1, <6>1, <6>2
        <5>. QED
          BY <5>1
      <4>6. \/ SlotsOf(Global[g])[k] = SlotsOf(Global[h])[j + q]
            \/ SlotsOf(Global[g])[k].refs = 0 /\ SlotsOf(Global[h])[j + q].refs = 0
        BY <1>7, <4>1
      <4>. QED
        BY <2>1, <4>3, <4>4, <4>5, <4>6 DEF SlotOk
    <3>2. CASE k \notin (i + 1)..(i + n)
      BY <1>4, <1>8, <2>1, <3>2
    <3>. QED
      BY <3>1, <3>2
  <2>2. CASE SlotsOf(Global[g])[k] = T(0, Role)
    <3>1. Global[g] = T(0, Role) /\ k = 2
      BY <1>4, <2>2, RoleSlot
    <3>2. SlotsOf(Global[g]) = <<rSelf, T(0, Role)>> /\ <<rSelf, T(0, Role)>>[1] = rSelf
      BY <1>4, <3>1, SlotsOfFacts
    <3>3. Size(Global[g]) = 2
      BY <3>2 DEF Size
    <3>4. CASE n = 0
      <4>1. \A q : q \notin (i + 1)..(i + n)
        BY <1>3, <3>4
      <4>2. 1 \in 1..Size(Global[g]) /\ 2 \in 1..Size(Global[g]) /\ 2 - 1 = 1
        BY <3>3
      <4>. QED
        BY <1>4, <1>8, <2>2, <3>1, <4>1, <4>2
    <3>5. CASE n > 0
      <4>1. i + 1 = 1 \/ i + 1 = 2
        BY <1>3, <1>6, <1>7, <3>3, <3>5
      <4>2. 1 \in 1..n /\ SlotsOf(Global[g])[i + 1] \in {T(0, Role), rSelf}
        BY <1>6, <2>2, <3>1, <3>2, <3>5, <4>1
      <4>3. i = 0 /\ j = 0 /\ n = 2 /\ Global[g] = Global[h]
        BY <1>7, <4>2
      <4>4. y[1] = m[h][1] /\ y[2] = m[h][2]
        <5>1. 1 \in 1..n /\ 2 \in 1..n /\ i + 1 = 1 /\ i + 2 = 2 /\ j + 1 = 1 /\ j + 2 = 2
          BY <4>3
        <5>. QED
          BY <1>8, <5>1
      <4>5. SlotsOf(Global[h])[2] = T(0, Role) /\ 2 \in 1..Size(Global[h]) /\ 2 - 1 = 1
        BY <2>2, <3>1, <3>3, <4>3
      <4>6. RoleOk(m[h][1], m[h][2], Has(m), O)
        BY <1>5, <4>5
      <4>. QED
        BY <2>2, <3>1, <4>4, <4>5, <4>6
    <3>. QED
      BY <1>6, <3>4, <3>5
  <2>. QED
    BY <2>1, <2>2
<1>10. SlotsOk(y, SlotsOf(Global[g]), Has(m), O)
  <2>1. Len(SlotsOf(Global[g])) = Size(Global[g])
    BY DEF Size
  <2>. QED
    BY <1>8, <1>9, <2>1 DEF SlotsOk
<1>11. AllOk(y, <<Global[g]>>, Has(m), O)
  BY <1>4, <1>10, OneOk
<1>. QED
  BY <1>3, <1>4, <1>7, <1>11, AssignMem

-----------------------------------------------------------------------------
(* The stack and its frames.                                               *)

LEMMA InTypeFacts ==
  /\ InType \subseteq Type /\ Named \subseteq InType /\ rSelf \in InType /\ rSelf \in Type
  /\ \A t \in InType : t.ty = "Self" => t = rSelf
  /\ \A t \in Type : t.ty # "Self" => t \in Named
  /\ \A ts \in Seq(InType) : ts \in Seq(Type)
<1>1. rSelf \in Type
  BY DEF rSelf, T, Type
<1>2. InType \subseteq Type /\ Named \subseteq InType /\ rSelf \in InType
  BY <1>1 DEF InType, Named
<1>3. \A ts \in Seq(InType) : ts \in Seq(Type)
  BY <1>2
<1>. QED
  BY <1>1, <1>2, <1>3 DEF InType, Named

LEMMA FrameTypes ==
  ASSUME NEW c \in Frame
  PROVE  /\ c.at \in {"sr", "meth", "role"}
         /\ c.at = "sr" => c.ty \in Type /\ c.types \in Nat /\ c.slots \in Nat
         /\ c.at = "meth" => c.code \in DOMAIN Method /\ c.self \in Struct
         /\ c.at = "role" => c.op \in DOMAIN Op /\ c.var \in DOMAIN Global /\ c.types \in Nat
            /\ c.slots \in Nat
BY DEF Frame

LEMMA PrefixIs ==
  ASSUME NEW S, NEW x \in Seq(S), NEW y \in Seq(S), NEW s, IsConcat(s, x, y), NEW n \in 0..Len(x)
  PROVE  /\ SubSeq(s, 1, n) = SubSeq(x, 1, n) /\ SubSeq(x, 1, n) \in Seq(S) /\ Len(SubSeq(x, 1, n)) = n
         /\ \A i \in 1..n : s[i] = x[i]
<1>1. /\ s \in Seq(S) /\ Len(x) \in Nat /\ Len(y) \in Nat /\ Len(s) = Len(x) + Len(y)
      /\ \A j \in 1..Len(x) : s[j] = x[j]
  BY ConcatAt
<1>2. SubSeq(x, 1, n) \in Seq(S) /\ Len(SubSeq(x, 1, n)) = n /\ \A j \in 1..n : SubSeq(x, 1, n)[j] = x[j]
  BY CutAt
<1>3. SubSeq(s, 1, n) \in Seq(S) /\ Len(SubSeq(s, 1, n)) = n /\ \A j \in 1..n : SubSeq(s, 1, n)[j] = s[j]
  <2>1. n \in 0..Len(s)
    BY <1>1
  <2>. QED
    BY <1>1, <2>1, CutAt
<1>4. \A j \in 1..n : s[j] = x[j]
  BY <1>1
<1>. QED
  BY <1>2, <1>3, <1>4

LEMMA AdrFacts ==
  ASSUME NEW w, NEW ts, NEW k, NEW m, NEW O, StackOk(w, ts, k, m, O)
  PROVE  /\ \A a \in Adr(k) : a \in 1..Len(w)
         /\ w \in Seq(Word) /\ Len(w) \in Nat /\ ts \in Seq(InType) /\ ts \in Seq(Type) /\ Len(ts) \in Nat
         /\ Without(w, Adr(k)) \in Seq(Word) /\ Len(Without(w, Adr(k))) = SizeOf(ts) /\ SizeOf(ts) \in Nat
<1>1. w \in Seq(Word) /\ ts \in Seq(InType) /\ ts \in Seq(Type) /\ k \in Seq(Frame)
  BY InTypeFacts DEF StackOk
<1>2. \A i \in 1..Len(k) : k[i].at = "sr" => k[i].slots \in 1..Len(w)
  BY DEF StackOk, FrameOk, BaseOk
<1>3. Without(w, Adr(k)) \in Seq(Word)
  BY <1>1, WithoutType
<1>4. Len(Without(w, Adr(k))) = SizeOf(ts) /\ SizeOf(ts) \in Nat
  BY <1>1, AllSlotsFacts DEF StackOk, AllOk, SlotsOk
<1>. QED
  BY <1>1, <1>2, <1>3, <1>4 DEF Adr

(* What a frame counts on is the same in another state.                    *)
Alike(c, w, ts, at, w2, ts2, at2) ==
  c.at # "meth" =>
    /\ c.slots \in 1..Len(w2) /\ c.types \in 0..Len(ts2)
    /\ SubSeq(w2, 1, c.slots) = SubSeq(w, 1, c.slots) /\ w2[c.slots] = w[c.slots]
    /\ SubSeq(ts2, 1, c.types) = SubSeq(ts, 1, c.types) /\ (c.types > 0 => ts2[c.types] = ts[c.types])
    /\ Without(SubSeq(w, 1, c.slots), at2) = Without(SubSeq(w, 1, c.slots), at)

LEMMA FrameMove ==
  ASSUME NEW c \in Frame, NEW w, NEW ts, NEW at, NEW m, NEW O, FrameOk(c, w, ts, at, m, O),
         NEW w2, NEW ts2, NEW at2, NEW m2, NEW O2, Alike(c, w, ts, at, w2, ts2, at2),
         Has(m) \subseteq Has(m2), O \subseteq O2,
         c.at = "role" => RoleAt(m2, c.var) = RoleAt(m, c.var)
  PROVE  FrameOk(c, w2, ts2, at2, m2, O2)
<1>1. c.at # "meth" => BaseOk(c, w2, ts2, at2, Has(m2), O2)
  <2>1. ASSUME c.at # "meth"
        PROVE  BaseOk(c, w2, ts2, at2, Has(m2), O2)
    <3>1. AllOk(Without(SubSeq(w, 1, c.slots), at), SubSeq(ts, 1, c.types), Has(m), O)
      BY <2>1 DEF FrameOk, BaseOk
    <3>2. AllOk(Without(SubSeq(w, 1, c.slots), at), SubSeq(ts, 1, c.types), Has(m2), O2)
      BY <3>1, MoreOk
    <3>. QED
      BY <2>1, <3>2 DEF BaseOk, Alike
  <2>. QED
    BY <2>1
<1>2. c.at = "sr" => StoreOk(c, w2, Has(m2))
  <2>1. ASSUME c.at = "sr"
        PROVE  StoreOk(c, w2, Has(m2))
    <3>1. StoreOk(c, w, Has(m)) /\ w2[c.slots] = w[c.slots]
      BY <2>1 DEF FrameOk, Alike
    <3>2. SlotOk(w2[c.slots], T(c.ty.refs + 1, c.ty.ty), Has(m2))
      BY <3>1, MoreOk DEF StoreOk
    <3>. QED
      BY <3>1, <3>2 DEF StoreOk
  <2>. QED
    BY <2>1
<1>3. c.at = "role" => CallOk(c, w2, ts2, m2)
  <2>1. ASSUME c.at = "role"
        PROVE  CallOk(c, w2, ts2, m2)
    <3>1. CallOk(c, w, ts, m) /\ w2[c.slots] = w[c.slots] /\ (c.types > 0 => ts2[c.types] = ts[c.types])
      BY <2>1 DEF FrameOk, Alike
    <3>. QED
      BY <2>1, <3>1 DEF CallOk
  <2>. QED
    BY <2>1
<1>4. c.at = "meth" => c.code[1] \in Range(Lineage[c.self])
  BY DEF FrameOk
<1>. QED
  BY <1>1, <1>2, <1>3, <1>4 DEF FrameOk

(* More globals and more impls, while the roles stay where they are.       *)
LEMMA Grow ==
  ASSUME NEW w, NEW ts, NEW k, NEW m, NEW O, StackOk(w, ts, k, m, O), NEW m2, NEW O2,
         Has(m) \subseteq Has(m2), O \subseteq O2,
         \A i \in 1..Len(k) : k[i].at = "role" => RoleAt(m2, k[i].var) = RoleAt(m, k[i].var)
  PROVE  StackOk(w, ts, k, m2, O2)
<1>1. AllOk(Without(w, Adr(k)), ts, Has(m2), O2)
  BY MoreOk DEF StackOk
<1>2. ASSUME NEW i \in 1..Len(k)
      PROVE  FrameOk(k[i], w, ts, Adr(k), m2, O2)
  <2>1. k[i] \in Frame /\ FrameOk(k[i], w, ts, Adr(k), m, O)
    BY DEF StackOk
  <2>2. Alike(k[i], w, ts, Adr(k), w, ts, Adr(k))
    BY <2>1 DEF FrameOk, BaseOk, Alike
  <2>. QED
    BY <2>1, <2>2, FrameMove
<1>. QED
  BY <1>1, <1>2 DEF StackOk

IsSum(n, p, q) == n \in Nat /\ p \in Nat /\ q \in Nat /\ n = p + q

LEMMA SizeConcat ==
  ASSUME NEW a \in Seq(Type), NEW b \in Seq(Type), NEW c, IsConcat(c, a, b)
  PROVE  IsSum(SizeOf(c), SizeOf(a), SizeOf(b))
<1>1. PICK x, y, z : /\ x = AllSlots(a) /\ y = AllSlots(b) /\ z = AllSlots(c)
                     /\ x \in Seq(Type) /\ y \in Seq(Type) /\ IsConcat(z, x, y)
  BY AllSlotsConcat, AllSlotsFacts
<1>2. x \in Seq(Type) /\ y \in Seq(Type) /\ IsConcat(z, x, y)
  BY <1>1
<1>3. IsSum(Len(z), Len(x), Len(y))
  BY ONLY <1>2, ConcatAt DEF IsSum
<1>. QED
  BY <1>1, <1>3 DEF SizeOf

LEMMA SizeUp ==
  ASSUME NEW ts \in Seq(Type), NEW a \in 0..Len(ts), NEW n, n = Len(ts)
  PROVE  /\ SubSeq(ts, 1, a) \in Seq(Type) /\ SubSeq(ts, a + 1, n) \in Seq(Type)
         /\ SizeOf(SubSeq(ts, 1, a)) \in Nat /\ SizeOf(SubSeq(ts, a + 1, n)) \in Nat /\ SizeOf(ts) \in Nat
         /\ SizeOf(ts) = SizeOf(SubSeq(ts, 1, a)) + SizeOf(SubSeq(ts, a + 1, n))
<1>1. PICK u, v : /\ u = SubSeq(ts, 1, a) /\ v = SubSeq(ts, a + 1, n)
                  /\ u \in Seq(Type) /\ v \in Seq(Type) /\ IsConcat(ts, u, v)
  <2>1. /\ SubSeq(ts, 1, a) \in Seq(Type) /\ SubSeq(ts, a + 1, n) \in Seq(Type)
        /\ IsConcat(ts, SubSeq(ts, 1, a), SubSeq(ts, a + 1, n))
    BY CutAt
  <2>. QED
    BY <2>1
<1>2. IsSum(SizeOf(ts), SizeOf(u), SizeOf(v))
  BY ONLY <1>1, SizeConcat
<1>3. SizeOf(u) \in Nat /\ SizeOf(v) \in Nat /\ SizeOf(ts) \in Nat
  BY <1>1, AllSlotsFacts
<1>. QED
  BY <1>1, <1>2, <1>3 DEF IsSum

Joined(x, y, z, c, a, b) ==
  /\ a \in Seq(Type) /\ b \in Seq(Type) /\ IsConcat(c, a, b)
  /\ y \in Seq(Word) /\ z \in Seq(Word) /\ IsConcat(x, y, z) /\ Len(y) = SizeOf(a)

LEMMA AllOkJoined ==
  ASSUME NEW D, NEW O, NEW x, NEW y, NEW z, NEW c, NEW a, NEW b, Joined(x, y, z, c, a, b)
  PROVE  AllOk(x, c, D, O) <=> AllOk(y, a, D, O) /\ AllOk(z, b, D, O)
BY AllOkConcat DEF Joined

(* What is above a position is as many slots as types, where every address *)
(* is below.                                                               *)
LEMMA SplitAt ==
  ASSUME NEW w, NEW ts, NEW at, NEW D, NEW O, NEW x, NEW y, NEW us, NEW vs,
         w \in Seq(Word) /\ ts \in Seq(Type) /\ AllOk(Without(w, at), ts, D, O),
         x \in Seq(Word) /\ y \in Seq(Word) /\ IsConcat(w, x, y) /\ \A i \in at : i \in 0..Len(x),
         us \in Seq(Type) /\ vs \in Seq(Type) /\ IsConcat(ts, us, vs) /\ Len(y) = SizeOf(vs)
  PROVE  AllOk(Without(x, at), us, D, O) /\ AllOk(y, vs, D, O)
<1>1. PICK u, v : /\ u = Without(x, at) /\ v = Without(w, at) /\ u \in Seq(Word)
                  /\ v \in Seq(Word) /\ IsConcat(v, u, y)
  <2>1. Without(x, at) \in Seq(Word) /\ Without(w, at) \in Seq(Word)
    BY WithoutType
  <2>2. Without(w, at) = Without(x, at) \o y
    <3>1. w = x \o y
      BY DEF IsConcat
    <3>. QED
      BY <3>1, WithoutConcat
  <2>. QED
    BY <2>1, <2>2 DEF IsConcat
<1>2. Len(u) = SizeOf(us)
  <2>1. PICK n, p, q, lu, ly :
          /\ n = SizeOf(ts) /\ p = SizeOf(us) /\ q = SizeOf(vs) /\ lu = Len(u) /\ ly = Len(y)
    OBVIOUS
  <2>2. Len(v) = n
    BY <1>1, <2>1, AllSlotsFacts DEF AllOk, SlotsOk
  <2>3. IsSum(Len(v), lu, ly)
    <3>1. IsSum(Len(v), Len(u), Len(y))
      <4>1. u \in Seq(Word) /\ y \in Seq(Word) /\ IsConcat(v, u, y)
        BY <1>1
      <4>. QED
        BY ONLY <4>1, ConcatAt DEF IsSum
    <3>. QED
      BY <2>1, <3>1
  <2>4. IsSum(n, p, q) /\ ly = q
    BY <2>1, SizeConcat
  <2>5. IsSum(n, lu, ly)
    BY <2>2, <2>3
  <2>6. lu = p
    BY ONLY <2>4, <2>5 DEF IsSum
  <2>. QED
    BY <2>1, <2>6
<1>3. /\ us \in Seq(Type) /\ vs \in Seq(Type) /\ IsConcat(ts, us, vs) /\ AllOk(v, ts, D, O)
      /\ u \in Seq(Word) /\ y \in Seq(Word) /\ IsConcat(v, u, y) /\ Len(u) = SizeOf(us)
  BY <1>1, <1>2
<1>4. AllOk(v, ts, D, O) <=> AllOk(u, us, D, O) /\ AllOk(y, vs, D, O)
  <2>1. Joined(v, u, y, ts, us, vs)
    BY <1>3 DEF Joined
  <2>. QED
    BY ONLY <2>1, AllOkJoined
<1>. QED
  BY <1>1, <1>3, <1>4

(* Under what has no address above it, there are as many slots as types.   *)
LEMMA Level ==
  ASSUME NEW w, NEW ts, NEW k, NEW m, NEW O, StackOk(w, ts, k, m, O), NEW i \in 1..Len(k),
         k[i].at # "meth"
  PROVE  /\ k[i].slots \in 1..Len(w) /\ k[i].types \in 0..Len(ts) /\ Len(w) \in Nat /\ Len(ts) \in Nat
         /\ SizeOf(SubSeq(ts, k[i].types + 1, Len(ts))) \in Nat
         /\ SizeOf(SubSeq(ts, k[i].types + 1, Len(ts))) <= Len(w) - k[i].slots
         /\ i = Len(k) => SizeOf(SubSeq(ts, k[i].types + 1, Len(ts))) = Len(w) - k[i].slots
<1>. DEFINE at == Adr(k)
<1>1. PICK sl, ty : sl = k[i].slots /\ ty = k[i].types
  OBVIOUS
<1>2. /\ w \in Seq(Word) /\ Len(w) \in Nat /\ ts \in Seq(Type) /\ Len(ts) \in Nat
      /\ Without(w, at) \in Seq(Word) /\ Len(Without(w, at)) = SizeOf(ts) /\ SizeOf(ts) \in Nat
      /\ \A a \in at : a \in 1..Len(w)
  BY AdrFacts
<1>3. /\ sl \in 1..Len(w) /\ ty \in 0..Len(ts)
      /\ AllOk(Without(SubSeq(w, 1, sl), at), SubSeq(ts, 1, ty), Has(m), O)
  BY <1>1 DEF StackOk, FrameOk, BaseOk
<1>4. PICK x, y : /\ x = SubSeq(w, 1, sl) /\ y = SubSeq(w, sl + 1, Len(w)) /\ IsConcat(w, x, y)
                  /\ x \in Seq(Word) /\ y \in Seq(Word) /\ Len(x) = sl /\ Len(y) = Len(w) - sl
  <2>1. sl \in 0..Len(w)
    BY <1>2, <1>3
  <2>2. /\ IsConcat(w, SubSeq(w, 1, sl), SubSeq(w, sl + 1, Len(w)))
        /\ SubSeq(w, 1, sl) \in Seq(Word) /\ SubSeq(w, sl + 1, Len(w)) \in Seq(Word)
        /\ Len(SubSeq(w, 1, sl)) = sl /\ Len(SubSeq(w, sl + 1, Len(w))) = Len(w) - sl
    BY <1>2, <2>1, CutAt
  <2>. QED
    BY <2>2
<1>5. PICK n, p, q : /\ n = SizeOf(ts) /\ p = SizeOf(SubSeq(ts, 1, ty))
                     /\ q = SizeOf(SubSeq(ts, ty + 1, Len(ts)))
                     /\ n = p + q /\ n \in Nat /\ p \in Nat /\ q \in Nat
  BY <1>2, <1>3, SizeUp
<1>6. Len(Without(x, at)) = p
  <2>1. SubSeq(ts, 1, ty) \in Seq(Type)
    BY <1>2, <1>3, SizeUp
  <2>. QED
    BY <1>3, <1>4, <1>5, <2>1, AllSlotsFacts DEF AllOk, SlotsOk
<1>7. q <= Len(w) - sl
  <2>1. w = x \o y
    BY <1>4 DEF IsConcat
  <2>2. Len(Without(w, at)) <= Len(Without(x, at)) + Len(y)
    BY <1>4, <2>1, WithoutLen
  <2>3. n <= p + (Len(w) - sl)
    BY <1>2, <1>4, <1>5, <1>6, <2>2
  <2>. QED
    BY <1>2, <1>3, <1>5, <2>3
<1>8. ASSUME i = Len(k)
      PROVE  q = Len(w) - sl
  <2>1. \A a \in at : a \in 0..Len(x)
    <3>1. ASSUME NEW j \in 1..Len(k), k[j].at = "sr"
          PROVE  k[j].slots \in 0..sl
      <4>1. k[j].slots \in 1..Len(w)
        BY <3>1 DEF StackOk, FrameOk, BaseOk
      <4>2. CASE j = i
        BY <1>1, <4>1, <4>2, <1>2
      <4>3. CASE j # i
        <5>1. j < i /\ k[j].at # "meth"
          BY <1>8, <3>1, <4>3
        <5>2. k[j].slots < sl
          BY <1>1, <5>1 DEF StackOk, InOrder
        <5>. QED
          BY <1>2, <1>3, <4>1, <5>2
      <4>. QED
        BY <4>2, <4>3
    <3>. QED
      BY <1>4, <3>1 DEF Adr
  <2>2. w = x \o y
    BY <1>4 DEF IsConcat
  <2>. HIDE DEF at
  <2>3. Without(w, at) = Without(x, at) \o y
    BY <1>4, <2>1, <2>2, WithoutConcat
  <2>4. Len(Without(w, at)) = Len(Without(x, at)) + Len(y)
    <3>1. PICK u : u = Without(x, at) /\ u \in Seq(Word)
      BY <1>4, WithoutType
    <3>2. Len(u \o y) = Len(u) + Len(y)
      BY <1>4, <3>1
    <3>. QED
      BY <2>3, <3>1, <3>2
  <2>. QED
    <3>1. n = p + (Len(w) - sl)
      BY <1>2, <1>4, <1>5, <1>6, <2>4
    <3>2. n = p + q /\ q \in Nat /\ p \in Nat /\ Len(w) \in Nat /\ sl \in 1..Len(w)
      BY <1>2, <1>3, <1>5
    <3>. QED
      BY ONLY <3>1, <3>2
<1>. HIDE DEF at
<1>. QED
  BY <1>1, <1>2, <1>3, <1>5, <1>7, <1>8

(* The top of a sequence and what is under it.                             *)
IsTop(s, n, x, y) ==
  n \in 0..Len(s) /\ x = SubSeq(s, 1, Len(s) - n) /\ y = SubSeq(s, Len(s) - n + 1, Len(s))

LEMMA TopCut ==
  ASSUME NEW S, NEW s \in Seq(S), NEW n, NEW x, NEW y, IsTop(s, n, x, y)
  PROVE  /\ x \in Seq(S) /\ Len(x) = Len(s) - n /\ y \in Seq(S) /\ Len(y) = n
         /\ IsConcat(s, x, y) /\ \A i \in 1..n : y[i] = s[Len(s) - n + i]
<1>1. PICK l, q : l = Len(s) /\ q = Len(s) - n
  OBVIOUS
<1>2. s \in Seq(S) /\ q \in 0..Len(s) /\ l - q = n /\ l = Len(s)
  BY <1>1 DEF IsTop
<1>3. /\ SubSeq(s, 1, q) \in Seq(S) /\ Len(SubSeq(s, 1, q)) = q
      /\ SubSeq(s, q + 1, l) \in Seq(S) /\ Len(SubSeq(s, q + 1, l)) = l - q
      /\ \A j \in 1..l - q : SubSeq(s, q + 1, l)[j] = s[q + j]
      /\ IsConcat(s, SubSeq(s, 1, q), SubSeq(s, q + 1, l))
  BY ONLY <1>2, CutAt
<1>4. x = SubSeq(s, 1, q) /\ y = SubSeq(s, q + 1, l)
  BY <1>1 DEF IsTop
<1>. QED
  BY <1>1, <1>2, <1>3, <1>4

(* The n types on top are not under the frames k: they can be taken from   *)
(* the stack, with the z slots that they have.                             *)
Free(k, ts, n)     == \A i \in 1..Len(k) : k[i].at # "meth" => Len(ts) - n >= k[i].types
Halves(s, n, x, y) == x = SubSeq(s, 1, Len(s) - n) /\ y = SubSeq(s, Len(s) - n + 1, Len(s))

LEMMA Taken ==
  ASSUME NEW w, NEW ts, NEW k, NEW m, NEW O, NEW n, NEW us, NEW vs, NEW z, NEW x, NEW y,
         StackOk(w, ts, k, m, O), IsTop(ts, n, us, vs), Free(k, ts, n), z = SizeOf(vs), Halves(w, z, x, y)
  PROVE  /\ StackOk(x, us, k, m, O) /\ AllOk(y, vs, Has(m), O) /\ IsTop(w, z, x, y)
         /\ x \in Seq(Word) /\ y \in Seq(Word) /\ Len(y) = z /\ Len(x) = Len(w) - z /\ IsConcat(w, x, y)
         /\ us \in Seq(InType) /\ vs \in Seq(InType) /\ Len(vs) = n /\ Len(us) = Len(ts) - n
         /\ \A i \in 1..n : vs[i] = ts[Len(ts) - n + i]
<1>0. /\ n \in 0..Len(ts) /\ us = SubSeq(ts, 1, Len(ts) - n) /\ vs = SubSeq(ts, Len(ts) - n + 1, Len(ts))
      /\ x = SubSeq(w, 1, Len(w) - z) /\ y = SubSeq(w, Len(w) - z + 1, Len(w))
      /\ \A i \in 1..Len(k) : k[i].at # "meth" => Len(ts) - n >= k[i].types
  BY DEF IsTop, Halves, Free
<1>1. PICK lw, lt, at : lw = Len(w) /\ lt = Len(ts) /\ at = Adr(k)
  OBVIOUS
<1>2. /\ w \in Seq(Word) /\ lw \in Nat /\ ts \in Seq(InType) /\ ts \in Seq(Type) /\ lt \in Nat
      /\ Without(w, at) \in Seq(Word) /\ Len(Without(w, at)) = SizeOf(ts) /\ k \in Seq(Frame)
      /\ AllOk(Without(w, at), ts, Has(m), O)
  BY <1>1, AdrFacts DEF StackOk
<1>3. /\ us \in Seq(InType) /\ vs \in Seq(InType) /\ us \in Seq(Type) /\ vs \in Seq(Type)
      /\ IsConcat(ts, us, vs) /\ Len(us) = lt - n /\ Len(vs) = n
      /\ \A i \in 1..n : vs[i] = ts[lt - n + i]
  <2>1. /\ us \in Seq(InType) /\ Len(us) = Len(ts) - n /\ vs \in Seq(InType) /\ Len(vs) = n
        /\ IsConcat(ts, us, vs) /\ \A i \in 1..n : vs[i] = ts[Len(ts) - n + i]
    <3>1. ts \in Seq(InType) /\ IsTop(ts, n, us, vs)
      BY <1>2
    <3>. QED
      BY ONLY <3>1, TopCut
  <2>. QED
    BY <1>1, <2>1, InTypeFacts
<1>4. PICK s, p : s = SizeOf(ts) /\ p = SizeOf(us) /\ IsSum(s, p, z)
  <2>1. IsSum(SizeOf(ts), SizeOf(us), SizeOf(vs))
    BY <1>3, SizeConcat
  <2>. QED
    BY <2>1
<1>5. z \in 0..lw
  <2>1. << >> \in Seq(Word) /\ << >> \o w = w /\ Len(<< >>) = 0
    BY <1>2
  <2>2. Without(<< >>, at) = << >>
    <3>1. num \in Word /\ << >> \in Seq(Word)
      BY WordFacts
    <3>. QED
      BY ONLY <3>1, WithoutAppend
  <2>3. Len(Without(<< >> \o w, at)) <= Len(Without(<< >>, at)) + Len(w)
    BY <1>2, <2>1, WithoutLen
  <2>4. s <= 0 + lw
    BY <1>1, <1>2, <1>4, <2>1, <2>2, <2>3
  <2>. QED
    BY <1>2, <1>4, <2>4 DEF IsSum
<1>6. ASSUME NEW i \in 1..Len(k), k[i].at # "meth"
      PROVE  /\ k[i].slots \in 1..lw - z /\ k[i].types \in 0..lt - n
  <2>1. PICK sl, ty, a, b, q :
           /\ sl = k[i].slots /\ ty = k[i].types /\ a = SizeOf(SubSeq(ts, 1, ty))
           /\ b = SizeOf(SubSeq(ts, ty + 1, lt)) /\ q = SizeOf(SubSeq(us, ty + 1, lt - n))
    OBVIOUS
  <2>2. sl \in 1..lw /\ ty \in 0..lt /\ b <= lw - sl
    BY <1>1, <1>6, <2>1, Level
  <2>3. ty \in 0..lt - n
    BY <1>0, <1>1, <1>2, <1>6, <2>1, <2>2
  <2>4. IsSum(s, a, b)
    BY <1>1, <1>2, <1>4, <2>1, <2>2, SizeUp DEF IsSum
  <2>5. IsSum(p, a, q)
    <3>1. SubSeq(ts, 1, ty) = SubSeq(us, 1, ty)
      <4>1. ty \in 0..Len(us) /\ us \in Seq(Type) /\ vs \in Seq(Type) /\ IsConcat(ts, us, vs)
        BY <1>3, <2>3
      <4>. QED
        BY ONLY <4>1, PrefixIs
    <3>2. /\ SizeOf(SubSeq(us, 1, ty)) \in Nat /\ SizeOf(SubSeq(us, ty + 1, lt - n)) \in Nat
          /\ SizeOf(us) \in Nat
          /\ SizeOf(us) = SizeOf(SubSeq(us, 1, ty)) + SizeOf(SubSeq(us, ty + 1, lt - n))
      <4>1. ty \in 0..Len(us) /\ us \in Seq(Type) /\ lt - n = Len(us)
        BY <1>3, <2>3
      <4>. QED
        BY ONLY <4>1, SizeUp
    <3>. QED
      BY <1>4, <2>1, <3>1, <3>2 DEF IsSum
  <2>6. sl \in 1..lw - z
    BY ONLY <1>4, <1>5, <1>2, <2>2, <2>4, <2>5 DEF IsSum
  <2>. QED
    BY <2>1, <2>3, <2>6
<1>7. /\ x \in Seq(Word) /\ y \in Seq(Word) /\ IsConcat(w, x, y) /\ Len(x) = lw - z /\ Len(y) = z
  <2>1. z \in 0..Len(w)
    BY <1>1, <1>5
  <2>2. /\ x \in Seq(Word) /\ Len(x) = Len(w) - z /\ y \in Seq(Word) /\ Len(y) = z /\ IsConcat(w, x, y)
    <3>1. w \in Seq(Word) /\ IsTop(w, z, x, y)
      BY <1>0, <1>2, <2>1 DEF IsTop
    <3>. QED
      BY ONLY <3>1, TopCut
  <2>. QED
    BY <1>1, <2>2
<1>8. \A i \in at : i \in 0..Len(x)
  <2>1. \A j \in 1..Len(k) : k[j].at = "sr" => k[j].slots \in 0..Len(x)
    <3>1. ASSUME NEW j \in 1..Len(k), k[j].at = "sr"
          PROVE  k[j].slots \in 0..Len(x)
      <4>1. k[j].slots \in 1..lw - z
        BY <1>6, <3>1
      <4>. QED
        BY <1>7, <4>1
    <3>. QED
      BY <3>1
  <2>. QED
    BY <1>1, <2>1 DEF Adr
<1>9. AllOk(Without(x, at), us, Has(m), O) /\ AllOk(y, vs, Has(m), O)
  <2>1. /\ w \in Seq(Word) /\ ts \in Seq(Type) /\ AllOk(Without(w, at), ts, Has(m), O)
        /\ x \in Seq(Word) /\ y \in Seq(Word) /\ IsConcat(w, x, y) /\ \A i \in at : i \in 0..Len(x)
        /\ us \in Seq(Type) /\ vs \in Seq(Type) /\ IsConcat(ts, us, vs) /\ Len(y) = SizeOf(vs)
    BY <1>2, <1>3, <1>7, <1>8
  <2>. QED
    BY ONLY <2>1, SplitAt
<1>10. ASSUME NEW i \in 1..Len(k)
       PROVE  FrameOk(k[i], x, us, at, m, O)
  <2>1. k[i] \in Frame /\ FrameOk(k[i], w, ts, at, m, O)
    BY <1>1, <1>2 DEF StackOk
  <2>2. Alike(k[i], w, ts, at, x, us, at)
    <3>1. ASSUME k[i].at # "meth"
          PROVE  /\ k[i].slots \in 1..Len(x) /\ k[i].types \in 0..Len(us)
                 /\ SubSeq(x, 1, k[i].slots) = SubSeq(w, 1, k[i].slots) /\ x[k[i].slots] = w[k[i].slots]
                 /\ SubSeq(us, 1, k[i].types) = SubSeq(ts, 1, k[i].types)
                 /\ (k[i].types > 0 => us[k[i].types] = ts[k[i].types])
      <4>1. PICK sl, ty : sl = k[i].slots /\ ty = k[i].types /\ sl \in 1..Len(x) /\ ty \in 0..Len(us)
        BY <1>3, <1>6, <1>7, <3>1
      <4>2. sl \in 0..Len(x) /\ sl \in 1..sl /\ (ty > 0 => ty \in 1..ty)
        BY ONLY <4>1
      <4>3. SubSeq(w, 1, sl) = SubSeq(x, 1, sl) /\ \A j \in 1..sl : w[j] = x[j]
        BY ONLY <1>7, <4>2, PrefixIs
      <4>4. SubSeq(ts, 1, ty) = SubSeq(us, 1, ty) /\ \A j \in 1..ty : ts[j] = us[j]
        BY ONLY <1>3, <4>1, PrefixIs
      <4>. QED
        BY <4>1, <4>2, <4>3, <4>4
    <3>. QED
      BY <3>1 DEF Alike
  <2>. QED
    BY <2>1, <2>2, FrameMove
<1>11. StackOk(x, us, k, m, O)
  BY <1>1, <1>2, <1>3, <1>7, <1>9, <1>10 DEF StackOk
<1>12. IsTop(w, z, x, y)
  BY <1>0, <1>1, <1>5 DEF IsTop
<1>. QED
  BY <1>1, <1>3, <1>7, <1>9, <1>11, <1>12

(* Values are put on top.                                                  *)
LEMMA Put ==
  ASSUME NEW w, NEW ts, NEW k, NEW m, NEW O, StackOk(w, ts, k, m, O),
         NEW x, NEW us, us \in Seq(InType), AllOk(x, us, Has(m), O),
         NEW w2, IsConcat(w2, w, x), NEW ts2, IsConcat(ts2, ts, us)
  PROVE  StackOk(w2, ts2, k, m, O)
<1>1. PICK at : at = Adr(k)
  OBVIOUS
<1>2. /\ w \in Seq(Word) /\ Len(w) \in Nat /\ ts \in Seq(InType) /\ ts \in Seq(Type) /\ Len(ts) \in Nat
      /\ Without(w, at) \in Seq(Word) /\ Len(Without(w, at)) = SizeOf(ts) /\ k \in Seq(Frame)
      /\ AllOk(Without(w, at), ts, Has(m), O) /\ \A a \in at : a \in 1..Len(w)
  BY <1>1, AdrFacts DEF StackOk
<1>3. x \in Seq(Word) /\ us \in Seq(Type)
  BY InTypeFacts DEF AllOk, SlotsOk
<1>4. /\ w2 \in Seq(Word) /\ Len(w2) = Len(w) + Len(x) /\ Len(x) \in Nat
  BY <1>2, <1>3, ConcatAt
<1>5. ts2 \in Seq(InType) /\ ts2 \in Seq(Type) /\ Len(ts2) = Len(ts) + Len(us) /\ Len(us) \in Nat
  BY <1>2, ConcatAt, InTypeFacts
<1>6. AllOk(Without(w2, at), ts2, Has(m), O)
  <2>1. \A a \in at : a \in 0..Len(w)
    BY <1>2
  <2>2. w2 = w \o x
    BY DEF IsConcat
  <2>3. Without(w2, at) = Without(w, at) \o x
    BY <1>2, <1>3, <2>1, <2>2, WithoutConcat
  <2>4. Joined(Without(w2, at), Without(w, at), x, ts2, ts, us)
    BY <1>2, <1>3, <2>3 DEF Joined, IsConcat
  <2>. QED
    BY <1>2, <2>4, AllOkJoined
<1>7. ASSUME NEW i \in 1..Len(k)
      PROVE  FrameOk(k[i], w2, ts2, at, m, O)
  <2>1. k[i] \in Frame /\ FrameOk(k[i], w, ts, at, m, O)
    BY <1>1, <1>2 DEF StackOk
  <2>2. Alike(k[i], w, ts, at, w2, ts2, at)
    <3>1. ASSUME k[i].at # "meth"
          PROVE  /\ k[i].slots \in 1..Len(w2) /\ k[i].types \in 0..Len(ts2)
                 /\ SubSeq(w2, 1, k[i].slots) = SubSeq(w, 1, k[i].slots) /\ w2[k[i].slots] = w[k[i].slots]
                 /\ SubSeq(ts2, 1, k[i].types) = SubSeq(ts, 1, k[i].types)
                 /\ (k[i].types > 0 => ts2[k[i].types] = ts[k[i].types])
      <4>1. PICK sl, ty : sl = k[i].slots /\ ty = k[i].types /\ sl \in 1..Len(w) /\ ty \in 0..Len(ts)
        BY <2>1, <3>1 DEF FrameOk, BaseOk
      <4>2. sl \in 0..Len(w) /\ sl \in 1..sl /\ (ty > 0 => ty \in 1..ty) /\ sl \in 1..Len(w2)
                /\ ty \in 0..Len(ts2)
        BY <1>2, <1>4, <1>5, <4>1, SMTT(40)
      <4>3. SubSeq(w2, 1, sl) = SubSeq(w, 1, sl) /\ \A j \in 1..sl : w2[j] = w[j]
        BY <1>2, <1>3, <4>2, PrefixIs
      <4>4. SubSeq(ts2, 1, ty) = SubSeq(ts, 1, ty) /\ \A j \in 1..ty : ts2[j] = ts[j]
        BY <1>2, <1>3, <4>1, PrefixIs
      <4>. QED
        BY <4>1, <4>2, <4>3, <4>4
    <3>. QED
      BY <3>1 DEF Alike
  <2>. QED
    BY <2>1, <2>2, FrameMove
<1>. QED
  BY <1>1, <1>2, <1>4, <1>5, <1>6, <1>7 DEF StackOk

IsAppend(q, s, e) == q = Append(s, e)

LEMMA FrameAppend ==
  ASSUME NEW k \in Seq(Frame), NEW c \in Frame, NEW k2, IsAppend(k2, k, c)
  PROVE  /\ k2 \in Seq(Frame) /\ Len(k) \in Nat /\ Len(k2) = Len(k) + 1 /\ k2[Len(k) + 1] = c
         /\ \A i \in 1..Len(k) : k2[i] = k[i]
         /\ \A i \in 1..Len(k2) : i \in 1..Len(k) \/ i = Len(k) + 1
         /\ c.at = "sr" => Adr(k2) = Adr(k) \union {c.slots}
         /\ c.at # "sr" => Adr(k2) = Adr(k)
<1>1. /\ k2 \in Seq(Frame) /\ Len(k) \in Nat /\ Len(k2) = Len(k) + 1 /\ k2[Len(k) + 1] = c
      /\ \A i \in 1..Len(k) : k2[i] = k[i]
      /\ \A i \in 1..Len(k2) : i \in 1..Len(k) \/ i = Len(k) + 1
      /\ Len(k) + 1 \in 1..Len(k2) /\ \A i \in 1..Len(k) : i \in 1..Len(k2)
  BY DEF IsAppend
<1>2. \A a : a \in Adr(k2) <=> a \in Adr(k) \/ (c.at = "sr" /\ a = c.slots)
  BY <1>1 DEF Adr
<1>. QED
  BY <1>1, <1>2

(* One more frame waits, above the others.                                 *)
LEMMA PushFrame ==
  ASSUME NEW w, NEW ts, NEW k \in Seq(Frame), NEW c \in Frame, NEW m, NEW O, NEW k2, k2 = Append(k, c),
         w \in Seq(Word), ts \in Seq(InType), AllOk(Without(w, Adr(k2)), ts, Has(m), O),
         \A i \in 1..Len(k) : FrameOk(k[i], w, ts, Adr(k2), m, O), FrameOk(c, w, ts, Adr(k2), m, O),
         InOrder(k), c.at # "meth" => \A i \in 1..Len(k) : k[i].at # "meth" => k[i].slots < c.slots
  PROVE  StackOk(w, ts, k2, m, O)
<1>1. /\ k2 \in Seq(Frame) /\ Len(k) \in Nat /\ Len(k2) = Len(k) + 1 /\ k2[Len(k) + 1] = c
      /\ \A i \in 1..Len(k) : k2[i] = k[i]
      /\ \A i \in 1..Len(k2) : i \in 1..Len(k) \/ i = Len(k) + 1
  <2>1. IsAppend(k2, k, c)
    BY DEF IsAppend
  <2>. QED
    BY <2>1, FrameAppend
<1>2. \A i \in 1..Len(k2) : FrameOk(k2[i], w, ts, Adr(k2), m, O)
  BY <1>1
<1>3. InOrder(k2)
  <2>1. ASSUME NEW i \in 1..Len(k2), NEW j \in 1..Len(k2), i < j, k2[i].at # "meth", k2[j].at # "meth"
        PROVE  k2[i].slots < k2[j].slots
    <3>1. i \in 1..Len(k)
      BY <1>1, <2>1
    <3>2. CASE j \in 1..Len(k)
      BY <1>1, <2>1, <3>1, <3>2 DEF InOrder
    <3>3. CASE j = Len(k) + 1
      BY <1>1, <2>1, <3>1, <3>3
    <3>. QED
      BY <1>1, <3>2, <3>3
  <2>. QED
    BY <2>1 DEF InOrder
<1>. QED
  BY <1>1, <1>2, <1>3 DEF StackOk

LEMMA AppendConcat ==
  ASSUME NEW S, NEW s \in Seq(S), NEW e \in S, NEW q, IsAppend(q, s, e)
  PROVE  /\ IsConcat(q, s, <<e>>) /\ <<e>> \in Seq(S) /\ q \in Seq(S) /\ Len(s) \in Nat
         /\ Len(q) = Len(s) + 1
         /\ q[Len(s) + 1] = e /\ SubSeq(q, 1, Len(q)) = q /\ \A i \in 1..Len(s) : q[i] = s[i]
<1>1. q = s \o <<e>>
  BY DEF IsAppend
<1>2. /\ <<e>> \in Seq(S) /\ q \in Seq(S) /\ Len(s) \in Nat /\ Len(q) = Len(s) + 1
      /\ q[Len(s) + 1] = e /\ \A i \in 1..Len(s) : q[i] = s[i]
  BY DEF IsAppend
<1>3. SubSeq(q, 1, Len(q)) = q
  BY <1>2
<1>. QED
  BY <1>1, <1>2, <1>3 DEF IsConcat

(* The address of a store that waits is on the stack.                      *)
LEMMA SrAt ==
  ASSUME NEW w, NEW ts, NEW k, NEW m, NEW O, StackOk(w, ts, k, m, O), NEW i \in 1..Len(k),
         k[i].at # "meth"
  PROVE  k[i].slots \in 1..Len(w) /\ k[i].types \in 0..Len(ts)
BY DEF StackOk, FrameOk, BaseOk

(* An address is left on the stack, under a store that waits.              *)
LEMMA PushSr ==
  ASSUME NEW w, NEW ts, NEW k, NEW m, NEW O, StackOk(w, ts, k, m, O),
         NEW v, v \in Word, NEW c, c \in Frame, c.at = "sr", c.slots = Len(w) + 1, c.types = Len(ts),
         c.ty.ty # "Self", c.ty.refs < 2, c.ty.refs = 0 => c.ty.ty \in Native \union Struct,
         SlotOk(v, T(c.ty.refs + 1, c.ty.ty), Has(m))
  PROVE  StackOk(Append(w, v), ts, Append(k, c), m, O)
<1>1. PICK k2, w2 : k2 = Append(k, c) /\ w2 = Append(w, v)
  OBVIOUS
<1>2. /\ w \in Seq(Word) /\ Len(w) \in Nat /\ ts \in Seq(InType) /\ ts \in Seq(Type) /\ Len(ts) \in Nat
      /\ k \in Seq(Frame) /\ AllOk(Without(w, Adr(k)), ts, Has(m), O) /\ \A a \in Adr(k) : a \in 1..Len(w)
      /\ InOrder(k)
  BY AdrFacts DEF StackOk
<1>3. Adr(k2) = Adr(k) \union {Len(w) + 1}
  <2>1. k \in Seq(Frame) /\ c \in Frame /\ IsAppend(k2, k, c)
    BY <1>1, <1>2 DEF IsAppend
  <2>2. c.at = "sr" => Adr(k2) = Adr(k) \union {c.slots}
    BY ONLY <2>1, FrameAppend
  <2>. QED
    BY <2>2
<1>4. /\ IsConcat(w2, w, <<v>>) /\ <<v>> \in Seq(Word) /\ w2 \in Seq(Word) /\ Len(w2) = Len(w) + 1
      /\ w2[Len(w) + 1] = v /\ SubSeq(w2, 1, Len(w2)) = w2 /\ \A i \in 1..Len(w) : w2[i] = w[i]
  <2>1. w \in Seq(Word) /\ v \in Word /\ IsAppend(w2, w, v)
    BY <1>1, <1>2 DEF IsAppend
  <2>. QED
    BY ONLY <2>1, AppendConcat
<1>5. \A n \in 0..Len(w) : Without(SubSeq(w, 1, n), Adr(k2)) = Without(SubSeq(w, 1, n), Adr(k))
  <2>1. ASSUME NEW n \in 0..Len(w)
        PROVE  Without(SubSeq(w, 1, n), Adr(k2)) = Without(SubSeq(w, 1, n), Adr(k))
    <3>1. SubSeq(w, 1, n) \in Seq(Word) /\ Len(SubSeq(w, 1, n)) = n
      BY <1>2, CutAt
    <3>2. \A i \in 1..Len(SubSeq(w, 1, n)) : i \in Adr(k2) <=> i \in Adr(k)
      BY <1>2, <1>3, <3>1
    <3>. QED
      BY <3>1, <3>2, WithoutSame
  <2>. QED
    BY <2>1
<1>6. Without(w, Adr(k2)) = Without(w, Adr(k))
  <2>1. \A i \in 1..Len(w) : i \in Adr(k2) <=> i \in Adr(k)
    BY <1>2, <1>3
  <2>. QED
    BY <1>2, <2>1, WithoutSame
<1>7. Without(w2, Adr(k2)) = Without(w, Adr(k))
  <2>1. Len(w) + 1 \in Adr(k2)
    BY <1>3
  <2>2. Without(Append(w, v), Adr(k2)) = IF Len(w) + 1 \in Adr(k2)
            THEN Without(w, Adr(k2)) ELSE Append(Without(w, Adr(k2)), v)
    BY <1>2, WithoutAppend
  <2>. QED
    BY <1>1, <1>6, <2>1, <2>2
<1>8. AllOk(Without(w2, Adr(k2)), ts, Has(m), O)
  BY <1>2, <1>7
<1>9. ASSUME NEW i \in 1..Len(k)
      PROVE  /\ FrameOk(k[i], w2, ts, Adr(k2), m, O)
             /\ k[i].at # "meth" => k[i].slots < c.slots
  <2>1. k[i] \in Frame /\ FrameOk(k[i], w, ts, Adr(k), m, O)
    BY <1>2 DEF StackOk
  <2>2. k[i].at # "meth" => k[i].slots < c.slots
    BY <1>2, SrAt
  <2>3. Alike(k[i], w, ts, Adr(k), w2, ts, Adr(k2))
    <3>1. ASSUME k[i].at # "meth"
          PROVE  /\ k[i].slots \in 1..Len(w2) /\ k[i].types \in 0..Len(ts)
                 /\ SubSeq(w2, 1, k[i].slots) = SubSeq(w, 1, k[i].slots) /\ w2[k[i].slots] = w[k[i].slots]
                 /\ Without(SubSeq(w, 1, k[i].slots), Adr(k2)) = Without(SubSeq(w, 1, k[i].slots), Adr(k))
      <4>1. PICK sl : sl = k[i].slots /\ sl \in 1..Len(w) /\ k[i].types \in 0..Len(ts)
        BY <3>1, SrAt
      <4>2. sl \in 0..Len(w) /\ sl \in 1..sl /\ sl \in 1..Len(w2)
        BY <1>2, <1>4, <4>1
      <4>3. SubSeq(w2, 1, sl) = SubSeq(w, 1, sl) /\ \A j \in 1..sl : w2[j] = w[j]
        BY <1>2, <1>4, <4>2, PrefixIs
      <4>. QED
        BY <1>5, <4>1, <4>2, <4>3
    <3>. QED
      BY <3>1 DEF Alike
  <2>. QED
    BY <2>1, <2>2, <2>3, FrameMove
<1>10. FrameOk(c, w2, ts, Adr(k2), m, O)
  <2>1. SubSeq(ts, 1, Len(ts)) = ts
    BY <1>2
  <2>2. /\ c.slots \in 1..Len(w2) /\ c.types \in 0..Len(ts)
        /\ SubSeq(w2, 1, c.slots) = w2 /\ SubSeq(ts, 1, c.types) = ts /\ w2[c.slots] = v
    BY <1>2, <1>4, <2>1
  <2>3. BaseOk(c, w2, ts, Adr(k2), Has(m), O)
    BY <1>8, <2>2 DEF BaseOk
  <2>4. StoreOk(c, w2, Has(m))
    BY <2>2 DEF StoreOk
  <2>. QED
    BY <2>3, <2>4 DEF FrameOk
<1>. QED
  BY <1>1, <1>2, <1>4, <1>8, <1>9, <1>10, PushFrame

LEMMA OneSlot ==
  ASSUME NEW t \in Type, t.refs > 0 \/ t.ty \in Native, NEW d, NEW D, NEW O
  PROVE  /\ AllOk(<<d>>, <<t>>, D, O) <=> d \in Word /\ SlotOk(d, t, D)
         /\ Size(t) = 1 /\ SizeOf(<<t>>) = 1
<1>1. SlotsOf(t) = <<t>> /\ Len(<<t>>) = 1 /\ <<t>>[1] = t
  BY SlotsOfFacts
<1>2. t # T(0, Role)
  BY NamesAssumption, TFacts
<1>3. <<d>> \in Seq(Word) <=> d \in Word
  OBVIOUS
<1>4. Len(<<d>>) = 1 /\ <<d>>[1] = d /\ \A i \in 1..1 : i = 1
  OBVIOUS
<1>5. SlotsOk(<<d>>, <<t>>, D, O) <=> d \in Word /\ SlotOk(d, t, D)
  BY <1>1, <1>2, <1>3, <1>4 DEF SlotsOk
<1>6. AllOk(<<d>>, <<t>>, D, O) <=> SlotsOk(<<d>>, SlotsOf(t), D, O)
  BY OneOk
<1>. QED
  BY <1>1, <1>5, <1>6, AllSlotsOne DEF Size

(* The data of a role is put on the stack, for a call that waits.          *)
LEMMA PushRole ==
  ASSUME NEW w, NEW ts, NEW k, NEW m, NEW O, StackOk(w, ts, k, m, O),
         NEW d, d \in Word, SlotOk(d, rSelf, Has(m)),
         NEW c, c \in Frame, c.at = "role", c.slots = Len(w) + 1, c.types = Len(ts) + 1,
         c.var \in Has(m), Global[c.var].ty = Role, Global[c.var].refs < 2,
         rSelf \notin Range(Op[c.op].inp), d = RoleAt(m, c.var)[1]
  PROVE  StackOk(Append(w, d), Append(ts, rSelf), Append(k, c), m, O)
<1>1. PICK k2, w2, ts2 : k2 = Append(k, c) /\ w2 = Append(w, d) /\ ts2 = Append(ts, rSelf)
  OBVIOUS
<1>2. /\ w \in Seq(Word) /\ Len(w) \in Nat /\ ts \in Seq(InType) /\ Len(ts) \in Nat /\ k \in Seq(Frame)
      /\ InOrder(k)
  BY AdrFacts DEF StackOk
<1>3. /\ IsConcat(w2, w, <<d>>) /\ <<d>> \in Seq(Word) /\ w2 \in Seq(Word) /\ Len(w2) = Len(w) + 1
      /\ w2[Len(w) + 1] = d /\ SubSeq(w2, 1, Len(w2)) = w2
  <2>1. w \in Seq(Word) /\ d \in Word /\ IsAppend(w2, w, d)
    BY <1>1, <1>2 DEF IsAppend
  <2>. QED
    BY ONLY <2>1, AppendConcat
<1>4. /\ IsConcat(ts2, ts, <<rSelf>>) /\ <<rSelf>> \in Seq(InType) /\ ts2 \in Seq(InType)
      /\ Len(ts2) = Len(ts) + 1
      /\ ts2[Len(ts) + 1] = rSelf /\ SubSeq(ts2, 1, Len(ts2)) = ts2
  <2>1. ts \in Seq(InType) /\ rSelf \in InType /\ IsAppend(ts2, ts, rSelf)
    BY <1>1, <1>2, InTypeFacts DEF IsAppend
  <2>. QED
    BY ONLY <2>1, AppendConcat
<1>5. AllOk(<<d>>, <<rSelf>>, Has(m), O)
  <2>1. rSelf \in Type /\ rSelf.refs > 0
    BY InTypeFacts, TFacts DEF rSelf
  <2>. QED
    BY <2>1, OneSlot
<1>6. StackOk(w2, ts2, k, m, O)
  BY <1>3, <1>4, <1>5, Put
<1>7. Adr(k2) = Adr(k)
  <2>1. k \in Seq(Frame) /\ c \in Frame /\ IsAppend(k2, k, c)
    BY <1>1, <1>2 DEF IsAppend
  <2>2. c.at # "sr" => Adr(k2) = Adr(k)
    BY ONLY <2>1, FrameAppend
  <2>. QED
    BY <2>2
<1>8. /\ AllOk(Without(w2, Adr(k2)), ts2, Has(m), O)
      /\ \A i \in 1..Len(k) : FrameOk(k[i], w2, ts2, Adr(k2), m, O)
  BY <1>6, <1>7 DEF StackOk
<1>9. FrameOk(c, w2, ts2, Adr(k2), m, O)
  <2>1. /\ c.slots \in 1..Len(w2) /\ c.types \in 0..Len(ts2) /\ c.types > 0
        /\ SubSeq(w2, 1, c.slots) = w2 /\ SubSeq(ts2, 1, c.types) = ts2 /\ w2[c.slots] = d
        /\ ts2[c.types] = rSelf
    BY <1>2, <1>3, <1>4
  <2>2. BaseOk(c, w2, ts2, Adr(k2), Has(m), O)
    BY <1>8, <2>1 DEF BaseOk
  <2>3. CallOk(c, w2, ts2, m)
    BY <2>1 DEF CallOk
  <2>. QED
    BY <2>2, <2>3 DEF FrameOk
<1>10. \A i \in 1..Len(k) : k[i].at # "meth" => k[i].slots < c.slots
  BY <1>2, SrAt
<1>. QED
  BY <1>1, <1>2, <1>3, <1>4, <1>8, <1>9, <1>10, PushFrame

(* A method call waits for its arguments.                                  *)
LEMMA PushMeth ==
  ASSUME NEW w, NEW ts, NEW k, NEW m, NEW O, StackOk(w, ts, k, m, O),
         NEW c, c \in Frame, c.at = "meth", c.code[1] \in Range(Lineage[c.self])
  PROVE  StackOk(w, ts, Append(k, c), m, O)
<1>1. PICK k2 : k2 = Append(k, c)
  OBVIOUS
<1>2. w \in Seq(Word) /\ ts \in Seq(InType) /\ k \in Seq(Frame) /\ InOrder(k)
  BY DEF StackOk
<1>3. Adr(k2) = Adr(k)
  <2>1. k \in Seq(Frame) /\ c \in Frame /\ IsAppend(k2, k, c)
    BY <1>1, <1>2 DEF IsAppend
  <2>2. c.at # "sr" => Adr(k2) = Adr(k)
    BY ONLY <2>1, FrameAppend
  <2>. QED
    BY <2>2
<1>4. /\ AllOk(Without(w, Adr(k2)), ts, Has(m), O)
      /\ \A i \in 1..Len(k) : FrameOk(k[i], w, ts, Adr(k2), m, O)
  BY <1>3 DEF StackOk
<1>5. FrameOk(c, w, ts, Adr(k2), m, O)
  BY DEF FrameOk
<1>. QED
  BY <1>1, <1>2, <1>4, <1>5, PushFrame

(* A call goes when it is made, and its frame with it.                     *)
LEMMA PopCall ==
  ASSUME NEW w, NEW ts, NEW k2, NEW m, NEW O, StackOk(w, ts, k2, m, O),
         NEW k, k \in Seq(Frame), NEW c, c \in Frame, IsAppend(k2, k, c), c.at # "sr"
  PROVE  StackOk(w, ts, k, m, O)
<1>1. /\ k2 \in Seq(Frame) /\ Len(k) \in Nat /\ Len(k2) = Len(k) + 1 /\ k2[Len(k) + 1] = c
      /\ \A i \in 1..Len(k) : k2[i] = k[i]
      /\ c.at # "sr" => Adr(k2) = Adr(k)
  <2>1. k \in Seq(Frame) /\ c \in Frame /\ IsAppend(k2, k, c)
    OBVIOUS
  <2>. QED
    BY ONLY <2>1, FrameAppend
<1>2. Adr(k2) = Adr(k) /\ \A i \in 1..Len(k) : i \in 1..Len(k2)
  BY <1>1
<1>3. \A i \in 1..Len(k) : FrameOk(k[i], w, ts, Adr(k), m, O)
  BY <1>1, <1>2 DEF StackOk
<1>4. InOrder(k)
  BY <1>1, <1>2 DEF StackOk, InOrder
<1>. QED
  BY <1>2, <1>3, <1>4 DEF StackOk

(* A store goes, with its address.                                         *)
LEMMA PopSr ==
  ASSUME NEW w, NEW ts, NEW k2, NEW m, NEW O, StackOk(w, ts, k2, m, O),
         NEW k, k \in Seq(Frame), NEW c, c \in Frame, IsAppend(k2, k, c), c.at = "sr", c.types = Len(ts)
  PROVE  /\ Len(w) \in Nat /\ Len(w) > 0 /\ StackOk(SubSeq(w, 1, Len(w) - 1), ts, k, m, O)
         /\ c.ty.ty # "Self" /\ c.ty.refs < 2 /\ (c.ty.refs = 0 => c.ty.ty \in Native \union Struct)
         /\ SlotOk(w[Len(w)], T(c.ty.refs + 1, c.ty.ty), Has(m))
<1>1. PICK n, at, at2 : n = Len(k) /\ at = Adr(k) /\ at2 = Adr(k2)
  OBVIOUS
<1>2. /\ k2 \in Seq(Frame) /\ n \in Nat /\ Len(k2) = n + 1 /\ k2[n + 1] = c
      /\ \A i \in 1..n : k2[i] = k[i]
      /\ at2 = at \union {c.slots}
  <2>1. k \in Seq(Frame) /\ c \in Frame /\ IsAppend(k2, k, c)
    OBVIOUS
  <2>2. /\ k2 \in Seq(Frame) /\ Len(k) \in Nat /\ Len(k2) = Len(k) + 1 /\ k2[Len(k) + 1] = c
        /\ \A i \in 1..Len(k) : k2[i] = k[i]
        /\ c.at = "sr" => Adr(k2) = Adr(k) \union {c.slots}
    BY ONLY <2>1, FrameAppend
  <2>. QED
    BY <1>1, <2>2
<1>3. /\ w \in Seq(Word) /\ Len(w) \in Nat /\ ts \in Seq(InType) /\ ts \in Seq(Type) /\ Len(ts) \in Nat
      /\ AllOk(Without(w, at2), ts, Has(m), O)
  BY <1>1, AdrFacts DEF StackOk
<1>4. n + 1 \in 1..Len(k2) /\ \A i \in 1..n : i \in 1..Len(k2)
  BY <1>2
<1>5. c.slots = Len(w) /\ Len(w) > 0
  <2>1. /\ k2[n + 1].slots \in 1..Len(w)
        /\ SizeOf(SubSeq(ts, k2[n + 1].types + 1, Len(ts))) = Len(w) - k2[n + 1].slots
    BY <1>2, <1>4, Level
  <2>2. SubSeq(ts, Len(ts) + 1, Len(ts)) = << >>
    BY <1>3
  <2>3. 0 = Len(w) - c.slots /\ c.slots \in 1..Len(w)
    BY <1>2, <2>1, <2>2, AllSlotsOne
  <2>. QED
    BY <1>3, <2>3
<1>6. PICK x, e : x \in Seq(Word) /\ e \in Word /\ w = Append(x, e)
  <2>1. w # << >>
    BY <1>3, <1>5
  <2>. QED
    BY <1>3, <2>1, SequenceEmptyOrAppend
<1>7. /\ Len(x) \in Nat /\ Len(w) = Len(x) + 1 /\ w[Len(x) + 1] = e /\ IsConcat(w, x, <<e>>)
      /\ <<e>> \in Seq(Word)
      /\ x = SubSeq(w, 1, Len(w) - 1)
  <2>1. x \in Seq(Word) /\ e \in Word /\ IsAppend(w, x, e)
    BY <1>6 DEF IsAppend
  <2>2. /\ Len(x) \in Nat /\ Len(w) = Len(x) + 1 /\ w[Len(x) + 1] = e /\ IsConcat(w, x, <<e>>)
        /\ <<e>> \in Seq(Word)
    BY ONLY <2>1, AppendConcat
  <2>3. x = SubSeq(w, 1, Len(w) - 1)
    BY <1>6
  <2>. QED
    BY <2>2, <2>3
<1>8. \A i \in 1..Len(x) : i \in at2 <=> i \in at
  BY <1>2, <1>5, <1>7
<1>9. Without(w, at2) = Without(x, at)
  <2>1. Without(Append(x, e), at2) = IF Len(x) + 1 \in at2
            THEN Without(x, at2) ELSE Append(Without(x, at2), e)
    BY <1>6, WithoutAppend
  <2>2. Len(x) + 1 \in at2
    BY <1>2, <1>5, <1>7
  <2>3. Without(x, at2) = Without(x, at)
    BY <1>6, <1>8, WithoutSame
  <2>. QED
    BY <1>6, <2>1, <2>2, <2>3
<1>10. ASSUME NEW i \in 1..n
       PROVE  FrameOk(k[i], x, ts, at, m, O)
  <2>1. k[i] \in Frame /\ FrameOk(k[i], w, ts, at2, m, O)
    <3>1. i \in 1..Len(k2) /\ k2[i] = k[i] /\ i \in 1..Len(k)
      BY <1>1, <1>2, <1>4
    <3>2. FrameOk(k2[i], w, ts, Adr(k2), m, O)
      BY <3>1 DEF StackOk
    <3>. QED
      BY <1>1, <3>1, <3>2
  <2>2. Alike(k[i], w, ts, at2, x, ts, at)
    <3>1. ASSUME k[i].at # "meth"
          PROVE  /\ k[i].slots \in 1..Len(x) /\ k[i].types \in 0..Len(ts)
                 /\ SubSeq(x, 1, k[i].slots) = SubSeq(w, 1, k[i].slots) /\ x[k[i].slots] = w[k[i].slots]
                 /\ Without(SubSeq(w, 1, k[i].slots), at) = Without(SubSeq(w, 1, k[i].slots), at2)
      <4>1. PICK sl : sl = k[i].slots /\ sl \in 1..Len(w) /\ k[i].types \in 0..Len(ts)
        BY <1>2, <1>4, <3>1, SrAt
      <4>2. sl < Len(w)
        <5>1. i < n + 1 /\ c.at # "meth" /\ k2[i].at # "meth"
          BY <1>2, <3>1
        <5>2. k2[i].slots < k2[n + 1].slots
          BY <1>2, <1>4, <5>1 DEF StackOk, InOrder
        <5>. QED
          BY <1>2, <1>5, <4>1, <5>2
      <4>3. sl \in 1..Len(x) /\ sl \in 0..Len(x) /\ sl \in 1..sl
        BY ONLY <1>7, <4>1, <4>2
      <4>4. /\ SubSeq(w, 1, sl) = SubSeq(x, 1, sl) /\ \A j \in 1..sl : w[j] = x[j]
            /\ SubSeq(x, 1, sl) \in Seq(Word) /\ Len(SubSeq(x, 1, sl)) = sl
        BY <1>6, <1>7, <4>3, PrefixIs
      <4>5. Without(SubSeq(x, 1, sl), at2) = Without(SubSeq(x, 1, sl), at)
        <5>1. \A j \in 1..Len(SubSeq(x, 1, sl)) : j \in at2 <=> j \in at
          BY <1>7, <1>8, <4>3, <4>4
        <5>. QED
          BY <4>4, <5>1, WithoutSame
      <4>. QED
        BY <4>1, <4>3, <4>4, <4>5
    <3>. QED
      BY <3>1 DEF Alike
  <2>. QED
    BY <2>1, <2>2, FrameMove
<1>11. InOrder(k)
  BY <1>1, <1>2, <1>4 DEF StackOk, InOrder
<1>12. StackOk(x, ts, k, m, O)
  BY <1>1, <1>3, <1>6, <1>9, <1>10, <1>11 DEF StackOk
<1>13. StoreOk(c, w, Has(m))
  BY <1>2, <1>4 DEF StackOk, FrameOk
<1>. QED
  BY <1>3, <1>5, <1>7, <1>12, <1>13 DEF StoreOk

LEMMA LastFrame ==
  ASSUME NEW k, k \in Seq(Frame), k # << >>
  PROVE  Front(k) \in Seq(Frame) /\ Last(k) \in Frame /\ IsAppend(k, Front(k), Last(k))
      /\ Last(k) = k[Len(k)]
BY DEF Front, Last, IsAppend

-----------------------------------------------------------------------------
(* Statements.                                                             *)

(* What Kern_errCleanup leaves.                                            *)
LEMMA EmptyStack ==
  ASSUME NEW m, NEW O
  PROVE  StackOk(<< >>, << >>, << >>, m, O)
<1>1. << >> \in Seq(Word) /\ << >> \in Seq(InType) /\ << >> \in Seq(Frame) /\ Len(<< >>) = 0
  OBVIOUS
<1>2. Without(<< >>, Adr(<< >>)) = << >>
  <2>1. num \in Word
    BY WordFacts
  <2>. QED
    BY ONLY <1>1, <2>1, WithoutAppend
<1>3. \A i \in 1..0 : FALSE
  OBVIOUS
<1>4. AllOk(<< >>, << >>, Has(m), O)
  <2>1. AllSlots(<< >>) = << >>
    BY AllSlotsOne
  <2>. QED
    BY <1>1, <1>3, <2>1 DEF AllOk, SlotsOk
<1>5. InOrder(<< >>)
  BY <1>1, <1>3 DEF InOrder
<1>. QED
  BY <1>1, <1>2, <1>3, <1>4, <1>5 DEF StackOk

LEMMA StmtFacts ==
  ASSUME TypesInv, Stmt
  PROVE  /\ phase = "run" /\ StackOk(ws, tys, ctl, mem, opened) /\ MemOk(mem, opened) /\ faults = {}
         /\ opened \subseteq Struct /\ meths \subseteq DOMAIN Method /\ ImplsOk /\ ctl \in Seq(Frame)
         /\ \A s \in opened : \A op \in DOMAIN Op : <<s, op>> \in DOMAIN impls
         /\ Has(mem) \subseteq DOMAIN Global
<1>1. phase = "run" /\ ~(ctl # << >> /\ ctl[1].at = "impl")
  BY DEF Stmt
<1>2. Waiting = ctl
  BY <1>1 DEF Waiting
<1>3. StackOk(ws, tys, ctl, mem, opened)
  BY <1>2 DEF TypesInv
<1>4. \A s \in opened : \A op \in DOMAIN Op : <<s, op>> \in DOMAIN impls
  BY <1>1 DEF TypesInv, OpenedOk
<1>. QED
  BY <1>1, <1>3, <1>4 DEF TypesInv, ImplsOk, StackOk, Has

(* A step that keeps the declarations keeps the invariant when it keeps the*)
(* stack and memory.                                                       *)
LEMMA StmtStep ==
  ASSUME TypesInv, Stmt, UNCHANGED <<meths, impls, opened, phase>>, faults' = {},
         MemOk(mem', opened), StackOk(ws', tys', ctl', mem', opened)
  PROVE  TypesInv'
<1>1. /\ phase = "run" /\ opened \subseteq Struct /\ meths \subseteq DOMAIN Method /\ ImplsOk
      /\ \A s \in opened : \A op \in DOMAIN Op : <<s, op>> \in DOMAIN impls
  BY StmtFacts
<1>2. ctl' # << >> => ctl'[1].at # "impl"
  <2>1. ctl' \in Seq(Frame)
    BY DEF StackOk
  <2>2. ctl' # << >> => ctl'[1] \in Frame
    BY <2>1
  <2>. QED
    BY <2>2, FrameTypes
<1>3. Waiting' = ctl'
  BY <1>2 DEF Waiting
<1>4. ImplsOk'
  BY <1>1 DEF ImplsOk
<1>5. OpenedOk'
  BY <1>1 DEF OpenedOk
<1>6. CtlOk'
  BY <1>1, <1>2 DEF CtlOk
<1>7. MemOk(mem, opened)' /\ StackOk(ws, tys, Waiting, mem, opened)'
  BY <1>3
<1>. QED
  BY <1>1, <1>4, <1>5, <1>6, <1>7 DEF TypesInv

(* A panic keeps the invariant.                                            *)
LEMMA PanicStep ==
  ASSUME TypesInv, Stmt, Panic
  PROVE  TypesInv'
<1>1. /\ tys' = << >> /\ ws' = << >> /\ ctl' = << >> /\ UNCHANGED <<meths, impls, opened, phase>>
      /\ mem' = mem /\ faults' = faults
  BY DEF Panic, dicts
<1>2. StackOk(ws', tys', ctl', mem', opened)
  BY <1>1, EmptyStack
<1>. QED
  BY <1>1, <1>2, StmtFacts, StmtStep

(* What is taken is what is required, and what is under it is left alone.  *)
LEMMA TakeOk ==
  ASSUME KeepsRules, NEW k, NEW O, StackOk(ws, tys, k, mem, O), NEW r, r \in Seq(Type), tyCheck(r),
         Kept(k, r),
         NEW n, n = Len(r), NEW z, z = SizeOf(r)
  PROVE  /\ StackOk(wsUnder(z), Under(n), k, mem, O)
         /\ AllOk(wsTop(z), r, Has(mem), O) /\ AllOk(wsTop(z), Given(n), Has(mem), O)
         /\ CheckAll(r, Given(n)) /\ \A i \in DOMAIN r : Ruled(r[i], Given(n)[i])
         /\ Given(n) \in Seq(InType) /\ Given(n) \in Seq(Type) /\ Len(Given(n)) = n
         /\ wsUnder(z) \in Seq(Word) /\ wsTop(z) \in Seq(Word)
         /\ IsTop(tys, n, Under(n), Given(n)) /\ IsTop(ws, z, wsUnder(z), wsTop(z))
<1>1. PICK us, vs, x, y : us = Under(n) /\ vs = Given(n) /\ x = wsUnder(z) /\ y = wsTop(z)
  OBVIOUS
<1>2. Len(r) <= Len(tys) /\ CheckAll(r, vs) /\ Own(k, n) /\ \A i \in DOMAIN r : Ruled(r[i], vs[i])
  BY <1>1 DEF tyCheck, Kept
<1>3. Free(k, tys, n) /\ k \in Seq(Frame)
  <2>1. k \in Seq(Frame)
    BY DEF StackOk
  <2>2. \A i \in 1..Len(k) : k[i].at = "sr" \/ k[i].at = "role" => Len(tys) - n >= k[i].types
    BY <1>2, <2>1 DEF Own, KeepsRules, RuleNames
  <2>3. \A i \in 1..Len(k) : k[i].at \in {"sr", "meth", "role"}
    <3>1. \A i \in 1..Len(k) : k[i] \in Frame
      BY <2>1
    <3>. QED
      BY <3>1, FrameTypes
  <2>. QED
    BY <2>1, <2>2, <2>3 DEF Free
<1>4. tys \in Seq(InType) /\ Len(tys) \in Nat /\ n \in 0..Len(tys)
  BY <1>2 DEF StackOk
<1>5. IsTop(tys, n, us, vs)
  BY <1>1, <1>4 DEF IsTop, Under, Given
<1>6. vs \in Seq(InType) /\ vs \in Seq(Type) /\ Len(vs) = n
  BY <1>4, <1>5, TopCut, InTypeFacts
<1>7. SizeOf(r) = SizeOf(vs)
  <2>1. PICK q : q \in Seq(Word) /\ AllOk(q, vs, Has(mem), O)
    <3>1. PICK z2, x2, y2 : z2 = SizeOf(vs) /\ Halves(ws, z2, x2, y2)
      BY DEF Halves
    <3>2. y2 \in Seq(Word) /\ AllOk(y2, vs, Has(mem), O)
      BY ONLY StackOk(ws, tys, k, mem, O), <1>3, <1>5, <3>1, Taken, ZenonT(60)
    <3>. QED
      BY <3>2
  <2>2. /\ KeepsRules /\ Has(mem) \subseteq DOMAIN Global /\ r \in Seq(Type) /\ vs \in Seq(Type)
        /\ AllOk(q, vs, Has(mem), O) /\ CheckAll(r, vs) /\ \A i \in DOMAIN r : Ruled(r[i], vs[i])
    BY <1>2, <1>6, <2>1 DEF Has
  <2>. QED
    BY ONLY <2>2, CheckedOk
<1>8. Halves(ws, z, x, y) /\ z = SizeOf(vs)
  BY <1>1, <1>7 DEF Halves, wsUnder, wsTop
<1>9. /\ StackOk(x, us, k, mem, O) /\ AllOk(y, vs, Has(mem), O) /\ IsTop(ws, z, x, y)
      /\ x \in Seq(Word) /\ y \in Seq(Word)
  BY ONLY StackOk(ws, tys, k, mem, O), <1>3, <1>5, <1>8, Taken
<1>10. AllOk(y, r, Has(mem), O)
  <2>1. /\ KeepsRules /\ Has(mem) \subseteq DOMAIN Global /\ r \in Seq(Type) /\ vs \in Seq(Type)
        /\ AllOk(y, vs, Has(mem), O) /\ CheckAll(r, vs) /\ \A i \in DOMAIN r : Ruled(r[i], vs[i])
    BY <1>2, <1>6, <1>9 DEF Has
  <2>. QED
    BY ONLY <2>1, CheckedOk
<1>. QED
  BY <1>1, <1>2, <1>5, <1>6, <1>9, <1>10

(* A value of a type that is put on top keeps the stack.                   *)
LEMMA PushOk ==
  ASSUME NEW w, NEW ts, NEW k, NEW m, NEW O, StackOk(w, ts, k, m, O), NEW t, t \in InType,
         NEW x, AllOk(x, <<t>>, Has(m), O)
  PROVE  StackOk(w \o x, Append(ts, t), k, m, O)
<1>1. w \in Seq(Word) /\ x \in Seq(Word) /\ ts \in Seq(InType)
  BY DEF StackOk, AllOk, SlotsOk
<1>2. IsConcat(w \o x, w, x)
  BY DEF IsConcat
<1>3. IsConcat(Append(ts, t), ts, <<t>>) /\ <<t>> \in Seq(InType)
  <2>1. ts \in Seq(InType) /\ t \in InType /\ IsAppend(Append(ts, t), ts, t)
    BY <1>1 DEF IsAppend
  <2>. QED
    BY ONLY <2>1, AppendConcat
<1>4. StackOk(w, ts, k, m, O) /\ AllOk(x, <<t>>, Has(m), O)
  OBVIOUS
<1>. QED
  BY ONLY <1>2, <1>3, <1>4, Put

LEMMA KeepFacts ==
  ASSUME Keep
  PROVE  UNCHANGED <<meths, impls, opened, phase>>
BY DEF Keep, dicts

(* A literal.                                                              *)
LEMMA compileLitOk ==
  ASSUME TypesInv, compileLit
  PROVE  TypesInv'
<1>1. /\ Stmt /\ Keep /\ mem' = mem /\ ctl' = ctl /\ faults' = faults
      /\ tys' = Append(tys, T(0, "U4")) /\ ws' = ws \o <<num>>
  BY DEF compileLit, Push
<1>2. StackOk(ws, tys, ctl, mem, opened) /\ MemOk(mem, opened) /\ faults = {}
  BY <1>1, StmtFacts
<1>3. T(0, "U4") \in Named /\ T(0, "U4") \in Type /\ T(0, "U4").ty \in Native
  <2>1. "U4" \in Native /\ "U4" # "Self" /\ 0 \in 0..2
    BY DEF Native
  <2>2. T(0, "U4") \in Type /\ T(0, "U4").ty = "U4"
    BY <2>1 DEF T, Type
  <2>. QED
    BY <2>1, <2>2 DEF Named
<1>4. AllOk(<<num>>, <<T(0, "U4")>>, Has(mem), opened)
  <2>1. T(0, "U4").refs = 0
    BY DEF T
  <2>2. num \in Word /\ SlotOk(num, T(0, "U4"), Has(mem))
    BY <2>1, WordFacts DEF SlotOk
  <2>. QED
    BY <1>3, <2>2, OneSlot
<1>5. StackOk(ws', tys', ctl', mem', opened)
  BY <1>1, <1>2, <1>3, <1>4, PushOk, InTypeFacts
<1>. QED
  BY <1>1, <1>2, <1>5, StmtStep, KeepFacts

LEMMA PartPairs ==
  ASSUME NEW t \in Type, NEW part \in PartsOf(t)
  PROVE  part = <<part[1], part[2]>>
<1>1. CASE t.refs = 0 /\ t.ty \in Struct
  <2>1. part \in Parts[t.ty]
    BY <1>1 DEF PartsOf
  <2>2. \/ part = <<0, T(0, t.ty)>>
        \/ \E i \in DOMAIN Fields[t.ty] : part \in PartsAt(PartsOf(Fields[t.ty][i].ty), OffsetOf(t.ty, i))
    BY <1>1, <2>1, PartsEquation
  <2>. QED
    BY <2>2 DEF PartsAt
<1>2. CASE ~(t.refs = 0 /\ t.ty \in Struct)
  BY <1>2 DEF PartsOf
<1>. QED
  BY <1>1, <1>2

(* The address of a global, or of a part of it.                            *)
LEMMA N_ampOk ==
  ASSUME TypesInv, NEW g \in DOMAIN Global, N_amp(g)
  PROVE  TypesInv'
<1>1. /\ Stmt /\ Keep /\ mem' = mem /\ ctl' = ctl /\ faults' = faults /\ g \in Has(mem)
  BY DEF N_amp, Declared, Has
<1>2. PICK part \in PartsOf(Global[g]) : part[2].refs < 2
          /\ Push(T(part[2].refs + 1, part[2].ty), <<ref(g, part[1])>>)
  BY DEF N_amp
<1>3. StackOk(ws, tys, ctl, mem, opened) /\ MemOk(mem, opened) /\ faults = {}
  BY <1>1, StmtFacts
<1>4. part = <<part[1], part[2]>>
  <2>1. Global[g] \in Type
    BY GlobalFacts
  <2>. QED
    BY <2>1, PartPairs
<1>5. PICK n, t, q, v : n = part[1] /\ t = part[2] /\ q = T(t.refs + 1, t.ty) /\ v = ref(g, n)
  OBVIOUS
<1>6. <<n, t>> \in PartsOf(Global[g]) /\ t.refs < 2
  BY <1>2, <1>4, <1>5
<1>7. SlotOk(v, q, Has(mem)) /\ v \in Word /\ q \in Type /\ t.ty # "Self"
  BY <1>1, <1>5, <1>6, AmpOk
<1>8. q.refs > 0 /\ q \in InType
  <2>1. t \in Type /\ q.ty = t.ty /\ q.refs = t.refs + 1
    BY <1>5, <1>6, GlobalPart DEF T
  <2>2. t.refs \in 0..2
    BY <2>1 DEF Type
  <2>. QED
    BY <1>7, <2>1, <2>2, InTypeFacts
<1>9. AllOk(<<v>>, <<q>>, Has(mem), opened)
  BY <1>7, <1>8, OneSlot
<1>10. tys' = Append(tys, q) /\ ws' = ws \o <<v>>
  BY <1>2, <1>5 DEF Push
<1>11. StackOk(ws', tys', ctl', mem', opened)
  <2>1. StackOk(ws \o <<v>>, Append(tys, q), ctl, mem, opened)
    BY ONLY <1>3, <1>8, <1>9, PushOk
  <2>. QED
    BY <1>1, <1>10, <2>1
<1>. QED
  BY <1>1, <1>3, <1>11, StmtStep, KeepFacts

(* The value of a global.                                                  *)
LEMMA compileVarOk ==
  ASSUME TypesInv, NEW g \in DOMAIN Global, compileVar(g)
  PROVE  TypesInv'
<1>1. /\ Stmt /\ Keep /\ mem' = mem /\ ctl' = ctl /\ faults' = faults /\ g \in Has(mem)
      /\ tys' = Append(tys, Global[g]) /\ ws' = ws \o mem[g]
  BY DEF compileVar, Declared, Has, Push
<1>2. StackOk(ws, tys, ctl, mem, opened) /\ MemOk(mem, opened) /\ faults = {}
  BY <1>1, StmtFacts
<1>3. AllOk(mem[g], <<Global[g]>>, Has(mem), opened)
  BY <1>1, <1>2 DEF MemOk
<1>4. Global[g] \in InType
  BY GlobalFacts, InTypeFacts
<1>5. StackOk(ws', tys', ctl', mem', opened)
  BY <1>1, <1>2, <1>3, <1>4, PushOk
<1>. QED
  BY <1>1, <1>2, <1>5, StmtStep, KeepFacts

(* A store into a place that no waiting role call looks at.                *)
LEMMA StillGrow ==
  ASSUME KeepsRules, RolesStill, NEW w, NEW ts, StackOk(w, ts, ctl, mem, opened),
         Has(mem) \subseteq Has(mem')
  PROVE  StackOk(w, ts, ctl, mem', opened)
<1>1. ctl \in Seq(Frame)
  BY DEF StackOk
<1>2. \A i \in 1..Len(ctl) : ctl[i].at = "role" => RoleAt(mem', ctl[i].var) = RoleAt(mem, ctl[i].var)
  BY <1>1 DEF RolesStill, KeepsRules, RuleNames
<1>3. opened \subseteq opened
  OBVIOUS
<1>. QED
  BY <1>2, <1>3, Grow

(* A store into a global.                                                  *)
LEMMA srVarOk ==
  ASSUME KeepsRules, TypesInv, NEW g \in DOMAIN Global, srVar(g)
  PROVE  TypesInv'
<1>1. PICK t, r, z : t = Global[g] /\ r = <<t>> /\ z = 1
  OBVIOUS
<1>2. Stmt /\ Single(t) /\ t \in Type
  BY <1>1, GlobalFacts DEF srVar, Take, KeepsRules, RuleNames
<1>3. CASE ~tyCheck(r)
  BY <1>1, <1>2, <1>3, PanicStep DEF srVar, Take
<1>4. CASE tyCheck(r)
  <2>1. /\ Kept(ctl, r) /\ mem' = [mem EXCEPT ![g] = wsTop(z)] /\ RolesStill
        /\ tys' = Under(1) /\ ws' = wsUnder(z) /\ Keep /\ ctl' = ctl /\ faults' = faults
    BY <1>1, <1>2, <1>4 DEF srVar, Take
  <2>2. StackOk(ws, tys, ctl, mem, opened) /\ MemOk(mem, opened) /\ faults = {}
    BY <1>2, StmtFacts
  <2>3. r \in Seq(Type) /\ Len(r) = 1 /\ z = SizeOf(r)
    BY <1>1, <1>2, OneSlot DEF Single
  <2>4. StackOk(wsUnder(z), Under(1), ctl, mem, opened) /\ AllOk(wsTop(z), r, Has(mem), opened)
    BY <1>4, <2>1, <2>2, <2>3, TakeOk
  <2>5. Has(mem) \subseteq Has(mem') /\ MemOk(mem', opened)
    BY <1>1, <2>1, <2>2, <2>4, AssignMem
  <2>6. StackOk(wsUnder(z), Under(1), ctl, mem', opened)
    BY <2>1, <2>4, <2>5, StillGrow
  <2>. QED
    BY <1>2, <2>1, <2>2, <2>5, <2>6, StmtStep, KeepFacts
<1>. QED
  BY <1>3, <1>4

(* The declaration of a global, with a value.                              *)
LEMMA N_globalOk ==
  ASSUME KeepsRules, TypesInv, NEW g \in DOMAIN Global, N_global(g)
  PROVE  TypesInv'
<1>1. PICK t, r, z : t = Global[g] /\ r = <<t>> /\ z = Size(t)
  OBVIOUS
<1>2. /\ phase = "run" /\ ctl = << >> /\ Stmt /\ t \in Type
      /\ UNCHANGED <<meths, impls, opened, ctl, faults>>
  BY <1>1, GlobalFacts DEF N_global, dicts, Stmt
<1>3. /\ StackOk(ws, tys, ctl, mem, opened) /\ MemOk(mem, opened) /\ faults = {}
      /\ meths \subseteq DOMAIN Method /\ ImplsOk
  BY <1>2, StmtFacts
<1>4. CASE ~tyCheck(r)
  <2>1. mem' = mem /\ tys' = << >> /\ ws' = << >> /\ phase' = "left" /\ ctl' = << >>
    BY <1>1, <1>2, <1>4 DEF N_global, Leaves, KeepsRules, RuleNames
  <2>2. Waiting' = << >>
    BY <2>1 DEF Waiting
  <2>3. StackOk(ws, tys, Waiting, mem, opened)'
    BY <1>2, <2>1, <2>2, EmptyStack
  <2>4. ImplsOk' /\ OpenedOk' /\ CtlOk'
    BY <1>2, <1>3, <2>1 DEF ImplsOk, OpenedOk, CtlOk
  <2>5. MemOk(mem, opened)' /\ (meths \subseteq DOMAIN Method)' /\ faults' = {}
    BY <1>2, <1>3, <2>1
  <2>. QED
    BY <2>3, <2>4, <2>5 DEF TypesInv
<1>5. CASE tyCheck(r)
  <2>1. /\ Kept(ctl, r) /\ mem' = [mem EXCEPT ![g] = wsTop(z)]
        /\ tys' = Under(1) /\ ws' = wsUnder(z) /\ phase' = phase
    BY <1>1, <1>2, <1>5 DEF N_global
  <2>2. r \in Seq(Type) /\ Len(r) = 1 /\ z = SizeOf(r)
    BY <1>1, <1>2, AllSlotsOne DEF Size, SizeOf
  <2>3. StackOk(wsUnder(z), Under(1), ctl, mem, opened) /\ AllOk(wsTop(z), r, Has(mem), opened)
    BY <1>3, <1>5, <2>1, <2>2, TakeOk
  <2>4. Has(mem) \subseteq Has(mem') /\ MemOk(mem', opened)
    BY <1>1, <1>3, <2>1, <2>3, AssignMem
  <2>5. \A i \in 1..Len(ctl) : ctl[i].at = "role" => RoleAt(mem', ctl[i].var) = RoleAt(mem, ctl[i].var)
    BY <1>2
  <2>6. StackOk(wsUnder(z), Under(1), ctl, mem', opened)
    BY <2>3, <2>4, <2>5, Grow
  <2>. QED
    BY <1>2, <1>3, <2>1, <2>4, <2>6, StmtStep
<1>. QED
  BY <1>4, <1>5

LEMMA OwnFree ==
  ASSUME KeepsRules, NEW k, k \in Seq(Frame), NEW n, Own(k, n)
  PROVE  Free(k, tys, n)
<1>1. \A i \in 1..Len(k) : k[i].at = "sr" \/ k[i].at = "role" => Len(tys) - n >= k[i].types
  BY DEF Own, KeepsRules, RuleNames
<1>2. \A i \in 1..Len(k) : k[i].at \in {"sr", "meth", "role"}
  <2>1. \A i \in 1..Len(k) : k[i] \in Frame
    OBVIOUS
  <2>. QED
    BY <2>1, FrameTypes
<1>. QED
  BY <1>1, <1>2 DEF Free

(* The value on top is taken, of one slot.                                 *)
LEMMA TopOne ==
  ASSUME KeepsRules, NEW k, NEW O, StackOk(ws, tys, k, mem, O), tys # << >>, Own(k, 1),
         NEW t, t = Last(tys), t.refs > 0 \/ t.ty \in Native
  PROVE  /\ StackOk(wsUnder(1), Under(1), k, mem, O) /\ t \in InType /\ t \in Type
         /\ Len(ws) \in Nat /\ Len(ws) > 0 /\ Len(tys) \in Nat /\ Len(tys) > 0
         /\ Last(ws) \in Word /\ Last(ws) = ws[Len(ws)] /\ SlotOk(Last(ws), t, Has(mem))
         /\ ws = Append(wsUnder(1), Last(ws)) /\ wsUnder(1) \in Seq(Word) /\ Len(wsUnder(1)) = Len(ws) - 1
         /\ Under(1) \in Seq(InType) /\ Len(Under(1)) = Len(tys) - 1
<1>1. tys \in Seq(InType) /\ ws \in Seq(Word) /\ k \in Seq(Frame)
  BY DEF StackOk
<1>2. Len(tys) \in Nat /\ Len(tys) > 0 /\ t = tys[Len(tys)] /\ t \in InType
  BY <1>1 DEF Last
<1>3. t \in Type
  BY <1>2, InTypeFacts
<1>4. PICK n, us, vs, x, y : n = 1 /\ us = Under(1) /\ vs = Given(1) /\ x = wsUnder(1) /\ y = wsTop(1)
  OBVIOUS
<1>5. IsTop(tys, n, us, vs)
  BY <1>2, <1>4 DEF IsTop, Under, Given
<1>6. vs = <<t>> /\ us \in Seq(InType) /\ Len(us) = Len(tys) - 1
  <2>1. vs \in Seq(InType) /\ Len(vs) = n /\ \A i \in 1..n : vs[i] = tys[Len(tys) - n + i]
    BY ONLY <1>1, <1>5, TopCut
  <2>2. us \in Seq(InType) /\ Len(us) = Len(tys) - n
    BY ONLY <1>1, <1>5, TopCut
  <2>3. vs[1] = t /\ n = 1
    BY <1>2, <1>4, <2>1
  <2>. QED
    BY ONLY <2>1, <2>2, <2>3
<1>7. n = SizeOf(vs)
  BY <1>3, <1>4, <1>6, OneSlot
<1>8. Free(k, tys, n)
  BY <1>1, <1>4, OwnFree
<1>9. Halves(ws, n, x, y)
  BY <1>4 DEF Halves, wsUnder, wsTop
<1>10. /\ StackOk(x, us, k, mem, O) /\ AllOk(y, vs, Has(mem), O) /\ IsTop(ws, n, x, y)
       /\ x \in Seq(Word) /\ y \in Seq(Word) /\ Len(y) = n /\ Len(x) = Len(ws) - n
  <2>1. StackOk(ws, tys, k, mem, O) /\ n = SizeOf(vs)
    BY <1>7
  <2>. QED
    BY ONLY <2>1, <1>5, <1>8, <1>9, Taken
<1>11. /\ Len(ws) \in Nat /\ Len(ws) > 0 /\ y[1] = ws[Len(ws)] /\ y = <<ws[Len(ws)]>>
       /\ ws[Len(ws)] \in Word
  <2>1. Len(ws) > 0 /\ Len(ws) \in Nat
    BY <1>1, <1>4, <1>10 DEF IsTop
  <2>2. \A i \in 1..n : y[i] = ws[Len(ws) - n + i]
    BY ONLY <1>1, <1>10, TopCut
  <2>3. y[1] = ws[Len(ws)] /\ n = 1
    BY <1>4, <2>1, <2>2
  <2>. QED
    BY ONLY <1>1, <1>10, <2>1, <2>3
<1>12. SlotOk(ws[Len(ws)], t, Has(mem))
  BY <1>3, <1>6, <1>10, <1>11, OneSlot
<1>13. ws = Append(x, ws[Len(ws)])
  <2>1. x = SubSeq(ws, 1, Len(ws) - 1)
    BY <1>4, <1>10 DEF IsTop
  <2>. QED
    BY ONLY <1>1, <1>11, <2>1
<1>. QED
  BY <1>2, <1>3, <1>4, <1>6, <1>10, <1>11, <1>12, <1>13 DEF Last

(* What is behind a reference that N_at takes, and N_atSr.                 *)
LEMMA BehindFacts ==
  ASSUME KeepsRules, NEW t, t \in InType, Opaque(t), t.refs > 0
  PROVE  /\ t.ty # "Self" /\ t.ty \in Struct \union Native \union {Role} /\ t \in Type
         /\ t = T(t.refs, t.ty)
         /\ T(t.refs - 1, t.ty) \in Type /\ T(t.refs - 1, t.ty) \in InType
         /\ T(t.refs - 1, t.ty).refs = t.refs - 1 /\ T(t.refs - 1, t.ty).ty = t.ty
         /\ T(T(t.refs - 1, t.ty).refs + 1, T(t.refs - 1, t.ty).ty) = t
         /\ t.refs - 1 < 2 /\ t.refs - 1 \in 0..1 /\ t.refs \in 1..2
<1>1. t.ty # "Self" /\ t \in Type
  BY InTypeFacts DEF Opaque, KeepsRules, RuleNames
<1>2. t.refs \in 0..2 /\ t.ty \in Struct \union Native \union {Role} /\ t = T(t.refs, t.ty)
  BY <1>1, TFacts DEF Type
<1>3. t.refs \in 1..2 /\ t.refs - 1 \in 0..2 /\ t.refs - 1 \in 0..1
  BY <1>2
<1>4. /\ T(t.refs - 1, t.ty).refs = t.refs - 1 /\ T(t.refs - 1, t.ty).ty = t.ty
      /\ T(t.refs - 1, t.ty) \in Type
  <2>1. T(t.refs - 1, t.ty) \in Type
    BY <1>2, <1>3 DEF T, Type
  <2>. QED
    BY <2>1, TFacts
<1>5. T(t.refs - 1, t.ty) \in InType
  BY <1>1, <1>4, InTypeFacts
<1>6. t.refs - 1 + 1 = t.refs
  BY <1>2
<1>. QED
  BY <1>1, <1>2, <1>3, <1>4, <1>5, <1>6

(* A fetch through a reference.                                            *)
LEMMA N_atOk ==
  ASSUME KeepsRules, TypesInv, N_at
  PROVE  TypesInv'
<1>1. PICK t, v : t = Last(tys) /\ v = Last(ws)
  OBVIOUS
<1>2. Stmt /\ tys # << >> /\ Own(ctl, 1) /\ Opaque(t)
  BY <1>1 DEF N_at
<1>3. CASE t.refs = 0 \/ (t.refs = 1 /\ t.ty \in Struct)
  BY <1>1, <1>2, <1>3, PanicStep DEF N_at
<1>4. CASE ~(t.refs = 0 \/ (t.refs = 1 /\ t.ty \in Struct))
  <2>1. PICK x : x = IF t = T(1, Role) THEN RoleBehind(mem, v) ELSE <<At(v)>>
    OBVIOUS
  <2>2. /\ tys' = Append(Under(1), T(t.refs - 1, t.ty)) /\ ws' = wsUnder(1) \o x
        /\ Keep /\ mem' = mem /\ ctl' = ctl /\ faults' = faults
    BY <1>1, <1>4, <2>1 DEF N_at
  <2>3. StackOk(ws, tys, ctl, mem, opened) /\ MemOk(mem, opened) /\ faults = {}
    BY <1>2, StmtFacts
  <2>4. t \in InType
    BY <1>1, <1>2, <2>3 DEF StackOk, Last
  <2>5. t.refs > 0
    <3>1. t.refs \in 0..2
      BY <2>4, InTypeFacts, TFacts
    <3>. QED
      BY <1>4, <3>1
  <2>6. /\ t.ty # "Self" /\ t.ty \in Struct \union Native \union {Role} /\ t = T(t.refs, t.ty)
        /\ t \in Type
        /\ T(t.refs - 1, t.ty) \in Type /\ T(t.refs - 1, t.ty) \in InType
        /\ T(t.refs - 1, t.ty).refs = t.refs - 1 /\ T(t.refs - 1, t.ty).ty = t.ty /\ t.refs \in 1..2
    BY <1>2, <2>4, <2>5, BehindFacts
  <2>7. /\ StackOk(wsUnder(1), Under(1), ctl, mem, opened)
        /\ SlotOk(v, t, Has(mem)) /\ wsUnder(1) \in Seq(Word)
    BY <1>1, <1>2, <2>3, <2>5, TopOne
  <2>8. PICK q : q = T(t.refs - 1, t.ty)
    OBVIOUS
  <2>9. AllOk(x, <<q>>, Has(mem), opened)
    <3>1. CASE t = T(1, Role)
      <4>1. v[2] \in Has(mem) /\ Global[v[2]] = T(0, Role) /\ x = mem[v[2]]
        BY <2>1, <2>3, <2>7, <3>1, RoleBehindFacts
      <4>2. AllOk(mem[v[2]], <<Global[v[2]]>>, Has(mem), opened)
        BY <2>3, <4>1 DEF MemOk
      <4>3. q = T(0, Role)
        <5>1. T(1, Role).refs = 1 /\ T(1, Role).ty = Role
          BY TFacts
        <5>. QED
          BY <2>8, <3>1, <5>1
      <4>. QED
        BY <4>1, <4>2, <4>3
    <3>2. CASE t # T(1, Role)
      <4>1. PICK y : y = mem[v[2]][v[3] + 1]
        OBVIOUS
      <4>2. x = <<y>>
        BY <2>1, <3>2, <4>1 DEF At
      <4>3. t.refs = 1 => t.ty \in Native
        BY <1>4, <2>6, <3>2
      <4>4. SlotOk(y, q, Has(mem)) /\ y \in Word
        BY <2>3, <2>5, <2>6, <2>7, <2>8, <4>1, <4>3, FetchOk
      <4>5. q.refs > 0 \/ q.ty \in Native
        BY <2>6, <2>8, <4>3
      <4>. QED
        BY <2>6, <2>8, <4>2, <4>4, <4>5, OneSlot
    <3>. QED
      BY <3>1, <3>2
  <2>10. StackOk(wsUnder(1) \o x, Append(Under(1), q), ctl, mem, opened)
    <3>1. StackOk(wsUnder(1), Under(1), ctl, mem, opened) /\ q \in InType
      BY <2>6, <2>7, <2>8
    <3>. QED
      BY ONLY <3>1, <2>9, PushOk
  <2>. QED
    BY <1>2, <2>2, <2>3, <2>8, <2>10, StmtStep, KeepFacts
<1>. QED
  BY <1>3, <1>4

(* A store through a reference begins.                                     *)
LEMMA N_atSrOk ==
  ASSUME KeepsRules, TypesInv, N_atSr
  PROVE  TypesInv'
<1>1. PICK t : t = Last(tys)
  OBVIOUS
<1>2. Stmt /\ tys # << >> /\ Own(ctl, 1) /\ Opaque(t) /\ t # T(1, Role)
  BY <1>1 DEF N_atSr, KeepsRules, RuleNames
<1>3. CASE t.refs = 0
  BY <1>1, <1>2, <1>3, PanicStep DEF N_atSr
<1>4. CASE t.refs # 0
  <2>1. PICK c : c = [at |-> "sr", ty |-> T(t.refs - 1, t.ty), types |-> Len(tys) - 1, slots |-> Len(ws)]
    OBVIOUS
  <2>2. /\ tys' = Under(1) /\ ws' = ws /\ ctl' = Append(ctl, c)
        /\ Keep /\ mem' = mem /\ faults' = faults
    BY <1>1, <1>4, <2>1 DEF N_atSr
  <2>3. StackOk(ws, tys, ctl, mem, opened) /\ MemOk(mem, opened) /\ faults = {}
    BY <1>2, StmtFacts
  <2>4. t \in InType
    BY <1>1, <1>2, <2>3 DEF StackOk, Last
  <2>5. /\ t.ty # "Self" /\ t.refs > 0 /\ (t.refs = 1 => t.ty \in Native \union Struct)
        /\ T(t.refs - 1, t.ty) \in Type
        /\ T(t.refs - 1, t.ty).refs = t.refs - 1 /\ T(t.refs - 1, t.ty).ty = t.ty
        /\ T(T(t.refs - 1, t.ty).refs + 1, T(t.refs - 1, t.ty).ty) = t
        /\ t.refs - 1 < 2 /\ t.refs - 1 \in 0..1 /\ t.refs \in 1..2
    <3>1. t.refs > 0
      <4>1. t.refs \in 0..2
        BY <2>4, InTypeFacts, TFacts
      <4>. QED
        BY <1>4, <4>1
    <3>2. t.ty \in Struct \union Native \union {Role} /\ t = T(t.refs, t.ty)
      BY <1>2, <2>4, <3>1, BehindFacts
    <3>3. t.refs = 1 => t.ty \in Native \union Struct
      BY <1>2, <3>2
    <3>. QED
      BY <1>2, <2>4, <3>1, <3>3, BehindFacts
  <2>6. /\ StackOk(wsUnder(1), Under(1), ctl, mem, opened)
        /\ Len(ws) \in Nat /\ Len(ws) > 0 /\ Len(tys) \in Nat /\ Len(tys) > 0
        /\ Last(ws) \in Word /\ SlotOk(Last(ws), t, Has(mem)) /\ ws = Append(wsUnder(1), Last(ws))
        /\ Len(wsUnder(1)) = Len(ws) - 1 /\ Len(Under(1)) = Len(tys) - 1
    BY <1>1, <1>2, <2>3, <2>5, TopOne
  <2>7. /\ c \in Frame /\ c.at = "sr" /\ c.ty = T(t.refs - 1, t.ty)
        /\ c.slots = Len(wsUnder(1)) + 1 /\ c.types = Len(Under(1))
    <3>1. Len(tys) - 1 \in Nat /\ Len(ws) - 1 + 1 = Len(ws)
      BY <2>6
    <3>2. c.at = "sr" /\ c.ty = T(t.refs - 1, t.ty) /\ c.types = Len(tys) - 1 /\ c.slots = Len(ws)
      BY <2>1
    <3>3. c \in Frame
      BY <2>1, <2>5, <2>6, <3>1 DEF Frame
    <3>. QED
      BY <2>6, <3>1, <3>2, <3>3
  <2>8. /\ c.ty.ty # "Self" /\ c.ty.refs < 2 /\ (c.ty.refs = 0 => c.ty.ty \in Native \union Struct)
        /\ SlotOk(Last(ws), T(c.ty.refs + 1, c.ty.ty), Has(mem))
    <3>1. c.ty.refs = t.refs - 1 /\ c.ty.ty = t.ty
      BY <2>5, <2>7
    <3>2. c.ty.refs = 0 => t.refs = 1
      BY <2>5, <3>1
    <3>. QED
      BY <2>5, <2>6, <2>7, <3>1, <3>2
  <2>9. StackOk(Append(wsUnder(1), Last(ws)), Under(1), Append(ctl, c), mem, opened)
    <3>1. StackOk(wsUnder(1), Under(1), ctl, mem, opened) /\ Last(ws) \in Word
      BY <2>6
    <3>. QED
      BY ONLY <3>1, <2>7, <2>8, PushSr
  <2>10. StackOk(ws', tys', ctl', mem', opened)
    BY <2>2, <2>6, <2>9
  <2>. QED
    BY <1>2, <2>2, <2>3, <2>10, StmtStep, KeepFacts
<1>. QED
  BY <1>3, <1>4

(* It ends: SRO finds the value on top and the address under it.           *)
LEMMA N_atSr_endOk ==
  ASSUME KeepsRules, TypesInv, N_atSr_end
  PROVE  TypesInv'
<1>1. PICK sr, k, r, addr : sr = Last(ctl) /\ k = Front(ctl) /\ r = <<sr.ty>> /\ addr = ws[Len(ws) - 1]
  OBVIOUS
<1>2. Stmt /\ ctl # << >> /\ sr.at = "sr" /\ Len(tys) <= sr.types + 1
  BY <1>1 DEF N_atSr_end, Take, KeepsRules, RuleNames
<1>3. StackOk(ws, tys, ctl, mem, opened) /\ MemOk(mem, opened) /\ faults = {} /\ ctl \in Seq(Frame)
  BY <1>2, StmtFacts
<1>4. k \in Seq(Frame) /\ sr \in Frame /\ IsAppend(ctl, k, sr) /\ sr = ctl[Len(ctl)]
  BY <1>1, <1>2, <1>3, LastFrame
<1>5. /\ sr.ty \in Type /\ sr.types \in Nat /\ sr.ty.ty # "Self" /\ sr.ty.refs < 2
      /\ (sr.ty.refs = 0 => sr.ty.ty \in Native \union Struct)
  <2>0. Len(ctl) \in Nat /\ Len(ctl) \in 1..Len(ctl)
    BY <1>2, <1>3
  <2>1. FrameOk(ctl[Len(ctl)], ws, tys, Adr(ctl), mem, opened)
    BY <1>3, <2>0 DEF StackOk
  <2>. QED
    BY <1>2, <1>4, <2>1, FrameTypes DEF FrameOk, StoreOk
<1>6. CASE sr.ty.refs = 0 /\ sr.ty.ty \in Struct
  BY <1>1, <1>2, <1>6, PanicStep DEF N_atSr_end
<1>7. CASE ~(sr.ty.refs = 0 /\ sr.ty.ty \in Struct) /\ ~tyCheck(r)
  BY <1>1, <1>2, <1>7, PanicStep DEF N_atSr_end, Take
<1>8. CASE ~(sr.ty.refs = 0 /\ sr.ty.ty \in Struct) /\ tyCheck(r)
  <2>1. /\ Kept(ctl, r)
        /\ IF Len(ws) > 1 /\ IsRef(addr)
           THEN mem' = [mem EXCEPT ![addr[2]][addr[3] + 1] = Last(ws)] /\ UNCHANGED faults
           ELSE faults' = faults \union {"outside"} /\ UNCHANGED mem
        /\ RolesStill /\ tys' = Under(1) /\ ws' = wsUnder(IF Len(ws) > 1 THEN 2 ELSE 1)
           /\ ctl' = k /\ Keep
    <3>1. Single(sr.ty)
      <4>1. sr.ty.refs \in 0..2
        BY <1>5, TFacts
      <4>. QED
        BY <1>8, <1>5, <4>1 DEF Single
    <3>. QED
      BY <1>1, <1>8, <3>1 DEF N_atSr_end, Take
  <2>2. Len(ctl) \in Nat /\ Len(ctl) \in 1..Len(ctl)
    BY <1>2, <1>3
  <2>3. /\ sr.ty \in Type /\ sr.types \in Nat /\ sr.ty.ty # "Self" /\ sr.ty.refs < 2
        /\ (sr.ty.refs = 0 => sr.ty.ty \in Native)
    BY <1>8, <1>5
  <2>4. sr.ty.refs > 0 \/ sr.ty.ty \in Native
    <3>1. sr.ty.refs \in 0..2
      BY <2>3, TFacts
    <3>. QED
      BY <2>3, <3>1
  <2>5. PICK n : n = 1
    OBVIOUS
  <2>6. r \in Seq(Type) /\ n = Len(r) /\ n = SizeOf(r)
    <3>1. SizeOf(<<sr.ty>>) = 1
      BY ONLY <2>3, <2>4, OneSlot
    <3>2. <<sr.ty>> \in Seq(Type) /\ Len(<<sr.ty>>) = 1
      BY <2>3
    <3>. QED
      BY <1>1, <2>5, <3>1, <3>2
  <2>7. PICK w, y, ts, vs : w = wsUnder(n) /\ y = wsTop(n) /\ ts = Under(n) /\ vs = Given(n)
    OBVIOUS
  <2>8. /\ StackOk(w, ts, ctl, mem, opened) /\ AllOk(y, r, Has(mem), opened)
        /\ w \in Seq(Word) /\ IsTop(tys, n, ts, vs) /\ IsTop(ws, n, w, y)
    <3>1. KeepsRules /\ StackOk(ws, tys, ctl, mem, opened) /\ tyCheck(r) /\ Kept(ctl, r)
      BY <1>3, <1>8, <2>1
    <3>. QED
      BY ONLY <3>1, <2>6, <2>7, TakeOk
  <2>9. ws \in Seq(Word) /\ tys \in Seq(InType)
    BY <1>3 DEF StackOk
  <2>10. /\ Len(w) = Len(ws) - 1 /\ Len(ws) \in Nat /\ Len(ws) > 0 /\ y = <<Last(ws)>>
         /\ Last(ws) = ws[Len(ws)]
         /\ Last(ws) \in Word /\ w = SubSeq(ws, 1, Len(ws) - 1)
    <3>1. /\ Len(w) = Len(ws) - n /\ y \in Seq(Word) /\ Len(y) = n
          /\ \A i \in 1..n : y[i] = ws[Len(ws) - n + i]
      BY ONLY <2>8, <2>9, TopCut
    <3>2. Len(ws) \in Nat /\ Len(ws) > 0 /\ w = SubSeq(ws, 1, Len(ws) - 1)
      BY <2>5, <2>8, <2>9 DEF IsTop
    <3>3. y[1] = ws[Len(ws)] /\ ws[Len(ws)] \in Word
      BY <2>5, <2>9, <3>1, <3>2
    <3>4. y = <<ws[Len(ws)]>>
      BY ONLY <2>5, <3>1, <3>3
    <3>. QED
      BY <2>5, <3>1, <3>2, <3>3, <3>4 DEF Last
  <2>11. SlotOk(Last(ws), sr.ty, Has(mem))
    BY <1>1, <2>3, <2>4, <2>8, <2>10, OneSlot
  <2>12. sr.types = Len(ts)
    <3>1. Len(ts) = Len(tys) - 1 /\ Len(tys) \in Nat
      <4>1. Len(ts) = Len(tys) - n
        BY ONLY <2>8, <2>9, TopCut
      <4>. QED
        BY <2>5, <2>9, <4>1
    <3>2. sr.types \in 0..Len(ts)
      BY <1>2, <1>4, <2>2, <2>8, SrAt
    <3>. QED
      BY <1>2, <2>3, <3>1, <3>2
  <2>13. /\ Len(w) > 0 /\ SlotOk(w[Len(w)], T(sr.ty.refs + 1, sr.ty.ty), Has(mem))
    <3>1. /\ StackOk(w, ts, ctl, mem, opened) /\ k \in Seq(Frame) /\ sr \in Frame
          /\ IsAppend(ctl, k, sr) /\ sr.at = "sr"
      BY <1>2, <1>4, <2>8
    <3>. QED
      BY ONLY <3>1, <2>12, PopSr
  <2>14. Len(ws) > 1 /\ w[Len(w)] = addr
    <3>1. Len(ws) > 1 /\ Len(ws) - 1 \in 1..Len(w)
      BY <2>10, <2>13
    <3>. QED
      BY <1>1, <2>9, <2>10, <3>1
  <2>15. SlotOk(addr, T(sr.ty.refs + 1, sr.ty.ty), Has(mem))
    BY <2>13, <2>14
  <2>16. IsRef(addr)
    <3>1. T(sr.ty.refs + 1, sr.ty.ty).refs > 0
      <4>1. sr.ty.refs \in 0..2
        BY <2>3, TFacts
      <4>. QED
        BY <4>1, TFacts
    <3>2. RefOk(addr, Has(mem))
      BY <2>15, <3>1 DEF SlotOk
    <3>. QED
      BY <3>2, RefOkFacts DEF Has
  <2>17. PICK m2, q : m2 = [mem[addr[2]] EXCEPT ![addr[3] + 1] = Last(ws)]
             /\ q = [mem EXCEPT ![addr[2]] = m2]
    OBVIOUS
  <2>18. mem' = q /\ faults' = faults /\ ws' = wsUnder(2)
    BY <2>1, <2>14, <2>16, <2>17
  <2>19. MemOk(q, opened) /\ Has(q) = Has(mem)
    <3>1. /\ MemOk(mem, opened) /\ sr.ty \in Type /\ sr.ty.ty # "Self" /\ sr.ty.refs < 2
          /\ (sr.ty.refs = 0 => sr.ty.ty \in Native)
             /\ SlotOk(addr, T(sr.ty.refs + 1, sr.ty.ty), Has(mem))
          /\ Last(ws) \in Word /\ SlotOk(Last(ws), sr.ty, Has(mem))
          /\ m2 = [mem[addr[2]] EXCEPT ![addr[3] + 1] = Last(ws)]
      BY <1>3, <2>3, <2>10, <2>11, <2>15, <2>17
    <3>2. MemOk([mem EXCEPT ![addr[2]] = m2], opened) /\ Has([mem EXCEPT ![addr[2]] = m2]) = Has(mem)
      BY ONLY <3>1, StoreMem
    <3>. QED
      BY <2>17, <3>2
  <2>20. StackOk(w, ts, ctl, mem', opened)
    <3>1. Has(mem) \subseteq Has(mem')
      BY <2>18, <2>19
    <3>. QED
      BY <2>1, <2>8, <3>1, StillGrow
  <2>21. StackOk(SubSeq(w, 1, Len(w) - 1), ts, k, mem', opened)
    <3>1. /\ StackOk(w, ts, ctl, mem', opened) /\ k \in Seq(Frame) /\ sr \in Frame
          /\ IsAppend(ctl, k, sr) /\ sr.at = "sr"
      BY <1>2, <1>4, <2>20
    <3>. QED
      BY ONLY <3>1, <2>12, PopSr
  <2>22. SubSeq(w, 1, Len(w) - 1) = wsUnder(2)
    <3>1. /\ ws \in Seq(Word) /\ w = SubSeq(ws, 1, Len(ws) - 1) /\ Len(w) = Len(ws) - 1
          /\ Len(ws) \in Nat /\ Len(ws) > 1
      BY <2>9, <2>10, <2>14
    <3>2. SubSeq(w, 1, Len(w) - 1) = SubSeq(ws, 1, Len(ws) - 2)
      BY ONLY <3>1
    <3>. QED
      BY <3>2 DEF wsUnder
  <2>23. StackOk(ws', tys', ctl', mem', opened)
    BY <2>1, <2>5, <2>7, <2>18, <2>21, <2>22
  <2>. QED
    BY <1>2, <1>3, <2>1, <2>18, <2>19, <2>23, StmtStep, KeepFacts
<1>. QED
  BY <1>7, <1>8, <1>6

(* The two values on top are taken, of one slot each.                      *)
LEMMA TopTwo ==
  ASSUME KeepsRules, NEW k, NEW O, StackOk(ws, tys, k, mem, O), Len(tys) > 1, Own(k, 2),
         NEW l, l = tys[Len(tys) - 1], NEW r, r = Last(tys),
         l.refs > 0 \/ l.ty \in Native, r.refs > 0 \/ r.ty \in Native
  PROVE  /\ StackOk(wsUnder(2), Under(2), k, mem, O) /\ l \in InType /\ r \in InType
         /\ SlotOk(ws[Len(ws) - 1], l, Has(mem)) /\ SlotOk(Last(ws), r, Has(mem))
<1>1. tys \in Seq(InType) /\ ws \in Seq(Word) /\ k \in Seq(Frame)
  BY DEF StackOk
<1>2. Len(tys) \in Nat /\ r = tys[Len(tys)] /\ l \in InType /\ r \in InType
  BY <1>1 DEF Last
<1>3. l \in Type /\ r \in Type
  BY <1>2, InTypeFacts
<1>4. PICK n, us, vs, x, y : n = 2 /\ us = Under(2) /\ vs = Given(2) /\ x = wsUnder(2) /\ y = wsTop(2)
  OBVIOUS
<1>5. IsTop(tys, n, us, vs)
  BY <1>2, <1>4 DEF IsTop, Under, Given
<1>6. vs = <<l, r>> /\ us \in Seq(InType)
  <2>1. vs \in Seq(InType) /\ Len(vs) = n /\ \A i \in 1..n : vs[i] = tys[Len(tys) - n + i]
    BY ONLY <1>1, <1>5, TopCut
  <2>2. us \in Seq(InType)
    BY ONLY <1>1, <1>5, TopCut
  <2>3. /\ Len(tys) - 2 + 1 = Len(tys) - 1 /\ Len(tys) - 2 + 2 = Len(tys) /\ n = 2 /\ 1 \in 1..2
        /\ 2 \in 1..2
    BY <1>2, <1>4
  <2>4. vs[1] = l /\ vs[2] = r /\ n = 2
    BY <1>2, <2>1, <2>3
  <2>. QED
    BY ONLY <2>1, <2>2, <2>4
<1>7. IsConcat(vs, <<l>>, <<r>>) /\ <<l>> \in Seq(Type) /\ <<r>> \in Seq(Type)
  BY <1>3, <1>6 DEF IsConcat
<1>8. SizeOf(<<l>>) = 1 /\ SizeOf(<<r>>) = 1
  BY <1>3, OneSlot
<1>9. n = SizeOf(vs)
  <2>1. IsSum(SizeOf(vs), SizeOf(<<l>>), SizeOf(<<r>>))
    BY <1>7, SizeConcat
  <2>. QED
    BY <1>4, <1>8, <2>1 DEF IsSum
<1>10. Free(k, tys, n)
  BY <1>1, <1>4, OwnFree
<1>11. Halves(ws, n, x, y)
  BY <1>4 DEF Halves, wsUnder, wsTop
<1>12. /\ StackOk(x, us, k, mem, O) /\ AllOk(y, vs, Has(mem), O) /\ IsTop(ws, n, x, y)
       /\ x \in Seq(Word) /\ y \in Seq(Word) /\ Len(y) = n
  <2>1. StackOk(ws, tys, k, mem, O) /\ n = SizeOf(vs)
    BY <1>9
  <2>. QED
    BY ONLY <2>1, <1>5, <1>10, <1>11, Taken
<1>13. PICK a, b : a = ws[Len(ws) - 1] /\ b = ws[Len(ws)]
  OBVIOUS
<1>14. y = <<a, b>> /\ a \in Word /\ b \in Word
  <2>1. Len(ws) > 1 /\ Len(ws) \in Nat
    BY <1>1, <1>4, <1>12 DEF IsTop
  <2>2. \A i \in 1..n : y[i] = ws[Len(ws) - n + i]
    BY ONLY <1>1, <1>12, TopCut
  <2>3. Len(ws) - 2 + 1 = Len(ws) - 1 /\ Len(ws) - 2 + 2 = Len(ws) /\ n = 2 /\ 1 \in 1..2 /\ 2 \in 1..2
    BY <1>4, <2>1
  <2>4. y[1] = a /\ y[2] = b /\ n = 2
    BY <1>13, <2>2, <2>3
  <2>5. y = <<a, b>>
    BY ONLY <1>12, <2>4
  <2>6. Len(ws) - 1 \in 1..Len(ws) /\ Len(ws) \in 1..Len(ws)
    BY <2>1
  <2>. QED
    BY <1>1, <1>13, <2>5, <2>6
<1>15. AllOk(<<a>>, <<l>>, Has(mem), O) /\ AllOk(<<b>>, <<r>>, Has(mem), O)
  <2>1. Joined(y, <<a>>, <<b>>, vs, <<l>>, <<r>>)
    <3>1. IsConcat(y, <<a>>, <<b>>) /\ <<a>> \in Seq(Word) /\ <<b>> \in Seq(Word) /\ Len(<<a>>) = 1
      <4>1. <<a>> \in Seq(Word) /\ <<b>> \in Seq(Word) /\ Len(<<a>>) = 1
        BY ONLY <1>14
      <4>2. IsAppend(y, <<a>>, b)
        BY <1>14 DEF IsAppend
      <4>3. IsConcat(y, <<a>>, <<b>>)
        BY ONLY <1>14, <4>1, <4>2, AppendConcat
      <4>. QED
        BY <4>1, <4>3
    <3>. QED
      BY <1>7, <1>8, <3>1 DEF Joined
  <2>. QED
    BY <1>12, <2>1, AllOkJoined
<1>16. SlotOk(a, l, Has(mem)) /\ SlotOk(b, r, Has(mem))
  BY <1>3, <1>15, OneSlot
<1>. QED
  BY <1>2, <1>4, <1>12, <1>13, <1>16 DEF Last

(* A move copies within the objects that both references are to.           *)
LEMMA N_atEqOk ==
  ASSUME KeepsRules, TypesInv, N_atEq
  PROVE  TypesInv'
<1>1. PICK l, r, to, b, n : /\ l = tys[Len(tys) - 1] /\ r = Last(tys) /\ to = ws[Len(ws) - 1]
                            /\ b = Last(ws)
                            /\ n = Size(T(0, r.ty))
  OBVIOUS
<1>2. Stmt /\ Len(tys) > 1 /\ Own(ctl, 2) /\ Opaque(r)
  BY <1>1 DEF N_atEq
<1>3. StackOk(ws, tys, ctl, mem, opened) /\ MemOk(mem, opened) /\ faults = {}
  BY <1>2, StmtFacts
<1>4. CASE ~(l.refs = 1 /\ r.refs = 1 /\ TyI_check(l, r))
  BY <1>1, <1>2, <1>4, PanicStep DEF N_atEq
<1>5. CASE l.refs = 1 /\ r.refs = 1 /\ TyI_check(l, r)
  <2>1. PICK src, old, y : /\ src = [i \in 1..n |-> mem[b[2]][b[3] + i]] /\ old = mem[to[2]]
          /\ y = [i \in DOMAIN old |-> IF i \in (to[3] + 1)..(to[3] + n) THEN src[i - to[3]] ELSE old[i]]
    OBVIOUS
  <2>2. /\ r.ty \in Struct => l.ty \notin Above(r.ty)
        /\ mem' = [mem EXCEPT ![to[2]] = y] /\ RolesStill
        /\ faults' = IF to[3] + n > Len(old) THEN faults \union {"outside"} ELSE faults
        /\ tys' = Under(2) /\ ws' = wsUnder(2) /\ Keep /\ ctl' = ctl
    BY <1>1, <1>5, <2>1 DEF N_atEq, KeepsRules, RuleNames
  <2>3. /\ StackOk(wsUnder(2), Under(2), ctl, mem, opened) /\ l \in InType /\ r \in InType
        /\ SlotOk(to, l, Has(mem)) /\ SlotOk(b, r, Has(mem))
    <3>1. l.refs > 0 /\ r.refs > 0
      BY <1>5
    <3>. QED
      BY <1>1, <1>2, <1>3, <3>1, TopTwo
  <2>4. l \in Type /\ r \in Type /\ r.ty # "Self"
    BY <1>2, <2>3, InTypeFacts DEF Opaque, KeepsRules, RuleNames
  <2>5. l.ty = r.ty \/ (l.ty \in Native /\ r.ty \in Native)
    BY <1>5, <2>2 DEF TyI_check, Native
  <2>6. to[3] \in Nat /\ n \in Nat
    <3>1. RefOk(to, Has(mem))
      BY <1>5, <2>3 DEF SlotOk
    <3>2. to[3] \in Nat
      BY <3>1, RefOkFacts DEF Has
    <3>3. T(0, r.ty) \in Type
      BY <2>4 DEF T, Type
    <3>. QED
      BY <1>1, <3>2, <3>3, SlotsOfFacts
  <2>7. y = Moved(mem, to, b, n)
    <3>1. \A i : i \in (to[3] + 1)..(to[3] + n) => i - to[3] \in 1..n
      BY <2>6
    <3>2. \A i : i \in (to[3] + 1)..(to[3] + n) => src[i - to[3]] = mem[b[2]][b[3] + (i - to[3])]
      BY <2>1, <3>1
    <3>. QED
      BY <2>1, <3>2 DEF Moved
  <2>8. /\ to[3] + n <= Len(mem[to[2]])
        /\ MemOk([mem EXCEPT ![to[2]] = y], opened) /\ Has([mem EXCEPT ![to[2]] = y]) = Has(mem)
    <3>1. /\ MemOk(mem, opened) /\ l \in Type /\ r \in Type /\ l.refs = 1 /\ r.refs = 1 /\ r.ty # "Self"
          /\ SlotOk(to, l, Has(mem)) /\ SlotOk(b, r, Has(mem)) /\ n = Size(T(0, r.ty))
          /\ y = Moved(mem, to, b, n)
      BY <1>1, <1>3, <1>5, <2>3, <2>4, <2>7
    <3>. QED
      BY ONLY <2>5, <3>1, MoveMem
  <2>9. faults' = {}
    <3>1. Len(mem[to[2]]) \in Nat
      <4>1. RefOk(to, Has(mem))
        BY <1>5, <2>3 DEF SlotOk
      <4>2. to[2] \in Has(mem)
        BY <4>1, RefOkFacts DEF Has
      <4>. QED
        BY <1>3, <4>2, MemFacts
    <3>2. ~(to[3] + n > Len(mem[to[2]]))
      BY ONLY <2>6, <2>8, <3>1
    <3>. QED
      BY <1>3, <2>1, <2>2, <3>2
  <2>10. StackOk(ws', tys', ctl', mem', opened)
    <3>1. Has(mem) \subseteq Has(mem')
      BY <2>2, <2>8
    <3>. QED
      BY <2>2, <2>3, <3>1, StillGrow
  <2>. QED
    BY <1>2, <2>2, <2>8, <2>9, <2>10, StmtStep, KeepFacts
<1>. QED
  BY <1>4, <1>5

(* A struct takes the slots of its fields as they are.                     *)
LEMMA compileStructOk ==
  ASSUME KeepsRules, TypesInv, NEW s \in Struct, compileStruct(s)
  PROVE  TypesInv'
<1>1. PICK r : r = FieldTypes(s)
  OBVIOUS
<1>2. Stmt
  BY DEF compileStruct, Take
<1>3. CASE ~tyCheck(r)
  BY <1>1, <1>2, <1>3, PanicStep DEF compileStruct, Take, FieldTypes
<1>4. CASE tyCheck(r)
  <2>1. PICK n, z, t : n = Len(r) /\ z = SizeOf(r) /\ t = T(0, s)
    OBVIOUS
  <2>2. /\ Kept(ctl, r) /\ tys' = Append(Under(n), t) /\ Keep /\ mem' = mem /\ ws' = ws
        /\ ctl' = ctl /\ faults' = faults
    BY <1>1, <1>4, <2>1 DEF compileStruct, Take, FieldTypes
  <2>3. StackOk(ws, tys, ctl, mem, opened) /\ MemOk(mem, opened) /\ faults = {}
    BY <1>2, StmtFacts
  <2>4. r \in Seq(Type)
    BY <1>1, FieldFacts
  <2>5. PICK w, y : w = wsUnder(z) /\ y = wsTop(z)
    OBVIOUS
  <2>6. /\ StackOk(w, Under(n), ctl, mem, opened) /\ AllOk(y, r, Has(mem), opened)
        /\ w \in Seq(Word) /\ y \in Seq(Word) /\ IsTop(ws, z, w, y)
    <3>1. KeepsRules /\ StackOk(ws, tys, ctl, mem, opened) /\ tyCheck(r) /\ Kept(ctl, r)
      BY <1>4, <2>2, <2>3
    <3>. QED
      BY ONLY <3>1, <2>1, <2>4, <2>5, TakeOk
  <2>7. t \in InType /\ t \in Type
    <3>1. s \notin {"Self"}
      BY NamesAssumption
    <3>2. t \in Type /\ t.ty # "Self"
      BY <2>1, <3>1 DEF T, Type
    <3>. QED
      BY <3>2, InTypeFacts
  <2>8. AllOk(y, <<t>>, Has(mem), opened)
    <3>1. AllSlots(<<t>>) = SlotsOf(t)
      BY <2>7, AllSlotsOne
    <3>2. SlotsOf(t) = Slots[s]
      BY <2>1, <2>7, SlotsOfFacts, TFacts
    <3>3. AllSlots(<<t>>) = AllSlots(r)
      BY <1>1, <3>1, <3>2, SlotsEquation
    <3>. QED
      BY <2>6, <3>3 DEF AllOk
  <2>9. StackOk(w \o y, Append(Under(n), t), ctl, mem, opened)
    BY ONLY <2>6, <2>7, <2>8, PushOk
  <2>10. w \o y = ws
    <3>1. ws \in Seq(Word)
      BY <2>3 DEF StackOk
    <3>2. IsConcat(ws, w, y)
      BY ONLY <2>6, <3>1, TopCut
    <3>. QED
      BY <3>2 DEF IsConcat
  <2>. QED
    BY <1>2, <2>2, <2>3, <2>9, <2>10, StmtStep, KeepFacts
<1>. QED
  BY <1>3, <1>4

(* A role gets the methods of the nearest impl of its data's struct.       *)
LEMMA compileRoleOk ==
  ASSUME KeepsRules, TypesInv, compileRole
  PROVE  TypesInv'
<1>1. PICK t, d : t = Last(tys) /\ d = Last(ws)
  OBVIOUS
<1>2. Stmt /\ tys # << >> /\ Own(ctl, 1)
  BY <1>1 DEF compileRole
<1>3. CASE t.refs # 1 \/ t.ty \notin Struct \/ ~Finds(t.ty, opened)
  BY <1>1, <1>2, <1>3, PanicStep DEF compileRole
<1>4. CASE t.refs = 1 /\ t.ty \in Struct /\ Finds(t.ty, opened)
  <2>1. PICK s, q, m : s = TyDict_find(t.ty, opened) /\ q = T(0, Role) /\ m = methsOf(s)
    OBVIOUS
  <2>2. /\ tys' = Append(Under(1), q) /\ ws' = Append(ws, m)
        /\ Keep /\ mem' = mem /\ ctl' = ctl /\ faults' = faults
    BY <1>1, <1>4, <2>1 DEF compileRole
  <2>3. /\ StackOk(ws, tys, ctl, mem, opened) /\ MemOk(mem, opened) /\ faults = {}
        /\ Has(mem) \subseteq DOMAIN Global
    BY <1>2, StmtFacts
  <2>4. /\ StackOk(wsUnder(1), Under(1), ctl, mem, opened) /\ t \in InType /\ t \in Type
        /\ d \in Word /\ SlotOk(d, t, Has(mem)) /\ ws = Append(wsUnder(1), d) /\ wsUnder(1) \in Seq(Word)
    <3>1. t.refs > 0
      BY <1>4
    <3>. QED
      BY <1>1, <1>2, <2>3, <3>1, TopOne
  <2>5. s \in opened /\ s \in Range(Lineage[t.ty]) /\ s \in Struct
    BY <1>4, <2>1, FindFacts, AncestorPart
  <2>6. q \in Type /\ q \in InType /\ SlotsOf(q) = <<rSelf, q>>
    <3>1. q \in Type /\ q.ty # "Self"
      BY <2>1, NamesAssumption DEF T, Type
    <3>. QED
      BY <2>1, <3>1, InTypeFacts, SlotsOfFacts
  <2>7. m \in Word
    BY <2>1, <2>5, WordFacts
  <2>8. SlotOk(d, rSelf, Has(mem))
    <3>1. RefOk(d, Has(mem))
      BY <1>4, <2>4 DEF SlotOk
    <3>2. IsRef(d)
      BY <2>3, <3>1, RefOkFacts
    <3>3. rSelf.refs = 1 /\ rSelf.ty = "Self"
      BY TFacts DEF rSelf
    <3>4. "Self" \notin Native
      BY DEF Native
    <3>5. RefFits(d, rSelf)
      BY <3>2, <3>3, <3>4 DEF RefFits
    <3>. QED
      BY <3>1, <3>3, <3>4, <3>5 DEF SlotOk
  <2>9. RoleOk(d, m, Has(mem), opened)
    <3>1. T(1, s) \in Type /\ T(1, s).refs = 1 /\ T(1, s).ty = s
      BY <2>5 DEF T, Type
    <3>2. SubSlot(T(1, s), t)
      BY <1>4, <2>5, <3>1 DEF SubSlot
    <3>3. SlotOk(d, T(1, s), Has(mem))
      BY <2>3, <2>4, <3>1, <3>2, SubSlotOk
    <3>. QED
      BY <2>1, <2>5, <3>3 DEF RoleOk
  <2>10. PICK x : x = <<d, m>>
    OBVIOUS
  <2>11. AllOk(x, <<q>>, Has(mem), opened)
    <3>1. x \in Seq(Word) /\ Len(x) = 2 /\ x[1] = d /\ x[2] = m
      BY <2>4, <2>7, <2>10
    <3>2. PICK of : of = <<rSelf, q>>
      OBVIOUS
    <3>3. Len(of) = 2 /\ of[1] = rSelf /\ of[2] = q
      BY <3>2
    <3>4. rSelf # T(0, Role)
      BY TFacts DEF rSelf
    <3>5. \A i \in 1..2 : /\ of[i] # T(0, Role) => SlotOk(x[i], of[i], Has(mem))
                          /\ of[i] = T(0, Role) => i > 1 /\ RoleOk(x[i - 1], x[i], Has(mem), opened)
      <4>1. \A i \in 1..2 : i = 1 \/ (i = 2 /\ i - 1 = 1)
        OBVIOUS
      <4>. QED
        BY <2>1, <2>8, <2>9, <3>1, <3>3, <3>4, <4>1
    <3>6. SlotsOk(x, of, Has(mem), opened)
      BY <3>1, <3>3, <3>5 DEF SlotsOk
    <3>. QED
      BY <2>6, <3>2, <3>6, OneOk
  <2>12. StackOk(wsUnder(1) \o x, Append(Under(1), q), ctl, mem, opened)
    <3>1. StackOk(wsUnder(1), Under(1), ctl, mem, opened) /\ q \in InType
      BY <2>4, <2>6
    <3>. QED
      BY ONLY <3>1, <2>11, PushOk
  <2>13. ws' = wsUnder(1) \o x
    <3>1. PICK u : u = wsUnder(1)
      OBVIOUS
    <3>2. /\ u \in Seq(Word) /\ d \in Word /\ m \in Word /\ ws = Append(u, d)
          /\ ws' = Append(ws, m) /\ x = <<d, m>>
      BY <2>2, <2>4, <2>7, <2>10, <3>1
    <3>3. ws' = u \o x
      BY ONLY <3>2
    <3>. QED
      BY <3>1, <3>3
  <2>. QED
    BY <1>2, <2>2, <2>3, <2>12, <2>13, StmtStep, KeepFacts
<1>. QED
  BY <1>3, <1>4

LEMMA OnePush ==
  ASSUME NEW w, w \in Seq(Word), NEW d, d \in Word
  PROVE  w \o <<d>> = Append(w, d)
OBVIOUS

(* A method call begins, with a reference to its Self.                     *)
LEMMA dotMethOk ==
  ASSUME KeepsRules, TypesInv, NEW g \in DOMAIN Global, NEW m, dotMeth(g, m)
  PROVE  TypesInv'
<1>1. PICK t, q, d, c : /\ t = Global[g] /\ q = T(1, t.ty)
                        /\ d = (IF t.refs = 0 THEN ref(g, 0) ELSE mem[g][1])
                        /\ c = [at |-> "meth", code |-> FindMeth(t.ty, m), self |-> t.ty]
  OBVIOUS
<1>2. /\ Stmt /\ g \in Has(mem) /\ t.refs < 2 /\ t.ty \in Struct /\ HasMeth(t.ty, m)
      /\ tys' = Append(tys, q) /\ ws' = ws \o <<d>> /\ ctl' = Append(ctl, c)
      /\ Keep /\ mem' = mem /\ faults' = faults
  BY <1>1 DEF dotMeth, Declared, Has, Push
<1>3. /\ StackOk(ws, tys, ctl, mem, opened) /\ MemOk(mem, opened) /\ faults = {}
      /\ meths \subseteq DOMAIN Method
  BY <1>2, StmtFacts
<1>4. t \in Type /\ t.ty # "Self" /\ t.refs \in 0..2 /\ t = T(t.refs, t.ty) /\ q.refs = 1 /\ q.ty = t.ty
  BY <1>1, GlobalFacts, TFacts
<1>5. q \in Type /\ q \in InType
  <2>1. q \in Type
    BY <1>1, <1>2 DEF T, Type
  <2>. QED
    BY <1>4, <2>1, InTypeFacts
<1>6. d \in Word /\ SlotOk(d, q, Has(mem))
  <2>1. CASE t.refs = 0
    <3>1. t = T(0, t.ty)
      BY <1>4, <2>1
    <3>2. <<0, t>> \in Parts[t.ty]
      BY <1>2, <3>1, PartCases
    <3>3. <<0, t>> \in PartsOf(Global[g])
      BY <1>1, <1>2, <2>1, <3>2 DEF PartsOf
    <3>4. SlotOk(ref(g, 0), T(t.refs + 1, t.ty), Has(mem)) /\ ref(g, 0) \in Word
      BY <1>2, <3>3, AmpOk
    <3>. QED
      BY <1>1, <2>1, <3>4
  <2>2. CASE t.refs = 1
    <3>1. SlotsOf(t) = <<t>> /\ Size(t) = 1
      BY <1>4, <2>2, SlotsOfFacts DEF Size
    <3>2. t # T(0, Role) /\ t = q
      BY <1>1, <1>4, <2>2, TFacts
    <3>3. 1 \in 1..Size(Global[g]) /\ SlotsOf(Global[g])[1] = t
      BY <1>1, <3>1
    <3>4. mem[g][1] \in Word /\ SlotOk(mem[g][1], t, Has(mem))
      BY <1>2, <1>3, <3>2, <3>3, MemFacts
    <3>. QED
      BY <1>1, <2>2, <3>2, <3>4
  <2>. QED
    BY <1>2, <1>4, <2>1, <2>2
<1>7. /\ c \in Frame /\ c.at = "meth" /\ c.code[1] \in Range(Lineage[c.self])
  <2>1. PICK having, p : having = {x \in Struct : <<x, m>> \in meths} /\ p = TyDict_find(t.ty, having)
    OBVIOUS
  <2>2. p \in having /\ p \in Range(Lineage[t.ty])
    BY <1>2, <2>1, FindFacts DEF HasMeth
  <2>3. c.code = <<p, m>> /\ <<p, m>> \in DOMAIN Method
    BY <1>1, <1>3, <2>1, <2>2 DEF FindMeth
  <2>4. c \in Frame
    BY <1>1, <1>2, <2>3 DEF Frame
  <2>. QED
    BY <1>1, <2>2, <2>3, <2>4
<1>8. AllOk(<<d>>, <<q>>, Has(mem), opened)
  <2>1. q.refs > 0
    BY <1>4
  <2>. QED
    BY <1>5, <1>6, <2>1, OneSlot
<1>9. StackOk(ws \o <<d>>, Append(tys, q), ctl, mem, opened)
  BY ONLY <1>3, <1>5, <1>8, PushOk
<1>10. StackOk(ws', tys', ctl', mem', opened)
  BY <1>2, <1>7, <1>9, PushMeth
<1>. QED
  BY <1>2, <1>3, <1>10, StmtStep, KeepFacts

(* A role call begins, with the data of the role.                          *)
LEMMA dotRoleOk ==
  ASSUME KeepsRules, TypesInv, NEW g \in DOMAIN Global, NEW op \in DOMAIN Op, dotRole(g, op)
  PROVE  TypesInv'
<1>1. PICK d, c : /\ d = RoleAt(mem, g)[1]
                  /\ c = [at |-> "role", op |-> op, var |-> g,
                          types |-> Len(tys) + 1, slots |-> Len(ws) + 1]
  OBVIOUS
<1>2. /\ Stmt /\ g \in Has(mem) /\ Global[g].refs < 2 /\ Global[g].ty = Role
      /\ rSelf \notin Range(Op[op].inp)
      /\ tys' = Append(tys, rSelf) /\ ws' = ws \o <<d>> /\ ctl' = Append(ctl, c)
      /\ Keep /\ mem' = mem /\ faults' = faults
  BY <1>1 DEF dotRole, Declared, Has, Push, KeepsRules, RuleNames
<1>3. StackOk(ws, tys, ctl, mem, opened) /\ MemOk(mem, opened) /\ faults = {}
  BY <1>2, StmtFacts
<1>4. d \in Word /\ SlotOk(d, rSelf, Has(mem))
  BY <1>1, <1>2, <1>3, RoleAtFacts
<1>5. ws \in Seq(Word) /\ tys \in Seq(InType)
  BY <1>3 DEF StackOk
<1>6. /\ c \in Frame /\ c.at = "role" /\ c.slots = Len(ws) + 1 /\ c.types = Len(tys) + 1
      /\ c.var \in Has(mem) /\ Global[c.var].ty = Role /\ Global[c.var].refs < 2
      /\ rSelf \notin Range(Op[c.op].inp) /\ d = RoleAt(mem, c.var)[1]
  <2>1. c.op = op /\ c.var = g /\ c.at = "role" /\ c.slots = Len(ws) + 1 /\ c.types = Len(tys) + 1
    BY <1>1
  <2>2. Len(ws) + 1 \in Nat /\ Len(tys) + 1 \in Nat
    BY <1>5
  <2>3. c \in Frame
    BY <1>1, <2>2 DEF Frame
  <2>. QED
    BY <1>1, <1>2, <2>1, <2>3
<1>7. StackOk(Append(ws, d), Append(tys, rSelf), Append(ctl, c), mem, opened)
  <2>1. StackOk(ws, tys, ctl, mem, opened)
    BY <1>3
  <2>. QED
    BY ONLY <1>4, <1>6, <2>1, PushRole
<1>8. ws' = Append(ws, d)
  BY <1>2, <1>4, <1>5, OnePush
<1>. QED
  BY <1>2, <1>3, <1>7, <1>8, StmtStep, KeepFacts

-----------------------------------------------------------------------------
(* Signatures.                                                             *)

LEMMA SignatureFacts ==
  ASSUME NEW io \in Signature
  PROVE  /\ io.inp \in Seq(InType) /\ io.out \in Seq(InType) /\ io.inp \in Seq(Type)
         /\ io.out \in Seq(Type)
         /\ io.out = << >> \/ (Len(io.out) = 1 /\ io.out = <<io.out[1]>> /\ io.out[1] \in OutType)
<1>1. io.inp \in Seq(InType) /\ io.out \in {<< >>} \union {<<t>> : t \in OutType}
  BY DEF Signature
<1>2. CASE io.out = << >>
  BY <1>1, <1>2, InTypeFacts
<1>3. CASE io.out # << >>
  <2>1. PICK t \in OutType : io.out = <<t>>
    BY <1>1, <1>3
  <2>2. t \in InType
    BY DEF OutType
  <2>3. Len(io.out) = 1 /\ io.out[1] = t /\ io.out \in Seq(InType)
    BY <2>1, <2>2
  <2>. QED
    BY <1>1, <2>1, <2>3, InTypeFacts
<1>. QED
  BY <1>2, <1>3

LEMMA SignaturesOk ==
  /\ \A op \in DOMAIN Op : Op[op] \in Signature
  /\ \A c \in DOMAIN Method : Method[c] \in Signature
  /\ \A f \in DOMAIN Fn : Fn[f] \in Signature
BY TypeAssumption

(* Self stands for a struct.                                               *)
Replaced(ts, s) == [i \in DOMAIN ts |-> AsSelf(ts[i], s)]

LEMMA ReplaceSelf ==
  ASSUME NEW io, NEW s
  PROVE  InOut_replaceSelf(io, s).inp = Replaced(io.inp, s)
      /\ InOut_replaceSelf(io, s).out = Replaced(io.out, s)
BY DEF InOut_replaceSelf, Replaced, AsSelf

LEMMA AsSelfFacts ==
  ASSUME NEW t, t \in InType, NEW s, s \in Struct
  PROVE  /\ AsSelf(t, s) \in Type /\ AsSelf(t, s) \in InType /\ AsSelf(t, s).refs = t.refs
         /\ t.ty # "Self" => AsSelf(t, s) = t
         /\ t.ty = "Self" => t = rSelf /\ AsSelf(t, s) = T(1, s)
<1>1. t \in Type /\ (t.ty = "Self" => t = rSelf)
  BY InTypeFacts
<1>2. T(1, s) \in Type /\ T(1, s).ty = s /\ T(1, s).refs = 1 /\ s # "Self"
  BY NamesAssumption DEF T, Type
<1>3. T(1, s) \in InType
  BY <1>2, InTypeFacts
<1>4. rSelf.refs = 1
  BY TFacts DEF rSelf
<1>. QED
  BY <1>1, <1>2, <1>3, <1>4 DEF AsSelf

LEMMA ReplacedFacts ==
  ASSUME NEW ts, ts \in Seq(InType), NEW s, s \in Struct
  PROVE  /\ Replaced(ts, s) \in Seq(InType) /\ Replaced(ts, s) \in Seq(Type)
         /\ Len(Replaced(ts, s)) = Len(ts) /\ Len(ts) \in Nat
         /\ \A i \in 1..Len(ts) : Replaced(ts, s)[i] = AsSelf(ts[i], s)
<1>1. DOMAIN ts = 1..Len(ts) /\ Len(ts) \in Nat
  OBVIOUS
<1>2. \A i \in 1..Len(ts) : Replaced(ts, s)[i] = AsSelf(ts[i], s)
  BY <1>1 DEF Replaced
<1>3. \A i \in 1..Len(ts) : AsSelf(ts[i], s) \in InType
  BY <1>1, AsSelfFacts
<1>4. Replaced(ts, s) \in [1..Len(ts) -> InType]
  BY <1>1, <1>3 DEF Replaced
<1>5. Replaced(ts, s) \in Seq(InType) /\ Len(Replaced(ts, s)) = Len(ts)
  BY ONLY <1>1, <1>4
<1>. QED
  BY <1>1, <1>2, <1>5, InTypeFacts

(* Self goes first.                                                        *)
LEMMA SelfFirst ==
  ASSUME NEW ts, ts \in Seq(InType), NEW q, q = <<rSelf>> \o ts
  PROVE  /\ q \in Seq(InType) /\ q \in Seq(Type) /\ Len(q) = Len(ts) + 1 /\ Len(ts) \in Nat
         /\ q[1] = rSelf /\ \A i \in 1..Len(ts) : q[i + 1] = ts[i]
<1>1. rSelf \in InType
  BY InTypeFacts
<1>2. q \in Seq(InType) /\ Len(q) = Len(ts) + 1 /\ Len(ts) \in Nat
  BY <1>1
<1>3. q[1] = rSelf /\ \A i \in 1..Len(ts) : q[i + 1] = ts[i]
  BY <1>1
<1>. QED
  BY <1>2, <1>3, InTypeFacts

LEMMA MethodInp ==
  ASSUME NEW ts, ts \in Seq(InType), NEW s, s \in Struct, NEW q, q = Replaced(<<rSelf>> \o ts, s)
  PROVE  /\ q \in Seq(InType) /\ q \in Seq(Type) /\ Len(q) = Len(ts) + 1 /\ Len(ts) \in Nat
         /\ q[1] = T(1, s) /\ \A i \in 1..Len(ts) : q[i + 1] = AsSelf(ts[i], s)
<1>1. PICK u : u = <<rSelf>> \o ts
  OBVIOUS
<1>2. /\ u \in Seq(InType) /\ Len(u) = Len(ts) + 1 /\ Len(ts) \in Nat
      /\ u[1] = rSelf /\ \A i \in 1..Len(ts) : u[i + 1] = ts[i]
  BY <1>1, SelfFirst
<1>3. /\ q \in Seq(InType) /\ q \in Seq(Type) /\ Len(q) = Len(u)
      /\ \A i \in 1..Len(u) : q[i] = AsSelf(u[i], s)
  BY <1>1, <1>2, ReplacedFacts
<1>4. AsSelf(rSelf, s) = T(1, s)
  BY TFacts DEF AsSelf, rSelf
<1>5. 1 \in 1..Len(u) /\ \A i \in 1..Len(ts) : i + 1 \in 1..Len(u)
  BY <1>2
<1>. QED
  BY <1>2, <1>3, <1>4, <1>5

-----------------------------------------------------------------------------
(* Declarations.                                                           *)

LEMMA BetweenFacts ==
  ASSUME TypesInv, Between
  PROVE  /\ phase = "run" /\ ctl = << >> /\ Waiting = << >> /\ StackOk(ws, tys, << >>, mem, opened)
         /\ MemOk(mem, opened) /\ meths \subseteq DOMAIN Method /\ ImplsOk /\ faults = {}
         /\ \A s \in opened : \A op \in DOMAIN Op : <<s, op>> \in DOMAIN impls
<1>1. phase = "run" /\ ctl = << >> /\ Waiting = << >>
  BY DEF Between, Waiting
<1>. QED
  BY <1>1 DEF TypesInv, OpenedOk

(* A method is declared.                                                   *)
LEMMA N_methOk ==
  ASSUME TypesInv, NEW s \in Struct, NEW m, N_meth(s, m)
  PROVE  TypesInv'
<1>1. /\ Between /\ meths' = meths \union {<<s, m>>} /\ <<s, m>> \in DOMAIN Method
      /\ phase' \in {"run", "left"} /\ UNCHANGED <<impls, opened, mem, tys, ws, ctl, faults>>
  BY DEF N_meth, Leaves
<1>2. /\ ctl = << >> /\ StackOk(ws, tys, << >>, mem, opened) /\ Waiting = << >>
      /\ MemOk(mem, opened) /\ meths \subseteq DOMAIN Method /\ ImplsOk /\ faults = {}
      /\ \A p \in opened : \A op \in DOMAIN Op : <<p, op>> \in DOMAIN impls
  BY <1>1, BetweenFacts
<1>3. meths' \subseteq DOMAIN Method
  BY <1>1, <1>2
<1>4. ImplsOk'
  BY <1>1, <1>2 DEF ImplsOk
<1>5. OpenedOk'
  BY <1>1, <1>2 DEF OpenedOk
<1>6. CtlOk'
  BY <1>1, <1>2 DEF CtlOk
<1>7. Waiting' = << >> /\ MemOk(mem, opened)' /\ faults' = {}
  BY <1>1, <1>2 DEF Waiting
<1>8. StackOk(ws, tys, Waiting, mem, opened)'
  BY <1>1, <1>2, <1>7
<1>. QED
  BY <1>3, <1>4, <1>5, <1>6, <1>7, <1>8 DEF TypesInv

LEMMA ImplFrameFacts ==
  ASSUME NEW s \in Struct, NEW given \in SUBSET DOMAIN Op, NEW c,
         c = [at |-> "impl", struct |-> s, given |-> given]
  PROVE  /\ <<c>> \in [{1} -> ImplFrame] /\ Len(<<c>>) = 1 /\ <<c>> # << >> /\ <<c>>[1] = c
         /\ c.at = "impl" /\ c.struct = s /\ c.given = given
<1>1. c \in ImplFrame /\ c.at = "impl" /\ c.struct = s /\ c.given = given
  BY DEF ImplFrame
<1>2. <<c>> \in [{1} -> ImplFrame]
  BY <1>1
<1>3. Len(<<c>>) = 1 /\ <<c>> # << >> /\ <<c>>[1] = c
  OBVIOUS
<1>. QED
  BY <1>1, <1>2, <1>3

(* An impl begins.                                                         *)
LEMMA N_implOk ==
  ASSUME TypesInv, NEW s \in Struct, N_impl(s)
  PROVE  TypesInv'
<1>1. PICK c : c = [at |-> "impl", struct |-> s, given |-> {}]
  OBVIOUS
<1>2. /\ Between /\ opened' = opened \union {s} /\ ctl' = <<c>>
      /\ UNCHANGED <<meths, impls, mem, tys, ws, phase, faults>>
  BY <1>1 DEF N_impl
<1>3. /\ ctl = << >> /\ StackOk(ws, tys, << >>, mem, opened) /\ phase = "run"
      /\ MemOk(mem, opened) /\ meths \subseteq DOMAIN Method /\ ImplsOk /\ faults = {}
      /\ \A p \in opened : \A op \in DOMAIN Op : <<p, op>> \in DOMAIN impls
  BY <1>2, BetweenFacts
<1>4. /\ ctl' \in [{1} -> ImplFrame] /\ Len(ctl') = 1 /\ ctl' # << >>
      /\ ctl'[1].at = "impl" /\ ctl'[1].struct = s /\ ctl'[1].given = {}
  BY <1>1, <1>2, ImplFrameFacts
<1>5. Waiting' = << >>
  BY <1>4 DEF Waiting
<1>6. opened \subseteq opened' /\ opened' \subseteq Struct
  BY <1>2, <1>3 DEF ImplsOk
<1>7. ImplsOk'
  BY <1>2, <1>3, <1>6 DEF ImplsOk
<1>8. OpenedOk'
  BY <1>2, <1>3, <1>4 DEF OpenedOk
<1>9. CtlOk'
  <2>1. tys' = << >>
    BY <1>2 DEF Between
  <2>. QED
    BY <1>2, <1>3, <1>4, <2>1 DEF CtlOk
<1>10. MemOk(mem', opened')
  <2>1. \A x, ts : AllOk(x, ts, Has(mem), opened) => AllOk(x, ts, Has(mem), opened')
    BY <1>6, MoreOk
  <2>2. MemOk(mem, opened')
    BY <1>3, <2>1 DEF MemOk
  <2>. QED
    BY <1>2, <2>2
<1>11. StackOk(ws', tys', Waiting', mem', opened')
  <2>1. PICK k : k = << >>
    OBVIOUS
  <2>2. StackOk(ws, tys, k, mem, opened) /\ \A i \in 1..Len(k) : FALSE
    BY <1>3, <2>1
  <2>3. StackOk(ws, tys, k, mem, opened')
    BY <1>6, <2>2, Grow
  <2>. QED
    BY <1>2, <1>5, <2>1, <2>3
<1>. QED
  BY <1>2, <1>3, <1>7, <1>8, <1>9, <1>10, <1>11 DEF TypesInv

LEMMA ImplFacts ==
  ASSUME TypesInv, ctl # << >>, ctl[1].at = "impl"
  PROVE  /\ ctl = <<ctl[1]>> /\ ctl[1] \in ImplFrame /\ Waiting = << >> /\ phase = "run" /\ tys = << >>
         /\ StackOk(ws, tys, << >>, mem, opened) /\ MemOk(mem, opened) /\ meths \subseteq DOMAIN Method
         /\ ImplsOk /\ faults = {}
         /\ ctl[1].struct \in Struct /\ ctl[1].given \subseteq DOMAIN Op
         /\ ctl[1] = [at |-> "impl", struct |-> ctl[1].struct, given |-> ctl[1].given]
         /\ \A s \in opened : \A op \in DOMAIN Op :
              <<s, op>> \in DOMAIN impls \/ (ctl[1].struct = s /\ op \notin ctl[1].given)
<1>1. ctl \in [{1} -> ImplFrame] /\ Len(ctl) = 1 /\ phase = "run" /\ tys = << >> /\ Waiting = << >>
  BY DEF TypesInv, CtlOk, Waiting
<1>2. ctl[1] \in ImplFrame
  BY <1>1
<1>3. ctl = <<ctl[1]>>
  <2>1. 1..1 = {1}
    OBVIOUS
  <2>2. ctl \in Seq(ImplFrame)
    BY <1>1, <2>1, SeqDef
  <2>. QED
    BY ONLY <1>1, <2>2
<1>4. /\ ctl[1].struct \in Struct /\ ctl[1].given \subseteq DOMAIN Op
      /\ ctl[1] = [at |-> "impl", struct |-> ctl[1].struct, given |-> ctl[1].given]
  BY <1>2 DEF ImplFrame
<1>. QED
  BY <1>1, <1>2, <1>3, <1>4 DEF TypesInv, OpenedOk

(* An impl ends with a method for every op.                                *)
LEMMA N_impl_endOk ==
  ASSUME KeepsRules, TypesInv, N_impl_end
  PROVE  TypesInv'
<1>1. /\ ctl # << >> /\ ctl[1].at = "impl" /\ ctl' = << >> /\ ctl[1].given = DOMAIN Op
      /\ UNCHANGED <<meths, impls, opened, mem, tys, ws, phase, faults>>
  BY DEF N_impl_end, dicts, KeepsRules, RuleNames
<1>2. /\ phase = "run" /\ tys = << >>
      /\ StackOk(ws, tys, << >>, mem, opened) /\ MemOk(mem, opened) /\ meths \subseteq DOMAIN Method
      /\ ImplsOk /\ faults = {}
      /\ \A s \in opened : \A op \in DOMAIN Op : <<s, op>> \in DOMAIN impls
  BY <1>1, ImplFacts
<1>3. ImplsOk' /\ OpenedOk' /\ CtlOk'
  BY <1>1, <1>2 DEF ImplsOk, OpenedOk, CtlOk
<1>4. Waiting' = << >>
  BY <1>1 DEF Waiting
<1>5. StackOk(ws', tys', Waiting', mem', opened') /\ MemOk(mem', opened')
  BY <1>1, <1>2, <1>4
<1>. QED
  BY <1>1, <1>2, <1>3, <1>5 DEF TypesInv

(* What FindMeth finds is a method of the struct or of an ancestor.        *)
LEMMA FoundMeth ==
  ASSUME TypesInv, NEW q \in Struct, NEW m, HasMeth(q, m), NEW code, code = FindMeth(q, m)
  PROVE  /\ code \in DOMAIN Method /\ code[1] \in Range(Lineage[q]) /\ code[1] \in Struct
         /\ Method[code] \in Signature
<1>1. PICK having, p : having = {x \in Struct : <<x, m>> \in meths} /\ p = TyDict_find(q, having)
  OBVIOUS
<1>2. p \in having /\ p \in Range(Lineage[q])
  BY <1>1, FindFacts DEF HasMeth
<1>3. code = <<p, m>>
  BY <1>1 DEF FindMeth
<1>4. code \in DOMAIN Method /\ code[1] = p
  BY <1>1, <1>2, <1>3 DEF TypesInv
<1>. QED
  BY <1>1, <1>2, <1>4, SignaturesOk

(* A method that is assigned in an impl is what the op needs.              *)
LEMMA AssignedFits ==
  ASSUME KeepsRules, TypesInv, NEW s \in Struct, NEW op \in DOMAIN Op, NEW q \in Struct, NEW m,
         HasMeth(q, m),
         InOut_check(InOut_replaceSelf(opSig(op), s), ampSig(q, m)),
         Implements(InOut_replaceSelf(opSig(op), s), ampSig(q, m))
  PROVE  ImplFor(s, op, FindMeth(q, m))
<1>1. PICK code, a, b, r, g, ro, go : /\ code = FindMeth(q, m) /\ a = Op[op] /\ b = Method[code]
        /\ r = Replaced(<<rSelf>> \o a.inp, s) /\ g = Replaced(<<rSelf>> \o b.inp, q)
        /\ ro = Replaced(a.out, s) /\ go = Replaced(b.out, q)
  OBVIOUS
<1>2. code \in DOMAIN Method /\ code[1] \in Range(Lineage[q]) /\ b \in Signature
  BY <1>1, FoundMeth
<1>3. a \in Signature
  BY <1>1, SignaturesOk
<1>4. InOut_replaceSelf(opSig(op), s).inp = r /\ InOut_replaceSelf(opSig(op), s).out = ro
  <2>1. PICK u : u = opSig(op)
    OBVIOUS
  <2>2. u.inp = <<rSelf>> \o a.inp /\ u.out = a.out
    BY <1>1, <2>1 DEF opSig
  <2>3. /\ InOut_replaceSelf(u, s).inp = Replaced(u.inp, s)
        /\ InOut_replaceSelf(u, s).out = Replaced(u.out, s)
    BY ONLY ReplaceSelf
  <2>. QED
    BY <1>1, <2>1, <2>2, <2>3
<1>5. ampSig(q, m).inp = g /\ ampSig(q, m).out = go
  <2>1. PICK u : u = [inp |-> <<rSelf>> \o b.inp, out |-> b.out]
    OBVIOUS
  <2>2. u.inp = <<rSelf>> \o b.inp /\ u.out = b.out /\ ampSig(q, m) = InOut_replaceSelf(u, q)
    BY <1>1, <2>1 DEF ampSig
  <2>. QED
    <3>1. /\ InOut_replaceSelf(u, q).inp = Replaced(u.inp, q)
          /\ InOut_replaceSelf(u, q).out = Replaced(u.out, q)
      BY ONLY ReplaceSelf
    <3>. QED
      BY <1>1, <2>2, <3>1
<1>6. CheckAll(ro, go) /\ r = g /\ \A i \in DOMAIN ro : Ruled(ro[i], go[i])
  BY <1>4, <1>5 DEF InOut_check, Implements, KeepsRules, RuleNames
<1>7. a.inp \in Seq(InType) /\ b.inp \in Seq(InType) /\ a.out \in Seq(InType) /\ b.out \in Seq(InType)
  BY <1>2, <1>3, SignatureFacts
<1>8. /\ Len(r) = Len(a.inp) + 1 /\ Len(a.inp) \in Nat /\ r[1] = T(1, s)
      /\ \A i \in 1..Len(a.inp) : r[i + 1] = AsSelf(a.inp[i], s)
  <2>1. PICK ts : ts = a.inp
    OBVIOUS
  <2>2. ts \in Seq(InType) /\ s \in Struct /\ r = Replaced(<<rSelf>> \o ts, s)
    BY <1>1, <1>7, <2>1
  <2>3. /\ Len(r) = Len(ts) + 1 /\ Len(ts) \in Nat /\ r[1] = T(1, s)
        /\ \A i \in 1..Len(ts) : r[i + 1] = AsSelf(ts[i], s)
    BY ONLY <2>2, MethodInp
  <2>. QED
    BY <2>1, <2>3
<1>9. /\ Len(g) = Len(b.inp) + 1 /\ Len(b.inp) \in Nat /\ g[1] = T(1, q)
      /\ \A i \in 1..Len(b.inp) : g[i + 1] = AsSelf(b.inp[i], q)
  <2>1. b.inp \in Seq(InType) /\ q \in Struct /\ g = Replaced(<<rSelf>> \o b.inp, q)
    BY <1>1, <1>7
  <2>. QED
    BY ONLY <2>1, MethodInp
<1>10. s = q /\ Len(a.inp) = Len(b.inp)
  BY <1>6, <1>8, <1>9 DEF T
<1>11. \A i \in 1..Len(a.inp) : AsSelf(a.inp[i], s) = AsSelf(b.inp[i], s)
  BY <1>6, <1>8, <1>9, <1>10
<1>12. /\ ro \in Seq(Type) /\ Len(ro) = Len(a.out) /\ Len(a.out) \in Nat
       /\ \A i \in 1..Len(a.out) : ro[i] = AsSelf(a.out[i], s)
  BY <1>1, <1>7, ReplacedFacts
<1>13. /\ go \in Seq(Type) /\ Len(go) = Len(b.out) /\ Len(b.out) \in Nat
       /\ \A i \in 1..Len(b.out) : go[i] = AsSelf(b.out[i], q)
  BY <1>1, <1>7, ReplacedFacts
<1>14. /\ Len(a.out) = Len(b.out) /\ DOMAIN ro = 1..Len(a.out)
       /\ \A i \in 1..Len(a.out) : TyI_check(ro[i], go[i])
  <2>1. Len(ro) = Len(go) /\ \A i \in DOMAIN ro : TyI_check(ro[i], go[i])
    BY <1>6 DEF CheckAll
  <2>2. DOMAIN ro = 1..Len(a.out)
    BY <1>12
  <2>. QED
    BY ONLY <1>12, <1>13, <2>1, <2>2
<1>15. \A i \in 1..Len(a.out) : SubTy(AsSelf(a.out[i], s), AsSelf(b.out[i], s))
  <2>1. SUFFICES ASSUME NEW i \in 1..Len(a.out)  PROVE SubTy(AsSelf(a.out[i], s), AsSelf(b.out[i], s))
    OBVIOUS
  <2>2. ro[i] \in Type /\ go[i] \in Type
    BY <1>12, <1>13, <1>14
  <2>3. TyI_check(ro[i], go[i]) /\ Ruled(ro[i], go[i])
    BY <1>6, <1>14
  <2>4. SubTy(ro[i], go[i])
    BY <2>2, <2>3, RuledSub
  <2>. QED
    BY <1>10, <1>12, <1>13, <1>14, <2>4
<1>. QED
  BY <1>1, <1>2, <1>10, <1>11, <1>14, <1>15 DEF ImplFor

(* An op is assigned a method.                                             *)
LEMMA N_impl_assignOk ==
  ASSUME KeepsRules, TypesInv, NEW op \in DOMAIN Op, NEW q \in Struct, NEW m, N_impl_assign(op, q, m)
  PROVE  TypesInv'
<1>1. PICK s, given, r, code, key, ok :
        /\ s = ctl[1].struct /\ given = ctl[1].given /\ r = InOut_replaceSelf(opSig(op), s)
        /\ code = FindMeth(q, m) /\ key = <<s, op>> /\ ok = InOut_check(r, ampSig(q, m))
  OBVIOUS
<1>2. /\ ctl # << >> /\ ctl[1].at = "impl" /\ HasMeth(q, m) /\ op \notin given
      /\ UNCHANGED <<meths, opened, mem, tys, ws, faults>>
  BY <1>1 DEF N_impl_assign
<1>3. /\ ctl = <<ctl[1]>> /\ Waiting = << >> /\ phase = "run" /\ tys = << >>
      /\ StackOk(ws, tys, << >>, mem, opened) /\ MemOk(mem, opened) /\ meths \subseteq DOMAIN Method
      /\ ImplsOk /\ faults = {} /\ s \in Struct /\ given \subseteq DOMAIN Op
      /\ ctl[1] = [at |-> "impl", struct |-> s, given |-> given]
      /\ \A p \in opened : \A o \in DOMAIN Op : <<p, o>> \in DOMAIN impls \/ (s = p /\ o \notin given)
  BY <1>1, <1>2, ImplFacts
<1>4. CASE ~ok
  <2>1. impls' = impls /\ ctl' = << >> /\ phase' = "left"
    BY <1>1, <1>4 DEF N_impl_assign, Leaves, KeepsRules, RuleNames
  <2>2. ImplsOk' /\ OpenedOk' /\ CtlOk'
    BY <1>2, <1>3, <2>1 DEF ImplsOk, OpenedOk, CtlOk
  <2>3. Waiting' = << >>
    BY <2>1 DEF Waiting
  <2>4. StackOk(ws', tys', Waiting', mem', opened') /\ MemOk(mem', opened')
    BY <1>2, <1>3, <2>3
  <2>. QED
    BY <1>2, <1>3, <2>2, <2>4 DEF TypesInv
<1>5. CASE ok
  <2>1. PICK c : c = [at |-> "impl", struct |-> s, given |-> given \union {op}]
    OBVIOUS
  <2>2. impls' = Assigned(key, code) /\ phase' = "run" /\ ctl' = [ctl EXCEPT ![1].given = @ \union {op}]
        /\ Implements(r, ampSig(q, m))
    BY <1>1, <1>5 DEF N_impl_assign, Leaves
  <2>3. ctl' = <<c>>
    <3>1. PICK f : f = ctl[1]
      OBVIOUS
    <3>2. ctl = <<f>> /\ f = [at |-> "impl", struct |-> s, given |-> given]
      BY <1>3, <3>1
    <3>3. c = [f EXCEPT !.given = @ \union {op}]
      BY <2>1, <3>2
    <3>4. [<<f>> EXCEPT ![1].given = @ \union {op}] = <<c>>
      BY ONLY <3>3
    <3>. QED
      BY <2>2, <3>2, <3>4
  <2>4. /\ ctl' \in [{1} -> ImplFrame] /\ Len(ctl') = 1 /\ ctl' # << >>
        /\ ctl'[1].at = "impl" /\ ctl'[1].struct = s /\ ctl'[1].given = given \union {op}
    <3>1. PICK gs : gs = given \union {op}
      OBVIOUS
    <3>2. s \in Struct /\ gs \in SUBSET DOMAIN Op /\ c = [at |-> "impl", struct |-> s, given |-> gs]
      BY <1>3, <2>1, <3>1
    <3>3. /\ <<c>> \in [{1} -> ImplFrame] /\ Len(<<c>>) = 1 /\ <<c>> # << >> /\ <<c>>[1] = c
          /\ c.at = "impl" /\ c.struct = s /\ c.given = gs
      BY ONLY <3>2, ImplFrameFacts
    <3>. QED
      BY <2>3, <3>1, <3>3
  <2>5. Waiting' = << >>
    BY <2>4 DEF Waiting
  <2>6. ImplFor(s, op, code)
    BY <1>1, <1>2, <1>3, <1>5, <2>2, AssignedFits
  <2>7. /\ DOMAIN impls' = DOMAIN impls \union {key} /\ impls'[key] = code
        /\ \A x \in DOMAIN impls : x # key => impls'[x] = impls[x]
    BY <2>2 DEF Assigned
  <2>8. ImplsOk'
    <3>1. opened' \subseteq Struct /\ DOMAIN impls' \subseteq Struct \X DOMAIN Op
      BY <1>1, <1>2, <1>3, <2>7 DEF ImplsOk
    <3>2. ASSUME NEW p \in Struct, NEW o \in DOMAIN Op, <<p, o>> \in DOMAIN impls'
          PROVE  ImplFor(p, o, impls'[<<p, o>>])
      <4>1. CASE <<p, o>> = key
        BY <1>1, <2>6, <2>7, <4>1
      <4>2. CASE <<p, o>> # key
        BY <1>3, <2>7, <3>2, <4>2 DEF ImplsOk
      <4>. QED
        BY <4>1, <4>2
    <3>. QED
      BY <3>1, <3>2 DEF ImplsOk
  <2>9. OpenedOk'
    <3>1. ASSUME NEW p \in opened, NEW o \in DOMAIN Op
          PROVE  <<p, o>> \in DOMAIN impls' \/ (s = p /\ o \notin given \union {op})
      <4>1. CASE <<p, o>> = key
        BY <2>7, <4>1
      <4>2. CASE <<p, o>> # key
        BY <1>1, <1>3, <2>7, <4>2
      <4>. QED
        BY <4>1, <4>2
    <3>. QED
      BY <1>2, <2>4, <3>1 DEF OpenedOk
  <2>10. CtlOk'
    <3>1. tys' = << >>
      BY <1>2, <1>3
    <3>. QED
      BY <2>2, <2>4, <3>1 DEF CtlOk
  <2>11. StackOk(ws', tys', Waiting', mem', opened') /\ MemOk(mem', opened')
    BY <1>2, <1>3, <2>5
  <2>. QED
    BY <1>2, <1>3, <2>8, <2>9, <2>10, <2>11 DEF TypesInv
<1>. QED
  BY <1>4, <1>5

-----------------------------------------------------------------------------
(* Calls.                                                                  *)

LEMMA CallStack ==
  ASSUME KeepsRules, NEW k, StackOk(ws, tys, k, mem, opened),
         NEW r, r \in Seq(Type), tyCheck(r), Kept(k, r), NEW n, n = Len(r), NEW z, z = SizeOf(r),
         NEW o, NEW out, out \in Seq(InType), AllOk(o, out, Has(mem), opened),
         ws' = wsUnder(z) \o o, tys' = Under(n) \o out
  PROVE  StackOk(ws', tys', k, mem, opened)
<1>1. StackOk(wsUnder(z), Under(n), k, mem, opened)
  <2>1. KeepsRules /\ StackOk(ws, tys, k, mem, opened) /\ r \in Seq(Type) /\ tyCheck(r) /\ Kept(k, r)
    OBVIOUS
  <2>2. n = Len(r) /\ z = SizeOf(r)
    OBVIOUS
  <2>. QED
    BY ONLY <2>1, <2>2, TakeOk
<1>2. IsConcat(ws', wsUnder(z), o) /\ IsConcat(tys', Under(n), out)
  BY DEF IsConcat
<1>3. out \in Seq(InType) /\ AllOk(o, out, Has(mem), opened)
  OBVIOUS
<1>. QED
  BY ONLY <1>1, <1>2, <1>3, Put

(* What a function returns that is not the Self it got.                    *)
OutsOf(out) ==
  IF out = << >> THEN {<< >>}
  ELSE IF out[1].refs = 0 THEN {<<num>>}
  ELSE {<<v>> : v \in {w \in RefsTo({g \in DOMAIN Global : Declared(g)}) : Returns(w, out[1])}}

LEMMA ReturnOk ==
  ASSUME KeepsRules, NEW v \in RefsTo({g \in DOMAIN Global : Declared(g)}), NEW t \in Type,
         t.refs > 0, Returns(v, t)
  PROVE  v \in Word /\ SlotOk(v, t, Has(mem))
<1>1. PICK g \in DOMAIN Global : Declared(g) /\ v \in {ref(g, n) : n \in 0..(Size(Global[g]) - 1)}
  BY DEF RefsTo
<1>2. g \in Has(mem)
  BY <1>1 DEF Declared, Has
<1>3. Size(Global[g]) \in Nat
  BY GlobalFacts, SlotsOfFacts
<1>4. PICK n \in 0..(Size(Global[g]) - 1) : v = ref(g, n)
  BY <1>1
<1>5. n \in Nat /\ n < Size(Global[g]) /\ v[2] = g /\ v[3] = n /\ v \in Word
  BY <1>3, <1>4, WordFacts
<1>6. RefOk(v, Has(mem))
  BY <1>2, <1>4, <1>5 DEF RefOk
<1>7. t.refs = 1 \/ t.refs = 2
  BY TFacts
<1>8. CASE t.refs = 1
  <2>1. RefFits(v, t)
    BY <1>8 DEF Returns, SlotFits
  <2>. QED
    BY <1>5, <1>6, <1>8, <2>1 DEF SlotOk
<1>9. CASE t.refs = 2
  <2>1. SlotAt(v) = T(1, t.ty)
    BY <1>9 DEF Returns, KeepsRules, RuleNames
  <2>. QED
    BY <1>5, <1>6, <1>9, <2>1 DEF SlotOk
<1>. QED
  BY <1>7, <1>8, <1>9

LEMMA OutsOk ==
  ASSUME KeepsRules, NEW out, out = << >>
         \/ (out = <<out[1]>> /\ out[1] \in OutType), NEW o, o \in OutsOf(out)
  PROVE  AllOk(o, out, Has(mem), opened)
<1>1. CASE out = << >>
  <2>1. o = << >>
    BY <1>1 DEF OutsOf
  <2>2. AllSlots(<< >>) = << >> /\ << >> \in Seq(Word) /\ Len(<< >>) = 0 /\ \A i \in 1..0 : FALSE
    BY AllSlotsOne
  <2>. QED
    BY <1>1, <2>1, <2>2 DEF AllOk, SlotsOk
<1>2. CASE out # << >>
  <2>1. PICK t : t = out[1]
    OBVIOUS
  <2>2. out = <<t>> /\ t \in OutType
    BY <1>2, <2>1
  <2>3. rSelf.refs = 1
    BY TFacts DEF rSelf
  <2>4. t \in Type /\ (t.refs = 0 => t.ty # "Self") /\ t.refs \in 0..2 /\ t = T(t.refs, t.ty)
    BY <2>2, <2>3, InTypeFacts, TFacts DEF OutType
  <2>5. t.refs = 0 => t.ty \in Native
    <3>1. t.ty \in Struct \union Native \union {Role, "Self"}
      BY <2>4 DEF Type
    <3>2. ~(t.refs = 0 /\ t.ty \in Struct \union {Role})
      BY <2>2, <2>4 DEF OutType
    <3>. QED
      BY <2>4, <3>1, <3>2
  <2>6. CASE t.refs = 0
    <3>1. o = <<num>>
      BY <1>2, <2>1, <2>6 DEF OutsOf
    <3>2. num \in Word /\ SlotOk(num, t, Has(mem))
      BY <2>6, WordFacts DEF SlotOk
    <3>. QED
      BY <2>2, <2>4, <2>5, <2>6, <3>1, <3>2, OneSlot
  <2>7. CASE t.refs # 0
    <3>1. PICK v \in RefsTo({g \in DOMAIN Global : Declared(g)}) : o = <<v>> /\ Returns(v, t)
      BY <1>2, <2>1, <2>7 DEF OutsOf
    <3>2. t.refs > 0
      BY <2>4, <2>7
    <3>3. v \in Word /\ SlotOk(v, t, Has(mem))
      BY <2>4, <3>1, <3>2, ReturnOk
    <3>. QED
      BY <2>2, <2>4, <3>1, <3>2, <3>3, OneSlot
  <2>. QED
    BY <2>6, <2>7
<1>. QED
  BY <1>1, <1>2

LEMMA MethodNames ==
  /\ \A c \in DOMAIN Method : c # junk /\ c[1] \in Struct
  /\ \A f : <<"fn", f>> # junk /\ <<"fn", f>> \notin DOMAIN Method /\ <<"fn", f>>[2] = f
<1>1. ASSUME NEW c \in DOMAIN Method  PROVE c # junk /\ c[1] \in Struct
  <2>1. PICK a, b : a \in Struct /\ c = <<a, b>>
    BY TypeAssumption
  <2>. QED
    BY <2>1 DEF junk
<1>2. ASSUME NEW f  PROVE <<"fn", f>> # junk /\ <<"fn", f>> \notin DOMAIN Method /\ <<"fn", f>>[2] = f
  <2>1. "fn" \notin Struct
    BY NamesAssumption
  <2>. QED
    BY <1>1, <2>1 DEF junk
<1>. QED
  BY <1>1, <1>2

(* A function that is no method runs.                                      *)
LEMMA RunFn ==
  ASSUME NEW f, NEW given, NEW out, Run(<<"fn", f>>, given, out), NEW n, n = SizeOf(Fn[f].inp),
         AllFit(wsTop(n), Fn[f].inp)
  PROVE  \E o \in OutsOf(Fn[f].out) : /\ ws' = wsUnder(n) \o o /\ tys' = Under(given) \o out
                                      /\ faults' = faults /\ Keep /\ mem' = mem
BY MethodNames DEF Run, OutsOf

(* A method runs: Self is the struct that it is declared in.               *)
LEMMA RunMethod ==
  ASSUME KeepsRules, NEW code \in DOMAIN Method, NEW given, NEW out, Run(code, given, out),
         NEW inp, inp = Replaced(<<rSelf>> \o Method[code].inp, code[1]),
         NEW n, n = SizeOf(inp), AllFit(wsTop(n), inp)
  PROVE  \E o : /\ ws' = wsUnder(n) \o o /\ tys' = Under(given) \o out /\ faults' = faults
                /\ Keep /\ mem' = mem
                /\ IF Method[code].out = <<rSelf>> THEN o = <<wsTop(n)[1]>>
                   ELSE o \in OutsOf(Replaced(Method[code].out, code[1]))
<1>1. PICK io : io =
           InOut_replaceSelf([inp |-> <<rSelf>> \o Method[code].inp, out |-> Method[code].out], code[1])
  OBVIOUS
<1>2. io.inp = inp /\ io.out = Replaced(Method[code].out, code[1])
  <2>1. PICK u : u = [inp |-> <<rSelf>> \o Method[code].inp, out |-> Method[code].out]
    OBVIOUS
  <2>2. /\ u.inp = <<rSelf>> \o Method[code].inp /\ u.out = Method[code].out
        /\ io = InOut_replaceSelf(u, code[1])
    BY <1>1, <2>1
  <2>3. /\ InOut_replaceSelf(u, code[1]).inp = Replaced(u.inp, code[1])
        /\ InOut_replaceSelf(u, code[1]).out = Replaced(u.out, code[1])
    BY ONLY ReplaceSelf
  <2>. QED
    BY <2>2, <2>3
<1>3. code # junk
  BY MethodNames
<1>4. /\ \E o \in IF Method[code].out = <<rSelf>>
         THEN {<<wsTop(n)[1]>>} ELSE OutsOf(io.out) : ws' = wsUnder(n) \o o
      /\ tys' = Under(given) \o out /\ faults' = faults /\ Keep /\ mem' = mem
  BY <1>1, <1>2, <1>3 DEF Run, OutsOf, KeepsRules, RuleNames
<1>. QED
  BY <1>2, <1>4

(* A call of a function.                                                   *)
LEMMA compileFnOk ==
  ASSUME KeepsRules, TypesInv, NEW f \in DOMAIN Fn, compileFn(f)
  PROVE  TypesInv'
<1>1. PICK r, out, n, z : r = Fn[f].inp /\ out = Fn[f].out /\ n = Len(r) /\ z = SizeOf(r)
  OBVIOUS
<1>2. Stmt
  BY DEF compileFn, Take
<1>3. CASE ~tyCheck(r)
  BY <1>1, <1>2, <1>3, PanicStep DEF compileFn, Take
<1>4. CASE tyCheck(r)
  <2>1. Kept(ctl, r) /\ Run(<<"fn", f>>, n, out) /\ ctl' = ctl
    BY <1>1, <1>4 DEF compileFn, Take
  <2>2. StackOk(ws, tys, ctl, mem, opened) /\ MemOk(mem, opened) /\ faults = {}
    BY <1>2, StmtFacts
  <2>3. /\ r \in Seq(Type) /\ out \in Seq(InType)
        /\ out = << >> \/ (out = <<out[1]>> /\ out[1] \in OutType)
    BY <1>1, SignaturesOk, SignatureFacts
  <2>4. AllOk(wsTop(z), r, Has(mem), opened)
    <3>1. /\ KeepsRules /\ StackOk(ws, tys, ctl, mem, opened) /\ r \in Seq(Type) /\ tyCheck(r)
          /\ Kept(ctl, r)
      BY <1>4, <2>1, <2>2, <2>3
    <3>. QED
      BY ONLY <3>1, <1>1, TakeOk, ZenonT(60)
  <2>5. AllFit(wsTop(z), r)
    BY <2>2, <2>3, <2>4, AllFitOk
  <2>6. PICK o \in OutsOf(out) : /\ ws' = wsUnder(z) \o o /\ tys' = Under(n) \o out
                                 /\ faults' = faults /\ Keep /\ mem' = mem
    BY <1>1, <2>1, <2>5, RunFn, ZenonT(60)
  <2>7. AllOk(o, out, Has(mem), opened)
    BY <2>3, OutsOk
  <2>8. StackOk(ws', tys', ctl, mem, opened)
    <3>1. /\ KeepsRules /\ StackOk(ws, tys, ctl, mem, opened) /\ r \in Seq(Type) /\ tyCheck(r)
          /\ Kept(ctl, r)
      BY <1>4, <2>1, <2>2, <2>3
    <3>2. /\ n = Len(r) /\ z = SizeOf(r) /\ out \in Seq(InType) /\ ws' = wsUnder(z) \o o
          /\ tys' = Under(n) \o out
      BY <1>1, <2>3, <2>6
    <3>. QED
      BY ONLY <3>1, <3>2, <2>7, CallStack
  <2>. QED
    BY <1>2, <2>1, <2>2, <2>6, <2>8, StmtStep, KeepFacts
<1>. QED
  BY <1>3, <1>4

(* What is good for a struct is good for its ancestors.                    *)
LEMMA SelfSub ==
  ASSUME NEW t, t \in InType, NEW s, s \in Struct, NEW d, d \in Range(Lineage[s])
  PROVE  d \in Struct /\ SubTy(AsSelf(t, d), AsSelf(t, s)) /\ SubTy(T(1, d), T(1, s))
<1>1. d \in Struct
  BY AncestorPart
<1>2. /\ T(1, d) \in Type /\ T(1, d).refs = 1 /\ T(1, d).ty = d
      /\ T(1, s) \in Type /\ T(1, s).refs = 1 /\ T(1, s).ty = s
  BY <1>1 DEF T, Type
<1>3. SlotsOf(T(1, d)) = <<T(1, d)>> /\ SlotsOf(T(1, s)) = <<T(1, s)>>
  BY <1>2, SlotsOfFacts
<1>4. SubSlot(T(1, d), T(1, s))
  BY <1>2 DEF SubSlot
<1>5. SubTy(T(1, d), T(1, s))
  BY <1>3, <1>4 DEF SubTy
<1>6. CASE t.ty = "Self"
  <2>1. AsSelf(t, s) = T(1, s) /\ AsSelf(t, d) = T(1, d)
    BY <1>1, <1>6, AsSelfFacts
  <2>. QED
    BY <1>1, <1>5, <2>1
<1>7. CASE t.ty # "Self"
  BY <1>1, <1>5, <1>7, AsSelfFacts DEF SubTy
<1>. QED
  BY <1>6, <1>7

LEMMA FirstOk ==
  ASSUME NEW D, NEW O, NEW x, NEW r, r \in Seq(Type), AllOk(x, r, D, O), Len(r) > 0, r[1].refs > 0
  PROVE  x \in Seq(Word) /\ Len(x) > 0 /\ x[1] \in Word /\ SlotOk(x[1], r[1], D)
<1>1. PICK t, n, of : t = r[1] /\ n = SizeOf(r) /\ of = AllSlots(r)
  OBVIOUS
<1>2. 1 \in 1..Len(r) /\ SubSeq(r, 1, 1 - 1) = << >> /\ t \in Type
  BY <1>1
<1>3. SizeOf(SubSeq(r, 1, 1 - 1)) = 0
  BY <1>2, AllSlotsOne
<1>4. SlotsOf(t) = <<t>> /\ Size(t) = 1
  BY <1>1, <1>2, SlotsOfFacts DEF Size
<1>5. 0 + Size(t) <= n /\ \A k \in 1..Size(t) : of[0 + k] = SlotsOf(t)[k]
  BY <1>1, <1>2, <1>3, AllSlotsAt
<1>6. n \in Nat /\ Len(of) = n
  BY <1>1, AllSlotsFacts
<1>7. 1 \in 1..Len(of) /\ of[1] = t
  BY <1>4, <1>5, <1>6
<1>8. t # T(0, Role)
  BY <1>1, TFacts
<1>9. x \in Seq(Word) /\ Len(x) = Len(of) /\ SlotOk(x[1], of[1], D)
  BY <1>1, <1>7, <1>8 DEF AllOk, SlotsOk
<1>. QED
  BY <1>1, <1>7, <1>9

(* What does not say Self says the same everywhere.                        *)
LEMMA ReplacedOut ==
  ASSUME NEW ts, ts \in Seq(InType), ts = << >> \/ ts = <<ts[1]>>, ts # <<rSelf>>, NEW s, s \in Struct
  PROVE  Replaced(ts, s) = ts
<1>1. CASE ts = << >>
  BY <1>1 DEF Replaced
<1>2. CASE ts = <<ts[1]>>
  <2>1. PICK t : t = ts[1]
    OBVIOUS
  <2>2. ts = <<t>> /\ t # rSelf /\ t \in InType
    BY <1>2, <2>1
  <2>3. AsSelf(t, s) = t
    BY <2>2, AsSelfFacts
  <2>4. DOMAIN ts = {1} /\ ts[1] = t
    BY <2>2
  <2>5. Replaced(ts, s) = [i \in {1} |-> t]
    BY <2>3, <2>4 DEF Replaced
  <2>6. ts = [i \in {1} |-> t]
    BY <2>2
  <2>. QED
    BY <2>5, <2>6
<1>. QED
  BY <1>1, <1>2

(* What a method leaves, for a caller that has s for Self.                 *)
LEMMA MethodOut ==
  ASSUME KeepsRules, NEW code, code \in DOMAIN Method, NEW s, s \in Struct, code[1] \in Struct,
         NEW out, out = Replaced(Method[code].out, s), NEW d, d \in Word, SlotOk(d, T(1, s), Has(mem)),
         NEW o, IF Method[code].out = <<rSelf>>
             THEN o = <<d>> ELSE o \in OutsOf(Replaced(Method[code].out, code[1]))
  PROVE  AllOk(o, out, Has(mem), opened) /\ out \in Seq(InType) /\ out \in Seq(Type)
<1>1. PICK ts : ts = Method[code].out
  OBVIOUS
<1>2. ts \in Seq(InType) /\ (ts = << >> \/ (ts = <<ts[1]>> /\ ts[1] \in OutType))
  BY <1>1, SignaturesOk, SignatureFacts
<1>3. /\ out \in Seq(InType) /\ out \in Seq(Type) /\ Len(out) = Len(ts)
      /\ \A i \in 1..Len(ts) : out[i] = AsSelf(ts[i], s)
  BY <1>1, <1>2, ReplacedFacts
<1>4. CASE ts = <<rSelf>>
  <2>1. o = <<d>>
    BY <1>1, <1>4
  <2>2. out = <<T(1, s)>>
    <3>1. AsSelf(rSelf, s) = T(1, s)
      BY TFacts DEF AsSelf, rSelf
    <3>2. Len(ts) = 1 /\ ts[1] = rSelf /\ 1 \in 1..1
      BY <1>4
    <3>3. Len(out) = 1 /\ out[1] = T(1, s)
      BY <1>3, <3>1, <3>2
    <3>. QED
      BY ONLY <1>3, <3>3
  <2>3. T(1, s) \in Type /\ T(1, s).refs > 0
    BY DEF T, Type
  <2>. QED
    BY <1>3, <2>1, <2>2, <2>3, OneSlot
<1>5. CASE ts # <<rSelf>>
  <2>1. ts = << >> \/ ts = <<ts[1]>>
    BY <1>2
  <2>2. out = ts /\ Replaced(Method[code].out, code[1]) = ts
    BY <1>1, <1>2, <1>5, <2>1, ReplacedOut
  <2>3. o \in OutsOf(out)
    BY <1>1, <1>5, <2>2
  <2>4. AllOk(o, out, Has(mem), opened)
    BY <1>2, <2>2, <2>3, OutsOk
  <2>. QED
    BY <1>3, <2>4
<1>. QED
  BY <1>4, <1>5

(* A method call ends: the method runs on a reference to an object of its  *)
(* own struct, or of a child of it.                                        *)
LEMMA dotMeth_endOk ==
  ASSUME KeepsRules, TypesInv, dotMeth_end
  PROVE  TypesInv'
<1>1. PICK c, k, code, s, b : c = Last(ctl) /\ k = Front(ctl) /\ code = c.code /\ s = c.self
          /\ b = Method[code]
  OBVIOUS
<1>2. PICK r, out, n, z : /\ r = Replaced(<<rSelf>> \o b.inp, s) /\ out = Replaced(b.out, s)
                          /\ n = Len(r) /\ z = SizeOf(r)
  OBVIOUS
<1>3. PICK io : io = InOut_replaceSelf([inp |-> <<rSelf>> \o b.inp, out |-> b.out], s)
  OBVIOUS
<1>4. io.inp = r /\ io.out = out
  <2>1. PICK u : u = [inp |-> <<rSelf>> \o b.inp, out |-> b.out]
    OBVIOUS
  <2>2. u.inp = <<rSelf>> \o b.inp /\ u.out = b.out /\ io = InOut_replaceSelf(u, s)
    BY <1>3, <2>1
  <2>3. /\ InOut_replaceSelf(u, s).inp = Replaced(u.inp, s)
        /\ InOut_replaceSelf(u, s).out = Replaced(u.out, s)
    BY ONLY ReplaceSelf
  <2>. QED
    BY <1>2, <2>2, <2>3
<1>5. ctl # << >> /\ c.at = "meth" /\ Take(ctl, r, Run(code, n, out) /\ ctl' = k)
  BY <1>1, <1>2, <1>3, <1>4 DEF dotMeth_end
<1>6. Stmt
  BY <1>5 DEF Take
<1>7. CASE ~tyCheck(r)
  BY <1>5, <1>6, <1>7, PanicStep DEF Take
<1>8. CASE tyCheck(r)
  <2>1. Kept(ctl, r) /\ Run(code, n, out) /\ ctl' = k
    BY <1>5, <1>8 DEF Take
  <2>2. StackOk(ws, tys, ctl, mem, opened) /\ MemOk(mem, opened) /\ faults = {} /\ ctl \in Seq(Frame)
    BY <1>6, StmtFacts
  <2>3. k \in Seq(Frame) /\ c \in Frame /\ IsAppend(ctl, k, c) /\ c = ctl[Len(ctl)]
    BY <1>1, <1>5, <2>2, LastFrame
  <2>4. code[1] \in Range(Lineage[s]) /\ code \in DOMAIN Method /\ s \in Struct
    <3>1. Len(ctl) \in 1..Len(ctl)
      BY <1>5, <2>2
    <3>2. FrameOk(c, ws, tys, Adr(ctl), mem, opened)
      BY <2>2, <2>3, <3>1 DEF StackOk
    <3>. QED
      BY <1>1, <1>5, <2>3, <3>2, FrameTypes DEF FrameOk
  <2>5. b \in Signature /\ b.inp \in Seq(InType) /\ code[1] \in Struct
    BY <1>1, <2>4, SignaturesOk, SignatureFacts, MethodNames
  <2>6. PICK inp : inp = Replaced(<<rSelf>> \o b.inp, code[1])
    OBVIOUS
  <2>7. /\ r \in Seq(InType) /\ r \in Seq(Type) /\ Len(r) = Len(b.inp) + 1 /\ Len(b.inp) \in Nat
        /\ r[1] = T(1, s) /\ \A i \in 1..Len(b.inp) : r[i + 1] = AsSelf(b.inp[i], s)
    BY <1>2, <2>4, <2>5, MethodInp
  <2>8. /\ inp \in Seq(Type) /\ Len(inp) = Len(b.inp) + 1
        /\ inp[1] = T(1, code[1]) /\ \A i \in 1..Len(b.inp) : inp[i + 1] = AsSelf(b.inp[i], code[1])
    <3>1. PICK ts, q : ts = b.inp /\ q = code[1]
      OBVIOUS
    <3>2. ts \in Seq(InType) /\ q \in Struct /\ inp = Replaced(<<rSelf>> \o ts, q)
      BY <2>5, <2>6, <3>1
    <3>3. /\ inp \in Seq(InType) /\ inp \in Seq(Type) /\ Len(inp) = Len(ts) + 1 /\ Len(ts) \in Nat
          /\ inp[1] = T(1, q) /\ \A i \in 1..Len(ts) : inp[i + 1] = AsSelf(ts[i], q)
      BY ONLY <3>2, MethodInp
    <3>. QED
      BY <3>1, <3>3
  <2>9. PICK x : x = wsTop(z)
    OBVIOUS
  <2>10. AllOk(x, r, Has(mem), opened)
    <3>1. /\ KeepsRules /\ StackOk(ws, tys, ctl, mem, opened) /\ r \in Seq(Type) /\ tyCheck(r)
          /\ Kept(ctl, r)
      BY <1>8, <2>1, <2>2, <2>7
    <3>2. n = Len(r) /\ z = SizeOf(r)
      BY <1>2
    <3>. QED
      BY ONLY <3>1, <3>2, <2>9, TakeOk
  <2>11. \A i \in 1..Len(inp) : SubTy(inp[i], r[i])
    <3>1. \A i \in 1..Len(b.inp) : SubTy(inp[i + 1], r[i + 1])
      <4>1. SUFFICES ASSUME NEW i \in 1..Len(b.inp)  PROVE SubTy(inp[i + 1], r[i + 1])
        OBVIOUS
      <4>2. b.inp[i] \in InType
        BY <2>5
      <4>. QED
        BY <2>4, <2>7, <2>8, <4>2, SelfSub
    <3>2. SubTy(inp[1], r[1])
      BY <2>4, <2>7, <2>8, SelfSub, InTypeFacts
    <3>3. \A i \in 1..(Len(b.inp) + 1) : i = 1 \/ (i - 1 \in 1..Len(b.inp) /\ (i - 1) + 1 = i)
      BY <2>7
    <3>4. SUFFICES ASSUME NEW i \in 1..(Len(b.inp) + 1)  PROVE SubTy(inp[i], r[i])
      BY <2>8
    <3>5. CASE i = 1
      BY <3>2, <3>5
    <3>6. CASE i - 1 \in 1..Len(b.inp) /\ (i - 1) + 1 = i
      <4>1. SubTy(inp[(i - 1) + 1], r[(i - 1) + 1])
        BY <3>1, <3>6
      <4>. QED
        BY <3>6, <4>1
    <3>. QED
      BY <3>3, <3>5, <3>6
  <2>12. AllOk(x, inp, Has(mem), opened) /\ SizeOf(inp) = z
    <3>1. /\ Has(mem) \subseteq DOMAIN Global /\ inp \in Seq(Type) /\ r \in Seq(Type)
          /\ AllOk(x, r, Has(mem), opened) /\ Len(inp) = Len(r)
      BY <2>7, <2>8, <2>10 DEF Has
    <3>2. AllOk(x, inp, Has(mem), opened) /\ SizeOf(inp) = SizeOf(r)
      BY ONLY <2>11, <3>1, AllOkLike
    <3>. QED
      BY <1>2, <3>2
  <2>13. AllFit(wsTop(z), inp)
    BY <2>2, <2>8, <2>9, <2>12, AllFitOk
  <2>14. PICK o : /\ ws' = wsUnder(z) \o o /\ tys' = Under(n) \o out /\ faults' = faults /\ Keep
                  /\ mem' = mem
                  /\ IF b.out = <<rSelf>> THEN o = <<x[1]>> ELSE o \in OutsOf(Replaced(b.out, code[1]))
    <3>1. /\ KeepsRules /\ Run(code, n, out) /\ code \in DOMAIN Method /\ z = SizeOf(inp)
          /\ inp = Replaced(<<rSelf>> \o Method[code].inp, code[1]) /\ AllFit(wsTop(z), inp)
      BY <1>1, <2>1, <2>4, <2>6, <2>12, <2>13
    <3>2. \E o : /\ ws' = wsUnder(z) \o o /\ tys' = Under(n) \o out /\ faults' = faults /\ Keep
                 /\ mem' = mem
                 /\ IF Method[code].out = <<rSelf>> THEN o = <<wsTop(z)[1]>>
                    ELSE o \in OutsOf(Replaced(Method[code].out, code[1]))
      BY ONLY <3>1, RunMethod, ZenonT(60)
    <3>. QED
      BY <1>1, <2>9, <3>2
  <2>15. x[1] \in Word /\ SlotOk(x[1], T(1, s), Has(mem))
    <3>1. r \in Seq(Type) /\ AllOk(x, r, Has(mem), opened) /\ Len(r) > 0 /\ r[1].refs > 0
      BY <2>7, <2>10, TFacts
    <3>. QED
      BY <2>7, <3>1, FirstOk
  <2>16. AllOk(o, out, Has(mem), opened) /\ out \in Seq(InType)
    <3>1. /\ KeepsRules /\ code \in DOMAIN Method /\ s \in Struct /\ code[1] \in Struct
          /\ out = Replaced(Method[code].out, s)
          /\ IF Method[code].out = <<rSelf>>
             THEN o = <<x[1]>> ELSE o \in OutsOf(Replaced(Method[code].out, code[1]))
      BY <1>1, <1>2, <2>4, <2>5, <2>14
    <3>. QED
      BY ONLY <3>1, <2>15, MethodOut
  <2>17. StackOk(ws', tys', ctl, mem, opened)
    <3>1. /\ KeepsRules /\ StackOk(ws, tys, ctl, mem, opened) /\ r \in Seq(Type) /\ tyCheck(r)
          /\ Kept(ctl, r)
      BY <1>8, <2>1, <2>2, <2>7
    <3>2. n = Len(r) /\ z = SizeOf(r) /\ ws' = wsUnder(z) \o o /\ tys' = Under(n) \o out
      BY <1>2, <2>14
    <3>. QED
      BY ONLY <3>1, <3>2, <2>16, CallStack
  <2>18. StackOk(ws', tys', k, mem, opened)
    <3>1. c.at # "sr"
      BY <1>5
    <3>. QED
      BY ONLY <2>3, <2>17, <3>1, PopCall
  <2>. QED
    BY <1>6, <2>1, <2>2, <2>14, <2>18, StmtStep, KeepFacts
<1>. QED
  BY <1>7, <1>8

(* Any reference will do for Self.                                         *)
LEMMA SelfSlot ==
  ASSUME NEW D, D \subseteq DOMAIN Global, NEW t, t.refs > 0, NEW v, SlotOk(v, t, D)
  PROVE  SlotOk(v, rSelf, D)
<1>1. RefOk(v, D)
  BY DEF SlotOk
<1>2. IsRef(v)
  BY <1>1, RefOkFacts
<1>3. rSelf.refs = 1 /\ rSelf.ty = "Self"
  BY TFacts DEF rSelf
<1>4. "Self" \notin Native
  BY DEF Native
<1>5. RefFits(v, rSelf)
  BY <1>2, <1>3, <1>4 DEF RefFits
<1>. QED
  BY <1>1, <1>3, <1>4, <1>5 DEF SlotOk

(* The first value can be taken for what else it is.                       *)
LEMMA FirstSwap ==
  ASSUME NEW D, NEW O, NEW x, NEW ts, ts \in Seq(Type), NEW a, a \in Type, a.refs > 0, NEW b,
         b \in Type, b.refs > 0,
         NEW r, IsConcat(r, <<a>>, ts), NEW q, IsConcat(q, <<b>>, ts), AllOk(x, r, D, O),
             SlotOk(x[1], b, D)
  PROVE  AllOk(x, q, D, O)
<1>1. r \in Seq(Type) /\ Len(r) > 0 /\ r[1] = a /\ <<a>> \in Seq(Type) /\ <<b>> \in Seq(Type)
  <2>1. <<a>> \in Seq(Type) /\ <<b>> \in Seq(Type) /\ Len(<<a>>) = 1
    OBVIOUS
  <2>2. r = <<a>> \o ts
    BY DEF IsConcat
  <2>. QED
    BY <2>1, <2>2
<1>2. x \in Seq(Word) /\ Len(x) > 0 /\ x[1] \in Word
  BY <1>1, FirstOk
<1>3. PICK y, z : y = <<x[1]>> /\ z = SubSeq(x, 2, Len(x))
  OBVIOUS
<1>4. y \in Seq(Word) /\ z \in Seq(Word) /\ Len(y) = 1 /\ IsConcat(x, y, z)
  <2>1. y \in Seq(Word) /\ z \in Seq(Word) /\ Len(y) = 1
    BY <1>2, <1>3
  <2>2. x = <<x[1]>> \o SubSeq(x, 2, Len(x))
    BY ONLY <1>2
  <2>. QED
    BY <1>3, <2>1, <2>2 DEF IsConcat
<1>5. SizeOf(<<a>>) = 1 /\ SizeOf(<<b>>) = 1
  BY OneSlot
<1>6. Joined(x, y, z, r, <<a>>, ts) /\ Joined(x, y, z, q, <<b>>, ts)
  BY <1>1, <1>4, <1>5 DEF Joined
<1>7. AllOk(y, <<a>>, D, O) /\ AllOk(z, ts, D, O)
  BY <1>6, AllOkJoined
<1>8. AllOk(y, <<b>>, D, O)
  BY <1>2, <1>3, OneSlot
<1>. QED
  BY <1>6, <1>7, <1>8, AllOkJoined

(* What the method of an impl leaves is what the op promises.              *)
LEMMA ImplOut ==
  ASSUME KeepsRules, NEW op, op \in DOMAIN Op, NEW s, s \in Struct, NEW code, ImplFor(s, op, code),
         code[1] \in Struct,
         NEW d, d \in Word, SlotOk(d, T(1, s), Has(mem)),
         NEW o, IF Method[code].out = <<rSelf>>
             THEN o = <<d>> ELSE o \in OutsOf(Replaced(Method[code].out, code[1]))
  PROVE  AllOk(o, Op[op].out, Has(mem), opened) /\ Op[op].out \in Seq(InType)
<1>1. PICK us, ts, mo, so : us = Op[op].out /\ ts = Method[code].out /\ mo = Replaced(ts, s)
          /\ so = Replaced(us, s)
  OBVIOUS
<1>2. /\ code \in DOMAIN Method /\ Len(us) = Len(ts)
      /\ \A i \in 1..Len(us) : SubTy(AsSelf(us[i], s), AsSelf(ts[i], s))
  BY <1>1 DEF ImplFor
<1>3. AllOk(o, mo, Has(mem), opened) /\ mo \in Seq(Type)
  <2>1. mo = Replaced(Method[code].out, s)
    BY <1>1
  <2>. QED
    BY <1>2, <2>1, MethodOut
<1>4. us \in Seq(InType) /\ (us = << >> \/ us = <<us[1]>>) /\ ts \in Seq(InType)
  BY <1>1, <1>2, SignaturesOk, SignatureFacts
<1>5. so \in Seq(Type) /\ Len(so) = Len(us) /\ \A i \in 1..Len(us) : so[i] = AsSelf(us[i], s)
  BY <1>1, <1>4, ReplacedFacts
<1>6. Len(mo) = Len(ts) /\ \A i \in 1..Len(ts) : mo[i] = AsSelf(ts[i], s)
  BY <1>1, <1>4, ReplacedFacts
<1>7. AllOk(o, so, Has(mem), opened)
  <2>1. /\ Has(mem) \subseteq DOMAIN Global /\ so \in Seq(Type) /\ mo \in Seq(Type)
        /\ AllOk(o, mo, Has(mem), opened)
        /\ Len(so) = Len(mo)
    BY <1>2, <1>3, <1>5, <1>6 DEF Has
  <2>2. \A i \in 1..Len(so) : SubTy(so[i], mo[i])
    BY <1>2, <1>5, <1>6
  <2>. QED
    BY ONLY <2>1, <2>2, AllOkLike
<1>8. CASE us = <<rSelf>>
  <2>1. T(1, s) \in Type /\ T(1, s).refs = 1 /\ rSelf \in Type /\ rSelf.refs = 1
    BY TFacts, InTypeFacts DEF T, Type, rSelf
  <2>2. so = <<T(1, s)>>
    <3>1. AsSelf(rSelf, s) = T(1, s)
      BY TFacts DEF AsSelf, rSelf
    <3>2. Len(us) = 1 /\ us[1] = rSelf /\ 1 \in 1..1
      BY <1>8
    <3>3. Len(so) = 1 /\ so[1] = T(1, s)
      BY <1>5, <3>1, <3>2
    <3>. QED
      BY ONLY <1>5, <3>3
  <2>3. PICK t : t = T(1, s)
    OBVIOUS
  <2>4. /\ << >> \in Seq(Type) /\ t \in Type /\ t.refs > 0 /\ rSelf \in Type /\ rSelf.refs > 0
        /\ IsConcat(so, <<t>>, << >>) /\ IsConcat(us, <<rSelf>>, << >>)
    BY <1>8, <2>1, <2>2, <2>3 DEF IsConcat
  <2>5. SlotOk(o[1], t, Has(mem))
    <3>1. so \in Seq(Type) /\ AllOk(o, so, Has(mem), opened) /\ Len(so) > 0 /\ so[1] = t /\ so[1].refs > 0
      <4>1. so = <<t>> /\ t.refs > 0
        BY <2>2, <2>3, <2>4
      <4>2. Len(so) > 0 /\ so[1] = t /\ so[1].refs > 0
        BY ONLY <4>1
      <4>. QED
        BY <1>5, <1>7, <4>2
    <3>. QED
      BY <3>1, FirstOk
  <2>6. SlotOk(o[1], rSelf, Has(mem))
    <3>1. Has(mem) \subseteq DOMAIN Global
      BY DEF Has
    <3>. QED
      BY <2>4, <2>5, <3>1, SelfSlot
  <2>7. AllOk(o, us, Has(mem), opened)
    <3>1. AllOk(o, so, Has(mem), opened)
      BY <1>7
    <3>. QED
      BY ONLY <2>4, <2>6, <3>1, FirstSwap
  <2>. QED
    BY <1>1, <1>4, <2>7
<1>9. CASE us # <<rSelf>>
  <2>1. so = us
    BY <1>1, <1>4, <1>9, ReplacedOut
  <2>. QED
    BY <1>1, <1>4, <1>7, <2>1
<1>. QED
  BY <1>8, <1>9

IsInp(inp, code) == inp = Replaced(<<rSelf>> \o Method[code].inp, code[1])
IsOpInp(r, op)   == r = <<rSelf>> \o Op[op].inp

(* The arguments of a call through a role are those that the method of its *)
(* impl declares.                                                          *)
LEMMA ImplArgs ==
  ASSUME NEW op, op \in DOMAIN Op, NEW s, s \in Struct, NEW code, ImplFor(s, op, code),
         rSelf \notin Range(Op[op].inp),
         NEW inp, IsInp(inp, code), NEW r, IsOpInp(r, op),
         NEW D, D \subseteq DOMAIN Global, NEW O, NEW x, AllOk(x, r, D, O), SlotOk(x[1], T(1, s), D)
  PROVE  AllOk(x, inp, D, O) /\ SizeOf(inp) = SizeOf(r) /\ inp \in Seq(Type)
<1>1. PICK us, ts, p, q : us = Op[op].inp /\ ts = Method[code].inp /\ p = T(1, s) /\ q = <<p>> \o us
  OBVIOUS
<1>2. /\ code \in DOMAIN Method /\ code[1] \in Range(Lineage[s]) /\ Len(us) = Len(ts)
      /\ \A i \in 1..Len(us) : AsSelf(us[i], s) = AsSelf(ts[i], s)
  BY <1>1 DEF ImplFor
<1>3. us \in Seq(InType) /\ ts \in Seq(InType) /\ us \in Seq(Type)
  BY <1>1, <1>2, SignaturesOk, SignatureFacts
<1>4. code[1] \in Struct
  BY <1>2, MethodNames
<1>5. /\ inp \in Seq(Type) /\ Len(inp) = Len(ts) + 1 /\ Len(ts) \in Nat /\ inp[1] = T(1, code[1])
      /\ \A i \in 1..Len(ts) : inp[i + 1] = AsSelf(ts[i], code[1])
  <2>1. ts \in Seq(InType) /\ code[1] \in Struct /\ inp = Replaced(<<rSelf>> \o ts, code[1])
    BY <1>1, <1>3, <1>4 DEF IsInp
  <2>. QED
    BY ONLY <2>1, MethodInp
<1>6. p \in Type /\ p.refs > 0 /\ rSelf \in Type /\ rSelf.refs > 0
  BY <1>1, InTypeFacts, TFacts DEF T, Type, rSelf
<1>7. q \in Seq(Type) /\ Len(q) = Len(us) + 1 /\ q[1] = p /\ \A i \in 1..Len(us) : q[i + 1] = us[i]
  BY <1>1, <1>3, <1>6
<1>8. AllOk(x, q, D, O)
  <2>1. IsConcat(r, <<rSelf>>, us) /\ IsConcat(q, <<p>>, us) /\ AllOk(x, r, D, O) /\ SlotOk(x[1], p, D)
    BY <1>1 DEF IsConcat, IsOpInp
  <2>. QED
    BY ONLY <1>3, <1>6, <2>1, FirstSwap
<1>9. \A i \in 1..Len(inp) : SubTy(inp[i], q[i])
  <2>1. \A i \in 1..Len(ts) : SubTy(inp[i + 1], q[i + 1])
    <3>1. SUFFICES ASSUME NEW i \in 1..Len(ts)  PROVE SubTy(inp[i + 1], q[i + 1])
      OBVIOUS
    <3>2. us[i] \in InType /\ ts[i] \in InType
      BY <1>2, <1>3
    <3>3. us[i].ty # "Self"
      <4>1. us[i] # rSelf
        BY <1>1, <1>2, <1>3 DEF Range
      <4>. QED
        BY <3>2, <4>1, InTypeFacts
    <3>4. us[i] = AsSelf(us[i], s)
      BY <3>2, <3>3, AsSelfFacts
    <3>5. q[i + 1] = AsSelf(ts[i], s)
      BY <1>2, <1>7, <3>4
    <3>. QED
      BY <1>2, <1>5, <3>2, <3>5, SelfSub
  <2>2. SubTy(inp[1], q[1])
    BY <1>1, <1>2, <1>5, <1>7, SelfSub, InTypeFacts
  <2>3. SUFFICES ASSUME NEW i \in 1..(Len(ts) + 1)  PROVE SubTy(inp[i], q[i])
    BY <1>5
  <2>4. i = 1 \/ (i - 1 \in 1..Len(ts) /\ (i - 1) + 1 = i)
    BY <1>5
  <2>5. CASE i - 1 \in 1..Len(ts) /\ (i - 1) + 1 = i
    <3>1. SubTy(inp[(i - 1) + 1], q[(i - 1) + 1])
      BY <2>1, <2>5
    <3>. QED
      BY <2>5, <3>1
  <2>. QED
    BY <2>2, <2>4, <2>5
<1>10. AllOk(x, inp, D, O)
  <2>1. /\ D \subseteq DOMAIN Global /\ inp \in Seq(Type) /\ q \in Seq(Type) /\ AllOk(x, q, D, O)
        /\ Len(inp) = Len(q)
    BY <1>2, <1>5, <1>7, <1>8
  <2>. QED
    BY ONLY <1>9, <2>1, AllOkLike
<1>11. SizeOf(inp) = SizeOf(r)
  <2>1. r \in Seq(Type)
    BY <1>1, <1>3, <1>6 DEF IsOpInp
  <2>2. Len(x) = Len(AllSlots(inp)) /\ Len(x) = Len(AllSlots(r))
    BY <1>10 DEF AllOk, SlotsOk
  <2>. QED
    BY <2>2 DEF SizeOf
<1>. QED
  BY <1>5, <1>10, <1>11

(* Where the data of the role is that a call is made of: under as many     *)
(* slots as the other arguments have.                                      *)
Position(n, ts, c) == n = Len(ts) - c.types + 1

LEMMA SelfAt ==
  ASSUME NEW w, NEW ts, NEW k, NEW m, NEW O, StackOk(w, ts, k, m, O), k # << >>, NEW c,
         c = k[Len(k)], c.at = "role",
         NEW n, Position(n, ts, c), NEW xs, NEW vs, Halves(ts, n, xs, vs)
  PROVE  /\ c.slots \in 1..Len(w) /\ Len(w) \in Nat
         /\ SizeOf(vs) = Len(w) - c.slots + 1 /\ SizeOf(vs) \in Nat
         /\ w[c.slots] = RoleAt(m, c.var)[1] /\ c.var \in Has(m) /\ Global[c.var].ty = Role
         /\ Global[c.var].refs < 2
         /\ rSelf \notin Range(Op[c.op].inp) /\ c.op \in DOMAIN Op
<1>1. k \in Seq(Frame) /\ ts \in Seq(Type) /\ Len(ts) \in Nat
  BY AdrFacts DEF StackOk
<1>2. Len(k) \in 1..Len(k) /\ c \in Frame
  BY <1>1
<1>3. FrameOk(c, w, ts, Adr(k), m, O)
  BY <1>2 DEF StackOk
<1>4. CallOk(c, w, ts, m) /\ c.op \in DOMAIN Op
  BY <1>2, <1>3, FrameTypes DEF FrameOk
<1>5. PICK a, us : a = c.types /\ us = SubSeq(ts, a + 1, Len(ts))
  OBVIOUS
<1>6. c.slots \in 1..Len(w) /\ a \in 0..Len(ts) /\ Len(w) \in Nat /\ SizeOf(us) = Len(w) - c.slots
  <2>1. StackOk(w, ts, k, m, O) /\ k[Len(k)].at # "meth"
    OBVIOUS
  <2>2. PICK i : i = Len(k)
    OBVIOUS
  <2>3. /\ k[i].slots \in 1..Len(w) /\ k[i].types \in 0..Len(ts) /\ Len(w) \in Nat
        /\ i = Len(k) => SizeOf(SubSeq(ts, k[i].types + 1, Len(ts))) = Len(w) - k[i].slots
    BY <1>2, <2>1, <2>2, Level
  <2>. QED
    BY <1>5, <2>2, <2>3
<1>7. a > 0 /\ ts[a] = rSelf
  BY <1>4, <1>5 DEF CallOk
<1>8. PICK os, ys : os = SubSeq(ts, 1, a - 1) /\ ys = SubSeq(ts, 1, a)
  OBVIOUS
<1>9. vs = SubSeq(ts, a, Len(ts))
  <2>1. Len(ts) - n + 1 = a
    <3>1. n = Len(ts) - a + 1 /\ a \in Nat
      BY <1>1, <1>5, <1>6 DEF Position
    <3>. QED
      BY ONLY <1>1, <3>1
  <2>. QED
    BY <2>1 DEF Halves
<1>10. /\ SizeOf(os) \in Nat /\ SizeOf(vs) \in Nat /\ SizeOf(ts) = SizeOf(os) + SizeOf(vs)
       /\ os \in Seq(Type)
  <2>1. a - 1 \in 0..Len(ts) /\ (a - 1) + 1 = a
    BY <1>1, <1>6, <1>7
  <2>2. PICK b : b = a - 1
    OBVIOUS
  <2>3. /\ SizeOf(SubSeq(ts, 1, b)) \in Nat /\ SizeOf(SubSeq(ts, b + 1, Len(ts))) \in Nat
        /\ SubSeq(ts, 1, b) \in Seq(Type)
        /\ SizeOf(ts) = SizeOf(SubSeq(ts, 1, b)) + SizeOf(SubSeq(ts, b + 1, Len(ts)))
    BY <1>1, <2>1, <2>2, SizeUp
  <2>4. b + 1 = a
    BY <2>1, <2>2
  <2>. QED
    BY <1>8, <1>9, <2>2, <2>3, <2>4
<1>11. /\ SizeOf(ys) \in Nat /\ SizeOf(us) \in Nat /\ SizeOf(ts) = SizeOf(ys) + SizeOf(us)
  BY <1>1, <1>5, <1>6, <1>8, SizeUp
<1>12. IsSum(SizeOf(ys), SizeOf(os), SizeOf(<<rSelf>>))
  <2>1. IsAppend(ys, os, ts[a])
    <3>1. SubSeq(ts, 1, a) = Append(SubSeq(ts, 1, a - 1), ts[a])
      <4>1. ts \in Seq(Type) /\ a \in 1..Len(ts) /\ Len(ts) \in Nat
        BY <1>1, <1>6, <1>7
      <4>. QED
        BY ONLY <4>1
    <3>. QED
      BY <1>8, <3>1 DEF IsAppend
  <2>2. rSelf \in Type /\ <<rSelf>> \in Seq(Type)
    BY InTypeFacts
  <2>3. IsConcat(ys, os, <<rSelf>>)
    BY <1>7, <1>10, <2>1, <2>2, AppendConcat
  <2>. QED
    BY <1>10, <2>2, <2>3, SizeConcat
<1>13. SizeOf(<<rSelf>>) = 1
  <2>1. rSelf \in Type /\ rSelf.refs > 0
    BY InTypeFacts, TFacts DEF rSelf
  <2>. QED
    BY <2>1, OneSlot
<1>14. SizeOf(vs) = Len(w) - c.slots + 1
  <2>1. PICK x, y, u, v, s, l, p : x = SizeOf(os) /\ y = SizeOf(ys) /\ u = SizeOf(us) /\ v = SizeOf(vs)
          /\ s = SizeOf(ts) /\ l = Len(w) /\ p = c.slots
    OBVIOUS
  <2>2. x \in Nat /\ y \in Nat /\ u \in Nat /\ v \in Nat /\ l \in Nat /\ p \in 1..l
    BY <1>6, <1>10, <1>11, <2>1
  <2>3. s = x + v /\ s = y + u /\ y = x + 1 /\ u = l - p
    BY <1>6, <1>10, <1>11, <1>12, <1>13, <2>1 DEF IsSum
  <2>4. v = l - p + 1
    BY ONLY <2>2, <2>3
  <2>. QED
    BY <2>1, <2>4
<1>. QED
  BY <1>4, <1>6, <1>10, <1>14 DEF CallOk

(* A role call ends: the methods that are looked up behind the arguments   *)
(* are still those of the data below them.                                 *)
LEMMA dotRole_endOk ==
  ASSUME KeepsRules, TypesInv, dotRole_end
  PROVE  TypesInv'
<1>1. PICK c, k, op, at, key, code, r, out :
        /\ c = Last(ctl) /\ k = Front(ctl) /\ op = c.op /\ at = RoleAt(mem, c.var)
        /\ key = <<at[2][2], op>>
        /\ code = (IF key \in DOMAIN impls THEN impls[key] ELSE junk)
        /\ r = <<rSelf>> \o Op[op].inp /\ out = Op[op].out
  OBVIOUS
<1>2. PICK n, z : n = Len(r) /\ z = SizeOf(r)
  OBVIOUS
<1>3. opSig(op).inp = r
  BY <1>1 DEF opSig
<1>4. /\ ctl # << >> /\ c.at = "role" /\ (tyCheck(r) => Len(tys) = c.types + Len(Op[op].inp))
      /\ Take(k, r, Run(code, n, out) /\ ctl' = k)
  BY <1>1, <1>2, <1>3 DEF dotRole_end, KeepsRules, RuleNames
<1>5. Stmt
  BY <1>4 DEF Take
<1>6. CASE ~tyCheck(r)
  BY <1>4, <1>5, <1>6, PanicStep DEF Take
<1>7. CASE tyCheck(r)
  <2>1. Kept(k, r) /\ Run(code, n, out) /\ ctl' = k /\ Len(tys) = c.types + Len(Op[op].inp)
    BY <1>4, <1>7 DEF Take
  <2>2. /\ StackOk(ws, tys, ctl, mem, opened) /\ MemOk(mem, opened) /\ faults = {} /\ ctl \in Seq(Frame)
        /\ opened \subseteq Struct /\ ImplsOk
        /\ \A s \in opened : \A o \in DOMAIN Op : <<s, o>> \in DOMAIN impls
    BY <1>5, StmtFacts
  <2>3. k \in Seq(Frame) /\ c \in Frame /\ IsAppend(ctl, k, c) /\ c = ctl[Len(ctl)]
    BY <1>1, <1>4, <2>2, LastFrame
  <2>4. StackOk(ws, tys, k, mem, opened)
    <3>1. c.at # "sr" /\ StackOk(ws, tys, ctl, mem, opened)
      BY <1>4, <2>2
    <3>. QED
      BY ONLY <2>3, <3>1, PopCall
  <2>5. op \in DOMAIN Op /\ c.types \in Nat
    BY <1>1, <1>4, <2>3, FrameTypes
  <2>6. /\ r \in Seq(Type) /\ n = Len(Op[op].inp) + 1 /\ Len(Op[op].inp) \in Nat /\ r[1] = rSelf
        /\ Len(r) > 0
    <3>1. Op[op].inp \in Seq(InType)
      BY <2>5, SignaturesOk, SignatureFacts
    <3>. QED
      <4>1. /\ r \in Seq(Type) /\ Len(r) = Len(Op[op].inp) + 1 /\ Len(Op[op].inp) \in Nat /\ r[1] = rSelf
        BY <1>1, <3>1, SelfFirst
      <4>. QED
        BY <1>2, <4>1
  <2>7. PICK vs, x : vs = Given(n) /\ x = wsTop(z)
    OBVIOUS
  <2>8. /\ AllOk(x, r, Has(mem), opened) /\ AllOk(x, vs, Has(mem), opened) /\ IsTop(ws, z, wsUnder(z), x)
    <3>1. KeepsRules /\ StackOk(ws, tys, k, mem, opened) /\ r \in Seq(Type) /\ tyCheck(r) /\ Kept(k, r)
      BY <1>7, <2>1, <2>4, <2>6
    <3>. QED
      BY ONLY <3>1, <1>2, <2>7, TakeOk
  <2>9. /\ c.slots \in 1..Len(ws) /\ Len(ws) \in Nat /\ SizeOf(vs) = Len(ws) - c.slots + 1
        /\ SizeOf(vs) \in Nat
        /\ ws[c.slots] = at[1] /\ c.var \in Has(mem) /\ Global[c.var].ty = Role /\ Global[c.var].refs < 2
        /\ rSelf \notin Range(Op[op].inp)
    <3>1. Position(n, tys, c)
      BY <2>1, <2>5, <2>6 DEF Position
    <3>2. Halves(tys, n, Under(n), vs)
      BY <2>7 DEF Given, Under, Halves
    <3>3. StackOk(ws, tys, ctl, mem, opened) /\ ctl # << >> /\ c = ctl[Len(ctl)] /\ c.at = "role"
      BY <1>4, <2>2, <2>3
    <3>4. /\ c.slots \in 1..Len(ws) /\ Len(ws) \in Nat /\ SizeOf(vs) = Len(ws) - c.slots + 1
          /\ SizeOf(vs) \in Nat
          /\ ws[c.slots] = RoleAt(mem, c.var)[1] /\ c.var \in Has(mem) /\ Global[c.var].ty = Role
          /\ Global[c.var].refs < 2 /\ rSelf \notin Range(Op[c.op].inp)
      BY ONLY <3>1, <3>2, <3>3, SelfAt
    <3>. QED
      BY <1>1, <3>4
  <2>10. x[1] = at[1]
    <3>1. z = SizeOf(vs)
      <4>1. Len(x) = Len(AllSlots(r)) /\ Len(x) = Len(AllSlots(vs))
        BY <2>8 DEF AllOk, SlotsOk
      <4>. QED
        BY <1>2, <4>1 DEF SizeOf
    <3>2. \A i \in 1..z : x[i] = ws[Len(ws) - z + i]
      <4>1. ws \in Seq(Word)
        BY <2>4 DEF StackOk
      <4>. QED
        BY ONLY <2>8, <4>1, TopCut
    <3>3. 1 \in 1..z /\ Len(ws) - z + 1 = c.slots
      BY <2>9, <3>1
    <3>. QED
      BY <2>9, <3>2, <3>3
  <2>11. PICK s \in opened : at[2] = methsOf(s) /\ SlotOk(at[1], T(1, s), Has(mem))
    <3>1. RoleOk(at[1], at[2], Has(mem), opened)
      BY <1>1, <2>2, <2>9, RoleAtFacts
    <3>. QED
      BY <3>1 DEF RoleOk
  <2>12. s \in Struct /\ key = <<s, op>> /\ key \in DOMAIN impls /\ code = impls[key]
    <3>1. s \in Struct /\ key = <<s, op>>
      BY <1>1, <2>2, <2>11, WordFacts
    <3>2. key \in DOMAIN impls
      BY <2>2, <2>5, <3>1
    <3>. QED
      BY <1>1, <3>1, <3>2
  <2>13. ImplFor(s, op, code)
    BY <2>2, <2>5, <2>12 DEF ImplsOk
  <2>14. code \in DOMAIN Method /\ code[1] \in Struct
    BY <2>13, MethodNames DEF ImplFor
  <2>15. x[1] \in Word /\ SlotOk(x[1], T(1, s), Has(mem))
    <3>1. rSelf.refs > 0
      BY TFacts DEF rSelf
    <3>2. x[1] \in Word
      BY <2>6, <2>8, <3>1, FirstOk
    <3>. QED
      BY <2>10, <2>11, <3>2
  <2>16. PICK inp : inp = Replaced(<<rSelf>> \o Method[code].inp, code[1])
    OBVIOUS
  <2>17. AllOk(x, inp, Has(mem), opened) /\ SizeOf(inp) = z /\ inp \in Seq(Type)
    <3>1. PICK D, O : D = Has(mem) /\ O = opened
      OBVIOUS
    <3>2. /\ op \in DOMAIN Op /\ s \in Struct /\ ImplFor(s, op, code) /\ rSelf \notin Range(Op[op].inp)
          /\ IsOpInp(r, op) /\ D \subseteq DOMAIN Global /\ AllOk(x, r, D, O)
          /\ SlotOk(x[1], T(1, s), D) /\ IsInp(inp, code)
      BY <1>1, <2>5, <2>8, <2>9, <2>12, <2>13, <2>15, <2>16, <3>1 DEF Has, IsInp, IsOpInp
    <3>3. AllOk(x, inp, D, O) /\ SizeOf(inp) = SizeOf(r) /\ inp \in Seq(Type)
      BY ONLY <3>2, ImplArgs
    <3>. QED
      BY <1>2, <3>1, <3>3
  <2>18. AllFit(wsTop(z), inp)
    BY <2>2, <2>7, <2>17, AllFitOk
  <2>19. PICK o : /\ ws' = wsUnder(z) \o o /\ tys' = Under(n) \o out /\ faults' = faults /\ Keep
                  /\ mem' = mem
                  /\ IF Method[code].out = <<rSelf>> THEN o = <<x[1]>>
                     ELSE o \in OutsOf(Replaced(Method[code].out, code[1]))
    <3>1. /\ KeepsRules /\ Run(code, n, out) /\ code \in DOMAIN Method /\ z = SizeOf(inp)
          /\ inp = Replaced(<<rSelf>> \o Method[code].inp, code[1]) /\ AllFit(wsTop(z), inp)
      BY <2>1, <2>14, <2>16, <2>17, <2>18
    <3>2. \E o : /\ ws' = wsUnder(z) \o o /\ tys' = Under(n) \o out /\ faults' = faults /\ Keep
                 /\ mem' = mem
                 /\ IF Method[code].out = <<rSelf>> THEN o = <<wsTop(z)[1]>>
                    ELSE o \in OutsOf(Replaced(Method[code].out, code[1]))
      BY ONLY <3>1, RunMethod, ZenonT(60)
    <3>. QED
      BY <2>7, <3>2
  <2>20. AllOk(o, out, Has(mem), opened) /\ out \in Seq(InType)
    <3>1. /\ KeepsRules /\ op \in DOMAIN Op /\ s \in Struct /\ ImplFor(s, op, code) /\ code[1] \in Struct
          /\ IF Method[code].out = <<rSelf>>
             THEN o = <<x[1]>> ELSE o \in OutsOf(Replaced(Method[code].out, code[1]))
      BY <2>5, <2>12, <2>13, <2>14, <2>19
    <3>2. AllOk(o, Op[op].out, Has(mem), opened) /\ Op[op].out \in Seq(InType)
      BY ONLY <2>15, <3>1, ImplOut
    <3>. QED
      BY <1>1, <3>2
  <2>21. StackOk(ws', tys', k, mem, opened)
    <3>1. KeepsRules /\ StackOk(ws, tys, k, mem, opened) /\ r \in Seq(Type) /\ tyCheck(r) /\ Kept(k, r)
      BY <1>7, <2>1, <2>4, <2>6
    <3>2. n = Len(r) /\ z = SizeOf(r) /\ ws' = wsUnder(z) \o o /\ tys' = Under(n) \o out
      BY <1>2, <2>19
    <3>. QED
      BY ONLY <3>1, <3>2, <2>20, CallStack
  <2>. QED
    BY <1>5, <2>1, <2>2, <2>19, <2>21, StmtStep, KeepFacts
<1>. QED
  BY <1>6, <1>7

LEMMA TailOf ==
  ASSUME NEW S, NEW u, u \in Seq(S), NEW e, e \in S, NEW q, q = <<e>> \o u
  PROVE  Tail(q) = u /\ Range(q) = {e} \union Range(u)
<1>1. Tail(q) = u
  OBVIOUS
<1>2. Len(u) \in Nat /\ DOMAIN q = 1..(Len(u) + 1) /\ DOMAIN u = 1..Len(u) /\ q[1] = e
  OBVIOUS
<1>3. \A i \in 1..Len(u) : q[i + 1] = u[i]
  OBVIOUS
<1>4. \A i \in 1..(Len(u) + 1) : i = 1 \/ (i - 1 \in 1..Len(u) /\ (i - 1) + 1 = i)
  BY <1>2
<1>5. \A i \in 1..Len(u) : i + 1 \in 1..(Len(u) + 1)
  BY <1>2
<1>6. Range(q) \subseteq {e} \union Range(u)
  <2>1. SUFFICES ASSUME NEW i \in 1..(Len(u) + 1)  PROVE q[i] \in {e} \union Range(u)
    BY <1>2 DEF Range
  <2>2. CASE i = 1
    BY <1>2, <2>2
  <2>3. CASE i - 1 \in 1..Len(u) /\ (i - 1) + 1 = i
    <3>1. q[i] = u[i - 1]
      BY <1>3, <2>3
    <3>. QED
      BY <1>2, <2>3, <3>1 DEF Range
  <2>. QED
    BY <1>4, <2>2, <2>3
<1>7. {e} \union Range(u) \subseteq Range(q)
  <2>1. e \in Range(q)
    BY <1>2 DEF Range
  <2>2. SUFFICES ASSUME NEW i \in 1..Len(u)  PROVE u[i] \in Range(q)
    BY <1>2, <2>1 DEF Range
  <2>. QED
    BY <1>2, <1>3, <1>5 DEF Range
<1>. QED
  BY <1>1, <1>6, <1>7

(* No struct is its own ancestor.                                          *)
LEMMA NotAbove ==
  ASSUME NEW s \in Struct
  PROVE  s \notin Above(s)
<1>1. PICK rank : IsRank(rank)
  BY RankExists
<1>2. \A q \in Struct : Lineage[q] \in Seq(Struct)
  BY LineageEquation
<1>3. Cardinality(Struct) \in Nat /\ rank \in [Struct -> 0..Cardinality(Struct)]
  BY <1>1 DEF IsRank
<1>4. \A a, b, c \in Struct : rank[a] < rank[b] /\ rank[b] < rank[c] => rank[a] < rank[c]
  <2>1. \A a \in Struct : rank[a] \in Int
    BY <1>3
  <2>. QED
    BY <2>1
<1>. DEFINE P == {q \in Struct : /\ \A d \in Range(Lineage[q]) : d = q \/ rank[d] < rank[q]
                                 /\ \A d \in Above(q) : rank[d] < rank[q]}
<1>5. ASSUME NEW q \in Struct, \A p \in Struct : rank[p] < rank[q] => p \in P
      PROVE  q \in P
  <2>1. CASE Parent(q) = {}
    <3>1. Lineage[q] = <<q>>
      BY <2>1, LineageEquation
    <3>2. Range(<<q>>) = {q} /\ Range(Tail(<<q>>)) = {}
      BY DEF Range
    <3>. QED
      BY <3>1, <3>2 DEF Above
  <2>2. CASE Parent(q) # {}
    <3>1. PICK p : p = CHOOSE x \in Parent(q) : TRUE
      OBVIOUS
    <3>2. /\ p \in Struct /\ 1 \in DOMAIN Fields[q] /\ Fields[q][1].ty = T(0, p)
          /\ Fields[q][1].ty.refs = 0 /\ Fields[q][1].ty.ty = p
      BY <2>2, <3>1, ParentFacts
    <3>3. rank[p] < rank[q]
      BY <1>1, <3>2 DEF IsRank
    <3>4. \A d \in Range(Lineage[p]) : d = p \/ rank[d] < rank[p]
      BY <1>5, <3>2, <3>3
    <3>5. \A d \in Range(Lineage[p]) : rank[d] < rank[q]
      <4>1. \A d \in Range(Lineage[p]) : d \in Struct
        BY <3>2, AncestorPart
      <4>. QED
        BY <1>4, <3>2, <3>3, <3>4, <4>1
    <3>6. Lineage[q] = <<q>> \o Lineage[p] /\ Lineage[p] \in Seq(Struct)
      BY <1>2, <2>2, <3>1, <3>2, LineageEquation
    <3>7. Tail(Lineage[q]) = Lineage[p] /\ Range(Lineage[q]) = {q} \union Range(Lineage[p])
      <4>1. q \in Struct
        OBVIOUS
      <4>. QED
        BY ONLY <3>6, <4>1, TailOf
    <3>. QED
      BY <3>5, <3>7 DEF Above
  <2>. QED
    BY <2>1, <2>2
<1>6. Struct \subseteq P
  <2>. HIDE DEF P
  <2>. QED
    BY <1>3, <1>5, RankInduction
<1>7. s \in Above(s) => rank[s] < rank[s]
  BY <1>6
<1>8. rank[s] \in Int
  BY <1>3
<1>. QED
  BY <1>7, <1>8

-----------------------------------------------------------------------------
(* The whole.                                                              *)

(* Every state that the program starts in has the invariant.               *)
LEMMA InitOk ==
  ASSUME Init
  PROVE  TypesInv
<1>1. PICK D : D = Has(Values)
  OBVIOUS
<1>2. D = {g \in DOMAIN Values : Values[g] # << >>} /\ DOMAIN Values = DOMAIN Global
      /\ Values = [g \in DOMAIN Global |-> Values[g]] /\ D \subseteq DOMAIN Global
  BY <1>1, TypeAssumption DEF Has
<1>3. ASSUME NEW g \in D
      PROVE  Values[g] \in Seq(Word) /\ AllOk(Values[g], <<Global[g]>>, D, {})
  <2>1. /\ Global[g] # T(0, Role) /\ Values[g] \in Seq({num} \union RefsTo(D))
        /\ Len(Values[g]) = Size(Global[g])
        /\ \A i \in DOMAIN Values[g] :
             LET v == Values[g][i]
                 t == SlotsOf(Global[g])[i]
             IN  CASE t.refs = 0 -> v = num
                   [] t.refs = 1 -> RefFits(v, t)
                   [] t.refs = 2 -> IsRef(v) /\ SlotAt(v) = T(1, t.ty)
    BY <1>2, ValuesAssumption
  <2>2. Global[g] \in Type /\ g \in DOMAIN Global
    BY <1>2, GlobalFacts
  <2>3. PICK n, of : n = Size(Global[g]) /\ of = SlotsOf(Global[g])
    OBVIOUS
  <2>4. n \in Nat /\ Len(of) = n /\ of \in Seq(Type) /\ DOMAIN Values[g] = 1..n
    <3>1. n \in Nat /\ Len(of) = n /\ of \in Seq(Type)
      BY <2>2, <2>3, SlotsOfFacts
    <3>2. DOMAIN Values[g] = 1..Len(Values[g])
      BY <2>1
    <3>. QED
      BY <2>1, <2>3, <3>1, <3>2
  <2>5. ASSUME NEW w \in RefsTo(D)
        PROVE  w \in Word /\ RefOk(w, D) /\ w[3] < Size(Global[w[2]])
    <3>1. PICK h \in D : w \in {ref(h, k) : k \in 0..(Size(Global[h]) - 1)}
      BY DEF RefsTo
    <3>2. PICK k \in 0..(Size(Global[h]) - 1) : w = ref(h, k)
      BY <3>1
    <3>3. h \in DOMAIN Global /\ Size(Global[h]) \in Nat
      BY <1>2, GlobalFacts, SlotsOfFacts
    <3>4. k \in Nat /\ k < Size(Global[h]) /\ w[2] = h /\ w[3] = k /\ w \in Word
      BY <3>2, <3>3, WordFacts
    <3>. QED
      BY <3>2, <3>4 DEF RefOk
  <2>6. Values[g] \in Seq(Word)
    <3>1. {num} \union RefsTo(D) \subseteq Word
      BY <2>5, WordFacts
    <3>2. \A i \in 1..n : Values[g][i] \in Word
      BY <2>1, <2>4, <3>1
    <3>3. Values[g] = [i \in 1..n |-> Values[g][i]]
      BY <2>1, <2>4
    <3>4. Values[g] \in [1..n -> Word]
      BY <3>2, <3>3
    <3>. QED
      BY <2>4, <3>4
  <2>7. ASSUME NEW i \in 1..n
        PROVE  of[i] # T(0, Role) /\ SlotOk(Values[g][i], of[i], D)
    <3>1. of[i] # T(0, Role)
      BY <2>1, <2>2, <2>3, RoleSlot
    <3>2. PICK v, t : v = Values[g][i] /\ t = of[i]
      OBVIOUS
    <3>3. /\ t \in Type /\ t.refs \in 0..2 /\ v \in {num} \union RefsTo(D)
          /\ (t.refs = 0 => v = num) /\ (t.refs = 1 => RefFits(v, t))
          /\ (t.refs = 2 => IsRef(v) /\ SlotAt(v) = T(1, t.ty))
      <4>1. t \in Type /\ v \in {num} \union RefsTo(D)
        BY <2>1, <2>4, <3>2
      <4>2. t.refs \in 0..2
        BY <4>1, TFacts
      <4>3. (CASE t.refs = 0 -> v = num
               [] t.refs = 1 -> RefFits(v, t)
               [] t.refs = 2 -> IsRef(v) /\ SlotAt(v) = T(1, t.ty))
        BY <2>1, <2>3, <2>4, <3>2
      <4>4. t.refs = 0 => v = num
        BY <4>3
      <4>5. t.refs = 1 => RefFits(v, t)
        BY <4>3
      <4>6. t.refs = 2 => IsRef(v) /\ SlotAt(v) = T(1, t.ty)
        BY <4>3
      <4>. QED
        BY ONLY <4>1, <4>2, <4>4, <4>5, <4>6
    <3>4. t.refs > 0 => IsRef(v)
      BY <3>3 DEF RefFits
    <3>5. t.refs > 0 => v \in RefsTo(D)
      BY <3>3, <3>4, WordFacts
    <3>6. SlotOk(v, t, D)
      BY <2>5, <3>3, <3>5 DEF SlotOk
    <3>. QED
      BY <3>1, <3>2, <3>6
  <2>8. SlotsOk(Values[g], of, D, {})
    BY <2>1, <2>3, <2>4, <2>6, <2>7 DEF SlotsOk
  <2>. QED
    BY <2>2, <2>3, <2>6, <2>8, OneOk
<1>4. MemOk(Values, {})
  <2>1. \A g \in DOMAIN Global : Values[g] \in Seq(Word)
    <3>1. \A g \in DOMAIN Global : g \in D \/ Values[g] = << >>
      BY <1>2
    <3>2. << >> \in Seq(Word)
      OBVIOUS
    <3>. QED
      BY <1>3, <3>1, <3>2
  <2>2. Values \in [DOMAIN Global -> Seq(Word)]
    BY <1>2, <2>1
  <2>. QED
    BY <1>1, <1>3, <2>2 DEF MemOk
<1>5. /\ meths = {} /\ impls = [m \in {} |-> num] /\ opened = {} /\ mem = Values
      /\ tys = << >> /\ ws = << >> /\ ctl = << >> /\ phase = "run" /\ faults = {}
  BY DEF Init
<1>6. StackOk(ws, tys, Waiting, mem, opened)
  BY <1>5, EmptyStack DEF Waiting
<1>7. ImplsOk /\ OpenedOk /\ CtlOk
  <2>1. DOMAIN impls = {}
    BY <1>5
  <2>. QED
    BY <1>5, <2>1 DEF ImplsOk, OpenedOk, CtlOk
<1>. QED
  BY <1>4, <1>5, <1>6, <1>7 DEF TypesInv

LEMMA StutterOk ==
  ASSUME TypesInv, UNCHANGED vars
  PROVE  TypesInv'
<1>1. UNCHANGED <<meths, impls, opened, mem, tys, ws, ctl, phase, faults>>
  BY DEF vars
<1>2. Waiting' = Waiting
  BY <1>1 DEF Waiting
<1>. QED
  BY <1>1, <1>2 DEF TypesInv, ImplsOk, OpenedOk, CtlOk

(* Every declaration keeps the invariant.                                  *)
LEMMA DeclareOk ==
  ASSUME KeepsRules, TypesInv, Declare
  PROVE  TypesInv'
<1>1. CASE \E s \in Struct : N_impl(s) \/ (\E c \in DOMAIN Method : c[1] = s /\ N_meth(s, c[2]))
  BY <1>1, N_implOk, N_methOk
<1>2. CASE \E op \in DOMAIN Op : \E c \in DOMAIN Method : \E q \in Struct : N_impl_assign(op, q, c[2])
  BY <1>2, N_impl_assignOk
<1>3. CASE N_impl_end
  BY <1>3, N_impl_endOk
<1>. QED
  BY <1>1, <1>2, <1>3 DEF Declare

(* Every statement keeps the invariant.                                    *)
LEMMA StatementOk ==
  ASSUME KeepsRules, TypesInv, Statement
  PROVE  TypesInv'
<1>1. ASSUME NEW g \in DOMAIN Global,
             \/ N_amp(g) \/ compileVar(g) \/ srVar(g) \/ N_global(g)
             \/ \E m \in {c[2] : c \in DOMAIN Method} : dotMeth(g, m)
             \/ \E op \in DOMAIN Op : dotRole(g, op)
      PROVE  TypesInv'
  <2>1. CASE N_amp(g)
    BY <2>1, N_ampOk
  <2>2. CASE compileVar(g)
    BY <2>2, compileVarOk
  <2>3. CASE srVar(g)
    BY <2>3, srVarOk
  <2>4. CASE \E m \in {c[2] : c \in DOMAIN Method} : dotMeth(g, m)
    BY <2>4, dotMethOk
  <2>5. CASE \E op \in DOMAIN Op : dotRole(g, op)
    BY <2>5, dotRoleOk
  <2>6. CASE N_global(g)
    BY <2>6, N_globalOk
  <2>. QED
    BY <1>1, <2>1, <2>2, <2>3, <2>4, <2>5, <2>6
<1>2. CASE compileLit
  BY <1>2, compileLitOk
<1>3. CASE N_at
  BY <1>3, N_atOk
<1>4. CASE N_atSr
  BY <1>4, N_atSrOk
<1>5. CASE N_atSr_end
  BY <1>5, N_atSr_endOk
<1>6. CASE N_atEq
  BY <1>6, N_atEqOk
<1>7. CASE \E s \in Struct : compileStruct(s)
  BY <1>7, compileStructOk
<1>8. CASE compileRole
  BY <1>8, compileRoleOk
<1>9. CASE dotMeth_end
  BY <1>9, dotMeth_endOk
<1>10. CASE dotRole_end
  BY <1>10, dotRole_endOk
<1>11. CASE \E f \in DOMAIN Fn : compileFn(f)
  BY <1>11, compileFnOk
<1>. QED
  BY <1>1, <1>2, <1>3, <1>4, <1>5, <1>6, <1>7, <1>8, <1>9, <1>10, <1>11 DEF Statement

(* The values are what their types say, and what waits finds what it left. *)
THEOREM TypesInvariant ==
  ASSUME KeepsRules
  PROVE  Spec => []TypesInv
<1>1. Init => TypesInv
  BY InitOk
<1>2. TypesInv /\ [Next]_vars => TypesInv'
  BY DeclareOk, StatementOk, StutterOk DEF Next
<1>. QED
  BY <1>1, <1>2, PTL DEF Spec

(* The addresses are those of the frames that wait, which an impl is none  *)
(* of.                                                                     *)
LEMMA AddressesAre ==
  ASSUME TypesInv
  PROVE  Addresses = Adr(Waiting)
<1>1. CASE ctl # << >> /\ ctl[1].at = "impl"
  <2>1. ctl \in [{1} -> ImplFrame] /\ Waiting = << >>
    BY <1>1 DEF TypesInv, CtlOk, Waiting
  <2>2. Addresses = {}
    BY <1>1, <2>1 DEF Addresses
  <2>3. Adr(<< >>) = {}
    BY DEF Adr
  <2>. QED
    BY <2>1, <2>2, <2>3
<1>2. CASE ~(ctl # << >> /\ ctl[1].at = "impl")
  <2>1. Waiting = ctl
    BY <1>2 DEF Waiting
  <2>2. ctl \in Seq(Frame)
    BY <2>1 DEF TypesInv, StackOk
  <2>3. DOMAIN ctl = 1..Len(ctl)
    BY <2>2
  <2>. QED
    BY <2>1, <2>3 DEF Addresses, Adr
<1>. QED
  BY <1>1, <1>2

(* The working stack has, value by value, what the type database says: the *)
(* types that TyI_check, compileDict, N_at and the calls leave there are   *)
(* those of what code finds when it runs.                                  *)
THEOREM StackTypedAlways ==
  ASSUME KeepsRules
  PROVE  Spec => []StackTyped
<1>1. TypesInv => StackTyped
  <2>1. SUFFICES ASSUME TypesInv  PROVE StackTyped
    OBVIOUS
  <2>2. StackOk(ws, tys, Waiting, mem, opened) /\ MemOk(mem, opened)
    BY <2>1 DEF TypesInv
  <2>3. AllOk(Without(ws, Addresses), tys, Has(mem), opened) /\ tys \in Seq(Type)
    BY <2>1, <2>2, AddressesAre, InTypeFacts DEF StackOk
  <2>. QED
    BY <2>2, <2>3, AllFitOk DEF StackTyped
<1>. QED
  BY <1>1, TypesInvariant, PTL

(* Every global holds what its type says, whatever value it was declared   *)
(* with and whatever was stored into it through whatever reference         *)
(* (N_global, srVar, N_atSr, N_atEq).                                      *)
THEOREM MemoryTypedAlways ==
  ASSUME KeepsRules
  PROVE  Spec => []MemoryTyped
<1>1. TypesInv => MemoryTyped
  <2>1. SUFFICES ASSUME TypesInv, NEW g \in DOMAIN Global, Declared(g)  PROVE Fits(mem[g], Global[g])
    BY DEF MemoryTyped
  <2>2. MemOk(mem, opened) /\ g \in Has(mem)
    BY <2>1 DEF TypesInv, Declared, Has
  <2>3. AllOk(mem[g], <<Global[g]>>, Has(mem), opened)
    BY <2>2 DEF MemOk
  <2>4. <<Global[g]>> \in Seq(Type)
    BY GlobalFacts
  <2>. QED
    BY <2>2, <2>3, <2>4, AllFitOk DEF Fits
<1>. QED
  BY <1>1, TypesInvariant, PTL

(* No function, method or method behind a role (compileFn, dotMeth,        *)
(* dotRole) runs on arguments that are not of the types that it declares,  *)
(* and what runs for an op of a role is a method that its impl has         *)
(* assigned.                                                               *)
THEOREM ArgsAsDeclaredAlways ==
  ASSUME KeepsRules
  PROVE  Spec => []ArgsAsDeclared
<1>1. TypesInv => ArgsAsDeclared
  BY DEF TypesInv, ArgsAsDeclared
<1>. QED
  BY <1>1, TypesInvariant, PTL

(* No store through a reference (N_atSr) and no move (N_atEq) writes where *)
(* there is no object, or behind it.                                       *)
THEOREM MovesInsideAlways ==
  ASSUME KeepsRules
  PROVE  Spec => []MovesInside
<1>1. TypesInv => MovesInside
  BY DEF TypesInv, MovesInside
<1>. QED
  BY <1>1, TypesInvariant, PTL
=============================================================================
