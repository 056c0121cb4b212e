--------------------------- MODULE LayoutProofs ---------------------------
(***************************************************************************)
(* Fields and locals are disjoint and aligned, for all types and sizes,    *)
(* and the two ways to compute the size of a struct agree.                 *)
(*                                                                         *)
(* The sizes in the invariants are those of the structs as they are now,   *)
(* and a struct grows while it is declared.  What is placed does not grow  *)
(* with it: a field by value is of an earlier struct, and locals come only *)
(* once no struct is open.  That is what the inductive invariant adds.     *)
(***************************************************************************)
EXTENDS Layout, DataLemmas

(* A value of the type has a size that the first n structs determine.      *)
Below(tyI, n) == tyI.refs = 0 /\ ~tyI.ty.native => tyI.ty.id \in 1..n

(* Values of such types, which have a number of bytes.                     *)
Placed(fields, n) ==
  \A j \in 1..Len(fields) :
    Below(fields[j].tyI, n) /\ Bytes(fields[j].tyI) \in Nat

(* What holds of the fields of a struct, and of the locals, that take sz   *)
(* bytes.                                                                  *)
Good(fields, n, sz) ==
  Placed(fields, n) /\ Disjoint(fields, sz) /\ Aligned(fields)

SizeOf(st) == IF st.sz = TY_UNSIZED THEN MaxSz ELSE st.sz

StructsGood ==
  \A i \in 1..Len(structs) :
    Good(structs[i].fields, i - 1, SizeOf(structs[i]))

LocalsGood == Good(locals, Len(structs), fnLocals)

OpenStruct ==
  open => /\ Len(structs) \in 1..Len(FieldTyIs)
          /\ Current.sz \in 0..MaxSz
          /\ locals = << >>

LayoutInv ==
  LayoutTypeOK /\ OpenStruct /\ StructsGood /\ LocalsGood

FieldList == Seq([tyI : TyI, v : Nat])

Struct == [fields : Vars, sz : 0..MaxSz \cup {TY_UNSIZED}]

-----------------------------------------------------------------------------
(* Sizes and places.                                                       *)

(* align goes up to a multiple.                                            *)
LEMMA AlignUp ==
  ASSUME NEW p \in Nat, NEW a \in {1, 2, 4}
  PROVE  align(p, a) \in Nat /\ p <= align(p, a) /\ align(p, a) % a = 0
<1>1. CASE a = 1
  BY <1>1 DEF align
<1>2. CASE a = 2
  BY <1>2 DEF align
<1>3. CASE a = 4
  BY <1>3 DEF align
<1>q. QED
  BY <1>1, <1>2, <1>3

(* n elements of b bytes end after the last one's first m bytes.           *)
LEMMA ElementsFit ==
  ASSUME NEW n \in Nat, n > 0, NEW b \in Nat, NEW m \in Nat, m <= b
  PROVE  (n - 1) * b + m \in Nat /\ (n - 1) * b + m <= n * b /\ n * b \in Nat
<1>1. n * b = (n - 1) * b + b
  OBVIOUS
<1>2. (n - 1) * b \in Nat /\ n * b \in Nat
  OBVIOUS
<1>3. PICK k \in Nat : (n - 1) * b = k
  BY <1>2
<1>q. QED
  BY <1>1, <1>2, <1>3

(* The size of a known type, and of an element of its array.               *)
LEMMA KnownSizes ==
  ASSUME NEW tyI \in TyI, Known(tyI)
  PROVE  /\ TyI_szBasic(tyI) \in 0..MaxSz
         /\ varPre(tyI).sz \in 0..MaxSz
         /\ TyI_szBasic(tyI) <= varPre(tyI).sz
         /\ TyI_unsized(tyI) <=> tyI.arrLen = TY_UNSIZED
<1> DEFINE sz == TyI_szBasic(tyI)
<1>1. sz \in 0..MaxSz /\ varPre(tyI).sz <= MaxSz
  BY DEF Known
<1>2. MaxSz \in Nat
  BY SizesAssumption
<1>3. alignment[sz] \in {1, 2, 4}
  BY <1>1, AlignmentAssumption
<1>4. varPre(tyI).sz = IF tyI.arrLen \in {0, 1} THEN sz ELSE align(sz, alignment[sz])
  BY DEF varPre
<1>5. varPre(tyI).sz \in Nat /\ sz <= varPre(tyI).sz
  <2> sz \in Nat
    BY <1>1, <1>2
  <2> HIDE DEF sz
  <2>1. align(sz, alignment[sz]) \in Nat /\ sz <= align(sz, alignment[sz])
    BY <1>3, AlignUp
  <2>q. QED
    BY <1>4, <2>1
<1>6. TyI_unsized(tyI) <=> tyI.arrLen = TY_UNSIZED
  <2>1. CASE tyI.refs = 0
    <3>1. TyI_szBasic(tyI) = TyDict_sz(tyI.ty)
      BY <2>1 DEF TyI_szBasic
    <3>2. TyDict_sz(tyI.ty) # TY_UNSIZED
      BY <1>1, <1>2, <3>1 DEF TY_UNSIZED
    <3>q. QED
      BY <2>1, <3>2 DEF TyI_unsized
  <2>2. CASE tyI.refs > 0
    BY <2>2 DEF TyI_unsized, Known
  <2>3. tyI.refs \in 0..MaxRefs
    BY DEF TyI
  <2>q. QED
    BY <2>1, <2>2, <2>3, SizesAssumption
<1>q. QED
  BY <1>1, <1>2, <1>5, <1>6

(* The extent of a value has room for its bytes.                           *)
LEMMA ExtentHasRoom ==
  ASSUME NEW tyI \in TyI, Known(tyI)
  PROVE  Bytes(tyI) \in Nat /\ Extent(tyI) \in Nat /\ Bytes(tyI) <= Extent(tyI)
<1> DEFINE sz == TyI_szBasic(tyI)
           el == varPre(tyI).sz
<1>1. sz \in Nat /\ el \in Nat /\ sz <= el
  BY KnownSizes, SizesAssumption
<1>2. tyI.arrLen \in Nat \/ tyI.arrLen = TY_UNSIZED
  BY SizesAssumption DEF TyI
<1>3. varPre(tyI).els = IF tyI.arrLen = 0 THEN 1 ELSE tyI.arrLen
  BY DEF varPre
<1>4. TyI_unsized(tyI) <=> tyI.arrLen = TY_UNSIZED
  BY KnownSizes
<1>5. Bytes(tyI) = IF tyI.arrLen \in {0, TY_UNSIZED} THEN sz
                   ELSE (tyI.arrLen - 1) * el + sz
  BY DEF Bytes
<1>6. Extent(tyI) = IF TyI_unsized(tyI) THEN el ELSE varPre(tyI).els * el
  BY DEF Extent
<1> HIDE DEF sz, el
<1>7. CASE tyI.arrLen = TY_UNSIZED
  BY <1>1, <1>4, <1>5, <1>6, <1>7
<1>8. CASE tyI.arrLen = 0
  <2>1. 0 # TY_UNSIZED
    BY DEF TY_UNSIZED
  <2>2. Extent(tyI) = 1 * el
    BY <1>3, <1>4, <1>6, <1>8, <2>1
  <2>q. QED
    BY <1>1, <1>5, <1>8, <2>2
<1>9. CASE tyI.arrLen \in Nat /\ tyI.arrLen # 0
  <2> DEFINE n == tyI.arrLen
  <2>1. n \in Nat /\ n > 0 /\ n # TY_UNSIZED
    BY <1>9 DEF TY_UNSIZED
  <2>2. Bytes(tyI) = (n - 1) * el + sz
    BY <1>5, <1>9, <2>1
  <2>3. Extent(tyI) = n * el
    BY <1>3, <1>4, <1>6, <1>9, <2>1
  <2> HIDE DEF n
  <2>q. QED
    BY <1>1, <2>1, <2>2, <2>3, ElementsFit
<1>q. QED
  BY <1>2, <1>7, <1>8, <1>9

(* A value is placed behind what there is, where its size is aligned.      *)
LEMMA PlaceIsAligned ==
  ASSUME NEW tyI \in TyI, Known(tyI), NEW p \in Nat
  PROVE  /\ Place(p, varPre(tyI)) \in Nat
         /\ p <= Place(p, varPre(tyI))
         /\ Place(p, varPre(tyI)) % alignment[TyI_szBasic(tyI)] = 0
<1> DEFINE a == alignment[varPre(tyI).sz]
           b == alignment[TyI_szBasic(tyI)]
           v == Place(p, varPre(tyI))
<1>1. a \in {1, 2, 4} /\ b \in {1, 2, 4} /\ b <= a
  BY KnownSizes, AlignmentAssumption
<1>2. v = align(p, a)
  BY DEF Place
<1> HIDE DEF a, b, v
<1>3. v \in Nat /\ p <= v /\ v % a = 0
  BY <1>1, <1>2, AlignUp
<1>4. v % b = 0
  <2>1. CASE b = a
    BY <1>3, <2>1
  <2>2. CASE b = 1
    BY <1>3, <2>2
  <2>3. CASE b = 2 /\ a = 4
    BY <1>3, <2>3
  <2>q. QED
    BY <1>1, <2>1, <2>2, <2>3
<1>q. QED
  BY <1>3, <1>4 DEF b, v

-----------------------------------------------------------------------------
(* Values in a sequence.                                                   *)

(* Sizes and bytes do not change while the structs that they are of keep   *)
(* theirs.                                                                 *)
LEMMA SizesKept ==
  ASSUME NEW n \in Nat, NEW tyI \in TyI, Below(tyI, n),
         \A i \in 1..n : structs'[i].sz = structs[i].sz
  PROVE  TyI_szBasic(tyI)' = TyI_szBasic(tyI) /\ Bytes(tyI)' = Bytes(tyI)
<1>1. TyI_szBasic(tyI)' = TyI_szBasic(tyI)
  <2>1. CASE tyI.refs > 0
    BY <2>1 DEF TyI_szBasic
  <2>2. CASE tyI.refs = 0
    BY <2>2 DEF TyI_szBasic, TyDict_sz, Below
  <2>3. tyI.refs \in Nat
    BY SizesAssumption DEF TyI
  <2>q. QED
    BY <2>1, <2>2, <2>3
<1>2. varPre(tyI)' = varPre(tyI)
  BY <1>1 DEF varPre
<1>q. QED
  BY <1>1, <1>2 DEF Bytes

(* So the values of a struct are as they were while the structs before it  *)
(* keep their sizes.                                                       *)
LEMMA FieldsKept ==
  ASSUME NEW i \in Nat \ {0}, NEW sz \in Nat, NEW fields \in FieldList,
         structs'[i].fields = fields,
         \A h \in 1..(i - 1) : structs'[h].sz = structs[h].sz,
         Good(fields, i - 1, sz)
  PROVE  Good(structs[i].fields, i - 1, sz)'
<1>1. \A j \in 1..Len(fields) : fields[j].tyI \in TyI
  <2>1. \A j \in 1..Len(fields) : fields[j] \in [tyI : TyI, v : Nat]
    BY ElementOfSeq DEF FieldList
  <2>q. QED
    BY <2>1
<1>2. \A tyI \in TyI : Below(tyI, i - 1) =>
        TyI_szBasic(tyI)' = TyI_szBasic(tyI) /\ Bytes(tyI)' = Bytes(tyI)
  <2>1. i - 1 \in Nat
    OBVIOUS
  <2>q. QED
    BY <2>1, SizesKept
<1>3. \A j \in 1..Len(fields) :
        /\ Below(fields[j].tyI, i - 1)
        /\ TyI_szBasic(fields[j].tyI)' = TyI_szBasic(fields[j].tyI)
        /\ Bytes(fields[j].tyI)' = Bytes(fields[j].tyI)
  BY <1>1, <1>2 DEF Placed, Good
<1>4. Disjoint(structs[i].fields, sz)'
  BY <1>3 DEF Disjoint, Good
<1>5. Aligned(structs[i].fields)'
  BY <1>3 DEF Aligned, Good
<1>6. Placed(structs[i].fields, i - 1)'
  BY <1>3 DEF Placed, Below, Good
<1>q. QED
  BY <1>4, <1>5, <1>6 DEF Good

(* A known value after the others, where Place puts it.                    *)
LEMMA Appended ==
  ASSUME NEW fields \in FieldList, NEW sz \in Nat, NEW n \in Nat,
         Good(fields, n, sz),
         NEW tyI \in TyI, Known(tyI), Below(tyI, n)
  PROVE  LET v   == Place(sz, varPre(tyI))
             new == Append(fields, [tyI |-> tyI, v |-> v])
         IN  /\ v \in Nat /\ Extent(tyI) \in Nat
             /\ new \in FieldList
             /\ Good(new, n, v + Extent(tyI))
<1> DEFINE v   == Place(sz, varPre(tyI))
           new == Append(fields, [tyI |-> tyI, v |-> v])
           len == Len(fields)
<1>1. v \in Nat /\ sz <= v /\ v % alignment[TyI_szBasic(tyI)] = 0
  BY PlaceIsAligned
<1>2. Bytes(tyI) \in Nat /\ Extent(tyI) \in Nat /\ Bytes(tyI) <= Extent(tyI)
  BY ExtentHasRoom
<1> HIDE DEF v
<1>3. /\ len \in Nat /\ Len(new) = len + 1
      /\ \A j \in 1..len : new[j] = fields[j]
      /\ new[len + 1] = [tyI |-> tyI, v |-> v]
  BY DEF FieldList
<1>0. new \in FieldList
  BY <1>1, AppendProperties DEF FieldList
<1> HIDE DEF new, len
<1>4. \A j \in 1..len :
        /\ fields[j].v \in Nat /\ Bytes(fields[j].tyI) \in Nat
        /\ fields[j].v + Bytes(fields[j].tyI) <= sz
  <2>1. \A j \in 1..len : fields[j] \in [tyI : TyI, v : Nat]
    BY ElementOfSeq DEF len, FieldList
  <2>2. \A j \in 1..len : Bytes(fields[j].tyI) \in Nat
    BY DEF Placed, Good, len
  <2>3. \A j \in 1..len : fields[j].v + Bytes(fields[j].tyI) <= sz
    BY DEF Disjoint, Good, len
  <2>q. QED
    BY <2>1, <2>2, <2>3
<1>5. Disjoint(new, v + Extent(tyI))
  <2>1. ASSUME NEW j \in 1..Len(new), NEW k \in 1..Len(new), j < k
        PROVE  new[j].v + Bytes(new[j].tyI) <= new[k].v
    <3>0. j \in 1..len /\ new[j] = fields[j]
      BY <1>3, <2>1
    <3>1. CASE k \in 1..len
      <4>1. new[k] = fields[k]
        BY <1>3, <3>1
      <4>2. fields[j].v + Bytes(fields[j].tyI) <= fields[k].v
        BY <3>0, <3>1, <2>1 DEF Disjoint, Good, len
      <4>q. QED
        BY <3>0, <4>1, <4>2
    <3>2. CASE k = len + 1
      <4>1. new[k].v = v
        BY <1>3, <3>2
      <4>2. fields[j].v + Bytes(fields[j].tyI) <= v
        BY <1>1, <1>4, <3>0
      <4>q. QED
        BY <3>0, <4>1, <4>2
    <3>q. QED
      BY <1>3, <3>1, <3>2
  <2>2. ASSUME NEW j \in 1..Len(new)
        PROVE  new[j].v + Bytes(new[j].tyI) <= v + Extent(tyI)
    <3>1. CASE j \in 1..len
      <4>1. new[j] = fields[j]
        BY <1>3, <3>1
      <4>2. fields[j].v + Bytes(fields[j].tyI) <= v + Extent(tyI)
        BY <1>1, <1>2, <1>4, <3>1
      <4>q. QED
        BY <4>1, <4>2
    <3>2. CASE j = len + 1
      <4>1. new[j].v = v /\ new[j].tyI = tyI
        BY <1>3, <3>2
      <4>q. QED
        BY <1>1, <1>2, <4>1
    <3>q. QED
      BY <1>3, <3>1, <3>2
  <2>q. QED
    BY <2>1, <2>2 DEF Disjoint
<1>6. Aligned(new)
  BY <1>1, <1>3 DEF Aligned, Good, len
<1>7. Placed(new, n)
  <2> SUFFICES ASSUME NEW j \in 1..Len(new)
               PROVE  Below(new[j].tyI, n) /\ Bytes(new[j].tyI) \in Nat
    BY DEF Placed
  <2>1. CASE j \in 1..len
    <3>1. new[j] = fields[j]
      BY <1>3, <2>1
    <3>2. Below(fields[j].tyI, n) /\ Bytes(fields[j].tyI) \in Nat
      BY <2>1 DEF Placed, Good, len
    <3>q. QED
      BY <3>1, <3>2
  <2>2. CASE j = len + 1
    <3>1. new[j].tyI = tyI
      BY <1>3, <2>2
    <3>q. QED
      BY <1>2, <3>1
  <2>q. QED
    BY <1>3, <2>1, <2>2
<1>q. QED
  BY <1>0, <1>1, <1>2, <1>5, <1>6, <1>7 DEF Good, v, new

-----------------------------------------------------------------------------
(* The invariant is inductive.                                             *)

(* What LayoutTypeOK says of each struct.                                  *)
LEMMA StructTypes ==
  ASSUME LayoutTypeOK, NEW i \in 1..Len(structs)
  PROVE  /\ structs[i] \in Struct
         /\ structs[i].fields \in FieldList
         /\ SizeOf(structs[i]) \in 0..MaxSz /\ SizeOf(structs[i]) \in Nat
<1>1. structs[i] \in Struct
  BY ElementOfSeq DEF LayoutTypeOK, Struct
<1>2. structs[i].fields \in Seq([tyI : TyI, v : 0..MaxSz])
  BY <1>1 DEF Struct, Vars
<1>3. [tyI : TyI, v : 0..MaxSz] \subseteq [tyI : TyI, v : Nat]
  OBVIOUS
<1>4. structs[i].fields \in FieldList
  BY <1>2, <1>3, SeqMonotonic DEF FieldList
<1>5. SizeOf(structs[i]) \in 0..MaxSz
  BY <1>1, SizesAssumption DEF SizeOf, Struct
<1>q. QED
  BY <1>1, <1>4, <1>5

LEMMA InvInit == LayoutInit => LayoutInv
<1> SUFFICES ASSUME LayoutInit PROVE LayoutInv
  OBVIOUS
<1> USE DEF LayoutInit
<1>1. LayoutTypeOK
  BY EmptySeq DEF LayoutTypeOK
<1>2. OpenStruct /\ StructsGood
  BY DEF OpenStruct, StructsGood
<1>3. LocalsGood
  BY DEF LocalsGood, Good, Placed, Disjoint, Aligned
<1>q. QED
  BY <1>1, <1>2, <1>3 DEF LayoutInv

(* A struct whose fields stay, and which only structs of the same size     *)
(* precede, stays good.                                                    *)
LEMMA StructKept ==
  ASSUME LayoutTypeOK, NEW i \in 1..Len(structs),
         Good(structs[i].fields, i - 1, SizeOf(structs[i])),
         structs'[i] = structs[i],
         \A h \in 1..(i - 1) : structs'[h].sz = structs[h].sz
  PROVE  Good(structs[i].fields, i - 1, SizeOf(structs[i]))'
<1> DEFINE sz == SizeOf(structs[i])
<1>1. sz \in Nat /\ structs[i].fields \in FieldList
  BY StructTypes
<1>2. SizeOf(structs[i])' = sz
  BY DEF SizeOf
<1>3. PICK s \in Nat : s = sz
  BY <1>1
<1>4. PICK fields \in FieldList : fields = structs[i].fields
  BY <1>1
<1>5. i \in Nat \ {0} /\ structs'[i].fields = fields
  BY <1>4
<1>6. Good(fields, i - 1, s)
  BY <1>3, <1>4
<1>7. Good(structs[i].fields, i - 1, s)'
  BY <1>5, <1>6, FieldsKept
<1>q. QED
  BY <1>2, <1>3, <1>7

(* Values that are good within sz bytes are so within more.                *)
LEMMA MoreBytes ==
  ASSUME NEW fields \in FieldList, NEW n, NEW sz \in Nat, NEW m \in Nat,
         sz <= m, Good(fields, n, sz)
  PROVE  Good(fields, n, m)
<1>1. \A j \in 1..Len(fields) :
        fields[j].v \in Nat /\ Bytes(fields[j].tyI) \in Nat
  <2>1. \A j \in 1..Len(fields) : fields[j] \in [tyI : TyI, v : Nat]
    BY ElementOfSeq DEF FieldList
  <2>2. \A j \in 1..Len(fields) : Bytes(fields[j].tyI) \in Nat
    BY DEF Good, Placed
  <2>q. QED
    BY <2>1, <2>2
<1>2. \A j \in 1..Len(fields) : fields[j].v + Bytes(fields[j].tyI) <= sz
  BY DEF Good, Disjoint
<1>3. \A j \in 1..Len(fields) : fields[j].v + Bytes(fields[j].tyI) <= m
  BY <1>1, <1>2
<1>q. QED
  BY <1>3 DEF Good, Disjoint

LEMMA StructStep ==
  ASSUME LayoutInv, N_struct
  PROVE  LayoutInv'
<1> DEFINE len == Len(structs)
           new == [fields |-> << >>, sz |-> 0]
<1> USE DEF LayoutInv
<1>1. structs \in Seq(Struct) /\ new \in Struct
  BY EmptySeq, SizesAssumption DEF LayoutTypeOK, Struct, Vars
<1>2. /\ structs' \in Seq(Struct) /\ len \in Nat /\ Len(structs') = len + 1
      /\ \A i \in 1..len : structs'[i] = structs[i]
      /\ structs'[len + 1] = new
  BY <1>1, AppendProperties, LenProperties DEF N_struct
<1>3. LayoutTypeOK'
  BY <1>2 DEF LayoutTypeOK, N_struct, Struct
<1>4. OpenStruct'
  BY <1>2, SizesAssumption, TyIsAssumption DEF OpenStruct, N_struct, Current
<1>5. ASSUME NEW i \in 1..Len(structs')
      PROVE  Good(structs[i].fields, i - 1, SizeOf(structs[i]))'
  <2>1. CASE i \in 1..len
    <3>1. \A h \in 1..(i - 1) : structs'[h].sz = structs[h].sz
      BY <1>2, <2>1
    <3>2. Good(structs[i].fields, i - 1, SizeOf(structs[i]))
      BY <2>1 DEF StructsGood
    <3>q. QED
      BY <1>2, <2>1, <3>1, <3>2, StructKept
  <2>2. CASE i = len + 1
    <3>1. structs'[i].fields = << >>
      BY <1>2, <2>2
    <3>q. QED
      BY <3>1 DEF Good, Placed, Disjoint, Aligned
  <2>q. QED
    BY <1>2, <2>1, <2>2
<1>6. StructsGood'
  BY <1>5 DEF StructsGood
<1>7. LocalsGood'
  BY DEF LocalsGood, N_struct, Good, Placed, Disjoint, Aligned
<1>q. QED
  BY <1>3, <1>4, <1>6, <1>7

(* A field by value is of a struct before the one that is open.            *)
LEMMA FieldBelow ==
  ASSUME NEW tyI \in TyI, _field(tyI), NEW n \in Nat, n = Len(structs)
  PROVE  Below(tyI, n - 1)
<1>1. tyI.ty \in [native : {TRUE}, id : Natives] \cup [native : {FALSE}, id : Nat]
  BY DEF TyI, Ty
<1>2. ASSUME tyI.refs = 0, ~tyI.ty.native
      PROVE  tyI.ty.id \in 1..(n - 1)
  <2>1. tyI.ty # [native |-> FALSE, id |-> n]
    BY <1>2 DEF _field
  <2>2. tyI.ty.id \in 1..n
    BY <1>2 DEF Known, _field
  <2>3. tyI.ty \in [native : {FALSE}, id : Nat]
    BY <1>1, <1>2
  <2>4. tyI.ty.id # n
    BY <2>1, <2>3
  <2>q. QED
    BY <2>2, <2>4
<1>q. QED
  BY <1>2 DEF Below

LEMMA FieldStep ==
  ASSUME LayoutInv, NEW tyI \in TyI, _field(tyI)
  PROVE  LayoutInv'
<1> DEFINE len == Len(structs)
           v   == Place(Current.sz, varPre(tyI))
           fs  == Append(Current.fields, [tyI |-> tyI, v |-> v])
           new == [fields |-> fs, sz |-> v + Extent(tyI)]
<1> USE DEF LayoutInv
<1>1. /\ open /\ locals = << >> /\ Known(tyI) /\ v + Extent(tyI) <= MaxSz
      /\ structs' = [structs EXCEPT ![len] = new]
      /\ UNCHANGED <<open, locals, fnLocals>>
  BY DEF _field, OpenStruct, Current
<1>2. len \in Nat /\ len \in 1..len /\ Current = structs[len]
  BY <1>1, LenProperties DEF LayoutTypeOK, OpenStruct, Current
<1>3. /\ structs \in Seq(Struct) /\ Current \in Struct
      /\ Current.fields \in FieldList /\ Current.sz \in Nat
      /\ SizeOf(Current) = Current.sz
  <2>1. Current.sz \in 0..MaxSz
    BY <1>1 DEF OpenStruct
  <2>q. QED
    BY <1>2, <2>1, StructTypes, SizesAssumption
      DEF LayoutTypeOK, Struct, SizeOf, TY_UNSIZED
<1>4. Below(tyI, len - 1)
  BY <1>2, FieldBelow
<1>5. Good(Current.fields, len - 1, Current.sz)
  BY <1>2, <1>3 DEF StructsGood
<1>6. /\ v \in Nat /\ Extent(tyI) \in Nat /\ fs \in FieldList
      /\ Good(fs, len - 1, v + Extent(tyI))
  <2>1. len - 1 \in Nat
    BY <1>2
  <2>q. QED
    BY <1>1, <1>3, <1>4, <1>5, <2>1, Appended
<1> HIDE DEF v
<1>7. fs \in Vars /\ new \in Struct
  <2>1. [tyI |-> tyI, v |-> v] \in [tyI : TyI, v : 0..MaxSz]
    BY <1>1, <1>6, SizesAssumption
  <2>2. fs \in Vars
    BY <1>3, <2>1, AppendProperties DEF Struct, Vars
  <2>3. v + Extent(tyI) \in 0..MaxSz
    BY <1>1, <1>6, SizesAssumption
  <2> HIDE DEF fs
  <2>q. QED
    BY <2>2, <2>3 DEF Struct
<1> HIDE DEF fs
<1>8. /\ structs' \in Seq(Struct) /\ Len(structs') = len
      /\ \A i \in 1..len : structs'[i] = IF i = len THEN new ELSE structs[i]
  <2> HIDE DEF new
  <2>q. QED
    BY <1>1, <1>2, <1>3, <1>7, ExceptSeq
<1>9. LayoutTypeOK'
  BY <1>1, <1>8 DEF LayoutTypeOK, Struct
<1>10. OpenStruct'
  BY <1>1, <1>2, <1>6, <1>8, SizesAssumption DEF OpenStruct, Current
<1>11. ASSUME NEW i \in 1..Len(structs')
       PROVE  Good(structs[i].fields, i - 1, SizeOf(structs[i]))'
  <2>1. \A h \in 1..(i - 1) : structs'[h].sz = structs[h].sz
    BY <1>2, <1>8, <1>11
  <2>2. CASE i # len
    <3>1. Good(structs[i].fields, i - 1, SizeOf(structs[i]))
      BY <1>8, <2>2 DEF StructsGood
    <3>q. QED
      BY <1>8, <2>1, <2>2, <3>1, StructKept
  <2>3. CASE i = len
    <3>1. structs'[i].fields = fs /\ structs'[i].sz = v + Extent(tyI)
      BY <1>2, <1>8, <2>3
    <3>2. SizeOf(structs[i])' = v + Extent(tyI)
      BY <1>6, <3>1 DEF SizeOf, TY_UNSIZED
    <3>3. PICK sz \in Nat : sz = v + Extent(tyI)
      BY <1>6
    <3>4. PICK fields \in FieldList : fields = fs
      BY <1>6
    <3>5. Good(fields, i - 1, sz)
      BY <1>6, <2>3, <3>3, <3>4
    <3>6. i \in Nat \ {0} /\ structs'[i].fields = fields
      BY <1>2, <2>3, <3>1, <3>4
    <3>7. Good(structs[i].fields, i - 1, sz)'
      BY <2>1, <3>5, <3>6, FieldsKept
    <3>q. QED
      BY <3>2, <3>3, <3>7
  <2>q. QED
    BY <2>2, <2>3
<1>12. StructsGood'
  BY <1>11 DEF StructsGood
<1>13. LocalsGood'
  BY <1>1 DEF LocalsGood, Good, Placed, Disjoint, Aligned
<1>q. QED
  BY <1>9, <1>10, <1>12, <1>13

LEMMA CloseStep ==
  ASSUME LayoutInv, _parseDataTy
  PROVE  LayoutInv'
<1> DEFINE len == Len(structs)
<1> USE DEF LayoutInv
<1>1. /\ open /\ locals = << >> /\ open' = FALSE /\ UNCHANGED <<locals, fnLocals>>
      /\ \/ structs' = structs
         \/ structs' = [structs EXCEPT ![len].sz = TY_UNSIZED]
  BY DEF _parseDataTy, OpenStruct
<1>2. structs \in Seq(Struct) /\ len \in Nat /\ len \in 1..len
  BY <1>1, LenProperties DEF LayoutTypeOK, Struct, OpenStruct
<1>3. /\ structs' \in Seq(Struct) /\ Len(structs') = len
      /\ \A i \in 1..len : structs'[i].fields = structs[i].fields
      /\ \A i \in 1..len : i # len => structs'[i] = structs[i]
      /\ \A i \in 1..len : structs'[i].sz \in {structs[i].sz, TY_UNSIZED}
  <2>1. CASE structs' = structs
    BY <1>2, <2>1
  <2>2. CASE structs' = [structs EXCEPT ![len].sz = TY_UNSIZED]
    <3> DEFINE new == [structs[len] EXCEPT !.sz = TY_UNSIZED]
    <3>1. structs[len] \in Struct
      BY <1>2, ElementOfSeq
    <3>2. new \in Struct /\ new.fields = structs[len].fields /\ new.sz = TY_UNSIZED
      BY <3>1 DEF Struct
    <3>3. structs' = [structs EXCEPT ![len] = new]
      BY <2>2
    <3> HIDE DEF new
    <3>4. /\ structs' \in Seq(Struct) /\ Len(structs') = len
          /\ \A i \in 1..len : structs'[i] = IF i = len THEN new ELSE structs[i]
      BY <1>2, <3>2, <3>3, ExceptSeq
    <3>q. QED
      BY <3>2, <3>4
  <2>q. QED
    BY <1>1, <2>1, <2>2
<1>4. LayoutTypeOK'
  BY <1>1, <1>3 DEF LayoutTypeOK, Struct
<1>5. ASSUME NEW i \in 1..Len(structs')
      PROVE  Good(structs[i].fields, i - 1, SizeOf(structs[i]))'
  <2>1. i \in 1..len /\ Good(structs[i].fields, i - 1, SizeOf(structs[i]))
    BY <1>3 DEF StructsGood
  <2>2. SizeOf(structs[i]) \in 0..MaxSz /\ structs[i].fields \in FieldList
    BY <2>1, StructTypes
  <2>3. SizeOf(structs[i])' \in {SizeOf(structs[i]), MaxSz}
    BY <1>3, <2>1 DEF SizeOf
  <2>4. PICK sz \in Nat : sz = SizeOf(structs[i])'
    BY <2>2, <2>3, SizesAssumption
  <2>5. PICK fields \in FieldList : fields = structs[i].fields
    BY <2>2
  <2>6. Good(fields, i - 1, sz)
    <3>1. SizeOf(structs[i]) <= sz
      BY <2>2, <2>3, <2>4, SizesAssumption
    <3>q. QED
      BY <2>1, <2>2, <2>4, <2>5, <3>1, MoreBytes, SizesAssumption
  <2>7. \A h \in 1..(i - 1) : structs'[h].sz = structs[h].sz
    BY <1>2, <1>3, <2>1
  <2>8. structs'[i].fields = fields
    BY <1>3, <2>1, <2>5
  <2>9. Good(structs[i].fields, i - 1, sz)'
    BY <1>2, <2>1, <2>6, <2>7, <2>8, FieldsKept
  <2>q. QED
    BY <2>4, <2>9
<1>6. StructsGood'
  BY <1>5 DEF StructsGood
<1>7. OpenStruct' /\ LocalsGood'
  BY <1>1 DEF OpenStruct, LocalsGood, Good, Placed, Disjoint, Aligned
<1>q. QED
  BY <1>4, <1>6, <1>7

(* Values that are good stay so, as locals, while the structs do not change.*)
LEMMA LocalsKept ==
  ASSUME structs' = structs, NEW fields, NEW n, NEW sz,
         Good(fields, n, sz), locals' = fields
  PROVE  Good(locals, n, sz)'
<1>1. \A tyI : TyI_szBasic(tyI)' = TyI_szBasic(tyI)
  BY DEF TyI_szBasic, TyDict_sz
<1>2. \A tyI : varPre(tyI)' = varPre(tyI)
  BY <1>1 DEF varPre
<1>3. \A tyI : Bytes(tyI)' = Bytes(tyI)
  BY <1>1, <1>2 DEF Bytes
<1>4. Placed(locals, n)'
  BY <1>3 DEF Placed, Good, Below
<1>5. Disjoint(locals, sz)'
  BY <1>3 DEF Disjoint, Good
<1>6. Aligned(locals)'
  BY <1>1 DEF Aligned, Good
<1>q. QED
  BY <1>4, <1>5, <1>6 DEF Good

(* Without a change of the structs, each stays good.                       *)
LEMMA StructsKept ==
  ASSUME LayoutTypeOK, StructsGood, structs' = structs
  PROVE  StructsGood'
<1>1. ASSUME NEW i \in 1..Len(structs')
      PROVE  Good(structs[i].fields, i - 1, SizeOf(structs[i]))'
  <2>1. Good(structs[i].fields, i - 1, SizeOf(structs[i]))
    BY DEF StructsGood
  <2>q. QED
    BY <2>1, StructKept
<1>q. QED
  BY <1>1 DEF StructsGood

LEMMA LocalStep ==
  ASSUME LayoutInv, NEW tyI \in TyI, localImpl(tyI)
  PROVE  LayoutInv'
<1> DEFINE v   == Place(fnLocals, varPre(tyI))
           new == Append(locals, [tyI |-> tyI, v |-> v])
           len == Len(structs)
<1> USE DEF LayoutInv
<1>1. /\ ~open /\ Known(tyI) /\ UNCHANGED <<structs, open>>
      /\ locals' = new /\ fnLocals' = v + Extent(tyI)
  BY DEF localImpl, Extent
<1>2. len \in Nat /\ fnLocals \in Nat /\ locals \in FieldList
  BY LenProperties DEF LayoutTypeOK, FieldList
<1>3. Below(tyI, len)
  BY <1>1 DEF Known, Below
<1>4. /\ v \in Nat /\ Extent(tyI) \in Nat /\ new \in FieldList
      /\ Good(new, len, v + Extent(tyI))
  BY <1>1, <1>2, <1>3, Appended DEF LocalsGood
<1> HIDE DEF v, new
<1>5. LayoutTypeOK'
  BY <1>1, <1>4 DEF LayoutTypeOK, FieldList
<1>6. OpenStruct' /\ StructsGood'
  BY <1>1, StructsKept DEF OpenStruct
<1>7. LocalsGood'
  <2>1. PICK sz : sz = v + Extent(tyI)
    OBVIOUS
  <2>2. PICK n : n = len
    OBVIOUS
  <2>3. Good(locals, n, sz)'
    BY <1>1, <1>4, <2>1, <2>2, LocalsKept
  <2>q. QED
    BY <1>1, <2>1, <2>2, <2>3 DEF LocalsGood
<1>q. QED
  BY <1>5, <1>6, <1>7

LEMMA InvNext == LayoutInv /\ [LayoutNext]_layoutVars => LayoutInv'
<1> SUFFICES ASSUME LayoutInv, [LayoutNext]_layoutVars PROVE LayoutInv'
  OBVIOUS
<1>1. CASE N_struct
  BY <1>1, StructStep
<1>2. CASE open /\ \E tyI \in FieldTyIs[Len(structs)] : _field(tyI)
  <2>1. PICK tyI \in FieldTyIs[Len(structs)] : _field(tyI)
    BY <1>2
  <2>2. tyI \in TyI
    BY <1>2, TyIsAssumption DEF LayoutInv, OpenStruct
  <2>q. QED
    BY <2>1, <2>2, FieldStep
<1>3. CASE _parseDataTy
  BY <1>3, CloseStep
<1>4. CASE \E tyI \in LocalTyIs : localImpl(tyI)
  <2>1. PICK tyI \in LocalTyIs : localImpl(tyI)
    BY <1>4
  <2>2. tyI \in TyI
    BY TyIsAssumption
  <2>q. QED
    BY <2>1, <2>2, LocalStep
<1>5. CASE UNCHANGED layoutVars
  <2> USE <1>5 DEF layoutVars, LayoutInv
  <2>1. LayoutTypeOK' /\ OpenStruct'
    BY DEF LayoutTypeOK, OpenStruct, Current
  <2>2. StructsGood'
    BY StructsKept
  <2>3. LocalsGood'
    <3>1. PICK fields, n, sz : fields = locals /\ n = Len(structs) /\ sz = fnLocals
      OBVIOUS
    <3>2. Good(fields, n, sz)
      BY <3>1 DEF LocalsGood
    <3>3. Good(locals, n, sz)'
      BY <3>1, <3>2, LocalsKept
    <3>q. QED
      BY <3>1, <3>3 DEF LocalsGood
  <2>q. QED
    BY <2>1, <2>2, <2>3
<1>q. QED
  BY <1>1, <1>2, <1>3, <1>4, <1>5 DEF LayoutNext

-----------------------------------------------------------------------------
(* The two ways to compute the size of a struct.                           *)

(* What Struct_computeSz makes of s at one more field.                     *)
SumStep(s, tyI) ==
  IF TyI_unsized(tyI) THEN TY_UNSIZED
  ELSE align(s, alignment[TyI_sz(tyI)]) + TyI_sz(tyI)

(* Its sums, after each field.                                             *)
Sums(f, fields) ==
  /\ DOMAIN f = 0..Len(fields) /\ f[0] = 0
  /\ \A n \in 1..Len(fields) : f[n] = SumStep(f[n - 1], fields[n].tyI)

Summed(fields, sz) == \E f : Sums(f, fields) /\ f[Len(fields)] = sz

(* The size that a struct has once it is finished.                         *)
EndsUnsized(fields) == fields # << >> /\ TyI_unsized(fields[Len(fields)].tyI)

FinalSz(st) == IF EndsUnsized(st.fields) THEN TY_UNSIZED ELSE st.sz

SumsInv ==
  \A i \in 1..Len(structs) :
    /\ Summed(structs[i].fields, FinalSz(structs[i]))
    /\ (open => i < Len(structs)) => FinalSz(structs[i]) = structs[i].sz

(* The sums are what Struct_computeSz computes.                            *)
LEMMA SumsComputed ==
  ASSUME NEW fields \in FieldList, NEW sz, Summed(fields, sz)
  PROVE  Struct_computeSz(fields) = sz
<1>. DEFINE R(g) == [n \in 0..Len(fields) |->
                      IF n = 0 THEN 0
                      ELSE LET tyI == fields[n].tyI
                           IN  IF TyI_unsized(tyI) THEN TY_UNSIZED
                               ELSE align(g[n - 1], alignment[TyI_sz(tyI)]) + TyI_sz(tyI)]
<1>1. PICK m \in Nat : m = Len(fields)
  BY DEF FieldList
<1>2. PICK f : Sums(f, fields) /\ f[m] = sz
  BY <1>1 DEF Summed
<1>3. \A g : R(g) = [n \in 0..m |-> IF n = 0 THEN 0 ELSE SumStep(g[n - 1], fields[n].tyI)]
  BY <1>1 DEF SumStep
<1>4. PICK h : h = CHOOSE g : g = R(g)
  OBVIOUS
<1>5. Struct_computeSz(fields) = h[m]
  BY <1>1, <1>4 DEF Struct_computeSz
<1>. HIDE DEF R
<1>6. f = R(f)
  <2>1. f = [n \in 0..m |-> f[n]]
    BY <1>1, <1>2 DEF Sums
  <2>2. \A n \in 0..m : f[n] = IF n = 0 THEN 0 ELSE SumStep(f[n - 1], fields[n].tyI)
    BY <1>1, <1>2 DEF Sums
  <2>. QED
    BY <1>3, <2>1, <2>2
<1>7. h = R(h)
  BY <1>4, <1>6
<1>8. /\ h[0] = 0
      /\ \A n \in 1..m : h[n] = SumStep(h[n - 1], fields[n].tyI)
  <2>1. h = [n \in 0..m |-> IF n = 0 THEN 0 ELSE SumStep(h[n - 1], fields[n].tyI)]
    BY ONLY <1>3, <1>7
  <2>2. \A n \in 0..m : h[n] = IF n = 0 THEN 0 ELSE SumStep(h[n - 1], fields[n].tyI)
    BY ONLY <2>1
  <2>. QED
    BY ONLY <2>2, m \in Nat
<1>9. \A n \in 0..m : h[n] = f[n]
  <2>. DEFINE T == {n \in 0..m : h[n] = f[n]}
  <2>1. 0 \in T
    BY <1>2, <1>8 DEF Sums
  <2>2. ASSUME NEW n \in 0..m - 1, n \in T PROVE n + 1 \in T
    <3>1. n + 1 \in 1..m /\ (n + 1) - 1 = n /\ n + 1 \in 0..m
      BY ONLY m \in Nat, n \in 0..m - 1
    <3>2. h[n + 1] = SumStep(h[n], fields[n + 1].tyI)
      BY ONLY <1>8, <3>1
    <3>3. f[n + 1] = SumStep(f[n], fields[n + 1].tyI)
      BY ONLY <1>1, <1>2, <3>1 DEF Sums
    <3>4. h[n] = f[n]
      BY <2>2
    <3>. QED
      BY <3>1, <3>2, <3>3, <3>4
  <2>. HIDE DEF T
  <2>3. 0..m \subseteq T
    BY ONLY <2>1, <2>2, m \in Nat, SetInductionUpTo
  <2>. QED
    BY <2>3 DEF T
<1>. QED
  BY <1>1, <1>2, <1>5, <1>9

(* The sums of a struct stay while the structs before it keep their sizes. *)
LEMMA StepKept ==
  ASSUME NEW n \in Nat, NEW tyI \in TyI, Below(tyI, n),
         \A i \in 1..n : structs'[i].sz = structs[i].sz
  PROVE  /\ TyI_unsized(tyI)' = TyI_unsized(tyI)
         /\ \A s : SumStep(s, tyI)' = SumStep(s, tyI)
<1>1. TyI_szBasic(tyI)' = TyI_szBasic(tyI)
  BY SizesKept
<1>2. TyI_sz(tyI)' = TyI_sz(tyI)
  BY <1>1 DEF TyI_sz
<1>3. TyI_unsized(tyI)' = TyI_unsized(tyI)
  <2>1. CASE tyI.refs = 0
    <3>1. TyI_szBasic(tyI) = TyDict_sz(tyI.ty)
      BY <2>1 DEF TyI_szBasic
    <3>2. TyI_szBasic(tyI)' = TyDict_sz(tyI.ty)'
      BY <2>1 DEF TyI_szBasic
    <3>. QED
      BY <1>1, <3>1, <3>2 DEF TyI_unsized
  <2>2. CASE tyI.refs # 0
    BY <2>2 DEF TyI_unsized
  <2>. QED
    BY <2>1, <2>2
<1>. QED
  BY <1>2, <1>3 DEF SumStep

LEMMA SummedKept ==
  ASSUME NEW i \in Nat \ {0}, NEW fields \in FieldList, Placed(fields, i - 1),
         structs'[i].fields = fields,
         \A h \in 1..(i - 1) : structs'[h].sz = structs[h].sz
  PROVE  /\ EndsUnsized(structs[i].fields)' = EndsUnsized(fields)
         /\ \A sz : Summed(fields, sz) => Summed(structs[i].fields, sz)'
<1>1. \A j \in 1..Len(fields) : fields[j].tyI \in TyI
  <2>1. \A j \in 1..Len(fields) : fields[j] \in [tyI : TyI, v : Nat]
    BY ElementOfSeq DEF FieldList
  <2>. QED
    BY <2>1
<1>2. i - 1 \in Nat
  OBVIOUS
<1>3. \A j \in 1..Len(fields) :
        /\ TyI_unsized(fields[j].tyI)' = TyI_unsized(fields[j].tyI)
        /\ \A s : SumStep(s, fields[j].tyI)' = SumStep(s, fields[j].tyI)
  BY <1>1, <1>2, StepKept DEF Placed
<1>4. EndsUnsized(structs[i].fields)' = EndsUnsized(fields)
  <2>1. CASE fields = << >>
    BY <2>1 DEF EndsUnsized
  <2>2. CASE fields # << >>
    <3>1. Len(fields) \in 1..Len(fields)
      BY <2>2 DEF FieldList
    <3>. QED
      BY <1>3, <3>1 DEF EndsUnsized
  <2>. QED
    BY <2>1, <2>2
<1>5. ASSUME NEW sz, Summed(fields, sz)
      PROVE  Summed(structs[i].fields, sz)'
  <2>1. PICK f : Sums(f, fields) /\ f[Len(fields)] = sz
    BY <1>5 DEF Summed
  <2>2. Sums(f, fields)'
    BY ONLY <1>3, <2>1 DEF Sums
  <2>. QED
    BY <2>1, <2>2 DEF Summed
<1>. QED
  BY <1>4, <1>5

(* One more field, behind those whose sizes are known.                     *)
LEMMA SummedAppend ==
  ASSUME NEW fields \in FieldList, NEW sz, Summed(fields, sz), NEW x,
         NEW new, new = Append(fields, x)
  PROVE  Summed(new, SumStep(sz, x.tyI))
<1>1. PICK m \in Nat : m = Len(fields)
  BY DEF FieldList
<1>2. PICK f : Sums(f, fields) /\ f[m] = sz
  BY <1>1 DEF Summed
<1>3. Len(new) = m + 1 /\ new[m + 1] = x /\ \A j \in 1..m : new[j] = fields[j]
  BY <1>1 DEF FieldList
<1>4. PICK e : e = SumStep(sz, x.tyI)
  OBVIOUS
<1>5. PICK g : g = [n \in 0..m + 1 |-> IF n = m + 1 THEN e ELSE f[n]]
  OBVIOUS
<1>6. DOMAIN g = 0..m + 1 /\ g[m + 1] = e /\ \A n \in 0..m : g[n] = f[n]
  BY <1>5
<1>7. g[0] = 0
  BY <1>2, <1>6 DEF Sums
<1>8. ASSUME NEW n \in 1..m + 1 PROVE g[n] = SumStep(g[n - 1], new[n].tyI)
  <2>1. CASE n = m + 1
    BY <1>2, <1>3, <1>4, <1>6, <2>1
  <2>2. CASE n # m + 1
    <3>1. n \in 1..m /\ n \in 0..m /\ n - 1 \in 0..m
      BY <2>2
    <3>. QED
      BY <1>1, <1>2, <1>3, <1>6, <3>1 DEF Sums
  <2>. QED
    BY <2>1, <2>2
<1>. QED
  BY <1>3, <1>4, <1>6, <1>7, <1>8 DEF Summed, Sums

(* A struct stays summed as long as it and the sizes before it stay.       *)
LEMMA SumsOfKept ==
  ASSUME LayoutInv, NEW i \in 1..Len(structs),
         structs'[i].fields = structs[i].fields,
         \A h \in 1..(i - 1) : structs'[h].sz = structs[h].sz
  PROVE  /\ EndsUnsized(structs[i].fields)' = EndsUnsized(structs[i].fields)
         /\ \A sz : Summed(structs[i].fields, sz) => Summed(structs[i].fields, sz)'
<1>1. structs[i].fields \in FieldList
  BY StructTypes DEF LayoutInv
<1>2. PICK fields \in FieldList : fields = structs[i].fields
  BY <1>1
<1>3. Placed(fields, i - 1)
  BY <1>2 DEF LayoutInv, StructsGood, Good
<1>4. i \in Nat \ {0} /\ structs'[i].fields = fields
  BY <1>2
<1>5. /\ EndsUnsized(structs[i].fields)' = EndsUnsized(fields)
      /\ \A sz : Summed(fields, sz) => Summed(structs[i].fields, sz)'
  BY ONLY <1>3, <1>4, \A h \in 1..(i - 1) : structs'[h].sz = structs[h].sz,
          fields \in FieldList, SummedKept
<1>. QED
  BY ONLY <1>2, <1>5

LEMMA SumsUnchanged ==
  ASSUME LayoutInv, NEW i \in 1..Len(structs), structs'[i] = structs[i],
         \A h \in 1..(i - 1) : structs'[h].sz = structs[h].sz,
         Summed(structs[i].fields, FinalSz(structs[i]))
  PROVE  /\ Summed(structs[i].fields, FinalSz(structs[i]))'
         /\ FinalSz(structs[i])' = FinalSz(structs[i])
<1>1. /\ EndsUnsized(structs[i].fields)' = EndsUnsized(structs[i].fields)
      /\ \A sz : Summed(structs[i].fields, sz) => Summed(structs[i].fields, sz)'
  BY SumsOfKept
<1>2. FinalSz(structs[i])' = FinalSz(structs[i])
  BY <1>1 DEF FinalSz
<1>3. PICK sz : sz = FinalSz(structs[i])
  OBVIOUS
<1>4. Summed(structs[i].fields, sz)'
  BY <1>1, <1>3
<1>. QED
  BY <1>2, <1>3, <1>4

(* When arrays keep to arrWords, _field adds as many bytes as              *)
(* Struct_computeSz does.                                                  *)
LEMMA SameStep ==
  ASSUME NEW tyI \in TyI, Known(tyI), ArrWords(tyI), NEW sz,
         ~TyI_unsized(tyI)
  PROVE  SumStep(sz, tyI) = Place(sz, varPre(tyI)) + Extent(tyI)
<1>1. tyI.arrLen \in Nat
  <2>1. tyI.arrLen # TY_UNSIZED
    BY KnownSizes
  <2>. QED
    BY <2>1, SizesAssumption DEF TyI
<1>2. /\ varPre(tyI).sz = TyI_szBasic(tyI)
      /\ alignment[TyI_sz(tyI)] = alignment[TyI_szBasic(tyI)]
  BY <1>1 DEF ArrWords
<1>3. Extent(tyI) = TyI_sz(tyI)
  <2>1. TyI_szBasic(tyI) \in Nat
    BY KnownSizes, SizesAssumption
  <2>2. Extent(tyI) = varPre(tyI).els * TyI_szBasic(tyI)
    BY <1>2 DEF Extent
  <2>3. varPre(tyI).els = IF tyI.arrLen = 0 THEN 1 ELSE tyI.arrLen
    BY DEF varPre
  <2>4. TyI_sz(tyI) = IF tyI.arrLen = 0 THEN TyI_szBasic(tyI)
                      ELSE TyI_szBasic(tyI) * tyI.arrLen
    BY <1>1, SizesAssumption DEF TyI_sz, TY_UNSIZED
  <2>. QED
    BY <1>1, <2>1, <2>2, <2>3, <2>4
<1>. QED
  BY <1>2, <1>3 DEF SumStep, Place

LEMMA SumsField ==
  ASSUME "arrWords" \in Rules, LayoutInv, SumsInv, NEW tyI \in TyI, _field(tyI)
  PROVE  SumsInv'
<1>. DEFINE len == Len(structs)
            v   == Place(Current.sz, varPre(tyI))
            fs  == Append(Current.fields, [tyI |-> tyI, v |-> v])
            new == [fields |-> fs, sz |-> v + Extent(tyI)]
<1>1. /\ open /\ Known(tyI) /\ ArrWords(tyI) /\ open' = open
      /\ structs' = [structs EXCEPT ![len] = new]
      /\ Current.fields # << >> => ~TyI_unsized(LastField.tyI)
  BY DEF _field, Current
<1>2. /\ len \in Nat /\ len \in 1..len /\ Current = structs[len]
      /\ structs \in Seq(Struct)
  BY <1>1, LenProperties DEF LayoutInv, LayoutTypeOK, OpenStruct, Current, Struct
<1>3. /\ Len(structs') = len /\ structs'[len] = new
      /\ \A i \in 1..len : i # len => structs'[i] = structs[i]
  <2>1. structs' \in Seq(Struct)
    BY FieldStep DEF LayoutInv, LayoutTypeOK, Struct
  <2>2. DOMAIN structs = 1..len /\ DOMAIN structs' = 1..Len(structs')
        /\ Len(structs') \in Nat
    BY <1>2, <2>1, LenProperties
  <2>. HIDE DEF new
  <2>3. DOMAIN structs' = DOMAIN structs
    BY <1>1
  <2>4. Len(structs') = len
    <3>1. PICK a \in Nat : a = Len(structs')
      BY ONLY <2>2
    <3>2. PICK n \in Nat \ {0} : n = len
      BY ONLY <1>2
    <3>3. \A j : j \in 1..a <=> j \in 1..n
      BY ONLY <2>2, <2>3, <3>1, <3>2
    <3>4. n \in 1..a
      BY ONLY <3>3, n \in Nat \ {0}
    <3>5. a \in 1..n
      BY ONLY <3>3, <3>4, a \in Nat, n \in Nat \ {0}
    <3>. QED
      BY ONLY <3>1, <3>2, <3>4, <3>5, a \in Nat, n \in Nat \ {0}
  <2>. QED
    BY <1>1, <1>2, <2>2, <2>4
<1>4. Current.fields \in FieldList /\ Current.sz \in Nat
  <2>1. Current.sz \in 0..MaxSz
    BY <1>1 DEF LayoutInv, OpenStruct
  <2>2. Current.fields \in FieldList
    BY <1>2, StructTypes DEF LayoutInv
  <2>. QED
    BY <2>1, <2>2, SizesAssumption
<1>5. ~EndsUnsized(Current.fields) /\ FinalSz(Current) = Current.sz
  BY <1>1 DEF EndsUnsized, FinalSz, LastField
<1>6. Summed(Current.fields, Current.sz)
  BY <1>2, <1>5 DEF SumsInv
<1>. HIDE DEF v
<1>7. PICK f \in FieldList : f = fs
  <2>1. v \in Nat
    BY <1>1, <1>4, PlaceIsAligned DEF v
  <2>. QED
    BY <1>4, <2>1, AppendProperties DEF FieldList
<1>8. Summed(f, SumStep(Current.sz, tyI))
  <2>1. PICK x : x = [tyI |-> tyI, v |-> v]
    OBVIOUS
  <2>2. f = Append(Current.fields, x) /\ x.tyI = tyI
    BY <1>7, <2>1
  <2>. QED
    BY <1>4, <1>6, <2>2, SummedAppend
<1>9. Below(tyI, len - 1)
  BY <1>2, FieldBelow
<1>10. Placed(f, len - 1)
  <2>1. Good(Current.fields, len - 1, Current.sz)
    <3>1. SizeOf(Current) = Current.sz
      BY <1>4 DEF SizeOf, TY_UNSIZED
    <3>. QED
      BY <1>2, <3>1 DEF LayoutInv, StructsGood
  <2>2. len - 1 \in Nat
    BY <1>2
  <2>. QED
    BY <1>1, <1>4, <1>7, <1>9, <2>1, <2>2, Appended DEF Good, v
<1>. HIDE DEF fs
<1>11. structs'[len].fields = f /\ structs'[len].sz = v + Extent(tyI)
  BY <1>3, <1>7
<1>12. \A h \in 1..(len - 1) : structs'[h].sz = structs[h].sz
  BY <1>2, <1>3
<1>13. PICK n \in Nat \ {0} : n = len
  BY <1>2
<1>14. PICK sz : sz = SumStep(Current.sz, tyI)
  OBVIOUS
<1>15. /\ EndsUnsized(structs[n].fields)' = EndsUnsized(f)
       /\ Summed(structs[n].fields, sz)'
  <2>1. structs'[n].fields = f /\ Placed(f, n - 1)
    BY <1>10, <1>11, <1>13
  <2>2. \A h \in 1..(n - 1) : structs'[h].sz = structs[h].sz
    BY <1>12, <1>13
  <2>3. /\ EndsUnsized(structs[n].fields)' = EndsUnsized(f)
        /\ \A z : Summed(f, z) => Summed(structs[n].fields, z)'
    BY ONLY <2>1, <2>2, n \in Nat \ {0}, f \in FieldList, SummedKept
  <2>. QED
    BY ONLY <1>8, <1>14, <2>3
<1>16. FinalSz(structs[n])' = sz
  <2>1. EndsUnsized(f) <=> TyI_unsized(tyI)
    <3>1. Len(f) = Len(Current.fields) + 1 /\ Len(Current.fields) \in Nat
          /\ f[Len(f)].tyI = tyI
      BY <1>4, <1>7 DEF fs, FieldList
    <3>. QED
      BY <3>1 DEF EndsUnsized
  <2>2. CASE TyI_unsized(tyI)
    <3>1. sz = TY_UNSIZED
      BY <1>14, <2>2 DEF SumStep
    <3>. QED
      BY ONLY <1>15, <2>1, <2>2, <3>1 DEF FinalSz, TY_UNSIZED
  <2>3. CASE ~TyI_unsized(tyI)
    <3>1. sz = v + Extent(tyI)
      BY <1>1, <1>14, <2>3, SameStep DEF v
    <3>2. structs'[n].sz = sz
      BY <1>11, <1>13, <3>1
    <3>. QED
      BY ONLY <1>15, <2>1, <2>3, <3>2 DEF FinalSz
  <2>. QED
    BY <2>2, <2>3
<1>17. Summed(structs[n].fields, FinalSz(structs[n]))'
  BY ONLY <1>15, <1>16
<1>18. ASSUME NEW i \in 1..Len(structs')
       PROVE  /\ Summed(structs[i].fields, FinalSz(structs[i]))'
              /\ (open' => i < Len(structs')) => FinalSz(structs[i])' = structs'[i].sz
  <2>1. CASE i # len
    <3>1. i \in 1..Len(structs) /\ structs'[i] = structs[i]
      BY <1>3, <2>1
    <3>2. \A h \in 1..(i - 1) : structs'[h].sz = structs[h].sz
      BY <1>2, <1>3, <2>1
    <3>3. /\ Summed(structs[i].fields, FinalSz(structs[i]))
          /\ i < len => FinalSz(structs[i]) = structs[i].sz
      BY <3>1 DEF SumsInv
    <3>. QED
      BY <1>1, <1>2, <1>3, <2>1, <3>1, <3>2, <3>3, SumsUnchanged
  <2>2. CASE i = len
    <3>1. i = n /\ ~(i < Len(structs'))
      BY <1>2, <1>3, <1>13, <2>2
    <3>2. open'
      BY ONLY <1>1
    <3>. QED
      BY ONLY <1>17, <3>1, <3>2
  <2>. QED
    BY <2>1, <2>2
<1>. QED
  BY <1>18 DEF SumsInv

LEMMA SumsStruct ==
  ASSUME LayoutInv, SumsInv, N_struct
  PROVE  SumsInv'
<1>. DEFINE len == Len(structs)
            new == [fields |-> << >>, sz |-> 0]
<1>1. structs \in Seq(Struct) /\ len \in Nat
  BY LenProperties DEF LayoutInv, LayoutTypeOK, Struct
<1>2. /\ Len(structs') = len + 1 /\ structs'[len + 1] = new
      /\ \A i \in 1..len : structs'[i] = structs[i]
      /\ ~open /\ open'
  BY <1>1 DEF N_struct
<1>3. ASSUME NEW i \in 1..Len(structs')
      PROVE  /\ Summed(structs[i].fields, FinalSz(structs[i]))'
             /\ (open' => i < Len(structs')) => FinalSz(structs[i])' = structs'[i].sz
  <2>1. CASE i # len + 1
    <3>1. i \in 1..Len(structs) /\ structs'[i] = structs[i]
      BY <1>1, <1>2, <2>1
    <3>2. \A h \in 1..(i - 1) : structs'[h].sz = structs[h].sz
      BY <1>1, <1>2, <3>1
    <3>3. /\ Summed(structs[i].fields, FinalSz(structs[i]))
          /\ FinalSz(structs[i]) = structs[i].sz
      BY <1>2, <3>1 DEF SumsInv
    <3>. QED
      BY <3>1, <3>2, <3>3, SumsUnchanged
  <2>2. CASE i = len + 1
    <3>1. structs'[i].fields = << >> /\ structs'[i].sz = 0
      BY <1>2, <2>2
    <3>2. FinalSz(structs[i])' = 0
      BY <3>1 DEF FinalSz, EndsUnsized
    <3>3. PICK f : f = [n \in 0..0 |-> 0]
      OBVIOUS
    <3>4. Sums(f, structs[i].fields)' /\ f[0] = 0 /\ Len(structs'[i].fields) = 0
      BY <3>1, <3>3 DEF Sums
    <3>5. Summed(structs[i].fields, FinalSz(structs[i]))'
      BY <3>2, <3>4 DEF Summed
    <3>. QED
      BY <1>1, <1>2, <2>2, <3>5
  <2>. QED
    BY <2>1, <2>2
<1>. QED
  BY <1>3 DEF SumsInv

LEMMA SumsClose ==
  ASSUME LayoutInv, SumsInv, _parseDataTy
  PROVE  SumsInv'
<1>. DEFINE len == Len(structs)
<1>1. structs \in Seq(Struct) /\ len \in Nat /\ len \in 1..len /\ open /\ ~open'
  BY LenProperties DEF _parseDataTy, LayoutInv, LayoutTypeOK, OpenStruct, Struct
<1>2. /\ Len(structs') = len
      /\ \A i \in 1..len : structs'[i].fields = structs[i].fields
      /\ \A i \in 1..len : i # len => structs'[i] = structs[i]
      /\ structs'[len].sz = FinalSz(structs[len])
  <2>1. EndsUnsized(structs[len].fields) <=>
          (Current.fields # << >> /\ TyI_unsized(LastField.tyI))
    BY DEF EndsUnsized, LastField, Current
  <2>2. CASE ~EndsUnsized(structs[len].fields)
    <3>1. structs' = structs
      BY <2>1, <2>2 DEF _parseDataTy
    <3>. QED
      BY <1>1, <2>2, <3>1 DEF FinalSz
  <2>3. CASE EndsUnsized(structs[len].fields)
    <3>. DEFINE new == [structs[len] EXCEPT !.sz = TY_UNSIZED]
    <3>1. structs' = [structs EXCEPT ![len] = new]
      BY <2>1, <2>3 DEF _parseDataTy
    <3>2. structs[len] \in Struct
      BY <1>1, ElementOfSeq
    <3>3. new \in Struct /\ new.fields = structs[len].fields /\ new.sz = TY_UNSIZED
      BY <3>2 DEF Struct
    <3>4. FinalSz(structs[len]) = TY_UNSIZED
      BY <2>3 DEF FinalSz
    <3>. HIDE DEF new
    <3>5. /\ Len(structs') = len
          /\ \A i \in 1..len : structs'[i] = IF i = len THEN new ELSE structs[i]
      BY <1>1, <3>1, <3>3, ExceptSeq
    <3>. QED
      BY <1>1, <3>3, <3>4, <3>5
  <2>. QED
    BY <2>2, <2>3
<1>3. ASSUME NEW i \in 1..Len(structs')
      PROVE  /\ Summed(structs[i].fields, FinalSz(structs[i]))'
             /\ FinalSz(structs[i])' = structs'[i].sz
  <2>1. CASE i # len
    <3>1. i \in 1..Len(structs) /\ structs'[i] = structs[i] /\ i < Len(structs)
      BY <1>1, <1>2, <2>1
    <3>2. \A h \in 1..(i - 1) : structs'[h].sz = structs[h].sz
      BY <1>1, <1>2, <2>1
    <3>3. /\ Summed(structs[i].fields, FinalSz(structs[i]))
          /\ FinalSz(structs[i]) = structs[i].sz
      BY <3>1 DEF SumsInv
    <3>. QED
      BY <3>1, <3>2, <3>3, SumsUnchanged
  <2>2. CASE i = len
    <3>1. i \in 1..Len(structs) /\ structs'[i].fields = structs[i].fields
      BY <1>1, <1>2, <2>2
    <3>2. \A h \in 1..(i - 1) : structs'[h].sz = structs[h].sz
      BY <1>1, <1>2, <2>2
    <3>3. /\ EndsUnsized(structs[i].fields)' = EndsUnsized(structs[i].fields)
          /\ \A sz : Summed(structs[i].fields, sz) => Summed(structs[i].fields, sz)'
      BY <3>1, <3>2, SumsOfKept
    <3>4. PICK sz : sz = FinalSz(structs[i])
      OBVIOUS
    <3>5. structs'[i].sz = sz
      BY <1>2, <2>2, <3>4
    <3>6. FinalSz(structs[i])' = sz
      BY <3>3, <3>4, <3>5 DEF FinalSz
    <3>7. Summed(structs[i].fields, sz)
      BY <3>1, <3>4 DEF SumsInv
    <3>8. Summed(structs[i].fields, sz)'
      BY <3>3, <3>7
    <3>. QED
      BY <3>5, <3>6, <3>8
  <2>. QED
    BY <2>1, <2>2
<1>. QED
  BY <1>3 DEF SumsInv

LEMMA SumsSame ==
  ASSUME LayoutInv, SumsInv, structs' = structs, open' = open
  PROVE  SumsInv'
<1>1. ASSUME NEW i \in 1..Len(structs')
      PROVE  /\ Summed(structs[i].fields, FinalSz(structs[i]))'
             /\ (open' => i < Len(structs')) => FinalSz(structs[i])' = structs'[i].sz
  <2>1. /\ Summed(structs[i].fields, FinalSz(structs[i]))
        /\ (open => i < Len(structs)) => FinalSz(structs[i]) = structs[i].sz
    BY DEF SumsInv
  <2>2. /\ Summed(structs[i].fields, FinalSz(structs[i]))'
        /\ FinalSz(structs[i])' = FinalSz(structs[i])
    BY <2>1, SumsUnchanged
  <2>. QED
    BY <2>1, <2>2
<1>. QED
  BY <1>1 DEF SumsInv

LEMMA SumsNext ==
  ASSUME "arrWords" \in Rules, LayoutInv, SumsInv, [LayoutNext]_layoutVars
  PROVE  SumsInv'
<1>1. CASE N_struct
  BY <1>1, SumsStruct
<1>2. CASE open /\ \E tyI \in FieldTyIs[Len(structs)] : _field(tyI)
  <2>1. PICK tyI \in FieldTyIs[Len(structs)] : _field(tyI)
    BY <1>2
  <2>2. tyI \in TyI
    BY <1>2, TyIsAssumption DEF LayoutInv, OpenStruct
  <2>. QED
    BY <2>1, <2>2, SumsField
<1>3. CASE _parseDataTy
  BY <1>3, SumsClose
<1>4. CASE \E tyI \in LocalTyIs : localImpl(tyI)
  <2>1. structs' = structs /\ open' = open
    BY <1>4 DEF localImpl
  <2>. QED
    BY <2>1, SumsSame
<1>5. CASE UNCHANGED layoutVars
  BY <1>5, SumsSame DEF layoutVars
<1>. QED
  BY <1>1, <1>2, <1>3, <1>4, <1>5 DEF LayoutNext

-----------------------------------------------------------------------------
(* Theorems.                                                               *)

LEMMA InvAlways == LayoutSpec => []LayoutInv
  BY InvInit, InvNext, PTL DEF LayoutSpec

(* The structs that are declared (_field, _parseDataTy) and the locals     *)
(* (localImpl) have the shape and the bounds of LayoutTypeOK; in           *)
(* particular no struct gets larger than MaxSz.                            *)
THEOREM LayoutTypeCorrect == LayoutSpec => []LayoutTypeOK
<1>1. LayoutInv => LayoutTypeOK
  BY DEF LayoutInv
<1>q. QED
  BY <1>1, InvAlways, PTL

(* No two fields that _field places in a struct share a byte, and none     *)
(* reaches past the size that the struct has for those that contain it.    *)
THEOREM StructFieldsDisjoint == LayoutSpec => []FieldsDisjoint
<1>1. LayoutInv => FieldsDisjoint
  BY DEF LayoutInv, StructsGood, Good, FieldsDisjoint, SizeOf
<1>q. QED
  BY <1>1, InvAlways, PTL

(* _field places each field at a multiple of the alignment of its size,    *)
(* padded elements of arrays included.                                     *)
THEOREM StructFieldsAligned == LayoutSpec => []FieldsAligned
<1>1. LayoutInv => FieldsAligned
  BY DEF LayoutInv, StructsGood, Good, FieldsAligned
<1>q. QED
  BY <1>1, InvAlways, PTL

(* The locals that localImpl places share no byte, are aligned, and lie in *)
(* the lSlots words that parseFn gives the function.                       *)
THEOREM FrameHoldsLocals == LayoutSpec => []LocalsInFrame
<1>1. LayoutInv => LocalsInFrame
  <2> SUFFICES ASSUME LayoutInv PROVE LocalsInFrame
    OBVIOUS
  <2> DEFINE m == lSlots * RSIZE
  <2>1. fnLocals \in Nat /\ locals \in FieldList
    BY DEF LayoutInv, LayoutTypeOK, FieldList
  <2>2. m \in Nat /\ fnLocals <= m
    BY <2>1, SizesAssumption DEF lSlots, align
  <2> HIDE DEF m
  <2>3. Good(locals, Len(structs), m)
    BY <2>1, <2>2, MoreBytes DEF LayoutInv, LocalsGood
  <2>q. QED
    BY <2>3 DEF Good, LocalsInFrame, m
<1>q. QED
  BY <1>1, InvAlways, PTL

(* The two ways to compute the size of a struct agree, so that the         *)
(* assertion at the end of _parseDataTy never fails, for structs within    *)
(* structs, arrays and unsized ends: as long as the sizes of elements and  *)
(* arrays keep to arrWords.                                                *)
THEOREM StructSizesAgree ==
  ASSUME "arrWords" \in Rules
  PROVE  LayoutSpec => []SizesAgree
<1>1. LayoutInit => SumsInv
  BY DEF LayoutInit, SumsInv
<1>2. LayoutInv /\ SumsInv /\ [LayoutNext]_layoutVars => SumsInv'
  BY SumsNext
<1>3. LayoutInv /\ SumsInv => SizesAgree
  <2>. SUFFICES ASSUME LayoutInv, SumsInv, NEW i \in 1..Len(structs),
                       open => i < Len(structs)
                PROVE  Struct_computeSz(structs[i].fields) = structs[i].sz
    BY DEF SizesAgree
  <2>2. structs[i].fields \in FieldList
    BY StructTypes DEF LayoutInv
  <2>3. Summed(structs[i].fields, structs[i].sz)
    BY DEF SumsInv
  <2>. QED
    BY <2>2, <2>3, SumsComputed
<1>. QED
  BY <1>1, <1>2, <1>3, InvAlways, PTL DEF LayoutSpec
=============================================================================
