------------------------------- MODULE Layout -------------------------------
(***************************************************************************)
(* Where the fields of structs and the local variables of a function are.  *)
(*                                                                         *)
(* `struct' adds one field after the other (_field); afterwards it sums    *)
(* the sizes up a second time and asserts that both ways agree             *)
(* (Struct_computeSz).  `var' gives the next local its offset (localImpl). *)
(* A struct is not padded at its end, so that a field of a struct's type   *)
(* may be followed directly; the elements of an array are padded.          *)
(***************************************************************************)
EXTENDS Integers, Sequences

CONSTANTS
  RSIZE,        \* the size of a reference
  Natives,      \* the sizes of the native types
  MaxSz,        \* bound: of a struct or of an array
  alignment,    \* the alignment of a value of a size (civ)
  MaxRefs,      \* the depth of references (TY_REFS)
  ArrLens,      \* the lengths that an array is given
  FieldTyIs,    \* what the n-th struct has for fields: a set for each n
  LocalTyIs,    \* the types of the local variables
  Rules,        \* what the source keeps to and the compiler does not enforce
  MaxFields,    \* bound: the fields of a struct
  MaxLocals     \* bound: the variables of the function

(***************************************************************************)
(* Rules of the source program:                                            *)
(*   "arrWords"  the elements of an array have a size that is aligned for  *)
(*               whatever size the whole array has                         *)
(* Access.tla adds the rules for accesses.                                 *)
(***************************************************************************)
TY_UNSIZED == -1

(* A type is a native, named by its size, or a struct, by its place in the *)
(* sequence structs.                                                       *)
Ty == [native : {TRUE}, id : Natives] \cup [native : {FALSE}, id : Nat]
TyI == [ty : Ty, refs : 0..MaxRefs, arrLen : ArrLens]

ASSUME SizesAssumption ==
  /\ RSIZE = 4
  /\ MaxSz \in Nat /\ Natives \subseteq 1..MaxSz /\ RSIZE <= MaxSz
  /\ MaxRefs \in Nat
  /\ ArrLens \subseteq Nat \cup {TY_UNSIZED}

ASSUME AlignmentAssumption ==
  /\ alignment \in [0..MaxSz -> {1, 2, 4}]
  /\ \A m, n \in 0..MaxSz : m <= n => alignment[m] <= alignment[n]

ASSUME TyIsAssumption ==
  /\ FieldTyIs \in Seq(SUBSET TyI) /\ LocalTyIs \subseteq TyI

ASSUME LayoutBoundsAssumption == MaxFields \in Nat /\ MaxLocals \in Nat

VARIABLES
  structs,   \* the structs [fields, sz], the last one perhaps unfinished
  open,      \* the last struct is still being declared
  locals,    \* the local variables
  fnLocals   \* the size of the locals so far

layoutVars == <<structs, open, locals, fnLocals>>

-----------------------------------------------------------------------------
(* Sizes.                                                                  *)

align(p, a) == ((p + a - 1) \div a) * a

TyDict_sz(ty) == IF ty.native THEN ty.id ELSE structs[ty.id].sz

TyI_szBasic(tyI) == IF tyI.refs > 0 THEN RSIZE ELSE TyDict_sz(tyI.ty)

TyI_sz(tyI) ==
  CASE tyI.arrLen = TY_UNSIZED -> TY_UNSIZED
    [] tyI.arrLen = 0          -> TyI_szBasic(tyI)
    [] OTHER                   -> TyI_szBasic(tyI) * tyI.arrLen

(* A struct is unsized when its last field is.  That field is an array, as *)
(* varPre refuses a value of an unsized struct.                            *)
TyI_unsized(tyI) ==
  /\ tyI.refs = 0
  /\ tyI.arrLen = TY_UNSIZED \/ TyDict_sz(tyI.ty) = TY_UNSIZED

(* What varPre computes: the size of an element, padded in an array (also  *)
(* in one of unknown length, whose arrLen is the largest number), and the  *)
(* number of elements.                                                     *)
varPre(tyI) ==
  LET sz == TyI_szBasic(tyI)
  IN  [sz  |-> IF tyI.arrLen \in {0, 1} THEN sz ELSE align(sz, alignment[sz]),
       els |-> IF tyI.arrLen = 0 THEN 1 ELSE tyI.arrLen]

(* The types that varPre accepts: known ones, of a size.  A struct without *)
(* fields is known but only for references (TyI_unsized reads its last     *)
(* field), and no reference is to an array of unknown length: its place    *)
(* would be that of TY_UNSIZED references.                                 *)
Known(tyI) ==
  /\ ~tyI.ty.native => /\ tyI.ty.id \in 1..Len(structs)
                       /\ tyI.refs = 0 => structs[tyI.ty.id].fields # << >>
  /\ tyI.refs > 0 => tyI.arrLen # TY_UNSIZED
  /\ TyI_szBasic(tyI) \in 0..MaxSz
  /\ varPre(tyI).sz <= MaxSz

(* Rule arrWords.                                                          *)
ArrWords(tyI) ==
  tyI.arrLen \in Nat =>
    /\ varPre(tyI).sz = TyI_szBasic(tyI)
    /\ TyI_sz(tyI) <= MaxSz
    /\ alignment[TyI_sz(tyI)] = alignment[TyI_szBasic(tyI)]

-----------------------------------------------------------------------------
LayoutInit ==
  structs = << >> /\ open = FALSE /\ locals = << >> /\ fnLocals = 0

Current == structs[Len(structs)]

(* The last field that was added.                                          *)
LastField == Current.fields[Len(Current.fields)]

(* struct Name [                                                           *)
N_struct ==
  /\ ~open /\ locals = << >> /\ Len(structs) < Len(FieldTyIs)
  /\ structs' = Append(structs, [fields |-> << >>, sz |-> 0])
  /\ open' = TRUE
  /\ UNCHANGED <<locals, fnLocals>>

(* Mutant: the end of the last field is not aligned for the next one.      *)
Place_packed(sz, pre) == sz

(* Where the next value goes, after sz bytes.                              *)
Place(sz, pre) == align(sz, alignment[pre.sz])

(* Mutant: an array takes the place of one element.                        *)
Extent_one(tyI) == varPre(tyI).sz

(* The bytes of a value; of an array of unknown length, none is known but  *)
(* the first element's place is kept.                                      *)
Extent(tyI) ==
  LET pre == varPre(tyI)
  IN  IF TyI_unsized(tyI) THEN pre.sz ELSE pre.els * pre.sz

(* A field.  One to the struct itself must be a reference, and none comes  *)
(* after an unsized one.                                                   *)
_field(tyI) ==
  LET v == Place(Current.sz, varPre(tyI))
  IN  /\ open /\ Len(Current.fields) < MaxFields
      /\ Current.fields # << >> => ~TyI_unsized(LastField.tyI)
      /\ Known(tyI) /\ ("arrWords" \in Rules => ArrWords(tyI))
      /\ tyI.ty = [native |-> FALSE, id |-> Len(structs)] => tyI.refs > 0
      /\ v + Extent(tyI) <= MaxSz
      /\ structs' = [structs EXCEPT ![Len(structs)] =
           [fields |-> Append(@.fields, [tyI |-> tyI, v |-> v]),
            sz     |-> v + Extent(tyI)]]
      /\ UNCHANGED <<open, locals, fnLocals>>

(* Mutant: sums up without aligning.                                       *)
Struct_computeSz_packed(fields) ==
  LET sum[n \in 0..Len(fields)] ==
        IF n = 0 THEN 0 ELSE sum[n - 1] + TyI_sz(fields[n].tyI)
  IN  sum[Len(fields)]

(* Struct_computeSz: the sizes of the first n fields summed up, each array *)
(* aligned as a whole.                                                     *)
Struct_computeSz(fields) ==
  LET sum[n \in 0..Len(fields)] ==
        IF n = 0 THEN 0
        ELSE LET tyI == fields[n].tyI
             IN  IF TyI_unsized(tyI) THEN TY_UNSIZED
                 ELSE align(sum[n - 1], alignment[TyI_sz(tyI)]) + TyI_sz(tyI)
  IN  sum[Len(fields)]

(* ] at the end of a struct, which may now be used.                        *)
_parseDataTy ==
  /\ open
  /\ open' = FALSE
  /\ structs' = IF Current.fields # << >> /\ TyI_unsized(LastField.tyI)
                THEN [structs EXCEPT ![Len(structs)].sz = TY_UNSIZED]
                ELSE structs
  /\ UNCHANGED <<locals, fnLocals>>

(* Mutant: a local directly follows the one before.                        *)
localImpl_packed(tyI) ==
  LET pre == varPre(tyI)
  IN  /\ ~open /\ Len(locals) < MaxLocals
      /\ Known(tyI) /\ ~TyI_unsized(tyI)
      /\ locals' = Append(locals, [tyI |-> tyI, v |-> fnLocals])
      /\ fnLocals' = fnLocals + pre.els * pre.sz
      /\ UNCHANGED <<structs, open>>

(* var x: tyI, in a function: the locals start at the top of the return    *)
(* stack.  An unsized local is refused.                                    *)
localImpl(tyI) ==
  LET pre == varPre(tyI)
      v   == Place(fnLocals, pre)
  IN  /\ ~open /\ Len(locals) < MaxLocals
      /\ Known(tyI) /\ ~TyI_unsized(tyI)
      /\ locals' = Append(locals, [tyI |-> tyI, v |-> v])
      /\ fnLocals' = v + pre.els * pre.sz
      /\ UNCHANGED <<structs, open>>

(* Mutant: bytes that do not fill a word are not counted.                  *)
lSlots_floor == fnLocals \div RSIZE

(* The words that the function takes on the return stack.                  *)
lSlots == align(fnLocals, RSIZE) \div RSIZE

LayoutNext ==
  \/ N_struct
  \/ open /\ \E tyI \in FieldTyIs[Len(structs)] : _field(tyI)
  \/ _parseDataTy
  \/ \E tyI \in LocalTyIs : localImpl(tyI)

LayoutSpec == LayoutInit /\ [][LayoutNext]_layoutVars

-----------------------------------------------------------------------------
(* Properties.                                                             *)

(* A sequence of fields or of locals [tyI, v].                             *)
Vars == Seq([tyI : TyI, v : 0..MaxSz])

LayoutTypeOK ==
  /\ structs \in Seq([fields : Vars, sz : 0..MaxSz \cup {TY_UNSIZED}])
  /\ open \in BOOLEAN
  /\ locals \in Seq([tyI : TyI, v : Nat])
  /\ fnLocals \in Nat

(* The bytes from the start of a value to the end of its last element.     *)
Bytes(tyI) ==
  IF tyI.arrLen \in {0, TY_UNSIZED} THEN TyI_szBasic(tyI)
  ELSE (tyI.arrLen - 1) * varPre(tyI).sz + TyI_szBasic(tyI)

(* The values of a sequence are one after the other and end before sz.     *)
Disjoint(fields, sz) ==
  /\ \A j, k \in 1..Len(fields) :
       j < k => fields[j].v + Bytes(fields[j].tyI) <= fields[k].v
  /\ \A j \in 1..Len(fields) : fields[j].v + Bytes(fields[j].tyI) <= sz

Aligned(fields) ==
  \A j \in 1..Len(fields) :
    fields[j].v % alignment[TyI_szBasic(fields[j].tyI)] = 0

(* No two fields of a struct share a byte, nor does a field reach into what*)
(* follows the struct, although a struct is not padded.  (The size of an   *)
(* unsized struct is not used.)                                            *)
FieldsDisjoint ==
  \A i \in 1..Len(structs) :
    LET st == structs[i]
    IN  Disjoint(st.fields, IF st.sz = TY_UNSIZED THEN MaxSz ELSE st.sz)

(* Every field is at an offset that its size may be fetched from.          *)
FieldsAligned == \A i \in 1..Len(structs) : Aligned(structs[i].fields)

(* The locals of a function share no byte, and all are in the words that   *)
(* xImpl takes from the return stack.                                      *)
LocalsInFrame == Disjoint(locals, lSlots * RSIZE) /\ Aligned(locals)

(* The assertion at the end of _parseDataTy.                               *)
SizesAgree ==
  \A i \in 1..Len(structs) :
    (open => i < Len(structs)) =>
      Struct_computeSz(structs[i].fields) = structs[i].sz
=============================================================================
