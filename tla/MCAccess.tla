------------------------------ MODULE MCAccess ------------------------------
(***************************************************************************)
(* Small instances of Access.                                              *)
(***************************************************************************)
EXTENDS Access

NativeTy(sz) == [native |-> TRUE, id |-> sz]
StructTy(n)  == [native |-> FALSE, id |-> n]
Of(ty)       == [ty |-> ty, refs |-> 0, arrLen |-> 0]
Ref(tyI)     == [tyI EXCEPT !.refs = @ + 1]
Arr(n, tyI)  == [tyI EXCEPT !.arrLen = n]

U1 == Of(NativeTy(1))
U2 == Of(NativeTy(2))
U4 == Of(NativeTy(4))
A  == Of(StructTy(1))
B  == Of(StructTy(2))

MCArrLens == {0, 2, 64, TY_UNSIZED}

(* A value is aligned by its size, up to that of a reference.              *)
MCAlignment ==
  [sz \in 0..MaxSz |-> IF sz >= 4 THEN 4 ELSE IF sz >= 2 THEN 2 ELSE 1]

(* The first struct has natives, references to itself and arrays, the      *)
(* second one those of the first.                                          *)
MCFieldTyIs ==
  << {U1, U2, U4, Ref(A), Arr(TY_UNSIZED, U1)}, {U1, A, Ref(A), Arr(2, A)} >>

MCLocalTyIs == {U1, B, Ref(B), Ref(Ref(Ref(B)))}

AllRules == RuleNames

(* Inner structs and no references; and every struct may be fetched.       *)
MCFieldTyIsNested == << {U1, U4}, {U1, A} >>
NotPlainStruct    == RuleNames \ {"plainStruct"}
=============================================================================
