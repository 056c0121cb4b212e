------------------------------- MODULE MCFlow -------------------------------
(***************************************************************************)
(* Small instances of Flow.  Two types: S, and U1, which is accepted as S. *)
(***************************************************************************)
EXTENDS Flow

CONSTANTS U1

MCTypes   == {U1, S}
MCAccepts == {<<U1, U1>>, <<S, S>>, <<S, U1>>}

(* A literal, a conversion to a larger type, and a drop of a small value.  *)
MCSigs ==
  { [inp |-> << >>, out |-> <<U1>>],
    [inp |-> <<S>>, out |-> <<S, S>>],
    [inp |-> <<U1>>, out |-> << >>] }

MCFnSigs ==
  { [stk |-> << >>, loc |-> << >>, out |-> << >>],
    [stk |-> << >>, loc |-> <<U1>>, out |-> << >>],
    [stk |-> <<S>>, loc |-> <<U1>>, out |-> <<S>>] }

AllRules == RuleNames
=============================================================================
