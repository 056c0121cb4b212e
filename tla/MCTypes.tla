------------------------------- MODULE MCTypes -------------------------------
(* A small instance of Types: a struct P and its child C, which has a      *)
(* reference of its own, two ops, and globals that are structs, references *)
(* to references, and a role that is declared only when it gets a value.   *)
EXTENDS Types

MCStruct == {"P", "C"}

MCFields ==
  [P |-> <<[name |-> "x", ty |-> T(0, "U4")], [name |-> "y", ty |-> T(0, "U1")]>>,
   C |-> <<[name |-> "parent", ty |-> T(0, "P")], [name |-> "w", ty |-> T(1, "C")]>>]

Put == [inp |-> <<T(1, "P")>>, out |-> <<rSelf>>]
Eq  == [inp |-> <<rSelf>>, out |-> << >>]

MCOp == [put |-> Put, eq |-> Eq]

MCMethod ==
  <<"P", "put">> :> Put @@ <<"C", "put">> :> Put @@ <<"C", "take">> :> Put @@ <<"P", "eq">> :> Eq

MCFn == [f |-> [inp |-> <<T(1, "U4")>>, out |-> << >>]]

MCGlobal ==
  [p |-> T(0, "P"), c |-> T(0, "C"), q |-> T(1, "P"), ww |-> T(2, "P"),
   r |-> T(0, "R")]

MCValues ==
  [p |-> <<num, num>>, c |-> <<num, num, ref("c", 0)>>, q |-> <<ref("p", 0)>>,
   ww |-> <<ref("q", 0)>>, r |-> << >>]

AllRules     == RuleNames
LateMethods  == RuleNames \ {"noLateMeth"}
=============================================================================
