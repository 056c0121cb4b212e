-------------------------------- MODULE MCVm --------------------------------
(* Small instances of Vm: functions with no, one and two slots of locals.  *)
EXTENDS Vm

CONSTANTS v0, v1

MCFns    == {"main", "one", "two"}
MCLocals == [main |-> 0, one |-> 1, two |-> 2]
MCVals   == {v0, v1}
AllRules == RuleNames
=============================================================================
