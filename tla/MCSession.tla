------------------------------ MODULE MCSession ------------------------------
(* Small instances of Session: two mods to use.                            *)
EXTENDS Session

CONSTANTS d0, d1

MCDicts  == {d0, d1}
AllRules == RuleNames
=============================================================================
