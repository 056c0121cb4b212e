------------------------------ MODULE MCScanner ------------------------------
(* Small instances of Scanner.  Lines are as getline returns them: all     *)
(* strings of up to Longest characters with an end of line, some longer    *)
(* ones for the depth of the nesting, and some that are cut off.           *)
EXTENDS ScannerMeaning

CONSTANT Longest

MCChar == {" ", "nl", "a", "n", "+", "\\", "(", ")", "|", ":", "B", "W", "C", "E"}

Letters == {" ", "nl", "a", "\\", "(", ")", "|", "B", "W", "C", ":"}

Lines == UNION {[1..n -> Letters] : n \in 0..Longest}

Selected ==
  {<<"\\", "(", "a", "(", "a", ")", "\\", " ", ")", "nl", ")", "a">>,
   <<"a", "\\", "(", "\\", ")", "B", ")", "W">>,
   <<"\\", " ", "+", "(", "nl", "+", " ", "+">>,
   <<"\\", "nl", "n", "a", ":", "\\", "nl", "+">>,
   <<"C", ":", " ", "C", "\\", "a", " ", ":", "\\", "n", "C", " ", ":", "nl">>,
   <<"|", " ", "a", " ", "\\", "|", "\\", "n", " ", "nl", " ", "\\", " ", "+", "|">>,
   <<"(", "B", "(", "a", " ", "|", ")", "|", ")", "\\", "(", "W", ")", "W", "+", ")", "a">>,
   <<"\\", "a", "n">>, <<"\\", "+", " ", "a">>, <<"+", "\\", "a">>, <<"a", "n", "a", "n">>,
   <<"\\", "(", "a", "a", "a">>, <<"\\", " ", "a", "a", "a">>, <<"C", ":", "\\", "a">>}

(* The last line of the input need not end.                                *)
LastLines == {t \in Lines : Len(t) = 2} \union {<<"E">>, <<"C", ":", "\\">>, <<"|", "a", "\\">>}

MCTexts   == {Append(t, "nl") : t \in Lines \union Selected \union {<<"E">>}} \union LastLines
MCRetyped == {Append(t, "nl") : t \in {<<"a">>, <<"\\", "a", "n">>, <<"|", "a", "|">>}}

AllRules == RuleNames
=============================================================================
