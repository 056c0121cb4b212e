------------------------------- MODULE MCInstr -------------------------------
(* A small instance of Instr: a struct with a struct in it, functions that *)
(* fetch a field of it, and literals around the limits of a size.          *)
EXTENDS Instr

MCSize == [U1 |-> 1, U2 |-> 2, U4 |-> 4, E |-> 4, D |-> 12]

MCField ==
  [U1 |-> {}, U2 |-> {}, U4 |-> {},
   E |-> {[off |-> 0, ty |-> "U1"], [off |-> 2, ty |-> "U2"]},
   D |-> {[off |-> 4, ty |-> "E"],  [off |-> 8, ty |-> "U4"]}]

MCGlobal == [g |-> "D", h |-> "E"]
MCRefVar == [r |-> "g"]

MCFunction == [e |-> [self |-> "E", off |-> 2, ty |-> "U2"],
               i |-> [self |-> "E", off |-> 0, ty |-> "U1"]]
MCInline   == {"i"}

MCValues ==
  <<"g", 4>> :> <<0>> @@ <<"g", 6>> :> <<63>> @@ <<"g", 8>> :> <<1000>>
  @@ <<"h", 0>> :> <<5>> @@ <<"h", 2>> :> <<40>>

MCLits == {0, 4, 8, 64}

AllRules == RuleNames
=============================================================================
