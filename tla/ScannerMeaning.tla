--------------------------- MODULE ScannerMeaning ---------------------------
(***************************************************************************)
(* What an input means, read off its characters by their positions: no     *)
(* ring, no token buffer, no function that is called back.  Scanner has to *)
(* come to the same, however the reader cuts the input into pieces.        *)
(***************************************************************************)
EXTENDS Scanner, FiniteSetsExt

(* Positions run to Len(t) + 1, the end; 0 stands for a panic.             *)
Positions(t) == 0..(Len(t) + 1)

WordEnd(t, i) ==
  IF t[i] \in Single THEN i
  ELSE Max({j \in i..Len(t) : \A k \in i..j : tokenGroup(t[k]) = tokenGroup(t[i])})

Word(t, i) == SubSeq(t, i, WordEnd(t, i))

First(t, i, set) == Min({j \in i..Len(t) : t[j] \in set} \union {Len(t) + 1})

(***************************************************************************)
(* Where what is commented out ends: Skip(t)["element"][i], a word or a    *)
(* block at i; ["block"][i], a block open at i; ["comment"][i], a comment  *)
(* that has had its mark.  ["word"][i] is the first word that is none of   *)
(* them.                                                                   *)
(***************************************************************************)
SkipWord(t, f, i) ==
  LET n == First(t, i, Char \ White)
  IN  IF n > Len(t) THEN n
      ELSE IF Len(Word(t, n)) > TokCap THEN 0
      ELSE IF Word(t, n) = <<"\\">> THEN f["word"][f["comment"][n + 1]]
      ELSE n

SkipComment(t, f, i) ==
  LET eol == First(t, i, {"nl"})
  IN  IF i > Len(t) THEN 0
      ELSE CASE t[i] = "nl" -> i
             [] t[i] = " "  -> IF eol - i > TokCap THEN 0 ELSE eol
             [] OTHER       -> f["element"][i]

SkipElement(t, f, i) ==
  IF i > Len(t) THEN i
  ELSE IF Len(Word(t, i)) > TokCap THEN 0
  ELSE IF t[i] = "(" THEN f["block"][i + 1]
  ELSE WordEnd(t, i) + 1

SkipBlock(t, f, i) ==
  LET w == f["word"][i]
  IN  IF w \in {0, Len(t) + 1} THEN 0
      ELSE IF t[w] = ")" THEN w + 1
      ELSE f["block"][f["element"][w]]

SkipAt(t, f, what, i) ==
  IF i = 0 THEN 0
  ELSE CASE what = "word"    -> SkipWord(t, f, i)
         [] what = "comment" -> SkipComment(t, f, i)
         [] what = "element" -> SkipElement(t, f, i)
         [] what = "block"   -> SkipBlock(t, f, i)

Commented == {"word", "comment", "element", "block"}

Skip(t) ==
  LET f[what \in Commented] == [i \in Positions(t) |-> SkipAt(t, f, what, i)]
  IN  f

NextWord(t, i) == Skip(t)["word"][i]

(* The character or the escape at i, and where it ends; `set': the escapes.*)
Escape(t, i, set) ==
  IF i > Len(t) \/ (t[i] = "\\" /\ (i = Len(t) \/ t[i + 1] \notin set))
    THEN [c |-> "nl", next |-> 0]
  ELSE IF t[i] = "\\"
    THEN [c |-> IF t[i + 1] = "n" THEN "nl" ELSE t[i + 1], next |-> i + 2]
  ELSE [c |-> t[i], next |-> i + 1]

(* What is compiled, up to a panic or up to `next'.                        *)
Items(o, next)   == [out |-> o, next |-> next]
Then(o, rest_)   == Items(o \o rest_.out, rest_.next)

(***************************************************************************)
(* What is compiled from i on: Compiles(t)["token"][i], for one token and  *)
(* what it takes; ["block"][i], up to the parenthesis that closes;         *)
(* ["all"][i], to the end; ["blank"][i] and ["string"][i], the rest of a   *)
(* string.  A blk has a body, and may have a while with another one; a ch  *)
(* has a colon and a character.                                            *)
(***************************************************************************)
While(t, f, i) ==
  LET m == NextWord(t, i)
  IN  IF m \notin {0, Len(t) + 1} /\ Word(t, m) = <<"W">>
        THEN Then(<< <<"W">> >>, f["token"][m + 1])
        ELSE Items(<< >>, m)

Ended(a) == IF a.next = 0 THEN a ELSE Then(a.out, Items(<< <<"blk", "end">> >>, a.next))

Blk(t, f, i) ==
  LET body == f["token"][i]
  IN  Then(<< <<"B">> >> \o body.out, Ended(While(t, f, body.next)))

Ch(t, i) ==
  LET n == NextWord(t, i)
      e == Escape(t, n + 1, {"n", " "})
  IN  IF n \in {0, Len(t) + 1} \/ t[n] # ":" \/ e.next = 0 THEN Items(<< <<"C">> >>, 0)
                                                           ELSE Items(<< <<"C">>, <<"C", e.c>> >>, e.next)

TokenMeant(t, f, i) ==
  LET n == NextWord(t, i)
      w == Word(t, n)
  IN  IF n \in {0, Len(t) + 1} THEN Items(<< >>, n)
      ELSE CASE w = <<"(">> -> f["block"][n + 1]
             [] w = <<"|">> -> f["blank"][n + 1]
             [] w = <<"B">> -> Blk(t, f, n + 1)
             [] w = <<"C">> -> Ch(t, n + 1)
             [] OTHER       -> IF HasName(w) THEN Items(<<w>>, n + Len(w)) ELSE Items(<< >>, 0)

BlockMeant(t, f, i) ==
  LET n   == NextWord(t, i)
      one == f["token"][i]
  IN  IF n \in {0, Len(t) + 1} THEN Items(<< >>, 0)
      ELSE IF t[n] = ")" THEN Items(<< >>, n + 1)
      ELSE Then(one.out, f["block"][one.next])

AllMeant(t, f, i) ==
  LET one == f["token"][i]
  IN  IF i > Len(t) THEN Items(<< >>, i) ELSE Then(one.out, f["all"][one.next])

StringMeant(t, f, what, i) ==
  LET e     == Escape(t, i, {"n", " ", "|"})
      white == IF e.c \in {"|", " "} THEN what ELSE IF e.c = "nl" THEN "blank" ELSE "string"
      item  == IF e.c = " " /\ what = "blank" THEN << >> ELSE << <<"|", e.c>> >>
  IN  IF e.next = 0 THEN Items(<< >>, 0)
      ELSE IF t[i] = "|" THEN Items(<< <<"|", "end">> >>, e.next)
      ELSE Then(item, f[white][e.next])

MeantAt(t, f, what, i) ==
  IF i = 0 THEN Items(<< >>, 0)
  ELSE CASE what = "token" -> TokenMeant(t, f, i)
         [] what = "block" -> BlockMeant(t, f, i)
         [] what = "all"   -> AllMeant(t, f, i)
         [] OTHER          -> StringMeant(t, f, what, i)

Meant == {"token", "block", "all", "blank", "string"}

Compiles(t) ==
  LET f[what \in Meant] == [i \in Positions(t) |-> MeantAt(t, f, what, i)]
  IN  f

Compiled(t) == Compiles(t)["all"][1]

Meaning(t) ==
  [out |-> Compiled(t).out, verdict |-> IF Compiled(t).next = 0 THEN "panic" ELSE "ok"]

-----------------------------------------------------------------------------
(* Every input is taken for what it means, its own panic included: it does *)
(* not matter how many characters the reader had at a time, what was       *)
(* looked at and left for another handler, and what earlier inputs left    *)
(* behind in the token, the ring and compFn when they panicked.            *)
TakenForItsMeaning ==
  /\ phase = "compile" => IsPrefix(out, Meaning(text).out)
  /\ phase # "compile" => out = Meaning(text).out /\ verdict = Meaning(text).verdict

(* The token is the text at the head of the ring as long as it is not      *)
(* dropped, so that tokenDrop takes exactly its characters from the ring,  *)
(* and nothing is scanned past a token that nobody has dropped.            *)
TokenInRing == phase = "compile" => IsPrefix(token, ring)

(* The line of the FileInfo, which errors and Ty_newTyKey report, is that  *)
(* of the head: every end of line is counted once, wherever it was passed. *)
LineOfHead ==
  line = Cardinality({i \in 1..head : text[i] = "nl"})

(* Every input comes to an end, also one that ends in the middle of a      *)
(* block, a comment, a string or an escape.                                *)
EveryInputEnds == (phase = "compile") ~> (phase # "compile")
=============================================================================
