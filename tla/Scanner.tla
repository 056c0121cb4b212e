------------------------------- MODULE Scanner -------------------------------
(***************************************************************************)
(* The scanner, and the handlers that drive it: how the characters of an   *)
(* input become tokens and strings, and what comments take out.            *)
(*                                                                         *)
(* The reader fills a ring with as many characters as it happens to get,   *)
(* and only when one is asked for that is not there yet.  A token is       *)
(* copied to the buffer `token' and stays in the ring until it is dropped, *)
(* so that a handler may look at it and leave it to the next one.  Strings *)
(* and comments take characters from the ring directly.                    *)
(***************************************************************************)
EXTENDS Integers, Sequences, SequencesExt, FiniteSets

CONSTANTS
  Char,       \* the characters of the inputs
  Texts,      \* the inputs of the session, sequences of characters
  Retyped,    \* those that may follow another one, a subset of them
  RingCap,    \* capacity of the ring of the source
  TokCap,     \* capacity of token
  Host,       \* who catches panics: "errCleanup" or "simpleRepl"
  Rules,      \* what the source keeps to and the compiler does not enforce
  MaxInputs   \* bound: the inputs of the session

(***************************************************************************)
(* Rules of the source program:                                            *)
(*   "newRepl"    after a panic inside of a commented block the user       *)
(*                leaves the repl                                          *)
(***************************************************************************)
RuleNames == {"newRepl"}

ASSUME CharAssumption   == Texts \subseteq Seq(Char) /\ Retyped \subseteq Texts
ASSUME CapAssumption    == RingCap \in Nat /\ TokCap \in 1..(RingCap - 1)
ASSUME HostAssumption   == Host \in {"errCleanup", "simpleRepl"}
ASSUME RulesAssumption  == Rules \subseteq RuleNames
ASSUME BoundsAssumption == MaxInputs \in Nat

(***************************************************************************)
(* Characters: the ones with a meaning to the scanner, and the letters.    *)
(* B, W, C and E stand for the words blk, while, ch and EXIT.              *)
(***************************************************************************)
White    == {" ", "nl"}
Single   == {"#", "|", ".", ":", "(", ")", "&", ";"}
Symbol   == {"+", "-", "\\"}

tokenGroup(c) == CASE c \in White  -> "white"
                   [] c \in Single -> "single"
                   [] c \in Symbol -> "symbol"
                   [] OTHER        -> "alnum"

VARIABLES
  text,    \* the input that is or was compiled last
  rest,    \* what the reader has not put into the ring yet
  eof,     \* the reader has seen the end
  ring, token, line,
  head,    \* history: how many characters have left the ring
  compFn,  \* "base", or "fslash" which drops what it should compile
  ctl,     \* the C functions that are active, the innermost last
  out,     \* history: what the input has been taken for
  phase,   \* "ready" for an input, "compile", or "left" at the end
  verdict, \* of the last input: "ok" or "panic"
  inputs   \* of the bound: those compiled, and those of one character

source == <<text, rest, eof>>
vars == <<source, ring, token, line, head, compFn, ctl, out, phase, verdict, inputs>>

(* An active function, and C locals: what it keeps of compFn, and          *)
(* ignoringWhite of parseSlc.                                              *)
Frame(at) == [at |-> at, cfn |-> compFn, white |-> TRUE]
Top       == ctl[Len(ctl)]
At(at)    == phase = "compile" /\ Top.at = at

Return    == ctl' = Front(ctl)
Goto(at)  == ctl' = [ctl EXCEPT ![Len(ctl)].at = at]

(* Goes on at `at' after a call of the function fn.                        *)
CallThen(at, fn) == ctl' = Append([ctl EXCEPT ![Len(ctl)].at = at], Frame(fn))

(* Mutant: the first of the characters is not counted.                     *)
incHead_uncounted(n) ==
  /\ head' = head + n
  /\ ring' = SubSeq(ring, n + 1, Len(ring))
  /\ line' = line + Cardinality({i \in 2..n : ring[i] = "nl"})

(* SrcRing_incHead. The ends of lines are counted as they leave the ring.  *)
incHead(n) ==
  /\ head' = head + n
  /\ ring' = SubSeq(ring, n + 1, Len(ring))
  /\ line' = line + Cardinality({i \in 1..n : ring[i] = "nl"})

Keep == UNCHANGED <<ring, line, head>>

(* Kern_eof                                                                *)
Eof == eof /\ ring = << >>

(* The character i places behind the head of the ring, if there is one, is *)
(* there, or the end of the input is known to come before it.              *)
Known(i) == i < Len(ring) \/ eof
None(i)  == eof /\ i >= Len(ring)
Get(i)   == ring[i + 1]

Init ==
  /\ text = << >> /\ rest = << >> /\ eof = FALSE /\ ring = << >> /\ token = << >>
  /\ line = 0 /\ head = 0 /\ compFn = "base" /\ ctl = << >> /\ out = << >>
  /\ phase = "ready" /\ verdict = "ok" /\ inputs = 0

-----------------------------------------------------------------------------
(* The host and the reader.                                                *)

(* compileRepl: the next input.  A source starts with an empty ring, or    *)
(* with the one that simpleRepl has cleared.                               *)
compileRepl(t) ==
  /\ inputs < MaxInputs /\ inputs' = inputs + 1
  /\ inputs > 0 => t \in Retyped
  /\ text' = t /\ rest' = t /\ eof' = FALSE /\ ring' = << >> /\ line' = 0 /\ head' = 0
  /\ out' = << >> /\ phase' = "compile" /\ ctl' = <<Frame("src")>>
  /\ UNCHANGED <<token, compFn, verdict>>

(* simpleRepl leaves at a line that says EXIT and nothing else, not even   *)
(* the end of line that getline keeps, and does not compile a line of one  *)
(* character: of that nothing is read, nor is replInfo.line set to 0.      *)
Exit(t) ==
  /\ phase' = "left"
  /\ UNCHANGED <<source, ring, token, line, head, compFn, ctl, out, verdict, inputs>>

Blank ==
  /\ inputs < MaxInputs /\ inputs' = inputs + 1
  /\ UNCHANGED <<source, ring, token, line, head, compFn, ctl, out, phase, verdict>>

Input(t) ==
  IF Host = "errCleanup" THEN compileRepl(t)
  ELSE CASE t = <<"E">> -> Exit(t)
         [] Len(t) = 1 /\ t # <<"E">> -> Blank
         [] OTHER       -> compileRepl(t)

(* Mutant: the ring is cleared, the token is not.                          *)
Panic_keep ==
  /\ ctl' = << >> /\ verdict' = "panic"
  /\ phase' = IF "newRepl" \in Rules /\ compFn # "base" THEN "left" ELSE "ready"
  /\ ring' = << >>
  /\ UNCHANGED <<source, token, line, head, compFn, out, inputs>>

(* A panic, caught by FNGI_EXPECT_ERR, which calls Kern_errCleanup, or by  *)
(* simpleRepl, which clears the ring and the token.                        *)
Panic ==
  /\ ctl' = << >> /\ verdict' = "panic"
  /\ phase' = IF "newRepl" \in Rules /\ compFn # "base" THEN "left" ELSE "ready"
  /\ IF Host = "errCleanup"
       THEN compFn' = "base" /\ UNCHANGED <<ring, token>>
       ELSE ring' = << >> /\ token' = << >> /\ UNCHANGED compFn
  /\ UNCHANGED <<source, line, head, out, inputs>>

(* Step: what the actions of the compiler leave alone.                     *)
Step == UNCHANGED <<source, phase, verdict, inputs>>

(* charNextEsc is active for N_ch or for parseSlc.                         *)
Chars == {"char", "charEscape", "string", "stringEscape"}

(* How far behind the head the active function looks.                      *)
Looks ==
  CASE Top.at \in {"raw", "N_fslash"} \union Chars -> {0}
    [] Top.at \in {"group", "scanLine"}                   -> {Len(token)}
    [] OTHER                                              -> {}

(* The reader is asked for more (external: civ's Reader_get and the files).*)
Read ==
  /\ phase = "compile" /\ \E i \in Looks : ~Known(i)
  /\ \/ /\ rest = << >> /\ eof' = TRUE /\ UNCHANGED <<rest, ring>>
     \/ \E n \in 1..Len(rest) :
          /\ Len(ring) + n <= RingCap
          /\ ring' = ring \o SubSeq(rest, 1, n)
          /\ rest' = SubSeq(rest, n + 1, Len(rest))
          /\ UNCHANGED eof
  /\ UNCHANGED <<text, token, line, head, compFn, ctl, out, phase, verdict, inputs>>

-----------------------------------------------------------------------------
(* The scanner.                                                            *)

tokenDrop == incHead(Len(token)) /\ token' = << >>

(* scanRaw, up to the first character of the token: skipWhitespace.        *)
scanRaw ==
  /\ At("raw") /\ Step /\ UNCHANGED <<compFn, out>>
  /\ \/ /\ token # << >> /\ Return /\ Keep /\ UNCHANGED token
     \/ /\ token = << >> /\ Known(0)
        /\ \/ None(0) /\ Return /\ Keep /\ UNCHANGED token
           \/ ~None(0) /\ Get(0) \in White /\ incHead(1) /\ UNCHANGED <<token, ctl>>
           \/ /\ ~None(0) /\ Get(0) \notin White
              /\ token' = <<Get(0)>> /\ Keep
              /\ IF Get(0) \in Single THEN Return ELSE Goto("group")

Grouped(i) == ~None(i) /\ tokenGroup(Get(i)) = tokenGroup(token[1])

(* The other characters of the token; ASSERT "Token too long".             *)
scanRaw_group ==
  LET i == Len(token) IN
  /\ At("group") /\ Known(i)
  /\ IF Grouped(i) /\ i = TokCap THEN Panic
     ELSE /\ IF Grouped(i) THEN token' = Append(token, Get(i)) /\ UNCHANGED ctl
                           ELSE Return /\ UNCHANGED token
          /\ Step /\ Keep /\ UNCHANGED <<compFn, out>>

(* scan: comments are executed when they are met.                          *)
scan ==
  /\ At("scan") /\ Step /\ Keep /\ CallThen("found", "raw")
  /\ UNCHANGED <<token, compFn, out>>

scan_found ==
  /\ At("found") /\ Step /\ UNCHANGED <<compFn, out>>
  /\ IF token = <<"\\">> THEN tokenDrop /\ CallThen("scan", "N_fslash")
                         ELSE Return /\ Keep /\ UNCHANGED token

N_fslash ==
  /\ At("N_fslash") /\ Known(0)
  /\ IF None(0) THEN Panic      \* "Comment: got EOF"
     ELSE /\ CASE Get(0) = "nl" -> Return
               [] Get(0) = " "  -> Goto("scanLine")
               [] OTHER         -> Goto("fslash")
          /\ Step /\ Keep /\ UNCHANGED <<token, compFn, out>>

(* scanLine and the tokenDrop after it; ASSERT "Line too long".            *)
scanLine ==
  LET i == Len(token)
      end == None(i) \/ Get(i) = "nl"
  IN  /\ At("scanLine") /\ Known(i)
      /\ IF ~end /\ i = TokCap THEN Panic
         ELSE /\ IF end THEN tokenDrop /\ Return
                        ELSE token' = Append(token, Get(i)) /\ Keep /\ UNCHANGED ctl
              /\ Step /\ UNCHANGED <<compFn, out>>

(* _N_fslash: compFn is replaced; its frame has what it was.               *)
_N_fslash ==
  /\ At("fslash") /\ compFn' = "fslash" /\ CallThen("commented", "raw")
  /\ Step /\ Keep /\ UNCHANGED <<token, out>>

(* Mutant: a token is dropped, also the one that opens a block.            *)
_N_fslash_token_drop ==
  /\ At("commented") /\ Step /\ UNCHANGED <<compFn, out>>
  /\ tokenDrop /\ Goto("restore")

_N_fslash_token ==
  /\ At("commented") /\ Step /\ UNCHANGED <<compFn, out>>
  /\ IF token = <<"(">> THEN Keep /\ UNCHANGED token /\ CallThen("restore", "single")
                        ELSE tokenDrop /\ Goto("restore")

_N_fslash_restore ==
  /\ At("restore") /\ compFn' = Top.cfn /\ Return
  /\ Step /\ Keep /\ UNCHANGED <<token, out>>

-----------------------------------------------------------------------------
(* The handlers of the compiler that read the source.                      *)

(* Kern_compFn: the function that is in compFn now.                        *)
compFnAt == IF compFn = "base" THEN "baseCompFn" ELSE "fslash"

compileSrc ==
  /\ At("src")
  /\ Step /\ Keep /\ CallThen("srcEof", compFnAt) /\ UNCHANGED <<token, compFn, out>>

compileSrc_eof ==
  /\ At("srcEof")
  /\ IF Eof THEN ctl' = << >> /\ phase' = "ready" /\ verdict' = "ok"
            ELSE Goto("src") /\ UNCHANGED <<phase, verdict>>
  /\ Keep /\ UNCHANGED <<source, token, compFn, out, inputs>>

baseCompFn ==
  /\ At("baseCompFn") /\ (IF Eof THEN Return ELSE Goto("single"))
  /\ Step /\ Keep /\ UNCHANGED <<token, compFn, out>>

single ==
  /\ At("single") /\ Step /\ Keep /\ CallThen("singleToken", "scan")
  /\ UNCHANGED <<token, compFn, out>>

(* Words that the dictionaries have: all but the ones that only handlers   *)
(* look for.                                                               *)
HasName(t) == t # <<")">> /\ t # <<"W">> /\ (Len(t) > 1 => t[1] # "\\")

singleToken ==
  /\ At("singleToken")
  /\ IF token # << >> /\ ~HasName(token) THEN Panic      \* "name not found"
     ELSE /\ Step /\ UNCHANGED compFn
          /\ tokenDrop
          /\ out' = IF token = << >> \/ token \in {<<"(">>, <<"|">>} THEN out
                    ELSE Append(out, token)
          /\ CASE token = <<"(">> -> Goto("paren")
               [] token = <<"|">> -> Goto("string")
               [] token = <<"B">> -> CallThen("blkBody", compFnAt)
               [] token = <<"C">> -> CallThen("ch", "scan")
               [] OTHER           -> Return

N_paren ==
  /\ At("paren") /\ Step /\ Keep /\ CallThen("parenToken", "scan")
  /\ UNCHANGED <<token, compFn, out>>

(* Mutant: without the ASSERT that the end is not reached.                 *)
N_paren_token_eof ==
  /\ At("parenToken")
  /\ \/ token = <<")">> /\ tokenDrop /\ Return
     \/ token # <<")">> /\ Keep /\ CallThen("paren", compFnAt) /\ UNCHANGED token
  /\ Step /\ UNCHANGED <<compFn, out>>

N_paren_token ==
  /\ At("parenToken")
  /\ IF token # <<")">> /\ Eof THEN Panic      \* "expected ')' but reached EOF"
     ELSE /\ \/ token = <<")">> /\ tokenDrop /\ Return
             \/ token # <<")">> /\ Keep /\ CallThen("paren", compFnAt) /\ UNCHANGED token
          /\ Step /\ UNCHANGED <<compFn, out>>

(* N_blk, its body compiled: it looks for a while, which has one token.    *)
N_blk ==
  /\ At("blkBody") /\ Step /\ Keep /\ CallThen("blkToken", "scan")
  /\ UNCHANGED <<token, compFn, out>>

N_blk_token ==
  /\ At("blkToken") /\ Step /\ UNCHANGED compFn
  /\ IF token = <<"W">>
       THEN tokenDrop /\ CallThen("blkEnd", compFnAt) /\ out' = Append(out, token)
       ELSE Keep /\ UNCHANGED <<token, out>> /\ Goto("blkEnd")

N_blk_end ==
  /\ At("blkEnd") /\ Return /\ out' = Append(out, <<"blk", "end">>)
  /\ Step /\ Keep /\ UNCHANGED <<token, compFn>>

(* N_ch: a colon, and the character that comes right after it.             *)
N_ch ==
  /\ At("ch")
  /\ IF token # <<":">> THEN Panic      \* "Expected ':'"
     ELSE tokenDrop /\ Goto("char") /\ Step /\ UNCHANGED <<compFn, out>>

(* parseSlc, after charNextEsc has returned c.  Blanks at the start of a   *)
(* line are left out.                                                      *)
parseSlc(c, unknownEsc) ==
  LET white == IF c \in {"|", " "} THEN Top.white ELSE c = "nl"
      Goon  == ctl' = [ctl EXCEPT ![Len(ctl)].at = "string", ![Len(ctl)].white = white]
  IN  CASE c = "|" /\ ~unknownEsc   -> Return /\ out' = Append(out, <<"|", "end">>)
        [] c = " " /\ Top.white     -> Goon /\ UNCHANGED out
        [] OTHER                    -> Goon /\ out' = Append(out, <<"|", c>>)

(* A character that charNextEsc returns to its caller, N_ch or parseSlc.   *)
Given(c, unknownEsc) ==
  IF Top.at \in {"char", "charEscape"} THEN Return /\ out' = Append(out, <<"C", c>>)
                 ELSE parseSlc(c, unknownEsc)

(* charNextEsc takes characters from the ring.                             *)
charNextEsc ==
  /\ (At("char") \/ At("string")) /\ Known(0)
  /\ IF None(0) THEN Panic      \* "expected character, got EOF"
     ELSE /\ incHead(1) /\ Step /\ UNCHANGED <<token, compFn>>
          /\ IF Get(0) # "\\" THEN Given(Get(0), FALSE)
             ELSE Goto(IF Top.at = "char" THEN "charEscape" ELSE "stringEscape") /\ UNCHANGED out

(* It knows the escapes of an end of line (here the letter n), of a tab    *)
(* and of a blank (and \x, which no input here has).  An escaped bar is     *)
(* unknown to it, and parseSlc's own.                                      *)
charNextEsc_escape ==
  /\ (At("charEscape") \/ At("stringEscape")) /\ Known(0)
  /\ IF None(0) \/ Get(0) \notin {"n", " "} \union (IF Top.at = "stringEscape" THEN {"|"} ELSE {})
       THEN Panic      \* "Unknown escape"
       ELSE /\ incHead(1) /\ Step /\ UNCHANGED <<token, compFn>>
            /\ Given(IF Get(0) = "n" THEN "nl" ELSE Get(0), Get(0) = "|")

Scan ==
  \/ scanRaw \/ scanRaw_group \/ scan \/ scan_found \/ N_fslash \/ scanLine
  \/ _N_fslash \/ _N_fslash_token \/ _N_fslash_restore

Handle ==
  \/ compileSrc \/ compileSrc_eof \/ baseCompFn \/ single \/ singleToken
  \/ N_paren \/ N_paren_token \/ N_blk \/ N_blk_token \/ N_blk_end
  \/ N_ch \/ charNextEsc \/ charNextEsc_escape

Next == (phase = "ready" /\ \E t \in Texts : Input(t)) \/ Read \/ Scan \/ Handle

(***************************************************************************)
(* One thread runs the compiler, and a read of the source returns: what    *)
(* can go on does.  Nothing makes the user type another input.             *)
(***************************************************************************)
Spec == Init /\ [][Next]_vars /\ WF_vars(Read \/ Scan \/ Handle)
=============================================================================
