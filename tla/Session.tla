------------------------------- MODULE Session -------------------------------
(***************************************************************************)
(* A session with the compiler: inputs that it compiles and runs one after *)
(* the other, and the panics that abandon them.                            *)
(*                                                                         *)
(* A token's handler saves part of the compiler's context in C locals,     *)
(* changes it, compiles the tokens inside and puts it back.  The handlers  *)
(* that wait are the stack `ctl'.  A panic longjmps past all of them, so   *)
(* that what they saved is lost: the host that catches it has to repair    *)
(* the context.  Flow.tla has the handlers that this module leaves out.    *)
(***************************************************************************)
EXTENDS Integers, Sequences, SequencesExt

CONSTANTS
  Dicts,      \* the mods and structs that a source may use or implement
  Host,       \* who catches panics: "errCleanup" or "simpleRepl"
  Rules,      \* what the source keeps to and the compiler does not enforce
  DictDepth,  \* DICT_DEPTH, the capacity of dictStk and of implStk
  ImmDepth,   \* TYDB_DEPTH of tyDbImm
  MaxCtl,     \* bound: the handlers that may wait for each other
  MaxVals,    \* bound: the values that literals put on a stack
  MaxInputs,  \* bound: the inputs of the session
  MaxToks     \* bound: the tokens of the session

(***************************************************************************)
(* Rules of the source program:                                            *)
(*   "fileAtTop"  fileUse and fileImpl are not inside of other tokens      *)
(*   "untyOnce"   no unty inside of the token of an unty                   *)
(*   "untyInFn"   what is compiled under unty is the body of a fn          *)
(*   "fnAtTop"    no fn inside of the body of a fn                         *)
(*   "pathFirst"  no file is compiled after a panic in the repl's buffer,  *)
(*                which Kern_errCleanup empties and leaves in its place    *)
(***************************************************************************)
RuleNames == {"fileAtTop", "untyOnce", "untyInFn", "fnAtTop", "pathFirst"}

ASSUME HostAssumption   == Host \in {"errCleanup", "simpleRepl"}
ASSUME RulesAssumption  == Rules \subseteq RuleNames
ASSUME DepthsAssumption == DictDepth \in Nat \ {0} /\ ImmDepth \in Nat \ {0}
ASSUME BoundsAssumption ==
  MaxCtl \in Nat /\ MaxVals \in Nat /\ MaxInputs \in Nat /\ MaxToks \in Nat

VARIABLES
  cx,      \* the compiler's context: fields of Globals, see Context0
  immTys,  \* the values known to each snapshot of tyDbImm
  ctl,     \* the handlers that wait for a token, the innermost last
  phase,   \* "ready" for an input, "compile" or "run"
  vals,    \* how many values are on the working stack
  emit,    \* what the code in the repl buffer does to them: it adds net,
           \* and takes them down to low on the way
  inputs, toks   \* of the bounds

vars == <<cx, immTys, ctl, phase, vals, emit, inputs, toks>>

Context0 ==
  [compFn  |-> "base",     \* or "imm" or "fslash"
   unty    |-> FALSE,      \* C_UNTY
   fnState |-> "no",       \* or "sig" or "body"
   locals  |-> 0,          \* fnLocals, in slots
   meta    |-> FALSE,      \* metaNext has the type of a function
   dict    |-> <<"root">>, \* dictStk, its top last
   impl    |-> <<"root">>, \* implStk, its top last
   tys     |-> <<0>>,      \* tyDb: the values of each snapshot
   code    |-> 0]          \* the handler that owns the buffer, or 0

(***************************************************************************)
(* A handler that waits: `cfn' and `code' are its C locals, `got' says     *)
(* that its one token is compiled.  `at' and `used' are history: the       *)
(* context when it started and, of a fn, the slots its locals have taken.  *)
(***************************************************************************)
Frame(kind) == [kind |-> kind, cfn |-> cx.compFn, code |-> cx.code,
                got |-> FALSE, at |-> cx, used |-> 0]

Loops == {"repl", "path", "paren"}

Top == ctl[Len(ctl)]
Pop == Front(ctl)

(* The handler below has its token.                                        *)
Got(k) == IF Last(k).kind \in Loops THEN k ELSE [k EXCEPT ![Len(k)].got = TRUE]

asImm == cx.compFn = "imm"

(* The ASSERTs against overflow of DictStk_add and Stk_add.                *)
Fits(s, cap) == Len(s) < cap

Inside(kinds) == \E f \in DOMAIN ctl : ctl[f].kind \in kinds

(* A token is compiled next, and it is not commented out.                  *)
Token ==
  /\ phase = "compile" /\ toks < MaxToks
  /\ ~Top.got /\ cx.fnState # "sig" /\ cx.compFn # "fslash"
  /\ toks' = toks + 1

(* A token that compiles others, or that is done.                          *)
Opens(frame, c) ==
  /\ Len(ctl) < MaxCtl
  /\ cx' = c /\ ctl' = Append(ctl, frame)
  /\ UNCHANGED <<immTys, phase, vals, emit, inputs>>

Done(c) ==
  /\ cx' = c /\ ctl' = Got(ctl)
  /\ UNCHANGED <<immTys, phase, vals, emit, inputs>>

(* The handler on top puts the context back and returns.                   *)
Returns(c) ==
  /\ cx' = c /\ ctl' = Got(Pop)
  /\ UNCHANGED <<immTys, phase, vals, emit, inputs, toks>>

Finished(kind) == phase = "compile" /\ Top.kind = kind /\ Top.got

AddTop(s, n) == [s EXCEPT ![Len(s)] = @ + n]

NoCode == [net |-> 0, low |-> 0]

(* One more instruction, that adds n values.                               *)
Emit(e, n) == [net |-> e.net + n, low |-> IF e.net + n < e.low THEN e.net + n ELSE e.low]

Init ==
  /\ cx = Context0 /\ immTys = << >> /\ ctl = << >> /\ phase = "ready"
  /\ vals = 0 /\ emit = NoCode /\ inputs = 0 /\ toks = 0

-----------------------------------------------------------------------------
(* The host.                                                               *)

(* compileRepl and compilePath, up to the first token of compileSrc.       *)
compileSrc(kind) ==
  /\ phase = "ready" /\ inputs < MaxInputs
  /\ kind = "path" =>
       /\ Host = "errCleanup" /\ vals = 0
       /\ "pathFirst" \in Rules => cx.code = 0
  /\ Fits(immTys, ImmDepth)
  /\ LET c == [cx EXCEPT !.code = IF kind = "repl" THEN 1 ELSE @]
     IN  cx' = c /\ ctl' = <<[Frame(kind) EXCEPT !.at = c]>>
  /\ immTys' = Append(immTys, 0)
  /\ phase' = "compile" /\ emit' = NoCode /\ inputs' = inputs + 1
  /\ UNCHANGED <<vals, toks>>

(* The end of the source, once nothing is left that imm# computed.         *)
compileSrc_end ==
  /\ phase = "compile" /\ Len(ctl) = 1 /\ Last(immTys) = 0
  /\ immTys' = Front(immTys)
  /\ ctl' = << >>
  /\ IF Top.kind = "path"
     THEN /\ cx' = [cx EXCEPT !.dict = <<"root">>, !.impl = <<"root">>]
          /\ phase' = "ready"
     ELSE cx' = [cx EXCEPT !.code = 0] /\ phase' = "run"
  /\ UNCHANGED <<vals, emit, inputs, toks>>

executeInstrs ==
  /\ phase = "run" /\ vals + emit.low >= 0
  /\ vals' = vals + emit.net
  /\ phase' = "ready"
  /\ UNCHANGED <<cx, immTys, ctl, emit, inputs, toks>>

(* Mutant: the function that compiles tokens stays.                        *)
errCleanup_compFn(c) == [Context0 EXCEPT !.compFn = c.compFn]

(* Mutant: the locals of the abandoned function stay.                      *)
errCleanup_locals(c) == [Context0 EXCEPT !.locals = c.locals]

(* Kern_errCleanup: what it leaves of the context.                         *)
errCleanup(c) == [Context0 EXCEPT !.code = c.code]

(***************************************************************************)
(* A panic: any token may be unknown or fail a check, and so may any       *)
(* instruction.  simpleRepl goes on with the context as it is.             *)
(***************************************************************************)
Panic ==
  /\ phase # "ready"
  /\ IF Host = "errCleanup"
     THEN cx' = errCleanup(cx) /\ vals' = 0
     ELSE UNCHANGED <<cx, vals>>
  /\ ctl' = << >> /\ phase' = "ready"
  /\ UNCHANGED <<immTys, emit, inputs, toks>>

-----------------------------------------------------------------------------
(* Tokens.                                                                 *)

(* Nothing, `,' and `;': also what a handler gets at the end of the input. *)
N_noop == Token /\ Done(cx)

(* A literal (n = 1) or a drop (n = -1), compiled or, as imm, computed.    *)
Value(n) ==
  /\ Token
  /\ ("untyInFn" \in Rules /\ cx.unty) => (~asImm /\ cx.code # 1)
  /\ LET s == IF asImm THEN immTys ELSE cx.tys
     IN  cx.unty \/ Last(s) + n \in 0..MaxVals
  /\ IF asImm
     THEN /\ vals + n \in 0..MaxVals
          /\ vals' = vals + n
          /\ immTys' = IF cx.unty THEN immTys ELSE AddTop(immTys, n)
          /\ UNCHANGED <<cx, emit>>
     ELSE /\ cx.code # 0
          /\ cx' = IF cx.unty THEN cx ELSE [cx EXCEPT !.tys = AddTop(@, n)]
          /\ emit' = IF cx.code = 1 THEN Emit(emit, n) ELSE emit
          /\ UNCHANGED <<vals, immTys>>
  /\ ctl' = Got(ctl)
  /\ UNCHANGED <<phase, inputs>>

N_paren == Token /\ Opens(Frame("paren"), cx)

(* Mutant: a comment does not put the compile function back.               *)
fslash_end_noRestore(c, f) == c

(* The end of _N_fslash.                                                   *)
fslash_end(c, f) == [c EXCEPT !.compFn = f.cfn]

(* `)'.  Of a comment it is also the end of `\(': scan goes on with the    *)
(* token that was to be compiled.                                          *)
N_paren_end ==
  /\ phase = "compile" /\ Top.kind = "paren"
  /\ IF Last(Pop).kind = "fslash"
     THEN /\ cx' = fslash_end(cx, Last(Pop))
          /\ ctl' = Front(Pop)
          /\ UNCHANGED <<immTys, phase, vals, emit, inputs, toks>>
     ELSE Returns(cx)

(* `\(': scan runs it wherever a token is looked for, in comments too.     *)
N_fslash ==
  /\ phase = "compile" /\ toks < MaxToks /\ ~Top.got
  /\ Len(ctl) + 1 < MaxCtl
  /\ toks' = toks + 1
  /\ cx' = [cx EXCEPT !.compFn = "fslash"]
  /\ ctl' = ctl \o <<Frame("fslash"), Frame("paren")>>
  /\ UNCHANGED <<immTys, phase, vals, emit, inputs>>

N_imm     == Token /\ ~asImm /\ Opens(Frame("imm"), [cx EXCEPT !.compFn = "imm"])
N_imm_end == Finished("imm") /\ Returns([cx EXCEPT !.compFn = Top.cfn])

N_unty ==
  /\ Token
  /\ "untyOnce" \in Rules => ~Inside({"unty"})
  /\ Opens(Frame("unty"), [cx EXCEPT !.unty = TRUE])

N_unty_end == Finished("unty") /\ Returns([cx EXCEPT !.unty = FALSE])

DictStk_add(s, d) == Append(s, d)
DictStk_pop(s)    == Front(s)

N_use(d) ==
  /\ Token /\ ~asImm /\ Fits(cx.dict, DictDepth)
  /\ Opens(Frame("use"), [cx EXCEPT !.dict = DictStk_add(@, d)])

N_use_end == Finished("use") /\ Returns([cx EXCEPT !.dict = DictStk_pop(@)])

(* N_mod, and N_impl of a type, which is refused in a fn.                  *)
N_impl(kind, d) ==
  /\ Token /\ ~asImm /\ Fits(cx.impl, DictDepth)
  /\ kind = "impl" => cx.fnState = "no"
  /\ Opens(Frame(kind), [cx EXCEPT !.impl = DictStk_add(@, d)])

N_impl_end ==
  /\ Finished("impl") \/ Finished("mod")
  /\ Returns([cx EXCEPT !.impl = DictStk_pop(@)])

FileAtTop == "fileAtTop" \in Rules => Len(ctl) = 1

N_fileUse(d) ==
  /\ Token /\ ~asImm /\ FileAtTop /\ Fits(cx.dict, DictDepth)
  /\ Done([cx EXCEPT !.dict = DictStk_add(@, d)])

N_fileImpl(d) ==
  /\ Token /\ ~asImm /\ FileAtTop /\ Fits(cx.impl, DictDepth)
  /\ Done([cx EXCEPT !.impl = DictStk_add(@, d)])

N_fnMeta == Token /\ ~asImm /\ ~cx.meta /\ Done([cx EXCEPT !.meta = TRUE])

(* parseFn up to its signature.                                            *)
parseFn ==
  /\ Token /\ ~asImm
  /\ Fits(cx.dict, DictDepth) /\ Fits(cx.impl, DictDepth)
  /\ "fnAtTop" \in Rules => ~Inside({"fn"})
  /\ Opens(Frame("fn"), [cx EXCEPT !.dict = DictStk_add(@, "fn"),
                                   !.impl = DictStk_add(@, "fn"),
                                   !.fnState = "sig"])

(* localImpl: one more local of the fn whose tokens are compiled.          *)
localImpl ==
  LET fns == {f \in DOMAIN ctl : ctl[f].kind = "fn"}
      f   == CHOOSE g \in fns : \A h \in fns : h <= g
  IN  /\ cx' = [cx EXCEPT !.locals = @ + 1]
      /\ LET k == [ctl EXCEPT ![f].used = @ + 1]
         IN  ctl' = IF cx.fnState = "sig" THEN k ELSE Got(k)
      /\ UNCHANGED <<immTys, phase, vals, emit, inputs>>

(* An input of the signature.                                              *)
N_inp ==
  /\ phase = "compile" /\ Top.kind = "fn" /\ cx.fnState = "sig" /\ toks < MaxToks
  /\ toks' = toks + 1
  /\ localImpl

N_var == Token /\ ~asImm /\ cx.fnState # "no" /\ localImpl

(* Mutant: starts to count the locals at the body.                         *)
fnBody_locals(c) ==
  [c EXCEPT !.fnState = "body", !.tys = Append(@, 0), !.code = Len(ctl), !.locals = 0]

(* What the body is compiled in: a buffer and a snapshot of its own.  The  *)
(* `;' of a fn without a body is an N_noop.                                *)
fnBody(c) ==
  [c EXCEPT !.fnState = "body", !.tys = Append(@, 0), !.code = Len(ctl)]

(* The end of the signature.                                               *)
parseFn_do ==
  /\ phase = "compile" /\ Top.kind = "fn" /\ cx.fnState = "sig"
  /\ cx' = fnBody(cx)
  /\ UNCHANGED <<immTys, ctl, phase, vals, emit, inputs, toks>>

(* Mutant: the code after the fn goes on in the fn's buffer.               *)
fnEnd_code(c, f) ==
  [c EXCEPT !.fnState = "no", !.locals = 0, !.meta = FALSE,
            !.tys = Front(@), !.dict = DictStk_pop(@), !.impl = DictStk_pop(@)]

(* parseFn after its body.                                                 *)
fnEnd(c, f) ==
  [c EXCEPT !.fnState = "no", !.locals = 0, !.meta = FALSE, !.code = f.code,
            !.tys = Front(@), !.dict = DictStk_pop(@), !.impl = DictStk_pop(@)]

(* The forced RET finds the fn, and the outputs it has (none), by implStk. *)
parseFn_end ==
  /\ Finished("fn")
  /\ cx.unty \/ (Last(cx.impl) = "fn" /\ Last(cx.tys) = 0)
  /\ Returns(fnEnd(cx, Top))

Next ==
  \/ \E kind \in {"repl", "path"} : compileSrc(kind)
  \/ compileSrc_end \/ executeInstrs \/ Panic
  \/ N_noop
  \/ \E n \in {1, -1} : Value(n)
  \/ N_paren \/ N_paren_end \/ N_fslash
  \/ N_imm \/ N_imm_end \/ N_unty \/ N_unty_end
  \/ \E d \in Dicts : N_use(d) \/ N_fileUse(d) \/ N_fileImpl(d)
  \/ \E kind \in {"impl", "mod"}, d \in Dicts : N_impl(kind, d)
  \/ N_use_end \/ N_impl_end
  \/ N_fnMeta \/ parseFn \/ N_inp \/ N_var \/ parseFn_do \/ parseFn_end

Spec == Init /\ [][Next]_vars

-----------------------------------------------------------------------------
(* Properties.                                                             *)

(***************************************************************************)
(* Between two inputs, the last of which may have panicked anywhere, no    *)
(* handler's change is left in the context: Kern_errCleanup undoes what    *)
(* the handlers it cut off could not.                                      *)
(***************************************************************************)
AtRest ==
  phase = "ready" =>
    /\ cx.compFn = "base" /\ ~cx.unty /\ cx.fnState = "no" /\ cx.locals = 0
    /\ Len(cx.tys) = 1

(***************************************************************************)
(* Between two inputs the type database has the types of the values on the *)
(* working stack.  README.md says so of the prompt: "After the colon is    *)
(* the types".                                                             *)
(***************************************************************************)
TypesOfValues == phase = "ready" => Last(cx.tys) = vals

(***************************************************************************)
(* A handler returns with the context it was called in, however many       *)
(* handlers were nested in it: what it pushed it has popped, and the       *)
(* compile function, the buffer and the snapshots are its caller's.        *)
(***************************************************************************)
HandlersRestore ==
  [][ (/\ phase = "compile" /\ phase' = "compile" /\ Len(ctl') < Len(ctl)) =>
        LET at == ctl[Len(ctl')+ 1].at
        IN  /\ cx'.compFn = at.compFn /\ cx'.unty = at.unty
            /\ cx'.fnState = at.fnState /\ cx'.code = at.code
            /\ cx'.dict = at.dict /\ cx'.impl = at.impl
            /\ Len(cx'.tys) = Len(at.tys) ]_vars

(***************************************************************************)
(* lSlots of a function is what its own inputs and variables take: nothing *)
(* of other functions, also of those that a panic abandoned.               *)
(***************************************************************************)
LSlotsExact ==
  [][ (phase = "compile" /\ phase' = "compile" /\ Len(ctl') < Len(ctl) /\ Top.kind = "fn")
      => cx.locals = Top.used ]_vars
=============================================================================
