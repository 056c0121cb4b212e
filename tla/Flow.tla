-------------------------------- MODULE Flow --------------------------------
(***************************************************************************)
(* The compile and the run of one fngi function.                           *)
(*                                                                         *)
(* `fn' compiles a body token by token.  Each token is a handler that      *)
(* mutates the type database (TyDb.tla), appends instructions and, for     *)
(* if/elif/else and blk, compiles further tokens before it goes on: the    *)
(* handlers that wait are the stack `ctl'.  A failed ASSERT panics out of  *)
(* all of them.  The compiled function then runs on any working stack its  *)
(* signature accepts.  A condition's value is not known to the compiler,   *)
(* so a conditional jump may go either way.                                *)
(***************************************************************************)
EXTENDS TyDb, SequencesExt

CONSTANTS
  S,        \* the type of a condition (TyIs_S)
  Sigs,     \* what the tokens of a body may call, records [inp, out]
  FnSigs,   \* the signatures of the function, records [stk, loc, out]
  Rules,    \* what the source keeps to and the compiler does not enforce
  Unty,     \* the function is compiled under `unty'
  MaxCode,  \* bound: no token starts when so many instructions are there
  MaxNest,  \* bound: the handlers that may wait for each other
  MaxBlks   \* bound: the blks of the function

(***************************************************************************)
(* Rules of the source program:                                            *)
(*   "stkOrder"  unnamed inputs read the same from both ends of the list   *)
(*   "ifFall"    an if without an else gives the types it started from     *)
(*   "blkEnd"    every break of a blk gives the types at the end of it     *)
(*   "blkBound"  break, cont and while belong to the blk opened last       *)
(*   "semiNoInputs"  a function with `;' for a body has no inputs          *)
(***************************************************************************)
RuleNames == {"stkOrder", "ifFall", "blkEnd", "blkBound", "semiNoInputs"}

ASSUME SAssumption      == S \in Types
ASSUME SigsAssumption   == Sigs \subseteq [inp : Seq(Types), out : Seq(Types)]
ASSUME FnSigsAssumption ==
  FnSigs \subseteq [stk : Seq(Types), loc : Seq(Types), out : Seq(Types)]
ASSUME RulesAssumption  == Rules \subseteq RuleNames /\ Unty \in BOOLEAN
ASSUME BoundsAssumption == MaxCode \in Nat /\ MaxNest \in Nat /\ MaxBlks \in Nat

VARIABLES
  db,     \* the type database
  fn,     \* the signature of the function
  code,   \* the instructions emitted so far
  ctl,    \* the handlers that wait for a token, the innermost last
  blks,   \* the list Globals.c.blk_, its head last
  phase,  \* "start", "body", "run", "returned" or "panic"
  pc, ws  \* of the run: the next instruction, the types of the values

vars == <<db, fn, code, ctl, blks, phase, pc, ws>>

-----------------------------------------------------------------------------
(* Instructions.  A jump whose operand is still 0 goes on with the next    *)
(* instruction: the operand's own two bytes are NOPs.                      *)

Instr(op, inp, out, to) == [op |-> op, inp |-> inp, out |-> out, to |-> to]
Jump(op, to) == Instr(op, IF op = "JL" THEN << >> ELSE <<S>>, << >>, to)
CallI(sig)   == Instr("XL", sig.inp, sig.out, 0)
SrLocal(ty)  == Instr("SRLL", <<ty>>, << >>, 0)
RetI         == Instr("RET", << >>, << >>, 0)

(* Mutant: only the last of the jumps is ended.                            *)
endJumps_last(c, H) ==
  [j \in DOMAIN c |-> IF j \in H /\ \A h \in H : h <= j
                      THEN [c[j] EXCEPT !.to = Len(c) + 1] ELSE c[j]]

(* _endIf and the end of blk: the jumps in H go to the end of the code.    *)
endJumps(c, H) ==
  [j \in DOMAIN c |-> IF j \in H THEN [c[j] EXCEPT !.to = Len(c) + 1] ELSE c[j]]

-----------------------------------------------------------------------------
(* if/elif/else.                                                           *)

IfState0 == [hadFull |-> FALSE, done |-> NOT_DONE, hadElse |-> FALSE]

(* What a failed ASSERT of a handler does to the database.                 *)
Require(d, cond, e) == IF Ok(d) /\ ~cond THEN Fail(d, e) ELSE d

(* Mutant: the next branch starts from what the last one left.             *)
tyIf_lastBranch(d, is) ==
  LET done == TyDb_done(d)
      both == IF is.done # NOT_DONE /\ is.done < done THEN is.done ELSE done
  IN  IF d.unty THEN [db |-> d, is |-> is]
      ELSE IF is.hadFull \/ done # NOT_DONE
      THEN [db |-> tyClone(tyMerge(d), 0), is |-> [is EXCEPT !.done = both]]
      ELSE [db |-> tyClone(d, 0), is |-> [is EXCEPT !.hadFull = TRUE]]

(* The end of one branch: merge it, and clone the outer state for the next. *)
tyIf(d, is) ==
  LET done == TyDb_done(d)
      both == IF is.done # NOT_DONE /\ is.done < done THEN is.done ELSE done
  IN  IF d.unty THEN [db |-> d, is |-> is]
      ELSE IF is.hadFull
      THEN [db |-> tyClone(tyMerge(d), 1), is |-> [is EXCEPT !.done = both]]
      ELSE IF done # NOT_DONE
      THEN [db |-> tyClone(tyMerge(d), 0), is |-> [is EXCEPT !.done = both]]
      ELSE [db |-> tyClone(d, 1), is |-> [is EXCEPT !.hadFull = TRUE]]

(* Mutant: takes the branches' end for the end of an if without an else.   *)
tyIfEnd_anyElse(d, is) ==
  LET e == TyDb_drop(d)
  IN  IF d.unty \/ ~Ok(d) THEN d
      ELSE IF is.hadFull THEN TyDb_nip(e)
      ELSE IF is.done # NOT_DONE THEN TyDb_setDone(e, is.done) ELSE e

(* Mutant: the outer state is not dropped.                                 *)
tyIfEnd_noNip(d, is) ==
  LET e == TyDb_drop(d)
  IN  IF d.unty \/ ~Ok(d) THEN d
      ELSE IF ~is.hadFull /\ is.hadElse /\ is.done # NOT_DONE
      THEN TyDb_setDone(e, is.done) ELSE e

tyIfEnd(d, is) ==
  LET e == TyDb_drop(d)
  IN  IF d.unty \/ ~Ok(d) THEN d
      ELSE IF is.hadFull THEN TyDb_nip(e)
      ELSE IF is.hadElse /\ is.done # NOT_DONE THEN TyDb_setDone(e, is.done)
      ELSE e

-----------------------------------------------------------------------------
(* blk.  The NULL of startTyI and endTyI is the empty stream.              *)

Blk(start, types) ==
  [start |-> start, startTyI |-> types, endTyI |-> << >>, breaks |-> {}]

HeadBlk == blks[Len(blks)]

(* tyCont: op is JL for `cont', JLNZ for `cont-if' and `while'.            *)
tyCont(d, op) ==
  LET d0 == Require(d, TyDb_done(d) = NOT_DONE, "done")
      d1 == IF op = "JL" THEN d0 ELSE tyCall(d0, <<S>>, << >>)
      d2 == Require(d1, tyCheck(HeadBlk.startTyI, TypesOf(TyDb_top(d1)), TRUE), "type")
  IN  IF d.unty THEN d
      ELSE IF op = "JL" THEN TyDb_setDone(d2, BLK_DONE) ELSE d2

(* tyBreak: the first break's types are kept, the others compared to them. *)
tyBreak(d) ==
  LET end == HeadBlk.endTyI
      tys == TypesOf(TyDb_top(d))
      d0  == Require(d, TyDb_done(d) = NOT_DONE, "done")
      d1  == Require(d0, end = << >> \/ tyCheck(end, tys, TRUE), "type")
  IN  IF d.unty \/ ~Ok(d) THEN [db |-> d, blks |-> blks]
      ELSE [db |-> TyDb_setDone(d1, BLK_DONE),
            blks |-> [blks EXCEPT ![Len(blks)].endTyI = IF end = << >> THEN tys ELSE end]]

(* Mutant: a return at the end of the block hides the breaks.              *)
blkClears_ret(brs, d) == TyDb_done(d) < RET_DONE

(* After the block the flow goes on, but for a return on every path.       *)
blkClears(brs, d) == brs # {} \/ TyDb_done(d) < RET_DONE

(* Where tys is asked for, every stack that tyCheck accepts may be given.  *)
Given(tys) ==
  {w \in [1..Len(tys) -> Types] : \A j \in 1..Len(tys) : <<tys[j], w[j]>> \in Accepts}

-----------------------------------------------------------------------------
(* The handlers.                                                           *)

(* The handler that waits for the next token.                              *)
Top == ctl[Len(ctl)]

Frame(kind) == [kind |-> kind, is |-> IfState0, i |-> 0, ends |-> {}, blk |-> 0]

Waits(kind) == phase = "body" /\ Top.kind = kind
Room        == phase = "body" /\ Len(code) < MaxCode
Replace(f)  == [ctl EXCEPT ![Len(ctl)] = f]
Pop         == SubSeq(ctl, 1, Len(ctl) - 1)

(* Kern_errCleanup; the field err stays to say what the panic was.         *)
Panic(e) ==
  /\ phase' = "panic"
  /\ db'    = [TyDb_new(TyDb_init) EXCEPT !.err = e]
  /\ code'  = << >>
  /\ ctl'   = << >>
  /\ blks'  = << >>
  /\ UNCHANGED <<fn, pc, ws>>

(* The end of a handler's step, or its panic.                              *)
Step(d, c, k, b) ==
  IF Ok(d)
  THEN /\ db' = d /\ code' = c /\ ctl' = k /\ blks' = b
       /\ UNCHANGED <<fn, phase, pc, ws>>
  ELSE Panic(d.err)

Init ==
  /\ db    = TyDb_new([TyDb_init EXCEPT !.unty = Unty])
  /\ fn    \in FnSigs
  /\ code  = << >>
  /\ ctl   = << >>
  /\ blks  = << >>
  /\ phase = "start"
  /\ pc    = 1
  /\ ws    = << >>

(***************************************************************************)
(* parseFn up to the body behind `do'.  fnInputs walks fn->inp from its    *)
(* head, the top of the stack: it stores each named input, and pushes the  *)
(* type of each unnamed one.                                               *)
(***************************************************************************)
parseFn ==
  /\ phase = "start"
  /\ "stkOrder" \in Rules => fn.stk = Reverse(fn.stk)
  /\ LET d == TyDb_new(db)
         e == IF Unty THEN d ELSE TyI_cloneAdd(d, Reverse(fn.stk))
     IN  IF Ok(e)
         THEN /\ db'    = e
              /\ code'  = [j \in 1..Len(fn.loc) |-> SrLocal(Reverse(fn.loc)[j])]
              /\ ctl'   = <<Frame("fn")>>
              /\ phase' = "body"
              /\ UNCHANGED <<fn, blks, pc, ws>>
         ELSE Panic(e.err)

(* A token that calls a function, once its arguments are compiled.         *)
compileFn(sig) ==
  /\ Room
  /\ Step(tyCall(db, sig.inp, sig.out), Append(code, CallI(sig)), ctl, blks)

N_ret ==
  /\ Room
  /\ Step(tyRet(db, fn.out, RET_DONE), Append(code, RetI), ctl, blks)

(***************************************************************************)
(* N_if once its condition is compiled, up to `do' of _N_if.               *)
(***************************************************************************)
N_if ==
  /\ Room /\ Len(ctl) < MaxNest
  /\ LET d0 == tyCall(db, <<S>>, << >>)
         d1 == Require(d0, Unty \/ TyDb_done(d0) = NOT_DONE, "done")
     IN  Step(tyClone(d1, 0), Append(code, Jump("JLZ", 0)),
              Append(ctl, [Frame("if") EXCEPT !.i = Len(code) + 1]), blks)

(* _else: a jump over the next branch, to which the condition's jump goes. *)
ElseJump(c, i) == endJumps(Append(c, Jump("JL", 0)), {i})

(* _N_if, `elif' after a branch: its condition starts from the outer state. *)
N_if_elif ==
  /\ Waits("if") /\ Room
  /\ LET t == tyIf(db, Top.is)
     IN  Step(tyClone(t.db, 0), ElseJump(code, Top.i),
              Replace([Top EXCEPT !.kind = "elif", !.is = t.is,
                                  !.ends = @ \union {Len(code) + 1}]), blks)

(* _N_if, the end of the condition of an `elif', and the nested _N_if.     *)
N_if_elifDo ==
  /\ Waits("elif")
  /\ LET d0 == tyCall(db, <<S>>, << >>)
         d1 == Require(d0, TyDb_done(d0) = NOT_DONE, "done")
     IN  Step(tyMerge(d1), Append(code, Jump("JLZ", 0)),
              Replace([Top EXCEPT !.kind = "if", !.i = Len(code) + 1]), blks)

(* _N_if, `else' after a branch.                                           *)
N_if_else ==
  /\ Waits("if") /\ Room
  /\ LET t == tyIf(db, Top.is)
     IN  Step(t.db, ElseJump(code, Top.i),
              Replace([Top EXCEPT !.kind = "else", !.is = t.is,
                                  !.ends = @ \union {Len(code) + 1}]), blks)

(***************************************************************************)
(* The last branch is done: every _N_if of the chain ends its jump here.   *)
(***************************************************************************)
N_if_end ==
  \E kind \in {"if", "else"} :
    /\ Waits(kind)
    /\ LET t  == tyIf(db, Top.is)
           is == [t.is EXCEPT !.hadElse = kind = "else"]
           H  == IF kind = "if" THEN Top.ends \union {Top.i} ELSE Top.ends
       IN  /\ ("ifFall" \in Rules /\ kind = "if" /\ is.hadFull /\ Ok(t.db)) =>
                tyCheck(TypesOf(TyDb_index(t.db, 1)), TypesOf(TyDb_top(t.db)), TRUE)
           /\ Step(tyIfEnd(t.db, is), endJumps(code, H), Pop, blks)

(* N_blk up to its body.                                                   *)
N_blk ==
  /\ Room /\ Len(ctl) < MaxNest /\ Len(blks) < MaxBlks
  /\ Step(db, code,
          Append(ctl, [Frame("blk") EXCEPT !.blk = Len(blks) + 1]),
          Append(blks, Blk(Len(code) + 1, TypesOf(TyDb_top(db)))))

(* The index in blks of the innermost blk whose body is being compiled.    *)
OpenBlk ==
  LET open == {f \in DOMAIN ctl : ctl[f].kind = "blk"}
  IN  IF open = {} THEN 0 ELSE ctl[CHOOSE f \in open : \A g \in open : g <= f].blk

(* blk_ is the blk opened last.  With none it is NULL: not modelled.       *)
Bound == Len(blks) > 0 /\ ("blkBound" \in Rules => OpenBlk = Len(blks))

(* _cont.                                                                  *)
Cont(op) ==
  /\ Room /\ Bound
  /\ Step(tyCont(db, op), Append(code, Jump(op, HeadBlk.start)), ctl, blks)

N_cont   == Cont("JL")
N_contIf == Cont("JLNZ")

(* `tys' is a history field: the types the break leaves.                   *)
N_break ==
  /\ Room /\ Bound
  /\ LET t  == tyBreak(db)
         br == [at |-> Len(code) + 1, tys |-> TypesOf(TyDb_top(db))]
     IN  Step(t.db, Append(code, Jump("JL", 0)), ctl,
              [t.blks EXCEPT ![Len(blks)].breaks = @ \union {br}])

(***************************************************************************)
(* N_blk after its body: an optional `while', the implicit break (on the   *)
(* head of blk_, as all of them), and the breaks of the block itself.      *)
(***************************************************************************)
N_blk_end(while) ==
  /\ Waits("blk")
  /\ while => Bound /\ Room
  /\ LET d0 == IF while THEN tyCont(db, "JLNZ") ELSE db
         c0 == IF while THEN Append(code, Jump("JLNZ", HeadBlk.start)) ELSE code
         t  == IF TyDb_done(d0) = NOT_DONE THEN tyBreak(d0)
               ELSE [db |-> d0, blks |-> blks]
         brs == t.blks[Top.blk].breaks
         d2 == IF blkClears(brs, t.db) THEN TyDb_clearDone(t.db) ELSE t.db
     IN  /\ ("blkEnd" \in Rules /\ Ok(d2)) =>
              \A br \in brs : tyCheck(TypesOf(TyDb_top(d2)), br.tys, TRUE)
         /\ Step(d2, endJumps(c0, {br.at : br \in brs}), Pop, t.blks)

(***************************************************************************)
(* parseFn after its body, with the database d and the code c: `Force a    *)
(* RET at the end', unless the types say that the end is not reached; an   *)
(* untyped function asks the last byte of the code instead, which can be   *)
(* any byte when it is an operand's, or when there is no code and it is    *)
(* the byte in front of the buffer.                                        *)
(***************************************************************************)
EndsInRet(c) == IF c # << >> /\ c[Len(c)].op = "RET" THEN {TRUE} ELSE BOOLEAN

Finish(d, c) ==
  \E endsInRet \in EndsInRet(c) :
    LET force == IF Unty THEN ~endsInRet ELSE TyDb_done(d) # RET_DONE
        d0 == IF force THEN tyRet(d, fn.out, RET_DONE) ELSE d
        d1 == TyDb_drop(d0)
        d2 == Require(d1, Len(d1.done) = 1, "incomplete")
    IN  IF Ok(d2)
        THEN /\ db'    = d2
             /\ code'  = IF force THEN Append(c, RetI) ELSE c
             /\ ctl'   = << >>
             /\ phase' = "run"
             /\ \E tys \in Given(fn.stk \o fn.loc) : ws' = tys
             /\ UNCHANGED <<fn, blks, pc>>
        ELSE Panic(d2.err)

parseFn_end == Waits("fn") /\ Finish(db, code)

(***************************************************************************)
(* parseFn with `;' in place of `do' and a body: fnInputs is not called,   *)
(* so that the inputs stay where the caller has put them.                  *)
(***************************************************************************)
parseFn_semi ==
  /\ phase = "start"
  /\ "semiNoInputs" \in Rules => fn.stk = << >> /\ fn.loc = << >>
  /\ Finish(TyDb_new(db), << >>)

-----------------------------------------------------------------------------
(* The run of the compiled function.                                       *)

Running == phase = "run" /\ pc \in DOMAIN code /\ tyCheck(code[pc].inp, ws, FALSE)

NextPc(ins) ==
  CASE ins.op = "JL" /\ ins.to > 0 -> {ins.to}
    [] ins.op \in {"JLZ", "JLNZ"} /\ ins.to > 0 -> {ins.to, pc + 1}
    [] OTHER -> {pc + 1}

RunStep ==
  /\ Running /\ code[pc].op # "RET"
  /\ LET ins == code[pc]
         kept == SubSeq(ws, 1, Len(ws) - Len(ins.inp))
     IN  /\ \E out \in Given(ins.out) : ws' = kept \o out
         /\ pc' \in NextPc(ins)
  /\ UNCHANGED <<db, fn, code, ctl, blks, phase>>

RunRet ==
  /\ Running /\ code[pc].op = "RET"
  /\ phase' = "returned"
  /\ UNCHANGED <<db, fn, code, ctl, blks, pc, ws>>

Next ==
  \/ parseFn \/ parseFn_semi
  \/ \E sig \in Sigs : compileFn(sig)
  \/ N_ret
  \/ N_if \/ N_if_elif \/ N_if_elifDo \/ N_if_else \/ N_if_end
  \/ N_blk \/ N_cont \/ N_contIf \/ N_break
  \/ \E while \in BOOLEAN : N_blk_end(while)
  \/ parseFn_end
  \/ RunStep \/ RunRet

Spec == Init /\ [][Next]_vars

-----------------------------------------------------------------------------
(* Properties.                                                             *)

(***************************************************************************)
(* A function that the compiler accepted runs off the end of its code on   *)
(* no path: parseFn adds the RET that the types do not show to be there.   *)
(***************************************************************************)
NeverFallsOff == phase = "run" => pc \in DOMAIN code

(***************************************************************************)
(* No instruction of an accepted function, on any path through its         *)
(* branches and loops, finds too few values on the working stack or values *)
(* of a type it does not take: that is what the snapshots and merges of    *)
(* if/elif/else and of blk are for.                                        *)
(***************************************************************************)
OperandsMatch ==
  (phase = "run" /\ pc \in DOMAIN code) => tyCheck(code[pc].inp, ws, FALSE)

(***************************************************************************)
(* Whatever `ret' it leaves by, a function leaves the types its signature  *)
(* promises to the callers that were compiled against it, and no others.   *)
(***************************************************************************)
ReturnsOut == phase = "returned" => tyCheck(fn.out, ws, TRUE)

(***************************************************************************)
(* The snapshots are those of the handlers that wait: one for the function *)
(* and the kernel's own, one for a branch, one more once a branch of the   *)
(* chain was full, one more for the condition of an elif.  So the ASSERT   *)
(* at the end of parseFn, "A type operation (i.e. if/while/etc) is         *)
(* incomplete in fn", never fails.                                         *)
(***************************************************************************)
SnapshotsOf(f) ==
  CASE f.kind = "fn"  -> 1
    [] f.kind = "blk" -> 0
    [] OTHER -> (IF f.is.hadFull THEN 2 ELSE 1) + (IF f.kind = "elif" THEN 1 ELSE 0)

(* How many there are up to and with the i-th of the handlers k.           *)
Snapshots(k) ==
  LET upTo[i \in 0..Len(k)] == IF i = 0 THEN 1 ELSE upTo[i - 1] + SnapshotsOf(k[i])
  IN  upTo

SnapshotsOfHandlers ==
  /\ db.err # "incomplete"
  /\ ~Unty => Len(db.tyIs) = Snapshots(ctl)[Len(ctl)]

(***************************************************************************)
(* Every jump of the finished code has a target in it, or just behind it   *)
(* when the types show that the jump is not reached.                       *)
(***************************************************************************)
JumpsHaveTargets ==
  phase = "run" =>
    \A j \in DOMAIN code : code[j].op \in {"JL", "JLZ", "JLNZ"} =>
      code[j].to \in 1..Len(code) + 1

-----------------------------------------------------------------------------
(* What comments and examples of the repository say of any source program, *)
(* whichever of the Rules it keeps.                                        *)

(***************************************************************************)
(* "The basic rule is that the result type of all branches must be         *)
(* identical": an if that ends without an else, and whose end is reached   *)
(* through a branch, leaves as many values as the path around the branches. *)
(***************************************************************************)
BranchesIdentical ==
  [][ (/\ phase' = "body" /\ Len(ctl') < Len(ctl)
       /\ Top.kind = "if" /\ TyDb_done(db') = NOT_DONE)
      => Len(TyDb_top(db')) =
           Len(TyDb_index(db, IF Top.is.hadFull THEN 2 ELSE 1)) ]_vars

(***************************************************************************)
(* "Each nesting is tied to a node in Globals.blk": while the body of a    *)
(* blk is compiled, the node that break, cont and while use is its own.    *)
(***************************************************************************)
NestingTied == OpenBlk # 0 => OpenBlk = Len(blks)
=============================================================================
