------------------------------- MODULE Access -------------------------------
(***************************************************************************)
(* A statement that reads, writes or refers to a field.                    *)
(*                                                                         *)
(* The statement starts at a local variable, or at a reference on the      *)
(* stack, and goes on through the fields that are named after it.  The     *)
(* compiler keeps what it needs to reach the last one (`c'), emits the     *)
(* instructions, and the machine executes them.  What the names mean by    *)
(* the layout of the structs is kept beside it (`meant'), so that the      *)
(* invariants can compare the one with the other.                          *)
(*                                                                         *)
(* Memory is symbolic.  A place is [obj, off]: the frame of the function   *)
(* is the object << >>, and the object that the reference at a place p     *)
(* points to is Append(p.obj, p.off), so that no two references point to   *)
(* one object.                                                             *)
(***************************************************************************)
EXTENDS Layout, SequencesExt

CONSTANT MaxDots    \* bound: the names in a statement

(***************************************************************************)
(* Rules of the source program:                                            *)
(*   "singleRef"    a dot follows references of depth one only             *)
(*   "plainStruct"  a struct that is read as a whole has native fields,    *)
(*                  or a struct as its first one                           *)
(*   "structStore"  `=' after a path stores no struct                      *)
(*   "ampOneRef"    & goes through one reference                           *)
(*   "shortOffset"  offsets in paths are less than 256                     *)
(*   "braceRef"     { } is not the value of a reference                    *)
(*   "dotOnRef"     a statement starts with a dot on a reference only, not *)
(*                  on a struct that is on the stack                       *)
(***************************************************************************)
RuleNames == {"arrWords", "singleRef", "plainStruct", "structStore",
              "ampOneRef", "shortOffset", "braceRef", "dotOnRef"}

ASSUME AccessAssumption == Rules \subseteq RuleNames /\ MaxDots \in Nat

VARIABLES
  phase,   \* "declare", "path", "run", "done" or "refused"
  form,    \* how the statement starts and, at last, how it ends
  c,       \* where the compiler is in it
  meant,   \* the place and the type of what has been named
  db,      \* the types of the values on the working stack, the top last
  code,    \* the instructions that remain to be executed
  ws,      \* the working stack, its top last
  stored   \* what has been stored: the set of [at, sz, val]

accessVars == <<phase, form, c, meant, db, code, ws, stored>>

vars == <<layoutVars, accessVars>>

-----------------------------------------------------------------------------
(* Symbolic memory.                                                        *)

At(obj, off)  == [obj |-> obj, off |-> off]
Plus(p, n)    == [p EXCEPT !.off = @ + n]
Deref(p)      == At(Append(p.obj, p.off), 0)

(* The values: what is at a place of a size, and the address of a place.   *)
Contents(p, sz) == [at |-> p, sz |-> sz, isAddr |-> FALSE]
Address(p)      == [at |-> p, sz |-> RSIZE, isAddr |-> TRUE]

(* The place that a value points to.                                       *)
PointsTo(val) == IF val.isAddr THEN val.at ELSE Deref(val.at)

(* The frame, and the objects of what comes from elsewhere: the value of   *)
(* the token that is stored, and a reference on the stack.                 *)
Frame == At(<< >>, 0)
Token == At(<<-1>>, 0)
Top   == At(<<-2>>, 0)

Fields(ty) == structs[ty.id].fields

IsStruct(tyI) == tyI.refs = 0 /\ ~tyI.ty.native

(* The natives and references of a value at p, in the order in which they  *)
(* are on the working stack.                                               *)
RECURSIVE Leaves(_, _)
Leaves(tyI, p) ==
  IF IsStruct(tyI)
  THEN FlattenSeq([j \in DOMAIN Fields(tyI.ty) |->
         Leaves(Fields(tyI.ty)[j].tyI, Plus(p, Fields(tyI.ty)[j].v))])
  ELSE <<Contents(p, TyI_szBasic(tyI))>>

(* What the field f of the value m is: for a reference, of what it points  *)
(* to.                                                                     *)
RECURSIVE Object(_, _)
Object(p, refs) == IF refs = 0 THEN p ELSE Object(Deref(p), refs - 1)

FieldOf(m, f) == [at |-> Plus(Object(m.at, m.tyI.refs), f.v), tyI |-> f.tyI]

OneRefLess(tyI) == [tyI EXCEPT !.refs = @ - 1]

-----------------------------------------------------------------------------
(* Instructions.  FTO and SRO have an operand of one byte.  (At offset 0   *)
(* the code uses FT and SR, which do the same.)                            *)

Instr(op, sz, off) == [op |-> op, sz |-> sz, off |-> off]

opCompile(op, sz, off) ==
  CASE op = "FTO" -> Instr(op, sz, off % 256)
    [] op = "SRO" -> Instr(op, sz, off % 256)
    [] OTHER      -> Instr(op, sz, off)

opAlwaysSr(op) == CASE op = "FTO" -> "SRO" [] op = "FTLL" -> "SRLL" [] OTHER -> op

-----------------------------------------------------------------------------
(* Dot paths: a path is a sequence of DotPath nodes, the one added last at *)
(* its end (the list in the code has it first).                            *)

DotPath(tyI, off, op) == [tyI |-> tyI, offset |-> off % 256, op |-> op]

c0 == [cur |-> [ty |-> [native |-> TRUE, id |-> 1], refs |-> 0, arrLen |-> 0],
       offset |-> 0, op |-> "NOP", push |-> TRUE, path |-> << >>,
       after |-> << >>, code |-> << >>, refs |-> 0, dots |-> 0]

(* The node for cur: after it, offsets start again at what it has fetched. *)
pushDotPath(d, tyI) ==
  [d EXCEPT !.path = Append(@, DotPath(tyI, d.offset, d.op)),
            !.offset = 0, !.op = "FTO"]

(* Mutant: a reference that the path starts with is not fetched.           *)
dotPathFull_noFetch(d, f) ==
  LET on == [d EXCEPT !.offset = @ + f.v, !.cur = f.tyI, !.push = TRUE]
  IN  IF f.tyI.refs > 0 THEN [pushDotPath(on, f.tyI) EXCEPT !.push = FALSE] ELSE on

(* One round of dotPathFull, for the field f of cur.                       *)
dotPathFull(d, f) ==
  LET from == IF d.op # "FTO" /\ d.cur.refs > 0 THEN pushDotPath(d, d.cur) ELSE d
      on   == [from EXCEPT !.offset = @ + f.v, !.cur = f.tyI, !.push = TRUE]
  IN  IF f.tyI.refs > 0 THEN [pushDotPath(on, f.tyI) EXCEPT !.push = FALSE] ELSE on

(* The end of dotPathFull, and what N_at adds to its path.                 *)
dotPath(d) ==
  (IF d.push THEN pushDotPath(d, d.cur).path ELSE d.path) \o d.after

(* compileStruct: one instruction for each field of a struct, first to     *)
(* last.  The fields of an inner struct, and of one that is only referred  *)
(* to, are reached from the offset of the outer one.                       *)
RECURSIVE compileStruct(_, _)
compileStruct(p, ty) ==
  FlattenSeq([j \in DOMAIN Fields(ty) |->
    LET f == Fields(ty)[j]
    IN  IF ~f.tyI.ty.native THEN compileStruct(p, f.tyI.ty)
        ELSE <<opCompile(p.op, TyI_sz(f.tyI), p.offset + f.v)>>])

(* addDotPath, with the last node for a store or for a fetch.              *)
addDotPath(isSr, path) ==
  FlattenSeq([j \in DOMAIN path |->
    LET p  == path[j]
        op == IF isSr /\ j = Len(path) THEN opAlwaysSr(p.op) ELSE p.op
    IN  IF IsStruct(p.tyI) THEN compileStruct(p, p.tyI.ty)
        ELSE <<opCompile(op, TyI_szBasic(p.tyI), p.offset)>>])

(* The ASSERTs of addDotPath: no struct through a reference.               *)
Accepted(path) == ~(IsStruct(path[Len(path)].tyI) /\ path[Len(path)].op = "FTO")

(* Mutant: the fields are stored first to last.                            *)
RECURSIVE srOffset_forward(_, _)
srOffset_forward(tyI, off) ==
  IF ~IsStruct(tyI) THEN <<opCompile("SRLL", TyI_szBasic(tyI), off)>>
  ELSE FlattenSeq([j \in DOMAIN Fields(tyI.ty) |->
         srOffset_forward(Fields(tyI.ty)[j].tyI, off + Fields(tyI.ty)[j].v)])

(* srOffset: the value on the stack is stored from its top, the last field *)
(* of a struct first.                                                      *)
RECURSIVE srOffset(_, _)
srOffset(tyI, off) ==
  IF ~IsStruct(tyI) THEN <<opCompile("SRLL", TyI_szBasic(tyI), off)>>
  ELSE FlattenSeq(Reverse([j \in DOMAIN Fields(tyI.ty) |->
         srOffset(Fields(tyI.ty)[j].tyI, off + Fields(tyI.ty)[j].v)]))

(* Mutant: the offset goes on from that of the reference.                  *)
ampRef_keepOffset(d, f) ==
  LET start == IF d.code = << >> /\ d.cur.refs > 0
               THEN [d EXCEPT !.code = <<opCompile("FTLL", RSIZE, d.offset)>>]
               ELSE d
  IN  [start EXCEPT !.offset = @ + f.v, !.cur = f.tyI]

(* One round of N_amp or, once it goes through a reference, of ampRef.     *)
(* ampRef fetches a reference of depth one no more than once.              *)
ampRef(d, f) ==
  LET start == IF d.code = << >> /\ d.cur.refs > 0
               THEN [d EXCEPT !.code = <<opCompile("FTLL", RSIZE, d.offset)>>,
                              !.offset = 0, !.refs = d.cur.refs]
               ELSE d
      whole == [j \in 1..start.refs - 1 |->
                  opCompile("FTO", RSIZE, IF j = 1 THEN start.offset ELSE 0)]
  IN  [start EXCEPT !.code = @ \o whole,
                    !.refs = IF @ > 1 THEN 1 ELSE @,
                    !.offset = (IF whole = << >> THEN @ ELSE 0) + f.v,
                    !.cur = f.tyI]

-----------------------------------------------------------------------------
Init ==
  /\ LayoutInit
  /\ phase = "declare" /\ form = [start |-> "none", end |-> "none"] /\ c = c0
  /\ meant = [at |-> Top, tyI |-> c0.cur]
  /\ db = << >> /\ code = << >> /\ ws = << >> /\ stored = {}

Declare ==
  /\ phase = "declare" /\ LayoutNext /\ UNCHANGED accessVars

Short(off) == "shortOffset" \in Rules => off < 256

(* The start of a statement, which means a value of a type at a place.     *)
Start(f, at, tyI) ==
  /\ phase = "declare" /\ ~open
  /\ phase' = "path" /\ form' = [start |-> f, end |-> "none"]
  /\ meant' = [at |-> at, tyI |-> tyI]
  /\ UNCHANGED <<layoutVars, code, stored>>

cAt(x) == [c0 EXCEPT !.cur = x.tyI, !.offset = x.v, !.op = "FTLL"]

(* At the local variable x.                                                *)
StartVar(f, x) ==
  /\ Start(f, Plus(Frame, x.v), x.tyI)
  /\ c' = cAt(x)
  /\ UNCHANGED <<db, ws>>

(* At a value of type tyI on the stack; cur is the type to go on from.     *)
StartTop(f, tyI, cur) ==
  /\ Known(tyI)
  /\ Start(f, Top, tyI)
  /\ c' = [c0 EXCEPT !.cur = cur, !.op = "FTO"]
  /\ ws' = Leaves(tyI, Top)

(* x                                                                       *)
compileVar(x) == Short(x.v) /\ StartVar("path", x)

(* &x                                                                      *)
N_amp(x) == StartVar("amp", x)

(* var x: ... =                                                            *)
N_var(x) == x = locals[Len(locals)] /\ StartVar("init", x)

(* @x: the path of x, and a node that fetches through it, whose type is    *)
(* that of x whatever the path goes on to name.  (A path that does is      *)
(* refused: a reference that has fields is one to a struct.)               *)
N_at(x) ==
  /\ x.tyI.refs > 0 /\ Short(x.v)
  /\ Start("at", Plus(Frame, x.v), x.tyI)
  /\ c' = [cAt(x) EXCEPT !.after = <<DotPath(OneRefLess(x.tyI), 0, "FTO")>>]
  /\ UNCHANGED <<db, ws>>

(* Mutant: the type of the reference remains in db.                        *)
N_atTop_noPop(tyI) ==
  tyI.refs > 0 /\ StartTop("atTop", tyI, OneRefLess(tyI)) /\ db' = <<tyI>>

(* @ of a reference on the stack, whose type is taken from db.             *)
N_atTop(tyI) ==
  tyI.refs > 0 /\ StartTop("atTop", tyI, OneRefLess(tyI)) /\ UNCHANGED db

(* A dot after a value on the stack, which nobody asks to be a reference;  *)
(* its type remains in db.  (A native has no members: the dot is refused.) *)
N_dot(tyI) ==
  /\ tyI.refs > 0 \/ ("dotOnRef" \notin Rules /\ IsStruct(tyI))
  /\ StartTop("dot", tyI, tyI) /\ db' = <<tyI>>

(* What the source keeps to before it names a field.                       *)
MayDot(f) ==
  /\ "singleRef" \in Rules /\ form.start \in {"path", "at", "dot"} => c.cur.refs <= 1
  /\ "ampOneRef" \in Rules /\ form.start = "amp" => c.code = << >> \/ c.cur.refs = 0
  /\ "braceRef" \in Rules /\ form.start = "init" => c.cur.refs = 0
  /\ form.start \in {"path", "at", "dot"} => Short(c.offset + f.v)

(* The next name: .f in a path or after &, { f = in the value of a         *)
(* variable, of which one field is followed.                               *)
Dot(f) ==
  /\ phase = "path" /\ form.start # "atTop" /\ c.dots < MaxDots
  /\ MayDot(f)
  /\ meant' = FieldOf(meant, f)
  /\ LET d == [c EXCEPT !.dots = @ + 1]
     IN  c' = CASE form.start = "amp"  -> ampRef(d, f)
                [] form.start = "init" -> [d EXCEPT !.offset = @ + f.v, !.cur = f.tyI]
                [] OTHER         -> dotPathFull(d, f)
  /\ UNCHANGED <<layoutVars, phase, form, db, code, ws, stored>>

-----------------------------------------------------------------------------
(* The end of a statement.                                                 *)

Emit(f, instrs) ==
  /\ phase' = "run" /\ form' = [form EXCEPT !.end = f] /\ code' = instrs
  /\ UNCHANGED <<layoutVars, c, meant, ws, stored>>

Refuse ==
  /\ phase' = "refused"
  /\ UNCHANGED <<layoutVars, form, c, meant, db, code, ws, stored>>

IsPath ==
  /\ phase = "path" /\ form.start \in {"path", "at", "atTop", "dot"}
  /\ form.start = "dot" => c.dots > 0

(* Rule plainStruct: native fields, or a plain struct at the start.        *)
RECURSIVE Plain(_)
Plain(ty) ==
  \A j \in DOMAIN Fields(ty) :
    LET tyI == Fields(ty)[j].tyI
    IN  /\ tyI.arrLen = 0
        /\ ~tyI.ty.native => j = 1 /\ tyI.refs = 0 /\ Plain(tyI.ty)

(* A path that is not followed by `='.                                     *)
Fetch ==
  LET path == dotPath(c)
      tyI  == path[Len(path)].tyI
  IN  /\ IsPath
      /\ "plainStruct" \in Rules /\ IsStruct(tyI) => Plain(tyI.ty)
      /\ IF Accepted(path)
         THEN Emit("fetch", addDotPath(FALSE, path)) /\ db' = Append(db, tyI)
         ELSE Refuse

(* The token after `=' leaves a value of the type that is required.        *)
Value(tyI) ==
  LET leaves == Leaves(tyI, Token)
  IN  [j \in DOMAIN leaves |-> Instr("VALUE", leaves[j].sz, leaves[j].at.off)]

(* A path that is.  The reference is fetched before the value is computed, *)
(* and the type of the value is taken from db again.                       *)
Store ==
  LET path == dotPath(c)
      tyI  == path[Len(path)].tyI
  IN  /\ IsPath
      /\ "structStore" \in Rules => ~IsStruct(tyI)
      /\ IF Accepted(path)
         THEN /\ Emit("store", addDotPath(FALSE, Front(path)) \o Value(tyI)
                                \o addDotPath(TRUE, <<path[Len(path)]>>))
              /\ UNCHANGED db
         ELSE Refuse

(* & after its last name: an offset to what was fetched, or to the frame.  *)
AmpEnd ==
  LET tyI == [c.cur EXCEPT !.refs = @ + 1]
  IN  /\ phase = "path" /\ form.start = "amp"
      /\ IF tyI.refs <= MaxRefs
         THEN /\ db' = Append(db, tyI)
              /\ Emit("ref", IF c.code = << >> THEN <<Instr("LR", RSIZE, c.offset)>>
                             ELSE Append(c.code, Instr("ADD", RSIZE, c.offset)))
         ELSE Refuse

(* The value of a variable, or of a field of it in { }.                    *)
VarEnd ==
  /\ phase = "path" /\ form.start = "init"
  /\ Emit("store", Value(c.cur) \o srOffset(c.cur, c.offset))
  /\ UNCHANGED db

-----------------------------------------------------------------------------
(* The machine.                                                            *)

Nth(n)  == ws[Len(ws) + 1 - n]
But(n)  == SubSeq(ws, 1, Len(ws) - n)

Loads(i, p) == ws' = Append(But(IF i.op = "FTO" THEN 1 ELSE 0), Contents(p, i.sz))

Stores(i, p) ==
  /\ ws' = But(IF i.op = "SRO" THEN 2 ELSE 1)
  /\ stored' = stored \cup {[at |-> p, sz |-> i.sz, val |-> Nth(1)]}

(* executeInstr, for the instructions of the statement.                    *)
executeInstr ==
  LET i == Head(code)
  IN  /\ phase = "run"
      /\ code' = Tail(code)
      /\ phase' = IF Tail(code) = << >> THEN "done" ELSE "run"
      /\ CASE i.op = "FTLL"  -> Loads(i, Plus(Frame, i.off))
           [] i.op = "FTO"   -> Loads(i, Plus(PointsTo(Nth(1)), i.off))
           [] i.op = "SRLL"  -> Stores(i, Plus(Frame, i.off))
           [] i.op = "SRO"   -> Stores(i, Plus(PointsTo(Nth(2)), i.off))
           [] i.op = "VALUE" -> ws' = Append(ws, Contents(Plus(Token, i.off), i.sz))
           [] i.op = "LR"    -> ws' = Append(ws, Address(Plus(Frame, i.off)))
           [] i.op = "ADD"   ->
                ws' = Append(But(1), Address(Plus(PointsTo(Nth(1)), i.off)))
      /\ i.op \notin {"SRLL", "SRO"} => UNCHANGED stored
      /\ UNCHANGED <<layoutVars, form, c, meant, db>>

Next ==
  \/ Declare
  \/ \E j \in DOMAIN locals :
       LET x == locals[j] IN compileVar(x) \/ N_amp(x) \/ N_var(x) \/ N_at(x)
  \/ \E tyI \in LocalTyIs : N_atTop(tyI) \/ N_dot(tyI)
  \/ ~c.cur.ty.native /\ \E j \in DOMAIN Fields(c.cur.ty) : Dot(Fields(c.cur.ty)[j])
  \/ Fetch
  \/ Store
  \/ AmpEnd
  \/ VarEnd
  \/ executeInstr

Spec == Init /\ [][Next]_vars

-----------------------------------------------------------------------------
(* Properties.                                                             *)

(* However structs are nested in each other, each native and each reference*)
(* of a local variable is aligned: struct fields are aligned by their own  *)
(* size only, and the structs around them are not padded.                  *)
LeavesAligned ==
  \A j \in DOMAIN locals :
    \A leaf \in Range(Leaves(locals[j].tyI, Plus(Frame, locals[j].v))) :
      leaf.at.off % alignment[leaf.sz] = 0

(* What the whole statement means: @ is of what the path refers to.        *)
Meant ==
  IF form.start \in {"at", "atTop"}
  THEN [at |-> Deref(meant.at), tyI |-> OneRefLess(meant.tyI)] ELSE meant

(* A path that is fetched leaves the natives and references of the field   *)
(* that its names mean, through structs and references, and nothing else.  *)
FetchesField ==
  phase = "done" /\ form.end = "fetch" => ws = Leaves(Meant.tyI, Meant.at)

(* A store, by a path or by srOffset, changes the field that is meant, each*)
(* native of it by its own part of the value, and no other byte.           *)
StoresField ==
  phase = "done" /\ form.end = "store" =>
    LET to == Leaves(Meant.tyI, Meant.at)  val == Leaves(Meant.tyI, Token)
    IN  /\ ws = << >>
        /\ stored = { [at |-> to[j].at, sz |-> to[j].sz, val |-> val[j]] :
                       j \in DOMAIN to }

(* & leaves a reference to the field that is meant.                        *)
PointsAtField ==
  phase = "done" /\ form.end = "ref" => Len(ws) = 1 /\ PointsTo(ws[1]) = meant.at

(* The types on the stack of the compiler are those of the values that the *)
(* statement leaves.  (Not so after a dot on the stack: N_dot lets the type*)
(* of the reference remain below that of the field.)                       *)
StackTyped ==
  phase = "done" /\ form.start # "dot" =>
    [j \in DOMAIN ws |-> ws[j].sz] =
      FlattenSeq([j \in DOMAIN db |->
        LET leaves == Leaves(db[j], Top)
        IN  [n \in DOMAIN leaves |-> leaves[n].sz]])
=============================================================================
