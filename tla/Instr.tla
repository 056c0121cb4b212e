-------------------------------- MODULE Instr --------------------------------
(***************************************************************************)
(* The bytes of a program: literals, accesses to globals, calls and ifs    *)
(* are compiled to instructions with operands of their own width and order *)
(* (lit, opCompile), which the machine takes apart again (executeInstr).   *)
(* In an imm block the same tokens are executed at once, by other code     *)
(* (opImm, executeFn, _ifImm).  Here each token of a program is compiled   *)
(* and executed, and both must come to what the token means.               *)
(*                                                                         *)
(* The programs keep to the rules of Flow (an if leaves the same types     *)
(* whichever branch is taken), of Types (references are to exactly the     *)
(* type that is required) and of Vm (functions that are called from C have *)
(* no locals).                                                             *)
(***************************************************************************)
EXTENDS Integers, Sequences, SequencesExt, FiniteSetsExt, TLC

CONSTANTS
  B,         \* the values of a byte, 0 to B - 1
  SLIT_MAX,  \* the largest literal inside of an instruction
  Lits,      \* the literals of the source
  Field,     \* the fields of a type: records of its offset and its type
  Size,      \* of a type, in bytes
  Global,    \* the types of the global variables
  RefVar,    \* variables that are a reference, and the global they refer to
  Function,  \* each fetches a field of what it gets a reference to
  Inline,    \* those that are inline
  Values,    \* what the globals are initialised to
  Rules,     \* what the source keeps to and the compiler does not enforce
  MaxToks, MaxDepth, MaxIfs   \* bounds: tokens; handlers that wait; branches

(***************************************************************************)
(* Rules of the source program:                                            *)
(*   "shortOffset" no field behind a reference has an offset of more than  *)
(*                 a byte                                                  *)
(*   "methAtStart" in imm no method is called on a field                   *)
(*   "castFits"    a cast keeps the value                                  *)
(*   "ownValue"    the value of a store through a reference is written     *)
(*                 behind the equals sign                                  *)
(*   "inlineLast"  nothing follows a call of an inline function            *)
(***************************************************************************)
RuleNames == {"shortOffset", "methAtStart", "castFits", "ownValue", "inlineLast"}

RSIZE  == 4
Native == {"U1", "U2", "U4"}
T(refs, ty) == [refs |-> refs, ty |-> ty]

ASSUME ByteAssumption   == B \in Nat /\ SLIT_MAX \in 0..(B - 1)
ASSUME FieldAssumption  == \A t \in DOMAIN Field : \A f \in Field[t] : f.ty \in DOMAIN Field
ASSUME GlobalAssumption == \A g \in DOMAIN Global : Global[g] \in DOMAIN Field
ASSUME FnAssumption     == Inline \subseteq DOMAIN Function
ASSUME RulesAssumption  == Rules \subseteq RuleNames
ASSUME BoundsAssumption == {MaxToks, MaxDepth, MaxIfs} \subseteq Nat

VARIABLES
  code,  \* the code buffer
  imm,   \* the machine that executes each token at once
  want,  \* what the tokens mean: values, the memory by parts, and the ifs
  tys,   \* the types on the stack, the top last
  ctl,   \* the handlers that wait for tokens, the innermost last
  toks,  \* of the bound
  ifs,   \* of the bound
  over   \* an inline function has been called

vars == <<code, imm, want, tys, ctl, toks, ifs, over>>

-----------------------------------------------------------------------------
(* Memory.  A value is a number <<n>> or an address <<variable, offset>>,  *)
(* a byte is <<n>> or the i-th byte of an address.                         *)

Plus(addr, n) == <<addr[1], addr[2] + n>>

(* A number of sz bytes, the lowest first.                                 *)
Bytes(n, sz) == [i \in 1..sz |-> <<(n \div B^(i - 1)) % B>>]
Number(bytes) == <<FoldRight(LAMBDA b, n : n * B + b[1], bytes, 0)>>

Valid(mem, at, sz) ==
  Len(at) = 2 /\ at[1] \in DOMAIN mem /\ at[2] + sz <= Len(mem[at[1]])
Before(s, at)   == SubSeq(s, 1, at[2])
Behind(s, at, n) == SubSeq(s, at[2] + n + 1, Len(s))

ftSzI(mem, at, sz) ==
  LET bytes == SubSeq(mem[at[1]], at[2] + 1, at[2] + sz)
  IN  IF \A i \in DOMAIN bytes : Len(bytes[i]) = 1 THEN Number(bytes)
      ELSE <<bytes[1][1], bytes[1][2]>>

srSzI(mem, at, sz, v) ==
  LET bytes == IF Len(v) = 1 THEN Bytes(v[1], sz) ELSE [i \in 1..sz |-> Append(v, i)]
  IN  [mem EXCEPT ![at[1]] = Before(@, at) \o bytes \o Behind(@, at, sz)]

(* The fields of a type and of its fields, with their offsets.             *)
Parts[t \in DOMAIN Field] ==
  {[off |-> 0, ty |-> t]} \union
  UNION {{[off |-> f.off + p.off, ty |-> p.ty] : p \in Parts[f.ty]} : f \in Field[t]}

Leaves   == {<<g, p>> \in (DOMAIN Global) \X UNION {Parts[t] : t \in DOMAIN Field} :
               p \in Parts[Global[g]] /\ p.ty \in Native}
Places   == {<<l[1], l[2].off>> : l \in Leaves}
TyAt(at) == (CHOOSE l \in Leaves : <<l[1], l[2].off>> = at)[2].ty

(* Memory at the start; there is something between the fields and behind   *)
(* each variable.                                                          *)
Memory0 ==
  FoldSet(LAMBDA at, mem : srSzI(mem, at, Size[TyAt(at)], Values[at]),
          [v \in DOMAIN Global \union DOMAIN RefVar |->
             IF v \in DOMAIN Global THEN [i \in 1..(Size[Global[v]] + RSIZE) |-> <<B - 1>>]
             ELSE [i \in 1..RSIZE |-> <<RefVar[v], 0, i>>]],
          Places)

(* The bytes that are in no field.                                         *)
Between ==
  UNION {{v} \X DOMAIN Memory0[v] : v \in DOMAIN Memory0} \
  UNION {{<<at[1], at[2] + i>> : i \in 1..Size[TyAt(at)]} : at \in Places}

-----------------------------------------------------------------------------
(* Code: instructions <<"instr", op, size>> and the bytes of operands, BE; *)
(* an address has four that are not numbers.                               *)

Instr(op, sz)     == << <<"instr", op, sz>> >>
Buf_addBE(n, sz)  == Reverse(Bytes(n, sz))
addressOf(name)   == [i \in 1..RSIZE |-> <<name, i>>]

popLit(c, i, sz) ==
  IF Len(c[i]) = 2 THEN <<c[i][1], 0>> ELSE Number(Reverse(SubSeq(c, i, i + sz - 1)))

lit(v) ==
  CASE v <= SLIT_MAX                -> Instr("SLIT", v)
    [] v > SLIT_MAX /\ v < B        -> Instr("LIT", 1) \o Buf_addBE(v, 1)
    [] v >= B /\ v < B * B          -> Instr("LIT", 2) \o Buf_addBE(v, 2)
    [] v >= B * B                   -> Instr("LIT", 4) \o Buf_addBE(v, 4)

(* The operand of FTO and SRO is one byte, and missing if it is zero.      *)
opCompile(op, sz, off, g) ==
  CASE op = "FTO" /\ off = 0 -> Instr("FT", sz)
    [] op = "SRO" /\ off = 0 -> Instr("SR", sz)
    [] op \in {"FTO", "SRO"} /\ off > 0 -> Instr(op, sz) \o Buf_addBE(off % B, 1)
    [] op \in {"FTGL", "SRGL", "GR"}    -> Instr(op, sz) \o addressOf(g) \o Buf_addBE(off, 2)

(* Signed numbers of two bytes: the distance of a jump.                    *)
I2(n) == IF 2 * n < B * B THEN n ELSE n - B * B
U4(n) == n % (B^4)

-----------------------------------------------------------------------------
(* The machine.                                                            *)

(* A function is its code; it ends with RET.                               *)
fnCode(f) == opCompile("FTO", Size[Function[f].ty], Function[f].off, "") \o Instr("RET", 0)

(* `at' is the place of the next instruction, behind those that called.    *)
Machine0 == [ws |-> << >>, mem |-> Memory0, at |-> << >>, fault |-> FALSE, ifs |-> << >>]

Under(s, n) == SubSeq(s, 1, Len(s) - n)
Binary == {"ADD", "SUB", "EQ"}

Operands(op) ==
  CASE op \in Binary \union {"SWP", "OVR", "SR", "SRO", "MMV"} -> 2
    [] op \in {"DRP", "DUP", "INV", "FT", "FTO", "SRGL", "JLZ"} -> 1
    [] OTHER -> 0

Arith(op, l, r) ==
  CASE op = "ADD" -> U4(l + r)
    [] op = "SUB" -> U4(l - r)
    [] op = "EQ"  -> IF l = r THEN 1 ELSE 0

memmove(mem, to, from, n) ==
  [mem EXCEPT ![to[1]] =
     Before(@, to) \o SubSeq(mem[from[1]], from[2] + 1, from[2] + n) \o Behind(@, to, n)]

(* One instruction of the function that is active.                         *)
executeInstr(codes, m) ==
  LET here  == Last(m.at)
      c     == codes[here[1]]
      i     == here[2]
      op    == c[i][2]
      sz    == c[i][3]
      arg(j, n) == popLit(c, i + j, n)
      r     == Last(m.ws)
      l     == m.ws[Len(m.ws) - 1]
      Fault == [m EXCEPT !.fault = TRUE]
      To(j) == [m.at EXCEPT ![Len(m.at)] = <<here[1], j>>]
      (* With `push' for the operands, behind n bytes of the code.         *)
      Then(n, push)  == [m EXCEPT !.at = To(i + 1 + n), !.ws = Under(@, Operands(op)) \o push]
      Ft(n, at, off) == IF ~Valid(m.mem, at, off + sz) THEN Fault
                        ELSE Then(n, <<ftSzI(m.mem, Plus(at, off), sz)>>)
      Sr(n, at, off) == IF ~Valid(m.mem, at, off + sz) THEN Fault
                        ELSE [Then(n, << >>) EXCEPT !.mem = srSzI(@, Plus(at, off), sz, r)]
      Jmp(taken)     == [Then(2, << >>) EXCEPT
                           !.at = To(i + 3 + (IF taken THEN I2(arg(1, 2)[1]) - 2 ELSE 0))]
      global == arg(1, RSIZE)
      off2   == arg(1 + RSIZE, 2)[1]
      off1   == arg(1, 1)[1]
      len    == arg(1, 2)[1]
  IN  IF i \notin DOMAIN c \/ Len(c[i]) # 3 \/ Len(m.ws) < Operands(op) THEN Fault
      ELSE CASE op = "RET"  -> [m EXCEPT !.at = Front(@)]
             [] op = "SWP"  -> Then(0, <<r, l>>)
             [] op = "DRP"  -> Then(0, << >>)
             [] op = "OVR"  -> Then(0, <<l, r, l>>)
             [] op \in Binary -> IF Len(l) = 1 /\ Len(r) = 1
                                   THEN Then(0, << <<Arith(op, l[1], r[1])>> >>) ELSE Fault
             [] op = "SLIT" -> Then(0, << <<sz>> >>)
             [] op = "LIT"  -> Then(sz, <<arg(1, sz)>>)
             [] op = "FT"   -> Ft(0, r, 0)
             [] op = "FTO"  -> Ft(1, r, off1)
             [] op = "FTGL" -> Ft(RSIZE + 2, global, off2)
             [] op = "GR"   -> Then(RSIZE + 2, <<Plus(global, off2)>>)
             [] op = "SR"   -> Sr(0, l, 0)
             [] op = "SRO"  -> Sr(1, l, off1)
             [] op = "SRGL" -> Sr(RSIZE + 2, global, off2)
             [] op = "MMV"  -> IF Valid(m.mem, l, len) /\ Valid(m.mem, r, len)
                                 THEN [Then(2, << >>) EXCEPT !.mem = memmove(@, l, r, len)] ELSE Fault
             [] op = "JL"   -> Jmp(TRUE)
             [] op = "JLZ"  -> Jmp(r = <<0>>)
             [] op = "XL"   -> [m EXCEPT !.at = Append(To(i + 1 + RSIZE), <<global[1], 1>>)]

(* executeLoop, until the function it has started returns.  Without loops  *)
(* in the code, and with functions of one instruction, that takes less     *)
(* steps than this.                                                        *)
executeLoop(codes, m0, f) ==
  LET run[n \in 0..(2 * Len(codes[f]))] ==
        IF n = 0 THEN [m0 EXCEPT !.at = << <<f, 1>> >>]
        ELSE LET m == run[n - 1]
             IN  IF m.at = << >> \/ m.fault THEN m ELSE executeInstr(codes, m)
  IN  run[2 * Len(codes[f])]

-----------------------------------------------------------------------------
(* At once: the machine `imm', between tokens.                             *)

srThrough(m, sz, off) ==
  LET at == m.ws[Len(m.ws) - 1]
  IN  IF ~Valid(m.mem, at, off + sz) THEN [m EXCEPT !.fault = TRUE]
      ELSE [m EXCEPT !.ws = Under(@, 2), !.mem = srSzI(@, Plus(at, off), sz, Last(m.ws))]

(* Mutant: the offset of a store through a reference is left out.          *)
opImm_atStart(m, op, sz, off, g) ==
  CASE op = "FTGL" -> [m EXCEPT !.ws = Append(@, ftSzI(m.mem, <<g, off>>, sz))]
    [] op = "SRGL" -> [m EXCEPT !.ws = Front(@), !.mem = srSzI(@, <<g, off>>, sz, Last(m.ws))]
    [] op = "FTO"  -> [m EXCEPT !.ws = Append(Front(@), ftSzI(m.mem, Plus(Last(@), off), sz))]
    [] op = "SRO"  -> srThrough(m, sz, 0)
    [] op = "GR"   -> [m EXCEPT !.ws = Append(@, <<g, 0>>)]

opImm(m, op, sz, off, g) ==
  CASE op = "FTGL" -> [m EXCEPT !.ws = Append(@, ftSzI(m.mem, <<g, off>>, sz))]
    [] op = "SRGL" -> [m EXCEPT !.ws = Front(@), !.mem = srSzI(@, <<g, off>>, sz, Last(m.ws))]
    [] op = "FTO"  -> [m EXCEPT !.ws = Append(Front(@), ftSzI(m.mem, Plus(Last(@), off), sz))]
    [] op = "SRO"  -> srThrough(m, sz, off)
    [] op = "GR"   -> [m EXCEPT !.ws = Append(@, <<g, 0>>)]

executeFn(m, fn) == executeLoop("fn" :> fn, m, "fn")

-----------------------------------------------------------------------------
(* Types.                                                                  *)

litTy(v) == IF v < B THEN "U1" ELSE IF v < B * B THEN "U2" ELSE "U4"

(* TyI_check: natives need not be as large as required.                    *)
TyI_check(req, given) ==
  \/ req = given
  \/ req.refs = 0 /\ given.refs = 0 /\ {req.ty, given.ty} \subseteq Native
     /\ Size[req.ty] >= Size[given.ty]
CheckAll(rs, gs) == Len(rs) = Len(gs) /\ \A i \in DOMAIN rs : TyI_check(rs[i], gs[i])

(* The types that nobody waits for: rule ownValue.                         *)
Own == LET waiting == {ctl[f].base : f \in {g \in DOMAIN ctl : ctl[g].kind = "sr"}}
       IN  IF "ownValue" \in Rules /\ waiting # {} THEN Max(waiting) ELSE 0

Takes(inp) ==
  /\ Len(tys) >= Own + Len(inp)
  /\ CheckAll(inp, SubSeq(tys, Len(tys) - Len(inp) + 1, Len(tys)))

S == T(0, "U4")

(* The types that a native function takes and leaves, and what it means.   *)
inp(op) == CASE op = "DRP" -> <<S>> [] OTHER -> <<S, S>>
out(op) == CASE op = "DRP" -> << >>    [] op = "SWP" -> <<S, S>>
             [] op = "OVR" -> <<S, S, S>> [] op = "EQ"  -> <<T(0, "U1")>>
             [] OTHER      -> <<S>>
Means(op, a) ==
  CASE op = "DRP" -> << >>
    [] op = "SWP" -> <<a[2], a[1]>>
    [] op = "OVR" -> <<a[1], a[2], a[1]>>
    [] OTHER      -> << <<Arith(op, a[1][1], a[2][1])>> >>

-----------------------------------------------------------------------------
(* Tokens.                                                                 *)

Init ==
  /\ code = << >> /\ imm = Machine0 /\ want = [ws |-> << >>, mem |-> Values, ifs |-> << >>]
  /\ tys = << >> /\ ctl = << >> /\ toks = 0 /\ ifs = 0 /\ over = FALSE

(* In the branch of an imm#if that is not taken all tokens are comments.   *)
On(x) == \A f \in DOMAIN x.ifs : x.ifs[f].on

(* A token: the code that is added, and what it does to the stacks.        *)
Emit(bytes, executed, meant, types) ==
  /\ toks < MaxToks /\ toks' = toks + 1 /\ ~over /\ UNCHANGED ifs
  /\ code' = code \o bytes
  /\ imm'  = IF On(imm) THEN executed ELSE imm
  /\ want' = IF On(want) THEN meant ELSE want
  /\ tys'  = types

Leave == UNCHANGED <<ctl, over>>

Push(x, v)    == [x EXCEPT !.ws = Append(@, v)]
Drop(x, n)    == [x EXCEPT !.ws = Under(@, n)]
TopOf(x)      == Last(x.ws)
ValueAt(at)   == want.mem[at]

compileLit(v) ==
  /\ Emit(lit(v), Push(imm, <<v>>), Push(want, <<v>>), Append(tys, T(0, litTy(v))))
  /\ Leave

(* compileFn of a native that is inline.                                   *)
compileInline(op) ==
  LET n == Len(inp(op)) IN
  /\ Takes(inp(op))
  /\ Emit(Instr(op, 0), executeFn(imm, Instr(op, 0) \o Instr("RET", 0)),
          [want EXCEPT !.ws = Under(@, n) \o Means(op, SubSeq(@, Len(@) - n + 1, Len(@)))],
          Under(tys, n) \o out(op))
  /\ Leave

(* A part of a global that is native is fetched, or stored.                *)
compileVar(g, p) ==
  /\ Emit(opCompile("FTGL", Size[p.ty], p.off, g), opImm(imm, "FTGL", Size[p.ty], p.off, g),
          Push(want, ValueAt(<<g, p.off>>)), Append(tys, T(0, p.ty)))
  /\ Leave

srVar(g, p) ==
  /\ Takes(<<T(0, p.ty)>>)
  /\ Emit(opCompile("SRGL", Size[p.ty], p.off, g), opImm(imm, "SRGL", Size[p.ty], p.off, g),
          [Drop(want, 1) EXCEPT !.mem[<<g, p.off>>] = TopOf(want)], Under(tys, 1))
  /\ Leave

Short(off) == "shortOffset" \in Rules => off < B

(* The same through a reference in a global.                               *)
refImm(v)  == opImm(imm, "FTGL", RSIZE, 0, v)
refCode(v) == opCompile("FTGL", RSIZE, 0, v)

compileRefVar(v, p) ==
  /\ Short(p.off)
  /\ Emit(refCode(v) \o opCompile("FTO", Size[p.ty], p.off, ""),
          opImm(refImm(v), "FTO", Size[p.ty], p.off, ""),
          Push(want, ValueAt(<<RefVar[v], p.off>>)), Append(tys, T(0, p.ty)))
  /\ Leave

(* The address goes first: it waits for the value, and for SRO.  What is   *)
(* meant is a store to the part `to', without an address on a stack.       *)
Waiting(ty, off, to, base) ==
  [kind |-> "sr", ty |-> ty, off |-> off, to |-> to, base |-> base]

srRefVar(v, p) ==
  /\ Short(p.off) /\ Len(ctl) < MaxDepth
  /\ Emit(refCode(v), refImm(v), want, tys)
  /\ ctl' = Append(ctl, Waiting(p.ty, p.off, <<RefVar[v], p.off>>, Len(tys))) /\ UNCHANGED over

(* N_at with an equals sign, of a reference on the stack.                  *)
srAt ==
  LET t == Last(tys) IN
  /\ Len(ctl) < MaxDepth /\ Len(tys) > Own /\ t.refs = 1 /\ t.ty \in Native
  /\ Emit(<< >>, imm, Drop(want, 1), Under(tys, 1))
  /\ ctl' = Append(ctl, Waiting(t.ty, 0, IF On(want) THEN TopOf(want) ELSE << >>, Len(tys) - 1))
  /\ UNCHANGED over

srEnd ==
  LET f == Last(ctl) IN
  /\ ctl # << >> /\ f.kind = "sr" /\ Takes(<<T(0, f.ty)>>)
  /\ "ownValue" \in Rules => Len(tys) = f.base + 1
  /\ Emit(opCompile("SRO", Size[f.ty], f.off, ""), opImm(imm, "SRO", Size[f.ty], f.off, ""),
          [Drop(want, 1) EXCEPT !.mem[f.to] = TopOf(want)], Under(tys, 1))
  /\ ctl' = Front(ctl) /\ UNCHANGED over

(* N_at of a reference on the stack.                                       *)
N_at ==
  LET t == Last(tys) IN
  /\ Len(tys) > Own /\ t.refs = 1 /\ t.ty \in Native
  /\ Emit(opCompile("FTO", Size[t.ty], 0, ""), opImm(imm, "FTO", Size[t.ty], 0, ""),
          [want EXCEPT !.ws = Append(Front(@), ValueAt(Last(@)))],
          Append(Front(tys), T(0, t.ty)))
  /\ Leave

(* N_amp of a part of a global, which for imm has its own sum.             *)
N_amp(g, p) ==
  /\ Emit(opCompile("GR", 0, p.off, g), Push(imm, <<g, p.off>>), Push(want, <<g, p.off>>),
          Append(tys, T(1, p.ty)))
  /\ Leave

(* _atEq: what the second reference refers to is moved to the first.       *)
atEq ==
  LET t    == Last(tys)
      n    == Size[t.ty]
      l    == want.ws[Len(want.ws) - 1]
      from(at) == Plus(TopOf(want), at[2] - l[2])
      moved == {Plus(l, p.off) : p \in {q \in Parts[t.ty] : q.ty \in Native}}
  IN  /\ Len(tys) > Own + 1 /\ t.refs = 1 /\ t = tys[Len(tys) - 1]
      /\ Emit(Instr("MMV", 0) \o Buf_addBE(n, 2),
              [Drop(imm, 2) EXCEPT !.mem = memmove(@, imm.ws[Len(imm.ws) - 1], TopOf(imm), n)],
              [Drop(want, 2) EXCEPT !.mem =
                 [at \in Places |-> IF at \in moved THEN want.mem[from(at)] ELSE want.mem[at]]],
              Under(tys, 2))
      /\ Leave

(* compileDict of a native: a cast is only one of types.                   *)
cast(ty) ==
  /\ Len(tys) > Own /\ Last(tys).refs = 0
  /\ "castFits" \in Rules /\ On(want) => TopOf(want)[1] < B^Size[ty]
  /\ Emit(<< >>, imm, want, Append(Front(tys), T(0, ty)))
  /\ Leave

(* compileFn of a function of the source: all the bytes of one that is     *)
(* inline, the RET at its end with them.                                   *)
callCode(f) == IF f \in Inline THEN fnCode(f) ELSE Instr("XL", 0) \o addressOf(f)

Returned(x, f) == [x EXCEPT !.ws = Append(Front(@), ValueAt(Plus(Last(@), Function[f].off)))]

compileFn(f) ==
  /\ Takes(<<T(1, Function[f].self)>>)
  /\ Emit(callCode(f), executeFn(imm, fnCode(f)), Returned(want, f),
          Append(Front(tys), T(0, Function[f].ty)))
  /\ over' = ("inlineLast" \in Rules /\ f \in Inline) /\ UNCHANGED ctl

(* The same as a method behind a path: DotPath_makeRef1 makes an address   *)
(* of the path, with its offset.                                           *)
compileMeth(g, p, f) ==
  /\ p.ty = Function[f].self
  /\ "methAtStart" \in Rules => p.off = 0
  /\ Emit(opCompile("GR", 0, p.off, g) \o callCode(f),
          executeFn(opImm(imm, "GR", 0, p.off, g), fnCode(f)),
          Returned(Push(want, <<g, p.off>>), f),
          Append(tys, T(0, Function[f].ty)))
  /\ over' = ("inlineLast" \in Rules /\ f \in Inline) /\ UNCHANGED ctl

-----------------------------------------------------------------------------
(* if, elif and else.                                                      *)

(* _if: a jump whose distance is not known yet, and the place of it.       *)
_if(c)        == c \o Instr("JLZ", 2) \o Buf_addBE(0, 2)
_else(c)      == c \o Instr("JL", 2) \o Buf_addBE(0, 2)
jumpIn(c)     == Len(c) - 1

(* Mutant: the distance is counted from behind the operand.                *)
_endIf_behind(c, i) ==
  LET distance == Buf_addBE(Len(c) - i - 1, 2)
  IN  [c EXCEPT ![i] = distance[1], ![i + 1] = distance[2]]

(* _endIf: srBE2 of the distance, counted from the operand itself.         *)
_endIf(c, i) ==
  LET distance == Buf_addBE(Len(c) - (i - 1), 2)
  IN  [c EXCEPT ![i] = distance[1], ![i + 1] = distance[2]]

(* _ifImm, and what it means: the condition has been executed, if none     *)
(* before it was true.                                                     *)
Condition(x) ==
  IF ~On(x) THEN x
  ELSE [Drop(x, 1) EXCEPT !.ifs = Append(Front(@), [on |-> TopOf(x) # <<0>>, branched |-> TopOf(x) # <<0>>])]
Start(x)   == Condition([x EXCEPT !.ifs = Append(@, [on |-> TRUE, branched |-> FALSE])])
Another(x) == [x EXCEPT !.ifs[Len(x.ifs)].on = ~x.ifs[Len(x.ifs)].branched]
Finish(x)  == [x EXCEPT !.ifs = Front(@)]

Handle(x) == imm' = x[1] /\ want' = x[2] /\ UNCHANGED <<toks, over>>

Bool   == T(0, "U4")
Branch == ifs < MaxIfs /\ ifs' = ifs + 1

(* N_if, up to the branch.                                                 *)
N_if ==
  /\ Len(ctl) < MaxDepth /\ Branch /\ Takes(<<Bool>>) /\ ~over
  /\ code' = _if(code) /\ tys' = Front(tys)
  /\ ctl' = Append(ctl, [kind |-> "if", i |-> jumpIn(_if(code)), ends |-> << >>,
                         before |-> Front(tys), after |-> << >>])
  /\ Handle(<<Start(imm), Start(want)>>)

InIf(kinds) == ctl # << >> /\ Last(ctl).kind \in kinds

(* tyIf: the branches leave the same types.                                *)
First(f)   == f.ends = << >>
Matches(f) == First(f) \/ CheckAll(f.after, tys)
After(f)   == IF First(f) THEN tys ELSE f.after

(* _N_if: elif, up to the condition, or else.                              *)
_N_if_else(kind) ==
  LET f == Last(ctl) IN
  /\ InIf({"if"}) /\ Branch /\ Matches(f)
  /\ code' = _endIf(_else(code), f.i) /\ tys' = f.before
  /\ ctl' = [ctl EXCEPT ![Len(ctl)] = [f EXCEPT !.kind = kind, !.after = After(f),
                                              !.ends = Append(@, jumpIn(_else(code)))]]
  /\ Handle(<<Another(imm), Another(want)>>)

(* The condition of an elif: "elif conditional changed type stack".        *)
_N_if_elif ==
  LET f == Last(ctl) IN
  /\ InIf({"elif"}) /\ Takes(<<Bool>>) /\ Front(tys) = f.before
  /\ ~over /\ UNCHANGED ifs
  /\ code' = _if(code) /\ tys' = f.before
  /\ ctl' = [ctl EXCEPT ![Len(ctl)] = [f EXCEPT !.kind = "if", !.i = jumpIn(_if(code))]]
  /\ Handle(<<Condition(imm), Condition(want)>>)

(* The end; without an else a branch leaves the types that were before it. *)
tyIfEnd ==
  LET f == Last(ctl) IN
  /\ InIf({"if", "else"}) /\ Matches(f) /\ UNCHANGED ifs
  /\ f.kind = "if" => After(f) = f.before
  /\ code' = FoldRight(LAMBDA i, c : _endIf(c, i), f.ends,
                       IF f.kind = "if" THEN _endIf(code, f.i) ELSE code)
  /\ tys' = After(f) /\ ctl' = Front(ctl)
  /\ Handle(<<Finish(imm), Finish(want)>>)

-----------------------------------------------------------------------------
Token ==
  \/ \E v \in Lits : compileLit(v)
  \/ \E op \in Binary \union {"SWP", "DRP", "OVR"} : compileInline(op)
  \/ \E g \in DOMAIN Global : \E p \in Parts[Global[g]] :
       \/ p.ty \in Native /\ (compileVar(g, p) \/ srVar(g, p))
       \/ N_amp(g, p)
       \/ \E f \in DOMAIN Function : compileMeth(g, p, f)
  \/ \E v \in DOMAIN RefVar : \E p \in Parts[Global[RefVar[v]]] :
       p.ty \in Native /\ (compileRefVar(v, p) \/ srRefVar(v, p))
  \/ srAt \/ srEnd \/ N_at \/ atEq
  \/ \E ty \in Native : cast(ty)
  \/ \E f \in DOMAIN Function : compileFn(f)

If == N_if \/ (\E kind \in {"elif", "else"} : _N_if_else(kind)) \/ _N_if_elif \/ tyIfEnd

Next == Token \/ If
Spec == Init /\ [][Next]_vars

-----------------------------------------------------------------------------
(* What the machine x has come to is what the tokens mean.                 *)
AsMeant(x) ==
  /\ ~x.fault /\ x.ws = want.ws
  /\ \A l \in Leaves : LET at == <<l[1], l[2].off>>
                       IN  ftSzI(x.mem, at, Size[l[2].ty]) = want.mem[at]
  /\ \A b \in Between : x.mem[b[1]][b[2]] = Memory0[b[1]][b[2]]

(***************************************************************************)
(* The code of a statement, read back byte by byte, does what its tokens   *)
(* mean: each operand is decoded with the width and the order in which it  *)
(* has been written, each jump goes to the end of what it is to skip, and  *)
(* each store writes the bytes of its part and no other.                   *)
(***************************************************************************)
CompiledAsMeant ==
  ctl = << >> =>
    AsMeant(executeLoop([f \in DOMAIN Function |-> fnCode(f)] @@ ("main" :> code \o Instr("RET", 0)),
                        Machine0, "main"))

(* The same tokens in imm, executed one by one, come to the same when no   *)
(* store waits for its value.                                              *)
ImmAsMeant ==
  On(want) => On(imm) /\ ((\A f \in DOMAIN ctl : ctl[f].kind # "sr") => AsMeant(imm))
=============================================================================
