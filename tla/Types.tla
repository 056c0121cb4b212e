-------------------------------- MODULE Types --------------------------------
(***************************************************************************)
(* The static types of the compiler against the values that code runs on:  *)
(* structs that extend a parent, methods with a Self, roles and their      *)
(* implementations, references, and the checks between a value that is     *)
(* required and one that is given.                                         *)
(*                                                                         *)
(* The statements are those of an imm block, each of which is compiled and *)
(* run before the next token is compiled, so that the type database        *)
(* (tys) and the working stack (ws) can be compared after every step.      *)
(***************************************************************************)
EXTENDS Integers, Sequences, SequencesExt, FiniteSets, TLC

CONSTANTS
  Struct,    \* names of the structs
  Role,      \* the name of the role
  Fields,    \* of a struct: a sequence of [name, ty]
  Op,        \* of the role: the signature of each of its absmeths
  Method,    \* the methods the source may declare: <<struct, name>> to signature
  Fn,        \* signatures of other functions
  Global,    \* the global variables and their types
  Values,    \* what they are initialised to, or << >> for later
  Rules,     \* what the source keeps to and the compiler does not enforce
  MaxVals,   \* bound: values on the stack
  MaxCalls   \* bound: calls whose arguments are being compiled

(***************************************************************************)
(* Rules of the source program:                                            *)
(*   "noLateMeth"  a struct gets no method that one of its children has    *)
(*   "newRepl"     after a panic of a declaration the user leaves          *)
(*   "implAll"     an impl assigns every op                                *)
(*   "sameInputs"  what an impl assigns has exactly the inputs of the op   *)
(*   "ownSelf"     an op with a second Self is not called, and the Self    *)
(*                 that an op returns is not looked into                   *)
(*   "stillRole"   the arguments of a role call leave the role as it is    *)
(*   "selfOut"     a method that returns a Self returns the one it got     *)
(*   "valueExact"  no struct is given by value for its parent              *)
(*   "oneRef"      behind two references nothing is converted              *)
(*   "refWidth"    neither is a native behind a reference                  *)
(*   "noChildMove" @= moves no child to where a parent is                  *)
(*   "ownValue"    the value of a store through a reference is written     *)
(*                 behind the equals sign, and no other value is           *)
(*   "ownArgs"     so are the arguments of a role call behind its name     *)
(*   "structStore" an equals sign stores no struct and no role, but in the *)
(*                 declaration of a global                                 *)
(***************************************************************************)
RuleNames == {"noLateMeth", "newRepl", "implAll", "sameInputs", "ownSelf", "stillRole",
              "selfOut", "valueExact", "oneRef", "refWidth", "noChildMove", "ownValue", "ownArgs",
              "structStore"}

Native == {"U1", "U4"}

(* A TyI: a number of references to a native, a struct, a role or Self.    *)
T(refs, ty) == [refs |-> refs, ty |-> ty]
rSelf       == T(1, "Self")
Type        == [refs : 0..2, ty : Struct \union Native \union {Role, "Self"}]

(* Self is a type of signatures only, and there by reference; a field is   *)
(* no role, and what a function returns is a native or a reference.        *)
Named     == {t \in Type : t.ty # "Self"}
FieldType == Named \ {T(0, Role)}
InType    == Named \union {rSelf}
OutType   == InType \ {T(0, ty) : ty \in Struct \union {Role}}
Single(t) == t.refs > 0 \/ t.ty \in Native
Signature == [inp : Seq(InType), out : {<< >>} \union {<<t>> : t \in OutType}]

ASSUME NamesAssumption ==
  /\ Role \notin Struct \union Native \union {"Self"}
  /\ Struct \intersect (Native \union {"Self", "fn"}) = {}
ASSUME TypeAssumption ==
  /\ Fields \in [Struct -> Seq([name : STRING, ty : FieldType])]
  /\ DOMAIN Method \subseteq Struct \X {c[2] : c \in DOMAIN Method}
  /\ Op \in [DOMAIN Op -> Signature] /\ Method \in [DOMAIN Method -> Signature]
  /\ Fn \in [DOMAIN Fn -> Signature]
  /\ Global \in [DOMAIN Global -> Named] /\ Values = [g \in DOMAIN Global |-> Values[g]]
(* Structs are made of structs that are finished, one of them the parent.  *)
ASSUME StructAssumption ==
  /\ IsFiniteSet(Struct)
  /\ \A s \in Struct : Fields[s] # << >> /\ Fields[s][1].name = "parent" =>
       Fields[s][1].ty \in {T(0, p) : p \in Struct}
  /\ \E rank \in [Struct -> 0..Cardinality(Struct)] : \A s, p \in Struct :
       \A i \in DOMAIN Fields[s] : Fields[s][i].ty = T(0, p) => rank[p] < rank[s]
ASSUME RulesAssumption  == Rules \subseteq RuleNames
ASSUME BoundsAssumption == MaxVals \in Nat /\ MaxCalls \in Nat

VARIABLES
  meths,   \* the methods that are declared
  impls,   \* of a struct and an op: what the memory of the impl has, if there is any
  opened,  \* the structs for which an impl is declared
  mem,     \* the contents of the globals
  tys,     \* types of the imm type database, the top last
  ws,      \* the working stack, the top last
  ctl,     \* the calls and stores whose arguments are being compiled
  phase,   \* "run", or "left" when the user has gone
  faults   \* history: what went wrong when code ran

vars == <<meths, impls, opened, mem, tys, ws, ctl, phase, faults>>
dicts == <<meths, impls, opened>>

-----------------------------------------------------------------------------
(* Structs and their parts.                                                *)

Parent(s)    == IF Fields[s] # << >> /\ Fields[s][1].name = "parent" THEN {Fields[s][1].ty.ty} ELSE {}
(* A struct and its ancestors, in the order of TyDict_find.                *)
Lineage[s \in Struct] ==
  IF Parent(s) = {} THEN <<s>> ELSE <<s>> \o Lineage[CHOOSE p \in Parent(s) : TRUE]

(* The parent and its ancestors.                                           *)
Above(s) == Range(Tail(Lineage[s]))

(* TyDict_find: the nearest of the lineage that has it.                    *)
Finds(s, having)       == \E i \in DOMAIN Lineage[s] : Lineage[s][i] \in having
TyDict_find(s, having) == Lineage[s][Min({i \in DOMAIN Lineage[s] : Lineage[s][i] \in having})]

(* A value is a sequence of slots, one for each native or reference in it, *)
(* and two for a role: its data, and the methods of an impl.               *)
Slots[s \in Struct] ==
  LET Of(f) == IF f.ty.refs = 0 /\ f.ty.ty \in Struct THEN Slots[f.ty.ty] ELSE <<f.ty>>
  IN  FlattenSeq([i \in DOMAIN Fields[s] |-> Of(Fields[s][i])])
SlotsOf(t) == IF t.refs > 0 \/ t.ty \in Native \union {"Self"} THEN <<t>>
              ELSE IF t.ty = Role THEN <<rSelf, t>>
              ELSE Slots[t.ty]

AllSlots(ts) == FlattenSeq([i \in DOMAIN ts |-> SlotsOf(ts[i])])

Size(t)    == Len(SlotsOf(t))
SizeOf(ts) == Len(AllSlots(ts))

(* The parts of a value: their types, and the slots in front of them.      *)
PartsAt(parts, n) == {<<p[1] + n, p[2]>> : p \in parts}
Parts[s \in Struct] ==
  LET Off(i) == SizeOf([j \in 1..(i - 1) |-> Fields[s][j].ty])
      Of(t)  == IF t.refs = 0 /\ t.ty \in Struct THEN Parts[t.ty] ELSE {<<0, t>>}
  IN  {<<0, T(0, s)>>} \union UNION {PartsAt(Of(Fields[s][i].ty), Off(i)) : i \in DOMAIN Fields[s]}
PartsOf(t) == IF t.refs = 0 /\ t.ty \in Struct THEN Parts[t.ty] ELSE {<<0, t>>}

(* compileStruct loads the fields of a struct, and those of its fields, but*)
(* takes their offsets for those in the outer struct and follows references*)
(* to structs as if they were structs: it does what it should where only   *)
(* the first field is a struct.                                            *)
Plain[s \in Struct] ==
  \A i \in DOMAIN Fields[s] :
    Fields[s][i].ty.ty \in Struct => i = 1 /\ Fields[s][i].ty.refs = 0 /\ Plain[Fields[s][i].ty.ty]
Loads(t) == t.refs = 0 /\ t.ty \in Struct => Plain[t.ty]

-----------------------------------------------------------------------------
(* Type matching.                                                          *)

(* Mutant: a parent is accepted for its child.                             *)
TyI_check_swapped(r, g) ==
  /\ r.refs = g.refs
  /\ \/ r.ty = g.ty
     \/ r.ty = "U4" /\ g.ty \in Native
     \/ r.ty \in Struct /\ g.ty \in Struct /\ g.ty \in Above(r.ty)

(* TyI_check: what is required (r) against what is given (g).              *)
TyI_check(r, g) ==
  /\ r.refs = g.refs
  /\ \/ r.ty = g.ty
     \/ r.ty = "U4" /\ g.ty \in Native
     \/ r.ty \in Struct /\ g.ty \in Struct /\ r.ty \in Above(g.ty)

CheckAll(rs, gs) == Len(rs) = Len(gs) /\ \A i \in DOMAIN rs : TyI_check(rs[i], gs[i])

(* InOut_check, of signatures.                                             *)
InOut_check(r, g) == CheckAll(r.inp, g.inp) /\ CheckAll(r.out, g.out)

InOut_replaceSelf(io, s) ==
  LET New(ts) == [i \in DOMAIN ts |-> IF ts[i].ty = "Self" THEN T(ts[i].refs, s) ELSE ts[i]]
  IN  [inp |-> New(io.inp), out |-> New(io.out)]

(* tyCheck of the top of the type database; it must not underflow.         *)
Given(n)   == SubSeq(tys, Len(tys) - n + 1, Len(tys))
tyCheck(r) == Len(r) <= Len(tys) /\ CheckAll(r, Given(Len(r)))

(* What the rules leave of the conversions.                                *)
Ruled(r, g) ==
  /\ "valueExact" \in Rules /\ r.refs = 0 /\ r.ty \in Struct => r = g
  /\ "oneRef"     \in Rules /\ r.refs > 1                    => r = g
  /\ "refWidth"   \in Rules /\ r.refs > 0 /\ r.ty \in Native => r = g
(* The frames k of ctl keep what is under the values they wait for.        *)
Own(k, n) == \A i \in DOMAIN k :
  /\ "ownValue" \in Rules /\ k[i].at = "sr"   => Len(tys) - n >= k[i].types
  /\ "ownArgs"  \in Rules /\ k[i].at = "role" => Len(tys) - n >= k[i].types
Kept(k, r) ==
  tyCheck(r) => Own(k, Len(r)) /\ \A i \in DOMAIN r : Ruled(r[i], Given(Len(r))[i])

Under(n) == SubSeq(tys, 1, Len(tys) - n)
Room     == Len(tys) < MaxVals

-----------------------------------------------------------------------------
(* Values: numbers, references to a slot of a global, the methods of an    *)
(* impl, and what memory holds that nobody has written.                    *)

num        == <<"num">>
junk       == <<"junk">>
ref(g, n)  == <<"ref", g, n>>
methsOf(s) == <<"impl", s>>

IsRef(v)   == v[1] = "ref"
At(v)      == mem[v[2]][v[3] + 1]
SlotAt(v)  == SlotsOf(Global[v[2]])[v[3] + 1]
RefsTo(gs) == UNION {{ref(g, n) : n \in 0..(Size(Global[g]) - 1)} : g \in gs}

(* What is really in a slot, or behind it, is what its type says: an       *)
(* object of the struct or of one of its children, at least the bytes of   *)
(* the native, and in a role data that the methods are for.                *)
RefFits(v, t) ==
  /\ IsRef(v)
  /\ CASE t.ty = "Self"    -> TRUE
       [] t.ty \in Native  -> SlotAt(v) \in {T(0, t.ty), T(0, "U4")}
       [] OTHER            -> <<v[3], T(0, t.ty)>> \in PartsOf(Global[v[2]])

SlotFits(v, t) ==
  CASE t.refs = 0 -> v = num \/ t.ty \notin Native
    [] t.refs = 1 -> RefFits(v, t)
    [] t.refs = 2 -> IsRef(v) /\ SlotAt(v).refs > 0 /\ RefFits(At(v), T(1, t.ty))

(* The values of a list of types, one after the other.                     *)
AllFit(slots, ts) ==
  LET of == AllSlots(ts)
  IN  /\ Len(slots) = Len(of)
      /\ \A i \in DOMAIN of :
           /\ SlotFits(slots[i], of[i])
           /\ of[i] = T(0, Role) => slots[i][1] = "impl" /\ RefFits(slots[i - 1], T(1, slots[i][2]))

Fits(slots, t) == AllFit(slots, <<t>>)

(* The globals are initialised to numbers and to references to globals that*)
(* are.                                                                    *)
ASSUME ValuesAssumption ==
  LET given == {g \in DOMAIN Values : Values[g] # << >>}
  IN  \A g \in given :
        /\ Global[g] # T(0, Role) /\ Values[g] \in Seq({num} \union RefsTo(given))
        /\ Len(Values[g]) = Size(Global[g])
        /\ \A i \in DOMAIN Values[g] :
             LET v == Values[g][i]
                 t == SlotsOf(Global[g])[i]
             IN  CASE t.refs = 0 -> v = num
                   [] t.refs = 1 -> RefFits(v, t)
                   [] t.refs = 2 -> IsRef(v) /\ SlotAt(v) = T(1, t.ty)

wsTop(n)   == SubSeq(ws, Len(ws) - n + 1, Len(ws))
wsUnder(n) == SubSeq(ws, 1, Len(ws) - n)

Init ==
  /\ meths = {} /\ impls = [m \in {} |-> num] /\ opened = {} /\ mem = Values
  /\ tys = << >> /\ ws = << >> /\ ctl = << >> /\ phase = "run" /\ faults = {}

(* A panic, with Kern_errCleanup; the next input has a fresh snapshot in   *)
(* the imm type database.                                                  *)
Panic ==
  /\ tys' = << >> /\ ws' = << >> /\ ctl' = << >>
  /\ UNCHANGED <<dicts, mem, phase, faults>>

(* The user leaves, by the rule "newRepl".                                 *)
Leaves(panic) == IF panic /\ "newRepl" \in Rules THEN "left" ELSE "run"

Keep == UNCHANGED <<dicts, phase>>

-----------------------------------------------------------------------------
(* Declarations, between statements.                                       *)

Between == phase = "run" /\ tys = << >> /\ ctl = << >>

HasMeth(s, m)  == Finds(s, {q \in Struct : <<q, m>> \in meths})
FindMeth(s, m) == <<TyDict_find(s, {q \in Struct : <<q, m>> \in meths}), m>>

(* N_meth: parseFn has added the method to the struct when the ASSERT that *)
(* no parent has one fails.                                                *)
N_meth(s, m) ==
  /\ Between /\ <<s, m>> \in DOMAIN Method \ meths
  /\ "noLateMeth" \in Rules => \A q \in Struct : <<q, m>> \in meths => s \notin Above(q)
  /\ meths' = meths \union {<<s, m>>}
  /\ phase' = Leaves(HasMeth(s, m))
  /\ UNCHANGED <<impls, opened, mem, tys, ws, ctl, faults>>

(* _implRole, up to the brace: the memory of the methods is not cleared.   *)
N_impl(s) ==
  /\ Between /\ s \notin opened /\ opened' = opened \union {s}
  /\ ctl' = <<[at |-> "impl", struct |-> s, given |-> {}]>>
  /\ UNCHANGED <<meths, impls, mem, tys, ws, phase, faults>>

(* The signature that &q.m has: N_amp of a method.                         *)
ampSig(q, m) ==
  LET io == Method[FindMeth(q, m)]
  IN  InOut_replaceSelf([inp |-> <<rSelf>> \o io.inp, out |-> io.out], q)

opSig(op) == [inp |-> <<rSelf>> \o Op[op].inp, out |-> Op[op].out]

Assigned(key, code) == [k \in DOMAIN impls \union {key} |-> IF k = key THEN code ELSE impls[k]]

(* What the rules leave of the methods that fit an op.                     *)
Implements(r, io) ==
  /\ "sameInputs" \in Rules => r.inp = io.inp
  /\ \A i \in DOMAIN r.out : Ruled(r.out[i], io.out[i])

(* Mutant: what is assigned is not checked.                                *)
N_impl_assign_unchecked(op, q, m) ==
  /\ ctl # << >> /\ ctl[1].at = "impl" /\ HasMeth(q, m) /\ op \notin ctl[1].given
  /\ impls' = Assigned(<<ctl[1].struct, op>>, FindMeth(q, m))
  /\ ctl' = [ctl EXCEPT ![1].given = @ \union {op}]
  /\ UNCHANGED <<meths, opened, mem, tys, ws, phase, faults>>

(* An op is assigned &q.m, with a check that its signature is the op's; a  *)
(* panic leaves the impl as it is.                                         *)
N_impl_assign(op, q, m) ==
  LET r  == InOut_replaceSelf(opSig(op), ctl[1].struct)
      ok == InOut_check(r, ampSig(q, m))
  IN  /\ ctl # << >> /\ ctl[1].at = "impl" /\ HasMeth(q, m) /\ op \notin ctl[1].given
      /\ ok => Implements(r, ampSig(q, m))
      /\ impls' = IF ok THEN Assigned(<<ctl[1].struct, op>>, FindMeth(q, m)) ELSE impls
      /\ ctl' = IF ok THEN [ctl EXCEPT ![1].given = @ \union {op}] ELSE << >>
      /\ phase' = Leaves(~ok)
      /\ UNCHANGED <<meths, opened, mem, tys, ws, faults>>

N_impl_end ==
  /\ ctl # << >> /\ ctl[1].at = "impl" /\ ctl' = << >>
  /\ "implAll" \in Rules => ctl[1].given = DOMAIN Op
  /\ UNCHANGED <<dicts, mem, tys, ws, phase, faults>>

-----------------------------------------------------------------------------
(* Statements.                                                             *)

Stmt     == phase = "run" /\ (ctl # << >> => ctl[1].at # "impl")
Push(t, slots) == tys' = Append(tys, t) /\ ws' = ws \o slots

Declared(g) == mem[g] # << >>

(* The role behind a reference, and the one that a global is, or refers to:*)
(* its data and, behind them, its methods.                                 *)
RoleBehind(m, v) == SubSeq(m[v[2]], v[3] + 1, v[3] + 2)
RoleAt(m, g)     == IF Global[g].refs = 0 THEN m[g] ELSE RoleBehind(m, m[g][1])

(* The roles whose calls wait for their arguments, by the rule "stillRole".*)
RolesStill ==
  "stillRole" \in Rules =>
    \A i \in DOMAIN ctl : ctl[i].at = "role" => RoleAt(mem', ctl[i].var) = RoleAt(mem, ctl[i].var)

(* A literal; N_amp of a global or of a field in it.                       *)
compileLit ==
  /\ Stmt /\ Room /\ Push(T(0, "U4"), <<num>>)
  /\ Keep /\ UNCHANGED <<mem, ctl, faults>>

N_amp(g) ==
  /\ Stmt /\ Room /\ Declared(g)
  /\ \E part \in PartsOf(Global[g]) :
       part[2].refs < 2 /\ Push(T(part[2].refs + 1, part[2].ty), <<ref(g, part[1])>>)
  /\ Keep /\ UNCHANGED <<mem, ctl, faults>>

(* The value of a global; structs for which compileStruct does something   *)
(* else are in Access, and are not read here.                              *)
compileVar(g) ==
  /\ Stmt /\ Room /\ Declared(g) /\ Loads(Global[g]) /\ Push(Global[g], mem[g])
  /\ Keep /\ UNCHANGED <<mem, ctl, faults>>

(* A statement that takes values of the types r from the stack, while the  *)
(* frames k go on waiting.                                                 *)
Take(k, r, Then) ==
  /\ Stmt
  /\ IF ~tyCheck(r) THEN Panic ELSE Kept(k, r) /\ Then

(* compileVar followed by an equals sign.  addDotPath takes the types of a *)
(* struct or a role off and loads it, as it does without the equals sign.  *)
srVar(g) ==
  LET t == Global[g] IN
  /\ Declared(g) /\ Loads(t)
  /\ "structStore" \in Rules => Single(t)
  /\ Take(ctl, <<t>>, /\ IF Single(t)
                         THEN mem' = [mem EXCEPT ![g] = wsTop(1)] /\ ws' = wsUnder(1)
                         ELSE ws' = ws \o mem[g] /\ UNCHANGED mem
                      /\ RolesStill /\ tys' = Under(1)
                      /\ Keep /\ UNCHANGED <<ctl, faults>>)

(* The declaration of a global, from the equals sign on: _globalInit, with *)
(* srOffset for each field.  Where the value has another type the panic    *)
(* leaves the global as it was cleared.  Until it has its value a global is*)
(* not used, not in the value either.                                      *)
N_global(g) ==
  LET t       == Global[g]
      cleared == [i \in 1..Size(t) |-> IF SlotsOf(t)[i].refs = 0 THEN num ELSE junk]
  IN  /\ phase = "run" /\ ctl = << >> /\ ~Declared(g)
      /\ IF tyCheck(<<t>>)
         THEN /\ Kept(ctl, <<t>>)
              /\ mem' = [mem EXCEPT ![g] = wsTop(Size(t))]
              /\ tys' = Under(1) /\ ws' = wsUnder(Size(t)) /\ UNCHANGED phase
         ELSE /\ mem' = IF "newRepl" \in Rules THEN mem ELSE [mem EXCEPT ![g] = cleared]
              /\ tys' = << >> /\ ws' = << >> /\ phase' = Leaves(TRUE)
      /\ UNCHANGED <<dicts, ctl, faults>>

Opaque(t) == "ownSelf" \in Rules => t.ty # "Self"

(* N_at of the value on the stack: "@ on non-ref object", and a struct     *)
(* cannot be fetched through a reference; of a role come data and methods. *)
N_at ==
  LET t == Last(tys)
      v == Last(ws)
  IN  /\ Stmt /\ tys # << >> /\ Own(ctl, 1) /\ Opaque(t)
      /\ IF t.refs = 0 \/ (t.refs = 1 /\ t.ty \in Struct) THEN Panic
         ELSE /\ tys' = Append(Under(1), T(t.refs - 1, t.ty))
              /\ ws' = wsUnder(1) \o IF t = T(1, Role) THEN RoleBehind(mem, v) ELSE <<At(v)>>
              /\ Keep /\ UNCHANGED <<mem, ctl, faults>>

(* Mutant: the type of the address is required of the value.               *)
N_atSr_address ==
  LET t == Last(tys) IN
  /\ Stmt /\ tys # << >> /\ Own(ctl, 1) /\ Opaque(t) /\ Len(ctl) < MaxCalls
  /\ "structStore" \in Rules => t # T(1, Role)
  /\ IF t.refs = 0 THEN Panic
     ELSE /\ tys' = Under(1)
          /\ ctl' = Append(ctl, [at |-> "sr", ty |-> t, types |-> Len(tys) - 1, slots |-> Len(ws)])
          /\ Keep /\ UNCHANGED <<mem, ws, faults>>

(* The same in front of an equals sign: the address stays on the working   *)
(* stack, where no type tells of it, and waits for the value, which is     *)
(* compiled before a struct behind the reference is refused.               *)
N_atSr ==
  LET t == Last(tys) IN
  /\ Stmt /\ tys # << >> /\ Own(ctl, 1) /\ Opaque(t) /\ Len(ctl) < MaxCalls
  /\ "structStore" \in Rules => t # T(1, Role)
  /\ IF t.refs = 0 THEN Panic
     ELSE /\ tys' = Under(1)
          /\ ctl' = Append(ctl, [at |-> "sr", ty |-> T(t.refs - 1, t.ty),
                                 types |-> Len(tys) - 1, slots |-> Len(ws)])
          /\ Keep /\ UNCHANGED <<mem, ws, faults>>

(* SRO takes what is on top for the value and what is under it for the     *)
(* address.  For a role there are two fetches from what is on top instead. *)
N_atSr_end ==
  LET sr    == Last(ctl)
      addr  == ws[Len(ws) - 1]
      Store == IF Len(ws) > 1 /\ IsRef(addr)
               THEN mem' = [mem EXCEPT ![addr[2]][addr[3] + 1] = Last(ws)] /\ UNCHANGED faults
               ELSE faults' = faults \union {"outside"} /\ UNCHANGED mem
  IN  /\ ctl # << >> /\ sr.at = "sr"
      /\ "ownValue" \in Rules => Len(tys) <= sr.types + 1
      /\ IF sr.ty.refs = 0 /\ sr.ty.ty \in Struct THEN Stmt /\ Panic
         ELSE Take(ctl, <<sr.ty>>,
                   /\ IF Single(sr.ty)
                      THEN Store /\ ws' = wsUnder(IF Len(ws) > 1 THEN 2 ELSE 1)
                      ELSE ws' = wsUnder(1) \o <<junk, junk>> /\ UNCHANGED <<mem, faults>>
                   /\ RolesStill /\ tys' = Under(1) /\ ctl' = Front(ctl) /\ Keep)

(* Mutant: the types are not compared.                                     *)
N_atEq_unchecked ==
  LET l == tys[Len(tys) - 1]
      r == Last(tys)
      to == ws[Len(ws) - 1]
      n  == Size(T(0, r.ty))
      src == [i \in 1..n |-> mem[Last(ws)[2]][Last(ws)[3] + i]]
      old == mem[to[2]]
  IN  /\ Stmt /\ Len(tys) > 1 /\ Own(ctl, 2) /\ Opaque(r)
      /\ IF ~(l.refs = 1 /\ r.refs = 1) THEN Panic
         ELSE /\ "noChildMove" \in Rules /\ r.ty \in Struct => l.ty \notin Above(r.ty)
              /\ mem' = [mem EXCEPT ![to[2]] =
                          [i \in DOMAIN old |->
                             IF i \in (to[3] + 1)..(to[3] + n) THEN src[i - to[3]] ELSE old[i]]]
              /\ RolesStill
              /\ faults' = IF to[3] + n > Len(old) THEN faults \union {"outside"} ELSE faults
              /\ tys' = Under(2) /\ ws' = wsUnder(2) /\ Keep /\ UNCHANGED ctl

(* N_atEq moves the value behind the second reference to where the first   *)
(* one is: it copies as much as the type of the second one has.            *)
N_atEq ==
  LET l == tys[Len(tys) - 1]
      r == Last(tys)
      to == ws[Len(ws) - 1]
      n  == Size(T(0, r.ty))
      src == [i \in 1..n |-> mem[Last(ws)[2]][Last(ws)[3] + i]]
      old == mem[to[2]]
  IN  /\ Stmt /\ Len(tys) > 1 /\ Own(ctl, 2) /\ Opaque(r)
      /\ IF ~(l.refs = 1 /\ r.refs = 1 /\ TyI_check(l, r)) THEN Panic
         ELSE /\ "noChildMove" \in Rules /\ r.ty \in Struct => l.ty \notin Above(r.ty)
              /\ mem' = [mem EXCEPT ![to[2]] =
                          [i \in DOMAIN old |->
                             IF i \in (to[3] + 1)..(to[3] + n) THEN src[i - to[3]] ELSE old[i]]]
              /\ RolesStill
              /\ faults' = IF to[3] + n > Len(old) THEN faults \union {"outside"} ELSE faults
              /\ tys' = Under(2) /\ ws' = wsUnder(2) /\ Keep /\ UNCHANGED ctl

(* compileDict of a struct makes one of the values on the stack.           *)
compileStruct(s) ==
  LET fields == [i \in DOMAIN Fields[s] |-> Fields[s][i].ty] IN
  Take(ctl, fields, /\ tys' = Append(Under(Len(fields)), T(0, s))
               /\ Keep /\ UNCHANGED <<mem, ws, ctl, faults>>)

(* compileDict of a role: the impl of the struct, or of an ancestor.       *)
compileRole ==
  LET t == Last(tys) IN
  /\ Stmt /\ tys # << >> /\ Own(ctl, 1)
  /\ IF t.refs # 1 \/ t.ty \notin Struct \/ ~Finds(t.ty, opened) THEN Panic
     ELSE LET s == TyDict_find(t.ty, opened) IN
          /\ tys' = Append(Under(1), T(0, Role)) /\ ws' = Append(ws, methsOf(s))
          /\ Keep /\ UNCHANGED <<mem, ctl, faults>>

-----------------------------------------------------------------------------
(* Calls.                                                                  *)

(* The references that a function may return; "oneRef" holds in it, too.   *)
Returns(v, t) ==
  /\ SlotFits(v, t)
  /\ "oneRef" \in Rules /\ t.refs = 2 => SlotAt(v) = T(1, t.ty)

(* The body of a function, which is itself well typed, runs on the values  *)
(* that its caller has left, and returns any that its signature allows.    *)
(* Self is, in the body, the struct that the method is declared in.        *)
Run(code, given, out) ==
  LET io    == CASE code = junk -> [inp |-> << >>, out |-> << >>]
                 [] code \in DOMAIN Method ->
                      InOut_replaceSelf([inp |-> <<rSelf>> \o Method[code].inp,
                                         out |-> Method[code].out], code[1])
                 [] OTHER -> Fn[code[2]]
      n     == SizeOf(io.inp)
      args  == wsTop(n)
      Outs  == IF io.out = << >> THEN {<< >>}
               ELSE IF io.out[1].refs = 0 THEN {<<num>>}
               ELSE {<<v>> : v \in {w \in RefsTo({g \in DOMAIN Global : Declared(g)}) :
                                      Returns(w, io.out[1])}}
      same  == "selfOut" \in Rules /\ code \in DOMAIN Method /\ Method[code].out = <<rSelf>>
      wrong == CASE code = junk           -> {"junk"}
                 [] ~AllFit(args, io.inp) -> {"args"}
                 [] OTHER                 -> {}
  IN  /\ \E o \in IF same THEN {<<args[1]>>} ELSE Outs : ws' = wsUnder(n) \o o
      /\ tys' = Under(given) \o out /\ faults' = faults \union wrong
      /\ Keep /\ UNCHANGED mem

(* compileFn of a function that is no method.                              *)
compileFn(f) == Take(ctl, Fn[f].inp, Run(<<"fn", f>>, Len(Fn[f].inp), Fn[f].out) /\ UNCHANGED ctl)

(* A method behind a dot: the reference to Self goes first, then the       *)
(* arguments are compiled.  Self is the type of what is in front of it.    *)
dotMeth(g, m) ==
  LET t == Global[g] IN
  /\ Stmt /\ Room /\ Len(ctl) < MaxCalls
  /\ Declared(g) /\ t.refs < 2 /\ t.ty \in Struct /\ HasMeth(t.ty, m)
  /\ Push(T(1, t.ty), <<IF t.refs = 0 THEN ref(g, 0) ELSE mem[g][1]>>)
  /\ ctl' = Append(ctl, [at |-> "meth", code |-> FindMeth(t.ty, m), self |-> t.ty])
  /\ Keep /\ UNCHANGED <<mem, faults>>

dotMeth_end ==
  LET c  == Last(ctl)
      io == InOut_replaceSelf([inp |-> <<rSelf>> \o Method[c.code].inp,
                               out |-> Method[c.code].out], c.self)
  IN  /\ ctl # << >> /\ c.at = "meth"
      /\ Take(ctl, io.inp, Run(c.code, Len(io.inp), io.out) /\ ctl' = Front(ctl))

(* An absmeth behind a dot: the data of the role goes first.               *)
dotRole(g, op) ==
  /\ Stmt /\ Room /\ Len(ctl) < MaxCalls /\ Global[g].refs < 2 /\ Global[g].ty = Role
  /\ Declared(g)
  /\ "ownSelf" \in Rules => rSelf \notin Range(Op[op].inp)
  /\ Push(rSelf, <<RoleAt(mem, g)[1]>>)
  /\ ctl' = Append(ctl, [at |-> "role", op |-> op, var |-> g,
                         types |-> Len(tys) + 1, slots |-> Len(ws) + 1])
  /\ Keep /\ UNCHANGED <<mem, faults>>

(* The methods of the role are fetched behind the arguments, with a second *)
(* look at the variable.                                                   *)
dotRole_end ==
  LET c    == Last(ctl)
      key  == <<RoleAt(mem, c.var)[2][2], c.op>>
      code == IF key \in DOMAIN impls THEN impls[key] ELSE junk
  IN  /\ ctl # << >> /\ c.at = "role"
      /\ "ownArgs" \in Rules /\ tyCheck(opSig(c.op).inp) => Len(tys) = c.types + Len(Op[c.op].inp)
      /\ Take(Front(ctl), opSig(c.op).inp,
              Run(code, Len(opSig(c.op).inp), Op[c.op].out) /\ ctl' = Front(ctl))

-----------------------------------------------------------------------------
Declare ==
  \/ \E s \in Struct : N_impl(s) \/ (\E c \in DOMAIN Method : c[1] = s /\ N_meth(s, c[2]))
  \/ \E op \in DOMAIN Op : \E c \in DOMAIN Method : \E q \in Struct : N_impl_assign(op, q, c[2])
  \/ N_impl_end

Statement ==
  \/ \E g \in DOMAIN Global :
       \/ N_amp(g) \/ compileVar(g) \/ srVar(g) \/ N_global(g)
       \/ \E m \in {c[2] : c \in DOMAIN Method} : dotMeth(g, m)
       \/ \E op \in DOMAIN Op : dotRole(g, op)
  \/ compileLit \/ N_at \/ N_atSr \/ N_atSr_end \/ N_atEq
  \/ \E s \in Struct : compileStruct(s)
  \/ compileRole \/ dotMeth_end \/ dotRole_end
  \/ \E f \in DOMAIN Fn : compileFn(f)

Next == Declare \/ Statement
Spec == Init /\ [][Next]_vars

-----------------------------------------------------------------------------
(* The values on the working stack are, one by one, what the type database *)
(* says: as many slots, and behind each reference an object of its type or *)
(* of a child, and with each role the methods of its data's own type.  Only*)
(* the addresses of stores that wait for their value have no type.         *)
Addresses      == {ctl[i].slots : i \in {j \in DOMAIN ctl : ctl[j].at = "sr"}}
Without(s, at) ==
  LET f[n \in 0..Len(s)] ==
        IF n = 0 THEN << >> ELSE IF n \in at THEN f[n - 1] ELSE Append(f[n - 1], s[n])
  IN  f[Len(s)]
StackTyped     == AllFit(Without(ws, Addresses), tys)

(* Every variable holds what its type says, whoever stored it and through  *)
(* whatever reference.                                                     *)
MemoryTyped == \A g \in DOMAIN Global : Declared(g) => Fits(mem[g], Global[g])

(* No function runs on arguments that are not of the types it declares,    *)
(* with the struct that it is declared in for Self; in particular, a method*)
(* that is called through a role gets the data that it is for, and what is *)
(* called through a role is a method that its impl has assigned.           *)
ArgsAsDeclared == {"args", "junk"} \intersect faults = {}

(* No store and no move writes where there is no object, or behind it.      *)
MovesInside == "outside" \notin faults

(* No struct has a method that one of its ancestors has, so that the type  *)
(* of a reference does not decide what a method of the object does.        *)
NothingOverridden ==
  phase = "run" => \A a, b \in meths : a[2] = b[2] => a[1] \notin Above(b[1])
=============================================================================
