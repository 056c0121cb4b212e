# TLA+ models of the fngi kernel

fngi is a small typed stack language. Its kernel, `src/fngi.c`, is at once a
scanner, a one-pass compiler, a static type checker, a virtual machine and a
repl. There are no threads; what makes the kernel hard is that one token's
handler compiles other tokens before it goes on, that all of them work on the
same global context, that every failed `ASSERT` longjmps out of all of them at
once, and that the memory they allocate from is freed strictly in order.

The modules here model that: the scanner and the handlers that drive it, the
type database, the types themselves and what they promise of the values, the
control flow that is compiled with their help, the call stacks of the machine
that runs the result, the layout of structs and locals and the instructions that
access them, and the context that a session with the compiler keeps from one
input to the next, and the bytes of the code. The
configurations check them with TLC. Seven modules of proofs establish for every
value of the constants what matters most of the type database (`TyDbProofs`), the
layout (`LayoutProofs`), the machine and its refinement (`VmProofs`), the context
of a session (`SessionProofs`), the scanner (`ScannerProofs`), the compiler
of functions (`FlowProofs`) and the types and the values they are of
(`TypesProofs`).

(Paths in this file are relative to the root of the repository: `src/fngi.c`
is the kernel, `src/fngi.h` its header, `gen/comp.h` the generated structs.)

## Inventory

| Component | State | Operations | Correct when |
|---|---|---|---|
| Type database `TyDb` | `tyIs` (stack of snapshots), `done` (stack of flags), a bump arena `bba` | `TyDb_new/drop/nip/free/setDone/clearDone`, `tyCall`, `tyRet`, `tyClone`, `tyMerge`, native casts | the two stacks are parallel; nodes are freed in the reverse of the order they were allocated in; a clone is independent of its original; after a guaranteed `ret` nothing changes |
| Control flow (`fn`, `if/elif/else`, `blk`, `break`, `cont`, `while`, `ret`) | the handlers that wait (C stack), `IfState`, the list `blk_`, the code buffer | `parseFn`, `N_if`, `_N_if`, `N_blk`, `N_break`, `N_cont`, `N_contIf`, `N_ret` | accepted code never runs off its end, always finds the operands it needs, returns what its signature says |
| Virtual machine | return stack `rs`, info stack, `ep`, working stack `ws`, `errJmp` | `executeLoop`, `executeFn`, `xImpl`, `ret`, `catchPanic`, the instructions | return addresses and locals of one activation survive the calls it makes; the info stack accounts for the return stack; a panic leaves both clean |
| Compiler context | `Globals.c` (`compFn`, `cstate`, `fnState`, `fnLocals`, `metaNext`, `code`), `dictStk`, `implStk`, `tyDb`, `tyDbImm` | `compImm`, `N_unty`, `N_fslash`, `_use`, `N_mod`, `N_impl`, `N_fileUse`, `N_fnMeta`, `parseFn`, `N_var`, `compileSrc`, `Kern_errCleanup`, `simpleRepl` | a handler returns with the context it found; after a panic nothing of the handlers it cut off is left |
| Scanner | the ring buffer of the reader, `token`, the line of `FileInfo`; `compFn` while something is commented out | `skipWhitespace`, `scanRaw`, `scan`, `scanLine`, `tokenDrop`, `charNextEsc`, and the handlers that read the source: `N_fslash`, `N_paren`, `parseSlc`, `N_ch`, `N_blk` | an input is taken for what its characters mean, however the reader cuts it into pieces; every input comes to an end |
| Type matching and methods | the methods and impls of structs; the two type databases | `TyI_check`, `InOut_check`, `InOut_replaceSelf`, `N_meth`, `N_impl`, `N_amp`, `N_at`, `N_atEq`, `compileDict`, calls of functions, methods and roles | what the compiler believes of the working stack and of memory is so: no function runs on arguments that are not of the types it declares |
| Layout | `TyDict.fields` and `sz`, `fnLocals`, `lSlots` | `N_struct`, `_parseDataTy`, `_field`, `Struct_computeSz`, `varPre`, `localImpl` | fields do not overlap and are aligned; the sum agrees with the parts |
| Interning | search trees of `TyI` and `FnSig` | `TyI_findOrAdd`, `FnSig_findOrAdd` | equal streams are one node |
| Dot paths and `srOffset` | the list of `DotPath` nodes of a statement | `compileVar`, `N_at`, `N_dot`, `N_amp`, `ampRef`, `dotPathFull`, `addDotPath`, `compileStruct`, `compileDotPath`, `srOffset` | what is fetched, stored or referred to is the field that the names mean, no more and no less |
| Literals and instructions | the code buffer | `lit`, `opCompile`, `opImm` | the operand decoded is the operand encoded |
| Name lookup | `dictStk`, `implStk`, search trees | `Ty_find`, `DictStk_*`, `Kern_findTy` | the innermost name is found |
| Native functions, file I/O | files, logger | `N_*` of `src/dat.fn`, `tests/` | thin wrappers |
| civ | arenas, stacks, buffers, rings, trees | `BBA_*`, `Stk_*`, `Ring_*`, `CBst_*` | another repository: only its interface is used |
| Generated tables | none | `gen/name.c`, `gen/spor.h`, `etc/gen.lua` | generated |
| Library and tests | none | `src/*.fn`, `tests/main.c` | inputs of the compiler |

How they interact. The scanner hands a token to `compFn`, which is a fngi
function: `baseCompFn` normally, `imm` or the comment function while one of
those waits. A token that names a syntax function calls its handler, which
calls `single` or `compileFn` for the tokens inside of it (recursion on the C
stack). Handlers keep types with the type database and emit code into
`c.code`. `executeFn` and `executeLoop` run code; natives are called from it
and may call the compiler again (that is what a syntax function is). Any
`ASSERT` longjmps to the innermost `errJmp`: the loop of the machine, which
passes it on unless a handler is on the info stack, and in the end the host,
which is a test, `Kern_errCleanup`, or `simpleRepl`.

What is hard: the nesting of handlers that share one context
(`protocol_sequence`), the panic that cuts all of them off
(`crash_recovery`), state that is read from a snapshot, list or buffer that has
moved on (`stale_state`), the order in which the arena is freed, stacks that
are full (`resource_bound`), and the two loops of the machine when a native runs
code. There is no concurrency: fibers are declared but `yield` is
`assert(false)`. `PROJECT.json` lists each hazard at its line with the
properties that are aimed at it.

## Modules

```
Scanner         a machine: ring, token, and the handlers that read the source
└─ ScannerMeaning   what an input means, by the positions of its characters
   ├─ MCScanner
   └─ ScannerProofs ── DataLemmas
TyDb            operators: the type database and its operations
├─ TyDbClient   a machine: the database in the hands of any compiler
│  ├─ MCTyDb
│  └─ TyDbProofs
└─ Flow         a machine: one function, compiled with TyDb and then run
   ├─ MCFlow
   └─ FlowProofs ── TyDbProofs, DataLemmas
CallStack       abstract: activations with locals of their own
└─ Vm           the flat return stack and the info stack, refines CallStack
   ├─ MCVm
   └─ VmProofs ── DataLemmas
Types           a machine: typed statements, compiled and run one by one
├─ MCTypes
└─ TypesProofs ── DataLemmas
Layout          a machine: structs, and the locals of a function, in bytes
├─ LayoutProofs ── DataLemmas
└─ Access       a machine: one statement on a path of fields, compiled and run
   └─ MCAccess
Instr           a machine: tokens, the bytes they compile to, and what imm does
└─ MCInstr
Session         the compiler's context over a whole session
├─ MCSession
└─ SessionProofs ── DataLemmas
DataLemmas      lemmas: induction up to a number or a rank, recursive functions, sequences
```

**Scanner** has one action for each stretch of C code between two calls that
read the source: `ctl` is the stack of C functions that are active, each with the
place it goes on at and the locals it keeps (the saved `compFn`, `ignoringWhite`
of `parseSlc`). A character that is not in the ring yet is asked for by `Read`,
which brings as many as it likes, up to the room in the ring, or finds the end.
`compileRepl` starts an input, `Panic` ends one; the host is
`Kern_errCleanup` (through `FNGI_EXPECT_ERR`) or `simpleRepl`. Words are one letter
each (B for `blk`, W for `while`, C for `ch`), so that all lines of some
length can be tried. **ScannerMeaning** says what an input means without ring,
token, calls or panics: `Skip` and `Compiles` are recursive functions of a
position in the text, one equation for each kind of thing that can begin there. `TakenForItsMeaning` compares the two after every step.

**Types** has statements of an `imm#` block, each of which is compiled and run
before the next token: literals, variables, `&x.f`, `@`, `@ =`, `@=`, structs and
roles made of what is on the stack, calls of functions, methods and role methods,
and the declarations of methods and impls between them. Two states are kept side
by side: what the type database says (`tys`), by the checks of the compiler, and
what is there (`ws` and `mem`): numbers, references to a part of a global, and the
methods of an impl. A function runs as any that its signature
allows. The properties compare the two. A global is declared with a value (`N_global`);
an equals sign behind its name later stores natives and references only
(`structStore`). A struct that `compileStruct` does not load field by field (`Plain`) is
used by its reference and its parts and never read whole: `Access` has what happens then.

**TyDb** translates each function of the type database into an operator from a
database to a database, so that `Flow` can chain them as the handlers do. A
snapshot is a sequence of nodes with their place in the arena (`bump` counts
what the arena has handed out). A failed `ASSERT` is the field `err`; every
operator leaves a database that has an error as it is, which is what the
longjmp does to the rest of the handler. `TyI_check` is the constant relation
`Accepts`: the database only asks whether two types match.

**TyDbClient** has one action for each operation, with the guards the callers
have, in any order, plus the clean-up that follows a panic. The arena keeps what
it held at a panic (`Kern_errCleanup` has its `BBA_drop` commented out); `lost`
is the history variable that counts it.

**Flow** compiles one function. `ctl` is the stack of C handlers that wait for
a token; each handler is split where it compiles another token, so `N_if` is
`N_if` (up to its branch), `N_if_elif`, `N_if_elifDo`, `N_if_else` and
`N_if_end`. The arguments of a call are compiled before it, hence a call is one
step. The value of a condition is unknown to the compiler, so in the run of the
code a conditional jump may go either way, and a value is of any type that may
be given where its type is required. The run checks the code itself, by the types
of the values really on the stack, not by what the compiler believed. `phase`
goes from `start` through `body` to `run`. A function whose body is a semicolon is a step
of its own (`parseFn_semi`): it ends with the RET that `parseFn` adds, and `fnInputs` is not called.

**Vm** has the return stack as an array `dat` that is filled downwards from
`RSCap`, with the return address stored *above* the locals as `xImpl` does, the
info stack, `ep` and the number of loops that run. An activation may at any
instruction call, set a local, return or panic. **CallStack** is what this
promises: a stack of records with their own locals. `Vm!Activation` maps the
one to the other.

**Layout** declares structs and then locals. A type is a native, named by its
size, or one of the structs before (or the struct itself, by reference), with a
depth of references and an array length. `_field` and `localImpl` place a value
with `varPre` and `align`; `Struct_computeSz` is the second computation that the
code compares with the first in an assertion. `alignment` is code of civ and
a constant function here: all that is assumed of it is that it is 1, 2 or 4 and
not less for a larger size (the instance has 1, 2 from two bytes on, and 4 from
four bytes on). A local of unknown length is refused, and so is a value that
would make a struct larger than `MaxSz`.

**Access** takes any such layout and one statement: `x.f.g`, `@x`, `@` and `.`
on a reference that is on the stack, each fetched or followed by `=`, `&x.f.g`,
and `var x = value` also in the form `{ f = value }`. `Dot` is one round of the
loop that reads a name; it keeps the compiler's `c` (the type it is at, the
offset, the nodes so far) and, beside it, what the names mean by the layout
(`meant`). The end of the statement emits what `addDotPath`, `compileStruct` or
`srOffset` emit, with the width of each operand, and `executeInstr` runs it.
Memory is symbolic: a value remembers the place it was fetched from, and a
reference at a place points to an object of its own, so that a fetch from a
wrong offset, of a wrong size, or through the wrong reference is seen.

**Instr** compiles and executes each token of a program three times. `code` is
the buffer, byte by byte: an instruction is one element and so is each byte of
its operands, in the order `lit` and `opCompile` write them, with `B` values to a
byte. `imm` is the machine of an `imm#` block, with its working stack and its
memory in bytes, which executes the token at once, as `opImm`, `executeFn` and
`_ifImm` do. `want` is what the token means, with a memory that knows of the native
parts of the globals and not of bytes. When no handler waits, `executeLoop` runs
`code` from the start; both machines must have the values and the memory of
`want`, and the bytes between the fields as they were. The jumps of an `if` are
patched as `_if`, `_else` and `_endIf` do it; in `imm` the branches that are
not taken are comments (`On`).

**Session** has the fields of `Globals` that outlive a token, the stack of
handlers that wait with the C locals each of them has saved, and the host. A
handler is an action that changes the context and one that restores it. For
types it only counts values; for code, only who owns the buffer. `Host`
chooses who catches a panic: `Kern_errCleanup`, or `simpleRepl`, which restores
the two stacks of the machine and goes on with the rest as it is.

### Rules of the source program

The compiler accepts programs that it then compiles wrongly. A module with such
a case names it in `Rules`, and its guards keep to the rules that are in force:
the passing runs have all of them, and for each rule there is either a
run without it that finds a property violated (the findings below), or a
sentence here that says which property TLC then finds violated. What a rule excludes the passing
runs do not catch, and neither do the theorems: a hazard whose note
names a rule is known to be real, and the runs show that nothing else breaks the
property. `Flow` has the constant `Unty` besides: with `TRUE` and functions of up
to 4 instructions `NeverFallsOff` is violated, since an untyped function gets a RET
unless its last byte looks like one (`parseFn`, 2323), which the operand of its last
instruction may.

| Module | Rule | Without it |
|---|---|---|
| Flow | `stkOrder` | `fnInputs` pushes the unnamed inputs in the reverse of their order, so that the body is compiled with the wrong types (`OperandsMatch`) |
| Flow | `ifFall` | run `flow_bare_if` |
| Flow | `blkEnd` | the code after a `blk` is compiled with the types at its end, which its breaks need not leave (`OperandsMatch`); and a break that leaves nothing stores NULL, which is read as "no break yet", so that the next one is not compared |
| Flow | `blkBound` | run `flow_nested` |
| Flow | `semiNoInputs` | where the body of a function is a semicolon, `parseFn` (2314) calls no `fnInputs`: the inputs of a function that returns nothing stay on the stack (`ReturnsOut`) |
| Vm | `topNoLocals` | `catchPanic` starts its function at the full return stack, without room for the locals: they are outside of it (`LocalsInFrame`) |
| Vm | `noReenter` | `executeFn` takes `ep` from the activation that has called the native and pushes nothing: that activation never goes on, and the inner loop leaves `ep` NULL for the outer one (`RefinesCallStack`, with `MaxLoops` 2) |
| Layout | `arrWords` | the assertion on `Struct_computeSz` fails: it aligns an array by its whole size and does not pad elements (`SizesAgree`) |
| Access | `plainStruct` | run `access_struct`; besides, `compileStruct` takes a reference to a struct for the struct, and so never ends for a struct with a reference to itself |
| Access | `shortOffset` | the node of a path keeps its offset in one byte (the parameter of `pushDotPath`, 1356), whatever the operand of the instruction has room for: a local behind 256 bytes of others is fetched from the start of the frame; and the operand of FTO and SRO has one byte (`FetchesField`) |
| Access | `singleRef` | a dot after a reference of depth two takes the inner reference for the struct (`FetchesField`) |
| Access | `structStore` | `x.f =` with a struct compiles loads where the stores should be (`StoresField`) |
| Access | `ampOneRef` | `&` through a second reference adds to that reference's own address (`PointsAtField`) |
| Access | `braceRef` | `{ }` for a variable that is a reference stores the fields over the reference (`StoresField`) |
| Access | `dotOnRef` | a dot after a struct on the stack takes the last value of the struct for a reference: `N_dot` (2728) does not ask for one (`FetchesField`) |
| Scanner | `newRepl` | after a panic inside of a commented block `simpleRepl` goes on with the comment function in `compFn`, and drops the next inputs (`TakenForItsMeaning`) |
| Types | `noLateMeth` | run `types_override` |
| Types | `newRepl` | a global whose value is of another type is left behind, with references that are NULL (`MemoryTyped`); so is a method that a parent has, since `N_meth` looks for that one when the new one is already in the struct (`NothingOverridden`), and an impl without all of its ops |
| Types | `implAll` | an impl that leaves an op out is accepted, its memory has what was there before (`StackTyped`, and `ArgsAsDeclared` where the op is called) |
| Types | `structStore` | `x =` for a global that is a struct or a role takes the types of the value off and compiles loads where the stores should be: the value stays on the stack, and that of `x` comes on top (`StackTyped`) |
| Types | `sameInputs` | `InOut_check` accepts a method whose inputs are narrower than the op's (`ArgsAsDeclared`) |
| Types | `ownSelf` | a `Self` that is not the first input is not known to be of the role's struct (`ArgsAsDeclared`, where an op with one can be implemented by the method of a child) |
| Types | `stillRole` | the data of the role goes first, its methods are fetched behind the arguments; an assignment in between ties the data to other methods (`ArgsAsDeclared`, with a second global that is a role) |
| Types | `ownArgs` | where a role call waits for its arguments and another one is among them, the inner call can take the data of the outer one for an argument: as many types are on the stack, and the checks do not see whose they are (`ArgsAsDeclared`, from two calls that wait, 3 values, and a second global that is a role) |
| Types | `selfOut` | a method of the parent that returns another `Self` returns a parent where the caller was promised a child (`StackTyped`) |
| Types | `valueExact` | a child is accepted by value for its parent, and has more slots (`StackTyped`) |
| Types | `oneRef` | `&&C` is accepted for `&&P`, and a P stored through it (`MemoryTyped`) |
| Types | `refWidth` | `&U1` is accepted for `&U4` (`ArgsAsDeclared`) |
| Types | `noChildMove` | `@=` copies as many bytes as the child has over a parent (`MovesInside`) |
| Types | `ownValue` | the address of a store is on the working stack without a type: what is under it, or another value, can be taken for it (`StackTyped`) |
| Instr | `shortOffset` | the operand of FTO and SRO is one byte: a field farther behind a reference is another one (`CompiledAsMeant`) |
| Instr | `methAtStart` | `opImm` leaves out the offset of GR: a method called on a field in `imm` gets the start of the global (`ImmAsMeant`) |
| Instr | `castFits` | a cast to a smaller native changes the type only, and a store cuts off the rest of the value (`CompiledAsMeant`) |
| Instr | `ownValue` | as in `Types` (`CompiledAsMeant`) |
| Instr | `inlineLast` | `compileFn` copies all bytes of an inline function, and `parseFn` has put a RET at the end of a function of the source: what follows the call is not executed (`CompiledAsMeant`) |
| Session | `fileAtTop` | the end of a `use` pops the dict of a `fileUse` inside of it and keeps its own |
| Session | `untyOnce` | the end of an inner `unty` clears the flag of the outer one |
| Session | `untyInFn` | nothing ties types and values of unchecked code that runs at once |
| Session | `fnAtTop` | the inner `fn` resets `fnLocals` and `fnState` of the outer one |
| Session | `pathFirst` | literals of a file would go into the repl's buffer |

## Runs

Every run uses model values for types, mods and values, and bounds that are
constants of the modules; there is no state constraint. Symmetry is not used:
types are ordered by `Accepts`, and the state spaces are small without it.

| Run | Instance | What it shows |
|---|---|---|
| `tydb` | types U1 and S, S accepting U1; depth 3; arena of 4 nodes | The stacks stay parallel, the snapshots fill the arena in order, no free is refused, no step changes a covered snapshot or a finished one. Depth 3 lets `TyDb_nip` have a snapshot below the two it drops, and the arena of 4 is filled in the middle of a clone and after a panic. |
| `flow` | functions of up to 6 instructions, 3 handlers deep, 2 blks; a literal, a widening and a consuming call; signatures with none and with one named and one unnamed input | Every function that is accepted runs on every path with the operands it needs, ends in `ret` with the types of its signature, has every jump patched, and the snapshots are at each token those of the handlers that wait. |
| `vm` | functions with 0, 1 and 2 locals, 5 slots of return stack, 2 entries of info stack, 2 instructions each | The flat stacks refine `CallStack`; both are overrun by one more call, and a panic is raised at every depth. |
| `access` | 2 structs of up to 2 fields: natives of 1, 2 and 4 bytes, the struct itself by reference, arrays, the first struct by value; 2 locals; 3 dots; references of depth up to 3 | Every layout is disjoint and aligned down to the last native, and agrees with `Struct_computeSz`; every path to a field of it fetches, stores or refers to that field. Two fields of different sizes need padding between and none behind them, and a struct in a struct shows what that does to the next field; 3 dots go through an inner struct, a reference and the struct behind it. |
| `scanner` | every line of up to 3 of 11 characters and an end of line, 14 longer and deeper ones, lines that are cut off; ring of 4, tokens of 3; two inputs in one `simpleRepl`; any split of an input into reads | Every input is taken for its meaning and comes to an end, and the token, the ring and the line agree. The ring is one longer than a token, so that a token can fill it with its next character; two inputs are what a leftover of a panic needs. |
| `types` | a struct and its child with a reference of its own, a role of two ops, 4 methods, globals of each kind of type, which are declared with a value; 2 values on the stack, 1 call being compiled | What the type database says is so, on the stack and in memory, for every sequence of statements; every call gets the arguments it declares. A call in whose arguments another value is stored needs both of the values and the one waiting call. |
| `session` | 2 inputs of 5 tokens in all, 5 handlers deep, 2 mods, `DICT_DEPTH` 3, 2 values | Handlers restore what they changed, and after a panic anywhere `Kern_errCleanup` leaves a context in which the next input compiles as the first did. Two inputs are what a leftover needs to be seen; 5 tokens nest a comment in an `imm#` in a `fn` in a `use`. |
| `instr` | bytes of 3 bits (8 values, literals up to 3 inside of an instruction); a struct with a struct in it, one of the inner, a reference; one function and one inline function; 3 tokens and 2 branches, 2 handlers deep | The code, decoded byte by byte, does what the tokens mean, and so does `imm`. The literals are of every size, one on the limit; 3 tokens are an operation on two values, a store through a reference, and a condition with two branches. |

`CHECK_DEADLOCK FALSE` is in `instr`, `flow`, `access`, `session`, `scanner` and `types`,
where the run ends: the tokens are used up, a function returns or is refused, a statement has been
executed, a session has had its last input, and the user has left. In `vm`
and `tydb` deadlock is checked.

Runs that find a property violated, each a statement of a comment, document
or example of the repository (`findings` in `PROJECT.json` has the quotes):

| Run | Property | Counterexample |
|---|---|---|
| `flow_bare_if` | `BranchesIdentical` | `if(..) do 1` without an else is compiled as if the literal was always there |
| `flow_nested` | `NestingTied` | after an inner `blk` has ended, a break of the outer one goes to it |
| `access_struct` | `FetchesField` | a struct read as a whole has the fields of its second, inner struct fetched from the start of the outer one |
| `types_override` | `NothingOverridden` | a method declared for a parent after its child has one of that name: a reference to the child calls another method by its type |

### Fairness and liveness

`Scanner` states `WF_vars(Read \/ Scan \/ Handle)`: the compiler is one thread,
which goes on as long as it can, and a read of the source returns. That is all the
fairness there is: nothing makes the user type another input, so the actions
that start one are not in it. `EveryInputEnds` follows: each input is compiled to its
end or to a panic, also one that is cut off in a comment, a block, a string or
an escape. It is what every loop over the source needs (a test for the end in
`N_paren`, in `charNextEsc`, in `N_fslash`), and it fails without one of them.

The other specifications state no fairness. There, whether a handler gets its next
token, whether code ever returns, and whether a session goes on is up to the source
program, and nothing in the kernel schedules or retries anything. What would be
a liveness property elsewhere ("the handler restores the context") is there an
action property of the step in which the handler returns.

## Proofs

`TyDbProofs.tla` proves of `TyDbClient!ClientSpec`, for every set of types, every
relation `Accepts`, every depth and arena and every set of streams:

- `TypeCorrect`: `[]TypeOK`
- `ArenaCorrect`: `[]ArenaPacked`
- `NeverOutOfOrder`: `[]FreesInOrder`
- `ClonesIndependent`: `CoveredFrozen`
- `FinishedFrozen`: `DoneFrozen`

The assumptions are those the modules name: `AcceptsAssumption`,
`DepthAssumption` (at least one snapshot fits), `ArenaAssumption` and
`StreamsAssumption`.

The inductive invariant is that the database is well formed and packed above
`lost`, has no `free` error, and has at least one snapshot. `TypeOK` alone is
not inductive for what `FreesInOrder` says: that no free is refused follows
from the *addresses*, and it is `ArenaPacked` that speaks about them. `Packed`
says that there is a function `lo` from snapshots to their first place in the
arena; each lemma about an operation picks the `lo` of the database before it
and gives the one after it (one more entry for `TyDb_new`, one less
for `TyDb_drop`, the last one moved for `TyDb_free` and `TyI_cloneAdd`). The
compound operations (`TyDb_nip`, `tyCall`, `tyClone`, `tyMerge`, the casts) are
then chained from these lemmas without opening the definitions again, and the
theorems have one step per action of `Next`.

`LayoutProofs.tla` proves of `Layout!LayoutSpec`, for all natives, array
lengths, types of fields and locals, whatever rules the source keeps:

- `LayoutTypeCorrect`: `[]LayoutTypeOK`
- `StructFieldsDisjoint`: `[]FieldsDisjoint`
- `StructFieldsAligned`: `[]FieldsAligned`
- `FrameHoldsLocals`: `[]LocalsInFrame`
- `StructSizesAgree`: `[]SizesAgree`, for a source that keeps `arrWords`

from `SizesAssumption`, `AlignmentAssumption` and `TyIsAssumption`. The sizes in
these invariants are those of the structs as they are *now*, and the struct
that is being declared grows with each field, so that alone they are not
inductive. `LayoutInv` adds `Below`: a field by value is of an earlier, finished
struct (`_field` requires a reference to the struct itself), and locals are there
only when no struct is open. Then what has been placed keeps its size
(`FieldsKept`, `LocalsKept`), and the only thing to show of a new value is where
`Place` puts it (`Appended`, from `AlignUp`, `ElementsFit` and `KnownSizes`).
`FieldsAligned` needs that `alignment` is monotone: an array is placed by the
padded size of an element, and must be aligned for the element itself.
`StructSizesAgree` is about a recursive function of the fields (`Struct_computeSz`): `SumsInv` says
that there is a function with the sum after each field, whose last is the size
of the struct, or -1 if the struct ends in an array of unknown length, which `_parseDataTy` writes
only at its end. `_field` adds a value to that function, and since its equation has one
solution (`SumsComputed`), it is what is computed. A step of
`Access!Spec` is one of `LayoutNext` or leaves the layout alone, so that the
theorems hold of the statements in `Access` too.

`VmProofs.tla` proves of `Vm!Spec`, for every set of functions with locals and
every size of the two stacks:

- `StacksInLockstep`: `[]Lockstep`, for any program
- `VmTypeCorrect`: `[]TypeOK`
- `FrameCorrect`: `[]LocalsInFrame`
- `VmImplementsCallStack`: `RefinesCallStack`

All but the first are about a program that `KeepsRules`: both rules of the table
above, and functions whose slots of locals fit the width of the field that holds them. The
width is part of it because `lSlots` is a `U1` to which `parseFn` (2330) assigns
the words of the locals without a check: past it `xImpl` reserves fewer slots than
SRLL uses. `StackInv` is `Lockstep` with the bounds of `sp`. `FrameInv` ties the places
where the activations go on to the functions on the info stack: what
is found above the slots of `n` calls (`BackTo`) is an instruction of the function
of call `n`, and `ep` is one of the last. Neither `TypeOK` nor `LocalsInFrame` is inductive
without it: what `ret` pops is a word of memory like any other, and only that no
frame reaches into another says that it is a return address.
`FramesInv` says of the refinement that no slot of a local is also that of a return
address. The sums of slots are a recursive function; what is proved of them goes by
induction over the *set* of the numbers up to which a statement holds
(`SetInductionUpTo` of `DataLemmas`), which needs no operator as a parameter.

`SessionProofs.tla` proves of `Session!Spec`, for any depth, tokens and mods:

- `SessionAtRest`: `[]AtRest`
- `ValuesTyped`: `[]TypesOfValues`
- `HandlersPutBack`: `HandlersRestore`
- `LocalsCounted`: `LSlotsExact`

of a host that `CleansUp`: one that catches panics with `Kern_errCleanup`, and
a source that keeps the rules. (`simpleRepl` leaves what the handlers did as it is.) `AtRest` speaks of the time between inputs, and
the steps in between change all that it is about. `SessionInv` says what each handler that waits
`Holds`: how the context inside of it differs from the one it was called in, field by
field, so that what it undoes at its end is the difference; who owns the code
buffer (`Owned`); and that the sum of the types known to `tyDb`, of the types of
the blocks in `imm#` and of the code that has not run yet is the number of values on
the working stack.

`ScannerProofs.tla` proves of `Scanner!Spec`, for all inputs, all sizes of
the ring and of a token, and any way of reading an input in pieces:

- `TokenStaysInRing`: `[]TokenInRing`
- `LinesCounted`: `[]LineOfHead`
- `ReaderAlwaysHasRoom`: `[]ReaderHasRoom`, that the ring has room whenever a character is asked for
- `TakenForItsMeaningAlways`: `[]TakenForItsMeaning`
- `MeaningDefined`: that the two recursive functions of `ScannerMeaning` satisfy their equations

of the host that `Clears` the ring and the token at a panic, `simpleRepl`, which
is that of the run. `FNGI_EXPECT_ERR` with `Kern_errCleanup` leaves the
ring and the token as they were, and the next `compileRepl` starts with an empty
ring, so that the token of the input before is not in it. `ScannerInv` places the ring in the text (`Placed`), the token in
the ring (`AtHead`) and the line in the text (`Reading`), and says that those C functions
that take characters run only when there is no token (`Active`).

`TakenForItsMeaningAlways` is about a source that keeps `newRepl` (the table above). Of a line of one character
nothing is compiled (`Blank`): `getline` leaves the end of line in it, so that for `simpleRepl` such a line is
empty. Its invariant, `MeaningInv`, says of an input
that is being compiled what is *left* of its meaning. `Part(t, f, p)` is what
a function `f` of the C stack still puts out when it goes on at position `p`, and where it
returns: a comment function up to the end of the comment, `N_paren` up to the closing parenthesis,
`parseSlc` up to the end of the string. `Follows` chains the functions that are active, from the innermost to
`compileSrc`: what has been put out, followed by the parts of all of them, is the meaning of the whole
input. `Nested` says which function may wait for which, `CompFnIs` that `compFn` is the
comment function exactly below one that waits in a comment, and `TokenFits` what may be in
the token where a function goes on: whole words, never the mark of a comment, and nothing before the
characters of a string. Each action then has one lemma (`scanMeans` to
`charNextEsc_escapeMeans`) that takes one step of the recursive definitions. That these have a
solution, so that such a step may be taken, is the induction of `SkipIs` and `CompilesIs`, over
the set of functions that respect where each part may end (`KeptWithin`), by `RankedExists` of `DataLemmas`: a recursion that goes down in a rank has a solution.

`FlowProofs.tla` proves of `Flow!Spec`, for all types, signatures and bounds:

- `SnapshotsCounted`: `[]SnapshotsOfHandlers`, for any source, typed or not
- `JumpsAimed`: `[]JumpsHaveTargets`, for a source that keeps `blkBound`
- `StaysInCode`: `[]NeverFallsOff`
- `OperandsTyped`: `[]OperandsMatch`
- `ReturnTyped`: `[]ReturnsOut`

The handlers are chained from operations of `TyDb`, and what each does is a lemma
about the database as it is seen through `View`: the types and the flag of
each snapshot. `HandlersInv` has the database well formed (`Good` of `TyDbProofs`), the handlers
in their order, and as many snapshots as they account for (`Counted`). `JumpsInv`
adds that a jump of the code has a target or is still owed by a handler that waits
(`Owing`): its `ends`, its condition's jump, or the breaks of its blk. `blkBound` is
needed because without it a break goes to the head of `blk_`, whose handler may have ended.

The last three say that a function whose types the compiler accepts runs on values of
these types, however its `if`s, `blk`s, `break`s, `cont`s and `ret`s are nested. They are about
a source that `KeepsRules`: the five rules of `Flow`, no `unty`, and an `Accepts`
that is a preorder on the types. `TyI_check` (750) is one but for `&Any`, which it takes
for every reference and gives for every reference: through it a `&U1` can be
passed off as a reference to anything, and nothing is claimed of such code. The five rules are
needed because without each of them code is compiled that its types do not fit (the table above).

The invariants say nothing of the code before it runs, while what makes them true
happens as it is compiled. `TypesInv` goes between: there is a typing `T` of the
code, that gives the types on the stack before each instruction that can be reached.
`Typed` says that `T` starts with the inputs of the function, that each
instruction finds the types it takes and leaves those that `T` has where
the flow goes on (`TypedAt`), and that at a RET they are the outputs.
Preservation under a step of the machine is then short: `Flows` says that the working
stack is accepted where `pc` is. The rest is about the compiler, whose code is not finished:

- the types at the top of the database are those of the place behind the last
  instruction, and that place is not in `T` when the database says that the flow
  does not get there (`HereIs`);
- a handler that waits owes targets to jumps, and what those leave is known: the
  jump of a condition leaves the types of the snapshot below, an end of a branch
  those of the snapshot that the other branches are compared with (`OwesIf`), a
  break those that the blk remembers of it (`OwesBreak`). `AllOwed` has this of all
  frames of `ctl`, at the snapshots that `Counted` gives to each;
- the head of the blk that `blk_` points to has the types its `cont` is compared with
  (`HeadOf`).

The handlers change the top snapshots and a frame, so that what the others are owed
is carried over by a few lemmas (`AllKept`, `InnerTyped`, `EmitTyped`, `TypedEnd`), and there is
one lemma per handler, from `CallTyped` to `BlkEndTyped`.

`TypesProofs.tla` proves of `Types!Spec`, for all structs, with parents and fields
nested to any depth, all roles, methods, functions, globals and the values they begin with, or are declared with later (`N_global`):

- `StackTypedAlways`: `[]StackTyped`
- `MemoryTypedAlways`: `[]MemoryTyped`
- `ArgsAsDeclaredAlways`: `[]ArgsAsDeclared`
- `MovesInsideAlways`: `[]MovesInside`

of a program that keeps all rules of the table (`KeepsRules`). The assumptions are those
of the module: a struct is made of structs that are finished before it
(`StructAssumption` gives each a rank), a field is no role, a function returns a native
or a reference, and the globals begin with what their types say. `TypesInvariant` is
the inductive invariant that they follow from. `StackTyped` and `MemoryTyped`
look at one value at a time and at what is there for it *now*; `TypesInv` needs of both
what later steps rely on:

- a reference is to a part of a global that has a value, so that a fetch finds one
  (`RefOk`); behind two references there is exactly what the type says (`SlotOk`), since
  what is stored through them is compared with the outer type only;
- behind the data of a role are the methods of an impl that is open for its struct or an
  ancestor (`RoleOk`), each of which is what its op needs of that struct (`ImplFor`), and
  while an impl is being read its missing ops are those that the frame still owes
  (`OpenedOk`);
- a call or store that waits finds the stack under its arguments as it was when it began
  (`BaseOk`): the address of a store, which has no type, is of the type that the frame
  has for it (`StoreOk`), and the data of a role call is still that of its variable
  (`CallOk`), which is what `stillRole` and `ownArgs` are for.

Four facts carry the proof. The slots of a struct are those of its fields
(`SlotsEquation`), its parts are parts of its parts (`PartsTransitive`), and each of its
ancestors is a part that starts where it does (`AncestorPart`); that these recursive functions
have solutions is `RankedFunction` of `DataLemmas`, by induction over the ranks. What
`TyI_check` accepts can be taken for what is required, slot by slot (`RuledSub`,
`CheckedOk`). The types at the top of the database and the slots at the top of the
stack can be cut off together, and what is under them still fits (`Taken`, `Put`),
whatever addresses lie between. And what is good for a struct is good for its
ancestors, which is what lets an inherited method run (`SelfSub`, `MethodOut`). Then each
statement has one lemma (`compileLitOk` to `dotRole_endOk`), and so has each declaration.

Only model-checked: liveness; `Instr`, whose code is read with folds; and in `Access`
everything that is about values, which are trees (`Leaves` is recursive). Not within
reach of the prover: liveness, `ENABLED`, and what a recursive definition over trees
computes.

## Plan

Done, in this order, the most important behaviour first: `TyDb` and
`TyDbClient`, `Flow`, `CallStack` and `Vm`, `Session`, `Layout` and `Access`, the
proofs about the type database and the layout, `Scanner`, `Types` and `Instr`, the
proofs about `Vm`, `Session`, `Scanner`, `Flow` and `Types`. Next:

1. `Intern`: `TyI_findOrAdd` and `FnSig_findOrAdd`.
2. `Session`: `meth`, `struct` and `role`.
3. `Instr`: the instructions of locals and the jumps of `blk`, in bytes.
4. Theorems: those of `Access` that are not about trees.

## Not modelled

- The `meth`, `struct`, `role` and `global` declarations in `Session`.
- `getPanicHandler`'s search: `catchTy` is never on an info stack, so that no run
  of the code finds a handler.
- In `Instr`: locals (`Access` and `Vm` have them), `blk`, the calls of a signature
  or a role (XW), SLIC, DUP, shifts, logic, multiplication and the signed natives;
  `srOffset`, methods through a reference in a global. Two more tokens do not work in `imm`: `=@` compiles the size
  of its move into a buffer that is NULL (1571), `ptrAdd` into that of the code (2885).
- In `Scanner`: files and the readers of civ behind `Read`, numbers and names as such
  (a token is known or not), `\x` escapes, syntax functions other than those that
  read the source themselves. A string is not cut at `STRING_MAX`.
- In `Types`: methods through a reference that is itself on the stack, the address
  of an element of an array, `unty`, `TY_UNSIZED`, and blocks (which `Flow` has).
- In `Layout` and `Access`: globals (`Instr` has them), roles, methods and signatures as fields, the
  move `@=` (`Types` has it, and roles and methods), `imm` (`Instr` has it), the clearing of memory in `srOffsetStruct` (nothing asks for it),
  more than one field between the braces of a value (`{ f = }` is followed for one),
  structs that are declared before they get fields, and a path through an array
  (no names lead into one). A field that is a reference of unknown array length
  (`&?T`) is left out: its length and size contradict each other in the code.
  `TyDict_unsized` of a struct without fields reads through NULL; such a struct
  is only used by reference.
- `blk_` when it is NULL (a `break` outside of any `blk`): undefined behaviour
  that no test or document relies on; the guards require a `blk`.
- Interning: planned, see above.
- What the models leave out because the code does something that no program can
  want, met while they were written: `\xHH` gives the first digit's code shifted
  above the second's (`charNextEsc`, 2916), and an escaped blank is dropped at the
  start of a line like any other, because `charNextEsc` knows the escape (2955);
  `simpleRepl` says "type EXIT to exit" and compares with the line that still has its
  end of line, and it never ends at the end of stdin; `&q.x` of a global in
  `imm#` (2821) writes to a buffer that is NULL, and of a reference in a global it
  is compiled with FTLL, which fetches from the frame (2823); a panic inside of
  `imm#` leaves `imm` as the compile function of `simpleRepl`.
- Native functions and file I/O, civ, generated tables, the library.
