--------------------------------- MODULE Vm ---------------------------------
(***************************************************************************)
(* The fiber that runs fngi code: the return stack holds return addresses  *)
(* and locals in one flat array that grows down, the info stack the        *)
(* functions they belong to.  Only what moves these stacks is modelled: an *)
(* activation may call, set a local, return or panic at any instruction.   *)
(* The loops that C code starts (executeFn) are counted by `loops'.        *)
(***************************************************************************)
EXTENDS Integers, Sequences

CONSTANTS
  Fns,      \* the functions that are not native
  Locals,   \* the slots that the locals of each function need
  Vals,     \* the values that code stores in its locals
  RSCap,    \* the slots of the return stack
  InfoCap,  \* the entries of the info stack (RS_DEPTH)
  Width,    \* lSlots counts up to Width - 1: 256, for it is a U1
  Rules,    \* what the program keeps to and the machine does not enforce
  MaxAt,    \* bound: the instructions one activation executes
  MaxLoops  \* bound: loops that C code has started in one another

(***************************************************************************)
(*   "topNoLocals"  C code starts no function that has locals              *)
(*   "noReenter"    a native that code calls starts no loop of its own     *)
(***************************************************************************)
RuleNames == {"topNoLocals", "noReenter"}

ASSUME FnsAssumption    == "null" \notin Fns
ASSUME LocalsAssumption == Locals \in [Fns -> Nat]
ASSUME CapsAssumption   == RSCap \in Nat /\ InfoCap \in Nat /\ Width \in Nat \ {0}
ASSUME ValsAssumption   == Vals # {}
ASSUME BoundsAssumption == MaxAt \in Nat /\ MaxLoops \in Nat \ {0}
ASSUME RulesAssumption  == Rules \subseteq RuleNames

VARIABLES
  dat,    \* the array of the return stack, and some memory behind it
  sp,     \* how many of its slots are free: a push fills dat[sp]
  info,   \* the functions that were called, the last one last
  ep,     \* the instruction to execute next
  loops   \* how many executeLoops are running

vars == <<dat, sp, info, ep, loops>>

Eps  == [fn : Fns, at : Nat]
Null == [fn |-> "null", at |-> 0]

lSlots(f) == Locals[f] % Width

(* Where local i of the function that is running is (RS_topRef).           *)
Slot(i) == sp + 1 + i

(* The memory that local accesses can reach.                               *)
Memory == 1..RSCap + Width

Init ==
  /\ dat   = [a \in Memory |-> CHOOSE v \in Vals : TRUE]
  /\ sp    = RSCap
  /\ info  = << >>
  /\ ep    = Null
  /\ loops = 0

Running == loops > 0 /\ ep # Null
Room    == Running /\ ep.at < MaxAt
Next1   == [ep EXCEPT !.at = @ + 1]

(***************************************************************************)
(* An uncaught panic: catchTy is on no info stack, so that catchPanic      *)
(* finds no handler, every executeLoop longjmps to the one outside it and  *)
(* the last one to the code that ends in Kern_errCleanup.                  *)
(***************************************************************************)
Panic ==
  /\ sp' = RSCap /\ info' = << >> /\ ep' = Null /\ loops' = 0
  /\ UNCHANGED dat

(* executeFn from C code, or from a native that fngi code has called.      *)
executeFn(f) ==
  /\ loops = 0 \/ ("noReenter" \notin Rules /\ Room /\ loops < MaxLoops)
  /\ "topNoLocals" \in Rules => Locals[f] = 0
  /\ ep' = [fn |-> f, at |-> 0]
  /\ loops' = loops + 1
  /\ UNCHANGED <<dat, sp, info>>

(* Mutant: forgets the slot of the return address.                         *)
xFits_locals(f) == sp >= lSlots(f) /\ Len(info) < InfoCap

(* The ASSERT on the return stack, and the capacity of the info stack.     *)
xFits(f) == sp >= lSlots(f) + 1 /\ Len(info) < InfoCap

(* Mutant: makes no room for the locals.                                   *)
xImpl_noLocals(f) ==
  /\ Room
  /\ IF xFits(f)
     THEN /\ info' = Append(info, f)
          /\ dat'  = [dat EXCEPT ![sp] = Next1]
          /\ sp'   = sp - 1
          /\ ep'   = [fn |-> f, at |-> 0]
          /\ UNCHANGED loops
     ELSE Panic

xImpl(f) ==
  /\ Room
  /\ IF xFits(f)
     THEN /\ info' = Append(info, f)
          /\ dat'  = [dat EXCEPT ![sp] = Next1]
          /\ sp'   = sp - 1 - lSlots(f)
          /\ ep'   = [fn |-> f, at |-> 0]
          /\ UNCHANGED loops
     ELSE Panic

(* SRLL, or any store through an address that LR gave.                     *)
SetLocal ==
  /\ Room
  /\ \E i \in 0..Locals[ep.fn] - 1, v \in Vals :
       /\ Slot(i) \in Memory
       /\ dat' = [dat EXCEPT ![Slot(i)] = v]
  /\ ep' = Next1
  /\ UNCHANGED <<sp, info, loops>>

(* Mutant: frees the locals of the function returned to.                   *)
ret_callers ==
  /\ LET f == IF Len(info) > 1 THEN info[Len(info) - 1] ELSE info[1]
     IN  /\ info' = SubSeq(info, 1, Len(info) - 1)
         /\ ep'   = dat[sp + lSlots(f) + 1]
         /\ sp'   = sp + lSlots(f) + 1
  /\ UNCHANGED <<dat, loops>>

ret ==
  /\ LET f == info[Len(info)]
     IN  /\ info' = SubSeq(info, 1, Len(info) - 1)
         /\ ep'   = dat[sp + lSlots(f) + 1]
         /\ sp'   = sp + lSlots(f) + 1
  /\ UNCHANGED <<dat, loops>>

(* RET in executeLoop: with an empty return stack the loop is over.        *)
Return ==
  /\ Running
  /\ IF sp = RSCap
     THEN ep' = Null /\ loops' = loops - 1 /\ UNCHANGED <<dat, sp, info>>
     ELSE ret

Next ==
  \/ \E f \in Fns : executeFn(f)
  \/ \E f \in Fns : xImpl(f)
  \/ SetLocal
  \/ Return
  \/ Running /\ Panic

Spec == Init /\ [][Next]_vars

-----------------------------------------------------------------------------
(* Properties.                                                             *)

TypeOK ==
  /\ dat \in [Memory -> Vals \union Eps]
  /\ sp \in 0..RSCap
  /\ info \in Seq(Fns) /\ Len(info) <= InfoCap
  /\ ep \in Eps \union {Null}
  /\ loops \in 0..MaxLoops

(* The slots that these calls have taken.                                  *)
Slots(calls) ==
  LET sum[n \in 0..Len(calls)] ==
        IF n = 0 THEN 0 ELSE sum[n - 1] + lSlots(calls[n]) + 1
  IN  sum[Len(calls)]

(* The slots of the first n calls on the info stack.                       *)
Taken(n) == Slots(SubSeq(info, 1, n))

(***************************************************************************)
(* The two stacks are in lockstep: the info stack accounts for every slot  *)
(* that is taken on the return stack, whatever was called, returned from   *)
(* or abandoned by a panic.                                                *)
(***************************************************************************)
Lockstep == RSCap - sp = Taken(Len(info))

(***************************************************************************)
(* No local of the running function is outside the return stack or in the  *)
(* frame of its caller.                                                    *)
(***************************************************************************)
LocalsInFrame ==
  Running => Slot(Locals[ep.fn] - 1) <=
               RSCap - (IF info = << >> THEN 0 ELSE Taken(Len(info) - 1) + 1)

(***************************************************************************)
(* The machine implements CallStack.  Activation n, from 0 for the one     *)
(* that C code started, is above the slots of the first n calls, and the   *)
(* return address under it is where the activation below goes on.          *)
(***************************************************************************)
Activation(n) ==
  LET top == RSCap - Taken(n)
      at  == IF n = Len(info) THEN ep ELSE dat[top]
  IN  IF at \in Eps
      THEN [fn |-> at.fn, at |-> at.at,
            loc |-> [i \in 0..Locals[at.fn] - 1 |-> dat[top + 1 + i]]]
      ELSE [fn |-> "overwritten", at |-> 0, loc |-> << >>]

Frames == IF Running THEN [n \in 1..Len(info) + 1 |-> Activation(n - 1)]
          ELSE << >>

Abstract ==
  INSTANCE CallStack WITH
    Words  <- Vals \union [fn : Fns, at : 0..MaxAt],
    frames <- Frames

RefinesCallStack == Abstract!Spec
=============================================================================
