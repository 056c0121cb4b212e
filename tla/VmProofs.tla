------------------------------ MODULE VmProofs ------------------------------
(***************************************************************************)
(* Proofs about Vm: the info stack accounts for the return stack whatever  *)
(* the program does, and a program that keeps the rules finds its return   *)
(* addresses and its locals as CallStack promises them.                    *)
(***************************************************************************)
EXTENDS Vm, DataLemmas, SequenceTheorems

-----------------------------------------------------------------------------
(* The slots of calls.                                                     *)

LEMMA SlotsOfCall ==
  ASSUME NEW f \in Fns
  PROVE  lSlots(f) \in Nat /\ (Locals[f] < Width => lSlots(f) = Locals[f])
BY LocalsAssumption, CapsAssumption DEF lSlots

(* The function that Slots defines, and its step.                          *)
Sum(calls) ==
  CHOOSE sum : sum = [n \in 0..Len(calls) |->
    IF n = 0 THEN 0 ELSE sum[n - 1] + lSlots(calls[n]) + 1]

SumStep(calls) ==
  [n \in Nat |-> [v \in Nat |->
    v + (IF n < Len(calls) THEN lSlots(calls[n + 1]) + 1 ELSE 0)]]

LEMMA SumDefined ==
  ASSUME NEW calls \in Seq(Fns)
  PROVE  /\ Sum(calls) \in [0..Len(calls) -> Nat]
         /\ Sum(calls)[0] = 0
         /\ \A n \in 1..Len(calls) :
              Sum(calls)[n] = Sum(calls)[n - 1] + lSlots(calls[n]) + 1
         /\ Slots(calls) = Sum(calls)[Len(calls)]
<1>. DEFINE m == Len(calls)
<1>1. m \in Nat /\ \A n \in 1..m : calls[n] \in Fns
  BY ElementOfSeq
<1>2. SumStep(calls) \in [Nat -> [Nat -> Nat]]
  <2>1. \A n \in Nat : n < m => n + 1 \in 1..m
    BY <1>1
  <2>2. \A n \in Nat : n < m => lSlots(calls[n + 1]) \in Nat
    BY <1>1, <2>1, SlotsOfCall
  <2>. QED
    BY <1>1, <2>2 DEF SumStep
<1>3. PICK f \in [0..m -> Nat] : Recurs(f, m, 0, SumStep(calls))
  BY <1>1, <1>2, RecursExists
<1>4. \A n \in 1..m : f[n] = f[n - 1] + lSlots(calls[n]) + 1
  <2>1. TAKE n \in 1..m
  <2>2. n - 1 \in 0..m - 1 /\ (n - 1) + 1 = n /\ n - 1 < m /\ n - 1 \in Nat
    BY <1>1
  <2>3. f[n] = SumStep(calls)[n - 1][f[n - 1]]
    BY <1>3, <2>2 DEF Recurs
  <2>4. f[n - 1] \in Nat /\ lSlots(calls[n]) \in Nat
    BY <1>1, <2>2, SlotsOfCall
  <2>. QED
    BY <2>2, <2>3, <2>4 DEF SumStep
<1>5. f = [n \in 0..m |-> IF n = 0 THEN 0 ELSE f[n - 1] + lSlots(calls[n]) + 1]
  BY <1>1, <1>3, <1>4 DEF Recurs
<1>6. Sum(calls) = [n \in 0..m |-> IF n = 0 THEN 0
                      ELSE Sum(calls)[n - 1] + lSlots(calls[n]) + 1]
  BY <1>5 DEF Sum
<1>7. /\ Sum(calls)[0] = 0
      /\ \A n \in 1..m : Sum(calls)[n] = Sum(calls)[n - 1] + lSlots(calls[n]) + 1
  BY <1>1, <1>6
<1>8. \A n \in 0..m : Sum(calls)[n] \in Nat
  <2>. DEFINE S == {n \in 0..m : Sum(calls)[n] \in Nat}
  <2>1. 0 \in S
    BY <1>1, <1>7
  <2>2. \A n \in 0..m - 1 : n \in S => n + 1 \in S
    <3>1. TAKE n \in 0..m - 1
    <3>2. n + 1 \in 1..m /\ (n + 1) - 1 = n
      BY <1>1
    <3>3. Sum(calls)[n + 1] = Sum(calls)[n] + lSlots(calls[n + 1]) + 1
      BY <1>7, <3>2
    <3>4. lSlots(calls[n + 1]) \in Nat
      BY <1>1, <3>2, SlotsOfCall
    <3>. QED
      BY <3>2, <3>3, <3>4
  <2>3. 0..m \subseteq S
    <3>. HIDE DEF S
    <3>. QED
      BY <1>1, <2>1, <2>2, SetInductionUpTo
  <2>. QED
    BY <2>3
<1>9. Slots(calls) = Sum(calls)[m]
  BY DEF Slots, Sum
<1>. QED
  BY <1>6, <1>7, <1>8, <1>9

(* The slots of a prefix of the calls are what the sum is after them.      *)
LEMMA SlotsOfPrefix ==
  ASSUME NEW calls \in Seq(Fns), NEW k \in 0..Len(calls)
  PROVE  Slots(SubSeq(calls, 1, k)) = Sum(calls)[k]
<1>. DEFINE sub == SubSeq(calls, 1, k)
<1>1. /\ sub \in Seq(Fns) /\ Len(sub) = k /\ k \in Nat
      /\ \A n \in 1..k : sub[n] = calls[n]
  BY SubSeqProperties, ElementOfSeq
<1>. HIDE DEF sub
<1>. DEFINE S == {n \in 0..k : Sum(sub)[n] = Sum(calls)[n]}
<1>2. 0 \in S
  BY <1>1, SumDefined
<1>3. \A n \in 0..k - 1 : n \in S => n + 1 \in S
  <2>1. SUFFICES ASSUME NEW n \in 0..k - 1, n \in S PROVE n + 1 \in S
    OBVIOUS
  <2>2. n + 1 \in 1..k /\ n + 1 \in 1..Len(calls) /\ (n + 1) - 1 = n
    BY <1>1
  <2>3. Sum(sub)[n + 1] = Sum(sub)[n] + lSlots(sub[n + 1]) + 1
    BY <1>1, <2>2, SumDefined
  <2>4. Sum(calls)[n + 1] = Sum(calls)[n] + lSlots(calls[n + 1]) + 1
    BY <2>2, SumDefined
  <2>. QED
    BY <1>1, <2>1, <2>2, <2>3, <2>4
<1>4. 0..k \subseteq S
  <2>. HIDE DEF S
  <2>. QED
    BY <1>1, <1>2, <1>3, SetInductionUpTo
<1>5. Slots(sub) = Sum(sub)[k]
  BY <1>1, SumDefined
<1>. QED
  BY <1>1, <1>4, <1>5 DEF sub

(* The slots of the first n calls.                                         *)
Before(calls, n) == Slots(SubSeq(calls, 1, n))

(* How the slots grow with the calls: each takes its locals and one more.  *)
LEMMA SlotsSteps ==
  ASSUME NEW calls \in Seq(Fns)
  PROVE  /\ Before(calls, 0) = 0
         /\ \A n \in 0..Len(calls) : Before(calls, n) \in Nat
         /\ \A n \in 1..Len(calls) :
              Before(calls, n)
                = Before(calls, n - 1) + lSlots(calls[n]) + 1
<1>1. Len(calls) \in Nat /\ \A n \in 1..Len(calls) : n - 1 \in 0..Len(calls)
  OBVIOUS
<1>2. \A n \in 0..Len(calls) : Before(calls, n) = Sum(calls)[n]
  BY SlotsOfPrefix DEF Before
<1>3. Before(calls, 0) = 0
  BY <1>1, <1>2, SumDefined
<1>4. \A n \in 0..Len(calls) : Before(calls, n) \in Nat
  BY <1>2, SumDefined
<1>5. ASSUME NEW n \in 1..Len(calls)
      PROVE  Before(calls, n)
               = Before(calls, n - 1) + lSlots(calls[n]) + 1
  <2>1. Before(calls, n) = Sum(calls)[n]
    BY <1>1, <1>2
  <2>2. Before(calls, n - 1) = Sum(calls)[n - 1]
    BY <1>1, <1>2
  <2>. QED
    BY <2>1, <2>2, SumDefined
<1>. QED
  BY <1>3, <1>4, <1>5

LEMMA SlotsGrow ==
  ASSUME NEW calls \in Seq(Fns), NEW n \in 0..Len(calls), NEW m \in 0..n - 1
  PROVE  Before(calls, m) < Before(calls, n)
<1>. DEFINE t(i) == Before(calls, i)
            S == {i \in 0..n : m < i => t(m) < t(i)}
<1>1. n \in Nat /\ m \in Nat /\ m < n /\ n <= Len(calls) /\ Len(calls) \in Nat
  OBVIOUS
<1>2. 0 \in S
  BY <1>1
<1>3. \A i \in 0..n - 1 : i \in S => i + 1 \in S
  <2>1. SUFFICES ASSUME NEW i \in 0..n - 1, i \in S, m < i + 1
                 PROVE  t(m) < t(i + 1)
    BY <1>1
  <2>2. i + 1 \in 1..Len(calls) /\ (i + 1) - 1 = i /\ m \in 0..Len(calls)
        /\ i \in 0..Len(calls)
    BY <1>1
  <2>3. t(i + 1) = t(i) + lSlots(calls[i + 1]) + 1
    BY <2>2, SlotsSteps
  <2>4. t(i) \in Nat /\ t(m) \in Nat /\ lSlots(calls[i + 1]) \in Nat
    BY <2>2, SlotsSteps, SlotsOfCall, ElementOfSeq
  <2>5. m = i \/ t(m) < t(i)
    BY <1>1, <2>1
  <2>. HIDE DEF t
  <2>. QED
    BY <2>3, <2>4, <2>5
<1>4. 0..n \subseteq S
  <2>. HIDE DEF S
  <2>. QED
    BY <1>1, <1>2, <1>3, SetInductionUpTo
<1>. QED
  BY <1>1, <1>4

(* Prefixes with the same calls are the same.                              *)
LEMMA SamePrefix ==
  ASSUME NEW calls \in Seq(Fns), NEW other \in Seq(Fns),
         NEW n \in 0..Len(calls), n <= Len(other),
         \A i \in 1..n : calls[i] = other[i]
  PROVE  SubSeq(calls, 1, n) = SubSeq(other, 1, n)
<1>1. /\ SubSeq(calls, 1, n) \in Seq(Fns) /\ Len(SubSeq(calls, 1, n)) = n
      /\ SubSeq(other, 1, n) \in Seq(Fns) /\ Len(SubSeq(other, 1, n)) = n
      /\ \A i \in 1..n : SubSeq(calls, 1, n)[i] = calls[i]
      /\ \A i \in 1..n : SubSeq(other, 1, n)[i] = other[i]
  BY SubSeqProperties, ElementOfSeq
<1>. QED
  BY <1>1, SeqEqual

(* A call adds its slots and leaves those of the calls before it.          *)
LEMMA SlotsAppend ==
  ASSUME NEW calls \in Seq(Fns), NEW f \in Fns, NEW longer,
         longer = Append(calls, f)
  PROVE  /\ longer \in Seq(Fns) /\ Len(longer) = Len(calls) + 1
         /\ \A i \in 1..Len(calls) : longer[i] = calls[i]
         /\ longer[Len(calls) + 1] = f
         /\ \A n \in 0..Len(calls) :
              Before(longer, n) = Before(calls, n)
         /\ Before(longer, Len(calls) + 1)
              = Before(calls, Len(calls)) + lSlots(f) + 1
<1>1. /\ longer \in Seq(Fns) /\ Len(longer) = Len(calls) + 1 /\ Len(calls) \in Nat
      /\ \A i \in 1..Len(calls) : longer[i] = calls[i]
      /\ longer[Len(calls) + 1] = f
  BY AppendProperties
<1>2. ASSUME NEW n \in 0..Len(calls)
      PROVE  Before(longer, n) = Before(calls, n)
  <2>1. n <= Len(longer) /\ \A i \in 1..n : calls[i] = longer[i]
    BY <1>1
  <2>2. SubSeq(calls, 1, n) = SubSeq(longer, 1, n)
    BY <1>1, <2>1, SamePrefix
  <2>. QED
    BY <2>2 DEF Before
<1>3. Before(longer, Len(calls) + 1)
        = Before(longer, Len(calls)) + lSlots(f) + 1
  <2>1. Len(calls) + 1 \in 1..Len(longer) /\ (Len(calls) + 1) - 1 = Len(calls)
    BY <1>1
  <2>. QED
    BY <1>1, <2>1, SlotsSteps
<1>4. Before(longer, Len(calls)) = Before(calls, Len(calls))
  BY <1>1, <1>2
<1>. QED
  BY <1>1, <1>2, <1>3, <1>4

(* A return takes the slots of the last call away.                         *)
LEMMA SlotsPopped ==
  ASSUME NEW calls \in Seq(Fns), calls # << >>, NEW shorter,
         shorter = SubSeq(calls, 1, Len(calls) - 1)
  PROVE  /\ Len(calls) \in Nat \ {0} /\ calls[Len(calls)] \in Fns
         /\ shorter \in Seq(Fns) /\ Len(shorter) = Len(calls) - 1
         /\ \A i \in 1..Len(calls) - 1 : shorter[i] = calls[i]
         /\ \A n \in 0..Len(calls) - 1 :
              Before(shorter, n) = Before(calls, n)
         /\ Before(calls, Len(calls))
              = Before(calls, Len(calls) - 1)
                + lSlots(calls[Len(calls)]) + 1
<1>1. Len(calls) \in Nat \ {0}
  BY EmptySeq
<1>2. calls[Len(calls)] \in Fns
  BY <1>1, ElementOfSeq
<1>3. /\ shorter \in Seq(Fns) /\ Len(shorter) = Len(calls) - 1
      /\ \A i \in 1..Len(calls) - 1 : shorter[i] = calls[i]
  <2>. DEFINE k == Len(calls) - 1
  <2>1. k \in Nat /\ \A i \in 1..k : calls[i] \in Fns
    BY <1>1, ElementOfSeq
  <2>2. shorter = SubSeq(calls, 1, k)
    OBVIOUS
  <2>3. shorter \in Seq(Fns) /\ Len(shorter) = k /\ \A i \in 1..k : shorter[i] = calls[i]
    <3>. HIDE DEF k
    <3>. QED
      BY <2>1, <2>2, SubSeqProperties
  <2>. QED
    BY <2>3
<1>4. ASSUME NEW n \in 0..Len(calls) - 1
      PROVE  Before(shorter, n) = Before(calls, n)
  <2>1. n \in 0..Len(shorter) /\ n <= Len(calls)
        /\ \A i \in 1..n : shorter[i] = calls[i]
    BY <1>1, <1>3
  <2>2. SubSeq(shorter, 1, n) = SubSeq(calls, 1, n)
    BY <1>3, <2>1, SamePrefix
  <2>. QED
    BY <2>2 DEF Before
<1>5. Before(calls, Len(calls))
        = Before(calls, Len(calls) - 1) + lSlots(calls[Len(calls)]) + 1
  BY <1>1, SlotsSteps
<1>. QED
  BY <1>1, <1>2, <1>3, <1>4, <1>5

-----------------------------------------------------------------------------
(* The inductive invariants.                                               *)

(* What holds of the two stacks whatever the program does.                 *)
StackInv ==
  /\ sp \in 0..RSCap
  /\ info \in Seq(Fns) /\ Len(info) <= InfoCap
  /\ Lockstep

(* The instructions that the activations get to.                           *)
Points == [fn : Fns, at : 0..MaxAt]

(* e is a place in the function that the last of calls is of; the function *)
(* that C code started has no locals.                                      *)
RunsIn(e, calls, n) == IF n = 0 THEN Locals[e.fn] = 0 ELSE e.fn = calls[n]

(* Where the caller of call n + 1 goes on: above the slots of n calls.     *)
BackTo(mem, calls, n) == mem[RSCap - Before(calls, n)]

(* What holds in addition when the program keeps the rules: the running    *)
(* activation and those that wait are of the functions on the info stack.  *)
FrameInv ==
  /\ dat \in [Memory -> Vals \union Points]
  /\ ep \in Points \union {Null}
  /\ loops = (IF ep = Null THEN 0 ELSE 1)
  /\ ep = Null => info = << >>
  /\ ep # Null => RunsIn(ep, info, Len(info))
  /\ \A n \in 0..Len(info) - 1 :
       BackTo(dat, info, n) \in Points /\ RunsIn(BackTo(dat, info, n), info, n)

(***************************************************************************)
(* Any program: the two stacks stay in lockstep.                           *)
(***************************************************************************)
LEMMA StackFacts ==
  ASSUME StackInv
  PROVE  /\ sp \in Nat /\ sp <= RSCap /\ RSCap \in Nat /\ InfoCap \in Nat
         /\ info \in Seq(Fns) /\ Len(info) \in Nat /\ Len(info) <= InfoCap
         /\ Before(info, Len(info)) = RSCap - sp
BY CapsAssumption DEF StackInv, Lockstep, Taken, Before

LEMMA StackStart ==
  ASSUME NEW calls, calls = << >>
  PROVE  calls \in Seq(Fns) /\ Len(calls) = 0 /\ Before(calls, Len(calls)) = 0
BY EmptySeq, SlotsSteps

LEMMA InitStackInv == Init => StackInv
<1>. SUFFICES ASSUME Init PROVE StackInv
  OBVIOUS
<1>1. info \in Seq(Fns) /\ Len(info) = 0 /\ Before(info, Len(info)) = 0
  BY StackStart DEF Init
<1>. QED
  BY <1>1, CapsAssumption DEF Init, StackInv, Lockstep, Taken, Before

(* With slots taken there is a call to return from, and only then.         *)
LEMMA SomethingToReturn ==
  ASSUME StackInv
  PROVE  sp = RSCap <=> info = << >>
<1>1. ASSUME info = << >> PROVE sp = RSCap
  BY <1>1, StackFacts, StackStart
<1>2. ASSUME info # << >> PROVE sp # RSCap
  <2>1. Len(info) \in Nat \ {0}
    BY <1>2, StackFacts, EmptySeq
  <2>2. Before(info, 0) < Before(info, Len(info)) /\ Before(info, 0) = 0
    BY <2>1, StackFacts, SlotsGrow, SlotsSteps
  <2>. QED
    BY <2>2, StackFacts
<1>. QED
  BY <1>1, <1>2

(* What a call that fits does to the two stacks.                           *)
LEMMA CallStep ==
  ASSUME StackInv, NEW f \in Fns, xImpl(f), xFits(f)
  PROVE  /\ sp \in 1..RSCap /\ lSlots(f) \in Nat
         /\ sp' = sp - 1 - lSlots(f) /\ sp' \in 0..RSCap
         /\ info' \in Seq(Fns) /\ Len(info') = Len(info) + 1
         /\ Len(info') <= InfoCap
         /\ \A i \in 1..Len(info) : info'[i] = info[i]
         /\ info'[Len(info) + 1] = f
         /\ \A n \in 0..Len(info) : Before(info', n) = Before(info, n)
         /\ Before(info', Len(info')) = RSCap - sp'
<1>1. /\ sp \in Nat /\ sp <= RSCap /\ RSCap \in Nat /\ InfoCap \in Nat
      /\ info \in Seq(Fns) /\ Len(info) \in Nat /\ Len(info) <= InfoCap
      /\ Before(info, Len(info)) = RSCap - sp
  BY StackFacts
<1>2. info' = Append(info, f) /\ sp' = sp - 1 - lSlots(f)
  BY DEF xImpl
<1>3. lSlots(f) \in Nat /\ sp >= lSlots(f) + 1 /\ Len(info) < InfoCap
  BY SlotsOfCall DEF xFits
<1>4. /\ info' \in Seq(Fns) /\ Len(info') = Len(info) + 1
      /\ \A i \in 1..Len(info) : info'[i] = info[i]
      /\ info'[Len(info) + 1] = f
      /\ \A n \in 0..Len(info) : Before(info', n) = Before(info, n)
      /\ Before(info', Len(info) + 1) = Before(info, Len(info)) + lSlots(f) + 1
  <2>. DEFINE longer == info'
  <2>1. longer = Append(info, f)
    BY <1>2
  <2>2. info \in Seq(Fns)
    BY <1>1
  <2>. HIDE DEF longer
  <2>3. /\ longer \in Seq(Fns) /\ Len(longer) = Len(info) + 1
        /\ \A i \in 1..Len(info) : longer[i] = info[i]
        /\ longer[Len(info) + 1] = f
    BY <2>1, <2>2, SlotsAppend
  <2>4. /\ \A n \in 0..Len(info) : Before(longer, n) = Before(info, n)
        /\ Before(longer, Len(info) + 1) = Before(info, Len(info)) + lSlots(f) + 1
    BY <2>1, <2>2, SlotsAppend, ZenonT(60)
  <2>. QED
    BY <2>3, <2>4 DEF longer
<1>5. Before(info', Len(info')) = (RSCap - sp) + lSlots(f) + 1
  BY <1>1, <1>4
<1>6. sp' \in 0..RSCap /\ sp \in 1..RSCap /\ Len(info') <= InfoCap
  BY <1>1, <1>2, <1>3, <1>4
<1>7. RSCap - sp' = (RSCap - sp) + lSlots(f) + 1
  BY <1>1, <1>2, <1>3
<1>. QED
  BY <1>2, <1>3, <1>4, <1>5, <1>6, <1>7

(* What a return that does not end a loop does to them.                    *)
LEMMA ReturnStep ==
  ASSUME StackInv, info # << >>, ret
  PROVE  /\ Len(info) \in Nat \ {0} /\ info[Len(info)] \in Fns
         /\ lSlots(info[Len(info)]) \in Nat
         /\ sp' = sp + lSlots(info[Len(info)]) + 1 /\ sp' \in 1..RSCap
         /\ info' \in Seq(Fns) /\ Len(info') = Len(info) - 1
         /\ Len(info') <= InfoCap
         /\ \A i \in 1..Len(info) - 1 : info'[i] = info[i]
         /\ \A n \in 0..Len(info) - 1 : Before(info', n) = Before(info, n)
         /\ Before(info', Len(info')) = RSCap - sp'
<1>. DEFINE shorter == info'
<1>1. /\ sp \in Nat /\ sp <= RSCap /\ RSCap \in Nat /\ InfoCap \in Nat
      /\ info \in Seq(Fns) /\ Len(info) \in Nat /\ Len(info) <= InfoCap
      /\ Before(info, Len(info)) = RSCap - sp
  BY StackFacts
<1>2. /\ shorter = SubSeq(info, 1, Len(info) - 1)
      /\ sp' = sp + lSlots(info[Len(info)]) + 1
  BY DEF ret
<1>. HIDE DEF shorter
<1>3. Len(info) \in Nat \ {0} /\ info[Len(info)] \in Fns
  BY <1>1, <1>2, SlotsPopped
<1>4. /\ shorter \in Seq(Fns) /\ Len(shorter) = Len(info) - 1
      /\ \A i \in 1..Len(info) - 1 : shorter[i] = info[i]
  BY <1>1, <1>2, SlotsPopped
<1>5. \A n \in 0..Len(info) - 1 : Before(shorter, n) = Before(info, n)
  BY <1>1, <1>2, SlotsPopped
<1>6. Before(info, Len(info))
        = Before(info, Len(info) - 1) + lSlots(info[Len(info)]) + 1
  BY <1>1, <1>2, SlotsPopped
<1>7. lSlots(info[Len(info)]) \in Nat
  BY <1>3, SlotsOfCall
<1>8. Before(info, Len(info) - 1) \in Nat
  BY <1>1, <1>3, SlotsSteps
<1>9. Before(shorter, Len(shorter)) = RSCap - sp'
  <2>1. Before(shorter, Len(shorter)) = Before(info, Len(info) - 1)
    BY <1>3, <1>4, <1>5
  <2>2. Before(info, Len(info) - 1) = RSCap - sp'
    <3>. HIDE DEF shorter
    <3>1. Before(info, Len(info) - 1) = (RSCap - sp) - lSlots(info[Len(info)]) - 1
      BY <1>1, <1>6, <1>7, <1>8
    <3>2. RSCap - sp' = (RSCap - sp) - lSlots(info[Len(info)]) - 1
      BY <1>1, <1>2, <1>7
    <3>. QED
      BY <3>1, <3>2
  <2>. QED
    BY <2>1, <2>2
<1>10. sp' \in 1..RSCap
  BY <1>1, <1>2, <1>6, <1>7, <1>8
<1>11. Len(shorter) <= InfoCap
  BY <1>1, <1>3, <1>4
<1>. QED
  BY <1>2, <1>3, <1>4, <1>5, <1>7, <1>9, <1>10, <1>11 DEF shorter

LEMMA NextStackInv == StackInv /\ [Next]_vars => StackInv'
<1>. SUFFICES ASSUME StackInv, [Next]_vars PROVE StackInv'
  OBVIOUS
<1>. DEFINE Goal == /\ sp' \in 0..RSCap
                    /\ info' \in Seq(Fns) /\ Len(info') <= InfoCap
                    /\ Before(info', Len(info')) = RSCap - sp'
<1>. SUFFICES Goal
  BY DEF StackInv, Lockstep, Taken, Before
<1>1. ASSUME Panic PROVE Goal
  BY <1>1, StackFacts, StackStart DEF Panic
<1>2. ASSUME UNCHANGED <<sp, info>> PROVE Goal
  BY <1>2, StackFacts
<1>3. ASSUME NEW f \in Fns, executeFn(f) PROVE Goal
  BY <1>2, <1>3 DEF executeFn
<1>4. ASSUME NEW f \in Fns, xImpl(f) PROVE Goal
  <2>1. CASE xFits(f)
    BY <1>4, <2>1, CallStep
  <2>2. CASE ~xFits(f)
    BY <1>1, <1>4, <2>2 DEF xImpl
  <2>. QED
    BY <2>1, <2>2
<1>5. ASSUME SetLocal PROVE Goal
  BY <1>2, <1>5 DEF SetLocal
<1>6. ASSUME Return PROVE Goal
  <2>1. CASE sp = RSCap
    BY <1>2, <1>6, <2>1 DEF Return
  <2>2. CASE sp # RSCap
    <3>1. info # << >> /\ ret
      BY <1>6, <2>2, SomethingToReturn DEF Return
    <3>. QED
      BY <3>1, ReturnStep
  <2>. QED
    BY <2>1, <2>2
<1>. QED
  BY <1>1, <1>2, <1>3, <1>4, <1>5, <1>6 DEF Next, vars

LEMMA StackInvariant == Spec => []StackInv
BY InitStackInv, NextStackInv, PTL DEF Spec

(***************************************************************************)
(* Whatever was called, returned from or abandoned by a panic, also by a   *)
(* program that keeps no rules: `ret' frees the slots that `xImpl' took.   *)
(***************************************************************************)
THEOREM StacksInLockstep == Spec => []Lockstep
<1>1. StackInv => Lockstep
  BY DEF StackInv
<1>. QED
  BY <1>1, StackInvariant, PTL

-----------------------------------------------------------------------------
(***************************************************************************)
(* Programs that keep the rules of Vm, and whose functions have no more    *)
(* slots of locals than lSlots can count, which nothing checks: parseFn    *)
(* assigns the number to a U1.                                             *)
(***************************************************************************)
KeepsRules == Rules = RuleNames /\ \A f \in Fns : Locals[f] < Width

LEMMA InitFrameInv == Init => FrameInv
<1>. SUFFICES ASSUME Init PROVE FrameInv
  OBVIOUS
<1>1. (CHOOSE v \in Vals : TRUE) \in Vals
  BY ValsAssumption
<1>2. Len(info) = 0
  BY StackStart DEF Init
<1>. QED
  BY <1>1, <1>2 DEF Init, FrameInv

LEMMA PointsAreNotNull == Null \notin Points
BY FnsAssumption DEF Null, Points

(* The return addresses are above the locals of the running activation.    *)
LEMMA BackAbove ==
  ASSUME StackInv, NEW n \in 0..Len(info) - 1
  PROVE  /\ info[Len(info)] \in Fns
         /\ RSCap - Before(info, n) \in sp + lSlots(info[Len(info)]) + 1..RSCap
         /\ n = Len(info) - 1 =>
              RSCap - Before(info, n) = sp + lSlots(info[Len(info)]) + 1
<1>. DEFINE k == Len(info) - 1
<1>1. k \in Nat /\ n \in 0..k /\ Len(info) = k + 1 /\ info[k + 1] \in Fns
  BY StackFacts, ElementOfSeq
<1>2. lSlots(info[k + 1]) \in Nat
  BY <1>1, SlotsOfCall
<1>3. Before(info, k + 1) = Before(info, k) + lSlots(info[k + 1]) + 1
  <2>1. k + 1 \in 1..Len(info) /\ (k + 1) - 1 = k
    BY <1>1
  <2>. HIDE DEF k
  <2>. QED
    BY <2>1, StackFacts, SlotsSteps
<1>4. Before(info, k) \in Nat /\ Before(info, n) \in Nat
  BY <1>1, StackFacts, SlotsSteps
<1>5. n = k \/ Before(info, n) < Before(info, k)
  <2>1. k \in 0..Len(info) /\ info \in Seq(Fns)
    BY <1>1, StackFacts
  <2>. HIDE DEF k
  <2>2. n = k \/ n \in 0..k - 1
    BY <1>1
  <2>. QED
    BY <2>1, <2>2, SlotsGrow
<1>6. Before(info, k + 1) = RSCap - sp /\ RSCap \in Nat /\ sp \in Nat
  BY <1>1, StackFacts
<1>. HIDE DEF k
<1>7. RSCap - Before(info, k) = sp + lSlots(info[k + 1]) + 1
  BY <1>2, <1>3, <1>4, <1>6
<1>8. RSCap - Before(info, n) \in sp + lSlots(info[k + 1]) + 1..RSCap
  BY <1>2, <1>4, <1>5, <1>6, <1>7
<1>. QED
  BY <1>1, <1>7, <1>8 DEF k

(* Under the rules the locals of the running function are in its frame.    *)
LEMMA FrameHoldsLocals ==
  ASSUME KeepsRules, StackInv, FrameInv, ep # Null
  PROVE  /\ ep \in Points /\ Locals[ep.fn] \in Nat
         /\ info = << >> => Locals[ep.fn] = 0
         /\ info # << >> => ep.fn = info[Len(info)]
                            /\ Locals[ep.fn] = lSlots(info[Len(info)])
<1>1. ep \in Points /\ ep.fn \in Fns
  BY DEF FrameInv, Points
<1>2. Locals[ep.fn] \in Nat /\ lSlots(ep.fn) = Locals[ep.fn]
  BY <1>1, SlotsOfCall, LocalsAssumption DEF KeepsRules
<1>3. info = << >> => Len(info) = 0
  OBVIOUS
<1>4. info # << >> => Len(info) # 0
  BY StackFacts, EmptySeq
<1>. QED
  BY <1>1, <1>2, <1>3, <1>4 DEF FrameInv, RunsIn

LEMMA NextFrameInv ==
  ASSUME KeepsRules, StackInv, FrameInv, StackInv', [Next]_vars
  PROVE  FrameInv'
<1>. DEFINE Goal ==
       /\ dat' \in [Memory -> Vals \union Points]
       /\ ep' \in Points \union {Null}
       /\ loops' = (IF ep' = Null THEN 0 ELSE 1)
       /\ ep' = Null => info' = << >>
       /\ ep' # Null => RunsIn(ep', info', Len(info'))
       /\ \A n \in 0..Len(info') - 1 :
            /\ BackTo(dat', info', n) \in Points
            /\ RunsIn(BackTo(dat', info', n), info', n)
<1>. SUFFICES Goal
  BY DEF FrameInv
<1>0. /\ dat \in [Memory -> Vals \union Points] /\ ep \in Points \union {Null}
      /\ loops = (IF ep = Null THEN 0 ELSE 1) /\ MaxAt \in Nat
      /\ Len(info) \in Nat
      /\ Running => ep \in Points
      /\ "topNoLocals" \in Rules /\ "noReenter" \in Rules
  BY BoundsAssumption, StackFacts DEF FrameInv, Running, KeepsRules, RuleNames
<1>1. ASSUME Panic PROVE Goal
  <2>1. dat' = dat /\ info' = << >> /\ ep' = Null /\ loops' = 0
    BY <1>1 DEF Panic
  <2>2. Len(info') = 0
    BY <2>1
  <2>. QED
    BY <1>0, <2>1, <2>2
<1>2. ASSUME NEW f \in Fns, executeFn(f) PROVE Goal
  <2>1. /\ loops = 0 /\ loops' = 1 /\ Locals[f] = 0 /\ ep' = [fn |-> f, at |-> 0]
        /\ dat' = dat /\ info' = info
    BY <1>0, <1>2 DEF executeFn
  <2>2. ep' \in Points /\ ep' # Null
    BY <1>0, <2>1, PointsAreNotNull DEF Points
  <2>3. info = << >> /\ Len(info) = 0
    BY <1>0, <2>1 DEF FrameInv
  <2>4. RunsIn(ep', info', Len(info'))
    BY <2>1, <2>3 DEF RunsIn
  <2>. QED
    BY <1>0, <2>1, <2>2, <2>3, <2>4
<1>3. ASSUME NEW f \in Fns, xImpl(f) PROVE Goal
  <2>1. CASE ~xFits(f)
    BY <1>1, <1>3, <2>1 DEF xImpl
  <2>2. CASE xFits(f)
    <3>1. /\ Running /\ ep.at < MaxAt /\ dat' = [dat EXCEPT ![sp] = Next1]
          /\ ep' = [fn |-> f, at |-> 0] /\ loops' = loops
      BY <1>3, <2>2 DEF xImpl, Room
    <3>2. /\ ep \in Points /\ ep.fn \in Fns /\ ep.at \in Nat
          /\ ep' \in Points /\ ep' # Null /\ Next1 \in Points
          /\ Next1.fn = ep.fn
      BY <1>0, <3>1, PointsAreNotNull DEF Points, Next1
    <3>3. /\ sp \in 1..RSCap /\ RSCap \in Nat
          /\ Len(info') = Len(info) + 1
          /\ \A i \in 1..Len(info) : info'[i] = info[i]
          /\ info'[Len(info) + 1] = f
          /\ \A n \in 0..Len(info) : Before(info', n) = Before(info, n)
      BY <1>3, <2>2, CallStep, StackFacts
    <3>4. sp \in Memory
      BY <3>3, CapsAssumption DEF Memory
    <3>5. dat' \in [Memory -> Vals \union Points]
      BY <1>0, <3>1, <3>2
    <3>6. RunsIn(ep', info', Len(info'))
      BY <1>0, <3>1, <3>3 DEF RunsIn
    <3>7. ASSUME NEW n \in 0..Len(info) - 1
          PROVE  /\ BackTo(dat', info', n) \in Points
                 /\ RunsIn(BackTo(dat', info', n), info', n)
      <4>1. RSCap - Before(info, n) > sp
        BY <1>0, <3>3, BackAbove, SlotsOfCall
      <4>2. BackTo(dat', info', n) = BackTo(dat, info, n)
        <5>1. Before(info', n) = Before(info, n)
          BY <1>0, <3>3
        <5>2. RSCap - Before(info, n) \in Memory
          BY <3>3, <4>1, BackAbove, SlotsOfCall, CapsAssumption DEF Memory
        <5>. QED
          BY <1>0, <3>1, <3>3, <4>1, <5>1, <5>2 DEF BackTo
      <4>3. n = 0 \/ info'[n] = info[n]
        BY <1>0, <3>3
      <4>. QED
        BY <4>2, <4>3 DEF FrameInv, RunsIn
    <3>8. /\ BackTo(dat', info', Len(info)) \in Points
          /\ RunsIn(BackTo(dat', info', Len(info)), info', Len(info))
      <4>1. RSCap - Before(info', Len(info)) = sp
        BY <1>0, <3>3, StackFacts
      <4>2. BackTo(dat', info', Len(info)) = Next1
        BY <1>0, <3>1, <3>4, <4>1 DEF BackTo
      <4>3. RunsIn(ep, info, Len(info))
        BY <3>1 DEF FrameInv, Running
      <4>4. Len(info) = 0 \/ info'[Len(info)] = info[Len(info)]
        BY <1>0, <3>3
      <4>. QED
        BY <3>2, <4>2, <4>3, <4>4 DEF RunsIn
    <3>9. \A n \in 0..Len(info') - 1 : n \in 0..Len(info) - 1 \/ n = Len(info)
      BY <1>0, <3>3
    <3>10. loops' = 1
      BY <1>0, <3>1 DEF Running
    <3>. QED
      BY <3>2, <3>5, <3>6, <3>7, <3>8, <3>9, <3>10
  <2>. QED
    BY <2>1, <2>2
<1>4. ASSUME SetLocal PROVE Goal
  <2>1. PICK i \in 0..Locals[ep.fn] - 1, v \in Vals :
          Slot(i) \in Memory /\ dat' = [dat EXCEPT ![Slot(i)] = v]
    BY <1>4 DEF SetLocal
  <2>2. /\ Running /\ ep.at < MaxAt /\ ep' = Next1
        /\ sp' = sp /\ info' = info /\ loops' = loops
    BY <1>4 DEF SetLocal, Room
  <2>3. /\ ep \in Points /\ ep.fn \in Fns /\ ep.at \in Nat
        /\ ep' \in Points /\ ep' # Null /\ ep'.fn = ep.fn
    BY <1>0, <2>2, PointsAreNotNull DEF Points, Next1
  <2>4. dat' \in [Memory -> Vals \union Points]
    BY <1>0, <2>1
  <2>5. Slot(i) <= sp + lSlots(info[Len(info)]) /\ info # << >>
    BY <2>1, <2>2, FrameHoldsLocals, StackFacts DEF Slot, Running
  <2>6. ASSUME NEW n \in 0..Len(info) - 1
        PROVE  BackTo(dat', info, n) = BackTo(dat, info, n)
    <3>1. RSCap - Before(info, n) # Slot(i)
      BY <2>1, <2>5, BackAbove, SlotsOfCall, StackFacts DEF Slot
    <3>. QED
      BY <1>0, <2>1, <3>1 DEF BackTo
  <2>7. RunsIn(ep', info', Len(info'))
    BY <2>2, <2>3 DEF FrameInv, RunsIn, Running
  <2>8. loops' = 1
    BY <1>0, <2>2 DEF Running
  <2>9. \A n \in 0..Len(info) - 1 :
          /\ BackTo(dat', info, n) \in Points
          /\ RunsIn(BackTo(dat', info, n), info, n)
    BY <2>6 DEF FrameInv
  <2>. QED
    BY <2>2, <2>3, <2>4, <2>7, <2>8, <2>9
<1>5. ASSUME Return PROVE Goal
  <2>1. CASE sp = RSCap
    <3>1. /\ ep' = Null /\ loops' = loops - 1 /\ dat' = dat /\ info' = info
          /\ loops = 1
      BY <1>0, <1>5, <2>1 DEF Return, Running
    <3>2. info = << >> /\ Len(info) = 0
      BY <2>1, SomethingToReturn
    <3>. QED
      BY <1>0, <3>1, <3>2
  <2>2. CASE sp # RSCap
    <3>1. Running /\ ret /\ info # << >>
      BY <1>5, <2>2, SomethingToReturn DEF Return
    <3>2. /\ Len(info) \in Nat \ {0} /\ Len(info') = Len(info) - 1
          /\ \A j \in 1..Len(info) - 1 : info'[j] = info[j]
          /\ \A n \in 0..Len(info) - 1 : Before(info', n) = Before(info, n)
      BY <3>1, ReturnStep
    <3>3. dat' = dat /\ loops' = loops
      BY <3>1 DEF ret
    <3>4. ep' = BackTo(dat, info, Len(info) - 1)
      <4>1. Len(info) - 1 \in 0..Len(info) - 1
        BY <3>2
      <4>2. RSCap - Before(info, Len(info) - 1) = sp + lSlots(info[Len(info)]) + 1
        BY <4>1, BackAbove
      <4>. QED
        BY <3>1, <4>2 DEF ret, BackTo
    <3>5. ASSUME NEW n \in 0..Len(info) - 1
          PROVE  /\ BackTo(dat', info', n) = BackTo(dat, info, n)
                 /\ BackTo(dat, info, n) \in Points
                 /\ RunsIn(BackTo(dat', info', n), info', n)
      <4>1. BackTo(dat', info', n) = BackTo(dat, info, n)
        BY <3>2, <3>3 DEF BackTo
      <4>2. n = 0 \/ info'[n] = info[n]
        BY <3>2
      <4>. QED
        BY <4>1, <4>2 DEF FrameInv, RunsIn
    <3>6. Len(info') \in 0..Len(info) - 1
      BY <3>2
    <3>7. /\ ep' \in Points /\ ep' # Null /\ RunsIn(ep', info', Len(info'))
      BY <3>2, <3>4, <3>5, <3>6, PointsAreNotNull
    <3>8. loops' = 1
      BY <1>0, <3>1, <3>3 DEF Running
    <3>9. \A n \in 0..Len(info') - 1 : n \in 0..Len(info) - 1
      BY <3>2
    <3>. QED
      BY <1>0, <3>3, <3>5, <3>7, <3>8, <3>9
  <2>. QED
    BY <2>1, <2>2
<1>6. ASSUME UNCHANGED vars PROVE Goal
  BY <1>6 DEF vars, FrameInv
<1>. QED
  BY <1>1, <1>2, <1>3, <1>4, <1>5, <1>6 DEF Next

LEMMA FrameInvariant == ASSUME KeepsRules PROVE Spec => []FrameInv
<1>1. Init => FrameInv
  BY InitFrameInv
<1>2. StackInv /\ StackInv' /\ FrameInv /\ [Next]_vars => FrameInv'
  BY NextFrameInv
<1>. QED
  BY <1>1, <1>2, StackInvariant, PTL DEF Spec

(***************************************************************************)
(* What is on the return stack as a return address is one, so that every   *)
(* value of every variable is of its type.                                 *)
(***************************************************************************)
THEOREM VmTypeCorrect == ASSUME KeepsRules PROVE Spec => []TypeOK
<1>1. StackInv /\ FrameInv => TypeOK
  <2>1. Points \subseteq Eps
    BY BoundsAssumption DEF Points, Eps
  <2>. QED
    BY <2>1, BoundsAssumption DEF StackInv, FrameInv, TypeOK
<1>. QED
  BY <1>1, StackInvariant, FrameInvariant, PTL

(***************************************************************************)
(* SRLL and LR reach the frame of the running function and nothing else.   *)
(***************************************************************************)
THEOREM FrameCorrect == ASSUME KeepsRules PROVE Spec => []LocalsInFrame
<1>1. StackInv /\ FrameInv => LocalsInFrame
  <2>1. SUFFICES ASSUME StackInv, FrameInv, Running
                 PROVE  Slot(Locals[ep.fn] - 1) <=
                          RSCap - (IF info = << >> THEN 0 ELSE Taken(Len(info) - 1) + 1)
    BY DEF LocalsInFrame
  <2>2. ep # Null
    BY <2>1 DEF Running
  <2>3. CASE info = << >>
    <3>1. Locals[ep.fn] = 0 /\ sp = RSCap /\ RSCap \in Nat
      BY <2>1, <2>2, <2>3, FrameHoldsLocals, SomethingToReturn, StackFacts
    <3>. QED
      BY <2>3, <3>1 DEF Slot
  <2>4. CASE info # << >>
    <3>1. Len(info) - 1 \in 0..Len(info) - 1
      BY <2>1, <2>4, StackFacts, EmptySeq
    <3>2. RSCap - Before(info, Len(info) - 1) = sp + lSlots(info[Len(info)]) + 1
      BY <2>1, <3>1, BackAbove
    <3>3. Locals[ep.fn] \in Nat /\ Locals[ep.fn] = lSlots(info[Len(info)])
      BY <2>1, <2>2, <2>4, FrameHoldsLocals
    <3>4. Taken(Len(info) - 1) = Before(info, Len(info) - 1)
      BY DEF Taken, Before
    <3>5. /\ Before(info, Len(info) - 1) \in Nat /\ RSCap \in Nat /\ sp \in Nat
      BY <2>1, <3>1, StackFacts, SlotsSteps
    <3>. QED
      BY <2>4, <3>2, <3>3, <3>4, <3>5 DEF Slot
  <2>. QED
    BY <2>3, <2>4
<1>. QED
  BY <1>1, StackInvariant, FrameInvariant, PTL

-----------------------------------------------------------------------------
(* The refinement of CallStack.                                            *)

Words == Vals \union Points

FrameSet == [fn : Fns, at : 0..MaxAt,
             loc : UNION {[0..k - 1 -> Words] : k \in Nat}]

(* Activation n, as a function of the variables.                           *)
At(mem, calls, here, n) == IF n = Len(calls) THEN here ELSE BackTo(mem, calls, n)

Local(mem, calls, n, i) == mem[RSCap - Before(calls, n) + 1 + i]

FrameOf(mem, calls, here, n) ==
  [fn  |-> At(mem, calls, here, n).fn,
   at  |-> At(mem, calls, here, n).at,
   loc |-> [i \in 0..Locals[At(mem, calls, here, n).fn] - 1 |->
              Local(mem, calls, n, i)]]

LEMMA FrameTyped ==
  ASSUME KeepsRules, StackInv, FrameInv, ep # Null, NEW n \in 0..Len(info)
  PROVE  /\ At(dat, info, ep, n) \in Points
         /\ Locals[At(dat, info, ep, n).fn] \in Nat
         /\ \A i \in 0..Locals[At(dat, info, ep, n).fn] - 1 :
              /\ RSCap - Before(info, n) + 1 + i \in Memory
              /\ Local(dat, info, n, i) \in Words
         /\ FrameOf(dat, info, ep, n) \in FrameSet
<1>. DEFINE e == At(dat, info, ep, n)
<1>1. e \in Points
  <2>1. n = Len(info) \/ n \in 0..Len(info) - 1
    BY StackFacts
  <2>. QED
    BY <2>1 DEF At, FrameInv
<1>2. e.fn \in Fns /\ e.at \in 0..MaxAt
  BY <1>1 DEF Points
<1>. HIDE DEF e
<1>3. Locals[e.fn] \in Nat /\ Locals[e.fn] < Width /\ Width \in Nat
  BY <1>2, LocalsAssumption, CapsAssumption DEF KeepsRules
<1>4. RSCap - Before(info, n) \in 0..RSCap /\ RSCap \in Nat
  <2>1. n = Len(info) \/ n \in 0..Len(info) - 1
    BY StackFacts
  <2>2. CASE n = Len(info)
    BY <2>2, StackFacts
  <2>3. CASE n \in 0..Len(info) - 1
    BY <2>3, BackAbove, SlotsOfCall, StackFacts
  <2>. QED
    BY <2>1, <2>2, <2>3
<1>5. ASSUME NEW i \in 0..Locals[e.fn] - 1
      PROVE  /\ RSCap - Before(info, n) + 1 + i \in Memory
             /\ Local(dat, info, n, i) \in Words
  <2>1. RSCap - Before(info, n) + 1 + i \in Memory
    BY <1>3, <1>4, SMTT(30) DEF Memory
  <2>. QED
    BY <2>1 DEF Local, Words, FrameInv
<1>6. [i \in 0..Locals[e.fn] - 1 |-> Local(dat, info, n, i)]
        \in UNION {[0..k - 1 -> Words] : k \in Nat}
  BY <1>3, <1>5, SMTT(30)
<1>7. FrameOf(dat, info, ep, n) \in FrameSet
  BY <1>2, <1>6 DEF FrameOf, FrameSet, e
<1>. QED
  BY <1>1, <1>3, <1>5, <1>7 DEF e

LEMMA FramesAre ==
  ASSUME KeepsRules, StackInv, FrameInv, Running
  PROVE  /\ Frames \in Seq(FrameSet) /\ Len(Frames) = Len(info) + 1
         /\ \A n \in 0..Len(info) : Frames[n + 1] = FrameOf(dat, info, ep, n)
<1>1. ep # Null /\ Len(info) \in Nat
  BY StackFacts DEF Running
<1>2. ASSUME NEW n \in 0..Len(info)
      PROVE  Activation(n) = FrameOf(dat, info, ep, n)
  <2>1. At(dat, info, ep, n) \in Eps
    <3>1. At(dat, info, ep, n) \in Points
      BY <1>1, FrameTyped
    <3>. QED
      BY <3>1, BoundsAssumption DEF Points, Eps
  <2>2. Taken(n) = Before(info, n)
    BY DEF Taken, Before
  <2>. QED
    BY <2>1, <2>2 DEF Activation, FrameOf, At, Local, BackTo
<1>3. Frames = [n \in 1..Len(info) + 1 |-> Activation(n - 1)]
  BY DEF Frames
<1>4. ASSUME NEW n \in 0..Len(info)
      PROVE  Frames[n + 1] = FrameOf(dat, info, ep, n)
  <2>1. n + 1 \in 1..Len(info) + 1 /\ (n + 1) - 1 = n
    BY <1>1
  <2>. QED
    BY <1>2, <1>3, <2>1
<1>5. Frames \in [1..Len(info) + 1 -> FrameSet]
  <2>1. ASSUME NEW n \in 1..Len(info) + 1 PROVE Activation(n - 1) \in FrameSet
    <3>1. n - 1 \in 0..Len(info)
      BY <1>1
    <3>. QED
      BY <1>1, <1>2, <3>1, FrameTyped
  <2>. QED
    BY <1>3, <2>1
<1>. QED
  BY <1>1, <1>4, <1>5

(* The mapped state, in terms that a step can be followed in.              *)
FramesInv ==
  Running => /\ Frames \in Seq(FrameSet) /\ Len(Frames) = Len(info) + 1
             /\ \A n \in 0..Len(info) :
                  /\ Frames[n + 1] = FrameOf(dat, info, ep, n)
                  /\ At(dat, info, ep, n) \in Points
                  /\ Locals[At(dat, info, ep, n).fn] \in Nat
                  /\ \A i \in 0..Locals[At(dat, info, ep, n).fn] - 1 :
                       /\ RSCap - Before(info, n) + 1 + i \in Memory
                       /\ Local(dat, info, n, i) \in Words

LEMMA FramesInvariant == ASSUME KeepsRules PROVE StackInv /\ FrameInv => FramesInv
<1>. SUFFICES ASSUME StackInv, FrameInv, Running PROVE FramesInv
  BY DEF FramesInv
<1>1. ep # Null
  BY DEF Running
<1>. QED
  BY <1>1, FramesAre, FrameTyped DEF FramesInv

(* A new activation on a stack is Enter of CallStack.                      *)
LEMMA EnterStack ==
  ASSUME NEW stack \in Seq(FrameSet), NEW f \in Fns, Frames' \in Seq(FrameSet),
         Len(Frames') = Len(stack) + 1,
         \A n \in 1..Len(stack) : Frames'[n] = stack[n],
         NEW loc \in [0..Locals[f] - 1 -> Words],
         Frames'[Len(stack) + 1] = [fn |-> f, at |-> 0, loc |-> loc]
  PROVE  Abstract!Enter(stack, f)
<1>. DEFINE new == [fn |-> f, at |-> 0, loc |-> loc]
            F   == Frames'
<1>1. Len(stack) \in Nat /\ Len(stack) + 1 \in 1..Len(F) /\ F[Len(stack) + 1] = new
  OBVIOUS
<1>2. new \in FrameSet
  BY <1>1, ElementOfSeq
<1>3. F = Append(stack, new)
  <2>. DEFINE S == Append(stack, new)
  <2>1. /\ S \in Seq(FrameSet) /\ Len(S) = Len(stack) + 1
        /\ \A n \in 1..Len(stack) : S[n] = stack[n]
        /\ S[Len(stack) + 1] = new
    BY <1>2, AppendProperties
  <2>2. F \in Seq(FrameSet) /\ Len(F) = Len(stack) + 1
        /\ \A n \in 1..Len(stack) : F[n] = stack[n]
    OBVIOUS
  <2>. HIDE DEF S, F, new
  <2>3. \A n \in 1..Len(F) : F[n] = S[n]
    <3>1. \A n \in 1..Len(F) : n \in 1..Len(stack) \/ n = Len(stack) + 1
      BY <1>1, <2>2
    <3>. QED
      BY <1>1, <2>1, <2>2, <3>1
  <2>. QED
    BY <2>1, <2>2, <2>3, SeqEqual
<1>4. new.loc = loc
  OBVIOUS
<1>. QED
  BY <1>1, <1>3, <1>4 DEF Abstract!Enter, Words, Points

LEMMA ExecuteRefines ==
  ASSUME KeepsRules, StackInv, FrameInv, FramesInv',
         NEW f \in Fns, executeFn(f)
  PROVE  Abstract!Next
<1>1. /\ loops = 0 /\ loops' = 1 /\ Locals[f] = 0 /\ ep' = [fn |-> f, at |-> 0]
      /\ info' = info
  BY DEF executeFn, KeepsRules, RuleNames
<1>2. ep' # Null /\ Running' /\ ~Running
  BY <1>1, FnsAssumption DEF Running, Null
<1>3. Frames = << >>
  BY <1>2 DEF Frames
<1>4. info' = << >> /\ Len(info') = 0
  BY <1>1 DEF FrameInv
<1>5. /\ Frames' \in Seq(FrameSet) /\ Len(Frames') = 1
      /\ Frames'[1] = FrameOf(dat', info', ep', 0)
  BY <1>2, <1>4 DEF FramesInv
<1>. DEFINE loc == [i \in 0..Locals[f] - 1 |-> Local(dat', info', 0, i)]
            e   == At(dat', info', ep', 0)
<1>6. e = [fn |-> f, at |-> 0]
  BY <1>1, <1>4 DEF At
<1>7. Frames'[1] = [fn |-> f, at |-> 0, loc |-> loc]
  <2>1. e.fn = f /\ e.at = 0
    BY <1>6
  <2>2. Frames'[1] = [fn |-> e.fn, at |-> e.at,
                      loc |-> [i \in 0..Locals[e.fn] - 1 |-> Local(dat', info', 0, i)]]
    BY <1>5 DEF FrameOf
  <2>. HIDE DEF e
  <2>. QED
    BY <2>1, <2>2
<1>8. loc \in [0..Locals[f] - 1 -> Words]
  BY <1>1
<1>9. Abstract!Enter(<< >>, f)
  <2>. DEFINE stack == << >>
  <2>1. stack \in Seq(FrameSet) /\ Len(stack) = 0
    BY EmptySeq
  <2>. HIDE DEF stack, loc
  <2>2. /\ Len(Frames') = Len(stack) + 1
        /\ Frames'[Len(stack) + 1] = [fn |-> f, at |-> 0, loc |-> loc]
        /\ \A n \in 1..Len(stack) : Frames'[n] = stack[n]
    BY <1>5, <1>7, <2>1
  <2>3. Abstract!Enter(stack, f)
    BY <1>5, <1>8, <2>1, <2>2, EnterStack
  <2>. QED
    BY <2>3 DEF stack
<1>. QED
  BY <1>3, <1>9 DEF Abstract!Next, Abstract!Execute

(* Where nothing runs any more, every activation has ended.                *)
LEMMA StopRefines ==
  ASSUME StackInv, FramesInv, Running, ep' = Null
  PROVE  Abstract!Next
<1>1. Frames' = << >>
  BY DEF Frames, Running
<1>2. Len(Frames) = Len(info) + 1 /\ Len(info) \in Nat
  BY StackFacts DEF FramesInv
<1>3. Frames # << >>
  BY <1>2
<1>. QED
  BY <1>1, <1>3 DEF Abstract!Next, Abstract!Unwind

(* The stack with the running activation one instruction further.          *)
LEMMA CallerIs ==
  ASSUME StackInv, FramesInv, Running, ep.at < MaxAt
  PROVE  /\ Frames # << >> /\ Abstract!Last = FrameOf(dat, info, ep, Len(info))
         /\ Abstract!Last.at = ep.at /\ Abstract!Last.fn = ep.fn
         /\ Abstract!Caller \in Seq(FrameSet)
         /\ Len(Abstract!Caller) = Len(info) + 1
         /\ \A n \in 1..Len(info) : Abstract!Caller[n] = Frames[n]
         /\ Abstract!Caller[Len(info) + 1]
              = [FrameOf(dat, info, ep, Len(info)) EXCEPT !.at = ep.at + 1]
<1>. DEFINE k    == Len(info)
            last == FrameOf(dat, info, ep, k)
            up   == [last EXCEPT !.at = ep.at + 1]
<1>1. /\ Frames \in Seq(FrameSet) /\ Len(Frames) = k + 1 /\ k \in Nat
      /\ Frames[k + 1] = last /\ At(dat, info, ep, k) \in Points
  BY StackFacts DEF FramesInv
<1>2. At(dat, info, ep, k) = ep
  BY DEF At
<1>3. last.at = ep.at /\ last.fn = ep.fn
  BY <1>2 DEF FrameOf
<1>4. ep.at \in Nat /\ MaxAt \in Nat
  BY <1>1, <1>2, BoundsAssumption DEF Points
<1>. HIDE DEF k, last
<1>5. last \in FrameSet
  BY <1>1, ElementOfSeq
<1>6. up \in FrameSet
  BY <1>4, <1>5 DEF FrameSet
<1>7. Frames # << >>
  BY <1>1
<1>8. Abstract!Last = last
  BY <1>1 DEF Abstract!Last
<1>9. Abstract!Caller = [Frames EXCEPT ![k + 1] = up]
  BY <1>1, <1>3 DEF Abstract!Caller
<1>10. k + 1 \in 1..Len(Frames)
  BY <1>1
<1>11. /\ Abstract!Caller \in Seq(FrameSet) /\ Len(Abstract!Caller) = k + 1
       /\ \A n \in 1..k + 1 :
            Abstract!Caller[n] = IF n = k + 1 THEN up ELSE Frames[n]
  <2>. HIDE DEF up
  <2>. QED
    BY <1>1, <1>6, <1>9, <1>10, ExceptSeq
<1>12. /\ \A n \in 1..k : Abstract!Caller[n] = Frames[n]
       /\ Abstract!Caller[k + 1] = up
  BY <1>1, <1>11
<1>. QED
  BY <1>3, <1>7, <1>8, <1>11, <1>12 DEF k, last

(* Two activations at the same place with the same locals are the same.    *)
LEMMA SameFrame ==
  ASSUME NEW mem, NEW calls, NEW here, NEW mem2, NEW calls2, NEW here2, NEW n,
         At(mem2, calls2, here2, n) = At(mem, calls, here, n),
         \A i \in 0..Locals[At(mem, calls, here, n).fn] - 1 :
           Local(mem2, calls2, n, i) = Local(mem, calls, n, i)
  PROVE  FrameOf(mem2, calls2, here2, n) = FrameOf(mem, calls, here, n)
BY DEF FrameOf

LEMMA CallRefines ==
  ASSUME KeepsRules, StackInv, FrameInv, FramesInv, FramesInv',
         NEW f \in Fns, xImpl(f), xFits(f)
  PROVE  Abstract!Next
<1>. DEFINE k == Len(info)
<1>1. /\ Running /\ ep.at < MaxAt /\ dat' = [dat EXCEPT ![sp] = Next1]
      /\ ep' = [fn |-> f, at |-> 0] /\ loops' = loops /\ ep # Null
  BY DEF xImpl, Room, Running
<1>2. Running'
  BY <1>1, FnsAssumption DEF Running, Null
<1>3. /\ k \in Nat /\ sp \in 1..RSCap /\ RSCap \in Nat
      /\ Len(info') = k + 1
      /\ \A n \in 0..k : Before(info', n) = Before(info, n)
      /\ RSCap - Before(info, k) = sp
  BY CallStep, StackFacts
<1>4. dat \in [Memory -> Words] /\ sp \in Memory
  BY <1>3, CapsAssumption DEF FrameInv, Words, Memory
<1>5. /\ Frames \in Seq(FrameSet) /\ Frames' \in Seq(FrameSet)
      /\ Len(Frames) = k + 1 /\ Len(Frames') = k + 2
      /\ \A n \in 0..k : Frames[n + 1] = FrameOf(dat, info, ep, n)
      /\ \A n \in 0..k + 1 : Frames'[n + 1] = FrameOf(dat', info', ep', n)
  <2>1. /\ Frames \in Seq(FrameSet) /\ Len(Frames) = k + 1
        /\ \A n \in 0..k : Frames[n + 1] = FrameOf(dat, info, ep, n)
    BY <1>1 DEF FramesInv
  <2>2. /\ Frames' \in Seq(FrameSet) /\ Len(Frames') = Len(info') + 1
        /\ \A n \in 0..Len(info') : Frames'[n + 1] = FrameOf(dat', info', ep', n)
    BY <1>2 DEF FramesInv
  <2>. QED
    BY <1>3, <2>1, <2>2
<1>6. ASSUME NEW n \in 0..k,
             NEW i \in 0..Locals[At(dat, info, ep, n).fn] - 1
      PROVE  Local(dat', info', n, i) = Local(dat, info, n, i)
  <2>1. RSCap - Before(info, n) + 1 + i \in Memory
    BY <1>1 DEF FramesInv
  <2>2. RSCap - Before(info, n) >= sp
    <3>1. n = k \/ n \in 0..Len(info) - 1
      BY <1>3
    <3>. QED
      BY <1>3, <3>1, BackAbove, SlotsOfCall, SMTT(30)
  <2>3. RSCap - Before(info, n) + 1 + i # sp /\ Before(info', n) = Before(info, n)
    <3>1. Locals[At(dat, info, ep, n).fn] \in Nat
      BY <1>1 DEF FramesInv
    <3>2. i \in Nat
      BY <3>1
    <3>3. Before(info, n) \in Nat
      BY StackFacts, SlotsSteps
    <3>. QED
      BY <1>3, <2>2, <3>2, <3>3
  <2>. QED
    BY <1>1, <1>4, <2>1, <2>3 DEF Local
<1>7. ASSUME NEW n \in 1..k
      PROVE  Frames'[n] = Frames[n]
  <2>1. n - 1 \in 0..k /\ n - 1 \in 0..k - 1 /\ n - 1 # k /\ n - 1 # k + 1
        /\ (n - 1) + 1 = n /\ n - 1 \in 0..k + 1
    BY <1>3
  <2>2. RSCap - Before(info, n - 1) \in Memory /\ RSCap - Before(info, n - 1) # sp
    BY <1>3, <2>1, BackAbove, SlotsOfCall, CapsAssumption DEF Memory
  <2>3. BackTo(dat', info', n - 1) = BackTo(dat, info, n - 1)
    BY <1>1, <1>3, <1>4, <2>1, <2>2 DEF BackTo
  <2>4. At(dat', info', ep', n - 1) = At(dat, info, ep, n - 1)
    BY <1>3, <2>1, <2>3 DEF At
  <2>5. FrameOf(dat', info', ep', n - 1) = FrameOf(dat, info, ep, n - 1)
    BY <1>6, <2>1, <2>4, SameFrame
  <2>. QED
    BY <1>5, <2>1, <2>5
<1>8. Frames'[k + 1] = [FrameOf(dat, info, ep, k) EXCEPT !.at = ep.at + 1]
  <2>1. BackTo(dat', info', k) = Next1
    BY <1>1, <1>3, <1>4 DEF BackTo
  <2>2. At(dat', info', ep', k) = Next1 /\ At(dat, info, ep, k) = ep
    BY <1>3, <2>1 DEF At
  <2>3. Next1.fn = ep.fn /\ Next1.at = ep.at + 1
    <3>1. ep \in Points
      BY <1>1 DEF FrameInv
    <3>. QED
      BY <3>1 DEF Next1, Points
  <2>4. \A i \in 0..Locals[ep.fn] - 1 : Local(dat', info', k, i) = Local(dat, info, k, i)
    BY <1>3, <1>6, <2>2
  <2>. DEFINE l == [i \in 0..Locals[ep.fn] - 1 |-> Local(dat, info, k, i)]
  <2>5. FrameOf(dat', info', ep', k) = [fn |-> ep.fn, at |-> ep.at + 1, loc |-> l]
    BY <2>2, <2>3, <2>4 DEF FrameOf
  <2>6. FrameOf(dat, info, ep, k) = [fn |-> ep.fn, at |-> ep.at, loc |-> l]
    BY <2>2 DEF FrameOf
  <2>7. Frames'[k + 1] = FrameOf(dat', info', ep', k)
    BY <1>3, <1>5
  <2>. HIDE DEF l, k
  <2>. QED
    BY <2>5, <2>6, <2>7
<1>. DEFINE loc == [i \in 0..Locals[f] - 1 |-> Local(dat', info', k + 1, i)]
<1>9. /\ Frames'[k + 2] = [fn |-> f, at |-> 0, loc |-> loc]
      /\ loc \in [0..Locals[f] - 1 -> Words]
  <2>. DEFINE e == At(dat', info', ep', k + 1)
  <2>1. k + 1 \in 0..Len(info') /\ (k + 1) + 1 = k + 2
    BY <1>3
  <2>2. e.fn = f /\ e.at = 0
    BY <1>1, <1>3 DEF At
  <2>3. Frames'[k + 2] = [fn |-> e.fn, at |-> e.at, loc |->
                          [i \in 0..Locals[e.fn] - 1 |-> Local(dat', info', k + 1, i)]]
    BY <1>3, <1>5, <2>1 DEF FrameOf
  <2>4. \A i \in 0..Locals[e.fn] - 1 : Local(dat', info', k + 1, i) \in Words
    BY <1>2, <2>1 DEF FramesInv
  <2>. HIDE DEF e
  <2>. QED
    BY <2>2, <2>3, <2>4
<1>10. /\ Frames # << >> /\ Abstract!Last.at < MaxAt
       /\ Abstract!Caller \in Seq(FrameSet) /\ Len(Abstract!Caller) = k + 1
       /\ \A n \in 1..k + 1 : Frames'[n] = Abstract!Caller[n]
  <2>1. /\ Frames # << >> /\ Abstract!Last.at = ep.at
        /\ Abstract!Caller \in Seq(FrameSet) /\ Len(Abstract!Caller) = k + 1
        /\ \A n \in 1..k : Abstract!Caller[n] = Frames[n]
        /\ Abstract!Caller[k + 1] = [FrameOf(dat, info, ep, k) EXCEPT !.at = ep.at + 1]
    BY <1>1, CallerIs
  <2>2. \A n \in 1..k + 1 : n \in 1..k \/ n = k + 1
    BY <1>3
  <2>. QED
    BY <1>1, <1>7, <1>8, <2>1, <2>2
<1>11. Abstract!Enter(Abstract!Caller, f)
  <2>. DEFINE stack == Abstract!Caller
  <2>1. /\ stack \in Seq(FrameSet) /\ Len(Frames') = Len(stack) + 1
        /\ Len(stack) + 1 = k + 2
        /\ \A n \in 1..Len(stack) : Frames'[n] = stack[n]
    BY <1>3, <1>5, <1>10
  <2>. HIDE DEF stack, loc, k
  <2>2. Abstract!Enter(stack, f)
    BY <1>5, <1>9, <2>1, EnterStack
  <2>. QED
    BY <2>2 DEF stack
<1>. QED
  BY <1>10, <1>11 DEF Abstract!Next, Abstract!Call

LEMMA SetLocalRefines ==
  ASSUME KeepsRules, StackInv, FrameInv, FramesInv, FramesInv', SetLocal
  PROVE  Abstract!Next
<1>. DEFINE k == Len(info)
<1>1. PICK i \in 0..Locals[ep.fn] - 1, v \in Vals :
        Slot(i) \in Memory /\ dat' = [dat EXCEPT ![Slot(i)] = v]
  BY DEF SetLocal
<1>2. /\ Running /\ ep.at < MaxAt /\ ep' = Next1 /\ ep # Null
      /\ sp' = sp /\ info' = info /\ loops' = loops
  BY DEF SetLocal, Room, Running
<1>3. /\ k \in Nat /\ sp \in Nat /\ RSCap \in Nat /\ RSCap - Before(info, k) = sp
      /\ ep \in Points /\ ep.fn \in Fns /\ Locals[ep.fn] \in Nat
  BY <1>2, StackFacts, LocalsAssumption DEF FrameInv, Points
<1>4. Next1.fn = ep.fn /\ Next1.at = ep.at + 1 /\ ep' # Null
  BY <1>2, <1>3, FnsAssumption DEF Next1, Points, Null
<1>5. Running'
  BY <1>2, <1>4 DEF Running
<1>6. dat \in [Memory -> Words]
  BY DEF FrameInv, Words
<1>7. /\ Frames \in Seq(FrameSet) /\ Frames' \in Seq(FrameSet)
      /\ Len(Frames) = k + 1 /\ Len(Frames') = k + 1
      /\ \A n \in 0..k : Frames[n + 1] = FrameOf(dat, info, ep, n)
      /\ \A n \in 0..k : Frames'[n + 1] = FrameOf(dat', info, ep', n)
  <2>1. /\ Frames \in Seq(FrameSet) /\ Len(Frames) = k + 1
        /\ \A n \in 0..k : Frames[n + 1] = FrameOf(dat, info, ep, n)
    BY <1>2 DEF FramesInv
  <2>2. /\ Frames' \in Seq(FrameSet) /\ Len(Frames') = Len(info') + 1
        /\ \A n \in 0..Len(info') : Frames'[n + 1] = FrameOf(dat', info', ep', n)
    BY <1>5 DEF FramesInv
  <2>. QED
    BY <1>2, <2>1, <2>2
<1>8. k # 0 /\ Slot(i) <= sp + lSlots(info[k])
  BY <1>1, <1>2, <1>3, FrameHoldsLocals, StackFacts, EmptySeq DEF Slot
<1>9. ASSUME NEW n \in 1..k
      PROVE  Frames'[n] = Frames[n]
  <2>1. /\ n - 1 \in 0..k /\ n - 1 \in 0..Len(info) - 1 /\ n - 1 # k
        /\ (n - 1) + 1 = n
    BY <1>3
  <2>2. RSCap - Before(info, n - 1) > Slot(i)
    BY <1>1, <1>3, <1>8, <2>1, BackAbove, SlotsOfCall DEF Slot
  <2>3. BackTo(dat', info, n - 1) = BackTo(dat, info, n - 1)
    <3>1. RSCap - Before(info, n - 1) # Slot(i)
      BY <1>1, <1>3, <2>1, <2>2, BackAbove, SlotsOfCall DEF Slot
    <3>2. RSCap - Before(info, n - 1) \in Memory
      <4>1. RSCap - Before(info, n - 1) \in sp + lSlots(info[Len(info)]) + 1..RSCap
            /\ lSlots(info[Len(info)]) \in Nat
        BY <2>1, BackAbove, SlotsOfCall
      <4>. QED
        BY <1>3, <4>1, CapsAssumption DEF Memory
    <3>. QED
      BY <1>1, <1>6, <3>1, <3>2 DEF BackTo
  <2>4. At(dat', info, ep', n - 1) = At(dat, info, ep, n - 1)
    BY <2>1, <2>3 DEF At
  <2>5. ASSUME NEW j \in 0..Locals[At(dat, info, ep, n - 1).fn] - 1
        PROVE  Local(dat', info, n - 1, j) = Local(dat, info, n - 1, j)
    <3>1. Locals[At(dat, info, ep, n - 1).fn] \in Nat
          /\ RSCap - Before(info, n - 1) + 1 + j \in Memory
      BY <1>2, <2>1 DEF FramesInv
    <3>2. j \in Nat /\ Before(info, n - 1) \in Nat /\ i \in Nat
      BY <1>1, <1>3, <2>1, <3>1, StackFacts, SlotsSteps
    <3>3. RSCap - Before(info, n - 1) + 1 + j # Slot(i)
      BY <1>3, <2>2, <3>2 DEF Slot
    <3>. QED
      BY <1>1, <1>6, <3>1, <3>3 DEF Local
  <2>6. FrameOf(dat', info, ep', n - 1) = FrameOf(dat, info, ep, n - 1)
    BY <2>4, <2>5, SameFrame
  <2>. QED
    BY <1>7, <2>1, <2>6
<1>. DEFINE l    == [j \in 0..Locals[ep.fn] - 1 |-> Local(dat, info, k, j)]
            last == [fn |-> ep.fn, at |-> ep.at + 1, loc |-> [l EXCEPT ![i] = v]]
<1>10. Frames'[k + 1] = last
  <2>1. At(dat', info, ep', k) = Next1
    BY <1>2 DEF At
  <2>2. ASSUME NEW j \in 0..Locals[ep.fn] - 1
        PROVE  Local(dat', info, k, j) = IF j = i THEN v ELSE Local(dat, info, k, j)
    <3>1. j \in Nat /\ i \in Nat
      BY <1>1, <1>3
    <3>2. sp + 1 + j \in Memory
      <4>1. At(dat, info, ep, k) = ep /\ k \in 0..Len(info)
        BY <1>3 DEF At
      <4>. QED
        BY <1>2, <1>3, <4>1 DEF FramesInv
    <3>. QED
      BY <1>1, <1>3, <1>6, <3>1, <3>2 DEF Local, Slot
  <2>3. FrameOf(dat', info, ep', k)
          = [fn |-> ep.fn, at |-> ep.at + 1,
             loc |-> [j \in 0..Locals[ep.fn] - 1 |-> Local(dat', info, k, j)]]
    BY <1>4, <2>1 DEF FrameOf
  <2>4. [j \in 0..Locals[ep.fn] - 1 |-> Local(dat', info, k, j)] = [l EXCEPT ![i] = v]
    BY <2>2
  <2>5. Frames'[k + 1] = FrameOf(dat', info, ep', k)
    BY <1>3, <1>7
  <2>. QED
    BY <2>3, <2>4, <2>5
<1>11. /\ Frames # << >> /\ Abstract!Last.at < MaxAt /\ Abstract!Last.fn = ep.fn
       /\ Abstract!Caller \in Seq(FrameSet) /\ Len(Abstract!Caller) = k + 1
       /\ \A n \in 1..k : Abstract!Caller[n] = Frames[n]
       /\ Abstract!Caller[k + 1] = [fn |-> ep.fn, at |-> ep.at + 1, loc |-> l]
  <2>1. FrameOf(dat, info, ep, k) = [fn |-> ep.fn, at |-> ep.at, loc |-> l]
    <3>1. At(dat, info, ep, k) = ep
      BY DEF At
    <3>. QED
      BY <3>1 DEF FrameOf
  <2>2. Abstract!Caller[k + 1] = [FrameOf(dat, info, ep, k) EXCEPT !.at = ep.at + 1]
    BY <1>2, CallerIs
  <2>3. Abstract!Caller[k + 1] = [fn |-> ep.fn, at |-> ep.at + 1, loc |-> l]
    <3>. HIDE DEF l, k
    <3>. QED
      BY <2>1, <2>2
  <2>. QED
    BY <1>2, <2>3, CallerIs
<1>12. Frames' = [Abstract!Caller EXCEPT ![Len(Frames)].loc[i] = v]
  <2>. DEFINE C == Abstract!Caller
              N == [C EXCEPT ![k + 1] = last]
  <2>1. C \in Seq(FrameSet) /\ Len(C) = k + 1 /\ \A n \in 1..k : C[n] = Frames[n]
    BY <1>11
  <2>2. last \in FrameSet /\ k + 1 \in 1..Len(C)
    BY <1>3, <1>7, <1>10, <2>1, ElementOfSeq
  <2>3. [C EXCEPT ![Len(Frames)].loc[i] = v] = N
    <3>1. Len(Frames) = k + 1 /\ C[k + 1] = [fn |-> ep.fn, at |-> ep.at + 1, loc |-> l]
      BY <1>7, <1>11
    <3>. HIDE DEF C, l, k
    <3>2. [C[k + 1] EXCEPT !.loc[i] = v] = last
      BY <3>1
    <3>3. [C EXCEPT ![Len(Frames)].loc[i] = v]
            = [C EXCEPT ![k + 1] = [C[k + 1] EXCEPT !.loc[i] = v]]
      BY <3>1
    <3>. QED
      BY <3>2, <3>3
  <2>. HIDE DEF last, C
  <2>4. /\ N \in Seq(FrameSet) /\ Len(N) = k + 1
        /\ \A n \in 1..k + 1 : N[n] = IF n = k + 1 THEN last ELSE C[n]
    BY <2>1, <2>2, ExceptSeq
  <2>. HIDE DEF N
  <2>5. \A n \in 1..k + 1 : Frames'[n] = N[n]
    <3>1. \A n \in 1..k + 1 : n \in 1..k \/ n = k + 1
      BY <1>3
    <3>. QED
      BY <1>3, <1>9, <1>10, <2>1, <2>4, <3>1
  <2>6. Frames' = N
    BY <1>7, <2>4, <2>5, SeqEqual
  <2>. QED
    BY <2>3, <2>6 DEF C
<1>13. v \in Words
  BY DEF Words
<1>. QED
  BY <1>1, <1>11, <1>12, <1>13 DEF Abstract!Next, Abstract!SetLocal, Words, Points

LEMMA ReturnRefines ==
  ASSUME KeepsRules, StackInv, FrameInv, FramesInv, FrameInv', FramesInv',
         Running, info # << >>, ret
  PROVE  Abstract!Next
<1>. DEFINE k == Len(info)
<1>1. /\ k \in Nat \ {0} /\ Len(info') = k - 1 /\ RSCap \in Nat
      /\ \A n \in 0..k - 1 : Before(info', n) = Before(info, n)
      /\ RSCap - Before(info, k - 1) = sp + lSlots(info[k]) + 1
  <2>1. /\ k \in Nat \ {0} /\ Len(info') = k - 1 /\ RSCap \in Nat
        /\ \A n \in 0..k - 1 : Before(info', n) = Before(info, n)
    BY ReturnStep, StackFacts
  <2>2. k - 1 \in 0..Len(info) - 1
    BY <2>1
  <2>. QED
    BY <2>1, <2>2, BackAbove
<1>2. dat' = dat /\ loops' = loops /\ ep' = BackTo(dat, info, k - 1)
  BY <1>1 DEF ret, BackTo
<1>3. Running'
  <2>1. k - 1 \in 0..Len(info) - 1
    BY <1>1
  <2>2. ep' # Null
    BY <1>2, <2>1, PointsAreNotNull DEF FrameInv
  <2>. QED
    BY <1>2, <2>2 DEF Running
<1>4. /\ Frames \in Seq(FrameSet) /\ Frames' \in Seq(FrameSet)
      /\ Len(Frames) = k + 1 /\ Len(Frames') = k
      /\ \A n \in 0..k - 1 : Frames[n + 1] = FrameOf(dat, info, ep, n)
      /\ \A n \in 0..k - 1 : Frames'[n + 1] = FrameOf(dat, info', ep', n)
  <2>1. /\ Frames \in Seq(FrameSet) /\ Len(Frames) = k + 1
        /\ \A n \in 0..k : Frames[n + 1] = FrameOf(dat, info, ep, n)
    BY DEF FramesInv
  <2>2. /\ Frames' \in Seq(FrameSet) /\ Len(Frames') = Len(info') + 1
        /\ \A n \in 0..Len(info') : Frames'[n + 1] = FrameOf(dat', info', ep', n)
    BY <1>3 DEF FramesInv
  <2>3. (k - 1) + 1 = k /\ \A n \in 0..k - 1 : n \in 0..k
    BY <1>1
  <2>. QED
    BY <1>1, <1>2, <2>1, <2>2, <2>3
<1>5. ASSUME NEW n \in 1..k
      PROVE  Frames'[n] = Frames[n]
  <2>1. n - 1 \in 0..k - 1 /\ (n - 1) + 1 = n /\ n - 1 # k
    BY <1>1
  <2>2. BackTo(dat, info', n - 1) = BackTo(dat, info, n - 1)
    BY <1>1, <2>1 DEF BackTo
  <2>3. At(dat, info', ep', n - 1) = At(dat, info, ep, n - 1)
    BY <1>1, <1>2, <2>1, <2>2 DEF At
  <2>4. \A j : Local(dat, info', n - 1, j) = Local(dat, info, n - 1, j)
    BY <1>1, <2>1 DEF Local
  <2>5. FrameOf(dat, info', ep', n - 1) = FrameOf(dat, info, ep, n - 1)
    BY <2>3, <2>4, SameFrame
  <2>. QED
    BY <1>4, <2>1, <2>5
<1>6. Frames' = SubSeq(Frames, 1, Len(Frames) - 1)
  <2>. DEFINE F == Frames
              P == SubSeq(F, 1, k)
  <2>1. F \in Seq(FrameSet) /\ Len(F) = k + 1 /\ k \in Nat
        /\ \A n \in 1..k : F[n] \in FrameSet
    BY <1>1, <1>4, ElementOfSeq
  <2>2. Len(Frames) - 1 = k
    BY <1>1, <1>4
  <2>. HIDE DEF F, k
  <2>3. P \in Seq(FrameSet) /\ Len(P) = k /\ \A n \in 1..k : P[n] = F[n]
    BY <2>1, SubSeqProperties
  <2>. HIDE DEF P
  <2>4. \A n \in 1..k : Frames'[n] = P[n]
    BY <1>5, <2>3 DEF F
  <2>5. Frames' = P
    BY <1>4, <2>3, <2>4, SeqEqual
  <2>. QED
    BY <2>2, <2>5 DEF F, P
<1>7. Frames # << >>
  BY <1>1, <1>4
<1>. QED
  BY <1>6, <1>7 DEF Abstract!Next, Abstract!Return

(* A step of the machine is a step of CallStack.                           *)
LEMMA NextRefines ==
  ASSUME KeepsRules, StackInv, FrameInv, FramesInv, FrameInv', FramesInv',
         [Next]_vars
  PROVE  [Abstract!Next]_Frames
<1>1. ASSUME NEW f \in Fns, executeFn(f) PROVE Abstract!Next
  BY <1>1, ExecuteRefines
<1>2. ASSUME NEW f \in Fns, xImpl(f) PROVE Abstract!Next
  <2>1. CASE xFits(f)
    BY <1>2, <2>1, CallRefines
  <2>2. CASE ~xFits(f)
    <3>1. Running /\ ep' = Null
      BY <1>2, <2>2 DEF xImpl, Room, Panic
    <3>. QED
      BY <3>1, StopRefines
  <2>. QED
    BY <2>1, <2>2
<1>3. ASSUME SetLocal PROVE Abstract!Next
  BY <1>3, SetLocalRefines
<1>4. ASSUME Return PROVE Abstract!Next
  <2>1. CASE sp = RSCap
    BY <1>4, <2>1, StopRefines DEF Return
  <2>2. CASE sp # RSCap
    <3>1. Running /\ ret /\ info # << >>
      BY <1>4, <2>2, SomethingToReturn DEF Return
    <3>. QED
      BY <3>1, ReturnRefines
  <2>. QED
    BY <2>1, <2>2
<1>5. ASSUME Running, Panic PROVE Abstract!Next
  BY <1>5, StopRefines DEF Panic
<1>6. ASSUME UNCHANGED vars PROVE UNCHANGED Frames
  BY <1>6 DEF vars, Frames, Running, Activation, Taken
<1>. QED
  BY <1>1, <1>2, <1>3, <1>4, <1>5, <1>6 DEF Next

(***************************************************************************)
(* The flat return stack of xImpl, ret and SRLL gives every activation a   *)
(* place to go on from and locals of its own, as CallStack has them.       *)
(***************************************************************************)
THEOREM VmImplementsCallStack == ASSUME KeepsRules PROVE Spec => RefinesCallStack
<1>1. Init => Abstract!Init
  BY DEF Init, Abstract!Init, Frames, Running
<1>2. StackInv /\ FrameInv => FramesInv
  BY FramesInvariant
<1>3. /\ StackInv /\ FrameInv /\ FramesInv /\ FrameInv' /\ FramesInv'
      /\ [Next]_vars
      => [Abstract!Next]_Frames
  BY NextRefines
<1>. QED
  BY <1>1, <1>2, <1>3, StackInvariant, FrameInvariant, PTL
     DEF Spec, RefinesCallStack, Abstract!Spec
=============================================================================
