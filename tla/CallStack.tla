------------------------------ MODULE CallStack ------------------------------
(***************************************************************************)
(* What the virtual machine promises the code it runs: every activation of *)
(* a function has a place to go on from and locals of its own, which are   *)
(* as it left them when the functions it calls have returned.              *)
(***************************************************************************)
EXTENDS Integers, Sequences

CONSTANTS
  Fns,     \* the functions that are not native
  Locals,  \* the number of slots that the locals of each function need
  Words,   \* what a slot may hold
  MaxAt    \* bound: the instructions one activation executes

VARIABLE frames    \* the activations, the running one last

Last == frames[Len(frames)]

Caller == [frames EXCEPT ![Len(frames)].at = @ + 1]

(* A new activation of f on the stack; its locals are not initialised.     *)
Enter(stack, f) ==
  LET loc == frames'[Len(stack) + 1].loc
  IN  /\ Len(frames') = Len(stack) + 1
      /\ loc \in [0..Locals[f] - 1 -> Words]
      /\ frames' = Append(stack, [fn |-> f, at |-> 0, loc |-> loc])

Init == frames = << >>

Execute == frames = << >> /\ \E f \in Fns : Enter(<< >>, f)

Call ==
  /\ frames # << >> /\ Last.at < MaxAt
  /\ \E f \in Fns : Enter(Caller, f)

SetLocal ==
  /\ frames # << >> /\ Last.at < MaxAt
  /\ \E i \in 0..Locals[Last.fn] - 1, v \in Words :
       frames' = [Caller EXCEPT ![Len(frames)].loc[i] = v]

Return == frames # << >> /\ frames' = SubSeq(frames, 1, Len(frames) - 1)

(* A panic that nobody catches ends every activation.                      *)
Unwind == frames # << >> /\ frames' = << >>

Next == Execute \/ Call \/ SetLocal \/ Return \/ Unwind

Spec == Init /\ [][Next]_frames
=============================================================================
