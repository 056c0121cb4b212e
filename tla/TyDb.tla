-------------------------------- MODULE TyDb --------------------------------
(***************************************************************************)
(* The compiler's type database (`TyDb' in fngi.h).  While a function is   *)
(* compiled the database holds a stack of snapshots, each the static type  *)
(* of the working stack at one point of the control flow, and in parallel  *)
(* a stack that says how that flow ended.  The nodes of every snapshot     *)
(* live in one bump arena (`db->bba'), which only takes back the node it   *)
(* handed out last.                                                        *)
(*                                                                         *)
(* Each operation of the code is an operator from a database to a          *)
(* database, so that Flow.tla can chain them the way its handlers do.  A   *)
(* failed ASSERT longjmps out of the handler: it is the field `err', and   *)
(* every operation leaves a database that has one as it is.                *)
(***************************************************************************)
EXTENDS Integers, Sequences

CONSTANTS
  Types,     \* what a TyI says of one value (base type and references)
  Accepts,   \* the pairs <<require, given>> that pass TyI_check
  Depth,     \* TYDB_DEPTH, the capacity of the two stacks
  ArenaCap   \* how many nodes the arena can hold

ASSUME AcceptsAssumption == Accepts \subseteq Types \X Types
ASSUME DepthAssumption   == Depth \in Nat \ {0}
ASSUME ArenaAssumption   == ArenaCap \in Nat

(***************************************************************************)
(* HowDone.  The order matters: a join of branches keeps the least.        *)
(***************************************************************************)
NOT_DONE == 0
BLK_DONE == 1
RET_DONE == 2
HowDone  == {NOT_DONE, BLK_DONE, RET_DONE}

Errors == {"type", "done", "redone", "index", "alone", "depth", "oom", "free",
           "incomplete"}

(* A node of a snapshot: a type and the place of the node in the arena.    *)
Node == [ty : Types, adr : Nat]

DB == [tyIs : Seq(Seq(Node)), done : Seq(HowDone), bump : Nat,
       unty : BOOLEAN, err : Errors \union {"ok"}]

(* The last element of a snapshot is the top of the working stack.         *)
TyDb_top(d)      == d.tyIs[Len(d.tyIs)]
TyDb_index(d, i) == d.tyIs[Len(d.tyIs) - i]
TyDb_done(d)     == d.done[Len(d.done)]
TypesOf(s)       == [i \in 1..Len(s) |-> s[i].ty]

Ok(d)      == d.err = "ok"
Fail(d, e) == [d EXCEPT !.err = e]

TyDb_init == [tyIs |-> << >>, done |-> << >>, bump |-> 0,
              unty |-> FALSE, err |-> "ok"]

-----------------------------------------------------------------------------
(* Operations on the stack of snapshots.                                   *)

TyDb_new(d) ==
  IF ~Ok(d) THEN d
  ELSE IF Len(d.tyIs) >= Depth THEN Fail(d, "depth")
  ELSE [d EXCEPT !.tyIs = Append(@, << >>), !.done = Append(@, NOT_DONE)]

TyDb_setDone(d, how) ==
  IF ~Ok(d) THEN d
  ELSE IF TyDb_done(d) # NOT_DONE THEN Fail(d, "redone")
  ELSE [d EXCEPT !.done[Len(d.done)] = how]

TyDb_clearDone(d) ==
  IF ~Ok(d) THEN d ELSE [d EXCEPT !.done[Len(d.done)] = NOT_DONE]

(***************************************************************************)
(* TyDb_free: n times TyDb_pop.  The k-th pop gives back the k-th node     *)
(* from the top, and the arena refuses it unless it is its last one.       *)
(***************************************************************************)
TyDb_free(d, n) ==
  LET s == TyDb_top(d)
      l == Len(s)
  IN  IF ~Ok(d) THEN d
      ELSE IF \E k \in 0..n-1 : s[l - k].adr # d.bump - k THEN Fail(d, "free")
      ELSE [d EXCEPT !.tyIs[Len(d.tyIs)] = SubSeq(s, 1, l - n), !.bump = @ - n]

(* Mutant: clones from the top down, as a loop over the list would.        *)
TyI_cloneAdd_topDown(d, tys) ==
  LET n     == Len(tys)
      nodes == [j \in 1..n |-> [ty |-> tys[j], adr |-> d.bump + n + 1 - j]]
  IN  IF ~Ok(d) THEN d
      ELSE IF n > ArenaCap - d.bump THEN Fail(d, "oom")
      ELSE [d EXCEPT !.tyIs[Len(d.tyIs)] = @ \o nodes, !.bump = @ + n]

(***************************************************************************)
(* TyI_cloneAdd onto the top snapshot, bottom first: the addresses grow    *)
(* with the stack.  A full arena panics with what was cloned so far.       *)
(***************************************************************************)
TyI_cloneAdd(d, tys) ==
  LET room  == ArenaCap - d.bump
      n     == IF Len(tys) <= room THEN Len(tys) ELSE room
      nodes == [j \in 1..n |-> [ty |-> tys[j], adr |-> d.bump + j]]
  IN  IF ~Ok(d) THEN d
      ELSE [d EXCEPT !.tyIs[Len(d.tyIs)] = @ \o nodes,
                     !.bump = @ + n,
                     !.err  = IF n < Len(tys) THEN "oom" ELSE @]

(* Mutant: forgets to pop the parallel stack.                              *)
TyDb_drop_tyIsOnly(d) ==
  LET f == TyDb_free(d, Len(TyDb_top(d)))
  IN  IF ~Ok(f) THEN f ELSE [f EXCEPT !.tyIs = SubSeq(@, 1, Len(@) - 1)]

TyDb_drop(d) ==
  LET f == TyDb_free(d, Len(TyDb_top(d)))
  IN  IF ~Ok(f) THEN f
      ELSE [f EXCEPT !.tyIs = SubSeq(@, 1, Len(@) - 1),
                     !.done = SubSeq(@, 1, Len(@) - 1)]

(* Mutant: keeps the copy of the top in the database's own arena.          *)
TyDb_nip_sameArena(d) ==
  LET tys  == TypesOf(TyDb_top(d))
      copy == [j \in 1..Len(tys) |-> [ty |-> tys[j], adr |-> d.bump + j]]
      two  == TyDb_new(TyDb_drop(TyDb_drop([d EXCEPT !.bump = @ + Len(tys)])))
  IN  IF ~Ok(two) THEN two ELSE [two EXCEPT !.tyIs[Len(two.tyIs)] = copy]

(* The copy of the top is kept in bbaTmp, outside the database's arena.    *)
TyDb_nip(d) ==
  TyI_cloneAdd(TyDb_new(TyDb_drop(TyDb_drop(d))), TypesOf(TyDb_top(d)))

-----------------------------------------------------------------------------
(* Type checking.                                                          *)

(* tyCheck compares two streams from their tops.                           *)
tyCheck(require, given, sameLen) ==
  /\ IF sameLen THEN Len(given) = Len(require) ELSE Len(given) >= Len(require)
  /\ \A k \in 1..Len(require) :
       <<require[k], given[Len(given) - Len(require) + k]>> \in Accepts

(* Mutant: without the ASSERT on code after a return.                      *)
tyCall_noDone(d, inp, out) ==
  IF ~Ok(d) \/ d.unty THEN d
  ELSE IF ~tyCheck(inp, TypesOf(TyDb_top(d)), FALSE) THEN Fail(d, "type")
  ELSE TyI_cloneAdd(TyDb_free(d, Len(inp)), out)

tyCall(d, inp, out) ==
  IF ~Ok(d) \/ d.unty THEN d
  ELSE IF TyDb_done(d) # NOT_DONE /\ (inp # << >> \/ out # << >>)
       THEN Fail(d, "done")
  ELSE IF ~tyCheck(inp, TypesOf(TyDb_top(d)), FALSE) THEN Fail(d, "type")
  ELSE TyI_cloneAdd(TyDb_free(d, Len(inp)), out)

tyRet(d, fnOut, how) ==
  IF ~Ok(d) \/ d.unty THEN d
  ELSE IF TyDb_done(d) # NOT_DONE THEN Fail(d, "done")
  ELSE IF ~tyCheck(fnOut, TypesOf(TyDb_top(d)), TRUE) THEN Fail(d, "type")
  ELSE TyDb_setDone(d, how)

(* Mutant: clones onto the current snapshot, then pushes a new one.        *)
tyClone_beforeNew(d, depth) ==
  IF ~Ok(d) \/ d.unty THEN d
  ELSE IF depth >= Len(d.tyIs) THEN Fail(d, "index")
  ELSE TyDb_new(TyI_cloneAdd(d, TypesOf(TyDb_index(d, depth))))

tyClone(d, depth) ==
  IF ~Ok(d) \/ d.unty THEN d
  ELSE IF depth >= Len(d.tyIs) THEN Fail(d, "index")
  ELSE TyI_cloneAdd(TyDb_new(d), TypesOf(TyDb_index(d, depth)))

(* Mutant: a branch may leave values behind.                               *)
tyMerge_noLen(d) ==
  IF ~Ok(d) \/ d.unty THEN d
  ELSE IF Len(d.tyIs) <= 1 THEN Fail(d, "alone")
  ELSE IF /\ TyDb_done(d) = NOT_DONE
          /\ ~tyCheck(TypesOf(TyDb_index(d, 1)), TypesOf(TyDb_top(d)), FALSE)
       THEN Fail(d, "type")
  ELSE TyDb_drop(d)

tyMerge(d) ==
  IF ~Ok(d) \/ d.unty THEN d
  ELSE IF Len(d.tyIs) <= 1 THEN Fail(d, "alone")
  ELSE IF /\ TyDb_done(d) = NOT_DONE
          /\ ~tyCheck(TypesOf(TyDb_index(d, 1)), TypesOf(TyDb_top(d)), TRUE)
       THEN Fail(d, "type")
  ELSE TyDb_drop(d)

(* A native cast (compileDict): TyDb_pop, then tyCall with the new type.   *)
tyCast(d, ty) ==
  IF d.unty THEN d ELSE tyCall(TyDb_free(d, 1), << >>, <<ty>>)

-----------------------------------------------------------------------------
(* What the properties say of a database.                                  *)

(***************************************************************************)
(* Laid(d, base, lo): snapshot i of d holds exactly the arena nodes        *)
(* lo[i]+1 .. lo[i+1], in order, and the snapshots cover all of base+1 ..  *)
(* bump.                                                                   *)
(***************************************************************************)
Laid(d, base, lo) ==
  /\ lo[1] = base
  /\ lo[Len(d.tyIs) + 1] = d.bump
  /\ \A i \in 1..Len(d.tyIs) :
       /\ lo[i + 1] = lo[i] + Len(d.tyIs[i])
       /\ \A j \in 1..Len(d.tyIs[i]) : d.tyIs[i][j].adr = lo[i] + j

Packed(d, base) ==
  \E lo \in [1..Len(d.tyIs) + 1 -> 0..ArenaCap] : Laid(d, base, lo)

(* Between d and e no snapshot that e leaves below its top has changed.    *)
CoveredSame(d, e) ==
  \A i \in 1..Len(d.tyIs) :
    i < Len(e.tyIs) => e.tyIs[i] = d.tyIs[i] /\ e.done[i] = d.done[i]
=============================================================================
