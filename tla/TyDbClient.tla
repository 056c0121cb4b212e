----------------------------- MODULE TyDbClient -----------------------------
(***************************************************************************)
(* The database of TyDb.tla in the hands of any compiler: one action per   *)
(* operation, in any order the handlers' own guards allow, with the panics *)
(* that failed checks raise and the clean-up that follows them.            *)
(***************************************************************************)
EXTENDS TyDb

CONSTANT Streams    \* the type streams that calls and signatures use

ASSUME StreamsAssumption == Streams \subseteq Seq(Types)

VARIABLES
  tyDb,   \* the database of the code that is compiled (`k->g.tyDb')
  lost    \* history: the nodes that panics have abandoned in its arena

clientVars == <<tyDb, lost>>

ClientInit == tyDb = TyDb_new(TyDb_init) /\ lost = 0

Apply(d) == Ok(tyDb) /\ tyDb' = d /\ UNCHANGED lost

New            == Apply(TyDb_new(tyDb))
Drop           == Len(tyDb.tyIs) > 1 /\ Apply(TyDb_drop(tyDb))
Nip            == Len(tyDb.tyIs) > 1 /\ Apply(TyDb_nip(tyDb))
Clone(depth)   == Apply(tyClone(tyDb, depth))
Merge          == Apply(tyMerge(tyDb))
Call(inp, out) == Apply(tyCall(tyDb, inp, out))
Ret(out)       == Apply(tyRet(tyDb, out, RET_DONE))
Cast(ty)       == TyDb_top(tyDb) # << >> /\ Apply(tyCast(tyDb, ty))
SetDone(how)   == Apply(TyDb_setDone(tyDb, how))
ClearDone      == Apply(TyDb_clearDone(tyDb))
SetUnty(b)     == Apply([tyDb EXCEPT !.unty = b])

(***************************************************************************)
(* Kern_errCleanup after a panic: both stacks are emptied and one empty    *)
(* snapshot pushed, and the arena keeps the nodes they held.               *)
(***************************************************************************)
errCleanup ==
  /\ ~Ok(tyDb)
  /\ tyDb'   = TyDb_new([TyDb_init EXCEPT !.bump = tyDb.bump])
  /\ lost' = tyDb.bump

ClientNext ==
  \/ New
  \/ Drop
  \/ Nip
  \/ \E depth \in {0, 1} : Clone(depth)
  \/ Merge
  \/ \E inp, out \in Streams : Call(inp, out)
  \/ \E out \in Streams : Ret(out)
  \/ \E ty \in Types : Cast(ty)
  \/ \E how \in {BLK_DONE, RET_DONE} : SetDone(how)
  \/ ClearDone
  \/ \E b \in BOOLEAN : SetUnty(b)
  \/ errCleanup

ClientSpec == ClientInit /\ [][ClientNext]_clientVars

-----------------------------------------------------------------------------
(* Properties.                                                             *)

(***************************************************************************)
(* The two stacks of the database always have the same length, between one *)
(* and TYDB_DEPTH: TyDb_new and TyDb_drop move them together, and TyDb_done *)
(* reads the flag of the snapshot that TyDb_top reads.                     *)
(***************************************************************************)
TypeOK ==
  /\ tyDb \in DB
  /\ lost \in Nat
  /\ Len(tyDb.tyIs) = Len(tyDb.done)
  /\ Len(tyDb.tyIs) \in 1..Depth

(***************************************************************************)
(* No node is shared by two snapshots, lost, or out of its turn: the       *)
(* snapshots, from the oldest to the top one and each from bottom to top,  *)
(* fill the arena in the order it was handed out.  This is what the        *)
(* comment of TyI_cloneAdd wants ("so that freeing is done from top to     *)
(* bottom") and what makes TyDb_nip drop two snapshots before it clones.   *)
(***************************************************************************)
ArenaPacked == Packed(tyDb, lost)

(***************************************************************************)
(* The error of BBA_free that TyDb_pop turns into a panic never happens,   *)
(* whatever the compiler does with the database and however often it       *)
(* panicked before.                                                        *)
(***************************************************************************)
FreesInOrder == tyDb.err # "free"

(***************************************************************************)
(* A clone is independent of what it was cloned from: no step changes a    *)
(* snapshot, or its flag, that ends up below the top.                      *)
(***************************************************************************)
CoveredFrozen == [][CoveredSame(tyDb, tyDb')]_clientVars

(***************************************************************************)
(* "Code after guaranteed 'ret'": once the flow of the top snapshot is     *)
(* known not to reach its end, its types stay as they were until the       *)
(* snapshot is dropped or the flag cleared; anything else panics.          *)
(***************************************************************************)
DoneFrozen ==
  [][ (/\ TyDb_done(tyDb) # NOT_DONE
       /\ ~tyDb.unty
       /\ Ok(tyDb')
       /\ Len(tyDb'.tyIs) = Len(tyDb.tyIs)
       /\ TyDb_done(tyDb') # NOT_DONE)
      => TyDb_top(tyDb') = TyDb_top(tyDb) ]_clientVars
=============================================================================
