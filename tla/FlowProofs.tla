----------------------------- MODULE FlowProofs -----------------------------
(***************************************************************************)
(* Proofs about Flow: the snapshots of the type database are those of the  *)
(* handlers that wait, every jump gets its target, and the code that the   *)
(* types accept runs on values of these types.                             *)
(***************************************************************************)
EXTENDS Flow, TyDbProofs, DataLemmas

-----------------------------------------------------------------------------
(* The handlers that wait.                                                 *)

Kinds    == {"fn", "if", "elif", "else", "blk"}
IfStates == [hadFull : BOOLEAN, done : HowDone, hadElse : BOOLEAN]
Frames   == [kind : Kinds, is : IfStates, i : Nat, ends : SUBSET Nat, blk : Nat]

(* What the frame of a handler has, as it starts.                          *)
LEMMA FrameFacts ==
  ASSUME NEW kind \in Kinds
  PROVE  /\ Frame(kind) \in Frames
         /\ Frame(kind).kind = kind /\ Frame(kind).is = IfState0
         /\ IfState0 \in IfStates
BY DEF Frame, Frames, IfStates, IfState0, HowDone, NOT_DONE

LEMMA SnapshotsOfFrame ==
  ASSUME NEW f \in Frames
  PROVE  SnapshotsOf(f) \in 0..3
BY DEF SnapshotsOf, Frames, Kinds, IfStates

(* The function that Snapshots defines, by its step.                       *)
SnapshotsStep(k) ==
  [n \in Nat |-> [v \in Nat |->
    v + (IF n < Len(k) THEN SnapshotsOf(k[n + 1]) ELSE 0)]]

LEMMA SnapshotsDefined ==
  ASSUME NEW k \in Seq(Frames)
  PROVE  /\ Snapshots(k)[0] = 1
         /\ \A n \in 1..Len(k) :
              Snapshots(k)[n] = Snapshots(k)[n - 1] + SnapshotsOf(k[n])
         /\ \A n \in 0..Len(k) : Snapshots(k)[n] \in Nat \ {0}
<1>. DEFINE m == Len(k)
            R(g) == [i \in 0..m |-> IF i = 0 THEN 1
                                    ELSE g[i - 1] + SnapshotsOf(k[i])]
<1>1. m \in Nat /\ \A n \in 1..m : k[n] \in Frames
  BY ElementOfSeq
<1>2. \A n \in 1..m : SnapshotsOf(k[n]) \in Nat
  BY <1>1, SnapshotsOfFrame
<1>3. SnapshotsStep(k) \in [Nat -> [Nat -> Nat]]
  <2>1. \A n \in Nat : n < m => n + 1 \in 1..m
    BY <1>1
  <2>. QED
    BY <1>2, <2>1 DEF SnapshotsStep
<1>4. PICK f \in [0..m -> Nat] : Recurs(f, m, 1, SnapshotsStep(k))
  BY <1>1, <1>3, RecursExists
<1>5. \A n \in 1..m : f[n] = f[n - 1] + SnapshotsOf(k[n])
  <2>1. TAKE n \in 1..m
  <2>2. n - 1 \in 0..m - 1 /\ (n - 1) + 1 = n /\ n - 1 < m /\ n - 1 \in Nat
    BY <1>1
  <2>3. f[n] = SnapshotsStep(k)[n - 1][f[n - 1]]
    BY <1>4, <2>2 DEF Recurs
  <2>4. f[n - 1] \in Nat
    BY <1>1, <2>2
  <2>. QED
    BY <2>2, <2>3, <2>4 DEF SnapshotsStep
<1>6. f = R(f)
  BY <1>1, <1>4, <1>5 DEF Recurs
<1>7. Snapshots(k) = CHOOSE g : g = R(g)
  BY DEF Snapshots
<1>8. Snapshots(k) = R(Snapshots(k))
  <2>. HIDE DEF R
  <2>. QED
    BY <1>6, <1>7
<1>9. /\ Snapshots(k)[0] = 1
      /\ \A n \in 1..m : Snapshots(k)[n] = Snapshots(k)[n - 1] + SnapshotsOf(k[n])
  BY <1>1, <1>8
<1>10. \A n \in 0..m : Snapshots(k)[n] \in Nat \ {0}
  <2>. DEFINE T == {n \in 0..m : Snapshots(k)[n] \in Nat \ {0}}
  <2>1. 0 \in T
    BY <1>1, <1>9
  <2>2. \A n \in 0..m - 1 : n \in T => n + 1 \in T
    <3>1. TAKE n \in 0..m - 1
    <3>2. n + 1 \in 1..m /\ (n + 1) - 1 = n
      BY <1>1
    <3>3. Snapshots(k)[n + 1] = Snapshots(k)[n] + SnapshotsOf(k[n + 1])
      BY <1>9, <3>2
    <3>. QED
      BY <1>2, <3>2, <3>3
  <2>3. 0..m \subseteq T
    <3>. HIDE DEF T
    <3>. QED
      BY <1>1, <2>1, <2>2, SetInductionUpTo
  <2>. QED
    BY <2>3
<1>. QED
  BY <1>9, <1>10

(* Handlers that agree up to the n-th have as many snapshots up to it.     *)
LEMMA SnapshotsAgree ==
  ASSUME NEW k \in Seq(Frames), NEW l \in Seq(Frames),
         NEW n \in Nat, n <= Len(k), n <= Len(l),
         \A i \in 1..n : l[i] = k[i]
  PROVE  \A i \in 0..n : Snapshots(l)[i] = Snapshots(k)[i]
<1>. DEFINE T == {i \in 0..n : Snapshots(l)[i] = Snapshots(k)[i]}
<1>1. Len(k) \in Nat /\ Len(l) \in Nat
  OBVIOUS
<1>2. 0 \in T
  BY <1>1, SnapshotsDefined
<1>3. \A i \in 0..n - 1 : i \in T => i + 1 \in T
  <2>1. SUFFICES ASSUME NEW i \in 0..n - 1, i \in T PROVE i + 1 \in T
    OBVIOUS
  <2>2. /\ i + 1 \in 1..n /\ i + 1 \in 1..Len(k) /\ i + 1 \in 1..Len(l)
        /\ (i + 1) - 1 = i
    BY <1>1
  <2>3. Snapshots(k)[i + 1] = Snapshots(k)[i] + SnapshotsOf(k[i + 1])
    BY <2>2, SnapshotsDefined
  <2>4. Snapshots(l)[i + 1] = Snapshots(l)[i] + SnapshotsOf(l[i + 1])
    BY <2>2, SnapshotsDefined
  <2>. QED
    BY <2>1, <2>2, <2>3, <2>4
<1>4. 0..n \subseteq T
  <2>. HIDE DEF T
  <2>. QED
    BY <1>2, <1>3, SetInductionUpTo
<1>. QED
  BY <1>4

-----------------------------------------------------------------------------
(* The type database as the handlers see it: of each snapshot its types    *)
(* and how its flow ended.                                                 *)

Snap    == [tys : Seq(Types), done : HowDone]
View(d) == [i \in 1..Len(d.tyIs) |-> [tys |-> TypesOf(d.tyIs[i]), done |-> d.done[i]]]

Db(d) == Good(d, 0) /\ Len(d.tyIs) >= 1 /\ d.err # "incomplete"

(* Two views are the same up to the n-th snapshot.                         *)
Below(v, w, n) == \A i \in 1..n : w[i] = v[i]

LEMMA ViewFacts ==
  ASSUME NEW d, Db(d)
  PROVE  /\ View(d) \in Seq(Snap)
         /\ Len(View(d)) = Len(d.tyIs) /\ Len(d.tyIs) \in Nat \ {0}
         /\ \A i \in 1..Len(d.tyIs) :
              /\ View(d)[i] \in Snap
              /\ View(d)[i].tys = TypesOf(d.tyIs[i])
              /\ View(d)[i].done = d.done[i]
         /\ TyDb_done(d) = View(d)[Len(d.tyIs)].done
         /\ TypesOf(TyDb_top(d)) = View(d)[Len(d.tyIs)].tys
         /\ \A i \in 0..Len(d.tyIs) - 1 :
              TypesOf(TyDb_index(d, i)) = View(d)[Len(d.tyIs) - i].tys
<1>1. /\ d.tyIs \in Seq(Seq(Node)) /\ d.done \in Seq(HowDone)
      /\ Len(d.tyIs) \in Nat \ {0} /\ Len(d.done) = Len(d.tyIs)
  BY GoodFacts DEF Db
<1>2. PICK n \in Nat \ {0} : n = Len(d.tyIs)
  BY <1>1
<1>3. \A i \in 1..n : d.tyIs[i] \in Seq(Node) /\ d.done[i] \in HowDone
  BY <1>1, <1>2, ElementOfSeq
<1>4. \A i \in 1..n : TypesOf(d.tyIs[i]) \in Seq(Types)
  BY <1>3, TypesOfSeq
<1>5. \A i \in 1..n :
        [tys |-> TypesOf(d.tyIs[i]), done |-> d.done[i]] \in Snap
  BY <1>3, <1>4 DEF Snap
<1>6. View(d) = [i \in 1..n |-> [tys |-> TypesOf(d.tyIs[i]), done |-> d.done[i]]]
  BY <1>2 DEF View
<1>7. View(d) \in [1..n -> Snap]
  BY <1>5, <1>6
<1>8. View(d) \in Seq(Snap) /\ Len(View(d)) = n
  BY <1>7, SeqDef
<1>9. \A i \in 1..n : /\ View(d)[i] \in Snap
                      /\ View(d)[i].tys = TypesOf(d.tyIs[i])
                      /\ View(d)[i].done = d.done[i]
  BY <1>5, <1>6
<1>10. n \in 1..n /\ \A i \in 0..n - 1 : n - i \in 1..n
  BY <1>2
<1>11. TyDb_done(d) = d.done[n] /\ TyDb_top(d) = d.tyIs[n]
  BY <1>1, <1>2 DEF TyDb_done, TyDb_top
<1>12. \A i \in 0..n - 1 : TyDb_index(d, i) = d.tyIs[n - i]
  BY <1>2 DEF TyDb_index
<1>13. \A i \in 0..n - 1 : TypesOf(TyDb_index(d, i)) = View(d)[n - i].tys
  BY ONLY <1>9, <1>10, <1>12
<1>14. TyDb_done(d) = View(d)[n].done /\ TypesOf(TyDb_top(d)) = View(d)[n].tys
  BY ONLY <1>9, <1>10, <1>11
<1>. QED
  BY ONLY <1>1, <1>2, <1>8, <1>9, <1>13, <1>14

(* What an operation leaves of d: n snapshots, and which is the last one.  *)
Viewed(d, e, n, tys, how) ==
  /\ Len(e.tyIs) = n
  /\ Below(View(d), View(e), n - 1)
  /\ View(e)[n].tys = tys /\ View(e)[n].done = how

(* Snapshots that an operation does not touch look the same.               *)
LEMMA ViewBelow ==
  ASSUME NEW d, NEW e, Db(d), Db(e), NEW n \in Nat,
         n <= Len(d.tyIs), n <= Len(e.tyIs),
         \A i \in 1..n : e.tyIs[i] = d.tyIs[i] /\ e.done[i] = d.done[i]
  PROVE  Below(View(d), View(e), n)
<1>1. Len(d.tyIs) \in Nat /\ Len(e.tyIs) \in Nat
  BY ViewFacts
<1>2. \A i \in 1..n : i \in 1..Len(d.tyIs) /\ i \in 1..Len(e.tyIs)
  BY <1>1
<1>. QED
  BY <1>2 DEF Below, View

(* What every operation does: e is what it makes of d.                     *)
Kept(d, e) == Db(e) /\ e.unty = d.unty /\ (Ok(e) => Ok(d))

LEMMA KeptSame == ASSUME NEW d, Db(d) PROVE Kept(d, d)
BY DEF Kept

LEMMA KeptChain ==
  ASSUME NEW d, NEW e, NEW f, Kept(d, e), Kept(e, f)
  PROVE  Kept(d, f)
BY DEF Kept

LEMMA FailKept ==
  ASSUME NEW d, Db(d), NEW x \in Errors \ {"free", "incomplete"}
  PROVE  Kept(d, Fail(d, x)) /\ ~Ok(Fail(d, x))
<1>. DEFINE e == Fail(d, x)
<1>1. Good(e, 0) /\ ~Ok(e) /\ e.tyIs = d.tyIs
  BY FailGood DEF Db
<1>2. d \in DB
  BY DEF Db, Good
<1>3. e.unty = d.unty /\ e.err = x
  BY <1>2 DEF Fail, DB
<1>. QED
  BY <1>1, <1>3 DEF Kept, Db

LEMMA RequireKept ==
  ASSUME NEW d, Db(d), NEW cond, NEW x \in Errors \ {"free", "incomplete"}
  PROVE  /\ Kept(d, Require(d, cond, x))
         /\ Ok(Require(d, cond, x)) => cond /\ Require(d, cond, x) = d
BY FailKept, KeptSame DEF Require

(* Only the flag of the top snapshot changes.                              *)
LEMMA FlagView ==
  ASSUME NEW d, Db(d), NEW how \in HowDone, NEW e,
         e = [d EXCEPT !.done[Len(d.done)] = how]
  PROVE  /\ Kept(d, e)
         /\ Viewed(d, e, Len(d.tyIs), View(d)[Len(d.tyIs)].tys, how)
<1>1. /\ d \in DB /\ d.done \in Seq(HowDone)
      /\ Len(d.tyIs) \in Nat \ {0} /\ Len(d.done) = Len(d.tyIs)
  BY GoodFacts DEF Db
<1>2. PICK n \in Nat \ {0} : n = Len(d.tyIs) /\ n = Len(d.done)
  BY <1>1
<1>3. Good(e, 0) /\ Len(e.tyIs) >= 1
  BY <1>2, FlagSound DEF Db, Sound
<1>4. /\ e.tyIs = d.tyIs /\ e.unty = d.unty /\ e.err = d.err
      /\ e.done = [d.done EXCEPT ![n] = how]
  BY <1>1, <1>2 DEF DB
<1>5. Db(e) /\ Kept(d, e)
  BY <1>3, <1>4 DEF Db, Kept, Ok
<1>l. n = Len(e.tyIs)
  BY ONLY <1>2, <1>4
<1>6. n \in DOMAIN d.done
  BY <1>1, <1>2
<1>7. e.done[n] = how /\ \A i \in 1..n - 1 : e.done[i] = d.done[i]
  BY <1>1, <1>2, <1>4, <1>6
<1>8. Below(View(d), View(e), n - 1)
  <2>1. n - 1 \in Nat /\ n - 1 <= Len(d.tyIs) /\ n - 1 <= Len(e.tyIs)
    BY ONLY <1>2, <1>l
  <2>. QED
    BY ONLY <1>4, <1>5, <1>7, <2>1, ViewBelow, Db(d)
<1>9. n \in 1..Len(d.tyIs) /\ n \in 1..Len(e.tyIs)
  BY ONLY <1>2, <1>l
<1>10. View(d)[n].tys = TypesOf(d.tyIs[n])
  BY ONLY <1>9, ViewFacts, Db(d)
<1>11. View(e)[n].tys = TypesOf(e.tyIs[n]) /\ View(e)[n].done = e.done[n]
  BY ONLY <1>5, <1>9, ViewFacts
<1>. QED
  BY ONLY <1>2, <1>4, <1>5, <1>7, <1>8, <1>10, <1>11 DEF Viewed

LEMMA SetDoneView ==
  ASSUME NEW d, Db(d), NEW how \in HowDone, NEW e, e = TyDb_setDone(d, how)
  PROVE  /\ Kept(d, e)
         /\ Ok(e) =>
              /\ View(d)[Len(d.tyIs)].done = NOT_DONE
              /\ Viewed(d, e, Len(d.tyIs), View(d)[Len(d.tyIs)].tys, how)
<1>1. "redone" \in Errors \ {"free", "incomplete"}
  BY DEF Errors
<1>2. CASE ~Ok(d)
  BY <1>2, KeptSame DEF TyDb_setDone
<1>3. CASE Ok(d) /\ TyDb_done(d) # NOT_DONE
  BY <1>1, <1>3, FailKept DEF TyDb_setDone
<1>4. CASE Ok(d) /\ TyDb_done(d) = NOT_DONE
  BY <1>4, FlagView, ViewFacts DEF TyDb_setDone
<1>. QED
  BY <1>2, <1>3, <1>4

LEMMA ClearDoneView ==
  ASSUME NEW d, Db(d), NEW e, e = TyDb_clearDone(d)
  PROVE  /\ Kept(d, e)
         /\ Ok(e) => Viewed(d, e, Len(d.tyIs), View(d)[Len(d.tyIs)].tys, NOT_DONE)
<1>1. NOT_DONE \in HowDone
  BY DEF HowDone
<1>2. CASE ~Ok(d)
  BY <1>2, KeptSame DEF TyDb_clearDone
<1>3. CASE Ok(d)
  BY <1>1, <1>3, FlagView DEF TyDb_clearDone
<1>. QED
  BY <1>2, <1>3

LEMMA NewView ==
  ASSUME NEW d, Db(d), NEW e, e = TyDb_new(d)
  PROVE  /\ Kept(d, e)
         /\ Ok(e) => Viewed(d, e, Len(d.tyIs) + 1, << >>, NOT_DONE)
<1>1. /\ d \in DB /\ d.tyIs \in Seq(Seq(Node)) /\ d.done \in Seq(HowDone)
      /\ Len(d.tyIs) \in Nat \ {0} /\ Len(d.done) = Len(d.tyIs)
  BY GoodFacts DEF Db
<1>2. PICK n \in Nat \ {0} : n = Len(d.tyIs) /\ n = Len(d.done)
  BY <1>1
<1>3. "depth" \in Errors \ {"free", "incomplete"}
  BY DEF Errors
<1>4. CASE ~Ok(d)
  BY <1>4, KeptSame DEF TyDb_new
<1>5. CASE Ok(d) /\ Len(d.tyIs) >= Depth
  BY <1>3, <1>5, FailKept DEF TyDb_new
<1>6. CASE Ok(d) /\ ~(Len(d.tyIs) >= Depth)
  <2>1. e = [d EXCEPT !.tyIs = Append(@, << >>), !.done = Append(@, NOT_DONE)]
    BY <1>6 DEF TyDb_new
  <2>2. /\ e.tyIs = Append(d.tyIs, << >>) /\ e.done = Append(d.done, NOT_DONE)
        /\ e.unty = d.unty /\ e.err = d.err
    BY <1>1, <2>1 DEF DB
  <2>3. Good(e, 0) /\ Len(e.tyIs) >= Len(d.tyIs)
    BY NewGood DEF Db
  <2>4. << >> \in Seq(Node) /\ NOT_DONE \in HowDone
    BY EmptySeq DEF HowDone
  <2>5. /\ Len(Append(d.tyIs, << >>)) = n + 1
        /\ \A i \in 1..n : Append(d.tyIs, << >>)[i] = d.tyIs[i]
        /\ Append(d.tyIs, << >>)[n + 1] = << >>
    BY ONLY <1>1, <1>2, <2>4, AppendProperties
  <2>6. /\ Len(Append(d.done, NOT_DONE)) = n + 1
        /\ \A i \in 1..n : Append(d.done, NOT_DONE)[i] = d.done[i]
        /\ Append(d.done, NOT_DONE)[n + 1] = NOT_DONE
    BY ONLY <1>1, <1>2, <2>4, AppendProperties
  <2>7. Len(e.tyIs) = n + 1
    BY ONLY <2>2, <2>5
  <2>8. Db(e) /\ Kept(d, e)
    <3>1. Len(e.tyIs) >= 1 /\ e.err # "incomplete"
      BY ONLY <1>2, <2>2, <2>7, Db(d) DEF Db
    <3>. QED
      BY ONLY <1>6, <2>2, <2>3, <3>1 DEF Db, Kept, Ok
  <2>9. Below(View(d), View(e), n)
    <3>1. n <= Len(d.tyIs) /\ n <= Len(e.tyIs)
      BY ONLY <1>2, <2>7
    <3>2. \A i \in 1..n : e.tyIs[i] = d.tyIs[i] /\ e.done[i] = d.done[i]
      BY ONLY <2>2, <2>5, <2>6
    <3>. QED
      BY ONLY <1>2, <2>8, <3>1, <3>2, ViewBelow, Db(d)
  <2>10. n + 1 \in 1..Len(e.tyIs)
    BY ONLY <1>2, <2>7
  <2>11. View(e)[n + 1].tys = TypesOf(e.tyIs[n + 1])
         /\ View(e)[n + 1].done = e.done[n + 1]
    BY ONLY <2>8, <2>10, ViewFacts
  <2>12. TypesOf(<< >>) = << >>
    BY DEF TypesOf
  <2>. QED
    <3>1. (n + 1) - 1 = n
      BY ONLY <1>2
    <3>. QED
      BY ONLY <1>2, <2>2, <2>5, <2>6, <2>7, <2>8, <2>9, <2>11, <2>12, <3>1
         DEF Viewed
<1>. QED
  BY <1>4, <1>5, <1>6

(* The types of a snapshot and of nodes cloned onto it.                    *)
LEMMA TypesOfNodes ==
  ASSUME NEW s \in Seq(Node), NEW c \in Seq(Node)
  PROVE  TypesOf(s \o c) = TypesOf(s) \o TypesOf(c)
<1>0. PICK l \in Nat, n \in Nat : l = Len(s) /\ n = Len(c)
  OBVIOUS
<1>1. /\ s \o c \in Seq(Node) /\ Len(s \o c) = l + n
      /\ \A j \in 1..l + n : (s \o c)[j] = IF j <= l THEN s[j] ELSE c[j - l]
  BY ONLY <1>0, s \in Seq(Node), c \in Seq(Node), l \in Nat, n \in Nat, ConcatFacts
<1>2. TypesOf(s \o c) \in Seq(Types) /\ Len(TypesOf(s \o c)) = l + n
  BY <1>1, TypesOfSeq
<1>3. PICK r \in Seq(Types), t \in Seq(Types) :
        r = TypesOf(s) /\ t = TypesOf(c) /\ l = Len(r) /\ n = Len(t)
  BY <1>0, TypesOfSeq
<1>4. /\ r \o t \in Seq(Types) /\ Len(r \o t) = l + n
      /\ \A j \in 1..l + n : (r \o t)[j] = IF j <= l THEN r[j] ELSE t[j - l]
  BY ONLY <1>3, r \in Seq(Types), t \in Seq(Types), l \in Nat, n \in Nat, ConcatFacts
<1>5. ASSUME NEW j \in 1..l + n
      PROVE  TypesOf(s \o c)[j] = (r \o t)[j]
  <2>1. TypesOf(s \o c)[j] = (s \o c)[j].ty
    BY <1>1 DEF TypesOf
  <2>2. CASE j <= l
    <3>1. j \in 1..l
      BY <2>2
    <3>2. r[j] = s[j].ty
      BY <1>0, <1>3, <3>1 DEF TypesOf
    <3>. QED
      BY <1>1, <1>4, <2>1, <2>2, <3>2
  <2>3. CASE ~(j <= l)
    <3>1. j - l \in 1..n
      BY <2>3
    <3>2. t[j - l] = c[j - l].ty
      BY <1>0, <1>3, <3>1 DEF TypesOf
    <3>3. (s \o c)[j] = c[j - l] /\ (r \o t)[j] = t[j - l]
      BY <1>1, <1>4, <2>3
    <3>. QED
      BY <2>1, <3>2, <3>3
  <2>. QED
    BY <2>2, <2>3
<1>6. TypesOf(s \o c) = r \o t
  BY <1>2, <1>4, <1>5, SeqEqual
<1>. QED
  BY <1>3, <1>6

(* The nodes that TyI_cloneAdd allocates for the types tys, from a on.     *)
NodesOf(tys, a) == [j \in 1..Len(tys) |-> [ty |-> tys[j], adr |-> a + j]]

LEMMA TypesOfConcat ==
  ASSUME NEW s \in Seq(Node), NEW tys \in Seq(Types), NEW a \in Nat,
         NEW c, c = NodesOf(tys, a)
  PROVE  TypesOf(s \o c) = TypesOf(s) \o tys
<1>1. PICK n \in Nat : n = Len(tys)
  OBVIOUS
<1>2. c \in Seq(Node) /\ n = Len(c) /\ \A j \in 1..n : c[j].ty = tys[j]
  <2>1. \A j \in 1..n : [ty |-> tys[j], adr |-> a + j] \in Node
    BY <1>1, ElementOfSeq DEF Node
  <2>2. c = [j \in 1..n |-> [ty |-> tys[j], adr |-> a + j]]
    BY <1>1 DEF NodesOf
  <2>3. c \in [1..n -> Node]
    BY <2>1, <2>2
  <2>4. c \in Seq(Node) /\ Len(c) = n
    BY <2>3, SeqDef
  <2>. QED
    BY <2>2, <2>4
<1>3. TypesOf(c) = tys
  <2>1. TypesOf(c) \in Seq(Types) /\ Len(TypesOf(c)) = Len(tys)
    BY <1>1, <1>2, TypesOfSeq
  <2>2. \A j \in 1..Len(tys) : TypesOf(c)[j] = tys[j]
    BY <1>1, <1>2 DEF TypesOf
  <2>. QED
    BY <2>1, <2>2, SeqEqual
<1>4. TypesOf(s \o c) = TypesOf(s) \o tys
  BY ONLY <1>2, <1>3, s \in Seq(Node), TypesOfNodes
<1>. QED
  BY <1>4

LEMMA CloneAddView ==
  ASSUME NEW d, Db(d), NEW tys \in Seq(Types), NEW e, e = TyI_cloneAdd(d, tys)
  PROVE  /\ Kept(d, e)
         /\ Ok(e) => Viewed(d, e, Len(d.tyIs), View(d)[Len(d.tyIs)].tys \o tys,
                            View(d)[Len(d.tyIs)].done)
<1>1. /\ d \in DB /\ d.tyIs \in Seq(Seq(Node)) /\ d.done \in Seq(HowDone)
      /\ Len(d.tyIs) \in Nat \ {0} /\ Len(d.done) = Len(d.tyIs)
      /\ TyDb_top(d) \in Seq(Node) /\ d.bump \in Nat
  BY GoodFacts DEF Db, DB
<1>2. PICK n \in Nat \ {0} : n = Len(d.tyIs) /\ n = Len(d.done)
  BY <1>1
<1>3. CASE ~Ok(d)
  BY <1>3, KeptSame DEF TyI_cloneAdd
<1>4. CASE Ok(d)
  <2>. DEFINE room == ArenaCap - d.bump
              m == IF Len(tys) <= room THEN Len(tys) ELSE room
              c == [j \in 1..m |-> [ty |-> tys[j], adr |-> d.bump + j]]
              t == [d.tyIs EXCEPT ![n] = @ \o c]
              x == IF m < Len(tys) THEN "oom" ELSE d.err
  <2>1. e = [d EXCEPT !.tyIs = t, !.bump = @ + m, !.err = x]
    BY <1>2, <1>4 DEF TyI_cloneAdd
  <2>2. e.tyIs = t /\ e.unty = d.unty /\ e.err = x /\ e.done = d.done
    <3>. HIDE DEF t, x, m
    <3>. QED
      BY <1>1, <2>1 DEF DB
  <2>3. /\ Good(e, 0) /\ Len(e.tyIs) = Len(d.tyIs)
        /\ \A i \in 1..Len(d.tyIs) - 1 : e.tyIs[i] = d.tyIs[i]
    BY CloneGood DEF Db
  <2>l. n = Len(e.tyIs)
    BY ONLY <1>2, <2>3
  <2>4. Db(e) /\ Kept(d, e)
    <3>1. e.err # "incomplete" /\ Ok(d)
      BY <1>4, <2>2 DEF Ok
    <3>2. Len(e.tyIs) >= 1
      BY ONLY <1>2, <2>l
    <3>. QED
      BY ONLY <2>2, <2>3, <3>1, <3>2 DEF Db, Kept
  <2>5. Below(View(d), View(e), n - 1)
    <3>1. n - 1 \in Nat /\ n - 1 <= Len(d.tyIs) /\ n - 1 <= Len(e.tyIs)
      BY ONLY <1>2, <2>l
    <3>2. \A i \in 1..n - 1 : e.tyIs[i] = d.tyIs[i] /\ e.done[i] = d.done[i]
      BY ONLY <1>2, <2>2, <2>3
    <3>. QED
      BY ONLY <2>4, <3>1, <3>2, ViewBelow, Db(d)
  <2>6. n \in 1..Len(d.tyIs) /\ n \in 1..Len(e.tyIs)
    BY ONLY <1>2, <2>l
  <2>7. /\ View(d)[n].tys = TypesOf(d.tyIs[n]) /\ View(d)[n].done = d.done[n]
        /\ View(e)[n].tys = TypesOf(e.tyIs[n]) /\ View(e)[n].done = e.done[n]
    BY ONLY <2>4, <2>6, ViewFacts, Db(d)
  <2>8. ASSUME Ok(e) PROVE View(e)[n].tys = View(d)[n].tys \o tys
    <3>1. m = Len(tys)
      <4>1. x = "ok" /\ Len(tys) \in Nat
        BY <2>2, <2>8 DEF Ok
      <4>2. m <= Len(tys)
        BY <1>1, <4>1, ArenaAssumption
      <4>3. ~(m < Len(tys))
        BY <4>1
      <4>4. m \in Int
        BY <1>1, <4>1, ArenaAssumption
      <4>. HIDE DEF m
      <4>. QED
        BY <4>1, <4>2, <4>3, <4>4
    <3>2. e.tyIs[n] = d.tyIs[n] \o c
      <4>1. n \in DOMAIN d.tyIs
        BY <1>1, <1>2
      <4>. HIDE DEF c
      <4>. QED
        BY <2>2, <4>1
    <3>3. d.tyIs[n] \in Seq(Node)
      BY ONLY <1>1, <1>2 DEF TyDb_top
    <3>4. TypesOf(d.tyIs[n] \o c) = TypesOf(d.tyIs[n]) \o tys
      <4>1. PICK a \in Nat : a = d.bump
        BY ONLY <1>1
      <4>2. c = NodesOf(tys, a)
        BY ONLY <3>1, <4>1 DEF NodesOf
      <4>. HIDE DEF c
      <4>3. PICK y \in Seq(Node) : y = d.tyIs[n]
        BY ONLY <3>3
      <4>4. TypesOf(y \o c) = TypesOf(y) \o tys
        BY ONLY <4>2, a \in Nat, y \in Seq(Node), tys \in Seq(Types), TypesOfConcat
      <4>. QED
        BY ONLY <4>3, <4>4
    <3>. QED
      BY ONLY <2>7, <3>2, <3>4
  <2>. QED
    BY ONLY <1>2, <2>2, <2>3, <2>4, <2>5, <2>7, <2>8 DEF Viewed
<1>. QED
  BY <1>3, <1>4

LEMMA TypesOfSub ==
  ASSUME NEW s \in Seq(Node), NEW m \in 0..Len(s)
  PROVE  TypesOf(SubSeq(s, 1, m)) = SubSeq(TypesOf(s), 1, m)
<1>1. PICK l \in Nat : l = Len(s)
  OBVIOUS
<1>2. PICK r \in Seq(Types) : r = TypesOf(s) /\ l = Len(r)
  BY <1>1, TypesOfSeq
<1>3. PICK t \in Seq(Node) : t = SubSeq(s, 1, m) /\ Len(t) = m
  BY PrefixFacts
<1>4. \A j \in 1..m : t[j] = s[j] /\ j \in 1..l
  BY <1>1, <1>3, PrefixFacts
<1>5. m \in 0..Len(r)
  BY ONLY <1>1, <1>2, m \in 0..Len(s)
<1>6. /\ SubSeq(r, 1, m) \in Seq(Types) /\ Len(SubSeq(r, 1, m)) = m
      /\ \A j \in 1..m : SubSeq(r, 1, m)[j] = r[j]
  BY ONLY <1>5, r \in Seq(Types), PrefixFacts
<1>7. TypesOf(t) \in Seq(Types) /\ Len(TypesOf(t)) = m
  BY <1>3, TypesOfSeq
<1>8. \A j \in 1..m : TypesOf(t)[j] = SubSeq(r, 1, m)[j]
  BY <1>1, <1>2, <1>3, <1>4, <1>6 DEF TypesOf
<1>9. TypesOf(t) = SubSeq(r, 1, m)
  BY ONLY <1>6, <1>7, <1>8, SeqEqual
<1>. QED
  BY <1>2, <1>3, <1>9

LEMMA ViewedChain ==
  ASSUME NEW d, NEW e, NEW f, NEW n \in Nat, NEW m \in 0..n,
         NEW t1, NEW h1, NEW t2, NEW h2,
         Viewed(d, e, n, t1, h1), Viewed(e, f, m, t2, h2)
  PROVE  Viewed(d, f, m, t2, h2)
BY DEF Viewed, Below

(* The same, when the first step leaves the last snapshot as it was.       *)
LEMMA ViewedPush ==
  ASSUME NEW d, NEW e, NEW f, NEW n \in Nat, NEW t, NEW h,
         Below(View(d), View(e), n), Viewed(e, f, n + 1, t, h)
  PROVE  Viewed(d, f, n + 1, t, h)
BY DEF Viewed, Below

LEMMA FreeView ==
  ASSUME NEW d, Db(d), NEW n \in 0..Len(TypesOf(TyDb_top(d))),
         NEW e, e = TyDb_free(d, n)
  PROVE  /\ Kept(d, e)
         /\ Ok(d) => Ok(e)
         /\ Ok(e) => LET L == Len(d.tyIs)
                         t == View(d)[L].tys
                     IN  Viewed(d, e, L, SubSeq(t, 1, Len(t) - n), View(d)[L].done)
<1>1. /\ d \in DB /\ d.tyIs \in Seq(Seq(Node)) /\ d.done \in Seq(HowDone)
      /\ Len(d.tyIs) \in Nat \ {0} /\ Len(d.done) = Len(d.tyIs)
      /\ TyDb_top(d) \in Seq(Node) /\ Len(TyDb_top(d)) \in Nat
  BY GoodFacts DEF Db
<1>2. PICK L \in Nat \ {0} : L = Len(d.tyIs)
  BY <1>1
<1>3. PICK s \in Seq(Node) : s = TyDb_top(d)
  BY <1>1
<1>4. Len(TypesOf(s)) = Len(s) /\ n \in 0..Len(s) /\ Len(s) \in Nat
  BY <1>1, <1>3, TypesOfSeq
<1>5. /\ Good(e, 0) /\ e.err = d.err /\ e.unty = d.unty
      /\ Len(e.tyIs) = Len(d.tyIs)
      /\ \A i \in 1..Len(d.tyIs) - 1 : e.tyIs[i] = d.tyIs[i]
      /\ e.done = d.done
      /\ Ok(d) => TyDb_top(e) = SubSeq(s, 1, Len(s) - n)
  BY <1>3, <1>4, FreeGood DEF Db
<1>l. L = Len(e.tyIs)
  BY ONLY <1>2, <1>5
<1>6. Db(e) /\ Kept(d, e) /\ (Ok(d) <=> Ok(e))
  <2>1. Len(e.tyIs) >= 1
    BY ONLY <1>2, <1>l
  <2>. QED
    BY ONLY <1>5, <2>1, Db(d) DEF Db, Kept, Ok
<1>7. Below(View(d), View(e), L - 1)
  <2>1. L - 1 \in Nat /\ L - 1 <= Len(d.tyIs) /\ L - 1 <= Len(e.tyIs)
    BY ONLY <1>2, <1>l
  <2>2. \A i \in 1..L - 1 : e.tyIs[i] = d.tyIs[i] /\ e.done[i] = d.done[i]
    BY ONLY <1>2, <1>5
  <2>. QED
    BY ONLY <1>6, <2>1, <2>2, ViewBelow, Db(d)
<1>8. L \in 1..Len(d.tyIs) /\ L \in 1..Len(e.tyIs)
  BY ONLY <1>2, <1>l
<1>9. /\ View(d)[L].tys = TypesOf(d.tyIs[L]) /\ View(d)[L].done = d.done[L]
      /\ View(e)[L].tys = TypesOf(e.tyIs[L]) /\ View(e)[L].done = e.done[L]
  BY ONLY <1>6, <1>8, ViewFacts, Db(d)
<1>10. d.tyIs[L] = s
  BY ONLY <1>2, <1>3 DEF TyDb_top
<1>11. ASSUME Ok(d)
       PROVE  View(e)[L].tys = SubSeq(TypesOf(s), 1, Len(TypesOf(s)) - n)
  <2>1. e.tyIs[L] = SubSeq(s, 1, Len(s) - n)
    BY ONLY <1>5, <1>l, <1>11 DEF TyDb_top
  <2>2. Len(s) - n \in 0..Len(s)
    BY ONLY <1>4
  <2>3. TypesOf(SubSeq(s, 1, Len(s) - n)) = SubSeq(TypesOf(s), 1, Len(s) - n)
    BY ONLY <2>2, s \in Seq(Node), TypesOfSub
  <2>. QED
    BY ONLY <1>4, <1>9, <2>1, <2>3
<1>. QED
  BY ONLY <1>2, <1>5, <1>6, <1>7, <1>9, <1>10, <1>11, <1>l DEF Viewed

LEMMA DropView ==
  ASSUME NEW d, Db(d), Len(d.tyIs) >= 2, NEW e, e = TyDb_drop(d)
  PROVE  /\ Kept(d, e)
         /\ Ok(d) => Ok(e)
         /\ Ok(e) => /\ Len(e.tyIs) = Len(d.tyIs) - 1
                     /\ Below(View(d), View(e), Len(d.tyIs) - 1)
<1>1. /\ d \in DB /\ Len(d.tyIs) \in Nat \ {0} /\ Len(TyDb_top(d)) \in Nat
  BY GoodFacts DEF Db
<1>2. PICK L \in Nat \ {0} : L = Len(d.tyIs)
  BY <1>1
<1>3. /\ Good(e, 0) /\ e.err = d.err /\ (~Ok(d) => e = d)
      /\ Ok(d) => /\ Len(e.tyIs) = L - 1
                  /\ \A i \in 1..L - 1 : e.tyIs[i] = d.tyIs[i] /\ e.done[i] = d.done[i]
  BY <1>2, DropGood DEF Db
<1>4. e.unty = d.unty
  <2>. DEFINE f == TyDb_free(d, Len(TyDb_top(d)))
  <2>1. f.unty = d.unty /\ Good(f, 0)
    BY <1>1, FreeGood DEF Db
  <2>2. f \in DB
    BY <2>1 DEF Good
  <2>3. e = IF ~Ok(f) THEN f
            ELSE [f EXCEPT !.tyIs = SubSeq(@, 1, Len(@) - 1),
                           !.done = SubSeq(@, 1, Len(@) - 1)]
    BY DEF TyDb_drop
  <2>. HIDE DEF f
  <2>. QED
    BY <2>1, <2>2, <2>3 DEF DB
<1>5. Db(e) /\ Kept(d, e)
  <2>1. Len(e.tyIs) >= 1
    <3>1. L - 1 >= 1 /\ L >= 1
      BY ONLY <1>2, Len(d.tyIs) >= 2
    <3>. QED
      BY ONLY <1>2, <1>3, <3>1
  <2>. QED
    BY ONLY <1>3, <1>4, <2>1, Db(d) DEF Db, Kept, Ok
<1>6. ASSUME Ok(e) PROVE Len(e.tyIs) = L - 1 /\ Below(View(d), View(e), L - 1)
  <2>1. Ok(d)
    BY ONLY <1>3, <1>6 DEF Ok
  <2>2. L - 1 \in Nat /\ L - 1 <= Len(d.tyIs) /\ L - 1 <= Len(e.tyIs)
    BY ONLY <1>2, <1>3, <2>1
  <2>3. \A i \in 1..L - 1 : e.tyIs[i] = d.tyIs[i] /\ e.done[i] = d.done[i]
    BY ONLY <1>3, <2>1
  <2>. QED
    BY ONLY <1>3, <1>5, <2>1, <2>2, <2>3, ViewBelow, Db(d)
<1>. QED
  BY ONLY <1>2, <1>3, <1>5, <1>6 DEF Ok

LEMMA CallView ==
  ASSUME NEW d, Db(d), NEW inp \in Seq(Types), NEW out \in Seq(Types),
         NEW e, e = tyCall(d, inp, out)
  PROVE  /\ Kept(d, e)
         /\ d.unty => e = d
         /\ (Ok(e) /\ ~d.unty) =>
              LET L == Len(d.tyIs)
                  t == View(d)[L].tys
              IN  /\ View(d)[L].done = NOT_DONE \/ (inp = << >> /\ out = << >>)
                  /\ tyCheck(inp, t, FALSE)
                  /\ Viewed(d, e, L, SubSeq(t, 1, Len(t) - Len(inp)) \o out,
                            View(d)[L].done)
<1>0. {"done", "type"} \subseteq Errors \ {"free", "incomplete"}
  BY DEF Errors
<1>1. PICK L \in Nat \ {0} : L = Len(d.tyIs)
  BY ViewFacts
<1>2. PICK t \in Seq(Types) : t = View(d)[L].tys
  <2>1. View(d)[L] \in Snap
    BY <1>1, ViewFacts
  <2>. QED
    BY <2>1 DEF Snap
<1>3. TypesOf(TyDb_top(d)) = t /\ TyDb_done(d) = View(d)[L].done
  BY <1>1, <1>2, ViewFacts
<1>4. CASE ~Ok(d) \/ d.unty
  <2>1. e = d
    BY <1>4 DEF tyCall
  <2>2. Kept(d, d) /\ (Ok(d) => d.unty)
    BY <1>4, KeptSame
  <2>. QED
    BY ONLY <2>1, <2>2
<1>5. CASE Ok(d) /\ ~d.unty
  <2>1. CASE TyDb_done(d) # NOT_DONE /\ (inp # << >> \/ out # << >>)
    <3>1. e = Fail(d, "done")
      BY <1>5, <2>1 DEF tyCall
    <3>. QED
      BY ONLY <1>0, <1>5, <3>1, FailKept, Db(d)
  <2>2. CASE /\ ~(TyDb_done(d) # NOT_DONE /\ (inp # << >> \/ out # << >>))
             /\ ~tyCheck(inp, TypesOf(TyDb_top(d)), FALSE)
    <3>1. e = Fail(d, "type")
      BY <1>5, <2>2 DEF tyCall
    <3>. QED
      BY ONLY <1>0, <1>5, <3>1, FailKept, Db(d)
  <2>3. CASE /\ ~(TyDb_done(d) # NOT_DONE /\ (inp # << >> \/ out # << >>))
             /\ tyCheck(inp, TypesOf(TyDb_top(d)), FALSE)
    <3>1. PICK f : f = TyDb_free(d, Len(inp))
      OBVIOUS
    <3>2. e = TyI_cloneAdd(f, out)
      BY <1>5, <2>3, <3>1 DEF tyCall
    <3>3. Len(inp) \in 0..Len(TypesOf(TyDb_top(d)))
      <4>1. Len(TypesOf(TyDb_top(d))) >= Len(inp)
        BY <2>3 DEF tyCheck
      <4>2. Len(inp) \in Nat /\ Len(t) \in Nat
        OBVIOUS
      <4>. QED
        BY <1>3, <4>1, <4>2
    <3>4. /\ Kept(d, f) /\ (Ok(d) => Ok(f))
          /\ Ok(f) => Viewed(d, f, L, SubSeq(t, 1, Len(t) - Len(inp)),
                             View(d)[L].done)
      BY ONLY <1>1, <1>2, <3>1, <3>3, FreeView, Db(d)
    <3>5. Db(f) /\ Ok(f)
      BY ONLY <1>5, <3>4 DEF Kept
    <3>6. Viewed(d, f, L, SubSeq(t, 1, Len(t) - Len(inp)), View(d)[L].done)
      BY ONLY <3>4, <3>5
    <3>7. /\ Len(f.tyIs) = L /\ View(f)[L].done = View(d)[L].done
          /\ View(f)[L].tys = SubSeq(t, 1, Len(t) - Len(inp))
      BY ONLY <3>6 DEF Viewed
    <3>8. /\ Kept(f, e)
          /\ Ok(e) => Viewed(f, e, L, View(f)[L].tys \o out, View(f)[L].done)
      BY ONLY <3>2, <3>5, <3>7, out \in Seq(Types), CloneAddView
    <3>9. Kept(d, e)
      BY ONLY <3>4, <3>8, KeptChain
    <3>10. Ok(e) => Viewed(d, e, L, View(f)[L].tys \o out, View(f)[L].done)
      <4>1. L \in 0..L /\ L \in Nat
        BY ONLY L \in Nat \ {0}
      <4>. QED
        BY ONLY <3>6, <3>8, <4>1, ViewedChain
    <3>11. tyCheck(inp, t, FALSE)
           /\ (View(d)[L].done = NOT_DONE \/ (inp = << >> /\ out = << >>))
      BY <1>3, <2>3
    <3>. QED
      BY ONLY <1>1, <1>2, <1>5, <3>7, <3>9, <3>10, <3>11
  <2>. QED
    BY <2>1, <2>2, <2>3
<1>. QED
  BY <1>4, <1>5

LEMMA RetView ==
  ASSUME NEW d, Db(d), NEW out, NEW how \in HowDone, NEW e, e = tyRet(d, out, how)
  PROVE  /\ Kept(d, e)
         /\ d.unty => e = d
         /\ (Ok(e) /\ ~d.unty) =>
              LET L == Len(d.tyIs)
              IN  /\ View(d)[L].done = NOT_DONE
                  /\ tyCheck(out, View(d)[L].tys, TRUE)
                  /\ Viewed(d, e, L, View(d)[L].tys, how)
<1>0. {"done", "type"} \subseteq Errors \ {"free", "incomplete"}
  BY DEF Errors
<1>3. /\ TypesOf(TyDb_top(d)) = View(d)[Len(d.tyIs)].tys
      /\ TyDb_done(d) = View(d)[Len(d.tyIs)].done
  BY ViewFacts
<1>4. CASE ~Ok(d) \/ d.unty
  <2>1. e = d
    BY <1>4 DEF tyRet
  <2>2. Kept(d, d) /\ (Ok(d) => d.unty)
    BY <1>4, KeptSame
  <2>. QED
    BY ONLY <2>1, <2>2
<1>5. CASE Ok(d) /\ ~d.unty
  <2>1. CASE TyDb_done(d) # NOT_DONE
    <3>1. e = Fail(d, "done")
      BY <1>5, <2>1 DEF tyRet
    <3>. QED
      BY ONLY <1>0, <1>5, <3>1, FailKept, Db(d)
  <2>2. CASE TyDb_done(d) = NOT_DONE /\ ~tyCheck(out, TypesOf(TyDb_top(d)), TRUE)
    <3>1. e = Fail(d, "type")
      BY <1>5, <2>2 DEF tyRet
    <3>. QED
      BY ONLY <1>0, <1>5, <3>1, FailKept, Db(d)
  <2>3. CASE TyDb_done(d) = NOT_DONE /\ tyCheck(out, TypesOf(TyDb_top(d)), TRUE)
    <3>1. e = TyDb_setDone(d, how)
      BY <1>5, <2>3 DEF tyRet
    <3>. QED
      BY ONLY <1>3, <1>5, <2>3, <3>1, SetDoneView, Db(d), how \in HowDone
  <2>. QED
    BY <2>1, <2>2, <2>3
<1>. QED
  BY <1>4, <1>5

LEMMA CloneView ==
  ASSUME NEW d, Db(d), NEW depth \in Nat, NEW e, e = tyClone(d, depth)
  PROVE  /\ Kept(d, e)
         /\ d.unty => e = d
         /\ (Ok(e) /\ ~d.unty) =>
              LET L == Len(d.tyIs)
              IN  /\ depth < L
                  /\ Viewed(d, e, L + 1, View(d)[L - depth].tys, NOT_DONE)
<1>0. "index" \in Errors \ {"free", "incomplete"}
  BY DEF Errors
<1>1. PICK L \in Nat \ {0} : L = Len(d.tyIs)
  BY ViewFacts
<1>4. CASE ~Ok(d) \/ d.unty
  <2>1. e = d
    BY <1>4 DEF tyClone
  <2>2. Kept(d, d) /\ (Ok(d) => d.unty)
    BY <1>4, KeptSame
  <2>. QED
    BY ONLY <2>1, <2>2
<1>5. CASE Ok(d) /\ ~d.unty /\ depth >= Len(d.tyIs)
  <2>1. e = Fail(d, "index")
    BY <1>5 DEF tyClone
  <2>. QED
    BY ONLY <1>0, <1>5, <2>1, FailKept, Db(d)
<1>6. CASE Ok(d) /\ ~d.unty /\ ~(depth >= Len(d.tyIs))
  <2>1. PICK f : f = TyDb_new(d)
    OBVIOUS
  <2>2. depth < L /\ depth \in 0..L - 1 /\ L - depth \in 1..L
    BY <1>1, <1>6
  <2>3. PICK t : t = View(d)[L - depth].tys
    OBVIOUS
  <2>4. t \in Seq(Types)
    <3>1. View(d)[L - depth] \in Snap
      BY <1>1, <2>2, ViewFacts
    <3>. QED
      BY <2>3, <3>1 DEF Snap
  <2>5. TypesOf(TyDb_index(d, depth)) = t
    BY <1>1, <2>2, <2>3, ViewFacts
  <2>6. e = TyI_cloneAdd(f, t)
    BY <1>6, <2>1, <2>5 DEF tyClone
  <2>7. Kept(d, f) /\ (Ok(f) => Viewed(d, f, L + 1, << >>, NOT_DONE))
    BY ONLY <1>1, <2>1, NewView, Db(d)
  <2>8. CASE ~Ok(f)
    <3>1. e = f
      BY <2>6, <2>8 DEF TyI_cloneAdd
    <3>. QED
      BY ONLY <1>6, <2>7, <2>8, <3>1
  <2>9. CASE Ok(f)
    <3>1. /\ Len(f.tyIs) = L + 1 /\ View(f)[L + 1].done = NOT_DONE
          /\ View(f)[L + 1].tys = << >> /\ Db(f)
      BY ONLY <2>7, <2>9 DEF Viewed, Kept
    <3>2. << >> \o t = t
      BY ONLY <2>4, EmptySeq, ConcatEmptySeq
    <3>3. Kept(f, e) /\ (Ok(e) => Viewed(f, e, L + 1, t, NOT_DONE))
      BY ONLY <2>4, <2>6, <3>1, <3>2, CloneAddView
    <3>4. Kept(d, e)
      BY ONLY <2>7, <3>3, KeptChain
    <3>5. Ok(e) => Viewed(d, e, L + 1, t, NOT_DONE)
      <4>1. L + 1 \in 0..L + 1 /\ L + 1 \in Nat
        BY ONLY L \in Nat \ {0}
      <4>. QED
        BY ONLY <2>7, <2>9, <3>3, <4>1, ViewedChain
    <3>. QED
      BY ONLY <1>1, <1>6, <2>2, <2>3, <3>4, <3>5
  <2>. QED
    BY <2>8, <2>9
<1>. QED
  BY <1>4, <1>5, <1>6

LEMMA MergeView ==
  ASSUME NEW d, Db(d), NEW e, e = tyMerge(d)
  PROVE  /\ Kept(d, e)
         /\ d.unty => e = d
         /\ (Ok(e) /\ ~d.unty) =>
              LET L == Len(d.tyIs)
              IN  /\ L > 1 /\ Len(e.tyIs) = L - 1
                  /\ Below(View(d), View(e), L - 1)
                  /\ View(d)[L].done = NOT_DONE =>
                       tyCheck(View(d)[L - 1].tys, View(d)[L].tys, TRUE)
<1>0. {"alone", "type"} \subseteq Errors \ {"free", "incomplete"}
  BY DEF Errors
<1>1. PICK L \in Nat \ {0} : L = Len(d.tyIs)
  BY ViewFacts
<1>4. CASE ~Ok(d) \/ d.unty
  <2>1. e = d
    BY <1>4 DEF tyMerge
  <2>2. Kept(d, d) /\ (Ok(d) => d.unty)
    BY <1>4, KeptSame
  <2>. QED
    BY ONLY <2>1, <2>2
<1>5. CASE Ok(d) /\ ~d.unty /\ Len(d.tyIs) <= 1
  <2>1. e = Fail(d, "alone")
    BY <1>5 DEF tyMerge
  <2>. QED
    BY ONLY <1>0, <1>5, <2>1, FailKept, Db(d)
<1>6. CASE Ok(d) /\ ~d.unty /\ ~(Len(d.tyIs) <= 1)
  <2>1. L > 1 /\ L >= 2 /\ 1 \in 0..L - 1
    BY <1>1, <1>6
  <2>2. /\ TyDb_done(d) = View(d)[L].done
        /\ TypesOf(TyDb_top(d)) = View(d)[L].tys
        /\ TypesOf(TyDb_index(d, 1)) = View(d)[L - 1].tys
    BY <1>1, <2>1, ViewFacts
  <2>3. CASE View(d)[L].done = NOT_DONE
               /\ ~tyCheck(View(d)[L - 1].tys, View(d)[L].tys, TRUE)
    <3>1. e = Fail(d, "type")
      BY <1>6, <2>2, <2>3 DEF tyMerge
    <3>. QED
      BY ONLY <1>0, <1>6, <3>1, FailKept, Db(d)
  <2>4. CASE ~(View(d)[L].done = NOT_DONE
                 /\ ~tyCheck(View(d)[L - 1].tys, View(d)[L].tys, TRUE))
    <3>1. e = TyDb_drop(d)
      BY <1>6, <2>2, <2>4 DEF tyMerge
    <3>2. Len(d.tyIs) >= 2
      BY <1>1, <2>1
    <3>3. /\ Kept(d, e)
          /\ Ok(e) => Len(e.tyIs) = Len(d.tyIs) - 1
                        /\ Below(View(d), View(e), Len(d.tyIs) - 1)
      BY ONLY <3>1, <3>2, DropView, Db(d)
    <3>. QED
      BY ONLY <1>1, <1>6, <2>1, <2>4, <3>3
  <2>. QED
    BY <2>3, <2>4
<1>. QED
  BY <1>4, <1>5, <1>6

LEMMA NipView ==
  ASSUME NEW d, Db(d), Len(d.tyIs) >= 3, NEW e, e = TyDb_nip(d)
  PROVE  /\ Kept(d, e)
         /\ Ok(e) => Viewed(d, e, Len(d.tyIs) - 1, View(d)[Len(d.tyIs)].tys, NOT_DONE)
<1>1. PICK L \in Nat \ {0} : L = Len(d.tyIs)
  BY ViewFacts
<1>2. L >= 3 /\ L \in 1..L /\ L - 2 \in Nat \ {0} /\ (L - 1) - 1 = L - 2
  <2>1. L >= 3
    BY ONLY <1>1, Len(d.tyIs) >= 3
  <2>. QED
    BY ONLY <2>1, L \in Nat \ {0}
<1>3. PICK t \in Seq(Types) : t = View(d)[L].tys
  <2>1. View(d)[L] \in Snap
    BY <1>1, ViewFacts
  <2>. QED
    BY <2>1 DEF Snap
<1>4. PICK d1 : d1 = TyDb_drop(d)
  OBVIOUS
<1>5. PICK d2 : d2 = TyDb_drop(d1)
  OBVIOUS
<1>6. PICK d3 : d3 = TyDb_new(d2)
  OBVIOUS
<1>7. e = TyI_cloneAdd(d3, t)
  BY <1>1, <1>3, <1>4, <1>5, <1>6, ViewFacts DEF TyDb_nip
<1>8. CASE ~Ok(d)
  <2>1. Db(d) /\ d1 = d
    BY <1>4, <1>8, DropGood DEF Db
  <2>2. d2 = d1
    BY <1>5, <1>8, <2>1, DropGood DEF Db
  <2>3. e = d
    BY <1>6, <1>7, <1>8, <2>1, <2>2 DEF TyDb_new, TyI_cloneAdd
  <2>. QED
    BY ONLY <1>8, <2>1, <2>3, KeptSame
<1>9. CASE Ok(d)
  <2>1. /\ Kept(d, d1) /\ Ok(d1) /\ Db(d1) /\ Len(d1.tyIs) = L - 1
        /\ Below(View(d), View(d1), L - 1)
    <3>1. Len(d.tyIs) >= 2
      BY ONLY <1>1, <1>2
    <3>. QED
      BY ONLY <1>1, <1>4, <1>9, <3>1, DropView, Db(d) DEF Kept
  <2>2. /\ Kept(d1, d2) /\ Ok(d2) /\ Db(d2) /\ Len(d2.tyIs) = L - 2
        /\ Below(View(d1), View(d2), L - 2)
    <3>1. Len(d1.tyIs) >= 2
      BY ONLY <2>1, <1>2
    <3>. QED
      BY ONLY <1>2, <1>5, <2>1, <3>1, DropView DEF Kept
  <2>3. Below(View(d), View(d2), L - 2)
    BY <1>2, <2>1, <2>2 DEF Below
  <2>4. Kept(d2, d3) /\ (Ok(d3) => Viewed(d2, d3, (L - 2) + 1, << >>, NOT_DONE))
    BY ONLY <1>6, <2>2, NewView
  <2>5. CASE ~Ok(d3)
    <3>1. e = d3
      BY <1>7, <2>5 DEF TyI_cloneAdd
    <3>2. Kept(d, d2) /\ Kept(d, d3)
      BY ONLY <2>1, <2>2, <2>4, KeptChain
    <3>. QED
      BY ONLY <2>5, <3>1, <3>2
  <2>6. CASE Ok(d3)
    <3>1. (L - 2) + 1 = L - 1 /\ L - 1 \in Nat /\ L - 1 \in 0..L - 1
      BY ONLY <1>2, L \in Nat \ {0}
    <3>2. Viewed(d, d3, L - 1, << >>, NOT_DONE) /\ Db(d3)
      BY ONLY <1>2, <2>3, <2>4, <2>6, <3>1, ViewedPush DEF Kept
    <3>3. /\ Len(d3.tyIs) = L - 1 /\ View(d3)[L - 1].tys = << >>
          /\ View(d3)[L - 1].done = NOT_DONE
      BY ONLY <3>2 DEF Viewed
    <3>4. << >> \o t = t
      BY ONLY t \in Seq(Types), ConcatEmptySeq
    <3>5. Kept(d3, e) /\ (Ok(e) => Viewed(d3, e, L - 1, t, NOT_DONE))
      BY ONLY <1>7, <3>2, <3>3, <3>4, t \in Seq(Types), CloneAddView
    <3>6. Kept(d, d2) /\ Kept(d, d3) /\ Kept(d, e)
      BY ONLY <2>1, <2>2, <2>4, <3>5, KeptChain
    <3>7. Ok(e) => Viewed(d, e, L - 1, t, NOT_DONE)
      BY ONLY <3>1, <3>2, <3>5, ViewedChain
    <3>. QED
      BY ONLY <1>1, <1>3, <3>6, <3>7
  <2>. QED
    BY <2>5, <2>6
<1>. QED
  BY <1>8, <1>9

-----------------------------------------------------------------------------
(* What the handlers do to the database.                                   *)

LEMMA TyIfView ==
  ASSUME NEW d, Db(d), NEW is \in IfStates, NEW t, t = tyIf(d, is)
  PROVE  /\ Kept(d, t.db)
         /\ t.is \in IfStates /\ t.is.hadElse = is.hadElse
         /\ d.unty => t.db = d /\ t.is = is
         /\ (Ok(t.db) /\ ~d.unty) =>
              LET L == Len(d.tyIs)
                  v == View(d)
              IN  /\ L > 1 /\ (is.hadFull => L > 2)
                  /\ (is.hadFull /\ v[L].done = NOT_DONE) =>
                       tyCheck(v[L - 1].tys, v[L].tys, TRUE)
                  /\ is.hadFull => /\ t.is.hadFull
                                   /\ Viewed(d, t.db, L, v[L - 2].tys, NOT_DONE)
                  /\ (~is.hadFull /\ v[L].done # NOT_DONE) =>
                       /\ ~t.is.hadFull /\ t.is.done # NOT_DONE
                       /\ Viewed(d, t.db, L, v[L - 1].tys, NOT_DONE)
                  /\ (~is.hadFull /\ v[L].done = NOT_DONE) =>
                       /\ t.is.hadFull
                       /\ Viewed(d, t.db, L + 1, v[L - 1].tys, NOT_DONE)
<1>1. PICK L \in Nat \ {0} : L = Len(d.tyIs)
  BY ViewFacts
<1>2. PICK done \in HowDone : done = TyDb_done(d) /\ done = View(d)[L].done
  <2>1. View(d)[L] \in Snap /\ TyDb_done(d) = View(d)[L].done
    BY <1>1, ViewFacts
  <2>. QED
    BY <2>1 DEF Snap
<1>3. PICK both : both = IF is.done # NOT_DONE /\ is.done < done THEN is.done ELSE done
  OBVIOUS
<1>4. both \in HowDone /\ (done # NOT_DONE => both # NOT_DONE)
  BY <1>3 DEF IfStates
<1>5. CASE d.unty
  <2>1. t = [db |-> d, is |-> is]
    BY <1>5 DEF tyIf
  <2>2. t.db = d /\ t.is = is
    BY <2>1
  <2>3. Kept(d, d)
    BY KeptSame
  <2>. QED
    BY ONLY <1>5, <2>2, <2>3, is \in IfStates
<1>6. CASE ~d.unty /\ is.hadFull
  <2>1. PICK m : m = tyMerge(d)
    OBVIOUS
  <2>2. PICK e : e = tyClone(m, 1)
    OBVIOUS
  <2>3. t = [db |-> e, is |-> [is EXCEPT !.done = both]]
    BY <1>2, <1>3, <1>6, <2>1, <2>2 DEF tyIf
  <2>4. /\ t.db = e /\ t.is \in IfStates /\ t.is.hadElse = is.hadElse
        /\ t.is.hadFull = is.hadFull
    BY <1>4, <2>3 DEF IfStates
  <2>5. /\ Kept(d, m)
        /\ Ok(m) => /\ L > 1 /\ Len(m.tyIs) = L - 1
                    /\ Below(View(d), View(m), L - 1)
                    /\ View(d)[L].done = NOT_DONE =>
                         tyCheck(View(d)[L - 1].tys, View(d)[L].tys, TRUE)
    BY ONLY <1>1, <1>6, <2>1, MergeView, Db(d)
  <2>6. Db(m) /\ ~m.unty
    BY ONLY <1>6, <2>5 DEF Kept
  <2>7. /\ Kept(m, e)
        /\ Ok(e) => /\ 1 < Len(m.tyIs)
                    /\ Viewed(m, e, Len(m.tyIs) + 1, View(m)[Len(m.tyIs) - 1].tys, NOT_DONE)
    BY ONLY <2>2, <2>6, CloneView
  <2>8. Kept(d, e)
    BY ONLY <2>5, <2>7, KeptChain
  <2>9. ASSUME Ok(e)
        PROVE  L > 2 /\ Viewed(d, e, L, View(d)[L - 2].tys, NOT_DONE)
    <3>1. Ok(m)
      BY ONLY <2>7, <2>9 DEF Kept
    <3>2. L > 2 /\ L - 1 \in Nat /\ (L - 1) + 1 = L /\ (L - 1) - 1 = L - 2
      BY ONLY <2>5, <2>7, <2>9, <3>1, L \in Nat \ {0}
    <3>3. Viewed(m, e, (L - 1) + 1, View(m)[L - 2].tys, NOT_DONE)
      BY ONLY <2>5, <2>7, <2>9, <3>1, <3>2
    <3>4. View(m)[L - 2] = View(d)[L - 2]
      BY ONLY <2>5, <3>1, <3>2, L \in Nat \ {0} DEF Below
    <3>5. Viewed(d, e, (L - 1) + 1, View(m)[L - 2].tys, NOT_DONE)
      BY ONLY <2>5, <3>1, <3>2, <3>3, ViewedPush
    <3>. QED
      BY ONLY <3>2, <3>4, <3>5
  <2>10. Ok(e) => Ok(m)
    BY ONLY <2>7 DEF Kept
  <2>. QED
    BY ONLY <1>1, <1>6, <2>4, <2>5, <2>8, <2>9, <2>10
<1>7. CASE ~d.unty /\ ~is.hadFull /\ done # NOT_DONE
  <2>1. PICK m : m = tyMerge(d)
    OBVIOUS
  <2>2. PICK e : e = tyClone(m, 0)
    OBVIOUS
  <2>3. t = [db |-> e, is |-> [is EXCEPT !.done = both]]
    BY <1>2, <1>3, <1>7, <2>1, <2>2 DEF tyIf
  <2>4. /\ t.db = e /\ t.is \in IfStates /\ t.is.hadElse = is.hadElse
        /\ t.is.hadFull = is.hadFull /\ t.is.done # NOT_DONE
    BY <1>4, <1>7, <2>3 DEF IfStates
  <2>5. /\ Kept(d, m)
        /\ Ok(m) => /\ L > 1 /\ Len(m.tyIs) = L - 1
                    /\ Below(View(d), View(m), L - 1)
    BY ONLY <1>1, <1>7, <2>1, MergeView, Db(d)
  <2>6. Db(m) /\ ~m.unty
    BY ONLY <1>7, <2>5 DEF Kept
  <2>7. /\ Kept(m, e)
        /\ Ok(e) => Viewed(m, e, Len(m.tyIs) + 1, View(m)[Len(m.tyIs) - 0].tys, NOT_DONE)
    <3>1. 0 \in Nat
      OBVIOUS
    <3>. QED
      BY ONLY <2>2, <2>6, <3>1, CloneView
  <2>8. Kept(d, e)
    BY ONLY <2>5, <2>7, KeptChain
  <2>9. ASSUME Ok(e)
        PROVE  L > 1 /\ Viewed(d, e, L, View(d)[L - 1].tys, NOT_DONE)
    <3>1. Ok(m)
      BY ONLY <2>7, <2>9 DEF Kept
    <3>2. L > 1 /\ L - 1 \in Nat /\ (L - 1) + 1 = L /\ (L - 1) - 0 = L - 1
      BY ONLY <2>5, <3>1, L \in Nat \ {0}
    <3>3. Viewed(m, e, (L - 1) + 1, View(m)[L - 1].tys, NOT_DONE)
      BY ONLY <2>5, <2>7, <2>9, <3>1, <3>2
    <3>4. View(m)[L - 1] = View(d)[L - 1]
      BY ONLY <2>5, <3>1, <3>2, L \in Nat \ {0} DEF Below
    <3>5. Viewed(d, e, (L - 1) + 1, View(m)[L - 1].tys, NOT_DONE)
      BY ONLY <2>5, <3>1, <3>2, <3>3, ViewedPush
    <3>. QED
      BY ONLY <3>2, <3>4, <3>5
  <2>. QED
    BY ONLY <1>1, <1>2, <1>7, <2>4, <2>8, <2>9
<1>8. CASE ~d.unty /\ ~is.hadFull /\ done = NOT_DONE
  <2>1. PICK e : e = tyClone(d, 1)
    OBVIOUS
  <2>2. t = [db |-> e, is |-> [is EXCEPT !.hadFull = TRUE]]
    BY <1>2, <1>8, <2>1 DEF tyIf
  <2>3. /\ t.db = e /\ t.is \in IfStates /\ t.is.hadElse = is.hadElse
        /\ t.is.hadFull
    BY ONLY <2>2, is \in IfStates DEF IfStates
  <2>4. /\ Kept(d, e)
        /\ Ok(e) => /\ 1 < L
                    /\ Viewed(d, e, L + 1, View(d)[L - 1].tys, NOT_DONE)
    <3>1. 1 \in Nat
      OBVIOUS
    <3>. QED
      BY ONLY <1>1, <1>8, <2>1, <3>1, CloneView, Db(d)
  <2>. QED
    BY ONLY <1>1, <1>2, <1>8, <2>3, <2>4, L \in Nat \ {0}
<1>. QED
  BY <1>5, <1>6, <1>7, <1>8

LEMMA TyIfEndView ==
  ASSUME NEW d, Db(d), NEW is \in IfStates, NEW e, e = tyIfEnd(d, is),
         ~d.unty => Len(d.tyIs) >= 2,
         (~d.unty /\ is.hadFull) => Len(d.tyIs) >= 4
  PROVE  /\ Kept(d, e)
         /\ d.unty => e = d
         /\ (Ok(e) /\ ~d.unty) =>
              LET L == Len(d.tyIs)
                  v == View(d)
              IN  /\ is.hadFull => Viewed(d, e, L - 2, v[L - 1].tys, NOT_DONE)
                  /\ (~is.hadFull /\ is.hadElse /\ is.done # NOT_DONE) =>
                       Viewed(d, e, L - 1, v[L - 1].tys, is.done)
                  /\ (~is.hadFull /\ ~(is.hadElse /\ is.done # NOT_DONE)) =>
                       Viewed(d, e, L - 1, v[L - 1].tys, v[L - 1].done)
<1>1. PICK L \in Nat \ {0} : L = Len(d.tyIs)
  BY ViewFacts
<1>2. CASE d.unty \/ ~Ok(d)
  <2>1. e = d
    BY <1>2 DEF tyIfEnd
  <2>2. Kept(d, d) /\ (Ok(d) => d.unty)
    BY <1>2, KeptSame
  <2>. QED
    BY ONLY <2>1, <2>2
<1>3. CASE ~d.unty /\ Ok(d)
  <2>1. PICK f : f = TyDb_drop(d)
    OBVIOUS
  <2>2. L >= 2
    BY ONLY <1>1, <1>3, ~d.unty => Len(d.tyIs) >= 2
  <2>3. L - 1 \in Nat \ {0} /\ L - 1 \in 1..L - 1 /\ L - 1 \in 0..L - 1
    BY ONLY <2>2, L \in Nat \ {0}
  <2>4. /\ Kept(d, f) /\ Ok(f) /\ Db(f) /\ Len(f.tyIs) = L - 1
        /\ Below(View(d), View(f), L - 1)
    <3>1. Len(d.tyIs) >= 2
      BY ONLY <1>1, <2>2
    <3>. QED
      BY ONLY <1>1, <1>3, <2>1, <3>1, DropView, Db(d) DEF Kept
  <2>5. View(f)[L - 1] = View(d)[L - 1]
    BY ONLY <2>3, <2>4 DEF Below
  <2>6. Viewed(d, f, L - 1, View(d)[L - 1].tys, View(d)[L - 1].done)
    <3>1. Below(View(d), View(f), (L - 1) - 1)
      BY ONLY <2>3, <2>4, L \in Nat \ {0} DEF Below
    <3>. QED
      BY ONLY <2>4, <2>5, <3>1 DEF Viewed
  <2>7. CASE is.hadFull
    <3>1. e = TyDb_nip(f)
      BY <1>3, <2>1, <2>7 DEF tyIfEnd
    <3>2. L >= 4
      BY ONLY <1>1, <1>3, <2>7, (~d.unty /\ is.hadFull) => Len(d.tyIs) >= 4
    <3>3. L - 1 >= 3 /\ (L - 1) - 1 = L - 2 /\ L - 2 \in 0..L - 1
      BY ONLY <3>2, L \in Nat \ {0}
    <3>4. Len(f.tyIs) >= 3
      BY ONLY <2>4, <3>3
    <3>5. Kept(f, e) /\ (Ok(e) => Viewed(f, e, L - 2, View(d)[L - 1].tys, NOT_DONE))
      BY ONLY <2>4, <2>5, <3>1, <3>3, <3>4, NipView
    <3>6. Kept(d, e)
      BY ONLY <2>4, <3>5, KeptChain
    <3>7. Ok(e) => Viewed(d, e, L - 2, View(d)[L - 1].tys, NOT_DONE)
      BY ONLY <2>3, <2>6, <3>3, <3>5, ViewedChain
    <3>. QED
      BY ONLY <1>1, <1>3, <2>7, <3>6, <3>7
  <2>8. CASE ~is.hadFull /\ is.hadElse /\ is.done # NOT_DONE
    <3>1. e = TyDb_setDone(f, is.done)
      BY <1>3, <2>1, <2>8 DEF tyIfEnd
    <3>2. is.done \in HowDone
      BY DEF IfStates
    <3>3. Kept(f, e) /\ (Ok(e) => Viewed(f, e, L - 1, View(d)[L - 1].tys, is.done))
      BY ONLY <2>4, <2>5, <3>1, <3>2, SetDoneView
    <3>4. Kept(d, e)
      BY ONLY <2>4, <3>3, KeptChain
    <3>5. Ok(e) => Viewed(d, e, L - 1, View(d)[L - 1].tys, is.done)
      BY ONLY <2>3, <2>6, <3>3, ViewedChain
    <3>. QED
      BY ONLY <1>1, <1>3, <2>8, <3>4, <3>5
  <2>9. CASE ~is.hadFull /\ ~(is.hadElse /\ is.done # NOT_DONE)
    <3>1. e = f
      BY <1>3, <2>1, <2>9 DEF tyIfEnd
    <3>. QED
      BY ONLY <1>1, <1>3, <2>4, <2>6, <2>9, <3>1
  <2>. QED
    BY <2>7, <2>8, <2>9
<1>. QED
  BY <1>2, <1>3

(* What is left of tys when ins is done.                                   *)
After(ins, tys) == SubSeq(tys, 1, Len(tys) - Len(ins.inp)) \o ins.out

LEMMA AfterNothing ==
  ASSUME NEW tys \in Seq(Types), NEW ins, ins.inp = << >>, ins.out = << >>
  PROVE  After(ins, tys) = tys
<1>1. PICK l \in Nat : l = Len(tys)
  OBVIOUS
<1>2. Len(ins.inp) = 0 /\ l - 0 = l /\ l \in 0..Len(tys)
  BY <1>1
<1>3. SubSeq(tys, 1, l) \in Seq(Types) /\ Len(SubSeq(tys, 1, l)) = Len(tys)
      /\ \A j \in 1..Len(tys) : SubSeq(tys, 1, l)[j] = tys[j]
  BY <1>1, <1>2, PrefixFacts
<1>4. SubSeq(tys, 1, l) = tys
  BY ONLY <1>3, tys \in Seq(Types), SeqEqual
<1>5. tys \o << >> = tys
  BY ONLY tys \in Seq(Types), ConcatEmptySeq
<1>. QED
  BY <1>1, <1>2, <1>4, <1>5 DEF After

LEMMA TyContView ==
  ASSUME NEW d, Db(d), NEW op \in {"JL", "JLNZ"}, NEW to, NEW e, e = tyCont(d, op)
  PROVE  /\ Kept(d, e)
         /\ d.unty => e = d
         /\ (Ok(e) /\ ~d.unty) =>
              LET L == Len(d.tyIs)
                  t == View(d)[L].tys
                  a == After(Jump(op, to), t)
              IN  /\ View(d)[L].done = NOT_DONE
                  /\ tyCheck(Jump(op, to).inp, t, FALSE)
                  /\ tyCheck(HeadBlk.startTyI, a, TRUE)
                  /\ Viewed(d, e, L, a, IF op = "JL" THEN BLK_DONE ELSE NOT_DONE)
<1>0. {"done", "type"} \subseteq Errors \ {"free", "incomplete"}
  BY DEF Errors
<1>1. PICK L \in Nat \ {0} : L = Len(d.tyIs)
  BY ViewFacts
<1>2. PICK t \in Seq(Types) : t = View(d)[L].tys
  <2>1. View(d)[L] \in Snap
    BY <1>1, ViewFacts
  <2>. QED
    BY <2>1 DEF Snap
<1>3. CASE d.unty
  <2>1. e = d
    BY <1>3 DEF tyCont
  <2>2. Kept(d, d)
    BY KeptSame
  <2>. QED
    BY ONLY <1>3, <2>1, <2>2
<1>4. CASE ~d.unty
  <2>. DEFINE c0 == TyDb_done(d) = NOT_DONE
  <2>1. PICK d0 : d0 = Require(d, c0, "done")
    OBVIOUS
  <2>2. PICK d1 : d1 = IF op = "JL" THEN d0 ELSE tyCall(d0, <<S>>, << >>)
    OBVIOUS
  <2>. DEFINE c2 == tyCheck(HeadBlk.startTyI, TypesOf(TyDb_top(d1)), TRUE)
  <2>3. PICK d2 : d2 = Require(d1, c2, "type")
    OBVIOUS
  <2>4. e = IF op = "JL" THEN TyDb_setDone(d2, BLK_DONE) ELSE d2
    BY <1>4, <2>1, <2>2, <2>3 DEF tyCont
  <2>5. Kept(d, d0) /\ (Ok(d0) => d0 = d /\ View(d)[L].done = NOT_DONE)
    <3>1. c0 => View(d)[L].done = NOT_DONE
      BY <1>1, ViewFacts
    <3>. HIDE DEF c0
    <3>. QED
      BY ONLY <1>0, <2>1, <3>1, RequireKept, Db(d)
  <2>6. Db(d0) /\ ~d0.unty
    BY ONLY <1>4, <2>5 DEF Kept
  <2>7. /\ <<S>> \in Seq(Types) /\ << >> \in Seq(Types)
        /\ Jump(op, to).inp = IF op = "JL" THEN << >> ELSE <<S>>
        /\ Jump(op, to).out = << >>
    <3>1. S \in Types
      BY SAssumption
    <3>2. <<S>> \in Seq(Types) /\ << >> \in Seq(Types)
      BY ONLY <3>1
    <3>. QED
      BY ONLY <3>2 DEF Jump, Instr
  <2>8. PICK a : a = After(Jump(op, to), t)
    OBVIOUS
  <2>9. /\ Kept(d0, d1)
        /\ Ok(d1) => /\ tyCheck(Jump(op, to).inp, t, FALSE)
                     /\ Viewed(d, d1, L, a, NOT_DONE)
    <3>1. CASE op = "JL"
      <4>1. d1 = d0
        BY ONLY <2>2, <3>1
      <4>2. a = t
        BY ONLY <2>7, <2>8, <3>1, t \in Seq(Types), AfterNothing
      <4>3. tyCheck(<< >>, t, FALSE)
        BY DEF tyCheck
      <4>4. ASSUME Ok(d1) PROVE Viewed(d, d1, L, a, NOT_DONE)
        BY ONLY <1>1, <1>2, <2>5, <4>1, <4>2, <4>4 DEF Viewed, Below
      <4>. QED
        BY ONLY <2>6, <2>7, <3>1, <4>1, <4>3, <4>4, KeptSame
    <3>2. CASE op # "JL"
      <4>1. d1 = tyCall(d0, <<S>>, << >>)
        BY ONLY <2>2, <3>2
      <4>2. Kept(d0, d1)
        BY ONLY <2>6, <2>7, <4>1, CallView
      <4>3. ASSUME Ok(d1)
            PROVE  tyCheck(<<S>>, t, FALSE) /\ Viewed(d, d1, L, a, NOT_DONE)
        <5>1. d0 = d /\ View(d)[L].done = NOT_DONE
          BY ONLY <2>5, <4>2, <4>3 DEF Kept
        <5>2. /\ tyCheck(<<S>>, t, FALSE)
              /\ Viewed(d, d1, L, SubSeq(t, 1, Len(t) - Len(<<S>>)) \o << >>, NOT_DONE)
          BY ONLY <1>1, <1>2, <1>4, <2>7, <4>1, <4>3, <5>1, Db(d), CallView
        <5>3. a = SubSeq(t, 1, Len(t) - Len(<<S>>)) \o << >>
          BY ONLY <2>7, <2>8, <3>2 DEF After
        <5>. QED
          BY ONLY <5>2, <5>3
      <4>. QED
        BY ONLY <2>7, <3>2, <4>2, <4>3
    <3>. QED
      BY <3>1, <3>2
  <2>10. Db(d1)
    BY ONLY <2>9 DEF Kept
  <2>11. Kept(d1, d2) /\ (Ok(d2) => c2 /\ d2 = d1)
    <3>. HIDE DEF c2
    <3>. QED
      BY ONLY <1>0, <2>3, <2>10, RequireKept
  <2>12. Kept(d, d2) /\ Db(d2)
    <3>1. Kept(d, d1)
      BY ONLY <2>5, <2>9, KeptChain
    <3>2. Kept(d, d2)
      BY ONLY <2>11, <3>1, KeptChain
    <3>. QED
      BY ONLY <3>2 DEF Kept
  <2>13. Kept(d2, e) /\ (Ok(e) => Ok(d2))
    <3>1. BLK_DONE \in HowDone
      BY DEF HowDone
    <3>2. Kept(d2, TyDb_setDone(d2, BLK_DONE)) /\ Kept(d2, d2)
      BY ONLY <2>12, <3>1, SetDoneView, KeptSame
    <3>. QED
      BY ONLY <2>4, <3>2 DEF Kept
  <2>14. Kept(d, e)
    BY ONLY <2>12, <2>13, KeptChain
  <2>15. ASSUME Ok(e)
         PROVE  /\ View(d)[L].done = NOT_DONE
                /\ tyCheck(Jump(op, to).inp, t, FALSE)
                /\ tyCheck(HeadBlk.startTyI, a, TRUE)
                /\ Viewed(d, e, L, a, IF op = "JL" THEN BLK_DONE ELSE NOT_DONE)
    <3>1. Ok(d2) /\ d2 = d1 /\ c2 /\ Ok(d1)
      BY ONLY <2>11, <2>13, <2>15
    <3>2. tyCheck(Jump(op, to).inp, t, FALSE) /\ Viewed(d, d1, L, a, NOT_DONE)
      BY ONLY <2>9, <3>1
    <3>3. View(d)[L].done = NOT_DONE
      BY ONLY <2>5, <2>9, <3>1 DEF Kept
    <3>4. Len(d1.tyIs) = L /\ View(d1)[L].tys = a /\ View(d1)[L].done = NOT_DONE
      BY ONLY <3>2 DEF Viewed
    <3>5. TypesOf(TyDb_top(d1)) = a
      BY ONLY <2>10, <3>4, ViewFacts
    <3>6. tyCheck(HeadBlk.startTyI, a, TRUE)
      BY ONLY <3>1, <3>5
    <3>7. CASE op = "JL"
      <4>1. e = TyDb_setDone(d1, BLK_DONE) /\ BLK_DONE \in HowDone
        BY <2>4, <3>1, <3>7 DEF HowDone
      <4>2. Viewed(d1, e, L, a, BLK_DONE)
        BY ONLY <2>10, <2>15, <3>4, <4>1, SetDoneView
      <4>3. L \in 0..L /\ L \in Nat
        BY ONLY L \in Nat \ {0}
      <4>4. Viewed(d, e, L, a, BLK_DONE)
        BY ONLY <3>2, <4>2, <4>3, ViewedChain
      <4>. QED
        BY ONLY <3>2, <3>3, <3>6, <3>7, <4>4
    <3>8. CASE op # "JL"
      BY ONLY <2>4, <3>1, <3>2, <3>3, <3>6, <3>8
    <3>. QED
      BY <3>7, <3>8
  <2>. QED
    BY ONLY <1>1, <1>2, <1>4, <2>8, <2>14, <2>15
<1>. QED
  BY <1>3, <1>4

LEMMA TyBreakView ==
  ASSUME NEW d, Db(d), NEW t, t = tyBreak(d)
  PROVE  /\ Kept(d, t.db)
         /\ d.unty => t.db = d
         /\ Ok(t.db) => Ok(d)
         /\ (Ok(t.db) /\ ~d.unty) =>
              LET L == Len(d.tyIs)
              IN  /\ View(d)[L].done = NOT_DONE
                  /\ Viewed(d, t.db, L, View(d)[L].tys, BLK_DONE)
         /\ \/ t.blks = blks
            \/ t.blks = [blks EXCEPT ![Len(blks)].endTyI =
                           IF HeadBlk.endTyI = << >> THEN View(d)[Len(d.tyIs)].tys
                           ELSE HeadBlk.endTyI]
<1>0. {"done", "type"} \subseteq Errors \ {"free", "incomplete"}
  BY DEF Errors
<1>1. PICK L \in Nat \ {0} : L = Len(d.tyIs)
  BY ViewFacts
<1>2. TypesOf(TyDb_top(d)) = View(d)[L].tys /\ TyDb_done(d) = View(d)[L].done
  BY <1>1, ViewFacts
<1>3. CASE d.unty \/ ~Ok(d)
  <2>1. t = [db |-> d, blks |-> blks]
    BY <1>3 DEF tyBreak
  <2>2. t.db = d /\ t.blks = blks
    BY ONLY <2>1
  <2>3. Kept(d, d) /\ (Ok(d) => d.unty)
    BY <1>3, KeptSame
  <2>. QED
    BY ONLY <2>2, <2>3
<1>4. CASE ~d.unty /\ Ok(d)
  <2>. DEFINE c0 == TyDb_done(d) = NOT_DONE
              tys == TypesOf(TyDb_top(d))
              c1 == HeadBlk.endTyI = << >> \/ tyCheck(HeadBlk.endTyI, tys, TRUE)
  <2>1. PICK d0 : d0 = Require(d, c0, "done")
    OBVIOUS
  <2>2. PICK d1 : d1 = Require(d0, c1, "type")
    OBVIOUS
  <2>3. PICK e : e = TyDb_setDone(d1, BLK_DONE)
    OBVIOUS
  <2>4. t = [db |-> e, blks |-> [blks EXCEPT ![Len(blks)].endTyI =
               IF HeadBlk.endTyI = << >> THEN tys ELSE HeadBlk.endTyI]]
    BY <1>4, <2>1, <2>2, <2>3 DEF tyBreak
  <2>5. t.db = e /\ t.blks = [blks EXCEPT ![Len(blks)].endTyI =
               IF HeadBlk.endTyI = << >> THEN tys ELSE HeadBlk.endTyI]
    BY ONLY <2>4
  <2>6. Kept(d, d0) /\ (Ok(d0) => d0 = d)
    <3>. HIDE DEF c0
    <3>. QED
      BY ONLY <1>0, <2>1, RequireKept, Db(d)
  <2>7. Db(d0)
    BY ONLY <2>6 DEF Kept
  <2>8. Kept(d0, d1) /\ (Ok(d1) => d1 = d0)
    <3>. HIDE DEF c1
    <3>. QED
      BY ONLY <1>0, <2>2, <2>7, RequireKept
  <2>9. Db(d1) /\ BLK_DONE \in HowDone
    BY <2>8 DEF Kept, HowDone
  <2>10. /\ Kept(d1, e)
         /\ Ok(e) => /\ View(d1)[Len(d1.tyIs)].done = NOT_DONE
                     /\ Viewed(d1, e, Len(d1.tyIs), View(d1)[Len(d1.tyIs)].tys, BLK_DONE)
    BY ONLY <2>3, <2>9, SetDoneView
  <2>11. Kept(d, d1) /\ Kept(d, e)
    BY ONLY <2>6, <2>8, <2>10, KeptChain
  <2>12. Ok(e) => d1 = d
    BY ONLY <2>6, <2>8, <2>10 DEF Kept
  <2>. QED
    BY ONLY <1>1, <1>2, <1>4, <2>5, <2>10, <2>11, <2>12
<1>. QED
  BY <1>3, <1>4

(* The condition of an if: it takes an S off the stack.                    *)
Condition == Jump("JLZ", 0)

LEMMA ConditionFacts ==
  /\ Condition.inp = <<S>> /\ Condition.out = << >>
  /\ Condition.op = "JLZ" /\ Condition.to = 0
  /\ <<S>> \in Seq(Types) /\ << >> \in Seq(Types)
<1>1. S \in Types
  BY SAssumption
<1>. QED
  BY <1>1 DEF Condition, Jump, Instr

LEMMA ConditionView ==
  ASSUME NEW d, Db(d), NEW e, e = tyCall(d, <<S>>, << >>)
  PROVE  /\ Kept(d, e)
         /\ d.unty => e = d
         /\ (Ok(e) /\ ~d.unty) =>
              LET L == Len(d.tyIs)
                  t == View(d)[L].tys
              IN  /\ View(d)[L].done = NOT_DONE
                  /\ tyCheck(<<S>>, t, FALSE)
                  /\ Viewed(d, e, L, After(Condition, t), NOT_DONE)
<1>1. PICK L : L = Len(d.tyIs)
  OBVIOUS
<1>2. PICK t : t = View(d)[L].tys
  OBVIOUS
<1>0. <<S>> \in Seq(Types) /\ << >> \in Seq(Types)
  BY ConditionFacts
<1>3. Kept(d, e)
  BY ONLY <1>0, CallView, Db(d), e = tyCall(d, <<S>>, << >>)
<1>7. d.unty => e = d
  BY DEF tyCall
<1>4. ASSUME Ok(e), ~d.unty
      PROVE  /\ View(d)[L].done = NOT_DONE \/ (<<S>> = << >> /\ << >> = << >>)
             /\ tyCheck(<<S>>, t, FALSE)
             /\ Viewed(d, e, L, SubSeq(t, 1, Len(t) - Len(<<S>>)) \o << >>,
                       View(d)[L].done)
  BY ONLY <1>0, <1>1, <1>2, <1>4, CallView, Db(d), e = tyCall(d, <<S>>, << >>)
<1>5. After(Condition, t) = SubSeq(t, 1, Len(t) - Len(<<S>>)) \o << >>
  BY ConditionFacts DEF After
<1>6. <<S>> # << >>
  OBVIOUS
<1>. QED
  BY ONLY <1>1, <1>2, <1>3, <1>4, <1>5, <1>6, <1>7

LEMMA IfView ==
  ASSUME NEW d, Db(d), NEW cond, NEW e,
         e = tyClone(Require(tyCall(d, <<S>>, << >>), cond, "done"), 0)
  PROVE  /\ Kept(d, e)
         /\ d.unty => (Ok(e) => e = d)
         /\ (Ok(e) /\ ~d.unty) =>
              LET L == Len(d.tyIs)
                  a == After(Condition, View(d)[L].tys)
              IN  /\ View(d)[L].done = NOT_DONE
                  /\ tyCheck(<<S>>, View(d)[L].tys, FALSE)
                  /\ Len(e.tyIs) = L + 1
                  /\ Below(View(d), View(e), L - 1)
                  /\ View(e)[L].tys = a /\ View(e)[L].done = NOT_DONE
                  /\ View(e)[L + 1].tys = a /\ View(e)[L + 1].done = NOT_DONE
<1>0. "done" \in Errors \ {"free", "incomplete"} /\ 0 \in Nat
  BY DEF Errors
<1>1. PICK d0 : d0 = tyCall(d, <<S>>, << >>)
  OBVIOUS
<1>2. PICK d1 : d1 = Require(d0, cond, "done")
  OBVIOUS
<1>3. e = tyClone(d1, 0)
  BY <1>1, <1>2
<1>4. PICK L \in Nat \ {0} : L = Len(d.tyIs)
  BY ViewFacts
<1>5. PICK a : a = After(Condition, View(d)[L].tys)
  OBVIOUS
<1>6. /\ Kept(d, d0) /\ (d.unty => d0 = d)
      /\ (Ok(d0) /\ ~d.unty) => /\ View(d)[L].done = NOT_DONE
                                /\ tyCheck(<<S>>, View(d)[L].tys, FALSE)
                                /\ Viewed(d, d0, L, a, NOT_DONE)
  BY ONLY <1>1, <1>4, <1>5, ConditionView, Db(d)
<1>7. Db(d0) /\ d0.unty = d.unty
  BY ONLY <1>6 DEF Kept
<1>8. Kept(d0, d1) /\ (Ok(d1) => d1 = d0)
  BY ONLY <1>0, <1>2, <1>7, RequireKept
<1>9. Db(d1) /\ d1.unty = d.unty
  BY ONLY <1>7, <1>8 DEF Kept
<1>10. /\ Kept(d1, e) /\ (d1.unty => e = d1)
       /\ (Ok(e) /\ ~d1.unty) => Viewed(d1, e, Len(d1.tyIs) + 1,
                                        View(d1)[Len(d1.tyIs) - 0].tys, NOT_DONE)
  BY ONLY <1>0, <1>3, <1>9, CloneView
<1>11. Kept(d, d1) /\ Kept(d, e)
  BY ONLY <1>6, <1>8, <1>10, KeptChain
<1>12. Ok(e) => Ok(d1) /\ d1 = d0
  BY ONLY <1>8, <1>10 DEF Kept
<1>13. ASSUME Ok(e), ~d.unty
       PROVE  /\ View(d)[L].done = NOT_DONE
              /\ tyCheck(<<S>>, View(d)[L].tys, FALSE)
              /\ Len(e.tyIs) = L + 1
              /\ Below(View(d), View(e), L - 1)
              /\ View(e)[L].tys = a /\ View(e)[L].done = NOT_DONE
              /\ View(e)[L + 1].tys = a /\ View(e)[L + 1].done = NOT_DONE
  <2>1. /\ View(d)[L].done = NOT_DONE
        /\ tyCheck(<<S>>, View(d)[L].tys, FALSE)
        /\ Viewed(d, d1, L, a, NOT_DONE)
    BY ONLY <1>6, <1>12, <1>13
  <2>2. Len(d1.tyIs) = L /\ View(d1)[L].tys = a /\ View(d1)[L].done = NOT_DONE
        /\ Below(View(d), View(d1), L - 1)
    BY ONLY <2>1 DEF Viewed
  <2>3. Viewed(d1, e, L + 1, a, NOT_DONE)
    <3>1. L - 0 = L
      BY ONLY L \in Nat \ {0}
    <3>. QED
      BY ONLY <1>9, <1>10, <1>13, <2>2, <3>1
  <2>4. Len(e.tyIs) = L + 1 /\ Below(View(d1), View(e), (L + 1) - 1)
        /\ View(e)[L + 1].tys = a /\ View(e)[L + 1].done = NOT_DONE
    BY ONLY <2>3 DEF Viewed
  <2>5. View(e)[L] = View(d1)[L] /\ Below(View(d), View(e), L - 1)
    BY ONLY <2>2, <2>4, L \in Nat \ {0} DEF Below
  <2>. QED
    BY ONLY <2>1, <2>2, <2>4, <2>5
<1>. QED
  BY ONLY <1>4, <1>5, <1>6, <1>9, <1>10, <1>11, <1>12, <1>13

-----------------------------------------------------------------------------
(* The stack of the handlers.                                              *)

(* The function's own handler is the first one, and no other is its kind.  *)
Handlers(k) ==
  k \in Seq(Frames) /\ k # << >> /\ \A i \in 1..Len(k) : k[i].kind = "fn" <=> i = 1

LEMMA HandlersFacts ==
  ASSUME NEW k, Handlers(k)
  PROVE  /\ Len(k) \in Nat \ {0} /\ Len(k) \in 1..Len(k)
         /\ \A i \in 1..Len(k) : k[i] \in Frames
         /\ \A i \in 0..Len(k) : Snapshots(k)[i] \in Nat \ {0}
         /\ \A i \in 1..Len(k) : Snapshots(k)[i] = Snapshots(k)[i - 1] + SnapshotsOf(k[i])
         /\ \A i \in 1..Len(k) : SnapshotsOf(k[i]) \in 0..3
         /\ Snapshots(k)[0] = 1 /\ Snapshots(k)[1] = 2
         /\ \A i \in 1..Len(k) : Snapshots(k)[i] >= 2
<1>1. k \in Seq(Frames) /\ k # << >>
  BY DEF Handlers
<1>2. Len(k) \in Nat \ {0}
  BY <1>1, EmptySeq
<1>3. PICK n \in Nat \ {0} : n = Len(k)
  BY <1>2
<1>4. \A i \in 1..n : k[i] \in Frames
  BY <1>1, <1>3, ElementOfSeq
<1>5. \A i \in 1..n : SnapshotsOf(k[i]) \in 0..3
  BY <1>4, SnapshotsOfFrame
<1>6. /\ Snapshots(k)[0] = 1
      /\ \A i \in 1..n : Snapshots(k)[i] = Snapshots(k)[i - 1] + SnapshotsOf(k[i])
      /\ \A i \in 0..n : Snapshots(k)[i] \in Nat \ {0}
  BY <1>1, <1>3, SnapshotsDefined
<1>7. Snapshots(k)[1] = 2
  <2>1. 1 \in 1..n /\ k[1].kind = "fn" /\ 1 - 1 = 0
    BY <1>3 DEF Handlers
  <2>2. SnapshotsOf(k[1]) = 1
    BY <2>1 DEF SnapshotsOf
  <2>. QED
    BY ONLY <1>6, <2>1, <2>2
<1>8. \A i \in 1..n : Snapshots(k)[i] >= 2
  <2>. DEFINE T == {i \in 0..n : i > 0 => Snapshots(k)[i] >= 2}
  <2>1. 0 \in T
    OBVIOUS
  <2>2. \A i \in 0..n - 1 : i \in T => i + 1 \in T
    <3>1. TAKE i \in 0..n - 1
    <3>2. HAVE i \in T
    <3>3. i + 1 \in 1..n /\ (i + 1) - 1 = i /\ i \in 0..n
      OBVIOUS
    <3>4. Snapshots(k)[i + 1] = Snapshots(k)[i] + SnapshotsOf(k[i + 1])
      BY <1>6, <3>3
    <3>5. CASE i = 0
      BY <1>7, <3>3, <3>5
    <3>6. CASE i > 0
      BY <1>5, <1>6, <3>2, <3>3, <3>4, <3>6
    <3>. QED
      BY <3>5, <3>6
  <2>3. 0..n \subseteq T
    <3>. HIDE DEF T
    <3>. QED
      BY <2>1, <2>2, SetInductionUpTo
  <2>. QED
    BY <2>3
<1>. QED
  BY ONLY <1>2, <1>3, <1>4, <1>5, <1>6, <1>7, <1>8

(* How many snapshots all of the handlers have.                            *)
Total(k) == Snapshots(k)[Len(k)]

(* The first n handlers of k are those of l too, with their snapshots.     *)
SameHandlers(k, l, n) ==
  /\ \A i \in 1..n : l[i] = k[i]
  /\ \A i \in 0..n : Snapshots(l)[i] = Snapshots(k)[i]

(* The handler that waits for the next token changes.                      *)
LEMMA ReplaceSnapshots ==
  ASSUME NEW k, Handlers(k), NEW f \in Frames, f.kind # "fn", k[Len(k)].kind # "fn",
         NEW l, l = [k EXCEPT ![Len(k)] = f]
  PROVE  /\ Handlers(l) /\ Len(l) = Len(k) /\ l[Len(k)] = f /\ Len(k) >= 2
         /\ SameHandlers(k, l, Len(k) - 1)
<1>1. PICK n \in Nat \ {0} : n = Len(k)
  BY HandlersFacts
<1>2. k \in Seq(Frames)
  BY DEF Handlers
<1>3. l \in Seq(Frames) /\ Len(l) = n /\ \A i \in 1..n : i # n => l[i] = k[i]
  BY <1>1, <1>2, ExceptSeq
<1>4. l[n] = f
  <2>1. n \in DOMAIN k
    BY <1>1, <1>2
  <2>. QED
    BY <1>1, <2>1
<1>5. n \in 1..n /\ n >= 2
  BY <1>1 DEF Handlers
<1>6. \A i \in 1..n - 1 : l[i] = k[i] /\ i \in 1..n
  BY ONLY <1>3, n \in Nat \ {0}
<1>7. Handlers(l)
  <2>1. l # << >>
    BY <1>3, <1>5
  <2>2. \A i \in 1..n : l[i].kind = "fn" <=> i = 1
    BY <1>1, <1>4, <1>5, <1>6 DEF Handlers
  <2>. QED
    BY <1>3, <2>1, <2>2 DEF Handlers
<1>8. \A i \in 0..n - 1 : Snapshots(l)[i] = Snapshots(k)[i]
  <2>1. n - 1 \in Nat /\ n - 1 <= Len(k) /\ n - 1 <= Len(l)
    BY ONLY <1>1, <1>3, n \in Nat \ {0}
  <2>. QED
    BY ONLY <1>2, <1>3, <1>6, <2>1, SnapshotsAgree
<1>. QED
  BY ONLY <1>1, <1>3, <1>4, <1>5, <1>6, <1>7, <1>8 DEF SameHandlers

LEMMA ReplaceTotal ==
  ASSUME NEW k, Handlers(k), NEW f \in Frames, f.kind # "fn", k[Len(k)].kind # "fn",
         NEW l, l = [k EXCEPT ![Len(k)] = f]
  PROVE  Total(l) = (Total(k) - SnapshotsOf(k[Len(k)])) + SnapshotsOf(f)
<1>1. PICK n \in Nat \ {0} : n = Len(k)
  BY HandlersFacts
<1>2. /\ Handlers(l) /\ Len(l) = n /\ l[n] = f
      /\ SameHandlers(k, l, n - 1)
  BY <1>1, ReplaceSnapshots
<1>3. n \in 1..n /\ n - 1 \in 0..n /\ n - 1 \in 0..n - 1
  BY ONLY n \in Nat \ {0}
<1>4. Snapshots(l)[n] = Snapshots(l)[n - 1] + SnapshotsOf(l[n])
  BY ONLY <1>2, <1>3, HandlersFacts
<1>5. /\ Snapshots(k)[n] = Snapshots(k)[n - 1] + SnapshotsOf(k[n])
      /\ Snapshots(k)[n - 1] \in Nat /\ SnapshotsOf(k[n]) \in 0..3
  BY ONLY <1>1, <1>3, Handlers(k), HandlersFacts
<1>6. SnapshotsOf(f) \in 0..3
  BY SnapshotsOfFrame
<1>7. Snapshots(l)[n - 1] = Snapshots(k)[n - 1]
  BY ONLY <1>2, <1>3 DEF SameHandlers
<1>. QED
  BY ONLY <1>1, <1>2, <1>4, <1>5, <1>6, <1>7 DEF Total

(* One more handler starts.                                                *)
LEMMA AppendSnapshots ==
  ASSUME NEW k, Handlers(k), NEW f \in Frames, f.kind # "fn",
         NEW l, l = Append(k, f)
  PROVE  /\ Handlers(l) /\ Len(l) = Len(k) + 1 /\ l[Len(k) + 1] = f
         /\ SameHandlers(k, l, Len(k))
<1>1. PICK n \in Nat \ {0} : n = Len(k)
  BY HandlersFacts
<1>2. k \in Seq(Frames)
  BY DEF Handlers
<1>3. /\ l \in Seq(Frames) /\ Len(l) = n + 1 /\ l[n + 1] = f
      /\ \A i \in 1..n : l[i] = k[i]
  BY <1>1, <1>2, AppendProperties
<1>4. Handlers(l)
  <2>1. l # << >>
    BY <1>3
  <2>2. \A i \in 1..n + 1 : l[i].kind = "fn" <=> i = 1
    <3>1. TAKE i \in 1..n + 1
    <3>2. CASE i = n + 1
      BY <1>3, <3>2
    <3>3. CASE i # n + 1
      <4>1. i \in 1..n
        BY <3>3
      <4>2. k[i].kind = "fn" <=> i = 1
        BY <1>1, <4>1 DEF Handlers
      <4>. QED
        BY <1>3, <4>1, <4>2
    <3>. QED
      BY <3>2, <3>3
  <2>. QED
    BY <1>3, <2>1, <2>2 DEF Handlers
<1>5. \A i \in 0..n : Snapshots(l)[i] = Snapshots(k)[i]
  <2>1. n \in Nat /\ n <= Len(k) /\ n <= Len(l)
    BY ONLY <1>1, <1>3, n \in Nat \ {0}
  <2>. QED
    BY ONLY <1>2, <1>3, <2>1, SnapshotsAgree
<1>. QED
  BY ONLY <1>1, <1>3, <1>4, <1>5 DEF SameHandlers

LEMMA AppendTotal ==
  ASSUME NEW k, Handlers(k), NEW f \in Frames, f.kind # "fn",
         NEW l, l = Append(k, f)
  PROVE  Total(l) = Total(k) + SnapshotsOf(f)
<1>1. PICK n \in Nat \ {0} : n = Len(k)
  BY HandlersFacts
<1>2. /\ Handlers(l) /\ Len(l) = n + 1 /\ l[n + 1] = f
      /\ SameHandlers(k, l, n)
  BY <1>1, AppendSnapshots
<1>3. Snapshots(l)[n + 1] = Snapshots(l)[n] + SnapshotsOf(l[n + 1])
  <2>1. n + 1 \in 1..Len(l) /\ (n + 1) - 1 = n
    BY ONLY <1>2, n \in Nat \ {0}
  <2>. QED
    BY ONLY <1>2, <2>1, HandlersFacts
<1>4. Snapshots(l)[n] = Snapshots(k)[n]
  BY ONLY <1>2, n \in Nat \ {0} DEF SameHandlers
<1>. QED
  BY ONLY <1>1, <1>2, <1>3, <1>4 DEF Total

(* The last handler is done.                                               *)
LEMMA PopSnapshots ==
  ASSUME NEW k, Handlers(k), k[Len(k)].kind # "fn",
         NEW l, l = SubSeq(k, 1, Len(k) - 1)
  PROVE  /\ Handlers(l) /\ Len(l) = Len(k) - 1 /\ Len(k) >= 2
         /\ SameHandlers(k, l, Len(k) - 1)
<1>1. PICK n \in Nat \ {0} : n = Len(k)
  BY HandlersFacts
<1>2. k \in Seq(Frames)
  BY DEF Handlers
<1>3. n \in 1..n /\ n >= 2
  BY <1>1 DEF Handlers
<1>4. /\ l \in Seq(Frames) /\ Len(l) = n - 1
      /\ \A i \in 1..n - 1 : l[i] = k[i]
  <2>1. n - 1 \in 0..Len(k)
    BY ONLY <1>1, n \in Nat \ {0}
  <2>2. l = SubSeq(k, 1, n - 1)
    BY ONLY <1>1, l = SubSeq(k, 1, Len(k) - 1)
  <2>. QED
    BY ONLY <1>2, <2>1, <2>2, PrefixFacts
<1>5. Handlers(l)
  <2>1. l # << >>
    BY <1>3, <1>4, SMTT(30)
  <2>2. \A i \in 1..n - 1 : l[i].kind = "fn" <=> i = 1
    <3>1. TAKE i \in 1..n - 1
    <3>2. i \in 1..n
      OBVIOUS
    <3>3. k[i].kind = "fn" <=> i = 1
      BY <1>1, <3>2 DEF Handlers
    <3>. QED
      BY <1>4, <3>3
  <2>. QED
    BY <1>4, <2>1, <2>2 DEF Handlers
<1>6. \A i \in 0..n - 1 : Snapshots(l)[i] = Snapshots(k)[i]
  <2>1. n - 1 \in Nat /\ n - 1 <= Len(k) /\ n - 1 <= Len(l)
    BY ONLY <1>1, <1>4, n \in Nat \ {0}
  <2>. QED
    BY ONLY <1>2, <1>4, <2>1, SnapshotsAgree
<1>. QED
  BY ONLY <1>1, <1>3, <1>4, <1>5, <1>6 DEF SameHandlers

LEMMA PopTotal ==
  ASSUME NEW k, Handlers(k), k[Len(k)].kind # "fn",
         NEW l, l = SubSeq(k, 1, Len(k) - 1)
  PROVE  Total(l) = Total(k) - SnapshotsOf(k[Len(k)])
<1>1. PICK n \in Nat \ {0} : n = Len(k)
  BY HandlersFacts
<1>2. /\ Handlers(l) /\ Len(l) = n - 1
      /\ SameHandlers(k, l, n - 1)
  BY <1>1, PopSnapshots
<1>3. n \in 1..n /\ n - 1 \in 0..n /\ n - 1 \in 0..n - 1
  BY ONLY n \in Nat \ {0}
<1>5. /\ Snapshots(k)[n] = Snapshots(k)[n - 1] + SnapshotsOf(k[n])
      /\ Snapshots(k)[n - 1] \in Nat /\ SnapshotsOf(k[n]) \in 0..3
  BY ONLY <1>1, <1>3, Handlers(k), HandlersFacts
<1>7. Snapshots(l)[n - 1] = Snapshots(k)[n - 1]
  BY ONLY <1>2, <1>3 DEF SameHandlers
<1>. QED
  BY ONLY <1>1, <1>2, <1>5, <1>7 DEF Total

(* What the total of the handlers says of the last of them.                *)
LEMMA TotalFacts ==
  ASSUME NEW k, Handlers(k)
  PROVE  /\ Total(k) \in Nat /\ Total(k) >= 2
         /\ Total(k) - SnapshotsOf(k[Len(k)]) >= 1
         /\ k[Len(k)].kind # "fn" => Total(k) - SnapshotsOf(k[Len(k)]) >= 2
         /\ k[Len(k)].kind = "fn" => Len(k) = 1 /\ Total(k) = 2
<1>1. PICK n \in Nat \ {0} : n = Len(k)
  BY HandlersFacts
<1>2. n \in 1..n /\ n - 1 \in 0..n
  BY ONLY n \in Nat \ {0}
<1>3. /\ Snapshots(k)[n] = Snapshots(k)[n - 1] + SnapshotsOf(k[n])
      /\ Snapshots(k)[n - 1] \in Nat \ {0} /\ SnapshotsOf(k[n]) \in 0..3
      /\ Snapshots(k)[n] >= 2 /\ Snapshots(k)[1] = 2
      /\ \A i \in 1..n : Snapshots(k)[i] >= 2
  BY ONLY <1>1, <1>2, Handlers(k), HandlersFacts
<1>4. k[n].kind = "fn" <=> n = 1
  BY <1>1, <1>2 DEF Handlers
<1>5. n # 1 => Snapshots(k)[n - 1] >= 2
  BY ONLY <1>3, n \in Nat \ {0}
<1>. QED
  BY ONLY <1>1, <1>3, <1>4, <1>5, n \in Nat \ {0} DEF Total

-----------------------------------------------------------------------------
(* The code and the blks.                                                  *)

Jumps  == {"JL", "JLZ", "JLNZ"}
Instrs == [op : Jumps \union {"XL", "SRLL", "RET"},
           inp : Seq(Types), out : Seq(Types), to : Nat]
Breaks == [at : Nat, tys : Seq(Types)]
Blks   == [start : Nat, startTyI : Seq(Types), endTyI : Seq(Types),
           breaks : SUBSET Breaks]

LEMMA JumpFacts ==
  ASSUME NEW op \in Jumps, NEW to \in Nat
  PROVE  /\ Jump(op, to) \in Instrs
         /\ Jump(op, to).op = op /\ Jump(op, to).to = to
         /\ Jump(op, to).inp = IF op = "JL" THEN << >> ELSE <<S>>
         /\ Jump(op, to).out = << >>
<1>1. <<S>> \in Seq(Types) /\ << >> \in Seq(Types)
  BY ConditionFacts
<1>. QED
  BY <1>1 DEF Jump, Instr, Instrs

LEMMA CallFacts ==
  ASSUME NEW sig \in Sigs
  PROVE  /\ CallI(sig) \in Instrs /\ CallI(sig).op = "XL" /\ CallI(sig).to = 0
         /\ CallI(sig).inp = sig.inp /\ CallI(sig).out = sig.out
         /\ sig.inp \in Seq(Types) /\ sig.out \in Seq(Types)
BY SigsAssumption DEF CallI, Instr, Instrs

LEMMA RetFacts ==
  /\ RetI \in Instrs /\ RetI.op = "RET" /\ RetI.to = 0
  /\ RetI.inp = << >> /\ RetI.out = << >>
<1>1. << >> \in Seq(Types)
  OBVIOUS
<1>. QED
  BY <1>1 DEF RetI, Instr, Instrs

LEMMA SrLocalFacts ==
  ASSUME NEW ty \in Types
  PROVE  /\ SrLocal(ty) \in Instrs /\ SrLocal(ty).op = "SRLL" /\ SrLocal(ty).to = 0
         /\ SrLocal(ty).inp = <<ty>> /\ SrLocal(ty).out = << >>
<1>1. << >> \in Seq(Types) /\ <<ty>> \in Seq(Types)
  OBVIOUS
<1>. QED
  BY <1>1 DEF SrLocal, Instr, Instrs

LEMMA EndJumpsFacts ==
  ASSUME NEW c \in Seq(Instrs), NEW H, NEW n \in Nat, n = Len(c), NEW e, e = endJumps(c, H)
  PROVE  /\ e \in Seq(Instrs) /\ Len(e) = n
         /\ \A j \in 1..n : /\ e[j].op = c[j].op
                            /\ e[j].inp = c[j].inp /\ e[j].out = c[j].out
                            /\ e[j].to = IF j \in H THEN n + 1 ELSE c[j].to
<1>1. DOMAIN c = 1..n /\ \A j \in 1..n : c[j] \in Instrs
  BY ElementOfSeq
<1>2. e = [j \in 1..n |-> IF j \in H THEN [c[j] EXCEPT !.to = n + 1] ELSE c[j]]
  BY <1>1 DEF endJumps
<1>3. ASSUME NEW j \in 1..n
      PROVE  /\ e[j] \in Instrs
             /\ e[j].op = c[j].op
             /\ e[j].inp = c[j].inp /\ e[j].out = c[j].out
             /\ e[j].to = IF j \in H THEN n + 1 ELSE c[j].to
  <2>1. c[j] \in Instrs /\ n + 1 \in Nat
    BY <1>1
  <2>2. e[j] = IF j \in H THEN [c[j] EXCEPT !.to = n + 1] ELSE c[j]
    BY ONLY <1>2, j \in 1..n
  <2>. QED
    BY ONLY <2>1, <2>2 DEF Instrs
<1>4. e \in [1..n -> Instrs]
  BY ONLY <1>2, <1>3
<1>5. e \in Seq(Instrs) /\ Len(e) = n
  BY ONLY <1>4, n \in Nat, SeqDef
<1>. QED
  BY ONLY <1>3, <1>5

-----------------------------------------------------------------------------
(* The snapshots are those of the handlers, whatever the program does.     *)

Counted(d, k) == Len(d.tyIs) = IF Unty THEN 2 ELSE Total(k)

HandlersInv ==
  /\ fn \in FnSigs
  /\ Db(db)
  /\ code \in Seq(Instrs) /\ blks \in Seq(Blks)
  /\ phase \in {"start", "body", "run", "returned", "panic"}
  /\ phase = "start" => Ok(db) /\ db.unty = Unty
  /\ phase = "body" => /\ Ok(db) /\ db.unty = Unty
                       /\ Handlers(ctl) /\ Counted(db, ctl)
  /\ phase # "body" => ctl = << >> /\ Len(db.tyIs) = 1

LEMMA NewDb ==
  ASSUME NEW u \in BOOLEAN, NEW e,
         e = [tyIs |-> << >>, done |-> << >>, bump |-> 0, unty |-> u, err |-> "ok"],
         NEW d, d = TyDb_new(e)
  PROVE  Db(d) /\ Ok(d) /\ d.unty = u /\ Len(d.tyIs) = 1
<1>2. /\ e.tyIs = << >> /\ e.done = << >> /\ e.bump = 0
      /\ e.unty = u /\ e.err = "ok"
  OBVIOUS
<1>3. e \in DB
  <2>1. << >> \in Seq(Seq(Node)) /\ << >> \in Seq(HowDone)
    OBVIOUS
  <2>. QED
    BY <2>1 DEF DB
<1>4. Len(e.tyIs) = 0 /\ Len(e.done) = 0
  BY ONLY <1>2
<1>5. Packed(e, 0)
  <2>. DEFINE lo == [i \in 1..1 |-> 0]
  <2>1. lo \in [1..Len(e.tyIs) + 1 -> 0..ArenaCap]
    BY <1>4, ArenaAssumption
  <2>2. Laid(e, 0, lo)
    BY ONLY <1>2, <1>4 DEF Laid
  <2>. QED
    BY <2>1, <2>2 DEF Packed
<1>6. Good(e, 0)
  BY ONLY <1>2, <1>3, <1>4, <1>5, ArenaAssumption, DepthAssumption DEF Good
<1>7. d = TyDb_new(e) /\ Ok(e)
  BY <1>2 DEF Ok
<1>8. d = [e EXCEPT !.tyIs = Append(@, << >>), !.done = Append(@, NOT_DONE)]
  BY ONLY <1>4, <1>7, DepthAssumption DEF TyDb_new
<1>9. d.unty = u /\ d.err = "ok"
  BY ONLY <1>2, <1>3, <1>8 DEF DB
<1>10. Good(d, 0) /\ (Ok(d) => Len(d.tyIs) = 0 + 1)
  BY ONLY <1>4, <1>6, <1>7, NewGood
<1>11. Ok(d) /\ d.err # "incomplete"
  BY ONLY <1>9 DEF Ok
<1>12. Len(d.tyIs) = 1 /\ Len(d.tyIs) >= 1
  BY ONLY <1>10, <1>11
<1>. QED
  BY ONLY <1>9, <1>10, <1>11, <1>12 DEF Db

(* A panic leaves the database as it was before the input.                 *)
LEMMA PanicHandlers ==
  ASSUME HandlersInv, NEW d, Db(d), ~Ok(d), Panic(d.err)
  PROVE  HandlersInv'
<1>1. PICK n : n = TyDb_new(TyDb_init)
  OBVIOUS
<1>2. Db(n) /\ Ok(n) /\ Len(n.tyIs) = 1
  <2>1. TyDb_init = [tyIs |-> << >>, done |-> << >>, bump |-> 0,
                     unty |-> FALSE, err |-> "ok"]
    BY ONLY DEF TyDb_init
  <2>. QED
    BY ONLY <1>1, <2>1, NewDb
<1>3. d.err \in Errors \ {"free", "incomplete"}
  BY DEF Db, Good, DB, Ok
<1>4. db' = Fail(n, d.err)
  BY <1>1 DEF Panic, Fail
<1>5. Db(db') /\ Len((db').tyIs) = 1
  <2>1. Kept(n, Fail(n, d.err))
    BY ONLY <1>2, <1>3, FailKept
  <2>2. Fail(n, d.err).tyIs = n.tyIs
    BY <1>2, <1>3, FailGood DEF Db
  <2>. QED
    BY ONLY <1>2, <1>4, <2>1, <2>2 DEF Kept
<1>6. /\ phase' = "panic" /\ ctl' = << >> /\ fn' = fn
      /\ code' = << >> /\ blks' = << >>
  BY DEF Panic
<1>7. << >> \in Seq(Instrs) /\ << >> \in Seq(Blks)
  OBVIOUS
<1>. QED
  BY ONLY <1>5, <1>6, <1>7, HandlersInv DEF HandlersInv

LEMMA StepHandlers ==
  ASSUME HandlersInv, phase = "body", NEW d, Kept(db, d), NEW c, NEW k, NEW b,
         Step(d, c, k, b), Ok(d) => Handlers(k) /\ Counted(d, k),
         c \in Seq(Instrs), b \in Seq(Blks)
  PROVE  HandlersInv'
<1>1. CASE Ok(d)
  <2>1. /\ db' = d /\ ctl' = k /\ fn' = fn /\ phase' = phase
        /\ code' = c /\ blks' = b
    BY <1>1 DEF Step
  <2>2. Db(d) /\ d.unty = Unty
    BY DEF Kept, HandlersInv
  <2>3. Handlers(ctl') /\ Counted(db', ctl')
    BY <1>1, <2>1
  <2>. QED
    BY ONLY <1>1, <2>1, <2>2, <2>3, phase = "body", HandlersInv,
            c \in Seq(Instrs), b \in Seq(Blks)
       DEF HandlersInv, Counted
<1>2. CASE ~Ok(d)
  <2>1. Panic(d.err) /\ Db(d)
    BY <1>2 DEF Step, Kept
  <2>. QED
    BY <1>2, <2>1, PanicHandlers
<1>. QED
  BY <1>1, <1>2

(* What the cases of a step start from.                                    *)
LEMMA BodyFacts ==
  ASSUME HandlersInv, phase = "body"
  PROVE  /\ Db(db) /\ Ok(db) /\ db.unty = Unty /\ Unty \in BOOLEAN
         /\ code \in Seq(Instrs) /\ Len(code) \in Nat /\ blks \in Seq(Blks)
         /\ Handlers(ctl) /\ Counted(db, ctl)
         /\ fn \in FnSigs /\ fn.out \in Seq(Types)
         /\ Len(ctl) \in Nat \ {0} /\ Top \in Frames /\ Top = ctl[Len(ctl)]
<1>1. Db(db) /\ Ok(db) /\ db.unty = Unty /\ Handlers(ctl) /\ Counted(db, ctl)
  BY DEF HandlersInv
<1>2. /\ Unty \in BOOLEAN /\ code \in Seq(Instrs) /\ Len(code) \in Nat
      /\ blks \in Seq(Blks)
  BY RulesAssumption DEF HandlersInv
<1>3. fn \in FnSigs /\ fn.out \in Seq(Types)
  BY FnSigsAssumption DEF HandlersInv
<1>4. Len(ctl) \in Nat \ {0} /\ Top \in Frames /\ Top = ctl[Len(ctl)]
  BY <1>1, HandlersFacts DEF Top
<1>. QED
  BY ONLY <1>1, <1>2, <1>3, <1>4

(* e is what an operation makes of d that neither adds a snapshot nor      *)
(* takes one away.                                                         *)
Stays(d, e) ==
  /\ Kept(d, e)
  /\ d.unty => (Ok(e) => e = d)
  /\ (Ok(e) /\ ~d.unty) => Len(e.tyIs) = Len(d.tyIs)

LEMMA StaysChain ==
  ASSUME NEW d, NEW e, NEW f, Stays(d, e), Stays(e, f)
  PROVE  Stays(d, f)
BY DEF Stays, Kept

LEMMA StaysCounted ==
  ASSUME NEW d, NEW e, Stays(d, e), d.unty = Unty, Unty \in BOOLEAN,
         NEW k, Counted(d, k)
  PROVE  Ok(e) => Counted(e, k)
BY DEF Counted, Stays

LEMMA SameStays == ASSUME NEW d, Db(d) PROVE Stays(d, d)
BY KeptSame DEF Stays

LEMMA CallStays ==
  ASSUME NEW d, Db(d), NEW inp \in Seq(Types), NEW out \in Seq(Types)
  PROVE  Stays(d, tyCall(d, inp, out))
<1>1. PICK e : e = tyCall(d, inp, out)
  OBVIOUS
<1>2. Kept(d, e)
  BY <1>1, CallView
<1>3. d.unty => e = d
  BY <1>1 DEF tyCall
<1>4. ASSUME Ok(e), ~d.unty PROVE Len(e.tyIs) = Len(d.tyIs)
  <2>1. PICK L : L = Len(d.tyIs)
    OBVIOUS
  <2>2. PICK t : t = View(d)[L].tys
    OBVIOUS
  <2>3. Viewed(d, e, L, SubSeq(t, 1, Len(t) - Len(inp)) \o out, View(d)[L].done)
    BY <1>1, <1>4, <2>1, <2>2, CallView
  <2>. QED
    BY ONLY <2>1, <2>3 DEF Viewed
<1>. QED
  BY ONLY <1>1, <1>2, <1>3, <1>4 DEF Stays

LEMMA RetStays ==
  ASSUME NEW d, Db(d), NEW out
  PROVE  Stays(d, tyRet(d, out, RET_DONE))
<1>1. PICK e : e = tyRet(d, out, RET_DONE)
  OBVIOUS
<1>2. RET_DONE \in HowDone
  BY DEF HowDone
<1>3. Kept(d, e)
  BY <1>1, <1>2, RetView
<1>4. d.unty => e = d
  BY <1>1 DEF tyRet
<1>5. ASSUME Ok(e), ~d.unty PROVE Len(e.tyIs) = Len(d.tyIs)
  <2>1. Viewed(d, e, Len(d.tyIs), View(d)[Len(d.tyIs)].tys, RET_DONE)
    BY <1>1, <1>2, <1>5, RetView
  <2>. QED
    BY ONLY <2>1 DEF Viewed
<1>. QED
  BY ONLY <1>1, <1>3, <1>4, <1>5 DEF Stays

LEMMA ContStays ==
  ASSUME NEW d, Db(d), NEW op \in {"JL", "JLNZ"}
  PROVE  Stays(d, tyCont(d, op))
<1>1. PICK e : e = tyCont(d, op)
  OBVIOUS
<1>2. /\ Kept(d, e) /\ (d.unty => e = d)
      /\ (Ok(e) /\ ~d.unty) => Len(e.tyIs) = Len(d.tyIs)
  BY <1>1, TyContView DEF Viewed
<1>. QED
  BY ONLY <1>1, <1>2 DEF Stays

LEMMA BreakStays ==
  ASSUME NEW d, Db(d)
  PROVE  Stays(d, tyBreak(d).db)
<1>1. PICK t : t = tyBreak(d)
  OBVIOUS
<1>2. /\ Kept(d, t.db) /\ (d.unty => t.db = d)
      /\ (Ok(t.db) /\ ~d.unty) => Len(t.db.tyIs) = Len(d.tyIs)
  BY <1>1, TyBreakView DEF Viewed
<1>. QED
  BY ONLY <1>1, <1>2 DEF Stays

LEMMA ClearStays ==
  ASSUME NEW d, Db(d)
  PROVE  /\ Kept(d, TyDb_clearDone(d))
         /\ Ok(TyDb_clearDone(d)) => Len(TyDb_clearDone(d).tyIs) = Len(d.tyIs)
BY ClearDoneView DEF Viewed

LEMMA RequireStays ==
  ASSUME NEW d, Db(d), NEW cond, NEW x \in Errors \ {"free", "incomplete"}
  PROVE  Stays(d, Require(d, cond, x))
BY RequireKept DEF Stays

(* The frames that the handlers of if and blk make.                        *)
LEMMA IfFrame ==
  ASSUME NEW x \in Nat, NEW f, f = [Frame("if") EXCEPT !.i = x]
  PROVE  /\ f \in Frames /\ f.kind = "if" /\ f.is = IfState0 /\ f.i = x /\ f.ends = {}
         /\ ~f.is.hadFull /\ SnapshotsOf(f) = 1
<1>1. f = [kind |-> "if", is |-> IfState0, i |-> x, ends |-> {}, blk |-> 0]
  BY DEF Frame
<1>2. IfState0 \in IfStates /\ "if" \in Kinds /\ {} \in SUBSET Nat /\ 0 \in Nat
  BY DEF IfState0, IfStates, HowDone, NOT_DONE, Kinds
<1>3. f \in Frames
  BY ONLY <1>1, <1>2, x \in Nat DEF Frames
<1>4. /\ f.kind = "if" /\ f.is = IfState0 /\ f.i = x /\ f.ends = {}
      /\ ~f.is.hadFull
  BY ONLY <1>1 DEF IfState0
<1>5. SnapshotsOf(f) = 1
  BY ONLY <1>4 DEF SnapshotsOf
<1>. QED
  BY ONLY <1>3, <1>4, <1>5

LEMMA BlkFrame ==
  ASSUME NEW x \in Nat, NEW f, f = [Frame("blk") EXCEPT !.blk = x]
  PROVE  /\ f \in Frames /\ f.kind = "blk" /\ f.blk = x
         /\ SnapshotsOf(f) = 0
<1>1. f = [kind |-> "blk", is |-> IfState0, i |-> 0, ends |-> {}, blk |-> x]
  BY DEF Frame
<1>2. IfState0 \in IfStates /\ "blk" \in Kinds /\ {} \in SUBSET Nat /\ 0 \in Nat
  BY DEF IfState0, IfStates, HowDone, NOT_DONE, Kinds
<1>3. f \in Frames
  BY ONLY <1>1, <1>2, x \in Nat DEF Frames
<1>4. f.kind = "blk" /\ f.blk = x
  BY ONLY <1>1
<1>5. SnapshotsOf(f) = 0
  BY ONLY <1>4 DEF SnapshotsOf
<1>. QED
  BY ONLY <1>3, <1>4, <1>5

(* The snapshots of an if or an else.                                      *)
IfSnapshots(is) == IF is.hadFull THEN 2 ELSE 1

LEMMA IfSnapshotsFacts ==
  ASSUME NEW f \in Frames
  PROVE  /\ IfSnapshots(f.is) \in 1..2
         /\ f.kind \in {"if", "else"} => SnapshotsOf(f) = IfSnapshots(f.is)
         /\ f.kind = "elif" => SnapshotsOf(f) = IfSnapshots(f.is) + 1
BY DEF IfSnapshots, SnapshotsOf

(* After a branch: the frame goes on as an elif or as an else.             *)
Branched(g, kind, is, x) ==
  [g EXCEPT !.kind = kind, !.is = is, !.ends = @ \union {x}]

LEMMA BranchFrame ==
  ASSUME NEW g \in Frames, NEW kind \in {"elif", "else"}, NEW is \in IfStates,
         NEW x \in Nat, NEW f, f = Branched(g, kind, is, x)
  PROVE  /\ f \in Frames /\ f.kind = kind /\ f.is = is /\ f.i = g.i
         /\ f.ends = g.ends \union {x}
<1>1. kind \in Kinds /\ g.ends \union {x} \in SUBSET Nat
  BY DEF Kinds, Frames
<1>2. f \in Frames
  BY <1>1 DEF Frames, Branched
<1>3. f.kind = kind /\ f.is = is /\ f.i = g.i /\ f.ends = g.ends \union {x}
  BY DEF Frames, Branched
<1>. QED
  BY ONLY <1>2, <1>3

(* The condition of an elif is compiled: the frame goes on as an if.       *)
Conditioned(g, x) == [g EXCEPT !.kind = "if", !.i = x]

LEMMA CondFrame ==
  ASSUME NEW g \in Frames, NEW x \in Nat, NEW f, f = Conditioned(g, x)
  PROVE  /\ f \in Frames /\ f.kind = "if" /\ f.is = g.is /\ f.i = x
         /\ f.ends = g.ends
<1>1. "if" \in Kinds
  BY DEF Kinds
<1>2. f \in Frames
  BY <1>1 DEF Frames, Conditioned
<1>3. f.kind = "if" /\ f.is = g.is /\ f.i = x /\ f.ends = g.ends
  BY DEF Frames, Conditioned
<1>. QED
  BY ONLY <1>2, <1>3

(* The end of a branch leaves the snapshots that the frame then counts.    *)
LEMMA BranchCounted ==
  ASSUME NEW d, Db(d), NEW is \in IfStates, NEW t, t = tyIf(d, is), ~d.unty, Ok(t.db)
  PROVE  Len(t.db.tyIs) =
           (Len(d.tyIs) - IfSnapshots(is)) + IfSnapshots(t.is)
<1>1. PICK L \in Nat \ {0} : L = Len(d.tyIs)
  BY ViewFacts
<1>2. PICK v : v = View(d)
  OBVIOUS
<1>3. CASE is.hadFull
  <2>1. t.is.hadFull /\ Viewed(d, t.db, L, v[L - 2].tys, NOT_DONE)
    BY ONLY <1>1, <1>2, <1>3, Db(d), is \in IfStates, t = tyIf(d, is), ~d.unty, Ok(t.db),
            TyIfView
  <2>. QED
    BY ONLY <1>1, <1>3, <2>1, L \in Nat \ {0} DEF Viewed, IfSnapshots
<1>4. CASE ~is.hadFull /\ v[L].done # NOT_DONE
  <2>1. ~t.is.hadFull /\ Viewed(d, t.db, L, v[L - 1].tys, NOT_DONE)
    BY ONLY <1>1, <1>2, <1>4, Db(d), is \in IfStates, t = tyIf(d, is), ~d.unty, Ok(t.db),
            TyIfView
  <2>. QED
    BY ONLY <1>1, <1>4, <2>1, L \in Nat \ {0} DEF Viewed, IfSnapshots
<1>5. CASE ~is.hadFull /\ v[L].done = NOT_DONE
  <2>1. t.is.hadFull /\ Viewed(d, t.db, L + 1, v[L - 1].tys, NOT_DONE)
    BY ONLY <1>1, <1>2, <1>5, Db(d), is \in IfStates, t = tyIf(d, is), ~d.unty, Ok(t.db),
            TyIfView
  <2>. QED
    BY ONLY <1>1, <1>5, <2>1, L \in Nat \ {0} DEF Viewed, IfSnapshots
<1>. QED
  BY <1>3, <1>4, <1>5

(* What the handlers of if start from.                                     *)
LEMMA WaitFacts ==
  ASSUME HandlersInv, NEW kind, Waits(kind), kind # "fn"
  PROVE  /\ phase = "body" /\ Top.kind = kind /\ Top.is \in IfStates
         /\ Top.i \in Nat /\ Top.ends \in SUBSET Nat
         /\ ctl[Len(ctl)].kind # "fn"
         /\ Total(ctl) \in Nat /\ Total(ctl) - SnapshotsOf(Top) >= 2
<1>1. phase = "body" /\ Top.kind = kind
  BY DEF Waits
<1>2. Handlers(ctl) /\ Top \in Frames /\ Top = ctl[Len(ctl)]
  BY ONLY <1>1, HandlersInv, BodyFacts
<1>3. Top.is \in IfStates /\ Top.i \in Nat /\ Top.ends \in SUBSET Nat
  BY ONLY <1>2 DEF Frames
<1>4. ctl[Len(ctl)].kind # "fn"
  BY ONLY <1>1, <1>2, kind # "fn"
<1>5. Total(ctl) \in Nat /\ Total(ctl) - SnapshotsOf(ctl[Len(ctl)]) >= 2
  BY ONLY <1>2, <1>4, TotalFacts
<1>. QED
  BY ONLY <1>1, <1>2, <1>3, <1>4, <1>5

(* The handler that waits goes on as f, and so do the snapshots.           *)
LEMMA ReplaceHandlers ==
  ASSUME HandlersInv, phase = "body", Top.kind # "fn",
         NEW f \in Frames, f.kind # "fn",
         NEW d, Kept(db, d), Unty => (Ok(d) => d = db),
         (Ok(d) /\ ~Unty) =>
           Len(d.tyIs) = (Len(db.tyIs) - SnapshotsOf(Top)) + SnapshotsOf(f),
         NEW c \in Seq(Instrs), Step(d, c, Replace(f), blks)
  PROVE  HandlersInv'
<1>1. PICK k : k = [ctl EXCEPT ![Len(ctl)] = f]
  OBVIOUS
<1>2. Handlers(ctl) /\ ctl[Len(ctl)].kind # "fn" /\ Top = ctl[Len(ctl)]
  BY ONLY HandlersInv, phase = "body", Top.kind # "fn", BodyFacts
<1>3. Handlers(k)
  BY ONLY <1>1, <1>2, f \in Frames, f.kind # "fn", ReplaceSnapshots
<1>4. Total(k) = (Total(ctl) - SnapshotsOf(ctl[Len(ctl)])) + SnapshotsOf(f)
  BY ONLY <1>1, <1>2, f \in Frames, f.kind # "fn", ReplaceTotal
<1>5. Counted(db, ctl) /\ blks \in Seq(Blks)
  BY ONLY HandlersInv, phase = "body", BodyFacts
<1>6. Ok(d) => Counted(d, k)
  BY ONLY <1>2, <1>4, <1>5, Unty => (Ok(d) => d = db),
     (Ok(d) /\ ~Unty) => Len(d.tyIs) = (Len(db.tyIs) - SnapshotsOf(Top)) + SnapshotsOf(f)
     DEF Counted
<1>7. Step(d, c, k, blks)
  BY ONLY <1>1, Step(d, c, Replace(f), blks) DEF Replace
<1>. QED
  BY ONLY <1>3, <1>5, <1>6, <1>7, HandlersInv, phase = "body", Kept(db, d),
          c \in Seq(Instrs), StepHandlers

(* The handler that waits is done, and so are its snapshots.               *)
LEMMA PopHandlers ==
  ASSUME HandlersInv, phase = "body", Top.kind # "fn", NEW d, Kept(db, d),
         (Ok(d) /\ Unty) => Len(d.tyIs) = Len(db.tyIs),
         (Ok(d) /\ ~Unty) => Len(d.tyIs) = Len(db.tyIs) - SnapshotsOf(Top),
         NEW c \in Seq(Instrs), NEW b \in Seq(Blks), Step(d, c, Pop, b)
  PROVE  HandlersInv'
<1>1. PICK k : k = SubSeq(ctl, 1, Len(ctl) - 1)
  OBVIOUS
<1>2. Handlers(ctl) /\ ctl[Len(ctl)].kind # "fn" /\ Top = ctl[Len(ctl)]
  BY ONLY HandlersInv, phase = "body", Top.kind # "fn", BodyFacts
<1>3. Handlers(k)
  BY ONLY <1>1, <1>2, PopSnapshots
<1>4. Total(k) = Total(ctl) - SnapshotsOf(ctl[Len(ctl)])
  BY ONLY <1>1, <1>2, PopTotal
<1>5. Counted(db, ctl)
  BY ONLY HandlersInv, phase = "body", BodyFacts
<1>6. Ok(d) => Counted(d, k)
  BY ONLY <1>2, <1>4, <1>5, (Ok(d) /\ Unty) => Len(d.tyIs) = Len(db.tyIs),
     (Ok(d) /\ ~Unty) => Len(d.tyIs) = Len(db.tyIs) - SnapshotsOf(Top)
     DEF Counted
<1>7. Step(d, c, k, b)
  BY ONLY <1>1, Step(d, c, Pop, b) DEF Pop
<1>. QED
  BY ONLY <1>3, <1>6, <1>7, HandlersInv, phase = "body", Kept(db, d),
          c \in Seq(Instrs), b \in Seq(Blks), StepHandlers

(* The end of an if takes away the snapshots that the frame counts.        *)
LEMMA IfEndCounted ==
  ASSUME NEW d, Db(d), NEW is \in IfStates, NEW e, e = tyIfEnd(d, is), ~d.unty, Ok(e),
         Len(d.tyIs) >= IF is.hadFull THEN 4 ELSE 2
  PROVE  Len(e.tyIs) = Len(d.tyIs) - IfSnapshots(is)
<1>1. PICK L \in Nat \ {0} : L = Len(d.tyIs)
  BY ViewFacts
<1>2. PICK v : v = View(d)
  OBVIOUS
<1>3. Len(d.tyIs) >= 2 /\ (is.hadFull => Len(d.tyIs) >= 4)
  BY <1>1
<1>4. CASE is.hadFull
  <2>1. Viewed(d, e, L - 2, v[L - 1].tys, NOT_DONE)
    BY ONLY <1>1, <1>2, <1>3, <1>4, Db(d), is \in IfStates, e = tyIfEnd(d, is),
            ~d.unty, Ok(e), TyIfEndView
  <2>. QED
    BY ONLY <1>1, <1>4, <2>1, L \in Nat \ {0} DEF Viewed, IfSnapshots
<1>5. CASE ~is.hadFull /\ is.hadElse /\ is.done # NOT_DONE
  <2>1. Viewed(d, e, L - 1, v[L - 1].tys, is.done)
    BY ONLY <1>1, <1>2, <1>3, <1>5, Db(d), is \in IfStates, e = tyIfEnd(d, is),
            ~d.unty, Ok(e), TyIfEndView
  <2>. QED
    BY ONLY <1>1, <1>5, <2>1, L \in Nat \ {0} DEF Viewed, IfSnapshots
<1>6. CASE ~is.hadFull /\ ~(is.hadElse /\ is.done # NOT_DONE)
  <2>1. Viewed(d, e, L - 1, v[L - 1].tys, v[L - 1].done)
    BY ONLY <1>1, <1>2, <1>3, <1>6, Db(d), is \in IfStates, e = tyIfEnd(d, is),
            ~d.unty, Ok(e), TyIfEndView
  <2>. QED
    BY ONLY <1>1, <1>6, <2>1, L \in Nat \ {0} DEF Viewed, IfSnapshots
<1>. QED
  BY <1>4, <1>5, <1>6

(* The code of a branch's end: a jump over the next one.                   *)
LEMMA ElseJumpFacts ==
  ASSUME NEW c \in Seq(Instrs), NEW i, NEW n \in Nat, n = Len(c), NEW e, e = ElseJump(c, i)
  PROVE  /\ e \in Seq(Instrs) /\ Len(e) = n + 1
         /\ \A j \in 1..n : /\ e[j].op = c[j].op
                            /\ e[j].inp = c[j].inp /\ e[j].out = c[j].out
                            /\ e[j].to = IF j = i THEN n + 2 ELSE c[j].to
         /\ /\ e[n + 1].op = "JL" /\ e[n + 1].inp = << >> /\ e[n + 1].out = << >>
            /\ e[n + 1].to = IF n + 1 = i THEN n + 2 ELSE 0
<1>1. PICK j : j = Jump("JL", 0)
  OBVIOUS
<1>2. "JL" \in Jumps /\ 0 \in Nat
  BY DEF Jumps
<1>3. /\ j \in Instrs /\ j.op = "JL" /\ j.to = 0
      /\ j.inp = << >> /\ j.out = << >>
  BY <1>1, <1>2, JumpFacts
<1>4. PICK a : a = Append(c, j)
  OBVIOUS
<1>5. /\ a \in Seq(Instrs) /\ Len(a) = n + 1 /\ a[n + 1] = j
      /\ \A x \in 1..n : a[x] = c[x]
  BY ONLY <1>3, <1>4, c \in Seq(Instrs), n = Len(c), AppendProperties
<1>6. e = endJumps(a, {i})
  BY ONLY <1>1, <1>4, e = ElseJump(c, i) DEF ElseJump
<1>7. PICK m \in Nat : m = Len(a)
  BY ONLY <1>5, n \in Nat
<1>8. /\ e \in Seq(Instrs) /\ Len(e) = m
      /\ \A x \in 1..m : /\ e[x].op = a[x].op
                         /\ e[x].inp = a[x].inp /\ e[x].out = a[x].out
                         /\ e[x].to = IF x \in {i} THEN m + 1 ELSE a[x].to
  BY ONLY <1>5, <1>6, <1>7, m \in Nat, EndJumpsFacts
<1>9. m = n + 1 /\ m + 1 = n + 2 /\ n + 1 \in 1..m /\ \A x \in 1..n : x \in 1..m
  BY ONLY <1>5, <1>7, n \in Nat
<1>. QED
  BY ONLY <1>3, <1>5, <1>8, <1>9

(* What a break does to the list of the blks.  With no blk it is the null. *)
LEMMA BreakTyped ==
  ASSUME HandlersInv, NEW d, Db(d), NEW t, t = tyBreak(d), phase = "body"
  PROVE  t.blks \in Seq(Blks) /\ Len(t.blks) = Len(blks)
<1>1. blks \in Seq(Blks) /\ Len(blks) \in Nat
  BY DEF HandlersInv
<1>2. CASE Len(blks) = 0
  <2>1. blks = << >> /\ Len(blks) \notin DOMAIN blks
    BY <1>1, <1>2, EmptySeq
  <2>2. t.blks = blks
    <3>1. PICK x : x = IF HeadBlk.endTyI = << >> THEN View(d)[Len(d.tyIs)].tys
                       ELSE HeadBlk.endTyI
      OBVIOUS
    <3>2. t.blks = blks \/ t.blks = [blks EXCEPT ![Len(blks)].endTyI = x]
      BY ONLY Db(d), t = tyBreak(d), <3>1, TyBreakView
    <3>. QED
      BY <1>1, <2>1, <3>2
  <2>. QED
    BY <1>1, <2>2
<1>3. CASE Len(blks) # 0
  <2>1. Len(blks) \in 1..Len(blks) /\ HeadBlk \in Blks
    BY <1>1, <1>3, ElementOfSeq DEF HeadBlk
  <2>2. View(d)[Len(d.tyIs)].tys \in Seq(Types)
    <3>1. View(d)[Len(d.tyIs)] \in Snap
      BY ViewFacts
    <3>. QED
      BY ONLY <3>1 DEF Snap
  <2>3. HeadBlk.endTyI \in Seq(Types)
    BY ONLY <2>1 DEF Blks
  <2>4. PICK x \in Seq(Types) : x = IF HeadBlk.endTyI = << >>
                                    THEN View(d)[Len(d.tyIs)].tys ELSE HeadBlk.endTyI
    BY ONLY <2>2, <2>3
  <2>5. t.blks = blks \/ t.blks = [blks EXCEPT ![Len(blks)].endTyI = x]
    BY ONLY Db(d), t = tyBreak(d), <2>4, TyBreakView
  <2>6. PICK h : h = [HeadBlk EXCEPT !.endTyI = x]
    OBVIOUS
  <2>7. h \in Blks
    BY ONLY <2>1, <2>6, x \in Seq(Types) DEF Blks
  <2>8. t.blks = blks \/ t.blks = [blks EXCEPT ![Len(blks)] = h]
    <3>1. [blks EXCEPT ![Len(blks)].endTyI = x] = [blks EXCEPT ![Len(blks)] = h]
      BY <2>6 DEF HeadBlk
    <3>. QED
      BY ONLY <2>5, <3>1
  <2>. QED
    BY <1>1, <2>1, <2>7, <2>8, ExceptSeq
<1>. QED
  BY <1>2, <1>3

LEMMA BreaksTyped ==
  ASSUME NEW l \in Seq(Blks), NEW i \in 1..Len(l), NEW br \in Breaks,
         NEW b, b = [l EXCEPT ![i].breaks = @ \union {br}]
  PROVE  b \in Seq(Blks) /\ Len(b) = Len(l)
<1>1. PICK h : h = [l[i] EXCEPT !.breaks = l[i].breaks \union {br}]
  OBVIOUS
<1>2. l[i] \in Blks
  BY ElementOfSeq
<1>3. h \in Blks
  BY ONLY <1>1, <1>2, br \in Breaks DEF Blks
<1>4. b = [l EXCEPT ![i] = h]
  BY ONLY <1>1, b = [l EXCEPT ![i].breaks = @ \union {br}]
<1>. QED
  BY ONLY <1>3, <1>4, l \in Seq(Blks), i \in 1..Len(l), ExceptSeq

(* What parseFn does at the end leaves the snapshot of the kernel only.    *)
LEMMA FinishHandlers ==
  ASSUME HandlersInv, NEW d, Db(d), d.unty = Unty, Ok(d) => Len(d.tyIs) = 2,
         NEW c \in Seq(Instrs), Finish(d, c)
  PROVE  HandlersInv'
<1>1. PICK endsInRet \in EndsInRet(c) :
        LET force == IF Unty THEN ~endsInRet ELSE TyDb_done(d) # RET_DONE
            d0 == IF force THEN tyRet(d, fn.out, RET_DONE) ELSE d
            d1 == TyDb_drop(d0)
            d2 == Require(d1, Len(d1.done) = 1, "incomplete")
        IN  IF Ok(d2)
            THEN /\ db'    = d2
                 /\ code'  = IF force THEN Append(c, RetI) ELSE c
                 /\ ctl'   = << >>
                 /\ phase' = "run"
                 /\ \E tys \in Given(fn.stk \o fn.loc) : ws' = tys
                 /\ UNCHANGED <<fn, blks, pc>>
            ELSE Panic(d2.err)
  BY DEF Finish
<1>2. PICK force : force = IF Unty THEN ~endsInRet ELSE TyDb_done(d) # RET_DONE
  OBVIOUS
<1>3. PICK d0 : d0 = IF force THEN tyRet(d, fn.out, RET_DONE) ELSE d
  OBVIOUS
<1>4. PICK d1 : d1 = TyDb_drop(d0)
  OBVIOUS
<1>5. PICK d2 : d2 = Require(d1, Len(d1.done) = 1, "incomplete")
  OBVIOUS
<1>6. Kept(d, d0) /\ (Ok(d0) => Len(d0.tyIs) = Len(d.tyIs))
  <2>1. PICK r : r = tyRet(d, fn.out, RET_DONE)
    OBVIOUS
  <2>2. Stays(d, r)
    BY ONLY Db(d), <2>1, RetStays
  <2>3. Kept(d, r) /\ (Ok(r) => Len(r.tyIs) = Len(d.tyIs))
    BY ONLY <2>2 DEF Stays
  <2>4. Kept(d, d)
    BY ONLY Db(d), KeptSame
  <2>5. d0 = r \/ d0 = d
    BY ONLY <1>3, <2>1
  <2>. QED
    BY ONLY <2>3, <2>4, <2>5
<1>7. Db(d0) /\ (Ok(d0) => Len(d0.tyIs) = 2)
  BY ONLY <1>6, Ok(d) => Len(d.tyIs) = 2 DEF Kept
<1>8. Db(d1) /\ (~Ok(d0) => d1 = d0) /\ (Ok(d0) => Ok(d1) /\ Len(d1.tyIs) = 1)
  <2>1. CASE Ok(d0)
    <3>1. Len(d0.tyIs) = 2
      BY ONLY <1>7, <2>1
    <3>2. Db(d0) /\ Len(d0.tyIs) >= 2
      BY ONLY <1>7, <3>1
    <3>3. Kept(d0, d1) /\ Ok(d1) /\ Len(d1.tyIs) = Len(d0.tyIs) - 1
      BY ONLY <1>4, <2>1, <3>2, DropView
    <3>. QED
      BY ONLY <2>1, <3>1, <3>3 DEF Kept
  <2>2. CASE ~Ok(d0)
    BY ONLY <1>4, <1>7, <2>2, DropGood DEF Db
  <2>. QED
    BY ONLY <2>1, <2>2
<1>9. d2 = d1
  <2>1. Ok(d1) => Ok(d0)
    BY ONLY <1>8
  <2>2. Len(d1.done) = Len(d1.tyIs)
    BY ONLY <1>8, GoodFacts DEF Db
  <2>3. Ok(d1) => Len(d1.done) = 1
    BY ONLY <1>8, <2>1, <2>2
  <2>. QED
    BY ONLY <1>5, <2>3 DEF Require
<1>10. CASE Ok(d2)
  <2>1. /\ db' = d2 /\ code' = (IF force THEN Append(c, RetI) ELSE c)
        /\ ctl' = << >> /\ phase' = "run" /\ fn' = fn /\ blks' = blks
    BY <1>1, <1>2, <1>3, <1>4, <1>5, <1>10
  <2>2. code' \in Seq(Instrs)
    BY ONLY c \in Seq(Instrs), <2>1, RetFacts, AppendProperties
  <2>3. Len(d2.tyIs) = 1 /\ Db(d2)
    BY ONLY <1>8, <1>9, <1>10
  <2>. QED
    BY ONLY <2>1, <2>2, <2>3, HandlersInv DEF HandlersInv
<1>11. CASE ~Ok(d2)
  <2>1. Panic(d2.err)
    BY <1>1, <1>2, <1>3, <1>4, <1>5, <1>11
  <2>. QED
    BY ONLY <1>8, <1>9, <1>11, <2>1, HandlersInv, PanicHandlers
<1>. QED
  BY ONLY <1>10, <1>11

LEMMA HandlersStep ==
  ASSUME HandlersInv, [Next]_vars
  PROVE  HandlersInv'
<1>1. CASE UNCHANGED vars
  BY <1>1 DEF vars, HandlersInv
<1>2. CASE parseFn
  <2>1. phase = "start" /\ Db(db) /\ Ok(db) /\ db.unty = Unty /\ Len(db.tyIs) = 1
    BY <1>2 DEF parseFn, HandlersInv
  <2>2. PICK d : d = TyDb_new(db)
    OBVIOUS
  <2>3. PICK e : e = IF Unty THEN d ELSE TyI_cloneAdd(d, Reverse(fn.stk))
    OBVIOUS
  <2>4. Kept(db, d) /\ (Ok(d) => Viewed(db, d, 1 + 1, << >>, NOT_DONE))
    BY ONLY <2>1, <2>2, NewView
  <2>5. Db(d) /\ d.unty = Unty
    BY ONLY <2>1, <2>4 DEF Kept
  <2>6. Reverse(fn.stk) \in Seq(Types)
    <3>1. fn.stk \in Seq(Types)
      BY FnSigsAssumption DEF HandlersInv
    <3>. QED
      BY <3>1, ReverseFacts
  <2>7. Kept(d, e) /\ (Ok(e) => Len(e.tyIs) = Len(d.tyIs))
    <3>1. Kept(d, TyI_cloneAdd(d, Reverse(fn.stk)))
          /\ (Ok(TyI_cloneAdd(d, Reverse(fn.stk))) =>
                Len(TyI_cloneAdd(d, Reverse(fn.stk)).tyIs) = Len(d.tyIs))
      BY ONLY <2>5, <2>6, CloneAddView DEF Viewed
    <3>2. Kept(d, d)
      BY ONLY <2>5, KeptSame
    <3>. QED
      BY ONLY <2>3, <3>1, <3>2
  <2>8. Db(e) /\ e.unty = Unty
    BY ONLY <2>5, <2>7 DEF Kept
  <2>9. CASE Ok(e)
    <3>1. /\ db' = e /\ ctl' = <<Frame("fn")>> /\ phase' = "body" /\ fn' = fn
          /\ blks' = blks
          /\ code' = [j \in 1..Len(fn.loc) |-> SrLocal(Reverse(fn.loc)[j])]
      BY <1>2, <2>2, <2>3, <2>9 DEF parseFn
    <3>2. Len(e.tyIs) = 2
      BY ONLY <2>4, <2>7, <2>9 DEF Kept, Viewed
    <3>3. "fn" \in Kinds
      BY DEF Kinds
    <3>4. Handlers(ctl')
      <4>1. Frame("fn") \in Frames /\ Frame("fn").kind = "fn"
        BY ONLY <3>3, FrameFacts
      <4>2. /\ <<Frame("fn")>> \in Seq(Frames) /\ <<Frame("fn")>> # << >>
            /\ Len(<<Frame("fn")>>) = 1 /\ <<Frame("fn")>>[1] = Frame("fn")
        BY ONLY <4>1
      <4>. QED
        BY ONLY <3>1, <4>1, <4>2 DEF Handlers
    <3>5. Total(ctl') = 2
      <4>1. Snapshots(ctl')[1] = 2 /\ Len(ctl') = 1
        BY ONLY <3>1, <3>4, HandlersFacts
      <4>. QED
        BY ONLY <4>1 DEF Total
    <3>6. Counted(db', ctl')
      BY ONLY <3>1, <3>2, <3>5 DEF Counted
    <3>7. code' \in Seq(Instrs)
      <4>1. fn.loc \in Seq(Types)
        BY FnSigsAssumption DEF HandlersInv
      <4>2. PICK n \in Nat : n = Len(fn.loc)
        BY <4>1
      <4>3. Reverse(fn.loc) \in Seq(Types) /\ Len(Reverse(fn.loc)) = n
        BY <4>1, <4>2, ReverseFacts
      <4>4. \A j \in 1..n : Reverse(fn.loc)[j] \in Types
        BY ONLY <4>3, ElementOfSeq
      <4>5. \A j \in 1..n : SrLocal(Reverse(fn.loc)[j]) \in Instrs
        BY ONLY <4>4, SrLocalFacts
      <4>6. code' \in [1..n -> Instrs]
        BY ONLY <3>1, <4>2, <4>5
      <4>. QED
        BY ONLY <4>6, n \in Nat, SeqDef
    <3>. QED
      BY ONLY <2>8, <2>9, <3>1, <3>4, <3>6, <3>7, HandlersInv DEF HandlersInv
  <2>10. CASE ~Ok(e)
    <3>1. Panic(e.err)
      BY <1>2, <2>2, <2>3, <2>10 DEF parseFn
    <3>. QED
      BY ONLY <2>8, <2>10, <3>1, PanicHandlers, HandlersInv
  <2>. QED
    BY <2>9, <2>10
<1>3. ASSUME NEW sig \in Sigs, compileFn(sig) PROVE HandlersInv'
  <2>1. phase = "body"
    BY <1>3 DEF compileFn, Room
  <2>2. PICK e : e = tyCall(db, sig.inp, sig.out)
    OBVIOUS
  <2>3. sig.inp \in Seq(Types) /\ sig.out \in Seq(Types)
    BY SigsAssumption
  <2>4. Stays(db, e)
    BY ONLY <2>1, <2>2, <2>3, HandlersInv, BodyFacts, CallStays
  <2>5. Kept(db, e) /\ (Ok(e) => Handlers(ctl) /\ Counted(e, ctl))
    BY ONLY <2>1, <2>4, HandlersInv, BodyFacts, StaysCounted DEF Stays
  <2>6. Step(e, Append(code, CallI(sig)), ctl, blks)
    BY <1>3, <2>2 DEF compileFn
  <2>7. Append(code, CallI(sig)) \in Seq(Instrs) /\ blks \in Seq(Blks)
    BY CallFacts, AppendProperties DEF HandlersInv
  <2>. QED
    BY ONLY <2>1, <2>5, <2>6, <2>7, HandlersInv, StepHandlers
<1>4. CASE N_ret
  <2>1. phase = "body"
    BY <1>4 DEF N_ret, Room
  <2>2. PICK e : e = tyRet(db, fn.out, RET_DONE)
    OBVIOUS
  <2>4. Stays(db, e)
    BY ONLY <2>1, <2>2, HandlersInv, BodyFacts, RetStays
  <2>5. Kept(db, e) /\ (Ok(e) => Handlers(ctl) /\ Counted(e, ctl))
    BY ONLY <2>1, <2>4, HandlersInv, BodyFacts, StaysCounted DEF Stays
  <2>6. Step(e, Append(code, RetI), ctl, blks)
    BY <1>4, <2>2 DEF N_ret
  <2>7. Append(code, RetI) \in Seq(Instrs) /\ blks \in Seq(Blks)
    BY RetFacts, AppendProperties DEF HandlersInv
  <2>. QED
    BY ONLY <2>1, <2>5, <2>6, <2>7, HandlersInv, StepHandlers
<1>5. CASE N_if
  <2>1. phase = "body"
    BY <1>5 DEF N_if, Room
  <2>2. PICK cond : cond = (Unty \/ TyDb_done(tyCall(db, <<S>>, << >>)) = NOT_DONE)
    OBVIOUS
  <2>3. PICK e : e = tyClone(Require(tyCall(db, <<S>>, << >>), cond, "done"), 0)
    OBVIOUS
  <2>4. PICK f : f = [Frame("if") EXCEPT !.i = Len(code) + 1]
    OBVIOUS
  <2>5. PICK k : k = Append(ctl, f)
    OBVIOUS
  <2>6. Step(e, Append(code, Condition), k, blks)
    BY <1>5, <2>2, <2>3, <2>4, <2>5 DEF N_if, Condition
  <2>7. Append(code, Condition) \in Seq(Instrs) /\ blks \in Seq(Blks)
    <3>1. Condition \in Instrs
      BY JumpFacts DEF Condition, Jumps
    <3>. QED
      BY <3>1, AppendProperties DEF HandlersInv
  <2>8. /\ Handlers(k) /\ Len(k) = Len(ctl) + 1
        /\ Total(k) = Total(ctl) + 1
    <3>1. Len(code) + 1 \in Nat /\ Handlers(ctl)
      BY ONLY <2>1, HandlersInv, BodyFacts
    <3>2. f \in Frames /\ f.kind = "if" /\ SnapshotsOf(f) = 1
      BY ONLY <2>4, <3>1, IfFrame
    <3>3. f.kind # "fn"
      BY ONLY <3>2
    <3>4. Handlers(k) /\ Len(k) = Len(ctl) + 1
      BY ONLY <2>5, <3>1, <3>2, <3>3, AppendSnapshots
    <3>5. Total(k) = Total(ctl) + SnapshotsOf(f)
      BY ONLY <2>5, <3>1, <3>2, <3>3, AppendTotal
    <3>. QED
      BY ONLY <3>2, <3>4, <3>5
  <2>9. /\ Kept(db, e) /\ (db.unty => (Ok(e) => e = db))
        /\ (Ok(e) /\ ~db.unty) => Len(e.tyIs) = Len(db.tyIs) + 1
    BY ONLY <2>1, <2>3, HandlersInv, BodyFacts, IfView
  <2>10. ASSUME Ok(e) PROVE Counted(e, k)
    BY ONLY <2>1, <2>8, <2>9, <2>10, HandlersInv, BodyFacts DEF Counted
  <2>. QED
    BY ONLY <2>1, <2>6, <2>7, <2>8, <2>9, <2>10, HandlersInv, StepHandlers
<1>6. CASE N_if_elif
  <2>1. Waits("if") /\ "if" # "fn"
    BY <1>6 DEF N_if_elif
  <2>2. /\ phase = "body" /\ Top.kind = "if" /\ Top.is \in IfStates
        /\ Top.kind # "fn"
    BY ONLY <2>1, HandlersInv, WaitFacts
  <2>3. /\ Db(db) /\ Ok(db) /\ db.unty = Unty /\ Unty \in BOOLEAN
        /\ code \in Seq(Instrs) /\ Len(code) \in Nat /\ Top \in Frames
    BY ONLY <2>2, HandlersInv, BodyFacts
  <2>4. PICK t : t = tyIf(db, Top.is)
    OBVIOUS
  <2>5. PICK e : e = tyClone(t.db, 0)
    OBVIOUS
  <2>6. PICK x : x = Len(code) + 1
    OBVIOUS
  <2>7. PICK f : f = Branched(Top, "elif", t.is, x)
    OBVIOUS
  <2>8. PICK c : c = ElseJump(code, Top.i)
    OBVIOUS
  <2>9. Step(e, c, Replace(f), blks)
    BY <1>6, <2>4, <2>5, <2>6, <2>7, <2>8 DEF N_if_elif, Branched
  <2>10. Kept(db, t.db) /\ t.is \in IfStates /\ (db.unty => t.db = db)
    BY ONLY <2>2, <2>3, <2>4, TyIfView
  <2>11. Db(t.db) /\ (t.db).unty = Unty /\ 0 \in Nat
    BY ONLY <2>3, <2>10 DEF Kept
  <2>12. /\ Kept(t.db, e) /\ ((t.db).unty => e = t.db)
         /\ (Ok(e) /\ ~(t.db).unty) => Len(e.tyIs) = Len((t.db).tyIs) + 1
    BY ONLY <2>5, <2>11, CloneView DEF Viewed
  <2>13. Kept(db, e) /\ (Unty => (Ok(e) => e = db)) /\ (Ok(e) => Ok(t.db))
    BY ONLY <2>3, <2>10, <2>11, <2>12, KeptChain DEF Kept
  <2>14. /\ f \in Frames /\ f.kind = "elif"
         /\ SnapshotsOf(f) = IfSnapshots(t.is) + 1 /\ IfSnapshots(t.is) \in Nat
    <3>1. x \in Nat /\ "elif" \in {"elif", "else"}
      BY ONLY <2>3, <2>6
    <3>2. f \in Frames /\ f.kind = "elif" /\ f.is = t.is
      <4>1. Top \in Frames /\ t.is \in IfStates
        BY ONLY <2>3, <2>10
      <4>. QED
        BY ONLY <2>7, <3>1, <4>1, BranchFrame
    <3>3. SnapshotsOf(f) = IfSnapshots(f.is) + 1 /\ IfSnapshots(f.is) \in 1..2
      BY ONLY <3>2, IfSnapshotsFacts
    <3>. QED
      BY ONLY <3>2, <3>3
  <2>15. SnapshotsOf(Top) = IfSnapshots(Top.is) /\ IfSnapshots(Top.is) \in 1..2
    BY ONLY <2>2, <2>3, IfSnapshotsFacts
  <2>16. ASSUME Ok(e), ~Unty
         PROVE  Len(e.tyIs) = (Len(db.tyIs) - SnapshotsOf(Top)) + SnapshotsOf(f)
    <3>1. Len((t.db).tyIs) =
            (Len(db.tyIs) - IfSnapshots(Top.is)) + IfSnapshots(t.is)
      BY ONLY <2>2, <2>3, <2>4, <2>13, <2>16, BranchCounted
    <3>2. Len(e.tyIs) = Len((t.db).tyIs) + 1 /\ Len(db.tyIs) \in Nat
      BY ONLY <2>3, <2>11, <2>12, <2>16, ViewFacts
    <3>. QED
      BY ONLY <2>14, <2>15, <3>1, <3>2, SMTT(30)
  <2>17. c \in Seq(Instrs) /\ f.kind # "fn"
    BY ONLY <2>3, <2>8, <2>14, ElseJumpFacts
  <2>. QED
    BY ONLY <2>2, <2>9, <2>13, <2>14, <2>16, <2>17, HandlersInv, ReplaceHandlers
<1>7. CASE N_if_elifDo
  <2>1. Waits("elif") /\ "elif" # "fn"
    BY <1>7 DEF N_if_elifDo
  <2>2. /\ phase = "body" /\ Top.kind = "elif" /\ Top.is \in IfStates
        /\ Top.kind # "fn"
    BY ONLY <2>1, HandlersInv, WaitFacts
  <2>3. /\ Db(db) /\ Ok(db) /\ db.unty = Unty /\ Unty \in BOOLEAN
        /\ code \in Seq(Instrs) /\ Len(code) \in Nat /\ Top \in Frames
    BY ONLY <2>2, HandlersInv, BodyFacts
  <2>4. PICK d0 : d0 = tyCall(db, <<S>>, << >>)
    OBVIOUS
  <2>5. PICK d1 : d1 = Require(d0, TyDb_done(d0) = NOT_DONE, "done")
    OBVIOUS
  <2>6. PICK e : e = tyMerge(d1)
    OBVIOUS
  <2>7. PICK x : x = Len(code) + 1
    OBVIOUS
  <2>8. PICK f : f = Conditioned(Top, x)
    OBVIOUS
  <2>9. PICK c : c = Append(code, Condition)
    OBVIOUS
  <2>10. Step(e, c, Replace(f), blks)
    BY <1>7, <2>4, <2>5, <2>6, <2>7, <2>8, <2>9 DEF N_if_elifDo, Condition, Conditioned
  <2>11. Stays(db, d0)
    <3>1. <<S>> \in Seq(Types) /\ << >> \in Seq(Types)
      BY ONLY ConditionFacts
    <3>. QED
      BY ONLY <2>3, <2>4, <3>1, CallStays
  <2>12. Stays(d0, d1)
    <3>1. "done" \in Errors \ {"free", "incomplete"}
      BY DEF Errors
    <3>2. Db(d0)
      BY ONLY <2>11 DEF Stays, Kept
    <3>. QED
      BY ONLY <2>5, <3>1, <3>2, RequireStays
  <2>13. Stays(db, d1)
    BY ONLY <2>11, <2>12, StaysChain
  <2>14. Db(d1) /\ d1.unty = Unty
    BY ONLY <2>3, <2>13 DEF Stays, Kept
  <2>15. /\ Kept(d1, e) /\ (d1.unty => e = d1)
         /\ (Ok(e) /\ ~d1.unty) => Len(e.tyIs) = Len(d1.tyIs) - 1
    BY ONLY <2>6, <2>14, MergeView
  <2>16. Kept(db, e) /\ (Unty => (Ok(e) => e = db)) /\ (Ok(e) => Ok(d1))
    BY ONLY <2>3, <2>13, <2>14, <2>15, KeptChain DEF Kept, Stays
  <2>17. /\ f \in Frames /\ f.kind = "if" /\ SnapshotsOf(Top) = SnapshotsOf(f) + 1
         /\ SnapshotsOf(f) \in 1..2
    <3>1. x \in Nat
      BY ONLY <2>3, <2>7
    <3>2. f \in Frames /\ f.kind = "if" /\ f.is = Top.is
      <4>1. Top \in Frames
        BY ONLY <2>3
      <4>. QED
        BY ONLY <2>8, <3>1, <4>1, CondFrame
    <3>3. SnapshotsOf(f) = IfSnapshots(f.is) /\ IfSnapshots(f.is) \in 1..2
      BY ONLY <3>2, IfSnapshotsFacts
    <3>4. SnapshotsOf(Top) = IfSnapshots(Top.is) + 1
      BY ONLY <2>2, <2>3, IfSnapshotsFacts
    <3>. QED
      BY ONLY <3>2, <3>3, <3>4
  <2>18. ASSUME Ok(e), ~Unty
         PROVE  Len(e.tyIs) = (Len(db.tyIs) - SnapshotsOf(Top)) + SnapshotsOf(f)
    <3>1. Len(d1.tyIs) = Len(db.tyIs) /\ Len(db.tyIs) \in Nat
      BY ONLY <2>3, <2>13, <2>16, <2>18, ViewFacts DEF Stays
    <3>2. Len(e.tyIs) = Len(d1.tyIs) - 1
      BY ONLY <2>14, <2>15, <2>18
    <3>. QED
      BY ONLY <2>17, <3>1, <3>2
  <2>19. c \in Seq(Instrs) /\ f.kind # "fn"
    <3>1. Condition \in Instrs
      BY JumpFacts DEF Condition, Jumps
    <3>. QED
      BY ONLY <2>3, <2>9, <2>17, <3>1, AppendProperties
  <2>. QED
    BY ONLY <2>2, <2>10, <2>16, <2>17, <2>18, <2>19, HandlersInv, ReplaceHandlers
<1>8. CASE N_if_else
  <2>1. Waits("if") /\ "if" # "fn"
    BY <1>8 DEF N_if_else
  <2>2. /\ phase = "body" /\ Top.kind = "if" /\ Top.is \in IfStates
        /\ Top.kind # "fn"
    BY ONLY <2>1, HandlersInv, WaitFacts
  <2>3. /\ Db(db) /\ Ok(db) /\ db.unty = Unty /\ Unty \in BOOLEAN
        /\ code \in Seq(Instrs) /\ Len(code) \in Nat /\ Top \in Frames
    BY ONLY <2>2, HandlersInv, BodyFacts
  <2>4. PICK t : t = tyIf(db, Top.is)
    OBVIOUS
  <2>5. PICK x : x = Len(code) + 1
    OBVIOUS
  <2>6. PICK f : f = Branched(Top, "else", t.is, x)
    OBVIOUS
  <2>7. PICK c : c = ElseJump(code, Top.i)
    OBVIOUS
  <2>8. Step(t.db, c, Replace(f), blks)
    BY <1>8, <2>4, <2>5, <2>6, <2>7 DEF N_if_else, Branched
  <2>9. Kept(db, t.db) /\ t.is \in IfStates /\ (Unty => (Ok(t.db) => t.db = db))
    BY ONLY <2>2, <2>3, <2>4, TyIfView
  <2>10. /\ f \in Frames /\ f.kind = "else"
         /\ SnapshotsOf(f) = IfSnapshots(t.is)
    <3>1. x \in Nat /\ "else" \in {"elif", "else"}
      BY ONLY <2>3, <2>5
    <3>2. f \in Frames /\ f.kind = "else" /\ f.is = t.is
      <4>1. Top \in Frames /\ t.is \in IfStates
        BY ONLY <2>3, <2>9
      <4>. QED
        BY ONLY <2>6, <3>1, <4>1, BranchFrame
    <3>3. SnapshotsOf(f) = IfSnapshots(f.is)
      BY ONLY <3>2, IfSnapshotsFacts
    <3>. QED
      BY ONLY <3>2, <3>3
  <2>11. SnapshotsOf(Top) = IfSnapshots(Top.is)
    BY ONLY <2>2, <2>3, IfSnapshotsFacts
  <2>12. ASSUME Ok(t.db), ~Unty
         PROVE  Len((t.db).tyIs) = (Len(db.tyIs) - SnapshotsOf(Top)) + SnapshotsOf(f)
    <3>1. Len((t.db).tyIs) =
            (Len(db.tyIs) - IfSnapshots(Top.is)) + IfSnapshots(t.is)
      BY ONLY <2>2, <2>3, <2>4, <2>12, BranchCounted
    <3>. QED
      BY ONLY <2>10, <2>11, <3>1
  <2>13. c \in Seq(Instrs) /\ f.kind # "fn"
    BY ONLY <2>3, <2>7, <2>10, ElseJumpFacts
  <2>. QED
    BY ONLY <2>2, <2>8, <2>9, <2>10, <2>12, <2>13, HandlersInv, ReplaceHandlers
<1>9. CASE N_if_end
  <2>1. PICK kind \in {"if", "else"} : Waits(kind) /\
          LET t  == tyIf(db, Top.is)
              is == [t.is EXCEPT !.hadElse = kind = "else"]
              H  == IF kind = "if" THEN Top.ends \union {Top.i} ELSE Top.ends
          IN  Step(tyIfEnd(t.db, is), endJumps(code, H), Pop, blks)
    BY <1>9 DEF N_if_end
  <2>2. /\ phase = "body" /\ Top.kind = kind /\ Top.is \in IfStates
        /\ Top.kind # "fn" /\ Total(ctl) \in Nat
        /\ Total(ctl) - SnapshotsOf(Top) >= 2
    <3>1. kind # "fn"
      BY ONLY kind \in {"if", "else"}
    <3>. QED
      BY ONLY <2>1, <3>1, HandlersInv, WaitFacts
  <2>3. /\ Db(db) /\ Ok(db) /\ db.unty = Unty /\ Unty \in BOOLEAN
        /\ code \in Seq(Instrs) /\ Len(code) \in Nat /\ Top \in Frames
        /\ Counted(db, ctl) /\ blks \in Seq(Blks)
    BY ONLY <2>2, HandlersInv, BodyFacts
  <2>4. PICK t : t = tyIf(db, Top.is)
    OBVIOUS
  <2>5. PICK is : is = [t.is EXCEPT !.hadElse = kind = "else"]
    OBVIOUS
  <2>6. PICK e : e = tyIfEnd(t.db, is)
    OBVIOUS
  <2>7. PICK H : H = IF kind = "if" THEN Top.ends \union {Top.i} ELSE Top.ends
    OBVIOUS
  <2>8. PICK c : c = endJumps(code, H)
    OBVIOUS
  <2>9. Step(e, c, Pop, blks)
    BY <2>1, <2>4, <2>5, <2>6, <2>7, <2>8
  <2>10. Kept(db, t.db) /\ t.is \in IfStates /\ (db.unty => t.db = db)
    BY ONLY <2>2, <2>3, <2>4, TyIfView
  <2>11. Db(t.db) /\ (t.db).unty = Unty
    BY ONLY <2>3, <2>10 DEF Kept
  <2>12. is \in IfStates /\ is.hadFull = t.is.hadFull
    BY ONLY <2>5, <2>10 DEF IfStates
  <2>13. SnapshotsOf(Top) = IfSnapshots(Top.is) /\ IfSnapshots(Top.is) \in 1..2
    BY ONLY <2>1, <2>2, <2>3, IfSnapshotsFacts
  <2>14. ASSUME Ok(t.db), ~Unty
         PROVE  /\ Len((t.db).tyIs) = (Len(db.tyIs) - SnapshotsOf(Top)) + IfSnapshots(is)
                /\ Len((t.db).tyIs) >= IF is.hadFull THEN 4 ELSE 2
                /\ Len(db.tyIs) \in Nat
    <3>1. Len((t.db).tyIs) = (Len(db.tyIs) - IfSnapshots(Top.is)) + IfSnapshots(t.is)
      BY ONLY <2>2, <2>3, <2>4, <2>14, BranchCounted
    <3>2. IfSnapshots(t.is) = IfSnapshots(is)
      BY ONLY <2>12 DEF IfSnapshots
    <3>3. Len(db.tyIs) = Total(ctl)
      BY ONLY <2>3, <2>14 DEF Counted
    <3>4. Len((t.db).tyIs) >= 2 + IfSnapshots(is)
      BY ONLY <2>2, <2>13, <3>1, <3>2, <3>3 DEF IfSnapshots
    <3>5. Len((t.db).tyIs) \in Nat
      BY ONLY <2>11, ViewFacts
    <3>6. Len((t.db).tyIs) >= IF is.hadFull THEN 4 ELSE 2
      BY ONLY <3>4, <3>5 DEF IfSnapshots
    <3>. QED
      BY ONLY <2>2, <2>13, <3>1, <3>2, <3>3, <3>6
  <2>15. ASSUME ~Unty, Ok(t.db)
         PROVE  Kept(t.db, e) /\ (Ok(e) => Len(e.tyIs) = Len(db.tyIs) - SnapshotsOf(Top))
    <3>1. /\ ~(t.db).unty => Len((t.db).tyIs) >= 2
          /\ (~(t.db).unty /\ is.hadFull) => Len((t.db).tyIs) >= 4
      <4>1. Len((t.db).tyIs) \in Nat
        BY ONLY <2>11, ViewFacts
      <4>. QED
        BY ONLY <2>14, <2>15, <4>1
    <3>2. Kept(t.db, e)
      BY ONLY <2>6, <2>11, <2>12, <3>1, TyIfEndView
    <3>3. ASSUME Ok(e) PROVE Len(e.tyIs) = Len((t.db).tyIs) - IfSnapshots(is)
      <4>1. ~(t.db).unty /\ Len((t.db).tyIs) >= IF is.hadFull THEN 4 ELSE 2
        BY ONLY <2>11, <2>14, <2>15
      <4>. QED
        BY ONLY <2>6, <2>11, <2>12, <3>3, <4>1, IfEndCounted
    <3>4. IfSnapshots(is) \in Nat /\ SnapshotsOf(Top) \in Nat
      BY ONLY <2>13 DEF IfSnapshots
    <3>. QED
      BY ONLY <2>14, <2>15, <3>2, <3>3, <3>4
  <2>16. ASSUME Unty \/ ~Ok(t.db) PROVE e = t.db
    BY ONLY <2>6, <2>11, <2>16 DEF tyIfEnd
  <2>17. Kept(db, e)
    <3>1. Kept(t.db, e)
      BY ONLY <2>3, <2>11, <2>15, <2>16, KeptSame
    <3>. QED
      BY ONLY <2>10, <3>1, KeptChain
  <2>18. Ok(e) => Ok(t.db)
    BY ONLY <2>3, <2>15, <2>16 DEF Kept
  <2>19. Unty => e = db
    BY ONLY <2>3, <2>10, <2>16
  <2>20. c \in Seq(Instrs)
    BY ONLY <2>3, <2>8, EndJumpsFacts
  <2>21. /\ (Ok(e) /\ Unty) => Len(e.tyIs) = Len(db.tyIs)
         /\ (Ok(e) /\ ~Unty) => Len(e.tyIs) = Len(db.tyIs) - SnapshotsOf(Top)
    BY ONLY <2>15, <2>18, <2>19
  <2>. QED
    BY ONLY <2>2, <2>3, <2>9, <2>17, <2>20, <2>21, HandlersInv, PopHandlers
<1>10. CASE N_blk
  <2>1. phase = "body"
    BY <1>10 DEF N_blk, Room
  <2>2. PICK f : f = [Frame("blk") EXCEPT !.blk = Len(blks) + 1]
    OBVIOUS
  <2>3. PICK k : k = Append(ctl, f)
    OBVIOUS
  <2>4. PICK b : b = Append(blks, Blk(Len(code) + 1, TypesOf(TyDb_top(db))))
    OBVIOUS
  <2>5. Step(db, code, k, b)
    BY <1>10, <2>2, <2>3, <2>4 DEF N_blk
  <2>6. b \in Seq(Blks) /\ code \in Seq(Instrs)
    <3>1. TypesOf(TyDb_top(db)) \in Seq(Types)
      BY GoodFacts, TypesOfSeq DEF HandlersInv, Db
    <3>2. Len(code) + 1 \in Nat /\ blks \in Seq(Blks) /\ code \in Seq(Instrs)
      BY ONLY <2>1, HandlersInv, BodyFacts
    <3>3. Blk(Len(code) + 1, TypesOf(TyDb_top(db))) \in Blks
      BY ONLY <3>1, <3>2, EmptySeq DEF Blk, Blks
    <3>. QED
      BY ONLY <2>4, <3>2, <3>3, AppendProperties
  <2>7. /\ Handlers(k) /\ Len(k) = Len(ctl) + 1
        /\ Total(k) = Total(ctl) + 0
    <3>1. Len(blks) + 1 \in Nat /\ Handlers(ctl)
      BY <2>1, HandlersInv, BodyFacts
    <3>2. f \in Frames /\ f.kind = "blk" /\ SnapshotsOf(f) = 0
      BY ONLY <2>2, <3>1, BlkFrame
    <3>3. f.kind # "fn"
      BY ONLY <3>2
    <3>. QED
      BY ONLY <2>3, <3>1, <3>2, <3>3, AppendSnapshots, AppendTotal
  <2>9. Kept(db, db) /\ Counted(db, k)
    <3>0. Total(ctl) \in Nat
      <4>1. Handlers(ctl)
        BY ONLY <2>1, HandlersInv, BodyFacts
      <4>. QED
        BY ONLY <4>1, TotalFacts
    <3>1. Total(k) = Total(ctl)
      BY ONLY <2>7, <3>0
    <3>2. Db(db) /\ Counted(db, ctl)
      BY ONLY <2>1, HandlersInv, BodyFacts
    <3>. QED
      BY ONLY <3>1, <3>2, KeptSame DEF Counted
  <2>. QED
    BY ONLY <2>1, <2>5, <2>6, <2>7, <2>9, HandlersInv, StepHandlers
<1>b. ASSUME phase = "body", Bound
      PROVE  HeadBlk \in Blks /\ HeadBlk.start \in Nat
  <2>1. blks \in Seq(Blks) /\ Len(blks) \in 1..Len(blks)
    <3>1. blks \in Seq(Blks) /\ Len(blks) > 0
      BY <1>b DEF Bound, HandlersInv
    <3>. QED
      BY ONLY <3>1
  <2>2. HeadBlk \in Blks
    BY ONLY <2>1, ElementOfSeq DEF HeadBlk
  <2>. QED
    BY ONLY <2>2 DEF Blks
<1>11. ASSUME NEW op \in {"JL", "JLNZ"}, Cont(op) PROVE HandlersInv'
  <2>1. phase = "body" /\ Bound
    BY <1>11 DEF Cont, Room
  <2>2. PICK e : e = tyCont(db, op)
    OBVIOUS
  <2>4. Stays(db, e)
    BY ONLY <2>1, <2>2, op \in {"JL", "JLNZ"}, HandlersInv, BodyFacts, ContStays
  <2>5. Kept(db, e) /\ (Ok(e) => Handlers(ctl) /\ Counted(e, ctl))
    BY ONLY <2>1, <2>4, HandlersInv, BodyFacts, StaysCounted DEF Stays
  <2>6. Step(e, Append(code, Jump(op, HeadBlk.start)), ctl, blks)
    BY <1>11, <2>2 DEF Cont
  <2>7. Append(code, Jump(op, HeadBlk.start)) \in Seq(Instrs) /\ blks \in Seq(Blks)
    <3>1. op \in Jumps /\ HeadBlk.start \in Nat
      BY <1>b, <2>1 DEF Jumps
    <3>2. Jump(op, HeadBlk.start) \in Instrs
      BY ONLY <3>1, JumpFacts
    <3>. QED
      BY <3>2, AppendProperties DEF HandlersInv
  <2>. QED
    BY ONLY <2>1, <2>5, <2>6, <2>7, HandlersInv, StepHandlers
<1>12. CASE N_break
  <2>1. phase = "body" /\ Bound
    BY <1>12 DEF N_break, Room
  <2>2. PICK t : t = tyBreak(db)
    OBVIOUS
  <2>3. PICK br : br = [at |-> Len(code) + 1, tys |-> TypesOf(TyDb_top(db))]
    OBVIOUS
  <2>4. PICK b : b = [t.blks EXCEPT ![Len(blks)].breaks = @ \union {br}]
    OBVIOUS
  <2>5. PICK c : c = Append(code, Jump("JL", 0))
    OBVIOUS
  <2>6. Step(t.db, c, ctl, b)
    BY <1>12, <2>2, <2>3, <2>4, <2>5 DEF N_break
  <2>7. Db(db)
    BY ONLY <2>1, HandlersInv, BodyFacts
  <2>8. Stays(db, t.db)
    BY ONLY <2>2, <2>7, BreakStays
  <2>9. Kept(db, t.db) /\ (Ok(t.db) => Handlers(ctl) /\ Counted(t.db, ctl))
    BY ONLY <2>1, <2>8, HandlersInv, BodyFacts, StaysCounted DEF Stays
  <2>10. t.blks \in Seq(Blks) /\ Len(t.blks) = Len(blks)
    BY ONLY <2>1, <2>2, <2>7, HandlersInv, BreakTyped
  <2>11. br \in Breaks
    <3>1. TypesOf(TyDb_top(db)) \in Seq(Types)
      BY ONLY <2>7, GoodFacts, TypesOfSeq DEF Db
    <3>2. Len(code) + 1 \in Nat
      BY ONLY <2>1, HandlersInv, BodyFacts
    <3>. QED
      BY ONLY <2>3, <3>1, <3>2 DEF Breaks
  <2>12. b \in Seq(Blks)
    <3>1. PICK l : l = t.blks
      OBVIOUS
    <3>2. PICK i : i = Len(blks)
      OBVIOUS
    <3>3. l \in Seq(Blks) /\ Len(l) = i /\ i > 0
      BY ONLY <2>1, <2>10, <3>1, <3>2 DEF Bound
    <3>4. i \in 1..Len(l)
      BY ONLY <3>3
    <3>5. b = [l EXCEPT ![i].breaks = @ \union {br}]
      BY ONLY <2>4, <3>1, <3>2
    <3>. QED
      BY ONLY <2>11, <3>3, <3>4, <3>5, BreaksTyped
  <2>13. c \in Seq(Instrs)
    <3>1. "JL" \in Jumps /\ 0 \in Nat
      BY ONLY DEF Jumps
    <3>2. Jump("JL", 0) \in Instrs
      BY ONLY <3>1, JumpFacts
    <3>3. code \in Seq(Instrs)
      BY ONLY <2>1, HandlersInv, BodyFacts
    <3>. QED
      BY ONLY <2>5, <3>2, <3>3, AppendProperties
  <2>. QED
    BY ONLY <2>1, <2>6, <2>9, <2>12, <2>13, HandlersInv, StepHandlers
<1>13. ASSUME NEW while \in BOOLEAN, N_blk_end(while) PROVE HandlersInv'
  <2>1. Waits("blk") /\ "blk" # "fn" /\ (while => Bound)
    BY <1>13 DEF N_blk_end
  <2>2. /\ phase = "body" /\ Top.kind = "blk" /\ Top.kind # "fn"
    BY ONLY <2>1, HandlersInv, WaitFacts
  <2>3. /\ Db(db) /\ Ok(db) /\ db.unty = Unty /\ Unty \in BOOLEAN
        /\ code \in Seq(Instrs) /\ blks \in Seq(Blks)
    BY ONLY <2>2, HandlersInv, BodyFacts
  <2>4. PICK d0 : d0 = IF while THEN tyCont(db, "JLNZ") ELSE db
    OBVIOUS
  <2>5. PICK c0 : c0 = IF while THEN Append(code, Jump("JLNZ", HeadBlk.start)) ELSE code
    OBVIOUS
  <2>6. PICK t : t = IF TyDb_done(d0) = NOT_DONE THEN tyBreak(d0)
                     ELSE [db |-> d0, blks |-> blks]
    OBVIOUS
  <2>7. PICK brs : brs = t.blks[Top.blk].breaks
    OBVIOUS
  <2>8. PICK d2 : d2 = IF blkClears(brs, t.db) THEN TyDb_clearDone(t.db) ELSE t.db
    OBVIOUS
  <2>9. PICK c : c = endJumps(c0, {br.at : br \in brs})
    OBVIOUS
  <2>10. Step(d2, c, Pop, t.blks)
    BY <1>13, <2>4, <2>5, <2>6, <2>7, <2>8, <2>9 DEF N_blk_end
  <2>11. Stays(db, d0)
    <3>1. PICK e : e = tyCont(db, "JLNZ")
      OBVIOUS
    <3>2. "JLNZ" \in {"JL", "JLNZ"}
      OBVIOUS
    <3>3. Stays(db, e)
      BY ONLY <2>3, <3>1, <3>2, ContStays
    <3>4. Stays(db, db) /\ (d0 = e \/ d0 = db)
      BY ONLY <2>3, <2>4, <3>1, SameStays
    <3>. QED
      BY ONLY <3>3, <3>4
  <2>12. Db(d0) /\ d0.unty = Unty
    BY ONLY <2>3, <2>11 DEF Stays, Kept
  <2>13. Stays(d0, t.db)
    <3>1. PICK u : u = tyBreak(d0)
      OBVIOUS
    <3>2. Stays(d0, u.db) /\ Stays(d0, d0)
      BY ONLY <2>12, <3>1, BreakStays, SameStays
    <3>3. t.db = u.db \/ t.db = d0
      BY ONLY <2>6, <3>1
    <3>. QED
      BY ONLY <3>2, <3>3
  <2>14. Stays(db, t.db)
    BY ONLY <2>11, <2>13, StaysChain
  <2>15. Db(t.db)
    BY ONLY <2>14 DEF Stays, Kept
  <2>16. Kept(t.db, d2) /\ (Ok(d2) => Len(d2.tyIs) = Len((t.db).tyIs))
    <3>1. PICK u : u = TyDb_clearDone(t.db)
      OBVIOUS
    <3>2. Kept(t.db, u) /\ (Ok(u) => Len(u.tyIs) = Len((t.db).tyIs))
      BY ONLY <2>15, <3>1, ClearStays
    <3>3. Kept(t.db, t.db) /\ (d2 = u \/ d2 = t.db)
      BY ONLY <2>8, <2>15, <3>1, KeptSame
    <3>. QED
      BY ONLY <3>2, <3>3
  <2>17. Kept(db, d2) /\ (Ok(d2) => Ok(t.db))
    BY ONLY <2>14, <2>16, KeptChain DEF Stays, Kept
  <2>18. SnapshotsOf(Top) = 0
    BY ONLY <2>2 DEF SnapshotsOf
  <2>19. /\ (Ok(d2) /\ Unty) => Len(d2.tyIs) = Len(db.tyIs)
         /\ (Ok(d2) /\ ~Unty) => Len(d2.tyIs) = Len(db.tyIs) - SnapshotsOf(Top)
    <3>1. Len(db.tyIs) \in Nat
      BY ONLY <2>3, ViewFacts
    <3>2. Ok(d2) => Len(d2.tyIs) = Len(db.tyIs)
      BY ONLY <2>3, <2>14, <2>16, <2>17 DEF Stays
    <3>. QED
      BY ONLY <2>18, <3>1, <3>2
  <2>20. c \in Seq(Instrs)
    <3>1. c0 \in Seq(Instrs)
      <4>1. while => Jump("JLNZ", HeadBlk.start) \in Instrs
        <5>1. while => HeadBlk.start \in Nat
          BY <1>b, <2>1, <2>2
        <5>2. "JLNZ" \in Jumps
          BY ONLY DEF Jumps
        <5>. QED
          BY ONLY <5>1, <5>2, JumpFacts
      <4>. QED
        BY ONLY <2>3, <2>5, <4>1, AppendProperties
    <3>. QED
      BY ONLY <2>9, <3>1, EndJumpsFacts
  <2>21. t.blks \in Seq(Blks)
    <3>1. CASE TyDb_done(d0) = NOT_DONE
      <4>1. t = tyBreak(d0)
        BY ONLY <2>6, <3>1
      <4>. QED
        BY <2>2, <2>12, <4>1, BreakTyped
    <3>2. CASE TyDb_done(d0) # NOT_DONE
      BY ONLY <2>3, <2>6, <3>2
    <3>. QED
      BY ONLY <3>1, <3>2
  <2>. QED
    BY ONLY <2>2, <2>10, <2>17, <2>19, <2>20, <2>21, HandlersInv, PopHandlers
<1>14. CASE parseFn_end
  <2>1. Waits("fn") /\ Finish(db, code)
    BY <1>14 DEF parseFn_end
  <2>2. phase = "body" /\ Top.kind = "fn"
    BY ONLY <2>1 DEF Waits
  <2>3. /\ Db(db) /\ Ok(db) /\ db.unty = Unty /\ code \in Seq(Instrs)
        /\ Handlers(ctl) /\ Counted(db, ctl) /\ Top = ctl[Len(ctl)]
    BY ONLY <2>2, HandlersInv, BodyFacts
  <2>4. Total(ctl) = 2
    BY ONLY <2>2, <2>3, TotalFacts
  <2>5. Len(db.tyIs) = 2
    BY ONLY <2>3, <2>4 DEF Counted
  <2>. QED
    BY ONLY <2>1, <2>3, <2>5, HandlersInv, FinishHandlers
<1>17. CASE parseFn_semi
  <2>1. /\ phase = "start" /\ Db(db) /\ Ok(db) /\ db.unty = Unty /\ Len(db.tyIs) = 1
        /\ Finish(TyDb_new(db), << >>)
    BY <1>17 DEF parseFn_semi, HandlersInv
  <2>2. PICK d : d = TyDb_new(db)
    OBVIOUS
  <2>3. Kept(db, d) /\ (Ok(d) => Viewed(db, d, 1 + 1, << >>, NOT_DONE))
    BY ONLY <2>1, <2>2, NewView
  <2>4. Db(d) /\ d.unty = Unty /\ (Ok(d) => Len(d.tyIs) = 2)
    BY ONLY <2>1, <2>3 DEF Kept, Viewed
  <2>5. << >> \in Seq(Instrs)
    OBVIOUS
  <2>. QED
    BY ONLY <2>1, <2>2, <2>4, <2>5, HandlersInv, FinishHandlers
<1>15. CASE RunStep \/ RunRet
  BY <1>15 DEF RunStep, RunRet, HandlersInv, Running
<1>16. CASE N_cont \/ N_contIf
  BY <1>11, <1>16 DEF N_cont, N_contIf
<1>. QED
  BY <1>1, <1>2, <1>3, <1>4, <1>5, <1>6, <1>7, <1>8, <1>9, <1>10, <1>12, <1>13,
     <1>14, <1>15, <1>16, <1>17 DEF Next

LEMMA HandlersInit == Init => HandlersInv
<1>. SUFFICES ASSUME Init PROVE HandlersInv
  OBVIOUS
<1>1. /\ fn \in FnSigs /\ code = << >> /\ ctl = << >> /\ blks = << >>
      /\ phase = "start"
  BY DEF Init
<1>2. PICK e : e = [TyDb_init EXCEPT !.unty = Unty]
  OBVIOUS
<1>3. e = [tyIs |-> << >>, done |-> << >>, bump |-> 0, unty |-> Unty, err |-> "ok"]
  BY ONLY <1>2 DEF TyDb_init
<1>4. db = TyDb_new(e) /\ Unty \in BOOLEAN
  BY <1>2, RulesAssumption DEF Init
<1>5. Db(db) /\ Ok(db) /\ db.unty = Unty /\ Len(db.tyIs) = 1
  BY ONLY <1>3, <1>4, NewDb
<1>6. << >> \in Seq(Instrs) /\ << >> \in Seq(Blks)
  OBVIOUS
<1>. QED
  BY ONLY <1>1, <1>5, <1>6 DEF HandlersInv

(* The invariant counts the snapshots.                                     *)
LEMMA HandlersCount == HandlersInv => SnapshotsOfHandlers
<1>. SUFFICES ASSUME HandlersInv PROVE SnapshotsOfHandlers
  OBVIOUS
<1>1. db.err # "incomplete"
  BY DEF HandlersInv, Db
<1>2. ASSUME ~Unty PROVE Len(db.tyIs) = Snapshots(ctl)[Len(ctl)]
  <2>1. CASE phase = "body"
    BY <1>2, <2>1 DEF HandlersInv, Counted, Total
  <2>2. CASE phase # "body"
    <3>1. ctl = << >> /\ Len(db.tyIs) = 1
      BY <2>2 DEF HandlersInv
    <3>2. Len(ctl) = 0 /\ ctl \in Seq(Frames)
      BY ONLY <3>1
    <3>3. Snapshots(ctl)[0] = 1
      BY ONLY <3>2, SnapshotsDefined
    <3>. QED
      BY ONLY <3>1, <3>2, <3>3
  <2>. QED
    BY <2>1, <2>2
<1>. QED
  BY <1>1, <1>2 DEF SnapshotsOfHandlers

THEOREM HandlersInvariant == Spec => []HandlersInv
BY HandlersInit, HandlersStep, PTL DEF Spec

(***************************************************************************)
(* However if, elif, else, blk, break, cont and ret are nested, and        *)
(* wherever a handler panics, the snapshots are those of the handlers that *)
(* wait, and the ASSERT at the end of parseFn never fails: for every       *)
(* program, whichever of the Rules it keeps, typed or not.                 *)
(***************************************************************************)
THEOREM SnapshotsCounted == Spec => []SnapshotsOfHandlers
BY HandlersInvariant, HandlersCount, PTL

-----------------------------------------------------------------------------
(* Every jump gets its target, if break, cont and while belong to the blk  *)
(* opened last.                                                            *)

(* The jumps that the handler f has still to end.                          *)
Owed(f, bs) ==
  CASE f.kind = "if"             -> f.ends \union {f.i}
    [] f.kind \in {"elif", "else"} -> f.ends
    [] f.kind = "blk"            -> {br.at : br \in bs[f.blk].breaks}
    [] OTHER                     -> {}

Owing(k, bs) == UNION {Owed(k[n], bs) : n \in 1..Len(k)}

(* The blks of the handlers are there, and start in the code or behind it. *)
BlkFrames(k, bs) == \A n \in 1..Len(k) : k[n].kind = "blk" => k[n].blk \in 1..Len(bs)
BlkStarts(bs, m) == \A b \in 1..Len(bs) : bs[b].start \in 1..m + 1

(* The jumps of the code c have a target, or are in H.                     *)
Targets(c, H) ==
  \A j \in 1..Len(c) : c[j].op \in Jumps =>
    \/ c[j].to \in 1..Len(c) + 1
    \/ c[j].to = 0 /\ j \in H

BodyJumps(c, k, bs) ==
  Targets(c, Owing(k, bs)) /\ BlkFrames(k, bs) /\ BlkStarts(bs, Len(c))

JumpsInv ==
  /\ HandlersInv
  /\ phase = "start" => blks = << >>
  /\ phase = "body" => BodyJumps(code, ctl, blks)
  /\ phase \in {"run", "returned"} => Targets(code, {})

(* A set of positions has a last one.                                      *)
LEMMA LastOf ==
  ASSUME NEW n \in Nat, NEW X \in SUBSET (1..n), X # {}
  PROVE  \E f \in X : \A g \in X : g <= f
<1>. DEFINE U == {m \in 0..n : X \cap (1..m) # {} =>
                     \E f \in X \cap (1..m) : \A g \in X \cap (1..m) : g <= f}
<1>1. 0 \in U
  <2>1. 1..0 = {}
    OBVIOUS
  <2>. QED
    BY <2>1
<1>2. \A m \in 0..n - 1 : m \in U => m + 1 \in U
  <2>1. SUFFICES ASSUME NEW m \in 0..n - 1, m \in U, X \cap (1..m + 1) # {}
                 PROVE  \E f \in X \cap (1..m + 1) : \A g \in X \cap (1..m + 1) : g <= f
    <3>1. \A m \in 0..n - 1 : m + 1 \in 0..n
      OBVIOUS
    <3>. QED
      BY <3>1
  <2>2. CASE m + 1 \in X
    <3>1. \A g \in X \cap (1..m + 1) : g <= m + 1
      OBVIOUS
    <3>2. m + 1 \in X \cap (1..m + 1)
      BY <2>2
    <3>. QED
      BY <3>1, <3>2
  <2>3. CASE m + 1 \notin X
    <3>1. X \cap (1..m + 1) = X \cap (1..m)
      BY <2>3
    <3>. QED
      BY <2>1, <3>1
  <2>. QED
    BY <2>2, <2>3
<1>3. 0..n \subseteq U
  <2>. HIDE DEF U
  <2>. QED
    BY <1>1, <1>2, SetInductionUpTo
<1>4. n \in U
  <2>. HIDE DEF U
  <2>. QED
    BY <1>3
<1>5. X \cap (1..n) = X
  OBVIOUS
<1>. QED
  BY <1>4, <1>5

(* The innermost blk that is open is that of the last handler of a blk.    *)
LEMMA OpenBlkFacts ==
  ASSUME Handlers(ctl), OpenBlk # 0
  PROVE  \E n \in 1..Len(ctl) :
           /\ ctl[n].kind = "blk" /\ ctl[n].blk = OpenBlk
           /\ \A m \in 1..Len(ctl) : ctl[m].kind = "blk" => m <= n
<1>. DEFINE open == {f \in DOMAIN ctl : ctl[f].kind = "blk"}
<1>1. Len(ctl) \in Nat /\ DOMAIN ctl = 1..Len(ctl)
  BY HandlersFacts DEF Handlers
<1>2. open # {}
  BY DEF OpenBlk
<1>3. open \in SUBSET (1..Len(ctl))
  BY <1>1
<1>4. \E f \in open : \A g \in open : g <= f
  <2>. HIDE DEF open
  <2>. QED
    BY <1>1, <1>2, <1>3, LastOf
<1>5. PICK n : n = CHOOSE f \in open : \A g \in open : g <= f
  OBVIOUS
<1>6. n \in open /\ \A g \in open : g <= n
  <2>. HIDE DEF open
  <2>. QED
    BY <1>4, <1>5
<1>7. OpenBlk = ctl[n].blk
  BY <1>2, <1>5 DEF OpenBlk
<1>. QED
  BY <1>1, <1>6, <1>7

(* What the handlers owe as one of them starts, goes on or is done.        *)
LEMMA OwingAppend ==
  ASSUME NEW k, Handlers(k), NEW f \in Frames, f.kind # "fn", NEW l, l = Append(k, f), NEW bs
  PROVE  /\ Owing(l, bs) = Owing(k, bs) \union Owed(f, bs)
         /\ (BlkFrames(k, bs) /\ (f.kind = "blk" => f.blk \in 1..Len(bs))) => BlkFrames(l, bs)
<1>1. PICK n \in Nat \ {0} : n = Len(k)
  BY HandlersFacts
<1>2. Len(l) = n + 1 /\ l[n + 1] = f /\ \A i \in 1..n : l[i] = k[i]
  BY <1>1, AppendSnapshots DEF SameHandlers
<1>3. 1..n + 1 = (1..n) \union {n + 1}
  BY ONLY n \in Nat \ {0}
<1>4. Owing(l, bs) = Owing(k, bs) \union Owed(f, bs)
  BY ONLY <1>1, <1>2, <1>3 DEF Owing
<1>5. (BlkFrames(k, bs) /\ (f.kind = "blk" => f.blk \in 1..Len(bs))) => BlkFrames(l, bs)
  BY ONLY <1>1, <1>2, <1>3 DEF BlkFrames
<1>. QED
  BY <1>4, <1>5

LEMMA OwingReplace ==
  ASSUME NEW k, Handlers(k), NEW f \in Frames, f.kind # "fn", k[Len(k)].kind # "fn",
         NEW l, l = [k EXCEPT ![Len(k)] = f], NEW bs
  PROVE  /\ Owing(k, bs) \subseteq Owing(l, bs) \union Owed(k[Len(k)], bs)
         /\ Owed(f, bs) \subseteq Owing(l, bs)
         /\ (BlkFrames(k, bs) /\ f.kind # "blk") => BlkFrames(l, bs)
<1>1. PICK n \in Nat \ {0} : n = Len(k)
  BY HandlersFacts
<1>2. Len(l) = n /\ l[n] = f /\ \A i \in 1..n - 1 : l[i] = k[i]
  BY <1>1, ReplaceSnapshots DEF SameHandlers
<1>3. 1..n = (1..n - 1) \union {n}
  BY ONLY n \in Nat \ {0}
<1>4. /\ Owing(k, bs) \subseteq Owing(l, bs) \union Owed(k[n], bs)
      /\ Owed(f, bs) \subseteq Owing(l, bs)
  BY ONLY <1>1, <1>2, <1>3 DEF Owing
<1>5. (BlkFrames(k, bs) /\ f.kind # "blk") => BlkFrames(l, bs)
  BY ONLY <1>1, <1>2, <1>3 DEF BlkFrames
<1>. QED
  BY <1>1, <1>4, <1>5

LEMMA OwingPop ==
  ASSUME NEW k, Handlers(k), k[Len(k)].kind # "fn",
         NEW l, l = SubSeq(k, 1, Len(k) - 1), NEW bs
  PROVE  /\ Owing(k, bs) \subseteq Owing(l, bs) \union Owed(k[Len(k)], bs)
         /\ BlkFrames(k, bs) => BlkFrames(l, bs)
<1>1. PICK n \in Nat \ {0} : n = Len(k)
  BY HandlersFacts
<1>2. Len(l) = n - 1 /\ \A i \in 1..n - 1 : l[i] = k[i]
  BY <1>1, PopSnapshots DEF SameHandlers
<1>3. 1..n = (1..n - 1) \union {n}
  BY ONLY n \in Nat \ {0}
<1>4. Owing(k, bs) \subseteq Owing(l, bs) \union Owed(k[n], bs)
  BY ONLY <1>1, <1>2, <1>3 DEF Owing
<1>5. BlkFrames(k, bs) => BlkFrames(l, bs)
  BY ONLY <1>1, <1>2, <1>3 DEF BlkFrames
<1>. QED
  BY <1>1, <1>4, <1>5

(* Blks that keep their breaks and start where they did.                   *)
SameBlks(bs, cs) ==
  \A b \in 1..Len(bs) : bs[b].breaks \subseteq cs[b].breaks /\ cs[b].start = bs[b].start

LEMMA OwingSame ==
  ASSUME NEW k, NEW bs, NEW cs, BlkFrames(k, bs), SameBlks(bs, cs)
  PROVE  Owing(k, bs) \subseteq Owing(k, cs)
<1>1. ASSUME NEW n \in 1..Len(k) PROVE Owed(k[n], bs) \subseteq Owed(k[n], cs)
  <2>1. CASE k[n].kind = "blk"
    <3>1. bs[k[n].blk].breaks \subseteq cs[k[n].blk].breaks
      BY <1>1, <2>1 DEF BlkFrames, SameBlks
    <3>2. Owed(k[n], bs) = {br.at : br \in bs[k[n].blk].breaks}
          /\ Owed(k[n], cs) = {br.at : br \in cs[k[n].blk].breaks}
      BY ONLY <2>1 DEF Owed
    <3>. QED
      BY ONLY <3>1, <3>2
  <2>2. CASE k[n].kind # "blk"
    BY ONLY <2>2 DEF Owed
  <2>. QED
    BY <2>1, <2>2
<1>. QED
  BY <1>1 DEF Owing

(* One more instruction, after n of them.                                  *)
Aimed(ins, n, G) ==
  ins.op \in Jumps => ins.to \in 1..n + 2 \/ (ins.to = 0 /\ n + 1 \in G)

LEMMA TargetsAppend ==
  ASSUME NEW c \in Seq(Instrs), NEW ins \in Instrs, NEW e, e = Append(c, ins),
         NEW H, NEW G, Targets(c, H), H \subseteq G, Aimed(ins, Len(c), G)
  PROVE  Targets(e, G) /\ e \in Seq(Instrs) /\ Len(e) = Len(c) + 1
<1>1. PICK n \in Nat : n = Len(c)
  OBVIOUS
<1>2. /\ e \in Seq(Instrs) /\ Len(e) = n + 1 /\ e[n + 1] = ins
      /\ \A x \in 1..n : e[x] = c[x]
  BY <1>1, AppendProperties
<1>3. ASSUME NEW j \in 1..n + 1, e[j].op \in Jumps
      PROVE  e[j].to \in 1..(n + 1) + 1 \/ (e[j].to = 0 /\ j \in G)
  <2>1. CASE j = n + 1
    BY <1>1, <1>2, <1>3, <2>1 DEF Aimed
  <2>2. CASE j # n + 1
    <3>1. j \in 1..n /\ e[j] = c[j]
      BY ONLY <1>2, <2>2, j \in 1..n + 1, n \in Nat
    <3>2. c[j].to \in 1..n + 1 \/ (c[j].to = 0 /\ j \in H)
      BY ONLY <1>1, <1>3, <3>1, Targets(c, H) DEF Targets
    <3>. QED
      BY ONLY <3>1, <3>2, H \subseteq G, n \in Nat
  <2>. QED
    BY <2>1, <2>2
<1>. QED
  BY ONLY <1>1, <1>2, <1>3 DEF Targets

(* The jumps of X end here.                                                *)
LEMMA TargetsEnd ==
  ASSUME NEW c \in Seq(Instrs), NEW X, NEW e, e = endJumps(c, X),
         NEW H, NEW G, Targets(c, H), H \subseteq G \union X
  PROVE  Targets(e, G) /\ e \in Seq(Instrs) /\ Len(e) = Len(c)
<1>1. PICK n \in Nat : n = Len(c)
  OBVIOUS
<1>2. /\ e \in Seq(Instrs) /\ Len(e) = n
      /\ \A j \in 1..n : /\ e[j].op = c[j].op
                         /\ e[j].to = IF j \in X THEN n + 1 ELSE c[j].to
  BY <1>1, EndJumpsFacts
<1>3. ASSUME NEW j \in 1..n, e[j].op \in Jumps
      PROVE  e[j].to \in 1..n + 1 \/ (e[j].to = 0 /\ j \in G)
  <2>1. c[j].to \in 1..n + 1 \/ (c[j].to = 0 /\ j \in H)
    BY <1>1, <1>2, <1>3 DEF Targets
  <2>. QED
    BY ONLY <1>2, <2>1, j \in 1..n, H \subseteq G \union X, n \in Nat
<1>. QED
  BY ONLY <1>1, <1>2, <1>3 DEF Targets

(* The first types of a break are kept; nothing else of a blk changes.     *)
LEMMA BreakSame ==
  ASSUME HandlersInv, phase = "body", NEW d, Db(d), NEW t, t = tyBreak(d)
  PROVE  SameBlks(blks, t.blks) /\ SameBlks(t.blks, blks) /\ Len(t.blks) = Len(blks)
<1>1. Len(t.blks) = Len(blks) /\ blks \in Seq(Blks) /\ Len(blks) \in Nat
  <2>1. blks \in Seq(Blks)
    BY DEF HandlersInv
  <2>. QED
    BY <2>1, BreakTyped
<1>2. PICK x : x = IF HeadBlk.endTyI = << >> THEN View(d)[Len(d.tyIs)].tys
                   ELSE HeadBlk.endTyI
  OBVIOUS
<1>3. t.blks = blks \/ t.blks = [blks EXCEPT ![Len(blks)].endTyI = x]
  BY ONLY Db(d), t = tyBreak(d), <1>2, TyBreakView
<1>4. ASSUME NEW b \in 1..Len(blks)
      PROVE  t.blks[b].breaks = blks[b].breaks /\ t.blks[b].start = blks[b].start
  <2>1. blks[b] \in Blks
    BY <1>1, ElementOfSeq
  <2>2. t.blks[b] = blks[b] \/ t.blks[b] = [blks[b] EXCEPT !.endTyI = x]
    BY ONLY <1>1, <1>3, b \in 1..Len(blks)
  <2>. QED
    BY ONLY <2>1, <2>2 DEF Blks
<1>. QED
  BY ONLY <1>1, <1>4 DEF SameBlks

LEMMA StepJumps ==
  ASSUME JumpsInv, phase = "body", HandlersInv', NEW d, NEW c, NEW k, NEW b,
         Step(d, c, k, b), Ok(d) => BodyJumps(c, k, b)
  PROVE  JumpsInv'
<1>1. CASE Ok(d)
  <2>1. ctl' = k /\ phase' = phase /\ code' = c /\ blks' = b
    BY <1>1 DEF Step
  <2>2. BodyJumps(code', ctl', blks')
    BY <1>1, <2>1
  <2>. QED
    BY ONLY <2>1, <2>2, phase = "body", HandlersInv' DEF JumpsInv, BodyJumps
<1>2. CASE ~Ok(d)
  <2>1. phase' = "panic"
    BY <1>2 DEF Step, Panic
  <2>. QED
    BY ONLY <2>1, HandlersInv' DEF JumpsInv
<1>. QED
  BY <1>1, <1>2

(* The jump of a condition, and what an if owes for it.                    *)
LEMMA CondJumpFacts ==
  /\ Condition \in Instrs /\ Condition.op = "JLZ" /\ Condition.to = 0
  /\ Condition.inp = <<S>> /\ Condition.out = << >>
<1>1. "JLZ" \in Jumps /\ 0 \in Nat /\ "JLZ" # "JL"
  BY DEF Jumps
<1>. QED
  BY <1>1, JumpFacts DEF Condition

(* A jump whose target is not known yet.                                   *)
LEMMA OpenJumpFacts ==
  /\ Jump("JL", 0) \in Instrs /\ Jump("JL", 0).op = "JL" /\ Jump("JL", 0).to = 0
  /\ Jump("JL", 0).inp = << >> /\ Jump("JL", 0).out = << >>
<1>1. "JL" \in Jumps /\ 0 \in Nat
  BY DEF Jumps
<1>. QED
  BY <1>1, JumpFacts

(* The end of a branch as an else or elif: its jump over the next is owed. *)
LEMMA BranchJumps ==
  ASSUME HandlersInv, phase = "body", Top.kind = "if", BodyJumps(code, ctl, blks),
         NEW c, c = ElseJump(code, Top.i), NEW x, x = Len(code) + 1,
         NEW f \in Frames, f.kind \in {"elif", "else"}, f.ends = Top.ends \union {x}
  PROVE  BodyJumps(c, Replace(f), blks)
<1>1. PICK k : k = [ctl EXCEPT ![Len(ctl)] = f]
  OBVIOUS
<1>2. /\ Handlers(ctl) /\ Top = ctl[Len(ctl)] /\ code \in Seq(Instrs) /\ Len(code) \in Nat
  BY ONLY HandlersInv, phase = "body", BodyFacts
<1>3. f.kind # "fn" /\ ctl[Len(ctl)].kind # "fn" /\ f.kind # "blk"
  BY <1>2
<1>4. /\ Owing(ctl, blks) \subseteq Owing(k, blks) \union Owed(Top, blks)
      /\ Owed(f, blks) \subseteq Owing(k, blks)
      /\ BlkFrames(k, blks)
  <2>1. BlkFrames(ctl, blks)
    BY DEF BodyJumps
  <2>. QED
    BY ONLY <1>1, <1>2, <1>3, <2>1, f \in Frames, OwingReplace
<1>5. Owed(Top, blks) = Top.ends \union {Top.i} /\ Owed(f, blks) = Top.ends \union {x}
  BY ONLY Top.kind = "if", f.kind \in {"elif", "else"}, f.ends = Top.ends \union {x}
     DEF Owed
<1>6. Owing(ctl, blks) \subseteq Owing(k, blks) \union {Top.i} /\ x \in Owing(k, blks)
  BY ONLY <1>4, <1>5
<1>7. PICK a : a = Append(code, Jump("JL", 0))
  OBVIOUS
<1>8. PICK G : G = Owing(k, blks) \union {Top.i}
  OBVIOUS
<1>9. Targets(a, G) /\ a \in Seq(Instrs) /\ Len(a) = Len(code) + 1
  <2>1. Targets(code, Owing(ctl, blks))
    BY DEF BodyJumps
  <2>2. Owing(ctl, blks) \subseteq G /\ Len(code) + 1 \in G
    BY ONLY <1>6, <1>8, x = Len(code) + 1
  <2>3. PICK ins : ins = Jump("JL", 0)
    OBVIOUS
  <2>4. ins \in Instrs /\ Aimed(ins, Len(code), G)
    BY ONLY <2>2, <2>3, OpenJumpFacts DEF Aimed
  <2>5. a = Append(code, ins) /\ code \in Seq(Instrs) /\ Owing(ctl, blks) \subseteq G
    BY ONLY <1>2, <1>7, <2>2, <2>3
  <2>. QED
    BY ONLY <2>1, <2>4, <2>5, TargetsAppend
<1>10. Targets(c, Owing(k, blks)) /\ Len(c) = Len(code) + 1
  <2>1. c = endJumps(a, {Top.i})
    BY ONLY <1>7, c = ElseJump(code, Top.i) DEF ElseJump
  <2>. QED
    BY ONLY <1>8, <1>9, <2>1, TargetsEnd
<1>11. BlkStarts(blks, Len(c))
  <2>1. BlkStarts(blks, Len(code))
    BY DEF BodyJumps
  <2>. QED
    BY ONLY <1>2, <1>10, <2>1 DEF BlkStarts
<1>. QED
  BY ONLY <1>1, <1>4, <1>10, <1>11 DEF BodyJumps, Replace

(* Code that grows by an instruction that owes nothing.                    *)
LEMMA EmitJumps ==
  ASSUME HandlersInv, phase = "body", BodyJumps(code, ctl, blks), NEW ins \in Instrs,
         ins.op \in Jumps => ins.to \in 1..Len(code) + 1, NEW c, c = Append(code, ins)
  PROVE  BodyJumps(c, ctl, blks)
<1>1. code \in Seq(Instrs) /\ Len(code) \in Nat
  BY ONLY HandlersInv, phase = "body", BodyFacts
<1>2. PICK H : H = Owing(ctl, blks)
  OBVIOUS
<1>3. Targets(code, H) /\ H \subseteq H /\ BlkFrames(ctl, blks) /\ BlkStarts(blks, Len(code))
  BY ONLY <1>2, BodyJumps(code, ctl, blks) DEF BodyJumps
<1>4. Aimed(ins, Len(code), H)
  BY ONLY <1>1, ins.op \in Jumps => ins.to \in 1..Len(code) + 1 DEF Aimed
<1>5. Targets(c, H) /\ Len(c) = Len(code) + 1
  BY ONLY <1>1, <1>3, <1>4, ins \in Instrs, c = Append(code, ins), TargetsAppend
<1>6. BlkStarts(blks, Len(c))
  BY ONLY <1>1, <1>3, <1>5 DEF BlkStarts
<1>. QED
  BY ONLY <1>2, <1>3, <1>5, <1>6 DEF BodyJumps

(* The head of the blks is one of them.                                    *)
LEMMA HeadFacts ==
  ASSUME HandlersInv, phase = "body", Bound
  PROVE  /\ Len(blks) \in 1..Len(blks) /\ HeadBlk \in Blks /\ HeadBlk = blks[Len(blks)]
         /\ HeadBlk.start \in Nat
<1>1. blks \in Seq(Blks) /\ Len(blks) > 0
  BY DEF Bound, HandlersInv
<1>2. Len(blks) \in 1..Len(blks)
  BY ONLY <1>1
<1>3. HeadBlk \in Blks /\ HeadBlk = blks[Len(blks)]
  BY ONLY <1>1, <1>2, ElementOfSeq DEF HeadBlk
<1>. QED
  BY ONLY <1>2, <1>3 DEF Blks

LEMMA ContJumps ==
  ASSUME HandlersInv, phase = "body", Bound, BodyJumps(code, ctl, blks),
         NEW op \in {"JL", "JLNZ"}, NEW c, c = Append(code, Jump(op, HeadBlk.start))
  PROVE  BodyJumps(c, ctl, blks)
<1>1. PICK ins : ins = Jump(op, HeadBlk.start)
  OBVIOUS
<1>2. PICK s : s = HeadBlk.start
  OBVIOUS
<1>3. s \in 1..Len(code) + 1 /\ s \in Nat
  <2>1. Len(blks) \in 1..Len(blks) /\ s = blks[Len(blks)].start /\ s \in Nat
    BY ONLY <1>2, HandlersInv, phase = "body", Bound, HeadFacts
  <2>. QED
    BY ONLY <2>1, BodyJumps(code, ctl, blks) DEF BodyJumps, BlkStarts
<1>4. op \in Jumps
  BY DEF Jumps
<1>5. ins \in Instrs /\ ins.to = s
  BY ONLY <1>1, <1>2, <1>3, <1>4, JumpFacts
<1>6. ins.op \in Jumps => ins.to \in 1..Len(code) + 1
  BY ONLY <1>3, <1>5
<1>. QED
  BY ONLY <1>1, <1>5, <1>6, HandlersInv, phase = "body", BodyJumps(code, ctl, blks),
          c = Append(code, Jump(op, HeadBlk.start)), EmitJumps

(* The head of the blks belongs to a handler that waits.                   *)
LEMMA HeadOpen ==
  ASSUME "blkBound" \in Rules, HandlersInv, phase = "body", Bound
  PROVE  \E n \in 1..Len(ctl) : /\ ctl[n].kind = "blk" /\ ctl[n].blk = Len(blks)
                                /\ \A m \in 1..Len(ctl) : ctl[m].kind = "blk" => m <= n
<1>1. OpenBlk = Len(blks) /\ OpenBlk # 0
  BY DEF Bound
<1>2. Handlers(ctl)
  BY ONLY HandlersInv, phase = "body", BodyFacts
<1>. QED
  BY ONLY <1>1, <1>2, OpenBlkFacts

(* The last element of a longer sequence, whatever it is.                  *)
LEMMA AppendAny ==
  ASSUME NEW X, NEW s \in Seq(X), NEW x, NEW n \in Nat, n = Len(s), NEW t, t = Append(s, x)
  PROVE  Len(t) = n + 1 /\ t[n + 1] = x /\ \A i \in 1..n : t[i] = s[i]
OBVIOUS

(* A break that a blk remembers.                                           *)
WithBreak(l, i, br) == [l EXCEPT ![i].breaks = @ \union {br}]

LEMMA BreakBlks ==
  ASSUME NEW l \in Seq(Blks), NEW i \in 1..Len(l), NEW br \in Breaks,
         NEW b, b = WithBreak(l, i, br)
  PROVE  /\ SameBlks(l, b) /\ Len(b) = Len(l)
         /\ b[i].breaks = l[i].breaks \union {br} /\ b[i].endTyI = l[i].endTyI
         /\ b[i].startTyI = l[i].startTyI
         /\ \A j \in 1..Len(l) : j # i => b[j] = l[j]
<1>0. b = [l EXCEPT ![i].breaks = @ \union {br}]
  BY DEF WithBreak
<1>1. Len(b) = Len(l)
  BY <1>0, BreaksTyped
<1>2. \A j \in 1..Len(l) : l[j] \in Blks /\ j \in DOMAIN l
  BY ElementOfSeq
<1>3. \A j \in 1..Len(l) : j # i => b[j] = l[j]
  BY <1>0, <1>2
<1>4. b[i] = [l[i] EXCEPT !.breaks = l[i].breaks \union {br}]
  BY <1>0, <1>2
<1>5. /\ b[i].breaks = l[i].breaks \union {br} /\ b[i].start = l[i].start
      /\ b[i].endTyI = l[i].endTyI /\ b[i].startTyI = l[i].startTyI
  BY ONLY <1>2, <1>4, i \in 1..Len(l) DEF Blks
<1>6. SameBlks(l, b)
  BY ONLY <1>3, <1>5 DEF SameBlks
<1>. QED
  BY <1>1, <1>3, <1>5, <1>6

LEMMA SameBlksFacts ==
  ASSUME NEW bs, NEW cs, SameBlks(bs, cs), Len(cs) = Len(bs), NEW k, NEW m
  PROVE  /\ BlkFrames(k, bs) => BlkFrames(k, cs)
         /\ BlkStarts(bs, m) => BlkStarts(cs, m)
         /\ \A ds : SameBlks(cs, ds) => SameBlks(bs, ds)
BY DEF SameBlks, BlkFrames, BlkStarts

(* The RET at the end is no jump.                                          *)
LEMMA FinishJumps ==
  ASSUME JumpsInv, HandlersInv', NEW d, NEW c \in Seq(Instrs), Targets(c, {}), Finish(d, c)
  PROVE  JumpsInv'
<1>1. CASE phase' = "run"
  <2>1. code' = c \/ code' = Append(c, RetI)
    BY <1>1 DEF Finish, Panic
  <2>2. Targets(code', {})
    <3>1. CASE code' = c
      BY ONLY Targets(c, {}), <3>1
    <3>2. CASE code' = Append(c, RetI)
      <4>1. PICK ins : ins = RetI
        OBVIOUS
      <4>2. PICK G : G = {}
        OBVIOUS
      <4>3. ins \in Instrs /\ Aimed(ins, Len(c), G)
        BY ONLY <4>1, RetFacts DEF Aimed, Jumps
      <4>4. PICK e : e = Append(c, ins)
        OBVIOUS
      <4>5. Targets(c, G) /\ c \in Seq(Instrs) /\ G \subseteq G
        BY ONLY Targets(c, {}), c \in Seq(Instrs), <4>2
      <4>6. Targets(e, G)
        BY ONLY <4>3, <4>4, <4>5, TargetsAppend
      <4>. QED
        BY ONLY <3>2, <4>1, <4>2, <4>4, <4>6
    <3>. QED
      BY ONLY <2>1, <3>1, <3>2
  <2>. QED
    BY ONLY HandlersInv', <1>1, <2>2 DEF JumpsInv
<1>2. CASE phase' # "run"
  <2>1. phase' = "panic"
    BY <1>2 DEF Finish, Panic
  <2>. QED
    BY ONLY HandlersInv', <2>1 DEF JumpsInv
<1>. QED
  BY ONLY <1>1, <1>2

LEMMA JumpsStep ==
  ASSUME JumpsInv, [Next]_vars, "blkBound" \in Rules
  PROVE  JumpsInv'
<1>0. HandlersInv /\ HandlersInv'
  BY HandlersStep DEF JumpsInv
<1>b. ASSUME phase = "body"
      PROVE  /\ BodyJumps(code, ctl, blks) /\ Targets(code, Owing(ctl, blks))
             /\ BlkFrames(ctl, blks) /\ BlkStarts(blks, Len(code))
             /\ Handlers(ctl) /\ Top = ctl[Len(ctl)] /\ code \in Seq(Instrs)
             /\ Len(code) \in Nat /\ Top \in Frames /\ blks \in Seq(Blks)
  <2>1. BodyJumps(code, ctl, blks)
    BY <1>b DEF JumpsInv
  <2>. QED
    BY ONLY <1>0, <1>b, <2>1, BodyFacts DEF BodyJumps
<1>1. CASE UNCHANGED vars
  BY <1>0, <1>1 DEF vars, JumpsInv, BodyJumps, Targets
<1>2. CASE parseFn
  <2>1. phase = "start" /\ blks = << >>
    BY <1>2 DEF parseFn, JumpsInv
  <2>2. CASE phase' = "body"
    <3>1. /\ code' = [j \in 1..Len(fn.loc) |-> SrLocal(Reverse(fn.loc)[j])]
          /\ ctl' = <<Frame("fn")>> /\ blks' = blks
      BY <1>2, <2>2 DEF parseFn, Panic
    <3>2. \A j \in 1..Len(code') : code'[j].op = "SRLL"
      <4>1. fn.loc \in Seq(Types)
        BY <1>0, FnSigsAssumption DEF HandlersInv
      <4>2. PICK n \in Nat : n = Len(fn.loc)
        BY <4>1
      <4>3. Len(code') = n
        BY ONLY <3>1, <4>2, n \in Nat
      <4>4. \A j \in 1..n : code'[j] = SrLocal(Reverse(fn.loc)[j])
        BY ONLY <3>1, <4>2
      <4>. QED
        BY ONLY <4>3, <4>4 DEF SrLocal, Instr
    <3>3. Targets(code', Owing(ctl', blks'))
      BY ONLY <3>2 DEF Targets, Jumps
    <3>4. BlkFrames(ctl', blks')
      BY ONLY <3>1 DEF BlkFrames, Frame
    <3>5. BlkStarts(blks', Len(code'))
      BY ONLY <2>1, <3>1 DEF BlkStarts
    <3>. QED
      BY ONLY <1>0, <2>2, <3>3, <3>4, <3>5 DEF JumpsInv, BodyJumps
  <2>3. CASE phase' # "body"
    <3>1. phase' = "panic"
      BY <1>2, <2>3 DEF parseFn, Panic
    <3>. QED
      BY ONLY <1>0, <3>1 DEF JumpsInv
  <2>. QED
    BY <2>2, <2>3
<1>3. ASSUME NEW sig \in Sigs, compileFn(sig) PROVE JumpsInv'
  <2>1. phase = "body"
    BY <1>3 DEF compileFn, Room
  <2>2. PICK e : e = tyCall(db, sig.inp, sig.out)
    OBVIOUS
  <2>3. PICK c : c = Append(code, CallI(sig))
    OBVIOUS
  <2>4. Step(e, c, ctl, blks)
    BY <1>3, <2>2, <2>3 DEF compileFn
  <2>5. BodyJumps(c, ctl, blks)
    <3>1. PICK ins : ins = CallI(sig)
      OBVIOUS
    <3>2. ins \in Instrs /\ ins.op \notin Jumps
      BY <3>1, CallFacts DEF Jumps
    <3>3. BodyJumps(code, ctl, blks)
      BY ONLY <1>b, <2>1
    <3>. QED
      BY ONLY <1>0, <2>1, <2>3, <3>1, <3>2, <3>3, EmitJumps
  <2>. QED
    BY ONLY <1>0, <2>1, <2>4, <2>5, JumpsInv, StepJumps
<1>4. CASE N_ret
  <2>1. phase = "body"
    BY <1>4 DEF N_ret, Room
  <2>2. PICK e : e = tyRet(db, fn.out, RET_DONE)
    OBVIOUS
  <2>3. PICK c : c = Append(code, RetI)
    OBVIOUS
  <2>4. Step(e, c, ctl, blks)
    BY <1>4, <2>2, <2>3 DEF N_ret
  <2>5. BodyJumps(c, ctl, blks)
    <3>1. PICK ins : ins = RetI
      OBVIOUS
    <3>2. ins \in Instrs /\ ins.op \notin Jumps
      BY <3>1, RetFacts DEF Jumps
    <3>3. BodyJumps(code, ctl, blks)
      BY ONLY <1>b, <2>1
    <3>. QED
      BY ONLY <1>0, <2>1, <2>3, <3>1, <3>2, <3>3, EmitJumps
  <2>. QED
    BY ONLY <1>0, <2>1, <2>4, <2>5, JumpsInv, StepJumps
<1>5. CASE N_if
  <2>1. phase = "body"
    BY <1>5 DEF N_if, Room
  <2>2. PICK f : f = [Frame("if") EXCEPT !.i = Len(code) + 1]
    OBVIOUS
  <2>3. PICK k : k = Append(ctl, f)
    OBVIOUS
  <2>4. PICK c : c = Append(code, Condition)
    OBVIOUS
  <2>5. PICK e : Step(e, c, k, blks)
    BY <1>5, <2>2, <2>3, <2>4 DEF N_if, Condition
  <2>6. /\ f \in Frames /\ f.kind = "if" /\ f.i = Len(code) + 1 /\ f.ends = {}
    <3>1. Len(code) + 1 \in Nat
      BY ONLY <1>b, <2>1
    <3>. QED
      BY ONLY <2>2, <3>1, IfFrame
  <2>7. f.kind # "fn" /\ f.kind # "blk" /\ Owed(f, blks) = {Len(code) + 1}
    BY ONLY <2>6 DEF Owed
  <2>8. /\ Owing(k, blks) = Owing(ctl, blks) \union {Len(code) + 1}
        /\ BlkFrames(k, blks)
    <3>1. Handlers(ctl) /\ BlkFrames(ctl, blks)
      BY ONLY <1>b, <2>1
    <3>2. /\ Owing(k, blks) = Owing(ctl, blks) \union Owed(f, blks)
          /\ BlkFrames(k, blks)
      BY ONLY <2>3, <2>6, <2>7, <3>1, OwingAppend
    <3>. QED
      BY ONLY <2>7, <3>2
  <2>9. Targets(c, Owing(k, blks)) /\ Len(c) = Len(code) + 1
    <3>1. PICK ins : ins = Condition
      OBVIOUS
    <3>2. PICK G : G = Owing(k, blks)
      OBVIOUS
    <3>3. ins \in Instrs /\ Aimed(ins, Len(code), G)
      BY ONLY <2>8, <3>1, <3>2, CondJumpFacts DEF Aimed
    <3>4. /\ code \in Seq(Instrs) /\ Targets(code, Owing(ctl, blks))
          /\ Owing(ctl, blks) \subseteq G
      BY ONLY <1>b, <2>1, <2>8, <3>2
    <3>. QED
      BY ONLY <2>4, <3>1, <3>2, <3>3, <3>4, TargetsAppend
  <2>10. BlkStarts(blks, Len(c))
    BY ONLY <1>b, <2>1, <2>9 DEF BlkStarts
  <2>11. BodyJumps(c, k, blks)
    BY ONLY <2>8, <2>9, <2>10 DEF BodyJumps
  <2>. QED
    BY ONLY <1>0, <2>1, <2>5, <2>11, JumpsInv, StepJumps
<1>6. CASE N_if_elif
  <2>1. phase = "body" /\ Top.kind = "if"
    BY <1>6 DEF N_if_elif, Waits
  <2>2. PICK t : t = tyIf(db, Top.is)
    OBVIOUS
  <2>3. PICK e : e = tyClone(t.db, 0)
    OBVIOUS
  <2>4. PICK x : x = Len(code) + 1
    OBVIOUS
  <2>5. PICK f : f = Branched(Top, "elif", t.is, x)
    OBVIOUS
  <2>6. PICK c : c = ElseJump(code, Top.i)
    OBVIOUS
  <2>7. Step(e, c, Replace(f), blks)
    BY <1>6, <2>2, <2>3, <2>4, <2>5, <2>6 DEF N_if_elif, Branched
  <2>8. f \in Frames /\ f.kind \in {"elif", "else"} /\ f.ends = Top.ends \union {x}
    <3>1. Top \in Frames /\ x \in Nat /\ Top.is \in IfStates
      BY ONLY <1>b, <2>1, <2>4 DEF Frames
    <3>2. t.is \in IfStates
      BY ONLY <1>0, <2>1, <2>2, <3>1, BodyFacts, TyIfView
    <3>. QED
      BY ONLY <2>5, <3>1, <3>2, BranchFrame
  <2>9. BodyJumps(c, Replace(f), blks)
    BY ONLY <1>0, <1>b, <2>1, <2>4, <2>6, <2>8, BranchJumps
  <2>. QED
    BY ONLY <1>0, <2>1, <2>7, <2>9, JumpsInv, StepJumps
<1>7. CASE N_if_elifDo
  <2>1. phase = "body" /\ Top.kind = "elif"
    BY <1>7 DEF N_if_elifDo, Waits
  <2>2. PICK x : x = Len(code) + 1
    OBVIOUS
  <2>3. PICK f : f = Conditioned(Top, x)
    OBVIOUS
  <2>4. PICK c : c = Append(code, Condition)
    OBVIOUS
  <2>5. PICK k : k = [ctl EXCEPT ![Len(ctl)] = f]
    OBVIOUS
  <2>6. PICK e : Step(e, c, k, blks)
    BY <1>7, <2>2, <2>3, <2>4, <2>5 DEF N_if_elifDo, Condition, Conditioned, Replace
  <2>7. f \in Frames /\ f.kind = "if" /\ f.i = x /\ f.ends = Top.ends
    <3>1. Top \in Frames /\ x \in Nat
      BY ONLY <1>b, <2>1, <2>2
    <3>. QED
      BY ONLY <2>3, <3>1, CondFrame
  <2>8. /\ f.kind # "fn" /\ f.kind # "blk" /\ Owed(f, blks) = Top.ends \union {x}
        /\ Owed(Top, blks) = Top.ends
    BY ONLY <2>1, <2>7 DEF Owed
  <2>9. /\ Owing(ctl, blks) \subseteq Owing(k, blks) /\ x \in Owing(k, blks)
        /\ BlkFrames(k, blks)
    <3>1. /\ Handlers(ctl) /\ BlkFrames(ctl, blks) /\ Top = ctl[Len(ctl)]
          /\ ctl[Len(ctl)].kind # "fn"
      BY ONLY <1>b, <2>1
    <3>2. /\ Owing(ctl, blks) \subseteq Owing(k, blks) \union Owed(ctl[Len(ctl)], blks)
          /\ Owed(f, blks) \subseteq Owing(k, blks)
          /\ BlkFrames(k, blks)
      BY ONLY <2>5, <2>7, <2>8, <3>1, OwingReplace
    <3>. QED
      BY ONLY <2>8, <3>1, <3>2
  <2>10. Targets(c, Owing(k, blks)) /\ Len(c) = Len(code) + 1
    <3>1. PICK ins : ins = Condition
      OBVIOUS
    <3>2. PICK G : G = Owing(k, blks)
      OBVIOUS
    <3>3. ins \in Instrs /\ Aimed(ins, Len(code), G)
      BY ONLY <2>2, <2>9, <3>1, <3>2, CondJumpFacts DEF Aimed
    <3>4. /\ code \in Seq(Instrs) /\ Targets(code, Owing(ctl, blks))
          /\ Owing(ctl, blks) \subseteq G
      BY ONLY <1>b, <2>1, <2>9, <3>2
    <3>. QED
      BY ONLY <2>4, <3>1, <3>2, <3>3, <3>4, TargetsAppend
  <2>11. BlkStarts(blks, Len(c))
    BY ONLY <1>b, <2>1, <2>10 DEF BlkStarts
  <2>12. BodyJumps(c, k, blks)
    BY ONLY <2>9, <2>10, <2>11 DEF BodyJumps
  <2>. QED
    BY ONLY <1>0, <2>1, <2>6, <2>12, JumpsInv, StepJumps
<1>8. CASE N_if_else
  <2>1. phase = "body" /\ Top.kind = "if"
    BY <1>8 DEF N_if_else, Waits
  <2>2. PICK t : t = tyIf(db, Top.is)
    OBVIOUS
  <2>4. PICK x : x = Len(code) + 1
    OBVIOUS
  <2>5. PICK f : f = Branched(Top, "else", t.is, x)
    OBVIOUS
  <2>6. PICK c : c = ElseJump(code, Top.i)
    OBVIOUS
  <2>7. Step(t.db, c, Replace(f), blks)
    BY <1>8, <2>2, <2>4, <2>5, <2>6 DEF N_if_else, Branched
  <2>8. f \in Frames /\ f.kind \in {"elif", "else"} /\ f.ends = Top.ends \union {x}
    <3>1. Top \in Frames /\ x \in Nat /\ Top.is \in IfStates
      BY ONLY <1>b, <2>1, <2>4 DEF Frames
    <3>2. t.is \in IfStates
      BY ONLY <1>0, <2>1, <2>2, <3>1, BodyFacts, TyIfView
    <3>. QED
      BY ONLY <2>5, <3>1, <3>2, BranchFrame
  <2>9. BodyJumps(c, Replace(f), blks)
    BY ONLY <1>0, <1>b, <2>1, <2>4, <2>6, <2>8, BranchJumps
  <2>. QED
    BY ONLY <1>0, <2>1, <2>7, <2>9, JumpsInv, StepJumps
<1>9. CASE N_if_end
  <2>0. PICK kind \in {"if", "else"} : \E e : Waits(kind) /\
          LET H == IF kind = "if" THEN Top.ends \union {Top.i} ELSE Top.ends
          IN  Step(e, endJumps(code, H), Pop, blks)
    BY <1>9 DEF N_if_end
  <2>1. PICK e : Waits(kind) /\
          LET H == IF kind = "if" THEN Top.ends \union {Top.i} ELSE Top.ends
          IN  Step(e, endJumps(code, H), Pop, blks)
    BY <2>0
  <2>2. phase = "body" /\ Top.kind = kind
    BY <2>1 DEF Waits
  <2>3. PICK H : H = IF kind = "if" THEN Top.ends \union {Top.i} ELSE Top.ends
    OBVIOUS
  <2>4. PICK c : c = endJumps(code, H)
    OBVIOUS
  <2>5. PICK k : k = SubSeq(ctl, 1, Len(ctl) - 1)
    OBVIOUS
  <2>6. Step(e, c, k, blks)
    BY ONLY <2>1, <2>3, <2>4, <2>5 DEF Pop
  <2>7. Owed(Top, blks) = H /\ Top.kind # "fn"
    BY ONLY kind \in {"if", "else"}, <2>2, <2>3 DEF Owed
  <2>8. Owing(ctl, blks) \subseteq Owing(k, blks) \union H /\ BlkFrames(k, blks)
    <3>1. /\ Handlers(ctl) /\ BlkFrames(ctl, blks) /\ Top = ctl[Len(ctl)]
          /\ ctl[Len(ctl)].kind # "fn"
      BY ONLY <1>b, <2>2, <2>7
    <3>2. /\ Owing(ctl, blks) \subseteq Owing(k, blks) \union Owed(ctl[Len(ctl)], blks)
          /\ BlkFrames(k, blks)
      BY ONLY <2>5, <3>1, OwingPop
    <3>. QED
      BY ONLY <2>7, <3>1, <3>2
  <2>9. Targets(c, Owing(k, blks)) /\ Len(c) = Len(code)
    <3>1. code \in Seq(Instrs) /\ Targets(code, Owing(ctl, blks))
      BY ONLY <1>b, <2>2
    <3>. QED
      BY ONLY <2>4, <2>8, <3>1, TargetsEnd
  <2>10. BodyJumps(c, k, blks)
    BY ONLY <1>b, <2>2, <2>8, <2>9 DEF BodyJumps
  <2>. QED
    BY ONLY <1>0, <2>2, <2>6, <2>10, JumpsInv, StepJumps
<1>10. CASE N_blk
  <2>1. phase = "body"
    BY <1>10 DEF N_blk, Room
  <2>2. PICK f : f = [Frame("blk") EXCEPT !.blk = Len(blks) + 1]
    OBVIOUS
  <2>3. PICK k : k = Append(ctl, f)
    OBVIOUS
  <2>4. PICK h : h = Blk(Len(code) + 1, TypesOf(TyDb_top(db)))
    OBVIOUS
  <2>5. PICK b : b = Append(blks, h)
    OBVIOUS
  <2>6. Step(db, code, k, b)
    BY <1>10, <2>2, <2>3, <2>4, <2>5 DEF N_blk
  <2>7. PICK m \in Nat : m = Len(blks)
    BY <1>b, <2>1
  <2>8. Len(b) = m + 1 /\ b[m + 1] = h /\ \A i \in 1..m : b[i] = blks[i]
    <3>1. blks \in Seq(Blks)
      BY ONLY <1>b, <2>1
    <3>2. h.start = Len(code) + 1
      BY ONLY <2>4 DEF Blk
    <3>. QED
      BY ONLY <2>5, <2>7, <3>1, AppendAny
  <2>9. h.start = Len(code) + 1
    BY ONLY <2>4 DEF Blk
  <2>10. BlkStarts(b, Len(code)) /\ SameBlks(blks, b) /\ BlkFrames(ctl, b)
    <3>1. BlkStarts(blks, Len(code)) /\ BlkFrames(ctl, blks) /\ Len(code) \in Nat
      BY ONLY <1>b, <2>1
    <3>2. BlkStarts(b, Len(code))
      BY ONLY <2>7, <2>8, <2>9, <3>1, m \in Nat DEF BlkStarts
    <3>3. SameBlks(blks, b)
      BY ONLY <2>7, <2>8 DEF SameBlks
    <3>4. BlkFrames(ctl, b)
      BY ONLY <2>7, <2>8, <3>1, m \in Nat DEF BlkFrames
    <3>. QED
      BY <3>2, <3>3, <3>4
  <2>11. Owing(ctl, blks) \subseteq Owing(k, b) /\ BlkFrames(k, b)
    <3>1. Handlers(ctl) /\ BlkFrames(ctl, blks) /\ m + 1 \in Nat
      BY ONLY <1>b, <2>1, m \in Nat
    <3>2. f \in Frames /\ f.kind = "blk" /\ f.blk = m + 1
      BY ONLY <2>2, <2>7, <3>1, BlkFrame
    <3>3. f.kind # "fn" /\ f.blk \in 1..Len(b)
      BY ONLY <2>8, <3>2, m \in Nat
    <3>4. Owing(ctl, blks) \subseteq Owing(ctl, b)
      BY ONLY <2>10, <3>1, OwingSame
    <3>5. Owing(k, b) = Owing(ctl, b) \union Owed(f, b) /\ BlkFrames(k, b)
      BY ONLY <2>3, <2>10, <3>1, <3>2, <3>3, OwingAppend
    <3>. QED
      BY ONLY <3>4, <3>5
  <2>12. BodyJumps(code, k, b)
    <3>1. Targets(code, Owing(ctl, blks))
      BY ONLY <1>b, <2>1
    <3>. QED
      BY ONLY <2>10, <2>11, <3>1 DEF BodyJumps, Targets
  <2>. QED
    BY ONLY <1>0, <2>1, <2>6, <2>12, JumpsInv, StepJumps
<1>11. ASSUME NEW op \in {"JL", "JLNZ"}, Cont(op) PROVE JumpsInv'
  <2>1. phase = "body" /\ Bound
    BY <1>11 DEF Cont, Room
  <2>2. PICK e : e = tyCont(db, op)
    OBVIOUS
  <2>3. PICK c : c = Append(code, Jump(op, HeadBlk.start))
    OBVIOUS
  <2>4. Step(e, c, ctl, blks)
    BY <1>11, <2>2, <2>3 DEF Cont
  <2>5. BodyJumps(c, ctl, blks)
    BY ONLY <1>0, <1>b, <2>1, <2>3, op \in {"JL", "JLNZ"}, ContJumps
  <2>. QED
    BY ONLY <1>0, <2>1, <2>4, <2>5, JumpsInv, StepJumps
<1>12. CASE N_break
  <2>1. phase = "body" /\ Bound
    BY <1>12 DEF N_break, Room
  <2>2. PICK t : t = tyBreak(db)
    OBVIOUS
  <2>3. PICK br : br = [at |-> Len(code) + 1, tys |-> TypesOf(TyDb_top(db))]
    OBVIOUS
  <2>4. PICK i : i = Len(blks)
    OBVIOUS
  <2>5. PICK l : l = t.blks
    OBVIOUS
  <2>6. PICK b : b = WithBreak(l, i, br)
    OBVIOUS
  <2>7. PICK c : c = Append(code, Jump("JL", 0))
    OBVIOUS
  <2>8. Step(t.db, c, ctl, b)
    BY <1>12, <2>2, <2>3, <2>4, <2>5, <2>6, <2>7 DEF N_break, WithBreak
  <2>9. Db(db)
    BY ONLY <1>0, <2>1, BodyFacts
  <2>10. l \in Seq(Blks) /\ Len(l) = i /\ SameBlks(blks, l)
    BY ONLY <1>0, <2>1, <2>2, <2>4, <2>5, <2>9, BreakTyped, BreakSame
  <2>11. i \in 1..i
    BY ONLY <1>0, <2>1, <2>4, HeadFacts
  <2>12. br \in Breaks /\ br.at = Len(code) + 1
    <3>1. TypesOf(TyDb_top(db)) \in Seq(Types)
      BY ONLY <2>9, GoodFacts, TypesOfSeq DEF Db
    <3>2. Len(code) + 1 \in Nat
      BY ONLY <1>b, <2>1
    <3>. QED
      BY ONLY <2>3, <3>1, <3>2 DEF Breaks
  <2>13. SameBlks(l, b) /\ Len(b) = Len(l) /\ br \in b[i].breaks
    <3>1. i \in 1..Len(l) /\ l \in Seq(Blks) /\ br \in Breaks
      BY ONLY <2>10, <2>11, <2>12
    <3>2. SameBlks(l, b) /\ Len(b) = Len(l) /\ b[i].breaks = l[i].breaks \union {br}
      BY ONLY <2>6, <3>1, BreakBlks
    <3>. QED
      BY ONLY <3>2
  <2>14. SameBlks(blks, b) /\ Len(b) = Len(blks)
    BY ONLY <2>4, <2>10, <2>13, SameBlksFacts
  <2>15. Owing(ctl, blks) \subseteq Owing(ctl, b) /\ Len(code) + 1 \in Owing(ctl, b)
    <3>1. Owing(ctl, blks) \subseteq Owing(ctl, b)
      BY ONLY <1>b, <2>1, <2>14, OwingSame
    <3>2. PICK n \in 1..Len(ctl) : ctl[n].kind = "blk" /\ ctl[n].blk = Len(blks)
      BY ONLY "blkBound" \in Rules, <1>0, <2>1, HeadOpen
    <3>3. Owed(ctl[n], b) = {r.at : r \in b[i].breaks}
      BY ONLY <2>4, <3>2 DEF Owed
    <3>4. Len(code) + 1 \in Owed(ctl[n], b)
      BY ONLY <2>12, <2>13, <3>3
    <3>. QED
      BY ONLY <3>1, <3>4, n \in 1..Len(ctl) DEF Owing
  <2>16. Targets(c, Owing(ctl, b)) /\ Len(c) = Len(code) + 1
    <3>1. PICK ins : ins = Jump("JL", 0)
      OBVIOUS
    <3>2. PICK G : G = Owing(ctl, b)
      OBVIOUS
    <3>3. ins \in Instrs /\ Aimed(ins, Len(code), G)
      BY ONLY <2>15, <3>1, <3>2, OpenJumpFacts DEF Aimed
    <3>4. /\ code \in Seq(Instrs) /\ Targets(code, Owing(ctl, blks))
          /\ Owing(ctl, blks) \subseteq G
      BY ONLY <1>b, <2>1, <2>15, <3>2
    <3>. QED
      BY ONLY <2>7, <3>1, <3>2, <3>3, <3>4, TargetsAppend
  <2>17. BlkFrames(ctl, b) /\ BlkStarts(b, Len(c))
    <3>1. BlkFrames(ctl, b) /\ BlkStarts(b, Len(code))
      BY ONLY <1>b, <2>1, <2>14, SameBlksFacts
    <3>. QED
      BY ONLY <1>b, <2>1, <2>16, <3>1 DEF BlkStarts
  <2>18. BodyJumps(c, ctl, b)
    BY ONLY <2>16, <2>17 DEF BodyJumps
  <2>. QED
    BY ONLY <1>0, <2>1, <2>8, <2>18, JumpsInv, StepJumps
<1>13. ASSUME NEW while \in BOOLEAN, N_blk_end(while) PROVE JumpsInv'
  <2>1. Waits("blk") /\ (while => Bound)
    BY <1>13 DEF N_blk_end
  <2>2. phase = "body" /\ Top.kind = "blk"
    BY ONLY <2>1 DEF Waits
  <2>3. Db(db)
    BY ONLY <1>0, <2>2, BodyFacts
  <2>4. PICK d0 : d0 = IF while THEN tyCont(db, "JLNZ") ELSE db
    OBVIOUS
  <2>5. PICK c0 : c0 = IF while THEN Append(code, Jump("JLNZ", HeadBlk.start)) ELSE code
    OBVIOUS
  <2>6. PICK t : t = IF TyDb_done(d0) = NOT_DONE THEN tyBreak(d0)
                     ELSE [db |-> d0, blks |-> blks]
    OBVIOUS
  <2>7. PICK l : l = t.blks
    OBVIOUS
  <2>8. PICK brs : brs = l[Top.blk].breaks
    OBVIOUS
  <2>9. PICK d2 : d2 = IF blkClears(brs, t.db) THEN TyDb_clearDone(t.db) ELSE t.db
    OBVIOUS
  <2>10. PICK X : X = {br.at : br \in brs}
    OBVIOUS
  <2>11. PICK c : c = endJumps(c0, X)
    OBVIOUS
  <2>12. PICK k : k = SubSeq(ctl, 1, Len(ctl) - 1)
    OBVIOUS
  <2>13. Step(d2, c, k, l)
    BY <1>13, <2>4, <2>5, <2>6, <2>7, <2>8, <2>9, <2>10, <2>11, <2>12 DEF N_blk_end, Pop
  <2>14. SameBlks(blks, l) /\ Len(l) = Len(blks)
    <3>1. CASE TyDb_done(d0) = NOT_DONE
      <4>1. t = tyBreak(d0)
        BY ONLY <2>6, <3>1
      <4>2. Db(d0)
        <5>1. "JLNZ" \in {"JL", "JLNZ"}
          OBVIOUS
        <5>2. Stays(db, tyCont(db, "JLNZ")) /\ Stays(db, db)
          BY ONLY <2>3, <5>1, ContStays, SameStays
        <5>. QED
          BY ONLY <2>4, <5>2 DEF Stays, Kept
      <4>. QED
        BY ONLY <1>0, <2>2, <2>7, <4>1, <4>2, BreakSame
    <3>2. CASE TyDb_done(d0) # NOT_DONE
      BY ONLY <2>6, <2>7, <3>2 DEF SameBlks
    <3>. QED
      BY ONLY <3>1, <3>2
  <2>15. BodyJumps(c0, ctl, blks) /\ c0 \in Seq(Instrs)
    <3>1. CASE while
      <4>1. c0 = Append(code, Jump("JLNZ", HeadBlk.start)) /\ "JLNZ" \in {"JL", "JLNZ"}
        BY ONLY <2>5, <3>1
      <4>2. BodyJumps(c0, ctl, blks)
        BY ONLY <1>0, <1>b, <2>1, <2>2, <3>1, <4>1, ContJumps
      <4>3. Jump("JLNZ", HeadBlk.start) \in Instrs
        <5>1. "JLNZ" \in Jumps /\ HeadBlk.start \in Nat
          BY ONLY <1>0, <2>1, <2>2, <3>1, HeadFacts DEF Jumps
        <5>. QED
          BY ONLY <5>1, JumpFacts
      <4>4. code \in Seq(Instrs)
        BY ONLY <1>b, <2>2
      <4>5. c0 \in Seq(Instrs)
        BY ONLY <4>1, <4>3, <4>4, AppendProperties
      <4>. QED
        BY ONLY <4>2, <4>5
    <3>2. CASE ~while
      BY ONLY <1>b, <2>2, <2>5, <3>2
    <3>. QED
      BY ONLY <3>1, <3>2
  <2>16. Owed(Top, l) = X
    BY ONLY <2>2, <2>8, <2>10 DEF Owed
  <2>17. /\ Owing(ctl, blks) \subseteq Owing(k, l) \union X /\ BlkFrames(k, l)
         /\ BlkStarts(l, Len(c0))
    <3>1. BlkFrames(ctl, blks) /\ BlkStarts(blks, Len(c0))
      BY ONLY <2>15 DEF BodyJumps
    <3>2. BlkFrames(ctl, l) /\ BlkStarts(l, Len(c0))
      BY ONLY <2>14, <3>1, SameBlksFacts
    <3>3. Owing(ctl, blks) \subseteq Owing(ctl, l)
      BY ONLY <2>14, <3>1, OwingSame
    <3>4. Handlers(ctl) /\ Top = ctl[Len(ctl)] /\ ctl[Len(ctl)].kind # "fn"
      BY ONLY <1>b, <2>2
    <3>5. /\ Owing(ctl, l) \subseteq Owing(k, l) \union Owed(ctl[Len(ctl)], l)
          /\ BlkFrames(k, l)
      BY ONLY <2>12, <3>2, <3>4, OwingPop
    <3>. QED
      BY ONLY <2>16, <3>2, <3>3, <3>4, <3>5
  <2>18. Targets(c, Owing(k, l)) /\ Len(c) = Len(c0)
    <3>1. Targets(c0, Owing(ctl, blks))
      BY ONLY <2>15 DEF BodyJumps
    <3>. QED
      BY ONLY <2>11, <2>15, <2>17, <3>1, TargetsEnd
  <2>19. BodyJumps(c, k, l)
    BY ONLY <2>17, <2>18 DEF BodyJumps
  <2>. QED
    BY ONLY <1>0, <2>2, <2>13, <2>19, JumpsInv, StepJumps
<1>14. CASE parseFn_end
  <2>1. phase = "body" /\ Top.kind = "fn"
    BY <1>14 DEF parseFn_end, Waits
  <2>2. Len(ctl) = 1 /\ Top = ctl[1]
    <3>1. Handlers(ctl) /\ Top = ctl[Len(ctl)]
      BY ONLY <1>b, <2>1
    <3>. QED
      BY ONLY <2>1, <3>1, TotalFacts
  <2>3. Owing(ctl, blks) = {}
    <3>1. Owed(Top, blks) = {}
      BY ONLY <2>1 DEF Owed
    <3>2. \A n \in 1..Len(ctl) : n = 1
      BY ONLY <2>2
    <3>. QED
      BY ONLY <2>2, <3>1, <3>2 DEF Owing
  <2>4. Targets(code, {}) /\ code \in Seq(Instrs) /\ {} \subseteq {}
    BY ONLY <1>b, <2>1, <2>3
  <2>5. Finish(db, code)
    BY <1>14 DEF parseFn_end
  <2>. QED
    BY ONLY <1>0, <2>4, <2>5, JumpsInv, FinishJumps
<1>17. CASE parseFn_semi
  <2>1. Finish(TyDb_new(db), << >>)
    BY <1>17 DEF parseFn_semi
  <2>2. PICK d : d = TyDb_new(db)
    OBVIOUS
  <2>3. PICK c \in Seq(Instrs) : c = << >>
    <3>1. << >> \in Seq(Instrs)
      OBVIOUS
    <3>. QED
      BY ONLY <3>1
  <2>4. Targets(c, {})
    BY ONLY <2>3 DEF Targets
  <2>5. Finish(d, c)
    BY ONLY <2>1, <2>2, <2>3
  <2>. QED
    BY ONLY <1>0, <2>4, <2>5, JumpsInv, c \in Seq(Instrs), FinishJumps
<1>15. CASE RunStep \/ RunRet
  <2>1. phase = "run" /\ phase' \in {"run", "returned"} /\ code' = code
    BY <1>15 DEF RunStep, RunRet, Running
  <2>2. Targets(code', {})
    BY <2>1 DEF JumpsInv
  <2>. QED
    BY ONLY <1>0, <2>1, <2>2 DEF JumpsInv
<1>16. CASE N_cont \/ N_contIf
  BY <1>11, <1>16 DEF N_cont, N_contIf
<1>. QED
  BY <1>1, <1>2, <1>3, <1>4, <1>5, <1>6, <1>7, <1>8, <1>9, <1>10, <1>12, <1>13,
     <1>14, <1>15, <1>16, <1>17 DEF Next

LEMMA JumpsInit == Init => JumpsInv
<1>. SUFFICES ASSUME Init PROVE JumpsInv
  OBVIOUS
<1>1. HandlersInv
  BY HandlersInit
<1>2. phase = "start" /\ blks = << >>
  BY DEF Init
<1>. QED
  BY ONLY <1>1, <1>2 DEF JumpsInv

LEMMA JumpsTargets == JumpsInv => JumpsHaveTargets
<1>. SUFFICES ASSUME JumpsInv, phase = "run" PROVE JumpsHaveTargets
  BY DEF JumpsHaveTargets
<1>1. Targets(code, {}) /\ code \in Seq(Instrs)
  BY DEF JumpsInv, HandlersInv
<1>2. DOMAIN code = 1..Len(code)
  BY <1>1
<1>. QED
  BY ONLY <1>1, <1>2 DEF Targets, JumpsHaveTargets, Jumps

(***************************************************************************)
(* When break, cont and while belong to the blk opened last, every jump of *)
(* a finished function has its target, typed or not: each handler ends the *)
(* jumps it owes, and a break is owed by a handler that still waits.       *)
(***************************************************************************)
THEOREM JumpsAimed ==
  ASSUME "blkBound" \in Rules
  PROVE  Spec => []JumpsHaveTargets
BY JumpsInit, JumpsStep, JumpsTargets, PTL DEF Spec

-----------------------------------------------------------------------------
(* The code is well typed.                                                 *)

(***************************************************************************)
(* What is asked of the source and of the types: every rule is kept,       *)
(* nothing is compiled under `unty', and a value that is given where a     *)
(* type is required can be given wherever that type can: TyI_check has it  *)
(* so for all types but &Any.                                              *)
(***************************************************************************)
Reflexive  == \A t \in Types : <<t, t>> \in Accepts
Transitive == \A r, t, g \in Types :
                (<<r, t>> \in Accepts /\ <<t, g>> \in Accepts) => <<r, g>> \in Accepts
KeepsRules == Rules = RuleNames /\ ~Unty /\ Reflexive /\ Transitive

LEMMA CheckSame ==
  ASSUME KeepsRules, NEW s \in Seq(Types)
  PROVE  tyCheck(s, s, TRUE) /\ tyCheck(<< >>, s, FALSE)
<1>1. PICK n \in Nat : n = Len(s)
  OBVIOUS
<1>2. \A k \in 1..n : s[k] \in Types /\ n - n + k = k
  BY <1>1
<1>3. \A k \in 1..n : <<s[k], s[n - n + k]>> \in Accepts
  BY <1>2 DEF KeepsRules, Reflexive
<1>4. tyCheck(s, s, TRUE)
  BY <1>1, <1>3 DEF tyCheck
<1>5. Len(<< >>) = 0 /\ 1..0 = {}
  OBVIOUS
<1>6. tyCheck(<< >>, s, FALSE)
  BY <1>1, <1>5 DEF tyCheck
<1>. QED
  BY <1>4, <1>6

(* Values of the types t, or of others that may be given for them.         *)
LEMMA CheckThrough ==
  ASSUME KeepsRules, NEW r \in Seq(Types), NEW t \in Seq(Types), NEW g \in Seq(Types),
         NEW same \in BOOLEAN, tyCheck(r, t, same), tyCheck(t, g, TRUE)
  PROVE  tyCheck(r, g, same)
<1>1. PICK n \in Nat : n = Len(r)
  OBVIOUS
<1>2. PICK m \in Nat : m = Len(t)
  OBVIOUS
<1>3. Len(g) = m /\ m >= n /\ (same => m = n)
  BY <1>1, <1>2 DEF tyCheck
<1>4. \A k \in 1..n : <<r[k], t[m - n + k]>> \in Accepts
  BY <1>1, <1>2 DEF tyCheck
<1>5. \A k \in 1..m : <<t[k], g[m - m + k]>> \in Accepts /\ m - m + k = k
  BY <1>2, <1>3 DEF tyCheck
<1>6. ASSUME NEW k \in 1..n
      PROVE  <<r[k], g[m - n + k]>> \in Accepts
  <2>1. m - n + k \in 1..m
    BY <1>3
  <2>2. <<t[m - n + k], g[m - n + k]>> \in Accepts
    BY <1>5, <2>1
  <2>3. r[k] \in Types /\ t[m - n + k] \in Types /\ g[m - n + k] \in Types
    BY <1>1, <1>2, <1>3, <2>1
  <2>. QED
    BY <1>4, <2>2, <2>3 DEF KeepsRules, Transitive
<1>. QED
  BY <1>1, <1>3, <1>6 DEF tyCheck

(* Of the lower values nothing is asked that was not asked of all.         *)
LEMMA CheckConcat ==
  ASSUME NEW t \in Seq(Types), NEW g \in Seq(Types), tyCheck(t, g, TRUE),
         NEW i \in 0..Len(t),
         NEW o \in Seq(Types), NEW p \in Seq(Types), tyCheck(o, p, TRUE)
  PROVE  /\ SubSeq(g, 1, Len(g) - i) \o p \in Seq(Types)
         /\ tyCheck(SubSeq(t, 1, Len(t) - i) \o o, SubSeq(g, 1, Len(g) - i) \o p, TRUE)
<1>1. PICK n \in Nat : n = Len(t)
  OBVIOUS
<1>2. PICK m \in Nat : m = Len(o)
  OBVIOUS
<1>3. Len(g) = n /\ Len(p) = m
  BY <1>1, <1>2 DEF tyCheck
<1>4. PICK l \in Nat : l = n - i /\ l <= n
  <2>1. i \in 0..n
    BY <1>1
  <2>2. n - i \in Nat /\ n - i <= n
    BY <2>1
  <2>. QED
    BY <2>2
<1>5. PICK a : a = SubSeq(t, 1, l)
  OBVIOUS
<1>6. PICK b : b = SubSeq(g, 1, l)
  OBVIOUS
<1>7. /\ a \in Seq(Types) /\ Len(a) = l /\ \A j \in 1..l : a[j] = t[j]
      /\ b \in Seq(Types) /\ Len(b) = l /\ \A j \in 1..l : b[j] = g[j]
  <2>1. l \in 0..Len(t) /\ l \in 0..Len(g)
    BY ONLY <1>1, <1>3, <1>4, l \in Nat, n \in Nat
  <2>2. a \in Seq(Types) /\ Len(a) = l /\ \A j \in 1..l : a[j] = t[j]
    BY ONLY <1>5, <2>1, t \in Seq(Types), PrefixFacts
  <2>3. b \in Seq(Types) /\ Len(b) = l /\ \A j \in 1..l : b[j] = g[j]
    BY ONLY <1>6, <2>1, g \in Seq(Types), PrefixFacts
  <2>. QED
    BY ONLY <2>2, <2>3
<1>8. /\ a \o o \in Seq(Types) /\ Len(a \o o) = l + m
      /\ \A j \in 1..l + m : (a \o o)[j] = IF j <= l THEN a[j] ELSE o[j - l]
  <2>1. a \in Seq(Types) /\ o \in Seq(Types) /\ l = Len(a) /\ m = Len(o)
    BY ONLY <1>2, <1>7, o \in Seq(Types)
  <2>. QED
    BY ONLY <2>1, l \in Nat, m \in Nat, ConcatFacts
<1>9. /\ b \o p \in Seq(Types) /\ Len(b \o p) = l + m
      /\ \A j \in 1..l + m : (b \o p)[j] = IF j <= l THEN b[j] ELSE p[j - l]
  <2>1. b \in Seq(Types) /\ p \in Seq(Types) /\ l = Len(b) /\ m = Len(p)
    BY ONLY <1>3, <1>7, p \in Seq(Types)
  <2>. QED
    BY ONLY <2>1, l \in Nat, m \in Nat, ConcatFacts
<1>10. /\ \A j \in 1..n : <<t[j], g[n - n + j]>> \in Accepts /\ n - n + j = j
       /\ \A j \in 1..m : <<o[j], p[m - m + j]>> \in Accepts /\ m - m + j = j
  BY <1>1, <1>2, <1>3 DEF tyCheck
<1>11. ASSUME NEW j \in 1..l + m
       PROVE  <<(a \o o)[j], (b \o p)[j]>> \in Accepts
  <2>1. CASE j <= l
    <3>1. j \in 1..n /\ j \in 1..l
      BY <1>4, <2>1
    <3>2. (a \o o)[j] = t[j] /\ (b \o p)[j] = g[j]
      BY <1>7, <1>8, <1>9, <2>1, <3>1
    <3>. QED
      BY <1>10, <3>1, <3>2
  <2>2. CASE ~(j <= l)
    <3>1. j - l \in 1..m
      BY <1>4, <2>2
    <3>2. (a \o o)[j] = o[j - l] /\ (b \o p)[j] = p[j - l]
      BY <1>8, <1>9, <2>2
    <3>3. <<o[j - l], p[j - l]>> \in Accepts
      BY ONLY <1>10, <3>1
    <3>. QED
      BY <3>2, <3>3
  <2>. QED
    BY <2>1, <2>2
<1>12. \A j \in 1..l + m : (l + m) - (l + m) + j = j
  BY <1>4
<1>13. tyCheck(a \o o, b \o p, TRUE)
  BY <1>8, <1>9, <1>11, <1>12 DEF tyCheck
<1>. QED
  BY <1>1, <1>3, <1>4, <1>5, <1>6, <1>9, <1>13

LEMMA GivenFacts ==
  ASSUME NEW tys \in Seq(Types), NEW w \in Given(tys)
  PROVE  w \in Seq(Types) /\ tyCheck(tys, w, TRUE)
<1>1. PICK n \in Nat : n = Len(tys)
  OBVIOUS
<1>2. w \in [1..n -> Types] /\ \A j \in 1..n : <<tys[j], w[j]>> \in Accepts
  BY <1>1 DEF Given
<1>3. w \in Seq(Types) /\ Len(w) = n
  BY <1>2
<1>4. \A j \in 1..n : n - n + j = j
  OBVIOUS
<1>. QED
  BY <1>1, <1>2, <1>3, <1>4 DEF tyCheck

-----------------------------------------------------------------------------
(* A typing T of the code c gives each position that the flow reaches the  *)
(* types of the values there.  The last position is the one behind c.      *)

(* Values of the types a may be on the stack where p is next.              *)
Flows(T, a, p) == p \in DOMAIN T /\ tyCheck(T[p], a, TRUE)

TypedAt(T, ins, out, j) ==
  LET a == After(ins, T[j]) IN
  /\ tyCheck(ins.inp, T[j], FALSE)
  /\ ins.op = "RET" => tyCheck(out, T[j], TRUE)
  /\ ins.op \notin {"RET", "JL"} => Flows(T, a, j + 1)
  /\ (ins.op \in Jumps /\ ins.to > 0) => Flows(T, a, ins.to)

(* The signature f gives the types at the first instruction.               *)
Typed(T, c, f) ==
  /\ DOMAIN T \subseteq 1..Len(c) + 1
  /\ \A j \in DOMAIN T : T[j] \in Seq(Types)
  /\ Flows(T, f.stk \o f.loc, 1)
  /\ \A j \in 1..Len(c) : j \in DOMAIN T => TypedAt(T, c[j], f.out, j)

(* T and U are the same up to n.                                           *)
SameUpTo(T, U, n) ==
  \A j \in 1..n : /\ j \in DOMAIN U <=> j \in DOMAIN T
                  /\ j \in DOMAIN T => U[j] = T[j]

(* The snapshot s says what is behind n instructions.                      *)
HereIs(T, n, s) ==
  /\ n + 1 \in DOMAIN T <=> s.done = NOT_DONE
  /\ s.done = NOT_DONE => T[n + 1] = s.tys

(* T up to n, and s behind it.                                             *)
Then(T, n, s) ==
  [j \in {i \in 1..n + 1 : IF i <= n THEN i \in DOMAIN T ELSE s.done = NOT_DONE} |->
     IF j <= n THEN T[j] ELSE s.tys]

LEMMA ThenFacts ==
  ASSUME NEW T, NEW n \in Nat, NEW s \in Snap, NEW U, U = Then(T, n, s),
         \A j \in DOMAIN T : T[j] \in Seq(Types)
  PROVE  /\ SameUpTo(T, U, n) /\ HereIs(U, n, s)
         /\ DOMAIN U \subseteq 1..n + 1
         /\ \A j \in DOMAIN U : U[j] \in Seq(Types)
<1>1. \A j \in 1..n : j <= n /\ j \in 1..n + 1
  OBVIOUS
<1>2. n + 1 \in 1..n + 1 /\ ~(n + 1 <= n)
  OBVIOUS
<1>3. DOMAIN U = {i \in 1..n + 1 : IF i <= n THEN i \in DOMAIN T ELSE s.done = NOT_DONE}
  BY DEF Then
<1>4. \A j \in DOMAIN U : U[j] = IF j <= n THEN T[j] ELSE s.tys
  BY DEF Then
<1>5. SameUpTo(T, U, n)
  BY <1>1, <1>3, <1>4 DEF SameUpTo
<1>6. HereIs(U, n, s)
  BY <1>2, <1>3, <1>4 DEF HereIs
<1>7. s.tys \in Seq(Types)
  BY DEF Snap
<1>8. \A j \in DOMAIN U : U[j] \in Seq(Types)
  BY ONLY <1>3, <1>4, <1>7, \A j \in DOMAIN T : T[j] \in Seq(Types)
<1>. QED
  BY <1>3, <1>5, <1>6, <1>8

LEMMA AfterFacts ==
  ASSUME NEW tys \in Seq(Types), NEW ins \in Instrs, tyCheck(ins.inp, tys, FALSE)
  PROVE  /\ After(ins, tys) \in Seq(Types)
         /\ Len(ins.inp) \in 0..Len(tys)
<1>1. PICK i : i = ins.inp
  OBVIOUS
<1>2. PICK o : o = ins.out
  OBVIOUS
<1>3. i \in Seq(Types) /\ o \in Seq(Types)
  BY <1>1, <1>2 DEF Instrs
<1>4. PICK n \in Nat : n = Len(tys)
  OBVIOUS
<1>5. PICK m \in Nat : m = Len(i)
  BY <1>3
<1>6. m <= n
  BY <1>1, <1>4, <1>5 DEF tyCheck
<1>7. n - m \in 0..Len(tys)
  BY <1>4, <1>6
<1>8. SubSeq(tys, 1, n - m) \in Seq(Types)
  BY ONLY <1>7, tys \in Seq(Types), PrefixFacts
<1>9. SubSeq(tys, 1, n - m) \o o \in Seq(Types)
  BY ONLY <1>3, <1>8
<1>. QED
  BY <1>1, <1>2, <1>4, <1>5, <1>6, <1>9 DEF After

(* An instruction is typed alike where all that it flows to is.            *)
LEMMA TypedSame ==
  ASSUME NEW T, NEW U, NEW j, NEW ins \in Instrs, NEW out, TypedAt(T, ins, out, j),
         U[j] = T[j], T[j] \in Seq(Types),
         \A a \in Seq(Types) : \A p : Flows(T, a, p) => Flows(U, a, p)
  PROVE  TypedAt(U, ins, out, j)
<1>1. PICK a : a = After(ins, T[j])
  OBVIOUS
<1>2. a \in Seq(Types)
  BY <1>1, AfterFacts DEF TypedAt
<1>. QED
  BY <1>1, <1>2 DEF TypedAt

(* The types at the end of the code change: what flowed there still can.   *)
LEMMA TypedMove ==
  ASSUME KeepsRules, NEW T, NEW c \in Seq(Instrs), NEW f \in FnSigs, Typed(T, c, f),
         NEW n \in Nat, n = Len(c), NEW s \in Snap,
         n + 1 \in DOMAIN T => s.done = NOT_DONE /\ tyCheck(s.tys, T[n + 1], TRUE),
         NEW U, U = Then(T, n, s)
  PROVE  Typed(U, c, f)
<1>1. /\ DOMAIN T \subseteq 1..n + 1
      /\ \A j \in DOMAIN T : T[j] \in Seq(Types)
      /\ Flows(T, f.stk \o f.loc, 1)
      /\ \A j \in 1..n : j \in DOMAIN T => TypedAt(T, c[j], f.out, j)
  BY DEF Typed
<1>2. /\ SameUpTo(T, U, n) /\ HereIs(U, n, s)
      /\ DOMAIN U \subseteq 1..n + 1
      /\ \A j \in DOMAIN U : U[j] \in Seq(Types)
  BY ONLY <1>1, n \in Nat, s \in Snap, U = Then(T, n, s), ThenFacts
<1>3. ASSUME NEW a \in Seq(Types), NEW p, Flows(T, a, p)
      PROVE  Flows(U, a, p)
  <2>1. p \in 1..n + 1 /\ p \in DOMAIN T /\ tyCheck(T[p], a, TRUE)
    BY <1>1, <1>3 DEF Flows
  <2>2. CASE p = n + 1
    <3>1. s.done = NOT_DONE /\ tyCheck(s.tys, T[n + 1], TRUE)
      BY <2>1, <2>2
    <3>2. U[n + 1] = s.tys /\ n + 1 \in DOMAIN U
      BY <1>2, <3>1 DEF HereIs
    <3>3. s.tys \in Seq(Types) /\ T[n + 1] \in Seq(Types)
      BY <1>1, <2>1, <2>2 DEF Snap
    <3>4. tyCheck(T[n + 1], a, TRUE)
      BY <2>1, <2>2
    <3>5. tyCheck(s.tys, a, TRUE)
      BY ONLY <3>1, <3>3, <3>4, a \in Seq(Types), KeepsRules, TRUE \in BOOLEAN, CheckThrough
    <3>. QED
      BY <2>2, <3>2, <3>5 DEF Flows
  <2>3. CASE p # n + 1
    <3>1. p \in 1..n
      BY <2>1, <2>3
    <3>. QED
      BY <1>2, <2>1, <3>1 DEF SameUpTo, Flows
  <2>. QED
    BY <2>2, <2>3
<1>4. Flows(U, f.stk \o f.loc, 1)
  <2>1. f.stk \in Seq(Types) /\ f.loc \in Seq(Types)
    BY FnSigsAssumption
  <2>2. f.stk \o f.loc \in Seq(Types)
    BY <2>1
  <2>. QED
    BY <1>1, <1>3, <2>2
<1>5. ASSUME NEW j \in 1..n, j \in DOMAIN U
      PROVE  TypedAt(U, c[j], f.out, j)
  <2>1. j \in DOMAIN T /\ U[j] = T[j]
    BY <1>2, <1>5 DEF SameUpTo
  <2>2. TypedAt(T, c[j], f.out, j) /\ T[j] \in Seq(Types)
    BY <1>1, <2>1
  <2>3. PICK ins : ins = c[j]
    OBVIOUS
  <2>4. ins \in Instrs
    BY <2>3
  <2>5. PICK out : out = f.out
    OBVIOUS
  <2>6. TypedAt(T, ins, out, j)
    BY ONLY <2>2, <2>3, <2>5
  <2>7. TypedAt(U, ins, out, j)
    BY ONLY <1>3, <2>1, <2>2, <2>4, <2>6, TypedSame
  <2>. QED
    BY ONLY <2>3, <2>5, <2>7
<1>. QED
  BY ONLY <1>2, <1>4, <1>5, n = Len(c) DEF Typed

(* One more instruction, where the flow reaches it.                        *)
Fits(T, ins, out, n, s) ==
  LET a == After(ins, T[n + 1]) IN
  n + 1 \in DOMAIN T =>
    /\ tyCheck(ins.inp, T[n + 1], FALSE)
    /\ ins.op = "RET" => tyCheck(out, T[n + 1], TRUE)
    /\ ins.op \notin {"RET", "JL"} => s.done = NOT_DONE /\ tyCheck(s.tys, a, TRUE)
    /\ (ins.op \in Jumps /\ ins.to > 0) => Flows(T, a, ins.to)

(* U types e, which is T and c with one more instruction.                  *)
Emitted(T, U, c, e, f, n, s) ==
  /\ Typed(U, e, f) /\ Len(e) = n + 1
  /\ SameUpTo(T, U, n + 1) /\ HereIs(U, n + 1, s)
  /\ \A j \in 1..n : e[j] = c[j]

LEMMA TypedEmit ==
  ASSUME KeepsRules, NEW T, NEW c \in Seq(Instrs), NEW f \in FnSigs, Typed(T, c, f),
         NEW n \in Nat, n = Len(c), NEW s \in Snap, NEW ins \in Instrs,
         Fits(T, ins, f.out, n, s), NEW e, e = Append(c, ins),
         NEW U, U = Then(T, n + 1, s)
  PROVE  Emitted(T, U, c, e, f, n, s)
<1>1. /\ DOMAIN T \subseteq 1..n + 1
      /\ \A j \in DOMAIN T : T[j] \in Seq(Types)
      /\ Flows(T, f.stk \o f.loc, 1)
      /\ \A j \in 1..n : j \in DOMAIN T => TypedAt(T, c[j], f.out, j)
  BY DEF Typed
<1>2. /\ SameUpTo(T, U, n + 1) /\ HereIs(U, n + 1, s)
      /\ DOMAIN U \subseteq 1..(n + 1) + 1
      /\ \A j \in DOMAIN U : U[j] \in Seq(Types)
  <2>1. PICK m \in Nat : m = n + 1
    OBVIOUS
  <2>2. U = Then(T, m, s)
    BY <2>1
  <2>3. \A j \in DOMAIN T : T[j] \in Seq(Types)
    BY <1>1
  <2>4. /\ SameUpTo(T, U, m) /\ HereIs(U, m, s)
        /\ DOMAIN U \subseteq 1..m + 1
        /\ \A j \in DOMAIN U : U[j] \in Seq(Types)
    BY ONLY <2>2, <2>3, m \in Nat, s \in Snap, ThenFacts
  <2>. QED
    BY ONLY <2>1, <2>4
<1>3. ASSUME NEW a, NEW p, Flows(T, a, p)
      PROVE  Flows(U, a, p)
  <2>1. p \in 1..n + 1
    BY ONLY <1>1, <1>3 DEF Flows
  <2>. QED
    BY ONLY <1>2, <1>3, <2>1 DEF SameUpTo, Flows
<1>4. /\ e \in Seq(Instrs) /\ Len(e) = n + 1 /\ e[n + 1] = ins
      /\ \A j \in 1..n : e[j] = c[j]
  BY ONLY c \in Seq(Instrs), ins \in Instrs, n \in Nat, n = Len(c), e = Append(c, ins),
          AppendAny
<1>5. ASSUME NEW j \in 1..n, j \in DOMAIN U
      PROVE  TypedAt(U, e[j], f.out, j)
  <2>1. j \in DOMAIN T /\ U[j] = T[j]
    <3>1. j \in 1..n + 1
      OBVIOUS
    <3>. QED
      BY ONLY <1>2, <1>5, <3>1 DEF SameUpTo
  <2>2. TypedAt(T, c[j], f.out, j) /\ T[j] \in Seq(Types)
    BY <1>1, <2>1
  <2>3. PICK i : i = c[j]
    OBVIOUS
  <2>4. i \in Instrs /\ e[j] = i
    BY <1>4, <2>3
  <2>5. PICK out : out = f.out
    OBVIOUS
  <2>6. TypedAt(T, i, out, j)
    BY ONLY <2>2, <2>3, <2>5
  <2>7. TypedAt(U, i, out, j)
    BY ONLY <1>3, <2>1, <2>2, <2>4, <2>6, TypedSame
  <2>. QED
    BY ONLY <2>4, <2>5, <2>7
<1>6. ASSUME n + 1 \in DOMAIN U
      PROVE  TypedAt(U, ins, f.out, n + 1)
  <2>1. n + 1 \in DOMAIN T /\ U[n + 1] = T[n + 1]
    <3>1. n + 1 \in 1..n + 1
      OBVIOUS
    <3>. QED
      BY ONLY <1>2, <1>6, <3>1 DEF SameUpTo
  <2>2. PICK a : a = After(ins, T[n + 1])
    OBVIOUS
  <2>3. /\ tyCheck(ins.inp, T[n + 1], FALSE)
        /\ ins.op = "RET" => tyCheck(f.out, T[n + 1], TRUE)
        /\ ins.op \notin {"RET", "JL"} => s.done = NOT_DONE /\ tyCheck(s.tys, a, TRUE)
        /\ (ins.op \in Jumps /\ ins.to > 0) => Flows(T, a, ins.to)
    BY <2>1, <2>2 DEF Fits
  <2>4. s.done = NOT_DONE => (n + 1) + 1 \in DOMAIN U /\ U[(n + 1) + 1] = s.tys
    BY ONLY <1>2 DEF HereIs
  <2>5. ins.op \notin {"RET", "JL"} => Flows(U, a, (n + 1) + 1)
    BY ONLY <2>3, <2>4 DEF Flows
  <2>6. (ins.op \in Jumps /\ ins.to > 0) => Flows(U, a, ins.to)
    BY ONLY <1>3, <2>3
  <2>. QED
    BY ONLY <2>1, <2>2, <2>3, <2>5, <2>6 DEF TypedAt
<1>7. ASSUME NEW j \in 1..n + 1, j \in DOMAIN U
      PROVE  TypedAt(U, e[j], f.out, j)
  <2>1. j \in 1..n \/ j = n + 1
    OBVIOUS
  <2>. QED
    BY ONLY <1>4, <1>5, <1>6, <1>7, <2>1
<1>8. Flows(U, f.stk \o f.loc, 1)
  BY ONLY <1>1, <1>3
<1>9. Typed(U, e, f)
  BY ONLY <1>2, <1>4, <1>7, <1>8 DEF Typed
<1>. QED
  BY ONLY <1>2, <1>4, <1>9 DEF Emitted

(* What is left by the jump at p can be on the stack where tys is.         *)
Leaves(T, c, p, tys) == p \in DOMAIN T => tyCheck(tys, After(c[p], T[p]), TRUE)

(* The jumps of H go to the end of the code.                               *)
LEMMA TypedEnd ==
  ASSUME KeepsRules, NEW T, NEW c \in Seq(Instrs), NEW f \in FnSigs, Typed(T, c, f),
         NEW n \in Nat, n = Len(c), NEW s \in Snap, HereIs(T, n, s), NEW H,
         \A h \in H : /\ h \in 1..n
                      /\ h \in DOMAIN T => s.done = NOT_DONE
                      /\ Leaves(T, c, h, s.tys),
         NEW e, e = endJumps(c, H)
  PROVE  Typed(T, e, f)
<1>1. /\ DOMAIN T \subseteq 1..n + 1
      /\ \A j \in DOMAIN T : T[j] \in Seq(Types)
      /\ Flows(T, f.stk \o f.loc, 1)
      /\ \A j \in 1..n : j \in DOMAIN T => TypedAt(T, c[j], f.out, j)
  BY DEF Typed
<1>2. /\ e \in Seq(Instrs) /\ Len(e) = n
      /\ \A j \in 1..n : /\ e[j].op = c[j].op
                         /\ e[j].inp = c[j].inp /\ e[j].out = c[j].out
                         /\ e[j].to = IF j \in H THEN n + 1 ELSE c[j].to
  <2>1. n = Len(c) /\ e = endJumps(c, H)
    OBVIOUS
  <2>2. e \in Seq(Instrs) /\ Len(e) = n
    <3>1. e \in Seq(Instrs)
      BY ONLY <2>1, c \in Seq(Instrs), n \in Nat, EndJumpsFacts
    <3>2. Len(e) = n
      BY ONLY <2>1, c \in Seq(Instrs), n \in Nat, EndJumpsFacts
    <3>. QED
      BY ONLY <3>1, <3>2
  <2>3. \A j \in 1..n : e[j].op = c[j].op
    BY ONLY <2>1, c \in Seq(Instrs), n \in Nat, EndJumpsFacts
  <2>4. \A j \in 1..n : e[j].inp = c[j].inp /\ e[j].out = c[j].out
    BY ONLY <2>1, c \in Seq(Instrs), n \in Nat, EndJumpsFacts
  <2>5. \A j \in 1..n : e[j].to = IF j \in H THEN n + 1 ELSE c[j].to
    BY ONLY <2>1, c \in Seq(Instrs), n \in Nat, EndJumpsFacts
  <2>. QED
    BY ONLY <2>2, <2>3, <2>4, <2>5
<1>3. ASSUME NEW j \in 1..n, j \in DOMAIN T
      PROVE  TypedAt(T, e[j], f.out, j)
  <2>1. PICK i : i = c[j]
    OBVIOUS
  <2>2. PICK g : g = e[j]
    OBVIOUS
  <2>3. /\ g.op = i.op /\ g.inp = i.inp /\ g.out = i.out
        /\ g.to = IF j \in H THEN n + 1 ELSE i.to
    BY ONLY <1>2, <2>1, <2>2
  <2>4. PICK a : a = After(i, T[j])
    OBVIOUS
  <2>5. After(g, T[j]) = a
    BY ONLY <2>3, <2>4 DEF After
  <2>6. /\ tyCheck(i.inp, T[j], FALSE)
        /\ i.op = "RET" => tyCheck(f.out, T[j], TRUE)
        /\ i.op \notin {"RET", "JL"} => Flows(T, a, j + 1)
        /\ (i.op \in Jumps /\ i.to > 0) => Flows(T, a, i.to)
    BY ONLY <1>1, <1>3, <2>1, <2>4 DEF TypedAt
  <2>7. j \in H => Flows(T, a, n + 1)
    <3>1. j \in H => s.done = NOT_DONE /\ tyCheck(s.tys, a, TRUE)
      BY <1>3, <2>1, <2>4 DEF Leaves
    <3>2. s.done = NOT_DONE => n + 1 \in DOMAIN T /\ T[n + 1] = s.tys
      BY DEF HereIs
    <3>. QED
      BY ONLY <3>1, <3>2 DEF Flows
  <2>8. (g.op \in Jumps /\ g.to > 0) => Flows(T, a, g.to)
    BY ONLY <2>3, <2>6, <2>7
  <2>. QED
    BY ONLY <2>2, <2>3, <2>5, <2>6, <2>8 DEF TypedAt
<1>. QED
  BY ONLY <1>1, <1>2, <1>3 DEF Typed

-----------------------------------------------------------------------------
(* What the handlers that wait still have to do with the types.            *)

(* The code e does to the types what c does, up to n.                      *)
SameTypes(c, e, n) == \A j \in 1..n : e[j].inp = c[j].inp /\ e[j].out = c[j].out

(* The branches that have ended: their jumps leave what the first of them  *)
(* that was not done leaves, and the flow reaches none when all are done.  *)
(* outer is the snapshot in which the chain started, full that of the      *)
(* first branch, and again the one that the next condition starts from.    *)
OwesIf(T, c, f, outer, full, again) ==
  /\ outer.done = NOT_DONE
  /\ \A e \in f.ends : /\ e \in 1..Len(c)
                       /\ IF f.is.hadFull THEN Leaves(T, c, e, full.tys)
                          ELSE e \notin DOMAIN T
  /\ f.kind = "if"   => f.i \in 1..Len(c) /\ Leaves(T, c, f.i, outer.tys)
  /\ f.kind = "elif" => again = outer

(* A break remembers the types that it leaves.                             *)
OwesBreak(T, c, br) ==
  /\ br.at \in 1..Len(c)
  /\ br.at \in DOMAIN T => After(c[br.at], T[br.at]) = br.tys

(* The handler f, which started with b snapshots in the view v.            *)
Owes(T, c, v, bs, f, b) ==
  /\ f.kind \in {"if", "elif", "else"} =>
       OwesIf(T, c, f, v[b], v[b + 1], v[b + SnapshotsOf(f) - 1])
  /\ f.kind = "blk" => \A br \in bs[f.blk].breaks : OwesBreak(T, c, br)

AllOwed(T, c, v, k, bs, m) ==
  \A i \in 1..m : Owes(T, c, v, bs, k[i], Snapshots(k)[i - 1])

LEMMA LeavesKept ==
  ASSUME NEW T, NEW U, NEW c, NEW e, NEW n \in Nat, SameUpTo(T, U, n), SameTypes(c, e, n),
         NEW p \in 1..n, NEW tys, Leaves(T, c, p, tys)
  PROVE  Leaves(U, e, p, tys)
<1>1. p \in DOMAIN U => p \in DOMAIN T /\ U[p] = T[p]
  BY DEF SameUpTo
<1>2. After(e[p], T[p]) = After(c[p], T[p])
  BY DEF SameTypes, After
<1>. QED
  BY <1>1, <1>2 DEF Leaves

LEMMA BreakKept ==
  ASSUME NEW T, NEW U, NEW c, NEW e, NEW n \in Nat, SameUpTo(T, U, n), SameTypes(c, e, n),
         n = Len(c), NEW m \in Nat, m = Len(e), n <= m, NEW br, OwesBreak(T, c, br)
  PROVE  OwesBreak(U, e, br)
<1>1. PICK p : p = br.at
  OBVIOUS
<1>2. p \in 1..n /\ (p \in DOMAIN T => After(c[p], T[p]) = br.tys)
  BY <1>1 DEF OwesBreak
<1>3. p \in DOMAIN U => p \in DOMAIN T /\ U[p] = T[p]
  BY <1>2 DEF SameUpTo
<1>4. After(e[p], T[p]) = After(c[p], T[p])
  BY <1>2 DEF SameTypes, After
<1>5. p \in 1..m
  BY <1>2
<1>. QED
  BY <1>1, <1>2, <1>3, <1>4, <1>5 DEF OwesBreak

LEMMA OwesIfKept ==
  ASSUME NEW T, NEW U, NEW c, NEW e, NEW n \in Nat, SameUpTo(T, U, n), SameTypes(c, e, n),
         n = Len(c), NEW m \in Nat, m = Len(e), n <= m,
         NEW f, NEW outer, NEW full, NEW again, OwesIf(T, c, f, outer, full, again),
         NEW full2, f.is.hadFull => full2 = full,
         NEW again2, f.kind = "elif" => again2 = again
  PROVE  OwesIf(U, e, f, outer, full2, again2)
<1>1. /\ outer.done = NOT_DONE
      /\ \A x \in f.ends : /\ x \in 1..n
                           /\ IF f.is.hadFull THEN Leaves(T, c, x, full.tys)
                              ELSE x \notin DOMAIN T
      /\ f.kind = "if"   => f.i \in 1..n /\ Leaves(T, c, f.i, outer.tys)
      /\ f.kind = "elif" => again = outer
  BY DEF OwesIf
<1>2. \A x \in 1..n : x \in 1..m
  OBVIOUS
<1>3. \A x \in 1..n : \A tys : Leaves(T, c, x, tys) => Leaves(U, e, x, tys)
  BY ONLY SameUpTo(T, U, n), SameTypes(c, e, n), n \in Nat, LeavesKept
<1>4. \A x \in 1..n : x \notin DOMAIN T => x \notin DOMAIN U
  BY DEF SameUpTo
<1>5. ASSUME NEW x \in f.ends
      PROVE  /\ x \in 1..m
             /\ IF f.is.hadFull THEN Leaves(U, e, x, full2.tys) ELSE x \notin DOMAIN U
  BY <1>1, <1>2, <1>3, <1>4
<1>6. f.kind = "if" => f.i \in 1..m /\ Leaves(U, e, f.i, outer.tys)
  BY <1>1, <1>2, <1>3
<1>. QED
  BY <1>1, <1>5, <1>6 DEF OwesIf

(* A handler owes what it owed, when its own snapshots are as they were.   *)
LEMMA OwesKept ==
  ASSUME NEW T, NEW U, NEW c, NEW e, NEW n \in Nat, SameUpTo(T, U, n), SameTypes(c, e, n),
         n = Len(c), NEW m \in Nat, m = Len(e), n <= m,
         NEW f \in Frames, NEW b \in Nat \ {0}, NEW v, NEW w,
         Below(v, w, b + SnapshotsOf(f) - 1), NEW bs, NEW cs,
         f.kind = "blk" => \A br \in cs[f.blk].breaks :
                             br \in bs[f.blk].breaks \/ OwesBreak(U, e, br),
         Owes(T, c, v, bs, f, b)
  PROVE  Owes(U, e, w, cs, f, b)
<1>1. CASE f.kind \in {"if", "elif", "else"}
  <2>1. OwesIf(T, c, f, v[b], v[b + 1], v[b + SnapshotsOf(f) - 1])
    BY <1>1 DEF Owes
  <2>2. /\ SnapshotsOf(f) \in 1..3
        /\ f.is.hadFull => SnapshotsOf(f) >= 2
    <3>1. SnapshotsOf(f) \in 0..3
      BY SnapshotsOfFrame
    <3>2. SnapshotsOf(f) = (IF f.is.hadFull THEN 2 ELSE 1) + (IF f.kind = "elif" THEN 1 ELSE 0)
      BY <1>1 DEF SnapshotsOf
    <3>. QED
      BY <3>2
  <2>3. PICK h : h = SnapshotsOf(f)
    OBVIOUS
  <2>4. b \in 1..b + h - 1 /\ b + h - 1 \in 1..b + h - 1
    BY <2>2, <2>3
  <2>5. f.is.hadFull => b + 1 \in 1..b + h - 1
    BY <2>2, <2>3
  <2>6. /\ w[b] = v[b] /\ w[b + h - 1] = v[b + h - 1]
        /\ f.is.hadFull => w[b + 1] = v[b + 1]
    BY ONLY <2>3, <2>4, <2>5, Below(v, w, b + SnapshotsOf(f) - 1) DEF Below
  <2>7. PICK x : x = v[b]
    OBVIOUS
  <2>8. PICK y : y = v[b + 1]
    OBVIOUS
  <2>9. PICK z : z = v[b + h - 1]
    OBVIOUS
  <2>10. PICK y2 : y2 = w[b + 1]
    OBVIOUS
  <2>11. OwesIf(T, c, f, x, y, z)
    BY ONLY <2>1, <2>3, <2>7, <2>8, <2>9
  <2>12. f.is.hadFull => y2 = y
    BY ONLY <2>6, <2>8, <2>10
  <2>13. OwesIf(U, e, f, x, y2, z)
    BY ONLY <2>11, <2>12, SameUpTo(T, U, n), SameTypes(c, e, n), n = Len(c), n \in Nat,
            m \in Nat, m = Len(e), n <= m, OwesIfKept
  <2>. QED
    BY ONLY <1>1, <2>3, <2>6, <2>7, <2>9, <2>10, <2>13 DEF Owes
<1>2. CASE f.kind = "blk"
  <2>1. ASSUME NEW br, OwesBreak(T, c, br) PROVE OwesBreak(U, e, br)
    BY ONLY <2>1, SameUpTo(T, U, n), SameTypes(c, e, n), n = Len(c), n \in Nat,
            m \in Nat, m = Len(e), n <= m, BreakKept
  <2>2. \A br \in bs[f.blk].breaks : OwesBreak(T, c, br)
    BY <1>2 DEF Owes
  <2>. QED
    BY <1>2, <2>1, <2>2 DEF Owes
<1>. QED
  BY <1>1, <1>2 DEF Owes

LEMMA SnapshotsGrow ==
  ASSUME NEW k, Handlers(k), NEW m \in 0..Len(k), NEW i \in 0..m
  PROVE  Snapshots(k)[i] <= Snapshots(k)[m]
<1>1. PICK n \in Nat : n = Len(k)
  BY HandlersFacts
<1>2. /\ \A j \in 0..n : Snapshots(k)[j] \in Nat
      /\ \A j \in 1..n : /\ Snapshots(k)[j] = Snapshots(k)[j - 1] + SnapshotsOf(k[j])
                         /\ SnapshotsOf(k[j]) \in 0..3
  BY <1>1, HandlersFacts
<1>3. PICK g : g = Snapshots(k)
  OBVIOUS
<1>4. \A j \in 1..n : g[j] >= g[j - 1] /\ g[j] \in Nat /\ g[j - 1] \in Nat
  <2>1. TAKE j \in 1..n
  <2>2. j - 1 \in 0..n /\ j \in 0..n
    OBVIOUS
  <2>3. g[j] = g[j - 1] + SnapshotsOf(k[j]) /\ SnapshotsOf(k[j]) \in 0..3 /\ g[j - 1] \in Nat
    BY ONLY <1>2, <1>3, <2>2, j \in 1..n
  <2>. QED
    BY ONLY <2>3
<1>. DEFINE G == {j \in 0..m : \A h \in 0..j : g[h] <= g[j]}
<1>5. m \in Nat /\ m <= n
  BY <1>1
<1>6. 0 \in G
  <2>1. g[0] \in Nat /\ \A h \in 0..0 : h = 0
    BY ONLY <1>2, <1>3, n \in Nat
  <2>. QED
    BY <1>5, <2>1
<1>7. \A j \in 0..m - 1 : j \in G => j + 1 \in G
  <2>1. SUFFICES ASSUME NEW j \in 0..m - 1, j \in G, NEW h \in 0..j + 1
                 PROVE  g[h] <= g[j + 1]
    <3>1. \A j \in 0..m - 1 : j + 1 \in 0..m
      BY <1>5
    <3>. QED
      BY <3>1
  <2>2. g[j + 1] >= g[j] /\ g[j + 1] \in Nat /\ g[j] \in Nat
    <3>1. j + 1 \in 1..n /\ (j + 1) - 1 = j
      BY ONLY <1>5, j \in 0..m - 1, n \in Nat
    <3>. QED
      BY ONLY <1>4, <3>1
  <2>3. CASE h = j + 1
    BY ONLY <2>2, <2>3
  <2>4. CASE h # j + 1
    <3>1. h \in 0..j /\ h \in 0..n
      BY <1>5, <2>4
    <3>2. g[h] <= g[j] /\ g[h] \in Nat
      BY ONLY <1>2, <1>3, <2>1, <3>1
    <3>. QED
      BY ONLY <2>2, <3>2
  <2>. QED
    BY <2>3, <2>4
<1>8. 0..m \subseteq G
  <2>. HIDE DEF G
  <2>. QED
    BY ONLY <1>5, <1>6, <1>7, SetInductionUpTo
<1>9. m \in G
  <2>. HIDE DEF G
  <2>. QED
    BY <1>5, <1>8
<1>. QED
  BY <1>3, <1>9

(* The blks remember the same breaks, or breaks that leave their types.    *)
SameBreaks(T, c, k, bs, cs, m) ==
  \A i \in 1..m : k[i].kind = "blk" =>
    \A br \in cs[k[i].blk].breaks : br \in bs[k[i].blk].breaks \/ OwesBreak(T, c, br)

LEMMA AllKept ==
  ASSUME NEW T, NEW U, NEW c, NEW e, NEW n \in Nat, SameUpTo(T, U, n), SameTypes(c, e, n),
         n = Len(c), NEW p \in Nat, p = Len(e), n <= p,
         NEW k, Handlers(k), NEW l, NEW m \in 0..Len(k), SameHandlers(k, l, m),
         NEW v, NEW w, Below(v, w, Snapshots(k)[m] - 1), NEW bs, NEW cs,
         SameBreaks(U, e, k, bs, cs, m), AllOwed(T, c, v, k, bs, m)
  PROVE  AllOwed(U, e, w, l, cs, m)
<1>1. SUFFICES ASSUME NEW i \in 1..m
               PROVE  Owes(U, e, w, cs, l[i], Snapshots(l)[i - 1])
  BY DEF AllOwed
<1>2. PICK q \in Nat : q = Len(k)
  BY HandlersFacts
<1>3. i \in 1..q /\ i - 1 \in 0..m /\ i - 1 \in 0..q /\ i \in 0..m /\ m \in 0..q
  BY <1>2
<1>4. PICK b : b = Snapshots(k)[i - 1]
  OBVIOUS
<1>5. PICK f : f = k[i]
  OBVIOUS
<1>6. l[i] = f /\ Snapshots(l)[i - 1] = b
  BY <1>3, <1>4, <1>5 DEF SameHandlers
<1>7. f \in Frames /\ b \in Nat \ {0} /\ Snapshots(k)[i] = b + SnapshotsOf(f)
  BY ONLY <1>2, <1>3, <1>4, <1>5, Handlers(k), HandlersFacts
<1>8. SnapshotsOf(f) \in 0..3
  BY ONLY <1>7, SnapshotsOfFrame
<1>9. Snapshots(k)[i] <= Snapshots(k)[m] /\ Snapshots(k)[m] \in Nat
  <2>1. Snapshots(k)[i] <= Snapshots(k)[m]
    BY ONLY <1>2, <1>3, Handlers(k), SnapshotsGrow
  <2>2. Snapshots(k)[m] \in Nat
    BY ONLY <1>2, <1>3, Handlers(k), HandlersFacts
  <2>. QED
    BY <2>1, <2>2
<1>10. Below(v, w, b + SnapshotsOf(f) - 1)
  <2>1. PICK h : h = SnapshotsOf(f)
    OBVIOUS
  <2>2. PICK g : g = Snapshots(k)[m]
    OBVIOUS
  <2>3. b + h <= g /\ h \in 0..3 /\ g \in Nat /\ b \in Nat
    BY ONLY <1>7, <1>8, <1>9, <2>1, <2>2
  <2>4. \A j \in 1..b + h - 1 : j \in 1..g - 1
    BY ONLY <2>3
  <2>5. Below(v, w, g - 1)
    BY <2>2
  <2>. QED
    BY ONLY <2>1, <2>4, <2>5 DEF Below
<1>11. f.kind = "blk" => \A br \in cs[f.blk].breaks :
                            br \in bs[f.blk].breaks \/ OwesBreak(U, e, br)
  BY <1>5 DEF SameBreaks
<1>12. Owes(T, c, v, bs, f, b)
  BY <1>4, <1>5 DEF AllOwed
<1>13. Owes(U, e, w, cs, f, b)
  <2>1. n \in Nat /\ n = Len(c) /\ p \in Nat /\ p = Len(e) /\ n <= p
    OBVIOUS
  <2>2. f \in Frames /\ b \in Nat \ {0}
    BY <1>7
  <2>. QED
    BY ONLY <1>10, <1>11, <1>12, <2>1, <2>2, SameUpTo(T, U, n), SameTypes(c, e, n), OwesKept
<1>. QED
  BY ONLY <1>6, <1>13

-----------------------------------------------------------------------------
(* Where the head of the blks starts.                                      *)

(* The flow reaches the start with the types the blk has kept, unless      *)
(* nothing has been reached since.  Handlers inside of it have emitted.    *)
HeadOf(T, n, k, bs, s) ==
  \A i \in 1..Len(k) : (k[i].kind = "blk" /\ k[i].blk = Len(bs)) =>
    LET h == bs[Len(bs)] IN
    /\ h.start \in DOMAIN T => T[h.start] = h.startTyI
    /\ h.start \in DOMAIN T \/ (i = Len(k) /\ s.done # NOT_DONE)
    /\ i < Len(k) => h.start <= n

(* Inner blks are later in the list.                                       *)
BlkOrder(k) ==
  \A i, j \in 1..Len(k) :
    (k[i].kind = "blk" /\ k[j].kind = "blk" /\ i < j) => k[i].blk < k[j].blk

SameStart(bs, cs) ==
  /\ Len(cs) = Len(bs)
  /\ cs[Len(bs)].start = bs[Len(bs)].start
  /\ cs[Len(bs)].startTyI = bs[Len(bs)].startTyI

LEMMA HeadStart ==
  ASSUME NEW k, NEW bs, NEW n \in Nat, BlkFrames(k, bs), BlkStarts(bs, n),
         NEW i \in 1..Len(k), k[i].kind = "blk", k[i].blk = Len(bs)
  PROVE  bs[Len(bs)].start \in 1..n + 1
<1>1. Len(bs) \in 1..Len(bs)
  BY DEF BlkFrames
<1>. QED
  BY <1>1 DEF BlkStarts

(* An instruction is emitted, and the same handlers wait.                  *)
LEMMA HeadEmit ==
  ASSUME NEW T, NEW U, NEW n \in Nat, NEW m \in Nat, m = n + 1, SameUpTo(T, U, m),
         NEW k, NEW bs, BlkFrames(k, bs), BlkStarts(bs, n), NEW cs, SameStart(bs, cs),
         NEW s, NEW s2, s.done # NOT_DONE => s2.done # NOT_DONE,
         HeadOf(T, n, k, bs, s)
  PROVE  HeadOf(U, m, k, cs, s2)
<1>1. SUFFICES ASSUME NEW i \in 1..Len(k), k[i].kind = "blk", k[i].blk = Len(cs)
               PROVE  LET h == cs[Len(cs)] IN
                      /\ h.start \in DOMAIN U => U[h.start] = h.startTyI
                      /\ h.start \in DOMAIN U \/ (i = Len(k) /\ s2.done # NOT_DONE)
                      /\ i < Len(k) => h.start <= m
  BY DEF HeadOf
<1>2. PICK h : h = bs[Len(bs)]
  OBVIOUS
<1>3. PICK g : g = cs[Len(cs)]
  OBVIOUS
<1>4. g.start = h.start /\ g.startTyI = h.startTyI /\ k[i].blk = Len(bs)
  BY <1>1, <1>2, <1>3 DEF SameStart
<1>5. /\ h.start \in DOMAIN T => T[h.start] = h.startTyI
      /\ h.start \in DOMAIN T \/ (i = Len(k) /\ s.done # NOT_DONE)
      /\ i < Len(k) => h.start <= n
  BY <1>1, <1>2, <1>4 DEF HeadOf
<1>6. h.start \in 1..n + 1
  BY ONLY <1>1, <1>2, <1>4, BlkFrames(k, bs), BlkStarts(bs, n), n \in Nat, HeadStart
<1>7. h.start \in 1..m /\ h.start <= m
  BY <1>6
<1>8. /\ h.start \in DOMAIN U <=> h.start \in DOMAIN T
      /\ h.start \in DOMAIN T => U[h.start] = T[h.start]
  BY <1>7 DEF SameUpTo
<1>. QED
  BY <1>3, <1>4, <1>5, <1>7, <1>8

(* A handler starts with an instruction.                                   *)
LEMMA HeadPush ==
  ASSUME NEW T, NEW U, NEW n \in Nat, NEW m \in Nat, m = n + 1, SameUpTo(T, U, m),
         NEW k, NEW bs, BlkFrames(k, bs), BlkStarts(bs, n),
         NEW q \in Nat, q = Len(k), NEW l, Len(l) = q + 1, \A i \in 1..q : l[i] = k[i],
         l[q + 1].kind # "blk",
         NEW s, s.done = NOT_DONE, NEW s2, HeadOf(T, n, k, bs, s)
  PROVE  HeadOf(U, m, l, bs, s2)
<1>1. SUFFICES ASSUME NEW i \in 1..Len(l), l[i].kind = "blk", l[i].blk = Len(bs)
               PROVE  LET h == bs[Len(bs)] IN
                      /\ h.start \in DOMAIN U => U[h.start] = h.startTyI
                      /\ h.start \in DOMAIN U \/ (i = Len(l) /\ s2.done # NOT_DONE)
                      /\ i < Len(l) => h.start <= m
  BY DEF HeadOf
<1>2. PICK h : h = bs[Len(bs)]
  OBVIOUS
<1>3. i \in 1..q /\ k[i] = l[i]
  <2>1. i \in 1..q \/ i = q + 1
    OBVIOUS
  <2>. QED
    BY <1>1, <2>1
<1>4. /\ h.start \in DOMAIN T => T[h.start] = h.startTyI
      /\ h.start \in DOMAIN T
  BY <1>1, <1>2, <1>3 DEF HeadOf
<1>5. h.start \in 1..n + 1
  <2>1. i \in 1..Len(k) /\ k[i].kind = "blk" /\ k[i].blk = Len(bs)
    BY <1>1, <1>3
  <2>. QED
    BY ONLY <1>2, <2>1, BlkFrames(k, bs), BlkStarts(bs, n), n \in Nat, HeadStart
<1>6. h.start \in 1..m /\ h.start <= m
  BY <1>5
<1>7. /\ h.start \in DOMAIN U <=> h.start \in DOMAIN T
      /\ h.start \in DOMAIN T => U[h.start] = T[h.start]
  BY <1>6 DEF SameUpTo
<1>. QED
  BY <1>2, <1>4, <1>6, <1>7

(* The last handler, which is not that of a blk, goes on or is done.       *)
LEMMA HeadInner ==
  ASSUME NEW T, NEW U, NEW n \in Nat, NEW m \in Nat, n <= m, SameUpTo(T, U, n),
         NEW k, NEW bs, BlkFrames(k, bs), BlkStarts(bs, n),
         NEW q \in Nat, q = Len(k), NEW l, NEW p \in Nat, p = Len(l),
         \A i \in 1..p : l[i].kind = "blk" => i < q /\ l[i] = k[i],
         NEW s, NEW s2, HeadOf(T, n, k, bs, s)
  PROVE  HeadOf(U, m, l, bs, s2)
<1>1. SUFFICES ASSUME NEW i \in 1..Len(l), l[i].kind = "blk", l[i].blk = Len(bs)
               PROVE  LET h == bs[Len(bs)] IN
                      /\ h.start \in DOMAIN U => U[h.start] = h.startTyI
                      /\ h.start \in DOMAIN U \/ (i = Len(l) /\ s2.done # NOT_DONE)
                      /\ i < Len(l) => h.start <= m
  BY DEF HeadOf
<1>2. PICK h : h = bs[Len(bs)]
  OBVIOUS
<1>3. i < q /\ l[i] = k[i] /\ i \in 1..Len(k) /\ i # Len(k)
  BY <1>1
<1>4. /\ h.start \in DOMAIN T => T[h.start] = h.startTyI
      /\ h.start \in DOMAIN T
      /\ h.start <= n
  BY <1>1, <1>2, <1>3 DEF HeadOf
<1>5. h.start \in 1..n + 1
  <2>1. i \in 1..Len(k) /\ k[i].kind = "blk" /\ k[i].blk = Len(bs)
    BY <1>1, <1>3
  <2>. QED
    BY ONLY <1>2, <2>1, BlkFrames(k, bs), BlkStarts(bs, n), n \in Nat, HeadStart
<1>6. h.start \in 1..n /\ h.start <= m
  BY <1>4, <1>5
<1>7. /\ h.start \in DOMAIN U <=> h.start \in DOMAIN T
      /\ h.start \in DOMAIN T => U[h.start] = T[h.start]
  BY <1>6 DEF SameUpTo
<1>. QED
  BY <1>2, <1>4, <1>6, <1>7

(* A blk starts at the end of the code, with the types that are there.     *)
LEMMA HeadNew ==
  ASSUME NEW T, NEW n \in Nat, NEW k, NEW bs \in Seq(Blks), BlkFrames(k, bs),
         NEW s, HereIs(T, n, s),
         NEW q \in Nat, q = Len(k), NEW l, Len(l) = q + 1, \A i \in 1..q : l[i] = k[i],
         NEW cs, cs = Append(bs, Blk(n + 1, s.tys))
  PROVE  HeadOf(T, n, l, cs, s)
<1>1. PICK r \in Nat : r = Len(bs)
  OBVIOUS
<1>2. Len(cs) = r + 1 /\ cs[r + 1] = Blk(n + 1, s.tys)
  BY ONLY <1>1, bs \in Seq(Blks), cs = Append(bs, Blk(n + 1, s.tys)), AppendAny
<1>3. SUFFICES ASSUME NEW i \in 1..Len(l), l[i].kind = "blk", l[i].blk = Len(cs)
               PROVE  LET h == cs[Len(cs)] IN
                      /\ h.start \in DOMAIN T => T[h.start] = h.startTyI
                      /\ h.start \in DOMAIN T \/ (i = Len(l) /\ s.done # NOT_DONE)
                      /\ i < Len(l) => h.start <= n
  BY DEF HeadOf
<1>4. PICK h : h = cs[r + 1]
  OBVIOUS
<1>5. h.start = n + 1 /\ h.startTyI = s.tys
  BY <1>2, <1>4 DEF Blk
<1>6. i = q + 1
  <2>1. i \in 1..q \/ i = q + 1
    OBVIOUS
  <2>2. ASSUME i \in 1..q PROVE FALSE
    <3>1. k[i].kind = "blk" /\ k[i].blk = r + 1 /\ i \in 1..Len(k)
      BY <1>2, <1>3, <2>2
    <3>2. k[i].blk \in 1..r
      BY <1>1, <3>1 DEF BlkFrames
    <3>. QED
      BY <3>1, <3>2
  <2>. QED
    BY <2>1, <2>2
<1>7. i = Len(l) /\ ~(i < Len(l))
  BY <1>6
<1>. QED
  BY <1>2, <1>4, <1>5, <1>7 DEF HereIs

(* The handler of a blk is done: no other one has the head.                *)
LEMMA HeadNone ==
  ASSUME NEW k, NEW bs, BlkFrames(k, bs), BlkOrder(k),
         NEW q \in Nat \ {0}, q = Len(k), k[q].kind = "blk",
         NEW l, Len(l) = q - 1, \A i \in 1..q - 1 : l[i] = k[i],
         NEW r \in Nat, r = Len(bs), NEW cs, Len(cs) = r, NEW U, NEW m, NEW s2
  PROVE  HeadOf(U, m, l, cs, s2)
<1>1. ASSUME NEW i \in 1..Len(l), l[i].kind = "blk", l[i].blk = Len(cs)
      PROVE  FALSE
  <2>1. i \in 1..Len(k) /\ q \in 1..Len(k) /\ i < q /\ k[i] = l[i]
    BY <1>1
  <2>2. k[i].blk < k[q].blk
    BY <1>1, <2>1 DEF BlkOrder
  <2>3. k[q].blk \in 1..r /\ k[i].blk = r
    BY <1>1, <2>1 DEF BlkFrames
  <2>. QED
    BY <2>2, <2>3
<1>. QED
  BY <1>1 DEF HeadOf

-----------------------------------------------------------------------------
(* The types while the body is compiled.                                   *)

(* The types that the database has behind the code.                        *)
TopOf(d) == View(d)[Len(d.tyIs)]

Sane(c, d, k, bs) ==
  /\ c \in Seq(Instrs) /\ bs \in Seq(Blks) /\ fn \in FnSigs
  /\ Db(d) /\ Handlers(k) /\ Len(d.tyIs) = Total(k)
  /\ BlkFrames(k, bs) /\ BlkStarts(bs, Len(c)) /\ BlkOrder(k)

BodyTyped(T, c, d, k, bs) ==
  /\ Typed(T, c, fn)
  /\ HereIs(T, Len(c), TopOf(d))
  /\ AllOwed(T, c, View(d), k, bs, Len(k))
  /\ HeadOf(T, Len(c), k, bs, TopOf(d))

LEMMA SaneFacts ==
  ASSUME NEW c, NEW d, NEW k, NEW bs, Sane(c, d, k, bs)
  PROVE  /\ Len(c) \in Nat /\ Len(k) \in Nat \ {0} /\ Len(bs) \in Nat
         /\ Len(d.tyIs) \in Nat /\ Len(d.tyIs) >= 2 /\ Snapshots(k)[Len(k)] = Len(d.tyIs)
         /\ TopOf(d) \in Snap /\ TopOf(d).tys \in Seq(Types)
         /\ fn.out \in Seq(Types) /\ SameHandlers(k, k, Len(k))
<1>1. Len(c) \in Nat /\ Len(bs) \in Nat
  BY DEF Sane
<1>2. Handlers(k) /\ Len(k) \in Nat \ {0}
  BY HandlersFacts DEF Sane
<1>3. Len(d.tyIs) = Total(k) /\ Total(k) \in Nat /\ Total(k) >= 2
  BY ONLY <1>2, Sane(c, d, k, bs), TotalFacts DEF Sane
<1>4. View(d)[Len(d.tyIs)] \in Snap
  <2>1. Len(d.tyIs) \in 1..Len(d.tyIs)
    BY <1>3
  <2>. QED
    BY <2>1, ViewFacts DEF Sane
<1>5. fn.out \in Seq(Types)
  BY FnSigsAssumption DEF Sane
<1>6. TopOf(d) \in Snap /\ TopOf(d).tys \in Seq(Types)
  BY <1>4 DEF TopOf, Snap
<1>. QED
  BY <1>1, <1>2, <1>3, <1>5, <1>6 DEF Total, SameHandlers

LEMMA FitsHere ==
  ASSUME KeepsRules, NEW T, NEW n \in Nat, NEW x \in Snap, HereIs(T, n, x),
         NEW ins \in Instrs, NEW out, NEW s \in Snap,
         x.done = NOT_DONE =>
           LET a == After(ins, x.tys) IN
           /\ tyCheck(ins.inp, x.tys, FALSE)
           /\ ins.op = "RET" => tyCheck(out, x.tys, TRUE)
           /\ ins.op \notin {"RET", "JL"} => s.done = NOT_DONE /\ s.tys = a
           /\ (ins.op \in Jumps /\ ins.to > 0) => Flows(T, a, ins.to)
  PROVE  Fits(T, ins, out, n, s)
<1>1. SUFFICES ASSUME n + 1 \in DOMAIN T
               PROVE  LET a == After(ins, T[n + 1]) IN
                      /\ tyCheck(ins.inp, T[n + 1], FALSE)
                      /\ ins.op = "RET" => tyCheck(out, T[n + 1], TRUE)
                      /\ ins.op \notin {"RET", "JL"} => s.done = NOT_DONE /\ tyCheck(s.tys, a, TRUE)
                      /\ (ins.op \in Jumps /\ ins.to > 0) => Flows(T, a, ins.to)
  BY DEF Fits
<1>2. x.done = NOT_DONE /\ T[n + 1] = x.tys
  BY <1>1 DEF HereIs
<1>3. PICK a : a = After(ins, x.tys)
  OBVIOUS
<1>4. /\ tyCheck(ins.inp, x.tys, FALSE)
      /\ ins.op = "RET" => tyCheck(out, x.tys, TRUE)
      /\ ins.op \notin {"RET", "JL"} => s.done = NOT_DONE /\ s.tys = a
      /\ (ins.op \in Jumps /\ ins.to > 0) => Flows(T, a, ins.to)
  BY <1>2, <1>3
<1>5. tyCheck(a, a, TRUE)
  <2>1. x.tys \in Seq(Types)
    BY DEF Snap
  <2>2. a \in Seq(Types)
    BY ONLY <1>3, <1>4, <2>1, ins \in Instrs, AfterFacts
  <2>. QED
    BY ONLY <2>2, KeepsRules, CheckSame
<1>. QED
  BY ONLY <1>2, <1>3, <1>4, <1>5

(* The handler that waits for the next token has emitted an instruction.   *)
LEMMA EmitTyped ==
  ASSUME KeepsRules, NEW c, NEW d, NEW k, NEW bs, Sane(c, d, k, bs),
         NEW T, BodyTyped(T, c, d, k, bs), NEW n \in Nat, n = Len(c),
         NEW g, Db(g), Len(g.tyIs) = Len(d.tyIs),
         Below(View(d), View(g), Len(d.tyIs) - 1),
         TopOf(d).done # NOT_DONE => TopOf(g).done # NOT_DONE,
         NEW ins \in Instrs, Fits(T, ins, fn.out, n, TopOf(g)),
         NEW e, e = Append(c, ins), NEW U, U = Then(T, n + 1, TopOf(g)),
         NEW cs, SameStart(bs, cs), SameBreaks(U, e, k, bs, cs, Len(k))
  PROVE  BodyTyped(U, e, g, k, cs)
<1>1. /\ Len(k) \in Nat \ {0} /\ Snapshots(k)[Len(k)] = Len(d.tyIs)
      /\ SameHandlers(k, k, Len(k))
  BY ONLY Sane(c, d, k, bs), SaneFacts
<1>2. TopOf(g) \in Snap
  <2>1. Len(g.tyIs) \in 1..Len(g.tyIs)
    BY ONLY Db(g), ViewFacts
  <2>. QED
    BY ONLY <2>1, Db(g), ViewFacts DEF TopOf
<1>3. /\ c \in Seq(Instrs) /\ fn \in FnSigs /\ Handlers(k)
      /\ BlkFrames(k, bs) /\ BlkStarts(bs, n)
  BY DEF Sane
<1>4. /\ Typed(T, c, fn)
      /\ AllOwed(T, c, View(d), k, bs, Len(k))
      /\ HeadOf(T, n, k, bs, TopOf(d))
  BY DEF BodyTyped
<1>5. /\ Typed(U, e, fn) /\ Len(e) = n + 1
      /\ SameUpTo(T, U, n + 1) /\ HereIs(U, n + 1, TopOf(g))
      /\ \A j \in 1..n : e[j] = c[j]
  <2>1. PICK f : f = fn
    OBVIOUS
  <2>2. PICK s : s = TopOf(g)
    OBVIOUS
  <2>3. f \in FnSigs /\ s \in Snap /\ Typed(T, c, f) /\ Fits(T, ins, f.out, n, s)
        /\ U = Then(T, n + 1, s)
    BY <1>2, <1>3, <1>4, <2>1, <2>2
  <2>4. c \in Seq(Instrs) /\ ins \in Instrs /\ n \in Nat /\ n = Len(c) /\ e = Append(c, ins)
    BY <1>3
  <2>5. Emitted(T, U, c, e, f, n, s)
    BY ONLY <2>3, <2>4, KeepsRules, TypedEmit
  <2>. QED
    BY ONLY <2>1, <2>2, <2>5 DEF Emitted
<1>6. AllOwed(U, e, View(g), k, cs, Len(k))
  <2>1. PICK m : m = Len(k)
    OBVIOUS
  <2>2. PICK v : v = View(d)
    OBVIOUS
  <2>3. PICK w : w = View(g)
    OBVIOUS
  <2>4. PICK p : p = n + 1
    OBVIOUS
  <2>5. n \in Nat /\ n = Len(c) /\ p \in Nat /\ p = Len(e) /\ n <= p /\ m \in 0..Len(k)
    BY <1>1, <1>5, <2>1, <2>4
  <2>6. SameUpTo(T, U, n)
    <3>1. \A j \in 1..n : j \in 1..n + 1
      OBVIOUS
    <3>. QED
      BY <1>5, <3>1 DEF SameUpTo
  <2>7. SameTypes(c, e, n)
    BY <1>5 DEF SameTypes
  <2>8. Below(v, w, Snapshots(k)[m] - 1)
    BY <1>1, <2>1, <2>2, <2>3
  <2>9. /\ AllOwed(T, c, v, k, bs, m) /\ SameHandlers(k, k, m)
        /\ SameBreaks(U, e, k, bs, cs, m)
    BY <1>1, <1>4, <2>1, <2>2
  <2>10. AllOwed(U, e, w, k, cs, m)
    BY ONLY <1>3, <2>5, <2>6, <2>7, <2>8, <2>9, AllKept
  <2>. QED
    BY ONLY <2>1, <2>3, <2>10
<1>7. HeadOf(U, n + 1, k, cs, TopOf(g))
  <2>1. PICK s : s = TopOf(d)
    OBVIOUS
  <2>2. PICK s2 : s2 = TopOf(g)
    OBVIOUS
  <2>3. PICK m \in Nat : m = n + 1
    OBVIOUS
  <2>4. /\ SameUpTo(T, U, m) /\ HeadOf(T, n, k, bs, s)
        /\ s.done # NOT_DONE => s2.done # NOT_DONE
    BY <1>4, <1>5, <2>1, <2>2, <2>3
  <2>5. HeadOf(U, m, k, cs, s2)
    BY ONLY <1>3, <2>3, <2>4, n \in Nat, m \in Nat, SameStart(bs, cs), HeadEmit
  <2>. QED
    BY ONLY <2>2, <2>3, <2>5
<1>. QED
  BY ONLY <1>5, <1>6, <1>7 DEF BodyTyped

-----------------------------------------------------------------------------
(* The code of branches and their ends.                                    *)

(* U types e, which does what c does, and has the types of s behind it.    *)
Retyped(T, U, c, e, f, n, m, s) ==
  /\ Typed(U, e, f) /\ Len(e) = m /\ HereIs(U, m, s)
  /\ SameUpTo(T, U, m) /\ SameTypes(c, e, n)

(* The jumps of H go where the types of s are.                             *)
LEMMA EndCode ==
  ASSUME KeepsRules, NEW T, NEW c \in Seq(Instrs), NEW f \in FnSigs, Typed(T, c, f),
         NEW n \in Nat, n = Len(c), NEW s \in Snap,
         n + 1 \in DOMAIN T => s.done = NOT_DONE /\ tyCheck(s.tys, T[n + 1], TRUE),
         NEW H,
         \A h \in H : /\ h \in 1..n
                      /\ h \in DOMAIN T => s.done = NOT_DONE
                      /\ Leaves(T, c, h, s.tys),
         NEW e, e = endJumps(c, H)
  PROVE  \E U : Retyped(T, U, c, e, f, n, n, s)
<1>1. PICK U : U = Then(T, n, s)
  OBVIOUS
<1>2. Typed(U, c, f)
  BY <1>1, TypedMove
<1>3. SameUpTo(T, U, n) /\ HereIs(U, n, s)
  <2>1. \A j \in DOMAIN T : T[j] \in Seq(Types)
    BY DEF Typed
  <2>. QED
    BY ONLY <1>1, <2>1, n \in Nat, s \in Snap, ThenFacts
<1>4. SameTypes(c, c, n)
  BY DEF SameTypes
<1>5. ASSUME NEW h \in H
      PROVE  /\ h \in 1..n
             /\ h \in DOMAIN U => s.done = NOT_DONE
             /\ Leaves(U, c, h, s.tys)
  <2>1. /\ h \in 1..n /\ Leaves(T, c, h, s.tys)
        /\ h \in DOMAIN T => s.done = NOT_DONE
    OBVIOUS
  <2>2. h \in DOMAIN U => h \in DOMAIN T
    BY <1>3, <2>1 DEF SameUpTo
  <2>3. PICK tys : tys = s.tys
    OBVIOUS
  <2>4. Leaves(U, c, h, tys)
    BY ONLY <1>3, <1>4, <2>1, <2>3, n \in Nat, LeavesKept
  <2>. QED
    BY ONLY <2>1, <2>2, <2>3, <2>4
<1>6. Typed(U, e, f)
  BY ONLY KeepsRules, <1>2, <1>3, <1>5, c \in Seq(Instrs), f \in FnSigs, n \in Nat, n = Len(c),
          s \in Snap, e = endJumps(c, H), TypedEnd
<1>7. Len(e) = n /\ SameTypes(c, e, n)
  <2>1. Len(e) = n
    BY ONLY c \in Seq(Instrs), n \in Nat, n = Len(c), e = endJumps(c, H), EndJumpsFacts
  <2>2. \A j \in 1..n : e[j].inp = c[j].inp /\ e[j].out = c[j].out
    BY ONLY c \in Seq(Instrs), n \in Nat, n = Len(c), e = endJumps(c, H), EndJumpsFacts
  <2>. QED
    BY ONLY <2>1, <2>2 DEF SameTypes
<1>. QED
  BY ONLY <1>3, <1>6, <1>7 DEF Retyped

(* A jump over the next branch, which starts with the types of s.          *)
Forked(T, U, c, e, f, n, s) ==
  /\ Retyped(T, U, c, e, f, n, n + 1, s)
  /\ e[n + 1].inp = << >> /\ e[n + 1].out = << >>

LEMMA BranchCode ==
  ASSUME KeepsRules, NEW T, NEW c \in Seq(Instrs), NEW f \in FnSigs, Typed(T, c, f),
         NEW n \in Nat, n = Len(c), NEW s \in Snap, s.done = NOT_DONE,
         NEW i \in 1..n, Leaves(T, c, i, s.tys), NEW e, e = ElseJump(c, i)
  PROVE  \E U : Forked(T, U, c, e, f, n, s)
<1>1. PICK ins : ins = Jump("JL", 0)
  OBVIOUS
<1>2. ins \in Instrs /\ ins.op = "JL" /\ ins.to = 0 /\ ins.inp = << >> /\ ins.out = << >>
  BY ONLY <1>1, OpenJumpFacts
<1>3. PICK x : x = [s EXCEPT !.done = BLK_DONE]
  OBVIOUS
<1>4. x \in Snap /\ x.done # NOT_DONE
  BY <1>3 DEF Snap, HowDone, NOT_DONE, BLK_DONE, RET_DONE
<1>5. PICK g : g = Append(c, ins)
  OBVIOUS
<1>6. PICK V : V = Then(T, n + 1, x)
  OBVIOUS
<1>7. Fits(T, ins, f.out, n, x)
  <2>1. n + 1 \in DOMAIN T => tyCheck(<< >>, T[n + 1], FALSE)
    <3>1. n + 1 \in DOMAIN T => T[n + 1] \in Seq(Types)
      BY DEF Typed
    <3>. QED
      BY ONLY <3>1, KeepsRules, CheckSame
  <2>2. n + 1 \in DOMAIN T => tyCheck(ins.inp, T[n + 1], FALSE)
    BY ONLY <1>2, <2>1
  <2>3. ins.op # "RET" /\ ins.op \in {"RET", "JL"} /\ ~(ins.to > 0)
    BY ONLY <1>2
  <2>. QED
    BY ONLY <2>2, <2>3 DEF Fits
<1>8. Emitted(T, V, c, g, f, n, x)
  BY ONLY <1>2, <1>4, <1>5, <1>6, <1>7, KeepsRules, c \in Seq(Instrs), f \in FnSigs,
          Typed(T, c, f), n \in Nat, n = Len(c), TypedEmit
<1>9. PICK m \in Nat : m = n + 1
  OBVIOUS
<1>10. /\ Typed(V, g, f) /\ Len(g) = m /\ SameUpTo(T, V, m)
       /\ m + 1 \notin DOMAIN V
       /\ \A j \in 1..n : g[j] = c[j]
  BY ONLY <1>4, <1>8, <1>9 DEF Emitted, HereIs
<1>11. g \in Seq(Instrs) /\ g[m] = ins
  <2>1. g \in Seq(Instrs)
    BY <1>2, <1>5
  <2>2. g[m] = ins
    BY ONLY <1>2, <1>5, <1>9, c \in Seq(Instrs), n \in Nat, n = Len(c), AppendAny
  <2>. QED
    BY <2>1, <2>2
<1>12. PICK H : H = {i}
  OBVIOUS
<1>13. \A h \in H : /\ h \in 1..m
                    /\ h \in DOMAIN V => s.done = NOT_DONE
                    /\ Leaves(V, g, h, s.tys)
  <2>1. PICK tys : tys = s.tys
    OBVIOUS
  <2>2. SameUpTo(T, V, n)
    <3>1. \A j \in 1..n : j \in 1..m
      BY <1>9
    <3>. QED
      BY ONLY <1>10, <3>1 DEF SameUpTo
  <2>3. SameTypes(c, g, n)
    BY <1>10 DEF SameTypes
  <2>4. Leaves(T, c, i, tys)
    BY <2>1
  <2>5. Leaves(V, g, i, tys)
    BY ONLY <2>2, <2>3, <2>4, n \in Nat, i \in 1..n, LeavesKept
  <2>6. i \in 1..m
    BY <1>9
  <2>. QED
    BY <1>12, <2>1, <2>5, <2>6
<1>14. e = endJumps(g, H)
  BY <1>1, <1>5, <1>12 DEF ElseJump
<1>15. PICK U : Retyped(V, U, g, e, f, m, m, s)
  <2>1. m + 1 \in DOMAIN V => s.done = NOT_DONE /\ tyCheck(s.tys, V[m + 1], TRUE)
    BY <1>10
  <2>2. Typed(V, g, f) /\ m = Len(g)
    BY <1>10
  <2>. QED
    BY ONLY <1>11, <1>13, <1>14, <2>1, <2>2, KeepsRules, f \in FnSigs, m \in Nat, s \in Snap,
            EndCode
<1>16. SameUpTo(T, U, m)
  BY ONLY <1>10, <1>15 DEF Retyped, SameUpTo
<1>17. \A j \in 1..m : e[j].inp = g[j].inp /\ e[j].out = g[j].out
  BY <1>15 DEF Retyped, SameTypes
<1>18. SameTypes(c, e, n)
  <2>1. \A j \in 1..n : j \in 1..m
    BY <1>9
  <2>. QED
    BY ONLY <1>10, <1>17, <2>1 DEF SameTypes
<1>19. e[m].inp = << >> /\ e[m].out = << >>
  <2>1. m \in 1..m
    BY <1>9
  <2>. QED
    BY ONLY <1>2, <1>11, <1>17, <2>1
<1>20. Retyped(T, U, c, e, f, n, m, s)
  BY ONLY <1>15, <1>16, <1>18 DEF Retyped
<1>. QED
  BY ONLY <1>9, <1>19, <1>20 DEF Forked

-----------------------------------------------------------------------------
(* The branches of an if.                                                  *)

(* From the view v, of L snapshots, to the view w: the branch is merged or *)
(* kept as the first, and the next starts as the chain of is did, above b. *)
Branch(v, w, b, L, is, is2) ==
  /\ Below(v, w, b)
  /\ w[b + IfSnapshots(is2)] = v[b]
  /\ is2.hadFull => w[b + 1] = v[b + 1]
  /\ is.hadFull => is2.hadFull
  /\ ~is2.hadFull => v[L].done # NOT_DONE /\ is2.done # NOT_DONE
  /\ v[L].done = NOT_DONE => is2.hadFull /\ tyCheck(v[b + 1].tys, v[L].tys, TRUE)

LEMMA BranchView ==
  ASSUME KeepsRules, NEW d, Db(d), ~d.unty, NEW is \in IfStates, NEW t, t = tyIf(d, is),
         Ok(t.db), NEW b \in Nat \ {0}, Len(d.tyIs) = b + IfSnapshots(is),
         View(d)[b].done = NOT_DONE
  PROVE  /\ Len(t.db.tyIs) = b + IfSnapshots(t.is)
         /\ Branch(View(d), View(t.db), b, Len(d.tyIs), is, t.is)
<1>1. PICK L \in Nat \ {0} : L = Len(d.tyIs)
  BY ViewFacts
<1>2. PICK v : v = View(d)
  OBVIOUS
<1>3. PICK e : e = t.db
  OBVIOUS
<1>4. PICK w : w = View(e)
  OBVIOUS
<1>5. PICK is2 : is2 = t.is
  OBVIOUS
<1>6. /\ Kept(d, e) /\ is2 \in IfStates
      /\ (is.hadFull /\ v[L].done = NOT_DONE) => tyCheck(v[L - 1].tys, v[L].tys, TRUE)
      /\ is.hadFull => is2.hadFull /\ Viewed(d, e, L, v[L - 2].tys, NOT_DONE)
      /\ (~is.hadFull /\ v[L].done # NOT_DONE) =>
           /\ ~is2.hadFull /\ is2.done # NOT_DONE
           /\ Viewed(d, e, L, v[L - 1].tys, NOT_DONE)
      /\ (~is.hadFull /\ v[L].done = NOT_DONE) =>
           is2.hadFull /\ Viewed(d, e, L + 1, v[L - 1].tys, NOT_DONE)
  <2>1. Ok(e)
    BY <1>3
  <2>. QED
    BY ONLY <1>1, <1>2, <1>3, <1>5, <2>1, Db(d), ~d.unty, is \in IfStates, t = tyIf(d, is),
            TyIfView
<1>7. \A i \in 1..L : v[i] \in Snap
  BY ONLY <1>1, <1>2, Db(d), ViewFacts
<1>8. \A i \in 1..Len(e.tyIs) : w[i] \in Snap
  BY ONLY <1>4, <1>6, ViewFacts DEF Kept
<1>9. v[b].done = NOT_DONE
  BY <1>2
<1>10. \A x \in Snap, y \in Snap : (x.tys = y.tys /\ x.done = y.done) => x = y
  BY DEF Snap
<1>11. CASE is.hadFull
  <2>1. L = b + 2 /\ L - 2 = b /\ L - 1 = b + 1 /\ b \in 1..L /\ L \in 1..L /\ b + 1 \in 1..L - 1
        /\ is2.hadFull
    BY <1>1, <1>6, <1>11 DEF IfSnapshots
  <2>2. IfSnapshots(is2) = 2
    BY <2>1 DEF IfSnapshots
  <2>3. Len(e.tyIs) = L /\ Below(v, w, L - 1) /\ w[L].tys = v[b].tys /\ w[L].done = NOT_DONE
    BY ONLY <1>2, <1>4, <1>6, <1>11, <2>1 DEF Viewed
  <2>4. w[L] = v[b]
    BY ONLY <1>7, <1>8, <1>9, <1>10, <2>1, <2>3
  <2>5. Below(v, w, b) /\ w[b + 1] = v[b + 1]
    <3>1. \A i \in 1..b : i \in 1..L - 1
      BY <2>1
    <3>. QED
      BY ONLY <2>1, <2>3, <3>1 DEF Below
  <2>6. v[L].done = NOT_DONE => tyCheck(v[b + 1].tys, v[L].tys, TRUE)
    BY ONLY <1>6, <1>11, <2>1
  <2>7. Branch(v, w, b, L, is, is2)
    BY ONLY <2>1, <2>2, <2>4, <2>5, <2>6 DEF Branch
  <2>. QED
    BY ONLY <1>1, <1>2, <1>3, <1>4, <1>5, <2>1, <2>2, <2>3, <2>7
<1>12. CASE ~is.hadFull /\ v[L].done # NOT_DONE
  <2>1. L = b + 1 /\ L - 1 = b /\ b \in 1..L /\ L \in 1..L
    BY <1>1, <1>12 DEF IfSnapshots
  <2>2. IfSnapshots(is2) = 1 /\ ~is2.hadFull /\ is2.done # NOT_DONE
    BY ONLY <1>6, <1>12 DEF IfSnapshots
  <2>3. Len(e.tyIs) = L /\ Below(v, w, b) /\ w[L].tys = v[b].tys /\ w[L].done = NOT_DONE
    BY ONLY <1>2, <1>4, <1>6, <1>12, <2>1 DEF Viewed
  <2>4. w[L] = v[b]
    BY ONLY <1>7, <1>8, <1>9, <1>10, <2>1, <2>3
  <2>5. Branch(v, w, b, L, is, is2)
    BY ONLY <1>12, <2>1, <2>2, <2>3, <2>4 DEF Branch
  <2>. QED
    BY ONLY <1>1, <1>2, <1>3, <1>4, <1>5, <2>1, <2>2, <2>3, <2>5
<1>13. CASE ~is.hadFull /\ v[L].done = NOT_DONE
  <2>1. L = b + 1 /\ L - 1 = b /\ b \in 1..L /\ L \in 1..L /\ L + 1 = b + 2 /\ (L + 1) - 1 = L
        /\ b + 1 \in 1..L /\ L + 1 \in 1..L + 1
    BY <1>1, <1>13 DEF IfSnapshots
  <2>2. IfSnapshots(is2) = 2 /\ is2.hadFull
    BY ONLY <1>6, <1>13 DEF IfSnapshots
  <2>3. Len(e.tyIs) = L + 1 /\ Below(v, w, L)
        /\ w[L + 1].tys = v[b].tys /\ w[L + 1].done = NOT_DONE
    BY ONLY <1>2, <1>4, <1>6, <1>13, <2>1 DEF Viewed
  <2>4. w[b + 2] = v[b]
    BY ONLY <1>7, <1>8, <1>9, <1>10, <2>1, <2>3
  <2>5. Below(v, w, b) /\ w[b + 1] = v[b + 1]
    <3>1. \A i \in 1..b : i \in 1..L
      BY <2>1
    <3>. QED
      BY ONLY <2>1, <2>3, <3>1 DEF Below
  <2>6. tyCheck(v[b + 1].tys, v[L].tys, TRUE)
    <3>1. v[L].tys \in Seq(Types)
      BY <1>7, <2>1 DEF Snap
    <3>. QED
      BY ONLY <2>1, <3>1, KeepsRules, CheckSame
  <2>7. Branch(v, w, b, L, is, is2)
    BY ONLY <1>13, <2>1, <2>2, <2>4, <2>5, <2>6 DEF Branch
  <2>. QED
    BY ONLY <1>1, <1>2, <1>3, <1>4, <1>5, <2>1, <2>2, <2>3, <2>7
<1>. QED
  BY <1>11, <1>12, <1>13

(* The end of a branch, and the ends of the branches before it, leave the  *)
(* types of full when there was a branch that was not done, had.           *)
Left(T, c, f, n, full, had) ==
  /\ \A p \in f.ends : /\ p \in 1..n
                       /\ IF had THEN Leaves(T, c, p, full.tys) ELSE p \notin DOMAIN T
  /\ n + 1 \in DOMAIN T => had /\ tyCheck(full.tys, T[n + 1], TRUE)

LEMMA BranchLeft ==
  ASSUME NEW T, NEW c, NEW f, NEW n \in Nat, n = Len(c), NEW v, NEW w, NEW b, NEW L,
         NEW is2, Branch(v, w, b, L, f.is, is2), HereIs(T, n, v[L]),
         NEW again, OwesIf(T, c, f, v[b], v[b + 1], again)
  PROVE  Left(T, c, f, n, v[b + 1], is2.hadFull)
<1>1. ASSUME NEW p \in f.ends
      PROVE  /\ p \in 1..n
             /\ IF is2.hadFull THEN Leaves(T, c, p, v[b + 1].tys) ELSE p \notin DOMAIN T
  <2>1. p \in 1..n /\ IF f.is.hadFull THEN Leaves(T, c, p, v[b + 1].tys) ELSE p \notin DOMAIN T
    BY DEF OwesIf
  <2>2. f.is.hadFull => is2.hadFull
    BY DEF Branch
  <2>3. p \notin DOMAIN T => Leaves(T, c, p, v[b + 1].tys)
    BY DEF Leaves
  <2>. QED
    BY <2>1, <2>2, <2>3
<1>2. ASSUME n + 1 \in DOMAIN T
      PROVE  is2.hadFull /\ tyCheck(v[b + 1].tys, T[n + 1], TRUE)
  <2>1. v[L].done = NOT_DONE /\ T[n + 1] = v[L].tys
    BY <1>2 DEF HereIs
  <2>. QED
    BY <2>1 DEF Branch
<1>. QED
  BY <1>1, <1>2 DEF Left

(* `elif' and `else': the branch that ends jumps to the end of the chain.  *)
LEMMA BranchOwes ==
  ASSUME NEW T, NEW U, NEW c, NEW e, NEW sig, NEW f, NEW n \in Nat, n = Len(c),
         NEW full, NEW had, Left(T, c, f, n, full, had),
         \A j \in DOMAIN T : T[j] \in Seq(Types),
         NEW x, x.done = NOT_DONE, Forked(T, U, c, e, sig, n, x),
         NEW g, g.kind \in {"elif", "else"}, g.is.hadFull = had, g.ends = f.ends \union {n + 1}
  PROVE  OwesIf(U, e, g, x, full, x)
<1>1. /\ \A p \in f.ends : /\ p \in 1..n
                           /\ IF had THEN Leaves(T, c, p, full.tys)
                              ELSE p \notin DOMAIN T
      /\ n + 1 \in DOMAIN T => had /\ tyCheck(full.tys, T[n + 1], TRUE)
  BY DEF Left
<1>2. PICK tys : tys = full.tys
  OBVIOUS
<1>3. PICK m \in Nat : m = n + 1
  OBVIOUS
<1>4. Len(e) = m /\ SameUpTo(T, U, m) /\ SameTypes(c, e, n)
      /\ e[m].inp = << >> /\ e[m].out = << >>
  BY <1>3 DEF Forked, Retyped
<1>5. SameUpTo(T, U, n)
  <2>1. \A j \in 1..n : j \in 1..m
    BY <1>3
  <2>. QED
    BY ONLY <1>4, <2>1 DEF SameUpTo
<1>6. ASSUME NEW p \in f.ends
      PROVE  p \in 1..m /\ IF had THEN Leaves(U, e, p, tys) ELSE p \notin DOMAIN U
  <2>1. p \in 1..n /\ IF had THEN Leaves(T, c, p, tys) ELSE p \notin DOMAIN T
    BY ONLY <1>1, <1>2, p \in f.ends
  <2>2. p \in 1..m
    BY ONLY <1>3, <2>1, n \in Nat
  <2>3. Leaves(T, c, p, tys) => Leaves(U, e, p, tys)
    BY ONLY <1>4, <1>5, <2>1, n \in Nat, LeavesKept
  <2>4. p \notin DOMAIN T => p \notin DOMAIN U
    BY ONLY <1>5, <2>1 DEF SameUpTo
  <2>. QED
    BY ONLY <2>1, <2>2, <2>3, <2>4
<1>7. m \in 1..m /\ IF had THEN Leaves(U, e, m, tys) ELSE m \notin DOMAIN U
  <2>1. m \in 1..m
    BY <1>3
  <2>2. m \in DOMAIN U => m \in DOMAIN T /\ U[m] = T[m]
    BY ONLY <1>4, <2>1 DEF SameUpTo
  <2>3. m \in DOMAIN U => had /\ tyCheck(tys, U[m], TRUE)
    BY ONLY <1>1, <1>2, <1>3, <2>2
  <2>4. m \in DOMAIN U => After(e[m], U[m]) = U[m]
    <3>1. SUFFICES ASSUME m \in DOMAIN U PROVE After(e[m], U[m]) = U[m]
      OBVIOUS
    <3>2. PICK u : u = U[m]
      OBVIOUS
    <3>3. PICK ins : ins = e[m]
      OBVIOUS
    <3>4. u \in Seq(Types) /\ ins.inp = << >> /\ ins.out = << >>
      BY <1>4, <2>2, <3>1, <3>2, <3>3
    <3>5. After(ins, u) = u
      BY ONLY <3>4, AfterNothing
    <3>. QED
      BY ONLY <3>2, <3>3, <3>5
  <2>. QED
    BY ONLY <2>1, <2>3, <2>4 DEF Leaves
<1>8. g.ends = f.ends \union {m} /\ g.is.hadFull = had /\ g.kind # "if" /\ x.done = NOT_DONE
  BY <1>3
<1>. QED
  BY ONLY <1>2, <1>4, <1>6, <1>7, <1>8 DEF OwesIf

(* The handler that waits goes on, or ends: e is typed by U, and g is the  *)
(* database behind it.  The other handlers wait as they did.               *)
LEMMA InnerTyped ==
  ASSUME NEW c, NEW d, NEW k, NEW bs, Sane(c, d, k, bs),
         NEW T, BodyTyped(T, c, d, k, bs), NEW n \in Nat, n = Len(c),
         NEW q \in Nat \ {0}, q = Len(k), k[q].kind # "blk", k[q].kind # "fn",
         NEW U, NEW e, NEW g, NEW m \in Nat, n <= m, Retyped(T, U, c, e, fn, n, m, TopOf(g)),
         Below(View(d), View(g), Snapshots(k)[q - 1] - 1),
         NEW l, SameHandlers(k, l, q - 1), NEW p \in Nat, p = Len(l),
         \/ p = q - 1
         \/ p = q /\ l[q].kind # "blk" /\ Owes(U, e, View(g), bs, l[q], Snapshots(k)[q - 1])
  PROVE  BodyTyped(U, e, g, l, bs)
<1>1. /\ c \in Seq(Instrs) /\ Handlers(k) /\ BlkFrames(k, bs) /\ BlkStarts(bs, n)
  BY DEF Sane
<1>2. /\ Typed(U, e, fn) /\ Len(e) = m /\ HereIs(U, m, TopOf(g))
      /\ SameUpTo(T, U, m) /\ SameTypes(c, e, n)
  BY DEF Retyped
<1>3. SameUpTo(T, U, n)
  <2>1. \A j \in 1..n : j \in 1..m
    OBVIOUS
  <2>. QED
    BY ONLY <1>2, <2>1 DEF SameUpTo
<1>4. AllOwed(T, c, View(d), k, bs, q) /\ HeadOf(T, n, k, bs, TopOf(d))
  BY DEF BodyTyped
<1>5. PICK r \in Nat : r = q - 1
  OBVIOUS
<1>6. AllOwed(U, e, View(g), l, bs, r)
  <2>1. PICK v : v = View(d)
    OBVIOUS
  <2>2. PICK w : w = View(g)
    OBVIOUS
  <2>3. AllOwed(T, c, v, k, bs, r)
    <3>1. \A i \in 1..r : i \in 1..q
      BY <1>5
    <3>. QED
      BY ONLY <1>4, <2>1, <3>1 DEF AllOwed
  <2>4. SameBreaks(U, e, k, bs, bs, r)
    BY DEF SameBreaks
  <2>5. Below(v, w, Snapshots(k)[r] - 1) /\ SameHandlers(k, l, r) /\ r \in 0..Len(k)
    BY <1>5, <2>1, <2>2
  <2>6. m = Len(e)
    BY <1>2
  <2>7. AllOwed(U, e, w, l, bs, r)
    BY ONLY <1>1, <1>2, <1>3, <2>3, <2>4, <2>5, <2>6, n \in Nat, n = Len(c), m \in Nat, n <= m,
            AllKept
  <2>. QED
    BY ONLY <2>2, <2>7
<1>7. AllOwed(U, e, View(g), l, bs, p)
  <2>1. CASE p = q - 1
    BY ONLY <1>5, <1>6, <2>1
  <2>2. CASE /\ p = q /\ l[q].kind # "blk"
             /\ Owes(U, e, View(g), bs, l[q], Snapshots(k)[q - 1])
    <3>1. Snapshots(l)[q - 1] = Snapshots(k)[q - 1]
      <4>1. q - 1 \in 0..q - 1
        OBVIOUS
      <4>. QED
        BY <4>1 DEF SameHandlers
    <3>2. SUFFICES ASSUME NEW i \in 1..p
                   PROVE  Owes(U, e, View(g), bs, l[i], Snapshots(l)[i - 1])
      BY DEF AllOwed
    <3>3. i \in 1..r \/ i = q
      BY <1>5, <2>2
    <3>. QED
      BY ONLY <1>6, <2>2, <3>1, <3>3 DEF AllOwed
  <2>. QED
    BY <2>1, <2>2
<1>8. HeadOf(U, m, l, bs, TopOf(g))
  <2>1. PICK s : s = TopOf(d)
    OBVIOUS
  <2>2. PICK s2 : s2 = TopOf(g)
    OBVIOUS
  <2>3. ASSUME NEW i \in 1..p, l[i].kind = "blk"
        PROVE  i < q /\ l[i] = k[i]
    <3>1. i \in 1..q - 1
      <4>1. i # q
        BY <2>3
      <4>. QED
        BY <4>1
    <3>. QED
      BY <3>1 DEF SameHandlers
  <2>4. q \in Nat /\ q = Len(k) /\ p \in Nat /\ p = Len(l) /\ n \in Nat /\ m \in Nat /\ n <= m
    OBVIOUS
  <2>5. HeadOf(T, n, k, bs, s)
    BY <1>4, <2>1
  <2>6. HeadOf(U, m, l, bs, s2)
    BY ONLY <1>1, <1>3, <2>3, <2>4, <2>5, HeadInner
  <2>. QED
    BY ONLY <2>2, <2>6
<1>. QED
  BY ONLY <1>2, <1>7, <1>8, p = Len(l) DEF BodyTyped

-----------------------------------------------------------------------------
(* The steps of the handlers.                                              *)

LEMMA TopSnap ==
  ASSUME NEW g, Db(g)
  PROVE  TopOf(g) \in Snap /\ Len(g.tyIs) \in Nat \ {0}
<1>1. Len(g.tyIs) \in Nat \ {0}
  BY ViewFacts
<1>2. Len(g.tyIs) \in 1..Len(g.tyIs)
  BY <1>1
<1>. QED
  BY ONLY <1>1, <1>2, Db(g), ViewFacts DEF TopOf

(* What a condition leaves is what its jump leaves.                        *)
LEMMA CondLeaves ==
  ASSUME NEW T, NEW U, NEW c \in Seq(Instrs), NEW e, NEW f, NEW n \in Nat, n = Len(c), NEW s,
         Emitted(T, U, c, e, f, n, s), e = Append(c, Condition), NEW x, HereIs(T, n, x),
         NEW tys, x.done = NOT_DONE => tyCheck(tys, After(Condition, x.tys), TRUE)
  PROVE  Leaves(U, e, n + 1, tys)
<1>1. PICK m \in Nat : m = n + 1
  OBVIOUS
<1>2. SUFFICES ASSUME m \in DOMAIN U PROVE tyCheck(tys, After(e[m], U[m]), TRUE)
  BY <1>1 DEF Leaves
<1>3. m \in DOMAIN T /\ U[m] = T[m]
  <2>1. m \in 1..m /\ SameUpTo(T, U, m)
    BY <1>1 DEF Emitted
  <2>. QED
    BY ONLY <1>2, <2>1 DEF SameUpTo
<1>4. x.done = NOT_DONE /\ U[m] = x.tys
  BY <1>1, <1>3 DEF HereIs
<1>5. e[m] = Condition
  <2>1. PICK ins : ins = Condition
    OBVIOUS
  <2>2. e[m] = ins
    BY ONLY <1>1, <2>1, c \in Seq(Instrs), e = Append(c, Condition), n \in Nat, n = Len(c),
            AppendAny
  <2>. QED
    BY <2>1, <2>2
<1>. QED
  BY ONLY <1>4, <1>5, x.done = NOT_DONE => tyCheck(tys, After(Condition, x.tys), TRUE)

LEMMA IfTyped ==
  ASSUME KeepsRules, NEW c, NEW d, NEW k, NEW bs, Sane(c, d, k, bs), ~d.unty,
         NEW T, BodyTyped(T, c, d, k, bs), NEW n \in Nat, n = Len(c), NEW cond,
         NEW g, g = tyClone(Require(tyCall(d, <<S>>, << >>), cond, "done"), 0), Ok(g),
         NEW f, f = [Frame("if") EXCEPT !.i = n + 1], NEW l, l = Append(k, f),
         NEW e, e = Append(c, Condition)
  PROVE  \E U : BodyTyped(U, e, g, l, bs)
<1>1. /\ c \in Seq(Instrs) /\ fn \in FnSigs /\ Db(d) /\ Handlers(k)
      /\ BlkFrames(k, bs) /\ BlkStarts(bs, n)
  BY DEF Sane
<1>2. /\ Typed(T, c, fn) /\ HereIs(T, n, TopOf(d))
      /\ AllOwed(T, c, View(d), k, bs, Len(k)) /\ HeadOf(T, n, k, bs, TopOf(d))
  BY DEF BodyTyped
<1>3. PICK q \in Nat \ {0} : q = Len(k)
  BY <1>1, HandlersFacts
<1>4. PICK L \in Nat \ {0} : L = Len(d.tyIs) /\ Snapshots(k)[q] = L
  BY ONLY <1>3, Sane(c, d, k, bs), TopSnap, SaneFacts DEF Sane
<1>5. PICK v : v = View(d)
  OBVIOUS
<1>6. PICK w : w = View(g)
  OBVIOUS
<1>7. PICK a : a = After(Condition, v[L].tys)
  OBVIOUS
<1>8. /\ Kept(d, g) /\ v[L].done = NOT_DONE /\ tyCheck(<<S>>, v[L].tys, FALSE)
      /\ Len(g.tyIs) = L + 1 /\ Below(v, w, L - 1)
      /\ w[L].tys = a /\ w[L].done = NOT_DONE
      /\ w[L + 1].tys = a /\ w[L + 1].done = NOT_DONE
  BY ONLY <1>1, <1>4, <1>5, <1>6, <1>7, ~d.unty, Ok(g),
          g = tyClone(Require(tyCall(d, <<S>>, << >>), cond, "done"), 0), IfView, ZenonT(60)
<1>9. PICK x \in Snap : x = TopOf(d)
  BY <1>1, TopSnap
<1>10. PICK s \in Snap : s = TopOf(g)
  BY <1>8, TopSnap DEF Kept
<1>11. x = v[L] /\ s = w[L + 1]
  BY ONLY <1>4, <1>5, <1>6, <1>8, <1>9, <1>10 DEF TopOf
<1>12. PICK ins \in Instrs : ins = Condition
  BY CondJumpFacts
<1>13. ins.op = "JLZ" /\ ins.to = 0 /\ ins.inp = <<S>>
  BY ONLY <1>12, CondJumpFacts
<1>14. Fits(T, ins, fn.out, n, s)
  <2>1. PICK out : out = fn.out
    OBVIOUS
  <2>2. x.done = NOT_DONE =>
          LET b == After(ins, x.tys) IN
          /\ tyCheck(ins.inp, x.tys, FALSE)
          /\ ins.op = "RET" => tyCheck(out, x.tys, TRUE)
          /\ ins.op \notin {"RET", "JL"} => s.done = NOT_DONE /\ s.tys = b
          /\ (ins.op \in Jumps /\ ins.to > 0) => Flows(T, b, ins.to)
    <3>1. After(ins, x.tys) = a
      BY ONLY <1>7, <1>11, <1>12
    <3>2. ins.op # "RET" /\ ~(ins.to > 0)
      BY ONLY <1>13
    <3>. QED
      BY ONLY <1>8, <1>11, <1>13, <3>1, <3>2
  <2>3. Fits(T, ins, out, n, s)
    BY ONLY <1>2, <1>9, <2>2, KeepsRules, n \in Nat, x \in Snap, ins \in Instrs, s \in Snap,
            FitsHere
  <2>. QED
    BY ONLY <2>1, <2>3
<1>15. PICK U : U = Then(T, n + 1, s)
  OBVIOUS
<1>16. PICK sig : sig = fn
  OBVIOUS
<1>17. Emitted(T, U, c, e, sig, n, s)
  <2>1. sig \in FnSigs /\ Typed(T, c, sig) /\ Fits(T, ins, sig.out, n, s) /\ e = Append(c, ins)
    BY <1>1, <1>2, <1>12, <1>14, <1>16
  <2>2. c \in Seq(Instrs)
    BY <1>1
  <2>. QED
    BY ONLY <1>15, <2>1, <2>2, KeepsRules, n \in Nat, n = Len(c), s \in Snap, ins \in Instrs,
            TypedEmit
<1>18. PICK p \in Nat : p = n + 1
  OBVIOUS
<1>19. /\ Typed(U, e, fn) /\ Len(e) = p /\ SameUpTo(T, U, p) /\ HereIs(U, p, s)
       /\ \A j \in 1..n : e[j] = c[j]
  BY ONLY <1>16, <1>17, <1>18 DEF Emitted
<1>20. SameUpTo(T, U, n) /\ SameTypes(c, e, n)
  <2>1. \A j \in 1..n : j \in 1..p
    BY <1>18
  <2>2. SameUpTo(T, U, n)
    BY ONLY <1>19, <2>1 DEF SameUpTo
  <2>3. SameTypes(c, e, n)
    BY ONLY <1>19 DEF SameTypes
  <2>. QED
    BY <2>2, <2>3
<1>21. f \in Frames /\ f.kind = "if" /\ f.i = p /\ f.ends = {} /\ ~f.is.hadFull /\ SnapshotsOf(f) = 1
  <2>1. n + 1 \in Nat
    OBVIOUS
  <2>. QED
    BY ONLY <1>18, <2>1, f = [Frame("if") EXCEPT !.i = n + 1], IfFrame
<1>22. Handlers(l) /\ Len(l) = q + 1 /\ l[q + 1] = f /\ SameHandlers(k, l, q)
  <2>1. f.kind # "fn"
    BY <1>21
  <2>. QED
    BY ONLY <1>1, <1>3, <1>21, <2>1, l = Append(k, f), AppendSnapshots, ZenonT(60)
<1>23. AllOwed(U, e, w, l, bs, q)
  <2>1. AllOwed(T, c, v, k, bs, q)
    BY <1>2, <1>3, <1>5
  <2>2. SameBreaks(U, e, k, bs, bs, q)
    BY DEF SameBreaks
  <2>3. Below(v, w, Snapshots(k)[q] - 1) /\ q \in 0..Len(k)
    BY <1>3, <1>4, <1>8
  <2>4. n \in Nat /\ n = Len(c) /\ p \in Nat /\ p = Len(e) /\ n <= p
    BY <1>18, <1>19
  <2>. QED
    BY ONLY <1>1, <1>20, <1>22, <2>1, <2>2, <2>3, <2>4, AllKept
<1>24. Owes(U, e, w, bs, f, L)
  <2>1. PICK y : y = w[L]
    OBVIOUS
  <2>2. Leaves(U, e, p, a)
    <3>1. x.done = NOT_DONE => tyCheck(a, After(Condition, x.tys), TRUE)
      <4>1. s.tys = a /\ s.tys \in Seq(Types)
        BY <1>8, <1>11 DEF Snap
      <4>2. tyCheck(a, a, TRUE)
        BY ONLY <4>1, KeepsRules, CheckSame
      <4>. QED
        BY ONLY <1>7, <1>11, <4>2
    <3>2. Leaves(U, e, n + 1, a)
      BY ONLY <1>1, <1>2, <1>9, <1>17, <3>1, n \in Nat, n = Len(c), e = Append(c, Condition),
              CondLeaves
    <3>. QED
      BY ONLY <1>18, <3>2
  <2>3. p \in 1..p /\ y.done = NOT_DONE /\ y.tys = a
    BY <1>8, <1>18, <2>1
  <2>4. OwesIf(U, e, f, y, w[L + 1], w[L + 1 - 1])
    BY ONLY <1>19, <1>21, <2>2, <2>3 DEF OwesIf
  <2>. QED
    BY ONLY <1>21, <2>1, <2>4 DEF Owes
<1>25. AllOwed(U, e, w, l, bs, q + 1)
  <2>1. SUFFICES ASSUME NEW i \in 1..q + 1
                 PROVE  Owes(U, e, w, bs, l[i], Snapshots(l)[i - 1])
    BY DEF AllOwed
  <2>2. CASE i \in 1..q
    BY ONLY <1>23, <2>2 DEF AllOwed
  <2>3. CASE i \notin 1..q
    <3>1. i = q + 1 /\ i - 1 = q /\ q \in 0..q
      BY <2>3
    <3>2. Snapshots(l)[q] = L
      BY <1>4, <1>22, <3>1 DEF SameHandlers
    <3>. QED
      BY ONLY <1>22, <1>24, <3>1, <3>2
  <2>. QED
    BY <2>2, <2>3
<1>26. HeadOf(U, p, l, bs, s)
  <2>1. \A i \in 1..q : l[i] = k[i]
    BY <1>22 DEF SameHandlers
  <2>2. l[q + 1].kind # "blk" /\ Len(l) = q + 1
    BY <1>21, <1>22
  <2>3. x.done = NOT_DONE /\ HeadOf(T, n, k, bs, x)
    BY <1>2, <1>8, <1>9, <1>11
  <2>. QED
    BY ONLY <1>1, <1>3, <1>18, <1>19, <2>1, <2>2, <2>3, n \in Nat, p \in Nat, q \in Nat \ {0},
            HeadPush
<1>. QED
  BY ONLY <1>6, <1>10, <1>19, <1>22, <1>25, <1>26 DEF BodyTyped

(* The handler of an if that waits, which started with b snapshots.        *)
LEMMA ChainFacts ==
  ASSUME NEW c, NEW d, NEW k, NEW bs, Sane(c, d, k, bs), NEW T, BodyTyped(T, c, d, k, bs),
         NEW q, q = Len(k), NEW f, f = k[q], f.kind \in {"if", "elif", "else"},
         NEW b, b = Snapshots(k)[q - 1], NEW v, v = View(d)
  PROVE  /\ f \in Frames /\ f.is \in IfStates /\ f.i \in Nat /\ f.ends \in SUBSET Nat
         /\ b \in Nat \ {0} /\ b >= 2 /\ q \in Nat \ {0} /\ q >= 2
         /\ Len(d.tyIs) = b + SnapshotsOf(f) /\ IfSnapshots(f.is) \in 1..2
         /\ SnapshotsOf(f) = IfSnapshots(f.is) + IF f.kind = "elif" THEN 1 ELSE 0
         /\ OwesIf(T, c, f, v[b], v[b + 1], v[b + SnapshotsOf(f) - 1])
         /\ v[b].done = NOT_DONE
<1>1. Handlers(k) /\ Len(d.tyIs) = Snapshots(k)[q]
  BY DEF Sane, Total
<1>2. q \in Nat \ {0} /\ q \in 1..q /\ f \in Frames
  BY <1>1, HandlersFacts
<1>3. q >= 2
  <2>1. q # 1
    BY <1>1, <1>2 DEF Handlers
  <2>. QED
    BY <1>2, <2>1
<1>4. /\ b \in Nat \ {0} /\ b >= 2 /\ Snapshots(k)[q] = b + SnapshotsOf(f)
  <2>1. q - 1 \in 0..q /\ q - 1 \in 1..q
    BY <1>3, <1>2
  <2>. QED
    BY ONLY <1>1, <1>2, <2>1, q = Len(k), f = k[q], b = Snapshots(k)[q - 1], HandlersFacts
<1>5. /\ IfSnapshots(f.is) \in 1..2
      /\ SnapshotsOf(f) = IfSnapshots(f.is) + IF f.kind = "elif" THEN 1 ELSE 0
  <2>1. /\ IfSnapshots(f.is) \in 1..2
        /\ f.kind \in {"if", "else"} => SnapshotsOf(f) = IfSnapshots(f.is)
        /\ f.kind = "elif" => SnapshotsOf(f) = IfSnapshots(f.is) + 1
    BY ONLY <1>2, IfSnapshotsFacts
  <2>. QED
    BY <2>1
<1>6. Owes(T, c, v, bs, f, b)
  BY <1>2 DEF BodyTyped, AllOwed
<1>7. OwesIf(T, c, f, v[b], v[b + 1], v[b + SnapshotsOf(f) - 1])
  BY <1>6 DEF Owes
<1>8. v[b].done = NOT_DONE
  BY <1>7 DEF OwesIf
<1>. QED
  BY ONLY <1>1, <1>2, <1>3, <1>4, <1>5, <1>7, <1>8 DEF Frames

(* What `elif' and `else' leave in the database.                           *)
BranchDb(kind, t) == IF kind = "elif" THEN tyClone(t.db, 0) ELSE t.db

LEMMA BranchDbView ==
  ASSUME NEW kind \in {"elif", "else"}, NEW t, Db(t.db), ~t.db.unty,
         NEW g, g = BranchDb(kind, t), Ok(g), NEW m \in Nat \ {0}, m = Len(t.db.tyIs),
         NEW w, w = View(t.db), NEW x \in Snap, w[m] = x, x.done = NOT_DONE
  PROVE  /\ Db(g) /\ Ok(t.db) /\ TopOf(g) = x
         /\ Len(g.tyIs) = m + IF kind = "elif" THEN 1 ELSE 0
         /\ Below(w, View(g), m)
<1>1. CASE kind = "elif"
  <2>1. g = tyClone(t.db, 0)
    BY <1>1 DEF BranchDb
  <2>2. Kept(t.db, g) /\ Viewed(t.db, g, m + 1, w[m].tys, NOT_DONE)
    <3>1. 0 \in Nat /\ m - 0 = m
      OBVIOUS
    <3>2. /\ Kept(t.db, g)
          /\ Viewed(t.db, g, Len(t.db.tyIs) + 1, View(t.db)[Len(t.db.tyIs) - 0].tys, NOT_DONE)
      BY ONLY <2>1, <3>1, Ok(g), Db(t.db), ~t.db.unty, CloneView
    <3>. QED
      BY ONLY <3>1, <3>2, m = Len(t.db.tyIs), w = View(t.db)
  <2>3. Db(g) /\ Ok(t.db)
    BY <2>2 DEF Kept
  <2>4. Len(g.tyIs) = m + 1 /\ Below(w, View(g), m) /\ TopOf(g).tys = x.tys
        /\ TopOf(g).done = NOT_DONE
    BY <2>2 DEF Viewed, TopOf
  <2>5. TopOf(g) \in Snap
    BY ONLY <2>3, TopSnap
  <2>6. TopOf(g) = x
    BY ONLY <2>4, <2>5, x \in Snap, x.done = NOT_DONE DEF Snap
  <2>. QED
    BY <1>1, <2>3, <2>4, <2>6
<1>2. CASE kind # "elif"
  <2>1. g = t.db
    BY <1>2 DEF BranchDb
  <2>2. TopOf(g) = x
    BY <2>1 DEF TopOf
  <2>3. Below(w, w, m)
    BY DEF Below
  <2>. QED
    BY ONLY <1>2, <2>1, <2>2, <2>3, Ok(g), Db(t.db), m \in Nat \ {0}, m = Len(t.db.tyIs), w = View(t.db)
<1>. QED
  BY <1>1, <1>2

(* What the compiler makes of a frame f where its branch ends.             *)
Turns(c, d, k, f, kind, n, t, g, h, l, e) ==
  /\ kind \in {"elif", "else"} /\ l = [k EXCEPT ![Len(k)] = h]
  /\ t = tyIf(d, f.is) /\ g = BranchDb(kind, t)
  /\ h = Branched(f, kind, t.is, n + 1)
  /\ e = ElseJump(c, f.i)

LEMMA BranchTyped ==
  ASSUME KeepsRules, NEW c, NEW d, NEW k, NEW bs, Sane(c, d, k, bs), ~d.unty,
         NEW T, BodyTyped(T, c, d, k, bs), NEW n \in Nat, n = Len(c),
         NEW q, q = Len(k), NEW f, f = k[q], f.kind = "if", NEW kind,
         NEW t, NEW g, NEW h, NEW l, NEW e, Turns(c, d, k, f, kind, n, t, g, h, l, e), Ok(g)
  PROVE  \E U : BodyTyped(U, e, g, l, bs)
<1>0. /\ kind \in {"elif", "else"} /\ l = [k EXCEPT ![Len(k)] = h]
      /\ t = tyIf(d, f.is) /\ g = BranchDb(kind, t)
      /\ h = Branched(f, kind, t.is, n + 1) /\ e = ElseJump(c, f.i)
  BY DEF Turns
<1>. USE <1>0
<1>1. c \in Seq(Instrs) /\ fn \in FnSigs /\ Db(d) /\ Handlers(k)
  BY DEF Sane
<1>2. /\ Typed(T, c, fn) /\ HereIs(T, n, TopOf(d))
  BY DEF BodyTyped
<1>3. PICK b : b = Snapshots(k)[q - 1]
  OBVIOUS
<1>4. PICK v : v = View(d)
  OBVIOUS
<1>5. PICK is : is = f.is
  OBVIOUS
<1>6. /\ f \in Frames /\ is \in IfStates
      /\ b \in Nat \ {0} /\ q \in Nat \ {0} /\ q >= 2
      /\ Len(d.tyIs) = b + SnapshotsOf(f) /\ IfSnapshots(is) \in 1..2
      /\ SnapshotsOf(f) = IfSnapshots(is)
      /\ OwesIf(T, c, f, v[b], v[b + 1], v[b + SnapshotsOf(f) - 1])
      /\ v[b].done = NOT_DONE
  <2>1. f.kind \in {"if", "elif", "else"} /\ f.kind # "elif"
    OBVIOUS
  <2>2. SnapshotsOf(f) = IfSnapshots(f.is) + IF f.kind = "elif" THEN 1 ELSE 0
    BY ONLY <1>3, <1>4, <2>1, Sane(c, d, k, bs), BodyTyped(T, c, d, k, bs), q = Len(k), f = k[q],
            ChainFacts
  <2>3. /\ f \in Frames /\ f.is \in IfStates
        /\ b \in Nat \ {0} /\ q \in Nat \ {0} /\ q >= 2
        /\ Len(d.tyIs) = b + SnapshotsOf(f) /\ IfSnapshots(f.is) \in 1..2
        /\ OwesIf(T, c, f, v[b], v[b + 1], v[b + SnapshotsOf(f) - 1])
        /\ v[b].done = NOT_DONE
    BY ONLY <1>3, <1>4, <2>1, Sane(c, d, k, bs), BodyTyped(T, c, d, k, bs), q = Len(k), f = k[q],
            ChainFacts
  <2>. QED
    BY ONLY <1>5, <2>1, <2>2, <2>3
<1>7. PICK L : L = Len(d.tyIs)
  OBVIOUS
<1>8. PICK is2 : is2 = t.is
  OBVIOUS
<1>9. PICK w : w = View(t.db)
  OBVIOUS
<1>10. Kept(d, t.db) /\ is2 \in IfStates
  BY ONLY <1>1, <1>5, <1>6, <1>8, t = tyIf(d, f.is), TyIfView
<1>11. Db(t.db) /\ ~t.db.unty
  BY ONLY <1>10, ~d.unty DEF Kept
<1>12. Ok(t.db)
  <2>1. CASE kind = "elif"
    <3>1. g = tyClone(t.db, 0) /\ 0 \in Nat
      BY <2>1 DEF BranchDb
    <3>2. Kept(t.db, g)
      BY ONLY <1>11, <3>1, CloneView
    <3>. QED
      BY <3>2 DEF Kept
  <2>2. CASE kind # "elif"
    BY <2>2 DEF BranchDb
  <2>. QED
    BY <2>1, <2>2
<1>13. Len(t.db.tyIs) = b + IfSnapshots(is2) /\ Branch(v, w, b, L, is, is2)
  <2>1. t = tyIf(d, is) /\ Len(d.tyIs) = b + IfSnapshots(is) /\ View(d)[b].done = NOT_DONE
    BY ONLY <1>4, <1>5, <1>6, t = tyIf(d, f.is)
  <2>. QED
    BY ONLY <1>1, <1>4, <1>6, <1>7, <1>8, <1>9, <1>12, <2>1, KeepsRules, ~d.unty, BranchView
<1>14. PICK m \in Nat \ {0} : m = b + IfSnapshots(is2)
  <2>1. IfSnapshots(is2) \in 1..2
    BY DEF IfSnapshots
  <2>. QED
    BY ONLY <1>6, <2>1
<1>15. PICK x \in Snap : x = v[b]
  <2>1. b \in 1..Len(d.tyIs)
    BY ONLY <1>6
  <2>2. v[b] \in Snap
    BY ONLY <1>1, <1>4, <2>1, ViewFacts
  <2>. QED
    BY <2>2
<1>16. x.done = NOT_DONE /\ w[m] = x /\ Len(t.db.tyIs) = m
  BY ONLY <1>6, <1>13, <1>14, <1>15 DEF Branch
<1>17. /\ Db(g) /\ TopOf(g) = x /\ Below(w, View(g), m)
       /\ Len(g.tyIs) = m + IF kind = "elif" THEN 1 ELSE 0
  BY ONLY <1>9, <1>11, <1>16, m \in Nat \ {0}, x \in Snap, kind \in {"elif", "else"},
          g = BranchDb(kind, t), Ok(g), BranchDbView
<1>18. PICK i : i = f.i
  OBVIOUS
<1>19. i \in 1..n /\ Leaves(T, c, i, x.tys)
  BY ONLY <1>6, <1>15, <1>18, f.kind = "if", n = Len(c) DEF OwesIf
<1>20. PICK sig : sig = fn
  OBVIOUS
<1>21. \E U : Forked(T, U, c, e, sig, n, x)
  <2>1. sig \in FnSigs /\ Typed(T, c, sig) /\ e = ElseJump(c, i)
    BY <1>1, <1>2, <1>18, <1>20
  <2>. QED
    BY ONLY <1>1, <1>16, <1>19, <2>1, KeepsRules, n \in Nat, n = Len(c), x \in Snap, BranchCode
<1>22. PICK U : Forked(T, U, c, e, sig, n, x)
  BY ONLY <1>21
<1>23. /\ h \in Frames /\ h.kind = kind /\ h.is = is2 /\ h.ends = f.ends \union {n + 1}
  <2>1. PICK y \in Nat : y = n + 1
    OBVIOUS
  <2>2. h = Branched(f, kind, is2, y)
    BY ONLY <1>8, <2>1, h = Branched(f, kind, t.is, n + 1)
  <2>3. f \in Frames /\ is2 \in IfStates
    BY ONLY <1>6, <1>10
  <2>4. h \in Frames /\ h.kind = kind /\ h.is = is2
    BY ONLY <2>2, <2>3, y \in Nat, kind \in {"elif", "else"}, BranchFrame
  <2>5. h.ends = f.ends \union {y}
    BY ONLY <2>2, <2>3, y \in Nat, kind \in {"elif", "else"}, BranchFrame
  <2>. QED
    BY ONLY <2>1, <2>4, <2>5
<1>24. OwesIf(U, e, h, x, v[b + 1], x)
  <2>1. \A j \in DOMAIN T : T[j] \in Seq(Types)
    BY <1>2 DEF Typed
  <2>2. Branch(v, w, b, L, f.is, is2) /\ HereIs(T, n, v[L])
    BY ONLY <1>2, <1>4, <1>5, <1>7, <1>13 DEF TopOf
  <2>3. Forked(T, U, c, e, sig, n, x) /\ x.done = NOT_DONE
    BY ONLY <1>16, <1>22
  <2>4. h.kind \in {"elif", "else"} /\ h.is.hadFull = is2.hadFull
        /\ h.ends = f.ends \union {n + 1}
    BY ONLY <1>23, kind \in {"elif", "else"}
  <2>5. PICK had : had = is2.hadFull
    OBVIOUS
  <2>6. PICK full : full = v[b + 1]
    OBVIOUS
  <2>7. PICK again : again = v[b + SnapshotsOf(f) - 1]
    OBVIOUS
  <2>8. OwesIf(T, c, f, v[b], v[b + 1], again)
    BY ONLY <1>6, <2>7
  <2>9. Left(T, c, f, n, v[b + 1], is2.hadFull)
    BY ONLY <2>2, <2>8, n \in Nat, n = Len(c), BranchLeft
  <2>10. Left(T, c, f, n, full, had)
    BY ONLY <2>5, <2>6, <2>9
  <2>11. OwesIf(U, e, h, x, full, x)
    BY ONLY <2>1, <2>3, <2>4, <2>5, <2>10, n \in Nat, n = Len(c), BranchOwes
  <2>. QED
    BY ONLY <2>6, <2>11
<1>25. PICK z : z = View(g)
  OBVIOUS
<1>26. Below(v, z, b) /\ z[m] = v[b] /\ (is2.hadFull => z[b + 1] = v[b + 1])
  <2>1. IfSnapshots(is2) \in 1..2 /\ (is2.hadFull => IfSnapshots(is2) = 2)
    BY DEF IfSnapshots
  <2>2. /\ \A j \in 1..b : j \in 1..m
        /\ m \in 1..m /\ (is2.hadFull => b + 1 \in 1..m)
    BY ONLY <1>6, <1>14, <2>1
  <2>. QED
    BY ONLY <1>13, <1>14, <1>17, <1>25, <2>2 DEF Below, Branch
<1>27. Owes(U, e, z, bs, h, b)
  <2>1. h.kind = "elif" => b + SnapshotsOf(h) - 1 = m
    <3>1. SUFFICES ASSUME h.kind = "elif" PROVE b + SnapshotsOf(h) - 1 = m
      OBVIOUS
    <3>2. SnapshotsOf(h) = IfSnapshots(is2) + 1 /\ IfSnapshots(is2) \in 1..2
      BY ONLY <1>23, <3>1, IfSnapshotsFacts
    <3>. QED
      BY ONLY <1>6, <1>14, <3>2
  <2>2. z[b] = v[b]
    <3>1. b \in 1..b
      BY ONLY <1>6
    <3>. QED
      BY ONLY <1>26, <3>1 DEF Below
  <2>3. PICK again : again = z[b + SnapshotsOf(h) - 1]
    OBVIOUS
  <2>4. h.kind = "elif" => again = v[b]
    BY ONLY <1>26, <2>1, <2>3
  <2>5. OwesIf(U, e, h, z[b], z[b + 1], again)
    BY ONLY <1>15, <1>23, <1>24, <1>26, <2>2, <2>4 DEF OwesIf
  <2>6. h.kind # "blk"
    BY ONLY <1>23, kind \in {"elif", "else"}
  <2>. QED
    BY ONLY <2>3, <2>5, <2>6 DEF Owes
<1>28. Len(l) = q /\ l[q] = h /\ SameHandlers(k, l, q - 1)
  <2>1. h.kind # "fn" /\ k[Len(k)].kind # "fn" /\ h \in Frames /\ Handlers(k)
    BY <1>1, <1>23
  <2>2. Len(l) = Len(k) /\ l[Len(k)] = h
    BY ONLY <2>1, l = [k EXCEPT ![Len(k)] = h], ReplaceSnapshots
  <2>3. SameHandlers(k, l, Len(k) - 1)
    BY ONLY <2>1, l = [k EXCEPT ![Len(k)] = h], ReplaceSnapshots
  <2>. QED
    BY ONLY <2>2, <2>3, q = Len(k)
<1>29. BodyTyped(U, e, g, l, bs)
  <2>1. k[q].kind # "blk" /\ k[q].kind # "fn" /\ l[q].kind # "blk"
    BY <1>23, <1>28
  <2>2. PICK p \in Nat : p = n + 1
    OBVIOUS
  <2>3. n <= p /\ Retyped(T, U, c, e, fn, n, p, TopOf(g))
    BY ONLY <1>17, <1>20, <1>22, <2>2, n \in Nat DEF Forked
  <2>4. Below(View(d), View(g), Snapshots(k)[q - 1] - 1)
    <3>1. \A j \in 1..b - 1 : j \in 1..b
      BY ONLY <1>6
    <3>. QED
      BY ONLY <1>3, <1>4, <1>25, <1>26, <3>1 DEF Below
  <2>5. Owes(U, e, View(g), bs, l[q], Snapshots(k)[q - 1])
    BY ONLY <1>3, <1>25, <1>27, <1>28
  <2>6. q \in Nat \ {0} /\ q \in Nat /\ q = Len(l)
    BY ONLY <1>6, <1>28
  <2>. QED
    BY ONLY <1>28, <2>1, <2>2, <2>3, <2>4, <2>5, <2>6, Sane(c, d, k, bs), BodyTyped(T, c, d, k, bs),
            n \in Nat, n = Len(c), q = Len(k), InnerTyped
<1>. QED
  BY <1>29

LEMMA ElifDoTyped ==
  ASSUME KeepsRules, NEW c, NEW d, NEW k, NEW bs, Sane(c, d, k, bs), ~d.unty,
         NEW T, BodyTyped(T, c, d, k, bs), NEW n \in Nat, n = Len(c),
         NEW q, q = Len(k), NEW f, f = k[q], f.kind = "elif", NEW cond,
         NEW g, g = tyMerge(Require(tyCall(d, <<S>>, << >>), cond, "done")), Ok(g),
         NEW h, h = Conditioned(f, n + 1), NEW l, l = [k EXCEPT ![Len(k)] = h],
         NEW e, e = Append(c, Condition)
  PROVE  \E U : BodyTyped(U, e, g, l, bs)
<1>1. c \in Seq(Instrs) /\ fn \in FnSigs /\ Db(d) /\ Handlers(k)
  BY DEF Sane
<1>2. /\ Typed(T, c, fn) /\ HereIs(T, n, TopOf(d))
  BY DEF BodyTyped
<1>3. PICK b : b = Snapshots(k)[q - 1]
  OBVIOUS
<1>4. PICK v : v = View(d)
  OBVIOUS
<1>5. /\ f \in Frames /\ b \in Nat \ {0} /\ q \in Nat \ {0} /\ q >= 2
      /\ Len(d.tyIs) = b + SnapshotsOf(f) /\ IfSnapshots(f.is) \in 1..2
      /\ SnapshotsOf(f) = IfSnapshots(f.is) + 1
      /\ OwesIf(T, c, f, v[b], v[b + 1], v[b + SnapshotsOf(f) - 1])
      /\ v[b].done = NOT_DONE
  <2>1. f.kind \in {"if", "elif", "else"}
    OBVIOUS
  <2>2. SnapshotsOf(f) = IfSnapshots(f.is) + IF f.kind = "elif" THEN 1 ELSE 0
    BY ONLY <1>3, <1>4, <2>1, Sane(c, d, k, bs), BodyTyped(T, c, d, k, bs), q = Len(k), f = k[q],
            ChainFacts
  <2>3. /\ f \in Frames
        /\ b \in Nat \ {0} /\ q \in Nat \ {0} /\ q >= 2
        /\ Len(d.tyIs) = b + SnapshotsOf(f) /\ IfSnapshots(f.is) \in 1..2
        /\ OwesIf(T, c, f, v[b], v[b + 1], v[b + SnapshotsOf(f) - 1])
        /\ v[b].done = NOT_DONE
    BY ONLY <1>3, <1>4, <2>1, Sane(c, d, k, bs), BodyTyped(T, c, d, k, bs), q = Len(k), f = k[q],
            ChainFacts
  <2>. QED
    BY ONLY <2>2, <2>3, f.kind = "elif"
<1>6. PICK L \in Nat \ {0} : L = Len(d.tyIs)
  BY ONLY <1>1, TopSnap
<1>7. /\ L = b + SnapshotsOf(f) /\ L - 1 = b + IfSnapshots(f.is) /\ L - 1 \in Nat \ {0}
      /\ b \in 1..L - 1 /\ (f.is.hadFull => b + 1 \in 1..L - 1) /\ L - 1 \in 1..L - 1
  BY ONLY <1>5, <1>6 DEF IfSnapshots
<1>8. v[L - 1] = v[b]
  BY ONLY <1>5, <1>7, f.kind = "elif" DEF OwesIf
<1>9. PICK d0 : d0 = tyCall(d, <<S>>, << >>)
  OBVIOUS
<1>10. PICK d1 : d1 = Require(d0, cond, "done")
  OBVIOUS
<1>11. g = tyMerge(d1)
  BY <1>9, <1>10
<1>12. Kept(d, d0)
  BY ONLY <1>1, <1>9, ConditionView
<1>13. Kept(d0, d1) /\ (Ok(d1) => d1 = d0)
  <2>1. Db(d0) /\ "done" \in Errors \ {"free", "incomplete"}
    BY ONLY <1>12 DEF Kept, Errors
  <2>. QED
    BY ONLY <1>10, <2>1, RequireKept
<1>14. Db(d1) /\ ~d1.unty
  BY ONLY <1>12, <1>13, ~d.unty DEF Kept
<1>15. Ok(d1) /\ Db(g)
  <2>1. Kept(d1, g)
    BY ONLY <1>11, <1>14, MergeView
  <2>. QED
    BY ONLY <2>1, Ok(g) DEF Kept
<1>16. d1 = d0 /\ Ok(d0)
  BY ONLY <1>13, <1>15
<1>17. PICK a : a = After(Condition, v[L].tys)
  OBVIOUS
<1>18. v[L].done = NOT_DONE /\ tyCheck(<<S>>, v[L].tys, FALSE) /\ Viewed(d, d0, L, a, NOT_DONE)
  BY ONLY <1>1, <1>4, <1>6, <1>9, <1>16, <1>17, ~d.unty, ConditionView
<1>19. PICK u : u = View(d0)
  OBVIOUS
<1>20. PICK w : w = View(g)
  OBVIOUS
<1>21. /\ Len(d0.tyIs) = L /\ Below(v, u, L - 1) /\ u[L].tys = a /\ u[L].done = NOT_DONE
  BY ONLY <1>4, <1>18, <1>19 DEF Viewed
<1>22. Len(g.tyIs) = L - 1 /\ Below(u, w, L - 1) /\ tyCheck(u[L - 1].tys, a, TRUE)
  BY ONLY <1>11, <1>14, <1>16, <1>19, <1>20, <1>21, Ok(g), MergeView
<1>23. Below(v, w, L - 1)
  BY ONLY <1>21, <1>22 DEF Below
<1>24. PICK s \in Snap : s = TopOf(g)
  BY ONLY <1>15, TopSnap
<1>25. s = v[b] /\ tyCheck(s.tys, a, TRUE) /\ s.done = NOT_DONE
  <2>1. s = w[L - 1]
    BY ONLY <1>20, <1>22, <1>24 DEF TopOf
  <2>2. w[L - 1] = v[L - 1] /\ u[L - 1] = v[L - 1]
    BY ONLY <1>7, <1>21, <1>23 DEF Below
  <2>. QED
    BY ONLY <1>5, <1>8, <1>22, <2>1, <2>2
<1>26. PICK x \in Snap : x = TopOf(d)
  BY ONLY <1>1, TopSnap
<1>27. x = v[L]
  BY ONLY <1>4, <1>6, <1>26 DEF TopOf
<1>28. PICK ins \in Instrs : ins = Condition
  BY CondJumpFacts
<1>29. ins.op = "JLZ" /\ ins.to = 0 /\ ins.inp = <<S>>
  BY ONLY <1>28, CondJumpFacts
<1>30. PICK sig : sig = fn
  OBVIOUS
<1>31. Fits(T, ins, sig.out, n, s)
  <2>1. ins.op # "RET" /\ ~(ins.to > 0)
    BY ONLY <1>29
  <2>2. n + 1 \in DOMAIN T => T[n + 1] = v[L].tys
    BY ONLY <1>2, <1>26, <1>27 DEF HereIs
  <2>3. n + 1 \in DOMAIN T => /\ tyCheck(ins.inp, T[n + 1], FALSE)
                              /\ tyCheck(s.tys, After(ins, T[n + 1]), TRUE)
    BY ONLY <1>17, <1>18, <1>25, <1>28, <1>29, <2>2
  <2>. QED
    BY ONLY <1>25, <2>1, <2>3 DEF Fits
<1>32. PICK U : U = Then(T, n + 1, s)
  OBVIOUS
<1>33. Emitted(T, U, c, e, sig, n, s)
  <2>1. sig \in FnSigs /\ Typed(T, c, sig) /\ e = Append(c, ins)
    BY <1>1, <1>2, <1>28, <1>30
  <2>2. c \in Seq(Instrs)
    BY <1>1
  <2>. QED
    BY ONLY <1>31, <1>32, <2>1, <2>2, KeepsRules, n \in Nat, n = Len(c), s \in Snap,
            ins \in Instrs, TypedEmit
<1>34. PICK p \in Nat : p = n + 1
  OBVIOUS
<1>35. /\ Typed(U, e, sig) /\ Len(e) = p /\ SameUpTo(T, U, p) /\ HereIs(U, p, s)
       /\ \A j \in 1..n : e[j] = c[j]
  BY ONLY <1>33, <1>34 DEF Emitted
<1>36. SameUpTo(T, U, n) /\ SameTypes(c, e, n)
  <2>1. \A j \in 1..n : j \in 1..p
    BY <1>34
  <2>2. SameUpTo(T, U, n)
    BY ONLY <1>35, <2>1 DEF SameUpTo
  <2>3. SameTypes(c, e, n)
    BY ONLY <1>35 DEF SameTypes
  <2>. QED
    BY <2>2, <2>3
<1>37. h \in Frames /\ h.kind = "if" /\ h.is = f.is /\ h.i = p /\ h.ends = f.ends
  <2>1. h = Conditioned(f, p) /\ f \in Frames
    BY ONLY <1>5, <1>34, h = Conditioned(f, n + 1)
  <2>. QED
    BY ONLY <2>1, p \in Nat, CondFrame
<1>38. Owes(U, e, w, bs, h, b)
  <2>1. PICK outer : outer = v[b]
    OBVIOUS
  <2>2. PICK full : full = v[b + 1]
    OBVIOUS
  <2>3. PICK again : again = v[b + SnapshotsOf(f) - 1]
    OBVIOUS
  <2>4. PICK full2 : full2 = w[b + 1]
    OBVIOUS
  <2>5. w[b] = outer /\ (f.is.hadFull => full2 = full)
    BY ONLY <1>7, <1>23, <2>1, <2>2, <2>4 DEF Below
  <2>6. OwesIf(T, c, f, outer, full, again)
    BY ONLY <1>5, <2>1, <2>2, <2>3
  <2>7. n <= p /\ p = Len(e)
    BY <1>34, <1>35
  <2>8. OwesIf(U, e, f, outer, full2, again)
    BY ONLY <1>36, <2>5, <2>6, <2>7, n \in Nat, n = Len(c), p \in Nat, OwesIfKept
  <2>9. Leaves(U, e, p, outer.tys)
    <3>1. PICK tys : tys = outer.tys
      OBVIOUS
    <3>2. x.done = NOT_DONE => tyCheck(tys, After(Condition, x.tys), TRUE)
      BY ONLY <1>17, <1>25, <1>27, <2>1, <3>1
    <3>3. HereIs(T, n, x)
      BY <1>2, <1>26
    <3>4. Leaves(U, e, n + 1, tys)
      BY ONLY <1>1, <1>33, <3>2, <3>3, n \in Nat, n = Len(c), e = Append(c, Condition), CondLeaves
    <3>. QED
      BY ONLY <1>34, <3>1, <3>4
  <2>10. p \in 1..Len(e)
    BY <1>34, <1>35
  <2>11. PICK again2 : again2 = w[b + SnapshotsOf(h) - 1]
    OBVIOUS
  <2>12. OwesIf(U, e, h, w[b], w[b + 1], again2)
    BY ONLY <1>37, <2>4, <2>5, <2>8, <2>9, <2>10 DEF OwesIf
  <2>. QED
    BY ONLY <1>37, <2>11, <2>12 DEF Owes
<1>39. Len(l) = q /\ l[q] = h /\ SameHandlers(k, l, q - 1)
  <2>1. h.kind # "fn" /\ k[Len(k)].kind # "fn" /\ h \in Frames /\ Handlers(k)
    BY <1>1, <1>37
  <2>2. Len(l) = Len(k) /\ l[Len(k)] = h
    BY ONLY <2>1, l = [k EXCEPT ![Len(k)] = h], ReplaceSnapshots
  <2>3. SameHandlers(k, l, Len(k) - 1)
    BY ONLY <2>1, l = [k EXCEPT ![Len(k)] = h], ReplaceSnapshots
  <2>. QED
    BY ONLY <2>2, <2>3, q = Len(k)
<1>40. BodyTyped(U, e, g, l, bs)
  <2>1. k[q].kind # "blk" /\ k[q].kind # "fn" /\ l[q].kind # "blk"
    BY <1>37, <1>39
  <2>2. n <= p /\ Retyped(T, U, c, e, fn, n, p, TopOf(g))
    BY ONLY <1>24, <1>30, <1>34, <1>35, <1>36, n \in Nat DEF Retyped
  <2>3. Below(View(d), View(g), Snapshots(k)[q - 1] - 1)
    <3>1. \A j \in 1..b - 1 : j \in 1..L - 1
      BY ONLY <1>5, <1>7
    <3>. QED
      BY ONLY <1>3, <1>4, <1>20, <1>23, <3>1 DEF Below
  <2>4. Owes(U, e, View(g), bs, l[q], Snapshots(k)[q - 1])
    BY ONLY <1>3, <1>20, <1>38, <1>39
  <2>5. q \in Nat \ {0} /\ q \in Nat /\ q = Len(l)
    BY ONLY <1>5, <1>39
  <2>. QED
    BY ONLY <1>39, <2>1, <2>2, <2>3, <2>4, <2>5, Sane(c, d, k, bs), BodyTyped(T, c, d, k, bs),
            n \in Nat, p \in Nat, n = Len(c), q = Len(k), InnerTyped
<1>. QED
  BY <1>40

(* What the compiler makes of a frame f at the end of its if; the last     *)
(* conjunct is the rule ifFall.                                            *)
EndsIf(c, d, f, t, is, H, g, e) ==
  /\ t = tyIf(d, f.is) /\ is = [t.is EXCEPT !.hadElse = f.kind = "else"]
  /\ H = IF f.kind = "if" THEN f.ends \union {f.i} ELSE f.ends
  /\ g = tyIfEnd(t.db, is) /\ e = endJumps(c, H)
  /\ (f.kind = "if" /\ is.hadFull /\ Ok(t.db)) =>
       tyCheck(TypesOf(TyDb_index(t.db, 1)), TypesOf(TyDb_top(t.db)), TRUE)

LEMMA IfEndTyped ==
  ASSUME KeepsRules, NEW c, NEW d, NEW k, NEW bs, Sane(c, d, k, bs), ~d.unty,
         NEW T, BodyTyped(T, c, d, k, bs), NEW n \in Nat, n = Len(c),
         NEW q, q = Len(k), NEW f, f = k[q], f.kind \in {"if", "else"},
         NEW t, NEW is, NEW H, NEW g, NEW e, EndsIf(c, d, f, t, is, H, g, e), Ok(g),
         NEW l, l = SubSeq(k, 1, Len(k) - 1)
  PROVE  \E U : BodyTyped(U, e, g, l, bs)
<1>0. /\ t = tyIf(d, f.is) /\ is = [t.is EXCEPT !.hadElse = f.kind = "else"]
      /\ H = IF f.kind = "if" THEN f.ends \union {f.i} ELSE f.ends
      /\ g = tyIfEnd(t.db, is) /\ e = endJumps(c, H)
      /\ (f.kind = "if" /\ is.hadFull /\ Ok(t.db)) =>
           tyCheck(TypesOf(TyDb_index(t.db, 1)), TypesOf(TyDb_top(t.db)), TRUE)
  BY DEF EndsIf
<1>. USE <1>0
<1>1. c \in Seq(Instrs) /\ fn \in FnSigs /\ Db(d) /\ Handlers(k)
  BY DEF Sane
<1>2. /\ Typed(T, c, fn) /\ HereIs(T, n, TopOf(d))
  BY DEF BodyTyped
<1>3. PICK b : b = Snapshots(k)[q - 1]
  OBVIOUS
<1>4. PICK v : v = View(d)
  OBVIOUS
<1>5. PICK is1 : is1 = f.is
  OBVIOUS
<1>6. /\ f \in Frames /\ is1 \in IfStates
      /\ b \in Nat \ {0} /\ b >= 2 /\ q \in Nat \ {0} /\ q >= 2
      /\ Len(d.tyIs) = b + IfSnapshots(is1) /\ IfSnapshots(is1) \in 1..2
      /\ OwesIf(T, c, f, v[b], v[b + 1], v[b + SnapshotsOf(f) - 1])
      /\ v[b].done = NOT_DONE
  <2>1. f.kind \in {"if", "elif", "else"} /\ f.kind # "elif"
    OBVIOUS
  <2>2. SnapshotsOf(f) = IfSnapshots(f.is) + IF f.kind = "elif" THEN 1 ELSE 0
    BY ONLY <1>3, <1>4, <2>1, Sane(c, d, k, bs), BodyTyped(T, c, d, k, bs), q = Len(k), f = k[q],
            ChainFacts
  <2>3. /\ f \in Frames /\ f.is \in IfStates
        /\ b \in Nat \ {0} /\ b >= 2 /\ q \in Nat \ {0} /\ q >= 2
        /\ Len(d.tyIs) = b + SnapshotsOf(f) /\ IfSnapshots(f.is) \in 1..2
        /\ OwesIf(T, c, f, v[b], v[b + 1], v[b + SnapshotsOf(f) - 1])
        /\ v[b].done = NOT_DONE
    BY ONLY <1>3, <1>4, <2>1, Sane(c, d, k, bs), BodyTyped(T, c, d, k, bs), q = Len(k), f = k[q],
            ChainFacts
  <2>. QED
    BY ONLY <1>5, <2>1, <2>2, <2>3
<1>7. PICK L : L = Len(d.tyIs)
  OBVIOUS
<1>8. PICK is2 : is2 = t.is
  OBVIOUS
<1>9. PICK w : w = View(t.db)
  OBVIOUS
<1>10. Kept(d, t.db) /\ is2 \in IfStates
  BY ONLY <1>1, <1>5, <1>6, <1>8, t = tyIf(d, f.is), TyIfView
<1>11. Db(t.db) /\ ~t.db.unty
  BY ONLY <1>10, ~d.unty DEF Kept
<1>12. is \in IfStates /\ is.hadFull = is2.hadFull /\ is.done = is2.done
       /\ is.hadElse = (f.kind = "else")
  BY ONLY <1>8, <1>10, is = [t.is EXCEPT !.hadElse = f.kind = "else"] DEF IfStates
<1>13. Ok(t.db)
  <2>1. CASE Ok(t.db)
    BY <2>1
  <2>2. CASE ~Ok(t.db)
    BY <2>2 DEF tyIfEnd
  <2>. QED
    BY <2>1, <2>2
<1>14. Len(t.db.tyIs) = b + IfSnapshots(is2) /\ Branch(v, w, b, L, is1, is2)
  <2>1. t = tyIf(d, is1) /\ Len(d.tyIs) = b + IfSnapshots(is1) /\ View(d)[b].done = NOT_DONE
    BY ONLY <1>4, <1>5, <1>6, t = tyIf(d, f.is)
  <2>. QED
    BY ONLY <1>1, <1>4, <1>6, <1>7, <1>8, <1>9, <1>13, <2>1, KeepsRules, ~d.unty, BranchView
<1>15. PICK m \in Nat \ {0} : m = Len(t.db.tyIs)
  BY ONLY <1>11, TopSnap
<1>16. m = b + (IF is2.hadFull THEN 2 ELSE 1)
  BY ONLY <1>14, <1>15 DEF IfSnapshots
<1>17. \A j \in 1..m : w[j] \in Snap
  BY ONLY <1>9, <1>11, <1>15, ViewFacts
<1>18. Below(v, w, b) /\ w[m] = v[b] /\ (is2.hadFull => w[b + 1] = v[b + 1])
       /\ (~is2.hadFull => is2.done # NOT_DONE)
  BY ONLY <1>14, <1>15 DEF Branch
<1>19. w[b] = v[b] /\ b \in 1..m
  BY ONLY <1>6, <1>16, <1>18 DEF Below
<1>20. PICK outer \in Snap : outer = v[b]
  BY ONLY <1>17, <1>19
<1>21. PICK full : full = v[b + 1]
  OBVIOUS
<1>22. is2.hadFull => full \in Snap
  <2>1. is2.hadFull => b + 1 \in 1..m
    BY ONLY <1>6, <1>16
  <2>. QED
    BY ONLY <1>17, <1>18, <1>21, <2>1
<1>23. PICK had : had = is2.hadFull
  OBVIOUS
<1>24. Left(T, c, f, n, full, had)
  <2>1. PICK again : again = v[b + SnapshotsOf(f) - 1]
    OBVIOUS
  <2>2. OwesIf(T, c, f, v[b], v[b + 1], again)
    BY ONLY <1>6, <2>1
  <2>3. Branch(v, w, b, L, f.is, is2) /\ HereIs(T, n, v[L])
    BY ONLY <1>2, <1>4, <1>5, <1>7, <1>14 DEF TopOf
  <2>4. Left(T, c, f, n, v[b + 1], is2.hadFull)
    BY ONLY <2>2, <2>3, n \in Nat, n = Len(c), BranchLeft
  <2>. QED
    BY ONLY <1>21, <1>23, <2>4
<1>25. /\ \A p \in f.ends : /\ p \in 1..n
                            /\ IF had THEN Leaves(T, c, p, full.tys) ELSE p \notin DOMAIN T
       /\ n + 1 \in DOMAIN T => had /\ tyCheck(full.tys, T[n + 1], TRUE)
       /\ f.kind = "if" => f.i \in 1..n /\ Leaves(T, c, f.i, outer.tys)
  <2>1. f.kind = "if" => f.i \in 1..n /\ Leaves(T, c, f.i, outer.tys)
    BY ONLY <1>6, <1>20, n = Len(c) DEF OwesIf
  <2>. QED
    BY ONLY <1>24, <2>1 DEF Left
<1>26. PICK s : s = TopOf(g)
  OBVIOUS
<1>27. /\ Db(g) /\ Len(g.tyIs) = b /\ Below(w, View(g), b - 1)
       /\ had => s.tys = full.tys /\ s.done = NOT_DONE
       /\ ~had => s.tys = outer.tys
       /\ ~had /\ f.kind = "if" => s.done = NOT_DONE
  <2>1. /\ Kept(t.db, g)
        /\ is.hadFull => Viewed(t.db, g, m - 2, w[m - 1].tys, NOT_DONE)
        /\ (~is.hadFull /\ is.hadElse /\ is.done # NOT_DONE) =>
             Viewed(t.db, g, m - 1, w[m - 1].tys, is.done)
        /\ (~is.hadFull /\ ~(is.hadElse /\ is.done # NOT_DONE)) =>
             Viewed(t.db, g, m - 1, w[m - 1].tys, w[m - 1].done)
    <3>1. Len(t.db.tyIs) >= 2 /\ (is.hadFull => Len(t.db.tyIs) >= 4)
      BY ONLY <1>6, <1>12, <1>15, <1>16
    <3>. QED
      BY ONLY <1>9, <1>11, <1>12, <1>15, <3>1, g = tyIfEnd(t.db, is), Ok(g), TyIfEndView
  <2>2. Db(g)
    BY ONLY <2>1 DEF Kept
  <2>3. CASE had
    <3>1. m - 2 = b /\ m - 1 = b + 1
      BY ONLY <1>6, <1>16, <1>23, <2>3
    <3>2. Viewed(t.db, g, b, full.tys, NOT_DONE)
      BY ONLY <1>12, <1>18, <1>21, <1>23, <2>1, <2>3, <3>1
    <3>. QED
      BY ONLY <1>9, <1>26, <2>2, <2>3, <3>2 DEF Viewed, TopOf
  <2>4. CASE ~had
    <3>1. m - 1 = b
      BY ONLY <1>6, <1>16, <1>23, <2>4
    <3>2. /\ f.kind = "else" => Viewed(t.db, g, b, outer.tys, is.done)
          /\ f.kind = "if" => Viewed(t.db, g, b, outer.tys, NOT_DONE)
      BY ONLY <1>6, <1>12, <1>18, <1>19, <1>20, <1>23, <2>1, <2>4, <3>1
    <3>. QED
      BY ONLY <1>9, <1>26, <2>2, <2>4, <3>2, f.kind \in {"if", "else"} DEF Viewed, TopOf
  <2>. QED
    BY ONLY <2>3, <2>4
<1>28. s \in Snap
  BY ONLY <1>26, <1>27, TopSnap
<1>29. \A h \in H : /\ h \in 1..n
                    /\ h \in DOMAIN T => s.done = NOT_DONE
                    /\ Leaves(T, c, h, s.tys)
  <2>1. ASSUME NEW h \in f.ends
        PROVE  /\ h \in 1..n
               /\ h \in DOMAIN T => s.done = NOT_DONE
               /\ Leaves(T, c, h, s.tys)
    <3>1. h \in 1..n /\ IF had THEN Leaves(T, c, h, full.tys) ELSE h \notin DOMAIN T
      BY ONLY <1>25, h \in f.ends
    <3>. QED
      BY ONLY <1>27, <3>1 DEF Leaves
  <2>2. ASSUME f.kind = "if"
        PROVE  /\ f.i \in 1..n
               /\ f.i \in DOMAIN T => s.done = NOT_DONE
               /\ Leaves(T, c, f.i, s.tys)
    <3>1. PICK i : i = f.i
      OBVIOUS
    <3>2. i \in 1..n /\ Leaves(T, c, i, outer.tys)
      BY ONLY <1>25, <2>2, <3>1
    <3>3. CASE ~had
      BY ONLY <1>27, <2>2, <3>1, <3>2, <3>3
    <3>4. CASE had
      <4>1. tyCheck(full.tys, outer.tys, TRUE)
        <5>1. /\ TypesOf(TyDb_index(t.db, 1)) = w[m - 1].tys
              /\ TypesOf(TyDb_top(t.db)) = w[m].tys
          <6>1. 1 \in 0..m - 1 /\ m - 1 \in Nat
            BY ONLY <1>6, <1>16
          <6>. QED
            BY ONLY <1>9, <1>11, <1>15, <6>1, ViewFacts
        <5>2. m - 1 = b + 1
          BY ONLY <1>6, <1>16, <1>23, <3>4
        <5>3. tyCheck(TypesOf(TyDb_index(t.db, 1)), TypesOf(TyDb_top(t.db)), TRUE)
          BY ONLY <1>12, <1>13, <1>23, <2>2, <3>4,
                  (f.kind = "if" /\ is.hadFull /\ Ok(t.db)) =>
                    tyCheck(TypesOf(TyDb_index(t.db, 1)), TypesOf(TyDb_top(t.db)), TRUE)
        <5>. QED
          BY ONLY <1>18, <1>20, <1>21, <1>23, <3>4, <5>1, <5>2, <5>3
      <4>2. ASSUME i \in DOMAIN T
            PROVE  tyCheck(full.tys, After(c[i], T[i]), TRUE)
        <5>1. PICK r : r = full.tys
          OBVIOUS
        <5>2. PICK o : o = outer.tys
          OBVIOUS
        <5>3. PICK ins : ins = c[i]
          OBVIOUS
        <5>4. PICK tys : tys = T[i]
          OBVIOUS
        <5>5. r \in Seq(Types) /\ o \in Seq(Types) /\ ins \in Instrs
          BY ONLY <1>1, <1>20, <1>22, <1>23, <3>2, <3>4, <5>1, <5>2, <5>3, n = Len(c), n \in Nat
             DEF Snap
        <5>6. tys \in Seq(Types) /\ tyCheck(ins.inp, tys, FALSE)
          BY ONLY <1>2, <3>2, <4>2, <5>3, <5>4, n = Len(c) DEF Typed, TypedAt
        <5>7. After(ins, tys) \in Seq(Types)
          BY ONLY <5>5, <5>6, AfterFacts
        <5>8. PICK a : a = After(ins, tys)
          OBVIOUS
        <5>9. tyCheck(r, o, TRUE) /\ tyCheck(o, a, TRUE)
          BY ONLY <3>2, <4>1, <4>2, <5>1, <5>2, <5>3, <5>4, <5>8 DEF Leaves
        <5>10. tyCheck(r, a, TRUE)
          BY ONLY <5>5, <5>7, <5>8, <5>9, KeepsRules, TRUE \in BOOLEAN, CheckThrough
        <5>. QED
          BY ONLY <5>1, <5>3, <5>4, <5>8, <5>10
      <4>. QED
        BY ONLY <1>27, <3>1, <3>2, <3>4, <4>2 DEF Leaves
    <3>. QED
      BY <3>3, <3>4
  <2>. QED
    BY ONLY <2>1, <2>2, H = IF f.kind = "if" THEN f.ends \union {f.i} ELSE f.ends
<1>30. n + 1 \in DOMAIN T => s.done = NOT_DONE /\ tyCheck(s.tys, T[n + 1], TRUE)
  BY ONLY <1>25, <1>27
<1>31. PICK sig : sig = fn
  OBVIOUS
<1>32. PICK U : Retyped(T, U, c, e, sig, n, n, s)
  <2>1. sig \in FnSigs /\ Typed(T, c, sig)
    BY ONLY <1>1, <1>2, <1>31
  <2>. QED
    BY ONLY <1>1, <1>28, <1>29, <1>30, <2>1, KeepsRules, n \in Nat, n = Len(c),
            e = endJumps(c, H), EndCode
<1>33. Len(l) = q - 1 /\ SameHandlers(k, l, q - 1)
  <2>1. k[Len(k)].kind # "fn"
    OBVIOUS
  <2>. QED
    BY ONLY <1>1, <2>1, q = Len(k), l = SubSeq(k, 1, Len(k) - 1), PopSnapshots
<1>34. BodyTyped(U, e, g, l, bs)
  <2>1. k[q].kind # "blk" /\ k[q].kind # "fn"
    OBVIOUS
  <2>2. n <= n /\ Retyped(T, U, c, e, fn, n, n, TopOf(g))
    BY ONLY <1>26, <1>31, <1>32, n \in Nat
  <2>3. Below(View(d), View(g), Snapshots(k)[q - 1] - 1)
    <3>1. \A j \in 1..b - 1 : j \in 1..b
      BY ONLY <1>6
    <3>. QED
      BY ONLY <1>3, <1>4, <1>18, <1>27, <3>1 DEF Below
  <2>4. PICK r \in Nat : r = q - 1
    BY ONLY <1>6
  <2>5. q \in Nat \ {0} /\ r = Len(l)
    BY ONLY <1>6, <1>33, <2>4
  <2>. QED
    BY ONLY <1>33, <2>1, <2>2, <2>3, <2>4, <2>5, Sane(c, d, k, bs), BodyTyped(T, c, d, k, bs),
            n \in Nat, n = Len(c), q = Len(k), InnerTyped
<1>. QED
  BY <1>34

(* From the types x of a live flow, ins takes and leaves what is right: how *)
(* and tys are what the database has behind it.                            *)
Follows(T, ins, out, x, how, tys) ==
  LET a == After(ins, x.tys) IN
  x.done = NOT_DONE =>
    /\ tyCheck(ins.inp, x.tys, FALSE)
    /\ ins.op = "RET" => tyCheck(out, x.tys, TRUE)
    /\ ins.op \notin {"RET", "JL"} => how = NOT_DONE /\ tys = a
    /\ (ins.op \in Jumps /\ ins.to > 0) => Flows(T, a, ins.to)

(* An instruction is emitted, and no break is remembered.                  *)
LEMMA EmitSame ==
  ASSUME KeepsRules, NEW c, NEW d, NEW k, NEW bs, Sane(c, d, k, bs),
         NEW T, BodyTyped(T, c, d, k, bs), NEW n \in Nat, n = Len(c),
         NEW g, Db(g), NEW tys, NEW how, Viewed(d, g, Len(d.tyIs), tys, how),
         NEW x, x = TopOf(d), x.done # NOT_DONE => how # NOT_DONE, NEW ins \in Instrs,
         Follows(T, ins, fn.out, x, how, tys), NEW e, e = Append(c, ins)
  PROVE  \E U : BodyTyped(U, e, g, k, bs)
<1>1. PICK s \in Snap : s = TopOf(g)
  BY TopSnap
<1>2. x \in Snap
  BY TopSnap DEF Sane
<1>3. /\ Len(g.tyIs) = Len(d.tyIs) /\ Below(View(d), View(g), Len(d.tyIs) - 1)
      /\ s.tys = tys /\ s.done = how
  BY ONLY <1>1, Viewed(d, g, Len(d.tyIs), tys, how) DEF Viewed, TopOf
<1>4. HereIs(T, n, x)
  BY DEF BodyTyped
<1>5. PICK out : out = fn.out
  OBVIOUS
<1>6. x.done = NOT_DONE =>
        LET a == After(ins, x.tys) IN
        /\ tyCheck(ins.inp, x.tys, FALSE)
        /\ ins.op = "RET" => tyCheck(out, x.tys, TRUE)
        /\ ins.op \notin {"RET", "JL"} => s.done = NOT_DONE /\ s.tys = a
        /\ (ins.op \in Jumps /\ ins.to > 0) => Flows(T, a, ins.to)
  BY <1>3, <1>5 DEF Follows
<1>7. Fits(T, ins, out, n, s)
  BY ONLY <1>2, <1>4, <1>6, KeepsRules, n \in Nat, s \in Snap, ins \in Instrs, FitsHere
<1>8. PICK U : U = Then(T, n + 1, s)
  OBVIOUS
<1>9. SameStart(bs, bs) /\ SameBreaks(U, e, k, bs, bs, Len(k))
  BY DEF SameStart, SameBreaks
<1>10. /\ TopOf(d).done # NOT_DONE => TopOf(g).done # NOT_DONE
       /\ Fits(T, ins, fn.out, n, TopOf(g)) /\ U = Then(T, n + 1, TopOf(g))
  BY <1>1, <1>3, <1>5, <1>7, <1>8
<1>11. BodyTyped(U, e, g, k, bs)
  BY ONLY <1>3, <1>9, <1>10, KeepsRules, Sane(c, d, k, bs), BodyTyped(T, c, d, k, bs), n \in Nat,
          n = Len(c), Db(g), ins \in Instrs, e = Append(c, ins), EmitTyped
<1>. QED
  BY <1>11

LEMMA CallTyped ==
  ASSUME KeepsRules, NEW c, NEW d, NEW k, NEW bs, Sane(c, d, k, bs), ~d.unty,
         NEW T, BodyTyped(T, c, d, k, bs), NEW n \in Nat, n = Len(c), NEW sig \in Sigs,
         NEW g, g = tyCall(d, sig.inp, sig.out), Ok(g), NEW e, e = Append(c, CallI(sig))
  PROVE  \E U : BodyTyped(U, e, g, k, bs)
<1>1. Db(d)
  BY DEF Sane
<1>2. PICK inp : inp = sig.inp
  OBVIOUS
<1>3. PICK out : out = sig.out
  OBVIOUS
<1>4. PICK ins \in Instrs : ins = CallI(sig)
  BY ONLY sig \in Sigs, CallFacts
<1>5. /\ ins.op = "XL" /\ ins.inp = inp /\ ins.out = out /\ inp \in Seq(Types) /\ out \in Seq(Types)
  BY ONLY <1>2, <1>3, <1>4, sig \in Sigs, CallFacts
<1>6. PICK x \in Snap : x = TopOf(d)
  BY ONLY <1>1, TopSnap
<1>7. g = tyCall(d, inp, out)
  BY <1>2, <1>3
<1>8. /\ Kept(d, g)
      /\ tyCheck(inp, x.tys, FALSE)
      /\ Viewed(d, g, Len(d.tyIs), SubSeq(x.tys, 1, Len(x.tys) - Len(inp)) \o out, x.done)
  BY ONLY <1>1, <1>5, <1>6, <1>7, ~d.unty, Ok(g), CallView DEF TopOf
<1>9. Db(g)
  BY ONLY <1>8 DEF Kept
<1>10. PICK a : a = After(ins, x.tys)
  OBVIOUS
<1>11. Viewed(d, g, Len(d.tyIs), a, x.done)
  BY ONLY <1>5, <1>8, <1>10 DEF After
<1>12. PICK how : how = x.done
  OBVIOUS
<1>13. Follows(T, ins, fn.out, x, how, a)
  <2>1. ins.op # "RET" /\ ins.op \notin Jumps
    BY ONLY <1>5 DEF Jumps
  <2>. QED
    BY ONLY <1>5, <1>8, <1>10, <1>12, <2>1 DEF Follows
<1>14. Viewed(d, g, Len(d.tyIs), a, how) /\ (x.done # NOT_DONE => how # NOT_DONE)
       /\ e = Append(c, ins)
  BY <1>4, <1>11, <1>12
<1>. QED
  BY ONLY <1>6, <1>9, <1>13, <1>14, KeepsRules, Sane(c, d, k, bs), BodyTyped(T, c, d, k, bs),
          n \in Nat, n = Len(c), ins \in Instrs, EmitSame

LEMMA RetTyped ==
  ASSUME KeepsRules, NEW c, NEW d, NEW k, NEW bs, Sane(c, d, k, bs), ~d.unty,
         NEW T, BodyTyped(T, c, d, k, bs), NEW n \in Nat, n = Len(c),
         NEW g, g = tyRet(d, fn.out, RET_DONE), Ok(g), NEW e, e = Append(c, RetI)
  PROVE  /\ TopOf(d).done = NOT_DONE /\ TopOf(g).done = RET_DONE
         /\ Db(g) /\ Len(g.tyIs) = Len(d.tyIs)
         /\ \E U : BodyTyped(U, e, g, k, bs)
<1>1. Db(d)
  BY DEF Sane
<1>2. PICK out : out = fn.out
  OBVIOUS
<1>3. PICK ins \in Instrs : ins = RetI
  BY RetFacts
<1>4. ins.op = "RET" /\ ins.inp = << >>
  BY ONLY <1>3, RetFacts
<1>5. PICK x \in Snap : x = TopOf(d)
  BY ONLY <1>1, TopSnap
<1>6. PICK how \in HowDone : how = RET_DONE
  BY DEF HowDone
<1>7. /\ Kept(d, g)
      /\ x.done = NOT_DONE /\ tyCheck(out, x.tys, TRUE)
      /\ Viewed(d, g, Len(d.tyIs), x.tys, how)
  <2>1. g = tyRet(d, out, how)
    BY <1>2, <1>6
  <2>. QED
    BY ONLY <1>1, <1>5, <2>1, ~d.unty, Ok(g), how \in HowDone, RetView DEF TopOf
<1>8. Db(g)
  BY ONLY <1>7 DEF Kept
<1>9. Len(g.tyIs) = Len(d.tyIs) /\ TopOf(g).done = RET_DONE
  BY ONLY <1>6, <1>7 DEF Viewed, TopOf
<1>10. how # NOT_DONE
  BY ONLY <1>6 DEF RET_DONE, NOT_DONE
<1>11. PICK tys : tys = x.tys
  OBVIOUS
<1>12. Follows(T, ins, fn.out, x, how, tys)
  <2>1. x.tys \in Seq(Types)
    BY DEF Snap
  <2>2. tyCheck(ins.inp, x.tys, FALSE)
    BY ONLY <1>4, <2>1, KeepsRules, CheckSame
  <2>3. ins.op \notin Jumps /\ ins.op \in {"RET", "JL"}
    BY ONLY <1>4 DEF Jumps
  <2>. QED
    BY ONLY <1>2, <1>7, <2>2, <2>3 DEF Follows
<1>13. Viewed(d, g, Len(d.tyIs), tys, how) /\ e = Append(c, ins)
  BY <1>3, <1>7, <1>11
<1>14. \E U : BodyTyped(U, e, g, k, bs)
  BY ONLY <1>5, <1>8, <1>10, <1>12, <1>13, KeepsRules, Sane(c, d, k, bs),
          BodyTyped(T, c, d, k, bs), n \in Nat, n = Len(c), ins \in Instrs, EmitSame
<1>. QED
  BY ONLY <1>5, <1>7, <1>8, <1>9, <1>14

(* `cont', `cont-if' and `while' jump to where the flow came from.         *)
LEMMA ContTyped ==
  ASSUME KeepsRules, HandlersInv, phase = "body", Bound, Sane(code, db, ctl, blks), ~db.unty,
         NEW T, BodyTyped(T, code, db, ctl, blks), NEW op \in {"JL", "JLNZ"},
         NEW g, g = tyCont(db, op), Ok(g),
         NEW e, e = Append(code, Jump(op, HeadBlk.start))
  PROVE  /\ Db(g) /\ Len(g.tyIs) = Len(db.tyIs) /\ (op = "JLNZ" => TopOf(g).done = NOT_DONE)
         /\ \E U : BodyTyped(U, e, g, ctl, blks)
<1>1. Db(db) /\ code \in Seq(Instrs)
  BY DEF Sane
<1>2. PICK n \in Nat : n = Len(code)
  BY <1>1
<1>3. PICK to \in Nat : to = HeadBlk.start
  BY ONLY HandlersInv, phase = "body", Bound, HeadFacts
<1>4. PICK ins \in Instrs : ins = Jump(op, to)
  BY ONLY op \in {"JL", "JLNZ"}, to \in Nat, JumpFacts DEF Jumps
<1>5. ins.op = op /\ ins.to = to
  BY ONLY <1>4, op \in {"JL", "JLNZ"}, to \in Nat, JumpFacts DEF Jumps
<1>6. PICK x \in Snap : x = TopOf(db)
  BY ONLY <1>1, TopSnap
<1>7. PICK a : a = After(ins, x.tys)
  OBVIOUS
<1>8. PICK how : how = IF op = "JL" THEN BLK_DONE ELSE NOT_DONE
  OBVIOUS
<1>9. /\ Kept(db, g) /\ x.done = NOT_DONE
      /\ tyCheck(ins.inp, x.tys, FALSE)
      /\ tyCheck(HeadBlk.startTyI, a, TRUE)
      /\ Viewed(db, g, Len(db.tyIs), a, how)
  BY ONLY <1>1, <1>4, <1>6, <1>7, <1>8, op \in {"JL", "JLNZ"}, g = tyCont(db, op), Ok(g), ~db.unty,
          TyContView DEF TopOf
<1>10. Db(g)
  BY ONLY <1>9 DEF Kept
<1>11. Len(g.tyIs) = Len(db.tyIs) /\ (op = "JLNZ" => TopOf(g).done = NOT_DONE)
  BY ONLY <1>8, <1>9 DEF Viewed, TopOf
<1>12. Flows(T, a, to)
  <2>1. "blkBound" \in Rules
    BY DEF KeepsRules, RuleNames
  <2>2. PICK i \in 1..Len(ctl) : ctl[i].kind = "blk" /\ ctl[i].blk = Len(blks)
    BY ONLY <2>1, HandlersInv, phase = "body", Bound, HeadOpen
  <2>3. PICK h : h = blks[Len(blks)]
    OBVIOUS
  <2>4. HeadBlk = h
    BY <2>3 DEF HeadBlk
  <2>5. HeadOf(T, n, ctl, blks, x)
    BY <1>2, <1>6 DEF BodyTyped
  <2>6. h.start \in DOMAIN T /\ T[h.start] = h.startTyI
    BY ONLY <1>9, <2>2, <2>3, <2>5 DEF HeadOf
  <2>. QED
    BY ONLY <1>3, <1>9, <2>4, <2>6 DEF Flows
<1>13. Follows(T, ins, fn.out, x, how, a)
  <2>1. ins.op # "RET" /\ (ins.op \notin {"RET", "JL"} => how = NOT_DONE)
    BY ONLY <1>5, <1>8, op \in {"JL", "JLNZ"}
  <2>. QED
    BY ONLY <1>5, <1>7, <1>9, <1>12, <2>1 DEF Follows
<1>14. e = Append(code, ins) /\ (x.done # NOT_DONE => how # NOT_DONE)
  BY <1>3, <1>4, <1>9
<1>15. \E U : BodyTyped(U, e, g, ctl, blks)
  BY ONLY <1>2, <1>6, <1>9, <1>10, <1>13, <1>14, KeepsRules, Sane(code, db, ctl, blks), n \in Nat,
          BodyTyped(T, code, db, ctl, blks), ins \in Instrs, EmitSame
<1>. QED
  BY ONLY <1>10, <1>11, <1>15

(* Nothing that the flow starts from changes when a break is remembered.   *)
LEMMA BreakStart ==
  ASSUME HandlersInv, phase = "body", Len(blks) \in 1..Len(blks), NEW d, Db(d),
         NEW t, t = tyBreak(d)
  PROVE  SameStart(blks, t.blks)
<1>1. PICK r \in Nat : r = Len(blks)
  BY DEF HandlersInv
<1>2. SameBlks(blks, t.blks) /\ Len(t.blks) = r
  BY <1>1, BreakSame
<1>3. \/ t.blks = blks
      \/ \E x : t.blks = [blks EXCEPT ![Len(blks)].endTyI = x]
  <2>1. \/ t.blks = blks
        \/ t.blks = [blks EXCEPT ![Len(blks)].endTyI =
                       IF HeadBlk.endTyI = << >> THEN View(d)[Len(d.tyIs)].tys
                       ELSE HeadBlk.endTyI]
    BY ONLY Db(d), t = tyBreak(d), TyBreakView
  <2>. QED
    BY ONLY <2>1
<1>4. t.blks[r].start = blks[r].start
  BY ONLY <1>1, <1>2, Len(blks) \in 1..Len(blks) DEF SameBlks
<1>5. t.blks[r].startTyI = blks[r].startTyI
  <2>1. r \in DOMAIN blks /\ blks[r] \in Blks
    BY <1>1 DEF HandlersInv
  <2>2. CASE t.blks = blks
    BY ONLY <2>2
  <2>3. CASE \E x : t.blks = [blks EXCEPT ![Len(blks)].endTyI = x]
    <3>1. PICK x : t.blks = [blks EXCEPT ![r].endTyI = x]
      BY ONLY <1>1, <2>3
    <3>2. t.blks[r] = [blks[r] EXCEPT !.endTyI = x]
      BY ONLY <2>1, <3>1
    <3>. QED
      BY ONLY <2>1, <3>2 DEF Blks
  <2>. QED
    BY ONLY <1>3, <2>2, <2>3
<1>. QED
  BY ONLY <1>1, <1>2, <1>4, <1>5 DEF SameStart

LEMMA BreakTypes ==
  ASSUME KeepsRules, HandlersInv, phase = "body", Bound, Sane(code, db, ctl, blks), ~db.unty,
         NEW T, BodyTyped(T, code, db, ctl, blks), NEW t, t = tyBreak(db), Ok(t.db),
         NEW br, br = [at |-> Len(code) + 1, tys |-> TypesOf(TyDb_top(db))],
         NEW b, b = WithBreak(t.blks, Len(blks), br), NEW e, e = Append(code, Jump("JL", 0))
  PROVE  \E U : BodyTyped(U, e, t.db, ctl, b)
<1>1. Db(db) /\ code \in Seq(Instrs) /\ BlkFrames(ctl, blks)
  BY DEF Sane
<1>2. PICK n \in Nat : n = Len(code)
  BY <1>1
<1>3. PICK x \in Snap : x = TopOf(db)
  BY ONLY <1>1, TopSnap
<1>4. PICK g : g = t.db
  OBVIOUS
<1>5. Kept(db, g) /\ x.done = NOT_DONE /\ Viewed(db, g, Len(db.tyIs), x.tys, BLK_DONE)
  BY ONLY <1>1, <1>3, <1>4, t = tyBreak(db), Ok(t.db), ~db.unty, TyBreakView DEF TopOf
<1>6. Db(g)
  BY ONLY <1>5 DEF Kept
<1>7. PICK s \in Snap : s = TopOf(g)
  BY ONLY <1>6, TopSnap
<1>8. /\ Len(g.tyIs) = Len(db.tyIs) /\ Below(View(db), View(g), Len(db.tyIs) - 1)
      /\ s.done # NOT_DONE
  BY ONLY <1>5, <1>7 DEF Viewed, TopOf, BLK_DONE, NOT_DONE
<1>9. PICK ins \in Instrs : ins = Jump("JL", 0)
  BY OpenJumpFacts
<1>10. ins.op = "JL" /\ ins.to = 0 /\ ins.inp = << >> /\ ins.out = << >>
  BY ONLY <1>9, OpenJumpFacts
<1>11. HereIs(T, n, x) /\ \A j \in DOMAIN T : T[j] \in Seq(Types)
  BY <1>2, <1>3 DEF BodyTyped, Typed
<1>12. PICK out : out = fn.out
  OBVIOUS
<1>13. Fits(T, ins, out, n, s)
  <2>1. tyCheck(ins.inp, x.tys, FALSE)
    BY ONLY <1>10, KeepsRules, x \in Snap, CheckSame DEF Snap
  <2>2. x.done = NOT_DONE =>
          LET a == After(ins, x.tys) IN
          /\ tyCheck(ins.inp, x.tys, FALSE)
          /\ ins.op = "RET" => tyCheck(out, x.tys, TRUE)
          /\ ins.op \notin {"RET", "JL"} => s.done = NOT_DONE /\ s.tys = a
          /\ (ins.op \in Jumps /\ ins.to > 0) => Flows(T, a, ins.to)
    <3>1. ~(ins.to > 0) /\ ins.op # "RET" /\ ins.op \in {"RET", "JL"}
      BY ONLY <1>10
    <3>. QED
      BY ONLY <2>1, <3>1
  <2>. QED
    BY ONLY <1>11, <2>2, KeepsRules, n \in Nat, x \in Snap, s \in Snap, ins \in Instrs, FitsHere
<1>14. PICK m \in Nat : m = n + 1
  OBVIOUS
<1>15. PICK U : U = Then(T, m, s)
  OBVIOUS
<1>16. SameUpTo(T, U, m)
  BY ONLY <1>11, <1>15, m \in Nat, s \in Snap, ThenFacts
<1>17. e = Append(code, ins)
  BY <1>9
<1>18. Len(e) = m /\ e[m] = ins
  BY ONLY <1>1, <1>2, <1>14, <1>17, ins \in Instrs
<1>19. br.at = m /\ br.tys = x.tys /\ br \in Breaks
  <2>1. TypesOf(TyDb_top(db)) = x.tys
    BY ONLY <1>1, <1>3, ViewFacts DEF TopOf
  <2>. QED
    BY <1>2, <1>14, <2>1 DEF Breaks, Snap
<1>20. OwesBreak(U, e, br)
  <2>1. m \in DOMAIN U => U[m] = x.tys
    BY ONLY <1>11, <1>14, <1>16, n \in Nat DEF SameUpTo, HereIs
  <2>2. After(ins, x.tys) = x.tys
    BY ONLY <1>10, x \in Snap, AfterNothing DEF Snap
  <2>3. m \in 1..Len(e)
    BY ONLY <1>14, <1>18, n \in Nat
  <2>. QED
    BY ONLY <1>18, <1>19, <2>1, <2>2, <2>3 DEF OwesBreak
<1>21. /\ Len(blks) \in 1..Len(blks)
       /\ SameBlks(t.blks, blks) /\ Len(t.blks) = Len(blks)
       /\ t.blks \in Seq(Blks) /\ SameStart(blks, t.blks)
  <2>1. Len(blks) \in 1..Len(blks)
    BY HeadFacts
  <2>2. SameBlks(t.blks, blks) /\ Len(t.blks) = Len(blks)
    BY ONLY <1>1, HandlersInv, phase = "body", t = tyBreak(db), BreakSame
  <2>3. t.blks \in Seq(Blks)
    BY ONLY <1>1, HandlersInv, phase = "body", t = tyBreak(db), BreakTyped
  <2>4. SameStart(blks, t.blks)
    BY ONLY <1>1, <2>1, HandlersInv, phase = "body", t = tyBreak(db), BreakStart
  <2>. QED
    BY ONLY <2>1, <2>2, <2>3, <2>4
<1>22. PICK r : r = Len(blks)
  OBVIOUS
<1>23. PICK cs : cs = t.blks
  OBVIOUS
<1>24. /\ SameBlks(cs, b) /\ Len(b) = r /\ b[r].breaks = cs[r].breaks \union {br}
       /\ b[r].startTyI = cs[r].startTyI
       /\ \A j \in 1..r : j # r => b[j] = cs[j]
  <2>1. cs \in Seq(Blks) /\ r \in 1..Len(cs) /\ Len(cs) = r /\ b = WithBreak(cs, r, br)
    BY <1>21, <1>22, <1>23
  <2>. QED
    BY ONLY <1>19, <2>1, BreakBlks
<1>25. SameStart(blks, b)
  BY ONLY <1>21, <1>22, <1>23, <1>24 DEF SameStart, SameBlks
<1>26. SameBreaks(U, e, ctl, blks, b, Len(ctl))
  <2>1. \A j \in 1..r : \A y \in b[j].breaks : y = br \/ y \in blks[j].breaks
    BY ONLY <1>21, <1>22, <1>23, <1>24 DEF SameBlks
  <2>2. \A i \in 1..Len(ctl) : ctl[i].kind = "blk" => ctl[i].blk \in 1..r
    BY ONLY <1>1, <1>22 DEF BlkFrames
  <2>. QED
    BY ONLY <1>20, <2>1, <2>2 DEF SameBreaks
<1>27. /\ TopOf(db).done # NOT_DONE => TopOf(g).done # NOT_DONE
       /\ Fits(T, ins, fn.out, n, TopOf(g)) /\ U = Then(T, n + 1, TopOf(g))
  BY ONLY <1>3, <1>5, <1>7, <1>12, <1>13, <1>14, <1>15
<1>28. BodyTyped(U, e, g, ctl, b)
  BY ONLY <1>2, <1>6, <1>8, <1>17, <1>25, <1>26, <1>27, KeepsRules, Sane(code, db, ctl, blks),
          BodyTyped(T, code, db, ctl, blks), n \in Nat, ins \in Instrs, EmitTyped
<1>. QED
  BY <1>4, <1>28

(* The end of a blk: every break that it remembers goes here, and so does  *)
(* the end of its body when the flow reaches that.                         *)
(* The last conjunct is the rule blkEnd.                                   *)
EndsBlk(c, d, f, t, brs, g, H, e) ==
  /\ t = IF TyDb_done(d) = NOT_DONE THEN tyBreak(d) ELSE [db |-> d, blks |-> blks]
  /\ brs = t.blks[f.blk].breaks
  /\ g = IF blkClears(brs, t.db) THEN TyDb_clearDone(t.db) ELSE t.db
  /\ H = {br.at : br \in brs} /\ e = endJumps(c, H)
  /\ \A br \in brs : tyCheck(TypesOf(TyDb_top(g)), br.tys, TRUE)

LEMMA BlkEndTyped ==
  ASSUME KeepsRules, HandlersInv, phase = "body", NEW c, NEW d, Sane(c, d, ctl, blks), ~d.unty,
         NEW T, BodyTyped(T, c, d, ctl, blks),
         NEW q, q = Len(ctl), NEW f, f = ctl[q], f.kind = "blk",
         NEW t, NEW brs, NEW g, NEW H, NEW e, EndsBlk(c, d, f, t, brs, g, H, e), Ok(g),
         NEW l, l = SubSeq(ctl, 1, Len(ctl) - 1)
  PROVE  \E U : BodyTyped(U, e, g, l, t.blks)
<1>0. /\ t = IF TyDb_done(d) = NOT_DONE THEN tyBreak(d) ELSE [db |-> d, blks |-> blks]
      /\ brs = t.blks[f.blk].breaks
      /\ g = IF blkClears(brs, t.db) THEN TyDb_clearDone(t.db) ELSE t.db
      /\ H = {br.at : br \in brs} /\ e = endJumps(c, H)
      /\ \A br \in brs : tyCheck(TypesOf(TyDb_top(g)), br.tys, TRUE)
  BY DEF EndsBlk
<1>. USE <1>0
<1>1. /\ Db(d) /\ c \in Seq(Instrs) /\ Handlers(ctl) /\ Len(d.tyIs) = Total(ctl)
      /\ BlkFrames(ctl, blks) /\ BlkOrder(ctl) /\ fn \in FnSigs
  BY DEF Sane
<1>2. PICK n \in Nat : n = Len(c)
  BY ONLY <1>1
<1>3. PICK x \in Snap : x = TopOf(d)
  BY ONLY <1>1, TopSnap
<1>4. TyDb_done(d) = x.done
  BY ONLY <1>1, <1>3, ViewFacts DEF TopOf
<1>5. PICK r : r = t.db
  OBVIOUS
<1>7. Kept(d, r) /\ (Ok(r) => \E how : /\ Viewed(d, r, Len(d.tyIs), x.tys, how)
                                       /\ x.done = NOT_DONE => how = BLK_DONE)
  <2>1. CASE x.done = NOT_DONE
    <3>1. t = tyBreak(d)
      BY <1>4, <2>1
    <3>. QED
      BY ONLY <1>1, <1>3, <1>5, <3>1, ~d.unty, TyBreakView DEF TopOf
  <2>2. CASE x.done # NOT_DONE
    <3>1. r = d
      BY <1>4, <1>5, <2>2
    <3>2. Viewed(d, d, Len(d.tyIs), x.tys, x.done)
      BY <1>3 DEF Viewed, Below, TopOf
    <3>. QED
      BY ONLY <1>1, <2>2, <3>1, <3>2, KeptSame
  <2>. QED
    BY <2>1, <2>2
<1>8. Db(r) /\ Ok(r) /\ Kept(r, g)
  <2>1. Db(r)
    BY ONLY <1>7 DEF Kept
  <2>2. g = TyDb_clearDone(r) \/ g = r
    BY <1>5
  <2>3. Kept(r, g)
    BY ONLY <2>1, <2>2, KeptSame, ClearDoneView
  <2>. QED
    BY ONLY <2>1, <2>3, Ok(g) DEF Kept
<1>9. PICK how : /\ Viewed(d, r, Len(d.tyIs), x.tys, how)
                 /\ x.done = NOT_DONE => how = BLK_DONE
  BY ONLY <1>7, <1>8
<1>10. Len(d.tyIs) \in Nat \ {0} /\ Len(r.tyIs) = Len(d.tyIs)
       /\ View(r)[Len(d.tyIs)].tys = x.tys /\ TyDb_done(r) = how
  <2>1. Len(d.tyIs) \in Nat \ {0}
    BY ONLY <1>1, TopSnap
  <2>2. TyDb_done(r) = View(r)[Len(r.tyIs)].done
    BY ONLY <1>8, ViewFacts
  <2>. QED
    BY ONLY <1>9, <2>1, <2>2 DEF Viewed
<1>11. PICK ends : /\ Viewed(d, g, Len(d.tyIs), x.tys, ends)
                   /\ (x.done = NOT_DONE \/ brs # {}) => ends = NOT_DONE
  <2>1. CASE blkClears(brs, r)
    <3>1. g = TyDb_clearDone(r)
      BY <1>5, <2>1
    <3>2. Viewed(r, g, Len(d.tyIs), x.tys, NOT_DONE)
      <4>1. Viewed(r, g, Len(r.tyIs), View(r)[Len(r.tyIs)].tys, NOT_DONE)
        BY ONLY <1>8, <3>1, Ok(g), ClearDoneView
      <4>. QED
        BY ONLY <1>10, <4>1
    <3>3. Viewed(d, g, Len(d.tyIs), x.tys, NOT_DONE)
      BY ONLY <1>9, <1>10, <3>2 DEF Viewed, Below
    <3>. QED
      BY ONLY <3>3
  <2>2. CASE ~blkClears(brs, r)
    <3>1. g = r
      BY <1>5, <2>2
    <3>2. brs = {} /\ ~(how < RET_DONE)
      BY ONLY <1>10, <2>2 DEF blkClears
    <3>3. x.done # NOT_DONE
      BY ONLY <1>9, <3>2 DEF BLK_DONE, RET_DONE
    <3>. QED
      BY ONLY <1>9, <3>1, <3>2, <3>3
  <2>. QED
    BY ONLY <2>1, <2>2
<1>12. Db(g)
  BY ONLY <1>8 DEF Kept
<1>13. PICK s \in Snap : s = TopOf(g)
  BY ONLY <1>12, TopSnap
<1>14. /\ Below(View(d), View(g), Len(d.tyIs) - 1) /\ s.tys = x.tys
       /\ (x.done = NOT_DONE \/ brs # {}) => s.done = NOT_DONE
  BY ONLY <1>11, <1>13 DEF Viewed, TopOf
<1>15. PICK cs : cs = t.blks
  OBVIOUS
<1>16. f.blk \in 1..Len(blks) /\ Len(blks) \in Nat /\ q \in Nat \ {0} /\ q = Len(ctl)
  <2>1. ctl \in Seq(Frames) /\ Len(ctl) \in Nat \ {0} /\ blks \in Seq(Blks)
    <3>1. blks \in Seq(Blks)
      BY ONLY HandlersInv DEF HandlersInv
    <3>2. ctl \in Seq(Frames) /\ Len(ctl) \in Nat \ {0}
      <4>1. ctl \in Seq(Frames)
        BY ONLY <1>1 DEF Handlers
      <4>2. Handlers(ctl)
        BY ONLY <1>1
      <4>3. Len(ctl) \in Nat \ {0}
        BY ONLY <4>2, HandlersFacts
      <4>. QED
        BY ONLY <4>1, <4>3
    <3>. QED
      BY ONLY <3>1, <3>2
  <2>2. q \in 1..Len(ctl) /\ ctl[q].kind = "blk" /\ Len(blks) \in Nat
    BY ONLY <2>1, q = Len(ctl), f = ctl[q], f.kind = "blk", LenProperties
  <2>. QED
    BY ONLY <1>1, <2>1, <2>2, q = Len(ctl), f = ctl[q] DEF BlkFrames
<1>17. SameBlks(cs, blks) /\ SameBlks(blks, cs) /\ Len(cs) = Len(blks)
  <2>1. CASE TyDb_done(d) = NOT_DONE
    <3>1. t = tyBreak(d)
      BY <2>1
    <3>. QED
      BY ONLY <1>1, <1>15, <3>1, HandlersInv, phase = "body", BreakSame
  <2>2. CASE TyDb_done(d) # NOT_DONE
    <3>1. cs = blks
      BY <1>15, <2>2
    <3>. QED
      BY ONLY <3>1 DEF SameBlks
  <2>. QED
    BY ONLY <2>1, <2>2
<1>18. brs \subseteq blks[f.blk].breaks
  BY ONLY <1>15, <1>16, <1>17, brs = t.blks[f.blk].breaks DEF SameBlks
<1>19. PICK b : b = Snapshots(ctl)[q - 1]
  OBVIOUS
<1>20. AllOwed(T, c, View(d), ctl, blks, q)
  BY <1>16 DEF BodyTyped
<1>21. \A br \in brs : OwesBreak(T, c, br)
  <2>1. Owes(T, c, View(d), blks, ctl[q], Snapshots(ctl)[q - 1])
    BY ONLY <1>16, <1>20 DEF AllOwed
  <2>. QED
    BY ONLY <1>18, <2>1, f = ctl[q], f.kind = "blk" DEF Owes
<1>22. HereIs(T, n, x) /\ Typed(T, c, fn)
  BY <1>2, <1>3 DEF BodyTyped
<1>23. n + 1 \in DOMAIN T => s.done = NOT_DONE /\ tyCheck(s.tys, T[n + 1], TRUE)
  <2>1. tyCheck(s.tys, s.tys, TRUE)
    BY ONLY KeepsRules, s \in Snap, CheckSame DEF Snap
  <2>. QED
    BY ONLY <1>14, <1>22, <2>1 DEF HereIs
<1>24. \A h \in H : /\ h \in 1..n
                    /\ h \in DOMAIN T => s.done = NOT_DONE
                    /\ Leaves(T, c, h, s.tys)
  <2>1. TypesOf(TyDb_top(g)) = s.tys
    BY ONLY <1>12, <1>13, ViewFacts DEF TopOf
  <2>2. \A br \in brs : tyCheck(s.tys, br.tys, TRUE)
    BY <2>1
  <2>3. ASSUME NEW h \in H
        PROVE  /\ h \in 1..n
               /\ h \in DOMAIN T => s.done = NOT_DONE
               /\ Leaves(T, c, h, s.tys)
    <3>1. PICK br \in brs : h = br.at
      BY ONLY h \in H, H = {br.at : br \in brs}
    <3>2. OwesBreak(T, c, br) /\ tyCheck(s.tys, br.tys, TRUE)
      BY ONLY <1>21, <2>2, br \in brs
    <3>3. s.done = NOT_DONE
      BY ONLY <1>14, br \in brs
    <3>. QED
      BY ONLY <1>2, <3>1, <3>2, <3>3 DEF OwesBreak, Leaves
  <2>. QED
    BY ONLY <2>3
<1>25. PICK U : Retyped(T, U, c, e, fn, n, n, s)
  BY ONLY <1>1, <1>2, <1>22, <1>23, <1>24, KeepsRules, n \in Nat, s \in Snap,
          e = endJumps(c, H), EndCode
<1>26. Typed(U, e, fn) /\ Len(e) = n /\ HereIs(U, n, s)
       /\ SameUpTo(T, U, n) /\ SameTypes(c, e, n)
  BY ONLY <1>25 DEF Retyped
<1>27. PICK m \in Nat : m = q - 1
  BY ONLY <1>16
<1>28. Len(l) = m /\ SameHandlers(ctl, l, m) /\ m \in 0..Len(ctl)
  <2>1. ctl[Len(ctl)].kind # "fn"
    BY <1>16
  <2>2. Len(l) = Len(ctl) - 1 /\ SameHandlers(ctl, l, Len(ctl) - 1)
    BY ONLY <1>1, <2>1, l = SubSeq(ctl, 1, Len(ctl) - 1), PopSnapshots
  <2>. QED
    BY ONLY <1>16, <1>27, <2>2
<1>29. Below(View(d), View(g), Snapshots(ctl)[m] - 1)
  <2>1. /\ q \in 1..Len(ctl) /\ Snapshots(ctl)[q] = Snapshots(ctl)[q - 1] + SnapshotsOf(ctl[q])
        /\ Snapshots(ctl)[q - 1] \in Nat
    BY ONLY <1>1, <1>16, HandlersFacts
  <2>2. SnapshotsOf(ctl[q]) = 0
    BY DEF SnapshotsOf
  <2>3. Snapshots(ctl)[m] = Len(d.tyIs)
    BY ONLY <1>1, <1>16, <1>27, <2>1, <2>2 DEF Total
  <2>. QED
    BY ONLY <1>14, <2>3
<1>30. SameBreaks(U, e, ctl, blks, cs, m)
  <2>1. \A j \in 1..Len(blks) : cs[j].breaks \subseteq blks[j].breaks
    BY ONLY <1>17 DEF SameBlks
  <2>2. \A i \in 1..m : i \in 1..Len(ctl)
    BY ONLY <1>28
  <2>. QED
    BY ONLY <1>1, <2>1, <2>2 DEF SameBreaks, BlkFrames
<1>31. AllOwed(T, c, View(d), ctl, blks, m)
  BY ONLY <1>16, <1>20, <1>27 DEF AllOwed
<1>32. AllOwed(U, e, View(g), l, cs, m)
  <2>1. n <= n
    BY ONLY n \in Nat
  <2>. QED
    BY ONLY <1>1, <1>2, <1>26, <1>28, <1>29, <1>30, <1>31, <2>1, n \in Nat, AllKept
<1>33. HeadOf(U, n, l, cs, s)
  <2>1. \A i \in 1..q - 1 : l[i] = ctl[i]
    BY ONLY <1>27, <1>28 DEF SameHandlers
  <2>2. Len(l) = q - 1 /\ ctl[q].kind = "blk"
    BY <1>27, <1>28
  <2>. QED
    BY ONLY <1>1, <1>16, <1>17, <2>1, <2>2, HeadNone
<1>34. BodyTyped(U, e, g, l, cs)
  BY ONLY <1>13, <1>26, <1>28, <1>32, <1>33 DEF BodyTyped
<1>. QED
  BY <1>15, <1>34

(* A blk starts: it has no break yet.                                      *)
LEMMA BlkTyped ==
  ASSUME NEW c, NEW d, NEW k, NEW bs, Sane(c, d, k, bs), NEW T, BodyTyped(T, c, d, k, bs),
         NEW f, f = [Frame("blk") EXCEPT !.blk = Len(bs) + 1], NEW l, l = Append(k, f),
         NEW cs, cs = Append(bs, Blk(Len(c) + 1, TypesOf(TyDb_top(d))))
  PROVE  BodyTyped(T, c, d, l, cs)
<1>1. /\ Db(d) /\ c \in Seq(Instrs) /\ Handlers(k) /\ BlkFrames(k, bs) /\ bs \in Seq(Blks)
  BY DEF Sane
<1>2. PICK n \in Nat : n = Len(c)
  BY <1>1
<1>3. PICK q \in Nat : q = Len(k)
  BY ONLY <1>1, HandlersFacts
<1>4. PICK x \in Snap : x = TopOf(d)
  BY ONLY <1>1, TopSnap
<1>5. PICK r \in Nat : r = Len(bs)
  BY <1>1
<1>6. PICK y : y = Blk(n + 1, x.tys)
  OBVIOUS
<1>7. cs = Append(bs, y) /\ y.breaks = {}
  <2>1. TypesOf(TyDb_top(d)) = x.tys
    BY ONLY <1>1, <1>4, ViewFacts DEF TopOf
  <2>. QED
    BY <1>2, <1>6, <2>1 DEF Blk
<1>8. Len(cs) = r + 1 /\ cs[r + 1] = y /\ \A i \in 1..r : cs[i] = bs[i]
  BY ONLY <1>1, <1>5, <1>7, r \in Nat, AppendAny
<1>9. PICK z \in Nat : z = r + 1
  OBVIOUS
<1>10. f \in Frames /\ f.kind = "blk" /\ f.blk = z
  <2>1. f = [Frame("blk") EXCEPT !.blk = z]
    BY <1>5, <1>9
  <2>. QED
    BY ONLY <2>1, z \in Nat, BlkFrame
<1>11. /\ Len(l) = q + 1 /\ l[q + 1] = f /\ SameHandlers(k, l, q)
  <2>1. f.kind # "fn"
    BY ONLY <1>10
  <2>. QED
    BY ONLY <1>1, <1>3, <1>10, <2>1, l = Append(k, f), AppendSnapshots
<1>12. Typed(T, c, fn) /\ HereIs(T, n, x) /\ AllOwed(T, c, View(d), k, bs, q)
  BY <1>2, <1>3, <1>4 DEF BodyTyped
<1>13. PICK v : v = View(d)
  OBVIOUS
<1>14. AllOwed(T, c, v, l, cs, q)
  <2>1. SameUpTo(T, T, n) /\ SameTypes(c, c, n) /\ Below(v, v, Snapshots(k)[q] - 1) /\ n <= n
    BY DEF SameUpTo, SameTypes, Below
  <2>2. SameBreaks(T, c, k, bs, cs, q)
    <3>1. \A i \in 1..q : k[i].kind = "blk" => k[i].blk \in 1..r
      BY ONLY <1>1, <1>3, <1>5 DEF BlkFrames
    <3>2. \A j \in 1..r : cs[j].breaks = bs[j].breaks
      BY ONLY <1>8
    <3>. QED
      BY ONLY <3>1, <3>2 DEF SameBreaks
  <2>3. q \in 0..Len(k) /\ AllOwed(T, c, v, k, bs, q)
    BY ONLY <1>3, <1>12, <1>13, q \in Nat
  <2>. QED
    BY ONLY <1>1, <1>2, <1>11, <2>1, <2>2, <2>3, n \in Nat, AllKept
<1>15. Owes(T, c, v, cs, f, Snapshots(l)[q])
  <2>1. cs[f.blk].breaks = {}
    BY ONLY <1>7, <1>8, <1>9, <1>10
  <2>. QED
    BY ONLY <1>10, <2>1 DEF Owes
<1>16. AllOwed(T, c, v, l, cs, Len(l))
  <2>1. Snapshots(l)[(q + 1) - 1] = Snapshots(l)[q]
    BY ONLY q \in Nat
  <2>2. \A i \in 1..q + 1 : i \in 1..q \/ i = q + 1
    BY ONLY q \in Nat
  <2>. QED
    BY ONLY <1>11, <1>14, <1>15, <2>1, <2>2 DEF AllOwed
<1>17. HeadOf(T, n, l, cs, x)
  <2>1. \A i \in 1..q : l[i] = k[i]
    BY ONLY <1>11 DEF SameHandlers
  <2>2. cs = Append(bs, Blk(n + 1, x.tys))
    BY ONLY <1>6, <1>7
  <2>. QED
    BY ONLY <1>1, <1>3, <1>11, <1>12, <2>1, <2>2, n \in Nat, q \in Nat, HeadNew
<1>18. BodyTyped(T, c, d, l, cs)
  BY ONLY <1>2, <1>4, <1>12, <1>13, <1>16, <1>17 DEF BodyTyped
<1>. QED
  BY <1>18

(* Handlers that owe in the order in which they have started still do.     *)
LEMMA OrderKept ==
  ASSUME NEW k, BlkOrder(k), NEW l, NEW p \in Nat, p = Len(l), NEW q \in Nat, q = Len(k),
         NEW bs, BlkFrames(k, bs), NEW r \in Nat, r = Len(bs),
         \A i \in 1..p : l[i].kind = "blk" =>
           \/ i <= q /\ l[i] = k[i]
           \/ i = q + 1 /\ l[i].blk = r + 1
  PROVE  BlkOrder(l)
<1> SUFFICES ASSUME NEW i \in 1..p, NEW j \in 1..p, l[i].kind = "blk", l[j].kind = "blk", i < j
             PROVE  l[i].blk < l[j].blk
  BY DEF BlkOrder
<1>1. i <= q /\ l[i] = k[i]
  OBVIOUS
<1>2. i \in 1..q /\ k[i].kind = "blk" /\ k[i].blk \in 1..r
  BY <1>1 DEF BlkFrames
<1>3. CASE j <= q /\ l[j] = k[j]
  BY <1>1, <1>2, <1>3 DEF BlkOrder
<1>4. CASE j = q + 1 /\ l[j].blk = r + 1
  BY <1>1, <1>2, <1>4
<1>. QED
  BY <1>3, <1>4

-----------------------------------------------------------------------------
(* The first instructions store the named inputs, the last of them first.  *)

LEMMA LastPart ==
  ASSUME NEW stk \in Seq(Types), NEW loc \in Seq(Types), NEW m \in 1..Len(loc),
         NEW p, p = stk \o SubSeq(loc, 1, m), NEW r, r = stk \o SubSeq(loc, 1, m - 1),
         NEW l \in Nat, l = Len(stk)
  PROVE  /\ p \in Seq(Types) /\ Len(p) = l + m /\ p[l + m] = loc[m]
         /\ r \in Seq(Types) /\ SubSeq(p, 1, (l + m) - 1) = r
<1>1. PICK n \in Nat : n = m - 1
  OBVIOUS
<1>2. PICK a : a = SubSeq(loc, 1, m)
  OBVIOUS
<1>3. PICK b : b = SubSeq(loc, 1, n)
  OBVIOUS
<1>4. /\ a \in Seq(Types) /\ Len(a) = m /\ \A j \in 1..m : a[j] = loc[j]
  <2>1. m \in 0..Len(loc)
    OBVIOUS
  <2>. QED
    BY ONLY <1>2, <2>1, loc \in Seq(Types), PrefixFacts
<1>5. /\ b \in Seq(Types) /\ Len(b) = n /\ \A j \in 1..n : b[j] = loc[j]
  <2>1. n \in 0..Len(loc)
    BY <1>1
  <2>. QED
    BY ONLY <1>3, <2>1, loc \in Seq(Types), PrefixFacts
<1>6. p = stk \o a /\ r = stk \o b /\ m \in Nat /\ m = n + 1
  BY <1>1, <1>2, <1>3
<1>7. /\ p \in Seq(Types) /\ Len(p) = l + m
      /\ \A j \in 1..l + m : p[j] = IF j <= l THEN stk[j] ELSE a[j - l]
  <2>1. stk \o a \in Seq(Types) /\ Len(stk \o a) = l + m
        /\ \A j \in 1..l + m : (stk \o a)[j] = IF j <= l THEN stk[j] ELSE a[j - l]
    <3>1. a \in Seq(Types) /\ m = Len(a) /\ m \in Nat
      BY ONLY <1>4, <1>6
    <3>. QED
      BY ONLY <3>1, stk \in Seq(Types), l \in Nat, l = Len(stk), ConcatFacts
  <2>. QED
    BY ONLY <1>6, <2>1
<1>8. /\ r \in Seq(Types) /\ Len(r) = l + n
      /\ \A j \in 1..l + n : r[j] = IF j <= l THEN stk[j] ELSE b[j - l]
  <2>1. stk \o b \in Seq(Types) /\ Len(stk \o b) = l + n
        /\ \A j \in 1..l + n : (stk \o b)[j] = IF j <= l THEN stk[j] ELSE b[j - l]
    <3>1. b \in Seq(Types) /\ n = Len(b) /\ n \in Nat
      BY ONLY <1>5, n \in Nat
    <3>. QED
      BY ONLY <3>1, stk \in Seq(Types), l \in Nat, l = Len(stk), ConcatFacts
  <2>. QED
    BY ONLY <1>6, <2>1
<1>9. p[l + m] = loc[m]
  <2>1. l + m \in 1..l + m /\ ~(l + m <= l) /\ (l + m) - l = m /\ m \in 1..m
    BY ONLY <1>6, n \in Nat, l \in Nat
  <2>. QED
    BY ONLY <1>4, <1>7, <2>1
<1>10. \A j \in 1..l + n : p[j] = r[j]
  <2>1. ASSUME NEW j \in 1..l + n PROVE p[j] = r[j]
    <3>1. j \in 1..l + m
      BY ONLY <1>6, n \in Nat, l \in Nat
    <3>2. ~(j <= l) => j - l \in 1..n /\ j - l \in 1..m
      BY ONLY <1>6, n \in Nat, l \in Nat
    <3>. QED
      BY ONLY <1>4, <1>5, <1>7, <1>8, <3>1, <3>2
  <2>. QED
    BY <2>1
<1>11. SubSeq(p, 1, l + n) = r
  <2>1. l + n \in 0..Len(p) /\ l + n \in Nat
    BY ONLY <1>6, <1>7, n \in Nat, l \in Nat
  <2>2. PICK z : z = l + n
    OBVIOUS
  <2>3. /\ SubSeq(p, 1, z) \in Seq(Types) /\ Len(SubSeq(p, 1, z)) = z
        /\ \A j \in 1..z : SubSeq(p, 1, z)[j] = p[j]
    BY ONLY <1>7, <2>1, <2>2, PrefixFacts
  <2>. QED
    BY ONLY <1>8, <1>10, <2>2, <2>3, SeqEqual
<1>12. (l + m) - 1 = l + n
  BY ONLY <1>6, n \in Nat, l \in Nat
<1>. QED
  BY ONLY <1>7, <1>8, <1>9, <1>11, <1>12

(* The types before and behind one of them.                                *)
LEMMA LocalTyped ==
  ASSUME KeepsRules, NEW p \in Seq(Types), NEW z \in Nat \ {0}, z = Len(p),
         NEW ty \in Types, p[z] = ty, NEW r \in Seq(Types), SubSeq(p, 1, z - 1) = r,
         NEW ins, ins = SrLocal(ty), NEW T, NEW j, T[j] = p, Flows(T, r, j + 1), NEW out
  PROVE  TypedAt(T, ins, out, j)
<1>1. ins.op = "SRLL" /\ ins.inp = <<ty>> /\ ins.out = << >>
  BY ONLY ty \in Types, ins = SrLocal(ty), SrLocalFacts
<1>2. Len(ins.inp) = 1 /\ ins.inp[1] = ty
  BY ONLY <1>1
<1>3. tyCheck(ins.inp, p, FALSE)
  <2>1. (z - 1) + 1 = z /\ z >= 1
    OBVIOUS
  <2>2. <<ty, ty>> \in Accepts
    BY DEF KeepsRules, Reflexive
  <2>3. \A k \in 1..1 : k = 1
    OBVIOUS
  <2>. QED
    BY ONLY <1>2, <2>1, <2>2, <2>3, z = Len(p), p[z] = ty DEF tyCheck
<1>4. After(ins, p) = r
  <2>1. r \o << >> = r
    BY ONLY r \in Seq(Types), ConcatEmptySeq
  <2>. QED
    BY ONLY <1>1, <1>2, <2>1, z = Len(p), SubSeq(p, 1, z - 1) = r DEF After
<1>5. ins.op # "RET" /\ ins.op \notin Jumps
  BY ONLY <1>1 DEF Jumps
<1>. QED
  BY ONLY <1>3, <1>4, <1>5, T[j] = p, Flows(T, r, j + 1) DEF TypedAt

LEMMA EntryTyped ==
  ASSUME KeepsRules, NEW sig \in FnSigs, NEW n \in Nat, n = Len(sig.loc),
         NEW c, c = [j \in 1..n |-> SrLocal(Reverse(sig.loc)[j])],
         NEW T, T = [j \in 1..n + 1 |-> sig.stk \o SubSeq(sig.loc, 1, n + 1 - j)]
  PROVE  /\ Typed(T, c, sig) /\ Len(c) = n
         /\ n + 1 \in DOMAIN T /\ T[n + 1] = sig.stk
<1>1. PICK stk \in Seq(Types) : stk = sig.stk
  BY FnSigsAssumption
<1>2. PICK loc \in Seq(Types) : loc = sig.loc
  BY FnSigsAssumption
<1>3. PICK l \in Nat : l = Len(stk)
  OBVIOUS
<1>4. Len(loc) = n
  BY <1>2
<1>5. DOMAIN T = 1..n + 1 /\ \A j \in 1..n + 1 : T[j] = stk \o SubSeq(loc, 1, n + 1 - j)
  BY <1>1, <1>2
<1>6. Len(c) = n /\ \A j \in 1..n : c[j] = SrLocal(Reverse(loc)[j])
  BY <1>2
<1>7. T[n + 1] = stk
  <2>1. n + 1 \in 1..n + 1 /\ n + 1 - (n + 1) = 0
    OBVIOUS
  <2>2. PICK e : e = SubSeq(loc, 1, 0)
    OBVIOUS
  <2>3. 0 \in 0..Len(loc)
    BY <1>4
  <2>4. e \in Seq(Types) /\ Len(e) = 0
    BY ONLY <2>2, <2>3, loc \in Seq(Types), PrefixFacts
  <2>5. e = << >>
    BY ONLY <2>4, EmptySeq
  <2>6. stk \o << >> = stk
    BY ONLY stk \in Seq(Types), ConcatEmptySeq
  <2>. QED
    BY ONLY <1>5, <2>1, <2>2, <2>5, <2>6
<1>8. T[1] = stk \o loc
  <2>1. 1 \in 1..n + 1 /\ n + 1 - 1 = n
    OBVIOUS
  <2>2. n \in 0..Len(loc)
    BY <1>4
  <2>3. /\ SubSeq(loc, 1, n) \in Seq(Types) /\ Len(SubSeq(loc, 1, n)) = n
        /\ \A j \in 1..n : SubSeq(loc, 1, n)[j] = loc[j]
    BY ONLY <2>2, loc \in Seq(Types), PrefixFacts
  <2>4. SubSeq(loc, 1, n) = loc
    BY ONLY <1>4, <2>3, loc \in Seq(Types), SeqEqual
  <2>. QED
    BY ONLY <1>5, <2>1, <2>4
<1>9. ASSUME NEW j \in 1..n
      PROVE  T[j] \in Seq(Types) /\ T[j + 1] \in Seq(Types) /\ TypedAt(T, c[j], sig.out, j)
  <2>0. n + 1 - j \in 1..Len(loc)
    BY ONLY <1>4, j \in 1..n, n \in Nat
  <2>1. PICK m \in 1..Len(loc) : m = n + 1 - j
    BY ONLY <2>0
  <2>2. j \in 1..n + 1 /\ j + 1 \in 1..n + 1 /\ n + 1 - (j + 1) = m - 1
    BY ONLY <2>1, j \in 1..n, n \in Nat
  <2>3. PICK p : p = T[j]
    OBVIOUS
  <2>4. PICK r : r = T[j + 1]
    OBVIOUS
  <2>5. p = stk \o SubSeq(loc, 1, m) /\ r = stk \o SubSeq(loc, 1, m - 1)
    BY ONLY <1>5, <2>1, <2>2, <2>3, <2>4
  <2>6. /\ p \in Seq(Types) /\ Len(p) = l + m /\ p[l + m] = loc[m]
        /\ r \in Seq(Types) /\ SubSeq(p, 1, (l + m) - 1) = r
    BY ONLY <1>3, <2>5, stk \in Seq(Types), loc \in Seq(Types), m \in 1..Len(loc), l \in Nat,
            LastPart, SMTT(30)
  <2>7. PICK ty : ty = loc[m]
    OBVIOUS
  <2>8. ty \in Types
    BY ONLY <2>7, loc \in Seq(Types), m \in 1..Len(loc), ElementOfSeq
  <2>9. c[j] = SrLocal(ty)
    <3>1. j \in 1..Len(loc) /\ (n - j) + 1 = m
      BY ONLY <1>4, <2>1, j \in 1..n, n \in Nat
    <3>2. Reverse(loc)[j] = loc[Len(loc) - j + 1]
      BY ONLY <3>1, loc \in Seq(Types), ReverseFacts
    <3>. QED
      BY ONLY <1>4, <1>6, <2>7, <3>1, <3>2, j \in 1..n
  <2>10. PICK z \in Nat \ {0} : z = l + m
    BY ONLY <1>4, m \in 1..Len(loc), n \in Nat, l \in Nat
  <2>11. Flows(T, r, j + 1)
    <3>1. tyCheck(r, r, TRUE)
      BY ONLY <2>6, KeepsRules, CheckSame
    <3>. QED
      BY ONLY <1>5, <2>2, <2>4, <3>1 DEF Flows
  <2>12. z = Len(p) /\ p[z] = ty /\ SubSeq(p, 1, z - 1) = r /\ T[j] = p
    BY ONLY <2>3, <2>6, <2>7, <2>10
  <2>13. TypedAt(T, c[j], sig.out, j)
    BY ONLY <2>6, <2>8, <2>9, <2>11, <2>12, KeepsRules, z \in Nat \ {0}, LocalTyped
  <2>. QED
    BY ONLY <2>3, <2>4, <2>6, <2>13
<1>10. \A j \in 1..n + 1 : T[j] \in Seq(Types)
  <2>1. \A j \in 1..n + 1 : j \in 1..n \/ j = n + 1
    OBVIOUS
  <2>. QED
    BY ONLY <1>7, <1>9, <2>1, stk \in Seq(Types)
<1>11. Flows(T, sig.stk \o sig.loc, 1)
  <2>1. 1 \in 1..n + 1
    OBVIOUS
  <2>2. PICK a : a = T[1]
    OBVIOUS
  <2>3. tyCheck(a, a, TRUE)
    BY ONLY <1>10, <2>1, <2>2, KeepsRules, CheckSame
  <2>. QED
    BY ONLY <1>1, <1>2, <1>5, <1>8, <2>1, <2>2, <2>3 DEF Flows
<1>12. Typed(T, c, sig)
  BY ONLY <1>5, <1>6, <1>9, <1>10, <1>11 DEF Typed
<1>. QED
  BY ONLY <1>1, <1>5, <1>6, <1>7, <1>12, n + 1 \in 1..n + 1, n \in Nat

-----------------------------------------------------------------------------
(* Every step keeps the code well typed.                                   *)

LEMMA OrderAppend ==
  ASSUME NEW c, NEW d, NEW k, NEW bs, Sane(c, d, k, bs), NEW f \in Frames, f.kind # "fn",
         f.kind = "blk" => f.blk = Len(bs) + 1, NEW l, l = Append(k, f)
  PROVE  BlkOrder(l)
<1>1. Handlers(k) /\ BlkFrames(k, bs) /\ BlkOrder(k) /\ bs \in Seq(Blks)
  BY DEF Sane
<1>2. PICK q \in Nat : q = Len(k)
  BY ONLY <1>1, HandlersFacts
<1>3. PICK r \in Nat : r = Len(bs)
  BY ONLY <1>1
<1>4. Len(l) = q + 1 /\ l[q + 1] = f /\ \A i \in 1..q : l[i] = k[i]
  BY ONLY <1>1, <1>2, f \in Frames, f.kind # "fn", l = Append(k, f), AppendSnapshots
     DEF SameHandlers
<1>5. PICK p \in Nat : p = Len(l)
  BY ONLY <1>2, <1>4
<1>6. \A i \in 1..p : l[i].kind = "blk" =>
        \/ i <= q /\ l[i] = k[i]
        \/ i = q + 1 /\ l[i].blk = r + 1
  BY ONLY <1>3, <1>4, <1>5, q \in Nat, f.kind = "blk" => f.blk = Len(bs) + 1
<1>7. BlkFrames(k, bs) /\ BlkOrder(k)
  BY ONLY <1>1
<1>. QED
  BY ONLY <1>2, <1>3, <1>5, <1>6, <1>7, p \in Nat, q \in Nat, r \in Nat, OrderKept, SMTT(30)

LEMMA OrderReplace ==
  ASSUME NEW c, NEW d, NEW k, NEW bs, Sane(c, d, k, bs), k[Len(k)].kind # "fn",
         NEW f \in Frames, f.kind # "fn", f.kind # "blk", NEW l, l = [k EXCEPT ![Len(k)] = f]
  PROVE  BlkOrder(l)
<1>1. Handlers(k) /\ BlkFrames(k, bs) /\ BlkOrder(k) /\ bs \in Seq(Blks)
  BY DEF Sane
<1>2. PICK q \in Nat : q = Len(k)
  BY ONLY <1>1, HandlersFacts
<1>3. PICK r \in Nat : r = Len(bs)
  BY ONLY <1>1
<1>4. Len(l) = q /\ l[q] = f /\ \A i \in 1..q - 1 : l[i] = k[i]
  BY ONLY <1>1, <1>2, f \in Frames, f.kind # "fn", k[Len(k)].kind # "fn",
          l = [k EXCEPT ![Len(k)] = f], ReplaceSnapshots
     DEF SameHandlers
<1>5. \A i \in 1..q : l[i].kind = "blk" =>
        \/ i <= q /\ l[i] = k[i]
        \/ i = q + 1 /\ l[i].blk = r + 1
  BY ONLY <1>4, q \in Nat, f.kind # "blk"
<1>. QED
  BY ONLY <1>1, <1>2, <1>3, <1>4, <1>5, OrderKept

LEMMA OrderPop ==
  ASSUME NEW c, NEW d, NEW k, NEW bs, Sane(c, d, k, bs), k[Len(k)].kind # "fn",
         NEW l, l = SubSeq(k, 1, Len(k) - 1)
  PROVE  BlkOrder(l)
<1>1. Handlers(k) /\ BlkFrames(k, bs) /\ BlkOrder(k) /\ bs \in Seq(Blks)
  BY DEF Sane
<1>2. PICK q \in Nat \ {0} : q = Len(k)
  BY ONLY <1>1, HandlersFacts
<1>3. PICK r \in Nat : r = Len(bs)
  BY ONLY <1>1
<1>4. PICK p \in Nat : p = q - 1
  BY ONLY <1>2
<1>5. Len(l) = p /\ \A i \in 1..p : l[i] = k[i]
  BY ONLY <1>1, <1>2, <1>4, k[Len(k)].kind # "fn", l = SubSeq(k, 1, Len(k) - 1), PopSnapshots
     DEF SameHandlers
<1>6. \A i \in 1..p : l[i].kind = "blk" =>
        \/ i <= q /\ l[i] = k[i]
        \/ i = q + 1 /\ l[i].blk = r + 1
  BY ONLY <1>2, <1>4, <1>5
<1>. QED
  BY ONLY <1>1, <1>2, <1>3, <1>5, <1>6, OrderKept

BodyTypes(c, d, k, bs) == BlkOrder(k) /\ \E T : BodyTyped(T, c, d, k, bs)

(* The flow does not reach the end of c, and w is on the stack at p.       *)
RunTypes(c, f, w, p) ==
  \E T : /\ Typed(T, c, f) /\ Len(c) + 1 \notin DOMAIN T
         /\ w \in Seq(Types) /\ Flows(T, w, p)

TypesInv ==
  /\ JumpsInv
  /\ phase \in {"start", "body"} => pc = 1
  /\ phase = "body" => BodyTypes(code, db, ctl, blks)
  /\ phase = "run" => RunTypes(code, fn, ws, pc)
  /\ phase = "returned" => tyCheck(fn.out, ws, TRUE)

LEMMA StepTypes ==
  ASSUME TypesInv, phase = "body", JumpsInv', NEW d, NEW c, NEW k, NEW b,
         Step(d, c, k, b), Ok(d) => BodyTypes(c, d, k, b)
  PROVE  TypesInv'
<1>1. CASE Ok(d)
  <2>1. /\ ctl' = k /\ phase' = phase /\ code' = c /\ blks' = b /\ db' = d
        /\ fn' = fn /\ pc' = pc
    BY <1>1 DEF Step
  <2>2. pc' = 1
    BY <2>1 DEF TypesInv
  <2>3. PICK T : BodyTyped(T, c, d, k, b)
    BY <1>1 DEF BodyTypes
  <2>4. BlkOrder(k)
    BY <1>1 DEF BodyTypes
  <2>5. BodyTyped(T, code, db, ctl, blks)'
    BY ONLY <2>1, <2>3 DEF BodyTyped
  <2>6. BodyTypes(code, db, ctl, blks)'
    BY ONLY <2>1, <2>4, <2>5 DEF BodyTypes
  <2>. QED
    BY ONLY <2>1, <2>2, <2>6, phase = "body", JumpsInv' DEF TypesInv
<1>2. CASE ~Ok(d)
  <2>1. phase' = "panic"
    BY <1>2 DEF Step, Panic
  <2>. QED
    BY ONLY <2>1, JumpsInv' DEF TypesInv
<1>. QED
  BY <1>1, <1>2

(* What the cases of a step start from.                                    *)
LEMMA TypesFacts ==
  ASSUME KeepsRules, TypesInv, phase = "body"
  PROVE  /\ HandlersInv /\ Sane(code, db, ctl, blks) /\ ~db.unty /\ Db(db)
         /\ code \in Seq(Instrs) /\ Handlers(ctl) /\ Top = ctl[Len(ctl)] /\ Top \in Frames
         /\ blks \in Seq(Blks) /\ BlkOrder(ctl) /\ \E T : BodyTyped(T, code, db, ctl, blks)
<1>1. HandlersInv /\ BodyJumps(code, ctl, blks) /\ BodyTypes(code, db, ctl, blks)
  BY DEF TypesInv, JumpsInv
<1>2. /\ Db(db) /\ db.unty = Unty /\ code \in Seq(Instrs) /\ blks \in Seq(Blks)
      /\ Handlers(ctl) /\ Counted(db, ctl) /\ fn \in FnSigs
      /\ Top \in Frames /\ Top = ctl[Len(ctl)]
  BY ONLY <1>1, phase = "body", BodyFacts
<1>3. ~Unty
  BY DEF KeepsRules
<1>4. Len(db.tyIs) = Total(ctl)
  BY ONLY <1>2, <1>3 DEF Counted
<1>5. /\ BlkFrames(ctl, blks) /\ BlkStarts(blks, Len(code)) /\ BlkOrder(ctl)
      /\ \E T : BodyTyped(T, code, db, ctl, blks)
  BY ONLY <1>1 DEF BodyJumps, BodyTypes
<1>6. Sane(code, db, ctl, blks)
  BY ONLY <1>2, <1>4, <1>5 DEF Sane
<1>. QED
  BY ONLY <1>1, <1>2, <1>3, <1>5, <1>6

(* What the typing says of the instruction that is next.                   *)
LEMMA RunFacts ==
  ASSUME TypesInv, phase = "run"
  PROVE  /\ code \in Seq(Instrs) /\ Targets(code, {})
         /\ \E T : /\ Typed(T, code, fn) /\ Len(code) + 1 \notin DOMAIN T
                   /\ ws \in Seq(Types) /\ Flows(T, ws, pc) /\ T[pc] \in Seq(Types)
                   /\ pc \in 1..Len(code) /\ TypedAt(T, code[pc], fn.out, pc)
<1>1. code \in Seq(Instrs) /\ Targets(code, {})
  BY DEF TypesInv, JumpsInv, HandlersInv
<1>2. PICK T : /\ Typed(T, code, fn) /\ Len(code) + 1 \notin DOMAIN T
               /\ ws \in Seq(Types) /\ Flows(T, ws, pc)
  BY DEF TypesInv, RunTypes
<1>3. pc \in DOMAIN T
  BY ONLY <1>2 DEF Flows
<1>4. PICK n \in Nat : n = Len(code)
  BY ONLY <1>1
<1>5. pc \in 1..n /\ T[pc] \in Seq(Types)
  <2>1. pc \in 1..n + 1 /\ n + 1 \notin DOMAIN T /\ T[pc] \in Seq(Types)
    BY ONLY <1>2, <1>3, <1>4 DEF Typed
  <2>2. pc # n + 1
    BY ONLY <1>3, <2>1
  <2>. QED
    BY ONLY <2>1, <2>2, n \in Nat
<1>6. TypedAt(T, code[pc], fn.out, pc)
  BY ONLY <1>2, <1>3, <1>4, <1>5 DEF Typed
<1>. QED
  BY ONLY <1>1, <1>2, <1>4, <1>5, <1>6

LEMMA StepRuns ==
  ASSUME KeepsRules, TypesInv, RunStep
  PROVE  RunTypes(code', fn', ws', pc')
<1>1. phase = "run" /\ code' = code /\ fn' = fn
  BY DEF RunStep, Running
<1>2. code \in Seq(Instrs) /\ Targets(code, {})
  BY ONLY <1>1, TypesInv, RunFacts
<1>3. PICK T : /\ Typed(T, code, fn) /\ Len(code) + 1 \notin DOMAIN T
               /\ ws \in Seq(Types) /\ Flows(T, ws, pc) /\ T[pc] \in Seq(Types)
               /\ pc \in 1..Len(code) /\ TypedAt(T, code[pc], fn.out, pc)
  BY ONLY <1>1, TypesInv, RunFacts
<1>4. PICK ins \in Instrs : ins = code[pc]
  BY ONLY <1>2, <1>3, ElementOfSeq
<1>5. PICK t \in Seq(Types) : t = T[pc]
  BY ONLY <1>3
<1>6. PICK a : a = After(ins, t)
  OBVIOUS
<1>7. /\ tyCheck(ins.inp, t, FALSE)
      /\ ins.op \notin {"RET", "JL"} => Flows(T, a, pc + 1)
      /\ (ins.op \in Jumps /\ ins.to > 0) => Flows(T, a, ins.to)
  BY ONLY <1>3, <1>4, <1>5, <1>6 DEF TypedAt
<1>8. PICK i : i = Len(ins.inp)
  OBVIOUS
<1>9. a \in Seq(Types) /\ i \in 0..Len(t)
  BY ONLY <1>6, <1>7, <1>8, ins \in Instrs, t \in Seq(Types), AfterFacts
<1>10. PICK o \in Seq(Types) : o = ins.out
  BY ONLY ins \in Instrs DEF Instrs
<1>11. PICK p \in Given(o) : ws' = SubSeq(ws, 1, Len(ws) - i) \o p
  <2>1. \E p \in Given(ins.out) : ws' = SubSeq(ws, 1, Len(ws) - Len(ins.inp)) \o p
    BY <1>4 DEF RunStep
  <2>. QED
    BY ONLY <1>8, <1>10, <2>1
<1>12. p \in Seq(Types) /\ tyCheck(o, p, TRUE)
  BY ONLY o \in Seq(Types), p \in Given(o), GivenFacts
<1>13. PICK w : w = ws
  OBVIOUS
<1>14. w \in Seq(Types) /\ tyCheck(t, w, TRUE)
  BY ONLY <1>3, <1>5, <1>13 DEF Flows
<1>15. PICK x : x = SubSeq(w, 1, Len(w) - i) \o p
  OBVIOUS
<1>16. x \in Seq(Types) /\ tyCheck(a, x, TRUE)
  <2>1. /\ SubSeq(w, 1, Len(w) - i) \o p \in Seq(Types)
        /\ tyCheck(SubSeq(t, 1, Len(t) - i) \o o, SubSeq(w, 1, Len(w) - i) \o p, TRUE)
    BY ONLY <1>9, <1>12, <1>14, t \in Seq(Types), o \in Seq(Types), CheckConcat
  <2>2. a = SubSeq(t, 1, Len(t) - i) \o o
    BY ONLY <1>6, <1>8, <1>10 DEF After
  <2>. QED
    BY ONLY <1>15, <2>1, <2>2
<1>17. PICK y : y = pc'
  OBVIOUS
<1>18. Flows(T, a, y)
  <2>1. y \in NextPc(ins) /\ ins.op # "RET"
    BY <1>4, <1>17 DEF RunStep
  <2>2. PICK to \in Nat : to = ins.to
    BY ONLY ins \in Instrs DEF Instrs
  <2>3. ins.op \in Jumps => to > 0
    <3>1. ins.op \in Jumps => to \in 1..Len(code) + 1 \/ (to = 0 /\ pc \in {})
      BY ONLY <1>2, <1>3, <1>4, <2>2 DEF Targets
    <3>. QED
      BY ONLY <1>2, <3>1, to \in Nat
  <2>4. CASE ins.op = "JL"
    <3>1. y = to
      BY ONLY <2>1, <2>2, <2>3, <2>4 DEF NextPc, Jumps
    <3>. QED
      BY ONLY <1>7, <2>2, <2>3, <2>4, <3>1 DEF Jumps
  <2>5. CASE ins.op \in {"JLZ", "JLNZ"}
    <3>1. y = to \/ y = pc + 1
      BY ONLY <2>1, <2>2, <2>3, <2>5 DEF NextPc, Jumps
    <3>. QED
      BY ONLY <1>7, <2>2, <2>3, <2>5, <3>1 DEF Jumps
  <2>6. CASE ins.op \notin Jumps
    <3>1. y = pc + 1
      BY ONLY <2>1, <2>6 DEF NextPc, Jumps
    <3>. QED
      BY ONLY <1>7, <2>1, <2>6, <3>1 DEF Jumps
  <2>. QED
    BY ONLY <2>4, <2>5, <2>6 DEF Jumps
<1>19. Flows(T, x, y)
  <2>1. y \in DOMAIN T /\ tyCheck(T[y], a, TRUE)
    BY ONLY <1>18 DEF Flows
  <2>2. PICK r \in Seq(Types) : r = T[y]
    BY ONLY <1>3, <2>1 DEF Typed
  <2>3. tyCheck(r, x, TRUE)
    <3>1. tyCheck(r, a, TRUE) /\ tyCheck(a, x, TRUE) /\ TRUE \in BOOLEAN
      BY ONLY <1>16, <2>1, <2>2
    <3>. QED
      BY ONLY <1>9, <1>16, <3>1, KeepsRules, r \in Seq(Types), CheckThrough
  <2>. QED
    BY ONLY <2>1, <2>2, <2>3 DEF Flows
<1>20. ws' = x /\ pc' = y
  BY <1>11, <1>13, <1>15, <1>17
<1>21. RunTypes(code, fn, x, y)
  BY ONLY <1>3, <1>16, <1>19 DEF RunTypes
<1>. QED
  BY ONLY <1>1, <1>20, <1>21

(* The function returns the types that its signature has.                  *)
LEMMA RetReturns ==
  ASSUME KeepsRules, TypesInv, RunRet
  PROVE  tyCheck(fn.out, ws, TRUE)
<1>1. phase = "run" /\ code[pc].op = "RET"
  BY DEF RunRet, Running
<1>2. PICK T : /\ Typed(T, code, fn)
               /\ ws \in Seq(Types) /\ Flows(T, ws, pc) /\ T[pc] \in Seq(Types)
               /\ pc \in 1..Len(code) /\ TypedAt(T, code[pc], fn.out, pc)
  BY ONLY <1>1, TypesInv, RunFacts
<1>3. PICK t \in Seq(Types) : t = T[pc]
  BY ONLY <1>2
<1>4. PICK out \in Seq(Types) : out = fn.out
  BY FnSigsAssumption DEF TypesInv, JumpsInv, HandlersInv
<1>5. PICK w : w = ws
  OBVIOUS
<1>6. tyCheck(out, t, TRUE) /\ tyCheck(t, w, TRUE) /\ w \in Seq(Types) /\ TRUE \in BOOLEAN
  BY ONLY <1>1, <1>2, <1>3, <1>4, <1>5 DEF TypedAt, Flows
<1>7. tyCheck(out, w, TRUE)
  BY ONLY <1>6, KeepsRules, out \in Seq(Types), t \in Seq(Types), CheckThrough
<1>. QED
  BY ONLY <1>4, <1>5, <1>7

(* What parseFn starts the body with.                                      *)
LEMMA EntryTypes ==
  ASSUME KeepsRules, TypesInv, parseFn, phase' = "body"
  PROVE  BodyTypes(code, db, ctl, blks)' /\ pc' = 1
<1>1. /\ phase = "start" /\ Db(db) /\ Len(db.tyIs) = 1 /\ fn \in FnSigs /\ pc = 1
      /\ blks = << >>
  BY DEF parseFn, TypesInv, JumpsInv, HandlersInv
<1>2. PICK stk \in Seq(Types) : stk = fn.stk
  BY ONLY <1>1, FnSigsAssumption
<1>3. PICK n \in Nat : n = Len(fn.loc)
  BY ONLY <1>1, FnSigsAssumption
<1>4. Reverse(stk) = stk
  <2>1. fn.stk = Reverse(fn.stk)
    BY DEF parseFn, KeepsRules, RuleNames
  <2>. QED
    BY ONLY <1>2, <2>1
<1>5. PICK d : d = TyDb_new(db)
  OBVIOUS
<1>6. PICK e : e = TyI_cloneAdd(d, stk)
  OBVIOUS
<1>7. /\ Ok(e) /\ db' = e /\ ctl' = <<Frame("fn")>> /\ blks' = << >> /\ pc' = 1 /\ fn' = fn
      /\ code' = [j \in 1..n |-> SrLocal(Reverse(fn.loc)[j])]
  BY <1>1, <1>2, <1>3, <1>4, <1>5, <1>6 DEF parseFn, KeepsRules, Panic
<1>8. Kept(db, d)
  BY ONLY <1>1, <1>5, NewView
<1>9. Db(d)
  BY ONLY <1>8 DEF Kept
<1>10. Kept(d, e)
  BY ONLY <1>6, <1>9, stk \in Seq(Types), CloneAddView
<1>11. Ok(d) /\ Db(e)
  BY ONLY <1>7, <1>10 DEF Kept
<1>12. Len(d.tyIs) = 2 /\ View(d)[2].tys = << >> /\ View(d)[2].done = NOT_DONE
  <2>1. Viewed(db, d, Len(db.tyIs) + 1, << >>, NOT_DONE)
    BY ONLY <1>1, <1>5, <1>11, NewView
  <2>. QED
    BY ONLY <1>1, <2>1 DEF Viewed
<1>13. Len(e.tyIs) = 2 /\ View(e)[2].tys = stk /\ View(e)[2].done = NOT_DONE
  <2>1. Viewed(d, e, Len(d.tyIs), View(d)[Len(d.tyIs)].tys \o stk, View(d)[Len(d.tyIs)].done)
    BY ONLY <1>6, <1>7, <1>9, stk \in Seq(Types), CloneAddView
  <2>2. << >> \o stk = stk
    BY ONLY stk \in Seq(Types), ConcatEmptySeq
  <2>. QED
    BY ONLY <1>12, <2>1, <2>2 DEF Viewed
<1>14. PICK x \in Snap : x = TopOf(e)
  BY ONLY <1>11, TopSnap
<1>15. x.tys = stk /\ x.done = NOT_DONE
  BY ONLY <1>13, <1>14 DEF TopOf
<1>16. PICK c : c = [j \in 1..n |-> SrLocal(Reverse(fn.loc)[j])]
  OBVIOUS
<1>17. PICK T : T = [j \in 1..n + 1 |-> fn.stk \o SubSeq(fn.loc, 1, n + 1 - j)]
  OBVIOUS
<1>18. PICK sig \in FnSigs : sig = fn
  BY ONLY <1>1
<1>19. Typed(T, c, fn) /\ Len(c) = n /\ n + 1 \in DOMAIN T /\ T[n + 1] = stk
  <2>1. /\ n = Len(sig.loc) /\ c = [j \in 1..n |-> SrLocal(Reverse(sig.loc)[j])]
        /\ T = [j \in 1..n + 1 |-> sig.stk \o SubSeq(sig.loc, 1, n + 1 - j)]
    BY ONLY <1>3, <1>16, <1>17, <1>18
  <2>2. Typed(T, c, sig) /\ Len(c) = n /\ n + 1 \in DOMAIN T /\ T[n + 1] = sig.stk
    BY ONLY <2>1, KeepsRules, n \in Nat, sig \in FnSigs, EntryTyped, ZenonT(60)
  <2>. QED
    BY ONLY <1>2, <1>18, <2>2
<1>20. HereIs(T, Len(c), TopOf(e))
  BY ONLY <1>14, <1>15, <1>19 DEF HereIs
<1>21. PICK k : k = <<Frame("fn")>>
  OBVIOUS
<1>22. Len(k) = 1 /\ k[1].kind = "fn"
  BY ONLY <1>21 DEF Frame
<1>23. \A i \in 1..Len(k) : k[i].kind = "fn"
  BY ONLY <1>22
<1>24. AllOwed(T, c, View(e), k, << >>, Len(k))
  BY ONLY <1>23 DEF AllOwed, Owes
<1>25. HeadOf(T, Len(c), k, << >>, TopOf(e)) /\ BlkOrder(k)
  BY ONLY <1>23 DEF HeadOf, BlkOrder
<1>26. /\ code' = c /\ db' = e /\ ctl' = k /\ blks' = << >> /\ fn' = fn
  BY ONLY <1>7, <1>16, <1>21
<1>27. BodyTyped(T, code, db, ctl, blks)'
  BY ONLY <1>19, <1>20, <1>24, <1>25, <1>26 DEF BodyTyped
<1>28. BlkOrder(ctl')
  BY ONLY <1>25, <1>26
<1>. QED
  BY ONLY <1>7, <1>27, <1>28 DEF BodyTypes

(* The code that parseFn has finished ends in no flow.                     *)
LEMMA FinishRuns ==
  ASSUME KeepsRules, TypesInv, NEW f, NEW c, NEW k, NEW bs, Sane(c, f, k, bs), ~f.unty, Db(f),
         c \in Seq(Instrs), NEW T, BodyTyped(T, c, f, k, bs), Finish(f, c), phase' = "run",
         pc = 1
  PROVE  RunTypes(code', fn', ws', pc')
<1>2. HandlersInv
  BY ONLY TypesInv DEF TypesInv, JumpsInv
<1>3. BodyTyped(T, c, f, k, bs) /\ Sane(c, f, k, bs)
  OBVIOUS
<1>4. PICK n \in Nat : n = Len(c)
  BY ONLY c \in Seq(Instrs)
<1>5. PICK force \in BOOLEAN : force = (TyDb_done(f) # RET_DONE)
  OBVIOUS
<1>6. PICK d : d = tyRet(f, fn.out, RET_DONE)
  OBVIOUS
<1>7. PICK g : g = IF force THEN d ELSE f
  OBVIOUS
<1>8. PICK e : e = TyDb_drop(g)
  OBVIOUS
<1>9. /\ Ok(Require(e, Len(e.done) = 1, "incomplete"))
      /\ code' = IF force THEN Append(c, RetI) ELSE c
      /\ ws' \in Given(fn.stk \o fn.loc) /\ fn' = fn /\ pc' = pc
  BY <1>5, <1>6, <1>7, <1>8 DEF Finish, KeepsRules, Panic
<1>10. Ok(e)
  BY ONLY <1>9 DEF Require, Fail, Ok
<1>11. Ok(g)
  <2>1. PICK m : m = Len(TyDb_top(g))
    OBVIOUS
  <2>2. PICK r : r = TyDb_free(g, m)
    OBVIOUS
  <2>3. ~Ok(r) => e = r
    BY ONLY <1>8, <2>1, <2>2 DEF TyDb_drop
  <2>4. ~Ok(g) => r = g
    BY ONLY <2>2 DEF TyDb_free
  <2>. QED
    BY ONLY <1>10, <2>3, <2>4
<1>12. \E U : Typed(U, code', fn) /\ Len(code') + 1 \notin DOMAIN U
  <2>1. CASE force
    <3>1. Ok(d) /\ code' = Append(c, RetI)
      BY ONLY <1>7, <1>9, <1>11, <2>1
    <3>2. PICK ce : ce = Append(c, RetI)
      OBVIOUS
    <3>3. Sane(c, f, k, bs) /\ ~f.unty /\ Ok(d)
      BY ONLY <1>3, ~f.unty, <3>1
    <3>4. \E U : BodyTyped(U, ce, d, k, bs)
      BY ONLY <1>3, <1>4, <1>6, <3>2, <3>3, KeepsRules, n \in Nat, RetTyped
    <3>5. TopOf(d).done = RET_DONE
      BY ONLY <1>3, <1>4, <1>6, <3>2, <3>3, KeepsRules, n \in Nat, RetTyped
    <3>6. PICK U : BodyTyped(U, ce, d, k, bs)
      BY ONLY <3>4
    <3>7. RET_DONE # NOT_DONE
      BY ONLY DEF RET_DONE, NOT_DONE
    <3>8. Typed(U, ce, fn) /\ Len(ce) + 1 \notin DOMAIN U
      BY ONLY <3>5, <3>6, <3>7 DEF BodyTyped, HereIs
    <3>. QED
      BY ONLY <3>1, <3>2, <3>8
  <2>2. CASE ~force
    <3>1. TyDb_done(f) = RET_DONE /\ code' = c
      BY ONLY <1>5, <1>9, <2>2
    <3>2. TopOf(f).done = RET_DONE
      BY ONLY Db(f), <3>1, ViewFacts DEF TopOf
    <3>3. RET_DONE # NOT_DONE
      BY ONLY DEF RET_DONE, NOT_DONE
    <3>4. Typed(T, c, fn) /\ Len(c) + 1 \notin DOMAIN T
      BY ONLY <1>3, <3>2, <3>3 DEF BodyTyped, HereIs
    <3>. QED
      BY ONLY <3>1, <3>4
  <2>. QED
    BY ONLY <2>1, <2>2
<1>13. PICK U : Typed(U, code', fn) /\ Len(code') + 1 \notin DOMAIN U
  BY ONLY <1>12
<1>14. PICK w : w = ws'
  OBVIOUS
<1>15. PICK s \in Seq(Types) : s = fn.stk \o fn.loc
  <2>1. fn.stk \in Seq(Types) /\ fn.loc \in Seq(Types)
    BY ONLY <1>2, FnSigsAssumption DEF HandlersInv
  <2>. QED
    BY ONLY <2>1, ConcatProperties
<1>16. w \in Seq(Types) /\ tyCheck(s, w, TRUE)
  <2>1. w \in Given(s)
    BY ONLY <1>9, <1>14, <1>15
  <2>. QED
    BY ONLY <2>1, s \in Seq(Types), GivenFacts
<1>17. Flows(U, w, 1)
  <2>1. 1 \in DOMAIN U /\ tyCheck(U[1], s, TRUE)
    BY ONLY <1>13, <1>15 DEF Typed, Flows
  <2>2. PICK r \in Seq(Types) : r = U[1]
    BY ONLY <1>13, <2>1 DEF Typed
  <2>3. tyCheck(r, w, TRUE)
    <3>1. tyCheck(r, s, TRUE) /\ TRUE \in BOOLEAN
      BY ONLY <2>1, <2>2
    <3>. QED
      BY ONLY <1>16, <3>1, KeepsRules, r \in Seq(Types), s \in Seq(Types), CheckThrough
  <2>. QED
    BY ONLY <2>1, <2>2, <2>3 DEF Flows
<1>18. pc' = 1
  BY <1>9, pc = 1
<1>. QED
  BY ONLY <1>9, <1>13, <1>14, <1>16, <1>17, <1>18 DEF RunTypes

(* The RET of a function that has `;' for a body.                          *)
LEMMA SemiRuns ==
  ASSUME KeepsRules, TypesInv, parseFn_semi, phase' = "run"
  PROVE  RunTypes(code', fn', ws', pc')
<1>1. /\ phase = "start" /\ Db(db) /\ Len(db.tyIs) = 1 /\ fn \in FnSigs /\ pc = 1
      /\ HandlersInv /\ db.unty = Unty
  BY DEF parseFn_semi, TypesInv, JumpsInv, HandlersInv
<1>2. fn.stk = << >> /\ fn.loc = << >> /\ Finish(TyDb_new(db), << >>)
  BY DEF parseFn_semi, KeepsRules, RuleNames
<1>3. PICK d : d = TyDb_new(db)
  OBVIOUS
<1>4. Kept(db, d) /\ (Ok(d) => Viewed(db, d, Len(db.tyIs) + 1, << >>, NOT_DONE))
  BY ONLY <1>1, <1>3, NewView
<1>5. Db(d) /\ ~d.unty
  BY ONLY <1>1, <1>4, KeepsRules DEF Kept, KeepsRules
<1>6. PICK c \in Seq(Instrs) : c = << >>
  <2>1. << >> \in Seq(Instrs)
    OBVIOUS
  <2>. QED
    BY ONLY <2>1
<1>7. Finish(d, c)
  BY ONLY <1>2, <1>3, <1>6
<1>8. Ok(d)
  <2>1. PICK r : r = tyRet(d, fn.out, RET_DONE)
    OBVIOUS
  <2>2. Kept(d, r)
    BY ONLY <1>5, <2>1, RetStays DEF Stays
  <2>3. PICK g : g \in {r, d} /\ Ok(Require(TyDb_drop(g), Len(TyDb_drop(g).done) = 1, "incomplete"))
    BY <1>7, <2>1 DEF Finish, Panic
  <2>4. Ok(TyDb_drop(g))
    BY ONLY <2>3 DEF Require, Fail, Ok
  <2>5. Ok(g)
    <3>1. PICK m : m = Len(TyDb_top(g))
      OBVIOUS
    <3>2. PICK h : h = TyDb_free(g, m)
      OBVIOUS
    <3>3. ~Ok(h) => TyDb_drop(g) = h
      BY ONLY <3>1, <3>2 DEF TyDb_drop
    <3>4. ~Ok(g) => h = g
      BY ONLY <3>2 DEF TyDb_free
    <3>. QED
      BY ONLY <2>4, <3>3, <3>4
  <2>. QED
    BY ONLY <2>2, <2>3, <2>5 DEF Kept
<1>9. Len(d.tyIs) = 2 /\ View(d)[2].tys = << >> /\ View(d)[2].done = NOT_DONE
  BY ONLY <1>1, <1>4, <1>8 DEF Viewed
<1>10. PICK x \in Snap : x = TopOf(d)
  BY ONLY <1>5, <1>8, TopSnap
<1>11. x.tys = << >> /\ x.done = NOT_DONE
  BY ONLY <1>9, <1>10 DEF TopOf
<1>12. PICK T : T = [j \in 1..0 + 1 |-> fn.stk \o SubSeq(fn.loc, 1, 0 + 1 - j)]
  OBVIOUS
<1>13. PICK sig \in FnSigs : sig = fn
  BY ONLY <1>1
<1>14. Typed(T, c, fn) /\ Len(c) = 0 /\ 0 + 1 \in DOMAIN T /\ T[0 + 1] = << >>
  <2>1. PICK n \in Nat : n = 0
    OBVIOUS
  <2>2. c = [j \in 1..n |-> SrLocal(Reverse(sig.loc)[j])]
    BY ONLY <1>6, <2>1
  <2>3. n = Len(sig.loc) /\ T = [j \in 1..n + 1 |-> sig.stk \o SubSeq(sig.loc, 1, n + 1 - j)]
    BY ONLY <1>2, <1>12, <1>13, <2>1
  <2>4. Typed(T, c, sig) /\ Len(c) = n /\ n + 1 \in DOMAIN T /\ T[n + 1] = sig.stk
    BY ONLY <2>2, <2>3, KeepsRules, n \in Nat, sig \in FnSigs, EntryTyped, ZenonT(60)
  <2>. QED
    BY ONLY <1>2, <1>13, <2>1, <2>4
<1>15. HereIs(T, Len(c), TopOf(d))
  BY ONLY <1>10, <1>11, <1>14 DEF HereIs
<1>16. PICK k : k = <<Frame("fn")>>
  OBVIOUS
<1>17. Len(k) = 1 /\ k[1].kind = "fn"
  BY ONLY <1>16 DEF Frame
<1>18. \A i \in 1..Len(k) : k[i].kind = "fn"
  BY ONLY <1>17
<1>19. AllOwed(T, c, View(d), k, << >>, Len(k))
  BY ONLY <1>18 DEF AllOwed, Owes
<1>20. HeadOf(T, Len(c), k, << >>, TopOf(d)) /\ BlkOrder(k)
  BY ONLY <1>18 DEF HeadOf, BlkOrder
<1>21. BodyTyped(T, c, d, k, << >>)
  BY ONLY <1>14, <1>15, <1>19, <1>20 DEF BodyTyped
<1>22. Handlers(k) /\ Total(k) = 2
  <2>1. Frame("fn") \in Frames /\ Frame("fn").kind = "fn"
    BY ONLY FrameFacts DEF Kinds
  <2>2. k \in Seq(Frames) /\ k # << >> /\ Len(k) = 1 /\ k[1] = Frame("fn")
    BY ONLY <1>16, <2>1
  <2>3. Handlers(k)
    BY ONLY <2>1, <2>2 DEF Handlers
  <2>4. Snapshots(k)[1] = 2
    BY ONLY <2>1, <2>2, <2>3, HandlersFacts
  <2>. QED
    BY ONLY <2>2, <2>3, <2>4 DEF Total
<1>23. BlkFrames(k, << >>)
  BY ONLY <1>16 DEF BlkFrames, Frame
<1>24. BlkStarts(<< >>, Len(c)) /\ << >> \in Seq(Blks)
  BY ONLY DEF BlkStarts
<1>25. Sane(c, d, k, << >>)
  BY ONLY <1>1, <1>5, <1>9, <1>20, <1>22, <1>23, <1>24, c \in Seq(Instrs) DEF Sane
<1>. QED
  BY ONLY <1>1, <1>5, <1>7, <1>21, <1>25, KeepsRules, TypesInv, phase' = "run", c \in Seq(Instrs),
          FinishRuns

LEMMA TypesStep ==
  ASSUME KeepsRules, TypesInv, [Next]_vars
  PROVE  TypesInv'
<1>0. JumpsInv /\ HandlersInv /\ JumpsInv' /\ "blkBound" \in Rules
  <2>1. "blkBound" \in Rules /\ JumpsInv
    BY DEF KeepsRules, RuleNames, TypesInv
  <2>2. JumpsInv'
    BY ONLY <2>1, [Next]_vars, JumpsStep
  <2>. QED
    BY ONLY <2>1, <2>2 DEF JumpsInv
<1>b. ASSUME phase = "body"
      PROVE  /\ Sane(code, db, ctl, blks) /\ ~db.unty /\ Db(db) /\ code \in Seq(Instrs)
             /\ Handlers(ctl) /\ Top = ctl[Len(ctl)] /\ Top \in Frames
             /\ blks \in Seq(Blks) /\ BlkOrder(ctl)
             /\ \E T : BodyTyped(T, code, db, ctl, blks)
  BY ONLY <1>b, KeepsRules, TypesInv, TypesFacts
<1>1. CASE UNCHANGED vars
  <2>1. /\ db' = db /\ fn' = fn /\ code' = code /\ ctl' = ctl /\ blks' = blks
        /\ phase' = phase /\ pc' = pc /\ ws' = ws
    BY ONLY <1>1 DEF vars
  <2>2. BodyTypes(code, db, ctl, blks) => BodyTypes(code, db, ctl, blks)'
    <3>1. ASSUME NEW T, BodyTyped(T, code, db, ctl, blks)
          PROVE  BodyTyped(T, code, db, ctl, blks)'
      BY ONLY <2>1, <3>1 DEF BodyTyped
    <3>. QED
      BY ONLY <2>1, <3>1 DEF BodyTypes
  <2>. QED
    BY ONLY <1>0, <2>1, <2>2, TypesInv DEF TypesInv
<1>2. CASE parseFn
  <2>1. CASE phase' = "body"
    <3>1. BodyTypes(code, db, ctl, blks)' /\ pc' = 1
      BY ONLY <1>2, <2>1, KeepsRules, TypesInv, EntryTypes
    <3>. QED
      BY ONLY <1>0, <2>1, <3>1 DEF TypesInv
  <2>2. CASE phase' # "body"
    <3>1. phase' = "panic"
      BY <1>2, <2>2 DEF parseFn, Panic
    <3>. QED
      BY ONLY <1>0, <3>1 DEF TypesInv
  <2>. QED
    BY <2>1, <2>2
<1>3. ASSUME NEW sig \in Sigs, compileFn(sig) PROVE TypesInv'
  <2>1. phase = "body"
    BY <1>3 DEF compileFn, Room
  <2>2. PICK g : g = tyCall(db, sig.inp, sig.out)
    OBVIOUS
  <2>3. PICK e : e = Append(code, CallI(sig))
    OBVIOUS
  <2>4. Step(g, e, ctl, blks)
    BY <1>3, <2>2, <2>3 DEF compileFn
  <2>5. ASSUME Ok(g) PROVE BodyTypes(e, g, ctl, blks)
    <3>1. PICK T : BodyTyped(T, code, db, ctl, blks)
      BY ONLY <1>b, <2>1
    <3>2. PICK n \in Nat : n = Len(code)
      BY ONLY <1>b, <2>1
    <3>3. Sane(code, db, ctl, blks) /\ ~db.unty /\ BlkOrder(ctl)
      BY ONLY <1>b, <2>1
    <3>4. \E U : BodyTyped(U, e, g, ctl, blks)
      BY ONLY <2>2, <2>3, <2>5, <3>1, <3>2, <3>3, KeepsRules, n \in Nat, sig \in Sigs, CallTyped
    <3>. QED
      BY ONLY <3>3, <3>4 DEF BodyTypes
  <2>. QED
    BY ONLY <1>0, <2>1, <2>4, <2>5, TypesInv, StepTypes
<1>4. CASE N_ret
  <2>1. phase = "body"
    BY <1>4 DEF N_ret, Room
  <2>2. PICK g : g = tyRet(db, fn.out, RET_DONE)
    OBVIOUS
  <2>3. PICK e : e = Append(code, RetI)
    OBVIOUS
  <2>4. Step(g, e, ctl, blks)
    BY <1>4, <2>2, <2>3 DEF N_ret
  <2>5. ASSUME Ok(g) PROVE BodyTypes(e, g, ctl, blks)
    <3>1. PICK T : BodyTyped(T, code, db, ctl, blks)
      BY ONLY <1>b, <2>1
    <3>2. PICK n \in Nat : n = Len(code)
      BY ONLY <1>b, <2>1
    <3>3. Sane(code, db, ctl, blks) /\ ~db.unty /\ BlkOrder(ctl)
      BY ONLY <1>b, <2>1
    <3>4. \E U : BodyTyped(U, e, g, ctl, blks)
      BY ONLY <2>2, <2>3, <2>5, <3>1, <3>2, <3>3, KeepsRules, n \in Nat, RetTyped
    <3>. QED
      BY ONLY <3>3, <3>4 DEF BodyTypes
  <2>. QED
    BY ONLY <1>0, <2>1, <2>4, <2>5, TypesInv, StepTypes
<1>5. CASE N_if
  <2>1. phase = "body"
    BY <1>5 DEF N_if, Room
  <2>2. PICK n \in Nat : n = Len(code)
    BY ONLY <1>b, <2>1
  <2>3. PICK f : f = [Frame("if") EXCEPT !.i = n + 1]
    OBVIOUS
  <2>4. PICK l : l = Append(ctl, f)
    OBVIOUS
  <2>5. PICK e : e = Append(code, Condition)
    OBVIOUS
  <2>6. PICK cond : cond = (Unty \/ TyDb_done(tyCall(db, <<S>>, << >>)) = NOT_DONE)
    OBVIOUS
  <2>7. PICK g : g = tyClone(Require(tyCall(db, <<S>>, << >>), cond, "done"), 0)
    OBVIOUS
  <2>8. Step(g, e, l, blks)
    BY <1>5, <2>2, <2>3, <2>4, <2>5, <2>6, <2>7 DEF N_if, Condition
  <2>9. ASSUME Ok(g) PROVE BodyTypes(e, g, l, blks)
    <3>1. PICK T : BodyTyped(T, code, db, ctl, blks)
      BY ONLY <1>b, <2>1
    <3>2. Sane(code, db, ctl, blks) /\ ~db.unty
      BY ONLY <1>b, <2>1
    <3>3. BlkOrder(l)
      <4>1. PICK x \in Nat : x = n + 1
        OBVIOUS
      <4>2. f \in Frames /\ f.kind = "if"
        BY ONLY <2>3, <4>1, IfFrame
      <4>3. f.kind # "fn" /\ (f.kind = "blk" => f.blk = Len(blks) + 1)
        BY ONLY <4>2
      <4>. QED
        BY ONLY <2>4, <3>2, <4>2, <4>3, OrderAppend
    <3>4. \E U : BodyTyped(U, e, g, l, blks)
      BY ONLY <2>2, <2>3, <2>4, <2>5, <2>7, <2>9, <3>1, <3>2, KeepsRules, n \in Nat, IfTyped
    <3>. QED
      BY ONLY <3>3, <3>4 DEF BodyTypes
  <2>. QED
    BY ONLY <1>0, <2>1, <2>8, <2>9, TypesInv, StepTypes
<1>6. CASE N_if_elif \/ N_if_else
  <2>1. phase = "body" /\ Top.kind = "if"
    BY <1>6 DEF N_if_elif, N_if_else, Waits
  <2>2. PICK n \in Nat : n = Len(code)
    BY ONLY <1>b, <2>1
  <2>3. PICK kind \in {"elif", "else"} : IF kind = "elif" THEN N_if_elif ELSE N_if_else
    BY ONLY <1>6
  <2>4. PICK f : f = Top
    OBVIOUS
  <2>5. PICK t : t = tyIf(db, f.is)
    OBVIOUS
  <2>6. PICK g : g = BranchDb(kind, t)
    OBVIOUS
  <2>7. PICK h : h = Branched(f, kind, t.is, n + 1)
    OBVIOUS
  <2>8. PICK l : l = [ctl EXCEPT ![Len(ctl)] = h]
    OBVIOUS
  <2>9. PICK e : e = ElseJump(code, f.i)
    OBVIOUS
  <2>10. Step(g, e, l, blks)
    <3>1. CASE kind = "elif"
      BY <2>2, <2>3, <2>4, <2>5, <2>6, <2>7, <2>8, <2>9, <3>1
         DEF N_if_elif, BranchDb, Branched, Replace
    <3>2. CASE kind = "else"
      BY <2>2, <2>3, <2>4, <2>5, <2>6, <2>7, <2>8, <2>9, <3>2
         DEF N_if_else, BranchDb, Branched, Replace
    <3>. QED
      BY ONLY <3>1, <3>2, kind \in {"elif", "else"}
  <2>11. ASSUME Ok(g) PROVE BodyTypes(e, g, l, blks)
    <3>1. PICK T : BodyTyped(T, code, db, ctl, blks)
      BY ONLY <1>b, <2>1
    <3>2. Sane(code, db, ctl, blks) /\ ~db.unty
      BY ONLY <1>b, <2>1
    <3>3. PICK q : q = Len(ctl)
      OBVIOUS
    <3>4. f = ctl[q] /\ f.kind = "if" /\ f \in Frames
      BY ONLY <1>b, <2>1, <2>4, <3>3
    <3>5. BlkOrder(l)
      <4>1. PICK x \in Nat : x = n + 1
        OBVIOUS
      <4>2. PICK is : is = t.is
        OBVIOUS
      <4>3. is \in IfStates
        <5>1. PICK js : js = f.is
          OBVIOUS
        <5>2. f \in Frames
          BY ONLY <3>4
        <5>3. js \in IfStates
          BY ONLY <5>1, <5>2 DEF Frames
        <5>4. Db(db)
          BY ONLY <1>b, <2>1
        <5>5. t = tyIf(db, js)
          BY ONLY <2>5, <5>1
        <5>6. t.is \in IfStates
          BY ONLY <5>3, <5>4, <5>5, TyIfView
        <5>. QED
          BY ONLY <4>2, <5>6
      <4>4. h = Branched(f, kind, is, x)
        BY ONLY <2>7, <4>1, <4>2
      <4>5. f \in Frames
        BY ONLY <3>4
      <4>6. h \in Frames /\ h.kind = kind
        BY ONLY <4>3, <4>4, <4>5, x \in Nat, kind \in {"elif", "else"}, BranchFrame
      <4>7. ctl[Len(ctl)].kind # "fn" /\ h.kind # "fn" /\ h.kind # "blk"
        BY ONLY <3>3, <3>4, <4>6, kind \in {"elif", "else"}
      <4>. QED
        BY ONLY <2>8, <3>2, <4>6, <4>7, OrderReplace
    <3>6. f = ctl[q] /\ f.kind = "if"
      BY ONLY <3>4
    <3>7. \E U : BodyTyped(U, e, g, l, blks)
      <4>1. Turns(code, db, ctl, f, kind, n, t, g, h, l, e)
        BY ONLY <2>5, <2>6, <2>7, <2>8, <2>9, kind \in {"elif", "else"} DEF Turns
      <4>. QED
        BY ONLY <2>2, <2>11, <3>1, <3>2, <3>3, <3>6, <4>1, KeepsRules, n \in Nat, BranchTyped
    <3>. QED
      BY ONLY <3>5, <3>7 DEF BodyTypes
  <2>. QED
    BY ONLY <1>0, <2>1, <2>10, <2>11, TypesInv, StepTypes
<1>7. CASE N_if_elifDo
  <2>1. phase = "body" /\ Top.kind = "elif"
    BY <1>7 DEF N_if_elifDo, Waits
  <2>2. PICK n \in Nat : n = Len(code)
    BY ONLY <1>b, <2>1
  <2>3. PICK f : f = Top
    OBVIOUS
  <2>4. PICK h : h = Conditioned(f, n + 1)
    OBVIOUS
  <2>5. PICK l : l = [ctl EXCEPT ![Len(ctl)] = h]
    OBVIOUS
  <2>6. PICK e : e = Append(code, Condition)
    OBVIOUS
  <2>7. PICK cond : cond = (TyDb_done(tyCall(db, <<S>>, << >>)) = NOT_DONE)
    OBVIOUS
  <2>8. PICK g : g = tyMerge(Require(tyCall(db, <<S>>, << >>), cond, "done"))
    OBVIOUS
  <2>9. Step(g, e, l, blks)
    BY <1>7, <2>2, <2>3, <2>4, <2>5, <2>6, <2>7, <2>8
       DEF N_if_elifDo, Condition, Conditioned, Replace
  <2>10. ASSUME Ok(g) PROVE BodyTypes(e, g, l, blks)
    <3>1. PICK T : BodyTyped(T, code, db, ctl, blks)
      BY ONLY <1>b, <2>1
    <3>2. Sane(code, db, ctl, blks) /\ ~db.unty
      BY ONLY <1>b, <2>1
    <3>3. PICK q : q = Len(ctl)
      OBVIOUS
    <3>4. f = ctl[q] /\ f.kind = "elif" /\ f \in Frames
      BY ONLY <1>b, <2>1, <2>3, <3>3
    <3>5. BlkOrder(l)
      <4>1. PICK x \in Nat : x = n + 1
        OBVIOUS
      <4>2. f \in Frames
        BY ONLY <3>4
      <4>3. h = Conditioned(f, x)
        BY ONLY <2>4, <4>1
      <4>4. h \in Frames /\ h.kind = "if"
        BY ONLY <4>2, <4>3, x \in Nat, CondFrame
      <4>5. ctl[Len(ctl)].kind # "fn" /\ h.kind # "fn" /\ h.kind # "blk"
        BY ONLY <3>3, <3>4, <4>4
      <4>. QED
        BY ONLY <2>5, <3>2, <4>4, <4>5, OrderReplace
    <3>6. \E U : BodyTyped(U, e, g, l, blks)
      BY ONLY <2>2, <2>4, <2>5, <2>6, <2>8, <2>10, <3>1, <3>2, <3>3, <3>4, KeepsRules,
              n \in Nat, ElifDoTyped
    <3>. QED
      BY ONLY <3>5, <3>6 DEF BodyTypes
  <2>. QED
    BY ONLY <1>0, <2>1, <2>9, <2>10, TypesInv, StepTypes
<1>8. CASE N_if_end
  <2>1. PICK kind \in {"if", "else"} :
          /\ Waits(kind)
          /\ LET t  == tyIf(db, Top.is)
                 is == [t.is EXCEPT !.hadElse = kind = "else"]
                 H  == IF kind = "if" THEN Top.ends \union {Top.i} ELSE Top.ends
             IN  /\ ("ifFall" \in Rules /\ kind = "if" /\ is.hadFull /\ Ok(t.db)) =>
                      tyCheck(TypesOf(TyDb_index(t.db, 1)), TypesOf(TyDb_top(t.db)), TRUE)
                 /\ Step(tyIfEnd(t.db, is), endJumps(code, H), Pop, blks)
    BY <1>8 DEF N_if_end
  <2>2. phase = "body" /\ Top.kind = kind
    BY ONLY <2>1 DEF Waits
  <2>3. PICK n \in Nat : n = Len(code)
    BY ONLY <1>b, <2>2
  <2>4. PICK f : f = Top
    OBVIOUS
  <2>5. PICK t : t = tyIf(db, f.is)
    OBVIOUS
  <2>6. PICK is : is = [t.is EXCEPT !.hadElse = f.kind = "else"]
    OBVIOUS
  <2>7. PICK H : H = IF f.kind = "if" THEN f.ends \union {f.i} ELSE f.ends
    OBVIOUS
  <2>8. PICK g : g = tyIfEnd(t.db, is)
    OBVIOUS
  <2>9. PICK e : e = endJumps(code, H)
    OBVIOUS
  <2>10. PICK l : l = SubSeq(ctl, 1, Len(ctl) - 1)
    OBVIOUS
  <2>11. Step(g, e, l, blks)
    BY ONLY <2>1, <2>2, <2>4, <2>5, <2>6, <2>7, <2>8, <2>9, <2>10 DEF Pop
  <2>12. (f.kind = "if" /\ is.hadFull /\ Ok(t.db)) =>
           tyCheck(TypesOf(TyDb_index(t.db, 1)), TypesOf(TyDb_top(t.db)), TRUE)
    <3>1. "ifFall" \in Rules
      BY DEF KeepsRules, RuleNames
    <3>. QED
      BY ONLY <2>1, <2>2, <2>4, <2>5, <2>6, <3>1
  <2>13. ASSUME Ok(g) PROVE BodyTypes(e, g, l, blks)
    <3>1. PICK T : BodyTyped(T, code, db, ctl, blks)
      BY ONLY <1>b, <2>2
    <3>2. Sane(code, db, ctl, blks) /\ ~db.unty
      BY ONLY <1>b, <2>2
    <3>3. PICK q : q = Len(ctl)
      OBVIOUS
    <3>4. f = ctl[q] /\ f.kind \in {"if", "else"}
      BY ONLY <1>b, <2>2, <2>4, <3>3, kind \in {"if", "else"}
    <3>5. BlkOrder(l)
      <4>1. ctl[Len(ctl)].kind # "fn"
        BY ONLY <3>3, <3>4
      <4>. QED
        BY ONLY <2>10, <3>2, <4>1, OrderPop
    <3>6. \E U : BodyTyped(U, e, g, l, blks)
      <4>1. EndsIf(code, db, f, t, is, H, g, e)
        BY ONLY <2>5, <2>6, <2>7, <2>8, <2>9, <2>12 DEF EndsIf
      <4>. QED
        BY ONLY <2>3, <2>10, <2>13, <3>1, <3>2, <3>3, <3>4, <4>1, KeepsRules, n \in Nat,
                IfEndTyped
    <3>. QED
      BY ONLY <3>5, <3>6 DEF BodyTypes
  <2>. QED
    BY ONLY <1>0, <2>2, <2>11, <2>13, TypesInv, StepTypes
<1>9. CASE N_blk
  <2>1. phase = "body"
    BY <1>9 DEF N_blk, Room
  <2>2. PICK f : f = [Frame("blk") EXCEPT !.blk = Len(blks) + 1]
    OBVIOUS
  <2>3. PICK l : l = Append(ctl, f)
    OBVIOUS
  <2>4. PICK b : b = Append(blks, Blk(Len(code) + 1, TypesOf(TyDb_top(db))))
    OBVIOUS
  <2>5. Step(db, code, l, b)
    BY <1>9, <2>2, <2>3, <2>4 DEF N_blk
  <2>6. BodyTypes(code, db, l, b)
    <3>1. PICK T : BodyTyped(T, code, db, ctl, blks)
      BY ONLY <1>b, <2>1
    <3>2. Sane(code, db, ctl, blks)
      BY ONLY <1>b, <2>1
    <3>3. BlkOrder(l)
      <4>1. PICK x \in Nat : x = Len(blks) + 1
        BY ONLY <1>b, <2>1
      <4>2. f \in Frames /\ f.kind = "blk" /\ f.blk = x
        BY ONLY <2>2, <4>1, BlkFrame
      <4>3. f.kind # "fn" /\ (f.kind = "blk" => f.blk = Len(blks) + 1)
        BY ONLY <4>1, <4>2
      <4>. QED
        BY ONLY <2>3, <3>2, <4>2, <4>3, OrderAppend
    <3>4. BodyTyped(T, code, db, l, b)
      BY ONLY <2>2, <2>3, <2>4, <3>1, <3>2, BlkTyped
    <3>. QED
      BY ONLY <3>3, <3>4 DEF BodyTypes
  <2>. QED
    BY ONLY <1>0, <2>1, <2>5, <2>6, TypesInv, StepTypes
<1>10. ASSUME NEW op \in {"JL", "JLNZ"}, Cont(op) PROVE TypesInv'
  <2>1. phase = "body" /\ Bound
    BY <1>10 DEF Cont, Room
  <2>2. PICK g : g = tyCont(db, op)
    OBVIOUS
  <2>3. PICK e : e = Append(code, Jump(op, HeadBlk.start))
    OBVIOUS
  <2>4. Step(g, e, ctl, blks)
    BY <1>10, <2>2, <2>3 DEF Cont
  <2>5. ASSUME Ok(g) PROVE BodyTypes(e, g, ctl, blks)
    <3>1. PICK T : BodyTyped(T, code, db, ctl, blks)
      BY ONLY <1>b, <2>1
    <3>2. Sane(code, db, ctl, blks) /\ ~db.unty /\ BlkOrder(ctl)
      BY ONLY <1>b, <2>1
    <3>3. \E U : BodyTyped(U, e, g, ctl, blks)
      BY ONLY <1>0, <2>1, <2>2, <2>3, <2>5, <3>1, <3>2, KeepsRules, op \in {"JL", "JLNZ"},
              ContTyped
    <3>. QED
      BY ONLY <3>2, <3>3 DEF BodyTypes
  <2>. QED
    BY ONLY <1>0, <2>1, <2>4, <2>5, TypesInv, StepTypes
<1>11. CASE N_break
  <2>1. phase = "body" /\ Bound
    BY <1>11 DEF N_break, Room
  <2>2. PICK t : t = tyBreak(db)
    OBVIOUS
  <2>3. PICK br : br = [at |-> Len(code) + 1, tys |-> TypesOf(TyDb_top(db))]
    OBVIOUS
  <2>4. PICK b : b = WithBreak(t.blks, Len(blks), br)
    OBVIOUS
  <2>5. PICK e : e = Append(code, Jump("JL", 0))
    OBVIOUS
  <2>6. Step(t.db, e, ctl, b)
    BY <1>11, <2>2, <2>3, <2>4, <2>5 DEF N_break, WithBreak
  <2>7. ASSUME Ok(t.db) PROVE BodyTypes(e, t.db, ctl, b)
    <3>1. PICK T : BodyTyped(T, code, db, ctl, blks)
      BY ONLY <1>b, <2>1
    <3>2. Sane(code, db, ctl, blks) /\ ~db.unty /\ BlkOrder(ctl)
      BY ONLY <1>b, <2>1
    <3>3. \E U : BodyTyped(U, e, t.db, ctl, b)
      BY ONLY <1>0, <2>1, <2>2, <2>3, <2>4, <2>5, <2>7, <3>1, <3>2, KeepsRules, BreakTypes
    <3>. QED
      BY ONLY <3>2, <3>3 DEF BodyTypes
  <2>. QED
    BY ONLY <1>0, <2>1, <2>6, <2>7, TypesInv, StepTypes
<1>12. ASSUME NEW while \in BOOLEAN, N_blk_end(while) PROVE TypesInv'
  <2>1. Waits("blk") /\ (while => Bound)
    BY <1>12 DEF N_blk_end
  <2>2. phase = "body" /\ Top.kind = "blk"
    BY ONLY <2>1 DEF Waits
  <2>3. PICK d : d = IF while THEN tyCont(db, "JLNZ") ELSE db
    OBVIOUS
  <2>4. PICK c : c = IF while THEN Append(code, Jump("JLNZ", HeadBlk.start)) ELSE code
    OBVIOUS
  <2>5. PICK t : t = IF TyDb_done(d) = NOT_DONE THEN tyBreak(d) ELSE [db |-> d, blks |-> blks]
    OBVIOUS
  <2>6. PICK f : f = Top
    OBVIOUS
  <2>7. PICK brs : brs = t.blks[f.blk].breaks
    OBVIOUS
  <2>8. PICK g : g = IF blkClears(brs, t.db) THEN TyDb_clearDone(t.db) ELSE t.db
    OBVIOUS
  <2>9. PICK H : H = {br.at : br \in brs}
    OBVIOUS
  <2>10. PICK e : e = endJumps(c, H)
    OBVIOUS
  <2>11. PICK l : l = SubSeq(ctl, 1, Len(ctl) - 1)
    OBVIOUS
  <2>12. Step(g, e, l, t.blks)
    BY <1>12, <2>3, <2>4, <2>5, <2>6, <2>7, <2>8, <2>9, <2>10, <2>11 DEF N_blk_end, Pop
  <2>13. Ok(g) => \A br \in brs : tyCheck(TypesOf(TyDb_top(g)), br.tys, TRUE)
    <3>1. "blkEnd" \in Rules
      BY DEF KeepsRules, RuleNames
    <3>. QED
      BY <1>12, <2>3, <2>5, <2>6, <2>7, <2>8, <3>1 DEF N_blk_end
  <2>14. ASSUME Ok(g) PROVE BodyTypes(e, g, l, t.blks)
    <3>1. PICK T : BodyTyped(T, code, db, ctl, blks)
      BY ONLY <1>b, <2>2
    <3>2. Sane(code, db, ctl, blks) /\ ~db.unty /\ Db(db)
      BY ONLY <1>b, <2>2
    <3>3. Ok(d) /\ Kept(db, d)
      <4>1. Kept(db, d)
        <5>1. "JLNZ" \in {"JL", "JLNZ"}
          OBVIOUS
        <5>2. Stays(db, tyCont(db, "JLNZ")) /\ Kept(db, db)
          BY ONLY <3>2, <5>1, ContStays, KeptSame
        <5>. QED
          BY ONLY <2>3, <5>2 DEF Stays
      <4>2. Db(d)
        BY ONLY <4>1 DEF Kept
      <4>3. PICK r : r = t.db
        OBVIOUS
      <4>4. Kept(d, r)
        <5>1. CASE TyDb_done(d) = NOT_DONE
          <6>1. t = tyBreak(d)
            BY ONLY <2>5, <5>1
          <6>. QED
            BY ONLY <4>2, <4>3, <6>1, TyBreakView
        <5>2. CASE TyDb_done(d) # NOT_DONE
          <6>1. r = d
            BY ONLY <2>5, <4>3, <5>2
          <6>. QED
            BY ONLY <4>2, <6>1, KeptSame
        <5>. QED
          BY ONLY <5>1, <5>2
      <4>5. Kept(r, g)
        <5>1. Db(r)
          BY ONLY <4>4 DEF Kept
        <5>2. g = TyDb_clearDone(r) \/ g = r
          BY ONLY <2>8, <4>3
        <5>. QED
          BY ONLY <5>1, <5>2, KeptSame, ClearDoneView
      <4>. QED
        BY ONLY <2>14, <4>1, <4>4, <4>5 DEF Kept
    <3>4. \E U : Sane(c, d, ctl, blks) /\ BodyTyped(U, c, d, ctl, blks)
      <4>1. CASE while
        <5>1. PICK op \in {"JL", "JLNZ"} : op = "JLNZ"
          OBVIOUS
        <5>2. d = tyCont(db, op) /\ c = Append(code, Jump(op, HeadBlk.start)) /\ Bound
          BY ONLY <2>1, <2>3, <2>4, <4>1, <5>1
        <5>3. Db(d) /\ Len(d.tyIs) = Len(db.tyIs)
          BY ONLY <1>0, <2>2, <3>1, <3>2, <3>3, <5>2, KeepsRules, op \in {"JL", "JLNZ"},
                  ContTyped
        <5>4. \E U : BodyTyped(U, c, d, ctl, blks)
          BY ONLY <1>0, <2>2, <3>1, <3>2, <3>3, <5>2, KeepsRules, op \in {"JL", "JLNZ"},
                  ContTyped
        <5>5. c \in Seq(Instrs) /\ Len(c) = Len(code) + 1 /\ Len(code) \in Nat
          <6>1. HeadBlk.start \in Nat
            BY ONLY <1>0, <2>2, <5>2, HeadFacts
          <6>2. Jump(op, HeadBlk.start) \in Instrs
            BY ONLY <6>1, op \in {"JL", "JLNZ"}, JumpFacts DEF Jumps
          <6>3. code \in Seq(Instrs)
            BY ONLY <1>b, <2>2
          <6>. QED
            BY ONLY <5>2, <6>2, <6>3, AppendProperties
        <5>6. BlkStarts(blks, Len(c))
          BY ONLY <3>2, <5>5 DEF Sane, BlkStarts
        <5>7. Sane(c, d, ctl, blks)
          BY ONLY <3>2, <5>3, <5>5, <5>6 DEF Sane
        <5>. QED
          BY ONLY <5>4, <5>7
      <4>2. CASE ~while
        BY ONLY <2>3, <2>4, <3>1, <3>2, <4>2
      <4>. QED
        BY ONLY <4>1, <4>2
    <3>5. PICK U : Sane(c, d, ctl, blks) /\ BodyTyped(U, c, d, ctl, blks)
      BY ONLY <3>4
    <3>6. ~d.unty
      BY ONLY <3>2, <3>3 DEF Kept
    <3>7. PICK q : q = Len(ctl)
      OBVIOUS
    <3>8. f = ctl[q] /\ f.kind = "blk"
      BY ONLY <1>b, <2>2, <2>6, <3>7
    <3>9. BlkOrder(l)
      <4>1. ctl[Len(ctl)].kind # "fn"
        BY ONLY <3>7, <3>8
      <4>. QED
        BY ONLY <2>11, <3>2, <4>1, OrderPop
    <3>10. \A br \in brs : tyCheck(TypesOf(TyDb_top(g)), br.tys, TRUE)
      BY ONLY <2>13, <2>14
    <3>11. \E W : BodyTyped(W, e, g, l, t.blks)
      <4>1. EndsBlk(c, d, f, t, brs, g, H, e)
        BY ONLY <2>5, <2>7, <2>8, <2>9, <2>10, <3>10 DEF EndsBlk
      <4>2. HandlersInv /\ phase = "body"
        BY ONLY <1>0, <2>2
      <4>3. Sane(c, d, ctl, blks) /\ BodyTyped(U, c, d, ctl, blks)
        BY ONLY <3>5
      <4>. QED
        BY ONLY <2>11, <2>14, <3>6, <3>7, <3>8, <4>1, <4>2, <4>3, KeepsRules, BlkEndTyped
    <3>. QED
      BY ONLY <3>9, <3>11 DEF BodyTypes
  <2>. QED
    BY ONLY <1>0, <2>2, <2>12, <2>14, TypesInv, StepTypes
<1>13. CASE parseFn_end
  <2>1. phase = "body" /\ Finish(db, code)
    BY <1>13 DEF parseFn_end, Waits
  <2>2. CASE phase' = "run"
    <3>1. PICK T : BodyTyped(T, code, db, ctl, blks)
      BY ONLY <1>b, <2>1
    <3>2. pc = 1
      BY ONLY <2>1, TypesInv DEF TypesInv
    <3>3. RunTypes(code', fn', ws', pc')
      BY ONLY <1>b, <2>1, <2>2, <3>1, <3>2, KeepsRules, TypesInv, FinishRuns
    <3>. QED
      BY ONLY <1>0, <2>2, <3>3 DEF TypesInv
  <2>3. CASE phase' # "run"
    <3>1. phase' = "panic"
      BY ONLY <2>1, <2>3 DEF Finish, Panic
    <3>. QED
      BY ONLY <1>0, <3>1 DEF TypesInv
  <2>. QED
    BY ONLY <2>2, <2>3
<1>17. CASE parseFn_semi
  <2>1. CASE phase' = "run"
    <3>1. RunTypes(code', fn', ws', pc')
      BY ONLY <1>17, <2>1, KeepsRules, TypesInv, SemiRuns
    <3>. QED
      BY ONLY <1>0, <2>1, <3>1 DEF TypesInv
  <2>2. CASE phase' # "run"
    <3>1. phase' = "panic"
      BY <1>17, <2>2 DEF parseFn_semi, Finish, Panic
    <3>. QED
      BY ONLY <1>0, <3>1 DEF TypesInv
  <2>. QED
    BY ONLY <2>1, <2>2
<1>14. CASE RunStep
  <2>1. phase' = "run"
    BY <1>14 DEF RunStep, Running
  <2>2. RunTypes(code', fn', ws', pc')
    BY ONLY <1>14, KeepsRules, TypesInv, StepRuns
  <2>. QED
    BY ONLY <1>0, <2>1, <2>2 DEF TypesInv
<1>15. CASE RunRet
  <2>1. phase' = "returned" /\ fn' = fn /\ ws' = ws
    BY <1>15 DEF RunRet
  <2>2. tyCheck(fn.out, ws, TRUE)
    BY ONLY <1>15, KeepsRules, TypesInv, RetReturns
  <2>. QED
    BY ONLY <1>0, <2>1, <2>2 DEF TypesInv
<1>16. CASE N_cont \/ N_contIf
  BY <1>10, <1>16 DEF N_cont, N_contIf
<1>. QED
  BY <1>1, <1>2, <1>3, <1>4, <1>5, <1>6, <1>7, <1>8, <1>9, <1>11, <1>12, <1>13,
     <1>14, <1>15, <1>16, <1>17 DEF Next

LEMMA TypesInit == Init => TypesInv
<1> SUFFICES ASSUME Init PROVE TypesInv
  OBVIOUS
<1>1. JumpsInv
  BY JumpsInit
<1>2. phase = "start" /\ pc = 1
  BY DEF Init
<1>. QED
  BY ONLY <1>1, <1>2 DEF TypesInv

LEMMA TypesRun ==
  ASSUME KeepsRules, TypesInv
  PROVE  NeverFallsOff /\ OperandsMatch /\ ReturnsOut
<1>1. ASSUME phase = "run"
      PROVE  pc \in DOMAIN code /\ tyCheck(code[pc].inp, ws, FALSE)
  <2>1. code \in Seq(Instrs)
    BY ONLY <1>1, TypesInv, RunFacts
  <2>2. PICK T : /\ ws \in Seq(Types) /\ Flows(T, ws, pc) /\ T[pc] \in Seq(Types)
                 /\ pc \in 1..Len(code) /\ TypedAt(T, code[pc], fn.out, pc)
    BY ONLY <1>1, TypesInv, RunFacts
  <2>3. pc \in DOMAIN code
    BY ONLY <2>1, <2>2
  <2>4. PICK ins \in Instrs : ins = code[pc]
    BY ONLY <2>1, <2>2, ElementOfSeq
  <2>5. PICK r \in Seq(Types) : r = ins.inp
    BY ONLY ins \in Instrs DEF Instrs
  <2>6. PICK t \in Seq(Types) : t = T[pc]
    BY ONLY <2>2
  <2>7. PICK w : w = ws
    OBVIOUS
  <2>8. /\ tyCheck(r, t, FALSE) /\ tyCheck(t, w, TRUE) /\ w \in Seq(Types)
        /\ FALSE \in BOOLEAN
    BY ONLY <2>2, <2>4, <2>5, <2>6, <2>7 DEF TypedAt, Flows
  <2>9. tyCheck(r, w, FALSE)
    BY ONLY <2>8, KeepsRules, r \in Seq(Types), t \in Seq(Types), CheckThrough
  <2>. QED
    BY ONLY <2>3, <2>4, <2>5, <2>7, <2>9
<1>2. ReturnsOut
  BY DEF TypesInv, ReturnsOut
<1>. QED
  BY ONLY <1>1, <1>2 DEF NeverFallsOff, OperandsMatch

LEMMA TypesInvariant ==
  ASSUME KeepsRules
  PROVE  Spec => []TypesInv
BY TypesInit, TypesStep, PTL DEF Spec

(***************************************************************************)
(* For every source program that keeps the five Rules, and types among     *)
(* which accepting is a preorder: a function that the compiler accepts,    *)
(* however its ifs, blks, breaks, conts and rets are nested, runs off the  *)
(* end of its code on no path.                                             *)
(***************************************************************************)
THEOREM StaysInCode ==
  ASSUME KeepsRules
  PROVE  Spec => []NeverFallsOff
BY TypesInvariant, TypesRun, PTL

(***************************************************************************)
(* And no instruction of it finds values of types it does not take, on any *)
(* path through its branches and loops, from any stack that its signature  *)
(* accepts.                                                                *)
(***************************************************************************)
THEOREM OperandsTyped ==
  ASSUME KeepsRules
  PROVE  Spec => []OperandsMatch
BY TypesInvariant, TypesRun, PTL

(***************************************************************************)
(* And whichever `ret' it leaves by, the stack is what its signature says. *)
(***************************************************************************)
THEOREM ReturnTyped ==
  ASSUME KeepsRules
  PROVE  Spec => []ReturnsOut
BY TypesInvariant, TypesRun, PTL
=============================================================================
