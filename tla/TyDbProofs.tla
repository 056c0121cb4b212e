----------------------------- MODULE TyDbProofs -----------------------------
(***************************************************************************)
(* What each operation of TyDb.tla does to the layout of the arena (given  *)
(* snapshots that fill it in order, it leaves snapshots that fill it in    *)
(* order, and every snapshot it covers as it was), which FlowProofs needs  *)
(* too; and, from it, that no sequence of operations of TyDbClient, with   *)
(* panics and clean-ups in between, ever frees a node out of its turn.     *)
(***************************************************************************)
EXTENDS TyDbClient, SequenceTheorems, TLAPS

(* What every operation expects and keeps, the number of snapshots apart.  *)
Good(d, base) ==
  /\ d \in DB
  /\ Len(d.tyIs) = Len(d.done)
  /\ Len(d.tyIs) <= Depth
  /\ base \in Nat
  /\ d.bump <= ArenaCap
  /\ d.err # "free"
  /\ Packed(d, base)

(***************************************************************************)
(* The layout depends on the snapshots and the bump pointer alone.         *)
(***************************************************************************)
LEMMA SamePacked ==
  ASSUME NEW d, NEW e, NEW base, Packed(d, base),
         e.tyIs = d.tyIs, e.bump = d.bump
  PROVE  Packed(e, base)
BY DEF Packed, Laid

(***************************************************************************)
(* A panic leaves everything but the error where it is.                    *)
(***************************************************************************)
LEMMA FailGood ==
  ASSUME NEW d, NEW base, Good(d, base), NEW x \in Errors, x # "free"
  PROVE  /\ Good(Fail(d, x), base)
         /\ ~Ok(Fail(d, x))
         /\ Fail(d, x).tyIs = d.tyIs
         /\ Fail(d, x).done = d.done
<1>. DEFINE e == Fail(d, x)
<1>1. d \in DB
  BY DEF Good
<1>2. /\ e \in DB
      /\ e.tyIs = d.tyIs
      /\ e.done = d.done
      /\ e.bump = d.bump
      /\ e.err = x
  BY <1>1 DEF Fail, DB, Errors
<1>3. x # "ok"
  BY DEF Errors
<1>. HIDE DEF e
<1>4. Packed(e, base)
  BY <1>2, SamePacked DEF Good
<1>5. Good(e, base) /\ ~Ok(e)
  BY <1>2, <1>3, <1>4 DEF Good, Ok
<1>. QED
  BY <1>2, <1>5 DEF e

(***************************************************************************)
(* TyDb_new adds one snapshot, without a node, or fails for want of depth. *)
(***************************************************************************)
LEMMA NewGood ==
  ASSUME NEW d, NEW base, Good(d, base)
  PROVE  /\ Good(TyDb_new(d), base)
         /\ Len(TyDb_new(d).tyIs) >= Len(d.tyIs)
         /\ Ok(TyDb_new(d)) => Len(TyDb_new(d).tyIs) = Len(d.tyIs) + 1
         /\ ~Ok(TyDb_new(d)) => Len(TyDb_new(d).tyIs) = Len(d.tyIs)
         /\ \A i \in 1..Len(d.tyIs) : /\ TyDb_new(d).tyIs[i] = d.tyIs[i]
                                      /\ TyDb_new(d).done[i] = d.done[i]
<1>. DEFINE e == TyDb_new(d)
<1>0. d \in DB /\ d.tyIs \in Seq(Seq(Node)) /\ d.done \in Seq(HowDone)
  BY DEF Good, DB
<1>1. CASE ~Ok(d)
  <2>1. e = d
    BY <1>1 DEF TyDb_new
  <2>. QED
    BY <2>1, <1>0, <1>1
<1>2. CASE Ok(d) /\ Len(d.tyIs) >= Depth
  <2>1. e = Fail(d, "depth")
    BY <1>2 DEF TyDb_new
  <2>2. "depth" \in Errors /\ "depth" # "free"
    BY DEF Errors
  <2>3. Good(e, base) /\ ~Ok(e) /\ e.tyIs = d.tyIs /\ e.done = d.done
    BY <2>1, <2>2, FailGood
  <2>. QED
    BY <2>3, <1>0
<1>3. CASE Ok(d) /\ ~(Len(d.tyIs) >= Depth)
  <2>. DEFINE t == Append(d.tyIs, << >>)
              u == Append(d.done, NOT_DONE)
  <2>1. e = [d EXCEPT !.tyIs = t, !.done = u]
    BY <1>3 DEF TyDb_new
  <2>2. << >> \in Seq(Node) /\ NOT_DONE \in HowDone
    BY EmptySeq DEF HowDone
  <2>3. t \in Seq(Seq(Node)) /\ u \in Seq(HowDone)
    BY <2>2, <1>0, AppendProperties
  <2>. HIDE DEF e, t, u
  <2>4. e \in DB /\ e.tyIs = t /\ e.done = u /\ e.bump = d.bump /\ e.err = d.err
    BY <2>1, <2>3, <1>0 DEF DB
  <2>5. /\ Len(e.tyIs) = Len(d.tyIs) + 1
        /\ Len(e.done) = Len(d.done) + 1
        /\ \A i \in 1..Len(d.tyIs) : e.tyIs[i] = d.tyIs[i]
        /\ e.tyIs[Len(d.tyIs) + 1] = << >>
    BY <2>2, <2>4, <1>0, AppendProperties DEF t, u
  <2>6. Packed(e, base)
    <3>1. PICK lo \in [1..Len(d.tyIs) + 1 -> 0..ArenaCap] : Laid(d, base, lo)
      BY DEF Good, Packed
    <3>. DEFINE n  == Len(d.tyIs)
                up == [i \in 1..n + 2 |-> IF i <= n + 1 THEN lo[i] ELSE lo[n + 1]]
    <3>2. n \in Nat
      BY <1>0
    <3>3. up \in [1..Len(e.tyIs) + 1 -> 0..ArenaCap]
      BY <3>2, <2>5
    <3>4. /\ \A i \in 1..n + 1 : up[i] = lo[i]
          /\ up[n + 2] = lo[n + 1]
      BY <3>2
    <3>. HIDE DEF up
    <3>5. \A i \in 1..n : up[i + 1] = up[i] + Len(e.tyIs[i])
      <4>. SUFFICES ASSUME NEW i \in 1..n PROVE up[i + 1] = up[i] + Len(e.tyIs[i])
        OBVIOUS
      <4>1. i \in 1..n + 1 /\ i + 1 \in 1..n + 1
        BY <3>2
      <4>2. lo[i + 1] = lo[i] + Len(d.tyIs[i])
        BY <3>1 DEF Laid
      <4>3. e.tyIs[i] = d.tyIs[i]
        BY <2>5
      <4>. QED
        BY <4>1, <4>2, <4>3, <3>4
    <3>6. \A i \in 1..n : \A j \in 1..Len(e.tyIs[i]) : e.tyIs[i][j].adr = up[i] + j
      <4>. SUFFICES ASSUME NEW i \in 1..n
                    PROVE  \A j \in 1..Len(e.tyIs[i]) : e.tyIs[i][j].adr = up[i] + j
        OBVIOUS
      <4>1. i \in 1..n + 1
        BY <3>2
      <4>2. \A j \in 1..Len(d.tyIs[i]) : d.tyIs[i][j].adr = lo[i] + j
        BY <3>1 DEF Laid
      <4>3. e.tyIs[i] = d.tyIs[i]
        BY <2>5
      <4>. QED
        BY <4>1, <4>2, <4>3, <3>4
    <3>7. up[n + 2] = up[n + 1] + Len(e.tyIs[n + 1])
      BY <3>1, <3>2, <3>4, <2>5
    <3>8. \A j \in 1..Len(e.tyIs[n + 1]) : e.tyIs[n + 1][j].adr = up[n + 1] + j
      BY <2>5
    <3>9. up[1] = base /\ up[Len(e.tyIs) + 1] = e.bump
      BY <3>1, <3>2, <3>4, <2>4, <2>5 DEF Laid
    <3>10. \A i \in 1..Len(e.tyIs) : i \in 1..n \/ i = n + 1
      BY <3>2, <2>5
    <3>11. Laid(e, base, up)
      BY <3>2, <3>5, <3>6, <3>7, <3>8, <3>9, <3>10, SMTT(30) DEF Laid
    <3>. QED
      BY <3>3, <3>11 DEF Packed
  <2>7. Good(e, base)
    BY <2>4, <2>5, <2>6, <1>0, <1>3, DepthAssumption DEF Good
  <2>8. \A i \in 1..Len(d.tyIs) : e.done[i] = d.done[i]
    <3>1. Len(d.done) = Len(d.tyIs)
      BY DEF Good
    <3>. QED
      BY <3>1, <2>2, <2>4, <1>0, AppendProperties DEF u
  <2>9. Ok(e)
    BY <2>4, <1>3 DEF Ok
  <2>. QED
    BY <2>5, <2>7, <2>8, <2>9, <1>0 DEF e
<1>. QED
  BY <1>1, <1>2, <1>3

(***************************************************************************)
(* Freeing n of the top snapshot's nodes never finds one out of its turn,  *)
(* so it cannot fail, and it leaves the snapshots below alone.             *)
(***************************************************************************)
LEMMA FreeGood ==
  ASSUME NEW d, NEW base, Good(d, base), Len(d.tyIs) >= 1,
         NEW n \in 0..Len(TyDb_top(d))
  PROVE  /\ Good(TyDb_free(d, n), base)
         /\ TyDb_free(d, n).err = d.err
         /\ TyDb_free(d, n).unty = d.unty
         /\ Len(TyDb_free(d, n).tyIs) = Len(d.tyIs)
         /\ \A i \in 1..Len(d.tyIs) - 1 : TyDb_free(d, n).tyIs[i] = d.tyIs[i]
         /\ TyDb_free(d, n).done = d.done
         /\ Ok(d) => TyDb_top(TyDb_free(d, n))
                       = SubSeq(TyDb_top(d), 1, Len(TyDb_top(d)) - n)
<1>. DEFINE e == TyDb_free(d, n)
            L == Len(d.tyIs)
            s == TyDb_top(d)
            l == Len(s)
<1>0. d \in DB /\ d.tyIs \in Seq(Seq(Node)) /\ d.done \in Seq(HowDone) /\ d.bump \in Nat
  BY DEF Good, DB
<1>1. /\ L \in Nat \ {0} /\ s \in Seq(Node) /\ l \in Nat /\ n \in Nat /\ n <= l
      /\ s = d.tyIs[L] /\ L = Len(d.tyIs) /\ l = Len(s) /\ s = TyDb_top(d)
  BY <1>0, ElementOfSeq DEF TyDb_top
<1>2. PICK lo \in [1..L + 1 -> 0..ArenaCap] : Laid(d, base, lo)
  BY DEF Good, Packed
<1>. HIDE DEF L, s, l
<1>3. /\ lo[1] = base
      /\ lo[L + 1] = d.bump
      /\ \A i \in 1..L : lo[i + 1] = lo[i] + Len(d.tyIs[i])
      /\ \A i \in 1..L : \A j \in 1..Len(d.tyIs[i]) : d.tyIs[i][j].adr = lo[i] + j
  BY <1>1, <1>2 DEF Laid
<1>. DEFINE p == lo[L]
<1>4. p \in Nat /\ d.bump = p + l
  BY <1>1, <1>2, <1>3, ArenaAssumption, SMTT(30)
<1>5. \A j \in 1..l : s[j].adr = p + j
  BY <1>1, <1>3, SMTT(30)
<1>. HIDE DEF p
<1>6. ~(\E k \in 0..n-1 : s[l - k].adr # d.bump - k)
  <2>1. SUFFICES ASSUME NEW k \in 0..n-1
                 PROVE  s[l - k].adr = d.bump - k
    OBVIOUS
  <2>2. l - k \in 1..l
    BY <1>1
  <2>3. s[l - k].adr = p + (l - k)
    BY <2>2, <1>5
  <2>4. d.bump - k = p + (l - k)
    BY <1>1, <1>4, SMTT(30)
  <2>. QED
    BY <2>3, <2>4
<1>7. CASE ~Ok(d)
  <2>1. e = d
    BY <1>7 DEF TyDb_free
  <2>. QED
    BY <2>1, <1>7
<1>8. CASE Ok(d)
  <2>. DEFINE r == SubSeq(s, 1, l - n)
              t == [d.tyIs EXCEPT ![L] = r]
              b == d.bump - n
  <2>1. e = [d EXCEPT !.tyIs = t, !.bump = b]
    BY <1>1, <1>6, <1>8 DEF TyDb_free
  <2>2. /\ r \in Seq(Node)
        /\ Len(r) = l - n
        /\ \A j \in 1..l - n : r[j] = s[j]
    BY <1>1, SubSeqProperties
  <2>. HIDE DEF r
  <2>3. /\ t \in Seq(Seq(Node))
        /\ Len(t) = L
        /\ t[L] = r
        /\ \A i \in 1..L : i # L => t[i] = d.tyIs[i]
    BY <1>0, <1>1, <2>2, ExceptSeq
  <2>4. b \in Nat /\ b = p + (l - n) /\ b <= d.bump
    BY <1>1, <1>4
  <2>. HIDE DEF e, t, b
  <2>5. /\ e \in DB
        /\ e.tyIs = t /\ e.done = d.done /\ e.bump = b
        /\ e.err = d.err /\ e.unty = d.unty
    BY <2>1, <2>3, <2>4, <1>0 DEF DB
  <2>6. Packed(e, base)
    <3>. DEFINE up == [lo EXCEPT ![L + 1] = b]
    <3>1. /\ up \in [1..L + 1 -> 0..ArenaCap]
          /\ \A i \in 1..L : up[i] = lo[i]
          /\ up[L + 1] = b
          /\ up[L] = p
      <4>1. b \in 0..ArenaCap
        BY <2>4, <1>0, ArenaAssumption DEF Good
      <4>. QED
        BY <4>1, <1>1 DEF p
    <3>. HIDE DEF up
    <3>2. \A i \in 1..L : i # L => up[i + 1] = up[i] + Len(t[i])
      <4>. SUFFICES ASSUME NEW i \in 1..L, i # L
                    PROVE  up[i + 1] = up[i] + Len(t[i])
        OBVIOUS
      <4>1. i + 1 \in 1..L
        BY <1>1
      <4>2. lo[i + 1] = lo[i] + Len(d.tyIs[i]) /\ t[i] = d.tyIs[i]
        BY <1>3, <2>3
      <4>. QED
        BY <4>1, <4>2, <3>1
    <3>3. up[L + 1] = up[L] + Len(t[L])
      BY <1>1, <2>2, <2>3, <2>4, <3>1
    <3>4. \A i \in 1..L : i # L => \A j \in 1..Len(t[i]) : t[i][j].adr = up[i] + j
      BY <1>1, <1>3, <2>3, <3>1, SMTT(30)
    <3>5. \A j \in 1..Len(t[L]) : t[L][j].adr = up[L] + j
      <4>1. \A j \in 1..l - n : j \in 1..l /\ r[j].adr = p + j
        <5>1. TAKE j \in 1..l - n
        <5>2. j \in 1..l
          BY <1>1
        <5>3. r[j] = s[j]
          BY <2>2
        <5>. QED
          BY <1>5, <5>2, <5>3
      <4>. QED
        BY <4>1, <2>2, <2>3, <3>1
    <3>6. up[1] = base
      BY <1>1, <1>3, <3>1
    <3>7. Laid(e, base, up)
      BY <1>1, <2>3, <2>5, <3>1, <3>2, <3>3, <3>4, <3>5, <3>6 DEF Laid
    <3>. QED
      BY <2>3, <2>5, <3>1, <3>7 DEF Packed
  <2>7. Good(e, base)
    <3>1. b <= ArenaCap
      BY <2>4, <1>0, ArenaAssumption DEF Good
    <3>. QED
      BY <3>1, <2>3, <2>5, <2>6, <1>1 DEF Good
  <2>8. TyDb_top(e) = r
    BY <2>3, <2>5 DEF TyDb_top
  <2>. QED
    BY <1>1, <2>3, <2>5, <2>7, <2>8 DEF e, r
<1>. QED
  BY <1>7, <1>8

(***************************************************************************)
(* Cloning a stream onto the top snapshot takes the next nodes of the      *)
(* arena, as many as there are, and touches no other snapshot.             *)
(***************************************************************************)
LEMMA CloneGood ==
  ASSUME NEW d, NEW base, Good(d, base), Len(d.tyIs) >= 1,
         NEW tys \in Seq(Types)
  PROVE  /\ Good(TyI_cloneAdd(d, tys), base)
         /\ Len(TyI_cloneAdd(d, tys).tyIs) = Len(d.tyIs)
         /\ \A i \in 1..Len(d.tyIs) - 1 : TyI_cloneAdd(d, tys).tyIs[i] = d.tyIs[i]
         /\ TyI_cloneAdd(d, tys).done = d.done
<1>. DEFINE e == TyI_cloneAdd(d, tys)
            L == Len(d.tyIs)
            s == TyDb_top(d)
            l == Len(s)
            n == IF Len(tys) <= ArenaCap - d.bump THEN Len(tys) ELSE ArenaCap - d.bump
            c == [j \in 1..n |-> [ty |-> tys[j], adr |-> d.bump + j]]
<1>0. d \in DB /\ d.tyIs \in Seq(Seq(Node)) /\ d.done \in Seq(HowDone) /\ d.bump \in Nat
  BY DEF Good, DB
<1>1. /\ L \in Nat \ {0} /\ s \in Seq(Node) /\ l \in Nat
      /\ s = d.tyIs[L] /\ L = Len(d.tyIs) /\ l = Len(s) /\ s = TyDb_top(d)
  BY <1>0, ElementOfSeq DEF TyDb_top
<1>2. n \in Nat /\ n <= Len(tys) /\ d.bump + n <= ArenaCap /\ Len(tys) \in Nat
  BY <1>0, ArenaAssumption DEF Good
<1>3. CASE ~Ok(d)
  <2>1. e = d
    BY <1>3 DEF TyI_cloneAdd
  <2>. QED
    BY <2>1
<1>4. CASE Ok(d)
  <2>. DEFINE r == s \o c
              t == [d.tyIs EXCEPT ![L] = r]
              b == d.bump + n
              x == IF n < Len(tys) THEN "oom" ELSE d.err
  <2>1. e = [d EXCEPT !.tyIs = t, !.bump = b, !.err = x]
    BY <1>4 DEF TyI_cloneAdd, TyDb_top
  <2>. HIDE DEF L, s, l, n
  <2>2. c \in Seq(Node) /\ Len(c) = n /\ \A j \in 1..n : c[j].adr = d.bump + j
    <3>1. \A j \in 1..n : [ty |-> tys[j], adr |-> d.bump + j] \in Node
      BY <1>0, <1>2 DEF Node
    <3>2. c \in [1..n -> Node]
      BY <3>1
    <3>. QED
      BY <3>2, <1>2, SeqDef
  <2>. HIDE DEF c
  <2>3. /\ r \in Seq(Node)
        /\ Len(r) = l + n
        /\ \A j \in 1..l : r[j] = s[j]
        /\ \A j \in 1..n : r[l + j] = c[j]
    <3>1. /\ s \o c \in Seq(Node)
          /\ Len(s \o c) = l + n
          /\ \A j \in 1..l + n : (s \o c)[j] = IF j <= l THEN s[j] ELSE c[j - l]
      <4>1. s \in Seq(Node) /\ c \in Seq(Node) /\ Len(s) = l /\ Len(c) = n
        BY <1>1, <2>2
      <4>. HIDE DEF r, t, b, x, e
      <4>. QED
        BY <4>1, ConcatProperties, ZenonT(60)
    <3>2. \A j \in 1..l : j \in 1..l + n /\ j <= l
      BY <1>1, <1>2
    <3>3. \A j \in 1..n : l + j \in 1..l + n /\ ~(l + j <= l) /\ (l + j) - l = j
      BY <1>1, <1>2
    <3>. QED
      BY <3>1, <3>2, <3>3
  <2>. HIDE DEF r
  <2>4. /\ t \in Seq(Seq(Node))
        /\ Len(t) = L
        /\ t[L] = r
        /\ \A i \in 1..L : i # L => t[i] = d.tyIs[i]
    BY <1>0, <1>1, <2>3, ExceptSeq
  <2>5. b \in Nat /\ b <= ArenaCap /\ x \in Errors \union {"ok"} /\ x # "free"
    BY <1>0, <1>2 DEF Errors, Good, DB
  <2>6. b = d.bump + n
    OBVIOUS
  <2>. HIDE DEF e, t, b, x
  <2>7. /\ e \in DB
        /\ e.tyIs = t /\ e.done = d.done /\ e.bump = b /\ e.err = x
    BY <2>1, <2>4, <2>5, <1>0 DEF DB
  <2>8. Packed(e, base)
    <3>1. PICK lo \in [1..L + 1 -> 0..ArenaCap] : Laid(d, base, lo)
      BY <1>1 DEF Good, Packed
    <3>2. /\ lo[1] = base
          /\ lo[L + 1] = d.bump
          /\ \A i \in 1..L : lo[i + 1] = lo[i] + Len(d.tyIs[i])
          /\ \A i \in 1..L : \A j \in 1..Len(d.tyIs[i]) : d.tyIs[i][j].adr = lo[i] + j
      BY <1>1, <3>1 DEF Laid
    <3>. DEFINE p  == lo[L]
                up == [lo EXCEPT ![L + 1] = b]
    <3>3. p \in Nat /\ d.bump = p + l
      <4>1. L \in 1..L /\ L \in 1..L + 1
        BY <1>1
      <4>2. lo[L + 1] = lo[L] + Len(d.tyIs[L])
        BY <4>1, <3>2
      <4>3. lo[L] \in Nat
        BY <4>1, <3>1, ArenaAssumption
      <4>. QED
        BY <4>2, <4>3, <3>2, <1>1
    <3>4. \A j \in 1..l : s[j].adr = p + j
      <4>1. L \in 1..L
        BY <1>1
      <4>2. \A j \in 1..Len(d.tyIs[L]) : d.tyIs[L][j].adr = lo[L] + j
        BY <4>1, <3>2
      <4>. QED
        BY <4>2, <1>1
    <3>5. /\ up \in [1..L + 1 -> 0..ArenaCap]
          /\ \A i \in 1..L : up[i] = lo[i]
          /\ up[L + 1] = b
          /\ up[L] = p
      <4>1. b \in 0..ArenaCap
        BY <2>5, ArenaAssumption
      <4>. QED
        BY <4>1, <1>1
    <3>. HIDE DEF p, up
    <3>6. \A i \in 1..L : i # L => up[i + 1] = up[i] + Len(t[i])
      <4>. SUFFICES ASSUME NEW i \in 1..L, i # L
                    PROVE  up[i + 1] = up[i] + Len(t[i])
        OBVIOUS
      <4>1. i + 1 \in 1..L
        BY <1>1
      <4>2. lo[i + 1] = lo[i] + Len(d.tyIs[i]) /\ t[i] = d.tyIs[i]
        BY <3>2, <2>4
      <4>. QED
        BY <4>1, <4>2, <3>5
    <3>7. up[L + 1] = up[L] + Len(t[L])
      <4>0. l \in Nat /\ n \in Nat
        BY <1>1, <1>2
      <4>1. b = p + (l + n)
        BY <4>0, <2>6, <3>3
      <4>. QED
        BY <4>1, <2>3, <2>4, <3>5
    <3>8. \A i \in 1..L : i # L => \A j \in 1..Len(t[i]) : t[i][j].adr = up[i] + j
      BY <1>1, <3>2, <2>4, <3>5, ZenonT(60)
    <3>9. \A j \in 1..Len(t[L]) : t[L][j].adr = up[L] + j
      <4>1. SUFFICES ASSUME NEW j \in 1..l + n
                     PROVE  r[j].adr = p + j
        BY <2>3, <2>4, <3>5
      <4>2. CASE j <= l
        <5>1. j \in 1..l /\ r[j] = s[j]
          BY <4>2, <1>1, <2>3
        <5>. QED
          BY <5>1, <3>4
      <4>3. CASE ~(j <= l)
        <5>1. j - l \in 1..n /\ l + (j - l) = j
          BY <4>3, <1>1, <1>2
        <5>2. r[j] = c[j - l]
          BY <5>1, <2>3
        <5>3. c[j - l].adr = d.bump + (j - l)
          BY <5>1, <2>2
        <5>4. d.bump + (j - l) = p + j
          BY <3>3, <1>1, <1>2
        <5>. QED
          BY <5>2, <5>3, <5>4
      <4>. QED
        BY <4>2, <4>3
    <3>10. up[1] = base
      BY <1>1, <3>2, <3>5
    <3>11. Laid(e, base, up)
      BY <1>1, <2>4, <2>7, <3>5, <3>6, <3>7, <3>8, <3>9, <3>10 DEF Laid
    <3>. QED
      BY <2>4, <2>7, <3>5, <3>11 DEF Packed
  <2>9. Good(e, base)
    BY <1>1, <2>4, <2>5, <2>7, <2>8 DEF Good
  <2>. QED
    BY <1>1, <2>4, <2>7, <2>9 DEF e
<1>. QED
  BY <1>3, <1>4

(***************************************************************************)
(* Dropping a snapshot frees its nodes and pops both stacks.               *)
(***************************************************************************)
LEMMA DropGood ==
  ASSUME NEW d, NEW base, Good(d, base), Len(d.tyIs) >= 1
  PROVE  /\ Good(TyDb_drop(d), base)
         /\ TyDb_drop(d).err = d.err
         /\ Ok(d) => /\ Len(TyDb_drop(d).tyIs) = Len(d.tyIs) - 1
                     /\ \A i \in 1..Len(d.tyIs) - 1 :
                          /\ TyDb_drop(d).tyIs[i] = d.tyIs[i]
                          /\ TyDb_drop(d).done[i] = d.done[i]
         /\ ~Ok(d) => TyDb_drop(d) = d
<1>. DEFINE e == TyDb_drop(d)
            s == TyDb_top(d)
            f == TyDb_free(d, Len(s))
            L == Len(d.tyIs)
<1>0. d \in DB /\ d.tyIs \in Seq(Seq(Node)) /\ d.done \in Seq(HowDone)
  BY DEF Good, DB
<1>1. /\ L \in Nat \ {0} /\ s \in Seq(Node) /\ L = Len(d.tyIs) /\ L = Len(d.done)
      /\ Len(s) \in Nat /\ s = TyDb_top(d) /\ Len(s) = Len(TyDb_top(d))
  BY <1>0, ElementOfSeq DEF TyDb_top, Good
<1>2. Len(s) \in 0..Len(TyDb_top(d))
  BY <1>1
<1>3. /\ Good(f, base) /\ f.err = d.err /\ Len(f.tyIs) = L
      /\ f.done = d.done
      /\ \A i \in 1..L - 1 : f.tyIs[i] = d.tyIs[i]
      /\ Ok(d) => TyDb_top(f) = SubSeq(s, 1, Len(s) - Len(s))
  BY <1>1, <1>2, FreeGood
<1>. HIDE DEF s, L, f
<1>4. CASE ~Ok(d)
  <2>1. e = d
    BY <1>4, ZenonT(60) DEF TyDb_drop, TyDb_free
  <2>. QED
    BY <2>1, <1>4
<1>5. CASE Ok(d)
  <2>0. /\ f \in DB /\ f.tyIs \in Seq(Seq(Node)) /\ f.done \in Seq(HowDone)
        /\ Ok(f)
    BY <1>3, <1>5 DEF Good, DB, Ok
  <2>. DEFINE t == SubSeq(f.tyIs, 1, L - 1)
              u == SubSeq(f.done, 1, L - 1)
  <2>1. e = [f EXCEPT !.tyIs = t, !.done = u]
    BY <2>0, <1>1, <1>3 DEF TyDb_drop, s, f
  <2>2. /\ t \in Seq(Seq(Node)) /\ u \in Seq(HowDone)
        /\ Len(t) = L - 1 /\ Len(u) = L - 1
        /\ \A i \in 1..L - 1 : t[i] = f.tyIs[i]
        /\ \A i \in 1..L - 1 : u[i] = f.done[i]
    <3>1. \A i \in 1..L - 1 : f.tyIs[i] \in Seq(Node) /\ f.done[i] \in HowDone
      BY <2>0, <1>1, <1>3, ElementOfSeq
    <3>. QED
      BY <3>1, <1>1, SubSeqProperties
  <2>3. TyDb_top(f) = << >>
    BY <1>1, <1>3, <1>5, SubSeqEmpty
  <2>. HIDE DEF e, t, u
  <2>4. e \in DB /\ e.tyIs = t /\ e.done = u /\ e.bump = f.bump /\ e.err = f.err
    BY <2>0, <2>1, <2>2 DEF DB
  <2>5. Packed(e, base)
    <3>1. PICK lo \in [1..L + 1 -> 0..ArenaCap] : Laid(f, base, lo)
      BY <1>3 DEF Good, Packed
    <3>2. /\ lo[1] = base
          /\ lo[L + 1] = f.bump
          /\ \A i \in 1..L : lo[i + 1] = lo[i] + Len(f.tyIs[i])
          /\ \A i \in 1..L : \A j \in 1..Len(f.tyIs[i]) : f.tyIs[i][j].adr = lo[i] + j
      BY <1>3, <3>1 DEF Laid
    <3>3. lo[L] = f.bump
      <4>1. Len(f.tyIs[L]) = 0
        BY <1>3, <2>3 DEF TyDb_top
      <4>2. lo[L] \in Nat /\ lo[L + 1] = lo[L] + Len(f.tyIs[L])
        <5>1. L \in 1..L /\ L \in 1..L + 1
          BY <1>1
        <5>. QED
          BY <5>1, <3>1, <3>2, ArenaAssumption
      <4>. QED
        BY <4>1, <4>2, <3>2
    <3>. DEFINE up == [i \in 1..L |-> lo[i]]
    <3>4. up \in [1..L -> 0..ArenaCap] /\ \A i \in 1..L : up[i] = lo[i]
      BY <1>1, <3>1
    <3>. HIDE DEF up
    <3>5. \A i \in 1..L - 1 : up[i + 1] = up[i] + Len(t[i])
      BY <1>1, <2>2, <3>2, <3>4, SMTT(30)
    <3>6. \A i \in 1..L - 1 : \A j \in 1..Len(t[i]) : t[i][j].adr = up[i] + j
      <4>1. TAKE i \in 1..L - 1
      <4>0. i \in 1..L
        BY <1>1
      <4>2. i \in 1..L /\ up[i] = lo[i] /\ t[i] = f.tyIs[i]
        BY <4>0, <4>1, <2>2, <3>4
      <4>. QED
        BY <4>2, <3>2
    <3>7. Len(t) + 1 = L
      BY <1>1, <2>2
    <3>8. Laid(e, base, up)
      BY <1>1, <2>2, <2>4, <3>2, <3>3, <3>4, <3>5, <3>6, <3>7 DEF Laid
    <3>. QED
      BY <2>4, <3>4, <3>7, <3>8 DEF Packed
  <2>6. Good(e, base)
    <3>1. L <= Depth /\ base \in Nat
      BY <1>1 DEF Good
    <3>2. L - 1 <= Depth
      BY <3>1, <1>1, DepthAssumption
    <3>. QED
      BY <3>1, <3>2, <1>3, <2>2, <2>4, <2>5 DEF Good
  <2>. QED
    BY <1>1, <1>3, <1>5, <2>2, <2>4, <2>6 DEF e
<1>. QED
  BY <1>4, <1>5

-----------------------------------------------------------------------------
(***************************************************************************)
(* What one operation of a handler may do: keep the layout and at least    *)
(* one snapshot, and leave the covered snapshots alone.                    *)
(***************************************************************************)
Sound(d, e, base) == Good(e, base) /\ Len(e.tyIs) >= 1 /\ CoveredSame(d, e)

(* The facts about a good database that every operation starts from.       *)
LEMMA GoodFacts ==
  ASSUME NEW d, NEW base, Good(d, base), Len(d.tyIs) >= 1
  PROVE  /\ d \in DB /\ d.tyIs \in Seq(Seq(Node)) /\ d.done \in Seq(HowDone)
         /\ Len(d.tyIs) \in Nat \ {0} /\ Len(d.done) = Len(d.tyIs)
         /\ TyDb_top(d) \in Seq(Node) /\ Len(TyDb_top(d)) \in Nat
<1>1. d \in DB /\ d.tyIs \in Seq(Seq(Node)) /\ d.done \in Seq(HowDone)
  BY DEF Good, DB
<1>2. Len(d.tyIs) \in Nat \ {0} /\ Len(d.done) = Len(d.tyIs)
  BY <1>1 DEF Good
<1>3. d.tyIs[Len(d.tyIs)] \in Seq(Node)
  BY <1>1, <1>2, ElementOfSeq
<1>. QED
  BY <1>1, <1>2, <1>3 DEF TyDb_top

LEMMA TypesOfSeq ==
  ASSUME NEW s \in Seq(Node)
  PROVE  TypesOf(s) \in Seq(Types) /\ Len(TypesOf(s)) = Len(s)
<1>1. Len(s) \in Nat /\ \A i \in 1..Len(s) : s[i] \in Node
  BY ElementOfSeq
<1>2. \A i \in 1..Len(s) : s[i].ty \in Types
  BY <1>1 DEF Node
<1>3. TypesOf(s) \in [1..Len(s) -> Types]
  BY <1>2 DEF TypesOf
<1>. QED
  BY <1>1, <1>3, SeqDef DEF TypesOf

LEMMA SameSound ==
  ASSUME NEW d, NEW base, Good(d, base), Len(d.tyIs) >= 1
  PROVE  Sound(d, d, base)
BY DEF Sound, CoveredSame

LEMMA FailSound ==
  ASSUME NEW d, NEW base, Good(d, base), Len(d.tyIs) >= 1,
         NEW x \in Errors, x # "free"
  PROVE  Sound(d, Fail(d, x), base)
BY FailGood DEF Sound, CoveredSame

LEMMA NewSound ==
  ASSUME NEW d, NEW base, Good(d, base), Len(d.tyIs) >= 1
  PROVE  Sound(d, TyDb_new(d), base)
<1>. DEFINE e == TyDb_new(d)
<1>1. Good(e, base) /\ Len(e.tyIs) >= Len(d.tyIs)
  BY NewGood
<1>2. \A i \in 1..Len(d.tyIs) : e.tyIs[i] = d.tyIs[i] /\ e.done[i] = d.done[i]
  BY NewGood
<1>3. Len(d.tyIs) \in Nat /\ Len(e.tyIs) \in Nat
  BY <1>1, GoodFacts DEF Good, DB
<1>. QED
  BY <1>1, <1>2, <1>3 DEF Sound, CoveredSame

LEMMA DropSound ==
  ASSUME NEW d, NEW base, Good(d, base), Len(d.tyIs) > 1
  PROVE  Sound(d, TyDb_drop(d), base)
<1>. DEFINE e == TyDb_drop(d)
<1>0. Len(d.tyIs) \in Nat /\ Len(d.tyIs) >= 1
  BY DEF Good, DB
<1>1. CASE ~Ok(d)
  BY <1>0, <1>1, DropGood, SameSound
<1>2. CASE Ok(d)
  <2>1. Good(e, base) /\ Len(e.tyIs) = Len(d.tyIs) - 1
    BY <1>0, <1>2, DropGood
  <2>2. \A i \in 1..Len(d.tyIs) - 1 : e.tyIs[i] = d.tyIs[i] /\ e.done[i] = d.done[i]
    BY <1>0, <1>2, DropGood
  <2>. HIDE DEF e
  <2>3. CoveredSame(d, e)
    BY <1>0, <2>1, <2>2 DEF CoveredSame
  <2>. QED
    BY <1>0, <2>1, <2>3 DEF Sound, e
<1>. QED
  BY <1>1, <1>2

(***************************************************************************)
(* tyCall: the inputs that tyCheck let pass are there to be freed.         *)
(***************************************************************************)
LEMMA FreeCloneSound ==
  ASSUME NEW d, NEW base, Good(d, base), Len(d.tyIs) >= 1,
         NEW n \in 0..Len(TyDb_top(d)), NEW out \in Seq(Types)
  PROVE  Sound(d, TyI_cloneAdd(TyDb_free(d, n), out), base)
<1>. DEFINE f == TyDb_free(d, n)
            e == TyI_cloneAdd(f, out)
<1>1. /\ Good(f, base) /\ Len(f.tyIs) = Len(d.tyIs) /\ f.done = d.done
      /\ \A i \in 1..Len(d.tyIs) - 1 : f.tyIs[i] = d.tyIs[i]
  BY FreeGood
<1>2. Len(f.tyIs) >= 1
  BY <1>1
<1>. HIDE DEF f
<1>3. /\ Good(e, base) /\ Len(e.tyIs) = Len(f.tyIs) /\ e.done = f.done
      /\ \A i \in 1..Len(f.tyIs) - 1 : e.tyIs[i] = f.tyIs[i]
  BY <1>1, <1>2, CloneGood
<1>. HIDE DEF e
<1>4. Len(d.tyIs) \in Nat
  BY GoodFacts
<1>5. CoveredSame(d, e)
  BY <1>1, <1>3, <1>4 DEF CoveredSame
<1>6. Sound(d, e, base)
  BY <1>1, <1>3, <1>5 DEF Sound
<1>. QED
  BY <1>6 DEF e, f

LEMMA FlagSound ==
  ASSUME NEW d, NEW base, Good(d, base), Len(d.tyIs) >= 1, NEW how \in HowDone
  PROVE  Sound(d, [d EXCEPT !.done[Len(d.done)] = how], base)
<1>. DEFINE u == [d.done EXCEPT ![Len(d.done)] = how]
            e == [d EXCEPT !.done = u]
<1>0. /\ d \in DB /\ d.done \in Seq(HowDone) /\ d.tyIs \in Seq(Seq(Node))
      /\ Len(d.done) \in Nat \ {0} /\ Len(d.tyIs) = Len(d.done)
  BY GoodFacts
<1>1. /\ u \in Seq(HowDone) /\ Len(u) = Len(d.done)
      /\ \A i \in 1..Len(d.done) : i # Len(d.done) => u[i] = d.done[i]
  BY <1>0, ExceptSeq
<1>2. /\ e \in DB
      /\ e.tyIs = d.tyIs /\ e.done = u /\ e.bump = d.bump /\ e.err = d.err
  BY <1>0, <1>1 DEF DB
<1>3. e = [d EXCEPT !.done[Len(d.done)] = how]
  OBVIOUS
<1>. HIDE DEF e, u
<1>4. Packed(e, base)
  BY <1>2, SamePacked DEF Good
<1>5. Good(e, base)
  BY <1>0, <1>1, <1>2, <1>4 DEF Good
<1>6. CoveredSame(d, e)
  BY <1>0, <1>1, <1>2 DEF CoveredSame
<1>7. Sound(d, e, base)
  BY <1>0, <1>2, <1>5, <1>6 DEF Sound
<1>. QED
  BY <1>3, <1>7

LEMMA SetDoneSound ==
  ASSUME NEW d, NEW base, Good(d, base), Len(d.tyIs) >= 1, NEW how \in HowDone
  PROVE  Sound(d, TyDb_setDone(d, how), base)
<1>1. "redone" \in Errors /\ "redone" # "free"
  BY DEF Errors
<1>. QED
  BY <1>1, SameSound, FailSound, FlagSound DEF TyDb_setDone

LEMMA ClearDoneSound ==
  ASSUME NEW d, NEW base, Good(d, base), Len(d.tyIs) >= 1
  PROVE  Sound(d, TyDb_clearDone(d), base)
<1>1. NOT_DONE \in HowDone
  BY DEF HowDone
<1>. QED
  BY <1>1, SameSound, FlagSound DEF TyDb_clearDone

LEMMA CallSound ==
  ASSUME NEW d, NEW base, Good(d, base), Len(d.tyIs) >= 1,
         NEW inp \in Seq(Types), NEW out \in Seq(Types)
  PROVE  Sound(d, tyCall(d, inp, out), base)
<1>1. {"done", "type"} \subseteq Errors \ {"free"}
  BY DEF Errors
<1>2. ASSUME tyCheck(inp, TypesOf(TyDb_top(d)), FALSE)
      PROVE  Len(inp) \in 0..Len(TyDb_top(d))
  <2>1. Len(TypesOf(TyDb_top(d))) = Len(TyDb_top(d))
    BY GoodFacts, TypesOfSeq
  <2>2. Len(inp) <= Len(TypesOf(TyDb_top(d)))
    BY <1>2, <2>1, GoodFacts DEF tyCheck
  <2>. QED
    BY <2>1, <2>2, GoodFacts
<1>3. CASE ~Ok(d) \/ d.unty
  BY <1>3, SameSound DEF tyCall
<1>4. CASE ~(~Ok(d) \/ d.unty)
  <2>1. CASE TyDb_done(d) # NOT_DONE /\ (inp # << >> \/ out # << >>)
    BY <1>1, <1>4, <2>1, FailSound DEF tyCall
  <2>2. CASE /\ ~(TyDb_done(d) # NOT_DONE /\ (inp # << >> \/ out # << >>))
             /\ ~tyCheck(inp, TypesOf(TyDb_top(d)), FALSE)
    BY <1>1, <1>4, <2>2, FailSound DEF tyCall
  <2>3. CASE /\ ~(TyDb_done(d) # NOT_DONE /\ (inp # << >> \/ out # << >>))
             /\ tyCheck(inp, TypesOf(TyDb_top(d)), FALSE)
    <3>1. tyCall(d, inp, out) = TyI_cloneAdd(TyDb_free(d, Len(inp)), out)
      BY <1>4, <2>3 DEF tyCall
    <3>. QED
      BY <1>2, <2>3, <3>1, FreeCloneSound
  <2>. QED
    BY <2>1, <2>2, <2>3
<1>. QED
  BY <1>3, <1>4

LEMMA CallLen ==
  ASSUME NEW d, NEW base, Good(d, base), Len(d.tyIs) >= 1,
         NEW out \in Seq(Types)
  PROVE  Len(tyCall(d, << >>, out).tyIs) = Len(d.tyIs)
<1>1. Len(<< >>) \in 0..Len(TyDb_top(d)) /\ Len(<< >>) = 0
  BY GoodFacts
<1>. DEFINE f == TyDb_free(d, 0)
<1>2. Good(f, base) /\ Len(f.tyIs) = Len(d.tyIs)
  BY <1>1, FreeGood
<1>. HIDE DEF f
<1>3. Len(TyI_cloneAdd(f, out).tyIs) = Len(d.tyIs)
  BY <1>2, CloneGood
<1>4. Fail(d, "done").tyIs = d.tyIs /\ Fail(d, "type").tyIs = d.tyIs
  BY FailGood DEF Errors
<1>. QED
  BY <1>1, <1>3, <1>4 DEF tyCall, f

LEMMA RetSound ==
  ASSUME NEW d, NEW base, Good(d, base), Len(d.tyIs) >= 1,
         NEW out \in Seq(Types), NEW how \in HowDone
  PROVE  Sound(d, tyRet(d, out, how), base)
<1>1. {"done", "type"} \subseteq Errors \ {"free"}
  BY DEF Errors
<1>. QED
  BY <1>1, SameSound, FailSound, SetDoneSound DEF tyRet

LEMMA CloneSound ==
  ASSUME NEW d, NEW base, Good(d, base), Len(d.tyIs) >= 1, NEW depth \in Nat
  PROVE  Sound(d, tyClone(d, depth), base)
<1>0. "index" \in Errors \ {"free"}
  BY DEF Errors
<1>1. CASE ~Ok(d) \/ d.unty
  BY <1>1, SameSound DEF tyClone
<1>2. CASE ~(~Ok(d) \/ d.unty) /\ depth >= Len(d.tyIs)
  BY <1>0, <1>2, FailSound DEF tyClone
<1>3. CASE ~(~Ok(d) \/ d.unty) /\ ~(depth >= Len(d.tyIs))
  <2>. DEFINE tys == TypesOf(TyDb_index(d, depth))
              f   == TyDb_new(d)
              e   == TyI_cloneAdd(f, tys)
  <2>1. tyClone(d, depth) = e
    BY <1>3 DEF tyClone
  <2>2. Len(d.tyIs) - depth \in 1..Len(d.tyIs)
    BY <1>3, GoodFacts
  <2>3. tys \in Seq(Types)
    BY <2>2, GoodFacts, ElementOfSeq, TypesOfSeq DEF TyDb_index
  <2>4. Sound(d, f, base)
    BY NewSound
  <2>5. \A i \in 1..Len(d.tyIs) : f.tyIs[i] = d.tyIs[i] /\ f.done[i] = d.done[i]
    BY NewGood
  <2>. HIDE DEF f, tys
  <2>6. /\ Good(e, base) /\ Len(e.tyIs) = Len(f.tyIs) /\ e.done = f.done
        /\ \A i \in 1..Len(f.tyIs) - 1 : e.tyIs[i] = f.tyIs[i]
    BY <2>3, <2>4, CloneGood DEF Sound
  <2>. HIDE DEF e
  <2>7. Len(f.tyIs) \in Nat \ {0} /\ Len(d.tyIs) \in Nat
    BY <2>4, GoodFacts DEF Sound
  <2>8. CoveredSame(d, e)
    BY <2>5, <2>6, <2>7 DEF CoveredSame
  <2>9. Sound(d, e, base)
    BY <2>6, <2>7, <2>8 DEF Sound
  <2>. QED
    BY <2>1, <2>9
<1>. QED
  BY <1>1, <1>2, <1>3

LEMMA MergeSound ==
  ASSUME NEW d, NEW base, Good(d, base), Len(d.tyIs) >= 1
  PROVE  Sound(d, tyMerge(d), base)
<1>0. {"alone", "type"} \subseteq Errors \ {"free"}
  BY DEF Errors
<1>1. Len(d.tyIs) \in Nat
  BY GoodFacts
<1>2. CASE ~Ok(d) \/ d.unty
  BY <1>2, SameSound DEF tyMerge
<1>3. CASE ~(~Ok(d) \/ d.unty) /\ Len(d.tyIs) <= 1
  BY <1>0, <1>3, FailSound DEF tyMerge
<1>4. CASE ~(~Ok(d) \/ d.unty) /\ ~(Len(d.tyIs) <= 1)
  <2>1. Sound(d, TyDb_drop(d), base)
    BY <1>1, <1>4, DropSound
  <2>2. Sound(d, Fail(d, "type"), base)
    BY <1>0, FailSound
  <2>. QED
    BY <1>4, <2>1, <2>2 DEF tyMerge
<1>. QED
  BY <1>2, <1>3, <1>4

LEMMA CastSound ==
  ASSUME NEW d, NEW base, Good(d, base), Len(d.tyIs) >= 1,
         TyDb_top(d) # << >>, NEW ty \in Types
  PROVE  Sound(d, tyCast(d, ty), base)
<1>1. CASE d.unty
  BY <1>1, SameSound DEF tyCast
<1>2. CASE ~d.unty
  <2>. DEFINE f == TyDb_free(d, 1)
              e == tyCall(f, << >>, <<ty>>)
  <2>1. tyCast(d, ty) = e
    BY <1>2 DEF tyCast
  <2>2. 1 \in 0..Len(TyDb_top(d))
    BY GoodFacts, EmptySeq
  <2>3. /\ Good(f, base) /\ Len(f.tyIs) = Len(d.tyIs) /\ f.done = d.done
        /\ \A i \in 1..Len(d.tyIs) - 1 : f.tyIs[i] = d.tyIs[i]
    BY <2>2, FreeGood
  <2>. HIDE DEF f
  <2>4. << >> \in Seq(Types) /\ <<ty>> \in Seq(Types)
    OBVIOUS
  <2>5. Sound(f, e, base)
    BY <2>3, <2>4, CallSound
  <2>. HIDE DEF e
  <2>6. Len(d.tyIs) \in Nat /\ Len(e.tyIs) \in Nat
    BY <2>5, GoodFacts DEF Sound
  <2>7. CASE Len(e.tyIs) <= Len(d.tyIs)
    <3>1. \A i \in 1..Len(d.tyIs) : i < Len(e.tyIs) =>
            /\ i \in 1..Len(f.tyIs)
            /\ i \in 1..Len(d.tyIs) - 1
      BY <2>3, <2>6, <2>7
    <3>2. CoveredSame(d, e)
      BY <2>3, <2>5, <3>1 DEF Sound, CoveredSame
    <3>. QED
      BY <2>1, <2>5, <3>2 DEF Sound
  <2>8. Len(e.tyIs) <= Len(d.tyIs)
    <3>1. Len(f.tyIs) >= 1 /\ <<ty>> \in Seq(Types)
      BY <2>3, <2>4
    <3>2. Len(tyCall(f, << >>, <<ty>>).tyIs) = Len(f.tyIs)
      BY <2>3, <3>1, CallLen
    <3>. QED
      BY <2>3, <2>6, <3>2 DEF e
  <2>. QED
    BY <2>7, <2>8
<1>. QED
  BY <1>1, <1>2

(***************************************************************************)
(* TyDb_nip: the copy is outside the arena, so both drops come first.      *)
(***************************************************************************)
LEMMA NipSound ==
  ASSUME NEW d, NEW base, Good(d, base), Len(d.tyIs) > 1, Ok(d)
  PROVE  /\ Sound(d, TyDb_nip(d), base)
         /\ Len(TyDb_nip(d).tyIs) = Len(d.tyIs) - 1
<1>. DEFINE tys == TypesOf(TyDb_top(d))
            d1  == TyDb_drop(d)
            d2  == TyDb_drop(d1)
            d3  == TyDb_new(d2)
            e   == TyI_cloneAdd(d3, tys)
            L   == Len(d.tyIs)
<1>0. L \in Nat /\ L >= 1 /\ L > 1 /\ L = Len(d.tyIs)
  BY DEF Good, DB
<1>1. tys \in Seq(Types)
  BY <1>0, GoodFacts, TypesOfSeq
<1>2. /\ Good(d1, base) /\ Ok(d1) /\ Len(d1.tyIs) = L - 1
      /\ \A i \in 1..L - 1 : d1.tyIs[i] = d.tyIs[i] /\ d1.done[i] = d.done[i]
  BY <1>0, DropGood DEF Ok
<1>. HIDE DEF d1, L
<1>3. /\ Good(d2, base) /\ Ok(d2) /\ Len(d2.tyIs) = L - 2
      /\ \A i \in 1..L - 2 : d2.tyIs[i] = d1.tyIs[i] /\ d2.done[i] = d1.done[i]
  <2>1. Len(d1.tyIs) >= 1 /\ Len(d1.tyIs) - 1 = L - 2
    BY <1>0, <1>2
  <2>. QED
    BY <1>2, <2>1, DropGood DEF Ok
<1>. HIDE DEF d2
<1>4. Ok(d3)
  <2>1. L <= Depth
    BY <1>0 DEF Good
  <2>2. ~(Len(d2.tyIs) >= Depth)
    BY <1>0, <1>3, <2>1, DepthAssumption
  <2>3. d3 = [d2 EXCEPT !.tyIs = Append(@, << >>), !.done = Append(@, NOT_DONE)]
    BY <1>3, <2>2 DEF TyDb_new
  <2>. QED
    BY <1>3, <2>3 DEF Ok, Good, DB
<1>5. /\ Good(d3, base) /\ Len(d3.tyIs) = L - 1
      /\ \A i \in 1..L - 2 : d3.tyIs[i] = d2.tyIs[i] /\ d3.done[i] = d2.done[i]
  <2>1. (L - 2) + 1 = L - 1
    BY <1>0
  <2>. QED
    BY <1>3, <1>4, <2>1, NewGood
<1>. HIDE DEF d3, tys
<1>6. /\ Good(e, base) /\ Len(e.tyIs) = L - 1 /\ e.done = d3.done
      /\ \A i \in 1..L - 2 : e.tyIs[i] = d3.tyIs[i]
  <2>1. Len(d3.tyIs) >= 1 /\ Len(d3.tyIs) - 1 = L - 2
    BY <1>0, <1>5
  <2>. QED
    BY <1>1, <1>5, <2>1, CloneGood
<1>7. e = TyDb_nip(d)
  BY DEF TyDb_nip, d1, d2, d3, tys
<1>. HIDE DEF e
<1>8. \A i \in 1..L - 2 : i \in 1..L - 1
  BY <1>0
<1>9. \A i \in 1..L - 2 : e.tyIs[i] = d.tyIs[i] /\ e.done[i] = d.done[i]
  BY <1>2, <1>3, <1>5, <1>6, <1>8
<1>10. CoveredSame(d, e)
  BY <1>0, <1>6, <1>9 DEF CoveredSame
<1>11. Len(e.tyIs) >= 1
  BY <1>0, <1>6
<1>. QED
  BY <1>0, <1>6, <1>7, <1>10, <1>11 DEF Sound

-----------------------------------------------------------------------------
(***************************************************************************)
(* A finished flow: what an operation does to the types of a snapshot from *)
(* whose end the flow does not go on.                                      *)
(***************************************************************************)
FrozenStep(d, e) ==
  (/\ TyDb_done(d) # NOT_DONE
   /\ ~d.unty
   /\ Ok(e)
   /\ Len(e.tyIs) = Len(d.tyIs)
   /\ TyDb_done(e) # NOT_DONE)
  => TyDb_top(e) = TyDb_top(d)

LEMMA FailNotOk == ASSUME NEW d \in DB, NEW x \in Errors PROVE ~Ok(Fail(d, x))
BY DEF Ok, Fail, DB, Errors

(***************************************************************************)
(* To clone nothing leaves the snapshots as they are.                      *)
(***************************************************************************)
LEMMA CloneNothing ==
  ASSUME NEW d, NEW base, Good(d, base), Len(d.tyIs) >= 1, Ok(d),
         NEW tys, tys = << >>
  PROVE  TyI_cloneAdd(d, tys).tyIs = d.tyIs
<1>. DEFINE L == Len(d.tyIs)
            s == d.tyIs[L]
            n == IF Len(tys) <= ArenaCap - d.bump THEN Len(tys) ELSE ArenaCap - d.bump
            c == [j \in 1..n |-> [ty |-> tys[j], adr |-> d.bump + j]]
            r == s \o c
            t == [d.tyIs EXCEPT ![L] = r]
            b == d.bump + n
            x == IF n < Len(tys) THEN "oom" ELSE d.err
<1>1. d \in DB /\ d.tyIs \in Seq(Seq(Node)) /\ L \in 1..L /\ s \in Seq(Node)
  BY GoodFacts DEF TyDb_top
<1>2. n = 0
  BY <1>1, ArenaAssumption DEF Good, DB
<1>3. TyI_cloneAdd(d, tys) = [d EXCEPT !.tyIs = t, !.bump = b, !.err = x]
  BY DEF TyI_cloneAdd
<1>. HIDE DEF n
<1>4. c = << >>
  BY <1>2
<1>. HIDE DEF b, x, c
<1>5. r = s
  BY <1>1, <1>4
<1>. HIDE DEF r
<1>6. t = d.tyIs
  BY <1>1, <1>5, SMTT(30)
<1>. HIDE DEF t
<1>. QED
  BY <1>1, <1>3, <1>6 DEF DB

(***************************************************************************)
(* A call without inputs and outputs leaves the types as they are.         *)
(***************************************************************************)
LEMMA CallNothing ==
  ASSUME NEW d, NEW base, Good(d, base), Len(d.tyIs) >= 1, Ok(d)
  PROVE  TyDb_top(TyI_cloneAdd(TyDb_free(d, 0), << >>)) = TyDb_top(d)
<1>. DEFINE f == TyDb_free(d, 0)
<1>1. 0 \in 0..Len(TyDb_top(d)) /\ TyDb_top(d) \in Seq(Node)
  BY GoodFacts
<1>2. /\ Good(f, base) /\ f.err = d.err /\ Len(f.tyIs) = Len(d.tyIs)
      /\ TyDb_top(f) = SubSeq(TyDb_top(d), 1, Len(TyDb_top(d)) - 0)
  BY <1>1, FreeGood
<1>3. TyDb_top(f) = TyDb_top(d)
  BY <1>1, <1>2
<1>. HIDE DEF f
<1>4. TyI_cloneAdd(f, << >>).tyIs = f.tyIs
  BY <1>2, CloneNothing DEF Ok
<1>. QED
  BY <1>3, <1>4 DEF TyDb_top, f

LEMMA CallFrozen ==
  ASSUME NEW d, NEW base, Good(d, base), Len(d.tyIs) >= 1,
         NEW inp \in Seq(Types), NEW out \in Seq(Types)
  PROVE  FrozenStep(d, tyCall(d, inp, out))
<1>. SUFFICES ASSUME TyDb_done(d) # NOT_DONE, ~d.unty, Ok(tyCall(d, inp, out))
              PROVE  TyDb_top(tyCall(d, inp, out)) = TyDb_top(d)
  BY DEF FrozenStep
<1>0. d \in DB /\ "done" \in Errors /\ "type" \in Errors
  BY DEF Good, Errors
<1>1. Ok(d)
  BY DEF tyCall
<1>2. inp = << >> /\ out = << >>
  BY <1>0, <1>1, FailNotOk DEF tyCall
<1>3. tyCheck(inp, TypesOf(TyDb_top(d)), FALSE)
  BY <1>0, <1>1, <1>2, FailNotOk DEF tyCall
<1>4. tyCall(d, inp, out) = TyI_cloneAdd(TyDb_free(d, 0), << >>)
  <2>1. Len(inp) = 0
    BY <1>2
  <2>. QED
    BY <1>1, <1>2, <1>3, <2>1 DEF tyCall
<1>. QED
  BY <1>1, <1>4, CallNothing

(***************************************************************************)
(* A cast of a finished flow panics: its call has an output.               *)
(***************************************************************************)
LEMMA CastFrozen ==
  ASSUME NEW d, NEW base, Good(d, base), Len(d.tyIs) >= 1,
         TyDb_top(d) # << >>, NEW ty \in Types
  PROVE  FrozenStep(d, tyCast(d, ty))
<1>. SUFFICES ASSUME TyDb_done(d) # NOT_DONE, ~d.unty, Ok(tyCast(d, ty))
              PROVE  FALSE
  BY DEF FrozenStep
<1>. DEFINE f == TyDb_free(d, 1)
<1>1. 1 \in 0..Len(TyDb_top(d))
  BY GoodFacts, EmptySeq
<1>2. Good(f, base) /\ f.unty = d.unty /\ f.done = d.done
  BY <1>1, FreeGood
<1>3. tyCast(d, ty) = tyCall(f, << >>, <<ty>>)
  BY DEF tyCast
<1>. HIDE DEF f
<1>4. f \in DB /\ "done" \in Errors /\ TyDb_done(f) # NOT_DONE /\ ~f.unty
  BY <1>2 DEF Good, Errors, TyDb_done
<1>5. <<ty>> # << >>
  OBVIOUS
<1>6. tyCall(f, << >>, <<ty>>) = IF Ok(f) THEN Fail(f, "done") ELSE f
  BY <1>4, <1>5 DEF tyCall
<1>. QED
  BY <1>3, <1>4, <1>6, FailNotOk

(* What grows or shrinks the stack of snapshots is out of the question.    *)
LEMMA CloneFrozen ==
  ASSUME NEW d, NEW base, Good(d, base), Len(d.tyIs) >= 1, NEW depth \in Nat
  PROVE  FrozenStep(d, tyClone(d, depth))
<1>. SUFFICES ASSUME ~d.unty, Ok(tyClone(d, depth)),
                     Len(tyClone(d, depth).tyIs) = Len(d.tyIs)
              PROVE  FALSE
  BY DEF FrozenStep
<1>0. d \in DB /\ "index" \in Errors
  BY DEF Good, Errors
<1>. DEFINE f   == TyDb_new(d)
            tys == TypesOf(TyDb_index(d, depth))
<1>1. Ok(d) /\ ~(depth >= Len(d.tyIs)) /\ tyClone(d, depth) = TyI_cloneAdd(f, tys)
  BY <1>0, FailNotOk DEF tyClone
<1>2. Len(d.tyIs) - depth \in 1..Len(d.tyIs) /\ Len(d.tyIs) \in Nat
  BY <1>1, GoodFacts
<1>3. tys \in Seq(Types)
  BY <1>2, GoodFacts, ElementOfSeq, TypesOfSeq DEF TyDb_index
<1>4. /\ Good(f, base) /\ Len(f.tyIs) >= Len(d.tyIs)
      /\ Ok(f) => Len(f.tyIs) = Len(d.tyIs) + 1
  BY NewGood
<1>. HIDE DEF f, tys
<1>5. Ok(f)
  BY <1>1 DEF TyI_cloneAdd
<1>6. Len(TyI_cloneAdd(f, tys).tyIs) = Len(f.tyIs)
  BY <1>2, <1>3, <1>4, <1>5, CloneGood
<1>. QED
  BY <1>1, <1>2, <1>4, <1>5, <1>6

LEMMA MergeFrozen ==
  ASSUME NEW d, NEW base, Good(d, base), Len(d.tyIs) >= 1
  PROVE  FrozenStep(d, tyMerge(d))
<1>. SUFFICES ASSUME ~d.unty, Ok(tyMerge(d)), Len(tyMerge(d).tyIs) = Len(d.tyIs)
              PROVE  FALSE
  BY DEF FrozenStep
<1>0. d \in DB /\ "alone" \in Errors /\ "type" \in Errors /\ Len(d.tyIs) \in Nat
  BY GoodFacts DEF Good, Errors
<1>1. Ok(d) /\ tyMerge(d) = TyDb_drop(d)
  BY <1>0, FailNotOk DEF tyMerge
<1>2. Len(TyDb_drop(d).tyIs) = Len(d.tyIs) - 1
  BY <1>1, DropGood
<1>. QED
  BY <1>0, <1>1, <1>2

-----------------------------------------------------------------------------
(* The specification of TyDbClient.                                        *)

(* The inductive invariant of the specification.                           *)
IInv == Good(tyDb, lost) /\ Len(tyDb.tyIs) >= 1

LEMMA InitIInv == ClientInit => IInv
<1>. DEFINE z == TyDb_init
<1>1. /\ z \in DB /\ z.tyIs = << >> /\ z.done = << >> /\ z.bump = 0 /\ z.err = "ok"
  BY EmptySeq DEF TyDb_init, DB
<1>. HIDE DEF z
<1>2. Packed(z, 0)
  <2>. DEFINE lo == [i \in 1..1 |-> 0]
  <2>1. lo \in [1..Len(z.tyIs) + 1 -> 0..ArenaCap]
    BY <1>1, ArenaAssumption
  <2>2. Laid(z, 0, lo)
    BY <1>1 DEF Laid
  <2>. QED
    BY <2>1, <2>2 DEF Packed
<1>3. Good(z, 0) /\ Len(z.tyIs) = 0
  BY <1>1, <1>2, DepthAssumption, ArenaAssumption DEF Good
<1>4. Ok(TyDb_new(z)) /\ Good(TyDb_new(z), 0)
  <2>1. TyDb_new(z) = [z EXCEPT !.tyIs = Append(@, << >>), !.done = Append(@, NOT_DONE)]
    BY <1>1, <1>3, DepthAssumption DEF TyDb_new, Ok
  <2>. QED
    BY <2>1, <1>1, <1>3, NewGood DEF Ok, DB
<1>5. Len(TyDb_new(z).tyIs) = 1
  <2>1. Len(TyDb_new(z).tyIs) = Len(z.tyIs) + 1
    BY <1>3, <1>4, NewGood, ArenaAssumption
  <2>. QED
    BY <2>1, <1>3
<1>. QED
  BY <1>4, <1>5 DEF ClientInit, IInv, z

(***************************************************************************)
(* Kern_errCleanup starts a new layout above the nodes it abandons.        *)
(***************************************************************************)
LEMMA CleanupIInv == IInv /\ errCleanup => IInv' /\ CoveredSame(tyDb, tyDb')
<1>. SUFFICES ASSUME IInv, errCleanup
              PROVE  IInv' /\ CoveredSame(tyDb, tyDb')
  OBVIOUS
<1>0. tyDb \in DB /\ tyDb.bump \in Nat /\ tyDb.bump <= ArenaCap
  BY DEF IInv, Good, DB
<1>. DEFINE z == [TyDb_init EXCEPT !.bump = tyDb.bump]
<1>1. /\ z \in DB /\ z.tyIs = << >> /\ z.done = << >> /\ z.bump = tyDb.bump
      /\ z.err = "ok"
  BY <1>0, EmptySeq DEF TyDb_init, DB
<1>2. tyDb' = TyDb_new(z) /\ lost' = tyDb.bump
  BY DEF errCleanup
<1>. HIDE DEF z
<1>3. Packed(z, tyDb.bump)
  <2>. DEFINE lo == [i \in 1..1 |-> tyDb.bump]
  <2>1. lo \in [1..Len(z.tyIs) + 1 -> 0..ArenaCap]
    BY <1>0, <1>1, ArenaAssumption
  <2>2. Laid(z, tyDb.bump, lo)
    BY <1>1 DEF Laid
  <2>. QED
    BY <2>1, <2>2 DEF Packed
<1>4. Good(z, tyDb.bump) /\ Len(z.tyIs) = 0
  BY <1>0, <1>1, <1>3, DepthAssumption DEF Good
<1>5. Ok(TyDb_new(z)) /\ Good(TyDb_new(z), tyDb.bump)
  <2>1. TyDb_new(z) = [z EXCEPT !.tyIs = Append(@, << >>), !.done = Append(@, NOT_DONE)]
    BY <1>1, <1>4, DepthAssumption DEF TyDb_new, Ok
  <2>. QED
    BY <2>1, <1>1, <1>4, NewGood DEF Ok, DB
<1>6. Len(TyDb_new(z).tyIs) = 1
  <2>1. Len(TyDb_new(z).tyIs) = Len(z.tyIs) + 1
    BY <1>0, <1>4, <1>5, NewGood
  <2>. QED
    BY <2>1, <1>4
<1>7. IInv'
  BY <1>2, <1>5, <1>6 DEF IInv
<1>8. CoveredSame(tyDb, tyDb')
  BY <1>2, <1>6 DEF CoveredSame
<1>. QED
  BY <1>7, <1>8

(***************************************************************************)
(* Every operation that is applied is sound, hence keeps the invariant.    *)
(***************************************************************************)
LEMMA ApplyIInv ==
  ASSUME IInv, NEW e, Apply(e), Sound(tyDb, e, lost)
  PROVE  IInv' /\ CoveredSame(tyDb, tyDb')
BY DEF IInv, Apply, Sound

LEMMA NextIInv == IInv /\ [ClientNext]_clientVars => IInv' /\ CoveredSame(tyDb, tyDb')
<1>. SUFFICES ASSUME IInv, [ClientNext]_clientVars
              PROVE  IInv' /\ CoveredSame(tyDb, tyDb')
  OBVIOUS
<1>0. Good(tyDb, lost) /\ Len(tyDb.tyIs) >= 1 /\ Len(tyDb.tyIs) \in Nat
  BY GoodFacts DEF IInv
<1>s. ASSUME NEW st \in Streams PROVE st \in Seq(Types)
  BY StreamsAssumption
<1>1. CASE New
  BY <1>0, <1>1, NewSound, ApplyIInv DEF New
<1>2. CASE Drop
  BY <1>0, <1>2, DropSound, ApplyIInv DEF Drop
<1>3. CASE Nip
  BY <1>0, <1>3, NipSound, ApplyIInv DEF Nip, Apply
<1>4. ASSUME NEW depth \in {0, 1}, Clone(depth)
      PROVE  IInv' /\ CoveredSame(tyDb, tyDb')
  BY <1>0, <1>4, CloneSound, ApplyIInv DEF Clone
<1>5. CASE Merge
  BY <1>0, <1>5, MergeSound, ApplyIInv DEF Merge
<1>6. ASSUME NEW inp \in Streams, NEW out \in Streams, Call(inp, out)
      PROVE  IInv' /\ CoveredSame(tyDb, tyDb')
  BY <1>0, <1>s, <1>6, CallSound, ApplyIInv DEF Call
<1>7. ASSUME NEW out \in Streams, Ret(out)
      PROVE  IInv' /\ CoveredSame(tyDb, tyDb')
  <2>1. RET_DONE \in HowDone
    BY DEF HowDone
  <2>. QED
    BY <1>0, <1>s, <1>7, <2>1, RetSound, ApplyIInv DEF Ret
<1>8. ASSUME NEW ty \in Types, Cast(ty)
      PROVE  IInv' /\ CoveredSame(tyDb, tyDb')
  BY <1>0, <1>8, CastSound, ApplyIInv DEF Cast
<1>9. ASSUME NEW how \in {BLK_DONE, RET_DONE}, SetDone(how)
      PROVE  IInv' /\ CoveredSame(tyDb, tyDb')
  <2>1. how \in HowDone
    BY DEF HowDone
  <2>. QED
    BY <1>0, <1>9, <2>1, SetDoneSound, ApplyIInv DEF SetDone
<1>10. CASE ClearDone
  BY <1>0, <1>10, ClearDoneSound, ApplyIInv DEF ClearDone
<1>11. ASSUME NEW b \in BOOLEAN, SetUnty(b)
       PROVE  IInv' /\ CoveredSame(tyDb, tyDb')
  <2>. DEFINE e == [tyDb EXCEPT !.unty = b]
  <2>1. tyDb \in DB
    BY <1>0 DEF Good
  <2>2. /\ e \in DB
        /\ e.tyIs = tyDb.tyIs /\ e.done = tyDb.done /\ e.bump = tyDb.bump /\ e.err = tyDb.err
    BY <2>1 DEF DB
  <2>3. Apply(e)
    BY <1>11 DEF SetUnty
  <2>. HIDE DEF e
  <2>4. Packed(e, lost)
    BY <1>0, <2>2, SamePacked DEF Good
  <2>5. Sound(tyDb, e, lost)
    BY <1>0, <2>2, <2>4 DEF Sound, Good, CoveredSame
  <2>. QED
    BY <2>3, <2>5, ApplyIInv
<1>12. CASE errCleanup
  BY <1>12, CleanupIInv
<1>13. CASE UNCHANGED clientVars
  BY <1>13 DEF clientVars, IInv, CoveredSame
<1>. QED
  BY <1>1, <1>2, <1>3, <1>4, <1>5, <1>6, <1>7, <1>8, <1>9, <1>10, <1>11,
     <1>12, <1>13 DEF ClientNext

(***************************************************************************)
(* No operation changes the types of a finished flow.                      *)
(***************************************************************************)
LEMMA NextFrozen == IInv /\ [ClientNext]_clientVars => FrozenStep(tyDb, tyDb')
<1>. SUFFICES ASSUME IInv, [ClientNext]_clientVars, TyDb_done(tyDb) # NOT_DONE, ~tyDb.unty, Ok(tyDb'),
                     Len(tyDb'.tyIs) = Len(tyDb.tyIs), TyDb_done(tyDb') # NOT_DONE
              PROVE  TyDb_top(tyDb') = TyDb_top(tyDb)
  BY DEF FrozenStep
<1>0. Good(tyDb, lost) /\ Len(tyDb.tyIs) >= 1 /\ Len(tyDb.tyIs) \in Nat /\ tyDb \in DB
  BY GoodFacts DEF IInv
<1>d. /\ FrozenStep(tyDb, tyDb') => TyDb_top(tyDb') = TyDb_top(tyDb)
      /\ {"done", "redone"} \subseteq Errors
  BY DEF FrozenStep, Errors
<1>1. CASE New
  <2>1. Len(tyDb'.tyIs) = Len(tyDb.tyIs) + 1
    BY <1>0, <1>1, NewGood DEF New, Apply
  <2>. QED
    BY <1>0, <2>1
<1>2. CASE Drop
  <2>1. Len(tyDb'.tyIs) = Len(tyDb.tyIs) - 1
    BY <1>0, <1>2, DropGood DEF Drop, Apply
  <2>. QED
    BY <1>0, <2>1
<1>3. CASE Nip
  <2>1. Len(tyDb'.tyIs) = Len(tyDb.tyIs) - 1
    BY <1>0, <1>3, NipSound DEF Nip, Apply
  <2>. QED
    BY <1>0, <2>1
<1>4. ASSUME NEW depth \in {0, 1}, Clone(depth)
      PROVE  TyDb_top(tyDb') = TyDb_top(tyDb)
  BY <1>0, <1>d, <1>4, CloneFrozen DEF Clone, Apply
<1>5. CASE Merge
  BY <1>0, <1>d, <1>5, MergeFrozen DEF Merge, Apply
<1>6. ASSUME NEW inp \in Streams, NEW out \in Streams, Call(inp, out)
      PROVE  TyDb_top(tyDb') = TyDb_top(tyDb)
  <2>1. inp \in Seq(Types) /\ out \in Seq(Types)
    BY StreamsAssumption
  <2>. QED
    BY <1>0, <1>d, <1>6, <2>1, CallFrozen DEF Call, Apply
<1>7. ASSUME NEW out \in Streams, Ret(out)
      PROVE  TyDb_top(tyDb') = TyDb_top(tyDb)
  <2>1. tyDb' = Fail(tyDb, "done")
    BY <1>7 DEF Ret, Apply, tyRet
  <2>. QED
    BY <1>0, <1>d, <2>1, FailNotOk
<1>8. ASSUME NEW ty \in Types, Cast(ty)
      PROVE  TyDb_top(tyDb') = TyDb_top(tyDb)
  BY <1>0, <1>d, <1>8, CastFrozen DEF Cast, Apply
<1>9. ASSUME NEW how \in {BLK_DONE, RET_DONE}, SetDone(how)
      PROVE  TyDb_top(tyDb') = TyDb_top(tyDb)
  <2>1. tyDb' = Fail(tyDb, "redone")
    BY <1>9 DEF SetDone, Apply, TyDb_setDone
  <2>. QED
    BY <1>0, <1>d, <2>1, FailNotOk
<1>10. CASE ClearDone
  <2>1. tyDb' = [tyDb EXCEPT !.done[Len(tyDb.done)] = NOT_DONE]
    BY <1>10 DEF ClearDone, Apply, TyDb_clearDone
  <2>2. tyDb.done \in Seq(HowDone) /\ Len(tyDb.done) \in 1..Len(tyDb.done)
    BY <1>0, GoodFacts
  <2>3. Len(tyDb'.done) = Len(tyDb.done) /\ tyDb'.done[Len(tyDb.done)] = NOT_DONE
    BY <1>0, <2>1, <2>2 DEF DB
  <2>. QED
    BY <2>3 DEF TyDb_done
<1>11. ASSUME NEW b \in BOOLEAN, SetUnty(b)
       PROVE  TyDb_top(tyDb') = TyDb_top(tyDb)
  BY <1>0, <1>11 DEF SetUnty, Apply, TyDb_top, DB
<1>12. CASE errCleanup
  <2>. DEFINE z == [TyDb_init EXCEPT !.bump = tyDb.bump]
  <2>1. z.tyIs = << >> /\ z.done = << >> /\ z.err = "ok" /\ z \in DB
    BY <1>0, EmptySeq DEF TyDb_init, DB
  <2>2. tyDb' = TyDb_new(z)
    BY <1>12 DEF errCleanup
  <2>. HIDE DEF z
  <2>3. tyDb' = [z EXCEPT !.tyIs = Append(@, << >>), !.done = Append(@, NOT_DONE)]
    BY <2>1, <2>2, DepthAssumption DEF TyDb_new, Ok
  <2>4. tyDb'.done = <<NOT_DONE>>
    BY <2>1, <2>3 DEF DB
  <2>. QED
    BY <2>4 DEF TyDb_done
<1>13. CASE UNCHANGED clientVars
  BY <1>13 DEF clientVars
<1>. QED
  BY <1>1, <1>2, <1>3, <1>4, <1>5, <1>6, <1>7, <1>8, <1>9, <1>10, <1>11,
     <1>12, <1>13 DEF ClientNext

(***************************************************************************)
(* The two stacks stay in step and within TYDB_DEPTH.                      *)
(***************************************************************************)
THEOREM TypeCorrect == ClientSpec => []TypeOK
<1>1. IInv => TypeOK
  <2>. SUFFICES ASSUME IInv PROVE TypeOK
    OBVIOUS
  <2>1. tyDb \in DB /\ lost \in Nat /\ Len(tyDb.tyIs) = Len(tyDb.done)
    BY DEF IInv, Good
  <2>2. Len(tyDb.tyIs) \in 1..Depth
    BY GoodFacts, DepthAssumption DEF IInv, Good
  <2>. QED
    BY <2>1, <2>2 DEF TypeOK
<1>. QED
  BY <1>1, InitIInv, NextIInv, PTL DEF ClientSpec

(***************************************************************************)
(* The snapshots fill the arena in order, above what panics abandoned.     *)
(***************************************************************************)
THEOREM ArenaCorrect == ClientSpec => []ArenaPacked
<1>1. IInv => ArenaPacked
  BY DEF IInv, Good, ArenaPacked
<1>. QED
  BY <1>1, InitIInv, NextIInv, PTL DEF ClientSpec

(***************************************************************************)
(* TyDb_pop never meets the arena's error for a node out of its turn.      *)
(***************************************************************************)
THEOREM NeverOutOfOrder == ClientSpec => []FreesInOrder
<1>1. IInv => FreesInOrder
  BY DEF IInv, Good, FreesInOrder
<1>. QED
  BY <1>1, InitIInv, NextIInv, PTL DEF ClientSpec

(***************************************************************************)
(* No operation changes a snapshot that ends up covered.                   *)
(***************************************************************************)
THEOREM ClonesIndependent == ClientSpec => CoveredFrozen
<1>1. IInv /\ [ClientNext]_clientVars => [CoveredSame(tyDb, tyDb')]_clientVars
  BY NextIInv
<1>. QED
  BY <1>1, InitIInv, NextIInv, PTL DEF ClientSpec, CoveredFrozen

(***************************************************************************)
(* Code after a guaranteed ret does not change the types of its snapshot.  *)
(***************************************************************************)
THEOREM FinishedFrozen == ClientSpec => DoneFrozen
<1>. DEFINE A == FrozenStep(tyDb, tyDb')
<1>1. IInv /\ [ClientNext]_clientVars => [A]_clientVars
  BY NextFrozen
<1>2. ClientSpec => [][A]_clientVars
  BY <1>1, InitIInv, NextIInv, PTL DEF ClientSpec
<1>. QED
  BY <1>2 DEF DoneFrozen, FrozenStep
=============================================================================
