---------------------------- MODULE ScannerProofs ----------------------------
(***************************************************************************)
(* Proofs about Scanner.tla.  Of any input, cut into pieces in any way,    *)
(* the token is at the head of the ring until it is dropped, so that what  *)
(* is dropped is what was read, and every end of line is counted once.     *)
(* And every input is taken for what it means, read off its characters by  *)
(* their positions (ScannerMeaning): what it puts out, and whether it      *)
(* panics.                                                                 *)
(***************************************************************************)
EXTENDS ScannerMeaning, DataLemmas, FiniteSetTheorems

(* The line of errors and of tokens is followed for simpleRepl, which      *)
(* clears the ring and the token when it catches a panic.                  *)
Clears == Host = "simpleRepl"

-----------------------------------------------------------------------------
(* The inductive invariant.                                                *)

(* The ends of lines in the first n characters of s.                       *)
Ends(s, n) == Cardinality({i \in 1..n : s[i] = "nl"})

(* Of the text t, h characters have left the ring r, and s are still to    *)
(* come: nothing is lost on the way and nothing is read twice.             *)
Placed(t, h, r, s) ==
  /\ t \in Seq(Char) /\ r \in Seq(Char) /\ s \in Seq(Char) /\ h \in Nat
  /\ h + Len(r) + Len(s) = Len(t)
  /\ \A i \in 1..Len(r) : r[i] = t[h + i]
  /\ \A i \in 1..Len(s) : s[i] = t[h + Len(r) + i]

(* The token k is what is at the head of the ring r.                       *)
AtHead(k, r) ==
  /\ k \in Seq(Char) /\ Len(k) <= Len(r)
  /\ \A i \in 1..Len(k) : k[i] = r[i]

Sources == {"src", "srcEof"}
Others  == {"raw", "group", "scan", "found", "N_fslash", "scanLine", "fslash",
            "commented", "restore", "baseCompFn", "single", "singleToken",
            "paren", "parenToken", "blkBody", "blkToken", "blkEnd", "ch"}
Places  == Sources \cup Others \cup Chars
CompFns == {"base", "fslash"}
Frames  == [at : Places, cfn : CompFns, white : BOOLEAN]

(* Under the functions that are active is compileSrc, and none of those    *)
(* that take characters from the ring waits for another one.               *)
Active(k) ==
  /\ k \in Seq(Frames) /\ Len(k) > 0
  /\ k[1].at \in Sources
  /\ \A i \in 2..Len(k) : k[i].at \notin Sources
  /\ \A i \in 1..Len(k) - 1 : k[i].at \notin Chars

(* While an input is compiled.                                             *)
Reading ==
  /\ Placed(text, head, ring, rest) /\ AtHead(token, ring)
  /\ line = Ends(text, head)
  /\ Len(token) <= TokCap /\ Len(ring) <= RingCap
  /\ eof => rest = << >>

(***************************************************************************)
(* TokenInRing and LineOfHead need each other: what tokenDrop takes from   *)
(* the ring is counted by its place in the text, which it has because the  *)
(* ring is in its place and the token at its head.  The functions that     *)
(* take characters run only when there is no token, and between two inputs *)
(* there is none either.                                                   *)
(***************************************************************************)
ScannerInv ==
  /\ text \in Seq(Char) /\ head \in 0..Len(text) /\ line = Ends(text, head)
  /\ compFn \in CompFns
  /\ phase = "compile" => /\ Reading /\ Active(ctl)
                          /\ Top.at \in Chars => token = << >>
  /\ phase # "compile" => token = << >>

-----------------------------------------------------------------------------
(* Lemmas about the ends of lines.                                         *)

LEMMA EndsStep ==
  ASSUME NEW s, NEW n \in Nat
  PROVE  /\ Ends(s, 0) = 0
         /\ Ends(s, n) \in Nat
         /\ Ends(s, n + 1) = Ends(s, n) + IF s[n + 1] = "nl" THEN 1 ELSE 0
<1>. DEFINE E(m) == {i \in 1..m : s[i] = "nl"}
<1>1. \A m \in Nat : IsFiniteSet(E(m)) /\ Cardinality(E(m)) \in Nat
  <2>1. ASSUME NEW m \in Nat
        PROVE  IsFiniteSet(E(m))
    <3>1. IsFiniteSet(1..m)
      BY FS_Interval
    <3>2. E(m) \in SUBSET (1..m)
      OBVIOUS
    <3>. QED
      BY <3>1, <3>2, FS_Subset
  <2>. QED
    BY <2>1, FS_CardinalityType
<1>2. E(0) = {}
  OBVIOUS
<1>3. E(n + 1) = IF s[n + 1] = "nl" THEN E(n) \cup {n + 1} ELSE E(n)
  OBVIOUS
<1>4. n + 1 \notin E(n)
  OBVIOUS
<1>5. \A m : Ends(s, m) = Cardinality(E(m))
  BY DEF Ends
<1>. HIDE DEF E
<1>6. Cardinality(E(n) \cup {n + 1}) = Cardinality(E(n)) + 1
  BY <1>1, <1>4, FS_AddElement
<1>. QED
  BY <1>1, <1>2, <1>3, <1>5, <1>6, FS_EmptySet

(* The ends of lines of a piece are those of its place in the text.        *)
Piece(t, h, r, n) == \A i \in 1..n : r[i] = t[h + i]

LEMMA EndsOfPiece ==
  ASSUME NEW t, NEW r, NEW h \in Nat, NEW n \in Nat, Piece(t, h, r, n)
  PROVE  Ends(t, h + n) = Ends(t, h) + Ends(r, n)
<1>. DEFINE T == {m \in 0..n : Ends(t, h + m) = Ends(t, h) + Ends(r, m)}
<1>1. 0 \in T
  <2>1. Ends(r, 0) = 0 /\ Ends(t, h) \in Nat /\ h + 0 = h
    BY EndsStep
  <2>. QED
    BY <2>1
<1>2. ASSUME NEW m \in 0..n - 1, m \in T
      PROVE  m + 1 \in T
  <2>1. m + 1 \in 1..n /\ m \in Nat /\ h + m \in Nat /\ h + (m + 1) = (h + m) + 1
    OBVIOUS
  <2>2. /\ Ends(t, (h + m) + 1) = Ends(t, h + m)
                                  + IF t[(h + m) + 1] = "nl" THEN 1 ELSE 0
        /\ Ends(r, m + 1) = Ends(r, m) + IF r[m + 1] = "nl" THEN 1 ELSE 0
        /\ Ends(t, h) \in Nat /\ Ends(r, m) \in Nat
    BY <2>1, EndsStep
  <2>3. r[m + 1] = t[(h + m) + 1]
    BY <2>1 DEF Piece
  <2>4. Ends(t, h + m) = Ends(t, h) + Ends(r, m)
    BY <1>2
  <2>5. Ends(t, h + (m + 1)) = Ends(t, h) + Ends(r, m + 1)
    BY <2>1, <2>2, <2>3, <2>4
  <2>. QED
    BY <2>1, <2>5
<1>3. 0..n \subseteq T
  <2>. HIDE DEF T
  <2>. QED
    BY <1>1, <1>2, SetInductionUpTo
<1>4. n \in 0..n
  OBVIOUS
<1>. QED
  BY <1>3, <1>4

-----------------------------------------------------------------------------
(* Lemmas about the ring.                                                  *)

LEMMA AtHeadIsPrefix ==
  ASSUME NEW k, NEW r \in Seq(Char), AtHead(k, r)
  PROVE  IsPrefix(k, r)
<1>1. k \in Seq(Char) /\ Len(k) \in Nat /\ Len(r) \in Nat /\ Len(k) <= Len(r)
      /\ \A i \in 1..Len(k) : k[i] = r[i]
  BY LenProperties DEF AtHead
<1>2. PICK n \in Nat : n = Len(k)
  BY <1>1
<1>3. \A i \in 1..n : k[i] \in Char /\ r[i] \in Char
  BY <1>1, <1>2, ElementOfSeq
<1>4. /\ SubSeq(k, 1, n) \in Seq(Char) /\ Len(SubSeq(k, 1, n)) = n
      /\ \A i \in 1..n : SubSeq(k, 1, n)[i] = k[i]
  BY <1>3, SubSeqProperties
<1>5. /\ SubSeq(r, 1, n) \in Seq(Char) /\ Len(SubSeq(r, 1, n)) = n
      /\ \A i \in 1..n : SubSeq(r, 1, n)[i] = r[i]
  BY <1>3, SubSeqProperties
<1>6. SubSeq(k, 1, n) = SubSeq(r, 1, n)
  BY <1>1, <1>2, <1>4, <1>5, SeqEqual
<1>. QED
  BY <1>1, <1>2, <1>6 DEF IsPrefix

(* n characters leave the ring.                                            *)
LEMMA Taken ==
  ASSUME NEW t, NEW h, NEW r, NEW s, Placed(t, h, r, s), NEW n \in 0..Len(r)
  PROVE  /\ Placed(t, h + n, SubSeq(r, n + 1, Len(r)), s)
         /\ Len(SubSeq(r, n + 1, Len(r))) <= Len(r)
         /\ Ends(t, h + n) = Ends(t, h) + Ends(r, n)
<1>1. /\ t \in Seq(Char) /\ r \in Seq(Char) /\ s \in Seq(Char) /\ h \in Nat
      /\ h + Len(r) + Len(s) = Len(t)
      /\ \A i \in 1..Len(r) : r[i] = t[h + i]
      /\ \A i \in 1..Len(s) : s[i] = t[h + Len(r) + i]
  BY DEF Placed
<1>2. PICK m \in Nat : m = Len(r)
  BY <1>1, LenProperties
<1>3. n \in 0..m /\ n \in Nat
  BY <1>2
<1>4. PICK q : q = SubSeq(r, n + 1, m)
  OBVIOUS
<1>5. \A i \in n + 1..m : r[i] \in Char
  BY <1>1, <1>2, <1>3, ElementOfSeq
<1>6. /\ q \in Seq(Char)
      /\ Len(q) = IF n + 1 <= m THEN m - (n + 1) + 1 ELSE 0
      /\ \A i \in 1..m - (n + 1) + 1 : q[i] = r[(n + 1) + i - 1]
  BY <1>3, <1>4, <1>5, SubSeqProperties
<1>7. Len(q) = m - n /\ Len(q) <= m
  BY <1>3, <1>6
<1>8. Len(s) \in Nat
  BY <1>1, LenProperties
<1>9. (h + n) + Len(q) + Len(s) = Len(t)
  BY <1>1, <1>2, <1>3, <1>7, <1>8
<1>10. \A i \in 1..Len(q) : q[i] = t[(h + n) + i]
  <2>1. ASSUME NEW i \in 1..m - n
        PROVE  q[i] = t[(h + n) + i]
    <3>1. n + i \in 1..m /\ i \in 1..m - (n + 1) + 1 /\ (n + 1) + i - 1 = n + i
          /\ h + (n + i) = (h + n) + i
      BY <1>1, <1>3
    <3>2. q[i] = r[n + i]
      BY <1>6, <3>1
    <3>3. r[n + i] = t[h + (n + i)]
      BY <1>1, <1>2, <3>1
    <3>. QED
      BY <3>1, <3>2, <3>3
  <2>. QED
    BY <1>7, <2>1
<1>11. \A i \in 1..Len(s) : s[i] = t[(h + n) + Len(q) + i]
  <2>1. (h + n) + Len(q) = h + Len(r)
    <3>1. h \in Nat /\ (h + n) + (m - n) = h + m
      BY <1>1, <1>3
    <3>. QED
      BY ONLY <1>2, <1>7, <3>1
  <2>. QED
    BY <1>1, <2>1
<1>12. Placed(t, h + n, q, s)
  <2>1. h + n \in Nat /\ t \in Seq(Char) /\ q \in Seq(Char) /\ s \in Seq(Char)
    BY <1>1, <1>3, <1>6
  <2>. QED
    BY ONLY <2>1, <1>9, <1>10, <1>11 DEF Placed
<1>13. Ends(t, h + n) = Ends(t, h) + Ends(r, n)
  <2>1. Piece(t, h, r, n)
    BY <1>1, <1>2, <1>3 DEF Piece
  <2>2. h \in Nat /\ n \in Nat
    BY <1>1, <1>3
  <2>. QED
    BY <2>1, <2>2, EndsOfPiece
<1>. QED
  BY <1>2, <1>4, <1>7, <1>12, <1>13

(* The reader puts n characters into the ring; the token stays.            *)
LEMMA Refilled ==
  ASSUME NEW t, NEW h, NEW r, NEW s, Placed(t, h, r, s), NEW n \in 1..Len(s)
  PROVE  /\ Placed(t, h, r \o SubSeq(s, 1, n), SubSeq(s, n + 1, Len(s)))
         /\ Len(r \o SubSeq(s, 1, n)) = Len(r) + n
         /\ \A k : AtHead(k, r) => AtHead(k, r \o SubSeq(s, 1, n))
<1>1. /\ t \in Seq(Char) /\ r \in Seq(Char) /\ s \in Seq(Char) /\ h \in Nat
      /\ h + Len(r) + Len(s) = Len(t)
      /\ \A i \in 1..Len(r) : r[i] = t[h + i]
      /\ \A i \in 1..Len(s) : s[i] = t[h + Len(r) + i]
  BY DEF Placed
<1>2. PICK m \in Nat : m = Len(r)
  BY <1>1, LenProperties
<1>3. PICK l \in Nat : l = Len(s)
  BY <1>1, LenProperties
<1>4. n \in 1..l /\ n \in Nat
  BY <1>3
<1>5. \A i \in 1..l : s[i] \in Char
  BY <1>1, <1>3, ElementOfSeq
<1>6. PICK p : p = SubSeq(s, 1, n)
  OBVIOUS
<1>7. p \in Seq(Char) /\ Len(p) = n /\ \A i \in 1..n : p[i] = s[i]
  BY <1>4, <1>5, <1>6, SubSeqProperties
<1>8. PICK q : q = SubSeq(s, n + 1, l)
  OBVIOUS
<1>9. \A i \in n + 1..l : s[i] \in Char
  BY <1>4, <1>5
<1>10. /\ q \in Seq(Char)
       /\ Len(q) = IF n + 1 <= l THEN l - (n + 1) + 1 ELSE 0
       /\ \A i \in 1..l - (n + 1) + 1 : q[i] = s[(n + 1) + i - 1]
  BY <1>4, <1>8, <1>9, SubSeqProperties
<1>11. Len(q) = l - n
  BY <1>4, <1>10
<1>12. PICK u : u = r \o p
  OBVIOUS
<1>13. /\ u \in Seq(Char) /\ Len(u) = Len(r) + Len(p)
       /\ \A i \in 1..Len(r) + Len(p) : u[i] = IF i <= Len(r) THEN r[i] ELSE p[i - Len(r)]
  <2>1. r \in Seq(Char) /\ p \in Seq(Char)
    BY <1>1, <1>7
  <2>2. /\ r \o p \in Seq(Char) /\ Len(r \o p) = Len(r) + Len(p)
        /\ \A i \in 1..Len(r) + Len(p) :
             (r \o p)[i] = IF i <= Len(r) THEN r[i] ELSE p[i - Len(r)]
    BY ONLY <2>1, ConcatProperties
  <2>. QED
    BY ONLY <1>12, <2>2
<1>14. Len(u) = m + n
       /\ \A i \in 1..m + n : u[i] = IF i <= m THEN r[i] ELSE p[i - m]
  BY <1>2, <1>7, <1>13
<1>15. h + Len(u) + Len(q) = Len(t)
  <2>1. h + m + l = Len(t) /\ h \in Nat /\ n \in Nat
    BY <1>1, <1>2, <1>3, <1>4
  <2>2. h + (m + n) + (l - n) = h + m + l
    BY ONLY <2>1, m \in Nat, l \in Nat
  <2>. QED
    BY ONLY <2>1, <2>2, <1>11, <1>14
<1>16. ASSUME NEW i \in 1..Len(u)
       PROVE  u[i] = t[h + i]
  <2>1. i \in 1..m + n
    BY <1>14
  <2>2. CASE i <= m
    BY <1>1, <1>2, <1>14, <2>1, <2>2
  <2>3. CASE ~(i <= m)
    <3>1. i - m \in 1..n /\ i - m \in 1..l /\ h + m + (i - m) = h + i
      BY <1>1, <1>4, <2>1, <2>3
    <3>2. u[i] = s[i - m]
      BY <1>7, <1>14, <2>1, <2>3, <3>1
    <3>. QED
      BY <1>1, <1>2, <1>3, <3>1, <3>2
  <2>. QED
    BY <2>2, <2>3
<1>17. ASSUME NEW i \in 1..Len(q)
       PROVE  q[i] = t[h + Len(u) + i]
  <2>1. i \in 1..l - n
    BY <1>11
  <2>2. n + i \in 1..l /\ i \in 1..l - (n + 1) + 1 /\ (n + 1) + i - 1 = n + i
        /\ h + m + (n + i) = h + (m + n) + i
    BY <1>1, <1>4, <2>1
  <2>3. q[i] = s[n + i]
    BY <1>10, <2>2
  <2>. QED
    BY <1>1, <1>2, <1>3, <1>14, <2>2, <2>3
<1>18. Placed(t, h, u, q)
  BY <1>1, <1>10, <1>13, <1>15, <1>16, <1>17 DEF Placed
<1>19. ASSUME NEW k, AtHead(k, r)
       PROVE  AtHead(k, u)
  <2>1. k \in Seq(Char) /\ Len(k) <= m /\ \A i \in 1..Len(k) : k[i] = r[i]
    BY <1>2, <1>19 DEF AtHead
  <2>2. PICK j \in Nat : j = Len(k)
    BY <2>1, LenProperties
  <2>3. j <= m + n /\ \A i \in 1..j : i \in 1..m + n /\ i <= m
    BY <1>4, <2>1, <2>2
  <2>4. Len(k) <= Len(u) /\ \A i \in 1..Len(k) : k[i] = u[i]
    BY <1>14, <2>1, <2>2, <2>3
  <2>. QED
    BY <2>1, <2>4 DEF AtHead
<1>. QED
  BY <1>2, <1>3, <1>6, <1>8, <1>12, <1>14, <1>18, <1>19

-----------------------------------------------------------------------------
(* Lemmas about the functions that are active.                             *)

(* The innermost function goes on, with other C locals.                    *)
LEMMA GoesOn ==
  ASSUME NEW k, Active(k), NEW g \in Frames,
         g.at \in Sources <=> k[Len(k)].at \in Sources
  PROVE  LET l == [k EXCEPT ![Len(k)] = g]
         IN  /\ Active(l) /\ Len(l) = Len(k) /\ l[Len(l)] = g
<1>1. k \in Seq(Frames) /\ Len(k) > 0
  BY DEF Active
<1>2. PICK n \in Nat : n = Len(k)
  BY <1>1, LenProperties
<1>3. n \in 1..Len(k) /\ n > 0
  BY <1>1, <1>2
<1>4. PICK l : l = [k EXCEPT ![n] = g]
  OBVIOUS
<1>5. /\ l \in Seq(Frames) /\ Len(l) = n
      /\ \A j \in 1..n : l[j] = IF j = n THEN g ELSE k[j]
  BY <1>1, <1>2, <1>3, <1>4, ExceptSeq
<1>6. /\ k[1].at \in Sources
      /\ \A i \in 2..n : k[i].at \notin Sources
      /\ \A i \in 1..n - 1 : k[i].at \notin Chars
      /\ g.at \in Sources <=> k[n].at \in Sources
  BY <1>2 DEF Active
<1>7. l[1].at \in Sources
  BY <1>3, <1>5, <1>6
<1>8. \A i \in 2..n : l[i].at \notin Sources
  BY <1>3, <1>5, <1>6
<1>9. \A i \in 1..n - 1 : l[i].at \notin Chars
  BY <1>3, <1>5, <1>6
<1>10. Active(l)
  BY <1>3, <1>5, <1>7, <1>8, <1>9 DEF Active
<1>11. l[n] = g
  BY <1>3, <1>5
<1>. QED
  BY <1>2, <1>4, <1>5, <1>10, <1>11

(* It calls another one.                                                   *)
LEMMA Calls ==
  ASSUME NEW l, Active(l), l[Len(l)].at \notin Chars,
         NEW f \in Frames, f.at \notin Sources
  PROVE  LET u == Append(l, f)
         IN  Active(u) /\ u[Len(u)] = f
<1>1. l \in Seq(Frames) /\ Len(l) > 0
  BY DEF Active
<1>2. PICK n \in Nat : n = Len(l)
  BY <1>1, LenProperties
<1>3. PICK u : u = Append(l, f)
  OBVIOUS
<1>4. /\ u \in Seq(Frames) /\ Len(u) = n + 1
      /\ \A i \in 1..n : u[i] = l[i]
      /\ u[n + 1] = f
  BY <1>1, <1>2, <1>3, AppendProperties
<1>5. /\ l[1].at \in Sources /\ n > 0
      /\ \A i \in 2..n : l[i].at \notin Sources
      /\ \A i \in 1..n - 1 : l[i].at \notin Chars
      /\ l[n].at \notin Chars
  BY <1>2 DEF Active
<1>6. u[1].at \in Sources
  BY <1>4, <1>5
<1>7. \A i \in 2..n + 1 : u[i].at \notin Sources
  <2>1. \A i \in 2..n + 1 : (i \in 2..n /\ i \in 1..n) \/ i = n + 1
    OBVIOUS
  <2>. QED
    BY <1>4, <1>5, <2>1
<1>8. \A i \in 1..(n + 1) - 1 : u[i].at \notin Chars
  <2>1. \A i \in 1..(n + 1) - 1 : i \in 1..n /\ (i \in 1..n - 1 \/ i = n)
    OBVIOUS
  <2>. QED
    BY <1>4, <1>5, <2>1
<1>9. Active(u)
  BY <1>4, <1>6, <1>7, <1>8 DEF Active
<1>. QED
  BY <1>3, <1>4, <1>9

(* It returns, to one that does not take characters.                       *)
LEMMA ReturnsTo ==
  ASSUME NEW k, Active(k), k[Len(k)].at \notin Sources
  PROVE  LET u == Front(k)
         IN  Active(u) /\ u[Len(u)].at \notin Chars
<1>1. k \in Seq(Frames) /\ Len(k) > 0
  BY DEF Active
<1>2. PICK n \in Nat : n = Len(k)
  BY <1>1, LenProperties
<1>3. /\ k[1].at \in Sources /\ n > 0 /\ k[n].at \notin Sources
      /\ \A i \in 2..n : k[i].at \notin Sources
      /\ \A i \in 1..n - 1 : k[i].at \notin Chars
  BY <1>2 DEF Active
<1>4. n > 1
  BY <1>3
<1>5. PICK u : u = Front(k)
  OBVIOUS
<1>6. /\ u \in Seq(Frames) /\ Len(u) = n - 1
      /\ \A i \in 1..n - 1 : u[i] = k[i]
  BY <1>1, <1>2, <1>5, FrontProperties
<1>7. u[1].at \in Sources /\ u[n - 1].at \notin Chars
  BY <1>3, <1>4, <1>6
<1>8. \A i \in 2..n - 1 : u[i].at \notin Sources
  BY <1>3, <1>6
<1>9. \A i \in 1..(n - 1) - 1 : u[i].at \notin Chars
  BY <1>3, <1>6
<1>10. Active(u)
  BY <1>4, <1>6, <1>7, <1>8, <1>9 DEF Active
<1>. QED
  BY <1>5, <1>6, <1>7, <1>10

LEMMA FrameIsFrame ==
  ASSUME compFn \in CompFns, NEW at \in Places
  PROVE  Frame(at) \in Frames /\ Frame(at).at = at
BY DEF Frame, Frames

LEMMA TopIsFrame ==
  ASSUME NEW k, Active(k)
  PROVE  k[Len(k)] \in Frames
<1>1. k \in Seq(Frames) /\ Len(k) > 0
  BY DEF Active
<1>2. Len(k) \in Nat
  BY <1>1, LenProperties
<1>3. Len(k) \in 1..Len(k)
  BY <1>1, <1>2
<1>. QED
  BY <1>1, <1>3, ElementOfSeq

LEMMA FrameAt ==
  ASSUME NEW f \in Frames, NEW at \in Places, NEW w \in BOOLEAN
  PROVE  /\ [f EXCEPT !.at = at] \in Frames /\ [f EXCEPT !.at = at].at = at
         /\ [f EXCEPT !.at = at, !.white = w] \in Frames
         /\ [f EXCEPT !.at = at, !.white = w].at = at
BY DEF Frames

-----------------------------------------------------------------------------
(* What the actions do to the ring and to the token.                       *)

LEMMA KeepReads ==
  ASSUME Reading, Keep, token' = token, UNCHANGED source
  PROVE  Reading'
BY DEF Reading, Keep, source

LEMMA IncHeadReads ==
  ASSUME Reading, UNCHANGED source, NEW n \in 0..Len(ring), incHead(n),
         token' = << >>
  PROVE  Reading'
<1>1. /\ Placed(text, head, ring, rest) /\ line = Ends(text, head)
      /\ Len(ring) <= RingCap /\ (eof => rest = << >>)
  BY DEF Reading
<1>2. /\ Placed(text, head + n, SubSeq(ring, n + 1, Len(ring)), rest)
      /\ Len(SubSeq(ring, n + 1, Len(ring))) <= Len(ring)
      /\ Ends(text, head + n) = Ends(text, head) + Ends(ring, n)
  BY <1>1, Taken
<1>3. PICK r : r = SubSeq(ring, n + 1, Len(ring))
  OBVIOUS
<1>4. /\ head' = head + n /\ ring' = r
      /\ line' = line + Ends(ring, n)
      /\ text' = text /\ rest' = rest /\ eof' = eof
  BY <1>3 DEF incHead, Ends, source
<1>5. /\ Placed(text, head + n, r, rest) /\ Len(r) <= Len(ring)
      /\ Ends(text, head + n) = line + Ends(ring, n)
  BY <1>1, <1>2, <1>3
<1>6. Len(r) <= RingCap
  <2>1. r \in Seq(Char) /\ ring \in Seq(Char)
    BY <1>1, <1>5 DEF Placed
  <2>2. PICK a \in Nat : a = Len(r)
    BY <2>1, LenProperties
  <2>3. PICK b \in Nat : b = Len(ring)
    BY <2>1, LenProperties
  <2>4. RingCap \in Nat
    BY CapAssumption
  <2>. QED
    BY <1>1, <1>5, <2>2, <2>3, <2>4
<1>7. AtHead(<< >>, r) /\ Len(<< >>) <= TokCap
  <2>1. r \in Seq(Char) /\ Len(r) \in Nat
    BY <1>5, LenProperties DEF Placed
  <2>2. << >> \in Seq(Char) /\ Len(<< >>) = 0
    OBVIOUS
  <2>3. TokCap \in Nat
    BY CapAssumption
  <2>. QED
    BY <2>1, <2>2, <2>3 DEF AtHead
<1>. QED
  BY <1>1, <1>4, <1>5, <1>6, <1>7 DEF Reading

LEMMA DropReads ==
  ASSUME Reading, tokenDrop, UNCHANGED source
  PROVE  Reading' /\ token' = << >>
<1>1. token \in Seq(Char) /\ ring \in Seq(Char) /\ Len(token) <= Len(ring)
  BY DEF Reading, AtHead, Placed
<1>2. Len(token) \in 0..Len(ring)
  BY <1>1, LenProperties
<1>3. incHead(Len(token)) /\ token' = << >>
  BY DEF tokenDrop
<1>. QED
  BY <1>2, <1>3, IncHeadReads

(* One character, when there is no token.                                  *)
LEMMA TakeReads ==
  ASSUME Reading, Known(0), ~None(0), incHead(1), token = << >>, token' = token,
         UNCHANGED source
  PROVE  Reading'
<1>1. Len(ring) \in Nat /\ 0 < Len(ring)
  BY LenProperties DEF Reading, Placed, Known, None
<1>. QED
  BY <1>1, IncHeadReads

(* The token gets the next character, which stays in the ring.             *)
LEMMA GrowReads ==
  ASSUME Reading, Known(Len(token)), ~None(Len(token)), Len(token) < TokCap,
         token' = Append(token, Get(Len(token))), Keep, UNCHANGED source
  PROVE  Reading'
<1>1. /\ token \in Seq(Char) /\ ring \in Seq(Char)
      /\ \A i \in 1..Len(token) : token[i] = ring[i]
  BY DEF Reading, AtHead, Placed
<1>2. PICK n \in Nat : n = Len(token)
  BY <1>1, LenProperties
<1>3. PICK m \in Nat : m = Len(ring)
  BY <1>1, LenProperties
<1>4. n < m
  BY <1>2, <1>3 DEF Known, None
<1>5. ring[n + 1] \in Char
  BY <1>1, <1>3, <1>4, ElementOfSeq
<1>6. PICK k : k = Append(token, ring[n + 1])
  OBVIOUS
<1>7. /\ k \in Seq(Char) /\ Len(k) = n + 1
      /\ \A i \in 1..n : k[i] = token[i]
      /\ k[n + 1] = ring[n + 1]
  BY <1>1, <1>2, <1>5, <1>6, AppendProperties
<1>8. \A i \in 1..n + 1 : k[i] = ring[i]
  <2>1. \A i \in 1..n + 1 : i \in 1..n \/ i = n + 1
    OBVIOUS
  <2>. QED
    BY <1>1, <1>2, <1>7, <2>1
<1>9. AtHead(k, ring)
  BY <1>3, <1>4, <1>7, <1>8 DEF AtHead
<1>10. Len(k) <= TokCap
  BY <1>2, <1>7, CapAssumption
<1>11. token' = k /\ ring' = ring /\ line' = line /\ head' = head
       /\ text' = text /\ rest' = rest /\ eof' = eof
  BY <1>2, <1>6 DEF Get, Keep, source
<1>. QED
  BY <1>9, <1>10, <1>11 DEF Reading

-----------------------------------------------------------------------------
(* How an action ends.                                                     *)

LEMMA Continues ==
  ASSUME ScannerInv, phase = "compile", Step, compFn' \in CompFns, Reading',
         NEW l, ctl' = l, Active(l), l[Len(l)].at \in Chars => token' = << >>
  PROVE  ScannerInv'
<1>1. text' = text /\ phase' = "compile"
  BY DEF Step, source
<1>2. /\ Placed(text', head', ring', rest') /\ line' = Ends(text', head')
  BY DEF Reading
<1>3. text' \in Seq(Char) /\ head' \in 0..Len(text')
  <2>1. PICK t, h, r, s : t = text' /\ h = head' /\ r = ring' /\ s = rest'
    OBVIOUS
  <2>2. Placed(t, h, r, s)
    BY <1>2, <2>1
  <2>3. /\ t \in Seq(Char) /\ h \in Nat /\ Len(r) \in Nat /\ Len(s) \in Nat
        /\ h + Len(r) + Len(s) = Len(t)
    BY <2>2, LenProperties DEF Placed
  <2>4. PICK a \in Nat, b \in Nat : a = Len(r) /\ b = Len(s)
    BY <2>3
  <2>5. Len(t) = h + a + b /\ h \in 0..h + a + b
    BY <2>3, <2>4
  <2>. QED
    BY <2>1, <2>3, <2>5
<1>4. Top' = l[Len(l)]
  BY DEF Top
<1>. QED
  BY <1>1, <1>2, <1>3, <1>4 DEF ScannerInv

LEMMA CallInv ==
  ASSUME ScannerInv, phase = "compile", Step, compFn' \in CompFns, Reading',
         NEW at \in Places, NEW fn \in Places, CallThen(at, fn),
         at \notin Chars, at \in Sources <=> Top.at \in Sources,
         fn \notin Sources, fn \notin Chars
  PROVE  ScannerInv'
<1>1. Active(ctl) /\ compFn \in CompFns
  BY DEF ScannerInv
<1>2. PICK k : k = ctl
  OBVIOUS
<1>3. Active(k) /\ (at \in Sources <=> k[Len(k)].at \in Sources)
  BY <1>1, <1>2 DEF Top
<1>4. k[Len(k)] \in Frames
  BY <1>3, TopIsFrame
<1>5. PICK g : g = [k[Len(k)] EXCEPT !.at = at]
  OBVIOUS
<1>6. g \in Frames /\ g.at = at
  BY <1>4, <1>5, FrameAt
<1>7. PICK l : l = [k EXCEPT ![Len(k)] = g]
  OBVIOUS
<1>8. Active(l) /\ l[Len(l)] = g
  BY <1>3, <1>6, <1>7, GoesOn
<1>9. PICK f \in Frames : f = Frame(fn) /\ f.at = fn
  BY <1>1, FrameIsFrame
<1>10. PICK u : u = Append(l, f)
  OBVIOUS
<1>11. Active(u) /\ u[Len(u)] = f
  BY <1>6, <1>8, <1>9, <1>10, Calls
<1>12. ctl' = u
  BY <1>2, <1>5, <1>7, <1>9, <1>10 DEF CallThen
<1>. QED
  BY <1>9, <1>11, <1>12, Continues

LEMMA ReplaceInv ==
  ASSUME ScannerInv, phase = "compile", Step, compFn' \in CompFns, Reading',
         NEW at \in Places, NEW g,
         \/ g = [Top EXCEPT !.at = at]
         \/ \E w \in BOOLEAN : g = [Top EXCEPT !.at = at, !.white = w],
         ctl' = [ctl EXCEPT ![Len(ctl)] = g],
         at \in Sources <=> Top.at \in Sources,
         at \in Chars => token' = << >>
  PROVE  ScannerInv'
<1>1. Active(ctl)
  BY DEF ScannerInv
<1>2. PICK k : k = ctl
  OBVIOUS
<1>3. Active(k) /\ Top = k[Len(k)] /\ (at \in Sources <=> k[Len(k)].at \in Sources)
  BY <1>1, <1>2 DEF Top
<1>4. k[Len(k)] \in Frames
  BY <1>3, TopIsFrame
<1>5. g \in Frames /\ g.at = at
  <2>1. PICK e \in Frames : e = Top
    BY <1>3, <1>4
  <2>2. CASE g = [e EXCEPT !.at = at]
    BY <2>2, FrameAt
  <2>3. ASSUME NEW w \in BOOLEAN, g = [e EXCEPT !.at = at, !.white = w]
        PROVE  g \in Frames /\ g.at = at
    BY <2>3, FrameAt
  <2>. QED
    BY <2>1, <2>2, <2>3
<1>6. PICK l : l = [k EXCEPT ![Len(k)] = g]
  OBVIOUS
<1>7. Active(l) /\ l[Len(l)] = g
  BY <1>3, <1>5, <1>6, GoesOn
<1>8. ctl' = l
  BY <1>2, <1>6
<1>. QED
  BY <1>5, <1>7, <1>8, Continues

LEMMA GotoInv ==
  ASSUME ScannerInv, phase = "compile", Step, compFn' \in CompFns, Reading',
         NEW at \in Places, Goto(at),
         at \in Sources <=> Top.at \in Sources,
         at \in Chars => token' = << >>
  PROVE  ScannerInv'
<1>1. PICK g : g = [Top EXCEPT !.at = at]
  OBVIOUS
<1>2. ctl' = [ctl EXCEPT ![Len(ctl)] = g]
  BY <1>1 DEF Goto, Top
<1>. QED
  BY <1>1, <1>2, ReplaceInv

LEMMA ReturnInv ==
  ASSUME ScannerInv, phase = "compile", Step, compFn' \in CompFns, Reading',
         Return, Top.at \notin Sources
  PROVE  ScannerInv'
<1>1. PICK k : k = ctl
  OBVIOUS
<1>2. Active(k) /\ k[Len(k)].at \notin Sources
  BY <1>1 DEF ScannerInv, Top
<1>3. PICK u : u = Front(k)
  OBVIOUS
<1>4. Active(u) /\ u[Len(u)].at \notin Chars
  BY <1>2, <1>3, ReturnsTo
<1>5. ctl' = u
  BY <1>1, <1>3 DEF Return
<1>. QED
  BY <1>4, <1>5, Continues

(* The innermost function stays where it is.                               *)
LEMMA StayInv ==
  ASSUME ScannerInv, phase = "compile", Step, compFn' \in CompFns, Reading',
         UNCHANGED ctl, Top.at \in Chars => token' = << >>
  PROVE  ScannerInv'
<1>1. PICK k : k = ctl
  OBVIOUS
<1>2. Active(k) /\ k[Len(k)] = Top
  BY <1>1 DEF ScannerInv, Top
<1>. QED
  BY <1>1, <1>2, Continues

LEMMA PanicInv ==
  ASSUME ScannerInv, Clears, Panic
  PROVE  ScannerInv'
<1>1. /\ token' = << >> /\ phase' \in {"left", "ready"}
      /\ text' = text /\ line' = line /\ head' = head /\ compFn' = compFn
  BY DEF Clears, Panic, source
<1>. QED
  BY <1>1 DEF ScannerInv

-----------------------------------------------------------------------------
(* The host and the reader.                                                *)

LEMMA InitInv ==
  ASSUME Init
  PROVE  ScannerInv
<1>1. /\ text = << >> /\ token = << >> /\ line = 0 /\ head = 0 /\ compFn = "base"
      /\ phase = "ready"
  BY DEF Init
<1>2. PICK t \in Seq(Char) : t = << >> /\ Len(t) = 0
  BY EmptySeq
<1>3. Ends(t, 0) = 0 /\ 0 \in 0..Len(t)
  BY <1>2, EndsStep
<1>4. text = t /\ line = Ends(t, head) /\ head \in 0..Len(t)
      /\ token = << >> /\ phase # "compile" /\ compFn \in CompFns
  BY <1>1, <1>2, <1>3 DEF CompFns
<1>. QED
  BY <1>4 DEF ScannerInv

LEMMA InputInv ==
  ASSUME ScannerInv, Clears, phase = "ready", NEW t \in Texts, Input(t)
  PROVE  ScannerInv'
<1>1. Exit(t) \/ Blank \/ compileRepl(t)
  BY DEF Input, Clears
<1>2. token = << >> /\ compFn \in CompFns /\ phase # "compile"
  BY DEF ScannerInv
<1>3. t \in Seq(Char) /\ Ends(t, 0) = 0 /\ Len(t) \in Nat /\ 0 \in 0..Len(t)
  <2>1. t \in Seq(Char)
    BY CharAssumption
  <2>. QED
    BY <2>1, LenProperties, EndsStep
<1>4. CASE Exit(t)
  BY <1>2, <1>4 DEF Exit, ScannerInv, source
<1>5. CASE Blank
  BY <1>2, <1>5 DEF Blank, ScannerInv, source
<1>6. CASE compileRepl(t)
  <2>1. /\ text' = t /\ rest' = t /\ eof' = FALSE /\ ring' = << >>
        /\ line' = 0 /\ head' = 0 /\ phase' = "compile"
        /\ ctl' = <<Frame("src")>> /\ token' = << >> /\ compFn' = compFn
    BY <1>2, <1>6 DEF compileRepl
  <2>2. << >> \in Seq(Char) /\ Len(<< >>) = 0
    OBVIOUS
  <2>3. Placed(t, 0, << >>, t)
    BY <1>3, <2>2 DEF Placed
  <2>4. AtHead(<< >>, << >>)
    BY <2>2 DEF AtHead
  <2>5. TokCap \in Nat /\ RingCap \in Nat
    BY CapAssumption
  <2>6. Reading'
    BY <1>3, <2>1, <2>2, <2>3, <2>4, <2>5 DEF Reading
  <2>7. PICK f \in Frames : f = Frame("src") /\ f.at = "src"
    <3>1. "src" \in Places
      BY DEF Places, Sources
    <3>. QED
      BY <1>2, <3>1, FrameIsFrame
  <2>8. PICK k : k = <<f>>
    OBVIOUS
  <2>9. k \in Seq(Frames) /\ Len(k) = 1 /\ k[1] = f
    BY <2>8
  <2>10. Active(k) /\ k[Len(k)].at \notin Chars
    BY <2>7, <2>9 DEF Active, Sources, Chars
  <2>11. ctl' = k /\ Top' = k[Len(k)]
    BY <2>1, <2>7, <2>8 DEF Top
  <2>. QED
    BY <1>2, <1>3, <2>1, <2>6, <2>10, <2>11 DEF ScannerInv
<1>. QED
  BY <1>1, <1>4, <1>5, <1>6

(* Where the reader is asked for more there is room for it.                *)
LEMMA RoomToRead ==
  ASSUME ScannerInv, phase = "compile", NEW i \in Looks, ~Known(i)
  PROVE  Len(ring) < RingCap
<1>1. /\ token \in Seq(Char) /\ ring \in Seq(Char) /\ Len(token) <= TokCap
  BY DEF ScannerInv, Reading, AtHead, Placed
<1>2. PICK n \in Nat : n = Len(token)
  BY <1>1, LenProperties
<1>3. PICK m \in Nat : m = Len(ring)
  BY <1>1, LenProperties
<1>4. i \in {0, n}
  BY <1>2 DEF Looks
<1>5. ~(i < m)
  BY <1>3 DEF Known
<1>6. RingCap \in Nat /\ TokCap \in 1..RingCap - 1
  BY CapAssumption
<1>. QED
  BY <1>1, <1>2, <1>3, <1>4, <1>5, <1>6

LEMMA ReadInv ==
  ASSUME ScannerInv, Read
  PROVE  ScannerInv'
<1>1. /\ phase = "compile" /\ phase' = phase /\ text' = text /\ token' = token
      /\ line' = line /\ head' = head /\ compFn' = compFn /\ ctl' = ctl
  BY DEF Read
<1>2. Reading /\ Active(ctl) /\ (Top.at \in Chars => token = << >>) /\ Top' = Top
  BY <1>1 DEF ScannerInv, Top
<1>3. Reading'
  <2>1. CASE rest = << >> /\ eof' = TRUE /\ UNCHANGED <<rest, ring>>
    BY <1>1, <1>2, <2>1 DEF Reading
  <2>2. ASSUME NEW n \in 1..Len(rest), Len(ring) + n <= RingCap,
               ring' = ring \o SubSeq(rest, 1, n),
               rest' = SubSeq(rest, n + 1, Len(rest)), eof' = eof
        PROVE  Reading'
    <3>1. Placed(text, head, ring, rest) /\ AtHead(token, ring)
          /\ line = Ends(text, head) /\ Len(token) <= TokCap
          /\ (eof => rest = << >>)
      BY <1>2 DEF Reading
    <3>2. /\ Placed(text, head, ring', rest') /\ Len(ring') = Len(ring) + n
          /\ AtHead(token, ring')
      BY <2>2, <3>1, Refilled
    <3>3. ~eof
      BY <3>1
    <3>. QED
      BY <1>1, <2>2, <3>1, <3>2, <3>3 DEF Reading
  <2>. QED
    BY <2>1, <2>2 DEF Read
<1>. QED
  BY <1>1, <1>2, <1>3 DEF ScannerInv

-----------------------------------------------------------------------------
(* The scanner.                                                            *)

(* The places whose names say which of the sets they are in.               *)
LEMMA PlaceNames ==
  /\ Others \subseteq Places /\ Chars \subseteq Places /\ Sources \subseteq Places
  /\ \A at \in Others : at \notin Sources /\ at \notin Chars
  /\ \A at \in Chars : at \notin Sources
BY DEF Places, Others, Chars, Sources

LEMMA scanRawInv ==
  ASSUME ScannerInv, scanRaw
  PROVE  ScannerInv'
<1>1. /\ phase = "compile" /\ Top.at = "raw" /\ Step /\ compFn' = compFn
      /\ Reading /\ compFn' \in CompFns
  BY DEF scanRaw, At, ScannerInv
<1>2. UNCHANGED source
  BY <1>1 DEF Step
<1>3. Top.at \in Others
  BY <1>1 DEF Others
<1>4. CASE Return /\ Keep /\ UNCHANGED token
  BY <1>1, <1>2, <1>3, <1>4, PlaceNames, KeepReads, ReturnInv
<1>5. CASE /\ token = << >> /\ Known(0) /\ ~None(0)
           /\ incHead(1) /\ UNCHANGED <<token, ctl>>
  <2>1. Reading'
    BY <1>1, <1>2, <1>5, TakeReads
  <2>. QED
    BY <1>1, <1>3, <1>5, <2>1, PlaceNames, StayInv
<1>6. CASE /\ token = << >> /\ Known(0) /\ ~None(0)
           /\ token' = <<Get(0)>> /\ Keep
           /\ Return \/ Goto("group")
  <2>1. Reading'
    <3>1. Len(token) = 0 /\ Append(token, Get(0)) = <<Get(0)>>
      BY <1>6
    <3>2. 0 < TokCap
      BY CapAssumption
    <3>. QED
      BY <1>1, <1>2, <1>6, <3>1, <3>2, GrowReads
  <2>2. "group" \in Others
    BY DEF Others
  <2>. QED
    BY <1>1, <1>3, <1>6, <2>1, <2>2, PlaceNames, ReturnInv, GotoInv
<1>. QED
  BY <1>4, <1>5, <1>6 DEF scanRaw

LEMMA scanRaw_groupInv ==
  ASSUME ScannerInv, Clears, scanRaw_group
  PROVE  ScannerInv'
<1>. DEFINE i == Len(token)
<1>1. /\ phase = "compile" /\ Top.at = "group" /\ Known(i)
      /\ Reading /\ compFn \in CompFns
  BY DEF scanRaw_group, At, ScannerInv
<1>2. Top.at \in Others
  BY <1>1 DEF Others
<1>3. i \in Nat /\ i <= TokCap /\ TokCap \in Nat
  BY <1>1, LenProperties, CapAssumption DEF Reading, AtHead
<1>4. CASE Grouped(i) /\ i = TokCap
  BY <1>4, PanicInv DEF scanRaw_group
<1>5. CASE ~(Grouped(i) /\ i = TokCap)
  <2>1. /\ IF Grouped(i) THEN token' = Append(token, Get(i)) /\ UNCHANGED ctl
                         ELSE Return /\ UNCHANGED token
        /\ Step /\ Keep /\ compFn' = compFn
    BY <1>5 DEF scanRaw_group
  <2>2. UNCHANGED source
    BY <2>1 DEF Step
  <2>3. CASE Grouped(i)
    <3>1. i < TokCap /\ ~None(i)
      BY <1>3, <1>5, <2>3 DEF Grouped
    <3>. HIDE DEF i
    <3>2. Reading'
      <4>. USE DEF i
      <4>. QED
        BY <1>1, <2>1, <2>2, <2>3, <3>1, GrowReads
    <3>. QED
      BY <1>1, <1>2, <2>1, <2>3, <3>2, PlaceNames, StayInv
  <2>4. CASE ~Grouped(i)
    BY <1>1, <1>2, <2>1, <2>2, <2>4, PlaceNames, KeepReads, ReturnInv
  <2>. QED
    BY <2>3, <2>4
<1>. QED
  BY <1>4, <1>5

LEMMA scanInv ==
  ASSUME ScannerInv, scan \/ scan_found
  PROVE  ScannerInv'
<1>1. /\ phase = "compile" /\ Top.at \in {"scan", "found"} /\ Step
      /\ compFn' = compFn /\ Reading /\ compFn' \in CompFns
  BY DEF scan, scan_found, At, ScannerInv
<1>2. Top.at \in Others /\ {"found", "raw", "scan", "N_fslash"} \subseteq Others
  BY <1>1 DEF Others
<1>3. UNCHANGED source
  BY <1>1 DEF Step
<1>4. CASE Keep /\ UNCHANGED token /\ (CallThen("found", "raw") \/ Return)
  <2>1. Reading'
    BY <1>1, <1>3, <1>4, KeepReads
  <2>. QED
    BY <1>1, <1>2, <1>4, <2>1, PlaceNames, CallInv, ReturnInv
<1>5. CASE tokenDrop /\ CallThen("scan", "N_fslash")
  BY <1>1, <1>2, <1>3, <1>5, PlaceNames, DropReads, CallInv
<1>. QED
  BY <1>4, <1>5 DEF scan, scan_found

LEMMA N_fslashInv ==
  ASSUME ScannerInv, Clears, N_fslash
  PROVE  ScannerInv'
<1>1. /\ phase = "compile" /\ Top.at = "N_fslash" /\ Reading /\ compFn \in CompFns
  BY DEF N_fslash, At, ScannerInv
<1>2. Top.at \in Others /\ {"scanLine", "fslash"} \subseteq Others
  BY <1>1 DEF Others
<1>3. CASE None(0)
  BY <1>3, PanicInv DEF N_fslash
<1>4. CASE ~None(0)
  <2>1. /\ Return \/ Goto("scanLine") \/ Goto("fslash")
        /\ Step /\ Keep /\ UNCHANGED <<token, compFn>>
    BY <1>4 DEF N_fslash
  <2>2. Reading'
    BY <1>1, <2>1, KeepReads DEF Step
  <2>. QED
    BY <1>1, <1>2, <2>1, <2>2, PlaceNames, ReturnInv, GotoInv
<1>. QED
  BY <1>3, <1>4

LEMMA scanLineInv ==
  ASSUME ScannerInv, Clears, scanLine
  PROVE  ScannerInv'
<1>. DEFINE i   == Len(token)
            end == None(i) \/ Get(i) = "nl"
<1>1. /\ phase = "compile" /\ Top.at = "scanLine" /\ Known(i)
      /\ Reading /\ compFn \in CompFns
  BY DEF scanLine, At, ScannerInv
<1>2. Top.at \in Others
  BY <1>1 DEF Others
<1>3. i \in Nat /\ i <= TokCap /\ TokCap \in Nat
  BY <1>1, LenProperties, CapAssumption DEF Reading, AtHead
<1>4. CASE ~end /\ i = TokCap
  BY <1>4, PanicInv DEF scanLine
<1>5. CASE ~(~end /\ i = TokCap)
  <2>1. /\ IF end THEN tokenDrop /\ Return
                  ELSE token' = Append(token, Get(i)) /\ Keep /\ UNCHANGED ctl
        /\ Step /\ compFn' = compFn
    BY <1>5 DEF scanLine
  <2>2. UNCHANGED source
    BY <2>1 DEF Step
  <2>3. CASE end
    BY <1>1, <1>2, <2>1, <2>2, <2>3, PlaceNames, DropReads, ReturnInv
  <2>4. CASE ~end
    <3>1. i < TokCap /\ ~None(i)
      BY <1>3, <1>5, <2>4
    <3>2. token' = Append(token, Get(i)) /\ Keep /\ UNCHANGED ctl
      BY <2>1, <2>4
    <3>3. Reading'
      BY <1>1, <2>2, <3>1, <3>2, GrowReads
    <3>. QED
      BY <1>1, <1>2, <2>1, <3>2, <3>3, PlaceNames, StayInv
  <2>. QED
    BY <2>3, <2>4
<1>. QED
  BY <1>4, <1>5

LEMMA commentInv ==
  ASSUME ScannerInv, _N_fslash \/ _N_fslash_token \/ _N_fslash_restore
  PROVE  ScannerInv'
<1>1. /\ phase = "compile" /\ Top.at \in {"fslash", "commented", "restore"} /\ Step
      /\ Reading /\ compFn \in CompFns
  BY DEF _N_fslash, _N_fslash_token, _N_fslash_restore, At, ScannerInv
<1>2. Top.at \in Others /\ {"commented", "raw", "restore", "single"} \subseteq Others
  BY <1>1 DEF Others
<1>3. UNCHANGED source
  BY <1>1 DEF Step
<1>4. CASE _N_fslash
  <2>1. compFn' = "fslash" /\ CallThen("commented", "raw") /\ Keep /\ UNCHANGED token
    BY <1>4 DEF _N_fslash
  <2>2. compFn' \in CompFns
    BY <2>1 DEF CompFns
  <2>. QED
    BY <1>1, <1>2, <1>3, <2>1, <2>2, PlaceNames, KeepReads, CallInv
<1>5. CASE _N_fslash_token
  <2>1. CASE token = <<"(">>
    <3>1. Keep /\ UNCHANGED token /\ CallThen("restore", "single") /\ compFn' = compFn
      BY <1>5, <2>1 DEF _N_fslash_token
    <3>. QED
      BY <1>1, <1>2, <1>3, <3>1, PlaceNames, KeepReads, CallInv
  <2>2. CASE token # <<"(">>
    <3>1. tokenDrop /\ Goto("restore") /\ compFn' = compFn
      BY <1>5, <2>2 DEF _N_fslash_token
    <3>. QED
      BY <1>1, <1>2, <1>3, <3>1, PlaceNames, DropReads, GotoInv
  <2>. QED
    BY <2>1, <2>2
<1>6. CASE _N_fslash_restore
  <2>1. compFn' = Top.cfn /\ Return /\ Keep /\ UNCHANGED token
    BY <1>6 DEF _N_fslash_restore
  <2>2. compFn' \in CompFns
    <3>1. PICK k : k = ctl
      OBVIOUS
    <3>2. k[Len(k)] \in Frames
      BY <1>1, <3>1, TopIsFrame DEF ScannerInv
    <3>. QED
      BY <2>1, <3>1, <3>2 DEF Top, Frames
  <2>. QED
    BY <1>1, <1>2, <1>3, <2>1, <2>2, PlaceNames, KeepReads, ReturnInv
<1>. QED
  BY <1>4, <1>5, <1>6

-----------------------------------------------------------------------------
(* The handlers.                                                           *)

LEMMA compileSrcInv ==
  ASSUME ScannerInv, compileSrc \/ compileSrc_eof
  PROVE  ScannerInv'
<1>1. /\ phase = "compile" /\ Top.at \in Sources /\ Keep
      /\ UNCHANGED <<source, token, compFn>>
      /\ Reading /\ compFn \in CompFns
  BY DEF compileSrc, compileSrc_eof, At, ScannerInv, Step, Sources
<1>2. Reading'
  BY <1>1, KeepReads
<1>3. {"src", "srcEof"} \subseteq Sources /\ compFnAt \in Others
  BY DEF Sources, Others, compFnAt
<1>4. CASE compileSrc
  BY <1>1, <1>2, <1>3, <1>4, PlaceNames, CallInv DEF compileSrc
<1>5. CASE compileSrc_eof /\ ~Eof
  <2>1. Goto("src") /\ Step
    BY <1>5 DEF compileSrc_eof, Step
  <2>. QED
    BY <1>1, <1>2, <1>3, <2>1, PlaceNames, GotoInv
<1>6. CASE compileSrc_eof /\ Eof
  <2>1. phase' = "ready" /\ token' = token /\ compFn' = compFn /\ text' = text
        /\ head' = head /\ line' = line
    BY <1>6 DEF compileSrc_eof, Keep, source
  <2>2. token = << >>
    <3>1. token \in Seq(Char) /\ Len(token) <= 0
      BY <1>1, <1>6 DEF Eof, Reading, AtHead
    <3>. QED
      BY <3>1, EmptySeq
  <2>. QED
    BY <2>1, <2>2 DEF ScannerInv
<1>. QED
  BY <1>4, <1>5, <1>6

LEMMA callsInv ==
  ASSUME ScannerInv, baseCompFn \/ single \/ N_paren \/ N_blk \/ N_blk_end
  PROVE  ScannerInv'
<1>1. /\ phase = "compile" /\ Step /\ Keep /\ UNCHANGED <<token, compFn>>
      /\ Top.at \in {"baseCompFn", "single", "paren", "blkBody", "blkEnd"}
      /\ Reading /\ compFn' \in CompFns
  BY DEF baseCompFn, single, N_paren, N_blk, N_blk_end, At, ScannerInv
<1>2. /\ Top.at \in Others
      /\ {"single", "singleToken", "parenToken", "blkToken", "scan"} \subseteq Others
  BY <1>1 DEF Others
<1>3. Reading'
  BY <1>1, KeepReads DEF Step
<1>4. CASE baseCompFn
  <2>1. Return \/ Goto("single")
    BY <1>4 DEF baseCompFn
  <2>. QED
    BY <1>1, <1>2, <1>3, <2>1, PlaceNames, ReturnInv, GotoInv
<1>5. CASE single
  BY <1>1, <1>2, <1>3, <1>5, PlaceNames, CallInv DEF single
<1>6. CASE N_paren
  BY <1>1, <1>2, <1>3, <1>6, PlaceNames, CallInv DEF N_paren
<1>7. CASE N_blk
  BY <1>1, <1>2, <1>3, <1>7, PlaceNames, CallInv DEF N_blk
<1>8. CASE N_blk_end
  BY <1>1, <1>2, <1>3, <1>8, PlaceNames, ReturnInv DEF N_blk_end
<1>. QED
  BY <1>4, <1>5, <1>6, <1>7, <1>8

LEMMA singleTokenInv ==
  ASSUME ScannerInv, Clears, singleToken
  PROVE  ScannerInv'
<1>1. /\ phase = "compile" /\ Top.at = "singleToken" /\ Reading /\ compFn \in CompFns
  BY DEF singleToken, At, ScannerInv
<1>2. /\ Top.at \in Others /\ {"paren", "blkBody", "ch", "scan"} \subseteq Others
      /\ compFnAt \in Others /\ "string" \in Chars
  BY <1>1 DEF Others, Chars, compFnAt
<1>3. CASE token # << >> /\ ~HasName(token)
  BY <1>3, PanicInv DEF singleToken
<1>4. CASE ~(token # << >> /\ ~HasName(token))
  <2>1. /\ Step /\ compFn' = compFn /\ tokenDrop
        /\ \/ Goto("paren") \/ Goto("string")
           \/ CallThen("blkBody", compFnAt) \/ CallThen("ch", "scan") \/ Return
    BY <1>4 DEF singleToken
  <2>2. Reading' /\ token' = << >>
    BY <1>1, <2>1, DropReads DEF Step
  <2>3. CASE Return
    BY <1>1, <1>2, <2>1, <2>2, <2>3, PlaceNames, ReturnInv
  <2>4. CASE Goto("paren") \/ Goto("string")
    BY <1>1, <1>2, <2>1, <2>2, <2>4, PlaceNames, GotoInv
  <2>5. CASE CallThen("blkBody", compFnAt) \/ CallThen("ch", "scan")
    BY <1>1, <1>2, <2>1, <2>2, <2>5, PlaceNames, CallInv
  <2>. QED
    BY <2>1, <2>3, <2>4, <2>5
<1>. QED
  BY <1>3, <1>4

LEMMA tokensInv ==
  ASSUME ScannerInv, Clears, N_paren_token \/ N_blk_token \/ N_ch
  PROVE  ScannerInv'
<1>1. /\ phase = "compile" /\ Top.at \in {"parenToken", "blkToken", "ch"}
      /\ Reading /\ compFn \in CompFns
  BY DEF N_paren_token, N_blk_token, N_ch, At, ScannerInv
<1>2. /\ Top.at \in Others /\ {"paren", "blkEnd"} \subseteq Others
      /\ compFnAt \in Others /\ "char" \in Chars
  BY <1>1 DEF Others, Chars, compFnAt
<1>3. CASE Panic
  BY <1>3, PanicInv
<1>4. CASE Step /\ compFn' = compFn /\ tokenDrop
           /\ (Return \/ CallThen("blkEnd", compFnAt) \/ Goto("char"))
  <2>1. Reading' /\ token' = << >>
    BY <1>1, <1>4, DropReads DEF Step
  <2>. QED
    BY <1>1, <1>2, <1>4, <2>1, PlaceNames, ReturnInv, CallInv, GotoInv
<1>5. CASE Step /\ compFn' = compFn /\ Keep /\ UNCHANGED token
           /\ (CallThen("paren", compFnAt) \/ Goto("blkEnd"))
  <2>1. Reading'
    BY <1>1, <1>5, KeepReads DEF Step
  <2>. QED
    BY <1>1, <1>2, <1>5, <2>1, PlaceNames, CallInv, GotoInv
<1>6. CASE N_paren_token
  BY <1>3, <1>4, <1>5, <1>6 DEF N_paren_token
<1>7. CASE N_blk_token
  BY <1>3, <1>4, <1>5, <1>7 DEF N_blk_token
<1>8. CASE N_ch
  BY <1>3, <1>4, <1>5, <1>8 DEF N_ch
<1>. QED
  BY <1>6, <1>7, <1>8

(* How the functions that take characters go on.                           *)
LEMMA GivenEnds ==
  ASSUME NEW c, NEW unknownEsc, Given(c, unknownEsc)
  PROVE  \/ Return
         \/ \E w \in {c = "nl", Top.white} :
              ctl' = [ctl EXCEPT ![Len(ctl)].at = "string", ![Len(ctl)].white = w]
<1>1. CASE Top.at \in {"char", "charEscape"}
  BY <1>1 DEF Given
<1>2. CASE Top.at \notin {"char", "charEscape"}
  BY <1>2 DEF Given, parseSlc
<1>. QED
  BY <1>1, <1>2

LEMMA GivenInv ==
  ASSUME ScannerInv, phase = "compile", Step, compFn' \in CompFns, Reading',
         token' = << >>, Top.at \in Chars,
         NEW c, NEW unknownEsc, Given(c, unknownEsc)
  PROVE  ScannerInv'
<1>1. CASE Return
  BY <1>1, PlaceNames, ReturnInv
<1>2. ASSUME NEW w \in {c = "nl", Top.white},
             ctl' = [ctl EXCEPT ![Len(ctl)].at = "string", ![Len(ctl)].white = w]
      PROVE  ScannerInv'
  <2>1. PICK k : k = ctl
    OBVIOUS
  <2>2. k[Len(k)] \in Frames
    BY <2>1, TopIsFrame DEF ScannerInv
  <2>3. PICK f \in Frames : f = k[Len(k)] /\ f = Top
    BY <2>1, <2>2 DEF Top
  <2>4. w \in BOOLEAN
    BY <1>2, <2>3 DEF Frames
  <2>5. PICK g : g = [f EXCEPT !.at = "string", !.white = w]
    OBVIOUS
  <2>6. ctl' = [ctl EXCEPT ![Len(ctl)] = g]
    BY <1>2, <2>1, <2>3, <2>5
  <2>7. "string" \in Chars
    BY DEF Chars
  <2>. QED
    BY <2>3, <2>4, <2>5, <2>6, <2>7, PlaceNames, ReplaceInv
<1>. QED
  BY <1>1, <1>2, GivenEnds

LEMMA charInv ==
  ASSUME ScannerInv, Clears, charNextEsc \/ charNextEsc_escape
  PROVE  ScannerInv'
<1>1. /\ phase = "compile" /\ Top.at \in Chars /\ Known(0)
      /\ Reading /\ compFn \in CompFns /\ token = << >>
  BY DEF charNextEsc, charNextEsc_escape, At, ScannerInv, Chars
<1>2. {"charEscape", "stringEscape"} \subseteq Chars
  BY DEF Chars
<1>3. CASE Panic
  BY <1>3, PanicInv
<1>4. CASE ~None(0) /\ incHead(1) /\ Step /\ UNCHANGED <<token, compFn>>
  <2>1. Reading' /\ token' = << >> /\ compFn' \in CompFns
    BY <1>1, <1>4, TakeReads DEF Step
  <2>2. ASSUME NEW c, NEW unknownEsc, Given(c, unknownEsc)
        PROVE  ScannerInv'
    BY <1>1, <1>4, <2>1, <2>2, GivenInv
  <2>3. ASSUME NEW at \in {"charEscape", "stringEscape"}, Goto(at)
        PROVE  ScannerInv'
    BY <1>1, <1>2, <1>4, <2>1, <2>3, PlaceNames, GotoInv
  <2>4. CASE charNextEsc
    BY <1>4, <2>2, <2>3, <2>4 DEF charNextEsc
  <2>5. CASE charNextEsc_escape
    BY <1>3, <1>4, <2>2, <2>5 DEF charNextEsc_escape
  <2>. QED
    BY <2>4, <2>5
<1>. QED
  BY <1>3, <1>4 DEF charNextEsc, charNextEsc_escape

-----------------------------------------------------------------------------
(* The invariant, and the properties that follow from it.                  *)

LEMMA NextInv ==
  ASSUME ScannerInv, Clears, Next
  PROVE  ScannerInv'
<1>1. CASE Scan
  BY <1>1, scanRawInv, scanRaw_groupInv, scanInv, N_fslashInv, scanLineInv,
     commentInv DEF Scan
<1>2. CASE Handle
  BY <1>2, compileSrcInv, callsInv, singleTokenInv, tokensInv, charInv DEF Handle
<1>. QED
  BY <1>1, <1>2, InputInv, ReadInv DEF Next

LEMMA StutterInv ==
  ASSUME ScannerInv, UNCHANGED vars
  PROVE  ScannerInv'
<1>1. /\ text' = text /\ rest' = rest /\ eof' = eof /\ ring' = ring
      /\ token' = token /\ line' = line /\ head' = head /\ compFn' = compFn
      /\ ctl' = ctl /\ phase' = phase
  BY DEF vars, source
<1>2. Reading' = Reading /\ Top' = Top
  BY <1>1 DEF Reading, Top
<1>. QED
  BY <1>1, <1>2 DEF ScannerInv

(* ScannerInv holds in every state.                                        *)
LEMMA ScannerInvariant ==
  ASSUME Clears
  PROVE  Spec => []ScannerInv
<1>1. Init => ScannerInv
  BY InitInv
<1>2. ScannerInv /\ [Next]_vars => ScannerInv'
  BY NextInv, StutterInv
<1>. QED
  BY <1>1, <1>2, PTL DEF Spec

(***************************************************************************)
(* TokenInRing: of any input, however the reader cuts it into pieces, the  *)
(* token that is not dropped yet is the text at the head of the ring.      *)
(***************************************************************************)
THEOREM TokenStaysInRing ==
  ASSUME Clears
  PROVE  Spec => []TokenInRing
<1>1. ASSUME ScannerInv, phase = "compile"
      PROVE  IsPrefix(token, ring)
  BY <1>1, AtHeadIsPrefix DEF ScannerInv, Reading, Placed
<1>2. ScannerInv => TokenInRing
  BY <1>1 DEF TokenInRing
<1>. QED
  BY <1>2, ScannerInvariant, PTL

(***************************************************************************)
(* LineOfHead: every end of line that has left the ring is counted once,   *)
(* also in comments, in strings and after panics.                          *)
(***************************************************************************)
THEOREM LinesCounted ==
  ASSUME Clears
  PROVE  Spec => []LineOfHead
<1>1. ScannerInv => LineOfHead
  BY DEF ScannerInv, LineOfHead, Ends
<1>. QED
  BY <1>1, ScannerInvariant, PTL

(***************************************************************************)
(* The reader is never asked for a character that the ring has no room     *)
(* for: a token that fills its buffer still leaves a place, which is why   *)
(* the ring has to be the larger of the two.                               *)
(***************************************************************************)
ReaderHasRoom ==
  phase = "compile" => \A i \in Looks : ~Known(i) => Len(ring) < RingCap

THEOREM ReaderAlwaysHasRoom ==
  ASSUME Clears
  PROVE  Spec => []ReaderHasRoom
<1>1. ScannerInv => ReaderHasRoom
  BY RoomToRead DEF ReaderHasRoom
<1>. QED
  BY <1>1, ScannerInvariant, PTL

-----------------------------------------------------------------------------
(* Words, and the first character of a set, by their positions.            *)

(* n is the first position from i on that has a character of the set, or   *)
(* the end.                                                                *)
IsFirst(t, i, set, n) ==
  /\ n \in i..Len(t) + 1
  /\ \A j \in i..n - 1 : t[j] \notin set
  /\ n <= Len(t) => t[n] \in set

LEMMA FirstFacts ==
  ASSUME NEW t \in Seq(Char), NEW i \in 1..Len(t) + 1, NEW set
  PROVE  IsFirst(t, i, set, First(t, i, set))
<1>1. PICK l \in Nat : l = Len(t)
  BY LenProperties
<1>. DEFINE S == {j \in i..l : t[j] \in set} \union {l + 1}
<1>2. S \subseteq Nat /\ S # {}
  BY <1>1
<1>3. PICK x \in S : \A y \in S : x <= y
  <2>. HIDE DEF S
  <2>. QED
    BY <1>2, LeastOf
<1>4. PICK n \in S : n = First(t, i, set) /\ \A y \in S : n <= y
  <2>1. First(t, i, set) = Min(S)
    BY <1>1 DEF First
  <2>2. Min(S) = CHOOSE z \in S : \A y \in S : z <= y
    <3>. HIDE DEF S
    <3>. QED
      BY DEF Min
  <2>. HIDE DEF S
  <2>3. \E z \in S : \A y \in S : z <= y
    BY <1>3
  <2>4. PICK m : m = Min(S)
    OBVIOUS
  <2>5. m \in S /\ \A y \in S : m <= y
    BY <2>2, <2>3, <2>4
  <2>. QED
    BY <2>1, <2>4, <2>5
<1>5. n \in i..l + 1
  BY <1>1
<1>6. \A j \in i..n - 1 : t[j] \notin set
  <2>1. ASSUME NEW j \in i..n - 1, t[j] \in set
        PROVE  FALSE
    <3>1. j \in i..l /\ j < n
      BY <1>1, <1>5
    <3>2. j \in S
      BY <2>1, <3>1
    <3>. QED
      BY <1>4, <1>5, <3>1, <3>2
  <2>. QED
    BY <2>1
<1>7. n <= l => t[n] \in set
  BY <1>1
<1>. QED
  BY <1>1, <1>4, <1>5, <1>6, <1>7 DEF IsFirst

LEMMA FirstIs ==
  ASSUME NEW t \in Seq(Char), NEW i \in 1..Len(t) + 1, NEW set, NEW n,
         IsFirst(t, i, set, n)
  PROVE  First(t, i, set) = n
<1>1. PICK l \in Nat : l = Len(t)
  BY LenProperties
<1>2. PICK m : m = First(t, i, set)
  OBVIOUS
<1>3. IsFirst(t, i, set, m)
  BY <1>2, FirstFacts
<1>4. /\ m \in i..l + 1 /\ (\A j \in i..m - 1 : t[j] \notin set) /\ (m <= l => t[m] \in set)
      /\ n \in i..l + 1 /\ (\A j \in i..n - 1 : t[j] \notin set) /\ (n <= l => t[n] \in set)
  BY <1>1, <1>3 DEF IsFirst
<1>5. CASE m < n
  BY <1>1, <1>4, <1>5
<1>6. CASE n < m
  BY <1>1, <1>4, <1>6
<1>7. m = n
  BY <1>1, <1>4, <1>5, <1>6
<1>. QED
  BY <1>2, <1>7

(* Behind a character that is not in the set, the first one is the same;   *)
(* one that is in the set is the first.                                    *)
LEMMA FirstStep ==
  ASSUME NEW t \in Seq(Char), NEW i \in 1..Len(t), NEW set
  PROVE  /\ t[i] \in set => First(t, i, set) = i
         /\ t[i] \notin set => First(t, i, set) = First(t, i + 1, set)
<1>1. PICK l \in Nat : l = Len(t)
  BY LenProperties
<1>2. i \in 1..l /\ i \in 1..Len(t) + 1 /\ i + 1 \in 1..Len(t) + 1
  BY <1>1
<1>3. ASSUME t[i] \in set
      PROVE  First(t, i, set) = i
  <2>1. IsFirst(t, i, set, i)
    BY <1>1, <1>2, <1>3 DEF IsFirst
  <2>. QED
    BY <1>2, <2>1, FirstIs
<1>4. ASSUME t[i] \notin set
      PROVE  First(t, i, set) = First(t, i + 1, set)
  <2>1. PICK n : n = First(t, i + 1, set)
    OBVIOUS
  <2>2. IsFirst(t, i + 1, set, n)
    BY <1>2, <2>1, FirstFacts
  <2>3. n \in i + 1..l + 1 /\ (\A j \in i + 1..n - 1 : t[j] \notin set) /\ (n <= l => t[n] \in set)
    BY <1>1, <2>2 DEF IsFirst
  <2>4. \A j \in i..n - 1 : j = i \/ j \in i + 1..n - 1
    BY <1>1, <1>2, <2>3
  <2>5. \A j \in i..n - 1 : t[j] \notin set
    BY <1>4, <2>3, <2>4
  <2>6. n \in i..l + 1
    BY <1>1, <1>2, <2>3
  <2>7. IsFirst(t, i, set, n)
    BY <1>1, <2>3, <2>5, <2>6 DEF IsFirst
  <2>. QED
    BY <1>2, <2>1, <2>7, FirstIs
<1>. QED
  BY <1>3, <1>4

LEMMA FirstAtEnd ==
  ASSUME NEW t \in Seq(Char), NEW set
  PROVE  First(t, Len(t) + 1, set) = Len(t) + 1
<1>1. PICK l \in Nat : l = Len(t)
  BY LenProperties
<1>2. l + 1 \in 1..Len(t) + 1
  BY <1>1
<1>3. IsFirst(t, l + 1, set, l + 1)
  BY <1>1 DEF IsFirst
<1>. QED
  BY <1>1, <1>2, <1>3, FirstIs

(* e is the last position of the word at i.                                *)
IsEnd(t, i, e) ==
  /\ e \in i..Len(t)
  /\ t[i] \in Single => e = i
  /\ t[i] \notin Single =>
       /\ \A k \in i..e : tokenGroup(t[k]) = tokenGroup(t[i])
       /\ e < Len(t) => tokenGroup(t[e + 1]) # tokenGroup(t[i])

LEMMA WordEndFacts ==
  ASSUME NEW t \in Seq(Char), NEW i \in 1..Len(t)
  PROVE  IsEnd(t, i, WordEnd(t, i))
<1>1. PICK l \in Nat : l = Len(t)
  BY LenProperties
<1>2. i \in 1..l
  BY <1>1
<1>3. CASE t[i] \in Single
  BY <1>1, <1>2, <1>3 DEF WordEnd, IsEnd
<1>4. CASE t[i] \notin Single
  <2>. DEFINE S == {j \in i..l : \A k \in i..j : tokenGroup(t[k]) = tokenGroup(t[i])}
  <2>1. S \subseteq 0..l /\ i \in S
    BY <1>2
  <2>2. PICK x \in S : \A y \in S : x >= y
    <3>. HIDE DEF S
    <3>. QED
      BY <2>1, GreatestOf
  <2>3. WordEnd(t, i) = Max(S)
    BY <1>1, <1>4 DEF WordEnd
  <2>4. PICK e \in S : e = Max(S) /\ \A y \in S : e >= y
    <3>. HIDE DEF S
    <3>1. PICK m : m = Max(S)
      OBVIOUS
    <3>2. m = CHOOSE z \in S : \A y \in S : z >= y
      BY <3>1 DEF Max
    <3>3. m \in S /\ \A y \in S : m >= y
      BY <2>2, <3>2
    <3>. QED
      BY <3>1, <3>3
  <2>5. e \in i..l /\ \A k \in i..e : tokenGroup(t[k]) = tokenGroup(t[i])
    OBVIOUS
  <2>6. ASSUME e < l, tokenGroup(t[e + 1]) = tokenGroup(t[i])
        PROVE  FALSE
    <3>1. e + 1 \in i..l /\ \A k \in i..e + 1 : k \in i..e \/ k = e + 1
      BY <1>1, <1>2, <2>5, <2>6
    <3>2. \A k \in i..e + 1 : tokenGroup(t[k]) = tokenGroup(t[i])
      BY <2>5, <2>6, <3>1
    <3>3. e + 1 \in S
      BY <3>1, <3>2
    <3>4. e >= e + 1
      BY <2>4, <3>3
    <3>. QED
      BY <1>2, <2>5, <3>4
  <2>7. WordEnd(t, i) = e
    BY <2>3, <2>4
  <2>. QED
    BY <1>1, <1>4, <2>5, <2>6, <2>7 DEF IsEnd
<1>. QED
  BY <1>3, <1>4

LEMMA WordEndIs ==
  ASSUME NEW t \in Seq(Char), NEW i \in 1..Len(t), NEW e, IsEnd(t, i, e)
  PROVE  WordEnd(t, i) = e
<1>1. PICK l \in Nat : l = Len(t)
  BY LenProperties
<1>2. PICK d : d = WordEnd(t, i)
  OBVIOUS
<1>3. IsEnd(t, i, d)
  BY <1>2, WordEndFacts
<1>4. CASE t[i] \in Single
  BY <1>2, <1>3, <1>4 DEF IsEnd
<1>5. CASE t[i] \notin Single
  <2>. DEFINE g(k) == tokenGroup(t[k])
  <2>1. /\ d \in i..l /\ (\A k \in i..d : g(k) = g(i)) /\ (d < l => g(d + 1) # g(i))
        /\ e \in i..l /\ (\A k \in i..e : g(k) = g(i)) /\ (e < l => g(e + 1) # g(i))
    BY <1>1, <1>3, <1>5 DEF IsEnd
  <2>. HIDE DEF g
  <2>2. d = e
    BY <1>1, <2>1
  <2>. QED
    BY <1>2, <2>2
<1>. QED
  BY <1>4, <1>5

(* The word at i has the characters up to its end.                         *)
LEMMA WordFacts ==
  ASSUME NEW t \in Seq(Char), NEW i \in 1..Len(t), NEW e, e = WordEnd(t, i)
  PROVE  /\ e \in i..Len(t)
         /\ Word(t, i) \in Seq(Char) /\ Len(Word(t, i)) = e - i + 1
         /\ \A k \in 1..e - i + 1 : Word(t, i)[k] = t[i + k - 1]
         /\ Word(t, i)[1] = t[i]
<1>1. PICK l \in Nat : l = Len(t)
  BY LenProperties
<1>2. e \in i..l /\ i \in 1..l
  BY <1>1, WordEndFacts DEF IsEnd
<1>3. \A k \in i..e : t[k] \in Char
  BY <1>1, <1>2, ElementOfSeq
<1>4. /\ SubSeq(t, i, e) \in Seq(Char)
      /\ Len(SubSeq(t, i, e)) = IF i <= e THEN e - i + 1 ELSE 0
      /\ \A k \in 1..e - i + 1 : SubSeq(t, i, e)[k] = t[i + k - 1]
  BY ONLY <1>2, <1>3, l \in Nat, SubSeqProperties
<1>5. Word(t, i) = SubSeq(t, i, e)
  BY DEF Word
<1>6. 1 \in 1..e - i + 1 /\ i + 1 - 1 = i
  BY <1>2
<1>. QED
  BY <1>1, <1>2, <1>4, <1>5, <1>6

(* A word of one character, one of those that are words of their own or a  *)
(* backslash, is known by it.                                              *)
LEMMA OneCharacter ==
  ASSUME NEW t \in Seq(Char), NEW i \in 1..Len(t), NEW c, Word(t, i) = <<c>>
  PROVE  t[i] = c /\ WordEnd(t, i) = i
<1>1. PICK l \in Nat : l = Len(t)
  BY LenProperties
<1>2. PICK e : e = WordEnd(t, i)
  OBVIOUS
<1>3. e \in i..l /\ Len(Word(t, i)) = e - i + 1 /\ Word(t, i)[1] = t[i]
  BY <1>1, <1>2, WordFacts
<1>4. Len(<<c>>) = 1 /\ <<c>>[1] = c
  OBVIOUS
<1>5. e - i + 1 = 1 /\ t[i] = c
  BY <1>3, <1>4
<1>6. e = i
  BY <1>1, <1>3, <1>5
<1>. QED
  BY <1>2, <1>5, <1>6

LEMMA SingleWord ==
  ASSUME NEW t \in Seq(Char), NEW i \in 1..Len(t), t[i] \in Single
  PROVE  WordEnd(t, i) = i /\ Word(t, i) = <<t[i]>> /\ Len(Word(t, i)) = 1
<1>1. WordEnd(t, i) = i
  BY WordEndFacts DEF IsEnd
<1>2. PICK w : w = Word(t, i)
  OBVIOUS
<1>3. w \in Seq(Char) /\ Len(w) = 1 /\ w[1] = t[i]
  <2>1. i - i + 1 = 1
    OBVIOUS
  <2>. QED
    BY <1>1, <1>2, <2>1, WordFacts
<1>4. w = <<t[i]>>
  BY <1>3
<1>. QED
  BY <1>1, <1>2, <1>3, <1>4

-----------------------------------------------------------------------------
(* What is commented out: Skip satisfies its definition, and what it gives *)
(* is behind where it begins.                                              *)

LEMMA PositionsAre ==
  ASSUME NEW t \in Seq(Char)
  PROVE  /\ Len(t) \in Nat /\ Positions(t) = 0..Len(t) + 1
         /\ 0 \in Positions(t) /\ Len(t) + 1 \in Positions(t)
<1>1. Len(t) \in Nat
  BY LenProperties
<1>. QED
  BY <1>1 DEF Positions

(* The definitions at a position come after those further behind, and a    *)
(* comment and a block after what they begin with.                         *)
SkipRank(t) ==
  [w \in Commented |-> [i \in Positions(t) |->
    IF i = 0 THEN 0
    ELSE 2 * (Len(t) + 2 - i) + IF w \in {"comment", "block"} THEN 1 ELSE 0]]

SkipEnds(t) ==
  [w \in Commented |-> [i \in Positions(t) |->
    {v \in Positions(t) :
       \/ v = 0
       \/ i > 0 /\ v > i
       \/ i > 0 /\ v = i /\ (w \in {"word", "comment"} \/ (w = "element" /\ i = Len(t) + 1))}]]

LEMMA SkipRankIs ==
  ASSUME NEW t \in Seq(Char), NEW m, m = 2 * Len(t) + 3
  PROVE  /\ m \in Nat
         /\ SkipRank(t) \in [Commented -> [Positions(t) -> 0..m]]
<1>1. PICK l \in Nat : l = Len(t) /\ Positions(t) = 0..l + 1
  BY PositionsAre
<1>2. m = 2 * l + 3
  BY <1>1
<1>3. ASSUME NEW w \in Commented, NEW i \in 0..l + 1
      PROVE  (IF i = 0 THEN 0
              ELSE 2 * (l + 2 - i) + IF w \in {"comment", "block"} THEN 1 ELSE 0) \in 0..m
  <2>1. CASE i = 0
    BY <1>2, <2>1
  <2>2. CASE i # 0 /\ w \in {"comment", "block"}
    BY <1>2, <2>2
  <2>3. CASE i # 0 /\ w \notin {"comment", "block"}
    BY <1>2, <2>3
  <2>. QED
    BY <2>1, <2>2, <2>3
<1>. QED
  BY <1>1, <1>2, <1>3 DEF SkipRank

LEMMA SkipRankLess ==
  ASSUME NEW t \in Seq(Char), NEW w \in Commented, NEW b \in Commented,
         NEW i \in 1..Len(t) + 1, NEW j \in Positions(t),
         \/ j = 0 \/ j > i
         \/ j = i /\ w \in {"comment", "block"} /\ b \in {"word", "element"}
  PROVE  SkipRank(t)[b][j] < SkipRank(t)[w][i]
<1>1. PICK l \in Nat : l = Len(t) /\ Positions(t) = 0..l + 1
  BY PositionsAre
<1>2. i \in 1..l + 1 /\ j \in 0..l + 1 /\ i \in Positions(t)
  BY <1>1
<1>. DEFINE one(x) == IF x \in {"comment", "block"} THEN 1 ELSE 0
<1>3. one(w) \in 0..1 /\ one(b) \in 0..1
  OBVIOUS
<1>4. j = i => (one(w) = 1 /\ one(b) = 0) \/ j = 0 \/ j > i
  OBVIOUS
<1>5. /\ SkipRank(t)[b][j] = IF j = 0 THEN 0 ELSE 2 * (l + 2 - j) + one(b)
      /\ SkipRank(t)[w][i] = IF i = 0 THEN 0 ELSE 2 * (l + 2 - i) + one(w)
  BY <1>1, <1>2 DEF SkipRank
<1>. HIDE DEF one
<1>6. CASE j = 0
  BY <1>2, <1>3, <1>5, <1>6
<1>7. CASE j # 0 /\ j > i
  BY <1>2, <1>3, <1>5, <1>7
<1>8. CASE j # 0 /\ j = i /\ one(w) = 1 /\ one(b) = 0
  BY <1>2, <1>3, <1>5, <1>8
<1>. QED
  BY <1>2, <1>4, <1>6, <1>7, <1>8

LEMMA SkipEndsAre ==
  ASSUME NEW t \in Seq(Char), NEW w \in Commented, NEW i \in Positions(t), NEW v
  PROVE  v \in SkipEnds(t)[w][i] <=>
           /\ v \in Positions(t)
           /\ \/ v = 0
              \/ i > 0 /\ v > i
              \/ i > 0 /\ v = i /\ (w \in {"word", "comment"} \/ (w = "element" /\ i = Len(t) + 1))
BY DEF SkipEnds

SkipWithin(t, f) == KeptWithin(f, Commented, Positions(t), Positions(t), SkipEnds(t))
SkipLower(t, g, f, w, i) == Lower(SkipRank(t), Commented, Positions(t), g, f, w, i)

LEMMA SkipWithinFacts ==
  ASSUME NEW t \in Seq(Char), NEW f, SkipWithin(t, f),
         NEW w \in Commented, NEW i \in Positions(t)
  PROVE  /\ f[w][i] \in Positions(t)
         /\ \/ f[w][i] = 0
            \/ i > 0 /\ f[w][i] > i
            \/ i > 0 /\ f[w][i] = i /\ (w \in {"word", "comment"} \/ (w = "element" /\ i = Len(t) + 1))
<1>1. f[w][i] \in SkipEnds(t)[w][i]
  BY DEF SkipWithin, KeptWithin
<1>2. PICK v : v = f[w][i]
  OBVIOUS
<1>. QED
  BY <1>1, <1>2, SkipEndsAre

(* Where it is needed, another function g agrees with f.                   *)
LEMMA SkipLowerAt ==
  ASSUME NEW t \in Seq(Char), NEW f, NEW g, NEW w \in Commented, NEW b \in Commented,
         NEW i \in 1..Len(t) + 1, NEW j \in Positions(t), SkipLower(t, g, f, w, i),
         \/ j = 0 \/ j > i
         \/ j = i /\ w \in {"comment", "block"} /\ b \in {"word", "element"}
  PROVE  g[b][j] = f[b][j]
BY SkipRankLess DEF SkipLower, Lower

LEMMA WordsAt ==
  ASSUME NEW t \in Seq(Char), NEW i \in 1..Len(t) + 1,
         NEW n, n = First(t, i, Char \ White)
  PROVE  /\ n \in i..Len(t) + 1 /\ n \in Positions(t)
         /\ n <= Len(t) => n \in 1..Len(t) /\ n + 1 \in Positions(t) /\ n + 1 \in 1..Len(t) + 1
<1>1. PICK l \in Nat : l = Len(t) /\ Positions(t) = 0..l + 1
  BY PositionsAre
<1>2. i \in 1..l + 1 /\ n \in i..l + 1
  BY <1>1, FirstFacts DEF IsFirst
<1>. QED
  BY <1>1, <1>2

LEMMA SkipAgrees ==
  ASSUME NEW t \in Seq(Char), NEW f, SkipWithin(t, f), NEW g,
         NEW w \in Commented, NEW i \in Positions(t), SkipLower(t, g, f, w, i)
  PROVE  /\ SkipAt(t, g, w, i) = SkipAt(t, f, w, i)
         /\ SkipAt(t, f, w, i) \in SkipEnds(t)[w][i]
<1>1. PICK l \in Nat : l = Len(t) /\ Positions(t) = 0..l + 1
  BY PositionsAre
<1>2. CASE i = 0
  <2>1. SkipAt(t, g, w, i) = 0 /\ SkipAt(t, f, w, i) = 0
    BY <1>2 DEF SkipAt
  <2>2. 0 \in SkipEnds(t)[w][i]
    BY <1>1, SkipEndsAre
  <2>. QED
    BY <2>1, <2>2
<1>3. ASSUME i # 0, w = "word"
      PROVE  SkipWord(t, g, i) = SkipWord(t, f, i) /\ SkipWord(t, f, i) \in SkipEnds(t)[w][i]
  <2>1. i \in 1..l + 1 /\ i \in 1..Len(t) + 1
    BY <1>1, <1>3
  <2>2. PICK n : n = First(t, i, Char \ White)
    OBVIOUS
  <2>3. n \in i..l + 1 /\ n \in Positions(t)
    BY <1>1, <2>1, <2>2, WordsAt
  <2>4. n \in SkipEnds(t)[w][i] /\ 0 \in SkipEnds(t)[w][i]
    BY <1>1, <1>3, <2>1, <2>3, SkipEndsAre
  <2>5. CASE n > l
    BY <1>1, <2>2, <2>4, <2>5 DEF SkipWord
  <2>6. CASE ~(n > l)
    <3>1. n + 1 \in Positions(t) /\ n + 1 > i /\ n + 1 \in 1..Len(t) + 1
      BY <1>1, <2>1, <2>3, <2>6
    <3>2. "comment" \in Commented /\ "word" \in Commented
      BY DEF Commented
    <3>3. PICK c : c = f["comment"][n + 1]
      OBVIOUS
    <3>4. c \in Positions(t) /\ (c = 0 \/ c >= n + 1)
      <4>1. PICK m \in Positions(t) : m = n + 1
        BY <3>1
      <4>2. c = f["comment"][m]
        BY <3>3, <4>1
      <4>3. c \in Positions(t) /\ (c = 0 \/ c > m \/ c = m)
        BY <3>2, <4>2, SkipWithinFacts
      <4>. QED
        BY <4>1, <4>3, <1>1
    <3>5. g["comment"][n + 1] = c
      BY <1>3, <2>1, <3>1, <3>2, <3>3, SkipLowerAt
    <3>6. c = 0 \/ c > i
      BY <1>1, <2>1, <2>3, <3>4
    <3>7. g["word"][c] = f["word"][c]
      BY <1>3, <2>1, <3>2, <3>4, <3>6, SkipLowerAt
    <3>8. f["word"][c] \in SkipEnds(t)[w][i]
      <4>1. PICK v : v = f["word"][c]
        OBVIOUS
      <4>2. v \in Positions(t) /\ (v = 0 \/ (c > 0 /\ v >= c))
        BY <1>1, <3>2, <3>4, <4>1, SkipWithinFacts
      <4>3. v = 0 \/ v > i
        BY <1>1, <2>1, <3>4, <3>6, <4>2
      <4>. QED
        BY <1>3, <2>1, <4>1, <4>2, <4>3, SkipEndsAre
    <3>. QED
      BY <1>1, <2>2, <2>4, <2>6, <3>3, <3>5, <3>7, <3>8 DEF SkipWord
  <2>. QED
    BY <2>5, <2>6
<1>4. ASSUME i # 0, w = "comment"
      PROVE  SkipComment(t, g, i) = SkipComment(t, f, i) /\ SkipComment(t, f, i) \in SkipEnds(t)[w][i]
  <2>1. i \in 1..l + 1 /\ i \in 1..Len(t) + 1
    BY <1>1, <1>4
  <2>2. PICK n : n = First(t, i, {"nl"})
    OBVIOUS
  <2>3. n \in i..l + 1 /\ n \in Positions(t)
    <3>1. IsFirst(t, i, {"nl"}, n)
      BY <2>1, <2>2, FirstFacts
    <3>. QED
      BY <1>1, <2>1, <3>1 DEF IsFirst
  <2>4. n \in SkipEnds(t)[w][i] /\ 0 \in SkipEnds(t)[w][i] /\ i \in SkipEnds(t)[w][i]
    BY <1>1, <1>4, <2>1, <2>3, SkipEndsAre
  <2>5. "element" \in Commented
    BY DEF Commented
  <2>6. PICK v : v = f["element"][i]
    OBVIOUS
  <2>7. g["element"][i] = v
    BY <1>4, <2>1, <2>5, <2>6, SkipLowerAt
  <2>8. v \in SkipEnds(t)[w][i]
    <3>1. v \in Positions(t) /\ (v = 0 \/ v > i \/ v = i)
      BY <2>5, <2>6, SkipWithinFacts
    <3>. QED
      BY <1>4, <2>1, <3>1, SkipEndsAre
  <2>. QED
    BY <2>2, <2>4, <2>6, <2>7, <2>8 DEF SkipComment
<1>5. ASSUME i # 0, w = "element"
      PROVE  SkipElement(t, g, i) = SkipElement(t, f, i) /\ SkipElement(t, f, i) \in SkipEnds(t)[w][i]
  <2>1. i \in 1..l + 1 /\ i \in 1..Len(t) + 1 /\ 0 \in SkipEnds(t)[w][i]
    BY <1>1, <1>5, SkipEndsAre
  <2>2. CASE i > l
    <3>1. i \in SkipEnds(t)[w][i]
      BY <1>1, <1>5, <2>1, <2>2, SkipEndsAre
    <3>. QED
      BY <1>1, <2>2, <3>1 DEF SkipElement
  <2>3. CASE ~(i > l)
    <3>1. i \in 1..Len(t) /\ i + 1 \in Positions(t) /\ i + 1 > i
      BY <1>1, <2>1, <2>3
    <3>2. PICK e : e = WordEnd(t, i)
      OBVIOUS
    <3>3. e \in i..Len(t)
      BY <3>1, <3>2, WordFacts
    <3>4. e + 1 \in Positions(t) /\ e + 1 > i
      BY <1>1, <3>1, <3>3
    <3>5. e + 1 \in SkipEnds(t)[w][i]
      BY <2>1, <3>4, SkipEndsAre
    <3>6. "block" \in Commented
      BY DEF Commented
    <3>7. PICK j \in Positions(t) : j = i + 1 /\ j > i
      BY <3>1
    <3>8. PICK v : v = f["block"][j]
      OBVIOUS
    <3>9. g["block"][j] = v
      BY <1>5, <2>1, <3>6, <3>7, <3>8, SkipLowerAt
    <3>10. v \in Positions(t) /\ (v = 0 \/ v > j)
      BY <3>6, <3>8, SkipWithinFacts
    <3>11. v \in SkipEnds(t)[w][i]
      <4>1. v = 0 \/ v > i
        BY <1>1, <2>1, <3>7, <3>10
      <4>. QED
        BY <2>1, <3>10, <4>1, SkipEndsAre
    <3>12. SkipElement(t, f, i) \in {0, v, e + 1} /\ SkipElement(t, g, i) = SkipElement(t, f, i)
      <4>1. g["block"][i + 1] = f["block"][i + 1] /\ f["block"][i + 1] = v
        BY <3>7, <3>8, <3>9
      <4>. QED
        BY <1>1, <2>3, <3>2, <4>1 DEF SkipElement
    <3>. QED
      BY <2>1, <3>5, <3>11, <3>12
  <2>. QED
    BY <2>2, <2>3
<1>6. ASSUME i # 0, w = "block"
      PROVE  SkipBlock(t, g, i) = SkipBlock(t, f, i) /\ SkipBlock(t, f, i) \in SkipEnds(t)[w][i]
  <2>1. i \in 1..l + 1 /\ i \in 1..Len(t) + 1 /\ 0 \in SkipEnds(t)[w][i]
    BY <1>1, <1>6, SkipEndsAre
  <2>2. {"word", "element", "block"} \subseteq Commented
    BY DEF Commented
  <2>3. PICK v : v = f["word"][i]
    OBVIOUS
  <2>4. g["word"][i] = v
    BY <1>6, <2>1, <2>2, <2>3, SkipLowerAt
  <2>5. v \in Positions(t) /\ (v = 0 \/ v >= i)
    BY <1>1, <2>1, <2>2, <2>3, SkipWithinFacts
  <2>6. CASE v \in {0, l + 1}
    BY <1>1, <2>1, <2>3, <2>4, <2>6 DEF SkipBlock
  <2>7. CASE v \notin {0, l + 1}
    <3>1. v \in 1..Len(t) /\ v >= i /\ v \in 1..l
      BY <1>1, <2>5, <2>7
    <3>2. v + 1 \in SkipEnds(t)[w][i]
      <4>1. v + 1 \in Positions(t) /\ v + 1 > i
        BY <1>1, <2>1, <3>1
      <4>. QED
        BY <2>1, <4>1, SkipEndsAre
    <3>3. PICK u : u = f["element"][v]
      OBVIOUS
    <3>4. g["element"][v] = u
      <4>1. v > i \/ v = i
        BY <2>1, <3>1
      <4>2. "element" \in Commented /\ w = "block"
        BY <1>6, <2>2
      <4>3. g["element"][v] = f["element"][v]
        BY <2>1, <2>5, <4>1, <4>2, SkipLowerAt
      <4>. QED
        BY <3>3, <4>3
    <3>5. u \in Positions(t) /\ (u = 0 \/ u > v)
      <4>1. v # Len(t) + 1
        BY <1>1, <2>7
      <4>. QED
        BY <2>2, <2>5, <3>3, <4>1, SkipWithinFacts
    <3>6. u = 0 \/ u > i
      BY <1>1, <2>1, <3>1, <3>5
    <3>7. PICK x : x = f["block"][u]
      OBVIOUS
    <3>8. g["block"][u] = x
      BY <1>6, <2>1, <2>2, <3>5, <3>6, <3>7, SkipLowerAt
    <3>9. x \in SkipEnds(t)[w][i]
      <4>1. x \in Positions(t) /\ (x = 0 \/ (u > 0 /\ x > u))
        BY <2>2, <3>5, <3>7, SkipWithinFacts
      <4>2. x = 0 \/ x > i
        BY <1>1, <2>1, <3>5, <3>6, <4>1
      <4>. QED
        BY <2>1, <4>1, <4>2, SkipEndsAre
    <3>. QED
      BY <1>1, <2>3, <2>4, <2>7, <3>2, <3>3, <3>4, <3>7, <3>8, <3>9 DEF SkipBlock
  <2>. QED
    BY <2>6, <2>7
<1>7. w \in {"word", "comment", "element", "block"}
  BY DEF Commented
<1>. QED
  BY <1>2, <1>3, <1>4, <1>5, <1>6, <1>7 DEF SkipAt

(* There is such a function, and Skip is it.                               *)
IsSkip(t, f) ==
  \A w \in Commented : \A i \in Positions(t) : f[w][i] = SkipAt(t, f, w, i)

LEMMA SkipIs ==
  ASSUME NEW t \in Seq(Char)
  PROVE  IsSkip(t, Skip(t)) /\ SkipWithin(t, Skip(t))
<1>. DEFINE P == Positions(t)
            G == {g \in [Commented -> [P -> P]] : SkipWithin(t, g)}
            G0 == [w \in Commented |-> [i \in P |-> 0]]
            Now(g) == [w \in Commented |-> [i \in P |-> SkipAt(t, g, w, i)]]
            Step0 == [g \in G |-> Now(g)]
<1>1. PICK m \in Nat : m = 2 * Len(t) + 3 /\ SkipRank(t) \in [Commented -> [P -> 0..m]]
  BY SkipRankIs
<1>2. \A g : g \in G <=> KeptWithin(g, Commented, P, P, SkipEnds(t))
  BY DEF SkipWithin, KeptWithin
<1>3. G0 \in G
  <2>1. G0 \in [Commented -> [P -> P]] /\ \A w \in Commented : \A i \in P : G0[w][i] = 0
    BY PositionsAre
  <2>2. \A w \in Commented : \A i \in P : G0[w][i] \in SkipEnds(t)[w][i]
    <3>. HIDE DEF G0
    <3>. QED
      BY <2>1, PositionsAre, SkipEndsAre
  <2>. HIDE DEF G0
  <2>. QED
    BY <2>1, <2>2 DEF SkipWithin, KeptWithin
<1>4. ASSUME NEW g \in G, NEW f \in G, NEW w \in Commented, NEW i \in P,
             SkipLower(t, g, f, w, i)
      PROVE  SkipAt(t, g, w, i) = SkipAt(t, f, w, i)
  BY <1>4, SkipAgrees
<1>5. ASSUME NEW f \in G, NEW w \in Commented, NEW i \in P
      PROVE  SkipAt(t, f, w, i) \in SkipEnds(t)[w][i]
  <2>1. SkipLower(t, f, f, w, i)
    BY DEF SkipLower, Lower
  <2>. QED
    BY <2>1, SkipAgrees
<1>6. ASSUME NEW f \in G
      PROVE  Now(f) \in G
  <2>1. \A w \in Commented : \A i \in P : SkipAt(t, f, w, i) \in P
    BY <1>5, SkipEndsAre
  <2>2. Now(f) \in [Commented -> [P -> P]]
    BY <2>1
  <2>3. \A w \in Commented : \A i \in P : Now(f)[w][i] \in SkipEnds(t)[w][i]
    BY <1>5
  <2>. QED
    BY <2>2, <2>3 DEF SkipWithin, KeptWithin
<1>7. /\ Step0 \in [G -> G]
      /\ \A g \in G : Step0[g] = Now(g)
      /\ \A g \in G : \A w \in Commented : \A i \in P : Step0[g][w][i] = SkipAt(t, g, w, i)
  BY <1>6
<1>8. PICK f \in G : f = Step0[f]
  <2>1. \A g \in G : \A h \in G : \A w \in Commented : \A i \in P :
          Lower(SkipRank(t), Commented, P, g, h, w, i) => Step0[g][w][i] = Step0[h][w][i]
    <3>. HIDE DEF Step0, G, P
    <3>. QED
      BY <1>4, <1>7 DEF SkipLower, P
  <2>2. Recursion(Commented, P, P, SkipEnds(t), m, SkipRank(t), G, G0, Step0)
    <3>. HIDE DEF Step0, G, G0, P
    <3>. QED
      BY <1>1, <1>2, <1>3, <1>7, <2>1 DEF Recursion
  <2>. HIDE DEF Step0, G, G0, P
  <2>. QED
    BY ONLY <2>2, RankedExists
<1>9. f = Now(f)
  BY <1>7, <1>8
<1>. DEFINE IsIt(g) == g = Now(g)
<1>10. PICK h : h = Skip(t) /\ h = Now(h)
  <2>1. Skip(t) = CHOOSE g : IsIt(g)
    BY DEF Skip
  <2>2. IsIt(f)
    BY <1>9
  <2>3. IsIt(CHOOSE g : IsIt(g))
    <3>. HIDE DEF IsIt
    <3>. QED
      BY <2>2
  <2>. QED
    BY <2>1, <2>3
<1>11. \A w \in Commented : \A i \in P :
         h[w][i] = SkipAt(t, h, w, i) /\ f[w][i] = SkipAt(t, f, w, i)
  <2>1. ASSUME NEW g, g = Now(g), NEW w \in Commented, NEW i \in P
        PROVE  g[w][i] = SkipAt(t, g, w, i)
    <3>1. PICK e : e = Now(g)
      OBVIOUS
    <3>2. e[w][i] = SkipAt(t, g, w, i)
      BY <3>1
    <3>. QED
      BY <2>1, <3>1, <3>2
  <2>. QED
    BY <1>9, <1>10, <2>1
<1>12. \A w \in Commented : \A i \in P : h[w][i] = f[w][i]
  <2>1. \A w \in Commented : \A i \in P :
          Lower(SkipRank(t), Commented, P, h, f, w, i) => h[w][i] = f[w][i]
    <3>1. ASSUME NEW w \in Commented, NEW i \in P,
                 Lower(SkipRank(t), Commented, P, h, f, w, i)
          PROVE  h[w][i] = f[w][i]
      <4>1. SkipAt(t, h, w, i) = SkipAt(t, f, w, i)
        BY <3>1, SkipAgrees DEF SkipLower
      <4>. QED
        BY <1>11, <4>1
    <3>. QED
      BY <3>1
  <2>2. Determined(Commented, P, m, SkipRank(t), f, h)
    <3>. HIDE DEF P
    <3>. QED
      BY <1>1, <2>1 DEF Determined
  <2>. HIDE DEF P
  <2>. QED
    BY ONLY <2>2, RankedUnique
<1>13. SkipWithin(t, f)
  OBVIOUS
<1>14. h \in [Commented -> [P -> P]]
  <2>1. \A w \in Commented : \A i \in P : h[w][i] \in P
    BY <1>12, <1>13 DEF SkipWithin, KeptWithin
  <2>2. \A w \in Commented : \A i \in P : SkipAt(t, h, w, i) \in P
    BY <1>11, <2>1
  <2>3. Now(h) \in [Commented -> [P -> P]]
    BY <2>2
  <2>. QED
    BY <1>10, <2>3
<1>15. SkipWithin(t, h)
  BY <1>12, <1>13, <1>14 DEF SkipWithin, KeptWithin
<1>16. IsSkip(t, h)
  BY <1>11 DEF IsSkip
<1>. QED
  BY <1>10, <1>15, <1>16

-----------------------------------------------------------------------------
(* What is compiled: Compiles satisfies its definition.                    *)

Symbols == Char \union {"W", "B", "C", "|", "nl", "blk", "end"}
Outputs == Seq(Seq(Symbols))
Parts(t) == [out : Outputs, next : Positions(t)]

LEMMA ItemsPart ==
  ASSUME NEW t, NEW o \in Outputs, NEW n \in Positions(t)
  PROVE  /\ Items(o, n) \in Parts(t) /\ Items(o, n).out = o /\ Items(o, n).next = n
BY DEF Items, Parts

LEMMA ThenPart ==
  ASSUME NEW t, NEW o \in Outputs, NEW r \in Parts(t)
  PROVE  /\ Then(o, r) \in Parts(t) /\ Then(o, r).out = o \o r.out
         /\ Then(o, r).next = r.next
<1>1. r.out \in Outputs /\ r.next \in Positions(t)
  BY DEF Parts
<1>2. o \o r.out \in Outputs
  <2>1. PICK S : S = Seq(Symbols)
    OBVIOUS
  <2>2. Outputs = Seq(S)
    BY <2>1 DEF Outputs
  <2>. QED
    BY ONLY <1>1, <2>2, o \in Outputs, ConcatProperties
<1>3. PICK q : q = o \o r.out
  OBVIOUS
<1>. QED
  BY <1>1, <1>2, <1>3 DEF Then, Items, Parts

(* Everything that is put out.                                             *)
LEMMA WordsPutOut ==
  /\ << >> \in Outputs
  /\ \A w \in Seq(Symbols) : <<w>> \in Outputs
  /\ \A v \in Seq(Symbols) : \A w \in Seq(Symbols) : <<v, w>> \in Outputs
  /\ \A c \in Symbols : <<"C", c>> \in Seq(Symbols) /\ <<"|", c>> \in Seq(Symbols)
  /\ <<"W">> \in Seq(Symbols) /\ <<"B">> \in Seq(Symbols) /\ <<"C">> \in Seq(Symbols)
  /\ <<"blk", "end">> \in Seq(Symbols) /\ <<"|", "end">> \in Seq(Symbols)
<1>1. {"W", "B", "C", "|", "nl", "blk", "end"} \subseteq Symbols
  BY DEF Symbols
<1>2. PICK S : S = Seq(Symbols)
  OBVIOUS
<1>3. Outputs = Seq(S)
  BY <1>2 DEF Outputs
<1>4. /\ << >> \in Seq(S)
      /\ \A w \in S : <<w>> \in Seq(S)
      /\ \A v \in S : \A w \in S : <<v, w>> \in Seq(S)
  OBVIOUS
<1>5. /\ \A a \in Symbols : <<a>> \in Seq(Symbols)
      /\ \A a \in Symbols : \A b \in Symbols : <<a, b>> \in Seq(Symbols)
  OBVIOUS
<1>. QED
  BY <1>1, <1>2, <1>3, <1>4, <1>5

LEMMA TextSymbols ==
  ASSUME NEW t \in Seq(Char)
  PROVE  /\ \A i \in 1..Len(t) : t[i] \in Symbols
         /\ \A w \in Seq(Char) : w \in Seq(Symbols)
<1>1. Char \subseteq Symbols
  BY DEF Symbols
<1>2. \A i \in 1..Len(t) : t[i] \in Char
  BY ElementOfSeq
<1>3. ASSUME NEW w \in Seq(Char)
      PROVE  w \in Seq(Symbols)
  <2>1. PICK l \in Nat : l = Len(w)
    BY LenProperties
  <2>2. \A i \in 1..l : w[i] \in Symbols
    BY <1>1, <2>1, ElementOfSeq
  <2>3. w \in [1..l -> Symbols]
    <3>1. w \in [1..l -> Char]
      BY <2>1, LenProperties
    <3>. QED
      BY <1>1, <3>1
  <2>. QED
    BY <2>1, <2>3, SeqDef
<1>. QED
  BY <1>1, <1>2, <1>3

LEMMA EscapeFacts ==
  ASSUME NEW t \in Seq(Char), NEW i \in 1..Len(t) + 1, NEW set,
         NEW e, e = Escape(t, i, set)
  PROVE  /\ e.next \in Positions(t) /\ e.c \in Symbols
         /\ e.next = 0 \/ (e.next > i /\ i <= Len(t))
<1>1. PICK l \in Nat : l = Len(t) /\ Positions(t) = 0..l + 1
  BY PositionsAre
<1>2. "nl" \in Symbols /\ \A j \in 1..l : t[j] \in Symbols
  BY <1>1, TextSymbols DEF Symbols
<1>3. CASE i > l \/ (t[i] = "\\" /\ (i = l \/ t[i + 1] \notin set))
  <2>1. e = [c |-> "nl", next |-> 0]
    BY <1>1, <1>3 DEF Escape
  <2>. QED
    BY <1>1, <1>2, <2>1
<1>4. CASE ~(i > l \/ (t[i] = "\\" /\ (i = l \/ t[i + 1] \notin set)))
  <2>1. i \in 1..l
    BY <1>1, <1>4
  <2>2. CASE t[i] = "\\"
    <3>1. i + 1 \in 1..l /\ i + 2 \in 0..l + 1
      BY <1>1, <1>4, <2>1, <2>2
    <3>2. PICK d \in Symbols : d = IF t[i + 1] = "n" THEN "nl" ELSE t[i + 1]
      BY <1>2, <3>1
    <3>3. e = [c |-> d, next |-> i + 2]
      BY <1>1, <1>4, <2>2, <3>2 DEF Escape
    <3>. QED
      BY <1>1, <2>1, <3>1, <3>3
  <2>3. CASE t[i] # "\\"
    <3>1. e = [c |-> t[i], next |-> i + 1]
      BY <1>1, <1>4, <2>3 DEF Escape
    <3>. QED
      BY <1>1, <1>2, <2>1, <3>1
  <2>. QED
    BY <2>2, <2>3
<1>. QED
  BY <1>3, <1>4

LEMMA NextWordFacts ==
  ASSUME NEW t \in Seq(Char), NEW i \in Positions(t), NEW n, n = NextWord(t, i)
  PROVE  /\ n \in Positions(t)
         /\ i = 0 => n = 0
         /\ n = 0 \/ n >= i
         /\ n \notin {0, Len(t) + 1} => n \in 1..Len(t) /\ n + 1 \in 1..Len(t) + 1
                                        /\ n + 1 \in Positions(t)
<1>1. PICK l \in Nat : l = Len(t) /\ Positions(t) = 0..l + 1
  BY PositionsAre
<1>2. "word" \in Commented
  BY DEF Commented
<1>3. n \in Positions(t) /\ (n = 0 \/ (i > 0 /\ n > i) \/ (i > 0 /\ n = i))
  BY <1>2, SkipIs, SkipWithinFacts DEF NextWord
<1>. QED
  BY <1>1, <1>3

MeantRank(t) ==
  [w \in Meant |-> [i \in Positions(t) |->
    IF i = 0 THEN 0 ELSE 2 * (Len(t) + 2 - i) + IF w = "token" THEN 0 ELSE 1]]

(* What goes on behind i, and so does everything that is compiled, but for *)
(* what ends at the end.                                                   *)
Behind(t, i, v) == v \in Parts(t) /\ (v.next = 0 \/ v.next > i)

MeantEnds(t) ==
  [w \in Meant |-> [i \in Positions(t) |->
    {v \in Parts(t) :
       \/ v.next = 0
       \/ i > 0 /\ v.next > i
       \/ i = Len(t) + 1 /\ v.next = i /\ w \in {"token", "all"}}]]

LEMMA MeantRankIs ==
  ASSUME NEW t \in Seq(Char), NEW m, m = 2 * Len(t) + 3
  PROVE  /\ m \in Nat
         /\ MeantRank(t) \in [Meant -> [Positions(t) -> 0..m]]
<1>1. PICK l \in Nat : l = Len(t) /\ Positions(t) = 0..l + 1
  BY PositionsAre
<1>2. m = 2 * l + 3
  BY <1>1
<1>3. ASSUME NEW w \in Meant, NEW i \in 0..l + 1
      PROVE  (IF i = 0 THEN 0 ELSE 2 * (l + 2 - i) + IF w = "token" THEN 0 ELSE 1) \in 0..m
  <2>1. CASE i = 0
    BY <1>2, <2>1
  <2>2. CASE i # 0 /\ w = "token"
    BY <1>2, <2>2
  <2>3. CASE i # 0 /\ w # "token"
    BY <1>2, <2>3
  <2>. QED
    BY <2>1, <2>2, <2>3
<1>. QED
  BY <1>1, <1>2, <1>3 DEF MeantRank

LEMMA MeantRankLess ==
  ASSUME NEW t \in Seq(Char), NEW w \in Meant, NEW b \in Meant,
         NEW i \in 1..Len(t) + 1, NEW j \in Positions(t),
         \/ j = 0 \/ j > i
         \/ j = i /\ w # "token" /\ b = "token"
  PROVE  MeantRank(t)[b][j] < MeantRank(t)[w][i]
<1>1. PICK l \in Nat : l = Len(t) /\ Positions(t) = 0..l + 1
  BY PositionsAre
<1>2. i \in 1..l + 1 /\ j \in 0..l + 1 /\ i \in Positions(t)
  BY <1>1
<1>. DEFINE one(x) == IF x = "token" THEN 0 ELSE 1
<1>3. one(w) \in 0..1 /\ one(b) \in 0..1
  OBVIOUS
<1>4. j = i => (one(w) = 1 /\ one(b) = 0) \/ j = 0 \/ j > i
  OBVIOUS
<1>5. /\ MeantRank(t)[b][j] = IF j = 0 THEN 0 ELSE 2 * (l + 2 - j) + one(b)
      /\ MeantRank(t)[w][i] = IF i = 0 THEN 0 ELSE 2 * (l + 2 - i) + one(w)
  BY <1>1, <1>2 DEF MeantRank
<1>. HIDE DEF one
<1>6. CASE j = 0
  BY <1>2, <1>3, <1>5, <1>6
<1>7. CASE j # 0 /\ j > i
  BY <1>2, <1>3, <1>5, <1>7
<1>8. CASE j # 0 /\ j = i /\ one(w) = 1 /\ one(b) = 0
  BY <1>2, <1>3, <1>5, <1>8
<1>. QED
  BY <1>2, <1>4, <1>6, <1>7, <1>8

LEMMA MeantEndsAre ==
  ASSUME NEW t \in Seq(Char), NEW w \in Meant, NEW i \in Positions(t), NEW v
  PROVE  v \in MeantEnds(t)[w][i] <=>
           /\ v \in Parts(t)
           /\ \/ v.next = 0
              \/ i > 0 /\ v.next > i
              \/ i = Len(t) + 1 /\ v.next = i /\ w \in {"token", "all"}
BY DEF MeantEnds

MeantWithin(t, f) == KeptWithin(f, Meant, Positions(t), Parts(t), MeantEnds(t))
MeantLower(t, g, f, w, i) == Lower(MeantRank(t), Meant, Positions(t), g, f, w, i)

LEMMA MeantWithinFacts ==
  ASSUME NEW t \in Seq(Char), NEW f, MeantWithin(t, f),
         NEW w \in Meant, NEW i \in Positions(t)
  PROVE  /\ f[w][i] \in Parts(t) /\ f[w][i].next \in Positions(t) /\ f[w][i].out \in Outputs
         /\ \/ f[w][i].next = 0
            \/ i > 0 /\ f[w][i].next > i
            \/ i = Len(t) + 1 /\ f[w][i].next = i /\ w \in {"token", "all"}
<1>1. f[w][i] \in MeantEnds(t)[w][i]
  BY DEF MeantWithin, KeptWithin
<1>2. PICK v : v = f[w][i]
  OBVIOUS
<1>3. v \in Parts(t) => v.next \in Positions(t) /\ v.out \in Outputs
  BY DEF Parts
<1>. QED
  BY <1>1, <1>2, <1>3, MeantEndsAre

(* What f has at j, behind i: another function has the same there.         *)
LEMMA MeantLowerAt ==
  ASSUME NEW t \in Seq(Char), NEW f, NEW g, NEW w \in Meant, NEW b \in Meant,
         NEW i \in 1..Len(t) + 1, NEW j \in Positions(t), MeantLower(t, g, f, w, i),
         \/ j = 0 \/ j > i
         \/ j = i /\ w # "token" /\ b = "token"
  PROVE  g[b][j] = f[b][j]
BY MeantRankLess DEF MeantLower, Lower

LEMMA MeantBehind ==
  ASSUME NEW t \in Seq(Char), NEW f, MeantWithin(t, f), NEW b \in Meant,
         NEW i \in 1..Len(t) + 1, NEW j \in Positions(t), j = 0 \/ j > i
  PROVE  Behind(t, i, f[b][j])
<1>1. PICK l \in Nat : l = Len(t) /\ Positions(t) = 0..l + 1
  BY PositionsAre
<1>2. PICK v : v = f[b][j]
  OBVIOUS
<1>3. /\ v \in Parts(t) /\ v.next \in 0..l + 1
      /\ v.next = 0 \/ (j > 0 /\ v.next > j) \/ (j = l + 1 /\ v.next = j)
  BY <1>1, <1>2, MeantWithinFacts
<1>4. v.next = 0 \/ v.next > i
  BY <1>1, <1>3
<1>. QED
  BY <1>2, <1>3, <1>4 DEF Behind

LEMMA BehindEnds ==
  ASSUME NEW t \in Seq(Char), NEW w \in Meant, NEW i \in Positions(t), i > 0,
         NEW v, Behind(t, i, v)
  PROVE  v \in MeantEnds(t)[w][i]
BY MeantEndsAre DEF Behind

-----------------------------------------------------------------------------
(* Each kind of part agrees for f and g where they agree behind it, and    *)
(* ends behind where it begins.                                            *)

LEMMA BehindItems ==
  ASSUME NEW t, NEW i, NEW o \in Outputs, NEW n \in Positions(t), n = 0 \/ n > i
  PROVE  Behind(t, i, Items(o, n))
BY ItemsPart DEF Behind

LEMMA BehindThen ==
  ASSUME NEW t, NEW i, NEW o \in Outputs, NEW r, Behind(t, i, r)
  PROVE  Behind(t, i, Then(o, r))
BY ThenPart DEF Behind

LEMMA BehindIs ==
  ASSUME NEW t, NEW i, NEW r, Behind(t, i, r)
  PROVE  r \in Parts(t) /\ r.out \in Outputs /\ r.next \in Positions(t) /\ (r.next = 0 \/ r.next > i)
BY DEF Behind, Parts

LEMMA EndedBehind ==
  ASSUME NEW t \in Seq(Char), NEW i, NEW a, Behind(t, i, a)
  PROVE  Behind(t, i, Ended(a))
<1>1. a \in Parts(t) /\ a.out \in Outputs /\ a.next \in Positions(t) /\ (a.next = 0 \/ a.next > i)
  BY BehindIs
<1>2. PICK o \in Outputs : o = << <<"blk", "end">> >>
  BY WordsPutOut
<1>3. Behind(t, i, Items(o, a.next))
  BY <1>1, BehindItems
<1>4. Behind(t, i, Then(a.out, Items(o, a.next)))
  BY <1>1, <1>3, BehindThen
<1>. QED
  BY <1>2, <1>4 DEF Ended

LEMMA WhileAgrees ==
  ASSUME NEW t \in Seq(Char), NEW f, NEW g, MeantWithin(t, f), NEW w \in Meant,
         NEW i \in 1..Len(t) + 1, MeantLower(t, g, f, w, i),
         NEW j \in Positions(t), j = 0 \/ j > i
  PROVE  While(t, g, j) = While(t, f, j) /\ Behind(t, i, While(t, f, j))
<1>1. PICK l \in Nat : l = Len(t) /\ Positions(t) = 0..l + 1
  BY PositionsAre
<1>2. PICK m : m = NextWord(t, j)
  OBVIOUS
<1>3. /\ m \in Positions(t) /\ m \in 0..l + 1 /\ (j = 0 => m = 0) /\ (m = 0 \/ m >= j)
      /\ m \notin {0, l + 1} => m + 1 \in Positions(t)
  BY <1>1, <1>2, NextWordFacts
<1>4. m = 0 \/ m > i
  BY <1>1, <1>3
<1>5. "token" \in Meant
  BY DEF Meant
<1>6. CASE m \notin {0, l + 1} /\ Word(t, m) = <<"W">>
  <2>1. m + 1 \in Positions(t) /\ m + 1 > i
    BY <1>1, <1>3, <1>4, <1>6
  <2>2. g["token"][m + 1] = f["token"][m + 1]
    BY <1>5, <2>1, MeantLowerAt
  <2>3. Behind(t, i, f["token"][m + 1])
    BY <1>5, <2>1, MeantBehind
  <2>4. PICK o \in Outputs : o = << <<"W">> >>
    BY WordsPutOut
  <2>5. Behind(t, i, Then(o, f["token"][m + 1]))
    BY <2>3, BehindThen
  <2>6. /\ While(t, g, j) = Then(o, g["token"][m + 1])
        /\ While(t, f, j) = Then(o, f["token"][m + 1])
    BY <1>1, <1>2, <1>6, <2>4 DEF While
  <2>. QED
    BY <2>2, <2>5, <2>6
<1>7. CASE ~(m \notin {0, l + 1} /\ Word(t, m) = <<"W">>)
  <2>1. While(t, g, j) = Items(<< >>, m) /\ While(t, f, j) = Items(<< >>, m)
    BY <1>1, <1>2, <1>7 DEF While
  <2>2. Behind(t, i, Items(<< >>, m))
    BY <1>3, <1>4, WordsPutOut, BehindItems
  <2>. QED
    BY <2>1, <2>2
<1>. QED
  BY <1>6, <1>7

LEMMA BlkAgrees ==
  ASSUME NEW t \in Seq(Char), NEW f, NEW g, MeantWithin(t, f), NEW w \in Meant,
         NEW i \in 1..Len(t) + 1, MeantLower(t, g, f, w, i),
         NEW j \in Positions(t), j > i
  PROVE  Blk(t, g, j) = Blk(t, f, j) /\ Behind(t, i, Blk(t, f, j))
<1>1. "token" \in Meant
  BY DEF Meant
<1>2. PICK b : b = f["token"][j]
  OBVIOUS
<1>3. b = g["token"][j] /\ Behind(t, i, b)
  BY <1>1, <1>2, MeantLowerAt, MeantBehind
<1>4. b.out \in Outputs /\ b.next \in Positions(t) /\ (b.next = 0 \/ b.next > i)
  BY <1>3, BehindIs
<1>5. PICK n \in Positions(t) : n = b.next
  BY <1>4
<1>6. While(t, g, n) = While(t, f, n) /\ Behind(t, i, While(t, f, n))
  BY <1>4, <1>5, WhileAgrees
<1>7. PICK o \in Outputs : o = << <<"B">> >> \o b.out
  <2>1. PICK S : S = Seq(Symbols)
    OBVIOUS
  <2>2. Outputs = Seq(S)
    BY <2>1 DEF Outputs
  <2>3. << <<"B">> >> \in Seq(S) /\ b.out \in Seq(S)
    BY <1>4, <2>2, WordsPutOut
  <2>. QED
    BY <2>2, <2>3, ConcatProperties
<1>8. Behind(t, i, Ended(While(t, f, n)))
  BY <1>6, EndedBehind
<1>9. Behind(t, i, Then(o, Ended(While(t, f, n))))
  BY <1>8, BehindThen
<1>10. /\ Blk(t, f, j) = Then(o, Ended(While(t, f, n)))
       /\ Blk(t, g, j) = Then(o, Ended(While(t, g, n)))
  BY <1>2, <1>3, <1>5, <1>7 DEF Blk
<1>. QED
  BY <1>6, <1>9, <1>10

LEMMA ChBehind ==
  ASSUME NEW t \in Seq(Char), NEW i, NEW j \in 1..Len(t) + 1, i \in Nat, j > i
  PROVE  Behind(t, i, Ch(t, j))
<1>1. PICK l \in Nat : l = Len(t) /\ Positions(t) = 0..l + 1
  BY PositionsAre
<1>2. j \in Positions(t) /\ 0 \in Positions(t)
  BY <1>1
<1>3. PICK n : n = NextWord(t, j)
  OBVIOUS
<1>4. /\ n \in Positions(t) /\ n \in 0..l + 1 /\ (n = 0 \/ n >= j)
      /\ n \notin {0, l + 1} => n + 1 \in 1..Len(t) + 1
  BY <1>1, <1>2, <1>3, NextWordFacts
<1>5. PICK e : e = Escape(t, n + 1, {"n", " "})
  OBVIOUS
<1>6. CASE n \in {0, l + 1} \/ t[n] # ":" \/ e.next = 0
  <2>1. PICK o \in Outputs : o = << <<"C">> >>
    BY WordsPutOut
  <2>2. Ch(t, j) = Items(o, 0)
    BY <1>1, <1>3, <1>5, <1>6, <2>1 DEF Ch
  <2>. QED
    BY <1>2, <2>2, BehindItems
<1>7. CASE ~(n \in {0, l + 1} \/ t[n] # ":" \/ e.next = 0)
  <2>1. n \notin {0, l + 1} /\ e.next # 0
    BY <1>7, <1>1
  <2>2. PICK k : k = n + 1
    OBVIOUS
  <2>3. k \in 1..Len(t) + 1 /\ e = Escape(t, k, {"n", " "})
    BY <1>1, <1>4, <1>5, <2>1, <2>2
  <2>4. n \in Nat /\ n >= j
    BY <1>1, <1>4, <2>1
  <2>6. k \in Nat /\ k > i
    BY <2>2, <2>4
  <2>7. e.next \in Positions(t) /\ e.c \in Symbols /\ (e.next = 0 \/ e.next > k)
    BY <2>3, EscapeFacts
  <2>8. PICK d : d = e.next
    OBVIOUS
  <2>9. d \in Nat /\ d > k
    BY <1>1, <2>1, <2>7, <2>8
  <2>10. d > i
    BY <2>6, <2>9
  <2>5. PICK o \in Outputs : o = << <<"C">>, <<"C", e.c>> >>
    BY <2>7, WordsPutOut
  <2>11. Ch(t, j) = Items(o, d)
    BY <1>1, <1>3, <1>5, <1>7, <2>5, <2>8 DEF Ch
  <2>. QED
    BY <2>7, <2>8, <2>10, <2>11, BehindItems
<1>. QED
  BY <1>6, <1>7

-----------------------------------------------------------------------------
(* The same of a token, of a block, of all that follows and of a string,   *)
(* and so of every part.                                                   *)

LEMMA TokenAgrees ==
  ASSUME NEW t \in Seq(Char), NEW f, NEW g, MeantWithin(t, f),
         NEW i \in 1..Len(t) + 1, MeantLower(t, g, f, "token", i)
  PROVE  /\ TokenMeant(t, g, i) = TokenMeant(t, f, i)
         /\ TokenMeant(t, f, i) \in MeantEnds(t)["token"][i]
<1>1. PICK l \in Nat : l = Len(t) /\ Positions(t) = 0..l + 1
  BY PositionsAre
<1>2. i \in Positions(t) /\ i > 0 /\ i \in Nat
  BY <1>1
<1>3. {"token", "block", "blank", "string", "all"} \subseteq Meant
  BY DEF Meant
<1>4. PICK n : n = NextWord(t, i)
  OBVIOUS
<1>5. /\ n \in 0..l + 1 /\ n \in Positions(t) /\ (n = 0 \/ n >= i)
      /\ n \notin {0, l + 1} => n \in 1..Len(t) /\ n + 1 \in 1..Len(t) + 1 /\ n + 1 \in Positions(t)
  BY <1>1, <1>2, <1>4, NextWordFacts
<1>6. CASE n \in {0, l + 1}
  <2>1. TokenMeant(t, g, i) = Items(<< >>, n) /\ TokenMeant(t, f, i) = Items(<< >>, n)
    BY <1>1, <1>4, <1>6 DEF TokenMeant
  <2>2. PICK v : v = Items(<< >>, n)
    OBVIOUS
  <2>3. v \in Parts(t) /\ v.next = n
    BY <1>5, <2>2, WordsPutOut, ItemsPart
  <2>4. n = 0 \/ n > i \/ (i = Len(t) + 1 /\ n = i)
    BY <1>1, <1>2, <1>5, <1>6
  <2>5. v \in MeantEnds(t)["token"][i]
    BY <1>2, <1>3, <2>3, <2>4, MeantEndsAre
  <2>. QED
    BY <2>1, <2>2, <2>5
<1>7. CASE n \notin {0, l + 1}
  <2>1. PICK k : k = n + 1
    OBVIOUS
  <2>2. k \in 1..Len(t) + 1 /\ k \in Positions(t)
    BY <1>5, <1>7, <2>1
  <2>3. k > i
    BY <1>2, <1>5, <1>7, <2>1
  <2>4. PICK w : w = Word(t, n)
    OBVIOUS
  <2>5. \A b \in Meant : g[b][k] = f[b][k] /\ Behind(t, i, f[b][k])
    BY <1>3, <2>2, <2>3, MeantLowerAt, MeantBehind
  <2>6. Blk(t, g, k) = Blk(t, f, k) /\ Behind(t, i, Blk(t, f, k))
    BY <1>3, <2>2, <2>3, BlkAgrees
  <2>7. Behind(t, i, Ch(t, k))
    BY <1>2, <2>2, <2>3, ChBehind
  <2>8. /\ w \in Seq(Char) /\ Len(w) \in Nat /\ n + Len(w) \in Positions(t) /\ n + Len(w) > i
    <3>1. PICK e : e = WordEnd(t, n)
      OBVIOUS
    <3>2. e \in n..Len(t) /\ w \in Seq(Char) /\ Len(w) = e - n + 1
      BY <1>5, <1>7, <2>4, <3>1, WordFacts
    <3>. QED
      BY <1>1, <1>2, <1>5, <1>7, <3>2
  <2>9. PICK p : p = n + Len(w)
    OBVIOUS
  <2>10. Behind(t, i, Items(<<w>>, p))
    <3>1. <<w>> \in Outputs
      BY <2>8, TextSymbols, WordsPutOut
    <3>. QED
      BY <2>8, <2>9, <3>1, BehindItems
  <2>11. Behind(t, i, Items(<< >>, 0))
    BY WordsPutOut, BehindItems, PositionsAre
  <2>. DEFINE rest1 == IF HasName(w) THEN Items(<<w>>, p) ELSE Items(<< >>, 0)
              val(h) == CASE w = <<"(">> -> h["block"][k]
                          [] w = <<"|">> -> h["blank"][k]
                          [] w = <<"B">> -> Blk(t, h, k)
                          [] w = <<"C">> -> Ch(t, k)
                          [] OTHER       -> rest1
  <2>12. TokenMeant(t, g, i) = val(g) /\ TokenMeant(t, f, i) = val(f)
    BY <1>1, <1>4, <1>7, <2>1, <2>4, <2>9 DEF TokenMeant
  <2>13. Behind(t, i, rest1)
    BY <2>10, <2>11
  <2>. HIDE DEF rest1
  <2>14. /\ w # <<"(">> \/ w # <<"|">>
         /\ w # <<"(">> \/ w # <<"B">>
         /\ w # <<"(">> \/ w # <<"C">>
         /\ w # <<"|">> \/ w # <<"B">>
         /\ w # <<"|">> \/ w # <<"C">>
         /\ w # <<"B">> \/ w # <<"C">>
    OBVIOUS
  <2>15. val(g) = val(f) /\ Behind(t, i, val(f))
    <3>1. CASE w = <<"(">>
      BY <1>3, <2>5, <2>14, <3>1
    <3>2. CASE w = <<"|">>
      BY <1>3, <2>5, <2>14, <3>2
    <3>3. CASE w = <<"B">>
      BY <2>6, <2>14, <3>3
    <3>4. CASE w = <<"C">>
      BY <2>7, <2>14, <3>4
    <3>5. CASE w \notin {<<"(">>, <<"|">>, <<"B">>, <<"C">>}
      BY <2>13, <3>5
    <3>. QED
      BY <3>1, <3>2, <3>3, <3>4, <3>5
  <2>. HIDE DEF val
  <2>. QED
    BY <1>2, <1>3, <2>12, <2>15, BehindEnds
<1>. QED
  BY <1>6, <1>7

LEMMA BlockAgrees ==
  ASSUME NEW t \in Seq(Char), NEW f, NEW g, MeantWithin(t, f),
         NEW i \in 1..Len(t) + 1, MeantLower(t, g, f, "block", i)
  PROVE  /\ BlockMeant(t, g, i) = BlockMeant(t, f, i)
         /\ BlockMeant(t, f, i) \in MeantEnds(t)["block"][i]
<1>1. PICK l \in Nat : l = Len(t) /\ Positions(t) = 0..l + 1
  BY PositionsAre
<1>2. i \in Positions(t) /\ i > 0 /\ i \in Nat
  BY <1>1
<1>3. {"token", "block"} \subseteq Meant
  BY DEF Meant
<1>4. PICK n : n = NextWord(t, i)
  OBVIOUS
<1>5. /\ n \in 0..l + 1 /\ (n = 0 \/ n >= i)
      /\ n \notin {0, l + 1} => n \in 1..Len(t) /\ n + 1 \in Positions(t)
  BY <1>1, <1>2, <1>4, NextWordFacts
<1>6. CASE n \in {0, l + 1}
  <2>1. BlockMeant(t, g, i) = Items(<< >>, 0) /\ BlockMeant(t, f, i) = Items(<< >>, 0)
    BY <1>1, <1>4, <1>6 DEF BlockMeant
  <2>2. Behind(t, i, Items(<< >>, 0))
    BY WordsPutOut, BehindItems, PositionsAre
  <2>. QED
    BY <1>2, <1>3, <2>1, <2>2, BehindEnds
<1>7. CASE n \notin {0, l + 1} /\ t[n] = ")"
  <2>1. PICK k : k = n + 1
    OBVIOUS
  <2>2. k \in Positions(t) /\ k > i
    BY <1>2, <1>5, <1>7, <2>1
  <2>3. BlockMeant(t, g, i) = Items(<< >>, k) /\ BlockMeant(t, f, i) = Items(<< >>, k)
    BY <1>1, <1>4, <1>7, <2>1 DEF BlockMeant
  <2>4. Behind(t, i, Items(<< >>, k))
    BY <2>2, WordsPutOut, BehindItems
  <2>. QED
    BY <1>2, <1>3, <2>3, <2>4, BehindEnds
<1>8. CASE n \notin {0, l + 1} /\ t[n] # ")"
  <2>1. PICK one : one = f["token"][i]
    OBVIOUS
  <2>2. one = g["token"][i]
    BY <1>2, <1>3, <2>1, MeantLowerAt
  <2>3. /\ one \in Parts(t) /\ one.next \in Positions(t) /\ one.out \in Outputs
        /\ one.next = 0 \/ (i > 0 /\ one.next > i) \/ (i = Len(t) + 1 /\ one.next = i)
    BY <1>2, <1>3, <2>1, MeantWithinFacts
  <2>4. i # Len(t) + 1
    BY <1>1, <1>5, <1>8
  <2>5. PICK j : j = one.next
    OBVIOUS
  <2>6. j \in Positions(t) /\ (j = 0 \/ j > i)
    BY <2>3, <2>4, <2>5
  <2>7. g["block"][j] = f["block"][j] /\ Behind(t, i, f["block"][j])
    BY <1>3, <2>6, MeantLowerAt, MeantBehind
  <2>8. /\ BlockMeant(t, g, i) = Then(one.out, g["block"][j])
        /\ BlockMeant(t, f, i) = Then(one.out, f["block"][j])
    BY <1>1, <1>4, <1>8, <2>1, <2>2, <2>5 DEF BlockMeant
  <2>9. Behind(t, i, Then(one.out, f["block"][j]))
    BY <2>3, <2>7, BehindThen
  <2>. QED
    BY <1>2, <1>3, <2>7, <2>8, <2>9, BehindEnds
<1>. QED
  BY <1>6, <1>7, <1>8

LEMMA AllAgrees ==
  ASSUME NEW t \in Seq(Char), NEW f, NEW g, MeantWithin(t, f),
         NEW i \in 1..Len(t) + 1, MeantLower(t, g, f, "all", i)
  PROVE  /\ AllMeant(t, g, i) = AllMeant(t, f, i)
         /\ AllMeant(t, f, i) \in MeantEnds(t)["all"][i]
<1>1. PICK l \in Nat : l = Len(t) /\ Positions(t) = 0..l + 1
  BY PositionsAre
<1>2. i \in Positions(t) /\ i > 0 /\ i \in Nat
  BY <1>1
<1>3. {"token", "all"} \subseteq Meant
  BY DEF Meant
<1>4. CASE i > l
  <2>1. AllMeant(t, g, i) = Items(<< >>, i) /\ AllMeant(t, f, i) = Items(<< >>, i)
    BY <1>1, <1>4 DEF AllMeant
  <2>2. PICK v : v = Items(<< >>, i)
    OBVIOUS
  <2>3. v \in Parts(t) /\ v.next = i
    BY <1>2, <2>2, WordsPutOut, ItemsPart
  <2>4. i = Len(t) + 1
    BY <1>1, <1>4
  <2>5. v \in MeantEnds(t)["all"][i]
    BY <1>2, <1>3, <2>3, <2>4, MeantEndsAre
  <2>. QED
    BY <2>1, <2>2, <2>5
<1>5. CASE ~(i > l)
  <2>1. PICK one : one = f["token"][i]
    OBVIOUS
  <2>2. one = g["token"][i]
    BY <1>2, <1>3, <2>1, MeantLowerAt
  <2>3. /\ one \in Parts(t) /\ one.next \in Positions(t) /\ one.out \in Outputs
        /\ one.next = 0 \/ (i > 0 /\ one.next > i) \/ (i = Len(t) + 1 /\ one.next = i)
    BY <1>2, <1>3, <2>1, MeantWithinFacts
  <2>4. i # Len(t) + 1
    BY <1>1, <1>5
  <2>5. PICK j : j = one.next
    OBVIOUS
  <2>6. j \in Positions(t) /\ (j = 0 \/ j > i)
    BY <2>3, <2>4, <2>5
  <2>7. g["all"][j] = f["all"][j] /\ Behind(t, i, f["all"][j])
    BY <1>3, <2>6, MeantLowerAt, MeantBehind
  <2>8. /\ AllMeant(t, g, i) = Then(one.out, g["all"][j])
        /\ AllMeant(t, f, i) = Then(one.out, f["all"][j])
    BY <1>1, <1>5, <2>1, <2>2, <2>5 DEF AllMeant
  <2>9. Behind(t, i, Then(one.out, f["all"][j]))
    BY <2>3, <2>7, BehindThen
  <2>. QED
    BY <1>2, <1>3, <2>7, <2>8, <2>9, BehindEnds
<1>. QED
  BY <1>4, <1>5

LEMMA StringAgrees ==
  ASSUME NEW t \in Seq(Char), NEW f, NEW g, MeantWithin(t, f),
         NEW what \in {"blank", "string"},
         NEW i \in 1..Len(t) + 1, MeantLower(t, g, f, what, i)
  PROVE  /\ StringMeant(t, g, what, i) = StringMeant(t, f, what, i)
         /\ StringMeant(t, f, what, i) \in MeantEnds(t)[what][i]
<1>1. PICK l \in Nat : l = Len(t) /\ Positions(t) = 0..l + 1
  BY PositionsAre
<1>2. i \in Positions(t) /\ i > 0 /\ i \in Nat /\ 0 \in Positions(t)
  BY <1>1
<1>3. {"blank", "string"} \subseteq Meant /\ what \in Meant
  BY DEF Meant
<1>4. PICK e : e = Escape(t, i, {"n", " ", "|"})
  OBVIOUS
<1>5. e.next \in Positions(t) /\ e.c \in Symbols /\ (e.next = 0 \/ e.next > i)
  BY <1>4, EscapeFacts
<1>6. PICK j : j = e.next
  OBVIOUS
<1>7. PICK white \in {"blank", "string"} :
        white = IF e.c \in {"|", " "} THEN what ELSE IF e.c = "nl" THEN "blank" ELSE "string"
  OBVIOUS
<1>8. PICK item \in Outputs : item = IF e.c = " " /\ what = "blank" THEN << >> ELSE << <<"|", e.c>> >>
  <2>1. << <<"|", e.c>> >> \in Outputs /\ << >> \in Outputs
    BY <1>5, WordsPutOut
  <2>. QED
    BY <2>1
<1>9. \A h : StringMeant(t, h, what, i) =
        IF j = 0 THEN Items(<< >>, 0)
        ELSE IF t[i] = "|" THEN Items(<< <<"|", "end">> >>, j)
        ELSE Then(item, h[white][j])
  BY <1>4, <1>6, <1>7, <1>8 DEF StringMeant
<1>10. g[white][j] = f[white][j] /\ Behind(t, i, f[white][j])
  BY <1>3, <1>5, <1>6, MeantLowerAt, MeantBehind
<1>11. Behind(t, i, Then(item, f[white][j]))
  BY <1>10, BehindThen
<1>12. Behind(t, i, Items(<< >>, 0)) /\ Behind(t, i, Items(<< <<"|", "end">> >>, j))
  BY <1>2, <1>5, <1>6, WordsPutOut, BehindItems
<1>13. StringMeant(t, g, what, i) = StringMeant(t, f, what, i)
  BY <1>9, <1>10
<1>14. Behind(t, i, StringMeant(t, f, what, i))
  BY <1>9, <1>11, <1>12
<1>. QED
  BY <1>2, <1>3, <1>13, <1>14, BehindEnds

LEMMA MeantAgrees ==
  ASSUME NEW t \in Seq(Char), NEW f, NEW g, MeantWithin(t, f),
         NEW w \in Meant, NEW i \in Positions(t), MeantLower(t, g, f, w, i)
  PROVE  /\ MeantAt(t, g, w, i) = MeantAt(t, f, w, i)
         /\ MeantAt(t, f, w, i) \in MeantEnds(t)[w][i]
<1>1. PICK l \in Nat : l = Len(t) /\ Positions(t) = 0..l + 1
  BY PositionsAre
<1>2. CASE i = 0
  <2>1. MeantAt(t, g, w, i) = Items(<< >>, 0) /\ MeantAt(t, f, w, i) = Items(<< >>, 0)
    BY <1>2 DEF MeantAt
  <2>2. PICK v : v = Items(<< >>, 0)
    OBVIOUS
  <2>3. v \in Parts(t) /\ v.next = 0
    BY <1>2, <2>2, WordsPutOut, ItemsPart
  <2>4. v \in MeantEnds(t)[w][i]
    BY <2>3, MeantEndsAre
  <2>. QED
    BY <2>1, <2>2, <2>4
<1>3. CASE i # 0
  <2>1. i \in 1..Len(t) + 1
    BY <1>1, <1>3
  <2>2. CASE w = "token"
    <3>1. \A h : MeantAt(t, h, w, i) = TokenMeant(t, h, i)
      BY <1>3, <2>2 DEF MeantAt
    <3>. QED
      BY <2>1, <2>2, <3>1, TokenAgrees
  <2>3. CASE w = "block"
    <3>1. \A h : MeantAt(t, h, w, i) = BlockMeant(t, h, i)
      BY <1>3, <2>3 DEF MeantAt
    <3>. QED
      BY <2>1, <2>3, <3>1, BlockAgrees
  <2>4. CASE w = "all"
    <3>1. \A h : MeantAt(t, h, w, i) = AllMeant(t, h, i)
      BY <1>3, <2>4 DEF MeantAt
    <3>. QED
      BY <2>1, <2>4, <3>1, AllAgrees
  <2>5. CASE w \in {"blank", "string"}
    <3>1. \A h : MeantAt(t, h, w, i) = StringMeant(t, h, w, i)
      BY <1>3, <2>5 DEF MeantAt
    <3>2. PICK what \in {"blank", "string"} : what = w
      BY <2>5
    <3>3. MeantLower(t, g, f, what, i)
      BY <3>2
    <3>4. /\ StringMeant(t, g, what, i) = StringMeant(t, f, what, i)
          /\ StringMeant(t, f, what, i) \in MeantEnds(t)[what][i]
      BY <2>1, <3>3, StringAgrees
    <3>. QED
      BY <3>1, <3>2, <3>4
  <2>. QED
    BY <2>2, <2>3, <2>4, <2>5 DEF Meant
<1>. QED
  BY <1>2, <1>3

-----------------------------------------------------------------------------
(* Compiles is a solution of its definition: f satisfies it if each part   *)
(* is what MeantAt makes of the parts behind it.                           *)
IsCompiles(t, f) ==
  \A w \in Meant : \A i \in Positions(t) : f[w][i] = MeantAt(t, f, w, i)

LEMMA CompilesIs ==
  ASSUME NEW t \in Seq(Char)
  PROVE  IsCompiles(t, Compiles(t)) /\ MeantWithin(t, Compiles(t))
<1>. DEFINE P == Positions(t)
            Q == Parts(t)
            G == {g \in [Meant -> [P -> Q]] : MeantWithin(t, g)}
            G0 == [w \in Meant |-> [i \in P |-> Items(<< >>, 0)]]
            Now(g) == [w \in Meant |-> [i \in P |-> MeantAt(t, g, w, i)]]
            Step0 == [g \in G |-> Now(g)]
<1>1. PICK m \in Nat : m = 2 * Len(t) + 3 /\ MeantRank(t) \in [Meant -> [P -> 0..m]]
  BY MeantRankIs
<1>2. \A g : g \in G <=> KeptWithin(g, Meant, P, Q, MeantEnds(t))
  BY DEF MeantWithin, KeptWithin
<1>3. G0 \in G
  <2>1. PICK v \in Q : v = Items(<< >>, 0) /\ v.next = 0
    BY PositionsAre, WordsPutOut, ItemsPart
  <2>2. G0 \in [Meant -> [P -> Q]] /\ \A w \in Meant : \A i \in P : G0[w][i] = v
    BY <2>1
  <2>3. \A w \in Meant : \A i \in P : G0[w][i] \in MeantEnds(t)[w][i]
    <3>. HIDE DEF G0
    <3>. QED
      BY <2>1, <2>2, MeantEndsAre
  <2>. HIDE DEF G0
  <2>. QED
    BY <2>2, <2>3 DEF MeantWithin, KeptWithin
<1>4. ASSUME NEW g \in G, NEW f \in G, NEW w \in Meant, NEW i \in P,
             MeantLower(t, g, f, w, i)
      PROVE  MeantAt(t, g, w, i) = MeantAt(t, f, w, i)
  BY <1>4, MeantAgrees
<1>5. ASSUME NEW f \in G, NEW w \in Meant, NEW i \in P
      PROVE  MeantAt(t, f, w, i) \in MeantEnds(t)[w][i]
  <2>1. MeantLower(t, f, f, w, i)
    BY DEF MeantLower, Lower
  <2>. QED
    BY <2>1, MeantAgrees
<1>6. ASSUME NEW f \in G
      PROVE  Now(f) \in G
  <2>1. \A w \in Meant : \A i \in P : MeantAt(t, f, w, i) \in Q
    BY <1>5, MeantEndsAre
  <2>2. Now(f) \in [Meant -> [P -> Q]]
    BY <2>1
  <2>3. \A w \in Meant : \A i \in P : Now(f)[w][i] \in MeantEnds(t)[w][i]
    BY <1>5
  <2>. QED
    BY <2>2, <2>3 DEF MeantWithin, KeptWithin
<1>7. /\ Step0 \in [G -> G]
      /\ \A g \in G : Step0[g] = Now(g)
      /\ \A g \in G : \A w \in Meant : \A i \in P : Step0[g][w][i] = MeantAt(t, g, w, i)
  BY <1>6
<1>8. PICK f \in G : f = Step0[f]
  <2>1. \A g \in G : \A h \in G : \A w \in Meant : \A i \in P :
          Lower(MeantRank(t), Meant, P, g, h, w, i) => Step0[g][w][i] = Step0[h][w][i]
    <3>. HIDE DEF Step0, G, P, Q
    <3>. QED
      BY <1>4, <1>7 DEF MeantLower, P
  <2>2. Recursion(Meant, P, Q, MeantEnds(t), m, MeantRank(t), G, G0, Step0)
    <3>. HIDE DEF Step0, G, G0, P, Q
    <3>. QED
      BY <1>1, <1>2, <1>3, <1>7, <2>1 DEF Recursion
  <2>. HIDE DEF Step0, G, G0, P, Q
  <2>. QED
    BY ONLY <2>2, RankedExists
<1>9. f = Now(f)
  BY <1>7, <1>8
<1>. DEFINE IsIt(g) == g = Now(g)
<1>10. PICK h : h = Compiles(t) /\ h = Now(h)
  <2>1. Compiles(t) = CHOOSE g : IsIt(g)
    BY DEF Compiles
  <2>2. IsIt(f)
    BY <1>9
  <2>3. IsIt(CHOOSE g : IsIt(g))
    <3>. HIDE DEF IsIt
    <3>. QED
      BY <2>2
  <2>. QED
    BY <2>1, <2>3
<1>11. \A w \in Meant : \A i \in P :
         h[w][i] = MeantAt(t, h, w, i) /\ f[w][i] = MeantAt(t, f, w, i)
  <2>1. ASSUME NEW g, g = Now(g), NEW w \in Meant, NEW i \in P
        PROVE  g[w][i] = MeantAt(t, g, w, i)
    <3>1. PICK e : e = Now(g)
      OBVIOUS
    <3>2. e[w][i] = MeantAt(t, g, w, i)
      BY <3>1
    <3>. QED
      BY <2>1, <3>1, <3>2
  <2>. QED
    BY <1>9, <1>10, <2>1
<1>12. \A w \in Meant : \A i \in P : h[w][i] = f[w][i]
  <2>1. \A w \in Meant : \A i \in P :
          Lower(MeantRank(t), Meant, P, h, f, w, i) => h[w][i] = f[w][i]
    <3>1. ASSUME NEW w \in Meant, NEW i \in P,
                 Lower(MeantRank(t), Meant, P, h, f, w, i)
          PROVE  h[w][i] = f[w][i]
      <4>1. MeantAt(t, h, w, i) = MeantAt(t, f, w, i)
        BY <3>1, MeantAgrees DEF MeantLower
      <4>. QED
        BY <1>11, <4>1
    <3>. QED
      BY <3>1
  <2>2. Determined(Meant, P, m, MeantRank(t), f, h)
    <3>. HIDE DEF P, Q
    <3>. QED
      BY <1>1, <2>1 DEF Determined
  <2>. HIDE DEF P, Q
  <2>. QED
    BY ONLY <2>2, RankedUnique
<1>13. MeantWithin(t, f)
  OBVIOUS
<1>14. h \in [Meant -> [P -> Q]]
  <2>1. \A w \in Meant : \A i \in P : h[w][i] \in Q
    BY <1>12, <1>13 DEF MeantWithin, KeptWithin
  <2>2. \A w \in Meant : \A i \in P : MeantAt(t, h, w, i) \in Q
    BY <1>11, <2>1
  <2>3. Now(h) \in [Meant -> [P -> Q]]
    BY <2>2
  <2>. QED
    BY <1>10, <2>3
<1>15. MeantWithin(t, h)
  BY <1>12, <1>13, <1>14 DEF MeantWithin, KeptWithin
<1>16. IsCompiles(t, h)
  BY <1>11 DEF IsCompiles
<1>. QED
  BY <1>10, <1>15, <1>16

(***************************************************************************)
(* The meaning of an input is well defined: the two recursive functions    *)
(* that say what is commented out and what is compiled satisfy their       *)
(* definitions, at every position of every text.                           *)
(***************************************************************************)
THEOREM MeaningDefined ==
  ASSUME NEW t \in Seq(Char)
  PROVE  IsSkip(t, Skip(t)) /\ IsCompiles(t, Compiles(t))
BY SkipIs, CompilesIs

-----------------------------------------------------------------------------
(***************************************************************************)
(* What is left of the meaning while an input is compiled.  A function     *)
(* that is active and has the position p in front of it comes to           *)
(* Part(t, f, p), what it still puts out and where it then returns, or 0   *)
(* for a panic; Wrong(t) is where it cannot be.                            *)
(***************************************************************************)
Wrong(t) == Len(t) + 2
Spots(t) == 0..(Len(t) + 2)

Nothing(p) == Items(<< >>, p)

NonWhite(t, p) == First(t, p, Char \ White)

TokenAt(t, p) ==
  LET n == NonWhite(t, p)
  IN  IF n <= Len(t) /\ Len(Word(t, n)) > TokCap THEN 0 ELSE n

LineAt(t, p) ==
  LET eol == First(t, p, {"nl"})
  IN  IF eol - p > TokCap THEN 0 ELSE eol

Opened(t, p) ==
  LET n == NextWord(t, p)
  IN  IF n \notin {0, Len(t) + 1} /\ t[n] = "(" THEN Skip(t)["block"][n + 1] ELSE Wrong(t)

Letter(c) == IF c = "n" THEN "nl" ELSE c

CharAt(t, p) ==
  LET e == Escape(t, p, {"n", " "})
  IN  IF e.next = 0 THEN Nothing(0) ELSE Items(<< <<"C", e.c>> >>, e.next)

CharEscaped(t, p) ==
  IF p > Len(t) \/ t[p] \notin {"n", " "} THEN Nothing(0)
  ELSE Items(<< <<"C", Letter(t[p])>> >>, p + 1)

ColonAt(t, p) == IF p > Len(t) \/ t[p] # ":" THEN Nothing(0) ELSE CharAt(t, p + 1)

Blanks(white) == IF white THEN "blank" ELSE "string"

StringEscaped(t, white, p) ==
  LET c    == Letter(t[p])
      next == IF c \in {"|", " "} THEN Blanks(white) ELSE Blanks(c = "nl")
      item == IF c = " " /\ white THEN << >> ELSE << <<"|", c>> >>
  IN  IF p > Len(t) \/ t[p] \notin {"n", " ", "|"} THEN Nothing(0)
      ELSE Then(item, Compiles(t)[next][p + 1])

Part(t, f, p) ==
  LET base == f.cfn = "base"
      s    == Skip(t)
      c    == Compiles(t)
  IN  IF p \in {0, Wrong(t)} THEN Nothing(p)
      ELSE CASE f.at \in {"raw", "group"}       -> Nothing(TokenAt(t, p))
             [] f.at \in {"scan", "found"}      -> Nothing(NextWord(t, p))
             [] f.at = "N_fslash"               -> Nothing(s["comment"][p])
             [] f.at = "scanLine"               -> Nothing(LineAt(t, p))
             [] f.at = "fslash"                 -> Nothing(s["element"][NonWhite(t, p)])
             [] f.at = "commented"              -> Nothing(s["element"][p])
             [] f.at = "restore"                -> Nothing(p)
             [] f.at \in Sources                -> c["all"][p]
             [] f.at = "baseCompFn"             -> c["token"][p]
             [] f.at \in {"single", "singleToken"} ->
                  IF base THEN c["token"][p] ELSE Nothing(Opened(t, p))
             [] f.at \in {"paren", "parenToken"} ->
                  IF base THEN c["block"][p] ELSE Nothing(s["block"][p])
             [] f.at \in {"blkBody", "blkToken"} -> Ended(While(t, c, p))
             [] f.at = "blkEnd"                 -> Items(<< <<"blk", "end">> >>, p)
             [] f.at = "ch"                     -> ColonAt(t, p)
             [] f.at = "char"                   -> CharAt(t, p)
             [] f.at = "charEscape"             -> CharEscaped(t, p)
             [] f.at = "string"                 -> c[Blanks(f.white)][p]
             [] f.at = "stringEscape"           -> StringEscaped(t, f.white, p)

(* How the places hang together: what a function returns to its caller,    *)
(* and what one that waits is waiting for.                                 *)
Yields(at) == CASE at \in {"raw", "group"}  -> "token"
                [] at \in {"scan", "found"} -> "word"
                [] OTHER                    -> "part"

Awaits(at) == CASE at \in {"found", "commented"}                       -> "token"
                [] at \in {"singleToken", "parenToken", "blkToken", "ch"} -> "word"
                [] OTHER                                                -> "part"

Waiting == {"srcEof", "found", "commented", "scan", "restore", "singleToken", "parenToken",
            "paren", "blkBody", "blkToken", "blkEnd", "ch"}

(* The functions that only run when what they compile is not dropped.      *)
Compiling == Sources \cup Chars \cup {"baseCompFn", "blkBody", "blkToken", "blkEnd", "ch"}

(* compFn, while a function runs.                                          *)
Runs(f) == IF f.at \in {"commented", "restore"} THEN "fslash" ELSE f.cfn

Nested(k) ==
  /\ k[1].cfn = "base"
  /\ \A n \in 1..Len(k) :
       /\ k[n].at \in Compiling => k[n].cfn = "base"
       /\ k[n].at \notin {"string", "stringEscape"} => k[n].white = TRUE
  /\ \A n \in 1..Len(k) - 1 :
       /\ k[n].at \in Waiting /\ Yields(k[n + 1].at) = Awaits(k[n].at)
       /\ Yields(k[n + 1].at) # "token" => k[n + 1].cfn = Runs(k[n])

CompFnIs(k, fn) ==
  fn = Runs(k[IF Yields(k[Len(k)].at) = "token" THEN Len(k) - 1 ELSE Len(k)])

(* The token k is the word at p of t, the whole of it.                     *)
IsToken(t, p, k) ==
  /\ p \in 1..Len(t) /\ t[p] \notin White
  /\ k = Word(t, p) /\ Len(k) <= TokCap

(* What a function that returns leaves in the token: if there was          *)
(* something to scan, a word that is not the mark of a comment.            *)
Delivers(t, p, k, what) ==
  /\ k = << >> \/ IsToken(t, p, k)
  /\ what # "part" /\ k = << >> => p = Len(t) + 1
  /\ what = "word" => k # <<"\\">>

(* What the token may be when the function at `at' goes on.                *)
TokenFits(t, p, k, at) ==
  CASE at = "group"    -> /\ p \in 1..Len(t) /\ t[p] \notin White /\ t[p] \notin Single
                          /\ k # << >> /\ p + Len(k) - 1 <= WordEnd(t, p)
    [] at = "scanLine" -> \A i \in 1..Len(k) : k[i] # "nl"
    [] at \in Chars \cup {"N_fslash"} -> k = << >>
    [] OTHER           -> Delivers(t, p, k, Awaits(at))

-----------------------------------------------------------------------------
(* Lemmas about what is compiled.                                          *)

Wide(t) == [out : Outputs, next : Spots(t)]

LEMMA OutputsAre ==
  /\ << >> \in Outputs
  /\ \A a \in Outputs : a \o << >> = a /\ << >> \o a = a
  /\ \A a \in Outputs : \A b \in Outputs : a \o b \in Outputs
  /\ \A a \in Outputs : \A b \in Outputs : \A c \in Outputs : (a \o b) \o c = a \o (b \o c)
  /\ \A a \in Outputs : \A w \in Seq(Symbols) : Append(a, w) = a \o <<w>> /\ <<w>> \in Outputs
<1>1. PICK S : S = Seq(Symbols)
  OBVIOUS
<1>2. Outputs = Seq(S)
  BY <1>1 DEF Outputs
<1>3. << >> \in Seq(S) /\ \A w \in S : <<w>> \in Seq(S)
  OBVIOUS
<1>4. \A a \in Seq(S) : a \o << >> = a /\ << >> \o a = a
  BY ConcatEmptySeq
<1>5. \A a \in Seq(S) : \A b \in Seq(S) : a \o b \in Seq(S)
  BY ConcatProperties
<1>6. \A a \in Seq(S) : \A b \in Seq(S) : \A c \in Seq(S) : (a \o b) \o c = a \o (b \o c)
  BY ConcatAssociative
<1>7. \A a \in Seq(S) : \A w \in S : Append(a, w) = a \o <<w>>
  BY AppendIsConcat
<1>. QED
  BY <1>1, <1>2, <1>3, <1>4, <1>5, <1>6, <1>7, SMTT(30)

LEMMA SpotsAre ==
  ASSUME NEW t \in Seq(Char)
  PROVE  /\ Len(t) \in Nat /\ Spots(t) = 0..Len(t) + 2 /\ Wrong(t) = Len(t) + 2
         /\ 0 \in Spots(t) /\ Wrong(t) \in Spots(t) /\ Wrong(t) \notin Positions(t)
         /\ Positions(t) \subseteq Spots(t)
         /\ \A i \in 1..Len(t) + 1 : i \in Spots(t) /\ i \in Positions(t) /\ i \notin {0, Wrong(t)}
<1>1. Len(t) \in Nat /\ Positions(t) = 0..Len(t) + 1
  BY PositionsAre
<1>. QED
  BY <1>1 DEF Spots, Wrong

LEMMA PartsWide ==
  ASSUME NEW t \in Seq(Char)
  PROVE  Parts(t) \subseteq Wide(t)
BY SpotsAre DEF Parts, Wide

LEMMA ItemsWide ==
  ASSUME NEW t, NEW o \in Outputs, NEW n \in Spots(t)
  PROVE  Items(o, n) \in Wide(t) /\ Items(o, n).out = o /\ Items(o, n).next = n
BY DEF Items, Wide

LEMMA NothingWide ==
  ASSUME NEW t, NEW n \in Spots(t)
  PROVE  Nothing(n) \in Wide(t) /\ Nothing(n).out = << >> /\ Nothing(n).next = n
BY ItemsWide, OutputsAre DEF Nothing

LEMMA WideIs ==
  ASSUME NEW t, NEW r \in Wide(t)
  PROVE  r.out \in Outputs /\ r.next \in Spots(t) /\ r = Items(r.out, r.next)
BY DEF Items, Wide

LEMMA WideThen ==
  ASSUME NEW t, NEW o \in Outputs, NEW r \in Wide(t)
  PROVE  /\ Then(o, r) \in Wide(t) /\ Then(o, r).out = o \o r.out /\ Then(o, r).next = r.next
         /\ Then(<< >>, r) = r
<1>1. PICK q \in Outputs : q = o \o r.out
  BY WideIs, OutputsAre
<1>2. Then(o, r) = Items(q, r.next)
  BY <1>1 DEF Then
<1>3. Then(<< >>, r) = Items(r.out, r.next)
  BY WideIs, OutputsAre DEF Then
<1>4. PICK n \in Spots(t) : n = r.next
  BY WideIs
<1>5. Items(q, n) \in Wide(t) /\ Items(q, n).out = q /\ Items(q, n).next = n
  BY ItemsWide
<1>. QED
  BY <1>1, <1>2, <1>3, <1>4, <1>5, WideIs

LEMMA ThenThen ==
  ASSUME NEW t, NEW o \in Outputs, NEW x \in Outputs, NEW r \in Wide(t)
  PROVE  Then(o, Then(x, r)) = Then(o \o x, r)
<1>1. /\ Then(x, r).out = x \o r.out /\ Then(x, r).next = r.next
      /\ r.out \in Outputs
  BY WideThen, WideIs
<1>2. o \o (x \o r.out) = (o \o x) \o r.out
  BY <1>1, OutputsAre
<1>. QED
  BY <1>1, <1>2 DEF Then

(* A part, and what goes on where it ends.                                 *)
Comes(a, g) == Then(a.out, g[a.next])

LEMMA ComesWide ==
  ASSUME NEW t, NEW a \in Wide(t), NEW g \in [Spots(t) -> Wide(t)]
  PROVE  Comes(a, g) \in Wide(t)
BY WideIs, WideThen DEF Comes

LEMMA ThenComes ==
  ASSUME NEW t, NEW x \in Outputs, NEW b \in Wide(t), NEW g \in [Spots(t) -> Wide(t)]
  PROVE  Comes(Then(x, b), g) = Then(x, Comes(b, g))
<1>1. b.out \in Outputs /\ b.next \in Spots(t) /\ g[b.next] \in Wide(t)
  BY WideIs
<1>2. Then(x, b).out = x \o b.out /\ Then(x, b).next = b.next
  BY WideThen
<1>3. Then(x, Then(b.out, g[b.next])) = Then(x \o b.out, g[b.next])
  BY <1>1, ThenThen
<1>. QED
  BY <1>2, <1>3 DEF Comes

(* A part that is two: what comes of the second comes after the first.     *)
LEMMA ComesOfTwo ==
  ASSUME NEW t, NEW a \in Wide(t), NEW p \in [Spots(t) -> Wide(t)],
         NEW g \in [Spots(t) -> Wide(t)], NEW h \in [Spots(t) -> Wide(t)],
         \A q \in Spots(t) : h[q] = Comes(p[q], g)
  PROVE  Comes(a, h) = Comes(Then(a.out, p[a.next]), g)
<1>1. a.out \in Outputs /\ a.next \in Spots(t)
  BY WideIs
<1>2. p[a.next] \in Wide(t) /\ h[a.next] = Comes(p[a.next], g)
  BY <1>1
<1>3. Comes(Then(a.out, p[a.next]), g) = Then(a.out, Comes(p[a.next], g))
  BY <1>1, <1>2, ThenComes
<1>. QED
  BY <1>2, <1>3 DEF Comes

-----------------------------------------------------------------------------
(* What each function comes to.                                            *)

LEMMA SkipAlso ==
  ASSUME NEW t \in Seq(Char), NEW w \in Commented, NEW i \in Positions(t)
  PROVE  /\ Skip(t)[w][i] = SkipAt(t, Skip(t), w, i)
         /\ Skip(t)[w][i] \in Positions(t)
         /\ \/ Skip(t)[w][i] = 0
            \/ i > 0 /\ Skip(t)[w][i] >= i
BY SkipIs, SkipWithinFacts, PositionsAre DEF IsSkip

LEMMA CompilesAlso ==
  ASSUME NEW t \in Seq(Char), NEW w \in Meant, NEW i \in Positions(t)
  PROVE  /\ Compiles(t)[w][i] = MeantAt(t, Compiles(t), w, i)
         /\ Compiles(t)[w][i] \in Parts(t) /\ Compiles(t)[w][i] \in Wide(t)
BY CompilesIs, MeantWithinFacts, PartsWide DEF IsCompiles

(* The parts, at a position of the text.                                   *)
LEMMA PartAt ==
  ASSUME NEW t \in Seq(Char), NEW f \in Frames, NEW p \in 1..Len(t) + 1
  PROVE  LET s == Skip(t)
             c == Compiles(t)
         IN  /\ f.at \in {"raw", "group"} => Part(t, f, p) = Nothing(TokenAt(t, p))
             /\ f.at \in {"scan", "found"} => Part(t, f, p) = Nothing(NextWord(t, p))
             /\ f.at = "N_fslash" => Part(t, f, p) = Nothing(s["comment"][p])
             /\ f.at = "scanLine" => Part(t, f, p) = Nothing(LineAt(t, p))
             /\ f.at = "fslash" => Part(t, f, p) = Nothing(s["element"][NonWhite(t, p)])
             /\ f.at = "commented" => Part(t, f, p) = Nothing(s["element"][p])
             /\ f.at = "restore" => Part(t, f, p) = Nothing(p)
             /\ f.at \in Sources => Part(t, f, p) = c["all"][p]
             /\ f.at = "baseCompFn" => Part(t, f, p) = c["token"][p]
             /\ f.at \in {"single", "singleToken"} =>
                  Part(t, f, p) = IF f.cfn = "base" THEN c["token"][p] ELSE Nothing(Opened(t, p))
             /\ f.at \in {"paren", "parenToken"} =>
                  Part(t, f, p) = IF f.cfn = "base" THEN c["block"][p] ELSE Nothing(s["block"][p])
             /\ f.at \in {"blkBody", "blkToken"} => Part(t, f, p) = Ended(While(t, c, p))
             /\ f.at = "blkEnd" => Part(t, f, p) = Items(<< <<"blk", "end">> >>, p)
             /\ f.at = "ch" => Part(t, f, p) = ColonAt(t, p)
             /\ f.at = "char" => Part(t, f, p) = CharAt(t, p)
             /\ f.at = "charEscape" => Part(t, f, p) = CharEscaped(t, p)
             /\ f.at = "string" => Part(t, f, p) = c[Blanks(f.white)][p]
             /\ f.at = "stringEscape" => Part(t, f, p) = StringEscaped(t, f.white, p)
<1>1. p \notin {0, Wrong(t)}
  BY SpotsAre
<1>2. f.at \notin Sources <=> f.at # "src" /\ f.at # "srcEof"
  BY DEF Sources
<1>. QED
  BY <1>1, <1>2 DEF Part

LEMMA PartStops ==
  ASSUME NEW t, NEW f
  PROVE  Part(t, f, 0) = Nothing(0) /\ Part(t, f, Wrong(t)) = Nothing(Wrong(t))
BY DEF Part

LEMMA NonWhiteFacts ==
  ASSUME NEW t \in Seq(Char), NEW p \in 1..Len(t) + 1, NEW n, n = NonWhite(t, p)
  PROVE  /\ n \in p..Len(t) + 1 /\ n \in 1..Len(t) + 1
         /\ n <= Len(t) => t[n] \notin White /\ n \in 1..Len(t)
         /\ \A i \in p..n - 1 : t[i] \in White
<1>1. PICK l \in Nat : l = Len(t)
  BY LenProperties
<1>2. \A i \in 1..l : t[i] \in Char
  BY <1>1, ElementOfSeq
<1>3. IsFirst(t, p, Char \ White, n)
  BY FirstFacts DEF NonWhite
<1>4. /\ n \in p..l + 1 /\ p \in 1..l + 1
      /\ \A i \in p..n - 1 : t[i] \notin Char \ White
      /\ n <= l => t[n] \in Char \ White
  BY <1>1, <1>3 DEF IsFirst
<1>5. ASSUME NEW i \in p..n - 1
      PROVE  t[i] \in White
  <2>1. i \in 1..l
    BY <1>4
  <2>. QED
    BY <1>2, <1>4, <2>1
<1>. QED
  BY <1>1, <1>4, <1>5

LEMMA NonWhiteIs ==
  ASSUME NEW t \in Seq(Char), NEW p \in 1..Len(t) + 1
  PROVE  /\ p \in 1..Len(t) /\ t[p] \in White => NonWhite(t, p) = NonWhite(t, p + 1)
         /\ p \in 1..Len(t) /\ t[p] \notin White => NonWhite(t, p) = p
         /\ p = Len(t) + 1 => NonWhite(t, p) = p
<1>1. \A i \in 1..Len(t) : t[i] \in Char
  BY ElementOfSeq
<1>2. ASSUME p \in 1..Len(t)
      PROVE  /\ t[p] \in White => NonWhite(t, p) = NonWhite(t, p + 1)
             /\ t[p] \notin White => NonWhite(t, p) = p
  <2>1. t[p] \in Char \ White <=> t[p] \notin White
    BY <1>1, <1>2
  <2>. QED
    BY <1>2, <2>1, FirstStep DEF NonWhite
<1>3. p = Len(t) + 1 => NonWhite(t, p) = p
  BY FirstAtEnd DEF NonWhite
<1>. QED
  BY <1>2, <1>3

LEMMA NonWhiteAgain ==
  ASSUME NEW t \in Seq(Char), NEW p \in 1..Len(t) + 1
  PROVE  NonWhite(t, NonWhite(t, p)) = NonWhite(t, p)
<1>1. PICK n : n = NonWhite(t, p)
  OBVIOUS
<1>2. n \in 1..Len(t) + 1 /\ (n <= Len(t) => t[n] \notin White /\ n \in 1..Len(t))
  BY <1>1, NonWhiteFacts
<1>3. n \in 1..Len(t) \/ n = Len(t) + 1
  BY <1>2, LenProperties
<1>. QED
  BY <1>1, <1>2, <1>3, NonWhiteIs

(* The next word, of the first that is not white.                          *)
LEMMA NextWordIs ==
  ASSUME NEW t \in Seq(Char), NEW i \in 1..Len(t) + 1, NEW n, n = NonWhite(t, i)
  PROVE  /\ NextWord(t, i) =
              IF n > Len(t) THEN n
              ELSE IF Len(Word(t, n)) > TokCap THEN 0
              ELSE IF Word(t, n) = <<"\\">> THEN NextWord(t, Skip(t)["comment"][n + 1])
              ELSE n
         /\ NextWord(t, i) = NextWord(t, n)
<1>1. Len(t) \in Nat
  BY LenProperties
<1>2. \A j \in 1..Len(t) + 1 : j \in Positions(t) /\ j # 0
  BY <1>1, SpotsAre
<1>3. n \in 1..Len(t) + 1 /\ NonWhite(t, n) = n
  BY NonWhiteFacts, NonWhiteAgain
<1>4. ASSUME NEW j \in 1..Len(t) + 1, n = NonWhite(t, j)
      PROVE  NextWord(t, j) =
              IF n > Len(t) THEN n
              ELSE IF Len(Word(t, n)) > TokCap THEN 0
              ELSE IF Word(t, n) = <<"\\">> THEN NextWord(t, Skip(t)["comment"][n + 1])
              ELSE n
  <2>1. NextWord(t, j) = SkipAt(t, Skip(t), "word", j)
    BY <1>2, SkipAlso DEF NextWord, Commented
  <2>2. SkipAt(t, Skip(t), "word", j) = SkipWord(t, Skip(t), j)
    BY <1>2 DEF SkipAt
  <2>. QED
    BY <1>4, <2>1, <2>2 DEF SkipWord, NextWord, NonWhite
<1>. QED
  BY <1>3, <1>4

(* A token that may be returned for the next word is it.                   *)
LEMMA TokenIsNextWord ==
  ASSUME NEW t \in Seq(Char), NEW p, NEW k, IsToken(t, p, k)
  PROVE  /\ p \in 1..Len(t) /\ p \in 1..Len(t) + 1 /\ p + 1 \in 1..Len(t) + 1
         /\ NonWhite(t, p) = p /\ TokenAt(t, p) = p
         /\ k # <<"\\">> => NextWord(t, p) = p
<1>1. PICK l \in Nat : l = Len(t)
  BY LenProperties
<1>2. p \in 1..l /\ t[p] \notin White /\ k = Word(t, p) /\ Len(k) <= TokCap
  BY <1>1 DEF IsToken
<1>3. p \in 1..Len(t) /\ p \in 1..Len(t) + 1 /\ p + 1 \in 1..Len(t) + 1
  BY <1>1, <1>2
<1>4. NonWhite(t, p) = p
  BY <1>2, <1>3, NonWhiteIs
<1>5. /\ Len(Word(t, p)) \in Nat /\ TokCap \in Nat
  BY <1>1, <1>2, <1>3, WordFacts, CapAssumption, LenProperties
<1>6. ~(Len(Word(t, p)) > TokCap)
  BY <1>2, <1>5
<1>7. TokenAt(t, p) = p
  BY <1>4, <1>6 DEF TokenAt
<1>8. ~(p > Len(t))
  BY <1>1, <1>2
<1>9. k # <<"\\">> => NextWord(t, p) = p
  BY <1>2, <1>3, <1>4, <1>6, <1>8, NextWordIs
<1>. QED
  BY <1>3, <1>4, <1>7, <1>9

(* The next word is a word, and none that is commented out.                *)
WordThere(t, n) == n \in {0, Len(t) + 1} \/ (IsToken(t, n, Word(t, n)) /\ Word(t, n) # <<"\\">>)

LEMMA NextWordThere ==
  ASSUME NEW t \in Seq(Char), NEW i \in Positions(t)
  PROVE  WordThere(t, NextWord(t, i))
<1>1. PICK l \in Nat : l = Len(t) /\ Positions(t) = 0..l + 1
  BY PositionsAre
<1>. DEFINE S == {j \in 0..l + 1 : ~WordThere(t, NextWord(t, j))}
<1>2. SUFFICES ASSUME S # {}
               PROVE  FALSE
  BY <1>1
<1>3. l + 1 \in Nat /\ S \subseteq 0..l + 1
  BY <1>1
<1>4. PICK x \in S : \A y \in S : x >= y
  <2>1. PICK b \in Nat : b = l + 1
    BY <1>1
  <2>. HIDE DEF S
  <2>. QED
    BY <1>2, <1>3, <2>1, GreatestOf
<1>5. x # 0
  <2>1. NextWord(t, 0) = 0
    BY <1>1, NextWordFacts
  <2>. QED
    BY <2>1 DEF WordThere
<1>6. x \in 1..Len(t) + 1
  BY <1>1, <1>3, <1>5
<1>7. PICK n : n = NonWhite(t, x)
  OBVIOUS
<1>8. n \in x..l + 1 /\ n \in 1..l + 1 /\ (n <= l => t[n] \notin White /\ n \in 1..l)
  BY <1>1, <1>6, <1>7, NonWhiteFacts
<1>9. CASE n > l
  <2>1. NextWord(t, x) = n /\ n = l + 1
    BY <1>1, <1>6, <1>7, <1>8, <1>9, NextWordIs
  <2>. QED
    BY <1>1, <2>1 DEF WordThere
<1>10. CASE ~(n > l) /\ Len(Word(t, n)) > TokCap
  <2>1. NextWord(t, x) = 0
    BY <1>1, <1>6, <1>7, <1>10, NextWordIs
  <2>. QED
    BY <2>1 DEF WordThere
<1>11. CASE ~(n > l) /\ ~(Len(Word(t, n)) > TokCap) /\ Word(t, n) = <<"\\">>
  <2>1. PICK m : m = Skip(t)["comment"][n + 1]
    OBVIOUS
  <2>2. NextWord(t, x) = NextWord(t, m)
    BY <1>1, <1>6, <1>7, <1>11, <2>1, NextWordIs
  <2>3. n + 1 \in Positions(t) /\ n + 1 > 0
    BY <1>1, <1>8, <1>11
  <2>4. m \in 0..l + 1 /\ (m = 0 \/ m >= n + 1)
    BY <1>1, <2>1, <2>3, SkipAlso DEF Commented
  <2>5. CASE m = 0
    <3>1. NextWord(t, 0) = 0
      BY <1>1, NextWordFacts
    <3>. QED
      BY <2>2, <2>5, <3>1 DEF WordThere
  <2>6. CASE m > x
    BY <1>1, <1>3, <1>4, <2>2, <2>4, <2>6
  <2>. QED
    BY <1>1, <1>6, <1>8, <2>4, <2>5, <2>6
<1>12. CASE ~(n > l) /\ ~(Len(Word(t, n)) > TokCap) /\ Word(t, n) # <<"\\">>
  <2>1. NextWord(t, x) = n
    BY <1>1, <1>6, <1>7, <1>12, NextWordIs
  <2>2. n \in 1..Len(t) /\ t[n] \notin White
    BY <1>1, <1>8, <1>12
  <2>3. Len(Word(t, n)) <= TokCap
    BY <1>12, <2>2, WordFacts, LenProperties, CapAssumption
  <2>. QED
    BY <1>12, <2>1, <2>2, <2>3 DEF WordThere, IsToken
<1>. QED
  BY <1>9, <1>10, <1>11, <1>12

LEMMA NextWordAgain ==
  ASSUME NEW t \in Seq(Char), NEW i \in Positions(t), NEW n, n = NextWord(t, i)
  PROVE  NextWord(t, n) = n
<1>1. WordThere(t, n) /\ n \in Positions(t)
  BY NextWordThere, NextWordFacts
<1>2. CASE n = 0
  BY <1>2, PositionsAre, NextWordFacts
<1>3. CASE n = Len(t) + 1
  <2>1. n \in 1..Len(t) + 1 /\ n > Len(t)
    BY <1>3, LenProperties
  <2>2. NonWhite(t, n) = n
    BY <1>3, <2>1, NonWhiteIs
  <2>. QED
    BY <2>1, <2>2, NextWordIs
<1>4. CASE IsToken(t, n, Word(t, n)) /\ Word(t, n) # <<"\\">>
  BY <1>4, TokenIsNextWord
<1>. QED
  BY <1>1, <1>2, <1>3, <1>4 DEF WordThere

-----------------------------------------------------------------------------
(* What is compiled from a position on is a part of the text, that ends at *)
(* a position where it may go on.                                          *)

LEMMA WhileWide ==
  ASSUME NEW t \in Seq(Char), NEW p \in Positions(t)
  PROVE  /\ While(t, Compiles(t), p) \in Wide(t)
         /\ Ended(While(t, Compiles(t), p)) \in Wide(t)
<1>1. PICK m : m = NextWord(t, p)
  OBVIOUS
<1>2. m \in Positions(t) /\ m \in Spots(t) /\ (m \notin {0, Len(t) + 1} => m + 1 \in Positions(t))
  BY <1>1, NextWordFacts, SpotsAre
<1>3. PICK a \in Wide(t) : a = While(t, Compiles(t), p)
  <2>1. CASE m \notin {0, Len(t) + 1} /\ Word(t, m) = <<"W">>
    <3>1. While(t, Compiles(t), p) = Then(<< <<"W">> >>, Compiles(t)["token"][m + 1])
      BY <1>1, <2>1 DEF While
    <3>2. Compiles(t)["token"][m + 1] \in Wide(t)
      BY <1>2, <2>1, CompilesAlso DEF Meant
    <3>. QED
      BY <3>1, <3>2, WordsPutOut, WideThen
  <2>2. CASE ~(m \notin {0, Len(t) + 1} /\ Word(t, m) = <<"W">>)
    <3>1. While(t, Compiles(t), p) = Items(<< >>, m)
      BY <1>1, <2>2 DEF While
    <3>. QED
      BY <1>2, <3>1, WordsPutOut, ItemsWide
  <2>. QED
    BY <2>1, <2>2
<1>4. a.out \in Outputs /\ a.next \in Spots(t)
  BY <1>3, WideIs
<1>5. Then(a.out, Items(<< <<"blk", "end">> >>, a.next)) \in Wide(t)
  BY <1>4, WordsPutOut, ItemsWide, WideThen
<1>6. Ended(a) \in Wide(t)
  BY <1>3, <1>5 DEF Ended
<1>. QED
  BY <1>3, <1>6

LEMMA NextsAreSpots ==
  ASSUME NEW t \in Seq(Char), NEW p \in 1..Len(t) + 1
  PROVE  /\ TokenAt(t, p) \in Spots(t) /\ LineAt(t, p) \in Spots(t) /\ Opened(t, p) \in Spots(t)
         /\ NextWord(t, p) \in Spots(t)
         /\ \A w \in Commented : Skip(t)[w][p] \in Spots(t)
         /\ Skip(t)["element"][NonWhite(t, p)] \in Spots(t)
<1>1. p \in Positions(t) /\ Len(t) \in Nat /\ Positions(t) \subseteq Spots(t) /\ Spots(t) = 0..Len(t) + 2
      /\ 0 \in Spots(t) /\ Wrong(t) \in Spots(t)
  BY SpotsAre
<1>2. TokenAt(t, p) \in Spots(t)
  BY <1>1, NonWhiteFacts DEF TokenAt
<1>3. LineAt(t, p) \in Spots(t)
  <2>1. First(t, p, {"nl"}) \in p..Len(t) + 1
    BY FirstFacts DEF IsFirst
  <2>. QED
    BY <1>1, <2>1 DEF LineAt
<1>4. PICK n : n = NextWord(t, p)
  OBVIOUS
<1>5. n \in Positions(t) /\ (n \notin {0, Len(t) + 1} => n + 1 \in Positions(t))
  BY <1>1, <1>4, NextWordFacts
<1>6. Opened(t, p) \in Spots(t)
  <2>1. CASE n \notin {0, Len(t) + 1} /\ t[n] = "("
    <3>1. Skip(t)["block"][n + 1] \in Positions(t)
      BY <1>5, <2>1, SkipAlso DEF Commented
    <3>. QED
      BY <1>1, <1>4, <2>1, <3>1 DEF Opened
  <2>2. CASE ~(n \notin {0, Len(t) + 1} /\ t[n] = "(")
    BY <1>1, <1>4, <2>2 DEF Opened
  <2>. QED
    BY <2>1, <2>2
<1>7. \A w \in Commented : Skip(t)[w][p] \in Spots(t)
  BY <1>1, SkipAlso
<1>8. Skip(t)["element"][NonWhite(t, p)] \in Spots(t)
  <2>1. NonWhite(t, p) \in Positions(t)
    BY NonWhiteFacts, SpotsAre
  <2>. QED
    BY <1>1, <2>1, SkipAlso DEF Commented
<1>. QED
  BY <1>1, <1>2, <1>3, <1>4, <1>5, <1>6, <1>7, <1>8

LEMMA LetterSymbol ==
  ASSUME NEW t \in Seq(Char), NEW p \in 1..Len(t)
  PROVE  Letter(t[p]) \in Symbols
BY TextSymbols DEF Letter, Symbols

LEMMA CharsWide ==
  ASSUME NEW t \in Seq(Char), NEW p \in 1..Len(t) + 1, NEW white \in BOOLEAN
  PROVE  /\ CharAt(t, p) \in Wide(t) /\ CharEscaped(t, p) \in Wide(t) /\ ColonAt(t, p) \in Wide(t)
         /\ StringEscaped(t, white, p) \in Wide(t)
<1>1. PICK l \in Nat : l = Len(t)
  BY LenProperties
<1>2. /\ Positions(t) \subseteq Spots(t) /\ 0 \in Spots(t) /\ Nothing(0) \in Wide(t)
      /\ \A i \in 1..l + 1 : i \in Spots(t) /\ i \in Positions(t)
  BY <1>1, SpotsAre, NothingWide
<1>3. \A c \in Symbols : << <<"C", c>> >> \in Outputs /\ << <<"|", c>> >> \in Outputs
  BY WordsPutOut
<1>4. \A q \in 1..Len(t) + 1 : CharAt(t, q) \in Wide(t)
  <2>1. ASSUME NEW q \in 1..Len(t) + 1
        PROVE  CharAt(t, q) \in Wide(t)
    <3>1. PICK e : e = Escape(t, q, {"n", " "})
      OBVIOUS
    <3>2. e.next \in Spots(t) /\ e.c \in Symbols
      BY <1>2, <3>1, EscapeFacts
    <3>3. Items(<< <<"C", e.c>> >>, e.next) \in Wide(t)
      BY <1>3, <3>2, ItemsWide
    <3>. QED
      BY <1>2, <3>1, <3>3 DEF CharAt
  <2>. QED
    BY <2>1
<1>5. CASE p > l
  BY <1>1, <1>2, <1>4, <1>5 DEF CharEscaped, ColonAt, StringEscaped
<1>6. CASE ~(p > l)
  <2>1. p \in 1..Len(t) /\ p + 1 \in 1..Len(t) + 1 /\ p + 1 \in Spots(t) /\ p + 1 \in Positions(t)
    BY <1>1, <1>2, <1>6
  <2>2. PICK c \in Symbols : c = Letter(t[p])
    BY <2>1, LetterSymbol
  <2>3. CharEscaped(t, p) \in Wide(t)
    <3>1. Items(<< <<"C", c>> >>, p + 1) \in Wide(t)
      BY <1>3, <2>1, ItemsWide
    <3>. QED
      BY <1>2, <2>2, <3>1 DEF CharEscaped
  <2>4. ColonAt(t, p) \in Wide(t)
    BY <1>2, <1>4, <2>1 DEF ColonAt
  <2>5. StringEscaped(t, white, p) \in Wide(t)
    <3>1. PICK w \in Meant : w = IF c \in {"|", " "} THEN Blanks(white) ELSE Blanks(c = "nl")
      BY DEF Meant, Blanks
    <3>2. PICK o \in Outputs : o = IF c = " " /\ white THEN << >> ELSE << <<"|", c>> >>
      BY <1>3, WordsPutOut
    <3>3. Then(o, Compiles(t)[w][p + 1]) \in Wide(t)
      BY <2>1, CompilesAlso, WideThen
    <3>. QED
      BY <1>2, <2>2, <3>1, <3>2, <3>3 DEF StringEscaped
  <2>. QED
    BY <1>4, <2>3, <2>4, <2>5
<1>. QED
  BY <1>5, <1>6

LEMMA PartWide ==
  ASSUME NEW t \in Seq(Char), NEW f \in Frames, NEW p \in Spots(t)
  PROVE  Part(t, f, p) \in Wide(t)
<1>1. PICK l \in Nat : l = Len(t) /\ Spots(t) = 0..l + 2 /\ Wrong(t) = l + 2
  BY SpotsAre
<1>2. CASE p \in {0, Wrong(t)}
  BY <1>2, PartStops, NothingWide, SpotsAre
<1>3. CASE p \notin {0, Wrong(t)}
  <2>1. p \in 1..Len(t) + 1 /\ p \in Positions(t) /\ p \in Spots(t)
    BY <1>1, <1>3, SpotsAre
  <2>2. f.at \in Places /\ f.white \in BOOLEAN
    BY DEF Frames
  <2>3. {"token", "block", "all", "blank", "string"} \subseteq Meant
        /\ {"word", "comment", "element", "block"} \subseteq Commented
    BY DEF Meant, Commented
  <2>4. \A w \in Meant : Compiles(t)[w][p] \in Wide(t)
    BY <2>1, CompilesAlso
  <2>5. \A n \in Spots(t) : Nothing(n) \in Wide(t)
    BY NothingWide
  <2>6. /\ TokenAt(t, p) \in Spots(t) /\ LineAt(t, p) \in Spots(t) /\ Opened(t, p) \in Spots(t)
        /\ NextWord(t, p) \in Spots(t)
        /\ \A w \in Commented : Skip(t)[w][p] \in Spots(t)
        /\ Skip(t)["element"][NonWhite(t, p)] \in Spots(t)
    BY <2>1, NextsAreSpots
  <2>7. CASE f.at \in {"raw", "group", "scan", "found", "N_fslash", "scanLine", "fslash",
                       "commented", "restore"}
    <3>1. \E n \in Spots(t) : Part(t, f, p) = Nothing(n)
      <4>1. CASE f.at \in {"raw", "group"}
        BY <2>1, <2>6, <4>1, PartAt
      <4>2. CASE f.at \in {"scan", "found"}
        BY <2>1, <2>6, <4>2, PartAt
      <4>3. CASE f.at = "N_fslash"
        BY <2>1, <2>3, <2>6, <4>3, PartAt
      <4>4. CASE f.at = "scanLine"
        BY <2>1, <2>6, <4>4, PartAt
      <4>5. CASE f.at = "fslash"
        BY <2>1, <2>6, <4>5, PartAt
      <4>6. CASE f.at = "commented"
        BY <2>1, <2>3, <2>6, <4>6, PartAt
      <4>7. CASE f.at = "restore"
        BY <2>1, <4>7, PartAt
      <4>. QED
        BY <2>7, <4>1, <4>2, <4>3, <4>4, <4>5, <4>6, <4>7
    <3>. QED
      BY <2>5, <3>1
  <2>8. CASE f.at \in Sources \cup {"baseCompFn"}
    BY <2>1, <2>3, <2>4, <2>8, PartAt
  <2>9. CASE f.at \in {"single", "singleToken", "paren", "parenToken"}
    <3>1. CASE f.at \in {"single", "singleToken"}
      <4>1. \/ Part(t, f, p) = Compiles(t)["token"][p]
            \/ Part(t, f, p) = Nothing(Opened(t, p))
        BY <2>1, <3>1, PartAt
      <4>. QED
        BY <2>3, <2>4, <2>5, <2>6, <4>1
    <3>2. CASE f.at \in {"paren", "parenToken"}
      <4>1. \/ Part(t, f, p) = Compiles(t)["block"][p]
            \/ Part(t, f, p) = Nothing(Skip(t)["block"][p])
        BY <2>1, <3>2, PartAt
      <4>. QED
        BY <2>3, <2>4, <2>5, <2>6, <4>1
    <3>. QED
      BY <2>9, <3>1, <3>2
  <2>10. CASE f.at \in {"blkBody", "blkToken", "blkEnd"}
    <3>1. Items(<< <<"blk", "end">> >>, p) \in Wide(t)
      BY WordsPutOut, ItemsWide
    <3>. QED
      BY <2>1, <2>10, <3>1, PartAt, WhileWide
  <2>11. CASE f.at \in Chars \cup {"ch"}
    <3>1. Blanks(f.white) \in Meant
      BY DEF Blanks, Meant
    <3>. QED
      BY <2>1, <2>2, <2>4, <2>11, <3>1, PartAt, CharsWide DEF Chars
  <2>. QED
    BY <2>2, <2>7, <2>8, <2>9, <2>10, <2>11 DEF Places, Others
<1>. QED
  BY <1>2, <1>3

-----------------------------------------------------------------------------
(* What the active functions come to, the innermost first: K[n][q] is what *)
(* goes on when the innermost n of them, from compileSrc on, are left at q.*)
Chain(t, k, K) ==
  /\ K \in [0..Len(k) -> [Spots(t) -> Wide(t)]]
  /\ \A q \in Spots(t) : K[0][q] = Nothing(q)
  /\ \A n \in 1..Len(k) : \A q \in Spots(t) : K[n][q] = Comes(Part(t, k[n], q), K[n - 1])

Follows(t, k, o, p) ==
  /\ t \in Seq(Char) /\ k \in Seq(Frames) /\ o \in Outputs /\ p \in 1..Len(t) + 1
  /\ \E K : Chain(t, k, K) /\ Then(o, K[Len(k)][p]) = Compiled(t)

LEMMA ChainBelow ==
  ASSUME NEW t \in Seq(Char), NEW k \in Seq(Frames), Len(k) > 0, NEW K, Chain(t, k, K)
  PROVE  /\ Len(k) \in 1..Len(k) /\ Len(k) - 1 \in 0..Len(k)
         /\ K[Len(k)] \in [Spots(t) -> Wide(t)] /\ K[Len(k) - 1] \in [Spots(t) -> Wide(t)]
         /\ \A q \in Spots(t) : K[Len(k)][q] = Comes(Part(t, k[Len(k)], q), K[Len(k) - 1])
<1>1. PICK l \in Nat : l = Len(k)
  BY LenProperties
<1>2. l \in 1..l /\ l \in 0..l /\ l - 1 \in 0..l
  BY <1>1
<1>. QED
  BY <1>1, <1>2 DEF Chain

(* Another function in the place of the innermost one.                     *)
LEMMA ChainReplace ==
  ASSUME NEW t \in Seq(Char), NEW k \in Seq(Frames), Len(k) > 0, NEW K, Chain(t, k, K),
         NEW g \in Frames
  PROVE  \E Z : /\ Chain(t, [k EXCEPT ![Len(k)] = g], Z)
                /\ \A q \in Spots(t) : Z[Len(k)][q] = Comes(Part(t, g, q), K[Len(k) - 1])
<1>1. PICK l \in Nat : l = Len(k)
  BY LenProperties
<1>2. l > 0 /\ l \in 1..l /\ l - 1 \in 0..l /\ l - 1 # l /\ 0 # l /\ 0 \in 0..l
  BY <1>1
<1>3. PICK u : u = [k EXCEPT ![l] = g]
  OBVIOUS
<1>4. u \in Seq(Frames) /\ Len(u) = l /\ u[l] = g /\ \A n \in 1..l : n # l => u[n] = k[n]
  BY <1>1, <1>2, <1>3, ExceptSeq
<1>5. /\ K \in [0..l -> [Spots(t) -> Wide(t)]]
      /\ \A q \in Spots(t) : K[0][q] = Nothing(q)
      /\ \A n \in 1..l : \A q \in Spots(t) : K[n][q] = Comes(Part(t, k[n], q), K[n - 1])
  BY <1>1 DEF Chain
<1>6. PICK B : B = K[l - 1]
  OBVIOUS
<1>7. B \in [Spots(t) -> Wide(t)]
  BY <1>2, <1>5, <1>6
<1>8. PICK z \in [Spots(t) -> Wide(t)] : \A q \in Spots(t) : z[q] = Comes(Part(t, g, q), B)
  <2>. DEFINE z0 == [q \in Spots(t) |-> Comes(Part(t, g, q), B)]
  <2>1. \A q \in Spots(t) : Comes(Part(t, g, q), B) \in Wide(t)
    BY <1>7, PartWide, ComesWide
  <2>2. z0 \in [Spots(t) -> Wide(t)] /\ \A q \in Spots(t) : z0[q] = Comes(Part(t, g, q), B)
    BY <2>1
  <2>. QED
    BY <2>2
<1>9. PICK Z : Z = [n \in 0..l |-> IF n = l THEN z ELSE K[n]]
  OBVIOUS
<1>10. /\ Z \in [0..l -> [Spots(t) -> Wide(t)]]
       /\ Z[l] = z /\ \A n \in 0..l : n # l => Z[n] = K[n]
  BY <1>2, <1>5, <1>8, <1>9
<1>11. Z[0] = K[0]
  BY <1>2, <1>10
<1>12. ASSUME NEW n \in 1..l, NEW q \in Spots(t)
       PROVE  Z[n][q] = Comes(Part(t, u[n], q), Z[n - 1])
  <2>1. n - 1 \in 0..l /\ n - 1 # l /\ n \in 0..l
    OBVIOUS
  <2>2. Z[n - 1] = K[n - 1]
    BY <1>10, <2>1
  <2>3. CASE n = l
    BY <1>4, <1>6, <1>8, <1>10, <2>2, <2>3
  <2>4. CASE n # l
    BY <1>4, <1>5, <1>10, <2>1, <2>2, <2>4
  <2>. QED
    BY <2>3, <2>4
<1>13. Chain(t, u, Z)
  BY <1>4, <1>5, <1>10, <1>11, <1>12 DEF Chain
<1>14. \A q \in Spots(t) : Z[l][q] = Comes(Part(t, g, q), K[l - 1])
  BY <1>6, <1>8, <1>10
<1>. QED
  BY <1>1, <1>3, <1>13, <1>14

(* Another one that is called.                                             *)
LEMMA ChainCall ==
  ASSUME NEW t \in Seq(Char), NEW k \in Seq(Frames), NEW K, Chain(t, k, K), NEW h \in Frames
  PROVE  \E Z : /\ Chain(t, Append(k, h), Z)
                /\ \A q \in Spots(t) : Z[Len(k) + 1][q] = Comes(Part(t, h, q), K[Len(k)])
<1>1. PICK l \in Nat : l = Len(k)
  BY LenProperties
<1>2. PICK m \in Nat : m = l + 1
  BY <1>1
<1>3. m \in 1..m /\ m - 1 = l /\ l \in 0..l /\ 0 # m /\ 0..m = 0..l \cup {m}
  BY <1>1, <1>2
<1>4. PICK u : u = Append(k, h)
  OBVIOUS
<1>5. u \in Seq(Frames) /\ Len(u) = m /\ u[m] = h /\ \A n \in 1..l : u[n] = k[n]
  BY <1>1, <1>2, <1>4, AppendProperties
<1>6. /\ K \in [0..l -> [Spots(t) -> Wide(t)]]
      /\ \A q \in Spots(t) : K[0][q] = Nothing(q)
      /\ \A n \in 1..l : \A q \in Spots(t) : K[n][q] = Comes(Part(t, k[n], q), K[n - 1])
  BY <1>1 DEF Chain
<1>7. PICK B \in [Spots(t) -> Wide(t)] : B = K[l]
  BY <1>3, <1>6
<1>8. PICK z \in [Spots(t) -> Wide(t)] : \A q \in Spots(t) : z[q] = Comes(Part(t, h, q), B)
  <2>. DEFINE z0 == [q \in Spots(t) |-> Comes(Part(t, h, q), B)]
  <2>1. \A q \in Spots(t) : Comes(Part(t, h, q), B) \in Wide(t)
    BY <1>7, PartWide, ComesWide
  <2>2. z0 \in [Spots(t) -> Wide(t)] /\ \A q \in Spots(t) : z0[q] = Comes(Part(t, h, q), B)
    BY <2>1
  <2>. QED
    BY <2>2
<1>9. PICK Z : Z = [n \in 0..m |-> IF n = m THEN z ELSE K[n]]
  OBVIOUS
<1>10. /\ Z \in [0..m -> [Spots(t) -> Wide(t)]]
       /\ Z[m] = z /\ \A n \in 0..l : Z[n] = K[n]
  <2>1. \A n \in 0..l : n # m /\ n \in 0..m
    BY <1>2
  <2>2. \A n \in 0..m : n # m => n \in 0..l
    BY <1>3
  <2>. QED
    BY <1>3, <1>6, <1>8, <1>9, <2>1, <2>2
<1>11. Z[0] = K[0]
  BY <1>1, <1>10
<1>12. ASSUME NEW n \in 1..m, NEW q \in Spots(t)
       PROVE  Z[n][q] = Comes(Part(t, u[n], q), Z[n - 1])
  <2>1. n - 1 \in 0..l
    BY <1>2
  <2>2. Z[n - 1] = K[n - 1]
    BY <1>10, <2>1
  <2>3. CASE n = m
    BY <1>3, <1>5, <1>7, <1>8, <1>10, <2>2, <2>3
  <2>4. CASE n # m
    <3>1. n \in 1..l /\ n \in 0..l
      BY <1>2, <2>4
    <3>. QED
      BY <1>5, <1>6, <1>10, <2>2, <3>1
  <2>. QED
    BY <2>3, <2>4
<1>13. Chain(t, u, Z)
  BY <1>5, <1>6, <1>10, <1>11, <1>12 DEF Chain
<1>14. \A q \in Spots(t) : Z[m][q] = Comes(Part(t, h, q), K[l])
  BY <1>7, <1>8, <1>10
<1>. QED
  BY <1>1, <1>2, <1>4, <1>13, <1>14

LEMMA ChainReturn ==
  ASSUME NEW t \in Seq(Char), NEW k \in Seq(Frames), Len(k) > 0, NEW K, Chain(t, k, K)
  PROVE  \E Z : Chain(t, Front(k), Z) /\ Z[Len(k) - 1] = K[Len(k) - 1]
<1>1. PICK l \in Nat : l = Len(k)
  BY LenProperties
<1>2. PICK m \in Nat : m = l - 1
  BY <1>1
<1>3. PICK u : u = Front(k)
  OBVIOUS
<1>4. u \in Seq(Frames) /\ Len(u) = m /\ \A n \in 1..m : u[n] = k[n]
  BY <1>1, <1>2, <1>3, FrontProperties
<1>5. \A n \in 0..m : n \in 0..l
  BY <1>1, <1>2
<1>6. \A n \in 1..m : n \in 1..l /\ n \in 0..m /\ n - 1 \in 0..m
  BY <1>1, <1>2
<1>7. /\ K \in [0..l -> [Spots(t) -> Wide(t)]]
      /\ \A q \in Spots(t) : K[0][q] = Nothing(q)
      /\ \A n \in 1..l : \A q \in Spots(t) : K[n][q] = Comes(Part(t, k[n], q), K[n - 1])
  BY <1>1 DEF Chain
<1>8. PICK Z : Z = [n \in 0..m |-> K[n]]
  OBVIOUS
<1>9. Z \in [0..m -> [Spots(t) -> Wide(t)]] /\ \A n \in 0..m : Z[n] = K[n]
  BY <1>5, <1>7, <1>8
<1>10. \A n \in 1..m : \A q \in Spots(t) : Z[n][q] = Comes(Part(t, u[n], q), Z[n - 1])
  BY <1>4, <1>6, <1>7, <1>9
<1>11. 0 \in 0..m /\ m \in 0..m
  OBVIOUS
<1>12. Chain(t, u, Z)
  BY <1>4, <1>7, <1>9, <1>10, <1>11 DEF Chain
<1>. QED
  BY <1>1, <1>2, <1>3, <1>9, <1>11, <1>12

-----------------------------------------------------------------------------
(* How what is left of the meaning goes on.                                *)

LEMMA FollowsGoto ==
  ASSUME NEW t, NEW k, NEW o, NEW p, Follows(t, k, o, p), Len(k) > 0,
         NEW g \in Frames, NEW x \in Outputs, NEW q \in 1..Len(t) + 1,
         Part(t, k[Len(k)], p) = Then(x, Part(t, g, q))
  PROVE  Follows(t, [k EXCEPT ![Len(k)] = g], o \o x, q)
<1>1. /\ t \in Seq(Char) /\ k \in Seq(Frames) /\ o \in Outputs /\ p \in 1..Len(t) + 1
      /\ p \in Spots(t) /\ q \in Spots(t)
  BY SpotsAre DEF Follows
<1>2. PICK K : Chain(t, k, K) /\ Then(o, K[Len(k)][p]) = Compiled(t)
  BY DEF Follows
<1>3. PICK l \in Nat : l = Len(k) /\ l \in 1..l
  BY <1>1, LenProperties
<1>4. PICK B \in [Spots(t) -> Wide(t)] : B = K[l - 1]
  BY <1>1, <1>2, <1>3, ChainBelow
<1>5. K[l][p] = Comes(Part(t, k[l], p), B)
  BY <1>1, <1>2, <1>3, <1>4, ChainBelow
<1>6. PICK u : u = [k EXCEPT ![l] = g]
  OBVIOUS
<1>7. u \in Seq(Frames) /\ Len(u) = l
  BY <1>1, <1>3, <1>6, ExceptSeq
<1>8. PICK Z : Chain(t, u, Z) /\ Z[l][q] = Comes(Part(t, g, q), B)
  BY <1>1, <1>2, <1>3, <1>4, <1>6, ChainReplace
<1>9. PICK b \in Wide(t) : b = Part(t, g, q)
  BY <1>1, PartWide
<1>10. Comes(b, B) \in Wide(t) /\ Comes(Then(x, b), B) = Then(x, Comes(b, B))
  BY ComesWide, ThenComes
<1>11. Then(o \o x, Z[l][q]) = Compiled(t)
  BY <1>1, <1>2, <1>3, <1>5, <1>8, <1>9, <1>10, ThenThen
<1>12. o \o x \in Outputs
  BY <1>1, OutputsAre
<1>. QED
  BY <1>1, <1>3, <1>6, <1>7, <1>8, <1>11, <1>12 DEF Follows

LEMMA FollowsCall ==
  ASSUME NEW t, NEW k, NEW o, NEW p, Follows(t, k, o, p), Len(k) > 0,
         NEW g \in Frames, NEW h \in Frames, NEW x \in Outputs, NEW q \in 1..Len(t) + 1,
         NEW a, a = Part(t, h, q),
         Part(t, k[Len(k)], p) = Then(x, Then(a.out, Part(t, g, a.next)))
  PROVE  Follows(t, Append([k EXCEPT ![Len(k)] = g], h), o \o x, q)
<1>1. /\ t \in Seq(Char) /\ k \in Seq(Frames) /\ o \in Outputs /\ p \in 1..Len(t) + 1
      /\ p \in Spots(t) /\ q \in Spots(t)
  BY SpotsAre DEF Follows
<1>2. PICK K : Chain(t, k, K) /\ Then(o, K[Len(k)][p]) = Compiled(t)
  BY DEF Follows
<1>3. PICK l \in Nat : l = Len(k) /\ l \in 1..l /\ l \in 0..l
  BY <1>1, LenProperties
<1>4. PICK B \in [Spots(t) -> Wide(t)] : B = K[l - 1]
  BY <1>1, <1>2, <1>3, ChainBelow
<1>5. K[l][p] = Comes(Part(t, k[l], p), B)
  BY <1>1, <1>2, <1>3, <1>4, ChainBelow
<1>6. PICK u : u = [k EXCEPT ![l] = g]
  OBVIOUS
<1>7. u \in Seq(Frames) /\ Len(u) = l
  BY <1>1, <1>3, <1>6, ExceptSeq
<1>8. PICK Y : Chain(t, u, Y) /\ \A s \in Spots(t) : Y[l][s] = Comes(Part(t, g, s), B)
  <2>1. \E Y : /\ Chain(t, [k EXCEPT ![Len(k)] = g], Y)
               /\ \A s \in Spots(t) : Y[Len(k)][s] = Comes(Part(t, g, s), K[Len(k) - 1])
    BY <1>1, <1>2, ChainReplace
  <2>. QED
    BY <1>3, <1>4, <1>6, <2>1
<1>9. PICK y \in [Spots(t) -> Wide(t)] : y = Y[l]
  BY <1>3, <1>7, <1>8 DEF Chain
<1>10. PICK v : v = Append(u, h)
  OBVIOUS
<1>11. v \in Seq(Frames) /\ Len(v) = l + 1
  BY <1>7, <1>10, AppendProperties
<1>12. PICK Z : Chain(t, v, Z) /\ Z[l + 1][q] = Comes(Part(t, h, q), y)
  BY <1>1, <1>7, <1>8, <1>9, <1>10, ChainCall, ZenonT(40)
<1>13. PICK z \in [Spots(t) -> Wide(t)] : \A s \in Spots(t) : z[s] = Part(t, g, s)
  <2>. DEFINE z0 == [s \in Spots(t) |-> Part(t, g, s)]
  <2>1. z0 \in [Spots(t) -> Wide(t)] /\ \A s \in Spots(t) : z0[s] = Part(t, g, s)
    BY <1>1, PartWide
  <2>. QED
    BY <2>1
<1>14. a \in Wide(t) /\ a.next \in Spots(t) /\ a.out \in Outputs
  BY <1>1, PartWide, WideIs
<1>15. PICK b \in Wide(t) : b = Then(a.out, Part(t, g, a.next))
  BY <1>1, <1>14, PartWide, WideThen
<1>16. Comes(a, y) = Comes(b, B)
  <2>1. \A s \in Spots(t) : y[s] = Comes(z[s], B)
    BY <1>8, <1>9, <1>13
  <2>2. Comes(a, y) = Comes(Then(a.out, z[a.next]), B)
    BY <1>14, <2>1, ComesOfTwo
  <2>. QED
    BY <1>13, <1>14, <1>15, <2>2
<1>17. Comes(b, B) \in Wide(t) /\ Comes(Then(x, b), B) = Then(x, Comes(b, B))
  BY ComesWide, ThenComes
<1>18. Then(o \o x, Z[l + 1][q]) = Compiled(t)
  BY <1>1, <1>2, <1>3, <1>5, <1>12, <1>15, <1>16, <1>17, ThenThen
<1>19. o \o x \in Outputs
  BY <1>1, OutputsAre
<1>. QED
  BY <1>1, <1>3, <1>6, <1>10, <1>11, <1>12, <1>18, <1>19 DEF Follows

LEMMA FollowsReturn ==
  ASSUME NEW t, NEW k, NEW o, NEW p, Follows(t, k, o, p), Len(k) > 0,
         NEW x \in Outputs, NEW q \in 1..Len(t) + 1,
         Part(t, k[Len(k)], p) = Items(x, q)
  PROVE  Follows(t, Front(k), o \o x, q)
<1>1. /\ t \in Seq(Char) /\ k \in Seq(Frames) /\ o \in Outputs /\ p \in 1..Len(t) + 1
      /\ p \in Spots(t) /\ q \in Spots(t)
  BY SpotsAre DEF Follows
<1>2. PICK K : Chain(t, k, K) /\ Then(o, K[Len(k)][p]) = Compiled(t)
  BY DEF Follows
<1>3. PICK l \in Nat : l = Len(k) /\ l \in 1..l
  BY <1>1, LenProperties
<1>4. PICK B \in [Spots(t) -> Wide(t)] : B = K[l - 1]
  BY <1>1, <1>2, <1>3, ChainBelow
<1>5. K[l][p] = Comes(Items(x, q), B)
  BY <1>1, <1>2, <1>3, <1>4, ChainBelow
<1>6. Items(x, q).out = x /\ Items(x, q).next = q
  BY <1>1, ItemsWide
<1>7. PICK r \in Wide(t) : r = B[q]
  BY <1>1
<1>8. K[l][p] = Then(x, r)
  BY <1>5, <1>6, <1>7 DEF Comes
<1>9. PICK Z : Chain(t, Front(k), Z) /\ Z[l - 1] = B
  BY <1>1, <1>2, <1>3, <1>4, ChainReturn
<1>10. Front(k) \in Seq(Frames) /\ Len(Front(k)) = l - 1
  BY <1>1, <1>3, FrontProperties
<1>11. Then(o \o x, Z[l - 1][q]) = Compiled(t)
  BY <1>1, <1>2, <1>3, <1>7, <1>8, <1>9, ThenThen
<1>12. o \o x \in Outputs
  BY <1>1, OutputsAre
<1>. QED
  BY <1>1, <1>9, <1>10, <1>11, <1>12 DEF Follows

(* A panic, and what cannot be, are passed on.                             *)
LEMMA ChainStops ==
  ASSUME NEW t \in Seq(Char), NEW k \in Seq(Frames), NEW K, Chain(t, k, K)
  PROVE  \A n \in 0..Len(k) : K[n][0] = Nothing(0) /\ K[n][Wrong(t)] = Nothing(Wrong(t))
<1>1. PICK l \in Nat : l = Len(k)
  BY LenProperties
<1>2. PICK w : w = Wrong(t)
  OBVIOUS
<1>3. 0 \in Spots(t) /\ w \in Spots(t)
  BY <1>2, SpotsAre
<1>. DEFINE T == {n \in 0..l : K[n][0] = Nothing(0) /\ K[n][w] = Nothing(w)}
<1>4. 0 \in T
  BY <1>3 DEF Chain
<1>5. ASSUME NEW n \in 0..l - 1, n \in T
      PROVE  n + 1 \in T
  <2>1. n + 1 \in 1..l /\ n + 1 \in 0..l /\ (n + 1) - 1 = n /\ n \in 0..l
    BY <1>1
  <2>2. \A q \in Spots(t) : K[n + 1][q] = Comes(Part(t, k[n + 1], q), K[n])
    BY <1>1, <2>1 DEF Chain
  <2>3. /\ K[n + 1][0] = Comes(Nothing(0), K[n])
        /\ K[n + 1][w] = Comes(Nothing(w), K[n])
    BY <1>2, <1>3, <2>2, PartStops
  <2>4. \A q \in Spots(t) : K[n][q] = Nothing(q) => Comes(Nothing(q), K[n]) = Nothing(q)
    <3>1. ASSUME NEW q \in Spots(t), K[n][q] = Nothing(q)
          PROVE  Comes(Nothing(q), K[n]) = Nothing(q)
      <4>1. Nothing(q) \in Wide(t) /\ Nothing(q).out = << >> /\ Nothing(q).next = q
        BY NothingWide
      <4>2. Then(<< >>, Nothing(q)) = Nothing(q)
        BY <4>1, WideThen, OutputsAre
      <4>. QED
        BY <3>1, <4>1, <4>2 DEF Comes
    <3>. QED
      BY <3>1
  <2>5. K[n][0] = Nothing(0) /\ K[n][w] = Nothing(w)
    BY <1>5
  <2>. QED
    BY <1>3, <2>1, <2>3, <2>4, <2>5
<1>6. 0..l \subseteq T
  <2>. HIDE DEF T
  <2>. QED
    BY <1>1, <1>4, <1>5, SetInductionUpTo
<1>. QED
  BY <1>1, <1>2, <1>6

(* Where the innermost function ends, up to the first stop.                *)
LEMMA FollowsStop ==
  ASSUME NEW t, NEW k, NEW o, NEW p, Follows(t, k, o, p), Len(k) > 0
  PROVE  /\ Part(t, k[Len(k)], p).next # Wrong(t)
         /\ Part(t, k[Len(k)], p) = Nothing(0) => Compiled(t) = Items(o, 0)
<1>1. /\ t \in Seq(Char) /\ k \in Seq(Frames) /\ o \in Outputs /\ p \in 1..Len(t) + 1
      /\ p \in Spots(t)
  BY SpotsAre DEF Follows
<1>2. PICK K : Chain(t, k, K) /\ Then(o, K[Len(k)][p]) = Compiled(t)
  BY DEF Follows
<1>3. PICK l \in Nat : l = Len(k) /\ l \in 1..l /\ l - 1 \in 0..l
  BY <1>1, LenProperties
<1>4. PICK B \in [Spots(t) -> Wide(t)] : B = K[l - 1]
  BY <1>1, <1>2, <1>3, ChainBelow
<1>5. k[l] \in Frames
  BY <1>1, <1>3, ElementOfSeq
<1>6. PICK a \in Wide(t) : a = Part(t, k[l], p)
  BY <1>1, <1>5, PartWide
<1>7. K[l][p] = Comes(a, B)
  BY <1>1, <1>2, <1>3, <1>4, <1>6, ChainBelow
<1>8. B[0] = Nothing(0) /\ B[Wrong(t)] = Nothing(Wrong(t))
  BY <1>1, <1>2, <1>3, <1>4, ChainStops
<1>9. /\ 0 \in Spots(t) /\ Wrong(t) \in Spots(t) /\ Wrong(t) \notin Positions(t)
      /\ 1 \in Positions(t)
  BY <1>1, SpotsAre, LenProperties
<1>10. a.out \in Outputs /\ a.next \in Spots(t)
  BY WideIs
<1>11. Compiled(t) = Then(o, Then(a.out, B[a.next])) /\ B[a.next] \in Wide(t)
  BY <1>2, <1>3, <1>7, <1>10 DEF Comes
<1>12. Compiled(t).next = B[a.next].next
  <2>1. PICK x \in Outputs : x = a.out
    BY <1>10
  <2>2. PICK r \in Wide(t) : r = B[a.next]
    BY <1>11
  <2>3. PICK q : q = Then(x, r)
    OBVIOUS
  <2>4. q \in Wide(t) /\ q.next = r.next
    BY <2>3, WideThen
  <2>5. Then(o, q).next = q.next
    BY <1>1, <2>4, WideThen
  <2>. QED
    BY <1>11, <2>1, <2>2, <2>3, <2>4, <2>5
<1>13. a.next # Wrong(t)
  <2>1. Compiled(t) \in Parts(t)
    BY <1>1, <1>9, CompilesAlso DEF Compiled, Meant
  <2>2. Compiled(t).next \in Positions(t)
    BY <2>1 DEF Parts
  <2>3. Nothing(Wrong(t)).next = Wrong(t)
    BY <1>9, NothingWide
  <2>. QED
    BY <1>8, <1>9, <1>12, <2>2, <2>3
<1>14. ASSUME a = Nothing(0)
       PROVE  Compiled(t) = Items(o, 0)
  <2>1. a.out = << >> /\ a.next = 0 /\ Nothing(0) \in Wide(t)
    BY <1>9, <1>14, NothingWide
  <2>2. Then(<< >>, Nothing(0)) = Nothing(0)
    BY <2>1, WideThen, OutputsAre
  <2>3. Compiled(t) = Then(o, Nothing(0))
    BY <1>8, <1>11, <2>1, <2>2
  <2>4. o \o << >> = o /\ Nothing(0).out = << >> /\ Nothing(0).next = 0
    BY <1>1, <1>9, OutputsAre, NothingWide
  <2>. QED
    BY <2>3, <2>4 DEF Then
<1>. QED
  BY <1>3, <1>6, <1>13, <1>14

LEMMA FollowsPrefix ==
  ASSUME NEW t, NEW k, NEW o, NEW p, Follows(t, k, o, p)
  PROVE  \E r \in Outputs : o \in Outputs /\ Compiled(t).out = o \o r
<1>1. /\ t \in Seq(Char) /\ k \in Seq(Frames) /\ o \in Outputs /\ p \in Spots(t)
  BY SpotsAre DEF Follows
<1>2. PICK K : Chain(t, k, K) /\ Then(o, K[Len(k)][p]) = Compiled(t)
  BY DEF Follows
<1>3. Len(k) \in 0..Len(k)
  BY <1>1, LenProperties
<1>4. PICK r \in Wide(t) : r = K[Len(k)][p]
  BY <1>1, <1>2, <1>3 DEF Chain
<1>5. Then(o, r).out = o \o r.out /\ r.out \in Outputs
  BY ONLY <1>1, r \in Wide(t), WideThen, WideIs
<1>. QED
  BY <1>1, <1>2, <1>4, <1>5

(* The input is at its end, and nothing waits.                             *)
LEMMA FollowsEnd ==
  ASSUME NEW t, NEW k, NEW o, NEW p, Follows(t, k, o, p), Len(k) = 1,
         NEW n \in Positions(t), Part(t, k[1], p) = Nothing(n)
  PROVE  Compiled(t) = Items(o, n)
<1>1. /\ t \in Seq(Char) /\ k \in Seq(Frames) /\ o \in Outputs /\ p \in Spots(t) /\ n \in Spots(t)
  BY SpotsAre DEF Follows
<1>2. PICK K : Chain(t, k, K) /\ Then(o, K[1][p]) = Compiled(t)
  BY DEF Follows
<1>3. K[1][p] = Comes(Nothing(n), K[0]) /\ K[0][n] = Nothing(n)
  <2>1. 1 \in 1..Len(k) /\ 1 - 1 = 0
    OBVIOUS
  <2>. QED
    BY <1>1, <1>2, <2>1 DEF Chain
<1>4. Nothing(n) \in Wide(t) /\ Nothing(n).out = << >> /\ Nothing(n).next = n
  BY <1>1, NothingWide
<1>5. K[1][p] = Nothing(n)
  BY <1>3, <1>4, WideThen, OutputsAre DEF Comes
<1>6. o \o << >> = o
  BY <1>1, OutputsAre
<1>. QED
  BY <1>2, <1>4, <1>5, <1>6 DEF Then

LEMMA FollowsStart ==
  ASSUME NEW t \in Seq(Char), NEW f \in Frames, f.at = "src"
  PROVE  Follows(t, <<f>>, << >>, 1)
<1>1. /\ 1 \in 1..Len(t) + 1 /\ 1 \in Spots(t)
      /\ 1 \in Positions(t)
  BY SpotsAre
<1>2. PICK a \in Wide(t) : a = Compiled(t)
  BY <1>1, CompilesAlso DEF Compiled, Meant
<1>3. Part(t, f, 1) = a
  BY <1>1, <1>2, PartAt DEF Compiled, Sources
<1>4. PICK k : k = << >>
  OBVIOUS
<1>5. k \in Seq(Frames) /\ Len(k) = 0 /\ Append(k, f) = <<f>> /\ Len(<<f>>) = 1 /\ <<f>> \in Seq(Frames)
  BY <1>4
<1>6. PICK z \in [Spots(t) -> Wide(t)] : \A q \in Spots(t) : z[q] = Nothing(q)
  <2>. DEFINE z0 == [q \in Spots(t) |-> Nothing(q)]
  <2>1. z0 \in [Spots(t) -> Wide(t)] /\ \A q \in Spots(t) : z0[q] = Nothing(q)
    BY NothingWide
  <2>. QED
    BY <2>1
<1>7. PICK K : K = [n \in 0..0 |-> z]
  OBVIOUS
<1>8. Chain(t, k, K) /\ K[0] = z
  BY <1>5, <1>6, <1>7 DEF Chain
<1>9. PICK Z : Chain(t, <<f>>, Z) /\ Z[1][1] = Comes(a, z)
  <2>1. \E Z : /\ Chain(t, Append(k, f), Z)
               /\ \A q \in Spots(t) : Z[Len(k) + 1][q] = Comes(Part(t, f, q), K[Len(k)])
    BY <1>5, <1>8, ChainCall
  <2>2. Len(k) + 1 = 1
    BY <1>5
  <2>. QED
    BY <1>1, <1>3, <1>5, <1>8, <2>1, <2>2
<1>10. Comes(a, z) = a
  <2>1. a.out \in Outputs /\ a.next \in Spots(t) /\ a = Items(a.out, a.next)
    BY WideIs
  <2>2. a.out \o << >> = a.out /\ Nothing(a.next).out = << >> /\ Nothing(a.next).next = a.next
    BY <2>1, OutputsAre, NothingWide
  <2>3. Comes(a, z) = Then(a.out, Nothing(a.next))
    BY <1>6, <2>1 DEF Comes
  <2>. QED
    BY <2>1, <2>2, <2>3 DEF Then
<1>11. Then(<< >>, Z[1][1]) = Compiled(t)
  BY <1>2, <1>9, <1>10, WideThen, OutputsAre
<1>. QED
  BY <1>1, <1>5, <1>9, <1>11, OutputsAre DEF Follows

-----------------------------------------------------------------------------
(* The text t is followed: the functions k are active, o has been put out, *)
(* p is the position at the head, fn is compFn and w the token.            *)
Understands(t, k, o, p, fn, w) ==
  /\ Follows(t, k, o, p)
  /\ Nested(k) /\ CompFnIs(k, fn)
  /\ TokenFits(t, p, w, k[Len(k)].at)

Understood == Understands(text, ctl, out, head + 1, compFn, token)

MeaningInv ==
  /\ phase = "compile" => Understood
  /\ phase = "ready" => compFn = "base"
  /\ phase # "compile" => out = Meaning(text).out /\ verdict = Meaning(text).verdict

LEMMA FramesOf ==
  ASSUME NEW k, Active(k), NEW n \in 1..Len(k)
  PROVE  k[n] \in Frames /\ k[n].at \in Places /\ k[n].cfn \in CompFns /\ k[n].white \in BOOLEAN
<1>1. PICK f \in Frames : f = k[n]
  BY ElementOfSeq DEF Active
<1>. QED
  BY <1>1 DEF Frames

(* A function that waits may be put in the place of another one.           *)
Fits(g, f) ==
  /\ g \in Frames /\ Yields(g.at) = Yields(f.at) /\ g.cfn = f.cfn
  /\ g.at \in Compiling => g.cfn = "base"
  /\ g.at \notin {"string", "stringEscape"} => g.white = TRUE

Replaces(u, k, g) == u = [k EXCEPT ![Len(k)] = g]

LEMMA NestedReplace ==
  ASSUME NEW k, Active(k), Nested(k), NEW g, Fits(g, k[Len(k)]),
         NEW u, Replaces(u, k, g)
  PROVE  /\ Nested(u) /\ u \in Seq(Frames) /\ Len(u) = Len(k) /\ u[Len(u)] = g
         /\ Len(k) # 1 => u[Len(u) - 1] = k[Len(k) - 1]
<1>1. PICK l \in Nat : l = Len(k) /\ l > 0 /\ l \in 1..l /\ 1 \in 1..l
  BY LenProperties DEF Active
<1>2. g \in Frames /\ Yields(g.at) = Yields(k[l].at) /\ g.cfn = k[l].cfn
      /\ (g.at \in Compiling => g.cfn = "base")
      /\ (g.at \notin {"string", "stringEscape"} => g.white = TRUE)
  BY <1>1 DEF Fits
<1>3. u \in Seq(Frames) /\ Len(u) = l /\ u[l] = g /\ \A n \in 1..l : n # l => u[n] = k[n]
  BY <1>1, <1>2, ExceptSeq DEF Active, Replaces
<1>4. \A n \in 1..l - 1 : u[n] = k[n] /\ n + 1 \in 1..l /\ n \in 1..l
  BY <1>1, <1>3
<1>5. \A n \in 1..l : u[n].cfn = k[n].cfn /\ Yields(u[n].at) = Yields(k[n].at)
  BY <1>2, <1>3
<1>6. /\ k[1].cfn = "base"
      /\ \A n \in 1..l : /\ k[n].at \in Compiling => k[n].cfn = "base"
                         /\ k[n].at \notin {"string", "stringEscape"} => k[n].white = TRUE
      /\ \A n \in 1..l - 1 :
           /\ k[n].at \in Waiting /\ Yields(k[n + 1].at) = Awaits(k[n].at)
           /\ Yields(k[n + 1].at) # "token" => k[n + 1].cfn = Runs(k[n])
  BY <1>1 DEF Nested
<1>7. u[1].cfn = "base"
  BY <1>1, <1>5, <1>6
<1>8. ASSUME NEW n \in 1..l
      PROVE  /\ u[n].at \in Compiling => u[n].cfn = "base"
             /\ u[n].at \notin {"string", "stringEscape"} => u[n].white = TRUE
  BY <1>2, <1>3, <1>6
<1>9. ASSUME NEW n \in 1..l - 1
      PROVE  /\ u[n].at \in Waiting /\ Yields(u[n + 1].at) = Awaits(u[n].at)
             /\ Yields(u[n + 1].at) # "token" => u[n + 1].cfn = Runs(u[n])
  BY <1>4, <1>5, <1>6
<1>10. l # 1 => l - 1 \in 1..l - 1
  BY <1>1
<1>. QED
  BY <1>1, <1>3, <1>4, <1>7, <1>8, <1>9, <1>10 DEF Nested

LEMMA NestedCall ==
  ASSUME NEW k \in Seq(Frames), Len(k) > 0, Nested(k), NEW h, Fits(h, h),
         k[Len(k)].at \in Waiting, Yields(h.at) = Awaits(k[Len(k)].at),
         Yields(h.at) # "token" => h.cfn = Runs(k[Len(k)]),
         NEW u, u = Append(k, h)
  PROVE  /\ Nested(u) /\ u \in Seq(Frames) /\ Len(u) = Len(k) + 1 /\ u[Len(u)] = h
         /\ u[Len(u) - 1] = k[Len(k)]
<1>1. PICK l \in Nat : l = Len(k) /\ l > 0 /\ l \in 1..l /\ 1 \in 1..l
  BY LenProperties
<1>2. PICK m \in Nat : m = l + 1 /\ m - 1 = l /\ m \in 1..m
  BY <1>1
<1>3. h \in Frames
      /\ (h.at \in Compiling => h.cfn = "base")
      /\ (h.at \notin {"string", "stringEscape"} => h.white = TRUE)
  BY DEF Fits
<1>4. u \in Seq(Frames) /\ Len(u) = m /\ u[m] = h /\ \A n \in 1..l : u[n] = k[n]
  BY <1>1, <1>2, <1>3, AppendProperties
<1>5. \A n \in 1..m : n = m \/ n \in 1..l
  BY <1>1, <1>2
<1>6. /\ k[1].cfn = "base"
      /\ \A n \in 1..l : /\ k[n].at \in Compiling => k[n].cfn = "base"
                         /\ k[n].at \notin {"string", "stringEscape"} => k[n].white = TRUE
      /\ \A n \in 1..l - 1 :
           /\ k[n].at \in Waiting /\ Yields(k[n + 1].at) = Awaits(k[n].at)
           /\ Yields(k[n + 1].at) # "token" => k[n + 1].cfn = Runs(k[n])
  BY <1>1 DEF Nested
<1>7. ASSUME NEW n \in 1..m
      PROVE  /\ u[n].at \in Compiling => u[n].cfn = "base"
             /\ u[n].at \notin {"string", "stringEscape"} => u[n].white = TRUE
  BY <1>3, <1>4, <1>5, <1>6
<1>8. ASSUME NEW n \in 1..m - 1
      PROVE  /\ u[n].at \in Waiting /\ Yields(u[n + 1].at) = Awaits(u[n].at)
             /\ Yields(u[n + 1].at) # "token" => u[n + 1].cfn = Runs(u[n])
  <2>1. n \in 1..l /\ u[n] = k[n]
    BY <1>2, <1>4
  <2>2. CASE n = l
    BY <1>1, <1>2, <1>4, <2>1, <2>2
  <2>3. CASE n # l
    <3>1. n \in 1..l - 1 /\ n + 1 \in 1..l
      BY <1>1, <2>1, <2>3
    <3>. QED
      BY <1>4, <1>6, <2>1, <3>1
  <2>. QED
    BY <2>2, <2>3
<1>9. u[1].cfn = "base"
  BY <1>1, <1>4, <1>6
<1>. QED
  BY <1>1, <1>2, <1>4, <1>7, <1>8, <1>9 DEF Nested

LEMMA NestedReturn ==
  ASSUME NEW k, Active(k), Nested(k), Len(k) > 1, NEW u, u = Front(k)
  PROVE  /\ Nested(u) /\ u \in Seq(Frames) /\ Len(u) = Len(k) - 1 /\ Len(u) > 0
         /\ u[Len(u)] = k[Len(k) - 1]
         /\ u[Len(u)].at \in Waiting /\ Awaits(u[Len(u)].at) = Yields(k[Len(k)].at)
         /\ Yields(k[Len(k)].at) # "token" => k[Len(k)].cfn = Runs(u[Len(u)])
<1>1. PICK l \in Nat : l = Len(k) /\ l > 1
  BY LenProperties DEF Active
<1>2. PICK m \in Nat : m = l - 1 /\ m > 0 /\ m \in 1..l - 1 /\ m + 1 = l /\ 1 \in 1..m
  BY <1>1
<1>3. u \in Seq(Frames) /\ Len(u) = m /\ \A n \in 1..m : u[n] = k[n]
  BY <1>1, <1>2, FrontProperties DEF Active
<1>4. \A n \in 1..m : n \in 1..l
  BY <1>2
<1>5. \A n \in 1..m - 1 : n \in 1..m /\ n + 1 \in 1..m /\ n \in 1..l - 1
  BY <1>2
<1>6. /\ k[1].cfn = "base"
      /\ \A n \in 1..l : /\ k[n].at \in Compiling => k[n].cfn = "base"
                         /\ k[n].at \notin {"string", "stringEscape"} => k[n].white = TRUE
      /\ \A n \in 1..l - 1 :
           /\ k[n].at \in Waiting /\ Yields(k[n + 1].at) = Awaits(k[n].at)
           /\ Yields(k[n + 1].at) # "token" => k[n + 1].cfn = Runs(k[n])
  BY <1>1 DEF Nested
<1>7. \A n \in 1..m : /\ u[n].at \in Compiling => u[n].cfn = "base"
                      /\ u[n].at \notin {"string", "stringEscape"} => u[n].white = TRUE
  BY <1>3, <1>4, <1>6
<1>8. \A n \in 1..m - 1 :
           /\ u[n].at \in Waiting /\ Yields(u[n + 1].at) = Awaits(u[n].at)
           /\ Yields(u[n + 1].at) # "token" => u[n + 1].cfn = Runs(u[n])
  BY <1>3, <1>5, <1>6
<1>9. u[1].cfn = "base" /\ u[m] = k[m] /\ m \in 1..m
  BY <1>2, <1>3, <1>6
<1>10. Nested(u)
  BY <1>3, <1>7, <1>8, <1>9 DEF Nested
<1>. QED
  BY <1>1, <1>2, <1>3, <1>6, <1>9, <1>10

-----------------------------------------------------------------------------
(* The innermost function goes on elsewhere, or calls, or returns.         *)

LEMMA GoesOnUnderstood ==
  ASSUME NEW t, NEW k, NEW o, NEW p, NEW fn, NEW w, Understands(t, k, o, p, fn, w), Active(k),
         NEW g, Fits(g, k[Len(k)]), NEW x \in Outputs, NEW q \in 1..Len(t) + 1,
         Part(t, k[Len(k)], p) = Then(x, Part(t, g, q)),
         NEW gn, gn = IF Yields(g.at) = "token" THEN fn ELSE Runs(g),
         NEW v, TokenFits(t, q, v, g.at),
         NEW u, u = [k EXCEPT ![Len(k)] = g]
  PROVE  Understands(t, u, o \o x, q, gn, v)
<1>1. Follows(t, k, o, p) /\ Nested(k) /\ CompFnIs(k, fn) /\ Len(k) > 0 /\ Len(k) \in Nat
  BY LenProperties DEF Understands, Active
<1>2. g \in Frames
  BY DEF Fits
<1>3. Follows(t, u, o \o x, q)
  BY <1>1, <1>2, FollowsGoto
<1>4. /\ Nested(u) /\ Len(u) = Len(k) /\ u[Len(u)] = g
      /\ Len(k) # 1 => u[Len(u) - 1] = k[Len(k) - 1]
  <2>1. Nested(k)
    BY <1>1
  <2>2. Replaces(u, k, g)
    BY DEF Replaces
  <2>. QED
    BY ONLY Active(k), Fits(g, k[Len(k)]), <2>1, <2>2, NestedReplace, Zenon
<1>5. CompFnIs(u, gn)
  <2>1. CASE Yields(g.at) = "token"
    <3>1. Yields(k[Len(k)].at) = "token"
      BY <2>1 DEF Fits
    <3>2. Len(k) # 1
      <4>1. k[1].at \in Sources
        BY DEF Active
      <4>. QED
        BY <3>1, <4>1 DEF Yields, Sources
    <3>. QED
      BY <1>1, <1>4, <2>1, <3>1, <3>2 DEF CompFnIs
  <2>2. CASE Yields(g.at) # "token"
    BY <1>4, <2>2 DEF CompFnIs
  <2>. QED
    BY <2>1, <2>2
<1>. QED
  BY <1>3, <1>4, <1>5 DEF Understands

LEMMA CallsUnderstood ==
  ASSUME NEW t, NEW k, NEW o, NEW p, NEW fn, NEW w, Understands(t, k, o, p, fn, w), Active(k),
         NEW g, Fits(g, k[Len(k)]), NEW h, Fits(h, h),
         g.at \in Waiting, Yields(h.at) = Awaits(g.at),
         Yields(h.at) # "token" => h.cfn = Runs(g) /\ Runs(h) = h.cfn,
         NEW x \in Outputs, NEW q \in 1..Len(t) + 1,
         NEW a, a = Part(t, h, q),
         Part(t, k[Len(k)], p) = Then(x, Then(a.out, Part(t, g, a.next))),
         NEW v, TokenFits(t, q, v, h.at),
         NEW u, u = Append([k EXCEPT ![Len(k)] = g], h)
  PROVE  Understands(t, u, o \o x, q, Runs(g), v)
<1>1. Follows(t, k, o, p) /\ Nested(k) /\ CompFnIs(k, fn) /\ Len(k) > 0 /\ Len(k) \in Nat
  BY LenProperties DEF Understands, Active
<1>2. g \in Frames /\ h \in Frames
  BY DEF Fits
<1>3. Follows(t, u, o \o x, q)
  BY <1>1, <1>2, FollowsCall
<1>4. PICK z : z = [k EXCEPT ![Len(k)] = g]
  OBVIOUS
<1>5. Nested(z) /\ z \in Seq(Frames) /\ Len(z) = Len(k) /\ z[Len(z)] = g
  <2>1. Nested(k)
    BY <1>1
  <2>2. Replaces(z, k, g)
    BY <1>4 DEF Replaces
  <2>. QED
    BY ONLY Active(k), Fits(g, k[Len(k)]), <2>1, <2>2, NestedReplace, Zenon
<1>6. /\ Nested(u) /\ u \in Seq(Frames) /\ u[Len(u)] = h /\ u[Len(u) - 1] = g
  BY <1>1, <1>4, <1>5, NestedCall
<1>7. CompFnIs(u, Runs(g))
  BY <1>6 DEF CompFnIs
<1>. QED
  BY <1>3, <1>6, <1>7 DEF Understands

LEMMA WaitingFits ==
  ASSUME NEW at \in Waiting, NEW t, NEW q, NEW v
  PROVE  /\ TokenFits(t, q, v, at) <=> Delivers(t, q, v, Awaits(at))
         /\ Yields(at) # "token"
BY DEF Waiting, TokenFits, Chars, Yields

LEMMA ReturnsUnderstood ==
  ASSUME NEW t, NEW k, NEW o, NEW p, NEW fn, NEW w, Understands(t, k, o, p, fn, w), Active(k),
         k[Len(k)].at \notin Sources,
         NEW x \in Outputs, NEW q \in 1..Len(t) + 1,
         Part(t, k[Len(k)], p) = Items(x, q),
         NEW gn, gn = IF Yields(k[Len(k)].at) = "token" THEN fn ELSE k[Len(k)].cfn,
         NEW v, Delivers(t, q, v, Yields(k[Len(k)].at)),
         NEW u, u = Front(k)
  PROVE  Understands(t, u, o \o x, q, gn, v)
<1>1. Follows(t, k, o, p) /\ Nested(k) /\ CompFnIs(k, fn) /\ Len(k) > 0 /\ Len(k) \in Nat
  BY LenProperties DEF Understands, Active
<1>2. Len(k) > 1
  <2>1. Len(k) # 1
    BY DEF Active
  <2>. QED
    BY <1>1, <2>1
<1>3. Follows(t, u, o \o x, q)
  BY <1>1, FollowsReturn
<1>4. /\ Nested(u) /\ u[Len(u)] = k[Len(k) - 1]
      /\ u[Len(u)].at \in Waiting /\ Awaits(u[Len(u)].at) = Yields(k[Len(k)].at)
      /\ Yields(k[Len(k)].at) # "token" => k[Len(k)].cfn = Runs(u[Len(u)])
  BY <1>1, <1>2, NestedReturn
<1>5. PICK at \in Waiting : at = u[Len(u)].at
  BY <1>4
<1>6. /\ TokenFits(t, q, v, at) /\ Yields(at) # "token"
  BY <1>4, <1>5, WaitingFits
<1>7. gn = Runs(u[Len(u)])
  BY <1>1, <1>4 DEF CompFnIs
<1>8. CompFnIs(u, gn)
  BY <1>5, <1>6, <1>7 DEF CompFnIs
<1>. QED
  BY <1>3, <1>4, <1>5, <1>6, <1>8 DEF Understands

-----------------------------------------------------------------------------
(* What is known while the function f runs.                                *)
Runner(t, f, p, w, fn) ==
  /\ t \in Seq(Char) /\ p \in 1..Len(t) + 1
  /\ f \in Frames /\ f.at \in Places /\ f.cfn \in CompFns /\ f.white \in BOOLEAN
  /\ f.at \in Compiling => f.cfn = "base"
  /\ f.at \notin {"string", "stringEscape"} => f.white = TRUE
  /\ Yields(f.at) # "token" => fn = Runs(f)
  /\ TokenFits(t, p, w, f.at)
  /\ Part(t, f, p) \in Wide(t) /\ Part(t, f, p).next # Wrong(t)

LEMMA TopRuns ==
  ASSUME ScannerInv, Understood, phase = "compile"
  PROVE  Runner(text, Top, head + 1, token, compFn)
<1>1. PICK t, k, o, p, fn, w : t = text /\ k = ctl /\ o = out /\ p = head + 1 /\ fn = compFn /\ w = token
  OBVIOUS
<1>2. Understands(t, k, o, p, fn, w) /\ Active(k)
  BY <1>1 DEF Understood, ScannerInv
<1>3. PICK l \in Nat : l = Len(k) /\ l \in 1..l /\ l > 0
  BY <1>2, LenProperties DEF Active
<1>4. PICK f : f = k[l]
  OBVIOUS
<1>5. f \in Frames /\ f.at \in Places /\ f.cfn \in CompFns /\ f.white \in BOOLEAN
  BY <1>2, <1>3, <1>4, FramesOf
<1>6. Follows(t, k, o, p) /\ Nested(k) /\ CompFnIs(k, fn) /\ TokenFits(t, p, w, f.at)
  BY <1>2, <1>3, <1>4 DEF Understands
<1>7. t \in Seq(Char) /\ p \in 1..Len(t) + 1 /\ p \in Spots(t)
  BY <1>6, SpotsAre DEF Follows
<1>8. /\ f.at \in Compiling => f.cfn = "base"
      /\ f.at \notin {"string", "stringEscape"} => f.white = TRUE
  BY <1>3, <1>4, <1>6 DEF Nested
<1>9. Yields(f.at) # "token" => fn = Runs(f)
  BY <1>3, <1>4, <1>6 DEF CompFnIs
<1>10. Part(t, f, p) \in Wide(t) /\ Part(t, f, p).next # Wrong(t)
  BY <1>3, <1>4, <1>5, <1>6, <1>7, PartWide, FollowsStop
<1>11. Top = f
  BY <1>1, <1>3, <1>4 DEF Top
<1>. QED
  BY <1>1, <1>5, <1>6, <1>7, <1>8, <1>9, <1>10, <1>11 DEF Runner

(* The characters of the ring are those of the text.                       *)
LEMMA RingIsText ==
  ASSUME ScannerInv, phase = "compile", NEW t, t = text, NEW p, p = head + 1, NEW i \in Nat
  PROVE  /\ None(i) => p + i > Len(t)
         /\ Known(i) /\ ~None(i) => p + i \in 1..Len(t) /\ Get(i) = t[p + i]
         /\ Eof => p = Len(t) + 1 /\ token = << >>
<1>1. PICK h, r, s : h = head /\ r = ring /\ s = rest
  OBVIOUS
<1>2. Placed(t, h, r, s) /\ AtHead(token, ring) /\ (eof => s = << >>)
  BY <1>1 DEF ScannerInv, Reading
<1>3. PICK a \in Nat, b \in Nat, l \in Nat : a = Len(r) /\ b = Len(s) /\ l = Len(t)
  BY <1>2, LenProperties DEF Placed
<1>4. h \in Nat /\ h + a + b = l /\ \A j \in 1..a : r[j] = t[h + j]
  BY <1>2, <1>3 DEF Placed
<1>5. eof => b = 0
  BY <1>2, <1>3
<1>6. None(i) => p + i > Len(t)
  BY <1>1, <1>3, <1>4, <1>5 DEF None
<1>7. ASSUME Known(i), ~None(i)
      PROVE  p + i \in 1..Len(t) /\ Get(i) = t[p + i]
  <2>1. i < a
    BY <1>1, <1>3, <1>7 DEF Known, None
  <2>2. i + 1 \in 1..a /\ p + i = h + (i + 1)
    BY <1>1, <1>4, <2>1
  <2>. QED
    BY <1>1, <1>3, <1>4, <2>2 DEF Get
<1>8. ASSUME Eof
      PROVE  p = Len(t) + 1 /\ token = << >>
  <2>1. a = 0 /\ b = 0 /\ ring = << >>
    BY <1>1, <1>3, <1>5, <1>8 DEF Eof
  <2>2. token \in Seq(Char) /\ Len(token) <= 0
    BY <1>2, <2>1 DEF AtHead
  <2>3. token = << >>
    BY <2>2, LenProperties, EmptySeq
  <2>. QED
    BY <1>1, <1>3, <1>4, <2>1, <2>3
<1>. QED
  BY <1>6, <1>7, <1>8

-----------------------------------------------------------------------------
(* The steps of the functions.                                             *)

LEMMA GoesKnows ==
  ASSUME ScannerInv, Understood, phase = "compile", Step,
         NEW f, f = Top, NEW g, Fits(g, f), ctl' = [ctl EXCEPT ![Len(ctl)] = g],
         NEW x \in Outputs, out' = out \o x,
         NEW t, t = text, NEW q \in 1..Len(t) + 1, head' + 1 = q,
         compFn' = IF Yields(g.at) = "token" THEN compFn ELSE Runs(g),
         NEW v, token' = v, TokenFits(t, q, v, g.at),
         NEW p, p = head + 1, Part(t, f, p) = Then(x, Part(t, g, q))
  PROVE  MeaningInv'
<1>1. PICK k, o, fn, w : k = ctl /\ o = out /\ fn = compFn /\ w = token
  OBVIOUS
<1>2. Understands(t, k, o, p, fn, w) /\ Active(k) /\ f = k[Len(k)]
  BY <1>1 DEF Understood, ScannerInv, Top
<1>3. PICK gn : gn = IF Yields(g.at) = "token" THEN fn ELSE Runs(g)
  OBVIOUS
<1>4. PICK u : u = [k EXCEPT ![Len(k)] = g]
  OBVIOUS
<1>5. Understands(t, u, o \o x, q, gn, v)
  BY <1>2, <1>3, <1>4, GoesOnUnderstood
<1>6. /\ text' = t /\ ctl' = u /\ out' = o \o x /\ head' + 1 = q /\ compFn' = gn /\ token' = v
      /\ phase' = "compile"
  BY <1>1, <1>3, <1>4 DEF Step, source
<1>. QED
  BY <1>5, <1>6 DEF Understood, MeaningInv

LEMMA CallKnows ==
  ASSUME ScannerInv, Understood, phase = "compile", Step,
         NEW f, f = Top, NEW g, Fits(g, f), NEW h, Fits(h, h),
         ctl' = Append([ctl EXCEPT ![Len(ctl)] = g], h),
         g.at \in Waiting, Yields(h.at) = Awaits(g.at),
         Yields(h.at) # "token" => h.cfn = Runs(g) /\ Runs(h) = h.cfn,
         NEW x \in Outputs, out' = out \o x,
         NEW t, t = text, NEW q \in 1..Len(t) + 1, head' + 1 = q,
         compFn' = Runs(g),
         NEW v, token' = v, TokenFits(t, q, v, h.at),
         NEW p, p = head + 1, NEW a, a = Part(t, h, q),
         Part(t, f, p) = Then(x, Then(a.out, Part(t, g, a.next)))
  PROVE  MeaningInv'
<1>1. PICK k, o, fn, w : k = ctl /\ o = out /\ fn = compFn /\ w = token
  OBVIOUS
<1>2. Understands(t, k, o, p, fn, w) /\ Active(k) /\ f = k[Len(k)]
  BY <1>1 DEF Understood, ScannerInv, Top
<1>3. PICK u : u = Append([k EXCEPT ![Len(k)] = g], h)
  OBVIOUS
<1>4. Understands(t, u, o \o x, q, Runs(g), v)
  BY <1>2, <1>3, CallsUnderstood
<1>5. /\ text' = t /\ ctl' = u /\ out' = o \o x /\ head' + 1 = q /\ compFn' = Runs(g) /\ token' = v
      /\ phase' = "compile"
  BY <1>1, <1>3 DEF Step, source
<1>. QED
  BY <1>4, <1>5 DEF Understood, MeaningInv

LEMMA ReturnKnows ==
  ASSUME ScannerInv, Understood, phase = "compile", Step,
         NEW f, f = Top, f.at \notin Sources, Return,
         NEW x \in Outputs, out' = out \o x,
         NEW t, t = text, NEW q \in 1..Len(t) + 1, head' + 1 = q,
         compFn' = IF Yields(f.at) = "token" THEN compFn ELSE f.cfn,
         NEW v, token' = v, Delivers(t, q, v, Yields(f.at)),
         NEW p, p = head + 1, Part(t, f, p) = Items(x, q)
  PROVE  MeaningInv'
<1>1. PICK k, o, fn, w : k = ctl /\ o = out /\ fn = compFn /\ w = token
  OBVIOUS
<1>2. Understands(t, k, o, p, fn, w) /\ Active(k) /\ f = k[Len(k)]
  BY <1>1 DEF Understood, ScannerInv, Top
<1>3. PICK gn : gn = IF Yields(f.at) = "token" THEN fn ELSE f.cfn
  OBVIOUS
<1>4. PICK u : u = Front(k)
  OBVIOUS
<1>5. Understands(t, u, o \o x, q, gn, v)
  BY <1>2, <1>3, <1>4, ReturnsUnderstood
<1>6. /\ text' = t /\ ctl' = u /\ out' = o \o x /\ head' + 1 = q /\ compFn' = gn /\ token' = v
      /\ phase' = "compile"
  BY <1>1, <1>3, <1>4 DEF Step, source, Return
<1>. QED
  BY <1>5, <1>6 DEF Understood, MeaningInv

(* The end of an input, by a panic or not.                                 *)
LEMMA EndMeans ==
  ASSUME NEW o, NEW t, NEW n \in Nat, Compiled(t) = Items(o, n)
  PROVE  Meaning(t).out = o /\ Meaning(t).verdict = IF n = 0 THEN "panic" ELSE "ok"
<1>1. Compiled(t).out = o /\ Compiled(t).next = n
  BY DEF Items
<1>. QED
  BY <1>1 DEF Meaning

LEMMA PanicKnows ==
  ASSUME ScannerInv, Understood, phase = "compile", Clears, "newRepl" \in Rules, Panic,
         NEW t, t = text, NEW f, f = Top, NEW p, p = head + 1, Part(t, f, p) = Nothing(0)
  PROVE  MeaningInv'
<1>1. PICK k, o : k = ctl /\ o = out
  OBVIOUS
<1>2. Follows(t, k, o, p) /\ Active(k) /\ f = k[Len(k)]
  BY <1>1 DEF Understood, Understands, ScannerInv, Top
<1>3. Compiled(t) = Items(o, 0)
  BY <1>2, FollowsStop DEF Active
<1>4. Meaning(t).out = o /\ Meaning(t).verdict = "panic"
  BY <1>3, EndMeans
<1>5. text' = t /\ out' = o /\ verdict' = "panic"
  BY <1>1 DEF Panic, source
<1>6. compFn' = compFn /\ phase' = IF compFn # "base" THEN "left" ELSE "ready"
  BY DEF Panic, Clears
<1>. QED
  BY <1>4, <1>5, <1>6 DEF MeaningInv

-----------------------------------------------------------------------------
(* Frames of the steps.                                                    *)

Strings == {"string", "stringEscape"}
Moved(f, at) == [f EXCEPT !.at = at]

LEMMA GotoFits ==
  ASSUME NEW t, NEW f, NEW p, NEW w, NEW fn, Runner(t, f, p, w, fn), NEW at \in Places,
         f.at \notin Strings, Yields(at) = Yields(f.at),
         at \in Compiling => f.cfn = "base",
         NEW g, g = Moved(f, at)
  PROVE  Fits(g, f) /\ g.at = at /\ g.cfn = f.cfn /\ g.white = TRUE /\ g \in Frames
<1>1. f \in Frames /\ f.white = TRUE
  BY DEF Runner, Strings
<1>2. g \in Frames /\ g.at = at /\ g.cfn = f.cfn /\ g.white = f.white
  BY <1>1 DEF Frames, Moved
<1>. QED
  BY <1>1, <1>2 DEF Fits, Strings

LEMMA CallFits ==
  ASSUME ScannerInv, NEW fn \in Places, fn \in Compiling => compFn = "base",
         NEW h, h = Frame(fn)
  PROVE  Fits(h, h) /\ h.at = fn /\ h.cfn = compFn /\ h.white = TRUE /\ h \in Frames
<1>1. PICK c \in CompFns : c = compFn
  BY DEF ScannerInv
<1>2. h = [at |-> fn, cfn |-> c, white |-> TRUE]
  BY <1>1 DEF Frame
<1>3. h \in Frames /\ h.at = fn /\ h.cfn = c /\ h.white = TRUE
  BY <1>2 DEF Frames
<1>. QED
  BY <1>1, <1>3 DEF Fits

(* What is put out, when nothing is, or one thing.                         *)
LEMMA PutsOut ==
  ASSUME Understood
  PROVE  /\ out \in Outputs
         /\ out' = out => out' = out \o << >>
         /\ \A i \in Seq(Symbols) : out' = Append(out, i) => out' = out \o <<i>> /\ <<i>> \in Outputs
<1>1. PICK o \in Outputs : o = out
  BY DEF Understood, Understands, Follows
<1>. QED
  BY <1>1, OutputsAre

LEMMA ThenNone ==
  ASSUME NEW t, NEW r \in Wide(t)
  PROVE  Then(<< >>, r) = r /\ Then(<< >>, Then(<< >>, r)) = r
BY WideThen, OutputsAre

(* The token is the text at the head.                                      *)
LEMMA TokenIsText ==
  ASSUME ScannerInv, phase = "compile", NEW t, t = text, NEW p, p = head + 1, NEW w, w = token
  PROVE  /\ w \in Seq(Char) /\ Len(w) \in Nat /\ Len(w) <= TokCap /\ p + Len(w) \in 1..Len(t) + 1
         /\ \A j \in 1..Len(w) : w[j] = t[p + j - 1]
<1>1. PICK h, r, s : h = head /\ r = ring /\ s = rest
  OBVIOUS
<1>2. Placed(t, h, r, s) /\ AtHead(w, r) /\ Len(w) <= TokCap
  BY <1>1 DEF ScannerInv, Reading
<1>3. PICK a \in Nat, b \in Nat, l \in Nat : a = Len(r) /\ b = Len(s) /\ l = Len(t)
  BY <1>2, LenProperties DEF Placed
<1>4. h \in Nat /\ h + a + b = l /\ \A j \in 1..a : r[j] = t[h + j]
  BY <1>2, <1>3 DEF Placed
<1>5. PICK c \in Nat : c = Len(w)
  BY <1>2, LenProperties DEF AtHead
<1>6. w \in Seq(Char) /\ c <= a /\ \A j \in 1..c : w[j] = r[j]
  BY <1>2, <1>3, <1>5 DEF AtHead
<1>7. p = h + 1 /\ p + c \in 1..l + 1
  BY <1>1, <1>4, <1>6
<1>8. \A j \in 1..c : w[j] = t[p + j - 1]
  <2>1. ASSUME NEW j \in 1..c
        PROVE  w[j] = t[p + j - 1]
    <3>1. PICK q : q = p
      OBVIOUS
    <3>2. q = h + 1 /\ h \in Nat /\ c <= a
      BY <1>4, <1>6, <1>7, <3>1
    <3>3. j \in 1..a /\ q + j - 1 = h + j
      BY ONLY a \in Nat, c \in Nat, j \in 1..c, <3>2
    <3>. QED
      BY <1>4, <1>6, <3>1, <3>3
  <2>. QED
    BY <2>1
<1>. QED
  BY <1>2, <1>3, <1>5, <1>6, <1>7, <1>8

(* A token that is dropped: the head is behind the word.                   *)
LEMMA TokenEnds ==
  ASSUME NEW t \in Seq(Char), NEW p, NEW w, IsToken(t, p, w)
  PROVE  /\ w # << >> /\ w \in Seq(Char) /\ Len(w) \in Nat /\ w[1] = t[p]
         /\ p + Len(w) = WordEnd(t, p) + 1 /\ p + Len(w) \in 1..Len(t) + 1
         /\ \A c : w = <<c>> => t[p] = c /\ Len(w) = 1 /\ p + Len(w) = p + 1
         /\ \A c \in Single : t[p] = c <=> w = <<c>>
<1>1. PICK l \in Nat : l = Len(t)
  BY LenProperties
<1>2. p \in 1..l /\ t[p] \notin White /\ w = Word(t, p)
  BY <1>1 DEF IsToken
<1>3. PICK e : e = WordEnd(t, p)
  OBVIOUS
<1>4. e \in p..l /\ w \in Seq(Char) /\ Len(w) = e - p + 1 /\ w[1] = t[p]
  BY <1>1, <1>2, <1>3, WordFacts
<1>5. Len(w) \in Nat /\ Len(w) # 0 /\ p + Len(w) = e + 1 /\ p + Len(w) \in 1..l + 1
  BY <1>1, <1>2, <1>4
<1>6. w # << >>
  BY <1>5
<1>7. \A c : w = <<c>> => t[p] = c /\ Len(w) = 1 /\ p + Len(w) = p + 1
  BY <1>4
<1>8. \A c \in Single : t[p] = c => w = <<c>>
  BY <1>1, <1>2, SingleWord
<1>. QED
  BY <1>1, <1>3, <1>4, <1>5, <1>6, <1>7, <1>8

-----------------------------------------------------------------------------
(* The steps that go on elsewhere or call with what is in compFn.          *)
Commenting == {"commented", "restore"}

(* From f to `at', and with a call of `to' while c is in compFn.             *)
MayGo(f, at) ==
  /\ at \in Places /\ f.at \notin Strings /\ Yields(at) = Yields(f.at)
  /\ at \in Compiling => f.cfn = "base"
  /\ at \in Commenting <=> f.at \in Commenting

MayCall(f, at, to, c) ==
  /\ MayGo(f, at) /\ Yields(f.at) # "token" /\ at \in Waiting
  /\ to \in Places /\ to \notin Commenting /\ Yields(to) = Awaits(at)
  /\ to \in Compiling => c = "base"

LEMMA MayCallAre ==
  ASSUME NEW f, NEW c
  PROVE  /\ f.at = "scan" => MayCall(f, "found", "raw", c)
         /\ f.at = "found" => MayCall(f, "scan", "N_fslash", c)
         /\ f.at = "commented" => MayCall(f, "restore", "single", c)
         /\ f.at = "single" => MayCall(f, "singleToken", "scan", c)
         /\ f.at = "paren" => MayCall(f, "parenToken", "scan", c)
         /\ f.at = "blkBody" /\ f.cfn = "base" => MayCall(f, "blkToken", "scan", c)
         /\ f.at = "singleToken" /\ f.cfn = "base" => MayCall(f, "ch", "scan", c)
         /\ \A to \in {"baseCompFn", "fslash"} : (to = "baseCompFn" => c = "base") =>
              /\ f.at = "src" /\ f.cfn = "base" => MayCall(f, "srcEof", to, c)
              /\ f.at = "singleToken" /\ f.cfn = "base" => MayCall(f, "blkBody", to, c)
              /\ f.at = "parenToken" => MayCall(f, "paren", to, c)
              /\ f.at = "blkToken" /\ f.cfn = "base" => MayCall(f, "blkEnd", to, c)
BY DEF MayCall, MayGo, Yields, Awaits, Commenting, Strings, Compiling, Waiting, Places, Sources, Others,
       Chars

LEMMA MayGoAre ==
  ASSUME NEW f
  PROVE  /\ f.at = "raw" => MayGo(f, "group")
         /\ f.at = "N_fslash" => MayGo(f, "scanLine") /\ MayGo(f, "fslash")
         /\ f.at = "commented" => MayGo(f, "restore")
         /\ f.at = "srcEof" /\ f.cfn = "base" => MayGo(f, "src")
         /\ f.at = "baseCompFn" => MayGo(f, "single")
         /\ f.at = "singleToken" => MayGo(f, "paren")
         /\ f.at = "singleToken" /\ f.cfn = "base" => MayGo(f, "string")
         /\ f.at = "blkToken" /\ f.cfn = "base" => MayGo(f, "blkEnd")
         /\ f.at = "ch" /\ f.cfn = "base" => MayGo(f, "char")
         /\ f.at = "char" /\ f.cfn = "base" => MayGo(f, "charEscape")
BY DEF MayGo, Yields, Commenting, Strings, Compiling, Places, Sources, Others, Chars

(* A step that goes on at `at', with x it puts out and the token v it       *)
(* leaves.                                                                 *)
GotoStep(t, f, p, at, g, q, v, x) ==
  /\ phase = "compile" /\ Step /\ compFn' = compFn
  /\ t = text /\ f = Top /\ p = head + 1
  /\ q \in 1..Len(t) + 1 /\ head' + 1 = q /\ token' = v /\ TokenFits(t, q, v, at)
  /\ x \in Outputs /\ out' = out \o x
  /\ Goto(at) /\ MayGo(f, at) /\ g = Moved(f, at) /\ Part(t, f, p) = Then(x, Part(t, g, q))

LEMMA GotoKnows ==
  ASSUME ScannerInv, Understood,
         NEW t, NEW f, NEW p, NEW at, NEW g, NEW q, NEW v, NEW x,
         GotoStep(t, f, p, at, g, q, v, x)
  PROVE  MeaningInv'
<1>. USE DEF GotoStep
<1>1. PICK w, fn : w = token /\ fn = compFn
  OBVIOUS
<1>2. Runner(t, f, p, w, fn)
  BY <1>1, TopRuns
<1>0. /\ at \in Places /\ f.at \notin Strings /\ Yields(at) = Yields(f.at)
      /\ (at \in Compiling => f.cfn = "base") /\ (at \in Commenting <=> f.at \in Commenting)
  BY DEF MayGo
<1>3. Fits(g, f) /\ g.at = at /\ g.cfn = f.cfn
  BY ONLY <1>2, <1>0, g = Moved(f, at), GotoFits, Zenon
<1>4. Yields(f.at) # "token" => fn = Runs(g)
  BY <1>0, <1>2, <1>3 DEF Runner, Runs, Commenting
<1>5. compFn' = IF Yields(g.at) = "token" THEN compFn ELSE Runs(g)
  BY ONLY compFn' = compFn, <1>0, <1>1, <1>3, <1>4
<1>6. ctl' = [ctl EXCEPT ![Len(ctl)] = g]
  BY DEF Goto, Top, Moved
<1>7. TokenFits(t, q, v, g.at)
  BY <1>3
<1>. QED
  BY ONLY ScannerInv, Understood, phase = "compile", Step, f = Top, x \in Outputs, out' = out \o x,
          t = text, q \in 1..Len(t) + 1, head' + 1 = q, token' = v, p = head + 1,
          Part(t, f, p) = Then(x, Part(t, g, q)), <1>3, <1>5, <1>6, <1>7, GoesKnows, Zenon

(* A step that calls: with x it puts out, the token v it leaves, and what   *)
(* the called function comes to, a.                                        *)
CallStep(t, f, p, at, to, g, h, a, q, v, x) ==
  /\ phase = "compile" /\ Step /\ compFn' = compFn
  /\ t = text /\ f = Top /\ p = head + 1
  /\ q \in 1..Len(t) + 1 /\ head' + 1 = q /\ token' = v /\ TokenFits(t, q, v, to)
  /\ x \in Outputs /\ out' = out \o x
  /\ CallThen(at, to) /\ MayCall(f, at, to, compFn) /\ g = Moved(f, at) /\ h = Frame(to)
  /\ a = Part(t, h, q) /\ Part(t, f, p) = Then(x, Then(a.out, Part(t, g, a.next)))

LEMMA CallToKnows ==
  ASSUME ScannerInv, Understood,
         NEW t, NEW f, NEW p, NEW at, NEW to, NEW g, NEW h, NEW a, NEW q, NEW v, NEW x,
         CallStep(t, f, p, at, to, g, h, a, q, v, x)
  PROVE  MeaningInv'
<1>. USE DEF CallStep
<1>1. PICK w, fn : w = token /\ fn = compFn
  OBVIOUS
<1>2. Runner(t, f, p, w, fn)
  BY <1>1, TopRuns
<1>0. /\ at \in Places /\ to \in Places
      /\ f.at \notin Strings /\ Yields(at) = Yields(f.at) /\ Yields(f.at) # "token"
      /\ (at \in Compiling => f.cfn = "base") /\ (to \in Compiling => compFn = "base")
      /\ (at \in Commenting <=> f.at \in Commenting) /\ to \notin Commenting
      /\ at \in Waiting /\ Yields(to) = Awaits(at)
  BY DEF MayCall, MayGo
<1>3. Fits(g, f) /\ g.at = at /\ g.cfn = f.cfn
  <2>1. /\ at \in Places /\ f.at \notin Strings /\ Yields(at) = Yields(f.at)
        /\ (at \in Compiling => f.cfn = "base")
    BY <1>0
  <2>. QED
    BY ONLY <1>2, <2>1, g = Moved(f, at), GotoFits, Zenon
<1>4. Fits(h, h) /\ h.at = to /\ h.cfn = fn
  BY <1>0, <1>1, CallFits
<1>5. fn = Runs(g) /\ Runs(h) = h.cfn
  BY <1>0, <1>2, <1>3, <1>4 DEF Runner, Runs, Commenting
<1>6. compFn' = Runs(g)
  BY <1>1, <1>5
<1>7. ctl' = Append([ctl EXCEPT ![Len(ctl)] = g], h)
  BY DEF CallThen, Top, Moved
<1>8. /\ TokenFits(t, q, v, h.at)
      /\ g.at \in Waiting /\ Yields(h.at) = Awaits(g.at)
      /\ Yields(h.at) # "token" => h.cfn = Runs(g) /\ Runs(h) = h.cfn
  BY <1>0, <1>3, <1>4, <1>5
<1>. QED
  BY ONLY ScannerInv, Understood, phase = "compile", Step, f = Top, x \in Outputs, out' = out \o x,
          t = text, q \in 1..Len(t) + 1, head' + 1 = q, token' = v, p = head + 1, a = Part(t, h, q),
          Part(t, f, p) = Then(x, Then(a.out, Part(t, g, a.next))),
          <1>3, <1>4, <1>6, <1>7, <1>8, CallKnows, ZenonT(40)

(* A function that only calls another one, or goes on as it, has the same  *)
(* in front of it.                                                         *)
LEMMA ThenNothing ==
  ASSUME NEW t, NEW n \in Spots(t), NEW r \in Wide(t)
  PROVE  Then(Nothing(n).out, r) = r /\ Then(<< >>, Then(Nothing(n).out, r)) = r
<1>1. Nothing(n).out = << >>
  BY NothingWide
<1>2. Then(<< >>, r) = r
  BY WideThen, OutputsAre
<1>. QED
  BY <1>1, <1>2

-----------------------------------------------------------------------------
(* The steps that stay where they are, and those that return.              *)
StayStep(t, f, p, q, v, x) ==
  /\ phase = "compile" /\ Step /\ compFn' = compFn
  /\ t = text /\ f = Top /\ p = head + 1
  /\ q \in 1..Len(t) + 1 /\ head' + 1 = q /\ token' = v /\ TokenFits(t, q, v, f.at)
  /\ x \in Outputs /\ out' = out \o x
  /\ ctl' = ctl /\ f.at \notin Strings /\ Part(t, f, p) = Then(x, Part(t, f, q))

LEMMA StayKnows ==
  ASSUME ScannerInv, Understood,
         NEW t, NEW f, NEW p, NEW q, NEW v, NEW x, StayStep(t, f, p, q, v, x)
  PROVE  MeaningInv'
<1>. USE DEF StayStep
<1>1. PICK w, fn, k : w = token /\ fn = compFn /\ k = ctl
  OBVIOUS
<1>2. Runner(t, f, p, w, fn)
  BY <1>1, TopRuns
<1>3. Fits(f, f)
  BY <1>2 DEF Runner, Fits, Strings
<1>4. compFn' = IF Yields(f.at) = "token" THEN compFn ELSE Runs(f)
  BY <1>1, <1>2 DEF Runner
<1>5. k \in Seq(Frames) /\ f = k[Len(k)]
  BY <1>1 DEF ScannerInv, Active, Top
<1>6. k = [k EXCEPT ![Len(k)] = f]
  BY <1>5
<1>7. ctl' = [ctl EXCEPT ![Len(ctl)] = f]
  BY <1>1, <1>6
<1>. QED
  BY ONLY ScannerInv, Understood, phase = "compile", Step, f = Top, x \in Outputs, out' = out \o x,
          t = text, q \in 1..Len(t) + 1, head' + 1 = q, token' = v, p = head + 1,
          TokenFits(t, q, v, f.at),
          Part(t, f, p) = Then(x, Part(t, f, q)), <1>3, <1>4, <1>7, GoesKnows, Zenon

LeaveStep(t, f, p, q, v, x) ==
  /\ phase = "compile" /\ Step /\ compFn' = compFn
  /\ t = text /\ f = Top /\ p = head + 1
  /\ q \in 1..Len(t) + 1 /\ head' + 1 = q /\ token' = v /\ Delivers(t, q, v, Yields(f.at))
  /\ x \in Outputs /\ out' = out \o x
  /\ Return /\ f.at \notin Sources /\ f.at \notin Commenting /\ Part(t, f, p) = Items(x, q)

LEMMA LeaveKnows ==
  ASSUME ScannerInv, Understood,
         NEW t, NEW f, NEW p, NEW q, NEW v, NEW x, LeaveStep(t, f, p, q, v, x)
  PROVE  MeaningInv'
<1>. USE DEF LeaveStep
<1>1. PICK w, fn : w = token /\ fn = compFn
  OBVIOUS
<1>2. Runner(t, f, p, w, fn)
  BY <1>1, TopRuns
<1>3. compFn' = IF Yields(f.at) = "token" THEN compFn ELSE f.cfn
  BY <1>1, <1>2 DEF Runner, Runs, Commenting
<1>. QED
  BY ONLY ScannerInv, Understood, phase = "compile", Step, Return, f = Top, f.at \notin Sources,
          x \in Outputs, out' = out \o x,
          t = text, q \in 1..Len(t) + 1, head' + 1 = q, token' = v, p = head + 1,
          Delivers(t, q, v, Yields(f.at)), Part(t, f, p) = Items(x, q), <1>3, ReturnKnows, Zenon

(* A function that runs, in constants: text, the frame, the position at the *)
(* head, the token, and compFn.                                            *)
Now(t, f, p, w, fn) ==
  /\ t = text /\ f = Top /\ p = head + 1 /\ w = token /\ fn = compFn
  /\ t \in Seq(Char) /\ f \in Frames /\ p \in 1..Len(t) + 1
  /\ TokenFits(t, p, w, f.at) /\ Part(t, f, p) \in Wide(t) /\ Part(t, f, p).next # Wrong(t)
  /\ Yields(f.at) # "token" => fn = Runs(f)
  /\ Runner(t, f, p, w, fn)

LEMMA NowRuns ==
  ASSUME ScannerInv, Understood, phase = "compile"
  PROVE  \E t, f, p, w, fn : Now(t, f, p, w, fn)
<1>1. PICK t, f, p, w, fn : t = text /\ f = Top /\ p = head + 1 /\ w = token /\ fn = compFn
  OBVIOUS
<1>2. Runner(t, f, p, w, fn)
  BY <1>1, TopRuns
<1>3. /\ t \in Seq(Char) /\ f \in Frames /\ p \in 1..Len(t) + 1 /\ TokenFits(t, p, w, f.at)
      /\ Part(t, f, p) \in Wide(t) /\ Part(t, f, p).next # Wrong(t)
      /\ (Yields(f.at) # "token" => fn = Runs(f))
  BY <1>2 DEF Runner
<1>. QED
  BY <1>1, <1>2, <1>3 DEF Now

LEMMA MovedFrame ==
  ASSUME NEW f \in Frames, NEW at \in Places, NEW g, g = Moved(f, at)
  PROVE  g \in Frames /\ g.at = at /\ g.cfn = f.cfn /\ g.white = f.white
BY DEF Moved, Frames

(* Nothing is put out.                                                     *)
LEMMA Quiet ==
  ASSUME Understood, out' = out
  PROVE  out' = out \o << >> /\ << >> \in Outputs
BY PutsOut, OutputsAre

(* What the token has to be, by places.                                    *)
Plain == {"raw", "scan", "fslash", "restore", "src", "srcEof", "baseCompFn", "single", "paren",
          "blkBody", "blkEnd"}

LEMMA TokenFitsAt ==
  ASSUME NEW t, NEW p, NEW k
  PROVE  /\ TokenFits(t, p, k, "group") <=>
              /\ p \in 1..Len(t) /\ t[p] \notin White /\ t[p] \notin Single
              /\ k # << >> /\ p + Len(k) - 1 <= WordEnd(t, p)
         /\ TokenFits(t, p, k, "scanLine") <=> \A i \in 1..Len(k) : k[i] # "nl"
         /\ \A at \in Chars \cup {"N_fslash"} : TokenFits(t, p, k, at) <=> k = << >>
         /\ \A at \in {"found", "commented"} : TokenFits(t, p, k, at) <=> Delivers(t, p, k, "token")
         /\ \A at \in {"singleToken", "parenToken", "blkToken", "ch"} :
              TokenFits(t, p, k, at) <=> Delivers(t, p, k, "word")
         /\ \A at \in Plain : TokenFits(t, p, k, at) <=> Delivers(t, p, k, "part")
<1>1. /\ \A at \in Chars \cup {"N_fslash"} : at \notin {"group", "scanLine"}
      /\ \A at \in {"found", "commented", "singleToken", "parenToken", "blkToken", "ch"} \cup Plain :
           at \notin Chars \cup {"group", "scanLine", "N_fslash"}
  BY DEF Chars, Plain
<1>2. /\ \A at \in {"found", "commented"} : Awaits(at) = "token"
      /\ \A at \in {"singleToken", "parenToken", "blkToken", "ch"} : Awaits(at) = "word"
      /\ \A at \in Plain : Awaits(at) = "part"
  BY DEF Awaits, Plain
<1>3. \A at \in {"found", "commented", "singleToken", "parenToken", "blkToken", "ch"} \cup Plain :
        TokenFits(t, p, k, at) <=> Delivers(t, p, k, Awaits(at))
  BY <1>1 DEF TokenFits
<1>. QED
  BY <1>1, <1>2, <1>3 DEF TokenFits

-----------------------------------------------------------------------------
(* The steps of the scanner.                                               *)

LEMMA scanRawMeans ==
  ASSUME ScannerInv, Understood, scanRaw
  PROVE  MeaningInv'
<1>1. /\ phase = "compile" /\ Top.at = "raw" /\ Step /\ compFn' = compFn
      /\ out' = out /\ out' = out \o << >> /\ << >> \in Outputs
  BY Quiet DEF scanRaw, At
<1>2. PICK t, f, p, w, fn : Now(t, f, p, w, fn)
  BY <1>1, NowRuns
<1>3. /\ t = text /\ f = Top /\ p = head + 1 /\ w = token /\ f.at = "raw"
      /\ t \in Seq(Char) /\ f \in Frames /\ p \in 1..Len(t) + 1 /\ TokenFits(t, p, w, f.at)
  BY <1>1, <1>2 DEF Now
<1>4. /\ Yields(f.at) = "token" /\ f.at \notin Sources /\ f.at \notin Commenting
      /\ f.at \notin Strings /\ "group" \in Places /\ MayGo(f, "group")
  BY <1>3, MayGoAre DEF Yields, Sources, Commenting, Strings, Places, Others
<1>5. Part(t, f, p) = Nothing(TokenAt(t, p)) /\ Delivers(t, p, w, "part")
  BY <1>3, PartAt DEF TokenFits, Chars, Awaits
<1>6. CASE Return /\ Keep /\ UNCHANGED token /\ (token # << >> \/ None(0))
  <2>1. TokenAt(t, p) = p /\ Delivers(t, p, w, "token")
    <3>1. CASE w # << >>
      <4>1. IsToken(t, p, w)
        BY <1>5, <3>1 DEF Delivers
      <4>. QED
        BY <1>3, <3>1, <4>1, TokenIsNextWord DEF Delivers
    <3>2. CASE w = << >>
      <4>1. None(0)
        BY <1>3, <1>6, <3>2
      <4>2. p + 0 > Len(t)
        BY <1>1, <1>3, <4>1, RingIsText
      <4>3. p = Len(t) + 1 /\ p > Len(t) /\ Len(t) \in Nat
        BY <1>3, <4>2, LenProperties
      <4>4. TokenAt(t, p) = p
        BY <1>3, <4>3, NonWhiteIs DEF TokenAt
      <4>. QED
        BY <3>2, <4>3, <4>4 DEF Delivers
    <3>. QED
      BY <3>1, <3>2
  <2>2. Part(t, f, p) = Items(<< >>, p) /\ head' + 1 = p /\ token' = w
    BY <1>3, <1>5, <1>6, <2>1 DEF Nothing, Keep
  <2>3. LeaveStep(t, f, p, p, w, << >>)
    BY ONLY <1>1, <1>3, <1>4, <1>6, <2>1, <2>2 DEF LeaveStep
  <2>. QED
    BY <2>3, LeaveKnows
<1>7. ASSUME token = << >>, Known(0), ~None(0)
      PROVE  p \in 1..Len(t) /\ Get(0) = t[p]
  <2>1. p + 0 \in 1..Len(t) /\ Get(0) = t[p + 0]
    BY <1>1, <1>3, <1>7, RingIsText
  <2>2. p + 0 = p
    BY <1>3
  <2>. QED
    BY <2>1, <2>2
<1>8. CASE /\ token = << >> /\ Known(0) /\ ~None(0) /\ Get(0) \in White
           /\ incHead(1) /\ UNCHANGED <<token, ctl>>
  <2>1. p \in 1..Len(t) /\ t[p] \in White
    BY <1>7, <1>8
  <2>2. PICK q : q = p + 1
    OBVIOUS
  <2>3. q \in 1..Len(t) + 1 /\ head' + 1 = q
    <3>1. head \in Nat
      BY DEF ScannerInv
    <3>. QED
      BY <1>3, <1>8, <2>1, <2>2, <3>1, LenProperties DEF incHead
  <2>4. TokenAt(t, p) = TokenAt(t, q)
    BY <1>3, <2>1, <2>2, NonWhiteIs DEF TokenAt
  <2>5. Part(t, f, p) = Part(t, f, q) /\ Part(t, f, q) \in Wide(t)
    BY <1>3, <1>5, <2>3, <2>4, PartAt, PartWide, SpotsAre
  <2>6. Part(t, f, p) = Then(<< >>, Part(t, f, q))
    BY <2>5, ThenNone
  <2>7. TokenFits(t, q, << >>, f.at) /\ token' = << >>
    BY <1>3, <1>8 DEF TokenFits, Chars, Awaits, Delivers
  <2>8. ctl' = ctl
    BY <1>8
  <2>9. StayStep(t, f, p, q, << >>, << >>)
    BY ONLY <1>1, <1>3, <1>4, <2>3, <2>6, <2>7, <2>8 DEF StayStep
  <2>. QED
    BY <2>9, StayKnows
<1>9. CASE /\ token = << >> /\ Known(0) /\ ~None(0) /\ Get(0) \notin White
           /\ token' = <<Get(0)>> /\ Keep
           /\ IF Get(0) \in Single THEN Return ELSE Goto("group")
  <2>1. p \in 1..Len(t) /\ t[p] \notin White /\ token' = <<t[p]>> /\ head' + 1 = p
        /\ (IF t[p] \in Single THEN Return ELSE Goto("group"))
    BY <1>3, <1>7, <1>9 DEF Keep
  <2>2. CASE t[p] \in Single
    <3>1. <<t[p]>> = Word(t, p) /\ Len(<<t[p]>>) = 1 /\ 1 <= TokCap
      BY <1>3, <2>1, <2>2, SingleWord, CapAssumption
    <3>2. IsToken(t, p, <<t[p]>>)
      BY <2>1, <3>1 DEF IsToken
    <3>3. Delivers(t, p, <<t[p]>>, Yields(f.at))
      BY <1>4, <3>2 DEF Delivers
    <3>4. Part(t, f, p) = Items(<< >>, p)
      BY <1>3, <1>5, <3>2, TokenIsNextWord DEF Nothing
    <3>5. Return /\ token' = <<t[p]>>
      BY <2>1, <2>2
    <3>6. LeaveStep(t, f, p, p, <<t[p]>>, << >>)
      BY ONLY <1>1, <1>3, <1>4, <2>1, <3>3, <3>4, <3>5 DEF LeaveStep
    <3>. QED
      BY <3>6, LeaveKnows
  <2>3. CASE t[p] \notin Single
    <3>1. PICK g : g = Moved(f, "group")
      OBVIOUS
    <3>2. g \in Frames /\ g.at = "group"
      BY <1>3, <1>4, <3>1, MovedFrame
    <3>3. Part(t, g, p) = Part(t, f, p) /\ Part(t, f, p) \in Wide(t)
      BY <1>2, <1>3, <1>5, <3>2, PartAt DEF Now
    <3>4. Part(t, f, p) = Then(<< >>, Part(t, g, p))
      BY <3>3, ThenNone
    <3>5. TokenFits(t, p, <<t[p]>>, "group")
      <4>1. IsEnd(t, p, WordEnd(t, p))
        BY <1>3, <2>1, WordEndFacts
      <4>2. p + 1 - 1 <= WordEnd(t, p)
        BY <1>3, <2>1, <4>1, LenProperties DEF IsEnd
      <4>3. Len(<<t[p]>>) = 1 /\ <<t[p]>> # << >>
        OBVIOUS
      <4>. QED
        BY <2>1, <2>3, <4>2, <4>3, TokenFitsAt
    <3>6. Goto("group")
      BY <2>1, <2>3
    <3>7. GotoStep(t, f, p, "group", g, p, <<t[p]>>, << >>)
      BY ONLY <1>1, <1>3, <1>4, <2>1, <3>1, <3>4, <3>5, <3>6 DEF GotoStep
    <3>. QED
      BY <3>7, GotoKnows
  <2>. QED
    BY <2>2, <2>3
<1>. QED
  BY <1>6, <1>8, <1>9 DEF scanRaw

-----------------------------------------------------------------------------
(* A part of the word at p that goes on, or is all of it.                  *)
LEMMA GroupGoesOn ==
  ASSUME NEW t \in Seq(Char), NEW p \in 1..Len(t), t[p] \notin Single,
         NEW w \in Seq(Char), w # << >>, NEW i, i = Len(w), p + i - 1 <= WordEnd(t, p),
         \A j \in 1..i : w[j] = t[p + j - 1]
  PROVE  /\ p + i <= Len(t) /\ tokenGroup(t[p + i]) = tokenGroup(t[p]) =>
              p + i <= WordEnd(t, p) /\ Len(Word(t, p)) > i
         /\ ~(p + i <= Len(t) /\ tokenGroup(t[p + i]) = tokenGroup(t[p])) => w = Word(t, p)
<1>1. PICK l \in Nat, n \in Nat : l = Len(t) /\ n = i
  BY LenProperties
<1>0. PICK e : e = WordEnd(t, p)
  OBVIOUS
<1>2. n # 0 /\ n > 0
  BY <1>1
<1>3. IsEnd(t, p, e) /\ p + n - 1 <= e
  BY <1>0, <1>1, WordEndFacts
<1>4. /\ e \in p..l
      /\ \A k \in p..e : tokenGroup(t[k]) = tokenGroup(t[p])
      /\ e < l => tokenGroup(t[e + 1]) # tokenGroup(t[p])
  BY <1>1, <1>3 DEF IsEnd
<1>5. Word(t, p) \in Seq(Char) /\ Len(Word(t, p)) = e - p + 1
      /\ \A k \in 1..e - p + 1 : Word(t, p)[k] = t[p + k - 1]
  BY ONLY t \in Seq(Char), p \in 1..Len(t), <1>0, WordFacts, ZenonT(40)
<1>6. ASSUME p + n <= l, tokenGroup(t[p + n]) = tokenGroup(t[p])
      PROVE  p + n <= e
  <2>1. SUFFICES ASSUME e = p + n - 1
                 PROVE  FALSE
    BY <1>1, <1>3, <1>4, SMTT(30)
  <2>2. e < l /\ e + 1 = p + n
    BY <1>1, <1>6, <2>1
  <2>. QED
    BY <1>4, <1>6, <2>2
<1>7. ASSUME ~(p + n <= l /\ tokenGroup(t[p + n]) = tokenGroup(t[p]))
      PROVE  e = p + n - 1
  <2>1. p + n <= e => p + n \in p..e /\ p + n <= l
    BY <1>1, <1>4
  <2>2. ~(p + n <= e)
    BY <1>4, <1>7, <2>1
  <2>. QED
    BY <1>1, <1>3, <1>4, <2>2
<1>8. p + n <= e => Len(Word(t, p)) > n
  BY <1>1, <1>4, <1>5
<1>9. ASSUME e = p + n - 1
      PROVE  w = Word(t, p)
  <2>1. e - p + 1 = n
    BY <1>1, <1>9
  <2>2. Len(w) = Len(Word(t, p)) /\ \A j \in 1..Len(w) : w[j] = Word(t, p)[j]
    BY <1>1, <1>5, <2>1
  <2>. QED
    BY <1>5, <2>2, SeqEqual
<1>. QED
  BY <1>0, <1>1, <1>6, <1>7, <1>8, <1>9

LEMMA scanRaw_groupMeans ==
  ASSUME ScannerInv, Understood, Clears, "newRepl" \in Rules, scanRaw_group
  PROVE  MeaningInv'
<1>1. phase = "compile" /\ Top.at = "group" /\ Known(Len(token))
  BY DEF scanRaw_group, At
<1>2. PICK t, f, p, w, fn : Now(t, f, p, w, fn)
  BY <1>1, NowRuns
<1>3. /\ t = text /\ f = Top /\ p = head + 1 /\ w = token /\ f.at = "group"
      /\ t \in Seq(Char) /\ f \in Frames /\ p \in 1..Len(t) + 1 /\ TokenFits(t, p, w, f.at)
  BY <1>1, <1>2 DEF Now
<1>4. /\ Yields(f.at) = "token" /\ f.at \notin Sources /\ f.at \notin Commenting
      /\ f.at \notin Strings
  BY <1>3 DEF Yields, Sources, Commenting, Strings
<1>5. Part(t, f, p) = Nothing(TokenAt(t, p)) /\ Part(t, f, p) \in Wide(t)
  BY <1>2, <1>3, PartAt DEF Now
<1>6. /\ p \in 1..Len(t) /\ t[p] \notin White /\ t[p] \notin Single
      /\ w # << >> /\ p + Len(w) - 1 <= WordEnd(t, p)
  BY <1>3, TokenFitsAt
<1>7. /\ w \in Seq(Char) /\ Len(w) \in Nat /\ Len(w) <= TokCap
      /\ \A j \in 1..Len(w) : w[j] = t[p + j - 1]
  BY <1>1, <1>3, TokenIsText
<1>8. PICK i \in Nat : i = Len(w) /\ i # 0 /\ i <= TokCap /\ TokCap \in Nat
  BY <1>6, <1>7, CapAssumption
<1>9. /\ None(i) => p + i > Len(t)
      /\ ~None(i) => p + i \in 1..Len(t) /\ Get(i) = t[p + i]
  BY <1>1, <1>3, <1>8, RingIsText
<1>10. token[1] = t[p]
  <2>1. 1 \in 1..i /\ p + 1 - 1 = p
    BY <1>3, <1>8
  <2>. QED
    BY <1>3, <1>7, <1>8, <2>1
<1>11. Grouped(i) <=> p + i <= Len(t) /\ tokenGroup(t[p + i]) = tokenGroup(t[p])
  <2>1. ~(p + i > Len(t) /\ p + i <= Len(t)) /\ Len(t) \in Nat
    BY <1>3, LenProperties
  <2>. QED
    BY <1>3, <1>8, <1>9, <1>10, <2>1 DEF Grouped
<1>12. /\ Grouped(i) => p + i <= WordEnd(t, p) /\ Len(Word(t, p)) > i
       /\ ~Grouped(i) => w = Word(t, p)
  BY <1>3, <1>6, <1>7, <1>8, <1>11, GroupGoesOn, ZenonT(40)
<1>13. CASE Grouped(i) /\ i = TokCap
  <2>1. Panic
    BY <1>3, <1>8, <1>13 DEF scanRaw_group
  <2>2. NonWhite(t, p) = p /\ p <= Len(t) /\ Len(Word(t, p)) > TokCap
    BY <1>3, <1>6, <1>12, <1>13, NonWhiteIs
  <2>3. Part(t, f, p) = Nothing(0)
    BY <1>5, <2>2 DEF TokenAt
  <2>. QED
    BY <1>1, <1>3, <2>1, <2>3, PanicKnows
<1>14. ASSUME ~(Grouped(i) /\ i = TokCap)
       PROVE  /\ IF Grouped(i) THEN token' = Append(w, Get(i)) /\ ctl' = ctl
                               ELSE Return /\ token' = w
              /\ Step /\ head' + 1 = p /\ compFn' = compFn
              /\ out' = out \o << >> /\ << >> \in Outputs
  BY <1>3, <1>8, <1>14, Quiet DEF scanRaw_group, Keep
<1>15. CASE Grouped(i) /\ i # TokCap
  <2>1. PICK v : v = Append(w, t[p + i])
    OBVIOUS
  <2>2. ~None(i) /\ token' = v /\ ctl' = ctl
    BY <1>9, <1>14, <1>15, <2>1 DEF Grouped
  <2>3. t[p + i] \in Char
    BY <1>3, <1>9, <2>2, ElementOfSeq
  <2>4. Len(v) = i + 1
    BY <1>7, <1>8, <2>1, <2>3, AppendProperties
  <2>5. v # << >> /\ p + Len(v) - 1 <= WordEnd(t, p)
    BY <1>3, <1>8, <1>12, <1>15, <2>4
  <2>6. TokenFits(t, p, v, f.at)
    BY <1>3, <1>6, <2>5, TokenFitsAt
  <2>7. Part(t, f, p) = Then(<< >>, Part(t, f, p))
    BY <1>5, ThenNone
  <2>8. StayStep(t, f, p, p, v, << >>)
    BY ONLY <1>1, <1>3, <1>4, <1>14, <1>15, <2>2, <2>6, <2>7 DEF StayStep
  <2>. QED
    BY <2>8, StayKnows
<1>16. CASE ~Grouped(i)
  <2>1. IsToken(t, p, w)
    BY <1>6, <1>7, <1>12, <1>16 DEF IsToken
  <2>2. Part(t, f, p) = Items(<< >>, p)
    BY <1>3, <1>5, <2>1, TokenIsNextWord DEF Nothing
  <2>3. Delivers(t, p, w, Yields(f.at))
    BY <1>4, <1>6, <2>1 DEF Delivers
  <2>4. LeaveStep(t, f, p, p, w, << >>)
    BY ONLY <1>1, <1>3, <1>4, <1>14, <1>16, <2>2, <2>3 DEF LeaveStep
  <2>. QED
    BY <2>4, LeaveKnows
<1>. QED
  BY <1>13, <1>15, <1>16

-----------------------------------------------------------------------------
(* scan, and the mark of a comment.                                        *)
LEMMA SkipsAt ==
  ASSUME NEW t \in Seq(Char), NEW p \in 1..Len(t) + 1
  PROVE  /\ Skip(t)["comment"][p] = SkipComment(t, Skip(t), p)
         /\ Skip(t)["element"][p] = SkipElement(t, Skip(t), p)
         /\ Skip(t)["block"][p] = SkipBlock(t, Skip(t), p)
<1>1. p \in Positions(t) /\ p # 0
  BY SpotsAre
<1>2. \A w \in Commented : Skip(t)[w][p] = SkipAt(t, Skip(t), w, p)
  BY <1>1, SkipAlso
<1>. QED
  BY <1>1, <1>2 DEF SkipAt, Commented

(* What drops the token.                                                   *)
LEMMA DropEnds ==
  ASSUME ScannerInv, phase = "compile", tokenDrop, NEW p, p = head + 1, NEW w, w = token
  PROVE  token' = << >> /\ head' + 1 = p + Len(w)
<1>1. head \in Nat /\ w \in Seq(Char) /\ Len(w) \in Nat
  BY TokenIsText DEF ScannerInv
<1>2. head' = head + Len(w) /\ token' = << >>
  BY DEF tokenDrop, incHead
<1>. QED
  BY <1>1, <1>2

(* What has been looked at, or the end.                                    *)
LEMMA DeliveredIs ==
  ASSUME NEW t \in Seq(Char), NEW p, NEW w, NEW what, what # "part", Delivers(t, p, w, what)
  PROVE  /\ (w = << >> /\ p = Len(t) + 1) \/ (w # << >> /\ IsToken(t, p, w))
         /\ w # <<"\\">> => NextWord(t, p) = p /\ Delivers(t, p, w, "word")
<1>1. (w = << >> /\ p = Len(t) + 1) \/ (w # << >> /\ IsToken(t, p, w))
  BY TokenEnds DEF Delivers
<1>2. ASSUME w = << >>, p = Len(t) + 1
      PROVE  NextWord(t, p) = p
  <2>1. p \in 1..Len(t) + 1 /\ p > Len(t)
    BY <1>2, LenProperties
  <2>2. NonWhite(t, p) = p
    BY <1>2, <2>1, NonWhiteIs
  <2>. QED
    BY <2>1, <2>2, NextWordIs
<1>3. w # <<"\\">> => NextWord(t, p) = p
  BY <1>1, <1>2, TokenIsNextWord
<1>. QED
  BY <1>1, <1>3 DEF Delivers

LEMMA scanMeans ==
  ASSUME ScannerInv, Understood, scan
  PROVE  MeaningInv'
<1>1. /\ phase = "compile" /\ Top.at = "scan" /\ Step /\ compFn' = compFn /\ Keep /\ token' = token
      /\ CallThen("found", "raw") /\ out' = out \o << >> /\ << >> \in Outputs
  BY Quiet DEF scan, At
<1>2. PICK t, f, p, w, fn : Now(t, f, p, w, fn)
  BY <1>1, NowRuns
<1>3. /\ t = text /\ f = Top /\ p = head + 1 /\ w = token /\ f.at = "scan"
      /\ t \in Seq(Char) /\ f \in Frames /\ p \in 1..Len(t) + 1 /\ TokenFits(t, p, w, f.at)
  BY <1>1, <1>2 DEF Now
<1>4. MayCall(f, "found", "raw", compFn) /\ "found" \in Places /\ "raw" \in Places
  BY <1>3, MayCallAre DEF Places, Others
<1>5. PICK g, h : g = Moved(f, "found") /\ h = Frame("raw")
  OBVIOUS
<1>6. g \in Frames /\ g.at = "found" /\ h \in Frames /\ h.at = "raw"
  BY <1>3, <1>4, <1>5, MovedFrame, FrameIsFrame DEF ScannerInv
<1>7. PICK a : a = Part(t, h, p)
  OBVIOUS
<1>8. a = Nothing(TokenAt(t, p)) /\ TokenAt(t, p) \in Spots(t) /\ a.next = TokenAt(t, p)
      /\ Part(t, f, p) = Nothing(NextWord(t, p)) /\ NextWord(t, p) \in Spots(t)
  BY <1>3, <1>6, <1>7, PartAt, NextsAreSpots, NothingWide
<1>9. Part(t, g, a.next) = Part(t, f, p)
  <2>1. PICK n : n = NonWhite(t, p)
    OBVIOUS
  <2>2. CASE n <= Len(t) /\ Len(Word(t, n)) > TokCap
    <3>1. TokenAt(t, p) = 0 /\ ~(n > Len(t))
      BY <1>3, <2>1, <2>2, NonWhiteFacts, LenProperties DEF TokenAt
    <3>2. NextWord(t, p) = 0
      BY <1>3, <2>1, <2>2, <3>1, NextWordIs
    <3>. QED
      BY <1>8, <3>1, <3>2, PartStops
  <2>3. CASE ~(n <= Len(t) /\ Len(Word(t, n)) > TokCap)
    <3>1. TokenAt(t, p) = n /\ n \in 1..Len(t) + 1
      BY <1>3, <2>1, <2>3, NonWhiteFacts DEF TokenAt
    <3>2. NextWord(t, p) = NextWord(t, n)
      BY <1>3, <2>1, NextWordIs
    <3>. QED
      BY <1>3, <1>6, <1>8, <3>1, <3>2, PartAt
  <2>. QED
    BY <2>2, <2>3
<1>10. Part(t, f, p) = Then(<< >>, Then(a.out, Part(t, g, a.next)))
  BY <1>8, <1>9, NothingWide, ThenNothing
<1>11. TokenFits(t, p, w, "raw")
  BY <1>3, TokenFitsAt DEF Plain
<1>12. head' + 1 = p /\ token' = w
  BY <1>1, <1>3 DEF Keep
<1>13. CallStep(t, f, p, "found", "raw", g, h, a, p, w, << >>)
  BY ONLY <1>1, <1>3, <1>4, <1>5, <1>7, <1>10, <1>11, <1>12 DEF CallStep
<1>. QED
  BY <1>13, CallToKnows

LEMMA scan_foundMeans ==
  ASSUME ScannerInv, Understood, scan_found
  PROVE  MeaningInv'
<1>1. /\ phase = "compile" /\ Top.at = "found" /\ Step /\ compFn' = compFn
      /\ out' = out \o << >> /\ << >> \in Outputs
  BY Quiet DEF scan_found, At
<1>2. PICK t, f, p, w, fn : Now(t, f, p, w, fn)
  BY <1>1, NowRuns
<1>3. /\ t = text /\ f = Top /\ p = head + 1 /\ w = token /\ f.at = "found"
      /\ t \in Seq(Char) /\ f \in Frames /\ p \in 1..Len(t) + 1 /\ TokenFits(t, p, w, f.at)
  BY <1>1, <1>2 DEF Now
<1>4. MayCall(f, "scan", "N_fslash", compFn) /\ "scan" \in Places /\ "N_fslash" \in Places
      /\ f.at \notin Sources /\ f.at \notin Commenting /\ Yields(f.at) = "word"
  BY <1>3, MayCallAre DEF Places, Others, Sources, Commenting, Yields
<1>5. Delivers(t, p, w, "token") /\ Part(t, f, p) = Nothing(NextWord(t, p))
      /\ NextWord(t, p) \in Spots(t)
  BY <1>3, TokenFitsAt, PartAt, NextsAreSpots
<1>6. CASE w = <<"\\">>
  <2>1. tokenDrop /\ CallThen("scan", "N_fslash")
    BY <1>3, <1>6 DEF scan_found
  <2>2. IsToken(t, p, w)
    BY <1>5, <1>6 DEF Delivers
  <2>3. PICK q : q = p + 1
    OBVIOUS
  <2>4. p \in 1..Len(t) /\ NonWhite(t, p) = p /\ q \in 1..Len(t) + 1
        /\ ~(p > Len(t)) /\ ~(Len(Word(t, p)) > TokCap) /\ Word(t, p) = <<"\\">>
    <3>1. p \in 1..Len(t) /\ NonWhite(t, p) = p /\ q \in 1..Len(t) + 1
      BY <1>3, <2>2, <2>3, TokenIsNextWord
    <3>2. ~(p > Len(t))
      BY <3>1, LenProperties
    <3>3. Len(Word(t, p)) = 1 /\ Word(t, p) = <<"\\">>
      BY <1>6, <2>2 DEF IsToken
    <3>. QED
      BY <3>1, <3>2, <3>3, CapAssumption
  <2>5. token' = << >> /\ head' + 1 = q
    <3>1. Len(w) = 1
      BY <1>6
    <3>. QED
      BY <1>1, <1>3, <2>1, <2>3, <3>1, DropEnds
  <2>6. PICK g, h, m : g = Moved(f, "scan") /\ h = Frame("N_fslash") /\ m = Skip(t)["comment"][q]
    OBVIOUS
  <2>7. g \in Frames /\ g.at = "scan" /\ h \in Frames /\ h.at = "N_fslash"
    BY <1>3, <1>4, <2>6, MovedFrame, FrameIsFrame DEF ScannerInv
  <2>8. PICK a : a = Part(t, h, q)
    OBVIOUS
  <2>9. m \in Spots(t) /\ (m = 0 \/ m \in 1..Len(t) + 1)
    <3>1. q \in Positions(t) /\ Positions(t) = 0..Len(t) + 1 /\ Len(t) \in Nat
      BY <1>3, <2>4, SpotsAre, PositionsAre
    <3>2. m \in Positions(t)
      BY <1>3, <2>6, <3>1, SkipAlso DEF Commented
    <3>. QED
      BY <1>3, <3>1, <3>2, SpotsAre
  <2>10. a = Nothing(m) /\ a.next = m
    BY <1>3, <2>4, <2>6, <2>7, <2>8, <2>9, PartAt, NothingWide
  <2>11. NextWord(t, p) = NextWord(t, m)
    BY <1>3, <2>3, <2>4, <2>6, NextWordIs
  <2>12. Part(t, g, m) = Part(t, f, p)
    <3>1. CASE m = 0
      <4>1. NextWord(t, 0) = 0
        BY <1>3, NextWordFacts, PositionsAre
      <4>. QED
        BY <1>5, <2>11, <3>1, <4>1, PartStops
    <3>2. CASE m \in 1..Len(t) + 1
      BY <1>3, <1>5, <2>7, <2>11, <3>2, PartAt
    <3>. QED
      BY <2>9, <3>1, <3>2
  <2>13. Part(t, f, p) = Then(<< >>, Then(a.out, Part(t, g, a.next)))
    BY <1>5, <2>9, <2>10, <2>12, NothingWide, ThenNothing
  <2>14. TokenFits(t, q, << >>, "N_fslash")
    BY TokenFitsAt
  <2>15. CallStep(t, f, p, "scan", "N_fslash", g, h, a, q, << >>, << >>)
    BY ONLY <1>1, <1>3, <1>4, <2>1, <2>4, <2>5, <2>6, <2>8, <2>13, <2>14 DEF CallStep
  <2>. QED
    BY <2>15, CallToKnows
<1>7. CASE w # <<"\\">>
  <2>1. Return /\ Keep /\ token' = token
    BY <1>3, <1>7 DEF scan_found
  <2>2. NextWord(t, p) = p /\ Delivers(t, p, w, Yields(f.at))
    BY <1>3, <1>4, <1>5, <1>7, DeliveredIs
  <2>3. Part(t, f, p) = Items(<< >>, p) /\ head' + 1 = p /\ token' = w
    BY <1>3, <1>5, <2>1, <2>2 DEF Nothing, Keep
  <2>4. LeaveStep(t, f, p, p, w, << >>)
    BY ONLY <1>1, <1>3, <1>4, <2>1, <2>2, <2>3 DEF LeaveStep
  <2>. QED
    BY <2>4, LeaveKnows
<1>. QED
  BY <1>6, <1>7

-----------------------------------------------------------------------------
(* The comment behind its mark: to the end of the line, or an element.     *)
LEMMA N_fslashMeans ==
  ASSUME ScannerInv, Understood, Clears, "newRepl" \in Rules, N_fslash
  PROVE  MeaningInv'
<1>1. phase = "compile" /\ Top.at = "N_fslash" /\ Known(0)
  BY DEF N_fslash, At
<1>2. PICK t, f, p, w, fn : Now(t, f, p, w, fn)
  BY <1>1, NowRuns
<1>3. /\ t = text /\ f = Top /\ p = head + 1 /\ w = token /\ f.at = "N_fslash"
      /\ t \in Seq(Char) /\ f \in Frames /\ p \in 1..Len(t) + 1 /\ TokenFits(t, p, w, f.at)
  BY <1>1, <1>2 DEF Now
<1>4. /\ w = << >> /\ f.at \notin Sources /\ f.at \notin Commenting /\ Yields(f.at) = "part"
      /\ MayGo(f, "scanLine") /\ MayGo(f, "fslash") /\ "scanLine" \in Places /\ "fslash" \in Places
  BY <1>3, TokenFitsAt, MayGoAre DEF Sources, Commenting, Yields, Places, Others
<1>5. /\ Part(t, f, p) = Nothing(SkipComment(t, Skip(t), p)) /\ Part(t, f, p) \in Wide(t)
  BY <1>2, <1>3, PartAt, SkipsAt DEF Now
<1>6. /\ None(0) => p > Len(t)
      /\ ~None(0) => p \in 1..Len(t) /\ Get(0) = t[p] /\ ~(p > Len(t))
  <2>1. 0 \in Nat /\ p + 0 = p /\ Len(t) \in Nat
    BY <1>3, LenProperties
  <2>. QED
    BY <1>1, <1>3, <2>1, RingIsText
<1>7. CASE None(0)
  <2>1. Part(t, f, p) = Nothing(0)
    BY <1>5, <1>6, <1>7 DEF SkipComment
  <2>2. Panic
    BY <1>7 DEF N_fslash
  <2>. QED
    BY <1>1, <1>3, <2>1, <2>2, PanicKnows
<1>8. CASE ~None(0)
  <2>1. /\ Step /\ Keep /\ compFn' = compFn /\ token' = w
        /\ out' = out \o << >> /\ << >> \in Outputs /\ head' + 1 = p
        /\ t[p] = "nl" => Return
        /\ t[p] = " " => Goto("scanLine")
        /\ t[p] \notin {"nl", " "} => Goto("fslash")
    BY <1>3, <1>6, <1>8, Quiet DEF N_fslash, Keep
  <2>2. p \in 1..Len(t) /\ ~(p > Len(t))
    BY <1>6, <1>8
  <2>3. CASE t[p] = "nl"
    <3>1. Part(t, f, p) = Items(<< >>, p)
      BY <1>5, <2>2, <2>3 DEF SkipComment, Nothing
    <3>2. Delivers(t, p, w, Yields(f.at))
      BY <1>4 DEF Delivers
    <3>3. LeaveStep(t, f, p, p, w, << >>)
      BY ONLY <1>1, <1>3, <1>4, <2>1, <2>3, <3>1, <3>2 DEF LeaveStep
    <3>. QED
      BY <3>3, LeaveKnows
  <2>4. CASE t[p] = " "
    <3>1. PICK g : g = Moved(f, "scanLine")
      OBVIOUS
    <3>2. Part(t, f, p) = Nothing(LineAt(t, p))
      BY <1>5, <2>2, <2>4 DEF SkipComment, LineAt
    <3>3. Part(t, g, p) = Part(t, f, p)
      BY <1>3, <1>4, <3>1, <3>2, MovedFrame, PartAt
    <3>4. Part(t, f, p) = Then(<< >>, Part(t, g, p))
      BY <1>5, <3>3, ThenNone
    <3>5. TokenFits(t, p, w, "scanLine")
      BY <1>4, TokenFitsAt
    <3>6. Goto("scanLine")
      BY <2>1, <2>4
    <3>7. GotoStep(t, f, p, "scanLine", g, p, w, << >>)
      BY ONLY <1>1, <1>3, <1>4, <2>1, <3>1, <3>4, <3>5, <3>6 DEF GotoStep
    <3>. QED
      BY <3>7, GotoKnows
  <2>5. CASE t[p] \notin {"nl", " "}
    <3>1. PICK g : g = Moved(f, "fslash")
      OBVIOUS
    <3>2. Part(t, f, p) = Nothing(Skip(t)["element"][p])
      BY <1>5, <2>2, <2>5 DEF SkipComment
    <3>3. NonWhite(t, p) = p
      BY <1>3, <2>2, <2>5, NonWhiteIs DEF White
    <3>4. Part(t, g, p) = Part(t, f, p)
      BY <1>3, <1>4, <3>1, <3>2, <3>3, MovedFrame, PartAt
    <3>5. Part(t, f, p) = Then(<< >>, Part(t, g, p))
      BY <1>5, <3>4, ThenNone
    <3>6. TokenFits(t, p, w, "fslash")
      BY <1>4, TokenFitsAt DEF Delivers, Plain
    <3>7. Goto("fslash")
      BY <2>1, <2>5
    <3>8. GotoStep(t, f, p, "fslash", g, p, w, << >>)
      BY ONLY <1>1, <1>3, <1>4, <2>1, <3>1, <3>5, <3>6, <3>7 DEF GotoStep
    <3>. QED
      BY <3>8, GotoKnows
  <2>. QED
    BY <2>3, <2>4, <2>5
<1>. QED
  BY <1>7, <1>8

(* The line of a comment ends with the first end of line, or at the end.   *)
InLine(t, p, i) == p + i \in 1..Len(t) + 1 /\ \A j \in 1..i : t[p + j - 1] # "nl"

LEMMA LineGoesOn ==
  ASSUME NEW t \in Seq(Char), NEW p \in 1..Len(t) + 1, NEW i \in Nat, InLine(t, p, i),
         NEW e, e = First(t, p, {"nl"})
  PROVE  /\ e \in Nat
         /\ (p + i > Len(t) \/ (p + i \in 1..Len(t) /\ t[p + i] = "nl")) => e - p = i /\ e = p + i
         /\ p + i \in 1..Len(t) /\ t[p + i] # "nl" => e - p > i
<1>1. PICK l \in Nat : l = Len(t)
  BY LenProperties
<1>2. IsFirst(t, p, {"nl"}, e)
  BY FirstFacts
<1>3. e \in p..l + 1 /\ (e <= l => t[e] = "nl")
  BY <1>1, <1>2 DEF IsFirst
<1>0. p + i \in 1..l + 1 /\ \A j \in 1..i : t[p + j - 1] # "nl"
  BY <1>1 DEF InLine
<1>4. \A j \in p..p + i - 1 : t[j] # "nl"
  <2>1. ASSUME NEW j \in p..p + i - 1
        PROVE  t[j] # "nl"
    <3>1. PICK n : n = j - p + 1
      OBVIOUS
    <3>2. n \in 1..i /\ p + n - 1 = j
      BY <1>1, <3>1
    <3>. QED
      BY <1>0, <3>2
  <2>. QED
    BY <2>1
<1>5. e \notin p..p + i - 1
  <2>1. p + i - 1 <= l
    BY <1>0, <1>1
  <2>. QED
    BY <1>1, <1>3, <1>4, <2>1
<1>6. e >= p + i
  BY <1>1, <1>3, <1>5
<1>7. ASSUME p + i > l \/ (p + i \in 1..l /\ t[p + i] = "nl")
      PROVE  e = p + i
  <2>1. CASE p + i > l
    BY <1>0, <1>1, <1>3, <1>6, <2>1
  <2>2. CASE p + i \in 1..l /\ t[p + i] = "nl"
    <3>1. IsFirst(t, p, {"nl"}, p + i)
      <4>1. p + i \in p..l + 1
        BY <1>0, <1>1
      <4>. QED
        BY <1>1, <1>4, <2>2, <4>1 DEF IsFirst
    <3>2. PICK n : n = p + i
      OBVIOUS
    <3>. QED
      BY <3>1, <3>2, FirstIs
  <2>. QED
    BY <1>7, <2>1, <2>2
<1>8. p + i \in 1..l /\ t[p + i] # "nl" => e # p + i
  BY <1>1, <1>3
<1>. QED
  BY <1>1, <1>3, <1>6, <1>7, <1>8

-----------------------------------------------------------------------------
(* A comment to the end of the line: the token is dropped in pieces.       *)
LEMMA scanLineMeans ==
  ASSUME ScannerInv, Understood, Clears, "newRepl" \in Rules, scanLine
  PROVE  MeaningInv'
<1>1. phase = "compile" /\ Top.at = "scanLine" /\ Known(Len(token))
  BY DEF scanLine, At
<1>2. PICK t, f, p, w, fn : Now(t, f, p, w, fn)
  BY <1>1, NowRuns
<1>3. /\ t = text /\ f = Top /\ p = head + 1 /\ w = token /\ f.at = "scanLine"
      /\ t \in Seq(Char) /\ f \in Frames /\ p \in 1..Len(t) + 1 /\ TokenFits(t, p, w, f.at)
  BY <1>1, <1>2 DEF Now
<1>4. /\ Yields(f.at) = "part" /\ f.at \notin Sources /\ f.at \notin Commenting
      /\ f.at \notin Strings
  BY <1>3 DEF Yields, Sources, Commenting, Strings
<1>5. /\ Part(t, f, p) = Nothing(LineAt(t, p)) /\ Part(t, f, p) \in Wide(t)
  BY <1>2, <1>3, PartAt DEF Now
<1>6. /\ w \in Seq(Char) /\ Len(w) \in Nat /\ Len(w) <= TokCap /\ p + Len(w) \in 1..Len(t) + 1
      /\ \A j \in 1..Len(w) : w[j] = t[p + j - 1]
  BY <1>1, <1>3, TokenIsText
<1>7. PICK i \in Nat : i = Len(w) /\ i <= TokCap /\ TokCap \in Nat
  BY <1>6, CapAssumption
<1>8. \A j \in 1..i : w[j] # "nl" /\ t[p + j - 1] # "nl"
  BY <1>3, <1>6, <1>7, TokenFitsAt
<1>9. /\ None(i) => p + i > Len(t)
      /\ ~None(i) => p + i \in 1..Len(t) /\ Get(i) = t[p + i]
  BY <1>1, <1>3, <1>7, RingIsText
<1>10. PICK e : e = First(t, p, {"nl"})
  OBVIOUS
<1>11. PICK q : q = p + i /\ q \in 1..Len(t) + 1
  BY <1>6, <1>7
<1>12. /\ e \in Nat
       /\ (q > Len(t) \/ (q \in 1..Len(t) /\ t[q] = "nl")) => e - p = i /\ e = q
       /\ q \in 1..Len(t) /\ t[q] # "nl" => e - p > i
  <2>1. t \in Seq(Char) /\ p \in 1..Len(t) + 1 /\ InLine(t, p, i)
    BY <1>3, <1>8, <1>11 DEF InLine
  <2>2. /\ e \in Nat
        /\ (p + i > Len(t) \/ (p + i \in 1..Len(t) /\ t[p + i] = "nl")) => e - p = i /\ e = p + i
        /\ p + i \in 1..Len(t) /\ t[p + i] # "nl" => e - p > i
    BY ONLY i \in Nat, <1>10, <2>1, LineGoesOn
  <2>. QED
    BY <1>11, <2>2
<1>13. PICK end \in BOOLEAN : end = (None(i) \/ Get(i) = "nl")
  OBVIOUS
<1>14. /\ end => e - p = i /\ e = q
       /\ ~end => ~None(i) /\ q \in 1..Len(t) /\ Get(i) = t[q] /\ t[q] # "nl" /\ e - p > i
  BY <1>9, <1>11, <1>12, <1>13
<1>15. CASE ~end /\ i = TokCap
  <2>1. Panic
    BY <1>3, <1>7, <1>13, <1>15 DEF scanLine
  <2>2. Part(t, f, p) = Nothing(0)
    BY <1>5, <1>10, <1>14, <1>15 DEF LineAt
  <2>. QED
    BY <1>1, <1>3, <2>1, <2>2, PanicKnows
<1>16. ASSUME ~(~end /\ i = TokCap)
       PROVE  /\ IF end THEN tokenDrop /\ Return
                        ELSE token' = Append(w, Get(i)) /\ Keep /\ ctl' = ctl
              /\ Step /\ compFn' = compFn
              /\ out' = out \o << >> /\ << >> \in Outputs
  BY <1>3, <1>7, <1>13, <1>16, Quiet DEF scanLine
<1>17. CASE end
  <2>1. tokenDrop /\ Return
    BY <1>16, <1>17
  <2>2. token' = << >> /\ head' + 1 = q
    BY <1>1, <1>3, <1>7, <1>11, <2>1, DropEnds
  <2>3. LineAt(t, p) = q
    <3>1. ~(e - p > TokCap)
      BY <1>7, <1>14, <1>17
    <3>. QED
      BY <1>10, <1>14, <1>17, <3>1 DEF LineAt
  <2>4. Part(t, f, p) = Items(<< >>, q)
    BY <1>5, <2>3 DEF Nothing
  <2>5. Delivers(t, q, << >>, Yields(f.at))
    BY <1>4 DEF Delivers
  <2>6. LeaveStep(t, f, p, q, << >>, << >>)
    BY ONLY <1>1, <1>3, <1>4, <1>11, <1>16, <1>17, <2>1, <2>2, <2>4, <2>5 DEF LeaveStep
  <2>. QED
    BY <2>6, LeaveKnows
<1>18. CASE ~end /\ i # TokCap
  <2>1. PICK v : v = Append(w, t[q])
    OBVIOUS
  <2>2. token' = v /\ ctl' = ctl /\ head' + 1 = p
    BY <1>3, <1>14, <1>16, <1>18, <2>1 DEF Keep
  <2>3. t[q] \in Char
    BY <1>3, <1>14, <1>18, ElementOfSeq
  <2>4. Len(v) = i + 1 /\ v[i + 1] = t[q] /\ \A j \in 1..i : v[j] = w[j]
    BY <1>6, <1>7, <2>1, <2>3, AppendProperties
  <2>5. \A j \in 1..Len(v) : v[j] # "nl"
    <3>1. \A j \in 1..i + 1 : j \in 1..i \/ j = i + 1
      BY <1>7
    <3>. QED
      BY <1>8, <1>14, <1>18, <2>4, <3>1
  <2>6. TokenFits(t, p, v, f.at)
    BY <1>3, <2>5, TokenFitsAt
  <2>7. Part(t, f, p) = Then(<< >>, Part(t, f, p))
    BY <1>5, ThenNone
  <2>8. StayStep(t, f, p, p, v, << >>)
    BY ONLY <1>1, <1>3, <1>4, <1>16, <1>18, <2>2, <2>6, <2>7 DEF StayStep
  <2>. QED
    BY <2>8, StayKnows
<1>. QED
  BY <1>15, <1>17, <1>18

(* What is compiled is dropped, from here on.                              *)
LEMMA _N_fslashMeans ==
  ASSUME ScannerInv, Understood, _N_fslash
  PROVE  MeaningInv'
<1>1. /\ phase = "compile" /\ Top.at = "fslash" /\ Step /\ compFn' = "fslash" /\ Keep
      /\ token' = token /\ CallThen("commented", "raw") /\ out' = out \o << >> /\ << >> \in Outputs
  BY Quiet DEF _N_fslash, At
<1>2. PICK t, f, p, w, fn : Now(t, f, p, w, fn)
  BY <1>1, NowRuns
<1>3. /\ t = text /\ f = Top /\ p = head + 1 /\ w = token /\ f.at = "fslash" /\ Runner(t, f, p, w, fn)
      /\ t \in Seq(Char) /\ f \in Frames /\ p \in 1..Len(t) + 1 /\ TokenFits(t, p, w, f.at)
  BY <1>1, <1>2 DEF Now
<1>4. PICK g, h : g = Moved(f, "commented") /\ h = Frame("raw")
  OBVIOUS
<1>5. "commented" \in Places /\ "raw" \in Places /\ "raw" \notin Compiling
  BY DEF Places, Others, Compiling, Sources, Chars
<1>6. /\ Runner(t, f, p, w, fn) /\ "commented" \in Places
      /\ f.at \notin Strings /\ Yields("commented") = Yields(f.at)
      /\ "commented" \in Compiling => f.cfn = "base"
  BY <1>3, <1>5 DEF Strings, Yields, Compiling, Sources, Chars
<1>7. Fits(g, f) /\ g.at = "commented" /\ g \in Frames
  BY ONLY <1>4, <1>6, GotoFits, Zenon
<1>8. Fits(h, h) /\ h.at = "raw" /\ h \in Frames
  BY <1>4, <1>5, CallFits
<1>9. /\ g.at \in Waiting /\ Yields(h.at) = Awaits(g.at) /\ Yields(h.at) = "token"
      /\ Runs(g) = "fslash"
  BY <1>7, <1>8 DEF Waiting, Yields, Awaits, Runs
<1>10. PICK a : a = Part(t, h, p)
  OBVIOUS
<1>11. /\ a = Nothing(TokenAt(t, p)) /\ TokenAt(t, p) \in Spots(t) /\ a.next = TokenAt(t, p)
       /\ Part(t, f, p) = Nothing(Skip(t)["element"][NonWhite(t, p)])
       /\ Skip(t)["element"][NonWhite(t, p)] \in Spots(t)
  BY <1>3, <1>8, <1>10, PartAt, NextsAreSpots, NothingWide
<1>12. Part(t, g, a.next) = Part(t, f, p)
  <2>1. PICK n : n = NonWhite(t, p)
    OBVIOUS
  <2>2. n \in 1..Len(t) + 1
    BY <1>3, <2>1, NonWhiteFacts
  <2>3. CASE n <= Len(t) /\ Len(Word(t, n)) > TokCap
    <3>1. TokenAt(t, p) = 0 /\ ~(n > Len(t))
      BY <1>3, <2>1, <2>2, <2>3, LenProperties DEF TokenAt
    <3>2. Skip(t)["element"][n] = 0
      BY <1>3, <2>2, <2>3, <3>1, SkipsAt DEF SkipElement
    <3>. QED
      BY <1>11, <2>1, <3>1, <3>2, PartStops
  <2>4. CASE ~(n <= Len(t) /\ Len(Word(t, n)) > TokCap)
    <3>1. TokenAt(t, p) = n
      BY <2>1, <2>4 DEF TokenAt
    <3>. QED
      BY <1>3, <1>7, <1>11, <2>1, <2>2, <3>1, PartAt
  <2>. QED
    BY <2>3, <2>4
<1>13. Part(t, f, p) = Then(<< >>, Then(a.out, Part(t, g, a.next)))
  BY <1>11, <1>12, NothingWide, ThenNothing
<1>14. TokenFits(t, p, w, h.at)
  BY <1>3, <1>8, TokenFitsAt DEF Plain
<1>15. head' + 1 = p /\ token' = w /\ compFn' = Runs(g)
       /\ (Yields(h.at) # "token" => h.cfn = Runs(g) /\ Runs(h) = h.cfn)
  BY <1>1, <1>3, <1>9 DEF Keep
<1>16. ctl' = Append([ctl EXCEPT ![Len(ctl)] = g], h)
  BY <1>1, <1>3, <1>4 DEF CallThen, Top, Moved
<1>. QED
  BY ONLY ScannerInv, Understood, <1>1, <1>3, <1>7, <1>8, <1>9, <1>10, <1>13, <1>14, <1>15, <1>16,
          CallKnows, Zenon

-----------------------------------------------------------------------------
(* A word or a block that is commented out.                                *)
LEMMA TokenThere ==
  ASSUME NEW t \in Seq(Char), NEW p, NEW w, IsToken(t, p, w)
  PROVE  /\ p \in 1..Len(t) /\ p \in 1..Len(t) + 1 /\ p + 1 \in 1..Len(t) + 1
         /\ ~(p > Len(t)) /\ ~(Len(Word(t, p)) > TokCap) /\ p \notin {0, Len(t) + 1}
         /\ Word(t, p) = w /\ NonWhite(t, p) = p /\ t[p] = w[1]
         /\ \A c : w = <<c>> => t[p] = c
         /\ \A c \in Single : t[p] = c <=> w = <<c>>
<1>1. PICK l \in Nat, n \in Nat : l = Len(t) /\ n = Len(w)
  BY LenProperties, TokenEnds
<1>2. p \in 1..l /\ Word(t, p) = w /\ n <= TokCap /\ TokCap \in Nat
  BY <1>1, CapAssumption DEF IsToken
<1>3. /\ t[p] = w[1] /\ NonWhite(t, p) = p
      /\ \A c : w = <<c>> => t[p] = c
      /\ \A c \in Single : t[p] = c <=> w = <<c>>
  BY TokenEnds, TokenIsNextWord
<1>. QED
  BY <1>1, <1>2, <1>3

LEMMA _N_fslash_tokenMeans ==
  ASSUME ScannerInv, Understood, _N_fslash_token
  PROVE  MeaningInv'
<1>1. /\ phase = "compile" /\ Top.at = "commented" /\ Step /\ compFn' = compFn
      /\ out' = out \o << >> /\ << >> \in Outputs
  BY Quiet DEF _N_fslash_token, At
<1>2. PICK t, f, p, w, fn : Now(t, f, p, w, fn)
  BY <1>1, NowRuns
<1>3. /\ t = text /\ f = Top /\ p = head + 1 /\ w = token /\ fn = compFn /\ f.at = "commented"
      /\ t \in Seq(Char) /\ f \in Frames /\ p \in 1..Len(t) + 1 /\ TokenFits(t, p, w, f.at)
      /\ (Yields(f.at) # "token" => fn = Runs(f))
  BY <1>1, <1>2 DEF Now
<1>4. /\ fn = "fslash" /\ MayCall(f, "restore", "single", compFn) /\ MayGo(f, "restore")
      /\ "restore" \in Places /\ "single" \in Places
  BY <1>3, MayCallAre, MayGoAre DEF Yields, Runs, Places, Others
<1>5. /\ Delivers(t, p, w, "token") /\ Part(t, f, p) = Nothing(SkipElement(t, Skip(t), p))
      /\ SkipElement(t, Skip(t), p) \in Spots(t)
  <2>1. Skip(t)["element"][p] \in Spots(t)
    BY <1>3, NextsAreSpots DEF Commented
  <2>. QED
    BY <1>3, <2>1, TokenFitsAt, PartAt, SkipsAt
<1>6. PICK g : g = Moved(f, "restore")
  OBVIOUS
<1>7. g \in Frames /\ g.at = "restore"
  BY <1>3, <1>4, <1>6, MovedFrame
<1>8. \A m \in Spots(t) : m = 0 \/ m \in 1..Len(t) + 1 => Part(t, g, m) = Nothing(m)
  BY <1>3, <1>7, PartAt, PartStops
<1>9. CASE w = <<"(">>
  <2>1. /\ Keep /\ token' = w /\ CallThen("restore", "single") /\ head' + 1 = p
    BY <1>3, <1>9 DEF _N_fslash_token, Keep
  <2>2. IsToken(t, p, w) /\ w # <<"\\">>
    BY <1>5, <1>9 DEF Delivers
  <2>3. p \in 1..Len(t) /\ NextWord(t, p) = p /\ t[p] = "("
    BY <1>3, <1>9, <2>2, TokenIsNextWord, TokenEnds
  <2>4. /\ ~(p > Len(t)) /\ ~(Len(Word(t, p)) > TokCap) /\ p \notin {0, Len(t) + 1}
    BY <1>3, <2>2, TokenThere
  <2>5. PICK h, a, m : h = Frame("single") /\ a = Part(t, h, p) /\ m = Skip(t)["block"][p + 1]
    OBVIOUS
  <2>6. h \in Frames /\ h.at = "single" /\ h.cfn = "fslash"
    BY <1>3, <1>4, <2>5, FrameIsFrame DEF ScannerInv, Frame
  <2>7. SkipElement(t, Skip(t), p) = m /\ Opened(t, p) = m
    BY <2>3, <2>4, <2>5 DEF SkipElement, Opened
  <2>8. a = Nothing(m) /\ a.next = m /\ Part(t, f, p) = Nothing(m) /\ m \in Spots(t)
    BY <1>3, <1>5, <2>5, <2>6, <2>7, PartAt, NothingWide
  <2>9. m = 0 \/ m \in 1..Len(t) + 1
    <3>1. p + 1 \in Positions(t) /\ Positions(t) = 0..Len(t) + 1 /\ Len(t) \in Nat
      BY <1>3, <2>3, PositionsAre
    <3>2. m \in Positions(t)
      BY <1>3, <2>5, <3>1, SkipAlso DEF Commented
    <3>. QED
      BY <3>1, <3>2
  <2>10. Part(t, f, p) = Then(<< >>, Then(a.out, Part(t, g, a.next)))
    BY <1>8, <2>8, <2>9, NothingWide, ThenNothing
  <2>11. TokenFits(t, p, w, "single")
    BY <1>5, TokenFitsAt DEF Plain, Delivers
  <2>12. CallStep(t, f, p, "restore", "single", g, h, a, p, w, << >>)
    BY ONLY <1>1, <1>3, <1>4, <1>6, <2>1, <2>5, <2>10, <2>11 DEF CallStep
  <2>. QED
    BY <2>12, CallToKnows
<1>10. CASE w # <<"(">>
  <2>1. tokenDrop /\ Goto("restore")
    BY <1>3, <1>10 DEF _N_fslash_token
  <2>2. PICK q : q = p + Len(w)
    OBVIOUS
  <2>3. token' = << >> /\ head' + 1 = q
    BY <1>1, <1>3, <2>1, <2>2, DropEnds
  <2>4. q \in 1..Len(t) + 1 /\ SkipElement(t, Skip(t), p) = q
    <3>1. CASE w = << >> /\ p = Len(t) + 1
      <4>1. q = p /\ p > Len(t)
        BY <1>3, <2>2, <3>1, LenProperties
      <4>. QED
        BY <1>3, <4>1 DEF SkipElement
    <3>2. CASE w # << >> /\ IsToken(t, p, w)
      <4>1. "(" \in Single
        BY DEF Single
      <4>2. q = WordEnd(t, p) + 1 /\ q \in 1..Len(t) + 1
        BY <1>3, <2>2, <3>2, TokenEnds
      <4>3. ~(p > Len(t)) /\ ~(Len(Word(t, p)) > TokCap) /\ (t[p] = "(" <=> w = <<"(">>)
        BY <1>3, <3>2, <4>1, TokenThere
      <4>. QED
        BY <1>10, <4>2, <4>3 DEF SkipElement
    <3>3. (w = << >> /\ p = Len(t) + 1) \/ (w # << >> /\ IsToken(t, p, w))
      BY <1>3, <1>5, DeliveredIs
    <3>. QED
      BY <3>1, <3>2, <3>3
  <2>5. Part(t, g, q) = Part(t, f, p) /\ Part(t, f, p) \in Wide(t)
    BY <1>3, <1>5, <1>8, <2>4, NothingWide
  <2>6. Part(t, f, p) = Then(<< >>, Part(t, g, q))
    BY <2>5, ThenNone
  <2>7. TokenFits(t, q, << >>, "restore")
    BY TokenFitsAt DEF Plain, Delivers
  <2>8. GotoStep(t, f, p, "restore", g, q, << >>, << >>)
    BY ONLY <1>1, <1>3, <1>4, <1>6, <2>1, <2>3, <2>4, <2>6, <2>7 DEF GotoStep
  <2>. QED
    BY <2>8, GotoKnows
<1>. QED
  BY <1>9, <1>10

LEMMA _N_fslash_restoreMeans ==
  ASSUME ScannerInv, Understood, _N_fslash_restore
  PROVE  MeaningInv'
<1>1. /\ phase = "compile" /\ Top.at = "restore" /\ Step /\ Keep /\ Return /\ token' = token
      /\ compFn' = Top.cfn /\ out' = out \o << >> /\ << >> \in Outputs
  BY Quiet DEF _N_fslash_restore, At
<1>2. PICK t, f, p, w, fn : Now(t, f, p, w, fn)
  BY <1>1, NowRuns
<1>3. /\ t = text /\ f = Top /\ p = head + 1 /\ w = token /\ f.at = "restore"
      /\ t \in Seq(Char) /\ f \in Frames /\ p \in 1..Len(t) + 1 /\ TokenFits(t, p, w, f.at)
  BY <1>1, <1>2 DEF Now
<1>4. Yields(f.at) = "part" /\ f.at \notin Sources
  BY <1>3 DEF Yields, Sources
<1>5. Delivers(t, p, w, Yields(f.at))
  BY <1>3, <1>4, TokenFitsAt DEF Plain
<1>6. Part(t, f, p) = Items(<< >>, p)
  BY <1>3, PartAt DEF Nothing
<1>7. head' + 1 = p /\ token' = w
      /\ compFn' = IF Yields(f.at) = "token" THEN compFn ELSE f.cfn
  BY <1>1, <1>3, <1>4 DEF Keep
<1>. QED
  BY ONLY ScannerInv, Understood, <1>1, <1>3, <1>4, <1>5, <1>6, <1>7, ReturnKnows, Zenon

-----------------------------------------------------------------------------
(* What is compiled at a position, and at the next word, which is where    *)
(* scan leaves the head.                                                   *)
LEMMA CompilesAt ==
  ASSUME NEW t \in Seq(Char), NEW p \in 1..Len(t) + 1, NEW c, c = Compiles(t)
  PROVE  /\ c["token"][p] = TokenMeant(t, c, p) /\ c["block"][p] = BlockMeant(t, c, p)
         /\ c["all"][p] = AllMeant(t, c, p)
         /\ \A w \in {"blank", "string"} : c[w][p] = StringMeant(t, c, w, p)
         /\ \A w \in Meant : c[w][0] = Nothing(0) /\ c[w][p] \in Wide(t) /\ c[w][p].next \in Positions(t)
<1>1. p \in Positions(t) /\ p # 0 /\ 0 \in Positions(t)
  BY SpotsAre, PositionsAre
<1>2. \A w \in Meant : /\ c[w][p] = MeantAt(t, c, w, p) /\ c[w][0] = MeantAt(t, c, w, 0)
                       /\ c[w][p] \in Wide(t) /\ c[w][p] \in Parts(t)
  BY <1>1, CompilesAlso
<1>3. \A w \in Meant : c[w][p].next \in Positions(t)
  BY <1>2 DEF Parts
<1>4. /\ MeantAt(t, c, "token", p) = TokenMeant(t, c, p)
      /\ MeantAt(t, c, "block", p) = BlockMeant(t, c, p)
      /\ MeantAt(t, c, "all", p) = AllMeant(t, c, p)
      /\ \A w \in {"blank", "string"} : MeantAt(t, c, w, p) = StringMeant(t, c, w, p)
      /\ \A w \in Meant : MeantAt(t, c, w, 0) = Nothing(0)
  BY <1>1 DEF MeantAt, Nothing
<1>5. Meant = {"token", "block", "all", "blank", "string"}
  BY DEF Meant
<1>. QED
  BY <1>2, <1>3, <1>4, <1>5

LEMMA NextWordCases ==
  ASSUME NEW t \in Seq(Char), NEW p \in 1..Len(t) + 1, NEW n, n = NextWord(t, p)
  PROVE  /\ n \in Positions(t) /\ n \in Spots(t)
         /\ n = 0 \/ (n \in 1..Len(t) + 1 /\ NextWord(t, n) = n)
<1>1. p \in Positions(t) /\ Positions(t) = 0..Len(t) + 1 /\ Len(t) \in Nat
  BY SpotsAre, PositionsAre
<1>2. n \in Positions(t) /\ NextWord(t, n) = n
  BY <1>1, NextWordFacts, NextWordAgain
<1>. QED
  BY <1>1, <1>2, SpotsAre

LEMMA AtNextWord ==
  ASSUME NEW t \in Seq(Char), NEW p \in 1..Len(t) + 1, NEW n, n = NextWord(t, p),
         NEW c, c = Compiles(t), NEW s, s = Skip(t)
  PROVE  n \in 1..Len(t) + 1 =>
              /\ c["token"][n] = c["token"][p] /\ c["block"][n] = c["block"][p]
              /\ While(t, c, n) = While(t, c, p) /\ s["block"][n] = s["block"][p]
              /\ Opened(t, n) = Opened(t, p)
<1>1. ASSUME n \in 1..Len(t) + 1
      PROVE  /\ c["token"][n] = c["token"][p] /\ c["block"][n] = c["block"][p]
             /\ While(t, c, n) = While(t, c, p) /\ s["block"][n] = s["block"][p]
             /\ Opened(t, n) = Opened(t, p)
  <2>1. NextWord(t, n) = n /\ n # 0
    BY <1>1, NextWordCases
  <2>2. c["token"][n] = TokenMeant(t, c, n) /\ c["token"][p] = TokenMeant(t, c, p)
    BY <1>1, CompilesAt
  <2>3. c["token"][n] = c["token"][p]
    BY <2>1, <2>2 DEF TokenMeant
  <2>4. c["block"][n] = BlockMeant(t, c, n) /\ c["block"][p] = BlockMeant(t, c, p)
    BY <1>1, CompilesAt
  <2>5. c["block"][n] = c["block"][p]
    BY <2>1, <2>3, <2>4 DEF BlockMeant
  <2>6. s["block"][n] = SkipBlock(t, s, n) /\ s["block"][p] = SkipBlock(t, s, p)
    BY <1>1, SkipsAt
  <2>7. s["word"][n] = n /\ s["word"][p] = n
    BY <2>1 DEF NextWord
  <2>8. s["block"][n] = s["block"][p]
    BY <2>6, <2>7 DEF SkipBlock
  <2>9. While(t, c, n) = While(t, c, p) /\ Opened(t, n) = Opened(t, p)
    BY <2>1 DEF While, Opened
  <2>. QED
    BY <2>3, <2>5, <2>8, <2>9
<1>. QED
  BY <1>1

LEMMA AtNoWord ==
  ASSUME NEW t \in Seq(Char), NEW p \in 1..Len(t) + 1, NextWord(t, p) = 0
  PROVE  /\ Compiles(t)["token"][p] = Nothing(0) /\ Compiles(t)["block"][p] = Nothing(0)
         /\ While(t, Compiles(t), p) = Nothing(0) /\ Skip(t)["block"][p] = 0
         /\ Opened(t, p) = Wrong(t)
<1>1. PICK n, c, s : n = NextWord(t, p) /\ c = Compiles(t) /\ s = Skip(t)
  OBVIOUS
<1>2. n = 0
  BY <1>1
<1>3. /\ c["token"][p] = Nothing(0) /\ c["block"][p] = Nothing(0)
      /\ While(t, c, p) = Nothing(0) /\ s["block"][p] = 0
      /\ Opened(t, p) = Wrong(t)
  <2>1. c["token"][p] = TokenMeant(t, c, p) /\ c["block"][p] = BlockMeant(t, c, p)
        /\ s["block"][p] = SkipBlock(t, s, p) /\ s["word"][p] = 0
    BY <1>1, <1>2, CompilesAt, SkipsAt DEF NextWord
  <2>2. c["token"][p] = Nothing(0) /\ c["block"][p] = Nothing(0)
    BY <1>1, <1>2, <2>1 DEF TokenMeant, BlockMeant, Nothing
  <2>3. s["block"][p] = 0
    BY <2>1 DEF SkipBlock
  <2>4. While(t, c, p) = Nothing(0) /\ Opened(t, p) = Wrong(t)
    BY <1>1, <1>2 DEF While, Opened, Nothing
  <2>. QED
    BY <2>2, <2>3, <2>4
<1>. QED
  BY <1>1, <1>3

(* A function that calls scan, and goes on with the next word as g does.   *)
Resumes(t, g, p, r) == \A n : n = NextWord(t, p) => Part(t, g, n) = r

LEMMA ScansNextWord ==
  ASSUME ScannerInv, NEW t \in Seq(Char), NEW p \in 1..Len(t) + 1,
         NEW f, NEW r, r = Part(t, f, p), r \in Wide(t), NEW g, Resumes(t, g, p, r),
         NEW h, h = Frame("scan"), NEW a, a = Part(t, h, p)
  PROVE  Part(t, f, p) = Then(<< >>, Then(a.out, Part(t, g, a.next)))
<1>1. PICK n : n = NextWord(t, p)
  OBVIOUS
<1>2. h \in Frames /\ h.at = "scan"
  <2>1. "scan" \in Places
    BY DEF Places, Others
  <2>. QED
    BY <2>1, FrameIsFrame DEF ScannerInv
<1>3. n \in Spots(t)
  BY <1>1, NextWordCases
<1>4. a = Nothing(n)
  BY <1>1, <1>2, PartAt
<1>5. a.next = n
  BY <1>3, <1>4, NothingWide
<1>6. Part(t, g, n) = r
  BY <1>1 DEF Resumes
<1>7. Then(<< >>, Then(a.out, r)) = r
  BY <1>3, <1>4, ThenNothing
<1>. QED
  BY <1>5, <1>6, <1>7

-----------------------------------------------------------------------------
(* The steps of the handlers.                                              *)

(* Where it is compiled, nothing is dropped.                               *)
LEMMA NowCompiles ==
  ASSUME ScannerInv, Understood, phase = "compile",
         NEW t, NEW f, NEW p, NEW w, NEW fn, Now(t, f, p, w, fn)
  PROVE  /\ f.at \in Compiling => f.cfn = "base" /\ fn = "base" /\ compFn = "base"
                                  /\ compFnAt = "baseCompFn"
         /\ Yields(f.at) # "token" /\ f.at \notin Commenting => fn = f.cfn
         /\ compFnAt \in {"baseCompFn", "fslash"} /\ compFnAt \in Places
         /\ compFnAt = "baseCompFn" <=> fn = "base"
         /\ fn \in CompFns /\ f.cfn \in CompFns
<1>1. fn = compFn /\ Runner(t, f, p, w, fn) /\ (Yields(f.at) # "token" => fn = Runs(f))
  BY DEF Now
<1>2. /\ f.at \in Compiling => f.cfn = "base"
      /\ f.cfn \in CompFns /\ fn \in CompFns
  BY <1>1 DEF Runner, ScannerInv
<1>3. f.at \in Compiling => Yields(f.at) # "token" /\ f.at \notin Commenting
  BY DEF Compiling, Yields, Commenting, Sources, Chars
<1>4. Yields(f.at) # "token" /\ f.at \notin Commenting => fn = f.cfn
  BY <1>1 DEF Runs, Commenting
<1>5. /\ compFnAt \in {"baseCompFn", "fslash"} /\ compFnAt \in Places
      /\ compFnAt = "baseCompFn" <=> fn = "base"
  BY <1>1, <1>2 DEF compFnAt, CompFns, Places, Others
<1>. QED
  BY <1>1, <1>2, <1>3, <1>4, <1>5

LEMMA compileSrcMeans ==
  ASSUME ScannerInv, Understood, compileSrc
  PROVE  MeaningInv'
<1>1. /\ phase = "compile" /\ Top.at = "src" /\ Step /\ compFn' = compFn /\ Keep /\ token' = token
      /\ CallThen("srcEof", compFnAt) /\ out' = out \o << >> /\ << >> \in Outputs
  BY Quiet DEF compileSrc, At
<1>2. PICK t, f, p, w, fn : Now(t, f, p, w, fn)
  BY <1>1, NowRuns
<1>3. /\ t = text /\ f = Top /\ p = head + 1 /\ w = token /\ fn = compFn /\ f.at = "src"
      /\ t \in Seq(Char) /\ f \in Frames /\ p \in 1..Len(t) + 1 /\ TokenFits(t, p, w, f.at)
  BY <1>1, <1>2 DEF Now
<1>4. f.cfn = "base" /\ fn = "base" /\ compFnAt = "baseCompFn"
  <2>1. f.at \in Compiling
    BY <1>3 DEF Compiling, Sources
  <2>. QED
    BY <1>1, <1>2, <2>1, NowCompiles
<1>5. MayCall(f, "srcEof", "baseCompFn", compFn) /\ "srcEof" \in Places /\ "baseCompFn" \in Places
      /\ "srcEof" \in Sources /\ f.at \in Sources
  BY <1>3, <1>4, MayCallAre DEF Places, Others, Sources
<1>6. PICK g, h, c : g = Moved(f, "srcEof") /\ h = Frame("baseCompFn") /\ c = Compiles(t)
  OBVIOUS
<1>7. g \in Frames /\ g.at = "srcEof" /\ h \in Frames /\ h.at = "baseCompFn"
  BY <1>3, <1>5, <1>6, MovedFrame, FrameIsFrame DEF ScannerInv
<1>8. PICK a, m : a = Part(t, h, p) /\ m = a.next
  OBVIOUS
<1>9. a = c["token"][p] /\ Part(t, f, p) = AllMeant(t, c, p) /\ Part(t, f, p) = c["all"][p]
  BY <1>3, <1>5, <1>6, <1>7, <1>8, PartAt, CompilesAt
<1>10. a \in Wide(t) /\ m \in Positions(t) /\ c["all"][p] \in Wide(t)
  BY <1>3, <1>6, <1>8, <1>9, CompilesAt DEF Meant
<1>11. Part(t, g, m) = c["all"][m]
  <2>1. CASE m = 0
    <3>1. c["all"][0] = Nothing(0)
      BY <1>3, <1>6, CompilesAt DEF Meant
    <3>. QED
      BY <2>1, <3>1, PartStops
  <2>2. CASE m \in 1..Len(t) + 1
    BY <1>3, <1>5, <1>6, <1>7, <2>2, PartAt
  <2>3. m = 0 \/ m \in 1..Len(t) + 1
    BY <1>3, <1>10, PositionsAre
  <2>. QED
    BY <2>1, <2>2, <2>3
<1>12. Part(t, f, p) = Then(a.out, c["all"][m])
  <2>1. CASE p > Len(t)
    <3>1. p = Len(t) + 1 /\ NonWhite(t, p) = p
      BY <1>3, <2>1, NonWhiteIs, LenProperties
    <3>2. NextWord(t, p) = p
      BY <1>3, <2>1, <3>1, NextWordIs
    <3>3. a = Nothing(p)
      <4>1. c["token"][p] = TokenMeant(t, c, p)
        BY <1>3, <1>6, CompilesAt
      <4>. QED
        BY <1>9, <3>1, <3>2, <4>1 DEF TokenMeant, Nothing
    <3>4. a.out = << >> /\ m = p
      BY <1>3, <1>8, <3>3, NothingWide, SpotsAre
    <3>. QED
      BY <1>9, <1>10, <3>4, WideThen, OutputsAre
  <2>2. CASE ~(p > Len(t))
    BY <1>8, <1>9, <2>2 DEF AllMeant
  <2>. QED
    BY <2>1, <2>2
<1>13. Part(t, f, p) = Then(<< >>, Then(a.out, Part(t, g, a.next)))
  <2>1. Part(t, f, p) \in Wide(t)
    BY <1>9, <1>10
  <2>. QED
    BY <1>8, <1>11, <1>12, <2>1, WideThen, OutputsAre
<1>14. TokenFits(t, p, w, "baseCompFn")
  BY <1>3, TokenFitsAt DEF Plain
<1>15. head' + 1 = p /\ token' = w /\ CallThen("srcEof", "baseCompFn")
  BY <1>1, <1>3, <1>4 DEF Keep
<1>16. CallStep(t, f, p, "srcEof", "baseCompFn", g, h, a, p, w, << >>)
  BY ONLY <1>1, <1>3, <1>5, <1>6, <1>8, <1>13, <1>14, <1>15 DEF CallStep
<1>. QED
  BY <1>16, CallToKnows

LEMMA compileSrc_eofMeans ==
  ASSUME ScannerInv, Understood, compileSrc_eof
  PROVE  MeaningInv'
<1>1. /\ phase = "compile" /\ Top.at = "srcEof" /\ Keep /\ token' = token /\ compFn' = compFn
      /\ out' = out /\ out' = out \o << >> /\ << >> \in Outputs /\ text' = text
      /\ UNCHANGED <<source, inputs>>
  BY Quiet DEF compileSrc_eof, At, source
<1>2. PICK t, f, p, w, fn : Now(t, f, p, w, fn)
  BY <1>1, NowRuns
<1>3. /\ t = text /\ f = Top /\ p = head + 1 /\ w = token /\ fn = compFn /\ f.at = "srcEof"
      /\ t \in Seq(Char) /\ f \in Frames /\ p \in 1..Len(t) + 1 /\ TokenFits(t, p, w, f.at)
      /\ Part(t, f, p) \in Wide(t)
  BY <1>1, <1>2 DEF Now
<1>4. f.cfn = "base" /\ compFn = "base"
  <2>1. f.at \in Compiling
    BY <1>3 DEF Compiling, Sources
  <2>. QED
    BY <1>1, <1>2, <2>1, NowCompiles
<1>5. f.at \in Sources /\ "src" \in Sources /\ "src" \in Places /\ MayGo(f, "src")
  BY <1>3, <1>4, MayGoAre DEF Sources, Places
<1>6. Part(t, f, p) = Compiles(t)["all"][p]
  BY <1>3, <1>5, PartAt
<1>7. CASE Eof
  <2>1. phase' = "ready" /\ verdict' = "ok"
    BY <1>7 DEF compileSrc_eof
  <2>2. p = Len(t) + 1 /\ p > Len(t) /\ Len(t) \in Nat
    <3>1. 0 \in Nat /\ Len(t) \in Nat
      BY <1>3, LenProperties
    <3>2. p = Len(t) + 1
      BY <1>1, <1>3, <1>7, <3>1, RingIsText
    <3>. QED
      BY <3>1, <3>2
  <2>3. Part(t, f, p) = Nothing(p)
    <3>1. Compiles(t)["all"][p] = AllMeant(t, Compiles(t), p)
      BY <1>3, CompilesAt
    <3>. QED
      BY <1>6, <2>2, <3>1 DEF AllMeant, Nothing
  <2>4. PICK k, o : k = ctl /\ o = out
    OBVIOUS
  <2>5. Follows(t, k, o, p) /\ Active(k) /\ f = k[Len(k)]
    BY <1>1, <1>3, <2>4 DEF Understood, Understands, ScannerInv, Top
  <2>6. Len(k) = 1
    <3>1. PICK n \in Nat : n = Len(k) /\ n > 0
      BY <2>5, LenProperties DEF Active
    <3>2. n \notin 2..n
      BY <1>5, <2>5, <3>1 DEF Active
    <3>. QED
      BY <3>1, <3>2
  <2>7. p \in Positions(t)
    BY <1>3, SpotsAre
  <2>8. Compiled(t) = Items(o, p)
    BY <2>3, <2>5, <2>6, <2>7, FollowsEnd
  <2>9. Meaning(t).out = o /\ Meaning(t).verdict = "ok"
    <3>1. p \in Nat /\ p # 0
      BY <2>2
    <3>. QED
      BY <2>8, <3>1, EndMeans
  <2>. QED
    BY <1>1, <1>3, <1>4, <2>1, <2>4, <2>9 DEF MeaningInv
<1>8. CASE ~Eof
  <2>1. Goto("src") /\ Step /\ head' + 1 = p /\ token' = w
    BY <1>1, <1>3, <1>8 DEF compileSrc_eof, Step, Keep
  <2>2. PICK g : g = Moved(f, "src")
    OBVIOUS
  <2>3. Part(t, g, p) = Part(t, f, p)
    BY <1>3, <1>5, <1>6, <2>2, MovedFrame, PartAt
  <2>4. Part(t, f, p) = Then(<< >>, Part(t, g, p))
    BY <1>3, <2>3, ThenNone
  <2>5. TokenFits(t, p, w, "src")
    BY <1>3, TokenFitsAt DEF Plain
  <2>6. GotoStep(t, f, p, "src", g, p, w, << >>)
    BY ONLY <1>1, <1>3, <1>5, <2>1, <2>2, <2>4, <2>5 DEF GotoStep
  <2>. QED
    BY <2>6, GotoKnows
<1>. QED
  BY <1>7, <1>8

-----------------------------------------------------------------------------
(* baseCompFn, single, N_paren and N_blk call the scanner for a word.      *)
LEMMA baseCompFnMeans ==
  ASSUME ScannerInv, Understood, baseCompFn
  PROVE  MeaningInv'
<1>1. /\ phase = "compile" /\ Top.at = "baseCompFn" /\ Step /\ compFn' = compFn /\ Keep
      /\ token' = token /\ out' = out \o << >> /\ << >> \in Outputs
      /\ IF Eof THEN Return ELSE Goto("single")
  BY Quiet DEF baseCompFn, At
<1>2. PICK t, f, p, w, fn : Now(t, f, p, w, fn)
  BY <1>1, NowRuns
<1>3. /\ t = text /\ f = Top /\ p = head + 1 /\ w = token /\ fn = compFn /\ f.at = "baseCompFn"
      /\ t \in Seq(Char) /\ f \in Frames /\ p \in 1..Len(t) + 1 /\ TokenFits(t, p, w, f.at)
      /\ Part(t, f, p) \in Wide(t)
  BY <1>1, <1>2 DEF Now
<1>4. f.cfn = "base"
  <2>1. f.at \in Compiling
    BY <1>3 DEF Compiling
  <2>. QED
    BY <1>1, <1>2, <2>1, NowCompiles
<1>5. /\ f.at \notin Sources /\ f.at \notin Commenting /\ Yields(f.at) = "part"
      /\ "single" \in Places /\ MayGo(f, "single")
  BY <1>3, MayGoAre DEF Sources, Commenting, Yields, Places, Others
<1>6. PICK c : c = Compiles(t)
  OBVIOUS
<1>7. Part(t, f, p) = c["token"][p]
  BY <1>3, <1>6, PartAt
<1>8. head' + 1 = p /\ token' = w /\ Delivers(t, p, w, "part")
  BY <1>1, <1>3, TokenFitsAt DEF Keep, Plain
<1>9. CASE Eof
  <2>1. p = Len(t) + 1 /\ p > Len(t)
    <3>1. 0 \in Nat /\ Len(t) \in Nat
      BY <1>3, LenProperties
    <3>2. p = Len(t) + 1
      BY <1>1, <1>3, <1>9, <3>1, RingIsText
    <3>. QED
      BY <3>1, <3>2
  <2>2. NextWord(t, p) = p
    <3>1. NonWhite(t, p) = p
      BY <1>3, <2>1, NonWhiteIs
    <3>. QED
      BY <1>3, <2>1, <3>1, NextWordIs
  <2>3. Part(t, f, p) = Items(<< >>, p)
    <3>1. c["token"][p] = TokenMeant(t, c, p)
      BY <1>3, <1>6, CompilesAt
    <3>. QED
      BY <1>7, <2>1, <2>2, <3>1 DEF TokenMeant
  <2>4. Return
    BY <1>1, <1>9
  <2>5. LeaveStep(t, f, p, p, w, << >>)
    BY ONLY <1>1, <1>3, <1>5, <1>8, <2>3, <2>4 DEF LeaveStep
  <2>. QED
    BY <2>5, LeaveKnows
<1>10. CASE ~Eof
  <2>1. Goto("single")
    BY <1>1, <1>10
  <2>2. PICK g : g = Moved(f, "single")
    OBVIOUS
  <2>3. Part(t, g, p) = Part(t, f, p)
    BY <1>3, <1>4, <1>5, <1>6, <1>7, <2>2, MovedFrame, PartAt
  <2>4. Part(t, f, p) = Then(<< >>, Part(t, g, p))
    BY <1>3, <2>3, ThenNone
  <2>5. TokenFits(t, p, w, "single")
    BY <1>8, TokenFitsAt DEF Plain
  <2>6. GotoStep(t, f, p, "single", g, p, w, << >>)
    BY ONLY <1>1, <1>3, <1>5, <1>8, <2>1, <2>2, <2>4, <2>5 DEF GotoStep
  <2>. QED
    BY <2>6, GotoKnows
<1>. QED
  BY <1>9, <1>10

(* What scan is called for: single, N_paren and N_blk.                     *)
LEMMA ScanCallMeans ==
  ASSUME ScannerInv, Understood, phase = "compile", Step, compFn' = compFn, Keep, token' = token,
         out' = out, NEW at, CallThen(at, "scan"),
         NEW t, NEW f, NEW p, NEW w, NEW fn, Now(t, f, p, w, fn), f.at \in Plain,
         MayCall(f, at, "scan", compFn), NEW g, g = Moved(f, at),
         \A n : n = NextWord(t, p) => Part(t, g, n) = Part(t, f, p)
  PROVE  MeaningInv'
<1>1. /\ t = text /\ f = Top /\ p = head + 1 /\ w = token /\ fn = compFn
      /\ t \in Seq(Char) /\ f \in Frames /\ p \in 1..Len(t) + 1 /\ TokenFits(t, p, w, f.at)
      /\ Part(t, f, p) \in Wide(t)
  BY DEF Now
<1>2. PICK h, a, r : h = Frame("scan") /\ a = Part(t, h, p) /\ r = Part(t, f, p)
  OBVIOUS
<1>3. r \in Wide(t) /\ Resumes(t, g, p, r)
  BY <1>1, <1>2 DEF Resumes
<1>4. Part(t, f, p) = Then(<< >>, Then(a.out, Part(t, g, a.next)))
  BY ONLY ScannerInv, <1>1, <1>2, <1>3, ScansNextWord
<1>5. TokenFits(t, p, w, "scan")
  BY <1>1, TokenFitsAt DEF Plain
<1>6. head' + 1 = p /\ token' = w /\ out' = out \o << >> /\ << >> \in Outputs
  BY <1>1, Quiet DEF Keep
<1>7. CallStep(t, f, p, at, "scan", g, h, a, p, w, << >>)
  BY <1>1, <1>2, <1>4, <1>5, <1>6 DEF CallStep
<1>. QED
  BY <1>7, CallToKnows

LEMMA singleMeans ==
  ASSUME ScannerInv, Understood, single
  PROVE  MeaningInv'
<1>1. /\ phase = "compile" /\ Top.at = "single" /\ Step /\ compFn' = compFn /\ Keep
      /\ token' = token /\ out' = out /\ CallThen("singleToken", "scan")
  BY DEF single, At
<1>2. PICK t, f, p, w, fn : Now(t, f, p, w, fn)
  BY <1>1, NowRuns
<1>3. /\ f = Top /\ f.at = "single" /\ t \in Seq(Char) /\ f \in Frames /\ p \in 1..Len(t) + 1
      /\ Part(t, f, p) \in Wide(t) /\ Part(t, f, p).next # Wrong(t)
  BY <1>1, <1>2 DEF Now
<1>4. MayCall(f, "singleToken", "scan", compFn) /\ f.at \in Plain /\ "singleToken" \in Places
  BY <1>3, MayCallAre DEF Plain, Places, Others
<1>5. PICK g, c, n : g = Moved(f, "singleToken") /\ c = Compiles(t) /\ n = NextWord(t, p)
  OBVIOUS
<1>6. g \in Frames /\ g.at = "singleToken" /\ g.cfn = f.cfn
  BY <1>3, <1>4, <1>5, MovedFrame
<1>7. Part(t, f, p) = IF f.cfn = "base" THEN c["token"][p] ELSE Nothing(Opened(t, p))
  BY <1>3, <1>5, PartAt
<1>8. CASE n \in 1..Len(t) + 1
  <2>1. Part(t, g, n) = IF g.cfn = "base" THEN c["token"][n] ELSE Nothing(Opened(t, n))
    BY <1>3, <1>5, <1>6, <1>8, PartAt
  <2>2. c["token"][n] = c["token"][p] /\ Opened(t, n) = Opened(t, p)
    BY <1>3, <1>5, <1>8, AtNextWord
  <2>3. Part(t, g, n) = Part(t, f, p)
    BY <1>6, <1>7, <2>1, <2>2
  <2>. QED
    BY <1>1, <1>2, <1>4, <1>5, <2>3, ScanCallMeans
<1>9. CASE n = 0
  <2>1. c["token"][p] = Nothing(0) /\ Opened(t, p) = Wrong(t)
    BY <1>3, <1>5, <1>9, AtNoWord
  <2>2. Nothing(Wrong(t)).next = Wrong(t)
    BY <1>3, NothingWide, SpotsAre
  <2>3. Part(t, f, p) = Nothing(0)
    BY <1>3, <1>7, <2>1, <2>2
  <2>4. Part(t, g, n) = Part(t, f, p)
    BY <1>9, <2>3, PartStops
  <2>. QED
    BY <1>1, <1>2, <1>4, <1>5, <2>4, ScanCallMeans
<1>10. n = 0 \/ n \in 1..Len(t) + 1
  BY <1>3, <1>5, NextWordCases
<1>. QED
  BY <1>8, <1>9, <1>10

LEMMA N_parenMeans ==
  ASSUME ScannerInv, Understood, N_paren
  PROVE  MeaningInv'
<1>1. /\ phase = "compile" /\ Top.at = "paren" /\ Step /\ compFn' = compFn /\ Keep
      /\ token' = token /\ out' = out /\ CallThen("parenToken", "scan")
  BY DEF N_paren, At
<1>2. PICK t, f, p, w, fn : Now(t, f, p, w, fn)
  BY <1>1, NowRuns
<1>3. /\ f = Top /\ f.at = "paren" /\ t \in Seq(Char) /\ f \in Frames /\ p \in 1..Len(t) + 1
  BY <1>1, <1>2 DEF Now
<1>4. MayCall(f, "parenToken", "scan", compFn) /\ f.at \in Plain /\ "parenToken" \in Places
  BY <1>3, MayCallAre DEF Plain, Places, Others
<1>5. PICK g, c, s, n : g = Moved(f, "parenToken") /\ c = Compiles(t) /\ s = Skip(t) /\ n = NextWord(t, p)
  OBVIOUS
<1>6. g \in Frames /\ g.at = "parenToken" /\ g.cfn = f.cfn
  BY <1>3, <1>4, <1>5, MovedFrame
<1>7. Part(t, f, p) = IF f.cfn = "base" THEN c["block"][p] ELSE Nothing(s["block"][p])
  BY <1>3, <1>5, PartAt
<1>8. Part(t, g, n) = Part(t, f, p)
  <2>1. CASE n \in 1..Len(t) + 1
    <3>1. Part(t, g, n) = IF g.cfn = "base" THEN c["block"][n] ELSE Nothing(s["block"][n])
      BY <1>3, <1>5, <1>6, <2>1, PartAt
    <3>2. c["block"][n] = c["block"][p] /\ s["block"][n] = s["block"][p]
      BY <1>3, <1>5, <2>1, AtNextWord
    <3>. QED
      BY <1>6, <1>7, <3>1, <3>2
  <2>2. CASE n = 0
    <3>1. c["block"][p] = Nothing(0) /\ s["block"][p] = 0
      BY <1>3, <1>5, <2>2, AtNoWord
    <3>. QED
      BY <1>7, <2>2, <3>1, PartStops
  <2>3. n = 0 \/ n \in 1..Len(t) + 1
    BY <1>3, <1>5, NextWordCases
  <2>. QED
    BY <2>1, <2>2, <2>3
<1>. QED
  BY <1>1, <1>2, <1>4, <1>5, <1>8, ScanCallMeans

LEMMA N_blkMeans ==
  ASSUME ScannerInv, Understood, N_blk
  PROVE  MeaningInv'
<1>1. /\ phase = "compile" /\ Top.at = "blkBody" /\ Step /\ compFn' = compFn /\ Keep
      /\ token' = token /\ out' = out /\ CallThen("blkToken", "scan")
  BY DEF N_blk, At
<1>2. PICK t, f, p, w, fn : Now(t, f, p, w, fn)
  BY <1>1, NowRuns
<1>3. /\ f = Top /\ f.at = "blkBody" /\ t \in Seq(Char) /\ f \in Frames /\ p \in 1..Len(t) + 1
  BY <1>1, <1>2 DEF Now
<1>4. f.cfn = "base"
  <2>1. f.at \in Compiling
    BY <1>3 DEF Compiling
  <2>. QED
    BY <1>1, <1>2, <2>1, NowCompiles
<1>5. MayCall(f, "blkToken", "scan", compFn) /\ f.at \in Plain /\ "blkToken" \in Places
  BY <1>3, <1>4, MayCallAre DEF Plain, Places, Others
<1>6. PICK g, c, n : g = Moved(f, "blkToken") /\ c = Compiles(t) /\ n = NextWord(t, p)
  OBVIOUS
<1>7. g \in Frames /\ g.at = "blkToken"
  BY <1>3, <1>5, <1>6, MovedFrame
<1>8. Part(t, f, p) = Ended(While(t, c, p))
  BY <1>3, <1>6, PartAt
<1>9. Part(t, g, n) = Part(t, f, p)
  <2>1. CASE n \in 1..Len(t) + 1
    <3>1. Part(t, g, n) = Ended(While(t, c, n))
      BY <1>3, <1>6, <1>7, <2>1, PartAt
    <3>. QED
      BY <1>3, <1>6, <1>8, <2>1, <3>1, AtNextWord
  <2>2. CASE n = 0
    <3>1. While(t, c, p) = Nothing(0) /\ Nothing(0).next = 0
      BY <1>3, <1>6, <2>2, AtNoWord, NothingWide, SpotsAre
    <3>2. Part(t, f, p) = Nothing(0)
      BY <1>8, <3>1 DEF Ended
    <3>. QED
      BY <2>2, <3>2, PartStops
  <2>3. n = 0 \/ n \in 1..Len(t) + 1
    BY <1>3, <1>6, NextWordCases
  <2>. QED
    BY <2>1, <2>2, <2>3
<1>. QED
  BY <1>1, <1>2, <1>5, <1>6, <1>9, ScanCallMeans

LEMMA N_blk_endMeans ==
  ASSUME ScannerInv, Understood, N_blk_end
  PROVE  MeaningInv'
<1>1. /\ phase = "compile" /\ Top.at = "blkEnd" /\ Step /\ compFn' = compFn /\ Keep
      /\ token' = token /\ Return /\ out' = Append(out, <<"blk", "end">>)
  BY DEF N_blk_end, At
<1>2. PICK t, f, p, w, fn : Now(t, f, p, w, fn)
  BY <1>1, NowRuns
<1>3. /\ t = text /\ f = Top /\ p = head + 1 /\ w = token /\ f.at = "blkEnd"
      /\ t \in Seq(Char) /\ f \in Frames /\ p \in 1..Len(t) + 1 /\ TokenFits(t, p, w, f.at)
  BY <1>1, <1>2 DEF Now
<1>4. /\ f.at \notin Sources /\ f.at \notin Commenting /\ Yields(f.at) = "part"
  BY <1>3 DEF Sources, Commenting, Yields
<1>5. Delivers(t, p, w, Yields(f.at))
  BY <1>3, <1>4, TokenFitsAt DEF Plain
<1>6. PICK x : x = << <<"blk", "end">> >>
  OBVIOUS
<1>7. x \in Outputs /\ out' = out \o x
  BY <1>1, <1>6, PutsOut, WordsPutOut
<1>8. Part(t, f, p) = Items(x, p) /\ head' + 1 = p /\ token' = w
  BY <1>1, <1>3, <1>6, PartAt DEF Keep
<1>9. LeaveStep(t, f, p, p, w, x)
  BY ONLY <1>1, <1>3, <1>4, <1>5, <1>7, <1>8 DEF LeaveStep
<1>. QED
  BY <1>9, LeaveKnows

-----------------------------------------------------------------------------
(* A function at the next word: what there is, and what it comes to.       *)
LEMMA AtWord ==
  ASSUME ScannerInv, Understood, phase = "compile",
         NEW t, NEW f, NEW p, NEW w, NEW fn, Now(t, f, p, w, fn),
         f.at \in {"singleToken", "parenToken", "blkToken", "ch"}
  PROVE  /\ Delivers(t, p, w, "word") /\ NextWord(t, p) = p
         /\ (w = << >> /\ p = Len(t) + 1 /\ p > Len(t)) \/ (w # << >> /\ IsToken(t, p, w) /\ ~(p > Len(t))
                /\ p \in 1..Len(t) /\ p + 1 \in 1..Len(t) + 1 /\ p \notin {0, Len(t) + 1})
         /\ p # 0
<1>1. t \in Seq(Char) /\ p \in 1..Len(t) + 1 /\ TokenFits(t, p, w, f.at)
  BY DEF Now
<1>2. Delivers(t, p, w, "word")
  BY <1>1, TokenFitsAt
<1>3. w # <<"\\">>
  BY <1>2 DEF Delivers
<1>4. (w = << >> /\ p = Len(t) + 1) \/ (w # << >> /\ IsToken(t, p, w))
  BY <1>1, <1>2, DeliveredIs
<1>5. NextWord(t, p) = p
  BY <1>1, <1>2, <1>3, DeliveredIs
<1>6. p = Len(t) + 1 => p > Len(t)
  BY <1>1, LenProperties
<1>7. IsToken(t, p, w) => /\ ~(p > Len(t)) /\ p \in 1..Len(t) /\ p + 1 \in 1..Len(t) + 1
                          /\ p \notin {0, Len(t) + 1}
  BY <1>1, TokenThere
<1>. QED
  BY <1>1, <1>2, <1>4, <1>5, <1>6, <1>7

(* compFn is called, and what it gives is what is dropped or compiled.     *)
LEMMA CalledCompFn ==
  ASSUME ScannerInv, NEW t \in Seq(Char), NEW q \in 1..Len(t) + 1,
         NEW to, to = compFnAt, NEW h, h = Frame(to), NEW a, a = Part(t, h, q)
  PROVE  /\ compFn = "base" => to = "baseCompFn" /\ a = Compiles(t)["token"][q]
         /\ compFn # "base" => to = "fslash" /\ a = Nothing(Skip(t)["element"][NonWhite(t, q)])
         /\ a \in Wide(t) /\ (a.next = 0 \/ a.next \in 1..Len(t) + 1)
<1>1. /\ to \in Places /\ (compFn = "base" => to = "baseCompFn")
      /\ compFn # "base" => to = "fslash"
  BY DEF compFnAt, Places, Others
<1>2. h \in Frames /\ h.at = to
  BY <1>1, FrameIsFrame DEF ScannerInv
<1>3. /\ compFn = "base" => a = Compiles(t)["token"][q]
      /\ compFn # "base" => a = Nothing(Skip(t)["element"][NonWhite(t, q)])
  BY <1>1, <1>2, PartAt
<1>4. Len(t) \in Nat /\ Positions(t) = 0..Len(t) + 1
  BY PositionsAre
<1>5. ASSUME compFn = "base"
      PROVE  a \in Wide(t) /\ a.next \in Positions(t)
  BY <1>3, <1>5, CompilesAt DEF Meant
<1>6. ASSUME compFn # "base"
      PROVE  a \in Wide(t) /\ a.next \in Positions(t)
  <2>1. PICK m : m = Skip(t)["element"][NonWhite(t, q)]
    OBVIOUS
  <2>2. NonWhite(t, q) \in 1..Len(t) + 1
    BY NonWhiteFacts
  <2>3. NonWhite(t, q) \in Positions(t)
    BY <1>4, <2>2
  <2>4. m \in Positions(t)
    BY <2>1, <2>3, SkipAlso DEF Commented
  <2>5. m \in Spots(t)
    BY <2>4, SpotsAre
  <2>6. a = Nothing(m)
    BY <1>3, <1>6, <2>1
  <2>. QED
    BY <2>4, <2>5, <2>6, NothingWide
<1>7. a.next = 0 \/ a.next \in 1..Len(t) + 1
  BY <1>4, <1>5, <1>6
<1>. QED
  BY <1>1, <1>3, <1>5, <1>6, <1>7

LEMMA N_paren_tokenMeans ==
  ASSUME ScannerInv, Understood, Clears, "newRepl" \in Rules, N_paren_token
  PROVE  MeaningInv'
<1>1. phase = "compile" /\ Top.at = "parenToken"
  BY DEF N_paren_token, At
<1>2. PICK t, f, p, w, fn : Now(t, f, p, w, fn)
  BY <1>1, NowRuns
<1>3. /\ t = text /\ f = Top /\ p = head + 1 /\ w = token /\ fn = compFn /\ f.at = "parenToken"
      /\ t \in Seq(Char) /\ f \in Frames /\ p \in 1..Len(t) + 1 /\ Part(t, f, p) \in Wide(t)
  BY <1>1, <1>2 DEF Now
<1>4. /\ Delivers(t, p, w, "word") /\ NextWord(t, p) = p
      /\ (w = << >> /\ p = Len(t) + 1 /\ p > Len(t)) \/ (w # << >> /\ IsToken(t, p, w) /\ ~(p > Len(t))
             /\ p \in 1..Len(t) /\ p + 1 \in 1..Len(t) + 1 /\ p \notin {0, Len(t) + 1})
  BY <1>1, <1>2, <1>3, AtWord
<1>5. /\ fn = f.cfn /\ f.at \notin Sources /\ f.at \notin Commenting /\ Yields(f.at) = "part"
      /\ (compFnAt = "baseCompFn" <=> fn = "base") /\ compFnAt \in {"baseCompFn", "fslash"}
  <2>1. f.at \notin Sources /\ f.at \notin Commenting /\ Yields(f.at) = "part"
    BY <1>3 DEF Sources, Commenting, Yields
  <2>. QED
    BY <1>1, <1>2, <2>1, NowCompiles
<1>6. PICK c, s : c = Compiles(t) /\ s = Skip(t)
  OBVIOUS
<1>7. Part(t, f, p) = IF fn = "base" THEN BlockMeant(t, c, p) ELSE Nothing(SkipBlock(t, s, p))
  BY <1>3, <1>5, <1>6, PartAt, CompilesAt, SkipsAt
<1>8. s["word"][p] = p
  BY <1>4, <1>6 DEF NextWord
<1>9. p = Len(t) + 1 => Part(t, f, p) = Nothing(0)
  BY <1>4, <1>7, <1>8 DEF BlockMeant, SkipBlock, Nothing
<1>10. ")" \in Single /\ <<")">> # << >> /\ Len(<<")">>) = 1
  BY DEF Single
<1>11. CASE token # <<")">> /\ Eof
  <2>1. 0 \in Nat /\ p = Len(t) + 1
    BY <1>1, <1>3, <1>11, RingIsText
  <2>2. Panic
    BY <1>11 DEF N_paren_token
  <2>. QED
    BY <1>1, <1>3, <1>9, <2>1, <2>2, PanicKnows
<1>12. ASSUME ~(token # <<")">> /\ Eof)
       PROVE  /\ \/ w = <<")">> /\ tokenDrop /\ Return
                 \/ w # <<")">> /\ Keep /\ CallThen("paren", compFnAt) /\ token' = w
              /\ Step /\ compFn' = compFn /\ out' = out \o << >> /\ << >> \in Outputs
  BY <1>3, <1>12, Quiet DEF N_paren_token
<1>13. CASE w = <<")">>
  <2>1. tokenDrop /\ Return /\ Step /\ compFn' = compFn /\ out' = out \o << >> /\ << >> \in Outputs
    BY <1>3, <1>12, <1>13
  <2>2. PICK q : q = p + 1
    OBVIOUS
  <2>3. IsToken(t, p, w) /\ q \in 1..Len(t) + 1 /\ p \notin {0, Len(t) + 1} /\ t[p] = ")"
    BY <1>3, <1>4, <1>10, <1>13, <2>2, TokenThere
  <2>4. token' = << >> /\ head' + 1 = q
    BY <1>1, <1>3, <1>10, <1>13, <2>1, <2>2, DropEnds
  <2>5. Part(t, f, p) = Items(<< >>, q)
    BY <1>4, <1>7, <1>8, <2>2, <2>3 DEF BlockMeant, SkipBlock, Nothing
  <2>6. Delivers(t, q, << >>, Yields(f.at))
    BY <1>5 DEF Delivers
  <2>7. LeaveStep(t, f, p, q, << >>, << >>)
    BY ONLY <1>1, <1>3, <1>5, <2>1, <2>3, <2>4, <2>5, <2>6 DEF LeaveStep
  <2>. QED
    BY <2>7, LeaveKnows
<1>14. CASE w # <<")">> /\ ~Eof
  <2>1. /\ Keep /\ token' = w /\ Step /\ compFn' = compFn /\ out' = out \o << >> /\ << >> \in Outputs
        /\ CallThen("paren", compFnAt) /\ head' + 1 = p
    BY <1>3, <1>12, <1>14 DEF Keep
  <2>2. PICK to, h, g : to = compFnAt /\ h = Frame(to) /\ g = Moved(f, "paren")
    OBVIOUS
  <2>3. PICK a, m : a = Part(t, h, p) /\ m = a.next
    OBVIOUS
  <2>4. /\ fn = "base" => to = "baseCompFn" /\ a = c["token"][p]
        /\ fn # "base" => to = "fslash" /\ a = Nothing(s["element"][NonWhite(t, p)])
        /\ a \in Wide(t) /\ (m = 0 \/ m \in 1..Len(t) + 1)
    BY <1>3, <1>6, <2>2, <2>3, CalledCompFn
  <2>5. MayCall(f, "paren", to, compFn) /\ "paren" \in Places
    BY <1>3, <2>4, MayCallAre DEF Places, Others
  <2>6. g \in Frames /\ g.at = "paren" /\ g.cfn = fn
    BY <1>3, <1>5, <2>2, <2>5, MovedFrame
  <2>7. NonWhite(t, p) = p
    BY <1>3, <1>4, TokenThere, NonWhiteIs
  <2>8. Part(t, g, m) = IF fn = "base" THEN c["block"][m] ELSE Nothing(s["block"][m])
    <3>1. CASE m = 0
      <4>1. c["block"][0] = Nothing(0) /\ s["block"][0] = 0
        <5>1. c["block"][0] = Nothing(0)
          BY <1>3, <1>6, CompilesAt DEF Meant
        <5>2. s["block"][0] = 0
          BY <1>3, <1>6, PositionsAre, SkipAlso DEF Commented, SkipAt
        <5>. QED
          BY <5>1, <5>2
      <4>. QED
        BY <3>1, <4>1, PartStops
    <3>2. CASE m \in 1..Len(t) + 1
      BY <1>3, <1>6, <2>6, <3>2, PartAt
    <3>. QED
      BY <2>4, <3>1, <3>2
  <2>9. t[p] # ")" \/ p = Len(t) + 1
    BY <1>3, <1>4, <1>10, <1>14, TokenThere
  <2>10. ASSUME fn = "base"
         PROVE  Part(t, f, p) = Then(<< >>, Then(a.out, Part(t, g, a.next)))
    <3>1. CASE p = Len(t) + 1
      <4>1. c["token"][p] = TokenMeant(t, c, p)
        BY <1>3, <1>6, CompilesAt
      <4>2. a = Nothing(p)
        BY <1>4, <2>4, <2>10, <3>1, <4>1 DEF TokenMeant, Nothing
      <4>3. m = p
        BY <1>3, <2>3, <4>2, NothingWide, SpotsAre
      <4>4. c["block"][p] = BlockMeant(t, c, p)
        BY <1>3, <1>6, CompilesAt
      <4>5. Part(t, g, m) = Part(t, f, p)
        BY <1>7, <2>8, <2>10, <4>3, <4>4
      <4>. QED
        BY <1>3, <2>3, <4>2, <4>5, ThenNothing, SpotsAre
    <3>2. CASE p # Len(t) + 1
      <4>1. Part(t, f, p) = Then(a.out, c["block"][m])
        BY <1>4, <1>7, <2>3, <2>4, <2>9, <2>10, <3>2 DEF BlockMeant
      <4>2. Part(t, f, p) = Then(<< >>, Part(t, f, p))
        BY <1>3, ThenNone
      <4>. QED
        BY <2>3, <2>8, <2>10, <4>1, <4>2
    <3>. QED
      BY <3>1, <3>2
  <2>11. ASSUME fn # "base"
         PROVE  Part(t, f, p) = Then(<< >>, Then(a.out, Part(t, g, a.next)))
    <3>1. a = Nothing(s["element"][p])
      BY <2>4, <2>7, <2>11
    <3>2. PICK e : e = s["element"][p]
      OBVIOUS
    <3>3. e \in Spots(t)
      <4>1. p \in Positions(t)
        BY <1>3, SpotsAre
      <4>2. e \in Positions(t)
        BY <1>3, <1>6, <3>2, <4>1, SkipAlso DEF Commented
      <4>. QED
        BY <1>3, <4>2, SpotsAre
    <3>4. a = Nothing(e) /\ m = e
      BY <2>3, <3>1, <3>2, <3>3, NothingWide
    <3>5. s["block"][p] = SkipBlock(t, s, p) /\ e = SkipElement(t, s, p)
      BY <1>3, <1>6, <3>2, SkipsAt
    <3>6. s["block"][e] = s["block"][p]
      <4>1. CASE p = Len(t) + 1
        <5>1. e = p
          BY <1>4, <3>5, <4>1 DEF SkipElement
        <5>. QED
          BY <5>1
      <4>2. CASE p # Len(t) + 1
        BY <1>4, <1>8, <2>9, <3>2, <3>5, <4>2 DEF SkipBlock
      <4>. QED
        BY <4>1, <4>2
    <3>7. Part(t, g, m) = Part(t, f, p)
      BY <1>7, <2>8, <2>11, <3>4, <3>5, <3>6
    <3>. QED
      BY <1>3, <2>3, <3>3, <3>4, <3>7, ThenNothing
  <2>12. Part(t, f, p) = Then(<< >>, Then(a.out, Part(t, g, a.next)))
    BY <2>10, <2>11
  <2>13. TokenFits(t, p, w, to)
    <3>1. Delivers(t, p, w, "part")
      BY <1>4 DEF Delivers
    <3>2. to \in Plain
      BY <2>4 DEF Plain
    <3>. QED
      BY <3>1, <3>2, TokenFitsAt
  <2>14. CallStep(t, f, p, "paren", to, g, h, a, p, w, << >>)
    BY ONLY <1>1, <1>3, <2>1, <2>2, <2>3, <2>5, <2>12, <2>13 DEF CallStep
  <2>. QED
    BY <2>14, CallToKnows
<1>. QED
  BY <1>11, <1>13, <1>14, <1>3

-----------------------------------------------------------------------------
(* The end of a blk, after its while or without one.                       *)
LEMMA EndedIs ==
  ASSUME NEW t \in Seq(Char), NEW a \in Wide(t), NEW x \in Outputs, NEW m, m = a.next,
         NEW r, r = (IF m = 0 THEN Nothing(0) ELSE Items(<< <<"blk", "end">> >>, m))
  PROVE  Ended(Then(x, a)) = Then(x, Then(a.out, r))
<1>1. /\ Then(x, a) \in Wide(t) /\ Then(x, a).out = x \o a.out /\ Then(x, a).next = m
      /\ a.out \in Outputs /\ m \in Spots(t) /\ a = Items(a.out, m)
  BY WideThen, WideIs
<1>2. PICK be : be = << <<"blk", "end">> >>
  OBVIOUS
<1>3. be \in Outputs
  BY <1>2, WordsPutOut
<1>4. r \in Wide(t)
  BY <1>1, <1>2, <1>3, ItemsWide, NothingWide
<1>5. Then(x, Then(a.out, r)) = Then(x \o a.out, r)
  BY <1>1, <1>4, ThenThen
<1>6. CASE m = 0
  <2>1. Ended(Then(x, a)) = Then(x, a)
    BY <1>1, <1>6 DEF Ended
  <2>2. r = Nothing(0) /\ r.out = << >> /\ r.next = 0
    BY <1>6, NothingWide, SpotsAre
  <2>3. Then(a.out, r) = Items(a.out \o << >>, 0) /\ a.out \o << >> = a.out
    BY <1>1, <2>2, OutputsAre DEF Then
  <2>4. Then(a.out, r) = a
    BY <1>1, <1>6, <2>3
  <2>. QED
    BY <2>1, <2>4
<1>7. CASE m # 0
  <2>1. Ended(Then(x, a)) = Then(x \o a.out, r)
    BY <1>1, <1>7 DEF Ended
  <2>. QED
    BY <1>5, <2>1
<1>. QED
  BY <1>6, <1>7

LEMMA N_blk_tokenMeans ==
  ASSUME ScannerInv, Understood, N_blk_token
  PROVE  MeaningInv'
<1>1. /\ phase = "compile" /\ Top.at = "blkToken" /\ Step /\ compFn' = compFn
      /\ \/ token = <<"W">> /\ tokenDrop /\ CallThen("blkEnd", compFnAt) /\ out' = Append(out, token)
         \/ token # <<"W">> /\ Keep /\ token' = token /\ out' = out /\ Goto("blkEnd")
  BY DEF N_blk_token, At
<1>2. PICK t, f, p, w, fn : Now(t, f, p, w, fn)
  BY <1>1, NowRuns
<1>3. /\ t = text /\ f = Top /\ p = head + 1 /\ w = token /\ fn = compFn /\ f.at = "blkToken"
      /\ t \in Seq(Char) /\ f \in Frames /\ p \in 1..Len(t) + 1 /\ Part(t, f, p) \in Wide(t)
  BY <1>1, <1>2 DEF Now
<1>4. /\ Delivers(t, p, w, "word") /\ NextWord(t, p) = p
      /\ (w = << >> /\ p = Len(t) + 1 /\ p > Len(t)) \/ (w # << >> /\ IsToken(t, p, w) /\ ~(p > Len(t))
             /\ p \in 1..Len(t) /\ p + 1 \in 1..Len(t) + 1 /\ p \notin {0, Len(t) + 1})
  BY <1>1, <1>2, <1>3, AtWord
<1>5. f.cfn = "base" /\ compFnAt = "baseCompFn" /\ compFn = "base"
  <2>1. f.at \in Compiling
    BY <1>3 DEF Compiling
  <2>. QED
    BY <1>1, <1>2, <2>1, NowCompiles
<1>6. /\ MayGo(f, "blkEnd") /\ MayCall(f, "blkEnd", "baseCompFn", compFn)
      /\ "blkEnd" \in Places /\ "baseCompFn" \in Places
  BY <1>3, <1>5, MayGoAre, MayCallAre DEF Places, Others
<1>7. PICK g, c : g = Moved(f, "blkEnd") /\ c = Compiles(t)
  OBVIOUS
<1>8. g \in Frames /\ g.at = "blkEnd"
  BY <1>3, <1>6, <1>7, MovedFrame
<1>9. Part(t, f, p) = Ended(While(t, c, p))
  BY <1>3, <1>7, PartAt
<1>10. CASE token = <<"W">>
  <2>1. /\ tokenDrop /\ CallThen("blkEnd", "baseCompFn") /\ out' = Append(out, token)
    BY <1>1, <1>5, <1>10
  <2>2. PICK q, x, h : q = p + 1 /\ x = << <<"W">> >> /\ h = Frame("baseCompFn")
    OBVIOUS
  <2>3. PICK a, m : a = Part(t, h, q) /\ m = a.next
    OBVIOUS
  <2>4. w = <<"W">> /\ w # << >> /\ Len(w) = 1
    BY <1>3, <1>10
  <2>5. q \in 1..Len(t) + 1 /\ IsToken(t, p, w) /\ Word(t, p) = <<"W">> /\ p \notin {0, Len(t) + 1}
    BY <1>4, <2>2, <2>4 DEF IsToken
  <2>6. token' = << >> /\ head' + 1 = q
    BY <1>1, <1>3, <2>1, <2>2, <2>4, <2>5, DropEnds
  <2>7. x \in Outputs /\ out' = out \o x
    BY <1>3, <2>1, <2>2, <2>4, PutsOut, WordsPutOut
  <2>8. h \in Frames /\ h.at = "baseCompFn"
    BY <1>6, <2>2, FrameIsFrame DEF ScannerInv
  <2>9. a = c["token"][q]
    BY <1>3, <1>7, <2>3, <2>5, <2>8, PartAt
  <2>10. a \in Wide(t) /\ m \in Positions(t)
    BY <1>3, <1>7, <2>3, <2>5, <2>9, CompilesAt DEF Meant
  <2>11. While(t, c, p) = Then(x, a)
    BY <1>4, <2>2, <2>5, <2>9 DEF While
  <2>12. Part(t, g, m) = IF m = 0 THEN Nothing(0) ELSE Items(<< <<"blk", "end">> >>, m)
    <3>1. m = 0 \/ m \in 1..Len(t) + 1
      BY <1>3, <2>10, PositionsAre
    <3>2. CASE m = 0
      BY <3>2, PartStops
    <3>3. CASE m \in 1..Len(t) + 1
      <4>1. m # 0
        BY <1>3, <3>3, SpotsAre
      <4>. QED
        BY <1>3, <1>8, <3>3, <4>1, PartAt
    <3>. QED
      BY <3>1, <3>2, <3>3
  <2>13. Part(t, f, p) = Then(x, Then(a.out, Part(t, g, a.next)))
    BY <1>3, <1>9, <2>3, <2>7, <2>10, <2>11, <2>12, EndedIs
  <2>14. TokenFits(t, q, << >>, "baseCompFn")
    BY TokenFitsAt DEF Delivers, Plain
  <2>15. CallStep(t, f, p, "blkEnd", "baseCompFn", g, h, a, q, << >>, x)
    BY ONLY <1>1, <1>3, <1>6, <1>7, <2>1, <2>2, <2>3, <2>5, <2>6, <2>7, <2>13, <2>14 DEF CallStep
  <2>. QED
    BY <2>15, CallToKnows
<1>11. CASE token # <<"W">>
  <2>1. Keep /\ token' = token /\ out' = out /\ Goto("blkEnd")
    BY <1>1, <1>11
  <2>2. head' + 1 = p /\ token' = w /\ out' = out \o << >> /\ << >> \in Outputs
    BY <1>3, <2>1, Quiet DEF Keep
  <2>3. ~(p \notin {0, Len(t) + 1} /\ Word(t, p) = <<"W">>)
    BY <1>3, <1>4, <1>11 DEF IsToken
  <2>4. While(t, c, p) = Items(<< >>, p)
    BY <1>4, <2>3 DEF While
  <2>5. p \in Spots(t) /\ p # 0
    BY <1>3, SpotsAre
  <2>6. Part(t, f, p) = Then(<< >>, Items(<< <<"blk", "end">> >>, p))
    <3>1. Items(<< >>, p).out = << >> /\ Items(<< >>, p).next = p
      BY <2>5, ItemsWide, OutputsAre
    <3>. QED
      BY <1>9, <2>4, <2>5, <3>1 DEF Ended
  <2>7. Part(t, f, p) = Then(<< >>, Part(t, g, p))
    BY <1>3, <1>8, <2>6, PartAt
  <2>8. TokenFits(t, p, w, "blkEnd")
    <3>1. Delivers(t, p, w, "part")
      BY <1>4 DEF Delivers
    <3>. QED
      BY <3>1, TokenFitsAt DEF Plain
  <2>9. GotoStep(t, f, p, "blkEnd", g, p, w, << >>)
    BY ONLY <1>1, <1>3, <1>6, <1>7, <2>1, <2>2, <2>7, <2>8 DEF GotoStep
  <2>. QED
    BY <2>9, GotoKnows
<1>. QED
  BY <1>10, <1>11

-----------------------------------------------------------------------------
(* A character behind its colon.                                           *)
LEMMA N_chMeans ==
  ASSUME ScannerInv, Understood, Clears, "newRepl" \in Rules, N_ch
  PROVE  MeaningInv'
<1>1. phase = "compile" /\ Top.at = "ch"
  BY DEF N_ch, At
<1>2. PICK t, f, p, w, fn : Now(t, f, p, w, fn)
  BY <1>1, NowRuns
<1>3. /\ t = text /\ f = Top /\ p = head + 1 /\ w = token /\ fn = compFn /\ f.at = "ch"
      /\ t \in Seq(Char) /\ f \in Frames /\ p \in 1..Len(t) + 1 /\ Part(t, f, p) \in Wide(t)
  BY <1>1, <1>2 DEF Now
<1>4. /\ Delivers(t, p, w, "word") /\ NextWord(t, p) = p
      /\ (w = << >> /\ p = Len(t) + 1 /\ p > Len(t)) \/ (w # << >> /\ IsToken(t, p, w) /\ ~(p > Len(t))
             /\ p \in 1..Len(t) /\ p + 1 \in 1..Len(t) + 1 /\ p \notin {0, Len(t) + 1})
  BY <1>1, <1>2, <1>3, AtWord
<1>5. f.cfn = "base"
  <2>1. f.at \in Compiling
    BY <1>3 DEF Compiling
  <2>. QED
    BY <1>1, <1>2, <2>1, NowCompiles
<1>6. Part(t, f, p) = ColonAt(t, p)
  BY <1>3, PartAt
<1>7. ":" \in Single /\ <<":">> # << >> /\ Len(<<":">>) = 1
  BY DEF Single
<1>8. CASE token # <<":">>
  <2>1. Panic
    BY <1>8 DEF N_ch
  <2>2. p > Len(t) \/ t[p] # ":"
    BY <1>3, <1>4, <1>7, <1>8, TokenThere
  <2>3. Part(t, f, p) = Nothing(0)
    BY <1>6, <2>2 DEF ColonAt
  <2>. QED
    BY <1>1, <1>3, <2>1, <2>3, PanicKnows
<1>9. CASE token = <<":">>
  <2>1. /\ tokenDrop /\ Goto("char") /\ Step /\ compFn' = compFn
        /\ out' = out \o << >> /\ << >> \in Outputs
    BY <1>9, Quiet DEF N_ch
  <2>2. PICK q, g : q = p + 1 /\ g = Moved(f, "char")
    OBVIOUS
  <2>3. IsToken(t, p, w) /\ q \in 1..Len(t) + 1 /\ ~(p > Len(t)) /\ t[p] = ":"
    BY <1>3, <1>4, <1>7, <1>9, <2>2, TokenThere
  <2>4. token' = << >> /\ head' + 1 = q
    BY <1>1, <1>3, <1>7, <1>9, <2>1, <2>2, DropEnds
  <2>5. MayGo(f, "char") /\ "char" \in Places
    BY <1>3, <1>5, MayGoAre DEF Places, Chars
  <2>6. g \in Frames /\ g.at = "char"
    BY <1>3, <2>2, <2>5, MovedFrame
  <2>7. Part(t, g, q) = CharAt(t, q)
    BY <1>3, <2>3, <2>6, PartAt
  <2>8. Part(t, f, p) = Part(t, g, q)
    BY <1>6, <2>2, <2>3, <2>7 DEF ColonAt
  <2>9. Part(t, f, p) = Then(<< >>, Part(t, g, q))
    BY <1>3, <2>8, ThenNone
  <2>10. TokenFits(t, q, << >>, "char")
    BY TokenFitsAt DEF Chars
  <2>11. GotoStep(t, f, p, "char", g, q, << >>, << >>)
    BY ONLY <1>1, <1>3, <2>1, <2>2, <2>3, <2>4, <2>5, <2>9, <2>10 DEF GotoStep
  <2>. QED
    BY <2>11, GotoKnows
<1>. QED
  BY <1>8, <1>9

-----------------------------------------------------------------------------
(* The words that take more than themselves.                               *)

(* A blk: its body, and what N_blk then comes to.                          *)
LEMMA BlkIs ==
  ASSUME NEW t \in Seq(Char), NEW q \in 1..Len(t) + 1, NEW c, c = Compiles(t),
         NEW a, a = c["token"][q], NEW m, m = a.next,
         NEW g \in Frames, g.at = "blkBody", NEW r, r = Part(t, g, m),
         NEW x, x = << <<"B">> >>
  PROVE  Blk(t, c, q) = Then(x, Then(a.out, r)) /\ r \in Wide(t) /\ x \in Outputs
<1>1. a \in Wide(t) /\ m \in Positions(t) /\ a.out \in Outputs
  BY CompilesAt, WideIs DEF Meant
<1>2. m = 0 \/ m \in 1..Len(t) + 1
  BY <1>1, PositionsAre
<1>3. r \in Wide(t)
  BY <1>1, PartWide, SpotsAre
<1>4. x \in Outputs
  BY WordsPutOut
<1>5. r = Ended(While(t, c, m))
  <2>1. CASE m = 0
    <3>1. NextWord(t, 0) = 0
      BY NextWordFacts, PositionsAre, SpotsAre
    <3>2. While(t, c, 0) = Nothing(0)
      BY <3>1 DEF While, Nothing
    <3>3. Ended(Nothing(0)) = Nothing(0)
      BY NothingWide, SpotsAre DEF Ended
    <3>. QED
      BY <2>1, <3>2, <3>3, PartStops
  <2>2. CASE m \in 1..Len(t) + 1
    BY <2>2, PartAt
  <2>. QED
    BY <1>2, <2>1, <2>2
<1>6. Blk(t, c, q) = Then(x \o a.out, r)
  BY <1>5 DEF Blk
<1>. QED
  BY <1>1, <1>3, <1>4, <1>6, ThenThen

LEMMA JoinTwo ==
  ASSUME NEW v, NEW u
  PROVE  <<v>> \o <<u>> = <<v, u>>
<1>1. PICK S : S = {v, u}
  OBVIOUS
<1>2. v \in S /\ u \in S /\ <<v>> \in Seq(S) /\ <<u>> \in Seq(S) /\ <<v, u>> \in Seq(S)
  BY <1>1
<1>3. /\ Len(<<v>>) = 1 /\ Len(<<u>>) = 1 /\ Len(<<v, u>>) = 2
      /\ <<v>>[1] = v /\ <<u>>[1] = u /\ <<v, u>>[1] = v /\ <<v, u>>[2] = u
  OBVIOUS
<1>4. PICK a, b, c : a = <<v>> /\ b = <<u>> /\ c = <<v, u>>
  OBVIOUS
<1>5. /\ a \in Seq(S) /\ b \in Seq(S) /\ c \in Seq(S) /\ Len(a) = 1 /\ Len(b) = 1 /\ Len(c) = 2
      /\ c[1] = a[1] /\ c[2] = b[1]
  BY <1>2, <1>3, <1>4
<1>6. /\ a \o b \in Seq(S) /\ Len(a \o b) = 2
      /\ \A i \in 1..2 : (a \o b)[i] = c[i]
  BY <1>5, ConcatProperties
<1>7. a \o b = c
  BY <1>5, <1>6, SeqEqual
<1>. QED
  BY <1>4, <1>7

(* A ch: the next word, and what N_ch then comes to.                       *)
LEMMA ChIs ==
  ASSUME NEW t \in Seq(Char), NEW q \in 1..Len(t) + 1, NEW n, n = NextWord(t, q),
         NEW g \in Frames, g.at = "ch", NEW r, r = Part(t, g, n),
         NEW x, x = << <<"C">> >>
  PROVE  Ch(t, q) = Then(x, Then(Nothing(n).out, r)) /\ r \in Wide(t) /\ x \in Outputs
<1>1. n \in Positions(t) /\ n \in Spots(t) /\ (n = 0 \/ n \in 1..Len(t) + 1)
  BY NextWordCases
<1>2. r \in Wide(t) /\ x \in Outputs
  BY <1>1, PartWide, WordsPutOut
<1>3. PICK e : e = Escape(t, n + 1, {"n", " "})
  OBVIOUS
<1>4. n = Len(t) + 1 => n > Len(t)
  BY LenProperties
<1>5. n \in 1..Len(t) /\ n \notin {0, Len(t) + 1} => ~(n > Len(t))
  BY LenProperties
<1>6. n \in 1..Len(t) + 1 => n \in 1..Len(t) \/ n = Len(t) + 1
  BY LenProperties
<1>7. Then(x, Nothing(0)) = Items(x, 0)
  BY <1>2, NothingWide, SpotsAre, OutputsAre DEF Then
<1>8. Ch(t, q) = Then(x, r)
  <2>1. CASE n = 0
    <3>1. Ch(t, q) = Items(x, 0)
      BY <2>1 DEF Ch
    <3>. QED
      BY <1>7, <2>1, <3>1, PartStops
  <2>2. CASE n = Len(t) + 1
    <3>1. Ch(t, q) = Items(x, 0)
      BY <2>2 DEF Ch
    <3>2. r = Nothing(0)
      <4>1. n \in 1..Len(t) + 1
        BY <2>2, LenProperties
      <4>2. r = ColonAt(t, n)
        BY <4>1, PartAt
      <4>. QED
        BY <1>4, <2>2, <4>2 DEF ColonAt
    <3>. QED
      BY <1>7, <3>1, <3>2
  <2>3. CASE n \in 1..Len(t) /\ n \notin {0, Len(t) + 1}
    <3>1. r = ColonAt(t, n) /\ ~(n > Len(t))
      BY <1>5, <1>1, <2>3, PartAt
    <3>2. CASE t[n] # ":"
      <4>1. Ch(t, q) = Items(x, 0)
        BY <3>2 DEF Ch
      <4>2. r = Nothing(0)
        BY <3>1, <3>2 DEF ColonAt
      <4>. QED
        BY <1>7, <4>1, <4>2
    <3>3. CASE t[n] = ":" /\ e.next = 0
      <4>1. Ch(t, q) = Items(x, 0)
        BY <1>3, <3>3 DEF Ch
      <4>2. r = Nothing(0)
        BY <1>3, <3>1, <3>3 DEF ColonAt, CharAt
      <4>. QED
        BY <1>7, <4>1, <4>2
    <3>4. CASE t[n] = ":" /\ e.next # 0
      <4>1. PICK y : y = << <<"C", e.c>> >>
        OBVIOUS
      <4>2. Ch(t, q) = Items(<< <<"C">>, <<"C", e.c>> >>, e.next)
        BY <1>3, <2>3, <3>4 DEF Ch
      <4>3. r = Items(y, e.next)
        BY <1>3, <3>1, <3>4, <4>1 DEF ColonAt, CharAt
      <4>4. r.out = y /\ r.next = e.next
        BY <4>3 DEF Items
      <4>5. x \o y = << <<"C">>, <<"C", e.c>> >>
        BY <4>1, JoinTwo
      <4>. QED
        BY <4>2, <4>4, <4>5 DEF Then
    <3>. QED
      BY <3>2, <3>3, <3>4
  <2>. QED
    BY <1>1, <1>6, <2>1, <2>2, <2>3
<1>9. Then(Nothing(n).out, r) = r
  BY <1>1, <1>2, ThenNothing
<1>. QED
  BY <1>2, <1>8, <1>9

(* singleToken, in constants: a token that is there, and what it comes to.  *)
SingleNow(t, f, p, w, fn) ==
  /\ phase = "compile" /\ Now(t, f, p, w, fn) /\ f.at = "singleToken"
  /\ IsToken(t, p, w) /\ p + 1 \in 1..Len(t) + 1 /\ p \notin {0, Len(t) + 1}
  /\ NextWord(t, p) = p /\ fn = f.cfn

(* ... and the step, of one that has a name.                               *)
SingleStep(q, x) ==
  /\ Step /\ compFn' = compFn
  /\ token' = << >> /\ head' + 1 = q /\ out' = out \o x /\ x \in Outputs

LEMMA NamesAre ==
  /\ \A k \in {"(", "|", "B", "C"} : HasName(<<k>>)
  /\ \A k \in {"(", "|", "B", "C"} : Len(<<k>>) = 1 /\ <<k>> # << >>
BY DEF HasName

LEMMA SingleSteps ==
  ASSUME ScannerInv, Understood, singleToken,
         NEW t, NEW f, NEW p, NEW w, NEW fn, SingleNow(t, f, p, w, fn), HasName(w)
  PROVE  /\ w \in {<<"(">>, <<"|">>} => SingleStep(p + Len(w), << >>)
         /\ w \notin {<<"(">>, <<"|">>} => SingleStep(p + Len(w), <<w>>)
         /\ w = <<"(">> => Goto("paren")
         /\ w = <<"|">> => Goto("string")
         /\ w = <<"B">> => CallThen("blkBody", compFnAt)
         /\ w = <<"C">> => CallThen("ch", "scan")
         /\ w \notin {<<"(">>, <<"|">>, <<"B">>, <<"C">>} => Return
<1>1. /\ phase = "compile" /\ w = token /\ p = head + 1 /\ t \in Seq(Char) /\ IsToken(t, p, w)
  BY DEF SingleNow, Now
<1>2. w # << >> /\ w \in Seq(Char)
  BY <1>1, TokenEnds
<1>3. /\ Step /\ compFn' = compFn /\ tokenDrop
      /\ out' = IF w = << >> \/ w \in {<<"(">>, <<"|">>} THEN out ELSE Append(out, w)
      /\ CASE w = <<"(">> -> Goto("paren")
           [] w = <<"|">> -> Goto("string")
           [] w = <<"B">> -> CallThen("blkBody", compFnAt)
           [] w = <<"C">> -> CallThen("ch", "scan")
           [] OTHER       -> Return
  BY <1>1 DEF singleToken
<1>4. token' = << >> /\ head' + 1 = p + Len(w)
  BY <1>1, <1>3, DropEnds
<1>5. w \in Seq(Symbols)
  BY <1>1, <1>2, TextSymbols
<1>6. w \in {<<"(">>, <<"|">>} => out' = out \o << >> /\ << >> \in Outputs
  BY <1>3, Quiet
<1>7. w \notin {<<"(">>, <<"|">>} => out' = out \o <<w>> /\ <<w>> \in Outputs
  <2>1. w \notin {<<"(">>, <<"|">>} => out' = Append(out, w)
    BY <1>2, <1>3
  <2>. QED
    BY <1>5, <2>1, PutsOut
<1>8. /\ w \in {<<"(">>, <<"|">>} => SingleStep(p + Len(w), << >>)
      /\ w \notin {<<"(">>, <<"|">>} => SingleStep(p + Len(w), <<w>>)
  BY <1>3, <1>4, <1>6, <1>7 DEF SingleStep
<1>9. /\ <<"(">> # <<"|">> /\ <<"(">> # <<"B">> /\ <<"(">> # <<"C">>
      /\ <<"|">> # <<"B">> /\ <<"|">> # <<"C">> /\ <<"B">> # <<"C">>
  OBVIOUS
<1>10. /\ w = <<"(">> => Goto("paren")
       /\ w = <<"|">> => Goto("string")
       /\ w = <<"B">> => CallThen("blkBody", compFnAt)
       /\ w = <<"C">> => CallThen("ch", "scan")
       /\ w \notin {<<"(">>, <<"|">>, <<"B">>, <<"C">>} => Return
  BY ONLY <1>3, <1>9
<1>. QED
  BY <1>8, <1>10

-----------------------------------------------------------------------------
(* A parenthesis: a block, that is compiled or dropped.                    *)
LEMMA SingleParen ==
  ASSUME ScannerInv, Understood, singleToken,
         NEW t, NEW f, NEW p, NEW w, NEW fn, SingleNow(t, f, p, w, fn), w = <<"(">>
  PROVE  MeaningInv'
<1>1. /\ phase = "compile" /\ t = text /\ f = Top /\ p = head + 1 /\ w = token /\ fn = compFn
      /\ f.at = "singleToken" /\ t \in Seq(Char) /\ f \in Frames /\ p \in 1..Len(t) + 1
      /\ Part(t, f, p) \in Wide(t)
      /\ IsToken(t, p, w) /\ p + 1 \in 1..Len(t) + 1 /\ p \notin {0, Len(t) + 1}
      /\ NextWord(t, p) = p
  BY DEF SingleNow, Now
<1>2. HasName(w) /\ Len(w) = 1
  BY NamesAre
<1>3. PICK q, g, c, s : q = p + 1 /\ g = Moved(f, "paren") /\ c = Compiles(t) /\ s = Skip(t)
  OBVIOUS
<1>4. /\ Step /\ compFn' = compFn /\ Goto("paren")
      /\ token' = << >> /\ head' + 1 = q /\ out' = out \o << >> /\ << >> \in Outputs
  <2>1. SingleStep(p + Len(w), << >>) /\ Goto("paren")
    BY <1>2, SingleSteps
  <2>2. SingleStep(q, << >>)
    BY <1>2, <1>3, <2>1
  <2>. QED
    BY <2>1, <2>2 DEF SingleStep
<1>5. MayGo(f, "paren") /\ "paren" \in Places
  BY <1>1, MayGoAre DEF Places, Others
<1>6. g \in Frames /\ g.at = "paren" /\ g.cfn = f.cfn
  BY <1>1, <1>3, <1>5, MovedFrame
<1>7. q \in 1..Len(t) + 1 /\ t[p] = "(" /\ Word(t, p) = w
  BY <1>1, <1>3, TokenThere
<1>8. Part(t, g, q) = IF f.cfn = "base" THEN c["block"][q] ELSE Nothing(s["block"][q])
  BY <1>1, <1>3, <1>6, <1>7, PartAt
<1>9. Part(t, f, p) = IF f.cfn = "base" THEN c["token"][p] ELSE Nothing(Opened(t, p))
  BY <1>1, <1>3, PartAt
<1>10. c["token"][p] = c["block"][q]
  <2>1. c["token"][p] = TokenMeant(t, c, p)
    BY <1>1, <1>3, CompilesAt
  <2>. QED
    BY <1>1, <1>3, <1>7, <2>1 DEF TokenMeant
<1>11. Opened(t, p) = s["block"][q]
  BY <1>1, <1>3, <1>7 DEF Opened
<1>12. Part(t, f, p) = Then(<< >>, Part(t, g, q))
  BY <1>1, <1>8, <1>9, <1>10, <1>11, ThenNone
<1>13. TokenFits(t, q, << >>, "paren")
  BY TokenFitsAt DEF Delivers, Plain
<1>14. GotoStep(t, f, p, "paren", g, q, << >>, << >>)
  BY ONLY <1>1, <1>3, <1>4, <1>5, <1>7, <1>12, <1>13 DEF GotoStep
<1>. QED
  BY <1>14, GotoKnows

(* Where it is compiled, the other tokens.                                 *)
LEMMA SingleString ==
  ASSUME ScannerInv, Understood, singleToken,
         NEW t, NEW f, NEW p, NEW w, NEW fn, SingleNow(t, f, p, w, fn), fn = "base", w = <<"|">>
  PROVE  MeaningInv'
<1>1. /\ phase = "compile" /\ t = text /\ f = Top /\ p = head + 1 /\ w = token /\ fn = compFn
      /\ f.at = "singleToken" /\ t \in Seq(Char) /\ f \in Frames /\ p \in 1..Len(t) + 1
      /\ Part(t, f, p) \in Wide(t) /\ f.cfn = "base" /\ Runner(t, f, p, w, fn)
      /\ IsToken(t, p, w) /\ p + 1 \in 1..Len(t) + 1 /\ p \notin {0, Len(t) + 1}
      /\ NextWord(t, p) = p
  BY DEF SingleNow, Now
<1>2. HasName(w) /\ Len(w) = 1
  BY NamesAre
<1>3. PICK q, g, c : q = p + 1 /\ g = Moved(f, "string") /\ c = Compiles(t)
  OBVIOUS
<1>4. /\ Step /\ compFn' = compFn /\ Goto("string")
      /\ token' = << >> /\ head' + 1 = q /\ out' = out \o << >> /\ << >> \in Outputs
  <2>1. SingleStep(p + Len(w), << >>) /\ Goto("string")
    BY <1>2, SingleSteps
  <2>2. SingleStep(q, << >>)
    BY <1>2, <1>3, <2>1
  <2>. QED
    BY <2>1, <2>2 DEF SingleStep
<1>5. MayGo(f, "string") /\ "string" \in Places
  BY <1>1, MayGoAre DEF Places, Chars
<1>6. g \in Frames /\ g.at = "string" /\ g.cfn = f.cfn /\ g.white = f.white
  BY <1>1, <1>3, <1>5, MovedFrame
<1>7. g.white = TRUE
  BY <1>1, <1>6 DEF Runner
<1>8. q \in 1..Len(t) + 1 /\ Word(t, p) = w
  BY <1>1, <1>3, TokenThere
<1>9. Part(t, g, q) = c["blank"][q]
  <2>1. Part(t, g, q) = c[Blanks(g.white)][q]
    BY <1>1, <1>3, <1>6, <1>8, PartAt
  <2>. QED
    BY <1>7, <2>1 DEF Blanks
<1>10. Part(t, f, p) = c["blank"][q]
  <2>1. Part(t, f, p) = c["token"][p]
    BY <1>1, <1>3, PartAt
  <2>2. c["token"][p] = TokenMeant(t, c, p)
    BY <1>1, <1>3, CompilesAt
  <2>. QED
    BY <1>1, <1>3, <1>8, <2>1, <2>2 DEF TokenMeant
<1>11. Part(t, f, p) = Then(<< >>, Part(t, g, q))
  BY <1>1, <1>9, <1>10, ThenNone
<1>12. TokenFits(t, q, << >>, "string")
  BY TokenFitsAt DEF Chars
<1>13. GotoStep(t, f, p, "string", g, q, << >>, << >>)
  BY ONLY <1>1, <1>3, <1>4, <1>5, <1>8, <1>11, <1>12 DEF GotoStep
<1>. QED
  BY <1>13, GotoKnows

LEMMA SingleBlk ==
  ASSUME ScannerInv, Understood, singleToken,
         NEW t, NEW f, NEW p, NEW w, NEW fn, SingleNow(t, f, p, w, fn), fn = "base", w = <<"B">>
  PROVE  MeaningInv'
<1>1. /\ phase = "compile" /\ t = text /\ f = Top /\ p = head + 1 /\ w = token /\ fn = compFn
      /\ f.at = "singleToken" /\ t \in Seq(Char) /\ f \in Frames /\ p \in 1..Len(t) + 1
      /\ Part(t, f, p) \in Wide(t) /\ f.cfn = "base"
      /\ IsToken(t, p, w) /\ p + 1 \in 1..Len(t) + 1 /\ p \notin {0, Len(t) + 1}
      /\ NextWord(t, p) = p
  BY DEF SingleNow, Now
<1>2. HasName(w) /\ Len(w) = 1 /\ compFnAt = "baseCompFn"
  BY <1>1, NamesAre DEF compFnAt
<1>3. PICK q, g, c, x, h : /\ q = p + 1 /\ g = Moved(f, "blkBody") /\ c = Compiles(t)
                           /\ x = << <<"B">> >> /\ h = Frame("baseCompFn")
  OBVIOUS
<1>4. /\ Step /\ compFn' = compFn /\ CallThen("blkBody", "baseCompFn")
      /\ token' = << >> /\ head' + 1 = q /\ out' = out \o x /\ x \in Outputs
  <2>1. SingleStep(p + Len(w), <<w>>) /\ CallThen("blkBody", "baseCompFn")
    BY <1>2, SingleSteps
  <2>2. SingleStep(q, x)
    BY <1>2, <1>3, <2>1
  <2>. QED
    BY <2>1, <2>2 DEF SingleStep
<1>5. MayCall(f, "blkBody", "baseCompFn", compFn) /\ "blkBody" \in Places /\ "baseCompFn" \in Places
  BY <1>1, MayCallAre DEF Places, Others
<1>6. g \in Frames /\ g.at = "blkBody" /\ h \in Frames /\ h.at = "baseCompFn"
  BY <1>1, <1>3, <1>5, MovedFrame, FrameIsFrame DEF ScannerInv
<1>7. q \in 1..Len(t) + 1 /\ Word(t, p) = w
  BY <1>1, <1>3, TokenThere
<1>8. PICK a, m : a = Part(t, h, q) /\ m = a.next
  OBVIOUS
<1>9. a = c["token"][q]
  BY <1>1, <1>3, <1>6, <1>7, <1>8, PartAt
<1>10. Part(t, f, p) = Blk(t, c, q)
  <2>1. Part(t, f, p) = c["token"][p]
    BY <1>1, <1>3, PartAt
  <2>2. c["token"][p] = TokenMeant(t, c, p)
    BY <1>1, <1>3, CompilesAt
  <2>. QED
    BY <1>1, <1>3, <1>7, <2>1, <2>2 DEF TokenMeant
<1>11. Part(t, f, p) = Then(x, Then(a.out, Part(t, g, a.next)))
  BY <1>1, <1>3, <1>6, <1>7, <1>8, <1>9, <1>10, BlkIs
<1>12. TokenFits(t, q, << >>, "baseCompFn")
  BY TokenFitsAt DEF Delivers, Plain
<1>13. CallStep(t, f, p, "blkBody", "baseCompFn", g, h, a, q, << >>, x)
  BY ONLY <1>1, <1>3, <1>4, <1>5, <1>7, <1>8, <1>11, <1>12 DEF CallStep
<1>. QED
  BY <1>13, CallToKnows

LEMMA SingleCh ==
  ASSUME ScannerInv, Understood, singleToken,
         NEW t, NEW f, NEW p, NEW w, NEW fn, SingleNow(t, f, p, w, fn), fn = "base", w = <<"C">>
  PROVE  MeaningInv'
<1>1. /\ phase = "compile" /\ t = text /\ f = Top /\ p = head + 1 /\ w = token /\ fn = compFn
      /\ f.at = "singleToken" /\ t \in Seq(Char) /\ f \in Frames /\ p \in 1..Len(t) + 1
      /\ Part(t, f, p) \in Wide(t) /\ f.cfn = "base"
      /\ IsToken(t, p, w) /\ p + 1 \in 1..Len(t) + 1 /\ p \notin {0, Len(t) + 1}
      /\ NextWord(t, p) = p
  BY DEF SingleNow, Now
<1>2. HasName(w) /\ Len(w) = 1
  BY <1>1, NamesAre
<1>3. PICK q, g, c, x, h : /\ q = p + 1 /\ g = Moved(f, "ch") /\ c = Compiles(t)
                           /\ x = << <<"C">> >> /\ h = Frame("scan")
  OBVIOUS
<1>4. /\ Step /\ compFn' = compFn /\ CallThen("ch", "scan")
      /\ token' = << >> /\ head' + 1 = q /\ out' = out \o x /\ x \in Outputs
  <2>1. SingleStep(p + Len(w), <<w>>) /\ CallThen("ch", "scan")
    BY <1>2, SingleSteps
  <2>2. SingleStep(q, x)
    BY <1>2, <1>3, <2>1
  <2>. QED
    BY <2>1, <2>2 DEF SingleStep
<1>5. MayCall(f, "ch", "scan", compFn) /\ "ch" \in Places /\ "scan" \in Places
  BY <1>1, MayCallAre DEF Places, Others
<1>6. g \in Frames /\ g.at = "ch" /\ h \in Frames /\ h.at = "scan"
  BY <1>1, <1>3, <1>5, MovedFrame, FrameIsFrame DEF ScannerInv
<1>7. q \in 1..Len(t) + 1 /\ Word(t, p) = w
  BY <1>1, <1>3, TokenThere
<1>8. PICK a, n : a = Part(t, h, q) /\ n = NextWord(t, q)
  OBVIOUS
<1>9. a = Nothing(n) /\ a.next = n
  <2>1. a = Nothing(n)
    BY <1>1, <1>6, <1>7, <1>8, PartAt
  <2>. QED
    BY <1>1, <1>7, <1>8, <2>1, NextWordCases, NothingWide
<1>10. Part(t, f, p) = Ch(t, q)
  <2>1. Part(t, f, p) = c["token"][p]
    BY <1>1, <1>3, PartAt
  <2>2. c["token"][p] = TokenMeant(t, c, p)
    BY <1>1, <1>3, CompilesAt
  <2>. QED
    BY <1>1, <1>3, <1>7, <2>1, <2>2 DEF TokenMeant
<1>11. Part(t, f, p) = Then(x, Then(a.out, Part(t, g, a.next)))
  BY <1>1, <1>3, <1>6, <1>7, <1>8, <1>9, <1>10, ChIs
<1>12. TokenFits(t, q, << >>, "scan")
  BY TokenFitsAt DEF Delivers, Plain
<1>13. CallStep(t, f, p, "ch", "scan", g, h, a, q, << >>, x)
  BY ONLY <1>1, <1>3, <1>4, <1>5, <1>7, <1>8, <1>11, <1>12 DEF CallStep
<1>. QED
  BY <1>13, CallToKnows

LEMMA SingleName ==
  ASSUME ScannerInv, Understood, singleToken,
         NEW t, NEW f, NEW p, NEW w, NEW fn, SingleNow(t, f, p, w, fn), fn = "base",
         HasName(w), w \notin {<<"(">>, <<"|">>, <<"B">>, <<"C">>}
  PROVE  MeaningInv'
<1>1. /\ phase = "compile" /\ t = text /\ f = Top /\ p = head + 1 /\ w = token /\ fn = compFn
      /\ f.at = "singleToken" /\ t \in Seq(Char) /\ f \in Frames /\ p \in 1..Len(t) + 1
      /\ Part(t, f, p) \in Wide(t) /\ f.cfn = "base"
      /\ IsToken(t, p, w) /\ p \notin {0, Len(t) + 1} /\ NextWord(t, p) = p
  BY DEF SingleNow, Now
<1>2. PICK q, c, x : q = p + Len(w) /\ c = Compiles(t) /\ x = <<w>>
  OBVIOUS
<1>3. /\ Step /\ compFn' = compFn /\ Return
      /\ token' = << >> /\ head' + 1 = q /\ out' = out \o x /\ x \in Outputs
  BY <1>2, SingleSteps DEF SingleStep
<1>4. q \in 1..Len(t) + 1 /\ Word(t, p) = w
  BY <1>1, <1>2, TokenThere, TokenEnds
<1>5. Part(t, f, p) = Items(x, q)
  <2>1. Part(t, f, p) = c["token"][p]
    BY <1>1, <1>2, PartAt
  <2>2. c["token"][p] = TokenMeant(t, c, p)
    BY <1>1, <1>2, CompilesAt
  <2>. QED
    BY <1>1, <1>2, <1>4, <2>1, <2>2 DEF TokenMeant
<1>6. f.at \notin Sources /\ f.at \notin Commenting /\ Delivers(t, q, << >>, Yields(f.at))
  BY <1>1 DEF Sources, Commenting, Yields, Delivers
<1>7. LeaveStep(t, f, p, q, << >>, x)
  BY ONLY <1>1, <1>3, <1>4, <1>5, <1>6 DEF LeaveStep
<1>. QED
  BY <1>7, LeaveKnows

-----------------------------------------------------------------------------
(* What is dropped at a token is a block.                                  *)
LEMMA OpensBlock ==
  ASSUME NEW t, NEW f, NEW p, NEW w, NEW fn, Now(t, f, p, w, fn), f.at = "singleToken",
         NextWord(t, p) = p, fn = f.cfn, fn # "base"
  PROVE  p \notin {0, Len(t) + 1} /\ t[p] = "("
<1>1. /\ t \in Seq(Char) /\ f \in Frames /\ p \in 1..Len(t) + 1
      /\ Part(t, f, p).next # Wrong(t)
  BY DEF Now
<1>2. Part(t, f, p) = Nothing(Opened(t, p))
  BY <1>1, PartAt
<1>3. Nothing(Wrong(t)).next = Wrong(t)
  BY <1>1, NothingWide, SpotsAre
<1>4. Opened(t, p) # Wrong(t)
  BY <1>1, <1>2, <1>3
<1>. QED
  BY <1>4 DEF Opened

LEMMA SingleNone ==
  ASSUME ScannerInv, Understood, singleToken, phase = "compile",
         NEW t, NEW f, NEW p, NEW w, NEW fn, Now(t, f, p, w, fn), f.at = "singleToken",
         NextWord(t, p) = p, f.cfn = "base", w = << >>, p = Len(t) + 1
  PROVE  MeaningInv'
<1>1. /\ t = text /\ f = Top /\ p = head + 1 /\ w = token
      /\ t \in Seq(Char) /\ f \in Frames /\ p \in 1..Len(t) + 1
  BY DEF Now
<1>2. /\ Step /\ compFn' = compFn /\ tokenDrop /\ out' = out /\ Return
  BY <1>1, SMTT(30) DEF singleToken
<1>3. out' = out \o << >> /\ << >> \in Outputs
  BY <1>2, Quiet
<1>4. token' = << >> /\ head' + 1 = p
  <2>1. token' = << >> /\ head' + 1 = p + Len(w)
    BY <1>1, <1>2, DropEnds
  <2>2. Len(w) = 0
    OBVIOUS
  <2>. QED
    BY <1>1, <2>1, <2>2
<1>5. Part(t, f, p) = Items(<< >>, p)
  <2>1. PICK c : c = Compiles(t)
    OBVIOUS
  <2>2. Part(t, f, p) = c["token"][p]
    BY <1>1, <2>1, PartAt
  <2>3. c["token"][p] = TokenMeant(t, c, p)
    BY <1>1, <2>1, CompilesAt
  <2>. QED
    BY <2>2, <2>3 DEF TokenMeant
<1>6. f.at \notin Sources /\ f.at \notin Commenting /\ Delivers(t, p, << >>, Yields(f.at))
  BY <1>1 DEF Sources, Commenting, Yields, Delivers
<1>7. LeaveStep(t, f, p, p, << >>, << >>)
  BY ONLY phase = "compile", <1>1, <1>2, <1>3, <1>4, <1>5, <1>6 DEF LeaveStep
<1>. QED
  BY <1>7, LeaveKnows

LEMMA SingleUnknown ==
  ASSUME ScannerInv, Understood, Clears, "newRepl" \in Rules, singleToken,
         NEW t, NEW f, NEW p, NEW w, NEW fn, SingleNow(t, f, p, w, fn), fn = "base", ~HasName(w)
  PROVE  MeaningInv'
<1>1. /\ phase = "compile" /\ t = text /\ f = Top /\ p = head + 1 /\ w = token /\ f.cfn = "base"
      /\ f.at = "singleToken" /\ t \in Seq(Char) /\ f \in Frames /\ p \in 1..Len(t) + 1
      /\ IsToken(t, p, w) /\ p \notin {0, Len(t) + 1} /\ NextWord(t, p) = p
  BY DEF SingleNow, Now
<1>2. Panic
  <2>1. w # << >>
    BY <1>1, TokenEnds
  <2>. QED
    BY <1>1, <2>1 DEF singleToken
<1>3. PICK c : c = Compiles(t)
  OBVIOUS
<1>4. Part(t, f, p) = TokenMeant(t, c, p)
  BY <1>1, <1>3, PartAt, CompilesAt
<1>5. Word(t, p) = w /\ w \notin {<<"(">>, <<"|">>, <<"B">>, <<"C">>}
  <2>1. /\ HasName(<<"(">>) /\ HasName(<<"|">>) /\ HasName(<<"B">>) /\ HasName(<<"C">>)
    BY NamesAre
  <2>2. w # <<"(">> /\ w # <<"|">> /\ w # <<"B">> /\ w # <<"C">>
    BY <2>1
  <2>. QED
    BY <1>1, <2>2, TokenThere
<1>6. Part(t, f, p) = Nothing(0)
  BY <1>1, <1>4, <1>5 DEF TokenMeant, Nothing
<1>. QED
  BY <1>1, <1>2, <1>6, PanicKnows

LEMMA singleTokenMeans ==
  ASSUME ScannerInv, Understood, Clears, "newRepl" \in Rules, singleToken
  PROVE  MeaningInv'
<1>1. phase = "compile" /\ Top.at = "singleToken"
  BY DEF singleToken, At
<1>2. PICK t, f, p, w, fn : Now(t, f, p, w, fn)
  BY <1>1, NowRuns
<1>3. /\ f = Top /\ f.at = "singleToken" /\ t \in Seq(Char)
  BY <1>1, <1>2 DEF Now
<1>4. /\ NextWord(t, p) = p
      /\ (w = << >> /\ p = Len(t) + 1) \/ (IsToken(t, p, w)
             /\ p + 1 \in 1..Len(t) + 1 /\ p \notin {0, Len(t) + 1})
  BY <1>1, <1>2, <1>3, AtWord
<1>5. fn = f.cfn
  <2>1. Yields(f.at) # "token" /\ f.at \notin Commenting
    BY <1>3 DEF Yields, Commenting
  <2>. QED
    BY <1>1, <1>2, <2>1, NowCompiles
<1>6. CASE fn = "base" /\ w = << >> /\ p = Len(t) + 1
  BY <1>1, <1>2, <1>3, <1>4, <1>5, <1>6, SingleNone
<1>7. ASSUME IsToken(t, p, w), p + 1 \in 1..Len(t) + 1, p \notin {0, Len(t) + 1}
      PROVE  SingleNow(t, f, p, w, fn)
  BY <1>1, <1>2, <1>3, <1>4, <1>5, <1>7 DEF SingleNow
<1>8. CASE fn = "base" /\ IsToken(t, p, w) /\ p + 1 \in 1..Len(t) + 1 /\ p \notin {0, Len(t) + 1}
  <2>1. SingleNow(t, f, p, w, fn)
    BY <1>7, <1>8
  <2>. QED
    BY <1>8, <2>1, SingleParen, SingleString, SingleBlk, SingleCh, SingleName, SingleUnknown
<1>9. CASE fn # "base"
  <2>1. p \notin {0, Len(t) + 1} /\ t[p] = "("
    BY <1>2, <1>3, <1>4, <1>5, <1>9, OpensBlock
  <2>2. IsToken(t, p, w) /\ p + 1 \in 1..Len(t) + 1
    BY <1>4, <2>1
  <2>3. w = <<"(">>
    <3>1. "(" \in Single
      BY DEF Single
    <3>. QED
      BY <1>3, <2>1, <2>2, <3>1, TokenThere
  <2>4. SingleNow(t, f, p, w, fn)
    BY <1>7, <2>1, <2>2
  <2>. QED
    BY <2>3, <2>4, SingleParen
<1>. QED
  BY <1>4, <1>6, <1>8, <1>9

-----------------------------------------------------------------------------
(* Characters and strings.                                                 *)

(* What a character of a string adds, and whether blanks are left out      *)
(* after it.                                                               *)
Kept(ch, white)  == IF ch = " " /\ white THEN << >> ELSE << <<"|", ch>> >>
After(ch, white) == IF ch \in {"|", " "} THEN white ELSE ch = "nl"

LEMMA NoCharacter ==
  ASSUME NEW t \in Seq(Char), NEW p, p = Len(t) + 1, NEW white, NEW c, c = Compiles(t)
  PROVE  /\ CharAt(t, p) = Nothing(0) /\ CharEscaped(t, p) = Nothing(0)
         /\ StringEscaped(t, white, p) = Nothing(0) /\ c[Blanks(white)][p] = Nothing(0)
<1>1. p > Len(t) /\ p \in 1..Len(t) + 1
  BY LenProperties
<1>2. \A set : Escape(t, p, set).next = 0
  BY <1>1 DEF Escape
<1>3. CharAt(t, p) = Nothing(0) /\ CharEscaped(t, p) = Nothing(0)
  BY <1>1, <1>2 DEF CharAt, CharEscaped
<1>4. StringEscaped(t, white, p) = Nothing(0)
  BY <1>1 DEF StringEscaped
<1>5. PICK what : what = Blanks(white) /\ what \in {"blank", "string"}
  BY DEF Blanks
<1>6. c[what][p] = StringMeant(t, c, what, p)
  BY <1>1, <1>5, CompilesAt
<1>7. c[what][p] = Nothing(0)
  BY <1>2, <1>6 DEF StringMeant, Nothing
<1>. QED
  BY <1>3, <1>4, <1>5, <1>7

LEMMA CharacterIs ==
  ASSUME NEW t \in Seq(Char), NEW p \in 1..Len(t), NEW q, q = p + 1
  PROVE  /\ q \in 1..Len(t) + 1
         /\ t[p] # "\\" => CharAt(t, p) = Items(<< <<"C", t[p]>> >>, q)
         /\ t[p] = "\\" => CharAt(t, p) = CharEscaped(t, q)
         /\ t[p] \in {"n", " "} => CharEscaped(t, p) = Items(<< <<"C", Letter(t[p])>> >>, q)
         /\ t[p] \notin {"n", " "} => CharEscaped(t, p) = Nothing(0)
<1>1. PICK l \in Nat : l = Len(t)
  BY LenProperties
<1>2. p \in 1..l /\ ~(p > l) /\ q \in 1..l + 1 /\ q # 0 /\ p + 2 = q + 1 /\ q + 1 # 0
  BY <1>1
<1>3. PICK set, e : set = {"n", " "} /\ e = Escape(t, p, set)
  OBVIOUS
<1>4. t[p] # "\\" => e.c = t[p] /\ e.next = q
  BY <1>1, <1>2, <1>3 DEF Escape
<1>5. t[p] # "\\" => CharAt(t, p) = Items(<< <<"C", t[p]>> >>, q)
  BY <1>2, <1>3, <1>4 DEF CharAt
<1>6. ASSUME t[p] = "\\"
      PROVE  CharAt(t, p) = CharEscaped(t, q)
  <2>1. p = l <=> q > l
    BY <1>2
  <2>2. CASE q > l \/ t[q] \notin set
    <3>1. e.next = 0
      BY <1>1, <1>2, <1>3, <1>6, <2>1, <2>2 DEF Escape
    <3>2. CharAt(t, p) = Nothing(0)
      BY <1>3, <3>1 DEF CharAt
    <3>. QED
      BY <1>1, <1>3, <2>2, <3>2 DEF CharEscaped
  <2>3. CASE ~(q > l \/ t[q] \notin set)
    <3>1. e.c = Letter(t[q]) /\ e.next = q + 1
      BY <1>1, <1>2, <1>3, <1>6, <2>1, <2>3 DEF Escape, Letter
    <3>2. CharAt(t, p) = Items(<< <<"C", Letter(t[q])>> >>, q + 1)
      BY <1>2, <1>3, <3>1 DEF CharAt
    <3>. QED
      BY <1>1, <1>3, <2>3, <3>2 DEF CharEscaped
  <2>. QED
    BY <2>2, <2>3
<1>7. /\ t[p] \in {"n", " "} => CharEscaped(t, p) = Items(<< <<"C", Letter(t[p])>> >>, q)
      /\ t[p] \notin {"n", " "} => CharEscaped(t, p) = Nothing(0)
  BY <1>1, <1>2 DEF CharEscaped
<1>. QED
  BY <1>1, <1>2, <1>5, <1>6, <1>7

LEMMA StringIs ==
  ASSUME NEW t \in Seq(Char), NEW p \in 1..Len(t), NEW q, q = p + 1,
         NEW c, c = Compiles(t), NEW white \in BOOLEAN, NEW what, what = Blanks(white)
  PROVE  /\ t[p] = "|" => c[what][p] = Items(<< <<"|", "end">> >>, q)
         /\ t[p] \notin {"|", "\\"} =>
              c[what][p] = Then(Kept(t[p], white), c[Blanks(After(t[p], white))][q])
         /\ t[p] = "\\" => c[what][p] = StringEscaped(t, white, q)
<1>1. PICK l \in Nat : l = Len(t)
  BY LenProperties
<1>2. p \in 1..l /\ p \in 1..Len(t) + 1 /\ ~(p > l) /\ q \in 1..l + 1 /\ q # 0 /\ p + 2 = q + 1 /\ q + 1 # 0
  BY <1>1
<1>3. PICK set, e : set = {"n", " ", "|"} /\ e = Escape(t, p, set)
  OBVIOUS
<1>4. what \in {"blank", "string"} /\ (what = "blank" <=> white)
  BY DEF Blanks
<1>5. c[what][p] = StringMeant(t, c, what, p)
  BY <1>2, <1>4, CompilesAt
<1>6. PICK goes, item :
        /\ goes = IF e.c \in {"|", " "} THEN what ELSE IF e.c = "nl" THEN "blank" ELSE "string"
        /\ item = IF e.c = " " /\ what = "blank" THEN << >> ELSE << <<"|", e.c>> >>
  OBVIOUS
<1>7. goes = Blanks(After(e.c, white)) /\ item = Kept(e.c, white)
  BY <1>4, <1>6 DEF Blanks, After, Kept
<1>8. StringMeant(t, c, what, p) =
        IF e.next = 0 THEN Nothing(0)
        ELSE IF t[p] = "|" THEN Items(<< <<"|", "end">> >>, e.next)
        ELSE Then(item, c[goes][e.next])
  BY <1>3, <1>6 DEF StringMeant, Nothing
<1>9. ASSUME t[p] # "\\"
      PROVE  e.c = t[p] /\ e.next = q /\ e.next # 0
  BY <1>1, <1>2, <1>3, <1>9 DEF Escape
<1>10. ASSUME t[p] = "\\"
       PROVE  c[what][p] = StringEscaped(t, white, q)
  <2>1. p = l <=> q > l
    BY <1>2
  <2>2. CASE q > l \/ t[q] \notin set
    <3>1. e.next = 0
      BY <1>1, <1>2, <1>3, <1>10, <2>1, <2>2 DEF Escape
    <3>. QED
      BY <1>1, <1>3, <1>5, <1>8, <2>2, <3>1 DEF StringEscaped
  <2>3. CASE ~(q > l \/ t[q] \notin set)
    <3>1. e.c = Letter(t[q]) /\ e.next = q + 1
      BY <1>1, <1>2, <1>3, <1>10, <2>1, <2>3 DEF Escape, Letter
    <3>2. c[what][p] = Then(item, c[goes][q + 1])
      BY <1>2, <1>5, <1>8, <1>10, <3>1
    <3>3. PICK d : d = Letter(t[q])
      OBVIOUS
    <3>4. /\ goes = IF d \in {"|", " "} THEN Blanks(white) ELSE Blanks(d = "nl")
          /\ item = IF d = " " /\ white THEN << >> ELSE << <<"|", d>> >>
      BY <1>7, <3>1, <3>3 DEF After, Kept
    <3>. QED
      BY <1>1, <1>3, <2>3, <3>2, <3>3, <3>4 DEF StringEscaped
  <2>. QED
    BY <2>2, <2>3
<1>11. t[p] = "|" => c[what][p] = Items(<< <<"|", "end">> >>, q)
  BY <1>5, <1>8, <1>9
<1>12. t[p] \notin {"|", "\\"} =>
         c[what][p] = Then(Kept(t[p], white), c[Blanks(After(t[p], white))][q])
  BY <1>5, <1>7, <1>8, <1>9
<1>. QED
  BY <1>10, <1>11, <1>12

(* At p is the rest of an escape, which is d.                              *)
EscapeAt(t, p, white, d) ==
  /\ t \in Seq(Char) /\ p \in 1..Len(t) /\ white \in BOOLEAN
  /\ t[p] \in {"n", " ", "|"} /\ d = Letter(t[p])

LEMMA EscapedIs ==
  ASSUME NEW t, NEW p, NEW white, NEW d, EscapeAt(t, p, white, d)
  PROVE  StringEscaped(t, white, p) =
           Then(Kept(d, white), Compiles(t)[Blanks(After(d, white))][p + 1])
<1>1. ~(p > Len(t))
  <2>1. t \in Seq(Char) /\ p \in 1..Len(t)
    BY DEF EscapeAt
  <2>. QED
    BY ONLY <2>1, LenProperties
<1>2. Blanks(After(d, white)) = IF d \in {"|", " "} THEN Blanks(white) ELSE Blanks(d = "nl")
  BY DEF After
<1>. QED
  BY <1>1, <1>2 DEF StringEscaped, Kept, Letter, EscapeAt

LEMMA EscapedNot ==
  ASSUME NEW t, NEW p, NEW white, t[p] \notin {"n", " ", "|"}
  PROVE  StringEscaped(t, white, p) = Nothing(0)
BY DEF StringEscaped

-----------------------------------------------------------------------------
(* A character has been taken, by N_ch or by parseSlc.                     *)
Took(t, f, p, q) ==
  /\ phase = "compile" /\ Step /\ compFn' = compFn /\ token' = << >> /\ head' + 1 = q
  /\ t = text /\ f = Top /\ p = head + 1 /\ f.at \in Chars /\ q \in 1..Len(t) + 1
  /\ t \in Seq(Char) /\ f \in Frames /\ f.cfn = "base" /\ compFn = "base"

LEMMA Takes ==
  ASSUME ScannerInv, Understood, phase = "compile", Step, compFn' = compFn, token' = token,
         incHead(1), NEW t, NEW f, NEW p, NEW w, NEW fn, Now(t, f, p, w, fn), f.at \in Chars,
         NEW q, q = p + 1, p \in 1..Len(t)
  PROVE  Took(t, f, p, q)
<1>1. /\ t = text /\ f = Top /\ p = head + 1 /\ w = token
      /\ t \in Seq(Char) /\ f \in Frames /\ p \in 1..Len(t) + 1 /\ TokenFits(t, p, w, f.at)
  BY DEF Now
<1>2. f.cfn = "base" /\ compFn = "base"
  <2>1. f.at \in Compiling
    BY DEF Compiling
  <2>. QED
    BY <2>1, NowCompiles
<1>3. w = << >>
  BY <1>1, TokenFitsAt
<1>4. q \in 1..Len(t) + 1
  BY <1>1, LenProperties
<1>5. head' + 1 = q
  BY <1>1 DEF incHead, ScannerInv
<1>. QED
  BY <1>1, <1>2, <1>3, <1>4, <1>5 DEF Took

LEMMA CharacterGiven ==
  ASSUME ScannerInv, Understood, NEW t, NEW f, NEW p, NEW q, Took(t, f, p, q),
         f.at \in {"char", "charEscape"}, NEW ch \in Symbols, NEW u, Given(ch, u),
         Part(t, f, p) = Items(<< <<"C", ch>> >>, q)
  PROVE  MeaningInv'
<1>1. f = Top /\ phase = "compile" /\ Return /\ out' = Append(out, <<"C", ch>>)
  BY DEF Given, Took
<1>2. PICK x : x = << <<"C", ch>> >>
  OBVIOUS
<1>3. x \in Outputs /\ out' = out \o x
  BY <1>1, <1>2, PutsOut, WordsPutOut
<1>4. f.at \notin Sources /\ f.at \notin Commenting /\ Delivers(t, q, << >>, Yields(f.at))
  BY DEF Sources, Commenting, Yields, Delivers
<1>5. Part(t, f, p) = Items(x, q)
  BY <1>2
<1>6. LeaveStep(t, f, p, q, << >>, x)
  BY ONLY Took(t, f, p, q), <1>1, <1>3, <1>4, <1>5 DEF LeaveStep, Took
<1>. QED
  BY <1>6, LeaveKnows

LEMMA StringGoesOn ==
  ASSUME ScannerInv, Understood, NEW t, NEW f, NEW p, NEW q, Took(t, f, p, q), f.at \in Strings,
         NEW white \in BOOLEAN,
         ctl' = [ctl EXCEPT ![Len(ctl)].at = "string", ![Len(ctl)].white = white],
         NEW x \in Outputs, out' = out \o x,
         Part(t, f, p) = Then(x, Compiles(t)[Blanks(white)][q])
  PROVE  MeaningInv'
<1>1. PICK g : g = [f EXCEPT !.at = "string", !.white = white]
  OBVIOUS
<1>2. /\ f = Top /\ phase = "compile" /\ Step /\ compFn' = compFn /\ token' = << >> /\ head' + 1 = q
      /\ t = text /\ p = head + 1 /\ f \in Frames /\ f.cfn = "base" /\ compFn = "base"
      /\ t \in Seq(Char) /\ q \in 1..Len(t) + 1
  BY DEF Took
<1>3. g \in Frames /\ g.at = "string" /\ g.white = white /\ g.cfn = "base"
  BY <1>1, <1>2 DEF Frames, Places, Chars
<1>4. Fits(g, f)
  BY <1>2, <1>3 DEF Fits, Yields, Strings
<1>5. ctl' = [ctl EXCEPT ![Len(ctl)] = g]
  <2>1. PICK k, n : k = ctl /\ n = Len(k)
    OBVIOUS
  <2>2. n \in DOMAIN k /\ f = k[n]
    BY <1>2, <2>1, LenProperties DEF ScannerInv, Active, Top
  <2>3. [k EXCEPT ![n].at = "string", ![n].white = white] = [k EXCEPT ![n] = g]
    BY <1>1, <1>2, <2>2 DEF Frames
  <2>. QED
    BY <2>1, <2>3
<1>6. Part(t, g, q) = Compiles(t)[Blanks(white)][q]
  BY <1>2, <1>3, PartAt
<1>7. Part(t, f, p) = Then(x, Part(t, g, q))
  BY <1>6
<1>8. compFn' = (IF Yields(g.at) = "token" THEN compFn ELSE Runs(g))
  BY <1>2, <1>3 DEF Yields, Runs
<1>9. TokenFits(t, q, << >>, g.at)
  BY <1>3, TokenFitsAt DEF Chars
<1>10. PICK v : v = << >>
  OBVIOUS
<1>11. token' = v /\ TokenFits(t, q, v, g.at)
  BY <1>2, <1>9, <1>10
<1>. QED
  BY ONLY ScannerInv, Understood, x \in Outputs, out' = out \o x,
          <1>2, <1>4, <1>5, <1>7, <1>8, <1>11, GoesKnows, Zenon

LEMMA StringGiven ==
  ASSUME ScannerInv, Understood, NEW t, NEW f, NEW p, NEW q, Took(t, f, p, q), f.at \in Strings,
         NEW ch \in Symbols, NEW u \in BOOLEAN, Given(ch, u),
         ch = "|" /\ ~u => Part(t, f, p) = Items(<< <<"|", "end">> >>, q),
         ~(ch = "|" /\ ~u) =>
           Part(t, f, p) = Then(Kept(ch, f.white), Compiles(t)[Blanks(After(ch, f.white))][q])
  PROVE  MeaningInv'
<1>1. f = Top /\ phase = "compile" /\ f.white \in BOOLEAN
  BY DEF Took, Frames
<1>2. parseSlc(ch, u)
  BY <1>1 DEF Given, Strings
<1>3. PICK white : white = After(ch, f.white)
  OBVIOUS
<1>4. white \in BOOLEAN
  BY <1>1, <1>3 DEF After
<1>5. /\ ch = "|" /\ ~u => Return /\ out' = Append(out, <<"|", "end">>)
      /\ ~(ch = "|" /\ ~u) =>
           ctl' = [ctl EXCEPT ![Len(ctl)].at = "string", ![Len(ctl)].white = white]
      /\ ~(ch = "|" /\ ~u) /\ ch = " " /\ f.white => out' = out
      /\ ~(ch = "|" /\ ~u) /\ ~(ch = " " /\ f.white) => out' = Append(out, <<"|", ch>>)
  BY <1>1, <1>2, <1>3 DEF parseSlc, After
<1>6. CASE ch = "|" /\ ~u
  <2>1. PICK x : x = << <<"|", "end">> >>
    OBVIOUS
  <2>2. x \in Outputs /\ out' = out \o x /\ Return
    BY <1>5, <1>6, <2>1, PutsOut, WordsPutOut
  <2>3. f.at \notin Sources /\ f.at \notin Commenting /\ Delivers(t, q, << >>, Yields(f.at))
    BY DEF Sources, Commenting, Yields, Delivers, Strings
  <2>4. Part(t, f, p) = Items(x, q)
    BY <1>6, <2>1
  <2>5. LeaveStep(t, f, p, q, << >>, x)
    BY ONLY Took(t, f, p, q), <2>2, <2>3, <2>4 DEF LeaveStep, Took
  <2>. QED
    BY <2>5, LeaveKnows
<1>7. CASE ~(ch = "|" /\ ~u)
  <2>1. PICK x : x = Kept(ch, f.white)
    OBVIOUS
  <2>2. x \in Outputs /\ out' = out \o x
    <3>1. CASE ch = " " /\ f.white
      BY <1>5, <1>7, <2>1, <3>1, Quiet DEF Kept
    <3>2. CASE ~(ch = " " /\ f.white)
      <4>1. x = << <<"|", ch>> >>
        BY <2>1, <3>2 DEF Kept
      <4>2. out' = Append(out, <<"|", ch>>)
        BY <1>5, <1>7, <3>2
      <4>. QED
        BY <4>1, <4>2, PutsOut, WordsPutOut
    <3>. QED
      BY <3>1, <3>2
  <2>3. Part(t, f, p) = Then(x, Compiles(t)[Blanks(white)][q])
    BY <1>3, <1>7, <2>1
  <2>4. ctl' = [ctl EXCEPT ![Len(ctl)].at = "string", ![Len(ctl)].white = white]
    BY <1>5, <1>7
  <2>. QED
    BY <1>4, <2>2, <2>3, <2>4, StringGoesOn
<1>. QED
  BY <1>6, <1>7

-----------------------------------------------------------------------------
(* No character is left where one is needed: a panic.                      *)
LEMMA NoneLeft ==
  ASSUME ScannerInv, Understood, Clears, "newRepl" \in Rules, Panic, phase = "compile",
         NEW t, NEW f, NEW p, NEW w, NEW fn, Now(t, f, p, w, fn), f.at \in Chars, None(0)
  PROVE  MeaningInv'
<1>1. /\ t = text /\ f = Top /\ p = head + 1 /\ t \in Seq(Char) /\ f \in Frames /\ p \in 1..Len(t) + 1
  BY DEF Now
<1>2. p = Len(t) + 1
  <2>1. 0 \in Nat /\ Len(t) \in Nat /\ p \in Nat
    BY <1>1, LenProperties
  <2>2. p + 0 > Len(t)
    BY <1>1, <2>1, RingIsText
  <2>. QED
    BY <1>1, <2>1, <2>2
<1>3. PICK c, white : c = Compiles(t) /\ white = f.white
  OBVIOUS
<1>4. /\ CharAt(t, p) = Nothing(0) /\ CharEscaped(t, p) = Nothing(0)
      /\ StringEscaped(t, white, p) = Nothing(0) /\ c[Blanks(white)][p] = Nothing(0)
  BY <1>1, <1>2, <1>3, NoCharacter
<1>5. /\ f.at = "char" => Part(t, f, p) = CharAt(t, p)
      /\ f.at = "charEscape" => Part(t, f, p) = CharEscaped(t, p)
      /\ f.at = "string" => Part(t, f, p) = c[Blanks(white)][p]
      /\ f.at = "stringEscape" => Part(t, f, p) = StringEscaped(t, white, p)
  BY <1>1, <1>3, PartAt
<1>6. Part(t, f, p) = Nothing(0)
  BY <1>4, <1>5 DEF Chars
<1>. QED
  BY <1>1, <1>6, PanicKnows

(* The character at the head.                                              *)
LEMMA HeadIs ==
  ASSUME ScannerInv, phase = "compile", Known(0), ~None(0),
         NEW t, NEW f, NEW p, NEW w, NEW fn, Now(t, f, p, w, fn)
  PROVE  p \in 1..Len(t) /\ Get(0) = t[p] /\ t[p] \in Symbols
<1>1. t = text /\ p = head + 1 /\ t \in Seq(Char) /\ p \in 1..Len(t) + 1
  BY DEF Now
<1>2. 0 \in Nat /\ Len(t) \in Nat
  BY <1>1, LenProperties
<1>3. p + 0 \in 1..Len(t) /\ Get(0) = t[p + 0]
  BY <1>1, <1>2, RingIsText
<1>4. p + 0 = p
  BY <1>1, <1>2
<1>. QED
  BY <1>1, <1>3, <1>4, TextSymbols

LEMMA charNextEscMeans ==
  ASSUME ScannerInv, Understood, Clears, "newRepl" \in Rules, charNextEsc
  PROVE  MeaningInv'
<1>1. phase = "compile" /\ Top.at \in {"char", "string"} /\ Known(0)
  BY DEF charNextEsc, At
<1>2. PICK t, f, p, w, fn : Now(t, f, p, w, fn)
  BY <1>1, NowRuns
<1>3. /\ t = text /\ f = Top /\ p = head + 1 /\ w = token /\ f.at \in {"char", "string"} /\ f.at \in Chars
      /\ t \in Seq(Char) /\ f \in Frames /\ p \in 1..Len(t) + 1 /\ Part(t, f, p) \in Wide(t)
      /\ f.white \in BOOLEAN
  BY <1>1, <1>2 DEF Now, Chars, Frames
<1>4. CASE None(0)
  <2>1. Panic
    BY <1>4 DEF charNextEsc
  <2>. QED
    BY <1>1, <1>2, <1>3, <1>4, <2>1, NoneLeft
<1>5. ASSUME ~None(0)
      PROVE  MeaningInv'
  <2>1. PICK ch, q, c : ch = t[p] /\ q = p + 1 /\ c = Compiles(t)
    OBVIOUS
  <2>2. p \in 1..Len(t) /\ Get(0) = ch /\ ch \in Symbols
    BY <1>1, <1>2, <1>5, <2>1, HeadIs
  <2>3. /\ incHead(1) /\ Step /\ token' = token /\ compFn' = compFn
        /\ ch # "\\" => Given(ch, FALSE)
        /\ ch = "\\" => out' = out /\ Goto(IF Top.at = "char" THEN "charEscape" ELSE "stringEscape")
    BY <1>5, <2>2 DEF charNextEsc
  <2>4. Took(t, f, p, q)
    BY <1>1, <1>2, <1>3, <2>1, <2>2, <2>3, Takes
  <2>5. q \in 1..Len(t) + 1 /\ f.cfn = "base"
    BY <2>4 DEF Took
  <2>6. /\ f.at = "char" => Part(t, f, p) = CharAt(t, p)
        /\ f.at = "string" => Part(t, f, p) = c[Blanks(f.white)][p]
    BY <1>3, <2>1, PartAt
  <2>7. CASE f.at = "char" /\ ch # "\\"
    <3>1. CharAt(t, p) = Items(<< <<"C", ch>> >>, q)
      BY <1>3, <2>1, <2>2, <2>7, CharacterIs
    <3>2. Given(ch, FALSE) /\ f.at \in {"char", "charEscape"}
      BY <2>3, <2>7
    <3>. QED
      BY <2>2, <2>4, <2>6, <2>7, <3>1, <3>2, CharacterGiven
  <2>8. CASE f.at = "string" /\ ch # "\\"
    <3>1. PICK white, what : white = f.white /\ what = Blanks(white)
      OBVIOUS
    <3>2. /\ ch = "|" => c[what][p] = Items(<< <<"|", "end">> >>, q)
          /\ ch \notin {"|", "\\"} =>
               c[what][p] = Then(Kept(ch, white), c[Blanks(After(ch, white))][q])
      BY <1>3, <2>1, <2>2, <3>1, StringIs
    <3>3. /\ ch = "|" /\ ~FALSE => Part(t, f, p) = Items(<< <<"|", "end">> >>, q)
          /\ ~(ch = "|" /\ ~FALSE) =>
               Part(t, f, p) = Then(Kept(ch, f.white), Compiles(t)[Blanks(After(ch, f.white))][q])
      BY <2>1, <2>6, <2>8, <3>1, <3>2
    <3>4. Given(ch, FALSE) /\ f.at \in Strings /\ FALSE \in BOOLEAN
      BY <2>3, <2>8 DEF Strings
    <3>. QED
      BY <2>2, <2>4, <3>3, <3>4, StringGiven
  <2>9. CASE f.at = "char" /\ ch = "\\"
    <3>1. Goto("charEscape") /\ out' = out \o << >> /\ << >> \in Outputs
      BY <1>3, <2>3, <2>9, Quiet
    <3>2. PICK g : g = Moved(f, "charEscape")
      OBVIOUS
    <3>3. MayGo(f, "charEscape") /\ "charEscape" \in Places
      BY <2>5, <2>9, MayGoAre DEF Places, Chars
    <3>4. g \in Frames /\ g.at = "charEscape"
      BY <1>3, <3>2, <3>3, MovedFrame
    <3>5. Part(t, g, q) = CharEscaped(t, q)
      BY <1>3, <2>5, <3>4, PartAt
    <3>6. CharAt(t, p) = CharEscaped(t, q)
      <4>1. t \in Seq(Char) /\ p \in 1..Len(t) /\ q = p + 1 /\ t[p] = "\\"
        BY <1>3, <2>1, <2>2, <2>9
      <4>. QED
        BY ONLY <4>1, CharacterIs
    <3>7. Part(t, f, p) = Then(<< >>, Part(t, g, q))
      BY <1>3, <2>6, <2>9, <3>5, <3>6, ThenNone
    <3>8. TokenFits(t, q, << >>, "charEscape")
      BY TokenFitsAt DEF Chars
    <3>9. GotoStep(t, f, p, "charEscape", g, q, << >>, << >>)
      BY ONLY <2>4, <3>1, <3>2, <3>3, <3>7, <3>8 DEF GotoStep, Took
    <3>. QED
      BY <3>9, GotoKnows
  <2>10. CASE f.at = "string" /\ ch = "\\"
    <3>1. Goto("stringEscape") /\ out' = out \o << >> /\ << >> \in Outputs
      BY <1>3, <2>3, <2>10, Quiet
    <3>2. PICK g, v, x : g = Moved(f, "stringEscape") /\ v = << >> /\ x = << >>
      OBVIOUS
    <3>3. g \in Frames /\ g.at = "stringEscape" /\ g.cfn = f.cfn /\ g.white = f.white
      <4>1. "stringEscape" \in Places
        BY DEF Places, Chars
      <4>. QED
        BY <1>3, <3>2, <4>1, MovedFrame
    <3>4. Part(t, g, q) = StringEscaped(t, f.white, q)
      BY <1>3, <2>5, <3>3, PartAt
    <3>5. PICK white, what : white = f.white /\ what = Blanks(white)
      OBVIOUS
    <3>6. c[what][p] = StringEscaped(t, white, q)
      <4>1. /\ t \in Seq(Char) /\ p \in 1..Len(t) /\ q = p + 1 /\ t[p] = "\\" /\ c = Compiles(t)
            /\ white \in BOOLEAN /\ what = Blanks(white)
        BY <1>3, <2>1, <2>2, <2>10, <3>5
      <4>. QED
        BY ONLY <4>1, StringIs
    <3>7. Part(t, f, p) = Then(x, Part(t, g, q))
      BY <1>3, <2>6, <2>10, <3>2, <3>4, <3>5, <3>6, ThenNone
    <3>8. Fits(g, f)
      BY <2>5, <2>10, <3>3 DEF Fits, Yields
    <3>9. ctl' = [ctl EXCEPT ![Len(ctl)] = g]
      BY <1>3, <3>1, <3>2 DEF Goto, Top, Moved
    <3>10. /\ phase = "compile" /\ Step /\ f = Top /\ t = text /\ q \in 1..Len(t) + 1 /\ head' + 1 = q
           /\ compFn' = (IF Yields(g.at) = "token" THEN compFn ELSE Runs(g))
           /\ token' = v /\ p = head + 1 /\ x \in Outputs /\ out' = out \o x
      BY <2>4, <2>5, <3>1, <3>2, <3>3 DEF Took, Yields, Runs
    <3>11. TokenFits(t, q, v, g.at)
      BY <3>2, <3>3, TokenFitsAt DEF Chars
    <3>. QED
      BY ONLY ScannerInv, Understood, <3>7, <3>8, <3>9, <3>10, <3>11, GoesKnows, Zenon
  <2>. QED
    BY <1>3, <2>7, <2>8, <2>9, <2>10
<1>. QED
  BY <1>4, <1>5

LEMMA charNextEsc_escapeMeans ==
  ASSUME ScannerInv, Understood, Clears, "newRepl" \in Rules, charNextEsc_escape
  PROVE  MeaningInv'
<1>1. phase = "compile" /\ Top.at \in {"charEscape", "stringEscape"} /\ Known(0)
  BY DEF charNextEsc_escape, At
<1>2. PICK t, f, p, w, fn : Now(t, f, p, w, fn)
  BY <1>1, NowRuns
<1>3. /\ t = text /\ f = Top /\ p = head + 1 /\ w = token /\ f.at \in {"charEscape", "stringEscape"}
      /\ f.at \in Chars /\ t \in Seq(Char) /\ f \in Frames /\ p \in 1..Len(t) + 1
      /\ f.white \in BOOLEAN
  BY <1>1, <1>2 DEF Now, Chars, Frames
<1>4. CASE None(0)
  <2>1. Panic
    BY <1>4 DEF charNextEsc_escape
  <2>. QED
    BY <1>1, <1>2, <1>3, <1>4, <2>1, NoneLeft
<1>5. ASSUME ~None(0)
      PROVE  MeaningInv'
  <2>1. PICK ch, q, c, d, white : ch = t[p] /\ q = p + 1 /\ c = Compiles(t) /\ d = Letter(t[p])
                                  /\ white = f.white
    OBVIOUS
  <2>2. p \in 1..Len(t) /\ Get(0) = ch /\ ch \in Symbols
    BY <1>1, <1>2, <1>5, <2>1, HeadIs
  <2>3. PICK set : set = {"n", " "} \union (IF f.at = "stringEscape" THEN {"|"} ELSE {})
    OBVIOUS
  <2>4. /\ f.at = "charEscape" => Part(t, f, p) = CharEscaped(t, p)
        /\ f.at = "stringEscape" => Part(t, f, p) = StringEscaped(t, white, p)
    BY <1>3, <2>1, PartAt
  <2>5. CASE ch \notin set
    <3>1. Panic
      BY <1>3, <2>2, <2>3, <2>5 DEF charNextEsc_escape
    <3>2. f.at = "charEscape" => Part(t, f, p) = Nothing(0)
      BY <1>3, <2>1, <2>2, <2>3, <2>4, <2>5, CharacterIs
    <3>3. ASSUME f.at = "stringEscape"
          PROVE  Part(t, f, p) = Nothing(0)
      <4>1. /\ t \in Seq(Char) /\ p \in 1..Len(t) /\ q = p + 1 /\ c = Compiles(t) /\ white \in BOOLEAN
            /\ d = Letter(t[p]) /\ t[p] \notin {"n", " ", "|"}
        BY <1>3, <2>1, <2>2, <2>3, <2>5, <3>3
      <4>2. StringEscaped(t, white, p) = Nothing(0)
        BY ONLY <4>1, EscapedNot
      <4>. QED
        BY <2>4, <3>3, <4>2
    <3>. QED
      BY <1>1, <1>3, <3>1, <3>2, <3>3, PanicKnows
  <2>6. ASSUME ch \in set
        PROVE  MeaningInv'
    <3>1. PICK u : u = (ch = "|")
      OBVIOUS
    <3>2. /\ incHead(1) /\ Step /\ token' = token /\ compFn' = compFn
          /\ Given(d, u)
      BY <1>3, <1>5, <2>1, <2>2, <2>3, <2>6, <3>1 DEF charNextEsc_escape, Letter
    <3>3. Took(t, f, p, q)
      BY <1>1, <1>2, <1>3, <2>1, <2>2, <3>2, Takes
    <3>4. d \in Symbols /\ u \in BOOLEAN
      BY <2>1, <2>2, <3>1 DEF Letter, Symbols
    <3>5. CASE f.at = "charEscape"
      <4>1. Part(t, f, p) = Items(<< <<"C", d>> >>, q)
        BY <1>3, <2>1, <2>2, <2>3, <2>4, <2>6, <3>5, CharacterIs
      <4>. QED
        BY <3>2, <3>3, <3>4, <3>5, <4>1, CharacterGiven
    <3>6. CASE f.at = "stringEscape"
      <4>1. d = "|" <=> u
        BY <2>1, <3>1 DEF Letter
      <4>2. Part(t, f, p) = Then(Kept(d, white), c[Blanks(After(d, white))][q])
        <5>1. EscapeAt(t, p, white, d)
          BY <1>3, <2>1, <2>2, <2>3, <2>6, <3>6 DEF EscapeAt
        <5>2. StringEscaped(t, white, p) =
                Then(Kept(d, white), Compiles(t)[Blanks(After(d, white))][p + 1])
          BY ONLY <5>1, EscapedIs
        <5>. QED
          BY <2>1, <2>4, <3>6, <5>2
      <4>3. /\ d = "|" /\ ~u => Part(t, f, p) = Items(<< <<"|", "end">> >>, q)
            /\ ~(d = "|" /\ ~u) =>
                 Part(t, f, p) = Then(Kept(d, f.white), Compiles(t)[Blanks(After(d, f.white))][q])
        BY <2>1, <4>1, <4>2
      <4>4. f.at \in Strings
        BY <3>6 DEF Strings
      <4>. QED
        BY <3>2, <3>3, <3>4, <4>3, <4>4, StringGiven
    <3>. QED
      BY <1>3, <3>5, <3>6
  <2>. QED
    BY <2>5, <2>6
<1>. QED
  BY <1>4, <1>5

-----------------------------------------------------------------------------
(* The start of an input, and its characters.                              *)

(* Nothing means nothing.                                                  *)
LEMMA EmptyMeans ==
  ASSUME NEW t \in Seq(Char), Len(t) = 0
  PROVE  Meaning(t).out = << >> /\ Meaning(t).verdict = "ok"
<1>1. PICK c : c = Compiles(t)
  OBVIOUS
<1>2. 1 \in 1..Len(t) + 1 /\ 1 > Len(t)
  OBVIOUS
<1>3. c["all"][1] = Nothing(1)
  <2>1. c["all"][1] = AllMeant(t, c, 1)
    BY <1>1, <1>2, CompilesAt
  <2>. QED
    BY <1>2, <2>1 DEF AllMeant, Nothing
<1>4. Compiled(t) = Items(<< >>, 1)
  BY <1>1, <1>3 DEF Compiled, Nothing
<1>. QED
  BY <1>4, EndMeans

LEMMA compileReplMeans ==
  ASSUME ScannerInv, MeaningInv, phase = "ready", NEW t \in Texts, compileRepl(t)
  PROVE  MeaningInv'
<1>1. t \in Seq(Char) /\ token = << >> /\ compFn = "base"
  BY CharAssumption DEF ScannerInv, MeaningInv
<1>2. PICK f, k, v : f = Frame("src") /\ k = <<f>> /\ v = token
  OBVIOUS
<1>3. f \in Frames /\ f.at = "src" /\ f.cfn = "base" /\ f.white = TRUE
  BY <1>1, <1>2 DEF Frame, Frames, Places, Sources, CompFns
<1>4. /\ text' = t /\ ctl' = k /\ out' = << >> /\ head' + 1 = 1 /\ compFn' = "base" /\ token' = v
      /\ v = << >> /\ phase' = "compile"
  BY <1>1, <1>2 DEF compileRepl
<1>5. Follows(t, k, << >>, 1)
  BY <1>1, <1>2, <1>3, FollowsStart
<1>6. Len(k) = 1 /\ k[1] = f
  BY <1>2
<1>7. Yields("src") = "part" /\ Runs(f) = "base" /\ "src" \notin Commenting
  BY <1>3 DEF Yields, Runs, Commenting
<1>8. Nested(k)
  BY <1>3, <1>6 DEF Nested
<1>9. CompFnIs(k, "base")
  BY <1>3, <1>6, <1>7 DEF CompFnIs
<1>10. TokenFits(t, 1, v, k[Len(k)].at)
  <2>1. TokenFits(t, 1, << >>, "src")
    BY TokenFitsAt DEF Delivers, Plain
  <2>. QED
    BY <1>3, <1>4, <1>6, <2>1
<1>11. Understands(t, k, << >>, 1, "base", v)
  BY <1>5, <1>8, <1>9, <1>10 DEF Understands
<1>. QED
  BY <1>4, <1>11 DEF MeaningInv, Understood

LEMMA StillMeans ==
  ASSUME MeaningInv, UNCHANGED <<text, token, head, compFn, ctl, out, phase, verdict>>
  PROVE  MeaningInv'
<1>1. PICK t, k, o, p, fn, w, ph, vd :
        /\ t = text /\ k = ctl /\ o = out /\ p = head + 1 /\ fn = compFn /\ w = token
        /\ ph = phase /\ vd = verdict
  OBVIOUS
<1>2. /\ t = text' /\ k = ctl' /\ o = out' /\ p = head' + 1 /\ fn = compFn' /\ w = token'
      /\ ph = phase' /\ vd = verdict'
  BY <1>1
<1>3. /\ ph = "compile" => Understands(t, k, o, p, fn, w)
      /\ ph = "ready" => fn = "base"
      /\ ph # "compile" => o = Meaning(t).out /\ vd = Meaning(t).verdict
  BY <1>1 DEF MeaningInv, Understood
<1>. QED
  BY <1>2, <1>3 DEF MeaningInv, Understood

LEMMA InputMeans ==
  ASSUME ScannerInv, MeaningInv, Clears, phase = "ready", NEW t \in Texts, Input(t)
  PROVE  MeaningInv'
<1>1. compFn = "base"
  BY DEF MeaningInv
<1>2. CASE t = <<"E">>
  <2>1. Exit(t)
    BY <1>2 DEF Input, Clears
  <2>2. /\ phase' = "left" /\ text' = text /\ out' = out /\ verdict' = verdict
    BY <2>1 DEF Exit, source
  <2>3. out = Meaning(text).out /\ verdict = Meaning(text).verdict
    BY DEF MeaningInv
  <2>. QED
    BY <2>2, <2>3 DEF MeaningInv
<1>3. CASE Len(t) = 1 /\ t # <<"E">>
  <2>1. Blank
    BY <1>3 DEF Input, Clears
  <2>. QED
    BY <2>1, StillMeans DEF Blank, source
<1>4. CASE Len(t) # 1 /\ t # <<"E">>
  <2>1. compileRepl(t)
    BY <1>4 DEF Input, Clears
  <2>. QED
    BY <2>1, compileReplMeans
<1>. QED
  BY <1>2, <1>3, <1>4

LEMMA NextMeans ==
  ASSUME ScannerInv, MeaningInv, Clears, "newRepl" \in Rules, Next
  PROVE  MeaningInv'
<1>1. CASE phase = "ready" /\ \E t \in Texts : Input(t)
  BY <1>1, InputMeans
<1>2. CASE Read
  BY <1>2, StillMeans DEF Read
<1>3. Scan \/ Handle => Understood
  <2>1. Scan \/ Handle => phase = "compile"
    BY DEF Scan, Handle, scanRaw, scanRaw_group, scan, scan_found, N_fslash, scanLine, _N_fslash,
           _N_fslash_token, _N_fslash_restore, compileSrc, compileSrc_eof, baseCompFn, single,
           singleToken, N_paren, N_paren_token, N_blk, N_blk_token, N_blk_end, N_ch, charNextEsc,
           charNextEsc_escape, At
  <2>. QED
    BY <2>1 DEF MeaningInv
<1>4. CASE Scan
  BY <1>3, <1>4, scanRawMeans, scanRaw_groupMeans, scanMeans, scan_foundMeans, N_fslashMeans,
     scanLineMeans, _N_fslashMeans, _N_fslash_tokenMeans, _N_fslash_restoreMeans DEF Scan
<1>5. CASE Handle
  BY <1>3, <1>5, compileSrcMeans, compileSrc_eofMeans, baseCompFnMeans, singleMeans,
     singleTokenMeans, N_parenMeans, N_paren_tokenMeans, N_blkMeans, N_blk_tokenMeans,
     N_blk_endMeans, N_chMeans, charNextEscMeans, charNextEsc_escapeMeans DEF Handle
<1>. QED
  BY <1>1, <1>2, <1>4, <1>5 DEF Next

LEMMA InitMeans ==
  ASSUME Init
  PROVE  MeaningInv
<1>1. << >> \in Seq(Char) /\ Len(<< >>) = 0
  OBVIOUS
<1>2. Meaning(<< >>).out = << >> /\ Meaning(<< >>).verdict = "ok"
  BY <1>1, EmptyMeans
<1>3. text = << >> /\ out = << >> /\ verdict = "ok" /\ compFn = "base" /\ phase = "ready"
  BY DEF Init
<1>. QED
  BY <1>2, <1>3 DEF MeaningInv

LEMMA MeansTaken ==
  ASSUME MeaningInv
  PROVE  TakenForItsMeaning
<1>1. ASSUME phase = "compile"
      PROVE  IsPrefix(out, Meaning(text).out)
  <2>1. PICK t, k, o, p : t = text /\ k = ctl /\ o = out /\ p = head + 1
    OBVIOUS
  <2>2. Follows(t, k, o, p)
    BY <1>1, <2>1 DEF MeaningInv, Understood, Understands
  <2>3. PICK r \in Outputs : o \in Outputs /\ Compiled(t).out = o \o r
    BY <2>2, FollowsPrefix
  <2>4. PICK S : S = Seq(Symbols) /\ Outputs = Seq(S)
    BY DEF Outputs
  <2>5. IsPrefix(o, Compiled(t).out)
    BY <2>3, <2>4, ConcatProperties, LenProperties DEF IsPrefix
  <2>. QED
    BY <2>1, <2>5 DEF Meaning
<1>. QED
  BY <1>1 DEF MeaningInv, TakenForItsMeaning

(***************************************************************************)
(* TakenForItsMeaning: every input puts out what its characters mean, and  *)
(* panics only where they mean a panic, however the reader cuts it into    *)
(* pieces, whatever was looked at and left in the token for another        *)
(* function, and whatever the inputs before left behind in compFn.         *)
(* newRepl: after a panic inside of a block that is commented out, the user leaves, *)
(* because compFn stays _N_fslash.                                         *)
(***************************************************************************)
THEOREM TakenForItsMeaningAlways ==
  ASSUME Clears, "newRepl" \in Rules
  PROVE  Spec => []TakenForItsMeaning
<1>1. Init => MeaningInv
  BY InitMeans
<1>2. ScannerInv /\ MeaningInv /\ [Next]_vars => MeaningInv'
  <2>1. CASE Next
    BY <2>1, NextMeans
  <2>2. CASE UNCHANGED vars
    BY <2>2, StillMeans DEF vars, source
  <2>. QED
    BY <2>1, <2>2
<1>3. MeaningInv => TakenForItsMeaning
  BY MeansTaken
<1>4. Spec => []ScannerInv
  BY ScannerInvariant
<1>. QED
  BY <1>1, <1>2, <1>3, <1>4, PTL DEF Spec
=============================================================================
