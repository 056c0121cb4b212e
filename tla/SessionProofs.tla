---------------------------- MODULE SessionProofs ----------------------------
(***************************************************************************)
(* Proofs about Session.tla: the handlers that wait hold, in their C       *)
(* locals and in what they have pushed, all that it takes to put the       *)
(* context back, whatever nests in whatever, and Kern_errCleanup needs     *)
(* none of it.                                                             *)
(***************************************************************************)
EXTENDS Session, DataLemmas, SequenceTheorems, TLAPS

(* Panics are caught by Kern_errCleanup, and the source keeps to the rules *)
(* of Session.tla, each of which is needed for one of the properties.      *)
CleansUp == Host = "errCleanup" /\ Rules = RuleNames

-----------------------------------------------------------------------------
(* Types.                                                                  *)

CompFns  == {"base", "imm", "fslash"}
Handlers == {"paren", "fslash", "imm", "unty", "use", "impl", "mod", "fn"}
Names    == Dicts \cup {"root", "fn"}

Contexts ==
  [compFn : CompFns, unty : BOOLEAN, fnState : {"no", "sig", "body"},
   locals : Nat, meta : BOOLEAN, dict : Seq(Names), impl : Seq(Names),
   tys : Seq(Int), code : Nat]

Frames ==
  [kind : Handlers \cup {"repl", "path"}, cfn : CompFns, code : Nat,
   got : BOOLEAN, at : Contexts, used : Nat]

Typed ==
  /\ cx \in Contexts
  /\ ctl \in Seq(Frames)
  /\ immTys \in Seq(Int)
  /\ phase \in {"ready", "compile", "run"}
  /\ vals \in Int
  /\ emit \in [net : Int, low : Int]

-----------------------------------------------------------------------------
(* The stack of handlers.                                                  *)

(* The context in which what is above the handler k[i] has started.        *)
Within(k, c, i) == IF i < Len(k) THEN k[i + 1].at ELSE c

(* Two contexts that differ in types and counts only.                      *)
Same(c, d) ==
  /\ c.compFn = d.compFn /\ c.unty = d.unty /\ c.fnState = d.fnState
  /\ c.code = d.code /\ c.dict = d.dict /\ c.impl = d.impl
  /\ Len(c.tys) = Len(d.tys)

(* What the code of an input itself is compiled to.                        *)
OwnCode(k) == IF k[1].kind = "repl" THEN 1 ELSE 0

(***************************************************************************)
(* How the context c, inside of the handler f, differs from the one that f *)
(* started in.  `below' is the kind of the handler below.                  *)
(***************************************************************************)
Holds(f, below, own, c) ==
  LET a == f.at IN
  /\ f.kind = "paren" =>
       Same(c, [a EXCEPT !.compFn = IF below = "fslash" THEN "fslash" ELSE @])
  /\ f.kind = "fslash" => Same(c, a)
  /\ f.kind = "imm"    => Same(c, [a EXCEPT !.compFn = "imm"])
  /\ f.kind = "unty"   => ~a.unty /\ Same(c, [a EXCEPT !.unty = TRUE])
  /\ f.kind = "use"    => /\ Front(c.dict) = a.dict
                          /\ Same(c, [a EXCEPT !.dict = c.dict])
  /\ f.kind \in {"impl", "mod"} => /\ Front(c.impl) = a.impl
                                   /\ Same(c, [a EXCEPT !.impl = c.impl])
  /\ f.kind = "fn" =>
       /\ a.fnState = "no" /\ a.code = own /\ Len(a.tys) = 1
       /\ c.compFn = a.compFn /\ c.unty = a.unty
       /\ Front(c.dict) = a.dict /\ Front(c.impl) = a.impl
       /\ c.fnState # "no"
       /\ f.got => c.fnState = "body"

(* The context of an input outside of all handlers.                        *)
AtTop(own, c) ==
  /\ c.compFn = "base" /\ ~c.unty /\ c.fnState = "no" /\ c.code = own
  /\ Len(c.tys) = 1

(* The handlers k, with the context c inside of the innermost.             *)
Nested(k, c) ==
  /\ Len(k) > 0
  /\ k[1].kind \in {"repl", "path"}
  /\ AtTop(OwnCode(k), Within(k, c, 1))
  /\ \A i \in 2..Len(k) :
       /\ k[i].kind \in Handlers
       /\ k[i].cfn = k[i].at.compFn /\ k[i].code = k[i].at.code
       /\ Holds(k[i], k[i - 1].kind, OwnCode(k), Within(k, c, i))
       /\ k[i - 1].kind = "fslash" => k[i].kind = "paren"
       /\ k[i].kind # "fslash" /\ k[i - 1].kind # "fslash" => k[i].at.fnState # "sig"
  /\ c.unty => \E i \in 1..Len(k) : k[i].kind = "unty"
  /\ c.fnState # "no" => \E i \in 1..Len(k) : k[i].kind = "fn"
  /\ \A i, j \in 1..Len(k) : k[i].kind = "fn" /\ k[j].kind = "fn" => i = j
  /\ \A i \in 1..Len(k) : k[i].kind = "fn" => c.locals = k[i].used
  /\ (\A i \in 1..Len(k) : k[i].kind # "fn") => c.locals = 0

(* Whose code is compiled: the input's own, or that of the body of a fn.   *)
Owned(k, c) ==
  IF c.fnState = "body" THEN c.code > 1 /\ Len(c.tys) = 2
                        ELSE c.code = OwnCode(k) /\ Len(c.tys) = 1

Compiling ==
  /\ Nested(ctl, cx)
  /\ Last(ctl).kind # "fslash"
  /\ Owned(ctl, cx)
  /\ Len(immTys) > 0
  /\ cx.tys[1] + Last(immTys) = vals + emit.net
  /\ ctl[1].kind = "path" => emit.net = 0

(* The context between two inputs.                                         *)
Resting(c) ==
  /\ c.compFn = "base" /\ ~c.unty /\ c.fnState = "no" /\ c.locals = 0
  /\ Len(c.tys) = 1

(***************************************************************************)
(* The inductive invariant.  AtRest and TypesOfValues speak of the time    *)
(* between inputs alone; what makes them true is what each handler holds   *)
(* while it waits, and that the values that are there already, and those   *)
(* that the code will add, are the values whose types are known.           *)
(***************************************************************************)
SessionInv ==
  /\ Typed
  /\ phase = "compile" => Compiling
  /\ phase = "run"   => ctl = << >> /\ Resting(cx) /\ cx.tys[1] = vals + emit.net
  /\ phase = "ready" => ctl = << >> /\ Resting(cx) /\ cx.tys[1] = vals

-----------------------------------------------------------------------------
(* Lemmas about the stack of handlers.                                     *)

LEMMA SameHolds ==
  ASSUME NEW f \in Frames, NEW below, NEW own,
         NEW c \in Contexts, NEW d \in Contexts,
         Holds(f, below, own, c), Same(c, d)
  PROVE  Holds(f, below, own, d)
<1>1. c.dict = d.dict /\ c.impl = d.impl /\ c.fnState = d.fnState
      /\ c.compFn = d.compFn /\ c.unty = d.unty
  BY DEF Same
<1>2. \A x : Same(c, x) => Same(d, x)
  BY DEF Same
<1>. QED
  BY <1>1, <1>2 DEF Holds

(* What a handler changes, field by field.                                 *)
LEMMA HoldsMeans ==
  ASSUME NEW f \in Frames, NEW below, NEW own, NEW c \in Contexts,
         f.kind \in Handlers, Holds(f, below, own, c)
  PROVE  /\ c.compFn = IF f.kind = "imm" THEN "imm"
                       ELSE IF f.kind = "paren" /\ below = "fslash" THEN "fslash"
                       ELSE f.at.compFn
         /\ f.kind = "unty" => ~f.at.unty
         /\ f.kind # "unty" => f.at.unty = c.unty
         /\ f.kind = "fn" => /\ f.at.fnState = "no" /\ c.fnState # "no"
                             /\ f.at.code = own /\ Len(f.at.tys) = 1
                             /\ f.got => c.fnState = "body"
         /\ f.kind # "fn" => /\ f.at.fnState = c.fnState /\ f.at.code = c.code
                             /\ Len(f.at.tys) = Len(c.tys)
         /\ f.at.dict = IF f.kind \in {"use", "fn"} THEN Front(c.dict) ELSE c.dict
         /\ f.at.impl = IF f.kind \in {"impl", "mod", "fn"} THEN Front(c.impl)
                        ELSE c.impl
<1>. DEFINE a == f.at
<1>1. a \in Contexts
  BY DEF Frames
<1>. HIDE DEF a
<1>2. CASE f.kind = "paren"
  <2>1. Same(c, [a EXCEPT !.compFn = IF below = "fslash" THEN "fslash" ELSE @])
    BY <1>2 DEF Holds, a
  <2>. QED
    BY <1>1, <1>2, <2>1 DEF Same, Contexts, a
<1>3. CASE f.kind = "fslash"
  BY <1>1, <1>3 DEF Holds, Same, a
<1>4. CASE f.kind = "imm"
  <2>1. Same(c, [a EXCEPT !.compFn = "imm"])
    BY <1>4 DEF Holds, a
  <2>. QED
    BY <1>1, <1>4, <2>1 DEF Same, Contexts, a
<1>5. CASE f.kind = "unty"
  <2>1. ~a.unty /\ Same(c, [a EXCEPT !.unty = TRUE])
    BY <1>5 DEF Holds, a
  <2>. QED
    BY <1>1, <1>5, <2>1 DEF Same, Contexts, a
<1>6. CASE f.kind = "use"
  <2>1. Front(c.dict) = a.dict /\ Same(c, [a EXCEPT !.dict = c.dict])
    BY <1>6 DEF Holds, a
  <2>. QED
    BY <1>1, <1>6, <2>1 DEF Same, Contexts, a
<1>7. CASE f.kind \in {"impl", "mod"}
  <2>1. Front(c.impl) = a.impl /\ Same(c, [a EXCEPT !.impl = c.impl])
    BY <1>7 DEF Holds, a
  <2>. QED
    BY <1>1, <1>7, <2>1 DEF Same, Contexts, a
<1>8. CASE f.kind = "fn"
  BY <1>1, <1>8 DEF Holds, a
<1>. QED
  BY <1>2, <1>3, <1>4, <1>5, <1>6, <1>7, <1>8 DEF Handlers

LEMMA GotFrame ==
  ASSUME NEW f \in Frames
  PROVE  [f EXCEPT !.got = TRUE] \in Frames
BY DEF Frames

(* Nothing that the handlers hold has changed.                             *)
LEMMA StaysNested ==
  ASSUME NEW k \in Seq(Frames), NEW c \in Contexts, NEW d \in Contexts,
         Nested(k, c), Same(c, d), d.locals = c.locals
  PROVE  Nested(k, d)
<1>1. Len(k) \in Nat /\ Len(k) > 0
  BY LenProperties DEF Nested
<1>2. AtTop(OwnCode(k), Within(k, d, 1))
  BY <1>1 DEF Nested, Within, AtTop, Same
<1>3. ASSUME NEW i \in 2..Len(k)
      PROVE  Holds(k[i], k[i - 1].kind, OwnCode(k), Within(k, d, i))
  <2>1. Holds(k[i], k[i - 1].kind, OwnCode(k), Within(k, c, i))
    BY DEF Nested
  <2>2. k[i] \in Frames
    BY <1>1, ElementOfSeq
  <2>3. CASE i < Len(k)
    BY <2>1, <2>3 DEF Within
  <2>4. CASE ~(i < Len(k))
    BY <2>1, <2>2, <2>4, SameHolds DEF Within
  <2>. QED
    BY <2>3, <2>4
<1>. QED
  BY <1>1, <1>2, <1>3 DEF Nested, Same

(* A handler has its token.                                                *)
LEMMA GotNested ==
  ASSUME NEW k \in Seq(Frames), NEW c \in Contexts,
         Nested(k, c), c.fnState # "sig"
  PROVE  /\ Got(k) \in Seq(Frames)
         /\ Nested(Got(k), c)
         /\ Len(Got(k)) = Len(k)
         /\ Got(k)[1].kind = k[1].kind
         /\ Last(Got(k)).kind = Last(k).kind
<1>. DEFINE n == Len(k)
            l == Got(k)
<1>1. n \in Nat /\ n > 0 /\ n = Len(k)
  BY LenProperties DEF Nested
<1>2. \A i \in 1..n : k[i] \in Frames
  BY <1>1, ElementOfSeq
<1>3. Last(k) = k[n]
  BY DEF Last
<1>4. CASE k[n].kind \in Loops
  BY <1>3, <1>4 DEF Got
<1>5. CASE k[n].kind \notin Loops
  <2>1. l = [k EXCEPT ![n].got = TRUE]
    BY <1>3, <1>5 DEF Got
  <2>2. [k[n] EXCEPT !.got = TRUE] \in Frames
    <3>1. k[n] \in Frames
      BY <1>1, <1>2
    <3>. QED
      BY <3>1, GotFrame
  <2>3. l \in Seq(Frames) /\ Len(l) = n
    <3>1. l = [k EXCEPT ![n] = [k[n] EXCEPT !.got = TRUE]]
      BY <2>1
    <3>. HIDE DEF l
    <3>. QED
      BY <1>1, <2>2, <3>1, ExceptSeq
  <2>4. ASSUME NEW i \in 1..n
        PROVE  /\ l[i].kind = k[i].kind /\ l[i].cfn = k[i].cfn /\ l[i].code = k[i].code
               /\ l[i].at = k[i].at /\ l[i].used = k[i].used
               /\ i # n => l[i] = k[i]
    BY <1>1, <1>2, <2>1 DEF Frames
  <2>. HIDE DEF n, l
  <2>5. OwnCode(l) = OwnCode(k)
    BY <1>1, <2>4 DEF OwnCode
  <2>6. \A i \in 1..n : Within(l, c, i) = Within(k, c, i)
    BY <1>1, <2>3, <2>4 DEF Within
  <2>7. ASSUME NEW i \in 2..n
        PROVE  Holds(l[i], l[i - 1].kind, OwnCode(l), Within(l, c, i))
    <3>1. Holds(k[i], k[i - 1].kind, OwnCode(k), Within(k, c, i))
      BY <1>1 DEF Nested
    <3>2. l[i - 1].kind = k[i - 1].kind /\ Within(l, c, i) = Within(k, c, i)
      <4>1. i \in 1..n /\ i - 1 \in 1..n
        BY <1>1
      <4>. QED
        BY <2>4, <2>6, <4>1
    <3>3. CASE i # n
      BY <2>4, <2>5, <3>1, <3>2, <3>3
    <3>4. CASE i = n
      <4>1. Within(k, c, i) = c
        BY <1>1, <3>4 DEF Within
      <4>2. l[i].kind = k[i].kind /\ l[i].at = k[i].at
        BY <2>4
      <4>3. l[i].kind = "fn" => c.fnState = "body"
        BY <3>1, <4>1, <4>2 DEF Holds, Contexts
      <4>. QED
        BY <2>5, <3>1, <3>2, <4>1, <4>2, <4>3 DEF Holds
    <3>. QED
      BY <3>3, <3>4
  <2>8. Nested(l, c)
    <3>1. AtTop(OwnCode(l), Within(l, c, 1))
      BY <1>1, <2>5, <2>6 DEF Nested
    <3>2. ASSUME NEW i \in 2..n
          PROVE  /\ l[i].kind \in Handlers
                 /\ l[i].cfn = l[i].at.compFn /\ l[i].code = l[i].at.code
                 /\ l[i - 1].kind = "fslash" => l[i].kind = "paren"
                 /\ (l[i].kind # "fslash" /\ l[i - 1].kind # "fslash")
                      => l[i].at.fnState # "sig"
      BY <1>1, <2>4 DEF Nested
    <3>3. l[1].kind \in {"repl", "path"}
      BY <1>1, <2>4 DEF Nested
    <3>k. \A i \in 1..n : l[i].kind = k[i].kind
      BY <2>4
    <3>a. ASSUME c.unty PROVE \E i \in 1..n : l[i].kind = "unty"
      <4>1. PICK i \in 1..n : k[i].kind = "unty"
        BY <1>1, <3>a DEF Nested
      <4>. QED
        BY <3>k, <4>1
    <3>b. ASSUME c.fnState # "no" PROVE \E i \in 1..n : l[i].kind = "fn"
      <4>1. PICK i \in 1..n : k[i].kind = "fn"
        BY <1>1, <3>b DEF Nested
      <4>. QED
        BY <3>k, <4>1
    <3>4. /\ c.unty => \E i \in 1..n : l[i].kind = "unty"
          /\ c.fnState # "no" => \E i \in 1..n : l[i].kind = "fn"
      BY <3>a, <3>b
    <3>5. /\ \A i, j \in 1..n : l[i].kind = "fn" /\ l[j].kind = "fn" => i = j
          /\ \A i \in 1..n : l[i].kind = "fn" => c.locals = l[i].used
          /\ (\A i \in 1..n : l[i].kind # "fn") => c.locals = 0
      BY <1>1, <2>4 DEF Nested
    <3>. QED
      BY <1>1, <2>3, <2>7, <3>1, <3>2, <3>3, <3>4, <3>5 DEF Nested
  <2>9. l[1].kind = k[1].kind /\ Last(l).kind = Last(k).kind
    BY <1>1, <2>3, <2>4 DEF Last
  <2>. QED
    BY <1>1, <2>3, <2>8, <2>9 DEF l, n
<1>. QED
  BY <1>4, <1>5

(* A handler starts, and changes the context from c to d.                  *)
LEMMA OpensNested ==
  ASSUME NEW k \in Seq(Frames), NEW c \in Contexts, NEW d \in Contexts,
         NEW g \in Frames, NEW longer, longer = Append(k, g),
         Nested(k, c), Holds(g, Last(k).kind, OwnCode(k), d),
         g.kind \in Handlers, g.at = c, g.cfn = c.compFn, g.code = c.code,
         g.used = 0, d.locals = c.locals,
         Last(k).kind = "fslash" => g.kind = "paren",
         g.kind # "fslash" /\ Last(k).kind # "fslash" => c.fnState # "sig",
         d.unty => c.unty \/ g.kind = "unty",
         d.fnState # "no" => c.fnState # "no" \/ g.kind = "fn",
         g.kind = "fn" => \A i \in 1..Len(k) : k[i].kind # "fn"
  PROVE  /\ longer \in Seq(Frames)
         /\ Len(longer) = Len(k) + 1
         /\ Last(longer) = g
         /\ longer[1].kind = k[1].kind
         /\ Nested(longer, d)
<1>. DEFINE n == Len(k)
<1>1. n \in Nat /\ n > 0 /\ n = Len(k)
  BY LenProperties DEF Nested
<1>2. /\ longer \in Seq(Frames) /\ Len(longer) = n + 1
      /\ Last(longer) = g /\ longer[n + 1] = g
      /\ \A i \in 1..n : longer[i] = k[i]
  BY FrontAppend DEF Last
<1>. HIDE DEF n
<1>3. OwnCode(longer) = OwnCode(k) /\ longer[1] = k[1]
  BY <1>1, <1>2 DEF OwnCode
<1>4. \A i \in 1..n : Within(longer, d, i) = Within(k, c, i)
  BY <1>1, <1>2 DEF Within
<1>5. Within(longer, d, n + 1) = d
  BY <1>1, <1>2 DEF Within
<1>6. Last(k) = k[n]
  BY <1>1 DEF Last
<1>7. ASSUME NEW i \in 2..(n + 1)
      PROVE  /\ longer[i].kind \in Handlers
             /\ longer[i].cfn = longer[i].at.compFn
             /\ longer[i].code = longer[i].at.code
             /\ Holds(longer[i], longer[i - 1].kind, OwnCode(longer),
                      Within(longer, d, i))
             /\ longer[i - 1].kind = "fslash" => longer[i].kind = "paren"
             /\ (longer[i].kind # "fslash" /\ longer[i - 1].kind # "fslash")
                  => longer[i].at.fnState # "sig"
  <2>1. CASE i = n + 1
    BY <1>1, <1>2, <1>3, <1>5, <1>6, <2>1
  <2>2. CASE i # n + 1
    <3>1. i \in 2..n /\ longer[i] = k[i] /\ longer[i - 1] = k[i - 1]
      BY <1>1, <1>2, <2>2
    <3>. QED
      BY <1>1, <1>3, <1>4, <3>1 DEF Nested
  <2>. QED
    BY <2>1, <2>2
<1>8. AtTop(OwnCode(longer), Within(longer, d, 1))
  BY <1>1, <1>3, <1>4 DEF Nested
<1>9. /\ d.unty => \E i \in 1..(n + 1) : longer[i].kind = "unty"
      /\ d.fnState # "no" => \E i \in 1..(n + 1) : longer[i].kind = "fn"
  BY <1>1, <1>2 DEF Nested
<1>10. \A i, j \in 1..(n + 1) :
         longer[i].kind = "fn" /\ longer[j].kind = "fn" => i = j
  BY <1>1, <1>2 DEF Nested
<1>11. /\ \A i \in 1..(n + 1) : longer[i].kind = "fn" => d.locals = longer[i].used
       /\ (\A i \in 1..(n + 1) : longer[i].kind # "fn") => d.locals = 0
  BY <1>1, <1>2 DEF Nested
<1>12. longer[1].kind \in {"repl", "path"} /\ Len(longer) > 0
  BY <1>1, <1>2, <1>3 DEF Nested
<1>. QED
  BY <1>1, <1>2, <1>3, <1>7, <1>8, <1>9, <1>10, <1>11, <1>12 DEF Nested

(* The innermost handler returns, and leaves the context d.                *)
LEMMA PopsNested ==
  ASSUME NEW k \in Seq(Frames), NEW c \in Contexts, NEW d \in Contexts,
         Nested(k, c), Len(k) > 1, Same(d, Last(k).at),
         d.locals = IF Last(k).kind = "fn" THEN 0 ELSE c.locals
  PROVE  /\ Front(k) \in Seq(Frames)
         /\ Len(Front(k)) = Len(k) - 1
         /\ Front(k)[1] = k[1]
         /\ Nested(Front(k), d)
<1>. DEFINE n == Len(k) - 1
            l == Front(k)
<1>1. n \in Nat /\ n > 0 /\ Len(k) = n + 1 /\ Len(k) \in Nat /\ Len(k) > 0
  BY LenProperties
<1>2. /\ l \in Seq(Frames) /\ Len(l) = n
      /\ \A i \in 1..n : l[i] = k[i]
      /\ Last(k) = k[n + 1]
  <2>1. Last(k) = k[n + 1]
    BY <1>1 DEF Last
  <2>2. /\ Front(k) \in Seq(Frames)
        /\ Len(Front(k)) = n
        /\ \A i \in 1..n : Front(k)[i] = k[i]
    BY <1>1, FrontProperties
  <2>. QED
    BY <2>1, <2>2
<1>3. \A i \in 1..(n + 1) : k[i] \in Frames
  BY <1>1, ElementOfSeq
<1>. HIDE DEF n, l
<1>4. OwnCode(l) = OwnCode(k) /\ l[1] = k[1]
  BY <1>1, <1>2 DEF OwnCode
<1>5. \A i \in 1..(n - 1) : Within(l, d, i) = Within(k, c, i)
  BY <1>1, <1>2 DEF Within
<1>6. Within(l, d, n) = d /\ Within(k, c, n) = Last(k).at
  BY <1>1, <1>2 DEF Within
<1>7. Last(k).at \in Contexts /\ Same(Last(k).at, d)
  BY <1>1, <1>2, <1>3 DEF Frames, Same
<1>8. ASSUME NEW i \in 2..n
      PROVE  Holds(l[i], l[i - 1].kind, OwnCode(l), Within(l, d, i))
  <2>1. Holds(k[i], k[i - 1].kind, OwnCode(k), Within(k, c, i))
    BY <1>1 DEF Nested
  <2>2. k[i] \in Frames /\ l[i] = k[i] /\ l[i - 1] = k[i - 1]
    BY <1>1, <1>2, <1>3
  <2>3. CASE i # n
    BY <1>1, <1>4, <1>5, <2>1, <2>2, <2>3
  <2>4. CASE i = n
    BY <1>4, <1>6, <1>7, <2>1, <2>2, <2>4, SameHolds
  <2>. QED
    BY <2>3, <2>4
<1>9. AtTop(OwnCode(l), Within(l, d, 1))
  <2>1. AtTop(OwnCode(k), Within(k, c, 1))
    BY DEF Nested
  <2>2. CASE n = 1
    BY <1>4, <1>6, <1>7, <2>1, <2>2 DEF AtTop, Same
  <2>3. CASE n # 1
    BY <1>1, <1>4, <1>5, <2>1, <2>3
  <2>. QED
    BY <2>2, <2>3
<1>10. ASSUME NEW i \in 2..n
       PROVE  /\ l[i].kind \in Handlers
              /\ l[i].cfn = l[i].at.compFn /\ l[i].code = l[i].at.code
              /\ l[i - 1].kind = "fslash" => l[i].kind = "paren"
              /\ (l[i].kind # "fslash" /\ l[i - 1].kind # "fslash")
                   => l[i].at.fnState # "sig"
  <2>1. i \in 2..Len(k) /\ l[i] = k[i] /\ l[i - 1] = k[i - 1]
    BY <1>1, <1>2
  <2>. QED
    BY <2>1 DEF Nested
<1>11. /\ Holds(k[n + 1], k[n].kind, OwnCode(k), c)
       /\ k[n + 1].kind \in Handlers
  <2>1. n + 1 \in 2..Len(k) /\ Within(k, c, n + 1) = c /\ (n + 1) - 1 = n
    BY <1>1 DEF Within
  <2>. QED
    BY <2>1 DEF Nested
<1>12. /\ d.unty => c.unty /\ k[n + 1].kind # "unty"
       /\ d.fnState # "no" => c.fnState # "no" /\ k[n + 1].kind # "fn"
  <2>1. k[n + 1] \in Frames
    BY <1>1, <1>3
  <2>2. /\ k[n + 1].kind = "unty" => ~k[n + 1].at.unty
        /\ k[n + 1].kind # "unty" => k[n + 1].at.unty = c.unty
        /\ k[n + 1].kind = "fn" => k[n + 1].at.fnState = "no"
        /\ k[n + 1].kind # "fn" => k[n + 1].at.fnState = c.fnState
    BY <1>11, <2>1, HoldsMeans
  <2>. QED
    BY <1>2, <1>7, <2>2 DEF Same
<1>13. /\ d.unty => \E i \in 1..n : l[i].kind = "unty"
       /\ d.fnState # "no" => \E i \in 1..n : l[i].kind = "fn"
  BY <1>1, <1>2, <1>12 DEF Nested
<1>14. \A i, j \in 1..n : l[i].kind = "fn" /\ l[j].kind = "fn" => i = j
  BY <1>1, <1>2 DEF Nested
<1>15. \A i \in 1..n : l[i].kind = "fn" => d.locals = l[i].used
  BY <1>1, <1>2 DEF Nested
<1>16. (\A i \in 1..n : l[i].kind # "fn") => d.locals = 0
  <2>1. CASE k[n + 1].kind = "fn"
    BY <1>2, <2>1
  <2>2. CASE k[n + 1].kind # "fn"
    <3>1. (\A i \in 1..(n + 1) : k[i].kind # "fn") => c.locals = 0
      BY <1>1 DEF Nested
    <3>2. d.locals = c.locals
      BY <1>2, <2>2
    <3>. QED
      BY <1>1, <1>2, <2>2, <3>1, <3>2
  <2>. QED
    BY <2>1, <2>2
<1>17. l[1].kind \in {"repl", "path"}
  BY <1>4 DEF Nested
<1>18. Nested(l, d)
  BY <1>1, <1>2, <1>8, <1>9, <1>10, <1>13, <1>14, <1>15, <1>16, <1>17 DEF Nested
<1>. QED
  BY <1>1, <1>2, <1>4, <1>18 DEF l, n

-----------------------------------------------------------------------------
(* What is true of the innermost handler while tokens are compiled.        *)

LEMMA Innermost ==
  ASSUME Typed, Compiling
  PROVE  /\ Len(ctl) \in Nat /\ Len(ctl) > 0
         /\ Top \in Frames /\ Last(ctl) = Top
         /\ Top.kind # "fslash"
         /\ Len(ctl) = 1 => /\ Top.kind \notin Handlers
                            /\ AtTop(OwnCode(ctl), cx)
                            /\ cx.locals = 0
         /\ Len(ctl) # 1 =>
              /\ Top.kind \in Handlers
              /\ Top.cfn = Top.at.compFn /\ Top.code = Top.at.code
              /\ Holds(Top, ctl[Len(ctl) - 1].kind, OwnCode(ctl), cx)
              /\ ctl[Len(ctl) - 1].kind = "fslash" => Top.kind = "paren"
              /\ ctl[Len(ctl) - 1].kind # "fslash" => Top.at.fnState # "sig"
<1>. DEFINE n == Len(ctl)
<1>1. n \in Nat /\ n > 0
  BY LenProperties DEF Compiling, Nested, Typed
<1>2. Top = ctl[n] /\ Last(ctl) = Top /\ Top.kind # "fslash" /\ Top \in Frames
  BY <1>1, ElementOfSeq DEF Top, Last, Compiling, Typed
<1>. HIDE DEF n
<1>3. Within(ctl, cx, n) = cx
  BY <1>1 DEF Within, n
<1>4. Nested(ctl, cx)
  BY DEF Compiling
<1>5. CASE n = 1
  <2>1. Top.kind \in {"repl", "path"}
    BY <1>2, <1>4, <1>5 DEF Nested
  <2>2. AtTop(OwnCode(ctl), cx)
    BY <1>3, <1>4, <1>5 DEF Nested
  <2>3. \A i \in 1..n : ctl[i].kind # "fn"
    BY <1>2, <1>5, <2>1
  <2>4. cx.locals = 0
    BY <1>4, <2>3 DEF Nested, n
  <2>. QED
    BY <1>1, <1>2, <1>5, <2>1, <2>2, <2>4 DEF Handlers, n
<1>6. CASE n # 1
  <2>1. n \in 2..n
    BY <1>1, <1>6
  <2>2. /\ Top.kind \in Handlers
        /\ Top.cfn = Top.at.compFn /\ Top.code = Top.at.code
        /\ Holds(Top, ctl[n - 1].kind, OwnCode(ctl), cx)
        /\ ctl[n - 1].kind = "fslash" => Top.kind = "paren"
        /\ ctl[n - 1].kind # "fslash" => Top.at.fnState # "sig"
    BY <1>2, <1>3, <1>4, <2>1 DEF Nested, n
  <2>. QED
    BY <1>1, <1>2, <1>6, <2>2 DEF n
<1>. QED
  BY <1>5, <1>6

(* A frame for a handler that starts.                                      *)
LEMMA FrameTyped ==
  ASSUME Typed, NEW kind \in Handlers
  PROVE  /\ Frame(kind) \in Frames
         /\ Frame(kind).kind = kind /\ Frame(kind).at = cx
         /\ Frame(kind).cfn = cx.compFn /\ Frame(kind).code = cx.code
         /\ Frame(kind).used = 0 /\ Frame(kind).got = FALSE
<1>1. cx.compFn \in CompFns /\ cx.code \in Nat
  BY DEF Typed, Contexts
<1>. QED
  BY <1>1 DEF Frame, Frames, Typed

(* What is left of the invariant, once the stack of handlers is right.     *)
LEMMA CarriesOn ==
  ASSUME SessionInv, phase = "compile", phase' = "compile",
         cx' \in Contexts, ctl' \in Seq(Frames), Nested(ctl', cx'),
         Last(ctl').kind # "fslash", Owned(ctl', cx'),
         ctl'[1].kind = ctl[1].kind, cx'.tys[1] = cx.tys[1],
         UNCHANGED <<immTys, vals, emit>>
  PROVE  SessionInv'
BY DEF SessionInv, Typed, Compiling

LEMMA SameOwnCode ==
  ASSUME NEW k, NEW l, k[1].kind = l[1].kind, NEW c, Owned(k, c)
  PROVE  Owned(l, c)
BY DEF Owned, OwnCode

-----------------------------------------------------------------------------
(* The three ways in which a token goes on.                                *)

LEMMA DoneInv ==
  ASSUME SessionInv, phase = "compile", NEW c \in Contexts, Done(c),
         Nested(ctl, c), Owned(ctl, c), c.tys[1] = cx.tys[1], c.fnState # "sig"
  PROVE  SessionInv' /\ Len(ctl') = Len(ctl) /\ phase' = "compile"
<1>1. Typed /\ Compiling
  BY DEF SessionInv
<1>2. /\ ctl' \in Seq(Frames)
      /\ Nested(ctl', c)
      /\ Len(ctl') = Len(ctl)
      /\ ctl'[1].kind = ctl[1].kind
      /\ Last(ctl').kind = Last(ctl).kind
  BY <1>1, GotNested DEF Done, Typed
<1>3. cx' = c /\ phase' = phase /\ UNCHANGED <<immTys, vals, emit>>
  BY DEF Done
<1>4. Last(ctl').kind # "fslash"
  BY <1>1, <1>2 DEF Compiling
<1>5. Owned(ctl', c)
  BY <1>2, SameOwnCode
<1>. QED
  BY <1>2, <1>3, <1>4, <1>5, CarriesOn

LEMMA OpensInv ==
  ASSUME SessionInv, phase = "compile", NEW c \in Contexts,
         NEW kind \in Handlers \ {"fslash"}, Opens(Frame(kind), c),
         cx.fnState # "sig", Holds(Frame(kind), Top.kind, OwnCode(ctl), c),
         c.locals = cx.locals, c.tys = cx.tys, c.code = cx.code,
         c.fnState # "body" => cx.fnState # "body",
         c.fnState = "body" => cx.fnState = "body",
         c.unty => cx.unty \/ kind = "unty",
         c.fnState # "no" => cx.fnState # "no" \/ kind = "fn",
         kind = "fn" => \A i \in 1..Len(ctl) : ctl[i].kind # "fn"
  PROVE  SessionInv' /\ Len(ctl') = Len(ctl) + 1 /\ phase' = "compile"
<1>1. Typed /\ Compiling
  BY DEF SessionInv
<1>2. /\ ctl \in Seq(Frames) /\ cx \in Contexts /\ Nested(ctl, cx)
      /\ Last(ctl) = Top /\ Top.kind # "fslash"
  BY <1>1, Innermost DEF Typed, Compiling
<1>3. PICK g \in Frames :
        /\ g = Frame(kind)
        /\ g.kind = kind /\ g.at = cx /\ g.cfn = cx.compFn /\ g.code = cx.code
        /\ g.used = 0
  BY <1>1, FrameTyped
<1>4. /\ ctl' = Append(ctl, g) /\ cx' = c /\ phase' = phase
      /\ UNCHANGED <<immTys, vals, emit>>
      /\ Holds(g, Top.kind, OwnCode(ctl), c)
  BY <1>3 DEF Opens
<1>5. /\ ctl' \in Seq(Frames)
      /\ Len(ctl') = Len(ctl) + 1
      /\ Last(ctl') = g
      /\ ctl'[1].kind = ctl[1].kind
      /\ Nested(ctl', c)
  <2>1. /\ g.kind \in Handlers
        /\ Last(ctl).kind = "fslash" => g.kind = "paren"
        /\ g.kind # "fslash" /\ Last(ctl).kind # "fslash" => cx.fnState # "sig"
        /\ c.unty => cx.unty \/ g.kind = "unty"
        /\ c.fnState # "no" => cx.fnState # "no" \/ g.kind = "fn"
        /\ g.kind = "fn" => \A i \in 1..Len(ctl) : ctl[i].kind # "fn"
        /\ Holds(g, Last(ctl).kind, OwnCode(ctl), c)
    BY <1>2, <1>3, <1>4
  <2>2. PICK longer : longer = Append(ctl, g)
    OBVIOUS
  <2>3. /\ g \in Frames /\ g.at = cx /\ g.cfn = cx.compFn
        /\ g.code = cx.code /\ g.used = 0 /\ c.locals = cx.locals
    BY <1>3
  <2>4. ctl \in Seq(Frames) /\ cx \in Contexts /\ Nested(ctl, cx)
    BY <1>2
  <2>5. Nested(longer, c)
    BY <2>1, <2>2, <2>3, <2>4, OpensNested
  <2>6. /\ longer \in Seq(Frames)
        /\ Len(longer) = Len(ctl) + 1
        /\ Last(longer) = g
        /\ \A i \in 1..Len(ctl) : longer[i] = ctl[i]
    BY <2>2, <2>3, <2>4, FrontAppend
  <2>7. longer[1] = ctl[1]
    <3>1. PICK n \in Nat : n = Len(ctl) /\ n > 0
      BY <1>1, Innermost
    <3>. QED
      BY <2>6, <3>1
  <2>. QED
    BY <1>4, <2>2, <2>5, <2>6, <2>7
<1>6. Owned(ctl, c)
  BY <1>1 DEF Compiling, Owned
<1>7. Owned(ctl', c)
  BY <1>5, <1>6, SameOwnCode
<1>. QED
  BY <1>3, <1>4, <1>5, <1>7, CarriesOn

LEMMA ReturnsInv ==
  ASSUME SessionInv, phase = "compile", NEW c \in Contexts, Returns(c),
         Top.kind \in Handlers, ctl[Len(ctl) - 1].kind # "fslash",
         Same(c, Top.at),
         c.locals = IF Top.kind = "fn" THEN 0 ELSE cx.locals,
         Owned(ctl, c), c.tys[1] = cx.tys[1]
  PROVE  SessionInv' /\ Len(ctl') = Len(ctl) - 1 /\ phase' = "compile"
<1>1. Typed /\ Compiling
  BY DEF SessionInv
<1>2. /\ ctl \in Seq(Frames) /\ cx \in Contexts /\ Nested(ctl, cx)
      /\ Last(ctl) = Top /\ Len(ctl) \in Nat /\ Len(ctl) > 1
      /\ Top.at.fnState # "sig"
  <2>1. ctl \in Seq(Frames) /\ cx \in Contexts /\ Nested(ctl, cx)
    BY <1>1 DEF Typed, Compiling
  <2>2. PICK n \in Nat : n = Len(ctl)
    BY <1>1, Innermost
  <2>3. Last(ctl) = Top /\ n > 0 /\ n # 1
    BY <1>1, <2>2, Innermost
  <2>4. Top.at.fnState # "sig"
    BY <1>1, <2>2, <2>3, Innermost
  <2>5. n > 1
    BY <2>3
  <2>. QED
    BY <2>1, <2>2, <2>3, <2>4, <2>5
<1>. DEFINE k == Front(ctl)
<1>3. /\ k \in Seq(Frames) /\ Len(k) = Len(ctl) - 1
      /\ k[1] = ctl[1] /\ Nested(k, c)
  BY <1>2, PopsNested
<1>4. Last(k) = ctl[Len(ctl) - 1]
  <2>1. \A i \in 1..(Len(ctl) - 1) : k[i] = ctl[i]
    BY <1>2, FrontProperties, SMTT(30)
  <2>. QED
    BY <1>2, <1>3, <2>1 DEF Last
<1>5. /\ ctl' = Got(k) /\ cx' = c /\ phase' = phase
      /\ UNCHANGED <<immTys, vals, emit>>
  BY DEF Returns, Pop
<1>6. c.fnState # "sig"
  BY <1>2 DEF Same
<1>. HIDE DEF k
<1>7. /\ ctl' \in Seq(Frames)
      /\ Nested(ctl', c)
      /\ Len(ctl') = Len(ctl) - 1
      /\ ctl'[1].kind = ctl[1].kind
      /\ Last(ctl').kind # "fslash"
  BY <1>3, <1>4, <1>5, <1>6, GotNested
<1>8. Owned(ctl', c)
  BY <1>7, SameOwnCode
<1>. QED
  BY <1>5, <1>7, <1>8, CarriesOn
-----------------------------------------------------------------------------
(* Tokens that are done at once.                                           *)

LEMMA AloneNested ==
  ASSUME NEW k \in Seq(Frames), NEW c \in Contexts, NEW d \in Contexts,
         Nested(k, c), Len(k) = 1, AtTop(OwnCode(k), d), d.locals = c.locals
  PROVE  Nested(k, d)
BY DEF Nested, Within, AtTop

LEMMA NoopInv ==
  ASSUME SessionInv, N_noop
  PROVE  SessionInv' /\ Len(ctl') = Len(ctl) /\ phase' = "compile"
<1>1. /\ phase = "compile" /\ cx.fnState # "sig" /\ Done(cx)
  BY DEF N_noop, Token
<1>2. cx \in Contexts /\ Nested(ctl, cx) /\ Owned(ctl, cx)
  BY <1>1 DEF SessionInv, Typed, Compiling
<1>. QED
  BY <1>1, <1>2, DoneInv

LEMMA MetaInv ==
  ASSUME SessionInv, N_fnMeta
  PROVE  SessionInv' /\ Len(ctl') = Len(ctl) /\ phase' = "compile"
<1>1. PICK c : c = [cx EXCEPT !.meta = TRUE]
  OBVIOUS
<1>2. /\ phase = "compile" /\ cx.fnState # "sig" /\ Done(c)
  BY <1>1 DEF N_fnMeta, Token
<1>3. /\ cx \in Contexts /\ ctl \in Seq(Frames)
      /\ Nested(ctl, cx) /\ Owned(ctl, cx)
  BY <1>2 DEF SessionInv, Typed, Compiling
<1>4. /\ c \in Contexts /\ Same(cx, c) /\ c.locals = cx.locals
      /\ c.tys = cx.tys /\ c.fnState = cx.fnState /\ c.code = cx.code
  BY <1>1, <1>3 DEF Contexts, Same
<1>5. Nested(ctl, c)
  BY <1>3, <1>4, StaysNested
<1>6. Owned(ctl, c)
  BY <1>3, <1>4 DEF Owned
<1>. QED
  BY <1>2, <1>4, <1>5, <1>6, DoneInv

(* fileUse and fileImpl, which are not inside of other tokens.             *)
LEMMA FileInv ==
  ASSUME SessionInv, CleansUp, NEW d \in Dicts, N_fileUse(d) \/ N_fileImpl(d)
  PROVE  SessionInv' /\ Len(ctl') = Len(ctl) /\ phase' = "compile"
<1>1. PICK c : /\ Done(c)
               /\ \/ c = [cx EXCEPT !.dict = Append(cx.dict, d)]
                  \/ c = [cx EXCEPT !.impl = Append(cx.impl, d)]
  BY DEF N_fileUse, N_fileImpl, DictStk_add
<1>2. /\ phase = "compile" /\ cx.fnState # "sig" /\ Len(ctl) = 1
  BY DEF N_fileUse, N_fileImpl, Token, FileAtTop, CleansUp, RuleNames
<1>3. /\ Typed /\ Compiling
      /\ cx \in Contexts /\ ctl \in Seq(Frames)
      /\ Nested(ctl, cx) /\ Owned(ctl, cx)
  BY <1>2 DEF SessionInv, Typed, Compiling
<1>4. d \in Names
  BY DEF Names
<1>5. Append(cx.dict, d) \in Seq(Names) /\ Append(cx.impl, d) \in Seq(Names)
  BY <1>3, <1>4, AppendProperties DEF Contexts
<1>6. /\ c \in Contexts /\ c.locals = cx.locals /\ c.compFn = cx.compFn
      /\ c.unty = cx.unty
      /\ c.tys = cx.tys /\ c.fnState = cx.fnState /\ c.code = cx.code
  BY <1>1, <1>3, <1>5 DEF Contexts
<1>7. AtTop(OwnCode(ctl), c)
  <2>1. AtTop(OwnCode(ctl), cx)
    BY <1>2, <1>3, Innermost
  <2>. QED
    BY <1>6, <2>1 DEF AtTop
<1>8. Nested(ctl, c)
  BY <1>2, <1>3, <1>6, <1>7, AloneNested
<1>9. Owned(ctl, c)
  BY <1>3, <1>6 DEF Owned
<1>. QED
  BY <1>1, <1>2, <1>6, <1>8, <1>9, DoneInv

-----------------------------------------------------------------------------
(* Tokens that compile others.                                             *)

LEMMA ParenOpens ==
  ASSUME SessionInv, N_paren
  PROVE  SessionInv' /\ Len(ctl') = Len(ctl) + 1 /\ phase' = "compile"
<1>1. /\ phase = "compile" /\ cx.fnState # "sig" /\ Opens(Frame("paren"), cx)
  BY DEF N_paren, Token
<1>2. Typed /\ Compiling /\ cx \in Contexts
  BY <1>1 DEF SessionInv, Typed
<1>3. Top.kind # "fslash"
  BY <1>2, Innermost
<1>4. "paren" \in Handlers \ {"fslash"}
  BY DEF Handlers
<1>5. /\ Frame("paren").kind = "paren" /\ Frame("paren").at = cx
  BY <1>2, <1>4, FrameTyped
<1>6. Holds(Frame("paren"), Top.kind, OwnCode(ctl), cx)
  BY <1>2, <1>3, <1>5 DEF Holds, Same, Contexts
<1>. QED
  BY <1>1, <1>2, <1>4, <1>6, OpensInv

LEMMA ImmOpens ==
  ASSUME SessionInv, N_imm
  PROVE  SessionInv' /\ Len(ctl') = Len(ctl) + 1 /\ phase' = "compile"
<1>1. PICK c : c = [cx EXCEPT !.compFn = "imm"]
  OBVIOUS
<1>2. /\ phase = "compile" /\ cx.fnState # "sig" /\ Opens(Frame("imm"), c)
  BY <1>1 DEF N_imm, Token
<1>3. Typed /\ Compiling /\ cx \in Contexts
  BY <1>2 DEF SessionInv, Typed
<1>4. "imm" \in Handlers \ {"fslash"}
  BY DEF Handlers
<1>5. /\ Frame("imm").kind = "imm" /\ Frame("imm").at = cx
  BY <1>3, <1>4, FrameTyped
<1>6. /\ c \in Contexts /\ c.locals = cx.locals /\ c.unty = cx.unty
      /\ c.tys = cx.tys /\ c.fnState = cx.fnState /\ c.code = cx.code
  BY <1>1, <1>3 DEF Contexts, CompFns
<1>7. Holds(Frame("imm"), Top.kind, OwnCode(ctl), c)
  BY <1>1, <1>5 DEF Holds, Same
<1>. QED
  BY <1>2, <1>4, <1>6, <1>7, OpensInv

LEMMA UntyOpens ==
  ASSUME SessionInv, CleansUp, N_unty
  PROVE  SessionInv' /\ Len(ctl') = Len(ctl) + 1 /\ phase' = "compile"
<1>1. PICK c : c = [cx EXCEPT !.unty = TRUE]
  OBVIOUS
<1>2. /\ phase = "compile" /\ cx.fnState # "sig" /\ Opens(Frame("unty"), c)
      /\ ~Inside({"unty"})
  BY <1>1 DEF N_unty, Token, CleansUp, RuleNames
<1>3. Typed /\ Compiling /\ cx \in Contexts /\ ctl \in Seq(Frames)
  BY <1>2 DEF SessionInv, Typed
<1>4. "unty" \in Handlers \ {"fslash"}
  BY DEF Handlers
<1>5. /\ Frame("unty").kind = "unty" /\ Frame("unty").at = cx
  BY <1>3, <1>4, FrameTyped
<1>6. /\ c \in Contexts /\ c.locals = cx.locals
      /\ c.tys = cx.tys /\ c.fnState = cx.fnState /\ c.code = cx.code
  BY <1>1, <1>3 DEF Contexts
<1>7. ~cx.unty
  <2>1. DOMAIN ctl = 1..Len(ctl)
    BY <1>3, LenProperties
  <2>2. \A i \in 1..Len(ctl) : ctl[i].kind # "unty"
    BY <1>2, <2>1 DEF Inside
  <2>. QED
    BY <1>3, <2>2 DEF Compiling, Nested
<1>8. Holds(Frame("unty"), Top.kind, OwnCode(ctl), c)
  BY <1>1, <1>5, <1>7 DEF Holds, Same
<1>. QED
  BY <1>2, <1>4, <1>6, <1>8, OpensInv

LEMMA UseOpens ==
  ASSUME SessionInv, NEW d \in Dicts, N_use(d)
  PROVE  SessionInv' /\ Len(ctl') = Len(ctl) + 1 /\ phase' = "compile"
<1>1. PICK c : c = [cx EXCEPT !.dict = Append(cx.dict, d)]
  OBVIOUS
<1>2. /\ phase = "compile" /\ cx.fnState # "sig" /\ Opens(Frame("use"), c)
  BY <1>1 DEF N_use, Token, DictStk_add
<1>3. Typed /\ Compiling /\ cx \in Contexts
  BY <1>2 DEF SessionInv, Typed
<1>4. "use" \in Handlers \ {"fslash"}
  BY DEF Handlers
<1>5. /\ Frame("use").kind = "use" /\ Frame("use").at = cx
  BY <1>3, <1>4, FrameTyped
<1>6. /\ Append(cx.dict, d) \in Seq(Names)
      /\ Front(Append(cx.dict, d)) = cx.dict
  <2>1. cx.dict \in Seq(Names) /\ d \in Names
    BY <1>3 DEF Contexts, Names
  <2>. QED
    BY <2>1, FrontAppend
<1>7. /\ c \in Contexts /\ c.locals = cx.locals /\ c.unty = cx.unty
      /\ c.tys = cx.tys /\ c.fnState = cx.fnState /\ c.code = cx.code
      /\ c.dict = Append(cx.dict, d)
  BY <1>1, <1>3, <1>6 DEF Contexts
<1>8. Holds(Frame("use"), Top.kind, OwnCode(ctl), c)
  BY <1>1, <1>5, <1>6, <1>7 DEF Holds, Same
<1>. QED
  BY <1>2, <1>4, <1>7, <1>8, OpensInv

LEMMA ImplOpens ==
  ASSUME SessionInv, NEW kind \in {"impl", "mod"}, NEW d \in Dicts,
         N_impl(kind, d)
  PROVE  SessionInv' /\ Len(ctl') = Len(ctl) + 1 /\ phase' = "compile"
<1>1. PICK c : c = [cx EXCEPT !.impl = Append(cx.impl, d)]
  OBVIOUS
<1>2. /\ phase = "compile" /\ cx.fnState # "sig" /\ Opens(Frame(kind), c)
  BY <1>1 DEF N_impl, Token, DictStk_add
<1>3. Typed /\ Compiling /\ cx \in Contexts
  BY <1>2 DEF SessionInv, Typed
<1>4. kind \in Handlers \ {"fslash"}
  BY DEF Handlers
<1>5. /\ Frame(kind).kind = kind /\ Frame(kind).at = cx
  BY <1>3, <1>4, FrameTyped
<1>6. /\ Append(cx.impl, d) \in Seq(Names)
      /\ Front(Append(cx.impl, d)) = cx.impl
  <2>1. cx.impl \in Seq(Names) /\ d \in Names
    BY <1>3 DEF Contexts, Names
  <2>. QED
    BY <2>1, FrontAppend
<1>7. /\ c \in Contexts /\ c.locals = cx.locals /\ c.unty = cx.unty
      /\ c.tys = cx.tys /\ c.fnState = cx.fnState /\ c.code = cx.code
      /\ c.impl = Append(cx.impl, d)
  BY <1>1, <1>3, <1>6 DEF Contexts
<1>8. Holds(Frame(kind), Top.kind, OwnCode(ctl), c)
  BY <1>1, <1>5, <1>6, <1>7 DEF Holds, Same
<1>9. kind # "fn"
  OBVIOUS
<1>. QED
  BY <1>2, <1>4, <1>7, <1>8, <1>9, OpensInv

LEMMA FnOpens ==
  ASSUME SessionInv, CleansUp, parseFn
  PROVE  SessionInv' /\ Len(ctl') = Len(ctl) + 1 /\ phase' = "compile"
<1>1. PICK c : c = [cx EXCEPT !.dict = Append(cx.dict, "fn"),
                              !.impl = Append(cx.impl, "fn"),
                              !.fnState = "sig"]
  OBVIOUS
<1>2. /\ phase = "compile" /\ cx.fnState # "sig" /\ Opens(Frame("fn"), c)
      /\ ~Inside({"fn"})
  BY <1>1 DEF parseFn, Token, DictStk_add, CleansUp, RuleNames
<1>3. Typed /\ Compiling /\ cx \in Contexts /\ ctl \in Seq(Frames)
  BY <1>2 DEF SessionInv, Typed
<1>4. "fn" \in Handlers \ {"fslash"}
  BY DEF Handlers
<1>5. /\ Frame("fn").kind = "fn" /\ Frame("fn").at = cx /\ ~Frame("fn").got
  BY <1>3, <1>4, FrameTyped
<1>6. /\ Append(cx.dict, "fn") \in Seq(Names)
      /\ Front(Append(cx.dict, "fn")) = cx.dict
      /\ Append(cx.impl, "fn") \in Seq(Names)
      /\ Front(Append(cx.impl, "fn")) = cx.impl
  <2>1. cx.dict \in Seq(Names) /\ cx.impl \in Seq(Names) /\ "fn" \in Names
    BY <1>3 DEF Contexts, Names
  <2>. QED
    BY <2>1, FrontAppend
<1>7. /\ c \in Contexts /\ c.locals = cx.locals /\ c.unty = cx.unty
      /\ c.compFn = cx.compFn /\ c.tys = cx.tys /\ c.code = cx.code
      /\ c.dict = Append(cx.dict, "fn") /\ c.impl = Append(cx.impl, "fn")
      /\ c.fnState = "sig"
  BY <1>1, <1>3, <1>6 DEF Contexts
<1>8. /\ \A i \in 1..Len(ctl) : ctl[i].kind # "fn"
      /\ cx.fnState = "no"
  <2>1. DOMAIN ctl = 1..Len(ctl)
    BY <1>3, LenProperties
  <2>2. \A i \in 1..Len(ctl) : ctl[i].kind # "fn"
    BY <1>2, <2>1 DEF Inside
  <2>. QED
    BY <1>3, <2>2 DEF Compiling, Nested
<1>9. cx.code = OwnCode(ctl) /\ Len(cx.tys) = 1
  BY <1>3, <1>8 DEF Compiling, Owned
<1>10. Holds(Frame("fn"), Top.kind, OwnCode(ctl), c)
  BY <1>5, <1>6, <1>7, <1>8, <1>9 DEF Holds
<1>. QED
  BY <1>2, <1>4, <1>7, <1>8, <1>10, OpensInv
(* A comment opens two handlers at once, also in a comment and in the      *)
(* signature of a fn.                                                      *)
LEMMA CommentOpens ==
  ASSUME SessionInv, N_fslash
  PROVE  SessionInv' /\ Len(ctl') = Len(ctl) + 2 /\ phase' = "compile"
<1>1. phase = "compile"
  BY DEF N_fslash
<1>2. /\ Typed /\ Compiling /\ cx \in Contexts /\ ctl \in Seq(Frames)
      /\ Nested(ctl, cx) /\ Owned(ctl, cx)
      /\ Last(ctl) = Top /\ Top.kind # "fslash"
  BY <1>1, Innermost DEF SessionInv, Typed, Compiling
<1>3. PICK c : c = [cx EXCEPT !.compFn = "fslash"]
  OBVIOUS
<1>4. /\ c \in Contexts /\ c.locals = cx.locals /\ c.unty = cx.unty
      /\ c.tys = cx.tys /\ c.fnState = cx.fnState /\ c.code = cx.code
      /\ c.dict = cx.dict /\ c.impl = cx.impl /\ c.compFn = "fslash"
  BY <1>2, <1>3 DEF Contexts, CompFns
<1>5. PICK f \in Frames :
        /\ f = Frame("fslash") /\ f.kind = "fslash" /\ f.at = cx
        /\ f.cfn = cx.compFn /\ f.code = cx.code /\ f.used = 0
  <2>1. "fslash" \in Handlers
    BY DEF Handlers
  <2>. QED
    BY <1>2, <2>1, FrameTyped
<1>6. PICK g \in Frames :
        /\ g = Frame("paren") /\ g.kind = "paren" /\ g.at = cx
        /\ g.cfn = cx.compFn /\ g.code = cx.code /\ g.used = 0
  <2>1. "paren" \in Handlers
    BY DEF Handlers
  <2>. QED
    BY <1>2, <2>1, FrameTyped
<1>7. PICK long : long = Append(ctl, f)
  OBVIOUS
<1>8. PICK longer : longer = Append(long, g)
  OBVIOUS
<1>9. /\ long \in Seq(Frames) /\ Len(long) = Len(ctl) + 1 /\ Last(long) = f
      /\ \A i \in 1..Len(ctl) : long[i] = ctl[i]
  BY <1>2, <1>5, <1>7, FrontAppend
<1>10. /\ longer \in Seq(Frames) /\ Len(longer) = Len(long) + 1
       /\ Last(longer) = g
       /\ \A i \in 1..Len(long) : longer[i] = long[i]
  BY <1>6, <1>8, <1>9, FrontAppend
<1>11. PICK n \in Nat : n = Len(ctl) /\ n > 0
  BY <1>2, Innermost
<1>12. longer[1] = ctl[1] /\ Len(longer) = Len(ctl) + 2
  BY <1>9, <1>10, <1>11
<1>13. Nested(long, cx)
  <2>1. Holds(f, Last(ctl).kind, OwnCode(ctl), cx)
    BY <1>5 DEF Holds, Same
  <2>2. f.kind \in Handlers
    BY <1>5 DEF Handlers
  <2>. QED
    BY <1>2, <1>5, <1>7, <2>1, <2>2, OpensNested
<1>14. Nested(longer, c)
  <2>1. Holds(g, Last(long).kind, OwnCode(long), c)
    <3>1. Last(long).kind = "fslash"
      BY <1>5, <1>9
    <3>2. Same(c, [cx EXCEPT !.compFn = "fslash"])
      BY <1>2, <1>4 DEF Same, Contexts
    <3>. QED
      BY <1>6, <3>1, <3>2 DEF Holds
  <2>2. /\ g.kind \in Handlers
        /\ g.kind # "fn" /\ Last(long).kind = "fslash" /\ g.kind = "paren"
    BY <1>5, <1>6, <1>9 DEF Handlers
  <2>3. /\ g.at = cx /\ g.cfn = cx.compFn /\ g.code = cx.code /\ g.used = 0
        /\ c.locals = cx.locals /\ c.unty = cx.unty /\ c.fnState = cx.fnState
        /\ c \in Contexts /\ cx \in Contexts /\ long \in Seq(Frames)
    BY <1>2, <1>4, <1>6, <1>9
  <2>4. /\ Last(long).kind = "fslash" => g.kind = "paren"
        /\ g.kind # "fslash" /\ Last(long).kind # "fslash" => cx.fnState # "sig"
        /\ c.unty => cx.unty \/ g.kind = "unty"
        /\ c.fnState # "no" => cx.fnState # "no" \/ g.kind = "fn"
        /\ g.kind = "fn" => \A i \in 1..Len(long) : long[i].kind # "fn"
    BY <2>2, <2>3
  <2>. QED
    BY ONLY <1>8, <1>13, <2>1, <2>2, <2>3, <2>4, g \in Frames, OpensNested
<1>15. longer = ctl \o <<f, g>>
  BY <1>2, <1>5, <1>6, <1>7, <1>8, AppendTwo
<1>16. /\ ctl' = longer /\ cx' = c /\ phase' = phase
       /\ UNCHANGED <<immTys, vals, emit>>
  BY <1>3, <1>5, <1>6, <1>15 DEF N_fslash
<1>17. Owned(longer, c)
  <2>1. Owned(ctl, c)
    BY <1>2, <1>4 DEF Owned
  <2>. QED
    BY <1>12, <2>1, SameOwnCode
<1>18. Last(longer).kind # "fslash"
  BY <1>6, <1>10
<1>. QED
  BY <1>1, <1>4, <1>10, <1>12, <1>14, <1>16, <1>17, <1>18, CarriesOn
-----------------------------------------------------------------------------
(* Locals.                                                                 *)

LEMMA AlikeHolds ==
  ASSUME NEW f, NEW g, NEW below, NEW own, NEW c,
         g.kind = f.kind, g.at = f.at, g.got = f.got, Holds(f, below, own, c)
  PROVE  Holds(g, below, own, c)
BY DEF Holds

LEMMA MoreUsed ==
  ASSUME NEW f \in Frames, NEW g, g = [f EXCEPT !.used = @ + 1]
  PROVE  /\ g \in Frames /\ g.kind = f.kind /\ g.cfn = f.cfn
         /\ g.code = f.code /\ g.at = f.at /\ g.got = f.got
         /\ g.used = f.used + 1
<1>1. f.used + 1 \in Nat
  BY DEF Frames
<1>. QED
  BY <1>1 DEF Frames

LEMMA MoreLocals ==
  ASSUME NEW c \in Contexts, NEW d, d = [c EXCEPT !.locals = @ + 1]
  PROVE  /\ d \in Contexts /\ Same(c, d) /\ d.locals = c.locals + 1
         /\ d.tys = c.tys /\ d.fnState = c.fnState /\ d.code = c.code
<1>1. c.locals + 1 \in Nat
  BY DEF Contexts
<1>. QED
  BY <1>1 DEF Contexts, Same

(* One more local, of the one fn whose tokens are compiled.                *)
LEMMA LocalNested ==
  ASSUME NEW k \in Seq(Frames), NEW c \in Contexts, NEW d \in Contexts,
         Nested(k, c), NEW f \in 1..Len(k), k[f].kind = "fn",
         Same(c, d), d.locals = c.locals + 1,
         NEW g, g = [k[f] EXCEPT !.used = @ + 1],
         NEW l, l = [k EXCEPT ![f] = g]
  PROVE  /\ l \in Seq(Frames)
         /\ Len(l) = Len(k)
         /\ l[1].kind = k[1].kind
         /\ Last(l).kind = Last(k).kind
         /\ Nested(l, d)
<1>1. PICK n \in Nat : n = Len(k) /\ n > 0
  BY LenProperties DEF Nested
<1>2. \A i \in 1..n : k[i] \in Frames
  BY <1>1, ElementOfSeq
<1>3. k[f] \in Frames
  BY <1>1, <1>2
<1>4. /\ g \in Frames /\ g.kind = k[f].kind /\ g.cfn = k[f].cfn
      /\ g.code = k[f].code /\ g.at = k[f].at /\ g.got = k[f].got
      /\ g.used = k[f].used + 1
  BY <1>3, MoreUsed
<1>5. l \in Seq(Frames) /\ Len(l) = n
  BY <1>1, <1>4, ExceptSeq
<1>6. /\ l[f] = g
      /\ \A i \in 1..n : i # f => l[i] = k[i]
  BY <1>1, <1>5
<1>7. \A i \in 1..n :
        /\ l[i].kind = k[i].kind /\ l[i].cfn = k[i].cfn /\ l[i].code = k[i].code
        /\ l[i].at = k[i].at /\ l[i].got = k[i].got
  BY <1>4, <1>6
<1>8. \A i \in 1..n : \A below, own, e :
        Holds(k[i], below, own, e) => Holds(l[i], below, own, e)
  BY <1>7, AlikeHolds
<1>9. OwnCode(l) = OwnCode(k)
  BY <1>1, <1>7 DEF OwnCode
<1>10. \A i \in 1..n : i < n => Within(l, d, i) = Within(k, c, i)
  BY <1>1, <1>5, <1>7 DEF Within
<1>11. Within(l, d, n) = d /\ Within(k, c, n) = c
  BY <1>1, <1>5 DEF Within
<1>12. ASSUME NEW i \in 2..n
       PROVE  Holds(l[i], l[i - 1].kind, OwnCode(l), Within(l, d, i))
  <2>1. Holds(k[i], k[i - 1].kind, OwnCode(k), Within(k, c, i))
    BY <1>1 DEF Nested
  <2>2. i \in 1..n /\ i - 1 \in 1..n /\ k[i] \in Frames
    BY <1>1, <1>2
  <2>3. CASE i < n
    BY <1>7, <1>8, <1>9, <1>10, <2>1, <2>2, <2>3
  <2>4. CASE i = n
    <3>1. Holds(k[i], k[i - 1].kind, OwnCode(k), d)
      BY <1>11, <2>1, <2>2, <2>4, SameHolds
    <3>. QED
      BY <1>7, <1>8, <1>9, <1>11, <2>2, <2>4, <3>1
  <2>. QED
    BY <2>3, <2>4
<1>13. AtTop(OwnCode(l), Within(l, d, 1))
  <2>1. AtTop(OwnCode(k), Within(k, c, 1))
    BY DEF Nested
  <2>2. CASE n = 1
    BY <1>9, <1>11, <2>1, <2>2 DEF AtTop, Same
  <2>3. CASE n # 1
    <3>1. 1 \in 1..n /\ 1 < n
      BY <1>1, <2>3
    <3>. QED
      BY <1>9, <1>10, <2>1, <3>1
  <2>. QED
    BY <2>2, <2>3
<1>14. ASSUME NEW i \in 2..n
       PROVE  /\ l[i].kind \in Handlers
              /\ l[i].cfn = l[i].at.compFn /\ l[i].code = l[i].at.code
              /\ l[i - 1].kind = "fslash" => l[i].kind = "paren"
              /\ (l[i].kind # "fslash" /\ l[i - 1].kind # "fslash")
                   => l[i].at.fnState # "sig"
  BY <1>1, <1>7 DEF Nested
<1>15. /\ d.unty => \E i \in 1..n : l[i].kind = "unty"
       /\ d.fnState # "no" => \E i \in 1..n : l[i].kind = "fn"
  BY <1>1, <1>7 DEF Nested, Same
<1>16. \A i, j \in 1..n : l[i].kind = "fn" /\ l[j].kind = "fn" => i = j
  BY <1>1, <1>7 DEF Nested
<1>17. \A i \in 1..n : l[i].kind = "fn" => d.locals = l[i].used
  <2>1. TAKE i \in 1..n
  <2>2. HAVE l[i].kind = "fn"
  <2>3. i = f
    BY <1>1, <1>7, <2>2 DEF Nested
  <2>4. c.locals = k[f].used
    BY <1>1 DEF Nested
  <2>. QED
    BY <1>4, <1>6, <2>3, <2>4
<1>18. ~(\A i \in 1..n : l[i].kind # "fn")
  BY <1>1, <1>4, <1>6
<1>19. l[1].kind \in {"repl", "path"} /\ l[1].kind = k[1].kind
  BY <1>1, <1>7 DEF Nested
<1>20. Last(l).kind = Last(k).kind
  BY <1>1, <1>5, <1>7 DEF Last
<1>21. Nested(l, d)
  BY ONLY <1>1, <1>5, <1>12, <1>13, <1>14, <1>15, <1>16, <1>17, <1>18, <1>19
  DEF Nested
<1>. QED
  BY <1>1, <1>5, <1>19, <1>20, <1>21

LEMMA LocalInv ==
  ASSUME SessionInv, phase = "compile", cx.fnState # "no", localImpl
  PROVE  SessionInv' /\ Len(ctl') = Len(ctl) /\ phase' = "compile"
<1>1. /\ Typed /\ Compiling /\ cx \in Contexts /\ ctl \in Seq(Frames)
      /\ Nested(ctl, cx) /\ Owned(ctl, cx) /\ Last(ctl).kind # "fslash"
  BY DEF SessionInv, Typed, Compiling
<1>2. DOMAIN ctl = 1..Len(ctl) /\ Len(ctl) \in Nat
  BY <1>1, LenProperties
<1>3. PICK c : c = [cx EXCEPT !.locals = @ + 1]
  OBVIOUS
<1>4. /\ c \in Contexts /\ Same(cx, c) /\ c.locals = cx.locals + 1
      /\ c.tys = cx.tys /\ c.fnState = cx.fnState /\ c.code = cx.code
  BY <1>1, <1>3, MoreLocals
<1>5. PICK f \in 1..Len(ctl) :
        /\ ctl[f].kind = "fn"
        /\ f = LET fns == {i \in DOMAIN ctl : ctl[i].kind = "fn"}
               IN  CHOOSE g \in fns : \A h \in fns : h <= g
  <2>. DEFINE fns == {i \in DOMAIN ctl : ctl[i].kind = "fn"}
              f == CHOOSE g \in fns : \A h \in fns : h <= g
  <2>1. PICK g \in fns : TRUE
    BY <1>1, <1>2 DEF Nested
  <2>2. \A h \in fns : h <= g
    BY <1>1, <1>2 DEF Nested
  <2>3. f \in fns
    BY <2>2
  <2>4. f \in 1..Len(ctl) /\ ctl[f].kind = "fn"
    BY <1>2, <2>3
  <2>. QED
    BY <2>4
<1>6. PICK g, l : /\ g = [ctl[f] EXCEPT !.used = @ + 1]
                  /\ l = [ctl EXCEPT ![f] = g]
  OBVIOUS
<1>7. /\ ctl' = IF cx.fnState = "sig" THEN l ELSE Got(l)
      /\ cx' = c /\ phase' = phase
      /\ UNCHANGED <<immTys, vals, emit>>
  <2>1. l = [ctl EXCEPT ![f].used = @ + 1]
    BY <1>6
  <2>. QED
    BY <1>3, <1>5, <2>1 DEF localImpl
<1>8. /\ l \in Seq(Frames)
       /\ Len(l) = Len(ctl)
       /\ l[1].kind = ctl[1].kind
       /\ Last(l).kind = Last(ctl).kind
       /\ Nested(l, c)
  <2>1. /\ ctl \in Seq(Frames) /\ cx \in Contexts /\ c \in Contexts
        /\ Nested(ctl, cx) /\ Same(cx, c) /\ c.locals = cx.locals + 1
        /\ f \in 1..Len(ctl) /\ ctl[f].kind = "fn"
    BY <1>1, <1>4, <1>5
  <2>2. Nested(l, c)
    BY ONLY <1>6, <2>1, LocalNested
  <2>3. l \in Seq(Frames) /\ Len(l) = Len(ctl)
    BY ONLY <1>6, <2>1, LocalNested, SMTT(30)
  <2>4. l[1].kind = ctl[1].kind
    BY ONLY <1>6, <2>1, LocalNested
  <2>5. Last(l).kind = Last(ctl).kind
    BY ONLY <1>6, <2>1, LocalNested DEF Last
  <2>. QED
    BY <2>2, <2>3, <2>4, <2>5
<1>9. /\ ctl' \in Seq(Frames)
       /\ Len(ctl') = Len(ctl)
       /\ ctl'[1].kind = ctl[1].kind
       /\ Last(ctl').kind # "fslash"
       /\ Nested(ctl', c)
  <2>1. CASE cx.fnState = "sig"
    BY <1>1, <1>7, <1>8, <2>1
  <2>2. CASE cx.fnState # "sig"
    <3>1. ctl' = Got(l) /\ c.fnState # "sig"
      BY <1>4, <1>7, <2>2
    <3>. QED
      BY <1>1, <1>4, <1>8, <3>1, GotNested
  <2>. QED
    BY <2>1, <2>2
<1>10. Owned(ctl', c)
  <2>1. Owned(ctl, c)
    BY <1>1, <1>4 DEF Owned
  <2>. QED
    BY <1>9, <2>1, SameOwnCode
<1>. QED
  BY <1>4, <1>7, <1>9, <1>10, CarriesOn

LEMMA InputOrVarInv ==
  ASSUME SessionInv, N_inp \/ N_var
  PROVE  SessionInv' /\ Len(ctl') = Len(ctl) /\ phase' = "compile"
<1>1. phase = "compile" /\ cx.fnState # "no" /\ localImpl
  BY DEF N_inp, N_var, Token
<1>. QED
  BY <1>1, LocalInv

-----------------------------------------------------------------------------
(* The body of a fn.                                                       *)

LEMMA BodyInv ==
  ASSUME SessionInv, parseFn_do
  PROVE  SessionInv' /\ Len(ctl') = Len(ctl) /\ phase' = "compile"
<1>1. phase = "compile" /\ Top.kind = "fn" /\ cx.fnState = "sig"
  BY DEF parseFn_do
<1>2. /\ Typed /\ Compiling /\ cx \in Contexts /\ ctl \in Seq(Frames)
      /\ Nested(ctl, cx) /\ Owned(ctl, cx) /\ Last(ctl).kind # "fslash"
  BY <1>1 DEF SessionInv, Typed, Compiling
<1>3. PICK n \in Nat : n = Len(ctl) /\ n > 0
  BY <1>2, Innermost
<1>4. n # 1
  <2>1. Top.kind \in Handlers
    BY <1>1 DEF Handlers
  <2>. QED
    BY <1>2, <1>3, <2>1, Innermost
<1>5. n > 1
  BY <1>3, <1>4
<1>6. PICK c : c = fnBody(cx)
  OBVIOUS
<1>7. /\ Append(cx.tys, 0) \in Seq(Int)
      /\ Len(cx.tys) = 1 /\ Len(Append(cx.tys, 0)) = 2
      /\ Append(cx.tys, 0)[1] = cx.tys[1]
  <2>0. cx.tys \in Seq(Int)
    BY <1>2 DEF Contexts
  <2>1. cx.tys \in Seq(Int) /\ Len(cx.tys) = 1
    BY <1>1, <1>2, <2>0 DEF Owned
  <2>2. PICK t : t = cx.tys
    OBVIOUS
  <2>3. t \in Seq(Int) /\ Len(t) = 1
    BY <2>1, <2>2
  <2>4. /\ Append(t, 0) \in Seq(Int) /\ Len(Append(t, 0)) = Len(t) + 1
        /\ \A i \in 1..Len(t) : Append(t, 0)[i] = t[i]
    BY ONLY <2>3, 0 \in Int, FrontAppend
  <2>5. Len(Append(t, 0)) = 2 /\ Append(t, 0)[1] = t[1]
    BY <2>3, <2>4
  <2>6. Append(t, 0) \in Seq(Int) /\ Len(t) = 1
    BY <2>3, <2>4
  <2>. QED
    BY ONLY <2>2, <2>5, <2>6
<1>8. /\ c \in Contexts /\ c.tys = Append(cx.tys, 0) /\ c.fnState = "body"
      /\ c.code = n /\ c.locals = cx.locals /\ c.compFn = cx.compFn
      /\ c.unty = cx.unty /\ c.dict = cx.dict /\ c.impl = cx.impl
  BY <1>2, <1>3, <1>6, <1>7 DEF Contexts, fnBody
<1>9. Owned(ctl, c)
  BY <1>5, <1>7, <1>8 DEF Owned
<1>10. Nested(ctl, c)
  <2>1. \A i \in 1..n : i # n => Within(ctl, c, i) = Within(ctl, cx, i)
    BY <1>3 DEF Within
  <2>2. Within(ctl, c, n) = c /\ Within(ctl, cx, n) = cx
    BY <1>3 DEF Within
  <2>3. ASSUME NEW i \in 2..n
        PROVE  Holds(ctl[i], ctl[i - 1].kind, OwnCode(ctl), Within(ctl, c, i))
    <3>1. Holds(ctl[i], ctl[i - 1].kind, OwnCode(ctl), Within(ctl, cx, i))
      BY <1>2, <1>3 DEF Nested
    <3>2. CASE i # n
      BY <1>3, <2>1, <3>1, <3>2
    <3>3. CASE i = n
      <4>1. ctl[i].kind = "fn"
        BY <1>1, <1>3, <3>3 DEF Top
      <4>. QED
        BY <1>8, <2>2, <3>1, <3>3, <4>1 DEF Holds
    <3>. QED
      BY <3>2, <3>3
  <2>4. AtTop(OwnCode(ctl), Within(ctl, c, 1))
    BY <1>2, <1>3, <1>5, <2>1 DEF Nested
  <2>5. n \in 1..n /\ ctl[n].kind = "fn"
    BY <1>1, <1>3 DEF Top
  <2>. QED
    BY <1>2, <1>3, <1>8, <2>3, <2>4, <2>5 DEF Nested
<1>11. cx' = c /\ ctl' = ctl /\ phase' = phase /\ UNCHANGED <<immTys, vals, emit>>
  BY <1>6 DEF parseFn_do
<1>. QED
  BY <1>1, <1>2, <1>7, <1>8, <1>9, <1>10, <1>11, CarriesOn
-----------------------------------------------------------------------------
(* Values.                                                                 *)

LEMMA AddTopProperties ==
  ASSUME NEW s \in Seq(Int), Len(s) > 0, NEW n \in Int
  PROVE  /\ AddTop(s, n) \in Seq(Int)
         /\ Len(AddTop(s, n)) = Len(s)
         /\ Last(AddTop(s, n)) = Last(s) + n
         /\ Len(s) = 1 => AddTop(s, n)[1] = s[1] + n
         /\ Len(s) # 1 => AddTop(s, n)[1] = s[1]
<1>1. PICK m \in Nat : m = Len(s) /\ m > 0
  BY LenProperties
<1>2. s[m] \in Int
  BY <1>1, ElementOfSeq
<1>3. PICK t : t = [s EXCEPT ![m] = s[m] + n]
  OBVIOUS
<1>4. t \in Seq(Int) /\ Len(t) = m
  BY <1>1, <1>2, <1>3, ExceptSeq
<1>5. t[m] = s[m] + n /\ \A i \in 1..m : i # m => t[i] = s[i]
  BY <1>1, <1>3, <1>4
<1>6. t = AddTop(s, n)
  BY <1>1, <1>3 DEF AddTop
<1>. QED
  BY <1>1, <1>4, <1>5, <1>6 DEF Last

LEMMA OneMore ==
  ASSUME NEW t \in Int, NEW i \in Int, NEW v \in Int, NEW e \in Int, NEW n \in Int,
         t + i = v + e
  PROVE  t + (i + n) = (v + n) + e /\ (t + n) + i = v + (e + n)
OBVIOUS

LEMMA ValueInv ==
  ASSUME SessionInv, CleansUp, NEW n \in {1, -1}, Value(n)
  PROVE  SessionInv' /\ Len(ctl') = Len(ctl) /\ phase' = "compile"
<1>1. /\ phase = "compile" /\ cx.fnState # "sig" /\ phase' = phase
      /\ ctl' = Got(ctl)
      /\ cx.unty => ~asImm /\ cx.code # 1
  BY DEF Value, Token, CleansUp, RuleNames
<1>2. /\ Typed /\ Compiling /\ cx \in Contexts /\ ctl \in Seq(Frames)
      /\ Nested(ctl, cx) /\ Owned(ctl, cx) /\ Last(ctl).kind # "fslash"
      /\ immTys \in Seq(Int) /\ Len(immTys) > 0
      /\ cx.tys \in Seq(Int) /\ Len(cx.tys) > 0
      /\ vals \in Int /\ emit.net \in Int /\ n \in Int /\ cx.code \in Nat
  <2>1. Typed /\ Compiling
    BY <1>1 DEF SessionInv
  <2>2. /\ cx \in Contexts /\ ctl \in Seq(Frames) /\ immTys \in Seq(Int)
        /\ vals \in Int /\ emit.net \in Int
    BY <2>1 DEF Typed
  <2>3. /\ Nested(ctl, cx) /\ Owned(ctl, cx) /\ Last(ctl).kind # "fslash"
        /\ Len(immTys) > 0
    BY <2>1 DEF Compiling
  <2>4. cx.tys \in Seq(Int) /\ cx.code \in Nat
    BY <2>2 DEF Contexts
  <2>5. Len(cx.tys) > 0
    <3>1. Len(cx.tys) = 1 \/ Len(cx.tys) = 2
      BY ONLY <2>3 DEF Owned
    <3>. QED
      BY ONLY <3>1
  <2>6. n \in Int
    OBVIOUS
  <2>. QED
    BY <2>1, <2>2, <2>3, <2>4, <2>5, <2>6
<1>3. cx.tys[1] \in Int /\ Last(immTys) \in Int
  <2>1. PICK t : t = cx.tys
    OBVIOUS
  <2>2. PICK m \in Nat : m = Len(t) /\ m > 0
    BY <1>2, <2>1, LenProperties
  <2>3. t[1] \in Int
    BY <1>2, <2>1, <2>2, ElementOfSeq
  <2>4. Last(immTys) \in Int
    BY <1>2, FrontProperties
  <2>. QED
    BY <2>1, <2>3, <2>4
<1>4. /\ cx.tys[1] + Last(immTys) = vals + emit.net
      /\ ctl[1].kind = "path" => emit.net = 0
  BY <1>2 DEF Compiling
<1>5. /\ cx.tys[1] + (Last(immTys) + n) = (vals + n) + emit.net
      /\ (cx.tys[1] + n) + Last(immTys) = vals + (emit.net + n)
  <2>1. PICK t \in Int, i \in Int, v \in Int, e \in Int :
          t = cx.tys[1] /\ i = Last(immTys) /\ v = vals /\ e = emit.net
    BY <1>2, <1>3
  <2>2. t + i = v + e /\ n \in Int
    BY <1>2, <1>4, <2>1
  <2>3. t + (i + n) = (v + n) + e /\ (t + n) + i = v + (e + n)
    BY ONLY <2>1, <2>2, OneMore
  <2>. QED
    BY <2>1, <2>3
<1>6. SUFFICES
        /\ cx' \in Contexts /\ Same(cx, cx') /\ cx'.locals = cx.locals
        /\ immTys' \in Seq(Int) /\ Len(immTys') > 0
        /\ vals' \in Int /\ emit' \in [net : Int, low : Int]
        /\ cx'.tys[1] + Last(immTys') = vals' + emit'.net
        /\ ctl[1].kind = "path" => emit'.net = 0
  <2>1. PICK c : c = cx'
    OBVIOUS
  <2>2. c \in Contexts /\ Same(cx, c) /\ c.locals = cx.locals
    BY <1>6, <2>1
  <2>3. Nested(ctl, c)
    BY <1>2, <2>2, StaysNested
  <2>4. c.fnState # "sig"
    BY <1>1, <2>2 DEF Same
  <2>5. /\ ctl' \in Seq(Frames)
        /\ Nested(ctl', c)
        /\ Len(ctl') = Len(ctl)
        /\ ctl'[1].kind = ctl[1].kind
        /\ Last(ctl').kind = Last(ctl).kind
    BY <1>1, <1>2, <2>2, <2>3, <2>4, GotNested
  <2>6. Owned(ctl, c)
    BY <1>2, <2>2 DEF Owned, Same
  <2>7. Owned(ctl', c)
    BY <2>5, <2>6, SameOwnCode
  <2>8. Compiling'
    BY <1>2, <1>6, <2>1, <2>5, <2>7 DEF Compiling
  <2>9. Typed'
    BY <1>1, <1>6, <2>5 DEF Typed
  <2>. QED
    BY <1>1, <2>5, <2>8, <2>9 DEF SessionInv
<1>7. CASE asImm
  <2>1. /\ ~cx.unty /\ vals' = vals + n /\ immTys' = AddTop(immTys, n)
        /\ cx' = cx /\ emit' = emit
    BY <1>1, <1>7 DEF Value
  <2>2. /\ immTys' \in Seq(Int) /\ Len(immTys') > 0
        /\ Last(immTys') = Last(immTys) + n
    BY <1>2, <2>1, AddTopProperties
  <2>3. emit \in [net : Int, low : Int]
    BY <1>2 DEF Typed
  <2>4. Same(cx, cx')
    BY <2>1 DEF Same
  <2>5. cx'.tys[1] + Last(immTys') = vals' + emit'.net
    BY <1>5, <2>1, <2>2
  <2>6. vals' \in Int
    BY <1>2, <2>1
  <2>. QED
    BY <1>2, <1>4, <2>1, <2>2, <2>3, <2>4, <2>5, <2>6
<1>8. CASE ~asImm
  <2>1. /\ cx.code # 0 /\ UNCHANGED <<vals, immTys>>
        /\ cx' = IF cx.unty THEN cx ELSE [cx EXCEPT !.tys = AddTop(cx.tys, n)]
        /\ emit' = IF cx.code = 1 THEN Emit(emit, n) ELSE emit
    BY <1>8 DEF Value
  <2>2. emit \in [net : Int, low : Int]
    BY <1>2 DEF Typed
  <2>3. CASE cx.unty
    <3>1. cx' = cx /\ emit' = emit
      BY <1>1, <2>1, <2>3
    <3>2. Same(cx, cx')
      BY <3>1 DEF Same
    <3>. QED
      BY <1>2, <1>4, <2>1, <2>2, <3>1, <3>2
  <2>4. CASE ~cx.unty
    <3>1. PICK t : t = AddTop(cx.tys, n)
      OBVIOUS
    <3>2. PICK old : old = cx.tys
      OBVIOUS
    <3>3. /\ t \in Seq(Int) /\ Len(t) = Len(old)
          /\ Len(old) = 1 => t[1] = old[1] + n
          /\ Len(old) # 1 => t[1] = old[1]
      BY <1>2, <3>1, <3>2, AddTopProperties
    <3>4. cx' = [cx EXCEPT !.tys = t]
      BY <2>1, <2>4, <3>1
    <3>5. /\ cx' \in Contexts /\ Same(cx, cx') /\ cx'.locals = cx.locals
          /\ cx'.tys = t
      BY <1>2, <3>2, <3>3, <3>4 DEF Contexts, Same
    <3>6. CASE cx.code = 1
      <4>1. Len(old) = 1 /\ ctl[1].kind # "path"
        BY <1>2, <3>2, <3>6 DEF Owned, OwnCode
      <4>2. PICK e : e = emit
        OBVIOUS
      <4>3. Emit(e, n) \in [net : Int, low : Int] /\ Emit(e, n).net = e.net + n
        BY <1>2, <2>2, <4>2 DEF Emit
      <4>4. emit' \in [net : Int, low : Int] /\ emit'.net = emit.net + n
        BY <2>1, <3>6, <4>2, <4>3
      <4>5. t[1] = cx.tys[1] + n
        BY <3>2, <3>3, <4>1
      <4>6. cx'.tys[1] + Last(immTys) = vals + emit'.net
        BY <1>5, <3>5, <4>4, <4>5
      <4>. QED
        BY <1>2, <2>1, <3>5, <4>1, <4>4, <4>6
    <3>7. CASE cx.code # 1
      <4>1. Len(old) # 1
        <5>1. OwnCode(ctl) \in {0, 1}
          BY DEF OwnCode
        <5>2. cx.code # OwnCode(ctl)
          BY <2>1, <3>7, <5>1
        <5>3. Len(cx.tys) = 2
          BY <1>2, <5>2 DEF Owned
        <5>. QED
          BY <3>2, <5>3
      <4>2. t[1] = cx.tys[1]
        BY <3>2, <3>3, <4>1
      <4>3. emit' = emit
        BY <2>1, <3>7
      <4>. QED
        BY <1>2, <1>4, <2>1, <2>2, <3>5, <4>2, <4>3
    <3>. QED
      BY <3>6, <3>7
  <2>. QED
    BY <2>3, <2>4
<1>. QED
  BY <1>7, <1>8
-----------------------------------------------------------------------------
(* Handlers that return.                                                   *)

(* What a step that ends a handler leaves: the context it has started in.  *)
Restored == Same(cx', ctl[Len(ctl') + 1].at)

(* What is known when the handler on top has its token.                    *)
LEMMA OnTop ==
  ASSUME SessionInv, phase = "compile", Top.kind \in Handlers
  PROVE  /\ Typed /\ Compiling /\ cx \in Contexts /\ ctl \in Seq(Frames)
         /\ Nested(ctl, cx) /\ Owned(ctl, cx)
         /\ Top \in Frames /\ Top.at \in Contexts
         /\ Top.cfn = Top.at.compFn /\ Top.code = Top.at.code
         /\ \E below : /\ below = ctl[Len(ctl) - 1].kind
                       /\ below = "fslash" => Top.kind = "paren"
                       /\ Holds(Top, below, OwnCode(ctl), cx)
<1>1. /\ Typed /\ Compiling /\ cx \in Contexts /\ ctl \in Seq(Frames)
      /\ Nested(ctl, cx) /\ Owned(ctl, cx)
  BY DEF SessionInv, Typed, Compiling
<1>2. Len(ctl) # 1
  BY <1>1, Innermost
<1>3. Top \in Frames /\ Top.at \in Contexts
  BY <1>1, Innermost DEF Frames
<1>4. /\ Top.cfn = Top.at.compFn /\ Top.code = Top.at.code
      /\ Holds(Top, ctl[Len(ctl) - 1].kind, OwnCode(ctl), cx)
      /\ ctl[Len(ctl) - 1].kind = "fslash" => Top.kind = "paren"
  BY <1>1, <1>2, Innermost
<1>. QED
  BY <1>1, <1>3, <1>4

(* A handler that puts back what Holds says of it.                         *)
LEMMA ReturnRestores ==
  ASSUME SessionInv, phase = "compile", NEW c \in Contexts, Returns(c),
         Top.kind \in Handlers, ctl[Len(ctl) - 1].kind # "fslash",
         Same(c, Top.at),
         c.locals = IF Top.kind = "fn" THEN 0 ELSE cx.locals,
         Owned(ctl, c), c.tys[1] = cx.tys[1]
  PROVE  SessionInv' /\ Restored
<1>1. SessionInv' /\ Len(ctl') = Len(ctl) - 1 /\ cx' = c
  BY ReturnsInv DEF Returns
<1>2. PICK n \in Nat : n = Len(ctl)
  BY OnTop, LenProperties
<1>3. PICK m : m = Len(ctl')
  OBVIOUS
<1>4. m + 1 = n
  BY <1>1, <1>2, <1>3
<1>5. Top = ctl[Len(ctl') + 1]
  BY <1>2, <1>3, <1>4 DEF Top
<1>. QED
  BY <1>1, <1>5 DEF Restored

LEMMA ImmRestores ==
  ASSUME SessionInv, N_imm_end
  PROVE  SessionInv' /\ Restored
<1>1. PICK c : c = [cx EXCEPT !.compFn = Top.cfn]
  OBVIOUS
<1>2. phase = "compile" /\ Top.kind = "imm" /\ Returns(c)
  BY <1>1 DEF N_imm_end, Finished
<1>3. Top.kind \in Handlers
  BY <1>2 DEF Handlers
<1>4. PICK below :
        /\ below = ctl[Len(ctl) - 1].kind /\ below # "fslash"
        /\ Holds(Top, below, OwnCode(ctl), cx)
  BY <1>2, <1>3, OnTop
<1>5. /\ cx \in Contexts /\ Owned(ctl, cx) /\ Top \in Frames
      /\ Top.at \in Contexts /\ Top.cfn = Top.at.compFn
  BY <1>2, <1>3, OnTop
<1>6. Top.cfn \in CompFns
  BY <1>5 DEF Frames
<1>7. /\ c \in Contexts /\ c.compFn = Top.cfn /\ c.locals = cx.locals
      /\ c.unty = cx.unty /\ c.fnState = cx.fnState /\ c.code = cx.code
      /\ c.tys = cx.tys /\ c.dict = cx.dict /\ c.impl = cx.impl
  BY <1>1, <1>5, <1>6 DEF Contexts
<1>8. Same(c, Top.at)
  BY <1>2, <1>3, <1>4, <1>5, <1>7, HoldsMeans DEF Same
<1>9. Owned(ctl, c)
  BY <1>5, <1>7 DEF Owned
<1>. QED
  BY <1>2, <1>3, <1>4, <1>7, <1>8, <1>9, ReturnRestores

LEMMA UntyRestores ==
  ASSUME SessionInv, N_unty_end
  PROVE  SessionInv' /\ Restored
<1>1. PICK c : c = [cx EXCEPT !.unty = FALSE]
  OBVIOUS
<1>2. phase = "compile" /\ Top.kind = "unty" /\ Returns(c)
  BY <1>1 DEF N_unty_end, Finished
<1>3. Top.kind \in Handlers
  BY <1>2 DEF Handlers
<1>4. PICK below :
        /\ below = ctl[Len(ctl) - 1].kind /\ below # "fslash"
        /\ Holds(Top, below, OwnCode(ctl), cx)
  BY <1>2, <1>3, OnTop
<1>5. /\ cx \in Contexts /\ Owned(ctl, cx) /\ Top \in Frames
      /\ Top.at \in Contexts
  BY <1>2, <1>3, OnTop
<1>6. /\ c \in Contexts /\ c.compFn = cx.compFn /\ c.locals = cx.locals
      /\ c.unty = FALSE /\ c.fnState = cx.fnState /\ c.code = cx.code
      /\ c.tys = cx.tys /\ c.dict = cx.dict /\ c.impl = cx.impl
  BY <1>1, <1>5 DEF Contexts
<1>7. Same(c, Top.at)
  <2>1. Top.at.unty = FALSE
    <3>1. ~Top.at.unty
      BY <1>2, <1>3, <1>4, <1>5, HoldsMeans
    <3>2. Top.at.unty \in BOOLEAN
      BY <1>5 DEF Contexts
    <3>. QED
      BY <3>1, <3>2
  <2>. QED
    BY <1>2, <1>3, <1>4, <1>5, <1>6, <2>1, HoldsMeans, ZenonT(60) DEF Same
<1>8. Owned(ctl, c)
  BY <1>5, <1>6 DEF Owned
<1>. QED
  BY <1>2, <1>3, <1>4, <1>6, <1>7, <1>8, ReturnRestores

LEMMA UseRestores ==
  ASSUME SessionInv, N_use_end
  PROVE  SessionInv' /\ Restored
<1>1. PICK c : c = [cx EXCEPT !.dict = Front(cx.dict)]
  OBVIOUS
<1>2. phase = "compile" /\ Top.kind = "use" /\ Returns(c)
  BY <1>1 DEF N_use_end, Finished, DictStk_pop
<1>3. Top.kind \in Handlers
  BY <1>2 DEF Handlers
<1>4. PICK below :
        /\ below = ctl[Len(ctl) - 1].kind /\ below # "fslash"
        /\ Holds(Top, below, OwnCode(ctl), cx)
  BY <1>2, <1>3, OnTop
<1>5. /\ cx \in Contexts /\ Owned(ctl, cx) /\ Top \in Frames
      /\ Top.at \in Contexts
  BY <1>2, <1>3, OnTop
<1>6. Front(cx.dict) = Top.at.dict /\ Front(cx.dict) \in Seq(Names)
  <2>1. Front(cx.dict) = Top.at.dict
    BY <1>2, <1>3, <1>4, <1>5, HoldsMeans
  <2>2. Top.at.dict \in Seq(Names)
    BY <1>5 DEF Contexts
  <2>. QED
    BY <2>1, <2>2
<1>7. /\ c \in Contexts /\ c.compFn = cx.compFn /\ c.locals = cx.locals
      /\ c.unty = cx.unty /\ c.fnState = cx.fnState /\ c.code = cx.code
      /\ c.tys = cx.tys /\ c.dict = Top.at.dict /\ c.impl = cx.impl
  BY <1>1, <1>5, <1>6 DEF Contexts
<1>8. Same(c, Top.at)
  BY <1>2, <1>3, <1>4, <1>5, <1>7, HoldsMeans DEF Same
<1>9. Owned(ctl, c)
  BY <1>5, <1>7 DEF Owned
<1>. QED
  BY <1>2, <1>3, <1>4, <1>7, <1>8, <1>9, ReturnRestores

LEMMA ImplRestores ==
  ASSUME SessionInv, N_impl_end
  PROVE  SessionInv' /\ Restored
<1>1. PICK c : c = [cx EXCEPT !.impl = Front(cx.impl)]
  OBVIOUS
<1>2. phase = "compile" /\ Top.kind \in {"impl", "mod"} /\ Returns(c)
  BY <1>1 DEF N_impl_end, Finished, DictStk_pop
<1>3. Top.kind \in Handlers
  BY <1>2 DEF Handlers
<1>4. PICK below :
        /\ below = ctl[Len(ctl) - 1].kind /\ below # "fslash"
        /\ Holds(Top, below, OwnCode(ctl), cx)
  BY <1>2, <1>3, OnTop
<1>5. /\ cx \in Contexts /\ Owned(ctl, cx) /\ Top \in Frames
      /\ Top.at \in Contexts
  BY <1>2, <1>3, OnTop
<1>6. Front(cx.impl) = Top.at.impl /\ Front(cx.impl) \in Seq(Names)
  <2>1. Front(cx.impl) = Top.at.impl
    BY <1>2, <1>3, <1>4, <1>5, HoldsMeans
  <2>2. Top.at.impl \in Seq(Names)
    BY <1>5 DEF Contexts
  <2>. QED
    BY <2>1, <2>2
<1>7. /\ c \in Contexts /\ c.compFn = cx.compFn /\ c.locals = cx.locals
      /\ c.unty = cx.unty /\ c.fnState = cx.fnState /\ c.code = cx.code
      /\ c.tys = cx.tys /\ c.dict = cx.dict /\ c.impl = Top.at.impl
  BY <1>1, <1>5, <1>6 DEF Contexts
<1>8. Same(c, Top.at)
  BY <1>2, <1>3, <1>4, <1>5, <1>7, HoldsMeans DEF Same
<1>9. Owned(ctl, c)
  BY <1>5, <1>7 DEF Owned
<1>10. Top.kind # "fn"
  BY <1>2
<1>. QED
  BY <1>2, <1>3, <1>4, <1>7, <1>8, <1>9, <1>10, ReturnRestores

LEMMA FnRestores ==
  ASSUME SessionInv, parseFn_end
  PROVE  SessionInv' /\ Restored
<1>1. PICK c : c = fnEnd(cx, Top)
  OBVIOUS
<1>2. phase = "compile" /\ Top.kind = "fn" /\ Top.got /\ Returns(c)
  BY <1>1 DEF parseFn_end, Finished
<1>3. Top.kind \in Handlers
  BY <1>2 DEF Handlers
<1>4. PICK below :
        /\ below = ctl[Len(ctl) - 1].kind /\ below # "fslash"
        /\ Holds(Top, below, OwnCode(ctl), cx)
  BY <1>2, <1>3, OnTop
<1>5. /\ cx \in Contexts /\ Owned(ctl, cx) /\ Top \in Frames
      /\ Top.at \in Contexts /\ Top.code = Top.at.code
  BY <1>2, <1>3, OnTop
<1>6. /\ cx.compFn = Top.at.compFn
      /\ Top.at.unty = cx.unty
      /\ Top.at.fnState = "no" /\ Top.at.code = OwnCode(ctl)
      /\ Len(Top.at.tys) = 1 /\ cx.fnState = "body"
      /\ Top.at.dict = Front(cx.dict) /\ Top.at.impl = Front(cx.impl)
  BY <1>2, <1>3, <1>4, <1>5, HoldsMeans
<1>7. /\ Front(cx.tys) \in Seq(Int) /\ Len(Front(cx.tys)) = 1
      /\ Front(cx.tys)[1] = cx.tys[1]
  <2>1. PICK t : t = cx.tys
    OBVIOUS
  <2>2. t \in Seq(Int) /\ Len(t) = 2
    BY <1>5, <1>6, <2>1 DEF Contexts, Owned
  <2>3. /\ Front(t) \in Seq(Int) /\ Len(Front(t)) = Len(t) - 1
        /\ \A i \in 1..(Len(t) - 1) : Front(t)[i] = t[i]
    <3>1. Len(t) > 0
      BY <2>2
    <3>. QED
      BY <2>2, <3>1, FrontProperties
  <2>4. Len(Front(t)) = 1 /\ Front(t)[1] = t[1]
    BY <2>2, <2>3
  <2>. QED
    BY <2>1, <2>3, <2>4
<1>8. /\ c \in Contexts /\ c.compFn = cx.compFn /\ c.locals = 0
      /\ c.unty = cx.unty /\ c.fnState = "no" /\ c.code = Top.at.code
      /\ c.tys = Front(cx.tys)
      /\ c.dict = Top.at.dict /\ c.impl = Top.at.impl
  <2>1. /\ Top.at.code \in Nat /\ Front(cx.dict) \in Seq(Names)
        /\ Front(cx.impl) \in Seq(Names)
    BY <1>5, <1>6 DEF Contexts
  <2>. QED
    BY <1>1, <1>5, <1>6, <1>7, <2>1 DEF Contexts, fnEnd, DictStk_pop
<1>9. Same(c, Top.at)
  BY <1>6, <1>7, <1>8 DEF Same
<1>10. Owned(ctl, c)
  BY <1>6, <1>7, <1>8 DEF Owned
<1>11. c.tys[1] = cx.tys[1]
  BY <1>7, <1>8
<1>. QED
  BY <1>2, <1>3, <1>4, <1>8, <1>9, <1>10, <1>11, ReturnRestores
(* `)' of a block.                                                         *)
LEMMA ParenRestores ==
  ASSUME SessionInv, N_paren_end, Last(Pop).kind # "fslash"
  PROVE  SessionInv' /\ Restored
<1>1. phase = "compile" /\ Top.kind = "paren" /\ Returns(cx)
  BY DEF N_paren_end
<1>2. Top.kind \in Handlers
  BY <1>1 DEF Handlers
<1>3. /\ cx \in Contexts /\ Owned(ctl, cx) /\ Top \in Frames
      /\ Top.at \in Contexts /\ ctl \in Seq(Frames) /\ Nested(ctl, cx)
      /\ Typed /\ Compiling
  BY <1>1, <1>2, OnTop
<1>4. ctl[Len(ctl) - 1].kind # "fslash"
  <2>1. PICK n \in Nat : n = Len(ctl) /\ n > 0
    BY <1>3, Innermost
  <2>2. n # 1
    BY <1>2, <1>3, <2>1, Innermost
  <2>3. n - 1 \in Nat /\ n - 1 > 0
    BY <2>1, <2>2
  <2>4. /\ Front(ctl) \in Seq(Frames) /\ Len(Front(ctl)) = n - 1
        /\ \A i \in 1..(n - 1) : Front(ctl)[i] = ctl[i]
    BY <1>3, <2>1, FrontProperties
  <2>5. Last(Front(ctl)) = ctl[n - 1]
    BY <2>3, <2>4 DEF Last
  <2>. QED
    BY <2>1, <2>5 DEF Pop
<1>5. PICK below :
        /\ below = ctl[Len(ctl) - 1].kind /\ below # "fslash"
        /\ Holds(Top, below, OwnCode(ctl), cx)
  BY <1>1, <1>2, <1>4, OnTop
<1>6. Same(cx, Top.at)
  BY <1>1, <1>2, <1>3, <1>5, HoldsMeans DEF Same
<1>. QED
  BY <1>1, <1>2, <1>3, <1>4, <1>6, ReturnRestores

(* `)' of a comment, which is the end of two handlers.                     *)
LEMMA CommentRestores ==
  ASSUME SessionInv, N_paren_end, Last(Pop).kind = "fslash"
  PROVE  SessionInv' /\ Restored
<1>1. phase = "compile" /\ Top.kind = "paren"
  BY DEF N_paren_end
<1>2. Top.kind \in Handlers
  BY <1>1 DEF Handlers
<1>3. /\ cx \in Contexts /\ Owned(ctl, cx) /\ Top \in Frames
      /\ Top.at \in Contexts /\ ctl \in Seq(Frames) /\ Nested(ctl, cx)
      /\ Typed /\ Compiling
  BY <1>1, <1>2, OnTop
<1>4. PICK n \in Nat : n = Len(ctl) /\ n > 0 /\ n # 1
  <2>1. PICK n \in Nat : n = Len(ctl) /\ n > 0
    BY <1>3, Innermost
  <2>2. n # 1
    BY <1>2, <1>3, <2>1, Innermost
  <2>. QED
    BY <2>1, <2>2
<1>5. PICK k \in Seq(Frames) :
        /\ k = Pop /\ Len(k) = n - 1
        /\ \A i \in 1..(n - 1) : k[i] = ctl[i]
  <2>1. /\ Front(ctl) \in Seq(Frames) /\ Len(Front(ctl)) = n - 1
        /\ \A i \in 1..(n - 1) : Front(ctl)[i] = ctl[i]
    BY <1>3, <1>4, FrontProperties
  <2>. QED
    BY <2>1 DEF Pop
<1>6. PICK f : f = Last(k)
  OBVIOUS
<1>7. f = ctl[n - 1] /\ f.kind = "fslash" /\ f \in Frames
  <2>1. n - 1 \in 1..(n - 1) /\ n - 1 \in 1..n
    BY <1>4
  <2>2. ctl[n - 1] \in Frames
    BY <1>3, <1>4, <2>1, ElementOfSeq
  <2>. QED
    BY <1>5, <1>6, <2>1, <2>2 DEF Last
<1>8. n > 2
  <2>1. ctl[1].kind # "fslash"
    BY <1>3 DEF Nested
  <2>2. n - 1 # 1
    BY <1>4, <1>7, <2>1
  <2>. QED
    BY <1>4, <2>2
<1>9. Top.at.unty = cx.unty /\ Top.at.fnState = cx.fnState
      /\ Top.at.code = cx.code /\ Top.at.dict = cx.dict
      /\ Top.at.impl = cx.impl /\ Len(Top.at.tys) = Len(cx.tys)
  BY <1>1, <1>2, <1>3, OnTop, HoldsMeans
<1>10. PICK d \in Contexts :
         /\ Same(d, Top.at) /\ d.locals = cx.locals
         /\ d.unty = cx.unty /\ d.fnState = cx.fnState
         /\ d.code = cx.code /\ d.dict = cx.dict
         /\ d.impl = cx.impl /\ Len(d.tys) = Len(cx.tys)
  <2>1. PICK d : d = [Top.at EXCEPT !.locals = cx.locals]
    OBVIOUS
  <2>2. cx.locals \in Nat
    BY <1>3 DEF Contexts
  <2>3. /\ d \in Contexts /\ d.locals = cx.locals /\ d.compFn = Top.at.compFn
        /\ d.unty = Top.at.unty /\ d.fnState = Top.at.fnState
        /\ d.code = Top.at.code /\ d.dict = Top.at.dict
        /\ d.impl = Top.at.impl /\ d.tys = Top.at.tys
    BY <1>3, <2>1, <2>2 DEF Contexts
  <2>. QED
    BY <1>9, <2>3 DEF Same
<1>11. Nested(k, d)
  <2>1. Last(ctl) = Top /\ Len(ctl) > 1
    BY <1>4 DEF Last, Top
  <2>2. d.locals = IF Last(ctl).kind = "fn" THEN 0 ELSE cx.locals
    BY <1>1, <1>10, <2>1
  <2>3. Nested(Front(ctl), d)
    BY <1>3, <1>10, <2>1, <2>2, PopsNested
  <2>. QED
    BY <1>5, <2>3 DEF Pop
<1>12. PICK m \in Nat : m = n - 1 /\ m > 1 /\ m = Len(k)
  BY <1>4, <1>5, <1>8, SMTT(30)
<1>13. f = k[m]
  BY <1>6, <1>12 DEF Last
<1>14. /\ Same(d, f.at) /\ f.cfn = f.at.compFn
       /\ k[m - 1].kind # "fslash"
  <2>1. m \in 2..Len(k) /\ Within(k, d, m) = d
    BY <1>12 DEF Within
  <2>2. /\ f.cfn = f.at.compFn
        /\ Holds(f, k[m - 1].kind, OwnCode(k), d)
        /\ k[m - 1].kind = "fslash" => f.kind = "paren"
    BY <1>11, <1>13, <2>1 DEF Nested
  <2>. QED
    BY <1>7, <2>2 DEF Holds
<1>15. PICK c : c = fslash_end(cx, f)
  OBVIOUS
<1>16. /\ cx' = c /\ ctl' = Front(k) /\ phase' = phase
       /\ UNCHANGED <<immTys, vals, emit>>
  BY <1>5, <1>6, <1>15 DEF N_paren_end
<1>17. /\ c \in Contexts /\ c.compFn = f.cfn /\ c.locals = cx.locals
       /\ c.unty = cx.unty /\ c.fnState = cx.fnState /\ c.code = cx.code
       /\ c.tys = cx.tys /\ c.dict = cx.dict /\ c.impl = cx.impl
  <2>1. f.cfn \in CompFns
    BY <1>7 DEF Frames
  <2>. QED
    BY <1>3, <1>15, <2>1 DEF Contexts, fslash_end
<1>18. Same(c, f.at)
  BY <1>10, <1>14, <1>17 DEF Same
<1>19. /\ Front(k) \in Seq(Frames) /\ Len(Front(k)) = m - 1
       /\ Front(k)[1] = k[1] /\ Nested(Front(k), c)
  <2>1. Last(k) = f /\ Len(k) > 1
    BY <1>6, <1>12
  <2>2. c.locals = IF Last(k).kind = "fn" THEN 0 ELSE d.locals
    BY <1>7, <1>10, <1>17, <2>1
  <2>. QED
    BY <1>10, <1>11, <1>12, <1>17, <1>18, <2>1, <2>2, PopsNested
<1>20. Last(Front(k)).kind # "fslash"
  <2>1. \A i \in 1..(m - 1) : Front(k)[i] = k[i]
    BY <1>12, FrontProperties
  <2>2. m - 1 \in 1..(m - 1)
    BY <1>12
  <2>. QED
    BY <1>14, <1>19, <2>1, <2>2 DEF Last
<1>21. Front(k)[1].kind = ctl[1].kind
  BY <1>4, <1>5, <1>8, <1>19
<1>22. Owned(Front(k), c)
  <2>1. Owned(ctl, c)
    BY <1>3, <1>17 DEF Owned
  <2>. QED
    BY <1>21, <2>1, SameOwnCode
<1>23. SessionInv'
  BY <1>1, <1>16, <1>17, <1>19, <1>20, <1>21, <1>22, CarriesOn
<1>24. f = ctl[Len(ctl') + 1]
  BY <1>7, <1>12, <1>16, <1>19
<1>. QED
  BY <1>16, <1>18, <1>23, <1>24 DEF Restored

-----------------------------------------------------------------------------
(* The host.                                                               *)

LEMMA StartInv ==
  ASSUME SessionInv, CleansUp, NEW kind \in {"repl", "path"}, compileSrc(kind)
  PROVE  SessionInv'
<1>1. phase = "ready" /\ phase' = "compile"
  BY DEF compileSrc
<1>2. Typed /\ Resting(cx) /\ cx.tys[1] = vals
  BY <1>1 DEF SessionInv
<1>3. PICK own \in {0, 1} : own = IF kind = "repl" THEN 1 ELSE 0
  OBVIOUS
<1>4. PICK c : c = [cx EXCEPT !.code = IF kind = "repl" THEN 1 ELSE @]
  OBVIOUS
<1>5. /\ c \in Contexts /\ c.code = own /\ c.compFn = cx.compFn
      /\ c.unty = cx.unty /\ c.fnState = cx.fnState /\ c.locals = cx.locals
      /\ c.tys = cx.tys
  <2>1. kind = "path" => cx.code = 0
    BY DEF compileSrc, CleansUp, RuleNames
  <2>2. cx \in Contexts
    BY <1>2 DEF Typed
  <2>. QED
    BY <1>3, <1>4, <2>1, <2>2 DEF Contexts
<1>6. PICK f : f = [Frame(kind) EXCEPT !.at = c]
  OBVIOUS
<1>7. f \in Frames /\ f.kind = kind
  <2>1. cx.compFn \in CompFns /\ cx.code \in Nat /\ cx \in Contexts
    BY <1>2 DEF Typed, Contexts
  <2>2. f = [kind |-> kind, cfn |-> cx.compFn, code |-> cx.code,
             got |-> FALSE, at |-> c, used |-> 0]
    BY <1>6 DEF Frame
  <2>. QED
    BY <1>5, <2>1, <2>2 DEF Frames
<1>8. PICK k : k = <<f>>
  OBVIOUS
<1>9. k \in Seq(Frames) /\ Len(k) = 1 /\ k[1] = f
  BY <1>7, <1>8
<1>10. ctl' = k /\ cx' = c /\ emit' = NoCode /\ vals' = vals
  BY <1>4, <1>6, <1>8 DEF compileSrc
<1>11. OwnCode(k) = own
  BY <1>3, <1>7, <1>9 DEF OwnCode
<1>12. AtTop(OwnCode(k), c) /\ c.locals = 0
  BY <1>2, <1>5, <1>11 DEF AtTop, Resting
<1>13. Within(k, c, 1) = c /\ Last(k) = f
  BY <1>9 DEF Within, Last
<1>14. Nested(k, c)
  BY <1>7, <1>9, <1>12, <1>13 DEF Nested, AtTop
<1>15. Owned(k, c)
  BY <1>12 DEF Owned, AtTop
<1>16. /\ immTys' \in Seq(Int) /\ Len(immTys') > 0 /\ Last(immTys') = 0
  <2>1. immTys' = Append(immTys, 0) /\ immTys \in Seq(Int)
    BY <1>2 DEF compileSrc, Typed
  <2>2. PICK n \in Nat : n = Len(immTys)
    BY <2>1, LenProperties
  <2>3. /\ Append(immTys, 0) \in Seq(Int)
        /\ Len(Append(immTys, 0)) = n + 1
        /\ Last(Append(immTys, 0)) = 0
    BY <2>1, <2>2, 0 \in Int, FrontAppend
  <2>. QED
    BY <2>1, <2>2, <2>3
<1>17. emit' \in [net : Int, low : Int] /\ emit'.net = 0
  BY <1>10 DEF NoCode
<1>18. cx'.tys[1] + Last(immTys') = vals' + emit'.net
  <2>1. vals \in Int /\ vals + 0 = vals
    BY <1>2 DEF Typed
  <2>. QED
    BY <1>2, <1>5, <1>10, <1>16, <1>17, <2>1
<1>19. Compiling'
  BY <1>7, <1>10, <1>13, <1>14, <1>15, <1>16, <1>17, <1>18 DEF Compiling
<1>20. Typed'
  BY <1>1, <1>2, <1>5, <1>9, <1>10, <1>16, <1>17 DEF Typed
<1>. QED
  BY <1>1, <1>19, <1>20 DEF SessionInv

LEMMA EndInv ==
  ASSUME SessionInv, compileSrc_end
  PROVE  SessionInv' /\ phase' # "compile"
<1>1. phase = "compile" /\ Len(ctl) = 1 /\ Last(immTys) = 0
  BY DEF compileSrc_end
<1>2. Typed /\ Compiling
  BY <1>1 DEF SessionInv
<1>3. /\ AtTop(OwnCode(ctl), cx) /\ cx.locals = 0
      /\ Top = ctl[1]
  BY <1>1, <1>2, Innermost DEF Top
<1>4. cx.tys[1] = vals + emit.net
  <2>1. cx.tys[1] + 0 = vals + emit.net
    BY <1>1, <1>2 DEF Compiling
  <2>2. cx.tys[1] \in Int
    <3>1. PICK t : t = cx.tys
      OBVIOUS
    <3>2. t \in Seq(Int) /\ Len(t) = 1
      BY <1>2, <1>3, <3>1 DEF Typed, Contexts, AtTop
    <3>3. t[1] \in Int
      BY <3>2, ElementOfSeq
    <3>. QED
      BY <3>1, <3>3
  <2>. QED
    BY <2>1, <2>2
<1>5. immTys' \in Seq(Int) /\ ctl' = << >> /\ UNCHANGED <<vals, emit>>
  BY <1>2, FrontProperties DEF compileSrc_end, Typed, Compiling
<1>6. ctl' \in Seq(Frames)
  BY <1>5
<1>7. CASE Top.kind = "path"
  <2>1. PICK c : c = [cx EXCEPT !.dict = <<"root">>, !.impl = <<"root">>]
    OBVIOUS
  <2>2. <<"root">> \in Seq(Names)
    BY DEF Names
  <2>3. /\ c \in Contexts /\ c.compFn = cx.compFn /\ c.unty = cx.unty
        /\ c.fnState = cx.fnState /\ c.locals = cx.locals /\ c.tys = cx.tys
    BY <1>2, <2>1, <2>2 DEF Typed, Contexts
  <2>4. cx' = c /\ phase' = "ready"
    BY <1>7, <2>1 DEF compileSrc_end
  <2>5. Resting(c)
    BY <1>3, <2>3 DEF Resting, AtTop
  <2>6. c.tys[1] = vals
    <3>1. emit.net = 0 /\ vals \in Int
      BY <1>2, <1>3, <1>7 DEF Compiling, Typed
    <3>. QED
      BY <1>4, <2>3, <3>1
  <2>. QED
    BY <1>2, <1>5, <1>6, <2>3, <2>4, <2>5, <2>6 DEF SessionInv, Typed
<1>8. CASE Top.kind # "path"
  <2>1. PICK c : c = [cx EXCEPT !.code = 0]
    OBVIOUS
  <2>2. /\ c \in Contexts /\ c.compFn = cx.compFn /\ c.unty = cx.unty
        /\ c.fnState = cx.fnState /\ c.locals = cx.locals /\ c.tys = cx.tys
    BY <1>2, <2>1 DEF Typed, Contexts
  <2>3. cx' = c /\ phase' = "run"
    BY <1>8, <2>1 DEF compileSrc_end
  <2>4. Resting(c)
    BY <1>3, <2>2 DEF Resting, AtTop
  <2>. QED
    BY <1>2, <1>4, <1>5, <1>6, <2>2, <2>3, <2>4 DEF SessionInv, Typed
<1>. QED
  BY <1>7, <1>8

LEMMA RunInv ==
  ASSUME SessionInv, executeInstrs
  PROVE  SessionInv' /\ phase' # "compile"
BY DEF SessionInv, executeInstrs, Typed

LEMMA PanicInv ==
  ASSUME SessionInv, CleansUp, Panic
  PROVE  SessionInv' /\ phase' # "compile"
<1>1. /\ cx' = errCleanup(cx) /\ vals' = 0 /\ ctl' = << >> /\ phase' = "ready"
      /\ UNCHANGED <<immTys, emit>>
  BY DEF Panic, CleansUp
<1>2. Typed
  BY DEF SessionInv
<1>3. PICK c : c = errCleanup(cx)
  OBVIOUS
<1>4. <<"root">> \in Seq(Names) /\ <<0>> \in Seq(Int)
  BY DEF Names
<1>5. cx.code \in Nat
  BY <1>2 DEF Typed, Contexts
<1>6. c = [compFn |-> "base", unty |-> FALSE, fnState |-> "no", locals |-> 0,
           meta |-> FALSE, dict |-> <<"root">>, impl |-> <<"root">>,
           tys |-> <<0>>, code |-> cx.code]
  BY <1>3 DEF errCleanup, Context0
<1>7. c \in Contexts
  BY <1>4, <1>5, <1>6 DEF Contexts, CompFns
<1>8. Resting(c) /\ c.tys[1] = 0
  BY <1>6 DEF Resting
<1>9. ctl' \in Seq(Frames)
  BY <1>1
<1>. QED
  BY <1>1, <1>2, <1>3, <1>7, <1>8, <1>9 DEF SessionInv, Typed

-----------------------------------------------------------------------------
(* The invariant, and the properties that follow from it.                  *)

LEMMA InitInv ==
  ASSUME Init
  PROVE  SessionInv
<1>1. /\ cx = Context0 /\ immTys = << >> /\ ctl = << >> /\ phase = "ready"
      /\ vals = 0 /\ emit = NoCode
  BY DEF Init
<1>2. <<"root">> \in Seq(Names) /\ <<0>> \in Seq(Int)
  BY DEF Names
<1>3. PICK c : c = Context0
  OBVIOUS
<1>4. c = [compFn |-> "base", unty |-> FALSE, fnState |-> "no", locals |-> 0,
           meta |-> FALSE, dict |-> <<"root">>, impl |-> <<"root">>,
           tys |-> <<0>>, code |-> 0]
  BY <1>3 DEF Context0
<1>5. c \in Contexts
  BY <1>2, <1>4 DEF Contexts, CompFns
<1>6. Resting(c) /\ c.tys[1] = 0
  BY <1>4 DEF Resting
<1>7. /\ ctl \in Seq(Frames) /\ immTys \in Seq(Int)
      /\ emit \in [net : Int, low : Int]
  BY <1>1 DEF NoCode
<1>. QED
  BY <1>1, <1>3, <1>5, <1>6, <1>7 DEF SessionInv, Typed

LEMMA StutterInv ==
  ASSUME SessionInv, UNCHANGED vars
  PROVE  SessionInv'
<1>1. cx' = cx /\ ctl' = ctl /\ immTys' = immTys /\ phase' = phase
      /\ vals' = vals /\ emit' = emit
  BY DEF vars
<1>2. Typed'
  BY <1>1 DEF SessionInv, Typed
<1>3. Compiling' = Compiling
  BY <1>1 DEF Compiling
<1>. QED
  BY <1>1, <1>2, <1>3 DEF SessionInv

(* A handler is over when the step takes the innermost off the stack.      *)
HandlerEnds == phase = "compile" /\ phase' = "compile" /\ Len(ctl') < Len(ctl)

(* Every action keeps the invariant, and the ones that end a handler put   *)
(* back the context that it has started in.                                *)
LEMMA StepKeeps ==
  ASSUME SessionInv, CleansUp, Next
  PROVE  SessionInv' /\ (HandlerEnds => Restored)
<1>1. PICK n \in Nat : n = Len(ctl)
  BY LenProperties DEF SessionInv, Typed
<1>2. ASSUME Len(ctl') = Len(ctl) \/ Len(ctl') = Len(ctl) + 1
             \/ Len(ctl') = Len(ctl) + 2
      PROVE  ~HandlerEnds
  <2>1. \A m : m \in {n, n + 1, n + 2} => ~(m < n)
    OBVIOUS
  <2>. QED
    BY <1>1, <1>2, <2>1 DEF HandlerEnds
<1>3. ASSUME NEW kind \in {"repl", "path"}, compileSrc(kind)
      PROVE  SessionInv' /\ ~HandlerEnds
  BY <1>3, StartInv DEF compileSrc, HandlerEnds
<1>4. CASE compileSrc_end
  BY <1>4, EndInv DEF HandlerEnds
<1>5. CASE executeInstrs
  BY <1>5, RunInv DEF HandlerEnds
<1>6. CASE Panic
  BY <1>6, PanicInv DEF HandlerEnds
<1>7. CASE N_noop
  BY <1>2, <1>7, NoopInv
<1>8. ASSUME NEW n1 \in {1, -1}, Value(n1)
      PROVE  SessionInv' /\ ~HandlerEnds
  BY <1>2, <1>8, ValueInv
<1>9. CASE N_paren
  BY <1>2, <1>9, ParenOpens
<1>10. CASE N_paren_end
  <2>1. CASE Last(Pop).kind # "fslash"
    BY <1>10, <2>1, ParenRestores
  <2>2. CASE Last(Pop).kind = "fslash"
    BY <1>10, <2>2, CommentRestores
  <2>. QED
    BY <2>1, <2>2
<1>11. CASE N_fslash
  BY <1>2, <1>11, CommentOpens
<1>12. CASE N_imm
  BY <1>2, <1>12, ImmOpens
<1>13. CASE N_imm_end
  BY <1>13, ImmRestores
<1>14. CASE N_unty
  BY <1>2, <1>14, UntyOpens
<1>15. CASE N_unty_end
  BY <1>15, UntyRestores
<1>16. ASSUME NEW d \in Dicts, N_use(d) \/ N_fileUse(d) \/ N_fileImpl(d)
       PROVE  SessionInv' /\ ~HandlerEnds
  <2>1. CASE N_use(d)
    BY <1>2, <2>1, UseOpens
  <2>2. CASE N_fileUse(d) \/ N_fileImpl(d)
    BY <1>2, <2>2, FileInv
  <2>. QED
    BY <1>16, <2>1, <2>2
<1>17. ASSUME NEW kind \in {"impl", "mod"}, NEW d \in Dicts, N_impl(kind, d)
       PROVE  SessionInv' /\ ~HandlerEnds
  BY <1>2, <1>17, ImplOpens
<1>18. CASE N_use_end
  BY <1>18, UseRestores
<1>19. CASE N_impl_end
  BY <1>19, ImplRestores
<1>20. CASE N_fnMeta
  BY <1>2, <1>20, MetaInv
<1>21. CASE parseFn
  BY <1>2, <1>21, FnOpens
<1>22. CASE N_inp \/ N_var
  BY <1>2, <1>22, InputOrVarInv
<1>23. CASE parseFn_do
  BY <1>2, <1>23, BodyInv
<1>24. CASE parseFn_end
  BY <1>24, FnRestores
<1>. QED
  BY <1>3, <1>4, <1>5, <1>6, <1>7, <1>8, <1>9, <1>10, <1>11, <1>12, <1>13,
     <1>14, <1>15, <1>16, <1>17, <1>18, <1>19, <1>20, <1>21, <1>22, <1>23,
     <1>24 DEF Next

(* All that is known of the locals when the handler of a fn is innermost.  *)
LEMMA LocalsOfTop ==
  ASSUME SessionInv, phase = "compile", Top.kind = "fn"
  PROVE  cx.locals = Top.used
<1>1. Nested(ctl, cx) /\ ctl \in Seq(Frames)
  BY DEF SessionInv, Typed, Compiling
<1>2. PICK n \in Nat : n = Len(ctl)
  BY <1>1, LenProperties
<1>3. n > 0
  BY <1>1, <1>2 DEF Nested
<1>4. n \in 1..Len(ctl)
  BY <1>2, <1>3
<1>5. \A i \in 1..Len(ctl) : ctl[i].kind = "fn" => cx.locals = ctl[i].used
  BY <1>1 DEF Nested
<1>. QED
  BY <1>2, <1>4, <1>5 DEF Top

(***************************************************************************)
(* SessionInv holds in every state, whatever is nested in whatever and     *)
(* wherever a panic cuts it off.                                           *)
(***************************************************************************)
LEMMA SessionInvariant ==
  ASSUME CleansUp
  PROVE  Spec => []SessionInv
<1>1. Init => SessionInv
  BY InitInv
<1>2. SessionInv /\ [Next]_vars => SessionInv'
  BY StepKeeps, StutterInv
<1>. QED
  BY <1>1, <1>2, PTL DEF Spec

(***************************************************************************)
(* AtRest: after an input, also one that has panicked anywhere in any      *)
(* nesting of handlers, nothing that a handler did to the context is left, *)
(* because what Kern_errCleanup resets is all that they change.            *)
(***************************************************************************)
THEOREM SessionAtRest ==
  ASSUME CleansUp
  PROVE  Spec => []AtRest
<1>1. SessionInv => AtRest
  BY DEF SessionInv, AtRest, Resting
<1>. QED
  BY <1>1, SessionInvariant, PTL

(***************************************************************************)
(* TypesOfValues: between inputs tyDb knows just the values that are on    *)
(* the working stack, compiled or computed by imm# and run or abandoned.   *)
(***************************************************************************)
THEOREM ValuesTyped ==
  ASSUME CleansUp
  PROVE  Spec => []TypesOfValues
<1>1. ASSUME SessionInv, phase = "ready"
      PROVE  Last(cx.tys) = vals
  <2>1. Len(cx.tys) = 1 /\ cx.tys[1] = vals
    BY <1>1 DEF SessionInv, Resting
  <2>. QED
    BY <2>1 DEF Last
<1>2. SessionInv => TypesOfValues
  BY <1>1 DEF TypesOfValues
<1>. QED
  BY <1>2, SessionInvariant, PTL

(***************************************************************************)
(* HandlersRestore: what a handler keeps in its C locals, or only pops     *)
(* blindly, is enough to return with the context that it was called in.    *)
(***************************************************************************)
THEOREM HandlersPutBack ==
  ASSUME CleansUp
  PROVE  Spec => HandlersRestore
<1>1. SessionInv /\ [Next]_vars =>
        [ (/\ phase = "compile" /\ phase' = "compile" /\ Len(ctl') < Len(ctl)) =>
         LET at == ctl[Len(ctl') + 1].at
         IN  /\ cx'.compFn = at.compFn /\ cx'.unty = at.unty
             /\ cx'.fnState = at.fnState /\ cx'.code = at.code
             /\ cx'.dict = at.dict /\ cx'.impl = at.impl
             /\ Len(cx'.tys) = Len(at.tys) ]_vars
  BY StepKeeps DEF HandlerEnds, Restored, Same
<1>. QED
  BY <1>1, SessionInvariant, PTL DEF Spec, HandlersRestore

(***************************************************************************)
(* LSlotsExact: no slot of another function, abandoned or finished, is     *)
(* counted for the function that ends, and none of its own is lost.        *)
(***************************************************************************)
THEOREM LocalsCounted ==
  ASSUME CleansUp
  PROVE  Spec => LSlotsExact
<1>1. SessionInv /\ [Next]_vars =>
        [ (/\ phase = "compile" /\ phase' = "compile" /\ Len(ctl') < Len(ctl)
           /\ Top.kind = "fn")
          => cx.locals = Top.used ]_vars
  BY LocalsOfTop
<1>. QED
  BY <1>1, SessionInvariant, PTL DEF Spec, LSlotsExact
=============================================================================
