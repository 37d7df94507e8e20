--------------------------- MODULE Printf_proofs ---------------------------
(***************************************************************************)
(* vsnprintf stays in its buffer and truncates only, for every format and  *)
(* every size, provided that the program passes the arguments its format   *)
(* asks for (ArgsMatch): a va_arg of another type is undefined.            *)
(*                                                                         *)
(* The call with room for n characters and the one without limit are       *)
(* compared after every character they emit (InStep).                      *)
(***************************************************************************)
EXTENDS Scanf, TLAPS, WellFoundedInduction, SequenceTheorems

-----------------------------------------------------------------------------
(* One writer.                                                             *)

Cells == 0 .. MEM - 1

(* st is a record as Empty makes it, q is not beyond o, and it is o while  *)
(* there is room.                                                          *)
Writer(st) ==
  /\ st = [n |-> st.n, o |-> st.o, q |-> st.q, mem |-> st.mem]
  /\ st.n \in Nat /\ st.o \in Nat /\ st.q \in Nat /\ st.q <= st.o
  /\ st.o < st.n => st.q = st.o
  /\ DOMAIN st.mem = Cells /\ st.mem = [i \in Cells |-> st.mem[i]]

(* Nothing was written at n or beyond.                                     *)
Inside(st) == \A i \in Cells : st.n <= i => st.mem[i] = Untouched

(* The two calls have written the same, as far as the first has room.      *)
InStep(a, b) ==
  /\ Writer(a) /\ Writer(b) /\ Inside(a) /\ a.n <= MEM /\ MEM <= b.n
  /\ a.o = b.o
  /\ \A i \in Cells : i < a.o /\ i < a.n => a.mem[i] = b.mem[i]

LEMMA PrintfFacts ==
  /\ MEM \in Nat \ {0} /\ MEM <= NoLimit /\ NoLimit \in Nat
  /\ \A c \in Calls : /\ c.n \in Nat /\ c.n <= MEM
                      /\ c.format \in Seq(STRING) /\ c.scan \in Seq(STRING)
                      /\ Len(c.args) \in Nat /\ DOMAIN c.args = 1 .. Len(c.args)
BY PrintfAssumption DEF NoLimit

(* Writing x at cell i, if there is such a cell.                           *)
Written(mem, i, x) == [mem EXCEPT ![i] = x]

LEMMA WrittenFacts ==
  ASSUME NEW mem, DOMAIN mem = Cells, mem = [i \in Cells |-> mem[i]], NEW k, NEW x
  PROVE  LET w == Written(mem, k, x) IN
         /\ DOMAIN w = Cells /\ w = [i \in Cells |-> w[i]]
         /\ \A i \in Cells : w[i] = IF i = k THEN x ELSE mem[i]
<1> DEFINE w == Written(mem, k, x)
<1>1. w = [i \in Cells |-> IF i = k THEN x ELSE mem[i]]
  BY DEF Written
<1> HIDE DEF w
<1> QED BY <1>1 DEF w

LEMMA EMITFacts ==
  ASSUME NEW st, Writer(st), NEW x
  PROVE  LET e == EMIT(st, x)
             room == st.o < st.n
         IN  /\ e = [n |-> st.n, o |-> st.o + 1,
                     q |-> IF room THEN st.q + 1 ELSE st.q,
                     mem |-> IF room THEN Written(st.mem, st.q, x) ELSE st.mem]
<1> DEFINE n == st.n
           o == st.o
           q == st.q
           mem == st.mem
<1>1. st = [n |-> n, o |-> o, q |-> q, mem |-> mem]
  BY DEF Writer
<1>2. EMIT(st, x) = IF o < n THEN [st EXCEPT !.mem[q] = x, !.q = @ + 1, !.o = @ + 1]
                    ELSE [st EXCEPT !.o = @ + 1]
  BY DEF EMIT
<1> HIDE DEF n, o, q, mem
<1>3. [st EXCEPT !.o = @ + 1] = [n |-> n, o |-> o + 1, q |-> q, mem |-> mem]
  BY <1>1
<1>4. [st EXCEPT !.mem[q] = x, !.q = @ + 1, !.o = @ + 1]
        = [n |-> n, o |-> o + 1, q |-> q + 1, mem |-> Written(mem, q, x)]
  <2> DEFINE e == [st EXCEPT !.mem[q] = x, !.q = @ + 1, !.o = @ + 1]
             w == Written(mem, q, x)
  <2>1. /\ e = [f \in DOMAIN st |-> e[f]] /\ DOMAIN e = DOMAIN st
    OBVIOUS
  <2>2. DOMAIN st = {"n", "o", "q", "mem"}
    BY <1>1
  <2>3. e.n = n /\ e.o = o + 1 /\ e.q = q + 1
    BY <1>1
  <2>4. e.mem = w
    <3>1. e.mem = [st.mem EXCEPT ![q] = x]
      BY <2>2
    <3> QED BY <1>1, <3>1 DEF Written
  <2> HIDE DEF e, w
  <2> DEFINE r == [n |-> n, o |-> o + 1, q |-> q + 1, mem |-> w]
  <2>5. e = r
    <3>1. /\ DOMAIN r = {"n", "o", "q", "mem"} /\ r.n = n /\ r.o = o + 1
          /\ r.q = q + 1 /\ r.mem = w /\ r = [f \in DOMAIN r |-> r[f]]
      OBVIOUS
    <3> HIDE DEF r
    <3> QED BY <2>1, <2>2, <2>3, <2>4, <3>1
  <2> QED BY <2>5 DEF e, w
<1> QED BY <1>2, <1>3, <1>4 DEF n, o, q, mem


(* The fields of what EMIT makes.                                          *)
LEMMA EMITWriter ==
  ASSUME NEW st, Writer(st), NEW x
  PROVE  LET e == EMIT(st, x) IN
         /\ Writer(e) /\ e.n = st.n /\ e.o = st.o + 1
         /\ \A i \in Cells : e.mem[i] = IF st.o < st.n /\ i = st.o THEN x ELSE st.mem[i]
<1> DEFINE e == EMIT(st, x)
           w == Written(st.mem, st.q, x)
<1>1. /\ st.n \in Nat /\ st.o \in Nat /\ st.q \in Nat /\ st.q <= st.o
      /\ st.o < st.n => st.q = st.o
      /\ DOMAIN st.mem = Cells /\ st.mem = [i \in Cells |-> st.mem[i]]
  BY DEF Writer
<1>2. e = [n |-> st.n, o |-> st.o + 1,
           q |-> IF st.o < st.n THEN st.q + 1 ELSE st.q,
           mem |-> IF st.o < st.n THEN w ELSE st.mem]
  BY EMITFacts
<1>3. /\ DOMAIN w = Cells /\ w = [i \in Cells |-> w[i]]
      /\ \A i \in Cells : w[i] = IF i = st.q THEN x ELSE st.mem[i]
  BY <1>1, WrittenFacts
<1> HIDE DEF e, w
<1>4. /\ e.n = st.n /\ e.o = st.o + 1
      /\ e.q = IF st.o < st.n THEN st.q + 1 ELSE st.q
      /\ e.mem = IF st.o < st.n THEN w ELSE st.mem
      /\ e = [n |-> e.n, o |-> e.o, q |-> e.q, mem |-> e.mem]
  BY <1>2
<1>5. e.q \in Nat /\ e.q <= e.o /\ e.o \in Nat /\ (e.o < e.n => e.q = e.o)
  BY <1>1, <1>4
<1>6. DOMAIN e.mem = Cells /\ e.mem = [i \in Cells |-> e.mem[i]]
  BY <1>1, <1>3, <1>4
<1>7. \A i \in Cells : e.mem[i] = IF st.o < st.n /\ i = st.o THEN x ELSE st.mem[i]
  BY <1>1, <1>3, <1>4
<1>8. Writer(e)
  BY <1>1, <1>4, <1>5, <1>6 DEF Writer
<1> QED BY <1>4, <1>7, <1>8 DEF e

LEMMA EMITInStep ==
  ASSUME NEW a, NEW b, InStep(a, b), NEW x
  PROVE  /\ InStep(EMIT(a, x), EMIT(b, x))
         /\ EMIT(a, x).n = a.n /\ EMIT(a, x).o = a.o + 1 /\ EMIT(b, x).n = b.n
<1> DEFINE c == EMIT(a, x)
           d == EMIT(b, x)
<1>1. /\ Writer(a) /\ Writer(b) /\ Inside(a) /\ a.n <= MEM /\ MEM <= b.n /\ a.o = b.o
      /\ \A i \in Cells : i < a.o /\ i < a.n => a.mem[i] = b.mem[i]
  BY DEF InStep
<1>2. /\ Writer(c) /\ c.n = a.n /\ c.o = a.o + 1
      /\ \A i \in Cells : c.mem[i] = IF a.o < a.n /\ i = a.o THEN x ELSE a.mem[i]
  BY <1>1, EMITWriter
<1>3. /\ Writer(d) /\ d.n = b.n /\ d.o = b.o + 1
      /\ \A i \in Cells : d.mem[i] = IF b.o < b.n /\ i = b.o THEN x ELSE b.mem[i]
  BY <1>1, EMITWriter
<1> HIDE DEF c, d
<1>4. a.n \in Nat /\ a.o \in Nat /\ b.n \in Nat /\ b.o \in Nat /\ MEM \in Nat
  BY <1>1, PrintfFacts DEF Writer
<1>5. Inside(c)
  <2>1. ASSUME NEW i \in Cells, c.n <= i PROVE c.mem[i] = Untouched
    <3>1. a.n <= i /\ i \in Nat
      BY <1>2, <2>1 DEF Cells
    <3>2. ~(a.o < a.n /\ i = a.o)
      BY <1>4, <3>1
    <3> QED BY <1>1, <1>2, <3>1, <3>2 DEF Inside
  <2> QED BY <2>1 DEF Inside
<1>6. ASSUME NEW i \in Cells, i < c.o, i < c.n PROVE c.mem[i] = d.mem[i]
  <2>1. i \in Nat /\ i < a.o + 1 /\ i < a.n
    BY <1>2, <1>6 DEF Cells
  <2>2. CASE i = a.o
    <3>1. a.o < a.n /\ b.o < b.n /\ i = b.o
      BY <1>1, <1>4, <2>1, <2>2
    <3> QED BY <1>2, <1>3, <2>2, <3>1
  <2>3. CASE i < a.o
    <3>1. i # a.o /\ i # b.o
      BY <1>1, <1>4, <2>1, <2>3
    <3> QED BY <1>1, <1>2, <1>3, <2>1, <2>3, <3>1
  <2> QED BY <1>4, <2>1, <2>2, <2>3
<1>7. InStep(c, d)
  BY <1>1, <1>2, <1>3, <1>5, <1>6 DEF InStep
<1> QED BY <1>2, <1>3, <1>7 DEF c, d

-----------------------------------------------------------------------------
(* Texts of any length.                                                    *)

LEMMA Least ==
  ASSUME NEW I \in SUBSET Nat, I # {}
  PROVE  \E m \in I : \A j \in I : m <= j
<1>1. \E m \in I : \A j \in I : ~(<<j, m>> \in OpToRel(<, Nat))
  BY WFMin, NatLessThanWellFounded
<1>2. PICK m \in I : \A j \in I : ~(<<j, m>> \in OpToRel(<, Nat))
  BY <1>1
<1>3. \A j \in I : ~(j < m)
  BY <1>2 DEF OpToRel
<1> QED BY <1>3


(* g[k] is the writer after the first k characters of xs.                  *)
IsPass(g, st, xs, n) ==
  g = [k \in 0 .. n |-> IF k = 0 THEN st ELSE EMIT(g[k - 1], xs[k])]

LEMMA PassExists ==
  ASSUME NEW st, NEW xs, NEW n \in Nat
  PROVE  \E g : IsPass(g, st, xs, n)
<1> DEFINE I == {k \in Nat : ~\E g : IsPass(g, st, xs, k)}
<1>1. SUFFICES ASSUME I # {} PROVE FALSE
  BY Zenon
<1>2. PICK m \in I : \A k \in I : m <= k
  <2>1. I \in SUBSET Nat
    BY Zenon
  <2> HIDE DEF I
  <2> QED BY <1>1, <2>1, Least
<1>3. m \in Nat /\ ~\E g : IsPass(g, st, xs, m)
  BY <1>2, Zenon
<1>4. CASE m = 0
  <2> DEFINE h == [k \in 0 .. 0 |-> st]
  <2>1. h = [k \in 0 .. 0 |-> IF k = 0 THEN st ELSE EMIT(h[k - 1], xs[k])]
    OBVIOUS
  <2>2. IsPass(h, st, xs, m)
    BY <1>4, <2>1 DEF IsPass
  <2> QED BY <1>3, <2>2
<1>5. CASE m # 0
  <2>1. m - 1 \in Nat /\ ~(m <= m - 1)
    BY <1>3, <1>5
  <2>2. m - 1 \notin I
    BY <1>2, <2>1
  <2>3. PICK g : IsPass(g, st, xs, m - 1)
    BY <2>1, <2>2, Zenon
  <2> DEFINE h == [k \in 0 .. m |-> IF k = m THEN EMIT(g[m - 1], xs[m]) ELSE g[k]]
             r == [k \in 0 .. m |-> IF k = 0 THEN st ELSE EMIT(h[k - 1], xs[k])]
  <2>4. \A k \in 0 .. m - 1 : g[k] = IF k = 0 THEN st ELSE EMIT(g[k - 1], xs[k])
    BY <2>3 DEF IsPass
  <2>5. ASSUME NEW k \in 0 .. m PROVE h[k] = r[k]
    <3>1. CASE k = m
      <4>1. h[k - 1] = g[m - 1] /\ h[k] = EMIT(g[m - 1], xs[m])
        BY <1>3, <1>5, <3>1
      <4> QED BY <1>5, <3>1, <4>1
    <3>2. CASE k = 0
      BY <1>5, <2>1, <2>4, <3>2
    <3>3. CASE k \in 1 .. m - 1
      <4>1. /\ k \in 0 .. m - 1 /\ k # m /\ k # 0 /\ k - 1 \in 0 .. m
            /\ k - 1 # m
        BY <1>3, <3>3
      <4>2. h[k] = g[k] /\ h[k - 1] = g[k - 1]
        BY <4>1
      <4> QED BY <2>4, <4>1, <4>2
    <3> QED BY <1>3, <3>1, <3>2, <3>3
  <2>6. h = r
    BY <2>5
  <2>7. IsPass(h, st, xs, m)
    BY <2>6 DEF IsPass
  <2> QED BY <1>3, <2>7
<1> QED BY <1>4, <1>5

LEMMA EmitAllIsPass ==
  ASSUME NEW st, NEW xs, Len(xs) \in Nat
  PROVE  \E g : /\ EmitAll(st, xs) = g[Len(xs)]
                /\ g[0] = st
                /\ \A k \in 1 .. Len(xs) : g[k] = EMIT(g[k - 1], xs[k])
<1> DEFINE g == CHOOSE g : IsPass(g, st, xs, Len(xs))
<1>1. EmitAll(st, xs) = g[Len(xs)]
  BY Zenon DEF EmitAll, IsPass
<1>2. IsPass(g, st, xs, Len(xs))
  BY PassExists, Zenon
<1> HIDE DEF g
<1>3. \A k \in 0 .. Len(xs) : g[k] = IF k = 0 THEN st ELSE EMIT(g[k - 1], xs[k])
  BY <1>2 DEF IsPass
<1>4. g[0] = st /\ \A k \in 1 .. Len(xs) : g[k] = EMIT(g[k - 1], xs[k])
  BY <1>3
<1> QED BY <1>1, <1>4

(* The two writers stay in step over a text, and count its characters.     *)
LEMMA EmitAllInStep ==
  ASSUME NEW a, NEW b, InStep(a, b), NEW xs, Len(xs) \in Nat
  PROVE  LET c == EmitAll(a, xs)
             d == EmitAll(b, xs)
         IN  InStep(c, d) /\ c.n = a.n /\ d.n = b.n /\ c.o = a.o + Len(xs)
<1> DEFINE n == Len(xs)
<1>1. PICK g : /\ EmitAll(a, xs) = g[n] /\ g[0] = a
               /\ \A k \in 1 .. n : g[k] = EMIT(g[k - 1], xs[k])
  BY EmitAllIsPass, SMTT(30)
<1>2. PICK h : /\ EmitAll(b, xs) = h[n] /\ h[0] = b
               /\ \A k \in 1 .. n : h[k] = EMIT(h[k - 1], xs[k])
  BY EmitAllIsPass, SMTT(30)
<1> DEFINE Good(k) == /\ InStep(g[k], h[k]) /\ g[k].n = a.n /\ h[k].n = b.n
                      /\ g[k].o = a.o + k
           I == {k \in Nat : k <= n /\ ~Good(k)}
<1>o. a.o \in Nat
  BY DEF InStep, Writer
<1>3. ASSUME NEW m \in I, \A k \in I : m <= k PROVE FALSE
  <2>1. m \in Nat /\ m <= n /\ ~Good(m)
    BY <1>3, Zenon
  <2>2. CASE m = 0
    BY <1>1, <1>2, <1>o, <2>1, <2>2
  <2>3. CASE m # 0
    <3> DEFINE l == m - 1
    <3>1. l \in Nat /\ l <= n /\ ~(m <= l) /\ m \in 1 .. n /\ l + 1 = m
      BY <2>1, <2>3
    <3>2. Good(l)
      <4>1. l \notin I
        BY <1>3, <3>1
      <4> HIDE DEF Good, l
      <4> QED BY <3>1, <4>1, Zenon
    <3>3. g[m] = EMIT(g[l], xs[m]) /\ h[m] = EMIT(h[l], xs[m])
      BY <1>1, <1>2, <3>1
    <3>4. /\ InStep(g[m], h[m]) /\ g[m].n = g[l].n /\ g[m].o = g[l].o + 1
          /\ h[m].n = h[l].n
      <4> HIDE DEF l
      <4> QED BY <3>2, <3>3, EMITInStep
    <3>5. g[m].o = a.o + m
      <4> HIDE DEF l
      <4> QED BY <1>o, <2>1, <3>1, <3>2, <3>4
    <3> QED BY <2>1, <3>2, <3>4, <3>5
  <2> QED BY <2>2, <2>3
<1>4. I = {}
  <2>1. I \in SUBSET Nat
    BY Zenon
  <2> HIDE DEF I
  <2> QED BY <1>3, <2>1, Least
<1>5. Good(n)
  <2>1. n \in Nat /\ n <= n
    OBVIOUS
  <2> HIDE DEF Good, n
  <2> QED BY <1>4, <2>1, Zenon
<1> QED BY <1>1, <1>2, <1>5


-----------------------------------------------------------------------------
(* Numbers.                                                                *)

(* The memory once a number of len digits is put at o.                     *)
Numbered(mem, n, o, q, number) ==
  [j \in DOMAIN mem |->
     LET i == j - q
     IN IF i \in 0 .. Len(number) - 1 /\ o + i < n THEN number[i + 1] ELSE mem[j]]

LEMMA PutNumberFacts ==
  ASSUME NEW st, Writer(st), NEW number
  PROVE  PutNumber(st, number) =
           [n |-> st.n, o |-> st.o + Len(number), q |-> st.q + Len(number),
            mem |-> Numbered(st.mem, st.n, st.o, st.q, number)]
<1> DEFINE n == st.n
           o == st.o
           q == st.q
           mem == st.mem
           len == Len(number)
           w == Numbered(mem, n, o, q, number)
<1>1. st = [n |-> n, o |-> o, q |-> q, mem |-> mem]
  BY DEF Writer
<1>2. PutNumber(st, number) = [st EXCEPT !.mem = w, !.q = @ + len, !.o = @ + len]
  BY DEF PutNumber, Numbered
<1> HIDE DEF n, o, q, mem, len, w
<1>3. [st EXCEPT !.mem = w, !.q = @ + len, !.o = @ + len]
        = [n |-> n, o |-> o + len, q |-> q + len, mem |-> w]
  <2> DEFINE e == [st EXCEPT !.mem = w, !.q = @ + len, !.o = @ + len]
             r == [n |-> n, o |-> o + len, q |-> q + len, mem |-> w]
  <2>1. e = [f \in DOMAIN st |-> e[f]] /\ DOMAIN e = DOMAIN st
    OBVIOUS
  <2>2. DOMAIN st = {"n", "o", "q", "mem"}
    BY <1>1
  <2>3. e.n = n /\ e.o = o + len /\ e.q = q + len /\ e.mem = w
    BY <1>1
  <2>4. /\ DOMAIN r = {"n", "o", "q", "mem"} /\ r.n = n /\ r.o = o + len
        /\ r.q = q + len /\ r.mem = w /\ r = [f \in DOMAIN r |-> r[f]]
    OBVIOUS
  <2> HIDE DEF e, r
  <2>5. e = r
    BY <2>1, <2>2, <2>3, <2>4
  <2> QED BY <2>5 DEF e, r
<1> QED BY <1>2, <1>3 DEF n, o, q, mem, len, w

LEMMA PutNumberWriter ==
  ASSUME NEW st, Writer(st), NEW number, Len(number) \in Nat
  PROVE  LET e == PutNumber(st, number) IN
         /\ Writer(e) /\ e.n = st.n /\ e.o = st.o + Len(number)
         /\ \A i \in Cells :
              e.mem[i] = IF st.o <= i /\ i < st.o + Len(number) /\ i < st.n
                         THEN number[i - st.o + 1] ELSE st.mem[i]
<1> DEFINE e == PutNumber(st, number)
           len == Len(number)
           w == Numbered(st.mem, st.n, st.o, st.q, number)
<1>1. /\ st.n \in Nat /\ st.o \in Nat /\ st.q \in Nat /\ st.q <= st.o
      /\ st.o < st.n => st.q = st.o
      /\ DOMAIN st.mem = Cells
  BY DEF Writer
<1>2. e = [n |-> st.n, o |-> st.o + len, q |-> st.q + len, mem |-> w]
  BY PutNumberFacts
<1>3. /\ DOMAIN w = Cells /\ w = [i \in Cells |-> w[i]]
      /\ \A j \in Cells : w[j] = IF j - st.q \in 0 .. len - 1 /\ st.o + (j - st.q) < st.n
                                 THEN number[(j - st.q) + 1] ELSE st.mem[j]
  BY <1>1 DEF Numbered
<1> HIDE DEF e, w
<1>4. /\ e.n = st.n /\ e.o = st.o + len /\ e.q = st.q + len /\ e.mem = w
      /\ e = [n |-> e.n, o |-> e.o, q |-> e.q, mem |-> e.mem]
  BY <1>2
<1>5. e.q \in Nat /\ e.q <= e.o /\ e.o \in Nat /\ (e.o < e.n => e.q = e.o)
  BY <1>1, <1>4
<1>6. Writer(e)
  BY <1>1, <1>3, <1>4, <1>5 DEF Writer
<1>7. ASSUME NEW i \in Cells
      PROVE  w[i] = IF st.o <= i /\ i < st.o + len /\ i < st.n
                    THEN number[i - st.o + 1] ELSE st.mem[i]
  <2>1. i \in Nat
    BY DEF Cells
  <2>2. CASE st.o < st.n
    <3>1. st.q = st.o
      BY <1>1, <2>2
    <3>2. /\ (i - st.o) \in 0 .. len - 1 /\ st.o + (i - st.o) < st.n
              <=> st.o <= i /\ i < st.o + len /\ i < st.n
      BY <1>1, <2>1
    <3> QED BY <1>3, <3>1, <3>2
  <2>3. CASE ~(st.o < st.n)
    <3>1. ~(i - st.q \in 0 .. len - 1 /\ st.o + (i - st.q) < st.n)
      BY <1>1, <2>1, <2>3
    <3>2. ~(st.o <= i /\ i < st.o + len /\ i < st.n)
      BY <1>1, <2>1, <2>3
    <3> QED BY <1>3, <3>1, <3>2
  <2> QED BY <2>2, <2>3
<1> QED BY <1>4, <1>6, <1>7 DEF e

LEMMA PutNumberInStep ==
  ASSUME NEW a, NEW b, InStep(a, b), NEW number, Len(number) \in Nat
  PROVE  LET c == PutNumber(a, number)
             d == PutNumber(b, number)
         IN  InStep(c, d) /\ c.n = a.n /\ d.n = b.n /\ c.o = a.o + Len(number)
<1> DEFINE c == PutNumber(a, number)
           d == PutNumber(b, number)
           len == Len(number)
<1>1. /\ Writer(a) /\ Writer(b) /\ Inside(a) /\ a.n <= MEM /\ MEM <= b.n /\ a.o = b.o
      /\ \A i \in Cells : i < a.o /\ i < a.n => a.mem[i] = b.mem[i]
  BY DEF InStep
<1>2. /\ Writer(c) /\ c.n = a.n /\ c.o = a.o + len
      /\ \A i \in Cells : c.mem[i] = IF a.o <= i /\ i < a.o + len /\ i < a.n
                                     THEN number[i - a.o + 1] ELSE a.mem[i]
  BY <1>1, PutNumberWriter
<1>3. /\ Writer(d) /\ d.n = b.n /\ d.o = b.o + len
      /\ \A i \in Cells : d.mem[i] = IF b.o <= i /\ i < b.o + len /\ i < b.n
                                     THEN number[i - b.o + 1] ELSE b.mem[i]
  BY <1>1, PutNumberWriter
<1> HIDE DEF c, d, len
<1>4. a.n \in Nat /\ a.o \in Nat /\ b.n \in Nat /\ b.o \in Nat /\ MEM \in Nat /\ len \in Nat
  BY <1>1, PrintfFacts DEF Writer, len
<1>5. Inside(c)
  <2>1. ASSUME NEW i \in Cells, c.n <= i PROVE c.mem[i] = Untouched
    <3>1. a.n <= i /\ i \in Nat
      BY <1>2, <2>1 DEF Cells
    <3>2. ~(i < a.n)
      BY <1>4, <3>1
    <3> QED BY <1>1, <1>2, <3>1, <3>2 DEF Inside
  <2> QED BY <2>1 DEF Inside
<1>6. ASSUME NEW i \in Cells, i < c.o, i < c.n PROVE c.mem[i] = d.mem[i]
  <2>1. i \in Nat /\ i < a.o + len /\ i < a.n /\ i < b.n
    BY <1>1, <1>2, <1>4, <1>6 DEF Cells
  <2>2. CASE a.o <= i
    BY <1>1, <1>2, <1>3, <2>1, <2>2
  <2>3. CASE i < a.o
    <3>1. ~(a.o <= i)
      BY <1>4, <2>1, <2>3
    <3> QED BY <1>1, <1>2, <1>3, <2>1, <2>3, <3>1
  <2> QED BY <1>4, <2>1, <2>2, <2>3
<1>7. InStep(c, d)
  BY <1>1, <1>2, <1>3, <1>5, <1>6 DEF InStep
<1> QED BY <1>2, <1>3, <1>7 DEF c, d, len

(* The caller's pointer advances by what was counted.                      *)
Advanced(st, end) == [end EXCEPT !.q = st.q + (end.o - st.o)]

LEMMA AdvancedWriter ==
  ASSUME NEW st, Writer(st), NEW end, Writer(end), end.n = st.n, st.o <= end.o
  PROVE  LET e == Advanced(st, end) IN
         Writer(e) /\ e.n = end.n /\ e.o = end.o /\ e.mem = end.mem
<1> DEFINE e == Advanced(st, end)
           n == end.n
           o == end.o
           q == end.q
           mem == end.mem
           k == st.q + (end.o - st.o)
<1>1. end = [n |-> n, o |-> o, q |-> q, mem |-> mem]
  BY DEF Writer
<1>2. e = [end EXCEPT !.q = k]
  BY DEF Advanced
<1>3. k \in Nat /\ k <= o /\ (o < n => k = o)
  BY DEF Writer
<1>4. n \in Nat /\ o \in Nat /\ DOMAIN mem = Cells /\ mem = [i \in Cells |-> mem[i]]
  BY DEF Writer
<1> HIDE DEF e, n, o, q, mem, k
<1>5. e = [n |-> n, o |-> o, q |-> k, mem |-> mem]
  BY <1>1, <1>2
<1>6. /\ e.n = n /\ e.o = o /\ e.q = k /\ e.mem = mem
      /\ e = [n |-> e.n, o |-> e.o, q |-> e.q, mem |-> e.mem]
  BY <1>5
<1>7. Writer(e)
  BY <1>3, <1>4, <1>6 DEF Writer
<1> QED BY <1>6, <1>7 DEF e, n, o, mem

LEMMA format_intInStep ==
  ASSUME NEW a, NEW b, InStep(a, b), NEW f,
         Len(f.before) \in Nat, Len(f.number) \in Nat, Len(f.after) \in Nat
  PROVE  InStep(format_int(a, f), format_int(b, f))
<1> DEFINE before == f.before
           number == f.number
           after == f.after
           a1 == EmitAll(a, before)
           b1 == EmitAll(b, before)
           a2 == PutNumber(a1, number)
           b2 == PutNumber(b1, number)
           a3 == EmitAll(a2, after)
           b3 == EmitAll(b2, after)
<1>0. /\ format_int(a, f) = Advanced(a, a3) /\ format_int(b, f) = Advanced(b, b3)
      /\ Len(before) \in Nat /\ Len(number) \in Nat /\ Len(after) \in Nat
  BY DEF format_int, Advanced
<1> HIDE DEF before, number, after
<1>1. InStep(a1, b1) /\ a1.n = a.n /\ b1.n = b.n /\ a1.o = a.o + Len(before)
  BY <1>0, EmitAllInStep
<1> HIDE DEF a1, b1
<1>2. InStep(a2, b2) /\ a2.n = a1.n /\ b2.n = b1.n /\ a2.o = a1.o + Len(number)
  BY <1>0, <1>1, PutNumberInStep
<1> HIDE DEF a2, b2
<1>3. InStep(a3, b3) /\ a3.n = a2.n /\ b3.n = b2.n /\ a3.o = a2.o + Len(after)
  BY <1>0, <1>2, EmitAllInStep
<1> HIDE DEF a3, b3
<1>4. /\ Writer(a) /\ Writer(b) /\ Writer(a3) /\ Writer(b3)
      /\ a.o = b.o /\ a3.o = b3.o /\ a.o \in Nat
  BY <1>3 DEF InStep, Writer
<1>5. a.o <= a3.o /\ b.o <= b3.o /\ a3.n = a.n /\ b3.n = b.n
  BY <1>0, <1>1, <1>2, <1>3, <1>4
<1> DEFINE c == Advanced(a, a3)
           d == Advanced(b, b3)
<1>6. Writer(c) /\ c.n = a3.n /\ c.o = a3.o /\ c.mem = a3.mem
  BY <1>4, <1>5, AdvancedWriter
<1>7. Writer(d) /\ d.n = b3.n /\ d.o = b3.o /\ d.mem = b3.mem
  BY <1>4, <1>5, AdvancedWriter
<1> HIDE DEF c, d
<1>8. InStep(c, d)
  BY <1>3, <1>6, <1>7 DEF InStep, Inside
<1> QED BY <1>0, <1>8 DEF c, d


(* The powers PowerAssumption speaks of.                                   *)
LEMMA PowerFacts ==
  /\ MAX_BITS \in Nat \ {0} /\ 2 ^ MAX_BITS \in Nat \ {0}
  /\ \A k \in 0 .. MAX_BITS : 2 ^ k \in Nat \ {0} /\ 2 ^ k <= 2 ^ MAX_BITS
<1>1. MAX_BITS \in Nat \ {0}
  BY PrintfAssumption
<1>2. 2 ^ MAX_BITS \in 1 .. 2 ^ MAX_BITS
  BY <1>1, PowerAssumption
<1>3. 2 ^ MAX_BITS \in Nat \ {0}
  BY <1>2
<1>4. ASSUME NEW k \in 0 .. MAX_BITS PROVE 2 ^ k \in Nat \ {0} /\ 2 ^ k <= 2 ^ MAX_BITS
  BY <1>3, PowerAssumption
<1> QED BY <1>1, <1>3, <1>4

LEMMA WrapFacts ==
  ASSUME NEW x \in Int, NEW bits \in 0 .. MAX_BITS
  PROVE  Wrap(x, bits) \in Nat /\ Wrap(x, bits) < 2 ^ MAX_BITS
<1>1. 2 ^ bits \in Nat \ {0} /\ 2 ^ bits <= 2 ^ MAX_BITS /\ 2 ^ MAX_BITS \in Nat
  BY PowerFacts
<1> DEFINE m == 2 ^ bits
<1> HIDE DEF m
<1>2. m \in Nat \ {0} /\ m <= 2 ^ MAX_BITS
  BY <1>1 DEF m
<1>3. x % m \in Nat /\ x % m < m
  BY <1>2
<1>4. x % m \in Nat /\ x % m < 2 ^ MAX_BITS
  BY <1>1, <1>2, <1>3
<1> QED BY <1>4 DEF Wrap, m

LEMMA SignedFacts ==
  ASSUME NEW x \in Int, NEW bits \in 1 .. MAX_BITS
  PROVE  Signed(x, bits) \in Int
<1>1. bits \in 0 .. MAX_BITS /\ 2 ^ bits \in Int
  BY PowerFacts
<1>2. Wrap(x, bits) \in Int
  BY <1>1, WrapFacts
<1> QED BY <1>1, <1>2 DEF Signed

(* Every value has a number of digits in every base, and only zero has     *)
(* none.                                                                   *)
LEMMA NDigitsFacts ==
  ASSUME NEW v \in Nat, v < 2 ^ MAX_BITS, NEW base \in {8, 10, 16}
  PROVE  NDigits(v, base) \in Nat /\ (v # 0 => NDigits(v, base) >= 1)
<1> DEFINE Fits(k) == v < base ^ k /\ (k = 0 \/ base ^ (k - 1) <= v)
<1>1. PICK d \in 0 .. MAX_BITS :
         2 ^ MAX_BITS <= base ^ d /\ \A i \in 0 .. d : base ^ i \in Nat
  BY PowerAssumption
<1>2. MAX_BITS \in Nat /\ 2 ^ MAX_BITS \in Nat /\ d \in Nat
  BY <1>1, PowerFacts
<1> DEFINE I == {k \in Nat : k <= d /\ v < base ^ k}
<1>3. d \in I
  <2>1. base ^ d \in Nat
    BY <1>1, <1>2
  <2>2. v < base ^ d
    BY <1>1, <1>2, <2>1
  <2> QED BY <1>2, <2>2
<1>4. PICK m \in I : \A k \in I : m <= k
  <2>1. I \in SUBSET Nat /\ I # {}
    BY <1>3, Zenon
  <2> HIDE DEF I
  <2> QED BY <2>1, Least
<1>5. m \in Nat /\ m <= d /\ v < base ^ m
  BY <1>4
<1>6. m # 0 => base ^ (m - 1) <= v
  <2>1. SUFFICES ASSUME m # 0 PROVE base ^ (m - 1) <= v
    OBVIOUS
  <2> DEFINE l == m - 1
  <2>2. l \in Nat /\ l <= d /\ ~(m <= l) /\ l \in 0 .. d
    BY <1>2, <1>5, <2>1
  <2> HIDE DEF l
  <2>3. base ^ l \in Nat /\ ~(v < base ^ l)
    BY <1>1, <1>4, <2>2
  <2>4. base ^ l <= v
    BY <2>3
  <2> QED BY <2>4 DEF l
<1>7. m \in 0 .. MAX_BITS /\ Fits(m)
  BY <1>1, <1>2, <1>5, <1>6
<1>8. NDigits(v, base) \in 0 .. MAX_BITS /\ Fits(NDigits(v, base))
  <2>1. NDigits(v, base) = CHOOSE k \in 0 .. MAX_BITS : Fits(k)
    BY Zenon DEF NDigits
  <2> HIDE DEF Fits
  <2> QED BY <1>7, <2>1, Zenon
<1>9. v # 0 => NDigits(v, base) # 0
  <2>1. base ^ 0 = 1
    <3>1. 8 ^ 0 = 1 /\ 10 ^ 0 = 1 /\ 16 ^ 0 = 1
      OBVIOUS
    <3> QED BY <3>1
  <2> QED BY <1>8, <2>1
<1> QED BY <1>2, <1>8, <1>9

-----------------------------------------------------------------------------
(* What is emitted is a text: it has a length.  The literals are named     *)
(* because the prover does not see that they are strings.                  *)

Char == STRING \union {"0", " ", "-", "+", "x", "X", "(", "n", "u", "l", ")"}

LEMMA RepeatFacts ==
  ASSUME NEW x \in Char, NEW k \in Int
  PROVE  Repeat(x, k) \in Seq(Char)
<1> DEFINE m == IF k > 0 THEN k ELSE 0
<1>1. m \in Nat
  OBVIOUS
<1>2. Repeat(x, k) = [i \in 1 .. m |-> x]
  BY DEF Repeat
<1> HIDE DEF m
<1>3. [i \in 1 .. m |-> x] \in Seq(Char)
  <2> DEFINE f == [i \in 1 .. m |-> x]
  <2>1. f \in [1 .. m -> Char]
    OBVIOUS
  <2> HIDE DEF f
  <2>2. f \in UNION {[1 .. k1 -> Char] : k1 \in Nat}
    BY <1>1, <2>1
  <2>3. f \in Seq(Char)
    BY <2>2, SeqDef, Zenon
  <2> QED BY <2>3 DEF f
<1> QED BY <1>2, <1>3

LEMMA SeqHasLength ==
  ASSUME NEW s \in Seq(Char) PROVE Len(s) \in Nat
OBVIOUS

LEMMA ConcatFacts ==
  ASSUME NEW s \in Seq(Char), NEW t \in Seq(Char) PROVE s \o t \in Seq(Char)
OBVIOUS

LEMMA ShortTexts ==
  \A x, y \in Char : <<x>> \in Seq(Char) /\ <<x, y>> \in Seq(Char)
OBVIOUS

LEMMA PaddedStringFacts ==
  ASSUME NEW s \in Seq(Char), NEW flags, NEW width \in Int, NEW prec \in Int
  PROVE  PaddedString(s, flags, width, prec) \in Seq(Char)
<1> DEFINE slen == IF prec # -1 /\ Len(s) > prec THEN prec ELSE Len(s)
           pad  == width - slen
           head == IF "minus" \in flags THEN <<>>
                   ELSE Repeat(IF "zero" \in flags THEN "0" ELSE " ", pad)
           body == SubSeq(s, 1, slen)
           tail == IF "minus" \in flags THEN Repeat(" ", pad) ELSE <<>>
<1>1. PaddedString(s, flags, width, prec) = head \o body \o tail
  BY DEF PaddedString
<1>2. Len(s) \in Nat
  BY SeqHasLength
<1>3. slen \in Int /\ slen <= Len(s)
  BY <1>2
<1>4. pad \in Int
  BY <1>3
<1> HIDE DEF slen, pad
<1>5. head \in Seq(Char) /\ tail \in Seq(Char)
  <2>1. \A x \in Char : Repeat(x, pad) \in Seq(Char)
    BY <1>4, RepeatFacts
  <2>2. "0" \in Char /\ " " \in Char
    BY Zenon DEF Char
  <2>4. <<>> \in Seq(Char)
    OBVIOUS
  <2>3. Repeat("0", pad) \in Seq(Char) /\ Repeat(" ", pad) \in Seq(Char)
    BY <2>1, <2>2
  <2> QED BY <2>4, <2>3
<1>6. body \in Seq(Char)
  BY <1>2, <1>3
<1> HIDE DEF head, body, tail
<1>7. head \o body \in Seq(Char)
  BY <1>5, <1>6, ConcatFacts
<1> QED BY <1>1, <1>5, <1>7, ConcatFacts


(* Any function on 1..n is a sequence of that length.                      *)
LEMMA FunctionLength ==
  ASSUME NEW n \in Nat, NEW f, f = [i \in 1 .. n |-> f[i]]
  PROVE  Len(f) \in Nat
<1> DEFINE S == {f[i] : i \in 1 .. n}
<1>1. f \in [1 .. n -> S]
  OBVIOUS
<1> HIDE DEF S
<1>2. f \in UNION {[1 .. k -> S] : k \in Nat}
  BY <1>1
<1>3. f \in Seq(S)
  BY <1>2, SeqDef, Zenon
<1> QED BY <1>3, LenProperties

LEMMA TickMarksFacts ==
  ASSUME NEW nd \in Nat \ {0}, NEW skip \in Nat \ {0}
  PROVE  TickMarks(nd, skip) \in Nat
<1>1. nd - 1 \in Nat
  OBVIOUS
<1> QED BY <1>1 DEF TickMarks

(* Every part of a printed number is a text.                               *)
LEMMA FieldFacts ==
  ASSUME NEW val \in Nat, val < 2 ^ MAX_BITS, NEW flags, NEW base \in {8, 10, 16},
         NEW width \in Int, NEW prec \in Int
  PROVE  LET f == Field(val, flags, base, width, prec)
         IN  Len(f.before) \in Nat /\ Len(f.number) \in Nat /\ Len(f.after) \in Nat
<1> DEFINE minus   == "signed" \in flags /\ val >= 2 ^ (MAX_BITS - 1)
           v       == Magnitude(val, minus)
           digits  == IF "upper" \in flags THEN ucdigits ELSE lcdigits
           need    == NDigits(v, base)
           prec1   == IF "hash" \in flags /\ base = 8 /\ prec < need + 1 THEN need + 1 ELSE prec
           nd      == IF need < prec1 THEN prec1 ELSE IF v = 0 THEN 1 ELSE need
           skip    == IF "tick" \in flags THEN IF base = 16 THEN 4 ELSE 3 ELSE nd
           ndigits == nd + TickMarks(nd, skip)
           number  == [i \in 1 .. ndigits |->
                        LET k == ndigits - i
                        IN IF (k + 1) % (skip + 1) = 0 THEN "_"
                           ELSE digits[1 + ((v \div base ^ (k - k \div (skip + 1))) % base)]]
           sign    == IF minus THEN <<"-">> ELSE IF "plus" \in flags THEN <<"+">>
                      ELSE IF "space" \in flags THEN <<" ">> ELSE <<>>
           prefix  == IF "hash" \in flags /\ base = 16
                      THEN <<"0", IF "upper" \in flags THEN "X" ELSE "x">> ELSE <<>>
           pad     == width - ndigits - Len(sign) - Len(prefix)
           left    == flags \cap {"minus", "zero"} = {}
           zeros   == flags \cap {"minus", "zero"} = {"zero"}
           spaces  == IF left THEN Repeat(" ", pad) ELSE <<>>
           noughts == IF zeros THEN Repeat("0", pad) ELSE <<>>
           after   == IF "minus" \in flags THEN Repeat(" ", pad) ELSE <<>>
<1>1. Field(val, flags, base, width, prec)
        = [before |-> spaces \o sign \o prefix \o noughts, number |-> number, after |-> after]
  BY Zenon DEF Field
<1>2. v \in Nat /\ v < 2 ^ MAX_BITS
  <2>1. MAX_BITS - 1 \in 0 .. MAX_BITS /\ 2 ^ MAX_BITS \in Nat
    BY PowerFacts
  <2>2. 2 ^ (MAX_BITS - 1) \in Nat \ {0}
    BY <2>1, PowerFacts
  <2>3. CASE minus
    <3>1. v = 2 ^ MAX_BITS - val /\ val >= 2 ^ (MAX_BITS - 1)
      BY <2>3 DEF Magnitude
    <3> QED BY <2>1, <2>2, <3>1
  <2>4. CASE ~minus
    BY <2>4 DEF Magnitude
  <2> QED BY <2>3, <2>4
<1> HIDE DEF v, minus, digits
<1>3. need \in Nat /\ (v # 0 => need >= 1)
  BY <1>2, NDigitsFacts
<1> HIDE DEF need
<1>4. prec1 \in Int
  BY <1>3
<1> HIDE DEF prec1
<1>5. nd \in Nat \ {0}
  BY <1>3, <1>4
<1> HIDE DEF nd
<1>6. skip \in Nat \ {0}
  BY <1>5
<1> HIDE DEF skip
<1>7. ndigits \in Nat
  BY <1>5, <1>6, TickMarksFacts
<1> HIDE DEF ndigits
<1>8. Len(number) \in Nat
  <2>1. number = [i \in 1 .. ndigits |-> number[i]]
    OBVIOUS
  <2> HIDE DEF number
  <2> QED BY <1>7, <2>1, FunctionLength
<1> HIDE DEF number
<1>9. "0" \in Char /\ " " \in Char /\ "-" \in Char /\ "+" \in Char /\ "x" \in Char /\ "X" \in Char
  BY Zenon DEF Char
<1>10. <<>> \in Seq(Char)
  OBVIOUS
<1>11. sign \in Seq(Char)
  <2>1. <<"-">> \in Seq(Char) /\ <<"+">> \in Seq(Char) /\ <<" ">> \in Seq(Char)
    BY <1>9, ShortTexts, Zenon
  <2> QED BY <1>10, <2>1
<1>12. prefix \in Seq(Char)
  <2>1. <<"0", "x">> \in Seq(Char) /\ <<"0", "X">> \in Seq(Char)
    BY <1>9, ShortTexts, Zenon
  <2> QED BY <1>10, <2>1
<1> HIDE DEF sign, prefix
<1>13. pad \in Int
  <2>1. Len(sign) \in Nat /\ Len(prefix) \in Nat
    BY <1>11, <1>12, SeqHasLength
  <2> QED BY <1>7, <2>1
<1> HIDE DEF pad
<1>14. Repeat("0", pad) \in Seq(Char) /\ Repeat(" ", pad) \in Seq(Char)
  BY <1>9, <1>13, RepeatFacts
<1> HIDE DEF left, zeros
<1>15. spaces \in Seq(Char) /\ noughts \in Seq(Char) /\ after \in Seq(Char)
  BY <1>10, <1>14
<1> HIDE DEF spaces, noughts, after
<1>16. spaces \o sign \o prefix \o noughts \in Seq(Char)
  BY <1>11, <1>12, <1>15, ConcatFacts
<1> DEFINE before == spaces \o sign \o prefix \o noughts
<1>17. Len(before) \in Nat /\ Len(after) \in Nat
  BY <1>15, <1>16, SeqHasLength
<1> HIDE DEF before
<1>18. Field(val, flags, base, width, prec) = [before |-> before, number |-> number, after |-> after]
  BY <1>1 DEF before
<1> QED BY <1>8, <1>17, <1>18

-----------------------------------------------------------------------------
(* The end of the text.                                                    *)

(* What TruncatesOnly says of the two calls, and nothing at n or beyond.   *)
Cut(a, b) ==
  /\ a.n \in Nat /\ Inside(a)
  /\ a.o = b.o
  /\ \A i \in Cells : i < a.o /\ i < a.n - 1 => a.mem[i] = b.mem[i]
  /\ a.n > 0 => a.mem[IF a.o < a.n THEN a.o ELSE a.n - 1] = NUL

Filed(st) == st.o \in Nat /\ st.q \in 0 .. st.o /\ DOMAIN st.mem = Cells

LEMMA TerminateFacts ==
  ASSUME NEW st, Writer(st)
  PROVE  LET e == Terminate(st) IN
         /\ e.n = st.n /\ e.o = st.o /\ e.q = st.q /\ DOMAIN e.mem = Cells
         /\ \A i \in Cells : e.mem[i] = IF st.n > 0 /\ i = (IF st.o < st.n THEN st.o ELSE st.n - 1)
                                        THEN NUL ELSE st.mem[i]
<1> DEFINE n == st.n
           o == st.o
           q == st.q
           mem == st.mem
<1>1. /\ st = [n |-> n, o |-> o, q |-> q, mem |-> mem]
      /\ n \in Nat /\ o \in Nat /\ (o < n => q = o)
      /\ DOMAIN mem = Cells /\ mem = [i \in Cells |-> mem[i]]
  BY DEF Writer
<1>2. Terminate(st) = IF o < n THEN [st EXCEPT !.mem[q] = NUL]
                      ELSE IF n > 0 THEN [st EXCEPT !.mem[n - 1] = NUL] ELSE st
  BY DEF Terminate
<1> HIDE DEF n, o, q, mem
<1>3. ASSUME NEW k
      PROVE  LET e == [st EXCEPT !.mem[k] = NUL] IN
             /\ e.n = n /\ e.o = o /\ e.q = q /\ DOMAIN e.mem = Cells
             /\ \A i \in Cells : e.mem[i] = IF i = k THEN NUL ELSE mem[i]
  <2> DEFINE e == [st EXCEPT !.mem[k] = NUL]
             w == Written(mem, k, NUL)
  <2>1. e.n = n /\ e.o = o /\ e.q = q
    BY <1>1
  <2>2. e.mem = w
    <3>1. DOMAIN st = {"n", "o", "q", "mem"} /\ st.mem = mem
      BY <1>1
    <3>2. e.mem = [st.mem EXCEPT ![k] = NUL]
      BY <3>1
    <3> QED BY <3>1, <3>2 DEF Written
  <2>3. DOMAIN w = Cells /\ \A i \in Cells : w[i] = IF i = k THEN NUL ELSE mem[i]
    BY <1>1, WrittenFacts
  <2> HIDE DEF e, w
  <2> QED BY <2>1, <2>2, <2>3 DEF e
<1>4. CASE o < n
  <2>1. n > 0 /\ q = o
    BY <1>1, <1>4
  <2>2. Terminate(st) = [st EXCEPT !.mem[o] = NUL]
    BY <1>2, <1>4, <2>1
  <2> QED BY <1>3, <1>4, <2>1, <2>2 DEF n, o, q, mem
<1>5. CASE ~(o < n) /\ n > 0
  <2>1. Terminate(st) = [st EXCEPT !.mem[n - 1] = NUL]
    BY <1>2, <1>5
  <2> QED BY <1>3, <1>5, <2>1 DEF n, o, q, mem
<1>6. CASE ~(o < n) /\ ~(n > 0)
  BY <1>1, <1>2, <1>6 DEF n, o, q, mem
<1> QED BY <1>4, <1>5, <1>6

LEMMA TerminateCuts ==
  ASSUME NEW a, NEW b, InStep(a, b)
  PROVE  Cut(Terminate(a), Terminate(b)) /\ Filed(Terminate(a)) /\ Filed(Terminate(b))
<1> DEFINE c == Terminate(a)
           d == Terminate(b)
           end == IF a.o < a.n THEN a.o ELSE a.n - 1
           far == IF b.o < b.n THEN b.o ELSE b.n - 1
<1>1. /\ Writer(a) /\ Writer(b) /\ Inside(a) /\ a.n <= MEM /\ MEM <= b.n /\ a.o = b.o
      /\ \A i \in Cells : i < a.o /\ i < a.n => a.mem[i] = b.mem[i]
  BY DEF InStep
<1>2. /\ c.n = a.n /\ c.o = a.o /\ c.q = a.q /\ DOMAIN c.mem = Cells
      /\ \A i \in Cells : c.mem[i] = IF a.n > 0 /\ i = end THEN NUL ELSE a.mem[i]
  BY <1>1, TerminateFacts
<1>3. /\ d.n = b.n /\ d.o = b.o /\ d.q = b.q /\ DOMAIN d.mem = Cells
      /\ \A i \in Cells : d.mem[i] = IF b.n > 0 /\ i = far THEN NUL ELSE b.mem[i]
  BY <1>1, TerminateFacts
<1>4. a.n \in Nat /\ a.o \in Nat /\ b.n \in Nat /\ b.o \in Nat /\ MEM \in Nat
  BY <1>1, PrintfFacts DEF Writer
<1>5. a.n > 0 => end \in Cells /\ end < a.n
  BY <1>1, <1>4 DEF Cells
<1> HIDE DEF c, d
<1>6. Inside(c)
  <2>1. ASSUME NEW i \in Cells, c.n <= i PROVE c.mem[i] = Untouched
    <3>1. a.n <= i /\ i \in Nat
      BY <1>2, <2>1 DEF Cells
    <3>2. ~(a.n > 0 /\ i = end)
      BY <1>4, <3>1
    <3> QED BY <1>1, <1>2, <3>1, <3>2 DEF Inside
  <2> QED BY <2>1 DEF Inside
<1>7. ASSUME NEW i \in Cells, i < c.o, i < c.n - 1 PROVE c.mem[i] = d.mem[i]
  <2>1. i \in Nat /\ i < a.o /\ i < a.n - 1 /\ i < a.n
    BY <1>2, <1>4, <1>7 DEF Cells
  <2>2. i # end /\ i # far
    BY <1>1, <1>4, <2>1
  <2> HIDE DEF end, far
  <2> QED BY <1>1, <1>2, <1>3, <2>1, <2>2
<1>8. c.n > 0 => c.mem[end] = NUL
  <2> HIDE DEF end
  <2> QED BY <1>2, <1>5
<1>9. Cut(c, d)
  BY <1>1, <1>2, <1>3, <1>4, <1>6, <1>7, <1>8 DEF Cut
<1>10. Filed(c) /\ Filed(d)
  BY <1>1, <1>2, <1>3 DEF Writer, Filed
<1> QED BY <1>9, <1>10 DEF c, d


-----------------------------------------------------------------------------
(* The inductive invariant of a print.                                     *)

CvOK ==
  /\ DOMAIN cv = {"state", "flags", "width", "prec", "rank"}
  /\ cv.state \in {"normal", "flags", "width", "prec", "modifiers"}
  /\ cv.width \in Int /\ cv.prec \in Int /\ cv.rank \in Int

PrintInv ==
  /\ pc \in {"print", "scan", "done"}
  /\ call \in Calls
  /\ p \in 1 .. Len(call.format) + 1 /\ ap \in 1 .. Len(call.args) + 1
  /\ CvOK
  /\ Filed(out) /\ Filed(full)
  /\ IF pc = "print" THEN InStep(out, full) ELSE Cut(out, full)

LEMMA CallFacts ==
  ASSUME PrintInv
  PROVE  /\ call.n \in Nat /\ Len(call.format) \in Nat /\ Len(call.args) \in Nat
         /\ DOMAIN call.args = 1 .. Len(call.args)
BY PrintfFacts DEF PrintInv

(* What a step of the automaton has to show.                               *)
LEMMA StillPrinting ==
  ASSUME PrintInv, pc = "print", p <= Len(call.format), call' = call, pc' = pc,
         p' \in {p, p + 1},
         ap' \in {ap, ap + 1}, ap' = ap + 1 => ap \in DOMAIN call.args,
         CvOK', InStep(out, full)'
  PROVE  PrintInv'
<1>1. /\ p \in 1 .. Len(call.format) + 1 /\ ap \in 1 .. Len(call.args) + 1
      /\ Len(call.format) \in Nat /\ Len(call.args) \in Nat
      /\ DOMAIN call.args = 1 .. Len(call.args)
  BY CallFacts DEF PrintInv
<1>2. p' \in 1 .. Len(call.format) + 1
  BY <1>1
<1>3. ap' \in 1 .. Len(call.args) + 1
  BY <1>1
<1>4. Filed(out)' /\ Filed(full)'
  BY DEF InStep, Writer, Filed
<1> QED BY <1>2, <1>3, <1>4 DEF PrintInv

LEMMA AtFacts ==
  ASSUME PrintInv, NEW state, At(state)
  PROVE  /\ pc = "print" /\ p <= Len(call.format) /\ InStep(out, full) /\ CvOK
BY DEF At, PrintInv

(* Emitting the same text twice.                                           *)
LEMMA EmitsInStep ==
  ASSUME InStep(out, full), NEW xs, Len(xs) \in Nat, Emits(xs)
  PROVE  InStep(out, full)'
<1>1. out' = EmitAll(out, xs) /\ full' = EmitAll(full, xs)
  BY DEF Emits
<1>2. InStep(EmitAll(out, xs), EmitAll(full, xs))
  BY EmitAllInStep
<1>3. InStep(out', full')
  BY <1>1, <1>2, Zenon
<1> QED BY <1>3 DEF InStep, Inside, Writer

LEMMA QuietInStep ==
  ASSUME InStep(out, full), out' = out, full' = full
  PROVE  InStep(out, full)'
BY DEF InStep, Inside, Writer

LEMMA DigitValueFacts ==
  ASSUME NEW c \in Digit
  PROVE  DigitValue(c) \in Int
<1>1. \E i \in 1 .. 10 : lcdigits[i] = c
  BY Zenon DEF Digit
<1> DEFINE k == CHOOSE i \in 1 .. 10 : lcdigits[i] = c
<1>2. k \in 1 .. 10
  BY <1>1, Zenon
<1>3. DigitValue(c) = k - 1
  BY Zenon DEF DigitValue
<1> HIDE DEF k
<1> QED BY <1>2, <1>3

LEMMA NormalStep ==
  ASSUME PrintInv, Normal
  PROVE  PrintInv'
<1>1. At("normal") /\ p' = p + 1 /\ call' = call /\ ap' = ap /\ pc' = pc
  BY DEF Normal, Consumed
<1>2. pc = "print" /\ p <= Len(call.format) /\ InStep(out, full) /\ CvOK
  BY <1>1, AtFacts
<1>3. CASE ch = "%"
  <2>1. cv' = [Plain EXCEPT !.state = "flags"] /\ out' = out /\ full' = full
    BY <1>3 DEF Normal
  <2>2. CvOK'
    BY <2>1 DEF CvOK, Plain
  <2>3. InStep(out, full)'
    BY <1>2, <2>1, QuietInStep
  <2>4. ap' # ap + 1
    BY <1>1 DEF PrintInv
  <2> QED BY <1>1, <1>2, <2>2, <2>3, <2>4, StillPrinting
<1>4. CASE ch # "%"
  <2>1. Emits(<<ch>>) /\ cv' = cv
    BY <1>4 DEF Normal
  <2>2. CvOK'
    BY <1>2, <2>1 DEF CvOK
  <2>3. Len(<<ch>>) \in Nat
    OBVIOUS
  <2>4. InStep(out, full)'
    BY <1>2, <2>1, <2>3, EmitsInStep
  <2>5. ap' # ap + 1
    BY <1>1 DEF PrintInv
  <2> QED BY <1>1, <1>2, <2>2, <2>4, <2>5, StillPrinting
<1> QED BY <1>3, <1>4


LEMMA FlagsStep ==
  ASSUME PrintInv, Flags
  PROVE  PrintInv'
<1>1. /\ At("flags") /\ call' = call /\ ap' = ap /\ pc' = pc
      /\ out' = out /\ full' = full
  BY DEF Flags, Quiet
<1>2. pc = "print" /\ p <= Len(call.format) /\ InStep(out, full) /\ CvOK
  BY <1>1, AtFacts
<1>3. p' \in {p, p + 1} /\ CvOK'
  <2>1. CASE ch \in DOMAIN FlagOf
    <3> DEFINE f == FlagOf[ch]
    <3>1. cv' = [cv EXCEPT !.flags = @ \union {f}] /\ p' = p + 1
      BY <2>1 DEF Flags, Consumed
    <3> HIDE DEF f
    <3> QED BY <1>2, <3>1 DEF CvOK
  <2>2. CASE ch \notin DOMAIN FlagOf
    <3>1. cv' = [cv EXCEPT !.state = "width"] /\ p' = p
      BY <2>2 DEF Flags, Again
    <3> QED BY <1>2, <3>1 DEF CvOK
  <2> QED BY <2>1, <2>2
<1>4. InStep(out, full)'
  BY <1>1, <1>2, QuietInStep
<1>5. ap' # ap + 1
  BY <1>1 DEF PrintInv
<1> QED BY <1>1, <1>2, <1>3, <1>4, <1>5, StillPrinting

LEMMA WidthStep ==
  ASSUME PrintInv, ArgsMatch, Width
  PROVE  PrintInv'
<1>1. /\ At("width") /\ call' = call /\ pc' = pc /\ out' = out /\ full' = full
  BY DEF Width, Quiet
<1>2. pc = "print" /\ p <= Len(call.format) /\ InStep(out, full) /\ CvOK
  BY <1>1, AtFacts
<1>3. InStep(out, full)'
  BY <1>1, <1>2, QuietInStep
<1>4. ap \in Nat
  BY CallFacts DEF PrintInv
<1>5. CASE ch \in Digit /\ Consumed /\ UNCHANGED ap
           /\ cv' = [cv EXCEPT !.width = @ * 10 + DigitValue(ch)]
  <2> DEFINE d == DigitValue(ch)
  <2>1. d \in Int
    BY <1>5, DigitValueFacts
  <2> HIDE DEF d
  <2>2. cv' = [cv EXCEPT !.width = @ * 10 + d]
    BY <1>5 DEF d
  <2>3. CvOK'
    BY <1>2, <2>1, <2>2 DEF CvOK
  <2> QED BY <1>1, <1>2, <1>3, <1>4, <1>5, <2>3, StillPrinting DEF Consumed
<1>6. CASE /\ ch = "*" /\ Consumed /\ ap' = ap + 1
           /\ cv' = IF call.args[ap] < 0
                    THEN [cv EXCEPT !.width = -call.args[ap], !.flags = @ \cup {"minus"}]
                    ELSE [cv EXCEPT !.width = call.args[ap]]
  <2> DEFINE x == call.args[ap]
  <2>1. ap \in DOMAIN call.args /\ x \in Int
    BY <1>1, <1>6 DEF ArgsMatch
  <2> HIDE DEF x
  <2>2. cv' = IF x < 0 THEN [cv EXCEPT !.width = -x, !.flags = @ \cup {"minus"}]
              ELSE [cv EXCEPT !.width = x]
    BY <1>6 DEF x
  <2>3. CvOK'
    <3>1. CASE x < 0
      BY <1>2, <2>1, <2>2, <3>1 DEF CvOK
    <3>2. CASE ~(x < 0)
      BY <1>2, <2>1, <2>2, <3>2 DEF CvOK
    <3> QED BY <3>1, <3>2
  <2> QED BY <1>1, <1>2, <1>3, <1>6, <2>1, <2>3, StillPrinting DEF Consumed
<1>7. CASE ch = "." /\ Consumed /\ cv' = [cv EXCEPT !.state = "prec", !.prec = 0] /\ UNCHANGED ap
  <2>1. CvOK'
    BY <1>2, <1>7 DEF CvOK
  <2> QED BY <1>1, <1>2, <1>3, <1>4, <1>7, <2>1, StillPrinting DEF Consumed
<1>8. CASE Again /\ cv' = [cv EXCEPT !.state = "modifiers"] /\ UNCHANGED ap
  <2>1. CvOK'
    BY <1>2, <1>8 DEF CvOK
  <2> QED BY <1>1, <1>2, <1>3, <1>4, <1>8, <2>1, StillPrinting DEF Again
<1> QED BY <1>5, <1>6, <1>7, <1>8 DEF Width

LEMMA PrecStep ==
  ASSUME PrintInv, ArgsMatch, Prec
  PROVE  PrintInv'
<1>1. /\ At("prec") /\ call' = call /\ pc' = pc /\ out' = out /\ full' = full
  BY DEF Prec, Quiet
<1>2. pc = "print" /\ p <= Len(call.format) /\ InStep(out, full) /\ CvOK
  BY <1>1, AtFacts
<1>3. InStep(out, full)'
  BY <1>1, <1>2, QuietInStep
<1>4. ap \in Nat
  BY CallFacts DEF PrintInv
<1>5. CASE ch \in Digit /\ Consumed /\ UNCHANGED ap
           /\ cv' = [cv EXCEPT !.prec = @ * 10 + DigitValue(ch)]
  <2> DEFINE d == DigitValue(ch)
  <2>1. d \in Int
    BY <1>5, DigitValueFacts
  <2> HIDE DEF d
  <2>2. cv' = [cv EXCEPT !.prec = @ * 10 + d]
    BY <1>5 DEF d
  <2>3. CvOK'
    BY <1>2, <2>1, <2>2 DEF CvOK
  <2> QED BY <1>1, <1>2, <1>3, <1>4, <1>5, <2>3, StillPrinting DEF Consumed
<1>6. CASE /\ ch = "*" /\ Consumed /\ ap' = ap + 1
           /\ cv' = [cv EXCEPT !.prec = IF call.args[ap] < 0 THEN -1 ELSE call.args[ap]]
  <2> DEFINE x == call.args[ap]
             y == IF x < 0 THEN -1 ELSE x
  <2>1. ap \in DOMAIN call.args /\ x \in Int
    BY <1>1, <1>6 DEF ArgsMatch
  <2>2. y \in Int
    BY <2>1
  <2> HIDE DEF y
  <2>3. cv' = [cv EXCEPT !.prec = y]
    BY <1>6 DEF y
  <2>4. CvOK'
    BY <1>2, <2>2, <2>3 DEF CvOK
  <2> QED BY <1>1, <1>2, <1>3, <1>6, <2>1, <2>4, StillPrinting DEF Consumed
<1>7. CASE Again /\ cv' = [cv EXCEPT !.state = "modifiers"] /\ UNCHANGED ap
  <2>1. CvOK'
    BY <1>2, <1>7 DEF CvOK
  <2> QED BY <1>1, <1>2, <1>3, <1>4, <1>7, <2>1, StillPrinting DEF Again
<1> QED BY <1>5, <1>6, <1>7 DEF Prec

LEMMA ModifyStep ==
  ASSUME PrintInv, Modify
  PROVE  PrintInv'
<1>1. /\ At("modifiers") /\ call' = call /\ ap' = ap /\ pc' = pc /\ p' = p + 1
      /\ out' = out /\ full' = full /\ ch \in Modifier
      /\ cv' = [cv EXCEPT !.rank = RankAfter(ch, @)]
  BY DEF Modify, Quiet, Consumed
<1>2. pc = "print" /\ p <= Len(call.format) /\ InStep(out, full) /\ CvOK
  BY <1>1, AtFacts
<1> DEFINE r == RankAfter(ch, cv.rank)
<1>3. r \in Int
  BY <1>1, <1>2 DEF CvOK, RankAfter, Modifier
<1>4. cv' = [cv EXCEPT !.rank = r]
  BY <1>1
<1> HIDE DEF r
<1>5. CvOK'
  BY <1>2, <1>3, <1>4 DEF CvOK
<1>6. InStep(out, full)'
  BY <1>1, <1>2, QuietInStep
<1>7. ap' # ap + 1
  BY <1>1, CallFacts DEF PrintInv
<1> QED BY <1>1, <1>2, <1>5, <1>6, <1>7, StillPrinting


(* The value that is printed is one of uintmax_t, whatever the rank.       *)
LEMMA BitsFacts ==
  ASSUME NEW rank \in Int
  PROVE  Bits(Clamp(rank)) \in 1 .. MAX_BITS
<1> DEFINE r == Clamp(rank)
<1>1. r \in {-2, -1, 0, 1, 2}
  BY DEF Clamp, MIN_RANK, MAX_RANK
<1> HIDE DEF r
<1>2. {CHAR_BITS, SHORT_BITS, INT_BITS, MAX_BITS} \subseteq 1 .. MAX_BITS
  BY PrintfAssumption
<1>3. Bits(r) \in {CHAR_BITS, SHORT_BITS, INT_BITS, MAX_BITS}
  BY <1>1 DEF Bits
<1> QED BY <1>2, <1>3 DEF r

LEMMA IntegerArgumentFacts ==
  ASSUME NEW c, NEW arg \in Int, NEW rank \in Int
  PROVE  LET val == IntegerArgument(c, arg, Clamp(rank))
         IN  val \in Nat /\ val < 2 ^ MAX_BITS
<1> DEFINE b == Bits(Clamp(rank))
<1>1. b \in 1 .. MAX_BITS /\ b \in 0 .. MAX_BITS
  BY BitsFacts
<1>2. INT_BITS \in 0 .. MAX_BITS /\ MAX_BITS \in 0 .. MAX_BITS
  BY PrintfAssumption
<1> HIDE DEF b
<1>3. IntegerArgument(c, arg, Clamp(rank)) \in
        {Wrap(Signed(arg, b), MAX_BITS), Wrap(arg, INT_BITS), Wrap(arg, b)}
  BY DEF IntegerArgument, b
<1>4. Wrap(Signed(arg, b), MAX_BITS) \in Nat /\ Wrap(Signed(arg, b), MAX_BITS) < 2 ^ MAX_BITS
  BY <1>1, <1>2, SignedFacts, WrapFacts
<1>5. /\ Wrap(arg, INT_BITS) \in Nat /\ Wrap(arg, INT_BITS) < 2 ^ MAX_BITS
      /\ Wrap(arg, b) \in Nat /\ Wrap(arg, b) < 2 ^ MAX_BITS
  BY <1>1, <1>2, WrapFacts
<1> QED BY <1>3, <1>4, <1>5

LEMMA ConvertIntegerStep ==
  ASSUME PrintInv, ArgsMatch, ConvertInteger
  PROVE  PrintInv'
<1> DEFINE val == IntegerArgument(ch, call.args[ap], Clamp(cv.rank))
           flags == IntegerFlags(ch, cv.flags)
           base == BaseOf(ch)
           prec == IntegerPrec(ch, cv.prec)
           f == Field(val, flags, base, cv.width, prec)
<1>1. /\ At("modifiers") /\ ch \in IntegerConversion /\ call' = call /\ pc' = pc
      /\ p' = p + 1 /\ ap' = ap + 1 /\ cv' = [cv EXCEPT !.state = "normal"]
      /\ out' = format_int(out, f) /\ full' = format_int(full, f)
  BY DEF ConvertInteger, Consumed
<1>2. pc = "print" /\ p <= Len(call.format) /\ InStep(out, full) /\ CvOK
  BY <1>1, AtFacts
<1>3. ap \in DOMAIN call.args /\ call.args[ap] \in Int
  BY <1>1 DEF ArgsMatch
<1>4. val \in Nat /\ val < 2 ^ MAX_BITS
  BY <1>2, <1>3, IntegerArgumentFacts DEF CvOK
<1>5. base \in {8, 10, 16}
  BY <1>1 DEF BaseOf, IntegerConversion
<1>6. cv.width \in Int /\ prec \in Int
  <2>1. INT_BITS \in Nat
    BY PrintfAssumption
  <2> QED BY <1>2, <2>1 DEF CvOK, IntegerPrec
<1> HIDE DEF val, flags, base, prec
<1>7. Len(f.before) \in Nat /\ Len(f.number) \in Nat /\ Len(f.after) \in Nat
  BY <1>4, <1>5, <1>6, FieldFacts
<1> HIDE DEF f
<1>8. InStep(format_int(out, f), format_int(full, f))
  BY <1>2, <1>7, format_intInStep
<1>9. InStep(out', full')
  BY <1>1, <1>8, Zenon
<1>10. InStep(out, full)'
  BY <1>9 DEF InStep, Inside, Writer
<1>11. CvOK'
  BY <1>1, <1>2 DEF CvOK
<1> QED BY <1>1, <1>2, <1>3, <1>10, <1>11, StillPrinting

LEMMA ConvertStringStep ==
  ASSUME PrintInv, ArgsMatch, ConvertString
  PROVE  PrintInv'
<1> DEFINE null == <<"(", "n", "u", "l", "l", ")">>
           s == IF call.args[ap] = NullPointer THEN null ELSE call.args[ap]
           xs == PaddedString(s, cv.flags, cv.width, cv.prec)
<1>1. /\ At("modifiers") /\ ch \in StringConversion /\ call' = call /\ pc' = pc
      /\ p' = p + 1 /\ ap' = ap + 1 /\ cv' = [cv EXCEPT !.state = "normal"]
      /\ Emits(xs)
  BY DEF ConvertString, Consumed
<1>2. pc = "print" /\ p <= Len(call.format) /\ InStep(out, full) /\ CvOK
  BY <1>1, AtFacts
<1>3. ap \in DOMAIN call.args /\ call.args[ap] \in Seq(STRING)
  BY <1>1 DEF ArgsMatch
<1>4. null \in Seq(Char)
  <2>1. "(" \in Char /\ "n" \in Char /\ "u" \in Char /\ "l" \in Char /\ ")" \in Char
    BY Zenon DEF Char
  <2>2. \A a, b, c, d, e, g \in Char : <<a, b, c, d, e, g>> \in Seq(Char)
    OBVIOUS
  <2> QED BY <2>1, <2>2, Zenon
<1>5. call.args[ap] \in Seq(Char)
  <2>1. STRING \subseteq Char
    BY Zenon DEF Char
  <2> QED BY <1>3, <2>1, SeqMonotonic
<1>6. s \in Seq(Char)
  <2> HIDE DEF null
  <2> QED BY <1>4, <1>5
<1> HIDE DEF s
<1>7. xs \in Seq(Char)
  BY <1>2, <1>6, PaddedStringFacts DEF CvOK
<1> HIDE DEF xs
<1>8. InStep(out, full)'
  BY <1>1, <1>2, <1>7, SeqHasLength, EmitsInStep
<1>9. CvOK'
  BY <1>1, <1>2 DEF CvOK
<1> QED BY <1>1, <1>2, <1>3, <1>8, <1>9, StillPrinting

LEMMA ConvertCountStep ==
  ASSUME PrintInv, ArgsMatch, ConvertCount
  PROVE  PrintInv'
<1>1. /\ At("modifiers") /\ ch = "n" /\ call' = call /\ pc' = pc
      /\ p' = p + 1 /\ ap' = ap + 1 /\ cv' = [cv EXCEPT !.state = "normal"]
      /\ out' = out /\ full' = full
  BY DEF ConvertCount, Consumed
<1>2. pc = "print" /\ p <= Len(call.format) /\ InStep(out, full) /\ CvOK
  BY <1>1, AtFacts
<1>3. ap \in DOMAIN call.args
  BY <1>1 DEF ArgsMatch
<1>4. InStep(out, full)'
  BY <1>1, <1>2, QuietInStep
<1>5. CvOK'
  BY <1>1, <1>2 DEF CvOK
<1> QED BY <1>1, <1>2, <1>3, <1>4, <1>5, StillPrinting

LEMMA ConvertOtherStep ==
  ASSUME PrintInv, ConvertOther
  PROVE  PrintInv'
<1>1. /\ At("modifiers") /\ call' = call /\ ap' = ap /\ pc' = pc /\ p' = p + 1
      /\ cv' = [cv EXCEPT !.state = "normal"] /\ Emits(<<ch>>)
  BY DEF ConvertOther, Consumed
<1>2. pc = "print" /\ p <= Len(call.format) /\ InStep(out, full) /\ CvOK
  BY <1>1, AtFacts
<1>3. Len(<<ch>>) \in Nat
  OBVIOUS
<1>4. InStep(out, full)'
  BY <1>1, <1>2, <1>3, EmitsInStep
<1>5. CvOK'
  BY <1>1, <1>2 DEF CvOK
<1>6. ap' # ap + 1
  BY <1>1, CallFacts DEF PrintInv
<1> QED BY <1>1, <1>2, <1>4, <1>5, <1>6, StillPrinting

LEMMA FinishStep ==
  ASSUME PrintInv, Finish
  PROVE  PrintInv'
<1>1. /\ pc = "print" /\ pc' = "scan" /\ call' = call /\ p' = p /\ ap' = ap /\ cv' = cv
      /\ out' = Terminate(out) /\ full' = Terminate(full)
  BY DEF Finish
<1>2. InStep(out, full)
  BY <1>1 DEF PrintInv
<1> DEFINE c == Terminate(out)
           d == Terminate(full)
<1>3. Cut(c, d) /\ Filed(c) /\ Filed(d)
  BY <1>2, TerminateCuts
<1> HIDE DEF c, d
<1>4. out' = c /\ full' = d
  BY <1>1 DEF c, d
<1>5. Cut(out, full)' /\ Filed(out)' /\ Filed(full)'
  BY <1>3, <1>4 DEF Cut, Filed, Inside
<1>6. CvOK'
  BY <1>1 DEF PrintInv, CvOK
<1> QED BY <1>1, <1>5, <1>6 DEF PrintInv

LEMMA PrintStep ==
  ASSUME PrintInv, ArgsMatch, PrintNext
  PROVE  PrintInv'
BY NormalStep, FlagsStep, WidthStep, PrecStep, ModifyStep, ConvertIntegerStep,
   ConvertStringStep, ConvertCountStep, ConvertOtherStep, FinishStep DEF PrintNext

LEMMA PrintStart ==
  ASSUME PrintInit
  PROVE  PrintInv
<1>1. /\ call \in Calls /\ p = 1 /\ ap = 1 /\ cv = Plain /\ pc = "print"
      /\ out = Empty(call.n) /\ full = Empty(NoLimit)
  BY DEF PrintInit
<1>2. /\ call.n \in Nat /\ call.n <= MEM /\ MEM \in Nat /\ MEM <= NoLimit /\ NoLimit \in Nat
      /\ Len(call.format) \in Nat /\ Len(call.args) \in Nat
  BY <1>1, PrintfFacts
<1>3. ASSUME NEW n \in Nat
      PROVE  LET e == Empty(n) IN
             /\ e.n = n /\ e.o = 0 /\ e.q = 0 /\ Writer(e)
             /\ \A i \in Cells : e.mem[i] = Untouched
  <2> DEFINE e == Empty(n)
             m == [i \in Cells |-> Untouched]
  <2>1. e = [n |-> n, o |-> 0, q |-> 0, mem |-> m]
    BY DEF Empty, Cells
  <2>2. DOMAIN m = Cells /\ m = [i \in Cells |-> m[i]] /\ \A i \in Cells : m[i] = Untouched
    OBVIOUS
  <2> HIDE DEF e, m
  <2>3. /\ e.n = n /\ e.o = 0 /\ e.q = 0 /\ e.mem = m
        /\ e = [n |-> e.n, o |-> e.o, q |-> e.q, mem |-> e.mem]
    BY <2>1
  <2>4. Writer(e)
    BY <2>2, <2>3 DEF Writer
  <2> QED BY <2>2, <2>3, <2>4 DEF e
<1>4. InStep(out, full)
  <2>1. /\ out.n = call.n /\ out.o = 0 /\ Writer(out)
        /\ \A i \in Cells : out.mem[i] = Untouched
    BY <1>1, <1>2, <1>3
  <2>2. /\ full.n = NoLimit /\ full.o = 0 /\ Writer(full)
        /\ \A i \in Cells : full.mem[i] = Untouched
    BY <1>1, <1>2, <1>3
  <2>3. Inside(out)
    BY <2>1 DEF Inside
  <2> QED BY <1>2, <2>1, <2>2, <2>3 DEF InStep
<1>5. Filed(out) /\ Filed(full)
  BY <1>4 DEF InStep, Writer, Filed
<1>6. CvOK
  BY <1>1 DEF CvOK, Plain
<1> QED BY <1>1, <1>2, <1>4, <1>5, <1>6 DEF PrintInv


-----------------------------------------------------------------------------
(* The scan: what it has stored is a list, and it counts no more than that. *)

Stored(got, converted) ==
  /\ \E S : got \in Seq(S)
  /\ converted \in -1 .. Len(got)

OkScan(s) ==
  /\ DOMAIN s = {"p", "q", "state", "splat", "given", "width", "rank", "set", "inv",
                 "bail", "converted", "got"}
  /\ Stored(s.got, s.converted)
  /\ s.bail \in {"none", "eof", "err"}

ScanInv == sc.p \in 1 .. Len(call.scan) + 1 /\ OkScan(sc)

LEMMA OtherFields ==
  ASSUME NEW s, OkScan(s), NEW t, DOMAIN t = DOMAIN s, t.got = s.got,
         t.converted = s.converted, t.bail \in {"none", "eof", "err"}
  PROVE  OkScan(t)
BY DEF OkScan

LEMMA StoredAppend ==
  ASSUME NEW got, NEW k, Stored(got, k), NEW x
  PROVE  Stored(Append(got, x), k) /\ Stored(Append(got, x), k + 1)
<1>1. PICK S : got \in Seq(S)
  BY DEF Stored
<1> DEFINE T == S \union {x}
<1>2. got \in Seq(T) /\ x \in T
  <2>1. S \subseteq T /\ x \in T
    BY Zenon
  <2> HIDE DEF T
  <2> QED BY <1>1, <2>1, SeqMonotonic
<1> HIDE DEF T
<1>3. Append(got, x) \in Seq(T) /\ Len(Append(got, x)) = Len(got) + 1 /\ Len(got) \in Nat
  BY <1>2
<1>4. k \in -1 .. Len(got)
  BY DEF Stored
<1>5. k \in -1 .. Len(got) + 1 /\ k + 1 \in -1 .. Len(got) + 1
  BY <1>3, <1>4
<1> DEFINE g == Append(got, x)
<1> HIDE DEF g
<1>6. g \in Seq(T) /\ Len(g) = Len(got) + 1
  BY <1>3 DEF g
<1>7. Stored(g, k) /\ Stored(g, k + 1)
  BY <1>5, <1>6 DEF Stored
<1> QED BY <1>7 DEF g

LEMMA ConvertFacts ==
  ASSUME NEW s, OkScan(s), NEW x
  PROVE  OkScan(Store(s, x)) /\ OkScan(Convert(s, x))
<1> DEFINE g == Append(s.got, x)
           c == s.converted
<1>1. /\ DOMAIN s = {"p", "q", "state", "splat", "given", "width", "rank", "set", "inv",
                     "bail", "converted", "got"}
      /\ s.bail \in {"none", "eof", "err"} /\ Stored(s.got, c)
  BY DEF OkScan
<1>2. Stored(g, c) /\ Stored(g, c + 1)
  BY <1>1, StoredAppend
<1>3. c \in Int
  BY <1>1 DEF Stored
<1> HIDE DEF g
<1>4. CASE s.splat
  BY <1>4 DEF Store, Convert
<1>5. CASE ~s.splat
  <2> DEFINE t == [s EXCEPT !.got = g]
             u == [t EXCEPT !.converted = @ + 1]
  <2>1. Store(s, x) = t
    BY <1>5 DEF Store, g
  <2>2. Convert(s, x) = u
    BY <1>5, <2>1 DEF Convert
  <2>3. DOMAIN t = DOMAIN s /\ t.got = g /\ t.converted = c /\ t.bail = s.bail
    BY <1>1
  <2> HIDE DEF t
  <2>4. DOMAIN u = DOMAIN s /\ u.got = g /\ u.converted = c + 1 /\ u.bail = s.bail
    BY <1>1, <2>3
  <2> HIDE DEF c, u
  <2>5. OkScan(t)
    BY <1>1, <1>2, <2>3 DEF OkScan
  <2>6. OkScan(u)
    BY <1>1, <1>2, <2>4 DEF OkScan
  <2> QED BY <2>1, <2>2, <2>5, <2>6
<1> QED BY <1>4, <1>5

LEMMA ScanAtFacts ==
  ASSUME PrintInv, ScanInv, NEW state, ScanAt(state)
  PROVE  /\ pc = "scan" /\ sc.p <= Len(call.scan) /\ OkScan(sc) /\ sc.bail = "none"
         /\ Len(call.scan) \in Nat /\ sc.p \in 1 .. Len(call.scan)
<1>1. Len(call.scan) \in Nat
  BY PrintfFacts DEF PrintInv
<1> QED BY <1>1 DEF ScanAt, ScanInv

(* A step of the scan leaves the print alone.                              *)
LEMMA PrintKept ==
  ASSUME PrintInv, UNCHANGED printVars
  PROVE  PrintInv'
<1>1. /\ call' = call /\ p' = p /\ cv' = cv /\ ap' = ap /\ out' = out /\ full' = full
      /\ pc' = pc
  BY DEF printVars
<1> QED BY <1>1 DEF PrintInv, CvOK, Filed, InStep, Inside, Writer, Cut

LEMMA StepFacts ==
  ASSUME PrintInv, ScanInv, sc.p \in 1 .. Len(call.scan), Len(call.scan) \in Nat,
         NEW new, OkScan(new), Step(new)
  PROVE  PrintInv' /\ ScanInv'
<1>1. sc' = [new EXCEPT !.p = sc.p + 1] /\ UNCHANGED printVars
  BY DEF Step
<1> DEFINE k == sc.p + 1
           t == [new EXCEPT !.p = k]
<1>2. k \in 1 .. Len(call.scan) + 1
  OBVIOUS
<1> HIDE DEF k
<1>3. /\ DOMAIN t = DOMAIN new /\ t.got = new.got /\ t.converted = new.converted
      /\ t.bail = new.bail /\ t.p = k
  BY DEF OkScan
<1>4. sc' = t
  BY <1>1 DEF k
<1> HIDE DEF t
<1>5. OkScan(t)
  BY <1>3, OtherFields DEF OkScan
<1>6. call' = call
  BY <1>1 DEF printVars
<1> QED BY <1>1, <1>2, <1>3, <1>4, <1>5, <1>6, PrintKept DEF ScanInv

LEMMA RereadFacts ==
  ASSUME PrintInv, ScanInv, NEW new, OkScan(new), new.p = sc.p, Reread(new)
  PROVE  PrintInv' /\ ScanInv'
<1>1. sc' = new /\ UNCHANGED printVars /\ call' = call
  BY DEF Reread, printVars
<1> QED BY <1>1, PrintKept DEF ScanInv


LEMMA ScanNormalStep ==
  ASSUME PrintInv, ScanInv, ScanNormal
  PROVE  PrintInv' /\ ScanInv'
<1> DEFINE n1 == [sc EXCEPT !.state = "flags", !.splat = FALSE, !.given = FALSE,
                            !.width = UINT_MAX, !.rank = 0]
           n2 == [sc EXCEPT !.q = skipspace(@)]
           n3 == [sc EXCEPT !.q = @ + 1]
           n4 == [sc EXCEPT !.bail = "err"]
           new == IF sch = "%" THEN n1 ELSE IF isspace(sch) THEN n2
                  ELSE IF CharAt(sc.q) = sch THEN n3 ELSE n4
<1>1. ScanAt("normal") /\ Step(new)
  BY DEF ScanNormal
<1>2. /\ OkScan(sc) /\ Len(call.scan) \in Nat /\ sc.p \in 1 .. Len(call.scan)
  BY <1>1, ScanAtFacts
<1>3. OkScan(n1) /\ OkScan(n2) /\ OkScan(n3) /\ OkScan(n4)
  <2>1. OkScan(n1)
    BY <1>2 DEF OkScan
  <2>2. OkScan(n2)
    BY <1>2 DEF OkScan
  <2>3. OkScan(n3)
    BY <1>2 DEF OkScan
  <2>4. OkScan(n4)
    BY <1>2 DEF OkScan
  <2> QED BY <2>1, <2>2, <2>3, <2>4
<1> HIDE DEF n1, n2, n3, n4
<1>4. OkScan(new)
  BY <1>3
<1> HIDE DEF new
<1> QED BY <1>1, <1>2, <1>4, StepFacts

LEMMA ScanFlagsStep ==
  ASSUME PrintInv, ScanInv, ScanFlags
  PROVE  PrintInv' /\ ScanInv'
<1> DEFINE n1 == [sc EXCEPT !.splat = TRUE]
           n2 == [sc EXCEPT !.width = DigitValue(sch), !.state = "width", !.given = TRUE]
           n3 == [sc EXCEPT !.state = "modifiers"]
<1>1. ScanAt("flags") /\ (Step(n1) \/ Step(n2) \/ Reread(n3))
  BY DEF ScanFlags
<1>2. /\ OkScan(sc) /\ Len(call.scan) \in Nat /\ sc.p \in 1 .. Len(call.scan)
  BY <1>1, ScanAtFacts
<1>3. OkScan(n1)
  BY <1>2 DEF OkScan
<1>4. OkScan(n2)
  BY <1>2 DEF OkScan
<1>5. OkScan(n3) /\ n3.p = sc.p
  BY <1>2 DEF OkScan
<1> HIDE DEF n1, n2, n3
<1> QED BY <1>1, <1>2, <1>3, <1>4, <1>5, StepFacts, RereadFacts

LEMMA ScanWidthStep ==
  ASSUME PrintInv, ScanInv, ScanWidth
  PROVE  PrintInv' /\ ScanInv'
<1> DEFINE n1 == [sc EXCEPT !.width = @ * 10 + DigitValue(sch)]
           n2 == [sc EXCEPT !.state = "modifiers"]
<1>1. ScanAt("width") /\ (Step(n1) \/ Reread(n2))
  BY DEF ScanWidth
<1>2. /\ OkScan(sc) /\ Len(call.scan) \in Nat /\ sc.p \in 1 .. Len(call.scan)
  BY <1>1, ScanAtFacts
<1>3. OkScan(n1)
  BY <1>2 DEF OkScan
<1>4. OkScan(n2) /\ n2.p = sc.p
  BY <1>2 DEF OkScan
<1> HIDE DEF n1, n2
<1> QED BY <1>1, <1>2, <1>3, <1>4, StepFacts, RereadFacts

LEMMA ScanModifyStep ==
  ASSUME PrintInv, ScanInv, ScanModify
  PROVE  PrintInv' /\ ScanInv'
<1> DEFINE new == [sc EXCEPT !.rank = IF sch \in {"L", "q"} THEN 2 ELSE RankAfter(sch, @)]
<1>1. ScanAt("modifiers") /\ Step(new)
  BY DEF ScanModify
<1>2. /\ OkScan(sc) /\ Len(call.scan) \in Nat /\ sc.p \in 1 .. Len(call.scan)
  BY <1>1, ScanAtFacts
<1>3. OkScan(new)
  BY <1>2 DEF OkScan
<1> HIDE DEF new
<1> QED BY <1>1, <1>2, <1>3, StepFacts

LEMMA ScanIntegerStep ==
  ASSUME PrintInv, ScanInv, ScanInteger
  PROVE  PrintInv' /\ ScanInv'
<1> DEFINE q == skipspace(sc.q)
           r == strntoumax(q, ScanBase(sch), sc.width)
           next == [sc EXCEPT !.state = "normal", !.q = q]
           n1 == [next EXCEPT !.bail = "eof"]
           n2 == [next EXCEPT !.bail = "err"]
           n3 == [next EXCEPT !.q = r.end]
           n4 == Convert(n3, Wrap(r.val, ScanBits(sch, sc.rank)))
           new == IF CharAt(q) = NUL THEN n1 ELSE IF r.end = q THEN n2 ELSE n4
<1>1. ScanAt("modifiers") /\ Step(new)
  BY DEF ScanInteger
<1>2. /\ OkScan(sc) /\ Len(call.scan) \in Nat /\ sc.p \in 1 .. Len(call.scan)
  BY <1>1, ScanAtFacts
<1> HIDE DEF q, r
<1>3. OkScan(next)
  BY <1>2 DEF OkScan
<1> HIDE DEF next
<1>4. OkScan(n1)
  BY <1>3 DEF OkScan
<1>5. OkScan(n2)
  BY <1>3 DEF OkScan
<1>6. OkScan(n3)
  BY <1>3 DEF OkScan
<1> HIDE DEF n3
<1>7. OkScan(n4)
  BY <1>6, ConvertFacts
<1> HIDE DEF n1, n2, n4
<1>8. OkScan(new)
  BY <1>4, <1>5, <1>7
<1> HIDE DEF new
<1> QED BY <1>1, <1>2, <1>8, StepFacts

LEMMA ScanCountStep ==
  ASSUME PrintInv, ScanInv, ScanCount
  PROVE  PrintInv' /\ ScanInv'
<1> DEFINE next == [sc EXCEPT !.state = "normal"]
           new == Store(next, Wrap(sc.q, Bits(Clamp(sc.rank))))
<1>1. ScanAt("modifiers") /\ Step(new)
  BY DEF ScanCount
<1>2. /\ OkScan(sc) /\ Len(call.scan) \in Nat /\ sc.p \in 1 .. Len(call.scan)
  BY <1>1, ScanAtFacts
<1>3. OkScan(next)
  BY <1>2 DEF OkScan
<1> HIDE DEF next
<1>4. OkScan(new)
  BY <1>3, ConvertFacts
<1> HIDE DEF new
<1> QED BY <1>1, <1>2, <1>4, StepFacts

LEMMA ScanCharStep ==
  ASSUME PrintInv, ScanInv, ScanChar
  PROVE  PrintInv' /\ ScanInv'
<1> DEFINE width == IF sc.given THEN sc.width ELSE 1
           end == IF Len(Source) - sc.q < width THEN Len(Source) ELSE sc.q + width
           next == [sc EXCEPT !.state = "normal"]
           n1 == [next EXCEPT !.bail = "eof"]
           n2 == [next EXCEPT !.q = end, !.bail = "eof"]
           n3 == [next EXCEPT !.q = end]
           n4 == Convert(n3, SubSeq(Source, sc.q + 1, end))
           new == IF sc.splat
                  THEN IF width > 0 /\ CharAt(sc.q) = NUL THEN n1 ELSE next
                  ELSE IF end < sc.q + width THEN n2 ELSE n4
<1>1. ScanAt("modifiers") /\ Step(new)
  BY Zenon DEF ScanChar
<1>2. /\ OkScan(sc) /\ Len(call.scan) \in Nat /\ sc.p \in 1 .. Len(call.scan)
  BY <1>1, ScanAtFacts
<1> HIDE DEF width, end
<1>3. OkScan(next)
  BY <1>2 DEF OkScan
<1> HIDE DEF next
<1>4. OkScan(n1)
  BY <1>3 DEF OkScan
<1>5. OkScan(n2)
  BY <1>3 DEF OkScan
<1>6. OkScan(n3)
  BY <1>3 DEF OkScan
<1> HIDE DEF n3
<1>7. OkScan(n4)
  BY <1>6, ConvertFacts
<1> HIDE DEF n1, n2, n4
<1>8. OkScan(new)
  BY <1>3, <1>4, <1>5, <1>7
<1> HIDE DEF new
<1> QED BY <1>1, <1>2, <1>8, StepFacts

LEMMA ScanStringStep ==
  ASSUME PrintInv, ScanInv, ScanString
  PROVE  PrintInv' /\ ScanInv'
<1> DEFINE end == Span(sc.q, sc.width, Range(Source) \ Spaces)
           bail == IF end - sc.q < sc.width /\ CharAt(end) = NUL THEN "eof" ELSE "none"
           next == [sc EXCEPT !.state = "normal", !.q = end, !.bail = bail]
           n1 == Convert(next, SubSeq(Source, sc.q + 1, end))
           new == IF end = sc.q THEN next ELSE n1
<1>1. ScanAt("modifiers") /\ Step(new)
  BY Zenon DEF ScanString
<1>2. /\ OkScan(sc) /\ Len(call.scan) \in Nat /\ sc.p \in 1 .. Len(call.scan)
  BY <1>1, ScanAtFacts
<1>3. bail \in {"none", "eof", "err"}
  OBVIOUS
<1> HIDE DEF end, bail
<1>4. OkScan(next)
  BY <1>2, <1>3 DEF OkScan
<1> HIDE DEF next
<1>5. OkScan(n1)
  BY <1>4, ConvertFacts
<1> HIDE DEF n1
<1>6. OkScan(new)
  BY <1>4, <1>5
<1> HIDE DEF new
<1> QED BY <1>1, <1>2, <1>6, StepFacts


LEMMA ScanPercentStep ==
  ASSUME PrintInv, ScanInv, ScanPercent
  PROVE  PrintInv' /\ ScanInv'
<1> DEFINE n1 == [sc EXCEPT !.state = "normal", !.q = @ + 1]
           n2 == [sc EXCEPT !.state = "normal", !.bail = "err"]
           new == IF CharAt(sc.q) = "%" THEN n1 ELSE n2
<1>1. ScanAt("modifiers") /\ Step(new)
  BY DEF ScanPercent
<1>2. /\ OkScan(sc) /\ Len(call.scan) \in Nat /\ sc.p \in 1 .. Len(call.scan)
  BY <1>1, ScanAtFacts
<1>3. OkScan(n1)
  BY <1>2 DEF OkScan
<1>4. OkScan(n2)
  BY <1>2 DEF OkScan
<1> HIDE DEF n1, n2
<1>5. OkScan(new)
  BY <1>3, <1>4
<1> HIDE DEF new
<1> QED BY <1>1, <1>2, <1>5, StepFacts

LEMMA ScanUnknownStep ==
  ASSUME PrintInv, ScanInv, ScanUnknown
  PROVE  PrintInv' /\ ScanInv'
<1> DEFINE new == [sc EXCEPT !.state = "normal", !.bail = "err"]
<1>1. ScanAt("modifiers") /\ Step(new)
  BY DEF ScanUnknown
<1>2. /\ OkScan(sc) /\ Len(call.scan) \in Nat /\ sc.p \in 1 .. Len(call.scan)
  BY <1>1, ScanAtFacts
<1>3. OkScan(new)
  BY <1>2 DEF OkScan
<1> HIDE DEF new
<1> QED BY <1>1, <1>2, <1>3, StepFacts

LEMMA ScanSetStep ==
  ASSUME PrintInv, ScanInv, ScanSet
  PROVE  PrintInv' /\ ScanInv'
<1> DEFINE new == [sc EXCEPT !.state = "match_init", !.set = {}, !.inv = FALSE]
<1>1. ScanAt("modifiers") /\ Step(new)
  BY DEF ScanSet
<1>2. /\ OkScan(sc) /\ Len(call.scan) \in Nat /\ sc.p \in 1 .. Len(call.scan)
  BY <1>1, ScanAtFacts
<1>3. OkScan(new)
  BY <1>2 DEF OkScan
<1> HIDE DEF new
<1> QED BY <1>1, <1>2, <1>3, StepFacts

LEMMA ScanSetFirstStep ==
  ASSUME PrintInv, ScanInv, ScanSetFirst
  PROVE  PrintInv' /\ ScanInv'
<1> DEFINE n1 == [sc EXCEPT !.inv = TRUE]
           n2 == [sc EXCEPT !.set = @ \cup {sch}, !.state = "match"]
           new == IF sch = "^" THEN n1 ELSE n2
<1>1. ScanAt("match_init") /\ Step(new)
  BY DEF ScanSetFirst
<1>2. /\ OkScan(sc) /\ Len(call.scan) \in Nat /\ sc.p \in 1 .. Len(call.scan)
  BY <1>1, ScanAtFacts
<1>3. OkScan(n1)
  BY <1>2 DEF OkScan
<1>4. OkScan(n2)
  BY <1>2 DEF OkScan
<1> HIDE DEF n1, n2
<1>5. OkScan(new)
  BY <1>3, <1>4
<1> HIDE DEF new
<1> QED BY <1>1, <1>2, <1>5, StepFacts

LEMMA MatchRunFacts ==
  ASSUME NEW s, OkScan(s)
  PROVE  OkScan(MatchRun(s))
<1> DEFINE chars == {c \in Range(Source) : (c \in s.set) # s.inv}
           end == Span(s.q, IF s.width = 0 THEN 0 ELSE NoLimit, chars)
           atEnd == s.width > 0 /\ CharAt(end) = NUL
           bail == IF atEnd THEN "eof" ELSE IF end = s.q \/ s.splat THEN "err" ELSE "none"
           next == [s EXCEPT !.q = end, !.bail = bail]
           n1 == Convert(next, SubSeq(Source, s.q + 1, end))
<1>1. MatchRun(s) = IF end # s.q THEN n1 ELSE next
  BY Zenon DEF MatchRun
<1>2. bail \in {"none", "eof", "err"}
  OBVIOUS
<1> HIDE DEF end, bail
<1>3. OkScan(next)
  BY <1>2 DEF OkScan
<1> HIDE DEF next
<1>4. OkScan(n1)
  BY <1>3, ConvertFacts
<1> HIDE DEF n1
<1> QED BY <1>1, <1>3, <1>4

LEMMA ScanSetNextStep ==
  ASSUME PrintInv, ScanInv, ScanSetNext
  PROVE  PrintInv' /\ ScanInv'
<1> DEFINE n1 == MatchRun(sc)
           n2 == [sc EXCEPT !.state = "match_range"]
           n3 == [sc EXCEPT !.set = @ \cup {sch}]
           new == CASE sch = "]" -> n1 [] sch = "-" -> n2 [] OTHER -> n3
<1>1. ScanAt("match") /\ Step(new)
  BY DEF ScanSetNext
<1>2. /\ OkScan(sc) /\ Len(call.scan) \in Nat /\ sc.p \in 1 .. Len(call.scan)
  BY <1>1, ScanAtFacts
<1>3. OkScan(n1)
  BY <1>2, MatchRunFacts
<1>4. OkScan(n2)
  BY <1>2 DEF OkScan
<1>5. OkScan(n3)
  BY <1>2 DEF OkScan
<1> HIDE DEF n1, n2, n3
<1>6. OkScan(new)
  <2>1. CASE sch = "]"
    BY <1>3, <2>1
  <2>2. CASE sch = "-"
    BY <1>4, <2>2
  <2>3. CASE sch # "]" /\ sch # "-"
    BY <1>5, <2>3
  <2> QED BY <2>1, <2>2, <2>3
<1> HIDE DEF new
<1> QED BY <1>1, <1>2, <1>6, StepFacts

LEMMA ScanSetRangeStep ==
  ASSUME PrintInv, ScanInv, ScanSetRange
  PROVE  PrintInv' /\ ScanInv'
<1> DEFINE range == {Alphabet[i] : i \in Code("-") .. Code(sch) - 1}
           t == [sc EXCEPT !.set = @ \cup {"-"}]
           n1 == MatchRun(t)
           n2 == [sc EXCEPT !.state = "match", !.set = @ \cup range]
           new == IF sch = "]" THEN n1 ELSE n2
<1>1. ScanAt("match_range") /\ Step(new)
  BY DEF ScanSetRange
<1>2. /\ OkScan(sc) /\ Len(call.scan) \in Nat /\ sc.p \in 1 .. Len(call.scan)
  BY <1>1, ScanAtFacts
<1>3. OkScan(t)
  BY <1>2 DEF OkScan
<1> HIDE DEF t, range
<1>4. OkScan(n1)
  BY <1>3, MatchRunFacts
<1>5. OkScan(n2)
  BY <1>2 DEF OkScan
<1> HIDE DEF n1, n2
<1>6. OkScan(new)
  BY <1>4, <1>5
<1> HIDE DEF new
<1> QED BY <1>1, <1>2, <1>6, StepFacts

LEMMA ScanEndStep ==
  ASSUME PrintInv, ScanInv, ScanEnd
  PROVE  PrintInv' /\ ScanInv'
<1> DEFINE t == [sc EXCEPT !.converted = -1]
<1>1. /\ pc = "scan" /\ pc' = "done" /\ call' = call /\ p' = p /\ cv' = cv /\ ap' = ap
      /\ out' = out /\ full' = full /\ sc' \in {t, sc}
  BY DEF ScanEnd
<1>2. PrintInv'
  BY <1>1 DEF PrintInv, CvOK, Filed, Inside, Cut
<1>3. OkScan(t) /\ t.p = sc.p
  <2>1. /\ DOMAIN t = DOMAIN sc /\ t.got = sc.got /\ t.converted = -1
        /\ t.bail = sc.bail /\ t.p = sc.p
    BY DEF ScanInv, OkScan
  <2> HIDE DEF t
  <2>2. \E S : sc.got \in Seq(S)
    BY DEF ScanInv, OkScan, Stored
  <2>3. Len(sc.got) \in Nat
    BY <2>2
  <2>4. Stored(t.got, t.converted)
    BY <2>1, <2>2, <2>3 DEF Stored
  <2> QED BY <2>1, <2>4 DEF ScanInv, OkScan
<1> HIDE DEF t
<1> QED BY <1>1, <1>2, <1>3 DEF ScanInv

-----------------------------------------------------------------------------
(* Both halves together.                                                   *)

FormatInv == PrintInv /\ ScanInv

LEMMA FormatStart ==
  ASSUME FormatInit
  PROVE  FormatInv
<1>1. PrintInv /\ sc = ScanStart
  BY PrintStart DEF FormatInit
<1>2. Len(call.scan) \in Nat
  BY <1>1, PrintfFacts DEF PrintInv
<1>3. Stored(<<>>, 0)
  <2>1. <<>> \in Seq({}) /\ Len(<<>>) = 0
    OBVIOUS
  <2> QED BY <2>1 DEF Stored
<1>4. sc.p = 1 /\ OkScan(sc)
  BY <1>1, <1>3 DEF ScanStart, OkScan
<1> QED BY <1>1, <1>2, <1>4 DEF FormatInv, ScanInv

LEMMA FormatStep ==
  ASSUME FormatInv, ArgsMatch, [FormatNext]_scanVars
  PROVE  FormatInv'
<1>1. PrintInv /\ ScanInv
  BY DEF FormatInv
<1>2. CASE PrintNext /\ UNCHANGED sc
  <2>1. PrintInv'
    BY <1>1, <1>2, PrintStep
  <2>2. call' = call
    BY <1>2 DEF PrintNext, Normal, Flags, Width, Prec, Modify, ConvertInteger,
       ConvertString, ConvertCount, ConvertOther, Finish
  <2>3. ScanInv'
    BY <1>1, <1>2, <2>2 DEF ScanInv
  <2> QED BY <2>1, <2>3 DEF FormatInv
<1>3. CASE ScanNormal \/ ScanFlags \/ ScanWidth \/ ScanModify \/ ScanInteger
           \/ ScanCount \/ ScanChar \/ ScanString
  BY <1>1, <1>3, ScanNormalStep, ScanFlagsStep, ScanWidthStep, ScanModifyStep,
     ScanIntegerStep, ScanCountStep, ScanCharStep, ScanStringStep, Zenon DEF FormatInv
<1>4. CASE ScanPercent \/ ScanUnknown \/ ScanSet \/ ScanSetFirst \/ ScanSetNext
           \/ ScanSetRange \/ ScanEnd
  BY <1>1, <1>4, ScanPercentStep, ScanUnknownStep, ScanSetStep, ScanSetFirstStep,
     ScanSetNextStep, ScanSetRangeStep, ScanEndStep, Zenon DEF FormatInv
<1>5. CASE UNCHANGED scanVars
  <2>1. UNCHANGED printVars /\ sc' = sc /\ call' = call
    BY <1>5 DEF scanVars, printVars
  <2>2. PrintInv'
    BY <1>1, <2>1, PrintKept
  <2> QED BY <1>1, <2>1, <2>2 DEF FormatInv, ScanInv
<1> QED BY <1>2, <1>3, <1>4, <1>5 DEF FormatNext

LEMMA FormatInvariant == FormatSpec /\ []ArgsMatch => []FormatInv
<1>1. FormatInit => FormatInv
  BY FormatStart
<1>2. FormatInv /\ ArgsMatch /\ [FormatNext]_scanVars => FormatInv'
  BY FormatStep
<1> QED BY <1>1, <1>2, PTL DEF FormatSpec

(* Every variable has its type through a print and the scan that follows:  *)
(* the automata of vsnprintf and vsscanf are in one of their states, q is   *)
(* never beyond o, and no more is counted than was stored.                  *)
THEOREM FormatIsTyped == FormatSpec /\ []ArgsMatch => []FormatTypeOK
<1>1. FormatInv /\ ArgsMatch => FormatTypeOK
  BY DEF FormatInv, PrintInv, CvOK, Filed, Cells, ScanInv, OkScan, Stored, FormatTypeOK
<1> QED BY <1>1, FormatInvariant, PTL

(* vsnprintf writes nothing at or past the size it was given, whatever the *)
(* format pads, cuts or converts: EMIT tests o before every character and   *)
(* format_int every digit, which it writes from the right.                  *)
THEOREM StaysInBuffer == FormatSpec /\ []ArgsMatch => []NothingPastBuffer
<1>1. FormatInv => NothingPastBuffer
  <2>1. SUFFICES ASSUME FormatInv PROVE NothingPastBuffer
    OBVIOUS
  <2>2. out.n \in Nat /\ Inside(out)
    BY <2>1 DEF FormatInv, PrintInv, InStep, Writer, Cut
  <2>3. \A i \in out.n .. MEM - 1 : i \in Cells /\ out.n <= i
    BY <2>2, PrintfFacts DEF Cells
  <2> QED BY <2>2, <2>3 DEF NothingPastBuffer, Inside
<1> QED BY <1>1, FormatInvariant, PTL

(* snprintf with room for n characters returns the length of the whole     *)
(* text, holds its first n - 1 characters and ends with a NUL in the        *)
(* buffer: at every n and for every format it is sprintf, cut.              *)
THEOREM OnlyTruncates == FormatSpec /\ []ArgsMatch => []TruncatesOnly
<1>1. FormatInv => TruncatesOnly
  <2>1. SUFFICES ASSUME FormatInv, Printed PROVE TruncatesOnly
    BY DEF TruncatesOnly
  <2>2. Cut(out, full)
    BY <2>1 DEF FormatInv, PrintInv, Printed
  <2> QED BY <2>2 DEF TruncatesOnly, Cut, Cells
<1> QED BY <1>1, FormatInvariant, PTL
=============================================================================
