--------------------------- MODULE UserHeap_proofs ---------------------------
(***************************************************************************)
(* The heap of a user program is sound for every page, word and header     *)
(* size and every sequence of calls.                                       *)
(*                                                                         *)
(* The inductive invariant says that the list of blocks tiles the heap     *)
(* (Tiled), has no two free neighbours (NoFreePair), and that its used     *)
(* blocks are what the program owns (Owns).  Each operation on the list    *)
(* is described by what it does to these three: where the tiles begin and  *)
(* end, and which used blocks they have (Used).  What garbage_collect does *)
(* to a list of any length is shown by induction, that is, by looking at a *)
(* least prefix for which it would go wrong (Least).                       *)
(***************************************************************************)
EXTENDS UserHeap, TLAPS, WellFoundedInduction, SequenceTheorems

-----------------------------------------------------------------------------
(* Arithmetic.                                                             *)

(* The next multiple of n.                                                 *)
LEMMA RoundUpFacts ==
  ASSUME NEW x \in Nat, NEW n \in Nat \ {0}
  PROVE  /\ RoundUp(x, n) \in Nat /\ x <= RoundUp(x, n) /\ RoundUp(x, n) < x + n
         /\ RoundUp(x, n) % n = 0
<1> DEFINE q == (x + n - 1) \div n
           r == (x + n - 1) % n
<1>1. q \in Int /\ r \in 0 .. n - 1 /\ x + n - 1 = n * q + r
  BY SMT
<1>2. q \in Nat
  BY SMT
<1> HIDE DEF q, r
<1>3. RoundUp(x, n) = q * n
  BY DEF RoundUp, q
<1>4. q * n \in Nat
  BY <1>2
<1>5. q * n = x + n - 1 - r
  BY <1>1, <1>2, SMT
<1>6. (q * n) % n = 0
  BY <1>2, SMT
<1> QED BY <1>1, <1>3, <1>4, <1>5, <1>6

(* No multiple is passed over.                                             *)
LEMMA MultipleAbove ==
  ASSUME NEW x \in Nat, NEW n \in Nat \ {0}, NEW m \in Nat, m % n = 0, x <= m
  PROVE  RoundUp(x, n) <= m
<1> DEFINE q == (x + n - 1) \div n
           r == (x + n - 1) % n
           k == m \div n
<1>1. q \in Int /\ r \in 0 .. n - 1 /\ x + n - 1 = n * q + r
  BY SMT
<1>2. k \in Int /\ m = n * k
  BY SMT
<1> HIDE DEF q, r, k
<1>3. q <= k
  BY <1>1, <1>2, SMT
<1>4. q * n <= k * n
  BY <1>1, <1>2, <1>3, SMT
<1> QED BY <1>1, <1>2, <1>4 DEF RoundUp, q


(* A set of natural numbers has a least one.                               *)
LEMMA Least ==
  ASSUME NEW I \in SUBSET Nat, I # {}
  PROVE  \E m \in I : \A j \in I : m <= j
<1>1. PICK m \in I : \A j \in I : ~(<<j, m>> \in OpToRel(<, Nat))
  BY WFMin, NatLessThanWellFounded
<1>2. ASSUME NEW j \in I PROVE m <= j
  <2>1. ~(<<j, m>> \in OpToRel(<, Nat)) /\ <<j, m>> \in Nat \X Nat
    BY <1>1
  <2>2. ~(j < m)
    BY <2>1 DEF OpToRel
  <2> QED BY <2>2
<1> QED BY <1>2

LEMMA ConstantFacts ==
  /\ WORD \in Nat \ {0} /\ HDR \in Nat \ {0} /\ PAGESIZE \in Nat \ {0}
  /\ MaxBreak \in Nat /\ HDR <= PAGESIZE /\ 2 * WORD \in Nat \ {0}
  /\ PAGESIZE % (2 * WORD) = 0 /\ MaxBreak % PAGESIZE = 0
  /\ LinkedEnds \subseteq 1 .. MaxBreak /\ Incrs \subseteq Nat \ {0}
  /\ Lens \subseteq 0 .. 2 ^ WIDTH - 1
  /\ Arrays \subseteq [nmemb : Nat, size : Nat]
  /\ 2 ^ WIDTH \in Nat /\ 2 ^ (WIDTH - 1) \in Nat
  /\ 2 ^ (WIDTH - 1) <= 2 ^ WIDTH /\ MaxBreak < 2 ^ (WIDTH - 1)
BY UserHeapAssumption, WidthAssumption

-----------------------------------------------------------------------------
(* Sequences.                                                              *)

LEMMA InsertAtFacts ==
  ASSUME NEW S, NEW s \in Seq(S), NEW i \in 1 .. Len(s) + 1, NEW e \in S
  PROVE  /\ InsertAt(s, i, e) \in Seq(S)
         /\ Len(InsertAt(s, i, e)) = Len(s) + 1
         /\ \A j \in 1 .. Len(s) + 1 :
              InsertAt(s, i, e)[j] = IF j < i THEN s[j]
                                     ELSE IF j = i THEN e ELSE s[j - 1]
<1> DEFINE a == SubSeq(s, 1, i - 1)
           b == SubSeq(s, i, Len(s))
           c == a \o <<e>>
<1>1. /\ a \in Seq(S) /\ Len(a) = i - 1 /\ \A j \in 1 .. i - 1 : a[j] = s[j]
  OBVIOUS
<1>2. /\ b \in Seq(S) /\ Len(b) = Len(s) + 1 - i
      /\ \A j \in 1 .. Len(s) + 1 - i : b[j] = s[i + j - 1]
  OBVIOUS
<1>3. <<e>> \in Seq(S) /\ Len(<<e>>) = 1 /\ <<e>>[1] = e
  OBVIOUS
<1>4. InsertAt(s, i, e) = c \o b
  BY DEF InsertAt
<1> HIDE DEF a, b
<1>5. /\ c \in Seq(S) /\ Len(c) = i
      /\ \A j \in 1 .. i : c[j] = IF j < i THEN s[j] ELSE e
  <2>1. /\ c \in Seq(S) /\ Len(c) = Len(a) + Len(<<e>>)
        /\ \A j \in 1 .. Len(a) + Len(<<e>>) :
             c[j] = IF j <= Len(a) THEN a[j] ELSE <<e>>[j - Len(a)]
    BY <1>1, <1>3, ConcatProperties
  <2>2. Len(a) + Len(<<e>>) = i
    BY <1>1, <1>3
  <2>3. ASSUME NEW j \in 1 .. i PROVE c[j] = IF j < i THEN s[j] ELSE e
    <3>1. CASE j < i
      BY <1>1, <2>1, <2>2, <3>1
    <3>2. CASE j = i
      <4>1. j - Len(a) = 1 /\ ~(j <= Len(a))
        BY <1>1, <3>2
      <4> QED BY <1>3, <2>1, <2>2, <3>2, <4>1
    <3>3. j < i \/ j = i
      OBVIOUS
    <3> QED BY <3>1, <3>2, <3>3
  <2> QED BY <2>1, <2>2, <2>3
<1> HIDE DEF c
<1>6. /\ c \o b \in Seq(S) /\ Len(c \o b) = Len(c) + Len(b)
      /\ \A j \in 1 .. Len(c) + Len(b) :
           (c \o b)[j] = IF j <= Len(c) THEN c[j] ELSE b[j - Len(c)]
  BY <1>2, <1>5, ConcatProperties
<1>7. ASSUME NEW j \in 1 .. Len(s) + 1
      PROVE  (c \o b)[j] = IF j < i THEN s[j] ELSE IF j = i THEN e ELSE s[j - 1]
  <2>1. Len(c) + Len(b) = Len(s) + 1
    BY <1>2, <1>5
  <2>2. CASE j <= i
    BY <1>5, <1>6, <2>1, <2>2
  <2>3. CASE j > i
    <3>1. j - i \in 1 .. Len(s) + 1 - i /\ i + (j - i) - 1 = j - 1
      BY <2>3
    <3> QED BY <1>2, <1>5, <1>6, <2>1, <2>3, <3>1
  <2>4. j <= i \/ j > i
    OBVIOUS
  <2> QED BY <2>2, <2>3, <2>4
<1> QED BY <1>2, <1>4, <1>5, <1>6, <1>7

LEMMA RemoveAtFacts ==
  ASSUME NEW S, NEW s \in Seq(S), NEW i \in 1 .. Len(s)
  PROVE  /\ RemoveAt(s, i) \in Seq(S)
         /\ Len(RemoveAt(s, i)) = Len(s) - 1
         /\ \A j \in 1 .. Len(s) - 1 :
              RemoveAt(s, i)[j] = IF j < i THEN s[j] ELSE s[j + 1]
<1> DEFINE a == SubSeq(s, 1, i - 1)
           b == SubSeq(s, i + 1, Len(s))
<1>1. /\ a \in Seq(S) /\ Len(a) = i - 1 /\ \A j \in 1 .. i - 1 : a[j] = s[j]
  OBVIOUS
<1>2. /\ b \in Seq(S) /\ Len(b) = Len(s) - i
      /\ \A j \in 1 .. Len(s) - i : b[j] = s[i + j]
  OBVIOUS
<1>3. RemoveAt(s, i) = a \o b
  BY DEF RemoveAt
<1> HIDE DEF a, b
<1>4. /\ a \o b \in Seq(S) /\ Len(a \o b) = Len(a) + Len(b)
      /\ \A j \in 1 .. Len(a) + Len(b) :
           (a \o b)[j] = IF j <= Len(a) THEN a[j] ELSE b[j - Len(a)]
  BY <1>1, <1>2, ConcatProperties
<1>5. ASSUME NEW j \in 1 .. Len(s) - 1
      PROVE  (a \o b)[j] = IF j < i THEN s[j] ELSE s[j + 1]
  <2>1. CASE j < i
    BY <1>1, <1>2, <1>4, <2>1
  <2>2. CASE j >= i
    <3>1. j - (i - 1) \in 1 .. Len(s) - i /\ i + (j - (i - 1)) = j + 1
      BY <2>2
    <3> QED BY <1>1, <1>2, <1>4, <2>2, <3>1
  <2>3. j < i \/ j >= i
    OBVIOUS
  <2> QED BY <2>1, <2>2, <2>3
<1> QED BY <1>1, <1>2, <1>3, <1>4, <1>5

(* The last element of a nonempty sequence is replaced.                    *)
LEMMA ReplaceLastFacts ==
  ASSUME NEW S, NEW s \in Seq(S), s # <<>>, NEW e \in S
  PROVE  /\ Append(Front(s), e) \in Seq(S)
         /\ Len(Append(Front(s), e)) = Len(s)
         /\ \A j \in 1 .. Len(s) :
              Append(Front(s), e)[j] = IF j < Len(s) THEN s[j] ELSE e
<1> DEFINE f == SubSeq(s, 1, Len(s) - 1)
<1>0. Len(s) \in Nat \ {0}
  BY EmptySeq
<1>1. /\ f \in Seq(S) /\ Len(f) = Len(s) - 1
      /\ \A j \in 1 .. Len(s) - 1 : f[j] = s[j]
  <2> DEFINE k == Len(s) - 1
  <2>1. k \in Nat /\ \A j \in 1 .. k : s[j] \in S
    BY <1>0
  <2> HIDE DEF k
  <2>2. /\ SubSeq(s, 1, k) \in Seq(S)
        /\ Len(SubSeq(s, 1, k)) = IF 1 <= k THEN k - 1 + 1 ELSE 0
        /\ \A j \in 1 .. k - 1 + 1 : SubSeq(s, 1, k)[j] = s[1 + j - 1]
    BY <2>1, SubSeqProperties
  <2>3. /\ SubSeq(s, 1, k) \in Seq(S) /\ Len(SubSeq(s, 1, k)) = k
        /\ \A j \in 1 .. k : SubSeq(s, 1, k)[j] = s[j]
    BY <2>1, <2>2
  <2> QED BY <2>3 DEF k
<1>2. Front(s) = f
  BY DEF Front
<1> HIDE DEF f
<1>3. /\ Append(f, e) \in Seq(S) /\ Len(Append(f, e)) = Len(f) + 1
      /\ \A i \in 1 .. Len(f) : Append(f, e)[i] = f[i]
      /\ Append(f, e)[Len(f) + 1] = e
  BY <1>1, AppendProperties
<1> QED BY <1>0, <1>1, <1>2, <1>3


-----------------------------------------------------------------------------
(* Lists of blocks.                                                        *)

(* The blocks of the list lie end to end from start to end, and none uses  *)
(* more than it has.                                                       *)
Tiled(bs, start, end) ==
  /\ bs \in Seq(Block) /\ bs # <<>>
  /\ bs[1].addr = start /\ BLOCK_END(bs[Len(bs)]) = end
  /\ \A i \in 1 .. Len(bs) - 1 : BLOCK_END(bs[i]) = bs[i + 1].addr
  /\ \A i \in 1 .. Len(bs) : bs[i].size_used <= bs[i].size

NoFreePair(bs) ==
  \A i \in 1 .. Len(bs) - 1 : ~(IsFree(bs[i]) /\ IsFree(bs[i + 1]))

Used(bs) == {bs[i] : i \in {j \in 1 .. Len(bs) : ~IsFree(bs[j])}}

LEMMA BlockFacts ==
  ASSUME NEW b \in Block
  PROVE  /\ b.addr \in Nat /\ b.size \in Nat /\ b.size_used \in Nat
         /\ BLOCK_START(b) = b.addr + HDR /\ BLOCK_START(b) \in Nat
         /\ BLOCK_END(b) = BLOCK_START(b) + b.size /\ BLOCK_END(b) \in Nat
         /\ b.addr < BLOCK_START(b) /\ BLOCK_START(b) <= BLOCK_END(b)
         /\ IsFree(b) <=> b.size_used = 0
BY ConstantFacts DEF Block, BLOCK_START, BLOCK_END, IsFree

LEMMA TiledFacts ==
  ASSUME NEW bs, NEW start, NEW end, Tiled(bs, start, end)
  PROVE  /\ bs \in Seq(Block) /\ Len(bs) \in Nat \ {0} /\ DOMAIN bs = 1 .. Len(bs)
         /\ 1 \in 1 .. Len(bs) /\ Len(bs) \in 1 .. Len(bs)
         /\ \A i \in 1 .. Len(bs) : bs[i] \in Block
         /\ start \in Nat /\ end \in Nat
<1>1. bs \in Seq(Block) /\ bs # <<>>
  BY DEF Tiled
<1>2. Len(bs) \in Nat \ {0}
  BY <1>1, EmptySeq
<1>3. /\ 1 \in 1 .. Len(bs) /\ Len(bs) \in 1 .. Len(bs)
      /\ \A i \in 1 .. Len(bs) : bs[i] \in Block
  BY <1>1, <1>2
<1>4. start \in Nat /\ end \in Nat
  BY <1>3, BlockFacts DEF Tiled
<1> QED BY <1>1, <1>2, <1>3, <1>4

(* Later blocks are further on.                                            *)
LEMMA Ascending ==
  ASSUME NEW bs, NEW start, NEW end, Tiled(bs, start, end),
         NEW i \in 1 .. Len(bs), NEW j \in 1 .. Len(bs), i < j
  PROVE  BLOCK_END(bs[i]) <= bs[j].addr
<1> DEFINE I == {k \in 1 .. Len(bs) : i < k /\ ~(BLOCK_END(bs[i]) <= bs[k].addr)}
<1>1. /\ Len(bs) \in Nat /\ \A k \in 1 .. Len(bs) : bs[k] \in Block
      /\ \A k \in 1 .. Len(bs) - 1 : BLOCK_END(bs[k]) = bs[k + 1].addr
  BY TiledFacts DEF Tiled
<1>2. SUFFICES ASSUME I # {} PROVE FALSE
  OBVIOUS
<1>3. I \in SUBSET Nat
  OBVIOUS
<1>4. PICK m \in I : \A k \in I : m <= k
  <2> HIDE DEF I
  <2> QED BY <1>2, <1>3, Least
<1>5. /\ m \in 1 .. Len(bs) /\ i < m /\ ~(BLOCK_END(bs[i]) <= bs[m].addr)
      /\ m - 1 \in 1 .. Len(bs) - 1 /\ m - 1 + 1 = m /\ i <= m - 1
      /\ m - 1 \in 1 .. Len(bs)
  BY <1>1, <1>4
<1>6. BLOCK_END(bs[m - 1]) = bs[m].addr
  BY <1>1, <1>5
<1>7. /\ BLOCK_END(bs[i]) \in Nat /\ bs[m - 1].addr \in Nat
      /\ BLOCK_END(bs[m - 1]) \in Nat /\ bs[m - 1].addr <= BLOCK_END(bs[m - 1])
  BY <1>1, <1>5, BlockFacts
<1>8. CASE i = m - 1
  BY <1>5, <1>6, <1>7, <1>8
<1>9. CASE i < m - 1
  <2>1. m - 1 \notin I
    BY <1>4, <1>5
  <2>2. BLOCK_END(bs[i]) <= bs[m - 1].addr
    BY <1>5, <1>9, <2>1
  <2> QED BY <1>5, <1>6, <1>7, <2>2
<1> QED BY <1>5, <1>8, <1>9

(* Every block is inside the heap, and two blocks are apart.               *)
LEMMA TilesAreApart ==
  ASSUME NEW bs, NEW start, NEW end, Tiled(bs, start, end)
  PROVE  /\ \A i \in 1 .. Len(bs) : start <= bs[i].addr /\ BLOCK_END(bs[i]) <= end
         /\ \A i, j \in 1 .. Len(bs) : i # j => bs[i].addr # bs[j].addr
         /\ \A i, j \in 1 .. Len(bs) : i # j => BLOCK_START(bs[i]) # BLOCK_START(bs[j])
         /\ \A i, j \in 1 .. Len(bs) :
              BLOCK_START(bs[i]) <= BLOCK_START(bs[j])
              /\ BLOCK_START(bs[j]) < BLOCK_END(bs[i]) => i = j
<1>1. /\ Len(bs) \in Nat \ {0} /\ \A k \in 1 .. Len(bs) : bs[k] \in Block
      /\ 1 \in 1 .. Len(bs) /\ Len(bs) \in 1 .. Len(bs)
      /\ start \in Nat /\ end \in Nat
      /\ bs[1].addr = start /\ BLOCK_END(bs[Len(bs)]) = end
  BY TiledFacts DEF Tiled
<1>2. \A k \in 1 .. Len(bs) : /\ bs[k].addr \in Nat /\ BLOCK_START(bs[k]) \in Nat
                              /\ BLOCK_END(bs[k]) \in Nat
                              /\ bs[k].addr < BLOCK_START(bs[k])
                              /\ BLOCK_START(bs[k]) <= BLOCK_END(bs[k])
                              /\ BLOCK_START(bs[k]) = bs[k].addr + HDR
  BY <1>1, BlockFacts
<1>3. \A i, j \in 1 .. Len(bs) : i < j => BLOCK_END(bs[i]) <= bs[j].addr
  BY Ascending
<1>4. ASSUME NEW i \in 1 .. Len(bs)
      PROVE  start <= bs[i].addr /\ BLOCK_END(bs[i]) <= end
  <2>1. start <= bs[i].addr
    <3>1. CASE i = 1
      BY <1>1, <1>2, <3>1
    <3>2. CASE 1 < i
      <4>1. BLOCK_END(bs[1]) <= bs[i].addr
        BY <1>1, <1>3, <3>2
      <4>2. bs[1].addr <= BLOCK_END(bs[1]) /\ bs[i].addr \in Nat
            /\ BLOCK_END(bs[1]) \in Nat
        BY <1>1, <1>2
      <4> QED BY <1>1, <4>1, <4>2
    <3> QED BY <3>1, <3>2
  <2>2. BLOCK_END(bs[i]) <= end
    <3>1. CASE i = Len(bs)
      BY <1>1, <1>2, <3>1
    <3>2. CASE i < Len(bs)
      <4>1. BLOCK_END(bs[i]) <= bs[Len(bs)].addr
        BY <1>1, <1>3, <3>2
      <4>2. bs[Len(bs)].addr <= end /\ BLOCK_END(bs[i]) \in Nat
            /\ bs[Len(bs)].addr \in Nat
        BY <1>1, <1>2
      <4> QED BY <1>1, <4>1, <4>2
    <3> QED BY <1>1, <3>1, <3>2
  <2> QED BY <2>1, <2>2
<1>5. ASSUME NEW i \in 1 .. Len(bs), NEW j \in 1 .. Len(bs), i < j
      PROVE  bs[i].addr < bs[j].addr /\ BLOCK_END(bs[i]) < BLOCK_START(bs[j])
             /\ BLOCK_START(bs[i]) < BLOCK_START(bs[j])
  <2>1. BLOCK_END(bs[i]) <= bs[j].addr
    BY <1>3, <1>5
  <2> QED BY <1>2, <2>1
<1>6. ASSUME NEW i \in 1 .. Len(bs), NEW j \in 1 .. Len(bs), i # j
      PROVE  /\ bs[i].addr # bs[j].addr
             /\ BLOCK_START(bs[i]) # BLOCK_START(bs[j])
             /\ ~(BLOCK_START(bs[i]) <= BLOCK_START(bs[j])
                  /\ BLOCK_START(bs[j]) < BLOCK_END(bs[i]))
  <2>1. /\ bs[i].addr \in Nat /\ bs[j].addr \in Nat /\ BLOCK_START(bs[i]) \in Nat
        /\ BLOCK_START(bs[j]) \in Nat /\ BLOCK_END(bs[i]) \in Nat
    BY <1>2
  <2>2. CASE i < j
    BY <1>5, <2>1, <2>2
  <2>3. CASE j < i
    BY <1>5, <2>1, <2>3
  <2>4. i < j \/ j < i
    BY <1>1, <1>6
  <2> QED BY <2>2, <2>3, <2>4
<1> QED BY <1>4, <1>6


(* The blocks of a list that is longer by one, or differs in its last one. *)
LEMMA MergedFacts ==
  ASSUME NEW a \in Block, NEW b \in Block, BLOCK_END(a) = b.addr
  PROVE  /\ Merged(a, b) \in Block /\ Merged(a, b).addr = a.addr
         /\ Merged(a, b).size_used = a.size_used
         /\ Merged(a, b).size = a.size + b.size + HDR
         /\ BLOCK_END(Merged(a, b)) = BLOCK_END(b)
         /\ BLOCK_START(Merged(a, b)) = BLOCK_START(a)
<1>1. /\ Merged(a, b) \in Block /\ Merged(a, b).addr = a.addr
      /\ Merged(a, b).size_used = a.size_used
      /\ Merged(a, b).size = a.size + b.size + HDR
  BY ConstantFacts, SMT DEF Merged, Block
<1> QED BY <1>1, BlockFacts, ConstantFacts DEF BLOCK_START, BLOCK_END

(* What a list is when it begins as bs does and has b after it.            *)
LEMMA AppendBlock ==
  ASSUME NEW bs, NEW start, NEW end, Tiled(bs, start, end),
         NEW b \in Block, b.addr = end, b.size_used <= b.size,
         NoFreePair(bs), ~(IsFree(bs[Len(bs)]) /\ IsFree(b))
  PROVE  LET r == Append(bs, b) IN
         /\ Tiled(r, start, BLOCK_END(b)) /\ NoFreePair(r)
         /\ Used(r) = Used(bs) \union (IF IsFree(b) THEN {} ELSE {b})
<1> DEFINE r == Append(bs, b)
           n == Len(bs)
<1>1. /\ n \in Nat \ {0} /\ \A k \in 1 .. n : bs[k] \in Block
      /\ bs \in Seq(Block) /\ bs[1].addr = start /\ BLOCK_END(bs[n]) = end
      /\ \A i \in 1 .. n - 1 : BLOCK_END(bs[i]) = bs[i + 1].addr
      /\ \A i \in 1 .. n : bs[i].size_used <= bs[i].size
      /\ \A i \in 1 .. n - 1 : ~(IsFree(bs[i]) /\ IsFree(bs[i + 1]))
  BY TiledFacts DEF Tiled, NoFreePair
<1>2. /\ r \in Seq(Block) /\ r # <<>> /\ Len(r) = n + 1
      /\ \A i \in 1 .. n : r[i] = bs[i]
      /\ r[n + 1] = b
  BY <1>1, AppendProperties
<1> HIDE DEF r, n
<1>3. /\ r[1].addr = start /\ BLOCK_END(r[Len(r)]) = BLOCK_END(b)
  BY <1>1, <1>2
<1>4. ASSUME NEW i \in 1 .. Len(r) - 1
      PROVE  /\ BLOCK_END(r[i]) = r[i + 1].addr
             /\ ~(IsFree(r[i]) /\ IsFree(r[i + 1]))
  <2>1. CASE i < n
    <3>1. i \in 1 .. n - 1 /\ i + 1 \in 1 .. n /\ i \in 1 .. n
      BY <1>1, <1>2, <2>1
    <3> QED BY <1>1, <1>2, <3>1
  <2>2. CASE i = n
    <3>1. r[i] = bs[n] /\ r[i + 1] = b
      BY <1>1, <1>2, <2>2
    <3> QED BY <1>1, <3>1 DEF n
  <2>3. i < n \/ i = n
    BY <1>1, <1>2
  <2> QED BY <2>1, <2>2, <2>3
<1>5. ASSUME NEW i \in 1 .. Len(r) PROVE r[i].size_used <= r[i].size
  <2>1. i \in 1 .. n \/ i = n + 1
    BY <1>1, <1>2
  <2> QED BY <1>1, <1>2, <2>1
<1>6. ASSUME NEW x
      PROVE  x \in Used(r) <=> x \in Used(bs) \/ (~IsFree(b) /\ x = b)
  <2>1. x \in Used(r) <=> \E i \in 1 .. Len(r) : ~IsFree(r[i]) /\ x = r[i]
    BY Zenon DEF Used
  <2>2. x \in Used(bs) <=> \E i \in 1 .. n : ~IsFree(bs[i]) /\ x = bs[i]
    BY Zenon DEF Used, n
  <2>3. 1 .. Len(r) = (1 .. n) \union {n + 1}
    BY <1>1, <1>2
  <2> QED BY <1>2, <2>1, <2>2, <2>3, Zenon
<1>7. Used(r) = Used(bs) \union (IF IsFree(b) THEN {} ELSE {b})
  BY <1>6
<1> QED BY <1>2, <1>3, <1>4, <1>5, <1>7 DEF Tiled, NoFreePair, r

LEMMA MergeIntoLast ==
  ASSUME NEW bs, NEW start, NEW end, Tiled(bs, start, end),
         NEW b \in Block, b.addr = end,
         NoFreePair(bs), IsFree(bs[Len(bs)]), IsFree(b)
  PROVE  LET r == Append(Front(bs), Merged(Last(bs), b)) IN
         /\ Tiled(r, start, BLOCK_END(b)) /\ NoFreePair(r)
         /\ Used(r) = Used(bs)
<1> DEFINE m == Merged(bs[Len(bs)], b)
           r == Append(Front(bs), m)
           n == Len(bs)
<1>1. /\ n \in Nat \ {0} /\ \A k \in 1 .. n : bs[k] \in Block
      /\ bs \in Seq(Block) /\ bs # <<>> /\ bs[1].addr = start /\ BLOCK_END(bs[n]) = end
      /\ \A i \in 1 .. n - 1 : BLOCK_END(bs[i]) = bs[i + 1].addr
      /\ \A i \in 1 .. n : bs[i].size_used <= bs[i].size
      /\ \A i \in 1 .. n - 1 : ~(IsFree(bs[i]) /\ IsFree(bs[i + 1]))
  BY TiledFacts DEF Tiled, NoFreePair
<1>2. bs[n] \in Block /\ bs[Len(bs)] \in Block
  BY <1>1
<1>3. /\ m \in Block /\ m.addr = bs[n].addr /\ m.size_used = 0 /\ m.size \in Nat
      /\ BLOCK_END(m) = BLOCK_END(b) /\ IsFree(m)
  BY <1>1, <1>2, MergedFacts, BlockFacts DEF IsFree
<1>4. Append(Front(bs), Merged(Last(bs), b)) = r
  BY DEF Last
<1> HIDE DEF m
<1>5. /\ r \in Seq(Block) /\ Len(r) = n
      /\ \A i \in 1 .. n : r[i] = IF i < n THEN bs[i] ELSE m
  BY <1>1, <1>3, ReplaceLastFacts
<1> HIDE DEF r, n
<1>6. r # <<>>
  BY <1>1, <1>5
<1>7. \A i \in 1 .. n : /\ r[i].addr = bs[i].addr /\ (IsFree(r[i]) <=> IsFree(bs[i]))
                        /\ r[i].size_used <= r[i].size /\ (i < n => r[i] = bs[i])
  BY <1>1, <1>3, <1>5 DEF n
<1>8. r[1].addr = start /\ BLOCK_END(r[Len(r)]) = BLOCK_END(b)
  BY <1>1, <1>3, <1>5, <1>7
<1>9. ASSUME NEW i \in 1 .. Len(r) - 1
      PROVE  /\ BLOCK_END(r[i]) = r[i + 1].addr
             /\ ~(IsFree(r[i]) /\ IsFree(r[i + 1]))
  <2>1. i \in 1 .. n - 1 /\ i \in 1 .. n /\ i + 1 \in 1 .. n /\ i < n
    BY <1>1, <1>5
  <2> QED BY <1>1, <1>7, <2>1
<1>10. ASSUME NEW x PROVE x \in Used(r) <=> x \in Used(bs)
  <2>1. x \in Used(r) <=> \E i \in 1 .. n : ~IsFree(r[i]) /\ x = r[i]
    BY <1>5, Zenon DEF Used
  <2>2. x \in Used(bs) <=> \E i \in 1 .. n : ~IsFree(bs[i]) /\ x = bs[i]
    BY Zenon DEF Used, n
  <2>3. \A i \in 1 .. n : ~IsFree(bs[i]) => i < n
    BY <1>1 DEF n
  <2> QED BY <1>7, <2>1, <2>2, <2>3, Zenon
<1>11. Used(r) = Used(bs)
  BY <1>10
<1> QED BY <1>4, <1>5, <1>6, <1>7, <1>8, <1>9, <1>11 DEF Tiled, NoFreePair

(* merge_free_pair keeps the tiles and the used blocks.                    *)
LEMMA MergeLastFacts ==
  ASSUME NEW bs, NEW start, NEW end, Tiled(bs, start, end),
         NEW b \in Block, b.addr = end, b.size_used <= b.size, NoFreePair(bs)
  PROVE  /\ Tiled(MergeLast(bs, b), start, BLOCK_END(b))
         /\ NoFreePair(MergeLast(bs, b))
         /\ Used(MergeLast(bs, b)) =
              Used(bs) \union (IF IsFree(b) THEN {} ELSE {b})
<1>1. bs # <<>> /\ Last(bs) = bs[Len(bs)]
  BY DEF Tiled, Last
<1>2. CASE IsFree(bs[Len(bs)]) /\ IsFree(b)
  <2>1. MergeLast(bs, b) = Append(Front(bs), Merged(Last(bs), b))
    BY <1>1, <1>2 DEF MergeLast
  <2> QED BY <1>2, <2>1, MergeIntoLast
<1>3. CASE ~(IsFree(bs[Len(bs)]) /\ IsFree(b))
  <2>1. MergeLast(bs, b) = Append(bs, b)
    BY <1>1, <1>3 DEF MergeLast
  <2> QED BY <1>3, <2>1, AppendBlock
<1> QED BY <1>2, <1>3


-----------------------------------------------------------------------------
(* garbage_collect.                                                        *)

(* g[k] is the list that the pass has made of the first k blocks of bs.    *)
IsPass(g, bs, n) ==
  g = [k \in 0 .. n |-> IF k = 0 THEN <<>> ELSE MergeLast(g[k - 1], bs[k])]

LEMMA PassExists ==
  ASSUME NEW bs, NEW n \in Nat
  PROVE  \E g : IsPass(g, bs, n)
<1> DEFINE I == {k \in Nat : ~\E g : IsPass(g, bs, k)}
<1>1. SUFFICES ASSUME I # {} PROVE FALSE
  BY Zenon
<1>2. PICK m \in I : \A k \in I : m <= k
  <2>1. I \in SUBSET Nat
    BY Zenon
  <2> HIDE DEF I
  <2> QED BY <1>1, <2>1, Least
<1>3. m \in Nat /\ ~\E g : IsPass(g, bs, m)
  BY <1>2, Zenon
<1>4. CASE m = 0
  <2> DEFINE h == [k \in 0 .. 0 |-> <<>>]
  <2>1. h = [k \in 0 .. 0 |-> IF k = 0 THEN <<>> ELSE MergeLast(h[k - 1], bs[k])]
    OBVIOUS
  <2>2. IsPass(h, bs, m)
    BY <1>4, <2>1 DEF IsPass
  <2> QED BY <1>3, <2>2
<1>5. CASE m # 0
  <2>1. m - 1 \in Nat /\ ~(m <= m - 1)
    BY <1>3, <1>5
  <2>2. m - 1 \notin I
    BY <1>2, <2>1
  <2>3. PICK g : IsPass(g, bs, m - 1)
    BY <2>1, <2>2, Zenon
  <2> DEFINE h == [k \in 0 .. m |-> IF k = m THEN MergeLast(g[m - 1], bs[m]) ELSE g[k]]
             r == [k \in 0 .. m |-> IF k = 0 THEN <<>> ELSE MergeLast(h[k - 1], bs[k])]
  <2>4. \A k \in 0 .. m - 1 : g[k] = IF k = 0 THEN <<>> ELSE MergeLast(g[k - 1], bs[k])
    BY <2>3 DEF IsPass
  <2>5. ASSUME NEW k \in 0 .. m PROVE h[k] = r[k]
    <3>1. CASE k = m
      <4>1. h[k - 1] = g[m - 1] /\ h[k] = MergeLast(g[m - 1], bs[m])
        BY <1>3, <1>5, <3>1
      <4> QED BY <1>5, <3>1, <4>1
    <3>2. CASE k = 0
      BY <1>5, <2>1, <2>4, <3>2
    <3>3. CASE k \in 1 .. m - 1
      <4>1. /\ k \in 0 .. m - 1 /\ k # m /\ k # 0 /\ k - 1 \in 0 .. m
            /\ k - 1 # m
        BY <1>3, <3>3
      <4>2. h[k] = g[k] /\ h[k - 1] = g[k - 1]
        BY <4>1
      <4> QED BY <2>4, <4>1, <4>2
    <3> QED BY <1>3, <3>1, <3>2, <3>3
  <2>6. h = r
    BY <2>5
  <2>7. IsPass(h, bs, m)
    BY <2>6 DEF IsPass
  <2> QED BY <1>3, <2>7
<1> QED BY <1>4, <1>5

LEMMA GarbageCollectIsPass ==
  ASSUME NEW bs, Len(bs) \in Nat
  PROVE  \E g : /\ garbage_collect(bs) = g[Len(bs)]
                /\ g[0] = <<>>
                /\ \A k \in 1 .. Len(bs) : g[k] = MergeLast(g[k - 1], bs[k])
<1> DEFINE g == CHOOSE g : IsPass(g, bs, Len(bs))
<1>1. garbage_collect(bs) = g[Len(bs)]
  BY Zenon DEF garbage_collect, IsPass
<1>2. IsPass(g, bs, Len(bs))
  BY PassExists, Zenon
<1> HIDE DEF g
<1>3. \A k \in 0 .. Len(bs) : g[k] = IF k = 0 THEN <<>> ELSE MergeLast(g[k - 1], bs[k])
  BY <1>2 DEF IsPass
<1>4. g[0] = <<>> /\ \A k \in 1 .. Len(bs) : g[k] = MergeLast(g[k - 1], bs[k])
  BY <1>3
<1> QED BY <1>1, <1>4


(* The first k blocks of bs became the list l: the same stretch of the     *)
(* heap and the same used blocks, without free neighbours.                 *)
Collected(l, bs, k) ==
  /\ Tiled(l, bs[1].addr, BLOCK_END(bs[k])) /\ NoFreePair(l)
  /\ Used(l) = {bs[i] : i \in {j \in 1 .. k : ~IsFree(bs[j])}}

(* One free block or one used block is a list without free neighbours.     *)
LEMMA SingleBlock ==
  ASSUME NEW b \in Block, b.size_used <= b.size
  PROVE  /\ Tiled(<<b>>, b.addr, BLOCK_END(b)) /\ NoFreePair(<<b>>)
         /\ Used(<<b>>) = IF IsFree(b) THEN {} ELSE {b}
<1>1. <<b>> \in Seq(Block) /\ Len(<<b>>) = 1 /\ <<b>>[1] = b /\ <<b>> # <<>>
  OBVIOUS
<1> DEFINE l == <<b>>
<1> HIDE DEF l
<1>2. l \in Seq(Block) /\ Len(l) = 1 /\ l[1] = b /\ l # <<>>
  BY <1>1 DEF l
<1>3. Tiled(l, b.addr, BLOCK_END(b)) /\ NoFreePair(l)
  BY <1>2 DEF Tiled, NoFreePair
<1>4. Used(l) = IF IsFree(b) THEN {} ELSE {b}
  <2>1. \A i \in 1 .. Len(l) : i = 1
    BY <1>2
  <2>2. 1 \in 1 .. Len(l)
    BY <1>2
  <2>3. ASSUME NEW x PROVE x \in Used(l) <=> ~IsFree(b) /\ x = b
    BY <1>2, <2>1, <2>2, Zenon DEF Used
  <2> QED BY <2>3
<1> QED BY <1>3, <1>4 DEF l

(* A list that tiles the heap is collected into one that does, with the    *)
(* same used blocks and no two free neighbours.                            *)
LEMMA GarbageCollectFacts ==
  ASSUME NEW bs, NEW start, NEW end, Tiled(bs, start, end)
  PROVE  /\ Tiled(garbage_collect(bs), start, end)
         /\ NoFreePair(garbage_collect(bs))
         /\ Used(garbage_collect(bs)) = Used(bs)
<1> DEFINE n == Len(bs)
<1>1. /\ n \in Nat \ {0} /\ \A k \in 1 .. n : bs[k] \in Block
      /\ bs[1].addr = start /\ BLOCK_END(bs[n]) = end
      /\ \A i \in 1 .. n - 1 : BLOCK_END(bs[i]) = bs[i + 1].addr
      /\ \A i \in 1 .. n : bs[i].size_used <= bs[i].size
  BY TiledFacts DEF Tiled
<1>2. PICK g : /\ garbage_collect(bs) = g[n]
               /\ g[0] = <<>>
               /\ \A k \in 1 .. n : g[k] = MergeLast(g[k - 1], bs[k])
  BY <1>1, GarbageCollectIsPass
<1> DEFINE I == {k \in 1 .. n : ~Collected(g[k], bs, k)}
<1>3. ASSUME NEW m \in I, \A k \in I : m <= k PROVE FALSE
  <2>1. m \in 1 .. n /\ ~Collected(g[m], bs, m) /\ bs[m] \in Block
        /\ bs[m].size_used <= bs[m].size
    BY <1>1
  <2> DEFINE b == bs[m]
             before == {bs[i] : i \in {j \in 1 .. m - 1 : ~IsFree(bs[j])}}
             upto == {bs[i] : i \in {j \in 1 .. m : ~IsFree(bs[j])}}
  <2>2. upto = before \union (IF IsFree(b) THEN {} ELSE {b})
    <3>1. 1 .. m = (1 .. m - 1) \union {m}
      BY <1>1, <2>1
    <3>2. ASSUME NEW x
          PROVE  x \in upto <=> x \in before \/ (~IsFree(b) /\ x = b)
      <4>1. x \in upto <=> \E i \in 1 .. m : ~IsFree(bs[i]) /\ x = bs[i]
        BY Zenon
      <4>2. x \in before <=> \E i \in 1 .. m - 1 : ~IsFree(bs[i]) /\ x = bs[i]
        BY Zenon
      <4> HIDE DEF upto, before
      <4> QED BY <3>1, <4>1, <4>2, Zenon
    <3> HIDE DEF upto, before, b
    <3> QED BY <3>2
  <2> HIDE DEF upto, before
  <2>3. CASE m = 1
    <3>1. g[m] = <<b>>
      <4>1. g[m] = MergeLast(g[m - 1], bs[m]) /\ m - 1 = 0
        BY <1>2, <2>1, <2>3
      <4>2. g[m] = MergeLast(<<>>, b)
        BY <1>2, <4>1
      <4>3. MergeLast(<<>>, b) = Append(<<>>, b)
        BY DEF MergeLast
      <4> QED BY <4>2, <4>3
    <3>2. before = {}
      BY <2>3 DEF before
    <3>3. /\ Tiled(g[m], bs[1].addr, BLOCK_END(b)) /\ NoFreePair(g[m])
          /\ Used(g[m]) = IF IsFree(b) THEN {} ELSE {b}
      BY <2>1, <2>3, <3>1, SingleBlock
    <3>4. Used(g[m]) = upto
      BY <2>2, <3>2, <3>3
    <3> QED BY <2>1, <3>3, <3>4 DEF Collected, upto
  <2>4. CASE m # 1
    <3>1. m - 1 \in 1 .. n /\ m - 1 \in 1 .. n - 1 /\ ~(m <= m - 1) /\ m - 1 + 1 = m
      BY <1>1, <2>1, <2>4
    <3>2. Collected(g[m - 1], bs, m - 1)
      BY <1>3, <3>1
    <3>3. /\ Tiled(g[m - 1], bs[1].addr, BLOCK_END(bs[m - 1])) /\ NoFreePair(g[m - 1])
          /\ Used(g[m - 1]) = before
      BY <3>2 DEF Collected, before
    <3>4. b.addr = BLOCK_END(bs[m - 1])
      BY <1>1, <3>1
    <3>5. g[m] = MergeLast(g[m - 1], b)
      BY <1>2, <2>1
    <3>6. /\ Tiled(g[m], bs[1].addr, BLOCK_END(b)) /\ NoFreePair(g[m])
          /\ Used(g[m]) = before \union (IF IsFree(b) THEN {} ELSE {b})
      BY <2>1, <3>3, <3>4, <3>5, MergeLastFacts
    <3> QED BY <2>1, <2>2, <3>6 DEF Collected, upto
  <2> QED BY <2>3, <2>4
<1>4. I = {}
  <2>1. I \in SUBSET Nat
    BY <1>1
  <2> HIDE DEF I
  <2> QED BY <1>3, <2>1, Least
<1>5. n \in 1 .. n
  BY <1>1
<1>6. Collected(g[n], bs, n)
  BY <1>4, <1>5
<1> QED BY <1>1, <1>2, <1>6 DEF Collected, Used


-----------------------------------------------------------------------------
(* Taking, resizing and releasing a block.                                 *)

LEMMA UsedIs ==
  ASSUME NEW bs, NEW x
  PROVE  x \in Used(bs) <=> \E i \in 1 .. Len(bs) : ~IsFree(bs[i]) /\ x = bs[i]
BY Zenon DEF Used

(* The number of bytes that a block, or block i of a list, uses is u.      *)
UsesNow(b, u) == [b EXCEPT !.size_used = u]
UsedAt(bs, i, u) == [bs EXCEPT ![i].size_used = u]

LEMMA SetUsed ==
  ASSUME NEW bs, NEW start, NEW end, Tiled(bs, start, end),
         NEW i \in 1 .. Len(bs), NEW u \in Nat, u <= bs[i].size
  PROVE  LET r == UsedAt(bs, i, u)
             b == UsesNow(bs[i], u)
         IN  /\ Tiled(r, start, end) /\ Len(r) = Len(bs) /\ r[i] = b
             /\ Used(r) = (Used(bs) \ {bs[i]}) \union (IF u = 0 THEN {} ELSE {b})
             /\ u # 0 /\ NoFreePair(bs) => NoFreePair(r)
             /\ b \in Block /\ b.addr = bs[i].addr /\ b.size = bs[i].size
             /\ b.size_used = u
<1> DEFINE r == [bs EXCEPT ![i].size_used = u]
           b == [bs[i] EXCEPT !.size_used = u]
           n == Len(bs)
<1>1. /\ n \in Nat \ {0} /\ \A k \in 1 .. n : bs[k] \in Block
      /\ bs \in Seq(Block) /\ bs # <<>> /\ bs[1].addr = start /\ BLOCK_END(bs[n]) = end
      /\ \A j \in 1 .. n - 1 : BLOCK_END(bs[j]) = bs[j + 1].addr
      /\ \A j \in 1 .. n : bs[j].size_used <= bs[j].size
  BY TiledFacts DEF Tiled
<1>2. bs[i] \in Block
  BY <1>1
<1>3. /\ b \in Block /\ b.addr = bs[i].addr /\ b.size = bs[i].size
      /\ b.size_used = u
  BY <1>2, SMT DEF Block
<1>4. BLOCK_END(b) = BLOCK_END(bs[i]) /\ (IsFree(b) <=> u = 0)
  BY <1>3 DEF BLOCK_END, BLOCK_START, IsFree
<1>5. r = [bs EXCEPT ![i] = b]
  BY <1>1
<1> HIDE DEF b, r
<1>6. /\ r \in Seq(Block) /\ Len(r) = n
      /\ \A j \in 1 .. n : r[j] = IF j = i THEN b ELSE bs[j]
  BY <1>1, <1>3, <1>5
<1> HIDE DEF n
<1>7. r # <<>>
  BY <1>1, <1>6
<1>8. \A j \in 1 .. n : /\ r[j].addr = bs[j].addr /\ BLOCK_END(r[j]) = BLOCK_END(bs[j])
                        /\ r[j].size_used <= r[j].size
  BY <1>1, <1>3, <1>4, <1>6
<1>9. Tiled(r, start, end)
  <2>1. 1 \in 1 .. n /\ n \in 1 .. n
    BY <1>1
  <2>2. r[1].addr = start /\ BLOCK_END(r[n]) = end
    BY <1>1, <1>8, <2>1
  <2>3. ASSUME NEW j \in 1 .. n - 1 PROVE BLOCK_END(r[j]) = r[j + 1].addr
    <3>1. j \in 1 .. n /\ j + 1 \in 1 .. n
      BY <1>1
    <3> QED BY <1>1, <1>8, <3>1
  <2> QED BY <1>6, <1>7, <1>8, <2>2, <2>3 DEF Tiled
<1>10. Used(r) = (Used(bs) \ {bs[i]}) \union (IF u = 0 THEN {} ELSE {b})
  <2>1. \A j \in 1 .. n : j # i => bs[j] # bs[i]
    BY TilesAreApart DEF n
  <2>2. ASSUME NEW x
        PROVE  x \in Used(r) <=> \/ x \in Used(bs) /\ x # bs[i]
                                 \/ u # 0 /\ x = b
    <3>1. x \in Used(r) <=> \E j \in 1 .. n : ~IsFree(r[j]) /\ x = r[j]
      BY <1>6, UsedIs
    <3>2. x \in Used(bs) <=> \E j \in 1 .. n : ~IsFree(bs[j]) /\ x = bs[j]
      BY UsedIs DEF n
    <3>3. i \in 1 .. n /\ r[i] = b /\ \A j \in 1 .. n : j # i => r[j] = bs[j]
      BY <1>6 DEF n
    <3>4. ASSUME x \in Used(r)
          PROVE  (x \in Used(bs) /\ x # bs[i]) \/ (u # 0 /\ x = b)
      <4>1. PICK j \in 1 .. n : ~IsFree(r[j]) /\ x = r[j]
        BY <3>1, <3>4
      <4>2. CASE j = i
        BY <1>4, <3>3, <4>1, <4>2
      <4>3. CASE j # i
        BY <2>1, <3>2, <3>3, <4>1, <4>3
      <4> QED BY <4>2, <4>3
    <3>5. ASSUME x \in Used(bs) /\ x # bs[i] PROVE x \in Used(r)
      BY <3>1, <3>2, <3>3, <3>5, Zenon
    <3>6. ASSUME u # 0 /\ x = b PROVE x \in Used(r)
      BY <1>4, <3>1, <3>3, <3>6, Zenon
    <3> QED BY <3>4, <3>5, <3>6, Zenon
  <2> QED BY <2>2
<1>11. ASSUME u # 0, NoFreePair(bs) PROVE NoFreePair(r)
  <2>1. ASSUME NEW j \in 1 .. n - 1 PROVE ~(IsFree(r[j]) /\ IsFree(r[j + 1]))
    <3>1. j \in 1 .. n /\ j + 1 \in 1 .. n
      BY <1>1
    <3>2. ~(IsFree(bs[j]) /\ IsFree(bs[j + 1]))
      BY <1>11 DEF NoFreePair, n
    <3> QED BY <1>4, <1>6, <1>11, <3>1, <3>2
  <2> QED BY <1>6, <2>1 DEF NoFreePair
<1>12. r[i] = b
  BY <1>6 DEF n
<1> QED BY <1>3, <1>6, <1>9, <1>10, <1>11, <1>12 DEF r, b, n, UsedAt, UsesNow


LEMMA FreeBlockFacts ==
  ASSUME NEW a \in Nat, NEW s \in Nat
  PROVE  /\ FreeBlock(a, s) \in Block /\ FreeBlock(a, s).addr = a
         /\ FreeBlock(a, s).size = s /\ FreeBlock(a, s).size_used = 0
         /\ IsFree(FreeBlock(a, s)) /\ BLOCK_END(FreeBlock(a, s)) = a + HDR + s
BY ConstantFacts DEF FreeBlock, Block, IsFree, BLOCK_END, BLOCK_START

LEMMA ResizedFacts ==
  ASSUME NEW b \in Block, NEW v \in Nat
  PROVE  /\ [b EXCEPT !.size = v] \in Block
         /\ [[b EXCEPT !.size = v] EXCEPT !.size_used = v]
              = [addr |-> b.addr, size |-> v, size_used |-> v]
<1>1. PICK a \in Nat, s \in Nat, u \in Nat : b = [addr |-> a, size |-> s, size_used |-> u]
  BY DEF Block
<1>2. [b EXCEPT !.size = v] = [addr |-> a, size |-> v, size_used |-> u]
  BY <1>1
<1>3. [addr |-> a, size |-> v, size_used |-> u] \in Block
  BY DEF Block
<1>4. [[addr |-> a, size |-> v, size_used |-> u] EXCEPT !.size_used = v]
        = [addr |-> a, size |-> v, size_used |-> v]
  OBVIOUS
<1> DEFINE c == [b EXCEPT !.size = v]
<1> HIDE DEF c
<1>5. c = [addr |-> a, size |-> v, size_used |-> u] /\ b.addr = a
  BY <1>1, <1>2 DEF c
<1>6. c \in Block /\ [c EXCEPT !.size_used = v] = [addr |-> b.addr, size |-> v, size_used |-> v]
  BY <1>3, <1>4, <1>5
<1> QED BY <1>6 DEF c

(* What malloc makes of a free block that is large enough to be split: the *)
(* block it takes, the rest, and the others as they are.                   *)
LEMMA SplitShape ==
  ASSUME NEW bs \in Seq(Block), NEW i \in 1 .. Len(bs), NEW len \in Nat,
         len + MINBLOCK <= bs[i].size
  PROVE  LET r == TakeBlock(bs, i, len)
             b == [addr |-> bs[i].addr, size |-> len, size_used |-> len]
             f == FreeBlock(bs[i].addr + HDR + len, bs[i].size - len - HDR)
         IN  /\ r \in Seq(Block) /\ Len(r) = Len(bs) + 1
             /\ \A j \in 1 .. Len(bs) + 1 :
                  r[j] = IF j < i THEN bs[j] ELSE IF j = i THEN b
                         ELSE IF j = i + 1 THEN f ELSE bs[j - 1]
             /\ b \in Block /\ f \in Block
             /\ BLOCK_END(b) = f.addr /\ BLOCK_END(f) = BLOCK_END(bs[i])
             /\ ~IsFree(b) <=> len # 0
             /\ IsFree(f) /\ f.size_used <= f.size
<1> DEFINE b == [addr |-> bs[i].addr, size |-> len, size_used |-> len]
           f == FreeBlock(bs[i].addr + HDR + len, bs[i].size - len - HDR)
           c == [bs[i] EXCEPT !.size = len]
           s == [bs EXCEPT ![i].size = len]
           t == InsertAt(s, i + 1, f)
           r == [t EXCEPT ![i].size_used = len]
<1>1. /\ bs[i] \in Block /\ bs[i].addr \in Nat /\ bs[i].size \in Nat
      /\ HDR \in Nat \ {0} /\ MINBLOCK = 2 * HDR /\ Len(bs) \in Nat
      /\ BLOCK_END(bs[i]) = bs[i].addr + HDR + bs[i].size
  <2>1. bs[i] \in Block
    OBVIOUS
  <2>2. /\ bs[i].addr \in Nat /\ bs[i].size \in Nat
        /\ BLOCK_END(bs[i]) = bs[i].addr + HDR + bs[i].size
    BY <2>1, BlockFacts
  <2> QED BY <2>1, <2>2, ConstantFacts DEF MINBLOCK
<1>2. TakeBlock(bs, i, len) = r
  <2>1. ~(bs[i].size < len + MINBLOCK)
    BY <1>1
  <2> QED BY <2>1 DEF TakeBlock, split_free_block
<1>3. bs[i].addr + HDR + len \in Nat /\ bs[i].size - len - HDR \in Nat
  BY <1>1
<1>4. /\ f \in Block /\ f.addr = bs[i].addr + HDR + len
      /\ f.size = bs[i].size - len - HDR /\ f.size_used = 0 /\ IsFree(f)
      /\ BLOCK_END(f) = f.addr + HDR + f.size
  BY <1>3, FreeBlockFacts
<1>5. b \in Block /\ BLOCK_END(b) = bs[i].addr + HDR + len /\ (~IsFree(b) <=> len # 0)
  BY <1>1 DEF Block, BLOCK_END, BLOCK_START, IsFree
<1>6. c \in Block /\ [c EXCEPT !.size_used = len] = b
  BY <1>1, ResizedFacts
<1>7. s = [bs EXCEPT ![i] = c]
  OBVIOUS
<1>8. /\ BLOCK_END(f) = BLOCK_END(bs[i]) /\ BLOCK_END(b) = f.addr
      /\ f.size_used <= f.size
  <2> HIDE DEF b, f
  <2>1. BLOCK_END(f) = bs[i].addr + HDR + len + HDR + (bs[i].size - len - HDR)
    BY <1>4
  <2>2. BLOCK_END(f) = BLOCK_END(bs[i])
    BY <1>1, <2>1, SMTT(30)
  <2> QED BY <1>3, <1>4, <1>5, <2>2
<1> HIDE DEF b, f, c, s
<1>9. /\ s \in Seq(Block) /\ Len(s) = Len(bs)
      /\ \A j \in 1 .. Len(bs) : s[j] = IF j = i THEN c ELSE bs[j]
  BY <1>6, <1>7
<1>10. i + 1 \in 1 .. Len(s) + 1
  BY <1>1, <1>9
<1>11. /\ t \in Seq(Block) /\ Len(t) = Len(s) + 1
       /\ \A j \in 1 .. Len(s) + 1 :
            t[j] = IF j < i + 1 THEN s[j] ELSE IF j = i + 1 THEN f ELSE s[j - 1]
  <2> DEFINE k == i + 1
  <2>1. k \in 1 .. Len(s) + 1 /\ f \in Block /\ s \in Seq(Block)
    BY <1>4, <1>9, <1>10
  <2> HIDE DEF k
  <2>2. /\ InsertAt(s, k, f) \in Seq(Block) /\ Len(InsertAt(s, k, f)) = Len(s) + 1
        /\ \A j \in 1 .. Len(s) + 1 :
             InsertAt(s, k, f)[j] = IF j < k THEN s[j]
                                    ELSE IF j = k THEN f ELSE s[j - 1]
    BY <2>1, InsertAtFacts
  <2> QED BY <2>2 DEF k
<1> HIDE DEF t
<1>12. i \in 1 .. Len(t) /\ t[i] = c
  BY <1>1, <1>9, <1>11
<1>13. r = [t EXCEPT ![i] = b]
  BY <1>6, <1>11, <1>12
<1> HIDE DEF r
<1>14. /\ r \in Seq(Block) /\ Len(r) = Len(bs) + 1
       /\ \A j \in 1 .. Len(bs) + 1 : r[j] = IF j = i THEN b ELSE t[j]
  BY <1>5, <1>9, <1>11, <1>12, <1>13
<1>15. ASSUME NEW j \in 1 .. Len(bs) + 1
       PROVE  r[j] = IF j < i THEN bs[j] ELSE IF j = i THEN b
                     ELSE IF j = i + 1 THEN f ELSE bs[j - 1]
  <2>1. CASE j < i
    <3>1. j \in 1 .. Len(bs) /\ j # i /\ j < i + 1
      BY <1>1, <2>1
    <3>2. t[j] = s[j]
      BY <1>9, <1>11, <3>1
    <3>3. r[j] = bs[j]
      BY <1>9, <1>14, <3>1, <3>2
    <3> QED BY <2>1, <3>3
  <2>2. CASE j = i
    BY <1>14, <2>2
  <2>3. CASE j = i + 1
    <3>1. ~(j < i) /\ j # i /\ ~(j < i + 1)
      BY <1>1, <2>3
    <3> QED BY <1>9, <1>11, <1>14, <2>3, <3>1
  <2>4. CASE j > i + 1
    <3>1. /\ ~(j < i) /\ j # i /\ ~(j < i + 1) /\ j # i + 1
          /\ j - 1 \in 1 .. Len(bs) /\ j - 1 # i
      BY <1>1, <2>4
    <3> QED BY <1>9, <1>11, <1>14, <3>1
  <2>5. j < i \/ j = i \/ j = i + 1 \/ j > i + 1
    BY <1>1
  <2> QED BY <2>1, <2>2, <2>3, <2>4, <2>5
<1> QED BY <1>2, <1>4, <1>5, <1>8, <1>14, <1>15 DEF b, f

(* malloc takes free block i for len bytes.                                *)
LEMMA TakeBlockFacts ==
  ASSUME NEW bs, NEW start, NEW end, Tiled(bs, start, end), NoFreePair(bs),
         NEW i \in 1 .. Len(bs), IsFree(bs[i]), NEW len \in Nat \ {0},
         len <= bs[i].size
  PROVE  LET r == TakeBlock(bs, i, len) IN
         /\ Tiled(r, start, end) /\ NoFreePair(r)
         /\ \E b \in Block : /\ b.addr = bs[i].addr /\ b.size_used = len
                             /\ len <= b.size /\ Used(r) = Used(bs) \union {b}
<1> DEFINE n == Len(bs)
           r == TakeBlock(bs, i, len)
<1>1. /\ n \in Nat \ {0} /\ \A k \in 1 .. n : bs[k] \in Block
      /\ bs \in Seq(Block) /\ bs # <<>> /\ bs[1].addr = start /\ BLOCK_END(bs[n]) = end
      /\ \A j \in 1 .. n - 1 : BLOCK_END(bs[j]) = bs[j + 1].addr
      /\ \A j \in 1 .. n : bs[j].size_used <= bs[j].size
      /\ \A j \in 1 .. n - 1 : ~(IsFree(bs[j]) /\ IsFree(bs[j + 1]))
  BY TiledFacts DEF Tiled, NoFreePair
<1>2. bs[i] \notin Used(bs)
  <2>1. \A j \in 1 .. n : j # i => bs[j] # bs[i]
    BY TilesAreApart
  <2> QED BY UsedIs, <2>1
<1>3. CASE bs[i].size < len + MINBLOCK
  <2> DEFINE b == UsesNow(bs[i], len)
  <2>1. r = UsedAt(bs, i, len)
    BY <1>3 DEF TakeBlock, split_free_block, UsedAt
  <2>2. /\ Tiled(r, start, end) /\ NoFreePair(r)
        /\ Used(r) = (Used(bs) \ {bs[i]}) \union {b}
        /\ b \in Block /\ b.addr = bs[i].addr /\ b.size = bs[i].size
        /\ b.size_used = len
    <3> DEFINE s == UsedAt(bs, i, len)
    <3>1. len \in Nat /\ len # 0
      OBVIOUS
    <3>2. /\ Tiled(s, start, end)
          /\ Used(s) = (Used(bs) \ {bs[i]}) \union (IF len = 0 THEN {} ELSE {b})
          /\ len # 0 /\ NoFreePair(bs) => NoFreePair(s)
          /\ b \in Block /\ b.addr = bs[i].addr /\ b.size = bs[i].size
          /\ b.size_used = len
      BY <3>1, SetUsed
    <3> HIDE DEF b, s
    <3> QED BY <2>1, <3>1, <3>2 DEF s
  <2> HIDE DEF b, r
  <2>3. Used(r) = Used(bs) \union {b}
    BY <1>2, <2>2
  <2> QED BY <2>2, <2>3 DEF r
<1>4. CASE ~(bs[i].size < len + MINBLOCK)
  <2> DEFINE b == [addr |-> bs[i].addr, size |-> len, size_used |-> len]
             f == FreeBlock(bs[i].addr + HDR + len, bs[i].size - len - HDR)
  <2>0. len + MINBLOCK <= bs[i].size
    <3>1. bs[i] \in Block
      BY <1>1
    <3>2. bs[i].size \in Nat /\ MINBLOCK \in Nat
      BY <3>1, BlockFacts, ConstantFacts DEF MINBLOCK
    <3> QED BY <1>4, <3>2
  <2>1. /\ r \in Seq(Block) /\ Len(r) = n + 1
        /\ \A j \in 1 .. n + 1 :
             r[j] = IF j < i THEN bs[j] ELSE IF j = i THEN b
                    ELSE IF j = i + 1 THEN f ELSE bs[j - 1]
        /\ b \in Block /\ f \in Block
        /\ BLOCK_END(b) = f.addr /\ BLOCK_END(f) = BLOCK_END(bs[i])
        /\ ~IsFree(b) /\ IsFree(f) /\ f.size_used <= f.size
    BY <1>1, <2>0, SplitShape
  <2>2. b.addr = bs[i].addr /\ b.size = len /\ b.size_used = len
    OBVIOUS
  <2>3. i \in 1 .. n /\ i \in Nat
    OBVIOUS
  <2> HIDE DEF b, f, r, n
  <2>4. r # <<>>
    BY <1>1, <2>1
  <2>5. r[1].addr = start /\ BLOCK_END(r[Len(r)]) = end
    <3>1. r[1].addr = bs[1].addr
      <4>1. CASE i = 1
        BY <1>1, <2>1, <2>2, <4>1
      <4>2. CASE 1 < i
        BY <1>1, <2>1, <4>2
      <4> QED BY <2>3, <4>1, <4>2
    <3>2. BLOCK_END(r[n + 1]) = BLOCK_END(bs[n])
      <4>1. CASE i = n
        <5>1. n + 1 \in 1 .. n + 1 /\ ~(n + 1 < i) /\ n + 1 # i /\ n + 1 = i + 1
          BY <1>1, <4>1
        <5> QED BY <2>1, <4>1, <5>1
      <4>2. CASE i < n
        <5> DEFINE k == n + 1
        <5>1. /\ k \in 1 .. n + 1 /\ ~(k < i) /\ k # i /\ k # i + 1 /\ k - 1 = n
          BY <1>1, <2>3, <4>2
        <5> HIDE DEF k
        <5>2. r[k] = bs[n]
          BY <2>1, <5>1
        <5>3. r[n + 1] = bs[n]
          BY <5>2 DEF k
        <5> QED BY <5>3
      <4> QED BY <1>1, <2>3, <4>1, <4>2
    <3> QED BY <1>1, <2>1, <3>1, <3>2
  <2>6. ASSUME NEW j \in 1 .. Len(r) - 1
        PROVE  /\ BLOCK_END(r[j]) = r[j + 1].addr
               /\ ~(IsFree(r[j]) /\ IsFree(r[j + 1]))
    <3>0. j \in 1 .. n /\ j \in 1 .. n + 1 /\ j + 1 \in 1 .. n + 1 /\ j \in Nat
      BY <1>1, <2>1
    <3>1. CASE j + 1 < i
      <4>1. j < i /\ j \in 1 .. n - 1
        BY <1>1, <2>3, <3>0, <3>1
      <4>2. r[j] = bs[j] /\ r[j + 1] = bs[j + 1]
        BY <2>1, <3>0, <3>1, <4>1
      <4> QED BY <1>1, <4>1, <4>2
    <3>2. CASE j + 1 = i
      <4>1. j < i /\ j \in 1 .. n - 1 /\ ~(j + 1 < i)
        BY <1>1, <2>3, <3>0, <3>2
      <4>2. r[j] = bs[j] /\ r[j + 1] = b /\ bs[j + 1] = bs[i]
        BY <2>1, <3>0, <3>2, <4>1
      <4> QED BY <1>1, <2>1, <2>2, <4>1, <4>2
    <3>3. CASE j = i
      <4>1. ~(j < i) /\ ~(j + 1 < i) /\ j + 1 # i /\ j + 1 = i + 1
        BY <2>3, <3>3
      <4>2. r[j] = b /\ r[j + 1] = f
        BY <2>1, <3>0, <3>3, <4>1
      <4> QED BY <2>1, <4>2
    <3>4. CASE j = i + 1
      <4>1. /\ ~(j < i) /\ j # i /\ ~(j + 1 < i) /\ j + 1 # i /\ j + 1 # i + 1
            /\ j + 1 - 1 = i + 1 /\ i \in 1 .. n - 1
        BY <1>1, <2>3, <3>0, <3>4
      <4>2. r[j] = f /\ r[j + 1] = bs[i + 1]
        BY <2>1, <3>0, <3>4, <4>1
      <4> QED BY <1>1, <2>1, <4>1, <4>2
    <3>5. CASE j > i + 1
      <4>1. /\ ~(j < i) /\ j # i /\ j # i + 1 /\ ~(j + 1 < i) /\ j + 1 # i
            /\ j + 1 # i + 1 /\ j + 1 - 1 = j /\ j - 1 \in 1 .. n - 1
            /\ j - 1 + 1 = j
        BY <1>1, <2>3, <3>0, <3>5
      <4>2. r[j] = bs[j - 1] /\ r[j + 1] = bs[j]
        BY <2>1, <3>0, <4>1
      <4> QED BY <1>1, <4>1, <4>2
    <3> QED BY <2>3, <3>0, <3>1, <3>2, <3>3, <3>4, <3>5
  <2>7. ASSUME NEW j \in 1 .. Len(r) PROVE r[j].size_used <= r[j].size
    <3>1. CASE j < i
      <4>1. j \in 1 .. n /\ j \in 1 .. n + 1
        BY <1>1, <2>1, <2>3, <3>1
      <4> QED BY <1>1, <2>1, <3>1, <4>1
    <3>2. CASE j = i \/ j = i + 1
      BY <2>1, <2>2, <2>3, <3>2
    <3>3. CASE j > i + 1
      <4>1. /\ ~(j < i) /\ j # i /\ j # i + 1 /\ j \in 1 .. n + 1
            /\ j - 1 \in 1 .. n
        BY <1>1, <2>1, <2>3, <3>3
      <4> QED BY <1>1, <2>1, <4>1
    <3> QED BY <1>1, <2>1, <2>3, <3>1, <3>2, <3>3
  <2>8. ASSUME NEW x PROVE x \in Used(r) <=> x \in Used(bs) \/ x = b
    <3>1. x \in Used(r) <=> \E j \in 1 .. n + 1 : ~IsFree(r[j]) /\ x = r[j]
      BY <2>1, UsedIs
    <3>2. x \in Used(bs) <=> \E j \in 1 .. n : ~IsFree(bs[j]) /\ x = bs[j]
      BY UsedIs DEF n
    <3>3. ASSUME NEW j \in 1 .. n + 1, ~IsFree(r[j]), x = r[j]
          PROVE  x = b \/ \E k \in 1 .. n : ~IsFree(bs[k]) /\ x = bs[k]
      <4>1. CASE j < i
        <5>1. j \in 1 .. n /\ r[j] = bs[j]
          BY <1>1, <2>1, <2>3, <4>1
        <5> QED BY <3>3, <5>1
      <4>2. CASE j = i
        BY <2>1, <2>3, <3>3, <4>2
      <4>3. CASE j = i + 1
        <5>1. ~(j < i) /\ j # i
          BY <2>3, <4>3
        <5> QED BY <2>1, <3>3, <4>3, <5>1
      <4>4. CASE j > i + 1
        <5>1. ~(j < i) /\ j # i /\ j # i + 1 /\ j - 1 \in 1 .. n
          BY <1>1, <2>3, <4>4
        <5>2. r[j] = bs[j - 1]
          BY <2>1, <5>1
        <5> QED BY <3>3, <5>1, <5>2
      <4> QED BY <1>1, <2>3, <4>1, <4>2, <4>3, <4>4
    <3>4. ASSUME NEW k \in 1 .. n, ~IsFree(bs[k]), x = bs[k]
          PROVE  \E j \in 1 .. n + 1 : ~IsFree(r[j]) /\ x = r[j]
      <4>1. k # i
        BY <3>4
      <4>2. CASE k < i
        <5>1. k \in 1 .. n + 1 /\ r[k] = bs[k]
          BY <1>1, <2>1, <4>2
        <5> QED BY <3>4, <5>1
      <4>3. CASE k > i
        <5>1. /\ k + 1 \in 1 .. n + 1 /\ ~(k + 1 < i) /\ k + 1 # i
              /\ k + 1 # i + 1 /\ k + 1 - 1 = k
          BY <1>1, <2>3, <4>3
        <5>2. r[k + 1] = bs[k]
          BY <2>1, <5>1
        <5> QED BY <3>4, <5>1, <5>2
      <4> QED BY <1>1, <2>3, <4>1, <4>2, <4>3
    <3>5. i \in 1 .. n + 1 /\ r[i] = b
      BY <1>1, <2>1, <2>3
    <3> QED BY <2>1, <3>1, <3>2, <3>3, <3>4, <3>5, Zenon
  <2>9. Used(r) = Used(bs) \union {b}
    BY <2>8
  <2>10. Tiled(r, start, end) /\ NoFreePair(r)
    BY <2>1, <2>4, <2>5, <2>6, <2>7 DEF Tiled, NoFreePair
  <2> QED BY <2>1, <2>2, <2>9, <2>10 DEF r
<1> QED BY <1>3, <1>4


LEMMA UsesNowFacts ==
  ASSUME NEW b \in Block, NEW u \in Nat
  PROVE  /\ UsesNow(b, u) \in Block /\ UsesNow(b, u).addr = b.addr
         /\ UsesNow(b, u).size = b.size /\ UsesNow(b, u).size_used = u
BY SMT DEF Block, UsesNow

(* realloc takes the free block next door: one block in place of two.      *)
LEMMA AbsorbedShape ==
  ASSUME NEW bs \in Seq(Block), NEW i \in 1 .. Len(bs) - 1, NEW size \in Nat,
         BLOCK_END(bs[i]) = bs[i + 1].addr
  PROVE  LET r == Absorbed(bs, i, size)
             b == UsesNow(Merged(bs[i], bs[i + 1]), size)
         IN  /\ r \in Seq(Block) /\ Len(r) = Len(bs) - 1
             /\ \A j \in 1 .. Len(bs) - 1 :
                  r[j] = IF j < i THEN bs[j] ELSE IF j = i THEN b ELSE bs[j + 1]
             /\ b \in Block /\ b.addr = bs[i].addr /\ b.size_used = size
             /\ b.size = bs[i].size + bs[i + 1].size + HDR
             /\ BLOCK_END(b) = BLOCK_END(bs[i + 1])
<1> DEFINE n == Len(bs)
           k == i + 1
           m == Merged(bs[i], bs[k])
           b == UsesNow(m, size)
           s == [bs EXCEPT ![i] = b]
           r == RemoveAt(s, k)
<1>1. /\ n \in Nat /\ i \in 1 .. n /\ k \in 1 .. n /\ i < k
      /\ bs[i] \in Block /\ bs[k] \in Block
  OBVIOUS
<1>2. /\ m \in Block /\ m.addr = bs[i].addr
      /\ m.size = bs[i].size + bs[k].size + HDR /\ BLOCK_END(m) = BLOCK_END(bs[k])
  BY <1>1, MergedFacts
<1> HIDE DEF m
<1>3. /\ b \in Block /\ b.addr = m.addr /\ b.size = m.size /\ b.size_used = size
  BY <1>2, UsesNowFacts
<1>4. BLOCK_END(b) = BLOCK_END(m)
  BY <1>3 DEF BLOCK_END, BLOCK_START
<1> HIDE DEF b
<1>5. /\ s \in Seq(Block) /\ Len(s) = n
      /\ \A j \in 1 .. n : s[j] = IF j = i THEN b ELSE bs[j]
  BY <1>1, <1>3
<1> HIDE DEF s, k
<1>6. /\ r \in Seq(Block) /\ Len(r) = n - 1
      /\ \A j \in 1 .. n - 1 : r[j] = IF j < k THEN s[j] ELSE s[j + 1]
  BY <1>1, <1>5, RemoveAtFacts
<1>7. ASSUME NEW j \in 1 .. n - 1
      PROVE  r[j] = IF j < i THEN bs[j] ELSE IF j = i THEN b ELSE bs[j + 1]
  <2>1. j \in 1 .. n /\ j + 1 \in 1 .. n /\ (j < k <=> j < i \/ j = i)
    BY <1>1 DEF k
  <2>2. CASE j < k
    BY <1>5, <1>6, <2>1, <2>2
  <2>3. CASE ~(j < k)
    <3>1. ~(j < i) /\ j # i /\ j + 1 # i
      BY <1>1, <2>1, <2>3 DEF k
    <3> QED BY <1>5, <1>6, <2>1, <2>3, <3>1
  <2> QED BY <2>2, <2>3
<1>8. Absorbed(bs, i, size) = r
  BY DEF Absorbed, r, s, b, m, k, UsesNow
<1> HIDE DEF r
<1> QED BY <1>1, <1>2, <1>3, <1>4, <1>6, <1>7, <1>8 DEF b, m, k

LEMMA AbsorbedFacts ==
  ASSUME NEW bs, NEW start, NEW end, Tiled(bs, start, end), NoFreePair(bs),
         NEW i \in 1 .. Len(bs) - 1, ~IsFree(bs[i]), IsFree(bs[i + 1]),
         NEW size \in Nat \ {0}, size <= bs[i].size + bs[i + 1].size + HDR
  PROVE  LET r == Absorbed(bs, i, size) IN
         /\ Tiled(r, start, end) /\ NoFreePair(r)
         /\ \E b \in Block : /\ b.addr = bs[i].addr /\ b.size_used = size
                             /\ Used(r) = (Used(bs) \ {bs[i]}) \union {b}
<1> DEFINE n == Len(bs)
           r == Absorbed(bs, i, size)
           b == UsesNow(Merged(bs[i], bs[i + 1]), size)
<1>1. /\ n \in Nat \ {0} /\ \A j \in 1 .. n : bs[j] \in Block
      /\ bs \in Seq(Block) /\ bs # <<>> /\ bs[1].addr = start /\ BLOCK_END(bs[n]) = end
      /\ \A j \in 1 .. n - 1 : BLOCK_END(bs[j]) = bs[j + 1].addr
      /\ \A j \in 1 .. n : bs[j].size_used <= bs[j].size
      /\ \A j \in 1 .. n - 1 : ~(IsFree(bs[j]) /\ IsFree(bs[j + 1]))
  BY TiledFacts DEF Tiled, NoFreePair
<1>2. /\ r \in Seq(Block) /\ Len(r) = n - 1
      /\ \A j \in 1 .. n - 1 :
           r[j] = IF j < i THEN bs[j] ELSE IF j = i THEN b ELSE bs[j + 1]
      /\ b \in Block /\ b.addr = bs[i].addr /\ b.size_used = size
      /\ b.size = bs[i].size + bs[i + 1].size + HDR
      /\ BLOCK_END(b) = BLOCK_END(bs[i + 1])
  BY <1>1, AbsorbedShape
<1>3. i \in 1 .. n - 1 /\ i \in Nat /\ i \in 1 .. n /\ i + 1 \in 1 .. n
  BY <1>1
<1>4. ~IsFree(b) /\ b.size_used <= b.size
  BY <1>2 DEF IsFree
<1>5. \A j \in 1 .. n : j # i => bs[j] # bs[i]
  BY <1>3, TilesAreApart
<1> HIDE DEF b, r, n
<1>6. r # <<>>
  BY <1>1, <1>2, <1>3
<1>7. r[1].addr = start
  <2>1. 1 \in 1 .. n - 1
    BY <1>1, <1>3
  <2>2. CASE i = 1
    BY <1>1, <1>2, <2>1, <2>2
  <2>3. CASE 1 < i
    BY <1>1, <1>2, <2>1, <2>3
  <2> QED BY <1>3, <2>2, <2>3
<1>8. BLOCK_END(r[Len(r)]) = end
  <2> DEFINE k == n - 1
  <2>1. k \in 1 .. n - 1 /\ k + 1 = n /\ (k = i \/ i < k) /\ Len(r) = k
    BY <1>1, <1>2, <1>3
  <2> HIDE DEF k
  <2>2. CASE k = i
    BY <1>1, <1>2, <2>1, <2>2
  <2>3. CASE i < k
    <3>1. ~(k < i) /\ k # i
      BY <1>3, <2>1, <2>3
    <3> QED BY <1>1, <1>2, <2>1, <3>1
  <2> QED BY <2>1, <2>2, <2>3
<1>9. ASSUME NEW j \in 1 .. Len(r) - 1
      PROVE  /\ BLOCK_END(r[j]) = r[j + 1].addr
             /\ ~(IsFree(r[j]) /\ IsFree(r[j + 1]))
  <2>0. /\ j \in 1 .. n - 1 /\ j + 1 \in 1 .. n - 1 /\ j \in Nat
        /\ j \in 1 .. n /\ j + 1 \in 1 .. n
    BY <1>1, <1>2
  <2>1. CASE j + 1 < i
    <3>1. j < i
      BY <1>3, <2>0, <2>1
    <3>2. r[j] = bs[j] /\ r[j + 1] = bs[j + 1]
      BY <1>2, <2>0, <2>1, <3>1
    <3> QED BY <1>1, <2>0, <3>2
  <2>2. CASE j + 1 = i
    <3>1. j < i /\ ~(j + 1 < i)
      BY <1>3, <2>0, <2>2
    <3>2. r[j] = bs[j] /\ r[j + 1] = b /\ bs[j + 1] = bs[i]
      BY <1>2, <2>0, <2>2, <3>1
    <3> QED BY <1>1, <1>2, <1>4, <2>0, <3>2
  <2>3. CASE j = i
    <3> DEFINE k == j + 1
    <3>1. ~(j < i) /\ ~(k < i) /\ k # i /\ k = i + 1 /\ k \in 1 .. n - 1
      BY <1>3, <2>0, <2>3
    <3> HIDE DEF k
    <3>2. r[j] = b /\ r[k] = bs[k + 1]
      BY <1>2, <2>0, <2>3, <3>1
    <3>3. BLOCK_END(bs[k]) = bs[k + 1].addr
      BY <1>1, <3>1
    <3>4. BLOCK_END(b) = BLOCK_END(bs[k])
      BY <1>2, <3>1
    <3> QED BY <1>4, <3>2, <3>3, <3>4 DEF k
  <2>4. CASE j > i
    <3> DEFINE k == j + 1
    <3>1. /\ ~(j < i) /\ j # i /\ ~(k < i) /\ k # i /\ k \in 1 .. n - 1
      BY <1>3, <2>0, <2>4
    <3>2. r[j] = bs[k]
      BY <1>2, <2>0, <3>1
    <3> HIDE DEF k
    <3>3. r[k] = bs[k + 1]
      BY <1>2, <3>1
    <3>4. BLOCK_END(bs[k]) = bs[k + 1].addr /\ ~(IsFree(bs[k]) /\ IsFree(bs[k + 1]))
      BY <1>1, <3>1
    <3> QED BY <3>2, <3>3, <3>4 DEF k
  <2>5. j + 1 < i \/ j + 1 = i \/ j = i \/ j > i
    BY <1>3, <2>0
  <2> QED BY <2>1, <2>2, <2>3, <2>4, <2>5
<1>10. ASSUME NEW j \in 1 .. Len(r) PROVE r[j].size_used <= r[j].size
  <2>0. j \in 1 .. n - 1 /\ j \in 1 .. n /\ j + 1 \in 1 .. n
    BY <1>1, <1>2
  <2>1. r[j] = bs[j] \/ r[j] = b \/ r[j] = bs[j + 1]
    BY <1>2, <2>0
  <2> QED BY <1>1, <1>4, <2>0, <2>1
<1>11. ASSUME NEW x
       PROVE  x \in Used(r) <=> (x \in Used(bs) /\ x # bs[i]) \/ x = b
  <2>0. Len(r) = n - 1
    BY <1>2
  <2>1. x \in Used(r) <=> \E j \in 1 .. n - 1 : ~IsFree(r[j]) /\ x = r[j]
    <3>1. x \in Used(r) <=> \E j \in 1 .. Len(r) : ~IsFree(r[j]) /\ x = r[j]
      BY UsedIs
    <3> QED BY <2>0, <3>1
  <2>2. x \in Used(bs) <=> \E j \in 1 .. n : ~IsFree(bs[j]) /\ x = bs[j]
    BY UsedIs DEF n
  <2>3. ASSUME NEW j \in 1 .. n - 1, ~IsFree(r[j]), x = r[j]
        PROVE  x = b \/ \E k \in 1 .. n : ~IsFree(bs[k]) /\ x = bs[k] /\ x # bs[i]
    <3>0. j \in 1 .. n /\ j + 1 \in 1 .. n
      BY <1>1
    <3>1. CASE j < i
      <4>1. r[j] = bs[j] /\ j # i
        BY <1>2, <3>1
      <4> QED BY <1>5, <2>3, <3>0, <4>1
    <3>2. CASE j = i
      BY <1>2, <1>3, <2>3, <3>2
    <3>3. CASE j > i
      <4>1. ~(j < i) /\ j # i /\ j + 1 # i
        BY <1>3, <3>3
      <4>2. r[j] = bs[j + 1]
        BY <1>2, <4>1
      <4> QED BY <1>5, <2>3, <3>0, <4>1, <4>2
    <3> QED BY <1>3, <3>1, <3>2, <3>3
  <2>4. ASSUME NEW k \in 1 .. n, ~IsFree(bs[k]), x = bs[k], x # bs[i]
        PROVE  \E j \in 1 .. n - 1 : ~IsFree(r[j]) /\ x = r[j]
    <3>1. k # i /\ k # i + 1
      BY <2>4
    <3>2. CASE k < i
      <4>1. k \in 1 .. n - 1 /\ r[k] = bs[k]
        BY <1>1, <1>2, <1>3, <3>2
      <4> QED BY <2>4, <4>1
    <3>3. CASE k > i
      <4> DEFINE h == k - 1
      <4>1. /\ h \in 1 .. n - 1 /\ ~(h < i) /\ h # i /\ h + 1 = k
        BY <1>1, <1>3, <3>1, <3>3
      <4> HIDE DEF h
      <4>2. r[h] = bs[k]
        BY <1>2, <4>1
      <4> QED BY <2>4, <4>1, <4>2
    <3> QED BY <1>1, <1>3, <3>1, <3>2, <3>3
  <2>5. i \in 1 .. n - 1 /\ r[i] = b
    BY <1>2, <1>3
  <2> QED BY <1>4, <2>1, <2>2, <2>3, <2>4, <2>5, Zenon
<1>12. Used(r) = (Used(bs) \ {bs[i]}) \union {b}
  BY <1>11
<1>13. Tiled(r, start, end) /\ NoFreePair(r)
  BY <1>2, <1>6, <1>7, <1>8, <1>9, <1>10 DEF Tiled, NoFreePair
<1> QED BY <1>2, <1>12, <1>13 DEF r


(* free marks the block and collects the garbage: the other used blocks    *)
(* are what they were.                                                     *)
LEMMA FreedFacts ==
  ASSUME NEW bs, NEW start, NEW end, Tiled(bs, start, end), NEW i \in 1 .. Len(bs)
  PROVE  /\ Tiled(Freed(bs, i), start, end) /\ NoFreePair(Freed(bs, i))
         /\ Used(Freed(bs, i)) = Used(bs) \ {bs[i]}
<1> DEFINE s == UsedAt(bs, i, 0)
<1>1. bs[i] \in Block
  BY TiledFacts
<1>2. 0 \in Nat /\ 0 <= bs[i].size
  BY <1>1, BlockFacts
<1>3. /\ Tiled(s, start, end)
      /\ Used(s) = (Used(bs) \ {bs[i]}) \union
                     (IF 0 = 0 THEN {} ELSE {UsesNow(bs[i], 0)})
  BY <1>2, SetUsed
<1>4. Freed(bs, i) = garbage_collect(s)
  BY DEF Freed, UsedAt
<1> HIDE DEF s
<1>5. /\ Tiled(garbage_collect(s), start, end) /\ NoFreePair(garbage_collect(s))
      /\ Used(garbage_collect(s)) = Used(s)
  BY <1>3, GarbageCollectFacts
<1> QED BY <1>3, <1>4, <1>5

(* The last block after grow_heap's merge is free and at least as large as *)
(* the block that was added.                                               *)
LEMMA LastAfterGrowth ==
  ASSUME NEW bs, NEW start, NEW end, Tiled(bs, start, end), NoFreePair(bs),
         NEW b \in Block, b.addr = end, IsFree(b)
  PROVE  LET r == MergeLast(bs, b) IN
         /\ Last(r) = r[Len(r)] /\ IsFree(r[Len(r)]) /\ b.size <= r[Len(r)].size
<1> DEFINE n == Len(bs)
           m == Merged(bs[n], b)
<1>1. /\ bs \in Seq(Block) /\ bs # <<>> /\ n \in Nat \ {0} /\ bs[n] \in Block
      /\ BLOCK_END(bs[n]) = end /\ Last(bs) = bs[n]
  BY TiledFacts DEF Tiled, Last
<1>2. /\ m \in Block /\ m.size_used = bs[n].size_used
      /\ m.size = bs[n].size + b.size + HDR
  BY <1>1, MergedFacts
<1>3. bs[n].size \in Nat /\ b.size \in Nat /\ HDR \in Nat
  BY <1>1, BlockFacts, ConstantFacts
<1> HIDE DEF m
<1>4. CASE IsFree(bs[n])
  <2> DEFINE r == Append(Front(bs), m)
  <2>1. MergeLast(bs, b) = r
    BY <1>1, <1>4 DEF MergeLast, m
  <2>2. Len(r) = n /\ r[n] = m
    <3>1. /\ Len(r) = n
          /\ \A j \in 1 .. n : r[j] = IF j < n THEN bs[j] ELSE m
      BY <1>1, <1>2, ReplaceLastFacts
    <3> QED BY <1>1, <3>1
  <2> HIDE DEF r
  <2>3. IsFree(m) /\ b.size <= m.size
    BY <1>2, <1>3, <1>4 DEF IsFree
  <2> QED BY <2>1, <2>2, <2>3 DEF Last
<1>5. CASE ~IsFree(bs[n])
  <2> DEFINE r == Append(bs, b)
  <2>1. MergeLast(bs, b) = r
    BY <1>1, <1>5 DEF MergeLast
  <2>2. Len(r) = n + 1 /\ r[n + 1] = b
    BY <1>1, AppendProperties
  <2> HIDE DEF r
  <2> QED BY <1>3, <2>1, <2>2 DEF Last
<1> QED BY <1>4, <1>5

-----------------------------------------------------------------------------
(* The breaks.                                                             *)

(* The library's break is below the bound, and the kernel has mapped the   *)
(* pages up to it.                                                         *)
BreaksOK(brk, sys) == brk \in 0 .. MaxBreak /\ sys = UP_TO_PAGE(brk)

LEMMA PageFacts ==
  ASSUME NEW x \in Nat
  PROVE  /\ UP_TO_PAGE(x) \in Nat /\ x <= UP_TO_PAGE(x)
         /\ (x <= MaxBreak => UP_TO_PAGE(x) <= MaxBreak)
<1>1. PAGESIZE \in Nat \ {0} /\ MaxBreak \in Nat /\ MaxBreak % PAGESIZE = 0
  BY ConstantFacts
<1>2. RoundUp(x, PAGESIZE) \in Nat /\ x <= RoundUp(x, PAGESIZE)
  BY <1>1, RoundUpFacts
<1>3. x <= MaxBreak => RoundUp(x, PAGESIZE) <= MaxBreak
  BY <1>1, MultipleAbove
<1> QED BY <1>2, <1>3 DEF UP_TO_PAGE

LEMMA BrkFacts ==
  ASSUME BreaksOK(current_break, sys_break), NEW addr \in Nat, NEW ok
  PROVE  LET b == brk_unlocked(addr, ok) IN
         /\ BreaksOK(b.brk, b.sys)
         /\ b.rc = 0 => addr <= b.brk
         /\ b.rc # 0 => b = Breaks(-1, current_break, sys_break)
         /\ b.rc \in {0, -1}
<1> DEFINE a == RoundUp(addr, 2 * WORD)
           page == UP_TO_PAGE(a)
           b == brk_unlocked(addr, ok)
<1>1. a \in Nat /\ addr <= a
  BY ConstantFacts, RoundUpFacts
<1>2. current_break \in Nat /\ current_break <= MaxBreak /\ MaxBreak \in Nat
      /\ sys_break = UP_TO_PAGE(current_break)
  BY ConstantFacts DEF BreaksOK
<1> HIDE DEF a
<1>3. page \in Nat /\ a <= page
  BY <1>1, PageFacts
<1>4. UP_TO_PAGE(current_break) <= MaxBreak
  BY <1>2, PageFacts
<1>5. CASE page = UP_TO_PAGE(current_break)
  <2>1. b = Breaks(0, a, sys_break)
    BY <1>5 DEF brk_unlocked, a
  <2>2. b.rc = 0 /\ b.brk = a /\ b.sys = sys_break
    BY <2>1 DEF Breaks
  <2>3. a <= MaxBreak
    BY <1>1, <1>2, <1>3, <1>4, <1>5
  <2> QED BY <1>1, <1>2, <1>5, <2>2, <2>3 DEF BreaksOK
<1>6. CASE page # UP_TO_PAGE(current_break) /\ SysBrk(page, ok)
  <2>1. b = Breaks(0, a, page)
    BY <1>6 DEF brk_unlocked, a
  <2>2. b.rc = 0 /\ b.brk = a /\ b.sys = page
    BY <2>1 DEF Breaks
  <2>3. a <= MaxBreak
    BY <1>1, <1>2, <1>3, <1>6 DEF SysBrk
  <2> QED BY <1>1, <1>2, <2>2, <2>3 DEF BreaksOK
<1>7. CASE page # UP_TO_PAGE(current_break) /\ ~SysBrk(page, ok)
  <2>1. b = Breaks(-1, current_break, sys_break)
    BY <1>7 DEF brk_unlocked, a
  <2>2. b.rc = -1 /\ b.brk = current_break /\ b.sys = sys_break
    BY <2>1 DEF Breaks
  <2> QED BY <1>2, <2>1, <2>2 DEF BreaksOK
<1> QED BY <1>5, <1>6, <1>7


-----------------------------------------------------------------------------
(* The blocks in use and the regions that the program owns.                *)

(* The regions of own are those of the blocks of used, and fit into them.  *)
Owns(own, used) ==
  /\ DOMAIN own = {BLOCK_START(b) : b \in used}
  /\ \A b \in used : own[BLOCK_START(b)] \in 0 .. b.size_used

Apart(used) == \A a, b \in used : BLOCK_START(a) = BLOCK_START(b) => a = b

(* Own, Disown and their like, as functions.                               *)
WithRegion(own, ptr, len) ==
  [a \in DOMAIN own \cup {ptr} |-> IF a = ptr THEN len ELSE own[a]]
WithoutRegion(own, ptr) == [a \in DOMAIN own \ {ptr} |-> own[a]]
ResizedRegion(own, ptr, len) == [own EXCEPT ![ptr] = len]

LEMMA WithRegionFacts ==
  ASSUME NEW own, NEW used, Owns(own, used), NEW b, NEW len,
         BLOCK_START(b) \notin DOMAIN own, len \in 0 .. b.size_used
  PROVE  Owns(WithRegion(own, BLOCK_START(b), len), used \union {b})
<1> DEFINE p == BLOCK_START(b)
           w == WithRegion(own, p, len)
<1>1. /\ DOMAIN w = DOMAIN own \union {p} /\ w[p] = len
      /\ \A a \in DOMAIN own : a # p => w[a] = own[a]
  BY DEF WithRegion
<1> HIDE DEF w
<1>2. DOMAIN w = {BLOCK_START(c) : c \in used \union {b}}
  <2>1. DOMAIN own = {BLOCK_START(c) : c \in used}
    BY DEF Owns
  <2> QED BY <1>1, <2>1, Zenon
<1>3. ASSUME NEW c \in used PROVE w[BLOCK_START(c)] \in 0 .. c.size_used
  <2>1. BLOCK_START(c) \in DOMAIN own /\ own[BLOCK_START(c)] \in 0 .. c.size_used
    BY Zenon DEF Owns
  <2> HIDE DEF p
  <2>2. BLOCK_START(c) # p
    BY <2>1 DEF p
  <2> QED BY <1>1, <2>1, <2>2, Zenon
<1>4. w[BLOCK_START(b)] \in 0 .. b.size_used
  BY <1>1
<1>5. \A c \in used \union {b} : w[BLOCK_START(c)] \in 0 .. c.size_used
  BY <1>3, <1>4, Zenon
<1> QED BY <1>2, <1>5 DEF Owns, w

LEMMA WithoutRegionFacts ==
  ASSUME NEW own, NEW used, Owns(own, used), Apart(used), NEW b \in used
  PROVE  Owns(WithoutRegion(own, BLOCK_START(b)), used \ {b})
<1> DEFINE p == BLOCK_START(b)
           w == WithoutRegion(own, p)
<1>1. /\ DOMAIN w = DOMAIN own \ {p}
      /\ \A a \in DOMAIN own : a # p => w[a] = own[a]
  BY DEF WithoutRegion
<1> HIDE DEF w
<1>2. \A c \in used : c # b => BLOCK_START(c) # p
  BY Zenon DEF Apart
<1>3. DOMAIN w = {BLOCK_START(c) : c \in used \ {b}}
  <2>1. DOMAIN own = {BLOCK_START(c) : c \in used}
    BY DEF Owns
  <2>2. ASSUME NEW a PROVE a \in DOMAIN w <=> \E c \in used \ {b} : a = BLOCK_START(c)
    <3>1. a \in DOMAIN w <=> a # p /\ \E c \in used : a = BLOCK_START(c)
      BY <1>1, <2>1, Zenon
    <3> QED BY <1>2, <3>1, Zenon
  <2> QED BY <2>2, Zenon
<1>4. ASSUME NEW c \in used \ {b} PROVE w[BLOCK_START(c)] \in 0 .. c.size_used
  <2>1. BLOCK_START(c) \in DOMAIN own /\ own[BLOCK_START(c)] \in 0 .. c.size_used
    BY Zenon DEF Owns
  <2>2. BLOCK_START(c) # p
    BY <1>2
  <2> HIDE DEF p
  <2> QED BY <1>1, <2>1, <2>2, Zenon
<1> QED BY <1>3, <1>4 DEF Owns, w

LEMMA ResizedRegionFacts ==
  ASSUME NEW own, NEW used, Owns(own, used), Apart(used), NEW b \in used, NEW c,
         BLOCK_START(c) = BLOCK_START(b), NEW len \in 0 .. c.size_used
  PROVE  Owns(ResizedRegion(own, BLOCK_START(b), len), (used \ {b}) \union {c})
<1> DEFINE p == BLOCK_START(b)
           w == ResizedRegion(own, p, len)
           rest == used \ {b}
<1>0. p \in DOMAIN own
  BY Zenon DEF Owns
<1>1. /\ DOMAIN w = DOMAIN own /\ w[p] = len
      /\ \A a \in DOMAIN own : a # p => w[a] = own[a]
  BY <1>0 DEF ResizedRegion
<1> HIDE DEF w
<1>2. \A d \in used : d # b => BLOCK_START(d) # p
  BY Zenon DEF Apart
<1>3. DOMAIN w = {BLOCK_START(d) : d \in rest \union {c}}
  <2>1. DOMAIN own = {BLOCK_START(d) : d \in used}
    BY DEF Owns
  <2>2. ASSUME NEW a PROVE a \in DOMAIN w <=> \E d \in rest \union {c} : a = BLOCK_START(d)
    <3>1. a \in DOMAIN w <=> \E d \in used : a = BLOCK_START(d)
      BY <1>1, <2>1, Zenon
    <3> QED BY <1>2, <3>1, Zenon
  <2> QED BY <2>2, Zenon
<1>4. ASSUME NEW d \in rest PROVE w[BLOCK_START(d)] \in 0 .. d.size_used
  <2>1. BLOCK_START(d) \in DOMAIN own /\ own[BLOCK_START(d)] \in 0 .. d.size_used
    BY Zenon DEF Owns
  <2>2. BLOCK_START(d) # p
    BY <1>2
  <2> HIDE DEF p
  <2> QED BY <1>1, <2>1, <2>2, Zenon
<1>5. w[BLOCK_START(c)] \in 0 .. c.size_used
  BY <1>1
<1>6. \A d \in rest \union {c} : w[BLOCK_START(d)] \in 0 .. d.size_used
  BY <1>4, <1>5, Zenon
<1> QED BY <1>3, <1>6 DEF Owns, w

(* The blocks in use of a tiled list lie apart, and the library finds each *)
(* by its start.                                                           *)
LEMMA UsedAreApart ==
  ASSUME NEW bs, NEW start, NEW end, Tiled(bs, start, end)
  PROVE  Apart(Used(bs)) /\ Used(bs) \subseteq Block
<1>1. ASSUME NEW a \in Used(bs), NEW b \in Used(bs), BLOCK_START(a) = BLOCK_START(b)
      PROVE  a = b
  <2>1. PICK i \in 1 .. Len(bs) : a = bs[i]
    BY UsedIs
  <2>2. PICK j \in 1 .. Len(bs) : b = bs[j]
    BY UsedIs
  <2> QED BY <1>1, <2>1, <2>2, TilesAreApart
<1>2. ASSUME NEW a \in Used(bs) PROVE a \in Block
  <2>1. PICK i \in 1 .. Len(bs) : a = bs[i]
    BY UsedIs
  <2> QED BY <2>1, TiledFacts
<1> QED BY <1>1, <1>2 DEF Apart

LEMMA FindUsed ==
  ASSUME NEW bs, NEW start, NEW end, Tiled(bs, start, end), NEW u \in Used(bs)
  PROVE  LET ptr == BLOCK_START(u)
             i == BlockOf(bs, ptr)
         IN  /\ i \in 1 .. Len(bs) /\ bs[i] = u /\ ~IsFree(u)
             /\ Holding(bs, ptr) = {i}
<1> DEFINE ptr == BLOCK_START(u)
<1>1. PICK k \in 1 .. Len(bs) : ~IsFree(bs[k]) /\ u = bs[k]
  BY UsedIs
<1>2. DOMAIN bs = 1 .. Len(bs) /\ \A j \in 1 .. Len(bs) : bs[j] \in Block
  BY TiledFacts
<1>3. \A j \in 1 .. Len(bs) : BLOCK_START(bs[j]) = ptr => j = k
  BY <1>1, TilesAreApart
<1>4. BlockOf(bs, ptr) = k
  <2>1. k \in DOMAIN bs /\ BLOCK_START(bs[k]) = ptr
    BY <1>1, <1>2
  <2>2. \A j \in DOMAIN bs : BLOCK_START(bs[j]) = ptr => j = k
    BY <1>2, <1>3
  <2> HIDE DEF ptr
  <2> QED BY <2>1, <2>2 DEF BlockOf
<1>5. BLOCK_START(bs[k]) <= ptr /\ ptr < BLOCK_END(bs[k])
  <2>1. bs[k].size_used <= bs[k].size
    BY DEF Tiled
  <2>2. bs[k] \in Block
    BY <1>2
  <2> QED BY <1>1, <2>1, <2>2, BlockFacts
<1>6. \A j \in 1 .. Len(bs) : BLOCK_START(bs[j]) <= ptr /\ ptr < BLOCK_END(bs[j]) => j = k
  BY <1>1, TilesAreApart
<1> HIDE DEF ptr
<1>7. Holding(bs, ptr) = {k}
  BY <1>1, <1>2, <1>5, <1>6 DEF Holding
<1> QED BY <1>1, <1>4, <1>7 DEF ptr


-----------------------------------------------------------------------------
(* The inductive invariant.                                                *)

HeapInv ==
  /\ BreaksOK(current_break, sys_break)
  /\ heap_start \in 0 .. MaxBreak /\ heap_end \in 0 .. current_break
  /\ blocks \in Seq(Block) /\ NoFreePair(blocks)
  /\ heap \in {"none", "ready", "odd"}
  /\ Ready => Tiled(blocks, heap_start, heap_end) /\ Owns(owned, Used(blocks))
  /\ ~Ready => DOMAIN owned = {}
  /\ owned \in [DOMAIN owned -> 0 .. 2 ^ WIDTH - 1]
  /\ ret \in {"init", "sbrk", "null", "ptr", "freed", "warned"}

(* What malloc returns: nothing at all, or a block of more than size bytes *)
(* that was not in use, in a list that is otherwise as it was.             *)
MallocOK(o, size) ==
  /\ o.ptr = NULL => o = Failed
  /\ o.ptr # NULL =>
       /\ BreaksOK(o.breaks.brk, o.breaks.sys) /\ o.heap_end \in 0 .. o.breaks.brk
       /\ Tiled(o.blocks, heap_start, o.heap_end) /\ NoFreePair(o.blocks)
       /\ \E b \in Block :
            /\ BLOCK_START(b) = o.ptr /\ size < b.size_used /\ b.size_used <= b.size
            /\ \A u \in Used(blocks) : BLOCK_START(u) # o.ptr
            /\ Used(o.blocks) = Used(blocks) \union {b}

LEMMA SlopFacts ==
  ASSUME NEW size \in Nat
  PROVE  WithSlop(size) \in Nat \ {0} /\ size < WithSlop(size)
<1>1. WORD \in Nat \ {0} /\ size + WORD \in Nat
  BY ConstantFacts
<1>2. RoundUp(size + WORD, WORD) \in Nat /\ size + WORD <= RoundUp(size + WORD, WORD)
  BY <1>1, RoundUpFacts
<1> QED BY <1>1, <1>2 DEF WithSlop, WORDROUND

(* TakeBlock for malloc: the list bs has the same blocks in use as the     *)
(* heap, and its block i is free.                                          *)
LEMMA TakenIsOK ==
  ASSUME NEW bs, NEW end, Tiled(bs, heap_start, end), NoFreePair(bs),
         Used(bs) = Used(blocks),
         NEW i \in 1 .. Len(bs), IsFree(bs[i]), NEW size \in Nat,
         WithSlop(size) <= bs[i].size,
         NEW b, BreaksOK(b.brk, b.sys), end \in 0 .. b.brk
  PROVE  MallocOK(Outcome(TakeBlock(bs, i, WithSlop(size)), end, b, BLOCK_START(bs[i])), size)
<1> DEFINE len == WithSlop(size)
           r == TakeBlock(bs, i, len)
           o == Outcome(r, end, b, BLOCK_START(bs[i]))
<1>1. len \in Nat \ {0} /\ size < len
  BY SlopFacts
<1>2. bs[i] \in Block
  BY TiledFacts
<1>3. len <= bs[i].size
  OBVIOUS
<1> HIDE DEF len
<1>4. /\ Tiled(r, heap_start, end) /\ NoFreePair(r)
      /\ \E c \in Block : /\ c.addr = bs[i].addr /\ c.size_used = len
                          /\ len <= c.size /\ Used(r) = Used(bs) \union {c}
  BY <1>1, <1>3, TakeBlockFacts
<1>5. PICK c \in Block : /\ c.addr = bs[i].addr /\ c.size_used = len
                         /\ len <= c.size /\ Used(r) = Used(bs) \union {c}
  BY <1>4
<1>6. BLOCK_START(bs[i]) # NULL /\ BLOCK_START(c) = BLOCK_START(bs[i])
  BY <1>2, <1>5, BlockFacts DEF NULL
<1>7. ASSUME NEW u \in Used(blocks) PROVE BLOCK_START(u) # BLOCK_START(bs[i])
  <2>1. PICK j \in 1 .. Len(bs) : ~IsFree(bs[j]) /\ u = bs[j]
    BY UsedIs
  <2>2. j # i
    BY <2>1
  <2> QED BY <2>1, <2>2, TilesAreApart
<1> HIDE DEF r
<1>8. /\ o.ptr = BLOCK_START(bs[i]) /\ o.blocks = r /\ o.heap_end = end
      /\ o.breaks = b
  BY DEF Outcome
<1> HIDE DEF o
<1>9. \E d \in Block : /\ BLOCK_START(d) = o.ptr /\ size < d.size_used /\ d.size_used <= d.size
                       /\ \A u \in Used(blocks) : BLOCK_START(u) # o.ptr
                       /\ Used(o.blocks) = Used(blocks) \union {d}
  <2>1. /\ BLOCK_START(c) = o.ptr /\ size < c.size_used /\ c.size_used <= c.size
        /\ \A u \in Used(blocks) : BLOCK_START(u) # o.ptr
        /\ Used(o.blocks) = Used(blocks) \union {c}
    BY <1>1, <1>5, <1>6, <1>7, <1>8
  <2> QED BY <2>1
<1>10. MallocOK(o, size)
  BY <1>4, <1>6, <1>8, <1>9 DEF MallocOK
<1> QED BY <1>10 DEF o, r, len

LEMMA FailedIsOK ==
  ASSUME NEW size PROVE MallocOK(Failed, size)
BY DEF MallocOK, Failed, Outcome

LEMMA GrownFacts ==
  ASSUME HeapInv, Ready, NEW size \in Nat, NEW ok
  PROVE  MallocOK(Grown(WithSlop(size), ok), size)
<1> DEFINE len == WithSlop(size)
           addr == UP_TO_PAGE(heap_end + len + HDR)
           b == brk_unlocked(addr, ok)
           f == FreeBlock(heap_end, b.brk - heap_end - HDR)
           bs == MergeLast(blocks, f)
<1>0. /\ Tiled(blocks, heap_start, heap_end) /\ NoFreePair(blocks)
      /\ BreaksOK(current_break, sys_break) /\ heap_end \in Nat
  BY DEF HeapInv, BreaksOK
<1>1. len \in Nat /\ HDR \in Nat
  BY SlopFacts, ConstantFacts
<1> HIDE DEF len
<1>2. heap_end + len + HDR \in Nat
  BY <1>0, <1>1
<1>3. addr \in Nat /\ heap_end + len + HDR <= addr
  BY <1>2, PageFacts
<1> HIDE DEF addr
<1>4. /\ BreaksOK(b.brk, b.sys)
      /\ b.rc = 0 => addr <= b.brk
  BY <1>0, <1>3, BrkFacts
<1> HIDE DEF b
<1>5. CASE b.rc # 0
  <2>1. Grown(len, ok) = Failed
    BY <1>5 DEF Grown, b, addr
  <2> QED BY <2>1, FailedIsOK DEF len
<1>6. CASE b.rc = 0
  <2>1. b.brk \in Nat /\ heap_end + len + HDR <= b.brk
    BY <1>0, <1>1, <1>3, <1>4, <1>6, ConstantFacts DEF BreaksOK
  <2>2. b.brk - heap_end - HDR \in Nat /\ len <= b.brk - heap_end - HDR
    BY <1>0, <1>1, <2>1
  <2>3. /\ f \in Block /\ f.addr = heap_end /\ f.size_used = 0 /\ IsFree(f)
        /\ f.size = b.brk - heap_end - HDR
        /\ BLOCK_END(f) = heap_end + HDR + (b.brk - heap_end - HDR)
    BY <1>0, <2>2, FreeBlockFacts
  <2>4. BLOCK_END(f) = b.brk /\ f.size_used <= f.size /\ len <= f.size
    BY <1>0, <1>1, <2>1, <2>2, <2>3
  <2> HIDE DEF f
  <2>5. /\ Tiled(bs, heap_start, b.brk) /\ NoFreePair(bs)
        /\ Used(bs) = Used(blocks)
    <3>1. /\ Tiled(bs, heap_start, BLOCK_END(f)) /\ NoFreePair(bs)
          /\ Used(bs) = Used(blocks) \union (IF IsFree(f) THEN {} ELSE {f})
      BY <1>0, <2>3, <2>4, MergeLastFacts
    <3> QED BY <2>3, <2>4, <3>1
  <2>6. /\ Last(bs) = bs[Len(bs)] /\ IsFree(bs[Len(bs)]) /\ f.size <= bs[Len(bs)].size
    BY <1>0, <2>3, LastAfterGrowth
  <2>7. Grown(len, ok) = Outcome(TakeBlock(bs, Len(bs), len), b.brk, b, BLOCK_START(Last(bs)))
    BY <1>6 DEF Grown, b, addr, bs, f
  <2> DEFINE n == Len(bs)
  <2> HIDE DEF bs
  <2>8. n \in 1 .. Len(bs) /\ bs[n] \in Block
    BY <2>5, TiledFacts
  <2>9. len <= bs[n].size
    <3>1. f.size \in Nat /\ bs[n].size \in Nat
      BY <2>3, <2>8, BlockFacts
    <3> QED BY <1>1, <2>4, <2>6, <3>1
  <2>10. b.brk \in 0 .. b.brk
    BY <2>1
  <2>11. n \in 1 .. Len(bs) /\ IsFree(bs[n]) /\ WithSlop(size) <= bs[n].size
    BY <2>6, <2>8, <2>9 DEF len
  <2>12. Grown(WithSlop(size), ok)
           = Outcome(TakeBlock(bs, n, WithSlop(size)), b.brk, b, BLOCK_START(bs[n]))
    BY <2>6, <2>7 DEF len
  <2> HIDE DEF n
  <2> QED BY <1>4, <2>5, <2>10, <2>11, <2>12, TakenIsOK
<1> QED BY <1>5, <1>6

LEMMA MallocFacts ==
  ASSUME HeapInv, Ready, NEW size \in Nat, NEW ok
  PROVE  MallocOK(malloc(size, ok), size)
<1> DEFINE len == WithSlop(size)
           fit == {i \in DOMAIN blocks : IsFree(blocks[i]) /\ len <= blocks[i].size}
           i == CHOOSE i \in fit : \A j \in fit : i <= j
           b == Breaks(0, current_break, sys_break)
<1>0. /\ Tiled(blocks, heap_start, heap_end) /\ NoFreePair(blocks)
      /\ BreaksOK(current_break, sys_break) /\ heap_end \in 0 .. current_break
  BY DEF HeapInv
<1>1. CASE size >= 2 ^ (WIDTH - 1)
  <2>1. malloc(size, ok) = Failed
    BY <1>1 DEF malloc
  <2> QED BY <2>1, FailedIsOK
<1>2. CASE ~(size >= 2 ^ (WIDTH - 1)) /\ fit # {}
  <2>1. malloc(size, ok) = Outcome(TakeBlock(blocks, i, WithSlop(size)), heap_end,
                                   b, BLOCK_START(blocks[i]))
    BY <1>2 DEF malloc
  <2>2. DOMAIN blocks = 1 .. Len(blocks)
    BY <1>0, TiledFacts
  <2>3. fit \in SUBSET Nat
    BY <2>2
  <2>4. \E m \in fit : \A j \in fit : m <= j
    <3> HIDE DEF fit
    <3> QED BY <1>2, <2>3, Least
  <2>5. i \in fit
    <3> HIDE DEF fit
    <3> QED BY <2>4
  <2>6. /\ i \in 1 .. Len(blocks) /\ IsFree(blocks[i])
        /\ WithSlop(size) <= blocks[i].size
    <3> HIDE DEF i
    <3> QED BY <2>2, <2>5
  <2>7. b.brk = current_break /\ b.sys = sys_break
    BY DEF Breaks
  <2> HIDE DEF i, b
  <2>8. BreaksOK(b.brk, b.sys) /\ heap_end \in 0 .. b.brk
    BY <1>0, <2>7
  <2> QED BY <1>0, <2>1, <2>6, <2>8, TakenIsOK
<1>3. CASE ~(size >= 2 ^ (WIDTH - 1)) /\ fit = {}
  <2>1. malloc(size, ok) = Grown(WithSlop(size), ok)
    BY <1>3 DEF malloc
  <2> QED BY <2>1, GrownFacts
<1> QED BY <1>1, <1>2, <1>3


-----------------------------------------------------------------------------
(* The steps.                                                              *)

Results == {"init", "sbrk", "null", "ptr", "freed", "warned"}

LEMMA HeapInitially == HeapInit => HeapInv
<1> SUFFICES ASSUME HeapInit PROVE HeapInv
  OBVIOUS
<1>1. BreaksOK(current_break, sys_break) /\ current_break \in Nat
  BY ConstantFacts DEF HeapInit, BreaksOK
<1>2. /\ heap_start \in 0 .. MaxBreak /\ heap_end \in 0 .. current_break
      /\ heap = "none" /\ ret = "init" /\ ~Ready
  BY <1>1, ConstantFacts DEF HeapInit, NULL, Ready
<1>3. blocks \in Seq(Block) /\ NoFreePair(blocks)
  <2>1. blocks = <<>> /\ Len(blocks) = 0
    BY DEF HeapInit
  <2> QED BY <2>1 DEF NoFreePair
<1>4. DOMAIN owned = {} /\ owned \in [DOMAIN owned -> 0 .. 2 ^ WIDTH - 1]
  BY DEF HeapInit
<1> QED BY <1>1, <1>2, <1>3, <1>4 DEF HeapInv

(* A step that leaves the heap alone and moves the break up, if at all.    *)
LEMMA BreakMoves ==
  ASSUME HeapInv, UNCHANGED <<heap_start, heap_end, blocks, heap, owned>>,
         BreaksOK(current_break', sys_break'), current_break <= current_break',
         ret' \in Results
  PROVE  HeapInv'
<1>1. heap_end' \in 0 .. current_break'
  BY ConstantFacts DEF HeapInv, BreaksOK
<1> QED BY <1>1 DEF HeapInv, Results, Ready

LEMMA NothingMoves ==
  ASSUME HeapInv, ret' \in Results,
         UNCHANGED <<current_break, sys_break, heap_start, heap_end, blocks, heap, owned>>
  PROVE  HeapInv'
BY DEF HeapInv, Results, Ready

LEMMA SbrkStep ==
  ASSUME HeapInv, NEW incr \in Incrs, NEW ok \in BOOLEAN, sbrk(incr, ok)
  PROVE  HeapInv'
<1> DEFINE addr == current_break + incr
           b == brk_unlocked(addr, ok)
<1>1. BreaksOK(current_break, sys_break) /\ current_break \in Nat
  BY DEF HeapInv, BreaksOK
<1>2. addr \in Nat /\ current_break <= addr
  BY <1>1, ConstantFacts
<1>3. /\ UNCHANGED <<heap_start, heap_end, blocks, heap, owned>>
      /\ current_break' = b.brk /\ sys_break' = b.sys
      /\ ret' \in Results
  BY DEF sbrk, SetBreaks, Results
<1> HIDE DEF addr
<1>4. /\ BreaksOK(b.brk, b.sys)
      /\ b.rc = 0 => addr <= b.brk
      /\ b.rc # 0 => b = Breaks(-1, current_break, sys_break)
  BY <1>1, <1>2, BrkFacts
<1> HIDE DEF b
<1>5. current_break <= b.brk
  <2>1. CASE b.rc = 0
    BY <1>1, <1>2, <1>4, <2>1, ConstantFacts DEF BreaksOK
  <2>2. CASE b.rc # 0
    BY <1>1, <1>4, <2>2 DEF Breaks
  <2> QED BY <2>1, <2>2
<1> QED BY <1>3, <1>4, <1>5, BreakMoves

LEMMA BrkStep ==
  ASSUME HeapInv, NEW incr \in Incrs, NEW ok \in BOOLEAN, Brk(current_break + incr, ok)
  PROVE  HeapInv'
<1> DEFINE addr == current_break + incr
<1>1. /\ BreaksOK(current_break, sys_break) /\ current_break \in Nat
      /\ current_break <= MaxBreak /\ MaxBreak \in Nat
  BY ConstantFacts DEF HeapInv, BreaksOK
<1>2. addr \in Nat /\ current_break <= addr
  BY <1>1, ConstantFacts
<1>3. /\ UNCHANGED <<heap_start, heap_end, blocks, heap, owned>>
      /\ ret' \in Results
  BY DEF Brk, Results
<1> HIDE DEF addr
<1>4. CASE SysBrk(UP_TO_PAGE(addr), ok)
  <2>1. current_break' = addr /\ sys_break' = UP_TO_PAGE(addr)
    BY <1>4 DEF Brk, SetBreaks, Breaks, addr
  <2>2. UP_TO_PAGE(addr) <= MaxBreak /\ UP_TO_PAGE(addr) \in Nat /\ addr <= UP_TO_PAGE(addr)
    BY <1>2, <1>4, PageFacts DEF SysBrk
  <2>3. addr \in 0 .. MaxBreak
    BY <1>1, <1>2, <2>2
  <2>4. BreaksOK(current_break', sys_break')
    BY <2>1, <2>3 DEF BreaksOK
  <2> QED BY <1>2, <1>3, <2>1, <2>4, BreakMoves
<1>5. CASE ~SysBrk(UP_TO_PAGE(addr), ok)
  <2>1. current_break' = current_break /\ sys_break' = sys_break
    BY <1>5 DEF Brk, SetBreaks, Breaks, addr
  <2> QED BY <1>3, <2>1, NothingMoves
<1> QED BY <1>4, <1>5

LEMMA InitHeapStep ==
  ASSUME HeapInv, NEW ok \in BOOLEAN, init_heap(ok)
  PROVE  HeapInv'
<1> DEFINE addr == current_break + 4 * PAGESIZE
           b == brk_unlocked(addr, ok)
           size == (b.brk - current_break - HDR) % 2 ^ WIDTH
           f == FreeBlock(current_break, size)
<1>1. /\ BreaksOK(current_break, sys_break) /\ current_break \in Nat
      /\ current_break \in 0 .. MaxBreak /\ MaxBreak \in Nat
  BY ConstantFacts DEF HeapInv, BreaksOK
<1>2. addr \in Nat /\ current_break + HDR <= addr
  BY <1>1, ConstantFacts
<1>3. /\ current_break' = b.brk /\ sys_break' = b.sys
      /\ heap_start' = current_break /\ heap_end' = b.brk
      /\ blocks' = <<f>> /\ heap' = IF b.rc = 0 THEN "ready" ELSE "odd"
      /\ ret' = "init" /\ owned' = owned
  BY DEF init_heap, SetBreaks
<1>4. DOMAIN owned = {} /\ owned \in [DOMAIN owned -> 0 .. 2 ^ WIDTH - 1]
  BY DEF init_heap, HeapInv, Ready
<1> HIDE DEF addr
<1>5. /\ BreaksOK(b.brk, b.sys)
      /\ b.rc = 0 => addr <= b.brk
      /\ b.rc # 0 => b = Breaks(-1, current_break, sys_break)
  BY <1>1, <1>2, BrkFacts
<1> HIDE DEF b
<1>6. /\ b.brk \in 0 .. MaxBreak /\ b.brk \in Nat /\ b.brk <= MaxBreak
      /\ 2 ^ WIDTH \in Nat /\ MaxBreak < 2 ^ WIDTH /\ HDR \in Nat
  <2>1. b.brk \in 0 .. MaxBreak
    BY <1>5 DEF BreaksOK
  <2> DEFINE w == 2 ^ WIDTH
             v == 2 ^ (WIDTH - 1)
  <2>2. w \in Nat /\ v \in Nat /\ v <= w /\ MaxBreak < v /\ HDR \in Nat
    BY ConstantFacts
  <2> HIDE DEF w, v
  <2>3. MaxBreak < w
    BY <1>1, <2>2
  <2> QED BY <1>1, <2>1, <2>2, <2>3 DEF w
<1>7. size \in Nat
  <2> DEFINE w == 2 ^ WIDTH
  <2>1. w \in Nat \ {0} /\ b.brk - current_break - HDR \in Int
    BY <1>1, <1>6
  <2> HIDE DEF w
  <2>2. (b.brk - current_break - HDR) % w \in Nat
    BY <2>1
  <2> QED BY <2>2 DEF w
<1>8. b.rc = 0 => size = b.brk - current_break - HDR
  <2> SUFFICES ASSUME b.rc = 0 PROVE size = b.brk - current_break - HDR
    OBVIOUS
  <2> DEFINE w == 2 ^ WIDTH
             d == b.brk - current_break - HDR
  <2>1. w \in Nat \ {0} /\ d \in Nat /\ d < w
    BY <1>1, <1>2, <1>5, <1>6
  <2> HIDE DEF w, d
  <2>2. d % w = d
    BY <2>1
  <2> QED BY <2>2 DEF w, d
<1> HIDE DEF size
<1>9. /\ f \in Block /\ f.addr = current_break /\ f.size_used = 0 /\ IsFree(f)
      /\ f.size = size /\ BLOCK_END(f) = current_break + HDR + size
  BY <1>1, <1>7, FreeBlockFacts
<1>10. f.size_used <= f.size
  BY <1>7, <1>9
<1> HIDE DEF f
<1>11. /\ Tiled(<<f>>, current_break, BLOCK_END(f)) /\ NoFreePair(<<f>>)
       /\ Used(<<f>>) = {}
  BY <1>9, <1>10, SingleBlock
<1>12. blocks' \in Seq(Block) /\ NoFreePair(blocks') /\ Used(blocks') = {}
  BY <1>3, <1>9, <1>11
<1>13. b.rc = 0 => Tiled(blocks', heap_start', heap_end') /\ Owns(owned', Used(blocks'))
  <2> SUFFICES ASSUME b.rc = 0
               PROVE  Tiled(blocks', heap_start', heap_end') /\ Owns(owned', Used(blocks'))
    OBVIOUS
  <2>1. BLOCK_END(f) = b.brk
    BY <1>1, <1>6, <1>8, <1>9
  <2>2. Tiled(blocks', heap_start', heap_end')
    BY <1>3, <1>11, <2>1
  <2>3. Owns(owned', Used(blocks'))
    BY <1>3, <1>4, <1>12 DEF Owns
  <2> QED BY <2>2, <2>3
<1>14. heap_end' \in 0 .. current_break' /\ heap_start' \in 0 .. MaxBreak
  BY <1>1, <1>3, <1>6
<1>15. heap' \in {"none", "ready", "odd"} /\ (heap' = "ready" <=> b.rc = 0)
  BY <1>3
<1>16. BreaksOK(current_break', sys_break')
  BY <1>3, <1>5
<1> QED BY <1>3, <1>4, <1>12, <1>13, <1>14, <1>15, <1>16 DEF HeapInv, Ready


(* A step of the ready heap that changes blocks, breaks and regions.       *)
LEMMA HeapMoves ==
  ASSUME HeapInv, Ready, UNCHANGED <<heap_start, heap>>,
         BreaksOK(current_break', sys_break'), heap_end' \in 0 .. current_break',
         Tiled(blocks', heap_start, heap_end'), NoFreePair(blocks'),
         Owns(owned', Used(blocks')),
         owned' \in [DOMAIN owned' -> 0 .. 2 ^ WIDTH - 1],
         ret' \in Results
  PROVE  HeapInv'
<1>1. blocks' \in Seq(Block)
  BY DEF Tiled
<1> QED BY <1>1 DEF HeapInv, Results, Ready

LEMMA ReadyFacts ==
  ASSUME HeapInv, Ready
  PROVE  /\ Tiled(blocks, heap_start, heap_end) /\ NoFreePair(blocks)
         /\ Owns(owned, Used(blocks)) /\ Apart(Used(blocks)) /\ Used(blocks) \subseteq Block
         /\ owned \in [DOMAIN owned -> 0 .. 2 ^ WIDTH - 1]
         /\ BreaksOK(current_break, sys_break) /\ heap_end \in 0 .. current_break
         /\ \A ptr \in DOMAIN owned : \E u \in Used(blocks) : ptr = BLOCK_START(u)
<1>1. /\ Tiled(blocks, heap_start, heap_end) /\ NoFreePair(blocks)
      /\ Owns(owned, Used(blocks))
      /\ owned \in [DOMAIN owned -> 0 .. 2 ^ WIDTH - 1]
      /\ BreaksOK(current_break, sys_break) /\ heap_end \in 0 .. current_break
  BY DEF HeapInv
<1>2. Apart(Used(blocks)) /\ Used(blocks) \subseteq Block
  BY <1>1, UsedAreApart
<1>3. \A ptr \in DOMAIN owned : \E u \in Used(blocks) : ptr = BLOCK_START(u)
  BY <1>1, Zenon DEF Owns
<1> QED BY <1>1, <1>2, <1>3

LEMMA RegionTypes ==
  ASSUME NEW own, own \in [DOMAIN own -> 0 .. 2 ^ WIDTH - 1], NEW ptr,
         NEW len \in 0 .. 2 ^ WIDTH - 1
  PROVE  /\ WithRegion(own, ptr, len)
              \in [DOMAIN WithRegion(own, ptr, len) -> 0 .. 2 ^ WIDTH - 1]
         /\ WithoutRegion(own, ptr)
              \in [DOMAIN WithoutRegion(own, ptr) -> 0 .. 2 ^ WIDTH - 1]
         /\ ResizedRegion(own, ptr, len)
              \in [DOMAIN ResizedRegion(own, ptr, len) -> 0 .. 2 ^ WIDTH - 1]
<1> DEFINE L == 0 .. 2 ^ WIDTH - 1
<1>1. own \in [DOMAIN own -> L] /\ len \in L
  OBVIOUS
<1> HIDE DEF L
<1>2. WithRegion(own, ptr, len) \in [DOMAIN WithRegion(own, ptr, len) -> L]
  BY <1>1 DEF WithRegion
<1>3. WithoutRegion(own, ptr) \in [DOMAIN WithoutRegion(own, ptr) -> L]
  BY <1>1 DEF WithoutRegion
<1>4. ResizedRegion(own, ptr, len) \in [DOMAIN ResizedRegion(own, ptr, len) -> L]
  BY <1>1 DEF ResizedRegion
<1> QED BY <1>2, <1>3, <1>4 DEF L

LEMMA MallocStep ==
  ASSUME HeapInv, NEW size \in 0 .. 2 ^ WIDTH - 1, NEW ok \in BOOLEAN, Malloc(size, ok)
  PROVE  HeapInv'
<1> DEFINE o == malloc(size, ok)
<1>0. Ready /\ size \in Nat
  BY ConstantFacts DEF Malloc
<1>1. MallocOK(o, size)
  BY <1>0, MallocFacts
<1>2. /\ blocks' = o.blocks /\ heap_end' = o.heap_end
      /\ current_break' = o.breaks.brk /\ sys_break' = o.breaks.sys
      /\ UNCHANGED <<heap_start, heap>>
      /\ o.ptr = NULL => ret' = "null" /\ owned' = owned
      /\ o.ptr # NULL => ret' = "ptr" /\ owned' = WithRegion(owned, o.ptr, size)
  BY DEF Malloc, Install, SetBreaks, Keep, Own, WithRegion
<1> HIDE DEF o
<1>3. CASE o.ptr = NULL
  <2>1. o = Failed
    BY <1>1, <1>3 DEF MallocOK
  <2>2. /\ o.blocks = blocks /\ o.heap_end = heap_end
        /\ o.breaks.brk = current_break /\ o.breaks.sys = sys_break
    BY <2>1 DEF Failed, Outcome, Breaks
  <2> QED BY <1>2, <1>3, <2>2, NothingMoves DEF Results
<1>4. CASE o.ptr # NULL
  <2>1. /\ BreaksOK(o.breaks.brk, o.breaks.sys) /\ o.heap_end \in 0 .. o.breaks.brk
        /\ Tiled(o.blocks, heap_start, o.heap_end) /\ NoFreePair(o.blocks)
    BY <1>1, <1>4 DEF MallocOK
  <2>2. PICK b \in Block :
            /\ BLOCK_START(b) = o.ptr /\ size < b.size_used /\ b.size_used <= b.size
            /\ \A u \in Used(blocks) : BLOCK_START(u) # o.ptr
            /\ Used(o.blocks) = Used(blocks) \union {b}
    BY <1>1, <1>4 DEF MallocOK
  <2>3. Owns(owned, Used(blocks)) /\ BLOCK_START(b) \notin DOMAIN owned
    BY <1>0, <2>2, ReadyFacts
  <2>4. size \in 0 .. b.size_used
    BY <1>0, <2>2, BlockFacts
  <2>5. Owns(WithRegion(owned, BLOCK_START(b), size), Used(blocks) \union {b})
    BY <2>3, <2>4, WithRegionFacts
  <2>6. Owns(owned', Used(blocks'))
    BY <1>2, <1>4, <2>2, <2>5
  <2>7. owned' \in [DOMAIN owned' -> 0 .. 2 ^ WIDTH - 1]
    <3>1. owned \in [DOMAIN owned -> 0 .. 2 ^ WIDTH - 1]
      BY DEF HeapInv
    <3>2. \A p : WithRegion(owned, p, size)
                   \in [DOMAIN WithRegion(owned, p, size) -> 0 .. 2 ^ WIDTH - 1]
      BY <3>1, RegionTypes
    <3> QED BY <1>2, <1>4, <3>2
  <2>8. ret' \in Results
    BY <1>2, <1>4 DEF Results
  <2> QED BY <1>0, <1>2, <2>1, <2>6, <2>7, <2>8, HeapMoves
<1> QED BY <1>3, <1>4

LEMMA CallocStep ==
  ASSUME HeapInv, NEW a \in Arrays, NEW ok \in BOOLEAN, Calloc(a.nmemb, a.size, ok)
  PROVE  HeapInv'
<1> DEFINE w == 2 ^ WIDTH
           p == a.nmemb * a.size
           size == p % w
<1>1. w \in Nat \ {0}
  <2> DEFINE v == 2 ^ (WIDTH - 1)
  <2>1. w \in Nat /\ v \in Nat /\ v <= w /\ MaxBreak < v /\ MaxBreak \in Nat
    BY ConstantFacts
  <2> HIDE DEF w, v
  <2> QED BY <2>1
<1>2. p \in Nat
  <2>1. a.nmemb \in Nat /\ a.size \in Nat
    BY ConstantFacts
  <2> QED BY <2>1
<1>3. Malloc(size, ok)
  BY DEF Calloc
<1> HIDE DEF w, p
<1>4. size \in 0 .. w - 1
  BY <1>1, <1>2
<1> HIDE DEF size
<1> QED BY <1>3, <1>4, MallocStep DEF w

LEMMA FreeStep ==
  ASSUME HeapInv, NEW ptr \in DOMAIN owned, Free(ptr)
  PROVE  HeapInv'
<1>0. Ready
  BY DEF Free
<1>1. PICK u \in Used(blocks) : ptr = BLOCK_START(u)
  BY <1>0, ReadyFacts
<1> DEFINE i == BlockOf(blocks, ptr)
<1>2. /\ Tiled(blocks, heap_start, heap_end) /\ Owns(owned, Used(blocks))
      /\ Apart(Used(blocks)) /\ owned \in [DOMAIN owned -> 0 .. 2 ^ WIDTH - 1]
      /\ BreaksOK(current_break, sys_break) /\ heap_end \in 0 .. current_break
  BY <1>0, ReadyFacts
<1>3. i \in 1 .. Len(blocks) /\ blocks[i] = u /\ Holding(blocks, ptr) = {i}
  BY <1>1, <1>2, FindUsed
<1> HIDE DEF i
<1>4. /\ blocks' = Freed(blocks, i) /\ owned' = WithoutRegion(owned, ptr)
      /\ ret' = "freed"
      /\ UNCHANGED <<heap_start, heap, heap_end, current_break, sys_break>>
  BY <1>3 DEF Free, Disown, Keep, WithoutRegion
<1>5. /\ Tiled(blocks', heap_start, heap_end) /\ NoFreePair(blocks')
      /\ Used(blocks') = Used(blocks) \ {u}
  BY <1>2, <1>3, <1>4, FreedFacts
<1>6. Owns(owned', Used(blocks'))
  <2>1. Owns(WithoutRegion(owned, BLOCK_START(u)), Used(blocks) \ {u})
    BY <1>2, WithoutRegionFacts
  <2> QED BY <1>1, <1>4, <1>5, <2>1
<1>7. owned' \in [DOMAIN owned' -> 0 .. 2 ^ WIDTH - 1]
  <2> DEFINE L == 0 .. 2 ^ WIDTH - 1
  <2>1. owned \in [DOMAIN owned -> L]
    BY <1>2
  <2> HIDE DEF L
  <2>2. WithoutRegion(owned, ptr) \in [DOMAIN WithoutRegion(owned, ptr) -> L]
    BY <2>1 DEF WithoutRegion
  <2> QED BY <1>4, <2>2 DEF L
<1>8. /\ BreaksOK(current_break', sys_break') /\ heap_end' \in 0 .. current_break'
      /\ Tiled(blocks', heap_start, heap_end') /\ ret' \in Results
  BY <1>2, <1>4, <1>5 DEF Results
<1> QED BY <1>0, <1>4, <1>5, <1>6, <1>7, <1>8, HeapMoves


(* realloc in place: one used block is replaced by one at the same start.  *)
LEMMA InPlace ==
  ASSUME HeapInv, Ready, NEW u \in Used(blocks), NEW size \in 0 .. 2 ^ WIDTH - 1,
         NEW b \in Block, b.addr = u.addr, b.size_used = size,
         Tiled(blocks', heap_start, heap_end), NoFreePair(blocks'),
         Used(blocks') = (Used(blocks) \ {u}) \union {b},
         owned' = ResizedRegion(owned, BLOCK_START(u), size), ret' = "ptr",
         UNCHANGED <<heap_start, heap, heap_end, current_break, sys_break>>
  PROVE  HeapInv'
<1>1. /\ Owns(owned, Used(blocks)) /\ Apart(Used(blocks)) /\ Used(blocks) \subseteq Block
      /\ owned \in [DOMAIN owned -> 0 .. 2 ^ WIDTH - 1]
      /\ BreaksOK(current_break, sys_break) /\ heap_end \in 0 .. current_break
  BY ReadyFacts
<1>2. BLOCK_START(b) = BLOCK_START(u) /\ size \in 0 .. b.size_used
  <2>1. b.size_used \in Nat /\ BLOCK_START(b) = b.addr + HDR /\ BLOCK_START(u) = u.addr + HDR
    BY <1>1, BlockFacts
  <2> QED BY <2>1
<1>3. Owns(ResizedRegion(owned, BLOCK_START(u), size), (Used(blocks) \ {u}) \union {b})
  BY <1>1, <1>2, ResizedRegionFacts
<1>4. Owns(owned', Used(blocks'))
  BY <1>3
<1>5. owned' \in [DOMAIN owned' -> 0 .. 2 ^ WIDTH - 1]
  <2>1. \A p : ResizedRegion(owned, p, size)
                 \in [DOMAIN ResizedRegion(owned, p, size) -> 0 .. 2 ^ WIDTH - 1]
    BY <1>1, RegionTypes
  <2> QED BY <2>1
<1>6. /\ BreaksOK(current_break', sys_break') /\ heap_end' \in 0 .. current_break'
      /\ Tiled(blocks', heap_start, heap_end') /\ ret' \in Results
  BY <1>1 DEF Results
<1> QED BY <1>4, <1>5, <1>6, HeapMoves

(* realloc moves the region: malloc, the copy of all that was there, free. *)
LEMMA Moved ==
  ASSUME HeapInv, Ready, NEW u \in Used(blocks), NEW size \in 0 .. 2 ^ WIDTH - 1,
         NEW o, MallocOK(o, size), o.ptr # NULL, u.size < size,
         NEW ptr \in DOMAIN owned, ptr = BLOCK_START(u),
         blocks' = Freed(o.blocks, BlockOf(o.blocks, ptr)), heap_end' = o.heap_end,
         current_break' = o.breaks.brk, sys_break' = o.breaks.sys,
         owned' = WithRegion(WithoutRegion(owned, ptr), o.ptr, size),
         ret' = IF Copied(u) \in owned[ptr] .. o.blocks[BlockOf(o.blocks, o.ptr)].size
                THEN "ptr" ELSE "lost",
         UNCHANGED <<heap_start, heap>>
  PROVE  HeapInv'
<1> DEFINE bs == o.blocks
           U == Used(blocks)
<1>1. /\ Tiled(blocks, heap_start, heap_end) /\ Owns(owned, U) /\ Apart(U)
      /\ U \subseteq Block /\ owned \in [DOMAIN owned -> 0 .. 2 ^ WIDTH - 1]
  BY ReadyFacts
<1>2. /\ BreaksOK(o.breaks.brk, o.breaks.sys) /\ o.heap_end \in 0 .. o.breaks.brk
      /\ Tiled(bs, heap_start, o.heap_end)
  BY DEF MallocOK
<1>3. PICK b \in Block :
          /\ BLOCK_START(b) = o.ptr /\ size < b.size_used /\ b.size_used <= b.size
          /\ \A v \in U : BLOCK_START(v) # o.ptr
          /\ Used(bs) = U \union {b}
  BY DEF MallocOK
<1> HIDE DEF bs, U
<1>4. u \in U /\ u \in Used(bs) /\ b \in Used(bs) /\ b \notin U /\ b # u
  BY <1>3 DEF U
<1> DEFINE k == BlockOf(bs, ptr)
<1>5. k \in 1 .. Len(bs) /\ bs[k] = u
  BY <1>2, <1>4, FindUsed
<1> HIDE DEF k
<1>6. /\ Tiled(blocks', heap_start, o.heap_end) /\ NoFreePair(blocks')
      /\ Used(blocks') = Used(bs) \ {u}
  <2>1. blocks' = Freed(bs, k)
    BY DEF bs, k
  <2> QED BY <1>2, <1>5, <2>1, FreedFacts
<1>7. Used(blocks') = (U \ {u}) \union {b}
  BY <1>3, <1>4, <1>6
<1>8. Owns(owned', Used(blocks'))
  <2> DEFINE w == WithoutRegion(owned, ptr)
  <2>1. Owns(w, U \ {u})
    BY <1>1, <1>4, WithoutRegionFacts
  <2>2. BLOCK_START(b) \notin DOMAIN w
    <3>1. DOMAIN w = {BLOCK_START(v) : v \in U \ {u}}
      BY <2>1 DEF Owns
    <3> QED BY <1>3, <3>1
  <2>3. size \in 0 .. b.size_used
    BY <1>3, BlockFacts
  <2> HIDE DEF w
  <2>4. Owns(WithRegion(w, BLOCK_START(b), size), (U \ {u}) \union {b})
    BY <2>1, <2>2, <2>3, WithRegionFacts
  <2> QED BY <1>3, <1>7, <2>4 DEF w
<1>9. owned' \in [DOMAIN owned' -> 0 .. 2 ^ WIDTH - 1]
  <2> DEFINE w == WithoutRegion(owned, ptr)
  <2>1. w \in [DOMAIN w -> 0 .. 2 ^ WIDTH - 1]
    BY <1>1, RegionTypes
  <2> HIDE DEF w
  <2>2. \A p : WithRegion(w, p, size)
                 \in [DOMAIN WithRegion(w, p, size) -> 0 .. 2 ^ WIDTH - 1]
    BY <2>1, RegionTypes
  <2> QED BY <2>2 DEF w
<1>10. ret' = "ptr"
  <2> DEFINE m == BlockOf(bs, o.ptr)
  <2>1. m \in 1 .. Len(bs) /\ bs[m] = b
    BY <1>2, <1>3, <1>4, FindUsed
  <2>2. owned[ptr] \in 0 .. u.size_used
    BY <1>1, <1>4 DEF Owns
  <2>3. u.size_used <= u.size
    <3>1. bs[k].size_used <= bs[k].size
      BY <1>2, <1>5 DEF Tiled
    <3> QED BY <1>5, <3>1
  <2>4. u \in Block
    BY <1>1, <1>4
  <2>5. /\ u.size \in Nat /\ u.size_used \in Nat /\ b.size \in Nat /\ b.size_used \in Nat
    BY <2>4, BlockFacts
  <2>6. u.size_used \in owned[ptr] .. b.size
    BY <1>3, <2>2, <2>3, <2>5
  <2> QED BY <2>1, <2>6 DEF Copied, bs
<1>11. /\ BreaksOK(current_break', sys_break') /\ heap_end' \in 0 .. current_break'
       /\ Tiled(blocks', heap_start, heap_end') /\ ret' \in Results
  BY <1>2, <1>6, <1>10 DEF Results
<1> QED BY <1>6, <1>8, <1>9, <1>11, HeapMoves

LEMMA ReallocStep ==
  ASSUME HeapInv, NEW ptr \in DOMAIN owned, NEW size \in 0 .. 2 ^ WIDTH - 1,
         NEW ok \in BOOLEAN, Realloc(ptr, size, ok)
  PROVE  HeapInv'
<1> DEFINE i == BlockOf(blocks, ptr)
           o == malloc(size, ok)
           bs == o.blocks
<1>0. Ready /\ size > 0 /\ UNCHANGED <<heap_start, heap>>
  BY DEF Realloc, Keep
<1>1. size \in Nat \ {0} /\ size \in Nat /\ size # 0
  BY <1>0, ConstantFacts
<1>2. PICK u \in Used(blocks) : ptr = BLOCK_START(u)
  BY <1>0, ReadyFacts
<1>3. /\ Tiled(blocks, heap_start, heap_end) /\ NoFreePair(blocks)
      /\ Used(blocks) \subseteq Block
  BY <1>0, ReadyFacts
<1>4. i \in 1 .. Len(blocks) /\ blocks[i] = u /\ ~IsFree(u)
  BY <1>2, <1>3, FindUsed
<1>5. u \in Block /\ u.size \in Nat
  <2>1. u \in Block
    BY <1>3
  <2> QED BY <2>1, BlockFacts
<1>6. MallocOK(o, size)
  BY <1>0, <1>1, MallocFacts
<1>7. CASE size <= blocks[i].size
  <2>0. ~(size > blocks[i].size)
    BY <1>1, <1>4, <1>5, <1>7
  <2>1. /\ blocks' = UsedAt(blocks, i, size)
        /\ owned' = ResizedRegion(owned, ptr, size) /\ ret' = "ptr"
        /\ UNCHANGED <<heap_end, current_break, sys_break>>
    <3>1. /\ blocks' = [blocks EXCEPT ![i].size_used = size]
          /\ owned' = [owned EXCEPT ![ptr] = size] /\ ret' = "ptr"
          /\ UNCHANGED <<heap_end, current_break, sys_break>>
      BY <1>0, <1>7, <2>0 DEF Realloc
    <3> QED BY <3>1, Zenon DEF UsedAt, ResizedRegion
  <2> HIDE DEF i
  <2> DEFINE r == UsedAt(blocks, i, size)
             b == UsesNow(blocks[i], size)
  <2>2. /\ Tiled(r, heap_start, heap_end)
        /\ Used(r) = (Used(blocks) \ {blocks[i]}) \union (IF size = 0 THEN {} ELSE {b})
        /\ size # 0 /\ NoFreePair(blocks) => NoFreePair(r)
        /\ b \in Block /\ b.addr = blocks[i].addr /\ b.size_used = size
    BY <1>1, <1>3, <1>4, <1>7, SetUsed
  <2> HIDE DEF r, b
  <2>3. /\ Tiled(blocks', heap_start, heap_end) /\ NoFreePair(blocks')
        /\ Used(blocks') = (Used(blocks) \ {u}) \union {b}
        /\ b \in Block /\ b.addr = u.addr /\ b.size_used = size
    BY <1>1, <1>3, <1>4, <2>1, <2>2 DEF r
  <2> QED BY <1>0, <1>2, <2>1, <2>3, InPlace
<1>8. CASE size > blocks[i].size /\ ReallocInPlace(blocks, i, size)
  <2>0. ~(size <= blocks[i].size)
    BY <1>1, <1>4, <1>5, <1>8
  <2>1. /\ blocks' = Absorbed(blocks, i, size)
        /\ owned' = ResizedRegion(owned, ptr, size) /\ ret' = "ptr"
        /\ UNCHANGED <<heap_end, current_break, sys_break>>
    BY <1>8, <1>0, <2>0 DEF Realloc, ResizedRegion
  <2> HIDE DEF i
  <2>2. /\ i \in 1 .. Len(blocks) - 1 /\ IsFree(blocks[i + 1]) /\ ~IsFree(blocks[i])
        /\ size <= blocks[i].size + blocks[i + 1].size + HDR
    <3>1. Len(blocks) \in Nat
      BY <1>3, TiledFacts
    <3> QED BY <1>4, <1>8, <3>1 DEF ReallocInPlace
  <2> DEFINE r == Absorbed(blocks, i, size)
  <2>3. /\ Tiled(r, heap_start, heap_end) /\ NoFreePair(r)
        /\ \E b \in Block : /\ b.addr = blocks[i].addr /\ b.size_used = size
                            /\ Used(r) = (Used(blocks) \ {blocks[i]}) \union {b}
    BY <1>1, <1>3, <2>2, AbsorbedFacts
  <2> HIDE DEF r
  <2>4. PICK b \in Block : /\ b.addr = blocks[i].addr /\ b.size_used = size
                           /\ Used(r) = (Used(blocks) \ {blocks[i]}) \union {b}
    BY <2>3
  <2>5. /\ Tiled(blocks', heap_start, heap_end) /\ NoFreePair(blocks')
        /\ Used(blocks') = (Used(blocks) \ {u}) \union {b}
        /\ b.addr = u.addr
    BY <1>4, <2>1, <2>3, <2>4 DEF r
  <2> QED BY <1>0, <1>2, <2>1, <2>4, <2>5, InPlace
<1>9. CASE ~(size <= blocks[i].size) /\ ~(size > blocks[i].size /\ ReallocInPlace(blocks, i, size))
  <2>1. CASE o.ptr = NULL
    <3>1. /\ ret' = "null"
          /\ UNCHANGED <<blocks, heap_end, current_break, sys_break, owned>>
      BY <1>0, <1>9, <2>1 DEF Realloc, ReallocFails
    <3> QED BY <1>0, <3>1, NothingMoves DEF Results
  <2>2. CASE o.ptr # NULL
    <3>1. /\ blocks' = [o EXCEPT !.blocks = Freed(bs, BlockOf(bs, ptr))].blocks
          /\ heap_end' = [o EXCEPT !.blocks = Freed(bs, BlockOf(bs, ptr))].heap_end
          /\ current_break' = [o EXCEPT !.blocks = Freed(bs, BlockOf(bs, ptr))].breaks.brk
          /\ sys_break' = [o EXCEPT !.blocks = Freed(bs, BlockOf(bs, ptr))].breaks.sys
          /\ owned' = [a \in (DOMAIN owned \ {ptr}) \cup {o.ptr} |->
                                   IF a = o.ptr THEN size ELSE owned[a]]
          /\ ret' = IF Copied(blocks[i]) \in owned[ptr] .. bs[BlockOf(bs, o.ptr)].size
                    THEN "ptr" ELSE "lost"
      BY <1>0, <1>9, <2>2 DEF Realloc, Install, SetBreaks
    <3>2. \A e : /\ [o EXCEPT !.blocks = e].blocks = e
                 /\ [o EXCEPT !.blocks = e].heap_end = o.heap_end
                 /\ [o EXCEPT !.blocks = e].breaks = o.breaks
      <4>1. \E w, x, y, z : o = Outcome(w, x, y, z)
        BY DEF malloc, Grown, Failed
      <4> HIDE DEF o
      <4> QED BY <4>1 DEF Outcome
    <3>3. owned' = WithRegion(WithoutRegion(owned, ptr), o.ptr, size)
      <4> DEFINE w == WithoutRegion(owned, ptr)
      <4> HIDE DEF o
      <4>1. DOMAIN w = DOMAIN owned \ {ptr} /\ \A a \in DOMAIN w : w[a] = owned[a]
        BY DEF WithoutRegion
      <4> HIDE DEF w
      <4>2. WithRegion(w, o.ptr, size)
              = [a \in (DOMAIN owned \ {ptr}) \cup {o.ptr} |->
                                   IF a = o.ptr THEN size ELSE owned[a]]
        BY <4>1 DEF WithRegion
      <4> QED BY <3>1, <4>2 DEF w
    <3> HIDE DEF o, i
    <3>4. /\ blocks' = Freed(o.blocks, BlockOf(o.blocks, ptr)) /\ heap_end' = o.heap_end
          /\ current_break' = o.breaks.brk /\ sys_break' = o.breaks.sys
          /\ ret' = IF Copied(u) \in owned[ptr] .. o.blocks[BlockOf(o.blocks, o.ptr)].size
                    THEN "ptr" ELSE "lost"
      BY <1>4, <3>1, <3>2
    <3>5. u.size < size
      BY <1>1, <1>4, <1>5, <1>9
    <3> QED BY <1>0, <1>2, <1>6, <2>2, <3>3, <3>4, <3>5, Moved
  <2> QED BY <2>1, <2>2
<1> QED BY <1>7, <1>8, <1>9


LEMMA HeapStep == HeapInv /\ [HeapNext]_heapVars => HeapInv'
<1> SUFFICES ASSUME HeapInv, [HeapNext]_heapVars PROVE HeapInv'
  OBVIOUS
<1>1. CASE \E ok \in BOOLEAN : init_heap(ok)
  BY <1>1, InitHeapStep
<1>2. CASE \E incr \in Incrs, ok \in BOOLEAN : sbrk(incr, ok)
  BY <1>2, SbrkStep
<1>3. CASE \E incr \in Incrs, ok \in BOOLEAN : Brk(current_break + incr, ok)
  BY <1>3, BrkStep
<1>4. CASE \E size \in Lens, ok \in BOOLEAN : Malloc(size, ok)
  BY <1>4, MallocStep, ConstantFacts
<1>5. CASE \E a \in Arrays, ok \in BOOLEAN : Calloc(a.nmemb, a.size, ok)
  BY <1>5, CallocStep
<1>6. CASE \E ptr \in DOMAIN owned : Free(ptr)
  BY <1>6, FreeStep
<1>7. CASE \E addr \in {heap_end} \cup {BLOCK_START(blocks[i]) : i \in DOMAIN blocks} :
             FreeAgain(addr)
  <2>1. /\ ret' = "warned"
        /\ UNCHANGED <<current_break, sys_break, heap_start, heap_end, blocks, heap, owned>>
    BY <1>7 DEF FreeAgain
  <2> QED BY <2>1, NothingMoves DEF Results
<1>8. CASE \E ptr \in DOMAIN owned, size \in Lens, ok \in BOOLEAN : Realloc(ptr, size, ok)
  BY <1>8, ReallocStep, ConstantFacts
<1>9. CASE UNCHANGED heapVars
  <2>1. /\ UNCHANGED <<current_break, sys_break, heap_start, heap_end, blocks, heap, owned>>
        /\ ret' = ret
    BY <1>9 DEF heapVars
  <2>2. ret' \in Results
    BY <2>1 DEF HeapInv, Results
  <2> QED BY <2>1, <2>2, NothingMoves
<1> QED BY <1>1, <1>2, <1>3, <1>4, <1>5, <1>6, <1>7, <1>8, <1>9 DEF HeapNext

LEMMA HeapInvariant == HeapSpec => []HeapInv
BY HeapInitially, HeapStep, PTL DEF HeapSpec

-----------------------------------------------------------------------------
(* What follows from the invariant.                                        *)

(* Every variable keeps its type, and every address, those that malloc and *)
(* realloc hand out included, stays below the bound of the breaks.         *)
THEOREM HeapIsTyped == HeapSpec => []HeapTypeOK
<1>1. HeapInv => HeapTypeOK
  <2> SUFFICES ASSUME HeapInv PROVE HeapTypeOK
    OBVIOUS
  <2>1. /\ current_break \in 0 .. MaxBreak /\ sys_break = UP_TO_PAGE(current_break)
        /\ MaxBreak \in Nat
    BY ConstantFacts DEF HeapInv, BreaksOK
  <2>2. sys_break \in 0 .. MaxBreak
    BY <2>1, PageFacts
  <2>3. heap_end \in 0 .. MaxBreak
    BY <2>1 DEF HeapInv
  <2>4. ASSUME NEW a \in DOMAIN owned
        PROVE  a \in HDR .. MaxBreak /\ owned[a] \in 0 .. 2 ^ WIDTH - 1
    <3>1. Ready
      BY DEF HeapInv
    <3>2. PICK u \in Used(blocks) : a = BLOCK_START(u)
      BY <3>1, ReadyFacts
    <3>3. PICK i \in 1 .. Len(blocks) : u = blocks[i]
      BY UsedIs
    <3>4. Tiled(blocks, heap_start, heap_end) /\ u \in Block
      BY <3>1, ReadyFacts
    <3>5. BLOCK_END(u) <= heap_end
      BY <3>3, <3>4, TilesAreApart
    <3>6. /\ BLOCK_START(u) = u.addr + HDR /\ u.addr \in Nat /\ BLOCK_END(u) \in Nat
          /\ BLOCK_START(u) <= BLOCK_END(u) /\ HDR \in Nat
      BY <3>4, BlockFacts, ConstantFacts
    <3>7. a \in HDR .. MaxBreak
      BY <2>1, <2>3, <3>2, <3>5, <3>6
    <3>8. owned[a] \in 0 .. 2 ^ WIDTH - 1
      BY DEF HeapInv
    <3> QED BY <3>7, <3>8
  <2>5. ret \in {"init", "sbrk", "null", "ptr", "freed", "warned", "lost"}
    BY DEF HeapInv
  <2> QED BY <2>1, <2>2, <2>3, <2>4, <2>5 DEF HeapInv, HeapTypeOK
<1> QED BY <1>1, HeapInvariant, PTL

(* sanity_check never fails, whatever the program calls and whatever the   *)
(* kernel answers: the blocks tile the heap from its start to its end.     *)
THEOREM HeapIsSane == HeapSpec => []SanityHolds
<1>1. HeapInv => SanityHolds
  <2> SUFFICES ASSUME HeapInv, Ready
               PROVE  /\ helper_check_heap
                      /\ blocks[1].addr = heap_start /\ BLOCK_END(Last(blocks)) = heap_end
    BY DEF SanityHolds
  <2>1. Tiled(blocks, heap_start, heap_end)
    BY DEF HeapInv
  <2>2. /\ blocks[1].addr = heap_start /\ BLOCK_END(blocks[Len(blocks)]) = heap_end
        /\ Last(blocks) = blocks[Len(blocks)]
    BY <2>1 DEF Tiled, Last
  <2>3. /\ DOMAIN blocks = 1 .. Len(blocks) /\ Len(blocks) \in Nat
        /\ heap_start \in Nat /\ heap_end \in Nat
        /\ \A i \in 1 .. Len(blocks) : blocks[i] \in Block
    BY <2>1, TiledFacts
  <2>4. ASSUME NEW i \in 1 .. Len(blocks) PROVE sanity_check(i)
    <3>1. heap_start <= blocks[i].addr /\ BLOCK_END(blocks[i]) <= heap_end
      BY <2>1, TilesAreApart
    <3>2. /\ blocks[i].addr \in Nat /\ BLOCK_START(blocks[i]) \in Nat
          /\ BLOCK_END(blocks[i]) \in Nat
          /\ blocks[i].addr < BLOCK_START(blocks[i])
          /\ BLOCK_START(blocks[i]) <= BLOCK_END(blocks[i])
      BY <2>3, BlockFacts
    <3>3. blocks[i].addr < heap_end
      BY <2>3, <3>1, <3>2
    <3>4. blocks[i].size_used <= blocks[i].size
      BY <2>1 DEF Tiled
    <3>5. i < Len(blocks) => BLOCK_END(blocks[i]) = blocks[i + 1].addr
      <4>1. i < Len(blocks) => i \in 1 .. Len(blocks) - 1
        BY <2>3
      <4> QED BY <2>1, <4>1 DEF Tiled
    <3> QED BY <3>1, <3>3, <3>4, <3>5 DEF sanity_check
  <2> QED BY <2>2, <2>3, <2>4 DEF helper_check_heap
<1> QED BY <1>1, HeapInvariant, PTL

(* A block is in use exactly if the program owns a region at its start,    *)
(* and the region fits: malloc hands no block out twice, and free and      *)
(* realloc leak none.                                                      *)
THEOREM UsedIsOwned == HeapSpec => []BlocksAreOwned
<1>1. HeapInv => BlocksAreOwned
  <2> SUFFICES ASSUME HeapInv, Ready
               PROVE  /\ {BLOCK_START(blocks[i]) : i \in {j \in DOMAIN blocks : ~IsFree(blocks[j])}}
                           = DOMAIN owned
                      /\ \A i \in DOMAIN blocks : ~IsFree(blocks[i]) =>
                           owned[BLOCK_START(blocks[i])] <= blocks[i].size_used
    BY DEF BlocksAreOwned
  <2>1. Owns(owned, Used(blocks)) /\ Tiled(blocks, heap_start, heap_end)
    BY DEF HeapInv
  <2>2. /\ DOMAIN owned = {BLOCK_START(b) : b \in Used(blocks)}
        /\ \A b \in Used(blocks) : owned[BLOCK_START(b)] \in 0 .. b.size_used
    BY <2>1 DEF Owns
  <2>3. DOMAIN blocks = 1 .. Len(blocks)
    BY <2>1, TiledFacts
  <2>4. ASSUME NEW a
        PROVE  a \in DOMAIN owned <=>
                 a \in {BLOCK_START(blocks[i]) : i \in {j \in DOMAIN blocks : ~IsFree(blocks[j])}}
    <3>1. a \in DOMAIN owned <=> \E b \in Used(blocks) : a = BLOCK_START(b)
      BY <2>2, Zenon
    <3>2. a \in {BLOCK_START(blocks[i]) : i \in {j \in DOMAIN blocks : ~IsFree(blocks[j])}}
            <=> \E i \in 1 .. Len(blocks) : ~IsFree(blocks[i]) /\ a = BLOCK_START(blocks[i])
      BY <2>3, Zenon
    <3>3. \A b : b \in Used(blocks) <=>
                   \E i \in 1 .. Len(blocks) : ~IsFree(blocks[i]) /\ b = blocks[i]
      BY UsedIs
    <3>4. (\E b \in Used(blocks) : a = BLOCK_START(b)) <=>
            \E i \in 1 .. Len(blocks) : ~IsFree(blocks[i]) /\ a = BLOCK_START(blocks[i])
      BY <3>3
    <3> QED BY <3>1, <3>2, <3>4, Zenon
  <2>5. ASSUME NEW i \in DOMAIN blocks, ~IsFree(blocks[i])
        PROVE  owned[BLOCK_START(blocks[i])] <= blocks[i].size_used
    <3>1. blocks[i] \in Used(blocks)
      BY <2>3, <2>5, UsedIs, Zenon
    <3>2. owned[BLOCK_START(blocks[i])] \in 0 .. blocks[i].size_used
      BY <2>2, <3>1, Zenon
    <3> QED BY <3>2
  <2> QED BY <2>4, <2>5
<1> QED BY <1>1, HeapInvariant, PTL

(* After any calls no two neighbours are free: garbage_collect's one pass, *)
(* the merge after grow_heap and realloc's absorption leave none.          *)
THEOREM NoTwoFreeNeighbours == HeapSpec => []FreeBlocksAreMerged
<1>1. HeapInv => FreeBlocksAreMerged
  BY DEF HeapInv, NoFreePair, FreeBlocksAreMerged
<1> QED BY <1>1, HeapInvariant, PTL

(* The heap ends at or below the library's break, and the kernel has       *)
(* mapped all up to it, whatever brk_unlocked, sbrk and Brk asked for and  *)
(* the kernel refused.                                                     *)
THEOREM HeapStaysMapped == HeapSpec => []HeapIsMapped
<1>1. HeapInv => HeapIsMapped
  <2> SUFFICES ASSUME HeapInv PROVE HeapIsMapped
    OBVIOUS
  <2>1. /\ current_break \in Nat /\ heap_end \in 0 .. current_break
        /\ sys_break = UP_TO_PAGE(current_break)
    BY ConstantFacts DEF HeapInv, BreaksOK
  <2>2. current_break <= UP_TO_PAGE(current_break)
    BY <2>1, PageFacts
  <2> QED BY <2>1, <2>2 DEF HeapIsMapped
<1> QED BY <1>1, HeapInvariant, PTL

(* realloc's memcpy copies all that the program had and stays within the   *)
(* new block.                                                              *)
THEOREM NoContentsLost == HeapSpec => []ContentsSurvive
<1>1. HeapInv => ContentsSurvive
  BY DEF HeapInv, ContentsSurvive
<1> QED BY <1>1, HeapInvariant, PTL

(* A call that returns NULL, be it malloc, calloc, realloc or sbrk, leaves *)
(* the breaks, the blocks and the regions as they were.                    *)
THEOREM FailuresAreClean == HeapSpec => FailureChangesNothing
<1> DEFINE Same == UNCHANGED <<current_break, sys_break, heap_end, blocks, owned>>
<1>1. ASSUME HeapInv, [HeapNext]_heapVars PROVE [ret' = "null" => Same]_heapVars
  <2> SUFFICES ASSUME HeapNext, ret' = "null" PROVE Same
    BY <1>1
  <2>1. ASSUME NEW size \in Nat, NEW ok \in BOOLEAN, Malloc(size, ok) PROVE Same
    <3> DEFINE o == malloc(size, ok)
    <3>1. /\ Ready /\ blocks' = o.blocks /\ heap_end' = o.heap_end
          /\ current_break' = o.breaks.brk /\ sys_break' = o.breaks.sys
          /\ o.ptr = NULL => ret' = "null" /\ owned' = owned
          /\ o.ptr # NULL => ret' = "ptr"
      BY <2>1 DEF Malloc, Install, SetBreaks
    <3>2. MallocOK(o, size)
      BY <1>1, <3>1, MallocFacts
    <3> HIDE DEF o
    <3>3. o.ptr = NULL
      BY <3>1
    <3>4. o = Failed
      BY <3>2, <3>3 DEF MallocOK
    <3> QED BY <3>1, <3>3, <3>4 DEF Failed, Outcome, Breaks
  <2>2. ASSUME NEW incr \in Incrs, NEW ok \in BOOLEAN, sbrk(incr, ok) PROVE Same
    <3> DEFINE addr == current_break + incr
               b == brk_unlocked(addr, ok)
    <3>1. BreaksOK(current_break, sys_break) /\ addr \in Nat
      BY <1>1, ConstantFacts DEF HeapInv, BreaksOK
    <3>2. /\ UNCHANGED <<heap_end, blocks, owned>>
          /\ current_break' = b.brk /\ sys_break' = b.sys /\ b.rc # 0
      BY <2>2 DEF sbrk, SetBreaks
    <3> HIDE DEF addr
    <3>3. b.rc # 0 => b = Breaks(-1, current_break, sys_break)
      BY <3>1, BrkFacts
    <3> HIDE DEF b
    <3> QED BY <3>2, <3>3 DEF Breaks
  <2>3. ASSUME NEW addr, NEW ok \in BOOLEAN, Brk(addr, ok) PROVE Same
    <3>1. ~SysBrk(UP_TO_PAGE(addr), ok)
      BY <2>3 DEF Brk
    <3> QED BY <2>3, <3>1 DEF Brk, SetBreaks, Breaks
  <2>4. ASSUME NEW ptr \in DOMAIN owned, NEW size \in Lens, NEW ok \in BOOLEAN,
               Realloc(ptr, size, ok)
        PROVE  Same
    BY <2>4 DEF Realloc, ReallocFails
  <2>5. ASSUME NEW a \in Arrays, NEW ok \in BOOLEAN, Calloc(a.nmemb, a.size, ok) PROVE Same
    <3> DEFINE w == 2 ^ WIDTH
               p == a.nmemb * a.size
               size == p % w
    <3>1. w \in Nat \ {0}
      <4> DEFINE v == 2 ^ (WIDTH - 1)
      <4>1. w \in Nat /\ v \in Nat /\ v <= w /\ MaxBreak < v /\ MaxBreak \in Nat
        BY ConstantFacts
      <4> HIDE DEF w, v
      <4> QED BY <4>1
    <3>2. p \in Nat
      <4>1. a.nmemb \in Nat /\ a.size \in Nat
        BY ConstantFacts
      <4> QED BY <4>1
    <3>3. Malloc(size, ok)
      BY <2>5 DEF Calloc
    <3> HIDE DEF w, p
    <3>4. size \in Nat
      BY <3>1, <3>2
    <3> HIDE DEF size
    <3> QED BY <2>1, <3>3, <3>4
  <2>6. ~(\E ok \in BOOLEAN : init_heap(ok))
    BY DEF init_heap
  <2>7. ~(\E ptr \in DOMAIN owned : Free(ptr))
    BY DEF Free
  <2>8. ~(\E addr \in {heap_end} \cup {BLOCK_START(blocks[i]) : i \in DOMAIN blocks} :
            FreeAgain(addr))
    BY DEF FreeAgain
  <2>9. Lens \subseteq Nat
    BY ConstantFacts
  <2> QED BY <2>1, <2>2, <2>3, <2>4, <2>5, <2>6, <2>7, <2>8, <2>9 DEF HeapNext
<1> QED BY <1>1, HeapInvariant, PTL DEF HeapSpec, FailureChangesNothing
=============================================================================
