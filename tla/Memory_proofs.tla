---------------------------- MODULE Memory_proofs ----------------------------
(***************************************************************************)
(* Frames and address spaces: proofs of the invariants of Memory for any   *)
(* size of memory, any number of processes and any programs.               *)
(***************************************************************************)
EXTENDS Memory, FiniteSetTheorems, FunctionTheorems, TLAPS

-----------------------------------------------------------------------------
(* The constants.                                                          *)
LEMMA Constants ==
  /\ NFRAMES \in Nat /\ MAX_PT_LEN \in Nat /\ KSTACK_START_PAGE \in Nat
  /\ FirstTextPage \in Nat /\ OrigBrk \in Nat /\ MAX_PROCS \in Nat
  /\ MaxExecs \in Nat /\ MaxShrinks \in Nat
  /\ FirstTextPage < OrigBrk /\ OrigBrk <= KSTACK_START_PAGE - 2
  /\ KSTACK_START_PAGE < MAX_PT_LEN /\ MAX_PT_LEN < NFRAMES /\ MAX_PROCS >= 2
BY MemoryAssumption

LEMMA FrameFacts ==
  /\ Frames \subseteq Nat /\ IsFiniteSet(Frames) /\ Unmapped \notin Frames
  /\ Pages \subseteq Nat /\ KStackPages \subseteq Pages /\ Pages \subseteq Frames
  /\ ScratchPages \subseteq Pages
  /\ Unmapped \notin Nat
  /\ \A v \in KStackPages : v >= KSTACK_START_PAGE
  /\ \A v \in ScratchPages : v >= OrigBrk /\ v \notin KStackPages
<1>1. IsFiniteSet(Frames)
  BY Constants, FS_Interval DEF Frames
<1> QED BY <1>1, Constants
        DEF Frames, Pages, Unmapped, KStackPages, ScratchPages

(* A set of free frames or of pages is finite.                             *)
LEMMA SmallSets ==
  ASSUME NEW S \in SUBSET (0 .. NFRAMES)
  PROVE  IsFiniteSet(S) /\ Cardinality(S) \in Nat /\ S \subseteq Nat
<1>1. IsFiniteSet(0 .. NFRAMES)
  BY Constants, FS_Interval
<1>2. IsFiniteSet(S)
  BY <1>1, FS_Subset
<1> QED BY <1>2, FS_CardinalityType, Constants

-----------------------------------------------------------------------------
(* The frame allocator: the rank of an element of a finite set is its      *)
(* index, so frames and pages are paired off in order.                     *)
LEMMA RankGrows ==
  ASSUME NEW S \in SUBSET (0 .. NFRAMES), NEW x \in S, NEW y \in S, x < y
  PROVE  Rank(S, x) < Rank(S, y)
<1> DEFINE X == {z \in S : z < x}
           Y == {z \in S : z < y}
<1>1. /\ X \in SUBSET Y /\ x \in Y /\ x \notin X
      /\ Y \in SUBSET (0 .. NFRAMES) /\ X \in SUBSET (0 .. NFRAMES)
  <2>1. \A z \in S : z \in Int
    BY Constants
  <2>2. ~(x < x) /\ \A z \in S : z < x => z < y
    BY <2>1
  <2> QED BY <2>2
<1>2. /\ IsFiniteSet(Y) /\ Cardinality(Y) \in Nat /\ Cardinality(X) \in Nat
  BY <1>1, SmallSets
<1> HIDE DEF X, Y
<1>3. Cardinality(X) <= Cardinality(Y) /\ Cardinality(X) # Cardinality(Y)
  BY <1>1, <1>2, FS_Subset
<1>4. Cardinality(X) < Cardinality(Y)
  BY <1>2, <1>3
<1> QED BY <1>4 DEF X, Y, Rank

LEMMA RankInSet ==
  ASSUME NEW S \in SUBSET (0 .. NFRAMES), NEW x \in S
  PROVE  Rank(S, x) \in 0 .. Cardinality(S) - 1
<1> DEFINE X == {z \in S : z < x}
<1>1. /\ X \in SUBSET S /\ x \notin X /\ X \in SUBSET (0 .. NFRAMES)
  <2>1. x \in Int
    BY Constants
  <2>2. ~(x < x)
    BY <2>1
  <2> QED BY <2>2
<1>2. /\ IsFiniteSet(S) /\ Cardinality(S) \in Nat /\ Cardinality(X) \in Nat
  BY <1>1, SmallSets
<1> HIDE DEF X
<1>3. Cardinality(X) <= Cardinality(S) /\ Cardinality(X) # Cardinality(S)
  BY <1>1, <1>2, FS_Subset
<1>4. Cardinality(X) \in 0 .. Cardinality(S) - 1
  BY <1>2, <1>3
<1> QED BY <1>4 DEF X, Rank

LEMMA RankInjective ==
  ASSUME NEW S \in SUBSET (0 .. NFRAMES), NEW x \in S, NEW y \in S,
         Rank(S, x) = Rank(S, y)
  PROVE  x = y
<1>1. /\ x \in Int /\ y \in Int
      /\ Rank(S, x) \in Int /\ Rank(S, y) \in Int
  <2>1. Rank(S, x) \in 0 .. Cardinality(S) - 1 /\ Rank(S, y) \in 0 .. Cardinality(S) - 1
    BY RankInSet
  <2>2. Cardinality(S) \in Nat
    BY SmallSets
  <2> QED BY <2>1, <2>2, Constants
<1>2. ~(x < y) /\ ~(y < x)
  BY <1>1, RankGrows
<1> QED BY <1>1, <1>2

(* There is an element of every rank: the ranks are as many as the         *)
(* elements.                                                               *)
LEMMA RankSurjective ==
  ASSUME NEW S \in SUBSET (0 .. NFRAMES), NEW k \in 0 .. Cardinality(S) - 1
  PROVE  \E x \in S : Rank(S, x) = k
<1> DEFINE T == 0 .. Cardinality(S) - 1
           f == [x \in S |-> Rank(S, x)]
<1>1. Cardinality(S) \in Nat
  BY SmallSets
<1>2. IsFiniteSet(T) /\ Cardinality(T) = Cardinality(S)
  BY <1>1, FS_Interval
<1>3. f \in Injection(S, T)
  BY RankInSet, RankInjective DEF Injection, IsInjective
<1>4. f \in Surjection(S, T)
  <2> HIDE DEF f, T
  <2> QED BY <1>2, <1>3, FS_Injection
<1> QED BY <1>4 DEF Surjection

(* The frames allocFrame returns are free ones, and no two pages get the   *)
(* same.                                                                   *)
LEMMA AllocFrame ==
  ASSUME NEW free \in SUBSET Frames, NEW pages \in SUBSET (0 .. NFRAMES)
  PROVE  /\ allocFrame(free, pages) \in [pages -> free \union {Unmapped}]
         /\ \A u, v \in Valid(allocFrame(free, pages)) :
              allocFrame(free, pages)[u] = allocFrame(free, pages)[v] => u = v
<1>1. free \in SUBSET (0 .. NFRAMES) /\ Unmapped \notin free
  <2>1. \A f \in Frames : f \in 0 .. NFRAMES
    BY Constants DEF Frames
  <2> QED BY <2>1, FrameFacts
<1>2. /\ Cardinality(free) \in Nat
      /\ \A v \in pages : Rank(pages, v) \in Nat
  <2>1. Cardinality(free) \in Nat /\ Cardinality(pages) \in Nat
    BY <1>1, SmallSets
  <2> QED BY <2>1, RankInSet
<1> DEFINE new == allocFrame(free, pages)
<1>3. ASSUME NEW v \in pages, Rank(pages, v) < Cardinality(free)
      PROVE  new[v] \in free /\ Rank(free, new[v]) = Rank(pages, v)
  <2>1. Rank(pages, v) \in 0 .. Cardinality(free) - 1
    BY <1>2, <1>3
  <2>2. \E f \in free : Rank(free, f) = Rank(pages, v)
    BY <1>1, <2>1, RankSurjective
  <2>3. new[v] = CHOOSE f \in free : Rank(free, f) = Rank(pages, v)
    BY <1>3 DEF allocFrame
  <2> QED BY <2>2, <2>3
<1>4. ASSUME NEW v \in pages, ~(Rank(pages, v) < Cardinality(free))
      PROVE  new[v] = Unmapped
  BY <1>4 DEF allocFrame
<1>5. new \in [pages -> free \union {Unmapped}]
  <2>1. \A v \in pages : new[v] \in free \union {Unmapped}
    BY <1>3, <1>4
  <2>2. new = [v \in pages |-> new[v]]
    BY DEF allocFrame
  <2> QED BY <2>1, <2>2
<1>6. ASSUME NEW u \in Valid(new), NEW v \in Valid(new), new[u] = new[v]
      PROVE  u = v
  <2>1. /\ u \in pages /\ v \in pages /\ new[u] # Unmapped /\ new[v] # Unmapped
    BY <1>5 DEF Valid
  <2>2. Rank(pages, u) = Rank(pages, v)
    BY <1>3, <1>4, <1>6, <2>1
  <2> QED BY <2>1, <2>2, RankInjective
<1> QED BY <1>5, <1>6


-----------------------------------------------------------------------------
(***************************************************************************)
(* The inductive invariant.  Owned is what keeps frames apart: every frame *)
(* in use is one of the image's, is at exactly one place or was forgotten. *)
(* A frame that is given back was at a place, so it is none of the image's *)
(* and not forgotten, and no place still holds it; hence a frame that is   *)
(* free is at no place and may be handed out.                              *)
(***************************************************************************)
Image == 0 .. OrigBrk - 1
Forgotten == {x[2] : x \in leaked}
KernelPages == Pages \ KStackPages

\* A page of the kernel image may hold a frame of the image; nothing else does.
ImageApart ==
  \A x \in Places : FrameAt(x) \in Image => x.kind = "kernel" /\ x.v < OrigBrk

Owned ==
  /\ NoSharedFrame
  /\ used = Image \cup MappedFrames \cup Forgotten
  /\ MappedFrames \cap Forgotten = {}
  /\ ImageApart

\* Before the first PCB the frames in use are those below the break, so the lowest
\* free frame has the number of the page that asks for it.
Identity ==
  phase \in {"boot", "vm"} =>
    /\ DOMAIN pcb = {}
    /\ used = 0 .. kernel_brk_page - 1
    /\ pt_region0 = [v \in Pages |-> IF v \in (FirstTextPage .. kernel_brk_page - 1) \cup KStackPages
                                     THEN v ELSE Unmapped]

\* The stack the kernel boots on becomes that of the idle process.
BootStack ==
  /\ phase \in {"boot", "vm", "idle"} =>
       current_process = Idle /\ \A v \in KStackPages : pt_region0[v] = v
  /\ phase = "idle" => /\ DOMAIN pcb = {Idle} /\ ~pcb[Idle].exited
                       /\ \A v \in KStackPages : pcb[Idle].kstack[v] = v

\* A PCB takes the next slot and no slot twice, and a live one runs.
Numbered ==
  /\ DOMAIN pcb \subseteq 0 .. slots - 1
  /\ phase \in {"boot", "vm"} => slots = 0
  /\ phase = "idle" => slots = 1
  /\ phase = "run" => current_process \in DOMAIN pcb /\ ~pcb[current_process].exited

\* A loaded process has its heap and its stack mapped, and above the heap nothing is
\* mapped between the first unmapped page and the stack.  The second part ends with
\* the process: a stack that could not grow may leave a hole.
Tidy(c) ==
  c.load = "loaded" =>
    /\ \A v \in Pages : c.stack_base <= v \/ (c.heap_start <= v /\ v < c.heap_end)
                         => c.pt[v] # Unmapped
    /\ ~c.exited => \A u, v \in Pages :
         c.heap_start <= u /\ c.heap_end <= u /\ u < v /\ v < c.stack_base /\ c.pt[u] = Unmapped
           => c.pt[v] = Unmapped
TidySpaces == \A p \in DOMAIN pcb : Tidy(pcb[p])

MemInv ==
  /\ MemTypeOK
  /\ free_nframes = Cardinality(Free)
  /\ Owned
  /\ kernel_brk_page < KSTACK_START_PAGE
  /\ Identity /\ BootStack /\ Numbered
  /\ KernelHeapIsMapped /\ OwnKernelStack /\ TidySpaces


-----------------------------------------------------------------------------
(* The places, one form for each kind.                                     *)
KernelAt(v) == [kind |-> "kernel", p |-> Idle, v |-> v]
UserAt(p, v) == [kind |-> "user", p |-> p, v |-> v]
KStackAt(p, v) == [kind |-> "kstack", p |-> p, v |-> v]

LEMMA Forms ==
  /\ \A u, v : KernelAt(u) = KernelAt(v) => u = v
  /\ \A p, q, u, v : UserAt(p, u) = UserAt(q, v) => p = q /\ u = v
  /\ \A p, q, u, v : KStackAt(p, u) = KStackAt(q, v) => p = q /\ u = v
  /\ \A p, u, v : KernelAt(u) # UserAt(p, v) /\ KernelAt(u) # KStackAt(p, v)
  /\ \A p, q, u, v : UserAt(p, u) # KStackAt(q, v)
  /\ \A v : KernelAt(v).kind = "kernel" /\ KernelAt(v).v = v
  /\ \A p, v : UserAt(p, v).kind = "user" /\ KStackAt(p, v).kind = "kstack"
BY DEF KernelAt, UserAt, KStackAt

PlaceForms ==
  \A x : x \in Places <=>
    \/ \E v \in Valid(pt_region0) \ KStackPages : x = KernelAt(v)
    \/ \E p \in DOMAIN pcb : \E v \in Valid(pcb[p].pt) : x = UserAt(p, v)
    \/ \E p \in DOMAIN pcb : \E v \in KStackPages : x = KStackAt(p, v)

FrameForms ==
  /\ \A v : FrameAt(KernelAt(v)) = pt_region0[v]
  /\ \A p, v : FrameAt(UserAt(p, v)) = pcb[p].pt[v]
  /\ \A p, v : FrameAt(KStackAt(p, v)) = pcb[p].kstack[v]

LEMMA PlacesAre == PlaceForms
<1> SUFFICES ASSUME NEW x
             PROVE  x \in Places <=>
                      \/ \E v \in Valid(pt_region0) \ KStackPages : x = KernelAt(v)
                      \/ \E p \in DOMAIN pcb : \E v \in Valid(pcb[p].pt) : x = UserAt(p, v)
                      \/ \E p \in DOMAIN pcb : \E v \in KStackPages : x = KStackAt(p, v)
  BY DEF PlaceForms
<1> DEFINE A == [kind : {"kernel"}, p : {Idle}, v : Valid(pt_region0) \ KStackPages]
           B(p) == [kind : {"user"}, p : {p}, v : Valid(pcb[p].pt)]
           C == [kind : {"kstack"}, p : DOMAIN pcb, v : KStackPages]
<1>1. x \in A <=> \E v \in Valid(pt_region0) \ KStackPages : x = KernelAt(v)
  BY DEF KernelAt
<1>2. ASSUME NEW p \in DOMAIN pcb
      PROVE  x \in B(p) <=> \E v \in Valid(pcb[p].pt) : x = UserAt(p, v)
  BY DEF UserAt
<1>3. x \in C <=> \E p \in DOMAIN pcb : \E v \in KStackPages : x = KStackAt(p, v)
  BY DEF KStackAt
<1>4. x \in Places <=> x \in A \/ (\E p \in DOMAIN pcb : x \in B(p)) \/ x \in C
  <2>1. Places = A \cup (UNION {B(p) : p \in DOMAIN pcb}) \cup C
    BY DEF Places
  <2> HIDE DEF A, B, C
  <2> QED BY <2>1
<1> QED BY <1>1, <1>2, <1>3, <1>4

LEMMA FramesAre == FrameForms
BY DEF FrameForms, FrameAt, KernelAt, UserAt, KStackAt

(* What a step owes to Owned: it gives back the frames released, forgets   *)
(* the frames lost, and puts each frame it takes at one place.             *)
Moved(released, lost, taken) ==
  /\ used' = (used \ released) \cup taken
  /\ Forgotten' = Forgotten \cup lost
  /\ released \subseteq MappedFrames /\ lost \subseteq MappedFrames
  /\ released \cap lost = {} /\ released \cap Image = {}
  /\ taken \cap (used \ released) = {}
  /\ \A x \in Places : \/ FrameAt(x) \in released \cup lost
                       \/ x \in Places' /\ FrameAt(x)' = FrameAt(x)
  /\ \A x \in Places' : \/ FrameAt(x)' \in taken
                        \/ /\ x \in Places /\ FrameAt(x)' = FrameAt(x)
                           /\ FrameAt(x) \notin released \cup lost
  /\ \A x, y \in Places' : FrameAt(x)' \in taken /\ FrameAt(x)' = FrameAt(y)' => x = y
  /\ \A f \in taken : \E x \in Places' : FrameAt(x)' = f

LEMMA Moves ==
  ASSUME Owned, NEW released, NEW lost, NEW taken, Moved(released, lost, taken)
  PROVE  Owned'
<1>1. MappedFrames' = (MappedFrames \ (released \cup lost)) \cup taken
  BY DEF MappedFrames, Moved
<1>2. \A x \in Places : FrameAt(x) \in used
  BY DEF Owned, MappedFrames
<1>3. NoSharedFrame'
  BY <1>2 DEF Owned, NoSharedFrame, Moved
<1>4. (used = Image \cup MappedFrames \cup Forgotten)'
  <2>1. Image' = Image
    BY DEF Image
  <2> QED BY <1>1, <2>1 DEF Owned, Moved
<1>5. (MappedFrames \cap Forgotten = {})'
  BY <1>1 DEF Owned, Moved
<1>6. ImageApart'
  <2>1. taken \cap Image = {}
    BY DEF Owned, Moved
  <2> QED BY <2>1 DEF Owned, ImageApart, Image, Moved
<1> QED BY <1>3, <1>4, <1>5, <1>6 DEF Owned

(* The tables have their types: facts the steps below cite.                *)
TableForms ==
  /\ pt_region0 \in [Pages -> Pte]
  /\ Valid(pt_region0) = {v \in Pages : pt_region0[v] # Unmapped}
  /\ \A p \in DOMAIN pcb :
       /\ pcb[p].pt \in [Pages -> Pte]
       /\ pcb[p].kstack \in [KStackPages -> Frames]
       /\ Valid(pcb[p].pt) = {v \in Pages : pcb[p].pt[v] # Unmapped}

LEMMA Tables == MemTypeOK => TableForms
<1> SUFFICES ASSUME MemTypeOK PROVE TableForms
  OBVIOUS
<1>1. \A p \in DOMAIN pcb : pcb[p] \in Pcb
  BY DEF MemTypeOK
<1>2. \A p \in DOMAIN pcb : /\ pcb[p].pt \in [Pages -> Pte]
                            /\ pcb[p].kstack \in [KStackPages -> Frames]
  BY <1>1 DEF Pcb
<1>3. pt_region0 \in [Pages -> Pte]
  BY DEF MemTypeOK
<1> QED BY <1>2, <1>3 DEF Valid, TableForms


(* The places of a state, page by page.                                    *)
Spots ==
  \A x : x \in Places <=>
    \/ \E v \in KernelPages : pt_region0[v] # Unmapped /\ x = KernelAt(v)
    \/ \E p \in DOMAIN pcb : \E v \in Pages : pcb[p].pt[v] # Unmapped /\ x = UserAt(p, v)
    \/ \E p \in DOMAIN pcb : \E v \in KStackPages : x = KStackAt(p, v)

LEMMA SpotsAre == MemTypeOK => Spots
BY Tables, PlacesAre DEF Spots, PlaceForms, TableForms, KernelPages

LEMMA TwoStates ==
  ASSUME MemTypeOK, MemTypeOK'
  PROVE  Spots /\ FrameForms /\ TableForms /\ Spots' /\ FrameForms' /\ TableForms'
<1>1. TableForms /\ Spots
  BY Tables, SpotsAre
<1>2. TableForms' /\ Spots'
  BY Tables, SpotsAre, PTL
<1> QED BY <1>1, <1>2, FramesAre, PTL

(* A step that changes no table but the kernel-stack part of pt_region0.   *)
LEMMA Unmoved ==
  ASSUME Owned, MemTypeOK, MemTypeOK',
         used' = used, Forgotten' = Forgotten,
         \A v \in KernelPages : pt_region0'[v] = pt_region0[v],
         DOMAIN pcb' = DOMAIN pcb,
         \A p \in DOMAIN pcb : pcb'[p].pt = pcb[p].pt /\ pcb'[p].kstack = pcb[p].kstack
  PROVE  Owned'
<1>1. /\ \A x \in Places : x \in Places' /\ FrameAt(x)' = FrameAt(x)
      /\ \A x \in Places' : x \in Places
  BY TwoStates DEF Spots, FrameForms
<1>2. Moved({}, {}, {})
  BY <1>1 DEF Moved
<1> QED BY <1>2, Moves

(* Mapped frames are in use, and each is at one place.                     *)
OnePlace ==
  /\ \A v \in KernelPages : pt_region0[v] # Unmapped =>
       /\ pt_region0[v] \in used
       /\ \A u \in KernelPages : pt_region0[u] = pt_region0[v] => u = v
       /\ \A p \in DOMAIN pcb : /\ \A u \in Pages : pcb[p].pt[u] # pt_region0[v]
                                /\ \A u \in KStackPages : pcb[p].kstack[u] # pt_region0[v]
       /\ pt_region0[v] \in Image => v < OrigBrk
  /\ \A p \in DOMAIN pcb : \A v \in Pages : pcb[p].pt[v] # Unmapped =>
       /\ pcb[p].pt[v] \in used /\ pcb[p].pt[v] \notin Image
       /\ \A q \in DOMAIN pcb :
            /\ \A u \in Pages : pcb[q].pt[u] = pcb[p].pt[v] => q = p /\ u = v
            /\ \A u \in KStackPages : pcb[q].kstack[u] # pcb[p].pt[v]
  /\ \A p \in DOMAIN pcb : \A v \in KStackPages :
       /\ pcb[p].kstack[v] \in used
       /\ \A q \in DOMAIN pcb : \A u \in KStackPages :
            pcb[q].kstack[u] = pcb[p].kstack[v] => q = p /\ u = v

LEMMA OwnedPlaces ==
  ASSUME MemTypeOK, Owned
  PROVE  OnePlace
<1>1. Spots /\ FrameForms
  BY SpotsAre, FramesAre
<1>2. \A x \in Places : FrameAt(x) \in used
  BY DEF Owned, MappedFrames
<1>3. \A v \in KernelPages : pt_region0[v] # Unmapped =>
        KernelAt(v) \in Places /\ FrameAt(KernelAt(v)) = pt_region0[v]
  BY <1>1 DEF Spots, FrameForms
<1>4. \A p \in DOMAIN pcb : \A v \in Pages : pcb[p].pt[v] # Unmapped =>
        UserAt(p, v) \in Places /\ FrameAt(UserAt(p, v)) = pcb[p].pt[v]
  BY <1>1 DEF Spots, FrameForms
<1>5. \A p \in DOMAIN pcb : \A v \in KStackPages :
        KStackAt(p, v) \in Places /\ FrameAt(KStackAt(p, v)) = pcb[p].kstack[v]
  BY <1>1 DEF Spots, FrameForms
<1> QED BY <1>2, <1>3, <1>4, <1>5, Forms DEF Owned, NoSharedFrame, ImageApart, OnePlace


(* A table changes at the pages of D: what it held there is released or    *)
(* lost, what it holds there now is taken.                                 *)
Remap(old, new, D, g, released, lost, taken) ==
  /\ D \subseteq Pages
  /\ \A v \in D : new[v] = g[v]
  /\ \A v \in Pages \ D : new[v] = old[v]
  /\ \A f : f \in released \/ f \in lost <=> f # Unmapped /\ \E v \in D : old[v] = f
  /\ released \cap lost = {}
  /\ \A f : f \in taken <=> f # Unmapped /\ \E v \in D : g[v] = f
  /\ \A u, v \in D : g[u] = g[v] /\ g[u] # Unmapped => u = v

(* A step that changes the table of one process.                           *)
LEMMA UserMoves ==
  ASSUME Owned, MemTypeOK, MemTypeOK', NEW c \in DOMAIN pcb, NEW D, NEW g,
         NEW released, NEW lost, NEW taken,
         used' = (used \ released) \cup taken,
         Forgotten' = Forgotten \cup lost,
         taken \cap (used \ released) = {},
         \A v \in KernelPages : pt_region0'[v] = pt_region0[v],
         DOMAIN pcb' = DOMAIN pcb,
         \A p \in DOMAIN pcb : pcb'[p].kstack = pcb[p].kstack /\ (p # c => pcb'[p].pt = pcb[p].pt),
         Remap(pcb[c].pt, pcb'[c].pt, D, g, released, lost, taken)
  PROVE  Owned'
<1>1. Spots /\ FrameForms /\ Spots' /\ FrameForms'
  BY TwoStates
<1>2. OnePlace
  BY OwnedPlaces
<1>a. \A f : f \in released \cup lost =>
         \E v \in D : v \in Pages /\ pcb[c].pt[v] = f /\ f # Unmapped
  BY DEF Remap
<1>3. \A f \in released \cup lost : f \in MappedFrames /\ f \notin Image
  <2> SUFFICES ASSUME NEW f \in released \cup lost PROVE f \in MappedFrames /\ f \notin Image
    OBVIOUS
  <2>1. PICK v \in Pages : pcb[c].pt[v] = f /\ f # Unmapped
    BY <1>a
  <2>2. UserAt(c, v) \in Places /\ FrameAt(UserAt(c, v)) = f
    BY <1>1, <2>1 DEF Spots, FrameForms
  <2> QED BY <1>2, <2>1, <2>2 DEF MappedFrames, OnePlace
<1>4. ASSUME NEW x \in Places
      PROVE  FrameAt(x) \in released \cup lost \/ (x \in Places' /\ FrameAt(x)' = FrameAt(x))
  <2>1. ASSUME NEW v \in KernelPages, pt_region0[v] # Unmapped, x = KernelAt(v)
        PROVE  x \in Places' /\ FrameAt(x)' = FrameAt(x)
    BY <1>1, <2>1 DEF Spots, FrameForms
  <2>2. ASSUME NEW p \in DOMAIN pcb, NEW v \in KStackPages, x = KStackAt(p, v)
        PROVE  x \in Places' /\ FrameAt(x)' = FrameAt(x)
    BY <1>1, <2>2 DEF Spots, FrameForms
  <2>3. ASSUME NEW p \in DOMAIN pcb, NEW v \in Pages, pcb[p].pt[v] # Unmapped, x = UserAt(p, v)
        PROVE  FrameAt(x) \in released \cup lost \/ (x \in Places' /\ FrameAt(x)' = FrameAt(x))
    <3>1. FrameAt(x) = pcb[p].pt[v] /\ FrameAt(x)' = pcb'[p].pt[v]
      BY <1>1, <2>3 DEF FrameForms
    <3>2. pcb[p].pt[v] \in released \cup lost \/ pcb'[p].pt[v] = pcb[p].pt[v]
      BY <2>3 DEF Remap
    <3> QED BY <1>1, <2>3, <3>1, <3>2 DEF Spots
  <2> QED BY <1>1, <2>1, <2>2, <2>3 DEF Spots
<1>5. ASSUME NEW x \in Places'
      PROVE  \/ FrameAt(x)' \in taken /\ \E v \in D : x = UserAt(c, v) /\ g[v] = FrameAt(x)'
             \/ /\ x \in Places /\ FrameAt(x)' = FrameAt(x)
                /\ FrameAt(x) \notin released \cup lost
  <2>1. ASSUME NEW v \in KernelPages, pt_region0'[v] # Unmapped, x = KernelAt(v)
        PROVE  x \in Places /\ FrameAt(x)' = FrameAt(x) /\ FrameAt(x) \notin released \cup lost
    BY <1>1, <1>2, <1>a, <2>1 DEF Spots, FrameForms, OnePlace
  <2>2. ASSUME NEW p \in DOMAIN pcb, NEW v \in KStackPages, x = KStackAt(p, v)
        PROVE  x \in Places /\ FrameAt(x)' = FrameAt(x) /\ FrameAt(x) \notin released \cup lost
    <3>1. x \in Places /\ FrameAt(x)' = FrameAt(x) /\ FrameAt(x) = pcb[p].kstack[v]
      BY <1>1, <2>2 DEF Spots, FrameForms
    <3>2. pcb[p].kstack[v] \notin released \cup lost
      BY <1>2, <1>a DEF OnePlace
    <3> QED BY <3>1, <3>2
  <2>3. ASSUME NEW p \in DOMAIN pcb, NEW v \in Pages, pcb'[p].pt[v] # Unmapped, x = UserAt(p, v)
        PROVE  \/ FrameAt(x)' \in taken /\ \E w \in D : x = UserAt(c, w) /\ g[w] = FrameAt(x)'
               \/ /\ x \in Places /\ FrameAt(x)' = FrameAt(x)
                  /\ FrameAt(x) \notin released \cup lost
    <3>1. FrameAt(x) = pcb[p].pt[v] /\ FrameAt(x)' = pcb'[p].pt[v]
      BY <1>1, <2>3 DEF FrameForms
    <3>2. CASE p = c /\ v \in D
      BY <2>3, <3>1, <3>2 DEF Remap
    <3>3. CASE ~(p = c /\ v \in D)
      <4>1. pcb'[p].pt[v] = pcb[p].pt[v]
        BY <2>3, <3>3 DEF Remap
      <4>2. x \in Places
        BY <1>1, <2>3, <4>1 DEF Spots
      <4>3. pcb[p].pt[v] \notin released \cup lost
        BY <1>2, <1>a, <2>3, <3>3, <4>1 DEF OnePlace
      <4> QED BY <3>1, <4>1, <4>2, <4>3
    <3> QED BY <3>2, <3>3
  <2> QED BY <1>1, <2>1, <2>2, <2>3 DEF Spots
<1>6. \A x, y \in Places' : FrameAt(x)' \in taken /\ FrameAt(x)' = FrameAt(y)' => x = y
  <2>1. \A x \in Places : FrameAt(x) \in used
    BY DEF Owned, MappedFrames
  <2>2. \A x \in Places' : FrameAt(x)' \in taken =>
           \E v \in D : x = UserAt(c, v) /\ g[v] = FrameAt(x)'
    BY <1>5, <2>1
  <2>3. \A f \in taken : f # Unmapped
    BY DEF Remap
  <2>4. \A u, v \in D : g[u] = g[v] /\ g[u] # Unmapped => u = v
    BY DEF Remap
  <2> QED BY <2>2, <2>3, <2>4
<1>7. \A f \in taken : \E x \in Places' : FrameAt(x)' = f
  <2> SUFFICES ASSUME NEW f \in taken PROVE \E x \in Places' : FrameAt(x)' = f
    OBVIOUS
  <2>1. PICK v \in D : v \in Pages /\ g[v] = f /\ f # Unmapped /\ pcb'[c].pt[v] = f
    BY DEF Remap
  <2>2. UserAt(c, v) \in Places' /\ FrameAt(UserAt(c, v))' = f
    BY <1>1, <2>1 DEF Spots, FrameForms
  <2> QED BY <2>2
<1>8. Moved(released, lost, taken)
  <2>1. released \cap lost = {}
    BY DEF Remap
  <2> QED BY <1>3, <1>4, <1>5, <1>6, <1>7, <2>1 DEF Moved
<1> QED BY <1>8, Moves


(* A step that changes the kernel's table above the image.                 *)
LEMMA KernelMoves ==
  ASSUME Owned, MemTypeOK, MemTypeOK', NEW D, NEW g,
         NEW released, NEW lost, NEW taken,
         used' = (used \ released) \cup taken,
         Forgotten' = Forgotten \cup lost,
         taken \cap (used \ released) = {},
         pcb' = pcb,
         \A v \in D : v \in KernelPages /\ ~(v < OrigBrk),
         Remap(pt_region0, pt_region0', D, g, released, lost, taken)
  PROVE  Owned'
<1>1. Spots /\ FrameForms /\ Spots' /\ FrameForms'
  BY TwoStates
<1>2. OnePlace
  BY OwnedPlaces
<1>k. KernelPages \subseteq Pages
  BY DEF KernelPages
<1>a. \A f : f \in released \cup lost =>
         \E v \in D : v \in KernelPages /\ pt_region0[v] = f /\ f # Unmapped /\ ~(v < OrigBrk)
  BY DEF Remap
<1>3. \A f \in released \cup lost : f \in MappedFrames /\ f \notin Image
  <2> SUFFICES ASSUME NEW f \in released \cup lost PROVE f \in MappedFrames /\ f \notin Image
    OBVIOUS
  <2>1. PICK v \in KernelPages : pt_region0[v] = f /\ f # Unmapped /\ ~(v < OrigBrk)
    BY <1>a
  <2>2. KernelAt(v) \in Places /\ FrameAt(KernelAt(v)) = f
    BY <1>1, <2>1 DEF Spots, FrameForms
  <2> QED BY <1>2, <2>1, <2>2 DEF MappedFrames, OnePlace
<1>4. ASSUME NEW x \in Places
      PROVE  FrameAt(x) \in released \cup lost \/ (x \in Places' /\ FrameAt(x)' = FrameAt(x))
  <2>1. ASSUME NEW v \in KernelPages, pt_region0[v] # Unmapped, x = KernelAt(v)
        PROVE  FrameAt(x) \in released \cup lost \/ (x \in Places' /\ FrameAt(x)' = FrameAt(x))
    <3>1. FrameAt(x) = pt_region0[v] /\ FrameAt(x)' = pt_region0'[v]
      BY <1>1, <2>1 DEF FrameForms
    <3>2. pt_region0[v] \in released \cup lost \/ pt_region0'[v] = pt_region0[v]
      BY <1>k, <2>1 DEF Remap
    <3> QED BY <1>1, <2>1, <3>1, <3>2 DEF Spots
  <2>2. ASSUME NEW p \in DOMAIN pcb, NEW v \in KStackPages, x = KStackAt(p, v)
        PROVE  x \in Places' /\ FrameAt(x)' = FrameAt(x)
    BY <1>1, <2>2 DEF Spots, FrameForms
  <2>3. ASSUME NEW p \in DOMAIN pcb, NEW v \in Pages, pcb[p].pt[v] # Unmapped, x = UserAt(p, v)
        PROVE  x \in Places' /\ FrameAt(x)' = FrameAt(x)
    BY <1>1, <2>3 DEF Spots, FrameForms
  <2> QED BY <1>1, <2>1, <2>2, <2>3 DEF Spots
<1>5. ASSUME NEW x \in Places'
      PROVE  \/ FrameAt(x)' \in taken /\ \E v \in D : x = KernelAt(v) /\ g[v] = FrameAt(x)'
             \/ /\ x \in Places /\ FrameAt(x)' = FrameAt(x)
                /\ FrameAt(x) \notin released \cup lost
  <2>1. ASSUME NEW v \in KernelPages, pt_region0'[v] # Unmapped, x = KernelAt(v)
        PROVE  \/ FrameAt(x)' \in taken /\ \E w \in D : x = KernelAt(w) /\ g[w] = FrameAt(x)'
               \/ /\ x \in Places /\ FrameAt(x)' = FrameAt(x)
                  /\ FrameAt(x) \notin released \cup lost
    <3>1. FrameAt(x) = pt_region0[v] /\ FrameAt(x)' = pt_region0'[v]
      BY <1>1, <2>1 DEF FrameForms
    <3>2. CASE v \in D
      BY <2>1, <3>1, <3>2 DEF Remap
    <3>3. CASE v \notin D
      <4>1. pt_region0'[v] = pt_region0[v]
        BY <1>k, <3>3 DEF Remap
      <4>2. x \in Places
        BY <1>1, <2>1, <4>1 DEF Spots
      <4>3. pt_region0[v] \notin released \cup lost
        BY <1>2, <1>a, <2>1, <3>3, <4>1 DEF OnePlace
      <4> QED BY <3>1, <4>1, <4>2, <4>3
    <3> QED BY <3>2, <3>3
  <2>2. ASSUME NEW p \in DOMAIN pcb, NEW v \in KStackPages, x = KStackAt(p, v)
        PROVE  x \in Places /\ FrameAt(x)' = FrameAt(x) /\ FrameAt(x) \notin released \cup lost
    <3>1. x \in Places /\ FrameAt(x)' = FrameAt(x) /\ FrameAt(x) = pcb[p].kstack[v]
      BY <1>1, <2>2 DEF Spots, FrameForms
    <3>2. pcb[p].kstack[v] \notin released \cup lost
      BY <1>2, <1>a DEF OnePlace
    <3> QED BY <3>1, <3>2
  <2>3. ASSUME NEW p \in DOMAIN pcb, NEW v \in Pages, pcb[p].pt[v] # Unmapped, x = UserAt(p, v)
        PROVE  x \in Places /\ FrameAt(x)' = FrameAt(x) /\ FrameAt(x) \notin released \cup lost
    <3>1. x \in Places /\ FrameAt(x)' = FrameAt(x) /\ FrameAt(x) = pcb[p].pt[v]
      BY <1>1, <2>3 DEF Spots, FrameForms
    <3>2. pcb[p].pt[v] \notin released \cup lost
      BY <1>2, <1>a DEF OnePlace
    <3> QED BY <3>1, <3>2
  <2> QED BY <1>1, <2>1, <2>2, <2>3 DEF Spots
<1>6. \A x, y \in Places' : FrameAt(x)' \in taken /\ FrameAt(x)' = FrameAt(y)' => x = y
  <2>1. \A x \in Places : FrameAt(x) \in used
    BY DEF Owned, MappedFrames
  <2>2. \A x \in Places' : FrameAt(x)' \in taken =>
           \E v \in D : x = KernelAt(v) /\ g[v] = FrameAt(x)'
    BY <1>5, <2>1
  <2>3. \A f \in taken : f # Unmapped
    BY DEF Remap
  <2>4. \A u, v \in D : g[u] = g[v] /\ g[u] # Unmapped => u = v
    BY DEF Remap
  <2> QED BY <2>2, <2>3, <2>4
<1>7. \A f \in taken : \E x \in Places' : FrameAt(x)' = f
  <2> SUFFICES ASSUME NEW f \in taken PROVE \E x \in Places' : FrameAt(x)' = f
    OBVIOUS
  <2>1. PICK v \in D : v \in KernelPages /\ g[v] = f /\ f # Unmapped /\ pt_region0'[v] = f
    BY DEF Remap
  <2>2. KernelAt(v) \in Places' /\ FrameAt(KernelAt(v))' = f
    BY <1>1, <2>1 DEF Spots, FrameForms
  <2> QED BY <2>2
<1>8. Moved(released, lost, taken)
  <2>1. released \cap lost = {}
    BY DEF Remap
  <2> QED BY <1>3, <1>4, <1>5, <1>6, <1>7, <2>1 DEF Moved
<1> QED BY <1>8, Moves

(* A process is created in free frames, and its creation unmaps the pages  *)
(* of D in the kernel's table (those CloneFrame borrows, or none).         *)
Spawns(c, D, lost, taken) ==
  /\ c \notin DOMAIN pcb /\ DOMAIN pcb' = DOMAIN pcb \cup {c}
  /\ \A p \in DOMAIN pcb : pcb'[p].kstack = pcb[p].kstack /\ pcb'[p].pt = pcb[p].pt
  /\ used' = used \cup taken /\ taken \cap used = {}
  /\ Forgotten' = Forgotten \cup lost
  /\ D \subseteq KernelPages
  /\ \A v \in D : pt_region0'[v] = Unmapped
  /\ \A v \in KernelPages \ D : pt_region0'[v] = pt_region0[v]
  /\ \A f : f \in lost <=> f # Unmapped /\ \E v \in D : pt_region0[v] = f
  /\ \A f : f \in taken <=> \/ f # Unmapped /\ \E v \in Pages : pcb'[c].pt[v] = f
                            \/ \E v \in KStackPages : pcb'[c].kstack[v] = f
  /\ \A u, v \in Pages : pcb'[c].pt[u] = pcb'[c].pt[v] /\ pcb'[c].pt[u] # Unmapped => u = v
  /\ \A u, v \in KStackPages : pcb'[c].kstack[u] = pcb'[c].kstack[v] => u = v
  /\ \A u \in Pages, v \in KStackPages : pcb'[c].pt[u] # pcb'[c].kstack[v]

LEMMA CreationMoves ==
  ASSUME Owned, MemTypeOK, MemTypeOK', NEW c, NEW D, NEW lost, NEW taken,
         Spawns(c, D, lost, taken)
  PROVE  Owned'
<1> USE DEF Spawns
<1>1. Spots /\ FrameForms /\ Spots' /\ FrameForms'
  BY TwoStates
<1>2. OnePlace
  BY OwnedPlaces
<1>3. \A f \in lost : f \in MappedFrames
  <2> SUFFICES ASSUME NEW f \in lost PROVE f \in MappedFrames
    OBVIOUS
  <2>1. PICK v \in KernelPages : pt_region0[v] = f /\ f # Unmapped
    OBVIOUS
  <2>2. KernelAt(v) \in Places /\ FrameAt(KernelAt(v)) = f
    BY <1>1, <2>1 DEF Spots, FrameForms
  <2> QED BY <2>2 DEF MappedFrames
<1>4. ASSUME NEW x \in Places
      PROVE  FrameAt(x) \in lost \/ (x \in Places' /\ FrameAt(x)' = FrameAt(x))
  <2>1. ASSUME NEW v \in KernelPages, pt_region0[v] # Unmapped, x = KernelAt(v)
        PROVE  FrameAt(x) \in lost \/ (x \in Places' /\ FrameAt(x)' = FrameAt(x))
    <3>1. FrameAt(x) = pt_region0[v] /\ FrameAt(x)' = pt_region0'[v]
      BY <1>1, <2>1 DEF FrameForms
    <3>2. pt_region0[v] \in lost \/ pt_region0'[v] = pt_region0[v]
      BY <2>1
    <3> QED BY <1>1, <2>1, <3>1, <3>2 DEF Spots
  <2>2. ASSUME NEW p \in DOMAIN pcb, NEW v \in KStackPages, x = KStackAt(p, v)
        PROVE  x \in Places' /\ FrameAt(x)' = FrameAt(x)
    BY <1>1, <2>2 DEF Spots, FrameForms
  <2>3. ASSUME NEW p \in DOMAIN pcb, NEW v \in Pages, pcb[p].pt[v] # Unmapped, x = UserAt(p, v)
        PROVE  x \in Places' /\ FrameAt(x)' = FrameAt(x)
    BY <1>1, <2>3 DEF Spots, FrameForms
  <2> QED BY <1>1, <2>1, <2>2, <2>3 DEF Spots
<1>5. ASSUME NEW x \in Places'
      PROVE  \/ \E v \in Pages : x = UserAt(c, v) /\ pcb'[c].pt[v] = FrameAt(x)'
                                 /\ FrameAt(x)' # Unmapped
             \/ \E v \in KStackPages : x = KStackAt(c, v) /\ pcb'[c].kstack[v] = FrameAt(x)'
             \/ x \in Places /\ FrameAt(x)' = FrameAt(x) /\ FrameAt(x) \notin lost
  <2>1. ASSUME NEW v \in KernelPages, pt_region0'[v] # Unmapped, x = KernelAt(v)
        PROVE  x \in Places /\ FrameAt(x)' = FrameAt(x) /\ FrameAt(x) \notin lost
    <3>1. v \notin D /\ pt_region0'[v] = pt_region0[v]
      BY <2>1
    <3>2. x \in Places /\ FrameAt(x)' = FrameAt(x) /\ FrameAt(x) = pt_region0[v]
      BY <1>1, <2>1, <3>1 DEF Spots, FrameForms
    <3>3. pt_region0[v] \notin lost
      BY <1>2, <2>1, <3>1 DEF OnePlace
    <3> QED BY <3>2, <3>3
  <2>2. ASSUME NEW p \in DOMAIN pcb', NEW v \in KStackPages, x = KStackAt(p, v)
        PROVE  \/ p = c /\ pcb'[c].kstack[v] = FrameAt(x)'
               \/ x \in Places /\ FrameAt(x)' = FrameAt(x) /\ FrameAt(x) \notin lost
    <3>1. CASE p = c
      BY <1>1, <2>2, <3>1 DEF FrameForms
    <3>2. CASE p \in DOMAIN pcb
      <4>1. x \in Places /\ FrameAt(x)' = FrameAt(x) /\ FrameAt(x) = pcb[p].kstack[v]
        BY <1>1, <2>2, <3>2 DEF Spots, FrameForms
      <4>2. pcb[p].kstack[v] \notin lost
        BY <1>2, <3>2 DEF OnePlace
      <4> QED BY <4>1, <4>2
    <3> QED BY <3>1, <3>2
  <2>3. ASSUME NEW p \in DOMAIN pcb', NEW v \in Pages, pcb'[p].pt[v] # Unmapped, x = UserAt(p, v)
        PROVE  \/ p = c /\ pcb'[c].pt[v] = FrameAt(x)' /\ FrameAt(x)' # Unmapped
               \/ x \in Places /\ FrameAt(x)' = FrameAt(x) /\ FrameAt(x) \notin lost
    <3>1. CASE p = c
      BY <1>1, <2>3, <3>1 DEF FrameForms
    <3>2. CASE p \in DOMAIN pcb
      <4>1. x \in Places /\ FrameAt(x)' = FrameAt(x) /\ FrameAt(x) = pcb[p].pt[v]
        BY <1>1, <2>3, <3>2 DEF Spots, FrameForms
      <4>2. pcb[p].pt[v] \notin lost
        BY <1>2, <3>2 DEF OnePlace
      <4> QED BY <4>1, <4>2
    <3> QED BY <3>1, <3>2
  <2> QED BY <1>1, <2>1, <2>2, <2>3 DEF Spots
<1>6. \A x \in Places' : \/ FrameAt(x)' \in taken
                         \/ x \in Places /\ FrameAt(x)' = FrameAt(x) /\ FrameAt(x) \notin lost
  <2>1. \A v \in Pages : pcb'[c].pt[v] # Unmapped => pcb'[c].pt[v] \in taken
    OBVIOUS
  <2>2. \A v \in KStackPages : pcb'[c].kstack[v] \in taken
    OBVIOUS
  <2> QED BY <1>5, <2>1, <2>2
<1>7. \A x, y \in Places' : FrameAt(x)' \in taken /\ FrameAt(x)' = FrameAt(y)' => x = y
  <2>1. \A x \in Places : FrameAt(x) \notin taken
    BY DEF Owned, MappedFrames
  <2>2. \A x \in Places' : FrameAt(x)' \in taken =>
          \/ \E v \in Pages : x = UserAt(c, v) /\ pcb'[c].pt[v] = FrameAt(x)'
                              /\ FrameAt(x)' # Unmapped
          \/ \E v \in KStackPages : x = KStackAt(c, v) /\ pcb'[c].kstack[v] = FrameAt(x)'
    BY <1>5, <2>1
  <2> QED BY <2>2
<1>8. \A f \in taken : \E x \in Places' : FrameAt(x)' = f
  <2> SUFFICES ASSUME NEW f \in taken PROVE \E x \in Places' : FrameAt(x)' = f
    OBVIOUS
  <2>1. CASE \E v \in Pages : pcb'[c].pt[v] = f /\ f # Unmapped
    <3>1. PICK v \in Pages : pcb'[c].pt[v] = f /\ f # Unmapped
      BY <2>1
    <3>2. UserAt(c, v) \in Places' /\ FrameAt(UserAt(c, v))' = f
      BY <1>1, <3>1 DEF Spots, FrameForms
    <3> QED BY <3>2
  <2>2. CASE \E v \in KStackPages : pcb'[c].kstack[v] = f
    <3>1. PICK v \in KStackPages : pcb'[c].kstack[v] = f
      BY <2>2
    <3>2. KStackAt(c, v) \in Places' /\ FrameAt(KStackAt(c, v))' = f
      BY <1>1, <3>1 DEF Spots, FrameForms
    <3> QED BY <3>2
  <2> QED BY <2>1, <2>2
<1>9. Moved({}, lost, taken)
  BY <1>3, <1>4, <1>6, <1>7, <1>8 DEF Moved
<1> QED BY <1>9, Moves


-----------------------------------------------------------------------------
(* The kernel's count of free frames.                                      *)
LEMMA Counted ==
  ASSUME used \in SUBSET Frames, free_nframes = Cardinality(Free),
         NEW released \in SUBSET used, NEW taken \in SUBSET Frames,
         taken \cap (used \ released) = {}, Account(released, taken)
  PROVE  /\ used' = (used \ released) \cup taken
         /\ used' \in SUBSET Frames
         /\ free_nframes' = Cardinality(Free')
         /\ free_nframes' \in 0 .. NFRAMES
<1>1. used' = (used \ released) \cup taken
  BY DEF Account
<1>2. used' \in SUBSET Frames
  BY <1>1
<1> DEFINE S == Free \cup released
<1>3. /\ IsFiniteSet(Free) /\ IsFiniteSet(released) /\ IsFiniteSet(taken) /\ IsFiniteSet(S)
      /\ IsFiniteSet(Free')
  <2>1. /\ Free \subseteq Frames /\ released \subseteq Frames /\ S \subseteq Frames
        /\ Free' \subseteq Frames
    BY DEF Free, Frames
  <2> QED BY <2>1, FrameFacts, FS_Subset
<1>4. /\ Cardinality(Free) \in Nat /\ Cardinality(released) \in Nat
      /\ Cardinality(taken) \in Nat /\ Cardinality(S) \in Nat /\ Cardinality(Free') \in Nat
  BY <1>3, FS_CardinalityType
<1>5. Cardinality(S) = Cardinality(Free) + Cardinality(released)
  <2>1. Free \cap released = {}
    BY DEF Free
  <2>2. Cardinality(Free \cap released) = 0
    BY <2>1, FS_EmptySet
  <2>3. Cardinality(S) = Cardinality(Free) + Cardinality(released)
                           - Cardinality(Free \cap released)
    BY <1>3, FS_Union
  <2> QED BY <1>4, <2>2, <2>3
<1>6. Cardinality(S \ taken) = Cardinality(S) - Cardinality(taken)
  <2>1. S \cap taken = taken
    BY DEF Free
  <2>2. Cardinality(S \ taken) = Cardinality(S) - Cardinality(S \cap taken)
    BY <1>3, FS_Difference
  <2> QED BY <2>1, <2>2
<1>7. Free' = S \ taken
  <2>1. Frames' = Frames
    BY DEF Frames
  <2> QED BY <1>1, <2>1 DEF Free
<1>8. free_nframes' = Cardinality(Free')
  <2>1. free_nframes + Cardinality(released) - Cardinality(taken) = Cardinality(Free')
    BY <1>4, <1>5, <1>6, <1>7
  <2> QED BY <1>4, <2>1 DEF Account
<1>9. Cardinality(Free') <= NFRAMES
  <2>1. Cardinality(Frames) = NFRAMES
    BY Constants, FS_Interval DEF Frames
  <2>2. Free' \subseteq Frames
    BY DEF Free, Frames
  <2> QED BY <2>1, <2>2, FrameFacts, FS_Subset
<1> QED BY <1>1, <1>2, <1>4, <1>8, <1>9, Constants

(* What a loop over allocFrame hands out, and the tables made of it.       *)
Supplies(new, pages, free) ==
  /\ new \in [pages -> free \cup {Unmapped}]
  /\ \A u, v \in pages : new[u] = new[v] /\ new[u] # Unmapped => u = v

LEMMA Allocated ==
  ASSUME NEW free \in SUBSET Frames, NEW pages \in SUBSET Pages
  PROVE  Supplies(allocFrame(free, pages), pages, free)
<1>1. \A v \in Pages : v \in 0 .. NFRAMES
  BY Constants DEF Pages
<1>2. pages \in SUBSET (0 .. NFRAMES)
  BY <1>1
<1> DEFINE new == allocFrame(free, pages)
<1>3. /\ new \in [pages -> free \union {Unmapped}]
      /\ \A u, v \in Valid(new) : new[u] = new[v] => u = v
  BY <1>2, AllocFrame
<1> HIDE DEF new
<1>4. Supplies(new, pages, free)
  BY <1>3 DEF Supplies, Valid
<1> QED BY <1>4 DEF new

LEMMA Supplied ==
  ASSUME NEW free \in SUBSET Frames, NEW pages \in SUBSET Pages, NEW new,
         Supplies(new, pages, free)
  PROVE  /\ Valid(new) = {v \in pages : new[v] # Unmapped}
         /\ Valid(new) \in SUBSET pages
         /\ \A v \in Valid(new) : new[v] \in free /\ new[v] # Unmapped
         /\ FramesOf(new) \in SUBSET free
         /\ \A f : f \in FramesOf(new) <=> f # Unmapped /\ \E v \in Valid(new) : new[v] = f
BY DEF Supplies, Valid, FramesOf

LEMMA TableOps ==
  ASSUME NEW pt \in [Pages -> Pte]
  PROVE  /\ \A pages \in SUBSET Pages :
              /\ UnmapPages(pt, pages) \in [Pages -> Pte]
              /\ \A v \in pages : UnmapPages(pt, pages)[v] = Unmapped
              /\ \A v \in Pages \ pages : UnmapPages(pt, pages)[v] = pt[v]
         /\ \A new : (\A v \in DOMAIN new : new[v] \in Pte) =>
              /\ MapPages(pt, new) \in [Pages -> Pte]
              /\ \A v \in Pages : MapPages(pt, new)[v] = IF v \in DOMAIN new THEN new[v] ELSE pt[v]
         /\ \A pages : \A f : f \in FramesIn(pt, pages) <=>
              f # Unmapped /\ \E v \in pages : v \in Pages /\ pt[v] = f
         /\ \A f : f \in FramesOf(pt) <=> f # Unmapped /\ \E v \in Pages : pt[v] = f
         /\ FramesOf(pt) \subseteq Frames
<1>1. \A pages \in SUBSET Pages :
              /\ UnmapPages(pt, pages) \in [Pages -> Pte]
              /\ \A v \in pages : UnmapPages(pt, pages)[v] = Unmapped
              /\ \A v \in Pages \ pages : UnmapPages(pt, pages)[v] = pt[v]
  BY DEF UnmapPages, Pte
<1>2. \A new : (\A v \in DOMAIN new : new[v] \in Pte) =>
              /\ MapPages(pt, new) \in [Pages -> Pte]
              /\ \A v \in Pages : MapPages(pt, new)[v] = IF v \in DOMAIN new THEN new[v] ELSE pt[v]
  BY DEF MapPages
<1>3. \A pages : \A f : f \in FramesIn(pt, pages) <=>
              f # Unmapped /\ \E v \in pages : v \in Pages /\ pt[v] = f
  BY DEF FramesIn, Valid
<1>4. \A f : f \in FramesOf(pt) <=> f # Unmapped /\ \E v \in Pages : pt[v] = f
  BY DEF FramesOf, Valid
<1>5. FramesOf(pt) \subseteq Frames
  BY DEF FramesOf, Valid, Pte
<1> QED BY <1>1, <1>2, <1>3, <1>4, <1>5

(* Pages are mapped over what the table held, which is lost.               *)
LEMMA RemapGrow ==
  ASSUME NEW pt \in [Pages -> Pte], NEW free \in SUBSET Frames, NEW pages \in SUBSET Pages,
         NEW new, Supplies(new, pages, free), NEW pt2, NEW D, D = Valid(new),
         \A v \in D : pt2[v] = new[v],
         \A v \in Pages \ D : pt2[v] = pt[v]
  PROVE  Remap(pt, pt2, D, new, {}, FramesIn(pt, D), FramesOf(new))
<1>1. /\ D \in SUBSET pages
      /\ \A f : f \in FramesOf(new) <=> f # Unmapped /\ \E v \in D : new[v] = f
  <2>1. /\ Valid(new) \in SUBSET pages
        /\ \A f : f \in FramesOf(new) <=> f # Unmapped /\ \E v \in Valid(new) : new[v] = f
    BY DEF Supplies, Valid, FramesOf
  <2> QED BY <2>1
<1>2. \A f : f \in FramesIn(pt, D) <=> f # Unmapped /\ \E v \in D : pt[v] = f
  BY <1>1, TableOps
<1>3. \A u, v \in D : new[u] = new[v] /\ new[u] # Unmapped => u = v
  BY <1>1 DEF Supplies
<1> QED BY <1>1, <1>2, <1>3 DEF Remap

(* Pages are unmapped; what they held is released, or it is lost.          *)
LEMMA RemapUnmap ==
  ASSUME NEW pt \in [Pages -> Pte], NEW D \in SUBSET Pages, NEW pt2,
         \A v \in D : pt2[v] = Unmapped,
         \A v \in Pages \ D : pt2[v] = pt[v]
  PROVE  /\ Remap(pt, pt2, D, NoPages, FramesIn(pt, D), {}, {})
         /\ Remap(pt, pt2, D, NoPages, {}, FramesIn(pt, D), {})
<1>1. \A f : f \in FramesIn(pt, D) <=> f # Unmapped /\ \E v \in D : pt[v] = f
  BY TableOps
<1>2. \A v \in D : NoPages[v] = Unmapped
  BY DEF NoPages
<1> QED BY <1>1, <1>2 DEF Remap

(* The whole table is replaced.                                            *)
LEMMA RemapAll ==
  ASSUME NEW pt \in [Pages -> Pte], NEW free \in SUBSET Frames, NEW pages \in SUBSET Pages,
         NEW new, Supplies(new, pages, free), Valid(new) = pages, NEW pt2,
         pt2 = MapPages(NoPages, new)
  PROVE  /\ Remap(pt, pt2, Pages, pt2, FramesOf(pt), {}, FramesOf(new))
         /\ pt2 \in [Pages -> Pte]
         /\ Valid(pt2) = pages /\ FramesOf(pt2) = FramesOf(new)
         /\ \A u, v \in Pages : pt2[u] = pt2[v] /\ pt2[u] # Unmapped => u = v
         /\ \A v \in pages : pt2[v] = new[v]
         /\ \A v \in Pages \ pages : pt2[v] = Unmapped
<1>1. /\ DOMAIN new = pages /\ \A v \in pages : new[v] \in free /\ new[v] # Unmapped
      /\ \A f : f \in FramesOf(new) <=> f # Unmapped /\ \E v \in pages : new[v] = f
  BY Supplied DEF Supplies
<1>2. NoPages \in [Pages -> Pte] /\ \A v \in Pages : NoPages[v] = Unmapped
  BY DEF NoPages, Pte
<1>3. /\ pt2 \in [Pages -> Pte]
      /\ \A v \in Pages : pt2[v] = IF v \in pages THEN new[v] ELSE Unmapped
  <2>1. \A v \in DOMAIN new : new[v] \in Pte
    BY <1>1 DEF Pte
  <2> QED BY <1>1, <1>2, <2>1, TableOps
<1>4. Valid(pt2) = pages
  BY <1>1, <1>3 DEF Valid
<1>5. \A f : f \in FramesOf(pt2) <=> f \in FramesOf(new)
  <2>1. \A f : f \in FramesOf(pt2) <=> f # Unmapped /\ \E v \in Pages : pt2[v] = f
    BY <1>3, TableOps
  <2> QED BY <1>1, <1>3, <2>1
<1>6. \A u, v \in Pages : pt2[u] = pt2[v] /\ pt2[u] # Unmapped => u = v
  BY <1>3 DEF Supplies
<1>7. Remap(pt, pt2, Pages, pt2, FramesOf(pt), {}, FramesOf(new))
  <2>1. \A f : f \in FramesOf(pt) <=> f # Unmapped /\ \E v \in Pages : pt[v] = f
    BY TableOps
  <2>2. \A f : f \in FramesOf(new) <=> f # Unmapped /\ \E v \in Pages : pt2[v] = f
    BY <1>3, <1>5, TableOps
  <2> QED BY <1>6, <2>1, <2>2 DEF Remap
<1>8. FramesOf(pt2) = FramesOf(new)
  BY <1>5
<1> QED BY <1>3, <1>4, <1>6, <1>7, <1>8


(* An interval of pages gets the frames of an interval of free frames one  *)
(* by one.                                                                 *)
LEMMA RankOfInterval ==
  ASSUME NEW a \in Nat, NEW b \in Nat, NEW v \in a .. b
  PROVE  Rank(a .. b, v) = v - a
<1>1. {y \in a .. b : y < v} = a .. v - 1
  OBVIOUS
<1>2. Cardinality(a .. v - 1) = v - a
  <2>1. a \in Int /\ v - 1 \in Int /\ v \in Int /\ a <= v
    OBVIOUS
  <2>2. Cardinality(a .. v - 1) = IF a > v - 1 THEN 0 ELSE v - 1 - a + 1
    BY <2>1, FS_Interval
  <2> QED BY <2>1, <2>2
<1> QED BY <1>1, <1>2 DEF Rank

LEMMA AllocInterval ==
  ASSUME NEW a \in Nat, NEW b \in Nat, b < NFRAMES, NEW v \in a .. b
  PROVE  allocFrame(a .. NFRAMES - 1, a .. b)[v] = v
<1> DEFINE free == a .. NFRAMES - 1
           pages == a .. b
<1>1. NFRAMES \in Nat /\ NFRAMES - 1 \in Nat /\ v \in Nat /\ v \in free
  BY Constants
<1>2. Rank(pages, v) = v - a /\ Rank(free, v) = v - a
  BY <1>1, RankOfInterval
<1>3. Cardinality(free) = NFRAMES - a
  BY <1>1, FS_Interval
<1>4. free \in SUBSET (0 .. NFRAMES)
  BY <1>1
<1>5. \A f \in free : Rank(free, f) = Rank(free, v) => f = v
  <2> HIDE DEF free
  <2> QED BY <1>1, <1>4, RankInjective
<1>6. allocFrame(free, pages)[v] = CHOOSE f \in free : Rank(free, f) = Rank(pages, v)
  <2>1. Rank(pages, v) < Cardinality(free)
    BY <1>1, <1>2, <1>3
  <2> HIDE DEF free
  <2> QED BY <2>1 DEF allocFrame
<1> HIDE DEF free, pages
<1>7. (CHOOSE f \in free : Rank(free, f) = Rank(pages, v)) = v
  BY <1>1, <1>2, <1>5
<1> QED BY <1>6, <1>7 DEF free, pages

(* A single page gets the lowest free frame.                               *)
LEMMA AllocFirst ==
  ASSUME NEW a \in Nat, a < NFRAMES, NEW v \in Nat
  PROVE  allocFrame(a .. NFRAMES - 1, {v}) = [w \in {v} |-> a]
<1> DEFINE free == a .. NFRAMES - 1
<1>1. NFRAMES \in Nat /\ NFRAMES - 1 \in Nat /\ a \in free
  BY Constants
<1>2. Rank({v}, v) = 0
  <2>1. {y \in {v} : y < v} = {}
    OBVIOUS
  <2> QED BY <2>1, FS_EmptySet DEF Rank
<1>3. Rank(free, a) = 0
  BY <1>1, RankOfInterval
<1>4. Cardinality(free) = NFRAMES - a
  BY <1>1, FS_Interval
<1>5. free \in SUBSET (0 .. NFRAMES)
  BY <1>1
<1>6. \A f \in free : Rank(free, f) = Rank(free, a) => f = a
  <2> HIDE DEF free
  <2> QED BY <1>1, <1>5, RankInjective
<1>7. 0 < Cardinality(free)
  BY <1>1, <1>4
<1> HIDE DEF free
<1>8. (CHOOSE f \in free : Rank(free, f) = 0) = a
  BY <1>1, <1>3, <1>6
<1>9. allocFrame(free, {v}) = [w \in {v} |-> a]
  BY <1>2, <1>7, <1>8 DEF allocFrame
<1> QED BY <1>9 DEF free

(* The fields of a PCB.                                                    *)
PcbFields ==
  \A p \in DOMAIN pcb :
    /\ pcb[p].pt \in [Pages -> Pte] /\ pcb[p].kstack \in [KStackPages -> Frames]
    /\ pcb[p].heap_start \in 0 .. MAX_PT_LEN /\ pcb[p].heap_end \in 0 .. MAX_PT_LEN
    /\ pcb[p].stack_base \in 0 .. MAX_PT_LEN /\ pcb[p].exited \in BOOLEAN
    /\ pcb[p].load \in {"none", "loaded", "kill"}

LEMMA Fields == MemTypeOK => PcbFields
BY DEF MemTypeOK, Pcb, PcbFields


-----------------------------------------------------------------------------
(* The initial state.                                                      *)
LEMMA MemStart == MemInit => MemInv
<1> SUFFICES ASSUME MemInit PROVE MemInv
  OBVIOUS
<1>1. DOMAIN pcb = {}
  BY DEF MemInit
<1>2. MemTypeOK
  <2>1. used \subseteq Frames
    BY Constants DEF MemInit, Frames
  <2>2. free_nframes \in 0 .. NFRAMES /\ kernel_brk_page \in OrigBrk .. MAX_PT_LEN
    BY Constants DEF MemInit
  <2>3. pt_region0 \in [Pages -> Pte]
    BY FrameFacts DEF MemInit, Pte
  <2>4. /\ current_process \in 0 .. MAX_PROCS - 1 /\ execs \in 0 .. MaxExecs
        /\ shrinks \in 0 .. MaxShrinks /\ slots \in 0 .. MAX_PROCS
        /\ phase = "boot" /\ leaked = {}
    BY Constants DEF MemInit, Idle
  <2> QED BY <1>1, <2>1, <2>2, <2>3, <2>4 DEF MemTypeOK
<1>3. free_nframes = Cardinality(Free)
  <2>1. Free = OrigBrk .. NFRAMES - 1
    BY Constants DEF MemInit, Free, Frames
  <2>2. Cardinality(OrigBrk .. NFRAMES - 1) = NFRAMES - OrigBrk
    BY Constants, FS_Interval
  <2> QED BY <2>1, <2>2 DEF MemInit
<1>4. kernel_brk_page < KSTACK_START_PAGE
  BY Constants DEF MemInit
<1>5. Identity /\ BootStack
  BY <1>1, FrameFacts DEF MemInit, Identity, BootStack
<1>6. Numbered
  BY <1>1 DEF Numbered, MemInit
<1>7. KernelHeapIsMapped
  BY Constants DEF MemInit, KernelHeapIsMapped
<1>8. OwnKernelStack /\ TidySpaces
  BY <1>1 DEF MemInit, OwnKernelStack, Running, TidySpaces
<1>9. Owned
  <2>1. Spots /\ FrameForms
    BY <1>2, SpotsAre, FramesAre
  <2>2. \A v \in KernelPages : /\ pt_region0[v] # Unmapped <=> v \in FirstTextPage .. OrigBrk - 1
                               /\ pt_region0[v] # Unmapped => pt_region0[v] = v
    BY FrameFacts DEF MemInit, KernelPages
  <2>3. FirstTextPage .. OrigBrk - 1 \subseteq KernelPages
    BY Constants DEF KernelPages, Pages, KStackPages
  <2>4. \A x : x \in Places <=> \E v \in FirstTextPage .. OrigBrk - 1 : x = KernelAt(v)
    BY <1>1, <2>1, <2>2, <2>3 DEF Spots
  <2>5. \A v \in FirstTextPage .. OrigBrk - 1 : FrameAt(KernelAt(v)) = v
    BY <2>1, <2>2, <2>3 DEF FrameForms
  <2>6. NoSharedFrame
    BY <2>4, <2>5 DEF NoSharedFrame
  <2>7. MappedFrames \subseteq Image
    <3>1. \A v \in FirstTextPage .. OrigBrk - 1 : v \in Image
      BY Constants DEF Image
    <3> QED BY <2>4, <2>5, <3>1 DEF MappedFrames
  <2>8. Forgotten = {}
    BY DEF MemInit, Forgotten
  <2>9. used = Image
    BY DEF MemInit, Image
  <2>10. ImageApart
    <3>1. \A v \in FirstTextPage .. OrigBrk - 1 : v < OrigBrk
      BY Constants
    <3> QED BY <2>4, <3>1, Forms DEF ImageApart
  <2> QED BY <2>6, <2>7, <2>8, <2>9, <2>10 DEF Owned
<1> QED BY <1>2, <1>3, <1>4, <1>5, <1>6, <1>7, <1>8, <1>9 DEF MemInv

-----------------------------------------------------------------------------
(* Steps that move no frame.                                               *)
LEMMA StopStep ==
  ASSUME MemInv, NEW how \in {"vm", "halted", "hung", "undefined"},
         how = "vm" => phase = "boot", Stop(how)
  PROVE  MemInv'
<1> USE DEF Stop
<1>1. MemTypeOK'
  BY DEF MemInv, MemTypeOK
<1>2. Owned'
  BY <1>1, Unmoved DEF MemInv, Forgotten
<1>3. (free_nframes = Cardinality(Free))' /\ (kernel_brk_page < KSTACK_START_PAGE)'
  BY DEF MemInv, Free, Frames
<1>4. Identity' /\ BootStack' /\ Numbered'
  BY DEF MemInv, Identity, BootStack, Numbered
<1>5. KernelHeapIsMapped' /\ OwnKernelStack'
  BY DEF MemInv, KernelHeapIsMapped, OwnKernelStack, Running, Valid
<1>6. TidySpaces'
  BY DEF MemInv, TidySpaces
<1> QED BY <1>1, <1>2, <1>3, <1>4, <1>5, <1>6 DEF MemInv

LEMMA EnableVMStep == MemInv /\ EnableVM => MemInv'
BY StopStep DEF EnableVM, Stop

LEMMA ExecNoArgbufStep ==
  ASSUME MemInv, NEW li, ExecNoArgbuf(li)
  PROVE  MemInv'
<1> PICK c \in DOMAIN pcb : c = current_process
  BY DEF MemInv, Numbered, ExecNoArgbuf, Running
<1>1. pcb' = [pcb EXCEPT ![c].load = "kill"] /\ phase = "run"
  BY DEF ExecNoArgbuf, Running
<1>2. PcbFields /\ \A p \in DOMAIN pcb : pcb[p] \in Pcb
  BY Fields DEF MemInv, MemTypeOK
<1>3. /\ DOMAIN pcb' = DOMAIN pcb
      /\ \A p \in DOMAIN pcb : p # c => pcb'[p] = pcb[p]
      /\ pcb'[c] = [pcb[c] EXCEPT !.load = "kill"]
  BY <1>1
<1>4. pcb'[c] \in Pcb /\ pcb'[c].load = "kill"
      /\ pcb'[c].pt = pcb[c].pt /\ pcb'[c].kstack = pcb[c].kstack
  BY <1>2, <1>3 DEF Pcb
<1>5. MemTypeOK'
  BY <1>2, <1>3, <1>4 DEF MemInv, MemTypeOK, ExecNoArgbuf
<1>6. Owned'
  BY <1>3, <1>4, <1>5, Unmoved DEF MemInv, Forgotten, ExecNoArgbuf
<1>7. (free_nframes = Cardinality(Free))' /\ (kernel_brk_page < KSTACK_START_PAGE)'
  BY DEF MemInv, Free, Frames, ExecNoArgbuf
<1>8. Identity' /\ BootStack' /\ Numbered'
  <2>1. Identity' /\ BootStack'
    BY <1>1 DEF Identity, BootStack, ExecNoArgbuf
  <2>2. slots' = slots /\ current_process' = c /\ phase' = "run"
    BY <1>1 DEF ExecNoArgbuf
  <2>3. ~pcb'[c].exited
    BY <1>1, <1>2, <1>3 DEF MemInv, Numbered, Pcb
  <2> QED BY <1>1, <1>3, <2>1, <2>2, <2>3 DEF MemInv, Numbered
<1>9. KernelHeapIsMapped' /\ OwnKernelStack'
  BY <1>3, <1>4 DEF MemInv, KernelHeapIsMapped, OwnKernelStack, Running, Valid, ExecNoArgbuf
<1>10. TidySpaces'
  <2>1. Tidy(pcb'[c])
    BY <1>4 DEF Tidy
  <2> QED BY <1>3, <2>1 DEF MemInv, TidySpaces
<1> QED BY <1>5, <1>6, <1>7, <1>8, <1>9, <1>10 DEF MemInv


(* KCSwitch changes the kernel-stack part of the table only.               *)
LEMMA SwitchTable ==
  ASSUME MemTypeOK, NEW next \in DOMAIN pcb, KCSwitch(next)
  PROVE  /\ pt_region0' \in [Pages -> Pte]
         /\ \A v \in KernelPages : pt_region0'[v] = pt_region0[v]
         /\ \A v \in KStackPages : pt_region0'[v] = pcb[next].kstack[v]
         /\ Valid(pt_region0) \subseteq Valid(pt_region0')
<1>1. /\ pt_region0 \in [Pages -> Pte] /\ pcb[next].kstack \in [KStackPages -> Frames]
      /\ Valid(pt_region0) = {v \in Pages : pt_region0[v] # Unmapped}
  BY Tables DEF TableForms
<1>2. \A v \in DOMAIN pcb[next].kstack : pcb[next].kstack[v] \in Pte
  BY <1>1 DEF Pte
<1>3. /\ pt_region0' \in [Pages -> Pte]
      /\ \A v \in Pages : pt_region0'[v] =
           IF v \in KStackPages THEN pcb[next].kstack[v] ELSE pt_region0[v]
  BY <1>1, <1>2, TableOps DEF KCSwitch
<1>4. \A v \in KStackPages : pt_region0'[v] = pcb[next].kstack[v] /\ pt_region0'[v] # Unmapped
  BY <1>1, <1>3, FrameFacts
<1>5. \A v \in KernelPages : pt_region0'[v] = pt_region0[v]
  BY <1>3 DEF KernelPages
<1>6. Valid(pt_region0') = {v \in Pages : pt_region0'[v] # Unmapped}
  BY <1>3 DEF Valid
<1> QED BY <1>1, <1>3, <1>4, <1>5, <1>6 DEF KernelPages

LEMMA SwitchStep ==
  ASSUME MemInv, NEW next \in DOMAIN pcb, Switch(next)
  PROVE  MemInv'
<1>1. /\ pt_region0' \in [Pages -> Pte]
      /\ \A v \in KernelPages : pt_region0'[v] = pt_region0[v]
      /\ \A v \in KStackPages : pt_region0'[v] = pcb[next].kstack[v]
      /\ Valid(pt_region0) \subseteq Valid(pt_region0')
  BY SwitchTable DEF MemInv, Switch
<1>2. /\ phase = "run" /\ phase' = "run" /\ current_process' = next /\ pcb' = pcb
      /\ UNCHANGED <<used, free_nframes, kernel_brk_page, execs, shrinks, slots, leaked>>
      /\ ~pcb[next].exited
  BY DEF Switch, Running, KCSwitch, Live
<1>3. MemTypeOK'
  BY <1>1, <1>2 DEF MemInv, MemTypeOK
<1>4. Owned'
  BY <1>1, <1>2, <1>3, Unmoved DEF MemInv, Forgotten
<1>5. (free_nframes = Cardinality(Free))' /\ (kernel_brk_page < KSTACK_START_PAGE)'
  BY <1>2 DEF MemInv, Free, Frames
<1>6. Identity' /\ BootStack' /\ Numbered'
  BY <1>2 DEF MemInv, Identity, BootStack, Numbered
<1>7. KernelHeapIsMapped' /\ OwnKernelStack'
  BY <1>1, <1>2 DEF MemInv, KernelHeapIsMapped, OwnKernelStack, ScratchPages
<1>8. TidySpaces'
  BY <1>2 DEF MemInv, TidySpaces
<1> QED BY <1>3, <1>4, <1>5, <1>6, <1>7, <1>8 DEF MemInv


(* What Forget adds to the history.                                        *)
LEMMA Forgets ==
  ASSUME NEW who \in Forgetters, NEW lost \in SUBSET Frames,
         Forget(who, lost), leaked \subseteq Forgetters \X Frames
  PROVE  /\ leaked' \subseteq Forgetters \X Frames
         /\ Forgotten' = Forgotten \cup lost
<1>1. \A f \in lost : <<who, f>> \in {who} \X lost /\ <<who, f>>[2] = f
  OBVIOUS
<1>2. \A x \in {who} \X lost : x \in Forgetters \X Frames
                               /\ x[2] \in lost
  OBVIOUS
<1>3. leaked' = leaked \cup ({who} \X lost)
  BY DEF Forget
<1>4. Forgotten' = Forgotten \cup lost
  BY <1>1, <1>2, <1>3 DEF Forgotten
<1> QED BY <1>2, <1>3, <1>4

(* A table's frames: those of its pages in D.                              *)
LEMMA RemapFrames ==
  ASSUME NEW old \in [Pages -> Pte], NEW new, NEW D, NEW g, NEW released, NEW lost, NEW taken,
         Remap(old, new, D, g, released, lost, taken)
  PROVE  /\ released \in SUBSET Frames /\ lost \in SUBSET Frames
         /\ \A f : f \in released \cup lost => \E v \in Pages : old[v] = f /\ f # Unmapped
BY DEF Remap, Pte

-----------------------------------------------------------------------------
(* Steps of the running process on its own address space.                  *)
UserChange(c, D, g, released, lost, taken) ==
  /\ phase = "run" /\ phase' = "run" /\ c \in DOMAIN pcb
  /\ DOMAIN pcb' = DOMAIN pcb /\ \A p \in DOMAIN pcb : p # c => pcb'[p] = pcb[p]
  /\ pcb'[c] \in Pcb /\ pcb'[c].kstack = pcb[c].kstack /\ Tidy(pcb'[c])
  /\ Remap(pcb[c].pt, pcb'[c].pt, D, g, released, lost, taken)
  /\ taken \in SUBSET Frames /\ taken \cap (used \ released) = {}
  /\ Account(released, taken) /\ Forget("growStack", lost)
  /\ UNCHANGED <<kernel_brk_page, shrinks, slots>> /\ execs' \in 0 .. MaxExecs
  /\ pt_region0' \in [Pages -> Pte]
  /\ \A v \in KernelPages : pt_region0'[v] = pt_region0[v]
  /\ current_process' \in DOMAIN pcb /\ ~pcb'[current_process'].exited
  /\ \A v \in KStackPages : pt_region0'[v] = pcb'[current_process'].kstack[v]

LEMMA UserStep ==
  ASSUME MemInv, NEW c, NEW D, NEW g, NEW released, NEW lost, NEW taken,
         UserChange(c, D, g, released, lost, taken)
  PROVE  MemInv'
<1> USE DEF UserChange
<1>1. MemTypeOK /\ Owned /\ OnePlace /\ used \in SUBSET Frames
  BY OwnedPlaces DEF MemInv, MemTypeOK
<1>2. pcb[c].pt \in [Pages -> Pte]
  BY <1>1, Tables DEF TableForms
<1>3. /\ released \in SUBSET Frames /\ lost \in SUBSET Frames
      /\ \A f : f \in released \cup lost => \E v \in Pages : pcb[c].pt[v] = f /\ f # Unmapped
  BY <1>2, RemapFrames
<1>4. released \in SUBSET used
  BY <1>1, <1>3 DEF OnePlace
<1>5. /\ used' = (used \ released) \cup taken /\ used' \in SUBSET Frames
      /\ free_nframes' = Cardinality(Free') /\ free_nframes' \in 0 .. NFRAMES
  BY <1>1, <1>4, Counted DEF MemInv
<1>6. /\ leaked' \subseteq Forgetters \X Frames
      /\ Forgotten' = Forgotten \cup lost
  BY <1>1, <1>3, Forgets DEF MemTypeOK, Forgetters
<1>7. MemTypeOK'
  <2>1. \A p \in DOMAIN pcb' : pcb'[p] \in Pcb
    BY <1>1 DEF MemTypeOK
  <2>2. current_process' \in 0 .. MAX_PROCS - 1
    BY <1>1 DEF MemTypeOK
  <2> QED BY <1>1, <1>5, <1>6, <2>1, <2>2 DEF MemTypeOK
<1>8. Owned'
  BY <1>1, <1>5, <1>6, <1>7, UserMoves
<1>9. (free_nframes = Cardinality(Free))' /\ (kernel_brk_page < KSTACK_START_PAGE)'
  BY <1>5 DEF MemInv
<1>10. Identity' /\ BootStack' /\ Numbered'
  <2>1. Identity' /\ BootStack'
    BY DEF Identity, BootStack
  <2>2. slots' = slots /\ DOMAIN pcb' = DOMAIN pcb /\ phase' = "run"
        /\ current_process' \in DOMAIN pcb' /\ ~pcb'[current_process'].exited
    OBVIOUS
  <2>3. Numbered
    BY DEF MemInv
  <2>4. Numbered'
    <3> HIDE DEF UserChange
    <3> QED BY <2>2, <2>3 DEF Numbered
  <2> QED BY <2>1, <2>4
<1>11. KernelHeapIsMapped'
  <2>1. OrigBrk .. kernel_brk_page - 1 \subseteq KernelPages
    <3> HIDE DEF UserChange
    <3>1. kernel_brk_page \in Nat /\ kernel_brk_page < KSTACK_START_PAGE
      BY Constants, <1>1 DEF MemInv, MemTypeOK
    <3> QED BY Constants, <3>1 DEF KernelPages, Pages, KStackPages
  <2>2. /\ Valid(pt_region0) = {v \in Pages : pt_region0[v] # Unmapped}
        /\ Valid(pt_region0') = {v \in Pages : pt_region0'[v] # Unmapped}
    BY <1>1, Tables DEF TableForms, Valid
  <2>3. \A v \in OrigBrk .. kernel_brk_page - 1 : v \in Valid(pt_region0') \cup ScratchPages
    BY <2>1, <2>2 DEF MemInv, KernelHeapIsMapped, KernelPages
  <2> QED BY <2>3 DEF KernelHeapIsMapped, ScratchPages
<1>12. OwnKernelStack'
  BY DEF OwnKernelStack
<1>13. TidySpaces'
  BY DEF MemInv, TidySpaces
<1> QED BY <1>7, <1>8, <1>9, <1>10, <1>11, <1>12, <1>13 DEF MemInv


(* No frame released and none taken.                                       *)
LEMMA NoAccount ==
  ASSUME MemTypeOK, UNCHANGED <<used, free_nframes>>
  PROVE  Account({}, {})
<1>1. Cardinality({}) = 0
  BY FS_EmptySet
<1>2. free_nframes \in Nat
  BY Constants DEF MemTypeOK
<1> QED BY <1>1, <1>2 DEF Account

(* The end of a process: the frames of the pages of D are lost.            *)
LEMMA ExitProcessStep ==
  ASSUME MemInv, phase = "run", NEW c \in DOMAIN pcb, c # InitProc,
         NEW D \in SUBSET Pages, NEW pt \in [Pages -> Pte],
         \A v \in D : pt[v] = Unmapped, \A v \in Pages \ D : pt[v] = pcb[c].pt[v],
         pcb[c].load = "loaded" => \A v \in D : pcb[c].heap_end <= v /\ v < pcb[c].stack_base,
         NEW next \in DOMAIN pcb, ExitProcess(c, pt, FramesIn(pcb[c].pt, D), next)
  PROVE  MemInv'
<1>1. /\ next # c /\ ~pcb[next].exited
      /\ pcb' = [pcb EXCEPT ![c].pt = pt, ![c].exited = TRUE]
      /\ Forget("growStack", FramesIn(pcb[c].pt, D))
      /\ KCSwitch(next)
      /\ UNCHANGED <<used, free_nframes, kernel_brk_page, phase, execs, shrinks, slots>>
  BY DEF ExitProcess, Live
<1>2. MemTypeOK /\ PcbFields
  BY Fields DEF MemInv
<1>3. pcb[c] \in Pcb
  BY <1>2 DEF MemTypeOK
<1>4. /\ DOMAIN pcb' = DOMAIN pcb /\ \A p \in DOMAIN pcb : p # c => pcb'[p] = pcb[p]
      /\ pcb'[c] = [pcb[c] EXCEPT !.pt = pt, !.exited = TRUE]
  BY <1>1
<1>5. /\ pcb'[c] \in Pcb /\ pcb'[c].pt = pt /\ pcb'[c].exited = TRUE
      /\ pcb'[c].kstack = pcb[c].kstack /\ pcb'[c].load = pcb[c].load
      /\ pcb'[c].heap_start = pcb[c].heap_start /\ pcb'[c].heap_end = pcb[c].heap_end
      /\ pcb'[c].stack_base = pcb[c].stack_base
  BY <1>3, <1>4 DEF Pcb
<1>6. Tidy(pcb'[c])
  <2> SUFFICES ASSUME pcb[c].load = "loaded", NEW v \in Pages,
                      \/ pcb[c].stack_base <= v
                      \/ pcb[c].heap_start <= v /\ v < pcb[c].heap_end
               PROVE  pt[v] # Unmapped
    BY <1>5 DEF Tidy
  <2>1. pcb[c].pt[v] # Unmapped
    BY DEF MemInv, TidySpaces, Tidy
  <2>2. /\ v \in Nat /\ pcb[c].heap_end \in Nat /\ pcb[c].stack_base \in Nat
    BY <1>2, Constants, FrameFacts DEF PcbFields
  <2>3. v \notin D
    BY <2>2
  <2> QED BY <2>1, <2>3
<1>7. Remap(pcb[c].pt, pcb'[c].pt, D, NoPages, {}, FramesIn(pcb[c].pt, D), {})
  BY <1>2, <1>5, RemapUnmap DEF PcbFields
<1>8. Account({}, {})
  BY <1>1, <1>2, NoAccount
<1>9. /\ pt_region0' \in [Pages -> Pte]
      /\ \A v \in KernelPages : pt_region0'[v] = pt_region0[v]
      /\ \A v \in KStackPages : pt_region0'[v] = pcb[next].kstack[v]
  BY <1>1, <1>2, SwitchTable
<1>10. current_process' = next /\ pcb'[next] = pcb[next] /\ phase' = "run"
  BY <1>1, <1>4 DEF KCSwitch
<1>11. execs' \in 0 .. MaxExecs
  BY <1>1, <1>2 DEF MemTypeOK
<1>12. UserChange(c, D, NoPages, {}, FramesIn(pcb[c].pt, D), {})
  BY <1>1, <1>4, <1>5, <1>6, <1>7, <1>8, <1>9, <1>10, <1>11 DEF UserChange
<1> QED BY <1>12, UserStep

LEMMA ExitStep ==
  ASSUME MemInv, NEW next \in DOMAIN pcb, Exit(next)
  PROVE  MemInv'
<1> PICK c \in DOMAIN pcb : c = current_process
  BY DEF MemInv, Numbered, Exit, Running
<1>1. phase = "run" /\ ExitProcess(c, pcb[c].pt, {}, next)
  BY DEF Exit, Running
<1>2. CASE c = InitProc
  <2>1. Stop("halted")
    BY <1>1, <1>2 DEF ExitProcess
  <2> QED BY <2>1, StopStep
<1>3. CASE c # InitProc
  <2>1. pcb[c].pt \in [Pages -> Pte]
    BY Tables DEF MemInv, TableForms
  <2>2. FramesIn(pcb[c].pt, {}) = {}
    BY DEF FramesIn
  <2> QED BY <1>1, <1>3, <2>1, <2>2, ExitProcessStep
<1> QED BY <1>2, <1>3


(* The frames that allocFrame takes from the free ones.                    *)
LEMMA TakenFree ==
  ASSUME NEW pages \in SUBSET Pages, NEW new, Supplies(new, pages, Free)
  PROVE  /\ Free \in SUBSET Frames
         /\ Valid(new) \in SUBSET pages
         /\ \A v \in Valid(new) : new[v] \in Frames /\ new[v] # Unmapped
         /\ FramesOf(new) \in SUBSET Frames /\ FramesOf(new) \cap (used \ {}) = {}
<1>1. Free \in SUBSET Frames
  BY DEF Free
<1>3. /\ Valid(new) \in SUBSET pages /\ \A v \in Valid(new) : new[v] \in Free /\ new[v] # Unmapped
      /\ FramesOf(new) \in SUBSET Free
  BY <1>1, Supplied
<1> QED BY <1>1, <1>3 DEF Free

LEMMA MappedOver ==
  ASSUME NEW pt \in [Pages -> Pte], NEW pages \in SUBSET Pages, NEW new,
         Supplies(new, pages, Free), Valid(new) = pages
  PROVE  /\ MapPages(pt, new) \in [Pages -> Pte]
         /\ \A v \in pages : MapPages(pt, new)[v] = new[v] /\ new[v] # Unmapped
         /\ \A v \in Pages \ pages : MapPages(pt, new)[v] = pt[v]
         /\ Remap(pt, MapPages(pt, new), pages, new, {}, FramesIn(pt, pages), FramesOf(new))
<1>1. /\ Free \in SUBSET Frames
      /\ \A v \in pages : new[v] \in Frames /\ new[v] # Unmapped
  BY TakenFree
<1>2. DOMAIN new = pages
  BY <1>1 DEF Supplies
<1>3. /\ MapPages(pt, new) \in [Pages -> Pte]
      /\ \A v \in Pages : MapPages(pt, new)[v] = IF v \in pages THEN new[v] ELSE pt[v]
  <2>1. \A v \in DOMAIN new : new[v] \in Pte
    BY <1>1, <1>2 DEF Pte
  <2> QED BY <1>2, <2>1, TableOps
<1>4. Remap(pt, MapPages(pt, new), pages, new, {}, FramesIn(pt, pages), FramesOf(new))
  BY <1>1, <1>3, RemapGrow
<1> QED BY <1>1, <1>3, <1>4

(* growStack, when the frames suffice.                                     *)
LEMMA StackGrows ==
  ASSUME MemInv, phase = "run", NEW c \in DOMAIN pcb, c = current_process, NEW v \in Pages,
         pcb[c].heap_end <= v, v < pcb[c].stack_base,
         NEW pages \in SUBSET Pages,
         \A w \in Pages : w \in pages <=> v <= w /\ w < pcb[c].stack_base,
         NEW new, Supplies(new, pages, Free), Valid(new) = pages,
         Account({}, FramesOf(new)),
         pcb' = [pcb EXCEPT ![c].pt = MapPages(@, new), ![c].stack_base = v],
         Forget("growStack", FramesIn(pcb[c].pt, pages)),
         UNCHANGED <<pt_region0, kernel_brk_page, current_process, phase, execs, shrinks, slots>>
  PROVE  MemInv'
<1>1. MemTypeOK /\ PcbFields /\ pcb[c] \in Pcb
  BY Fields DEF MemInv, MemTypeOK
<1>2. /\ v \in Nat /\ pcb[c].heap_end \in Nat /\ pcb[c].stack_base \in Nat /\ MAX_PT_LEN \in Nat
      /\ pcb[c].stack_base <= MAX_PT_LEN /\ pcb[c].heap_start \in Nat /\ v \in 0 .. MAX_PT_LEN
  BY <1>1, Constants, FrameFacts, SMTT(30) DEF PcbFields, Pages
<1> DEFINE pt2 == MapPages(pcb[c].pt, new)
<1>4. /\ pt2 \in [Pages -> Pte]
      /\ \A w \in pages : pt2[w] # Unmapped
      /\ \A w \in Pages \ pages : pt2[w] = pcb[c].pt[w]
      /\ Remap(pcb[c].pt, pt2, pages, new, {}, FramesIn(pcb[c].pt, pages), FramesOf(new))
  <2>1. PICK pt \in [Pages -> Pte] : pt = pcb[c].pt
    BY <1>1 DEF PcbFields
  <2>2. /\ MapPages(pt, new) \in [Pages -> Pte]
        /\ \A w \in pages : MapPages(pt, new)[w] = new[w] /\ new[w] # Unmapped
        /\ \A w \in Pages \ pages : MapPages(pt, new)[w] = pt[w]
        /\ Remap(pt, MapPages(pt, new), pages, new, {}, FramesIn(pt, pages), FramesOf(new))
    BY MappedOver
  <2> QED BY <2>1, <2>2
<1>5. FramesOf(new) \in SUBSET Frames /\ FramesOf(new) \cap (used \ {}) = {}
  BY TakenFree
<1>6. /\ DOMAIN pcb' = DOMAIN pcb /\ \A p \in DOMAIN pcb : p # c => pcb'[p] = pcb[p]
      /\ pcb'[c] = [pcb[c] EXCEPT !.pt = pt2, !.stack_base = v]
  OBVIOUS
<1> HIDE DEF pt2
<1>7. /\ pcb'[c] \in Pcb /\ pcb'[c].pt = pt2 /\ pcb'[c].exited = pcb[c].exited
      /\ pcb'[c].kstack = pcb[c].kstack /\ pcb'[c].load = pcb[c].load
      /\ pcb'[c].heap_start = pcb[c].heap_start /\ pcb'[c].heap_end = pcb[c].heap_end
      /\ pcb'[c].stack_base = v
  BY <1>1, <1>2, <1>4, <1>6 DEF Pcb
<1>8. Tidy(pcb'[c])
  <2>1. Tidy(pcb[c])
    BY DEF MemInv, TidySpaces
  <2>2. ASSUME pcb[c].load = "loaded", NEW w \in Pages,
               v <= w \/ (pcb[c].heap_start <= w /\ w < pcb[c].heap_end)
        PROVE  pt2[w] # Unmapped
    <3>1. CASE w \in pages
      BY <1>4, <3>1
    <3>2. CASE w \notin pages
      <4>1. w \in Nat
        BY FrameFacts
      <4>2. pcb[c].stack_base <= w \/ (pcb[c].heap_start <= w /\ w < pcb[c].heap_end)
        BY <1>2, <2>2, <3>2, <4>1
      <4> QED BY <1>4, <2>1, <2>2, <3>2, <4>2 DEF Tidy
    <3> QED BY <3>1, <3>2
  <2>3. ASSUME pcb[c].load = "loaded", ~pcb[c].exited, NEW u \in Pages, NEW w \in Pages,
               pcb[c].heap_start <= u, pcb[c].heap_end <= u, u < w, w < v, pt2[u] = Unmapped
        PROVE  pt2[w] = Unmapped
    <3>1. u \in Nat /\ w \in Nat
      BY FrameFacts
    <3>2. u \notin pages /\ w \notin pages /\ w < pcb[c].stack_base
      BY <1>2, <2>3, <3>1
    <3> QED BY <1>4, <2>1, <2>3, <3>2 DEF Tidy
  <2> QED BY <1>7, <2>2, <2>3 DEF Tidy
<1>9. /\ execs' \in 0 .. MaxExecs /\ pt_region0' \in [Pages -> Pte] /\ phase' = "run"
      /\ current_process' = c /\ ~pcb'[c].exited
  BY <1>1, <1>7 DEF MemInv, MemTypeOK, Numbered
<1>10. \A w \in KStackPages : pt_region0'[w] = pcb'[current_process'].kstack[w]
  BY <1>7, <1>9 DEF MemInv, OwnKernelStack, Running
<1>11. Remap(pcb[c].pt, pcb'[c].pt, pages, new, {}, FramesIn(pcb[c].pt, pages), FramesOf(new))
  BY <1>4, <1>7
<1>12. UserChange(c, pages, new, {}, FramesIn(pcb[c].pt, pages), FramesOf(new))
  BY <1>5, <1>6, <1>7, <1>8, <1>9, <1>10, <1>11 DEF UserChange
<1> QED BY <1>12, UserStep

LEMMA MemoryTrapStep ==
  ASSUME MemInv, NEW v \in Pages, NEW firstByte, NEW next \in DOMAIN pcb,
         MemoryTrapHandler(v, firstByte, next)
  PROVE  MemInv'
<1> PICK c \in DOMAIN pcb : c = current_process
  BY DEF MemInv, Numbered, MemoryTrapHandler, Running
<1>1. MemTypeOK /\ PcbFields /\ phase = "run"
  BY Fields DEF MemInv, MemoryTrapHandler, Running
<1>2. /\ v \in Nat /\ pcb[c].heap_end \in Nat /\ pcb[c].stack_base \in Nat /\ MAX_PT_LEN \in Nat
      /\ pcb[c].stack_base <= MAX_PT_LEN
  BY <1>1, Constants, FrameFacts DEF PcbFields
<1>3. pcb[c].heap_end <= v /\ v < pcb[c].stack_base
  BY <1>2 DEF MemoryTrapHandler, InStackRange
<1> DEFINE pages == v .. pcb[c].stack_base - 1
           new == allocFrame(Free, pages)
<1>4. /\ pages \in SUBSET Pages
      /\ \A w \in Pages : w \in pages <=> v <= w /\ w < pcb[c].stack_base
  BY <1>2 DEF Pages
<1>s. Supplies(new, pages, Free)
  <2>1. Free \in SUBSET Frames
    BY DEF Free
  <2> HIDE DEF pages
  <2> QED BY <1>4, <2>1, Allocated
<1>5. CASE Valid(new) = pages
  <2>1. /\ Account({}, FramesOf(new))
        /\ pcb' = [pcb EXCEPT ![c].pt = MapPages(@, new), ![c].stack_base = v]
        /\ Forget("growStack", FramesIn(pcb[c].pt, pages))
        /\ UNCHANGED <<pt_region0, kernel_brk_page, current_process, phase, execs, shrinks, slots>>
    BY <1>5 DEF MemoryTrapHandler, growStack
  <2> HIDE DEF new, pages
  <2> QED BY <1>1, <1>3, <1>4, <1>s, <1>5, <2>1, StackGrows
<1>6. CASE Valid(new) # pages
  <2>1. ExitProcess(c, UnmapPages(pcb[c].pt, Valid(new)), FramesIn(pcb[c].pt, Valid(new)), next)
    BY <1>6 DEF MemoryTrapHandler, growStack
  <2>2. Valid(new) \in SUBSET pages
    <3> HIDE DEF new, pages
    <3> QED BY <1>4, <1>s, TakenFree
  <2> DEFINE D == Valid(new)
             pt == UnmapPages(pcb[c].pt, D)
  <2>3. /\ pt \in [Pages -> Pte] /\ \A w \in D : pt[w] = Unmapped
        /\ \A w \in Pages \ D : pt[w] = pcb[c].pt[w] /\ D \in SUBSET Pages
    BY <1>1, <1>4, <2>2, TableOps DEF PcbFields
  <2>4. D \in SUBSET Pages /\ \A w \in D : pcb[c].heap_end <= w /\ w < pcb[c].stack_base
    <3>1. \A w \in pages : pcb[c].heap_end <= w /\ w < pcb[c].stack_base
      BY <1>2, <1>3
    <3> QED BY <1>4, <2>2, <3>1
  <2>5. ExitProcess(c, pt, FramesIn(pcb[c].pt, D), next)
    BY <2>1
  <2> HIDE DEF D, pt
  <2>6. CASE c = InitProc
    <3>1. Stop("halted")
      BY <2>5, <2>6 DEF ExitProcess
    <3> QED BY <3>1, StopStep
  <2>7. CASE c # InitProc
    BY <1>1, <2>3, <2>4, <2>5, <2>7, ExitProcessStep
  <2> QED BY <2>6, <2>7
<1> QED BY <1>5, <1>6


(* Brk, upwards.                                                           *)
LEMMA HeapGrows ==
  ASSUME MemInv, phase = "run", NEW c \in DOMAIN pcb, c = current_process,
         NEW target \in 0 .. MAX_PT_LEN, pcb[c].heap_end <= target,
         NEW wanted \in SUBSET Pages,
         \A w \in Pages : w \in wanted <=>
           pcb[c].heap_end <= w /\ w < target /\ pcb[c].pt[w] = Unmapped,
         NEW new, Supplies(new, wanted, Free), Valid(new) = wanted,
         Account({}, FramesOf(new)),
         pcb' = [pcb EXCEPT ![c].pt = MapPages(@, new), ![c].heap_end = target],
         UNCHANGED <<pt_region0, kernel_brk_page, current_process, phase, execs, shrinks, slots,
                     leaked>>
  PROVE  MemInv'
<1>1. MemTypeOK /\ PcbFields /\ pcb[c] \in Pcb
  BY Fields DEF MemInv, MemTypeOK
<1>2. /\ target \in Nat /\ pcb[c].heap_end \in Nat /\ pcb[c].stack_base \in Nat
      /\ pcb[c].heap_start \in Nat
  BY <1>1, Constants DEF PcbFields
<1> DEFINE pt2 == MapPages(pcb[c].pt, new)
<1>3. PICK pt \in [Pages -> Pte] : pt = pcb[c].pt
  BY <1>1 DEF PcbFields
<1>4. /\ pt2 \in [Pages -> Pte]
      /\ \A w \in wanted : pt2[w] # Unmapped
      /\ \A w \in Pages \ wanted : pt2[w] = pcb[c].pt[w]
      /\ Remap(pcb[c].pt, pt2, wanted, new, {}, FramesIn(pcb[c].pt, wanted), FramesOf(new))
  <2>1. /\ MapPages(pt, new) \in [Pages -> Pte]
        /\ \A w \in wanted : MapPages(pt, new)[w] = new[w] /\ new[w] # Unmapped
        /\ \A w \in Pages \ wanted : MapPages(pt, new)[w] = pt[w]
        /\ Remap(pt, MapPages(pt, new), wanted, new, {}, FramesIn(pt, wanted), FramesOf(new))
    BY MappedOver
  <2> QED BY <1>3, <2>1
<1>5. FramesIn(pcb[c].pt, wanted) = {}
  <2>1. \A f : f \notin FramesIn(pt, wanted)
    BY <1>3, TableOps
  <2> QED BY <1>3, <2>1
<1>6. FramesOf(new) \in SUBSET Frames /\ FramesOf(new) \cap (used \ {}) = {}
  BY TakenFree
<1>7. /\ DOMAIN pcb' = DOMAIN pcb /\ \A p \in DOMAIN pcb : p # c => pcb'[p] = pcb[p]
      /\ pcb'[c] = [pcb[c] EXCEPT !.pt = pt2, !.heap_end = target]
  OBVIOUS
<1> HIDE DEF pt2
<1>8. /\ pcb'[c] \in Pcb /\ pcb'[c].pt = pt2 /\ pcb'[c].exited = pcb[c].exited
      /\ pcb'[c].kstack = pcb[c].kstack /\ pcb'[c].load = pcb[c].load
      /\ pcb'[c].heap_start = pcb[c].heap_start /\ pcb'[c].heap_end = target
      /\ pcb'[c].stack_base = pcb[c].stack_base
  BY <1>1, <1>4, <1>7 DEF Pcb
<1>9. Tidy(pcb'[c])
  <2>1. Tidy(pcb[c])
    BY DEF MemInv, TidySpaces
  <2>2. ASSUME pcb[c].load = "loaded", NEW w \in Pages,
               pcb[c].stack_base <= w \/ (pcb[c].heap_start <= w /\ w < target)
        PROVE  pt2[w] # Unmapped
    <3>1. CASE w \in wanted
      BY <1>4, <3>1
    <3>2. CASE w \notin wanted
      <4>1. w \in Nat
        BY FrameFacts
      <4>2. \/ pcb[c].stack_base <= w \/ (pcb[c].heap_start <= w /\ w < pcb[c].heap_end)
            \/ pcb[c].pt[w] # Unmapped
        BY <1>2, <2>2, <3>2, <4>1
      <4> QED BY <1>4, <2>1, <2>2, <3>2, <4>2 DEF Tidy
    <3> QED BY <3>1, <3>2
  <2>3. ASSUME pcb[c].load = "loaded", ~pcb[c].exited, NEW u \in Pages, NEW w \in Pages,
               pcb[c].heap_start <= u, target <= u, u < w, w < pcb[c].stack_base,
               pt2[u] = Unmapped
        PROVE  pt2[w] = Unmapped
    <3>1. u \in Nat /\ w \in Nat
      BY FrameFacts
    <3>2. u \notin wanted /\ w \notin wanted /\ pcb[c].heap_end <= u
      BY <1>2, <2>3, <3>1
    <3> QED BY <1>4, <2>1, <2>3, <3>2 DEF Tidy
  <2> QED BY <1>8, <2>2, <2>3 DEF Tidy
<1>10. /\ execs' \in 0 .. MaxExecs /\ pt_region0' \in [Pages -> Pte] /\ phase' = "run"
      /\ current_process' = c /\ ~pcb'[c].exited
  BY <1>1, <1>8 DEF MemInv, MemTypeOK, Numbered
<1>11. \A w \in KStackPages : pt_region0'[w] = pcb'[current_process'].kstack[w]
  BY <1>8, <1>10 DEF MemInv, OwnKernelStack, Running
<1>12. Remap(pcb[c].pt, pcb'[c].pt, wanted, new, {}, {}, FramesOf(new))
  BY <1>4, <1>5, <1>8
<1>13. Forget("growStack", {})
  BY DEF Forget
<1>14. UserChange(c, wanted, new, {}, {}, FramesOf(new))
  BY <1>6, <1>7, <1>8, <1>9, <1>10, <1>11, <1>12, <1>13 DEF UserChange
<1> QED BY <1>14, UserStep

(* Brk, downwards: only the bound moves.                                   *)
LEMMA HeapShrinks ==
  ASSUME MemInv, phase = "run", NEW c \in DOMAIN pcb, c = current_process,
         NEW target \in Nat, target < pcb[c].heap_end,
         pcb' = [pcb EXCEPT ![c].heap_end = target],
         UNCHANGED <<used, free_nframes, pt_region0, kernel_brk_page, current_process, phase,
                     execs, shrinks, slots, leaked>>
  PROVE  MemInv'
<1>1. MemTypeOK /\ PcbFields /\ pcb[c] \in Pcb
  BY Fields DEF MemInv, MemTypeOK
<1>2. /\ pcb[c].heap_end \in Nat /\ pcb[c].stack_base \in Nat /\ pcb[c].heap_start \in Nat
      /\ target \in 0 .. MAX_PT_LEN
  BY <1>1, Constants DEF PcbFields
<1>3. /\ DOMAIN pcb' = DOMAIN pcb /\ \A p \in DOMAIN pcb : p # c => pcb'[p] = pcb[p]
      /\ pcb'[c] = [pcb[c] EXCEPT !.heap_end = target]
  OBVIOUS
<1>4. /\ pcb'[c] \in Pcb /\ pcb'[c].pt = pcb[c].pt /\ pcb'[c].exited = pcb[c].exited
      /\ pcb'[c].kstack = pcb[c].kstack /\ pcb'[c].load = pcb[c].load
      /\ pcb'[c].heap_start = pcb[c].heap_start /\ pcb'[c].heap_end = target
      /\ pcb'[c].stack_base = pcb[c].stack_base
  BY <1>1, <1>2, <1>3 DEF Pcb
<1>5. Tidy(pcb'[c])
  <2>1. Tidy(pcb[c])
    BY DEF MemInv, TidySpaces
  <2>2. \A w \in Pages : w \in Nat
    BY FrameFacts
  <2>3. ASSUME pcb[c].load = "loaded", NEW w \in Pages,
               pcb[c].stack_base <= w \/ (pcb[c].heap_start <= w /\ w < target)
        PROVE  pcb[c].pt[w] # Unmapped
    <3>1. pcb[c].stack_base <= w \/ (pcb[c].heap_start <= w /\ w < pcb[c].heap_end)
      BY <1>2, <2>2, <2>3
    <3> QED BY <2>1, <2>3, <3>1 DEF Tidy
  <2>4. ASSUME pcb[c].load = "loaded", ~pcb[c].exited, NEW u \in Pages, NEW w \in Pages,
               pcb[c].heap_start <= u, target <= u, u < w, w < pcb[c].stack_base,
               pcb[c].pt[u] = Unmapped
        PROVE  pcb[c].pt[w] = Unmapped
    <3>1. ~(pcb[c].heap_start <= u /\ u < pcb[c].heap_end)
      BY <2>1, <2>4 DEF Tidy
    <3>2. pcb[c].heap_end <= u
      BY <1>2, <2>2, <2>4, <3>1
    <3> QED BY <2>1, <2>4, <3>2 DEF Tidy
  <2> QED BY <1>4, <2>3, <2>4 DEF Tidy
<1>6. /\ execs' \in 0 .. MaxExecs /\ pt_region0' \in [Pages -> Pte] /\ phase' = "run"
      /\ current_process' = c /\ ~pcb'[c].exited
  BY <1>1, <1>4 DEF MemInv, MemTypeOK, Numbered
<1>7. \A w \in KStackPages : pt_region0'[w] = pcb'[current_process'].kstack[w]
  BY <1>4, <1>6 DEF MemInv, OwnKernelStack, Running
<1>8. Remap(pcb[c].pt, pcb'[c].pt, {}, NoPages, {}, {}, {})
  BY <1>4 DEF Remap
<1>9. Forget("growStack", {}) /\ Account({}, {})
  BY <1>1, NoAccount DEF Forget
<1>10. UserChange(c, {}, NoPages, {}, {}, {})
  BY <1>3, <1>4, <1>5, <1>6, <1>7, <1>8, <1>9 DEF UserChange
<1> QED BY <1>10, UserStep

LEMMA BrkStep ==
  ASSUME MemInv, NEW target \in 0 .. MAX_PT_LEN + 1, Brk(target)
  PROVE  MemInv'
<1> PICK c \in DOMAIN pcb : c = current_process
  BY DEF MemInv, Numbered, Brk, Running
<1>1. MemTypeOK /\ PcbFields /\ phase = "run"
  BY Fields DEF MemInv, Brk, Running
<1>2. /\ target \in Nat /\ pcb[c].heap_end \in Nat /\ MAX_PT_LEN \in Nat
      /\ pcb[c].pt \in [Pages -> Pte]
  BY <1>1, Constants DEF PcbFields
<1>3. CASE target >= pcb[c].heap_end /\ BrkGrow(target)
  <2> DEFINE wanted == (pcb[c].heap_end .. target - 1) \ Valid(pcb[c].pt)
             new == allocFrame(Free, wanted)
  <2>1. CASE PastTable(target)
    <3>1. Stop("undefined")
      BY <1>3, <2>1 DEF BrkGrow
    <3> QED BY <3>1, StopStep
  <2>2. CASE ~PastTable(target) /\ Valid(new) # wanted
    <3>1. Stop("halted")
      BY <1>3, <2>2 DEF BrkGrow
    <3> QED BY <3>1, StopStep
  <2>3. CASE ~PastTable(target) /\ Valid(new) = wanted
    <3>1. target <= MAX_PT_LEN /\ target \in 0 .. MAX_PT_LEN /\ pcb[c].heap_end <= target
      BY <1>2, <1>3, <2>3 DEF PastTable
    <3>2. /\ wanted \in SUBSET Pages
          /\ \A w \in Pages : w \in wanted <=>
               pcb[c].heap_end <= w /\ w < target /\ pcb[c].pt[w] = Unmapped
      BY <1>2, <3>1 DEF Pages, Valid
    <3>3. Supplies(new, wanted, Free)
      <4>1. Free \in SUBSET Frames
        BY DEF Free
      <4> HIDE DEF wanted
      <4> QED BY <3>2, <4>1, Allocated
    <3>4. /\ Account({}, FramesOf(new))
          /\ pcb' = [pcb EXCEPT ![c].pt = MapPages(@, new), ![c].heap_end = target]
          /\ UNCHANGED <<pt_region0, kernel_brk_page, current_process, phase, execs, shrinks, slots,
                         leaked>>
      BY <1>3, <2>3 DEF BrkGrow
    <3> HIDE DEF new, wanted
    <3> QED BY <1>1, <2>3, <3>1, <3>2, <3>3, <3>4, HeapGrows
  <2> QED BY <2>1, <2>2, <2>3
<1>4. CASE target < pcb[c].heap_end /\ BrkShrink(target)
  <2>1. CASE Stop("undefined") \/ Stop("hung")
    BY <2>1, StopStep
  <2>2. CASE /\ pcb' = [pcb EXCEPT ![c].heap_end = target]
             /\ UNCHANGED <<used, free_nframes, pt_region0, kernel_brk_page,
                            current_process, phase, execs, shrinks, slots, leaked>>
    BY <1>1, <1>2, <1>4, <2>2, HeapShrinks
  <2> QED BY <1>4, <2>1, <2>2 DEF BrkShrink
<1> QED BY <1>3, <1>4 DEF Brk


-----------------------------------------------------------------------------
(* LoadProgram.                                                            *)
LEMMA ProgramFacts ==
  ASSUME NEW li \in Programs, Fits(li)
  PROVE  /\ ProgramPages(li) \in SUBSET Pages
         /\ li.data \in 0 .. MAX_PT_LEN /\ MAX_PT_LEN - li.stack_npg \in 0 .. MAX_PT_LEN
         /\ \A v \in Pages : v \in ProgramPages(li) <=>
              \/ li.text <= v /\ v < li.text + li.t_npg
              \/ li.data <= v /\ v < li.data + li.data_npg
              \/ MAX_PT_LEN - li.stack_npg <= v
         /\ li.text + li.t_npg <= li.data
         /\ {li.text, li.t_npg, li.data, li.data_npg, li.stack_npg} \subseteq Nat
<1>1. /\ li.text \in Nat /\ li.t_npg \in Nat /\ li.data \in Nat /\ li.data_npg \in Nat
      /\ li.stack_npg \in Nat /\ li.text + li.t_npg <= li.data
  BY MemoryAssumption DEF Program
<1>2. MAX_PT_LEN \in Nat /\ li.stack_npg + li.data + li.data_npg < MAX_PT_LEN
  BY Constants DEF Fits
<1>3. \A v : v \in ProgramPages(li) <=>
              \/ v \in li.text .. li.text + li.t_npg - 1
              \/ v \in li.data .. li.data + li.data_npg - 1
              \/ v \in MAX_PT_LEN - li.stack_npg .. MAX_PT_LEN - 1
  BY DEF ProgramPages
<1>4. \A v : v \in ProgramPages(li) => v \in Pages
  BY <1>1, <1>2, <1>3 DEF Pages
<1>5. \A v \in Pages : v \in ProgramPages(li) <=>
              \/ li.text <= v /\ v < li.text + li.t_npg
              \/ li.data <= v /\ v < li.data + li.data_npg
              \/ MAX_PT_LEN - li.stack_npg <= v
  BY <1>1, <1>2, <1>3 DEF Pages
<1> QED BY <1>1, <1>2, <1>4, <1>5

LEMMA LoadedTidy ==
  ASSUME NEW li \in Programs, Fits(li), NEW b \in Pcb, NEW new,
         MapPages(NoPages, new) \in [Pages -> Pte],
         \A v \in Pages : MapPages(NoPages, new)[v] # Unmapped <=> v \in ProgramPages(li)
  PROVE  /\ LoadedPCB(b, li, new) \in Pcb /\ Tidy(LoadedPCB(b, li, new))
         /\ LoadedPCB(b, li, new).pt = MapPages(NoPages, new)
         /\ LoadedPCB(b, li, new).kstack = b.kstack
         /\ LoadedPCB(b, li, new).exited = b.exited
<1> DEFINE pt2 == MapPages(NoPages, new)
           a == LoadedPCB(b, li, new)
<1>a. a = [b EXCEPT !.pt = pt2, !.load = "loaded", !.heap_start = li.data,
                    !.heap_end = li.data, !.stack_base = MAX_PT_LEN - li.stack_npg]
  BY DEF LoadedPCB
<1>b. /\ pt2 \in [Pages -> Pte]
      /\ \A v \in Pages : pt2[v] # Unmapped <=> v \in ProgramPages(li)
  OBVIOUS
<1> HIDE DEF pt2, a
<1>1. /\ li.data \in 0 .. MAX_PT_LEN /\ MAX_PT_LEN - li.stack_npg \in 0 .. MAX_PT_LEN
      /\ \A v \in Pages : v \in ProgramPages(li) <=>
              \/ li.text <= v /\ v < li.text + li.t_npg
              \/ li.data <= v /\ v < li.data + li.data_npg
              \/ MAX_PT_LEN - li.stack_npg <= v
      /\ li.text + li.t_npg <= li.data
      /\ li.text \in Nat /\ li.t_npg \in Nat /\ li.data \in Nat /\ li.data_npg \in Nat
      /\ li.stack_npg \in Nat /\ MAX_PT_LEN \in Nat
  BY ProgramFacts, Constants
<1>2. /\ a \in Pcb /\ a.pt = pt2 /\ a.kstack = b.kstack /\ a.exited = b.exited
      /\ a.heap_start = li.data /\ a.heap_end = li.data
      /\ a.stack_base = MAX_PT_LEN - li.stack_npg
  BY <1>1, <1>a, <1>b DEF Pcb
<1>3. \A v \in Pages : v \in Nat
  BY FrameFacts
<1>4. ASSUME NEW v \in Pages,
             MAX_PT_LEN - li.stack_npg <= v \/ (li.data <= v /\ v < li.data)
      PROVE  pt2[v] # Unmapped
  BY <1>1, <1>3, <1>4, <1>b
<1>5. ASSUME NEW u \in Pages, NEW v \in Pages, li.data <= u, u < v,
             v < MAX_PT_LEN - li.stack_npg, pt2[u] = Unmapped
      PROVE  pt2[v] = Unmapped
  <2>1. ~(li.data <= u /\ u < li.data + li.data_npg)
    BY <1>1, <1>5, <1>b
  <2>2. v \notin ProgramPages(li)
    BY <1>1, <1>3, <1>5, <2>1
  <2> QED BY <2>2, <1>b
<1>6. Tidy(a)
  BY <1>2, <1>4, <1>5 DEF Tidy
<1> QED BY <1>2, <1>6 DEF a, pt2

LEMMA ExecReplaces ==
  ASSUME MemInv, phase = "run", NEW c \in DOMAIN pcb, c = current_process,
         NEW li \in Programs, Fits(li), execs < MaxExecs,
         NEW old, old = FramesOf(pcb[c].pt), NEW new,
         Supplies(new, ProgramPages(li), Free \cup old), Valid(new) = ProgramPages(li),
         Account(old, FramesOf(new)),
         \/ pcb' = [pcb EXCEPT ![c] = LoadedPCB(@, li, new)]
         \/ pcb' = [pcb EXCEPT ![c] = HalfLoadedPCB(@, new)],
         execs' = execs + 1,
         UNCHANGED <<pt_region0, kernel_brk_page, current_process, phase, shrinks, slots, leaked>>
  PROVE  MemInv'
<1>1. MemTypeOK /\ PcbFields /\ pcb[c] \in Pcb
  BY Fields DEF MemInv, MemTypeOK
<1>2. ProgramPages(li) \in SUBSET Pages
  BY ProgramFacts
<1>3. PICK pt \in [Pages -> Pte] : pt = pcb[c].pt
  BY <1>1 DEF PcbFields
<1>4. old \subseteq Frames /\ Free \cup old \in SUBSET Frames
  <2>1. FramesOf(pt) \subseteq Frames
    BY TableOps
  <2> QED BY <1>3, <2>1 DEF Free
<1>5. FramesOf(new) \in SUBSET Frames /\ FramesOf(new) \cap (used \ old) = {}
  <2>1. FramesOf(new) \in SUBSET (Free \cup old)
    BY <1>2, <1>4, Supplied
  <2> QED BY <1>4, <2>1 DEF Free
<1> DEFINE pt2 == MapPages(NoPages, new)
<1>6. /\ Remap(pt, pt2, Pages, pt2, FramesOf(pt), {}, FramesOf(new))
      /\ pt2 \in [Pages -> Pte] /\ Valid(pt2) = ProgramPages(li)
  BY <1>2, <1>4, RemapAll
<1>7. \A v \in Pages : pt2[v] # Unmapped <=> v \in ProgramPages(li)
  BY <1>2, <1>6 DEF Valid
<1> HIDE DEF pt2
<1>8. /\ DOMAIN pcb' = DOMAIN pcb /\ \A p \in DOMAIN pcb : p # c => pcb'[p] = pcb[p]
      /\ pcb'[c] \in Pcb /\ Tidy(pcb'[c]) /\ pcb'[c].pt = pt2
      /\ pcb'[c].kstack = pcb[c].kstack /\ pcb'[c].exited = pcb[c].exited
  <2>1. CASE pcb' = [pcb EXCEPT ![c] = LoadedPCB(@, li, new)]
    <3>1. /\ DOMAIN pcb' = DOMAIN pcb /\ \A p \in DOMAIN pcb : p # c => pcb'[p] = pcb[p]
          /\ pcb'[c] = LoadedPCB(pcb[c], li, new)
      BY <2>1
    <3>2. PICK b \in Pcb : b = pcb[c]
      BY <1>1
    <3>3. /\ LoadedPCB(b, li, new) \in Pcb /\ Tidy(LoadedPCB(b, li, new))
          /\ LoadedPCB(b, li, new).pt = MapPages(NoPages, new)
          /\ LoadedPCB(b, li, new).kstack = b.kstack
          /\ LoadedPCB(b, li, new).exited = b.exited
      BY <1>6, <1>7, LoadedTidy DEF pt2
    <3> QED BY <3>1, <3>2, <3>3 DEF pt2
  <2>2. CASE pcb' = [pcb EXCEPT ![c] = HalfLoadedPCB(@, new)]
    <3>1. /\ DOMAIN pcb' = DOMAIN pcb /\ \A p \in DOMAIN pcb : p # c => pcb'[p] = pcb[p]
          /\ pcb'[c] = HalfLoadedPCB(pcb[c], new)
      BY <2>2
    <3>2. pcb'[c] = [pcb[c] EXCEPT !.pt = pt2, !.load = "kill"]
      BY <3>1 DEF HalfLoadedPCB, pt2
    <3>3. /\ pcb'[c] \in Pcb /\ pcb'[c].load = "kill" /\ pcb'[c].pt = pt2
          /\ pcb'[c].kstack = pcb[c].kstack /\ pcb'[c].exited = pcb[c].exited
      BY <1>1, <1>6, <3>2 DEF Pcb
    <3> QED BY <3>1, <3>3 DEF Tidy
  <2> QED BY <2>1, <2>2
<1>9. /\ execs' \in 0 .. MaxExecs /\ pt_region0' \in [Pages -> Pte] /\ phase' = "run"
      /\ current_process' = c /\ ~pcb'[c].exited
  <2>1. execs' \in 0 .. MaxExecs
    BY <1>1, Constants DEF MemTypeOK
  <2>2. pt_region0' \in [Pages -> Pte] /\ phase' = "run" /\ current_process' = c
    BY <1>1 DEF MemTypeOK
  <2>3. ~pcb'[c].exited
    BY <1>8 DEF MemInv, Numbered
  <2> QED BY <2>1, <2>2, <2>3
<1>10. \A w \in KStackPages : pt_region0'[w] = pcb'[current_process'].kstack[w]
  BY <1>8, <1>9 DEF MemInv, OwnKernelStack, Running
<1>11. Remap(pcb[c].pt, pcb'[c].pt, Pages, pt2, old, {}, FramesOf(new))
  <2>1. old = FramesOf(pt)
    BY <1>3
  <2>2. Remap(pt, pt2, Pages, pt2, old, {}, FramesOf(new))
    BY <1>6, <2>1
  <2> QED BY <1>3, <1>8, <2>2
<1>12. Forget("growStack", {})
  BY DEF Forget
<1>13. UserChange(c, Pages, pt2, old, {}, FramesOf(new))
  BY <1>5, <1>8, <1>9, <1>10, <1>11, <1>12 DEF UserChange
<1> QED BY <1>13, UserStep

LEMMA ExecStep ==
  ASSUME MemInv, NEW li \in Programs, Exec(li)
  PROVE  MemInv'
<1> PICK c \in DOMAIN pcb : c = current_process
  BY DEF MemInv, Numbered, Exec, Running
<1>1. phase = "run" /\ Fits(li) /\ execs < MaxExecs
  BY DEF Exec, Running
<1> DEFINE old == FramesOf(pcb[c].pt)
           new == allocFrame(Free \cup old, ProgramPages(li))
<1>2. CASE Valid(new) # ProgramPages(li)
  <2>1. Stop("undefined")
    BY <1>2 DEF Exec, Discarded, LoadedPages
  <2> QED BY <2>1, StopStep
<1>3. CASE Valid(new) = ProgramPages(li)
  <2>1. /\ Account(old, FramesOf(new))
        /\ \/ pcb' = [pcb EXCEPT ![c] = LoadedPCB(@, li, new)]
           \/ pcb' = [pcb EXCEPT ![c] = HalfLoadedPCB(@, new)]
        /\ execs' = execs + 1
        /\ UNCHANGED <<pt_region0, kernel_brk_page, current_process, phase, shrinks, slots, leaked>>
    BY <1>3 DEF Exec, Discarded, LoadedPages
  <2>2. Supplies(new, ProgramPages(li), Free \cup old)
    <3>1. pcb[c].pt \in [Pages -> Pte]
      BY Tables DEF MemInv, TableForms
    <3>2. FramesOf(pcb[c].pt) \subseteq Frames
      BY <3>1, TableOps
    <3>3. Free \cup old \in SUBSET Frames /\ ProgramPages(li) \in SUBSET Pages
      BY <1>1, <3>2, ProgramFacts DEF Free
    <3> HIDE DEF old
    <3> QED BY <3>3, Allocated
  <2>3. old = FramesOf(pcb[c].pt)
    OBVIOUS
  <2> HIDE DEF new, old
  <2> QED BY <1>1, <1>3, <2>1, <2>2, <2>3, ExecReplaces
<1> QED BY <1>2, <1>3


-----------------------------------------------------------------------------
(* Steps that create a process.                                            *)
Created(c, D, taken) ==
  /\ c = slots /\ c \in 0 .. MAX_PROCS - 1
  /\ DOMAIN pcb' = DOMAIN pcb \cup {c} /\ \A p \in DOMAIN pcb : pcb'[p] = pcb[p]
  /\ pcb'[c] \in Pcb /\ Tidy(pcb'[c])
  /\ \A f : f \in taken <=> \/ f # Unmapped /\ \E v \in Pages : pcb'[c].pt[v] = f
                            \/ \E v \in KStackPages : pcb'[c].kstack[v] = f
  /\ \A u, v \in Pages : pcb'[c].pt[u] = pcb'[c].pt[v] /\ pcb'[c].pt[u] # Unmapped => u = v
  /\ \A u, v \in KStackPages : pcb'[c].kstack[u] = pcb'[c].kstack[v] => u = v
  /\ \A u \in Pages, v \in KStackPages : pcb'[c].pt[u] # pcb'[c].kstack[v]
  /\ taken \in SUBSET Frames /\ taken \cap used = {} /\ Account({}, taken)
  /\ D \subseteq ScratchPages /\ pt_region0' = UnmapPages(pt_region0, D)
  /\ Forget("CloneFrame", FramesIn(pt_region0, D))
  /\ phase' \in {"idle", "run"}
  /\ UNCHANGED <<kernel_brk_page, current_process, execs, shrinks>> /\ slots' = slots + 1

LEMMA CreationStep ==
  ASSUME MemInv, NEW c, NEW D, NEW taken, Created(c, D, taken)
  PROVE  /\ MemTypeOK' /\ Owned' /\ (free_nframes = Cardinality(Free))'
         /\ (kernel_brk_page < KSTACK_START_PAGE)'
         /\ KernelHeapIsMapped' /\ TidySpaces'
         /\ \A v \in KStackPages : pt_region0'[v] = pt_region0[v]
         /\ DOMAIN pcb' \subseteq 0 .. slots' - 1
<1> USE DEF Created
<1>1. MemTypeOK /\ Owned /\ used \in SUBSET Frames
  BY DEF MemInv, MemTypeOK
<1>2. PICK pt0 \in [Pages -> Pte] : pt0 = pt_region0
  BY <1>1 DEF MemTypeOK
<1>3. D \in SUBSET Pages /\ D \subseteq KernelPages
  BY FrameFacts DEF KernelPages
<1>4. /\ pt_region0' \in [Pages -> Pte]
      /\ \A v \in D : pt_region0'[v] = Unmapped
      /\ \A v \in Pages \ D : pt_region0'[v] = pt_region0[v]
      /\ \A f : f \in FramesIn(pt_region0, D) <=> f # Unmapped /\ \E v \in D : pt_region0[v] = f
  <2>1. /\ UnmapPages(pt0, D) \in [Pages -> Pte]
        /\ \A v \in D : UnmapPages(pt0, D)[v] = Unmapped
        /\ \A v \in Pages \ D : UnmapPages(pt0, D)[v] = pt0[v]
        /\ \A f : f \in FramesIn(pt0, D) <=> f # Unmapped /\ \E v \in D : v \in Pages /\ pt0[v] = f
    BY <1>3, TableOps
  <2> QED BY <1>2, <1>3, <2>1
<1> DEFINE lost == FramesIn(pt_region0, D)
<1>5. lost \in SUBSET Frames
  BY <1>2, <1>3, <1>4 DEF Pte
<1>6. /\ used' = used \cup taken /\ used' \in SUBSET Frames
      /\ free_nframes' = Cardinality(Free') /\ free_nframes' \in 0 .. NFRAMES
  <2>1. taken \cap (used \ {}) = {}
    OBVIOUS
  <2>2. /\ used' = (used \ {}) \cup taken /\ used' \in SUBSET Frames
        /\ free_nframes' = Cardinality(Free') /\ free_nframes' \in 0 .. NFRAMES
    BY <1>1, <2>1, Counted DEF MemInv
  <2> QED BY <2>2
<1>7. /\ leaked' \subseteq Forgetters \X Frames
      /\ Forgotten' = Forgotten \cup lost
  BY <1>1, <1>5, Forgets DEF MemTypeOK, Forgetters
<1>8. MemTypeOK'
  <2>1. /\ \A p \in DOMAIN pcb' : pcb'[p] \in Pcb
        /\ DOMAIN pcb' \subseteq 0 .. MAX_PROCS - 1
    BY <1>1 DEF MemTypeOK
  <2>2. slots' \in 0 .. MAX_PROCS
    BY Constants
  <2> QED BY <1>1, <1>4, <1>6, <1>7, <2>1, <2>2 DEF MemTypeOK
<1>9. Owned'
  <2>1. c \notin DOMAIN pcb
    BY Constants DEF MemInv, Numbered
  <2>2. \A v \in KernelPages \ D : pt_region0'[v] = pt_region0[v]
    BY <1>4 DEF KernelPages
  <2> HIDE DEF lost
  <2>3. \A f : f \in lost <=> f # Unmapped /\ \E v \in D : pt_region0[v] = f
    BY <1>4 DEF lost
  <2>4. Spawns(c, D, lost, taken)
    BY <1>3, <1>4, <1>6, <1>7, <2>1, <2>2, <2>3 DEF Spawns
  <2> QED BY <1>1, <1>8, <2>4, CreationMoves
<1>10. (free_nframes = Cardinality(Free))' /\ (kernel_brk_page < KSTACK_START_PAGE)'
  BY <1>6 DEF MemInv
<1>11. KernelHeapIsMapped'
  <2>1. \A v : v \in Valid(pt_region0) => v \in Valid(pt_region0') \cup ScratchPages
    BY <1>2, <1>4 DEF Valid
  <2> QED BY <2>1 DEF MemInv, KernelHeapIsMapped, ScratchPages
<1>12. TidySpaces'
  BY DEF MemInv, TidySpaces
<1>13. \A v \in KStackPages : pt_region0'[v] = pt_region0[v]
  BY <1>3, <1>4, FrameFacts DEF KernelPages
<1>14. DOMAIN pcb' \subseteq 0 .. slots' - 1
  <2>1. \A p \in DOMAIN pcb' : p \in 0 .. slots - 1 \/ p = slots
    BY DEF MemInv, Numbered
  <2> QED BY <2>1, Constants
<1> QED BY <1>8, <1>9, <1>10, <1>11, <1>12, <1>13, <1>14


(* A new PCB with its page table and kernel stack in frames of their own.  *)
LEMMA NewPCBFacts ==
  ASSUME NEW ppid \in {INVALID_PID} \cup 0 .. MAX_PROCS - 1,
         NEW pt \in [Pages -> Pte], NEW kstack \in [KStackPages -> Frames]
  PROVE  /\ NewPCB(ppid, pt, kstack) \in Pcb /\ Tidy(NewPCB(ppid, pt, kstack))
         /\ NewPCB(ppid, pt, kstack).pt = pt /\ NewPCB(ppid, pt, kstack).kstack = kstack
         /\ NewPCB(ppid, pt, kstack).exited = FALSE
<1>1. 0 \in 0 .. MAX_PT_LEN /\ MAX_PT_LEN \in 0 .. MAX_PT_LEN
  BY Constants
<1> QED BY <1>1 DEF NewPCB, Pcb, Tidy

(* The kernel stack that InitializeKernelStackProcess hands out.           *)
LEMMA KStackSupplied ==
  ASSUME NEW free \in SUBSET Frames, NEW kstack, Supplies(kstack, KStackPages, free),
         Valid(kstack) = KStackPages
  PROVE  /\ kstack \in [KStackPages -> Frames] /\ \A v \in KStackPages : kstack[v] \in free
         /\ \A u, v \in KStackPages : kstack[u] = kstack[v] => u = v
         /\ \A f : f \in FramesOf(kstack) <=> \E v \in KStackPages : kstack[v] = f
         /\ FramesOf(kstack) \in SUBSET free
<1>1. KStackPages \in SUBSET Pages
  BY FrameFacts
<1>2. /\ \A v \in KStackPages : kstack[v] \in free /\ kstack[v] # Unmapped
      /\ \A f : f \in FramesOf(kstack) <=> f # Unmapped /\ \E v \in KStackPages : kstack[v] = f
      /\ FramesOf(kstack) \in SUBSET free
  BY <1>1, Supplied
<1> QED BY <1>2 DEF Supplies

LEMMA CreateIdleStep == MemInv /\ CreateIdlePCB => MemInv'
<1> SUFFICES ASSUME MemInv, CreateIdlePCB PROVE MemInv'
  OBVIOUS
<1>1. /\ phase = "vm" /\ DOMAIN pcb = {} /\ used = 0 .. kernel_brk_page - 1
      /\ \A v \in KStackPages : pt_region0[v] = v
  BY DEF MemInv, Identity, BootStack, CreateIdlePCB
<1>2. /\ kernel_brk_page \in Nat /\ kernel_brk_page < KSTACK_START_PAGE
      /\ OrigBrk <= kernel_brk_page /\ kernel_brk_page < NFRAMES
  BY Constants DEF MemInv, MemTypeOK
<1> DEFINE b == kernel_brk_page
           last == MAX_PT_LEN - 1
           ustack == allocFrame(Free, {last})
<1>3. Free = b .. NFRAMES - 1 /\ b \in Frames /\ b \notin KStackPages /\ b \notin used
  BY <1>1, <1>2, Constants DEF Free, Frames, KStackPages
<1>4. last \in Pages /\ last \in Nat
  BY Constants DEF Pages
<1>5. ustack = [w \in {last} |-> b]
  BY <1>2, <1>3, <1>4, AllocFirst
<1>6. b # Unmapped
  BY <1>3, FrameFacts
<1>7. FramesOf(ustack) = {b}
  BY <1>5, <1>6 DEF FramesOf, Valid
<1>8. allocSpecificFrame(Free \ {b}, KStackPages) = KStackPages
  <2>1. \A v \in KStackPages : v \in Free \ {b}
    BY <1>2, <1>3, Constants DEF KStackPages
  <2> QED BY <2>1 DEF allocSpecificFrame
<1> DEFINE taken == {b} \cup KStackPages
           pt == MapPages(NoPages, ustack)
           kstack == InitializeKernelStackIdle
<1>9. /\ pt \in [Pages -> Pte] /\ pt[last] = b
      /\ \A v \in Pages : v # last => pt[v] = Unmapped
  BY <1>3, <1>4, <1>5 DEF MapPages, NoPages, Pte
<1>10. kstack \in [KStackPages -> Frames] /\ \A v \in KStackPages : kstack[v] = v
  BY FrameFacts DEF InitializeKernelStackIdle
<1>11. /\ Account({}, taken) /\ pcb' = [p \in {Idle} |-> NewPCB(INVALID_PID, pt, kstack)]
       /\ phase' = "idle" /\ slots' = slots + 1
       /\ UNCHANGED <<pt_region0, kernel_brk_page, current_process, execs, shrinks, leaked>>
  BY <1>7, <1>8 DEF CreateIdlePCB
<1> HIDE DEF pt, kstack, b, ustack, last
<1>12. /\ DOMAIN pcb' = {Idle} /\ pcb'[Idle] \in Pcb /\ Tidy(pcb'[Idle])
       /\ pcb'[Idle].pt = pt /\ pcb'[Idle].kstack = kstack /\ ~pcb'[Idle].exited
  <2>1. DOMAIN pcb' = {Idle} /\ pcb'[Idle] = NewPCB(INVALID_PID, pt, kstack)
    BY <1>11
  <2>2. INVALID_PID \in {INVALID_PID} \cup 0 .. MAX_PROCS - 1
    OBVIOUS
  <2>3. pt \in [Pages -> Pte] /\ kstack \in [KStackPages -> Frames]
    BY <1>9, <1>10
  <2>4. LET new == NewPCB(INVALID_PID, pt, kstack)
        IN  new \in Pcb /\ Tidy(new) /\ new.pt = pt /\ new.kstack = kstack /\ new.exited = FALSE
    BY ZenonT(60), <2>2, <2>3, NewPCBFacts
  <2> QED BY <2>1, <2>4
<1>13. Created(Idle, {}, taken)
  <2>1. Idle = slots /\ Idle \in 0 .. MAX_PROCS - 1
    BY <1>1, Constants DEF Idle, MemInv, Numbered
  <2>2. \A f : f \in taken <=> \/ f # Unmapped /\ \E v \in Pages : pt[v] = f
                               \/ \E v \in KStackPages : kstack[v] = f
    BY <1>4, <1>6, <1>9, <1>10
  <2>3. /\ \A u, v \in Pages : pt[u] = pt[v] /\ pt[u] # Unmapped => u = v
        /\ \A u, v \in KStackPages : kstack[u] = kstack[v] => u = v
        /\ \A u \in Pages, v \in KStackPages : pt[u] # kstack[v]
    <3>1. Unmapped \notin KStackPages
      BY FrameFacts
    <3> QED BY <1>3, <1>9, <1>10, <3>1
  <2>4. taken \in SUBSET Frames /\ taken \cap used = {}
    <3>1. \A v \in KStackPages : v \notin used
      BY <1>1, <1>2, Constants DEF KStackPages
    <3> QED BY <1>3, <3>1, FrameFacts
  <2>5. pt_region0' = UnmapPages(pt_region0, {}) /\ Forget("CloneFrame", FramesIn(pt_region0, {}))
    <3>1. pt_region0 \in [Pages -> Pte]
      BY DEF MemInv, MemTypeOK
    <3> QED BY <1>11, <3>1 DEF UnmapPages, Forget, FramesIn
  <2>6. \A p \in DOMAIN pcb : pcb'[p] = pcb[p]
    BY <1>1
  <2>7. DOMAIN pcb' = DOMAIN pcb \cup {Idle}
    BY <1>1, <1>12
  <2> QED BY <1>11, <1>12, <2>1, <2>2, <2>3, <2>4, <2>5, <2>6, <2>7 DEF Created
<1>14. /\ MemTypeOK' /\ Owned' /\ (free_nframes = Cardinality(Free))'
       /\ (kernel_brk_page < KSTACK_START_PAGE)'
       /\ KernelHeapIsMapped' /\ TidySpaces'
       /\ DOMAIN pcb' \subseteq 0 .. slots' - 1
  BY <1>13, CreationStep
<1>15. Identity' /\ BootStack' /\ Numbered' /\ OwnKernelStack'
  <2>1. current_process' = Idle /\ slots' = 1
    BY <1>11, <1>1 DEF MemInv, BootStack, Numbered
  <2> QED BY <1>1, <1>10, <1>11, <1>12, <1>14, <2>1
          DEF Identity, BootStack, Numbered, OwnKernelStack, Running
<1> QED BY <1>14, <1>15 DEF MemInv


LEMMA CreateInitStep ==
  ASSUME MemInv, NEW li \in Programs, CreateInit(li)
  PROVE  MemInv'
<1>1. /\ phase = "idle" /\ Fits(li) /\ DOMAIN pcb = {Idle} /\ current_process = Idle
      /\ ~pcb[Idle].exited
      /\ \A v \in KStackPages : pt_region0[v] = v /\ pcb[Idle].kstack[v] = v
  BY DEF MemInv, BootStack, CreateInit
<1> DEFINE kstack == allocFrame(Free, KStackPages)
           rest == Free \ FramesOf(kstack)
           new == allocFrame(rest, ProgramPages(li))
<1>2. CASE Valid(kstack) # KStackPages
  <2>1. Stop("halted")
    BY <1>2 DEF CreateInit, InitializeKernelStackProcess
  <2> QED BY <2>1, StopStep
<1>3. CASE Valid(kstack) = KStackPages /\ Valid(new) # ProgramPages(li)
  <2>1. Stop("undefined")
    BY <1>3 DEF CreateInit, InitializeKernelStackProcess, LoadedPages
  <2> QED BY <2>1, StopStep
<1>4. CASE Valid(kstack) = KStackPages /\ Valid(new) = ProgramPages(li)
  <2> DEFINE taken == FramesOf(kstack) \cup FramesOf(new)
             pt == MapPages(NoPages, new)
             child == LoadedPCB(NewPCB(INVALID_PID, NoPages, kstack), li, new)
  <2>1. /\ Account({}, taken)
        /\ pcb' = [p \in {Idle, InitProc} |-> IF p = Idle THEN pcb[Idle] ELSE child]
        /\ CloneFrame /\ phase' = "run" /\ slots' = slots + 1
        /\ UNCHANGED <<kernel_brk_page, current_process, execs, shrinks>>
    BY <1>4 DEF CreateInit, InitializeKernelStackProcess, LoadedPages, KCCopy
  <2>2. Supplies(kstack, KStackPages, Free) /\ Free \in SUBSET Frames /\ rest \in SUBSET Frames
    BY Allocated, FrameFacts DEF Free
  <2>3. Supplies(new, ProgramPages(li), rest) /\ ProgramPages(li) \in SUBSET Pages
    <3>1. ProgramPages(li) \in SUBSET Pages
      BY <1>1, ProgramFacts
    <3> HIDE DEF rest
    <3> QED BY <2>2, <3>1, Allocated
  <2> HIDE DEF kstack, new
  <2>4. /\ kstack \in [KStackPages -> Frames]
        /\ \A u, v \in KStackPages : kstack[u] = kstack[v] => u = v
        /\ \A f : f \in FramesOf(kstack) <=> \E v \in KStackPages : kstack[v] = f
        /\ FramesOf(kstack) \in SUBSET Free
    BY <1>4, <2>2, KStackSupplied
  <2>5. NoPages \in [Pages -> Pte]
    BY DEF NoPages, Pte
  <2>6. /\ pt \in [Pages -> Pte] /\ Valid(pt) = ProgramPages(li) /\ FramesOf(pt) = FramesOf(new)
        /\ \A u, v \in Pages : pt[u] = pt[v] /\ pt[u] # Unmapped => u = v
    <3> HIDE DEF rest
    <3> QED BY <1>4, <2>2, <2>3, <2>5, RemapAll
  <2>7. FramesOf(new) \in SUBSET rest
    <3> HIDE DEF rest
    <3> QED BY <2>2, <2>3, Supplied
  <2>8. \A v \in Pages : pt[v] # Unmapped <=> v \in ProgramPages(li)
    BY <2>3, <2>6 DEF Valid
  <2>9. /\ child \in Pcb /\ Tidy(child) /\ child.pt = pt /\ child.kstack = kstack
        /\ ~child.exited
    <3>1. PICK b \in Pcb : b = NewPCB(INVALID_PID, NoPages, kstack)
      BY <2>4, <2>5, NewPCBFacts
    <3>2. b.kstack = kstack /\ ~b.exited
      BY <3>1 DEF NewPCB
    <3>3. /\ LoadedPCB(b, li, new) \in Pcb /\ Tidy(LoadedPCB(b, li, new))
          /\ LoadedPCB(b, li, new).pt = MapPages(NoPages, new)
          /\ LoadedPCB(b, li, new).kstack = b.kstack
          /\ LoadedPCB(b, li, new).exited = b.exited
      BY <1>1, <2>6, <2>8, LoadedTidy
    <3> QED BY <3>1, <3>2, <3>3
  <2> HIDE DEF child, pt
  <2>10. /\ DOMAIN pcb' = {Idle, InitProc} /\ pcb'[Idle] = pcb[Idle] /\ pcb'[InitProc] = child
    BY <2>1 DEF Idle, InitProc
  <2>11. Created(InitProc, ScratchPages, taken)
    <3>1. /\ InitProc = slots /\ InitProc \in 0 .. MAX_PROCS - 1
          /\ DOMAIN pcb' = DOMAIN pcb \cup {InitProc}
      BY <1>1, <2>10, Constants DEF Idle, InitProc, MemInv, Numbered
    <3>2. \A f : f \in FramesOf(pt) <=> f # Unmapped /\ \E v \in Pages : pt[v] = f
      BY <2>6, TableOps
    <3>3. \A f : f \in taken <=> \/ f # Unmapped /\ \E v \in Pages : pt[v] = f
                                 \/ \E v \in KStackPages : kstack[v] = f
      BY <2>4, <2>6, <3>2
    <3>4. \A u \in Pages, v \in KStackPages : pt[u] # kstack[v]
      BY <2>4, <2>6, <2>7, <3>2, FrameFacts
    <3>5. taken \in SUBSET Frames /\ taken \cap used = {}
      BY <2>4, <2>7 DEF Free
    <3>6. /\ pt_region0' = UnmapPages(pt_region0, ScratchPages)
          /\ Forget("CloneFrame", FramesIn(pt_region0, ScratchPages))
      BY <2>1 DEF CloneFrame
    <3>7. \A p \in DOMAIN pcb : pcb'[p] = pcb[p]
      BY <1>1, <2>10
    <3>8. UNCHANGED <<kernel_brk_page, current_process, execs, shrinks>> /\ slots' = slots + 1
      BY <2>1
    <3> QED BY <2>1, <2>4, <2>6, <2>9, <2>10, <3>1, <3>3, <3>4, <3>5, <3>6, <3>7, <3>8, SMTT(30)
            DEF Created
  <2>12. /\ MemTypeOK' /\ Owned' /\ (free_nframes = Cardinality(Free))'
         /\ (kernel_brk_page < KSTACK_START_PAGE)'
         /\ KernelHeapIsMapped' /\ TidySpaces'
         /\ \A v \in KStackPages : pt_region0'[v] = pt_region0[v]
         /\ DOMAIN pcb' \subseteq 0 .. slots' - 1
    BY <2>11, CreationStep
  <2>13. Identity' /\ BootStack' /\ Numbered' /\ OwnKernelStack'
    BY <1>1, <2>1, <2>10, <2>12 DEF Identity, BootStack, Numbered, OwnKernelStack
  <2> QED BY <2>12, <2>13 DEF MemInv
<1> QED BY <1>2, <1>3, <1>4

LEMMA ForkStep == MemInv /\ Fork => MemInv'
<1> SUFFICES ASSUME MemInv, Fork PROVE MemInv'
  OBVIOUS
<1> PICK c \in DOMAIN pcb : c = current_process
  BY DEF MemInv, Numbered, Fork, Running
<1>1. phase = "run" /\ pcb[c].pt \in [Pages -> Pte]
  BY Tables DEF Fork, Running, MemInv, TableForms
<1> DEFINE src == pcb[c].pt
           new == allocFrame(Free, Valid(src))
           dst == MapPages(NoPages, new)
           rest == Free \ FramesOf(dst)
           kstack == allocFrame(rest, KStackPages)
           child == slots
<1>2. CASE child >= MAX_PROCS \/ Valid(dst) # Valid(src) \/ Valid(kstack) # KStackPages
  <2>1. Stop("halted")
    BY <1>2 DEF Fork, CopyPT, InitializeKernelStackProcess
  <2> QED BY <2>1, StopStep
<1>3. CASE ~(child >= MAX_PROCS) /\ Valid(dst) = Valid(src) /\ Valid(kstack) = KStackPages
  <2> DEFINE taken == FramesOf(dst) \cup FramesOf(kstack)
  <2>1. /\ Account({}, taken)
        /\ pcb' = [p \in DOMAIN pcb \cup {child} |->
                     IF p = child THEN NewPCB(c, dst, kstack) ELSE pcb[p]]
        /\ CloneFrame /\ slots' = slots + 1
        /\ UNCHANGED <<kernel_brk_page, current_process, phase, execs, shrinks>>
    BY <1>3 DEF Fork, CopyPT, InitializeKernelStackProcess, KCCopy
  <2>2. /\ Free \in SUBSET Frames /\ rest \in SUBSET Frames /\ Valid(src) \in SUBSET Pages
    BY <1>1 DEF Free, Valid
  <2>3. Supplies(new, Valid(src), Free)
    <3> HIDE DEF src
    <3> QED BY <2>2, Allocated
  <2>4. Supplies(kstack, KStackPages, rest)
    <3>1. KStackPages \in SUBSET Pages
      BY FrameFacts
    <3> HIDE DEF rest
    <3> QED BY <2>2, <3>1, Allocated
  <2>5. child \in 0 .. MAX_PROCS - 1 /\ child = slots /\ child \notin DOMAIN pcb
    BY <1>3, Constants DEF MemInv, MemTypeOK, Numbered
  <2> HIDE DEF src, new, child
  <2>6. NoPages \in [Pages -> Pte] /\ \A v \in Pages : NoPages[v] = Unmapped
    BY DEF NoPages, Pte
  <2>7. Valid(new) = Valid(src)
    <3>1. /\ DOMAIN new = Valid(src) /\ \A v \in DOMAIN new : new[v] \in Pte
      BY <2>2, <2>3 DEF Supplies, Pte
    <3>2. \A v \in Pages : dst[v] = IF v \in Valid(src) THEN new[v] ELSE Unmapped
      BY <2>6, <3>1, TableOps
    <3>3. \A v \in Valid(src) : new[v] # Unmapped
      BY <1>3, <2>2, <3>2 DEF Valid
    <3> QED BY <3>1, <3>3 DEF Valid
  <2>8. /\ dst \in [Pages -> Pte] /\ FramesOf(dst) = FramesOf(new)
        /\ \A u, v \in Pages : dst[u] = dst[v] /\ dst[u] # Unmapped => u = v
    BY <2>2, <2>3, <2>6, <2>7, RemapAll
  <2>9. FramesOf(new) \in SUBSET Free
    BY <2>2, <2>3, Supplied
  <2> HIDE DEF dst, kstack
  <2>10. /\ kstack \in [KStackPages -> Frames]
         /\ \A u, v \in KStackPages : kstack[u] = kstack[v] => u = v
         /\ \A f : f \in FramesOf(kstack) <=> \E v \in KStackPages : kstack[v] = f
         /\ FramesOf(kstack) \in SUBSET rest
    <3> HIDE DEF rest
    <3> QED BY <1>3, <2>2, <2>4, KStackSupplied, SMTT(30)
  <2>11. /\ DOMAIN pcb' = DOMAIN pcb \cup {child} /\ pcb'[child] \in Pcb /\ Tidy(pcb'[child])
         /\ pcb'[child].pt = dst /\ pcb'[child].kstack = kstack
         /\ \A p \in DOMAIN pcb : pcb'[p] = pcb[p]
    <3>1. pcb'[child] = NewPCB(c, dst, kstack) /\ DOMAIN pcb' = DOMAIN pcb \cup {child}
      BY <2>1
    <3>2. \A p \in DOMAIN pcb : p # child
      BY <2>5, Constants
    <3>3. \A p \in DOMAIN pcb : pcb'[p] = pcb[p]
      BY <2>1, <3>2
    <3>4. /\ dst \in [Pages -> Pte] /\ kstack \in [KStackPages -> Frames]
          /\ c \in 0 .. MAX_PROCS - 1
      BY <2>8, <2>10 DEF MemInv, MemTypeOK
    <3>5. /\ NewPCB(c, dst, kstack) \in Pcb /\ Tidy(NewPCB(c, dst, kstack))
          /\ NewPCB(c, dst, kstack).pt = dst /\ NewPCB(c, dst, kstack).kstack = kstack
      BY ZenonT(60), <3>4, NewPCBFacts
    <3> QED BY <3>1, <3>3, <3>5
  <2>12. Created(child, ScratchPages, taken)
    <3>1. \A f : f \in FramesOf(dst) <=> f # Unmapped /\ \E v \in Pages : dst[v] = f
      BY <2>8, TableOps
    <3>2. \A f : f \in taken <=> \/ f # Unmapped /\ \E v \in Pages : dst[v] = f
                                 \/ \E v \in KStackPages : kstack[v] = f
      BY <2>10, <3>1
    <3>3. \A u \in Pages, v \in KStackPages : dst[u] # kstack[v]
      BY <2>10, <3>1, FrameFacts
    <3>4. taken \in SUBSET Frames /\ taken \cap used = {}
      BY <2>8, <2>9, <2>10 DEF Free
    <3>5. /\ pt_region0' = UnmapPages(pt_region0, ScratchPages)
          /\ Forget("CloneFrame", FramesIn(pt_region0, ScratchPages))
      BY <2>1 DEF CloneFrame
    <3> QED BY <1>1, <2>1, <2>5, <2>8, <2>10, <2>11, <3>2, <3>3, <3>4, <3>5 DEF Created
  <2>13. /\ MemTypeOK' /\ Owned' /\ (free_nframes = Cardinality(Free))'
         /\ (kernel_brk_page < KSTACK_START_PAGE)'
         /\ KernelHeapIsMapped' /\ TidySpaces'
         /\ \A v \in KStackPages : pt_region0'[v] = pt_region0[v]
         /\ DOMAIN pcb' \subseteq 0 .. slots' - 1
    BY <2>12, CreationStep
  <2>14. Identity' /\ BootStack' /\ phase' = "run" /\ current_process' = c
    BY <1>1, <2>1 DEF Identity, BootStack
  <2>15. Numbered'
    BY <1>1, <2>11, <2>13, <2>14 DEF MemInv, Numbered
  <2>16. OwnKernelStack'
    BY <1>1, <2>11, <2>13, <2>14 DEF MemInv, OwnKernelStack, Running
  <2> QED BY <2>13, <2>14, <2>15, <2>16 DEF MemInv
<1> QED BY <1>2, <1>3


-----------------------------------------------------------------------------
(* A process is deleted: the frames of both its tables are lost.           *)
LEMMA DeletionMoves ==
  ASSUME Owned, MemTypeOK, MemTypeOK', NEW q \in DOMAIN pcb, NEW lost,
         DOMAIN pcb' = DOMAIN pcb \ {q}, \A p \in DOMAIN pcb' : pcb'[p] = pcb[p],
         UNCHANGED <<used, pt_region0>>, Forgotten' = Forgotten \cup lost,
         \A f : f \in lost <=> \/ f # Unmapped /\ \E v \in Pages : pcb[q].pt[v] = f
                               \/ \E v \in KStackPages : pcb[q].kstack[v] = f
  PROVE  Owned'
<1>1. Spots /\ FrameForms /\ Spots' /\ FrameForms'
  BY TwoStates
<1>2. OnePlace
  BY OwnedPlaces
<1>3. lost \subseteq MappedFrames
  <2> SUFFICES ASSUME NEW f \in lost PROVE f \in MappedFrames
    OBVIOUS
  <2>1. CASE \E v \in Pages : pcb[q].pt[v] = f /\ f # Unmapped
    <3>1. PICK v \in Pages : pcb[q].pt[v] = f /\ f # Unmapped
      BY <2>1
    <3>2. UserAt(q, v) \in Places /\ FrameAt(UserAt(q, v)) = f
      BY <1>1, <3>1 DEF Spots, FrameForms
    <3> QED BY <3>2 DEF MappedFrames
  <2>2. CASE \E v \in KStackPages : pcb[q].kstack[v] = f
    <3>1. PICK v \in KStackPages : pcb[q].kstack[v] = f
      BY <2>2
    <3>2. KStackAt(q, v) \in Places /\ FrameAt(KStackAt(q, v)) = f
      BY <1>1, <3>1 DEF Spots, FrameForms
    <3> QED BY <3>2 DEF MappedFrames
  <2> QED BY <2>1, <2>2
<1>4. ASSUME NEW x \in Places
      PROVE  FrameAt(x) \in lost \/ (x \in Places' /\ FrameAt(x)' = FrameAt(x))
  <2>1. ASSUME NEW v \in KernelPages, pt_region0[v] # Unmapped, x = KernelAt(v)
        PROVE  x \in Places' /\ FrameAt(x)' = FrameAt(x)
    BY <1>1, <2>1 DEF Spots, FrameForms
  <2>2. ASSUME NEW p \in DOMAIN pcb, NEW v \in KStackPages, x = KStackAt(p, v)
        PROVE  FrameAt(x) \in lost \/ (x \in Places' /\ FrameAt(x)' = FrameAt(x))
    <3>1. CASE p = q
      BY <1>1, <2>2, <3>1 DEF FrameForms
    <3>2. CASE p # q
      BY <1>1, <2>2, <3>2 DEF Spots, FrameForms
    <3> QED BY <3>1, <3>2
  <2>3. ASSUME NEW p \in DOMAIN pcb, NEW v \in Pages, pcb[p].pt[v] # Unmapped, x = UserAt(p, v)
        PROVE  FrameAt(x) \in lost \/ (x \in Places' /\ FrameAt(x)' = FrameAt(x))
    <3>1. CASE p = q
      BY <1>1, <2>3, <3>1 DEF FrameForms
    <3>2. CASE p # q
      BY <1>1, <2>3, <3>2 DEF Spots, FrameForms
    <3> QED BY <3>1, <3>2
  <2> QED BY <1>1, <2>1, <2>2, <2>3 DEF Spots
<1>5. ASSUME NEW x \in Places'
      PROVE  x \in Places /\ FrameAt(x)' = FrameAt(x) /\ FrameAt(x) \notin lost
  <2>1. ASSUME NEW v \in KernelPages, pt_region0'[v] # Unmapped, x = KernelAt(v)
        PROVE  x \in Places /\ FrameAt(x)' = FrameAt(x) /\ FrameAt(x) \notin lost
    <3>1. x \in Places /\ FrameAt(x)' = FrameAt(x) /\ FrameAt(x) = pt_region0[v]
      BY <1>1, <2>1 DEF Spots, FrameForms
    <3>2. pt_region0[v] \notin lost
      BY <1>2, <2>1 DEF OnePlace
    <3> QED BY <3>1, <3>2
  <2>2. ASSUME NEW p \in DOMAIN pcb', NEW v \in KStackPages, x = KStackAt(p, v)
        PROVE  x \in Places /\ FrameAt(x)' = FrameAt(x) /\ FrameAt(x) \notin lost
    <3>1. x \in Places /\ FrameAt(x)' = FrameAt(x) /\ FrameAt(x) = pcb[p].kstack[v]
      BY <1>1, <2>2 DEF Spots, FrameForms
    <3>2. pcb[p].kstack[v] \notin lost
      BY <1>2 DEF OnePlace
    <3> QED BY <3>1, <3>2
  <2>3. ASSUME NEW p \in DOMAIN pcb', NEW v \in Pages, pcb'[p].pt[v] # Unmapped, x = UserAt(p, v)
        PROVE  x \in Places /\ FrameAt(x)' = FrameAt(x) /\ FrameAt(x) \notin lost
    <3>1. x \in Places /\ FrameAt(x)' = FrameAt(x) /\ FrameAt(x) = pcb[p].pt[v]
      BY <1>1, <2>3 DEF Spots, FrameForms
    <3>2. pcb[p].pt[v] \notin lost
      BY <1>2, <2>3 DEF OnePlace
    <3> QED BY <3>1, <3>2
  <2> QED BY <1>1, <2>1, <2>2, <2>3 DEF Spots
<1>6. Moved({}, lost, {})
  BY <1>3, <1>4, <1>5 DEF Moved
<1> QED BY <1>6, Moves

(* Wait for a zombie: a live process, another one, deletes it.             *)
LEMMA WaitStep ==
  ASSUME MemInv, NEW q \in DOMAIN pcb, Wait(q)
  PROVE  MemInv'
<1> PICK c \in DOMAIN pcb : c = current_process
  BY DEF MemInv, Numbered, Wait, Running
<1> DEFINE lost == FramesOf(pcb[q].pt) \cup FramesOf(pcb[q].kstack)
<1>1. /\ phase = "run" /\ pcb[q].exited
      /\ DOMAIN pcb' = DOMAIN pcb \ {q} /\ \A p \in DOMAIN pcb' : pcb'[p] = pcb[p]
      /\ Forget("deletePCB", lost)
      /\ UNCHANGED <<used, free_nframes, pt_region0, kernel_brk_page, current_process,
                      phase, execs, shrinks, slots>>
  BY DEF Wait, deletePCB, Running
<1>2. MemTypeOK /\ TableForms /\ Owned
  BY Tables DEF MemInv
<1>3. \A f : f \in lost <=> \/ f # Unmapped /\ \E v \in Pages : pcb[q].pt[v] = f
                            \/ \E v \in KStackPages : pcb[q].kstack[v] = f
  <2>1. /\ pcb[q].pt \in [Pages -> Pte] /\ pcb[q].kstack \in [KStackPages -> Frames]
    BY <1>2 DEF TableForms
  <2>2. Valid(pcb[q].kstack) = KStackPages
    BY <2>1, FrameFacts DEF Valid
  <2>3. Valid(pcb[q].pt) = {v \in Pages : pcb[q].pt[v] # Unmapped}
    BY <1>2 DEF TableForms
  <2> QED BY <2>2, <2>3 DEF FramesOf
<1>4. lost \in SUBSET Frames
  BY <1>2, <1>3 DEF TableForms, Pte
<1> HIDE DEF lost
<1>5. leaked' \subseteq Forgetters \X Frames /\ Forgotten' = Forgotten \cup lost
  BY <1>1, <1>2, <1>4, Forgets DEF MemTypeOK, Forgetters
<1>6. MemTypeOK'
  BY <1>1, <1>2, <1>5 DEF MemTypeOK
<1>7. Owned'
  BY <1>1, <1>2, <1>3, <1>5, <1>6, DeletionMoves
<1>8. (free_nframes = Cardinality(Free))' /\ (kernel_brk_page < KSTACK_START_PAGE)'
  BY <1>1 DEF MemInv, Free, Frames
<1>9. /\ c # q /\ c \in DOMAIN pcb' /\ pcb'[c] = pcb[c]
  BY <1>1 DEF MemInv, Numbered
<1>10. Identity' /\ BootStack' /\ Numbered'
  BY <1>1, <1>9 DEF MemInv, Identity, BootStack, Numbered
<1>11. KernelHeapIsMapped' /\ OwnKernelStack'
  BY <1>1, <1>9 DEF MemInv, KernelHeapIsMapped, OwnKernelStack, Running, Valid
<1>12. TidySpaces'
  BY <1>1 DEF MemInv, TidySpaces
<1> QED BY <1>6, <1>7, <1>8, <1>10, <1>11, <1>12 DEF MemInv

-----------------------------------------------------------------------------
(* SetKernelBrk.                                                           *)
KernelChange(D, g, released, lost, taken) ==
  /\ Remap(pt_region0, pt_region0', D, g, released, lost, taken)
  /\ pt_region0' \in [Pages -> Pte]
  /\ \A v \in D : v \in KernelPages /\ ~(v < OrigBrk)
  /\ taken \in SUBSET Frames /\ taken \cap (used \ released) = {}
  /\ Account(released, taken) /\ Forget("SetKernelBrk", lost)
  /\ kernel_brk_page' \in OrigBrk .. MAX_PT_LEN /\ kernel_brk_page' < KSTACK_START_PAGE
  /\ shrinks' \in 0 .. MaxShrinks
  /\ UNCHANGED <<pcb, current_process, phase, execs, slots>>

LEMMA KernelStep ==
  ASSUME MemInv, NEW D, NEW g, NEW released, NEW lost, NEW taken,
         KernelChange(D, g, released, lost, taken)
  PROVE  /\ MemTypeOK' /\ Owned' /\ (free_nframes = Cardinality(Free))'
         /\ (kernel_brk_page < KSTACK_START_PAGE)'
         /\ BootStack' /\ Numbered' /\ OwnKernelStack' /\ TidySpaces'
         /\ used' = (used \ released) \cup taken
<1> USE DEF KernelChange
<1>1. MemTypeOK /\ Owned /\ OnePlace /\ used \in SUBSET Frames
  BY OwnedPlaces DEF MemInv, MemTypeOK
<1>2. pt_region0 \in [Pages -> Pte]
  BY <1>1 DEF MemTypeOK
<1>3. released \in SUBSET Frames /\ lost \in SUBSET Frames
  BY <1>2, RemapFrames
<1>4. released \in SUBSET used
  <2>1. \A f \in released : f # Unmapped /\ \E v \in D : pt_region0[v] = f
    BY DEF Remap
  <2> QED BY <1>1, <2>1 DEF OnePlace
<1>5. /\ used' = (used \ released) \cup taken /\ used' \in SUBSET Frames
      /\ free_nframes' = Cardinality(Free') /\ free_nframes' \in 0 .. NFRAMES
  BY <1>1, <1>4, Counted DEF MemInv
<1>6. /\ leaked' \subseteq Forgetters \X Frames
      /\ Forgotten' = Forgotten \cup lost
  BY <1>1, <1>3, Forgets DEF MemTypeOK, Forgetters
<1>7. MemTypeOK'
  BY <1>1, <1>5, <1>6 DEF MemTypeOK
<1>8. Owned'
  BY <1>1, <1>5, <1>6, <1>7, KernelMoves
<1>9. \A v \in KStackPages : pt_region0'[v] = pt_region0[v]
  <2>1. \A v \in KStackPages : v \in Pages /\ v \notin D
    BY FrameFacts DEF KernelPages
  <2> QED BY <2>1 DEF Remap
<1>10. BootStack' /\ Numbered' /\ OwnKernelStack'
  BY <1>9 DEF MemInv, BootStack, Numbered, OwnKernelStack, Running
<1>11. TidySpaces'
  BY DEF MemInv, TidySpaces
<1> QED BY <1>5, <1>7, <1>8, <1>10, <1>11

LEMMA KernelGrowStep ==
  ASSUME MemInv, NEW target \in OrigBrk .. MAX_PT_LEN, target < KSTACK_START_PAGE,
         target >= kernel_brk_page, KernelGrow(target),
         UNCHANGED <<pcb, current_process, phase, execs, slots>>
  PROVE  MemInv'
<1> DEFINE wanted == kernel_brk_page .. target - 1
           new == allocFrame(Free, wanted)
           D == Valid(new)
<1>1. /\ kernel_brk_page \in Nat /\ OrigBrk \in Nat /\ MAX_PT_LEN \in Nat /\ target \in Nat
      /\ KSTACK_START_PAGE \in Nat /\ KSTACK_START_PAGE < MAX_PT_LEN /\ OrigBrk <= kernel_brk_page
      /\ kernel_brk_page < KSTACK_START_PAGE /\ OrigBrk <= target /\ MAX_PT_LEN < NFRAMES
      /\ FirstTextPage \in Nat /\ NFRAMES \in Nat /\ FirstTextPage < OrigBrk
  BY Constants DEF MemInv, MemTypeOK
<1>2. /\ wanted \in SUBSET Pages
      /\ \A v \in wanted : v \in KernelPages /\ ~(v < OrigBrk)
  BY <1>1 DEF Pages, KernelPages, KStackPages
<1>3. Supplies(new, wanted, Free) /\ Free \in SUBSET Frames
  <2>1. Free \in SUBSET Frames
    BY DEF Free
  <2> HIDE DEF wanted
  <2> QED BY <1>2, <2>1, Allocated
<1>4. /\ Account({}, FramesOf(new))
      /\ pt_region0' = MapPages(pt_region0, [v \in D |-> new[v]])
      /\ Forget("SetKernelBrk", FramesIn(pt_region0, D))
      /\ kernel_brk_page' = IF D = wanted THEN target ELSE kernel_brk_page
      /\ shrinks' = shrinks
  BY DEF KernelGrow, BreakAfter
<1>5. PICK pt0 \in [Pages -> Pte] : pt0 = pt_region0
  BY DEF MemInv, MemTypeOK
<1>n. new = allocFrame(Free, wanted)
  OBVIOUS
<1>d. D = Valid(new)
  OBVIOUS
<1>w. \A v : v \in wanted <=> v \in Int /\ kernel_brk_page <= v /\ v <= target - 1
  BY <1>1
<1> HIDE DEF new, D, wanted
<1>6. /\ D \in SUBSET wanted /\ \A v \in D : new[v] \in Frames /\ new[v] # Unmapped
      /\ FramesOf(new) \in SUBSET Frames /\ FramesOf(new) \cap (used \ {}) = {}
  BY <1>2, <1>3, TakenFree DEF D
<1>7. /\ pt_region0' \in [Pages -> Pte]
      /\ \A v \in D : pt_region0'[v] = new[v]
      /\ \A v \in Pages \ D : pt_region0'[v] = pt_region0[v]
  <2> DEFINE got == [v \in D |-> new[v]]
  <2>1. DOMAIN got = D /\ (\A v \in DOMAIN got : got[v] \in Pte) /\ \A v \in D : got[v] = new[v]
    BY <1>6 DEF Pte
  <2> HIDE DEF got
  <2>2. /\ MapPages(pt0, got) \in [Pages -> Pte]
        /\ \A v \in Pages : MapPages(pt0, got)[v] = IF v \in D THEN got[v] ELSE pt0[v]
    BY <2>1, TableOps
  <2>3. pt_region0' = MapPages(pt0, got)
    BY <1>4, <1>5 DEF got
  <2> QED BY <1>2, <1>5, <1>6, <2>1, <2>2, <2>3
<1>8. Remap(pt_region0, pt_region0', D, new, {}, FramesIn(pt_region0, D), FramesOf(new))
  <2>1. PICK pt2 : pt2 = pt_region0'
    OBVIOUS
  <2>2. Remap(pt0, pt2, D, new, {}, FramesIn(pt0, D), FramesOf(new))
    BY <1>2, <1>3, <1>5, <1>7, <1>d, <2>1, RemapGrow
  <2> QED BY <1>5, <2>1, <2>2
<1>9. KernelChange(D, new, {}, FramesIn(pt_region0, D), FramesOf(new))
  <2>1. kernel_brk_page' \in OrigBrk .. MAX_PT_LEN /\ kernel_brk_page' < KSTACK_START_PAGE
    BY <1>1, <1>4
  <2>2. shrinks' \in 0 .. MaxShrinks
    BY <1>4 DEF MemInv, MemTypeOK
  <2> QED BY <1>2, <1>4, <1>6, <1>7, <1>8, <2>1, <2>2 DEF KernelChange
<1>10. /\ MemTypeOK' /\ Owned' /\ (free_nframes = Cardinality(Free))'
       /\ (kernel_brk_page < KSTACK_START_PAGE)'
       /\ BootStack' /\ Numbered' /\ OwnKernelStack' /\ TidySpaces'
       /\ used' = (used \ {}) \cup FramesOf(new)
  BY <1>9, KernelStep
<1>11. KernelHeapIsMapped'
  <2>1. Valid(pt_region0) = {v \in Pages : pt_region0[v] # Unmapped}
        /\ Valid(pt_region0') = {v \in Pages : pt_region0'[v] # Unmapped}
    BY <1>5, <1>7 DEF Valid
  <2>2. ASSUME NEW v \in OrigBrk .. kernel_brk_page' - 1
        PROVE  v \in Valid(pt_region0') \cup ScratchPages
    <3>1. CASE v \in D
      BY <1>2, <1>6, <1>7, <2>1, <3>1
    <3>2. CASE v \notin D
      <4>1. v \in OrigBrk .. kernel_brk_page - 1
        BY <1>1, <1>4, <1>w, <3>2
      <4>2. v \in Valid(pt_region0) \cup ScratchPages
        BY <4>1 DEF MemInv, KernelHeapIsMapped
      <4> QED BY <1>7, <2>1, <3>2, <4>2
    <3> QED BY <3>1, <3>2
  <2> QED BY <2>2 DEF KernelHeapIsMapped, ScratchPages
<1>12. Identity'
  <2> SUFFICES ASSUME phase \in {"boot", "vm"} PROVE Identity'
    BY DEF Identity
  <2>1. /\ DOMAIN pcb = {} /\ used = 0 .. kernel_brk_page - 1
        /\ pt_region0 = [v \in Pages |->
                           IF v \in (FirstTextPage .. kernel_brk_page - 1) \cup KStackPages
                           THEN v ELSE Unmapped]
    BY DEF MemInv, Identity
  <2>2. Free = kernel_brk_page .. NFRAMES - 1
    BY <1>1, <2>1 DEF Free, Frames
  <2>3. \A v \in wanted : new[v] = v
    <3> SUFFICES ASSUME NEW v \in wanted PROVE new[v] = v
      OBVIOUS
    <3>1. target - 1 \in Nat /\ target - 1 < NFRAMES /\ v \in kernel_brk_page .. target - 1
      BY <1>1, <1>w
    <3>2. allocFrame(kernel_brk_page .. NFRAMES - 1, kernel_brk_page .. target - 1)[v] = v
      BY <1>1, <3>1, AllocInterval
    <3> QED BY <1>n, <2>2, <3>2 DEF wanted
  <2>4. D = wanted
    <3>1. \A v \in wanted : v # Unmapped /\ v \in DOMAIN new
      BY <1>2, <1>3, FrameFacts DEF Supplies
    <3>2. \A v \in wanted : v \in D
      BY <1>d, <2>3, <3>1 DEF Valid
    <3> QED BY <1>6, <3>2
  <2>5. kernel_brk_page' = target
    BY <1>4, <2>4
  <2>6. FramesOf(new) = wanted
    BY <1>d, <2>3, <2>4 DEF FramesOf
  <2>7. used' = 0 .. kernel_brk_page' - 1
    <3>1. \A v : v \in used' <=> v \in 0 .. kernel_brk_page - 1 \/ v \in wanted
      BY <1>10, <2>1, <2>6
    <3>2. \A v : v \in 0 .. target - 1 <=>
                  v \in 0 .. kernel_brk_page - 1 \/ v \in kernel_brk_page .. target - 1
      BY <1>1
    <3>3. used' = 0 .. target - 1
      BY <3>1, <3>2 DEF wanted
    <3> QED BY <2>5, <3>3
  <2>8. ASSUME NEW v \in Pages
        PROVE  pt_region0'[v] = IF v \in (FirstTextPage .. target - 1) \cup KStackPages
                                THEN v ELSE Unmapped
    <3>1. CASE v \in D
      <4>1. v \in FirstTextPage .. target - 1
        BY <1>1, <1>w, <2>4, <3>1
      <4> QED BY <1>7, <2>3, <2>4, <3>1, <4>1
    <3>2. CASE v \notin D
      <4>1. v \in FirstTextPage .. target - 1 <=> v \in FirstTextPage .. kernel_brk_page - 1
        BY <1>1, <1>w, <2>4, <3>2
      <4> QED BY <1>7, <2>1, <3>2, <4>1
    <3> QED BY <3>1, <3>2
  <2>9. pt_region0' = [v \in Pages |->
                         IF v \in (FirstTextPage .. kernel_brk_page' - 1) \cup KStackPages
                         THEN v ELSE Unmapped]
    BY <1>7, <2>5, <2>8
  <2> QED BY <2>1, <2>7, <2>9 DEF Identity
<1> QED BY <1>10, <1>11, <1>12 DEF MemInv


LEMMA KernelShrinkStep ==
  ASSUME MemInv, NEW target \in OrigBrk .. MAX_PT_LEN, target < kernel_brk_page,
         shrinks < MaxShrinks, KernelShrink(target),
         UNCHANGED <<pcb, current_process, phase, execs, slots>>
  PROVE  MemInv'
<1> DEFINE D == target .. kernel_brk_page - 1
<1>1. /\ kernel_brk_page \in Nat /\ OrigBrk \in Nat /\ MAX_PT_LEN \in Nat /\ target \in Nat
      /\ KSTACK_START_PAGE \in Nat /\ KSTACK_START_PAGE < MAX_PT_LEN
      /\ kernel_brk_page < KSTACK_START_PAGE /\ OrigBrk <= target
      /\ FirstTextPage \in Nat /\ FirstTextPage < OrigBrk
  BY Constants DEF MemInv, MemTypeOK
<1>2. /\ D \in SUBSET Pages
      /\ \A v \in D : v \in KernelPages /\ ~(v < OrigBrk)
  BY <1>1 DEF Pages, KernelPages, KStackPages
<1>3. /\ Account(FramesIn(pt_region0, D), {})
      /\ pt_region0' = UnmapPages(pt_region0, D)
      /\ kernel_brk_page' = target /\ shrinks' = shrinks + 1 /\ leaked' = leaked
  BY DEF KernelShrink
<1>4. PICK pt0 \in [Pages -> Pte] : pt0 = pt_region0
  BY DEF MemInv, MemTypeOK
<1>5. \A v : v \in D <=> v \in Int /\ target <= v /\ v <= kernel_brk_page - 1
  BY <1>1
<1> HIDE DEF D
<1>6. /\ pt_region0' \in [Pages -> Pte]
      /\ \A v \in D : pt_region0'[v] = Unmapped
      /\ \A v \in Pages \ D : pt_region0'[v] = pt_region0[v]
  <2>1. /\ UnmapPages(pt0, D) \in [Pages -> Pte]
        /\ \A v \in D : UnmapPages(pt0, D)[v] = Unmapped
        /\ \A v \in Pages \ D : UnmapPages(pt0, D)[v] = pt0[v]
    BY <1>2, TableOps
  <2> QED BY <1>3, <1>4, <2>1
<1>7. Remap(pt_region0, pt_region0', D, NoPages, FramesIn(pt_region0, D), {}, {})
  <2>1. PICK pt2 : pt2 = pt_region0'
    OBVIOUS
  <2>2. Remap(pt0, pt2, D, NoPages, FramesIn(pt0, D), {}, {})
    BY <1>2, <1>4, <1>6, <2>1, RemapUnmap
  <2> QED BY <1>4, <2>1, <2>2
<1>8. KernelChange(D, NoPages, FramesIn(pt_region0, D), {}, {})
  <2>1. kernel_brk_page' \in OrigBrk .. MAX_PT_LEN /\ kernel_brk_page' < KSTACK_START_PAGE
    BY <1>1, <1>3
  <2>2. shrinks' \in 0 .. MaxShrinks
    BY <1>3, Constants DEF MemInv, MemTypeOK
  <2>3. Forget("SetKernelBrk", {})
    BY <1>3 DEF Forget
  <2> QED BY <1>2, <1>3, <1>6, <1>7, <2>1, <2>2, <2>3 DEF KernelChange
<1>9. /\ MemTypeOK' /\ Owned' /\ (free_nframes = Cardinality(Free))'
      /\ (kernel_brk_page < KSTACK_START_PAGE)'
      /\ BootStack' /\ Numbered' /\ OwnKernelStack' /\ TidySpaces'
      /\ used' = (used \ FramesIn(pt_region0, D)) \cup {}
  BY <1>8, KernelStep
<1>10. KernelHeapIsMapped'
  <2>1. Valid(pt_region0) = {v \in Pages : pt_region0[v] # Unmapped}
        /\ Valid(pt_region0') = {v \in Pages : pt_region0'[v] # Unmapped}
    BY <1>4, <1>6 DEF Valid
  <2>2. ASSUME NEW v \in OrigBrk .. kernel_brk_page' - 1
        PROVE  v \in Valid(pt_region0') \cup ScratchPages
    <3>1. v \in OrigBrk .. kernel_brk_page - 1 /\ v \notin D
      BY <1>1, <1>3, <1>5
    <3>2. v \in Valid(pt_region0) \cup ScratchPages
      BY <3>1 DEF MemInv, KernelHeapIsMapped
    <3> QED BY <1>6, <2>1, <3>1, <3>2
  <2> QED BY <2>2 DEF KernelHeapIsMapped, ScratchPages
<1>11. Identity'
  <2> SUFFICES ASSUME phase \in {"boot", "vm"} PROVE Identity'
    BY DEF Identity
  <2>1. /\ DOMAIN pcb = {} /\ used = 0 .. kernel_brk_page - 1
        /\ pt_region0 = [v \in Pages |->
                           IF v \in (FirstTextPage .. kernel_brk_page - 1) \cup KStackPages
                           THEN v ELSE Unmapped]
    BY DEF MemInv, Identity
  <2>2. \A v \in D : v \in Pages /\ v \in FirstTextPage .. kernel_brk_page - 1
    BY <1>1, <1>2, <1>5
  <2>3. \A v \in D : pt_region0[v] = v /\ v # Unmapped
    BY <2>1, <2>2, FrameFacts
  <2>4. FramesIn(pt_region0, D) = D
    <3>1. \A f : f \in FramesIn(pt0, D) <=> f # Unmapped /\ \E v \in D : v \in Pages /\ pt0[v] = f
      BY TableOps
    <3>2. \A v \in D : v \in Pages /\ pt0[v] = v /\ v # Unmapped
      BY <1>4, <2>2, <2>3
    <3>3. \A f : f \in FramesIn(pt0, D) <=> f \in D
      BY <3>1, <3>2
    <3>4. FramesIn(pt0, D) = D
      BY <3>3
    <3> QED BY <1>4, <3>4
  <2>5. used' = 0 .. kernel_brk_page' - 1
    <3>1. \A v : v \in used' <=> v \in 0 .. kernel_brk_page - 1 /\ v \notin D
      BY <1>9, <2>1, <2>4
    <3>2. \A v : v \in 0 .. target - 1 <=>
                  v \in 0 .. kernel_brk_page - 1 /\ v \notin target .. kernel_brk_page - 1
      BY <1>1
    <3>3. used' = 0 .. target - 1
      BY <3>1, <3>2 DEF D
    <3> QED BY <1>3, <3>3
  <2>6. ASSUME NEW v \in Pages
        PROVE  pt_region0'[v] = IF v \in (FirstTextPage .. target - 1) \cup KStackPages
                                THEN v ELSE Unmapped
    <3>1. CASE v \in D
      <4>1. v \notin FirstTextPage .. target - 1 /\ v \notin KStackPages
        BY <1>1, <1>2, <1>5, <3>1 DEF KernelPages
      <4> QED BY <1>6, <3>1, <4>1
    <3>2. CASE v \notin D
      <4>1. v \in FirstTextPage .. target - 1 <=> v \in FirstTextPage .. kernel_brk_page - 1
        BY <1>1, <1>5, <3>2
      <4> QED BY <1>6, <2>1, <3>2, <4>1
    <3> QED BY <3>1, <3>2
  <2>7. pt_region0' = [v \in Pages |->
                         IF v \in (FirstTextPage .. kernel_brk_page' - 1) \cup KStackPages
                         THEN v ELSE Unmapped]
    BY <1>3, <1>6, <2>6
  <2> QED BY <2>1, <2>5, <2>7 DEF Identity
<1> QED BY <1>9, <1>10, <1>11 DEF MemInv

LEMMA SetKernelBrkStep ==
  ASSUME MemInv, NEW target \in OrigBrk .. MAX_PT_LEN, SetKernelBrk(target)
  PROVE  MemInv'
<1>1. target < KSTACK_START_PAGE /\ UNCHANGED <<pcb, current_process, phase, execs, slots>>
  BY DEF SetKernelBrk, BelowKernelStack
<1>2. CASE target >= kernel_brk_page /\ KernelGrow(target)
  BY <1>1, <1>2, KernelGrowStep
<1>3. CASE target < kernel_brk_page /\ shrinks < MaxShrinks /\ KernelShrink(target)
  BY <1>1, <1>3, KernelShrinkStep
<1> QED BY <1>2, <1>3 DEF SetKernelBrk

-----------------------------------------------------------------------------
(* The theorems.                                                           *)
LEMMA MemStep == MemInv /\ [MemNext]_memVars => MemInv'
<1> SUFFICES ASSUME MemInv, [MemNext]_memVars PROVE MemInv'
  OBVIOUS
<1>1. CASE EnableVM
  BY <1>1, EnableVMStep
<1>2. CASE CreateIdlePCB
  BY <1>2, CreateIdleStep
<1>3. CASE CreateInitFails
  BY <1>3, StopStep DEF CreateInitFails
<1>4. ASSUME NEW li \in Programs, CreateInit(li) \/ Exec(li) \/ ExecNoArgbuf(li) PROVE MemInv'
  BY <1>4, CreateInitStep, ExecStep, ExecNoArgbufStep
<1>5. CASE Fork
  BY <1>5, ForkStep
<1>6. ASSUME NEW target \in 0 .. MAX_PT_LEN + 1, Brk(target) PROVE MemInv'
  BY <1>6, BrkStep
<1>7. ASSUME NEW next \in DOMAIN pcb, Switch(next) \/ Exit(next) PROVE MemInv'
  BY <1>7, SwitchStep, ExitStep
<1>8. ASSUME NEW v \in Pages, NEW firstByte \in BOOLEAN, NEW next \in DOMAIN pcb,
             MemoryTrapHandler(v, firstByte, next)
      PROVE  MemInv'
  BY <1>8, MemoryTrapStep
<1>9. ASSUME NEW target \in OrigBrk .. MAX_PT_LEN, SetKernelBrk(target) PROVE MemInv'
  BY <1>9, SetKernelBrkStep
<1>10. ASSUME NEW q \in DOMAIN pcb, Wait(q) PROVE MemInv'
  BY <1>10, WaitStep
<1>11. CASE UNCHANGED memVars
  <2>1. UNCHANGED <<used, free_nframes, pt_region0, kernel_brk_page, pcb, current_process,
                    phase, execs, shrinks, slots, leaked>>
    BY <1>11 DEF memVars
  <2>2. MemTypeOK'
    BY <2>1 DEF MemInv, MemTypeOK
  <2>3. Owned'
    BY <2>1, <2>2, Unmoved DEF MemInv, Forgotten
  <2>4. (free_nframes = Cardinality(Free))' /\ (kernel_brk_page < KSTACK_START_PAGE)'
    BY <2>1 DEF MemInv, Free, Frames
  <2>5. Identity' /\ BootStack' /\ Numbered'
    BY <2>1 DEF MemInv, Identity, BootStack, Numbered
  <2>6. KernelHeapIsMapped' /\ OwnKernelStack' /\ TidySpaces'
    BY <2>1 DEF MemInv, KernelHeapIsMapped, OwnKernelStack, Running, Valid, TidySpaces
  <2> QED BY <2>2, <2>3, <2>4, <2>5, <2>6 DEF MemInv
<1> QED BY <1>1, <1>2, <1>3, <1>4, <1>5, <1>6, <1>7, <1>8, <1>9, <1>10, <1>11 DEF MemNext

LEMMA MemInductive == MemSpec => []MemInv
BY MemStart, MemStep, PTL DEF MemSpec


(* Every variable of the memory model keeps its type.                      *)
THEOREM MemoryIsTyped == MemSpec => []MemTypeOK
<1>1. MemInv => MemTypeOK
  BY DEF MemInv
<1> QED BY <1>1, MemInductive, PTL

(* No frame is ever at two places: no two processes, and no process and    *)
(* the kernel, share memory, the idle process on its fixed kernel-stack    *)
(* frames included.                                                        *)
THEOREM FramesNeverShared == MemSpec => []NoSharedFrame
<1>1. MemInv => NoSharedFrame
  BY DEF MemInv, Owned
<1> QED BY <1>1, MemInductive, PTL

(* Every frame in use is the image's, at a place or forgotten in one of    *)
(* the four recorded ways, among them the deletion of a process whose      *)
(* parent waited for it; no mapped frame is free, and the kernel's count   *)
(* of free frames is the size of the free list.                            *)
THEOREM EveryFrameAccounted == MemSpec => []FramesAccounted
<1>1. MemInv => FramesAccounted
  BY DEF MemInv, Owned, FramesAccounted, Image, Forgotten
<1> QED BY <1>1, MemInductive, PTL

(* The kernel's heap stays mapped up to its break, except for the pages    *)
(* CloneFrame borrows.                                                     *)
THEOREM KernelHeapStaysMapped == MemSpec => []KernelHeapIsMapped
<1>1. MemInv => KernelHeapIsMapped
  BY DEF MemInv
<1> QED BY <1>1, MemInductive, PTL

(* Until virtual memory is on, every page SetKernelBrk maps has the frame  *)
(* of its own number.                                                      *)
THEOREM BootMapsIdentity == MemSpec => []BootIsIdentityMapped
<1>1. MemInv => BootIsIdentityMapped
  <2> SUFFICES ASSUME MemInv, phase = "boot", NEW v \in Valid(pt_region0)
               PROVE  pt_region0[v] = v
    BY DEF BootIsIdentityMapped
  <2>1. pt_region0 = [w \in Pages |->
                        IF w \in (FirstTextPage .. kernel_brk_page - 1) \cup KStackPages
                        THEN w ELSE Unmapped]
    BY DEF MemInv, Identity
  <2>2. v \in Pages /\ pt_region0[v] # Unmapped
    BY <2>1 DEF Valid
  <2> QED BY <2>1, <2>2
<1> QED BY <1>1, MemInductive, PTL

(* While processes run, the kernel-stack pages map the stack of the        *)
(* current process.                                                        *)
THEOREM KernelStackIsCurrent == MemSpec => []OwnKernelStack
<1>1. MemInv => OwnKernelStack
  BY DEF MemInv
<1> QED BY <1>1, MemInductive, PTL

\* Mapping and unmapping pages leave every other page's entry as it was.
LEMMA OtherPagesStay ==
  ASSUME NEW pt, NEW new, NEW pages, NEW w \in Valid(pt)
  PROVE  /\ w \notin DOMAIN new => MapPages(pt, new)[w] = pt[w]
         /\ w \notin pages => UnmapPages(pt, pages)[w] = pt[w]
<1>1. w \in DOMAIN pt
  BY DEF Valid
<1> QED BY <1>1 DEF MapPages, UnmapPages

(* A step maps no frame over a page in use of a loaded process.            *)
LEMMA PagesKept ==
  ASSUME MemInv, MemNext, NEW p \in DOMAIN pcb, ~pcb[p].exited, pcb[p].load = "loaded",
         pcb[p].heap_start <= pcb[p].heap_end, execs' = execs
  PROVE  PageKeepsFrame(p)
<1>1. MemTypeOK /\ PcbFields /\ pcb[p].pt \in [Pages -> Pte]
  BY Fields DEF MemInv, PcbFields
<1>2. ASSUME pcb' = pcb \/ pcb'[p].pt = pcb[p].pt PROVE PageKeepsFrame(p)
  BY <1>2 DEF PageKeepsFrame
<1>s. ASSUME NEW how, Stop(how) PROVE PageKeepsFrame(p)
  BY <1>2, <1>s DEF Stop
<1>3. CASE EnableVM \/ CreateInitFails
  BY <1>2, <1>3 DEF EnableVM, CreateInitFails, Stop
<1>4. CASE CreateIdlePCB
  BY <1>4 DEF CreateIdlePCB, MemInv, Identity
<1>5. ASSUME NEW li \in Programs, CreateInit(li) PROVE PageKeepsFrame(p)
  <2>1. p = Idle
    BY <1>5 DEF CreateInit, MemInv, BootStack
  <2>2. CASE pcb'[Idle] = pcb[Idle]
    BY <1>2, <2>1, <2>2
  <2>3. CASE Stop("halted") \/ Stop("undefined")
    BY <1>s, <2>3
  <2>4. pcb'[Idle] = pcb[Idle] \/ Stop("halted") \/ Stop("undefined")
    BY <1>5 DEF CreateInit, Idle, InitProc
  <2> QED BY <2>2, <2>3, <2>4
<1>6. ASSUME NEW li \in Programs, Exec(li) PROVE PageKeepsFrame(p)
  <2>1. execs \in Nat
    BY <1>1, Constants DEF MemTypeOK
  <2>2. Stop("undefined")
    <3>1. Stop("undefined") \/ execs' = execs + 1
      BY <1>6 DEF Exec
    <3> QED BY <2>1, <3>1
  <2> QED BY <1>s, <2>2
<1>7. ASSUME NEW li \in Programs, ExecNoArgbuf(li) PROVE PageKeepsFrame(p)
  <2>1. pcb'[p].pt = pcb[p].pt
    BY <1>7 DEF ExecNoArgbuf
  <2> QED BY <1>2, <2>1
<1>8. CASE Fork
  <2>3. p # slots
    BY <1>1, Constants DEF MemInv, MemTypeOK, Numbered
  <2>4. Stop("halted") \/ pcb'[p] = pcb[p]
    BY <1>8, <2>3 DEF Fork
  <2> QED BY <1>2, <1>s, <2>4
<1>9. ASSUME NEW next \in DOMAIN pcb, Switch(next) \/ Exit(next) PROVE PageKeepsFrame(p)
  <2>1. CASE Switch(next)
    BY <1>2, <2>1 DEF Switch
  <2>2. CASE Exit(next)
    <3> PICK c \in DOMAIN pcb : c = current_process
      BY <2>2 DEF MemInv, Numbered, Exit, Running
    <3>1. \/ Stop("halted")
          \/ pcb' = [pcb EXCEPT ![c].pt = pcb[c].pt, ![c].exited = TRUE]
      BY <2>2 DEF Exit, ExitProcess
    <3>2. CASE pcb' = [pcb EXCEPT ![c].pt = pcb[c].pt, ![c].exited = TRUE]
      <4>1. pcb'[p].pt = pcb[p].pt
        BY <3>2
      <4> QED BY <1>2, <4>1
    <3> QED BY <1>s, <3>1, <3>2
  <2> QED BY <1>9, <2>1, <2>2
<1>10. ASSUME NEW target \in OrigBrk .. MAX_PT_LEN, SetKernelBrk(target) PROVE PageKeepsFrame(p)
  BY <1>2, <1>10 DEF SetKernelBrk
<1>11. ASSUME NEW target \in 0 .. MAX_PT_LEN + 1, Brk(target) PROVE PageKeepsFrame(p)
  <2> PICK c \in DOMAIN pcb : c = current_process
    BY <1>11 DEF MemInv, Numbered, Brk, Running
  <2>1. CASE p # c
    <3>1. Stop("undefined") \/ Stop("halted") \/ Stop("hung") \/ pcb'[p] = pcb[p]
      BY <1>11, <2>1 DEF Brk, BrkGrow, BrkShrink
    <3> QED BY <1>2, <1>s, <3>1
  <2>2. CASE p = c /\ BrkShrink(target)
    <3>1. Stop("undefined") \/ Stop("hung") \/ pcb' = [pcb EXCEPT ![c].heap_end = target]
      BY <2>2 DEF BrkShrink
    <3>2. CASE pcb' = [pcb EXCEPT ![c].heap_end = target]
      <4>1. pcb'[p].pt = pcb[p].pt
        BY <3>2
      <4> QED BY <1>2, <4>1
    <3> QED BY <1>s, <3>1, <3>2
  <2>3. CASE p = c /\ BrkGrow(target)
    <3> DEFINE wanted == (pcb[c].heap_end .. target - 1) \ Valid(pcb[c].pt)
               new == allocFrame(Free, wanted)
    <3>1. \/ Stop("undefined") \/ Stop("halted")
          \/ pcb' = [pcb EXCEPT ![c].pt = MapPages(@, new), ![c].heap_end = target]
      BY <2>3 DEF BrkGrow
    <3>2. CASE pcb' = [pcb EXCEPT ![c].pt = MapPages(@, new), ![c].heap_end = target]
      <4>1. pcb'[c].pt = MapPages(pcb[c].pt, new)
        <5> HIDE DEF new
        <5>1. pcb[c] \in Pcb
          BY <1>1 DEF MemTypeOK
        <5> QED BY <3>2, <5>1 DEF Pcb
      <4>2. DOMAIN new = wanted
        BY DEF allocFrame
      <4>3. \A v \in Valid(pcb[c].pt) : v \in DOMAIN pcb[c].pt /\ v \notin wanted
        BY DEF Valid
      <4>4. \A v \in Valid(pcb[c].pt) : MapPages(pcb[c].pt, new)[v] = pcb[c].pt[v]
        BY <4>2, <4>3 DEF MapPages
      <4> QED BY <2>3, <4>1, <4>4 DEF PageKeepsFrame
    <3> QED BY <1>s, <3>1, <3>2
  <2> QED BY <1>11, <2>1, <2>2, <2>3 DEF Brk
<1>12. ASSUME NEW v \in Pages, NEW firstByte \in BOOLEAN, NEW next \in DOMAIN pcb,
              MemoryTrapHandler(v, firstByte, next)
       PROVE  PageKeepsFrame(p)
  <2> PICK c \in DOMAIN pcb : c = current_process
    BY <1>12 DEF MemInv, Numbered, MemoryTrapHandler, Running
  <2> DEFINE pages == v .. pcb[c].stack_base - 1
             new == allocFrame(Free, pages)
  <2>1. \/ pcb' = [pcb EXCEPT ![c].pt = MapPages(@, new), ![c].stack_base = v]
        \/ Stop("halted")
        \/ pcb' = [pcb EXCEPT ![c].pt = UnmapPages(pcb[c].pt, Valid(new)), ![c].exited = TRUE]
    BY <1>12 DEF MemoryTrapHandler, growStack, ExitProcess
  <2>2. CASE p # c
    <3>1. pcb'[p] = pcb[p] \/ Stop("halted")
      BY <2>1, <2>2
    <3> QED BY <1>2, <1>s, <3>1
  <2>3. CASE p = c
    <3>0. pcb[c] \in Pcb
      BY <1>1 DEF MemTypeOK
    <3>1. /\ v \in Nat /\ pcb[c].heap_end \in Nat /\ pcb[c].stack_base \in Nat
          /\ pcb[c].heap_start \in Nat
      BY <1>1, Constants, FrameFacts DEF PcbFields
    <3>2. /\ pcb[c].heap_end <= v /\ pcb[c].pt[v] = Unmapped /\ ~pcb[c].exited
      BY <1>12, <3>1 DEF MemoryTrapHandler, InStackRange, MemInv, Numbered, Running
    <3>3. \A w \in Pages : w \in pages => pcb[c].pt[w] = Unmapped
      <4> SUFFICES ASSUME NEW w \in Pages, w \in pages PROVE pcb[c].pt[w] = Unmapped
        OBVIOUS
      <4>1. w \in Nat /\ v <= w /\ w < pcb[c].stack_base
        BY <3>1
      <4>2. CASE w = v
        BY <3>2, <4>2
      <4>3. CASE v < w
        <5>1. pcb[c].heap_start <= v
          BY <2>3, <3>1, <3>2
        <5> QED BY <2>3, <3>2, <4>1, <4>3, <5>1 DEF MemInv, TidySpaces, Tidy
      <4> QED BY <3>1, <4>1, <4>2, <4>3
    <3>4. DOMAIN new = pages
      BY DEF allocFrame
    <3> HIDE DEF pages, new
    <3>5. Valid(new) \subseteq pages
      BY <3>4 DEF Valid
    <3>6. \A w \in Valid(pcb[p].pt) : w \in DOMAIN pcb[p].pt /\ w \notin pages
      BY <1>1, <2>3, <3>3 DEF Valid
    <3>7. CASE pcb' = [pcb EXCEPT ![c].pt = MapPages(@, new), ![c].stack_base = v]
      <4>1. pcb'[p].pt = MapPages(pcb[p].pt, new)
        BY <2>3, <3>0, <3>7 DEF Pcb
      <4>2. \A w \in Valid(pcb[p].pt) : MapPages(pcb[p].pt, new)[w] = pcb[p].pt[w]
        BY <3>4, <3>6, OtherPagesStay
      <4> QED BY <4>1, <4>2 DEF PageKeepsFrame
    <3>8. CASE pcb' = [pcb EXCEPT ![c].pt = UnmapPages(pcb[c].pt, Valid(new)),
                                  ![c].exited = TRUE]
      <4>1. pcb'[p].pt = UnmapPages(pcb[p].pt, Valid(new))
        BY <2>3, <3>0, <3>8 DEF Pcb
      <4>2. \A w \in Valid(pcb[p].pt) : UnmapPages(pcb[p].pt, Valid(new))[w] = pcb[p].pt[w]
        BY <3>5, <3>6, OtherPagesStay
      <4> QED BY <4>1, <4>2 DEF PageKeepsFrame
    <3> QED BY <1>s, <2>1, <3>7, <3>8 DEF new, pages
  <2> QED BY <2>2, <2>3
<1>13. ASSUME NEW q \in DOMAIN pcb, Wait(q) PROVE PageKeepsFrame(p)
  <2>1. p # q /\ pcb' = [r \in DOMAIN pcb \ {q} |-> pcb[r]]
    BY <1>13 DEF Wait, deletePCB
  <2>2. pcb'[p] = pcb[p]
    BY <2>1
  <2> QED BY <1>2, <2>2
<1> QED BY <1>3, <1>4, <1>5, <1>6, <1>7, <1>8, <1>9, <1>10, <1>11, <1>12, <1>13 DEF MemNext

(* Until the next Exec a page of a loaded process keeps its frame: growing *)
(* heap and stack never maps over a page in use, unless the process moved  *)
(* its break below its heap.                                               *)
THEOREM LoadedPagesAreKept == MemSpec => LoadedPagesStay
<1> DEFINE Kept == \A p \in Live :
              pcb[p].load = "loaded" /\ pcb[p].heap_start <= pcb[p].heap_end /\ execs' = execs
                => PageKeepsFrame(p)
<1>1. MemInv /\ [MemNext]_memVars => [Kept]_memVars
  BY PagesKept DEF Live
<1> QED BY <1>1, MemInductive, PTL DEF MemSpec, LoadedPagesStay
=============================================================================
