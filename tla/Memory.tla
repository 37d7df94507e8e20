------------------------------- MODULE Memory -------------------------------
(***************************************************************************)
(* Physical frames and address spaces: the frame table (mem.c), the kernel *)
(* page table and the kernel break (kernel.c, init.c), and for each        *)
(* process its region-1 page table, its kernel stack and the two bounds    *)
(* the kernel keeps of it (heap end and stack base).  Everything is at     *)
(* the granularity of pages: the code aligns every bound to a page before  *)
(* it stores it.                                                           *)
(*                                                                         *)
(* A page-table entry is the frame it maps or Unmapped; the pfn that the   *)
(* code leaves behind in an invalid entry is never read again.  The usage  *)
(* of a frame is only ever compared with FRAME_FREE, so the frame table is *)
(* the set of frames in use.                                               *)
(***************************************************************************)
EXTENDS Integers, FiniteSets

CONSTANTS
  NFRAMES,            \* frames of physical memory (nframes)
  MAX_PT_LEN,         \* pages of each region
  KSTACK_START_PAGE,  \* first page of the kernel stack in region 0
  FirstTextPage,      \* _first_kernel_text_page
  OrigBrk,            \* _orig_kernel_brk_page
  Programs,           \* what LoadInfo says of the executables
  MAX_PROCS,          \* slots of proc_table, so PCBs ever created
  MaxExecs,           \* bound: calls of Exec that throw the old program away
  MaxShrinks          \* bound: times the kernel heap shrinks

Program == [text : Nat, t_npg : Nat, data : Nat, data_npg : Nat, stack_npg : Nat \ {0}]

ASSUME MemoryAssumption ==
  /\ {NFRAMES, MAX_PT_LEN, KSTACK_START_PAGE, FirstTextPage, OrigBrk, MAX_PROCS, MaxExecs,
      MaxShrinks} \subseteq Nat
  /\ FirstTextPage < OrigBrk /\ OrigBrk <= KSTACK_START_PAGE - 2
  /\ KSTACK_START_PAGE < MAX_PT_LEN /\ MAX_PT_LEN < NFRAMES
  /\ MAX_PROCS >= 2
  /\ Programs \subseteq Program
  /\ \A li \in Programs : li.text + li.t_npg <= li.data

VARIABLES
  used,             \* frame_table: the frames whose usage is not FRAME_FREE
  free_nframes,     \* the kernel's count of free frames
  pt_region0,       \* the kernel's page table
  kernel_brk_page,
  pcb,              \* the PCBs that exist; the idle process is 0, init is 1
  current_process,
  phase,            \* how far the boot is, or how the machine ended
  execs,            \* how often Exec replaced a program
  shrinks,          \* how often the kernel heap shrank
  slots,            \* slots of proc_table handed out: deletePCB clears none of them
  leaked            \* history: frames in use that a mapping forgot, with the function that did it

memVars == <<used, free_nframes, pt_region0, kernel_brk_page, pcb,
             current_process, phase, execs, shrinks, slots, leaked>>

Frames   == 0 .. NFRAMES - 1
Pages    == 0 .. MAX_PT_LEN - 1
Unmapped == -1
KStackPages == KSTACK_START_PAGE .. MAX_PT_LEN - 1
ScratchPages == {KSTACK_START_PAGE - 1, KSTACK_START_PAGE - 2}
INVALID_PID == -1
Idle == 0
InitProc == 1

Pte == Frames \cup {Unmapped}
\* load: the verdict of the last LoadProgram on this process, "none" before any.
Pcb == [ppid : {INVALID_PID} \cup 0 .. MAX_PROCS - 1, pt : [Pages -> Pte],
        kstack : [KStackPages -> Frames], heap_start : 0 .. MAX_PT_LEN, heap_end : 0 .. MAX_PT_LEN,
        stack_base : 0 .. MAX_PT_LEN, exited : BOOLEAN, load : {"none", "loaded", "kill"}]

Free == Frames \ used
Valid(pt) == {v \in DOMAIN pt : pt[v] # Unmapped}
FramesOf(pt) == {pt[v] : v \in Valid(pt)}
Live == {p \in DOMAIN pcb : ~pcb[p].exited}
Running == phase = "run"

(***************************************************************************)
(* The frame allocator.  allocFrame takes the lowest free frame, so a loop *)
(* that allocates for a set of pages in ascending order gives each page    *)
(* the free frame of the same rank, and none (-1) once they run out.       *)
(***************************************************************************)
Rank(S, x) == Cardinality({y \in S : y < x})
\* Mutant: the search starts at the last frame.
allocFrameFromTop(free, pages) ==
  [v \in pages |-> IF Rank(pages, v) < Cardinality(free)
                   THEN CHOOSE f \in free : Rank(free, f) = Cardinality(free) - 1 - Rank(pages, v)
                   ELSE Unmapped]
allocFrame(free, pages) ==
  [v \in pages |-> IF Rank(pages, v) < Cardinality(free)
                   THEN CHOOSE f \in free : Rank(free, f) = Rank(pages, v)
                   ELSE Unmapped]

\* A frame asked for by number is taken unless it is in use already.
allocSpecificFrame(free, frames) == frames \cap free

Account(released, taken) ==
  /\ used' = (used \ released) \cup taken
  /\ LET n == free_nframes + Cardinality(released) - Cardinality(taken)
     IN free_nframes' = IF n < 0 THEN 0 ELSE n

\* The pages of new are mapped over whatever the table held.
MapPages(pt, new) == [v \in DOMAIN pt |-> IF v \in DOMAIN new THEN new[v] ELSE pt[v]]
UnmapPages(pt, pages) == [v \in DOMAIN pt |-> IF v \in pages THEN Unmapped ELSE pt[v]]
FramesIn(pt, pages) == {pt[v] : v \in pages \cap Valid(pt)}
Forget(who, frames) == leaked' = leaked \cup ({who} \X frames)

\* CloneFrame borrows the two scratch pages and leaves them unmapped.
CloneFrame ==
  /\ pt_region0' = UnmapPages(pt_region0, ScratchPages)
  /\ Forget("CloneFrame", FramesIn(pt_region0, ScratchPages))

\* The idle process keeps the frames the kernel was booted on; every other process
\* gets frames of its own, into which KCCopy clones the stack of the running one.
InitializeKernelStackIdle == [v \in KStackPages |-> v]
InitializeKernelStackProcess(free) == allocFrame(free, KStackPages)
KCCopy == CloneFrame

(***************************************************************************)
(* Boot                                                                    *)
(***************************************************************************)
\* The state KernelStart is in after InitializeFreeFrameList and InitializeVM.
\* The kernel-stack frames are mapped and not yet taken.  The model starts after
\* the malloc of the frame table, in InitializeFreeFrameList, and takes it that the
\* memory came from the pages the kernel was loaded with: a SetKernelBrk in that call
\* would read the frame table through a null pointer.
MemInit ==
  /\ used = 0 .. OrigBrk - 1
  /\ free_nframes = NFRAMES - OrigBrk
  /\ pt_region0 = [v \in Pages |-> IF v \in (FirstTextPage .. OrigBrk - 1) \cup KStackPages
                                   THEN v ELSE Unmapped]
  /\ kernel_brk_page = OrigBrk
  /\ pcb = <<>>
  /\ current_process = Idle
  /\ phase = "boot"
  /\ execs = 0
  /\ shrinks = 0
  /\ slots = 0
  /\ leaked = {}

\* allocNewPCB: no page mapped, the bounds at the two ends of region 1.
NewPCB(ppid, pt, kstack) ==
  [ppid |-> ppid, pt |-> pt, kstack |-> kstack, heap_start |-> 0, heap_end |-> 0,
   stack_base |-> MAX_PT_LEN, exited |-> FALSE, load |-> "none"]
NoPages == [v \in Pages |-> Unmapped]

EnableVM == phase = "boot" /\ phase' = "vm"
            /\ UNCHANGED <<used, free_nframes, pt_region0, kernel_brk_page, pcb,
                           current_process, execs, shrinks, slots, leaked>>

\* CreateIdlePCB: one user stack page, then the kernel stack in the very frames
\* that InitializeVM mapped; what allocSpecificFrame answers is not looked at.
CreateIdlePCB ==
  /\ phase = "vm"
  /\ LET ustack == allocFrame(Free, {MAX_PT_LEN - 1})
     IN /\ Account({}, FramesOf(ustack)
                         \cup allocSpecificFrame(Free \ FramesOf(ustack), KStackPages))
        /\ pcb' = [p \in {Idle} |-> NewPCB(INVALID_PID, MapPages(NoPages, ustack),
                                           InitializeKernelStackIdle)]
  /\ phase' = "idle"
  /\ slots' = slots + 1
  /\ UNCHANGED <<pt_region0, kernel_brk_page, current_process, execs, shrinks, leaked>>

Stop(how) ==
  /\ phase' = how
  /\ UNCHANGED <<used, free_nframes, pt_region0, kernel_brk_page, pcb,
                 current_process, execs, shrinks, slots, leaked>>

(***************************************************************************)
(* LoadProgram                                                             *)
(***************************************************************************)
\* The last check before the old program is thrown away.
Fits(li) == li.stack_npg + li.data + li.data_npg < MAX_PT_LEN

ProgramPages(li) ==
  (li.text .. li.text + li.t_npg - 1) \cup (li.data .. li.data + li.data_npg - 1)
    \cup (MAX_PT_LEN - li.stack_npg .. MAX_PT_LEN - 1)

\* The new address space, in the frames that are free once the old one is gone.
LoadedPages(li, free) == allocFrame(free, ProgramPages(li))

\* The old region 1 is walked and each frame it maps is freed.
\* Mutant: the entries are invalidated and the frames kept.
DiscardedNothing(pt) == {}
Discarded(pt) == FramesOf(pt)

\* The bounds are set last.  The heap starts, and ends, at the first data page, not
\* after the last as the comment on the assignment has it.
LoadedPCB(p, li, new) ==
  [p EXCEPT !.pt = MapPages(NoPages, new), !.load = "loaded", !.heap_start = li.data,
            !.heap_end = li.data, !.stack_base = MAX_PT_LEN - li.stack_npg]

\* A read of the file fails after the new pages are mapped: KILL, and neither
\* bound has been set.
HalfLoadedPCB(p, new) ==
  [p EXCEPT !.pt = MapPages(NoPages, new), !.load = "kill"]

\* KernelStart halts when init cannot be loaded.
CreateInitFails == phase = "idle" /\ Stop("halted")

\* KernelStart creates init, loads it and copies the kernel stack into it.
CreateInit(li) ==
  /\ phase = "idle" /\ Fits(li)
  /\ LET kstack == InitializeKernelStackProcess(Free)
         new == LoadedPages(li, Free \ FramesOf(kstack))
     IN IF Valid(kstack) # KStackPages THEN Stop("halted")
        ELSE IF Valid(new) # ProgramPages(li) THEN Stop("undefined")
        ELSE /\ Account({}, FramesOf(kstack) \cup FramesOf(new))
             /\ pcb' = [p \in {Idle, InitProc} |->
                          IF p = Idle THEN pcb[Idle]
                          ELSE LoadedPCB(NewPCB(INVALID_PID, NoPages, kstack), li, new)]
             /\ KCCopy
             /\ phase' = "run"
             /\ slots' = slots + 1
             /\ UNCHANGED <<kernel_brk_page, current_process, execs, shrinks>>

(***************************************************************************)
(* Exec, by the current process.  Only ERROR is acted on: after a KILL the *)
(* process goes on, and Exec reports success.                              *)
(***************************************************************************)
Exec(li) ==
  /\ Running /\ current_process # Idle /\ Fits(li)
  /\ execs < MaxExecs
  /\ LET p == current_process
         old == Discarded(pcb[p].pt)
         new == LoadedPages(li, Free \cup old)
     IN IF Valid(new) # ProgramPages(li) THEN Stop("undefined")  \* a page maps frame -1
        ELSE /\ Account(old, FramesOf(new))
             /\ \/ pcb' = [pcb EXCEPT ![p] = LoadedPCB(@, li, new)]
                \/ pcb' = [pcb EXCEPT ![p] = HalfLoadedPCB(@, new)]
             /\ execs' = execs + 1
             /\ UNCHANGED <<pt_region0, kernel_brk_page, current_process, phase, shrinks,
                            slots, leaked>>

\* No memory for the arguments: KILL before the old program is thrown away.
ExecNoArgbuf(li) ==
  /\ Running /\ current_process # Idle /\ Fits(li)
  /\ pcb' = [pcb EXCEPT ![current_process].load = "kill"]
  /\ UNCHANGED <<used, free_nframes, pt_region0, kernel_brk_page, current_process,
                 phase, execs, shrinks, slots, leaked>>

(***************************************************************************)
(* Fork: CopyPT gives the child a frame for each page of the parent, then  *)
(* KCCopy gives it a kernel stack.  The trap handler halts the machine     *)
(* when Fork fails.  The bounds of the child stay those of a new PCB.      *)
(***************************************************************************)
CopyPT(src, free) == MapPages(NoPages, allocFrame(free, Valid(src)))

Fork ==
  /\ Running /\ current_process # Idle
  /\ LET src == pcb[current_process].pt
         dst == CopyPT(src, Free)
         kstack == InitializeKernelStackProcess(Free \ FramesOf(dst))
         child == slots
     IN IF child >= MAX_PROCS \/ Valid(dst) # Valid(src) \/ Valid(kstack) # KStackPages
        THEN Stop("halted")
        ELSE /\ Account({}, FramesOf(dst) \cup FramesOf(kstack))
             /\ pcb' = [p \in DOMAIN pcb \cup {child} |->
                          IF p = child THEN NewPCB(current_process, dst, kstack) ELSE pcb[p]]
             /\ KCCopy
             /\ slots' = slots + 1
             /\ UNCHANGED <<kernel_brk_page, current_process, phase, execs, shrinks>>

(***************************************************************************)
(* Brk, by the current process.  ERROR halts the machine.                  *)
(***************************************************************************)
\* Mutant: one entry past the table is still written.
PastTableOff(target) == target > MAX_PT_LEN + 1
PastTable(target) == target > MAX_PT_LEN

\* Growing skips the pages that are mapped already.
BrkGrow(target) ==
  LET p == current_process
      wanted == (pcb[p].heap_end .. target - 1) \ Valid(pcb[p].pt)
      new == allocFrame(Free, wanted)
  IN IF PastTable(target) THEN Stop("undefined")
     ELSE IF Valid(new) # wanted THEN Stop("halted")
     ELSE /\ Account({}, FramesOf(new))
          /\ pcb' = [pcb EXCEPT ![p].pt = MapPages(@, new), ![p].heap_end = target]
          /\ UNCHANGED <<pt_region0, kernel_brk_page, current_process, phase, execs,
                         shrinks, slots, leaked>>

\* Shrinking looks at the kernel's page table.  Where that maps none of the pages,
\* the break moves and nothing is freed; at the first one it maps, the loop counts
\* up instead of down and runs off the table or never ends.
BrkShrink(target) ==
  LET p == current_process
      end == pcb[p].heap_end
  IN IF end .. MAX_PT_LEN - 1 \subseteq Valid(pt_region0) THEN Stop("undefined")
     ELSE IF target + 1 .. end \cap Valid(pt_region0) # {} THEN Stop("hung")
     ELSE /\ pcb' = [pcb EXCEPT ![p].heap_end = target]
          /\ UNCHANGED <<used, free_nframes, pt_region0, kernel_brk_page,
                         current_process, phase, execs, shrinks, slots, leaked>>

Brk(target) ==
  /\ Running /\ current_process # Idle
  /\ \/ target >= pcb[current_process].heap_end /\ BrkGrow(target)
     \/ target < pcb[current_process].heap_end /\ BrkShrink(target)

(***************************************************************************)
(* Context switches, exits and memory faults                               *)
(***************************************************************************)
\* Mutant: the kernel stack of the old process stays mapped.
KCSwitchNoStack(next) == current_process' = next /\ UNCHANGED pt_region0
\* KCSwitch installs the kernel stack of the next process.
KCSwitch(next) ==
  /\ pt_region0' = MapPages(pt_region0, pcb[next].kstack)
  /\ current_process' = next

Switch(next) ==
  /\ Running /\ next \in Live
  /\ KCSwitch(next)
  /\ UNCHANGED <<used, free_nframes, kernel_brk_page, pcb, phase, execs, shrinks, slots,
                 leaked>>

\* A zombie keeps its tables, and the frames in them, until its parent waits for it.
\* When init exits the machine halts.
ExitProcess(p, pt, lost, next) ==
  IF p = InitProc THEN Stop("halted")
  ELSE /\ next \in Live \ {p}
       /\ pcb' = [pcb EXCEPT ![p].pt = pt, ![p].exited = TRUE]
       /\ Forget("growStack", lost)
       /\ KCSwitch(next)
       /\ UNCHANGED <<used, free_nframes, kernel_brk_page, phase, execs, shrinks, slots>>

\* Exit, and every trap that ends the process.
Exit(next) ==
  /\ Running /\ current_process # Idle
  /\ ExitProcess(current_process, pcb[current_process].pt, {}, next)

\* deletePCB frees the two tables of a process, its PCB, and none of the frames:
\* no table maps them any more.
deletePCB(q) ==
  /\ pcb' = [p \in DOMAIN pcb \ {q} |-> pcb[p]]
  /\ Forget("deletePCB", FramesOf(pcb[q].pt) \cup FramesOf(pcb[q].kstack))

\* Wait finds a zombie child, at once or when its exit has woken the parent.  Until
\* then it is a Switch to another process.
Wait(q) ==
  /\ Running /\ current_process # Idle
  /\ pcb[q].exited /\ pcb[q].ppid = current_process
  /\ deletePCB(q)
  /\ UNCHANGED <<used, free_nframes, pt_region0, kernel_brk_page, current_process,
                 phase, execs, shrinks, slots>>

\* Mutant: the heap's end is not looked at.
BelowStackOnly(p, v, firstByte) == v < pcb[p].stack_base
\* The growth test of MemoryTrapHandler; only the first byte of a page is not
\* above the heap's end.
InStackRange(p, v, firstByte) ==
  /\ v > pcb[p].heap_end \/ (v = pcb[p].heap_end /\ ~firstByte)
  /\ v < pcb[p].stack_base

\* growStack maps every page from the fault up to the stack base, or gives back
\* what it took, unmaps those pages and has the process killed.
growStack(v, next) ==
  LET p == current_process
      pages == v .. pcb[p].stack_base - 1
      new == allocFrame(Free, pages)
  IN IF Valid(new) = pages
     THEN /\ Account({}, FramesOf(new))
          /\ pcb' = [pcb EXCEPT ![p].pt = MapPages(@, new), ![p].stack_base = v]
          /\ Forget("growStack", FramesIn(pcb[p].pt, pages))
          /\ UNCHANGED <<pt_region0, kernel_brk_page, current_process, phase, execs, shrinks,
                         slots>>
     ELSE ExitProcess(p, UnmapPages(pcb[p].pt, Valid(new)),
                      FramesIn(pcb[p].pt, Valid(new)), next)

\* A fault that is not in the stack's range ends the process, as Exit does.
MemoryTrapHandler(v, firstByte, next) ==
  /\ Running /\ current_process # Idle
  /\ pcb[current_process].pt[v] = Unmapped
  /\ InStackRange(current_process, v, firstByte)
  /\ growStack(v, next)

(***************************************************************************)
(* SetKernelBrk, called when the kernel's own malloc needs or returns      *)
(* pages: at any time after InitializeVM.                                  *)
(***************************************************************************)
KernelUp == phase \in {"boot", "vm", "idle", "run"}
\* Mutant: the heap may touch the kernel stack.
TouchesKernelStack(target) == target <= KSTACK_START_PAGE
BelowKernelStack(target) == target < KSTACK_START_PAGE

\* Mutant: the break moves whether or not the pages were mapped.
BreakMoves(target, complete) == target
BreakAfter(target, complete) == IF complete THEN target ELSE kernel_brk_page

\* Without enough frames the pages mapped so far stay, and the break does not move.
KernelGrow(target) ==
  LET wanted == kernel_brk_page .. target - 1
      new == allocFrame(Free, wanted)
      got == [v \in Valid(new) |-> new[v]]
  IN /\ Account({}, FramesOf(new))
     /\ pt_region0' = MapPages(pt_region0, got)
     /\ Forget("SetKernelBrk", FramesIn(pt_region0, Valid(new)))
     /\ kernel_brk_page' = BreakAfter(target, Valid(new) = wanted)
     /\ UNCHANGED shrinks

KernelShrink(target) ==
  LET pages == target .. kernel_brk_page - 1
  IN /\ Account(FramesIn(pt_region0, pages), {})
     /\ pt_region0' = UnmapPages(pt_region0, pages)
     /\ kernel_brk_page' = target
     /\ shrinks' = shrinks + 1
     /\ UNCHANGED leaked

SetKernelBrk(target) ==
  /\ KernelUp /\ BelowKernelStack(target)
  /\ \/ target >= kernel_brk_page /\ KernelGrow(target)
     \/ target < kernel_brk_page /\ shrinks < MaxShrinks /\ KernelShrink(target)
  /\ UNCHANGED <<pcb, current_process, phase, execs, slots>>

(***************************************************************************)
(* The specification                                                       *)
(***************************************************************************)
MemNext ==
  \/ EnableVM
  \/ CreateIdlePCB
  \/ CreateInitFails
  \/ \E li \in Programs : CreateInit(li) \/ Exec(li) \/ ExecNoArgbuf(li)
  \/ Fork
  \/ \E target \in 0 .. MAX_PT_LEN + 1 : Brk(target)
  \/ \E next \in DOMAIN pcb : Switch(next) \/ Exit(next)
  \/ \E q \in DOMAIN pcb : Wait(q)
  \/ \E v \in Pages, firstByte \in BOOLEAN, next \in DOMAIN pcb :
       MemoryTrapHandler(v, firstByte, next)
  \/ \E target \in OrigBrk .. MAX_PT_LEN : SetKernelBrk(target)

MemSpec == MemInit /\ [][MemNext]_memVars

(***************************************************************************)
(* Properties                                                              *)
(***************************************************************************)
\* The functions that may leave a frame in use and in no table.
Forgetters == {"CloneFrame", "growStack", "SetKernelBrk", "deletePCB"}

\* Every variable has its type: each page-table entry is a frame or unmapped, and
\* the bounds of a process are pages of region 1 (the structures of mem.h, proc.h).
MemTypeOK ==
  /\ used \subseteq Frames
  /\ free_nframes \in 0 .. NFRAMES
  /\ pt_region0 \in [Pages -> Pte]
  /\ kernel_brk_page \in OrigBrk .. MAX_PT_LEN
  /\ DOMAIN pcb \subseteq 0 .. MAX_PROCS - 1
  /\ \A p \in DOMAIN pcb : pcb[p] \in Pcb
  /\ current_process \in 0 .. MAX_PROCS - 1
  /\ phase \in {"boot", "vm", "idle", "run", "halted", "hung", "undefined"}
  /\ execs \in 0 .. MaxExecs
  /\ shrinks \in 0 .. MaxShrinks
  /\ slots \in 0 .. MAX_PROCS
  /\ leaked \subseteq Forgetters \X Frames

\* The places that hold a frame: the kernel's pages outside its stack, the pages of
\* each process, and the kernel stack of each process.
Places ==
  [kind : {"kernel"}, p : {Idle}, v : Valid(pt_region0) \ KStackPages]
    \cup (UNION {[kind : {"user"}, p : {p}, v : Valid(pcb[p].pt)] : p \in DOMAIN pcb})
    \cup [kind : {"kstack"}, p : DOMAIN pcb, v : KStackPages]
FrameAt(x) == CASE x.kind = "kernel" -> pt_region0[x.v]
                [] x.kind = "user"   -> pcb[x.p].pt[x.v]
                [] x.kind = "kstack" -> pcb[x.p].kstack[x.v]
MappedFrames == {FrameAt(x) : x \in Places}

\* No frame is in two places: no process shares memory with another, with the
\* kernel or with a kernel stack.  The idle process is the hard case: its kernel
\* stack lies in fixed frames that any allocation before CreateIdlePCB could take,
\* and only the bound of SetKernelBrk keeps the kernel heap one frame short of that.
NoSharedFrame == \A x, y \in Places : FrameAt(x) = FrameAt(y) => x = y

\* A frame in use belongs to the kernel image, is mapped, or was forgotten in one of
\* the four ways the history records: mapped over by CloneFrame (a heap page), by
\* SetKernelBrk or by growStack, or left to a process that deletePCB freed, although
\* the comments there say that its frames were freed (see ReapedFramesAreFree).  No
\* mapped frame is free.  Exec gives back all of the old program and a failed
\* growStack all it took.  The kernel's count of free frames agrees with the table,
\* so none was freed twice or taken uncounted.
FramesAccounted ==
  /\ free_nframes = Cardinality(Free)
  /\ phase \in {"idle", "run"} =>
       used = (0 .. OrigBrk - 1) \cup MappedFrames \cup {x[2] : x \in leaked}

\* The kernel's heap is mapped up to the break, whatever failed, grew or shrank
\* before, except for a page that CloneFrame borrows.
KernelHeapIsMapped ==
  OrigBrk .. kernel_brk_page - 1 \subseteq Valid(pt_region0) \cup ScratchPages

\* Until REG_VM_ENABLE is written the kernel uses physical addresses, so what its
\* malloc handed out must be the same memory afterwards: every page maps its own
\* number, although SetKernelBrk takes whatever frame comes first.
BootIsIdentityMapped ==
  phase = "boot" => \A v \in Valid(pt_region0) : pt_region0[v] = v

\* The kernel runs on the stack of the current process, in a frame of its own.
OwnKernelStack ==
  Running => \A v \in KStackPages : pt_region0[v] = pcb[current_process].kstack[v]

PageKeepsFrame(p) ==
  \A v \in Valid(pcb[p].pt) : pcb'[p].pt[v] = pcb[p].pt[v]

\* A page of a process that LoadProgram loaded keeps its frame, and with it its
\* contents, until the next Exec: growing the stack or the heap never maps over a
\* page that is in use.  Brk has no lower bound; once a process has moved its break
\* below its heap, its data pages lie in the range the stack may grow into.
LoadedPagesStay ==
  [][\A p \in Live :
       pcb[p].load = "loaded" /\ pcb[p].heap_start <= pcb[p].heap_end /\ execs' = execs
         => PageKeepsFrame(p)]_memVars
=============================================================================
