------------------------------ MODULE Processes ------------------------------
(***************************************************************************)
(* Processes and their scheduling in the kernel: the PCBs and process      *)
(* queues of src/src/proc.c, the system calls of src/src/syscalls/         *)
(* process.c, the clock and fault traps of src/src/traps/trap.c and the    *)
(* context switch of src/src/kernel.c.                                     *)
(*                                                                         *)
(* A handler runs with interrupts off, so it is one action up to the       *)
(* KernelContextSwitch that ends it.  The rest of the handler, which runs  *)
(* when somebody switches back to the process, is an action of its own,    *)
(* selected by the label saved in the PCB's kernel context.  The loop of   *)
(* the clock trap over the blocked queue takes one step per process.       *)
(*                                                                         *)
(* A PCB is identified with its pid: helper_new_pid never hands out a pid  *)
(* twice (pids are never retired) and a slot of proc_table, once filled,   *)
(* is never cleared, so pid p lives in slot p until the machine stops.     *)
(* Reusing the memory of a freed PCB is undefined behaviour, see Undefined.*)
(***************************************************************************)
EXTENDS Queues, Integers

CONSTANTS
  MaxProcs,        \* MAX_PROCS, the number of slots of proc_table
  Ticks,           \* the arguments user programs pass to Delay
  Statuses,        \* the arguments user programs pass to Exit
  FramesMayRunOut  \* whether Fork may find too few free frames

ASSUME MaxProcsAssumption == MaxProcs \in Nat /\ MaxProcs >= 2
ASSUME ArgumentsAssumption == Ticks \subseteq Int /\ Statuses \subseteq Int
ASSUME FramesAssumption == FramesMayRunOut \in BOOLEAN

PCB == 0 .. MaxProcs - 1

NULL == -1
INVALID_PID == -1
ERROR == -1
SUCCESS == 0
idle_proc == 0
init_proc == 1

ProcState == {"PROC_FREE", "PROC_READY", "PROC_RUNNING", "PROC_BLOCKED",
              "PROC_ZOMBIE", "PROC_ORPHAN"}

(* Where a process continues when it is switched to: the statement after   *)
(* the KernelContextSwitch that saved (or copied) its kernel context.      *)
ResumePoint == {"boot", "clock", "fork", "wait", "delay", "exit", "killed",
                "ttyread", "ttylock", "ttywrite"}

VARIABLES
  machine,          \* "on", "halted", or "undefined" after a wild access
  kpc,              \* "user": user mode, interrupts enabled; otherwise
                    \* where the kernel is in the handler it executes
  current_process,
  ready_queue,
  blocked_queue,
  zombie_queue,
  proc_table,       \* the number of slots filled, always the first ones
  pcb,              \* the process control blocks
  freed,            \* the PCBs that deletePCB gave back to free()
  iter,             \* the nodes queueIterate has still to visit
  reply,            \* what the last step returned to user mode
  faults            \* history: the wrong wake-ups and wild reads so far

procVars == <<machine, kpc, current_process, ready_queue, blocked_queue,
              zombie_queue, proc_table, pcb, freed, iter, reply, faults>>

-----------------------------------------------------------------------------
(* The PCB allocNewPCB returns.                                            *)
allocNewPCB ==
  [state     |-> "PROC_FREE",
   ppid      |-> INVALID_PID,
   parent    |-> NULL,
   children  |-> << >>,         \* children_processes
   waiting   |-> INVALID_PID,   \* waiting_for_child_pid
   delay     |-> 0,             \* delay_ticks
   exit      |-> 0,             \* exit_status
   kctx      |-> "boot"]        \* kernel_context

(* What a system call returns: regs[0] and, for Wait, *status_ptr.         *)
NoReply == [pid |-> NULL, call |-> "none", val |-> 0, status |-> 0]

Reply(call, val, status) ==
  [pid |-> current_process, call |-> call, val |-> val, status |-> status]

(* KernelStart hands over to user mode with the idle process running and   *)
(* init, whose kernel context is a copy taken at the end of KernelStart,   *)
(* in the ready queue.                                                     *)
Init ==
  /\ machine = "on"
  /\ kpc = "user"
  /\ current_process = idle_proc
  /\ ready_queue = <<init_proc>>
  /\ blocked_queue = << >>
  /\ zombie_queue = << >>
  /\ proc_table = 2
  /\ pcb = [p \in PCB |-> IF p < 2
                          THEN [allocNewPCB EXCEPT !.state = "PROC_RUNNING"]
                          ELSE allocNewPCB]
  /\ freed = {}
  /\ iter = << >>
  /\ reply = NoReply
  /\ faults = {}

-----------------------------------------------------------------------------
(* Building blocks of the handlers.                                        *)

InUser == machine = "on" /\ kpc = "user"

(* The current process executes a trap instruction or faults.  Idle only   *)
(* executes Pause.                                                         *)
UserTrap == InUser /\ current_process # idle_proc

Resumes(label) ==
  /\ machine = "on"
  /\ kpc = "resume"
  /\ pcb[current_process].kctx = label

Halt ==
  /\ machine' = "halted"
  /\ reply' = NoReply
  /\ UNCHANGED <<kpc, current_process, ready_queue, blocked_queue,
                 zombie_queue, proc_table, pcb, freed, iter, faults>>

(* The kernel dereferences a PCB whose memory was freed: it may corrupt    *)
(* the kernel heap, jump through a garbage kernel context or trap in       *)
(* kernel mode.  Nothing is modelled beyond that point.                    *)
Undefined ==
  /\ machine' = "undefined"
  /\ faults' = faults \union {"use_after_free"}
  /\ reply' = NoReply
  /\ UNCHANGED <<kpc, current_process, ready_queue, blocked_queue,
                 zombie_queue, proc_table, pcb, freed, iter>>

(* Mutation: the process switched to is not marked.                        *)
KCSwitchUnmarked(label, next, table) ==
  /\ current_process' = next
  /\ pcb' = [table EXCEPT ![current_process].kctx = label]
  /\ kpc' = "resume"
  /\ machine' = IF next \in freed THEN "undefined" ELSE machine
  /\ reply' = NoReply

(* Save the running context under label and continue next; table holds     *)
(* the PCBs as the handler has left them.                                  *)
KCSwitch(label, next, table) ==
  /\ current_process' = next
  /\ pcb' = [table EXCEPT ![current_process].kctx = label,
                          ![next].state = "PROC_RUNNING"]
  /\ kpc' = "resume"
  /\ machine' = IF next \in freed THEN "undefined" ELSE machine
  /\ reply' = NoReply

(* Leave the CPU to the front of the ready queue, or to idle.              *)
SwitchToNext(label, ready, table) ==
  /\ ready_queue' = IF is_empty(ready) THEN ready ELSE queueDequeue(ready)
  /\ KCSwitch(label,
              IF is_empty(ready) THEN idle_proc ELSE queueFront(ready),
              table)

(* Return to user mode with regs[0] = val.                                 *)
Return(call, val) ==
  /\ kpc' = "user"
  /\ reply' = Reply(call, val, 0)

-----------------------------------------------------------------------------
(* Fork.                                                                   *)

(* Mutation: one slot too many.                                            *)
OneSlotTooMany == proc_table <= MaxProcs

(* getFreePCB finds a NULL slot.                                           *)
getFreePCB == proc_table < MaxProcs

(* A slot, a PCB and enough frames are found: the child is made ready, and *)
(* its kernel context is a copy of the parent's, inside Fork.              *)
Fork ==
  /\ UserTrap
  /\ getFreePCB
  /\ LET child == proc_table IN
       /\ proc_table' = proc_table + 1
       /\ pcb' = [pcb EXCEPT
                    ![child] = [allocNewPCB EXCEPT !.ppid = current_process,
                                                   !.state = "PROC_READY",
                                                   !.kctx = "fork"],
                    ![current_process].children =
                       queueEnqueue(pcb[current_process].children, child)]
       /\ ready_queue' = queueEnqueue(ready_queue, child)
       /\ Return("Fork", child)
  /\ UNCHANGED <<machine, current_process, blocked_queue, zombie_queue,
                 freed, iter, faults>>

(* getFreePCB finds no NULL slot: Fork fails and the trap handler halts.   *)
ForkTableFull ==
  /\ UserTrap
  /\ ~getFreePCB
  /\ Halt

(* CopyPT, or the allocation of the kernel stack in KCCopy, runs out of    *)
(* frames: the machine is halted, too.                                     *)
ForkNoFrames ==
  /\ UserTrap
  /\ FramesMayRunOut
  /\ getFreePCB
  /\ Halt

(* The child's first run: it takes the parent pointer from the stack frame *)
(* copied from its parent, whose PCB may have been freed by now.           *)
ForkChild ==
  /\ Resumes("fork")
  /\ pcb' = [pcb EXCEPT ![current_process].parent =
                             pcb[current_process].ppid]
  /\ Return("Fork", 0)
  /\ faults' = IF pcb[current_process].ppid \in freed
               THEN faults \union {"use_after_free"} ELSE faults
  /\ UNCHANGED <<machine, current_process, ready_queue, blocked_queue,
                 zombie_queue, proc_table, freed, iter>>

ForkChildUndefined ==
  /\ Resumes("fork")
  /\ pcb[current_process].ppid \in freed
  /\ Undefined

-----------------------------------------------------------------------------
(* deletePCB: the children of p lose their parent pointer and are marked   *)
(* orphans, whatever state they are in.  The slot of p in proc_table and   *)
(* the frames of p are kept.                                               *)
deletePCB(table, p) ==
  [q \in PCB |-> IF q \in ToSet(table[p].children)
                 THEN [table[q] EXCEPT !.parent = NULL,
                                       !.state = "PROC_ORPHAN"]
                 ELSE table[q]]

(* Exit.                                                                   *)

(* Exit(status) of the init process stops the machine.                     *)
ExitInit ==
  /\ machine' = "halted"
  /\ pcb' = deletePCB(pcb, current_process)
  /\ freed' = freed \union {current_process}
  /\ reply' = NoReply
  /\ UNCHANGED <<kpc, current_process, ready_queue, blocked_queue,
                 zombie_queue, proc_table, iter, faults>>

(* The exiting process as Exit leaves it.                                  *)
Exited(status) ==
  [pcb EXCEPT ![current_process].exit = status,
              ![current_process].state = "PROC_ZOMBIE"]

(* The parent has a waiting_for_child_pid that is not zero: it is put in   *)
(* the ready queue.  The flag starts as INVALID_PID, which is not zero, so *)
(* the parent may be anywhere; only the value 1 is set by Wait.            *)
ExitWake(status, label) ==
  LET parent == pcb[current_process].parent IN
  /\ parent # NULL /\ parent \notin freed
  /\ pcb[parent].waiting # 0
  /\ SwitchToNext(label, queueEnqueue(ready_queue, parent),
                  [Exited(status) EXCEPT ![parent].state = "PROC_READY",
                                         ![parent].waiting = 0])
  /\ faults' = IF pcb[parent].waiting = 1 THEN faults
               ELSE faults \union {"spurious_wake"}

(* No parent, or one whose flag is zero.  A freed parent's flag may read   *)
(* as zero.                                                                *)
ExitQuietly(status, label) ==
  LET parent == pcb[current_process].parent IN
  /\ parent \in {NULL} \union freed \union {p \in PCB : pcb[p].waiting = 0}
  /\ SwitchToNext(label, ready_queue, Exited(status))
  /\ faults' = IF parent \in freed THEN faults \union {"use_after_free"}
               ELSE faults

(* Mutation: the process is not put in the zombie queue.                   *)
ExitUnqueued(status, label) ==
  /\ current_process # init_proc
  /\ ExitWake(status, label) \/ ExitQuietly(status, label)
  /\ UNCHANGED <<zombie_queue, blocked_queue, proc_table, freed, iter>>

Exit(status, label) ==
  \/ current_process = init_proc /\ ExitInit
  \/ /\ current_process # init_proc
     /\ zombie_queue' = queueEnqueue(zombie_queue, current_process)
     /\ ExitWake(status, label) \/ ExitQuietly(status, label)
     /\ UNCHANGED <<blocked_queue, proc_table, freed, iter>>
  \/ /\ current_process # init_proc
     /\ pcb[current_process].parent \in freed
     /\ Undefined

(* The Exit system call; Exit returning would go back to user mode.        *)
ExitSyscall == UserTrap /\ \E status \in Statuses : Exit(status, "exit")

(* A fatal memory fault: also returns to user mode if Exit returns.        *)
MemoryTrapHandler == UserTrap /\ Exit(ERROR, "exit")

(* growStack maps the pages the process touched: it goes on.               *)
StackGrows ==
  /\ UserTrap
  /\ reply' = NoReply
  /\ UNCHANGED <<machine, kpc, current_process, ready_queue, blocked_queue,
                 zombie_queue, proc_table, pcb, freed, iter, faults>>

(* MathTrapHandler and IllegalInstructionTrapHandler: Halt follows Exit.   *)
FatalTrapHandler == UserTrap /\ Exit(ERROR, "killed")

ExitReturns ==
  /\ Resumes("exit")
  /\ Return("Exit", pcb[current_process].exit)
  /\ UNCHANGED <<machine, current_process, ready_queue, blocked_queue,
                 zombie_queue, proc_table, pcb, freed, iter, faults>>

FatalTrapReturns == Resumes("killed") /\ Halt

-----------------------------------------------------------------------------
(* Wait.                                                                   *)

(* Mutation: any zombie will do.                                           *)
AnyZombie(p) == IF is_empty(zombie_queue) THEN NULL ELSE Head(zombie_queue)

(* The zombie the scan of zombie_queue stops at: the first one whose ppid  *)
(* is p; NULL when there is none.  A freed PCB met on the way is skipped   *)
(* here; WaitUndefined is what else it can lead to.                        *)
ZombieOf(p) ==
  LET i == SelectInSeq(zombie_queue,
                       LAMBDA z : z \notin freed /\ pcb[z].ppid = p)
  IN  IF i = 0 THEN NULL ELSE zombie_queue[i]

ScanMeetsFreed(p) ==
  \E i \in DOMAIN zombie_queue :
    /\ zombie_queue[i] \in freed
    /\ \A j \in 1 .. i - 1 : \/ zombie_queue[j] \in freed
                             \/ pcb[zombie_queue[j]].ppid # p

Reap(zombie) ==
  /\ zombie_queue' = queueRemove(zombie_queue, zombie)
  /\ pcb' = deletePCB([pcb EXCEPT ![current_process].children =
                                       queueRemove(@, zombie)], zombie)
  /\ freed' = freed \union {zombie}
  /\ kpc' = "user"
  /\ reply' = Reply("Wait", zombie, pcb[zombie].exit)
  /\ UNCHANGED <<machine, current_process, ready_queue, blocked_queue,
                 proc_table, iter, faults>>

WaitFails ==
  /\ Return("Wait", ERROR)
  /\ UNCHANGED <<machine, current_process, ready_queue, blocked_queue,
                 zombie_queue, proc_table, pcb, freed, iter, faults>>

(* A child is a zombie already.                                            *)
WaitReaps ==
  /\ UserTrap
  /\ ~is_empty(pcb[current_process].children)
  /\ ZombieOf(current_process) # NULL
  /\ Reap(ZombieOf(current_process))

(* Mutation: sleep without a look at the zombies.                          *)
WaitBlocksUnchecked ==
  /\ UserTrap
  /\ ~is_empty(pcb[current_process].children)
  /\ SwitchToNext("wait", ready_queue,
                  [pcb EXCEPT ![current_process].state = "PROC_BLOCKED",
                              ![current_process].waiting = 1])
  /\ UNCHANGED <<blocked_queue, zombie_queue, proc_table, freed, iter, faults>>

(* No child is a zombie: sleep until one exits.                            *)
WaitBlocks ==
  /\ UserTrap
  /\ ~is_empty(pcb[current_process].children)
  /\ ZombieOf(current_process) = NULL
  /\ SwitchToNext("wait", ready_queue,
                  [pcb EXCEPT ![current_process].state = "PROC_BLOCKED",
                              ![current_process].waiting = 1])
  /\ UNCHANGED <<blocked_queue, zombie_queue, proc_table, freed, iter, faults>>

WaitNoChildren ==
  /\ UserTrap
  /\ is_empty(pcb[current_process].children)
  /\ WaitFails

(* The second scan, after somebody put the caller back in ready_queue.     *)
WaitResumes ==
  /\ Resumes("wait")
  /\ IF ZombieOf(current_process) = NULL
     THEN WaitFails
     ELSE Reap(ZombieOf(current_process))

WaitUndefined ==
  /\ \/ UserTrap /\ ~is_empty(pcb[current_process].children)
     \/ Resumes("wait")
  /\ ScanMeetsFreed(current_process)
  /\ Undefined

-----------------------------------------------------------------------------
(* Delay and GetPid.                                                       *)

DelayBlocks(clock_ticks) ==
  /\ UserTrap
  /\ clock_ticks # 0 /\ clock_ticks >= -1
  /\ blocked_queue' = queueEnqueue(blocked_queue, current_process)
  /\ SwitchToNext("delay", ready_queue,
                  [pcb EXCEPT ![current_process].delay = clock_ticks,
                              ![current_process].state = "PROC_BLOCKED"])
  /\ UNCHANGED <<zombie_queue, proc_table, freed, iter, faults>>

(* Delay(0) returns at once.                                               *)
DelayZero(clock_ticks) ==
  /\ UserTrap
  /\ clock_ticks = 0
  /\ Return("Delay", SUCCESS)
  /\ UNCHANGED <<machine, current_process, ready_queue, blocked_queue,
                 zombie_queue, proc_table, pcb, freed, iter, faults>>

(* Delay returns ERROR, and the trap handler halts the machine.            *)
DelayHalts(clock_ticks) ==
  /\ UserTrap
  /\ clock_ticks < -1
  /\ Halt

DelayResumes ==
  /\ Resumes("delay")
  /\ Return("Delay", SUCCESS)
  /\ UNCHANGED <<machine, current_process, ready_queue, blocked_queue,
                 zombie_queue, proc_table, pcb, freed, iter, faults>>

GetPid ==
  /\ UserTrap
  /\ Return("GetPid", current_process)
  /\ UNCHANGED <<machine, current_process, ready_queue, blocked_queue,
                 zombie_queue, proc_table, pcb, freed, iter, faults>>

-----------------------------------------------------------------------------
(* The clock trap.                                                         *)

(* ClockTrapHandler enters queueIterate(blocked_queue, trapHandlerHelper). *)
ClockTrapHandler ==
  /\ InUser
  /\ kpc' = "iterate"
  /\ iter' = blocked_queue
  /\ reply' = NoReply
  /\ UNCHANGED <<machine, current_process, ready_queue, blocked_queue,
                 zombie_queue, proc_table, pcb, freed, faults>>

Iterates == machine = "on" /\ kpc = "iterate" /\ ~is_empty(iter)

(* Nothing to count down for this process.                                 *)
TickIdle(p) ==
  /\ p \in freed \union {q \in PCB : pcb[q].delay <= 0}
  /\ faults' = IF p \in freed THEN faults \union {"use_after_free"} ELSE faults
  /\ UNCHANGED <<blocked_queue, ready_queue, pcb>>

(* Mutation: the countdown stands still.                                   *)
TickCountsNothing(p) ==
  /\ p \notin freed /\ pcb[p].delay > 1
  /\ UNCHANGED <<pcb, blocked_queue, ready_queue, faults>>

TickCounts(p) ==
  /\ p \notin freed /\ pcb[p].delay > 1
  /\ pcb' = [pcb EXCEPT ![p].delay = @ - 1]
  /\ UNCHANGED <<blocked_queue, ready_queue, faults>>

(* Mutation: the process is unlinked and queued nowhere.                   *)
TickDrops(p) ==
  /\ p \notin freed /\ pcb[p].delay = 1
  /\ pcb' = [pcb EXCEPT ![p].delay = 0, ![p].state = "PROC_READY"]
  /\ blocked_queue' = queueRemove(blocked_queue, p)
  /\ UNCHANGED <<ready_queue, faults>>

(* The countdown ends: back to the ready queue.                            *)
TickWakes(p) ==
  /\ p \notin freed /\ pcb[p].delay = 1
  /\ pcb' = [pcb EXCEPT ![p].delay = 0, ![p].state = "PROC_READY"]
  /\ blocked_queue' = queueRemove(blocked_queue, p)
  /\ ready_queue' = queueEnqueue(ready_queue, p)
  /\ UNCHANGED faults

(* Mutation: the iteration goes on from the node that was just unlinked.   *)
TickFollowsUnlinked ==
  /\ Iterates
  /\ LET p == Head(iter) IN TickIdle(p) \/ TickCounts(p) \/ TickWakes(p)
  /\ iter' = IF blocked_queue' = blocked_queue THEN Tail(iter) ELSE iter
  /\ UNCHANGED <<machine, kpc, current_process, zombie_queue, proc_table,
                 freed, reply>>

(* One call of the callback.  queueIterate saved the next node before it.  *)
trapHandlerHelper ==
  /\ Iterates
  /\ LET p == Head(iter) IN TickIdle(p) \/ TickCounts(p) \/ TickWakes(p)
  /\ iter' = Tail(iter)
  /\ UNCHANGED <<machine, kpc, current_process, zombie_queue, proc_table,
                 freed, reply>>

TickUndefined == Iterates /\ Head(iter) \in freed /\ Undefined

(* Mutation: idle is put in the ready queue, too.                          *)
RequeuesIdle == pcb[current_process].state = "PROC_RUNNING"

(* The running process goes to the end of the ready queue, except idle.    *)
Requeues ==
  /\ pcb[current_process].state = "PROC_RUNNING"
  /\ current_process # idle_proc

(* Mutation: the process that became ready last runs first.                *)
ClockSwitchesLast ==
  /\ machine = "on" /\ kpc = "iterate" /\ is_empty(iter)
  /\ ~is_empty(ready_queue)
  /\ ready_queue' = IF Requeues
                    THEN queueEnqueue(Front(ready_queue), current_process)
                    ELSE Front(ready_queue)
  /\ KCSwitch("clock", Last(ready_queue),
              IF Requeues
              THEN [pcb EXCEPT ![current_process].state = "PROC_READY"]
              ELSE pcb)
  /\ UNCHANGED <<blocked_queue, zombie_queue, proc_table, freed, iter, faults>>

(* After the iteration: switch if anybody is ready.                        *)
ClockSwitches ==
  /\ machine = "on" /\ kpc = "iterate" /\ is_empty(iter)
  /\ ~is_empty(ready_queue)
  /\ ready_queue' = IF Requeues
                    THEN queueEnqueue(queueDequeue(ready_queue),
                                      current_process)
                    ELSE queueDequeue(ready_queue)
  /\ KCSwitch("clock", queueFront(ready_queue),
              IF Requeues
              THEN [pcb EXCEPT ![current_process].state = "PROC_READY"]
              ELSE pcb)
  /\ UNCHANGED <<blocked_queue, zombie_queue, proc_table, freed, iter, faults>>

ClockReturns ==
  /\ machine = "on" /\ kpc = "iterate" /\ is_empty(iter)
  /\ is_empty(ready_queue)
  /\ kpc' = "user"
  /\ UNCHANGED <<machine, current_process, ready_queue, blocked_queue,
                 zombie_queue, proc_table, pcb, freed, iter, reply, faults>>

(* The ends of ClockTrapHandler and, for init's first run, of KernelStart. *)
ClockResumes ==
  /\ Resumes("clock") \/ Resumes("boot")
  /\ kpc' = "user"
  /\ UNCHANGED <<machine, current_process, ready_queue, blocked_queue,
                 zombie_queue, proc_table, pcb, freed, iter, reply, faults>>

-----------------------------------------------------------------------------
Syscall ==
  \/ Fork \/ ForkTableFull \/ ForkNoFrames
  \/ ExitSyscall
  \/ WaitReaps \/ WaitBlocks \/ WaitNoChildren
  \/ \E n \in Ticks : DelayBlocks(n) \/ DelayZero(n) \/ DelayHalts(n)
  \/ GetPid

Fault == MemoryTrapHandler \/ StackGrows \/ FatalTrapHandler

(* What the kernel does with interrupts off.                               *)
KernelStep ==
  \/ trapHandlerHelper \/ TickUndefined \/ ClockSwitches \/ ClockReturns
  \/ ClockResumes \/ DelayResumes
  \/ ForkChild \/ ForkChildUndefined
  \/ WaitResumes
  \/ ExitReturns \/ FatalTrapReturns

ProcNext ==
  \/ Syscall \/ Fault \/ ClockTrapHandler \/ KernelStep \/ WaitUndefined

Stopped == machine # "on" /\ UNCHANGED procVars

Next == ProcNext \/ Stopped

(* The kernel runs on with interrupts off, and the timer keeps raising     *)
(* interrupts, one of which is taken whenever they are enabled again.      *)
Fairness == WF_procVars(KernelStep) /\ SF_procVars(ClockTrapHandler)

Spec == Init /\ [][Next]_procVars

FairSpec == Spec /\ Fairness

-----------------------------------------------------------------------------
(* Properties.                                                             *)

PCBType ==
  [state : ProcState, ppid : PCB \union {INVALID_PID},
   parent : PCB \union {NULL}, children : Seq(PCB),
   waiting : {INVALID_PID, 0, 1}, delay : Int, exit : Int,
   kctx : ResumePoint]

(* The types of the kernel's variables and PCB fields.                     *)
TypeOK ==
  /\ machine \in {"on", "halted", "undefined"}
  /\ kpc \in {"user", "iterate", "resume", "receive"}
  /\ current_process \in PCB
  /\ ready_queue \in Seq(PCB)
  /\ blocked_queue \in Seq(PCB)
  /\ zombie_queue \in Seq(PCB)
  /\ proc_table \in 2 .. MaxProcs
  /\ pcb \in [PCB -> PCBType]
  /\ freed \subseteq PCB
  /\ iter \in Seq(PCB)
  /\ faults \subseteq {"spurious_wake", "use_after_free", "half_woken"}

(* No wrong wake-up and no wild access has happened so far.                *)
Sane == machine # "undefined" /\ faults = {}

(* The processes that have been forked and not been reaped.                *)
Live == {p \in PCB : p < proc_table} \ freed

(* p sleeps in Wait.  Such a process is in no queue.                       *)
SleepsInWait(p) == pcb[p].waiting = 1

(* The child c will call its parent's attention when it exits.             *)
WillNotify(c) == pcb[c].parent = pcb[c].ppid \/ pcb[c].kctx = "fork"

(* No process is ever in two places: until the first wrong wake-up, no     *)
(* queue holds a PCB twice, the running process, the three queues and the  *)
(* sleepers in Wait are disjoint, and no freed PCB and not idle is queued. *)
NoProcessTwice ==
  Sane =>
    LET ready == ToSet(ready_queue)
        blocked == ToSet(blocked_queue)
        zombies == ToSet(zombie_queue)
    IN  /\ NoDuplicates(ready_queue)
        /\ NoDuplicates(blocked_queue)
        /\ NoDuplicates(zombie_queue)
        /\ ready \union blocked \union zombies \subseteq Live \ {idle_proc}
        /\ current_process \notin ready \union blocked \union zombies
        /\ ready \intersect blocked = {}
        /\ ready \intersect zombies = {}
        /\ blocked \intersect zombies = {}
        /\ \A p \in PCB : SleepsInWait(p) =>
             p \in Live \ ({current_process} \union ready \union blocked
                            \union zombies)

(* No process is ever lost: until the first wrong wake-up every process    *)
(* that was forked and not reaped is running, in a queue or asleep in Wait.*)
NoProcessLost ==
  Sane =>
    \A p \in Live \ {idle_proc} :
      \/ p = current_process
      \/ p \in ToSet(ready_queue) \union ToSet(blocked_queue)
                \union ToSet(zombie_queue)
      \/ SleepsInWait(p)

(* The running process is marked PROC_RUNNING; if it were not, the clock   *)
(* trap would not put it back in the ready queue.                          *)
CurrentIsRunning ==
  Sane /\ machine = "on" => pcb[current_process].state = "PROC_RUNNING"

(* No lost wake-up: nobody sleeps in Wait while it has a zombie child, and *)
(* every sleeper has a child that is still to exit and will notify it.     *)
NoLostWakeup ==
  Sane =>
    \A p \in PCB : SleepsInWait(p) =>
      /\ ZombieOf(p) = NULL
      /\ \E c \in Live : /\ pcb[c].ppid = p
                         /\ c \notin ToSet(zombie_queue)
                         /\ WillNotify(c)

(* A parent woken from Wait finds the zombie it was woken for, so a Wait   *)
(* that had to block never returns ERROR.                                  *)
WokenWaiterReaps ==
  Sane =>
    \A p \in PCB :
      /\ pcb[p].kctx = "wait"
      /\ p \in ToSet(ready_queue) \/ (p = current_process /\ kpc = "resume")
      => ZombieOf(p) # NULL

(* The nodes queueIterate has still to visit are the end of the blocked    *)
(* queue, so the next node it saved was not freed by the callback.         *)
SavedNodesAreLinked == kpc = "iterate" => IsTailOf(iter, blocked_queue)

(* Everybody in the ready queue gets the CPU.                              *)
ReadyRuns ==
  \A p \in PCB : p \in ToSet(ready_queue) ~>
                  (current_process = p \/ machine # "on")

(* Everybody in a Delay of a positive number of ticks comes back.          *)
DelayEnds ==
  \A p \in PCB : (Sane /\ p \in ToSet(blocked_queue) /\ pcb[p].delay > 0) ~>
                  (p \in ToSet(ready_queue) \/ ~Sane \/ machine # "on")
=============================================================================
