---------------------------- MODULE Wakeup_proofs ----------------------------
(***************************************************************************)
(* No wake-up is lost: proofs of NoLostWakeup and WokenWaiterReaps for any *)
(* number of processes.                                                    *)
(*                                                                         *)
(* Both need to know more than where the processes are: that the children  *)
(* queue of a process holds exactly the children it has still to reap      *)
(* (Kin), that a child which runs points to its parent as long as the      *)
(* parent exists (Linked), and which kernel context waits in which place   *)
(* (Contexts).                                                             *)
(***************************************************************************)
EXTENDS Placement_proofs, ProcessRefinement

Children(p) == ToSet(pcb[p].children)

(* p will continue in the kernel as soon as it gets the CPU.               *)
Resumable(p) == p \in Ready \/ (p = current_process /\ kpc = "resume")

(* The children queue of p holds each child that p has not reaped, once;   *)
(* idle has none, and the slots not yet filled are untouched.              *)
Kin ==
  /\ Children(idle_proc) = {}
  /\ \A p \in PCB : NoDuplicates(pcb[p].children)
  /\ \A p, c \in PCB : c \in Children(p) => c \notin freed
  /\ \A c \in Live, p \in PCB \ freed : pcb[c].ppid = p => c \in Children(p)
  /\ \A c \in PCB : c >= proc_table => pcb[c] = allocNewPCB

(* The parent pointer is ppid or NULL, and it is ppid while the parent     *)
(* exists, from the child's first run on.                                  *)
Linked ==
  /\ \A c \in PCB : pcb[c].parent \in {NULL, pcb[c].ppid}
  /\ \A c \in Live : pcb[c].ppid \in PCB \ freed =>
                       pcb[c].parent = pcb[c].ppid \/ NotStarted(c)

(* The kernel contexts in each place.                                      *)
Contexts ==
  /\ \A p \in PCB : Resumable(p) =>
       pcb[p].kctx \in {"boot", "clock", "fork", "wait", "delay"}
  /\ \A p \in Blocked : pcb[p].kctx = "delay"
  /\ \A p \in Asleep : pcb[p].kctx = "wait"
  /\ pcb[idle_proc].kctx \in {"boot", "clock"}

(* A sleeper has children, none of them a zombie.                          *)
Sleepers ==
  \A p \in Asleep : /\ \E c \in PCB : c \in Children(p)
                    /\ \A z \in Zombies : pcb[z].ppid # p

(* A process woken from Wait has a zombie.                                 *)
Woken ==
  \A p \in PCB : Resumable(p) /\ pcb[p].kctx = "wait" =>
    \E z \in Zombies : pcb[z].ppid = p

Wakeup == Kin /\ Linked /\ Contexts /\ Sleepers /\ Woken

(* The inductive invariant.                                                *)
WakeupInv == PlacementInv /\ (Sane => Wakeup)

-----------------------------------------------------------------------------
(* The invariant says what the checked properties say.                     *)
LEMMA ZombieOfIs ==
  ASSUME TypeOK, Placement, NEW p \in PCB
  PROVE  ZombieOf(p) = NULL <=> \A z \in Zombies : pcb[z].ppid # p
<1>1. zombie_queue \in Seq(PCB) /\ NULL \notin PCB
  BY ConstantFacts DEF TypeOK
<1>2. \A z \in Zombies : z \notin freed
  BY DEF Placement, Placed, Live
<1> QED BY <1>1, <1>2, ZombieOfFacts DEF Zombies

LEMMA WakeupImplies == WakeupInv => NoLostWakeup /\ WokenWaiterReaps
<1> SUFFICES ASSUME WakeupInv, Sane PROVE NoLostWakeup /\ WokenWaiterReaps
  BY DEF NoLostWakeup, WokenWaiterReaps
<1>1. TypeOK /\ Placement /\ Wakeup
  BY DEF WakeupInv, PlacementInv
<1>2. NoLostWakeup
  <2> SUFFICES ASSUME NEW p \in PCB, SleepsInWait(p)
               PROVE  /\ ZombieOf(p) = NULL
                      /\ \E c \in Live : /\ pcb[c].ppid = p
                                         /\ c \notin ToSet(zombie_queue)
                                         /\ WillNotify(c)
    BY DEF NoLostWakeup
  <2>1. p \in Asleep
    BY DEF Asleep
  <2>2. PICK c \in PCB : c \in Children(p)
    BY <1>1, <2>1 DEF Wakeup, Sleepers
  <2>3. c \in Live /\ pcb[c].ppid = p
    BY <1>1, <2>2 DEF Wakeup, Kin, Placement, Family, Live, Children
  <2>4. c \notin Zombies /\ ZombieOf(p) = NULL
    BY <1>1, <2>1, <2>3, ZombieOfIs DEF Wakeup, Sleepers
  <2>5. p \notin freed
    BY <1>1, <2>1 DEF Placement, Placed, Live
  <2>6. WillNotify(c)
    BY <1>1, <2>3, <2>5 DEF Wakeup, Linked, NotStarted, WillNotify
  <2> QED BY <2>3, <2>4, <2>6 DEF Zombies
<1>3. WokenWaiterReaps
  BY <1>1, ZombieOfIs DEF WokenWaiterReaps, Wakeup, Woken, Resumable, Ready
<1> QED BY <1>2, <1>3

(* Initially init is ready and nobody has children.                        *)
LEMMA WakeupInit == Init => Wakeup
<1> SUFFICES ASSUME Init PROVE Wakeup
  OBVIOUS
<1>1. \A p \in PCB : /\ pcb[p].children = << >> /\ pcb[p].ppid = -1
                     /\ pcb[p].parent = -1 /\ pcb[p].waiting = -1
                     /\ pcb[p].kctx = "boot"
                     /\ p >= 2 => pcb[p] = allocNewPCB
  BY ConstantFacts DEF Init, allocNewPCB, INVALID_PID, NULL
<1>2. Asleep = {} /\ Blocked = {} /\ \A p \in PCB : Children(p) = {}
  BY <1>1 DEF Asleep, SleepsInWait, Blocked, Children, ToSet, Init
<1>3. Kin
  <2>1. proc_table = 2 /\ -1 \notin PCB /\ Live \subseteq PCB
    BY ConstantFacts DEF Init, NULL, Live
  <2>2. \A p \in PCB : NoDuplicates(pcb[p].children)
    BY <1>1 DEF NoDuplicates
  <2> QED BY <1>1, <1>2, <2>1, <2>2, ConstantFacts DEF Kin
<1>4. Linked
  <2>1. -1 \notin PCB /\ Live \subseteq PCB
    BY ConstantFacts DEF NULL, Live
  <2> QED BY <1>1, <2>1 DEF Linked, NULL
<1>5. Contexts
  BY <1>1, <1>2, ConstantFacts DEF Contexts
<1>6. Sleepers /\ Woken
  BY <1>1, <1>2 DEF Sleepers, Woken
<1> QED BY <1>3, <1>4, <1>5, <1>6 DEF Wakeup

-----------------------------------------------------------------------------
(* What the handlers that give up the CPU have in common: ready is what    *)
(* the handler leaves ready, and label where it will go on.                *)
Leaves(ready, label) ==
  /\ kpc' = "resume"
  /\ UNCHANGED <<proc_table, freed>>
  /\ \/ ready = {} /\ Ready' = {} /\ current_process' = idle_proc
     \/ current_process' \in ready /\ Ready' = ready \ {current_process'}
  /\ \A p \in PCB :
       /\ pcb'[p].ppid = pcb[p].ppid
       /\ pcb'[p].parent = pcb[p].parent
       /\ pcb'[p].children = pcb[p].children
       /\ pcb'[p].kctx = IF p = current_process THEN label ELSE pcb[p].kctx
       /\ p # current_process => pcb'[p].exit = pcb[p].exit
  /\ \A p \in PCB : p >= proc_table => pcb'[p] = pcb[p]

(* The fields of a PCB that the life of processes depends on.              *)
SameKin(t1, t2) ==
  \A p \in PCB : /\ t1[p].ppid = t2[p].ppid
                 /\ t1[p].parent = t2[p].parent
                 /\ t1[p].children = t2[p].children
                 /\ t1[p].kctx = t2[p].kctx

(* The context switch at the end of a handler that has left table behind.  *)
LEMMA SwitchLeaves ==
  ASSUME Before, Placement', Sane', NEW label, NEW ready \in Seq(PCB),
         NoDuplicates(ready), NEW table \in [PCB -> PCBType],
         SwitchToNext(label, ready, table), SameKin(table, pcb),
         \A p \in PCB : p # current_process => table[p].exit = pcb[p].exit,
         \A p \in PCB : p >= proc_table => table[p] = pcb[p],
         UNCHANGED <<proc_table, freed>>
  PROVE  /\ Leaves(ToSet(ready), label)
         /\ \A p \in PCB : /\ pcb'[p].waiting = table[p].waiting
                           /\ pcb'[p].exit = table[p].exit
         /\ reply' = NoReply
<1>1. /\ pcb \in [PCB -> PCBType] /\ current_process \in PCB
      /\ current_process \in Live /\ proc_table \in Nat
  BY DEF Before, TypeOK, Placement, Running
<1>2. /\ \/ ToSet(ready) = {} /\ Ready' = {} /\ current_process' = idle_proc
         \/ /\ current_process' \in ToSet(ready)
            /\ Ready' = ToSet(ready) \ {current_process'}
      /\ machine' \in {machine, "undefined"}
  BY SwitchPlaces DEF Before
<1> DEFINE next == current_process'
<1>3. /\ pcb' = [table EXCEPT ![current_process].kctx = label,
                              ![next].state = "PROC_RUNNING"]
      /\ kpc' = "resume"
  BY DEF SwitchToNext, KCSwitch
<1>4. next \in PCB /\ next \in Live'
  <2>1. machine' = "on"
    BY <1>2 DEF Before, Sane
  <2> QED BY <2>1 DEF Placement, Running, Live
<1> HIDE DEF next
<1>5. ASSUME NEW p \in PCB
      PROVE  /\ pcb'[p].ppid = table[p].ppid
             /\ pcb'[p].parent = table[p].parent
             /\ pcb'[p].children = table[p].children
             /\ pcb'[p].waiting = table[p].waiting
             /\ pcb'[p].exit = table[p].exit
  BY <1>1, <1>3, <1>4, SMTT(30) DEF PCBType
<1>6. ASSUME NEW p \in PCB
      PROVE  /\ pcb'[p].kctx = IF p = current_process THEN label
                               ELSE table[p].kctx
             /\ p \notin {current_process, next} => pcb'[p] = table[p]
  BY <1>1, <1>3, <1>4, SMT DEF PCBType
<1>7. ASSUME NEW p \in PCB, p >= proc_table PROVE pcb'[p] = pcb[p]
  <2>1. p \notin {current_process, next}
    BY <1>1, <1>4, <1>7, ConstantFacts DEF Live
  <2> QED BY <1>6, <1>7, <2>1
<1>8. ASSUME NEW p \in PCB
      PROVE  /\ pcb'[p].ppid = pcb[p].ppid
             /\ pcb'[p].parent = pcb[p].parent
             /\ pcb'[p].children = pcb[p].children
             /\ pcb'[p].kctx = IF p = current_process THEN label ELSE pcb[p].kctx
             /\ p # current_process => pcb'[p].exit = pcb[p].exit
  BY <1>5, <1>6 DEF SameKin
<1>9. reply' = NoReply
  BY DEF SwitchToNext, KCSwitch
<1> QED BY <1>2, <1>3, <1>5, <1>7, <1>8, <1>9 DEF Leaves

(* Wait without a zombie.                                                  *)
LEMMA WaitBlocksLeaves ==
  ASSUME Before, Placement', Sane', WaitBlocks
  PROVE  /\ Leaves(Ready, "wait")
         /\ Asleep' = Asleep \union {current_process}
         /\ UNCHANGED <<Blocked, Zombies>> /\ reply' = NoReply
         /\ \A p \in PCB : pcb'[p].exit = pcb[p].exit
<1> DEFINE t1 == [pcb EXCEPT ![current_process].state = "PROC_BLOCKED"]
           table == [pcb EXCEPT ![current_process].state = "PROC_BLOCKED",
                                ![current_process].waiting = 1]
<1>1. /\ pcb \in [PCB -> PCBType] /\ current_process \in PCB
      /\ current_process < proc_table /\ proc_table \in Nat
      /\ ready_queue \in Seq(PCB) /\ NoDuplicates(ready_queue)
  BY DEF Before, TypeOK, Placement, Ordered, Running, Live
<1>2. table \in [PCB -> PCBType]
  <2>1. t1 \in [PCB -> PCBType]
    BY <1>1, FieldTypes DEF ProcState
  <2>2. [t1 EXCEPT ![current_process].waiting = 1] \in [PCB -> PCBType]
    BY <1>1, <2>1, FieldTypes
  <2> QED BY <2>2
<1>3. ASSUME NEW p \in PCB
      PROVE  /\ table[p].ppid = pcb[p].ppid
             /\ table[p].parent = pcb[p].parent
             /\ table[p].children = pcb[p].children
             /\ table[p].kctx = pcb[p].kctx
             /\ table[p].exit = pcb[p].exit
             /\ table[p].waiting = IF p = current_process THEN 1 ELSE pcb[p].waiting
             /\ p # current_process => table[p] = pcb[p]
  BY <1>1, SMT DEF PCBType
<1>4. /\ SwitchToNext("wait", ready_queue, table)
      /\ UNCHANGED <<blocked_queue, zombie_queue, proc_table, freed>>
  BY DEF WaitBlocks
<1> HIDE DEF table
<1>5. \A p \in PCB : p >= proc_table => p # current_process
  BY <1>1, ConstantFacts
<1>6. /\ Leaves(ToSet(ready_queue), "wait") /\ reply' = NoReply
      /\ \A p \in PCB : /\ pcb'[p].waiting = table[p].waiting
                        /\ pcb'[p].exit = table[p].exit
  BY <1>1, <1>2, <1>3, <1>4, <1>5, SwitchLeaves DEF SameKin
<1>7. Asleep' = Asleep \union {current_process}
  BY <1>1, <1>3, <1>6 DEF Asleep, SleepsInWait
<1> QED BY <1>3, <1>4, <1>6, <1>7 DEF Ready, Blocked, Zombies

(* Delay.                                                                  *)
LEMMA DelayLeaves ==
  ASSUME Before, Placement', Sane', NEW n \in Int, DelayBlocks(n)
  PROVE  /\ Leaves(Ready, "delay")
         /\ Blocked' = Blocked \union {current_process}
         /\ UNCHANGED <<Asleep, Zombies>> /\ reply' = NoReply
         /\ \A p \in PCB : pcb'[p].exit = pcb[p].exit
<1> DEFINE t1 == [pcb EXCEPT ![current_process].delay = n]
           table == [pcb EXCEPT ![current_process].delay = n,
                                ![current_process].state = "PROC_BLOCKED"]
<1>1. /\ pcb \in [PCB -> PCBType] /\ current_process \in PCB
      /\ current_process < proc_table /\ proc_table \in Nat
      /\ ready_queue \in Seq(PCB) /\ NoDuplicates(ready_queue)
      /\ blocked_queue \in Seq(PCB)
  BY DEF Before, TypeOK, Placement, Ordered, Running, Live
<1>2. table \in [PCB -> PCBType]
  <2>1. t1 \in [PCB -> PCBType]
    BY <1>1, FieldTypes
  <2>2. [t1 EXCEPT ![current_process].state = "PROC_BLOCKED"] \in [PCB -> PCBType]
    BY <1>1, <2>1, FieldTypes DEF ProcState
  <2> QED BY <2>2
<1>3. ASSUME NEW p \in PCB
      PROVE  /\ table[p].ppid = pcb[p].ppid
             /\ table[p].parent = pcb[p].parent
             /\ table[p].children = pcb[p].children
             /\ table[p].kctx = pcb[p].kctx
             /\ table[p].exit = pcb[p].exit
             /\ table[p].waiting = pcb[p].waiting
             /\ p # current_process => table[p] = pcb[p]
  BY <1>1, SMT DEF PCBType
<1>4. /\ SwitchToNext("delay", ready_queue, table)
      /\ blocked_queue' = queueEnqueue(blocked_queue, current_process)
      /\ UNCHANGED <<zombie_queue, proc_table, freed>>
  BY DEF DelayBlocks
<1> HIDE DEF table
<1>5. \A p \in PCB : p >= proc_table => p # current_process
  BY <1>1, ConstantFacts
<1>6. /\ Leaves(ToSet(ready_queue), "delay") /\ reply' = NoReply
      /\ \A p \in PCB : /\ pcb'[p].waiting = table[p].waiting
                        /\ pcb'[p].exit = table[p].exit
  BY <1>1, <1>2, <1>3, <1>4, <1>5, SwitchLeaves DEF SameKin
<1>7. Asleep' = Asleep
  BY <1>3, <1>6 DEF Asleep, SleepsInWait
<1>8. Blocked' = Blocked \union {current_process}
  BY <1>1, <1>4, QueueEnqueueSet DEF Blocked
<1> QED BY <1>3, <1>4, <1>6, <1>7, <1>8 DEF Ready, Zombies

(* Preemption.                                                             *)
LEMMA ClockLeaves ==
  ASSUME Before, Placement', Sane', ClockSwitches
  PROVE  /\ \/ current_process = idle_proc /\ Leaves(Ready, "clock")
            \/ Leaves(Ready \union {current_process}, "clock")
         /\ UNCHANGED <<Asleep, Blocked, Zombies>> /\ reply' = NoReply
         /\ \A p \in PCB : pcb'[p].exit = pcb[p].exit
<1> DEFINE table == [pcb EXCEPT ![current_process].state = "PROC_READY"]
           ready == queueEnqueue(ready_queue, current_process)
<1>1. /\ pcb \in [PCB -> PCBType] /\ current_process \in PCB
      /\ ready_queue \in Seq(PCB) /\ NoDuplicates(ready_queue)
      /\ ~is_empty(ready_queue) /\ current_process \notin ToSet(ready_queue)
      /\ current_process < proc_table /\ proc_table \in Nat
  BY DEF Before, TypeOK, Placement, Ordered, Placed, Running, Live, Ready,
         ClockSwitches
<1>2. /\ UNCHANGED <<blocked_queue, zombie_queue, proc_table, freed>>
      /\ Blocked' = Blocked /\ Zombies' = Zombies
  BY DEF ClockSwitches, Blocked, Zombies
<1>3. CASE current_process = idle_proc
  <2>1. SwitchToNext("clock", ready_queue, pcb)
    BY <1>1, <1>3 DEF ClockSwitches, Requeues, SwitchToNext
  <2>2. /\ Leaves(ToSet(ready_queue), "clock") /\ reply' = NoReply
        /\ \A p \in PCB : /\ pcb'[p].waiting = pcb[p].waiting
                          /\ pcb'[p].exit = pcb[p].exit
    BY <1>1, <1>2, <2>1, SwitchLeaves DEF SameKin
  <2>3. Asleep' = Asleep
    BY <2>2 DEF Asleep, SleepsInWait
  <2> QED BY <1>2, <1>3, <2>2, <2>3 DEF Ready
<1>4. CASE current_process # idle_proc
  <2>1. Requeues
    BY <1>4 DEF Requeues, Before, Placement, Running
  <2>2. /\ ~is_empty(ready) /\ queueFront(ready) = queueFront(ready_queue)
        /\ queueDequeue(ready) =
             queueEnqueue(queueDequeue(ready_queue), current_process)
    BY <1>1 DEF is_empty, queueFront, queueDequeue, queueEnqueue
  <2>3. SwitchToNext("clock", ready, table)
    BY <2>1, <2>2 DEF ClockSwitches, SwitchToNext
  <2>4. table \in [PCB -> PCBType]
    BY <1>1, FieldTypes DEF ProcState
  <2>5. ASSUME NEW p \in PCB
        PROVE  /\ table[p].ppid = pcb[p].ppid
               /\ table[p].parent = pcb[p].parent
               /\ table[p].children = pcb[p].children
               /\ table[p].kctx = pcb[p].kctx
               /\ table[p].exit = pcb[p].exit
               /\ table[p].waiting = pcb[p].waiting
               /\ p # current_process => table[p] = pcb[p]
    BY <1>1, SMT DEF PCBType
  <2>6. /\ ready \in Seq(PCB) /\ NoDuplicates(ready)
        /\ ToSet(ready) = ToSet(ready_queue) \union {current_process}
    BY <1>1, QueueEnqueueSet
  <2> HIDE DEF table, ready
  <2>7. \A p \in PCB : p >= proc_table => p # current_process
    BY <1>1, ConstantFacts
  <2>8. /\ Leaves(ToSet(ready), "clock") /\ reply' = NoReply
        /\ \A p \in PCB : /\ pcb'[p].waiting = table[p].waiting
                          /\ pcb'[p].exit = table[p].exit
    <3>1. SameKin(table, pcb)
      BY <2>5 DEF SameKin
    <3>2. /\ \A p \in PCB : p # current_process => table[p].exit = pcb[p].exit
          /\ \A p \in PCB : p >= proc_table => table[p] = pcb[p]
      BY <2>5, <2>7
    <3>3. UNCHANGED <<proc_table, freed>>
      BY <1>2
    <3> QED BY <2>3, <2>4, <2>6, <3>1, <3>2, <3>3, SwitchLeaves
  <2>9. Asleep' = Asleep
    BY <2>5, <2>8 DEF Asleep, SleepsInWait
  <2> QED BY <1>2, <2>5, <2>6, <2>8, <2>9 DEF Ready
<1> QED BY <1>3, <1>4

(* Exit of a process other than init; it wakes its parent or the parent    *)
(* does not sleep.                                                         *)
LEMMA ExitLeaves ==
  ASSUME Before, Placement', Sane', NEW status \in Int, NEW label,
         zombie_queue' = queueEnqueue(zombie_queue, current_process),
         ExitWake(status, label) \/ ExitQuietly(status, label),
         UNCHANGED <<blocked_queue, proc_table, freed>>
  PROVE  LET parent == pcb[current_process].parent
         IN  /\ UNCHANGED Blocked /\ Zombies' = Zombies \union {current_process}
             /\ \/ /\ parent \notin Asleep /\ UNCHANGED Asleep
                   /\ Leaves(Ready, label)
                \/ /\ parent \in Asleep /\ Asleep' = Asleep \ {parent}
                   /\ Leaves(Ready \union {parent}, label)
<1> DEFINE parent == pcb[current_process].parent
           t1 == Exited(status)
<1>1. /\ pcb \in [PCB -> PCBType] /\ current_process \in PCB
      /\ ready_queue \in Seq(PCB) /\ NoDuplicates(ready_queue)
      /\ zombie_queue \in Seq(PCB)
      /\ current_process < proc_table /\ proc_table \in Nat
  BY DEF Before, TypeOK, Placement, Ordered, Running, Live
<1>2. Blocked' = Blocked /\ Zombies' = Zombies \union {current_process}
  BY <1>1, QueueEnqueueSet DEF Zombies, Blocked
<1>3. t1 \in [PCB -> PCBType]
  BY ExitedFacts DEF Before
<1>4. ASSUME NEW p \in PCB
      PROVE  /\ t1[p].ppid = pcb[p].ppid
             /\ t1[p].parent = pcb[p].parent
             /\ t1[p].children = pcb[p].children
             /\ t1[p].kctx = pcb[p].kctx
             /\ t1[p].waiting = pcb[p].waiting
             /\ p # current_process => t1[p] = pcb[p]
  BY <1>1, SMT DEF PCBType, Exited
<1>5. \A p \in PCB : p >= proc_table => p # current_process
  BY <1>1, ConstantFacts
<1>6. CASE ExitQuietly(status, label)
  <2>1. /\ SwitchToNext(label, ready_queue, t1)
        /\ parent \in {NULL} \union freed \union {p \in PCB : pcb[p].waiting = 0}
    BY <1>6 DEF ExitQuietly
  <2>2. \A p \in Asleep : p \in PCB /\ p \notin freed /\ pcb[p].waiting = 1
    BY DEF Before, Placement, Placed, Live, Asleep, SleepsInWait
  <2>3. parent \notin Asleep
    BY <2>1, <2>2, ConstantFacts
  <2> HIDE DEF t1
  <2>4. /\ Leaves(ToSet(ready_queue), label)
        /\ \A p \in PCB : pcb'[p].waiting = t1[p].waiting
    BY <1>1, <1>3, <1>4, <1>5, <2>1, SwitchLeaves DEF SameKin
  <2>5. Asleep' = Asleep
    BY <1>4, <2>4 DEF Asleep, SleepsInWait
  <2> QED BY <1>2, <2>3, <2>4, <2>5 DEF Ready
<1>7. CASE ExitWake(status, label)
  <2> DEFINE t2 == [t1 EXCEPT ![parent].state = "PROC_READY"]
             table == [t2 EXCEPT ![parent].waiting = 0]
             ready == queueEnqueue(ready_queue, parent)
  <2>1. parent \in PCB /\ pcb[parent].waiting = 1
    <3>1. parent \in PCB \union {NULL}
      BY <1>1 DEF PCBType
    <3>2. parent # NULL /\ (pcb[parent].waiting = 1 \/ faults' # {})
      BY <1>7 DEF ExitWake
    <3> QED BY <3>1, <3>2 DEF Sane
  <2>2. SwitchToNext(label, ready, table)
    BY <1>7 DEF ExitWake
  <2> HIDE DEF t1, parent
  <2>3. parent \in Asleep
    BY <2>1 DEF Asleep, SleepsInWait
  <2>4. parent \in Live /\ parent # current_process /\ parent \notin Ready
    BY <2>3 DEF Before, Placement, Placed
  <2>5. table \in [PCB -> PCBType]
    <3>1. t2 \in [PCB -> PCBType]
      BY <1>3, <2>1, FieldTypes DEF ProcState
    <3> QED BY <2>1, <3>1, FieldTypes
  <2>6. ASSUME NEW p \in PCB
        PROVE  /\ table[p].ppid = t1[p].ppid
               /\ table[p].parent = t1[p].parent
               /\ table[p].children = t1[p].children
               /\ table[p].kctx = t1[p].kctx
               /\ table[p].exit = t1[p].exit
               /\ table[p].waiting = IF p = parent THEN 0 ELSE t1[p].waiting
               /\ p # parent => table[p] = t1[p]
    BY <1>3, <2>1, SMT DEF PCBType
  <2>7. /\ ready \in Seq(PCB) /\ NoDuplicates(ready)
        /\ ToSet(ready) = Ready \union {parent}
    BY <1>1, <2>1, <2>4, QueueEnqueueSet DEF Ready
  <2> HIDE DEF table, ready
  <2>8. \A p \in PCB : p >= proc_table => table[p] = pcb[p]
    <3>1. parent < proc_table
      BY <2>4 DEF Live
    <3>2. \A p \in PCB : p >= proc_table => p # parent
      BY <1>1, <2>1, <3>1, ConstantFacts
    <3> QED BY <1>4, <1>5, <2>6, <3>2
  <2>9. SameKin(table, pcb)
    BY <1>4, <2>6 DEF SameKin
  <2>10. /\ Leaves(ToSet(ready), label)
         /\ \A p \in PCB : pcb'[p].waiting = table[p].waiting
    <3>1. \A p \in PCB : p # current_process => table[p].exit = pcb[p].exit
      BY <1>4, <2>6
    <3> QED BY <3>1, <2>2, <2>5, <2>6, <2>7, <2>8, <2>9, SwitchLeaves
  <2>11. Asleep' = Asleep \ {parent}
    BY <1>4, <2>6, <2>10, SMT DEF Asleep, SleepsInWait
  <2> QED BY <1>2, <2>3, <2>7, <2>10, <2>11 DEF parent
<1> QED BY <1>6, <1>7

(* The families survive every handler that gives up the CPU: it leaves     *)
(* whoever was ready ready, so that a child that has not started yet is    *)
(* still to start.                                                         *)
LEMMA LeavesKin ==
  ASSUME Before, Wakeup, kpc # "resume", NEW ready, NEW label,
         Ready \subseteq ready, ready \subseteq PCB, Leaves(ready, label)
  PROVE  /\ Kin' /\ Linked'
         /\ \A p \in PCB : Resumable(p)' => p \in ready \union {idle_proc}
         /\ \A p \in ready : Resumable(p)'
         /\ \A p \in PCB : Children(p)' = Children(p)
<1>1. Live' = Live /\ \A p \in PCB : Children(p)' = Children(p)
  BY DEF Leaves, Live, Children
<1>2. Kin'
  <2>1. \A p \in PCB : NoDuplicates(pcb[p].children)'
    BY DEF Wakeup, Kin, Leaves
  <2>2. \A p, c \in PCB : (c \in Children(p) => c \notin freed)'
    BY <1>1 DEF Wakeup, Kin, Leaves
  <2>3. \A c \in Live, p \in PCB \ freed' : pcb'[c].ppid = p => c \in Children(p)'
    <3>1. freed' = freed /\ \A c \in Live : c \in PCB /\ pcb'[c].ppid = pcb[c].ppid
      BY DEF Leaves, Live
    <3> QED BY <1>1, <3>1 DEF Wakeup, Kin
  <2>4. \A c \in PCB : (c >= proc_table => pcb[c] = allocNewPCB)'
    BY DEF Wakeup, Kin, Leaves
  <2>5. Children(idle_proc)' = {}
    BY <1>1, ConstantFacts DEF Wakeup, Kin
  <2> QED BY <1>1, <2>1, <2>2, <2>3, <2>4, <2>5 DEF Kin
<1>3. \A p \in PCB : Resumable(p)' <=> p \in ready \/ (ready = {} /\ p = idle_proc)
  BY DEF Leaves, Resumable
<1>4. \A c \in PCB : NotStarted(c) => NotStarted(c)'
  <2> SUFFICES ASSUME NEW c \in PCB, NotStarted(c) PROVE NotStarted(c)'
    OBVIOUS
  <2>1. c \in Ready /\ pcb[c].kctx = "fork"
    BY DEF NotStarted, Ready
  <2>2. c # current_process
    BY <2>1 DEF Before, Placement, Placed
  <2>3. Resumable(c)' /\ pcb'[c].kctx = "fork"
    BY <1>3, <2>1, <2>2 DEF Leaves
  <2> QED BY <2>3 DEF NotStarted, Resumable, Ready
<1>5. Linked'
  <2>1. \A c \in PCB : pcb'[c].parent \in {NULL, pcb'[c].ppid}
    BY DEF Wakeup, Linked, Leaves
  <2>2. ASSUME NEW c \in Live, pcb'[c].ppid \in PCB \ freed'
        PROVE  pcb'[c].parent = pcb'[c].ppid \/ NotStarted(c)'
    <3>1. c \in PCB /\ pcb'[c].ppid = pcb[c].ppid /\ freed' = freed
          /\ pcb'[c].parent = pcb[c].parent
      BY DEF Leaves, Live
    <3>2. pcb[c].parent = pcb[c].ppid \/ NotStarted(c)
      BY <2>2, <3>1 DEF Wakeup, Linked
    <3> QED BY <1>4, <3>1, <3>2
  <2> QED BY <1>1, <2>1, <2>2 DEF Linked
<1> QED BY <1>1, <1>2, <1>3, <1>5

(* A queue that is not empty holds somebody.                               *)
LEMMA NonEmptyQueue ==
  ASSUME NEW q \in Seq(PCB), ~is_empty(q)
  PROVE  \E c \in PCB : c \in ToSet(q)
BY QueueDequeueSet

(* Where the running process and those beside it are, as the handlers use  *)
(* it.                                                                     *)
LEMMA Apart ==
  ASSUME Before
  PROVE  /\ current_process \in PCB /\ current_process \in Live
         /\ current_process \notin Ready /\ current_process \notin Blocked
         /\ current_process \notin Zombies /\ current_process \notin Asleep
         /\ idle_proc \in PCB
         /\ idle_proc \notin Ready /\ idle_proc \notin Blocked
         /\ idle_proc \notin Zombies /\ idle_proc \notin Asleep
         /\ Ready \subseteq PCB /\ Blocked \subseteq PCB
         /\ Zombies \subseteq PCB /\ Asleep \subseteq PCB
         /\ Ready \subseteq Live /\ Blocked \subseteq Live
         /\ Zombies \subseteq Live /\ Asleep \subseteq Live
         /\ Live \subseteq PCB /\ proc_table \in Nat
         /\ Ready \intersect Blocked = {} /\ Asleep \intersect Ready = {}
         /\ Asleep \intersect Zombies = {} /\ Asleep \intersect Blocked = {}
<1>1. Placed /\ current_process \in Live /\ proc_table \in Nat
  BY DEF Before, Placement, Running, TypeOK
<1>2. Live \subseteq PCB
  BY DEF Live
<1>3. current_process \in PCB /\ idle_proc \in PCB
  BY <1>1, <1>2, ConstantFacts
<1>4. /\ Ready \subseteq PCB /\ Blocked \subseteq PCB
      /\ Zombies \subseteq PCB /\ Asleep \subseteq PCB
  BY <1>1, <1>2 DEF Placed
<1>5. /\ Ready \intersect Blocked = {} /\ Asleep \intersect Ready = {}
      /\ Asleep \intersect Zombies = {} /\ Asleep \intersect Blocked = {}
  BY <1>1 DEF Placed
<1> QED BY <1>1, <1>2, <1>3, <1>4, <1>5 DEF Placed

LEMMA WaitBlocksWakes ==
  ASSUME Before, Wakeup, Placement', Sane', WaitBlocks
  PROVE  Wakeup'
<1>1. /\ Leaves(Ready, "wait") /\ Asleep' = Asleep \union {current_process}
      /\ UNCHANGED <<Blocked, Zombies>>
  BY WaitBlocksLeaves
<1>2. /\ kpc # "resume" /\ current_process # idle_proc
      /\ ~is_empty(pcb[current_process].children)
      /\ ZombieOf(current_process) = NULL
  BY DEF WaitBlocks, UserTrap, InUser
<1>3. /\ Kin' /\ Linked'
      /\ \A p \in PCB : Resumable(p)' => p \in Ready \union {idle_proc}
      /\ \A p \in PCB : Children(p)' = Children(p)
  BY <1>1, <1>2, Apart, LeavesKin
<1>4. \A p \in PCB : /\ pcb'[p].ppid = pcb[p].ppid
                     /\ pcb'[p].kctx = IF p = current_process THEN "wait"
                                       ELSE pcb[p].kctx
  BY <1>1 DEF Leaves
<1>5. \A p \in Ready : Resumable(p)
  BY DEF Resumable
<1>6. Contexts'
  BY <1>1, <1>2, <1>3, <1>4, <1>5, Apart DEF Wakeup, Contexts
<1>7. Sleepers'
  <2>1. \E c \in PCB : c \in Children(current_process)
    <3>1. pcb[current_process].children \in Seq(PCB)
      BY DEF Before, TypeOK, PCBType
    <3> QED BY <1>2, <3>1, NonEmptyQueue DEF Children
  <2>2. \A z \in Zombies : pcb[z].ppid # current_process
    BY <1>2, Apart, ZombieOfIs DEF Before
  <2>3. \A z \in Zombies : pcb'[z].ppid = pcb[z].ppid
    BY <1>4, Apart
  <2> QED BY <1>1, <1>3, <2>1, <2>2, <2>3, Apart DEF Wakeup, Sleepers
<1>8. Woken'
  <2>1. \A z \in Zombies : pcb'[z].ppid = pcb[z].ppid
    BY <1>4, Apart
  <2>2. \A p \in PCB : (Resumable(p) /\ pcb[p].kctx = "wait")' =>
                          Resumable(p) /\ pcb[p].kctx = "wait"
    BY <1>2, <1>3, <1>4, <1>5, Apart DEF Wakeup, Contexts
  <2> QED BY <1>1, <2>1, <2>2 DEF Wakeup, Woken
<1> QED BY <1>3, <1>6, <1>7, <1>8 DEF Wakeup

LEMMA DelayWakes ==
  ASSUME Before, Wakeup, Placement', Sane', NEW n \in Int, DelayBlocks(n)
  PROVE  Wakeup'
<1>1. /\ Leaves(Ready, "delay") /\ Blocked' = Blocked \union {current_process}
      /\ UNCHANGED <<Asleep, Zombies>>
  BY DelayLeaves
<1>2. kpc # "resume" /\ current_process # idle_proc
  BY DEF DelayBlocks, UserTrap, InUser
<1>3. /\ Kin' /\ Linked'
      /\ \A p \in PCB : Resumable(p)' => p \in Ready \union {idle_proc}
      /\ \A p \in PCB : Children(p)' = Children(p)
  BY <1>1, <1>2, Apart, LeavesKin
<1>4. \A p \in PCB : /\ pcb'[p].ppid = pcb[p].ppid
                     /\ pcb'[p].kctx = IF p = current_process THEN "delay"
                                       ELSE pcb[p].kctx
  BY <1>1 DEF Leaves
<1>5. \A p \in Ready : Resumable(p)
  BY DEF Resumable
<1>6. Contexts'
  BY <1>1, <1>2, <1>3, <1>4, <1>5, Apart DEF Wakeup, Contexts
<1>7. \A z \in Zombies : pcb'[z].ppid = pcb[z].ppid
  BY <1>4, Apart
<1>8. Sleepers'
  BY <1>1, <1>3, <1>7, Apart DEF Wakeup, Sleepers
<1>9. Woken'
  <2>1. \A p \in PCB : (Resumable(p) /\ pcb[p].kctx = "wait")' =>
                          Resumable(p) /\ pcb[p].kctx = "wait"
    BY <1>2, <1>3, <1>4, <1>5, Apart DEF Wakeup, Contexts
  <2> QED BY <1>1, <1>7, <2>1 DEF Wakeup, Woken
<1> QED BY <1>3, <1>6, <1>8, <1>9 DEF Wakeup

LEMMA ClockWakes ==
  ASSUME Before, Wakeup, Placement', Sane', ClockSwitches
  PROVE  Wakeup'
<1>1. PICK ready :
        /\ ready = Ready \/ ready = Ready \union {current_process}
        /\ Leaves(ready, "clock") /\ UNCHANGED <<Asleep, Blocked, Zombies>>
  BY ClockLeaves
<1>2. kpc # "resume"
  BY DEF ClockSwitches
<1>3. /\ Kin' /\ Linked'
      /\ \A p \in PCB : Resumable(p)' => p \in ready \union {idle_proc}
      /\ \A p \in PCB : Children(p)' = Children(p)
  BY <1>1, <1>2, Apart, LeavesKin
<1>4. \A p \in PCB : /\ pcb'[p].ppid = pcb[p].ppid
                     /\ pcb'[p].kctx = IF p = current_process THEN "clock"
                                       ELSE pcb[p].kctx
  BY <1>1 DEF Leaves
<1>5. \A p \in Ready : Resumable(p)
  BY DEF Resumable
<1>6. Contexts'
  BY <1>1, <1>2, <1>3, <1>4, <1>5, Apart DEF Wakeup, Contexts
<1>7. \A z \in Zombies : pcb'[z].ppid = pcb[z].ppid
  BY <1>4, Apart
<1>8. Sleepers'
  BY <1>1, <1>3, <1>7, Apart DEF Wakeup, Sleepers
<1>9. Woken'
  <2>1. \A p \in PCB : (Resumable(p) /\ pcb[p].kctx = "wait")' =>
                          Resumable(p) /\ pcb[p].kctx = "wait"
    BY <1>1, <1>2, <1>3, <1>4, <1>5, Apart DEF Wakeup, Contexts
  <2> QED BY <1>1, <1>7, <2>1 DEF Wakeup, Woken
<1> QED BY <1>3, <1>6, <1>8, <1>9 DEF Wakeup

(* Exit: a sleeping parent is linked to its running child, so it is woken  *)
(* and finds the zombie; the zombie of nobody else appears.                *)
LEMMA ExitWakes ==
  ASSUME Before, Wakeup, Placement', Sane', NEW status \in Int,
         NEW label \in {"exit", "killed"}, UserTrap,
         zombie_queue' = queueEnqueue(zombie_queue, current_process),
         ExitWake(status, label) \/ ExitQuietly(status, label),
         UNCHANGED <<blocked_queue, proc_table, freed>>
  PROVE  Wakeup'
<1> DEFINE parent == pcb[current_process].parent
           ppid == pcb[current_process].ppid
<1>1. /\ UNCHANGED Blocked /\ Zombies' = Zombies \union {current_process}
      /\ \/ parent \notin Asleep /\ UNCHANGED Asleep /\ Leaves(Ready, label)
         \/ /\ parent \in Asleep /\ Asleep' = Asleep \ {parent}
            /\ Leaves(Ready \union {parent}, label)
  BY ExitLeaves
<1>2. kpc = "user" /\ current_process # idle_proc
  BY DEF UserTrap, InUser
<1>3. PICK ready :
        /\ Leaves(ready, label) /\ Ready \subseteq ready
        /\ ready \subseteq Ready \union {parent}
        /\ parent \in ready => parent \in Asleep \union Ready
        /\ Asleep' = Asleep \ {parent}
        /\ parent \in Asleep => parent \in ready
  <2>1. CASE parent \notin Asleep
    <3>1. Asleep' = Asleep \ {parent} /\ Leaves(Ready, label)
      BY <1>1, <2>1
    <3> QED BY <2>1, <3>1, Zenon
  <2>2. CASE parent \in Asleep
    <3>1. Asleep' = Asleep \ {parent} /\ Leaves(Ready \union {parent}, label)
      BY <1>1, <2>2
    <3>2. /\ Ready \subseteq Ready \union {parent}
          /\ parent \in Ready \union {parent} /\ parent \in Asleep \union Ready
      BY <2>2
    <3> WITNESS Ready \union {parent}
    <3> QED BY <2>2, <3>1, <3>2
  <2> QED BY <2>1, <2>2, Zenon
<1>4. ppid \in Asleep => parent = ppid
  <2>1. ~NotStarted(current_process)
    BY <1>2, Apart DEF NotStarted, Ready
  <2>2. \A p \in Asleep : p \in PCB \ freed
    BY Apart DEF Live
  <2> QED BY <2>1, <2>2, Apart DEF Wakeup, Linked
<1>5. parent \in Asleep => parent = ppid
  BY Apart, ConstantFacts DEF Wakeup, Linked
<1> HIDE DEF parent, ppid
<1>6. ready \subseteq PCB
  BY <1>3, Apart
<1>7. /\ Kin' /\ Linked'
      /\ \A p \in PCB : Resumable(p)' => p \in ready \union {idle_proc}
      /\ \A p \in PCB : Children(p)' = Children(p)
  BY <1>2, <1>3, <1>6, LeavesKin
<1>8. \A p \in PCB : /\ pcb'[p].ppid = pcb[p].ppid
                     /\ pcb'[p].kctx = IF p = current_process THEN label
                                       ELSE pcb[p].kctx
  BY <1>3 DEF Leaves
<1>9. \A p \in Ready : Resumable(p)
  BY DEF Resumable
<1>10. \A p \in PCB : Resumable(p)' =>
         \/ p \in Ready
         \/ p = idle_proc
         \/ p = parent /\ p = ppid /\ p \in Asleep /\ pcb[p].kctx = "wait"
  BY <1>3, <1>5, <1>7 DEF Wakeup, Contexts
<1>11. Contexts'
  <2>1. \A p \in PCB : Resumable(p)' =>
          pcb'[p].kctx \in {"boot", "clock", "fork", "wait", "delay"}
    BY <1>2, <1>8, <1>9, <1>10, Apart DEF Wakeup, Contexts
  <2> QED BY <1>1, <1>2, <1>3, <1>8, <2>1, Apart DEF Wakeup, Contexts
<1>12. Sleepers'
  <2>1. \A z \in Zombies \union {current_process} : pcb'[z].ppid = pcb[z].ppid
    BY <1>8, Apart
  <2>2. \A p \in Asleep' : p \in Asleep /\ p # ppid
    BY <1>3, <1>4
  <2>3. \A p \in Asleep' : pcb[current_process].ppid # p
    BY <2>2 DEF ppid
  <2> QED BY <1>1, <1>7, <2>1, <2>2, <2>3, Apart DEF Wakeup, Sleepers
<1>13. Woken'
  <2>1. \A z \in Zombies \union {current_process} : pcb'[z].ppid = pcb[z].ppid
    BY <1>8, Apart
  <2>2. ASSUME NEW p \in PCB, Resumable(p)', pcb'[p].kctx = "wait"
        PROVE  \E z \in Zombies' : pcb'[z].ppid = p
    <3>1. CASE p \in Ready
      BY <1>1, <1>8, <1>9, <2>1, <2>2, <3>1, Apart DEF Wakeup, Woken
    <3>2. CASE p = idle_proc
      BY <1>2, <1>8, <2>2, <3>2, Apart DEF Wakeup, Contexts
    <3>3. CASE p = ppid
      BY <1>1, <2>1, <3>3 DEF ppid
    <3> QED BY <1>10, <2>2, <3>1, <3>2, <3>3
  <2> QED BY <2>2 DEF Woken
<1> QED BY <1>7, <1>11, <1>12, <1>13 DEF Wakeup


(* A step that leaves the processes as they are, and starts no child.      *)
LEMMA QuietWakes ==
  ASSUME Wakeup,
         UNCHANGED <<current_process, ready_queue, blocked_queue,
                     zombie_queue, proc_table, pcb, freed>>,
         \/ kpc' = kpc
         \/ /\ kpc' # "resume"
            /\ kpc = "resume" => pcb[current_process].kctx # "fork"
  PROVE  Wakeup'
<1>1. \A p \in PCB : /\ Resumable(p)' => Resumable(p)
                     /\ NotStarted(p) => NotStarted(p)'
  BY DEF Resumable, NotStarted, Ready
<1>2. /\ UNCHANGED <<Live, Ready, Blocked, Zombies, Asleep>>
      /\ \A p \in PCB : Children(p)' = Children(p)
  BY DEF Live, Ready, Blocked, Zombies, Asleep, SleepsInWait, Children
<1>3. Kin'
  BY <1>2, ConstantFacts DEF Wakeup, Kin
<1>4. Linked'
  <2>1. Live \subseteq PCB
    BY DEF Live
  <2> QED BY <1>1, <1>2, <2>1 DEF Wakeup, Linked
<1>5. Contexts'
  BY <1>1, <1>2 DEF Wakeup, Contexts
<1>6. Sleepers'
  <2>1. Asleep \subseteq PCB
    BY DEF Asleep
  <2> QED BY <1>2, <2>1 DEF Wakeup, Sleepers
<1>7. Woken'
  BY <1>1, <1>2 DEF Wakeup, Woken
<1> QED BY <1>3, <1>4, <1>5, <1>6, <1>7 DEF Wakeup

(* What Fork does to the process table.                                    *)
LEMMA ForkEffect ==
  ASSUME Before, Fork
  PROVE  LET child == proc_table IN
         /\ child \in PCB /\ child \notin Live /\ child \notin freed
         /\ child # current_process /\ Live' = Live \union {child}
         /\ proc_table' = child + 1 /\ child \in Nat
         /\ kpc = "user" /\ kpc' = "user" /\ current_process # idle_proc
         /\ Ready' = Ready \union {child}
         /\ UNCHANGED <<Blocked, Zombies, Asleep, freed, current_process>>
         /\ pcb'[child].ppid = current_process /\ pcb'[child].parent = NULL
         /\ pcb'[child].children = << >> /\ pcb'[child].kctx = "fork"
         /\ pcb'[child].exit = 0
         /\ \A p \in PCB \ {child} : /\ pcb'[p].ppid = pcb[p].ppid
                                     /\ pcb'[p].parent = pcb[p].parent
                                     /\ pcb'[p].kctx = pcb[p].kctx
                                     /\ pcb'[p].exit = pcb[p].exit
         /\ \A p \in PCB \ {child, current_process} : pcb'[p] = pcb[p]
         /\ pcb'[current_process].children =
              queueEnqueue(pcb[current_process].children, child)
         /\ reply' = Reply("Fork", child, 0)
<1> DEFINE child == proc_table
           new == [allocNewPCB EXCEPT !.ppid = current_process,
                                      !.state = "PROC_READY", !.kctx = "fork"]
           kids == queueEnqueue(pcb[current_process].children, child)
<1>1. /\ child \in PCB /\ child \notin freed /\ child \in Nat
      /\ current_process \in PCB /\ current_process # child
      /\ child \notin Live
  <2>1. /\ proc_table \in 2 .. MaxProcs /\ proc_table < MaxProcs
        /\ current_process \in PCB
    BY DEF Before, TypeOK, Fork, getFreePCB
  <2>2. current_process < proc_table
    BY DEF Before, Placement, Running, Live
  <2>3. proc_table \in PCB
    BY <2>1, MaxProcsAssumption DEF PCB
  <2>4. proc_table \notin freed /\ proc_table \notin Live
    BY <2>1 DEF Before, Placement, Family, Live
  <2> QED BY <2>1, <2>2, <2>3, <2>4 DEF PCB
<1>2. /\ pcb' = [pcb EXCEPT ![child] = new, ![current_process].children = kids]
      /\ proc_table' = child + 1
      /\ ready_queue' = queueEnqueue(ready_queue, child)
      /\ UNCHANGED <<machine, current_process, blocked_queue, zombie_queue, freed>>
      /\ kpc = "user" /\ kpc' = "user" /\ current_process # idle_proc
      /\ reply' = Reply("Fork", child, 0)
  BY DEF Fork, Return, UserTrap, InUser
<1>3. /\ new.waiting = -1 /\ new.ppid = current_process /\ new.exit = 0
      /\ new.children = << >> /\ new.parent = NULL /\ new.kctx = "fork"
  BY DEF allocNewPCB, INVALID_PID, NULL
<1>4. pcb \in [PCB -> PCBType]
  BY DEF Before, TypeOK
<1> HIDE DEF child, new, kids
<1>5. /\ pcb'[child] = new
      /\ pcb'[current_process] = [pcb[current_process] EXCEPT !.children = kids]
      /\ \A p \in PCB \ {child, current_process} : pcb'[p] = pcb[p]
  BY <1>1, <1>2, <1>4
<1>6. /\ pcb'[current_process].children = kids
      /\ pcb'[current_process].ppid = pcb[current_process].ppid
      /\ pcb'[current_process].parent = pcb[current_process].parent
      /\ pcb'[current_process].kctx = pcb[current_process].kctx
      /\ pcb'[current_process].exit = pcb[current_process].exit
      /\ pcb'[current_process].waiting = pcb[current_process].waiting
  BY <1>1, <1>4, <1>5 DEF PCBType
<1>7. Live' = Live \union {child}
  <2>1. \A p \in PCB : p < child + 1 <=> (p < child \/ p = child)
    BY <1>1 DEF PCB
  <2> QED BY <1>1, <1>2, <2>1 DEF Live, child
<1>8. Asleep' = Asleep
  <2>1. child \notin Asleep
    BY <1>1 DEF Before, Placement, Placed
  <2>2. \A p \in PCB \ {child} : pcb'[p].waiting = pcb[p].waiting
    BY <1>5, <1>6
  <2> QED BY <1>3, <1>5, <2>1, <2>2, SMT DEF Asleep, SleepsInWait
<1>9. Ready' = Ready \union {child} /\ UNCHANGED <<Blocked, Zombies>>
  <2>1. ready_queue \in Seq(PCB)
    BY DEF Before, TypeOK
  <2>2. ToSet(queueEnqueue(ready_queue, child)) = ToSet(ready_queue) \union {child}
    BY <1>1, <2>1, QueueEnqueueSet, SMTT(30)
  <2> QED BY <1>2, <2>2 DEF Ready, Blocked, Zombies
<1>10. \A p \in PCB \ {child} : /\ pcb'[p].ppid = pcb[p].ppid
                                /\ pcb'[p].parent = pcb[p].parent
                                /\ pcb'[p].kctx = pcb[p].kctx
                                /\ pcb'[p].exit = pcb[p].exit
  BY <1>5, <1>6
<1> QED BY <1>1, <1>2, <1>3, <1>5, <1>6, <1>7, <1>8, <1>9, <1>10
        DEF child, kids

LEMMA ForkWakes ==
  ASSUME Before, Wakeup, Fork
  PROVE  Wakeup'
<1> DEFINE child == proc_table
           kids == queueEnqueue(pcb[current_process].children, child)
<1>1. /\ child \in PCB /\ child \notin Live /\ child \notin freed
      /\ child # current_process /\ Live' = Live \union {child}
      /\ proc_table' = child + 1 /\ child \in Nat
      /\ kpc = "user" /\ kpc' = "user" /\ current_process # idle_proc
      /\ Ready' = Ready \union {child}
      /\ UNCHANGED <<Blocked, Zombies, Asleep, freed, current_process>>
  BY ForkEffect
<1>2. /\ pcb'[child].ppid = current_process /\ pcb'[child].parent = NULL
      /\ pcb'[child].children = << >> /\ pcb'[child].kctx = "fork"
      /\ \A p \in PCB \ {child} : /\ pcb'[p].ppid = pcb[p].ppid
                                  /\ pcb'[p].parent = pcb[p].parent
                                  /\ pcb'[p].kctx = pcb[p].kctx
  BY ForkEffect
<1>3. /\ \A p \in PCB \ {child, current_process} : pcb'[p] = pcb[p]
      /\ pcb'[current_process].children = kids
  BY ForkEffect
<1>4. /\ Children(child) = {}
      /\ pcb[current_process].children \in Seq(PCB)
  <2>1. pcb[child] = allocNewPCB
    BY <1>1 DEF Wakeup, Kin
  <2>2. Children(child) = {}
    BY <2>1 DEF Children, ToSet, allocNewPCB
  <2>3. pcb[current_process].children \in Seq(PCB)
    BY Apart DEF Before, TypeOK, PCBType
  <2> QED BY <2>2, <2>3
<1>5. child \notin ToSet(pcb[current_process].children)
  <2>1. \A c \in PCB : c \in ToSet(pcb[current_process].children) => c < child
    BY Apart DEF Before, Placement, Family
  <2> QED BY <1>1, <2>1
<1>6. /\ NoDuplicates(kids)
      /\ ToSet(kids) = Children(current_process) \union {child}
  <2>1. NoDuplicates(pcb[current_process].children)
    BY Apart DEF Wakeup, Kin
  <2> QED BY <1>1, <1>4, <1>5, <2>1, QueueEnqueueSet DEF Children
<1> HIDE DEF child, kids
<1>7. \A p \in PCB : Children(p)' = IF p = child THEN {}
                                    ELSE IF p = current_process
                                    THEN Children(p) \union {child}
                                    ELSE Children(p)
  <2>1. ToSet(pcb'[child].children) = {}
    BY <1>2 DEF ToSet
  <2>2. ToSet(pcb'[current_process].children) = Children(current_process) \union {child}
    BY <1>3, <1>6
  <2>3. \A p \in PCB \ {child, current_process} :
          ToSet(pcb'[p].children) = Children(p)
    BY <1>3 DEF Children
  <2>4. \A p : Children(p)' = ToSet(pcb'[p].children)
    BY DEF Children
  <2> QED BY <1>1, <2>1, <2>2, <2>3, <2>4
<1>8. \A p \in PCB : NotStarted(p) => NotStarted(p)'
  BY <1>1, <1>2 DEF NotStarted, Ready
<1>9. /\ \A p \in PCB : p = child => NotStarted(p)'
      /\ \A p \in PCB : Resumable(p)' => Resumable(p) \/ p = child
  BY <1>1, <1>2 DEF NotStarted, Resumable, Ready
<1>10. Kin'
  <2>1. \A p \in PCB : NoDuplicates(pcb'[p].children)
    <3>1. NoDuplicates(<< >>)
      BY DEF NoDuplicates
    <3> QED BY <1>2, <1>3, <1>6, <3>1 DEF Wakeup, Kin
  <2>2. \A p, c \in PCB : c \in Children(p)' => c \notin freed'
    BY <1>1, <1>7 DEF Wakeup, Kin
  <2>3. \A c \in Live', p \in PCB \ freed' : pcb'[c].ppid = p => c \in Children(p)'
    <3> SUFFICES ASSUME NEW c \in Live', NEW p \in PCB \ freed', pcb'[c].ppid = p
                 PROVE  c \in Children(p)'
      OBVIOUS
    <3>1. CASE c = child
      BY <1>1, <1>2, <1>7, <3>1
    <3>2. CASE c # child
      <4>1. c \in Live /\ pcb[c].ppid = p
        BY <1>1, <1>2, <3>2, Apart
      <4>2. c \in Children(p)
        BY <1>1, <4>1 DEF Wakeup, Kin
      <4> QED BY <1>4, <1>7, <4>2
    <3> QED BY <3>1, <3>2
  <2>4. \A c \in PCB : c >= proc_table' => pcb'[c] = allocNewPCB
    <3>1. \A c \in PCB : c >= child + 1 => c >= child /\ c # child
      BY <1>1, ConstantFacts
    <3>2. current_process < child
      BY Apart DEF Live, child
    <3>3. \A c \in PCB : c >= child + 1 => c # current_process
      BY <1>1, <3>2, Apart, ConstantFacts
    <3>4. \A c \in PCB : c >= child => pcb[c] = allocNewPCB
      BY DEF Wakeup, Kin, child
    <3> QED BY <1>1, <1>3, <3>1, <3>3, <3>4
  <2>5. Children(idle_proc)' = {}
    BY <1>1, <1>7, ConstantFacts DEF Wakeup, Kin
  <2> QED BY <2>1, <2>2, <2>3, <2>4, <2>5 DEF Kin
<1>11. Linked'
  <2>1. \A c \in PCB : pcb'[c].parent \in {NULL, pcb'[c].ppid}
    BY <1>2 DEF Wakeup, Linked
  <2>2. ASSUME NEW c \in Live', pcb'[c].ppid \in PCB \ freed'
        PROVE  pcb'[c].parent = pcb'[c].ppid \/ NotStarted(c)'
    <3>1. CASE c = child
      BY <1>1, <1>9, <3>1
    <3>2. CASE c # child
      BY <1>1, <1>2, <1>8, <2>2, <3>2, Apart DEF Wakeup, Linked
    <3> QED BY <3>1, <3>2
  <2> QED BY <2>1, <2>2 DEF Linked
<1>12. Contexts'
  <2>1. child # idle_proc
    BY <1>1 DEF Before, Placement, Placed
  <2>2. ASSUME NEW p \in PCB, Resumable(p)'
        PROVE  pcb'[p].kctx \in {"boot", "clock", "fork", "wait", "delay"}
    <3>1. CASE p = child
      BY <1>2, <3>1
    <3>2. CASE p # child
      <4>1. Resumable(p)
        BY <1>1, <2>2, <3>2 DEF Resumable
      <4> QED BY <1>2, <3>2, <4>1 DEF Wakeup, Contexts
    <3> QED BY <3>1, <3>2
  <2>3. child \notin Blocked /\ child \notin Asleep
    BY <1>1, Apart
  <2>4. /\ \A p \in Blocked : pcb'[p].kctx = "delay"
        /\ \A p \in Asleep : pcb'[p].kctx = "wait"
    BY <1>2, <2>3, Apart DEF Wakeup, Contexts
  <2>5. pcb'[idle_proc].kctx \in {"boot", "clock"}
    BY <1>2, <2>1, Apart DEF Wakeup, Contexts
  <2> QED BY <1>1, <2>2, <2>4, <2>5 DEF Contexts
<1>13. Sleepers'
  <2>1. \A p \in Asleep : \E c \in PCB : c \in Children(p)'
    BY <1>4, <1>7, Apart DEF Wakeup, Sleepers
  <2>2. \A z \in Zombies : pcb'[z].ppid = pcb[z].ppid
    BY <1>1, <1>2, Apart
  <2> QED BY <1>1, <2>1, <2>2 DEF Wakeup, Sleepers
<1>14. Woken'
  <2>1. \A z \in Zombies : pcb'[z].ppid = pcb[z].ppid
    BY <1>1, <1>2, Apart
  <2>2. ASSUME NEW p \in PCB, Resumable(p)', pcb'[p].kctx = "wait"
        PROVE  Resumable(p) /\ pcb[p].kctx = "wait"
    BY <1>2, <1>9, <2>2
  <2> QED BY <1>1, <2>1, <2>2 DEF Wakeup, Woken
<1> QED BY <1>10, <1>11, <1>12, <1>13, <1>14 DEF Wakeup


(* The first run of a child links it to its parent.                        *)
LEMMA ForkChildEffect ==
  ASSUME Before, ForkChild
  PROVE  /\ kpc = "resume" /\ kpc' = "user"
         /\ pcb[current_process].kctx = "fork"
         /\ UNCHANGED <<Live, Ready, Blocked, Zombies, Asleep, freed,
                        current_process, proc_table>>
         /\ \A p \in PCB : /\ pcb'[p].ppid = pcb[p].ppid
                           /\ pcb'[p].children = pcb[p].children
                           /\ pcb'[p].kctx = pcb[p].kctx
                           /\ pcb'[p].exit = pcb[p].exit
                           /\ p # current_process => pcb'[p] = pcb[p]
         /\ pcb'[current_process].parent = pcb[current_process].ppid
         /\ reply' = Reply("Fork", 0, 0)
<1>1. pcb \in [PCB -> PCBType] /\ current_process \in PCB
  BY DEF Before, TypeOK
<1>2. /\ pcb' = [pcb EXCEPT ![current_process].parent = pcb[current_process].ppid]
      /\ UNCHANGED <<machine, current_process, ready_queue, blocked_queue,
                     zombie_queue, proc_table, freed>>
      /\ kpc = "resume" /\ kpc' = "user" /\ pcb[current_process].kctx = "fork"
      /\ reply' = Reply("Fork", 0, 0)
  BY DEF ForkChild, Resumes, Return
<1>3. ASSUME NEW p \in PCB
      PROVE  /\ pcb'[p].ppid = pcb[p].ppid
             /\ pcb'[p].children = pcb[p].children
             /\ pcb'[p].kctx = pcb[p].kctx
             /\ pcb'[p].exit = pcb[p].exit
             /\ pcb'[p].waiting = pcb[p].waiting
             /\ p # current_process => pcb'[p] = pcb[p]
             /\ p = current_process => pcb'[p].parent = pcb[p].ppid
  BY <1>1, <1>2, SMT DEF PCBType
<1>4. Asleep' = Asleep
  BY <1>3 DEF Asleep, SleepsInWait
<1>5. UNCHANGED <<Live, Ready, Blocked, Zombies>>
  BY <1>2 DEF Live, Ready, Blocked, Zombies
<1> QED BY <1>1, <1>2, <1>3, <1>4, <1>5

LEMMA ForkChildWakes ==
  ASSUME Before, Wakeup, ForkChild
  PROVE  Wakeup'
<1>1. /\ kpc = "resume" /\ kpc' = "user"
      /\ UNCHANGED <<Live, Ready, Blocked, Zombies, Asleep, freed,
                     current_process, proc_table>>
      /\ pcb'[current_process].parent = pcb[current_process].ppid
  BY ForkChildEffect
<1>2. \A p \in PCB : /\ pcb'[p].ppid = pcb[p].ppid
                     /\ pcb'[p].children = pcb[p].children
                     /\ pcb'[p].kctx = pcb[p].kctx
                     /\ p # current_process => pcb'[p] = pcb[p]
  BY ForkChildEffect
<1>3. \A p \in PCB : Children(p)' = Children(p)
  BY <1>2 DEF Children
<1>4. \A p \in PCB : /\ Resumable(p)' => Resumable(p)
                     /\ p # current_process /\ NotStarted(p) => NotStarted(p)'
  BY <1>1, <1>2 DEF Resumable, NotStarted, Ready
<1>5. Kin'
  <2>1. \A p \in PCB : p >= proc_table => p # current_process
    BY Apart, ConstantFacts DEF Live
  <2>2. \A p \in PCB : NoDuplicates(pcb'[p].children)
    BY <1>2 DEF Wakeup, Kin
  <2>3. \A c \in Live : pcb'[c].ppid = pcb[c].ppid
    BY <1>2, Apart
  <2> QED BY <1>1, <1>2, <1>3, <2>1, <2>2, <2>3, ConstantFacts DEF Wakeup, Kin
<1>6. Linked'
  <2>1. \A c \in PCB : pcb'[c].parent \in {NULL, pcb'[c].ppid}
    BY <1>1, <1>2 DEF Wakeup, Linked
  <2>2. ASSUME NEW c \in Live', pcb'[c].ppid \in PCB \ freed'
        PROVE  pcb'[c].parent = pcb'[c].ppid \/ NotStarted(c)'
    <3>1. CASE c = current_process
      BY <1>1, <1>2, <3>1, Apart
    <3>2. CASE c # current_process
      BY <1>1, <1>2, <1>4, <2>2, <3>2, Apart DEF Wakeup, Linked
    <3> QED BY <3>1, <3>2
  <2> QED BY <2>1, <2>2 DEF Linked
<1>7. Contexts'
  BY <1>1, <1>2, <1>4, Apart DEF Wakeup, Contexts
<1>8. \A z \in Zombies : pcb'[z].ppid = pcb[z].ppid
  BY <1>2, Apart
<1>9. Sleepers'
  BY <1>1, <1>3, <1>8, Apart DEF Wakeup, Sleepers
<1>10. Woken'
  BY <1>1, <1>2, <1>4, <1>8 DEF Wakeup, Woken
<1> QED BY <1>5, <1>6, <1>7, <1>9, <1>10 DEF Wakeup

(* A call of the clock trap's callback moves a process from the blocked    *)
(* to the ready queue, or changes no more than a countdown.                *)
LEMMA TickEffect ==
  ASSUME Before, trapHandlerHelper
  PROVE  /\ kpc = "iterate"
         /\ UNCHANGED <<kpc, Live, Zombies, Asleep, freed, current_process,
                        proc_table, reply>>
         /\ \/ UNCHANGED <<Ready, Blocked>>
            \/ \E p \in Blocked : /\ Ready' = Ready \union {p}
                                  /\ Blocked' = Blocked \ {p}
         /\ \A p \in PCB : /\ pcb'[p].ppid = pcb[p].ppid
                           /\ pcb'[p].parent = pcb[p].parent
                           /\ pcb'[p].children = pcb[p].children
                           /\ pcb'[p].kctx = pcb[p].kctx
                           /\ pcb'[p].exit = pcb[p].exit
                           /\ p >= proc_table => pcb'[p] = pcb[p]
<1> DEFINE p == Head(iter)
<1>1. /\ p \in PCB /\ p \in Blocked /\ pcb \in [PCB -> PCBType]
      /\ ready_queue \in Seq(PCB) /\ blocked_queue \in Seq(PCB)
      /\ NoDuplicates(blocked_queue)
  BY VisitedIsBlocked DEF Before, TypeOK, Placement, Ordered, trapHandlerHelper
<1>2. /\ TickIdle(p) \/ TickCounts(p) \/ TickWakes(p)
      /\ UNCHANGED <<machine, kpc, current_process, zombie_queue, proc_table,
                     freed, reply>>
      /\ kpc = "iterate"
  BY DEF trapHandlerHelper, Iterates
<1> HIDE DEF p
<1>3. \A q \in PCB : q >= proc_table => q # p
  BY <1>1, Apart, ConstantFacts DEF Live
<1>4. /\ \A q \in PCB : /\ pcb'[q].waiting = pcb[q].waiting
                        /\ pcb'[q].ppid = pcb[q].ppid
                        /\ pcb'[q].parent = pcb[q].parent
                        /\ pcb'[q].children = pcb[q].children
                        /\ pcb'[q].kctx = pcb[q].kctx
                        /\ pcb'[q].exit = pcb[q].exit
                        /\ q # p => pcb'[q] = pcb[q]
      /\ \/ UNCHANGED <<Ready, Blocked>>
         \/ Ready' = Ready \union {p} /\ Blocked' = Blocked \ {p}
  <2>1. CASE TickIdle(p)
    BY <2>1 DEF TickIdle, Ready, Blocked
  <2>2. CASE TickCounts(p)
    <3>1. /\ pcb' = [pcb EXCEPT ![p].delay = @ - 1]
          /\ UNCHANGED <<Ready, Blocked>>
      BY <2>2 DEF TickCounts, Ready, Blocked
    <3> QED BY <1>1, <3>1, SMT DEF PCBType
  <2>3. CASE TickWakes(p)
    <3>1. /\ pcb' = [pcb EXCEPT ![p].delay = 0, ![p].state = "PROC_READY"]
          /\ blocked_queue' = queueRemove(blocked_queue, p)
          /\ ready_queue' = queueEnqueue(ready_queue, p)
      BY <2>3 DEF TickWakes
    <3>2. Ready' = Ready \union {p} /\ Blocked' = Blocked \ {p}
      BY <1>1, <3>1, QueueRemoveSet, QueueEnqueueSet DEF Ready, Blocked
    <3> QED BY <1>1, <3>1, <3>2, SMT DEF PCBType
  <2> QED BY <1>2, <2>1, <2>2, <2>3
<1>5. Asleep' = Asleep
  BY <1>4 DEF Asleep, SleepsInWait
<1>6. UNCHANGED <<Live, Zombies>>
  BY <1>2 DEF Live, Zombies
<1> QED BY <1>1, <1>2, <1>3, <1>4, <1>5, <1>6

LEMMA TickWakesUp ==
  ASSUME Before, Wakeup, trapHandlerHelper
  PROVE  Wakeup'
<1>1. /\ kpc = "iterate"
      /\ UNCHANGED <<kpc, Live, Zombies, Asleep, freed, current_process,
                     proc_table>>
      /\ \/ UNCHANGED <<Ready, Blocked>>
         \/ \E p \in Blocked : /\ Ready' = Ready \union {p}
                               /\ Blocked' = Blocked \ {p}
  BY TickEffect
<1>2. \A p \in PCB : /\ pcb'[p].ppid = pcb[p].ppid
                     /\ pcb'[p].parent = pcb[p].parent
                     /\ pcb'[p].children = pcb[p].children
                     /\ pcb'[p].kctx = pcb[p].kctx
                     /\ p >= proc_table => pcb'[p] = pcb[p]
  BY TickEffect
<1>3. \A p \in PCB : Children(p)' = Children(p)
  BY <1>2 DEF Children
<1>4. /\ \A p \in PCB : Resumable(p)' =>
           Resumable(p) \/ (p \in Blocked /\ pcb[p].kctx = "delay")
      /\ Ready \subseteq Ready' /\ Blocked' \subseteq Blocked
  BY <1>1 DEF Resumable, Wakeup, Contexts
<1>5. \A p \in PCB : NotStarted(p) => NotStarted(p)'
  BY <1>1, <1>2, <1>4 DEF NotStarted, Ready
<1>6. Kin'
  <2>1. \A p \in PCB : NoDuplicates(pcb'[p].children)
    BY <1>2 DEF Wakeup, Kin
  <2>2. \A c \in Live : pcb'[c].ppid = pcb[c].ppid
    BY <1>2, Apart
  <2> QED BY <1>1, <1>2, <1>3, <2>1, <2>2, ConstantFacts DEF Wakeup, Kin
<1>7. Linked'
  BY <1>1, <1>2, <1>5, Apart DEF Wakeup, Linked
<1>8. Contexts'
  BY <1>1, <1>2, <1>4, Apart DEF Wakeup, Contexts
<1>9. \A z \in Zombies : pcb'[z].ppid = pcb[z].ppid
  BY <1>2, Apart
<1>10. Sleepers'
  BY <1>1, <1>3, <1>9, Apart DEF Wakeup, Sleepers
<1>11. Woken'
  BY <1>1, <1>2, <1>4, <1>9 DEF Wakeup, Woken
<1> QED BY <1>6, <1>7, <1>8, <1>10, <1>11 DEF Wakeup


(* deletePCB clears the parent pointers of the children, and marks them.   *)
LEMMA DeleteEffect ==
  ASSUME NEW table \in [PCB -> PCBType], NEW p \in PCB, NEW q \in PCB
  PROVE  LET t == deletePCB(table, p) IN
         /\ t[q].ppid = table[q].ppid /\ t[q].children = table[q].children
         /\ t[q].kctx = table[q].kctx /\ t[q].exit = table[q].exit
         /\ t[q].waiting = table[q].waiting
         /\ IF q \in ToSet(table[p].children) THEN t[q].parent = NULL
            ELSE t[q] = table[q]
<1>1. CASE q \notin ToSet(table[p].children)
  <2>1. deletePCB(table, p)[q] = table[q]
    BY <1>1 DEF deletePCB
  <2> QED BY <1>1, <2>1
<1>2. CASE q \in ToSet(table[p].children)
  <2>1. deletePCB(table, p)[q] = [table[q] EXCEPT !.parent = NULL,
                                                  !.state = "PROC_ORPHAN"]
    BY <1>2 DEF deletePCB
  <2> QED BY <1>2, <2>1, SMT DEF PCBType
<1> QED BY <1>1, <1>2

(* The exit of init orphans its children and frees it.                     *)
LEMMA ExitInitEffect ==
  ASSUME Before, current_process = init_proc, ExitInit
  PROVE  /\ freed' = freed \union {current_process}
         /\ Live' = Live \ {current_process}
         /\ UNCHANGED <<kpc, Ready, Blocked, Zombies, Asleep, current_process,
                        proc_table>>
         /\ reply' = NoReply
         /\ \A p \in PCB : /\ pcb'[p].ppid = pcb[p].ppid
                           /\ pcb'[p].children = pcb[p].children
                           /\ pcb'[p].kctx = pcb[p].kctx
                           /\ pcb'[p].exit = pcb[p].exit
                           /\ IF p \in Children(current_process)
                              THEN pcb'[p].parent = NULL
                              ELSE pcb'[p] = pcb[p]
<1>1. pcb \in [PCB -> PCBType] /\ current_process \in PCB
  BY DEF Before, TypeOK
<1>2. /\ pcb' = deletePCB(pcb, current_process)
      /\ freed' = freed \union {current_process}
      /\ UNCHANGED <<kpc, current_process, ready_queue, blocked_queue,
                     zombie_queue, proc_table>>
      /\ reply' = NoReply
  BY DEF ExitInit
<1>3. \A p \in PCB : /\ pcb'[p].ppid = pcb[p].ppid
                     /\ pcb'[p].children = pcb[p].children
                     /\ pcb'[p].kctx = pcb[p].kctx
                     /\ pcb'[p].exit = pcb[p].exit
                     /\ pcb'[p].waiting = pcb[p].waiting
                     /\ IF p \in Children(current_process)
                        THEN pcb'[p].parent = NULL
                        ELSE pcb'[p] = pcb[p]
  BY <1>1, <1>2, DeleteEffect DEF Children
<1>4. Asleep' = Asleep
  BY <1>3 DEF Asleep, SleepsInWait
<1>5. Live' = Live \ {current_process} /\ UNCHANGED <<Ready, Blocked, Zombies>>
  BY <1>2 DEF Live, Ready, Blocked, Zombies
<1> QED BY <1>2, <1>3, <1>4, <1>5

(* Wait takes its zombie from the zombies and from the caller's children,  *)
(* and orphans the children the zombie leaves behind.                      *)
LEMMA ReapEffect ==
  ASSUME Before, Wakeup, ZombieOf(current_process) # NULL,
         Reap(ZombieOf(current_process))
  PROVE  \E zombie \in Zombies :
           /\ pcb[zombie].ppid = current_process
           /\ freed' = freed \union {zombie} /\ Live' = Live \ {zombie}
           /\ Zombies' = Zombies \ {zombie} /\ kpc' = "user"
           /\ UNCHANGED <<Ready, Blocked, Asleep, current_process, proc_table>>
           /\ reply' = Reply("Wait", zombie, pcb[zombie].exit)
           /\ \A p \in PCB :
                /\ pcb'[p].ppid = pcb[p].ppid
                /\ pcb'[p].kctx = pcb[p].kctx
                /\ pcb'[p].exit = pcb[p].exit
                /\ Children(p)' = Children(p) \ {zombie}
                /\ NoDuplicates(pcb'[p].children)
                /\ p # current_process => pcb'[p].children = pcb[p].children
                /\ pcb'[p].parent = IF p \in Children(zombie) THEN NULL
                                    ELSE pcb[p].parent
                /\ p \notin Children(zombie) /\ p # current_process =>
                     pcb'[p] = pcb[p]
<1> DEFINE zombie == ZombieOf(current_process)
           kids == queueRemove(pcb[current_process].children, zombie)
           table == [pcb EXCEPT ![current_process].children = kids]
<1>1. /\ pcb \in [PCB -> PCBType] /\ current_process \in PCB
      /\ zombie_queue \in Seq(PCB) /\ NoDuplicates(zombie_queue)
  BY DEF Before, TypeOK, Placement, Ordered
<1>2. /\ zombie \in PCB \ freed /\ zombie \in Zombies
      /\ pcb[zombie].ppid = current_process
  BY <1>1, ZombieOfFacts DEF Zombies
<1>3. /\ zombie_queue' = queueRemove(zombie_queue, zombie)
      /\ pcb' = deletePCB(table, zombie)
      /\ freed' = freed \union {zombie} /\ kpc' = "user"
      /\ reply' = Reply("Wait", zombie, pcb[zombie].exit)
      /\ UNCHANGED <<current_process, ready_queue, blocked_queue, proc_table>>
  BY DEF Reap
<1> HIDE DEF zombie
<1>4. zombie # current_process
  BY <1>2, Apart
<1>5. /\ kids \in Seq(PCB) /\ NoDuplicates(kids)
      /\ ToSet(kids) = Children(current_process) \ {zombie}
  <2>1. pcb[current_process].children \in Seq(PCB)
    BY <1>1 DEF PCBType
  <2>2. NoDuplicates(pcb[current_process].children)
    BY <1>1 DEF Wakeup, Kin
  <2> QED BY <2>1, <2>2, QueueRemoveType, QueueRemoveSet DEF Children
<1> HIDE DEF kids
<1>6. table \in [PCB -> PCBType]
  BY <1>1, <1>5, FieldTypes
<1>7. ASSUME NEW p \in PCB
      PROVE  /\ table[p].ppid = pcb[p].ppid
             /\ table[p].waiting = pcb[p].waiting
             /\ table[p].parent = pcb[p].parent
             /\ table[p].kctx = pcb[p].kctx
             /\ table[p].exit = pcb[p].exit
             /\ table[p].children = IF p = current_process THEN kids
                                    ELSE pcb[p].children
             /\ p # current_process => table[p] = pcb[p]
  BY <1>1, SMT DEF PCBType
<1>8. ToSet(table[zombie].children) = Children(zombie)
  BY <1>2, <1>4, <1>7 DEF Children
<1> HIDE DEF table
<1>9. \A p \in PCB :
        /\ pcb'[p].ppid = table[p].ppid /\ pcb'[p].kctx = table[p].kctx
        /\ pcb'[p].exit = table[p].exit /\ pcb'[p].waiting = table[p].waiting
        /\ pcb'[p].children = table[p].children
        /\ IF p \in Children(zombie) THEN pcb'[p].parent = NULL
           ELSE pcb'[p] = table[p]
  BY <1>2, <1>3, <1>6, <1>8, DeleteEffect
<1>10. \A p \in PCB : /\ Children(p)' = Children(p) \ {zombie}
                      /\ NoDuplicates(pcb'[p].children)
  <2> SUFFICES ASSUME NEW p \in PCB
               PROVE  /\ ToSet(pcb'[p].children) = Children(p) \ {zombie}
                      /\ NoDuplicates(pcb'[p].children)
    BY DEF Children
  <2>1. CASE p = current_process
    BY <1>5, <1>7, <1>9, <2>1
  <2>2. CASE p # current_process
    <3>1. zombie \notin Children(p)
      BY <1>2, <2>2 DEF Before, Placement, Family, Children
    <3>2. ToSet(pcb'[p].children) = Children(p)
      BY <1>7, <1>9, <2>2 DEF Children
    <3>3. NoDuplicates(pcb'[p].children)
      BY <1>7, <1>9, <2>2 DEF Wakeup, Kin
    <3> QED BY <3>1, <3>2, <3>3
  <2> QED BY <2>1, <2>2
<1>11. Asleep' = Asleep
  BY <1>7, <1>9 DEF Asleep, SleepsInWait
<1>12. /\ Zombies' = Zombies \ {zombie} /\ Live' = Live \ {zombie}
       /\ UNCHANGED <<Ready, Blocked>>
  BY <1>1, <1>3, QueueRemoveSet DEF Zombies, Live, Ready, Blocked
<1>13. \A p \in PCB :
         /\ pcb'[p].ppid = pcb[p].ppid /\ pcb'[p].kctx = pcb[p].kctx
         /\ pcb'[p].exit = pcb[p].exit
         /\ p # current_process => pcb'[p].children = pcb[p].children
         /\ pcb'[p].parent = IF p \in Children(zombie) THEN NULL
                             ELSE pcb[p].parent
         /\ p \notin Children(zombie) /\ p # current_process => pcb'[p] = pcb[p]
  BY <1>7, <1>9
<1> QED BY <1>2, <1>3, <1>10, <1>11, <1>12, <1>13


LEMMA ExitInitWakes ==
  ASSUME Before, Wakeup, UserTrap, current_process = init_proc, ExitInit
  PROVE  Wakeup'
<1>1. /\ freed' = freed \union {current_process}
      /\ Live' = Live \ {current_process}
      /\ UNCHANGED <<kpc, Ready, Blocked, Zombies, Asleep, current_process,
                     proc_table>>
  BY ExitInitEffect
<1>2. \A p \in PCB : /\ pcb'[p].ppid = pcb[p].ppid
                     /\ pcb'[p].children = pcb[p].children
                     /\ pcb'[p].kctx = pcb[p].kctx
                     /\ IF p \in Children(current_process)
                        THEN pcb'[p].parent = NULL
                        ELSE pcb'[p] = pcb[p]
  BY ExitInitEffect
<1>3. \A p \in PCB : Children(p)' = Children(p)
  BY <1>2 DEF Children
<1>4. \A p \in PCB : current_process \notin Children(p)
  <2>1. ASSUME NEW p \in PCB, current_process \in Children(p) PROVE FALSE
    <3>1. pcb[current_process].ppid = p /\ pcb[current_process].ppid < current_process
      BY <2>1, Apart DEF Before, Placement, Family, Children
    <3>2. p = idle_proc
      BY <3>1, ConstantFacts DEF idle_proc, init_proc
    <3> QED BY <2>1, <3>2 DEF Wakeup, Kin
  <2> QED BY <2>1
<1>5. \A p \in PCB : /\ Resumable(p)' => Resumable(p)
                     /\ NotStarted(p) => NotStarted(p)'
  BY <1>1, <1>2 DEF Resumable, NotStarted, Ready
<1>6. Kin'
  <2>1. \A p \in PCB : NoDuplicates(pcb'[p].children)
    BY <1>2 DEF Wakeup, Kin
  <2>2. \A p, c \in PCB : c \in Children(p)' => c \notin freed'
    BY <1>1, <1>3, <1>4 DEF Wakeup, Kin
  <2>3. \A c \in Live', p \in PCB \ freed' : pcb'[c].ppid = p => c \in Children(p)'
    BY <1>1, <1>2, <1>3, Apart DEF Wakeup, Kin
  <2>4. ASSUME NEW c \in PCB, c >= proc_table PROVE pcb'[c] = allocNewPCB
    <3>1. c \notin Children(current_process)
      <4>1. c \in Children(current_process) => c < proc_table
        BY Apart DEF Before, Placement, Family, Children
      <4> QED BY <2>4, <4>1, Apart, ConstantFacts
    <3> QED BY <1>2, <2>4, <3>1 DEF Wakeup, Kin
  <2>5. Children(idle_proc)' = {}
    BY <1>3, ConstantFacts DEF Wakeup, Kin
  <2> QED BY <1>1, <2>1, <2>2, <2>3, <2>4, <2>5 DEF Kin
<1>7. Linked'
  <2>1. \A c \in PCB : pcb'[c].parent \in {NULL, pcb'[c].ppid}
    BY <1>2 DEF Wakeup, Linked
  <2>2. ASSUME NEW c \in Live', pcb'[c].ppid \in PCB \ freed'
        PROVE  pcb'[c].parent = pcb'[c].ppid \/ NotStarted(c)'
    <3>1. c \in Live /\ c \in PCB /\ pcb[c].ppid = pcb'[c].ppid
      BY <1>1, <1>2, Apart
    <3>2. pcb[c].ppid # current_process /\ pcb[c].ppid \in PCB \ freed
      BY <1>1, <2>2, <3>1
    <3>3. c \notin Children(current_process)
      BY <3>1, <3>2, Apart DEF Before, Placement, Family, Children
    <3>4. pcb[c].parent = pcb[c].ppid \/ NotStarted(c)
      BY <3>1, <3>2 DEF Wakeup, Linked
    <3> QED BY <1>2, <1>5, <3>1, <3>3, <3>4
  <2> QED BY <2>1, <2>2 DEF Linked
<1>8. Contexts'
  BY <1>1, <1>2, <1>5, Apart DEF Wakeup, Contexts
<1>9. \A z \in Zombies : pcb'[z].ppid = pcb[z].ppid
  BY <1>2, Apart
<1>10. Sleepers'
  BY <1>1, <1>3, <1>9, Apart DEF Wakeup, Sleepers
<1>11. Woken'
  BY <1>1, <1>2, <1>5, <1>9 DEF Wakeup, Woken
<1> QED BY <1>6, <1>7, <1>8, <1>10, <1>11 DEF Wakeup

LEMMA ReapWakes ==
  ASSUME Before, Wakeup, UserTrap \/ Resumes("wait"),
         ZombieOf(current_process) # NULL, Reap(ZombieOf(current_process))
  PROVE  Wakeup'
<1>1. PICK zombie \in Zombies :
        /\ pcb[zombie].ppid = current_process
        /\ freed' = freed \union {zombie} /\ Live' = Live \ {zombie}
        /\ Zombies' = Zombies \ {zombie} /\ kpc' = "user"
        /\ UNCHANGED <<Ready, Blocked, Asleep, current_process, proc_table>>
        /\ \A p \in PCB :
             /\ pcb'[p].ppid = pcb[p].ppid
             /\ pcb'[p].kctx = pcb[p].kctx
             /\ Children(p)' = Children(p) \ {zombie}
             /\ NoDuplicates(pcb'[p].children)
             /\ p # current_process => pcb'[p].children = pcb[p].children
             /\ pcb'[p].parent = IF p \in Children(zombie) THEN NULL
                                 ELSE pcb[p].parent
             /\ p \notin Children(zombie) /\ p # current_process =>
                  pcb'[p] = pcb[p]
  BY ReapEffect
<1>2. kpc = "user" \/ pcb[current_process].kctx # "fork"
  BY DEF UserTrap, InUser, Resumes
<1>3. zombie \in PCB /\ zombie # current_process
  BY Apart
<1>4. \A p \in PCB : /\ Resumable(p)' => p \in Ready /\ Resumable(p)
                     /\ NotStarted(p) => NotStarted(p)'
  BY <1>1, <1>2 DEF Resumable, NotStarted, Ready
<1>5. Kin'
  <2>1. \A p, c \in PCB : c \in Children(p)' => c \notin freed'
    BY <1>1 DEF Wakeup, Kin
  <2>2. \A c \in Live', p \in PCB \ freed' : pcb'[c].ppid = p => c \in Children(p)'
    BY <1>1, Apart DEF Wakeup, Kin
  <2>3. ASSUME NEW c \in PCB, c >= proc_table PROVE pcb'[c] = allocNewPCB
    <3>1. c \in Children(zombie) => c < proc_table
      BY <1>3 DEF Before, Placement, Family, Children
    <3>2. c \notin Children(zombie) /\ c # current_process
      BY <2>3, <3>1, Apart, ConstantFacts DEF Live
    <3> QED BY <1>1, <2>3, <3>2 DEF Wakeup, Kin
  <2>4. Children(idle_proc)' = {}
    BY <1>1, ConstantFacts DEF Wakeup, Kin
  <2> QED BY <1>1, <2>1, <2>2, <2>3, <2>4 DEF Kin
<1>6. Linked'
  <2>1. \A c \in PCB : pcb'[c].parent \in {NULL, pcb'[c].ppid}
    BY <1>1 DEF Wakeup, Linked
  <2>2. ASSUME NEW c \in Live', pcb'[c].ppid \in PCB \ freed'
        PROVE  pcb'[c].parent = pcb'[c].ppid \/ NotStarted(c)'
    <3>1. c \in Live /\ c \in PCB /\ pcb[c].ppid = pcb'[c].ppid
      BY <1>1, Apart
    <3>2. pcb[c].ppid # zombie /\ pcb[c].ppid \in PCB \ freed
      BY <1>1, <2>2, <3>1
    <3>3. c \notin Children(zombie)
      BY <1>3, <3>1, <3>2 DEF Before, Placement, Family, Children
    <3>4. pcb[c].parent = pcb[c].ppid \/ NotStarted(c)
      BY <3>1, <3>2 DEF Wakeup, Linked
    <3> QED BY <1>1, <1>4, <3>1, <3>3, <3>4
  <2> QED BY <2>1, <2>2 DEF Linked
<1>7. Contexts'
  BY <1>1, <1>4, Apart DEF Wakeup, Contexts
<1>8. \A z \in Zombies : pcb'[z].ppid = pcb[z].ppid
  BY <1>1, Apart
<1>9. Sleepers'
  <2>1. ASSUME NEW p \in Asleep PROVE \E c \in PCB : c \in Children(p)'
    <3>1. p # current_process /\ p \in PCB
      BY Apart
    <3>2. zombie \notin Children(p)
      BY <1>1, <1>3, <3>1 DEF Before, Placement, Family, Children
    <3> QED BY <1>1, <3>1, <3>2 DEF Wakeup, Sleepers
  <2> QED BY <1>1, <1>8, <2>1 DEF Wakeup, Sleepers
<1>10. Woken'
  <2>1. ASSUME NEW p \in PCB, Resumable(p)', pcb'[p].kctx = "wait"
        PROVE  \E z \in Zombies' : pcb'[z].ppid = p
    <3>1. p \in Ready /\ Resumable(p) /\ pcb[p].kctx = "wait" /\ p # current_process
      BY <1>1, <1>4, <2>1, Apart
    <3>2. PICK z \in Zombies : pcb[z].ppid = p
      BY <3>1 DEF Wakeup, Woken
    <3> QED BY <1>1, <1>8, <3>1, <3>2
  <2> QED BY <2>1 DEF Woken
<1> QED BY <1>5, <1>6, <1>7, <1>9, <1>10 DEF Wakeup


-----------------------------------------------------------------------------
(* Every step that commits no fault keeps the families and the sleepers.   *)
LEMMA ProcNextWakes ==
  ASSUME WakeupInv, ProcNext, Sane'
  PROVE  Wakeup'
<1>1. Sane
  BY FaultsGrow DEF Sane
<1>2. Before /\ Wakeup
  BY <1>1, FaultsGrow DEF Before, WakeupInv, PlacementInv
<1>3. ASSUME Undefined PROVE FALSE
  BY <1>3 DEF Undefined, Sane
<1>4. Placement'
  BY ProcNextPlaces DEF WakeupInv, PlacementInv
<1>5. CASE ExitSyscall \/ MemoryTrapHandler \/ FatalTrapHandler
  <2>1. /\ UserTrap
        /\ \E status \in Statuses \union {ERROR}, label \in {"exit", "killed"} :
             Exit(status, label)
    BY <1>5, Zenon DEF ExitSyscall, MemoryTrapHandler, FatalTrapHandler
  <2>2. PICK status \in Statuses \union {ERROR}, label \in {"exit", "killed"} :
          Exit(status, label)
    BY <2>1
  <2>3. status \in Int
    BY ArgumentsAssumption DEF ERROR
  <2>4. CASE current_process = init_proc /\ ExitInit
    BY <1>2, <2>1, <2>4, ExitInitWakes
  <2>5. CASE Undefined
    BY <1>3, <2>5
  <2>6. CASE /\ zombie_queue' = queueEnqueue(zombie_queue, current_process)
             /\ ExitWake(status, label) \/ ExitQuietly(status, label)
             /\ UNCHANGED <<blocked_queue, proc_table, freed, iter>>
    BY <1>2, <1>4, <2>1, <2>3, <2>6, ExitWakes
  <2> QED BY <2>2, <2>4, <2>5, <2>6 DEF Exit
<1>6. CASE \E n \in Ticks : DelayBlocks(n)
  BY <1>2, <1>4, <1>6, DelayWakes, ArgumentsAssumption
<1>7. CASE \/ ForkTableFull \/ ForkNoFrames \/ FatalTrapReturns
           \/ \E n \in Ticks : DelayHalts(n)
  BY <1>2, <1>7, QuietWakes
  DEF ForkTableFull, ForkNoFrames, FatalTrapReturns, DelayHalts, Halt
<1>8. CASE ForkChildUndefined \/ TickUndefined \/ WaitUndefined
  BY <1>3, <1>8 DEF ForkChildUndefined, TickUndefined, WaitUndefined
<1>9. CASE Fork \/ ForkChild
  BY <1>2, <1>9, ForkWakes, ForkChildWakes
<1>10. CASE WaitReaps \/ (WaitResumes /\ ZombieOf(current_process) # NULL)
  BY <1>2, <1>10, ReapWakes DEF WaitReaps, WaitResumes
<1>11. CASE WaitNoChildren \/ (WaitResumes /\ ZombieOf(current_process) = NULL)
  BY <1>2, <1>11, QuietWakes
  DEF WaitNoChildren, WaitResumes, WaitFails, Return, UserTrap, InUser, Resumes
<1>12. CASE WaitBlocks
  BY <1>2, <1>4, <1>12, WaitBlocksWakes
<1>13. CASE trapHandlerHelper \/ ClockSwitches
  BY <1>2, <1>4, <1>13, TickWakesUp, ClockWakes
<1>14. CASE GetPid \/ StackGrows \/ \E n \in Ticks : DelayZero(n)
  BY <1>2, <1>14, QuietWakes
  DEF GetPid, StackGrows, DelayZero, Return, UserTrap, InUser
<1>15. CASE DelayResumes \/ ExitReturns
  BY <1>2, <1>15, QuietWakes DEF DelayResumes, ExitReturns, Return, Resumes
<1>16. CASE ClockTrapHandler \/ ClockReturns \/ ClockResumes
  BY <1>2, <1>16, QuietWakes
  DEF ClockTrapHandler, ClockReturns, ClockResumes, InUser, Resumes
<1> QED BY <1>5, <1>6, <1>7, <1>8, <1>9, <1>10, <1>11, <1>12, <1>13, <1>14,
           <1>15, <1>16 DEF ProcNext, Syscall, Fault, KernelStep

(* The invariant of the wake-ups is inductive.                             *)
LEMMA WakeupStep == WakeupInv /\ [Next]_procVars => WakeupInv'
<1> SUFFICES ASSUME WakeupInv, [Next]_procVars PROVE WakeupInv'
  OBVIOUS
<1>1. CASE UNCHANGED procVars
  <2>1. PlacementInv'
    BY <1>1, PlacementStep DEF WakeupInv
  <2>2. ASSUME Sane' PROVE Wakeup'
    <3>1. UNCHANGED <<machine, faults, kpc, current_process, ready_queue,
                      blocked_queue, zombie_queue, proc_table, pcb, freed>>
      BY <1>1 DEF procVars
    <3>2. Wakeup
      BY <2>2, <3>1 DEF WakeupInv, Sane
    <3> QED BY <3>1, <3>2, QuietWakes
  <2> QED BY <2>1, <2>2 DEF WakeupInv
<1>2. CASE ProcNext
  BY <1>2, ProcNextWakes, PlacementStep DEF WakeupInv
<1> QED BY <1>1, <1>2 DEF Next, Stopped

LEMMA WakeupInductive == Spec => []WakeupInv
<1>1. Init => WakeupInv
  BY WakeupInit, PlacementStart DEF WakeupInv
<1> QED BY <1>1, WakeupStep, PTL DEF Spec

(* Whatever the number of processes, and until the first wrong wake-up or  *)
(* use of freed memory: nobody sleeps in Wait next to a zombie of its own, *)
(* and every sleeper has a child still to exit whose parent pointer Exit   *)
(* will follow to wake it.  Wait tests for zombies and goes to sleep in    *)
(* one handler, and ForkChild sets the pointer before the child can exit.  *)
THEOREM NoWakeupLost == Spec => []NoLostWakeup
<1>1. WakeupInv => NoLostWakeup
  BY WakeupImplies
<1> QED BY <1>1, WakeupInductive, PTL

(* The parent Exit has put in the ready queue finds its zombie when it     *)
(* runs, whatever ran in between: nobody but the parent itself reaps it.   *)
(* The second scan of Wait therefore never fails.                          *)
THEOREM WaiterReaps == Spec => []WokenWaiterReaps
<1>1. WakeupInv => WokenWaiterReaps
  BY WakeupImplies
<1> QED BY <1>1, WakeupInductive, PTL
=============================================================================
