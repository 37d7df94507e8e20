-------------------------- MODULE Terminals_proofs --------------------------
(***************************************************************************)
(* The terminals, for any number of terminals and processes and any        *)
(* lengths: proofs of TtyTypeOK, OneWriter, WritersAreWoken,               *)
(* ReadersAreServed and InputIsConserved, and of NoProcessTwice and        *)
(* NoProcessLost for the kernel with terminals.                            *)
(*                                                                         *)
(* They are proved together.  The steps of module Processes are summed up  *)
(* in one lemma: they move nobody who sleeps in a terminal call, and       *)
(* nobody who was woken from one, because the clock trap wakes only        *)
(* processes in Delay and Exit wakes only processes in Wait (Labels).      *)
(* What a terminal's structure says about such processes is then a matter  *)
(* of the terminal steps alone.                                            *)
(***************************************************************************)
EXTENDS Kernel, Wakeup_proofs

(* The sleepers in TtyRead, at the lock of a terminal, and in TtyWrite.    *)
Readers == {p \in Blocked : pcb[p].kctx = "ttyread"}
LockWaiters == {p \in Blocked : pcb[p].kctx = "ttylock"}
Writers == {p \in Blocked : pcb[p].kctx = "ttywrite"}

(* The processes woken in TtyRead, and at a lock, that have not run yet.   *)
WokenReaders == {p \in PCB : Resumable(p) /\ pcb[p].kctx = "ttyread"}
Takers == {p \in PCB : Resumable(p) /\ pcb[p].kctx = "ttylock"}

(* Nobody else's kernel context and countdown can be those of a sleeper in *)
(* a terminal call.                                                        *)
Labels ==
  /\ \A p \in Asleep : pcb[p].kctx = "wait"
  /\ pcb[idle_proc].kctx \in {"boot", "clock"}
  /\ \A p \in PCB : pcb[p].delay > 0 => p \in Blocked /\ pcb[p].kctx = "delay"

(* The types, and that what is in a buffer was typed.                      *)
Byte == 1 .. MaxTyped

StrongTerminalType ==
  [blocked_readers : Seq(PCB), blocked_writers : Seq(PCB),
   read_buffer : Seq(Byte), write_len : Nat, write_pos : Nat,
   current_writer : PCB \union {NULL}, in_use : BOOLEAN]

StrongIoType ==
  [read_len : Nat, read_buf : Seq(Byte), regs0 : Int, tty : Terminal, len : Nat]

DeviceType == [busy : BOOLEAN, typed : 0 .. MaxTyped, delivered : SUBSET Byte]

StrongTypeOK ==
  /\ terminals \in [Terminal -> StrongTerminalType]
  /\ \A t \in Terminal : Len(terminals[t].read_buffer) <= MaxLine
  /\ io \in [PCB -> StrongIoType]
  /\ device \in [Terminal -> DeviceType]
  /\ rx \in Terminal
  /\ failures \in Nat

(* Only the terminal whose receive trap is being handled can have both     *)
(* input and a reader that waits for it.                                   *)
Served ==
  \A t \in Terminal : kpc # "receive" \/ t # rx =>
    is_empty(terminals[t].blocked_readers) \/ is_empty(terminals[t].read_buffer)

(* Who sleeps in a call of terminal t is where t looks for it.             *)
QueuedAt(t) ==
  /\ NoDuplicates(terminals[t].blocked_readers)
  /\ NoDuplicates(terminals[t].blocked_writers)
  /\ \A p \in PCB : p \in ToSet(terminals[t].blocked_readers) <=>
                      p \in Readers /\ io[p].tty = t
  /\ \A p \in PCB : p \in ToSet(terminals[t].blocked_writers) <=>
                      p \in LockWaiters /\ io[p].tty = t
  /\ \A p \in PCB : terminals[t].current_writer = p <=>
                      p \in Writers /\ io[p].tty = t

Owner(p, t) == terminals[t].current_writer = p \/ (p \in Takers /\ io[p].tty = t)

(* The lock of terminal t.                                                 *)
Locked(t) ==
  /\ \A p, q \in PCB : Owner(p, t) /\ Owner(q, t) => p = q
  /\ terminals[t].in_use <=> \E p \in PCB : Owner(p, t)
  /\ ~is_empty(terminals[t].blocked_writers) => terminals[t].in_use
  /\ device[t].busy <=> terminals[t].current_writer # NULL

(* A kernel buffer with input belongs to a reader that will unpack it.     *)
Stash == \A p \in PCB : io[p].read_buf # << >> =>
                          p \in WokenReaders /\ io[p].regs0 > 0

(* The input of terminal t.                                                *)
Conserved(t) ==
  LET buffer == terminals[t].read_buffer
      gone == device[t].typed - Len(buffer)
  IN  /\ \A i \in DOMAIN buffer : buffer[i] = gone + i
      /\ Stashed(t) \union device[t].delivered = 1 .. gone
      /\ Stashed(t) \intersect device[t].delivered = {}
      /\ \A p, q \in PCB : p # q /\ io[p].tty = t /\ io[q].tty = t =>
           ToSet(io[p].read_buf) \intersect ToSet(io[q].read_buf) = {}

TtyWaits == \A t \in Terminal : QueuedAt(t) /\ Locked(t)

TtyInput == Stash /\ \A t \in Terminal : Conserved(t)

(* The inductive invariant.                                                *)
KernelInv ==
  /\ PlacementInv /\ StrongTypeOK /\ Served
  /\ Sane => Labels /\ TtyWaits /\ TtyInput


-----------------------------------------------------------------------------
(* The invariant says what the checked properties say.                     *)
LEMMA TerminalFacts ==
  /\ 0 \in Terminal /\ Terminal \subseteq Nat
  /\ MaxLine \in Nat \ {0} /\ MaxTyped \in Nat /\ MaxHeapFailures \in Nat
  /\ ReadLens \subseteq Nat \ {0} /\ WriteLens \subseteq Nat \ {0}
BY TerminalAssumption DEF Terminal

LEMMA KernelImpliesType == KernelInv => TtyTypeOK
<1> SUFFICES ASSUME KernelInv PROVE TtyTypeOK
  OBVIOUS
<1>1. StrongTypeOK
  BY DEF KernelInv
<1>2. Byte \subseteq Nat
  BY DEF Byte
<1>3. Seq(Byte) \subseteq Seq(Nat)
  BY <1>2, SeqMonotonic
<1>4. StrongTerminalType \subseteq TerminalType
  BY <1>3 DEF StrongTerminalType, TerminalType
<1>5. StrongIoType \subseteq IoType
  BY <1>3 DEF StrongIoType, IoType
<1>6. \A t \in Terminal : device[t] \in DeviceType
  BY <1>1 DEF StrongTypeOK
<1>7. \A t \in Terminal : /\ device[t].busy \in BOOLEAN
                          /\ device[t].typed \in 0 .. MaxTyped
                          /\ device[t].delivered \subseteq 1 .. MaxTyped
  BY <1>6 DEF DeviceType, Byte
<1>8. terminals \in [Terminal -> TerminalType] /\ io \in [PCB -> IoType]
  BY <1>1, <1>4, <1>5 DEF StrongTypeOK
<1> QED BY <1>1, <1>7, <1>8 DEF StrongTypeOK, TtyTypeOK

LEMMA KernelImpliesServed == KernelInv => ReadersAreServed
<1> SUFFICES ASSUME KernelInv PROVE ReadersAreServed
  OBVIOUS
<1>1. kpc # "receive" => \A t \in Terminal :
        ~is_empty(terminals[t].blocked_readers)
        => is_empty(terminals[t].read_buffer)
  BY DEF KernelInv, Served
<1>2. ASSUME Sane, NEW p \in PCB
      PROVE  Sleeps(p, "ttyread") <=>
               p \in ToSet(terminals[io[p].tty].blocked_readers)
  <2>1. io[p].tty \in Terminal
    BY DEF KernelInv, StrongTypeOK, StrongIoType
  <2>2. QueuedAt(io[p].tty)
    BY <1>2, <2>1 DEF KernelInv, TtyWaits
  <2> QED BY <2>2 DEF QueuedAt, Sleeps, Readers, Blocked
<1> QED BY <1>1, <1>2 DEF ReadersAreServed

LEMMA KernelImpliesWaits == KernelInv => OneWriter /\ WritersAreWoken
<1> SUFFICES ASSUME KernelInv, Sane PROVE OneWriter /\ WritersAreWoken
  BY DEF OneWriter, WritersAreWoken
<1>1. TtyWaits /\ \A p \in PCB : io[p].tty \in Terminal
  BY DEF KernelInv, StrongTypeOK, StrongIoType
<1>2. \A t \in Terminal, p \in PCB : p \in Owners(t) <=> Owner(p, t)
  BY DEF Owners, Owner, TakesOver, Takers, Resumable, Ready
<1>3. OneWriter
  <2> SUFFICES ASSUME NEW t \in Terminal
               PROVE  /\ \A p, q \in Owners(t) : p = q
                      /\ terminals[t].in_use <=> Owners(t) # {}
                      /\ ~is_empty(terminals[t].blocked_writers)
                           => terminals[t].in_use
                      /\ device[t].busy <=> terminals[t].current_writer # NULL
    BY DEF OneWriter
  <2>1. Locked(t) /\ Owners(t) \subseteq PCB
    BY <1>1 DEF TtyWaits, Owners
  <2>2. terminals[t].in_use <=> Owners(t) # {}
    BY <1>2, <2>1, Zenon DEF Locked
  <2> QED BY <1>2, <2>1, <2>2, Zenon DEF Locked
<1>4. WritersAreWoken
  <2> SUFFICES ASSUME NEW p \in PCB
               PROVE  /\ Sleeps(p, "ttywrite") =>
                           /\ terminals[io[p].tty].current_writer = p
                           /\ device[io[p].tty].busy
                      /\ Sleeps(p, "ttylock") <=> \E t \in Terminal :
                           p \in ToSet(terminals[t].blocked_writers)
    BY DEF WritersAreWoken
  <2>1. /\ \A t \in Terminal : QueuedAt(t) /\ Locked(t)
        /\ io[p].tty \in Terminal /\ p # NULL
    BY <1>1, ConstantFacts DEF TtyWaits
  <2>2. Sleeps(p, "ttywrite") => /\ terminals[io[p].tty].current_writer = p
                                 /\ device[io[p].tty].busy
    BY <2>1 DEF QueuedAt, Locked, Sleeps, Writers, Blocked
  <2>3. \A t \in Terminal : p \in ToSet(terminals[t].blocked_writers) <=>
                              Sleeps(p, "ttylock") /\ io[p].tty = t
    BY <2>1 DEF QueuedAt, Sleeps, LockWaiters, Blocked
  <2> QED BY <2>1, <2>2, <2>3, Zenon
<1> QED BY <1>3, <1>4

LEMMA KernelImpliesInput == KernelInv => InputIsConserved
BY Zenon DEF KernelInv, TtyInput, Conserved, InputIsConserved

-----------------------------------------------------------------------------
(* After the boot no terminal is in use.                                   *)
LEMMA KernelStart == KernelInit => KernelInv
<1> SUFFICES ASSUME KernelInit PROVE KernelInv
  OBVIOUS
<1>1. Init /\ TtyInit
  BY DEF KernelInit
<1>2. PlacementInv /\ Wakeup
  BY <1>1, PlacementStart, WakeupInit
<1>3. /\ \A p \in PCB : pcb[p].kctx = "boot" /\ pcb[p].delay = 0
      /\ Blocked = {} /\ kpc = "user"
  BY <1>1 DEF Init, allocNewPCB, Blocked, ToSet
<1>4. StrongTypeOK
  <2>1. << >> \in Seq(PCB) /\ << >> \in Seq(Byte) /\ Len(<< >>) = 0
    OBVIOUS
  <2>2. [busy |-> FALSE, typed |-> 0, delivered |-> {}] \in DeviceType
    BY TerminalFacts DEF DeviceType
  <2>3. device \in [Terminal -> DeviceType]
    BY <1>1, <2>2 DEF TtyInit
  <2>4. io \in [PCB -> StrongIoType]
    BY <1>1, <2>1, TerminalFacts DEF TtyInit, StrongIoType
  <2>5. terminals \in [Terminal -> StrongTerminalType]
    BY <1>1, <2>1 DEF TtyInit, StrongTerminalType
  <2>6. \A t \in Terminal : Len(terminals[t].read_buffer) <= MaxLine
    BY <1>1, <2>1, TerminalFacts DEF TtyInit
  <2> QED BY <1>1, <2>3, <2>4, <2>5, <2>6, TerminalFacts DEF StrongTypeOK, TtyInit
<1>5. \A t \in Terminal :
        /\ terminals[t].blocked_readers = << >>
        /\ terminals[t].blocked_writers = << >>
        /\ terminals[t].read_buffer = << >>
        /\ terminals[t].current_writer = NULL /\ ~terminals[t].in_use
        /\ ~device[t].busy /\ device[t].typed = 0 /\ device[t].delivered = {}
  BY <1>1 DEF TtyInit
<1>6. \A p \in PCB : io[p].read_buf = << >>
  BY <1>1 DEF TtyInit
<1>7. Served
  BY <1>5 DEF Served, is_empty
<1>8. Labels
  BY <1>2, <1>3, ConstantFacts DEF Wakeup, Contexts, Labels
<1>9. Readers = {} /\ LockWaiters = {} /\ Writers = {} /\ Takers = {}
  BY <1>3 DEF Readers, LockWaiters, Writers, Takers
<1>10. ASSUME NEW t \in Terminal PROVE QueuedAt(t) /\ Locked(t)
  <2>1. ToSet(<< >>) = {} /\ NoDuplicates(<< >>)
    BY DEF ToSet, NoDuplicates
  <2>2. QueuedAt(t)
    BY <1>5, <1>9, <2>1, ConstantFacts DEF QueuedAt
  <2>3. Locked(t)
    BY <1>5, <1>9, ConstantFacts DEF Locked, Owner, is_empty
  <2> QED BY <2>2, <2>3
<1>11. ASSUME NEW t \in Terminal PROVE Conserved(t)
  <2>1. ToSet(<< >>) = {} /\ DOMAIN << >> = {}
    BY DEF ToSet
  <2>2. Stashed(t) = {}
    BY <1>6, <2>1 DEF Stashed
  <2>3. 1 .. 0 = {} /\ Len(<< >>) = 0 /\ 0 - 0 = 0
    OBVIOUS
  <2>4. /\ terminals[t].read_buffer = << >> /\ device[t].delivered = {}
        /\ device[t].typed - Len(terminals[t].read_buffer) = 0
    BY <1>5, <2>3
  <2>5. \A p \in PCB : ToSet(io[p].read_buf) = {}
    BY <1>6, <2>1
  <2> QED BY <2>1, <2>2, <2>3, <2>4, <2>5, Zenon DEF Conserved
<1>12. Stash
  BY <1>6 DEF Stash
<1> QED BY <1>2, <1>4, <1>7, <1>8, <1>10, <1>11, <1>12
        DEF KernelInv, TtyWaits, TtyInput


-----------------------------------------------------------------------------
(* The steps of module Processes.                                          *)

TtyLabel == {"ttyread", "ttylock", "ttywrite"}

(* Nobody falls asleep in a terminal call, is woken from one or goes on    *)
(* after one.                                                              *)
TtyStill == UNCHANGED <<Readers, LockWaiters, Writers, WokenReaders, Takers>>

(* A switch of the CPU changes no countdown.                               *)
LEMMA SwitchKeepsDelay ==
  ASSUME TypeOK, NEW label, NEW ready \in Seq(PCB),
         NEW table \in [PCB -> PCBType], SwitchToNext(label, ready, table)
  PROVE  \A p \in PCB : pcb'[p].delay = table[p].delay
<1>1. PICK next \in PCB : KCSwitch(label, next, table)
  <2>1. CASE is_empty(ready)
    BY <2>1, ConstantFacts DEF SwitchToNext
  <2>2. CASE ~is_empty(ready)
    BY <2>2, QueueDequeueSet DEF SwitchToNext
  <2> QED BY <2>1, <2>2
<1>2. pcb' = [table EXCEPT ![current_process].kctx = label,
                           ![next].state = "PROC_RUNNING"]
  BY <1>1 DEF KCSwitch
<1> SUFFICES ASSUME NEW p \in PCB PROVE pcb'[p].delay = table[p].delay
  OBVIOUS
<1> QED BY <1>2, SMT DEF PCBType

(* The handlers that give up the CPU change no countdown, but Delay.       *)
LEMMA LeaveKeepsDelay ==
  ASSUME Before, NEW status \in Int, NEW label,
         WaitBlocks \/ ClockSwitches \/ ExitWake(status, label)
           \/ ExitQuietly(status, label)
  PROVE  \A p \in PCB : pcb'[p].delay = pcb[p].delay
<1>1. /\ TypeOK /\ pcb \in [PCB -> PCBType] /\ current_process \in PCB
      /\ ready_queue \in Seq(PCB)
  BY DEF Before, TypeOK
<1>2. CASE WaitBlocks
  <2> DEFINE t1 == [pcb EXCEPT ![current_process].state = "PROC_BLOCKED"]
             table == [t1 EXCEPT ![current_process].waiting = 1]
  <2>1. table \in [PCB -> PCBType]
    <3>1. t1 \in [PCB -> PCBType]
      BY <1>1, FieldTypes DEF ProcState
    <3> QED BY <1>1, <3>1, FieldTypes
  <2>2. ASSUME NEW p \in PCB PROVE table[p].delay = pcb[p].delay
    BY <1>1, SMT DEF PCBType
  <2>3. SwitchToNext("wait", ready_queue, table)
    BY <1>2 DEF WaitBlocks
  <2> HIDE DEF table
  <2> QED BY <1>1, <2>1, <2>2, <2>3, SwitchKeepsDelay
<1>3. CASE ClockSwitches
  <2> DEFINE table == IF Requeues
                      THEN [pcb EXCEPT ![current_process].state = "PROC_READY"]
                      ELSE pcb
             next == queueFront(ready_queue)
  <2>1. /\ KCSwitch("clock", next, table) /\ ~is_empty(ready_queue)
    BY <1>3 DEF ClockSwitches
  <2>2. next \in PCB
    BY <1>1, <2>1, QueueDequeueSet
  <2>3. table \in [PCB -> PCBType]
    BY <1>1, FieldTypes DEF ProcState
  <2>4. ASSUME NEW p \in PCB PROVE table[p].delay = pcb[p].delay
    BY <1>1, SMT DEF PCBType
  <2>5. pcb' = [table EXCEPT ![current_process].kctx = "clock",
                             ![next].state = "PROC_RUNNING"]
    BY <2>1 DEF KCSwitch
  <2> HIDE DEF table, next
  <2>6. ASSUME NEW p \in PCB PROVE pcb'[p].delay = table[p].delay
    BY <1>1, <2>2, <2>3, <2>5, SMTT(30) DEF PCBType
  <2> QED BY <2>4, <2>6
<1>4. /\ Exited(status) \in [PCB -> PCBType]
      /\ \A p \in PCB : Exited(status)[p].delay = pcb[p].delay
  <2>1. Exited(status) \in [PCB -> PCBType]
    BY <1>1, ExitedFacts
  <2>2. ASSUME NEW p \in PCB PROVE Exited(status)[p].delay = pcb[p].delay
    BY <1>1, SMT DEF Exited, PCBType
  <2> QED BY <2>1, <2>2
<1>5. CASE ExitQuietly(status, label)
  BY <1>1, <1>4, <1>5, SwitchKeepsDelay DEF ExitQuietly
<1>6. CASE ExitWake(status, label)
  <2> DEFINE parent == pcb[current_process].parent
             t0 == Exited(status)
             t1 == [t0 EXCEPT ![parent].state = "PROC_READY"]
             table == [t1 EXCEPT ![parent].waiting = 0]
             ready == queueEnqueue(ready_queue, parent)
  <2>1. SwitchToNext(label, ready, table) /\ parent # NULL
    BY <1>6 DEF ExitWake
  <2>2. parent \in PCB
    BY <1>1, <2>1 DEF PCBType
  <2> HIDE DEF t0, parent
  <2>3. t0 \in [PCB -> PCBType] /\ \A p \in PCB : t0[p].delay = pcb[p].delay
    BY <1>4 DEF t0
  <2>4. table \in [PCB -> PCBType]
    <3>1. t1 \in [PCB -> PCBType]
      BY <2>2, <2>3, FieldTypes DEF ProcState
    <3> QED BY <2>2, <3>1, FieldTypes
  <2>5. ASSUME NEW p \in PCB PROVE table[p].delay = pcb[p].delay
    <3>1. table[p].delay = t0[p].delay
      BY <2>2, <2>3, SMT DEF PCBType
    <3> QED BY <2>3, <3>1
  <2>6. ready \in Seq(PCB)
    BY <1>1, <2>2, QueueEnqueueSet
  <2> HIDE DEF table, ready
  <2> QED BY <1>1, <2>1, <2>4, <2>5, <2>6, SwitchKeepsDelay
<1> QED BY <1>2, <1>3, <1>5, <1>6

(* A handler that gives up the CPU, and is not a terminal call, leaves the *)
(* terminal calls alone.                                                   *)
LEMMA LeaveIsStill ==
  ASSUME Before, Labels, kpc # "resume", NEW ready, NEW label,
         Leaves(ready, label), label \notin TtyLabel,
         Ready \subseteq ready,
         ready \subseteq Ready \union Asleep \union {current_process},
         Blocked \subseteq Blocked', Blocked' \subseteq Blocked \union {current_process},
         \A p \in Asleep' : p \in Asleep \/ (p = current_process /\ label = "wait"),
         current_process = idle_proc => label = "clock",
         \A p \in PCB : pcb'[p].delay > 0 =>
           \/ pcb[p].delay > 0
           \/ p = current_process /\ label = "delay" /\ p \in Blocked'
  PROVE  TtyStill /\ Labels'
<1>1. /\ current_process \in PCB /\ current_process \notin Blocked
      /\ current_process \notin Asleep /\ Blocked \subseteq PCB
      /\ Ready \subseteq PCB /\ idle_proc \in PCB
      /\ Asleep \subseteq PCB /\ idle_proc \notin Ready /\ idle_proc \notin Asleep
      /\ Ready \intersect Blocked = {} /\ current_process \notin Ready
  BY Apart
<1>2. \A p \in PCB : pcb'[p].kctx = IF p = current_process THEN label
                                    ELSE pcb[p].kctx
  BY DEF Leaves
<1>3. \A p \in PCB : Resumable(p)' <=> p \in ready \/ (ready = {} /\ p = idle_proc)
  BY DEF Leaves, Resumable
<1>4. \A p \in PCB : Resumable(p) <=> p \in Ready
  BY DEF Resumable
<1>5. ASSUME NEW p \in PCB, NEW l \in TtyLabel
      PROVE  /\ p \in Blocked' /\ pcb'[p].kctx = l <=>
                  p \in Blocked /\ pcb[p].kctx = l
             /\ Resumable(p)' /\ pcb'[p].kctx = l <=>
                  Resumable(p) /\ pcb[p].kctx = l
  <2>1. CASE p = current_process
    BY <1>1, <1>2, <1>4, <2>1
  <2>2. CASE p # current_process
    <3>1. pcb'[p].kctx = pcb[p].kctx /\ (p \in Blocked' <=> p \in Blocked)
      BY <1>2, <2>2
    <3>2. p \in Asleep \/ p = idle_proc => pcb[p].kctx # l
      BY DEF Labels, TtyLabel
    <3> QED BY <1>3, <1>4, <2>2, <3>1, <3>2
  <2> QED BY <2>1, <2>2
<1>6. TtyStill
  <2>1. /\ "ttyread" \in TtyLabel /\ "ttylock" \in TtyLabel
        /\ "ttywrite" \in TtyLabel
    BY DEF TtyLabel
  <2>2. Blocked' \subseteq PCB
    BY <1>1
  <2>3. Readers' = Readers
    BY <1>1, <1>5, <2>1, <2>2 DEF Readers
  <2>4. LockWaiters' = LockWaiters
    BY <1>1, <1>5, <2>1, <2>2 DEF LockWaiters
  <2>5. Writers' = Writers
    BY <1>1, <1>5, <2>1, <2>2 DEF Writers
  <2>6. WokenReaders' = WokenReaders /\ Takers' = Takers
    BY <1>5, <2>1 DEF WokenReaders, Takers
  <2> QED BY <2>3, <2>4, <2>5, <2>6 DEF TtyStill
<1>7. Labels'
  <2>1. \A p \in Asleep' : pcb'[p].kctx = "wait"
    BY <1>1, <1>2 DEF Labels
  <2>2. pcb'[idle_proc].kctx \in {"boot", "clock"}
    BY <1>1, <1>2 DEF Labels
  <2>3. ASSUME NEW p \in PCB, pcb'[p].delay > 0
        PROVE  p \in Blocked' /\ pcb'[p].kctx = "delay"
    <3>1. CASE pcb[p].delay > 0
      BY <1>1, <1>2, <3>1 DEF Labels
    <3>2. CASE ~(pcb[p].delay > 0)
      BY <1>2, <2>3, <3>2
    <3> QED BY <3>1, <3>2
  <2> QED BY <2>1, <2>2, <2>3 DEF Labels
<1> QED BY <1>6, <1>7


(* A step after which the same process runs: it may wake the processes in  *)
(* woken, none of which is in a terminal call.                             *)
Stays(woken) ==
  /\ woken \subseteq PCB
  /\ current_process' = current_process /\ current_process \notin woken
  /\ \/ kpc' = kpc
     \/ /\ kpc' # "resume"
        /\ kpc = "resume" => pcb[current_process].kctx \notin TtyLabel
  /\ Ready' = Ready \union woken /\ Blocked' = Blocked \ woken
  /\ Asleep' = Asleep
  /\ \A p \in woken : /\ p \in Blocked => pcb[p].kctx \notin TtyLabel
                      /\ p \notin Ready /\ p \notin Asleep /\ p # idle_proc
                      /\ pcb'[p].kctx \notin TtyLabel
                      /\ ~(pcb'[p].delay > 0)
  /\ \A p \in PCB \ woken : /\ pcb'[p].kctx = pcb[p].kctx
                            /\ pcb'[p].delay > 0 => pcb[p].delay > 0

(* It leaves the terminal calls alone, too.                                *)
LEMMA StayIsStill ==
  ASSUME Before, Labels, NEW woken, Stays(woken)
  PROVE  TtyStill /\ Labels'
<1>1. Blocked \subseteq PCB /\ idle_proc \in PCB /\ Asleep \subseteq PCB
  BY Apart
<1>2. ASSUME NEW p \in PCB, NEW l \in TtyLabel
      PROVE  /\ p \in Blocked' /\ pcb'[p].kctx = l <=>
                  p \in Blocked /\ pcb[p].kctx = l
             /\ Resumable(p)' /\ pcb'[p].kctx = l <=>
                  Resumable(p) /\ pcb[p].kctx = l
  <2>1. CASE p \in woken
    <3>1. pcb'[p].kctx # l /\ ~Resumable(p)
      BY <2>1 DEF Stays, Resumable
    <3> QED BY <2>1, <3>1 DEF Stays
  <2>2. CASE p \notin woken
    <3>1. /\ p \in Blocked' <=> p \in Blocked
          /\ p \in Ready' <=> p \in Ready
          /\ pcb'[p].kctx = pcb[p].kctx
      BY <2>2 DEF Stays
    <3> QED BY <3>1 DEF Stays, Resumable
  <2> QED BY <2>1, <2>2
<1>3. TtyStill
  <2>1. /\ "ttyread" \in TtyLabel /\ "ttylock" \in TtyLabel
        /\ "ttywrite" \in TtyLabel
    BY DEF TtyLabel
  <2>2. Blocked' \subseteq PCB
    BY <1>1 DEF Stays
  <2>3. Readers' = Readers
    BY <1>1, <1>2, <2>1, <2>2 DEF Readers
  <2>4. LockWaiters' = LockWaiters
    BY <1>1, <1>2, <2>1, <2>2 DEF LockWaiters
  <2>5. Writers' = Writers
    BY <1>1, <1>2, <2>1, <2>2 DEF Writers
  <2>6. WokenReaders' = WokenReaders /\ Takers' = Takers
    BY <1>2, <2>1 DEF WokenReaders, Takers
  <2> QED BY <2>3, <2>4, <2>5, <2>6 DEF TtyStill
<1>4. Labels'
  <2>1. \A p \in Asleep' : pcb'[p].kctx = "wait"
    BY <1>1 DEF Stays, Labels
  <2>2. pcb'[idle_proc].kctx \in {"boot", "clock"}
    BY <1>1 DEF Stays, Labels
  <2>3. ASSUME NEW p \in PCB, pcb'[p].delay > 0
        PROVE  p \in Blocked' /\ pcb'[p].kctx = "delay"
    BY <2>3 DEF Stays, Labels
  <2> QED BY <2>1, <2>2, <2>3 DEF Labels
<1> QED BY <1>3, <1>4

(* The steps that change no queue and no PCB.                              *)
LEMMA QuietIsStill ==
  ASSUME Before, Labels,
         UNCHANGED <<current_process, ready_queue, blocked_queue, pcb>>,
         \/ kpc' = kpc
         \/ /\ kpc' # "resume"
            /\ kpc = "resume" => pcb[current_process].kctx \notin TtyLabel
  PROVE  TtyStill /\ Labels'
<1>1. UNCHANGED <<Ready, Blocked, Asleep>>
  BY DEF Ready, Blocked, Asleep, SleepsInWait
<1>2. Stays({})
  BY <1>1 DEF Stays
<1> QED BY <1>2, StayIsStill

LEMMA ForkIsStill ==
  ASSUME Before, Labels, Fork
  PROVE  TtyStill /\ Labels'
<1> DEFINE child == proc_table
<1>1. /\ child \in PCB /\ child \notin Live /\ child # current_process
      /\ kpc = "user" /\ kpc' = "user"
      /\ Ready' = Ready \union {child}
      /\ UNCHANGED <<Blocked, Asleep, current_process>>
      /\ pcb'[child].kctx = "fork"
      /\ \A p \in PCB \ {child} : pcb'[p].kctx = pcb[p].kctx
  BY ForkEffect
<1>2. /\ child \notin Ready /\ child \notin Blocked /\ child \notin Asleep
      /\ child # idle_proc
  BY <1>1, Apart DEF Before, Placement, Placed
<1>3. /\ pcb'[child].delay = 0
      /\ \A p \in PCB \ {child} : pcb'[p].delay = pcb[p].delay
  <2> DEFINE new == [allocNewPCB EXCEPT !.ppid = current_process,
                       !.state = "PROC_READY", !.kctx = "fork"]
             kids == queueEnqueue(pcb[current_process].children, child)
  <2>1. /\ pcb' = [pcb EXCEPT ![child] = new, ![current_process].children = kids]
        /\ pcb \in [PCB -> PCBType] /\ current_process \in PCB
    BY DEF Fork, Before, TypeOK
  <2>2. new.delay = 0
    BY DEF allocNewPCB
  <2> HIDE DEF child, new, kids
  <2>3. ASSUME NEW p \in PCB \ {child} PROVE pcb'[p].delay = pcb[p].delay
    BY <1>1, <2>1, SMT DEF PCBType
  <2>4. pcb'[child] = new
    BY <1>1, <2>1
  <2> QED BY <2>2, <2>3, <2>4
<1> HIDE DEF child
<1>4. "fork" \notin TtyLabel
  BY DEF TtyLabel
<1>5. Stays({child})
  BY <1>1, <1>2, <1>3, <1>4 DEF Stays
<1> QED BY <1>5, StayIsStill

LEMMA ForkChildIsStill ==
  ASSUME Before, Labels, ForkChild
  PROVE  TtyStill /\ Labels'
<1>1. /\ kpc = "resume" /\ kpc' = "user" /\ pcb[current_process].kctx = "fork"
      /\ UNCHANGED <<Ready, Blocked, Asleep, current_process>>
      /\ \A p \in PCB : pcb'[p].kctx = pcb[p].kctx
  BY ForkChildEffect
<1>2. ASSUME NEW p \in PCB PROVE pcb'[p].delay = pcb[p].delay
  <2>1. /\ pcb \in [PCB -> PCBType] /\ current_process \in PCB
        /\ pcb' = [pcb EXCEPT ![current_process].parent =
                                   pcb[current_process].ppid]
    BY DEF ForkChild, Before, TypeOK
  <2> QED BY <2>1, SMT DEF PCBType
<1>3. Stays({})
  BY <1>1, <1>2 DEF Stays, TtyLabel
<1> QED BY <1>3, StayIsStill

(* deletePCB changes no kernel context and no countdown.                   *)
LEMMA DeleteIsStill ==
  ASSUME NEW table \in [PCB -> PCBType], NEW p \in PCB, NEW q \in PCB
  PROVE  /\ deletePCB(table, p)[q].kctx = table[q].kctx
         /\ deletePCB(table, p)[q].delay = table[q].delay
<1>1. CASE q \notin ToSet(table[p].children)
  BY <1>1 DEF deletePCB
<1>2. CASE q \in ToSet(table[p].children)
  <2>1. deletePCB(table, p)[q] = [table[q] EXCEPT !.parent = NULL,
                                                  !.state = "PROC_ORPHAN"]
    BY <1>2 DEF deletePCB
  <2> QED BY <2>1, SMT DEF PCBType
<1> QED BY <1>1, <1>2

LEMMA ExitInitIsStill ==
  ASSUME Before, Labels, current_process = init_proc, ExitInit
  PROVE  TtyStill /\ Labels'
<1>1. UNCHANGED <<kpc, Ready, Blocked, Asleep, current_process>>
  BY ExitInitEffect
<1>2. /\ pcb' = deletePCB(pcb, current_process) /\ pcb \in [PCB -> PCBType]
      /\ current_process \in PCB
  BY DEF ExitInit, Before, TypeOK
<1>3. \A p \in PCB : pcb'[p].kctx = pcb[p].kctx /\ pcb'[p].delay = pcb[p].delay
  BY <1>2, DeleteIsStill
<1>4. Stays({})
  BY <1>1, <1>3 DEF Stays
<1> QED BY <1>4, StayIsStill

LEMMA ReapIsStill ==
  ASSUME Before, Labels, ZombieOf(current_process) # NULL,
         Reap(ZombieOf(current_process)),
         kpc = "resume" => pcb[current_process].kctx = "wait"
  PROVE  TtyStill /\ Labels'
<1> DEFINE zombie == ZombieOf(current_process)
           kids == queueRemove(pcb[current_process].children, zombie)
           table == [pcb EXCEPT ![current_process].children = kids]
<1>1. /\ pcb \in [PCB -> PCBType] /\ current_process \in PCB
      /\ zombie_queue \in Seq(PCB)
  BY DEF Before, TypeOK
<1>2. zombie \in PCB
  BY <1>1, ZombieOfFacts
<1>3. /\ pcb' = deletePCB(table, zombie) /\ kpc' = "user"
      /\ UNCHANGED <<current_process, ready_queue, blocked_queue>>
  BY DEF Reap
<1> HIDE DEF zombie
<1>4. kids \in Seq(PCB)
  <2>1. pcb[current_process].children \in Seq(PCB)
    BY <1>1 DEF PCBType
  <2> QED BY <2>1, QueueRemoveType
<1> HIDE DEF kids
<1>5. table \in [PCB -> PCBType]
  BY <1>1, <1>4, FieldTypes
<1>6. ASSUME NEW p \in PCB
      PROVE  /\ table[p].kctx = pcb[p].kctx /\ table[p].delay = pcb[p].delay
             /\ table[p].waiting = pcb[p].waiting
  BY <1>1, SMT DEF PCBType
<1> HIDE DEF table
<1>7. \A p \in PCB : /\ pcb'[p].kctx = pcb[p].kctx
                     /\ pcb'[p].delay = pcb[p].delay
  BY <1>2, <1>3, <1>5, <1>6, DeleteIsStill
<1>8. \A p \in PCB : pcb'[p].waiting = pcb[p].waiting
  BY <1>2, <1>3, <1>5, <1>6, DeleteEffect
<1>9. UNCHANGED <<Ready, Blocked, Asleep>>
  BY <1>3, <1>8 DEF Ready, Blocked, Asleep, SleepsInWait
<1>10. kpc' # "resume" /\ "wait" \notin TtyLabel
  BY <1>3 DEF TtyLabel
<1>11. Stays({})
  BY <1>3, <1>7, <1>9, <1>10 DEF Stays
<1> QED BY <1>11, StayIsStill

LEMMA TickIsStill ==
  ASSUME Before, Labels, trapHandlerHelper
  PROVE  TtyStill /\ Labels'
<1> DEFINE p == Head(iter)
<1>1. /\ p \in PCB /\ p \in Blocked /\ pcb \in [PCB -> PCBType]
      /\ ready_queue \in Seq(PCB) /\ blocked_queue \in Seq(PCB)
      /\ NoDuplicates(blocked_queue)
  BY VisitedIsBlocked DEF Before, TypeOK, Placement, Ordered, trapHandlerHelper
<1>2. /\ TickIdle(p) \/ TickCounts(p) \/ TickWakes(p)
      /\ UNCHANGED <<kpc, current_process>>
  BY DEF trapHandlerHelper
<1>3. UNCHANGED Asleep /\ \A q \in PCB : pcb'[q].kctx = pcb[q].kctx
  BY TickEffect
<1> HIDE DEF p
<1>4. pcb[p].delay \in Int
  BY <1>1 DEF PCBType
<1>5. CASE TickIdle(p)
  BY <1>2, <1>5, QuietIsStill DEF TickIdle
<1>6. CASE TickCounts(p)
  <2>1. /\ pcb[p].delay > 1 /\ pcb' = [pcb EXCEPT ![p].delay = @ - 1]
        /\ UNCHANGED <<Ready, Blocked>>
    BY <1>6 DEF TickCounts, Ready, Blocked
  <2>2. ASSUME NEW q \in PCB, pcb'[q].delay > 0 PROVE pcb[q].delay > 0
    <3>1. CASE q = p
      BY <1>4, <2>1, <3>1
    <3>2. CASE q # p
      BY <1>1, <2>1, <2>2, <3>2
    <3> QED BY <3>1, <3>2
  <2>3. Stays({})
    BY <1>2, <1>3, <2>1, <2>2 DEF Stays
  <2> QED BY <2>3, StayIsStill
<1>7. CASE TickWakes(p)
  <2>1. /\ pcb' = [pcb EXCEPT ![p].delay = 0, ![p].state = "PROC_READY"]
        /\ blocked_queue' = queueRemove(blocked_queue, p)
        /\ ready_queue' = queueEnqueue(ready_queue, p)
        /\ pcb[p].delay = 1
    BY <1>7 DEF TickWakes
  <2>2. Ready' = Ready \union {p} /\ Blocked' = Blocked \ {p}
    BY <1>1, <2>1, QueueRemoveSet, QueueEnqueueSet DEF Ready, Blocked
  <2>3. ASSUME NEW q \in PCB
        PROVE  pcb'[q].delay = IF q = p THEN 0 ELSE pcb[q].delay
    BY <1>1, <2>1, SMT DEF PCBType
  <2>4. pcb[p].kctx = "delay"
    <3>1. pcb[p].delay > 0
      BY <2>1
    <3> QED BY <1>1, <3>1 DEF Labels
  <2>5. /\ p \notin Ready /\ p # current_process /\ p # idle_proc
        /\ p \notin Asleep
    BY <1>1, Apart
  <2>6. ~(pcb'[p].delay > 0) /\ "delay" \notin TtyLabel
    BY <1>1, <2>3 DEF TtyLabel
  <2>7. Stays({p})
    BY <1>1, <1>2, <1>3, <2>2, <2>3, <2>4, <2>5, <2>6 DEF Stays
  <2> QED BY <2>7, StayIsStill
<1> QED BY <1>2, <1>5, <1>6, <1>7


LEMMA DelayIsStill ==
  ASSUME Before, Placement', Sane', Labels, NEW n \in Int, DelayBlocks(n)
  PROVE  TtyStill /\ Labels'
<1>1. /\ Leaves(Ready, "delay") /\ Blocked' = Blocked \union {current_process}
      /\ UNCHANGED Asleep
  BY DelayLeaves
<1>2. kpc # "resume" /\ current_process # idle_proc
  BY DEF DelayBlocks, UserTrap, InUser
<1>3. ASSUME NEW p \in PCB
      PROVE  p # current_process => pcb'[p].delay = pcb[p].delay
  <2> DEFINE t1 == [pcb EXCEPT ![current_process].delay = n]
             table == [t1 EXCEPT ![current_process].state = "PROC_BLOCKED"]
  <2>1. /\ TypeOK /\ pcb \in [PCB -> PCBType] /\ current_process \in PCB
        /\ ready_queue \in Seq(PCB)
    BY DEF Before, TypeOK
  <2>2. table \in [PCB -> PCBType]
    <3>1. t1 \in [PCB -> PCBType]
      BY <2>1, FieldTypes
    <3> QED BY <2>1, <3>1, FieldTypes DEF ProcState
  <2>3. SwitchToNext("delay", ready_queue, table)
    BY DEF DelayBlocks
  <2>4. p # current_process => table[p].delay = pcb[p].delay
    BY <2>1, SMT DEF PCBType
  <2> HIDE DEF table
  <2> QED BY <2>1, <2>2, <2>3, <2>4, SwitchKeepsDelay
<1> QED BY <1>1, <1>2, <1>3, LeaveIsStill DEF TtyLabel

LEMMA WaitBlocksIsStill ==
  ASSUME Before, Placement', Sane', Labels, WaitBlocks
  PROVE  TtyStill /\ Labels'
<1>1. /\ Leaves(Ready, "wait") /\ UNCHANGED Blocked
      /\ Asleep' = Asleep \union {current_process}
  BY WaitBlocksLeaves
<1>2. kpc # "resume" /\ current_process # idle_proc
  BY DEF WaitBlocks, UserTrap, InUser
<1>3. \A p \in PCB : pcb'[p].delay = pcb[p].delay
  BY LeaveKeepsDelay
<1> QED BY <1>1, <1>2, <1>3, LeaveIsStill DEF TtyLabel

LEMMA ClockIsStill ==
  ASSUME Before, Placement', Sane', Labels, ClockSwitches
  PROVE  TtyStill /\ Labels'
<1>1. UNCHANGED <<Blocked, Asleep>> /\ kpc # "resume"
  BY ClockLeaves DEF ClockSwitches
<1>2. \A p \in PCB : pcb'[p].delay = pcb[p].delay
  BY LeaveKeepsDelay
<1>3. PICK ready \in {Ready, Ready \union {current_process}} :
        Leaves(ready, "clock")
  BY ClockLeaves
<1> QED BY <1>1, <1>2, <1>3, LeaveIsStill DEF TtyLabel

LEMMA ExitIsStill ==
  ASSUME Before, Placement', Sane', Labels, UserTrap,
         NEW status \in Int, NEW label \in {"exit", "killed"},
         zombie_queue' = queueEnqueue(zombie_queue, current_process),
         ExitWake(status, label) \/ ExitQuietly(status, label),
         UNCHANGED <<blocked_queue, proc_table, freed>>
  PROVE  TtyStill /\ Labels'
<1> DEFINE parent == pcb[current_process].parent
<1>1. /\ UNCHANGED Blocked
      /\ \/ UNCHANGED Asleep /\ Leaves(Ready, label)
         \/ /\ parent \in Asleep /\ Asleep' = Asleep \ {parent}
            /\ Leaves(Ready \union {parent}, label)
  BY ExitLeaves
<1>2. kpc # "resume" /\ current_process # idle_proc /\ label \notin TtyLabel
  BY DEF UserTrap, InUser, TtyLabel
<1>3. \A p \in PCB : pcb'[p].delay = pcb[p].delay
  BY LeaveKeepsDelay
<1> HIDE DEF parent
<1>4. CASE UNCHANGED Asleep /\ Leaves(Ready, label)
  BY <1>1, <1>2, <1>3, <1>4, LeaveIsStill
<1>5. CASE /\ parent \in Asleep /\ Asleep' = Asleep \ {parent}
           /\ Leaves(Ready \union {parent}, label)
  BY <1>1, <1>2, <1>3, <1>5, LeaveIsStill
<1> QED BY <1>1, <1>4, <1>5

(* Every step of module Processes leaves the terminal calls alone.         *)
LEMMA ProcNextStill ==
  ASSUME PlacementInv, Labels, ProcNext, Sane'
  PROVE  TtyStill /\ Labels'
<1>1. Sane
  BY FaultsGrow DEF Sane
<1>2. Before
  BY <1>1, FaultsGrow DEF Before, PlacementInv
<1>3. ASSUME Undefined PROVE FALSE
  BY <1>3 DEF Undefined, Sane
<1>4. Placement'
  BY ProcNextPlaces DEF PlacementInv
<1>5. CASE ExitSyscall \/ MemoryTrapHandler \/ FatalTrapHandler
  <2>1. /\ UserTrap
        /\ \E status \in Statuses \union {ERROR}, label \in {"exit", "killed"} :
             Exit(status, label)
    BY <1>5, Zenon DEF ExitSyscall, MemoryTrapHandler, FatalTrapHandler
  <2>2. PICK status \in Statuses \union {ERROR}, label \in {"exit", "killed"} :
          Exit(status, label)
    BY <2>1
  <2>3. status \in Int
    BY ArgumentsAssumption DEF ERROR
  <2>4. CASE current_process = init_proc /\ ExitInit
    BY <1>2, <2>4, ExitInitIsStill
  <2>5. CASE Undefined
    BY <1>3, <2>5
  <2>6. CASE /\ zombie_queue' = queueEnqueue(zombie_queue, current_process)
             /\ ExitWake(status, label) \/ ExitQuietly(status, label)
             /\ UNCHANGED <<blocked_queue, proc_table, freed, iter>>
    BY <1>2, <1>4, <2>1, <2>3, <2>6, ExitIsStill
  <2> QED BY <2>2, <2>4, <2>5, <2>6 DEF Exit
<1>6. CASE \E n \in Ticks : DelayBlocks(n)
  BY <1>2, <1>4, <1>6, DelayIsStill, ArgumentsAssumption
<1>7. CASE \/ ForkTableFull \/ ForkNoFrames \/ FatalTrapReturns
           \/ \E n \in Ticks : DelayHalts(n)
  BY <1>2, <1>7, QuietIsStill
  DEF ForkTableFull, ForkNoFrames, FatalTrapReturns, DelayHalts, Halt
<1>8. CASE ForkChildUndefined \/ TickUndefined \/ WaitUndefined
  BY <1>3, <1>8 DEF ForkChildUndefined, TickUndefined, WaitUndefined
<1>9. CASE Fork \/ ForkChild
  BY <1>2, <1>9, ForkIsStill, ForkChildIsStill
<1>10. CASE WaitReaps \/ (WaitResumes /\ ZombieOf(current_process) # NULL)
  BY <1>2, <1>10, ReapIsStill
  DEF WaitReaps, WaitResumes, UserTrap, InUser, Resumes
<1>11. CASE WaitNoChildren \/ (WaitResumes /\ ZombieOf(current_process) = NULL)
  BY <1>2, <1>11, QuietIsStill
  DEF WaitNoChildren, WaitResumes, WaitFails, Return, UserTrap, InUser,
      Resumes, TtyLabel
<1>12. CASE WaitBlocks
  BY <1>2, <1>4, <1>12, WaitBlocksIsStill
<1>13. CASE trapHandlerHelper \/ ClockSwitches
  BY <1>2, <1>4, <1>13, TickIsStill, ClockIsStill
<1>14. CASE GetPid \/ StackGrows \/ \E n \in Ticks : DelayZero(n)
  BY <1>2, <1>14, QuietIsStill
  DEF GetPid, StackGrows, DelayZero, Return, UserTrap, InUser
<1>15. CASE DelayResumes \/ ExitReturns
  BY <1>2, <1>15, QuietIsStill
  DEF DelayResumes, ExitReturns, Return, Resumes, TtyLabel
<1>16. CASE ClockTrapHandler \/ ClockReturns \/ ClockResumes
  BY <1>2, <1>16, QuietIsStill
  DEF ClockTrapHandler, ClockReturns, ClockResumes, InUser, Resumes, TtyLabel
<1> QED BY <1>5, <1>6, <1>7, <1>8, <1>9, <1>10, <1>11, <1>12, <1>13, <1>14,
           <1>15, <1>16 DEF ProcNext, Syscall, Fault, KernelStep

(* None of them is taken in, or enters, the receive trap.                  *)
LEMMA ProcNextNotInReceive ==
  ASSUME ProcNext
  PROVE  kpc # "receive" /\ kpc' # "receive"
<1>1. CASE ExitSyscall \/ MemoryTrapHandler \/ FatalTrapHandler
  <2>1. UserTrap /\ \E status, label : Exit(status, label)
    BY <1>1, Zenon DEF ExitSyscall, MemoryTrapHandler, FatalTrapHandler
  <2>2. PICK status, label : Exit(status, label)
    BY <2>1
  <2>3. kpc = "user"
    BY <2>1 DEF UserTrap, InUser
  <2> QED BY <2>2, <2>3
          DEF Exit, ExitInit, ExitWake, ExitQuietly, SwitchToNext, KCSwitch,
              Undefined
<1>2. CASE \/ WaitBlocks \/ ClockSwitches \/ \E n \in Ticks : DelayBlocks(n)
  BY <1>2 DEF WaitBlocks, ClockSwitches, DelayBlocks, SwitchToNext, KCSwitch,
              UserTrap, InUser
<1>3. CASE \/ Fork \/ ForkTableFull \/ ForkNoFrames \/ WaitReaps
           \/ WaitNoChildren \/ GetPid \/ StackGrows \/ ClockTrapHandler
           \/ \E n \in Ticks : DelayZero(n) \/ DelayHalts(n)
  BY <1>3 DEF Fork, ForkTableFull, ForkNoFrames, WaitReaps, WaitNoChildren,
     GetPid, StackGrows, ClockTrapHandler, DelayZero, DelayHalts, Reap,
     WaitFails, Halt, Return, UserTrap, InUser
<1>4. CASE \/ trapHandlerHelper \/ TickUndefined \/ ClockReturns \/ ClockResumes
           \/ DelayResumes \/ ForkChild \/ ForkChildUndefined
  BY <1>4 DEF trapHandlerHelper, TickUndefined, Iterates, ClockReturns,
     ClockResumes, DelayResumes, ForkChild, ForkChildUndefined, Undefined,
     Return, Resumes
<1>5. CASE WaitResumes \/ ExitReturns \/ FatalTrapReturns \/ WaitUndefined
  BY <1>5 DEF WaitResumes, ExitReturns, FatalTrapReturns, WaitUndefined,
     Undefined, Reap, WaitFails, Halt, Return, Resumes, UserTrap, InUser
<1> QED BY <1>1, <1>2, <1>3, <1>4, <1>5 DEF ProcNext, Syscall, Fault, KernelStep


-----------------------------------------------------------------------------
(* The terminal structures.                                                *)

(* Assigning a value of its type to a field keeps the types.               *)
LEMMA TerminalFieldTypes ==
  ASSUME NEW ts \in [Terminal -> StrongTerminalType], NEW t \in Terminal
  PROVE  /\ \A v \in Seq(PCB) : /\ [ts EXCEPT ![t].blocked_readers = v]
                                     \in [Terminal -> StrongTerminalType]
                                /\ [ts EXCEPT ![t].blocked_writers = v]
                                     \in [Terminal -> StrongTerminalType]
         /\ \A v \in Seq(Byte) : [ts EXCEPT ![t].read_buffer = v]
                                   \in [Terminal -> StrongTerminalType]
         /\ \A v \in Nat : /\ [ts EXCEPT ![t].write_len = v]
                                \in [Terminal -> StrongTerminalType]
                           /\ [ts EXCEPT ![t].write_pos = v]
                                \in [Terminal -> StrongTerminalType]
         /\ \A v \in PCB \union {NULL} : [ts EXCEPT ![t].current_writer = v]
                                           \in [Terminal -> StrongTerminalType]
         /\ \A v \in BOOLEAN : [ts EXCEPT ![t].in_use = v]
                                 \in [Terminal -> StrongTerminalType]
<1>0. ts[t] \in StrongTerminalType
  OBVIOUS
<1>1. ASSUME NEW v \in Seq(PCB)
      PROVE  /\ [ts[t] EXCEPT !.blocked_readers = v] \in StrongTerminalType
             /\ [ts[t] EXCEPT !.blocked_writers = v] \in StrongTerminalType
  BY <1>0 DEF StrongTerminalType
<1>2. ASSUME NEW v \in Seq(Byte)
      PROVE  [ts[t] EXCEPT !.read_buffer = v] \in StrongTerminalType
  BY <1>0 DEF StrongTerminalType
<1>3. ASSUME NEW v \in Nat
      PROVE  /\ [ts[t] EXCEPT !.write_len = v] \in StrongTerminalType
             /\ [ts[t] EXCEPT !.write_pos = v] \in StrongTerminalType
  BY <1>0 DEF StrongTerminalType
<1>4. ASSUME NEW v \in PCB \union {NULL}
      PROVE  [ts[t] EXCEPT !.current_writer = v] \in StrongTerminalType
  BY <1>0 DEF StrongTerminalType
<1>5. ASSUME NEW v \in BOOLEAN
      PROVE  [ts[t] EXCEPT !.in_use = v] \in StrongTerminalType
  BY <1>0 DEF StrongTerminalType
<1> QED BY <1>1, <1>2, <1>3, <1>4, <1>5

LEMMA IoFieldTypes ==
  ASSUME NEW ios \in [PCB -> StrongIoType], NEW p \in PCB
  PROVE  /\ \A v \in Nat : /\ [ios EXCEPT ![p].read_len = v] \in [PCB -> StrongIoType]
                           /\ [ios EXCEPT ![p].len = v] \in [PCB -> StrongIoType]
         /\ \A v \in Seq(Byte) :
              [ios EXCEPT ![p].read_buf = v] \in [PCB -> StrongIoType]
         /\ \A v \in Int : [ios EXCEPT ![p].regs0 = v] \in [PCB -> StrongIoType]
         /\ \A v \in Terminal : [ios EXCEPT ![p].tty = v] \in [PCB -> StrongIoType]
<1>0. ios[p] \in StrongIoType
  OBVIOUS
<1>1. ASSUME NEW v \in Nat
      PROVE  /\ [ios[p] EXCEPT !.read_len = v] \in StrongIoType
             /\ [ios[p] EXCEPT !.len = v] \in StrongIoType
  BY <1>0 DEF StrongIoType
<1>2. ASSUME NEW v \in Seq(Byte)
      PROVE  [ios[p] EXCEPT !.read_buf = v] \in StrongIoType
  BY <1>0 DEF StrongIoType
<1>3. ASSUME NEW v \in Int
      PROVE  [ios[p] EXCEPT !.regs0 = v] \in StrongIoType
  BY <1>0 DEF StrongIoType
<1>4. ASSUME NEW v \in Terminal
      PROVE  [ios[p] EXCEPT !.tty = v] \in StrongIoType
  BY <1>0 DEF StrongIoType
<1> QED BY <1>1, <1>2, <1>3, <1>4

LEMMA DeviceFieldTypes ==
  ASSUME NEW ds \in [Terminal -> DeviceType], NEW t \in Terminal
  PROVE  /\ \A v \in BOOLEAN : [ds EXCEPT ![t].busy = v] \in [Terminal -> DeviceType]
         /\ \A v \in 0 .. MaxTyped :
              [ds EXCEPT ![t].typed = v] \in [Terminal -> DeviceType]
         /\ \A v \in SUBSET Byte :
              [ds EXCEPT ![t].delivered = v] \in [Terminal -> DeviceType]
<1>0. ds[t] \in DeviceType
  OBVIOUS
<1>1. ASSUME NEW v \in BOOLEAN PROVE [ds[t] EXCEPT !.busy = v] \in DeviceType
  BY <1>0 DEF DeviceType
<1>2. ASSUME NEW v \in 0 .. MaxTyped
      PROVE  [ds[t] EXCEPT !.typed = v] \in DeviceType
  BY <1>0 DEF DeviceType
<1>3. ASSUME NEW v \in SUBSET Byte
      PROVE  [ds[t] EXCEPT !.delivered = v] \in DeviceType
  BY <1>0 DEF DeviceType
<1> QED BY <1>1, <1>2, <1>3

(* The types of the fields of one terminal, process and device.            *)
LEMMA FieldsOf ==
  ASSUME StrongTypeOK
  PROVE  /\ \A t \in Terminal :
              /\ terminals[t].blocked_readers \in Seq(PCB)
              /\ terminals[t].blocked_writers \in Seq(PCB)
              /\ terminals[t].read_buffer \in Seq(Byte)
              /\ terminals[t].write_len \in Nat /\ terminals[t].write_pos \in Nat
              /\ terminals[t].current_writer \in PCB \union {NULL}
              /\ terminals[t].in_use \in BOOLEAN
              /\ Len(terminals[t].read_buffer) <= MaxLine
              /\ device[t].busy \in BOOLEAN /\ device[t].typed \in 0 .. MaxTyped
              /\ device[t].delivered \in SUBSET Byte
         /\ \A p \in PCB : /\ io[p].read_len \in Nat /\ io[p].read_buf \in Seq(Byte)
                           /\ io[p].regs0 \in Int /\ io[p].tty \in Terminal
                           /\ io[p].len \in Nat
<1>1. ASSUME NEW t \in Terminal
      PROVE  /\ terminals[t] \in StrongTerminalType /\ device[t] \in DeviceType
             /\ Len(terminals[t].read_buffer) <= MaxLine
  BY DEF StrongTypeOK
<1>2. ASSUME NEW p \in PCB PROVE io[p] \in StrongIoType
  BY DEF StrongTypeOK
<1> QED BY <1>1, <1>2 DEF StrongTerminalType, DeviceType, StrongIoType

(* The smaller of two numbers.                                             *)
LEMMA MinOfFacts ==
  ASSUME NEW a \in Nat, NEW b \in Nat
  PROVE  /\ MinOf(a, b) \in Nat /\ MinOf(a, b) <= a /\ MinOf(a, b) <= b
         /\ a > 0 /\ b > 0 => MinOf(a, b) > 0
BY DEF MinOf

(* What Bytes and Shifted make of the read buffer.                         *)
LEMMA BufferSplit ==
  ASSUME NEW t \in Terminal, terminals[t].read_buffer \in Seq(Byte),
         NEW n \in 0 .. Len(terminals[t].read_buffer)
  PROVE  /\ Bytes(t, n) \in Seq(Byte) /\ Len(Bytes(t, n)) = n
         /\ \A i \in 1 .. n : Bytes(t, n)[i] = terminals[t].read_buffer[i]
         /\ Shifted(t, n) \in Seq(Byte)
         /\ Len(Shifted(t, n)) = Len(terminals[t].read_buffer) - n
         /\ \A i \in 1 .. Len(terminals[t].read_buffer) - n :
              Shifted(t, n)[i] = terminals[t].read_buffer[n + i]
<1> DEFINE buffer == terminals[t].read_buffer
           k == Len(buffer)
<1>1. buffer \in Seq(Byte) /\ k \in Nat /\ n \in Nat /\ n <= k
  OBVIOUS
<1> HIDE DEF buffer, k
<1>2. \A i \in 1 .. k : buffer[i] \in Byte
  BY <1>1 DEF k
<1>3. /\ SubSeq(buffer, 1, n) \in Seq(Byte)
      /\ Len(SubSeq(buffer, 1, n)) = n
      /\ \A i \in 1 .. n : SubSeq(buffer, 1, n)[i] = buffer[i]
  <2>1. \A i \in 1 .. n : buffer[i] \in Byte
    BY <1>1, <1>2
  <2>2. /\ SubSeq(buffer, 1, n) \in Seq(Byte)
        /\ Len(SubSeq(buffer, 1, n)) = IF 1 <= n THEN n - 1 + 1 ELSE 0
        /\ \A i \in 1 .. n - 1 + 1 : SubSeq(buffer, 1, n)[i] = buffer[1 + i - 1]
    BY <1>1, <2>1, SubSeqProperties
  <2> QED BY <1>1, <2>2
<1>4. /\ SubSeq(buffer, n + 1, k) \in Seq(Byte)
      /\ Len(SubSeq(buffer, n + 1, k)) = k - n
      /\ \A i \in 1 .. k - n : SubSeq(buffer, n + 1, k)[i] = buffer[n + i]
  <2>1. \A i \in n + 1 .. k : buffer[i] \in Byte
    BY <1>1, <1>2
  <2>2. /\ SubSeq(buffer, n + 1, k) \in Seq(Byte)
        /\ Len(SubSeq(buffer, n + 1, k)) = IF n + 1 <= k THEN k - (n + 1) + 1 ELSE 0
        /\ \A i \in 1 .. k - (n + 1) + 1 :
             SubSeq(buffer, n + 1, k)[i] = buffer[n + 1 + i - 1]
    BY <1>1, <2>1, SubSeqProperties
  <2> QED BY <1>1, <2>2
<1> QED BY <1>3, <1>4 DEF Bytes, Shifted, buffer, k


-----------------------------------------------------------------------------
(* The types after a terminal step.                                        *)

(* The steps that change no queue and no PCB.                              *)
LEMMA QuietKeepsType ==
  ASSUME TypeOK, kpc' \in {"user", "resume", "receive", kpc},
         machine' \in {machine, "undefined"},
         faults' \in {faults, faults \union {"use_after_free"}},
         UNCHANGED <<current_process, ready_queue, blocked_queue, zombie_queue,
                     proc_table, pcb, freed, iter>>
  PROVE  TypeOK'
BY DEF TypeOK

(* The steps that leave the terminals alone.                               *)
LEMMA TerminalsKeepType ==
  ASSUME StrongTypeOK, UNCHANGED <<terminals, io, device, rx>>,
         failures' = failures \/ MallocFails
  PROVE  StrongTypeOK'
BY DEF StrongTypeOK, MallocFails

(* What the calls that put the caller to sleep have in common.             *)
BlocksIn(label) ==
  /\ blocked_queue' = queueEnqueue(blocked_queue, current_process)
  /\ SwitchToNext(label, ready_queue,
                  [pcb EXCEPT ![current_process].state = "PROC_BLOCKED"])
  /\ UNCHANGED <<zombie_queue, proc_table, freed, iter, faults>>

LEMMA BlocksType ==
  ASSUME TypeOK, NEW label \in ResumePoint, BlocksIn(label)
  PROVE  TypeOK' /\ kpc' = "resume"
<1> DEFINE table == [pcb EXCEPT ![current_process].state = "PROC_BLOCKED"]
<1>1. /\ pcb \in [PCB -> PCBType] /\ current_process \in PCB
      /\ ready_queue \in Seq(PCB) /\ blocked_queue \in Seq(PCB)
  BY DEF TypeOK
<1>2. table \in [PCB -> PCBType]
  BY <1>1, FieldTypes DEF ProcState
<1>3. SwitchToNext(label, ready_queue, table)
  BY DEF BlocksIn
<1> HIDE DEF table
<1>4. /\ current_process' \in PCB /\ ready_queue' \in Seq(PCB)
      /\ pcb' \in [PCB -> PCBType] /\ kpc' = "resume"
      /\ machine' \in {"on", "halted", "undefined"}
  BY <1>1, <1>2, <1>3, SwitchToNextType
<1>5. blocked_queue' \in Seq(PCB)
  BY <1>1, QueueEnqueueSet DEF BlocksIn
<1> QED BY <1>4, <1>5 DEF TypeOK, BlocksIn

(* The types and the bound of a read buffer after a step that changes one  *)
(* terminal.                                                               *)
LEMMA TerminalsType ==
  ASSUME StrongTypeOK, NEW t \in Terminal,
         terminals' \in [Terminal -> StrongTerminalType],
         Len(terminals'[t].read_buffer) <= MaxLine,
         \A u \in Terminal \ {t} : terminals'[u] = terminals[u],
         io' \in [PCB -> StrongIoType], device' \in [Terminal -> DeviceType],
         rx' \in Terminal, failures' = failures \/ MallocFails
  PROVE  StrongTypeOK'
BY DEF StrongTypeOK, MallocFails

LEMMA ReadReturnsType ==
  ASSUME TypeOK, StrongTypeOK, NEW t \in Terminal, NEW len \in ReadLens,
         TtyReadReturns(t, len)
  PROVE  TypeOK' /\ StrongTypeOK' /\ kpc' = "user"
<1> DEFINE n == MinOf(len, Len(terminals[t].read_buffer))
<1>1. /\ terminals' = [terminals EXCEPT ![t].read_buffer = Shifted(t, n)]
      /\ device' = [device EXCEPT ![t].delivered = @ \union ToSet(Bytes(t, n))]
      /\ io' = [io EXCEPT ![current_process].read_buf = << >>]
      /\ kpc' = "user" /\ UNCHANGED <<rx, failures>>
  BY DEF TtyReadReturns, Return
<1>2. /\ terminals \in [Terminal -> StrongTerminalType]
      /\ io \in [PCB -> StrongIoType] /\ device \in [Terminal -> DeviceType]
      /\ current_process \in PCB /\ rx \in Terminal
  BY DEF TypeOK, StrongTypeOK
<1>3. /\ terminals[t].read_buffer \in Seq(Byte)
      /\ Len(terminals[t].read_buffer) <= MaxLine
      /\ device[t].delivered \in SUBSET Byte
  BY FieldsOf
<1>4. n \in 0 .. Len(terminals[t].read_buffer)
  <2> DEFINE k == Len(terminals[t].read_buffer)
  <2>1. len \in Nat /\ k \in Nat
    BY <1>3, TerminalFacts
  <2> HIDE DEF k
  <2>2. MinOf(len, k) \in Nat /\ MinOf(len, k) <= k
    BY <2>1, MinOfFacts
  <2>3. MinOf(len, k) \in 0 .. k
    BY <2>1, <2>2
  <2> QED BY <2>3 DEF k
<1> HIDE DEF n
<1>5. /\ Bytes(t, n) \in Seq(Byte) /\ Shifted(t, n) \in Seq(Byte)
      /\ Len(Shifted(t, n)) = Len(terminals[t].read_buffer) - n
  BY <1>3, <1>4, BufferSplit
<1>6. ToSet(Bytes(t, n)) \subseteq Byte
  BY <1>5 DEF ToSet
<1>7. device' \in [Terminal -> DeviceType]
  <2>1. device[t].delivered \union ToSet(Bytes(t, n)) \in SUBSET Byte
    BY <1>3, <1>6
  <2> QED BY <1>1, <1>2, <2>1, DeviceFieldTypes
<1>8. io' \in [PCB -> StrongIoType]
  <2>1. << >> \in Seq(Byte)
    OBVIOUS
  <2> QED BY <1>1, <1>2, <2>1, IoFieldTypes
<1>9. terminals' \in [Terminal -> StrongTerminalType]
  BY <1>1, <1>2, <1>5, TerminalFieldTypes
<1>10. Len(terminals'[t].read_buffer) <= MaxLine
  <2>1. terminals'[t].read_buffer = Shifted(t, n)
    BY <1>1, <1>2 DEF StrongTerminalType
  <2>2. Len(terminals[t].read_buffer) \in Nat
    BY <1>3
  <2> QED BY <1>3, <1>4, <1>5, <2>1, <2>2, TerminalFacts
<1>11. \A u \in Terminal \ {t} : terminals'[u] = terminals[u]
  BY <1>1, <1>2
<1>12. StrongTypeOK'
  BY <1>1, <1>2, <1>7, <1>8, <1>9, <1>10, <1>11, TerminalsType
<1>13. TypeOK'
  BY <1>1, QuietKeepsType DEF TtyReadReturns
<1> QED BY <1>1, <1>12, <1>13

LEMMA ReadBlocksType ==
  ASSUME TypeOK, StrongTypeOK, NEW t \in Terminal, NEW len \in ReadLens,
         TtyReadBlocks(t, len)
  PROVE  TypeOK' /\ StrongTypeOK' /\ kpc' = "resume"
<1> DEFINE p == current_process
<1>1. /\ BlocksIn("ttyread")
      /\ terminals' = [terminals EXCEPT ![t].blocked_readers = queueEnqueue(@, p)]
      /\ io' = [io EXCEPT ![p].read_len = len, ![p].regs0 = t, ![p].tty = t]
      /\ UNCHANGED <<device, rx, failures>>
  BY DEF TtyReadBlocks, BlocksIn
<1>2. /\ terminals \in [Terminal -> StrongTerminalType]
      /\ io \in [PCB -> StrongIoType] /\ device \in [Terminal -> DeviceType]
      /\ p \in PCB /\ rx \in Terminal
  BY DEF TypeOK, StrongTypeOK
<1> HIDE DEF p
<1>3. /\ terminals[t].blocked_readers \in Seq(PCB)
      /\ Len(terminals[t].read_buffer) <= MaxLine
  BY FieldsOf
<1>4. queueEnqueue(terminals[t].blocked_readers, p) \in Seq(PCB)
  BY <1>2, <1>3, QueueEnqueueSet
<1>5. terminals' \in [Terminal -> StrongTerminalType]
  BY <1>1, <1>2, <1>4, TerminalFieldTypes
<1>6. io' \in [PCB -> StrongIoType]
  <2> DEFINE i1 == [io EXCEPT ![p].read_len = len]
             i2 == [i1 EXCEPT ![p].regs0 = t]
  <2>1. i1 \in [PCB -> StrongIoType]
    BY <1>2, IoFieldTypes, TerminalFacts
  <2>2. i2 \in [PCB -> StrongIoType]
    <3>1. t \in Int
      BY TerminalFacts
    <3> HIDE DEF i1
    <3> QED BY <1>2, <2>1, <3>1, IoFieldTypes
  <2>3. [i2 EXCEPT ![p].tty = t] \in [PCB -> StrongIoType]
    <3> HIDE DEF i2
    <3> QED BY <1>2, <2>2, IoFieldTypes
  <2> QED BY <1>1, <2>3
<1>7. Len(terminals'[t].read_buffer) <= MaxLine
  <2>1. terminals'[t].read_buffer = terminals[t].read_buffer
    BY <1>1, <1>2 DEF StrongTerminalType
  <2> QED BY <1>3, <2>1
<1>8. \A u \in Terminal \ {t} : terminals'[u] = terminals[u]
  BY <1>1, <1>2
<1>9. StrongTypeOK'
  BY <1>1, <1>2, <1>5, <1>6, <1>7, <1>8, TerminalsType
<1>10. TypeOK' /\ kpc' = "resume"
  BY <1>1, BlocksType DEF ResumePoint
<1> QED BY <1>9, <1>10


(* The end of a call: its arguments are gone.                              *)
LEMMA CallEndsType ==
  ASSUME io \in [PCB -> StrongIoType], NEW p \in PCB
  PROVE  CallEnds(p) \in [PCB -> StrongIoType]
<1> DEFINE i1 == [io EXCEPT ![p].regs0 = 0]
           i2 == [i1 EXCEPT ![p].tty = 0]
<1>1. i1 \in [PCB -> StrongIoType]
  BY IoFieldTypes, SMTT(30)
<1>2. i2 \in [PCB -> StrongIoType]
  <2> HIDE DEF i1
  <2> QED BY <1>1, IoFieldTypes, TerminalFacts
<1>3. [i2 EXCEPT ![p].len = 0] \in [PCB -> StrongIoType]
  <2> HIDE DEF i2
  <2> QED BY <1>2, IoFieldTypes
<1> QED BY <1>3 DEF CallEnds

LEMMA ReadResumesType ==
  ASSUME TypeOK, StrongTypeOK, TtyReadResumes
  PROVE  TypeOK' /\ StrongTypeOK' /\ kpc' = "user"
<1> DEFINE p == current_process
           t == io[p].tty
           unpack == io[p].regs0 > 0 /\ io[p].read_buf # << >>
<1>1. /\ io' = IF unpack THEN [CallEnds(p) EXCEPT ![p].read_buf = << >>]
               ELSE CallEnds(p)
      /\ device' = IF unpack THEN [device EXCEPT ![t].delivered =
                                        @ \union ToSet(io[p].read_buf)]
                   ELSE device
      /\ kpc' = "user" /\ UNCHANGED <<terminals, rx, failures>>
  BY DEF TtyReadResumes, Return
<1>2. /\ terminals \in [Terminal -> StrongTerminalType]
      /\ io \in [PCB -> StrongIoType] /\ device \in [Terminal -> DeviceType]
      /\ p \in PCB /\ rx \in Terminal
  BY DEF TypeOK, StrongTypeOK
<1>3. io[p].read_buf \in Seq(Byte) /\ t \in Terminal
  BY <1>2, FieldsOf
<1> HIDE DEF p, t, unpack
<1>4. io' \in [PCB -> StrongIoType]
  <2>1. CallEnds(p) \in [PCB -> StrongIoType] /\ << >> \in Seq(Byte)
    BY <1>2, CallEndsType
  <2>2. [CallEnds(p) EXCEPT ![p].read_buf = << >>] \in [PCB -> StrongIoType]
    BY <1>2, <2>1, IoFieldTypes
  <2> QED BY <1>1, <2>1, <2>2
<1>5. device' \in [Terminal -> DeviceType]
  <2>1. ToSet(io[p].read_buf) \subseteq Byte
    BY <1>3 DEF ToSet
  <2>2. device[t].delivered \in SUBSET Byte
    BY <1>3, FieldsOf
  <2>3. device[t].delivered \union ToSet(io[p].read_buf) \in SUBSET Byte
    BY <2>1, <2>2
  <2>4. [device EXCEPT ![t].delivered = @ \union ToSet(io[p].read_buf)]
          \in [Terminal -> DeviceType]
    BY <1>2, <1>3, <2>3, DeviceFieldTypes
  <2> QED BY <1>1, <1>2, <2>4
<1>6. StrongTypeOK'
  BY <1>1, <1>4, <1>5 DEF StrongTypeOK
<1>7. TypeOK'
  BY <1>1, QuietKeepsType DEF TtyReadResumes
<1> QED BY <1>1, <1>6, <1>7

LEMMA WriteBlocksType ==
  ASSUME TypeOK, StrongTypeOK, NEW t \in Terminal, NEW len \in WriteLens,
         TtyWriteBlocks(t, len)
  PROVE  TypeOK' /\ StrongTypeOK' /\ kpc' = "resume"
<1> DEFINE p == current_process
<1>1. /\ BlocksIn("ttylock")
      /\ terminals' = [terminals EXCEPT ![t].blocked_writers = queueEnqueue(@, p)]
      /\ io' = [io EXCEPT ![p].tty = t, ![p].len = len]
      /\ UNCHANGED <<device, rx, failures>>
  BY DEF TtyWriteBlocks, BlocksIn
<1>2. /\ terminals \in [Terminal -> StrongTerminalType]
      /\ io \in [PCB -> StrongIoType] /\ device \in [Terminal -> DeviceType]
      /\ p \in PCB /\ rx \in Terminal
  BY DEF TypeOK, StrongTypeOK
<1> HIDE DEF p
<1>3. /\ terminals[t].blocked_writers \in Seq(PCB)
      /\ Len(terminals[t].read_buffer) <= MaxLine
  BY FieldsOf
<1>4. queueEnqueue(terminals[t].blocked_writers, p) \in Seq(PCB)
  BY <1>2, <1>3, QueueEnqueueSet
<1>5. terminals' \in [Terminal -> StrongTerminalType]
  BY <1>1, <1>2, <1>4, TerminalFieldTypes
<1>6. io' \in [PCB -> StrongIoType]
  <2> DEFINE i1 == [io EXCEPT ![p].tty = t]
  <2>1. i1 \in [PCB -> StrongIoType]
    BY <1>2, IoFieldTypes
  <2>2. [i1 EXCEPT ![p].len = len] \in [PCB -> StrongIoType]
    <3> HIDE DEF i1
    <3> QED BY <1>2, <2>1, IoFieldTypes, TerminalFacts
  <2> QED BY <1>1, <2>2
<1>7. Len(terminals'[t].read_buffer) <= MaxLine
  <2>1. terminals'[t].read_buffer = terminals[t].read_buffer
    BY <1>1, <1>2 DEF StrongTerminalType
  <2> QED BY <1>3, <2>1
<1>8. \A u \in Terminal \ {t} : terminals'[u] = terminals[u]
  BY <1>1, <1>2
<1>9. StrongTypeOK'
  BY <1>1, <1>2, <1>5, <1>6, <1>7, <1>8, TerminalsType
<1>10. TypeOK' /\ kpc' = "resume"
  BY <1>1, BlocksType DEF ResumePoint
<1> QED BY <1>9, <1>10

LEMMA BeginType ==
  ASSUME TypeOK, StrongTypeOK, NEW t \in Terminal, NEW len \in Nat,
         BeginTtyTransmit(t, len)
  PROVE  TypeOK' /\ StrongTypeOK' /\ kpc' = "resume"
<1> DEFINE p == current_process
           t1 == [terminals EXCEPT ![t].in_use = TRUE]
           t2 == [t1 EXCEPT ![t].write_len = len]
           t3 == [t2 EXCEPT ![t].write_pos = MinOf(len, MaxLine)]
           t4 == [t3 EXCEPT ![t].current_writer = p]
<1>1. /\ BlocksIn("ttywrite")
      /\ terminals' = t4
      /\ device' = [device EXCEPT ![t].busy = TRUE]
      /\ io' = [io EXCEPT ![p].tty = t, ![p].len = len]
      /\ UNCHANGED <<rx, failures>>
  BY DEF BeginTtyTransmit, BlocksIn
<1>2. /\ terminals \in [Terminal -> StrongTerminalType]
      /\ io \in [PCB -> StrongIoType] /\ device \in [Terminal -> DeviceType]
      /\ p \in PCB /\ rx \in Terminal
  BY DEF TypeOK, StrongTypeOK
<1> HIDE DEF p
<1>3. Len(terminals[t].read_buffer) <= MaxLine /\ MinOf(len, MaxLine) \in Nat
  BY FieldsOf, MinOfFacts, TerminalFacts
<1>4. terminals' \in [Terminal -> StrongTerminalType]
  <2>1. t1 \in [Terminal -> StrongTerminalType]
    BY <1>2, TerminalFieldTypes
  <2>2. t2 \in [Terminal -> StrongTerminalType]
    <3> HIDE DEF t1
    <3> QED BY <2>1, TerminalFieldTypes
  <2>3. t3 \in [Terminal -> StrongTerminalType]
    <3> HIDE DEF t2
    <3> QED BY <1>3, <2>2, TerminalFieldTypes
  <2>4. t4 \in [Terminal -> StrongTerminalType]
    <3> HIDE DEF t3
    <3> QED BY <1>2, <2>3, TerminalFieldTypes
  <2> QED BY <1>1, <2>4
<1>5. io' \in [PCB -> StrongIoType]
  <2> DEFINE i1 == [io EXCEPT ![p].tty = t]
  <2>1. i1 \in [PCB -> StrongIoType]
    BY <1>2, IoFieldTypes
  <2>2. [i1 EXCEPT ![p].len = len] \in [PCB -> StrongIoType]
    <3> HIDE DEF i1
    <3> QED BY <1>2, <2>1, IoFieldTypes
  <2> QED BY <1>1, <2>2
<1>6. Len(terminals'[t].read_buffer) <= MaxLine
  <2>1. terminals'[t].read_buffer = terminals[t].read_buffer
    BY <1>1, <1>2 DEF StrongTerminalType
  <2> QED BY <1>3, <2>1
<1>7. \A u \in Terminal \ {t} : terminals'[u] = terminals[u]
  BY <1>1, <1>2
<1>8. device' \in [Terminal -> DeviceType]
  BY <1>1, <1>2, DeviceFieldTypes
<1>9. StrongTypeOK'
  BY <1>1, <1>2, <1>4, <1>5, <1>6, <1>7, <1>8, TerminalsType
<1>10. TypeOK' /\ kpc' = "resume"
  BY <1>1, BlocksType DEF ResumePoint
<1> QED BY <1>9, <1>10

LEMMA OverrunType ==
  ASSUME TypeOK, StrongTypeOK, NEW t \in Terminal, NEW len \in Nat,
         TtyOverrun(t, len)
  PROVE  TypeOK' /\ StrongTypeOK' /\ kpc' = kpc
<1> DEFINE p == current_process
           t1 == [terminals EXCEPT ![t].write_len = len]
           t2 == [t1 EXCEPT ![t].write_pos = 0]
           t3 == [t2 EXCEPT ![t].current_writer = p]
<1>1. terminals' = t3 /\ UNCHANGED <<kpc, io, device, rx, failures>>
  BY DEF TtyOverrun
<1>2. /\ terminals \in [Terminal -> StrongTerminalType]
      /\ p \in PCB /\ Len(terminals[t].read_buffer) <= MaxLine
  BY DEF TypeOK, StrongTypeOK
<1> HIDE DEF p
<1>3. terminals' \in [Terminal -> StrongTerminalType]
  <2>1. t1 \in [Terminal -> StrongTerminalType]
    BY <1>2, TerminalFieldTypes
  <2>2. t2 \in [Terminal -> StrongTerminalType]
    <3> HIDE DEF t1
    <3> QED BY <2>1, TerminalFieldTypes
  <2>3. t3 \in [Terminal -> StrongTerminalType]
    <3> HIDE DEF t2
    <3> QED BY <1>2, <2>2, TerminalFieldTypes
  <2> QED BY <1>1, <2>3
<1>4. terminals'[t].read_buffer = terminals[t].read_buffer
  BY <1>1, <1>2 DEF StrongTerminalType
<1>5. \A u \in Terminal \ {t} : terminals'[u] = terminals[u]
  BY <1>1, <1>2
<1>6. StrongTypeOK'
  BY <1>1, <1>2, <1>3, <1>4, <1>5 DEF StrongTypeOK
<1>7. TypeOK'
  BY QuietKeepsType DEF TtyOverrun
<1> QED BY <1>1, <1>6, <1>7


(* A process a trap wakes keeps the types of the queues and the PCBs.      *)
LEMMA WakeTypes ==
  ASSUME NEW table \in [PCB -> PCBType], NEW q \in Seq(PCB),
         NEW p \in PCB \union {NULL}
  PROVE  /\ Readied(table, p) \in [PCB -> PCBType]
         /\ Unblocked(q, p) \in Seq(PCB) /\ Queued(q, p) \in Seq(PCB)
<1>1. CASE p = NULL
  BY <1>1 DEF Readied, Unblocked, Queued
<1>2. CASE p # NULL
  <2>1. p \in PCB
    BY <1>2
  <2>2. [table EXCEPT ![p].state = "PROC_READY"] \in [PCB -> PCBType]
    BY <2>1, FieldTypes DEF ProcState
  <2>3. queueRemove(q, p) \in Seq(PCB) /\ queueEnqueue(q, p) \in Seq(PCB)
    BY <2>1, QueueRemoveType, QueueEnqueueSet
  <2> QED BY <1>2, <2>2, <2>3 DEF Readied, Unblocked, Queued
<1> QED BY <1>1, <1>2

(* The first process of a queue, or NULL.                                  *)
LEMMA FrontOrNull ==
  ASSUME NEW q \in Seq(PCB)
  PROVE  LET next == IF is_empty(q) THEN NULL ELSE queueFront(q) IN
         /\ next \in PCB \union {NULL}
         /\ next = NULL <=> is_empty(q)
         /\ next # NULL => next \in PCB /\ queueDequeue(q) \in Seq(PCB)
BY QueueDequeueSet, ConstantFacts

LEMMA NoMemoryType ==
  ASSUME TypeOK, StrongTypeOK, NEW t \in Terminal, TtyWriteNoMemory(t)
  PROVE  TypeOK' /\ StrongTypeOK' /\ kpc' \in {kpc, "user"}
<1> DEFINE p == current_process
           writers == terminals[t].blocked_writers
           next == IF is_empty(writers) THEN NULL ELSE queueFront(writers)
           left == IF next = NULL THEN writers ELSE queueDequeue(writers)
           t1 == [terminals EXCEPT ![t].in_use = FALSE]
           t2 == [t1 EXCEPT ![t].blocked_writers = left]
<1>1. /\ terminals \in [Terminal -> StrongTerminalType]
      /\ io \in [PCB -> StrongIoType] /\ device \in [Terminal -> DeviceType]
      /\ p \in PCB /\ rx \in Terminal /\ pcb \in [PCB -> PCBType]
      /\ ready_queue \in Seq(PCB)
  BY DEF TypeOK, StrongTypeOK
<1>2. writers \in Seq(PCB) /\ Len(terminals[t].read_buffer) <= MaxLine
  BY FieldsOf
<1>3. next \in PCB \union {NULL} /\ left \in Seq(PCB)
  BY <1>2, FrontOrNull
<1>4. CASE next \in freed
  <2>1. Undefined /\ MallocFails /\ UNCHANGED <<terminals, io, device, rx>>
    BY <1>4 DEF TtyWriteNoMemory
  <2>2. StrongTypeOK'
    BY <2>1, TerminalsKeepType
  <2>3. TypeOK' /\ kpc' = kpc
    BY <2>1, QuietKeepsType DEF Undefined
  <2> QED BY <2>2, <2>3
<1>5. CASE next \notin freed
  <2>1. /\ MallocFails
        /\ terminals' = [terminals EXCEPT
                           ![t].in_use = FALSE,
                           ![t].blocked_writers =
                               IF next = NULL THEN @ ELSE queueDequeue(@)]
        /\ pcb' = IF next = NULL THEN pcb
                  ELSE [pcb EXCEPT ![next].state = "PROC_READY"]
        /\ ready_queue' = IF next = NULL THEN ready_queue
                          ELSE queueEnqueue(ready_queue, next)
        /\ faults' = IF next = NULL THEN faults ELSE faults \union {"half_woken"}
        /\ io' = CallEnds(p) /\ kpc' = "user"
        /\ UNCHANGED <<machine, current_process, blocked_queue,
                       zombie_queue, proc_table, freed, iter, device, rx>>
    BY <1>5 DEF TtyWriteNoMemory, Return
  <2>2. terminals' = t2
    BY <1>1, <2>1 DEF StrongTerminalType
  <2> HIDE DEF p, next, left, writers
  <2>3. terminals' \in [Terminal -> StrongTerminalType]
    <3>1. t1 \in [Terminal -> StrongTerminalType]
      BY <1>1, TerminalFieldTypes
    <3>2. t2 \in [Terminal -> StrongTerminalType]
      <4> HIDE DEF t1
      <4> QED BY <1>3, <3>1, TerminalFieldTypes
    <3> QED BY <2>2, <3>2
  <2>4. terminals'[t].read_buffer = terminals[t].read_buffer
    BY <1>1, <2>2 DEF StrongTerminalType
  <2>5. \A u \in Terminal \ {t} : terminals'[u] = terminals[u]
    BY <1>1, <2>2
  <2>6. io' \in [PCB -> StrongIoType]
    BY <1>1, <2>1, CallEndsType
  <2>7. StrongTypeOK'
    BY <1>1, <1>2, <2>1, <2>3, <2>4, <2>5, <2>6, TerminalsType
  <2>8. ready_queue' \in Seq(PCB) /\ pcb' \in [PCB -> PCBType]
    <3>1. CASE next = NULL
      BY <1>1, <2>1, <3>1
    <3>2. CASE next # NULL
      <4>1. next \in PCB
        BY <1>3, <3>2
      <4>2. [pcb EXCEPT ![next].state = "PROC_READY"] \in [PCB -> PCBType]
        BY <1>1, <4>1, FieldTypes DEF ProcState
      <4>3. queueEnqueue(ready_queue, next) \in Seq(PCB)
        BY <1>1, <4>1, QueueEnqueueSet
      <4> QED BY <2>1, <3>2, <4>2, <4>3
    <3> QED BY <3>1, <3>2
  <2>9. TypeOK'
    BY <2>1, <2>8 DEF TypeOK
  <2> QED BY <2>1, <2>7, <2>9
<1> QED BY <1>4, <1>5

LEMMA WriteResumesType ==
  ASSUME TypeOK, StrongTypeOK, TtyWriteResumes
  PROVE  TypeOK' /\ StrongTypeOK' /\ kpc' = "user"
<1>1. /\ io' = CallEnds(current_process) /\ kpc' = "user"
      /\ UNCHANGED <<terminals, device, rx, failures>>
      /\ io \in [PCB -> StrongIoType] /\ current_process \in PCB
  BY DEF TtyWriteResumes, Return, TypeOK, StrongTypeOK
<1>2. io' \in [PCB -> StrongIoType]
  BY <1>1, CallEndsType
<1>3. StrongTypeOK'
  BY <1>1, <1>2 DEF StrongTypeOK
<1>4. TypeOK'
  BY <1>1, QuietKeepsType DEF TtyWriteResumes
<1> QED BY <1>1, <1>3, <1>4

LEMMA NextChunkType ==
  ASSUME TypeOK, StrongTypeOK, NEW t \in Terminal, TransmitNextChunk(t)
  PROVE  TypeOK' /\ StrongTypeOK' /\ kpc' = "user"
<1> DEFINE pos == terminals[t].write_pos
           more == pos + MinOf(terminals[t].write_len - pos, MaxLine)
<1>1. /\ terminals' = [terminals EXCEPT ![t].write_pos =
                         @ + MinOf(terminals[t].write_len - @, MaxLine)]
      /\ kpc = "user" /\ kpc' = "user" /\ UNCHANGED <<io, device, rx, failures>>
      /\ pos < terminals[t].write_len
  BY DEF TransmitNextChunk, TransmitInterrupt, InUser
<1>2. /\ terminals \in [Terminal -> StrongTerminalType]
      /\ Len(terminals[t].read_buffer) <= MaxLine
      /\ pos \in Nat /\ terminals[t].write_len \in Nat
  BY FieldsOf DEF StrongTypeOK
<1>3. terminals' = [terminals EXCEPT ![t].write_pos = more]
  BY <1>1, <1>2 DEF StrongTerminalType
<1> HIDE DEF pos
<1>4. more \in Nat
  <2>1. terminals[t].write_len - pos \in Nat
    BY <1>1, <1>2
  <2>2. MinOf(terminals[t].write_len - pos, MaxLine) \in Nat
    BY <2>1, MinOfFacts, TerminalFacts
  <2> QED BY <1>2, <2>2
<1> HIDE DEF more
<1>5. terminals' \in [Terminal -> StrongTerminalType]
  BY <1>2, <1>3, <1>4, TerminalFieldTypes
<1>6. /\ terminals'[t].read_buffer = terminals[t].read_buffer
      /\ \A u \in Terminal \ {t} : terminals'[u] = terminals[u]
  BY <1>2, <1>3 DEF StrongTerminalType
<1>7. StrongTypeOK'
  BY <1>1, <1>2, <1>5, <1>6 DEF StrongTypeOK
<1>8. TypeOK'
  BY QuietKeepsType DEF TransmitNextChunk
<1> QED BY <1>1, <1>7, <1>8


(* The writer that waits longest for terminal t.                           *)
NextWriter(t) == IF is_empty(terminals[t].blocked_writers) THEN NULL
                 ELSE queueFront(terminals[t].blocked_writers)

(* What the end of a write does to the structures.                         *)
LEMMA DoneEffect ==
  ASSUME StrongTypeOK, NEW t \in Terminal, TransmitDone(t),
         {terminals[t].current_writer, NextWriter(t)} \intersect freed = {}
  PROVE  LET finished == terminals[t].current_writer
             writers == terminals[t].blocked_writers
             next == NextWriter(t)
         IN  /\ terminals' \in [Terminal -> StrongTerminalType]
             /\ terminals'[t].read_buffer = terminals[t].read_buffer
             /\ terminals'[t].blocked_readers = terminals[t].blocked_readers
             /\ terminals'[t].blocked_writers =
                  IF next = NULL THEN writers ELSE queueDequeue(writers)
             /\ terminals'[t].current_writer = NULL
             /\ terminals'[t].in_use = HandedOver(terminals[t].in_use, next)
             /\ \A u \in Terminal \ {t} : /\ terminals'[u] = terminals[u]
                                          /\ device'[u] = device[u]
             /\ device' \in [Terminal -> DeviceType]
             /\ device'[t].busy = FALSE
             /\ device'[t].typed = device[t].typed
             /\ device'[t].delivered = device[t].delivered
             /\ io' \in [PCB -> StrongIoType]
             /\ \A p \in PCB : /\ io'[p].tty = io[p].tty
                               /\ io'[p].read_buf = io[p].read_buf
                               /\ p # finished => io'[p] = io[p]
             /\ pcb' = Readied(Readied(pcb, finished), next)
             /\ blocked_queue' = Unblocked(Unblocked(blocked_queue, finished), next)
             /\ ready_queue' = Queued(Queued(ready_queue, finished), next)
             /\ kpc = "user" /\ kpc' = "user"
             /\ UNCHANGED <<machine, current_process, zombie_queue, proc_table,
                            freed, iter, faults, rx, failures>>
<1> DEFINE finished == terminals[t].current_writer
           writers == terminals[t].blocked_writers
           next == NextWriter(t)
           left == IF next = NULL THEN writers ELSE queueDequeue(writers)
           in_use == HandedOver(terminals[t].in_use, next)
<1>1. /\ terminals' = [terminals EXCEPT
                         ![t].write_len = 0, ![t].write_pos = 0,
                         ![t].current_writer = NULL,
                         ![t].blocked_writers =
                             IF next = NULL THEN @ ELSE queueDequeue(@),
                         ![t].in_use = HandedOver(@, next)]
      /\ pcb' = Readied(Readied(pcb, finished), next)
      /\ blocked_queue' = Unblocked(Unblocked(blocked_queue, finished), next)
      /\ ready_queue' = Queued(Queued(ready_queue, finished), next)
      /\ io' = IF finished = NULL THEN io
               ELSE [io EXCEPT ![finished].regs0 = terminals[t].write_len]
      /\ device' = [device EXCEPT ![t].busy = FALSE]
      /\ UNCHANGED <<machine, kpc, current_process, zombie_queue,
                     proc_table, freed, iter, faults, rx, failures>>
      /\ kpc = "user"
  BY DEF TransmitDone, TransmitInterrupt, InUser, NextWriter
<1>2. /\ terminals \in [Terminal -> StrongTerminalType]
      /\ io \in [PCB -> StrongIoType] /\ device \in [Terminal -> DeviceType]
  BY DEF StrongTypeOK
<1>3. /\ writers \in Seq(PCB) /\ finished \in PCB \union {NULL}
      /\ terminals[t].in_use \in BOOLEAN /\ terminals[t].write_len \in Nat
  BY FieldsOf
<1>4. left \in Seq(PCB) /\ in_use \in BOOLEAN
  BY <1>3, FrontOrNull DEF HandedOver, NextWriter
<1>5. terminals' = [terminals EXCEPT ![t].write_len = 0, ![t].write_pos = 0,
                      ![t].current_writer = NULL,
                      ![t].blocked_writers = left, ![t].in_use = in_use]
  BY <1>1, <1>2, SMT DEF StrongTerminalType
<1> HIDE DEF left, in_use, next
<1>6. terminals' \in [Terminal -> StrongTerminalType]
  <2> DEFINE t1 == [terminals EXCEPT ![t].write_len = 0]
             t2 == [t1 EXCEPT ![t].write_pos = 0]
             t3 == [t2 EXCEPT ![t].current_writer = NULL]
             t4 == [t3 EXCEPT ![t].blocked_writers = left]
             t5 == [t4 EXCEPT ![t].in_use = in_use]
  <2>1. t1 \in [Terminal -> StrongTerminalType]
    BY <1>2, TerminalFieldTypes
  <2>2. t2 \in [Terminal -> StrongTerminalType]
    <3> HIDE DEF t1
    <3> QED BY <2>1, TerminalFieldTypes
  <2>3. t3 \in [Terminal -> StrongTerminalType]
    <3> HIDE DEF t2
    <3> QED BY <2>2, TerminalFieldTypes
  <2>4. t4 \in [Terminal -> StrongTerminalType]
    <3> HIDE DEF t3
    <3> QED BY <1>4, <2>3, TerminalFieldTypes
  <2>5. t5 \in [Terminal -> StrongTerminalType]
    <3> HIDE DEF t4
    <3> QED BY <1>4, <2>4, TerminalFieldTypes
  <2> QED BY <1>5, <2>5
<1>7. /\ terminals'[t].read_buffer = terminals[t].read_buffer
      /\ terminals'[t].blocked_readers = terminals[t].blocked_readers
      /\ terminals'[t].blocked_writers = left
      /\ terminals'[t].current_writer = NULL
      /\ terminals'[t].in_use = in_use
  BY <1>2, <1>5, SMT DEF StrongTerminalType
<1>8. \A u \in Terminal \ {t} : terminals'[u] = terminals[u] /\ device'[u] = device[u]
  BY <1>1, <1>2, <1>5
<1>9. /\ device' \in [Terminal -> DeviceType] /\ device'[t].busy = FALSE
      /\ device'[t].typed = device[t].typed
      /\ device'[t].delivered = device[t].delivered
  <2>1. device' \in [Terminal -> DeviceType]
    BY <1>1, <1>2, DeviceFieldTypes
  <2> QED BY <1>1, <1>2, <2>1 DEF DeviceType
<1>10. io' \in [PCB -> StrongIoType]
  <2>1. CASE finished = NULL
    BY <1>1, <1>2, <2>1
  <2>2. CASE finished # NULL
    <3>1. finished \in PCB /\ terminals[t].write_len \in Int
      BY <1>3, <2>2
    <3> HIDE DEF finished
    <3> QED BY <1>1, <1>2, <2>2, <3>1, IoFieldTypes
  <2> QED BY <2>1, <2>2
<1>11. ASSUME NEW p \in PCB
       PROVE  /\ io'[p].tty = io[p].tty
              /\ io'[p].read_buf = io[p].read_buf
              /\ p # finished => io'[p] = io[p]
  <2>1. CASE finished = NULL
    BY <1>1, <2>1
  <2>2. CASE finished # NULL
    <3> HIDE DEF finished
    <3> QED BY <1>1, <1>2, <2>2, SMT DEF StrongIoType
  <2> QED BY <2>1, <2>2
<1> QED BY <1>1, <1>6, <1>7, <1>8, <1>9, <1>10, <1>11 DEF left, in_use, next

LEMMA DoneType ==
  ASSUME TypeOK, StrongTypeOK, NEW t \in Terminal, TransmitDone(t)
  PROVE  TypeOK' /\ StrongTypeOK' /\ kpc' = "user"
<1> DEFINE finished == terminals[t].current_writer
           next == NextWriter(t)
<1>1. CASE {finished, next} \intersect freed # {}
  <2>1. Undefined /\ UNCHANGED ttyVars /\ kpc = "user"
    BY <1>1 DEF TransmitDone, TransmitInterrupt, InUser, NextWriter
  <2>2. StrongTypeOK'
    BY <2>1, TerminalsKeepType DEF ttyVars
  <2>3. TypeOK'
    BY <2>1, QuietKeepsType DEF Undefined
  <2> QED BY <2>1, <2>2, <2>3 DEF Undefined
<1>2. CASE {finished, next} \intersect freed = {}
  <2>1. /\ terminals' \in [Terminal -> StrongTerminalType]
        /\ terminals'[t].read_buffer = terminals[t].read_buffer
        /\ \A u \in Terminal \ {t} : terminals'[u] = terminals[u]
        /\ device' \in [Terminal -> DeviceType]
        /\ io' \in [PCB -> StrongIoType]
        /\ pcb' = Readied(Readied(pcb, finished), next)
        /\ blocked_queue' = Unblocked(Unblocked(blocked_queue, finished), next)
        /\ ready_queue' = Queued(Queued(ready_queue, finished), next)
        /\ kpc' = "user"
        /\ UNCHANGED <<machine, current_process, zombie_queue, proc_table,
                       freed, iter, faults, rx, failures>>
    BY <1>2, DoneEffect
  <2>2. /\ terminals[t].blocked_writers \in Seq(PCB)
        /\ finished \in PCB \union {NULL}
        /\ Len(terminals[t].read_buffer) <= MaxLine
    BY FieldsOf
  <2>3. next \in PCB \union {NULL}
    BY <2>2, FrontOrNull DEF NextWriter
  <2>4. StrongTypeOK'
    <3>1. rx' \in Terminal
      BY <2>1 DEF StrongTypeOK
    <3> QED BY <2>1, <2>2, <3>1, TerminalsType
  <2> HIDE DEF finished, next
  <2>5. /\ pcb \in [PCB -> PCBType] /\ blocked_queue \in Seq(PCB)
        /\ ready_queue \in Seq(PCB)
    BY DEF TypeOK
  <2>6. /\ Readied(pcb, finished) \in [PCB -> PCBType]
        /\ Unblocked(blocked_queue, finished) \in Seq(PCB)
        /\ Queued(ready_queue, finished) \in Seq(PCB)
    BY <2>2, <2>5, WakeTypes DEF finished
  <2>7. /\ pcb' \in [PCB -> PCBType] /\ blocked_queue' \in Seq(PCB)
        /\ ready_queue' \in Seq(PCB)
    BY <2>1, <2>3, <2>6, WakeTypes
  <2>8. TypeOK'
    BY <2>1, <2>7 DEF TypeOK
  <2> QED BY <2>1, <2>4, <2>8
<1> QED BY <1>1, <1>2


(* What the receive trap does to the structures: n bytes are accepted.     *)
LEMMA ReceiveEffect ==
  ASSUME StrongTypeOK, NEW t \in Terminal, TtyTrapReceiveHandler(t)
  PROVE  LET buffer == terminals[t].read_buffer IN
         /\ kpc = "user" /\ kpc' = "receive" /\ rx' = t /\ machine = "on"
         /\ UNCHANGED <<machine, current_process, ready_queue, blocked_queue,
                        zombie_queue, proc_table, pcb, freed, iter, faults, io,
                        failures>>
         /\ terminals' \in [Terminal -> StrongTerminalType]
         /\ device' \in [Terminal -> DeviceType]
         /\ \A u \in Terminal \ {t} : /\ terminals'[u] = terminals[u]
                                      /\ device'[u] = device[u]
         /\ terminals'[t].blocked_readers = terminals[t].blocked_readers
         /\ terminals'[t].blocked_writers = terminals[t].blocked_writers
         /\ terminals'[t].current_writer = terminals[t].current_writer
         /\ terminals'[t].in_use = terminals[t].in_use
         /\ device'[t].busy = device[t].busy
         /\ device'[t].delivered = device[t].delivered
         /\ \E n \in Nat :
              /\ device'[t].typed = device[t].typed + n
              /\ Len(terminals'[t].read_buffer) = Len(buffer) + n
              /\ Len(buffer) + n <= MaxLine
              /\ \A i \in 1 .. Len(buffer) : terminals'[t].read_buffer[i] = buffer[i]
              /\ \A i \in 1 .. n : terminals'[t].read_buffer[Len(buffer) + i]
                                     = device[t].typed + i
<1> DEFINE buffer == terminals[t].read_buffer
           typed == device[t].typed
<1>1. PICK line \in 1 .. MaxLine :
        LET n == Received(line, buffer)
        IN  /\ typed + n <= MaxTyped
            /\ terminals' = [terminals EXCEPT ![t].read_buffer =
                               @ \o [i \in 1 .. n |-> device[t].typed + i]]
            /\ device' = [device EXCEPT ![t].typed = @ + n]
  BY DEF TtyTrapReceiveHandler
<1> DEFINE n == Received(line, buffer)
           more == [i \in 1 .. n |-> typed + i]
           new == buffer \o more
<1>2. /\ terminals \in [Terminal -> StrongTerminalType]
      /\ device \in [Terminal -> DeviceType]
  BY DEF StrongTypeOK
<1>3. /\ buffer \in Seq(Byte) /\ Len(buffer) \in Nat /\ Len(buffer) <= MaxLine
      /\ typed \in Nat
  BY FieldsOf
<1>4. n \in Nat /\ Len(buffer) + n <= MaxLine
  <2> DEFINE room == MaxLine - Len(buffer)
  <2>1. room \in Nat /\ line \in Nat
    BY <1>3, TerminalFacts
  <2> HIDE DEF room
  <2>2. MinOf(line, room) \in Nat /\ MinOf(line, room) <= room
    BY <2>1, MinOfFacts
  <2>3. n = MinOf(line, room)
    BY DEF Received, room
  <2> QED BY <1>3, <2>1, <2>2, <2>3, TerminalFacts DEF room
<1>5. /\ terminals' = [terminals EXCEPT ![t].read_buffer = new]
      /\ device' = [device EXCEPT ![t].typed = typed + n]
      /\ typed + n <= MaxTyped
  BY <1>1, <1>2, SMT DEF StrongTerminalType, DeviceType
<1> HIDE DEF n, buffer, typed
<1>6. more \in Seq(Byte) /\ Len(more) = n /\ \A i \in 1 .. n : more[i] = typed + i
  <2>1. \A i \in 1 .. n : typed + i \in Byte
    BY <1>3, <1>4, <1>5, TerminalFacts DEF Byte
  <2>2. more \in [1 .. n -> Byte]
    BY <2>1
  <2>3. more \in Seq(Byte)
    BY <1>4, <2>2
  <2> QED BY <1>4, <2>2, <2>3
<1> HIDE DEF more
<1>7. /\ new \in Seq(Byte) /\ Len(new) = Len(buffer) + n
      /\ \A i \in 1 .. Len(buffer) : new[i] = buffer[i]
      /\ \A i \in 1 .. n : new[Len(buffer) + i] = typed + i
  BY <1>3, <1>4, <1>6
<1> HIDE DEF new
<1>8. /\ terminals' \in [Terminal -> StrongTerminalType]
      /\ terminals'[t].read_buffer = new
      /\ terminals'[t].blocked_readers = terminals[t].blocked_readers
      /\ terminals'[t].blocked_writers = terminals[t].blocked_writers
      /\ terminals'[t].current_writer = terminals[t].current_writer
      /\ terminals'[t].in_use = terminals[t].in_use
  <2>1. terminals' \in [Terminal -> StrongTerminalType]
    BY <1>2, <1>5, <1>7, TerminalFieldTypes
  <2> QED BY <1>2, <1>5, <2>1, SMT DEF StrongTerminalType
<1>9. /\ device' \in [Terminal -> DeviceType]
      /\ device'[t].typed = typed + n /\ device'[t].busy = device[t].busy
      /\ device'[t].delivered = device[t].delivered
  <2>1. typed + n \in 0 .. MaxTyped
    BY <1>3, <1>4, <1>5, TerminalFacts
  <2>2. device' \in [Terminal -> DeviceType]
    BY <1>2, <1>5, <2>1, DeviceFieldTypes
  <2> QED BY <1>2, <1>5, <2>2, SMT DEF DeviceType
<1>10. \A u \in Terminal \ {t} : terminals'[u] = terminals[u] /\ device'[u] = device[u]
  BY <1>2, <1>5
<1>11. \E m \in Nat :
         /\ device'[t].typed = typed + m
         /\ Len(terminals'[t].read_buffer) = Len(buffer) + m
         /\ Len(buffer) + m <= MaxLine
         /\ \A i \in 1 .. Len(buffer) : terminals'[t].read_buffer[i] = buffer[i]
         /\ \A i \in 1 .. m : terminals'[t].read_buffer[Len(buffer) + i] = typed + i
  BY <1>4, <1>7, <1>8, <1>9
<1>12. /\ kpc = "user" /\ kpc' = "receive" /\ rx' = t /\ machine = "on"
       /\ UNCHANGED <<machine, current_process, ready_queue, blocked_queue,
                      zombie_queue, proc_table, pcb, freed, iter, faults, io,
                      failures>>
  BY DEF TtyTrapReceiveHandler, InUser
<1> QED BY <1>8, <1>9, <1>10, <1>11, <1>12 DEF buffer, typed

LEMMA ReceiveType ==
  ASSUME TypeOK, StrongTypeOK, NEW t \in Terminal, TtyTrapReceiveHandler(t)
  PROVE  TypeOK' /\ StrongTypeOK' /\ kpc' = "receive"
<1>1. /\ kpc' = "receive" /\ rx' = t
      /\ UNCHANGED <<machine, current_process, ready_queue, blocked_queue,
                     zombie_queue, proc_table, pcb, freed, iter, faults, io,
                     failures>>
      /\ terminals' \in [Terminal -> StrongTerminalType]
      /\ device' \in [Terminal -> DeviceType]
      /\ \A u \in Terminal \ {t} : terminals'[u] = terminals[u]
      /\ Len(terminals'[t].read_buffer) <= MaxLine
  BY ReceiveEffect
<1>2. StrongTypeOK'
  <2>1. io' \in [PCB -> StrongIoType]
    BY <1>1 DEF StrongTypeOK
  <2> QED BY <1>1, <2>1, TerminalsType
<1>3. TypeOK'
  BY <1>1, QuietKeepsType
<1> QED BY <1>1, <1>2, <1>3

(* What serving a reader does to the structures.                           *)
LEMMA ServeEffect ==
  ASSUME TypeOK, StrongTypeOK, ReaderToServe,
         NEW n \in 0 .. Len(terminals[rx].read_buffer),
         ServeReader(queueFront(terminals[rx].blocked_readers), n)
  PROVE  LET reader == queueFront(terminals[rx].blocked_readers) IN
         /\ reader \in PCB
         /\ terminals' \in [Terminal -> StrongTerminalType]
         /\ terminals'[rx].read_buffer = Shifted(rx, n)
         /\ terminals'[rx].blocked_readers =
              queueDequeue(terminals[rx].blocked_readers)
         /\ terminals'[rx].blocked_writers = terminals[rx].blocked_writers
         /\ terminals'[rx].current_writer = terminals[rx].current_writer
         /\ terminals'[rx].in_use = terminals[rx].in_use
         /\ \A u \in Terminal \ {rx} : terminals'[u] = terminals[u]
         /\ io' \in [PCB -> StrongIoType]
         /\ io'[reader].regs0 = n
         /\ io'[reader].read_buf = IF n = 0 THEN io[reader].read_buf
                                   ELSE Bytes(rx, n)
         /\ io'[reader].tty = io[reader].tty
         /\ \A p \in PCB \ {reader} : io'[p] = io[p]
<1> DEFINE reader == queueFront(terminals[rx].blocked_readers)
           readers == terminals[rx].blocked_readers
           buf == IF n = 0 THEN io[reader].read_buf ELSE Bytes(rx, n)
           i1 == [io EXCEPT ![reader].regs0 = n]
           t1 == [terminals EXCEPT ![rx].blocked_readers = queueDequeue(readers)]
<1>1. /\ terminals \in [Terminal -> StrongTerminalType] /\ rx \in Terminal
      /\ io \in [PCB -> StrongIoType]
  BY DEF StrongTypeOK
<1>2. readers \in Seq(PCB) /\ terminals[rx].read_buffer \in Seq(Byte)
  BY <1>1, FieldsOf
<1>3. reader \in PCB /\ queueDequeue(readers) \in Seq(PCB)
  BY <1>2, QueueDequeueSet DEF ReaderToServe
<1>4. Shifted(rx, n) \in Seq(Byte) /\ buf \in Seq(Byte)
  <2>1. Bytes(rx, n) \in Seq(Byte) /\ Shifted(rx, n) \in Seq(Byte)
    BY <1>1, <1>2, BufferSplit
  <2>2. io[reader].read_buf \in Seq(Byte)
    BY <1>3, FieldsOf
  <2> QED BY <2>1, <2>2
<1>5. /\ terminals' = [terminals EXCEPT
                         ![rx].blocked_readers = queueDequeue(@),
                         ![rx].read_buffer = Shifted(rx, n)]
      /\ io' = [io EXCEPT ![reader].regs0 = n,
                          ![reader].read_buf = IF n = 0 THEN @ ELSE Bytes(rx, n)]
  BY DEF ServeReader
<1>6. /\ terminals' = [t1 EXCEPT ![rx].read_buffer = Shifted(rx, n)]
      /\ io' = [i1 EXCEPT ![reader].read_buf = buf]
  BY <1>1, <1>3, <1>5, SMT DEF StrongTerminalType, StrongIoType
<1>7. terminals' \in [Terminal -> StrongTerminalType]
  <2>1. t1 \in [Terminal -> StrongTerminalType]
    BY <1>1, <1>3, TerminalFieldTypes
  <2> HIDE DEF t1
  <2> QED BY <1>1, <1>4, <1>6, <2>1, TerminalFieldTypes
<1>8. io' \in [PCB -> StrongIoType]
  <2>1. i1 \in [PCB -> StrongIoType]
    <3>1. n \in Int
      BY <1>2
    <3> QED BY <1>1, <1>3, <3>1, IoFieldTypes
  <2> HIDE DEF i1, buf
  <2> QED BY <1>3, <1>4, <1>6, <2>1, IoFieldTypes
<1> HIDE DEF reader, readers, buf
<1>9. /\ terminals'[rx].read_buffer = Shifted(rx, n)
      /\ terminals'[rx].blocked_readers = queueDequeue(readers)
      /\ terminals'[rx].blocked_writers = terminals[rx].blocked_writers
      /\ terminals'[rx].current_writer = terminals[rx].current_writer
      /\ terminals'[rx].in_use = terminals[rx].in_use
  BY <1>1, <1>6, SMT DEF StrongTerminalType
<1>10. \A u \in Terminal \ {rx} : terminals'[u] = terminals[u]
  BY <1>1, <1>6
<1>11. /\ io'[reader].regs0 = n /\ io'[reader].read_buf = buf
       /\ io'[reader].tty = io[reader].tty
       /\ \A p \in PCB \ {reader} : io'[p] = io[p]
  BY <1>1, <1>3, <1>6, SMT DEF StrongIoType
<1> QED BY <1>3, <1>7, <1>8, <1>9, <1>10, <1>11 DEF reader, readers, buf

(* A round of the loop over the readers either serves the first one, or    *)
(* meets freed memory.                                                     *)
LEMMA ServeCases ==
  ASSUME TypeOK, StrongTypeOK, TtyServesReader
  PROVE  /\ kpc = "receive" /\ machine = "on" /\ ReaderToServe
         /\ \/ Undefined /\ UNCHANGED ttyVars
            \/ /\ queueFront(terminals[rx].blocked_readers) \notin freed
               /\ failures' = failures \/ MallocFails
               /\ \E n \in 0 .. Len(terminals[rx].read_buffer) :
                    ServeReader(queueFront(terminals[rx].blocked_readers), n)
<1> DEFINE reader == queueFront(terminals[rx].blocked_readers)
           k == Len(terminals[rx].read_buffer)
           n == MinOf(io[reader].read_len, k)
<1>1. kpc = "receive" /\ machine = "on" /\ ReaderToServe
  BY DEF TtyServesReader, Receives
<1>2. rx \in Terminal
  BY DEF StrongTypeOK
<1>3. terminals[rx].blocked_readers \in Seq(PCB) /\ k \in Nat
  BY <1>2, FieldsOf
<1>4. reader \in PCB
  BY <1>1, <1>3, QueueDequeueSet DEF ReaderToServe
<1>5. io[reader].read_len \in Nat
  BY <1>4, FieldsOf
<1>6. n \in 0 .. k /\ 0 \in 0 .. k
  <2> HIDE DEF k, reader
  <2>1. MinOf(io[reader].read_len, k) \in Nat /\ MinOf(io[reader].read_len, k) <= k
    BY <1>3, <1>5, MinOfFacts
  <2> QED BY <1>3, <2>1
<1>7. \/ reader \in freed /\ Undefined /\ UNCHANGED ttyVars
      \/ reader \notin freed /\ ServeReader(reader, n) /\ UNCHANGED failures
      \/ reader \notin freed /\ ServeReader(reader, 0) /\ MallocFails
  BY DEF TtyServesReader
<1> HIDE DEF n, k, reader
<1>8. \/ Undefined /\ UNCHANGED ttyVars
      \/ /\ reader \notin freed /\ (failures' = failures \/ MallocFails)
         /\ \E m \in 0 .. k : ServeReader(reader, m)
  BY <1>6, <1>7
<1> QED BY <1>1, <1>8 DEF k, reader

LEMMA ServeType ==
  ASSUME TypeOK, StrongTypeOK, TtyServesReader
  PROVE  TypeOK' /\ StrongTypeOK' /\ kpc' = "receive"
<1> DEFINE reader == queueFront(terminals[rx].blocked_readers)
<1>1. kpc = "receive" /\ ReaderToServe /\ rx \in Terminal
  BY ServeCases DEF StrongTypeOK
<1>2. CASE Undefined /\ UNCHANGED ttyVars
  <2>1. StrongTypeOK'
    BY <1>2, TerminalsKeepType DEF ttyVars
  <2>2. TypeOK'
    BY <1>2, QuietKeepsType DEF Undefined
  <2> QED BY <1>1, <1>2, <2>1, <2>2 DEF Undefined
<1>3. CASE /\ failures' = failures \/ MallocFails
           /\ \E n \in 0 .. Len(terminals[rx].read_buffer) : ServeReader(reader, n)
  <2>1. PICK n \in 0 .. Len(terminals[rx].read_buffer) : ServeReader(reader, n)
    BY <1>3
  <2>2. /\ reader \in PCB
        /\ terminals' \in [Terminal -> StrongTerminalType]
        /\ terminals'[rx].read_buffer = Shifted(rx, n)
        /\ \A u \in Terminal \ {rx} : terminals'[u] = terminals[u]
        /\ io' \in [PCB -> StrongIoType]
    BY <1>1, <2>1, ServeEffect
  <2>3. /\ terminals[rx].read_buffer \in Seq(Byte)
        /\ Len(terminals[rx].read_buffer) <= MaxLine
    BY <1>1, FieldsOf
  <2>4. Len(Shifted(rx, n)) = Len(terminals[rx].read_buffer) - n
    BY <1>1, <2>3, BufferSplit
  <2>5. Len(terminals'[rx].read_buffer) <= MaxLine
    BY <2>1, <2>2, <2>3, <2>4, TerminalFacts
  <2>6. /\ pcb' = Readied(pcb, reader)
        /\ blocked_queue' = Unblocked(blocked_queue, reader)
        /\ ready_queue' = Queued(ready_queue, reader)
        /\ UNCHANGED <<machine, kpc, current_process, zombie_queue, proc_table,
                       freed, iter, faults, device, rx>>
    BY <2>1 DEF ServeReader
  <2> HIDE DEF reader
  <2>7. StrongTypeOK'
    <3>1. device' \in [Terminal -> DeviceType] /\ rx' \in Terminal
      BY <2>6 DEF StrongTypeOK
    <3> QED BY <1>1, <1>3, <2>2, <2>5, <3>1, TerminalsType
  <2>8. TypeOK'
    <3>1. /\ pcb' \in [PCB -> PCBType] /\ blocked_queue' \in Seq(PCB)
          /\ ready_queue' \in Seq(PCB)
      BY <2>2, <2>6, WakeTypes DEF TypeOK
    <3> QED BY <2>6, <3>1 DEF TypeOK
  <2> QED BY <1>1, <2>6, <2>7, <2>8
<1> QED BY <1>2, <1>3, ServeCases


(* A terminal step, by cases.                                              *)
LEMMA TtyCases ==
  ASSUME TypeOK, StrongTypeOK, TtyNext
  PROVE  /\ machine = "on"
         /\ \/ kpc = "user" /\ TtyBadArguments
            \/ \E t \in Terminal :
                 /\ kpc = "user"
                 /\ \/ \E len \in ReadLens : TtyReadReturns(t, len)
                    \/ \E len \in ReadLens : TtyReadBlocks(t, len)
                    \/ TtyReadNoMemory(t)
                    \/ \E len \in WriteLens : TtyWriteBlocks(t, len)
                    \/ TransmitNextChunk(t)
                    \/ TransmitDone(t)
                    \/ TtyTrapReceiveHandler(t)
            \/ \E t \in Terminal, len \in Nat :
                 /\ \/ UserTrap /\ ~terminals[t].in_use
                    \/ Resumes("ttylock") /\ t = io[current_process].tty
                 /\ TtyWriteStarts(t, len)
            \/ kpc = "resume" /\ TtyReadResumes
            \/ kpc = "resume" /\ TtyWriteResumes
            \/ kpc = "receive" /\ TtyServesReader
            \/ kpc = "receive" /\ TtyReceiveReturns
<1>1. CASE TtySyscall
  <2>1. CASE TtyBadArguments
    BY <2>1 DEF TtyBadArguments, UserTrap, InUser
  <2>2. ASSUME NEW t \in Terminal, NEW len \in ReadLens,
               TtyReadReturns(t, len) \/ TtyReadBlocks(t, len)
        PROVE  machine = "on" /\ kpc = "user"
    BY <2>2 DEF TtyReadReturns, TtyReadBlocks, UserTrap, InUser
  <2>3. ASSUME NEW t \in Terminal, TtyReadNoMemory(t)
        PROVE  machine = "on" /\ kpc = "user"
    BY <2>3 DEF TtyReadNoMemory, UserTrap, InUser
  <2>4. ASSUME NEW t \in Terminal, NEW len \in WriteLens, TtyWrite(t, len)
        PROVE  /\ machine = "on" /\ len \in Nat
               /\ UserTrap /\ ~terminals[t].in_use /\ TtyWriteStarts(t, len)
    BY <2>4, TerminalFacts DEF TtyWrite, UserTrap, InUser
  <2>5. ASSUME NEW t \in Terminal, NEW len \in WriteLens, TtyWriteBlocks(t, len)
        PROVE  machine = "on" /\ kpc = "user"
    BY <2>5 DEF TtyWriteBlocks, UserTrap, InUser
  <2> QED BY <1>1, <2>1, <2>2, <2>3, <2>4, <2>5, Zenon DEF TtySyscall
<1>2. CASE TtyKernelStep
  <2>1. CASE TtyReadResumes \/ TtyWriteResumes
    BY <2>1 DEF TtyReadResumes, TtyWriteResumes, Resumes
  <2>2. CASE TtyServesReader \/ TtyReceiveReturns
    BY <2>2 DEF TtyServesReader, TtyReceiveReturns, Receives
  <2>3. CASE TtyLockResumes
    <3>1. /\ io[current_process].tty \in Terminal
          /\ io[current_process].len \in Nat
      BY FieldsOf DEF TypeOK
    <3>2. machine = "on" /\ Resumes("ttylock")
      BY <2>3 DEF TtyLockResumes, Resumes
    <3> QED BY <2>3, <3>1, <3>2 DEF TtyLockResumes
  <2> QED BY <1>2, <2>1, <2>2, <2>3 DEF TtyKernelStep
<1>3. CASE TtyInterrupt
  <2>1. ASSUME NEW t \in Terminal, TransmitNextChunk(t) \/ TransmitDone(t)
        PROVE  machine = "on" /\ kpc = "user"
    BY <2>1 DEF TransmitNextChunk, TransmitDone, TransmitInterrupt, InUser
  <2>2. ASSUME NEW t \in Terminal, TtyTrapReceiveHandler(t)
        PROVE  machine = "on" /\ kpc = "user"
    BY <2>2 DEF TtyTrapReceiveHandler, InUser
  <2> QED BY <1>3, <2>1, <2>2, Zenon DEF TtyInterrupt, TtyTrapTransmitHandler
<1> QED BY <1>1, <1>2, <1>3 DEF TtyNext

LEMMA TtyNextType ==
  ASSUME TypeOK, StrongTypeOK, TtyNext
  PROVE  TypeOK' /\ StrongTypeOK' /\ kpc' # "iterate"
<1>1. CASE TtyBadArguments
  <2>1. UNCHANGED ttyVars /\ kpc' = "user"
    BY <1>1 DEF TtyBadArguments, Return
  <2>2. StrongTypeOK'
    BY <2>1, TerminalsKeepType DEF ttyVars
  <2>3. TypeOK'
    BY <1>1, <2>1, QuietKeepsType DEF TtyBadArguments
  <2> QED BY <2>1, <2>2, <2>3
<1>2. CASE TtyReceiveReturns
  <2>1. UNCHANGED ttyVars /\ kpc' = "user"
    BY <1>2 DEF TtyReceiveReturns
  <2>2. StrongTypeOK'
    BY <2>1, TerminalsKeepType DEF ttyVars
  <2>3. TypeOK'
    BY <1>2, <2>1, QuietKeepsType DEF TtyReceiveReturns
  <2> QED BY <2>1, <2>2, <2>3
<1>3. ASSUME NEW t \in Terminal, TtyReadNoMemory(t)
      PROVE  TypeOK' /\ StrongTypeOK' /\ kpc' # "iterate"
  <2>1. MallocFails /\ UNCHANGED <<terminals, io, device, rx>> /\ kpc' = "user"
    BY <1>3 DEF TtyReadNoMemory, Return
  <2>2. StrongTypeOK'
    BY <2>1, TerminalsKeepType
  <2>3. TypeOK'
    BY <1>3, <2>1, QuietKeepsType DEF TtyReadNoMemory
  <2> QED BY <2>1, <2>2, <2>3
<1>4. ASSUME NEW t \in Terminal, NEW len \in Nat,
             UserTrap \/ Resumes("ttylock"), TtyWriteStarts(t, len)
      PROVE  TypeOK' /\ StrongTypeOK' /\ kpc' # "iterate"
  <2>1. kpc \in {"user", "resume"}
    BY <1>4 DEF UserTrap, InUser, Resumes
  <2>2. CASE BeginTtyTransmit(t, len)
    BY <2>2, BeginType
  <2>3. CASE TtyOverrun(t, len)
    BY <2>1, <2>3, OverrunType
  <2>4. CASE TtyWriteNoMemory(t)
    BY <2>1, <2>4, NoMemoryType
  <2> QED BY <1>4, <2>2, <2>3, <2>4 DEF TtyWriteStarts
<1> QED BY <1>1, <1>2, <1>3, <1>4, TtyCases, ReadReturnsType, ReadBlocksType,
           ReadResumesType, WriteBlocksType, WriteResumesType, NextChunkType,
           DoneType, ReceiveType, ServeType

(* A terminal step is taken while the machine runs, and forgets no fault.  *)
LEMMA TtyFaultsGrow ==
  ASSUME TypeOK, StrongTypeOK, TtyNext
  PROVE  machine = "on" /\ faults \subseteq faults'
<1>1. ASSUME NEW t \in Terminal, NEW len, TtyWriteStarts(t, len)
      PROVE  faults \subseteq faults'
  <2>1. CASE BeginTtyTransmit(t, len) \/ TtyOverrun(t, len)
    BY <2>1 DEF BeginTtyTransmit, TtyOverrun
  <2>2. CASE TtyWriteNoMemory(t)
    BY <2>2, Zenon DEF TtyWriteNoMemory, Undefined
  <2> QED BY <1>1, <2>1, <2>2 DEF TtyWriteStarts
<1>2. ASSUME NEW t \in Terminal, TransmitDone(t) PROVE faults \subseteq faults'
  <2>1. CASE {terminals[t].current_writer, NextWriter(t)} \intersect freed = {}
    BY <1>2, <2>1, DoneEffect
  <2>2. CASE {terminals[t].current_writer, NextWriter(t)} \intersect freed # {}
    <3>1. Undefined
      BY <1>2, <2>2, Zenon DEF TransmitDone, NextWriter
    <3> QED BY <3>1 DEF Undefined
  <2> QED BY <2>1, <2>2
<1>3. ASSUME TtyServesReader PROVE faults \subseteq faults'
  <2>1. CASE Undefined
    BY <2>1 DEF Undefined
  <2>2. CASE \E n \in 0 .. Len(terminals[rx].read_buffer) :
               ServeReader(queueFront(terminals[rx].blocked_readers), n)
    BY <2>2 DEF ServeReader
  <2> QED BY <1>3, <2>1, <2>2, ServeCases
<1>4. ASSUME \/ TtyBadArguments \/ TtyReadResumes
             \/ TtyWriteResumes \/ TtyReceiveReturns
      PROVE  faults \subseteq faults'
  BY <1>4 DEF TtyBadArguments, TtyReadResumes, TtyWriteResumes, TtyReceiveReturns
<1>5. ASSUME NEW t \in Terminal,
             \/ \E len \in ReadLens : TtyReadReturns(t, len) \/ TtyReadBlocks(t, len)
             \/ \E len \in WriteLens : TtyWriteBlocks(t, len)
             \/ TtyReadNoMemory(t) \/ TransmitNextChunk(t)
             \/ TtyTrapReceiveHandler(t)
      PROVE  faults \subseteq faults'
  BY <1>5 DEF TtyReadReturns, TtyReadBlocks, TtyWriteBlocks, TtyReadNoMemory,
              TransmitNextChunk, TtyTrapReceiveHandler
<1> QED BY <1>1, <1>2, <1>3, <1>4, <1>5, TtyCases



-----------------------------------------------------------------------------
(* What the terminal steps do to the processes.                            *)

(* A step that changes no queue and no PCB and does not stay in a call: a  *)
(* process that was woken in one is out of it.                             *)
LEMMA ReturnEffect ==
  ASSUME Before, Labels, kpc' # "resume",
         UNCHANGED <<machine, current_process, ready_queue, blocked_queue,
                     zombie_queue, proc_table, pcb, freed>>
  PROVE  /\ Placement' /\ Labels'
         /\ UNCHANGED <<Readers, LockWaiters, Writers>>
         /\ WokenReaders' = WokenReaders \ {current_process}
         /\ Takers' = Takers \ {current_process}
<1>1. UNCHANGED <<Ready, Blocked, Asleep>>
  BY DEF Ready, Blocked, Asleep, SleepsInWait
<1>2. Placement'
  BY PlacementUnchanged DEF Before
<1>3. Labels'
  BY <1>1 DEF Labels
<1>4. UNCHANGED <<Readers, LockWaiters, Writers>>
  BY <1>1 DEF Readers, LockWaiters, Writers
<1>5. current_process \notin Ready
  BY Apart
<1>6. \A p \in PCB : Resumable(p)' <=> Resumable(p) /\ p # current_process
  BY <1>1, <1>5 DEF Resumable
<1>7. /\ WokenReaders' = WokenReaders \ {current_process}
      /\ Takers' = Takers \ {current_process}
  BY <1>6 DEF WokenReaders, Takers
<1> QED BY <1>2, <1>3, <1>4, <1>7

(* A call that puts its caller to sleep.                                   *)
LEMMA BlocksEffect ==
  ASSUME Before, Sane', Labels, NEW label \in TtyLabel, BlocksIn(label),
         current_process # idle_proc,
         kpc # "resume" \/ pcb[current_process].kctx # "ttyread"
  PROVE  /\ Placement' /\ Labels'
         /\ Readers' = IF label = "ttyread" THEN Readers \union {current_process}
                       ELSE Readers
         /\ LockWaiters' = IF label = "ttylock"
                           THEN LockWaiters \union {current_process}
                           ELSE LockWaiters
         /\ Writers' = IF label = "ttywrite" THEN Writers \union {current_process}
                       ELSE Writers
         /\ WokenReaders' = WokenReaders /\ Takers' = Takers \ {current_process}
         /\ current_process \notin Blocked
         /\ current_process \notin WokenReaders
<1> DEFINE table == [pcb EXCEPT ![current_process].state = "PROC_BLOCKED"]
           cp == current_process
<1>1. /\ pcb \in [PCB -> PCBType] /\ cp \in PCB /\ TypeOK
      /\ cp < proc_table /\ proc_table \in Nat
      /\ ready_queue \in Seq(PCB) /\ NoDuplicates(ready_queue)
      /\ blocked_queue \in Seq(PCB) /\ NoDuplicates(blocked_queue)
      /\ cp \notin ToSet(blocked_queue)
  BY DEF Before, TypeOK, Placement, Ordered, Running, Live, Placed, Blocked
<1>2. table \in [PCB -> PCBType]
  BY <1>1, FieldTypes DEF ProcState
<1>3. ASSUME NEW p \in PCB
      PROVE  /\ table[p].ppid = pcb[p].ppid
             /\ table[p].parent = pcb[p].parent
             /\ table[p].children = pcb[p].children
             /\ table[p].kctx = pcb[p].kctx
             /\ table[p].exit = pcb[p].exit
             /\ table[p].waiting = pcb[p].waiting
             /\ table[p].delay = pcb[p].delay
             /\ p # cp => table[p] = pcb[p]
  BY <1>1, SMT DEF PCBType
<1>4. /\ SwitchToNext(label, ready_queue, table)
      /\ blocked_queue' = queueEnqueue(blocked_queue, cp)
      /\ UNCHANGED <<zombie_queue, proc_table, freed>>
  BY DEF BlocksIn
<1> HIDE DEF table
<1>5. {p \in PCB : table[p].waiting = 1} = Asleep
  BY <1>1, <1>3 DEF Asleep, SleepsInWait
<1>6. /\ Blocked' = Blocked \union {cp} /\ Zombies' = Zombies
      /\ NoDuplicates(blocked_queue')
  BY <1>1, <1>4, QueueEnqueueSet DEF Blocked, Zombies
<1>7. Placement'
  <2>1. Parts(ToSet(ready_queue), Blocked', Zombies',
              {p \in PCB : table[p].waiting = 1})
    BY <1>5, <1>6, PartsNow DEF Ready
  <2>2. NoDuplicates(zombie_queue')
    BY <1>4 DEF Before, Placement, Ordered
  <2> QED BY <1>1, <1>2, <1>3, <1>4, <1>6, <2>1, <2>2, LeavePlaces
<1>8. \A p \in PCB : p >= proc_table => p # cp
  BY <1>1, ConstantFacts
<1>9. /\ Leaves(ToSet(ready_queue), label)
      /\ \A p \in PCB : pcb'[p].waiting = table[p].waiting
  BY <1>1, <1>2, <1>3, <1>4, <1>7, <1>8, SwitchLeaves, SMTT(30) DEF SameKin
<1>10. \A p \in PCB : pcb'[p].delay = pcb[p].delay
  BY <1>1, <1>2, <1>3, <1>4, SwitchKeepsDelay
<1>11. Asleep' = Asleep
  BY <1>3, <1>9 DEF Asleep, SleepsInWait
<1>12. \A p \in PCB : pcb'[p].kctx = IF p = cp THEN label ELSE pcb[p].kctx
  BY <1>9 DEF Leaves
<1>13. \A p \in PCB : Resumable(p)' <=> p \in Ready \/ (Ready = {} /\ p = idle_proc)
  BY <1>9 DEF Leaves, Resumable, Ready
<1>14. /\ cp \notin Blocked /\ cp \notin Asleep /\ cp \notin Ready
       /\ Blocked \subseteq PCB /\ Asleep \subseteq PCB /\ idle_proc \in PCB
  BY Apart
<1>15. cp \notin WokenReaders
  BY <1>14 DEF WokenReaders, Resumable
<1> HIDE DEF cp
<1>16. Labels'
  <2>1. \A p \in Asleep' : pcb'[p].kctx = "wait"
    BY <1>11, <1>12, <1>14 DEF Labels
  <2>2. pcb'[idle_proc].kctx \in {"boot", "clock"}
    BY <1>12, <1>14 DEF Labels, cp
  <2>3. ASSUME NEW p \in PCB, pcb'[p].delay > 0
        PROVE  p \in Blocked' /\ pcb'[p].kctx = "delay"
    BY <1>6, <1>10, <1>12, <1>14, <2>3 DEF Labels
  <2> QED BY <2>1, <2>2, <2>3 DEF Labels
<1>17. /\ Readers' = IF label = "ttyread" THEN Readers \union {cp} ELSE Readers
       /\ LockWaiters' = IF label = "ttylock" THEN LockWaiters \union {cp}
                         ELSE LockWaiters
       /\ Writers' = IF label = "ttywrite" THEN Writers \union {cp} ELSE Writers
  BY <1>1, <1>6, <1>12, <1>14 DEF Readers, LockWaiters, Writers, TtyLabel, cp
<1>18. pcb[idle_proc].kctx \notin TtyLabel
  BY DEF Labels, TtyLabel
<1>19. \A p \in PCB : p # cp => (Resumable(p) <=> p \in Ready)
  BY DEF Resumable, cp
<1>20. ASSUME NEW p \in PCB, NEW l \in TtyLabel
       PROVE  p # cp => (Resumable(p)' /\ pcb'[p].kctx = l
                           <=> Resumable(p) /\ pcb[p].kctx = l)
  BY <1>12, <1>13, <1>18, <1>19
<1>21. \A p \in PCB : p = cp => ~Resumable(p)'
  BY <1>1, <1>13, <1>14 DEF cp
<1>22. /\ "ttyread" \in TtyLabel /\ "ttylock" \in TtyLabel
  BY DEF TtyLabel
<1>23. \A p \in PCB : p \in WokenReaders' <=> p \in WokenReaders
  BY <1>15, <1>20, <1>21, <1>22 DEF WokenReaders
<1>24. \A p \in PCB : p \in Takers' <=> p \in Takers \ {cp}
  BY <1>20, <1>21, <1>22 DEF Takers
<1>25. WokenReaders' = WokenReaders /\ Takers' = Takers \ {cp}
  BY <1>23, <1>24 DEF WokenReaders, Takers
<1> QED BY <1>7, <1>14, <1>15, <1>16, <1>17, <1>25 DEF cp


(* Processes are woken from terminal calls by a trap.                      *)
Wakes(woken) ==
  /\ woken \subseteq Blocked
  /\ UNCHANGED <<machine, kpc, current_process, zombie_queue, proc_table, freed>>
  /\ NoDuplicates(ready_queue') /\ NoDuplicates(blocked_queue')
  /\ Ready' = Ready \union woken /\ Blocked' = Blocked \ woken
  /\ \A p \in PCB : /\ pcb'[p].ppid = pcb[p].ppid
                    /\ pcb'[p].children = pcb[p].children
                    /\ pcb'[p].waiting = pcb[p].waiting
                    /\ pcb'[p].kctx = pcb[p].kctx
                    /\ pcb'[p].delay = pcb[p].delay
                    /\ p \notin woken => pcb'[p].state = pcb[p].state
  /\ \A p \in woken : pcb[p].kctx \in TtyLabel

LEMMA WakesEffect ==
  ASSUME Before, Labels, NEW woken, Wakes(woken)
  PROVE  /\ Placement' /\ Labels'
         /\ Readers' = Readers \ woken /\ LockWaiters' = LockWaiters \ woken
         /\ Writers' = Writers \ woken
         /\ WokenReaders' = WokenReaders \union (Readers \intersect woken)
         /\ Takers' = Takers \union (LockWaiters \intersect woken)
<1>1. /\ current_process \in PCB /\ current_process \notin Blocked
      /\ current_process \notin woken /\ woken \subseteq PCB
      /\ Blocked \subseteq PCB /\ Asleep \subseteq PCB /\ idle_proc \in PCB
      /\ idle_proc \notin Blocked /\ Asleep \intersect Blocked = {}
      /\ current_process \notin Ready /\ Ready \intersect Blocked = {}
  BY Apart DEF Wakes
<1>2. Asleep' = Asleep /\ Family'
  BY SimilarKeeps DEF Before, Placement, Wakes, Similar
<1>3. Live' = Live /\ Zombies' = Zombies
  BY DEF Live, Zombies, Wakes
<1>4. Ordered'
  BY DEF Before, Placement, Ordered, Wakes
<1>5. Placed'
  BY <1>1, <1>2, <1>3 DEF Before, Placement, Placed, Wakes
<1>6. Running'
  BY <1>1, <1>3 DEF Before, Placement, Running, Wakes
<1>7. Labels'
  <2>1. \A p \in Asleep' : pcb'[p].kctx = "wait"
    BY <1>1, <1>2 DEF Labels, Wakes
  <2>2. pcb'[idle_proc].kctx \in {"boot", "clock"}
    BY <1>1 DEF Labels, Wakes
  <2>3. ASSUME NEW p \in PCB, pcb'[p].delay > 0
        PROVE  p \in Blocked' /\ pcb'[p].kctx = "delay"
    <3>1. p \in Blocked /\ pcb[p].kctx = "delay" /\ pcb'[p].kctx = "delay"
      BY <2>3 DEF Labels, Wakes
    <3>2. p \notin woken
      BY <3>1 DEF Wakes, TtyLabel
    <3> QED BY <3>1, <3>2 DEF Wakes
  <2> QED BY <2>1, <2>2, <2>3 DEF Labels
<1>8. /\ Readers' = Readers \ woken /\ LockWaiters' = LockWaiters \ woken
      /\ Writers' = Writers \ woken
  BY <1>1 DEF Readers, LockWaiters, Writers, Wakes
<1>9. ASSUME NEW p \in PCB
      PROVE  /\ Resumable(p)' <=> Resumable(p) \/ p \in woken
             /\ pcb'[p].kctx = pcb[p].kctx
  BY DEF Resumable, Wakes
<1>10. WokenReaders' = WokenReaders \union (Readers \intersect woken)
  <2>1. \A p \in PCB : p \in WokenReaders' <=>
                         p \in WokenReaders \union (Readers \intersect woken)
    BY <1>1, <1>9 DEF WokenReaders, Readers, Wakes
  <2> QED BY <1>1, <2>1 DEF WokenReaders
<1>11. Takers' = Takers \union (LockWaiters \intersect woken)
  <2>1. \A p \in PCB : p \in Takers' <=>
                         p \in Takers \union (LockWaiters \intersect woken)
    BY <1>1, <1>9 DEF Takers, LockWaiters, Wakes
  <2> QED BY <1>1, <2>1 DEF Takers
<1> QED BY <1>2, <1>4, <1>5, <1>6, <1>7, <1>8, <1>10, <1>11 DEF Placement

(* What waking one process does to a process table and to queues.          *)
LEMMA WakeOne ==
  ASSUME NEW table \in [PCB -> PCBType], NEW ready \in Seq(PCB),
         NEW blocked \in Seq(PCB), NEW p \in PCB,
         NoDuplicates(ready), NoDuplicates(blocked), p \notin ToSet(ready)
  PROVE  /\ Queued(ready, p) \in Seq(PCB) /\ NoDuplicates(Queued(ready, p))
         /\ ToSet(Queued(ready, p)) = ToSet(ready) \union {p}
         /\ Unblocked(blocked, p) \in Seq(PCB)
         /\ NoDuplicates(Unblocked(blocked, p))
         /\ ToSet(Unblocked(blocked, p)) = ToSet(blocked) \ {p}
         /\ Readied(table, p) \in [PCB -> PCBType]
         /\ \A q \in PCB : /\ Readied(table, p)[q].ppid = table[q].ppid
                           /\ Readied(table, p)[q].children = table[q].children
                           /\ Readied(table, p)[q].waiting = table[q].waiting
                           /\ Readied(table, p)[q].kctx = table[q].kctx
                           /\ Readied(table, p)[q].delay = table[q].delay
                           /\ q # p => Readied(table, p)[q].state = table[q].state
<1>1. p # NULL
  BY ConstantFacts
<1>2. /\ Queued(ready, p) = queueEnqueue(ready, p)
      /\ Unblocked(blocked, p) = queueRemove(blocked, p)
      /\ Readied(table, p) = [table EXCEPT ![p].state = "PROC_READY"]
  BY <1>1 DEF Queued, Unblocked, Readied
<1>3. Readied(table, p) \in [PCB -> PCBType]
  BY WakeTypes
<1>4. /\ queueEnqueue(ready, p) \in Seq(PCB) /\ NoDuplicates(queueEnqueue(ready, p))
      /\ ToSet(queueEnqueue(ready, p)) = ToSet(ready) \union {p}
  BY QueueEnqueueSet
<1>5. /\ queueRemove(blocked, p) \in Seq(PCB) /\ NoDuplicates(queueRemove(blocked, p))
      /\ ToSet(queueRemove(blocked, p)) = ToSet(blocked) \ {p}
  <2>1. CASE p \in ToSet(blocked)
    BY <2>1, QueueRemoveSet, QueueRemoveType
  <2>2. CASE p \notin ToSet(blocked)
    BY <2>2, QueueRemoveAbsent
  <2> QED BY <2>1, <2>2
<1>6. ASSUME NEW q \in PCB
      PROVE  LET new == [table EXCEPT ![p].state = "PROC_READY"] IN
             /\ new[q].ppid = table[q].ppid
             /\ new[q].children = table[q].children
             /\ new[q].waiting = table[q].waiting
             /\ new[q].kctx = table[q].kctx
             /\ new[q].delay = table[q].delay
             /\ q # p => new[q].state = table[q].state
  BY SMT DEF PCBType
<1> QED BY <1>2, <1>3, <1>4, <1>5, <1>6



-----------------------------------------------------------------------------
(* What the terminals say about the processes, one terminal at a time.     *)

(* Who reads from t, waits for its lock, writes to it or takes it over.    *)
ReadersAt(t) == {p \in Readers : io[p].tty = t}
WaitersAt(t) == {p \in LockWaiters : io[p].tty = t}
WritersAt(t) == {p \in Writers : io[p].tty = t}
TakersAt(t) == {p \in Takers : io[p].tty = t}

QueuedForm ==
  \A t \in Terminal :
    QueuedAt(t) <=>
      /\ NoDuplicates(terminals[t].blocked_readers)
      /\ NoDuplicates(terminals[t].blocked_writers)
      /\ ToSet(terminals[t].blocked_readers) = ReadersAt(t)
      /\ ToSet(terminals[t].blocked_writers) = WaitersAt(t)
      /\ \A p \in PCB : terminals[t].current_writer = p <=> p \in WritersAt(t)

LEMMA QueuedAtIs == TypeOK /\ StrongTypeOK => QueuedForm
<1> SUFFICES ASSUME TypeOK, StrongTypeOK, NEW t \in Terminal
             PROVE  QueuedAt(t) <=>
                      /\ NoDuplicates(terminals[t].blocked_readers)
                      /\ NoDuplicates(terminals[t].blocked_writers)
                      /\ ToSet(terminals[t].blocked_readers) = ReadersAt(t)
                      /\ ToSet(terminals[t].blocked_writers) = WaitersAt(t)
                      /\ \A p \in PCB : terminals[t].current_writer = p
                                          <=> p \in WritersAt(t)
  BY DEF QueuedForm
<1>1. Readers \subseteq PCB /\ LockWaiters \subseteq PCB
  BY DEF Readers, LockWaiters, Blocked, TypeOK, ToSet
<1>2. /\ ToSet(terminals[t].blocked_readers) \subseteq PCB
      /\ ToSet(terminals[t].blocked_writers) \subseteq PCB
  <2>1. /\ terminals[t].blocked_readers \in Seq(PCB)
        /\ terminals[t].blocked_writers \in Seq(PCB)
    BY FieldsOf
  <2> QED BY <2>1 DEF ToSet
<1>3. ToSet(terminals[t].blocked_readers) = ReadersAt(t) <=>
        \A p \in PCB : p \in ToSet(terminals[t].blocked_readers) <=>
                         p \in Readers /\ io[p].tty = t
  BY <1>1, <1>2 DEF ReadersAt
<1>4. ToSet(terminals[t].blocked_writers) = WaitersAt(t) <=>
        \A p \in PCB : p \in ToSet(terminals[t].blocked_writers) <=>
                         p \in LockWaiters /\ io[p].tty = t
  BY <1>1, <1>2 DEF WaitersAt
<1> QED BY <1>3, <1>4 DEF QueuedAt, WritersAt

LEMMA QueuedAtIsNext == TypeOK' /\ StrongTypeOK' => QueuedForm'
BY QueuedAtIs, PTL

LockedForm ==
  \A t \in Terminal :
    Locked(t) <=>
      /\ \A p, q \in PCB :
           /\ terminals[t].current_writer = p \/ p \in TakersAt(t)
           /\ terminals[t].current_writer = q \/ q \in TakersAt(t)
           => p = q
      /\ terminals[t].in_use <=>
           \E p \in PCB : terminals[t].current_writer = p \/ p \in TakersAt(t)
      /\ ~is_empty(terminals[t].blocked_writers) => terminals[t].in_use
      /\ device[t].busy <=> terminals[t].current_writer # NULL

LEMMA LockedIs == LockedForm
BY Zenon DEF LockedForm, Locked, Owner, TakersAt

LEMMA LockedIsNext == LockedForm'
BY LockedIs, PTL

(* Nothing that QueuedAt(t) and Locked(t) speak of changes.                *)
SameQueues(t) ==
  UNCHANGED <<terminals[t].blocked_readers, terminals[t].blocked_writers,
              terminals[t].current_writer, terminals[t].in_use, device[t].busy,
              ReadersAt(t), WaitersAt(t), WritersAt(t), TakersAt(t)>>

LEMMA SameQueuesKeeps ==
  ASSUME TypeOK, StrongTypeOK, TypeOK', StrongTypeOK',
         NEW t \in Terminal, QueuedAt(t), Locked(t), SameQueues(t)
  PROVE  QueuedAt(t)' /\ Locked(t)'
<1>1. /\ terminals'[t].blocked_readers = terminals[t].blocked_readers
      /\ terminals'[t].blocked_writers = terminals[t].blocked_writers
      /\ terminals'[t].current_writer = terminals[t].current_writer
      /\ terminals'[t].in_use = terminals[t].in_use
      /\ device'[t].busy = device[t].busy
      /\ ReadersAt(t)' = ReadersAt(t) /\ WaitersAt(t)' = WaitersAt(t)
      /\ WritersAt(t)' = WritersAt(t) /\ TakersAt(t)' = TakersAt(t)
  BY DEF SameQueues
<1>2. QueuedForm /\ QueuedForm'
  BY QueuedAtIs, QueuedAtIsNext
<1>3. QueuedAt(t)'
  BY <1>1, <1>2, Zenon DEF QueuedForm
<1>4. Locked(t)'
  <2>1. \A p \in PCB : Owner(p, t)' <=> Owner(p, t)
    BY <1>1, Zenon DEF Owner, TakersAt
  <2> QED BY <1>1, <2>1, Zenon DEF Locked
<1> QED BY <1>3, <1>4

(* The input of t that p has in its kernel buffer.                         *)
Holds(p, t) == IF io[p].tty = t THEN ToSet(io[p].read_buf) ELSE {}

Gone(t) == device[t].typed - Len(terminals[t].read_buffer)

ConservedForm ==
  \A t \in Terminal :
    Conserved(t) <=>
      /\ \A i \in DOMAIN terminals[t].read_buffer :
           terminals[t].read_buffer[i] = Gone(t) + i
      /\ (UNION {Holds(p, t) : p \in PCB}) \union device[t].delivered
           = 1 .. Gone(t)
      /\ \A p \in PCB : Holds(p, t) \intersect device[t].delivered = {}
      /\ \A p, q \in PCB : p # q => Holds(p, t) \intersect Holds(q, t) = {}

LEMMA ConservedIs == ConservedForm
<1> SUFFICES ASSUME NEW t \in Terminal
             PROVE  Conserved(t) <=>
                      /\ \A i \in DOMAIN terminals[t].read_buffer :
                           terminals[t].read_buffer[i] = Gone(t) + i
                      /\ (UNION {Holds(p, t) : p \in PCB})
                           \union device[t].delivered = 1 .. Gone(t)
                      /\ \A p \in PCB :
                           Holds(p, t) \intersect device[t].delivered = {}
                      /\ \A p, q \in PCB : p # q =>
                           Holds(p, t) \intersect Holds(q, t) = {}
  BY Zenon DEF ConservedForm
<1> DEFINE buffer == terminals[t].read_buffer
<1>1. Stashed(t) = UNION {Holds(p, t) : p \in PCB}
  <2>1. ASSUME NEW x
        PROVE  x \in Stashed(t) <=> \E p \in PCB : io[p].tty = t
                                                 /\ x \in ToSet(io[p].read_buf)
    BY Zenon DEF Stashed
  <2>2. ASSUME NEW x
        PROVE  x \in UNION {Holds(p, t) : p \in PCB} <=>
                 \E p \in PCB : x \in Holds(p, t)
    BY Zenon
  <2>3. ASSUME NEW x, NEW p \in PCB
        PROVE  x \in Holds(p, t) <=> io[p].tty = t /\ x \in ToSet(io[p].read_buf)
    BY DEF Holds
  <2> QED BY <2>1, <2>2, <2>3, Zenon
<1>2. Stashed(t) \intersect device[t].delivered = {} <=>
        \A p \in PCB : Holds(p, t) \intersect device[t].delivered = {}
  <2>1. \A x : x \in Stashed(t) <=> \E p \in PCB : x \in Holds(p, t)
    BY <1>1, Zenon
  <2> QED BY <2>1, Zenon
<1>3. (\A p, q \in PCB : p # q /\ io[p].tty = t /\ io[q].tty = t =>
         ToSet(io[p].read_buf) \intersect ToSet(io[q].read_buf) = {})
      <=> \A p, q \in PCB : p # q => Holds(p, t) \intersect Holds(q, t) = {}
  <2>1. ASSUME NEW p \in PCB, NEW q \in PCB
        PROVE  (io[p].tty = t /\ io[q].tty = t =>
                  ToSet(io[p].read_buf) \intersect ToSet(io[q].read_buf) = {})
               <=> Holds(p, t) \intersect Holds(q, t) = {}
    BY DEF Holds
  <2> QED BY <2>1, Zenon
<1>4. Conserved(t) <=>
        /\ \A i \in DOMAIN buffer : buffer[i] = Gone(t) + i
        /\ Stashed(t) \union device[t].delivered = 1 .. Gone(t)
        /\ Stashed(t) \intersect device[t].delivered = {}
        /\ \A p, q \in PCB : p # q /\ io[p].tty = t /\ io[q].tty = t =>
             ToSet(io[p].read_buf) \intersect ToSet(io[q].read_buf) = {}
  BY Zenon DEF Conserved, Gone
<1> QED BY <1>1, <1>2, <1>3, <1>4, Zenon

LEMMA ConservedIsNext == ConservedForm'
BY ConservedIs, PTL


(* Nothing that Conserved(t) speaks of changes.                            *)
SameInput(t) ==
  /\ UNCHANGED <<terminals[t].read_buffer, device[t].typed, device[t].delivered>>
  /\ \A p \in PCB : Holds(p, t)' = Holds(p, t)

LEMMA SameInputKeeps ==
  ASSUME NEW t \in Terminal, Conserved(t), SameInput(t)
  PROVE  Conserved(t)'
<1>1. /\ terminals'[t].read_buffer = terminals[t].read_buffer
      /\ Gone(t)' = Gone(t) /\ device'[t].delivered = device[t].delivered
      /\ \A p \in PCB : Holds(p, t)' = Holds(p, t)
  BY DEF SameInput, Gone
<1>2. (UNION {Holds(p, t) : p \in PCB})' = UNION {Holds(p, t) : p \in PCB}
  BY <1>1, Zenon
<1>3. /\ \A i \in DOMAIN terminals'[t].read_buffer :
           terminals'[t].read_buffer[i] = Gone(t)' + i
      /\ (UNION {Holds(p, t) : p \in PCB})' \union device'[t].delivered
           = 1 .. Gone(t)'
      /\ \A p \in PCB : Holds(p, t)' \intersect device'[t].delivered = {}
      /\ \A p, q \in PCB : p # q => Holds(p, t)' \intersect Holds(q, t)' = {}
  BY <1>1, <1>2, ConservedIs, Zenon DEF ConservedForm
<1> QED BY <1>3, ConservedIsNext, Zenon DEF ConservedForm

(* The input stays where it is, and so do the readers that hold it.        *)
KeepsInput ==
  /\ \A t \in Terminal :
       UNCHANGED <<terminals[t].read_buffer, device[t].typed, device[t].delivered>>
  /\ \A p \in PCB :
       /\ io'[p].read_buf = io[p].read_buf
       /\ io[p].read_buf # << >> => /\ io'[p].tty = io[p].tty
                                    /\ io'[p].regs0 = io[p].regs0
                                    /\ p \in WokenReaders'

LEMMA KeepsInputKeeps ==
  ASSUME TtyInput, KeepsInput
  PROVE  TtyInput'
<1>1. ASSUME NEW t \in Terminal PROVE Conserved(t)'
  <2>1. ASSUME NEW p \in PCB PROVE Holds(p, t)' = Holds(p, t)
    <3>1. CASE io[p].read_buf # << >>
      BY <3>1 DEF KeepsInput, Holds
    <3>2. CASE io[p].read_buf = << >>
      <4>1. ToSet(<< >>) = {}
        BY DEF ToSet
      <4> QED BY <3>2, <4>1 DEF KeepsInput, Holds
    <3> QED BY <3>1, <3>2
  <2>2. SameInput(t)
    BY <2>1 DEF SameInput, KeepsInput
  <2> QED BY <2>2, SameInputKeeps DEF TtyInput
<1>2. Stash'
  BY DEF KeepsInput, Stash, TtyInput
<1> QED BY <1>1, <1>2 DEF TtyInput

(* Who holds input was woken in TtyRead.                                   *)
LEMMA OnlyWokenHold ==
  ASSUME Stash, NEW p \in PCB, p \notin WokenReaders
  PROVE  io[p].read_buf = << >>
BY DEF Stash

-----------------------------------------------------------------------------
(* The steps of module Processes, and stuttering, do not concern them.     *)
LEMMA StillKeeps ==
  ASSUME KernelInv, TypeOK', UNCHANGED ttyVars, TtyStill, Sane
  PROVE  TtyWaits' /\ TtyInput'
<1>1. /\ TypeOK /\ StrongTypeOK /\ TtyWaits /\ TtyInput
  BY DEF KernelInv, PlacementInv
<1>2. UNCHANGED <<terminals, io, device, rx, failures>>
  BY DEF ttyVars
<1>3. UNCHANGED <<Readers, LockWaiters, Writers, WokenReaders, Takers>>
  BY DEF TtyStill
<1>4. StrongTypeOK'
  BY <1>1, <1>2, TerminalsKeepType
<1>5. ASSUME NEW t \in Terminal PROVE QueuedAt(t)' /\ Locked(t)'
  <2>1. SameQueues(t)
    BY <1>2, <1>3 DEF SameQueues, ReadersAt, WaitersAt, WritersAt, TakersAt
  <2> QED BY <1>1, <1>4, <2>1, SameQueuesKeeps DEF TtyWaits
<1>6. KeepsInput
  BY <1>1, <1>2, <1>3 DEF KeepsInput, TtyInput, Stash
<1> QED BY <1>1, <1>5, <1>6, KeepsInputKeeps DEF TtyWaits

LEMMA ProcNextKernel ==
  ASSUME KernelInv, ProcNext, UNCHANGED ttyVars
  PROVE  KernelInv'
<1>1. TypeOK /\ PlacementInv /\ StrongTypeOK /\ Served
  BY DEF KernelInv, PlacementInv
<1>2. PlacementInv'
  BY <1>1, ProcNextType, ProcNextLinked, ProcNextPlaces DEF PlacementInv
<1>3. StrongTypeOK'
  BY <1>1, TerminalsKeepType DEF ttyVars
<1>4. Served'
  BY <1>1, ProcNextNotInReceive DEF Served, ttyVars
<1>5. ASSUME Sane' PROVE Labels' /\ TtyWaits' /\ TtyInput'
  <2>1. Sane
    BY <1>5, FaultsGrow DEF Sane
  <2>2. Labels
    BY <2>1 DEF KernelInv
  <2>3. TtyStill /\ Labels'
    BY <1>1, <1>5, <2>2, ProcNextStill
  <2>4. TypeOK'
    BY <1>2 DEF PlacementInv
  <2> QED BY <2>1, <2>3, <2>4, StillKeeps
<1> QED BY <1>2, <1>3, <1>4, <1>5 DEF KernelInv

LEMMA StutterKernel ==
  ASSUME KernelInv, UNCHANGED allVars
  PROVE  KernelInv'
<1>1. UNCHANGED procVars /\ UNCHANGED ttyVars
  BY DEF allVars
<1>2. PlacementInv /\ StrongTypeOK /\ Served
  BY DEF KernelInv
<1>3. PlacementInv'
  BY <1>1, <1>2, PlacementStep
<1>4. StrongTypeOK'
  BY <1>1, <1>2, TerminalsKeepType DEF ttyVars
<1>5. Served'
  BY <1>1, <1>2 DEF Served, ttyVars, procVars
<1>6. ASSUME Sane' PROVE Labels' /\ TtyWaits' /\ TtyInput'
  <2>1. Sane
    BY <1>1, <1>6 DEF Sane, procVars
  <2>2. Labels
    BY <2>1 DEF KernelInv
  <2>3. UNCHANGED <<Ready, Blocked, Asleep, pcb, kpc, current_process>>
    BY <1>1 DEF Ready, Blocked, Asleep, SleepsInWait, procVars
  <2>4. Labels'
    BY <2>2, <2>3 DEF Labels
  <2>5. TtyStill
    BY <2>3 DEF TtyStill, Readers, LockWaiters, Writers, WokenReaders, Takers,
               Resumable
  <2>6. TypeOK'
    BY <1>3 DEF PlacementInv
  <2> QED BY <1>1, <2>1, <2>4, <2>5, <2>6, StillKeeps
<1> QED BY <1>3, <1>4, <1>5, <1>6 DEF KernelInv


-----------------------------------------------------------------------------
(* The terminal steps: the state before, and what is left to show of the   *)
(* state after.                                                            *)
TtyBefore == KernelInv /\ Sane /\ machine = "on"

TtyAfter == Placement /\ Labels /\ TtyWaits /\ TtyInput

LEMMA TtyBeforeFacts ==
  ASSUME TtyBefore
  PROVE  /\ Before /\ Labels /\ TtyWaits /\ TtyInput /\ Stash /\ Served
         /\ TypeOK /\ StrongTypeOK /\ Placement
         /\ current_process \in PCB /\ current_process \notin Blocked
         /\ current_process \notin Readers /\ current_process \notin LockWaiters
         /\ current_process \notin Writers
         /\ kpc # "resume" => /\ current_process \notin WokenReaders
                              /\ current_process \notin Takers
<1>1. Before /\ Labels /\ TtyWaits /\ TtyInput /\ StrongTypeOK /\ Served
  BY DEF TtyBefore, KernelInv, Before, PlacementInv
<1>2. /\ current_process \in PCB /\ current_process \notin Blocked
      /\ current_process \notin Ready
  BY <1>1, Apart
<1>3. kpc # "resume" => /\ current_process \notin WokenReaders
                        /\ current_process \notin Takers
  BY <1>2 DEF WokenReaders, Takers, Resumable
<1> QED BY <1>1, <1>2, <1>3 DEF Before, TtyInput, Readers, LockWaiters, Writers

(* Nobody enters or leaves a call, and no lock or queue changes.           *)
SameCalls ==
  /\ UNCHANGED <<Readers, LockWaiters, Writers, Takers>>
  /\ \A p \in PCB : p \in Readers \/ p \in LockWaiters \/ p \in Writers \/ p \in Takers
                    => io'[p].tty = io[p].tty
  /\ \A t \in Terminal :
       UNCHANGED <<terminals[t].blocked_readers, terminals[t].blocked_writers,
                   terminals[t].current_writer, terminals[t].in_use,
                   device[t].busy>>

LEMMA SameCallsKeep ==
  ASSUME TtyBefore, TypeOK', StrongTypeOK', SameCalls
  PROVE  TtyWaits'
<1>1. TypeOK /\ StrongTypeOK /\ TtyWaits
  BY TtyBeforeFacts
<1>2. /\ Readers \subseteq PCB /\ LockWaiters \subseteq PCB
      /\ Writers \subseteq PCB /\ Takers \subseteq PCB
  BY <1>1 DEF Readers, LockWaiters, Writers, Takers, Blocked, TypeOK, ToSet
<1>3. ASSUME NEW t \in Terminal PROVE QueuedAt(t)' /\ Locked(t)'
  <2>1. /\ ReadersAt(t)' = ReadersAt(t) /\ WaitersAt(t)' = WaitersAt(t)
    BY <1>2 DEF SameCalls, ReadersAt, WaitersAt
  <2>2. /\ WritersAt(t)' = WritersAt(t) /\ TakersAt(t)' = TakersAt(t)
    BY <1>2 DEF SameCalls, WritersAt, TakersAt
  <2>3. SameQueues(t)
    BY <2>1, <2>2 DEF SameQueues, SameCalls
  <2> QED BY <1>1, <2>3, SameQueuesKeeps DEF TtyWaits
<1> QED BY <1>3 DEF TtyWaits

(* The steps that change no queue, PCB, terminal or kernel buffer.         *)
LEMMA QuietTty ==
  ASSUME TtyBefore, TypeOK', StrongTypeOK', kpc # "resume", kpc' # "resume",
         UNCHANGED <<machine, current_process, ready_queue, blocked_queue,
                     zombie_queue, proc_table, pcb, freed, terminals, io, device>>
  PROVE  TtyAfter'
<1>1. /\ Before /\ Labels /\ TtyWaits /\ TtyInput /\ Stash
      /\ current_process \notin WokenReaders /\ current_process \notin Takers
  BY TtyBeforeFacts
<1>2. /\ Placement' /\ Labels' /\ UNCHANGED <<Readers, LockWaiters, Writers>>
      /\ WokenReaders' = WokenReaders /\ Takers' = Takers
  BY <1>1, ReturnEffect
<1>3. SameCalls
  BY <1>2 DEF SameCalls
<1>4. KeepsInput
  BY <1>1, <1>2 DEF KeepsInput, Stash
<1> QED BY <1>1, <1>2, <1>3, <1>4, SameCallsKeep, KeepsInputKeeps DEF TtyAfter

LEMMA NextChunkStep ==
  ASSUME TtyBefore, TypeOK', StrongTypeOK', NEW t \in Terminal,
         TransmitNextChunk(t)
  PROVE  TtyAfter'
<1> DEFINE pos == terminals[t].write_pos
                    + MinOf(terminals[t].write_len - terminals[t].write_pos, MaxLine)
<1>1. /\ terminals' = [terminals EXCEPT ![t].write_pos = pos]
      /\ kpc # "resume" /\ kpc' # "resume"
      /\ UNCHANGED <<machine, current_process, ready_queue, blocked_queue,
                     zombie_queue, proc_table, pcb, freed, io, device>>
  BY DEF TransmitNextChunk, TransmitInterrupt, InUser
<1> HIDE DEF pos
<1>2. /\ Before /\ Labels /\ TtyWaits /\ TtyInput /\ Stash
      /\ current_process \notin WokenReaders /\ current_process \notin Takers
      /\ terminals \in [Terminal -> StrongTerminalType]
  BY <1>1, TtyBeforeFacts DEF StrongTypeOK
<1>3. /\ Placement' /\ Labels' /\ UNCHANGED <<Readers, LockWaiters, Writers>>
      /\ WokenReaders' = WokenReaders /\ Takers' = Takers
  BY <1>1, <1>2, ReturnEffect
<1>4. ASSUME NEW u \in Terminal
      PROVE  UNCHANGED <<terminals[u].blocked_readers, terminals[u].blocked_writers,
                         terminals[u].current_writer, terminals[u].in_use,
                         terminals[u].read_buffer>>
  BY <1>1, <1>2, SMT DEF StrongTerminalType
<1>5. SameCalls
  BY <1>1, <1>3, <1>4 DEF SameCalls
<1>6. KeepsInput
  BY <1>1, <1>2, <1>3, <1>4 DEF KeepsInput, Stash
<1> QED BY <1>2, <1>3, <1>5, <1>6, SameCallsKeep, KeepsInputKeeps DEF TtyAfter

(* What CallEnds leaves of the fields of the caller.                       *)
LEMMA CallEndsEffect ==
  ASSUME StrongTypeOK, NEW p \in PCB
  PROVE  /\ CallEnds(p)[p].read_buf = io[p].read_buf
         /\ \A q \in PCB \ {p} : CallEnds(p)[q] = io[q]
<1>1. io \in [PCB -> StrongIoType]
  BY DEF StrongTypeOK
<1> QED BY <1>1, SMT DEF CallEnds, StrongIoType

LEMMA WriteResumesStep ==
  ASSUME TtyBefore, TypeOK', StrongTypeOK', TtyWriteResumes
  PROVE  TtyAfter'
<1> DEFINE cp == current_process
<1>1. /\ io' = CallEnds(cp) /\ kpc' # "resume"
      /\ pcb[cp].kctx = "ttywrite"
      /\ UNCHANGED <<machine, current_process, ready_queue, blocked_queue,
                     zombie_queue, proc_table, pcb, freed, terminals, device>>
  BY DEF TtyWriteResumes, Return, Resumes
<1>2. /\ Before /\ Labels /\ TtyWaits /\ TtyInput /\ Stash /\ StrongTypeOK
      /\ cp \in PCB /\ cp \notin Readers /\ cp \notin LockWaiters
      /\ cp \notin Writers
  BY TtyBeforeFacts
<1>3. cp \notin WokenReaders /\ cp \notin Takers
  BY <1>1 DEF WokenReaders, Takers
<1>4. /\ Placement' /\ Labels' /\ UNCHANGED <<Readers, LockWaiters, Writers>>
      /\ WokenReaders' = WokenReaders /\ Takers' = Takers
  BY <1>1, <1>2, <1>3, ReturnEffect
<1>5. /\ io'[cp].read_buf = io[cp].read_buf
      /\ \A q \in PCB \ {cp} : io'[q] = io[q]
  BY <1>1, <1>2, CallEndsEffect
<1>6. io[cp].read_buf = << >>
  BY <1>2, <1>3, OnlyWokenHold
<1> HIDE DEF cp
<1>7. SameCalls
  BY <1>1, <1>2, <1>3, <1>4, <1>5 DEF SameCalls
<1>8. KeepsInput
  BY <1>1, <1>2, <1>4, <1>5, <1>6 DEF KeepsInput, Stash
<1> QED BY <1>2, <1>4, <1>7, <1>8, SameCallsKeep, KeepsInputKeeps DEF TtyAfter


(* The numbers up to g, and the next n.                                    *)
LEMMA IntervalFacts ==
  ASSUME NEW g \in Nat, NEW n \in Nat
  PROVE  /\ 1 .. g + n = (1 .. g) \union (g + 1 .. g + n)
         /\ (1 .. g) \intersect (g + 1 .. g + n) = {}
         /\ \A x \in g + 1 .. g + n : x - g \in 1 .. n /\ g + (x - g) = x
<1>1. \A x : x \in 1 .. g + n <=> x \in 1 .. g \/ x \in g + 1 .. g + n
  OBVIOUS
<1>2. \A x : ~(x \in 1 .. g /\ x \in g + 1 .. g + n)
  OBVIOUS
<1>3. \A x \in g + 1 .. g + n : x - g \in 1 .. n /\ g + (x - g) = x
  OBVIOUS
<1> QED BY <1>1, <1>2, <1>3

(* The first n bytes of a read buffer are the next n that were typed.      *)
LEMMA TakeBytes ==
  ASSUME StrongTypeOK, NEW t \in Terminal, Conserved(t),
         NEW n \in 0 .. Len(terminals[t].read_buffer)
  PROVE  /\ Gone(t) \in Nat /\ n \in Nat
         /\ ToSet(Bytes(t, n)) = Gone(t) + 1 .. Gone(t) + n
         /\ Len(Shifted(t, n)) = Len(terminals[t].read_buffer) - n
         /\ \A i \in DOMAIN Shifted(t, n) : Shifted(t, n)[i] = Gone(t) + n + i
         /\ 1 .. Gone(t) + n = (1 .. Gone(t)) \union (Gone(t) + 1 .. Gone(t) + n)
         /\ (1 .. Gone(t)) \intersect (Gone(t) + 1 .. Gone(t) + n) = {}
<1> DEFINE buffer == terminals[t].read_buffer
           k == Len(buffer)
           g == Gone(t)
           s == Shifted(t, n)
           b == Bytes(t, n)
<1>1. /\ buffer \in Seq(Byte) /\ k \in Nat /\ device[t].typed \in Nat
      /\ n \in Nat /\ n <= k /\ g = device[t].typed - k
  BY FieldsOf, TerminalFacts DEF Gone
<1>2. \A i \in 1 .. k : buffer[i] = g + i /\ buffer[i] \in Nat /\ buffer[i] >= 1
  <2>1. \A i \in DOMAIN buffer : buffer[i] = g + i
    BY ConservedIs DEF ConservedForm
  <2>2. \A i \in 1 .. k : buffer[i] \in Byte
    BY <1>1
  <2> QED BY <1>1, <2>1, <2>2, TerminalFacts DEF Byte
<1>3. /\ b \in Seq(Byte) /\ Len(b) = n /\ \A i \in 1 .. n : b[i] = buffer[i]
      /\ s \in Seq(Byte) /\ Len(s) = k - n
      /\ \A i \in 1 .. k - n : s[i] = buffer[n + i]
  BY <1>1, BufferSplit
<1> HIDE DEF buffer, k, g, s, b
<1>4. g \in Nat
  <2>1. CASE k = 0
    BY <1>1, <2>1
  <2>2. CASE k > 0
    <3>1. 1 \in 1 .. k
      BY <1>1, <2>2
    <3>2. buffer[1] = g + 1 /\ buffer[1] >= 1
      BY <1>2, <3>1
    <3> QED BY <1>1, <3>2
  <2> QED BY <1>1, <2>1, <2>2
<1>5. ToSet(b) = g + 1 .. g + n
  <2>0. DOMAIN b = 1 .. n
    BY <1>3
  <2>1. ToSet(b) = {b[i] : i \in 1 .. n}
    BY <2>0 DEF ToSet
  <2>2. ASSUME NEW i \in 1 .. n PROVE b[i] = g + i
    <3>1. i \in 1 .. k
      BY <1>1
    <3> QED BY <1>2, <1>3, <3>1
  <2>3. ASSUME NEW i \in 1 .. n PROVE b[i] \in g + 1 .. g + n
    BY <1>1, <1>4, <2>2, SMTT(30)
  <2>5. \A x \in g + 1 .. g + n : x - g \in 1 .. n /\ g + (x - g) = x
    <3>1. g \in Nat /\ n \in Nat
      BY <1>1, <1>4
    <3> QED BY <3>1, IntervalFacts, Zenon
  <2>4. ASSUME NEW x \in g + 1 .. g + n PROVE x \in {b[i] : i \in 1 .. n}
    <3>1. x - g \in 1 .. n /\ g + (x - g) = x
      BY <2>5
    <3>2. b[x - g] = x
      BY <2>2, <3>1
    <3> QED BY <3>1, <3>2
  <2> QED BY <2>1, <2>3, <2>4
<1>6. \A i \in DOMAIN s : s[i] = g + n + i
  <2>1. ASSUME NEW i \in 1 .. k - n PROVE s[i] = g + n + i
    <3>1. n + i \in 1 .. k
      BY <1>1
    <3>2. buffer[n + i] = g + (n + i)
      BY <1>2, <3>1
    <3> QED BY <1>1, <1>3, <1>4, <3>2, SMTT(30)
  <2>2. DOMAIN s = 1 .. k - n
    BY <1>3
  <2> QED BY <2>1, <2>2
<1>7. /\ 1 .. g + n = (1 .. g) \union (g + 1 .. g + n)
      /\ (1 .. g) \intersect (g + 1 .. g + n) = {}
  BY <1>1, <1>4, IntervalFacts
<1> QED BY <1>1, <1>3, <1>4, <1>5, <1>6, <1>7 DEF buffer, k, g, s, b

(* TtyRead takes its bytes from the buffer and delivers them.              *)
LEMMA ReadReturnsStep ==
  ASSUME TtyBefore, TypeOK', StrongTypeOK', NEW t \in Terminal,
         NEW len \in ReadLens, TtyReadReturns(t, len)
  PROVE  TtyAfter'
<1> DEFINE cp == current_process
           n == MinOf(len, Len(terminals[t].read_buffer))
<1>1. /\ terminals' = [terminals EXCEPT ![t].read_buffer = Shifted(t, n)]
      /\ device' = [device EXCEPT ![t].delivered = @ \union ToSet(Bytes(t, n))]
      /\ io' = [io EXCEPT ![cp].read_buf = << >>]
      /\ kpc # "resume" /\ kpc' # "resume"
      /\ UNCHANGED <<machine, current_process, ready_queue, blocked_queue,
                     zombie_queue, proc_table, pcb, freed>>
  BY DEF TtyReadReturns, UserTrap, InUser, Return
<1>2. /\ Before /\ Labels /\ TtyWaits /\ TtyInput /\ Stash /\ StrongTypeOK
      /\ cp \in PCB /\ cp \notin WokenReaders /\ cp \notin Takers
  BY <1>1, TtyBeforeFacts
<1>3. /\ terminals \in [Terminal -> StrongTerminalType]
      /\ device \in [Terminal -> DeviceType] /\ io \in [PCB -> StrongIoType]
  BY <1>2 DEF StrongTypeOK
<1>4. n \in 0 .. Len(terminals[t].read_buffer)
  <2> DEFINE k == Len(terminals[t].read_buffer)
  <2>1. k \in Nat /\ len \in Nat
    BY <1>2, FieldsOf, TerminalFacts
  <2> HIDE DEF k
  <2>2. MinOf(len, k) \in Nat /\ MinOf(len, k) <= k
    BY <2>1, MinOfFacts
  <2> QED BY <2>1, <2>2 DEF k
<1> HIDE DEF n, cp
<1>5. /\ Placement' /\ Labels' /\ UNCHANGED <<Readers, LockWaiters, Writers>>
      /\ WokenReaders' = WokenReaders /\ Takers' = Takers
  BY <1>1, <1>2, ReturnEffect DEF cp
<1>6. ASSUME NEW u \in Terminal
      PROVE  /\ UNCHANGED <<terminals[u].blocked_readers,
                            terminals[u].blocked_writers,
                            terminals[u].current_writer, terminals[u].in_use,
                            device[u].busy, device[u].typed>>
             /\ u # t => /\ terminals'[u].read_buffer = terminals[u].read_buffer
                         /\ device'[u].delivered = device[u].delivered
  BY <1>1, <1>3, SMT DEF StrongTerminalType, DeviceType
<1>7. /\ terminals'[t].read_buffer = Shifted(t, n)
      /\ device'[t].delivered = device[t].delivered \union ToSet(Bytes(t, n))
  BY <1>1, <1>3, SMT DEF StrongTerminalType, DeviceType
<1>8. ASSUME NEW p \in PCB
      PROVE  /\ io'[p].tty = io[p].tty /\ io'[p].read_buf = io[p].read_buf
             /\ io'[p].regs0 = io[p].regs0
  <2>1. io[cp].read_buf = << >>
    BY <1>2, OnlyWokenHold
  <2> QED BY <1>1, <1>2, <1>3, <2>1, SMT DEF StrongIoType
<1>9. TtyWaits'
  <2>1. SameCalls
    BY <1>5, <1>6, <1>8 DEF SameCalls
  <2> QED BY <2>1, SameCallsKeep
<1>10. Stash'
  BY <1>2, <1>5, <1>8 DEF Stash
<1>11. \A p \in PCB, u \in Terminal : Holds(p, u)' = Holds(p, u)
  BY <1>8 DEF Holds
<1>12. ASSUME NEW u \in Terminal, u # t PROVE Conserved(u)'
  <2>1. SameInput(u)
    BY <1>6, <1>11, <1>12 DEF SameInput
  <2> QED BY <1>2, <2>1, SameInputKeeps DEF TtyInput
<1>13. Conserved(t)'
  <2> DEFINE g == Gone(t)
             b == ToSet(Bytes(t, n))
             held == UNION {Holds(p, t) : p \in PCB}
             new == Shifted(t, n)
  <2>1. Conserved(t)
    BY <1>2 DEF TtyInput
  <2>2. /\ g \in Nat /\ n \in Nat /\ b = g + 1 .. g + n
        /\ Len(new) = Len(terminals[t].read_buffer) - n
        /\ \A i \in DOMAIN new : new[i] = g + n + i
        /\ 1 .. g + n = (1 .. g) \union b /\ (1 .. g) \intersect b = {}
    BY <1>2, <1>4, <2>1, TakeBytes
  <2>3. /\ held \union device[t].delivered = 1 .. g
        /\ \A p \in PCB : Holds(p, t) \intersect device[t].delivered = {}
        /\ \A p, q \in PCB : p # q => Holds(p, t) \intersect Holds(q, t) = {}
    BY <2>1, ConservedIs DEF ConservedForm
  <2>4. Gone(t)' = g + n
    <3>1. device'[t].typed = device[t].typed /\ device[t].typed \in Nat
      BY <1>2, <1>6, FieldsOf, TerminalFacts
    <3>2. Len(terminals[t].read_buffer) \in Nat
      BY <1>2, FieldsOf
    <3> QED BY <1>7, <2>2, <3>1, <3>2 DEF Gone
  <2>5. (UNION {Holds(p, t) : p \in PCB})' = held
    BY <1>11, Zenon
  <2> HIDE DEF g, b, new
  <2>6. \A i \in DOMAIN terminals'[t].read_buffer :
          terminals'[t].read_buffer[i] = Gone(t)' + i
    BY <1>7, <2>2, <2>4 DEF new
  <2>7. (UNION {Holds(p, t) : p \in PCB})' \union device'[t].delivered
          = 1 .. Gone(t)'
    <3> HIDE DEF held
    <3> QED BY <1>7, <2>2, <2>3, <2>4, <2>5 DEF b
  <2>8. \A p \in PCB : Holds(p, t)' \intersect device'[t].delivered = {}
    <3>1. ASSUME NEW p \in PCB PROVE Holds(p, t) \subseteq 1 .. g
      BY <2>3, Zenon
    <3> QED BY <1>7, <1>11, <2>2, <2>3, <3>1 DEF b
  <2>9. \A p, q \in PCB : p # q => Holds(p, t)' \intersect Holds(q, t)' = {}
    BY <1>11, <2>3
  <2> QED BY <2>6, <2>7, <2>8, <2>9, ConservedIsNext, Zenon DEF ConservedForm
<1> QED BY <1>5, <1>9, <1>10, <1>12, <1>13 DEF TtyAfter, TtyInput


(* TtyRead goes on after it was woken: what its kernel buffer holds is     *)
(* delivered.                                                              *)
LEMMA ReadResumesStep ==
  ASSUME TtyBefore, TypeOK', StrongTypeOK', TtyReadResumes
  PROVE  TtyAfter'
<1> DEFINE cp == current_process
           unpack == io[cp].regs0 > 0 /\ io[cp].read_buf # << >>
           tty == io[cp].tty
<1>1. /\ io' = IF unpack THEN [CallEnds(cp) EXCEPT ![cp].read_buf = << >>]
               ELSE CallEnds(cp)
      /\ device' = IF unpack
                   THEN [device EXCEPT ![tty].delivered =
                                           @ \union ToSet(io[cp].read_buf)]
                   ELSE device
      /\ kpc' # "resume" /\ pcb[cp].kctx = "ttyread"
      /\ UNCHANGED <<machine, current_process, ready_queue, blocked_queue,
                     zombie_queue, proc_table, pcb, freed, terminals>>
  BY DEF TtyReadResumes, Return, Resumes
<1>2. /\ Before /\ Labels /\ TtyWaits /\ TtyInput /\ Stash /\ StrongTypeOK
      /\ cp \in PCB /\ cp \notin Readers /\ cp \notin LockWaiters
      /\ cp \notin Writers
  BY TtyBeforeFacts
<1>3. cp \notin Takers
  BY <1>1 DEF Takers
<1>4. /\ Placement' /\ Labels' /\ UNCHANGED <<Readers, LockWaiters, Writers>>
      /\ WokenReaders' = WokenReaders \ {cp} /\ Takers' = Takers
  BY <1>1, <1>2, <1>3, ReturnEffect
<1>5. unpack <=> io[cp].read_buf # << >>
  BY <1>2 DEF Stash
<1>6. /\ io \in [PCB -> StrongIoType] /\ device \in [Terminal -> DeviceType]
      /\ tty \in Terminal
  BY <1>2, FieldsOf DEF StrongTypeOK
<1>7. /\ io'[cp].read_buf = << >>
      /\ \A q \in PCB \ {cp} : io'[q] = io[q]
  <2>1. /\ CallEnds(cp)[cp].read_buf = io[cp].read_buf
        /\ \A q \in PCB \ {cp} : CallEnds(cp)[q] = io[q]
        /\ CallEnds(cp) \in [PCB -> StrongIoType]
    <3> HIDE DEF cp
    <3>1. CallEnds(cp) \in [PCB -> StrongIoType]
      BY <1>2, <1>6, CallEndsType
    <3> QED BY <1>2, <3>1, CallEndsEffect
  <2>2. CASE unpack
    <3> DEFINE c == CallEnds(cp)
    <3>1. io' = [c EXCEPT ![cp].read_buf = << >>]
      BY <1>1, <2>2
    <3> HIDE DEF c, cp
    <3> QED BY <1>2, <2>1, <3>1 DEF StrongIoType, c
  <2>3. CASE ~unpack
    BY <1>1, <1>5, <2>1, <2>3
  <2> QED BY <2>2, <2>3
<1>8. ASSUME NEW u \in Terminal
      PROVE  /\ device'[u].busy = device[u].busy
             /\ device'[u].typed = device[u].typed
             /\ device'[u].delivered = device[u].delivered \union Holds(cp, u)
  <2>1. CASE unpack
    <3>1. device' = [device EXCEPT ![tty].delivered =
                                       @ \union ToSet(io[cp].read_buf)]
      BY <1>1, <2>1
    <3> HIDE DEF cp
    <3> QED BY <1>6, <3>1, SMT DEF DeviceType, Holds
  <2>2. CASE ~unpack
    <3>1. Holds(cp, u) = {} /\ device' = device
      BY <1>1, <1>5, <2>2 DEF Holds, ToSet
    <3> QED BY <3>1
  <2> QED BY <2>1, <2>2
<1> HIDE DEF cp
<1>9. TtyWaits'
  <2>1. SameCalls
    BY <1>1, <1>2, <1>3, <1>4, <1>7, <1>8 DEF SameCalls
  <2> QED BY <2>1, SameCallsKeep
<1>10. Stash'
  BY <1>2, <1>4, <1>7 DEF Stash
<1>11. ASSUME NEW u \in Terminal PROVE Conserved(u)'
  <2> DEFINE h(p) == Holds(p, u)
             held == UNION {Holds(p, u) : p \in PCB}
             d == device[u].delivered
             d2 == device'[u].delivered
  <2>1. Conserved(u)
    BY <1>2 DEF TtyInput
  <2>2. /\ \A i \in DOMAIN terminals[u].read_buffer :
             terminals[u].read_buffer[i] = Gone(u) + i
        /\ held \union d = 1 .. Gone(u)
        /\ \A p \in PCB : Holds(p, u) \intersect d = {}
        /\ \A p, q \in PCB : p # q => Holds(p, u) \intersect Holds(q, u) = {}
    BY <2>1, ConservedIs DEF ConservedForm
  <2>3. /\ \A p \in PCB : Holds(p, u)' = IF p = cp THEN {} ELSE Holds(p, u)
        /\ d2 = d \union Holds(cp, u)
        /\ Gone(u)' = Gone(u) /\ terminals' = terminals
    <3>1. ToSet(<< >>) = {}
      BY DEF ToSet
    <3>2. \A p \in PCB : Holds(p, u)' = IF p = cp THEN {} ELSE Holds(p, u)
      BY <1>7, <3>1 DEF Holds
    <3>3. Gone(u)' = Gone(u) /\ terminals' = terminals
      BY <1>1, <1>8 DEF Gone
    <3> QED BY <1>8, <3>2, <3>3
  <2> HIDE DEF d, d2
  <2>4. (UNION {Holds(p, u) : p \in PCB})' \union d2 = 1 .. Gone(u)
    <3>1. ASSUME NEW x
          PROVE  x \in (UNION {Holds(p, u) : p \in PCB})' \union d2
                   <=> x \in held \union d
      <4>1. x \in (UNION {Holds(p, u) : p \in PCB})' <=>
              \E p \in PCB : x \in Holds(p, u)'
        BY Zenon
      <4>2. x \in held <=> \E p \in PCB : x \in Holds(p, u)
        BY Zenon
      <4>3. (\E p \in PCB : x \in Holds(p, u)') <=>
              \E p \in PCB : p # cp /\ x \in Holds(p, u)
        BY <2>3
      <4> QED BY <1>2, <2>3, <4>1, <4>2, <4>3, Zenon
    <3> QED BY <2>2, <3>1, Zenon
  <2>5. \A p \in PCB : Holds(p, u)' \intersect d2 = {}
    BY <1>2, <2>2, <2>3
  <2>6. \A p, q \in PCB : p # q => Holds(p, u)' \intersect Holds(q, u)' = {}
    BY <2>2, <2>3
  <2> QED BY <2>2, <2>3, <2>4, <2>5, <2>6, ConservedIsNext, Zenon
          DEF ConservedForm, d2
<1> QED BY <1>4, <1>9, <1>10, <1>11 DEF TtyAfter, TtyInput


(* The caller falls asleep in a call of terminal t.                        *)
SleepsAt(label, t) ==
  /\ BlocksIn(label) /\ current_process # idle_proc
  /\ kpc # "resume" \/ pcb[current_process].kctx # "ttyread"
  /\ \A p \in PCB : p = current_process => io'[p].tty = t
  /\ \A p \in PCB : /\ io'[p].read_buf = io[p].read_buf
                    /\ p # current_process => io'[p] = io[p]
  /\ \A u \in Terminal :
       UNCHANGED <<terminals[u].read_buffer, device[u].typed, device[u].delivered>>

LEMMA SleepsAtEffect ==
  ASSUME TtyBefore, Sane', NEW label \in TtyLabel, NEW t \in Terminal,
         SleepsAt(label, t)
  PROVE  /\ Placement' /\ Labels' /\ TtyInput'
         /\ \A u \in Terminal :
              /\ ReadersAt(u)' = IF label = "ttyread" /\ u = t
                                 THEN ReadersAt(u) \union {current_process}
                                 ELSE ReadersAt(u)
              /\ WaitersAt(u)' = IF label = "ttylock" /\ u = t
                                 THEN WaitersAt(u) \union {current_process}
                                 ELSE WaitersAt(u)
              /\ WritersAt(u)' = IF label = "ttywrite" /\ u = t
                                 THEN WritersAt(u) \union {current_process}
                                 ELSE WritersAt(u)
              /\ TakersAt(u)' = TakersAt(u) \ {current_process}
              /\ current_process \notin ReadersAt(u)
              /\ current_process \notin WaitersAt(u)
              /\ current_process \notin WritersAt(u)
<1> DEFINE cp == current_process
<1>1. /\ Before /\ Labels /\ TtyInput /\ Stash /\ TypeOK
      /\ cp \in PCB /\ cp \notin Readers /\ cp \notin LockWaiters
      /\ cp \notin Writers
  BY TtyBeforeFacts
<1>2. /\ BlocksIn(label) /\ cp # idle_proc
      /\ kpc # "resume" \/ pcb[cp].kctx # "ttyread"
      /\ io'[cp].tty = t
      /\ \A p \in PCB : /\ io'[p].read_buf = io[p].read_buf
                        /\ p # cp => io'[p] = io[p]
      /\ \A u \in Terminal :
           UNCHANGED <<terminals[u].read_buffer, device[u].typed,
                       device[u].delivered>>
  BY <1>1 DEF SleepsAt
<1>3. /\ Placement' /\ Labels'
      /\ Readers' = IF label = "ttyread" THEN Readers \union {cp} ELSE Readers
      /\ LockWaiters' = IF label = "ttylock" THEN LockWaiters \union {cp}
                        ELSE LockWaiters
      /\ Writers' = IF label = "ttywrite" THEN Writers \union {cp} ELSE Writers
      /\ WokenReaders' = WokenReaders /\ Takers' = Takers \ {cp}
      /\ cp \notin WokenReaders
  BY <1>1, <1>2, BlocksEffect
<1>4. /\ Readers \subseteq PCB /\ LockWaiters \subseteq PCB
      /\ Writers \subseteq PCB /\ Takers \subseteq PCB
  BY <1>1 DEF Readers, LockWaiters, Writers, Takers, Blocked, TypeOK, ToSet
<1> HIDE DEF cp
<1>5. TtyInput'
  <2>1. io[cp].read_buf = << >>
    BY <1>1, <1>3, OnlyWokenHold
  <2>2. KeepsInput
    BY <1>1, <1>2, <1>3, <2>1 DEF KeepsInput, Stash
  <2> QED BY <1>1, <2>2, KeepsInputKeeps
<1>6. ASSUME NEW u \in Terminal
      PROVE  /\ ReadersAt(u)' = IF label = "ttyread" /\ u = t
                                THEN ReadersAt(u) \union {cp} ELSE ReadersAt(u)
             /\ WaitersAt(u)' = IF label = "ttylock" /\ u = t
                                THEN WaitersAt(u) \union {cp} ELSE WaitersAt(u)
             /\ WritersAt(u)' = IF label = "ttywrite" /\ u = t
                                THEN WritersAt(u) \union {cp} ELSE WritersAt(u)
             /\ TakersAt(u)' = TakersAt(u) \ {cp}
  <2>1. \A p \in PCB : p # cp => io'[p].tty = io[p].tty
    BY <1>2
  <2>2. ReadersAt(u)' = IF label = "ttyread" /\ u = t
                        THEN ReadersAt(u) \union {cp} ELSE ReadersAt(u)
    BY <1>1, <1>2, <1>3, <1>4, <2>1 DEF ReadersAt
  <2>3. WaitersAt(u)' = IF label = "ttylock" /\ u = t
                        THEN WaitersAt(u) \union {cp} ELSE WaitersAt(u)
    BY <1>1, <1>2, <1>3, <1>4, <2>1 DEF WaitersAt
  <2>4. WritersAt(u)' = IF label = "ttywrite" /\ u = t
                        THEN WritersAt(u) \union {cp} ELSE WritersAt(u)
    BY <1>1, <1>2, <1>3, <1>4, <2>1 DEF WritersAt
  <2>5. TakersAt(u)' = TakersAt(u) \ {cp}
    BY <1>3, <1>4, <2>1 DEF TakersAt
  <2> QED BY <2>2, <2>3, <2>4, <2>5
<1>7. \A u \in Terminal : /\ cp \notin ReadersAt(u) /\ cp \notin WaitersAt(u)
                          /\ cp \notin WritersAt(u)
  BY <1>1 DEF ReadersAt, WaitersAt, WritersAt
<1> QED BY <1>3, <1>5, <1>6, <1>7 DEF cp

(* TtyRead without input: the caller sleeps as the last reader of t.       *)
LEMMA ReadBlocksStep ==
  ASSUME TtyBefore, TypeOK', StrongTypeOK', Sane', NEW t \in Terminal,
         NEW len \in ReadLens, TtyReadBlocks(t, len)
  PROVE  TtyAfter'
<1> DEFINE cp == current_process
           readers == terminals[t].blocked_readers
<1>1. /\ terminals' = [terminals EXCEPT ![t].blocked_readers =
                                            queueEnqueue(readers, cp)]
      /\ io' = [io EXCEPT ![cp].read_len = len, ![cp].regs0 = t, ![cp].tty = t]
      /\ BlocksIn("ttyread") /\ kpc # "resume" /\ cp # idle_proc
      /\ UNCHANGED <<device, rx, failures>>
  <2>1. /\ terminals' = [terminals EXCEPT ![t].blocked_readers =
                                              queueEnqueue(@, cp)]
        /\ terminals \in [Terminal -> StrongTerminalType]
    BY TtyBeforeFacts DEF TtyReadBlocks, StrongTypeOK
  <2>2. terminals' = [terminals EXCEPT ![t].blocked_readers =
                                           queueEnqueue(readers, cp)]
    BY <2>1
  <2> QED BY <2>2 DEF TtyReadBlocks, BlocksIn, UserTrap, InUser
<1>2. /\ TypeOK /\ StrongTypeOK /\ TtyWaits /\ cp \in PCB /\ cp \notin Takers
  BY <1>1, TtyBeforeFacts
<1>3. /\ terminals \in [Terminal -> StrongTerminalType]
      /\ io \in [PCB -> StrongIoType]
      /\ readers \in Seq(PCB)
  BY <1>2, FieldsOf DEF StrongTypeOK
<1> DEFINE new == queueEnqueue(readers, cp)
<1> HIDE DEF cp, new
<1>4. /\ terminals'[t].blocked_readers = new
      /\ \A u \in Terminal :
           /\ UNCHANGED <<terminals[u].blocked_writers, terminals[u].current_writer,
                          terminals[u].in_use, terminals[u].read_buffer>>
           /\ u # t => terminals'[u].blocked_readers = terminals[u].blocked_readers
  BY <1>1, <1>3, SMT DEF StrongTerminalType, new
<1>5. /\ io'[cp].tty = t /\ io'[cp].read_buf = io[cp].read_buf
      /\ \A p \in PCB \ {cp} : io'[p] = io[p]
  BY <1>1, <1>2, <1>3, SMT DEF StrongIoType
<1>6. SleepsAt("ttyread", t)
  BY <1>1, <1>4, <1>5 DEF SleepsAt, cp
<1>7. /\ Placement' /\ Labels' /\ TtyInput'
      /\ \A u \in Terminal :
           /\ ReadersAt(u)' = IF u = t THEN ReadersAt(u) \union {cp}
                              ELSE ReadersAt(u)
           /\ WaitersAt(u)' = WaitersAt(u) /\ WritersAt(u)' = WritersAt(u)
           /\ TakersAt(u)' = TakersAt(u) /\ cp \notin ReadersAt(u)
  <2>1. "ttyread" \in TtyLabel
    BY DEF TtyLabel
  <2>2. \A u \in Terminal : cp \notin TakersAt(u)
    BY <1>2 DEF TakersAt
  <2>3. Placement' /\ Labels' /\ TtyInput'
    BY <1>6, <2>1, SleepsAtEffect
  <2>4. ASSUME NEW u \in Terminal
        PROVE  /\ ReadersAt(u)' = IF u = t THEN ReadersAt(u) \union {cp} ELSE ReadersAt(u)
               /\ WaitersAt(u)' = WaitersAt(u) /\ WritersAt(u)' = WritersAt(u)
               /\ TakersAt(u)' = TakersAt(u) \ {cp} /\ cp \notin ReadersAt(u)
    BY <1>6, <2>1, SleepsAtEffect DEF cp
  <2>5. \A u \in Terminal : TakersAt(u) \ {cp} = TakersAt(u)
    BY <2>2
  <2> QED BY <2>3, <2>4, <2>5
<1>8. QueuedForm /\ QueuedForm'
  BY <1>2, QueuedAtIs, QueuedAtIsNext
<1>9. ASSUME NEW u \in Terminal, u # t PROVE QueuedAt(u)' /\ Locked(u)'
  <2>1. SameQueues(u)
    BY <1>1, <1>4, <1>7, <1>9 DEF SameQueues
  <2> QED BY <1>2, <2>1, SameQueuesKeeps DEF TtyWaits
<1>10. QueuedAt(t)'
  <2>1. QueuedAt(t)
    BY <1>2 DEF TtyWaits
  <2>2. /\ NoDuplicates(new) /\ ToSet(new) = ReadersAt(t)'
    <3>1. ToSet(readers) = ReadersAt(t) /\ NoDuplicates(readers)
      BY <1>8, <2>1 DEF QueuedForm
    <3> HIDE DEF readers
    <3>2. cp \notin ToSet(readers) /\ ReadersAt(t)' = ToSet(readers) \union {cp}
      BY <1>7, <3>1
    <3>3. ToSet(new) = ToSet(readers) \union {cp} /\ NoDuplicates(new)
      BY <1>2, <1>3, <3>1, <3>2, QueueEnqueueSet DEF new
    <3> QED BY <3>2, <3>3
  <2>3. /\ NoDuplicates(terminals'[t].blocked_writers)
        /\ ToSet(terminals'[t].blocked_writers) = WaitersAt(t)'
        /\ \A p \in PCB : terminals'[t].current_writer = p <=> p \in WritersAt(t)'
    BY <1>4, <1>7, <1>8, <2>1 DEF QueuedForm
  <2> QED BY <1>4, <1>8, <2>2, <2>3, Zenon DEF QueuedForm
<1>11. Locked(t)'
  <2>1. \A p \in PCB : Owner(p, t)' <=> Owner(p, t)
    BY <1>4, <1>7, Zenon DEF Owner, TakersAt
  <2> QED BY <1>1, <1>2, <1>4, <2>1, Zenon DEF TtyWaits, Locked
<1> QED BY <1>7, <1>9, <1>10, <1>11 DEF TtyAfter, TtyWaits


(* TtyWrite of a terminal in use: the caller sleeps as its last writer.    *)
LEMMA WriteBlocksStep ==
  ASSUME TtyBefore, TypeOK', StrongTypeOK', Sane', NEW t \in Terminal,
         NEW len \in WriteLens, TtyWriteBlocks(t, len)
  PROVE  TtyAfter'
<1> DEFINE cp == current_process
           writers == terminals[t].blocked_writers
<1>1. /\ terminals' = [terminals EXCEPT ![t].blocked_writers =
                                            queueEnqueue(writers, cp)]
      /\ io' = [io EXCEPT ![cp].tty = t, ![cp].len = len]
      /\ BlocksIn("ttylock") /\ kpc # "resume" /\ cp # idle_proc
      /\ UNCHANGED <<device, rx, failures>> /\ terminals[t].in_use
  <2>1. /\ terminals' = [terminals EXCEPT ![t].blocked_writers =
                                              queueEnqueue(@, cp)]
        /\ terminals \in [Terminal -> StrongTerminalType]
    BY TtyBeforeFacts DEF TtyWriteBlocks, StrongTypeOK
  <2>2. terminals' = [terminals EXCEPT ![t].blocked_writers =
                                           queueEnqueue(writers, cp)]
    BY <2>1
  <2> QED BY <2>2 DEF TtyWriteBlocks, BlocksIn, UserTrap, InUser
<1>2. /\ TypeOK /\ StrongTypeOK /\ TtyWaits /\ cp \in PCB /\ cp \notin Takers
  BY <1>1, TtyBeforeFacts
<1>3. /\ terminals \in [Terminal -> StrongTerminalType]
      /\ io \in [PCB -> StrongIoType]
      /\ writers \in Seq(PCB)
  BY <1>2, FieldsOf DEF StrongTypeOK
<1> DEFINE new == queueEnqueue(writers, cp)
<1> HIDE DEF cp, new
<1>4. /\ terminals'[t].blocked_writers = new
      /\ \A u \in Terminal :
           /\ UNCHANGED <<terminals[u].blocked_readers, terminals[u].current_writer,
                          terminals[u].in_use, terminals[u].read_buffer>>
           /\ u # t => terminals'[u].blocked_writers = terminals[u].blocked_writers
  BY <1>1, <1>3, SMT DEF StrongTerminalType, new
<1>5. /\ io'[cp].tty = t /\ io'[cp].read_buf = io[cp].read_buf
      /\ \A p \in PCB \ {cp} : io'[p] = io[p]
  BY <1>1, <1>2, <1>3, SMT DEF StrongIoType
<1>6. SleepsAt("ttylock", t)
  BY <1>1, <1>4, <1>5 DEF SleepsAt, cp
<1>7. /\ Placement' /\ Labels' /\ TtyInput'
      /\ \A u \in Terminal :
           /\ WaitersAt(u)' = IF u = t THEN WaitersAt(u) \union {cp}
                              ELSE WaitersAt(u)
           /\ ReadersAt(u)' = ReadersAt(u) /\ WritersAt(u)' = WritersAt(u)
           /\ TakersAt(u)' = TakersAt(u) /\ cp \notin WaitersAt(u)
  <2>1. "ttylock" \in TtyLabel
    BY DEF TtyLabel
  <2>2. \A u \in Terminal : cp \notin TakersAt(u)
    BY <1>2 DEF TakersAt
  <2>3. Placement' /\ Labels' /\ TtyInput'
    BY <1>6, <2>1, SleepsAtEffect
  <2>4. ASSUME NEW u \in Terminal
        PROVE  /\ WaitersAt(u)' = IF u = t THEN WaitersAt(u) \union {cp} ELSE WaitersAt(u)
               /\ ReadersAt(u)' = ReadersAt(u) /\ WritersAt(u)' = WritersAt(u)
               /\ TakersAt(u)' = TakersAt(u) \ {cp} /\ cp \notin WaitersAt(u)
    BY <1>6, <2>1, SleepsAtEffect DEF cp
  <2>5. \A u \in Terminal : TakersAt(u) \ {cp} = TakersAt(u)
    BY <2>2
  <2> QED BY <2>3, <2>4, <2>5
<1>8. QueuedForm /\ QueuedForm'
  BY <1>2, QueuedAtIs, QueuedAtIsNext
<1>9. ASSUME NEW u \in Terminal, u # t PROVE QueuedAt(u)' /\ Locked(u)'
  <2>1. SameQueues(u)
    BY <1>1, <1>4, <1>7, <1>9 DEF SameQueues
  <2> QED BY <1>2, <2>1, SameQueuesKeeps DEF TtyWaits
<1>10. QueuedAt(t)'
  <2>1. QueuedAt(t)
    BY <1>2 DEF TtyWaits
  <2>2. /\ NoDuplicates(new) /\ ToSet(new) = WaitersAt(t)'
    <3>1. ToSet(writers) = WaitersAt(t) /\ NoDuplicates(writers)
      BY <1>8, <2>1 DEF QueuedForm
    <3> HIDE DEF writers
    <3>2. cp \notin ToSet(writers) /\ WaitersAt(t)' = ToSet(writers) \union {cp}
      BY <1>7, <3>1
    <3>3. ToSet(new) = ToSet(writers) \union {cp} /\ NoDuplicates(new)
      BY <1>2, <1>3, <3>1, <3>2, QueueEnqueueSet DEF new
    <3> QED BY <3>2, <3>3
  <2>3. /\ NoDuplicates(terminals'[t].blocked_readers)
        /\ ToSet(terminals'[t].blocked_readers) = ReadersAt(t)'
        /\ \A p \in PCB : terminals'[t].current_writer = p <=> p \in WritersAt(t)'
    BY <1>4, <1>7, <1>8, <2>1 DEF QueuedForm
  <2> QED BY <1>4, <1>8, <2>2, <2>3, Zenon DEF QueuedForm
<1>11. Locked(t)'
  <2>1. \A p \in PCB : Owner(p, t)' <=> Owner(p, t)
    BY <1>4, <1>7, Zenon DEF Owner, TakersAt
  <2> QED BY <1>1, <1>2, <1>4, <2>1, Zenon DEF TtyWaits, Locked
<1> QED BY <1>7, <1>9, <1>10, <1>11 DEF TtyAfter, TtyWaits

(* Who starts to write has the lock to itself.                             *)
LEMMA StartsAlone ==
  ASSUME TtyBefore, NEW t \in Terminal,
         \/ UserTrap /\ ~terminals[t].in_use
         \/ Resumes("ttylock") /\ t = io[current_process].tty
  PROVE  /\ current_process # idle_proc
         /\ kpc # "resume" \/ pcb[current_process].kctx # "ttyread"
         /\ terminals[t].current_writer = NULL /\ ~device[t].busy
         /\ TakersAt(t) \subseteq {current_process}
         /\ WritersAt(t) = {}
         /\ UserTrap => is_empty(terminals[t].blocked_writers)
         /\ current_process \notin WokenReaders
         /\ \A u \in Terminal : u # t => current_process \notin TakersAt(u)
<1> DEFINE cp == current_process
<1>1. /\ Labels /\ TtyWaits /\ cp \in PCB /\ TypeOK /\ StrongTypeOK
      /\ cp \notin Writers /\ Before
      /\ kpc # "resume" => cp \notin WokenReaders /\ cp \notin Takers
  BY TtyBeforeFacts
<1>2. /\ QueuedAt(t) /\ Locked(t) /\ QueuedForm /\ LockedForm
      /\ terminals[t].current_writer \in PCB \union {NULL}
  BY <1>1, QueuedAtIs, LockedIs, FieldsOf DEF TtyWaits
<1>3. cp # idle_proc /\ (kpc # "resume" \/ pcb[cp].kctx # "ttyread")
  BY <1>1 DEF UserTrap, InUser, Resumes, Labels
<1>4. /\ terminals[t].current_writer = NULL /\ TakersAt(t) \subseteq {cp}
      /\ UserTrap => is_empty(terminals[t].blocked_writers)
  <2>1. CASE UserTrap /\ ~terminals[t].in_use
    <3>1. \A p \in PCB : terminals[t].current_writer # p /\ p \notin TakersAt(t)
      BY <1>2, <2>1 DEF LockedForm
    <3>2. TakersAt(t) \subseteq PCB
      BY DEF TakersAt, Takers
    <3>3. is_empty(terminals[t].blocked_writers)
      BY <1>2, <2>1 DEF Locked
    <3> QED BY <1>2, <3>1, <3>2, <3>3
  <2>2. CASE Resumes("ttylock") /\ t = io[cp].tty
    <3>1. cp \in TakersAt(t) /\ ~UserTrap
      BY <1>1, <2>2 DEF Resumes, TakersAt, Takers, Resumable, UserTrap, InUser
    <3>2. \A p \in PCB : terminals[t].current_writer = p \/ p \in TakersAt(t)
                         => p = cp
      BY <1>1, <1>2, <3>1 DEF LockedForm
    <3>3. cp \notin WritersAt(t)
      BY <1>1 DEF WritersAt
    <3>4. terminals[t].current_writer # cp
      BY <1>1, <1>2, <3>3 DEF QueuedForm
    <3>5. TakersAt(t) \subseteq PCB
      BY DEF TakersAt, Takers
    <3> QED BY <1>2, <3>1, <3>2, <3>4, <3>5
  <2> QED BY <2>1, <2>2
<1>5. ~device[t].busy
  BY <1>2, <1>4 DEF Locked
<1>6. WritersAt(t) = {}
  <2>1. WritersAt(t) \subseteq PCB
    BY <1>1 DEF WritersAt, Writers, Blocked, TypeOK, ToSet
  <2>2. \A p \in PCB : p \notin WritersAt(t)
    BY <1>2, <1>4, ConstantFacts DEF QueuedForm
  <2> QED BY <2>1, <2>2
<1>7. cp \notin WokenReaders
  BY <1>1 DEF WokenReaders, UserTrap, InUser, Resumes
<1>8. \A u \in Terminal : u # t => cp \notin TakersAt(u)
  <2>1. CASE UserTrap
    BY <1>1, <2>1 DEF TakersAt, UserTrap, InUser
  <2>2. CASE t = io[cp].tty
    BY <2>2 DEF TakersAt
  <2> QED BY <2>1, <2>2
<1> QED BY <1>3, <1>4, <1>5, <1>6, <1>7, <1>8 DEF cp


(* BeginTtyTransmit: the caller sleeps as the writer of t.                 *)
LEMMA BeginStep ==
  ASSUME TtyBefore, TypeOK', StrongTypeOK', Sane', NEW t \in Terminal,
         NEW len \in Nat, BeginTtyTransmit(t, len),
         \/ UserTrap /\ ~terminals[t].in_use
         \/ Resumes("ttylock") /\ t = io[current_process].tty
  PROVE  TtyAfter'
<1> DEFINE cp == current_process
<1>1. /\ terminals' = [terminals EXCEPT
                         ![t].in_use = TRUE, ![t].write_len = len,
                         ![t].write_pos = MinOf(len, MaxLine),
                         ![t].current_writer = cp]
      /\ device' = [device EXCEPT ![t].busy = TRUE]
      /\ io' = [io EXCEPT ![cp].tty = t, ![cp].len = len]
      /\ BlocksIn("ttywrite")
  BY DEF BeginTtyTransmit, BlocksIn
<1>2. /\ TypeOK /\ StrongTypeOK /\ TtyWaits /\ cp \in PCB /\ cp # NULL
  BY TtyBeforeFacts, ConstantFacts
<1>3. /\ terminals \in [Terminal -> StrongTerminalType]
      /\ device \in [Terminal -> DeviceType]
      /\ io \in [PCB -> StrongIoType]
  BY <1>2 DEF StrongTypeOK
<1>4. /\ cp # idle_proc /\ (kpc # "resume" \/ pcb[cp].kctx # "ttyread")
      /\ terminals[t].current_writer = NULL
      /\ TakersAt(t) \subseteq {cp} /\ WritersAt(t) = {}
      /\ \A u \in Terminal : u # t => cp \notin TakersAt(u)
  BY StartsAlone
<1> HIDE DEF cp
<1>5. /\ terminals'[t].current_writer = cp /\ terminals'[t].in_use = TRUE
      /\ \A u \in Terminal :
           /\ UNCHANGED <<terminals[u].blocked_readers, terminals[u].blocked_writers,
                          terminals[u].read_buffer>>
           /\ u # t => terminals'[u] = terminals[u]
  BY <1>1, <1>3, SMT DEF StrongTerminalType
<1>6. /\ device'[t].busy = TRUE
      /\ \A u \in Terminal : /\ UNCHANGED <<device[u].typed, device[u].delivered>>
                             /\ u # t => device'[u] = device[u]
  BY <1>1, <1>3, SMT DEF DeviceType
<1>7. /\ io'[cp].tty = t /\ io'[cp].read_buf = io[cp].read_buf
      /\ \A p \in PCB \ {cp} : io'[p] = io[p]
  BY <1>1, <1>2, <1>3, SMT DEF StrongIoType
<1>8. SleepsAt("ttywrite", t)
  BY <1>1, <1>4, <1>5, <1>6, <1>7 DEF SleepsAt, cp
<1>9. Placement' /\ Labels' /\ TtyInput'
  BY <1>8, SleepsAtEffect DEF TtyLabel
<1>10. ASSUME NEW u \in Terminal
       PROVE  /\ WritersAt(u)' = IF u = t THEN WritersAt(u) \union {cp}
                                 ELSE WritersAt(u)
              /\ ReadersAt(u)' = ReadersAt(u) /\ WaitersAt(u)' = WaitersAt(u)
              /\ TakersAt(u)' = TakersAt(u) \ {cp}
  <2>1. "ttywrite" \in TtyLabel
    BY DEF TtyLabel
  <2> QED BY <1>8, <2>1, SleepsAtEffect DEF cp
<1>11. QueuedForm /\ QueuedForm'
  BY <1>2, QueuedAtIs, QueuedAtIsNext
<1>12. ASSUME NEW u \in Terminal, u # t PROVE QueuedAt(u)' /\ Locked(u)'
  <2>1. TakersAt(u) \ {cp} = TakersAt(u)
    BY <1>4, <1>12
  <2>2. SameQueues(u)
    BY <1>5, <1>6, <1>10, <1>12, <2>1 DEF SameQueues
  <2> QED BY <1>2, <2>2, SameQueuesKeeps DEF TtyWaits
<1>13. QueuedAt(t)'
  <2>1. QueuedAt(t)
    BY <1>2 DEF TtyWaits
  <2>2. /\ NoDuplicates(terminals'[t].blocked_readers)
        /\ ToSet(terminals'[t].blocked_readers) = ReadersAt(t)'
        /\ NoDuplicates(terminals'[t].blocked_writers)
        /\ ToSet(terminals'[t].blocked_writers) = WaitersAt(t)'
    BY <1>5, <1>10, <1>11, <2>1 DEF QueuedForm
  <2>3. WritersAt(t)' = {cp}
    BY <1>4, <1>10
  <2>4. \A p \in PCB : terminals'[t].current_writer = p <=> p \in WritersAt(t)'
    BY <1>5, <2>3
  <2> QED BY <1>11, <2>2, <2>4, Zenon DEF QueuedForm
<1>14. Locked(t)'
  <2>1. TakersAt(t)' = {}
    BY <1>4, <1>10
  <2>2. \A p \in PCB : terminals'[t].current_writer = p \/ p \in TakersAt(t)' <=> p = cp
    BY <1>5, <2>1
  <2>3. /\ \A p, q \in PCB :
             /\ terminals'[t].current_writer = p \/ p \in TakersAt(t)'
             /\ terminals'[t].current_writer = q \/ q \in TakersAt(t)'
             => p = q
        /\ \E p \in PCB : terminals'[t].current_writer = p \/ p \in TakersAt(t)'
    BY <1>2, <2>2, Zenon
  <2>4. terminals'[t].in_use /\ device'[t].busy /\ terminals'[t].current_writer # NULL
    BY <1>2, <1>5, <1>6
  <2> QED BY <2>3, <2>4, LockedIsNext, Zenon DEF LockedForm
<1> QED BY <1>9, <1>12, <1>13, <1>14 DEF TtyAfter, TtyWaits

(* BeginTtyTransmit fails, and nobody waits for t: a waiting writer would  *)
(* be put in two queues, which is a fault.                                 *)
LEMMA NoMemoryStep ==
  ASSUME TtyBefore, TypeOK', StrongTypeOK', Sane', NEW t \in Terminal,
         TtyWriteNoMemory(t),
         \/ UserTrap /\ ~terminals[t].in_use
         \/ Resumes("ttylock") /\ t = io[current_process].tty
  PROVE  TtyAfter'
<1> DEFINE cp == current_process
           writers == terminals[t].blocked_writers
           next == IF is_empty(writers) THEN NULL ELSE queueFront(writers)
<1>1. /\ Before /\ Labels /\ TtyWaits /\ TtyInput /\ Stash
      /\ TypeOK /\ StrongTypeOK /\ cp \in PCB
      /\ cp \notin Readers /\ cp \notin LockWaiters /\ cp \notin Writers
  BY TtyBeforeFacts
<1>2. next \notin freed
  <2>1. ASSUME next \in freed PROVE FALSE
    <3>1. Undefined
      BY <2>1 DEF TtyWriteNoMemory
    <3> QED BY <3>1 DEF Undefined, Sane
  <2> QED BY <2>1
<1>3. next = NULL
  <2>1. ASSUME next # NULL PROVE FALSE
    <3>1. faults' = faults \union {"half_woken"}
      BY <1>2, <2>1 DEF TtyWriteNoMemory
    <3> QED BY <3>1 DEF Sane
  <2> QED BY <2>1
<1>4. /\ terminals' = [terminals EXCEPT ![t].in_use = FALSE,
                                        ![t].blocked_writers = @]
      /\ io' = CallEnds(cp) /\ kpc' # "resume"
      /\ UNCHANGED <<machine, current_process, ready_queue, blocked_queue,
                     zombie_queue, proc_table, pcb, freed, device>>
  BY <1>2, <1>3 DEF TtyWriteNoMemory, Return
<1>5. is_empty(writers)
  BY <1>1, <1>3, FrontOrNull, FieldsOf
<1>6. terminals \in [Terminal -> StrongTerminalType]
  BY <1>1 DEF StrongTypeOK
<1>7. /\ terminals'[t].in_use = FALSE
      /\ \A u \in Terminal :
           /\ UNCHANGED <<terminals[u].blocked_readers, terminals[u].blocked_writers,
                          terminals[u].current_writer, terminals[u].read_buffer>>
           /\ u # t => terminals'[u] = terminals[u]
  BY <1>4, <1>6, SMT DEF StrongTerminalType
<1>8. /\ terminals[t].current_writer = NULL /\ ~device[t].busy
      /\ TakersAt(t) \subseteq {cp} /\ cp \notin WokenReaders
      /\ \A u \in Terminal : u # t => cp \notin TakersAt(u)
  BY StartsAlone
<1>9. /\ Placement' /\ Labels' /\ UNCHANGED <<Readers, LockWaiters, Writers>>
      /\ WokenReaders' = WokenReaders /\ Takers' = Takers \ {cp}
  BY <1>1, <1>4, <1>8, ReturnEffect
<1>10. /\ io'[cp].read_buf = io[cp].read_buf
       /\ \A q \in PCB \ {cp} : io'[q] = io[q]
  BY <1>1, <1>4, CallEndsEffect
<1> HIDE DEF cp, next
<1>11. TtyInput'
  <2>1. io[cp].read_buf = << >>
    BY <1>1, <1>8, OnlyWokenHold
  <2>2. KeepsInput
    BY <1>1, <1>4, <1>7, <1>9, <1>10, <2>1 DEF KeepsInput, Stash
  <2> QED BY <1>1, <2>2, KeepsInputKeeps
<1>12. /\ Readers \subseteq PCB /\ LockWaiters \subseteq PCB
       /\ Writers \subseteq PCB /\ Takers \subseteq PCB
  BY <1>1 DEF Readers, LockWaiters, Writers, Takers, Blocked, TypeOK, ToSet
<1>13. ASSUME NEW u \in Terminal
       PROVE  /\ ReadersAt(u)' = ReadersAt(u) /\ WaitersAt(u)' = WaitersAt(u)
              /\ WritersAt(u)' = WritersAt(u) /\ TakersAt(u)' = TakersAt(u) \ {cp}
  <2>1. ReadersAt(u)' = ReadersAt(u) /\ WaitersAt(u)' = WaitersAt(u)
    BY <1>1, <1>9, <1>10, <1>12 DEF ReadersAt, WaitersAt
  <2>2. WritersAt(u)' = WritersAt(u)
    BY <1>1, <1>9, <1>10, <1>12 DEF WritersAt
  <2>3. TakersAt(u)' = TakersAt(u) \ {cp}
    BY <1>9, <1>10, <1>12 DEF TakersAt
  <2> QED BY <2>1, <2>2, <2>3
<1>14. ASSUME NEW u \in Terminal, u # t PROVE QueuedAt(u)' /\ Locked(u)'
  <2>1. TakersAt(u) \ {cp} = TakersAt(u)
    BY <1>8, <1>14
  <2>2. SameQueues(u)
    BY <1>4, <1>7, <1>13, <1>14, <2>1 DEF SameQueues
  <2> QED BY <1>1, <2>2, SameQueuesKeeps DEF TtyWaits
<1>15. QueuedAt(t)'
  <2>1. QueuedAt(t) /\ QueuedForm /\ QueuedForm'
    BY <1>1, QueuedAtIs, QueuedAtIsNext DEF TtyWaits
  <2>2. /\ NoDuplicates(terminals'[t].blocked_readers)
        /\ NoDuplicates(terminals'[t].blocked_writers)
        /\ ToSet(terminals'[t].blocked_readers) = ReadersAt(t)'
        /\ ToSet(terminals'[t].blocked_writers) = WaitersAt(t)'
        /\ \A p \in PCB : terminals'[t].current_writer = p <=> p \in WritersAt(t)'
    BY <1>7, <1>13, <2>1 DEF QueuedForm
  <2> QED BY <2>1, <2>2, Zenon DEF QueuedForm
<1>16. Locked(t)'
  <2>1. TakersAt(t)' = {}
    BY <1>8, <1>13
  <2>2. \A p \in PCB : ~(terminals'[t].current_writer = p \/ p \in TakersAt(t)')
    BY <1>7, <1>8, <2>1, ConstantFacts
  <2>3. is_empty(terminals'[t].blocked_writers)
    BY <1>5, <1>7
  <2> QED BY <1>4, <1>7, <1>8, <2>2, <2>3, LockedIsNext, Zenon DEF LockedForm
<1> QED BY <1>9, <1>11, <1>14, <1>15, <1>16 DEF TtyAfter, TtyWaits


(* Who is woken when a write to t is complete.                             *)
DoneWoken(t) == {terminals[t].current_writer, NextWriter(t)} \ {NULL}

LEMMA DoneWakes ==
  ASSUME TtyBefore, Sane', NEW t \in Terminal, TransmitDone(t)
  PROVE  /\ {terminals[t].current_writer, NextWriter(t)} \intersect freed = {}
         /\ terminals[t].current_writer \in PCB
         /\ terminals[t].current_writer \in WritersAt(t)
         /\ NextWriter(t) # NULL => NextWriter(t) \in WaitersAt(t)
         /\ NextWriter(t) = NULL <=> is_empty(terminals[t].blocked_writers)
         /\ Wakes(DoneWoken(t))
<1> DEFINE finished == terminals[t].current_writer
           next == NextWriter(t)
           writers == terminals[t].blocked_writers
<1>1. /\ Before /\ TtyWaits /\ TypeOK /\ StrongTypeOK
      /\ QueuedAt(t) /\ Locked(t) /\ QueuedForm
  BY TtyBeforeFacts, QueuedAtIs DEF TtyWaits
<1>2. {finished, next} \intersect freed = {}
  <2>1. ASSUME {finished, next} \intersect freed # {} PROVE FALSE
    <3>1. Undefined
      BY <2>1, Zenon DEF TransmitDone, NextWriter
    <3> QED BY <3>1 DEF Undefined, Sane
  <2> QED BY <2>1
<1>3. finished \in PCB /\ finished \in WritersAt(t)
  <2>1. finished # NULL /\ finished \in PCB \union {NULL}
    BY <1>1, FieldsOf DEF TransmitDone, TransmitInterrupt, Locked
  <2> QED BY <1>1, <2>1 DEF QueuedForm
<1>4. /\ next # NULL => next \in WaitersAt(t)
      /\ next = NULL <=> is_empty(writers)
  <2>1. writers \in Seq(PCB) /\ ToSet(writers) = WaitersAt(t)
    BY <1>1, FieldsOf DEF QueuedForm
  <2> HIDE DEF writers
  <2>2. ~is_empty(writers) => /\ queueFront(writers) \in PCB
                              /\ queueFront(writers) \in ToSet(writers)
    BY <2>1, QueueDequeueSet
  <2> QED BY <2>1, <2>2, ConstantFacts DEF NextWriter, writers
<1>5. /\ pcb' = Readied(Readied(pcb, finished), next)
      /\ blocked_queue' = Unblocked(Unblocked(blocked_queue, finished), next)
      /\ ready_queue' = Queued(Queued(ready_queue, finished), next)
      /\ UNCHANGED <<machine, kpc, current_process, zombie_queue, proc_table,
                     freed>>
  BY <1>1, <1>2, DoneEffect
<1>6. /\ pcb \in [PCB -> PCBType] /\ ready_queue \in Seq(PCB)
      /\ blocked_queue \in Seq(PCB)
      /\ NoDuplicates(ready_queue) /\ NoDuplicates(blocked_queue)
      /\ Ready \intersect Blocked = {} /\ Blocked \subseteq PCB
  BY <1>1, Apart DEF Before, TypeOK, Placement, Ordered
<1>7. /\ finished \in Blocked /\ pcb[finished].kctx = "ttywrite"
      /\ next # NULL => /\ next \in Blocked /\ pcb[next].kctx = "ttylock"
                        /\ next \in PCB
  BY <1>3, <1>4, <1>6 DEF WritersAt, WaitersAt, Writers, LockWaiters
<1> DEFINE ready1 == Queued(ready_queue, finished)
           blocked1 == Unblocked(blocked_queue, finished)
           table1 == Readied(pcb, finished)
<1> HIDE DEF finished, next
<1>8. /\ ready1 \in Seq(PCB) /\ NoDuplicates(ready1)
      /\ ToSet(ready1) = Ready \union {finished}
      /\ blocked1 \in Seq(PCB) /\ NoDuplicates(blocked1)
      /\ ToSet(blocked1) = Blocked \ {finished}
      /\ table1 \in [PCB -> PCBType]
      /\ \A q \in PCB : /\ table1[q].ppid = pcb[q].ppid
                        /\ table1[q].children = pcb[q].children
                        /\ table1[q].waiting = pcb[q].waiting
                        /\ table1[q].kctx = pcb[q].kctx
                        /\ table1[q].delay = pcb[q].delay
                        /\ q # finished => table1[q].state = pcb[q].state
  <2>1. finished \notin ToSet(ready_queue)
    BY <1>6, <1>7 DEF Ready
  <2> QED BY <1>3, <1>6, <2>1, WakeOne DEF Ready, Blocked
<1> HIDE DEF ready1, blocked1, table1
<1>9. Wakes({finished, next} \ {NULL})
  <2>1. CASE next = NULL
    <3>1. /\ pcb' = table1 /\ blocked_queue' = blocked1 /\ ready_queue' = ready1
      BY <1>5, <2>1 DEF Readied, Unblocked, Queued, table1, blocked1, ready1
    <3>2. Wakes({finished})
      BY <1>5, <1>7, <1>8, <3>1 DEF Wakes, Ready, Blocked, TtyLabel
    <3>3. {finished, next} \ {NULL} = {finished}
      BY <1>3, <2>1, ConstantFacts
    <3> QED BY <3>2, <3>3
  <2>2. CASE next # NULL
    <3>1. /\ next \in PCB /\ next \notin ToSet(ready1) /\ next # finished
          /\ next \in Blocked
      BY <1>6, <1>7, <1>8, <2>2
    <3>2. /\ pcb' = Readied(table1, next) /\ blocked_queue' = Unblocked(blocked1, next)
          /\ ready_queue' = Queued(ready1, next)
      BY <1>5 DEF table1, blocked1, ready1
    <3>3. /\ NoDuplicates(ready_queue') /\ Ready' = ToSet(ready1) \union {next}
          /\ NoDuplicates(blocked_queue') /\ Blocked' = ToSet(blocked1) \ {next}
          /\ \A q \in PCB : /\ pcb'[q].ppid = table1[q].ppid
                            /\ pcb'[q].children = table1[q].children
                            /\ pcb'[q].waiting = table1[q].waiting
                            /\ pcb'[q].kctx = table1[q].kctx
                            /\ pcb'[q].delay = table1[q].delay
                            /\ q # next => pcb'[q].state = table1[q].state
      BY <1>8, <3>1, <3>2, WakeOne DEF Ready, Blocked
    <3>4. Ready' = Ready \union {finished, next} /\ Blocked' = Blocked \ {finished, next}
      BY <1>8, <3>3
    <3>5. Wakes({finished, next})
      BY <1>5, <1>7, <1>8, <2>2, <3>3, <3>4 DEF Wakes, TtyLabel
    <3>6. {finished, next} \ {NULL} = {finished, next}
      BY <1>3, <2>2, ConstantFacts
    <3> QED BY <3>5, <3>6
  <2> QED BY <2>1, <2>2
<1> QED BY <1>2, <1>3, <1>4, <1>9 DEF finished, next, DoneWoken

(* The end of a write.                                                     *)
LEMMA DoneStep ==
  ASSUME TtyBefore, TypeOK', StrongTypeOK', Sane', NEW t \in Terminal,
         TransmitDone(t)
  PROVE  TtyAfter'
<1> DEFINE finished == terminals[t].current_writer
           next == NextWriter(t)
           writers == terminals[t].blocked_writers
           woken == {finished, next} \ {NULL}
<1>1. /\ Before /\ Labels /\ TtyWaits /\ TtyInput /\ Stash
      /\ TypeOK /\ StrongTypeOK
      /\ QueuedAt(t) /\ Locked(t) /\ QueuedForm /\ QueuedForm'
  BY TtyBeforeFacts, QueuedAtIs, QueuedAtIsNext DEF TtyWaits
<1>2. /\ {finished, next} \intersect freed = {}
      /\ finished \in PCB /\ finished \in WritersAt(t)
      /\ next # NULL => next \in WaitersAt(t)
      /\ next = NULL <=> is_empty(writers)
      /\ Wakes(woken)
  BY DoneWakes DEF DoneWoken
<1>3. /\ terminals'[t].blocked_readers = terminals[t].blocked_readers
      /\ terminals'[t].read_buffer = terminals[t].read_buffer
      /\ terminals'[t].blocked_writers =
           IF next = NULL THEN writers ELSE queueDequeue(writers)
      /\ terminals'[t].current_writer = NULL
      /\ terminals'[t].in_use = HandedOver(terminals[t].in_use, next)
      /\ \A u \in Terminal \ {t} : /\ terminals'[u] = terminals[u]
                                   /\ device'[u] = device[u]
      /\ device'[t].busy = FALSE /\ device'[t].typed = device[t].typed
      /\ device'[t].delivered = device[t].delivered
      /\ \A p \in PCB : /\ io'[p].tty = io[p].tty
                        /\ io'[p].read_buf = io[p].read_buf
                        /\ p # finished => io'[p] = io[p]
  BY <1>1, <1>2, DoneEffect
<1>4. writers \in Seq(PCB) /\ NoDuplicates(writers) /\ ToSet(writers) = WaitersAt(t)
  BY <1>1, FieldsOf DEF QueuedForm
<1>5. ~is_empty(writers) => next = queueFront(writers)
  BY DEF NextWriter
<1> HIDE DEF finished, next, writers
<1>6. /\ Placement' /\ Labels'
      /\ Readers' = Readers \ woken /\ LockWaiters' = LockWaiters \ woken
      /\ Writers' = Writers \ woken
      /\ WokenReaders' = WokenReaders \union (Readers \intersect woken)
      /\ Takers' = Takers \union (LockWaiters \intersect woken)
  BY <1>1, <1>2, WakesEffect
<1>7. /\ finished \in Writers /\ finished \notin Readers
      /\ finished \notin LockWaiters /\ finished \notin WokenReaders
      /\ finished \notin Takers /\ io[finished].tty = t
      /\ pcb[finished].kctx = "ttywrite" /\ finished # NULL
      /\ next # NULL => /\ next \in LockWaiters /\ next \notin Readers
                        /\ next \notin Writers /\ io[next].tty = t
                        /\ next \in PCB
  BY <1>1, <1>2, ConstantFacts
  DEF WritersAt, WaitersAt, Writers, LockWaiters, Readers, WokenReaders, Takers,
      Blocked, TypeOK, ToSet
<1>8. /\ Readers' = Readers /\ WokenReaders' = WokenReaders
      /\ Writers' = Writers \ {finished}
      /\ LockWaiters' = LockWaiters \ {next}
      /\ Takers' = IF next = NULL THEN Takers ELSE Takers \union {next}
  <2>1. \A p \in woken : p = finished \/ (p = next /\ next # NULL)
    OBVIOUS
  <2>2. finished \in woken /\ (next # NULL => next \in woken)
    BY <1>7
  <2>3. NULL \notin LockWaiters
    BY <1>1, ConstantFacts DEF LockWaiters, Blocked, TypeOK, ToSet
  <2> HIDE DEF woken
  <2>4. Readers \intersect woken = {} /\ Readers \ woken = Readers
    BY <1>7, <2>1
  <2>5. Writers \ woken = Writers \ {finished}
    BY <1>7, <2>1, <2>2
  <2>6. LockWaiters \ woken = LockWaiters \ {next}
    BY <1>7, <2>1, <2>2, <2>3
  <2>7. LockWaiters \intersect woken = IF next = NULL THEN {} ELSE {next}
    BY <1>7, <2>1, <2>2, <2>3
  <2> QED BY <1>6, <2>4, <2>5, <2>6, <2>7
<1> HIDE DEF woken
<1>9. /\ Readers \subseteq PCB /\ LockWaiters \subseteq PCB
      /\ Writers \subseteq PCB /\ Takers \subseteq PCB
  BY <1>1 DEF Readers, LockWaiters, Writers, Takers, Blocked, TypeOK, ToSet
<1>10. ASSUME NEW u \in Terminal
       PROVE  /\ ReadersAt(u)' = ReadersAt(u)
              /\ WritersAt(u)' = IF u = t THEN WritersAt(u) \ {finished}
                                 ELSE WritersAt(u)
              /\ WaitersAt(u)' = IF u = t THEN WaitersAt(u) \ {next}
                                 ELSE WaitersAt(u)
              /\ TakersAt(u)' = IF u = t /\ next # NULL THEN TakersAt(u) \union {next}
                                ELSE TakersAt(u)
  <2>1. /\ Readers' = Readers /\ Writers' = Writers \ {finished}
        /\ LockWaiters' = LockWaiters \ {next}
        /\ Takers' = IF next = NULL THEN Takers ELSE Takers \union {next}
        /\ \A p \in PCB : io'[p].tty = io[p].tty
    BY <1>3, <1>8
  <2>2. ReadersAt(u)' = ReadersAt(u)
    BY <1>9, <2>1 DEF ReadersAt
  <2>3. WritersAt(u)' = IF u = t THEN WritersAt(u) \ {finished} ELSE WritersAt(u)
    BY <1>7, <1>9, <2>1 DEF WritersAt
  <2>4. WaitersAt(u)' = IF u = t THEN WaitersAt(u) \ {next} ELSE WaitersAt(u)
    <3>1. CASE next = NULL
      <4>1. NULL \notin LockWaiters
        BY <1>9, ConstantFacts
      <4> QED BY <1>9, <2>1, <3>1, <4>1 DEF WaitersAt
    <3>2. CASE next # NULL
      BY <1>7, <1>9, <2>1, <3>2 DEF WaitersAt
    <3> QED BY <3>1, <3>2
  <2>5. TakersAt(u)' = IF u = t /\ next # NULL THEN TakersAt(u) \union {next}
                       ELSE TakersAt(u)
    BY <1>7, <1>9, <2>1 DEF TakersAt
  <2> QED BY <2>2, <2>3, <2>4, <2>5
<1>11. ASSUME NEW u \in Terminal, u # t PROVE QueuedAt(u)' /\ Locked(u)'
  <2>1. SameQueues(u)
    BY <1>3, <1>10, <1>11 DEF SameQueues
  <2> QED BY <1>1, <2>1, SameQueuesKeeps DEF TtyWaits
<1>12. WritersAt(t)' = {} /\ TakersAt(t) = {}
  <2>1. \A p \in PCB : terminals[t].current_writer = p <=> p \in WritersAt(t)
    BY <1>1 DEF QueuedForm
  <2>2. WritersAt(t) \subseteq {finished}
    BY <1>9, <2>1 DEF finished, WritersAt
  <2>3. \A p \in PCB : p \in TakersAt(t) => p = finished
    BY <1>1, <1>2, LockedIs, Zenon DEF LockedForm, finished
  <2>4. TakersAt(t) \subseteq PCB /\ finished \notin TakersAt(t)
    BY <1>7, <1>9 DEF TakersAt
  <2> QED BY <1>10, <2>2, <2>3, <2>4
<1>13. QueuedAt(t)'
  <2>1. /\ NoDuplicates(terminals'[t].blocked_readers)
        /\ ToSet(terminals'[t].blocked_readers) = ReadersAt(t)'
    BY <1>1, <1>3, <1>10 DEF QueuedForm
  <2>2. /\ NoDuplicates(terminals'[t].blocked_writers)
        /\ ToSet(terminals'[t].blocked_writers) = WaitersAt(t)'
    <3>1. CASE next = NULL
      <4>1. NULL \notin WaitersAt(t)
        BY <1>9, ConstantFacts DEF WaitersAt
      <4> QED BY <1>3, <1>4, <1>10, <3>1, <4>1
    <3>2. CASE next # NULL
      <4>1. /\ NoDuplicates(queueDequeue(writers))
            /\ next \notin ToSet(queueDequeue(writers))
            /\ ToSet(writers) = ToSet(queueDequeue(writers)) \union {next}
        BY <1>2, <1>4, <1>5, <3>2, QueueDequeueSet
      <4>2. terminals'[t].blocked_writers = queueDequeue(writers)
        BY <1>3, <3>2
      <4>3. WaitersAt(t)' = ToSet(writers) \ {next}
        BY <1>4, <1>10
      <4>4. ToSet(queueDequeue(writers)) = ToSet(writers) \ {next}
        BY <4>1
      <4> QED BY <4>1, <4>2, <4>3, <4>4
    <3> QED BY <3>1, <3>2
  <2>3. \A p \in PCB : terminals'[t].current_writer = p <=> p \in WritersAt(t)'
    BY <1>3, <1>12, ConstantFacts
  <2> QED BY <1>1, <2>1, <2>2, <2>3, Zenon DEF QueuedForm
<1>14. Locked(t)'
  <2>1. \A p \in PCB : terminals'[t].current_writer = p \/ p \in TakersAt(t)'
                       <=> next # NULL /\ p = next
    BY <1>3, <1>10, <1>12, ConstantFacts
  <2>2. terminals[t].in_use = TRUE
    <3>1. terminals[t].in_use /\ terminals[t].in_use \in BOOLEAN
      BY <1>1, <1>2, LockedIs, FieldsOf DEF LockedForm, finished
    <3> QED BY <3>1
  <2>3. terminals'[t].in_use <=> next # NULL
    BY <1>3, <2>2 DEF HandedOver
  <2>4. ~is_empty(terminals'[t].blocked_writers) => next # NULL
    BY <1>2, <1>3
  <2>5. /\ \A p, q \in PCB :
             /\ terminals'[t].current_writer = p \/ p \in TakersAt(t)'
             /\ terminals'[t].current_writer = q \/ q \in TakersAt(t)'
             => p = q
        /\ terminals'[t].in_use <=>
             \E p \in PCB : terminals'[t].current_writer = p \/ p \in TakersAt(t)'
    BY <1>7, <2>1, <2>3, Zenon
  <2>6. device'[t].busy <=> terminals'[t].current_writer # NULL
    BY <1>3
  <2> QED BY <2>3, <2>4, <2>5, <2>6, LockedIsNext, Zenon DEF LockedForm
<1>15. TtyInput'
  <2>1. io[finished].read_buf = << >>
    BY <1>1, <1>2, <1>7, OnlyWokenHold
  <2>2. \A u \in Terminal :
          UNCHANGED <<terminals[u].read_buffer, device[u].typed, device[u].delivered>>
    BY <1>3
  <2>3. KeepsInput
    BY <1>1, <1>3, <1>8, <2>1, <2>2 DEF KeepsInput, Stash
  <2> QED BY <1>1, <2>3, KeepsInputKeeps
<1> QED BY <1>6, <1>11, <1>13, <1>14, <1>15 DEF TtyAfter, TtyWaits


(* The receive trap puts what it accepts of a line after what it has.      *)
LEMMA ReceiveStep ==
  ASSUME TtyBefore, TypeOK', StrongTypeOK', NEW t \in Terminal,
         TtyTrapReceiveHandler(t)
  PROVE  TtyAfter'
<1> DEFINE old == terminals[t].read_buffer
           new == terminals'[t].read_buffer
           k == Len(old)
           g == Gone(t)
<1>1. /\ Before /\ Labels /\ TtyWaits /\ TtyInput /\ Stash
      /\ TypeOK /\ StrongTypeOK /\ Conserved(t)
  BY TtyBeforeFacts DEF TtyInput
<1>2. /\ kpc # "resume" /\ kpc' # "resume"
      /\ UNCHANGED <<machine, current_process, ready_queue, blocked_queue,
                     zombie_queue, proc_table, pcb, freed, io>>
      /\ \A u \in Terminal \ {t} : /\ terminals'[u] = terminals[u]
                                   /\ device'[u] = device[u]
      /\ terminals'[t].blocked_readers = terminals[t].blocked_readers
      /\ terminals'[t].blocked_writers = terminals[t].blocked_writers
      /\ terminals'[t].current_writer = terminals[t].current_writer
      /\ terminals'[t].in_use = terminals[t].in_use
      /\ device'[t].busy = device[t].busy
      /\ device'[t].delivered = device[t].delivered
  BY <1>1, ReceiveEffect
<1>3. PICK n \in Nat :
        /\ device'[t].typed = device[t].typed + n
        /\ Len(new) = k + n
        /\ \A i \in 1 .. k : new[i] = old[i]
        /\ \A i \in 1 .. n : new[k + i] = device[t].typed + i
  BY <1>1, ReceiveEffect
<1>4. current_process \notin WokenReaders /\ current_process \notin Takers
  BY <1>2, TtyBeforeFacts
<1>5. /\ Placement' /\ Labels' /\ UNCHANGED <<Readers, LockWaiters, Writers>>
      /\ WokenReaders' = WokenReaders /\ Takers' = Takers
  BY <1>1, <1>2, <1>4, ReturnEffect
<1>6. TtyWaits'
  <2>1. SameCalls
    BY <1>2, <1>5 DEF SameCalls
  <2> QED BY <2>1, SameCallsKeep
<1>7. Stash'
  BY <1>1, <1>2, <1>5 DEF Stash
<1>8. \A p \in PCB, u \in Terminal : Holds(p, u)' = Holds(p, u)
  BY <1>2 DEF Holds
<1>9. ASSUME NEW u \in Terminal, u # t PROVE Conserved(u)'
  <2>1. SameInput(u)
    BY <1>2, <1>8, <1>9 DEF SameInput
  <2> QED BY <1>1, <2>1, SameInputKeeps DEF TtyInput
<1>10. Conserved(t)'
  <2>1. /\ k \in Nat /\ device[t].typed \in Nat /\ g = device[t].typed - k
        /\ old \in Seq(Byte) /\ new \in Seq(Byte)
    <3>1. new \in Seq(Byte)
      <4>1. terminals'[t] \in StrongTerminalType
        BY DEF StrongTypeOK
      <4> QED BY <4>1 DEF StrongTerminalType
    <3> QED BY <1>1, <3>1, FieldsOf, TerminalFacts DEF Gone
  <2>2. Gone(t)' = g
    BY <1>3, <2>1 DEF Gone
  <2>3. \A i \in DOMAIN old : old[i] = g + i
    BY <1>1, ConservedIs DEF ConservedForm
  <2>4. DOMAIN old = 1 .. k /\ DOMAIN new = 1 .. k + n
    BY <1>3, <2>1
  <2> HIDE DEF old, new, k, g
  <2>5. ASSUME NEW i \in 1 .. k + n PROVE new[i] = g + i
    <3>1. CASE i \in 1 .. k
      BY <1>3, <2>3, <2>4, <3>1
    <3>2. CASE i \notin 1 .. k
      <4>1. i - k \in 1 .. n /\ k + (i - k) = i
        BY <2>1, <3>2
      <4>2. new[k + (i - k)] = device[t].typed + (i - k)
        BY <1>3, <4>1
      <4> QED BY <2>1, <4>1, <4>2
    <3> QED BY <3>1, <3>2
  <2>6. \A i \in DOMAIN terminals'[t].read_buffer :
          terminals'[t].read_buffer[i] = Gone(t)' + i
    BY <2>2, <2>4, <2>5 DEF new
  <2>7. (UNION {Holds(p, t) : p \in PCB})' = UNION {Holds(p, t) : p \in PCB}
    BY <1>8, Zenon
  <2>8. /\ (UNION {Holds(p, t) : p \in PCB}) \union device[t].delivered = 1 .. g
        /\ \A p \in PCB : Holds(p, t) \intersect device[t].delivered = {}
        /\ \A p, q \in PCB : p # q => Holds(p, t) \intersect Holds(q, t) = {}
    BY <1>1, ConservedIs, Zenon DEF ConservedForm, g
  <2>9. /\ (UNION {Holds(p, t) : p \in PCB})' \union device'[t].delivered
             = 1 .. Gone(t)'
        /\ \A p \in PCB : Holds(p, t)' \intersect device'[t].delivered = {}
        /\ \A p, q \in PCB : p # q => Holds(p, t)' \intersect Holds(q, t)' = {}
    BY <1>2, <1>8, <2>2, <2>7, <2>8, Zenon
  <2> QED BY <2>6, <2>9, ConservedIsNext, Zenon DEF ConservedForm
<1> QED BY <1>5, <1>6, <1>7, <1>9, <1>10 DEF TtyAfter, TtyInput


(* The receive trap wakes the reader that waits longest, with what it read *)
(* in its kernel buffer.                                                   *)
LEMMA ServeWakes ==
  ASSUME TtyBefore, NEW t \in Terminal, t = rx, ReaderToServe,
         NEW n \in 0 .. Len(terminals[t].read_buffer), NEW reader,
         reader = queueFront(terminals[t].blocked_readers),
         ServeReader(reader, n)
  PROVE  /\ reader \in ReadersAt(t) /\ reader \in PCB /\ Wakes({reader})
         /\ NoDuplicates(queueDequeue(terminals[t].blocked_readers))
         /\ ToSet(queueDequeue(terminals[t].blocked_readers))
              = ReadersAt(t) \ {reader}
<1> DEFINE readers == terminals[t].blocked_readers
<1>1. /\ Before /\ TtyWaits /\ TypeOK /\ StrongTypeOK /\ QueuedForm
  BY TtyBeforeFacts, QueuedAtIs
<1>2. /\ readers \in Seq(PCB) /\ NoDuplicates(readers)
      /\ ToSet(readers) = ReadersAt(t)
  BY <1>1, FieldsOf DEF QueuedForm, TtyWaits
<1>3. ~is_empty(readers)
  BY DEF ReaderToServe
<1> HIDE DEF readers
<1>4. /\ reader \in PCB /\ reader \in ReadersAt(t)
      /\ NoDuplicates(queueDequeue(readers))
      /\ reader \notin ToSet(queueDequeue(readers))
      /\ ToSet(readers) = ToSet(queueDequeue(readers)) \union {reader}
  BY <1>2, <1>3, QueueDequeueSet DEF readers
<1>5. reader \in Blocked /\ pcb[reader].kctx = "ttyread"
  BY <1>4 DEF ReadersAt, Readers
<1>6. /\ reader \notin Ready /\ NoDuplicates(ready_queue)
      /\ NoDuplicates(blocked_queue)
      /\ pcb \in [PCB -> PCBType] /\ ready_queue \in Seq(PCB)
      /\ blocked_queue \in Seq(PCB)
  BY <1>1, <1>5, Apart DEF Before, Placement, Ordered, TypeOK
<1>7. /\ pcb' = Readied(pcb, reader)
      /\ blocked_queue' = Unblocked(blocked_queue, reader)
      /\ ready_queue' = Queued(ready_queue, reader)
      /\ UNCHANGED <<machine, kpc, current_process, zombie_queue, proc_table,
                     freed>>
  BY DEF ServeReader
<1>8. Wakes({reader})
  <2>1. /\ NoDuplicates(ready_queue') /\ NoDuplicates(blocked_queue')
        /\ Ready' = Ready \union {reader} /\ Blocked' = Blocked \ {reader}
        /\ \A q \in PCB : /\ pcb'[q].ppid = pcb[q].ppid
                          /\ pcb'[q].children = pcb[q].children
                          /\ pcb'[q].waiting = pcb[q].waiting
                          /\ pcb'[q].kctx = pcb[q].kctx
                          /\ pcb'[q].delay = pcb[q].delay
                          /\ q # reader => pcb'[q].state = pcb[q].state
    BY <1>4, <1>6, <1>7, WakeOne DEF Ready, Blocked
  <2> QED BY <1>5, <1>7, <2>1 DEF Wakes, TtyLabel
<1>9. ToSet(queueDequeue(readers)) = ReadersAt(t) \ {reader}
  BY <1>2, <1>4
<1> QED BY <1>4, <1>8, <1>9 DEF readers


LEMMA ServeStep ==
  ASSUME TtyBefore, TypeOK', StrongTypeOK', ReaderToServe,
         NEW n \in 0 .. Len(terminals[rx].read_buffer),
         ServeReader(queueFront(terminals[rx].blocked_readers), n)
  PROVE  TtyAfter'
<1>1. /\ Before /\ Labels /\ TtyWaits /\ TtyInput /\ Stash
      /\ TypeOK /\ StrongTypeOK /\ QueuedForm /\ QueuedForm' /\ rx \in Terminal
  BY TtyBeforeFacts, QueuedAtIs, QueuedAtIsNext DEF StrongTypeOK
<1>2. PICK t \in Terminal : t = rx
  BY <1>1
<1>3. PICK reader : reader = queueFront(terminals[t].blocked_readers)
  OBVIOUS
<1>4. n \in 0 .. Len(terminals[t].read_buffer) /\ ServeReader(reader, n)
  BY <1>2, <1>3
<1>5. /\ reader \in ReadersAt(t) /\ reader \in PCB /\ Wakes({reader})
      /\ NoDuplicates(queueDequeue(terminals[t].blocked_readers))
      /\ ToSet(queueDequeue(terminals[t].blocked_readers))
           = ReadersAt(t) \ {reader}
  BY <1>2, <1>3, <1>4, ServeWakes
<1>6. /\ terminals'[t].read_buffer = Shifted(t, n)
      /\ terminals'[t].blocked_readers =
           queueDequeue(terminals[t].blocked_readers)
      /\ terminals'[t].blocked_writers = terminals[t].blocked_writers
      /\ terminals'[t].current_writer = terminals[t].current_writer
      /\ terminals'[t].in_use = terminals[t].in_use
      /\ \A u \in Terminal \ {t} : terminals'[u] = terminals[u]
      /\ io'[reader].regs0 = n
      /\ io'[reader].read_buf = IF n = 0 THEN io[reader].read_buf
                                ELSE Bytes(t, n)
      /\ io'[reader].tty = io[reader].tty
      /\ \A p \in PCB \ {reader} : io'[p] = io[p]
  BY <1>1, <1>2, <1>3, ServeEffect
<1>7. device' = device
  BY DEF ServeReader
<1>8. /\ Placement' /\ Labels'
      /\ Readers' = Readers \ {reader} /\ LockWaiters' = LockWaiters \ {reader}
      /\ Writers' = Writers \ {reader}
      /\ WokenReaders' = WokenReaders \union (Readers \intersect {reader})
      /\ Takers' = Takers \union (LockWaiters \intersect {reader})
  BY <1>1, <1>5, WakesEffect
<1>9. /\ reader \in Readers /\ io[reader].tty = t /\ reader \notin LockWaiters
      /\ reader \notin Writers /\ reader \in Blocked
  BY <1>5 DEF ReadersAt, Readers, LockWaiters, Writers
<1>10. /\ LockWaiters' = LockWaiters /\ Writers' = Writers /\ Takers' = Takers
       /\ WokenReaders' = WokenReaders \union {reader}
  BY <1>8, <1>9
<1>11. reader \notin WokenReaders
  <2>1. reader \notin Ready /\ reader # current_process
    BY <1>1, <1>9, Apart
  <2> QED BY <2>1 DEF WokenReaders, Resumable
<1>12. io[reader].read_buf = << >>
  BY <1>1, <1>5, <1>11, OnlyWokenHold
<1>13. /\ Readers \subseteq PCB /\ LockWaiters \subseteq PCB
       /\ Writers \subseteq PCB /\ Takers \subseteq PCB
       /\ \A p \in PCB : io'[p].tty = io[p].tty
  <2>1. /\ Readers \subseteq PCB /\ LockWaiters \subseteq PCB
        /\ Writers \subseteq PCB /\ Takers \subseteq PCB
    BY <1>1 DEF Readers, LockWaiters, Writers, Takers, Blocked, TypeOK, ToSet
  <2>2. \A p \in PCB : io'[p].tty = io[p].tty
    BY <1>6
  <2> QED BY <2>1, <2>2
<1>14. ASSUME NEW u \in Terminal
       PROVE  /\ ReadersAt(u)' = IF u = t THEN ReadersAt(u) \ {reader}
                                 ELSE ReadersAt(u)
              /\ WaitersAt(u)' = WaitersAt(u) /\ WritersAt(u)' = WritersAt(u)
              /\ TakersAt(u)' = TakersAt(u)
  <2>1. ReadersAt(u)' = IF u = t THEN ReadersAt(u) \ {reader} ELSE ReadersAt(u)
    BY <1>8, <1>9, <1>13 DEF ReadersAt
  <2>2. WaitersAt(u)' = WaitersAt(u) /\ WritersAt(u)' = WritersAt(u)
    BY <1>10, <1>13 DEF WaitersAt, WritersAt
  <2>3. TakersAt(u)' = TakersAt(u)
    BY <1>10, <1>13 DEF TakersAt
  <2> QED BY <2>1, <2>2, <2>3
<1>15. ASSUME NEW u \in Terminal, u # t PROVE QueuedAt(u)' /\ Locked(u)'
  <2>1. SameQueues(u)
    BY <1>6, <1>7, <1>14, <1>15 DEF SameQueues
  <2> QED BY <1>1, <2>1, SameQueuesKeeps DEF TtyWaits
<1>16. QueuedAt(t)'
  <2>1. QueuedAt(t)
    BY <1>1 DEF TtyWaits
  <2>2. /\ NoDuplicates(terminals'[t].blocked_readers)
        /\ ToSet(terminals'[t].blocked_readers) = ReadersAt(t)'
    BY <1>5, <1>6, <1>14
  <2>3. /\ NoDuplicates(terminals'[t].blocked_writers)
        /\ ToSet(terminals'[t].blocked_writers) = WaitersAt(t)'
        /\ \A p \in PCB : terminals'[t].current_writer = p <=> p \in WritersAt(t)'
    BY <1>1, <1>6, <1>14, <2>1 DEF QueuedForm
  <2> QED BY <1>1, <2>2, <2>3, Zenon DEF QueuedForm
<1>17. Locked(t)'
  <2>1. \A p \in PCB : Owner(p, t)' <=> Owner(p, t)
    BY <1>6, <1>14, Zenon DEF Owner, TakersAt
  <2>2. Locked(t)
    BY <1>1 DEF TtyWaits
  <2> QED BY <1>6, <1>7, <2>1, <2>2, Zenon DEF Locked
<1>18. Stash'
  <2>1. ASSUME NEW p \in PCB, io'[p].read_buf # << >>
        PROVE  p \in WokenReaders' /\ io'[p].regs0 > 0
    <3>1. CASE p # reader
      BY <1>1, <1>6, <1>10, <2>1, <3>1 DEF Stash
    <3>2. CASE p = reader
      <4>1. n # 0
        BY <1>6, <1>12, <2>1, <3>2
      <4>2. Len(terminals[t].read_buffer) \in Nat
        BY <1>1, FieldsOf
      <4>3. n > 0
        BY <1>4, <4>1, <4>2
      <4> QED BY <1>6, <1>10, <3>2, <4>3
    <3> QED BY <3>1, <3>2
  <2> QED BY <2>1 DEF Stash
<1>19. ASSUME NEW u \in Terminal, u # t PROVE Conserved(u)'
  <2>1. \A p \in PCB : Holds(p, u)' = Holds(p, u)
    BY <1>6, <1>9, <1>19 DEF Holds
  <2>2. SameInput(u)
    BY <1>6, <1>7, <1>19, <2>1 DEF SameInput
  <2> QED BY <1>1, <2>2, SameInputKeeps DEF TtyInput
<1>20. Conserved(t)'
  <2> DEFINE g == Gone(t)
             b == ToSet(Bytes(t, n))
             held == UNION {Holds(p, t) : p \in PCB}
             new == Shifted(t, n)
  <2>1. Conserved(t)
    BY <1>1 DEF TtyInput
  <2>2. /\ g \in Nat /\ n \in Nat /\ b = g + 1 .. g + n
        /\ Len(new) = Len(terminals[t].read_buffer) - n
        /\ \A i \in DOMAIN new : new[i] = g + n + i
        /\ 1 .. g + n = (1 .. g) \union b /\ (1 .. g) \intersect b = {}
    BY <1>1, <1>4, <2>1, TakeBytes
  <2>3. /\ held \union device[t].delivered = 1 .. g
        /\ \A p \in PCB : Holds(p, t) \intersect device[t].delivered = {}
        /\ \A p, q \in PCB : p # q => Holds(p, t) \intersect Holds(q, t) = {}
    BY <2>1, ConservedIs DEF ConservedForm
  <2>4. Gone(t)' = g + n
    <3>1. device[t].typed \in Nat /\ Len(terminals[t].read_buffer) \in Nat
      BY <1>1, FieldsOf, TerminalFacts
    <3> QED BY <1>6, <1>7, <2>2, <3>1 DEF Gone
  <2>5. Holds(reader, t) = {}
    <3>1. ToSet(<< >>) = {}
      BY DEF ToSet
    <3> QED BY <1>12, <3>1 DEF Holds
  <2>6. Holds(reader, t)' = b
    <3>1. CASE n = 0
      <4>1. b = {}
        BY <2>2, <3>1
      <4>2. ToSet(<< >>) = {}
        BY DEF ToSet
      <4>3. io'[reader].read_buf = << >>
        BY <1>6, <1>12, <3>1
      <4> HIDE DEF b
      <4> QED BY <4>1, <4>2, <4>3 DEF Holds
    <3>2. CASE n # 0
      <4>1. io'[reader].read_buf = Bytes(t, n) /\ io'[reader].tty = t
        BY <1>6, <1>9, <3>2
      <4> QED BY <4>1 DEF Holds
    <3> QED BY <3>1, <3>2
  <2>7. \A p \in PCB \ {reader} : Holds(p, t)' = Holds(p, t)
    BY <1>6 DEF Holds
  <2> HIDE DEF g, b, new
  <2>8. \A i \in DOMAIN terminals'[t].read_buffer :
          terminals'[t].read_buffer[i] = Gone(t)' + i
    BY <1>6, <2>2, <2>4 DEF new
  <2>9. (UNION {Holds(p, t) : p \in PCB})' = held \union b
    <3>1. ASSUME NEW x
          PROVE  (\E p \in PCB : x \in Holds(p, t)') <=>
                   x \in b \/ \E p \in PCB : x \in Holds(p, t)
      BY <1>5, <2>5, <2>6, <2>7, Zenon
    <3>2. ASSUME NEW x
          PROVE  x \in (UNION {Holds(p, t) : p \in PCB})' <=>
                   \E p \in PCB : x \in Holds(p, t)'
      BY Zenon
    <3>3. ASSUME NEW x
          PROVE  x \in held <=> \E p \in PCB : x \in Holds(p, t)
      BY Zenon
    <3> QED BY <3>1, <3>2, <3>3, Zenon
  <2>10. (UNION {Holds(p, t) : p \in PCB})' \union device'[t].delivered
          = 1 .. Gone(t)'
    <3> HIDE DEF held
    <3> QED BY <1>7, <2>2, <2>3, <2>4, <2>9
  <2>11. \A p \in PCB : Holds(p, t) \subseteq 1 .. g
    BY <2>3, Zenon
  <2>12. device[t].delivered \subseteq 1 .. g
    BY <2>3, Zenon
  <2> HIDE DEF held
  <2>13. \A p \in PCB : Holds(p, t)' \intersect device'[t].delivered = {}
    <3>1. b \intersect device[t].delivered = {}
      BY <2>2, <2>12
    <3> QED BY <1>7, <2>3, <2>6, <2>7, <3>1
  <2>14. ASSUME NEW p \in PCB, NEW q \in PCB, p # q
         PROVE  Holds(p, t)' \intersect Holds(q, t)' = {}
    <3>1. ASSUME NEW r \in PCB PROVE Holds(r, t) \intersect b = {}
      BY <2>2, <2>11, Zenon
    <3>2. CASE p # reader /\ q # reader
      BY <2>3, <2>7, <2>14, <3>2
    <3>3. CASE p = reader
      BY <2>6, <2>7, <2>14, <3>1, <3>3
    <3>4. CASE q = reader
      BY <2>6, <2>7, <2>14, <3>1, <3>4
    <3> QED BY <3>2, <3>3, <3>4
  <2> QED BY <2>8, <2>10, <2>13, <2>14, ConservedIsNext, Zenon DEF ConservedForm
<1> QED BY <1>8, <1>15, <1>16, <1>17, <1>18, <1>19, <1>20
        DEF TtyAfter, TtyWaits, TtyInput


-----------------------------------------------------------------------------
(* Nobody is left waiting for input that is there.                         *)

(* The steps that touch neither a read buffer nor a queue of readers.      *)
LEMMA SameReadersKeep ==
  ASSUME Served, kpc # "receive",
         \A t \in Terminal :
           UNCHANGED <<terminals[t].blocked_readers, terminals[t].read_buffer>>
  PROVE  Served'
BY Zenon DEF Served

(* Only the buffer of one terminal or its readers change, and one of them  *)
(* is empty.                                                               *)
LEMMA OneEmptyKeeps ==
  ASSUME Served, kpc # "receive", NEW t \in Terminal,
         \A u \in Terminal \ {t} :
           UNCHANGED <<terminals[u].blocked_readers, terminals[u].read_buffer>>,
         \/ is_empty(terminals'[t].blocked_readers)
         \/ is_empty(terminals'[t].read_buffer)
  PROVE  Served'
BY Zenon DEF Served

(* The steps inside the receive trap of t.                                 *)
LEMMA ReceiveKeepsServed ==
  ASSUME Served, NEW t \in Terminal, kpc' = "receive", rx' = t,
         kpc = "receive" => rx = t,
         \A u \in Terminal \ {t} :
           UNCHANGED <<terminals[u].blocked_readers, terminals[u].read_buffer>>
  PROVE  Served'
BY Zenon DEF Served

LEMMA StartsServed ==
  ASSUME TypeOK, StrongTypeOK, Served, kpc # "receive",
         NEW t \in Terminal, NEW len \in Nat, TtyWriteStarts(t, len)
  PROVE  Served'
<1>1. terminals \in [Terminal -> StrongTerminalType]
  BY DEF StrongTypeOK
<1>2. ASSUME NEW u \in Terminal
      PROVE  UNCHANGED <<terminals[u].blocked_readers, terminals[u].read_buffer>>
  <2>1. CASE BeginTtyTransmit(t, len)
    <3>1. terminals' = [terminals EXCEPT
                          ![t].in_use = TRUE,
                          ![t].write_len = len,
                          ![t].write_pos = MinOf(len, MaxLine),
                          ![t].current_writer = current_process]
      BY <2>1 DEF BeginTtyTransmit
    <3> QED BY <1>1, <3>1, SMT DEF StrongTerminalType
  <2>2. CASE TtyOverrun(t, len)
    <3>1. terminals' = [terminals EXCEPT ![t].write_len = len,
                                         ![t].write_pos = 0,
                                         ![t].current_writer = current_process]
      BY <2>2 DEF TtyOverrun
    <3> QED BY <1>1, <3>1, SMT DEF StrongTerminalType
  <2>3. CASE TtyWriteNoMemory(t)
    <3>1. \/ UNCHANGED terminals
          \/ \E v : terminals' = [terminals EXCEPT ![t].in_use = FALSE,
                                                   ![t].blocked_writers = v]
      <4>1. \/ UNCHANGED terminals
            \/ terminals' = [terminals EXCEPT
                               ![t].in_use = FALSE,
                               ![t].blocked_writers =
                                  IF NextWriter(t) = NULL THEN @ ELSE queueDequeue(@)]
        BY <2>3 DEF TtyWriteNoMemory, NextWriter
      <4>2. terminals[t] \in StrongTerminalType
        BY <1>1
      <4>3. [terminals EXCEPT
               ![t].in_use = FALSE,
               ![t].blocked_writers =
                  IF NextWriter(t) = NULL THEN @ ELSE queueDequeue(@)]
            = [terminals EXCEPT
                 ![t].in_use = FALSE,
                 ![t].blocked_writers =
                    IF NextWriter(t) = NULL THEN terminals[t].blocked_writers
                    ELSE queueDequeue(terminals[t].blocked_writers)]
        BY <1>1, <4>2 DEF StrongTerminalType
      <4> QED BY <4>1, <4>3
    <3>2. CASE UNCHANGED terminals
      BY <3>2
    <3>3. ASSUME NEW v, terminals' = [terminals EXCEPT ![t].in_use = FALSE,
                                                       ![t].blocked_writers = v]
          PROVE  UNCHANGED <<terminals[u].blocked_readers, terminals[u].read_buffer>>
      BY <1>1, <3>3, SMT DEF StrongTerminalType
    <3> QED BY <3>1, <3>2, <3>3
  <2> QED BY <2>1, <2>2, <2>3 DEF TtyWriteStarts
<1> QED BY <1>2, SameReadersKeep


(* A terminal step leaves no reader waiting for input that is there.       *)
LEMMA TtyNextServed ==
  ASSUME TypeOK, StrongTypeOK, Served, TtyNext
  PROVE  Served'
<1>1. terminals \in [Terminal -> StrongTerminalType] /\ rx \in Terminal
  BY DEF StrongTypeOK
<1>2. ASSUME kpc # "receive", UNCHANGED terminals PROVE Served'
  BY <1>2, SameReadersKeep
<1>3. ASSUME kpc = "user", NEW t \in Terminal, NEW len \in ReadLens,
             TtyReadReturns(t, len)
      PROVE  Served'
  <2> DEFINE new == Shifted(t, MinOf(len, Len(terminals[t].read_buffer)))
  <2>1. /\ terminals' = [terminals EXCEPT ![t].read_buffer = new]
        /\ ~is_empty(terminals[t].read_buffer)
    BY <1>3 DEF TtyReadReturns
  <2>2. is_empty(terminals[t].blocked_readers)
    BY <1>3, <2>1 DEF Served
  <2> HIDE DEF new
  <2>3. terminals'[t].blocked_readers = terminals[t].blocked_readers
    BY <1>1, <2>1, SMT DEF StrongTerminalType
  <2>4. \A u \in Terminal \ {t} : terminals'[u] = terminals[u]
    BY <1>1, <2>1
  <2>5. is_empty(terminals'[t].blocked_readers)
    BY <2>2, <2>3
  <2>6. \A u \in Terminal \ {t} :
          UNCHANGED <<terminals[u].blocked_readers, terminals[u].read_buffer>>
    BY <2>4
  <2> QED BY <1>3, <2>5, <2>6, OneEmptyKeeps
<1>4. ASSUME kpc = "user", NEW t \in Terminal, NEW len \in ReadLens,
             TtyReadBlocks(t, len)
      PROVE  Served'
  <2> DEFINE new == queueEnqueue(terminals[t].blocked_readers, current_process)
  <2>1. /\ terminals' = [terminals EXCEPT ![t].blocked_readers = new]
        /\ is_empty(terminals[t].read_buffer)
    BY <1>1, <1>4 DEF TtyReadBlocks
  <2> HIDE DEF new
  <2>2. terminals'[t].read_buffer = terminals[t].read_buffer
    BY <1>1, <2>1, SMT DEF StrongTerminalType
  <2>3. \A u \in Terminal \ {t} : terminals'[u] = terminals[u]
    BY <1>1, <2>1
  <2>4. is_empty(terminals'[t].read_buffer)
    BY <2>1, <2>2
  <2>5. \A u \in Terminal \ {t} :
          UNCHANGED <<terminals[u].blocked_readers, terminals[u].read_buffer>>
    BY <2>3
  <2> QED BY <1>4, <2>4, <2>5, OneEmptyKeeps
<1>5. ASSUME kpc = "user", NEW t \in Terminal, NEW len \in WriteLens,
             TtyWriteBlocks(t, len)
      PROVE  Served'
  <2> DEFINE new == queueEnqueue(terminals[t].blocked_writers, current_process)
  <2>1. terminals' = [terminals EXCEPT ![t].blocked_writers = new]
    BY <1>1, <1>5 DEF TtyWriteBlocks
  <2> HIDE DEF new
  <2>2. \A u \in Terminal :
          UNCHANGED <<terminals[u].blocked_readers, terminals[u].read_buffer>>
    BY <1>1, <2>1, SMT DEF StrongTerminalType
  <2> QED BY <1>5, <2>2, SameReadersKeep
<1>6. ASSUME kpc = "user", NEW t \in Terminal, TransmitNextChunk(t)
      PROVE  Served'
  <2> DEFINE pos == terminals[t].write_pos
                      + MinOf(terminals[t].write_len - terminals[t].write_pos,
                              MaxLine)
  <2>1. terminals' = [terminals EXCEPT ![t].write_pos = pos]
    BY <1>1, <1>6 DEF TransmitNextChunk
  <2> HIDE DEF pos
  <2>2. \A u \in Terminal :
          UNCHANGED <<terminals[u].blocked_readers, terminals[u].read_buffer>>
    BY <1>1, <2>1, SMT DEF StrongTerminalType
  <2> QED BY <1>6, <2>2, SameReadersKeep
<1>7. ASSUME kpc = "user", NEW t \in Terminal, TransmitDone(t)
      PROVE  Served'
  <2>1. CASE {terminals[t].current_writer, NextWriter(t)} \intersect freed = {}
    <3>1. \A u \in Terminal :
            UNCHANGED <<terminals[u].blocked_readers, terminals[u].read_buffer>>
      <4>1. /\ terminals'[t].blocked_readers = terminals[t].blocked_readers
            /\ terminals'[t].read_buffer = terminals[t].read_buffer
            /\ \A u \in Terminal \ {t} : terminals'[u] = terminals[u]
        BY <1>7, <2>1, DoneEffect
      <4> QED BY <4>1
    <3> QED BY <1>7, <3>1, SameReadersKeep
  <2>2. CASE {terminals[t].current_writer, NextWriter(t)} \intersect freed # {}
    <3>1. UNCHANGED ttyVars
      BY <1>7, <2>2, Zenon DEF TransmitDone, NextWriter
    <3> QED BY <1>2, <1>7, <3>1 DEF ttyVars
  <2> QED BY <2>1, <2>2
<1>8. ASSUME kpc = "user", NEW t \in Terminal, TtyTrapReceiveHandler(t)
      PROVE  Served'
  <2>1. /\ kpc' = "receive" /\ rx' = t
        /\ \A u \in Terminal \ {t} : terminals'[u] = terminals[u]
    BY <1>8, ReceiveEffect
  <2>2. \A u \in Terminal \ {t} :
          UNCHANGED <<terminals[u].blocked_readers, terminals[u].read_buffer>>
    BY <2>1
  <2> QED BY <1>8, <2>1, <2>2, ReceiveKeepsServed
<1>9. ASSUME NEW t \in Terminal, NEW len \in Nat,
             UserTrap \/ Resumes("ttylock"), TtyWriteStarts(t, len)
      PROVE  Served'
  <2>1. kpc # "receive"
    BY <1>9 DEF UserTrap, InUser, Resumes
  <2> QED BY <1>9, <2>1, StartsServed
<1>10. ASSUME kpc = "receive", TtyServesReader PROVE Served'
  <2>1. PICK t \in Terminal : t = rx
    BY <1>1
  <2>2. /\ kpc' = "receive" /\ rx' = t
        /\ \A u \in Terminal \ {t} : terminals'[u] = terminals[u]
    <3>1. CASE Undefined /\ UNCHANGED ttyVars
      BY <1>10, <2>1, <3>1, ServeType DEF ttyVars
    <3>2. CASE \E n \in 0 .. Len(terminals[rx].read_buffer) :
                 ServeReader(queueFront(terminals[rx].blocked_readers), n)
      <4>1. ReaderToServe
        BY <1>10, ServeCases
      <4>2. kpc' = "receive" /\ rx' = rx
        BY <1>10, <3>2 DEF ServeReader
      <4> QED BY <2>1, <3>2, <4>1, <4>2, ServeEffect
    <3> QED BY <1>10, <3>1, <3>2, ServeCases
  <2>3. \A u \in Terminal \ {t} :
          UNCHANGED <<terminals[u].blocked_readers, terminals[u].read_buffer>>
    BY <2>2
  <2> QED BY <2>1, <2>2, <2>3, ReceiveKeepsServed
<1>11. ASSUME TtyReceiveReturns PROVE Served'
  <2>1. UNCHANGED <<terminals, rx>> /\ ~ReaderToServe
    BY <1>11 DEF TtyReceiveReturns, ttyVars
  <2> QED BY <2>1, Zenon DEF Served, ReaderToServe
<1>12. CASE /\ kpc # "receive"
            /\ \/ TtyBadArguments \/ TtyReadResumes \/ TtyWriteResumes
               \/ \E t \in Terminal : TtyReadNoMemory(t)
  <2>1. UNCHANGED terminals
    BY <1>12 DEF TtyBadArguments, TtyReadResumes, TtyWriteResumes,
                 TtyReadNoMemory, ttyVars
  <2> QED BY <1>2, <1>12, <2>1
<1> QED BY <1>3, <1>4, <1>5, <1>6, <1>7, <1>8, <1>9, <1>10, <1>11, <1>12, TtyCases

-----------------------------------------------------------------------------
(* The invariant is inductive.                                             *)

LEMMA TtyNextAfter ==
  ASSUME TtyBefore, TypeOK', StrongTypeOK', Sane', TtyNext
  PROVE  TtyAfter'
<1>1. TypeOK /\ StrongTypeOK
  BY TtyBeforeFacts
<1>2. ~Undefined
  BY DEF Sane, Undefined
<1>3. ASSUME NEW t \in Terminal, NEW len \in Nat,
             \/ UserTrap /\ ~terminals[t].in_use
             \/ Resumes("ttylock") /\ t = io[current_process].tty,
             TtyWriteStarts(t, len)
      PROVE  TtyAfter'
  <2>1. CASE BeginTtyTransmit(t, len)
    BY <1>3, <2>1, BeginStep
  <2>2. CASE TtyOverrun(t, len)
    BY <2>2 DEF TtyOverrun, Sane
  <2>3. CASE TtyWriteNoMemory(t)
    BY <1>3, <2>3, NoMemoryStep
  <2> QED BY <1>3, <2>1, <2>2, <2>3 DEF TtyWriteStarts
<1>4. CASE TtyServesReader
  BY <1>1, <1>2, <1>4, ServeCases, ServeStep
<1>5. CASE kpc = "user" /\ TtyBadArguments
  <2>1. /\ kpc # "resume" /\ kpc' # "resume"
        /\ UNCHANGED <<machine, current_process, ready_queue, blocked_queue,
                       zombie_queue, proc_table, pcb, freed, terminals, io, device>>
    BY <1>5 DEF TtyBadArguments, Return, ttyVars
  <2> QED BY <2>1, QuietTty
<1>6. CASE kpc = "receive" /\ TtyReceiveReturns
  <2>1. /\ kpc # "resume" /\ kpc' # "resume"
        /\ UNCHANGED <<machine, current_process, ready_queue, blocked_queue,
                       zombie_queue, proc_table, pcb, freed, terminals, io, device>>
    BY <1>6 DEF TtyReceiveReturns, ttyVars
  <2> QED BY <2>1, QuietTty
<1>7. ASSUME kpc = "user", NEW t \in Terminal, TtyReadNoMemory(t) PROVE TtyAfter'
  <2>1. /\ kpc # "resume" /\ kpc' # "resume"
        /\ UNCHANGED <<machine, current_process, ready_queue, blocked_queue,
                       zombie_queue, proc_table, pcb, freed, terminals, io, device>>
    BY <1>7 DEF TtyReadNoMemory, Return
  <2> QED BY <2>1, QuietTty
<1> QED BY <1>1, <1>3, <1>4, <1>5, <1>6, <1>7, TtyCases, ReadReturnsStep,
           ReadBlocksStep, ReadResumesStep, WriteBlocksStep, WriteResumesStep,
           NextChunkStep, DoneStep, ReceiveStep

LEMMA TtyNextKernel ==
  ASSUME KernelInv, TtyNext
  PROVE  KernelInv'
<1>1. PlacementInv /\ TypeOK /\ StrongTypeOK /\ Served
  BY DEF KernelInv, PlacementInv
<1>2. TypeOK' /\ StrongTypeOK' /\ SavedNodesAreLinked'
  BY <1>1, TtyNextType DEF SavedNodesAreLinked
<1>3. Served'
  BY <1>1, TtyNextServed
<1>4. ASSUME Sane' PROVE TtyAfter'
  <2>1. machine = "on" /\ faults \subseteq faults'
    BY <1>1, TtyFaultsGrow
  <2>2. Sane
    BY <1>4, <2>1 DEF Sane
  <2>3. TtyBefore
    BY <2>1, <2>2 DEF TtyBefore
  <2> QED BY <1>2, <1>4, <2>3, TtyNextAfter
<1> QED BY <1>2, <1>3, <1>4 DEF KernelInv, PlacementInv, TtyAfter

LEMMA KernelInvStep == KernelInv /\ [KernelNext]_allVars => KernelInv'
BY ProcNextKernel, TtyNextKernel, StutterKernel DEF KernelNext, KernelStopped

LEMMA KernelInductive == KernelSpec => []KernelInv
BY KernelStart, KernelInvStep, PTL DEF KernelSpec

-----------------------------------------------------------------------------
(* The theorems.                                                           *)

(* Whatever the lines typed and the lengths read and written: the receive  *)
(* trap never writes past the TERMINAL_MAX_LINE bytes of a read buffer,    *)
(* and the structures of tty.c keep their types.                           *)
THEOREM TerminalsAreTyped == KernelSpec => []TtyTypeOK
BY KernelImpliesType, KernelInductive, PTL

(* With the terminal calls and traps among the steps, too, no process is   *)
(* in two of the queues, the CPU and the sleepers in Wait, nor is one      *)
(* twice in a queue.                                                       *)
THEOREM NobodyTwiceInKernel == KernelSpec => []NoProcessTwice
<1>1. KernelInv => NoProcessTwice
  BY PlacementImplies DEF KernelInv
<1> QED BY <1>1, KernelInductive, PTL

(* Nor is one lost by TtyRead, TtyWrite or a terminal's trap.              *)
THEOREM NobodyLostInKernel == KernelSpec => []NoProcessLost
<1>1. KernelInv => NoProcessLost
  BY PlacementImplies DEF KernelInv
<1> QED BY <1>1, KernelInductive, PTL

(* The lock of a terminal excludes: with any number of writers, at most    *)
(* one process writes or is about to after the lock was handed over to it, *)
(* in_use tells exactly that, and nobody waits for a lock that is free.    *)
THEOREM TerminalLock == KernelSpec => []OneWriter
<1>1. KernelInv => OneWriter
  BY KernelImpliesWaits
<1> QED BY <1>1, KernelInductive, PTL

(* Nobody sleeps in TtyWrite whom TtyTrapTransmitHandler will not find: a  *)
(* writer is current_writer of a busy terminal, one that waits for the     *)
(* lock is in blocked_writers.                                             *)
THEOREM NoWriterForgotten == KernelSpec => []WritersAreWoken
<1>1. KernelInv => WritersAreWoken
  BY KernelImpliesWaits
<1> QED BY <1>1, KernelInductive, PTL

(* Nobody sleeps in TtyRead of a terminal whose buffer has input, once the *)
(* receive trap has returned, and every such sleeper is in the queue that  *)
(* TtyTrapReceiveHandler serves.                                           *)
THEOREM NoReaderForgotten == KernelSpec => []ReadersAreServed
BY KernelImpliesServed, KernelInductive, PTL

(* No byte that a terminal accepted is lost, duplicated or reordered       *)
(* between the receive trap, the read buffer, the kernel buffers of the    *)
(* readers it woke and the user buffers TtyRead fills.                     *)
THEOREM NoByteLost == KernelSpec => []InputIsConserved
BY KernelImpliesInput, KernelInductive, PTL
=============================================================================
