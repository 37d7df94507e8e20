------------------------------ MODULE Terminals ------------------------------
(***************************************************************************)
(* The terminals: TtyRead and TtyWrite of src/src/syscalls/tty.c with      *)
(* their cases in KernelTrapHandler, and the receive and transmit traps of *)
(* src/src/traps/trap.c, together with the processes of module Processes,  *)
(* which block on a terminal and are woken by its traps.                   *)
(*                                                                         *)
(* The n-th byte a terminal accepts from its keyboard is the number n.     *)
(* The bytes written to a terminal are only counted.                       *)
(***************************************************************************)
EXTENDS Processes

CONSTANTS
  NumTerminals,       \* NUM_TERMINALS
  MaxLine,            \* TERMINAL_MAX_LINE
  ReadLens,           \* the lengths user programs pass to TtyRead ...
  WriteLens,          \* ... and to TtyWrite
  MaxTyped,           \* bound: bytes a terminal accepts in one execution
  MaxHeapFailures     \* bound: times malloc fails for a terminal buffer

ASSUME TerminalAssumption ==
  /\ NumTerminals \in Nat \ {0} /\ MaxLine \in Nat \ {0}
  /\ ReadLens \subseteq Nat \ {0} /\ WriteLens \subseteq Nat \ {0}
  /\ MaxTyped \in Nat /\ MaxHeapFailures \in Nat

Terminal == 0 .. NumTerminals - 1

VARIABLES
  terminals,   \* the terminal_t structures
  io,          \* terminal fields of the PCBs, and the arguments of a blocked
               \* TtyRead or TtyWrite on the kernel stack
  device,      \* the terminal hardware, and what happened to its input
  rx,          \* the terminal TtyTrapReceiveHandler works on
  failures     \* the times malloc has failed

ttyVars == <<terminals, io, device, rx, failures>>
allVars == <<procVars, ttyVars>>

-----------------------------------------------------------------------------
(* InitializeTerminals.                                                    *)
TtyInit ==
  /\ terminals =
       [t \in Terminal |->
         [blocked_readers |-> << >>, blocked_writers |-> << >>,
          read_buffer |-> << >>,             \* read_buffer[0 .. len - 1]
          write_len |-> 0, write_pos |-> 0,
          current_writer |-> NULL, in_use |-> FALSE]]
  /\ io = [p \in PCB |->
            [read_len |-> 0,                 \* tty_read_len
             read_buf |-> << >>,             \* tty_kernel_read_buf
             regs0 |-> 0,                    \* user_context.regs[0]
             tty |-> 0, len |-> 0]]          \* on the kernel stack
  /\ device = [t \in Terminal |->
                [busy |-> FALSE,     \* a transmission is in progress
                 typed |-> 0,        \* bytes accepted so far
                 delivered |-> {}]]  \* bytes copied to user buffers
  /\ rx = 0
  /\ failures = 0

(* malloc returns NULL for the buffer of a terminal operation.             *)
MallocFails ==
  /\ failures < MaxHeapFailures
  /\ failures' = failures + 1

MinOf(a, b) == IF a < b THEN a ELSE b

Bytes(t, n) == SubSeq(terminals[t].read_buffer, 1, n)

(* Mutation: one byte stays.                                               *)
ShiftedShort(t, n) ==
  SubSeq(terminals[t].read_buffer, n, Len(terminals[t].read_buffer))

(* The read buffer after n bytes were taken from its front.                *)
Shifted(t, n) ==
  SubSeq(terminals[t].read_buffer, n + 1, Len(terminals[t].read_buffer))

-----------------------------------------------------------------------------
(* TtyRead.                                                                *)

(* The buffer is in user memory and len is positive, or the call fails.    *)
TtyBadArguments ==
  /\ UserTrap
  /\ \E call \in {"TtyRead", "TtyWrite"} : Return(call, ERROR)
  /\ UNCHANGED <<machine, current_process, ready_queue, blocked_queue,
                 zombie_queue, proc_table, pcb, freed, iter, faults, ttyVars>>

(* Data is there: it goes through a kernel buffer to the caller's.         *)
TtyReadReturns(t, len) ==
  /\ UserTrap
  /\ ~is_empty(terminals[t].read_buffer)
  /\ LET n == MinOf(len, Len(terminals[t].read_buffer)) IN
       /\ terminals' = [terminals EXCEPT ![t].read_buffer = Shifted(t, n)]
       /\ device' = [device EXCEPT ![t].delivered = @ \union ToSet(Bytes(t, n))]
       /\ io' = [io EXCEPT ![current_process].read_buf = << >>]
       /\ Return("TtyRead", n)
  /\ UNCHANGED <<machine, current_process, ready_queue, blocked_queue,
                 zombie_queue, proc_table, pcb, freed, iter, faults, rx, failures>>

TtyReadNoMemory(t) ==
  /\ UserTrap
  /\ MallocFails
  /\ ~is_empty(terminals[t].read_buffer)
  /\ Return("TtyRead", ERROR)
  /\ UNCHANGED <<machine, current_process, ready_queue, blocked_queue,
                 zombie_queue, proc_table, pcb, freed, iter, faults,
                 terminals, io, device, rx>>

(* The saved regs[0] is still the first argument, the terminal's number.   *)
TtyReadBlocks(t, len) ==
  /\ UserTrap
  /\ is_empty(terminals[t].read_buffer)
  /\ terminals' = [terminals EXCEPT ![t].blocked_readers =
                                        queueEnqueue(@, current_process)]
  /\ blocked_queue' = queueEnqueue(blocked_queue, current_process)
  /\ io' = [io EXCEPT ![current_process].read_len = len,
                      ![current_process].regs0 = t,
                      ![current_process].tty = t]
  /\ SwitchToNext("ttyread", ready_queue,
                  [pcb EXCEPT ![current_process].state = "PROC_BLOCKED"])
  /\ UNCHANGED <<zombie_queue, proc_table, freed, iter, faults, device, rx, failures>>

(* The arguments on the stack are gone when the call returns, and regs[0]  *)
(* is saved anew by the next trap.                                         *)
CallEnds(p) == [io EXCEPT ![p].regs0 = 0, ![p].tty = 0, ![p].len = 0]

(* The end of TtyRead and of its case in KernelTrapHandler.                *)
TtyReadResumes ==
  /\ Resumes("ttyread")
  /\ LET p == current_process
         unpack == io[p].regs0 > 0 /\ io[p].read_buf # << >>
     IN  /\ Return("TtyRead", io[p].regs0)
         /\ io' = IF unpack THEN [CallEnds(p) EXCEPT ![p].read_buf = << >>]
                  ELSE CallEnds(p)
         /\ device' = IF unpack
                      THEN [device EXCEPT ![io[p].tty].delivered =
                                              @ \union ToSet(io[p].read_buf)]
                      ELSE device
  /\ UNCHANGED <<machine, current_process, ready_queue, blocked_queue,
                 zombie_queue, proc_table, pcb, freed, iter, faults,
                 terminals, rx, failures>>

-----------------------------------------------------------------------------
(* TtyWrite.                                                               *)

(* Mutation: the writer is not queued at its terminal.                     *)
TtyWriteBlocksUnqueued(t, len) ==
  /\ UserTrap
  /\ terminals[t].in_use
  /\ blocked_queue' = queueEnqueue(blocked_queue, current_process)
  /\ io' = [io EXCEPT ![current_process].tty = t, ![current_process].len = len]
  /\ SwitchToNext("ttylock", ready_queue,
                  [pcb EXCEPT ![current_process].state = "PROC_BLOCKED"])
  /\ UNCHANGED <<zombie_queue, proc_table, freed, iter, faults, terminals,
                 device, rx, failures>>

(* The terminal is taken: sleep until its lock is handed over.             *)
TtyWriteBlocks(t, len) ==
  /\ UserTrap
  /\ terminals[t].in_use
  /\ terminals' = [terminals EXCEPT ![t].blocked_writers =
                                        queueEnqueue(@, current_process)]
  /\ blocked_queue' = queueEnqueue(blocked_queue, current_process)
  /\ io' = [io EXCEPT ![current_process].tty = t, ![current_process].len = len]
  /\ SwitchToNext("ttylock", ready_queue,
                  [pcb EXCEPT ![current_process].state = "PROC_BLOCKED"])
  /\ UNCHANGED <<zombie_queue, proc_table, freed, iter, faults, device, rx, failures>>

(* TtyTransmit is only defined while the device is idle.                   *)
Overrun(t) == device[t].busy

(* BeginTtyTransmit succeeds: the first chunk is on its way, and the       *)
(* writer sleeps until the last one is out.                                *)
BeginTtyTransmit(t, len) ==
  /\ ~Overrun(t)
  /\ terminals' = [terminals EXCEPT
                     ![t].in_use = TRUE,
                     ![t].write_len = len,
                     ![t].write_pos = MinOf(len, MaxLine),
                     ![t].current_writer = current_process]
  /\ device' = [device EXCEPT ![t].busy = TRUE]
  /\ blocked_queue' = queueEnqueue(blocked_queue, current_process)
  /\ io' = [io EXCEPT ![current_process].tty = t, ![current_process].len = len]
  /\ SwitchToNext("ttywrite", ready_queue,
                  [pcb EXCEPT ![current_process].state = "PROC_BLOCKED"])
  /\ UNCHANGED <<zombie_queue, proc_table, freed, iter, faults, rx, failures>>

(* A transmission is started over one in progress.  The structure is       *)
(* overwritten; what the device does is not modelled.                      *)
TtyOverrun(t, len) ==
  /\ Overrun(t)
  /\ machine' = "undefined"
  /\ terminals' = [terminals EXCEPT ![t].write_len = len,
                                    ![t].write_pos = 0,
                                    ![t].current_writer = current_process]
  /\ reply' = NoReply
  /\ UNCHANGED <<kpc, current_process, ready_queue, blocked_queue,
                 zombie_queue, proc_table, pcb, freed, iter, faults,
                 io, device, rx, failures>>

(* BeginTtyTransmit finds no memory: the lock is released, the next writer *)
(* is made ready without being taken off the blocked queue, and the call   *)
(* fails.                                                                  *)
TtyWriteNoMemory(t) ==
  /\ MallocFails
  /\ LET writers == terminals[t].blocked_writers
         next == IF is_empty(writers) THEN NULL ELSE queueFront(writers)
     IN  IF next \in freed
         THEN Undefined /\ UNCHANGED <<terminals, io, device, rx>>
         ELSE /\ terminals' = [terminals EXCEPT
                                 ![t].in_use = FALSE,
                                 ![t].blocked_writers =
                                     IF next = NULL THEN @ ELSE queueDequeue(@)]
              /\ pcb' = IF next = NULL THEN pcb
                        ELSE [pcb EXCEPT ![next].state = "PROC_READY"]
              /\ ready_queue' = IF next = NULL THEN ready_queue
                                ELSE queueEnqueue(ready_queue, next)
              /\ faults' = IF next = NULL THEN faults
                           ELSE faults \union {"half_woken"}
              /\ io' = CallEnds(current_process)
              /\ Return("TtyWrite", ERROR)
              /\ UNCHANGED <<machine, current_process, blocked_queue,
                             zombie_queue, proc_table, freed, iter, device, rx>>

TtyWriteStarts(t, len) ==
  BeginTtyTransmit(t, len) \/ TtyOverrun(t, len) \/ TtyWriteNoMemory(t)

(* The terminal is free.                                                   *)
TtyWrite(t, len) ==
  /\ UserTrap
  /\ ~terminals[t].in_use
  /\ TtyWriteStarts(t, len)

(* Woken while waiting for the lock: go on without looking at it again.    *)
TtyLockResumes ==
  /\ Resumes("ttylock")
  /\ TtyWriteStarts(io[current_process].tty, io[current_process].len)

TtyWriteResumes ==
  /\ Resumes("ttywrite")
  /\ Return("TtyWrite", io[current_process].len)
  /\ io' = CallEnds(current_process)
  /\ UNCHANGED <<machine, current_process, ready_queue, blocked_queue,
                 zombie_queue, proc_table, pcb, freed, iter, faults,
                 terminals, device, rx, failures>>

-----------------------------------------------------------------------------
(* The transmit trap: the device has sent a chunk.                         *)

TransmitInterrupt(t) == InUser /\ device[t].busy

(* Mutation: the position does not advance.                                *)
TransmitSameChunk(t) ==
  /\ TransmitInterrupt(t)
  /\ terminals[t].write_pos < terminals[t].write_len
  /\ reply' = NoReply
  /\ UNCHANGED <<machine, kpc, current_process, ready_queue, blocked_queue,
                 zombie_queue, proc_table, pcb, freed, iter, faults, ttyVars>>

(* There is more to write.                                                 *)
TransmitNextChunk(t) ==
  /\ TransmitInterrupt(t)
  /\ terminals[t].write_pos < terminals[t].write_len
  /\ terminals' = [terminals EXCEPT ![t].write_pos =
                     @ + MinOf(terminals[t].write_len - @, MaxLine)]
  /\ reply' = NoReply
  /\ UNCHANGED <<machine, kpc, current_process, ready_queue, blocked_queue,
                 zombie_queue, proc_table, pcb, freed, iter, faults,
                 io, device, rx, failures>>

(* A process a trap wakes is made ready and changes queues; NULL is nobody.*)
Readied(table, p) ==
  IF p = NULL THEN table ELSE [table EXCEPT ![p].state = "PROC_READY"]

(* Mutations: the process stays blocked, or is queued nowhere.             *)
StillBlocked(queue, p) == queue
NotQueued(queue, p) == queue

Unblocked(queue, p) == IF p = NULL THEN queue ELSE queueRemove(queue, p)
Queued(queue, p) == IF p = NULL THEN queue ELSE queueEnqueue(queue, p)

(* Mutation: the lock is released although a blocked writer takes over.    *)
ReleasedAlways(in_use, next) == FALSE

(* The lock after a write: it stays taken when a blocked writer gets it.   *)
HandedOver(in_use, next) == IF next = NULL THEN FALSE ELSE in_use

(* The write is complete: its writer is woken, and the lock goes to the    *)
(* first blocked writer, which is woken too, or is released.               *)
TransmitDone(t) ==
  /\ TransmitInterrupt(t)
  /\ terminals[t].write_pos >= terminals[t].write_len
  /\ LET finished == terminals[t].current_writer
         writers == terminals[t].blocked_writers
         next == IF is_empty(writers) THEN NULL ELSE queueFront(writers)
     IN  IF {finished, next} \intersect freed # {}
         THEN Undefined /\ UNCHANGED ttyVars
         ELSE /\ terminals' =
                   [terminals EXCEPT
                      ![t].write_len = 0, ![t].write_pos = 0,
                      ![t].current_writer = NULL,
                      ![t].blocked_writers =
                          IF next = NULL THEN @ ELSE queueDequeue(@),
                      ![t].in_use = HandedOver(@, next)]
              /\ pcb' = Readied(Readied(pcb, finished), next)
              /\ blocked_queue' =
                   Unblocked(Unblocked(blocked_queue, finished), next)
              /\ ready_queue' = Queued(Queued(ready_queue, finished), next)
              /\ io' = IF finished = NULL THEN io
                       ELSE [io EXCEPT ![finished].regs0 =
                                           terminals[t].write_len]
              /\ device' = [device EXCEPT ![t].busy = FALSE]
              /\ reply' = NoReply
              /\ UNCHANGED <<machine, kpc, current_process, zombie_queue,
                             proc_table, freed, iter, faults, rx, failures>>

TtyTrapTransmitHandler(t) == TransmitNextChunk(t) \/ TransmitDone(t)

-----------------------------------------------------------------------------
(* Mutation: the room already taken is forgotten.                          *)
WholeLine(line, buffer) == line

(* What TtyReceive copies of a line: what fits in the rest of the buffer.  *)
Received(line, buffer) == MinOf(line, MaxLine - Len(buffer))

(* The receive trap: a line was typed.  TtyReceive copies as much of it as *)
(* fits in the rest of the buffer; the device drops what does not.         *)
TtyTrapReceiveHandler(t) ==
  /\ InUser
  /\ \E line \in 1 .. MaxLine :
       LET buffer == terminals[t].read_buffer
           n == Received(line, buffer)
       IN  /\ device[t].typed + n <= MaxTyped
           /\ terminals' = [terminals EXCEPT ![t].read_buffer =
                              @ \o [i \in 1 .. n |-> device[t].typed + i]]
           /\ device' = [device EXCEPT ![t].typed = @ + n]
  /\ kpc' = "receive"
  /\ rx' = t
  /\ reply' = NoReply
  /\ UNCHANGED <<machine, current_process, ready_queue, blocked_queue,
                 zombie_queue, proc_table, pcb, freed, iter, faults, io,
                 failures>>

Receives == machine = "on" /\ kpc = "receive"

ReaderToServe ==
  /\ ~is_empty(terminals[rx].blocked_readers)
  /\ ~is_empty(terminals[rx].read_buffer)

(* The reader that waits longest is taken off the terminal and woken with  *)
(* n bytes in its kernel buffer; none when there is no memory for them.    *)
ServeReader(reader, n) ==
  /\ terminals' = [terminals EXCEPT
                     ![rx].blocked_readers = queueDequeue(@),
                     ![rx].read_buffer = Shifted(rx, n)]
  /\ io' = [io EXCEPT ![reader].regs0 = n,
                      ![reader].read_buf = IF n = 0 THEN @ ELSE Bytes(rx, n)]
  /\ pcb' = Readied(pcb, reader)
  /\ blocked_queue' = Unblocked(blocked_queue, reader)
  /\ ready_queue' = Queued(ready_queue, reader)
  /\ UNCHANGED <<machine, kpc, current_process, zombie_queue, proc_table,
                 freed, iter, reply, faults, device, rx>>

(* One round of the loop over the blocked readers.                         *)
TtyServesReader ==
  /\ Receives
  /\ ReaderToServe
  /\ LET reader == queueFront(terminals[rx].blocked_readers) IN
     IF reader \in freed
     THEN Undefined /\ UNCHANGED ttyVars
     ELSE \/ /\ ServeReader(reader, MinOf(io[reader].read_len,
                                          Len(terminals[rx].read_buffer)))
             /\ UNCHANGED failures
          \/ ServeReader(reader, 0) /\ MallocFails

(* Mutation: one reader at most is served.                                 *)
TtyReceiveReturnsEarly ==
  /\ Receives
  /\ kpc' = "user"
  /\ UNCHANGED <<machine, current_process, ready_queue, blocked_queue,
                 zombie_queue, proc_table, pcb, freed, iter, reply, faults,
                 ttyVars>>

(* No reader or no byte is left.                                           *)
TtyReceiveReturns ==
  /\ Receives
  /\ ~ReaderToServe
  /\ kpc' = "user"
  /\ UNCHANGED <<machine, current_process, ready_queue, blocked_queue,
                 zombie_queue, proc_table, pcb, freed, iter, reply, faults,
                 ttyVars>>

-----------------------------------------------------------------------------
TtySyscall ==
  \/ TtyBadArguments
  \/ \E t \in Terminal :
       \/ \E len \in ReadLens : TtyReadReturns(t, len) \/ TtyReadBlocks(t, len)
       \/ TtyReadNoMemory(t)
       \/ \E len \in WriteLens : TtyWrite(t, len) \/ TtyWriteBlocks(t, len)

TtyKernelStep ==
  \/ TtyReadResumes \/ TtyLockResumes \/ TtyWriteResumes
  \/ TtyServesReader \/ TtyReceiveReturns

TtyInterrupt ==
  \E t \in Terminal : TtyTrapTransmitHandler(t) \/ TtyTrapReceiveHandler(t)

TtyNext == TtySyscall \/ TtyKernelStep \/ TtyInterrupt
=============================================================================
