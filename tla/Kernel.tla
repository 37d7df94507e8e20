------------------------------- MODULE Kernel -------------------------------
(***************************************************************************)
(* The whole kernel of this project: processes and terminals, which share  *)
(* the ready queue, the blocked queue and the CPU.                         *)
(***************************************************************************)
EXTENDS Terminals

KernelInit == Init /\ TtyInit

KernelStopped == machine # "on" /\ UNCHANGED allVars

KernelNext ==
  \/ ProcNext /\ UNCHANGED ttyVars
  \/ TtyNext
  \/ KernelStopped

KernelSpec == KernelInit /\ [][KernelNext]_allVars

(* As in Processes, and the terminals answer: a chunk handed to the device *)
(* is sent at some time, and its interrupt is taken when enabled.          *)
KernelFairness ==
  /\ WF_allVars((KernelStep /\ UNCHANGED ttyVars) \/ TtyKernelStep)
  /\ SF_allVars(ClockTrapHandler /\ UNCHANGED ttyVars)
  /\ \A t \in Terminal : SF_allVars(TtyTrapTransmitHandler(t))

FairKernelSpec == KernelSpec /\ KernelFairness

-----------------------------------------------------------------------------
(* Properties.                                                             *)

TerminalType ==
  [blocked_readers : Seq(PCB), blocked_writers : Seq(PCB),
   read_buffer : Seq(Nat), write_len : Nat, write_pos : Nat,
   current_writer : PCB \union {NULL}, in_use : BOOLEAN]

IoType ==
  [read_len : Nat, read_buf : Seq(Nat), regs0 : Int, tty : Terminal, len : Nat]

(* The types of the terminal structures; a read buffer never overflows.    *)
TtyTypeOK ==
  /\ terminals \in [Terminal -> TerminalType]
  /\ io \in [PCB -> IoType]
  /\ \A t \in Terminal :
       /\ Len(terminals[t].read_buffer) <= MaxLine
       /\ device[t].busy \in BOOLEAN
       /\ device[t].typed \in 0 .. MaxTyped
       /\ device[t].delivered \subseteq 1 .. MaxTyped
  /\ rx \in Terminal

(* p sleeps in the system call that saved this label.                      *)
Sleeps(p, label) == p \in ToSet(blocked_queue) /\ pcb[p].kctx = label

(* p was woken while it waited for the lock of t and has not run yet.      *)
TakesOver(p, t) ==
  /\ pcb[p].kctx = "ttylock" /\ io[p].tty = t
  /\ p \in ToSet(ready_queue) \/ (p = current_process /\ kpc = "resume")

Owners(t) == {p \in PCB : terminals[t].current_writer = p \/ TakesOver(p, t)}

(* The lock of a terminal: in_use is set exactly when somebody owns it,    *)
(* there is one owner at most, and writers wait only for a lock in use.    *)
OneWriter ==
  Sane => \A t \in Terminal :
    /\ \A p, q \in Owners(t) : p = q
    /\ terminals[t].in_use <=> Owners(t) # {}
    /\ ~is_empty(terminals[t].blocked_writers) => terminals[t].in_use
    /\ device[t].busy <=> terminals[t].current_writer # NULL

(* Nobody sleeps in TtyWrite without somebody who will wake it: it is the  *)
(* writer whose chunks are being sent, or in the queue of blocked writers. *)
WritersAreWoken ==
  Sane => \A p \in PCB :
    /\ Sleeps(p, "ttywrite") =>
         /\ terminals[io[p].tty].current_writer = p
         /\ device[io[p].tty].busy
    /\ Sleeps(p, "ttylock") <=>
         \E t \in Terminal : p \in ToSet(terminals[t].blocked_writers)

(* Nobody sleeps in TtyRead of a terminal that has input, and whoever      *)
(* sleeps there is in the queue its receive trap serves.                   *)
ReadersAreServed ==
  /\ kpc # "receive" => \A t \in Terminal :
       ReadLens # {} /\ ~is_empty(terminals[t].blocked_readers)
       => is_empty(terminals[t].read_buffer)
  /\ Sane => \A p \in PCB : Sleeps(p, "ttyread") <=>
       p \in ToSet(terminals[io[p].tty].blocked_readers)

(* The bytes of t in the kernel buffers of readers that have been served.  *)
Stashed(t) ==
  UNION {ToSet(io[p].read_buf) : p \in {q \in PCB : io[q].tty = t}}

(* Every byte a terminal accepted is in one place: still in its buffer, in *)
(* the kernel buffer of one reader, or delivered; and the buffer holds the *)
(* latest ones in the order they were typed.                               *)
InputIsConserved ==
  Sane => \A t \in Terminal :
    LET buffer == terminals[t].read_buffer
        gone == device[t].typed - Len(buffer)
    IN  /\ \A i \in DOMAIN buffer : buffer[i] = gone + i
        /\ Stashed(t) \union device[t].delivered = 1 .. gone
        /\ Stashed(t) \intersect device[t].delivered = {}
        /\ \A p, q \in PCB : p # q /\ io[p].tty = t /\ io[q].tty = t =>
             ToSet(io[p].read_buf) \intersect ToSet(io[q].read_buf) = {}

(* A write that was started ends.                                          *)
WriteEnds ==
  \A p \in PCB : (Sane /\ Sleeps(p, "ttywrite")) ~>
                 (p \in ToSet(ready_queue) \/ ~Sane \/ machine # "on")

(* A writer that waits for the lock gets it.                               *)
LockIsGranted ==
  \A p \in PCB : (Sane /\ Sleeps(p, "ttylock")) ~>
                 (Sleeps(p, "ttywrite") \/ ~Sane \/ machine # "on")
=============================================================================
