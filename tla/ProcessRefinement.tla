-------------------------- MODULE ProcessRefinement --------------------------
(***************************************************************************)
(* Processes implements ProcessLifecycle.                                  *)
(***************************************************************************)
EXTENDS Processes

(* A forked process that has not returned from Fork yet.                   *)
NotStarted(p) ==
  /\ pcb[p].kctx = "fork"
  /\ \/ p \in ToSet(ready_queue)
     \/ p = current_process /\ kpc = "resume"

LifeOf(p) ==
  CASE p >= proc_table -> "unborn"
    [] p \in freed -> "reaped"
    [] p < proc_table /\ p \notin freed /\ p \in ToSet(zombie_queue) -> "dead"
    [] p < proc_table /\ p \notin freed /\ NotStarted(p) -> "new"
    [] OTHER -> "alive"

Lifecycle ==
  INSTANCE ProcessLifecycle
    WITH Procs <- PCB, Idle <- idle_proc, Boot <- init_proc,
         NoAnswer <- NoReply,
         life <- [p \in PCB |-> LifeOf(p)],
         par <- [p \in PCB |-> pcb[p].ppid],
         status <- [p \in PCB |-> pcb[p].exit],
         answer <- reply,
         broken <- ~Sane

(* Until the kernel is corrupted, Fork, Exit and Wait behave to user       *)
(* programs as ProcessLifecycle says: a child is reaped once, by its       *)
(* parent, with the status it exited with, and Wait fails only when there  *)
(* is nothing left to wait for.                                            *)
ImplementsLifecycle == Lifecycle!Spec
=============================================================================
