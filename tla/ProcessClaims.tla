---------------------------- MODULE ProcessClaims ----------------------------
(***************************************************************************)
(* What comments, messages and documentation of the repository say about   *)
(* processes, stated as properties of Processes.  The code does not        *)
(* satisfy them; each has a run of its own that shows a counterexample.    *)
(***************************************************************************)
EXTENDS Processes

(* src/src/include/proc.h:57 documents waiting_for_child_pid as "if parent *)
(* is blocked waiting for child (Wait)", so Exit should wake only parents  *)
(* blocked in Wait, and a process should be in the ready queue at most     *)
(* once and not while it is running.                                       *)
ReadyAtMostOnce ==
  /\ NoDuplicates(ready_queue)
  /\ current_process \notin ToSet(ready_queue)

(* src/src/include/proc.h:102 says of deletePCB: "Orphans any child        *)
(* processes (sets their parent to NULL)", so no process that was not      *)
(* reaped keeps a pointer to a freed parent.  Stated for executions        *)
(* without a wrong wake-up, which is another defect.                       *)
ParentIsAllocated ==
  "spurious_wake" \notin faults =>
    \A p \in Live : pcb[p].parent \notin freed
=============================================================================
