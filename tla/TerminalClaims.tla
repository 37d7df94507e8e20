--------------------------- MODULE TerminalClaims ---------------------------
(***************************************************************************)
(* What comments and tests of the repository say about terminals, stated   *)
(* as properties of Kernel.  The code does not satisfy them; each has a    *)
(* run of its own that shows a counterexample.                             *)
(***************************************************************************)
EXTENDS Kernel

(* src/src/syscalls/tty.c:128 says of the failed allocation in TtyWrite    *)
(* "Release the lock so other processes are not stuck forever": every      *)
(* process asleep in TtyWrite is the writer its terminal will wake.        *)
(* Stated for executions without a wrong wake-up, which is another defect. *)
WriterIsNotStuck ==
  "spurious_wake" \notin faults =>
    \A p \in PCB : Sleeps(p, "ttywrite") =>
      p \in ToSet(ready_queue) \/ terminals[io[p].tty].current_writer = p
=============================================================================
