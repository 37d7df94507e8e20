-------------------------- MODULE ProcessLifecycle --------------------------
(***************************************************************************)
(* What the process system calls promise to user programs, with no queues, *)
(* no scheduler and no interrupts.  A process is forked, begins to run     *)
(* with the answer 0, dies with a status, and is reaped once, by its own   *)
(* parent, which learns that status.  Wait fails only for a process that   *)
(* has no child left to reap.                                              *)
(*                                                                         *)
(* The promise ends with the first corruption of the kernel (broken).      *)
(***************************************************************************)
EXTENDS Integers

CONSTANTS Procs, Idle, Boot, NoAnswer

VARIABLES
  life,     \* unborn, new, alive, dead or reaped
  par,      \* the parent of each process
  status,   \* what each process passed to Exit
  answer,   \* what the last step returned to a program
  broken    \* the kernel is corrupted

vars == <<life, par, status, answer, broken>>

Init ==
  /\ life = [p \in Procs |-> IF p \in {Idle, Boot} THEN "alive" ELSE "unborn"]
  /\ par = [p \in Procs |-> -1]
  /\ status = [p \in Procs |-> 0]
  /\ answer = NoAnswer
  /\ broken = FALSE

Answer(p, c, v, s) == [pid |-> p, call |-> c, val |-> v, status |-> s]

Spawn(p, c) ==
  /\ life[p] = "alive" /\ life[c] = "unborn"
  /\ life' = [life EXCEPT ![c] = "new"]
  /\ par' = [par EXCEPT ![c] = p]
  /\ answer' = Answer(p, "Fork", c, 0)
  /\ UNCHANGED status

Begin(c) ==
  /\ life[c] = "new"
  /\ life' = [life EXCEPT ![c] = "alive"]
  /\ answer' = Answer(c, "Fork", 0, 0)
  /\ UNCHANGED <<par, status>>

Die(p) ==
  /\ life[p] = "alive" /\ p \notin {Idle, Boot}
  /\ life' = [life EXCEPT ![p] = "dead"]
  /\ status' = [status EXCEPT ![p] = status'[p]]
  /\ answer' = NoAnswer
  /\ UNCHANGED par

Reap(p, c) ==
  /\ life[p] = "alive" /\ life[c] = "dead" /\ par[c] = p
  /\ life' = [life EXCEPT ![c] = "reaped"]
  /\ answer' = Answer(p, "Wait", c, status[c])
  /\ UNCHANGED <<par, status>>

NothingToReap(p) ==
  /\ life[p] = "alive"
  /\ \A c \in Procs : par[c] = p => life[c] = "reaped"
  /\ answer' = Answer(p, "Wait", -1, 0)
  /\ UNCHANGED <<life, par, status>>

Other(p) ==
  /\ life[p] = "alive"
  /\ answer' \in {Answer(p, "Delay", 0, 0), Answer(p, "GetPid", p, 0)}
  /\ UNCHANGED <<life, par, status>>

Quiet == answer' = NoAnswer /\ UNCHANGED <<life, par, status>>

(* The first process ends, and the machine with it.                        *)
Shutdown ==
  /\ life[Boot] = "alive"
  /\ life' = [life EXCEPT ![Boot] = "reaped"]
  /\ answer' = NoAnswer
  /\ UNCHANGED <<par, status>>

Promised ==
  \/ \E p, c \in Procs : Spawn(p, c) \/ Reap(p, c)
  \/ \E p \in Procs : Begin(p) \/ Die(p) \/ NothingToReap(p) \/ Other(p)
  \/ Quiet \/ Shutdown

Next == (~broken /\ ~broken' /\ Promised) \/ broken'

Spec == Init /\ [][Next]_vars
=============================================================================
