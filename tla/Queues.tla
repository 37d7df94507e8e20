------------------------------- MODULE Queues -------------------------------
(***************************************************************************)
(* The process queues of src/src/queue.c, as sequences of PCBs.            *)
(*                                                                         *)
(* A queue_t is a doubly linked list of nodes, each node pointing to one   *)
(* PCB; the same PCB may sit in several nodes and nothing in queue.c       *)
(* prevents it, so the abstraction is a sequence, never a set.  The        *)
(* allocation of a node is assumed to succeed (queueEnqueue drops the      *)
(* process silently when it does not; see the hazards of the project).     *)
(***************************************************************************)
EXTENDS SequencesExt

is_empty(q) == q = << >>

queueEnqueue(q, p) == Append(q, p)

(* The process queueDequeue returns, and the queue it leaves behind.       *)
queueFront(q) == Head(q)
queueDequeue(q) == Tail(q)

(* The first node that holds p is unlinked; no such node, no change.       *)
queueRemove(q, p) == RemoveFirst(q, p)

(* s is what is left of q after some of its first nodes.                   *)
IsTailOf(s, q) ==
  /\ Len(s) <= Len(q)
  /\ \A i \in 1 .. Len(s) : s[i] = q[Len(q) - Len(s) + i]

(* No process sits in two nodes of q.                                      *)
NoDuplicates(q) == \A i, j \in DOMAIN q : q[i] = q[j] => i = j
=============================================================================
