-------------------------- MODULE Processes_proofs --------------------------
(***************************************************************************)
(* Proofs about the processes and their queues, for any number of slots in *)
(* the process table and any arguments of the system calls.                *)
(***************************************************************************)
EXTENDS Processes, TLAPS, WellFoundedInduction, SequenceTheorems

-----------------------------------------------------------------------------
(* What the operators of module Queues return, for queues of any length.   *)

(* A nonempty set of natural numbers has a least element, and Min is it.   *)
LEMMA MinIsLeast ==
  ASSUME NEW I \in SUBSET Nat, I # {}
  PROVE  Min(I) \in I /\ \A j \in I : Min(I) <= j
<1>1. PICK m \in I : \A j \in I : ~(<<j, m>> \in OpToRel(<, Nat))
  BY WFMin, NatLessThanWellFounded
<1>2. ASSUME NEW j \in I PROVE m <= j
  <2>1. ~(<<j, m>> \in OpToRel(<, Nat)) /\ <<j, m>> \in Nat \X Nat
    BY <1>1
  <2>2. ~(j < m)
    BY <2>1 DEF OpToRel
  <2> QED BY <2>2
<1> QED BY <1>2 DEF Min

(* queueRemove unlinks the first node that holds p and closes the gap.     *)
LEMMA QueueRemoveShape ==
  ASSUME NEW S, NEW q \in Seq(S), NEW p, p \in ToSet(q)
  PROVE  \E k \in 1 .. Len(q) :
           /\ q[k] = p
           /\ \A j \in 1 .. k - 1 : q[j] # p
           /\ queueRemove(q, p) \in Seq(S)
           /\ Len(queueRemove(q, p)) = Len(q) - 1
           /\ \A i \in 1 .. Len(q) - 1 :
                queueRemove(q, p)[i] = IF i < k THEN q[i] ELSE q[i + 1]
<1> DEFINE I == {i \in 1 .. Len(q) : q[i] = p}
           k == Min(I)
           r == SubSeq(q, 1, k - 1) \o SubSeq(q, k + 1, Len(q))
<1>1. I \in SUBSET Nat /\ I # {}
  BY DEF ToSet
<1>2. k \in I /\ \A j \in I : k <= j
  BY <1>1, MinIsLeast
<1>4. queueRemove(q, p) = r
  BY <1>1 DEF queueRemove, RemoveFirst, SelectInSeq, RemoveAt
<1> HIDE DEF k
<1>3. k \in 1 .. Len(q) /\ q[k] = p /\ \A j \in 1 .. k - 1 : q[j] # p
  BY <1>2
<1> DEFINE a == SubSeq(q, 1, k - 1)
           b == SubSeq(q, k + 1, Len(q))
<1>5. /\ a \in Seq(S) /\ Len(a) = k - 1
      /\ \A i \in 1 .. k - 1 : a[i] = q[i]
  BY <1>3
<1>6. /\ b \in Seq(S) /\ Len(b) = Len(q) - k
      /\ \A i \in 1 .. Len(q) - k : b[i] = q[k + i]
  BY <1>3
<1> HIDE DEF I, a, b
<1>8. /\ a \o b \in Seq(S) /\ Len(a \o b) = Len(q) - 1
      /\ \A i \in 1 .. Len(q) - 1 :
           (a \o b)[i] = IF i < k THEN a[i] ELSE b[i - k + 1]
  <2>1. /\ a \o b \in Seq(S) /\ Len(a \o b) = Len(a) + Len(b)
        /\ \A i \in 1 .. Len(a) + Len(b) :
             (a \o b)[i] = IF i <= Len(a) THEN a[i] ELSE b[i - Len(a)]
    BY <1>5, <1>6, ConcatProperties
  <2> QED BY <1>3, <1>5, <1>6, <2>1
<1>9. \A i \in 1 .. Len(q) - 1 :
        (a \o b)[i] = IF i < k THEN q[i] ELSE q[i + 1]
  <2> SUFFICES ASSUME NEW i \in 1 .. Len(q) - 1
               PROVE  (a \o b)[i] = IF i < k THEN q[i] ELSE q[i + 1]
    OBVIOUS
  <2>1. CASE i < k
    BY <2>1, <1>3, <1>5, <1>8
  <2>2. CASE ~(i < k)
    <3>1. i - k + 1 \in 1 .. Len(q) - k /\ k + (i - k + 1) = i + 1
      BY <2>2, <1>3
    <3> QED BY <2>2, <3>1, <1>6, <1>8
  <2> QED BY <2>1, <2>2
<1>7. /\ r \in Seq(S) /\ Len(r) = Len(q) - 1
      /\ \A i \in 1 .. Len(q) - 1 : r[i] = IF i < k THEN q[i] ELSE q[i + 1]
  BY <1>8, <1>9 DEF a, b
<1> QED BY <1>3, <1>4, <1>7

(* A process that is not in the queue leaves it as it is.                  *)
LEMMA QueueRemoveAbsent ==
  ASSUME NEW S, NEW q \in Seq(S), NEW p, p \notin ToSet(q)
  PROVE  queueRemove(q, p) = q
BY DEF queueRemove, RemoveFirst, ToSet

(* queueRemove returns a queue of the same type.                           *)
LEMMA QueueRemoveType ==
  ASSUME NEW S, NEW q \in Seq(S), NEW p
  PROVE  queueRemove(q, p) \in Seq(S)
BY QueueRemoveShape, QueueRemoveAbsent

(* In a queue without duplicates queueRemove removes p and nothing else.   *)
LEMMA QueueRemoveSet ==
  ASSUME NEW S, NEW q \in Seq(S), NEW p, NoDuplicates(q)
  PROVE  /\ NoDuplicates(queueRemove(q, p))
         /\ ToSet(queueRemove(q, p)) = ToSet(q) \ {p}
<1>1. CASE p \notin ToSet(q)
  BY <1>1, QueueRemoveAbsent
<1>2. CASE p \in ToSet(q)
  <2> DEFINE r == queueRemove(q, p)
  <2>0. \E k \in 1 .. Len(q) :
           /\ q[k] = p
           /\ \A j \in 1 .. k - 1 : q[j] # p
           /\ queueRemove(q, p) \in Seq(S)
           /\ Len(queueRemove(q, p)) = Len(q) - 1
           /\ \A i \in 1 .. Len(q) - 1 :
                queueRemove(q, p)[i] = IF i < k THEN q[i] ELSE q[i + 1]
    BY <1>2, QueueRemoveShape
  <2>1. PICK k \in 1 .. Len(q) :
           /\ q[k] = p
           /\ r \in Seq(S) /\ Len(r) = Len(q) - 1
           /\ \A i \in 1 .. Len(q) - 1 : r[i] = IF i < k THEN q[i] ELSE q[i + 1]
    BY <2>0
  <2> HIDE DEF r
  <2>2. NoDuplicates(r)
    <3> SUFFICES ASSUME NEW i \in 1 .. Len(q) - 1, NEW j \in 1 .. Len(q) - 1,
                        r[i] = r[j]
                 PROVE  i = j
      BY <2>1 DEF NoDuplicates
    <3> DEFINE at(n) == IF n < k THEN n ELSE n + 1
    <3>1. at(i) \in DOMAIN q /\ at(j) \in DOMAIN q
      OBVIOUS
    <3>2. q[at(i)] = q[at(j)]
      BY <2>1
    <3>3. at(i) = at(j)
      BY <3>1, <3>2 DEF NoDuplicates
    <3> QED BY <3>3
  <2>3. ToSet(r) \subseteq ToSet(q) \ {p}
    <3> SUFFICES ASSUME NEW i \in 1 .. Len(q) - 1
                 PROVE  r[i] \in ToSet(q) \ {p}
      BY <2>1, SMTT(30) DEF ToSet
    <3> DEFINE n == IF i < k THEN i ELSE i + 1
    <3>1. n \in DOMAIN q /\ n # k /\ r[i] = q[n]
      BY <2>1
    <3>2. q[n] # q[k]
      BY <3>1 DEF NoDuplicates
    <3> QED BY <2>1, <3>1, <3>2 DEF ToSet
  <2>4. ToSet(q) \ {p} \subseteq ToSet(r)
    <3> SUFFICES ASSUME NEW n \in 1 .. Len(q), q[n] # p
                 PROVE  q[n] \in ToSet(r)
      BY DEF ToSet
    <3> DEFINE i == IF n < k THEN n ELSE n - 1
    <3>1. i \in 1 .. Len(r) /\ r[i] = q[n]
      BY <2>1
    <3> QED BY <2>1, <3>1 DEF ToSet
  <2> QED BY <2>2, <2>3, <2>4 DEF r
<1> QED BY <1>1, <1>2

(* queueEnqueue adds one process at the end.                               *)
LEMMA QueueEnqueueSet ==
  ASSUME NEW S, NEW q \in Seq(S), NEW p \in S
  PROVE  /\ queueEnqueue(q, p) \in Seq(S)
         /\ ToSet(queueEnqueue(q, p)) = ToSet(q) \union {p}
         /\ NoDuplicates(q) /\ p \notin ToSet(q)
              => NoDuplicates(queueEnqueue(q, p))
<1> DEFINE r == Append(q, p)
<1>1. /\ r \in Seq(S) /\ Len(r) = Len(q) + 1 /\ r[Len(q) + 1] = p
      /\ \A i \in 1 .. Len(q) : r[i] = q[i]
  OBVIOUS
<1>2. ToSet(r) = ToSet(q) \union {p}
  BY <1>1 DEF ToSet
<1>3. ASSUME NoDuplicates(q), p \notin ToSet(q)
      PROVE  NoDuplicates(r)
  BY <1>1, <1>3 DEF NoDuplicates, ToSet
<1> QED BY <1>1, <1>2, <1>3 DEF queueEnqueue

(* queueDequeue takes the front away.                                      *)
LEMMA QueueDequeueSet ==
  ASSUME NEW S, NEW q \in Seq(S), ~is_empty(q)
  PROVE  /\ queueFront(q) \in S /\ queueFront(q) \in ToSet(q)
         /\ queueDequeue(q) \in Seq(S)
         /\ ToSet(q) = ToSet(queueDequeue(q)) \union {queueFront(q)}
         /\ NoDuplicates(q) => /\ NoDuplicates(queueDequeue(q))
                               /\ queueFront(q) \notin ToSet(queueDequeue(q))
<1> DEFINE r == Tail(q)
<1>1. /\ Len(q) \in Nat \ {0} /\ Head(q) = q[1] /\ q[1] \in S
      /\ r \in Seq(S) /\ Len(r) = Len(q) - 1
      /\ \A i \in 1 .. Len(r) : r[i] = q[i + 1]
  BY DEF is_empty
<1> HIDE DEF r
<1>2. q[1] \in ToSet(q)
  BY <1>1 DEF ToSet
<1>3. ToSet(r) \subseteq ToSet(q)
  BY <1>1 DEF ToSet
<1>4. \A i \in 1 .. Len(q) : i # 1 => q[i] = r[i - 1] /\ i - 1 \in 1 .. Len(r)
  BY <1>1
<1>5. ToSet(q) \subseteq ToSet(r) \union {q[1]}
  BY <1>4 DEF ToSet
<1>6. ASSUME NoDuplicates(q)
      PROVE  NoDuplicates(r) /\ q[1] \notin ToSet(r)
  <2>1. ASSUME NEW i \in 1 .. Len(r), NEW j \in 1 .. Len(r), r[i] = r[j]
        PROVE  i = j
    <3>1. i + 1 \in DOMAIN q /\ j + 1 \in DOMAIN q /\ q[i + 1] = q[j + 1]
      BY <1>1, <2>1
    <3>2. i + 1 = j + 1
      BY <1>6, <3>1 DEF NoDuplicates
    <3> QED BY <3>2
  <2>2. \A i \in 1 .. Len(r) : r[i] # q[1]
    BY <1>1, <1>6 DEF NoDuplicates
  <2> QED BY <1>1, <2>1, <2>2 DEF NoDuplicates, ToSet
<1> QED BY <1>1, <1>2, <1>3, <1>5, <1>6 DEF queueFront, queueDequeue, r

(* While queueIterate runs, the callback may unlink the node it is at: the *)
(* nodes still to be visited stay the end of the queue.                    *)
LEMMA IterateSurvivesRemove ==
  ASSUME NEW S, NEW q \in Seq(S), NEW s \in Seq(S), ~is_empty(s),
         IsTailOf(s, q)
  PROVE  /\ IsTailOf(Tail(s), q)
         /\ IsTailOf(Tail(s), queueRemove(q, Head(s)))
<1> DEFINE d == Len(q) - Len(s)
           t == Tail(s)
           h == Head(s)
           r == queueRemove(q, h)
<1>1. /\ Len(s) \in Nat \ {0} /\ h = s[1]
      /\ t \in Seq(S) /\ Len(t) = Len(s) - 1
      /\ \A i \in 1 .. Len(t) : t[i] = s[i + 1]
  BY DEF is_empty
<1>2. d \in Nat /\ \A i \in 1 .. Len(s) : s[i] = q[d + i]
  BY <1>1 DEF IsTailOf
<1> HIDE DEF t
<1>3. IsTailOf(t, q)
  BY <1>1, <1>2 DEF IsTailOf
<1>4. d + 1 \in DOMAIN q /\ q[d + 1] = h
  BY <1>1, <1>2
<1> HIDE DEF h
<1>5. h \in ToSet(q)
  BY <1>4 DEF ToSet
<1>6. PICK k \in 1 .. Len(q) :
        /\ q[k] = h
        /\ \A j \in 1 .. k - 1 : q[j] # h
        /\ r \in Seq(S) /\ Len(r) = Len(q) - 1
        /\ \A i \in 1 .. Len(q) - 1 : r[i] = IF i < k THEN q[i] ELSE q[i + 1]
  BY <1>5, QueueRemoveShape
<1>7. k <= d + 1
  BY <1>4, <1>6
<1> HIDE DEF r
<1>8. \A i \in 1 .. Len(t) : t[i] = r[Len(r) - Len(t) + i]
  <2>4. Len(r) - Len(t) = d
    BY <1>1, <1>6
  <2> SUFFICES ASSUME NEW i \in 1 .. Len(t)
               PROVE  t[i] = r[d + i]
    BY <2>4
  <2>1. d + i \in 1 .. Len(q) - 1 /\ ~(d + i < k)
    BY <1>1, <1>2, <1>7
  <2>2. r[d + i] = q[d + i + 1]
    BY <1>6, <2>1
  <2>3. i + 1 \in 1 .. Len(s) /\ t[i] = s[i + 1]
    BY <1>1
  <2> QED BY <1>2, <2>2, <2>3
<1>9. IsTailOf(t, r)
  BY <1>1, <1>2, <1>6, <1>8 DEF IsTailOf
<1> QED BY <1>3, <1>9 DEF t, r, h

-----------------------------------------------------------------------------
(* The processes.                                                          *)

(* Idle and init are slots of the table; NULL is not.                      *)
LEMMA ConstantFacts ==
  /\ idle_proc \in PCB /\ init_proc \in PCB
  /\ PCB \subseteq Nat
  /\ NULL \notin PCB
BY MaxProcsAssumption DEF PCB, idle_proc, init_proc, NULL

(* A new PCB, and the fields the handlers assign, have their types.        *)
LEMMA AllocType == allocNewPCB \in PCBType
BY DEF allocNewPCB, PCBType, ProcState, ResumePoint, INVALID_PID, NULL

(* Assigning a value of its type to a field of one PCB keeps the types.    *)
LEMMA FieldTypes ==
  ASSUME NEW table \in [PCB -> PCBType], NEW p \in PCB
  PROVE  /\ \A v \in ProcState :
              [table EXCEPT ![p].state = v] \in [PCB -> PCBType]
         /\ \A v \in ResumePoint :
              [table EXCEPT ![p].kctx = v] \in [PCB -> PCBType]
         /\ \A v \in {INVALID_PID, 0, 1} :
              [table EXCEPT ![p].waiting = v] \in [PCB -> PCBType]
         /\ \A v \in Int :
              [table EXCEPT ![p].delay = v] \in [PCB -> PCBType]
         /\ \A v \in Int :
              [table EXCEPT ![p].exit = v] \in [PCB -> PCBType]
         /\ \A v \in PCB \union {NULL} :
              [table EXCEPT ![p].parent = v] \in [PCB -> PCBType]
         /\ \A v \in Seq(PCB) :
              [table EXCEPT ![p].children = v] \in [PCB -> PCBType]
<1>0. table[p] \in PCBType
  OBVIOUS
<1>1. ASSUME NEW v \in ProcState
      PROVE  [table EXCEPT ![p].state = v] \in [PCB -> PCBType]
  <2>1. [table[p] EXCEPT !.state = v] \in PCBType
    BY <1>0 DEF PCBType
  <2> QED BY <2>1
<1>2. ASSUME NEW v \in ResumePoint
      PROVE  [table EXCEPT ![p].kctx = v] \in [PCB -> PCBType]
  <2>1. [table[p] EXCEPT !.kctx = v] \in PCBType
    BY <1>0 DEF PCBType
  <2> QED BY <2>1
<1>3. ASSUME NEW v \in {INVALID_PID, 0, 1}
      PROVE  [table EXCEPT ![p].waiting = v] \in [PCB -> PCBType]
  <2>1. [table[p] EXCEPT !.waiting = v] \in PCBType
    BY <1>0 DEF PCBType
  <2> QED BY <2>1
<1>4. ASSUME NEW v \in Int
      PROVE  [table EXCEPT ![p].delay = v] \in [PCB -> PCBType]
  <2>1. [table[p] EXCEPT !.delay = v] \in PCBType
    BY <1>0 DEF PCBType
  <2> QED BY <2>1
<1>5. ASSUME NEW v \in Int
      PROVE  [table EXCEPT ![p].exit = v] \in [PCB -> PCBType]
  <2>1. [table[p] EXCEPT !.exit = v] \in PCBType
    BY <1>0 DEF PCBType
  <2> QED BY <2>1
<1>6. ASSUME NEW v \in PCB \union {NULL}
      PROVE  [table EXCEPT ![p].parent = v] \in [PCB -> PCBType]
  <2>1. [table[p] EXCEPT !.parent = v] \in PCBType
    BY <1>0 DEF PCBType
  <2> QED BY <2>1
<1>7. ASSUME NEW v \in Seq(PCB)
      PROVE  [table EXCEPT ![p].children = v] \in [PCB -> PCBType]
  <2>1. [table[p] EXCEPT !.children = v] \in PCBType
    BY <1>0 DEF PCBType
  <2> QED BY <2>1
<1> QED BY <1>1, <1>2, <1>3, <1>4, <1>5, <1>6, <1>7

(* deletePCB keeps the types of the PCBs that remain.                      *)
LEMMA DeletePCBType ==
  ASSUME NEW table \in [PCB -> PCBType], NEW p \in PCB
  PROVE  deletePCB(table, p) \in [PCB -> PCBType]
<1>1. \A q \in PCB : [table[q] EXCEPT !.parent = NULL, !.state = "PROC_ORPHAN"]
                       \in PCBType
  BY ZenonT(30) DEF PCBType, ProcState
<1> QED BY <1>1 DEF deletePCB

(* The context switch keeps the types.                                     *)
LEMMA KCSwitchType ==
  ASSUME TypeOK, NEW label \in ResumePoint, NEW next \in PCB,
         NEW table \in [PCB -> PCBType], KCSwitch(label, next, table)
  PROVE  /\ current_process' \in PCB
         /\ pcb' \in [PCB -> PCBType]
         /\ kpc' = "resume"
         /\ machine' \in {"on", "halted", "undefined"}
<1> DEFINE t1 == [table EXCEPT ![current_process].kctx = label]
<1>1. t1 \in [PCB -> PCBType]
  BY FieldTypes DEF TypeOK
<1>2. [t1 EXCEPT ![next].state = "PROC_RUNNING"] \in [PCB -> PCBType]
  BY <1>1, FieldTypes DEF ProcState
<1>3. pcb' = [t1 EXCEPT ![next].state = "PROC_RUNNING"]
  BY DEF KCSwitch
<1> QED BY <1>2, <1>3 DEF KCSwitch, TypeOK

(* So does leaving the CPU to the next ready process or to idle.           *)
LEMMA SwitchToNextType ==
  ASSUME TypeOK, NEW label \in ResumePoint, NEW ready \in Seq(PCB),
         NEW table \in [PCB -> PCBType], SwitchToNext(label, ready, table)
  PROVE  /\ current_process' \in PCB
         /\ ready_queue' \in Seq(PCB)
         /\ pcb' \in [PCB -> PCBType]
         /\ kpc' = "resume"
         /\ machine' \in {"on", "halted", "undefined"}
<1>1. CASE is_empty(ready)
  BY <1>1, KCSwitchType, ConstantFacts DEF SwitchToNext
<1>2. CASE ~is_empty(ready)
  BY <1>2, KCSwitchType, QueueDequeueSet DEF SwitchToNext
<1> QED BY <1>1, <1>2

(* The zombie a scan finds is a PCB that is in the zombie queue, was not   *)
(* freed and is a child of p.                                              *)
LEMMA ZombieOfFacts ==
  ASSUME NEW p, zombie_queue \in Seq(PCB)
  PROVE  \/ /\ ZombieOf(p) = NULL
            /\ \A z \in ToSet(zombie_queue) : z \in freed \/ pcb[z].ppid # p
         \/ /\ ZombieOf(p) \in PCB \ freed
            /\ ZombieOf(p) \in ToSet(zombie_queue)
            /\ pcb[ZombieOf(p)].ppid = p
<1> DEFINE I == {i \in 1 .. Len(zombie_queue) :
                   zombie_queue[i] \notin freed /\ pcb[zombie_queue[i]].ppid = p}
<1>1. ZombieOf(p) = IF I # {} THEN IF Min(I) = 0 THEN NULL
                                   ELSE zombie_queue[Min(I)]
                    ELSE NULL
  BY DEF ZombieOf, SelectInSeq
<1>2. CASE I = {}
  BY <1>1, <1>2 DEF ToSet
<1>3. CASE I # {}
  <2>1. I \in SUBSET Nat
    OBVIOUS
  <2>2. Min(I) \in I
    BY <1>3, <2>1, MinIsLeast
  <2> DEFINE m == Min(I)
  <2>3. m \in I /\ ZombieOf(p) = IF m = 0 THEN NULL ELSE zombie_queue[m]
    BY <1>1, <1>3, <2>2
  <2> HIDE DEF m
  <2>4. /\ m \in 1 .. Len(zombie_queue) /\ ZombieOf(p) = zombie_queue[m]
        /\ zombie_queue[m] \notin freed /\ pcb[zombie_queue[m]].ppid = p
    BY <2>3
  <2>5. zombie_queue[m] \in PCB /\ zombie_queue[m] \in ToSet(zombie_queue)
    BY <2>4 DEF ToSet
  <2> QED BY <2>4, <2>5
<1> QED BY <1>2, <1>3

-----------------------------------------------------------------------------
(* Type correctness.                                                       *)

(* The boot leaves every variable with its type.                           *)
LEMMA InitType == Init => TypeOK
<1> SUFFICES ASSUME Init PROVE TypeOK
  OBVIOUS
<1>1. [allocNewPCB EXCEPT !.state = "PROC_RUNNING"] \in PCBType
  BY AllocType DEF PCBType, ProcState
<1>2. pcb \in [PCB -> PCBType]
  BY <1>1, AllocType DEF Init
<1> QED BY <1>2, ConstantFacts, MaxProcsAssumption DEF Init, TypeOK

(* Fork fills a slot of the table, the one proc_table counts next.         *)
LEMMA ForkType == TypeOK /\ Fork => TypeOK'
<1> SUFFICES ASSUME TypeOK, Fork PROVE TypeOK'
  OBVIOUS
<1> DEFINE child == proc_table
           new == [allocNewPCB EXCEPT !.ppid = current_process,
                                      !.state = "PROC_READY", !.kctx = "fork"]
           t1 == [pcb EXCEPT ![child] = new]
<1>1. child \in PCB /\ child + 1 \in 2 .. MaxProcs
  BY MaxProcsAssumption DEF Fork, getFreePCB, TypeOK, PCB
<1>2. new \in PCBType
  BY AllocType DEF TypeOK, PCBType, ProcState, ResumePoint
<1>3. t1 \in [PCB -> PCBType]
  BY <1>2 DEF TypeOK
<1>4. pcb[current_process].children \in Seq(PCB)
  BY DEF TypeOK, PCBType
<1>5. queueEnqueue(pcb[current_process].children, child) \in Seq(PCB)
  BY <1>1, <1>4, QueueEnqueueSet
<1> DEFINE t2 == [t1 EXCEPT ![current_process].children =
                      queueEnqueue(pcb[current_process].children, child)]
<1>6. t2 \in [PCB -> PCBType]
  BY <1>3, <1>5, FieldTypes DEF TypeOK
<1>7. pcb' = t2
  BY DEF Fork
<1>8. ready_queue' \in Seq(PCB)
  BY <1>1, QueueEnqueueSet DEF Fork, TypeOK
<1> HIDE DEF t2
<1> QED BY <1>1, <1>6, <1>7, <1>8 DEF Fork, Return, TypeOK

(* The first run of a child stores its ppid as its parent.                 *)
LEMMA ForkChildType == TypeOK /\ ForkChild => TypeOK'
<1> SUFFICES ASSUME TypeOK, ForkChild PROVE TypeOK'
  OBVIOUS
<1>1. pcb[current_process].ppid \in PCB \union {NULL}
  BY DEF TypeOK, PCBType, INVALID_PID, NULL
<1>2. pcb' \in [PCB -> PCBType]
  BY <1>1, FieldTypes DEF ForkChild, TypeOK
<1> QED BY <1>2 DEF ForkChild, Return, TypeOK

(* Stopping the machine changes no queue and no PCB.                       *)
LEMMA HaltType == TypeOK /\ (Halt \/ Undefined) => TypeOK'
BY DEF Halt, Undefined, TypeOK

(* The exiting process keeps its types.                                    *)
LEMMA ExitedType ==
  ASSUME TypeOK, NEW status \in Int
  PROVE  Exited(status) \in [PCB -> PCBType]
<1>1. [pcb EXCEPT ![current_process].exit = status] \in [PCB -> PCBType]
  BY FieldTypes DEF TypeOK
<1> QED BY <1>1, FieldTypes DEF TypeOK, Exited, ProcState

(* Exit keeps the types, whether it wakes the parent or not.               *)
LEMMA ExitType ==
  ASSUME TypeOK, NEW status \in Int, NEW label \in ResumePoint,
         Exit(status, label)
  PROVE  TypeOK'
<1>1. CASE ExitInit
  BY <1>1, DeletePCBType DEF ExitInit, TypeOK
<1>2. CASE Undefined
  BY <1>2, HaltType
<1>3. CASE /\ zombie_queue' = queueEnqueue(zombie_queue, current_process)
           /\ ExitWake(status, label)
           /\ UNCHANGED <<blocked_queue, proc_table, freed, iter>>
  <2> DEFINE parent == pcb[current_process].parent
             t1 == [Exited(status) EXCEPT ![parent].state = "PROC_READY"]
             t2 == [t1 EXCEPT ![parent].waiting = 0]
  <2>1. parent \in PCB
    BY <1>3 DEF ExitWake, TypeOK, PCBType
  <2>2. Exited(status) \in [PCB -> PCBType]
    BY ExitedType
  <2>3. t1 \in [PCB -> PCBType]
    BY <2>1, <2>2, FieldTypes DEF ProcState
  <2>4. t2 \in [PCB -> PCBType]
    BY <2>1, <2>3, FieldTypes
  <2>5. queueEnqueue(ready_queue, parent) \in Seq(PCB)
    BY <2>1, QueueEnqueueSet DEF TypeOK
  <2>6. SwitchToNext(label, queueEnqueue(ready_queue, parent), t2)
    BY <1>3 DEF ExitWake
  <2>7. zombie_queue' \in Seq(PCB)
    BY <1>3, QueueEnqueueSet DEF TypeOK
  <2>8. faults' \subseteq {"spurious_wake", "use_after_free", "half_woken"}
    BY <1>3 DEF ExitWake, TypeOK
  <2> HIDE DEF t2, parent
  <2> QED BY <1>3, <2>4, <2>5, <2>6, <2>7, <2>8, SwitchToNextType DEF TypeOK
<1>4. CASE /\ zombie_queue' = queueEnqueue(zombie_queue, current_process)
           /\ ExitQuietly(status, label)
           /\ UNCHANGED <<blocked_queue, proc_table, freed, iter>>
  <2>1. Exited(status) \in [PCB -> PCBType]
    BY ExitedType
  <2>2. SwitchToNext(label, ready_queue, Exited(status))
    BY <1>4 DEF ExitQuietly
  <2>3. zombie_queue' \in Seq(PCB)
    BY <1>4, QueueEnqueueSet DEF TypeOK
  <2>4. faults' \subseteq {"spurious_wake", "use_after_free", "half_woken"}
    BY <1>4 DEF ExitQuietly, TypeOK
  <2> QED BY <1>4, <2>1, <2>2, <2>3, <2>4, SwitchToNextType DEF TypeOK
<1> QED BY <1>1, <1>2, <1>3, <1>4 DEF Exit

(* Reaping a zombie keeps the types.                                       *)
LEMMA ReapType ==
  ASSUME TypeOK, NEW zombie \in PCB, Reap(zombie)
  PROVE  TypeOK'
<1> DEFINE t1 == [pcb EXCEPT ![current_process].children =
                                 queueRemove(@, zombie)]
<1>1. queueRemove(pcb[current_process].children, zombie) \in Seq(PCB)
  BY QueueRemoveType DEF TypeOK, PCBType
<1>2. t1 \in [PCB -> PCBType]
  BY <1>1, FieldTypes DEF TypeOK
<1>3. deletePCB(t1, zombie) \in [PCB -> PCBType]
  BY <1>2, DeletePCBType
<1>4. zombie_queue' \in Seq(PCB)
  BY QueueRemoveType DEF Reap, TypeOK
<1>5. pcb' = deletePCB(t1, zombie)
  BY DEF Reap
<1> QED BY <1>3, <1>4, <1>5 DEF Reap, TypeOK

(* A Wait that fails changes nothing but the answer.                       *)
LEMMA WaitFailsType == TypeOK /\ WaitFails => TypeOK'
BY DEF WaitFails, Return, TypeOK

(* Both halves of Wait keep the types.                                     *)
LEMMA WaitType ==
  TypeOK /\ (WaitReaps \/ WaitBlocks \/ WaitNoChildren \/ WaitResumes) => TypeOK'
<1> SUFFICES ASSUME TypeOK, WaitReaps \/ WaitBlocks \/ WaitNoChildren \/ WaitResumes
             PROVE  TypeOK'
  OBVIOUS
<1>1. ASSUME Reap(ZombieOf(current_process)), ZombieOf(current_process) # NULL
      PROVE  TypeOK'
  <2>1. ZombieOf(current_process) \in PCB
    BY <1>1, ZombieOfFacts DEF TypeOK
  <2> QED BY <1>1, <2>1, ReapType
<1>2. CASE WaitBlocks
  <2> DEFINE t1 == [pcb EXCEPT ![current_process].state = "PROC_BLOCKED"]
             t2 == [t1 EXCEPT ![current_process].waiting = 1]
  <2>1. t1 \in [PCB -> PCBType]
    BY FieldTypes DEF TypeOK, ProcState
  <2>2. t2 \in [PCB -> PCBType]
    BY <2>1, FieldTypes DEF TypeOK
  <2>3. SwitchToNext("wait", ready_queue, t2)
    BY <1>2 DEF WaitBlocks
  <2> HIDE DEF t2
  <2> QED BY <1>2, <2>2, <2>3, SwitchToNextType DEF WaitBlocks, TypeOK, ResumePoint
<1>3. CASE WaitReaps \/ WaitNoChildren \/ WaitResumes
  BY <1>1, <1>3, WaitFailsType DEF WaitReaps, WaitNoChildren, WaitResumes
<1> QED BY <1>2, <1>3

(* Delay keeps the types for any number of ticks.                          *)
LEMMA DelayType ==
  ASSUME TypeOK, NEW n \in Int, DelayBlocks(n)
  PROVE  TypeOK'
<1> DEFINE t1 == [pcb EXCEPT ![current_process].delay = n]
           t2 == [t1 EXCEPT ![current_process].state = "PROC_BLOCKED"]
<1>1. t1 \in [PCB -> PCBType]
  BY FieldTypes DEF TypeOK
<1>2. t2 \in [PCB -> PCBType]
  BY <1>1, FieldTypes DEF TypeOK, ProcState
<1>3. SwitchToNext("delay", ready_queue, t2)
  BY DEF DelayBlocks
<1>4. blocked_queue' \in Seq(PCB)
  BY QueueEnqueueSet DEF DelayBlocks, TypeOK
<1> HIDE DEF t2
<1> QED BY <1>2, <1>3, <1>4, SwitchToNextType DEF DelayBlocks, TypeOK, ResumePoint

(* One call of the clock trap's callback keeps the types.                  *)
LEMMA TickType == TypeOK /\ trapHandlerHelper => TypeOK'
<1> SUFFICES ASSUME TypeOK, trapHandlerHelper PROVE TypeOK'
  OBVIOUS
<1> DEFINE p == Head(iter)
<1>1. p \in PCB /\ Tail(iter) \in Seq(PCB)
  BY QueueDequeueSet DEF TypeOK, trapHandlerHelper, Iterates, queueFront,
                         queueDequeue
<1>2. /\ iter' = Tail(iter)
      /\ UNCHANGED <<machine, kpc, current_process, zombie_queue, proc_table,
                     freed, reply>>
      /\ TickIdle(p) \/ TickCounts(p) \/ TickWakes(p)
  BY DEF trapHandlerHelper
<1> HIDE DEF p
<1>3. CASE TickIdle(p)
  BY <1>1, <1>2, <1>3 DEF TickIdle, TypeOK
<1>4. CASE TickCounts(p)
  <2>1. pcb[p].delay - 1 \in Int
    BY <1>1 DEF TypeOK, PCBType
  <2>2. pcb' \in [PCB -> PCBType]
    BY <1>1, <1>4, <2>1, FieldTypes DEF TickCounts, TypeOK
  <2> QED BY <1>1, <1>2, <1>4, <2>2 DEF TickCounts, TypeOK
<1>5. CASE TickWakes(p)
  <2> DEFINE t1 == [pcb EXCEPT ![p].delay = 0]
  <2>0. pcb \in [PCB -> PCBType] /\ 0 \in Int
    BY DEF TypeOK
  <2>1. t1 \in [PCB -> PCBType]
    BY <1>1, <2>0, FieldTypes
  <2>2. [t1 EXCEPT ![p].state = "PROC_READY"] \in [PCB -> PCBType]
    BY <1>1, <2>1, FieldTypes DEF ProcState
  <2>3. pcb' \in [PCB -> PCBType]
    BY <1>5, <2>2 DEF TickWakes
  <2>4. blocked_queue' \in Seq(PCB) /\ ready_queue' \in Seq(PCB)
    BY <1>1, <1>5, QueueRemoveType, QueueEnqueueSet DEF TickWakes, TypeOK
  <2> QED BY <1>1, <1>2, <1>5, <2>3, <2>4 DEF TickWakes, TypeOK
<1> QED BY <1>2, <1>3, <1>4, <1>5

(* Preemption keeps the types.                                             *)
LEMMA ClockSwitchesType == TypeOK /\ ClockSwitches => TypeOK'
<1> SUFFICES ASSUME TypeOK, ClockSwitches PROVE TypeOK'
  OBVIOUS
<1> DEFINE t1 == [pcb EXCEPT ![current_process].state = "PROC_READY"]
<1>1. t1 \in [PCB -> PCBType]
  BY FieldTypes DEF TypeOK, ProcState
<1>2. /\ queueFront(ready_queue) \in PCB
      /\ queueDequeue(ready_queue) \in Seq(PCB)
  BY QueueDequeueSet DEF ClockSwitches, TypeOK
<1>3. queueEnqueue(queueDequeue(ready_queue), current_process) \in Seq(PCB)
  BY <1>2, QueueEnqueueSet DEF TypeOK
<1>4. ready_queue' \in Seq(PCB)
  BY <1>2, <1>3 DEF ClockSwitches
<1>5. \E table \in {t1, pcb} :
        KCSwitch("clock", queueFront(ready_queue), table)
  BY DEF ClockSwitches
<1>6. PICK table \in [PCB -> PCBType] :
        KCSwitch("clock", queueFront(ready_queue), table)
  BY <1>1, <1>5 DEF TypeOK
<1> QED BY <1>2, <1>4, <1>6, KCSwitchType DEF ClockSwitches, TypeOK, ResumePoint

(* The steps that change nothing but the position of the kernel.           *)
LEMMA QuietStepsType ==
  /\ TypeOK
  /\ \/ GetPid \/ StackGrows \/ DelayResumes \/ ExitReturns \/ ClockTrapHandler
     \/ ClockReturns \/ ClockResumes \/ \E n \in Ticks : DelayZero(n)
  => TypeOK'
BY DEF TypeOK, GetPid, StackGrows, DelayResumes, ExitReturns, ClockTrapHandler,
       ClockReturns, ClockResumes, DelayZero, Return

(* Every step of the kernel keeps the types.                               *)
LEMMA ProcNextType == TypeOK /\ ProcNext => TypeOK'
<1> SUFFICES ASSUME TypeOK, ProcNext PROVE TypeOK'
  OBVIOUS
<1>1. CASE ExitSyscall \/ MemoryTrapHandler \/ FatalTrapHandler
  <2>1. PICK status \in Statuses \union {ERROR}, label \in {"exit", "killed"} :
          Exit(status, label)
    BY <1>1 DEF ExitSyscall, MemoryTrapHandler, FatalTrapHandler
  <2>2. status \in Int /\ label \in ResumePoint
    BY ArgumentsAssumption DEF ERROR, ResumePoint
  <2> QED BY <2>1, <2>2, ExitType
<1>2. CASE \E n \in Ticks : DelayBlocks(n)
  BY <1>2, DelayType, ArgumentsAssumption
<1>3. CASE \/ ForkTableFull \/ ForkNoFrames \/ ForkChildUndefined
           \/ TickUndefined \/ WaitUndefined \/ FatalTrapReturns
           \/ \E n \in Ticks : DelayHalts(n)
  BY <1>3, HaltType DEF ForkTableFull, ForkNoFrames, ForkChildUndefined,
       TickUndefined, WaitUndefined, FatalTrapReturns, DelayHalts
<1>4. CASE Fork \/ ForkChild
  BY <1>4, ForkType, ForkChildType
<1>5. CASE WaitReaps \/ WaitBlocks \/ WaitNoChildren \/ WaitResumes
  BY <1>5, WaitType
<1>6. CASE trapHandlerHelper \/ ClockSwitches
  BY <1>6, TickType, ClockSwitchesType
<1>7. CASE \/ GetPid \/ StackGrows \/ DelayResumes \/ ExitReturns \/ ClockTrapHandler
           \/ ClockReturns \/ ClockResumes \/ \E n \in Ticks : DelayZero(n)
  BY <1>7, QuietStepsType
<1> QED BY <1>1, <1>2, <1>3, <1>4, <1>5, <1>6, <1>7
        DEF ProcNext, Syscall, Fault, KernelStep

(* Every variable and every PCB field keeps its type in every execution:   *)
(* in particular only slots of the process table are queued or switched to *)
(* and proc_table never exceeds MAX_PROCS.                                 *)
THEOREM TypeCorrect == Spec => []TypeOK
<1>1. Init => TypeOK
  BY InitType
<1>2. TypeOK /\ [Next]_procVars => TypeOK'
  <2>1. TypeOK /\ UNCHANGED procVars => TypeOK'
    BY DEF TypeOK, procVars
  <2> QED BY <2>1, ProcNextType DEF Next, Stopped
<1> QED BY <1>1, <1>2, PTL DEF Spec

-----------------------------------------------------------------------------
(* The iteration of the clock trap.                                        *)

(* A queue is a tail of itself.                                            *)
LEMMA WholeQueueIsTail ==
  ASSUME NEW q \in Seq(PCB)
  PROVE  IsTailOf(q, q)
BY DEF IsTailOf

(* One step of the kernel leaves the nodes still to visit at the end of    *)
(* the blocked queue: outside the iteration nothing is claimed, and in it  *)
(* only the callback changes the queue, by unlinking the node it visits.   *)
LEMMA ProcNextLinked ==
  TypeOK /\ SavedNodesAreLinked /\ ProcNext => SavedNodesAreLinked'
<1> SUFFICES ASSUME TypeOK, SavedNodesAreLinked, ProcNext
             PROVE  SavedNodesAreLinked'
  OBVIOUS
<1>1. CASE trapHandlerHelper
  <2> DEFINE p == Head(iter)
  <2>1. /\ kpc = "iterate" /\ ~is_empty(iter)
        /\ iter \in Seq(PCB) /\ blocked_queue \in Seq(PCB)
    BY <1>1 DEF trapHandlerHelper, Iterates, TypeOK
  <2>2. IsTailOf(iter, blocked_queue)
    BY <2>1 DEF SavedNodesAreLinked
  <2>3. /\ IsTailOf(Tail(iter), blocked_queue)
        /\ IsTailOf(Tail(iter), queueRemove(blocked_queue, p))
    BY <2>1, <2>2, IterateSurvivesRemove
  <2>4. \/ blocked_queue' = blocked_queue
        \/ blocked_queue' = queueRemove(blocked_queue, p)
    BY <1>1 DEF trapHandlerHelper, TickIdle, TickCounts, TickWakes
  <2>5. iter' = Tail(iter)
    BY <1>1 DEF trapHandlerHelper
  <2>6. IsTailOf(iter', blocked_queue')
    BY <2>3, <2>4, <2>5
  <2> QED BY <2>6 DEF SavedNodesAreLinked
<1>2. CASE ClockTrapHandler
  <2>1. iter' = blocked_queue /\ blocked_queue' = blocked_queue
    BY <1>2 DEF ClockTrapHandler
  <2>2. IsTailOf(blocked_queue, blocked_queue)
    BY WholeQueueIsTail DEF TypeOK
  <2> QED BY <2>1, <2>2 DEF SavedNodesAreLinked
<1>3. ASSUME UNCHANGED <<kpc, iter, blocked_queue>>
      PROVE  SavedNodesAreLinked'
  BY <1>3 DEF SavedNodesAreLinked
<1>4. ASSUME kpc' \in {"user", "resume"} PROVE SavedNodesAreLinked'
  BY <1>4, Zenon DEF SavedNodesAreLinked
<1>5. CASE ExitSyscall \/ MemoryTrapHandler \/ FatalTrapHandler
  <2>1. PICK status, label : Exit(status, label)
    BY <1>5, Zenon DEF ExitSyscall, MemoryTrapHandler, FatalTrapHandler
  <2> QED BY <1>3, <1>4, <2>1, Zenon
          DEF Exit, ExitInit, ExitWake, ExitQuietly, SwitchToNext, KCSwitch,
              Undefined
<1>6. CASE \/ \E n \in Ticks : DelayBlocks(n)
           \/ WaitBlocks \/ ClockSwitches
  BY <1>4, <1>6, Zenon
  DEF DelayBlocks, WaitBlocks, ClockSwitches, SwitchToNext, KCSwitch
<1>7. CASE \/ ForkTableFull \/ ForkNoFrames \/ ForkChildUndefined
           \/ TickUndefined \/ WaitUndefined \/ FatalTrapReturns \/ StackGrows
           \/ \E n \in Ticks : DelayHalts(n)
  BY <1>3, <1>7 DEF StackGrows, ForkTableFull, ForkNoFrames, ForkChildUndefined,
       TickUndefined, WaitUndefined, FatalTrapReturns, DelayHalts, Halt, Undefined
<1>8. CASE \/ Fork \/ ForkChild \/ WaitReaps \/ WaitNoChildren \/ WaitResumes
           \/ GetPid \/ DelayResumes \/ ExitReturns \/ ClockReturns
           \/ ClockResumes \/ \E n \in Ticks : DelayZero(n)
  BY <1>4, <1>8 DEF Fork, ForkChild, WaitReaps, WaitNoChildren, WaitResumes,
       Reap, WaitFails, GetPid, DelayResumes, ExitReturns, ClockReturns,
       ClockResumes, DelayZero, Return
<1> QED BY <1>1, <1>2, <1>5, <1>6, <1>7, <1>8
        DEF ProcNext, Syscall, Fault, KernelStep

(* The next node queueIterate saves before it calls trapHandlerHelper is   *)
(* still linked when the callback has returned, however long the blocked   *)
(* queue is and even if it holds a process twice: the iteration of         *)
(* src/src/queue.c never follows a node that queueRemove freed.            *)
THEOREM IterationIsSafe == Spec => []SavedNodesAreLinked
<1>1. Init => SavedNodesAreLinked
  BY DEF Init, SavedNodesAreLinked
<1>2. TypeOK /\ SavedNodesAreLinked /\ [Next]_procVars => SavedNodesAreLinked'
  <2>1. SavedNodesAreLinked /\ UNCHANGED procVars => SavedNodesAreLinked'
    BY DEF SavedNodesAreLinked, procVars
  <2> QED BY <2>1, ProcNextLinked DEF Next, Stopped
<1> QED BY <1>1, <1>2, TypeCorrect, PTL DEF Spec
=============================================================================
