-------------------------- MODULE Placement_proofs --------------------------
(***************************************************************************)
(* Every process is in exactly one place: proofs of NoProcessTwice,        *)
(* NoProcessLost and CurrentIsRunning for any number of processes.         *)
(*                                                                         *)
(* None of the three is inductive.  They are proved together, with what    *)
(* the handlers rely on: the running process was not reaped, idle never    *)
(* sleeps in Wait, the children queues agree with the ppid fields, and a   *)
(* parent has a smaller pid than its children, so that the orphans of a    *)
(* zombie never include the parent that reaps it.                          *)
(***************************************************************************)
EXTENDS Processes_proofs

Ready == ToSet(ready_queue)
Blocked == ToSet(blocked_queue)
Zombies == ToSet(zombie_queue)
Asleep == {p \in PCB : SleepsInWait(p)}

Ordered ==
  /\ NoDuplicates(ready_queue)
  /\ NoDuplicates(blocked_queue)
  /\ NoDuplicates(zombie_queue)

(* The places of a process.                                                *)
Placed ==
  /\ Ready \subseteq Live /\ Blocked \subseteq Live
  /\ Zombies \subseteq Live /\ Asleep \subseteq Live
  /\ idle_proc \in Live
  /\ idle_proc \notin Ready /\ idle_proc \notin Blocked
  /\ idle_proc \notin Zombies /\ idle_proc \notin Asleep
  /\ current_process \notin Ready /\ current_process \notin Blocked
  /\ current_process \notin Zombies /\ current_process \notin Asleep
  /\ Ready \intersect Blocked = {} /\ Ready \intersect Zombies = {}
  /\ Blocked \intersect Zombies = {}
  /\ Asleep \intersect Ready = {} /\ Asleep \intersect Blocked = {}
  /\ Asleep \intersect Zombies = {}
  /\ \A p \in Live : \/ p \in {idle_proc, current_process}
                     \/ p \in Ready \/ p \in Blocked
                     \/ p \in Zombies \/ p \in Asleep

Running ==
  machine = "on" => /\ current_process \in Live
                    /\ pcb[current_process].state = "PROC_RUNNING"

Family ==
  /\ \A p \in PCB : pcb[p].ppid < p
  /\ \A p, c \in PCB : c \in ToSet(pcb[p].children) =>
                         pcb[c].ppid = p /\ c < proc_table
  /\ \A p \in freed : p < proc_table

Placement == Ordered /\ Placed /\ Running /\ Family

(* The inductive invariant.                                                *)
PlacementInv == TypeOK /\ SavedNodesAreLinked /\ (Sane => Placement)

-----------------------------------------------------------------------------
(* The invariant says what the checked properties say.                     *)
LEMMA PlacementImplies ==
  PlacementInv => NoProcessTwice /\ NoProcessLost /\ CurrentIsRunning
<1> SUFFICES ASSUME PlacementInv, Sane
             PROVE  NoProcessTwice /\ NoProcessLost /\ CurrentIsRunning
  BY DEF NoProcessTwice, NoProcessLost, CurrentIsRunning
<1>1. Placement
  BY DEF PlacementInv
<1>2. NoProcessTwice
  BY <1>1 DEF Placement, Ordered, Placed, NoProcessTwice, Ready, Blocked,
              Zombies, Asleep
<1>3. NoProcessLost
  BY <1>1 DEF Placement, Placed, NoProcessLost, Ready, Blocked, Zombies,
              Asleep, Live
<1>4. CurrentIsRunning
  BY <1>1 DEF Placement, Running, CurrentIsRunning
<1> QED BY <1>2, <1>3, <1>4

(* Initially init is ready and idle runs.                                  *)
LEMMA PlacementInit == Init => Placement
<1> SUFFICES ASSUME Init PROVE Placement
  OBVIOUS
<1>1. /\ Ready = {1} /\ Blocked = {} /\ Zombies = {}
      /\ current_process = 0 /\ idle_proc = 0
  BY DEF Init, Ready, Blocked, Zombies, ToSet, idle_proc, init_proc
<1>2. Live = {0, 1}
  BY MaxProcsAssumption DEF Init, Live, PCB
<1>3. \A p \in PCB : /\ pcb[p].waiting = -1 /\ pcb[p].ppid = -1
                     /\ pcb[p].children = << >>
  BY DEF Init, allocNewPCB, INVALID_PID
<1>4. Asleep = {}
  BY <1>3 DEF Asleep, SleepsInWait
<1>5. Ordered
  BY DEF Init, Ordered, NoDuplicates
<1>6. Placed
  BY <1>1, <1>2, <1>4 DEF Placed
<1>7. Running
  BY <1>1, <1>2, ConstantFacts DEF Running, Init, allocNewPCB, idle_proc
<1>8. freed = {}
  BY DEF Init
<1>9. Family
  BY <1>3, <1>8, ConstantFacts DEF Family, ToSet, PCB
<1> QED BY <1>5, <1>6, <1>7, <1>9 DEF Placement

(* Steps of the kernel that change no queue, no PCB and no process.        *)
LEMMA PlacementUnchanged ==
  ASSUME Placement, machine' \in {machine, "halted"},
         UNCHANGED <<current_process, ready_queue, blocked_queue,
                     zombie_queue, proc_table, pcb, freed>>
  PROVE  Placement'
BY DEF Placement, Ordered, Placed, Running, Family, Ready, Blocked, Zombies,
       Asleep, Live, SleepsInWait

(* A process table in which only states, contexts, parents or countdowns   *)
(* differ.                                                                 *)
Similar(t1, t2) ==
  \A p \in PCB : /\ t1[p].waiting = t2[p].waiting
                 /\ t1[p].ppid = t2[p].ppid
                 /\ t1[p].children = t2[p].children

(* A similar table has the same sleepers and the same families.            *)
LEMMA SimilarKeeps ==
  ASSUME Family, Similar(pcb', pcb), UNCHANGED <<proc_table, freed>>
  PROVE  Asleep' = Asleep /\ Family'
<1>1. Asleep' = Asleep
  BY DEF Asleep, SleepsInWait, Similar
<1>2. Family'
  BY DEF Family, Similar
<1> QED BY <1>1, <1>2

(* What a context switch does to the process table.                        *)
LEMMA KCSwitchPlaces ==
  ASSUME TypeOK, NEW label, NEW next \in PCB,
         NEW table \in [PCB -> PCBType], KCSwitch(label, next, table)
  PROVE  /\ current_process' = next
         /\ Similar(pcb', table)
         /\ pcb'[next].state = "PROC_RUNNING"
         /\ machine' \in {machine, "undefined"}
<1>1. pcb' = [table EXCEPT ![current_process].kctx = label,
                           ![next].state = "PROC_RUNNING"]
  BY DEF KCSwitch
<1>2. ASSUME NEW p \in PCB
      PROVE  /\ pcb'[p].waiting = table[p].waiting
             /\ pcb'[p].ppid = table[p].ppid
             /\ pcb'[p].children = table[p].children
  BY <1>1, SMT DEF PCBType
<1>3. pcb'[next].state = "PROC_RUNNING"
  BY <1>1 DEF PCBType
<1> QED BY <1>2, <1>3 DEF KCSwitch, Similar

(* What a switch does to the places.                                       *)
LEMMA SwitchPlaces ==
  ASSUME TypeOK, NEW label, NEW ready \in Seq(PCB), NoDuplicates(ready),
         NEW table \in [PCB -> PCBType], SwitchToNext(label, ready, table)
  PROVE  /\ NoDuplicates(ready_queue')
         /\ \/ ToSet(ready) = {} /\ Ready' = {} /\ current_process' = idle_proc
            \/ /\ current_process' \in ToSet(ready)
               /\ Ready' = ToSet(ready) \ {current_process'}
         /\ Similar(pcb', table)
         /\ pcb'[current_process'].state = "PROC_RUNNING"
         /\ machine' \in {machine, "undefined"}
<1>1. CASE is_empty(ready)
  <2>1. ToSet(ready) = {}
    BY <1>1 DEF is_empty, ToSet
  <2>2. KCSwitch(label, idle_proc, table) /\ ready_queue' = ready
    BY <1>1 DEF SwitchToNext
  <2> QED BY <2>1, <2>2, KCSwitchPlaces, ConstantFacts DEF Ready
<1>2. CASE ~is_empty(ready)
  <2>1. /\ queueFront(ready) \in PCB
        /\ queueFront(ready) \in ToSet(ready)
        /\ ToSet(ready) = ToSet(queueDequeue(ready)) \union {queueFront(ready)}
        /\ NoDuplicates(queueDequeue(ready))
        /\ queueFront(ready) \notin ToSet(queueDequeue(ready))
    BY <1>2, QueueDequeueSet
  <2>2. /\ KCSwitch(label, queueFront(ready), table)
        /\ ready_queue' = queueDequeue(ready)
    BY <1>2 DEF SwitchToNext
  <2> QED BY <2>1, <2>2, KCSwitchPlaces DEF Ready
<1> QED BY <1>1, <1>2

(* Removing from a queue adds nobody to it.                                *)
LEMMA QueueRemoveSubset ==
  ASSUME NEW q \in Seq(PCB), NEW p
  PROVE  ToSet(queueRemove(q, p)) \subseteq ToSet(q)
<1>1. CASE p \notin ToSet(q)
  BY <1>1, QueueRemoveAbsent
<1>2. CASE p \in ToSet(q)
  <2> DEFINE r == queueRemove(q, p)
  <2>1. \E k \in 1 .. Len(q) :
           /\ r \in Seq(PCB) /\ Len(r) = Len(q) - 1
           /\ \A i \in 1 .. Len(q) - 1 : r[i] = IF i < k THEN q[i] ELSE q[i + 1]
    BY <1>2, QueueRemoveShape
  <2> HIDE DEF r
  <2>2. ASSUME NEW i \in 1 .. Len(r) PROVE r[i] \in ToSet(q)
    BY <2>1, <2>2, SMTT(30) DEF ToSet
  <2>3. ToSet(r) = {r[i] : i \in 1 .. Len(r)}
    BY <2>1 DEF ToSet
  <2>4. ToSet(r) \subseteq ToSet(q)
    BY <2>2, <2>3
  <2> QED BY <2>4 DEF r
<1> QED BY <1>1, <1>2

(* deletePCB changes parents and states only.                              *)
LEMMA DeleteIsSimilar ==
  ASSUME NEW table \in [PCB -> PCBType], NEW p \in PCB
  PROVE  /\ Similar(deletePCB(table, p), table)
         /\ \A q \in PCB : q \notin ToSet(table[p].children) =>
              deletePCB(table, p)[q] = table[q]
<1>1. ASSUME NEW q \in PCB, q \notin ToSet(table[p].children)
      PROVE  deletePCB(table, p)[q] = table[q]
  BY <1>1 DEF deletePCB
<1>2. ASSUME NEW q \in PCB, q \in ToSet(table[p].children)
      PROVE  deletePCB(table, p)[q] = [table[q] EXCEPT !.parent = NULL,
                                                !.state = "PROC_ORPHAN"]
  BY <1>2 DEF deletePCB
<1>3. ASSUME NEW q \in PCB
      PROVE  LET t == [table[q] EXCEPT !.parent = NULL, !.state = "PROC_ORPHAN"]
             IN  /\ t.waiting = table[q].waiting
                 /\ t.ppid = table[q].ppid
                 /\ t.children = table[q].children
  BY SMT DEF PCBType
<1>4. Similar(deletePCB(table, p), table)
  BY <1>1, <1>2, <1>3 DEF Similar
<1> QED BY <1>1, <1>4

-----------------------------------------------------------------------------
(* One lemma per handler.                                                  *)

(* The state a handler starts in.                                          *)
Before == TypeOK /\ SavedNodesAreLinked /\ Placement /\ machine = "on"

(* Fork: the child is a new process, in the ready queue.                   *)
LEMMA ForkPlaces ==
  ASSUME Before, Fork
  PROVE  Placement'
<1> DEFINE child == proc_table
           new == [allocNewPCB EXCEPT !.ppid = current_process,
                                      !.state = "PROC_READY", !.kctx = "fork"]
           kids == queueEnqueue(pcb[current_process].children, child)
<1>1. /\ child \in PCB /\ child \notin freed /\ child \in Nat
      /\ current_process \in PCB /\ current_process < child
      /\ current_process # child
  <2>1. /\ proc_table \in 2 .. MaxProcs /\ proc_table < MaxProcs
        /\ current_process \in PCB
    BY DEF Before, TypeOK, Fork, getFreePCB
  <2>2. current_process < proc_table
    BY DEF Before, Placement, Running, Live
  <2>3. proc_table \in PCB
    BY <2>1, MaxProcsAssumption DEF PCB
  <2>4. proc_table \notin freed
    BY <2>1 DEF Before, Placement, Family
  <2> QED BY <2>1, <2>2, <2>3, <2>4 DEF PCB
<1>2. /\ pcb' = [pcb EXCEPT ![child] = new, ![current_process].children = kids]
      /\ proc_table' = child + 1
      /\ ready_queue' = queueEnqueue(ready_queue, child)
      /\ UNCHANGED <<machine, current_process, blocked_queue, zombie_queue, freed>>
  BY DEF Fork
<1>3. /\ new.waiting = -1 /\ new.ppid = current_process
      /\ new.children = << >>
  BY DEF allocNewPCB, INVALID_PID
<1>4. pcb \in [PCB -> PCBType]
  BY DEF Before, TypeOK
<1> HIDE DEF child, new, kids
<1>5. /\ pcb'[child] = new
      /\ pcb'[current_process] = [pcb[current_process] EXCEPT !.children = kids]
      /\ \A p \in PCB \ {child, current_process} : pcb'[p] = pcb[p]
  BY <1>1, <1>2, <1>4
<1>6. /\ pcb'[current_process].children = kids
      /\ pcb'[current_process].ppid = pcb[current_process].ppid
      /\ pcb'[current_process].waiting = pcb[current_process].waiting
      /\ pcb'[current_process].state = pcb[current_process].state
  BY <1>1, <1>4, <1>5 DEF PCBType
<1>7. Live' = Live \union {child} /\ child \notin Live
  <2>1. \A p \in PCB : p < child + 1 <=> (p < child \/ p = child)
    BY <1>1 DEF PCB
  <2> QED BY <1>1, <1>2, <2>1 DEF Live, child
<1>8. Asleep' = Asleep
  <2>1. child \notin Asleep
    BY <1>7 DEF Before, Placement, Placed
  <2>2. \A p \in PCB \ {child} : pcb'[p].waiting = pcb[p].waiting
    BY <1>5, <1>6
  <2> QED BY <1>3, <1>5, <2>1, <2>2, SMT DEF Asleep, SleepsInWait
<1>9. /\ Ready' = Ready \union {child} /\ NoDuplicates(ready_queue')
      /\ UNCHANGED <<Blocked, Zombies>>
  <2>1. /\ ready_queue \in Seq(PCB) /\ NoDuplicates(ready_queue)
        /\ child \notin ToSet(ready_queue)
    BY <1>7 DEF Before, TypeOK, Placement, Placed, Ordered, Ready
  <2>2. /\ ToSet(queueEnqueue(ready_queue, child)) = ToSet(ready_queue) \union {child}
        /\ NoDuplicates(queueEnqueue(ready_queue, child))
    BY <1>1, <2>1, QueueEnqueueSet
  <2> QED BY <1>2, <2>2 DEF Ready, Blocked, Zombies
<1>10. Ordered'
  BY <1>2, <1>9 DEF Before, Placement, Ordered
<1>11. Placed'
  <2>1. Placed /\ current_process \in Live /\ current_process' = current_process
    BY <1>2 DEF Before, Placement, Running
  <2>2. /\ child \notin Ready /\ child \notin Blocked /\ child \notin Zombies
        /\ child \notin Asleep /\ child # idle_proc /\ child # current_process
    BY <1>7, <2>1 DEF Placed
  <2> QED BY <1>7, <1>8, <1>9, <2>1, <2>2 DEF Placed
<1>12. Running'
  BY <1>2, <1>6, <1>7 DEF Before, Placement, Running
<1>13. Family'
  <2>1. \A p \in PCB : pcb'[p].ppid < p
    BY <1>1, <1>3, <1>5, <1>6, ZenonT(30) DEF Before, Placement, Family
  <2>2. ToSet(kids) = ToSet(pcb[current_process].children) \union {child}
    <3>1. pcb[current_process].children \in Seq(PCB)
      BY <1>1, <1>4 DEF PCBType
    <3> QED BY <1>1, <3>1, QueueEnqueueSet DEF kids
  <2>3. ASSUME NEW p \in PCB, NEW c \in PCB, c \in ToSet(pcb[p].children)
        PROVE  pcb'[c].ppid = p /\ c < proc_table'
    <3>1. pcb[c].ppid = p /\ c < child
      BY <2>3 DEF Before, Placement, Family, child
    <3>2. c # child /\ c < child + 1
      BY <1>1, <3>1 DEF PCB
    <3> QED BY <1>2, <1>5, <1>6, <3>1, <3>2
  <2>4. pcb'[child].ppid = current_process /\ child < proc_table'
    BY <1>1, <1>2, <1>3, <1>5
  <2>5. ToSet(pcb'[child].children) = {}
    BY <1>3, <1>5 DEF ToSet
  <2>6. ASSUME NEW p \in PCB, NEW c \in PCB, c \in ToSet(pcb'[p].children)
        PROVE  pcb'[c].ppid = p /\ c < proc_table'
    <3>1. CASE p = child
      BY <2>5, <2>6, <3>1
    <3>2. CASE p = current_process
      BY <1>1, <1>6, <2>2, <2>3, <2>4, <2>6, <3>2
    <3>3. CASE p \notin {child, current_process}
      BY <1>5, <2>3, <2>6, <3>3
    <3> QED BY <3>1, <3>2, <3>3
  <2>7. \A p \in freed : p < proc_table'
    <3>1. \A p \in freed : p < child /\ p \in PCB
      BY DEF Before, TypeOK, Placement, Family, child
    <3> QED BY <1>1, <1>2, <3>1 DEF PCB
  <2> QED BY <1>2, <2>1, <2>6, <2>7 DEF Family
<1> QED BY <1>10, <1>11, <1>12, <1>13 DEF Placement

(* Steps that change PCBs only in what does not place a process.           *)
LEMMA SimilarPlaces ==
  ASSUME Before, Similar(pcb', pcb),
         pcb'[current_process].state = pcb[current_process].state,
         UNCHANGED <<machine, current_process, ready_queue, blocked_queue,
                     zombie_queue, proc_table, freed>>
  PROVE  Placement'
<1>1. Asleep' = Asleep /\ Family'
  BY SimilarKeeps DEF Before, Placement
<1>2. UNCHANGED <<Ready, Blocked, Zombies, Live>>
  BY DEF Ready, Blocked, Zombies, Live
<1>3. Ordered' /\ Placed' /\ Running'
  BY <1>1, <1>2 DEF Before, Placement, Ordered, Placed, Running
<1> QED BY <1>1, <1>3 DEF Placement

(* The first run of a child.                                               *)
LEMMA ForkChildPlaces ==
  ASSUME Before, ForkChild
  PROVE  Placement'
<1>1. pcb \in [PCB -> PCBType] /\ current_process \in PCB
  BY DEF Before, TypeOK
<1>2. pcb' = [pcb EXCEPT ![current_process].parent = pcb[current_process].ppid]
  BY DEF ForkChild
<1>3. ASSUME NEW p \in PCB
      PROVE  /\ pcb'[p].waiting = pcb[p].waiting /\ pcb'[p].ppid = pcb[p].ppid
             /\ pcb'[p].children = pcb[p].children
             /\ pcb'[p].state = pcb[p].state
  BY <1>1, <1>2, SMT DEF PCBType
<1> QED BY <1>1, <1>3, SimilarPlaces DEF Similar, ForkChild

(* The sets hold every process but idle, each in one of them.              *)
Parts(ready, blocked, zombies, asleep) ==
  /\ ready \union blocked \union zombies \union asleep = Live \ {idle_proc}
  /\ ready \intersect blocked = {} /\ ready \intersect zombies = {}
  /\ ready \intersect asleep = {} /\ blocked \intersect zombies = {}
  /\ blocked \intersect asleep = {} /\ zombies \intersect asleep = {}

(* The places before a handler that gives up the CPU.                      *)
LEMMA PartsNow ==
  ASSUME Before
  PROVE  /\ idle_proc \in Live /\ current_process \in Live
         /\ current_process = idle_proc => Parts(Ready, Blocked, Zombies, Asleep)
         /\ current_process # idle_proc =>
              /\ Parts(Ready \union {current_process}, Blocked, Zombies, Asleep)
              /\ Parts(Ready, Blocked \union {current_process}, Zombies, Asleep)
              /\ Parts(Ready, Blocked, Zombies \union {current_process}, Asleep)
              /\ Parts(Ready, Blocked, Zombies, Asleep \union {current_process})
<1>1. Placed /\ current_process \in Live
  BY DEF Before, Placement, Running
<1>2. Ready \union Blocked \union Zombies \union Asleep \union {current_process,
        idle_proc} = Live
  BY <1>1 DEF Placed
<1> QED BY <1>1, <1>2 DEF Placed, Parts

(* A handler that gives up the CPU after it gave every process but idle a  *)
(* place.                                                                  *)
LEMMA LeavePlaces ==
  ASSUME Before, Sane', NEW label, NEW ready \in Seq(PCB), NoDuplicates(ready),
         NEW table \in [PCB -> PCBType], SwitchToNext(label, ready, table),
         \A p \in PCB : /\ table[p].ppid = pcb[p].ppid
                        /\ table[p].children = pcb[p].children,
         UNCHANGED <<proc_table, freed>>,
         NoDuplicates(blocked_queue'), NoDuplicates(zombie_queue'),
         Parts(ToSet(ready), Blocked', Zombies',
               {p \in PCB : table[p].waiting = 1})
  PROVE  Placement'
<1> DEFINE asleep == {p \in PCB : table[p].waiting = 1}
<1>1. /\ NoDuplicates(ready_queue')
      /\ \/ ToSet(ready) = {} /\ Ready' = {} /\ current_process' = idle_proc
         \/ /\ current_process' \in ToSet(ready)
            /\ Ready' = ToSet(ready) \ {current_process'}
      /\ Similar(pcb', table)
      /\ pcb'[current_process'].state = "PROC_RUNNING"
      /\ machine' \in {machine, "undefined"}
  BY SwitchPlaces DEF Before
<1>2. Live' = Live
  BY DEF Live
<1>3. Asleep' = asleep
  BY <1>1 DEF Asleep, SleepsInWait, Similar
<1>4. idle_proc \in Live /\ current_process' \in Live
  BY <1>1, PartsNow DEF Parts
<1>5. Ordered'
  BY <1>1 DEF Ordered
<1>6. Placed'
  <2>1. Parts(ToSet(ready), Blocked', Zombies', Asleep')
    BY <1>3
  <2> HIDE DEF asleep
  <2> QED BY <1>1, <1>2, <1>4, <2>1 DEF Placed, Parts
<1>7. Running'
  BY <1>1, <1>2, <1>4 DEF Running
<1>8. Family'
  BY <1>1 DEF Before, Placement, Family, Similar
<1> QED BY <1>5, <1>6, <1>7, <1>8 DEF Placement

(* Wait without a zombie: the process sleeps, in no queue.                 *)
LEMMA WaitBlocksPlaces ==
  ASSUME Before, Sane', WaitBlocks
  PROVE  Placement'
<1> DEFINE t1 == [pcb EXCEPT ![current_process].state = "PROC_BLOCKED"]
           table == [pcb EXCEPT ![current_process].state = "PROC_BLOCKED",
                                ![current_process].waiting = 1]
<1>1. pcb \in [PCB -> PCBType] /\ current_process \in PCB
  BY DEF Before, TypeOK
<1>2. table \in [PCB -> PCBType]
  <2>1. t1 \in [PCB -> PCBType]
    BY <1>1, FieldTypes DEF ProcState
  <2>2. [t1 EXCEPT ![current_process].waiting = 1] \in [PCB -> PCBType]
    BY <1>1, <2>1, FieldTypes
  <2> QED BY <2>2
<1>3. ASSUME NEW p \in PCB
      PROVE  /\ table[p].ppid = pcb[p].ppid
             /\ table[p].children = pcb[p].children
             /\ table[p].waiting = IF p = current_process THEN 1
                                   ELSE pcb[p].waiting
  BY <1>1, SMT DEF PCBType
<1>4. /\ SwitchToNext("wait", ready_queue, table)
      /\ UNCHANGED <<blocked_queue, zombie_queue, proc_table, freed>>
      /\ current_process # idle_proc
  BY DEF WaitBlocks, UserTrap
<1> HIDE DEF table
<1>5. {p \in PCB : table[p].waiting = 1} = Asleep \union {current_process}
  BY <1>1, <1>3 DEF Asleep, SleepsInWait
<1>6. Blocked' = Blocked /\ Zombies' = Zombies
  BY <1>4 DEF Blocked, Zombies
<1>7. Parts(ToSet(ready_queue), Blocked', Zombies',
            {p \in PCB : table[p].waiting = 1})
  BY <1>4, <1>5, <1>6, PartsNow DEF Ready
<1>8. /\ ready_queue \in Seq(PCB) /\ NoDuplicates(ready_queue)
      /\ NoDuplicates(blocked_queue') /\ NoDuplicates(zombie_queue')
  BY <1>4 DEF Before, TypeOK, Placement, Ordered
<1> QED BY <1>2, <1>3, <1>4, <1>7, <1>8, LeavePlaces

(* Delay: the process goes to the blocked queue.                           *)
LEMMA DelayPlaces ==
  ASSUME Before, Sane', NEW n \in Int, DelayBlocks(n)
  PROVE  Placement'
<1> DEFINE t1 == [pcb EXCEPT ![current_process].delay = n]
           table == [pcb EXCEPT ![current_process].delay = n,
                                ![current_process].state = "PROC_BLOCKED"]
<1>1. pcb \in [PCB -> PCBType] /\ current_process \in PCB
  BY DEF Before, TypeOK
<1>2. table \in [PCB -> PCBType]
  <2>1. t1 \in [PCB -> PCBType]
    BY <1>1, FieldTypes
  <2>2. [t1 EXCEPT ![current_process].state = "PROC_BLOCKED"] \in [PCB -> PCBType]
    BY <1>1, <2>1, FieldTypes DEF ProcState
  <2> QED BY <2>2
<1>3. ASSUME NEW p \in PCB
      PROVE  /\ table[p].ppid = pcb[p].ppid
             /\ table[p].children = pcb[p].children
             /\ table[p].waiting = pcb[p].waiting
  BY <1>1, SMT DEF PCBType
<1>4. /\ SwitchToNext("delay", ready_queue, table)
      /\ blocked_queue' = queueEnqueue(blocked_queue, current_process)
      /\ UNCHANGED <<zombie_queue, proc_table, freed>>
      /\ current_process # idle_proc
  BY DEF DelayBlocks, UserTrap
<1> HIDE DEF table
<1>5. {p \in PCB : table[p].waiting = 1} = Asleep
  BY <1>1, <1>3 DEF Asleep, SleepsInWait
<1>6. /\ blocked_queue \in Seq(PCB) /\ NoDuplicates(blocked_queue)
      /\ current_process \notin ToSet(blocked_queue)
  BY DEF Before, TypeOK, Placement, Ordered, Placed, Blocked
<1>7. /\ Blocked' = Blocked \union {current_process} /\ Zombies' = Zombies
      /\ NoDuplicates(blocked_queue')
  BY <1>1, <1>4, <1>6, QueueEnqueueSet DEF Blocked, Zombies
<1>8. Parts(ToSet(ready_queue), Blocked', Zombies',
            {p \in PCB : table[p].waiting = 1})
  BY <1>4, <1>5, <1>7, PartsNow DEF Ready
<1>9. /\ ready_queue \in Seq(PCB) /\ NoDuplicates(ready_queue)
      /\ NoDuplicates(zombie_queue')
  BY <1>4 DEF Before, TypeOK, Placement, Ordered
<1> QED BY <1>2, <1>3, <1>4, <1>7, <1>8, <1>9, LeavePlaces

(* Preemption: as if the running process were queued before the switch.    *)
LEMMA ClockSwitchesPlaces ==
  ASSUME Before, Sane', ClockSwitches
  PROVE  Placement'
<1> DEFINE table == [pcb EXCEPT ![current_process].state = "PROC_READY"]
           ready == queueEnqueue(ready_queue, current_process)
<1>1. /\ pcb \in [PCB -> PCBType] /\ current_process \in PCB
      /\ ready_queue \in Seq(PCB) /\ NoDuplicates(ready_queue)
      /\ ~is_empty(ready_queue)
      /\ current_process \notin ToSet(ready_queue)
  BY DEF Before, TypeOK, Placement, Ordered, Placed, Ready, ClockSwitches
<1>2. /\ UNCHANGED <<blocked_queue, zombie_queue, proc_table, freed>>
      /\ Blocked' = Blocked /\ Zombies' = Zombies
      /\ NoDuplicates(blocked_queue') /\ NoDuplicates(zombie_queue')
  BY DEF ClockSwitches, Blocked, Zombies, Before, Placement, Ordered
<1>3. CASE current_process = idle_proc
  <2>1. SwitchToNext("clock", ready_queue, pcb)
    BY <1>1, <1>3 DEF ClockSwitches, Requeues, SwitchToNext
  <2>2. Parts(ToSet(ready_queue), Blocked', Zombies',
              {p \in PCB : pcb[p].waiting = 1})
    BY <1>2, <1>3, PartsNow DEF Ready, Asleep, SleepsInWait
  <2> QED BY <1>1, <1>2, <2>1, <2>2, LeavePlaces
<1>4. CASE current_process # idle_proc
  <2>1. Requeues
    BY <1>4 DEF Requeues, Before, Placement, Running
  <2>2. /\ ~is_empty(ready) /\ queueFront(ready) = queueFront(ready_queue)
        /\ queueDequeue(ready) =
             queueEnqueue(queueDequeue(ready_queue), current_process)
    BY <1>1 DEF is_empty, queueFront, queueDequeue, queueEnqueue
  <2>3. SwitchToNext("clock", ready, table)
    BY <2>1, <2>2 DEF ClockSwitches, SwitchToNext
  <2>4. table \in [PCB -> PCBType]
    BY <1>1, FieldTypes DEF ProcState
  <2>5. ASSUME NEW p \in PCB
        PROVE  /\ table[p].ppid = pcb[p].ppid
               /\ table[p].children = pcb[p].children
               /\ table[p].waiting = pcb[p].waiting
    BY <1>1, SMT DEF PCBType
  <2>6. /\ ready \in Seq(PCB) /\ NoDuplicates(ready)
        /\ ToSet(ready) = ToSet(ready_queue) \union {current_process}
    BY <1>1, QueueEnqueueSet
  <2> HIDE DEF table, ready
  <2>7. {p \in PCB : table[p].waiting = 1} = Asleep
    BY <2>5 DEF Asleep, SleepsInWait
  <2>8. Parts(ToSet(ready), Blocked', Zombies',
              {p \in PCB : table[p].waiting = 1})
    BY <1>2, <1>4, <2>6, <2>7, PartsNow DEF Ready
  <2> QED BY <1>2, <2>3, <2>4, <2>5, <2>6, <2>8, LeavePlaces
<1> QED BY <1>3, <1>4

(* The process table Exit works on.                                        *)
LEMMA ExitedFacts ==
  ASSUME TypeOK, NEW status \in Int
  PROVE  /\ Exited(status) \in [PCB -> PCBType]
         /\ \A p \in PCB : /\ Exited(status)[p].ppid = pcb[p].ppid
                           /\ Exited(status)[p].children = pcb[p].children
                           /\ Exited(status)[p].waiting = pcb[p].waiting
<1> DEFINE t1 == [pcb EXCEPT ![current_process].exit = status]
           table == [t1 EXCEPT ![current_process].state = "PROC_ZOMBIE"]
<1>1. pcb \in [PCB -> PCBType] /\ current_process \in PCB
  BY DEF TypeOK
<1>2. t1 \in [PCB -> PCBType]
  BY <1>1, FieldTypes
<1>3. table \in [PCB -> PCBType]
  BY <1>1, <1>2, FieldTypes DEF ProcState
<1>4. Exited(status) = table
  BY DEF Exited
<1>5. ASSUME NEW p \in PCB
      PROVE  /\ table[p].ppid = pcb[p].ppid
             /\ table[p].children = pcb[p].children
             /\ table[p].waiting = pcb[p].waiting
  BY <1>1, SMT DEF PCBType
<1> QED BY <1>3, <1>4, <1>5

(* Exit of a process other than init: it becomes a zombie, and a parent    *)
(* that sleeps in Wait becomes ready.                                      *)
LEMMA ExitPlaces ==
  ASSUME Before, Sane', NEW status \in Int, NEW label,
         current_process # idle_proc,
         zombie_queue' = queueEnqueue(zombie_queue, current_process),
         ExitWake(status, label) \/ ExitQuietly(status, label),
         UNCHANGED <<blocked_queue, proc_table, freed>>
  PROVE  Placement'
<1> DEFINE parent == pcb[current_process].parent
           t1 == Exited(status)
<1>1. /\ pcb \in [PCB -> PCBType] /\ current_process \in PCB
      /\ ready_queue \in Seq(PCB) /\ NoDuplicates(ready_queue)
      /\ zombie_queue \in Seq(PCB) /\ NoDuplicates(zombie_queue)
      /\ current_process \notin ToSet(zombie_queue)
  BY DEF Before, TypeOK, Placement, Ordered, Placed, Zombies
<1>2. /\ Blocked' = Blocked /\ Zombies' = Zombies \union {current_process}
      /\ NoDuplicates(blocked_queue') /\ NoDuplicates(zombie_queue')
  <2>1. NoDuplicates(blocked_queue') /\ Blocked' = Blocked
    BY DEF Blocked, Before, Placement, Ordered
  <2> QED BY <1>1, <2>1, QueueEnqueueSet DEF Zombies
<1>3. /\ t1 \in [PCB -> PCBType]
      /\ \A p \in PCB : /\ t1[p].ppid = pcb[p].ppid
                        /\ t1[p].children = pcb[p].children
                        /\ t1[p].waiting = pcb[p].waiting
  BY ExitedFacts DEF Before
<1>4. Parts(Ready, Blocked, Zombies \union {current_process}, Asleep)
  BY PartsNow
<1>5. CASE ExitQuietly(status, label)
  <2>1. SwitchToNext(label, ready_queue, t1)
    BY <1>5 DEF ExitQuietly
  <2>2. {p \in PCB : t1[p].waiting = 1} = Asleep
    BY <1>3 DEF Asleep, SleepsInWait
  <2>3. Parts(ToSet(ready_queue), Blocked', Zombies',
              {p \in PCB : t1[p].waiting = 1})
    BY <1>2, <1>4, <2>2 DEF Ready
  <2> HIDE DEF t1
  <2> QED BY <1>1, <1>2, <1>3, <2>1, <2>3, LeavePlaces
<1>6. CASE ExitWake(status, label)
  <2> DEFINE t2 == [t1 EXCEPT ![parent].state = "PROC_READY"]
             table == [t2 EXCEPT ![parent].waiting = 0]
             ready == queueEnqueue(ready_queue, parent)
  <2>1. parent \in PCB /\ pcb[parent].waiting = 1
    <3>1. parent \in PCB \union {NULL}
      BY <1>1 DEF PCBType
    <3>2. parent # NULL
      BY <1>6 DEF ExitWake
    <3>3. faults' = {}
      BY DEF Sane
    <3>4. pcb[parent].waiting = 1
      BY <1>6, <3>3 DEF ExitWake
    <3> QED BY <3>1, <3>2, <3>4
  <2>2. SwitchToNext(label, ready, table)
    BY <1>6 DEF ExitWake
  <2> HIDE DEF t1, parent
  <2>3. table \in [PCB -> PCBType]
    <3>1. t2 \in [PCB -> PCBType]
      BY <1>3, <2>1, FieldTypes DEF ProcState
    <3> QED BY <2>1, <3>1, FieldTypes
  <2>4. ASSUME NEW p \in PCB
        PROVE  /\ table[p].ppid = pcb[p].ppid
               /\ table[p].children = pcb[p].children
               /\ table[p].waiting = IF p = parent THEN 0 ELSE pcb[p].waiting
    <3>1. /\ table[p].ppid = t1[p].ppid
          /\ table[p].children = t1[p].children
          /\ table[p].waiting = IF p = parent THEN 0 ELSE t1[p].waiting
      BY <1>3, <2>1, SMT DEF PCBType
    <3> QED BY <1>3, <3>1
  <2> HIDE DEF table
  <2>5. {p \in PCB : table[p].waiting = 1} = Asleep \ {parent}
    BY <2>4, SMT DEF Asleep, SleepsInWait
  <2>6. parent \in Asleep /\ parent \notin ToSet(ready_queue)
    BY <1>4, <2>1 DEF Parts, Asleep, SleepsInWait, Ready
  <2>7. /\ ready \in Seq(PCB) /\ NoDuplicates(ready)
        /\ ToSet(ready) = Ready \union {parent}
    BY <1>1, <2>1, <2>6, QueueEnqueueSet DEF Ready
  <2> HIDE DEF ready
  <2>8. Parts(ToSet(ready), Blocked', Zombies',
              {p \in PCB : table[p].waiting = 1})
    BY <1>2, <1>4, <2>5, <2>6, <2>7 DEF Parts
  <2> QED BY <1>2, <2>2, <2>3, <2>4, <2>7, <2>8, LeavePlaces
<1> QED BY <1>5, <1>6

(* Exit of init, which stops the machine.                                  *)
LEMMA ExitInitPlaces ==
  ASSUME Before, current_process = init_proc, ExitInit
  PROVE  Placement'
<1>1. /\ pcb \in [PCB -> PCBType] /\ current_process \in PCB
      /\ current_process # idle_proc /\ current_process \in Live
  BY DEF Before, TypeOK, Placement, Running, init_proc, idle_proc
<1>2. /\ pcb' = deletePCB(pcb, current_process) /\ machine' = "halted"
      /\ freed' = freed \union {current_process}
      /\ UNCHANGED <<current_process, ready_queue, blocked_queue, zombie_queue,
                     proc_table>>
  BY DEF ExitInit
<1>3. Similar(pcb', pcb)
  BY <1>1, <1>2, DeleteIsSimilar
<1>4. Live' = Live \ {current_process}
  BY <1>2 DEF Live
<1>5. UNCHANGED <<Ready, Blocked, Zombies>>
  BY <1>2 DEF Ready, Blocked, Zombies
<1>6. Asleep' = Asleep
  BY <1>3 DEF Asleep, SleepsInWait, Similar
<1>7. Ordered' /\ Running'
  BY <1>2 DEF Before, Placement, Ordered, Running
<1>8. Placed'
  BY <1>1, <1>2, <1>4, <1>5, <1>6 DEF Before, Placement, Placed
<1>9. Family'
  <2>1. \A p \in freed' : p < proc_table'
    BY <1>1, <1>2 DEF Before, Placement, Family, Live
  <2> QED BY <1>2, <1>3, <2>1 DEF Before, Placement, Family, Similar
<1> QED BY <1>7, <1>8, <1>9 DEF Placement

(* Wait with a zombie: the zombie is gone, and the caller, which is not    *)
(* among the orphans of its own child, goes on.                            *)
LEMMA ReapPlaces ==
  ASSUME Before, ZombieOf(current_process) # NULL,
         Reap(ZombieOf(current_process))
  PROVE  Placement'
<1> DEFINE zombie == ZombieOf(current_process)
           kids == queueRemove(pcb[current_process].children, zombie)
           table == [pcb EXCEPT ![current_process].children = kids]
<1>1. /\ pcb \in [PCB -> PCBType] /\ current_process \in PCB
      /\ zombie_queue \in Seq(PCB) /\ NoDuplicates(zombie_queue)
      /\ current_process \in Live
  BY DEF Before, TypeOK, Placement, Ordered, Running
<1>2. /\ zombie \in PCB \ freed /\ zombie \in ToSet(zombie_queue)
      /\ pcb[zombie].ppid = current_process
  BY <1>1, ZombieOfFacts
<1>3. /\ zombie_queue' = queueRemove(zombie_queue, zombie)
      /\ pcb' = deletePCB(table, zombie)
      /\ freed' = freed \union {zombie}
      /\ UNCHANGED <<machine, current_process, ready_queue, blocked_queue,
                     proc_table>>
  BY DEF Reap
<1> HIDE DEF zombie
<1>4. /\ zombie \in Live /\ zombie # current_process /\ zombie # idle_proc
      /\ zombie \notin Ready /\ zombie \notin Blocked /\ zombie \notin Asleep
  BY <1>2 DEF Before, Placement, Placed, Zombies
<1>5. kids \in Seq(PCB) /\ ToSet(kids) \subseteq ToSet(pcb[current_process].children)
  <2>1. pcb[current_process].children \in Seq(PCB)
    BY <1>1 DEF PCBType
  <2> QED BY <2>1, QueueRemoveType, QueueRemoveSubset
<1> HIDE DEF kids
<1>6. table \in [PCB -> PCBType]
  BY <1>1, <1>5, FieldTypes
<1>7. ASSUME NEW p \in PCB
      PROVE  /\ table[p].ppid = pcb[p].ppid
             /\ table[p].waiting = pcb[p].waiting
             /\ table[p].state = pcb[p].state
             /\ table[p].children = IF p = current_process THEN kids
                                    ELSE pcb[p].children
  BY <1>1, SMT DEF PCBType
<1> HIDE DEF table
<1>8. Similar(pcb', table)
  BY <1>2, <1>3, <1>6, DeleteIsSimilar
<1>9. Live' = Live \ {zombie}
  BY <1>3 DEF Live
<1>10. Asleep' = Asleep
  BY <1>7, <1>8 DEF Asleep, SleepsInWait, Similar
<1>11. /\ Zombies' = Zombies \ {zombie} /\ NoDuplicates(zombie_queue')
       /\ UNCHANGED <<Ready, Blocked>>
  BY <1>1, <1>3, QueueRemoveSet DEF Zombies, Ready, Blocked
<1>12. Ordered'
  BY <1>3, <1>11 DEF Before, Placement, Ordered
<1>13. Placed'
  <2>1. Placed
    BY DEF Before, Placement
  <2> QED BY <1>3, <1>4, <1>9, <1>10, <1>11, <2>1 DEF Placed
<1>14. Running'
  <2>1. current_process \notin ToSet(pcb[zombie].children)
    <3>1. pcb[zombie].ppid < zombie /\ pcb[current_process].ppid < current_process
      BY <1>1, <1>2 DEF Before, Placement, Family
    <3>2. current_process < zombie /\ pcb[current_process].ppid # zombie
      BY <1>1, <1>2, <3>1 DEF PCB
    <3> QED BY <1>1, <1>2, <3>2 DEF Before, Placement, Family
  <2>2. pcb'[current_process].state = pcb[current_process].state
    BY <1>1, <1>2, <1>3, <1>4, <1>6, <1>7, <2>1, DeleteIsSimilar
  <2> QED BY <1>1, <1>3, <1>4, <1>9, <2>2 DEF Before, Placement, Running
<1>15. Family'
  <2>1. Family /\ zombie < proc_table
    BY <1>4 DEF Before, Placement, Live
  <2>2. \A p \in PCB : /\ pcb'[p].ppid = pcb[p].ppid
                       /\ ToSet(pcb'[p].children) \subseteq ToSet(pcb[p].children)
    BY <1>5, <1>7, <1>8 DEF Similar
  <2> QED BY <1>3, <2>1, <2>2 DEF Family
<1> QED BY <1>12, <1>13, <1>14, <1>15 DEF Placement

(* The node the iteration visits is in the blocked queue.                  *)
LEMMA VisitedIsBlocked ==
  ASSUME TypeOK, SavedNodesAreLinked, Iterates
  PROVE  Head(iter) \in PCB /\ Head(iter) \in Blocked
<1>1. /\ iter \in Seq(PCB) /\ blocked_queue \in Seq(PCB) /\ iter # << >>
      /\ IsTailOf(iter, blocked_queue)
  BY DEF TypeOK, Iterates, SavedNodesAreLinked, is_empty
<1>2. /\ Len(iter) \in Nat \ {0} /\ Len(blocked_queue) \in Nat
      /\ Head(iter) = iter[1] /\ iter[1] \in PCB
  BY <1>1
<1> DEFINE k == Len(blocked_queue) - Len(iter) + 1
<1>3. k \in 1 .. Len(blocked_queue) /\ iter[1] = blocked_queue[k]
  BY <1>1, <1>2 DEF IsTailOf
<1> QED BY <1>1, <1>2, <1>3 DEF Blocked, ToSet

(* A call of the clock trap's callback: a process whose countdown ends     *)
(* moves from the blocked queue to the ready queue.                        *)
LEMMA TickPlaces ==
  ASSUME Before, trapHandlerHelper
  PROVE  Placement'
<1> DEFINE p == Head(iter)
<1>1. /\ p \in PCB /\ p \in Blocked /\ pcb \in [PCB -> PCBType]
      /\ ready_queue \in Seq(PCB) /\ blocked_queue \in Seq(PCB)
  BY VisitedIsBlocked DEF Before, TypeOK, trapHandlerHelper
<1>2. /\ TickIdle(p) \/ TickCounts(p) \/ TickWakes(p)
      /\ UNCHANGED <<machine, current_process, zombie_queue, proc_table, freed>>
  BY DEF trapHandlerHelper
<1> HIDE DEF p
<1>3. CASE TickIdle(p)
  BY <1>2, <1>3, PlacementUnchanged DEF TickIdle, Before
<1>4. CASE TickCounts(p)
  <2>1. pcb' = [pcb EXCEPT ![p].delay = @ - 1]
    BY <1>4 DEF TickCounts
  <2>2. ASSUME NEW q \in PCB
        PROVE  /\ pcb'[q].waiting = pcb[q].waiting /\ pcb'[q].ppid = pcb[q].ppid
               /\ pcb'[q].children = pcb[q].children
               /\ pcb'[q].state = pcb[q].state
    BY <1>1, <2>1, SMT DEF PCBType
  <2>3. current_process \in PCB
    BY DEF Before, TypeOK
  <2> QED BY <1>2, <1>4, <2>2, <2>3, SimilarPlaces DEF Similar, TickCounts
<1>5. CASE TickWakes(p)
  <2>1. /\ pcb' = [pcb EXCEPT ![p].delay = 0, ![p].state = "PROC_READY"]
        /\ blocked_queue' = queueRemove(blocked_queue, p)
        /\ ready_queue' = queueEnqueue(ready_queue, p)
    BY <1>5 DEF TickWakes
  <2>2. /\ Placed /\ Ordered /\ Running /\ Family /\ p # current_process
        /\ current_process \in PCB /\ p \notin Ready
    BY <1>1 DEF Before, TypeOK, Placement, Placed
  <2>3. ASSUME NEW q \in PCB
        PROVE  /\ pcb'[q].waiting = pcb[q].waiting /\ pcb'[q].ppid = pcb[q].ppid
               /\ pcb'[q].children = pcb[q].children
               /\ q # p => pcb'[q].state = pcb[q].state
    BY <1>1, <2>1, SMT DEF PCBType
  <2>4. Asleep' = Asleep /\ Family'
    BY <1>2, <2>2, <2>3, SimilarKeeps DEF Similar
  <2>5. Blocked' = Blocked \ {p} /\ NoDuplicates(blocked_queue')
    BY <1>1, <2>1, <2>2, QueueRemoveSet DEF Ordered, Blocked
  <2>6. Ready' = Ready \union {p} /\ NoDuplicates(ready_queue')
    <3>1. NoDuplicates(ready_queue) /\ p \notin ToSet(ready_queue)
      BY <2>2 DEF Ordered, Ready
    <3>2. /\ ToSet(queueEnqueue(ready_queue, p)) = ToSet(ready_queue) \union {p}
          /\ NoDuplicates(queueEnqueue(ready_queue, p))
      BY <1>1, <3>1, QueueEnqueueSet
    <3> QED BY <2>1, <3>2 DEF Ready
  <2>7. UNCHANGED <<Live, Zombies>>
    BY <1>2 DEF Live, Zombies
  <2>8. Ordered'
    BY <1>2, <2>2, <2>5, <2>6 DEF Ordered
  <2>9. Placed'
    BY <1>1, <1>2, <2>2, <2>4, <2>5, <2>6, <2>7 DEF Placed
  <2>10. Running'
    BY <1>2, <2>2, <2>3, <2>7 DEF Running
  <2> QED BY <2>4, <2>8, <2>9, <2>10 DEF Placement
<1> QED BY <1>2, <1>3, <1>4, <1>5

-----------------------------------------------------------------------------
(* Faults are never forgotten, and a step is taken only while the machine  *)
(* runs.                                                                   *)
LEMMA FaultsGrow ==
  ASSUME ProcNext
  PROVE  machine = "on" /\ faults \subseteq faults'
<1>1. CASE ExitSyscall \/ MemoryTrapHandler \/ FatalTrapHandler
  <2>1. UserTrap /\ \E status, label : Exit(status, label)
    BY <1>1, Zenon DEF ExitSyscall, MemoryTrapHandler, FatalTrapHandler
  <2>2. PICK status, label : Exit(status, label)
    BY <2>1
  <2>3. faults \subseteq faults'
    BY <2>2 DEF Exit, ExitInit, ExitWake, ExitQuietly, Undefined
  <2> QED BY <2>1, <2>3 DEF UserTrap, InUser
<1>2. CASE Syscall /\ ~ExitSyscall
  BY <1>2 DEF Syscall, Fork, ForkTableFull, ForkNoFrames, WaitReaps,
     WaitBlocks, WaitNoChildren, DelayBlocks, DelayZero, DelayHalts, GetPid,
     Reap, WaitFails, Halt, UserTrap, InUser
<1>3. CASE \/ trapHandlerHelper \/ TickUndefined \/ ClockSwitches \/ ClockReturns
           \/ ClockResumes \/ DelayResumes \/ ClockTrapHandler
  BY <1>3 DEF trapHandlerHelper, TickIdle, TickCounts, TickWakes, TickUndefined,
     Undefined, Iterates, ClockSwitches, ClockReturns, ClockResumes,
     DelayResumes, Resumes, ClockTrapHandler, InUser
<1>4. CASE \/ ForkChild \/ ForkChildUndefined \/ WaitResumes \/ ExitReturns
           \/ FatalTrapReturns \/ WaitUndefined \/ StackGrows
  BY <1>4 DEF ForkChild, ForkChildUndefined, WaitResumes, ExitReturns,
     FatalTrapReturns, WaitUndefined, StackGrows, Undefined, Reap, WaitFails,
     Halt, Resumes, UserTrap, InUser
<1> QED BY <1>1, <1>2, <1>3, <1>4 DEF ProcNext, Syscall, Fault, KernelStep

(* Every step that commits no fault leaves every process in one place.     *)
LEMMA ProcNextPlaces ==
  ASSUME TypeOK, SavedNodesAreLinked, Sane => Placement, ProcNext, Sane'
  PROVE  Placement'
<1>1. Sane
  BY FaultsGrow DEF Sane
<1>2. Before
  BY <1>1, FaultsGrow DEF Before
<1>3. ASSUME Undefined PROVE FALSE
  BY <1>3 DEF Undefined, Sane
<1>4. CASE ExitSyscall \/ MemoryTrapHandler \/ FatalTrapHandler
  <2>1. /\ UserTrap
        /\ \E status \in Statuses \union {ERROR}, label \in {"exit", "killed"} :
             Exit(status, label)
    BY <1>4, Zenon DEF ExitSyscall, MemoryTrapHandler, FatalTrapHandler
  <2>2. PICK status \in Statuses \union {ERROR}, label \in {"exit", "killed"} :
          Exit(status, label)
    BY <2>1
  <2>3. status \in Int /\ current_process # idle_proc
    BY <2>1, ArgumentsAssumption DEF ERROR, UserTrap
  <2>4. CASE current_process = init_proc /\ ExitInit
    BY <1>2, <2>4, ExitInitPlaces
  <2>5. CASE Undefined
    BY <1>3, <2>5
  <2>6. CASE /\ zombie_queue' = queueEnqueue(zombie_queue, current_process)
             /\ ExitWake(status, label) \/ ExitQuietly(status, label)
             /\ UNCHANGED <<blocked_queue, proc_table, freed, iter>>
    BY <1>2, <2>3, <2>6, ExitPlaces
  <2> QED BY <2>2, <2>4, <2>5, <2>6 DEF Exit
<1>5. CASE \E n \in Ticks : DelayBlocks(n)
  BY <1>2, <1>5, DelayPlaces, ArgumentsAssumption
<1>6. CASE \/ ForkTableFull \/ ForkNoFrames \/ FatalTrapReturns
           \/ \E n \in Ticks : DelayHalts(n)
  BY <1>2, <1>6, PlacementUnchanged
  DEF Before, ForkTableFull, ForkNoFrames, FatalTrapReturns, DelayHalts, Halt
<1>7. CASE ForkChildUndefined \/ TickUndefined \/ WaitUndefined
  BY <1>3, <1>7 DEF ForkChildUndefined, TickUndefined, WaitUndefined
<1>8. CASE Fork \/ ForkChild
  BY <1>2, <1>8, ForkPlaces, ForkChildPlaces
<1>9. CASE WaitReaps \/ (WaitResumes /\ ZombieOf(current_process) # NULL)
  BY <1>2, <1>9, ReapPlaces DEF WaitReaps, WaitResumes
<1>10. CASE WaitNoChildren \/ (WaitResumes /\ ZombieOf(current_process) = NULL)
  BY <1>2, <1>10, PlacementUnchanged
  DEF Before, WaitNoChildren, WaitResumes, WaitFails
<1>11. CASE WaitBlocks
  BY <1>2, <1>11, WaitBlocksPlaces
<1>12. CASE trapHandlerHelper \/ ClockSwitches
  BY <1>2, <1>12, TickPlaces, ClockSwitchesPlaces
<1>13. CASE \/ GetPid \/ StackGrows \/ DelayResumes \/ ExitReturns
            \/ ClockTrapHandler \/ ClockReturns \/ ClockResumes
            \/ \E n \in Ticks : DelayZero(n)
  BY <1>2, <1>13, PlacementUnchanged
  DEF Before, GetPid, StackGrows, DelayResumes, ExitReturns, ClockTrapHandler,
      ClockReturns, ClockResumes, DelayZero
<1> QED BY <1>4, <1>5, <1>6, <1>7, <1>8, <1>9, <1>10, <1>11, <1>12, <1>13
        DEF ProcNext, Syscall, Fault, KernelStep

(* The invariant of the placement is inductive.                            *)
LEMMA PlacementStart == Init => PlacementInv
BY InitType, PlacementInit DEF PlacementInv, Init, SavedNodesAreLinked

LEMMA PlacementStep == PlacementInv /\ [Next]_procVars => PlacementInv'
<1> SUFFICES ASSUME PlacementInv, [Next]_procVars PROVE PlacementInv'
  OBVIOUS
<1>1. CASE UNCHANGED procVars
  <2>1. TypeOK' /\ SavedNodesAreLinked'
    BY <1>1 DEF PlacementInv, TypeOK, SavedNodesAreLinked, procVars
  <2>2. ASSUME Sane' PROVE Placement'
    <3>1. UNCHANGED <<machine, faults, current_process, ready_queue,
                      blocked_queue, zombie_queue, proc_table, pcb, freed>>
      BY <1>1 DEF procVars
    <3>2. Placement
      BY <2>2, <3>1 DEF PlacementInv, Sane
    <3> QED BY <3>1, <3>2, PlacementUnchanged
  <2> QED BY <2>1, <2>2 DEF PlacementInv
<1>2. CASE ProcNext
  BY <1>2, ProcNextType, ProcNextLinked, ProcNextPlaces DEF PlacementInv
<1> QED BY <1>1, <1>2 DEF Next, Stopped

LEMMA PlacementInductive == Spec => []PlacementInv
BY PlacementStart, PlacementStep, PTL DEF Spec

(* Whatever the number of processes: until the first wrong wake-up or use  *)
(* of freed memory, Fork, Exit, Wait, Delay and the clock trap never leave *)
(* a process in two of the ready, blocked and zombie queues, the CPU and   *)
(* the sleepers in Wait, nor twice in one queue.                           *)
THEOREM NobodyTwice == Spec => []NoProcessTwice
<1>1. PlacementInv => NoProcessTwice
  BY PlacementImplies
<1> QED BY <1>1, PlacementInductive, PTL

(* Nor do they lose one: every process that was forked and not reaped is   *)
(* running, in a queue, or asleep in Wait.                                 *)
THEOREM NobodyLost == Spec => []NoProcessLost
<1>1. PlacementInv => NoProcessLost
  BY PlacementImplies
<1> QED BY <1>1, PlacementInductive, PTL

(* The running process is marked PROC_RUNNING, which is the condition for  *)
(* ClockTrapHandler to put it back in the ready queue: deletePCB never     *)
(* marks the process that runs it an orphan.                               *)
THEOREM RunningIsMarked == Spec => []CurrentIsRunning
<1>1. PlacementInv => CurrentIsRunning
  BY PlacementImplies
<1> QED BY <1>1, PlacementInductive, PTL
=============================================================================
