-------------------------- MODULE Refinement_proofs --------------------------
(***************************************************************************)
(* The kernel implements the life cycle of ProcessLifecycle, for any       *)
(* number of processes: proof of ImplementsLifecycle.                      *)
(*                                                                         *)
(* Each handler is one step of the life cycle, or a step in which user     *)
(* programs see nothing.  The invariant of Wakeup_proofs rules out the     *)
(* two answers the life cycle does not know: a Wait that fails after it    *)
(* has slept, and an Exit that returns.                                    *)
(***************************************************************************)
EXTENDS Wakeup_proofs

(* The life of a process in terms of the sets of the placement.            *)
ClearLives ==
  \A p \in PCB :
    /\ p \notin Live /\ p \notin freed => LifeOf(p) = "unborn"
    /\ p \in freed => LifeOf(p) = "reaped"
    /\ p \in Zombies => LifeOf(p) = "dead"
    /\ p \in Live /\ p \notin Zombies =>
         LifeOf(p) = IF NotStarted(p) THEN "new" ELSE "alive"

LEMMA LivesAreClear == TypeOK /\ Placement => ClearLives
<1> SUFFICES ASSUME TypeOK, Placement, NEW p \in PCB
             PROVE  /\ p \notin Live /\ p \notin freed => LifeOf(p) = "unborn"
                    /\ p \in freed => LifeOf(p) = "reaped"
                    /\ p \in Zombies => LifeOf(p) = "dead"
                    /\ p \in Live /\ p \notin Zombies =>
                         LifeOf(p) = IF NotStarted(p) THEN "new" ELSE "alive"
  BY DEF ClearLives
<1>1. /\ p \in Nat /\ proc_table \in Nat
      /\ p \in freed => p < proc_table
      /\ p \in Zombies => p \in Live
  BY ConstantFacts DEF TypeOK, Placement, Placed, Family
<1>2. CASE p \notin Live /\ p \notin freed
  <2>1. p >= proc_table
    BY <1>1, <1>2 DEF Live
  <2>2. LifeOf(p) = "unborn"
    BY <1>1, <1>2, <2>1 DEF LifeOf
  <2> QED BY <1>1, <1>2, <2>2
<1>3. CASE p \in freed
  <2>1. LifeOf(p) = "reaped"
    BY <1>1, <1>3 DEF LifeOf
  <2> QED BY <1>1, <1>3, <2>1 DEF Live
<1>4. CASE p \in Live
  <2>1. p < proc_table /\ p \notin freed /\ ~(p >= proc_table)
    BY <1>1, <1>4 DEF Live
  <2>2. CASE p \in Zombies
    <3>1. LifeOf(p) = "dead"
      <4>1. p \in ToSet(zombie_queue) /\ ~NotStarted(p)
        BY <2>2 DEF Placement, Placed, Zombies, Ready, NotStarted
      <4> QED BY <2>1, <4>1, Zenon DEF LifeOf
    <3> QED BY <1>4, <2>1, <2>2, <3>1
  <2>3. CASE p \notin Zombies /\ NotStarted(p)
    <3>1. LifeOf(p) = "new"
      <4>1. p \notin ToSet(zombie_queue) /\ NotStarted(p)
        BY <2>3 DEF Zombies
      <4> QED BY <2>1, <4>1, Zenon DEF LifeOf
    <3> QED BY <1>4, <2>1, <2>3, <3>1
  <2>4. CASE p \notin Zombies /\ ~NotStarted(p)
    <3>1. LifeOf(p) = "alive"
      BY <2>1, <2>4 DEF LifeOf, Zombies
    <3> QED BY <1>4, <2>1, <2>4, <3>1
  <2> QED BY <2>2, <2>3, <2>4
<1> QED BY <1>2, <1>3, <1>4

(* A step that leaves p where it was, does not start it and does not end   *)
(* it, leaves its life as it was.                                          *)
LEMMA LivesOn ==
  ASSUME ClearLives, ClearLives', NEW p \in PCB,
         p \in Live' <=> p \in Live, p \in freed' <=> p \in freed,
         p \in Zombies' <=> p \in Zombies, NotStarted(p)' <=> NotStarted(p)
  PROVE  LifeOf(p)' = LifeOf(p)
<1>1. CASE p \in freed
  BY <1>1 DEF ClearLives
<1>2. CASE p \in Zombies
  BY <1>2 DEF ClearLives
<1>3. CASE p \notin Live /\ p \notin freed
  BY <1>3 DEF ClearLives
<1>4. CASE p \in Live /\ p \notin Zombies
  BY <1>4 DEF ClearLives
<1> QED BY <1>1, <1>2, <1>3, <1>4

(* Initially idle and init are alive.                                      *)
LEMMA RefinementInit == Init => Lifecycle!Init
<1> SUFFICES ASSUME Init PROVE Lifecycle!Init
  OBVIOUS
<1>1. /\ TypeOK /\ Placement /\ ClearLives
  BY InitType, PlacementInit, LivesAreClear
<1>2. \A p \in PCB : /\ pcb[p].ppid = -1 /\ pcb[p].exit = 0
                     /\ pcb[p].kctx = "boot"
  BY DEF Init, allocNewPCB, INVALID_PID
<1>3. /\ freed = {} /\ Zombies = {} /\ \A p \in PCB : ~NotStarted(p)
      /\ reply = NoReply /\ Sane
  BY <1>2 DEF Init, Zombies, ToSet, NotStarted, Sane
<1>4. \A p \in PCB : p \in Live <=> p \in {idle_proc, init_proc}
  BY <1>3, ConstantFacts DEF Init, Live, idle_proc, init_proc
<1>5. \A p \in PCB : LifeOf(p) = IF p \in {idle_proc, init_proc} THEN "alive"
                                 ELSE "unborn"
  BY <1>1, <1>3, <1>4 DEF ClearLives
<1> QED BY <1>2, <1>3, <1>5 DEF Lifecycle!Init


-----------------------------------------------------------------------------
(* The fields user programs learn of.                                      *)
SameFields == \A p \in PCB : pcb'[p].ppid = pcb[p].ppid /\ pcb'[p].exit = pcb[p].exit

(* The state of the life cycle in a step that ends, starts and makes no    *)
(* process.                                                                *)
LEMMA NobodyMoves ==
  ASSUME ClearLives, ClearLives', SameFields, UNCHANGED <<Live, freed, Zombies>>,
         \A p \in PCB : NotStarted(p)' <=> NotStarted(p)
  PROVE  /\ UNCHANGED [p \in PCB |-> LifeOf(p)]
         /\ UNCHANGED [p \in PCB |-> pcb[p].ppid]
         /\ UNCHANGED [p \in PCB |-> pcb[p].exit]
<1>1. \A p \in PCB : LifeOf(p)' = LifeOf(p)
  BY LivesOn
<1> QED BY <1>1 DEF SameFields

(* The handlers that give up the CPU start nobody: who becomes ready by    *)
(* them is the caller or its parent, both inside another call than Fork.   *)
LEMMA LeavesStarts ==
  ASSUME Before, Wakeup, kpc # "resume", NEW ready, NEW label, label # "fork",
         Ready \subseteq ready,
         ready \subseteq Ready \union {current_process} \union Asleep,
         Leaves(ready, label)
  PROVE  \A p \in PCB : NotStarted(p)' <=> NotStarted(p)
<1>1. ready \subseteq PCB
  BY Apart
<1>2. /\ \A p \in PCB : Resumable(p)' => p \in ready \union {idle_proc}
      /\ \A p \in ready : Resumable(p)'
  BY <1>1, LeavesKin
<1>3. \A p \in PCB : pcb'[p].kctx = IF p = current_process THEN label
                                    ELSE pcb[p].kctx
  BY DEF Leaves
<1>4. \A p \in PCB : NotStarted(p) <=> p \in Ready /\ pcb[p].kctx = "fork"
  BY DEF NotStarted, Ready
<1>5. \A p \in PCB : NotStarted(p)' <=> Resumable(p)' /\ pcb'[p].kctx = "fork"
  BY DEF NotStarted, Resumable, Ready
<1>6. /\ \A p \in Asleep : pcb[p].kctx = "wait"
      /\ pcb[idle_proc].kctx \in {"boot", "clock"}
  BY DEF Wakeup, Contexts
<1> SUFFICES ASSUME NEW p \in PCB PROVE NotStarted(p)' <=> NotStarted(p)
  OBVIOUS
<1>7. CASE p = current_process
  BY <1>3, <1>4, <1>5, <1>7, Apart
<1>8. CASE p # current_process
  <2>1. pcb'[p].kctx = pcb[p].kctx
    BY <1>3, <1>8
  <2>2. ASSUME NotStarted(p)' PROVE NotStarted(p)
    <3>1. pcb[p].kctx = "fork" /\ p \in ready \union {idle_proc}
      BY <1>2, <1>5, <2>1, <2>2
    <3> QED BY <1>4, <1>6, <1>8, <3>1
  <2>3. ASSUME NotStarted(p) PROVE NotStarted(p)'
    BY <1>2, <1>4, <1>5, <2>1, <2>3
  <2> QED BY <2>2, <2>3
<1> QED BY <1>7, <1>8

(* Wait that sleeps, Delay and preemption: nothing to be seen.             *)
LEMMA LeavingIsQuiet ==
  ASSUME Before, Wakeup, ClearLives, ClearLives', Placement', Sane',
         WaitBlocks \/ ClockSwitches \/ \E n \in Int : DelayBlocks(n)
  PROVE  Lifecycle!Quiet
<1>1. \E ready, label :
        /\ Leaves(ready, label) /\ label # "fork" /\ Ready \subseteq ready
        /\ ready \subseteq Ready \union {current_process} \union Asleep
  <2>1. \/ Leaves(Ready, "wait") \/ Leaves(Ready, "clock")
        \/ Leaves(Ready \union {current_process}, "clock")
        \/ Leaves(Ready, "delay")
    BY WaitBlocksLeaves, ClockLeaves, DelayLeaves
  <2>2. /\ "wait" # "fork" /\ "clock" # "fork" /\ "delay" # "fork"
        /\ Ready \subseteq Ready \union {current_process}
        /\ Ready \union {current_process}
             \subseteq Ready \union {current_process} \union Asleep
        /\ Ready \subseteq Ready \union {current_process} \union Asleep
    OBVIOUS
  <2> QED BY <2>1, <2>2, Zenon
<1>2. /\ UNCHANGED Zombies /\ reply' = NoReply /\ kpc # "resume"
      /\ \A p \in PCB : pcb'[p].exit = pcb[p].exit
  <2>1. /\ UNCHANGED Zombies /\ reply' = NoReply
        /\ \A p \in PCB : pcb'[p].exit = pcb[p].exit
    BY WaitBlocksLeaves, ClockLeaves, DelayLeaves
  <2>2. kpc # "resume"
    BY DEF WaitBlocks, ClockSwitches, DelayBlocks, UserTrap, InUser
  <2> QED BY <2>1, <2>2
<1>3. PICK ready, label :
        /\ Leaves(ready, label) /\ label # "fork" /\ Ready \subseteq ready
        /\ ready \subseteq Ready \union {current_process} \union Asleep
  BY <1>1
<1>4. \A p \in PCB : NotStarted(p)' <=> NotStarted(p)
  BY <1>2, <1>3, LeavesStarts
<1>5. UNCHANGED <<Live, freed>> /\ SameFields
  BY <1>2, <1>3 DEF Leaves, Live, SameFields
<1> QED BY <1>2, <1>4, <1>5, NobodyMoves DEF Lifecycle!Quiet

(* A caller that is in user mode or in the kernel, but not in Fork, lives. *)
LEMMA CallerIsAlive ==
  ASSUME Before, ClearLives,
         kpc # "resume" \/ pcb[current_process].kctx # "fork"
  PROVE  LifeOf(current_process) = "alive"
<1>1. ~NotStarted(current_process)
  BY Apart DEF NotStarted, Ready
<1> QED BY <1>1, Apart DEF ClearLives

(* Exit: the caller dies.                                                  *)
LEMMA ExitIsDeath ==
  ASSUME Before, Wakeup, ClearLives, ClearLives', Placement', Sane',
         NEW status \in Int, NEW label \in {"exit", "killed"}, UserTrap,
         current_process # init_proc,
         zombie_queue' = queueEnqueue(zombie_queue, current_process),
         ExitWake(status, label) \/ ExitQuietly(status, label),
         UNCHANGED <<blocked_queue, proc_table, freed>>
  PROVE  \E p \in PCB : Lifecycle!Die(p)
<1> DEFINE parent == pcb[current_process].parent
<1>1. /\ Zombies' = Zombies \union {current_process}
      /\ \/ parent \notin Asleep /\ Leaves(Ready, label)
         \/ parent \in Asleep /\ Leaves(Ready \union {parent}, label)
  BY ExitLeaves
<1>2. /\ kpc # "resume" /\ current_process # idle_proc
      /\ label # "fork" /\ reply' = NoReply
  BY DEF UserTrap, InUser, ExitWake, ExitQuietly, SwitchToNext, KCSwitch
<1> HIDE DEF parent
<1>3. /\ \A p \in PCB : NotStarted(p)' <=> NotStarted(p)
      /\ UNCHANGED <<Live, freed>>
      /\ \A p \in PCB : /\ pcb'[p].ppid = pcb[p].ppid
                        /\ p # current_process => pcb'[p].exit = pcb[p].exit
  <2>1. CASE Leaves(Ready, label)
    <3>1. Ready \subseteq Ready \union {current_process} \union Asleep
      OBVIOUS
    <3>2. \A p \in PCB : NotStarted(p)' <=> NotStarted(p)
      BY <1>2, <2>1, <3>1, LeavesStarts
    <3> QED BY <2>1, <3>2 DEF Leaves, Live
  <2>2. CASE parent \in Asleep /\ Leaves(Ready \union {parent}, label)
    <3>1. /\ Ready \subseteq Ready \union {parent}
          /\ Ready \union {parent} \subseteq
               Ready \union {current_process} \union Asleep
      BY <2>2
    <3>2. \A p \in PCB : NotStarted(p)' <=> NotStarted(p)
      BY <1>2, <2>2, <3>1, LeavesStarts
    <3> QED BY <2>2, <3>2 DEF Leaves, Live
  <2> QED BY <1>1, <2>1, <2>2
<1>4. LifeOf(current_process) = "alive"
  BY <1>2, CallerIsAlive
<1>5. \A p \in PCB : LifeOf(p)' = IF p = current_process THEN "dead" ELSE LifeOf(p)
  <2> SUFFICES ASSUME NEW p \in PCB
               PROVE  LifeOf(p)' = IF p = current_process THEN "dead" ELSE LifeOf(p)
    OBVIOUS
  <2>1. CASE p = current_process
    BY <1>1, <2>1 DEF ClearLives
  <2>2. CASE p # current_process
    <3>1. LifeOf(p)' = LifeOf(p)
      BY <1>1, <1>3, <2>2, LivesOn
    <3> QED BY <2>2, <3>1
  <2> QED BY <2>1, <2>2
<1>6. PICK c \in PCB : c = current_process
  BY Apart
<1>7. /\ [p \in PCB |-> LifeOf(p)]' =
           [[p \in PCB |-> LifeOf(p)] EXCEPT ![c] = "dead"]
      /\ [p \in PCB |-> pcb[p].ppid]' = [p \in PCB |-> pcb[p].ppid]
      /\ [p \in PCB |-> pcb[p].exit]' =
           [[p \in PCB |-> pcb[p].exit] EXCEPT
              ![c] = [p \in PCB |-> pcb[p].exit]'[c]]
  BY <1>3, <1>5, <1>6
<1>8. Lifecycle!Die(c)
  BY <1>2, <1>4, <1>6, <1>7 DEF Lifecycle!Die
<1> QED BY <1>6, <1>8


(* Fork: a process is spawned.                                             *)
LEMMA ForkIsSpawn ==
  ASSUME Before, Wakeup, ClearLives, ClearLives', Fork
  PROVE  \E p, c \in PCB : Lifecycle!Spawn(p, c)
<1>1. PICK c \in PCB, p \in PCB : c = proc_table /\ p = current_process
  BY ForkEffect, Apart
<1>2. /\ c \notin Live /\ c \notin freed /\ c # p /\ c \notin Zombies
      /\ Live' = Live \union {c} /\ UNCHANGED <<freed, Zombies>>
      /\ kpc = "user" /\ kpc' = "user" /\ Ready' = Ready \union {c}
      /\ reply' = Reply("Fork", c, 0)
      /\ UNCHANGED current_process
  BY <1>1, ForkEffect, Apart
<1>3. /\ pcb'[c].ppid = p /\ pcb'[c].kctx = "fork" /\ pcb'[c].exit = 0
      /\ \A q \in PCB \ {c} : /\ pcb'[q].ppid = pcb[q].ppid
                              /\ pcb'[q].kctx = pcb[q].kctx
                              /\ pcb'[q].exit = pcb[q].exit
  BY <1>1, ForkEffect
<1>4. pcb[c].exit = 0
  <2>1. pcb[c] = allocNewPCB
    BY <1>1, Apart DEF Wakeup, Kin
  <2> QED BY <2>1 DEF allocNewPCB
<1>5. LifeOf(p) = "alive" /\ LifeOf(c) = "unborn"
  BY <1>1, <1>2, CallerIsAlive DEF ClearLives
<1>6. \A q \in PCB : LifeOf(q)' = IF q = c THEN "new" ELSE LifeOf(q)
  <2> SUFFICES ASSUME NEW q \in PCB
               PROVE  LifeOf(q)' = IF q = c THEN "new" ELSE LifeOf(q)
    OBVIOUS
  <2>1. CASE q = c
    <3>1. NotStarted(q)' /\ q \in Live' /\ q \notin Zombies'
      BY <1>2, <1>3, <2>1 DEF NotStarted, Ready
    <3> QED BY <2>1, <3>1 DEF ClearLives
  <2>2. CASE q # c
    <3>1. NotStarted(q)' <=> NotStarted(q)
      BY <1>2, <1>3, <2>2 DEF NotStarted, Ready
    <3>2. LifeOf(q)' = LifeOf(q)
      BY <1>2, <2>2, <3>1, LivesOn
    <3> QED BY <2>2, <3>2
  <2> QED BY <2>1, <2>2
<1>7. /\ [q \in PCB |-> LifeOf(q)]' = [[q \in PCB |-> LifeOf(q)] EXCEPT ![c] = "new"]
      /\ [q \in PCB |-> pcb[q].ppid]' = [[q \in PCB |-> pcb[q].ppid] EXCEPT ![c] = p]
      /\ [q \in PCB |-> pcb[q].exit]' = [q \in PCB |-> pcb[q].exit]
  BY <1>3, <1>4, <1>6
<1>8. Lifecycle!Spawn(p, c)
  BY <1>1, <1>2, <1>5, <1>7 DEF Lifecycle!Spawn, Lifecycle!Answer, Reply
<1> QED BY <1>8

(* The child's return from Fork: it begins to run.                         *)
LEMMA ForkChildIsBegin ==
  ASSUME Before, ClearLives, ClearLives', ForkChild
  PROVE  \E c \in PCB : Lifecycle!Begin(c)
<1>1. PICK c \in PCB : c = current_process
  BY Apart
<1>2. /\ kpc = "resume" /\ kpc' = "user" /\ pcb[c].kctx = "fork"
      /\ UNCHANGED <<Live, Ready, Zombies, freed, current_process>>
      /\ c \in Live /\ c \notin Zombies /\ c \notin Ready
      /\ reply' = Reply("Fork", 0, 0)
  BY <1>1, ForkChildEffect, Apart
<1>3. SameFields /\ \A p \in PCB : pcb'[p].kctx = pcb[p].kctx
  BY ForkChildEffect DEF SameFields
<1>4. NotStarted(c) /\ ~NotStarted(c)'
  BY <1>1, <1>2, <1>3 DEF NotStarted, Ready
<1>5. \A p \in PCB : LifeOf(p)' = IF p = c THEN "alive" ELSE LifeOf(p)
  <2> SUFFICES ASSUME NEW p \in PCB
               PROVE  LifeOf(p)' = IF p = c THEN "alive" ELSE LifeOf(p)
    OBVIOUS
  <2>1. CASE p = c
    BY <1>2, <1>4, <2>1 DEF ClearLives
  <2>2. CASE p # c
    <3>1. NotStarted(p)' <=> NotStarted(p)
      BY <1>1, <1>2, <1>3, <2>2 DEF NotStarted, Ready
    <3>2. LifeOf(p)' = LifeOf(p)
      BY <1>2, <3>1, LivesOn
    <3> QED BY <2>2, <3>2
  <2> QED BY <2>1, <2>2
<1>6. LifeOf(c) = "new"
  BY <1>2, <1>4 DEF ClearLives
<1>7. /\ [p \in PCB |-> LifeOf(p)]' = [[p \in PCB |-> LifeOf(p)] EXCEPT ![c] = "alive"]
      /\ [p \in PCB |-> pcb[p].ppid]' = [p \in PCB |-> pcb[p].ppid]
      /\ [p \in PCB |-> pcb[p].exit]' = [p \in PCB |-> pcb[p].exit]
  BY <1>3, <1>5 DEF SameFields
<1>8. Lifecycle!Begin(c)
  BY <1>1, <1>2, <1>6, <1>7 DEF Lifecycle!Begin, Lifecycle!Answer, Reply
<1> QED BY <1>8

(* The exit of init: the machine ends.                                     *)
LEMMA ExitInitIsShutdown ==
  ASSUME Before, ClearLives, ClearLives', UserTrap,
         current_process = init_proc, ExitInit
  PROVE  Lifecycle!Shutdown
<1>1. /\ freed' = freed \union {init_proc} /\ Live' = Live \ {init_proc}
      /\ UNCHANGED <<kpc, Ready, Zombies, current_process>>
      /\ reply' = NoReply /\ kpc = "user"
  BY ExitInitEffect DEF UserTrap, InUser
<1>2. SameFields /\ \A p \in PCB : pcb'[p].kctx = pcb[p].kctx
  BY ExitInitEffect DEF SameFields
<1>3. LifeOf(init_proc) = "alive"
  BY <1>1, CallerIsAlive
<1>4. \A p \in PCB : LifeOf(p)' = IF p = init_proc THEN "reaped" ELSE LifeOf(p)
  <2> SUFFICES ASSUME NEW p \in PCB
               PROVE  LifeOf(p)' = IF p = init_proc THEN "reaped" ELSE LifeOf(p)
    OBVIOUS
  <2>1. CASE p = init_proc
    BY <1>1, <2>1 DEF ClearLives
  <2>2. CASE p # init_proc
    <3>1. NotStarted(p)' <=> NotStarted(p)
      BY <1>1, <1>2 DEF NotStarted, Ready
    <3>2. LifeOf(p)' = LifeOf(p)
      BY <1>1, <2>2, <3>1, LivesOn
    <3> QED BY <2>2, <3>2
  <2> QED BY <2>1, <2>2
<1>5. /\ [p \in PCB |-> LifeOf(p)]' =
           [[p \in PCB |-> LifeOf(p)] EXCEPT ![init_proc] = "reaped"]
      /\ [p \in PCB |-> pcb[p].ppid]' = [p \in PCB |-> pcb[p].ppid]
      /\ [p \in PCB |-> pcb[p].exit]' = [p \in PCB |-> pcb[p].exit]
  BY <1>2, <1>4, ConstantFacts DEF SameFields
<1> QED BY <1>1, <1>3, <1>5, ConstantFacts DEF Lifecycle!Shutdown

(* Wait that finds a zombie: it reaps the caller's own dead child.         *)
LEMMA ReapIsReap ==
  ASSUME Before, Wakeup, ClearLives, ClearLives',
         UserTrap \/ Resumes("wait"),
         ZombieOf(current_process) # NULL, Reap(ZombieOf(current_process))
  PROVE  \E p, c \in PCB : Lifecycle!Reap(p, c)
<1>1. PICK p \in PCB : p = current_process
  BY Apart
<1>2. PICK c \in Zombies :
        /\ pcb[c].ppid = p
        /\ freed' = freed \union {c} /\ Live' = Live \ {c}
        /\ Zombies' = Zombies \ {c} /\ kpc' = "user"
        /\ UNCHANGED <<Ready, current_process>>
        /\ reply' = Reply("Wait", c, pcb[c].exit)
        /\ \A q \in PCB : /\ pcb'[q].ppid = pcb[q].ppid
                          /\ pcb'[q].kctx = pcb[q].kctx
                          /\ pcb'[q].exit = pcb[q].exit
  BY <1>1, ReapEffect
<1>3. c \in PCB /\ LifeOf(c) = "dead"
  BY Apart DEF ClearLives
<1>4. LifeOf(p) = "alive" /\ ~NotStarted(p)
  <2>1. kpc # "resume" \/ pcb[current_process].kctx # "fork"
    BY DEF UserTrap, InUser, Resumes
  <2> QED BY <1>1, <2>1, CallerIsAlive, Apart DEF NotStarted, Ready
<1>5. \A q \in PCB : LifeOf(q)' = IF q = c THEN "reaped" ELSE LifeOf(q)
  <2> SUFFICES ASSUME NEW q \in PCB
               PROVE  LifeOf(q)' = IF q = c THEN "reaped" ELSE LifeOf(q)
    OBVIOUS
  <2>1. CASE q = c
    BY <1>2, <2>1 DEF ClearLives
  <2>2. CASE q # c
    <3>1. NotStarted(q)' <=> NotStarted(q)
      BY <1>1, <1>2, <1>4 DEF NotStarted, Ready
    <3>2. LifeOf(q)' = LifeOf(q)
      BY <1>2, <2>2, <3>1, LivesOn
    <3> QED BY <2>2, <3>2
  <2> QED BY <2>1, <2>2
<1>6. /\ [q \in PCB |-> LifeOf(q)]' = [[q \in PCB |-> LifeOf(q)] EXCEPT ![c] = "reaped"]
      /\ [q \in PCB |-> pcb[q].ppid]' = [q \in PCB |-> pcb[q].ppid]
      /\ [q \in PCB |-> pcb[q].exit]' = [q \in PCB |-> pcb[q].exit]
  BY <1>2, <1>3, <1>5
<1>7. Lifecycle!Reap(p, c)
  BY <1>1, <1>2, <1>3, <1>4, <1>6 DEF Lifecycle!Reap, Lifecycle!Answer, Reply
<1> QED BY <1>3, <1>7


(* The steps that leave the processes as they are.                         *)
LEMMA StayingPut ==
  ASSUME ClearLives, ClearLives',
         UNCHANGED <<current_process, ready_queue, zombie_queue, proc_table,
                     pcb, freed>>,
         \/ kpc' = kpc
         \/ /\ kpc' # "resume"
            /\ kpc = "resume" => pcb[current_process].kctx # "fork"
  PROVE  /\ UNCHANGED [p \in PCB |-> LifeOf(p)]
         /\ UNCHANGED [p \in PCB |-> pcb[p].ppid]
         /\ UNCHANGED [p \in PCB |-> pcb[p].exit]
<1>1. /\ UNCHANGED <<Live, Zombies, freed>> /\ SameFields
      /\ \A p \in PCB : NotStarted(p)' <=> NotStarted(p)
  BY DEF Live, Zombies, SameFields, NotStarted
<1> QED BY <1>1, NobodyMoves

(* Wait without children: there is nothing left to reap.                   *)
LEMMA NoChildrenNoReap ==
  ASSUME Before, Wakeup, ClearLives, ClearLives', WaitNoChildren
  PROVE  \E p \in PCB : Lifecycle!NothingToReap(p)
<1>1. PICK p \in PCB : p = current_process
  BY Apart
<1>2. /\ kpc = "user" /\ kpc' = "user" /\ reply' = Reply("Wait", ERROR, 0)
      /\ UNCHANGED <<current_process, ready_queue, zombie_queue, proc_table,
                     pcb, freed>>
      /\ is_empty(pcb[p].children)
  BY <1>1 DEF WaitNoChildren, WaitFails, Return, UserTrap, InUser
<1>3. ASSUME NEW c \in PCB, pcb[c].ppid = p PROVE LifeOf(c) = "reaped"
  <2>1. Children(p) = {}
    BY <1>2 DEF Children, ToSet, is_empty
  <2>2. p \in Live /\ p \notin freed
    BY <1>1, Apart DEF Live
  <2>3. c \notin Live
    BY <1>3, <2>1, <2>2 DEF Wakeup, Kin
  <2>4. c < proc_table
    <3>1. c >= proc_table => pcb[c].ppid = -1
      BY DEF Wakeup, Kin, allocNewPCB, INVALID_PID
    <3>2. p # -1
      BY <1>1, ConstantFacts DEF NULL
    <3> QED BY <1>3, <3>1, <3>2, Apart, ConstantFacts
  <2>5. c \in freed
    BY <2>3, <2>4 DEF Live
  <2> QED BY <2>5 DEF ClearLives
<1>4. LifeOf(p) = "alive"
  BY <1>1, <1>2, CallerIsAlive
<1>5. /\ UNCHANGED [q \in PCB |-> LifeOf(q)]
      /\ UNCHANGED [q \in PCB |-> pcb[q].ppid]
      /\ UNCHANGED [q \in PCB |-> pcb[q].exit]
  BY <1>2, StayingPut
<1>6. Lifecycle!NothingToReap(p)
  BY <1>1, <1>2, <1>3, <1>4, <1>5
  DEF Lifecycle!NothingToReap, Lifecycle!Answer, Reply, ERROR
<1> QED BY <1>6

(* Delay that returns, and GetPid.                                         *)
LEMMA OtherCalls ==
  ASSUME Before, ClearLives, ClearLives',
         GetPid \/ DelayResumes \/ \E n \in Ticks : DelayZero(n)
  PROVE  \E p \in PCB : Lifecycle!Other(p)
<1>1. PICK p \in PCB : p = current_process
  BY Apart
<1>2. /\ reply' \in {Reply("Delay", SUCCESS, 0), Reply("GetPid", p, 0)}
      /\ UNCHANGED <<current_process, ready_queue, zombie_queue, proc_table,
                     pcb, freed>>
      /\ kpc' = "user" /\ (kpc = "user" \/ pcb[current_process].kctx # "fork")
  BY <1>1 DEF GetPid, DelayResumes, DelayZero, Return, UserTrap, InUser, Resumes
<1>3. LifeOf(p) = "alive"
  BY <1>1, <1>2, CallerIsAlive
<1>4. /\ UNCHANGED [q \in PCB |-> LifeOf(q)]
      /\ UNCHANGED [q \in PCB |-> pcb[q].ppid]
      /\ UNCHANGED [q \in PCB |-> pcb[q].exit]
  BY <1>2, StayingPut
<1>5. Lifecycle!Other(p)
  BY <1>1, <1>2, <1>3, <1>4 DEF Lifecycle!Other, Lifecycle!Answer, Reply, SUCCESS
<1> QED BY <1>5

(* Halts, the growth of the stack and the start of a clock trap.           *)
LEMMA QuietSteps ==
  ASSUME Before, ClearLives, ClearLives',
         Halt \/ StackGrows \/ ClockTrapHandler
  PROVE  Lifecycle!Quiet
<1>1. /\ reply' = NoReply
      /\ UNCHANGED <<current_process, ready_queue, zombie_queue, proc_table,
                     pcb, freed>>
      /\ kpc' = kpc \/ (kpc' # "resume" /\ kpc # "resume")
  BY DEF Halt, StackGrows, ClockTrapHandler, InUser
<1>2. /\ UNCHANGED [q \in PCB |-> LifeOf(q)]
      /\ UNCHANGED [q \in PCB |-> pcb[q].ppid]
      /\ UNCHANGED [q \in PCB |-> pcb[q].exit]
  BY <1>1, StayingPut
<1> QED BY <1>1, <1>2 DEF Lifecycle!Quiet

(* The rest of the clock trap is invisible, but for a context switch.      *)
LEMMA ClockIsInvisible ==
  ASSUME Before, Wakeup, ClearLives, ClearLives', Sane, Sane',
         trapHandlerHelper \/ ClockReturns \/ ClockResumes
  PROVE  UNCHANGED Lifecycle!vars
<1>1. CASE trapHandlerHelper
  <2>1. /\ kpc = "iterate" /\ UNCHANGED <<kpc, Live, Zombies, freed, reply>>
        /\ \/ UNCHANGED Ready
           \/ \E p \in Blocked : Ready' = Ready \union {p}
    BY <1>1, TickEffect
  <2>2. SameFields /\ \A p \in PCB : pcb'[p].kctx = pcb[p].kctx
    BY <1>1, TickEffect DEF SameFields
  <2>3. \A p \in Blocked : pcb[p].kctx = "delay"
    BY DEF Wakeup, Contexts
  <2>4. \A p \in PCB : NotStarted(p)' <=> NotStarted(p)
    BY <2>1, <2>2, <2>3 DEF NotStarted, Ready
  <2>5. /\ UNCHANGED [p \in PCB |-> LifeOf(p)]
        /\ UNCHANGED [p \in PCB |-> pcb[p].ppid]
        /\ UNCHANGED [p \in PCB |-> pcb[p].exit]
    BY <2>1, <2>2, <2>4, NobodyMoves
  <2> QED BY <2>1, <2>5 DEF Lifecycle!vars
<1>2. CASE ClockReturns \/ ClockResumes
  <2>1. /\ UNCHANGED <<current_process, ready_queue, zombie_queue, proc_table,
                       pcb, freed, reply>>
        /\ kpc' = "user"
        /\ kpc = "resume" => pcb[current_process].kctx # "fork"
    BY <1>2 DEF ClockReturns, ClockResumes, Resumes
  <2>2. /\ UNCHANGED [p \in PCB |-> LifeOf(p)]
        /\ UNCHANGED [p \in PCB |-> pcb[p].ppid]
        /\ UNCHANGED [p \in PCB |-> pcb[p].exit]
    BY <2>1, StayingPut
  <2> QED BY <2>1, <2>2 DEF Lifecycle!vars
<1> QED BY <1>1, <1>2

-----------------------------------------------------------------------------
(* Every step that commits no fault is a promised one, or is not seen.     *)
LEMMA StepIsPromised ==
  ASSUME WakeupInv, ProcNext, Sane'
  PROVE  Lifecycle!Promised \/ UNCHANGED Lifecycle!vars
<1>1. Sane
  BY FaultsGrow DEF Sane
<1>2. Before /\ Wakeup
  BY <1>1, FaultsGrow DEF Before, WakeupInv, PlacementInv
<1>3. ASSUME Undefined PROVE FALSE
  BY <1>3 DEF Undefined, Sane
<1>4. TypeOK' /\ Placement'
  BY ProcNextPlaces, ProcNextType DEF WakeupInv, PlacementInv
<1>5. ClearLives /\ ClearLives'
  <2>1. ClearLives
    BY <1>2, LivesAreClear DEF Before
  <2>2. ClearLives'
    BY <1>4, LivesAreClear, PTL
  <2> QED BY <2>1, <2>2
<1>6. CASE ExitSyscall \/ MemoryTrapHandler \/ FatalTrapHandler
  <2>1. /\ UserTrap
        /\ \E status \in Statuses \union {ERROR}, label \in {"exit", "killed"} :
             Exit(status, label)
    BY <1>6, Zenon DEF ExitSyscall, MemoryTrapHandler, FatalTrapHandler
  <2>2. PICK status \in Statuses \union {ERROR}, label \in {"exit", "killed"} :
          Exit(status, label)
    BY <2>1
  <2>3. status \in Int
    BY ArgumentsAssumption DEF ERROR
  <2>4. CASE current_process = init_proc /\ ExitInit
    BY <1>2, <1>5, <2>1, <2>4, ExitInitIsShutdown DEF Lifecycle!Promised
  <2>5. CASE Undefined
    BY <1>3, <2>5
  <2>6. CASE /\ current_process # init_proc
             /\ zombie_queue' = queueEnqueue(zombie_queue, current_process)
             /\ ExitWake(status, label) \/ ExitQuietly(status, label)
             /\ UNCHANGED <<blocked_queue, proc_table, freed, iter>>
    <3>1. \E p \in PCB : Lifecycle!Die(p)
      BY <1>2, <1>4, <1>5, <2>1, <2>3, <2>6, ExitIsDeath
    <3> QED BY <3>1 DEF Lifecycle!Promised
  <2> QED BY <2>2, <2>4, <2>5, <2>6 DEF Exit
<1>7. CASE WaitBlocks \/ ClockSwitches \/ \E n \in Ticks : DelayBlocks(n)
  <2>1. WaitBlocks \/ ClockSwitches \/ \E n \in Int : DelayBlocks(n)
    BY <1>7, ArgumentsAssumption
  <2> QED BY <1>2, <1>4, <1>5, <2>1, LeavingIsQuiet DEF Lifecycle!Promised
<1>8. CASE \/ ForkTableFull \/ ForkNoFrames \/ FatalTrapReturns \/ StackGrows
           \/ ClockTrapHandler \/ \E n \in Ticks : DelayHalts(n)
  <2>1. Halt \/ StackGrows \/ ClockTrapHandler
    BY <1>8 DEF ForkTableFull, ForkNoFrames, FatalTrapReturns, DelayHalts
  <2> QED BY <1>2, <1>5, <2>1, QuietSteps DEF Lifecycle!Promised
<1>9. CASE ForkChildUndefined \/ TickUndefined \/ WaitUndefined
  BY <1>3, <1>9 DEF ForkChildUndefined, TickUndefined, WaitUndefined
<1>10. CASE Fork
  <2>1. \E p, c \in PCB : Lifecycle!Spawn(p, c)
    BY <1>2, <1>5, <1>10, ForkIsSpawn
  <2> QED BY <2>1 DEF Lifecycle!Promised
<1>11. CASE ForkChild
  <2>1. \E p \in PCB : Lifecycle!Begin(p)
    BY <1>2, <1>5, <1>11, ForkChildIsBegin
  <2> QED BY <2>1 DEF Lifecycle!Promised
<1>12. CASE WaitReaps \/ WaitResumes
  <2>1. /\ UserTrap \/ Resumes("wait")
        /\ ZombieOf(current_process) # NULL /\ Reap(ZombieOf(current_process))
    <3>1. CASE WaitReaps
      BY <3>1 DEF WaitReaps
    <3>2. CASE WaitResumes
      <4>1. ZombieOf(current_process) # NULL
        BY <1>1, <1>2, <3>2, Apart, WakeupImplies
        DEF WaitResumes, Resumes, WokenWaiterReaps
      <4> QED BY <3>2, <4>1 DEF WaitResumes
    <3> QED BY <1>12, <3>1, <3>2
  <2>2. \E p, c \in PCB : Lifecycle!Reap(p, c)
    BY <1>2, <1>5, <2>1, ReapIsReap
  <2> QED BY <2>2 DEF Lifecycle!Promised
<1>13. CASE WaitNoChildren
  <2>1. \E p \in PCB : Lifecycle!NothingToReap(p)
    BY <1>2, <1>5, <1>13, NoChildrenNoReap
  <2> QED BY <2>1 DEF Lifecycle!Promised
<1>14. CASE GetPid \/ DelayResumes \/ \E n \in Ticks : DelayZero(n)
  <2>1. \E p \in PCB : Lifecycle!Other(p)
    BY <1>2, <1>5, <1>14, OtherCalls
  <2> QED BY <2>1 DEF Lifecycle!Promised
<1>15. CASE ExitReturns
  <2>1. Resumable(current_process) /\ pcb[current_process].kctx = "exit"
    BY <1>15 DEF ExitReturns, Resumes, Resumable
  <2> QED BY <1>2, <2>1, Apart DEF Wakeup, Contexts
<1>16. CASE trapHandlerHelper \/ ClockReturns \/ ClockResumes
  BY <1>1, <1>2, <1>5, <1>16, ClockIsInvisible
<1> QED BY <1>6, <1>7, <1>8, <1>9, <1>10, <1>11, <1>12, <1>13, <1>14, <1>15,
           <1>16 DEF ProcNext, Syscall, Fault, KernelStep

(* One step of the kernel is one step of the life cycle, or none.          *)
LEMMA RefinementStep ==
  WakeupInv /\ [Next]_procVars => [Lifecycle!Next]_(Lifecycle!vars)
<1> SUFFICES ASSUME WakeupInv, [Next]_procVars
             PROVE  Lifecycle!Next \/ UNCHANGED Lifecycle!vars
  OBVIOUS
<1>1. CASE UNCHANGED procVars
  BY <1>1 DEF procVars, Lifecycle!vars, LifeOf, NotStarted, Sane
<1>2. CASE ProcNext /\ Sane'
  <2>1. Sane
    BY <1>2, FaultsGrow DEF Sane
  <2>2. Lifecycle!Promised \/ UNCHANGED Lifecycle!vars
    BY <1>2, StepIsPromised
  <2> QED BY <1>2, <2>1, <2>2 DEF Lifecycle!Next
<1>3. CASE ~Sane'
  BY <1>3 DEF Lifecycle!Next
<1> QED BY <1>1, <1>2, <1>3 DEF Next, Stopped

(* Whatever the number of processes: until the kernel is corrupted, user   *)
(* programs cannot tell the kernel from ProcessLifecycle.  A child is      *)
(* reaped once and by its parent, with the status it passed to Exit;       *)
(* nobody lives again or is reaped alive; Wait fails only for a process    *)
(* all of whose children were reaped; nobody returns from Exit.            *)
THEOREM KernelImplementsLifecycle == Spec => ImplementsLifecycle
<1>1. Spec => Lifecycle!Init
  BY RefinementInit DEF Spec
<1>2. Spec => [][Lifecycle!Next]_(Lifecycle!vars)
  BY WakeupInductive, RefinementStep, PTL DEF Spec
<1> QED BY <1>1, <1>2 DEF ImplementsLifecycle, Lifecycle!Spec
=============================================================================
