--------------------------- MODULE SchedulerProofs ---------------------------
(***************************************************************************)
(* Theorems about Scheduler, for any number of frames, slots and pids and  *)
(* any shape of an address space.                                          *)
(***************************************************************************)
EXTENDS Scheduler, WellFoundedInduction, TLAPS

\* A pid is still in hand while a spawn is under way.
PidInHand == op \in {"mapping", "kstack", "publish"} => nextPid <= MaxPid

\* The inductive type invariant.
TypeInv == TypeOK /\ PidInHand

-----------------------------------------------------------------------------
(* What an allocation and a switch do to the types *)

\* A run that next fit returns lies within the free frames, and the cursor
\* after it within the bitmap.
LEMMA AllocFacts ==
  ASSUME NEW count \in Nat \ {0}, NEW base \in Frame,
         free \in SUBSET Frame, Alloc(count, base)
  PROVE  /\ Block(base, count) \subseteq free
         /\ Block(base, count) # {}
         /\ free' = free \ Block(base, count)
         /\ free' \in SUBSET Frame
         /\ cursor' \in 0 .. NFrames
<1>1. /\ Block(base, count) \subseteq free
      /\ free' = free \ Block(base, count)
      /\ cursor' = base + count
  BY DEF Alloc, IsNextFit, Runs
<1>2. base + count - 1 \in Block(base, count)
  BY NFramesAssumption DEF Block, Frame
<1>3. base + count - 1 \in Frame
  BY <1>1, <1>2
<1>4. base + count \in 0 .. NFrames
  BY <1>3, NFramesAssumption DEF Frame
<1>5. QED
  BY <1>1, <1>2, <1>4

\* The block of one frame.
LEMMA OneFrame == ASSUME NEW base \in Frame PROVE Block(base, 1) = {base}
  BY NFramesAssumption DEF Block, Frame

\* Switching keeps the table and the core's view of it well typed.
LEMMA SwitchType ==
  ASSUME TypeOK, NEW next \in Slot, NEW left \in States, SwitchTo(next, left)
  PROVE  /\ slots' \in [Slot -> TaskRecord]
         /\ current' \in Slot
         /\ cpu' \in [kstack : SUBSET Frame, space : SUBSET Frame]
  BY DEF TypeOK, SwitchTo, TaskRecord, States

LEMMA YieldType ==
  ASSUME TypeOK, YieldNow
  PROVE  /\ slots' \in [Slot -> TaskRecord]
         /\ current' \in Slot
         /\ cpu' \in [kstack : SUBSET Frame, space : SUBSET Frame]
<1>1. CASE UNCHANGED <<slots, current, cpu>>
  BY <1>1 DEF TypeOK
<1>2. ASSUME NEW next \in Slot,
             SwitchTo(next, IF slots[current].state = "running"
                            THEN "ready" ELSE slots[current].state)
      PROVE  /\ slots' \in [Slot -> TaskRecord]
             /\ current' \in Slot
             /\ cpu' \in [kstack : SUBSET Frame, space : SUBSET Frame]
  <2>1. (IF slots[current].state = "running"
         THEN "ready" ELSE slots[current].state) \in States
    BY DEF TypeOK, TaskRecord, States
  <2>2. QED
    BY <1>2, <2>1, SwitchType
<1>3. QED
  BY <1>1, <1>2 DEF YieldNow

-----------------------------------------------------------------------------
(* Type correctness *)

LEMMA TypeInit == Init => TypeInv
<1> SUFFICES ASSUME Init PROVE TypeInv
  OBVIOUS
<1> USE SchedulerAssumption, NFramesAssumption
<1>1. NoTask \in TaskRecord
  BY DEF NoTask, TaskRecord, States
<1>2. KernelTask \in TaskRecord
  BY DEF KernelTask, TaskRecord, States
<1>3. slots \in [Slot -> TaskRecord]
  BY <1>1, <1>2 DEF Init
<1>4. nextPid \in 2 .. MaxPid + 1 /\ step \in 1 .. PlanLen + 1
  BY DEF Init
<1>5. cursor \in 0 .. NFrames /\ current \in Slot
  BY DEF Init, Slot
<1>6. /\ cpu \in [kstack : SUBSET Frame, space : SUBSET Frame]
      /\ free \in SUBSET Frame
  BY DEF Init
<1>7. QED
  BY <1>3, <1>4, <1>5, <1>6 DEF Init, TypeInv, TypeOK, PidInHand, Modes, Ops

LEMMA TypeStep == TypeInv /\ [Next]_vars => TypeInv'
<1> SUFFICES ASSUME TypeOK, PidInHand, [Next]_vars
             PROVE  TypeOK' /\ PidInHand'
  BY DEF TypeInv
<1> USE SchedulerAssumption, NFramesAssumption
        DEF schedVars, frameVars, opVars, Modes, Ops
<1>1. CASE Yield
  BY <1>1, YieldType DEF Yield, TypeOK, PidInHand
<1>2. CASE EnablePreemption
  BY <1>2 DEF EnablePreemption, TypeOK, PidInHand
<1>3. CASE TimerIrq
  BY <1>3 DEF TimerIrq, TypeOK, PidInHand
<1>4. CASE IrqTail
  BY <1>4, YieldType DEF IrqTail, TypeOK, PidInHand
<1>5. CASE Exit
  BY <1>5 DEF Exit, TypeOK, PidInHand, TaskRecord, States
<1>6. CASE ExitSwitch
  <2>1. slots[current].state \in States
    BY DEF TypeOK, TaskRecord
  <2>2. QED
    BY <1>6, <2>1, SwitchType DEF ExitSwitch, TypeOK, PidInHand
<1>7. CASE SpawnUser
  BY <1>7 DEF SpawnUser, InKernelTask, RoomForTask, TypeOK, PidInHand
<1>8. CASE SpawnKernel
  BY <1>8 DEF SpawnKernel, InKernelTask, RoomForTask, TypeOK, PidInHand
<1>9. CASE MapFrame
  <2>1. PICK base \in Frame : Alloc(1, base) /\ space' = space \cup {base}
    BY <1>9 DEF MapFrame
  <2>2. free' \in SUBSET Frame /\ cursor' \in 0 .. NFrames
    BY <2>1, AllocFacts DEF TypeOK
  <2>3. QED
    BY <1>9, <2>1, <2>2 DEF MapFrame, InKernelTask, TypeOK, PidInHand
<1>10. CASE SpaceBuilt
  BY <1>10 DEF SpaceBuilt, InKernelTask, TypeOK, PidInHand
<1>11. CASE AllocStack
  <2>1. PICK base \in Frame : /\ Alloc(KSTACK_FRAMES, base)
                              /\ stack' = Block(base, KSTACK_FRAMES)
    BY <1>11 DEF AllocStack
  <2>2. /\ free' \in SUBSET Frame
        /\ cursor' \in 0 .. NFrames
        /\ stack' \in SUBSET Frame
    BY <2>1, AllocFacts DEF TypeOK
  <2>3. QED
    BY <1>11, <2>2 DEF AllocStack, InKernelTask, TypeOK, PidInHand
<1>12. CASE SpawnFails
  BY <1>12 DEF SpawnFails, TypeOK, PidInHand
<1>13. CASE Panic
  BY <1>13 DEF Panic, TypeOK, PidInHand
<1>14. CASE Publish
  <2>1. nextPid \in 0 .. MaxPid
    BY <1>14 DEF Publish, InKernelTask, TypeOK, PidInHand
  <2>2. [pid |-> nextPid, state |-> "ready", kstack |-> stack,
         space |-> space] \in TaskRecord
    BY <2>1 DEF TypeOK, TaskRecord, States
  <2>3. slots' \in [Slot -> TaskRecord]
    BY <1>14, <2>2 DEF Publish, SlotsIn, TypeOK
  <2>4. QED
    BY <1>14, <2>1, <2>3 DEF Publish, InKernelTask, TypeOK, PidInHand
<1>15. CASE Reap
  <2>1. NoTask \in TaskRecord
    BY DEF NoTask, TaskRecord, States
  <2>2. PICK z \in Slot : /\ space' = slots[z].space
                          /\ stack' = slots[z].kstack
                          /\ slots' = [slots EXCEPT ![z] = NoTask]
    BY <1>15 DEF Reap, SlotsIn
  <2>3. /\ slots' \in [Slot -> TaskRecord]
        /\ space' \in SUBSET Frame
        /\ stack' \in SUBSET Frame
    BY <2>1, <2>2 DEF TypeOK, TaskRecord
  <2>4. QED
    BY <1>15, <2>3 DEF Reap, InKernelTask, TypeOK, PidInHand
<1>16. CASE FreeSpace
  BY <1>16 DEF FreeSpace, InKernelTask, TypeOK, PidInHand
<1>17. CASE FreeStack
  BY <1>17 DEF FreeStack, InKernelTask, TypeOK, PidInHand
<1>18. CASE Halted \/ UNCHANGED vars
  BY <1>18 DEF Halted, vars, TypeOK, PidInHand
<1>19. QED
  BY <1>1, <1>2, <1>3, <1>4, <1>5, <1>6, <1>7, <1>8, <1>9, <1>10, <1>11,
     <1>12, <1>13, <1>14, <1>15, <1>16, <1>17, <1>18 DEF Next, KernelStep

\* Every variable has its type in every reachable state; in particular the
\* cursor stays within the bitmap and no pid is handed out past the bound.
THEOREM TypeCorrect == Spec => []TypeOK
<1>1. Init => TypeInv
  BY TypeInit
<1>2. TypeInv /\ [Next]_vars => TypeInv'
  BY TypeStep
<1>3. TypeInv => TypeOK
  BY DEF TypeInv
<1>4. QED
  BY <1>1, <1>2, <1>3, PTL DEF Spec
-----------------------------------------------------------------------------
(* The CPU: one running task, the kernel task alive, no frame pulled away   *)

\* The kernel task is always Ready or Running.
KernelAlive == slots[0].state \in {"ready", "running"}

OneRunning ==
  /\ mode = "dying" => /\ current # 0
                       /\ slots[current].state = "zombie"
                       /\ SlotsIn("running") = {}
  /\ mode # "dying" => SlotsIn("running") = {current}

\* The inductive invariant about the core.
CpuInv == KernelAlive /\ OneRunning /\ CpuFramesLive

LEMMA ZeroIsSlot == 0 \in Slot
  BY SchedulerAssumption DEF Slot

\* A switch changes two states and nothing else in the table.
LEMMA SwitchFacts ==
  ASSUME TypeOK, NEW next \in Slot, NEW left \in States,
         next # current, SwitchTo(next, left)
  PROVE  /\ current' = next
         /\ slots'[current].state = left
         /\ slots'[next].state = "running"
         /\ \A s \in Slot \ {current, next} : slots'[s] = slots[s]
         /\ \A s \in Slot : /\ slots'[s].pid = slots[s].pid
                            /\ slots'[s].kstack = slots[s].kstack
                            /\ slots'[s].space = slots[s].space
         /\ CpuFramesLive'
  BY DEF TypeOK, TaskRecord, SwitchTo, CpuFramesLive

\* What every step keeps about the slots it does not create or reap.
SameTasks ==
  \A s \in Slot : /\ slots'[s].pid = slots[s].pid
                  /\ slots'[s].kstack = slots[s].kstack
                  /\ slots'[s].space = slots[s].space
                  /\ slots'[s].state = "none" <=> slots[s].state = "none"

\* A yield of the running task leaves one task running and hurts nobody.
LEMMA YieldCpu ==
  ASSUME TypeOK, CpuInv, mode # "dying", YieldNow
  PROVE  /\ KernelAlive' /\ CpuFramesLive' /\ SameTasks
         /\ SlotsIn("running")' = {current'}
<1>1. CASE UNCHANGED <<slots, current, cpu>>
  BY <1>1 DEF CpuInv, KernelAlive, OneRunning, CpuFramesLive, SameTasks, SlotsIn
<1>2. ASSUME NEW next \in Slot, PickNext(current, next),
             SwitchTo(next, IF slots[current].state = "running"
                            THEN "ready" ELSE slots[current].state)
      PROVE  /\ KernelAlive' /\ CpuFramesLive' /\ SameTasks
             /\ SlotsIn("running")' = {current'}
  <2>1. /\ slots[current].state = "running"
        /\ \A s \in Slot : slots[s].state = "running" => s = current
    BY DEF CpuInv, OneRunning, SlotsIn, TypeOK
  <2>2. slots[next].state = "ready" /\ next # current
    BY <1>2, <2>1 DEF PickNext, SlotsIn
  <2>3. SwitchTo(next, "ready")
    BY <1>2, <2>1
  <2>4. /\ current' = next
        /\ slots'[current].state = "ready"
        /\ slots'[next].state = "running"
        /\ \A s \in Slot \ {current, next} : slots'[s] = slots[s]
        /\ \A s \in Slot : /\ slots'[s].pid = slots[s].pid
                           /\ slots'[s].kstack = slots[s].kstack
                           /\ slots'[s].space = slots[s].space
        /\ CpuFramesLive'
    BY <2>2, <2>3, SwitchFacts DEF States
  <2>5. KernelAlive'
    BY <2>4, ZeroIsSlot DEF CpuInv, KernelAlive
  <2>6. SlotsIn("running")' = {current'}
    BY <2>1, <2>4 DEF SlotsIn
  <2>7. SameTasks
    BY <2>1, <2>2, <2>4 DEF SameTasks
  <2>8. QED
    BY <2>4, <2>5, <2>6, <2>7
<1>3. QED
  BY <1>1, <1>2 DEF YieldNow

\* The switch away from a dying task.
LEMMA ExitSwitchCpu ==
  ASSUME TypeOK, CpuInv, ExitSwitch
  PROVE  /\ KernelAlive' /\ CpuFramesLive' /\ SameTasks
         /\ SlotsIn("running")' = {current'}
<1>1. PICK next \in Slot : /\ PickNext(current, next)
                           /\ SwitchTo(next, slots[current].state)
  BY DEF ExitSwitch
<1>2. /\ slots[current].state = "zombie" /\ current # 0
      /\ \A s \in Slot : slots[s].state # "running"
  BY DEF CpuInv, OneRunning, SlotsIn, ExitSwitch
<1>3. slots[next].state = "ready" /\ next # current
  BY <1>1, <1>2 DEF PickNext, SlotsIn
<1>4. SwitchTo(next, "zombie")
  BY <1>1, <1>2
<1>5. /\ current' = next
      /\ slots'[current].state = "zombie"
      /\ slots'[next].state = "running"
      /\ \A s \in Slot \ {current, next} : slots'[s] = slots[s]
      /\ \A s \in Slot : /\ slots'[s].pid = slots[s].pid
                         /\ slots'[s].kstack = slots[s].kstack
                         /\ slots'[s].space = slots[s].space
      /\ CpuFramesLive'
  BY <1>3, <1>4, SwitchFacts DEF States
<1>6. KernelAlive'
  BY <1>2, <1>5, ZeroIsSlot DEF CpuInv, KernelAlive
<1>7. SlotsIn("running")' = {current'}
  BY <1>2, <1>5 DEF SlotsIn
<1>8. SameTasks
  BY <1>2, <1>3, <1>5 DEF SameTasks
<1>9. QED
  BY <1>5, <1>6, <1>7, <1>8

LEMMA CpuInit == Init => CpuInv
<1> SUFFICES ASSUME Init PROVE CpuInv
  OBVIOUS
<1>1. /\ slots[0] = KernelTask /\ current = 0 /\ mode = "task"
      /\ \A s \in Slot \ {0} : slots[s] = NoTask
      /\ cpu = [kstack |-> {}, space |-> {}]
  BY ZeroIsSlot DEF Init
<1>2. SlotsIn("running") = {0}
  BY <1>1, ZeroIsSlot DEF SlotsIn, KernelTask, NoTask
<1>3. QED
  BY <1>1, <1>2 DEF CpuInv, KernelAlive, OneRunning, CpuFramesLive, KernelTask

LEMMA CpuStep == TypeOK /\ CpuInv /\ [Next]_vars => CpuInv'
<1> SUFFICES ASSUME TypeOK, CpuInv, [Next]_vars PROVE CpuInv'
  OBVIOUS
<1>1. CASE Yield
  <2>1. mode # "dying" /\ mode' # "dying" /\ YieldNow
    BY <1>1 DEF Yield
  <2>2. QED
    BY <2>1, YieldCpu DEF CpuInv, OneRunning
<1>2. CASE IrqTail
  <2>1. mode # "dying" /\ mode' # "dying"
    BY <1>2 DEF IrqTail
  <2>2. CASE resched
    BY <1>2, <2>1, <2>2, YieldCpu DEF IrqTail, CpuInv, OneRunning
  <2>3. CASE ~resched
    BY <1>2, <2>1, <2>3
       DEF IrqTail, CpuInv, OneRunning, KernelAlive, CpuFramesLive, SlotsIn
  <2>4. QED
    BY <2>2, <2>3
<1>3. CASE ExitSwitch
  <2>1. mode' # "dying"
    BY <1>3 DEF ExitSwitch
  <2>2. QED
    BY <1>3, <2>1, ExitSwitchCpu DEF CpuInv, OneRunning
<1>4. CASE Exit
  <2>1. /\ \A s \in Slot : slots[s].state = "running" <=> s = current
        /\ current # 0
    BY <1>4 DEF Exit, CpuInv, OneRunning, SlotsIn
  <2>2. /\ slots'[current].state = "zombie"
        /\ slots'[current].kstack = slots[current].kstack
        /\ slots'[current].space = slots[current].space
        /\ \A s \in Slot \ {current} : slots'[s] = slots[s]
        /\ current' = current /\ cpu' = cpu /\ mode' = "dying"
    BY <1>4 DEF Exit, TypeOK, TaskRecord
  <2>3. SlotsIn("running")' = {}
    BY <2>1, <2>2 DEF SlotsIn
  <2>4. KernelAlive'
    BY <2>1, <2>2, ZeroIsSlot DEF CpuInv, KernelAlive
  <2>5. QED
    BY <2>1, <2>2, <2>3, <2>4 DEF CpuInv, OneRunning, CpuFramesLive
<1>5. CASE Publish
  <2>1. PICK s \in SlotsIn("none") :
          slots' = [slots EXCEPT ![s] = [pid |-> nextPid, state |-> "ready",
                                         kstack |-> stack, space |-> space]]
    BY <1>5 DEF Publish
  <2>2. /\ mode = "task" /\ mode' = mode /\ current' = current /\ cpu' = cpu
        /\ current = 0
    BY <1>5 DEF Publish, InKernelTask
  <2>3. SlotsIn("running") = {0} /\ s \in Slot /\ slots[s].state = "none"
    BY <2>1, <2>2 DEF CpuInv, OneRunning, SlotsIn
  <2>4. /\ s # 0 /\ slots'[s].state = "ready"
        /\ \A t \in Slot \ {s} : slots'[t] = slots[t]
    BY <2>1, <2>3, ZeroIsSlot DEF TypeOK, CpuInv, KernelAlive
  <2>5. SlotsIn("running")' = {0}
    BY <2>3, <2>4 DEF SlotsIn
  <2>6. QED
    BY <2>2, <2>4, <2>5, ZeroIsSlot
       DEF CpuInv, KernelAlive, OneRunning, CpuFramesLive
<1>6. CASE Reap
  <2>1. PICK z \in SlotsIn("zombie") : slots' = [slots EXCEPT ![z] = NoTask]
    BY <1>6 DEF Reap
  <2>2. /\ mode = "task" /\ mode' = mode /\ current' = current /\ cpu' = cpu
        /\ current = 0
    BY <1>6 DEF Reap, InKernelTask
  <2>3. SlotsIn("running") = {0} /\ z \in Slot /\ slots[z].state = "zombie"
    BY <2>1, <2>2 DEF CpuInv, OneRunning, SlotsIn
  <2>4. /\ z # 0 /\ slots'[z].state = "none"
        /\ \A t \in Slot \ {z} : slots'[t] = slots[t]
    BY <2>1, <2>3, ZeroIsSlot DEF TypeOK, CpuInv, KernelAlive, NoTask
  <2>5. SlotsIn("running")' = {0}
    BY <2>3, <2>4 DEF SlotsIn
  <2>6. QED
    BY <2>2, <2>4, <2>5, ZeroIsSlot
       DEF CpuInv, KernelAlive, OneRunning, CpuFramesLive
<1>7. ASSUME UNCHANGED <<slots, current, cpu>>, mode # "dying",
             mode' # "dying"
      PROVE  CpuInv'
  BY <1>7 DEF CpuInv, KernelAlive, OneRunning, CpuFramesLive, SlotsIn
<1>8. CASE EnablePreemption \/ TimerIrq \/ SpawnUser \/ SpawnKernel \/ MapFrame
           \/ SpaceBuilt \/ AllocStack \/ SpawnFails \/ Panic \/ FreeSpace
           \/ FreeStack
  BY <1>7, <1>8
     DEF EnablePreemption, TimerIrq, SpawnUser, SpawnKernel, MapFrame,
         SpaceBuilt, AllocStack, SpawnFails, Panic, FreeSpace, FreeStack,
         InKernelTask, schedVars
<1>9. CASE Halted \/ UNCHANGED vars
  BY <1>9 DEF Halted, vars, schedVars, CpuInv, KernelAlive, OneRunning,
              CpuFramesLive, SlotsIn
<1>10. QED
  BY <1>1, <1>2, <1>3, <1>4, <1>5, <1>6, <1>8, <1>9 DEF Next, KernelStep

LEMMA CpuInvariant == Spec => [](TypeInv /\ CpuInv)
<1>1. Init => TypeInv /\ CpuInv
  BY TypeInit, CpuInit
<1>2. TypeInv /\ CpuInv /\ [Next]_vars => (TypeInv /\ CpuInv)'
  BY TypeStep, CpuStep DEF TypeInv
<1>3. QED
  BY <1>1, <1>2, PTL DEF Spec

\* The expect() of exit_current never fails, and outside a dying task's last
\* instructions exactly the current task is Running: slot 0 cannot die, so it
\* is Ready whenever another task is dying.
THEOREM AlwaysSomewhereToSwitch == Spec => []SomewhereToSwitch
<1>1. TypeOK /\ CpuInv => SomewhereToSwitch
  <2> SUFFICES ASSUME TypeOK, CpuInv PROVE SomewhereToSwitch
    OBVIOUS
  <2>1. mode = "dying" => 0 \in SlotsIn("ready")
    BY ZeroIsSlot DEF CpuInv, KernelAlive, OneRunning, SlotsIn
  <2>2. QED
    BY <2>1 DEF CpuInv, OneRunning, SomewhereToSwitch
<1>2. QED
  BY <1>1, CpuInvariant, PTL DEF TypeInv

\* The stack and page tables in use are always those of the current task.
THEOREM CoreFramesLive == Spec => []CpuFramesLive
<1>1. CpuInv => CpuFramesLive
  BY DEF CpuInv
<1>2. QED
  BY <1>1, CpuInvariant, PTL
-----------------------------------------------------------------------------
(* The frames: owned once each                                              *)

\* What spawn or reap has in hand at each point.
OpFrames ==
  /\ op = "idle" => space = {} /\ stack = {}
  /\ op \in {"mapping", "kstack"} => stack = {}
  /\ op = "freestack" => space = {}

\* A free slot holds no frames.
EmptySlots == \A s \in Slot : slots[s].state = "none" => Held(s) = {}

\* The inductive invariant about the frames.
FramesInv == FramesPartitioned /\ OpFrames /\ EmptySlots

\* Nothing moves between the places a frame can be in.
FramesStay == /\ UNCHANGED <<free, space, stack, lost>>
              /\ \A s \in Slot : /\ slots'[s].kstack = slots[s].kstack
                                 /\ slots'[s].space = slots[s].space

LEMMA StayPartitioned ==
  ASSUME FramesPartitioned, FramesStay PROVE FramesPartitioned'
  BY DEF FramesPartitioned, FramesDisjoint, FramesAccounted, FramesStay, Held

\* A step that only switches between tasks leaves every frame where it is.
LEMMA SameTasksFrames ==
  ASSUME FramesInv, SameTasks, UNCHANGED <<free, space, stack, lost, op>>
  PROVE  FramesInv'
<1>1. FramesStay
  BY DEF FramesStay, SameTasks
<1>2. FramesPartitioned'
  BY <1>1, StayPartitioned DEF FramesInv
<1>3. EmptySlots'
  BY DEF FramesInv, EmptySlots, SameTasks, Held
<1>4. QED
  BY <1>2, <1>3 DEF FramesInv, OpFrames

LEMMA FramesInit == Init => FramesInv
<1> SUFFICES ASSUME Init PROVE FramesInv
  OBVIOUS
<1>1. \A s \in Slot : slots[s].kstack = {} /\ slots[s].space = {}
  BY DEF Init, KernelTask, NoTask
<1>2. QED
  BY <1>1 DEF Init, FramesInv, FramesPartitioned, FramesDisjoint,
              FramesAccounted, OpFrames, EmptySlots, Held

LEMMA FramesStep == TypeOK /\ CpuInv /\ FramesInv /\ [Next]_vars => FramesInv'
<1> SUFFICES ASSUME TypeOK, CpuInv, FramesInv, [Next]_vars PROVE FramesInv'
  OBVIOUS
<1> USE DEF schedVars, frameVars, opVars
<1>1. CASE Yield
  BY <1>1, YieldCpu, SameTasksFrames DEF Yield
<1>2. CASE IrqTail
  <2>1. SameTasks
    BY <1>2, YieldCpu DEF IrqTail, SameTasks
  <2>2. QED
    BY <1>2, <2>1, SameTasksFrames DEF IrqTail
<1>3. CASE ExitSwitch
  BY <1>3, ExitSwitchCpu, SameTasksFrames DEF ExitSwitch
<1>4. CASE Exit
  <2>1. slots[current].state # "none"
    BY <1>4 DEF Exit, CpuInv, OneRunning, SlotsIn
  <2>2. SameTasks
    BY <1>4, <2>1 DEF Exit, SameTasks, TypeOK, TaskRecord
  <2>3. QED
    BY <1>4, <2>2, SameTasksFrames DEF Exit
<1>5. CASE EnablePreemption \/ TimerIrq \/ Panic \/ Halted \/ UNCHANGED vars
  <2>1. SameTasks /\ UNCHANGED <<free, space, stack, lost, op>>
    BY <1>5 DEF EnablePreemption, TimerIrq, Panic, Halted, vars, SameTasks
  <2>2. QED
    BY <2>1, SameTasksFrames
<1>6. CASE SpawnUser \/ SpawnKernel \/ SpaceBuilt
  <2>1. FramesStay /\ UNCHANGED slots
    BY <1>6 DEF SpawnUser, SpawnKernel, SpaceBuilt, FramesStay
  <2>2. FramesPartitioned' /\ EmptySlots'
    BY <2>1, StayPartitioned DEF FramesInv, EmptySlots, Held
  <2>3. OpFrames'
    BY <1>6 DEF SpawnUser, SpawnKernel, SpaceBuilt, InKernelTask, FramesInv,
                OpFrames
  <2>4. QED
    BY <2>2, <2>3 DEF FramesInv
<1>7. CASE MapFrame
  <2>1. PICK base \in Frame : Alloc(1, base) /\ space' = space \cup {base}
    BY <1>7 DEF MapFrame
  <2>2. base \in free /\ free' = free \ {base}
    BY <2>1, AllocFacts, OneFrame DEF TypeOK
  <2>3. /\ UNCHANGED <<slots, stack, lost, op>> /\ op = "mapping"
    BY <1>7 DEF MapFrame, InKernelTask
  <2>4. FramesDisjoint'
    BY <2>1, <2>2, <2>3
       DEF FramesInv, FramesPartitioned, FramesDisjoint, Held
  <2>5. FramesAccounted'
    BY <2>1, <2>2, <2>3
       DEF FramesInv, FramesPartitioned, FramesAccounted, Held
  <2>6. QED
    BY <2>3, <2>4, <2>5
       DEF FramesInv, FramesPartitioned, OpFrames, EmptySlots, Held
<1>8. CASE AllocStack
  <2>1. PICK base \in Frame : /\ Alloc(KSTACK_FRAMES, base)
                              /\ stack' = Block(base, KSTACK_FRAMES)
    BY <1>8 DEF AllocStack
  <2>2. stack' \subseteq free /\ free' = free \ stack'
    BY <2>1, AllocFacts, SchedulerAssumption DEF TypeOK
  <2>3. UNCHANGED <<slots, space, lost>> /\ op = "kstack" /\ op' = "publish"
    BY <1>8 DEF AllocStack, InKernelTask
  <2>4. stack = {}
    BY <2>3 DEF FramesInv, OpFrames
  <2>5. FramesDisjoint'
    BY <2>2, <2>3, <2>4
       DEF FramesInv, FramesPartitioned, FramesDisjoint, Held
  <2>6. FramesAccounted'
    BY <2>2, <2>3, <2>4
       DEF FramesInv, FramesPartitioned, FramesAccounted, Held
  <2>7. QED
    BY <2>3, <2>5, <2>6
       DEF FramesInv, FramesPartitioned, OpFrames, EmptySlots, Held
<1>9. CASE SpawnFails
  <2>1. /\ UNCHANGED <<slots, free, stack>> /\ op' = "idle"
        /\ lost' = lost \cup space /\ space' = {}
        /\ op \in {"mapping", "kstack"}
    BY <1>9 DEF SpawnFails, InKernelTask
  <2>2. stack = {}
    BY <2>1 DEF FramesInv, OpFrames
  <2>3. FramesDisjoint'
    BY <2>1 DEF FramesInv, FramesPartitioned, FramesDisjoint, Held
  <2>4. FramesAccounted'
    BY <2>1 DEF FramesInv, FramesPartitioned, FramesAccounted, Held
  <2>5. QED
    BY <2>1, <2>2, <2>3, <2>4
       DEF FramesInv, FramesPartitioned, OpFrames, EmptySlots, Held
<1>10. CASE Publish
  <2>1. PICK s \in SlotsIn("none") :
          slots' = [slots EXCEPT ![s] = [pid |-> nextPid, state |-> "ready",
                                         kstack |-> stack, space |-> space]]
    BY <1>10 DEF Publish
  <2>2. /\ UNCHANGED <<free, lost>> /\ op' = "idle" /\ space' = {}
        /\ stack' = {}
    BY <1>10 DEF Publish
  <2>3. /\ s \in Slot /\ slots[s].state = "none"
        /\ slots'[s].state = "ready"
        /\ slots'[s].kstack = stack /\ slots'[s].space = space
        /\ \A t \in Slot \ {s} : slots'[t] = slots[t]
    BY <2>1 DEF SlotsIn, TypeOK
  <2>4. slots[s].kstack = {} /\ slots[s].space = {}
    BY <2>3 DEF FramesInv, EmptySlots, Held
  <2>5. FramesDisjoint'
    BY <2>2, <2>3, <2>4
       DEF FramesInv, FramesPartitioned, FramesDisjoint, Held
  <2>6. FramesAccounted'
    BY <2>2, <2>3, <2>4
       DEF FramesInv, FramesPartitioned, FramesAccounted, Held
  <2>7. EmptySlots'
    BY <2>3 DEF FramesInv, EmptySlots, Held
  <2>8. QED
    BY <2>2, <2>5, <2>6, <2>7 DEF FramesInv, FramesPartitioned, OpFrames
<1>11. CASE Reap
  <2>1. PICK z \in SlotsIn("zombie") :
          /\ space' = slots[z].space
          /\ stack' = slots[z].kstack
          /\ slots' = [slots EXCEPT ![z] = NoTask]
    BY <1>11 DEF Reap
  <2>2. UNCHANGED <<free, lost>> /\ op = "idle" /\ op' = "unmap"
    BY <1>11 DEF Reap, InKernelTask
  <2>3. /\ z \in Slot
        /\ slots'[z].kstack = {} /\ slots'[z].space = {}
        /\ \A t \in Slot \ {z} : slots'[t] = slots[t]
    BY <2>1 DEF SlotsIn, TypeOK, NoTask
  <2>4. space = {} /\ stack = {}
    BY <2>2 DEF FramesInv, OpFrames
  <2>5. FramesDisjoint'
    BY <2>1, <2>2, <2>3, <2>4
       DEF FramesInv, FramesPartitioned, FramesDisjoint, Held
  <2>6. FramesAccounted'
    BY <2>1, <2>2, <2>3, <2>4
       DEF FramesInv, FramesPartitioned, FramesAccounted, Held
  <2>7. EmptySlots'
    BY <2>3 DEF FramesInv, EmptySlots, Held
  <2>8. QED
    BY <2>2, <2>5, <2>6, <2>7 DEF FramesInv, FramesPartitioned, OpFrames
<1>12. CASE FreeSpace
  <2>1. /\ UNCHANGED <<slots, lost, stack>> /\ free' = free \cup space
        /\ space' = {} /\ op' = "freestack"
    BY <1>12 DEF FreeSpace
  <2>2. FramesDisjoint'
    BY <2>1 DEF FramesInv, FramesPartitioned, FramesDisjoint, Held
  <2>3. FramesAccounted'
    BY <2>1 DEF FramesInv, FramesPartitioned, FramesAccounted, Held
  <2>4. QED
    BY <2>1, <2>2, <2>3
       DEF FramesInv, FramesPartitioned, OpFrames, EmptySlots, Held
<1>13. CASE FreeStack
  <2>1. /\ UNCHANGED <<slots, lost, space>> /\ free' = free \cup stack
        /\ stack' = {} /\ op = "freestack" /\ op' = "idle"
    BY <1>13 DEF FreeStack, InKernelTask
  <2>2. FramesDisjoint'
    BY <2>1 DEF FramesInv, FramesPartitioned, FramesDisjoint, Held
  <2>3. FramesAccounted'
    BY <2>1 DEF FramesInv, FramesPartitioned, FramesAccounted, Held
  <2>4. QED
    BY <2>1, <2>2, <2>3
       DEF FramesInv, FramesPartitioned, OpFrames, EmptySlots, Held
<1>14. QED
  BY <1>1, <1>2, <1>3, <1>4, <1>5, <1>6, <1>7, <1>8, <1>9, <1>10, <1>11,
     <1>12, <1>13 DEF Next, KernelStep

LEMMA FramesInvariant == Spec => []FramesInv
<1>1. Init => FramesInv
  BY FramesInit
<1>2. TypeInv /\ CpuInv /\ FramesInv /\ [Next]_vars => FramesInv'
  BY FramesStep DEF TypeInv
<1>3. QED
  BY <1>1, <1>2, CpuInvariant, PTL DEF Spec

\* Every frame is in exactly one place for ever: no double allocation, no
\* double free, no frame freed under a task that holds it, and no leak other
\* than that of a failed spawn.
THEOREM FramesOwnedOnce == Spec => []FramesPartitioned
<1>1. FramesInv => FramesPartitioned
  BY DEF FramesInv
<1>2. QED
  BY <1>1, FramesInvariant, PTL
-----------------------------------------------------------------------------
(* The scheduler implements TaskLife                                        *)

\* Pids are handed out once, and slot 0 is the kernel task.
PidInv ==
  /\ slots[0].pid = 1
  /\ \A s \in Slot : slots[s].state # "none" => slots[s].pid \in 1 .. nextPid - 1
  /\ \A s, t \in Slot :
       (slots[s].state # "none" /\ slots[t].state # "none" /\ s # t)
         => slots[s].pid # slots[t].pid

LEMMA SameTasksPids ==
  ASSUME TypeOK, PidInv, SameTasks, nextPid' = nextPid PROVE PidInv'
  BY ZeroIsSlot DEF TypeOK, PidInv, SameTasks

LEMMA PidInit == Init => PidInv
  BY ZeroIsSlot DEF Init, PidInv, KernelTask, NoTask

\* Every step but Publish and Reap leaves the tasks in their slots.
LEMMA TasksStay ==
  ASSUME TypeOK, CpuInv, [Next]_vars, ~Publish, ~Reap
  PROVE  SameTasks /\ nextPid' = nextPid
<1> USE DEF schedVars
<1>1. CASE Yield
  BY <1>1, YieldCpu DEF Yield
<1>2. CASE IrqTail
  BY <1>2, YieldCpu DEF IrqTail, SameTasks
<1>3. CASE ExitSwitch
  BY <1>3, ExitSwitchCpu DEF ExitSwitch
<1>4. CASE Exit
  <2>1. slots[current].state # "none"
    BY <1>4 DEF Exit, CpuInv, OneRunning, SlotsIn
  <2>2. QED
    BY <1>4, <2>1 DEF Exit, SameTasks, TypeOK, TaskRecord
<1>5. CASE \/ EnablePreemption \/ TimerIrq \/ Panic \/ Halted \/ UNCHANGED vars
           \/ SpawnUser \/ SpawnKernel \/ SpaceBuilt \/ MapFrame \/ AllocStack
           \/ SpawnFails \/ FreeSpace \/ FreeStack
  BY <1>5 DEF EnablePreemption, TimerIrq, Panic, Halted, vars, SameTasks,
              SpawnUser, SpawnKernel, SpaceBuilt, MapFrame, AllocStack,
              SpawnFails, FreeSpace, FreeStack
<1>6. QED
  BY <1>1, <1>2, <1>3, <1>4, <1>5 DEF Next, KernelStep

LEMMA PidStep ==
  TypeInv /\ CpuInv /\ PidInv /\ [Next]_vars => PidInv'
<1> SUFFICES ASSUME TypeOK, PidInHand, CpuInv, PidInv, [Next]_vars
             PROVE  PidInv'
  BY DEF TypeInv
<1>1. CASE ~Publish /\ ~Reap
  BY <1>1, TasksStay, SameTasksPids
<1>2. CASE Publish
  <2>1. PICK s \in SlotsIn("none") :
          slots' = [slots EXCEPT ![s] = [pid |-> nextPid, state |-> "ready",
                                         kstack |-> stack, space |-> space]]
    BY <1>2 DEF Publish
  <2>2. nextPid' = nextPid + 1 /\ nextPid \in Nat /\ nextPid > 1
    BY <1>2 DEF Publish, TypeOK
  <2>3. /\ s \in Slot /\ slots[s].state = "none"
        /\ slots'[s].state = "ready" /\ slots'[s].pid = nextPid
        /\ \A t \in Slot \ {s} : slots'[t] = slots[t]
    BY <2>1 DEF SlotsIn, TypeOK
  <2>4. s # 0
    BY <2>3 DEF CpuInv, KernelAlive
  <2>5. QED
    BY <2>2, <2>3, <2>4, ZeroIsSlot DEF PidInv
<1>3. CASE Reap
  <2>1. PICK z \in SlotsIn("zombie") : slots' = [slots EXCEPT ![z] = NoTask]
    BY <1>3 DEF Reap
  <2>2. /\ z \in Slot /\ slots[z].state = "zombie"
        /\ slots'[z].state = "none"
        /\ \A t \in Slot \ {z} : slots'[t] = slots[t]
        /\ nextPid' = nextPid
    BY <1>3, <2>1 DEF SlotsIn, TypeOK, NoTask, Reap
  <2>3. z # 0
    BY <2>2 DEF CpuInv, KernelAlive
  <2>4. QED
    BY <2>2, <2>3, ZeroIsSlot DEF PidInv
<1>4. QED
  BY <1>1, <1>2, <1>3

LEMMA LifeInit == Init => Life!Init
<1> SUFFICES ASSUME Init PROVE Life!Init
  OBVIOUS
<1>1. /\ slots[0].pid = 1 /\ slots[0].state = "running" /\ current = 0
      /\ nextPid = 2
      /\ \A s \in Slot \ {0} : slots[s].state = "none"
  BY ZeroIsSlot DEF Init, KernelTask, NoTask
<1>2. PidsIn("ready") = {} /\ PidsIn("zombie") = {}
  BY <1>1 DEF PidsIn, SlotsIn
<1>3. 1 .. nextPid - 1 = {1}
  BY <1>1
<1>4. QED
  BY <1>1, <1>2, <1>3 DEF Life!Init

\* Switching from a running task is a Dispatch, or nothing.
LEMMA YieldDispatches ==
  ASSUME TypeOK, CpuInv, PidInv, mode # "dying", YieldNow, nextPid' = nextPid
  PROVE  [Life!Next]_Life!lifeVars
<1>1. CASE UNCHANGED <<slots, current, cpu>>
  BY <1>1 DEF Life!lifeVars, PidsIn, SlotsIn
<1>2. ASSUME NEW next \in Slot, PickNext(current, next),
             SwitchTo(next, IF slots[current].state = "running"
                            THEN "ready" ELSE slots[current].state)
      PROVE  Life!Next
  <2>1. /\ slots[current].state = "running" /\ current \in Slot
        /\ \A s \in Slot : slots[s].state = "running" => s = current
    BY DEF CpuInv, OneRunning, SlotsIn, TypeOK
  <2>2. slots[next].state = "ready" /\ next # current
    BY <1>2, <2>1 DEF PickNext, SlotsIn
  <2>3. SwitchTo(next, "ready")
    BY <1>2, <2>1
  <2>4. /\ current' = next
        /\ slots'[current].state = "ready"
        /\ slots'[next].state = "running"
        /\ \A s \in Slot \ {current, next} : slots'[s] = slots[s]
        /\ \A s \in Slot : slots'[s].pid = slots[s].pid
    BY <2>2, <2>3, SwitchFacts DEF States
  <2> DEFINE p == slots[next].pid
             q == slots[current].pid
  <2>5. \A s \in Slot : /\ slots[s].state \in {"ready", "zombie"} /\ s # next
                             => slots[s].pid # p
                        /\ slots[s].state \in {"ready", "zombie"}
                             => slots[s].pid # q
    BY <2>1, <2>2 DEF PidInv
  <2>6. PidsIn("ready")' = (PidsIn("ready") \ {p}) \cup {q}
    BY <2>1, <2>2, <2>4, <2>5 DEF PidsIn, SlotsIn
  <2>7. /\ PidsIn("zombie")' = PidsIn("zombie")
        /\ p \notin PidsIn("zombie") /\ q \notin PidsIn("zombie")
    BY <2>1, <2>2, <2>4, <2>5 DEF PidsIn, SlotsIn
  <2>8. p \in PidsIn("ready") /\ slots'[current'].pid = p
    BY <2>2, <2>4 DEF PidsIn, SlotsIn
  <2>9. (PidsIn("zombie") \ {slots[current].pid})'
          = PidsIn("zombie") \ {slots[current].pid}
    BY <2>7, <2>8
  <2>10. Life!Dispatch(p)
    BY <2>6, <2>8, <2>9 DEF Life!Dispatch
  <2>11. QED
    BY <2>8, <2>10 DEF Life!Next
<1>3. QED
  BY <1>1, <1>2 DEF YieldNow

\* The switch away from a dying task is its death.
LEMMA ExitSwitchDies ==
  ASSUME TypeOK, CpuInv, PidInv, ExitSwitch
  PROVE  Life!Next
<1>1. PICK next \in Slot : /\ PickNext(current, next)
                           /\ SwitchTo(next, slots[current].state)
  BY DEF ExitSwitch
<1>2. /\ slots[current].state = "zombie" /\ current # 0 /\ current \in Slot
      /\ nextPid' = nextPid
  BY DEF CpuInv, OneRunning, ExitSwitch, TypeOK
<1>3. slots[next].state = "ready" /\ next # current
  BY <1>1, <1>2 DEF PickNext, SlotsIn
<1>4. SwitchTo(next, "zombie")
  BY <1>1, <1>2
<1>5. /\ current' = next
      /\ slots'[current].state = "zombie"
      /\ slots'[next].state = "running"
      /\ \A s \in Slot \ {current, next} : slots'[s] = slots[s]
      /\ \A s \in Slot : slots'[s].pid = slots[s].pid
  BY <1>3, <1>4, SwitchFacts DEF States
<1> DEFINE p == slots[next].pid
           q == slots[current].pid
<1>6. \A s \in Slot : slots[s].state \in {"ready", "zombie"} /\ s # next
                        => slots[s].pid # p
  BY <1>3 DEF PidInv
<1>7. PidsIn("ready")' = PidsIn("ready") \ {p}
  BY <1>2, <1>3, <1>5, <1>6 DEF PidsIn, SlotsIn
<1>8. /\ PidsIn("zombie")' = PidsIn("zombie")
      /\ p \notin PidsIn("zombie") /\ q \in PidsIn("zombie")
  BY <1>2, <1>3, <1>5, <1>6 DEF PidsIn, SlotsIn
<1>9. p \in PidsIn("ready") /\ slots'[current'].pid = p
  BY <1>3, <1>5 DEF PidsIn, SlotsIn
<1>10. (PidsIn("zombie") \ {slots[current].pid})'
         = (PidsIn("zombie") \ {q}) \cup {q}
  BY <1>8, <1>9
<1>11. q # 1
  BY <1>2, ZeroIsSlot DEF PidInv, CpuInv, KernelAlive
<1>12. Life!Die(p)
  BY <1>2, <1>7, <1>9, <1>10, <1>11 DEF Life!Die
<1>13. QED
  BY <1>9, <1>12 DEF Life!Next

LEMMA LifeStep ==
  TypeInv /\ CpuInv /\ PidInv /\ [Next]_vars => [Life!Next]_Life!lifeVars
<1> SUFFICES ASSUME TypeOK, PidInHand, CpuInv, PidInv, [Next]_vars
             PROVE  [Life!Next]_Life!lifeVars
  BY DEF TypeInv
<1> USE DEF schedVars
<1>1. CASE Yield
  BY <1>1, YieldDispatches DEF Yield
<1>2. CASE IrqTail
  <2>1. CASE resched
    BY <1>2, <2>1, YieldDispatches DEF IrqTail
  <2>2. CASE ~resched
    BY <1>2, <2>2 DEF IrqTail, Life!lifeVars, PidsIn, SlotsIn
  <2>3. QED
    BY <2>1, <2>2
<1>3. CASE ExitSwitch
  BY <1>3, ExitSwitchDies
<1>4. CASE Exit
  <2>1. /\ slots[current].state = "running" /\ current \in Slot
        /\ slots'[current].state = "zombie"
        /\ \A s \in Slot : slots'[s].pid = slots[s].pid
        /\ \A s \in Slot \ {current} : slots'[s] = slots[s]
        /\ current' = current /\ nextPid' = nextPid
    BY <1>4 DEF Exit, CpuInv, OneRunning, SlotsIn, TypeOK, TaskRecord
  <2>2. PidsIn("ready")' = PidsIn("ready")
    BY <2>1 DEF PidsIn, SlotsIn
  <2>3. PidsIn("zombie")' = PidsIn("zombie") \cup {slots[current].pid}
    BY <2>1 DEF PidsIn, SlotsIn
  <2>4. (PidsIn("zombie") \ {slots[current].pid})'
          = PidsIn("zombie") \ {slots[current].pid}
    BY <2>1, <2>3
  <2>5. QED
    BY <2>1, <2>2, <2>4 DEF Life!lifeVars
<1>5. CASE Publish
  <2>1. PICK s \in SlotsIn("none") :
          slots' = [slots EXCEPT ![s] = [pid |-> nextPid, state |-> "ready",
                                         kstack |-> stack, space |-> space]]
    BY <1>5 DEF Publish
  <2>2. /\ nextPid' = nextPid + 1 /\ nextPid \in 2 .. MaxPid
        /\ current = 0 /\ current' = 0
    BY <1>5 DEF Publish, TypeOK, InKernelTask, PidInHand
  <2>3. /\ s \in Slot /\ slots[s].state = "none" /\ s # 0
        /\ slots'[s].state = "ready" /\ slots'[s].pid = nextPid
        /\ \A t \in Slot \ {s} : slots'[t] = slots[t]
    BY <2>1 DEF SlotsIn, TypeOK, CpuInv, KernelAlive
  <2>4. PidsIn("ready")' = PidsIn("ready") \cup {nextPid}
    BY <2>3 DEF PidsIn, SlotsIn
  <2>5. PidsIn("zombie")' = PidsIn("zombie")
    BY <2>3 DEF PidsIn, SlotsIn
  <2>6. slots[current].pid = 1 /\ slots'[current'].pid = 1
    BY <2>2, <2>3, ZeroIsSlot DEF PidInv
  <2>7. (1 .. nextPid - 1)' = (1 .. nextPid - 1) \cup {nextPid}
    BY <2>2
  <2>8. nextPid \in 1 .. MaxPid /\ nextPid \notin 1 .. nextPid - 1
    BY <2>2
  <2>9. Life!Create(nextPid)
    BY <2>4, <2>5, <2>6, <2>7, <2>8 DEF Life!Create
  <2>10. QED
    BY <2>8, <2>9 DEF Life!Next
<1>6. CASE Reap
  <2>1. PICK z \in SlotsIn("zombie") : slots' = [slots EXCEPT ![z] = NoTask]
    BY <1>6 DEF Reap
  <2>2. nextPid' = nextPid /\ current = 0 /\ current' = 0
    BY <1>6 DEF Reap, InKernelTask
  <2>3. /\ z \in Slot /\ slots[z].state = "zombie" /\ z # 0
        /\ slots'[z].state = "none"
        /\ \A t \in Slot \ {z} : slots'[t] = slots[t]
    BY <2>1 DEF SlotsIn, TypeOK, CpuInv, KernelAlive, NoTask
  <2> DEFINE p == slots[z].pid
  <2>4. /\ PidsIn("ready")' = PidsIn("ready")
        /\ PidsIn("zombie")' = PidsIn("zombie") \ {p}
        /\ p \in PidsIn("zombie")
    BY <2>3 DEF PidsIn, SlotsIn, PidInv
  <2>5. slots[current].pid = 1 /\ slots'[current'].pid = 1 /\ p # 1
    BY <2>2, <2>3, ZeroIsSlot DEF PidInv, CpuInv, KernelAlive
  <2>6. Life!Reap(p)
    BY <2>2, <2>4, <2>5 DEF Life!Reap
  <2>7. QED
    BY <2>4, <2>5, <2>6 DEF Life!Next
<1>7. CASE \/ EnablePreemption \/ TimerIrq \/ Panic \/ Halted \/ UNCHANGED vars
           \/ SpawnUser \/ SpawnKernel \/ SpaceBuilt \/ MapFrame \/ AllocStack
           \/ SpawnFails \/ FreeSpace \/ FreeStack
  <2>1. UNCHANGED <<slots, current, nextPid>>
    BY <1>7 DEF EnablePreemption, TimerIrq, Panic, Halted, vars, SpawnUser,
                SpawnKernel, SpaceBuilt, MapFrame, AllocStack, SpawnFails,
                FreeSpace, FreeStack
  <2>2. QED
    BY <2>1 DEF Life!lifeVars, PidsIn, SlotsIn
<1>8. QED
  BY <1>1, <1>2, <1>3, <1>4, <1>5, <1>6, <1>7 DEF Next, KernelStep

\* The scheduler, with its slots, interrupts and half-done exits, implements
\* the life cycle of a task.
THEOREM ImplementsTaskLife == Spec => Lifecycle
<1>1. Init => PidInv /\ Life!Init
  BY PidInit, LifeInit
<1>2. TypeInv /\ CpuInv /\ PidInv /\ [Next]_vars => PidInv'
  BY PidStep
<1>3. TypeInv /\ CpuInv /\ PidInv /\ [Next]_vars => [Life!Next]_Life!lifeVars
  BY LifeStep
<1>4. QED
  BY <1>1, <1>2, <1>3, CpuInvariant, PTL DEF Spec, Lifecycle, Life!Spec

-----------------------------------------------------------------------------
(* The scan of alloc_contiguous.  The loop runs 2 * NFrames times; ScanInv    *)
(* says, after i frames, what it has seen since the last place it started     *)
(* from, first the cursor and then frame 0.                                   *)

\* Induction over the numbers, as a fact about sets.
LEMMA NatInduct ==
  ASSUME NEW S, 0 \in S, \A n \in S \cap Nat : n + 1 \in S
  PROVE  \A n \in Nat : n \in S
<1> SUFFICES ASSUME Nat \ S # {} PROVE FALSE
  OBVIOUS
<1>1. \E x \in Nat \ S : \A y \in Nat \ S : <<y, x>> \notin OpToRel(<, Nat)
  BY NatLessThanWellFounded, WFMin
<1>2. PICK x \in Nat \ S : \A y \in Nat \ S : <<y, x>> \notin OpToRel(<, Nat)
  BY <1>1
<1>3. x \in Nat /\ x # 0
  BY <1>2
<1>4. x - 1 \in Nat /\ (x - 1) + 1 = x /\ x - 1 < x
  BY <1>3
<1>5. x - 1 \in S
  BY <1>2, <1>3, <1>4 DEF OpToRel
<1> QED
  BY <1>2, <1>4, <1>5

\* What the scan knows when it stands at `frame` and has seen the frames from
\* `lo` on: its run ends there, cannot be prolonged downwards, and no run of
\* count frames ends at or before it.
Seen(lo, frame, run, count) ==
  /\ lo + run <= frame
  /\ \A x \in Frame : frame <= x + run /\ x < frame => x \in free
  /\ \A x \in Frame : x + run + 1 = frame /\ lo <= x => x \notin free
  /\ \A r \in Runs(free, count) : lo <= r => frame < r + count

LEMMA SeenNothing ==
  ASSUME NEW lo \in Nat, NEW count \in Nat \ {0}
  PROVE  Seen(lo, lo, 0, count)
<1>1. \A x \in Nat : ~(lo <= x + 0 /\ x < lo) /\ ~(x + 0 + 1 = lo /\ lo <= x)
  OBVIOUS
<1>2. \A r \in Nat : lo <= r => lo < r + count
  OBVIOUS
<1>3. Frame \subseteq Nat /\ Runs(free, count) \subseteq Nat
  BY DEF Frame, Runs
<1>4. lo + 0 <= lo
  OBVIOUS
<1> QED
  BY <1>1, <1>2, <1>3, <1>4 DEF Seen

\* One frame more either completes the lowest run from `lo` on, or completes none.
LEMMA SeenOneMore ==
  ASSUME free \in SUBSET Frame, NEW count \in Nat \ {0}, NEW lo \in Nat, NEW frame \in Nat,
         NEW run \in Nat, frame < NFrames, run < count, Seen(lo, frame, run, count),
         NEW run2, run2 = IF frame \in free THEN run + 1 ELSE 0
  PROVE  IF run2 = count
         THEN /\ frame + 1 - count \in Runs(free, count) /\ lo <= frame + 1 - count
              /\ \A r \in Runs(free, count) : lo <= r => frame + 1 - count <= r
         ELSE run2 \in Nat /\ run2 < count /\ Seen(lo, frame + 1, run2, count)
<1>1. /\ lo + run <= frame
      /\ \A x \in Frame : frame <= x + run /\ x < frame => x \in free
      /\ \A x \in Frame : x + run + 1 = frame /\ lo <= x => x \notin free
      /\ \A r \in Runs(free, count) : lo <= r => frame < r + count
  BY DEF Seen
<1>2. NFrames \in Nat /\ \A x : x \in Frame <=> (x \in Nat /\ x < NFrames)
  BY NFramesAssumption DEF Frame
<1>3. \A r \in Runs(free, count) : r \in Nat /\ \A x \in r .. r + count - 1 : x \in free
  BY DEF Runs, Frame, Block
<1>4. CASE frame \in free /\ run + 1 = count
  <2> DEFINE b == frame + 1 - count
  <2>1. run2 = count /\ b \in Nat /\ lo <= b /\ b + count = frame + 1 /\ b <= frame
    BY <1>1, <1>4
  <2> HIDE DEF b
  <2>2. b \in Frame
    BY <1>2, <2>1
  <2>3. ASSUME NEW x \in b .. b + count - 1 PROVE x \in free
    <3>1. x \in Nat /\ x <= frame /\ frame <= x + run
      BY <1>4, <2>1
    <3>2. x \in Frame
      BY <1>2, <3>1
    <3> QED
      BY <1>1, <1>4, <3>1, <3>2
  <2>4. b \in Runs(free, count)
    BY <2>2, <2>3 DEF Runs, Block
  <2>5. ASSUME NEW r \in Runs(free, count), lo <= r PROVE b <= r
    <3>1. r \in Nat /\ frame < r + count
      BY <1>1, <1>3, <2>5
    <3> QED
      BY <2>1, <3>1
  <2> QED
    BY <2>1, <2>4, <2>5 DEF b
<1>5. CASE ~(frame \in free /\ run + 1 = count)
  <2>1. run2 # count /\ run2 \in Nat /\ run2 < count /\ lo + run2 <= frame + 1
    BY <1>1, <1>5
  <2>2. ASSUME NEW x \in Frame, frame + 1 <= x + run2, x < frame + 1 PROVE x \in free
    <3>1. x \in Nat /\ frame \in free /\ run2 = run + 1
      BY <1>2, <2>2
    <3>2. frame <= x + run /\ (x < frame \/ x = frame)
      BY <2>2, <3>1
    <3> QED
      BY <1>1, <3>1, <3>2
  <2>3. ASSUME NEW x \in Frame, x + run2 + 1 = frame + 1, lo <= x PROVE x \notin free
    <3>1. x \in Nat
      BY <1>2
    <3>2. CASE frame \in free
      <4>1. x + run + 1 = frame
        BY <2>3, <3>1, <3>2
      <4> QED
        BY <1>1, <2>3, <4>1
    <3>3. CASE frame \notin free
      <4>1. x = frame
        BY <2>3, <3>1, <3>3
      <4> QED
        BY <3>3, <4>1
    <3> QED
      BY <3>2, <3>3
  <2>4. ASSUME NEW r \in Runs(free, count), lo <= r PROVE frame + 1 < r + count
    <3>1. r \in Nat /\ frame < r + count
      BY <1>1, <1>3, <2>4
    <3> SUFFICES ASSUME r + count = frame + 1 PROVE FALSE
      BY <3>1
    <3>2. frame \in r .. r + count - 1
      BY <3>1
    <3>3. frame \in free /\ run + 1 < count
      BY <1>3, <1>5, <3>2
    <3> DEFINE x == frame - run - 1
    <3>4. x \in r .. r + count - 1 /\ x \in Nat /\ x < NFrames /\ x + run + 1 = frame /\ lo <= x
      BY <1>2, <2>4, <3>1, <3>3
    <3> HIDE DEF x
    <3>5. x \in Frame /\ x \in free
      BY <1>2, <1>3, <3>4
    <3> QED
      BY <1>1, <3>4, <3>5
  <2> QED
    BY <2>1, <2>2, <2>3, <2>4 DEF Seen
<1> QED
  BY <1>4, <1>5

\* The lowest run at or after the cursor is next fit, ...
LEMMA FitAfter ==
  ASSUME cursor \in 0 .. NFrames, NEW count, NEW b \in Runs(free, count), cursor <= b,
         \A r \in Runs(free, count) : cursor <= r => b <= r
  PROVE  IsNextFit(free, cursor, count, b)
<1>1. b \in Nat /\ b < NFrames /\ cursor \in Nat /\ NFrames \in Nat
  BY NFramesAssumption DEF Runs, Frame
<1>2. ASSUME NEW r \in Runs(free, count)
      PROVE  CyclicDist(cursor, b, NFrames) <= CyclicDist(cursor, r, NFrames)
  <2>1. r \in Nat /\ (cursor <= r => b <= r)
    BY <1>2 DEF Runs, Frame
  <2>2. CyclicDist(cursor, b, NFrames) = b - cursor
    BY <1>1 DEF CyclicDist
  <2>3. CyclicDist(cursor, r, NFrames) = IF cursor <= r THEN r - cursor ELSE r + NFrames - cursor
    BY <1>1, <2>1 DEF CyclicDist
  <2> QED
    BY <1>1, <2>1, <2>2, <2>3
<1> QED
  BY <1>2 DEF IsNextFit

\* ... and so is the lowest of all when there is none after it.
LEMMA FitAround ==
  ASSUME cursor \in 0 .. NFrames, NEW count, NEW b \in Runs(free, count),
         \A r \in Runs(free, count) : r < cursor /\ b <= r
  PROVE  IsNextFit(free, cursor, count, b)
<1>1. b \in Nat /\ b < cursor /\ cursor \in Nat /\ NFrames \in Nat
  BY NFramesAssumption DEF Runs, Frame
<1>2. ASSUME NEW r \in Runs(free, count)
      PROVE  CyclicDist(cursor, b, NFrames) <= CyclicDist(cursor, r, NFrames)
  <2>1. r \in Nat /\ r < cursor /\ b <= r
    BY <1>2 DEF Runs, Frame
  <2>2. CyclicDist(cursor, b, NFrames) = b + NFrames - cursor
    BY <1>1 DEF CyclicDist
  <2>3. CyclicDist(cursor, r, NFrames) = r + NFrames - cursor
    BY <1>1, <2>1 DEF CyclicDist
  <2> QED
    BY <1>1, <2>1, <2>2, <2>3
<1> QED
  BY <1>2 DEF IsNextFit

\* A run ends within the bitmap.
LEMMA RunsFit ==
  ASSUME free \in SUBSET Frame, NEW count \in Nat \ {0}, NEW r \in Runs(free, count)
  PROVE  r \in Nat /\ r + count <= NFrames
<1>1. r \in Nat /\ Block(r, count) \subseteq Frame
  <2>1. r \in Frame /\ Block(r, count) \subseteq free
    BY DEF Runs
  <2>2. \A f \in Frame : f \in Nat
    BY DEF Frame
  <2> QED
    BY <2>1, <2>2, Zenon
<1>2. r + count - 1 \in Block(r, count)
  BY <1>1 DEF Block
<1>3. r + count - 1 \in Frame
  BY <1>1, <1>2
<1> QED
  BY <1>1, <1>3, NFramesAssumption DEF Frame

-----------------------------------------------------------------------------
(* The scan *)

\* One turn of the loop of alloc_contiguous.
ScanTurn(prev, count) ==
  LET wraps == prev.frame >= NFrames
      at == IF wraps THEN 0 ELSE prev.frame
      run == IF at \in free THEN (IF wraps THEN 0 ELSE prev.run) + 1 ELSE 0
  IN  IF prev.base # NoFrame
      THEN prev
      ELSE [frame |-> at + 1, run |-> run,
            base |-> IF run = count THEN at + 1 - count ELSE NoFrame]

\* Where the scan may stand after i frames: before the end of the bitmap, in
\* the second pass, or once more past its end, and then there is no run.
Stands(i, frame, run, count) ==
  \/ frame = cursor + i /\ Seen(cursor, frame, run, count)
  \/ /\ frame + NFrames = cursor + i /\ Seen(0, frame, run, count)
     /\ \A r \in Runs(free, count) : r < cursor
  \/ Seen(0, frame, run, count) /\ Runs(free, count) = {}

ScanInv(i, s, count) ==
  IF s.base # NoFrame THEN IsNextFit(free, cursor, count, s.base)
  ELSE /\ s.frame \in 0 .. NFrames /\ s.run \in Nat /\ s.run < count
       /\ Stands(i, s.frame, s.run, count)

\* Going round the end of the bitmap.
LEMMA StandsWrapped ==
  ASSUME free \in SUBSET Frame, cursor \in 0 .. NFrames, NEW count \in Nat \ {0}, NEW i \in Nat,
         NEW run, Stands(i, NFrames, run, count)
  PROVE  Stands(i, 0, 0, count)
<1>1. Seen(0, 0, 0, count)
  BY SeenNothing
<1>2. NFrames \in Nat /\ cursor \in Nat
  BY NFramesAssumption
<1>3. \A r \in Runs(free, count) : r \in Nat /\ r + count <= NFrames
  BY RunsFit
<1>4. CASE NFrames = cursor + i /\ Seen(cursor, NFrames, run, count)
  <2>1. ASSUME NEW r \in Runs(free, count) PROVE r < cursor
    <3>1. cursor <= r => NFrames < r + count
      BY <1>4 DEF Seen
    <3>2. r \in Nat /\ r + count <= NFrames
      BY <1>3
    <3> QED
      BY <1>2, <3>1, <3>2
  <2>2. 0 + NFrames = cursor + i
    BY <1>2, <1>4
  <2> QED
    BY <1>1, <2>1, <2>2 DEF Stands
<1>5. CASE Seen(0, NFrames, run, count)
  <2>1. ASSUME NEW r \in Runs(free, count) PROVE FALSE
    <3>1. 0 <= r => NFrames < r + count
      BY <1>5 DEF Seen
    <3>2. r \in Nat /\ r + count <= NFrames
      BY <1>3
    <3> QED
      BY <1>2, <3>1, <3>2
  <2>2. Runs(free, count) = {}
    BY <2>1
  <2> QED
    BY <1>1, <2>2 DEF Stands
<1> QED
  BY <1>4, <1>5 DEF Stands

LEMMA ScanTurnInv ==
  ASSUME free \in SUBSET Frame, cursor \in 0 .. NFrames, NEW count \in Nat \ {0}, NEW i \in Nat,
         NEW s, ScanInv(i, s, count)
  PROVE  ScanInv(i + 1, ScanTurn(s, count), count)
<1>1. CASE s.base # NoFrame
  BY <1>1 DEF ScanInv, ScanTurn
<1>2. CASE s.base = NoFrame
  <2>0. NFrames \in Nat /\ NFrames # 0 /\ cursor \in Nat
    BY NFramesAssumption
  <2>1. s.frame \in 0 .. NFrames /\ s.run \in Nat /\ s.run < count /\ Stands(i, s.frame, s.run, count)
    BY <1>2 DEF ScanInv
  <2>2. PICK at, run0 : /\ at = (IF s.frame >= NFrames THEN 0 ELSE s.frame)
                        /\ run0 = (IF s.frame >= NFrames THEN 0 ELSE s.run)
    OBVIOUS
  <2>3. at \in Nat /\ at < NFrames /\ run0 \in Nat /\ run0 < count
    BY <2>0, <2>1, <2>2
  <2>4. Stands(i, at, run0, count)
    <3>1. CASE s.frame >= NFrames
      <4>1. s.frame = NFrames
        BY <2>0, <2>1, <3>1
      <4>2. Stands(i, NFrames, s.run, count)
        BY <2>1, <4>1
      <4>3. Stands(i, 0, 0, count)
        BY <4>2, StandsWrapped
      <4> QED
        BY <2>2, <3>1, <4>3
    <3>2. CASE ~(s.frame >= NFrames)
      BY <2>1, <2>2, <3>2
    <3> QED
      BY <3>1, <3>2
  <2>5. PICK run2 : run2 = IF at \in free THEN run0 + 1 ELSE 0
    OBVIOUS
  <2>6. PICK t : t = ScanTurn(s, count)
    OBVIOUS
  <2>7. t = [frame |-> at + 1, run |-> run2,
             base |-> IF run2 = count THEN at + 1 - count ELSE NoFrame]
    BY <1>2, <2>2, <2>5, <2>6 DEF ScanTurn
  <2>8. CASE run2 = count
    <3> DEFINE b == at + 1 - count
    <3>1. t.base = b
      BY <2>7, <2>8
    <3>2. ASSUME NEW lo \in Nat, Seen(lo, at, run0, count)
          PROVE  b \in Runs(free, count) /\ lo <= b /\ \A r \in Runs(free, count) : lo <= r => b <= r
      BY <2>3, <2>5, <2>8, <3>2, SeenOneMore
    <3> HIDE DEF b
    <3>3. IsNextFit(free, cursor, count, b)
      <4>1. CASE Seen(cursor, at, run0, count)
        BY <2>0, <3>2, <4>1, FitAfter
      <4>2. CASE Seen(0, at, run0, count) /\ \A r \in Runs(free, count) : r < cursor
        <5>1. b \in Runs(free, count) /\ \A r \in Runs(free, count) : 0 <= r => b <= r
          BY <3>2, <4>2
        <5>2. \A r \in Runs(free, count) : 0 <= r
          BY DEF Runs, Frame
        <5> QED
          BY <4>2, <5>1, <5>2, FitAround
      <4>3. CASE Seen(0, at, run0, count) /\ Runs(free, count) = {}
        BY <3>2, <4>3
      <4> QED
        BY <2>4, <4>1, <4>2, <4>3 DEF Stands
    <3>4. b # NoFrame
      BY <2>0, <3>3 DEF IsNextFit, Runs, Frame, NoFrame
    <3> QED
      BY <2>6, <3>1, <3>3, <3>4 DEF ScanInv
  <2>9. CASE run2 # count
    <3>1. t.base = NoFrame /\ t.frame = at + 1 /\ t.run = run2
      BY <2>7, <2>9
    <3>2. run2 \in Nat /\ run2 < count
      BY <2>3, <2>5, <2>9
    <3>3. ASSUME NEW lo \in Nat, Seen(lo, at, run0, count)
          PROVE  Seen(lo, at + 1, run2, count)
      BY <2>3, <2>5, <2>9, <3>3, SeenOneMore
    <3>4. at + 1 \in 0 .. NFrames
      BY <2>0, <2>3
    <3>5. Stands(i + 1, at + 1, run2, count)
      <4>1. CASE at = cursor + i /\ Seen(cursor, at, run0, count)
        <5>1. at + 1 = cursor + (i + 1)
          BY <2>0, <2>3, <4>1
        <5> QED
          BY <2>0, <3>3, <4>1, <5>1 DEF Stands
      <4>2. CASE /\ at + NFrames = cursor + i /\ Seen(0, at, run0, count)
                 /\ \A r \in Runs(free, count) : r < cursor
        <5>1. at + 1 + NFrames = cursor + (i + 1)
          BY <2>0, <2>3, <4>2
        <5> QED
          BY <3>3, <4>2, <5>1 DEF Stands
      <4>3. CASE Seen(0, at, run0, count) /\ Runs(free, count) = {}
        BY <3>3, <4>3 DEF Stands
      <4> QED
        BY <2>4, <4>1, <4>2, <4>3 DEF Stands
    <3> QED
      BY <2>6, <3>1, <3>2, <3>4, <3>5 DEF ScanInv
  <2> QED
    BY <2>8, <2>9
<1> QED
  BY <1>1, <1>2

\* After two passes the scan has found the next fit, or there is none.
LEMMA ScanEnds ==
  ASSUME free \in SUBSET Frame, cursor \in 0 .. NFrames, NEW count \in Nat \ {0},
         NEW s, ScanInv(2 * NFrames, s, count)
  PROVE  IF Runs(free, count) = {} THEN s.base = NoFrame
         ELSE IsNextFit(free, cursor, count, s.base)
<1>1. CASE s.base # NoFrame
  BY <1>1 DEF ScanInv, IsNextFit
<1>2. CASE s.base = NoFrame
  <2>0. NFrames \in Nat /\ NFrames # 0 /\ cursor \in Nat /\ cursor <= NFrames
    BY NFramesAssumption
  <2>1. PICK frame, run : /\ frame \in 0 .. NFrames
                          /\ Stands(2 * NFrames, frame, run, count)
    BY <1>2 DEF ScanInv
  <2>2. ~(frame = cursor + 2 * NFrames)
    BY <2>0, <2>1
  <2>3. CASE frame + NFrames = cursor + 2 * NFrames /\ Seen(0, frame, run, count)
    <3>1. frame = NFrames
      BY <2>0, <2>1, <2>3
    <3>2. ASSUME NEW r \in Runs(free, count) PROVE FALSE
      <4>1. 0 <= r => NFrames < r + count
        BY <2>3, <3>1 DEF Seen
      <4>2. r \in Nat /\ r + count <= NFrames
        BY RunsFit
      <4> QED
        BY <2>0, <4>1, <4>2
    <3> QED
      BY <1>2, <3>2
  <2> QED
    BY <1>2, <2>1, <2>2, <2>3 DEF Stands
<1> QED
  BY <1>1, <1>2

\* Whatever the bitmap and the cursor, the scan of alloc_contiguous finds the
\* next fit, and none only when there is none.
LEMMA ScanIsNextFit ==
  ASSUME free \in SUBSET Frame, cursor \in 0 .. NFrames, NEW count \in Nat \ {0}
  PROVE  LET base == ScanLoop(free, cursor, count)
         IN  IF Runs(free, count) = {} THEN base = NoFrame
             ELSE IsNextFit(free, cursor, count, base)
<1> DEFINE Start == [frame |-> cursor, run |-> 0, base |-> NoFrame]
           last == 2 * NFrames
           Walk(g, n) == /\ g = [k \in 0 .. n |-> g[k]]
                         /\ g[0] = Start /\ \A k \in 1 .. n : g[k] = ScanTurn(g[k - 1], count)
           G == { n \in Nat : \E g : Walk(g, n) }
<1>1. last \in Nat
  BY NFramesAssumption
<1>2. 0 \in G
  <2>1. Walk([k \in 0 .. 0 |-> Start], 0)
    OBVIOUS
  <2> QED
    BY <2>1, Zenon
<1>3. ASSUME NEW n \in G PROVE n + 1 \in G
  <2>1. PICK g : Walk(g, n)
    BY <1>3
  <2> DEFINE h == [k \in 0 .. (n + 1) |-> IF k = n + 1 THEN ScanTurn(g[n], count) ELSE g[k]]
  <2>2. n \in Nat /\ n + 1 \in Nat
    BY <1>3
  <2>3. h = [k \in 0 .. (n + 1) |-> h[k]] /\ h[0] = Start
    BY <2>1, <2>2
  <2>4. ASSUME NEW k \in 1 .. (n + 1) PROVE h[k] = ScanTurn(h[k - 1], count)
    <3>1. CASE k = n + 1
      BY <2>2, <3>1
    <3>2. CASE k # n + 1
      <4>1. k \in 1 .. n /\ k \in 0 .. (n + 1) /\ k - 1 \in 0 .. (n + 1) /\ k - 1 # n + 1
        BY <2>2, <3>2
      <4> QED
        BY <2>1, <3>2, <4>1
    <3> QED
      BY <3>1, <3>2
  <2>5. Walk(h, n + 1)
    BY <2>3, <2>4
  <2> QED
    BY <2>2, <2>5
<1>4. last \in G
  <2> HIDE DEF G, last
  <2> QED
    BY <1>1, <1>2, <1>3, NatInduct
<1>5. PICK g : Walk(g, last)
  BY <1>4
<1> DEFINE Def(scan) ==
      [i \in 0 .. last |->
        IF i = 0
        THEN [frame |-> cursor, run |-> 0, base |-> NoFrame]
        ELSE LET prev == scan[i - 1]
                 wraps == prev.frame >= NFrames
                 at == IF wraps THEN 0 ELSE prev.frame
                 run == IF at \in free
                        THEN (IF wraps THEN 0 ELSE prev.run) + 1 ELSE 0
             IN  IF prev.base # NoFrame
                 THEN prev
                 ELSE [frame |-> at + 1,
                       run   |-> run,
                       base  |-> IF run = count THEN at + 1 - count
                                                ELSE NoFrame]]
           scan == CHOOSE scan : scan = Def(scan)
<1>6. g = Def(g)
  <2>1. ASSUME NEW k \in 0 .. last PROVE g[k] = Def(g)[k]
    <3>1. k = 0 \/ k \in 1 .. last
      BY <1>1
    <3> HIDE DEF last
    <3> QED
      BY <1>5, <3>1 DEF ScanTurn
  <2> HIDE DEF last
  <2> QED
    BY <1>5, <2>1
<1>7. ScanLoop(free, cursor, count) = scan[last].base
  BY DEF ScanLoop
<1>8. scan = Def(scan)
  BY <1>6, Zenon
<1> HIDE DEF scan, last
<1>9. scan[0] = Start /\ \A k \in 1 .. last : scan[k] = ScanTurn(scan[k - 1], count)
  <2>1. ASSUME NEW k \in 0 .. last PROVE scan[k] = Def(scan)[k]
    BY <1>8, Zenon
  <2>2. 0 \in 0 .. last
    BY <1>1
  <2>3. scan[0] = Start
    BY <2>1, <2>2
  <2>4. ASSUME NEW k \in 1 .. last PROVE scan[k] = ScanTurn(scan[k - 1], count)
    <3>1. k \in 0 .. last /\ k # 0
      BY <1>1
    <3>2. scan[k] = Def(scan)[k]
      BY <2>1, <3>1
    <3> QED
      BY <3>1, <3>2 DEF ScanTurn
  <2> QED
    BY <2>3, <2>4
<1> DEFINE H == { n \in Nat : n <= last => ScanInv(n, scan[n], count) }
<1>10. 0 \in H
  <2>1. cursor \in Nat /\ NoFrame = NFrames
    BY NFramesAssumption DEF NoFrame
  <2>2. Stands(0, cursor, 0, count)
    BY <2>1, SeenNothing DEF Stands
  <2>3. ScanInv(0, Start, count)
    BY <2>2 DEF ScanInv
  <2> QED
    BY <1>9, <2>3
<1> HIDE DEF Start
<1>11. ASSUME NEW n \in H PROVE n + 1 \in H
  <2> SUFFICES ASSUME n + 1 <= last PROVE ScanInv(n + 1, scan[n + 1], count)
    BY <1>11
  <2>1. n \in Nat /\ n <= last /\ n + 1 \in 1 .. last /\ (n + 1) - 1 = n
    BY <1>1, <1>11
  <2>2. ScanInv(n, scan[n], count)
    BY <1>11, <2>1
  <2>3. scan[n + 1] = ScanTurn(scan[n], count)
    BY <1>9, <2>1
  <2> QED
    BY <2>1, <2>2, <2>3, ScanTurnInv
<1>12. last \in H
  <2> HIDE DEF H
  <2> QED
    BY <1>1, <1>10, <1>11, NatInduct
<1>13. ScanInv(2 * NFrames, scan[last], count)
  <2>1. ScanInv(last, scan[last], count)
    BY <1>1, <1>12
  <2> QED
    BY <2>1 DEF last
<1> QED
  BY <1>7, <1>13, ScanEnds

\* In every state reached, whatever the task frees and allocates, the loop of
\* alloc_contiguous, cut off after two passes over the bitmap, returns the
\* next fit for a page and for a kernel stack, and None only when the bitmap
\* holds no such run.
THEOREM ScanIsExact == Spec => []ScanFindsNextFit
<1>1. TypeInv => ScanFindsNextFit
  <2> SUFFICES ASSUME TypeInv, NEW count \in {1, KSTACK_FRAMES}
               PROVE  LET base == ScanLoop(free, cursor, count)
                      IN  IF Runs(free, count) = {}
                          THEN base = NoFrame
                          ELSE IsNextFit(free, cursor, count, base)
    BY DEF ScanFindsNextFit
  <2>1. free \in SUBSET Frame /\ cursor \in 0 .. NFrames
    BY DEF TypeInv, TypeOK
  <2>2. count \in Nat \ {0}
    BY SchedulerAssumption
  <2> QED
    BY <2>1, <2>2, ScanIsNextFit
<1> QED
  BY <1>1, TypeInit, TypeStep, PTL DEF Spec
=============================================================================
