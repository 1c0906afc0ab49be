------------------------------ MODULE Scheduler ------------------------------
(***************************************************************************)
(* Tasks and preemption (src/src/scheduler.rs) with the frames they own    *)
(* (frames.rs, paging.rs) on the one core that schedules.                  *)
(*                                                                         *)
(* An action is a stretch of code no interrupt can split: an instruction   *)
(* sequence with IRQs masked, or one call into the frame allocator.  Code  *)
(* that runs unmasked (spawn and reap in the kernel task) is cut where an  *)
(* interrupt may come in, and `op` says where it is.                       *)
(*                                                                         *)
(* The slots are a fixed array: the Vec of the code only grows when it has *)
(* no free slot, and free slots are skipped by every search, so a Vec of   *)
(* length n is an array whose slots from n on are free.                    *)
(***************************************************************************)
EXTENDS Frames

CONSTANTS
  MaxSlots,       \* bound on the task table
  MaxPid,         \* bound on the pids handed out
  KSTACK_FRAMES,  \* frames of a kernel stack
  PlanLen,        \* frames of a user address space
  PlanPages       \* positions 1..PlanLen at which spawn allocates a page of
                  \* the image or the stack; at the others the Mapper
                  \* allocates a page table

Slot == 0 .. MaxSlots - 1

ASSUME SchedulerAssumption ==
  /\ MaxSlots \in Nat \ {0}
  /\ MaxPid \in Nat \ {0}
  /\ KSTACK_FRAMES \in Nat \ {0}
  /\ PlanLen \in Nat
  /\ PlanPages \subseteq 1 .. PlanLen

VARIABLES
  slots,       \* TASKS
  current,     \* CURRENT
  cpu,         \* the stack and the page tables the core is using
  mode,        \* what the core is in the middle of
  preempt,     \* PREEMPT
  resched,     \* NEED_RESCHED
  nextPid,     \* NEXT_PID
  free,        \* the clear bits of the frame bitmap
  cursor,      \* its next-fit cursor
  op,          \* where the kernel task is in spawn or reap
  step,        \*   how far an address space is built
  space,       \*   frames of that space (spawn's local, or the reaped task's)
  stack,       \*   frames of that kernel stack
  lost         \* frames nobody can free any more

schedVars == <<slots, current, cpu, mode, preempt, resched, nextPid>>
frameVars == <<free, cursor>>
opVars == <<op, step, space, stack, lost>>
vars == <<schedVars, frameVars, opVars>>

States == {"none", "ready", "running", "zombie"}
Modes == {"task", "irq", "dying", "halted"}
Ops == {"idle", "mapping", "kstack", "publish", "unmap", "freestack"}

\* State and Task; a free slot is the None of Option<Task>.
TaskRecord == [pid : 0 .. MaxPid, state : States,
               kstack : SUBSET Frame, space : SUBSET Frame]
NoTask == [pid |-> 0, state |-> "none", kstack |-> {}, space |-> {}]
KernelTask == [pid |-> 1, state |-> "running", kstack |-> {}, space |-> {}]

SlotsIn(st) == { s \in Slot : slots[s].state = st }
Held(s) == slots[s].kstack \cup slots[s].space

\* Slot 0 runs on the boot stack and the kernel's own page tables, which
\* are in the reserved ranges and never in the bitmap.
Init ==
  /\ slots = [s \in Slot |-> IF s = 0 THEN KernelTask ELSE NoTask]
  /\ current = 0
  /\ cpu = [kstack |-> {}, space |-> {}]
  /\ mode = "task"
  /\ preempt = FALSE
  /\ resched = FALSE
  /\ nextPid = 2
  /\ free = Frame
  /\ cursor = 0
  /\ op = "idle"
  /\ step = 1
  /\ space = {}
  /\ stack = {}
  /\ lost = {}
-----------------------------------------------------------------------------
(* Switching *)

\* Faulty PickNexts: one scans from slot 0 and not from `from`, one takes a
\* zombie for runnable.
PickLowest(from, next) ==
  /\ next \in SlotsIn("ready")
  /\ \A s \in SlotsIn("ready") : next <= s

PickNotRunning(from, next) ==
  /\ next \in SlotsIn("ready") \cup SlotsIn("zombie")
  /\ \A s \in SlotsIn("ready") \cup SlotsIn("zombie") :
       CyclicDist(from + 1, next, MaxSlots) <= CyclicDist(from + 1, s, MaxSlots)

\* pick_next(from): the first Ready slot after `from`, going round.
PickNext(from, next) ==
  /\ next \in SlotsIn("ready")
  /\ \A s \in SlotsIn("ready") :
       CyclicDist(from + 1, next, MaxSlots) <= CyclicDist(from + 1, s, MaxSlots)

\* A faulty SwitchTo: TTBR0 is left as it is.
SwitchKeepsRoot(next, left) ==
  /\ slots' = [slots EXCEPT ![current].state = left, ![next].state = "running"]
  /\ current' = next
  /\ cpu' = [kstack |-> slots[next].kstack, space |-> cpu.space]

\* switch_to(next), once the slot of the task that leaves is `left`.
SwitchTo(next, left) ==
  /\ slots' = [slots EXCEPT ![current].state = left, ![next].state = "running"]
  /\ current' = next
  /\ cpu' = [kstack |-> slots[next].kstack, space |-> slots[next].space]

YieldNow ==
  \/ /\ SlotsIn("ready") = {}
     /\ UNCHANGED <<slots, current, cpu>>
  \/ \E next \in Slot :
       /\ PickNext(current, next)
       /\ SwitchTo(next, IF slots[current].state = "running"
                         THEN "ready" ELSE slots[current].state)

\* yield_now from a task: SVC 3, run_until_idle, or a polling loop of a
\* kernel task.  Whoever is switched to resumes in its own yield, IRQ tail
\* or trampoline and unmasks there.
Yield ==
  /\ mode = "task"
  /\ YieldNow
  /\ UNCHANGED <<mode, preempt, resched, nextPid, frameVars, opVars>>

EnablePreemption ==
  /\ mode = "task"
  /\ current = 0
  /\ op = "idle"
  /\ ~preempt
  /\ preempt' = TRUE
  /\ UNCHANGED <<slots, current, cpu, mode, resched, nextPid, frameVars, opVars>>

\* A faulty TimerIrq: the interrupt is also taken in exit_current, as if it
\* did not mask.
TimerIrqUnmasked ==
  /\ mode \in {"task", "dying"}
  /\ mode' = "irq"
  /\ resched' = (resched \/ preempt)
  /\ UNCHANGED <<slots, current, cpu, preempt, nextPid, frameVars, opVars>>

\* The timer interrupt: handle_irq dispatches tick ...
TimerIrq ==
  /\ mode = "task"
  /\ mode' = "irq"
  /\ resched' = (resched \/ preempt)
  /\ UNCHANGED <<slots, current, cpu, preempt, nextPid, frameVars, opVars>>

\* ... and ends, after EOI, with maybe_preempt.
IrqTail ==
  /\ mode = "irq"
  /\ mode' = "task"
  /\ resched' = FALSE
  /\ IF resched THEN YieldNow ELSE UNCHANGED <<slots, current, cpu>>
  /\ UNCHANGED <<preempt, nextPid, frameVars, opVars>>

\* exit_current: mask and become a zombie, still on the task's own stack ...
Exit ==
  /\ mode = "task"
  /\ current # 0
  /\ mode' = "dying"
  /\ slots' = [slots EXCEPT ![current].state = "zombie"]
  /\ UNCHANGED <<current, cpu, preempt, resched, nextPid, frameVars, opVars>>

\* ... then leave it for the next Ready task, which the code expects to be
\* there.
ExitSwitch ==
  /\ mode = "dying"
  /\ \E next \in Slot :
       /\ PickNext(current, next)
       /\ SwitchTo(next, slots[current].state)
  /\ mode' = "task"
  /\ UNCHANGED <<preempt, resched, nextPid, frameVars, opVars>>
-----------------------------------------------------------------------------
(* The kernel task: spawn, spawn_kernel and reap *)

InKernelTask(where) == mode = "task" /\ current = 0 /\ op = where

\* A faulty Alloc: the cursor is left one too far.
AllocSkipsOne(count, base) ==
  /\ IsNextFit(free, cursor, count, base)
  /\ free' = free \ Block(base, count)
  /\ cursor' = base + count + 1

\* alloc_contiguous(count) when it succeeds
Alloc(count, base) ==
  /\ IsNextFit(free, cursor, count, base)
  /\ free' = free \ Block(base, count)
  /\ cursor' = base + count

\* Room for one more task within the bounds of the model.
RoomForTask == nextPid <= MaxPid /\ SlotsIn("none") # {}

SpawnUser ==
  /\ InKernelTask("idle")
  /\ RoomForTask
  /\ op' = "mapping"
  /\ step' = 1
  /\ UNCHANGED <<schedVars, frameVars, space, stack, lost>>

SpawnKernel ==
  /\ InKernelTask("idle")
  /\ RoomForTask
  /\ op' = "kstack"
  /\ UNCHANGED <<schedVars, frameVars, step, space, stack, lost>>

\* The next frame of the address space: Mapper::new, alloc_zeroed in spawn,
\* or child_table in map_user_page.
MapFrame ==
  /\ InKernelTask("mapping")
  /\ step <= PlanLen
  /\ \E base \in Frame : Alloc(1, base) /\ space' = space \cup {base}
  /\ step' = step + 1
  /\ UNCHANGED <<schedVars, op, stack, lost>>

SpaceBuilt ==
  /\ InKernelTask("mapping")
  /\ step > PlanLen
  /\ op' = "kstack"
  /\ UNCHANGED <<schedVars, frameVars, step, space, stack, lost>>

AllocStack ==
  /\ InKernelTask("kstack")
  /\ \E base \in Frame :
       Alloc(KSTACK_FRAMES, base) /\ stack' = Block(base, KSTACK_FRAMES)
  /\ op' = "publish"
  /\ UNCHANGED <<schedVars, step, space, lost>>

\* `?` on an allocation: spawn returns None.  The Mapper has no Drop, so
\* whatever was mapped by then stays marked used.
SpawnFails ==
  /\ \/ InKernelTask("mapping") /\ step \in PlanPages /\ Runs(free, 1) = {}
     \/ InKernelTask("kstack") /\ Runs(free, KSTACK_FRAMES) = {}
  /\ lost' = lost \cup space
  /\ space' = {}
  /\ op' = "idle"
  /\ UNCHANGED <<schedVars, frameVars, step, stack>>

\* expect() on an allocation: no frame for a page table is a panic.
Panic ==
  /\ InKernelTask("mapping")
  /\ step \in (1 .. PlanLen) \ PlanPages
  /\ Runs(free, 1) = {}
  /\ mode' = "halted"
  /\ UNCHANGED <<slots, current, cpu, preempt, resched, nextPid,
                 frameVars, opVars>>

\* Take a pid and put the task in the first free slot.  (NEXT_PID is
\* incremented just before the critical section; only the kernel task
\* spawns, so nothing can come between that matters.)
Publish ==
  /\ InKernelTask("publish")
  /\ \E s \in SlotsIn("none") :
       /\ \A t \in SlotsIn("none") : s <= t
       /\ slots' = [slots EXCEPT ![s] = [pid    |-> nextPid,
                                         state  |-> "ready",
                                         kstack |-> stack,
                                         space  |-> space]]
  /\ nextPid' = nextPid + 1
  /\ op' = "idle"
  /\ space' = {}
  /\ stack' = {}
  /\ UNCHANGED <<current, cpu, mode, preempt, resched, frameVars, step, lost>>

\* Faulty Reaps: one leaves the task in the table, one overlooks tasks with no
\* address space of their own.
ReapKeepsSlot ==
  /\ InKernelTask("idle")
  /\ \E z \in SlotsIn("zombie") :
       /\ \A s \in SlotsIn("zombie") : z <= s
       /\ space' = slots[z].space
       /\ stack' = slots[z].kstack
  /\ op' = "unmap"
  /\ UNCHANGED <<schedVars, frameVars, step, lost>>

ReapUserOnly ==
  /\ InKernelTask("idle")
  /\ \E z \in SlotsIn("zombie") :
       /\ slots[z].space # {}
       /\ space' = slots[z].space
       /\ stack' = slots[z].kstack
       /\ slots' = [slots EXCEPT ![z] = NoTask]
  /\ op' = "unmap"
  /\ UNCHANGED <<current, cpu, mode, preempt, resched, nextPid, frameVars,
                 step, lost>>

\* reap: take the first zombie out of the table ...
Reap ==
  /\ InKernelTask("idle")
  /\ \E z \in SlotsIn("zombie") :
       /\ \A s \in SlotsIn("zombie") : z <= s
       /\ space' = slots[z].space
       /\ stack' = slots[z].kstack
       /\ slots' = [slots EXCEPT ![z] = NoTask]
  /\ op' = "unmap"
  /\ UNCHANGED <<current, cpu, mode, preempt, resched, nextPid, frameVars,
                 step, lost>>

\* ... free_user_space ...
FreeSpace ==
  /\ InKernelTask("unmap")
  /\ free' = free \cup space
  /\ space' = {}
  /\ op' = "freestack"
  /\ UNCHANGED <<schedVars, cursor, step, stack, lost>>

\* ... and the kernel stack.
FreeStack ==
  /\ InKernelTask("freestack")
  /\ free' = free \cup stack
  /\ stack' = {}
  /\ op' = "idle"
  /\ UNCHANGED <<schedVars, cursor, step, space, lost>>

Halted == mode = "halted" /\ UNCHANGED vars
-----------------------------------------------------------------------------
KernelStep ==
  \/ MapFrame \/ SpaceBuilt \/ AllocStack \/ SpawnFails \/ Panic \/ Publish
  \/ FreeSpace \/ FreeStack

Next ==
  \/ Yield \/ EnablePreemption \/ TimerIrq \/ IrqTail \/ Exit \/ ExitSwitch
  \/ SpawnUser \/ SpawnKernel \/ Reap \/ KernelStep \/ Halted

\* The timer keeps firing and the core keeps executing what it is in the
\* middle of.  The kernel task gets on with a spawn or reap it is in when it
\* has the CPU often enough: a step it was preempted in is resumed where it
\* was.  The desktop loop comes round to reap() again and again, so it does
\* not spawn for ever while a zombie waits.  No task is assumed to yield or
\* to exit.
Fairness ==
  /\ WF_vars(TimerIrq)
  /\ WF_vars(IrqTail)
  /\ WF_vars(ExitSwitch)
  /\ SF_vars(KernelStep)
  /\ SF_vars(Reap)

Spec == Init /\ [][Next]_vars
FairSpec == Spec /\ Fairness
-----------------------------------------------------------------------------
(* Properties *)

\* Every variable has its type.
TypeOK ==
  /\ slots \in [Slot -> TaskRecord]
  /\ current \in Slot
  /\ cpu \in [kstack : SUBSET Frame, space : SUBSET Frame]
  /\ mode \in Modes
  /\ preempt \in BOOLEAN
  /\ resched \in BOOLEAN
  /\ nextPid \in 2 .. MaxPid + 1
  /\ free \in SUBSET Frame
  /\ cursor \in 0 .. NFrames
  /\ op \in Ops
  /\ step \in 1 .. PlanLen + 1
  /\ space \in SUBSET Frame
  /\ stack \in SUBSET Frame
  /\ lost \in SUBSET Frame

\* A dying task always finds another task to switch to: the expect() in
\* exit_current ("no runnable task left") cannot fail.  Exactly the running
\* task is in state Running, whatever interrupts, exits and reaps came
\* between.
SomewhereToSwitch ==
  /\ mode = "dying" => /\ SlotsIn("ready") # {}
                       /\ SlotsIn("running") = {}
                       /\ slots[current].state = "zombie"
  /\ mode # "dying" => SlotsIn("running") = {current}

\* No frame is in two places: free, held by one task as stack or as address
\* space, in the hands of the spawn or reap under way, or lost.
FramesDisjoint ==
  /\ \A s \in Slot :
       /\ slots[s].kstack \cap slots[s].space = {}
       /\ Held(s) \cap (free \cup lost \cup space \cup stack) = {}
  /\ \A s, t \in Slot : s # t => Held(s) \cap Held(t) = {}
  /\ space \cap stack = {}
  /\ (space \cup stack) \cap (free \cup lost) = {}
  /\ free \cap lost = {}

\* Every frame is in one of these places.
FramesAccounted ==
  \A f \in Frame : \/ f \in free \cup lost \cup space \cup stack
                   \/ \E s \in Slot : f \in Held(s)

\* No frame is allocated twice, freed twice or freed while a task holds it
\* (the debug_asserts of mark, which a release build does not run), and none
\* leaks but those of a spawn that failed.
FramesPartitioned == FramesDisjoint /\ FramesAccounted

\* The stack and the page tables the core is using belong to the current
\* task, also while it dies: nobody frees them under it
\* ("Only call ... with some other root loaded in TTBR0").
CpuFramesLive == cpu = [kstack |-> slots[current].kstack,
                        space  |-> slots[current].space]

\* The scan of alloc_contiguous, cut off after two passes, finds the next
\* fit whenever there is one, for every bitmap and cursor that is reached.
ScanFindsNextFit ==
  \A count \in {1, KSTACK_FRAMES} :
    LET base == ScanLoop(free, cursor, count)
    IN  IF Runs(free, count) = {}
        THEN base = NoFrame
        ELSE IsNextFit(free, cursor, count, base)

PidsIn(st) == { slots[s].pid : s \in SlotsIn(st) }

\* The scheduler implements the life cycle of TaskLife.
Life == INSTANCE TaskLife WITH
          Pid <- 1 .. MaxPid,
          KernelTask <- 1,
          ready <- PidsIn("ready"),
          running <- slots[current].pid,
          dead <- PidsIn("zombie") \ {slots[current].pid},
          created <- 1 .. nextPid - 1

\* No step of the scheduler does to a task what its life cycle forbids: run
\* twice at once, come back from the dead, be reaped twice or on the CPU.
Lifecycle == Life!Spec

\* With preemption on, a task that is ready gets the CPU, whatever the others
\* do: no starvation under round robin, unless the kernel panics.
ReadyRuns ==
  \A s \in Slot :
    (preempt /\ slots[s].state = "ready")
      ~> (slots[s].state = "running" \/ mode = "halted")

\* A task that exits is eventually reaped and its slot is free for another.
ZombieReaped ==
  \A s \in Slot :
    (preempt /\ slots[s].state = "zombie")
      ~> (slots[s].state = "none" \/ mode = "halted")
=============================================================================
