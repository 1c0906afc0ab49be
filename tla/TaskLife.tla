------------------------------ MODULE TaskLife ------------------------------
(***************************************************************************)
(* What the scheduler promises about the life of a task, with no slots,    *)
(* stacks, interrupts or frames: one task has the CPU; a task is created   *)
(* once, may be dispatched any number of times, dies only while it has the *)
(* CPU, hands the CPU on in the same step, and is reaped exactly once, by  *)
(* the kernel task, after it has left the CPU for good.                    *)
(***************************************************************************)
CONSTANTS Pid,        \* task identifiers
          KernelTask  \* the one that is there from the start

VARIABLES ready,    \* tasks that wait for the CPU
          running,  \* the task that has it
          dead,     \* tasks that left it for good and are not reaped yet
          created   \* every task there ever was

lifeVars == <<ready, running, dead, created>>

Init ==
  /\ running = KernelTask
  /\ created = {KernelTask}
  /\ ready = {}
  /\ dead = {}

Create(p) ==
  /\ running = KernelTask
  /\ p \notin created
  /\ created' = created \cup {p}
  /\ ready' = ready \cup {p}
  /\ UNCHANGED <<running, dead>>

Dispatch(p) ==
  /\ p \in ready
  /\ running' = p
  /\ ready' = (ready \ {p}) \cup {running}
  /\ UNCHANGED <<dead, created>>

Die(p) ==
  /\ running # KernelTask
  /\ p \in ready
  /\ dead' = dead \cup {running}
  /\ running' = p
  /\ ready' = ready \ {p}
  /\ UNCHANGED created

Reap(p) ==
  /\ running = KernelTask
  /\ p \in dead
  /\ dead' = dead \ {p}
  /\ UNCHANGED <<ready, running, created>>

Next ==
  \/ \E p \in Pid : Create(p)
  \/ \E p \in ready : Dispatch(p) \/ Die(p)
  \/ \E p \in dead : Reap(p)

Spec == Init /\ [][Next]_lifeVars
=============================================================================
