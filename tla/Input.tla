-------------------------------- MODULE Input --------------------------------
(***************************************************************************)
(* Keyboard and tablet (input.rs): each device fills buffers of its own    *)
(* virtqueue, the interrupt handler drains them into one ring, and the     *)
(* desktop's main loop takes them out, interrupted between any two of its  *)
(* accesses.  The device and the interrupt controller run beside the core. *)
(*                                                                         *)
(* The handler runs with IRQs masked on the core the consumer runs on, so  *)
(* one turn of its loop is one action; the consumer is cut at every        *)
(* access to the shared ring.                                              *)
(***************************************************************************)
EXTENDS Virtqueue, Sequences

CONSTANTS
  Device,     \* the virtio-input devices
  RING,       \* slots of the ring
  MaxEvents,  \* bound on the events reported
  Touched     \* stages of its bring-up in which somebody uses a device

ASSUME InputAssumption ==
  /\ RING \in Nat \ {0}
  /\ MaxEvents \in Nat
  /\ "none" \notin Device
  /\ Touched \subseteq {"posted", "edge", "enabled", "known"}

\* Events are told apart by the order in which they were reported: event n
\* is the one of the device reported[n].
Event == 1 .. MaxEvents
NoEvent == 0
EventSlot == Event \cup {NoEvent}

VARIABLES
  queue,     \* the virtqueue of each device
  buffers,   \* the event in each of its buffers
  line,      \* InterruptStatus of the device: its interrupt line
  latch,     \* the edge the interrupt controller has latched
  boot,      \* how far init_device is
  handling,  \* the device whose interrupt is handled, or "none"
  events,    \* EVENTS
  head,      \* HEAD
  tail,      \* TAIL
  loop,      \* where the main loop is
  ev,        \* the event pop has read
  reported,  \* the devices that reported the events, in order
  got,       \* what the main loop has taken, in order
  dropped    \* what push refused

deviceVars == <<queue, buffers, line, latch, reported>>
ringVars == <<events, head, tail, got, dropped>>
loopVars == <<loop, ev>>
vars == <<deviceVars, boot, handling, ringVars, loopVars>>

BootStages == {"off", "posted", "edge", "enabled", "known"}
LoopStages == {"boot", "head", "slot", "advance", "work", "wfi"}

Ready == \A d \in Device : boot[d] = "known"

Init ==
  /\ queue = [d \in Device |-> NewQueue]
  /\ buffers = [d \in Device |-> [i \in Desc |-> NoEvent]]
  /\ line = [d \in Device |-> FALSE]
  /\ latch = [d \in Device |-> FALSE]
  /\ boot = [d \in Device |-> "off"]
  /\ handling = "none"
  /\ events = [i \in 0 .. RING - 1 |-> NoEvent]
  /\ head = 0
  /\ tail = 0
  /\ loop = "boot"
  /\ ev = NoEvent
  /\ reported = <<>>
  /\ got = <<>>
  /\ dropped = {}
-----------------------------------------------------------------------------
(* Bring-up: init probes the devices one after the other, with IRQs on. *)

\* init_device up to the first notify: every buffer is posted.
PostBuffers(d) ==
  /\ boot[d] = "off"
  /\ \A o \in Device : boot[o] \in {"off", "known"}
  /\ boot' = [boot EXCEPT ![d] = "posted"]
  /\ queue' = [queue EXCEPT ![d] =
                 [NewQueue EXCEPT !.avail = [i \in Desc |-> i], !.availIdx = QLen]]
  /\ UNCHANGED <<buffers, line, latch, reported, handling, ringVars, loopVars>>

\* gic::set_edge, gic::enable, and last the entry of DEVICES.
BootStep(d) ==
  /\ boot[d] \in {"posted", "edge", "enabled"}
  /\ handling = "none"
  /\ boot' = [boot EXCEPT ![d] = CASE @ = "posted" -> "edge"
                                   [] @ = "edge" -> "enabled"
                                   [] OTHER -> "known"]
  /\ UNCHANGED <<deviceVars, handling, ringVars, loopVars>>

StartLoop ==
  /\ loop = "boot"
  /\ Ready
  /\ loop' = "head"
  /\ UNCHANGED <<deviceVars, boot, handling, ringVars, ev>>
-----------------------------------------------------------------------------
(* The device and the interrupt controller. *)

\* The device fills the next posted buffer and raises its line; a rising
\* line is latched once the controller is told the interrupt is an edge.
Report(d) ==
  /\ boot[d] \in Touched
  /\ Len(reported) < MaxEvents
  /\ HasAvail(queue[d])
  /\ LET id == AvailId(queue[d]) IN
       /\ queue' = [queue EXCEPT ![d] = PushUsed(TakeAvail(@), id)]
       /\ buffers' = [buffers EXCEPT ![d][id] = Len(reported) + 1]
  /\ reported' = Append(reported, d)
  /\ line' = [line EXCEPT ![d] = TRUE]
  /\ latch' = [latch EXCEPT ![d] = @ \/ (~line[d] /\ boot[d] # "posted")]
  /\ UNCHANGED <<boot, handling, ringVars, loopVars>>
-----------------------------------------------------------------------------
(* handle_irq and on_irq. *)

\* An interrupt ends a wfi.
Woken == IF loop = "wfi" THEN "head" ELSE loop

\* A faulty EnterIrq: the device is not acknowledged.
EnterIrqNoAck(d) ==
  /\ handling = "none"
  /\ latch[d]
  /\ boot[d] \in {"enabled", "known"}
  /\ latch' = [latch EXCEPT ![d] = FALSE]
  /\ handling' = IF boot[d] = "known" THEN d ELSE "none"
  /\ loop' = Woken
  /\ UNCHANGED <<queue, buffers, line, reported, boot, ringVars, ev>>

\* The interrupt is taken and dispatched.  on_irq finds the device by its
\* INTID in DEVICES and acknowledges it before it drains anything; of a
\* device that is not there yet it acknowledges nothing.
EnterIrq(d) ==
  /\ handling = "none"
  /\ latch[d]
  /\ boot[d] \in {"enabled", "known"}
  /\ latch' = [latch EXCEPT ![d] = FALSE]
  /\ IF boot[d] = "known"
     THEN line' = [line EXCEPT ![d] = FALSE] /\ handling' = d
     ELSE UNCHANGED <<line, handling>>
  /\ loop' = Woken
  /\ UNCHANGED <<queue, buffers, reported, boot, ringVars, ev>>

\* A faulty Push that overwrites the oldest event when the ring is full.
PushOver(e) ==
  /\ events' = [events EXCEPT ![head % RING] = e]
  /\ head' = head + 1
  /\ UNCHANGED dropped

\* A faulty Push that takes one event too many.
PushOneMore(e) ==
  IF head - tail > RING
  THEN dropped' = dropped \cup {e} /\ UNCHANGED <<events, head>>
  ELSE /\ events' = [events EXCEPT ![head % RING] = e]
       /\ head' = head + 1
       /\ UNCHANGED dropped

\* push: the newest event is dropped when the ring is full.
Push(e) ==
  IF head - tail >= RING
  THEN dropped' = dropped \cup {e} /\ UNCHANGED <<events, head>>
  ELSE /\ events' = [events EXCEPT ![head % RING] = e]
       /\ head' = head + 1
       /\ UNCHANGED dropped

\* A faulty Drain that forgets to post the buffer again.
DrainKeeps(d) ==
  /\ handling = d
  /\ HasUsed(queue[d])
  /\ Push(buffers[d][UsedId(queue[d])])
  /\ queue' = [queue EXCEPT ![d] = PopUsed(@)]
  /\ UNCHANGED <<buffers, line, latch, reported, boot, handling, tail, got, loopVars>>

\* One turn of on_irq's loop.
Drain(d) ==
  /\ handling = d
  /\ HasUsed(queue[d])
  /\ LET id == UsedId(queue[d]) IN
       /\ Push(buffers[d][id])
       /\ queue' = [queue EXCEPT ![d] = PushAvail(PopUsed(@), id)]
  /\ UNCHANGED <<buffers, line, latch, reported, boot, handling, tail, got, loopVars>>

\* A faulty LeaveIrq: one buffer is drained per interrupt.
LeaveIrqOnce(d) ==
  /\ handling = d
  /\ handling' = "none"
  /\ UNCHANGED <<deviceVars, boot, ringVars, loopVars>>

\* pop_used finds nothing more.
LeaveIrq(d) ==
  /\ handling = d
  /\ ~HasUsed(queue[d])
  /\ handling' = "none"
  /\ UNCHANGED <<deviceVars, boot, ringVars, loopVars>>
-----------------------------------------------------------------------------
(* The main loop: pop until the ring is empty, the other work, wfi. *)

ReadHead ==
  /\ handling = "none"
  /\ loop = "head"
  /\ loop' = IF tail = head THEN "work" ELSE "slot"
  /\ UNCHANGED <<deviceVars, boot, handling, ringVars, ev>>

\* A faulty ReadSlot that reads the newest event.
ReadSlotAtHead ==
  /\ handling = "none"
  /\ loop = "slot"
  /\ ev' = events[(head - 1) % RING]
  /\ loop' = "advance"
  /\ UNCHANGED <<deviceVars, boot, handling, ringVars>>

ReadSlot ==
  /\ handling = "none"
  /\ loop = "slot"
  /\ ev' = events[tail % RING]
  /\ loop' = "advance"
  /\ UNCHANGED <<deviceVars, boot, handling, ringVars>>

Advance ==
  /\ handling = "none"
  /\ loop = "advance"
  /\ tail' = tail + 1
  /\ got' = Append(got, ev)
  /\ loop' = "head"
  /\ UNCHANGED <<deviceVars, boot, handling, events, head, dropped, ev>>

\* The rest of the loop's body, then wfi.
Sleep ==
  /\ handling = "none"
  /\ loop = "work"
  /\ loop' = "wfi"
  /\ UNCHANGED <<deviceVars, boot, handling, ringVars, ev>>

\* The 50 Hz timer interrupt.
Tick ==
  /\ handling = "none"
  /\ loop = "wfi"
  /\ loop' = "head"
  /\ UNCHANGED <<deviceVars, boot, handling, ringVars, ev>>
-----------------------------------------------------------------------------
MainLoop == ReadHead \/ ReadSlot \/ Advance \/ Sleep
Handler(d) == EnterIrq(d) \/ Drain(d) \/ LeaveIrq(d)
Bringup(d) == PostBuffers(d) \/ BootStep(d)

Next ==
  \/ MainLoop \/ Tick \/ StartLoop
  \/ \E d \in Device : Report(d) \/ Handler(d) \/ Bringup(d)

Spec == Init /\ [][Next]_vars

\* The core runs, takes the interrupts that are latched, and the timer
\* keeps firing; nothing makes the user type.
FairSpec ==
  /\ Spec
  /\ WF_vars(MainLoop) /\ WF_vars(Tick) /\ WF_vars(StartLoop)
  /\ \A d \in Device : WF_vars(Bringup(d)) /\ WF_vars(Handler(d))
-----------------------------------------------------------------------------
(* Properties *)

\* The values of the variables are those of their code types: queue indices
\* are u16, descriptors index the table, HEAD is never behind TAIL.
TypeOK ==
  /\ queue \in [Device -> QueueRecord]
  /\ buffers \in [Device -> [Desc -> EventSlot]]
  /\ line \in [Device -> BOOLEAN]
  /\ latch \in [Device -> BOOLEAN]
  /\ boot \in [Device -> BootStages]
  /\ handling \in Device \cup {"none"}
  /\ events \in [0 .. RING - 1 -> EventSlot]
  /\ tail \in Nat /\ head \in tail .. tail + RING
  /\ loop \in LoopStages
  /\ ev \in EventSlot
  /\ reported \in Seq(Device) /\ Len(reported) <= MaxEvents
  /\ got \in Seq(EventSlot)
  /\ dropped \subseteq EventSlot

\* Every buffer of a device is posted to it or waits in the used ring, each
\* exactly once: neither the handler nor a wrapping index loses or doubles
\* one (Queue::push_avail and pop_used against on_irq's reposting).
BuffersConserved == \A d \in Device : boot[d] # "off" => Conserved(queue[d])

\* When a device has completed a buffer nobody has drained, its handler is
\* running or an edge is latched that will start it: acknowledging before
\* draining leaves no event behind on an edge-triggered line (on_irq).
NoLostEdge ==
  \A d \in Device : HasUsed(queue[d]) => latch[d] \/ handling = d

\* The main loop sees the events of one device in the order in which the
\* device reported them, each at most once, through its queue, the handler
\* and the ring.
InOrder ==
  \A i, j \in 1 .. Len(got) :
    i < j /\ reported[got[i]] = reported[got[j]] => got[i] < got[j]

\* The ring with its split pop and an interrupt between any two accesses
\* is a bounded queue that drops the newest (push and pop against
\* EventFifo).
Unread == [i \in 1 .. head - tail |-> events[(tail + i - 1) % RING]]

Fifo == INSTANCE EventFifo WITH Event <- EventSlot, pending <- Unread

RingIsFifo == Fifo!Spec

\* Every event a device reports reaches the main loop, unless push refused
\* it because the ring was full: no interrupt is lost and no sleep of the
\* loop lasts.
Delivered ==
  \A e \in Event :
    Len(reported) >= e ~> (e \in dropped \/ \E i \in 1 .. Len(got) : got[i] = e)
=============================================================================
