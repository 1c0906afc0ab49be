----------------------------- MODULE InputProofs -----------------------------
(***************************************************************************)
(* Proofs about Input for any devices, ring size and queue length: type    *)
(* correctness, that the ring is a first-in first-out queue, that no edge  *)
(* is lost once a device is only used after its bring-up, that no buffer   *)
(* is lost or doubled, and that the events of a device stay in order.      *)
(***************************************************************************)
EXTENDS Input, SequenceTheorems, TLAPS

(***************************************************************************)
(* Arithmetic of ring indices                                              *)
(***************************************************************************)

LEMMA Sizes == RING \in Nat \ {0} /\ MaxEvents \in Nat
BY InputAssumption

\* A remainder is an index of the ring.
LEMMA ModInRange ==
  ASSUME NEW a \in Nat, NEW r \in Nat \ {0}
  PROVE  a % r \in 0 .. r - 1
OBVIOUS

\* Every position has a slot of the ring.
LEMMA SlotInRange ==
  ASSUME NEW i \in Nat
  PROVE  i % RING \in 0 .. RING - 1
BY ModInRange, InputAssumption

\* Two positions less than the size of the ring apart have different slots:
\* why push never overwrites an event that is still in the ring.
LEMMA ModDistinct ==
  ASSUME NEW a \in Nat, NEW b \in Nat, NEW r \in Nat \ {0}, a < b, b < a + r
  PROVE  a % r # b % r
<1> DEFINE p == a \div r
           q == b \div r
<1>1. a = r * p + (a % r) /\ p \in Int
  OBVIOUS
<1>2. b = r * q + (b % r) /\ q \in Int
  OBVIOUS
<1>3. SUFFICES ASSUME a % r = b % r PROVE FALSE
  OBVIOUS
<1>4. b - a = r * (q - p) /\ q - p \in Int
  BY <1>1, <1>2, <1>3
<1>5. CASE q - p <= 0
  <2>1. r * (q - p) <= 0
    BY <1>4, <1>5
  <2> QED
    BY <2>1, <1>4
<1>6. CASE q - p >= 1
  <2>1. r * (q - p) >= r
    BY <1>4, <1>6
  <2> QED
    BY <2>1, <1>4
<1> QED
  BY <1>4, <1>5, <1>6

(***************************************************************************)
(* Types                                                                   *)
(***************************************************************************)

\* An index has a slot, and stays an index when it is incremented.
LEMMA IndexOps ==
  ASSUME NEW i \in Index
  PROVE  WrapAdd(i, 1) \in Index /\ i % QLen \in Desc
BY ModInRange, QueueAssumption DEF Index, Desc, WrapAdd

\* What is read from a queue record is a descriptor, and it stays one.
LEMMA QueuePops ==
  ASSUME NEW q \in QueueRecord
  PROVE  /\ UsedId(q) \in Desc /\ PopUsed(q) \in QueueRecord
         /\ AvailId(q) \in Desc /\ TakeAvail(q) \in QueueRecord
BY IndexOps DEF UsedId, AvailId, PopUsed, TakeAvail, QueueRecord

\* A queue record to which a descriptor is added stays one.
LEMMA QueuePushes ==
  ASSUME NEW q \in QueueRecord, NEW id \in Desc
  PROVE  PushAvail(q, id) \in QueueRecord /\ PushUsed(q, id) \in QueueRecord
BY IndexOps DEF PushAvail, PushUsed, QueueRecord

\* A queue as init_device leaves it: every buffer posted.
LEMMA QueueInit ==
  /\ NewQueue \in QueueRecord
  /\ [NewQueue EXCEPT !.avail = [i \in Desc |-> i], !.availIdx = QLen] \in QueueRecord
<1>1. 0 \in Desc /\ 0 \in Index /\ QLen \in Index
  BY QueueAssumption DEF Desc, Index
<1> QED
  BY <1>1 DEF NewQueue, QueueRecord

\* What split pop relies on: a slot it is about to read is occupied, and the
\* event it has read is still the oldest of the ring.
PopInv ==
  /\ loop \in {"slot", "advance"} => tail < head
  /\ loop = "advance" => ev = events[tail % RING]

IInv == TypeOK /\ PopInv

LEMMA InitIInv == Init => IInv
<1> SUFFICES ASSUME Init PROVE IInv
  OBVIOUS
<1>1. <<>> \in Seq(Device) /\ Len(<<>>) = 0 /\ <<>> \in Seq(EventSlot)
  OBVIOUS
<1>2. TypeOK
  BY <1>1, QueueInit, Sizes DEF Init, TypeOK, EventSlot, BootStages, LoopStages
<1> QED
  BY <1>2 DEF IInv, PopInv, Init

\* push into the ring, with the facts about the slot it writes.
LEMMA PushStep ==
  ASSUME IInv, NEW e \in EventSlot, Push(e), UNCHANGED tail
  PROVE  /\ events' \in [0 .. RING - 1 -> EventSlot]
         /\ head' \in tail .. tail + RING
         /\ head <= head'
         /\ dropped' \subseteq EventSlot
         /\ \A i \in tail .. head - 1 : events'[i % RING] = events[i % RING]
<1> USE Sizes DEF IInv, TypeOK
<1>1. CASE head - tail >= RING
  BY <1>1 DEF Push
<1>2. CASE ~(head - tail >= RING)
  <2>1. events' = [events EXCEPT ![head % RING] = e] /\ head' = head + 1 /\ dropped' = dropped
    BY <1>2 DEF Push
  <2>2. ASSUME NEW i \in tail .. head - 1
        PROVE  events'[i % RING] = events[i % RING]
    <3>1. i % RING # head % RING
      <4>1. i \in Nat /\ head \in Nat /\ i < head /\ head < i + RING
        BY <1>2
      <4> QED
        BY <4>1, InputAssumption, ModDistinct
    <3>2. i \in Nat
      OBVIOUS
    <3>3. i % RING \in 0 .. RING - 1
      BY <3>2, SlotInRange
    <3> QED
      BY <2>1, <3>1, <3>3
  <2>3. head \in Nat /\ head % RING \in 0 .. RING - 1
    <3>1. head \in Nat
      OBVIOUS
    <3> QED
      BY <3>1, SlotInRange
  <2> QED
    BY <1>2, <2>1, <2>2, <2>3
<1> QED
  BY <1>1, <1>2

\* Every step keeps the types and what pop relies on.
LEMMA NextIInv == IInv /\ [Next]_vars => IInv'
<1> SUFFICES ASSUME IInv, [Next]_vars PROVE IInv'
  OBVIOUS
<1> USE Sizes DEF IInv, TypeOK, PopInv
<1>1. CASE ReadHead
  <2>1. tail # head => tail < head
    OBVIOUS
  <2> QED
    BY <1>1, <2>1 DEF ReadHead, deviceVars, ringVars, LoopStages
<1>2. CASE ReadSlot
  <2>1. tail % RING \in 0 .. RING - 1
    BY SlotInRange
  <2> QED
    BY <1>2, <2>1 DEF ReadSlot, deviceVars, ringVars, LoopStages
<1>3. CASE Advance
  <2>1. tail < head
    BY <1>3 DEF Advance
  <2>2. tail + 1 \in Nat /\ head \in tail + 1 .. tail + 1 + RING
    BY <2>1
  <2>3. Append(got, ev) \in Seq(EventSlot)
    OBVIOUS
  <2> QED
    BY <1>3, <2>2, <2>3 DEF Advance, deviceVars, LoopStages
<1>4. CASE Sleep \/ Tick \/ StartLoop
  BY <1>4 DEF Sleep, Tick, StartLoop, deviceVars, ringVars, LoopStages
<1>5. ASSUME NEW d \in Device, Report(d)
      PROVE  IInv'
  <2> DEFINE id == AvailId(queue[d])
             n == Len(reported) + 1
  <2>1. /\ queue' = [queue EXCEPT ![d] = PushUsed(TakeAvail(@), id)]
        /\ buffers' = [buffers EXCEPT ![d][id] = n]
        /\ reported' = Append(reported, d)
        /\ Len(reported) < MaxEvents
        /\ line' = [line EXCEPT ![d] = TRUE]
        /\ latch' = [latch EXCEPT ![d] = @ \/ (~line[d] /\ boot[d] # "posted")]
        /\ UNCHANGED <<boot, handling, ringVars, loopVars>>
    BY <1>5 DEF Report
  <2>2. id \in Desc /\ PushUsed(TakeAvail(queue[d]), id) \in QueueRecord
    <3>1. queue[d] \in QueueRecord
      OBVIOUS
    <3>2. id \in Desc /\ TakeAvail(queue[d]) \in QueueRecord
      BY <3>1, QueuePops
    <3> HIDE DEF id
    <3> QED
      BY <3>2, QueuePushes
  <2>3. n \in EventSlot
    BY <2>1 DEF EventSlot, Event
  <2>4. queue' \in [Device -> QueueRecord]
    BY <2>1, <2>2
  <2>5. buffers' \in [Device -> [Desc -> EventSlot]]
    BY <2>1, <2>2, <2>3
  <2>6. reported' \in Seq(Device) /\ Len(reported') <= MaxEvents
    BY <2>1
  <2>7. line' \in [Device -> BOOLEAN] /\ latch' \in [Device -> BOOLEAN]
    BY <2>1
  <2> HIDE DEF id, n
  <2> QED
    BY <2>1, <2>4, <2>5, <2>6, <2>7 DEF ringVars, loopVars
<1>6. ASSUME NEW d \in Device, EnterIrq(d)
      PROVE  IInv'
  <2>1. line' \in [Device -> BOOLEAN] /\ latch' \in [Device -> BOOLEAN]
        /\ handling' \in Device \cup {"none"}
    BY <1>6 DEF EnterIrq
  <2>2. loop' \in LoopStages /\ (loop' \in {"slot", "advance"} => loop' = loop)
    BY <1>6 DEF EnterIrq, Woken, LoopStages
  <2> QED
    BY <1>6, <2>1, <2>2 DEF EnterIrq, ringVars
<1>7. ASSUME NEW d \in Device, Drain(d)
      PROVE  IInv'
  <2> DEFINE id == UsedId(queue[d])
  <2>1. /\ Push(buffers[d][id])
        /\ queue' = [queue EXCEPT ![d] = PushAvail(PopUsed(@), id)]
        /\ UNCHANGED <<buffers, line, latch, reported, boot, handling, tail, got, loopVars>>
    BY <1>7 DEF Drain
  <2>2. id \in Desc /\ PushAvail(PopUsed(queue[d]), id) \in QueueRecord
    <3>1. queue[d] \in QueueRecord
      OBVIOUS
    <3>2. id \in Desc /\ PopUsed(queue[d]) \in QueueRecord
      BY <3>1, QueuePops
    <3> HIDE DEF id
    <3> QED
      BY <3>2, QueuePushes
  <2>3. buffers[d][id] \in EventSlot
    BY <2>2
  <2>4. queue' \in [Device -> QueueRecord]
    BY <2>1, <2>2
  <2>5. /\ events' \in [0 .. RING - 1 -> EventSlot]
        /\ head' \in tail .. tail + RING
        /\ head <= head'
        /\ dropped' \subseteq EventSlot
        /\ \A i \in tail .. head - 1 : events'[i % RING] = events[i % RING]
    BY <2>1, <2>3, PushStep
  <2>6. tail < head => events'[tail % RING] = events[tail % RING]
    <3>1. tail < head => tail \in tail .. head - 1
      OBVIOUS
    <3> QED
      BY <2>5, <3>1
  <2> HIDE DEF id
  <2> QED
    BY <2>1, <2>4, <2>5, <2>6 DEF loopVars
<1>8. ASSUME NEW d \in Device, LeaveIrq(d)
      PROVE  IInv'
  BY <1>8 DEF LeaveIrq, deviceVars, ringVars, loopVars
<1>9. ASSUME NEW d \in Device, PostBuffers(d)
      PROVE  IInv'
  BY <1>9, QueueInit DEF PostBuffers, BootStages, ringVars, loopVars
<1>10. ASSUME NEW d \in Device, BootStep(d)
       PROVE  IInv'
  <2>1. boot' \in [Device -> BootStages]
    BY <1>10 DEF BootStep, BootStages
  <2> QED
    BY <1>10, <2>1 DEF BootStep, deviceVars, ringVars, loopVars
<1>11. CASE UNCHANGED vars
  BY <1>11 DEF vars, deviceVars, ringVars, loopVars
<1> QED
  BY <1>1, <1>2, <1>3, <1>4, <1>5, <1>6, <1>7, <1>8, <1>9, <1>10, <1>11
  DEF Next, MainLoop, Handler, Bringup

\* Type correctness: in particular HEAD is never behind TAIL nor more than
\* RING ahead of it, whatever the interleaving of push and pop.
THEOREM TypeCorrect == Spec => []TypeOK
<1>1. IInv => TypeOK
  BY DEF IInv
<1> QED
  BY <1>1, InitIInv, NextIInv, PTL DEF Spec

(***************************************************************************)
(* The ring is a first-in first-out queue                                  *)
(***************************************************************************)

\* The events of ring f from position t up to position h.
Window(f, t, h) == [i \in 1 .. h - t |-> f[(t + i - 1) % RING]]

\* A window is a sequence.
LEMMA WindowSeq ==
  \A f \in [0 .. RING - 1 -> EventSlot], t, h \in Nat :
    t <= h =>
      /\ Window(f, t, h) \in Seq(EventSlot)
      /\ Len(Window(f, t, h)) = h - t
      /\ \A i \in 1 .. h - t : Window(f, t, h)[i] = f[(t + i - 1) % RING]
<1> SUFFICES ASSUME NEW f \in [0 .. RING - 1 -> EventSlot], NEW t \in Nat, NEW h \in Nat, t <= h
             PROVE  /\ Window(f, t, h) \in Seq(EventSlot)
                    /\ Len(Window(f, t, h)) = h - t
                    /\ \A i \in 1 .. h - t : Window(f, t, h)[i] = f[(t + i - 1) % RING]
  OBVIOUS
<1>1. h - t \in Nat /\ \A i \in 1 .. h - t : t + i - 1 \in Nat
  OBVIOUS
<1>2. \A i \in 1 .. h - t : f[(t + i - 1) % RING] \in EventSlot
  BY <1>1, SlotInRange
<1>3. Window(f, t, h) \in [1 .. h - t -> EventSlot]
  BY <1>2 DEF Window
<1>4. Window(f, t, h) \in Seq(EventSlot)
  BY <1>1, <1>3, SeqDef
<1>5. DOMAIN Window(f, t, h) = 1 .. h - t
  BY DEF Window
<1>6. Len(Window(f, t, h)) = h - t
  BY <1>1, <1>4, <1>5, LenProperties
<1> QED
  BY <1>4, <1>6 DEF Window

\* What is between TAIL and HEAD is one.
LEMMA UnreadIsWindow == Unread = Window(events, tail, head)
BY DEF Unread, Window

LEMMA UnreadSeq ==
  ASSUME IInv
  PROVE  /\ Unread \in Seq(EventSlot)
         /\ Len(Unread) = head - tail
         /\ \A i \in 1 .. head - tail : Unread[i] = events[(tail + i - 1) % RING]
<1>1. /\ events \in [0 .. RING - 1 -> EventSlot]
      /\ tail \in Nat /\ head \in Nat /\ tail <= head
  BY DEF IInv, TypeOK
<1>2. /\ Window(events, tail, head) \in Seq(EventSlot)
      /\ Len(Window(events, tail, head)) = head - tail
      /\ \A i \in 1 .. head - tail :
           Window(events, tail, head)[i] = events[(tail + i - 1) % RING]
  BY <1>1, WindowSeq
<1> QED
  BY <1>2, UnreadIsWindow

\* push appends to it, or is refused by it when it is full.
LEMMA PushRefines ==
  ASSUME IInv, NEW e \in EventSlot, Push(e), UNCHANGED <<tail, got>>
  PROVE  Fifo!Put(e) \/ Fifo!Refuse(e)
<1> USE Sizes DEF IInv, TypeOK
<1>1. CASE head - tail >= RING
  <2>1. dropped' = dropped \cup {e} /\ UNCHANGED <<events, head>>
    BY <1>1 DEF Push
  <2>2. Len(Unread) = RING
    BY <1>1, UnreadSeq
  <2>3. Unread' = Unread
    BY <2>1 DEF Unread
  <2> QED
    BY <2>1, <2>2, <2>3 DEF Fifo!Refuse
<1>2. CASE ~(head - tail >= RING)
  <2> DEFINE n == head - tail
  <2>1. events' = [events EXCEPT ![head % RING] = e] /\ head' = head + 1 /\ dropped' = dropped
    BY <1>2 DEF Push
  <2>2. \A i \in tail .. head - 1 : events'[i % RING] = events[i % RING]
    BY PushStep
  <2>3. head % RING \in 0 .. RING - 1
    <3>1. head \in Nat
      OBVIOUS
    <3> QED
      BY <3>1, SlotInRange
  <2>4. n \in Nat /\ head' - tail' = n + 1 /\ tail' \in Nat /\ head' \in Nat /\ tail' <= head'
    BY <2>1
  <2>5. events' \in [0 .. RING - 1 -> EventSlot]
    BY PushStep
  <2>6. /\ Unread' \in Seq(EventSlot)
        /\ Len(Unread') = n + 1
        /\ \A i \in 1 .. n + 1 : Unread'[i] = events'[(tail + i - 1) % RING]
    <3>1. Unread' = Window(events', tail', head')
      BY DEF Unread, Window
    <3>2. /\ Unread' \in Seq(EventSlot)
          /\ Len(Unread') = head' - tail'
          /\ \A i \in 1 .. head' - tail' : Unread'[i] = events'[(tail' + i - 1) % RING]
      <4> HIDE Sizes DEF IInv, TypeOK, n
      <4> QED
        BY <2>4, <2>5, <3>1, WindowSeq
    <3>3. tail' = tail
      OBVIOUS
    <3> QED
      BY <2>4, <3>2, <3>3
  <2>7. ASSUME NEW i \in 1 .. n
        PROVE  Unread'[i] = Unread[i]
    <3>1. tail + i - 1 \in tail .. head - 1 /\ i \in 1 .. n + 1
      OBVIOUS
    <3> QED
      BY <2>2, <2>6, <3>1, UnreadSeq
  <2>8. Unread'[n + 1] = e
    <3>1. tail + (n + 1) - 1 = head /\ n + 1 \in 1 .. n + 1
      BY <2>4
    <3>2. events'[head % RING] = e
      BY <2>1, <2>3
    <3> QED
      BY <2>6, <3>1, <3>2
  <2>9. Unread' = Append(Unread, e)
    <3>1. Unread \in Seq(EventSlot) /\ Len(Unread) = n
      BY UnreadSeq
    <3> HIDE DEF n
    <3>2. /\ Append(Unread, e) \in Seq(EventSlot)
          /\ Len(Append(Unread, e)) = n + 1
          /\ Append(Unread, e)[n + 1] = e
          /\ \A i \in 1 .. n : Append(Unread, e)[i] = Unread[i]
      BY <2>4, <3>1, AppendProperties
    <3>3. \A i \in 1 .. n + 1 : Unread'[i] = Append(Unread, e)[i]
      BY <2>4, <2>7, <2>8, <3>2
    <3> QED
      BY <2>6, <3>2, <3>3, SeqEqual
  <2>10. Len(Unread) < RING
    BY <1>2, UnreadSeq
  <2> QED
    BY <2>1, <2>9, <2>10 DEF Fifo!Put
<1> QED
  BY <1>1, <1>2

\* The last step of pop takes the oldest.
LEMMA AdvanceRefines ==
  ASSUME IInv, Advance
  PROVE  Fifo!Take
<1> USE Sizes DEF IInv, TypeOK, PopInv
<1> DEFINE n == head - tail
<1>1. /\ tail' = tail + 1 /\ head' = head /\ events' = events /\ dropped' = dropped
      /\ got' = Append(got, ev)
      /\ tail < head /\ ev = events[tail % RING]
  BY DEF Advance
<1>2. n \in Nat /\ n >= 1 /\ head' - tail' = n - 1
  BY <1>1
<1>3. /\ Unread \in Seq(EventSlot) /\ Len(Unread) = n
      /\ \A i \in 1 .. n : Unread[i] = events[(tail + i - 1) % RING]
  BY UnreadSeq
<1>4. /\ Unread' \in Seq(EventSlot) /\ Len(Unread') = n - 1
      /\ \A i \in 1 .. n - 1 : Unread'[i] = events[(tail + 1 + i - 1) % RING]
  <2>1. Unread' = Window(events, tail + 1, head)
    BY <1>1 DEF Unread, Window
  <2>2. tail + 1 \in Nat /\ head \in Nat /\ tail + 1 <= head /\ head - (tail + 1) = n - 1
    BY <1>1
  <2>3. events \in [0 .. RING - 1 -> EventSlot]
    OBVIOUS
  <2>4. /\ Unread' \in Seq(EventSlot)
        /\ Len(Unread') = head - (tail + 1)
        /\ \A i \in 1 .. head - (tail + 1) : Unread'[i] = events[(tail + 1 + i - 1) % RING]
    <3> HIDE Sizes DEF IInv, TypeOK, PopInv, n
    <3> QED
      BY <2>1, <2>2, <2>3, WindowSeq
  <2> QED
    BY <2>2, <2>4
<1>5. ASSUME NEW i \in 1 .. n - 1
      PROVE  Unread'[i] = Unread[i + 1]
  <2>1. /\ i + 1 \in 1 .. n
        /\ tail + 1 + i - 1 = tail + (i + 1) - 1
    BY <1>2
  <2> QED
    BY <1>3, <1>4, <2>1
<1>6. Unread[1] = ev
  <2>1. 1 \in 1 .. n /\ tail + 1 - 1 = tail
    BY <1>2
  <2> QED
    BY <1>1, <1>3, <2>1
<1> HIDE DEF n
<1>7. Unread # <<>> /\ Head(Unread) = ev
  BY <1>2, <1>3, <1>6
<1>8. Unread' = Tail(Unread)
  <2>1. /\ Tail(Unread) \in Seq(EventSlot)
        /\ Len(Tail(Unread)) = n - 1
        /\ \A i \in 1 .. n - 1 : Tail(Unread)[i] = Unread[i + 1]
    BY <1>2, <1>3, <1>7, HeadTailProperties
  <2> QED
    BY <1>4, <1>5, <2>1, SeqEqual
<1> QED
  BY <1>1, <1>7, <1>8 DEF Fifo!Take

\* Every step of the input path is a step of the queue or leaves it alone.
LEMMA StepRefines == IInv /\ [Next]_vars => [Fifo!Next]_Fifo!vars
<1> SUFFICES ASSUME IInv, [Next]_vars PROVE [Fifo!Next]_Fifo!vars
  OBVIOUS
<1>1. CASE Advance
  BY <1>1, AdvanceRefines DEF Fifo!Next
<1>2. ASSUME NEW d \in Device, Drain(d)
      PROVE  Fifo!Next
  <2> DEFINE e == buffers[d][UsedId(queue[d])]
  <2>1. e \in EventSlot
    BY QueuePops DEF IInv, TypeOK
  <2>2. Push(e) /\ UNCHANGED <<tail, got>>
    BY <1>2 DEF Drain
  <2> HIDE DEF e
  <2>3. Fifo!Put(e) \/ Fifo!Refuse(e)
    BY <2>1, <2>2, PushRefines
  <2> QED
    BY <2>1, <2>3 DEF Fifo!Next
<1>3. ASSUME UNCHANGED ringVars
      PROVE  UNCHANGED Fifo!vars
  BY <1>3 DEF ringVars, Fifo!vars, Unread
<1>4. CASE ReadHead \/ ReadSlot \/ Sleep \/ Tick \/ StartLoop \/ UNCHANGED vars
  BY <1>3, <1>4 DEF ReadHead, ReadSlot, Sleep, Tick, StartLoop, vars
<1>5. ASSUME NEW d \in Device,
             Report(d) \/ EnterIrq(d) \/ LeaveIrq(d) \/ Bringup(d)
      PROVE  UNCHANGED Fifo!vars
  BY <1>3, <1>5 DEF Report, EnterIrq, LeaveIrq, Bringup, PostBuffers, BootStep
<1> QED
  BY <1>1, <1>2, <1>4, <1>5 DEF Next, MainLoop, Handler

\* The ring, with pop cut at each of its accesses, is a bounded queue that
\* refuses the newest event when full: for every size of the ring and any
\* devices (push and pop against EventFifo).
THEOREM RingImplementsFifo == Spec => RingIsFifo
<1>1. Init => Fifo!Init
  BY DEF Init, Fifo!Init, Unread
<1> QED
  BY <1>1, InitIInv, NextIInv, StepRefines, PTL DEF Spec, RingIsFifo, Fifo!Spec

(***************************************************************************)
(* No edge is lost                                                         *)
(***************************************************************************)

\* A raised line of a device that is used only after its bring-up is
\* latched, and only such a device can have an edge latched.
EdgeInv ==
  \A d \in Device :
    /\ line[d] => latch[d]
    /\ latch[d] => boot[d] = "known"
    /\ HasUsed(queue[d]) => latch[d] \/ handling = d

LEMMA InitEdgeInv == Init => EdgeInv
BY DEF Init, EdgeInv, HasUsed, NewQueue

LEMMA NextEdgeInv ==
  ASSUME Touched = {"known"}
  PROVE  IInv /\ EdgeInv /\ [Next]_vars => EdgeInv'
<1> SUFFICES ASSUME IInv, EdgeInv, [Next]_vars PROVE EdgeInv'
  OBVIOUS
<1> USE InputAssumption DEF IInv, TypeOK, EdgeInv
<1>1. CASE MainLoop \/ Tick \/ StartLoop \/ UNCHANGED vars
  BY <1>1 DEF MainLoop, ReadHead, ReadSlot, Advance, Sleep, Tick, StartLoop, deviceVars, vars
<1>2. ASSUME NEW d \in Device, Report(d)
      PROVE  EdgeInv'
  BY <1>2 DEF Report
<1>3. ASSUME NEW d \in Device, EnterIrq(d)
      PROVE  EdgeInv'
  BY <1>3 DEF EnterIrq
<1>4. ASSUME NEW d \in Device, Drain(d)
      PROVE  EdgeInv'
  <2>1. \A o \in Device \ {d} : queue'[o] = queue[o]
    BY <1>4 DEF Drain
  <2> QED
    BY <1>4, <2>1 DEF Drain
<1>5. ASSUME NEW d \in Device, LeaveIrq(d)
      PROVE  EdgeInv'
  BY <1>5 DEF LeaveIrq, deviceVars
<1>6. ASSUME NEW d \in Device, PostBuffers(d)
      PROVE  EdgeInv'
  <2>1. ~HasUsed(queue'[d])
    BY <1>6 DEF PostBuffers, HasUsed, NewQueue
  <2> QED
    BY <1>6, <2>1 DEF PostBuffers
<1>7. ASSUME NEW d \in Device, BootStep(d)
      PROVE  EdgeInv'
  BY <1>7 DEF BootStep, deviceVars
<1> QED
  BY <1>1, <1>2, <1>3, <1>4, <1>5, <1>6, <1>7 DEF Next, Handler, Bringup

\* When events come only from devices whose bring-up is over, a completed
\* buffer nobody has drained always has a handler running or an edge that
\* will start one (on_irq acknowledges before it drains).
THEOREM NoEdgeIsLost ==
  ASSUME Touched = {"known"}
  PROVE  Spec => []NoLostEdge
<1>1. EdgeInv => NoLostEdge
  BY DEF EdgeInv, NoLostEdge
<1>2. IInv /\ EdgeInv /\ [Next]_vars => EdgeInv'
  BY NextEdgeInv
<1> QED
  BY <1>1, <1>2, InitIInv, NextIInv, InitEdgeInv, PTL DEF Spec

(***************************************************************************)
(* No buffer is lost or doubled                                            *)
(***************************************************************************)

\* A remainder is known by a multiple and what is left.
LEMMA ModUnique ==
  ASSUME NEW m \in Nat \ {0}, NEW x \in Int, NEW k \in Int, NEW r \in 0 .. m - 1,
         x = m * k + r
  PROVE  x % m = r
<1> DEFINE q == x \div m
           s == x % m
<1>1. x = m * q + s /\ q \in Int /\ s \in 0 .. m - 1
  OBVIOUS
<1> HIDE DEF q, s
<1>2. m * (q - k) = r - s
  BY <1>1
<1>3. ASSUME q - k >= 1 PROVE FALSE
  <2>1. m * (q - k) >= m
    BY <1>1, <1>3
  <2> QED
    BY <2>1, <1>1, <1>2
<1>4. ASSUME q - k <= -1 PROVE FALSE
  <2>1. m * (q - k) <= m * (-1)
    BY <1>1, <1>4
  <2> QED
    BY <2>1, <1>1, <1>2
<1>5. q - k = 0
  BY <1>1, <1>3, <1>4
<1>6. m * (q - k) = 0
  BY <1>5
<1> QED
  BY <1>1, <1>2, <1>6 DEF s

\* An index moves on by n and wraps once at most.
LEMMA WrapIs ==
  ASSUME NEW i \in Index, NEW n \in 0 .. IdxMod - 1
  PROVE  /\ WrapAdd(i, n) = IF i + n < IdxMod THEN i + n ELSE i + n - IdxMod
         /\ WrapAdd(i, n) \in Index
<1> USE QueueAssumption DEF Index
<1>1. CASE i + n < IdxMod
  <2>1. i + n = IdxMod * 0 + (i + n) /\ i + n \in 0 .. IdxMod - 1
    BY <1>1
  <2>2. (i + n) % IdxMod = i + n
    BY <2>1, ModUnique
  <2> QED
    BY <1>1, <2>1, <2>2 DEF WrapAdd
<1>2. CASE ~(i + n < IdxMod)
  <2>1. i + n = IdxMod * 1 + (i + n - IdxMod) /\ i + n - IdxMod \in 0 .. IdxMod - 1
    BY <1>2
  <2>2. (i + n) % IdxMod = i + n - IdxMod
    BY <2>1, ModUnique
  <2> QED
    BY <1>2, <2>1, <2>2 DEF WrapAdd
<1> QED
  BY <1>1, <1>2

LEMMA DistanceIs ==
  ASSUME NEW f \in Index, NEW t \in Index
  PROVE  /\ Distance(f, t) = IF f <= t THEN t - f ELSE t - f + IdxMod
         /\ Distance(f, t) \in 0 .. IdxMod - 1
<1> USE QueueAssumption DEF Index
<1>1. CASE f <= t
  <2>1. t - f = IdxMod * 0 + (t - f) /\ t - f \in 0 .. IdxMod - 1
    BY <1>1
  <2>2. (t - f) % IdxMod = t - f
    BY <2>1, ModUnique
  <2> QED
    BY <1>1, <2>1, <2>2 DEF Distance
<1>2. CASE ~(f <= t)
  <2>1. t - f = IdxMod * (-1) + (t - f + IdxMod) /\ t - f + IdxMod \in 0 .. IdxMod - 1
    BY <1>2
  <2>2. (t - f) % IdxMod = t - f + IdxMod
    BY <2>1, ModUnique
  <2> QED
    BY <1>2, <2>1, <2>2 DEF Distance
<1> QED
  BY <1>1, <1>2

\* How far the two ends of a ring are apart when one of them moves on.
LEMMA Moves ==
  ASSUME NEW f \in Index, NEW t \in Index
  PROVE  /\ Distance(f, t) = 0 <=> f = t
         /\ Distance(f, t) + 1 < IdxMod => Distance(f, WrapAdd(t, 1)) = Distance(f, t) + 1
         /\ f # t => Distance(WrapAdd(f, 1), t) = Distance(f, t) - 1
         /\ WrapAdd(f, Distance(f, t)) = t
         /\ WrapAdd(f, 0) = f
         /\ \A i \in 0 .. IdxMod - 2 : WrapAdd(WrapAdd(f, 1), i) = WrapAdd(f, i + 1)
<1> USE QueueAssumption DEF Index
<1>1. IdxMod \in Nat /\ IdxMod > 1
  OBVIOUS
<1>2. /\ Distance(f, t) = IF f <= t THEN t - f ELSE t - f + IdxMod
      /\ Distance(f, t) \in 0 .. IdxMod - 1
  BY DistanceIs
<1>3. /\ WrapAdd(t, 1) = IF t + 1 < IdxMod THEN t + 1 ELSE t + 1 - IdxMod
      /\ WrapAdd(f, 1) = IF f + 1 < IdxMod THEN f + 1 ELSE f + 1 - IdxMod
      /\ WrapAdd(t, 1) \in Index /\ WrapAdd(f, 1) \in Index
  BY <1>1, WrapIs
<1>4. Distance(f, WrapAdd(t, 1)) =
         IF f <= WrapAdd(t, 1) THEN WrapAdd(t, 1) - f ELSE WrapAdd(t, 1) - f + IdxMod
  BY <1>3, DistanceIs
<1>5. Distance(WrapAdd(f, 1), t) =
         IF WrapAdd(f, 1) <= t THEN t - WrapAdd(f, 1) ELSE t - WrapAdd(f, 1) + IdxMod
  BY <1>3, DistanceIs
<1>6. WrapAdd(f, Distance(f, t)) =
         IF f + Distance(f, t) < IdxMod THEN f + Distance(f, t) ELSE f + Distance(f, t) - IdxMod
  BY <1>2, WrapIs
<1>7. WrapAdd(f, 0) = f
  BY WrapIs
<1>8. ASSUME NEW i \in 0 .. IdxMod - 2
      PROVE  WrapAdd(WrapAdd(f, 1), i) = WrapAdd(f, i + 1)
  <2>1. i \in 0 .. IdxMod - 1 /\ i + 1 \in 0 .. IdxMod - 1
    BY <1>1
  <2>2. WrapAdd(WrapAdd(f, 1), i) =
           IF WrapAdd(f, 1) + i < IdxMod THEN WrapAdd(f, 1) + i ELSE WrapAdd(f, 1) + i - IdxMod
    BY <1>3, <2>1, WrapIs
  <2>3. WrapAdd(f, i + 1) =
           IF f + (i + 1) < IdxMod THEN f + (i + 1) ELSE f + (i + 1) - IdxMod
    BY <2>1, WrapIs
  <2> QED
    BY <1>1, <1>3, <2>1, <2>2, <2>3
<1> QED
  BY <1>1, <1>2, <1>3, <1>4, <1>5, <1>6, <1>7, <1>8

\* The slot of the i-th entry from index f on.
Slot(f, i) == WrapAdd(f, i) % QLen

\* As the queue's length divides the range of the indices, entries less than
\* that length apart have slots of their own, where an index wraps too.
LEMMA SlotsDistinct ==
  ASSUME NEW f \in Index, NEW i \in 0 .. IdxMod - 1, NEW j \in 0 .. IdxMod - 1,
         i < j, j < i + QLen
  PROVE  Slot(f, i) # Slot(f, j)
<1> USE QueueAssumption DEF Index
<1>1. PICK c \in Int : IdxMod = QLen * c
  <2>1. IdxMod = QLen * (IdxMod \div QLen) + (IdxMod % QLen) /\ IdxMod \div QLen \in Int
    OBVIOUS
  <2>2. IdxMod = QLen * (IdxMod \div QLen)
    BY <2>1
  <2> QED
    BY <2>1, <2>2
<1>2. ASSUME NEW n \in 0 .. IdxMod - 1 PROVE Slot(f, n) = (f + n) % QLen
  <2>1. WrapAdd(f, n) = IF f + n < IdxMod THEN f + n ELSE f + n - IdxMod
    BY WrapIs
  <2>2. CASE f + n < IdxMod
    BY <2>1, <2>2 DEF Slot
  <2>3. CASE ~(f + n < IdxMod)
    <3> DEFINE q == (f + n) \div QLen
               r == (f + n) % QLen
    <3>1. f + n = QLen * q + r /\ q \in Int /\ r \in 0 .. QLen - 1
      OBVIOUS
    <3> HIDE DEF q, r
    <3>2. f + n - IdxMod = QLen * (q - c) + r
      BY <1>1, <3>1
    <3>3. (f + n - IdxMod) % QLen = r
      <4>1. f + n - IdxMod \in Int /\ q - c \in Int
        BY <1>1, <3>1
      <4> QED
        BY <3>1, <3>2, <4>1, ModUnique
    <3> QED
      BY <2>1, <2>3, <3>3 DEF Slot, r
  <2> QED
    BY <2>2, <2>3
<1>3. Slot(f, i) = (f + i) % QLen /\ Slot(f, j) = (f + j) % QLen
  BY <1>2
<1>4. f + i \in Nat /\ f + j \in Nat /\ f + i < f + j /\ f + j < f + i + QLen
  OBVIOUS
<1>5. (f + i) % QLen # (f + j) % QLen
  BY <1>4, ModDistinct
<1> QED
  BY <1>3, <1>5

\* How many buffers wait on each side, and which.
Waiting(q) == Distance(q.taken, q.availIdx)
Filled(q) == Distance(q.lastUsed, q.usedIdx)
AvailAt(q, i) == q.avail[Slot(q.taken, i)]
UsedAt(q, i) == q.used[Slot(q.lastUsed, i)]

\* Every buffer waits on one side, once.
QueueInv(q) ==
  /\ Waiting(q) + Filled(q) = QLen
  /\ \A id \in Desc : \/ \E i \in 0 .. Waiting(q) - 1 : id = AvailAt(q, i)
                      \/ \E i \in 0 .. Filled(q) - 1 : id = UsedAt(q, i)
  /\ \A i, j \in 0 .. Waiting(q) - 1 : i # j => AvailAt(q, i) # AvailAt(q, j)
  /\ \A i, j \in 0 .. Filled(q) - 1 : i # j => UsedAt(q, i) # UsedAt(q, j)
  /\ \A i \in 0 .. Waiting(q) - 1, j \in 0 .. Filled(q) - 1 : AvailAt(q, i) # UsedAt(q, j)

LEMMA QueueCounts ==
  ASSUME NEW q \in QueueRecord
  PROVE  /\ Waiting(q) \in 0 .. IdxMod - 1 /\ Filled(q) \in 0 .. IdxMod - 1
         /\ HasAvail(q) <=> Waiting(q) > 0
         /\ HasUsed(q) <=> Filled(q) > 0
<1>1. /\ q.taken \in Index /\ q.availIdx \in Index
      /\ q.lastUsed \in Index /\ q.usedIdx \in Index
  BY DEF QueueRecord
<1>2. Waiting(q) \in 0 .. IdxMod - 1 /\ Filled(q) \in 0 .. IdxMod - 1
  BY <1>1, DistanceIs DEF Waiting, Filled
<1>3. (Waiting(q) = 0 <=> q.taken = q.availIdx) /\ (Filled(q) = 0 <=> q.lastUsed = q.usedIdx)
  BY <1>1, Moves DEF Waiting, Filled
<1> QED
  BY <1>2, <1>3, QueueAssumption DEF HasAvail, HasUsed

LEMMA EntriesAreDesc ==
  ASSUME NEW q \in QueueRecord, NEW i \in 0 .. IdxMod - 1
  PROVE  AvailAt(q, i) \in Desc /\ UsedAt(q, i) \in Desc
<1>1. WrapAdd(q.taken, i) \in Index /\ WrapAdd(q.lastUsed, i) \in Index
  BY WrapIs DEF QueueRecord
<1>2. Slot(q.taken, i) \in Desc /\ Slot(q.lastUsed, i) \in Desc
  BY <1>1, IndexOps DEF Slot
<1> QED
  BY <1>2 DEF AvailAt, UsedAt, QueueRecord

\* What Conserved says, entry by entry.
LEMMA InvConserves ==
  ASSUME NEW q \in QueueRecord, QueueInv(q)
  PROVE  Conserved(q)
<1>1. Posted(q) = { AvailAt(q, i) : i \in 0 .. Waiting(q) - 1 }
  BY DEF Posted, AvailAt, Slot, Waiting
<1>2. Completed(q) = { UsedAt(q, i) : i \in 0 .. Filled(q) - 1 }
  BY DEF Completed, UsedAt, Slot, Filled
<1>3. /\ \A i \in 0 .. Waiting(q) - 1 : AvailAt(q, i) \in Desc
      /\ \A i \in 0 .. Filled(q) - 1 : UsedAt(q, i) \in Desc
  BY QueueCounts, EntriesAreDesc, QueueAssumption
<1>4. Posted(q) \cup Completed(q) = Desc
  BY <1>1, <1>2, <1>3 DEF QueueInv
<1> QED
  BY <1>4 DEF Conserved, QueueInv, Waiting, Filled

\* The device takes the buffer posted first and completes it last.
LEMMA ReportMoves ==
  ASSUME NEW q \in QueueRecord, QueueInv(q), HasAvail(q),
         NEW r, r = PushUsed(TakeAvail(q), AvailId(q))
  PROVE  /\ Waiting(r) = Waiting(q) - 1 /\ Filled(r) = Filled(q) + 1
         /\ AvailId(q) = AvailAt(q, 0)
         /\ \A i \in 0 .. Waiting(r) - 1 : AvailAt(r, i) = AvailAt(q, i + 1)
         /\ \A i \in 0 .. Filled(q) - 1 : UsedAt(r, i) = UsedAt(q, i)
         /\ UsedAt(r, Filled(q)) = AvailId(q)
<1> DEFINE n == Filled(q)
<1>1. /\ q.taken \in Index /\ q.availIdx \in Index
      /\ q.lastUsed \in Index /\ q.usedIdx \in Index
      /\ q.used \in [Desc -> Desc]
  BY DEF QueueRecord
<1>2. /\ r.taken = WrapAdd(q.taken, 1) /\ r.availIdx = q.availIdx /\ r.avail = q.avail
      /\ r.lastUsed = q.lastUsed /\ r.usedIdx = WrapAdd(q.usedIdx, 1)
      /\ r.used = [q.used EXCEPT ![q.usedIdx % QLen] = AvailId(q)]
  BY DEF PushUsed, TakeAvail, QueueRecord
<1>3. /\ IdxMod \in Nat /\ QLen \in Nat \ {0} /\ QLen < IdxMod
      /\ Waiting(q) \in Nat /\ Waiting(q) > 0 /\ n \in Nat /\ Waiting(q) + n = QLen
      /\ Waiting(q) - 1 <= IdxMod - 2 /\ n + 1 < IdxMod /\ n < QLen
  BY QueueCounts, QueueAssumption DEF QueueInv
<1>4. Waiting(r) = Waiting(q) - 1
  <2>1. q.taken # q.availIdx
    BY DEF HasAvail
  <2> QED
    BY <1>1, <1>2, <2>1, Moves DEF Waiting
<1>5. Filled(r) = n + 1
  BY <1>1, <1>2, <1>3, Moves DEF Filled
<1>6. AvailId(q) = AvailAt(q, 0)
  BY <1>1, Moves DEF AvailId, AvailAt, Slot
<1>7. ASSUME NEW i \in 0 .. Waiting(r) - 1 PROVE AvailAt(r, i) = AvailAt(q, i + 1)
  <2>1. i \in 0 .. IdxMod - 2
    BY <1>3, <1>4
  <2>2. WrapAdd(WrapAdd(q.taken, 1), i) = WrapAdd(q.taken, i + 1)
    BY <1>1, <2>1, Moves
  <2> QED
    BY <1>2, <2>2 DEF AvailAt, Slot
<1>8. q.usedIdx % QLen = Slot(q.lastUsed, n) /\ q.usedIdx % QLen \in Desc
  <2>1. WrapAdd(q.lastUsed, n) = q.usedIdx
    BY <1>1, Moves DEF Filled
  <2> QED
    BY <1>1, <2>1, IndexOps DEF Slot
<1>9. ASSUME NEW i \in 0 .. n - 1 PROVE UsedAt(r, i) = UsedAt(q, i)
  <2>1. i \in 0 .. IdxMod - 1 /\ n \in 0 .. IdxMod - 1 /\ i < n /\ n < i + QLen
    BY <1>3
  <2>2. Slot(q.lastUsed, i) # Slot(q.lastUsed, n)
    <3> HIDE DEF n
    <3> QED
      BY <1>1, <2>1, SlotsDistinct
  <2> QED
    BY <1>1, <1>2, <1>8, <2>2 DEF UsedAt
<1>10. UsedAt(r, n) = AvailId(q)
  BY <1>1, <1>2, <1>8 DEF UsedAt
<1> QED
  BY <1>4, <1>5, <1>6, <1>7, <1>9, <1>10

\* The handler takes the buffer completed first and posts it last.
LEMMA DrainMoves ==
  ASSUME NEW q \in QueueRecord, QueueInv(q), HasUsed(q),
         NEW r, r = PushAvail(PopUsed(q), UsedId(q))
  PROVE  /\ Waiting(r) = Waiting(q) + 1 /\ Filled(r) = Filled(q) - 1
         /\ UsedId(q) = UsedAt(q, 0)
         /\ \A i \in 0 .. Filled(r) - 1 : UsedAt(r, i) = UsedAt(q, i + 1)
         /\ \A i \in 0 .. Waiting(q) - 1 : AvailAt(r, i) = AvailAt(q, i)
         /\ AvailAt(r, Waiting(q)) = UsedId(q)
<1> DEFINE n == Waiting(q)
<1>1. /\ q.taken \in Index /\ q.availIdx \in Index
      /\ q.lastUsed \in Index /\ q.usedIdx \in Index
      /\ q.avail \in [Desc -> Desc]
  BY DEF QueueRecord
<1>2. /\ r.lastUsed = WrapAdd(q.lastUsed, 1) /\ r.usedIdx = q.usedIdx /\ r.used = q.used
      /\ r.taken = q.taken /\ r.availIdx = WrapAdd(q.availIdx, 1)
      /\ r.avail = [q.avail EXCEPT ![q.availIdx % QLen] = UsedId(q)]
  BY DEF PushAvail, PopUsed, QueueRecord
<1>3. /\ IdxMod \in Nat /\ QLen \in Nat \ {0} /\ QLen < IdxMod
      /\ Filled(q) \in Nat /\ Filled(q) > 0 /\ n \in Nat /\ n + Filled(q) = QLen
      /\ Filled(q) - 1 <= IdxMod - 2 /\ n + 1 < IdxMod /\ n < QLen
  BY QueueCounts, QueueAssumption DEF QueueInv
<1>4. Filled(r) = Filled(q) - 1
  <2>1. q.lastUsed # q.usedIdx
    BY DEF HasUsed
  <2> QED
    BY <1>1, <1>2, <2>1, Moves DEF Filled
<1>5. Waiting(r) = n + 1
  BY <1>1, <1>2, <1>3, Moves DEF Waiting
<1>6. UsedId(q) = UsedAt(q, 0)
  BY <1>1, Moves DEF UsedId, UsedAt, Slot
<1>7. ASSUME NEW i \in 0 .. Filled(r) - 1 PROVE UsedAt(r, i) = UsedAt(q, i + 1)
  <2>1. i \in 0 .. IdxMod - 2
    BY <1>3, <1>4
  <2>2. WrapAdd(WrapAdd(q.lastUsed, 1), i) = WrapAdd(q.lastUsed, i + 1)
    BY <1>1, <2>1, Moves
  <2> QED
    BY <1>2, <2>2 DEF UsedAt, Slot
<1>8. q.availIdx % QLen = Slot(q.taken, n) /\ q.availIdx % QLen \in Desc
  <2>1. WrapAdd(q.taken, n) = q.availIdx
    BY <1>1, Moves DEF Waiting
  <2> QED
    BY <1>1, <2>1, IndexOps DEF Slot
<1>9. ASSUME NEW i \in 0 .. n - 1 PROVE AvailAt(r, i) = AvailAt(q, i)
  <2>1. i \in 0 .. IdxMod - 1 /\ n \in 0 .. IdxMod - 1 /\ i < n /\ n < i + QLen
    BY <1>3
  <2>2. Slot(q.taken, i) # Slot(q.taken, n)
    <3> HIDE DEF n
    <3> QED
      BY <1>1, <2>1, SlotsDistinct
  <2> QED
    BY <1>1, <1>2, <1>8, <2>2 DEF AvailAt
<1>10. AvailAt(r, n) = UsedId(q)
  BY <1>1, <1>2, <1>8 DEF AvailAt
<1> QED
  BY <1>4, <1>5, <1>6, <1>7, <1>9, <1>10

LEMMA ReportConserves ==
  ASSUME NEW q \in QueueRecord, QueueInv(q), HasAvail(q)
  PROVE  QueueInv(PushUsed(TakeAvail(q), AvailId(q)))
<1> DEFINE r == PushUsed(TakeAvail(q), AvailId(q))
           a == Waiting(q)
           u == Filled(q)
<1>1. /\ Waiting(r) = a - 1 /\ Filled(r) = u + 1
      /\ AvailId(q) = AvailAt(q, 0)
      /\ \A i \in 0 .. Waiting(r) - 1 : AvailAt(r, i) = AvailAt(q, i + 1)
      /\ \A i \in 0 .. u - 1 : UsedAt(r, i) = UsedAt(q, i)
      /\ UsedAt(r, u) = AvailId(q)
  BY ReportMoves
<1>2. a \in Nat /\ a > 0 /\ u \in Nat
  BY QueueCounts, QueueAssumption
<1> HIDE DEF r, a, u
<1>3. /\ \A i \in 0 .. a - 2 : AvailAt(r, i) = AvailAt(q, i + 1)
      /\ \A i \in 0 .. u - 1 : UsedAt(r, i) = UsedAt(q, i)
      /\ UsedAt(r, u) = AvailAt(q, 0)
  BY <1>1, <1>2
<1>4. /\ a + u = QLen
      /\ \A id \in Desc : \/ \E i \in 0 .. a - 1 : id = AvailAt(q, i)
                          \/ \E i \in 0 .. u - 1 : id = UsedAt(q, i)
      /\ \A i, j \in 0 .. a - 1 : i # j => AvailAt(q, i) # AvailAt(q, j)
      /\ \A i, j \in 0 .. u - 1 : i # j => UsedAt(q, i) # UsedAt(q, j)
      /\ \A i \in 0 .. a - 1, j \in 0 .. u - 1 : AvailAt(q, i) # UsedAt(q, j)
  BY DEF QueueInv, a, u
<1>5. ASSUME NEW id \in Desc
      PROVE  \/ \E i \in 0 .. a - 2 : id = AvailAt(r, i)
             \/ \E i \in 0 .. u : id = UsedAt(r, i)
  <2>1. CASE \E i \in 0 .. u - 1 : id = UsedAt(q, i)
    BY <2>1, <1>2, <1>3
  <2>2. CASE id = AvailAt(q, 0)
    BY <2>2, <1>2, <1>3
  <2>3. ASSUME NEW i \in 0 .. a - 1, i # 0, id = AvailAt(q, i)
        PROVE  \E k \in 0 .. a - 2 : id = AvailAt(r, k)
    <3>1. i - 1 \in 0 .. a - 2 /\ (i - 1) + 1 = i
      BY <2>3, <1>2
    <3> QED
      BY <3>1, <2>3, <1>3
  <2> QED
    BY <2>1, <2>2, <2>3, <1>4
<1>6. ASSUME NEW i \in 0 .. a - 2, NEW j \in 0 .. a - 2, i # j
      PROVE  AvailAt(r, i) # AvailAt(r, j)
  BY <1>2, <1>3, <1>4, <1>6
<1>7. ASSUME NEW i \in 0 .. u, NEW j \in 0 .. u, i # j
      PROVE  UsedAt(r, i) # UsedAt(r, j)
  <2>1. (i \in 0 .. u - 1 \/ i = u) /\ (j \in 0 .. u - 1 \/ j = u) /\ 0 \in 0 .. a - 1
    BY <1>2
  <2> QED
    BY <1>3, <1>4, <1>7, <2>1
<1>8. ASSUME NEW i \in 0 .. a - 2, NEW j \in 0 .. u
      PROVE  AvailAt(r, i) # UsedAt(r, j)
  <2>1. (j \in 0 .. u - 1 \/ j = u) /\ 0 \in 0 .. a - 1 /\ i + 1 \in 0 .. a - 1 /\ i + 1 # 0
    BY <1>2
  <2> QED
    BY <1>3, <1>4, <2>1
<1>9. Waiting(r) - 1 = a - 2 /\ Filled(r) - 1 = u /\ Waiting(r) + Filled(r) = QLen
  BY <1>1, <1>2, <1>4
<1>10. QueueInv(r)
  BY <1>5, <1>6, <1>7, <1>8, <1>9 DEF QueueInv
<1> QED
  BY <1>10 DEF r

LEMMA DrainConserves ==
  ASSUME NEW q \in QueueRecord, QueueInv(q), HasUsed(q)
  PROVE  QueueInv(PushAvail(PopUsed(q), UsedId(q)))
<1> DEFINE r == PushAvail(PopUsed(q), UsedId(q))
           a == Waiting(q)
           u == Filled(q)
<1>1. /\ Waiting(r) = a + 1 /\ Filled(r) = u - 1
      /\ UsedId(q) = UsedAt(q, 0)
      /\ \A i \in 0 .. Filled(r) - 1 : UsedAt(r, i) = UsedAt(q, i + 1)
      /\ \A i \in 0 .. a - 1 : AvailAt(r, i) = AvailAt(q, i)
      /\ AvailAt(r, a) = UsedId(q)
  BY DrainMoves
<1>2. u \in Nat /\ u > 0 /\ a \in Nat
  BY QueueCounts, QueueAssumption
<1> HIDE DEF r, a, u
<1>3. /\ \A i \in 0 .. u - 2 : UsedAt(r, i) = UsedAt(q, i + 1)
      /\ \A i \in 0 .. a - 1 : AvailAt(r, i) = AvailAt(q, i)
      /\ AvailAt(r, a) = UsedAt(q, 0)
  BY <1>1, <1>2
<1>4. /\ a + u = QLen
      /\ \A id \in Desc : \/ \E i \in 0 .. a - 1 : id = AvailAt(q, i)
                          \/ \E i \in 0 .. u - 1 : id = UsedAt(q, i)
      /\ \A i, j \in 0 .. a - 1 : i # j => AvailAt(q, i) # AvailAt(q, j)
      /\ \A i, j \in 0 .. u - 1 : i # j => UsedAt(q, i) # UsedAt(q, j)
      /\ \A i \in 0 .. a - 1, j \in 0 .. u - 1 : AvailAt(q, i) # UsedAt(q, j)
  BY DEF QueueInv, a, u
<1>5. ASSUME NEW id \in Desc
      PROVE  \/ \E i \in 0 .. a : id = AvailAt(r, i)
             \/ \E i \in 0 .. u - 2 : id = UsedAt(r, i)
  <2>1. CASE \E i \in 0 .. a - 1 : id = AvailAt(q, i)
    BY <2>1, <1>2, <1>3
  <2>2. CASE id = UsedAt(q, 0)
    BY <2>2, <1>2, <1>3
  <2>3. ASSUME NEW i \in 0 .. u - 1, i # 0, id = UsedAt(q, i)
        PROVE  \E k \in 0 .. u - 2 : id = UsedAt(r, k)
    <3>1. i - 1 \in 0 .. u - 2 /\ (i - 1) + 1 = i
      BY <2>3, <1>2
    <3> QED
      BY <3>1, <2>3, <1>3
  <2> QED
    BY <2>1, <2>2, <2>3, <1>4
<1>6. ASSUME NEW i \in 0 .. a, NEW j \in 0 .. a, i # j
      PROVE  AvailAt(r, i) # AvailAt(r, j)
  <2>1. (i \in 0 .. a - 1 \/ i = a) /\ (j \in 0 .. a - 1 \/ j = a) /\ 0 \in 0 .. u - 1
    BY <1>2
  <2> QED
    BY <1>3, <1>4, <1>6, <2>1
<1>7. ASSUME NEW i \in 0 .. u - 2, NEW j \in 0 .. u - 2, i # j
      PROVE  UsedAt(r, i) # UsedAt(r, j)
  BY <1>2, <1>3, <1>4, <1>7
<1>8. ASSUME NEW i \in 0 .. a, NEW j \in 0 .. u - 2
      PROVE  AvailAt(r, i) # UsedAt(r, j)
  <2>1. (i \in 0 .. a - 1 \/ i = a) /\ 0 \in 0 .. u - 1 /\ j + 1 \in 0 .. u - 1 /\ j + 1 # 0
    BY <1>2
  <2> QED
    BY <1>3, <1>4, <2>1
<1>9. Waiting(r) - 1 = a /\ Filled(r) - 1 = u - 2 /\ Waiting(r) + Filled(r) = QLen
  BY <1>1, <1>2, <1>4
<1>10. QueueInv(r)
  BY <1>5, <1>6, <1>7, <1>8, <1>9 DEF QueueInv
<1> QED
  BY <1>10 DEF r

\* All buffers are posted, in order.
LEMMA AllPosted ==
  ASSUME NEW q, Waiting(q) = QLen, Filled(q) = 0, \A i \in 0 .. QLen - 1 : AvailAt(q, i) = i
  PROVE  QueueInv(q)
<1>1. QLen \in Nat \ {0}
  BY QueueAssumption
<1>2. Waiting(q) + Filled(q) = QLen /\ 0 .. Filled(q) - 1 = {}
  BY <1>1
<1>3. \A id \in Desc : \E i \in 0 .. Waiting(q) - 1 : id = AvailAt(q, i)
  BY DEF Desc
<1>4. \A i, j \in 0 .. Waiting(q) - 1 : i # j => AvailAt(q, i) # AvailAt(q, j)
  OBVIOUS
<1> QED
  BY <1>2, <1>3, <1>4 DEF QueueInv

\* As init_device leaves the queue.
LEMMA PostedQueue ==
  ASSUME NEW q, q = [NewQueue EXCEPT !.avail = [i \in Desc |-> i], !.availIdx = QLen]
  PROVE  QueueInv(q) /\ Filled(q) = 0
<1>1. /\ q.taken = 0 /\ q.availIdx = QLen /\ q.lastUsed = 0 /\ q.usedIdx = 0
      /\ q.avail = [i \in Desc |-> i]
      /\ 0 \in Index /\ QLen \in Index
  BY QueueAssumption DEF NewQueue, Index
<1>2. Waiting(q) = QLen /\ Filled(q) = 0
  BY QueueAssumption, <1>1, DistanceIs DEF Waiting, Filled
<1>3. ASSUME NEW i \in 0 .. QLen - 1 PROVE AvailAt(q, i) = i
  <2>1. i \in 0 .. IdxMod - 1 /\ i < IdxMod /\ 0 + i = i
    BY QueueAssumption
  <2>2. WrapAdd(0, i) = i
    BY <1>1, <2>1, WrapIs
  <2>3. i = QLen * 0 + i /\ QLen \in Nat \ {0} /\ i \in Int /\ 0 \in Int
    BY QueueAssumption
  <2>4. i % QLen = i
    BY <2>3, ModUnique
  <2> QED
    BY <1>1, <2>2, <2>4 DEF AvailAt, Slot, Desc
<1> QED
  BY <1>2, <1>3, AllPosted

\* The buffers of the devices that are set up are conserved; a device that is
\* not has none.
BuffersInv ==
  \A d \in Device :
    IF boot[d] = "off" THEN queue[d] = NewQueue ELSE QueueInv(queue[d])

LEMMA InitBuffersInv == Init => BuffersInv
BY DEF Init, BuffersInv

LEMMA NewHasNone == Waiting(NewQueue) = 0 /\ Filled(NewQueue) = 0 /\ ~HasUsed(NewQueue)
<1>1. 0 \in Index
  BY QueueAssumption DEF Index
<1> QED
  BY <1>1, DistanceIs DEF Waiting, Filled, HasUsed, NewQueue

LEMMA NextBuffersInv == IInv /\ BuffersInv /\ [Next]_vars => BuffersInv'
<1> SUFFICES ASSUME IInv, BuffersInv, [Next]_vars PROVE BuffersInv'
  OBVIOUS
<1>0. /\ queue \in [Device -> QueueRecord]
      /\ boot \in [Device -> BootStages]
      /\ \A d \in Device : queue[d] \in QueueRecord
  BY DEF IInv, TypeOK
<1>1. CASE MainLoop \/ Tick \/ StartLoop \/ UNCHANGED vars
  BY <1>1
  DEF BuffersInv, MainLoop, ReadHead, ReadSlot, Advance, Sleep, Tick, StartLoop, deviceVars, vars
<1>2. ASSUME NEW d \in Device, Report(d)
      PROVE  BuffersInv'
  <2>1. /\ queue' = [queue EXCEPT ![d] = PushUsed(TakeAvail(@), AvailId(queue[d]))]
        /\ HasAvail(queue[d]) /\ boot' = boot /\ boot[d] # "off"
    BY <1>2, InputAssumption DEF Report
  <2>2. QueueInv(PushUsed(TakeAvail(queue[d]), AvailId(queue[d])))
    BY <1>0, <2>1, ReportConserves DEF BuffersInv
  <2> QED
    BY <1>0, <2>1, <2>2 DEF BuffersInv
<1>3. ASSUME NEW d \in Device, EnterIrq(d) \/ LeaveIrq(d)
      PROVE  BuffersInv'
  BY <1>3 DEF BuffersInv, EnterIrq, LeaveIrq, deviceVars
<1>4. ASSUME NEW d \in Device, Drain(d)
      PROVE  BuffersInv'
  <2>1. /\ queue' = [queue EXCEPT ![d] = PushAvail(PopUsed(@), UsedId(queue[d]))]
        /\ HasUsed(queue[d]) /\ boot' = boot
    BY <1>4 DEF Drain
  <2>2. boot[d] # "off"
    BY <2>1, NewHasNone DEF BuffersInv
  <2>3. QueueInv(PushAvail(PopUsed(queue[d]), UsedId(queue[d])))
    BY <1>0, <2>1, <2>2, DrainConserves DEF BuffersInv
  <2> QED
    BY <1>0, <2>1, <2>2, <2>3 DEF BuffersInv
<1>5. ASSUME NEW d \in Device, PostBuffers(d)
      PROVE  BuffersInv'
  <2>1. /\ queue' = [queue EXCEPT ![d] =
                       [NewQueue EXCEPT !.avail = [i \in Desc |-> i], !.availIdx = QLen]]
        /\ boot' = [boot EXCEPT ![d] = "posted"]
    BY <1>5 DEF PostBuffers
  <2>2. QueueInv(queue'[d]) /\ boot'[d] # "off"
    BY <1>0, <2>1, PostedQueue
  <2> QED
    BY <1>0, <2>1, <2>2 DEF BuffersInv
<1>6. ASSUME NEW d \in Device, BootStep(d)
      PROVE  BuffersInv'
  <2>1. queue' = queue /\ \A o \in Device : boot'[o] = "off" <=> boot[o] = "off"
    BY <1>0, <1>6 DEF BootStep, deviceVars
  <2> QED
    BY <2>1 DEF BuffersInv
<1> QED
  BY <1>1, <1>2, <1>3, <1>4, <1>5, <1>6 DEF Next, Handler, Bringup

\* No buffer of a device is lost or doubled, for any length of the queue that
\* divides the range of the indices and whatever interrupts what: the handler
\* posts again exactly what it drains (on_irq, push_avail, pop_used).
THEOREM BuffersAreConserved == Spec => []BuffersConserved
<1>1. IInv /\ BuffersInv => BuffersConserved
  BY InvConserves DEF IInv, TypeOK, BuffersInv, BuffersConserved
<1> QED
  BY <1>1, InitIInv, NextIInv, InitBuffersInv, NextBuffersInv, PTL DEF Spec

(***************************************************************************)
(* The events of a device stay in order                                    *)
(***************************************************************************)

\* What the main loop has taken, followed by what is in the ring.
Fed == Len(got) + (head - tail)
Item(k) ==
  IF k <= Len(got) THEN got[k] ELSE events[(tail + (k - Len(got)) - 1) % RING]

\* The k-th event the device has completed and nobody has drained.
Undrained(d, k) == buffers[d][UsedAt(queue[d], k)]

\* Along the way of the events of one device their numbers rise.
OrderInv ==
  /\ \A k \in 1 .. Fed : Item(k) \in 1 .. Len(reported)
  /\ \A j, k \in 1 .. Fed :
       j < k /\ reported[Item(j)] = reported[Item(k)] => Item(j) < Item(k)
  /\ \A d \in Device : \A k \in 0 .. Filled(queue[d]) - 1 :
       Undrained(d, k) \in 1 .. Len(reported) /\ reported[Undrained(d, k)] = d
  /\ \A d \in Device : \A j, k \in 0 .. Filled(queue[d]) - 1 :
       j < k => Undrained(d, j) < Undrained(d, k)
  /\ \A d \in Device : \A j \in 1 .. Fed, k \in 0 .. Filled(queue[d]) - 1 :
       reported[Item(j)] = d => Item(j) < Undrained(d, k)

\* push lengthens what is fed by its event, or is refused.
LEMMA PushFeeds ==
  ASSUME IInv, NEW e \in EventSlot, Push(e), UNCHANGED <<tail, got>>
  PROVE  \/ Fed' = Fed /\ \A k \in 1 .. Fed : Item(k)' = Item(k)
         \/ /\ Fed' = Fed + 1
            /\ \A k \in 1 .. Fed : Item(k)' = Item(k)
            /\ \A k \in 1 .. Fed + 1 : k = Fed + 1 => Item(k)' = e
<1> USE Sizes
<1>0. /\ tail \in Nat /\ head \in Nat /\ tail <= head /\ head <= tail + RING
      /\ Len(got) \in Nat /\ events \in [0 .. RING - 1 -> EventSlot]
  BY DEF IInv, TypeOK
<1>1. CASE head - tail >= RING
  BY <1>1 DEF Push, Fed, Item
<1>2. CASE ~(head - tail >= RING)
  <2>1. events' = [events EXCEPT ![head % RING] = e] /\ head' = head + 1
    BY <1>2 DEF Push
  <2>2. \A i \in tail .. head - 1 : events'[i % RING] = events[i % RING]
    BY PushStep
  <2>3. head % RING \in 0 .. RING - 1
    BY <1>0, SlotInRange
  <2>4. Fed' = Fed + 1
    BY <1>0, <2>1 DEF Fed
  <2>5. ASSUME NEW k \in 1 .. Fed
        PROVE  Item(k)' = Item(k)
    <3>1. CASE k <= Len(got)
      BY <3>1 DEF Item
    <3>2. CASE ~(k <= Len(got))
      <4>1. tail + (k - Len(got)) - 1 \in tail .. head - 1
        BY <1>0, <3>2 DEF Fed
      <4> QED
        BY <2>2, <3>2, <4>1 DEF Item
    <3> QED
      BY <3>1, <3>2
  <2>6. ASSUME NEW k \in 1 .. Fed + 1, k = Fed + 1
        PROVE  Item(k)' = e
    <3>1. ~(k <= Len(got)) /\ tail + (k - Len(got)) - 1 = head
      BY <1>0, <2>6 DEF Fed
    <3>2. events'[head % RING] = e
      BY <1>0, <2>1, <2>3
    <3> QED
      BY <3>1, <3>2 DEF Item
  <2> QED
    BY <2>4, <2>5, <2>6
<1> QED
  BY <1>1, <1>2

\* pop takes over what is fed as it is.
LEMMA AdvanceFeeds ==
  ASSUME IInv, Advance
  PROVE  Fed' = Fed /\ \A k \in 1 .. Fed : Item(k)' = Item(k)
<1>0. /\ tail \in Nat /\ head \in Nat /\ tail < head
      /\ got \in Seq(EventSlot) /\ ev \in EventSlot /\ ev = events[tail % RING]
      /\ tail' = tail + 1 /\ head' = head /\ events' = events /\ got' = Append(got, ev)
  BY DEF IInv, TypeOK, PopInv, Advance
<1> DEFINE n == Len(got)
<1>1. /\ n \in Nat /\ Len(got') = n + 1 /\ got'[n + 1] = ev
      /\ \A k \in 1 .. n : got'[k] = got[k]
  BY <1>0, AppendProperties
<1>2. Fed' = Fed
  <2>1. Fed' = Len(got') + (head' - tail') /\ Fed = n + (head - tail)
    BY DEF Fed
  <2>2. Len(got') = n + 1 /\ n \in Nat
    BY <1>1
  <2>3. tail' = tail + 1 /\ head' = head /\ tail \in Nat /\ head \in Nat
    BY <1>0
  <2> HIDE DEF n
  <2>4. n + (head - tail) = (n + 1) + (head - (tail + 1))
    BY <2>2, <2>3
  <2> QED
    BY <2>1, <2>2, <2>3, <2>4
<1>3. ASSUME NEW k \in 1 .. Fed
      PROVE  Item(k)' = Item(k)
  <2>1. CASE k <= n
    BY <1>1, <2>1 DEF Item
  <2>2. CASE k = n + 1
    <3>1. tail + (k - n) - 1 = tail /\ ~(k <= n)
      BY <1>0, <1>1, <2>2
    <3>2. Item(k) = ev
      BY <1>0, <3>1 DEF Item
    <3> QED
      BY <1>1, <2>2, <3>2 DEF Item
  <2>3. CASE k > n + 1
    <3>1. /\ ~(k <= n) /\ ~(k <= n + 1)
          /\ tail + (k - n) - 1 = tail + 1 + (k - (n + 1)) - 1
      BY <1>0, <1>1, <2>3
    <3> QED
      BY <1>0, <1>1, <3>1 DEF Item
  <2> QED
    BY <1>1, <2>1, <2>2, <2>3 DEF Fed
<1> QED
  BY <1>2, <1>3

LEMMA InitOrderInv == Init => OrderInv
<1> SUFFICES ASSUME Init PROVE OrderInv
  OBVIOUS
<1>1. Fed = 0 /\ 1 .. Fed = {}
  BY DEF Init, Fed
<1>2. \A d \in Device : 0 .. Filled(queue[d]) - 1 = {}
  BY NewHasNone DEF Init
<1> QED
  BY <1>1, <1>2 DEF OrderInv

\* The types the steps below use.
LEMMA OrderTypes ==
  ASSUME IInv
  PROVE  /\ Fed \in Nat /\ Len(reported) \in Nat
         /\ \A d \in Device : Filled(queue[d]) \in Nat
<1>1. /\ Fed \in Nat /\ Len(reported) \in Nat
      /\ \A d \in Device : queue[d] \in QueueRecord
  BY DEF IInv, TypeOK, Fed
<1> QED
  BY <1>1, QueueCounts, QueueAssumption

\* The event the handler drains is the oldest of its device that is not fed.
LEMMA DrainKeepsOrder ==
  ASSUME IInv, BuffersInv, OrderInv, NEW d \in Device, Drain(d)
  PROVE  OrderInv'
<1> DEFINE u == Filled(queue[d])
           e == Undrained(d, 0)
<1>1. /\ Push(buffers[d][UsedId(queue[d])])
      /\ queue' = [queue EXCEPT ![d] = PushAvail(PopUsed(@), UsedId(queue[d]))]
      /\ HasUsed(queue[d])
      /\ UNCHANGED <<buffers, reported, tail, got>>
  BY DEF Drain
<1>2. queue \in [Device -> QueueRecord] /\ queue[d] \in QueueRecord /\ QueueInv(queue[d])
  BY <1>1, NewHasNone DEF IInv, TypeOK, BuffersInv
<1>3. /\ Filled(queue'[d]) = u - 1
      /\ UsedId(queue[d]) = UsedAt(queue[d], 0)
      /\ \A k \in 0 .. u - 2 : UsedAt(queue'[d], k) = UsedAt(queue[d], k + 1)
  <2>1. queue'[d] = PushAvail(PopUsed(queue[d]), UsedId(queue[d]))
    BY <1>1, <1>2
  <2>2. u \in Nat
    BY OrderTypes
  <2>3. /\ Filled(queue'[d]) = u - 1
        /\ UsedId(queue[d]) = UsedAt(queue[d], 0)
        /\ \A k \in 0 .. Filled(queue'[d]) - 1 : UsedAt(queue'[d], k) = UsedAt(queue[d], k + 1)
    BY <1>1, <1>2, <2>1, DrainMoves
  <2> HIDE DEF u
  <2> QED
    BY <2>2, <2>3
<1>4. u \in Nat /\ u > 0 /\ Fed \in Nat /\ Len(reported) \in Nat
  BY <1>1, <1>2, QueueCounts, OrderTypes
<1>5. \A o \in Device \ {d} : queue'[o] = queue[o]
  BY <1>1, <1>2
<1>6. \A k \in 0 .. u - 2 : Undrained(d, k)' = Undrained(d, k + 1)
  BY <1>1, <1>3 DEF Undrained
<1>7. \A o \in Device \ {d} :
        /\ Filled(queue'[o]) = Filled(queue[o])
        /\ \A k \in 0 .. Filled(queue[o]) - 1 : Undrained(o, k)' = Undrained(o, k)
  BY <1>1, <1>5 DEF Undrained
<1>8. /\ e \in EventSlot /\ Push(e)
      /\ e \in 1 .. Len(reported) /\ reported[e] = d
  <2>1. UsedId(queue[d]) \in Desc
    BY <1>2, QueuePops
  <2>2. e = buffers[d][UsedId(queue[d])]
    BY <1>3 DEF Undrained
  <2>3. 0 \in 0 .. u - 1
    BY <1>4
  <2> QED
    BY <1>1, <2>1, <2>2, <2>3 DEF IInv, TypeOK, OrderInv
<1>9. \/ Fed' = Fed /\ \A k \in 1 .. Fed : Item(k)' = Item(k)
      \/ /\ Fed' = Fed + 1
         /\ \A k \in 1 .. Fed : Item(k)' = Item(k)
         /\ \A k \in 1 .. Fed + 1 : k = Fed + 1 => Item(k)' = e
  BY <1>1, <1>8, PushFeeds
<1> HIDE DEF u, e
<1>10. /\ \A k \in 1 .. Fed : Item(k) \in 1 .. Len(reported)
       /\ \A j, k \in 1 .. Fed :
            j < k /\ reported[Item(j)] = reported[Item(k)] => Item(j) < Item(k)
       /\ \A k \in 0 .. u - 1 :
            Undrained(d, k) \in 1 .. Len(reported) /\ reported[Undrained(d, k)] = d
       /\ \A j, k \in 0 .. u - 1 : j < k => Undrained(d, j) < Undrained(d, k)
       /\ \A j \in 1 .. Fed, k \in 0 .. u - 1 :
            reported[Item(j)] = d => Item(j) < Undrained(d, k)
  BY DEF OrderInv, u
<1>11. ASSUME NEW k \in 0 .. u - 2
       PROVE  /\ Undrained(d, k)' \in 1 .. Len(reported) /\ reported[Undrained(d, k)'] = d
              /\ e < Undrained(d, k)'
              /\ \A j \in 0 .. u - 2 : j < k => Undrained(d, j)' < Undrained(d, k)'
              /\ \A j \in 1 .. Fed : reported[Item(j)] = d => Item(j) < Undrained(d, k)'
  <2>1. k + 1 \in 0 .. u - 1 /\ 0 \in 0 .. u - 1 /\ 0 < k + 1
    BY <1>4
  <2>2. \A j \in 0 .. u - 2 : j < k => j + 1 \in 0 .. u - 1 /\ j + 1 < k + 1
    BY <1>4
  <2> QED
    BY <1>6, <1>10, <2>1, <2>2 DEF e
<1>12. ASSUME NEW j \in 1 .. Fed
       PROVE  reported[Item(j)] = d => Item(j) < e
  <2>1. 0 \in 0 .. u - 1
    BY <1>4
  <2> QED
    BY <1>10, <2>1 DEF e
<1>13. /\ \A k \in 1 .. Fed' : Item(k)' \in 1 .. Len(reported)
       /\ \A j, k \in 1 .. Fed' :
            j < k /\ reported[Item(j)'] = reported[Item(k)'] => Item(j)' < Item(k)'
       /\ \A k \in 1 .. Fed' : \/ k \in 1 .. Fed /\ Item(k)' = Item(k)
                               \/ Item(k)' = e
  <2>1. CASE Fed' = Fed /\ \A k \in 1 .. Fed : Item(k)' = Item(k)
    BY <2>1, <1>10
  <2>2. CASE /\ Fed' = Fed + 1
             /\ \A k \in 1 .. Fed : Item(k)' = Item(k)
             /\ \A k \in 1 .. Fed + 1 : k = Fed + 1 => Item(k)' = e
    <3>1. \A k \in 1 .. Fed' : \/ k \in 1 .. Fed /\ Item(k)' = Item(k)
                               \/ k = Fed + 1 /\ Item(k)' = e
      BY <1>4, <2>2
    <3>2. ASSUME NEW j \in 1 .. Fed', NEW k \in 1 .. Fed', j < k,
                 reported[Item(j)'] = reported[Item(k)']
          PROVE  Item(j)' < Item(k)'
      <4>1. j \in 1 .. Fed
        BY <1>4, <2>2, <3>2
      <4>2. Item(j)' = Item(j)
        BY <2>2, <4>1
      <4>3. CASE k \in 1 .. Fed /\ Item(k)' = Item(k)
        BY <1>10, <3>2, <4>1, <4>2, <4>3
      <4>4. CASE Item(k)' = e
        BY <1>8, <1>12, <3>2, <4>1, <4>2, <4>4
      <4> QED
        BY <3>1, <4>3, <4>4
    <3> QED
      BY <1>8, <1>10, <3>1, <3>2
  <2> QED
    BY <1>9, <2>1, <2>2
<1>14. ASSUME NEW o \in Device
       PROVE  /\ \A k \in 0 .. Filled(queue'[o]) - 1 :
                   Undrained(o, k)' \in 1 .. Len(reported) /\ reported[Undrained(o, k)'] = o
              /\ \A j, k \in 0 .. Filled(queue'[o]) - 1 :
                   j < k => Undrained(o, j)' < Undrained(o, k)'
              /\ \A j \in 1 .. Fed', k \in 0 .. Filled(queue'[o]) - 1 :
                   reported[Item(j)'] = o => Item(j)' < Undrained(o, k)'
  <2>1. CASE o = d
    <3>1. 0 .. Filled(queue'[d]) - 1 = 0 .. u - 2
      BY <1>3, <1>4
    <3> QED
      BY <2>1, <3>1, <1>11, <1>13
  <2>2. CASE o # d
    BY <2>2, <1>7, <1>8, <1>13 DEF OrderInv
  <2> QED
    BY <2>1, <2>2
<1>15. reported' = reported
  BY <1>1
<1> QED
  BY <1>13, <1>14, <1>15 DEF OrderInv

\* The event a device reports is the newest of all.
LEMMA ReportKeepsOrder ==
  ASSUME IInv, BuffersInv, OrderInv, NEW d \in Device, Report(d)
  PROVE  OrderInv'
<1> DEFINE u == Filled(queue[d])
           n == Len(reported)
           id == AvailId(queue[d])
<1>1. /\ queue' = [queue EXCEPT ![d] = PushUsed(TakeAvail(@), id)]
      /\ buffers' = [buffers EXCEPT ![d][id] = n + 1]
      /\ reported' = Append(reported, d)
      /\ HasAvail(queue[d]) /\ boot[d] # "off"
      /\ UNCHANGED <<events, head, tail, got>>
  BY InputAssumption DEF Report, ringVars
<1>2. /\ queue \in [Device -> QueueRecord] /\ queue[d] \in QueueRecord /\ QueueInv(queue[d])
      /\ buffers \in [Device -> [Desc -> EventSlot]] /\ reported \in Seq(Device)
  BY <1>1 DEF IInv, TypeOK, BuffersInv
<1>3. /\ Filled(queue'[d]) = u + 1 /\ id = AvailAt(queue[d], 0)
      /\ \A k \in 0 .. u - 1 : UsedAt(queue'[d], k) = UsedAt(queue[d], k)
      /\ UsedAt(queue'[d], u) = id
  <2>1. queue'[d] = PushUsed(TakeAvail(queue[d]), AvailId(queue[d]))
    BY <1>1, <1>2
  <2> QED
    BY <1>1, <1>2, <2>1, ReportMoves
<1>4. u \in Nat /\ Fed \in Nat /\ n \in Nat /\ 0 \in 0 .. Waiting(queue[d]) - 1 /\ id \in Desc
  BY <1>1, <1>2, QueueCounts, QueuePops, QueueAssumption, OrderTypes
<1>5. /\ Len(reported') = n + 1 /\ reported'[n + 1] = d
      /\ \A x \in 1 .. n : reported'[x] = reported[x]
  BY <1>1, <1>2, AppendProperties
<1>6. Fed' = Fed /\ \A k \in 1 .. Fed : Item(k)' = Item(k)
  BY <1>1 DEF Fed, Item
<1>7. \A k \in 0 .. u - 1 : Undrained(d, k)' = Undrained(d, k)
  <2>1. \A k \in 0 .. u - 1 : UsedAt(queue[d], k) # id
    BY <1>2, <1>3, <1>4 DEF QueueInv
  <2>2. \A x \in Desc : x # id => buffers'[d][x] = buffers[d][x]
    BY <1>1, <1>2
  <2>3. \A k \in 0 .. u - 1 : UsedAt(queue[d], k) \in Desc
    <3>1. \A k \in 0 .. u - 1 : k \in 0 .. IdxMod - 1
      BY <1>2, QueueCounts, QueueAssumption
    <3> QED
      BY <1>2, <3>1, EntriesAreDesc
  <2> HIDE DEF u, id
  <2> QED
    BY <1>3, <2>1, <2>2, <2>3 DEF Undrained
<1>8. \A k \in 0 .. u : k = u => Undrained(d, k)' = n + 1
  <2>1. buffers'[d][id] = n + 1
    BY <1>1, <1>2, <1>4
  <2> QED
    BY <1>3, <2>1 DEF Undrained
<1>9. \A o \in Device \ {d} :
        /\ Filled(queue'[o]) = Filled(queue[o])
        /\ \A k \in 0 .. Filled(queue[o]) - 1 : Undrained(o, k)' = Undrained(o, k)
  <2>1. \A o \in Device \ {d} : queue'[o] = queue[o] /\ buffers'[o] = buffers[o]
    BY <1>1, <1>2
  <2> QED
    BY <2>1 DEF Undrained
<1> HIDE DEF u, n, id
<1>10. /\ \A k \in 1 .. Fed : Item(k) \in 1 .. n
       /\ \A j, k \in 1 .. Fed :
            j < k /\ reported[Item(j)] = reported[Item(k)] => Item(j) < Item(k)
  BY DEF OrderInv, n
<1>11. ASSUME NEW o \in Device
       PROVE  /\ \A k \in 0 .. Filled(queue[o]) - 1 :
                   Undrained(o, k) \in 1 .. n /\ reported[Undrained(o, k)] = o
              /\ \A j, k \in 0 .. Filled(queue[o]) - 1 :
                   j < k => Undrained(o, j) < Undrained(o, k)
              /\ \A j \in 1 .. Fed, k \in 0 .. Filled(queue[o]) - 1 :
                   reported[Item(j)] = o => Item(j) < Undrained(o, k)
  BY DEF OrderInv, n
<1>12. /\ \A k \in 1 .. Fed' : Item(k)' \in 1 .. Len(reported')
       /\ \A j, k \in 1 .. Fed' :
            j < k /\ reported'[Item(j)'] = reported'[Item(k)'] => Item(j)' < Item(k)'
  <2>1. \A x \in 1 .. n : x \in 1 .. Len(reported')
    BY <1>4, <1>5
  <2> QED
    BY <1>5, <1>6, <1>10, <2>1
<1>13. ASSUME NEW o \in Device, NEW k \in 0 .. Filled(queue'[o]) - 1
       PROVE  /\ Undrained(o, k)' \in 1 .. Len(reported') /\ reported'[Undrained(o, k)'] = o
              /\ \A j \in 0 .. Filled(queue'[o]) - 1 :
                   j < k => Undrained(o, j)' < Undrained(o, k)'
              /\ \A j \in 1 .. Fed' :
                   reported'[Item(j)'] = o => Item(j)' < Undrained(o, k)'
  <2>1. \A x \in 1 .. n : x \in 1 .. Len(reported') /\ x < n + 1
    BY <1>4, <1>5
  <2>2. CASE o # d
    BY <2>1, <2>2, <1>5, <1>6, <1>9, <1>10, <1>11
  <2>3. CASE o = d
    <3>1. Filled(queue'[d]) - 1 = u /\ u = Filled(queue[d])
      BY <1>3, <1>4 DEF u
    <3>2. CASE k = u
      <4>1. \A j \in 0 .. u : j < k => j \in 0 .. u - 1
        BY <1>4, <3>2
      <4>2. Undrained(d, k)' = n + 1 /\ n + 1 \in 1 .. Len(reported')
        BY <1>4, <1>5, <1>8, <3>2
      <4>3. \A j \in 0 .. u : j < k => Undrained(d, j)' < n + 1
        BY <1>7, <1>11, <2>1, <3>1, <4>1
      <4>4. \A j \in 1 .. Fed : Item(j)' < n + 1
        BY <1>6, <1>10, <2>1
      <4> QED
        BY <1>5, <1>6, <2>3, <3>1, <4>2, <4>3, <4>4
    <3>3. CASE k \in 0 .. u - 1
      <4>1. \A j \in 0 .. u : j < k => j \in 0 .. u - 1
        BY <1>4, <3>3
      <4>2. Undrained(d, k)' = Undrained(d, k) /\ Undrained(d, k) \in 1 .. n
        BY <1>7, <1>11, <3>1, <3>3
      <4> QED
        BY <1>5, <1>6, <1>7, <1>10, <1>11, <2>1, <2>3, <3>1, <3>3, <4>1, <4>2
    <3> QED
      BY <1>4, <2>3, <3>1, <3>2, <3>3
  <2> QED
    BY <2>2, <2>3
<1> QED
  BY <1>12, <1>13 DEF OrderInv

LEMMA NextOrderInv == IInv /\ BuffersInv /\ OrderInv /\ [Next]_vars => OrderInv'
<1> SUFFICES ASSUME IInv, BuffersInv, OrderInv, [Next]_vars PROVE OrderInv'
  OBVIOUS
<1>1. ASSUME UNCHANGED <<queue, buffers, reported, ringVars>>
      PROVE  OrderInv'
  BY <1>1 DEF OrderInv, Fed, Item, Undrained, ringVars
<1>2. CASE ReadHead \/ ReadSlot \/ Sleep \/ Tick \/ StartLoop \/ UNCHANGED vars
  BY <1>1, <1>2 DEF ReadHead, ReadSlot, Sleep, Tick, StartLoop, deviceVars, vars
<1>3. CASE Advance
  <2>1. Fed' = Fed /\ \A k \in 1 .. Fed : Item(k)' = Item(k)
    BY <1>3, AdvanceFeeds
  <2>2. UNCHANGED <<queue, buffers, reported>>
    BY <1>3 DEF Advance, deviceVars
  <2> QED
    BY <2>1, <2>2 DEF OrderInv, Undrained
<1>4. ASSUME NEW d \in Device, EnterIrq(d) \/ LeaveIrq(d) \/ BootStep(d)
      PROVE  OrderInv'
  BY <1>1, <1>4 DEF EnterIrq, LeaveIrq, BootStep, deviceVars
<1>5. ASSUME NEW d \in Device, PostBuffers(d)
      PROVE  OrderInv'
  <2>1. /\ queue' = [queue EXCEPT ![d] =
                       [NewQueue EXCEPT !.avail = [i \in Desc |-> i], !.availIdx = QLen]]
        /\ queue \in [Device -> QueueRecord]
        /\ UNCHANGED <<buffers, reported, ringVars>>
    BY <1>5 DEF PostBuffers, IInv, TypeOK
  <2>2. 0 .. Filled(queue'[d]) - 1 = {}
    <3>1. queue'[d] = [NewQueue EXCEPT !.avail = [i \in Desc |-> i], !.availIdx = QLen]
      BY <2>1
    <3>2. Filled(queue'[d]) = 0
      BY <3>1, PostedQueue
    <3> QED
      BY <3>2
  <2>3. \A o \in Device \ {d} : queue'[o] = queue[o]
    BY <2>1
  <2>4. Fed' = Fed /\ \A k \in 1 .. Fed : Item(k)' = Item(k)
    BY <2>1 DEF Fed, Item, ringVars
  <2>5. ASSUME NEW o \in Device, NEW k \in 0 .. Filled(queue'[o]) - 1
        PROVE  /\ queue'[o] = queue[o] /\ k \in 0 .. Filled(queue[o]) - 1
               /\ \A j \in 0 .. Filled(queue[o]) - 1 : Undrained(o, j)' = Undrained(o, j)
    BY <2>1, <2>2, <2>3 DEF Undrained
  <2>6. reported' = reported
    BY <2>1
  <2>7. /\ \A k \in 1 .. Fed' : Item(k)' \in 1 .. Len(reported')
        /\ \A j, k \in 1 .. Fed' :
             j < k /\ reported'[Item(j)'] = reported'[Item(k)'] => Item(j)' < Item(k)'
    BY <2>4, <2>6 DEF OrderInv
  <2>8. ASSUME NEW o \in Device, NEW k \in 0 .. Filled(queue'[o]) - 1
        PROVE  /\ Undrained(o, k)' \in 1 .. Len(reported') /\ reported'[Undrained(o, k)'] = o
               /\ \A j \in 0 .. Filled(queue'[o]) - 1 :
                    j < k => Undrained(o, j)' < Undrained(o, k)'
               /\ \A j \in 1 .. Fed' :
                    reported'[Item(j)'] = o => Item(j)' < Undrained(o, k)'
    BY <2>4, <2>5, <2>6 DEF OrderInv
  <2> QED
    BY <2>7, <2>8 DEF OrderInv
<1>6. ASSUME NEW d \in Device, Report(d) \/ Drain(d)
      PROVE  OrderInv'
  BY <1>6, ReportKeepsOrder, DrainKeepsOrder
<1> QED
  BY <1>2, <1>3, <1>4, <1>5, <1>6 DEF Next, MainLoop, Handler, Bringup

\* The main loop takes the events of one device in the order in which the
\* device reported them, for any number of devices, buffers and slots, with
\* pop interrupted anywhere (the virtqueue, on_irq, push and pop together).
THEOREM EventsStayInOrder == Spec => []InOrder
<1>1. ASSUME IInv, OrderInv PROVE InOrder
  <2>1. ASSUME NEW i \in 1 .. Len(got)
        PROVE  i \in 1 .. Fed /\ Item(i) = got[i]
    <3>1. Len(got) \in Nat /\ head - tail \in Nat
      BY <1>1 DEF IInv, TypeOK
    <3> QED
      BY <3>1 DEF Fed, Item
  <2> QED
    BY <1>1, <2>1 DEF OrderInv, InOrder
<1> QED
  BY <1>1, InitIInv, NextIInv, InitBuffersInv, NextBuffersInv, InitOrderInv, NextOrderInv, PTL
  DEF Spec

=============================================================================
