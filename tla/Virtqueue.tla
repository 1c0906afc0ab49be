------------------------------ MODULE Virtqueue ------------------------------
(***************************************************************************)
(* A split virtqueue (virtio.rs): the driver posts descriptor numbers in   *)
(* the avail ring, the device gives them back in the used ring.  The ring  *)
(* indices are u16 counters that wrap, taken modulo the queue length to    *)
(* find a slot.  `taken` is the device's own position in the avail ring.   *)
(***************************************************************************)
EXTENDS Integers

CONSTANTS
  QLen,    \* descriptors of a queue
  IdxMod   \* 2^16: the range of the u16 indices

ASSUME QueueAssumption ==
  /\ QLen \in Nat \ {0}
  /\ IdxMod \in Nat \ {0}
  /\ IdxMod % QLen = 0
  /\ IdxMod > QLen

Desc == 0 .. QLen - 1
Index == 0 .. IdxMod - 1

QueueRecord == [avail : [Desc -> Desc], availIdx : Index, taken : Index,
                used : [Desc -> Desc], usedIdx : Index, lastUsed : Index]

\* u16::wrapping_add
WrapAdd(i, n) == (i + n) % IdxMod
Distance(from, to) == (to - from) % IdxMod

\* Queue::new over zeroed memory.
NewQueue == [avail |-> [i \in Desc |-> 0], availIdx |-> 0, taken |-> 0,
             used |-> [i \in Desc |-> 0], usedIdx |-> 0, lastUsed |-> 0]

PushAvail(q, id) ==
  [q EXCEPT !.avail[q.availIdx % QLen] = id, !.availIdx = WrapAdd(@, 1)]

HasUsed(q) == q.usedIdx # q.lastUsed
UsedId(q) == q.used[q.lastUsed % QLen]
\* A faulty PopUsed that counts on without wrapping.
PopUsedNoWrap(q) == [q EXCEPT !.lastUsed = @ + 1]

PopUsed(q) == [q EXCEPT !.lastUsed = WrapAdd(@, 1)]

\* The device's side of the protocol.
HasAvail(q) == q.availIdx # q.taken
AvailId(q) == q.avail[q.taken % QLen]
TakeAvail(q) == [q EXCEPT !.taken = WrapAdd(@, 1)]
PushUsed(q, id) ==
  [q EXCEPT !.used[q.usedIdx % QLen] = id, !.usedIdx = WrapAdd(@, 1)]

\* What each side will still find in its ring.
Posted(q) == { q.avail[WrapAdd(q.taken, i) % QLen] :
                 i \in 0 .. Distance(q.taken, q.availIdx) - 1 }
Completed(q) == { q.used[WrapAdd(q.lastUsed, i) % QLen] :
                    i \in 0 .. Distance(q.lastUsed, q.usedIdx) - 1 }

\* Nothing is posted or completed twice, and nothing is overwritten before
\* the other side has read it.
Conserved(q) ==
  /\ Distance(q.taken, q.availIdx) + Distance(q.lastUsed, q.usedIdx) = QLen
  /\ Posted(q) \cup Completed(q) = Desc
=============================================================================
