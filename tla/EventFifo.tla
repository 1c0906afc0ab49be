------------------------------ MODULE EventFifo ------------------------------
(***************************************************************************)
(* What the input ring promises: a bounded first-in first-out queue that   *)
(* refuses the newest event when it is full and never reorders, repeats or *)
(* alters the ones it took.                                                *)
(***************************************************************************)
EXTENDS Naturals, Sequences

CONSTANTS Event, RING

VARIABLES
  pending,   \* the events in the queue, oldest first
  got,       \* the events taken out, in order
  dropped    \* the events refused

vars == <<pending, got, dropped>>

Init == pending = <<>> /\ got = <<>> /\ dropped = {}

Put(e) ==
  /\ Len(pending) < RING
  /\ pending' = Append(pending, e)
  /\ UNCHANGED <<got, dropped>>

Refuse(e) ==
  /\ Len(pending) = RING
  /\ dropped' = dropped \cup {e}
  /\ UNCHANGED <<pending, got>>

Take ==
  /\ pending # <<>>
  /\ pending' = Tail(pending)
  /\ got' = Append(got, Head(pending))
  /\ UNCHANGED dropped

Next == Take \/ \E e \in Event : Put(e) \/ Refuse(e)

Spec == Init /\ [][Next]_vars
=============================================================================
