------------------------------- MODULE Frames -------------------------------
(***************************************************************************)
(* The physical frame allocator of src/src/frames.rs, as operators on the  *)
(* set of free frames and the next-fit cursor.  The bitmap is the set of   *)
(* its clear bits; every operation of the code runs with IRQs masked, so a *)
(* module that uses these operators takes each of them in one step.  The   *)
(* FREE counter is only ever printed and is left out.                      *)
(***************************************************************************)
EXTENDS Naturals

CONSTANT NFrames     \* frames of RAM after the reserved ranges

ASSUME NFramesAssumption == NFrames \in Nat \ {0}

Frame == 0 .. NFrames - 1
NoFrame == NFrames   \* the None of alloc_contiguous

Block(base, count) == base .. base + count - 1

\* The bases at which `count` contiguous free frames start.
Runs(free, count) == { b \in Frame : Block(b, count) \subseteq free }

\* Distance from one index up to another on a ring of n.
CyclicDist(from, to, n) == IF to >= from THEN to - from ELSE to + n - from

\* What the scan is for: the first run at or after the cursor, else the
\* lowest run of all; none only when there is none.
IsNextFit(free, cursor, count, base) ==
  /\ base \in Runs(free, count)
  /\ \A r \in Runs(free, count) :
       CyclicDist(cursor, base, NFrames) <= CyclicDist(cursor, r, NFrames)

\* A faulty ScanLoop: the run is not reset where the scan wraps to frame 0.
ScanLoopWrapping(free, cursor, count) ==
  LET scan[i \in 0 .. 2 * NFrames] ==
        IF i = 0
        THEN [frame |-> cursor, run |-> 0, base |-> NoFrame]
        ELSE LET prev == scan[i - 1]
                 at == IF prev.frame >= NFrames THEN 0 ELSE prev.frame
                 run == IF at \in free THEN prev.run + 1 ELSE 0
             IN  IF prev.base # NoFrame
                 THEN prev
                 ELSE [frame |-> at + 1,
                       run   |-> run,
                       base  |-> IF run = count THEN at + 1 - count
                                                ELSE NoFrame]
  IN  scan[2 * NFrames].base

\* The loop of alloc_contiguous: two passes at most, a run never wraps.
ScanLoop(free, cursor, count) ==
  LET scan[i \in 0 .. 2 * NFrames] ==
        IF i = 0
        THEN [frame |-> cursor, run |-> 0, base |-> NoFrame]
        ELSE LET prev == scan[i - 1]
                 wraps == prev.frame >= NFrames
                 at == IF wraps THEN 0 ELSE prev.frame
                 run == IF at \in free
                        THEN (IF wraps THEN 0 ELSE prev.run) + 1 ELSE 0
             IN  IF prev.base # NoFrame
                 THEN prev
                 ELSE [frame |-> at + 1,
                       run   |-> run,
                       base  |-> IF run = count THEN at + 1 - count
                                                ELSE NoFrame]
  IN  scan[2 * NFrames].base
=============================================================================
