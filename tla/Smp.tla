--------------------------------- MODULE Smp ---------------------------------
(***************************************************************************)
(* The fork and join of smp.rs: the primary core publishes a job, every    *)
(* core that is online takes chunks from a shared counter, and the primary *)
(* waits until all are done and adds up what the cores found.  The boot    *)
(* self-test runs one job, while the other cores may still be coming up.   *)
(*                                                                         *)
(* Every atomic operation of a core is an action.  The result of a chunk   *)
(* is the chunk itself: a partial sum is a bag of chunks.                  *)
(***************************************************************************)
EXTENDS Integers, FiniteSets

CONSTANTS
  Worker,   \* the secondary cores
  Primary,  \* the core that runs the system
  N         \* n_chunks

ASSUME SmpAssumption == N \in Nat \ {0} /\ Primary \notin Worker /\ IsFiniteSet(Worker)

Core == Worker \cup {Primary}
Chunk == 0 .. N - 1

VARIABLES
  pc,       \* where each core is
  gen,      \* GEN
  chunk,    \* CHUNK
  nchunks,  \* NCHUNKS
  done,     \* DONE
  partial,  \* PARTIAL
  seen,     \* my_gen of each worker
  event,    \* its event register, which sev sets and wfe waits for
  n,        \* the n process_chunks has loaded
  mine,     \* the chunk the core has taken
  left,     \* the cores whose PARTIAL is still to be added
  sum       \* the sum so far

vars == <<pc, gen, chunk, nchunks, done, partial, seen, event, n, mine, left, sum>>

Empty == [c \in Chunk |-> 0]

Init ==
  /\ pc = [k \in Core |-> IF k = Primary THEN "reset" ELSE "off"]
  /\ gen = 0 /\ chunk = 0 /\ nchunks = 0 /\ done = 0
  /\ partial = [k \in Core |-> Empty]
  /\ seen = [w \in Worker |-> 0]
  /\ event = [w \in Worker |-> FALSE]
  /\ n = [k \in Core |-> 0]
  /\ mine = [k \in Core |-> 0]
  /\ left = {} /\ sum = Empty

Goto(k, stage) == pc' = [pc EXCEPT ![k] = stage]
-----------------------------------------------------------------------------
(* The primary core: parallel_compute. *)

Reset ==
  /\ pc[Primary] = "reset"
  /\ Goto(Primary, "size")
  /\ chunk' = 0 /\ done' = 0
  /\ UNCHANGED <<gen, nchunks, partial, seen, event, n, mine, left, sum>>

SetSize ==
  /\ pc[Primary] = "size"
  /\ Goto(Primary, "publish")
  /\ nchunks' = N
  /\ partial' = [k \in Core |-> Empty]
  /\ UNCHANGED <<gen, chunk, done, seen, event, n, mine, left, sum>>

Publish ==
  /\ pc[Primary] = "publish"
  /\ Goto(Primary, "sev")
  /\ gen' = gen + 1
  /\ UNCHANGED <<chunk, nchunks, done, partial, seen, event, n, mine, left, sum>>

\* A faulty Sev that wakes nobody who has not gone to sleep yet.
SevSleepers ==
  /\ pc[Primary] = "sev"
  /\ Goto(Primary, "load")
  /\ event' = [w \in Worker |-> event[w] \/ pc[w] = "asleep"]
  /\ UNCHANGED <<gen, chunk, nchunks, done, partial, seen, n, mine, left, sum>>

Sev ==
  /\ pc[Primary] = "sev"
  /\ Goto(Primary, "load")
  /\ event' = [w \in Worker |-> TRUE]
  /\ UNCHANGED <<gen, chunk, nchunks, done, partial, seen, n, mine, left, sum>>

\* A faulty Wait that stops when all chunks are taken.
WaitTaken ==
  /\ pc[Primary] = "wait"
  /\ chunk >= N
  /\ Goto(Primary, "sum")
  /\ left' = Core
  /\ UNCHANGED <<gen, chunk, nchunks, done, partial, seen, event, n, mine, sum>>

Wait ==
  /\ pc[Primary] = "wait"
  /\ done >= N
  /\ Goto(Primary, "sum")
  /\ left' = Core
  /\ UNCHANGED <<gen, chunk, nchunks, done, partial, seen, event, n, mine, sum>>

\* One load of PARTIAL.  The sum commutes, so the order of the loads is open.
Add ==
  /\ pc[Primary] = "sum"
  /\ \E k \in left :
       /\ left' = left \ {k}
       /\ sum' = [c \in Chunk |-> sum[c] + partial[k][c]]
  /\ Goto(Primary, IF left' = {} THEN "joined" ELSE "sum")
  /\ UNCHANGED <<gen, chunk, nchunks, done, partial, seen, event, n, mine>>
-----------------------------------------------------------------------------
(* All cores: process_chunks. *)

Load(k) ==
  /\ pc[k] = "load"
  /\ Goto(k, "take")
  /\ n' = [n EXCEPT ![k] = nchunks]
  /\ UNCHANGED <<gen, chunk, nchunks, done, partial, seen, event, mine, left, sum>>

\* A faulty Take, whose load and store of CHUNK are two operations: two cores
\* may take the same chunk.
TakeTwice(k) ==
  /\ pc[k] = "take"
  /\ \E c \in {chunk, chunk - 1} \cap Nat :
       IF c < n[k] THEN mine' = [mine EXCEPT ![k] = c] /\ Goto(k, "work")
       ELSE mine' = mine /\ Goto(k, IF k = Primary THEN "wait" ELSE "look")
  /\ chunk' = chunk + 1
  /\ UNCHANGED <<gen, nchunks, done, partial, seen, event, n, left, sum>>

\* fetch_add, and the test that ends the loop.
Take(k) ==
  /\ pc[k] = "take"
  /\ IF chunk < n[k]
     THEN mine' = [mine EXCEPT ![k] = chunk] /\ Goto(k, "work")
     ELSE mine' = mine /\ Goto(k, IF k = Primary THEN "wait" ELSE "look")
  /\ chunk' = chunk + 1
  /\ UNCHANGED <<gen, nchunks, done, partial, seen, event, n, left, sum>>

Work(k) ==
  /\ pc[k] = "work"
  /\ Goto(k, "count")
  /\ partial' = [partial EXCEPT ![k][mine[k]] = @ + 1]
  /\ UNCHANGED <<gen, chunk, nchunks, done, seen, event, n, mine, left, sum>>

\* A faulty Count, whose load and store of DONE are two operations: of two
\* counts at a time one may be lost.
CountLost(k) ==
  /\ pc[k] = "count"
  /\ Goto(k, "take")
  /\ \/ done' = done + 1
     \/ done' = done /\ \E j \in Core \ {k} : pc[j] = "count"
  /\ UNCHANGED <<gen, chunk, nchunks, partial, seen, event, n, mine, left, sum>>

Count(k) ==
  /\ pc[k] = "count"
  /\ Goto(k, "take")
  /\ done' = done + 1
  /\ UNCHANGED <<gen, chunk, nchunks, partial, seen, event, n, mine, left, sum>>
-----------------------------------------------------------------------------
(* The workers: secondary_main. *)

\* CPU_ON has started the core: ONLINE, then the first load of GEN.
ComeUp(w) ==
  /\ pc[w] = "off"
  /\ Goto(w, "look")
  /\ seen' = [seen EXCEPT ![w] = gen]
  /\ UNCHANGED <<gen, chunk, nchunks, done, partial, event, n, mine, left, sum>>

\* The test of the waiting loop.
Look(w) ==
  /\ pc[w] = "look"
  /\ Goto(w, IF gen = seen[w] THEN "wfe" ELSE "note")
  /\ UNCHANGED <<gen, chunk, nchunks, done, partial, seen, event, n, mine, left, sum>>

\* wfe goes on at once if the event register is set.
Wfe(w) ==
  /\ pc[w] = "wfe"
  /\ Goto(w, IF event[w] THEN "look" ELSE "asleep")
  /\ event' = [event EXCEPT ![w] = FALSE]
  /\ UNCHANGED <<gen, chunk, nchunks, done, partial, seen, n, mine, left, sum>>

Wake(w) ==
  /\ pc[w] = "asleep"
  /\ event[w]
  /\ Goto(w, "look")
  /\ event' = [event EXCEPT ![w] = FALSE]
  /\ UNCHANGED <<gen, chunk, nchunks, done, partial, seen, n, mine, left, sum>>

Note(w) ==
  /\ pc[w] = "note"
  /\ seen' = [seen EXCEPT ![w] = gen]
  /\ Goto(w, "load")
  /\ UNCHANGED <<gen, chunk, nchunks, done, partial, event, n, mine, left, sum>>
-----------------------------------------------------------------------------
Process(k) == Load(k) \/ Take(k) \/ Work(k) \/ Count(k)
PrimaryStep == Reset \/ SetSize \/ Publish \/ Sev \/ Process(Primary) \/ Wait \/ Add
WorkerStep(w) == Look(w) \/ Wfe(w) \/ Wake(w) \/ Note(w) \/ Process(w)

Next == PrimaryStep \/ \E w \in Worker : ComeUp(w) \/ WorkerStep(w)

Spec == Init /\ [][Next]_vars

\* Every core that is up runs; none need come up.
FairSpec == Spec /\ WF_vars(PrimaryStep) /\ \A w \in Worker : WF_vars(WorkerStep(w))
-----------------------------------------------------------------------------
(* Properties *)

Stages == {"off", "look", "wfe", "asleep", "note", "load", "take", "work", "count",
           "reset", "size", "publish", "sev", "wait", "sum", "joined"}

\* Types; a core works on a chunk of the job, and only after it is published.
TypeOK ==
  /\ pc \in [Core -> Stages]
  /\ gen \in 0 .. 1
  /\ chunk \in Nat /\ done \in 0 .. N /\ nchunks \in {0, N}
  /\ partial \in [Core -> [Chunk -> 0 .. 1]]
  /\ seen \in [Worker -> 0 .. 1]
  /\ event \in [Worker -> BOOLEAN]
  /\ n \in [Core -> {0, N}]
  /\ mine \in [Core -> Chunk]
  /\ left \subseteq Core
  /\ sum \in [Chunk -> Nat]
  /\ \A k \in Core : pc[k] \in {"load", "take", "work", "count"} => gen = 1 /\ nchunks = N

\* When the job is joined, every chunk is in the sum exactly once, however
\* many cores came up and when (the self-test's "sums agree"), and no core
\* still works on a chunk.
JoinExact ==
  pc[Primary] = "joined" =>
    /\ sum = [c \in Chunk |-> 1]
    /\ \A k \in Core : pc[k] \notin {"work", "count"}

\* A worker that sleeps has nothing to do, or its wake-up is on the way: sev
\* sets the event register of a core that is between its look at GEN and its
\* wfe.
NobodySleepsOverTheJob ==
  \A w \in Worker :
    pc[w] \in {"wfe", "asleep"} /\ gen # seen[w] => event[w] \/ pc[Primary] = "sev"

\* The join ends.
Joins == <>(pc[Primary] = "joined")
=============================================================================
