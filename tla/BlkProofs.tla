------------------------------ MODULE BlkProofs ------------------------------
(***************************************************************************)
(* Proofs about Blk for any tasks, sectors and values, when every call     *)
(* comes from fs.rs: the device only works on the request its owner waits  *)
(* for, and the driver is a synchronous disk.                              *)
(*                                                                         *)
(* The argument: IRQs are masked from the call to the return, so at most   *)
(* one task, the one on the core, is inside request (Exclusive).  The      *)
(* stage it is at tells what is in the shared scratch frame and in the     *)
(* descriptors (Scratch), and while it polls there is exactly one of: a    *)
(* chain posted, a job of the device, a completion (Flight).               *)
(***************************************************************************)
EXTENDS Blk, TLAPS

\* An index that is incremented is another one.
LEMMA WrapAddMoves ==
  ASSUME NEW i \in Index
  PROVE  WrapAdd(i, 1) \in Index /\ WrapAdd(i, 1) # i
<1>1. IdxMod \in Nat /\ IdxMod > 1
  BY QueueAssumption
<1>2. CASE i + 1 < IdxMod
  <2>1. (i + 1) % IdxMod = i + 1
    BY <1>1, <1>2 DEF Index
  <2> QED
    BY <1>1, <1>2, <2>1 DEF Index, WrapAdd
<1>3. CASE i + 1 = IdxMod
  <2>1. (i + 1) % IdxMod = 0
    BY <1>1, <1>3
  <2> QED
    BY <1>1, <1>3, <2>1 DEF Index, WrapAdd
<1> QED
  BY <1>1, <1>2, <1>3 DEF Index

\* The queue operations of the driver and of the device keep its type.
LEMMA QueueOps ==
  ASSUME NEW q \in QueueRecord
  PROVE  /\ PushAvail(q, 0) \in QueueRecord
         /\ PopUsed(q) \in QueueRecord
         /\ TakeAvail(q) \in QueueRecord
         /\ PushUsed(q, 0) \in QueueRecord
<1>1. 0 \in Desc
  BY QueueAssumption DEF Desc
<1>2. \A i \in Index : WrapAdd(i, 1) \in Index
  BY WrapAddMoves
<1> QED
  BY <1>1, <1>2 DEF PushAvail, PopUsed, TakeAvail, PushUsed, QueueRecord

LEMMA NewQueueType == NewQueue \in QueueRecord
<1>1. 0 \in Desc /\ 0 \in Index
  BY QueueAssumption DEF Desc, Index
<1> QED
  BY <1>1 DEF NewQueue, QueueRecord

\* What they do to the two things each side looks at.
LEMMA QueueEffects ==
  ASSUME NEW q \in QueueRecord
  PROVE  /\ ~HasAvail(q) => PushAvail(q, 0).availIdx = WrapAdd(PushAvail(q, 0).taken, 1)
         /\ q.availIdx = WrapAdd(q.taken, 1) => ~HasAvail(TakeAvail(q))
         /\ ~HasUsed(q) => PushUsed(q, 0).usedIdx = WrapAdd(PushUsed(q, 0).lastUsed, 1)
         /\ q.usedIdx = WrapAdd(q.lastUsed, 1) => ~HasUsed(PopUsed(q)) /\ HasUsed(q)
         /\ HasUsed(PushAvail(q, 0)) = HasUsed(q)
         /\ HasUsed(TakeAvail(q)) = HasUsed(q)
         /\ HasAvail(PopUsed(q)) = HasAvail(q)
         /\ HasAvail(PushUsed(q, 0)) = HasAvail(q)
<1>1. q.lastUsed \in Index
  BY DEF QueueRecord
<1> QED
  BY <1>1, WrapAddMoves
  DEF QueueRecord, HasAvail, HasUsed, PushAvail, PopUsed, TakeAvail, PushUsed
-----------------------------------------------------------------------------
Exclusive == \A t \in Task : caller[t] = "fs" /\ (pc[t] # "idle" => t = core)

JobOf(t) == [owner |-> t, write |-> call[t].write, lba |-> call[t].lba,
             into |-> call[t].write]

Scratch ==
  /\ pc[core] \in {"chain", "post", "poll"} =>
       header = [write |-> call[core].write, lba |-> call[core].lba]
  /\ pc[core] \in {"post", "poll"} => chain = [owner |-> core, write |-> call[core].write]
  /\ job # NoJob => job = JobOf(core)

Flight ==
  IF pc[core] = "poll"
  THEN \/ queue.availIdx = WrapAdd(queue.taken, 1) /\ ~HasUsed(queue) /\ job = NoJob
       \/ ~HasAvail(queue) /\ ~HasUsed(queue) /\ job # NoJob
       \/ ~HasAvail(queue) /\ queue.usedIdx = WrapAdd(queue.lastUsed, 1) /\ job = NoJob
  ELSE ~HasAvail(queue) /\ ~HasUsed(queue) /\ job = NoJob

\* Until the transfer is made the buffer holds what the caller gave.
Data == pc[core] # "idle" /\ ~Finished(core) => buf[core] = call[core].value

Inv == Exclusive /\ Scratch /\ Flight /\ Data

LEMMA InitInv == Init => TypeOK /\ Inv
<1> SUFFICES ASSUME Init PROVE TypeOK /\ Inv
  OBVIOUS
<1>1. call \in [Task -> Request]
  BY DEF Init
<1>2. buf \in [Task -> Value]
  BY <1>1 DEF Init, Request
<1>3. TypeOK
  BY <1>1, <1>2, NewQueueType, BlkAssumption DEF Init, TypeOK, Stages, Request, NoJob
<1>4. ~HasAvail(queue) /\ ~HasUsed(queue)
  BY DEF Init, NewQueue, HasAvail, HasUsed
<1> QED
  BY <1>3, <1>4 DEF Init, Inv, Exclusive, Scratch, Flight, Data
-----------------------------------------------------------------------------
(* Types *)

LEMMA NextType == TypeOK /\ [Next]_vars => TypeOK'
<1> SUFFICES ASSUME TypeOK, [Next]_vars PROVE TypeOK'
  OBVIOUS
<1> USE DEF TypeOK
<1>1. ASSUME NEW t \in Task, Switch(t) PROVE TypeOK'
  BY <1>1 DEF Switch, taskVars, driverVars
<1>2. ASSUME NEW t \in Task, Call(t) PROVE TypeOK'
  <2>1. PICK c \in Callers, r \in Request :
          /\ caller' = [caller EXCEPT ![t] = c]
          /\ call' = [call EXCEPT ![t] = r]
          /\ buf' = [buf EXCEPT ![t] = r.value]
    BY <1>2 DEF Call
  <2>2. c \in {"fs", "vfs"} /\ r.value \in Value
    BY BlkAssumption DEF Request
  <2>3. calls' \in 0 .. MaxCalls
    BY <1>2, BlkAssumption DEF Call
  <2> QED
    BY <1>2, <2>1, <2>2, <2>3 DEF Call, driverVars, Stages
<1>3. ASSUME NEW t \in Task, WriteHeader(t) PROVE TypeOK'
  BY <1>3 DEF WriteHeader, Stages, Request
<1>4. ASSUME NEW t \in Task, WriteChain(t) PROVE TypeOK'
  BY <1>4 DEF WriteChain, Stages, Request
<1>5. ASSUME NEW t \in Task, Post(t) PROVE TypeOK'
  BY <1>5, QueueOps DEF Post, Stages
<1>6. ASSUME NEW t \in Task, Poll(t) PROVE TypeOK'
  BY <1>6, QueueOps DEF Poll, Stages
<1>7. ASSUME NEW t \in Task, Return(t) PROVE TypeOK'
  BY <1>7 DEF Return, driverVars, Stages
<1>8. CASE Fetch
  <2>1. job' \in [owner : Task, write : BOOLEAN, lba : Sector, into : BOOLEAN]
    BY <1>8 DEF Fetch
  <2> QED
    BY <1>8, <2>1, QueueOps DEF Fetch, taskVars
<1>9. CASE Complete
  <2>1. job \in [owner : Task, write : BOOLEAN, lba : Sector, into : BOOLEAN]
    BY <1>9 DEF Complete
  <2>2. disk' \in [Sector -> Value] /\ buf' \in [Task -> Value] /\ status' \in {"pending", "ok", "ioerr"}
    BY <1>9, <2>1 DEF Complete
  <2> QED
    BY <1>9, <2>2, QueueOps DEF Complete, taskVars
<1>10. CASE UNCHANGED vars
  BY <1>10 DEF vars, taskVars, driverVars
<1> QED
  BY <1>1, <1>2, <1>3, <1>4, <1>5, <1>6, <1>7, <1>8, <1>9, <1>10
  DEF Next, RequestStep, DeviceStep

\* Type correctness, whoever calls.
THEOREM TypeCorrect == Spec => []TypeOK
BY InitInv, NextType, PTL DEF Spec
-----------------------------------------------------------------------------
(* The invariant *)

LEMMA NextInv ==
  ASSUME Callers = {"fs"}
  PROVE  TypeOK /\ Inv /\ [Next]_vars => Inv'
<1> SUFFICES ASSUME TypeOK, Inv, [Next]_vars PROVE Inv'
  OBVIOUS
<1> USE DEF TypeOK, Inv, Exclusive, Scratch, Flight, Data, JobOf
<1>1. ASSUME NEW t \in Task, Switch(t) PROVE Inv'
  <2>1. pc[core] = "idle" /\ pc[t] = "idle"
    BY <1>1 DEF Switch
  <2> QED
    BY <1>1, <2>1 DEF Switch, taskVars, driverVars, Finished
<1>2. ASSUME NEW t \in Task, Call(t) PROVE Inv'
  <2>1. PICK r \in Request :
          /\ caller' = [caller EXCEPT ![t] = "fs"]
          /\ call' = [call EXCEPT ![t] = r]
          /\ buf' = [buf EXCEPT ![t] = r.value]
    BY <1>2 DEF Call
  <2>2. t = core /\ pc[core] = "idle" /\ pc' = [pc EXCEPT ![core] = "header"]
        /\ UNCHANGED <<core, driverVars, job>>
    BY <1>2 DEF Call
  <2>3. Exclusive'
    BY <2>1, <2>2
  <2>4. Scratch' /\ Flight' /\ Data'
    BY <2>1, <2>2 DEF driverVars
  <2> QED
    BY <2>3, <2>4
<1>3. ASSUME NEW t \in Task, WriteHeader(t) PROVE Inv'
  <2>1. t = core /\ ~Finished(core)
    BY <1>3 DEF WriteHeader, Finished
  <2> QED
    BY <1>3, <2>1 DEF WriteHeader
<1>4. ASSUME NEW t \in Task, WriteChain(t) PROVE Inv'
  <2>1. t = core /\ ~Finished(core)
    BY <1>4 DEF WriteChain, Finished
  <2> QED
    BY <1>4, <2>1 DEF WriteChain
<1>5. ASSUME NEW t \in Task, Post(t) PROVE Inv'
  <2>1. t = core /\ ~Finished(core)
    BY <1>5 DEF Post, Finished
  <2>2. queue'.availIdx = WrapAdd(queue'.taken, 1) /\ ~HasUsed(queue')
    BY <1>5, <2>1, QueueEffects DEF Post
  <2> QED
    BY <1>5, <2>1, <2>2 DEF Post
<1>6. ASSUME NEW t \in Task, Poll(t) PROVE Inv'
  <2>1. t = core /\ Finished(core)
    BY <1>6 DEF Poll, Finished
  <2>2. ~HasUsed(queue') /\ ~HasAvail(queue')
    BY <1>6, <2>1, QueueEffects DEF Poll
  <2>3. Finished(core)'
    BY <1>6, <2>1 DEF Poll, Finished
  <2> QED
    BY <1>6, <2>1, <2>2, <2>3 DEF Poll
<1>7. ASSUME NEW t \in Task, Return(t) PROVE Inv'
  <2>1. t = core
    BY <1>7 DEF Return
  <2> QED
    BY <1>7, <2>1 DEF Return, driverVars
<1>8. CASE Fetch
  <2>1. pc[core] = "poll" /\ ~HasUsed(queue) /\ queue.availIdx = WrapAdd(queue.taken, 1)
    BY <1>8 DEF Fetch
  <2>2. ~HasAvail(queue') /\ ~HasUsed(queue')
    BY <1>8, <2>1, QueueEffects DEF Fetch
  <2>3. job' = JobOf(core) /\ job' # NoJob
    BY <1>8, <2>1, BlkAssumption DEF Fetch, NoJob
  <2>4. ~Finished(core)
    BY <2>1 DEF Finished
  <2> QED
    BY <1>8, <2>1, <2>2, <2>3, <2>4 DEF Fetch, taskVars
<1>9. CASE Complete
  <2>1. pc[core] = "poll" /\ ~HasUsed(queue) /\ ~HasAvail(queue) /\ job # NoJob
    BY <1>9 DEF Complete
  <2>2. queue'.usedIdx = WrapAdd(queue'.lastUsed, 1) /\ ~HasAvail(queue') /\ HasUsed(queue')
    <3>1. queue' \in QueueRecord
      BY <1>9, QueueOps DEF Complete
    <3>2. queue'.usedIdx = WrapAdd(queue'.lastUsed, 1) /\ ~HasAvail(queue')
      BY <1>9, <2>1, QueueEffects DEF Complete
    <3> QED
      BY <3>1, <3>2, QueueEffects
  <2>3. Finished(core)'
    BY <1>9, <2>1, <2>2 DEF Complete, Finished, taskVars
  <2> QED
    BY <1>9, <2>1, <2>2, <2>3 DEF Complete, taskVars
<1>10. CASE UNCHANGED vars
  BY <1>10 DEF vars, taskVars, driverVars, Finished
<1> QED
  BY <1>1, <1>2, <1>3, <1>4, <1>5, <1>6, <1>7, <1>8, <1>9, <1>10
  DEF Next, RequestStep, DeviceStep

\* With callers in fs.rs only, the device never works on anything but the
\* request of the task that polls for it, so it never touches the buffer of
\* a task that has left request.
THEOREM NoTransferStrays ==
  ASSUME Callers = {"fs"}
  PROVE  Spec => []NoStrayTransfer
<1>1. TypeOK /\ Inv => NoStrayTransfer
  BY DEF TypeOK, Inv, Flight, Scratch, JobOf, NoStrayTransfer
<1>2. TypeOK /\ Inv /\ [Next]_vars => Inv'
  BY NextInv
<1> QED
  BY <1>1, <1>2, InitInv, NextType, PTL DEF Spec
-----------------------------------------------------------------------------
(* Refinement of AtomicDisk *)

\* A task that is not on the core is idle, for the abstract disk too.
LEMMA OthersIdle ==
  ASSUME TypeOK, Inv, NEW t \in Task, t # core
  PROVE  pc[t] = "idle" /\ ~Finished(t) /\ Phase[t] = "idle" /\ Answers[t] = result[t]
BY DEF Inv, Exclusive, Finished, Phase, Answers

LEMMA InitRefines == Init => Sync!Init
<1> SUFFICES ASSUME Init PROVE Sync!Init
  OBVIOUS
<1>1. TypeOK
  BY InitInv
<1>2. Phase = [t \in Task |-> "idle"]
  <2>1. \A t \in Task : pc[t] = "idle"
    BY DEF Init
  <2> QED
    BY <2>1 DEF Phase, Finished
<1>3. Answers = result
  BY DEF Init, Answers, Finished
<1> QED
  BY <1>1, <1>2, <1>3 DEF TypeOK, Sync!Init, Sync!Answer, Sync!Request, Request

LEMMA NextRefines ==
  ASSUME Callers = {"fs"}
  PROVE  TypeOK /\ TypeOK' /\ Inv /\ Inv' /\ [Next]_vars => [Sync!Next]_Sync!vars
<1> SUFFICES ASSUME TypeOK, TypeOK', Inv, Inv', [Next]_vars
             PROVE  [Sync!Next]_Sync!vars
  OBVIOUS
<1> USE DEF TypeOK
<1>1. ASSUME NEW t \in Task, Switch(t)
      PROVE  UNCHANGED Sync!vars
  BY <1>1 DEF Switch, taskVars, driverVars, Sync!vars, Phase, Answers, Finished
<1>2. ASSUME NEW t \in Task, Call(t)
      PROVE  Sync!Call(t)
  <2>1. pc[t] = "idle" /\ pc' = [pc EXCEPT ![t] = "header"] /\ UNCHANGED <<result, disk, status, queue>>
    BY <1>2 DEF Call, driverVars
  <2>2. t = core
    BY <1>2 DEF Call
  <2>3. \A u \in Task : u # t => pc[u] = "idle" /\ pc'[u] = "idle"
    BY <2>1, <2>2 DEF Inv, Exclusive
  <2>4. Phase[t] = "idle" /\ Phase' = [Phase EXCEPT ![t] = "called"]
    BY <2>1, <2>3 DEF Phase, Finished
  <2>5. Answers' = Answers
    BY <2>1, <2>3 DEF Answers, Finished
  <2>6. \E r \in Request : call' = [call EXCEPT ![t] = r]
    BY <1>2 DEF Call
  <2> QED
    BY <2>1, <2>4, <2>5, <2>6 DEF Sync!Call, Sync!Request, Request
<1>3. ASSUME NEW t \in Task, WriteHeader(t) \/ WriteChain(t) \/ Post(t)
      PROVE  UNCHANGED Sync!vars
  <2>1. t = core /\ core' = core /\ UNCHANGED <<disk, call, result, buf>>
    BY <1>3 DEF WriteHeader, WriteChain, Post
  <2>2. /\ pc[t] \in {"header", "chain", "post"} /\ pc'[t] \in {"chain", "post", "poll"}
        /\ \A u \in Task : u # t => pc'[u] = pc[u]
    BY <1>3 DEF WriteHeader, WriteChain, Post
  <2>3. ~Finished(t)
    BY <2>2 DEF Finished
  <2>4. ~HasUsed(queue')
    <3>1. ~HasUsed(queue)
      BY <2>1, <2>2 DEF Inv, Flight
    <3> QED
      BY <1>3, <3>1, QueueEffects DEF WriteHeader, WriteChain, Post
  <2>5. ~Finished(t)'
    BY <2>2, <2>4 DEF Finished
  <2>6. \A u \in Task : u # t => pc[u] = "idle" /\ pc'[u] = "idle"
    BY <2>1, <2>2 DEF Inv, Exclusive
  <2>7. Phase' = Phase /\ Answers' = Answers
    BY <2>1, <2>2, <2>3, <2>5, <2>6 DEF Phase, Answers, Finished
  <2> QED
    BY <2>1, <2>7 DEF Sync!vars
<1>4. ASSUME NEW t \in Task, Poll(t)
      PROVE  UNCHANGED Sync!vars
  <2>1. /\ t = core /\ pc[t] = "poll" /\ HasUsed(queue) /\ pc' = [pc EXCEPT ![t] = "status"]
        /\ UNCHANGED <<disk, call, result, buf, status>>
    BY <1>4 DEF Poll
  <2>2. \A u \in Task : u # t => pc[u] = "idle" /\ pc'[u] = "idle"
    BY <2>1 DEF Inv, Exclusive
  <2>3. Phase' = Phase /\ Answers' = Answers
    BY <2>1, <2>2 DEF Phase, Answers, Finished
  <2> QED
    BY <2>1, <2>3 DEF Sync!vars
<1>5. ASSUME NEW t \in Task, Return(t)
      PROVE  Sync!Return(t)
  <2>1. /\ t = core /\ pc[t] = "status" /\ pc' = [pc EXCEPT ![t] = "idle"]
        /\ result' = [result EXCEPT ![t] = [ok |-> status = "ok", value |-> buf[t]]]
        /\ UNCHANGED <<disk, call, buf, status, queue>>
    BY <1>5 DEF Return, driverVars
  <2>2. \A u \in Task : u # t => pc[u] = "idle" /\ pc'[u] = "idle"
    BY <2>1 DEF Inv, Exclusive
  <2>3. Phase[t] = "done" /\ Phase' = [Phase EXCEPT ![t] = "idle"]
    BY <2>1, <2>2 DEF Phase, Finished
  <2>4. Answers' = Answers
    BY <2>1, <2>2 DEF Answers, Finished
  <2> QED
    BY <2>1, <2>3, <2>4 DEF Sync!Return
<1>6. CASE Fetch
  <2>1. HasUsed(queue') = HasUsed(queue)
    BY <1>6, QueueEffects DEF Fetch
  <2>2. UNCHANGED <<pc, call, result, buf, status, disk>>
    BY <1>6 DEF Fetch, taskVars
  <2>3. Phase' = Phase /\ Answers' = Answers
    BY <2>1, <2>2 DEF Phase, Answers, Finished
  <2> QED
    BY <2>2, <2>3 DEF Sync!vars
<1>7. CASE Complete
  <2> SUFFICES ASSUME NEW t \in Task, t = core
               PROVE  Sync!Transfer(t)
    BY DEF Sync!Next
  <2>1. pc[t] = "poll" /\ ~HasUsed(queue) /\ job # NoJob
    BY <1>7 DEF Complete, Inv, Flight
  <2>2. job = JobOf(t) /\ buf[t] = call[t].value
    BY <2>1 DEF Inv, Scratch, Data, Finished
  <2>3. \A u \in Task : u # t => pc[u] = "idle"
    BY DEF Inv, Exclusive
  <2>4. UNCHANGED <<pc, call, result>>
    BY <1>7 DEF Complete, taskVars
  <2>5. HasUsed(queue')
    <3>1. queue' \in QueueRecord
      OBVIOUS
    <3>2. queue'.usedIdx = WrapAdd(queue'.lastUsed, 1)
      BY <1>7, <2>1, QueueEffects DEF Complete
    <3> QED
      BY <3>1, <3>2, QueueEffects
  <2>6. ~Finished(t) /\ Finished(t)'
    BY <2>1, <2>4, <2>5, <1>7 DEF Finished, Complete
  <2>7. Phase[t] = "called" /\ Phase' = [Phase EXCEPT ![t] = "done"]
    BY <2>1, <2>3, <2>4, <2>6 DEF Phase, Finished
  <2>8. Answers' = [Answers EXCEPT ![t] = [ok |-> status' = "ok", value |-> buf'[t]]]
    BY <2>1, <2>3, <2>4, <2>6, <1>7 DEF Answers, Finished, Complete
  <2>9. CASE status' = "ok"
    <3>1. /\ disk' = IF call[t].write THEN [disk EXCEPT ![call[t].lba] = call[t].value] ELSE disk
          /\ buf'[t] = disk'[call[t].lba]
      BY <1>7, <2>2, <2>9 DEF Complete, JobOf, Request
    <3>2. Answers' = [Answers EXCEPT ![t] = [ok |-> TRUE, value |-> disk'[call[t].lba]]]
      BY <2>8, <2>9, <3>1
    <3> HIDE DEF TypeOK
    <3> QED
      BY <2>4, <2>7, <3>1, <3>2 DEF Sync!Transfer
  <2>10. CASE status' # "ok"
    <3>1. disk' = disk /\ buf' = buf /\ buf[t] \in Value
      BY <1>7, <2>10 DEF Complete
    <3>2. Answers' = [Answers EXCEPT ![t] = [ok |-> FALSE, value |-> buf[t]]]
      BY <2>8, <2>10, <3>1
    <3> HIDE DEF TypeOK
    <3> QED
      BY <2>4, <2>7, <3>1, <3>2 DEF Sync!Transfer
  <2> QED
    BY <2>9, <2>10
<1>8. CASE UNCHANGED vars
  BY <1>8 DEF vars, taskVars, driverVars, Sync!vars, Phase, Answers, Finished
<1> QED
  BY <1>1, <1>2, <1>3, <1>4, <1>5, <1>6, <1>7, <1>8
  DEF Next, RequestStep, DeviceStep, Sync!Next

\* With callers in fs.rs only, the driver implements a disk whose calls each
\* make their own transfer in one instant: for any tasks, sectors and
\* values, and however the device and the scheduler interleave.
THEOREM DriverIsSynchronous ==
  ASSUME Callers = {"fs"}
  PROVE  Spec => IsSynchronous
<1>1. TypeOK /\ Inv /\ [Next]_vars => Inv'
  BY NextInv
<1>2. TypeOK /\ TypeOK' /\ Inv /\ Inv' /\ [Next]_vars => [Sync!Next]_Sync!vars
  BY NextRefines
<1> QED
  BY <1>1, <1>2, InitInv, NextType, InitRefines, PTL
  DEF Spec, IsSynchronous, Sync!Spec
=============================================================================
