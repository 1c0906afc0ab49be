--------------------------------- MODULE Blk ---------------------------------
(***************************************************************************)
(* The block driver (blk.rs) under the tasks that call it.  Its request    *)
(* header, status byte and descriptors 0..2 are shared; a caller in fs.rs  *)
(* masks IRQs for its whole operation, so that no other task runs, and a   *)
(* caller in vfs.rs does not.                                              *)
(*                                                                         *)
(* The code is cut where a timer interrupt can switch tasks: after the     *)
(* header, after the descriptors, after the notify, and at every turn of   *)
(* the polling loop.  The device runs beside the core.  The stores of the  *)
(* header are one action, and so are those of the descriptors: when IRQs   *)
(* are masked, nobody reads them before the notify.  The device answers in *)
(* its own time: the bound on the turns of the polling loop, and the       *)
(* assertion behind it (blk.rs:86), are left out.                          *)
(***************************************************************************)
EXTENDS Virtqueue

CONSTANTS
  Task,       \* the tasks that use the disk
  Sector,     \* addresses on the disk
  Value,      \* contents of a sector
  Callers,    \* the modules that call the driver
  MaxCalls    \* bound on the calls

ASSUME BlkAssumption ==
  /\ Callers \subseteq {"fs", "vfs"}
  /\ MaxCalls \in Nat
  /\ "none" \notin Task

VARIABLES
  core,     \* the task on the core
  pc,       \* where each task is in request
  caller,   \* the module it was called from
  call,     \* its arguments
  buf,      \* its data buffer
  result,   \* what its last request returned, and the data it left
  header,   \* the shared request header
  status,   \* the shared status byte
  chain,    \* the shared descriptor 1: whose buffer, and its direction
  queue,    \* the virtqueue
  job,      \* what the device is working on
  disk,     \* the sectors
  calls     \* number of calls so far

driverVars == <<header, status, chain, queue>>
taskVars == <<pc, caller, call, result>>
vars == <<core, taskVars, buf, driverVars, job, disk, calls>>

Stages == {"idle", "header", "chain", "post", "poll", "status"}
Request == [write : BOOLEAN, lba : Sector, value : Value]
NoJob == [owner |-> "none"]

Init ==
  /\ core \in Task
  /\ pc = [t \in Task |-> "idle"]
  /\ caller = [t \in Task |-> "fs"]
  /\ call \in { [t \in Task |-> r] : r \in Request }
  /\ buf = [t \in Task |-> call[t].value]
  /\ result = [t \in Task |-> [ok |-> TRUE, value |-> buf[t]]]
  /\ header = [write |-> FALSE, lba |-> call[core].lba]
  /\ status = "ok"
  /\ chain = [owner |-> core, write |-> FALSE]
  /\ queue = NewQueue
  /\ job = NoJob
  /\ disk \in [Sector -> Value]
  /\ calls = 0
-----------------------------------------------------------------------------
\* A timer interrupt or a yield: another task is on the core, unless the one
\* that leaves is inside fs::critical.
Switch(t) ==
  /\ t # core
  /\ pc[core] = "idle" \/ caller[core] = "vfs"
  /\ core' = t
  /\ UNCHANGED <<taskVars, buf, driverVars, job, disk, calls>>

\* read_sectors and write_sectors, from fs.rs or from Vfs::persist and load.
Call(t) ==
  /\ core = t
  /\ pc[t] = "idle"
  /\ calls < MaxCalls
  /\ calls' = calls + 1
  /\ \E c \in Callers, r \in Request :
       /\ caller' = [caller EXCEPT ![t] = c]
       /\ call' = [call EXCEPT ![t] = r]
       /\ buf' = [buf EXCEPT ![t] = r.value]
  /\ pc' = [pc EXCEPT ![t] = "header"]
  /\ UNCHANGED <<core, result, driverVars, job, disk>>

\* A faulty WriteHeader: the sector number stays that of the last request.
WriteHeaderNoLba(t) ==
  /\ core = t
  /\ pc[t] = "header"
  /\ header' = [header EXCEPT !.write = call[t].write]
  /\ status' = "pending"
  /\ pc' = [pc EXCEPT ![t] = "chain"]
  /\ UNCHANGED <<core, caller, call, result, buf, chain, queue, job, disk, calls>>

\* The header and the status byte in the scratch frame.
WriteHeader(t) ==
  /\ core = t
  /\ pc[t] = "header"
  /\ header' = [write |-> call[t].write, lba |-> call[t].lba]
  /\ status' = "pending"
  /\ pc' = [pc EXCEPT ![t] = "chain"]
  /\ UNCHANGED <<core, caller, call, result, buf, chain, queue, job, disk, calls>>

\* write_desc 0, 1 and 2: only descriptor 1 depends on the request.
WriteChain(t) ==
  /\ core = t
  /\ pc[t] = "chain"
  /\ chain' = [owner |-> t, write |-> call[t].write]
  /\ pc' = [pc EXCEPT ![t] = "post"]
  /\ UNCHANGED <<core, caller, call, result, buf, header, status, queue, job, disk, calls>>

\* A faulty Post that posts nothing.
PostNothing(t) ==
  /\ core = t
  /\ pc[t] = "post"
  /\ pc' = [pc EXCEPT ![t] = "poll"]
  /\ UNCHANGED <<core, caller, call, result, buf, driverVars, job, disk, calls>>

\* push_avail and notify.
Post(t) ==
  /\ core = t
  /\ pc[t] = "post"
  /\ queue' = PushAvail(queue, 0)
  /\ pc' = [pc EXCEPT ![t] = "poll"]
  /\ UNCHANGED <<core, caller, call, result, buf, header, status, chain, job, disk, calls>>

\* A faulty Poll that does not wait for the completion.
PollOnce(t) ==
  /\ core = t
  /\ pc[t] = "poll"
  /\ queue' = IF HasUsed(queue) THEN PopUsed(queue) ELSE queue
  /\ pc' = [pc EXCEPT ![t] = "status"]
  /\ UNCHANGED <<core, caller, call, result, buf, header, status, chain, job, disk, calls>>

\* pop_used ends the polling loop, whose turns without it change nothing.
Poll(t) ==
  /\ core = t
  /\ pc[t] = "poll"
  /\ HasUsed(queue)
  /\ queue' = PopUsed(queue)
  /\ pc' = [pc EXCEPT ![t] = "status"]
  /\ UNCHANGED <<core, caller, call, result, buf, header, status, chain, job, disk, calls>>

\* The status byte decides the result.
Return(t) ==
  /\ core = t
  /\ pc[t] = "status"
  /\ result' = [result EXCEPT ![t] = [ok |-> status = "ok", value |-> buf[t]]]
  /\ pc' = [pc EXCEPT ![t] = "idle"]
  /\ UNCHANGED <<core, caller, call, buf, driverVars, job, disk, calls>>
-----------------------------------------------------------------------------
(* The device. *)

\* It takes the chain at the head of the avail ring and reads the header and
\* the descriptors as they are now.
Fetch ==
  /\ job = NoJob
  /\ HasAvail(queue)
  /\ queue' = TakeAvail(queue)
  /\ job' = [owner |-> chain.owner, write |-> header.write, lba |-> header.lba,
             into |-> chain.write]
  /\ UNCHANGED <<core, taskVars, buf, header, status, chain, disk, calls>>

\* A request whose header and data descriptor disagree on the direction is
\* refused; any other may fail too.
Complete ==
  /\ job # NoJob
  /\ \/ /\ job.write = job.into
        /\ status' = "ok"
        /\ disk' = IF job.write THEN [disk EXCEPT ![job.lba] = buf[job.owner]] ELSE disk
        /\ buf' = IF job.write THEN buf ELSE [buf EXCEPT ![job.owner] = disk[job.lba]]
     \/ /\ status' = "ioerr"
        /\ UNCHANGED <<disk, buf>>
  /\ queue' = PushUsed(queue, 0)
  /\ job' = NoJob
  /\ UNCHANGED <<core, taskVars, header, chain, calls>>
-----------------------------------------------------------------------------
RequestStep(t) == WriteHeader(t) \/ WriteChain(t) \/ Post(t) \/ Poll(t) \/ Return(t)
DeviceStep == Fetch \/ Complete

Next ==
  \/ DeviceStep
  \/ \E t \in Task : Switch(t) \/ Call(t) \/ RequestStep(t)

Spec == Init /\ [][Next]_vars

\* The device answers every request, and the scheduler gives every task the
\* core again and again.
FairSpec ==
  /\ Spec
  /\ WF_vars(DeviceStep)
  /\ \A t \in Task : SF_vars(Switch(t)) /\ SF_vars(RequestStep(t))
-----------------------------------------------------------------------------
(* Properties *)

\* The device's job and the shared descriptor name a task, the queue is one.
TypeOK ==
  /\ core \in Task
  /\ pc \in [Task -> Stages]
  /\ caller \in [Task -> {"fs", "vfs"}]
  /\ call \in [Task -> Request]
  /\ buf \in [Task -> Value]
  /\ result \in [Task -> [ok : BOOLEAN, value : Value]]
  /\ header \in [write : BOOLEAN, lba : Sector]
  /\ status \in {"pending", "ok", "ioerr"}
  /\ chain \in [owner : Task, write : BOOLEAN]
  /\ queue \in QueueRecord
  /\ job \in {NoJob} \cup [owner : Task, write : BOOLEAN, lba : Sector, into : BOOLEAN]
  /\ disk \in [Sector -> Value]
  /\ calls \in 0 .. MaxCalls

\* The device works only on the request its owner is waiting for, at the
\* owner's sector and in its direction: it never reads or fills the buffer
\* of a task that is not in the polling loop (the scratch frame and the
\* descriptors are shared by all callers of request).
NoStrayTransfer ==
  job # NoJob =>
    /\ pc[job.owner] = "poll"
    /\ job.lba = call[job.owner].lba
    /\ job.write = call[job.owner].write /\ job.into = job.write

\* The abstract call is done from the completion of its transfer on.
Finished(t) == pc[t] = "status" \/ (pc[t] = "poll" /\ HasUsed(queue))

Phase == [t \in Task |-> CASE pc[t] = "idle" -> "idle"
                           [] Finished(t) -> "done"
                           [] OTHER -> "called"]

Answers == [t \in Task |-> IF Finished(t)
                           THEN [ok |-> status = "ok", value |-> buf[t]]
                           ELSE result[t]]

Sync == INSTANCE AtomicDisk WITH phase <- Phase, answer <- Answers

\* The driver is a synchronous disk: every call has done its own transfer
\* when it returns, on its own sector and with its own buffer, and reports
\* the status of that transfer (request, "One synchronous transfer").
IsSynchronous == Sync!Spec

\* Every call returns.
CallsReturn == \A t \in Task : pc[t] # "idle" ~> pc[t] = "idle"
=============================================================================
