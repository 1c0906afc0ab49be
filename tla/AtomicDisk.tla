----------------------------- MODULE AtomicDisk ------------------------------
(***************************************************************************)
(* What a synchronous block driver promises its callers: every call does   *)
(* its own transfer, in one instant between the call and the return, and   *)
(* returns what that transfer gave.                                        *)
(***************************************************************************)
CONSTANTS Task, Sector, Value

VARIABLES
  disk,    \* the contents of the sectors
  phase,   \* of each task: no call, called, or the transfer done
  call,    \* what the task has asked for
  answer   \* what its transfer gave

vars == <<disk, phase, call, answer>>

Request == [write : BOOLEAN, lba : Sector, value : Value]
Answer == [ok : BOOLEAN, value : Value]

Init ==
  /\ disk \in [Sector -> Value]
  /\ phase = [t \in Task |-> "idle"]
  /\ call \in [Task -> Request]
  /\ answer \in [Task -> Answer]

Call(t) ==
  /\ phase[t] = "idle"
  /\ phase' = [phase EXCEPT ![t] = "called"]
  /\ \E r \in Request : call' = [call EXCEPT ![t] = r]
  /\ UNCHANGED <<disk, answer>>

\* A failed transfer changes nothing that is read back later.
Transfer(t) ==
  /\ phase[t] = "called"
  /\ phase' = [phase EXCEPT ![t] = "done"]
  /\ \/ /\ disk' = IF call[t].write
                   THEN [disk EXCEPT ![call[t].lba] = call[t].value] ELSE disk
        /\ answer' = [answer EXCEPT ![t] =
                        [ok |-> TRUE, value |-> disk'[call[t].lba]]]
     \/ /\ disk' = disk
        /\ \E v \in Value :
             answer' = [answer EXCEPT ![t] = [ok |-> FALSE, value |-> v]]
  /\ UNCHANGED call

Return(t) ==
  /\ phase[t] = "done"
  /\ phase' = [phase EXCEPT ![t] = "idle"]
  /\ UNCHANGED <<disk, call, answer>>

Next == \E t \in Task : Call(t) \/ Transfer(t) \/ Return(t)

Spec == Init /\ [][Next]_vars
=============================================================================
