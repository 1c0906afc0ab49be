------------------------------ MODULE FileStore ------------------------------
(***************************************************************************)
(* What the FAT16 file system promises the tasks that store files in it.   *)
(* An operation replaces or removes one file; the file is unknown from     *)
(* where it begins until an operation on it succeeds.  Other files are     *)
(* touched only by an operation on a file that is unknown already: its     *)
(* clusters may be theirs.  A device that refuses a write of the FAT       *)
(* spoils the operation: it succeeds, and leaves the file unknown.         *)
(***************************************************************************)
CONSTANTS Name, Content, Absent, Unknown

VARIABLES
  files,    \* the content of every file, Absent, or Unknown
  pending   \* the file the operation is on and what it is to become, or NoOp

vars == <<files, pending>>

NoOp == [name |-> Absent]

Init ==
  /\ files = [n \in Name |-> Absent]
  /\ pending = NoOp

\* A new file appears only when its operation succeeds.
Ask(n, w) ==
  /\ pending = NoOp
  /\ pending' = [name |-> n, want |-> w]
  /\ \E S \in SUBSET { m \in Name : files[m] # Absent } :
       /\ files[n] # Unknown => S \subseteq {n}
       /\ files' = [m \in Name |-> IF m \in S THEN Unknown ELSE files[m]]

Spoil ==
  /\ pending # NoOp
  /\ pending.want # Absent
  /\ pending' = [pending EXCEPT !.want = Unknown]
  /\ UNCHANGED files

Succeed ==
  /\ pending # NoOp
  /\ files' = [files EXCEPT ![pending.name] = pending.want]
  /\ pending' = NoOp

Fail ==
  /\ pending # NoOp
  /\ pending' = NoOp
  /\ UNCHANGED files

Next ==
  \/ \E n \in Name, w \in Content \cup {Absent} : Ask(n, w)
  \/ Spoil
  \/ Succeed
  \/ Fail

Spec == Init /\ [][Next]_vars
=============================================================================
