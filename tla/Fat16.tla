-------------------------------- MODULE Fat16 --------------------------------
(***************************************************************************)
(* The FAT16 file system (fs.rs): write_file and delete, one action per    *)
(* sector they write, so that a power loss or a refused transfer can come  *)
(* between any two.  fs::critical keeps every other task off the core for  *)
(* the whole operation.                                                    *)
(*                                                                         *)
(* A cluster holds one Value.  The copies of the FAT are counted as one:   *)
(* only the first is ever read, and write_fat writes it first, so that     *)
(* what becomes of the others changes nothing here.  A transfer of a FAT   *)
(* or root sector for reading is not refused.                              *)
(***************************************************************************)
EXTENDS Integers, Sequences, FiniteSets

CONSTANTS
  Name,         \* 8.3 names
  Value,        \* what a full cluster can hold
  MaxLength,    \* bound on the clusters of a file
  Content,      \* what callers store
  NSlots,       \* root_entries
  LastCluster,  \* the last entry of the FAT
  Absent,       \* no such file
  Unknown,      \* (of the abstract store) anything
  MaxFaults     \* bound on the power losses and the refused transfers

Cluster == 2 .. LastCluster
Slot == 1 .. NSlots

\* An entry from 0xfff8 on ends a chain, so it is never the number of a cluster.
ChainEnd == 65528

ASSUME Fat16Assumption ==
  /\ MaxLength \in Nat \ {0}
  /\ Content \subseteq UNION { [1 .. k -> Value] : k \in 0 .. MaxLength }
  /\ NSlots \in Nat \ {0}
  /\ LastCluster \in Nat /\ LastCluster < ChainEnd
  /\ MaxFaults \in Nat
  /\ Absent # Unknown /\ {Absent, Unknown} \cap (Name \cup Content) = {}

VARIABLES
  fat,      \* the FAT
  root,     \* the root directory
  data,     \* the data area
  pc,       \* what the operation does next
  req,      \* its file, and what the file is to hold
  slot,     \* the file's slot in the root directory, 0 if it has none
  cursor,   \* next cluster of the old chain to free
  chain,    \* the clusters allocated to it, in increasing order
  todo,     \* those still to link, then those still to write
  torn,     \* the files that are being replaced, or that a failure has damaged
  failed,   \* whether an operation, or a transfer inside one, has failed
  faults    \* number of power losses and refused transfers

disk == <<fat, root, data>>
opVars == <<pc, req, slot, cursor, chain, todo>>
vars == <<disk, opVars, torn, failed, faults>>

FreeCluster == 0
Eoc == 65535
Padding == "padding"   \* a cluster of zeroes
EndMark == [mark |-> "end"]
DeletedMark == [mark |-> "deleted"]
Entry == [mark : {"file"}, name : Name, first : Cluster, size : 0 .. MaxLength]
NoReq == [name |-> Absent]

Init ==
  /\ fat = [c \in Cluster |-> FreeCluster]
  /\ root = [s \in Slot |-> EndMark]
  /\ data = [c \in Cluster |-> Padding]
  /\ pc = "idle" /\ req = NoReq
  /\ slot = 0 /\ cursor = 0 /\ chain = {} /\ todo = {}
  /\ torn = {} /\ failed = FALSE /\ faults = 0
-----------------------------------------------------------------------------
(* Reading the volume. *)

\* The slots scan_root returns: it stops at the first end mark.
Scanned == { s \in Slot : root[s].mark = "file" /\ \A u \in 1 .. s : root[u].mark # "end" }

Lowest(S) == CHOOSE x \in S : \A y \in S : x <= y

\* The first slot of the name, 0 if there is none.
Find(n) ==
  LET slots == { s \in Scanned : root[s].name = n }
  IN  IF slots = {} THEN 0 ELSE Lowest(slots)

\* A faulty FreeSlot, which reuses only deleted slots while there are any.
FreeSlotDeleted ==
  LET slots == { s \in Slot : root[s].mark = "end" }
  IN  IF slots = {} THEN 0 ELSE CHOOSE s \in slots : \A u \in slots : u <= s

FreeSlot ==
  LET slots == { s \in Slot : root[s].mark \in {"end", "deleted"} }
  IN  IF slots = {} THEN 0 ELSE Lowest(slots)

\* A faulty Needed, which gives an empty file no cluster.
NeededExact(k) == k

Needed(k) == IF k = 0 THEN 1 ELSE k

\* The clusters from c on: read_fat, as often as there are clusters.
Follow(c) ==
  LET at[k \in 0 .. LastCluster] ==
        IF k = 0 THEN c
        ELSE IF at[k - 1] \in Cluster THEN fat[at[k - 1]] ELSE at[k - 1]
  IN  at

\* The clusters a file's entry leads to.
Reach(n) ==
  IF Find(n) = 0 THEN {}
  ELSE { c \in Cluster : \E k \in 0 .. LastCluster : Follow(root[Find(n)].first)[k] = c }

\* What read_file returns.
Visible(n) ==
  IF Find(n) = 0 THEN Absent
  ELSE LET at == Follow(root[Find(n)].first)
       IN  [ i \in 1 .. root[Find(n)].size |->
               IF at[i - 1] \in Cluster THEN data[at[i - 1]] ELSE Padding ]
-----------------------------------------------------------------------------
(* write_file and delete. *)

\* The arguments are checked and the file is looked up.  The operation goes on
\* to free every cluster the entry leads to, and damages the files that a
\* failure has made share one of them.
Begin(n, want) ==
  /\ pc = "idle"
  /\ want = Absent => Find(n) # 0
  /\ torn' = torn \cup { m \in Name : Reach(m) \cap Reach(n) # {} }
  /\ pc' = "free"
  /\ req' = [name |-> n, want |-> want]
  /\ slot' = Find(n)
  /\ cursor' = IF Find(n) = 0 THEN 0 ELSE root[Find(n)].first
  /\ UNCHANGED <<disk, chain, todo, failed, faults>>

\* A faulty FreeNext, which reads the next cluster after it has freed this one.
FreeNextLate ==
  /\ pc = "free"
  /\ cursor \in Cluster
  /\ cursor' = FreeCluster
  /\ fat' = [fat EXCEPT ![cursor] = FreeCluster]
  /\ UNCHANGED <<root, data, pc, req, slot, chain, todo, torn, failed, faults>>

\* One turn of the loop that frees the old chain.
FreeNext ==
  /\ pc = "free"
  /\ cursor \in Cluster
  /\ cursor' = fat[cursor]
  /\ fat' = [fat EXCEPT ![cursor] = FreeCluster]
  /\ UNCHANGED <<root, data, pc, req, slot, chain, todo, torn, failed, faults>>

\* One transfer more that the device refuses.
Fault == faults < MaxFaults /\ faults' = faults + 1

\* write_fat ignores that its write is refused: the cluster stays in use.
FreeRefused ==
  /\ pc = "free"
  /\ cursor \in Cluster
  /\ cursor' = fat[cursor]
  /\ Fault /\ failed' = TRUE
  /\ UNCHANGED <<disk, pc, req, slot, chain, todo, torn>>

\* A faulty Free, which takes the end of a chain for a free cluster.
FreeOrLast == { c \in Cluster : fat[c] \notin Cluster }

Free == { c \in Cluster : fat[c] = FreeCluster }
Enough == Cardinality(Free) >= Needed(Len(req.want))

\* The search for free clusters, from 2 upwards.
Allocate ==
  /\ pc = "free"
  /\ cursor \notin Cluster
  /\ req.want # Absent
  /\ Enough
  /\ chain' = { c \in Free : Cardinality({ d \in Free : d < c }) < Needed(Len(req.want)) }
  /\ todo' = chain'
  /\ pc' = "link"
  /\ UNCHANGED <<disk, req, slot, cursor, torn, failed, faults>>

\* On to the next cluster of the chain; after the last, to the data.
LinkNext ==
  LET rest == todo \ {Lowest(todo)}
  IN  /\ todo' = IF rest = {} THEN chain ELSE rest
      /\ pc' = IF rest = {} THEN "data" ELSE "link"

\* write_fat of one cluster of the new chain.
Link ==
  /\ pc = "link"
  /\ LET c == Lowest(todo) rest == todo \ {c}
     IN  fat' = [fat EXCEPT ![c] = IF rest = {} THEN Eoc ELSE Lowest(rest)]
  /\ LinkNext
  /\ UNCHANGED <<root, data, req, slot, cursor, chain, torn, failed, faults>>

\* write_fat ignores that its write is refused: the cluster stays free.
LinkRefused ==
  /\ pc = "link"
  /\ LinkNext
  /\ Fault /\ failed' = TRUE
  /\ UNCHANGED <<disk, req, slot, cursor, chain, torn>>

\* The clusters of the new chain whose link was refused.
Unlinked == { c \in chain : fat[c] = FreeCluster /\ (pc = "link" => c \notin todo) }

Block(c) ==
  LET i == Cardinality({ d \in chain : d <= c })
  IN  IF i <= Len(req.want) THEN req.want[i] ELSE Padding

\* A faulty WriteData, which does not advance.
WriteDataAgain ==
  /\ pc = "data"
  /\ data' = [data EXCEPT ![Lowest(todo)] = Block(Lowest(todo))]
  /\ UNCHANGED <<fat, root, pc, req, slot, cursor, chain, todo, torn, failed, faults>>

\* One cluster of the data, zero-padded.
WriteData ==
  /\ pc = "data"
  /\ LET c == Lowest(todo)
     IN  /\ data' = [data EXCEPT ![c] = Block(c)]
         /\ todo' = todo \ {c}
  /\ pc' = IF todo' = {} THEN "entry" ELSE "data"
  /\ UNCHANGED <<fat, root, req, slot, cursor, chain, torn, failed, faults>>

\* The variables of the operation are gone.
Drop ==
  /\ req' = NoReq
  /\ slot' = 0 /\ cursor' = 0 /\ chain' = {} /\ todo' = {}

Over == pc' = "idle" /\ Drop

\* The slot the entry goes to: the file's own, else the first free one.
Target == IF slot # 0 THEN slot ELSE FreeSlot

\* The directory entry: from here on the file is the new one, whether or not
\* all of its chain could be linked.
WriteEntry ==
  /\ pc = "entry"
  /\ Target # 0
  /\ root' = [root EXCEPT ![Target] = [mark |-> "file", name |-> req.name,
                                      first |-> Lowest(chain), size |-> Len(req.want)]]
  /\ torn' = IF Unlinked = {} THEN torn \ {req.name} ELSE torn \cup {req.name}
  /\ Over
  /\ UNCHANGED <<fat, data, failed, faults>>

\* delete marks the slot once the chain is free.
MarkDeleted ==
  /\ pc = "free"
  /\ cursor \notin Cluster
  /\ req.want = Absent
  /\ root' = [root EXCEPT ![slot] = DeletedMark]
  /\ torn' = torn \ {req.name}
  /\ Over
  /\ UNCHANGED <<fat, data, failed, faults>>

\* What the operation has done so far stays on the disk.
LeftHalfDone ==
  /\ failed' = TRUE
  /\ UNCHANGED <<disk, torn>>

\* "FS: disk full": the old chain is free already.
DiskFull ==
  /\ pc = "free"
  /\ cursor \notin Cluster
  /\ req.want # Absent
  /\ ~Enough
  /\ LeftHalfDone
  /\ Over
  /\ UNCHANGED faults

\* The root directory is full: the new chain is linked and written already.
RootFull ==
  /\ pc = "entry"
  /\ Target = 0
  /\ LeftHalfDone
  /\ Over
  /\ UNCHANGED faults

\* The device refuses a transfer of the data or of the directory entry, and the
\* operation returns an error.
Refused ==
  /\ pc \in {"data", "entry"} \/ (pc = "free" /\ cursor \notin Cluster /\ req.want = Absent)
  /\ Fault
  /\ LeftHalfDone
  /\ Over

\* The power goes, and with it all but the disk.
PowerLoss ==
  /\ pc \notin {"idle", "off"}
  /\ Fault
  /\ LeftHalfDone
  /\ pc' = "off"
  /\ Drop

\* mount, at the next boot, reads the layout only.
Mount ==
  /\ pc = "off"
  /\ pc' = "idle"
  /\ UNCHANGED <<disk, req, slot, cursor, chain, todo, torn, failed, faults>>
-----------------------------------------------------------------------------
Step ==
  \/ FreeNext \/ Allocate \/ Link \/ WriteData \/ WriteEntry \/ MarkDeleted
  \/ DiskFull \/ RootFull \/ Mount

Next ==
  \/ \E n \in Name, want \in Content \cup {Absent} : Begin(n, want)
  \/ Step
  \/ FreeRefused \/ LinkRefused \/ Refused
  \/ PowerLoss

Spec == Init /\ [][Next]_vars

\* An operation runs with IRQs masked, and the block driver answers.
FairSpec == Spec /\ WF_vars(Step)
-----------------------------------------------------------------------------
(* Properties *)

\* The variables have their types, and a chain is at work exactly between
\* its allocation and the directory entry.
TypeOK ==
  /\ fat \in [Cluster -> {FreeCluster, Eoc} \cup Cluster]
  /\ root \in [Slot -> {EndMark, DeletedMark} \cup Entry]
  /\ data \in [Cluster -> Value \cup {Padding}]
  /\ pc \in {"idle", "free", "link", "data", "entry", "off"}
  /\ req \in {NoReq} \cup [name : Name, want : Content \cup {Absent}]
  /\ slot \in {0} \cup Slot
  /\ cursor \in {FreeCluster, Eoc} \cup Cluster
  /\ chain \in SUBSET Cluster /\ todo \in SUBSET chain
  /\ chain # {} <=> pc \in {"link", "data", "entry"}
  /\ todo # {} <=> pc \in {"link", "data"}
  /\ (req = NoReq) <=> pc \in {"idle", "off"}
  /\ torn \in SUBSET Name
  /\ failed \in BOOLEAN
  /\ faults \in 0 .. MaxFaults

\* scan_root stops at the first end mark and find_free_slot takes the first
\* slot that is marked free or end: between them no file is ever hidden
\* behind an end mark, and no name is in the directory twice.
DirectorySound ==
  /\ \A s, u \in Slot : s < u /\ root[s] = EndMark => root[u] = EndMark
  /\ \A s, u \in Slot : /\ root[s].mark = "file" /\ root[u].mark = "file"
                         /\ root[s].name = root[u].name
                         => s = u

\* What fsck would say of the volume between two operations (the host tools
\* check the images the driver writes), of the files no failure has damaged:
\* no cluster belongs to two of them, and each has as many clusters as its
\* size asks for and an end of chain after them.  Unless something has failed
\* every file is such a file, and no cluster is lost.
Fsck ==
  pc = "idle" =>
    /\ \A n, m \in Name \ torn : n # m => Reach(n) \cap Reach(m) = {}
    /\ \A n \in Name \ torn :
         Find(n) # 0 =>
           LET e == root[Find(n)]
           IN  /\ Cardinality(Reach(n)) = Needed(e.size)
               /\ Follow(e.first)[Needed(e.size)] = Eoc
    /\ ~failed => torn = {} /\ Cluster \ Free = UNION { Reach(n) : n \in Name }

\* No two files ever share a cluster, what the host tools' check of an image
\* takes for granted.
FilesApart ==
  pc = "idle" => \A n, m \in Name : n # m => Reach(n) \cap Reach(m) = {}

\* A file an operation is replacing, or a failure has damaged, may read as
\* anything.
Readable(n) == IF n \in torn THEN Unknown ELSE Visible(n)

Store == INSTANCE FileStore
           WITH files <- [n \in Name |-> Readable(n)],
                pending <- IF Unlinked = {} THEN req ELSE [req EXCEPT !.want = Unknown]

\* The file system is a store of files: an operation that succeeds leaves
\* exactly what was asked for unless a write of the FAT was refused, and an
\* operation on an undamaged file, a failure or a power loss changes what
\* read_file returns for no other file.
IsFileStore == Store!Spec

\* Every operation ends: the chains it follows have no cycle, whatever a
\* failure has left of them.
OperationsEnd == pc # "idle" ~> pc = "idle"
=============================================================================
