----------------------------- MODULE Fat16Proofs -----------------------------
(***************************************************************************)
(* Proofs about Fat16 for any names, contents, directory size and volume:  *)
(* its types, the soundness of the root directory and of the volume, and   *)
(* the refinement of the store of files, through failures and power        *)
(* losses.                                                                 *)
(*                                                                         *)
(* The directory: end marks fill it from some slot on, so a scan that      *)
(* stops at the first one sees every file (Scan).  Between its start and   *)
(* its last write an operation leaves the directory alone, so the slot it  *)
(* looked up is still its file's (OpInv), and an operation that found none *)
(* may use the first slot that is not a file's.                            *)
(*                                                                         *)
(* The volume: every settled file, one that is not torn, has clusters of   *)
(* its own that the FAT links in increasing order and that hold its        *)
(* content; all that an operation frees, links or writes is among the      *)
(* loose clusters, which the FAT never leaves and no settled file has      *)
(* (Layout).  Nothing is known of the clusters a torn file leads to but    *)
(* that the FAT only ever leads upwards (Rising): a walk from its entry    *)
(* ends, and so what an operation on it will free is known when it begins  *)
(* (WalkEnds).  What Follow visits from a settled file is then known by    *)
(* induction over its steps (WalkChain), and so is what read_file returns  *)
(* (ReadBack).                                                             *)
(***************************************************************************)
EXTENDS Fat16, FiniteSetTheorems, WellFoundedInduction, TLAPS

\* A set of numbers that is not empty has a lowest element.
LEMMA LowestIsLowest ==
  ASSUME NEW S, S \subseteq Nat, S # {}
  PROVE  Lowest(S) \in S /\ \A y \in S : Lowest(S) <= y
<1>1. \E x \in S : \A y \in S : <<y, x>> \notin OpToRel(<, Nat)
  BY NatLessThanWellFounded, WFMin
<1>2. PICK x \in S : \A y \in S : <<y, x>> \notin OpToRel(<, Nat)
  BY <1>1
<1>3. ASSUME NEW y \in S PROVE x <= y
  <2>1. ~(y < x)
    BY <1>2, <1>3 DEF OpToRel
  <2>2. x \in Nat /\ y \in Nat
    OBVIOUS
  <2> QED
    BY <2>1, <2>2
<1> QED
  BY <1>3 DEF Lowest

\* The bounds are numbers, ...
LEMMA Bounds ==
  /\ MaxLength \in Nat /\ MaxLength # 0 /\ NSlots \in Nat /\ NSlots # 0
  /\ LastCluster \in Nat /\ LastCluster < ChainEnd /\ MaxFaults \in Nat
<1>1. /\ MaxLength \in Nat \ {0} /\ NSlots \in Nat \ {0}
      /\ LastCluster \in Nat /\ LastCluster < ChainEnd /\ MaxFaults \in Nat
  BY Fat16Assumption, Zenon
<1> QED
  BY <1>1

\* ... and what stands for no file or any file is neither a name nor a content.
LEMMA OtherThings ==
  /\ Absent # Unknown
  /\ \A v \in Name \cup Content : v # Absent /\ v # Unknown
<1>1. Absent # Unknown /\ {Absent, Unknown} \cap (Name \cup Content) = {}
  BY Fat16Assumption, Zenon
<1> QED
  BY <1>1

\* The sets of clusters are finite.
LEMMA ClustersFinite ==
  ASSUME NEW S, S \subseteq Cluster
  PROVE  IsFiniteSet(S) /\ Cardinality(S) \in Nat
<1>1. IsFiniteSet(Cluster)
  BY Bounds, FS_Interval DEF Cluster
<1> QED
  BY <1>1, FS_Subset, FS_CardinalityType

LEMMA LowestCluster ==
  ASSUME NEW S, S \subseteq Cluster, S # {}
  PROVE  Lowest(S) \in Cluster /\ Lowest(S) \in S
<1>1. S \subseteq Nat
  BY DEF Cluster
<1> QED
  BY <1>1, LowestIsLowest

LEMMA NeededPositive ==
  ASSUME NEW k \in Nat
  PROVE  Needed(k) \in Nat /\ Needed(k) > 0
BY DEF Needed

\* A content is a sequence of values, no longer than MaxLength.
LEMMA ContentFunction ==
  ASSUME NEW w \in Content
  PROVE  \E k \in 0 .. MaxLength : w \in [1 .. k -> Value]
<1>1. Content \subseteq UNION { [1 .. k -> Value] : k \in 0 .. MaxLength }
  BY Fat16Assumption, Zenon
<1> QED
  BY <1>1

LEMMA ContentType ==
  ASSUME NEW w \in Content
  PROVE  /\ Len(w) \in 0 .. MaxLength /\ Len(w) \in Nat
         /\ \A i \in 1 .. Len(w) : w[i] \in Value
<1>1. PICK k \in 0 .. MaxLength : w \in [1 .. k -> Value]
  BY ContentFunction
<1>2. k \in Nat
  BY Bounds
<1>3. w \in Seq(Value) /\ Len(w) = k
  BY <1>1, <1>2
<1> QED
  BY <1>1, <1>2, <1>3

-----------------------------------------------------------------------------
(* Types *)

\* While a chain is at work its request is a write.
Working == pc \in {"link", "data", "entry"} => req.want \in Content
\* A request names a file of the volume; a deletion has a slot to mark.
Marks == pc = "free" /\ req.want = Absent => slot # 0

TypeInv == TypeOK /\ Working /\ Marks

\* What the two searches of the directory find.
LEMMA FindFinds ==
  ASSUME NEW n
  PROVE  \/ Find(n) = 0 /\ \A s \in Scanned : root[s].name # n
         \/ Find(n) \in Scanned /\ Find(n) \in Slot /\ Find(n) # 0 /\ root[Find(n)].name = n
<1> DEFINE S == { s \in Scanned : root[s].name = n }
<1>1. CASE S = {}
  BY <1>1 DEF Find
<1>2. CASE S # {}
  <2>1. S \subseteq Nat /\ S \subseteq Slot
    BY DEF Scanned, Slot
  <2>2. Lowest(S) \in S
    BY <1>2, <2>1, LowestIsLowest
  <2>3. Find(n) = Lowest(S)
    BY <1>2 DEF Find
  <2> QED
    BY <2>1, <2>2, <2>3 DEF Slot
<1> QED
  BY <1>1, <1>2

LEMMA FreeSlotFinds ==
  \/ FreeSlot = 0 /\ \A s \in Slot : root[s].mark \notin {"end", "deleted"}
  \/ /\ FreeSlot \in Slot /\ FreeSlot # 0
     /\ root[FreeSlot].mark \in {"end", "deleted"}
     /\ \A s \in Slot : root[s].mark \in {"end", "deleted"} => FreeSlot <= s
<1> DEFINE S == { s \in Slot : root[s].mark \in {"end", "deleted"} }
<1>1. CASE S = {}
  BY <1>1 DEF FreeSlot
<1>2. CASE S # {}
  <2>1. S \subseteq Nat
    BY DEF Slot
  <2>2. Lowest(S) \in S /\ \A y \in S : Lowest(S) <= y
    BY <1>2, <2>1, LowestIsLowest
  <2>3. FreeSlot = Lowest(S)
    BY <1>2 DEF FreeSlot
  <2> QED
    BY <2>1, <2>2, <2>3 DEF Slot
<1> QED
  BY <1>1, <1>2

LEMMA InitType == Init => TypeInv
<1> SUFFICES ASSUME Init PROVE TypeInv
  OBVIOUS
<1>1. fat \in [Cluster -> {FreeCluster, Eoc} \cup Cluster]
  BY DEF Init
<1>2. root \in [Slot -> {EndMark, DeletedMark} \cup Entry] /\ data \in [Cluster -> Value \cup {Padding}]
  BY DEF Init
<1>3. faults \in 0 .. MaxFaults /\ torn \in SUBSET Name
  BY Bounds DEF Init
<1> QED
  BY <1>1, <1>2, <1>3 DEF Init, TypeInv, TypeOK, Working, Marks, FreeCluster

\* A refused transfer is counted.
LEMMA FaultType ==
  ASSUME TypeInv, (failed' = TRUE /\ Fault) \/ UNCHANGED <<failed, faults>>
  PROVE  failed' \in BOOLEAN /\ faults' \in 0 .. MaxFaults
<1>1. MaxFaults \in Nat /\ faults \in 0 .. MaxFaults /\ failed \in BOOLEAN
  BY Bounds DEF TypeInv, TypeOK
<1>2. faults' = faults \/ (faults < MaxFaults /\ faults' = faults + 1)
  BY DEF Fault
<1>3. faults' \in 0 .. MaxFaults
  BY <1>1, <1>2
<1>4. failed' \in BOOLEAN
  BY <1>1
<1> QED
  BY <1>3, <1>4

\* An operation that is over has the types of one that has not begun.
LEMMA OverType ==
  ASSUME TypeInv, Drop, pc' \in {"idle", "off"},
         fat' \in [Cluster -> {FreeCluster, Eoc} \cup Cluster],
         root' \in [Slot -> {EndMark, DeletedMark} \cup Entry], UNCHANGED data,
         torn' \in SUBSET Name, failed' \in BOOLEAN, faults' \in 0 .. MaxFaults
  PROVE  TypeInv'
BY DEF TypeInv, TypeOK, Working, Marks, Drop, FreeCluster

LEMMA HalfDoneType ==
  ASSUME TypeInv, LeftHalfDone, pc \notin {"idle", "off"}
  PROVE  torn' \in SUBSET Name /\ failed' \in BOOLEAN /\ UNCHANGED disk
BY DEF TypeInv, TypeOK, LeftHalfDone, NoReq

LEMMA BeginType ==
  ASSUME TypeInv, NEW n \in Name, NEW want \in Content \cup {Absent}, Begin(n, want)
  PROVE  TypeInv'
<1>1. Find(n) = 0 \/ (Find(n) \in Slot /\ Find(n) # 0 /\ root[Find(n)].mark = "file")
  BY FindFinds DEF Scanned
<1>2. Find(n) # 0 => root[Find(n)].first \in Cluster
  BY <1>1 DEF TypeInv, TypeOK, Entry, EndMark, DeletedMark
<1>3. cursor' \in {FreeCluster, Eoc} \cup Cluster
  BY <1>2 DEF Begin, FreeCluster
<1>4. slot' \in {0} \cup Slot
  BY <1>1 DEF Begin
<1>5. req' \in [name : Name, want : Content \cup {Absent}] /\ req' # NoReq
  <2>1. n # Absent
    BY OtherThings
  <2>2. req'.name # NoReq.name
    BY <2>1 DEF Begin, NoReq
  <2> QED
    BY <2>2 DEF Begin
<1>6. Working' /\ Marks'
  BY DEF Begin, Working, Marks
<1>7. torn' \in SUBSET Name
  BY DEF Begin, TypeInv, TypeOK
<1> QED
  BY <1>3, <1>4, <1>5, <1>6, <1>7 DEF Begin, TypeInv, TypeOK, disk

LEMMA AllocateType ==
  ASSUME TypeInv, Allocate
  PROVE  TypeInv'
<1>1. pc = "free" /\ req.want \in Content
  BY DEF Allocate, TypeInv, TypeOK, NoReq
<1>2. Free \subseteq Cluster
  BY DEF Free
<1>3. Needed(Len(req.want)) \in Nat /\ Needed(Len(req.want)) > 0
  BY <1>1, ContentType, NeededPositive
<1>4. Free # {}
  BY <1>3, FS_EmptySet DEF Allocate, Enough
<1>5. Lowest(Free) \in Free /\ { d \in Free : d < Lowest(Free) } = {}
  <2>1. Free \subseteq Nat
    BY <1>2 DEF Cluster
  <2>2. Lowest(Free) \in Free /\ \A y \in Free : Lowest(Free) <= y
    BY <1>4, <2>1, LowestIsLowest
  <2>3. ASSUME NEW y \in Free PROVE ~(y < Lowest(Free))
    <3>1. y \in Nat /\ Lowest(Free) \in Nat /\ Lowest(Free) <= y
      BY <2>1, <2>2
    <3> HIDE DEF Free
    <3> QED
      BY <3>1
  <2>4. { d \in Free : d < Lowest(Free) } = {}
    BY <2>3, Zenon
  <2> QED
    BY <2>2, <2>4
<1>6. Lowest(Free) \in chain'
  BY <1>3, <1>5, FS_EmptySet DEF Allocate
<1>7. chain' \subseteq Cluster /\ chain' # {} /\ todo' = chain'
  BY <1>2, <1>6 DEF Allocate
<1> QED
  BY <1>1, <1>7 DEF Allocate, TypeInv, TypeOK, Working, Marks, disk

LEMMA LinkType ==
  ASSUME TypeInv, Link \/ LinkRefused
  PROVE  TypeInv'
<1> DEFINE c == Lowest(todo)
           rest == todo \ {c}
<1>1. pc = "link" /\ todo # {} /\ todo \subseteq chain /\ chain \subseteq Cluster
  BY DEF Link, LinkRefused, TypeInv, TypeOK
<1>2. c \in Cluster /\ c \in todo
  BY <1>1, LowestCluster
<1>3. rest # {} => Lowest(rest) \in Cluster
  BY <1>1, LowestCluster
<1>4. fat' \in [Cluster -> {FreeCluster, Eoc} \cup Cluster]
  BY <1>2, <1>3 DEF Link, LinkRefused, disk, TypeInv, TypeOK
<1>5. todo' \in SUBSET chain /\ todo' # {} /\ pc' \in {"link", "data"}
  BY <1>1 DEF Link, LinkRefused, LinkNext
<1>6. failed' \in BOOLEAN /\ faults' \in 0 .. MaxFaults
  BY FaultType DEF Link, LinkRefused
<1> QED
  BY <1>1, <1>4, <1>5, <1>6 DEF Link, LinkRefused, disk, TypeInv, TypeOK, Working, Marks

LEMMA WriteDataType ==
  ASSUME TypeInv, WriteData
  PROVE  TypeInv'
<1> DEFINE c == Lowest(todo)
           S == { d \in chain : d <= c }
<1>1. pc = "data" /\ todo # {} /\ todo \subseteq chain /\ chain \subseteq Cluster
  BY DEF WriteData, TypeInv, TypeOK
<1>2. c \in Cluster /\ c \in todo
  BY <1>1, LowestCluster
<1>3. Cardinality(S) \in Nat /\ Cardinality(S) > 0
  <2>1. S \subseteq Cluster /\ c \in S
    <3>1. c <= c
      BY <1>2 DEF Cluster
    <3> QED
      BY <1>1, <1>2, <3>1, Zenon
  <2>2. IsFiniteSet(S) /\ Cardinality(S) \in Nat
    BY <2>1, ClustersFinite
  <2>3. Cardinality(S) # 0
    BY <2>1, <2>2, FS_EmptySet, Zenon
  <2> QED
    BY <2>2, <2>3
<1>4. Block(c) \in Value \cup {Padding}
  <2>1. req.want \in Content
    BY <1>1 DEF TypeInv, Working
  <2>2. Len(req.want) \in Nat /\ \A i \in 1 .. Len(req.want) : req.want[i] \in Value
    BY <2>1, ContentType
  <2> QED
    BY <1>3, <2>2 DEF Block
<1>5. data' \in [Cluster -> Value \cup {Padding}]
  BY <1>2, <1>4 DEF WriteData, TypeInv, TypeOK
<1>6. todo' \in SUBSET chain /\ pc' = IF todo' = {} THEN "entry" ELSE "data"
  BY <1>1 DEF WriteData
<1> QED
  BY <1>1, <1>5, <1>6 DEF WriteData, TypeInv, TypeOK, Working, Marks

LEMMA WriteEntryType ==
  ASSUME TypeInv, WriteEntry
  PROVE  TypeInv'
<1>1. req.name \in Name /\ req.want \in Content
  BY DEF WriteEntry, TypeInv, TypeOK, Working
<1>2. Lowest(chain) \in Cluster
  BY LowestCluster DEF WriteEntry, TypeInv, TypeOK
<1>3. Len(req.want) \in 0 .. MaxLength
  BY <1>1, ContentType
<1>4. root' \in [Slot -> {EndMark, DeletedMark} \cup Entry]
  BY <1>1, <1>2, <1>3 DEF WriteEntry, TypeInv, TypeOK, Entry
<1>5. torn' \in SUBSET Name
  BY <1>1 DEF WriteEntry, TypeInv, TypeOK
<1>6. Drop /\ pc' = "idle" /\ UNCHANGED <<fat, data, failed, faults>>
  BY DEF WriteEntry, Over
<1> QED
  BY <1>4, <1>5, <1>6, OverType DEF TypeInv, TypeOK

LEMMA NextType == TypeInv /\ [Next]_vars => TypeInv'
<1> SUFFICES ASSUME TypeInv, [Next]_vars PROVE TypeInv'
  OBVIOUS
<1>1. ASSUME NEW n \in Name, NEW want \in Content \cup {Absent}, Begin(n, want)
      PROVE  TypeInv'
  BY <1>1, BeginType
<1>2. CASE FreeNext \/ FreeRefused
  <2>1. failed' \in BOOLEAN /\ faults' \in 0 .. MaxFaults
    BY <1>2, FaultType DEF FreeNext, FreeRefused
  <2>2. fat' \in [Cluster -> {FreeCluster, Eoc} \cup Cluster]
        /\ cursor' \in {FreeCluster, Eoc} \cup Cluster
    BY <1>2 DEF FreeNext, FreeRefused, disk, TypeInv, TypeOK
  <2> QED
    BY <1>2, <2>1, <2>2 DEF FreeNext, FreeRefused, disk, TypeInv, TypeOK, Working, Marks
<1>3. CASE MarkDeleted
  <2>1. root' \in [Slot -> {EndMark, DeletedMark} \cup Entry]
    BY <1>3 DEF MarkDeleted, TypeInv, TypeOK
  <2>2. torn' \in SUBSET Name
    BY <1>3 DEF MarkDeleted, TypeInv, TypeOK
  <2>3. Drop /\ pc' = "idle" /\ UNCHANGED <<fat, data, failed, faults>>
    BY <1>3 DEF MarkDeleted, Over
  <2> QED
    BY <2>1, <2>2, <2>3, OverType DEF TypeInv, TypeOK
<1>4. CASE DiskFull \/ RootFull \/ Refused \/ PowerLoss
  <2>1. LeftHalfDone /\ Drop /\ pc' \in {"idle", "off"} /\ pc \notin {"idle", "off"}
    BY <1>4 DEF DiskFull, RootFull, Refused, PowerLoss, Over
  <2>2. faults' \in 0 .. MaxFaults
    BY <1>4, Bounds DEF DiskFull, RootFull, Refused, PowerLoss, Fault, TypeInv, TypeOK
  <2>3. torn' \in SUBSET Name /\ failed' \in BOOLEAN /\ UNCHANGED disk
    BY <2>1, HalfDoneType
  <2> QED
    BY <2>1, <2>2, <2>3, OverType DEF TypeInv, TypeOK, disk
<1>5. CASE Mount
  BY <1>5 DEF Mount, TypeInv, TypeOK, Working, Marks, disk
<1>6. CASE UNCHANGED vars
  BY <1>6 DEF vars, disk, opVars, TypeInv, TypeOK, Working, Marks
<1> QED
  BY <1>1, <1>2, <1>3, <1>4, <1>5, <1>6, AllocateType, LinkType, WriteDataType, WriteEntryType
  DEF Next, Step

\* The variables of the file system and of the disk keep their types, and a
\* chain is at work exactly between its allocation and the entry.
THEOREM TypeCorrect == Spec => []TypeOK
<1>1. TypeInv => TypeOK
  BY DEF TypeInv
<1> QED
  BY <1>1, InitType, NextType, PTL DEF Spec
-----------------------------------------------------------------------------
(* The root directory *)

\* The slot an operation looked up is its file's; if it found none there is
\* none.
OpInv ==
  pc \in {"free", "link", "data", "entry"} =>
    IF slot = 0 THEN \A s \in Slot : root[s].mark = "file" => root[s].name # req.name
    ELSE root[slot].mark = "file" /\ root[slot].name = req.name

\* A scan sees every file.
LEMMA Scan ==
  ASSUME TypeInv, DirectorySound
  PROVE  Scanned = { s \in Slot : root[s].mark = "file" }
<1>1. ASSUME NEW s \in Slot, root[s].mark = "file", NEW u \in 1 .. s, root[u].mark = "end"
      PROVE  FALSE
  <2>1. u \in Slot
    BY Bounds DEF Slot
  <2>2. root[u] = EndMark
    BY <1>1, <2>1 DEF TypeInv, TypeOK, EndMark, DeletedMark, Entry
  <2>3. u < s
    BY <1>1 DEF Slot
  <2>4. root[s] = EndMark
    BY <2>1, <2>2, <2>3 DEF DirectorySound
  <2> QED
    BY <1>1, <2>4 DEF EndMark
<1> QED
  BY <1>1 DEF Scanned

LEMMA NextDirectory ==
  TypeInv /\ DirectorySound /\ OpInv /\ [Next]_vars => DirectorySound' /\ OpInv'
<1> SUFFICES ASSUME TypeInv, DirectorySound, OpInv, [Next]_vars
             PROVE  DirectorySound' /\ OpInv'
  OBVIOUS
<1>1. ASSUME NEW n \in Name, NEW want \in Content \cup {Absent}, Begin(n, want)
      PROVE  DirectorySound' /\ OpInv'
  <2>1. UNCHANGED root /\ slot' = Find(n) /\ req'.name = n
    BY <1>1 DEF Begin, disk
  <2>2. Scanned = { s \in Slot : root[s].mark = "file" }
    BY Scan
  <2>3. OpInv'
    BY <2>1, <2>2, FindFinds DEF OpInv
  <2> QED
    BY <2>1, <2>3 DEF DirectorySound
<1>2. CASE FreeNext \/ FreeRefused \/ Allocate \/ Link \/ LinkRefused \/ WriteData
  <2>1. UNCHANGED <<root, slot, req>> /\ pc \in {"free", "link", "data", "entry"}
    BY <1>2 DEF FreeNext, FreeRefused, Allocate, Link, LinkRefused, WriteData, disk
  <2> QED
    BY <2>1 DEF DirectorySound, OpInv
<1>3. CASE WriteEntry
  <2>1. PICK e \in Entry : e.mark = "file" /\ e.name = req.name /\ root' = [root EXCEPT ![Target] = e]
    <3>1. root'[Target] \in Entry
      <4>1. Target \in Slot
        BY <1>3, FreeSlotFinds DEF WriteEntry, Target, TypeInv, TypeOK
      <4>2. Lowest(chain) \in Cluster
        BY <1>3, LowestCluster DEF WriteEntry, TypeInv, TypeOK
      <4>3. req.name \in Name /\ req.want \in Content
        BY <1>3 DEF WriteEntry, TypeInv, TypeOK, Working
      <4> QED
        BY <1>3, <4>1, <4>2, <4>3, ContentType DEF WriteEntry, Entry, TypeInv, TypeOK
    <3>2. Target \in Slot
      BY <1>3, FreeSlotFinds DEF WriteEntry, Target, TypeInv, TypeOK
    <3> QED
      BY <1>3, <3>1, <3>2 DEF WriteEntry, TypeInv, TypeOK
  <2>2. e # EndMark
    BY <2>1 DEF EndMark
  <2>3. \/ Target \in Slot /\ root[Target].mark = "file" /\ root[Target].name = req.name
        \/ /\ Target \in Slot /\ root[Target].mark \in {"end", "deleted"}
           /\ \A s \in Slot : root[s].mark \in {"end", "deleted"} => Target <= s
           /\ \A s \in Slot : root[s].mark = "file" => root[s].name # req.name
    BY <1>3, FreeSlotFinds DEF WriteEntry, Target, OpInv, TypeInv, TypeOK
  <2>4. ASSUME NEW s \in Slot, NEW u \in Slot, s < u, root'[s] = EndMark
        PROVE  root'[u] = EndMark
    <3>1. s # Target /\ root[s] = EndMark
      BY <2>1, <2>2, <2>4 DEF TypeInv, TypeOK
    <3>2. root[u] = EndMark
      BY <2>4, <3>1 DEF DirectorySound
    <3>3. u # Target
      BY <2>3, <2>4, <3>1, <3>2 DEF EndMark, Slot
    <3> QED
      BY <2>1, <3>2, <3>3 DEF TypeInv, TypeOK
  <2>5. ASSUME NEW s \in Slot, NEW u \in Slot, root'[s].mark = "file", root'[u].mark = "file",
               root'[s].name = root'[u].name
        PROVE  s = u
    BY <2>1, <2>3, <2>5 DEF DirectorySound, TypeInv, TypeOK
  <2>6. OpInv'
    BY <1>3 DEF WriteEntry, Over, OpInv
  <2> QED
    BY <2>4, <2>5, <2>6 DEF DirectorySound
<1>4. CASE MarkDeleted
  <2>1. slot \in Slot /\ root' = [root EXCEPT ![slot] = DeletedMark]
    BY <1>4 DEF MarkDeleted, TypeInv, TypeOK, Marks
  <2>2. root[slot].mark = "file" /\ root[slot] # EndMark
    BY <1>4, <2>1 DEF MarkDeleted, OpInv, EndMark, Slot
  <2>3. \A s \in Slot : root'[s] = EndMark <=> root[s] = EndMark
    BY <2>1, <2>2 DEF TypeInv, TypeOK, EndMark, DeletedMark
  <2>4. \A s \in Slot : root'[s].mark = "file" => root'[s] = root[s]
    BY <2>1 DEF TypeInv, TypeOK, DeletedMark
  <2>5. OpInv'
    BY <1>4 DEF MarkDeleted, Over, OpInv
  <2> QED
    BY <2>3, <2>4, <2>5 DEF DirectorySound
<1>5. CASE DiskFull \/ RootFull \/ Refused \/ PowerLoss \/ Mount
  <2>1. UNCHANGED root /\ pc' \in {"idle", "off"}
    BY <1>5 DEF DiskFull, RootFull, Refused, PowerLoss, Mount, Over, LeftHalfDone, disk
  <2> QED
    BY <2>1 DEF DirectorySound, OpInv
<1>6. CASE UNCHANGED vars
  BY <1>6 DEF vars, disk, opVars, DirectorySound, OpInv
<1> QED
  BY <1>1, <1>2, <1>3, <1>4, <1>5, <1>6 DEF Next, Step

\* No file is ever hidden behind an end mark and no name is twice in the
\* root directory, whatever operations, refused transfers and power losses
\* there are: for directories and volumes of any size.
THEOREM DirectoryStaysSound == Spec => []DirectorySound
<1>1. Init => DirectorySound /\ OpInv
  BY DEF Init, DirectorySound, OpInv, EndMark
<1> QED
  BY <1>1, InitType, NextType, NextDirectory, PTL DEF Spec
-----------------------------------------------------------------------------
(* Sets of numbers *)

\* Induction over the numbers, as a fact about sets.
LEMMA NatInduct ==
  ASSUME NEW S, S \subseteq Nat, 0 \in S, \A n \in S : n + 1 \in S
  PROVE  \A n \in Nat : n \in S
<1> SUFFICES ASSUME Nat \ S # {} PROVE FALSE
  OBVIOUS
<1> DEFINE m == Lowest(Nat \ S)
<1>1. m \in Nat \ S /\ \A y \in Nat \ S : m <= y
  BY LowestIsLowest
<1> HIDE DEF m
<1>2. m # 0 /\ m - 1 \in Nat /\ (m - 1) + 1 = m /\ ~(m <= m - 1)
  BY <1>1
<1>3. m - 1 \in S
  BY <1>1, <1>2
<1> QED
  BY <1>1, <1>2, <1>3

\* The elements of S below x and above it, and the rank of x in S.
Below(S, x) == { y \in S : y < x }
Above(S, x) == { y \in S : y > x }
Rank(S, x) == Cardinality({ y \in S : y <= x })

\* The elements of a finite set of numbers below one of them.
LEMMA BelowFinite ==
  ASSUME NEW S, IsFiniteSet(S), NEW x
  PROVE  /\ Below(S, x) \subseteq S /\ IsFiniteSet(Below(S, x))
         /\ Cardinality(Below(S, x)) \in Nat /\ Cardinality(S) \in Nat
         /\ Cardinality(Below(S, x)) <= Cardinality(S)
<1>1. Below(S, x) \subseteq S
  BY DEF Below
<1> QED
  BY <1>1, FS_Subset, FS_CardinalityType

\* An element and all below it.
LEMMA BelowAdd ==
  ASSUME NEW S, S \subseteq Nat, IsFiniteSet(S), NEW x \in S
  PROVE  /\ Cardinality(Below(S, x) \cup {x}) = Cardinality(Below(S, x)) + 1
         /\ Rank(S, x) = Cardinality(Below(S, x)) + 1
<1>1. IsFiniteSet(Below(S, x)) /\ x \notin Below(S, x)
  BY BelowFinite DEF Below
<1>2. Cardinality(Below(S, x) \cup {x}) = Cardinality(Below(S, x)) + 1
  BY <1>1, FS_AddElement, Zenon
<1>3. { y \in S : y <= x } = Below(S, x) \cup {x}
  <2>1. ASSUME NEW y \in S PROVE y <= x <=> y < x \/ y = x
    <3>1. y \in Nat /\ x \in Nat
      OBVIOUS
    <3> QED
      BY <3>1
  <2> QED
    BY <2>1, Zenon DEF Below
<1> QED
  BY <1>2, <1>3 DEF Rank

\* The higher of two elements has more below it.
LEMMA BelowGrows ==
  ASSUME NEW S, S \subseteq Nat, IsFiniteSet(S), NEW x \in S, NEW y \in S, x < y
  PROVE  Cardinality(Below(S, x)) < Cardinality(Below(S, y))
<1>1. Below(S, x) \cup {x} \subseteq Below(S, y)
  <2>1. ASSUME NEW z \in Below(S, x) \cup {x} PROVE z \in S /\ z < y
    <3>1. z \in S /\ (z < x \/ z = x)
      BY DEF Below
    <3>2. z \in Nat /\ x \in Nat /\ y \in Nat
      BY <3>1
    <3> QED
      BY <3>1, <3>2
  <2> QED
    BY <2>1 DEF Below
<1>2. IsFiniteSet(Below(S, y)) /\ Cardinality(Below(S, y)) \in Nat /\ Cardinality(Below(S, x)) \in Nat
  BY BelowFinite
<1>3. Cardinality(Below(S, x) \cup {x}) <= Cardinality(Below(S, y))
  BY <1>1, <1>2, FS_Subset
<1>4. Cardinality(Below(S, x)) + 1 <= Cardinality(Below(S, y))
  BY <1>3, BelowAdd, Zenon
<1> QED
  BY <1>2, <1>4

\* So no two elements have as many below them.
LEMMA BelowInjective ==
  ASSUME NEW S, S \subseteq Nat, IsFiniteSet(S), NEW x \in S, NEW y \in S,
         Cardinality(Below(S, x)) = Cardinality(Below(S, y))
  PROVE  x = y
<1>1. x \in Nat /\ y \in Nat
  OBVIOUS
<1>2. Cardinality(Below(S, x)) \in Nat /\ Cardinality(Below(S, y)) \in Nat
  BY BelowFinite
<1>3. ASSUME NEW a \in S, NEW b \in S, a < b PROVE Cardinality(Below(S, a)) # Cardinality(Below(S, b))
  <2>1. Cardinality(Below(S, a)) \in Nat /\ Cardinality(Below(S, b)) \in Nat
    BY BelowFinite
  <2>2. Cardinality(Below(S, a)) < Cardinality(Below(S, b))
    BY <1>3, BelowGrows
  <2> QED
    BY <2>1, <2>2
<1>4. ~(x < y) /\ ~(y < x)
  BY <1>3, Zenon
<1> QED
  BY <1>1, <1>4

\* The first k elements of a finite set of numbers are k.
LEMMA FirstFew ==
  ASSUME NEW S, S \subseteq Nat, IsFiniteSet(S), NEW k \in 0 .. Cardinality(S)
  PROVE  Cardinality({ c \in S : Cardinality(Below(S, c)) < k }) = k
<1> DEFINE F(n) == { c \in S : Cardinality(Below(S, c)) < n }
           G == { n \in Nat : n <= Cardinality(S) => Cardinality(F(n)) = n }
<1>1. Cardinality(S) \in Nat /\ \A c \in S : Cardinality(Below(S, c)) \in Nat
  BY BelowFinite, FS_CardinalityType
<1>2. 0 \in G
  <2>1. ASSUME NEW c \in S PROVE ~(Cardinality(Below(S, c)) < 0)
    BY <1>1
  <2>2. F(0) = {}
    BY <2>1, Zenon
  <2> QED
    BY <2>2, FS_EmptySet
<1>3. ASSUME NEW n \in G PROVE n + 1 \in G
  <2> SUFFICES ASSUME n + 1 <= Cardinality(S) PROVE Cardinality(F(n + 1)) = n + 1
    BY <1>3
  <2>1. n \in Nat /\ n < Cardinality(S) /\ Cardinality(F(n)) = n
    BY <1>1, <1>3
  <2>2. F(n) \subseteq S /\ F(n) # S /\ IsFiniteSet(F(n))
    <3>1. F(n) \subseteq S
      OBVIOUS
    <3>2. F(n) # S
      <4> SUFFICES ASSUME F(n) = S PROVE FALSE
        OBVIOUS
      <4>1. Cardinality(S) = n
        BY <2>1, Zenon
      <4> HIDE DEF F
      <4> QED
        BY <2>1, <4>1
    <3> QED
      BY <3>1, <3>2, FS_Subset, Zenon
  <2> DEFINE z == Lowest(S \ F(n))
  <2>3. z \in S /\ z \notin F(n) /\ \A y \in S \ F(n) : z <= y
    <3>1. S \ F(n) \subseteq Nat /\ S \ F(n) # {}
      BY <2>2
    <3> QED
      BY <3>1, LowestIsLowest
  <2> HIDE DEF z
  <2>4. Below(S, z) \subseteq F(n)
    <3>1. ASSUME NEW y \in S, y < z, y \notin F(n) PROVE FALSE
      <4>1. z <= y /\ y \in Nat /\ z \in Nat
        BY <2>3, <3>1
      <4> QED
        BY <3>1, <4>1
    <3> QED
      BY <3>1 DEF Below
  <2>5. F(n) \subseteq Below(S, z)
    <3>1. ASSUME NEW y \in F(n), ~(y < z) PROVE FALSE
      <4>1. y \in S /\ Cardinality(Below(S, y)) < n
        BY <3>1
      <4>2. y # z /\ y \in Nat /\ z \in Nat
        BY <2>3, <3>1
      <4>3. z < y
        BY <3>1, <4>2
      <4>4. Cardinality(Below(S, z)) < Cardinality(Below(S, y))
        BY <2>3, <4>1, <4>3, BelowGrows
      <4>5. Cardinality(Below(S, z)) < n
        BY <1>1, <2>1, <2>3, <4>1, <4>4
      <4> QED
        BY <2>3, <4>5
    <3> QED
      BY <3>1 DEF Below
  <2>6. Cardinality(Below(S, z)) = n
    BY <2>1, <2>4, <2>5
  <2>7. F(n + 1) = F(n) \cup {z}
    <3>1. ASSUME NEW c \in S PROVE Cardinality(Below(S, c)) < n + 1 <=> c \in F(n) \/ c = z
      <4>1. Cardinality(Below(S, c)) \in Nat
        BY <1>1
      <4>2. Cardinality(Below(S, c)) = n <=> c = z
        BY <2>3, <2>6, BelowInjective
      <4> QED
        BY <2>1, <4>1, <4>2
    <3> QED
      BY <2>2, <2>3, <3>1
  <2>8. Cardinality(F(n) \cup {z}) = Cardinality(F(n)) + 1
    BY <2>2, <2>3, FS_AddElement, Zenon
  <2> HIDE DEF F
  <2> QED
    BY <2>1, <2>7, <2>8
<1>4. k \in Nat /\ k <= Cardinality(S)
  BY <1>1
<1> HIDE DEF F
<1>5. \A n \in Nat : n \in G
  BY <1>2, <1>3, NatInduct
<1>6. Cardinality(F(k)) = k
  BY <1>4, <1>5
<1> QED
  BY <1>6 DEF F

\* A set of numbers has nothing below its lowest.
LEMMA NoneBelowLowest ==
  ASSUME NEW S, S \subseteq Nat, S # {}
  PROVE  Cardinality(Below(S, Lowest(S))) = 0
<1>1. Lowest(S) \in S /\ \A y \in S : Lowest(S) <= y
  BY LowestIsLowest
<1>2. ASSUME NEW y \in S PROVE ~(y < Lowest(S))
  <2>1. y \in Nat /\ Lowest(S) \in Nat /\ Lowest(S) <= y
    BY <1>1
  <2> QED
    BY <2>1
<1>3. Below(S, Lowest(S)) = {}
  BY <1>2, Zenon DEF Below
<1> QED
  BY <1>3, FS_EmptySet

-----------------------------------------------------------------------------
(* Chains *)

\* The number after x in S, or the end of the chain.
After(S, x) == IF Above(S, x) = {} THEN Eoc ELSE Lowest(Above(S, x))
\* In the FAT f the clusters of S are one chain, in increasing order.
Linked(f, S) == \A x \in S : f[x] = After(S, x)

\* What is next to x in S has x and what is below x below it.
LEMMA NextAbove ==
  ASSUME NEW S, S \subseteq Nat, IsFiniteSet(S), NEW x \in S
  PROVE  \/ Above(S, x) = {} /\ Cardinality(S) = Cardinality(Below(S, x)) + 1
         \/ /\ Above(S, x) # {} /\ Lowest(Above(S, x)) \in S
            /\ x < Lowest(Above(S, x))
            /\ Cardinality(Below(S, Lowest(Above(S, x)))) = Cardinality(Below(S, x)) + 1
            /\ Cardinality(Below(S, x)) + 1 < Cardinality(S)
<1> DEFINE B == Below(S, x) \cup {x}
<1>1. x \in Nat /\ Cardinality(B) = Cardinality(Below(S, x)) + 1
  BY BelowAdd, Zenon
<1>2. ASSUME NEW y \in S PROVE y < x \/ y = x \/ y > x
  <2>1. y \in Nat
    OBVIOUS
  <2> QED
    BY <1>1, <2>1
<1>3. CASE Above(S, x) = {}
  <2>1. S = B
    BY <1>2, <1>3, Zenon DEF Above, Below
  <2> QED
    BY <1>1, <1>3, <2>1, Zenon
<1>4. CASE Above(S, x) # {}
  <2> DEFINE z == Lowest(Above(S, x))
  <2>1. z \in Above(S, x) /\ \A y \in Above(S, x) : z <= y
    <3>1. Above(S, x) \subseteq Nat
      BY DEF Above
    <3> QED
      BY <1>4, <3>1, LowestIsLowest, Zenon
  <2> HIDE DEF z
  <2>2. z \in S /\ z \in Nat /\ x < z
    BY <1>1, <2>1 DEF Above
  <2>3. ASSUME NEW y \in S PROVE y < z <=> (y < x \/ y = x)
    <3>1. y \in Nat
      OBVIOUS
    <3>2. y > x => z <= y
      BY <2>1 DEF Above
    <3> QED
      BY <1>1, <2>2, <3>1, <3>2
  <2>4. Below(S, z) = B
    BY <2>3, Zenon DEF Below
  <2>5. Cardinality(B \cup {z}) = Cardinality(B) + 1
    BY <2>2, <2>4, BelowAdd, Zenon
  <2>6. B \cup {z} \subseteq S
    BY <2>2 DEF Below
  <2>7. Cardinality(B \cup {z}) <= Cardinality(S)
    BY <2>6, FS_Subset, Zenon
  <2>8. Cardinality(S) \in Nat /\ Cardinality(Below(S, x)) \in Nat
    BY BelowFinite
  <2> HIDE DEF B
  <2>9. Cardinality(Below(S, x)) + 1 < Cardinality(S)
    BY <1>1, <2>5, <2>7, <2>8
  <2>10. Cardinality(Below(S, z)) = Cardinality(Below(S, x)) + 1
    BY <1>1, <2>4
  <2> QED
    BY <1>4, <2>2, <2>9, <2>10 DEF z
<1> QED
  BY <1>3, <1>4

\* Follow is what its recursion says.
LEMMA FollowDef ==
  ASSUME NEW c
  PROVE  /\ Follow(c)[0] = c
         /\ \A k \in 1 .. LastCluster :
              Follow(c)[k] = IF Follow(c)[k - 1] \in Cluster THEN fat[Follow(c)[k - 1]]
                             ELSE Follow(c)[k - 1]
<1> DEFINE Nx(v) == IF v \in Cluster THEN fat[v] ELSE v
           Walk(g, n) == /\ g = [k \in 0 .. n |-> g[k]]
                         /\ g[0] = c /\ \A k \in 1 .. n : g[k] = Nx(g[k - 1])
           G == { n \in Nat : \E g : Walk(g, n) }
<1>1. 0 \in G
  <2>1. Walk([k \in 0 .. 0 |-> c], 0)
    OBVIOUS
  <2> QED
    BY <2>1, Zenon
<1> HIDE DEF Nx
<1>2. ASSUME NEW n \in G PROVE n + 1 \in G
  <2>1. PICK g : Walk(g, n)
    BY <1>2
  <2> DEFINE h == [k \in 0 .. (n + 1) |-> IF k = n + 1 THEN Nx(g[n]) ELSE g[k]]
  <2>2. n \in Nat /\ n + 1 \in Nat
    BY <1>2
  <2>3. h = [k \in 0 .. (n + 1) |-> h[k]] /\ h[0] = c
    BY <2>1, <2>2
  <2>4. ASSUME NEW k \in 1 .. (n + 1) PROVE h[k] = Nx(h[k - 1])
    <3>1. CASE k = n + 1
      BY <2>2, <3>1
    <3>2. CASE k # n + 1
      <4>1. k \in 1 .. n /\ k \in 0 .. (n + 1) /\ k - 1 \in 0 .. (n + 1) /\ k - 1 # n + 1
        BY <2>2, <3>2
      <4> QED
        BY <2>1, <3>2, <4>1
    <3> QED
      BY <3>1, <3>2
  <2>5. Walk(h, n + 1)
    BY <2>3, <2>4
  <2> QED
    BY <2>2, <2>5
<1>3. LastCluster \in Nat
  BY Bounds
<1>4. LastCluster \in G
  <2>1. G \subseteq Nat
    OBVIOUS
  <2> HIDE DEF G
  <2> QED
    BY <1>1, <1>2, <1>3, <2>1, NatInduct
<1>5. PICK g : Walk(g, LastCluster)
  BY <1>4
<1> DEFINE Def(at) == [k \in 0 .. LastCluster |->
                        IF k = 0 THEN c
                        ELSE IF at[k - 1] \in Cluster THEN fat[at[k - 1]] ELSE at[k - 1]]
<1>6. g = Def(g)
  <2>1. ASSUME NEW k \in 0 .. LastCluster PROVE g[k] = Def(g)[k]
    <3>1. k = 0 \/ k \in 1 .. LastCluster
      BY <1>3
    <3> QED
      BY <1>5, <3>1 DEF Nx
  <2> QED
    BY <1>5, <2>1
<1>7. Follow(c) = Def(Follow(c))
  BY <1>6 DEF Follow
<1> QED
  BY <1>3, <1>7


\* What stands for a free cluster or the end of a chain is no cluster.
LEMMA NoCluster == Eoc \notin Cluster /\ FreeCluster \notin Cluster /\ LastCluster \in Nat
<1>1. LastCluster \in Nat /\ LastCluster < ChainEnd
  BY Bounds
<1>2. ~(Eoc <= LastCluster)
  BY <1>1 DEF Eoc, ChainEnd
<1> QED
  BY <1>1, <1>2 DEF FreeCluster, Cluster

\* A chain has fewer clusters than Follow takes steps.
LEMMA ChainFits ==
  ASSUME NEW S, S \subseteq Cluster
  PROVE  S \subseteq Nat /\ IsFiniteSet(S) /\ Cardinality(S) \in 0 .. LastCluster
<1>1. IsFiniteSet(Cluster) /\ IsFiniteSet(S) /\ Cardinality(S) \in Nat
  BY ClustersFinite
<1>2. Cardinality(S) <= Cardinality(Cluster)
  BY <1>1, FS_Subset
<1>3. LastCluster \in Nat
  BY NoCluster
<1>4. Cardinality(Cluster) = IF 2 <= LastCluster THEN LastCluster - 2 + 1 ELSE 0
  BY <1>3, FS_Interval DEF Cluster
<1>5. Cardinality(Cluster) \in Nat
  BY <1>1, FS_CardinalityType
<1>6. Cardinality(Cluster) <= LastCluster
  BY <1>3, <1>4, <1>5
<1> QED
  BY <1>1, <1>2, <1>3, <1>5, <1>6 DEF Cluster

\* From the lowest cluster of a chain Follow visits its clusters in order and
\* then stays at the end of the chain.
LEMMA WalkChain ==
  ASSUME NEW S, S \subseteq Cluster, S # {}, Linked(fat, S), NEW k \in 0 .. LastCluster
  PROVE  LET v == Follow(Lowest(S))[k]
         IN  IF k < Cardinality(S) THEN v \in S /\ Cardinality(Below(S, v)) = k ELSE v = Eoc
<1> DEFINE at == Follow(Lowest(S))
           At(n) == IF n < Cardinality(S) THEN at[n] \in S /\ Cardinality(Below(S, at[n])) = n
                    ELSE at[n] = Eoc
           G == { n \in Nat : n \in 0 .. LastCluster => At(n) }
<1>1. S \subseteq Nat /\ IsFiniteSet(S) /\ Cardinality(S) \in Nat /\ LastCluster \in Nat
  BY ChainFits, NoCluster
<1>2. /\ at[0] = Lowest(S)
      /\ \A n \in 1 .. LastCluster : at[n] = IF at[n - 1] \in Cluster THEN fat[at[n - 1]] ELSE at[n - 1]
  BY FollowDef, Zenon
<1> HIDE DEF at
<1>3. At(0)
  <2>1. Lowest(S) \in S /\ Cardinality(Below(S, Lowest(S))) = 0
    BY <1>1, LowestIsLowest, NoneBelowLowest
  <2>2. Cardinality(S) # 0
    BY <1>1, FS_EmptySet
  <2> QED
    BY <1>1, <1>2, <2>1, <2>2
<1>4. ASSUME NEW n \in Nat, n + 1 \in 0 .. LastCluster, At(n) PROVE At(n + 1)
  <2>1. n + 1 \in 1 .. LastCluster /\ (n + 1) - 1 = n
    BY <1>4
  <2>2. at[n + 1] = IF at[n] \in Cluster THEN fat[at[n]] ELSE at[n]
    BY <1>2, <2>1
  <2>3. CASE n < Cardinality(S)
    <3> DEFINE x == at[n]
    <3>1. x \in S /\ Cardinality(Below(S, x)) = n
      BY <1>4, <2>3
    <3> HIDE DEF x
    <3>2. at[n + 1] = After(S, x)
      BY <2>2, <3>1 DEF Linked, x
    <3>3. CASE Above(S, x) = {} /\ Cardinality(S) = n + 1
      BY <1>4, <3>2, <3>3 DEF After
    <3>4. CASE /\ Above(S, x) # {} /\ Lowest(Above(S, x)) \in S
               /\ Cardinality(Below(S, Lowest(Above(S, x)))) = n + 1
               /\ n + 1 < Cardinality(S)
      BY <3>2, <3>4 DEF After
    <3> QED
      BY <1>1, <3>1, <3>3, <3>4, NextAbove
  <2>4. CASE ~(n < Cardinality(S))
    <3>1. ~(n + 1 < Cardinality(S)) /\ at[n] = Eoc
      BY <1>1, <1>4, <2>4
    <3> QED
      BY <2>2, <3>1, NoCluster
  <2> QED
    BY <2>3, <2>4
<1> HIDE DEF At
<1>5. 0 \in G /\ \A n \in G : n + 1 \in G
  <2>1. ASSUME NEW n \in Nat, n \in 0 .. LastCluster => At(n), n + 1 \in 0 .. LastCluster
        PROVE  At(n + 1)
    BY <1>1, <1>4, <2>1
  <2> QED
    BY <1>3, <2>1
<1>6. G \subseteq Nat /\ k \in Nat
  BY <1>1
<1> HIDE DEF G
<1>7. k \in G
  BY <1>5, <1>6, NatInduct
<1>8. At(k)
  BY <1>7 DEF G
<1> QED
  BY <1>8 DEF At, at

\* Every cluster of a chain comes at the step of its rank.
LEMMA ChainRank ==
  ASSUME NEW S, S \subseteq Cluster, NEW x \in S
  PROVE  Cardinality(Below(S, x)) \in 0 .. LastCluster /\ Cardinality(Below(S, x)) < Cardinality(S)
<1>1. S \subseteq Nat /\ IsFiniteSet(S) /\ Cardinality(S) \in 0 .. LastCluster /\ LastCluster \in Nat
  BY ChainFits, NoCluster
<1>2. Cardinality(Below(S, x)) \in Nat /\ Cardinality(S) \in Nat
  BY <1>1, BelowFinite
<1>3. \/ Cardinality(S) = Cardinality(Below(S, x)) + 1
      \/ Cardinality(Below(S, x)) + 1 < Cardinality(S)
  BY <1>1, NextAbove, Zenon
<1> QED
  BY <1>1, <1>2, <1>3

\* The clusters a walk of the FAT visits.
Visited(c) == { x \in Cluster : \E k \in 0 .. LastCluster : Follow(c)[k] = x }

\* They are the chain, ...
LEMMA WalkAll ==
  ASSUME NEW S, S \subseteq Cluster, S # {}, Linked(fat, S)
  PROVE  Visited(Lowest(S)) = S
<1>1. S \subseteq Nat /\ IsFiniteSet(S)
  BY ChainFits
<1>2. ASSUME NEW x \in Cluster, NEW k \in 0 .. LastCluster, Follow(Lowest(S))[k] = x
      PROVE  x \in S
  BY <1>2, WalkChain, NoCluster
<1>3. ASSUME NEW x \in S
      PROVE  x \in Cluster /\ \E k \in 0 .. LastCluster : Follow(Lowest(S))[k] = x
  <2>1. PICK k \in 0 .. LastCluster : k = Cardinality(Below(S, x)) /\ k < Cardinality(S)
    BY ChainRank
  <2>2. Follow(Lowest(S))[k] \in S
        /\ Cardinality(Below(S, Follow(Lowest(S))[k])) = Cardinality(Below(S, x))
    BY <2>1, WalkChain
  <2>3. Follow(Lowest(S))[k] = x
    BY <1>1, <2>2, BelowInjective
  <2> QED
    BY <2>3
<1> QED
  BY <1>2, <1>3 DEF Visited

\* The FAT only ever leads upwards.
Rising == \A x \in Cluster : fat[x] \in Cluster => x < fat[x]

\* ... or, wherever the walk begins, a set of clusters that the FAT does not
\* leave: it has ended before Follow has taken its last step.
LEMMA WalkEnds ==
  ASSUME Rising, fat \in [Cluster -> {FreeCluster, Eoc} \cup Cluster], NEW c \in Cluster
  PROVE  /\ Visited(c) \subseteq Cluster /\ c \in Visited(c)
         /\ \A x \in Visited(c) : fat[x] \in Visited(c) \cup {FreeCluster, Eoc}
<1> DEFINE at == Follow(c)
           G == { n \in Nat : n \in 0 .. LastCluster /\ at[n] \in Cluster => at[n] >= n + 2 }
<1>1. /\ at[0] = c
      /\ \A n \in 1 .. LastCluster : at[n] = IF at[n - 1] \in Cluster THEN fat[at[n - 1]] ELSE at[n - 1]
  BY FollowDef, Zenon
<1>2. LastCluster \in Nat
  BY NoCluster
<1> HIDE DEF at
<1>3. ASSUME NEW n \in G PROVE n + 1 \in G
  <2> SUFFICES ASSUME n + 1 \in 0 .. LastCluster, at[n + 1] \in Cluster
               PROVE  at[n + 1] >= (n + 1) + 2
    BY <1>3
  <2>1. n \in Nat /\ n \in 0 .. LastCluster /\ n + 1 \in 1 .. LastCluster /\ (n + 1) - 1 = n
    BY <1>2, <1>3
  <2>2. at[n + 1] = IF at[n] \in Cluster THEN fat[at[n]] ELSE at[n]
    BY <1>1, <2>1
  <2>3. at[n] \in Cluster /\ at[n + 1] = fat[at[n]]
    BY <2>2
  <2>4. at[n] < at[n + 1] /\ at[n] >= n + 2
    BY <1>3, <2>1, <2>3 DEF Rising
  <2>5. at[n] \in Nat /\ at[n + 1] \in Nat
    BY <2>3 DEF Cluster
  <2> QED
    BY <2>1, <2>4, <2>5
<1>4. 0 \in G /\ G \subseteq Nat
  BY <1>1 DEF Cluster
<1>5. \A n \in Nat : n \in G
  BY <1>3, <1>4, NatInduct
<1>6. at[LastCluster] \notin Cluster
  <2> SUFFICES ASSUME at[LastCluster] \in Cluster PROVE FALSE
    OBVIOUS
  <2>1. at[LastCluster] >= LastCluster + 2
    BY <1>2, <1>5
  <2> QED
    BY <1>2, <2>1 DEF Cluster
<1>7. ASSUME NEW x \in Visited(c) PROVE fat[x] \in Visited(c) \cup {FreeCluster, Eoc}
  <2> SUFFICES ASSUME fat[x] \in Cluster PROVE fat[x] \in Visited(c)
    BY <1>7 DEF Visited
  <2>1. PICK k \in 0 .. LastCluster : at[k] = x
    BY <1>7 DEF Visited, at
  <2>2. x \in Cluster /\ k # LastCluster
    BY <1>6, <1>7, <2>1 DEF Visited
  <2>3. k + 1 \in 1 .. LastCluster /\ (k + 1) - 1 = k /\ k + 1 \in 0 .. LastCluster
    BY <1>2, <2>2
  <2>4. at[k + 1] = fat[x]
    BY <1>1, <2>1, <2>2, <2>3
  <2> QED
    BY <2>3, <2>4 DEF Visited, at
<1>8. c \in Visited(c)
  BY <1>1, <1>2 DEF Visited, at
<1> QED
  BY <1>7, <1>8 DEF Visited

-----------------------------------------------------------------------------
(* Contents *)

\* The i-th cluster of a content, zero-padded.
Word(w, i) == IF i <= Len(w) THEN w[i] ELSE Padding
\* The data area d holds the content w in the clusters of S.
Holds(d, S, w) == \A x \in S : d[x] = Word(w, Rank(S, x))

\* Reading a chain that holds a content returns the content.
LEMMA ReadBack ==
  ASSUME NEW S, S \subseteq Cluster, S # {}, Linked(fat, S), NEW w \in Content,
         Holds(data, S, w), Cardinality(S) = Needed(Len(w))
  PROVE  LET at == Follow(Lowest(S))
         IN  [ i \in 1 .. Len(w) |->
                 IF at[i - 1] \in Cluster THEN data[at[i - 1]] ELSE Padding ] = w
<1> DEFINE at == Follow(Lowest(S))
           r == [ i \in 1 .. Len(w) |->
                    IF at[i - 1] \in Cluster THEN data[at[i - 1]] ELSE Padding ]
<1>1. S \subseteq Nat /\ IsFiniteSet(S) /\ Cardinality(S) \in 0 .. LastCluster /\ LastCluster \in Nat
  BY ChainFits, NoCluster
<1>2. Len(w) \in Nat /\ w = [i \in 1 .. Len(w) |-> w[i]]
  <2>1. PICK k \in 0 .. MaxLength : w \in [1 .. k -> Value]
    BY ContentFunction
  <2>2. k \in Nat /\ w \in Seq(Value) /\ Len(w) = k
    BY <2>1, Bounds
  <2> QED
    BY <2>1, <2>2
<1>3. Len(w) <= Cardinality(S)
  BY <1>1, <1>2 DEF Needed
<1>4. ASSUME NEW i \in 1 .. Len(w)
      PROVE  at[i - 1] \in S /\ data[at[i - 1]] = w[i]
  <2>1. i - 1 \in 0 .. LastCluster /\ i - 1 < Cardinality(S) /\ i <= Len(w) /\ (i - 1) + 1 = i
    BY <1>1, <1>2, <1>3
  <2> DEFINE x == at[i - 1]
  <2>2. x \in S /\ Cardinality(Below(S, x)) = i - 1
    BY <2>1, WalkChain
  <2> HIDE DEF x
  <2>3. Rank(S, x) = i
    BY <1>1, <2>1, <2>2, BelowAdd
  <2>4. data[x] = Word(w, i)
    BY <2>2, <2>3 DEF Holds
  <2> QED
    BY <2>1, <2>2, <2>4 DEF Word, x
<1> HIDE DEF at
<1>5. r = w
  BY <1>2, <1>4
<1> QED
  BY <1>5 DEF at

-----------------------------------------------------------------------------
(* The layout of the volume *)

\* A file that no failure has damaged and no operation is replacing.
Settled(s) == root[s].mark = "file" /\ root[s].name \notin torn

\* The clusters of S, and no others, hold the file in slot s, whose content is w.
Stored(s, S, w) ==
  /\ w \in Content /\ S # {} /\ Linked(fat, S) /\ Holds(data, S, w)
  /\ root[s].first = Lowest(S) /\ root[s].size = Len(w)
  /\ Cardinality(S) = Needed(Len(w))

\* own[s] are the clusters of a settled file, held[s] is its content.
Owns(own, held) == \A s \in Slot : Settled(s) => Stored(s, own[s], held[s])

\* No two settled files share a cluster, and none has a loose one.
Apart(own, loose) ==
  \A s \in Slot : Settled(s) =>
    own[s] \cap loose = {} /\ \A u \in Slot : Settled(u) /\ s # u => own[s] \cap own[u] = {}

\* Of the loose clusters no settled file has any.  All that the operation
\* frees, links and writes is among them, and the FAT does not leave them.
Closed(loose) ==
  /\ chain \subseteq loose
  /\ cursor \in loose \cup {FreeCluster, Eoc}
  /\ \A x \in loose : fat[x] \in loose \cup {FreeCluster, Eoc}

\* Unless something has failed, only the file of the operation is not settled,
\* the clusters of its old chain that are still to free are linked, and every
\* cluster in use is the operation's or a file's.
Accounted(own, old) ==
  ~failed =>
    /\ torn = IF slot = 0 THEN {} ELSE {req.name}
    /\ pc # "free" => old = {}
    /\ Linked(fat, old)
    /\ IF old = {} THEN cursor \in {FreeCluster, Eoc} ELSE cursor = Lowest(old)
    /\ \A x \in Cluster \ Free :
         x \in old \cup chain \/ \E s \in Slot : Settled(s) /\ x \in own[s]

\* What the volume holds: own and held as above, the loose clusters, and of
\* these the old ones that are still to free.
Layout(own, held, loose, old) ==
  /\ own \in [Slot -> SUBSET Cluster] /\ held \in [Slot -> Content \cup {<< >>}]
  /\ loose \subseteq Cluster /\ old \subseteq loose
  /\ Owns(own, held) /\ Apart(own, loose) /\ Closed(loose) /\ Accounted(own, old)

\* The chain is linked but for the clusters whose link was refused.
Joined(x) == fat[x] \in {After(chain, x), FreeCluster}

\* How far an operation has come with its new chain.
Phase ==
  /\ pc \in {"idle", "off"} => slot = 0 /\ cursor = 0
  /\ pc \in {"link", "data", "entry"} => Cardinality(chain) = Needed(Len(req.want))
  /\ pc = "link" =>
       /\ \A x \in todo : fat[x] = FreeCluster
       /\ \A x \in chain \ todo : Joined(x) /\ \A y \in todo : x < y
  /\ pc \in {"data", "entry"} =>
       /\ \A x \in chain : Joined(x)
       /\ \A x \in chain \ todo : data[x] = Word(req.want, Rank(chain, x))
  /\ ~failed => Unlinked = {}

\* What is known of the variables without the layout.
Base == TypeInv /\ DirectorySound /\ OpInv /\ Phase /\ Rising

\* A file is stored as before if its entry and its clusters are untouched.
LEMMA KeepStored ==
  ASSUME NEW s, NEW S, NEW w, Stored(s, S, w), root'[s] = root[s],
         \A x \in S : fat'[x] = fat[x] /\ data'[x] = data[x]
  PROVE  Stored(s, S, w)'
BY DEF Stored, Linked, Holds

LEMMA KeepOwns ==
  ASSUME NEW own, NEW held, NEW loose, NEW old, Layout(own, held, loose, old),
         \A s \in Slot : Settled(s)' => Settled(s) /\ root'[s] = root[s],
         \A x \in Cluster \ loose : fat'[x] = fat[x] /\ data'[x] = data[x]
  PROVE  Owns(own, held)'
<1>1. ASSUME NEW s \in Slot, Settled(s)' PROVE Stored(s, own[s], held[s])'
  <2>1. Settled(s) /\ root'[s] = root[s]
    BY <1>1
  <2>2. Stored(s, own[s], held[s])
    BY <2>1 DEF Layout, Owns
  <2>3. own[s] \subseteq Cluster \ loose
    BY <2>1 DEF Layout, Apart
  <2> QED
    BY <2>1, <2>2, <2>3, KeepStored
<1> QED
  BY <1>1 DEF Owns

LEMMA KeepApart ==
  ASSUME NEW own, NEW held, NEW loose, NEW old, Layout(own, held, loose, old),
         \A s \in Slot : Settled(s)' => Settled(s)
  PROVE  Apart(own, loose)'
BY DEF Layout, Apart

\* The entries of a chain lead to the chain or end it.
LEMMA LinkedClosed ==
  ASSUME NEW S, S \subseteq Cluster, Linked(fat, S), NEW x \in S
  PROVE  fat[x] \in S \cup {Eoc}
<1>1. S \subseteq Nat /\ IsFiniteSet(S)
  BY ChainFits
<1> QED
  BY <1>1, NextAbove DEF Linked, After

\* A settled file has no free cluster, and a walk from its entry visits its
\* clusters.
LEMMA SettledVisits ==
  ASSUME NEW own, NEW held, NEW loose, NEW old, Layout(own, held, loose, old),
         NEW s \in Slot, Settled(s)
  PROVE  /\ own[s] \subseteq Cluster /\ Stored(s, own[s], held[s])
         /\ Visited(root[s].first) = own[s] /\ own[s] \cap loose = {}
         /\ own[s] \cap Free = {}
<1>1. own[s] \subseteq Cluster /\ Stored(s, own[s], held[s]) /\ own[s] \cap loose = {}
  BY DEF Layout, Owns, Apart
<1>2. own[s] # {} /\ Linked(fat, own[s]) /\ root[s].first = Lowest(own[s])
  BY <1>1 DEF Stored
<1>3. ASSUME NEW x \in own[s] PROVE fat[x] # FreeCluster
  <2>1. fat[x] \in own[s] \cup {Eoc}
    BY <1>1, <1>2, LinkedClosed
  <2> QED
    BY <1>1, <2>1, NoCluster DEF Eoc, FreeCluster
<1>4. own[s] \cap Free = {}
  BY <1>3 DEF Free
<1> QED
  BY <1>1, <1>2, <1>4, WalkAll

\* A look-up finds the file of the name, wherever it is.
FindFact ==
  TypeInv /\ DirectorySound =>
    /\ \A n : \A s \in Slot : root[s].mark = "file" /\ root[s].name = n => Find(n) = s
    /\ \A n : Find(n) = 0 \/ (/\ Find(n) \in Slot /\ Find(n) # 0
                              /\ root[Find(n)].mark = "file" /\ root[Find(n)].name = n)

LEMMA FindIs == FindFact
<1> SUFFICES ASSUME TypeInv, DirectorySound
             PROVE  /\ \A n : \A s \in Slot : root[s].mark = "file" /\ root[s].name = n => Find(n) = s
                    /\ \A n : \/ Find(n) = 0
                              \/ /\ Find(n) \in Slot /\ Find(n) # 0
                                 /\ root[Find(n)].mark = "file" /\ root[Find(n)].name = n
  BY DEF FindFact
<1>1. Scanned = { s \in Slot : root[s].mark = "file" }
  BY Scan
<1>2. ASSUME NEW n
      PROVE  \/ Find(n) = 0 /\ \A s \in Slot : root[s].mark = "file" => root[s].name # n
             \/ /\ Find(n) \in Slot /\ Find(n) # 0
                /\ root[Find(n)].mark = "file" /\ root[Find(n)].name = n
  BY <1>1, FindFinds
<1>3. ASSUME NEW n, NEW s \in Slot, root[s].mark = "file", root[s].name = n PROVE Find(n) = s
  <2>1. /\ Find(n) \in Slot
        /\ root[Find(n)].mark = "file" /\ root[Find(n)].name = n
    BY <1>2, <1>3
  <2> QED
    BY <1>3, <2>1 DEF DirectorySound
<1> QED
  BY <1>2, <1>3

\* What a file's entry leads to.
LEMMA ReachIs ==
  ASSUME Base, NEW n
  PROVE  /\ Find(n) = 0 => Reach(n) = {}
         /\ Find(n) # 0 =>
              /\ root[Find(n)].first \in Reach(n) /\ Reach(n) \subseteq Cluster
              /\ Reach(n) = Visited(root[Find(n)].first)
              /\ \A x \in Reach(n) : fat[x] \in Reach(n) \cup {FreeCluster, Eoc}
<1>1. Find(n) # 0 => root[Find(n)].first \in Cluster
  <2>1. Find(n) # 0 => Find(n) \in Slot /\ root[Find(n)].mark = "file"
    BY FindIs DEF FindFact, Base
  <2> QED
    BY <2>1 DEF Base, TypeInv, TypeOK, Entry, EndMark, DeletedMark
<1>2. fat \in [Cluster -> {FreeCluster, Eoc} \cup Cluster] /\ Rising
  BY DEF Base, TypeInv, TypeOK
<1>3. Find(n) # 0 => Reach(n) = Visited(root[Find(n)].first)
  BY DEF Reach, Visited
<1>4. Find(n) = 0 => Reach(n) = {}
  BY DEF Reach
<1> QED
  BY <1>1, <1>2, <1>3, <1>4, WalkEnds

\* Each step keeps the layout.  The look-up of an operation makes loose all
\* that the file's entry leads to; the files that have some of it are settled
\* no longer, and nothing else is.
LEMMA BeginLayout ==
  ASSUME Base, NEW own, NEW held, NEW loose, NEW old, Layout(own, held, loose, old),
         NEW n \in Name, NEW want \in Content \cup {Absent}, Begin(n, want)
  PROVE  \E loose2, old2 : Layout(own, held, loose2, old2)'
<1>1. /\ pc = "idle" /\ pc' = "free" /\ slot' = Find(n) /\ chain = {}
      /\ cursor' = IF Find(n) = 0 THEN 0 ELSE root[Find(n)].first
      /\ req'.name = n /\ torn' = torn \cup { m \in Name : Reach(m) \cap Reach(n) # {} }
      /\ fat' = fat /\ root' = root /\ data' = data /\ chain' = chain
      /\ failed' = failed
  BY DEF Begin, disk, Base, TypeInv, TypeOK
<1>2. slot = 0
  BY <1>1 DEF Base, Phase
<1>3. ~failed => torn = {} /\ old = {}
  BY <1>1, <1>2 DEF Layout, Accounted
<1>4. Free' = Free
  BY <1>1 DEF Free
<1>5. \/ Find(n) = 0
      \/ Find(n) \in Slot /\ Find(n) # 0 /\ root[Find(n)].mark = "file" /\ root[Find(n)].name = n
  BY FindIs DEF FindFact, Base
<1>6. PICK walk : walk = Reach(n)
  OBVIOUS
<1>7. walk \subseteq Cluster
  BY <1>6, ReachIs
<1>8. ASSUME NEW s \in Slot, root[s].mark = "file"
      PROVE  /\ root[s].name \in Name /\ Find(root[s].name) = s /\ s # 0
             /\ Reach(root[s].name) = Visited(root[s].first)
  <2>1. root[s].name \in Name
    BY <1>8 DEF Base, TypeInv, TypeOK, Entry, EndMark, DeletedMark
  <2>2. Find(root[s].name) = s /\ s # 0
    BY <1>8, FindIs DEF FindFact, Base, Slot
  <2> QED
    BY <2>1, <2>2, ReachIs
<1>9. ASSUME NEW s \in Slot, Settled(s)
      PROVE  own[s] = Reach(root[s].name) /\ own[s] \subseteq Cluster
  <2>1. root[s].mark = "file"
    BY <1>9 DEF Settled
  <2> QED
    BY <1>8, <1>9, <2>1, SettledVisits
<1>10. ASSUME NEW s \in Slot
       PROVE  Settled(s)' <=> Settled(s) /\ own[s] \cap walk = {}
  <2>1. Settled(s)' <=> /\ root[s].mark = "file" /\ root[s].name \notin torn
                        /\ root[s].name \notin { m \in Name : Reach(m) \cap walk # {} }
    BY <1>1, <1>6 DEF Settled
  <2> QED
    BY <1>8, <1>9, <2>1 DEF Settled
<1>11. Owns(own, held)'
  <2>1. \A s \in Slot : Settled(s)' => Settled(s) /\ root'[s] = root[s]
    BY <1>1, <1>10
  <2>2. \A x \in Cluster \ loose : fat'[x] = fat[x] /\ data'[x] = data[x]
    BY <1>1
  <2> QED
    BY <2>1, <2>2, KeepOwns
<1>12. Apart(own, walk)'
  BY <1>10 DEF Layout, Apart
<1>13. Closed(walk)'
  <2>1. cursor' \in walk \cup {FreeCluster, Eoc}
    BY <1>1, <1>6, ReachIs DEF FreeCluster
  <2>2. \A x \in walk : fat[x] \in walk \cup {FreeCluster, Eoc}
    BY <1>6, ReachIs
  <2> QED
    BY <1>1, <2>1, <2>2 DEF Closed
<1>14. \E mine \in SUBSET walk : Accounted(own, mine)'
  <2>1. CASE failed
    BY <1>1, <2>1 DEF Accounted
  <2>2. CASE ~failed /\ Find(n) = 0
    <3>1. walk = {} /\ torn' = {} /\ slot' = 0 /\ cursor' = 0
      <4>1. Reach(n) = {}
        BY <2>2, ReachIs
      <4> QED
        BY <1>1, <1>3, <1>6, <2>2, <4>1
    <3>2. \A s \in Slot : Settled(s)' <=> Settled(s)
      BY <1>10, <3>1
    <3>3. \A x \in Cluster \ Free : \E s \in Slot : Settled(s) /\ x \in own[s]
      BY <1>1, <1>3, <2>2 DEF Layout, Accounted
    <3>4. Accounted(own, {})'
      BY <1>1, <1>4, <3>1, <3>2, <3>3 DEF Accounted, Linked, FreeCluster
    <3> QED
      BY <3>4
  <2>3. CASE ~failed /\ Find(n) # 0
    <3>0. PICK s0 \in Slot : s0 = Find(n) /\ root[s0].mark = "file" /\ root[s0].name = n /\ s0 # 0
      BY <1>5, <2>3
    <3>1. Settled(s0) /\ own[s0] = walk
      <4>1. Settled(s0)
        BY <1>3, <2>3, <3>0 DEF Settled
      <4> QED
        BY <1>6, <1>9, <3>0, <4>1
    <3>2. Stored(s0, walk, held[s0])
      BY <3>1 DEF Layout, Owns
    <3>3. walk # {} /\ Linked(fat, walk) /\ root[s0].first = Lowest(walk)
      BY <3>2 DEF Stored
    <3>4. \A s \in Slot : Settled(s) /\ s # s0 => own[s] \cap walk = {}
      BY <3>1 DEF Layout, Apart
    <3>5. torn' = {n}
      <4>1. ASSUME NEW m \in Name, Reach(m) \cap Reach(n) # {} PROVE m = n
        <5>1. Find(m) # 0
          BY <4>1, ReachIs
        <5>2. PICK s \in Slot : s = Find(m) /\ root[s].mark = "file" /\ root[s].name = m
          BY <5>1, FindIs DEF FindFact, Base
        <5>3. Settled(s)
          BY <1>3, <2>3, <5>2 DEF Settled
        <5>4. own[s] = Reach(m)
          BY <1>9, <5>2, <5>3
        <5>5. s = s0
          BY <1>6, <3>4, <4>1, <5>3, <5>4
        <5> QED
          BY <3>0, <5>2, <5>5
      <4>2. Reach(n) \cap Reach(n) # {}
        BY <1>6, <3>3
      <4>3. { m \in Name : Reach(m) \cap Reach(n) # {} } = {n}
        BY <4>1, <4>2
      <4> QED
        BY <1>1, <1>3, <2>3, <4>3
    <3>6. \A x \in Cluster \ Free : \E s \in Slot : Settled(s) /\ x \in own[s]
      BY <1>1, <1>3, <2>3 DEF Layout, Accounted
    <3>7. \A x \in Cluster \ Free : x \in walk \/ \E s \in Slot : Settled(s)' /\ x \in own[s]
      BY <1>10, <3>1, <3>4, <3>6
    <3>8. torn' = IF slot' = 0 THEN {} ELSE {req'.name}
      BY <1>1, <3>0, <3>5
    <3>9. cursor' = Lowest(walk)
      BY <1>1, <3>0, <3>3
    <3>10. Linked(fat, walk)'
      BY <1>1, <3>3 DEF Linked
    <3>11. Accounted(own, walk)'
      BY <1>1, <1>4, <3>3, <3>7, <3>8, <3>9, <3>10 DEF Accounted
    <3> QED
      BY <3>11
  <2> QED
    BY <2>1, <2>2, <2>3
<1>15. PICK mine \in SUBSET walk : Accounted(own, mine)'
  BY <1>14
<1>16. Layout(own, held, walk, mine)'
  BY <1>7, <1>11, <1>12, <1>13, <1>15 DEF Layout
<1> QED
  BY <1>16

LEMMA FreeNextLayout ==
  ASSUME Base, NEW own, NEW held, NEW loose, NEW old, Layout(own, held, loose, old), FreeNext
  PROVE  \E loose2, old2 : Layout(own, held, loose2, old2)'
<1>1. /\ pc = "free" /\ pc' = "free" /\ slot' = slot /\ req' = req /\ chain = {}
      /\ cursor \in Cluster /\ cursor' = fat[cursor]
      /\ fat' = [fat EXCEPT ![cursor] = FreeCluster]
      /\ root' = root /\ data' = data /\ chain' = chain /\ torn' = torn /\ failed' = failed
  BY DEF FreeNext, Base, TypeInv, TypeOK
<1>2. fat \in [Cluster -> {FreeCluster, Eoc} \cup Cluster]
  BY DEF Base, TypeInv, TypeOK
<1>3. \A s \in Slot : Settled(s)' <=> Settled(s)
  BY <1>1 DEF Settled
<1>4. cursor \in loose /\ loose \subseteq Cluster /\ old \subseteq loose
  BY <1>1, NoCluster DEF Layout, Closed
<1>5. \A x \in Cluster : fat'[x] = IF x = cursor THEN FreeCluster ELSE fat[x]
  BY <1>1, <1>2
<1>6. Free' = Free \cup {cursor}
  BY <1>1, <1>5 DEF Free
<1>7. Owns(own, held)'
  <2>1. \A s \in Slot : Settled(s)' => Settled(s) /\ root'[s] = root[s]
    BY <1>1, <1>3
  <2>2. \A x \in Cluster \ loose : fat'[x] = fat[x] /\ data'[x] = data[x]
    BY <1>1, <1>4, <1>5
  <2> QED
    BY <2>1, <2>2, KeepOwns
<1>8. Apart(own, loose)'
  BY <1>3, KeepApart
<1>9. Closed(loose)'
  <2>1. \A x \in loose : fat[x] \in loose \cup {FreeCluster, Eoc}
    BY DEF Layout, Closed
  <2>2. \A x \in loose : fat'[x] \in loose \cup {FreeCluster, Eoc}
    BY <1>4, <1>5, <2>1
  <2>3. cursor' \in loose \cup {FreeCluster, Eoc}
    BY <1>1, <1>4, <2>1
  <2>4. chain' \subseteq loose
    BY <1>1
  <2> QED
    BY <2>2, <2>3, <2>4 DEF Closed
<1>0. PICK rest : rest = old \ {cursor}
  OBVIOUS
<1>10. Accounted(own, rest)'
  <2> SUFFICES ASSUME ~failed PROVE Accounted(own, rest)'
    BY <1>1 DEF Accounted
  <2>1. /\ torn = (IF slot = 0 THEN {} ELSE {req.name}) /\ Linked(fat, old)
        /\ IF old = {} THEN cursor \in {FreeCluster, Eoc} ELSE cursor = Lowest(old)
        /\ \A x \in Cluster \ Free : x \in old \/ \E s \in Slot : Settled(s) /\ x \in own[s]
    BY <1>1 DEF Layout, Accounted
  <2>2. old # {} /\ cursor = Lowest(old)
    BY <1>1, <2>1, NoCluster
  <2>3. old \subseteq Nat /\ cursor \in old /\ \A y \in old : cursor <= y
    <3>1. old \subseteq Nat
      BY <1>4, ChainFits
    <3> QED
      BY <2>2, <3>1, LowestIsLowest
  <2>4. rest = Above(old, cursor)
    <3>1. ASSUME NEW y \in old PROVE y # cursor <=> y > cursor
      <4>1. y \in Nat /\ cursor \in Nat /\ cursor <= y
        BY <2>3
      <4> QED
        BY <4>1
    <3> QED
      BY <1>0, <3>1, Zenon DEF Above
  <2>5. ASSUME NEW x \in rest PROVE fat'[x] = After(rest, x)
    <3>1. Above(rest, x) = Above(old, x)
      <4>1. x \in Nat /\ cursor \in Nat /\ cursor < x
        BY <2>3, <2>4 DEF Above
      <4>2. ~(cursor > x)
        BY <4>1
      <4> QED
        BY <1>0, <4>2, Zenon DEF Above
    <3>2. fat'[x] = fat[x] /\ fat[x] = After(old, x)
      BY <1>0, <1>4, <1>5, <2>1 DEF Linked
    <3> QED
      BY <3>1, <3>2 DEF After
  <2>6. Linked(fat, rest)'
    BY <2>5 DEF Linked
  <2>7. IF rest = {} THEN cursor' \in {FreeCluster, Eoc} ELSE cursor' = Lowest(rest)
    BY <1>1, <2>1, <2>3, <2>4 DEF Linked, After
  <2>8. \A x \in Cluster \ Free' :
          x \in rest \cup chain' \/ \E s \in Slot : Settled(s)' /\ x \in own[s]
    BY <1>0, <1>1, <1>3, <1>6, <2>1
  <2> QED
    BY <1>1, <2>1, <2>6, <2>7, <2>8 DEF Accounted
<1>11. Layout(own, held, loose, rest)'
  BY <1>0, <1>4, <1>7, <1>8, <1>9, <1>10 DEF Layout
<1> QED
  BY <1>11

\* A refused transfer leaves the cluster as it is, and the walk goes on.
LEMMA FreeRefusedLayout ==
  ASSUME Base, NEW own, NEW held, NEW loose, NEW old, Layout(own, held, loose, old), FreeRefused
  PROVE  Layout(own, held, loose, old)'
<1>1. /\ cursor \in Cluster /\ cursor' = fat[cursor] /\ failed' = TRUE
      /\ fat' = fat /\ root' = root /\ data' = data /\ chain' = chain /\ torn' = torn
  BY DEF FreeRefused, disk
<1>2. \A s \in Slot : Settled(s)' <=> Settled(s)
  BY <1>1 DEF Settled
<1>3. Owns(own, held)'
  BY <1>1, <1>2, KeepOwns
<1>4. Apart(own, loose)'
  BY <1>2, KeepApart
<1>5. Closed(loose)'
  BY <1>1, NoCluster DEF Layout, Closed
<1>6. Accounted(own, old)'
  BY <1>1 DEF Accounted
<1> QED
  BY <1>3, <1>4, <1>5, <1>6 DEF Layout

\* The clusters not yet freed are none once the loop is over.
LEMMA OldGone ==
  ASSUME Base, NEW own, NEW held, NEW loose, NEW old, Layout(own, held, loose, old),
         pc = "free" => cursor \notin Cluster, ~failed
  PROVE  old = {} /\ cursor \in {FreeCluster, Eoc}
<1>1. /\ pc # "free" => old = {}
      /\ IF old = {} THEN cursor \in {FreeCluster, Eoc} ELSE cursor = Lowest(old)
  BY DEF Layout, Accounted
<1>2. old # {} => Lowest(old) \in Cluster
  BY LowestCluster DEF Layout
<1> QED
  BY <1>1, <1>2

\* The new chain takes free clusters, which no settled file has.
LEMMA AllocateLayout ==
  ASSUME Base, NEW own, NEW held, NEW loose, NEW old, Layout(own, held, loose, old), Allocate
  PROVE  \E loose2 : Layout(own, held, loose2, {})'
<1>1. /\ pc = "free" /\ cursor \notin Cluster /\ pc' = "link" /\ chain' \subseteq Free /\ chain = {}
      /\ fat' = fat /\ root' = root /\ data' = data /\ slot' = slot /\ cursor' = cursor /\ req' = req
      /\ torn' = torn /\ failed' = failed
  BY DEF Allocate, disk, Base, TypeInv, TypeOK
<1>2. Free' = Free /\ Free \subseteq Cluster /\ \A x \in Free : fat[x] = FreeCluster
  BY <1>1 DEF Free
<1>3. \A s \in Slot : Settled(s)' <=> Settled(s)
  BY <1>1 DEF Settled
<1>0. PICK loose2 : loose2 = loose \cup chain'
  OBVIOUS
<1>4. Owns(own, held)'
  BY <1>1, <1>3, KeepOwns
<1>5. Apart(own, loose2)'
  <2>1. ASSUME NEW s \in Slot, Settled(s)'
        PROVE  own[s] \cap loose2 = {}
    <3>1. own[s] \cap loose = {} /\ own[s] \cap Free = {}
      BY <1>3, <2>1, SettledVisits
    <3> QED
      BY <1>0, <1>1, <3>1
  <2>2. ASSUME NEW s \in Slot, NEW u \in Slot, Settled(s)', Settled(u)', s # u
        PROVE  own[s] \cap own[u] = {}
    BY <1>3, <2>2 DEF Layout, Apart
  <2> QED
    BY <2>1, <2>2 DEF Apart
<1>6. Closed(loose2)'
  BY <1>0, <1>1, <1>2 DEF Layout, Closed
<1>7. Accounted(own, {})'
  <2> SUFFICES ASSUME ~failed PROVE Accounted(own, {})'
    BY <1>1 DEF Accounted
  <2>1. old = {} /\ cursor \in {FreeCluster, Eoc}
    BY <1>1, OldGone
  <2>2. \A x \in Cluster \ Free : \E s \in Slot : Settled(s) /\ x \in own[s]
    BY <1>1, <2>1 DEF Layout, Accounted
  <2>3. \A x \in Cluster \ Free : \E s \in Slot : Settled(s)' /\ x \in own[s]
    BY <1>3, <2>2
  <2>4. torn = (IF slot = 0 THEN {} ELSE {req.name}) /\ Linked(fat, {})'
    BY DEF Layout, Accounted, Linked
  <2> QED
    BY <1>1, <1>2, <2>1, <2>3, <2>4 DEF Accounted
<1>8. loose2 \subseteq Cluster
  BY <1>0, <1>1, <1>2 DEF Layout
<1>9. Layout(own, held, loose2, {})'
  BY <1>4, <1>5, <1>6, <1>7, <1>8 DEF Layout
<1> QED
  BY <1>9

LEMMA LinkLayout ==
  ASSUME Base, NEW own, NEW held, NEW loose, NEW old, Layout(own, held, loose, old), Link
  PROVE  Layout(own, held, loose, {})'
<1> DEFINE c == Lowest(todo)
           v == IF todo \ {c} = {} THEN Eoc ELSE Lowest(todo \ {c})
<1>1. /\ pc = "link" /\ pc' # "free" /\ fat' = [fat EXCEPT ![c] = v]
      /\ root' = root /\ data' = data /\ slot' = slot /\ cursor' = cursor /\ chain' = chain
      /\ req' = req /\ torn' = torn /\ failed' = failed
  BY DEF Link, LinkNext
<1>2. todo # {} /\ todo \subseteq chain /\ chain \subseteq Cluster
      /\ fat \in [Cluster -> {FreeCluster, Eoc} \cup Cluster]
  BY <1>1 DEF Base, TypeInv, TypeOK
<1>3. chain \subseteq loose
  BY DEF Layout, Closed
<1>4. c \in todo /\ c \in chain /\ c \in Cluster /\ c \in loose
  BY <1>2, <1>3, LowestCluster
<1>5. v \in loose \cup {Eoc}
  <2>1. todo \ {c} # {} => Lowest(todo \ {c}) \in todo
    BY <1>2, LowestCluster
  <2> QED
    BY <1>2, <1>3, <2>1
<1> HIDE DEF c, v
<1>6. \A x \in Cluster : fat'[x] = IF x = c THEN v ELSE fat[x]
  BY <1>1, <1>2
<1>7. v # FreeCluster /\ loose \subseteq Cluster
  BY <1>5, NoCluster DEF Layout, Eoc, FreeCluster
<1>8. Free' = Free \ {c}
  BY <1>6, <1>7 DEF Free
<1>9. \A s \in Slot : Settled(s)' <=> Settled(s)
  BY <1>1 DEF Settled
<1>10. Owns(own, held)'
  <2>1. \A x \in Cluster \ loose : fat'[x] = fat[x] /\ data'[x] = data[x]
    BY <1>1, <1>4, <1>6
  <2> QED
    BY <1>1, <1>9, <2>1, KeepOwns
<1>11. Apart(own, loose)'
  BY <1>9, KeepApart
<1>12. Closed(loose)'
  <2>1. \A x \in loose : fat'[x] \in loose \cup {FreeCluster, Eoc}
    BY <1>5, <1>6, <1>7 DEF Layout, Closed
  <2> QED
    BY <1>1, <2>1 DEF Layout, Closed
<1>13. Accounted(own, {})'
  <2> SUFFICES ASSUME ~failed PROVE Accounted(own, {})'
    BY <1>1 DEF Accounted
  <2>1. old = {} /\ cursor \in {FreeCluster, Eoc}
    BY <1>1, OldGone
  <2>2. \A x \in Cluster \ Free : x \in chain \/ \E s \in Slot : Settled(s) /\ x \in own[s]
    BY <2>1 DEF Layout, Accounted
  <2>3. \A x \in Cluster \ Free' : x \in chain \/ \E s \in Slot : Settled(s)' /\ x \in own[s]
    BY <1>4, <1>8, <1>9, <2>2
  <2>4. torn = (IF slot = 0 THEN {} ELSE {req.name}) /\ Linked(fat, {})'
    BY DEF Layout, Accounted, Linked
  <2> QED
    BY <1>1, <2>1, <2>3, <2>4 DEF Accounted
<1> QED
  BY <1>10, <1>11, <1>12, <1>13 DEF Layout

LEMMA LinkRefusedLayout ==
  ASSUME Base, NEW own, NEW held, NEW loose, NEW old, Layout(own, held, loose, old), LinkRefused
  PROVE  Layout(own, held, loose, old)'
<1>1. /\ cursor' = cursor /\ failed' = TRUE
      /\ fat' = fat /\ root' = root /\ data' = data /\ chain' = chain /\ torn' = torn
  BY DEF LinkRefused, disk
<1>2. \A s \in Slot : Settled(s)' <=> Settled(s)
  BY <1>1 DEF Settled
<1>3. Owns(own, held)'
  BY <1>1, <1>2, KeepOwns
<1>4. Apart(own, loose)'
  BY <1>2, KeepApart
<1>5. Closed(loose)'
  BY <1>1 DEF Layout, Closed
<1>6. Accounted(own, old)'
  BY <1>1 DEF Accounted
<1> QED
  BY <1>3, <1>4, <1>5, <1>6 DEF Layout

LEMMA WriteDataLayout ==
  ASSUME Base, NEW own, NEW held, NEW loose, NEW old, Layout(own, held, loose, old), WriteData
  PROVE  Layout(own, held, loose, {})'
<1> DEFINE c == Lowest(todo)
<1>1. /\ pc = "data" /\ pc' # "free" /\ data' = [data EXCEPT ![c] = Block(c)]
      /\ root' = root /\ fat' = fat /\ slot' = slot /\ cursor' = cursor /\ chain' = chain
      /\ req' = req /\ torn' = torn /\ failed' = failed
  BY DEF WriteData
<1>2. todo # {} /\ todo \subseteq chain /\ chain \subseteq Cluster
      /\ data \in [Cluster -> Value \cup {Padding}]
  BY <1>1 DEF Base, TypeInv, TypeOK
<1>3. c \in loose
  <2>1. chain \subseteq loose
    BY DEF Layout, Closed
  <2> QED
    BY <1>2, <2>1, LowestCluster
<1> HIDE DEF c
<1>4. Free' = Free
  BY <1>1 DEF Free
<1>5. \A s \in Slot : Settled(s)' <=> Settled(s)
  BY <1>1 DEF Settled
<1>6. Owns(own, held)'
  <2>1. \A x \in Cluster \ loose : fat'[x] = fat[x] /\ data'[x] = data[x]
    BY <1>1, <1>2, <1>3
  <2> QED
    BY <1>1, <1>5, <2>1, KeepOwns
<1>7. Apart(own, loose)'
  BY <1>5, KeepApart
<1>8. Closed(loose)'
  BY <1>1 DEF Layout, Closed
<1>9. Accounted(own, {})'
  <2> SUFFICES ASSUME ~failed PROVE Accounted(own, {})'
    BY <1>1 DEF Accounted
  <2>1. old = {} /\ cursor \in {FreeCluster, Eoc}
    BY <1>1, OldGone
  <2>2. \A x \in Cluster \ Free : x \in chain \/ \E s \in Slot : Settled(s) /\ x \in own[s]
    BY <2>1 DEF Layout, Accounted
  <2>3. \A x \in Cluster \ Free' : x \in chain \/ \E s \in Slot : Settled(s)' /\ x \in own[s]
    BY <1>4, <1>5, <2>2
  <2>4. torn = (IF slot = 0 THEN {} ELSE {req.name}) /\ Linked(fat, {})'
    BY DEF Layout, Accounted, Linked
  <2> QED
    BY <1>1, <2>1, <2>3, <2>4 DEF Accounted
<1> QED
  BY <1>6, <1>7, <1>8, <1>9 DEF Layout

\* An operation that fails leaves the volume as it is.
LEMMA FailLayout ==
  ASSUME Base, NEW own, NEW held, NEW loose, NEW old, Layout(own, held, loose, old),
         LeftHalfDone, Drop
  PROVE  Layout(own, held, loose, old)'
<1>1. /\ fat' = fat /\ root' = root /\ data' = data /\ cursor' = 0 /\ chain' = {}
      /\ torn' = torn /\ failed' = TRUE
  BY DEF LeftHalfDone, Drop, disk
<1>2. \A s \in Slot : Settled(s)' <=> Settled(s)
  BY <1>1 DEF Settled
<1>3. Owns(own, held)'
  BY <1>1, <1>2, KeepOwns
<1>4. Apart(own, loose)'
  BY <1>2, KeepApart
<1>5. Closed(loose)'
  BY <1>1 DEF Layout, Closed, FreeCluster
<1>6. Accounted(own, old)'
  BY <1>1 DEF Accounted
<1> QED
  BY <1>3, <1>4, <1>5, <1>6 DEF Layout

\* An operation that succeeds settles or damages its own file, no other.
LEMMA OthersSettled ==
  ASSUME Base, pc \notin {"idle", "off"}, NEW t \in Slot, slot = t \/ (slot = 0 /\ root[t].mark # "file"),
         torn' \in {torn \ {req.name}, torn \cup {req.name}},
         \A s \in Slot \ {t} : root'[s] = root[s],
         NEW s \in Slot, s # t
  PROVE  Settled(s)' <=> Settled(s)
<1>1. root[s].mark = "file" => root[s].name # req.name
  BY DEF Base, DirectorySound, OpInv, TypeInv, TypeOK
<1> QED
  BY <1>1 DEF Settled

\* Unless something has failed the file an operation replaces is not settled.
LEMMA ReplacedTorn ==
  ASSUME Base, NEW own, NEW held, NEW loose, NEW old, Layout(own, held, loose, old), ~failed,
         pc \notin {"idle", "off"}, slot # 0
  PROVE  ~Settled(slot) /\ torn = {req.name}
BY DEF Layout, Accounted, Settled, Base, OpInv, TypeInv, TypeOK

LEMMA MarkDeletedLayout ==
  ASSUME Base, NEW own, NEW held, NEW loose, NEW old, Layout(own, held, loose, old), MarkDeleted
  PROVE  Layout(own, held, loose, {})'
<1>1. /\ pc = "free" /\ cursor \notin Cluster /\ pc' = "idle" /\ chain = {} /\ slot \in Slot /\ slot # 0
      /\ root' = [root EXCEPT ![slot] = DeletedMark]
      /\ torn' = torn \ {req.name}
      /\ fat' = fat /\ data' = data /\ slot' = 0 /\ cursor' = 0 /\ chain' = {} /\ failed' = failed
  BY DEF MarkDeleted, Over, Drop, Base, TypeInv, TypeOK, Marks
<1>2. \A s \in Slot : root'[s] = IF s = slot THEN DeletedMark ELSE root[s]
  BY <1>1 DEF Base, TypeInv, TypeOK
<1>3. \A s \in Slot \ {slot} : (Settled(s)' <=> Settled(s))
  BY <1>1, <1>2, OthersSettled
<1>4. ASSUME NEW s \in Slot, Settled(s)' PROVE s # slot
  BY <1>1, <1>2, <1>4 DEF Settled, DeletedMark
<1>5. \A s \in Slot : Settled(s)' => Settled(s) /\ s # slot
  BY <1>3, <1>4
<1>6. Free' = Free
  BY <1>1 DEF Free
<1>7. Owns(own, held)'
  <2>1. \A s \in Slot : Settled(s)' => Settled(s) /\ root'[s] = root[s]
    BY <1>2, <1>5
  <2> QED
    BY <1>1, <2>1, KeepOwns
<1>8. Apart(own, loose)'
  BY <1>5, KeepApart
<1>9. Closed(loose)'
  BY <1>1 DEF Layout, Closed, FreeCluster
<1>10. Accounted(own, {})'
  <2> SUFFICES ASSUME ~failed PROVE Accounted(own, {})'
    BY <1>1 DEF Accounted
  <2>1. old = {}
    BY <1>1, OldGone
  <2>2. ~Settled(slot) /\ torn = {req.name}
    BY <1>1, ReplacedTorn
  <2>3. \A x \in Cluster \ Free : \E s \in Slot : Settled(s) /\ x \in own[s]
    BY <1>1, <2>1 DEF Layout, Accounted
  <2>4. \A x \in Cluster \ Free : \E s \in Slot : Settled(s)' /\ x \in own[s]
    BY <1>3, <2>2, <2>3
  <2>5. torn' = {}
    BY <1>1, <2>2
  <2> QED
    BY <1>1, <1>6, <2>4, <2>5 DEF Accounted, Linked, FreeCluster
<1> QED
  BY <1>7, <1>8, <1>9, <1>10 DEF Layout

\* The slot the entry goes to is the file's, or it is not a file's.
LEMMA TargetSlot ==
  ASSUME Base, WriteEntry
  PROVE  Target \in Slot /\ (slot = Target \/ (slot = 0 /\ root[Target].mark # "file"))
BY FreeSlotFinds DEF WriteEntry, Target, Base, TypeInv, TypeOK

\* A chain without a refused link is linked.
LEMMA ChainLinked ==
  ASSUME Base, pc = "entry", Unlinked = {}
  PROVE  Linked(fat, chain)
<1>1. ASSUME NEW x \in chain PROVE fat[x] = After(chain, x)
  <2>1. fat[x] \in {After(chain, x), FreeCluster} /\ x \in Cluster
    BY DEF Base, Phase, Joined, TypeInv, TypeOK
  <2>2. fat[x] # FreeCluster
    BY <2>1 DEF Unlinked
  <2> QED
    BY <2>1, <2>2
<1> QED
  BY <1>1 DEF Linked

\* With the entry the chain becomes the file's, and no cluster is loose.  If a
\* link was refused the file is damaged.
LEMMA WriteEntryLayout ==
  ASSUME Base, NEW own, NEW held, NEW loose, NEW old, Layout(own, held, loose, old), WriteEntry,
         NEW t, t = Target, NEW S, S = chain, NEW w, w = req.want
  PROVE  Layout([own EXCEPT ![t] = S], [held EXCEPT ![t] = w], {}, {})'
<1> DEFINE own2 == [own EXCEPT ![t] = S]
           held2 == [held EXCEPT ![t] = w]
           e == [mark |-> "file", name |-> req.name, first |-> Lowest(S), size |-> Len(w)]
<1>2. /\ pc = "entry" /\ pc' = "idle" /\ root' = [root EXCEPT ![t] = e]
      /\ torn' = IF Unlinked = {} THEN torn \ {req.name} ELSE torn \cup {req.name}
      /\ fat' = fat /\ data' = data /\ slot' = 0 /\ cursor' = 0 /\ chain' = {} /\ failed' = failed
  BY DEF WriteEntry, Over, Drop
<1>3. t \in Slot /\ (slot = t \/ (slot = 0 /\ root[t].mark # "file"))
  BY TargetSlot
<1>4. w \in Content /\ S \subseteq Cluster /\ S # {} /\ todo = {}
  BY <1>2 DEF Base, TypeInv, TypeOK, Working
<1>5. own \in [Slot -> SUBSET Cluster] /\ held \in [Slot -> Content \cup {<< >>}]
  BY DEF Layout
<1>6. /\ \A s \in Slot : own2[s] = IF s = t THEN S ELSE own[s]
      /\ \A s \in Slot : held2[s] = IF s = t THEN w ELSE held[s]
      /\ own2 \in [Slot -> SUBSET Cluster] /\ held2 \in [Slot -> Content \cup {<< >>}]
  BY <1>3, <1>4, <1>5
<1>7. \A s \in Slot : root'[s] = IF s = t THEN e ELSE root[s]
  BY <1>2, <1>3 DEF Base, TypeInv, TypeOK
<1> HIDE DEF own2, held2
<1>8. \A s \in Slot \ {t} : (Settled(s)' <=> Settled(s))
  BY <1>2, <1>3, <1>7, OthersSettled
<1>9. Settled(t)' <=> Unlinked = {}
  BY <1>2, <1>3, <1>7 DEF Settled
<1>11. /\ Holds(data, S, w) /\ Cardinality(S) = Needed(Len(w))
       /\ Unlinked = {} => Linked(fat, S)
  BY <1>2, <1>4, ChainLinked DEF Base, Phase, Holds
<1>12. Owns(own2, held2)'
  <2>1. ASSUME Unlinked = {} PROVE Stored(t, own2[t], held2[t])'
    <3>1. own2[t] = S /\ held2[t] = w /\ root'[t] = e
      BY <1>3, <1>6, <1>7
    <3>2. Linked(fat, S)' /\ Holds(data, S, w)'
      BY <1>2, <1>11, <2>1 DEF Linked, Holds
    <3> QED
      BY <1>4, <1>11, <3>1, <3>2 DEF Stored
  <2>2. ASSUME NEW s \in Slot, s # t, Settled(s)' PROVE Stored(s, own2[s], held2[s])'
    <3>1. Stored(s, own[s], held[s])
      BY <1>8, <2>2 DEF Layout, Owns
    <3>2. root'[s] = root[s] /\ own2[s] = own[s] /\ held2[s] = held[s]
      BY <1>6, <1>7, <2>2
    <3>3. Stored(s, own[s], held[s])'
      BY <1>2, <3>1, <3>2, KeepStored
    <3> QED
      BY <3>2, <3>3
  <2> QED
    BY <1>9, <2>1, <2>2 DEF Owns
<1>13. S \subseteq loose /\ loose \subseteq Cluster
  BY DEF Layout, Closed
<1>14. Apart(own2, {})'
  <2>2. \A s \in Slot \ {t} : Settled(s) => own[s] \cap loose = {}
    BY DEF Layout, Apart
  <2>3. \A s, u \in Slot \ {t} : Settled(s) /\ Settled(u) /\ s # u => own[s] \cap own[u] = {}
    BY DEF Layout, Apart
  <2>5. ASSUME NEW s \in Slot, NEW u \in Slot, Settled(s)', Settled(u)', s # u
        PROVE  own2[s] \cap own2[u] = {}
    <3>1. CASE s = t
      BY <1>6, <1>8, <1>13, <2>2, <2>5, <3>1
    <3>2. CASE u = t
      BY <1>6, <1>8, <1>13, <2>2, <2>5, <3>2
    <3>3. CASE s # t /\ u # t
      BY <1>6, <1>8, <2>3, <2>5, <3>3
    <3> QED
      BY <3>1, <3>2, <3>3
  <2> QED
    BY <2>5 DEF Apart
<1>16. Closed({})'
  BY <1>2 DEF Closed, FreeCluster
<1>17. Accounted(own2, {})'
  <2> SUFFICES ASSUME ~failed PROVE Accounted(own2, {})'
    BY <1>2 DEF Accounted
  <2>1. old = {} /\ Unlinked = {}
    BY <1>2, OldGone DEF Base, Phase
  <2>2. \A x \in Cluster \ Free : x \in S \/ \E s \in Slot : Settled(s) /\ x \in own[s]
    BY <2>1 DEF Layout, Accounted
  <2>3. torn' = {} /\ ~Settled(t)
    <3>1. CASE slot = 0
      <4>1. torn = {} /\ ~Settled(t)
        BY <1>3, <3>1 DEF Layout, Accounted, Settled, Slot
      <4> QED
        BY <1>2, <2>1, <4>1
    <3>2. CASE slot # 0
      <4>1. ~Settled(slot) /\ torn = {req.name}
        BY <1>2, <3>2, ReplacedTorn
      <4> QED
        BY <1>2, <1>3, <2>1, <3>2, <4>1
    <3> QED
      BY <3>1, <3>2
  <2>4. \A x \in Cluster \ Free' : \E s \in Slot : Settled(s)' /\ x \in own2[s]
    <3>0. Free' = Free
      BY <1>2 DEF Free
    <3>1. ASSUME NEW x \in Cluster \ Free PROVE \E s \in Slot : Settled(s)' /\ x \in own2[s]
      <4>1. CASE x \in S
        BY <1>3, <1>6, <1>9, <2>1, <4>1
      <4>2. ASSUME NEW s \in Slot, Settled(s), x \in own[s]
            PROVE  Settled(s)' /\ x \in own2[s]
        BY <1>6, <1>8, <2>3, <4>2
      <4> QED
        BY <2>2, <4>1, <4>2
    <3> QED
      BY <3>0, <3>1
  <2> QED
    BY <1>2, <2>3, <2>4 DEF Accounted, Linked, FreeCluster
<1>19. Layout(own2, held2, {}, {})'
  BY <1>6, <1>12, <1>14, <1>16, <1>17 DEF Layout
<1> QED
  BY <1>19 DEF own2, held2


\* The invariant holds at first and every step keeps it.
LEMMA InitBase == Init => Base
<1> SUFFICES ASSUME Init PROVE Base
  OBVIOUS
<1>1. TypeInv
  BY InitType
<1>2. DirectorySound /\ OpInv
  BY DEF Init, DirectorySound, OpInv, EndMark
<1>3. Phase
  BY DEF Init, Phase, Unlinked
<1>4. Rising
  BY NoCluster DEF Init, Rising
<1> QED
  BY <1>1, <1>2, <1>3, <1>4 DEF Base

LEMMA InitLayout == Init => \E own, held, loose, old : Layout(own, held, loose, old)
<1> SUFFICES ASSUME Init PROVE \E own, held, loose, old : Layout(own, held, loose, old)
  OBVIOUS
<1> DEFINE own == [s \in Slot |-> {}]
           held == [s \in Slot |-> << >>]
<1>1. \A s \in Slot : root[s].mark # "file"
  BY DEF Init, EndMark
<1>2. Owns(own, held) /\ Apart(own, {})
  BY <1>1 DEF Owns, Apart, Settled
<1>3. Closed({})
  BY DEF Closed, Init, FreeCluster
<1>4. Accounted(own, {})
  <2>1. Free = Cluster
    BY DEF Free, Init
  <2> QED
    BY <2>1 DEF Accounted, Init, Linked, FreeCluster
<1>5. own \in [Slot -> SUBSET Cluster] /\ held \in [Slot -> Content \cup {<< >>}]
  OBVIOUS
<1>6. Layout(own, held, {}, {})
  BY <1>2, <1>3, <1>4, <1>5 DEF Layout
<1> QED
  BY <1>6

\* The FAT leads upwards still: a chain is linked in increasing order.
LEMMA NextRising ==
  ASSUME Base, [Next]_vars
  PROVE  Rising'
<1>1. CASE FreeNext
  <2>1. \A x \in Cluster : fat'[x] \in {FreeCluster, fat[x]}
    BY <1>1 DEF FreeNext, Base, TypeInv, TypeOK
  <2> QED
    BY <2>1, NoCluster DEF Base, Rising
<1>2. CASE Link
  <2> DEFINE c == Lowest(todo)
             v == IF todo \ {c} = {} THEN Eoc ELSE Lowest(todo \ {c})
  <2>1. fat' = [fat EXCEPT ![c] = v]
    BY <1>2 DEF Link
  <2>2. todo # {} /\ todo \subseteq Cluster /\ todo \subseteq Nat
    BY <1>2 DEF Link, Base, TypeInv, TypeOK, Cluster
  <2>3. c \in todo /\ \A y \in todo : c <= y
    BY <2>2, LowestIsLowest
  <2>4. todo \ {c} # {} => Lowest(todo \ {c}) \in todo \ {c}
    BY <2>2, LowestCluster
  <2> HIDE DEF c
  <2>5. v \in Cluster => c < v
    <3> SUFFICES ASSUME v \in Cluster PROVE c < v
      OBVIOUS
    <3>1. v \in todo /\ v # c
      BY <2>4, NoCluster
    <3>2. v \in Nat /\ c \in Nat /\ c <= v
      BY <2>2, <2>3, <3>1
    <3> QED
      BY <3>1, <3>2
  <2> HIDE DEF v
  <2>6. \A x \in Cluster : fat'[x] = IF x = c THEN v ELSE fat[x]
    BY <2>1, <2>2, <2>3 DEF Base, TypeInv, TypeOK
  <2> QED
    BY <2>5, <2>6 DEF Base, Rising
<1>3. CASE ~FreeNext /\ ~Link
  <2>1. fat' = fat
    BY <1>3 DEF Next, Step, Begin, FreeRefused, Allocate, LinkRefused, WriteData, WriteEntry,
                MarkDeleted, DiskFull, RootFull, Refused, PowerLoss, Mount, LeftHalfDone, disk, vars
  <2> QED
    BY <2>1 DEF Base, Rising
<1> QED
  BY <1>1, <1>2, <1>3

\* The chain has as many clusters as the content needs.
LEMMA AllocatePhase ==
  ASSUME Base, Allocate
  PROVE  Phase'
<1> DEFINE k == Needed(Len(req.want))
<1>1. req.want \in Content /\ pc = "free"
  BY DEF Allocate, Base, TypeInv, TypeOK, NoReq
<1>2. k \in Nat
  BY <1>1, ContentType, NeededPositive
<1>3. Free \subseteq Cluster
  BY DEF Free
<1>4. Free \subseteq Nat /\ IsFiniteSet(Free) /\ Cardinality(Free) \in Nat
  BY <1>3, ChainFits, ClustersFinite
<1>5. k \in 0 .. Cardinality(Free)
  BY <1>2, <1>4 DEF Allocate, Enough
<1>6. chain' = { c \in Free : Cardinality(Below(Free, c)) < k }
  BY DEF Allocate, Below
<1> HIDE DEF k
<1>7. Cardinality(chain') = k
  BY <1>4, <1>5, <1>6, FirstFew
<1>8. pc' = "link" /\ todo' = chain' /\ req' = req
  BY DEF Allocate
<1>9. Unlinked' = {}
  BY <1>8 DEF Unlinked
<1>10. \A x \in todo' : fat'[x] = FreeCluster
  BY <1>6, <1>8 DEF Allocate, disk, Free
<1> QED
  BY <1>7, <1>8, <1>9, <1>10 DEF Phase, k

LEMMA LinkPhase ==
  ASSUME Base, Link \/ LinkRefused
  PROVE  Phase' /\ Unlinked \subseteq Unlinked' /\ (Link => Unlinked' = Unlinked)
<1> DEFINE c == Lowest(todo)
           rest == todo \ {c}
<1>1. /\ pc = "link" /\ chain' = chain /\ req' = req
      /\ \/ Link /\ failed' = failed /\ fat' = [fat EXCEPT ![c] = IF rest = {} THEN Eoc ELSE Lowest(rest)]
         \/ ~Link /\ failed' = TRUE /\ fat' = fat
      /\ todo' = IF rest = {} THEN chain ELSE rest
      /\ pc' = IF rest = {} THEN "data" ELSE "link"
  BY DEF Link, LinkRefused, LinkNext, disk
<1>2. /\ todo # {} /\ todo \subseteq chain /\ chain \subseteq Cluster
      /\ fat \in [Cluster -> {FreeCluster, Eoc} \cup Cluster]
  BY <1>1 DEF Base, TypeInv, TypeOK
<1>3. todo \subseteq Nat /\ chain \subseteq Nat
  BY <1>2 DEF Cluster
<1>4. c \in todo /\ \A y \in todo : c <= y
  BY <1>2, <1>3, LowestIsLowest
<1>5. /\ \A x \in chain \ todo : Joined(x) /\ \A y \in todo : x < y
      /\ \A x \in todo : fat[x] = FreeCluster
  BY <1>1 DEF Base, Phase
<1>a. rest # {} => Lowest(rest) \in Cluster
  BY <1>2, LowestCluster
<1> HIDE DEF c
<1>6. /\ \A x \in chain : x # c => fat'[x] = fat[x]
      /\ Link => fat'[c] = (IF rest = {} THEN Eoc ELSE Lowest(rest)) /\ fat'[c] # FreeCluster
      /\ ~Link => fat'[c] = fat[c]
  <2>1. c \in Cluster
    BY <1>2, <1>4
  <2> QED
    BY <1>1, <1>2, <1>a, <2>1, NoCluster DEF Eoc, FreeCluster
<1>7. \A y \in rest : c < y
  <2>1. ASSUME NEW y \in rest PROVE c < y
    <3>1. y \in Nat /\ c \in Nat /\ c <= y /\ y # c
      BY <1>3, <1>4
    <3> QED
      BY <3>1
  <2> QED
    BY <2>1
<1>8. Above(chain, c) = rest
  <2>1. ASSUME NEW y \in chain PROVE y > c <=> y \in rest
    <3>1. y \in Nat /\ c \in Nat
      BY <1>3, <1>4
    <3>2. CASE y \in rest
      <4>1. c < y
        BY <1>7, <3>2
      <4> QED
        BY <3>1, <3>2, <4>1
    <3>3. CASE y = c
      BY <3>1, <3>3
    <3>4. CASE y \notin todo
      <4>1. y < c
        BY <1>4, <1>5, <3>4
      <4> QED
        BY <3>1, <3>4, <4>1
    <3> QED
      BY <3>2, <3>3, <3>4
  <2> QED
    BY <1>2, <2>1, Zenon DEF Above
<1>9. \A x \in chain \ rest : Joined(x)'
  <2>1. ASSUME NEW x \in chain, x = c PROVE fat'[x] \in {After(chain, x), FreeCluster}
    BY <1>4, <1>5, <1>6, <1>8, <2>1 DEF After
  <2>2. ASSUME NEW x \in chain, x \notin todo PROVE fat'[x] \in {After(chain, x), FreeCluster}
    BY <1>4, <1>5, <1>6, <2>2 DEF Joined
  <2> QED
    BY <1>1, <2>1, <2>2 DEF Joined
<1>10. \A x \in chain \ rest : \A y \in rest : x < y
  BY <1>5, <1>7
<1>11. Cardinality(chain) = Needed(Len(req.want))
  BY <1>1 DEF Base, Phase
<1>12. /\ Unlinked = { x \in chain \ todo : fat[x] = FreeCluster }
       /\ Unlinked' = { x \in chain \ rest : fat'[x] = FreeCluster }
  BY <1>1 DEF Unlinked
<1>13. Unlinked \subseteq Unlinked' /\ (Link => Unlinked' = Unlinked)
  BY <1>4, <1>6, <1>12
<1>14. ~failed' => Unlinked' = {}
  BY <1>1, <1>13 DEF Base, Phase
<1>b. \A x \in rest : fat'[x] = FreeCluster
  BY <1>2, <1>5, <1>6
<1> HIDE DEF rest
<1>15. ASSUME rest = {} PROVE Phase'
  <2>1. pc' = "data" /\ todo' = chain' /\ (\A x \in chain' : Joined(x)')
    BY <1>1, <1>9, <1>15
  <2> QED
    BY <1>1, <1>11, <1>14, <2>1 DEF Phase
<1>16. ASSUME rest # {} PROVE Phase'
  <2>1. pc' = "link" /\ todo' = rest /\ chain' = chain
    BY <1>1, <1>16
  <2> QED
    BY <1>1, <1>9, <1>10, <1>11, <1>14, <1>b, <2>1 DEF Phase
<1> QED
  BY <1>13, <1>15, <1>16

LEMMA WriteDataPhase ==
  ASSUME Base, WriteData
  PROVE  Phase'
<1> DEFINE c == Lowest(todo)
<1>1. /\ pc = "data" /\ pc' \in {"data", "entry"} /\ chain' = chain /\ req' = req /\ fat' = fat
      /\ data' = [data EXCEPT ![c] = Block(c)] /\ todo' = todo \ {c}
  BY DEF WriteData
<1>2. /\ todo # {} /\ todo \subseteq chain /\ chain \subseteq Cluster
      /\ data \in [Cluster -> Value \cup {Padding}]
  BY <1>1 DEF Base, TypeInv, TypeOK
<1>3. (\A x \in chain : Joined(x)) /\ Cardinality(chain) = Needed(Len(req.want))
      /\ \A x \in chain \ todo : data[x] = Word(req.want, Rank(chain, x))
  BY <1>1 DEF Base, Phase
<1>4. Block(c) = Word(req.want, Rank(chain, c))
  BY DEF Block, Word, Rank
<1> HIDE DEF c
<1>5. \A x \in chain \ (todo \ {c}) : data'[x] = Word(req.want, Rank(chain, x))
  BY <1>1, <1>2, <1>3, <1>4
<1>6. \A x \in chain' : Joined(x)'
  BY <1>1, <1>3 DEF Joined
<1>7. ~failed' => Unlinked' = {}
  BY <1>1 DEF WriteData, Base, Phase, Unlinked
<1> QED
  BY <1>1, <1>3, <1>5, <1>6, <1>7 DEF Phase

LEMMA NextPhase ==
  ASSUME Base, [Next]_vars
  PROVE  Phase'
<1>1. CASE (\E n \in Name, want \in Content \cup {Absent} : Begin(n, want)) \/ FreeNext \/ FreeRefused
  <2>1. pc' = "free" /\ chain' = {}
    BY <1>1 DEF Begin, FreeNext, FreeRefused, Base, TypeInv, TypeOK
  <2> QED
    BY <2>1 DEF Phase, Unlinked
<1>3. CASE WriteEntry \/ MarkDeleted \/ DiskFull \/ RootFull \/ Refused \/ PowerLoss
  <2>1. pc' \in {"idle", "off"} /\ Drop
    BY <1>3 DEF WriteEntry, MarkDeleted, DiskFull, RootFull, Refused, PowerLoss, Over
  <2> QED
    BY <2>1 DEF Phase, Drop, Unlinked
<1>4. CASE Mount
  <2>1. pc = "off" /\ pc' = "idle" /\ slot' = slot /\ cursor' = cursor /\ chain' = {}
    BY <1>4 DEF Mount, Base, TypeInv, TypeOK
  <2> QED
    BY <2>1 DEF Base, Phase, Unlinked
<1>5. CASE UNCHANGED vars
  BY <1>5 DEF vars, disk, opVars, Base, Phase, Joined, Unlinked
<1> QED
  BY <1>1, <1>3, <1>4, <1>5, AllocatePhase, LinkPhase, WriteDataPhase DEF Next, Step

LEMMA NextBase ==
  ASSUME Base, [Next]_vars
  PROVE  Base'
<1>1. TypeInv /\ DirectorySound /\ OpInv
  BY DEF Base
<1> QED
  BY <1>1, NextType, NextDirectory, NextPhase, NextRising DEF Base

LEMMA MountLayout ==
  ASSUME Base, NEW own, NEW held, NEW loose, NEW old, Layout(own, held, loose, old),
         Mount \/ UNCHANGED vars
  PROVE  Layout(own, held, loose, old)'
<1>1. /\ fat' = fat /\ root' = root /\ data' = data /\ slot' = slot /\ cursor' = cursor
      /\ req' = req /\ chain' = chain /\ torn' = torn /\ failed' = failed
      /\ (pc' # "free" <=> pc # "free")
  BY DEF Mount, vars, disk, opVars
<1>2. Free' = Free
  BY <1>1 DEF Free
<1>3. \A s \in Slot : Settled(s)' <=> Settled(s)
  BY <1>1 DEF Settled
<1>4. Owns(own, held)'
  BY <1>1, <1>3, KeepOwns
<1>5. Apart(own, loose)'
  BY <1>3, KeepApart
<1>6. Closed(loose)'
  BY <1>1 DEF Layout, Closed
<1>7. Accounted(own, old)'
  BY <1>1, <1>2, <1>3 DEF Layout, Accounted, Linked
<1> QED
  BY <1>4, <1>5, <1>6, <1>7 DEF Layout

LEMMA FailureLayout ==
  ASSUME Base, NEW own, NEW held, NEW loose, NEW old, Layout(own, held, loose, old),
         DiskFull \/ RootFull \/ Refused \/ PowerLoss
  PROVE  Layout(own, held, loose, old)' /\ LeftHalfDone /\ Drop /\ pc \notin {"idle", "off"}
<1>1. LeftHalfDone /\ Drop /\ pc \notin {"idle", "off"}
  BY DEF DiskFull, RootFull, Refused, PowerLoss, Over
<1> QED
  BY <1>1, FailLayout

\* Only the directory entry gives a file other clusters or another content.
LEMMA NextLayout ==
  ASSUME Base, NEW own, NEW held, NEW loose, NEW old, Layout(own, held, loose, old),
         [Next]_vars, ~WriteEntry
  PROVE  \E loose2, old2 : Layout(own, held, loose2, old2)'
<1>1. ASSUME NEW n \in Name, NEW want \in Content \cup {Absent}, Begin(n, want)
      PROVE  \E loose2, old2 : Layout(own, held, loose2, old2)'
  BY <1>1, BeginLayout
<1>2. CASE FreeNext \/ FreeRefused
  BY <1>2, FreeNextLayout, FreeRefusedLayout
<1>3. CASE Allocate
  BY <1>3, AllocateLayout
<1>4. CASE Link \/ LinkRefused
  BY <1>4, LinkLayout, LinkRefusedLayout
<1>5. CASE WriteData
  BY <1>5, WriteDataLayout
<1>6. CASE MarkDeleted
  BY <1>6, MarkDeletedLayout
<1>7. CASE DiskFull \/ RootFull \/ Refused \/ PowerLoss
  BY <1>7, FailureLayout
<1>8. CASE Mount \/ UNCHANGED vars
  BY <1>8, MountLayout
<1> QED
  BY <1>1, <1>2, <1>3, <1>4, <1>5, <1>6, <1>7, <1>8 DEF Next, Step

\* The inductive invariant.
FatInv == Base /\ \E own, held, loose, old : Layout(own, held, loose, old)

LEMMA NextInv == ASSUME FatInv, [Next]_vars PROVE FatInv'
<1>1. Base /\ Base'
  BY NextBase DEF FatInv
<1>2. PICK own, held, loose, old : Layout(own, held, loose, old)
  BY DEF FatInv
<1>3. CASE WriteEntry
  <2>1. \E t, S, w : t = Target /\ S = chain /\ w = req.want
    OBVIOUS
  <2>2. PICK t, S, w : t = Target /\ S = chain /\ w = req.want
    BY <2>1
  <2>3. Layout([own EXCEPT ![t] = S], [held EXCEPT ![t] = w], {}, {})'
    BY <1>1, <1>2, <1>3, <2>2, WriteEntryLayout
  <2> QED
    BY <1>1, <2>3 DEF FatInv
<1>4. CASE ~WriteEntry
  <2>1. \E loose2, old2 : Layout(own, held, loose2, old2)'
    BY <1>1, <1>2, <1>4, NextLayout
  <2> QED
    BY <1>1, <2>1 DEF FatInv
<1> QED
  BY <1>3, <1>4

-----------------------------------------------------------------------------
(* The volume *)

\* So fsck finds nothing to report of the settled files.
LEMMA FsckHolds == FatInv => Fsck
<1> SUFFICES ASSUME FatInv, pc = "idle"
             PROVE  /\ \A n, m \in Name \ torn : n # m => Reach(n) \cap Reach(m) = {}
                    /\ \A n \in Name \ torn :
                         Find(n) # 0 =>
                           /\ Cardinality(Reach(n)) = Needed(root[Find(n)].size)
                           /\ Follow(root[Find(n)].first)[Needed(root[Find(n)].size)] = Eoc
                    /\ ~failed => torn = {} /\ Cluster \ Free = UNION { Reach(n) : n \in Name }
  BY DEF Fsck
<1>1. Base /\ TypeInv /\ DirectorySound /\ slot = 0 /\ chain = {}
  BY DEF FatInv, Base, Phase, TypeInv, TypeOK
<1>2. PICK own, held, loose, old : Layout(own, held, loose, old)
  BY DEF FatInv
<1>3. ASSUME NEW n \in Name \ torn, Find(n) # 0
      PROVE  /\ Find(n) \in Slot /\ root[Find(n)].mark = "file" /\ root[Find(n)].name = n
             /\ Settled(Find(n)) /\ Reach(n) = own[Find(n)]
             /\ own[Find(n)] \subseteq Cluster /\ own[Find(n)] \cap Free = {}
             /\ Stored(Find(n), own[Find(n)], held[Find(n)])
  <2>1. PICK s \in Slot : s = Find(n) /\ root[s].mark = "file" /\ root[s].name = n
    BY <1>1, <1>3, FindIs DEF FindFact
  <2>2. Settled(s)
    BY <2>1 DEF Settled
  <2>3. Reach(n) = Visited(root[s].first)
    BY <1>1, <1>3, <2>1, ReachIs
  <2> QED
    BY <1>2, <2>1, <2>2, <2>3, SettledVisits
<1>4. ASSUME NEW n \in Name \ torn, NEW m \in Name \ torn, n # m
      PROVE  Reach(n) \cap Reach(m) = {}
  <2>1. CASE Find(n) = 0 \/ Find(m) = 0
    BY <1>1, <2>1, ReachIs
  <2>2. CASE Find(n) # 0 /\ Find(m) # 0
    BY <1>2, <1>3, <1>4, <2>2 DEF Layout, Apart
  <2> QED
    BY <2>1, <2>2
<1>7. ASSUME NEW n \in Name \ torn, Find(n) # 0
      PROVE  /\ Cardinality(Reach(n)) = Needed(root[Find(n)].size)
             /\ Follow(root[Find(n)].first)[Needed(root[Find(n)].size)] = Eoc
  <2>1. PICK s \in Slot : s = Find(n)
    BY <1>3, <1>7
  <2>3. own[s] \subseteq Cluster /\ Stored(s, own[s], held[s]) /\ Reach(n) = own[s]
    BY <1>3, <1>7, <2>1
  <2>4. /\ own[s] # {} /\ Linked(fat, own[s]) /\ root[s].first = Lowest(own[s])
        /\ Cardinality(own[s]) = Needed(root[s].size)
    BY <2>3 DEF Stored
  <2>5. PICK k \in 0 .. LastCluster : k = Cardinality(own[s])
    BY <2>3, ChainFits
  <2>6. ~(k < Cardinality(own[s]))
    BY <2>5
  <2>7. Follow(Lowest(own[s]))[k] = Eoc
    BY <2>3, <2>4, <2>6, WalkChain
  <2> QED
    BY <2>1, <2>3, <2>4, <2>5, <2>7
<1>8. ASSUME ~failed PROVE torn = {} /\ Cluster \ Free = UNION { Reach(n) : n \in Name }
  <2>1. /\ torn = {} /\ old = {}
        /\ \A x \in Cluster \ Free : \E s \in Slot : Settled(s) /\ x \in own[s]
    BY <1>1, <1>2, <1>8 DEF Layout, Accounted
  <2>2. ASSUME NEW s \in Slot, Settled(s)
        PROVE  root[s].name \in Name /\ Reach(root[s].name) = own[s]
    <3>1. root[s].mark = "file"
      BY <2>2 DEF Settled
    <3>2. root[s].name \in Name
      BY <1>1, <3>1 DEF TypeInv, TypeOK, Entry, EndMark, DeletedMark
    <3>3. Find(root[s].name) = s /\ s # 0
      BY <1>1, <3>1, FindIs DEF FindFact, Slot
    <3> QED
      BY <1>3, <2>1, <3>2, <3>3
  <2>3. ASSUME NEW x \in Cluster \ Free PROVE \E n \in Name : x \in Reach(n)
    BY <2>1, <2>2, <2>3
  <2>4. ASSUME NEW n \in Name, NEW x \in Reach(n) PROVE x \in Cluster \ Free
    <3>1. Find(n) # 0
      BY <1>1, <2>4, ReachIs
    <3> QED
      BY <1>3, <2>1, <2>4, <3>1
  <2> QED
    BY <2>1, <2>3, <2>4
<1> QED
  BY <1>4, <1>7, <1>8

\* Whatever operations, refused transfers and power losses there are, fsck finds
\* every file sound that none of them has damaged, and as long as nothing has
\* failed the whole volume: for names, contents, directories and volumes of any
\* size.
THEOREM VolumeStaysSound == Spec => []Fsck
<1>1. Init => FatInv
  BY InitBase, InitLayout DEF FatInv
<1>2. FatInv /\ [Next]_vars => FatInv'
  BY NextInv
<1> QED
  BY <1>1, <1>2, FsckHolds, PTL DEF Spec

-----------------------------------------------------------------------------
(* Refinement *)

\* A file that is not damaged reads as its content.
ReadableFact ==
  \A own, held, loose, old :
    Base /\ Layout(own, held, loose, old) =>
      \A m \in Name :
        Readable(m) = IF m \in torn THEN Unknown
                      ELSE IF Find(m) = 0 THEN Absent ELSE held[Find(m)]

LEMMA ReadableIs == ReadableFact
<1> SUFFICES ASSUME NEW own, NEW held, NEW loose, NEW old, Base, Layout(own, held, loose, old),
                    NEW m \in Name, m \notin torn, Find(m) # 0
             PROVE  Visible(m) = held[Find(m)]
  BY DEF ReadableFact, Readable, Visible
<1>1. PICK s \in Slot : s = Find(m) /\ root[s].mark = "file" /\ root[s].name = m
  BY FindIs DEF FindFact, Base
<1>3. Settled(s)
  BY <1>1 DEF Settled
<1>4. own[s] \subseteq Cluster /\ Stored(s, own[s], held[s])
  BY <1>3, SettledVisits
<1>5. /\ held[s] \in Content /\ own[s] # {} /\ Linked(fat, own[s]) /\ Holds(data, own[s], held[s])
      /\ Cardinality(own[s]) = Needed(Len(held[s]))
      /\ root[s].first = Lowest(own[s]) /\ root[s].size = Len(held[s])
  BY <1>4 DEF Stored
<1> DEFINE at == Follow(Lowest(own[s]))
<1>6. [ i \in 1 .. Len(held[s]) |->
          IF at[i - 1] \in Cluster THEN data[at[i - 1]] ELSE Padding ] = held[s]
  BY <1>4, <1>5, ReadBack
<1> QED
  BY <1>1, <1>5, <1>6 DEF Visible

\* In the state after a step, too.
LEMMA ReadableNext == ReadableFact'
BY ReadableIs, PTL

LEMMA FindNext == FindFact'
BY FindIs, PTL

\* Only a step that writes the directory changes what files are found.
LEMMA SameFiles ==
  ASSUME Base, Base', NEW own, NEW held, NEW loose, NEW old, NEW loose2, NEW old2,
         Layout(own, held, loose, old), Layout(own, held, loose2, old2)',
         root' = root, torn' = torn, NEW m \in Name
  PROVE  Readable(m)' = Readable(m)
<1>1. Find(m)' = Find(m)
  BY DEF Find, Scanned
<1>2. Readable(m) = IF m \in torn THEN Unknown
                    ELSE IF Find(m) = 0 THEN Absent ELSE held[Find(m)]
  BY ReadableIs DEF ReadableFact
<1>3. Readable(m)' = IF m \in torn' THEN Unknown
                     ELSE IF Find(m)' = 0 THEN Absent ELSE held[Find(m)']
  BY ReadableNext DEF ReadableFact
<1> QED
  BY <1>1, <1>2, <1>3

\* The files and the request of the abstract store.
Files == [n \in Name |-> Readable(n)]
Pending == IF Unlinked = {} THEN req ELSE [req EXCEPT !.want = Unknown]

\* The request while an operation is on, and when none is.
LEMMA PendingIs ==
  ASSUME TypeInv
  PROVE  /\ pc \in {"idle", "free", "off"} => Pending = req
         /\ pc \in {"idle", "off"} => Pending = Store!NoOp
         /\ pc \notin {"idle", "off"} =>
              /\ Pending # Store!NoOp /\ req \in [name : Name, want : Content \cup {Absent}]
              /\ Pending.name = req.name /\ Pending.want = IF Unlinked = {} THEN req.want ELSE Unknown
<1>1. pc \in {"idle", "free", "off"} => Unlinked = {}
  BY DEF TypeInv, TypeOK, Unlinked
<1>2. Store!NoOp = NoReq
  BY DEF NoReq, Store!NoOp
<1>3. ASSUME pc \notin {"idle", "off"}
      PROVE  /\ Pending # Store!NoOp /\ req \in [name : Name, want : Content \cup {Absent}]
             /\ Pending.name = req.name /\ Pending.want = IF Unlinked = {} THEN req.want ELSE Unknown
  <2>1. req \in [name : Name, want : Content \cup {Absent}]
    BY <1>3 DEF TypeInv, TypeOK
  <2>2. Pending.name = req.name /\ Pending.want = IF Unlinked = {} THEN req.want ELSE Unknown
    BY <2>1 DEF Pending
  <2>3. Pending.name # NoReq.name
    BY <2>1, <2>2, OtherThings DEF NoReq
  <2> QED
    BY <1>2, <2>1, <2>2, <2>3
<1>4. pc \in {"idle", "off"} => req = NoReq
  BY DEF TypeInv, TypeOK
<1> QED
  BY <1>1, <1>2, <1>3, <1>4 DEF Pending

\* In the state after a step, too.
PendingFact == TypeInv /\ pc \in {"idle", "off"} => Pending = Store!NoOp

LEMMA PendingNext == PendingFact'
<1>1. PendingFact
  BY PendingIs DEF PendingFact
<1> QED
  BY <1>1, PTL

\* The empty volume is the empty store.
LEMMA InitRefines == Init => Store!Init
<1> SUFFICES ASSUME Init PROVE Store!Init
  OBVIOUS
<1>1. \A n : Find(n) = 0
  BY DEF Init, Find, Scanned, EndMark
<1>2. \A n \in Name : Readable(n) = Absent
  BY <1>1 DEF Init, Readable, Visible
<1>3. req = Store!NoOp /\ Unlinked = {}
  BY DEF Init, NoReq, Store!NoOp, Unlinked
<1> QED
  BY <1>2, <1>3 DEF Store!Init

\* A request begins: its file may read as anything until it succeeds, and so
\* may the files it will damage, if it is on a damaged file.
LEMMA BeginRefines ==
  ASSUME FatInv, FatInv',
         NEW n \in Name, NEW want \in Content \cup {Absent}, Begin(n, want)
  PROVE  Store!Next
<1>1. /\ pc = "idle" /\ req' = [name |-> n, want |-> want] /\ chain = {} /\ chain' = {}
      /\ fat' = fat /\ root' = root /\ data' = data
      /\ torn' = torn \cup { m \in Name : Reach(m) \cap Reach(n) # {} }
  BY DEF Begin, disk, FatInv, Base, Phase, TypeInv, TypeOK
<1>2. PICK own, held, loose, old : Base /\ Layout(own, held, loose, old)
  BY DEF FatInv
<1>3. \A m \in Name : Visible(m)' = Visible(m)
  BY <1>1 DEF Visible, Find, Scanned, Follow
<1>4. PICK S : S = { m \in Name : Reach(m) \cap Reach(n) # {} } \ torn
  OBVIOUS
<1>5. \A m \in Name : Readable(m)' = IF m \in S THEN Unknown ELSE Readable(m)
  BY <1>1, <1>3, <1>4 DEF Readable
<1>6. ASSUME NEW m \in S
      PROVE  /\ m \in Name /\ m \notin torn /\ Readable(m) # Absent
             /\ Find(m) \in Slot /\ Settled(Find(m)) /\ root[Find(m)].name = m /\ Reach(m) = own[Find(m)]
  <2>1. m \in Name /\ m \notin torn /\ Find(m) # 0
    BY <1>2, <1>4, ReachIs
  <2>2. PICK s \in Slot : s = Find(m) /\ root[s].mark = "file" /\ root[s].name = m
    BY <1>2, <2>1, FindIs DEF FindFact, Base
  <2>3. Settled(s)
    BY <2>1, <2>2 DEF Settled
  <2>4. held[s] \in Content /\ Visited(root[s].first) = own[s]
    BY <1>2, <2>3, SettledVisits DEF Stored
  <2>5. Readable(m) = held[s]
    BY <1>2, <2>1, <2>2, ReadableIs DEF ReadableFact
  <2>6. Reach(m) = own[s]
    BY <1>2, <2>1, <2>2, <2>4, ReachIs
  <2> QED
    BY <2>1, <2>2, <2>3, <2>4, <2>5, <2>6, OtherThings
<1>7. ASSUME Readable(n) # Unknown PROVE S \subseteq {n}
  <2>1. n \notin torn
    BY <1>7 DEF Readable
  <2>2. ASSUME NEW m \in S PROVE m = n
    <3>1. Reach(m) \cap Reach(n) # {}
      BY <1>4, <2>2
    <3>2. n \in S
      <4>1. Reach(n) \cap Reach(n) # {}
        BY <3>1
      <4> QED
        BY <1>4, <2>1, <4>1
    <3> QED
      BY <1>2, <1>6, <2>2, <3>1, <3>2 DEF Layout, Apart
  <2> QED
    BY <2>2
<1>8. S \in SUBSET { m \in Name : Files[m] # Absent } /\ (Files[n] # Unknown => S \subseteq {n})
  BY <1>6, <1>7 DEF Files
<1>9. Files' = [m \in Name |-> IF m \in S THEN Unknown ELSE Files[m]]
  BY <1>5 DEF Files
<1>10. Pending = Store!NoOp /\ Pending' = [name |-> n, want |-> want]
  <2>1. Unlinked' = {}
    BY <1>1 DEF Unlinked
  <2> QED
    BY <1>1, <1>2, <2>1, PendingIs DEF Pending, Base
<1>11. Store!Ask(n, want)
  BY <1>8, <1>9, <1>10 DEF Store!Ask, Files, Pending
<1> QED
  BY <1>11 DEF Store!Next

\* The directory entry: the file is the new one or, if a link was refused,
\* damaged; no other has changed.
LEMMA WriteEntryRefines ==
  ASSUME FatInv, Base', WriteEntry
  PROVE  Store!Next
<1>1. PICK own, held, loose, old : Base /\ Layout(own, held, loose, old)
  BY DEF FatInv
<1>2. PICK t, S, w : t = Target /\ S = chain /\ w = req.want
  OBVIOUS
<1> DEFINE held2 == [held EXCEPT ![t] = w]
           e == [mark |-> "file", name |-> req.name, first |-> Lowest(chain), size |-> Len(w)]
<1>3. Layout([own EXCEPT ![t] = S], held2, {}, {})'
  BY <1>1, <1>2, WriteEntryLayout
<1>4. /\ pc = "entry" /\ pc' = "idle" /\ root' = [root EXCEPT ![t] = e]
      /\ torn' = IF Unlinked = {} THEN torn \ {req.name} ELSE torn \cup {req.name}
  BY <1>2 DEF WriteEntry, Over, Drop
<1>5. t \in Slot /\ (slot = t \/ (slot = 0 /\ root[t].mark # "file")) /\ t # 0
  BY <1>1, <1>2, TargetSlot DEF Slot
<1>6. req.name \in Name
  BY <1>1, <1>4 DEF Base, TypeInv, TypeOK
<1>0. PICK nm \in Name : nm = req.name
  BY <1>6
<1>7. \A s \in Slot : root'[s] = IF s = t THEN e ELSE root[s]
  BY <1>1, <1>4, <1>5 DEF Base, TypeInv, TypeOK
<1>8. \A s \in Slot : held2[s] = IF s = t THEN w ELSE held[s]
  BY <1>1, <1>5 DEF Layout
<1> HIDE DEF held2
<1>9. ASSUME NEW m \in Name
      PROVE  Readable(m)' = IF m \in torn' THEN Unknown ELSE IF Find(m)' = 0 THEN Absent ELSE held2[Find(m)']
  BY <1>3, ReadableNext DEF ReadableFact
<1>10. Readable(nm)' = IF Unlinked = {} THEN w ELSE Unknown
  <2>1. root'[t].mark = "file" /\ root'[t].name = nm
    BY <1>0, <1>5, <1>7
  <2>2. Find(nm)' = t
    BY <1>5, <2>1, FindNext DEF FindFact, Base
  <2>3. nm \in torn' <=> Unlinked # {}
    BY <1>0, <1>4
  <2> QED
    BY <1>5, <1>8, <1>9, <2>2, <2>3
<1>11. ASSUME NEW m \in Name, m # req.name
       PROVE  Readable(m)' = Readable(m)
  <2>1. Readable(m) = IF m \in torn THEN Unknown ELSE IF Find(m) = 0 THEN Absent ELSE held[Find(m)]
    BY <1>1, ReadableIs DEF ReadableFact
  <2>0. m \in torn' <=> m \in torn
    BY <1>4, <1>11
  <2>2. CASE Find(m) # 0
    <3>1. PICK s \in Slot : s = Find(m) /\ root[s].mark = "file" /\ root[s].name = m
      BY <1>1, <2>2, FindIs DEF FindFact, Base
    <3>2. s # t
      BY <1>1, <1>4, <1>5, <1>11, <3>1 DEF Base, OpInv
    <3>3. Find(m)' = s
      BY <1>7, <3>1, <3>2, FindNext DEF FindFact, Base
    <3>4. s # 0
      BY <2>2, <3>1
    <3> QED
      BY <1>8, <1>9, <2>0, <2>1, <2>2, <3>1, <3>2, <3>3, <3>4
  <2>3. CASE Find(m) = 0
    <3>1. Find(m)' = 0
      <4> SUFFICES ASSUME Find(m)' # 0 PROVE FALSE
        OBVIOUS
      <4>1. PICK s \in Slot : root'[s].mark = "file" /\ root'[s].name = m
        BY FindNext DEF FindFact, Base
      <4>2. s # t
        BY <1>7, <1>11, <4>1
      <4>3. Find(m) = s
        BY <1>1, <1>7, <4>1, <4>2, FindIs DEF FindFact, Base
      <4> QED
        BY <2>3, <4>3 DEF Slot
    <3> QED
      BY <1>9, <2>0, <2>1, <2>3, <3>1
  <2> QED
    BY <2>2, <2>3
<1>12. Pending # Store!NoOp /\ Pending.name = nm /\ Pending.want = IF Unlinked = {} THEN w ELSE Unknown
  BY <1>0, <1>1, <1>2, <1>4, PendingIs DEF Base
<1>13. Files' = [Files EXCEPT ![Pending.name] = Pending.want]
  BY <1>0, <1>10, <1>11, <1>12 DEF Files
<1>14. Pending' = Store!NoOp
  BY <1>4, PendingNext DEF PendingFact, Base
<1>15. Store!Succeed
  BY <1>12, <1>13, <1>14 DEF Store!Succeed, Files, Pending
<1> QED
  BY <1>15 DEF Store!Next

\* The deletion mark: the file is gone, no other has changed.
LEMMA MarkDeletedRefines ==
  ASSUME FatInv, Base', MarkDeleted
  PROVE  Store!Next
<1>1. PICK own, held, loose, old : Base /\ Layout(own, held, loose, old)
  BY DEF FatInv
<1>2. Layout(own, held, loose, {})'
  BY <1>1, MarkDeletedLayout
<1>3. /\ pc = "free" /\ pc' = "idle" /\ slot \in Slot /\ root' = [root EXCEPT ![slot] = DeletedMark]
      /\ torn' = torn \ {req.name} /\ req.want = Absent
  BY <1>1 DEF MarkDeleted, Over, Drop, Base, TypeInv, TypeOK, Marks
<1>4. /\ slot # 0 /\ root[slot].mark = "file" /\ root[slot].name = req.name
  BY <1>1, <1>3 DEF Base, OpInv, Slot
<1>0. PICK nm \in Name : nm = req.name
  BY <1>1, <1>3 DEF Base, TypeInv, TypeOK, NoReq
<1>5. \A s \in Slot : root'[s] = IF s = slot THEN DeletedMark ELSE root[s]
  BY <1>1, <1>3 DEF Base, TypeInv, TypeOK
<1>6. ASSUME NEW m \in Name
      PROVE  Readable(m)' = IF m \in torn' THEN Unknown ELSE IF Find(m)' = 0 THEN Absent ELSE held[Find(m)']
  BY <1>2, ReadableNext DEF ReadableFact
<1>7. ASSUME NEW m
      PROVE  Find(m)' = IF m = req.name THEN 0 ELSE Find(m)
  <2>1. ASSUME NEW s \in Slot, s # slot, root[s].mark = "file", root[s].name = m
        PROVE  Find(m)' = s /\ Find(m) = s /\ m # req.name
    <3>1. Find(m)' = s
      BY <1>5, <2>1, FindNext DEF FindFact, Base
    <3>2. Find(m) = s
      BY <1>1, <2>1, FindIs DEF FindFact, Base
    <3>3. m # req.name
      BY <1>1, <1>3, <1>4, <2>1 DEF Base, DirectorySound
    <3> QED
      BY <3>1, <3>2, <3>3
  <2>2. CASE \E s \in Slot : s # slot /\ root[s].mark = "file" /\ root[s].name = m
    BY <2>1, <2>2
  <2>3. CASE ~\E s \in Slot : s # slot /\ root[s].mark = "file" /\ root[s].name = m
    <3>1. Find(m)' = 0
      <4>1. ~\E s \in Slot : root'[s].mark = "file" /\ root'[s].name = m
        BY <1>5, <2>3 DEF DeletedMark
      <4> QED
        BY <4>1, FindNext DEF FindFact, Base
    <3>2. Find(m) # 0 => m = req.name
      BY <1>1, <1>4, <2>3, FindIs DEF FindFact, Base
    <3> QED
      BY <3>1, <3>2
  <2> QED
    BY <2>2, <2>3
<1>8. ASSUME NEW m \in Name, m # req.name
      PROVE  Readable(m)' = Readable(m)
  <2>1. Readable(m) = IF m \in torn THEN Unknown ELSE IF Find(m) = 0 THEN Absent ELSE held[Find(m)]
    BY <1>1, ReadableIs DEF ReadableFact
  <2>2. m \in torn' <=> m \in torn
    BY <1>3, <1>8
  <2> QED
    BY <1>6, <1>7, <1>8, <2>1, <2>2
<1>9. Readable(nm)' = Absent
  BY <1>0, <1>3, <1>6, <1>7
<1>10. Pending # Store!NoOp /\ Pending = req
  BY <1>1, <1>3, PendingIs DEF Base
<1>11. Files' = [Files EXCEPT ![Pending.name] = Pending.want]
  BY <1>0, <1>3, <1>8, <1>9, <1>10 DEF Files
<1>12. Pending' = Store!NoOp
  BY <1>3, PendingNext DEF PendingFact, Base
<1>13. Store!Succeed
  BY <1>10, <1>11, <1>12 DEF Store!Succeed, Files, Pending
<1> QED
  BY <1>13 DEF Store!Next

\* A failure or a power loss: the file of the operation is unknown already.
LEMMA FailureRefines ==
  ASSUME FatInv, Base', DiskFull \/ RootFull \/ Refused \/ PowerLoss
  PROVE  Store!Next
<1>1. PICK own, held, loose, old : Base /\ Layout(own, held, loose, old)
  BY DEF FatInv
<1>2. Layout(own, held, loose, old)' /\ LeftHalfDone /\ Drop /\ pc \notin {"idle", "off"}
  BY <1>1, FailureLayout
<1>3. root' = root /\ torn' = torn /\ pc' \in {"idle", "off"}
  BY <1>2 DEF LeftHalfDone, disk, DiskFull, RootFull, Refused, PowerLoss, Over
<1>4. \A m \in Name : Readable(m)' = Readable(m)
  BY <1>1, <1>2, <1>3, SameFiles
<1>5. Files' = Files
  BY <1>4 DEF Files
<1>6. Pending # Store!NoOp /\ Pending' = Store!NoOp
  BY <1>1, <1>2, <1>3, PendingIs, PendingNext DEF PendingFact, Base
<1>7. Store!Fail
  BY <1>5, <1>6 DEF Store!Fail, Files, Pending
<1> QED
  BY <1>7 DEF Store!Next

\* No other step changes the files.
LEMMA OtherFiles ==
  ASSUME FatInv, Base',
         \/ FreeNext \/ FreeRefused \/ Allocate \/ Link \/ LinkRefused \/ WriteData \/ Mount
         \/ UNCHANGED vars
  PROVE  Files' = Files
<1>1. PICK own, held, loose, old : Base /\ Layout(own, held, loose, old)
  BY DEF FatInv
<1>2. root' = root /\ torn' = torn
  BY DEF FreeNext, FreeRefused, Allocate, Link, LinkRefused, WriteData, Mount, vars, disk, opVars
<1>3. PICK loose2, old2 : Layout(own, held, loose2, old2)'
  BY <1>1, FreeNextLayout, FreeRefusedLayout, AllocateLayout, LinkLayout, LinkRefusedLayout,
     WriteDataLayout, MountLayout
<1>4. \A m \in Name : Readable(m)' = Readable(m)
  BY <1>1, <1>2, <1>3, SameFiles
<1> QED
  BY <1>4 DEF Files

\* The first refused link spoils the operation; the others change nothing that
\* the store shows, and neither does any other step.
LEMMA LinkRefusedRefines ==
  ASSUME FatInv, Base', LinkRefused
  PROVE  Store!Spoil \/ UNCHANGED Store!vars
<1>1. Base /\ Files' = Files
  BY OtherFiles DEF FatInv
<1>2. Unlinked \subseteq Unlinked'
  BY <1>1, LinkPhase
<1>3. pc = "link" /\ req' = req /\ req.want \in Content
  BY <1>1 DEF LinkRefused, Base, TypeInv, Working
<1>4. CASE Unlinked # {} \/ Unlinked' = {}
  BY <1>1, <1>2, <1>3, <1>4 DEF Store!vars, Files, Pending
<1>5. CASE Unlinked = {} /\ Unlinked' # {}
  <2>1. Pending # Store!NoOp /\ Pending = req /\ Pending.want # Absent
    BY <1>1, <1>3, <1>5, PendingIs, OtherThings DEF Pending, Base
  <2>2. Pending' = [Pending EXCEPT !.want = Unknown]
    BY <1>3, <1>5, <2>1 DEF Pending
  <2> QED
    BY <1>1, <2>1, <2>2 DEF Store!Spoil, Files, Pending
<1> QED
  BY <1>4, <1>5

LEMMA OtherRefines ==
  ASSUME FatInv, Base',
         FreeNext \/ FreeRefused \/ Allocate \/ Link \/ WriteData \/ Mount \/ UNCHANGED vars
  PROVE  UNCHANGED Store!vars
<1>1. Base /\ Files' = Files
  BY OtherFiles DEF FatInv
<1>2. req' = req
  BY DEF FreeNext, FreeRefused, Allocate, Link, WriteData, Mount, vars, disk, opVars
<1>3. CASE FreeNext \/ FreeRefused \/ Allocate \/ Mount
  <2>1. chain = {} /\ (chain' = {} \/ (pc' = "link" /\ todo' = chain'))
    BY <1>1, <1>3 DEF FreeNext, FreeRefused, Allocate, Mount, Base, TypeInv, TypeOK
  <2>2. Unlinked = {} /\ Unlinked' = {}
    BY <2>1 DEF Unlinked
  <2> QED
    BY <1>1, <1>2, <2>2 DEF Store!vars, Files
<1>4. CASE Link
  <2>1. Unlinked' = Unlinked
    BY <1>1, <1>4, LinkPhase
  <2> QED
    BY <1>1, <1>2, <2>1 DEF Store!vars, Files
<1>5. CASE WriteData \/ UNCHANGED vars
  <2>1. Unlinked' = Unlinked
    BY <1>5 DEF WriteData, vars, disk, opVars, Unlinked
  <2> QED
    BY <1>1, <1>2, <2>1 DEF Store!vars, Files
<1> QED
  BY <1>3, <1>4, <1>5

LEMMA NextRefines ==
  FatInv /\ FatInv' /\ [Next]_vars => [Store!Next]_Store!vars
<1> SUFFICES ASSUME FatInv, FatInv', [Next]_vars
             PROVE  [Store!Next]_Store!vars
  OBVIOUS
<1>1. Base'
  BY DEF FatInv
<1>2. ASSUME NEW n \in Name, NEW want \in Content \cup {Absent}, Begin(n, want)
      PROVE  Store!Next
  BY <1>2, BeginRefines
<1>3. CASE LinkRefused
  BY <1>1, <1>3, LinkRefusedRefines DEF Store!Next
<1> QED
  BY <1>1, <1>2, <1>3, WriteEntryRefines, MarkDeletedRefines, FailureRefines, OtherRefines DEF Next, Step

\* The file system is a store of files: an operation that succeeds leaves
\* exactly what was asked for unless a write of the FAT was refused, and an
\* operation on an undamaged file, a refused transfer or a power loss changes
\* what read_file returns for no other file.
THEOREM ImplementsFileStore == Spec => IsFileStore
<1>1. Init => FatInv
  BY InitBase, InitLayout DEF FatInv
<1>2. FatInv /\ [Next]_vars => FatInv'
  BY NextInv
<1> QED
  BY <1>1, <1>2, InitRefines, NextRefines, PTL DEF Spec, IsFileStore, Store!Spec
==============================================================================
