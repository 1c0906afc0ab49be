-------------------------------- MODULE Heap --------------------------------
(***************************************************************************)
(* The kernel heap (heap.rs): a free list in address order, first fit,     *)
(* split on alloc and coalesced on dealloc.  Interrupts are masked inside  *)
(* both, so each is one action.  normalize makes every size and alignment  *)
(* a multiple of MIN_BLOCK: addresses and sizes count in MIN_BLOCKs.       *)
(***************************************************************************)
EXTENDS Integers, FiniteSets

CONSTANTS Start, Units,  \* the one region that init donates
          Sizes, Aligns  \* what Layouts ask for, normalized

ASSUME HeapAssumption == /\ Start \in Nat \ {0} /\ Units \in Nat \ {0}
                         /\ Sizes \subseteq Nat \ {0} /\ Aligns \subseteq Nat \ {0}

VARIABLES fl,    \* the FreeList: head, the nodes by address, free
          live   \* what alloc has returned and dealloc not got back yet
vars == <<fl, live>>

Null == 0
Block(at, size) == at .. at + size - 1
Region == Block(Start, Units)

\* A link is the node that holds it, or Null for head.
Links(f) == {Null} \cup DOMAIN f.node
Target(f, link) == IF link = Null THEN f.head ELSE f.node[link].next
\* The walk along the list stops at the first link to nothing or to an
\* address that is not below start.
Before(f, start) ==
    CHOOSE link \in Links(f) :
        /\ link = Null \/ link < start
        /\ Target(f, link) = Null \/ start <= Target(f, link)

\* Mutant: no coalescing with the block before.
InsertForward(f, start, size) ==
    LET before == Before(f, start)
        next == Target(f, before)
        forward == next # Null /\ start + size = next
        node == IF forward
                THEN [size |-> size + f.node[next].size, next |-> f.node[next].next]
                ELSE [size |-> size, next |-> next]
        kept == DOMAIN f.node \ (IF forward THEN {next} ELSE {})
    IN  [free |-> f.free + size,
         head |-> IF before = Null THEN start ELSE f.head,
         node |-> [a \in kept \cup {start} |->
                      IF a = start THEN node
                      ELSE IF a = before THEN [f.node[a] EXCEPT !.next = start]
                      ELSE f.node[a]]]
Insert(f, start, size) ==
    LET before == Before(f, start)
        next == Target(f, before)
        forward == next # Null /\ start + size = next
        backward == before # Null /\ before + f.node[before].size = start
        node == IF forward
                THEN [size |-> size + f.node[next].size, next |-> f.node[next].next]
                ELSE [size |-> size, next |-> next]
        left == IF backward
                THEN [size |-> f.node[before].size + node.size, next |-> node.next]
                ELSE [size |-> f.node[before].size, next |-> start]
        kept == DOMAIN f.node \ (IF forward THEN {next} ELSE {})
    IN  [free |-> f.free + size,
         head |-> IF before = Null THEN start ELSE f.head,
         node |-> [a \in kept \cup (IF backward THEN {} ELSE {start}) |->
                      IF a = start THEN node ELSE IF a = before THEN left ELSE f.node[a]]]

\* The block goes out of the list, all of it.
Unlink(f, a) ==
    LET link == CHOOSE l \in Links(f) : Target(f, l) = a
    IN  [free |-> f.free - f.node[a].size,
         head |-> IF link = Null THEN f.node[a].next ELSE f.head,
         node |-> [b \in DOMAIN f.node \ {a} |->
                      IF b = link THEN [f.node[b] EXCEPT !.next = f.node[a].next]
                      ELSE f.node[b]]]

\* next_multiple_of
Up(a, align) == a + ((0 - a) % align)

\* The blocks that can hold the request; the walk takes the first.
Fitting(f, size, align) ==
    {a \in DOMAIN f.node : Up(a, align) + size <= a + f.node[a].size}
FirstFit(f, size, align) ==
    CHOOSE a \in Fitting(f, size, align) : \A b \in Fitting(f, size, align) : a <= b

InsertIfAny(f, start, size) == IF size > 0 THEN Insert(f, start, size) ELSE f

\* Mutant: the end behind the block is counted from its start.
CarveFromStart(f, a, size, align) ==
    LET aligned == Up(a, align)
        front == aligned - a
        back == f.node[a].size - size
    IN  InsertIfAny(InsertIfAny(Unlink(f, a), a, front), a + size, back)
\* Take the block out, give back the unused ends.
Carve(f, a, size, align) ==
    LET aligned == Up(a, align)
        front == aligned - a
        back == (a + f.node[a].size) - (aligned + size)
    IN  InsertIfAny(InsertIfAny(Unlink(f, a), a, front), aligned + size, back)
-----------------------------------------------------------------------------
Init == /\ fl = Insert([free |-> 0, head |-> Null, node |-> [a \in {} |-> {}]], Start, Units)
        /\ live = {}

\* Without a block that fits alloc returns null and changes nothing.
Alloc(size, align) ==
    /\ Fitting(fl, size, align) # {}
    /\ LET a == FirstFit(fl, size, align)
       IN  /\ fl' = Carve(fl, a, size, align)
           /\ live' = live \cup {[at |-> Up(a, align), size |-> size]}

\* Callers return what they got, once, with the Layout they asked with.
Dealloc(b) ==
    /\ fl' = Insert(fl, b.at, b.size)
    /\ live' = live \ {b}

Next == \/ \E size \in Sizes, align \in Aligns : Alloc(size, align)
        \/ \E b \in live : Dealloc(b)
Spec == Init /\ [][Next]_vars
-----------------------------------------------------------------------------
FreeCells(f) == UNION {Block(a, f.node[a].size) : a \in DOMAIN f.node}
LiveCells == UNION {Block(b.at, b.size) : b \in live}

(* The list leads from head through all its nodes in address order, and    *)
(* between two of them something is in use: neighbours have coalesced.     *)
ListOk(f) ==
    /\ f.head \in Links(f)
    /\ \A a \in DOMAIN f.node :
        /\ f.node[a] \in [size : Nat \ {0}, next : Links(f)]
        /\ a \in Nat \ {0}
    /\ \A link \in Links(f), a \in DOMAIN f.node :
        IF Target(f, link) = Null THEN a <= link
        ELSE link < Target(f, link) /\ (a <= link \/ Target(f, link) <= a)
    /\ \A a, b \in DOMAIN f.node : a < b => a + f.node[a].size < b

(* Every unit of the region is in one block, free or in use, and free      *)
(* counts the free ones: alloc hands nothing out twice, dealloc loses      *)
(* nothing, whatever the order of the calls (heap.rs:56).                  *)
HeapSound ==
    /\ ListOk(fl)
    /\ live \subseteq [at : Nat \ {0}, size : Nat \ {0}]
    /\ \A b, c \in live : b # c => Block(b.at, b.size) \cap Block(c.at, c.size) = {}
    /\ FreeCells(fl) \cap LiveCells = {}
    /\ FreeCells(fl) \cup LiveCells = Region
    /\ fl.free = Cardinality(FreeCells(fl))

(* alloc returns null only if the request does not fit into any run of     *)
(* free memory: splitting and coalescing never hide one (heap.rs:68).      *)
NoFalseOom ==
    \A size \in Sizes, align \in Aligns, at \in Region :
        at % align = 0 /\ Block(at, size) \subseteq FreeCells(fl)
            => Fitting(fl, size, align) # {}
=============================================================================
