----------------------------- MODULE HeapProofs -----------------------------
(***************************************************************************)
(* Proofs about Heap for a region, sizes and alignments of any value.      *)
(*                                                                         *)
(* HeapSound is inductive.  The argument is about one call of insert and   *)
(* one unlinking: each keeps the list in address order with a gap between  *)
(* its blocks, and changes the free cells by exactly the block's.  alloc   *)
(* is an unlinking and at most two calls of insert, dealloc is one.        *)
(***************************************************************************)
EXTENDS Heap, FiniteSetTheorems, WellFoundedInduction, TLAPS

LEMMA ModUp ==
  ASSUME NEW n \in Nat \ {0}, NEW a \in Nat, NEW x \in Nat, a <= x, x % n = 0
  PROVE  Up(a, n) \in Nat /\ a <= Up(a, n) /\ Up(a, n) <= x
<1>1. (0 - a) % n \in 0 .. n - 1
  OBVIOUS
<1>2. PICK q \in Int : 0 - a = n * q + ((0 - a) % n)
  <2>1. (0 - a) \div n \in Int /\ 0 - a = n * ((0 - a) \div n) + ((0 - a) % n)
    OBVIOUS
  <2> QED
    BY <2>1
<1>3. PICK k \in Int : x = n * k
  <2>1. x \div n \in Int /\ x = n * (x \div n) + (x % n)
    OBVIOUS
  <2>2. x = n * (x \div n)
    BY <2>1
  <2> QED
    BY <2>1, <2>2
<1> DEFINE r == (0 - a) % n
<1>4. x - a = n * (k + q) + r
  BY <1>2, <1>3
<1>5. k + q >= 0
  <2>1. ASSUME k + q <= -1 PROVE FALSE
    <3>1. n * (k + q) <= n * (-1)
      BY <2>1
    <3> QED
      BY <3>1, <1>1, <1>4
  <2> QED
    BY <2>1
<1>6. n * (k + q) >= 0
  BY <1>5
<1> QED
  BY <1>1, <1>4, <1>6 DEF Up

-----------------------------------------------------------------------------
(* The list *)

LEMMA LinksNat ==
  ASSUME NEW f, ListOk(f)
  PROVE  /\ Links(f) \subseteq Nat
         /\ DOMAIN f.node \subseteq Nat \ {0}
         /\ \A a \in DOMAIN f.node : f.node[a].size \in Nat \ {0} /\ f.node[a].next \in Links(f)
         /\ \A link \in Links(f) : Target(f, link) \in Links(f)
BY DEF ListOk, Links, Target, Null

LEMMA CellIs ==
  ASSUME NEW f, NEW x
  PROVE  x \in FreeCells(f) <=> \E a \in DOMAIN f.node : x \in Block(a, f.node[a].size)
BY DEF FreeCells

\* A set of numbers that is not empty has a lowest element.
LEMMA HasLowest ==
  ASSUME NEW S, S \subseteq Nat, S # {}
  PROVE  \E x \in S : \A y \in S : x <= y
<1>1. PICK x \in S : \A y \in S : <<y, x>> \notin OpToRel(<, Nat)
  BY NatLessThanWellFounded, WFMin
<1>2. ASSUME NEW y \in S PROVE x <= y
  <2>1. ~(y < x)
    BY <1>1, <1>2 DEF OpToRel
  <2>2. x \in Nat /\ y \in Nat
    OBVIOUS
  <2> QED
    BY <2>1, <2>2
<1> QED
  BY <1>2

\* The walk to an address that no node has stops behind its predecessor.
LEMMA BeforeStops ==
  ASSUME NEW f, ListOk(f), NEW start \in Nat \ {0}
  PROVE  /\ Before(f, start) \in Links(f)
         /\ Before(f, start) < start
         /\ \/ Target(f, Before(f, start)) = Null
            \/ start <= Target(f, Before(f, start))
<1> DEFINE Stops(l) == /\ l = Null \/ l < start
                       /\ Target(f, l) = Null \/ start <= Target(f, l)
           D == { start - l : l \in { k \in Links(f) : k < start } }
<1>1. D \subseteq Nat /\ D # {}
  <2>1. Null \in Links(f) /\ Null < start
    BY DEF Links, Null
  <2> QED
    BY <2>1, LinksNat
<1>2. PICK d \in D : \A e \in D : d <= e
  BY <1>1, HasLowest
<1>3. PICK l \in Links(f) : l < start /\ d = start - l
  BY <1>2
<1>4. \A k \in Links(f) : k < start => k <= l
  <2> SUFFICES ASSUME NEW k \in Links(f), k < start PROVE k <= l
    OBVIOUS
  <2>1. start - k \in D
    OBVIOUS
  <2>2. start - l <= start - k
    BY <1>2, <1>3, <2>1
  <2>3. k \in Nat /\ l \in Nat
    BY LinksNat
  <2> QED
    BY <2>2, <2>3
<1>5. Stops(l)
  <2> SUFFICES ASSUME Target(f, l) # Null PROVE start <= Target(f, l)
    BY <1>3
  <2>1. Target(f, l) \in Links(f) /\ Target(f, l) \in Nat
    BY LinksNat
  <2>2. Target(f, l) \in DOMAIN f.node
    BY <2>1 DEF Links
  <2>3. l < Target(f, l)
    BY <2>2 DEF ListOk
  <2>4. ~(Target(f, l) < start)
    BY <2>1, <2>3, <1>4, LinksNat
  <2> QED
    BY <2>1, <2>4
<1>6. Before(f, start) \in Links(f) /\ Stops(Before(f, start))
  BY <1>5, Zenon DEF Before
<1> QED
  BY <1>6 DEF Null

\* Where a block that is not free now goes: behind b, in front of n.
Between(f, start, size, b, n) ==
    /\ b \in Links(f) /\ b \in Nat /\ b < start /\ n = Target(f, b) /\ n \in Nat
    /\ start \notin DOMAIN f.node
    /\ b # Null => b \in DOMAIN f.node /\ b + f.node[b].size <= start
    /\ n # Null => n \in DOMAIN f.node /\ start + size <= n
    /\ \A a \in DOMAIN f.node : a <= b \/ (n # Null /\ n <= a)

LEMMA InsertBetween ==
  ASSUME NEW f, ListOk(f), NEW start \in Nat \ {0}, NEW size \in Nat \ {0},
         Block(start, size) \cap FreeCells(f) = {}
  PROVE  Between(f, start, size, Before(f, start), Target(f, Before(f, start)))
<1> DEFINE b == Before(f, start)
           n == Target(f, b)
<1>1. /\ b \in Links(f) /\ b < start
      /\ n = Null \/ start <= n
  BY BeforeStops
<1>2. b \in Nat /\ n \in Nat /\ n \in Links(f)
  BY <1>1, LinksNat
<1> HIDE DEF b, n
<1>3. \A a \in DOMAIN f.node : a \in Nat \ {0} /\ f.node[a].size \in Nat \ {0}
  BY LinksNat
<1>4. \A a \in DOMAIN f.node : \A x \in Block(a, f.node[a].size) : x \notin Block(start, size)
  BY CellIs
<1>5. start \notin DOMAIN f.node
  <2> SUFFICES ASSUME start \in DOMAIN f.node PROVE FALSE
    OBVIOUS
  <2>1. start \in Block(start, size) /\ start \in Block(start, f.node[start].size)
    BY <1>3 DEF Block
  <2> QED
    BY <2>1, <1>4
<1>6. ASSUME b # Null PROVE b \in DOMAIN f.node /\ b + f.node[b].size <= start
  <2>1. b \in DOMAIN f.node
    BY <1>6, <1>1 DEF Links
  <2>2. ASSUME start < b + f.node[b].size PROVE FALSE
    <3>1. start \in Block(start, size) /\ start \in Block(b, f.node[b].size)
      BY <2>1, <2>2, <1>1, <1>2, <1>3 DEF Block
    <3> QED
      BY <3>1, <2>1, <1>4
  <2> QED
    BY <2>1, <2>2, <1>2, <1>3
<1>7. ASSUME n # Null PROVE n \in DOMAIN f.node /\ start + size <= n
  <2>1. n \in DOMAIN f.node
    BY <1>7, <1>2 DEF Links
  <2>2. ASSUME n < start + size PROVE FALSE
    <3>1. n \in Block(start, size) /\ n \in Block(n, f.node[n].size)
      BY <2>1, <2>2, <1>1, <1>2, <1>3, <1>7 DEF Block
    <3> QED
      BY <3>1, <2>1, <1>4
  <2> QED
    BY <2>1, <2>2, <1>2
<1>8. \A a \in DOMAIN f.node : a <= b \/ (n # Null /\ n <= a)
  BY <1>1 DEF ListOk, n
<1> QED
  BY <1>1, <1>2, <1>5, <1>6, <1>7, <1>8 DEF Between, b, n

\* The list that insert leaves, by which of the neighbours it touches.
Forward(start, size, n) == n # Null /\ start + size = n
Backward(f, start, b) == b # Null /\ b + f.node[b].size = start

LEMMA InsertShape ==
  ASSUME NEW f, NEW start \in Nat \ {0}, NEW size \in Nat, NEW b, NEW n,
         b = Before(f, start), n = Target(f, b), Between(f, start, size, b, n),
         NEW total, NEW next,
         total = IF Forward(start, size, n) THEN size + f.node[n].size ELSE size,
         next = IF Forward(start, size, n) THEN f.node[n].next ELSE n
  PROVE  LET g == Insert(f, start, size)
             B == Backward(f, start, b)
         IN  /\ g.free = f.free + size
             /\ g.head = IF b = Null THEN start ELSE f.head
             /\ DOMAIN g.node =
                    (DOMAIN f.node \ (IF Forward(start, size, n) THEN {n} ELSE {}))
                    \cup (IF B THEN {} ELSE {start})
             /\ ~B => g.node[start] = [size |-> total, next |-> next]
             /\ B => g.node[b] = [size |-> f.node[b].size + total, next |-> next]
             /\ ~B /\ b # Null => g.node[b] = [size |-> f.node[b].size, next |-> start]
             /\ \A a \in DOMAIN g.node \ {start, b} : g.node[a] = f.node[a]
<1> DEFINE F == Forward(start, size, n)
           B == Backward(f, start, b)
           g == Insert(f, start, size)
           node == [size |-> total, next |-> next]
           left == IF B THEN [size |-> f.node[b].size + total, next |-> next]
                   ELSE [size |-> f.node[b].size, next |-> start]
           S == (DOMAIN f.node \ (IF F THEN {n} ELSE {})) \cup (IF B THEN {} ELSE {start})
           nodes == [a \in S |-> IF a = start THEN node ELSE IF a = b THEN left ELSE f.node[a]]
<1>1. node = IF F THEN [size |-> size + f.node[n].size, next |-> f.node[n].next]
             ELSE [size |-> size, next |-> n]
  OBVIOUS
<1>2. node.size = total /\ node.next = next
  OBVIOUS
<1>3. g = [free |-> f.free + size, head |-> IF b = Null THEN start ELSE f.head,
           node |-> nodes]
  BY <1>1, <1>2 DEF Insert, Forward, Backward
<1> HIDE DEF g, node
<1>4. /\ b \in Nat /\ b # start
      /\ b # Null => b \in DOMAIN f.node
      /\ F => n \in Nat /\ n # b
      /\ start \notin DOMAIN f.node
  BY DEF Between, Forward
<1>5. B => b # Null
  BY DEF Backward
<1>6. /\ g.free = f.free + size
      /\ g.head = IF b = Null THEN start ELSE f.head
      /\ g.node = nodes
  BY <1>3
<1>7. b # Null => b \in S
  BY <1>4
<1>8. ~B => start \in S
  OBVIOUS
<1> HIDE DEF S
<1>9. DOMAIN g.node = S
  BY <1>6
<1>10. ~B => g.node[start] = node
  BY <1>6, <1>8
<1>11. b # Null => g.node[b] = left
  BY <1>4, <1>6, <1>7
<1>12. \A a \in S \ {start, b} : g.node[a] = f.node[a]
  BY <1>6
<1>13. ~B => g.node[start] = [size |-> total, next |-> next]
  BY <1>10 DEF node
<1>14. B => g.node[b] = [size |-> f.node[b].size + total, next |-> next]
  BY <1>5, <1>11
<1>15. ~B /\ b # Null => g.node[b] = [size |-> f.node[b].size, next |-> start]
  BY <1>11
<1> HIDE DEF B, F
<1> QED
  BY <1>6, <1>9, <1>12, <1>13, <1>14, <1>15 DEF g, S, B, F

\* What a block between b and n is, in the list g that insert leaves: its
\* links go on in address order, and it has absorbed what touches it.
LEMMA InsertList ==
  ASSUME NEW f, ListOk(f), NEW start \in Nat \ {0}, NEW size \in Nat \ {0},
         Block(start, size) \cap FreeCells(f) = {}
  PROVE  /\ ListOk(Insert(f, start, size))
         /\ FreeCells(Insert(f, start, size)) = FreeCells(f) \cup Block(start, size)
         /\ Insert(f, start, size).free = f.free + size
<1> DEFINE g == Insert(f, start, size)
           b == Before(f, start)
           n == Target(f, b)
           F == Forward(start, size, n)
           B == Backward(f, start, b)
           total == IF F THEN size + f.node[n].size ELSE size
           next == IF F THEN f.node[n].next ELSE n
<1>1. Between(f, start, size, b, n)
  BY InsertBetween
<1>2. /\ g.free = f.free + size
      /\ g.head = IF b = Null THEN start ELSE f.head
      /\ DOMAIN g.node = (DOMAIN f.node \ (IF F THEN {n} ELSE {}))
                         \cup (IF B THEN {} ELSE {start})
      /\ ~B => g.node[start] = [size |-> total, next |-> next]
      /\ B => g.node[b] = [size |-> f.node[b].size + total, next |-> next]
      /\ ~B /\ b # Null => g.node[b] = [size |-> f.node[b].size, next |-> start]
      /\ \A a \in DOMAIN g.node \ {start, b} : g.node[a] = f.node[a]
  BY <1>1, InsertShape
<1>3. F <=> n # Null /\ start + size = n
  BY DEF Forward
<1>4. B <=> b # Null /\ b + f.node[b].size = start
  BY DEF Backward
<1>5. /\ \A a \in DOMAIN f.node : a \in Nat \ {0} /\ f.node[a].size \in Nat \ {0}
      /\ \A a \in DOMAIN f.node : f.node[a].next \in DOMAIN f.node \cup {Null}
      /\ f.head \in DOMAIN f.node \cup {Null}
  BY LinksNat DEF ListOk, Links
<1>6. /\ b = Null \/ b \in DOMAIN f.node
      /\ b \in Nat /\ b < start /\ n \in Nat
      /\ start \notin DOMAIN f.node
      /\ b # Null => b + f.node[b].size <= start
      /\ n # Null => n \in DOMAIN f.node /\ start + size <= n
      /\ \A a \in DOMAIN f.node : a <= b \/ (n # Null /\ n <= a)
  BY <1>1 DEF Between, Links
<1>7. n = IF b = Null THEN f.head ELSE f.node[b].next
  BY DEF Target
<1>8. \A link \in DOMAIN f.node \cup {Null} : \A a \in DOMAIN f.node :
          LET t == IF link = Null THEN f.head ELSE f.node[link].next
          IN  IF t = Null THEN a <= link ELSE link < t /\ (a <= link \/ t <= a)
  BY Zenon DEF ListOk, Links, Target
<1>9. \A a, c \in DOMAIN f.node : a < c => a + f.node[a].size < c
  BY DEF ListOk
<1>10. /\ total \in Nat \ {0} /\ size <= total
       /\ next \in DOMAIN f.node \cup {Null}
       /\ F => next = Null \/ n < next
       /\ ~F => next = n
  BY <1>3, <1>5, <1>6, <1>8 DEF Null
<1> HIDE DEF g, b, n, F, B, total, next
<1>11. /\ ~B => Target(g, b) = start /\ Target(g, start) = next
       /\ B => Target(g, b) = next
       /\ \A link \in Links(g) \ {start, b} : Target(g, link) = Target(f, link)
  <2>1. ~B => Target(g, b) = start
    BY <1>2, <1>6 DEF Target
  <2>2. ~B => Target(g, start) = next
    BY <1>2, <1>6 DEF Target, Null
  <2>3. B => Target(g, b) = next
    BY <1>2, <1>4 DEF Target
  <2>4. ASSUME NEW link \in Links(g) \ {start, b} PROVE Target(g, link) = Target(f, link)
    <3>1. CASE link = Null
      BY <3>1, <2>4, <1>2 DEF Target
    <3>2. CASE link # Null
      BY <3>2, <2>4, <1>2 DEF Target, Links
    <3> QED
      BY <3>1, <3>2
  <2> QED
    BY <2>1, <2>2, <2>3, <2>4
\* The other links stay on their side of b and n.
<1>12. ASSUME NEW link \in Links(g) \ {start, b}
       PROVE  /\ link \in Links(f) /\ link \in Nat /\ Target(g, link) = Target(f, link)
              /\ link < b => Target(f, link) # Null /\ Target(f, link) <= b
              /\ ~(link < b) => n # Null /\ n <= link /\ (F => n < link)
  <2>1. link \in Links(f) /\ link \in Nat /\ Target(g, link) = Target(f, link) /\ (F => link # n)
    BY <1>12, <1>11, <1>2, <1>3, <1>5, <1>6 DEF Links, Null
  <2>2. link < b => Target(f, link) # Null /\ Target(f, link) <= b
    <3> SUFFICES ASSUME link < b PROVE Target(f, link) # Null /\ Target(f, link) <= b
      OBVIOUS
    <3>1. b \in DOMAIN f.node
      BY <2>1, <1>6 DEF Null
    <3> QED
      BY <3>1, <2>1, <1>6, LinksNat DEF ListOk
  <2>3. ASSUME ~(link < b) PROVE n # Null /\ n <= link /\ (F => n < link)
    <3>1. link \in DOMAIN f.node /\ ~(link <= b)
      BY <1>12, <2>1, <2>3, <1>6 DEF Links, Null
    <3> QED
      BY <3>1, <2>1, <1>6
  <2> QED
    BY <2>1, <2>2, <2>3
<1>13. /\ start < n \/ n = Null
       /\ F => next = Null \/ n < next
       /\ \A c \in DOMAIN f.node : F => (next = Null /\ c <= n) \/ (next # Null /\ (c <= n \/ next <= c))
       /\ n = Null => \A c \in DOMAIN f.node : c <= b
  <2>1. ASSUME NEW c \in DOMAIN f.node, F
        PROVE  (next = Null /\ c <= n) \/ (next # Null /\ (c <= n \/ next <= c))
    <3>1. n \in DOMAIN f.node /\ n # Null /\ next = f.node[n].next
      BY <2>1, <1>3, <1>6 DEF next
    <3> QED
      BY <3>1, <1>8
  <2> QED
    BY <2>1, <1>3, <1>6, <1>10 DEF next
<1>14. /\ b \in Links(f) /\ b \in Links(g)
       /\ ~B <=> start \in Links(g)
       /\ next \in Links(g) /\ (next = Null \/ start < next)
       /\ \A c \in DOMAIN g.node : IF next = Null THEN c <= start ELSE c <= start \/ next <= c
  <2>1. b \in Links(f) /\ b \in Links(g)
    BY <1>2, <1>3, <1>6 DEF Links
  <2>2. ~B <=> start \in Links(g)
    BY <1>2, <1>6 DEF Links, Null
  <2>3. next \in Links(g) /\ (next = Null \/ start < next)
    <3>1. CASE F
      BY <3>1, <1>2, <1>3, <1>5, <1>6, <1>10, <1>13 DEF Links
    <3>2. CASE ~F
      BY <3>2, <1>2, <1>3, <1>5, <1>6, <1>10, <1>13 DEF Links
    <3> QED
      BY <3>1, <3>2
  <2>4. ASSUME NEW c \in DOMAIN g.node
        PROVE  IF next = Null THEN c <= start ELSE c <= start \/ next <= c
    <3>1. c = start \/ (c \in DOMAIN f.node /\ c \in Nat /\ (F => c # n)
                        /\ (c <= b \/ (n # Null /\ n <= c)))
      BY <2>4, <1>2, <1>5, <1>6
    <3>2. CASE F
      BY <3>1, <3>2, <1>3, <1>5, <1>6, <1>10, <1>13
    <3>3. CASE ~F
      BY <3>1, <3>3, <1>3, <1>5, <1>6, <1>10, <1>13
    <3> QED
      BY <3>2, <3>3
  <2> QED
    BY <2>1, <2>2, <2>3, <2>4
<1>15. ASSUME NEW link \in Links(g)
       PROVE  /\ Target(g, link) \in Links(g)
              /\ Target(g, link) = Null \/ link < Target(g, link)
  <2>1. CASE link = start
    BY <2>1, <1>11, <1>14
  <2>2. CASE link = b
    <3>1. CASE B
      BY <2>2, <3>1, <1>5, <1>6, <1>10, <1>11, <1>14
    <3>2. CASE ~B
      BY <2>2, <3>2, <1>6, <1>11, <1>14
    <3> QED
      BY <3>1, <3>2
  <2>3. CASE link # b /\ link # start
    <3>1. /\ link \in Links(f) /\ link \in Nat /\ Target(g, link) = Target(f, link)
          /\ link < b => Target(f, link) # Null /\ Target(f, link) <= b
          /\ ~(link < b) => n # Null /\ n <= link /\ (F => n < link)
      BY <2>3, <1>12
    <3>2. Target(f, link) \in DOMAIN f.node \cup {Null} /\ (Target(f, link) = Null \/ link < Target(f, link))
      BY <3>1, LinksNat DEF ListOk, Links
    <3> QED
      BY <3>1, <3>2, <1>2, <1>3, <1>5, <1>6 DEF Links
  <2> QED
    BY <2>1, <2>2, <2>3
<1>16. ASSUME NEW link \in Links(g), NEW a \in DOMAIN g.node
       PROVE  IF Target(g, link) = Null THEN a <= link
              ELSE link < Target(g, link) /\ (a <= link \/ Target(g, link) <= a)
  <2>1. (a = start /\ ~B) \/ (a \in DOMAIN f.node /\ a \in Nat /\ (F => a # n)
                            /\ (a <= b \/ (n # Null /\ n <= a)))
    BY <1>2, <1>5, <1>6
  <2>2. CASE link = start
    BY <2>2, <1>11, <1>14
  <2>3. CASE link = b
    <3>1. CASE B
      <4>1. a # start /\ a \in Nat /\ Target(g, link) = next /\ next \in Nat
        BY <2>1, <2>3, <3>1, <1>5, <1>6, <1>10, <1>11 DEF Null
      <4>2. a <= start => a <= b
        BY <2>1, <4>1, <1>6
      <4> QED
        BY <2>3, <4>1, <4>2, <1>6, <1>14
    <3>2. CASE ~B
      BY <2>1, <2>3, <3>2, <1>6, <1>11 DEF Null
    <3> QED
      BY <3>1, <3>2
  <2>4. CASE link # b /\ link # start
    <3>1. /\ link \in Links(f) /\ link \in Nat /\ Target(g, link) = Target(f, link)
          /\ link < b => Target(f, link) # Null /\ Target(f, link) <= b
          /\ ~(link < b) => n # Null /\ n <= link /\ (F => n < link)
      BY <2>4, <1>12
    <3>2. CASE a \in DOMAIN f.node
      BY <3>1, <3>2, <1>15 DEF ListOk
    <3>3. CASE a = start
      BY <3>1, <3>3, <1>6, <1>15, LinksNat
    <3> QED
      BY <3>2, <3>3, <2>1
  <2> QED
    BY <2>2, <2>3, <2>4
\* Blocks end before the next one starts.
<1>17. ASSUME NEW a \in DOMAIN g.node, NEW c \in DOMAIN g.node, a < c
       PROVE  a + g.node[a].size < c
  <2>1. \A x \in DOMAIN g.node : (x = start /\ ~B) \/
            (x \in DOMAIN f.node /\ x \in Nat \ {0} /\ x # start /\ (F => x # n)
             /\ (x <= b \/ (n # Null /\ n <= x)))
    BY <1>2, <1>5, <1>6
  <2>2. n # Null => total + start <= n \/ (F /\ total = size + f.node[n].size /\ start + size = n)
    BY <1>3, <1>6 DEF total
  <2>3. ~F => total = size
    BY DEF total
  <2>4. a = start => ~B /\ g.node[a].size = total
    BY <2>1, <1>2
  <2>5. a = b => g.node[a].size = IF B THEN f.node[b].size + total ELSE f.node[b].size
    BY <1>2, <1>5, <2>1, <1>4 DEF Null
  <2>6. a # b /\ a # start => a \in DOMAIN f.node /\ g.node[a].size = f.node[a].size
    BY <1>2, <2>1
  \* What starts behind start starts behind the end of the new block.
  <2>7. ASSUME start < c PROVE start + total < c
    <3>1. c \in DOMAIN f.node /\ n # Null /\ n <= c /\ (F => c # n)
      BY <2>1, <2>7, <1>6
    <3>2. CASE F
      <4>1. n + f.node[n].size < c
        BY <3>1, <3>2, <1>5, <1>6, <1>9
      <4> QED
        BY <3>2, <4>1, <1>3, <1>5, <1>6, <3>1 DEF total
    <3>3. CASE ~F
      BY <3>1, <3>3, <2>3, <1>3, <1>5, <1>6
    <3> QED
      BY <3>2, <3>3
  <2>8. CASE a = start
    BY <1>17, <2>4, <2>7, <2>8
  <2>9. CASE a = b
    <3>1. (c = start /\ ~B) \/ start < c
      BY <1>17, <2>1, <2>9, <1>6
    <3>2. CASE B
      BY <1>17, <3>1, <3>2, <2>5, <2>7, <2>9, <1>4, <1>5, <1>6, <1>10, <2>1
    <3>3. CASE ~B
      <4>1. g.node[a].size = f.node[b].size /\ b \in DOMAIN f.node /\ b # Null
        BY <3>3, <2>1, <2>5, <2>9, <1>6 DEF Null
      <4>2. b + f.node[b].size < start
        BY <4>1, <3>3, <1>4, <1>5, <1>6
      <4>3. f.node[b].size \in Nat /\ c \in Nat /\ start <= c
        BY <4>1, <3>1, <2>1, <1>5
      <4> QED
        BY <4>1, <4>2, <4>3, <2>9, <1>6
    <3> QED
      BY <3>2, <3>3
  <2>10. CASE a # b /\ a # start
    <3>1. CASE c = start
      <4>1. a < b /\ b \in DOMAIN f.node
        BY <1>17, <2>1, <2>10, <3>1, <1>6 DEF Null
      <4> QED
        BY <1>17, <2>6, <2>10, <3>1, <4>1, <1>5, <1>6, <1>9
    <3>2. CASE c # start
      BY <1>17, <2>1, <2>6, <2>10, <3>2, <1>9
    <3> QED
      BY <3>1, <3>2
  <2> QED
    BY <2>8, <2>9, <2>10
<1>18. ASSUME NEW a \in DOMAIN g.node
       PROVE  a \in Nat \ {0} /\ g.node[a] \in [size : Nat \ {0}, next : Links(g)]
  <2>1. a \in Nat \ {0}
    BY <1>2, <1>5
  <2>2. a \in Links(g) /\ Target(g, a) = g.node[a].next
    BY <2>1 DEF Links, Target, Null
  <2>3. g.node[a].next \in Links(g)
    BY <2>2, <1>15
  <2>4. CASE a = start
    BY <2>1, <2>3, <2>4, <1>2, <1>6, <1>10
  <2>5. CASE a = b
    BY <2>1, <2>3, <2>5, <1>2, <1>5, <1>6, <1>10 DEF Null
  <2>6. CASE a # start /\ a # b
    <3>1. a \in DOMAIN f.node /\ g.node[a] = f.node[a]
      BY <2>6, <1>2
    <3>2. f.node[a] \in [size : Nat \ {0}, next : Links(f)]
      BY <3>1 DEF ListOk
    <3> QED
      BY <2>1, <2>3, <3>1, <3>2
  <2> QED
    BY <2>4, <2>5, <2>6
<1>19. g.head \in Links(g)
  <2>1. Null \in Links(g) /\ Target(g, Null) = g.head
    BY DEF Links, Target
  <2> QED
    BY <2>1, <1>15
<1>20. ListOk(g)
  BY <1>16, <1>17, <1>18, <1>19 DEF ListOk
<1>21. FreeCells(g) = FreeCells(f) \cup Block(start, size)
  <2>1. ASSUME NEW x PROVE x \in FreeCells(g) => x \in FreeCells(f) \cup Block(start, size)
    <3> SUFFICES ASSUME NEW a \in DOMAIN g.node, x \in Block(a, g.node[a].size)
                 PROVE  x \in FreeCells(f) \cup Block(start, size)
      BY CellIs
    <3>1. CASE a # start /\ a # b
      <4>1. a \in DOMAIN f.node /\ g.node[a] = f.node[a]
        BY <3>1, <1>2
      <4> QED
        BY <4>1, CellIs
    <3>2. ASSUME x \in Block(start, total) PROVE x \in FreeCells(f) \cup Block(start, size)
      <4>1. CASE F
        <5>1. x \in Block(start, size) \/ x \in Block(n, f.node[n].size)
          BY <3>2, <4>1, <1>3, <1>5, <1>6 DEF total, Block
        <5> QED
          BY <5>1, <4>1, <1>3, <1>6, CellIs
      <4>2. CASE ~F
        BY <3>2, <4>2 DEF total
      <4> QED
        BY <4>1, <4>2
    <3>3. CASE a = start
      <4>1. g.node[a].size = total
        BY <3>3, <1>2, <1>6
      <4> QED
        BY <4>1, <3>2, <3>3
    <3>4. CASE a = b
      <4>1. b \in DOMAIN f.node /\ b # Null
        BY <3>4, <1>18, <1>6 DEF Null
      <4>2. x \in Block(b, f.node[b].size) \/ x \in Block(start, total)
        <5>1. CASE B
          BY <3>4, <4>1, <5>1, <1>2, <1>4, <1>5, <1>6, <1>10 DEF Block
        <5>2. CASE ~B
          BY <3>4, <4>1, <5>2, <1>2
        <5> QED
          BY <5>1, <5>2
      <4> QED
        BY <4>1, <4>2, <3>2, CellIs
    <3> QED
      BY <3>1, <3>3, <3>4
  <2>2. ASSUME NEW x \in Block(start, total) PROVE x \in FreeCells(g)
    <3>1. CASE B
      <4>1. b \in DOMAIN g.node /\ x \in Block(b, g.node[b].size)
        BY <2>2, <3>1, <1>2, <1>3, <1>4, <1>5, <1>6, <1>10 DEF Block
      <4> QED
        BY <4>1, CellIs
    <3>2. CASE ~B
      <4>1. start \in DOMAIN g.node /\ g.node[start].size = total
        BY <3>2, <1>2
      <4> QED
        BY <4>1, <2>2, CellIs
    <3> QED
      BY <3>1, <3>2
  <2>3. ASSUME NEW x \in Block(start, size) PROVE x \in FreeCells(g)
    <3>1. x \in Block(start, total)
      BY <2>3, <1>10 DEF Block
    <3> QED
      BY <3>1, <2>2
  <2>4. ASSUME NEW x \in FreeCells(f) PROVE x \in FreeCells(g)
    <3>1. PICK a \in DOMAIN f.node : x \in Block(a, f.node[a].size)
      BY <2>4, CellIs
    <3>2. CASE a = n /\ F
      <4>1. x \in Block(start, total)
        BY <3>1, <3>2, <1>3, <1>5, <1>6 DEF total, Block
      <4> QED
        BY <4>1, <2>2
    <3>3. CASE a = b
      <4>1. b \in DOMAIN g.node /\ x \in Block(b, g.node[b].size)
        <5>1. b \in DOMAIN g.node
          BY <3>1, <3>3, <1>2, <1>3, <1>5, <1>6
        <5>2. CASE B
          BY <3>1, <3>3, <5>1, <5>2, <1>2, <1>5, <1>10 DEF Block
        <5>3. CASE ~B
          BY <3>1, <3>3, <5>1, <5>3, <1>2, <1>5 DEF Null
        <5> QED
          BY <5>1, <5>2, <5>3
      <4> QED
        BY <4>1, CellIs
    <3>4. CASE ~(a = n /\ F) /\ a # b
      <4>1. a \in DOMAIN g.node /\ g.node[a] = f.node[a]
        BY <3>1, <3>4, <1>2, <1>6
      <4> QED
        BY <4>1, <3>1, CellIs
    <3> QED
      BY <3>2, <3>3, <3>4
  <2> QED
    BY <2>1, <2>3, <2>4
<1> QED
  BY <1>2, <1>20, <1>21 DEF g

-----------------------------------------------------------------------------
(* alloc and dealloc *)

LEMMA BlockFinite ==
  ASSUME NEW at \in Nat, NEW size \in Nat
  PROVE  IsFiniteSet(Block(at, size)) /\ Cardinality(Block(at, size)) = size
<1>1. at \in Int /\ at + size - 1 \in Int
  OBVIOUS
<1>2. /\ IsFiniteSet(at .. at + size - 1)
      /\ Cardinality(at .. at + size - 1) =
            IF at > at + size - 1 THEN 0 ELSE at + size - 1 - at + 1
  BY <1>1, FS_Interval
<1> QED
  BY <1>2 DEF Block

\* A list whose count of free units is right.
Counted(f) == /\ ListOk(f)
              /\ IsFiniteSet(FreeCells(f))
              /\ f.free = Cardinality(FreeCells(f))

\* insert adds the block's units to the free ones, and counts them.
LEMMA InsertSound ==
  ASSUME NEW f, Counted(f), NEW start \in Nat \ {0}, NEW size \in Nat,
         Block(start, size) \cap FreeCells(f) = {}
  PROVE  /\ Counted(InsertIfAny(f, start, size))
         /\ FreeCells(InsertIfAny(f, start, size)) = FreeCells(f) \cup Block(start, size)
<1>1. CASE size > 0
  <2> DEFINE g == Insert(f, start, size)
  <2>1. InsertIfAny(f, start, size) = g
    BY <1>1 DEF InsertIfAny
  <2>2. /\ ListOk(g) /\ FreeCells(g) = FreeCells(f) \cup Block(start, size)
        /\ g.free = f.free + size
    BY <1>1, InsertList DEF Counted
  <2>3. IsFiniteSet(Block(start, size)) /\ Cardinality(Block(start, size)) = size
    BY BlockFinite
  <2>4. /\ IsFiniteSet(FreeCells(f) \cup Block(start, size))
        /\ Cardinality(FreeCells(f) \cup Block(start, size)) =
              Cardinality(FreeCells(f)) + Cardinality(Block(start, size))
              - Cardinality(FreeCells(f) \cap Block(start, size))
    BY <2>3, FS_Union DEF Counted
  <2>5. FreeCells(f) \cap Block(start, size) = {}
    OBVIOUS
  <2>6. Cardinality(FreeCells(f) \cap Block(start, size)) = 0
    BY <2>5, FS_EmptySet
  <2>7. Cardinality(FreeCells(f)) \in Nat
    BY FS_CardinalityType DEF Counted
  <2> HIDE DEF g
  <2> QED
    BY <2>1, <2>2, <2>3, <2>4, <2>6, <2>7 DEF Counted
<1>2. CASE size = 0
  <2>1. InsertIfAny(f, start, size) = f /\ Block(start, size) = {}
    BY <1>2 DEF InsertIfAny, Block
  <2> QED
    BY <2>1
<1> QED
  BY <1>1, <1>2

\* A node has a predecessor, and only one.
LEMMA LinkTo ==
  ASSUME NEW f, ListOk(f), NEW a \in DOMAIN f.node
  PROVE  \E link \in Links(f) :
            /\ link = CHOOSE l \in Links(f) : Target(f, l) = a
            /\ Target(f, link) = a
            /\ link < a
<1>1. /\ Before(f, a) \in Links(f) /\ Before(f, a) < a
      /\ Target(f, Before(f, a)) = Null \/ a <= Target(f, Before(f, a))
  BY BeforeStops, LinksNat
<1>2. Target(f, Before(f, a)) = a
  <2>1. Target(f, Before(f, a)) \in Nat /\ Before(f, a) \in Nat /\ a \in Nat
    BY <1>1, LinksNat
  <2> QED
    BY <1>1, <2>1 DEF ListOk
<1>3. PICK l \in Links(f) : l = (CHOOSE k \in Links(f) : Target(f, k) = a) /\ Target(f, l) = a
  BY <1>1, <1>2
<1>4. l < a
  BY <1>3, LinksNat DEF ListOk, Null
<1> QED
  BY <1>3, <1>4

\* Unlinking a block takes its units, and no others, from the free ones.
LEMMA UnlinkSound ==
  ASSUME NEW f, Counted(f), NEW a \in DOMAIN f.node
  PROVE  /\ Counted(Unlink(f, a))
         /\ FreeCells(Unlink(f, a)) = FreeCells(f) \ Block(a, f.node[a].size)
<1> DEFINE g == Unlink(f, a)
           next == f.node[a].next
           size == f.node[a].size
<1>1. ListOk(f)
  BY DEF Counted
<1>2. PICK p \in Links(f) :
          p = (CHOOSE l \in Links(f) : Target(f, l) = a) /\ Target(f, p) = a /\ p < a
  BY <1>1, LinkTo
<1>3. g = [free |-> f.free - size,
           head |-> IF p = Null THEN next ELSE f.head,
           node |-> [b \in DOMAIN f.node \ {a} |->
                      IF b = p THEN [f.node[b] EXCEPT !.next = next] ELSE f.node[b]]]
  BY <1>2 DEF Unlink
<1> HIDE DEF g
<1>4. /\ \A b \in DOMAIN f.node : b \in Nat \ {0} /\ f.node[b].size \in Nat \ {0}
      /\ \A b \in DOMAIN f.node : f.node[b] \in [size : Nat \ {0}, next : Links(f)]
      /\ next \in Links(f) /\ size \in Nat \ {0} /\ a \in Nat \ {0} /\ p \in Nat
  BY <1>1, LinksNat DEF ListOk
<1>5. /\ g.free = f.free - size
      /\ g.head = IF p = Null THEN next ELSE f.head
      /\ DOMAIN g.node = DOMAIN f.node \ {a}
      /\ \A b \in DOMAIN g.node :
            /\ g.node[b].size = f.node[b].size
            /\ g.node[b].next = IF b = p THEN next ELSE f.node[b].next
            /\ g.node[b] = [size |-> g.node[b].size, next |-> g.node[b].next]
  BY <1>3, <1>4
<1>6. Links(g) = Links(f) \ {a}
  BY <1>4, <1>5 DEF Links, Null
<1>7. p \in Links(g) /\ Target(g, p) = next /\ Target(f, a) = next
  <2>1. p # a
    <3>1. p < a /\ p \in Nat /\ a \in Nat
      BY <1>2, <1>4
    <3> QED
      BY <3>1
  <2>2. CASE p = Null
    BY <2>1, <2>2, <1>5, <1>6, <1>4 DEF Target, Null
  <2>3. CASE p # Null
    <3>1. p \in DOMAIN g.node
      BY <2>1, <2>3, <1>5 DEF Links
    <3> QED
      BY <2>1, <2>3, <3>1, <1>4, <1>5, <1>6 DEF Target, Null
  <2> QED
    BY <2>2, <2>3
<1>8. \A l \in Links(g) : l # p => Target(g, l) = Target(f, l)
  BY <1>5, <1>6 DEF Target, Links
<1>9. /\ next = Null \/ a < next
      /\ \A b \in DOMAIN f.node : IF next = Null THEN b <= a ELSE b <= a \/ next <= b
  <2>1. a \in Links(f)
    BY DEF Links
  <2> QED
    BY <1>1, <1>7, <2>1 DEF ListOk
<1>10. \A b \in DOMAIN f.node : b <= p \/ a <= b
  BY <1>1, <1>2, <1>4 DEF ListOk, Null
<1>11. ASSUME NEW l \in Links(g), l # p PROVE Target(f, l) # a
  <2>1. l < p \/ p < l
    BY <1>4, <1>6, <1>11, LinksNat, <1>1
  <2>2. CASE l < p
    <3>1. p \in DOMAIN f.node
      <4>1. l \in Nat
        BY <1>1, <1>6, LinksNat
      <4>2. p # Null
        BY <4>1, <2>2, <1>4 DEF Null
      <4> QED
        BY <4>2 DEF Links
    <3>2. Target(f, l) <= p
      BY <3>1, <2>2, <1>1, <1>4, <1>6, LinksNat DEF ListOk, Null
    <3> QED
      BY <3>2, <1>2, <1>4
  <2>3. CASE p < l
    <3>1. l \in DOMAIN f.node /\ l # a
      BY <1>4, <1>6, <1>11, <2>3 DEF Links, Null
    <3>2. a < l
      BY <3>1, <2>3, <1>4, <1>10
    <3>3. Target(f, l) = Null \/ l < Target(f, l)
      BY <3>1, <1>1, LinksNat DEF ListOk, Links
    <3> QED
      BY <3>2, <3>3, <1>4, <3>1 DEF Null
  <2> QED
    BY <2>1, <2>2, <2>3
<1>12. ASSUME NEW l \in Links(g)
       PROVE  /\ Target(g, l) \in Links(g)
              /\ \A b \in DOMAIN g.node :
                    IF Target(g, l) = Null THEN b <= l
                    ELSE l < Target(g, l) /\ (b <= l \/ Target(g, l) <= b)
  <2>1. CASE l = p
    <3>1. next \in Links(g)
      BY <1>4, <1>6, <1>9, LinksNat, <1>1 DEF Null
    <3>2. \A b \in DOMAIN g.node : b # a /\ b \in DOMAIN f.node /\ b \in Nat
      BY <1>4, <1>5
    <3>3. \A b \in DOMAIN g.node : b <= p \/ a < b
      BY <3>2, <1>4, <1>10
    <3>4. \A b \in DOMAIN g.node : IF next = Null THEN b <= p ELSE b <= p \/ next <= b
      BY <3>2, <3>3, <1>4, <1>9
    <3>5. next = Null \/ p < next
      BY <1>2, <1>4, <1>9, LinksNat, <1>1
    <3> QED
      BY <2>1, <3>1, <3>4, <3>5, <1>7
  <2>2. CASE l # p
    <3>1. Target(g, l) = Target(f, l) /\ Target(f, l) \in Links(f) /\ Target(f, l) # a
      BY <2>2, <1>1, <1>6, <1>8, <1>11, LinksNat
    <3> QED
      BY <3>1, <1>1, <1>5, <1>6 DEF ListOk
  <2> QED
    BY <2>1, <2>2
<1>13. ListOk(g)
  <2>1. g.head \in Links(g)
    BY <1>12, <1>6 DEF Links, Target
  <2>2. ASSUME NEW b \in DOMAIN g.node
        PROVE  b \in Nat \ {0} /\ g.node[b] \in [size : Nat \ {0}, next : Links(g)]
    <3>1. b \in Links(g) /\ Target(g, b) = g.node[b].next
      BY <1>4, <1>5 DEF Links, Target, Null
    <3>2. g.node[b].next \in Links(g)
      BY <3>1, <1>12
    <3>3. b \in Nat \ {0} /\ g.node[b].size \in Nat \ {0}
      BY <1>4, <1>5
    <3>4. g.node[b] = [size |-> g.node[b].size, next |-> g.node[b].next]
      BY <1>5
    <3> QED
      BY <3>2, <3>3, <3>4
  <2>3. \A b, c \in DOMAIN g.node : b < c => b + g.node[b].size < c
    BY <1>1, <1>5 DEF ListOk
  <2> QED
    BY <2>1, <2>2, <2>3, <1>12 DEF ListOk
<1>14. FreeCells(g) = FreeCells(f) \ Block(a, size)
  <2>1. ASSUME NEW b \in DOMAIN f.node, b # a, NEW x \in Block(b, f.node[b].size)
        PROVE  x \notin Block(a, size)
    <3>1. b < a \/ a < b
      BY <2>1, <1>4
    <3>2. b + f.node[b].size < a \/ a + size < b
      BY <3>1, <1>1 DEF ListOk
    <3> QED
      BY <3>2, <2>1, <1>4 DEF Block
  <2>2. ASSUME NEW x \in FreeCells(g) PROVE x \in FreeCells(f) \ Block(a, size)
    <3>1. PICK b \in DOMAIN g.node : x \in Block(b, g.node[b].size)
      BY <2>2, CellIs
    <3>2. b \in DOMAIN f.node /\ b # a /\ x \in Block(b, f.node[b].size)
      BY <3>1, <1>5
    <3> QED
      BY <3>2, <2>1, CellIs
  <2>3. ASSUME NEW x \in FreeCells(f) \ Block(a, size) PROVE x \in FreeCells(g)
    <3>1. PICK b \in DOMAIN f.node : x \in Block(b, f.node[b].size)
      BY <2>3, CellIs
    <3>2. b \in DOMAIN g.node /\ x \in Block(b, g.node[b].size)
      BY <3>1, <2>3, <1>5
    <3> QED
      BY <3>2, CellIs
  <2> QED
    BY <2>2, <2>3
<1>15. Block(a, size) \subseteq FreeCells(f)
  BY CellIs
<1> HIDE DEF size
<1>16. IsFiniteSet(FreeCells(f) \ Block(a, size)) /\
       Cardinality(FreeCells(f) \ Block(a, size)) =
          Cardinality(FreeCells(f)) - Cardinality(FreeCells(f) \cap Block(a, size))
  BY FS_Difference DEF Counted
<1>17. FreeCells(f) \cap Block(a, size) = Block(a, size)
  BY <1>15
<1>18. Cardinality(Block(a, size)) = size
  BY <1>4, BlockFinite
<1> QED
  BY <1>5, <1>13, <1>14, <1>16, <1>17, <1>18 DEF Counted, g, size

\* alloc takes the request out of a block that it fits into.
LEMMA CarveSound ==
  ASSUME NEW f, Counted(f), NEW size \in Nat \ {0}, NEW align \in Nat \ {0},
         NEW a \in Fitting(f, size, align)
  PROVE  /\ Counted(Carve(f, a, size, align))
         /\ FreeCells(Carve(f, a, size, align)) = FreeCells(f) \ Block(Up(a, align), size)
         /\ Block(Up(a, align), size) \subseteq FreeCells(f)
         /\ Up(a, align) \in Nat \ {0}
<1> DEFINE at == Up(a, align)
           end == a + f.node[a].size
           u == Unlink(f, a)
           v == InsertIfAny(u, a, at - a)
<1>1. a \in DOMAIN f.node /\ at + size <= end
  BY DEF Fitting
<1>2. a \in Nat \ {0} /\ f.node[a].size \in Nat \ {0}
  BY <1>1, LinksNat DEF Counted
<1>3. at \in Nat \ {0} /\ a <= at
  <2>1. (0 - a) % align \in 0 .. align - 1
    BY <1>2
  <2> QED
    BY <1>2, <2>1 DEF Up
<1>4. end \in Nat /\ at - a \in Nat /\ end - (at + size) \in Nat /\ at + size \in Nat \ {0}
  BY <1>1, <1>2, <1>3
<1>5. Carve(f, a, size, align) = InsertIfAny(v, at + size, end - (at + size))
  BY DEF Carve
<1>6. Block(a, f.node[a].size) \subseteq FreeCells(f)
  BY <1>1, CellIs
<1>7. Counted(u) /\ FreeCells(u) = FreeCells(f) \ Block(a, f.node[a].size)
  BY <1>1, UnlinkSound
<1> HIDE DEF at, u
<1>8. Block(a, at - a) \subseteq Block(a, f.node[a].size)
  BY <1>1, <1>2, <1>3 DEF Block, end
<1>9. /\ Counted(v)
      /\ FreeCells(v) = FreeCells(u) \cup Block(a, at - a)
  <2>1. Block(a, at - a) \cap FreeCells(u) = {}
    BY <1>7, <1>8
  <2> QED
    BY <2>1, <1>2, <1>4, <1>7, InsertSound
<1> HIDE DEF v
<1>10. Block(at + size, end - (at + size)) \cap FreeCells(v) = {}
  <2>1. Block(at + size, end - (at + size)) \subseteq Block(a, f.node[a].size)
    BY <1>1, <1>2, <1>3 DEF Block, end
  <2>2. Block(at + size, end - (at + size)) \cap Block(a, at - a) = {}
    BY <1>1, <1>2, <1>3 DEF Block, end
  <2> QED
    BY <2>1, <2>2, <1>7, <1>9
<1> HIDE DEF end
<1>11. /\ Counted(InsertIfAny(v, at + size, end - (at + size)))
       /\ FreeCells(InsertIfAny(v, at + size, end - (at + size))) =
             FreeCells(v) \cup Block(at + size, end - (at + size))
  BY <1>4, <1>9, <1>10, InsertSound
<1>12. /\ Block(at, size) \subseteq Block(a, f.node[a].size)
       /\ Block(a, f.node[a].size) \ Block(at, size) =
             Block(a, at - a) \cup Block(at + size, end - (at + size))
  BY <1>1, <1>2, <1>3 DEF Block, end
<1>13. (FreeCells(u) \cup Block(a, at - a)) \cup Block(at + size, end - (at + size))
          = FreeCells(f) \ Block(at, size)
  BY <1>6, <1>7, <1>12
<1> QED
  BY <1>3, <1>5, <1>6, <1>9, <1>11, <1>12, <1>13 DEF at

-----------------------------------------------------------------------------
(* The invariant *)

LEMMA SoundIsCounted ==
  ASSUME HeapSound PROVE Counted(fl)
<1>1. FreeCells(fl) \subseteq Region
  BY DEF HeapSound
<1>2. IsFiniteSet(Region)
  BY HeapAssumption, BlockFinite DEF Region
<1> QED
  BY <1>1, <1>2, FS_Subset DEF HeapSound, Counted

LEMMA LiveCellIs ==
  ASSUME NEW x
  PROVE  x \in LiveCells <=> \E b \in live : x \in Block(b.at, b.size)
BY DEF LiveCells

LEMMA FirstFitFits ==
  ASSUME ListOk(fl), NEW size, NEW align, Fitting(fl, size, align) # {}
  PROVE  FirstFit(fl, size, align) \in Fitting(fl, size, align)
<1>1. Fitting(fl, size, align) \subseteq Nat
  BY LinksNat DEF Fitting
<1>2. \E a \in Fitting(fl, size, align) : \A b \in Fitting(fl, size, align) : a <= b
  BY <1>1, HasLowest
<1> QED
  BY <1>2, Zenon DEF FirstFit

LEMMA InitSound ==
  ASSUME Init PROVE HeapSound
<1> DEFINE e == [free |-> 0, head |-> Null, node |-> [a \in {} |-> {}]]
<1>1. e.free = 0 /\ e.head = Null /\ DOMAIN e.node = {}
  OBVIOUS
<1>2. fl = Insert(e, Start, Units) /\ live = {}
  BY DEF Init
<1> HIDE DEF e
<1>3. ListOk(e)
  BY <1>1 DEF ListOk, Links
<1>4. FreeCells(e) = {}
  BY <1>1 DEF FreeCells
<1>5. Counted(e)
  BY <1>1, <1>3, <1>4, FS_EmptySet DEF Counted
<1>6. Start \in Nat \ {0} /\ Units \in Nat /\ Units > 0
  BY HeapAssumption
<1>7. Block(Start, Units) \cap FreeCells(e) = {}
  BY <1>4
<1>8. /\ Counted(InsertIfAny(e, Start, Units))
      /\ FreeCells(InsertIfAny(e, Start, Units)) = FreeCells(e) \cup Block(Start, Units)
  BY <1>5, <1>6, <1>7, InsertSound
<1>9. InsertIfAny(e, Start, Units) = fl
  BY <1>2, <1>6 DEF InsertIfAny
<1>10. LiveCells = {}
  BY <1>2 DEF LiveCells
<1> QED
  BY <1>2, <1>4, <1>8, <1>9, <1>10 DEF HeapSound, Counted, Region

LEMMA AllocSound ==
  ASSUME HeapSound, NEW size \in Sizes, NEW align \in Aligns, Alloc(size, align)
  PROVE  HeapSound'
<1> DEFINE a == FirstFit(fl, size, align)
           at == Up(a, align)
           b == [at |-> at, size |-> size]
<1>1. size \in Nat \ {0} /\ align \in Nat \ {0}
  BY HeapAssumption
<1>2. Counted(fl) /\ ListOk(fl)
  BY SoundIsCounted DEF Counted
<1>3. /\ Fitting(fl, size, align) # {}
      /\ fl' = Carve(fl, a, size, align)
      /\ live' = live \cup {b}
  BY DEF Alloc
<1>4. a \in Fitting(fl, size, align)
  BY <1>2, <1>3, FirstFitFits
<1>5. /\ Counted(fl')
      /\ FreeCells(fl') = FreeCells(fl) \ Block(at, size)
      /\ Block(at, size) \subseteq FreeCells(fl)
      /\ at \in Nat \ {0}
  BY <1>1, <1>2, <1>3, <1>4, CarveSound
<1> HIDE DEF a, at
<1>6. LiveCells' = LiveCells \cup Block(at, size)
  <2>1. ASSUME NEW x PROVE x \in LiveCells' <=> x \in LiveCells \cup Block(at, size)
    <3>1. x \in LiveCells' <=> \E c \in live' : x \in Block(c.at, c.size)
      BY DEF LiveCells
    <3>2. b.at = at /\ b.size = size
      OBVIOUS
    <3> QED
      BY <3>1, <3>2, <1>3, LiveCellIs
  <2> QED
    BY <2>1
<1>7. /\ FreeCells(fl) \cap LiveCells = {}
      /\ FreeCells(fl) \cup LiveCells = Region
      /\ live \subseteq [at : Nat \ {0}, size : Nat \ {0}]
      /\ \A c, d \in live : c # d => Block(c.at, c.size) \cap Block(d.at, d.size) = {}
  BY DEF HeapSound
<1>8. \A c \in live : Block(c.at, c.size) \cap Block(at, size) = {}
  BY <1>5, <1>7, LiveCellIs
<1>9. ASSUME NEW c \in live', NEW d \in live', c # d
      PROVE  Block(c.at, c.size) \cap Block(d.at, d.size) = {}
  <2>1. b.at = at /\ b.size = size
    OBVIOUS
  <2> QED
    BY <2>1, <1>3, <1>7, <1>8, <1>9
<1>10. live' \subseteq [at : Nat \ {0}, size : Nat \ {0}]
  BY <1>1, <1>3, <1>5, <1>7
<1>11. FreeCells(fl') \cap LiveCells' = {} /\ FreeCells(fl') \cup LiveCells' = Region
  BY <1>5, <1>6, <1>7
<1>12. Region' = Region
  BY DEF Region
<1> QED
  BY <1>5, <1>9, <1>10, <1>11, <1>12 DEF HeapSound, Counted

LEMMA DeallocSound ==
  ASSUME HeapSound, NEW b \in live, Dealloc(b)
  PROVE  HeapSound'
<1>1. Counted(fl)
  BY SoundIsCounted
<1>2. /\ FreeCells(fl) \cap LiveCells = {}
      /\ FreeCells(fl) \cup LiveCells = Region
      /\ live \subseteq [at : Nat \ {0}, size : Nat \ {0}]
      /\ \A c, d \in live : c # d => Block(c.at, c.size) \cap Block(d.at, d.size) = {}
  BY DEF HeapSound
<1>3. b.at \in Nat \ {0} /\ b.size \in Nat /\ b.size > 0
  BY <1>2
<1>4. Block(b.at, b.size) \cap FreeCells(fl) = {} /\ Block(b.at, b.size) \subseteq LiveCells
  BY <1>2, LiveCellIs
<1>5. fl' = InsertIfAny(fl, b.at, b.size) /\ live' = live \ {b}
  BY <1>3 DEF Dealloc, InsertIfAny
<1>6. Counted(fl') /\ FreeCells(fl') = FreeCells(fl) \cup Block(b.at, b.size)
  BY <1>1, <1>3, <1>4, <1>5, InsertSound
<1>7. LiveCells' = LiveCells \ Block(b.at, b.size)
  <2>1. ASSUME NEW x PROVE x \in LiveCells' <=> x \in LiveCells \ Block(b.at, b.size)
    <3>1. x \in LiveCells' <=> \E c \in live \ {b} : x \in Block(c.at, c.size)
      BY <1>5 DEF LiveCells
    <3> QED
      BY <3>1, <1>2, LiveCellIs
  <2> QED
    BY <2>1
<1>8. FreeCells(fl') \cap LiveCells' = {} /\ FreeCells(fl') \cup LiveCells' = Region
  BY <1>2, <1>4, <1>6, <1>7
<1>9. Region' = Region
  BY DEF Region
<1> QED
  BY <1>2, <1>5, <1>6, <1>8, <1>9 DEF HeapSound, Counted

LEMMA StepSound ==
  ASSUME HeapSound, [Next]_vars PROVE HeapSound'
<1>1. ASSUME NEW size \in Sizes, NEW align \in Aligns, Alloc(size, align) PROVE HeapSound'
  BY <1>1, AllocSound
<1>2. ASSUME NEW b \in live, Dealloc(b) PROVE HeapSound'
  BY <1>2, DeallocSound
<1>3. CASE UNCHANGED vars
  BY <1>3 DEF vars, HeapSound, LiveCells, Region
<1> QED
  BY <1>1, <1>2, <1>3 DEF Next

(* Through any sequence of alloc and dealloc the list stays sorted and     *)
(* coalesced and every unit of the region is in one block, free or in use  *)
(* (heap.rs:56-116).                                                       *)
THEOREM HeapIsSound == Spec => []HeapSound
<1>1. Init => HeapSound
  BY InitSound
<1>2. HeapSound /\ [Next]_vars => HeapSound'
  BY StepSound
<1> QED
  BY <1>1, <1>2, PTL DEF Spec

\* A run of free units lies in one block, as neighbours have coalesced.
LEMMA RunInBlock ==
  ASSUME NEW f, ListOk(f), NEW at \in Nat, NEW size \in Nat \ {0},
         Block(at, size) \subseteq FreeCells(f)
  PROVE  \E a \in DOMAIN f.node : a <= at /\ at + size <= a + f.node[a].size
<1>1. at \in Block(at, size)
  BY DEF Block
<1>2. PICK a \in DOMAIN f.node : at \in Block(a, f.node[a].size)
  BY <1>1, CellIs
<1>3. \A b \in DOMAIN f.node : b \in Nat /\ f.node[b].size \in Nat \ {0}
  BY LinksNat
<1>4. ASSUME a + f.node[a].size < at + size PROVE FALSE
  <2>1. a + f.node[a].size \in Block(at, size)
    BY <1>2, <1>3, <1>4 DEF Block
  <2>2. PICK b \in DOMAIN f.node : a + f.node[a].size \in Block(b, f.node[b].size)
    BY <2>1, CellIs
  <2>3. b <= a + f.node[a].size /\ a + f.node[a].size < b + f.node[b].size
    BY <2>2, <1>3 DEF Block
  <2>4. a < b \/ b < a \/ a = b
    BY <1>3
  <2>5. (a < b => a + f.node[a].size < b) /\ (b < a => b + f.node[b].size < a)
    BY DEF ListOk
  <2>6. /\ a \in Nat /\ b \in Nat
        /\ f.node[a].size \in Nat \ {0} /\ f.node[b].size \in Nat \ {0}
    BY <1>3
  <2> QED
    BY <2>3, <2>4, <2>5, <2>6
<1>5. a <= at
  BY <1>2, <1>3 DEF Block
<1> QED
  BY <1>3, <1>4, <1>5

(* alloc fails only if no run of free memory holds the request, aligned as *)
(* it asks (heap.rs:90-109).                                               *)
THEOREM NoFalseOomHolds == Spec => []NoFalseOom
<1>1. HeapSound => NoFalseOom
  <2> SUFFICES ASSUME HeapSound, NEW size \in Sizes, NEW align \in Aligns, NEW at \in Region,
                      at % align = 0, Block(at, size) \subseteq FreeCells(fl)
               PROVE  Fitting(fl, size, align) # {}
    BY DEF NoFalseOom
  <2>1. size \in Nat \ {0} /\ align \in Nat \ {0} /\ at \in Nat
    BY HeapAssumption DEF Region, Block
  <2>2. ListOk(fl)
    BY DEF HeapSound
  <2>3. PICK a \in DOMAIN fl.node : a <= at /\ at + size <= a + fl.node[a].size
    BY <2>1, <2>2, RunInBlock
  <2>4. a \in Nat /\ fl.node[a].size \in Nat
    BY <2>2, LinksNat
  <2>5. Up(a, align) \in Nat /\ Up(a, align) <= at
    BY <2>1, <2>3, <2>4, ModUp
  <2>6. Up(a, align) + size <= a + fl.node[a].size
    BY <2>1, <2>3, <2>4, <2>5
  <2> QED
    BY <2>6 DEF Fitting
<1> QED
  BY <1>1, HeapIsSound, PTL
=============================================================================
