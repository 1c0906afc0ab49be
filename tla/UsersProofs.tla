----------------------------- MODULE UsersProofs -----------------------------
(***************************************************************************)
(* Proofs about Vfs and Users, for any accounts, packages, mount points    *)
(* and sizes: the tree stays one, what persist stores of it is what load   *)
(* gives back, the working directory is lost to a purge alone, and no user *)
(* loses a home that a tree holds.  Each recursive walk of Vfs has a lemma *)
(* ...Steps that says what it is, turn by turn; the rest goes by induction *)
(* over turns.                                                             *)
(***************************************************************************)
EXTENDS Users, SequenceTheorems, FiniteSetTheorems, TLAPS

-----------------------------------------------------------------------------
(* Numbers and sequences *)

\* A nonempty set of numbers has a least one.
LEMMA MinIs ==
  ASSUME NEW S \in SUBSET Nat, S # {}
  PROVE  Min(S) \in S /\ \A x \in S : Min(S) <= x
<1>1. PICK x \in S : \A y \in S : <<y, x>> \notin OpToRel(<, Nat)
  BY NatLessThanWellFounded, WFMin
<1>2. ASSUME NEW y \in S PROVE x <= y
  <2>1. <<y, x>> \notin OpToRel(<, Nat) /\ x \in Nat /\ y \in Nat
    BY <1>1
  <2> QED
    BY <2>1 DEF OpToRel
<1>3. \E z \in S : \A y \in S : z =< y
  BY <1>2
<1> QED
  BY <1>3 DEF Min

\* A nonempty set of numbers with a bound has a largest one.
LEMMA MaxIs ==
  ASSUME NEW n \in Nat, NEW S \in SUBSET (0 .. n), S # {}
  PROVE  Max(S) \in S /\ \A x \in S : Max(S) >= x
<1> DEFINE T == { n - x : x \in S }
<1>1. T \in SUBSET Nat /\ T # {}
  <2>1. ASSUME NEW x \in S PROVE n - x \in Nat
    <3>1. x \in 0 .. n
      OBVIOUS
    <3> QED
      BY <3>1
  <2>2. \A t \in T : t \in Nat
    BY <2>1
  <2>3. PICK x : x \in S
    OBVIOUS
  <2>4. n - x \in T
    BY <2>3
  <2> QED
    BY <2>2, <2>4
<1>2. PICK t \in T : \A u \in T : t <= u
  BY <1>1, MinIs, Zenon
<1>3. PICK x \in S : t = n - x
  BY <1>2
<1>4. ASSUME NEW y \in S PROVE x >= y
  <2>1. n - y \in T
    OBVIOUS
  <2>2. n - x <= n - y
    BY <1>2, <1>3, <2>1
  <2> QED
    BY <2>2
<1>5. \E z \in S : \A y \in S : z >= y
  BY <1>4
<1> QED
  BY <1>5 DEF Max

\* Induction over the numbers, as a fact about sets.
LEMMA NatInduct ==
  ASSUME NEW S, 0 \in S, \A n \in S \cap Nat : n + 1 \in S
  PROVE  \A n \in Nat : n \in S
<1> SUFFICES ASSUME Nat \ S # {} PROVE FALSE
  OBVIOUS
<1>1. PICK x \in Nat \ S : \A y \in Nat \ S : x <= y
  BY MinIs, Nat \ S \in SUBSET Nat, Zenon
<1>2. x \in Nat /\ x # 0
  BY <1>1
<1>3. x - 1 \in Nat /\ (x - 1) + 1 = x /\ x - 1 < x
  BY <1>2
<1>4. x - 1 \in S
  BY <1>1, <1>3
<1> QED
  BY <1>1, <1>3, <1>4

IsSeq(s) == Len(s) \in Nat /\ s = [k \in 1 .. Len(s) |-> s[k]]

\* A sequence is one of its own elements.
LEMMA OwnSeq == ASSUME NEW s, IsSeq(s), NEW e PROVE s \in Seq(Range(s) \cup {e})
BY DEF IsSeq, Range

\* A sequence over a set is a function on 1 .. Len(s).
LEMMA SeqIs == ASSUME NEW S, NEW s \in Seq(S) PROVE IsSeq(s)
BY DEF IsSeq

\* So is the empty one.
LEMMA EmptyIsSeq == IsSeq(<< >>) /\ Len(<< >>) = 0
BY DEF IsSeq

\* What Append makes.
LEMMA Appended ==
  ASSUME NEW s, IsSeq(s), NEW e
  PROVE  /\ IsSeq(Append(s, e)) /\ Len(Append(s, e)) = Len(s) + 1
         /\ \A k \in 1 .. Len(s) : Append(s, e)[k] = s[k]
         /\ Append(s, e)[Len(s) + 1] = e
         /\ Range(Append(s, e)) = Range(s) \cup {e}
<1>1. s \in Seq(Range(s) \cup {e})
  BY OwnSeq
<1>2. /\ Append(s, e) \in Seq(Range(s) \cup {e}) /\ Len(Append(s, e)) = Len(s) + 1
      /\ \A k \in 1 .. Len(s) : Append(s, e)[k] = s[k]
      /\ Append(s, e)[Len(s) + 1] = e
  BY <1>1, AppendProperties
<1>3. IsSeq(Append(s, e))
  BY <1>2, SeqIs
<1>4. DOMAIN Append(s, e) = 1 .. (Len(s) + 1) /\ DOMAIN s = 1 .. Len(s) /\ Len(s) \in Nat
  BY <1>2, <1>3 DEF IsSeq
<1>5. Range(Append(s, e)) \subseteq Range(s) \cup {e}
  BY <1>2, <1>4 DEF Range
<1>6. Range(s) \cup {e} \subseteq Range(Append(s, e))
  <2>1. \A k \in 1 .. Len(s) : k \in 1 .. (Len(s) + 1)
    BY <1>4
  <2> QED
    BY <1>2, <1>4, <2>1 DEF Range
<1> QED
  BY <1>2, <1>3, <1>5, <1>6

\* What EXCEPT makes of a sequence.
LEMMA Replaced ==
  ASSUME NEW s, IsSeq(s), NEW i \in 1 .. Len(s), NEW e
  PROVE  /\ IsSeq([s EXCEPT ![i] = e]) /\ Len([s EXCEPT ![i] = e]) = Len(s)
         /\ \A k \in 1 .. Len(s) : [s EXCEPT ![i] = e][k] = IF k = i THEN e ELSE s[k]
<1>1. s \in Seq(Range(s) \cup {e})
  BY OwnSeq
<1>2. /\ [s EXCEPT ![i] = e] \in Seq(Range(s) \cup {e})
      /\ Len([s EXCEPT ![i] = e]) = Len(s)
      /\ \A k \in 1 .. Len(s) : [s EXCEPT ![i] = e][k] = IF k = i THEN e ELSE s[k]
  BY <1>1, ExceptSeq
<1> QED
  BY <1>2, SeqIs

\* What Tail leaves.
LEMMA Tailed ==
  ASSUME NEW s, IsSeq(s), s # << >>
  PROVE  /\ IsSeq(Tail(s)) /\ Len(Tail(s)) = Len(s) - 1 /\ Head(s) = s[1] /\ Len(s) >= 1
         /\ \A k \in 1 .. Len(s) - 1 : Tail(s)[k] = s[k + 1]
<1>1. s \in Seq(Range(s) \cup {0})
  BY OwnSeq
<1>2. /\ Tail(s) \in Seq(Range(s) \cup {0}) /\ Len(Tail(s)) = Len(s) - 1
      /\ \A k \in 1 .. Len(Tail(s)) : Tail(s)[k] = s[k + 1]
  BY <1>1, HeadTailProperties
<1>3. Len(s) >= 1
  BY <1>2 DEF IsSeq
<1>4. IsSeq(Tail(s)) /\ Len(Tail(s)) = Len(s) - 1
  BY <1>2, SeqIs
<1>5. Head(s) = s[1]
  OBVIOUS
<1>6. \A k \in 1 .. Len(s) - 1 : Tail(s)[k] = s[k + 1]
  BY <1>2
<1> QED
  BY <1>3, <1>4, <1>5, <1>6

\* The sequence without elements is the empty one.
LEMMA NoneIsEmpty == ASSUME NEW s, IsSeq(s), Len(s) = 0 PROVE s = << >>
BY DEF IsSeq

\* What occurs in a sequence.
LEMMA RangeIs ==
  ASSUME NEW s, IsSeq(s)
  PROVE  DOMAIN s = 1 .. Len(s) /\ Range(s) = { s[k] : k \in 1 .. Len(s) }
BY DEF IsSeq, Range

\* Appending what is not there keeps a sequence without repetitions.
LEMMA AppendInj ==
  ASSUME NEW s, IsSeq(s), IsInjective(s), NEW e, e \notin Range(s)
  PROVE  IsInjective(Append(s, e))
<1>1. PICK t : t = Append(s, e)
  OBVIOUS
<1>2. /\ DOMAIN t = 1 .. (Len(s) + 1) /\ t[Len(s) + 1] = e /\ Len(s) \in Nat
      /\ \A k \in 1 .. Len(s) : t[k] = s[k]
  <2>1. IsSeq(t) /\ Len(t) = Len(s) + 1 /\ t[Len(s) + 1] = e /\ \A k \in 1 .. Len(s) : t[k] = s[k]
    BY <1>1, Appended
  <2> QED
    BY <2>1, RangeIs DEF IsSeq
<1>3. \A k \in 1 .. Len(s) : t[k] = s[k] /\ t[k] # e
  BY <1>2, RangeIs
<1>4. \A a, b \in 1 .. Len(s) : s[a] = s[b] => a = b
  BY RangeIs DEF IsInjective
<1>5. \A a \in 1 .. (Len(s) + 1) : a \in 1 .. Len(s) \/ a = Len(s) + 1
  BY <1>2
<1>6. \A a, b \in 1 .. (Len(s) + 1) : t[a] = t[b] => a = b
  BY <1>2, <1>3, <1>4, <1>5
<1> QED
  BY <1>1, <1>2, <1>6 DEF IsInjective

-----------------------------------------------------------------------------
(* Arenas that are trees *)

IsNode(n) ==
  /\ n = [name |-> n.name, is_dir |-> n.is_dir, children |-> n.children,
          data |-> n.data, parent |-> n.parent]
  /\ n.is_dir \in BOOLEAN /\ IsSeq(n.children) /\ n.parent \in Nat

\* The arena is a sequence of nodes.
Shape(nodes) == IsSeq(nodes) /\ \A i \in 1 .. Len(nodes) : IsNode(nodes[i])

\* An entry comes after its directory, which is its parent, and no two have a name.
Kin(nodes) ==
  \A i \in 1 .. Len(nodes) :
    /\ IsInjective(nodes[i].children)
    /\ \A c \in Range(nodes[i].children) :
         /\ c \in 1 .. Len(nodes) /\ i < c /\ nodes[c].parent = i
         /\ \A d \in Range(nodes[i].children) : nodes[c].name = nodes[d].name => c = d

\* The root is the first node; the others have a parent before them.
Rooted(nodes) ==
  \A i \in 1 .. Len(nodes) :
    IF i = Root THEN nodes[i].name = "/" /\ nodes[i].is_dir /\ nodes[i].parent = Root
    ELSE nodes[i].parent \in 1 .. i - 1

\* What lies in a directory of the root is a directory, but in /etc.
PlaceOk(nodes, i) ==
  ~nodes[i].is_dir =>
    LET p == nodes[i].parent IN nodes[p].parent = Root => nodes[p].name = "etc"
Places(nodes) == \A i \in 1 .. Len(nodes) : PlaceOk(nodes, i)

Sound(nodes) == Shape(nodes) /\ Kin(nodes) /\ Rooted(nodes) /\ Places(nodes)

Arena(f) ==
  f = [nodes |-> f.nodes, cwd |-> f.cwd] /\ Len(f.nodes) >= 1 /\ Sound(f.nodes)

\* What an arena keeps when nodes are added to it.
Extends(f, g) ==
  /\ Len(f.nodes) <= Len(g.nodes) /\ g.cwd = f.cwd
  /\ \A i \in 1 .. Len(f.nodes) :
       /\ g.nodes[i].name = f.nodes[i].name /\ g.nodes[i].is_dir = f.nodes[i].is_dir
       /\ g.nodes[i].parent = f.nodes[i].parent
       /\ Range(f.nodes[i].children) \subseteq Range(g.nodes[i].children)

\* Indices of an arena, and what is none.
LEMMA Numbers ==
  ASSUME NEW nodes, Shape(nodes), Len(nodes) >= 1
  PROVE  /\ Len(nodes) \in Nat /\ DOMAIN nodes = 1 .. Len(nodes) /\ Root \in 1 .. Len(nodes)
         /\ NoNode \notin 1 .. Len(nodes)
BY DEF Shape, IsSeq, Root, NoNode

\* A node with other entries, or with other data.
LEMMA NewEntries ==
  ASSUME NEW n, IsNode(n), NEW s, IsSeq(s)
  PROVE  LET m == [n EXCEPT !.children = s]
         IN  /\ IsNode(m) /\ m.children = s /\ m.name = n.name /\ m.is_dir = n.is_dir
             /\ m.data = n.data /\ m.parent = n.parent
BY DEF IsNode

\* write gives a node other data, and nothing else.
LEMMA NewData ==
  ASSUME NEW n, IsNode(n), NEW s
  PROVE  LET m == [n EXCEPT !.data = s]
         IN  /\ IsNode(m) /\ m.children = n.children /\ m.name = n.name
             /\ m.is_dir = n.is_dir /\ m.data = s /\ m.parent = n.parent
BY DEF IsNode

\* What NewNode makes.
LEMMA NewNodeIs ==
  ASSUME NEW name, NEW is_dir \in BOOLEAN, NEW parent \in Nat
  PROVE  LET n == NewNode(name, is_dir, parent)
         IN  /\ IsNode(n) /\ n.name = name /\ n.is_dir = is_dir /\ n.parent = parent
             /\ n.children = << >> /\ n.data = << >>
BY EmptyIsSeq DEF IsNode, NewNode

\* The nodes after Attach: one more, which its parent lists last.
LEMMA GrownFields ==
  ASSUME NEW nodes, Shape(nodes), NEW p \in 1 .. Len(nodes), NEW x, IsNode(x)
  PROVE  LET m == Attach(nodes, p, x)
         IN  /\ Shape(m) /\ Len(m) = Len(nodes) + 1 /\ m[Len(nodes) + 1] = x
             /\ \A i \in 1 .. Len(nodes) :
                  /\ m[i].name = nodes[i].name /\ m[i].is_dir = nodes[i].is_dir
                  /\ m[i].data = nodes[i].data /\ m[i].parent = nodes[i].parent
                  /\ m[i].children = IF i = p THEN Append(nodes[i].children, Len(nodes) + 1)
                                     ELSE nodes[i].children
<1>1. PICK e, t, m : /\ e = [nodes[p] EXCEPT !.children = Append(@, Len(nodes) + 1)]
                     /\ t = [nodes EXCEPT ![p] = e]
                     /\ m = Append(t, x)
  OBVIOUS
<1>0. m = Attach(nodes, p, x)
  BY <1>1 DEF Attach
<1>2. IsSeq(nodes) /\ \A i \in 1 .. Len(nodes) : IsNode(nodes[i])
  BY DEF Shape
<1>3. IsSeq(Append(nodes[p].children, Len(nodes) + 1))
  BY <1>2, Appended DEF IsNode
<1>4. /\ IsNode(e) /\ e.name = nodes[p].name /\ e.is_dir = nodes[p].is_dir
      /\ e.data = nodes[p].data /\ e.parent = nodes[p].parent
      /\ e.children = Append(nodes[p].children, Len(nodes) + 1)
  BY <1>1, <1>2, <1>3, NewEntries
<1>5. /\ IsSeq(t) /\ Len(t) = Len(nodes)
      /\ \A k \in 1 .. Len(nodes) : t[k] = IF k = p THEN e ELSE nodes[k]
  <2>1. IsSeq(nodes) /\ t = [nodes EXCEPT ![p] = e]
    BY <1>1, <1>2
  <2>2. IsSeq(t)
    BY <2>1, Replaced
  <2>3. Len(t) = Len(nodes)
    BY <2>1, Replaced
  <2>4. \A k \in 1 .. Len(nodes) : t[k] = IF k = p THEN e ELSE nodes[k]
    BY <2>1, Replaced
  <2> QED
    BY <2>2, <2>3, <2>4
<1>6. /\ IsSeq(m) /\ Len(m) = Len(nodes) + 1 /\ m[Len(nodes) + 1] = x
      /\ \A k \in 1 .. Len(nodes) : m[k] = t[k]
  BY <1>1, <1>5, Appended
<1>7. Len(nodes) \in Nat
  BY <1>2 DEF IsSeq
<1>8. \A i \in 1 .. (Len(nodes) + 1) : i \in 1 .. Len(nodes) \/ i = Len(nodes) + 1
  BY <1>7
<1>9. ASSUME NEW i \in 1 .. (Len(nodes) + 1) PROVE IsNode(m[i])
  BY <1>2, <1>4, <1>5, <1>6, <1>8
<1>10. Shape(m)
  BY <1>6, <1>9 DEF Shape
<1>11. ASSUME NEW i \in 1 .. Len(nodes)
       PROVE  /\ m[i].name = nodes[i].name /\ m[i].is_dir = nodes[i].is_dir
              /\ m[i].data = nodes[i].data /\ m[i].parent = nodes[i].parent
              /\ m[i].children = IF i = p THEN Append(nodes[i].children, Len(nodes) + 1)
                                 ELSE nodes[i].children
  <2>1. m[i] = IF i = p THEN e ELSE nodes[i]
    BY <1>5, <1>6
  <2>2. CASE i = p
    BY <2>1, <2>2, <1>4
  <2>3. CASE i # p
    BY <2>1, <2>3
  <2> QED
    BY <2>2, <2>3
<1> QED
  BY <1>0, <1>6, <1>10, <1>11

\* Attach keeps the arena a tree, where nothing has that name yet.
LEMMA GrownSound ==
  ASSUME NEW nodes, Sound(nodes), NEW p \in 1 .. Len(nodes), NEW x, IsNode(x),
         x.children = << >>, x.parent = p,
         \A c \in Range(nodes[p].children) : nodes[c].name # x.name,
         x.is_dir \/ (nodes[p].parent = Root => nodes[p].name = "etc")
  PROVE  Sound(Attach(nodes, p, x))
<1>1. PICK m : m = Attach(nodes, p, x)
  OBVIOUS
<1>2. PICK n : n = Len(nodes)
  OBVIOUS
<1>3. /\ Shape(m) /\ Len(m) = n + 1 /\ m[n + 1] = x
      /\ \A i \in 1 .. n :
           /\ m[i].name = nodes[i].name /\ m[i].is_dir = nodes[i].is_dir
           /\ m[i].parent = nodes[i].parent
           /\ m[i].children = IF i = p THEN Append(nodes[i].children, n + 1)
                              ELSE nodes[i].children
  BY <1>1, <1>2, GrownFields DEF Sound
<1>4. n \in Nat /\ p \in 1 .. n /\ (\A i \in 1 .. (n + 1) : i \in 1 .. n \/ i = n + 1)
      /\ (\A i \in 1 .. n : i \in 1 .. (n + 1) /\ i < n + 1 /\ i # n + 1) /\ n + 1 # Root
  BY <1>2 DEF Sound, Shape, IsSeq, Root
<1>5. \A i \in 1 .. n : IsNode(nodes[i]) /\ IsSeq(nodes[i].children)
  BY <1>2 DEF Sound, Shape, IsNode
<1>6. /\ Range(m[p].children) = Range(nodes[p].children) \cup {n + 1}
      /\ \A k \in 1 .. Len(nodes[p].children) : m[p].children[k] = nodes[p].children[k]
      /\ m[p].children[Len(nodes[p].children) + 1] = n + 1
      /\ Len(m[p].children) = Len(nodes[p].children) + 1 /\ IsSeq(m[p].children)
  <2>1. m[p].children = Append(nodes[p].children, n + 1) /\ IsSeq(nodes[p].children)
    BY <1>3, <1>4, <1>5
  <2> QED
    BY <2>1, Appended
<1>7. \A i \in 1 .. n : i # p => m[i].children = nodes[i].children
  BY <1>3
<1>8. \A i \in 1 .. n : \A c \in Range(nodes[i].children) :
        /\ c \in 1 .. n /\ i < c /\ nodes[c].parent = i
        /\ \A d \in Range(nodes[i].children) : nodes[c].name = nodes[d].name => c = d
  BY <1>2 DEF Sound, Kin
<1>9. \A c \in Range(nodes[p].children) : m[c].name # x.name
  BY <1>3, <1>4, <1>8
<1>10. ASSUME NEW i \in 1 .. (n + 1) PROVE IsInjective(m[i].children)
  <2>1. CASE i = n + 1
    BY <1>3, <2>1, EmptyIsSeq DEF IsInjective
  <2>2. CASE i \in 1 .. n /\ i # p
    BY <1>2, <1>7, <2>2 DEF Sound, Kin
  <2>3. CASE i = p
    <3>1. m[p].children = Append(nodes[p].children, n + 1) /\ IsSeq(nodes[p].children)
      BY <1>3, <1>4, <1>5
    <3>2. n + 1 \notin Range(nodes[p].children)
      BY <1>4, <1>8
    <3>3. IsInjective(nodes[p].children)
      BY <1>2, <1>4 DEF Sound, Kin
    <3> QED
      BY <2>3, <3>1, <3>2, <3>3, AppendInj
  <2> QED
    BY <1>4, <2>1, <2>2, <2>3
<1>11. ASSUME NEW i \in 1 .. (n + 1), NEW c \in Range(m[i].children)
       PROVE  /\ c \in 1 .. (n + 1) /\ i < c /\ m[c].parent = i
              /\ \A d \in Range(m[i].children) : m[c].name = m[d].name => c = d
  <2>1. CASE i = n + 1
    BY <1>3, <2>1, EmptyIsSeq, RangeIs
  <2>2. CASE i \in 1 .. n /\ i # p
    <3>1. m[i].children = nodes[i].children
      BY <1>7, <2>2
    <3>2. \A d \in Range(nodes[i].children) :
             d \in 1 .. n /\ m[d].name = nodes[d].name /\ m[d].parent = nodes[d].parent
      BY <1>3, <1>8, <2>2
    <3> QED
      BY <1>4, <1>8, <2>2, <3>1, <3>2
  <2>3. CASE i = p
    <3>1. c \in Range(nodes[p].children) \/ c = n + 1
      BY <1>6, <2>3
    <3>2. \A d \in Range(nodes[p].children) :
             d \in 1 .. n /\ m[d].name = nodes[d].name /\ m[d].parent = nodes[d].parent
      BY <1>3, <1>4, <1>8
    <3>3. CASE c = n + 1
      <4>1. c \in 1 .. (n + 1) /\ p < c /\ m[c].parent = p
        BY <1>3, <1>4, <3>3
      <4>2. \A d \in Range(m[p].children) : m[c].name = m[d].name => c = d
        BY <1>3, <1>6, <1>9, <3>3
      <4> QED
        BY <2>3, <4>1, <4>2
    <3>4. CASE c \in Range(nodes[p].children)
      <4>1. c \in 1 .. (n + 1) /\ p < c /\ m[c].parent = p
        BY <1>4, <1>8, <3>2, <3>4
      <4>2. ASSUME NEW d \in Range(m[p].children), m[c].name = m[d].name PROVE c = d
        <5>1. d # n + 1
          BY <1>3, <1>9, <3>4, <4>2
        <5>2. d \in Range(nodes[p].children)
          BY <1>6, <5>1
        <5> QED
          BY <1>4, <1>8, <3>2, <3>4, <4>2, <5>2
      <4> QED
        BY <2>3, <4>1, <4>2
    <3> QED
      BY <3>1, <3>3, <3>4
  <2> QED
    BY <1>4, <2>1, <2>2, <2>3
<1>12. Kin(m)
  BY <1>3, <1>10, <1>11 DEF Kin
<1>13. Rooted(m)
  <2> SUFFICES ASSUME NEW i \in 1 .. (n + 1)
               PROVE  IF i = Root THEN m[i].name = "/" /\ m[i].is_dir /\ m[i].parent = Root
                      ELSE m[i].parent \in 1 .. i - 1
    BY <1>3 DEF Rooted
  <2>1. CASE i = n + 1
    BY <1>3, <1>4, <2>1
  <2>2. CASE i \in 1 .. n
    BY <1>2, <1>3, <2>2 DEF Sound, Rooted
  <2> QED
    BY <1>4, <2>1, <2>2
<1>14. \A i \in 1 .. n : nodes[i].parent \in 1 .. n
  BY <1>2, <1>4 DEF Sound, Rooted, Root
<1>15. Places(m)
  <2> SUFFICES ASSUME NEW i \in 1 .. (n + 1) PROVE PlaceOk(m, i)
    BY <1>3 DEF Places
  <2>1. CASE i = n + 1
    BY <1>3, <1>4, <2>1 DEF PlaceOk
  <2>2. CASE i \in 1 .. n
    <3>1. PlaceOk(nodes, i)
      BY <1>2, <2>2 DEF Sound, Places
    <3> QED
      BY <1>3, <1>14, <2>2, <3>1 DEF PlaceOk
  <2> QED
    BY <1>4, <2>1, <2>2
<1> QED
  BY <1>1, <1>3, <1>12, <1>13, <1>15 DEF Sound

-----------------------------------------------------------------------------
(* The recursive walks, step by step *)

\* Resolve goes through the path name by name.
ResolveWalk(f, start, path, h) ==
  /\ h[0] = start
  /\ \A k \in 1 .. Len(path) :
       h[k] = IF h[k - 1] = NoNode THEN NoNode ELSE Child(f, h[k - 1], path[k])
  /\ Resolve(f, start, path) = h[Len(path)]

\* resolve, name by name.
LEMMA ResolveSteps ==
  ASSUME NEW f, NEW start, NEW path, Len(path) \in Nat
  PROVE  \E h : ResolveWalk(f, start, path, h)
<1> DEFINE Base == start
           Step(v, k) == IF v = NoNode THEN NoNode ELSE Child(f, v, path[k])
           last == Len(path)
           Walk(g, n) == /\ g = [k \in 0 .. n |-> g[k]]
                         /\ g[0] = Base /\ \A k \in 1 .. n : g[k] = Step(g[k - 1], k)
           G == { n \in Nat : \E g : Walk(g, n) }
           Def(h) == [k \in 0 .. last |-> IF k = 0 THEN Base ELSE Step(h[k - 1], k)]
           h == CHOOSE h : h = Def(h)
<1>1. last \in Nat
  OBVIOUS
<1>2. Resolve(f, start, path) = h[last]
  BY DEF Resolve
<1> HIDE DEF Base, Step, last
<1>3. 0 \in G
  <2>1. Walk([k \in 0 .. 0 |-> Base], 0)
    OBVIOUS
  <2> QED
    BY <2>1, Zenon
<1>4. ASSUME NEW n \in G PROVE n + 1 \in G
  <2>1. PICK g : Walk(g, n)
    BY <1>4
  <2>2. PICK w : w = [k \in 0 .. (n + 1) |-> IF k = n + 1 THEN Step(g[n], k) ELSE g[k]]
    OBVIOUS
  <2>3. n \in Nat /\ n + 1 \in Nat
    BY <1>4
  <2>4. w = [k \in 0 .. (n + 1) |-> w[k]] /\ w[0] = Base
    BY <2>1, <2>2, <2>3
  <2>5. ASSUME NEW k \in 1 .. (n + 1) PROVE w[k] = Step(w[k - 1], k)
    <3>1. CASE k = n + 1
      <4>1. k \in 0 .. (n + 1) /\ n \in 0 .. (n + 1) /\ k - 1 = n /\ n # n + 1
        BY <2>3, <3>1
      <4>2. w[k] = Step(g[n], k) /\ w[n] = g[n]
        BY <2>2, <3>1, <4>1
      <4> QED
        BY <4>1, <4>2
    <3>2. CASE k # n + 1
      <4>1. k \in 1 .. n /\ k \in 0 .. (n + 1) /\ k - 1 \in 0 .. (n + 1) /\ k - 1 # n + 1
        BY <2>3, <3>2
      <4>2. w[k] = g[k] /\ w[k - 1] = g[k - 1]
        BY <2>2, <3>2, <4>1
      <4> QED
        BY <2>1, <4>1, <4>2
    <3> QED
      BY <3>1, <3>2
  <2>6. Walk(w, n + 1)
    BY <2>4, <2>5
  <2> QED
    BY <2>3, <2>6
<1>5. last \in G
  <2> HIDE DEF G
  <2> QED
    BY <1>1, <1>3, <1>4, NatInduct
<1>6. PICK g : Walk(g, last)
  BY <1>5
<1>7. g = Def(g)
  <2>1. ASSUME NEW k \in 0 .. last PROVE g[k] = IF k = 0 THEN Base ELSE Step(g[k - 1], k)
    <3>1. k = 0 \/ k \in 1 .. last
      BY <1>1
    <3> QED
      BY <1>1, <1>6, <3>1
  <2> QED
    BY <1>6, <2>1
<1>8. h = Def(h)
  BY <1>7, Zenon
<1> HIDE DEF h
<1>9. h[0] = Base
  <2>1. 0 \in 0 .. last
    BY <1>1
  <2> QED
    BY <1>8, <2>1
<1>10. ASSUME NEW k \in 1 .. last PROVE h[k] = Step(h[k - 1], k)
  <2>1. k \in 0 .. last /\ k # 0
    BY <1>1
  <2> QED
    BY <1>8, <2>1
<1> QED
  BY <1>2, <1>9, <1>10, Zenon DEF Base, Step, last, ResolveWalk

\* So does mkdir_p, ...
MkdirWalk(f, start, path, h) ==
  /\ h[0] = [fs |-> f, cur |-> start]
  /\ \A k \in 1 .. Len(path) : h[k] = Descend(h[k - 1], path[k])
  /\ MkdirP(f, start, path) = h[Len(path)].fs

\* mkdir_p, name by name.
LEMMA MkdirSteps ==
  ASSUME NEW f, NEW start, NEW path, Len(path) \in Nat
  PROVE  \E h : MkdirWalk(f, start, path, h)
<1> DEFINE Base == [fs |-> f, cur |-> start]
           Step(v, k) == Descend(v, path[k])
           last == Len(path)
           Walk(g, n) == /\ g = [k \in 0 .. n |-> g[k]]
                         /\ g[0] = Base /\ \A k \in 1 .. n : g[k] = Step(g[k - 1], k)
           G == { n \in Nat : \E g : Walk(g, n) }
           Def(h) == [k \in 0 .. last |-> IF k = 0 THEN Base ELSE Step(h[k - 1], k)]
           h == CHOOSE h : h = Def(h)
<1>1. last \in Nat
  OBVIOUS
<1>2. MkdirP(f, start, path) = h[last].fs
  BY DEF MkdirP
<1> HIDE DEF Base, Step, last
<1>3. 0 \in G
  <2>1. Walk([k \in 0 .. 0 |-> Base], 0)
    OBVIOUS
  <2> QED
    BY <2>1, Zenon
<1>4. ASSUME NEW n \in G PROVE n + 1 \in G
  <2>1. PICK g : Walk(g, n)
    BY <1>4
  <2>2. PICK w : w = [k \in 0 .. (n + 1) |-> IF k = n + 1 THEN Step(g[n], k) ELSE g[k]]
    OBVIOUS
  <2>3. n \in Nat /\ n + 1 \in Nat
    BY <1>4
  <2>4. w = [k \in 0 .. (n + 1) |-> w[k]] /\ w[0] = Base
    BY <2>1, <2>2, <2>3
  <2>5. ASSUME NEW k \in 1 .. (n + 1) PROVE w[k] = Step(w[k - 1], k)
    <3>1. CASE k = n + 1
      <4>1. k \in 0 .. (n + 1) /\ n \in 0 .. (n + 1) /\ k - 1 = n /\ n # n + 1
        BY <2>3, <3>1
      <4>2. w[k] = Step(g[n], k) /\ w[n] = g[n]
        BY <2>2, <3>1, <4>1
      <4> QED
        BY <4>1, <4>2
    <3>2. CASE k # n + 1
      <4>1. k \in 1 .. n /\ k \in 0 .. (n + 1) /\ k - 1 \in 0 .. (n + 1) /\ k - 1 # n + 1
        BY <2>3, <3>2
      <4>2. w[k] = g[k] /\ w[k - 1] = g[k - 1]
        BY <2>2, <3>2, <4>1
      <4> QED
        BY <2>1, <4>1, <4>2
    <3> QED
      BY <3>1, <3>2
  <2>6. Walk(w, n + 1)
    BY <2>4, <2>5
  <2> QED
    BY <2>3, <2>6
<1>5. last \in G
  <2> HIDE DEF G
  <2> QED
    BY <1>1, <1>3, <1>4, NatInduct
<1>6. PICK g : Walk(g, last)
  BY <1>5
<1>7. g = Def(g)
  <2>1. ASSUME NEW k \in 0 .. last PROVE g[k] = IF k = 0 THEN Base ELSE Step(g[k - 1], k)
    <3>1. k = 0 \/ k \in 1 .. last
      BY <1>1
    <3> QED
      BY <1>1, <1>6, <3>1
  <2> QED
    BY <1>6, <2>1
<1>8. h = Def(h)
  BY <1>7, Zenon
<1> HIDE DEF h
<1>9. h[0] = Base
  <2>1. 0 \in 0 .. last
    BY <1>1
  <2> QED
    BY <1>8, <2>1
<1>10. ASSUME NEW k \in 1 .. last PROVE h[k] = Step(h[k - 1], k)
  <2>1. k \in 0 .. last /\ k # 0
    BY <1>1
  <2> QED
    BY <1>8, <2>1
<1> QED
  BY <1>2, <1>9, <1>10, Zenon DEF Base, Step, last, MkdirWalk

\* ... and Without through its sequence.
WithoutWalk(s, x, h) ==
  /\ h[0] = << >>
  /\ \A k \in 1 .. Len(s) : h[k] = IF s[k] = x THEN h[k - 1] ELSE Append(h[k - 1], s[k])
  /\ Without(s, x) = h[Len(s)]

\* retain, element by element.
LEMMA WithoutSteps ==
  ASSUME NEW s, NEW x, Len(s) \in Nat
  PROVE  \E h : WithoutWalk(s, x, h)
<1> DEFINE Base == << >>
           Step(v, k) == IF s[k] = x THEN v ELSE Append(v, s[k])
           last == Len(s)
           Walk(g, n) == /\ g = [k \in 0 .. n |-> g[k]]
                         /\ g[0] = Base /\ \A k \in 1 .. n : g[k] = Step(g[k - 1], k)
           G == { n \in Nat : \E g : Walk(g, n) }
           Def(h) == [k \in 0 .. last |-> IF k = 0 THEN Base ELSE Step(h[k - 1], k)]
           h == CHOOSE h : h = Def(h)
<1>1. last \in Nat
  OBVIOUS
<1>2. Without(s, x) = h[last]
  BY DEF Without
<1> HIDE DEF Base, Step, last
<1>3. 0 \in G
  <2>1. Walk([k \in 0 .. 0 |-> Base], 0)
    OBVIOUS
  <2> QED
    BY <2>1, Zenon
<1>4. ASSUME NEW n \in G PROVE n + 1 \in G
  <2>1. PICK g : Walk(g, n)
    BY <1>4
  <2>2. PICK w : w = [k \in 0 .. (n + 1) |-> IF k = n + 1 THEN Step(g[n], k) ELSE g[k]]
    OBVIOUS
  <2>3. n \in Nat /\ n + 1 \in Nat
    BY <1>4
  <2>4. w = [k \in 0 .. (n + 1) |-> w[k]] /\ w[0] = Base
    BY <2>1, <2>2, <2>3
  <2>5. ASSUME NEW k \in 1 .. (n + 1) PROVE w[k] = Step(w[k - 1], k)
    <3>1. CASE k = n + 1
      <4>1. k \in 0 .. (n + 1) /\ n \in 0 .. (n + 1) /\ k - 1 = n /\ n # n + 1
        BY <2>3, <3>1
      <4>2. w[k] = Step(g[n], k) /\ w[n] = g[n]
        BY <2>2, <3>1, <4>1
      <4> QED
        BY <4>1, <4>2
    <3>2. CASE k # n + 1
      <4>1. k \in 1 .. n /\ k \in 0 .. (n + 1) /\ k - 1 \in 0 .. (n + 1) /\ k - 1 # n + 1
        BY <2>3, <3>2
      <4>2. w[k] = g[k] /\ w[k - 1] = g[k - 1]
        BY <2>2, <3>2, <4>1
      <4> QED
        BY <2>1, <4>1, <4>2
    <3> QED
      BY <3>1, <3>2
  <2>6. Walk(w, n + 1)
    BY <2>4, <2>5
  <2> QED
    BY <2>3, <2>6
<1>5. last \in G
  <2> HIDE DEF G
  <2> QED
    BY <1>1, <1>3, <1>4, NatInduct
<1>6. PICK g : Walk(g, last)
  BY <1>5
<1>7. g = Def(g)
  <2>1. ASSUME NEW k \in 0 .. last PROVE g[k] = IF k = 0 THEN Base ELSE Step(g[k - 1], k)
    <3>1. k = 0 \/ k \in 1 .. last
      BY <1>1
    <3> QED
      BY <1>1, <1>6, <3>1
  <2> QED
    BY <1>6, <2>1
<1>8. h = Def(h)
  BY <1>7, Zenon
<1> HIDE DEF h
<1>9. h[0] = Base
  <2>1. 0 \in 0 .. last
    BY <1>1
  <2> QED
    BY <1>8, <2>1
<1>10. ASSUME NEW k \in 1 .. last PROVE h[k] = Step(h[k - 1], k)
  <2>1. k \in 0 .. last /\ k # 0
    BY <1>1
  <2> QED
    BY <1>8, <2>1
<1> QED
  BY <1>2, <1>9, <1>10, Zenon DEF Base, Step, last, WithoutWalk

-----------------------------------------------------------------------------
(* Looking a path up *)

\* Indices of a tree, and what is none.
LEMMA ArenaNumbers ==
  ASSUME NEW f, Arena(f)
  PROVE  /\ Len(f.nodes) \in Nat /\ DOMAIN f.nodes = 1 .. Len(f.nodes)
         /\ Root \in 1 .. Len(f.nodes) /\ NoNode \notin 1 .. Len(f.nodes)
BY Numbers DEF Arena, Sound

\* An entry found is the one of that name; none is found only if there is none.
LEMMA ChildIs ==
  ASSUME NEW f, Arena(f), NEW dir \in 1 .. Len(f.nodes), NEW name
  PROVE  LET c == Child(f, dir, name)
             entries == Range(f.nodes[dir].children)
         IN  /\ c # NoNode => /\ c \in entries /\ c \in 1 .. Len(f.nodes)
                              /\ f.nodes[c].name = name /\ f.nodes[c].parent = dir
                              /\ dir < c
             /\ c = NoNode => \A d \in entries : f.nodes[d].name # name
<1> DEFINE kids == f.nodes[dir].children
           I == { k \in 1 .. Len(kids) : f.nodes[kids[k]].name = name }
           k == IF I # {} THEN Min(I) ELSE 0
<1>1. Child(f, dir, name) = IF k = 0 THEN NoNode ELSE kids[k]
  BY DEF Child, SelectInSeq
<1>2. IsSeq(kids) /\ Len(kids) \in Nat
  BY DEF Arena, Sound, Shape, IsNode, IsSeq
<1>3. Range(kids) = { kids[j] : j \in 1 .. Len(kids) }
  BY <1>2, RangeIs
<1>4. \A c \in Range(kids) : c \in 1 .. Len(f.nodes) /\ dir < c /\ f.nodes[c].parent = dir
  BY DEF Arena, Sound, Kin
<1>5. NoNode \notin 1 .. Len(f.nodes)
  BY ArenaNumbers
<1> HIDE DEF kids
<1>6. CASE I = {}
  <2>1. Child(f, dir, name) = NoNode
    BY <1>1, <1>6
  <2>2. \A d \in Range(kids) : f.nodes[d].name # name
    BY <1>3, <1>6
  <2> QED
    BY <2>1, <2>2 DEF kids
<1>7. CASE I # {}
  <2>1. I \in SUBSET Nat /\ I \subseteq 1 .. Len(kids)
    BY <1>2
  <2>2. k \in I
    BY <1>7, <2>1, MinIs
  <2> HIDE DEF k
  <2>3. k \in 1 .. Len(kids) /\ k # 0 /\ f.nodes[kids[k]].name = name
    BY <1>2, <2>2
  <2>4. Child(f, dir, name) = kids[k] /\ kids[k] \in Range(kids)
    BY <1>1, <1>3, <2>3
  <2> QED
    BY <1>4, <1>5, <2>3, <2>4 DEF kids
<1> QED
  BY <1>6, <1>7

\* Names are unique, so that the entry of a name is found.
LEMMA ChildOf ==
  ASSUME NEW f, Arena(f), NEW dir \in 1 .. Len(f.nodes),
         NEW c \in Range(f.nodes[dir].children)
  PROVE  Child(f, dir, f.nodes[c].name) = c
<1>1. Child(f, dir, f.nodes[c].name) # NoNode
  BY ChildIs
<1>2. Child(f, dir, f.nodes[c].name) \in Range(f.nodes[dir].children)
  BY <1>1, ChildIs
<1>3. f.nodes[Child(f, dir, f.nodes[c].name)].name = f.nodes[c].name
  BY <1>1, ChildIs
<1> QED
  BY <1>2, <1>3 DEF Arena, Sound, Kin

\* A path leads to a node or nowhere.
LEMMA ResolveType ==
  ASSUME NEW f, Arena(f), NEW start \in 1 .. Len(f.nodes), NEW path, Len(path) \in Nat
  PROVE  Resolve(f, start, path) \in 1 .. Len(f.nodes) \cup {NoNode}
<1>1. PICK h : ResolveWalk(f, start, path, h)
  BY ResolveSteps
<1> DEFINE H == { n \in Nat : n <= Len(path) => h[n] \in 1 .. Len(f.nodes) \cup {NoNode} }
<1>2. 0 \in H
  BY <1>1 DEF ResolveWalk
<1>3. ASSUME NEW n \in H PROVE n + 1 \in H
  <2> SUFFICES ASSUME n + 1 <= Len(path) PROVE h[n + 1] \in 1 .. Len(f.nodes) \cup {NoNode}
    BY <1>3
  <2>1. n \in Nat /\ n + 1 \in 1 .. Len(path) /\ (n + 1) - 1 = n /\ n <= Len(path)
    BY <1>3
  <2>2. h[n] \in 1 .. Len(f.nodes) \cup {NoNode}
    BY <1>3, <2>1
  <2>3. h[n + 1] = IF h[n] = NoNode THEN NoNode ELSE Child(f, h[n], path[n + 1])
    BY <1>1, <2>1 DEF ResolveWalk
  <2> QED
    BY <2>2, <2>3, ChildIs
<1> HIDE DEF H
<1>4. Len(path) \in H
  BY <1>2, <1>3, NatInduct
<1> QED
  BY <1>1, <1>4 DEF H, ResolveWalk

\* Where a path of no, one, two and three names leads.
Enter(f, i, name) == IF i = NoNode THEN NoNode ELSE Child(f, i, name)

\* Paths of no, one, two and three names.
LEMMA ResolveNone == ASSUME NEW f, NEW start PROVE Resolve(f, start, << >>) = start
<1>1. Len(<< >>) = 0
  OBVIOUS
<1> QED
  BY <1>1, ResolveSteps DEF ResolveWalk

\* A path of one name.
LEMMA ResolveOne ==
  ASSUME NEW f, NEW start, NEW a
  PROVE  Resolve(f, start, <<a>>) = Enter(f, start, a)
<1>1. PICK p : p = <<a>>
  OBVIOUS
<1>2. Len(p) \in Nat /\ Len(p) = 1 /\ p[1] = a
  BY <1>1
<1>3. PICK h : ResolveWalk(f, start, p, h)
  BY <1>2, ResolveSteps
<1>4. h[1] = Enter(f, start, a)
  BY <1>2, <1>3 DEF Enter, ResolveWalk
<1> QED
  BY <1>1, <1>2, <1>3, <1>4 DEF ResolveWalk

\* A path of two names.
LEMMA ResolveTwo ==
  ASSUME NEW f, NEW start, NEW a, NEW b
  PROVE  Resolve(f, start, <<a, b>>) = Enter(f, Enter(f, start, a), b)
<1>1. PICK p : p = <<a, b>>
  OBVIOUS
<1>2. Len(p) \in Nat /\ Len(p) = 2 /\ p[1] = a /\ p[2] = b
  BY <1>1
<1>3. PICK h : ResolveWalk(f, start, p, h)
  BY <1>2, ResolveSteps
<1>4. h[1] = Enter(f, start, a)
  BY <1>2, <1>3 DEF Enter, ResolveWalk
<1>5. h[2] = Enter(f, h[1], b)
  BY <1>2, <1>3 DEF Enter, ResolveWalk
<1> QED
  BY <1>1, <1>2, <1>3, <1>4, <1>5 DEF ResolveWalk

\* A path of three names.
LEMMA ResolveThree ==
  ASSUME NEW f, NEW start, NEW a, NEW b, NEW c
  PROVE  Resolve(f, start, <<a, b, c>>) = Enter(f, Resolve(f, start, <<a, b>>), c)
<1>1. PICK p : p = <<a, b, c>>
  OBVIOUS
<1>2. Len(p) \in Nat /\ Len(p) = 3 /\ p[1] = a /\ p[2] = b /\ p[3] = c
  BY <1>1
<1>3. PICK h : ResolveWalk(f, start, p, h)
  BY <1>2, ResolveSteps
<1>4. h[1] = Enter(f, start, a)
  BY <1>2, <1>3 DEF Enter, ResolveWalk
<1>5. h[2] = Enter(f, h[1], b)
  BY <1>2, <1>3 DEF Enter, ResolveWalk
<1>6. h[3] = Enter(f, h[2], c)
  BY <1>2, <1>3 DEF Enter, ResolveWalk
<1> QED
  BY <1>1, <1>2, <1>3, <1>4, <1>5, <1>6, ResolveTwo DEF ResolveWalk

\* A name more: the entry of what the path led to.
LEMMA ResolveAppend ==
  ASSUME NEW f, NEW start, NEW path, IsSeq(path), NEW name
  PROVE  Resolve(f, start, Append(path, name)) = Enter(f, Resolve(f, start, path), name)
<1>1. PICK p : p = Append(path, name)
  OBVIOUS
<1>2. /\ Len(path) \in Nat /\ Len(p) = Len(path) + 1 /\ p[Len(path) + 1] = name
      /\ \A k \in 1 .. Len(path) : p[k] = path[k]
  BY <1>1, Appended DEF IsSeq
<1>3. Len(p) \in Nat
  BY <1>2
<1>4. PICK h : ResolveWalk(f, start, path, h)
  BY <1>2, ResolveSteps
<1>5. PICK w : ResolveWalk(f, start, p, w)
  BY <1>3, ResolveSteps
<1> DEFINE H == { n \in Nat : n <= Len(path) => w[n] = h[n] }
<1>6. 0 \in H
  BY <1>4, <1>5 DEF ResolveWalk
<1>7. ASSUME NEW n \in H PROVE n + 1 \in H
  <2> SUFFICES ASSUME n + 1 <= Len(path) PROVE w[n + 1] = h[n + 1]
    BY <1>7
  <2>1. /\ n \in Nat /\ n + 1 \in 1 .. Len(path) /\ (n + 1) - 1 = n /\ n <= Len(path)
        /\ n + 1 \in 1 .. Len(p)
    BY <1>2, <1>7
  <2>2. h[n + 1] = IF h[n] = NoNode THEN NoNode ELSE Child(f, h[n], path[n + 1])
    BY <1>4, <2>1 DEF ResolveWalk
  <2>3. w[n + 1] = IF w[n] = NoNode THEN NoNode ELSE Child(f, w[n], p[n + 1])
    BY <1>5, <2>1 DEF ResolveWalk
  <2>4. w[n] = h[n] /\ p[n + 1] = path[n + 1]
    BY <1>2, <1>7, <2>1
  <2> QED
    BY <2>2, <2>3, <2>4
<1> HIDE DEF H
<1>8. w[Len(path)] = h[Len(path)]
  <2>1. Len(path) \in H
    BY <1>2, <1>6, <1>7, NatInduct
  <2> QED
    BY <1>2, <2>1 DEF H
<1>9. w[Len(path) + 1] = Enter(f, w[Len(path)], name)
  <2>1. Len(path) + 1 \in 1 .. Len(p) /\ (Len(path) + 1) - 1 = Len(path)
    BY <1>2
  <2>2. w[Len(path) + 1] = IF w[Len(path)] = NoNode THEN NoNode
                           ELSE Child(f, w[Len(path)], p[Len(path) + 1])
    BY <1>5, <2>1 DEF ResolveWalk
  <2> QED
    BY <1>2, <2>2 DEF Enter
<1>10. Resolve(f, start, p) = w[Len(path) + 1] /\ Resolve(f, start, path) = h[Len(path)]
  BY <1>2, <1>4, <1>5 DEF ResolveWalk
<1> QED
  BY <1>1, <1>8, <1>9, <1>10

\* The entry found is in the arena, below the directory.
LEMMA EnterIs ==
  ASSUME NEW f, Arena(f), NEW i \in 1 .. Len(f.nodes) \cup {NoNode}, NEW name,
         Enter(f, i, name) # NoNode
  PROVE  /\ i \in 1 .. Len(f.nodes) /\ Enter(f, i, name) \in 1 .. Len(f.nodes)
         /\ Enter(f, i, name) \in Range(f.nodes[i].children)
         /\ f.nodes[Enter(f, i, name)].name = name
         /\ f.nodes[Enter(f, i, name)].parent = i
         /\ i < Enter(f, i, name)
BY ChildIs DEF Enter

-----------------------------------------------------------------------------
(* What only adds: add and mkdir_p *)

\* Extends is reflexive.
LEMMA ExtendsSelf == ASSUME NEW f, Arena(f) PROVE Extends(f, f)
BY ArenaNumbers DEF Extends

\* It is transitive.
LEMMA ExtendsOn ==
  ASSUME NEW f, NEW g, NEW k, Arena(f), Arena(g), Arena(k), Extends(f, g), Extends(g, k)
  PROVE  Extends(f, k)
<1>1. /\ Len(f.nodes) \in Nat /\ Len(g.nodes) \in Nat /\ Len(k.nodes) \in Nat
  BY ArenaNumbers
<1>2. 1 .. Len(f.nodes) \subseteq 1 .. Len(g.nodes) /\ Len(f.nodes) <= Len(k.nodes)
  BY <1>1 DEF Extends
<1> QED
  BY <1>2 DEF Extends

\* What a path led to in an arena it leads to when nodes are added.
LEMMA ExtendsEnter ==
  ASSUME NEW f, NEW g, Arena(f), Arena(g), Extends(f, g),
         NEW i \in 1 .. Len(f.nodes) \cup {NoNode}, NEW name, Enter(f, i, name) # NoNode
  PROVE  Enter(g, i, name) = Enter(f, i, name)
<1>1. PICK c : c = Enter(f, i, name)
  OBVIOUS
<1>2. /\ i \in 1 .. Len(f.nodes) /\ c \in 1 .. Len(f.nodes)
      /\ c \in Range(f.nodes[i].children) /\ f.nodes[c].name = name
  BY <1>1, EnterIs
<1>3. i \in 1 .. Len(g.nodes) /\ i # NoNode
  BY <1>2, ArenaNumbers DEF Extends
<1>4. c \in Range(g.nodes[i].children) /\ g.nodes[c].name = name
  BY <1>2 DEF Extends
<1> QED
  BY <1>1, <1>3, <1>4, ChildOf DEF Enter

\* What a path led to it leads to when more has come.
LEMMA ExtendsResolve ==
  ASSUME NEW f, NEW g, Arena(f), Arena(g), Extends(f, g), NEW path, Len(path) \in Nat,
         Resolve(f, Root, path) # NoNode
  PROVE  Resolve(g, Root, path) = Resolve(f, Root, path)
<1>1. Root \in 1 .. Len(f.nodes) /\ Root # NoNode
  BY ArenaNumbers DEF Root, NoNode
<1>2. PICK h : ResolveWalk(f, Root, path, h)
  BY ResolveSteps
<1>3. PICK w : ResolveWalk(g, Root, path, w)
  BY ResolveSteps
<1> DEFINE Same(n) == /\ h[n] \in 1 .. Len(f.nodes) \cup {NoNode}
                      /\ h[n] # NoNode => w[n] = h[n]
           H == { n \in Nat : n <= Len(path) => Same(n) }
<1>4. 0 \in H
  BY <1>1, <1>2, <1>3 DEF ResolveWalk
<1>5. ASSUME NEW n \in H PROVE n + 1 \in H
  <2> SUFFICES ASSUME n + 1 <= Len(path) PROVE Same(n + 1)
    BY <1>5
  <2>1. n \in Nat /\ n + 1 \in 1 .. Len(path) /\ (n + 1) - 1 = n /\ n <= Len(path)
    BY <1>5
  <2>2. PICK a, b, x : a = h[n] /\ b = w[n] /\ x = path[n + 1]
    OBVIOUS
  <2>3. h[n + 1] = Enter(f, a, x) /\ w[n + 1] = Enter(g, b, x)
    BY <1>2, <1>3, <2>1, <2>2 DEF ResolveWalk, Enter
  <2>4. Same(n)
    BY <1>5, <2>1
  <2>5. a \in 1 .. Len(f.nodes) \cup {NoNode} /\ (a # NoNode => b = a)
    BY <2>2, <2>4
  <2>6. CASE Enter(f, a, x) = NoNode
    BY <2>3, <2>6
  <2>7. CASE Enter(f, a, x) # NoNode
    <3>1. a # NoNode
      BY <2>7 DEF Enter
    <3>2. Enter(g, a, x) = Enter(f, a, x)
      BY <2>5, <2>7, ExtendsEnter
    <3>3. Enter(f, a, x) \in 1 .. Len(f.nodes)
      BY <2>5, <2>7, EnterIs
    <3> QED
      BY <2>3, <2>5, <3>1, <3>2, <3>3
  <2> QED
    BY <2>6, <2>7
<1> HIDE DEF H
<1>6. Len(path) \in H
  BY <1>4, <1>5, NatInduct
<1> QED
  BY <1>2, <1>3, <1>6 DEF H, ResolveWalk

\* The arena g is f with a new entry of the directory p.
Added(f, g, p, name, is_dir) ==
  LET n == Len(f.nodes) + 1
  IN  /\ Arena(g) /\ Extends(f, g) /\ Len(g.nodes) = n
      /\ g.nodes[n].name = name /\ g.nodes[n].is_dir = is_dir /\ g.nodes[n].parent = p
      /\ g.nodes[n].children = << >> /\ n \in Range(g.nodes[p].children)
      /\ \A j \in 1 .. Len(f.nodes) :
           /\ g.nodes[j].data = f.nodes[j].data
           /\ Range(g.nodes[j].children) = Range(f.nodes[j].children)
                                            \cup (IF j = p THEN {n} ELSE {})

NoEntry(f, p, name) == \A c \in Range(f.nodes[p].children) : f.nodes[c].name # name

PlaceFor(f, p) == f.nodes[p].parent = Root => f.nodes[p].name = "etc"

\* add makes what Added says.
LEMMA AddIs ==
  ASSUME NEW f, Arena(f), NEW p \in 1 .. Len(f.nodes), NEW name, NEW is_dir \in BOOLEAN,
         NoEntry(f, p, name), is_dir \/ PlaceFor(f, p)
  PROVE  Added(f, Add(f, p, name, is_dir), p, name, is_dir)
<1>1. PICK x, n, g : /\ x = NewNode(name, is_dir, p) /\ n = Len(f.nodes)
                     /\ g = Add(f, p, name, is_dir)
  OBVIOUS
<1>2. n \in Nat /\ p \in Nat /\ n >= 1 /\ n = Len(f.nodes)
  BY <1>1, ArenaNumbers
<1>3. /\ IsNode(x) /\ x.name = name /\ x.is_dir = is_dir /\ x.parent = p /\ x.children = << >>
  BY <1>1, <1>2, NewNodeIs
<1>4. g.nodes = Attach(f.nodes, p, x) /\ g.cwd = f.cwd /\ g = [nodes |-> g.nodes, cwd |-> g.cwd]
  <2>1. f = [nodes |-> f.nodes, cwd |-> f.cwd]
    BY DEF Arena
  <2>2. PICK m : m = Attach(f.nodes, p, NewNode(name, is_dir, p))
    OBVIOUS
  <2>3. Add(f, p, name, is_dir) = [f EXCEPT !.nodes = m]
    BY <2>2 DEF Add
  <2> QED
    BY <1>1, <2>1, <2>2, <2>3
<1>5. Shape(f.nodes) /\ Sound(f.nodes)
  BY DEF Arena, Sound
<1>6. /\ Len(g.nodes) = n + 1 /\ g.nodes[n + 1] = x
      /\ \A i \in 1 .. n :
           /\ g.nodes[i].name = f.nodes[i].name /\ g.nodes[i].is_dir = f.nodes[i].is_dir
           /\ g.nodes[i].parent = f.nodes[i].parent /\ g.nodes[i].data = f.nodes[i].data
           /\ g.nodes[i].children = IF i = p THEN Append(f.nodes[i].children, n + 1)
                                    ELSE f.nodes[i].children
  BY <1>1, <1>3, <1>4, <1>5, GrownFields
<1>7. Sound(g.nodes)
  BY <1>3, <1>4, <1>5, GrownSound DEF NoEntry, PlaceFor
<1>8. Arena(g)
  BY <1>2, <1>4, <1>6, <1>7 DEF Arena
<1>9. Range(Append(f.nodes[p].children, n + 1)) = Range(f.nodes[p].children) \cup {n + 1}
  <2>1. IsSeq(f.nodes[p].children)
    BY <1>5 DEF Shape, IsNode
  <2> QED
    BY <2>1, Appended
<1>10. \A i \in 1 .. n : Range(f.nodes[i].children) \subseteq Range(g.nodes[i].children)
  BY <1>6, <1>9
<1>11. Extends(f, g)
  <2>1. \A i \in 1 .. n :
          /\ g.nodes[i].name = f.nodes[i].name /\ g.nodes[i].is_dir = f.nodes[i].is_dir
          /\ g.nodes[i].parent = f.nodes[i].parent
    BY <1>6
  <2>2. n <= Len(g.nodes)
    BY <1>2, <1>6
  <2> QED
    BY <1>2, <1>4, <1>10, <2>1, <2>2 DEF Extends
<1>12. n + 1 \in Range(g.nodes[p].children)
  BY <1>1, <1>6, <1>9
<1>13. \A i \in 1 .. n : Range(g.nodes[i].children) = Range(f.nodes[i].children)
                                                       \cup (IF i = p THEN {n + 1} ELSE {})
  BY <1>6, <1>9
<1> QED
  BY <1>1, <1>2, <1>3, <1>6, <1>8, <1>11, <1>12, <1>13 DEF Added

\* What is new in g is not in f: nothing that was taken off comes back.
OnlyNew(f, g) ==
  \A j \in 1 .. Len(f.nodes) : \A c \in Range(g.nodes[j].children) :
    c \in Range(f.nodes[j].children) \/ c \notin 1 .. Len(f.nodes)

\* Entries that are new to the first tree, in two stages.
LEMMA OnlyNewOn ==
  ASSUME NEW f, NEW g, NEW k, Arena(f), Arena(g), Extends(f, g), OnlyNew(f, g), OnlyNew(g, k)
  PROVE  OnlyNew(f, k)
<1>1. 1 .. Len(f.nodes) \subseteq 1 .. Len(g.nodes)
  <2>1. Len(f.nodes) \in Nat /\ Len(g.nodes) \in Nat
    BY ArenaNumbers
  <2> QED
    BY <2>1 DEF Extends
<1> QED
  BY <1>1 DEF OnlyNew

\* mkdir_p adds directories.
Paved(f, g) ==
  /\ Extends(f, g) /\ OnlyNew(f, g)
  /\ \A j \in 1 .. Len(f.nodes) : g.nodes[j].data = f.nodes[j].data
  /\ \A j \in 1 .. Len(g.nodes) : j \in 1 .. Len(f.nodes) \/ g.nodes[j].is_dir

\* Paved is reflexive.
LEMMA PavedSelf == ASSUME NEW f, Arena(f) PROVE Paved(f, f)
BY ExtendsSelf DEF Paved, OnlyNew

\* It is transitive.
LEMMA PavedOn ==
  ASSUME NEW f, NEW g, NEW k, Arena(f), Arena(g), Arena(k), Paved(f, g), Paved(g, k)
  PROVE  Paved(f, k)
<1>1. Extends(f, k) /\ OnlyNew(f, k)
  BY ExtendsOn, OnlyNewOn DEF Paved
<1>2. 1 .. Len(f.nodes) \subseteq 1 .. Len(g.nodes)
  <2>1. Len(f.nodes) \in Nat /\ Len(g.nodes) \in Nat
    BY ArenaNumbers
  <2> QED
    BY <2>1 DEF Paved, Extends
<1>3. \A j \in 1 .. Len(f.nodes) : k.nodes[j].data = f.nodes[j].data
  BY <1>2 DEF Paved
<1>4. ASSUME NEW j \in 1 .. Len(k.nodes), j \notin 1 .. Len(f.nodes) PROVE k.nodes[j].is_dir
  <2>1. CASE j \in 1 .. Len(g.nodes)
    BY <1>4, <2>1 DEF Paved, Extends
  <2>2. CASE j \notin 1 .. Len(g.nodes)
    BY <2>2 DEF Paved
  <2> QED
    BY <2>1, <2>2
<1> QED
  BY <1>1, <1>3, <1>4 DEF Paved

\* A new directory paves.
LEMMA AddedPaves ==
  ASSUME NEW f, Arena(f), NEW g, NEW p, NEW name, NEW d, d, Added(f, g, p, name, d)
  PROVE  Paved(f, g)
<1>1. PICK n : n = Len(f.nodes) + 1
  OBVIOUS
<1>2. Len(f.nodes) \in Nat
  BY ArenaNumbers
<1>3. n \notin 1 .. Len(f.nodes) /\ (\A j \in 1 .. n : j \in 1 .. Len(f.nodes) \/ j = n)
  BY <1>1, <1>2
<1>4. /\ Extends(f, g) /\ Len(g.nodes) = n /\ g.nodes[n].is_dir
      /\ \A j \in 1 .. Len(f.nodes) :
           /\ g.nodes[j].data = f.nodes[j].data
           /\ Range(g.nodes[j].children) \subseteq Range(f.nodes[j].children) \cup {n}
  BY <1>1 DEF Added
<1>5. OnlyNew(f, g)
  BY <1>3, <1>4 DEF OnlyNew
<1> QED
  BY <1>3, <1>4, <1>5 DEF Paved

\* One component of mkdir_p: afterwards there is an entry of that name.
LEMMA DescendIs ==
  ASSUME NEW at, at = [fs |-> at.fs, cur |-> at.cur], Arena(at.fs),
         at.cur \in 1 .. Len(at.fs.nodes), NEW name
  PROVE  LET to == Descend(at, name)
         IN  /\ to = [fs |-> to.fs, cur |-> to.cur] /\ Arena(to.fs) /\ Paved(at.fs, to.fs)
             /\ to.cur \in 1 .. Len(to.fs.nodes) /\ to.cur = Enter(to.fs, at.cur, name)
<1>1. PICK f, i : f = at.fs /\ i = at.cur
  OBVIOUS
<1>2. /\ i # NoNode /\ Arena(f) /\ i \in 1 .. Len(f.nodes) /\ Len(f.nodes) \in Nat
      /\ at = [fs |-> f, cur |-> i]
  BY <1>1, ArenaNumbers
<1>3. CASE Child(f, i, name) # NoNode
  <2>1. PICK to : to = Descend(at, name)
    OBVIOUS
  <2>2. to = [fs |-> f, cur |-> Child(f, i, name)]
    BY <1>1, <1>2, <1>3, <2>1 DEF Descend
  <2>3. /\ Child(f, i, name) \in 1 .. Len(f.nodes) /\ Paved(f, f)
        /\ Child(f, i, name) = Enter(f, i, name)
    BY <1>2, <1>3, ChildIs, PavedSelf DEF Enter
  <2> QED
    BY <1>1, <1>2, <2>1, <2>2, <2>3
<1>4. CASE Child(f, i, name) = NoNode
  <2>0. PICK n : n = Len(f.nodes) + 1
    OBVIOUS
  <2>9. PICK d \in BOOLEAN : d = TRUE
    OBVIOUS
  <2>1. PICK g, to : g = Add(f, i, name, d) /\ to = Descend(at, name)
    OBVIOUS
  <2>2. to = [fs |-> g, cur |-> n]
    BY <1>1, <1>4, <2>0, <2>1, <2>9 DEF Descend
  <2>3. \A c \in Range(f.nodes[i].children) : f.nodes[c].name # name
    BY <1>2, <1>4, ChildIs
  <2>4. /\ Arena(g) /\ Paved(f, g) /\ Len(g.nodes) = n
        /\ g.nodes[n].name = name /\ n \in Range(g.nodes[i].children)
    <3>1. NoEntry(f, i, name)
      BY <2>3 DEF NoEntry
    <3>2. Added(f, g, i, name, d)
      BY <1>2, <2>1, <2>9, <3>1, AddIs
    <3>3. Paved(f, g)
      BY <1>2, <2>9, <3>2, AddedPaves
    <3> QED
      BY <2>0, <3>2, <3>3 DEF Added
  <2>5. n \in 1 .. Len(g.nodes) /\ i \in 1 .. Len(g.nodes)
    BY <1>2, <2>0, <2>4
  <2>6. Child(g, i, name) = n
    BY <2>4, <2>5, ChildOf
  <2>7. n = Enter(g, i, name)
    BY <1>2, <2>6 DEF Enter
  <2>8. /\ to = [fs |-> to.fs, cur |-> to.cur] /\ Arena(to.fs) /\ Paved(at.fs, to.fs)
        /\ to.cur \in 1 .. Len(to.fs.nodes) /\ to.cur = Enter(to.fs, at.cur, name)
    BY <1>1, <2>2, <2>4, <2>5, <2>7
  <2> QED
    BY <2>1, <2>8
<1> QED
  BY <1>3, <1>4

\* mkdir_p keeps the arena sound and only adds to it.
LEMMA MkdirPaves ==
  ASSUME NEW f, Arena(f), NEW start \in 1 .. Len(f.nodes), NEW path, Len(path) \in Nat
  PROVE  Arena(MkdirP(f, start, path)) /\ Paved(f, MkdirP(f, start, path))
<1>1. PICK h : MkdirWalk(f, start, path, h)
  BY MkdirSteps
<1> DEFINE Fine(at) == /\ at = [fs |-> at.fs, cur |-> at.cur] /\ Arena(at.fs)
                       /\ Paved(f, at.fs) /\ at.cur \in 1 .. Len(at.fs.nodes)
           H == { n \in Nat : n <= Len(path) => Fine(h[n]) }
<1>2. 0 \in H
  <2>1. h[0] = [fs |-> f, cur |-> start]
    BY <1>1 DEF MkdirWalk
  <2> QED
    BY <2>1, PavedSelf
<1>3. ASSUME NEW n \in H PROVE n + 1 \in H
  <2> SUFFICES ASSUME n + 1 <= Len(path) PROVE Fine(h[n + 1])
    BY <1>3
  <2>1. n \in Nat /\ n + 1 \in 1 .. Len(path) /\ (n + 1) - 1 = n /\ n <= Len(path)
    BY <1>3
  <2>2. PICK at, to : at = h[n] /\ to = h[n + 1]
    OBVIOUS
  <2>3. Fine(at)
    BY <1>3, <2>1, <2>2
  <2>4. to = Descend(at, path[n + 1])
    BY <1>1, <2>1, <2>2 DEF MkdirWalk
  <2>5. /\ to = [fs |-> to.fs, cur |-> to.cur] /\ Arena(to.fs) /\ Paved(at.fs, to.fs)
        /\ to.cur \in 1 .. Len(to.fs.nodes)
    BY <2>3, <2>4, DescendIs
  <2> QED
    BY <2>2, <2>3, <2>5, PavedOn
<1> HIDE DEF H
<1>4. Len(path) \in H
  BY <1>2, <1>3, NatInduct
<1> QED
  BY <1>1, <1>4 DEF H, MkdirWalk

\* mkdir_p keeps the tree one and everything that was there.
LEMMA MkdirIs ==
  ASSUME NEW f, Arena(f), NEW start \in 1 .. Len(f.nodes), NEW path, Len(path) \in Nat
  PROVE  Arena(MkdirP(f, start, path)) /\ Extends(f, MkdirP(f, start, path))
BY MkdirPaves DEF Paved

\* The directory asked for is there afterwards.
LEMMA MkdirTwo ==
  ASSUME NEW f, Arena(f), NEW a, NEW b
  PROVE  Resolve(MkdirP(f, Root, <<a, b>>), Root, <<a, b>>) # NoNode
<1>1. PICK p : p = <<a, b>>
  OBVIOUS
<1>2. Len(p) \in Nat /\ Len(p) = 2 /\ p[1] = a /\ p[2] = b
  BY <1>1
<1>3. PICK h : MkdirWalk(f, Root, p, h)
  BY <1>2, MkdirSteps
<1>4. PICK x, y, z : x = h[0] /\ y = h[1] /\ z = h[2]
  OBVIOUS
<1>5. /\ x = [fs |-> f, cur |-> Root] /\ y = Descend(x, a) /\ z = Descend(y, b)
      /\ MkdirP(f, Root, p) = z.fs
  BY <1>2, <1>3, <1>4 DEF MkdirWalk
<1>6. x.fs = f /\ x.cur = Root /\ Root \in 1 .. Len(f.nodes) /\ x = [fs |-> x.fs, cur |-> x.cur]
  BY <1>5, ArenaNumbers
<1>7. /\ y = [fs |-> y.fs, cur |-> y.cur] /\ Arena(y.fs) /\ y.cur \in 1 .. Len(y.fs.nodes)
      /\ y.cur = Enter(y.fs, Root, a)
  BY <1>5, <1>6, DescendIs
<1>8. /\ Arena(z.fs) /\ Extends(y.fs, z.fs) /\ z.cur \in 1 .. Len(z.fs.nodes)
      /\ z.cur = Enter(z.fs, y.cur, b)
  BY <1>5, <1>7, DescendIs DEF Paved
<1>9. Root \in 1 .. Len(y.fs.nodes) /\ y.cur # NoNode /\ z.cur # NoNode
  BY <1>7, <1>8, ArenaNumbers
<1>10. Enter(z.fs, Root, a) = y.cur
  BY <1>7, <1>8, <1>9, ExtendsEnter
<1> QED
  BY <1>1, <1>5, <1>8, <1>9, <1>10, ResolveTwo

-----------------------------------------------------------------------------
(* Taking a node off its directory *)

\* Without leaves out what it is told to, and nothing else.
LEMMA WithoutIs ==
  ASSUME NEW s, IsSeq(s), NEW x
  PROVE  /\ IsSeq(Without(s, x)) /\ Range(Without(s, x)) = Range(s) \ {x}
         /\ IsInjective(s) => IsInjective(Without(s, x))
<1>1. Len(s) \in Nat /\ Range(s) = { s[k] : k \in 1 .. Len(s) } /\ DOMAIN s = 1 .. Len(s)
  BY RangeIs DEF IsSeq
<1>2. PICK h : WithoutWalk(s, x, h)
  BY <1>1, WithoutSteps
<1> DEFINE First(n) == { s[k] : k \in 1 .. n }
           Fine(n) == /\ IsSeq(h[n]) /\ Range(h[n]) = First(n) \ {x}
                      /\ IsInjective(s) => IsInjective(h[n])
           H == { n \in Nat : n <= Len(s) => Fine(n) }
<1>3. 0 \in H
  <2>1. h[0] = << >>
    BY <1>2 DEF WithoutWalk
  <2>2. Range(<< >>) = {} /\ IsInjective(<< >>)
    BY EmptyIsSeq, RangeIs DEF IsInjective
  <2> QED
    BY <2>1, <2>2, EmptyIsSeq
<1>4. ASSUME NEW n \in H PROVE n + 1 \in H
  <2> SUFFICES ASSUME n + 1 <= Len(s) PROVE Fine(n + 1)
    BY <1>4
  <2>1. n \in Nat /\ n + 1 \in 1 .. Len(s) /\ (n + 1) - 1 = n /\ n <= Len(s)
    BY <1>1, <1>4
  <2>2. IsSeq(h[n]) /\ Range(h[n]) = First(n) \ {x} /\ (IsInjective(s) => IsInjective(h[n]))
    BY <1>4, <2>1
  <2>3. h[n + 1] = IF s[n + 1] = x THEN h[n] ELSE Append(h[n], s[n + 1])
    BY <1>2, <2>1 DEF WithoutWalk
  <2>4. First(n + 1) = First(n) \cup {s[n + 1]}
    <3>1. \A k : k \in 1 .. (n + 1) <=> k \in 1 .. n \/ k = n + 1
      BY <2>1
    <3> QED
      BY <3>1
  <2>5. CASE s[n + 1] = x
    BY <2>2, <2>3, <2>4, <2>5
  <2>6. CASE s[n + 1] # x
    <3>1. h[n + 1] = Append(h[n], s[n + 1])
      BY <2>3, <2>6
    <3>2. IsSeq(h[n + 1]) /\ Range(h[n + 1]) = Range(h[n]) \cup {s[n + 1]}
      BY <2>2, <3>1, Appended
    <3>3. ASSUME IsInjective(s) PROVE s[n + 1] \notin Range(h[n])
      <4>1. ASSUME NEW k \in 1 .. n PROVE s[k] # s[n + 1]
        <5>1. k \in 1 .. Len(s) /\ k # n + 1
          BY <1>1, <2>1
        <5> QED
          BY <1>1, <2>1, <3>3, <5>1 DEF IsInjective
      <4> QED
        BY <2>2, <4>1
    <3>4. IsInjective(s) => IsInjective(h[n + 1])
      BY <2>2, <3>1, <3>3, AppendInj
    <3>5. Range(h[n + 1]) = First(n + 1) \ {x}
      BY <2>2, <2>4, <2>6, <3>2
    <3> QED
      BY <3>2, <3>4, <3>5
  <2> QED
    BY <2>5, <2>6
<1> HIDE DEF H
<1>5. Len(s) \in H
  BY <1>1, <1>3, <1>4, NatInduct
<1>6. Without(s, x) = h[Len(s)]
  BY <1>2 DEF WithoutWalk
<1> QED
  BY <1>1, <1>5, <1>6 DEF H

\* A sound arena stays one when entries are taken off, or data are replaced.
LEMMA SoundFewer ==
  ASSUME NEW nodes, Sound(nodes), NEW m, Shape(m), Len(m) = Len(nodes),
         \A i \in 1 .. Len(nodes) :
           /\ m[i].name = nodes[i].name /\ m[i].is_dir = nodes[i].is_dir
           /\ m[i].parent = nodes[i].parent /\ IsInjective(m[i].children)
           /\ Range(m[i].children) \subseteq Range(nodes[i].children)
  PROVE  Sound(m)
<1>1. PICK n : n = Len(nodes)
  OBVIOUS
<1>2. n \in Nat /\ (\A i \in 1 .. n : nodes[i].parent \in 1 .. n)
  BY <1>1 DEF Sound, Shape, IsSeq, Rooted, Root
<1>3. Kin(m)
  <2> SUFFICES ASSUME NEW i \in 1 .. n
               PROVE  /\ IsInjective(m[i].children)
                      /\ \A c \in Range(m[i].children) :
                           /\ c \in 1 .. n /\ i < c /\ m[c].parent = i
                           /\ \A d \in Range(m[i].children) : m[c].name = m[d].name => c = d
    BY <1>1 DEF Kin
  <2>1. \A c \in Range(m[i].children) : c \in Range(nodes[i].children)
    BY <1>1
  <2>2. \A c \in Range(nodes[i].children) :
          /\ c \in 1 .. n /\ i < c /\ nodes[c].parent = i
          /\ \A d \in Range(nodes[i].children) : nodes[c].name = nodes[d].name => c = d
    BY <1>1 DEF Sound, Kin
  <2> QED
    BY <1>1, <2>1, <2>2
<1>4. Rooted(m)
  BY <1>1 DEF Sound, Rooted
<1>5. Places(m)
  BY <1>1, <1>2 DEF Sound, Places, PlaceOk
<1> QED
  BY <1>3, <1>4, <1>5 DEF Sound

\* write replaces the data of a file.
DataSet(f, g, i, d) ==
  /\ Arena(g) /\ Extends(f, g) /\ Extends(g, f) /\ Len(g.nodes) = Len(f.nodes)
  /\ \A j \in 1 .. Len(f.nodes) :
       /\ g.nodes[j].children = f.nodes[j].children
       /\ g.nodes[j].data = IF j = i THEN d ELSE f.nodes[j].data

\* What the assignment to data in write does.
LEMMA SetData ==
  ASSUME NEW f, Arena(f), NEW i \in 1 .. Len(f.nodes), NEW d
  PROVE  DataSet(f, [f EXCEPT !.nodes[i].data = d], i, d)
<1>1. PICK e, m, g : /\ e = [f.nodes[i] EXCEPT !.data = d]
                     /\ m = [f.nodes EXCEPT ![i] = e]
                     /\ g = [f EXCEPT !.nodes[i].data = d]
  OBVIOUS
<1>2. PICK n : n = Len(f.nodes)
  OBVIOUS
<1>3. f = [nodes |-> f.nodes, cwd |-> f.cwd] /\ Sound(f.nodes) /\ Shape(f.nodes) /\ n >= 1
  BY <1>2 DEF Arena, Sound
<1>4. g.nodes = m /\ g.cwd = f.cwd /\ g = [nodes |-> g.nodes, cwd |-> g.cwd]
  BY <1>1, <1>3
<1>5. IsSeq(f.nodes) /\ n \in Nat /\ \A j \in 1 .. n : IsNode(f.nodes[j])
  BY <1>2, <1>3 DEF Shape, IsSeq
<1>6. /\ IsNode(e) /\ e.children = f.nodes[i].children /\ e.name = f.nodes[i].name
      /\ e.is_dir = f.nodes[i].is_dir /\ e.data = d /\ e.parent = f.nodes[i].parent
  <2>1. IsNode(f.nodes[i])
    BY <1>2, <1>5
  <2> QED
    BY <1>1, <2>1, NewData
<1>7. IsSeq(m) /\ Len(m) = n /\ \A j \in 1 .. n : m[j] = IF j = i THEN e ELSE f.nodes[j]
  <2>1. m = [f.nodes EXCEPT ![i] = e] /\ IsSeq(f.nodes)
    BY <1>1, <1>5
  <2>2. IsSeq(m)
    BY <2>1, Replaced
  <2>3. Len(m) = Len(f.nodes)
    BY <2>1, Replaced
  <2>4. \A j \in 1 .. Len(f.nodes) : m[j] = IF j = i THEN e ELSE f.nodes[j]
    BY <2>1, Replaced
  <2> QED
    BY <1>2, <2>2, <2>3, <2>4
<1>8. ASSUME NEW j \in 1 .. n
      PROVE  /\ IsNode(m[j]) /\ m[j].children = f.nodes[j].children
             /\ m[j].name = f.nodes[j].name /\ m[j].is_dir = f.nodes[j].is_dir
             /\ m[j].parent = f.nodes[j].parent
             /\ m[j].data = IF j = i THEN d ELSE f.nodes[j].data
  BY <1>5, <1>6, <1>7
<1>9. Shape(m)
  BY <1>7, <1>8 DEF Shape
<1>10. \A j \in 1 .. n : IsInjective(f.nodes[j].children)
  BY <1>2, <1>3 DEF Sound, Kin
<1>11. Sound(m)
  <2>1. Len(m) = Len(f.nodes)
    BY <1>2, <1>7
  <2>2. \A j \in 1 .. Len(f.nodes) :
           /\ m[j].name = f.nodes[j].name /\ m[j].is_dir = f.nodes[j].is_dir
           /\ m[j].parent = f.nodes[j].parent /\ IsInjective(m[j].children)
           /\ Range(m[j].children) \subseteq Range(f.nodes[j].children)
    BY <1>2, <1>8, <1>10
  <2> QED
    BY <1>3, <1>9, <2>1, <2>2, SoundFewer
<1>12. Arena(g)
  BY <1>3, <1>4, <1>7, <1>11 DEF Arena
<1>13. Extends(f, g) /\ Extends(g, f)
  BY <1>2, <1>4, <1>5, <1>7, <1>8 DEF Extends
<1> QED
  BY <1>1, <1>2, <1>4, <1>7, <1>8, <1>12, <1>13 DEF DataSet

\* remove takes an entry off its directory.
TakenOff(f, g, i) ==
  /\ Arena(g) /\ Extends(g, f) /\ Len(g.nodes) = Len(f.nodes)
  /\ \A j \in 1 .. Len(f.nodes) :
       /\ g.nodes[j].data = f.nodes[j].data
       /\ Range(g.nodes[j].children) = Range(f.nodes[j].children) \ {i}

TakeOff(f, i) == [f EXCEPT !.nodes[f.nodes[i].parent].children = Without(@, i)]

\* What remove does with a node that can go.
LEMMA TakeOffIs ==
  ASSUME NEW f, Arena(f), NEW i \in 1 .. Len(f.nodes)
  PROVE  TakenOff(f, TakeOff(f, i), i)
<1>0. PICK n : n = Len(f.nodes)
  OBVIOUS
<1>1. PICK p : p = f.nodes[i].parent
  OBVIOUS
<1>2. f = [nodes |-> f.nodes, cwd |-> f.cwd] /\ Sound(f.nodes) /\ Shape(f.nodes) /\ n >= 1
  BY <1>0 DEF Arena, Sound
<1>3. p \in 1 .. n /\ n \in Nat
  BY <1>0, <1>1, <1>2 DEF Sound, Shape, IsSeq, Rooted, Root
<1>4. PICK s : s = Without(f.nodes[p].children, i)
  OBVIOUS
<1>5. PICK e, m, g : /\ e = [f.nodes[p] EXCEPT !.children = s]
                     /\ m = [f.nodes EXCEPT ![p] = e]
                     /\ g = TakeOff(f, i)
  OBVIOUS
<1>6. IsSeq(f.nodes) /\ (\A j \in 1 .. n : IsNode(f.nodes[j]) /\ IsSeq(f.nodes[j].children))
  BY <1>0, <1>2 DEF Shape, IsNode
<1>7. g.nodes = m /\ g.cwd = f.cwd /\ g = [nodes |-> g.nodes, cwd |-> g.cwd]
  BY <1>1, <1>2, <1>4, <1>5 DEF TakeOff
<1>8. \A j \in 1 .. n : IsInjective(f.nodes[j].children)
  BY <1>0, <1>2 DEF Sound, Kin
<1>9. IsSeq(s) /\ Range(s) = Range(f.nodes[p].children) \ {i} /\ IsInjective(s)
  BY <1>3, <1>4, <1>6, <1>8, WithoutIs
<1>10. /\ IsNode(e) /\ e.children = s /\ e.name = f.nodes[p].name
       /\ e.is_dir = f.nodes[p].is_dir /\ e.data = f.nodes[p].data
       /\ e.parent = f.nodes[p].parent
  BY <1>3, <1>5, <1>6, <1>9, NewEntries
<1>11. IsSeq(m) /\ Len(m) = n /\ \A j \in 1 .. n : m[j] = IF j = p THEN e ELSE f.nodes[j]
  <2>1. m = [f.nodes EXCEPT ![p] = e] /\ IsSeq(f.nodes) /\ p \in 1 .. Len(f.nodes)
    BY <1>0, <1>3, <1>5, <1>6
  <2>2. IsSeq(m)
    BY <2>1, Replaced
  <2>3. Len(m) = Len(f.nodes)
    BY <2>1, Replaced
  <2>4. \A j \in 1 .. Len(f.nodes) : m[j] = IF j = p THEN e ELSE f.nodes[j]
    BY <2>1, Replaced
  <2> QED
    BY <1>0, <2>2, <2>3, <2>4
<1>12. ASSUME NEW j \in 1 .. n
       PROVE  /\ IsNode(m[j]) /\ m[j].data = f.nodes[j].data
              /\ m[j].name = f.nodes[j].name /\ m[j].is_dir = f.nodes[j].is_dir
              /\ m[j].parent = f.nodes[j].parent /\ IsInjective(m[j].children)
              /\ Range(m[j].children) = Range(f.nodes[j].children) \ {i}
  <2>1. CASE j = p
    BY <1>9, <1>10, <1>11, <2>1
  <2>2. CASE j # p
    <3>1. m[j] = f.nodes[j]
      BY <1>11, <2>2
    <3>2. i \notin Range(f.nodes[j].children)
      BY <1>0, <1>1, <1>2, <2>2 DEF Sound, Kin
    <3> QED
      BY <1>6, <1>8, <3>1, <3>2
  <2> QED
    BY <2>1, <2>2
<1>13. Shape(m)
  BY <1>11, <1>12 DEF Shape
<1>14. Sound(m)
  <2>1. Len(m) = Len(f.nodes)
    BY <1>0, <1>11
  <2>2. \A j \in 1 .. Len(f.nodes) :
           /\ m[j].name = f.nodes[j].name /\ m[j].is_dir = f.nodes[j].is_dir
           /\ m[j].parent = f.nodes[j].parent /\ IsInjective(m[j].children)
           /\ Range(m[j].children) \subseteq Range(f.nodes[j].children)
    BY <1>0, <1>12
  <2> QED
    BY <1>2, <1>13, <2>1, <2>2, SoundFewer
<1>15. Arena(g)
  BY <1>2, <1>7, <1>11, <1>14 DEF Arena
<1>16. Extends(g, f)
  BY <1>0, <1>3, <1>7, <1>11, <1>12 DEF Extends
<1>17. TakenOff(f, g, i)
  BY <1>0, <1>7, <1>11, <1>12, <1>15, <1>16 DEF TakenOff
<1> QED
  BY <1>5, <1>17

-----------------------------------------------------------------------------
(* write, remove and the purge of a directory *)

\* What write makes of f: nothing, or the file of that name with those data.
Written(f, g, p, name, data) ==
  /\ p # NoNode /\ f.nodes[p].is_dir /\ Arena(g) /\ Extends(f, g) /\ OnlyNew(f, g)
  /\ LET c == Child(g, p, name)
     IN  /\ c # NoNode /\ c \in Range(g.nodes[p].children)
         /\ ~g.nodes[c].is_dir /\ g.nodes[c].data = data
         /\ \A j \in 1 .. Len(f.nodes) : j # c => g.nodes[j].data = f.nodes[j].data
         /\ 1 .. Len(g.nodes) \subseteq 1 .. Len(f.nodes) \cup {c}

CanWrite(f, p, name) ==
  /\ p # NoNode /\ f.nodes[p].is_dir
  /\ Child(f, p, name) # NoNode => ~f.nodes[Child(f, p, name)].is_dir

\* write makes what Written says, or nothing.
LEMMA WriteIs ==
  ASSUME NEW f, Arena(f), NEW dir, Len(dir) \in Nat, NEW name, NEW data,
         NEW p, p = Resolve(f, Root, dir), p # NoNode => PlaceFor(f, p)
  PROVE  IF CanWrite(f, p, name) THEN Written(f, Write(f, dir, name, data), p, name, data)
         ELSE Write(f, dir, name, data) = f
<1>1. p \in 1 .. Len(f.nodes) \cup {NoNode} /\ Len(f.nodes) \in Nat
  BY ArenaNumbers, ResolveType
<1>2. PICK g : g = Write(f, dir, name, data)
  OBVIOUS
<1>3. CASE p = NoNode \/ ~f.nodes[p].is_dir
  <2>1. g = f
    BY <1>2, <1>3 DEF Write
  <2> QED
    BY <1>2, <1>3, <2>1 DEF CanWrite
<1>4. CASE p # NoNode /\ f.nodes[p].is_dir
  <2>1. p \in 1 .. Len(f.nodes) /\ PlaceFor(f, p)
    BY <1>1, <1>4
  <2>2. CASE Child(f, p, name) # NoNode
    <3>1. PICK c : c = Child(f, p, name)
      OBVIOUS
    <3>2. /\ c \in 1 .. Len(f.nodes) /\ c \in Range(f.nodes[p].children)
          /\ f.nodes[c].name = name
      BY <2>1, <2>2, <3>1, ChildIs
    <3>3. g = IF f.nodes[c].is_dir THEN f ELSE [f EXCEPT !.nodes[c].data = data]
      BY <1>2, <1>4, <2>2, <3>1 DEF Write
    <3>4. CASE f.nodes[c].is_dir
      BY <1>2, <2>2, <3>1, <3>3, <3>4 DEF CanWrite
    <3>5. CASE ~f.nodes[c].is_dir
      <4>1. DataSet(f, g, c, data)
        BY <3>2, <3>3, <3>5, SetData
      <4>2. /\ Arena(g) /\ Extends(f, g) /\ Len(g.nodes) = Len(f.nodes)
            /\ c \in Range(g.nodes[p].children) /\ g.nodes[c].name = name
            /\ ~g.nodes[c].is_dir /\ g.nodes[c].data = data
            /\ \A j \in 1 .. Len(f.nodes) : j # c => g.nodes[j].data = f.nodes[j].data
        BY <2>1, <3>2, <3>5, <4>1 DEF DataSet, Extends
      <4>3. Child(g, p, name) = c /\ c # NoNode
        <5>1. p \in 1 .. Len(g.nodes)
          BY <2>1, <4>2
        <5> QED
          BY <2>2, <3>1, <4>2, <5>1, ChildOf
      <4>6. OnlyNew(f, g)
        BY <4>1 DEF DataSet, OnlyNew
      <4>4. Written(f, g, p, name, data)
        BY <1>4, <4>2, <4>3, <4>6 DEF Written
      <4>5. CanWrite(f, p, name)
        BY <1>4, <3>1, <3>5 DEF CanWrite
      <4> QED
        BY <1>2, <4>4, <4>5
    <3> QED
      BY <3>4, <3>5
  <2>3. CASE Child(f, p, name) = NoNode
    <3>0. PICK n : n = Len(f.nodes) + 1
      OBVIOUS
    <3>1. PICK d \in BOOLEAN : d = FALSE
      OBVIOUS
    <3>2. PICK made : made = Add(f, p, name, d)
      OBVIOUS
    <3>3. NoEntry(f, p, name)
      BY <2>1, <2>3, ChildIs DEF NoEntry
    <3>4. Added(f, made, p, name, d)
      BY <2>1, <3>1, <3>2, <3>3, AddIs
    <3>5. /\ Arena(made) /\ Extends(f, made) /\ Len(made.nodes) = n
          /\ made.nodes[n].name = name /\ ~made.nodes[n].is_dir
          /\ n \in Range(made.nodes[p].children)
      BY <3>0, <3>1, <3>4 DEF Added
    <3>6. g = [made EXCEPT !.nodes[n].data = data]
      BY <1>2, <1>4, <2>3, <3>0, <3>1, <3>2, <3>5 DEF Write
    <3>7. n \in 1 .. Len(made.nodes) /\ (\A j \in 1 .. n : j \in 1 .. Len(f.nodes) \/ j = n)
          /\ (\A j \in 1 .. Len(f.nodes) : j \in 1 .. n /\ j # n) /\ n # NoNode
      BY <1>1, <3>0, <3>5 DEF NoNode
    <3>8. DataSet(made, g, n, data)
      BY <3>5, <3>6, <3>7, SetData
    <3>9. Arena(g) /\ Extends(made, g) /\ Len(g.nodes) = n
      BY <3>5, <3>8 DEF DataSet
    <3>10. p \in 1 .. n
      BY <2>1, <3>7
    <3>11. /\ n \in Range(g.nodes[p].children) /\ g.nodes[n].name = name
           /\ ~g.nodes[n].is_dir /\ g.nodes[n].data = data
      BY <3>5, <3>7, <3>8, <3>9, <3>10 DEF DataSet, Extends
    <3>12. Child(g, p, name) = n
      BY <3>9, <3>10, <3>11, ChildOf
    <3>13. \A j \in 1 .. Len(f.nodes) : made.nodes[j].data = f.nodes[j].data
      BY <3>4 DEF Added
    <3>14. \A j \in 1 .. Len(f.nodes) : j # n => g.nodes[j].data = f.nodes[j].data
      BY <3>5, <3>7, <3>8, <3>13 DEF DataSet
    <3>15. Extends(f, g)
      BY <3>5, <3>9, ExtendsOn
    <3>18. OnlyNew(f, g)
      <4>1. \A j \in 1 .. Len(f.nodes) :
              /\ g.nodes[j].children = made.nodes[j].children
              /\ Range(made.nodes[j].children) \subseteq Range(f.nodes[j].children) \cup {n}
        BY <3>0, <3>4, <3>5, <3>7, <3>8 DEF DataSet, Added
      <4>2. n \notin 1 .. Len(f.nodes)
        BY <3>7
      <4> QED
        BY <4>1, <4>2 DEF OnlyNew
    <3>16. Written(f, g, p, name, data)
      BY <1>4, <3>7, <3>9, <3>11, <3>12, <3>14, <3>15, <3>18 DEF Written
    <3>17. CanWrite(f, p, name)
      BY <1>4, <2>3 DEF CanWrite
    <3> QED
      BY <1>2, <3>16, <3>17
  <2> QED
    BY <2>2, <2>3
<1> QED
  BY <1>3, <1>4

\* write keeps the tree one and everything that was there.
LEMMA WriteSound ==
  ASSUME NEW f, Arena(f), NEW dir, Len(dir) \in Nat, NEW name, NEW data,
         LET p == Resolve(f, Root, dir) IN p # NoNode => PlaceFor(f, p)
  PROVE  Arena(Write(f, dir, name, data)) /\ Extends(f, Write(f, dir, name, data))
<1>1. PICK p : p = Resolve(f, Root, dir)
  OBVIOUS
<1>2. IF CanWrite(f, p, name) THEN Written(f, Write(f, dir, name, data), p, name, data)
      ELSE Write(f, dir, name, data) = f
  BY <1>1, WriteIs
<1> QED
  BY <1>2, ExtendsSelf DEF Written

\* Files may lie in /etc and in a directory of a directory of the root.
LEMMA EtcPlace ==
  ASSUME NEW f, Arena(f), NEW p, p = Resolve(f, Root, <<"etc">>), p # NoNode
  PROVE  PlaceFor(f, p)
<1>1. Root \in 1 .. Len(f.nodes)
  BY ArenaNumbers
<1>2. Enter(f, Root, "etc") = p
  BY ResolveOne
<1>3. f.nodes[p].name = "etc"
  BY <1>1, <1>2, EnterIs
<1> QED
  BY <1>3 DEF PlaceFor

\* Where a path of two names ends: below a directory of the root.
LEMMA DeepPlace ==
  ASSUME NEW f, Arena(f), NEW a, NEW b, NEW p, p = Resolve(f, Root, <<a, b>>), p # NoNode
  PROVE  /\ PlaceFor(f, p) /\ p \in 1 .. Len(f.nodes) /\ p # Root
         /\ f.nodes[p].name = b /\ Enter(f, Root, a) # NoNode
         /\ f.nodes[p].parent = Enter(f, Root, a)
         /\ f.nodes[f.nodes[p].parent].parent = Root /\ f.nodes[p].parent # Root
         /\ f.nodes[f.nodes[p].parent].name = a
         /\ f.nodes[p].parent \in 1 .. Len(f.nodes)
<1>1. Root \in 1 .. Len(f.nodes) /\ Len(f.nodes) \in Nat
  BY ArenaNumbers
<1>2. PICK h : h = Enter(f, Root, a)
  OBVIOUS
<1>3. Enter(f, h, b) = p
  BY <1>2, ResolveTwo
<1>4. h # NoNode
  BY <1>3 DEF Enter
<1>5. h \in 1 .. Len(f.nodes) /\ f.nodes[h].name = a /\ f.nodes[h].parent = Root /\ Root < h
  BY <1>1, <1>2, <1>4, EnterIs
<1>6. p \in 1 .. Len(f.nodes) /\ f.nodes[p].name = b /\ f.nodes[p].parent = h /\ h < p
  BY <1>3, <1>5, EnterIs
<1>7. h # Root /\ p # Root
  BY <1>1, <1>5, <1>6 DEF Root
<1> QED
  BY <1>2, <1>4, <1>5, <1>6, <1>7 DEF PlaceFor

\* remove does nothing, or takes the node that the path leads to off.
LEMMA RemoveIs ==
  ASSUME NEW f, Arena(f), NEW path, Len(path) \in Nat, NEW i, i = Resolve(f, Root, path)
  PROVE  \/ RemoveNode(f, path) = f
         \/ /\ i \in 1 .. Len(f.nodes) /\ TakenOff(f, RemoveNode(f, path), i)
            /\ f.nodes[i].is_dir => f.nodes[i].children = << >>
<1>1. i \in 1 .. Len(f.nodes) \cup {NoNode}
  BY ArenaNumbers, ResolveType
<1>2. RemoveNode(f, path) = f
      \/ /\ RemoveNode(f, path) = TakeOff(f, i) /\ i # NoNode
         /\ f.nodes[i].is_dir => f.nodes[i].children = << >>
  BY DEF RemoveNode, TakeOff
<1> QED
  BY <1>1, <1>2, TakeOffIs

\* What may be taken off for a path: what it leads to, and the entries of that.
Meant(f, path, c) ==
  LET i == Resolve(f, Root, path) IN i # NoNode /\ (c = i \/ f.nodes[c].parent = i)
Pruned(f, g, path) ==
  /\ Arena(g) /\ Extends(g, f) /\ Len(g.nodes) = Len(f.nodes)
  /\ \A j \in 1 .. Len(f.nodes) :
       /\ g.nodes[j].data = f.nodes[j].data
       /\ \A c \in Range(f.nodes[j].children) :
            c \in Range(g.nodes[j].children) \/ Meant(f, path, c)

\* Pruned is reflexive.
LEMMA PrunedSelf == ASSUME NEW f, Arena(f), NEW path PROVE Pruned(f, f, path)
BY ExtendsSelf DEF Pruned

\* It is transitive.
LEMMA PrunedOn ==
  ASSUME NEW f, Arena(f), NEW path, Len(path) \in Nat, NEW g, Pruned(f, g, path),
         NEW p, Len(p) \in Nat, NEW i, i = Resolve(g, Root, p),
         i \in 1 .. Len(g.nodes) => Meant(f, path, i)
  PROVE  Pruned(f, RemoveNode(g, p), path)
<1>1. CASE RemoveNode(g, p) = g
  BY <1>1
<1>2. CASE i \in 1 .. Len(g.nodes) /\ TakenOff(g, RemoveNode(g, p), i)
  <2>1. PICK k : k = RemoveNode(g, p)
    OBVIOUS
  <2>2. /\ Arena(k) /\ Extends(k, g) /\ Len(k.nodes) = Len(f.nodes)
        /\ Arena(g) /\ Extends(g, f) /\ Len(g.nodes) = Len(f.nodes)
    BY <1>2, <2>1 DEF TakenOff, Pruned
  <2>3. Extends(k, f)
    BY <2>2, ExtendsOn
  <2>4. ASSUME NEW j \in 1 .. Len(f.nodes)
        PROVE  /\ k.nodes[j].data = f.nodes[j].data
               /\ \A c \in Range(f.nodes[j].children) :
                    c \in Range(k.nodes[j].children) \/ Meant(f, path, c)
    <3>1. k.nodes[j].data = g.nodes[j].data
          /\ Range(k.nodes[j].children) = Range(g.nodes[j].children) \ {i}
      BY <1>2, <2>1, <2>2 DEF TakenOff
    <3>2. /\ g.nodes[j].data = f.nodes[j].data
          /\ \A c \in Range(f.nodes[j].children) :
               c \in Range(g.nodes[j].children) \/ Meant(f, path, c)
      BY DEF Pruned
    <3> QED
      BY <1>2, <3>1, <3>2
  <2>5. Pruned(f, k, path)
    BY <2>2, <2>3, <2>4 DEF Pruned
  <2> QED
    BY <2>1, <2>5
<1>3. Arena(g)
  BY DEF Pruned
<1> QED
  BY <1>1, <1>2, <1>3, RemoveIs

Leaves(f, path, names) ==
  LET left[k \in 0 .. Len(names)] ==
        IF k = 0 THEN f ELSE RemoveNode(left[k - 1], Append(path, names[k]))
  IN  left[Len(names)]

\* userdel -r goes through the entries of the home directory.
LeavesWalk(f, path, names, h) ==
  /\ h[0] = f
  /\ \A k \in 1 .. Len(names) : h[k] = RemoveNode(h[k - 1], Append(path, names[k]))
  /\ Leaves(f, path, names) = h[Len(names)]

\* The purge, entry by entry.
LEMMA LeavesSteps ==
  ASSUME NEW f, NEW path, NEW names, Len(names) \in Nat
  PROVE  \E h : LeavesWalk(f, path, names, h)
<1> DEFINE Base == f
           Step(v, k) == RemoveNode(v, Append(path, names[k]))
           last == Len(names)
           Walk(g, n) == /\ g = [k \in 0 .. n |-> g[k]]
                         /\ g[0] = Base /\ \A k \in 1 .. n : g[k] = Step(g[k - 1], k)
           G == { n \in Nat : \E g : Walk(g, n) }
           Def(h) == [k \in 0 .. last |-> IF k = 0 THEN Base ELSE Step(h[k - 1], k)]
           h == CHOOSE h : h = Def(h)
<1>1. last \in Nat
  OBVIOUS
<1>2. Leaves(f, path, names) = h[last]
  BY DEF Leaves
<1> HIDE DEF Base, Step, last
<1>3. 0 \in G
  <2>1. Walk([k \in 0 .. 0 |-> Base], 0)
    OBVIOUS
  <2> QED
    BY <2>1, Zenon
<1>4. ASSUME NEW n \in G PROVE n + 1 \in G
  <2>1. PICK g : Walk(g, n)
    BY <1>4
  <2>2. PICK w : w = [k \in 0 .. (n + 1) |-> IF k = n + 1 THEN Step(g[n], k) ELSE g[k]]
    OBVIOUS
  <2>3. n \in Nat /\ n + 1 \in Nat
    BY <1>4
  <2>4. w = [k \in 0 .. (n + 1) |-> w[k]] /\ w[0] = Base
    BY <2>1, <2>2, <2>3
  <2>5. ASSUME NEW k \in 1 .. (n + 1) PROVE w[k] = Step(w[k - 1], k)
    <3>1. CASE k = n + 1
      <4>1. k \in 0 .. (n + 1) /\ n \in 0 .. (n + 1) /\ k - 1 = n /\ n # n + 1
        BY <2>3, <3>1
      <4>2. w[k] = Step(g[n], k) /\ w[n] = g[n]
        BY <2>2, <3>1, <4>1
      <4> QED
        BY <4>1, <4>2
    <3>2. CASE k # n + 1
      <4>1. k \in 1 .. n /\ k \in 0 .. (n + 1) /\ k - 1 \in 0 .. (n + 1) /\ k - 1 # n + 1
        BY <2>3, <3>2
      <4>2. w[k] = g[k] /\ w[k - 1] = g[k - 1]
        BY <2>2, <3>2, <4>1
      <4> QED
        BY <2>1, <4>1, <4>2
    <3> QED
      BY <3>1, <3>2
  <2>6. Walk(w, n + 1)
    BY <2>4, <2>5
  <2> QED
    BY <2>3, <2>6
<1>5. last \in G
  <2> HIDE DEF G
  <2> QED
    BY <1>1, <1>3, <1>4, NatInduct
<1>6. PICK g : Walk(g, last)
  BY <1>5
<1>7. g = Def(g)
  <2>1. ASSUME NEW k \in 0 .. last PROVE g[k] = IF k = 0 THEN Base ELSE Step(g[k - 1], k)
    <3>1. k = 0 \/ k \in 1 .. last
      BY <1>1
    <3> QED
      BY <1>1, <1>6, <3>1
  <2> QED
    BY <1>6, <2>1
<1>8. h = Def(h)
  BY <1>7, Zenon
<1> HIDE DEF h
<1>9. h[0] = Base
  <2>1. 0 \in 0 .. last
    BY <1>1
  <2> QED
    BY <1>8, <2>1
<1>10. ASSUME NEW k \in 1 .. last PROVE h[k] = Step(h[k - 1], k)
  <2>1. k \in 0 .. last /\ k # 0
    BY <1>1
  <2> QED
    BY <1>8, <2>1
<1> QED
  BY <1>2, <1>9, <1>10, Zenon DEF Base, Step, last, LeavesWalk

\* RemoveAll is a removal for each name and one for what is at the path.
LEMMA RemoveAllIs ==
  ASSUME NEW f, NEW path, NEW names
  PROVE  RemoveAll(f, path, names) = RemoveNode(Leaves(f, path, names), path)
BY DEF RemoveAll, Leaves

\* As many names as entries.
LEMMA NamesIs ==
  ASSUME NEW f, Arena(f), NEW i \in 1 .. Len(f.nodes)
  PROVE  IsSeq(EntryNames(f, i)) /\ Len(EntryNames(f, i)) = Len(f.nodes[i].children)
<1>1. IsSeq(f.nodes[i].children)
  BY DEF Arena, Sound, Shape, IsNode
<1>2. PICK n : n = Len(f.nodes[i].children)
  OBVIOUS
<1>3. n \in Nat /\ DOMAIN f.nodes[i].children = 1 .. n
  BY <1>1, <1>2, RangeIs DEF IsSeq
<1>4. EntryNames(f, i) = [k \in 1 .. n |-> f.nodes[f.nodes[i].children[k]].name]
  BY <1>3 DEF EntryNames
<1>5. Len(EntryNames(f, i)) = n
  BY <1>3, <1>4
<1> QED
  BY <1>2, <1>3, <1>4, <1>5 DEF IsSeq

\* ls gives as many names as there are entries, or one.
LEMMA LsIs ==
  ASSUME NEW f, Arena(f), NEW i \in 1 .. Len(f.nodes) \cup {NoNode}
  PROVE  Len(Ls(f, i)) \in Nat
<1>1. CASE i = NoNode
  BY <1>1, EmptyIsSeq DEF Ls
<1>2. CASE i # NoNode /\ f.nodes[i].is_dir
  <2>1. Ls(f, i) = EntryNames(f, i)
    BY <1>2 DEF Ls
  <2> QED
    BY <1>2, <2>1, NamesIs DEF IsSeq
<1>3. CASE i # NoNode /\ ~f.nodes[i].is_dir
  <2>1. PICK x : x = f.nodes[i].name
    OBVIOUS
  <2>2. Ls(f, i) = <<x>>
    BY <1>3, <2>1 DEF Ls
  <2>3. Len(<<x>>) = 1
    OBVIOUS
  <2> QED
    BY <2>2, <2>3
<1> QED
  BY <1>1, <1>2, <1>3

\* The removals of the entries prune.
LEMMA LeavesPruned ==
  ASSUME NEW f, Arena(f), NEW path, IsSeq(path), NEW names, Len(names) \in Nat
  PROVE  Pruned(f, Leaves(f, path, names), path)
<1>1. PICK h : LeavesWalk(f, path, names, h)
  BY LeavesSteps
<1> DEFINE H == { n \in Nat : n <= Len(names) => Pruned(f, h[n], path) }
<1>2. 0 \in H
  BY <1>1, PrunedSelf DEF LeavesWalk
<1>3. ASSUME NEW n \in H PROVE n + 1 \in H
  <2> SUFFICES ASSUME n + 1 <= Len(names) PROVE Pruned(f, h[n + 1], path)
    BY <1>3
  <2>1. n \in Nat /\ n + 1 \in 1 .. Len(names) /\ (n + 1) - 1 = n /\ n <= Len(names)
    BY <1>3
  <2>2. PICK p, g, i : /\ p = Append(path, names[n + 1]) /\ g = h[n]
                       /\ i = Resolve(g, Root, p)
    OBVIOUS
  <2>3. Len(p) \in Nat /\ Len(path) \in Nat
    BY <2>2, Appended DEF IsSeq
  <2>4. h[n + 1] = RemoveNode(g, p)
    BY <1>1, <2>1, <2>2 DEF LeavesWalk
  <2>5. Pruned(f, g, path)
    BY <1>3, <2>1, <2>2
  <2>6. Arena(g) /\ Extends(g, f) /\ Root \in 1 .. Len(g.nodes) /\ NoNode \notin 1 .. Len(g.nodes)
        /\ Len(g.nodes) = Len(f.nodes)
    BY <2>5, ArenaNumbers DEF Pruned
  <2>7. ASSUME i \in 1 .. Len(g.nodes) PROVE Meant(f, path, i)
    <3>1. PICK d : d = Resolve(g, Root, path)
      OBVIOUS
    <3>2. Enter(g, d, names[n + 1]) = i
      BY <2>2, <3>1, ResolveAppend
    <3>3. i # NoNode
      BY <2>6, <2>7
    <3>4. d # NoNode /\ d \in 1 .. Len(g.nodes) \cup {NoNode}
      BY <2>3, <2>6, <3>1, <3>2, <3>3, ResolveType DEF Enter
    <3>5. g.nodes[i].parent = d
      BY <2>6, <3>2, <3>3, <3>4, EnterIs
    <3>6. f.nodes[i].parent = d
      BY <2>6, <2>7, <3>5 DEF Extends
    <3>7. Resolve(f, Root, path) = d
      BY <2>3, <2>6, <3>1, <3>4, ExtendsResolve
    <3> QED
      BY <3>4, <3>6, <3>7 DEF Meant
  <2> QED
    BY <2>2, <2>3, <2>4, <2>5, <2>7, PrunedOn
<1> HIDE DEF H
<1>4. Len(names) \in H
  BY <1>2, <1>3, NatInduct
<1> QED
  BY <1>1, <1>4 DEF H, LeavesWalk

\* The purge prunes.
LEMMA RemoveAllPruned ==
  ASSUME NEW f, Arena(f), NEW path, IsSeq(path), NEW names, Len(names) \in Nat
  PROVE  Pruned(f, RemoveAll(f, path, names), path)
<1>2. Len(path) \in Nat
  BY DEF IsSeq
<1>4. Len(names) \in Nat
  OBVIOUS
<1>5. PICK g, d : g = Leaves(f, path, names) /\ d = Resolve(g, Root, path)
  OBVIOUS
<1>6. Pruned(f, g, path)
  BY <1>4, <1>5, LeavesPruned
<1>7. RemoveAll(f, path, names) = RemoveNode(g, path)
  BY <1>5, RemoveAllIs
<1>8. ASSUME d \in 1 .. Len(g.nodes) PROVE Meant(f, path, d)
  <2>1. Arena(g) /\ Extends(g, f) /\ NoNode \notin 1 .. Len(g.nodes)
    BY <1>6, ArenaNumbers DEF Pruned
  <2>2. d # NoNode
    BY <1>8, <2>1
  <2>3. Resolve(f, Root, path) = d
    BY <1>2, <1>5, <2>1, <2>2, ExtendsResolve
  <2> QED
    BY <2>2, <2>3 DEF Meant
<1>9. Pruned(f, RemoveNode(g, path), path)
  BY <1>2, <1>5, <1>6, <1>8, PrunedOn
<1> QED
  BY <1>7, <1>9

-----------------------------------------------------------------------------
(* serialize, call by call *)

EntryOf(f, i) == [name |-> f.nodes[i].name, is_dir |-> f.nodes[i].is_dir,
                  data |-> f.nodes[i].data, count |-> Len(Entries(f, i))]
ImageOf(f, calls) == [k \in DOMAIN calls |-> EntryOf(f, calls[k].node)]

\* ser_node goes from call to call, ...
SerializeWalk(f, h) ==
  /\ h[0] = <<[node |-> Root, left |-> Entries(f, Root)]>>
  /\ \A k \in 1 .. Len(f.nodes) : h[k] = Visit(f, h[k - 1])
  /\ Serialize(f) = ImageOf(f, h[Len(f.nodes)])

\* serialize, call by call.
LEMMA SerializeSteps ==
  ASSUME NEW f, Len(f.nodes) \in Nat
  PROVE  \E h : SerializeWalk(f, h)
<1> DEFINE Base == <<[node |-> Root, left |-> Entries(f, Root)]>>
           Step(v, k) == Visit(f, v)
           last == Len(f.nodes)
           Walk(g, n) == /\ g = [k \in 0 .. n |-> g[k]]
                         /\ g[0] = Base /\ \A k \in 1 .. n : g[k] = Step(g[k - 1], k)
           G == { n \in Nat : \E g : Walk(g, n) }
           Def(h) == [k \in 0 .. last |-> IF k = 0 THEN Base ELSE Step(h[k - 1], k)]
           h == CHOOSE h : h = Def(h)
<1>1. last \in Nat
  OBVIOUS
<1>2. Serialize(f) = ImageOf(f, h[last])
  BY DEF Serialize, ImageOf, EntryOf
<1> HIDE DEF Base, Step, last
<1>3. 0 \in G
  <2>1. Walk([k \in 0 .. 0 |-> Base], 0)
    OBVIOUS
  <2> QED
    BY <2>1, Zenon
<1>4. ASSUME NEW n \in G PROVE n + 1 \in G
  <2>1. PICK g : Walk(g, n)
    BY <1>4
  <2>2. PICK w : w = [k \in 0 .. (n + 1) |-> IF k = n + 1 THEN Step(g[n], k) ELSE g[k]]
    OBVIOUS
  <2>3. n \in Nat /\ n + 1 \in Nat
    BY <1>4
  <2>4. w = [k \in 0 .. (n + 1) |-> w[k]] /\ w[0] = Base
    BY <2>1, <2>2, <2>3
  <2>5. ASSUME NEW k \in 1 .. (n + 1) PROVE w[k] = Step(w[k - 1], k)
    <3>1. CASE k = n + 1
      <4>1. k \in 0 .. (n + 1) /\ n \in 0 .. (n + 1) /\ k - 1 = n /\ n # n + 1
        BY <2>3, <3>1
      <4>2. w[k] = Step(g[n], k) /\ w[n] = g[n]
        BY <2>2, <3>1, <4>1
      <4> QED
        BY <4>1, <4>2
    <3>2. CASE k # n + 1
      <4>1. k \in 1 .. n /\ k \in 0 .. (n + 1) /\ k - 1 \in 0 .. (n + 1) /\ k - 1 # n + 1
        BY <2>3, <3>2
      <4>2. w[k] = g[k] /\ w[k - 1] = g[k - 1]
        BY <2>2, <3>2, <4>1
      <4> QED
        BY <2>1, <4>1, <4>2
    <3> QED
      BY <3>1, <3>2
  <2>6. Walk(w, n + 1)
    BY <2>4, <2>5
  <2> QED
    BY <2>3, <2>6
<1>5. last \in G
  <2> HIDE DEF G
  <2> QED
    BY <1>1, <1>3, <1>4, NatInduct
<1>6. PICK g : Walk(g, last)
  BY <1>5
<1>7. g = Def(g)
  <2>1. ASSUME NEW k \in 0 .. last PROVE g[k] = IF k = 0 THEN Base ELSE Step(g[k - 1], k)
    <3>1. k = 0 \/ k \in 1 .. last
      BY <1>1
    <3> QED
      BY <1>1, <1>6, <3>1
  <2> QED
    BY <1>6, <2>1
<1>8. h = Def(h)
  BY <1>7, Zenon
<1> HIDE DEF h
<1>9. h[0] = Base
  <2>1. 0 \in 0 .. last
    BY <1>1
  <2> QED
    BY <1>8, <2>1
<1>10. ASSUME NEW k \in 1 .. last PROVE h[k] = Step(h[k - 1], k)
  <2>1. k \in 0 .. last /\ k # 0
    BY <1>1
  <2> QED
    BY <1>8, <2>1
<1> QED
  BY <1>2, <1>9, <1>10, Zenon DEF Base, Step, last, SerializeWalk

\* ... and de_node from node to node.
DeserializeWalk(image, h) ==
  /\ h[0] = << >>
  /\ \A k \in 1 .. Len(image) : h[k] = Placed(h[k - 1], image)
  /\ Deserialize(image) = [nodes |-> h[Len(image)], cwd |-> Root]

\* deserialize, entry by entry.
LEMMA DeserializeSteps ==
  ASSUME NEW image, Len(image) \in Nat
  PROVE  \E h : DeserializeWalk(image, h)
<1> DEFINE Base == << >>
           Step(v, k) == Placed(v, image)
           last == Len(image)
           Walk(g, n) == /\ g = [k \in 0 .. n |-> g[k]]
                         /\ g[0] = Base /\ \A k \in 1 .. n : g[k] = Step(g[k - 1], k)
           G == { n \in Nat : \E g : Walk(g, n) }
           Def(h) == [k \in 0 .. last |-> IF k = 0 THEN Base ELSE Step(h[k - 1], k)]
           h == CHOOSE h : h = Def(h)
<1>1. last \in Nat
  OBVIOUS
<1>2. Deserialize(image) = [nodes |-> h[last], cwd |-> Root]
  BY DEF Deserialize
<1> HIDE DEF Base, Step, last
<1>3. 0 \in G
  <2>1. Walk([k \in 0 .. 0 |-> Base], 0)
    OBVIOUS
  <2> QED
    BY <2>1, Zenon
<1>4. ASSUME NEW n \in G PROVE n + 1 \in G
  <2>1. PICK g : Walk(g, n)
    BY <1>4
  <2>2. PICK w : w = [k \in 0 .. (n + 1) |-> IF k = n + 1 THEN Step(g[n], k) ELSE g[k]]
    OBVIOUS
  <2>3. n \in Nat /\ n + 1 \in Nat
    BY <1>4
  <2>4. w = [k \in 0 .. (n + 1) |-> w[k]] /\ w[0] = Base
    BY <2>1, <2>2, <2>3
  <2>5. ASSUME NEW k \in 1 .. (n + 1) PROVE w[k] = Step(w[k - 1], k)
    <3>1. CASE k = n + 1
      <4>1. k \in 0 .. (n + 1) /\ n \in 0 .. (n + 1) /\ k - 1 = n /\ n # n + 1
        BY <2>3, <3>1
      <4>2. w[k] = Step(g[n], k) /\ w[n] = g[n]
        BY <2>2, <3>1, <4>1
      <4> QED
        BY <4>1, <4>2
    <3>2. CASE k # n + 1
      <4>1. k \in 1 .. n /\ k \in 0 .. (n + 1) /\ k - 1 \in 0 .. (n + 1) /\ k - 1 # n + 1
        BY <2>3, <3>2
      <4>2. w[k] = g[k] /\ w[k - 1] = g[k - 1]
        BY <2>2, <3>2, <4>1
      <4> QED
        BY <2>1, <4>1, <4>2
    <3> QED
      BY <3>1, <3>2
  <2>6. Walk(w, n + 1)
    BY <2>4, <2>5
  <2> QED
    BY <2>3, <2>6
<1>5. last \in G
  <2> HIDE DEF G
  <2> QED
    BY <1>1, <1>3, <1>4, NatInduct
<1>6. PICK g : Walk(g, last)
  BY <1>5
<1>7. g = Def(g)
  <2>1. ASSUME NEW k \in 0 .. last PROVE g[k] = IF k = 0 THEN Base ELSE Step(g[k - 1], k)
    <3>1. k = 0 \/ k \in 1 .. last
      BY <1>1
    <3> QED
      BY <1>1, <1>6, <3>1
  <2> QED
    BY <1>6, <2>1
<1>8. h = Def(h)
  BY <1>7, Zenon
<1> HIDE DEF h
<1>9. h[0] = Base
  <2>1. 0 \in 0 .. last
    BY <1>1
  <2> QED
    BY <1>8, <2>1
<1>10. ASSUME NEW k \in 1 .. last PROVE h[k] = Step(h[k - 1], k)
  <2>1. k \in 0 .. last /\ k # 0
    BY <1>1
  <2> QED
    BY <1>8, <2>1
<1> QED
  BY <1>2, <1>9, <1>10, Zenon DEF Base, Step, last, DeserializeWalk

\* The calls of ser_node: each is for a node, and for some of its entries still.
Calls(f, calls) ==
  /\ IsSeq(calls)
  /\ \A k \in 1 .. Len(calls) :
       /\ calls[k] = [node |-> calls[k].node, left |-> calls[k].left]
       /\ calls[k].node \in 1 .. Len(f.nodes)
       /\ IsSeq(calls[k].left) /\ Range(calls[k].left) \subseteq 1 .. Len(f.nodes)

Open(calls) == {k \in DOMAIN calls : calls[k].left # << >>}

\* The entries of a directory, in their order.
LEMMA EntriesAre ==
  ASSUME NEW f, Arena(f), NEW i \in 1 .. Len(f.nodes)
  PROVE  /\ IsSeq(Entries(f, i)) /\ IsInjective(Entries(f, i))
         /\ \A c \in Range(Entries(f, i)) :
              /\ c \in 1 .. Len(f.nodes) /\ f.nodes[c].parent = i /\ i < c
              /\ \A d \in Range(Entries(f, i)) : f.nodes[c].name = f.nodes[d].name => c = d
<1>1. /\ IsSeq(f.nodes[i].children) /\ IsInjective(f.nodes[i].children)
      /\ \A c \in Range(f.nodes[i].children) :
           /\ c \in 1 .. Len(f.nodes) /\ f.nodes[c].parent = i /\ i < c
           /\ \A d \in Range(f.nodes[i].children) : f.nodes[c].name = f.nodes[d].name => c = d
  BY DEF Arena, Sound, Shape, IsNode, Kin
<1>2. IsSeq(<< >>) /\ IsInjective(<< >>) /\ Range(<< >>) = {}
  BY EmptyIsSeq, RangeIs DEF IsInjective
<1>3. CASE f.nodes[i].is_dir
  BY <1>1, <1>3 DEF Entries
<1>4. CASE ~f.nodes[i].is_dir
  <2>1. Entries(f, i) = << >>
    BY <1>4 DEF Entries
  <2> QED
    BY <1>2, <2>1
<1> QED
  BY <1>3, <1>4

\* One call more: the last that has entries left gives its next one to it.
Visited(f, calls, next, q) ==
  /\ Calls(f, next) /\ Len(next) = Len(calls) + 1
  /\ \A k \in 1 .. Len(calls) : next[k].node = calls[k].node
  /\ \A k \in 1 .. Len(calls) : k # q => next[k].left = calls[k].left
  /\ next[q].left = Tail(calls[q].left)
  /\ next[Len(calls) + 1].node = calls[q].left[1]
  /\ next[Len(calls) + 1].left = Entries(f, calls[q].left[1])

\* The call of ser_node that goes on has an entry left.
LEMMA OpenIs ==
  ASSUME NEW f, NEW calls, Calls(f, calls), Open(calls) # {}
  PROVE  /\ Max(Open(calls)) \in 1 .. Len(calls) /\ calls[Max(Open(calls))].left # << >>
         /\ Head(calls[Max(Open(calls))].left) = calls[Max(Open(calls))].left[1]
         /\ Len(calls[Max(Open(calls))].left) >= 1
<1>1. IsSeq(calls) /\ DOMAIN calls = 1 .. Len(calls) /\ Len(calls) \in Nat
  BY RangeIs DEF Calls, IsSeq
<1>2. Open(calls) \in SUBSET (0 .. Len(calls))
  BY <1>1 DEF Open
<1>3. Max(Open(calls)) \in Open(calls)
  BY <1>1, <1>2, MaxIs
<1>4. PICK q : q = Max(Open(calls))
  OBVIOUS
<1>5. q \in 1 .. Len(calls) /\ calls[q].left # << >>
  BY <1>1, <1>3, <1>4 DEF Open
<1>6. IsSeq(calls[q].left)
  BY <1>5 DEF Calls
<1> QED
  BY <1>4, <1>5, <1>6, Tailed

\* One more call of ser_node.
LEMMA VisitIs ==
  ASSUME NEW f, Arena(f), NEW calls, Calls(f, calls)
  PROVE  IF Open(calls) = {} THEN Visit(f, calls) = calls
         ELSE Visited(f, calls, Visit(f, calls), Max(Open(calls)))
<1>1. CASE Open(calls) = {}
  BY <1>1 DEF Visit, Open
<1>2. CASE Open(calls) # {}
  <2>1. PICK q, i, n : /\ q = Max(Open(calls)) /\ i = Head(calls[q].left)
                       /\ n = Len(calls)
    OBVIOUS
  <2>2. PICK e, t, x, next : /\ e = [calls[q] EXCEPT !.left = Tail(@)]
                             /\ t = [calls EXCEPT ![q] = e]
                             /\ x = [node |-> i, left |-> Entries(f, i)]
                             /\ next = Append(t, x)
    OBVIOUS
  <2>3. Visit(f, calls) = next
    BY <1>2, <2>1, <2>2 DEF Visit, Open
  <2>4. IsSeq(calls) /\ n \in Nat
    BY <2>1 DEF Calls, IsSeq
  <2>5. /\ q \in 1 .. n /\ calls[q].left # << >> /\ i = calls[q].left[1]
        /\ Len(calls[q].left) >= 1
    BY <1>2, <2>1, OpenIs
  <2>6. /\ calls[q] = [node |-> calls[q].node, left |-> calls[q].left]
        /\ IsSeq(calls[q].left) /\ Range(calls[q].left) \subseteq 1 .. Len(f.nodes)
        /\ calls[q].node \in 1 .. Len(f.nodes)
    BY <2>1, <2>5 DEF Calls
  <2>7. PICK s : s = calls[q].left
    OBVIOUS
  <2>8. IsSeq(Tail(s)) /\ Len(Tail(s)) = Len(s) - 1 /\ Len(s) \in Nat
        /\ \A k \in 1 .. Len(s) - 1 : Tail(s)[k] = s[k + 1]
    BY <2>5, <2>6, <2>7, Tailed DEF IsSeq
  <2>9. Range(s) = { s[k] : k \in 1 .. Len(s) }
        /\ Range(Tail(s)) = { Tail(s)[k] : k \in 1 .. Len(s) - 1 }
    <3>1. IsSeq(s)
      BY <2>6, <2>7
    <3>2. Range(s) = { s[k] : k \in 1 .. Len(s) }
      BY <3>1, RangeIs
    <3>3. Range(Tail(s)) = { Tail(s)[k] : k \in 1 .. Len(Tail(s)) }
      BY <2>8, RangeIs
    <3> QED
      BY <2>8, <3>2, <3>3
  <2>10. Range(Tail(s)) \subseteq 1 .. Len(f.nodes) /\ i \in 1 .. Len(f.nodes)
    <3>1. \A k \in 1 .. Len(s) - 1 : k + 1 \in 1 .. Len(s)
      BY <2>8
    <3>2. \A k \in 1 .. Len(s) - 1 : Tail(s)[k] \in Range(s)
      BY <2>8, <2>9, <3>1
    <3>3. i \in Range(s)
      BY <2>5, <2>7, <2>8, <2>9
    <3> QED
      BY <2>6, <2>7, <2>9, <3>2, <3>3
  <2>11. /\ e = [node |-> e.node, left |-> e.left] /\ e.node = calls[q].node /\ e.left = Tail(s)
    BY <2>2, <2>6, <2>7
  <2>12. IsSeq(t)
    BY <2>1, <2>2, <2>4, <2>5, Replaced
  <2>13. Len(t) = n
    BY <2>1, <2>2, <2>4, <2>5, Replaced
  <2>14. \A k \in 1 .. n : t[k] = IF k = q THEN e ELSE calls[k]
    BY <2>1, <2>2, <2>4, <2>5, Replaced
  <2>15. /\ IsSeq(next) /\ Len(next) = n + 1 /\ next[n + 1] = x
         /\ \A k \in 1 .. n : next[k] = t[k]
    BY <2>2, <2>12, <2>13, Appended
  <2>16. x = [node |-> x.node, left |-> x.left] /\ x.node = i /\ x.left = Entries(f, i)
         /\ IsSeq(x.left) /\ Range(x.left) \subseteq 1 .. Len(f.nodes)
    <3>1. IsSeq(Entries(f, i)) /\ Range(Entries(f, i)) \subseteq 1 .. Len(f.nodes)
      BY <2>10, EntriesAre
    <3> QED
      BY <2>2, <3>1
  <2>17. \A k \in 1 .. (n + 1) : k \in 1 .. n \/ k = n + 1
    BY <2>4
  <2>18. Calls(f, next)
    <3> SUFFICES ASSUME NEW k \in 1 .. (n + 1)
                 PROVE  /\ next[k] = [node |-> next[k].node, left |-> next[k].left]
                        /\ next[k].node \in 1 .. Len(f.nodes) /\ IsSeq(next[k].left)
                        /\ Range(next[k].left) \subseteq 1 .. Len(f.nodes)
      BY <2>15 DEF Calls
    <3>1. CASE k = n + 1
      BY <2>10, <2>15, <2>16, <3>1
    <3>2. CASE k = q
      BY <2>5, <2>6, <2>8, <2>10, <2>11, <2>14, <2>15, <3>2
    <3>3. CASE k \in 1 .. n /\ k # q
      <4>1. next[k] = calls[k]
        BY <2>14, <2>15, <3>3
      <4> QED
        BY <2>1, <3>3, <4>1 DEF Calls
    <3> QED
      BY <2>17, <3>1, <3>2, <3>3
  <2>19. Visited(f, calls, next, q)
    BY <2>1, <2>5, <2>7, <2>11, <2>14, <2>15, <2>16, <2>18 DEF Visited
  <2> QED
    BY <1>2, <2>1, <2>3, <2>19
<1> QED
  BY <1>1, <1>2

\* The first k calls are made in as many steps, and keep their nodes.
Grown(f, h, n) ==
  /\ Calls(f, h[n]) /\ Len(h[n]) >= 1 /\ h[n] = h[Len(h[n]) - 1]
  /\ Len(h[n]) = n + 1 \/ (Len(h[n]) <= n /\ Open(h[n]) = {})
  /\ \A k \in 1 .. Len(h[n]) :
       /\ Len(h[k - 1]) = k /\ Calls(f, h[k - 1])
       /\ k < Len(h[n]) => Open(h[k - 1]) # {}
       /\ \A j \in 1 .. k : h[k - 1][j].node = h[n][j].node

\* After n turns there are n + 1 calls, or none is open.
LEMMA SerializeGrows ==
  ASSUME NEW f, Arena(f), NEW h, SerializeWalk(f, h), NEW n \in 0 .. Len(f.nodes)
  PROVE  Grown(f, h, n)
<1>1. Len(f.nodes) \in Nat /\ Root \in 1 .. Len(f.nodes)
  BY ArenaNumbers
<1> DEFINE H == { m \in Nat : m <= Len(f.nodes) => Grown(f, h, m) }
<1>2. 0 \in H
  <2>1. PICK c : c = [node |-> Root, left |-> Entries(f, Root)]
    OBVIOUS
  <2>2. h[0] = <<c>>
    BY <2>1 DEF SerializeWalk
  <2>3. IsSeq(h[0]) /\ Len(h[0]) = 1 /\ h[0][1] = c
    BY <2>2 DEF IsSeq
  <2>4. Calls(f, h[0])
    BY <1>1, <2>1, <2>3, EntriesAre DEF Calls
  <2>5. \A k \in 1 .. 1 : k = 1 /\ k - 1 = 0
    OBVIOUS
  <2>6. /\ Len(h[0]) - 1 = 0 /\ Len(h[0]) = 0 + 1 /\ 1 .. Len(h[0]) = 1 .. 1
        /\ Len(h[0]) >= 1 /\ ~(1 < Len(h[0]))
    BY <2>3
  <2>7. ASSUME NEW k \in 1 .. 1
        PROVE  /\ Len(h[k - 1]) = k /\ Calls(f, h[k - 1])
               /\ k < Len(h[0]) => Open(h[k - 1]) # {}
               /\ \A j \in 1 .. k : h[k - 1][j].node = h[0][j].node
    <3>1. k = 1 /\ k - 1 = 0
      BY <2>5
    <3> QED
      BY <2>3, <2>4, <2>6, <3>1
  <2>8. h[0] = h[Len(h[0]) - 1]
    BY <2>6
  <2>9. \A k \in 1 .. Len(h[0]) : k \in 1 .. 1
    BY <2>6
  <2>10. \A k \in 1 .. Len(h[0]) :
           /\ Len(h[k - 1]) = k /\ Calls(f, h[k - 1])
           /\ k < Len(h[0]) => Open(h[k - 1]) # {}
           /\ \A j \in 1 .. k : h[k - 1][j].node = h[0][j].node
    BY <2>7, <2>9, Zenon
  <2>11. Len(h[0]) >= 1 /\ Len(h[0]) = 0 + 1
    BY <2>6
  <2>12. Grown(f, h, 0)
    BY <2>4, <2>8, <2>10, <2>11, Zenon DEF Grown
  <2> QED
    BY <2>12
<1>3. ASSUME NEW m \in H PROVE m + 1 \in H
  <2> SUFFICES ASSUME m + 1 <= Len(f.nodes) PROVE Grown(f, h, m + 1)
    BY <1>3
  <2>1. m \in Nat /\ m + 1 \in 1 .. Len(f.nodes) /\ (m + 1) - 1 = m /\ m <= Len(f.nodes)
    BY <1>1, <1>3
  <2>2. Grown(f, h, m)
    BY <1>3, <2>1
  <2>3. h[m + 1] = Visit(f, h[m])
    BY <2>1 DEF SerializeWalk
  <2>4. PICK l : l = Len(h[m])
    OBVIOUS
  <2>5. l \in Nat /\ l >= 1 /\ Calls(f, h[m])
    BY <2>2, <2>4 DEF Grown, Calls, IsSeq
  <2>6. CASE Open(h[m]) = {}
    <3>1. h[m + 1] = h[m]
      BY <2>3, <2>5, <2>6, VisitIs
    <3>2. l <= m + 1
      BY <2>1, <2>2, <2>4, <2>5 DEF Grown
    <3> QED
      BY <2>2, <2>4, <2>5, <2>6, <3>1, <3>2 DEF Grown
  <2>7. CASE Open(h[m]) # {}
    <3>1. PICK next : next = h[m + 1]
      OBVIOUS
    <3>2. Visited(f, h[m], next, Max(Open(h[m])))
      BY <2>3, <2>5, <2>7, <3>1, VisitIs
    <3>3. l = m + 1 /\ Len(next) = m + 2 /\ Calls(f, next)
          /\ \A j \in 1 .. (m + 1) : next[j].node = h[m][j].node
      BY <2>1, <2>2, <2>4, <2>5, <2>7, <3>2 DEF Grown, Visited
    <3>4. ASSUME NEW k \in 1 .. (m + 2)
          PROVE  /\ Len(h[k - 1]) = k /\ Calls(f, h[k - 1])
                 /\ k < m + 2 => Open(h[k - 1]) # {}
                 /\ \A j \in 1 .. k : h[k - 1][j].node = next[j].node
      <4>1. CASE k = m + 2
        <5>1. k - 1 = m + 1
          BY <2>1, <4>1
        <5> QED
          BY <3>1, <3>3, <4>1, <5>1
      <4>2. CASE k = m + 1
        <5>1. k - 1 = m
          BY <2>1, <4>2
        <5> QED
          BY <2>4, <2>5, <2>7, <3>3, <4>2, <5>1
      <4>3. CASE k # m + 2 /\ k # m + 1
        <5>1. k \in 1 .. l /\ k < l /\ \A j \in 1 .. k : j \in 1 .. (m + 1)
          BY <2>1, <3>3, <4>3
        <5> QED
          BY <2>2, <2>4, <3>3, <5>1 DEF Grown
      <4> QED
        BY <4>1, <4>2, <4>3
    <3>5. Len(next) - 1 = m + 1 /\ m + 2 = (m + 1) + 1 /\ m + 2 >= 1
      BY <2>1, <3>3
    <3> QED
      BY <3>1, <3>3, <3>4, <3>5 DEF Grown
  <2> QED
    BY <2>6, <2>7
<1> HIDE DEF H
<1>4. n \in H
  BY <1>1, <1>2, <1>3, NatInduct
<1> QED
  BY <1>1, <1>4 DEF H

-----------------------------------------------------------------------------
(* deserialize in step with serialize *)

\* The calls of ser_node so far and the nodes that de_node has pushed: node j
\* is that of call j, and has the entries that the call has gone through.
CopyOf(f, calls, nodes, j) ==
  LET i == calls[j].node
      all == Entries(f, i)
      done == nodes[j].children
      left == calls[j].left
  IN  /\ nodes[j].name = f.nodes[i].name /\ nodes[j].is_dir = f.nodes[i].is_dir
      /\ nodes[j].data = f.nodes[i].data
      /\ calls[nodes[j].parent].node = f.nodes[i].parent
      /\ Len(all) = Len(done) + Len(left)
      /\ \A m \in 1 .. Len(done) : calls[done[m]].node = all[m]
      /\ \A m \in 1 .. Len(left) : left[m] = all[Len(done) + m]
Copied(f, calls, nodes) ==
  /\ Calls(f, calls) /\ Len(calls) >= 1 /\ Len(nodes) = Len(calls) /\ Sound(nodes)
  /\ calls[Root].node = Root
  /\ \A j \in 1 .. Len(nodes) : CopyOf(f, calls, nodes, j)
  /\ \A j \in 1 .. Len(nodes) : j # Root => j \in Range(nodes[nodes[j].parent].children)

\* What de_node makes of an entry.
LEMMA NodeOfIs ==
  ASSUME NEW e, e.is_dir \in BOOLEAN, NEW p \in Nat
  PROVE  LET n == NodeOf(e, p)
         IN  /\ IsNode(n) /\ n.name = e.name /\ n.is_dir = e.is_dir /\ n.parent = p
             /\ n.children = << >> /\ n.data = e.data
<1>1. PICK x : x = NewNode(e.name, e.is_dir, p)
  OBVIOUS
<1>2. /\ IsNode(x) /\ x.name = e.name /\ x.is_dir = e.is_dir /\ x.parent = p
      /\ x.children = << >>
  BY <1>1, NewNodeIs
<1>3. PICK y : y = [x EXCEPT !.data = e.data]
  OBVIOUS
<1>4. NodeOf(e, p) = y
  BY <1>1, <1>3 DEF NodeOf
<1>5. /\ IsNode(y) /\ y.name = x.name /\ y.is_dir = x.is_dir /\ y.parent = x.parent
      /\ y.children = x.children /\ y.data = e.data
  BY <1>2, <1>3, NewData
<1> QED
  BY <1>2, <1>4, <1>5

\* One entry more: writer and reader stay in step.
LEMMA CopyOn ==
  ASSUME NEW f, Arena(f), NEW calls, NEW nodes, Copied(f, calls, nodes), Open(calls) # {},
         NEW image, \A j \in 1 .. Len(nodes) : image[j].count = Len(Entries(f, calls[j].node)),
         image[Len(nodes) + 1] = EntryOf(f, Visit(f, calls)[Len(nodes) + 1].node)
  PROVE  Copied(f, Visit(f, calls), Placed(nodes, image))
<1>1. PICK n, q, next : n = Len(nodes) /\ q = Max(Open(calls)) /\ next = Visit(f, calls)
  OBVIOUS
<1>2. PICK p, i, done, left, all :
        /\ p = calls[q].node /\ i = calls[q].left[1] /\ done = nodes[q].children
        /\ left = calls[q].left /\ all = Entries(f, p)
  OBVIOUS
<1>3. /\ Calls(f, calls) /\ n >= 1 /\ Len(calls) = n /\ Sound(nodes) /\ calls[Root].node = Root
      /\ \A j \in 1 .. n : CopyOf(f, calls, nodes, j)
      /\ \A j \in 1 .. n : j # Root => j \in Range(nodes[nodes[j].parent].children)
  BY <1>1 DEF Copied
<1>4. IsSeq(nodes) /\ n \in Nat /\ DOMAIN nodes = 1 .. n /\ Shape(nodes) /\ DOMAIN calls = 1 .. n
  BY <1>1, <1>3, RangeIs DEF Sound, Shape, IsSeq, Calls
<1>5. Visited(f, calls, next, q)
  BY <1>1, <1>3, VisitIs
<1>6. q \in 1 .. n /\ left # << >> /\ Len(left) >= 1
  BY <1>1, <1>2, <1>3, OpenIs
<1>7. \A j \in 1 .. n :
        /\ IsNode(nodes[j]) /\ IsSeq(nodes[j].children) /\ Len(nodes[j].children) \in Nat
        /\ IsSeq(calls[j].left) /\ Len(calls[j].left) \in Nat
        /\ calls[j].node \in 1 .. Len(f.nodes)
  BY <1>1, <1>3, <1>4 DEF Shape, IsNode, Calls, IsSeq
<1>8. /\ nodes[q].name = f.nodes[p].name /\ nodes[q].is_dir = f.nodes[p].is_dir
      /\ nodes[q].data = f.nodes[p].data
      /\ calls[nodes[q].parent].node = f.nodes[p].parent
      /\ Len(all) = Len(done) + Len(left)
      /\ \A m \in 1 .. Len(done) : calls[done[m]].node = all[m]
      /\ \A m \in 1 .. Len(left) : left[m] = all[Len(done) + m]
  <2>1. CopyOf(f, calls, nodes, q)
    BY <1>3, <1>6
  <2> QED
    BY <1>2, <2>1 DEF CopyOf
<1>9. Len(done) \in Nat /\ Len(left) \in Nat /\ IsSeq(done) /\ IsSeq(left)
  BY <1>2, <1>6, <1>7
<1>10. p \in 1 .. Len(f.nodes)
  BY <1>2, <1>6, <1>7
<1>11. /\ IsSeq(all) /\ IsInjective(all) /\ DOMAIN all = 1 .. Len(all)
       /\ Range(all) = { all[m] : m \in 1 .. Len(all) }
       /\ \A c \in Range(all) :
            /\ c \in 1 .. Len(f.nodes) /\ f.nodes[c].parent = p /\ p < c
            /\ \A d \in Range(all) : f.nodes[c].name = f.nodes[d].name => c = d
  <2>1. IsSeq(all)
    BY <1>2, <1>10, EntriesAre
  <2>2. DOMAIN all = 1 .. Len(all) /\ Range(all) = { all[m] : m \in 1 .. Len(all) }
    BY <2>1, RangeIs
  <2> QED
    BY <1>2, <1>10, <2>1, <2>2, EntriesAre
<1>12. /\ i = all[Len(done) + 1] /\ Len(done) + 1 \in 1 .. Len(all) /\ i \in Range(all)
       /\ \A m \in 1 .. Len(done) : m \in 1 .. Len(all) /\ m # Len(done) + 1
  <2>1. 1 \in 1 .. Len(left) /\ Len(done) + 1 \in 1 .. Len(all)
    BY <1>6, <1>8, <1>9
  <2>2. i = all[Len(done) + 1]
    BY <1>2, <1>8, <2>1
  <2>3. \A m \in 1 .. Len(done) : m \in 1 .. Len(all) /\ m # Len(done) + 1
    BY <1>8, <1>9
  <2> QED
    BY <1>11, <2>1, <2>2, <2>3
<1>13. Waiting(nodes, image) = Open(calls)
  <2>1. ASSUME NEW k \in 1 .. n
        PROVE  Len(nodes[k].children) < image[k].count <=> calls[k].left # << >>
    <3>1. image[k].count = Len(nodes[k].children) + Len(calls[k].left)
      <4>1. CopyOf(f, calls, nodes, k) /\ image[k].count = Len(Entries(f, calls[k].node))
        BY <1>1, <1>3
      <4> QED
        BY <4>1 DEF CopyOf
    <3>2. Len(calls[k].left) = 0 <=> calls[k].left = << >>
      BY <1>7, NoneIsEmpty, EmptyIsSeq
    <3>3. PICK a, b, c : a = Len(nodes[k].children) /\ b = Len(calls[k].left) /\ c = image[k].count
      OBVIOUS
    <3>4. a \in Nat /\ b \in Nat /\ c = a + b
      BY <1>7, <3>1, <3>3
    <3>5. a < c <=> b # 0
      BY <3>4
    <3> QED
      BY <3>2, <3>3, <3>5
  <2> QED
    BY <1>4, <2>1 DEF Open, Waiting
<1>14. PICK x : x = NodeOf(image[n + 1], q)
  OBVIOUS
<1>15. Placed(nodes, image) = Attach(nodes, q, x)
  <2>1. nodes # << >> /\ Waiting(nodes, image) # {}
    BY <1>1, <1>3, <1>13, EmptyIsSeq
  <2>2. Placed(nodes, image)
          = Attach(nodes, Max(Waiting(nodes, image)),
                   NodeOf(image[Len(nodes) + 1], Max(Waiting(nodes, image))))
    BY <2>1 DEF Placed
  <2> QED
    BY <1>1, <1>13, <1>14, <2>2
<1>16. next[n + 1].node = i /\ next[n + 1].left = Entries(f, i)
  BY <1>2, <1>3, <1>5 DEF Visited
<1>17. /\ image[n + 1].name = f.nodes[i].name /\ image[n + 1].is_dir = f.nodes[i].is_dir
       /\ image[n + 1].data = f.nodes[i].data
  BY <1>1, <1>16 DEF EntryOf
<1>18. /\ i \in 1 .. Len(f.nodes) /\ f.nodes[i].parent = p /\ f.nodes[i].is_dir \in BOOLEAN
       /\ PlaceOk(f.nodes, i)
  BY <1>11, <1>12 DEF Arena, Sound, Shape, IsNode, Places
<1>19. /\ IsNode(x) /\ x.name = f.nodes[i].name /\ x.is_dir = f.nodes[i].is_dir
       /\ x.data = f.nodes[i].data /\ x.parent = q /\ x.children = << >>
  <2>1. q \in Nat /\ image[n + 1].is_dir \in BOOLEAN
    BY <1>4, <1>6, <1>17, <1>18
  <2> QED
    BY <1>14, <1>17, <2>1, NodeOfIs
<1>20. /\ Range(done) = { done[m] : m \in 1 .. Len(done) }
       /\ \A c \in Range(done) : c \in 1 .. n
  <2>1. Range(done) = { done[m] : m \in 1 .. Len(done) }
    BY <1>9, RangeIs
  <2> QED
    BY <1>1, <1>2, <1>3, <1>6, <2>1 DEF Sound, Kin
<1>21. ASSUME NEW c \in Range(done) PROVE nodes[c].name # x.name
  <2>1. PICK m \in 1 .. Len(done) : c = done[m]
    BY <1>20
  <2>2. calls[c].node = all[m] /\ c \in 1 .. n
    BY <1>8, <1>20, <2>1
  <2>3. nodes[c].name = f.nodes[all[m]].name
    BY <1>3, <2>2 DEF CopyOf
  <2>4. all[m] # i /\ all[m] \in Range(all)
    BY <1>11, <1>12 DEF IsInjective
  <2> QED
    BY <1>11, <1>12, <1>19, <2>3, <2>4
<1>22. x.is_dir \/ (nodes[q].parent = Root => nodes[q].name = "etc")
  BY <1>3, <1>8, <1>18, <1>19 DEF PlaceOk
<1>23. PICK m : m = Attach(nodes, q, x)
  OBVIOUS
<1>24. Sound(m)
  BY <1>1, <1>2, <1>3, <1>6, <1>19, <1>21, <1>22, <1>23, GrownSound
<1>25. /\ Len(m) = n + 1 /\ m[n + 1] = x
       /\ \A j \in 1 .. n :
            /\ m[j].name = nodes[j].name /\ m[j].is_dir = nodes[j].is_dir
            /\ m[j].data = nodes[j].data /\ m[j].parent = nodes[j].parent
            /\ m[j].children = IF j = q THEN Append(nodes[j].children, n + 1)
                               ELSE nodes[j].children
  BY <1>1, <1>4, <1>6, <1>19, <1>23, GrownFields
<1>26. /\ Calls(f, next) /\ Len(next) = n + 1 /\ next[q].left = Tail(left)
       /\ \A j \in 1 .. n : next[j].node = calls[j].node
       /\ \A j \in 1 .. n : j # q => next[j].left = calls[j].left
  BY <1>2, <1>3, <1>5 DEF Visited
<1>27. (\A j \in 1 .. (n + 1) : j \in 1 .. n \/ j = n + 1) /\ n + 1 \notin 1 .. n
       /\ Root \in 1 .. n /\ n + 1 # Root
  BY <1>3, <1>4 DEF Root
<1>28. \A j \in 1 .. n : nodes[j].parent \in 1 .. n
  BY <1>1, <1>3, <1>4, <1>27 DEF Sound, Rooted
<1>29. \A j \in 1 .. n : \A c \in Range(nodes[j].children) : c \in 1 .. n
  BY <1>1, <1>3 DEF Sound, Kin
<1>30. /\ IsSeq(m[q].children) /\ Len(m[q].children) = Len(done) + 1
       /\ \A k \in 1 .. Len(done) : m[q].children[k] = done[k]
       /\ m[q].children[Len(done) + 1] = n + 1
       /\ Range(m[q].children) = Range(done) \cup {n + 1}
  <2>1. m[q].children = Append(done, n + 1)
    BY <1>2, <1>6, <1>25
  <2> QED
    BY <1>9, <2>1, Appended
<1>31. ASSUME NEW j \in 1 .. n, j # q PROVE CopyOf(f, next, m, j)
  <2>1. PICK kids, rest, s : /\ kids = nodes[j].children /\ rest = calls[j].left
                             /\ s = calls[j].node
    OBVIOUS
  <2>0. CopyOf(f, calls, nodes, j)
    BY <1>3, <1>31
  <2>2. /\ m[j].children = kids /\ next[j].left = rest
        /\ next[j].node = s /\ m[j].parent = nodes[j].parent
        /\ m[j].name = nodes[j].name /\ m[j].is_dir = nodes[j].is_dir
        /\ m[j].data = nodes[j].data
    BY <1>25, <1>26, <1>31, <2>1
  <2>3. next[nodes[j].parent].node = calls[nodes[j].parent].node
    BY <1>26, <1>28
  <2>4. ASSUME NEW k \in 1 .. Len(kids)
        PROVE  next[kids[k]].node = calls[kids[k]].node
    <3>1. kids[k] \in Range(kids)
      BY <1>7, <2>1, RangeIs
    <3> QED
      BY <1>26, <1>29, <2>1, <3>1
  <2>5. /\ nodes[j].name = f.nodes[s].name /\ nodes[j].is_dir = f.nodes[s].is_dir
        /\ nodes[j].data = f.nodes[s].data /\ calls[nodes[j].parent].node = f.nodes[s].parent
        /\ Len(Entries(f, s)) = Len(kids) + Len(rest)
    BY <2>0, <2>1 DEF CopyOf
  <2>6. /\ \A k \in 1 .. Len(kids) : calls[kids[k]].node = Entries(f, s)[k]
        /\ \A k \in 1 .. Len(rest) : rest[k] = Entries(f, s)[Len(kids) + k]
    BY <2>0, <2>1 DEF CopyOf
  <2>7. \A k \in 1 .. Len(kids) : next[kids[k]].node = Entries(f, s)[k]
    BY <2>4, <2>6
  <2> QED
    BY <2>2, <2>3, <2>5, <2>6, <2>7 DEF CopyOf
<1>32. CopyOf(f, next, m, q)
  <2>1. /\ IsSeq(Tail(left)) /\ Len(Tail(left)) = Len(left) - 1
        /\ \A k \in 1 .. Len(left) - 1 : Tail(left)[k] = left[k + 1]
    BY <1>6, <1>9, Tailed
  <2>2. /\ next[q].left = Tail(left) /\ next[q].node = p /\ m[q].parent = nodes[q].parent
        /\ m[q].name = nodes[q].name /\ m[q].is_dir = nodes[q].is_dir
        /\ m[q].data = nodes[q].data
    BY <1>2, <1>6, <1>25, <1>26
  <2>3. next[m[q].parent].node = f.nodes[p].parent
    BY <1>6, <1>8, <1>26, <1>28, <2>2
  <2>4. Len(all) = Len(m[q].children) + Len(next[q].left)
    <3>1. Len(next[q].left) = Len(left) - 1
      BY <2>1, <2>2
    <3>2. PICK a, b, c, d, e : /\ a = Len(done) /\ b = Len(left) /\ c = Len(all)
                               /\ d = Len(m[q].children) /\ e = Len(next[q].left)
      OBVIOUS
    <3>3. a \in Nat /\ b \in Nat /\ c = a + b /\ d = a + 1 /\ e = b - 1
      BY <1>8, <1>9, <1>30, <3>1, <3>2
    <3>4. c = d + e
      BY <3>3
    <3> QED
      BY <3>2, <3>4
  <2>5. ASSUME NEW k \in 1 .. Len(m[q].children)
        PROVE  next[m[q].children[k]].node = all[k]
    <3>1. CASE k = Len(done) + 1
      <4>1. m[q].children[k] = n + 1 /\ all[k] = i
        BY <1>12, <1>30, <3>1
      <4> QED
        BY <1>16, <4>1
    <3>2. CASE k # Len(done) + 1
      <4>1. k \in 1 .. Len(done)
        BY <1>9, <1>30, <3>2
      <4>2. m[q].children[k] = done[k] /\ done[k] \in 1 .. n
        BY <1>20, <1>30, <4>1
      <4> QED
        BY <1>8, <1>26, <4>1, <4>2
    <3> QED
      BY <3>1, <3>2
  <2>6. ASSUME NEW k \in 1 .. Len(next[q].left)
        PROVE  next[q].left[k] = all[Len(m[q].children) + k]
    <3>1. k \in 1 .. Len(left) - 1 /\ k + 1 \in 1 .. Len(left) /\ k \in Nat
      BY <1>9, <2>1, <2>2
    <3>2. next[q].left[k] = left[k + 1] /\ left[k + 1] = all[Len(done) + (k + 1)]
      BY <1>8, <2>1, <2>2, <3>1
    <3>3. Len(done) + (k + 1) = Len(m[q].children) + k
      BY <1>9, <1>30, <3>1
    <3> QED
      BY <3>2, <3>3
  <2> QED
    BY <1>2, <1>8, <2>2, <2>3, <2>4, <2>5, <2>6 DEF CopyOf
<1>33. CopyOf(f, next, m, n + 1)
  <2>1. m[n + 1].children = << >> /\ Len(m[n + 1].children) = 0
    BY <1>19, <1>25
  <2>2. next[m[n + 1].parent].node = p
    BY <1>2, <1>6, <1>19, <1>25, <1>26
  <2>3. \A k \in Nat : 0 + k = k
    OBVIOUS
  <2>4. Len(Entries(f, i)) \in Nat
    BY <1>18, EntriesAre DEF IsSeq
  <2>5. /\ next[n + 1].node = i /\ next[n + 1].left = Entries(f, i)
        /\ m[n + 1].name = f.nodes[i].name
        /\ m[n + 1].is_dir = f.nodes[i].is_dir /\ m[n + 1].data = f.nodes[i].data
    BY <1>16, <1>19, <1>25
  <2> QED
    BY <1>18, <2>1, <2>2, <2>3, <2>4, <2>5 DEF CopyOf
<1>34. ASSUME NEW j \in 1 .. (n + 1), j # Root PROVE j \in Range(m[m[j].parent].children)
  <2>1. CASE j = n + 1
    BY <1>19, <1>25, <1>30, <2>1
  <2>2. CASE j \in 1 .. n
    <3>1. m[j].parent = nodes[j].parent /\ nodes[j].parent \in 1 .. n
          /\ j \in Range(nodes[nodes[j].parent].children)
      BY <1>3, <1>25, <1>28, <1>34, <2>2
    <3>2. CASE nodes[j].parent = q
      BY <1>2, <1>30, <3>1, <3>2
    <3>3. CASE nodes[j].parent # q
      BY <1>25, <3>1, <3>3
    <3> QED
      BY <3>2, <3>3
  <2> QED
    BY <1>27, <2>1, <2>2
<1>35. next[Root].node = Root
  BY <1>3, <1>26, <1>27
<1>36. ASSUME NEW j \in 1 .. (n + 1) PROVE CopyOf(f, next, m, j)
  BY <1>27, <1>31, <1>32, <1>33
<1>37. Copied(f, next, m)
  BY <1>4, <1>24, <1>25, <1>26, <1>34, <1>35, <1>36 DEF Copied
<1> QED
  BY <1>1, <1>15, <1>23, <1>37

-----------------------------------------------------------------------------
(* The whole tree is written, and read back *)

\* The root goes first.
LEMMA CopyFirst ==
  ASSUME NEW f, Arena(f), NEW image, image[1] = EntryOf(f, Root)
  PROVE  Copied(f, <<[node |-> Root, left |-> Entries(f, Root)]>>, Placed(<< >>, image))
<1>1. PICK c, calls, x, m : /\ c = [node |-> Root, left |-> Entries(f, Root)] /\ calls = <<c>>
                            /\ x = NodeOf(image[1], Root) /\ m = Append(<< >>, x)
  OBVIOUS
<1>2. Root \in 1 .. Len(f.nodes) /\ Root \in Nat /\ Root = 1
  BY ArenaNumbers DEF Root
<1>3. /\ f.nodes[Root].is_dir \in BOOLEAN /\ f.nodes[Root].is_dir /\ f.nodes[Root].name = "/"
      /\ f.nodes[Root].parent = Root
  BY <1>2 DEF Arena, Sound, Shape, IsNode, Rooted
<1>4. /\ IsNode(x) /\ x.name = f.nodes[Root].name /\ x.is_dir = f.nodes[Root].is_dir
      /\ x.parent = Root /\ x.children = << >> /\ x.data = f.nodes[Root].data
  <2>1. image[1].name = f.nodes[Root].name /\ image[1].is_dir = f.nodes[Root].is_dir
        /\ image[1].data = f.nodes[Root].data
    BY DEF EntryOf
  <2>2. image[1].is_dir \in BOOLEAN
    BY <1>3, <2>1
  <2> QED
    BY <1>1, <1>2, <2>1, <2>2, NodeOfIs
<1>5. IsSeq(m) /\ Len(m) = 1 /\ m[1] = x
  <2>1. PICK s : s = << >>
    OBVIOUS
  <2>2. Len(s) = 0 /\ IsSeq(s)
    BY <2>1, EmptyIsSeq
  <2>3. /\ IsSeq(Append(s, x)) /\ Len(Append(s, x)) = Len(s) + 1
        /\ Append(s, x)[Len(s) + 1] = x
    BY <2>2, Appended
  <2>4. Len(s) + 1 = 1
    BY <2>2
  <2>5. m = Append(s, x)
    BY <1>1, <2>1
  <2> QED
    BY <2>3, <2>4, <2>5
<1>6. Placed(<< >>, image) = m
  <2>1. Placed(<< >>, image) = <<x>>
    BY <1>1 DEF Placed
  <2>2. Append(<< >>, x) = <<x>>
    OBVIOUS
  <2> QED
    BY <1>1, <2>1, <2>2
<1>7. IsSeq(calls) /\ Len(calls) = 1 /\ calls[1] = c
  BY <1>1 DEF IsSeq
<1>8. Calls(f, calls)
  BY <1>1, <1>2, <1>7, EntriesAre DEF Calls
<1>9. \A j \in 1 .. 1 : j = 1
  OBVIOUS
<1>10. Range(<< >>) = {} /\ IsInjective(<< >>) /\ Len(<< >>) = 0
  BY EmptyIsSeq, RangeIs DEF IsInjective
<1>11. Sound(m)
  <2>1. Shape(m)
    BY <1>4, <1>5, <1>9 DEF Shape
  <2>2. Kin(m)
    BY <1>4, <1>5, <1>9, <1>10 DEF Kin
  <2>3. Rooted(m)
    BY <1>2, <1>3, <1>4, <1>5, <1>9 DEF Rooted
  <2>4. Places(m)
    BY <1>3, <1>4, <1>5, <1>9 DEF Places, PlaceOk
  <2> QED
    BY <2>1, <2>2, <2>3, <2>4 DEF Sound
<1>12. CopyOf(f, calls, m, 1)
  <2>1. c.node = Root /\ c.left = Entries(f, Root)
    BY <1>1
  <2>2. Len(Entries(f, Root)) \in Nat
    BY <1>2, EntriesAre DEF IsSeq
  <2>3. \A k \in Nat : 0 + k = k
    OBVIOUS
  <2>4. Len(m[1].children) = 0 /\ m[1].parent = Root /\ calls[Root].node = Root
    BY <1>2, <1>4, <1>5, <1>7, <1>10, <2>1
  <2>5. /\ m[1].name = f.nodes[Root].name /\ m[1].is_dir = f.nodes[Root].is_dir
        /\ m[1].data = f.nodes[Root].data /\ m[1].parent = Root
    BY <1>4, <1>5
  <2>6. calls[1].node = Root /\ calls[1].left = Entries(f, Root)
    BY <1>7, <2>1
  <2>7. calls[m[1].parent].node = f.nodes[Root].parent
    BY <1>3, <2>4, <2>5
  <2>8. Len(Entries(f, Root)) = Len(m[1].children) + Len(calls[1].left)
    BY <2>2, <2>4, <2>6
  <2>9. \A k \in 1 .. Len(m[1].children) : FALSE
    BY <2>4
  <2>10. ASSUME NEW k \in 1 .. Len(calls[1].left)
         PROVE  calls[1].left[k] = Entries(f, Root)[Len(m[1].children) + k]
    <3>1. k \in Nat /\ Len(m[1].children) + k = k
      BY <2>2, <2>4, <2>6
    <3> QED
      BY <2>6, <3>1
  <2> QED
    BY <2>5, <2>6, <2>7, <2>8, <2>9, <2>10 DEF CopyOf
<1>13. Copied(f, calls, m)
  BY <1>1, <1>2, <1>5, <1>7, <1>8, <1>9, <1>11, <1>12 DEF Copied
<1> QED
  BY <1>1, <1>6, <1>13

\* What deserialize makes of the image of f.
Restored(f, calls, g) ==
  /\ Copied(f, calls, g.nodes) /\ g = [nodes |-> g.nodes, cwd |-> Root]
  /\ Len(Serialize(f)) = Len(calls)
  /\ \A j \in 1 .. Len(calls) : Serialize(f)[j].count = Len(Entries(f, calls[j].node))
  /\ Len(calls) <= Len(f.nodes) => Open(calls) = {}

\* The nodes read back are in step with the calls that wrote them.
LEMMA ImageIs ==
  ASSUME NEW f, Arena(f)
  PROVE  \E calls : Restored(f, calls, Deserialize(Serialize(f)))
<1>1. PICK N : N = Len(f.nodes)
  OBVIOUS
<1>2. N \in Nat /\ N \in 0 .. Len(f.nodes) /\ N >= 1
  BY <1>1, ArenaNumbers
<1>3. PICK h : SerializeWalk(f, h)
  BY <1>1, <1>2, SerializeSteps
<1>4. PICK all, L, image : all = h[N] /\ L = Len(h[N]) /\ image = Serialize(f)
  OBVIOUS
<1>5. Grown(f, h, N)
  BY <1>1, <1>2, <1>3, SerializeGrows
<1>6. /\ Calls(f, all) /\ L >= 1 /\ all = h[L - 1] /\ L \in Nat /\ L = Len(all)
      /\ L = N + 1 \/ (L <= N /\ Open(all) = {})
      /\ \A k \in 1 .. L :
           /\ Len(h[k - 1]) = k /\ Calls(f, h[k - 1])
           /\ k < L => Open(h[k - 1]) # {}
           /\ \A j \in 1 .. k : h[k - 1][j].node = all[j].node
  BY <1>4, <1>5 DEF Grown, Calls, IsSeq
<1>7. image = ImageOf(f, all)
  BY <1>1, <1>3, <1>4 DEF SerializeWalk
<1>8. DOMAIN all = 1 .. L
  BY <1>6, RangeIs DEF Calls
<1>9. image = [k \in 1 .. L |-> EntryOf(f, all[k].node)]
  BY <1>7, <1>8 DEF ImageOf
<1>10. Len(image) = L /\ \A k \in 1 .. L : image[k] = EntryOf(f, all[k].node)
  <2>1. \A k \in 1 .. L : image[k] = EntryOf(f, all[k].node)
    BY <1>9
  <2>2. DOMAIN image = 1 .. L /\ image = [k \in 1 .. L |-> image[k]]
    BY <1>9
  <2>3. Len(image) = L
    BY <1>6, <2>2
  <2> QED
    BY <2>1, <2>3
<1>11. PICK r : DeserializeWalk(image, r)
  BY <1>6, <1>10, DeserializeSteps
<1> DEFINE K == { n \in Nat : n + 1 <= L => Copied(f, h[n], r[n + 1]) }
<1>12. 0 \in K
  <2>1. r[1] = Placed(r[0], image) /\ r[0] = << >>
    BY <1>6, <1>10, <1>11 DEF DeserializeWalk
  <2>2. h[0] = <<[node |-> Root, left |-> Entries(f, Root)]>>
    BY <1>3 DEF SerializeWalk
  <2>3. image[1] = EntryOf(f, Root)
    <3>1. PICK c : c = [node |-> Root, left |-> Entries(f, Root)]
      OBVIOUS
    <3>2. h[0][1].node = Root
      BY <2>2, <3>1
    <3>3. 1 \in 1 .. L /\ 1 - 1 = 0
      BY <1>6
    <3>4. all[1].node = Root
      BY <1>6, <3>2, <3>3
    <3> QED
      BY <1>10, <3>3, <3>4
  <2>4. Copied(f, h[0], r[1])
    BY <2>1, <2>2, <2>3, CopyFirst
  <2> QED
    BY <2>4
<1>13. ASSUME NEW n \in K PROVE n + 1 \in K
  <2> SUFFICES ASSUME n + 2 <= L PROVE Copied(f, h[n + 1], r[n + 2])
    BY <1>13
  <2>1. /\ n \in Nat /\ n + 1 <= L /\ n + 1 \in 1 .. L /\ n + 2 \in 1 .. L
        /\ n + 1 \in 1 .. N /\ (n + 1) - 1 = n /\ (n + 2) - 1 = n + 1 /\ n + 1 < L
        /\ L \in Nat
    BY <1>2, <1>6, <1>13
  <2>2. PICK calls, nodes : calls = h[n] /\ nodes = r[n + 1]
    OBVIOUS
  <2>3. Copied(f, calls, nodes)
    BY <1>13, <2>1, <2>2
  <2>4. Open(calls) # {} /\ Len(calls) = n + 1 /\ Len(nodes) = n + 1
    BY <1>6, <2>1, <2>2, <2>3 DEF Copied
  <2>5. h[n + 1] = Visit(f, calls)
    BY <1>1, <1>3, <2>1, <2>2 DEF SerializeWalk
  <2>6. r[n + 2] = Placed(nodes, image)
    BY <1>10, <1>11, <2>1, <2>2 DEF DeserializeWalk
  <2>7. ASSUME NEW j \in 1 .. Len(nodes)
        PROVE  image[j].count = Len(Entries(f, calls[j].node))
    <3>1. j \in 1 .. (n + 1) /\ j \in 1 .. L
      BY <2>1, <2>4
    <3>2. \A i \in 1 .. (n + 1) : h[(n + 1) - 1][i].node = all[i].node
      BY <1>6, <2>1
    <3>3. calls[j].node = all[j].node
      BY <2>1, <2>2, <3>1, <3>2
    <3> QED
      BY <1>10, <3>1, <3>3 DEF EntryOf
  <2>8. image[Len(nodes) + 1] = EntryOf(f, Visit(f, calls)[Len(nodes) + 1].node)
    <3>1. Len(nodes) + 1 = n + 2 /\ n + 2 \in 1 .. (n + 2)
      BY <2>1, <2>4
    <3>2. h[n + 1][n + 2].node = all[n + 2].node
      <4>1. \A i \in 1 .. (n + 2) : h[(n + 2) - 1][i].node = all[i].node
        BY <1>6, <2>1
      <4> QED
        BY <2>1, <3>1, <4>1
    <3> QED
      BY <1>10, <2>1, <2>5, <3>1, <3>2
  <2>9. Copied(f, Visit(f, calls), Placed(nodes, image))
    BY <2>3, <2>4, <2>7, <2>8, CopyOn
  <2> QED
    BY <2>5, <2>6, <2>9
<1> HIDE DEF K
<1>14. L - 1 \in K
  BY <1>6, <1>12, <1>13, NatInduct
<1>15. Copied(f, all, r[L])
  BY <1>6, <1>14 DEF K
<1>16. PICK g : g = Deserialize(image)
  OBVIOUS
<1>17. g = [nodes |-> r[L], cwd |-> Root]
  BY <1>10, <1>11, <1>16 DEF DeserializeWalk
<1>18. g = [nodes |-> g.nodes, cwd |-> Root] /\ g.nodes = r[L]
  BY <1>17
<1>19. Len(all) <= Len(f.nodes) => Open(all) = {}
  BY <1>1, <1>2, <1>6
<1>20. \A j \in 1 .. L : image[j].count = Len(Entries(f, all[j].node))
  BY <1>10 DEF EntryOf
<1>21. Restored(f, all, g)
  BY <1>4, <1>6, <1>10, <1>15, <1>18, <1>19, <1>20 DEF Restored
<1> QED
  BY <1>4, <1>16, <1>21

\* A node other than the first lies where its source lies.
EntryNo(f, calls, nodes, j, m) ==
  LET p == nodes[j].parent
  IN  /\ m \in 1 .. Len(nodes[p].children) /\ m \in 1 .. Len(Entries(f, calls[p].node))
      /\ j = nodes[p].children[m] /\ calls[j].node = Entries(f, calls[p].node)[m]
Lies(f, calls, nodes, j) ==
  LET p == nodes[j].parent
  IN  /\ p \in 1 .. Len(nodes) /\ p < j /\ calls[p].node \in 1 .. Len(f.nodes)
      /\ calls[j].node # Root /\ f.nodes[calls[j].node].parent = calls[p].node
      /\ \E m : EntryNo(f, calls, nodes, j, m)

\* Every node read back but the root is an entry of a node before it.
LEMMA CopyPlace ==
  ASSUME NEW f, Arena(f), NEW calls, NEW nodes, Copied(f, calls, nodes),
         NEW j \in 1 .. Len(nodes), j # Root
  PROVE  Lies(f, calls, nodes, j)
<1>1. PICK n, p, s, q : /\ n = Len(nodes) /\ p = nodes[j].parent /\ s = calls[p].node
                        /\ q = calls[j].node
  OBVIOUS
<1>2. n \in Nat /\ Sound(nodes) /\ Len(calls) = n /\ Calls(f, calls)
  BY <1>1 DEF Copied, Sound, Shape, IsSeq
<1>3. p \in 1 .. n /\ p < j
  <2>1. p \in 1 .. j - 1
    BY <1>1, <1>2 DEF Sound, Rooted
  <2> QED
    BY <1>1, <1>2, <2>1
<1>4. s \in 1 .. Len(f.nodes) /\ q \in 1 .. Len(f.nodes)
  BY <1>1, <1>2, <1>3 DEF Calls
<1>5. CopyOf(f, calls, nodes, p) /\ CopyOf(f, calls, nodes, j) /\ j \in Range(nodes[p].children)
  BY <1>1, <1>3 DEF Copied
<1>6. IsSeq(nodes[p].children) /\ Len(nodes[p].children) \in Nat /\ Len(calls[p].left) \in Nat
  BY <1>1, <1>2, <1>3 DEF Sound, Shape, IsNode, IsSeq, Calls
<1>7. PICK m \in 1 .. Len(nodes[p].children) : j = nodes[p].children[m]
  BY <1>5, <1>6, RangeIs
<1>8. q = Entries(f, s)[m] /\ Len(Entries(f, s)) = Len(nodes[p].children) + Len(calls[p].left)
  <2>1. calls[nodes[p].children[m]].node = Entries(f, calls[p].node)[m]
    BY <1>5 DEF CopyOf
  <2>2. Len(Entries(f, calls[p].node)) = Len(nodes[p].children) + Len(calls[p].left)
    BY <1>5 DEF CopyOf
  <2> QED
    BY <1>1, <1>7, <2>1, <2>2
<1>9. m \in 1 .. Len(Entries(f, s))
  <2>1. PICK a, b, c : /\ a = Len(nodes[p].children) /\ b = Len(calls[p].left)
                       /\ c = Len(Entries(f, s))
    OBVIOUS
  <2>2. m \in 1 .. a /\ a \in Nat /\ b \in Nat /\ c = a + b
    BY <1>6, <1>7, <1>8, <2>1
  <2>3. m \in 1 .. c
    BY <2>2
  <2> QED
    BY <2>1, <2>3
<1>10. q \in Range(Entries(f, s))
  <2>1. IsSeq(Entries(f, s))
    BY <1>4, EntriesAre
  <2> QED
    BY <1>8, <1>9, <2>1, RangeIs
<1>11. f.nodes[q].parent = s /\ s < q
  BY <1>4, <1>10, EntriesAre
<1>12. q # Root
  BY <1>4, <1>11, ArenaNumbers DEF Root
<1>13. EntryNo(f, calls, nodes, j, m)
  BY <1>1, <1>7, <1>8, <1>9 DEF EntryNo
<1> QED
  BY <1>1, <1>3, <1>4, <1>11, <1>12, <1>13 DEF Lies

\* So no node is written twice, ...
LEMMA WrittenOnce ==
  ASSUME NEW f, Arena(f), NEW calls, NEW nodes, Copied(f, calls, nodes),
         NEW a \in 1 .. Len(nodes), NEW b \in 1 .. Len(nodes), calls[a].node = calls[b].node
  PROVE  a = b
<1>1. Len(nodes) \in Nat /\ calls[Root].node = Root
  BY DEF Copied, Sound, Shape, IsSeq
<1> DEFINE Only(x) == \A y \in 1 .. Len(nodes) : calls[x].node = calls[y].node => x = y
           H == { n \in Nat : \A x \in 1 .. Len(nodes) : x <= n => Only(x) }
<1>2. 0 \in H
  OBVIOUS
<1>3. ASSUME NEW n \in H PROVE n + 1 \in H
  <2> SUFFICES ASSUME NEW x \in 1 .. Len(nodes), x = n + 1,
                      NEW y \in 1 .. Len(nodes), calls[x].node = calls[y].node
               PROVE  x = y
    BY <1>1, <1>3
  <2>1. CASE x = Root
    BY <1>1, <2>1, CopyPlace DEF Lies
  <2>2. CASE x # Root
    <3>1. y # Root
      BY <1>1, <2>2, CopyPlace DEF Lies
    <3>2. PICK p, q, s : p = nodes[x].parent /\ q = nodes[y].parent /\ s = calls[p].node
      OBVIOUS
    <3>3. /\ p \in 1 .. Len(nodes) /\ p < x /\ f.nodes[calls[x].node].parent = s
          /\ s \in 1 .. Len(f.nodes)
      BY <2>2, <3>2, CopyPlace DEF Lies
    <3>4. q \in 1 .. Len(nodes) /\ f.nodes[calls[y].node].parent = calls[q].node
      BY <3>1, <3>2, CopyPlace DEF Lies
    <3>5. Only(p)
      BY <1>1, <1>3, <3>3
    <3>6. p = q
      BY <3>2, <3>3, <3>4, <3>5
    <3>7. PICK k : EntryNo(f, calls, nodes, x, k)
      BY <2>2, <3>2, CopyPlace DEF Lies
    <3>8. PICK l : EntryNo(f, calls, nodes, y, l)
      BY <3>1, <3>2, <3>6, CopyPlace DEF Lies
    <3>9. IsInjective(Entries(f, s)) /\ DOMAIN Entries(f, s) = 1 .. Len(Entries(f, s))
      <4>1. IsSeq(Entries(f, s)) /\ IsInjective(Entries(f, s))
        BY <3>3, EntriesAre
      <4> QED
        BY <4>1, RangeIs
    <3>10. /\ k \in 1 .. Len(Entries(f, s)) /\ x = nodes[p].children[k]
           /\ calls[x].node = Entries(f, s)[k]
      BY <3>2, <3>7 DEF EntryNo
    <3>11. /\ l \in 1 .. Len(Entries(f, s)) /\ y = nodes[p].children[l]
           /\ calls[y].node = Entries(f, s)[l]
      BY <3>2, <3>6, <3>8 DEF EntryNo
    <3>12. k = l
      BY <3>9, <3>10, <3>11 DEF IsInjective
    <3> QED
      BY <3>10, <3>11, <3>12
  <2> QED
    BY <2>1, <2>2
<1> HIDE DEF H
<1>4. a \in H
  BY <1>1, <1>2, <1>3, NatInduct
<1> QED
  BY <1>1, <1>4 DEF H

\* ... the steps that Serialize takes are enough, and every entry is written.
LEMMA AllWritten ==
  ASSUME NEW f, Arena(f), NEW calls, NEW g, Restored(f, calls, g)
  PROVE  Len(calls) <= Len(f.nodes) /\ Open(calls) = {}
<1>1. Copied(f, calls, g.nodes)
  BY DEF Restored
<1>2. PICK S, T, L, N : /\ S = 1 .. L /\ T = 1 .. N /\ L = Len(calls) /\ N = Len(f.nodes)
  OBVIOUS
<1>3. L \in Nat /\ N \in Nat /\ Len(g.nodes) = L /\ \A j \in S : calls[j].node \in T
  BY <1>1, <1>2, ArenaNumbers DEF Copied, Calls, IsSeq
<1>4. IsFiniteSet(S) /\ Cardinality(S) = L /\ IsFiniteSet(T) /\ Cardinality(T) = N
  <2>1. IsFiniteSet(1 .. L) /\ Cardinality(1 .. L) = IF 1 > L THEN 0 ELSE L - 1 + 1
    BY <1>3, FS_Interval
  <2>2. IsFiniteSet(1 .. N) /\ Cardinality(1 .. N) = IF 1 > N THEN 0 ELSE N - 1 + 1
    BY <1>3, FS_Interval
  <2> QED
    BY <1>2, <1>3, <2>1, <2>2
<1>5. ASSUME N < L PROVE FALSE
  <2>1. PICK F : F = [j \in S |-> calls[j].node]
    OBVIOUS
  <2>2. F \in [S -> T]
    BY <1>3, <2>1
  <2>3. \E x, y \in S : x # y /\ F[x] = F[y]
    BY <1>4, <1>5, <2>2, FS_PigeonHole
  <2>4. PICK x \in S, y \in S : x # y /\ F[x] = F[y]
    BY <2>3
  <2>5. calls[x].node = calls[y].node
    BY <2>1, <2>4
  <2> QED
    BY <1>1, <1>2, <1>3, <2>4, <2>5, WrittenOnce
<1>6. Len(calls) <= Len(f.nodes)
  BY <1>2, <1>3, <1>5
<1> QED
  BY <1>6 DEF Restored

-----------------------------------------------------------------------------
(* What is shown of the tree read back *)

\* What is shown of node i, if t is what is shown of its entries.
Shown(f, t, i) ==
  LET n == f.nodes[i]
  IN  [name |-> n.name, is_dir |-> n.is_dir, data |-> n.data,
       entries |-> IF n.is_dir THEN {t[c] : c \in Range(n.children)} ELSE {}]
Shows(f, t) == t = [i \in DOMAIN f.nodes |-> Shown(f, t, i)]

\* The entries come after their directory, so the tree is well defined.
LEMMA ShowsExists ==
  ASSUME NEW f, Arena(f)
  PROVE  \E t : Shows(f, t)
<1>1. PICK N : N = Len(f.nodes)
  OBVIOUS
<1>2. N \in Nat /\ DOMAIN f.nodes = 1 .. N
  BY <1>1, ArenaNumbers
<1>3. \A i \in 1 .. N : \A c \in Range(f.nodes[i].children) : c \in 1 .. N /\ i < c
  BY <1>1 DEF Arena, Sound, Kin
<1> DEFINE From(g, n) == \A i \in 1 .. N : i > N - n => g[i] = Shown(f, g, i)
           G == { n \in Nat : n <= N => \E g : From(g, n) }
<1>4. 0 \in G
  <2>1. \A i \in 1 .. N : ~(i > N - 0)
    BY <1>2
  <2>2. From(<< >>, 0)
    BY <2>1
  <2> QED
    BY <2>2
<1>5. ASSUME NEW n \in G PROVE n + 1 \in G
  <2> SUFFICES ASSUME n + 1 <= N PROVE \E g : From(g, n + 1)
    BY <1>5
  <2>1. n \in Nat /\ n <= N /\ N - n \in 1 .. N
    BY <1>2, <1>5
  <2>2. PICK g : From(g, n)
    BY <1>5, <2>1
  <2>3. PICK k, e, w : k = N - n /\ e = Shown(f, g, k)
                       /\ w = [i \in 1 .. N |-> IF i = k THEN e ELSE g[i]]
    OBVIOUS
  <2>4. ASSUME NEW i \in 1 .. N, i > N - (n + 1) PROVE w[i] = Shown(f, w, i)
    <3>1. i = k \/ (i > k /\ i > N - n)
      BY <1>2, <2>1, <2>3, <2>4
    <3>2. w[i] = Shown(f, g, i)
      BY <2>2, <2>3, <3>1
    <3>3. i >= k
      BY <1>2, <2>1, <2>3, <3>1
    <3>4. ASSUME NEW c \in Range(f.nodes[i].children) PROVE w[c] = g[c]
      <4>1. c \in 1 .. N /\ i < c
        BY <1>3
      <4>2. k \in 1 .. N
        BY <2>1, <2>3
      <4>3. c # k
        BY <1>2, <3>3, <4>1, <4>2
      <4> QED
        BY <2>3, <4>1, <4>3
    <3>5. {w[c] : c \in Range(f.nodes[i].children)} = {g[c] : c \in Range(f.nodes[i].children)}
      BY <3>4
    <3> QED
      BY <3>2, <3>5 DEF Shown
  <2>5. From(w, n + 1)
    BY <2>4
  <2> QED
    BY <2>5
<1>6. N \in G
  <2> HIDE DEF G
  <2> QED
    BY <1>2, <1>4, <1>5, NatInduct
<1>7. PICK g : From(g, N)
  BY <1>2, <1>6
<1>8. PICK t : t = [i \in 1 .. N |-> g[i]]
  OBVIOUS
<1>9. ASSUME NEW i \in 1 .. N PROVE t[i] = Shown(f, t, i)
  <2>1. i > N - N
    BY <1>2
  <2>2. g[i] = Shown(f, g, i) /\ t[i] = g[i]
    BY <1>7, <1>8, <2>1
  <2>3. \A c \in Range(f.nodes[i].children) : t[c] = g[c]
    BY <1>3, <1>8
  <2>4. {t[c] : c \in Range(f.nodes[i].children)} = {g[c] : c \in Range(f.nodes[i].children)}
    BY <2>3
  <2> QED
    BY <2>2, <2>4 DEF Shown
<1>10. t = [i \in 1 .. N |-> Shown(f, t, i)]
  BY <1>8, <1>9
<1> QED
  BY <1>2, <1>10 DEF Shows

\* Tree shows each node by what its entries show.
LEMMA TreeIs ==
  ASSUME NEW f, Arena(f)
  PROVE  \E t : Shows(f, t) /\ Tree(f) = t[Root]
<1> DEFINE t == CHOOSE t : Shows(f, t)
<1>1. Shows(f, t)
  BY ShowsExists
<1>2. Tree(f) = t[Root]
  BY DEF Tree, Shows, Shown
<1> HIDE DEF t
<1> QED
  BY <1>1, <1>2

\* Every entry of a source has been copied.
Whole(f, calls, g, j) ==
  LET s == calls[j].node
      kids == g.nodes[j].children
  IN  /\ s \in 1 .. Len(f.nodes) /\ g.nodes[j].name = f.nodes[s].name
      /\ g.nodes[j].is_dir = f.nodes[s].is_dir /\ g.nodes[j].data = f.nodes[s].data
      /\ IsSeq(kids) /\ Len(kids) = Len(Entries(f, s))
      /\ \A m \in 1 .. Len(kids) : calls[kids[m]].node = Entries(f, s)[m]

\* A node read back has all the entries of the one it is a copy of.
LEMMA CopyWhole ==
  ASSUME NEW f, Arena(f), NEW calls, NEW g, Restored(f, calls, g), NEW j \in 1 .. Len(g.nodes)
  PROVE  Whole(f, calls, g, j)
<1>1. Copied(f, calls, g.nodes) /\ Open(calls) = {}
  BY AllWritten DEF Restored
<1>2. CopyOf(f, calls, g.nodes, j) /\ Calls(f, calls) /\ Len(calls) = Len(g.nodes)
  BY <1>1 DEF Copied
<1>3. calls[j].node \in 1 .. Len(f.nodes) /\ DOMAIN calls = 1 .. Len(calls)
  BY <1>2, RangeIs DEF Calls
<1>4. calls[j].left = << >>
  BY <1>1, <1>2, <1>3 DEF Open
<1>5. IsSeq(g.nodes[j].children) /\ Len(g.nodes[j].children) \in Nat
  BY <1>1 DEF Copied, Sound, Shape, IsNode, IsSeq
<1>6. Len(Entries(f, calls[j].node)) = Len(g.nodes[j].children)
  <2>1. PICK a, b : a = Len(g.nodes[j].children) /\ b = Len(calls[j].left)
    OBVIOUS
  <2>2. b = 0 /\ a \in Nat
    BY <1>4, <1>5, <2>1
  <2>3. Len(Entries(f, calls[j].node)) = a + b
    BY <1>2, <2>1 DEF CopyOf
  <2> QED
    BY <2>1, <2>2, <2>3
<1>7. \A m \in 1 .. Len(g.nodes[j].children) :
         calls[g.nodes[j].children[m]].node = Entries(f, calls[j].node)[m]
  BY <1>2 DEF CopyOf
<1>8. /\ g.nodes[j].name = f.nodes[calls[j].node].name
      /\ g.nodes[j].is_dir = f.nodes[calls[j].node].is_dir
      /\ g.nodes[j].data = f.nodes[calls[j].node].data
  BY <1>2 DEF CopyOf
<1> QED
  BY <1>3, <1>5, <1>6, <1>7, <1>8 DEF Whole

\* The copy shows what the tree shows.
LEMMA TreeKept ==
  ASSUME NEW f, Arena(f), NEW calls, NEW g, Restored(f, calls, g), Arena(g)
  PROVE  Tree(g) = Tree(f)
<1>1. PICK t : Shows(f, t) /\ Tree(f) = t[Root]
  BY TreeIs
<1>2. PICK u : Shows(g, u) /\ Tree(g) = u[Root]
  BY TreeIs
<1>3. PICK L : L = Len(g.nodes)
  OBVIOUS
<1>4. L \in Nat /\ DOMAIN g.nodes = 1 .. L /\ Root \in 1 .. L
      /\ DOMAIN f.nodes = 1 .. Len(f.nodes)
  BY <1>3, ArenaNumbers
<1> DEFINE Same(j) == u[j] = t[calls[j].node]
           H == { n \in Nat : n <= L => \A j \in 1 .. L : j > L - n => Same(j) }
<1>5. 0 \in H
  <2>1. \A j \in 1 .. L : ~(j > L - 0)
    BY <1>4
  <2> QED
    BY <2>1
<1>6. ASSUME NEW n \in H PROVE n + 1 \in H
  <2> SUFFICES ASSUME n + 1 <= L, NEW j \in 1 .. L, j > L - (n + 1) PROVE Same(j)
    BY <1>6
  <2>1. n \in Nat /\ n <= L /\ \A c \in 1 .. L : c > j => c > L - n
    BY <1>4, <1>6
  <2>2. PICK s, kids, all : /\ s = calls[j].node /\ kids = g.nodes[j].children
                            /\ all = Entries(f, s)
    OBVIOUS
  <2>3. /\ s \in 1 .. Len(f.nodes) /\ g.nodes[j].name = f.nodes[s].name
        /\ g.nodes[j].is_dir = f.nodes[s].is_dir /\ g.nodes[j].data = f.nodes[s].data
        /\ IsSeq(kids) /\ Len(kids) = Len(all)
        /\ \A m \in 1 .. Len(kids) : calls[kids[m]].node = all[m]
    <3>1. Whole(f, calls, g, j)
      BY <1>3, CopyWhole
    <3> QED
      BY <2>2, <3>1 DEF Whole
  <2>4. u[j] = Shown(g, u, j)
    BY <1>2, <1>4 DEF Shows
  <2>5. t[s] = Shown(f, t, s)
    BY <1>1, <1>4, <2>3 DEF Shows
  <2>6. \A c \in Range(kids) : c \in 1 .. L /\ c > j
    BY <1>3, <2>2 DEF Arena, Sound, Kin
  <2>7. \A c \in Range(kids) : u[c] = t[calls[c].node]
    BY <1>6, <2>1, <2>6
  <2>8. IsSeq(all)
    BY <2>2, <2>3, EntriesAre
  <2>9. Range(kids) = { kids[m] : m \in 1 .. Len(kids) }
    BY <2>3, RangeIs
  <2>10. Range(all) = { all[m] : m \in 1 .. Len(all) }
    BY <2>8, RangeIs
  <2>11. { u[c] : c \in Range(kids) } = { t[c] : c \in Range(all) }
    <3>1. \A m \in 1 .. Len(kids) : kids[m] \in Range(kids) /\ u[kids[m]] = t[all[m]]
      BY <2>3, <2>7, <2>9
    <3>2. ASSUME NEW c \in Range(kids) PROVE \E d \in Range(all) : u[c] = t[d]
      BY <2>3, <2>9, <2>10, <3>1
    <3>3. ASSUME NEW d \in Range(all) PROVE \E c \in Range(kids) : u[c] = t[d]
      <4>1. PICK m \in 1 .. Len(all) : d = all[m]
        BY <2>10
      <4>2. m \in 1 .. Len(kids)
        BY <2>3
      <4> QED
        BY <3>1, <4>1, <4>2
    <3> QED
      BY <3>2, <3>3
  <2>12. f.nodes[s].is_dir => all = f.nodes[s].children
    BY <2>2 DEF Entries
  <2>13. u[j] = t[s]
    <3>1. CASE f.nodes[s].is_dir
      <4>1. PICK A : A = { u[c] : c \in Range(kids) }
        OBVIOUS
      <4>2. u[j] = [name |-> g.nodes[j].name, is_dir |-> g.nodes[j].is_dir,
                    data |-> g.nodes[j].data, entries |-> A]
        BY <2>2, <2>3, <2>4, <3>1, <4>1 DEF Shown
      <4>3. A = { t[c] : c \in Range(f.nodes[s].children) }
        BY <2>11, <2>12, <3>1, <4>1
      <4>4. t[s] = [name |-> f.nodes[s].name, is_dir |-> f.nodes[s].is_dir,
                    data |-> f.nodes[s].data, entries |-> A]
        BY <2>5, <3>1, <4>3 DEF Shown
      <4> QED
        BY <2>3, <4>2, <4>4
    <3>2. CASE ~f.nodes[s].is_dir
      BY <2>3, <2>4, <2>5, <3>2 DEF Shown
    <3> QED
      BY <3>1, <3>2
  <2> QED
    BY <2>2, <2>13
<1> HIDE DEF H
<1>7. L \in H
  BY <1>4, <1>5, <1>6, NatInduct
<1>8. Same(Root)
  <2>1. Root > L - L
    BY <1>4
  <2> QED
    BY <1>4, <1>7, <2>1 DEF H
<1>9. calls[Root].node = Root
  BY DEF Restored, Copied
<1> QED
  BY <1>1, <1>2, <1>8, <1>9

\* Storing a tree and loading it again.
LEMMA ImageSound ==
  ASSUME NEW f, Arena(f)
  PROVE  /\ Arena(Deserialize(Serialize(f))) /\ Deserialize(Serialize(f)).cwd = Root
         /\ Len(Deserialize(Serialize(f)).nodes) = Len(Serialize(f))
<1>1. PICK g, calls : g = Deserialize(Serialize(f)) /\ Restored(f, calls, g)
  BY ImageIs
<1>2. /\ Sound(g.nodes) /\ Len(g.nodes) = Len(calls) /\ Len(calls) >= 1
      /\ g = [nodes |-> g.nodes, cwd |-> Root] /\ Len(Serialize(f)) = Len(calls)
  BY <1>1 DEF Restored, Copied
<1>3. g = [nodes |-> g.nodes, cwd |-> g.cwd] /\ g.cwd = Root
  BY <1>2
<1>4. Arena(g)
  BY <1>2, <1>3 DEF Arena
<1> QED
  BY <1>1, <1>2, <1>3, <1>4

\* What serialize writes, deserialize reads back.
LEMMA ImageTree ==
  ASSUME NEW f, Arena(f)
  PROVE  Tree(Deserialize(Serialize(f))) = Tree(f)
<1>1. PICK g, calls : g = Deserialize(Serialize(f)) /\ Restored(f, calls, g)
  BY ImageIs
<1>2. Arena(g)
  BY <1>1, ImageSound
<1> QED
  BY <1>1, <1>2, TreeKept

\* load takes what serialize writes: no node waits for an entry.
LEMMA ImageParses ==
  ASSUME NEW f, Arena(f)
  PROVE  Parses(Serialize(f))
<1>1. PICK g, calls, image : /\ image = Serialize(f) /\ g = Deserialize(image)
                             /\ Restored(f, calls, g)
  BY ImageIs
<1>2. /\ Len(g.nodes) = Len(calls) /\ Len(calls) >= 1 /\ Len(image) = Len(calls)
      /\ \A j \in 1 .. Len(calls) : image[j].count = Len(Entries(f, calls[j].node))
  BY <1>1 DEF Restored, Copied
<1>3. image # << >>
  BY <1>2, EmptyIsSeq
<1>4. DOMAIN g.nodes = 1 .. Len(g.nodes)
  BY <1>1, RangeIs DEF Restored, Copied, Sound, Shape
<1>5. ASSUME NEW j \in 1 .. Len(g.nodes) PROVE ~(Len(g.nodes[j].children) < image[j].count)
  <2>1. Whole(f, calls, g, j)
    BY <1>1, CopyWhole
  <2>2. Len(g.nodes[j].children) = Len(Entries(f, calls[j].node)) /\ Len(g.nodes[j].children) \in Nat
    BY <2>1 DEF Whole, IsSeq
  <2>3. image[j].count = Len(g.nodes[j].children)
    BY <1>2, <2>2
  <2> QED
    BY <2>2, <2>3
<1>6. Waiting(g.nodes, image) = {}
  BY <1>4, <1>5 DEF Waiting
<1> QED
  BY <1>1, <1>3, <1>6 DEF Parses

-----------------------------------------------------------------------------
(* The files of /etc *)

\* A path of two names leads nowhere new.
LEMMA BackTwo ==
  ASSUME NEW f, NEW g, Arena(f), Arena(g), Extends(f, g), OnlyNew(f, g), NEW x, NEW y,
         NEW b, b = Resolve(g, Root, <<x, y>>), b \in 1 .. Len(f.nodes)
  PROVE  Resolve(f, Root, <<x, y>>) = b
<1>1. b # NoNode /\ Root \in 1 .. Len(f.nodes) /\ Len(f.nodes) \in Nat /\ Len(g.nodes) \in Nat
      /\ Root \in 1 .. Len(g.nodes) /\ Root # NoNode
  BY ArenaNumbers
<1>2. PICK e : e = Enter(g, Root, x)
  OBVIOUS
<1>3. b = Enter(g, e, y)
  BY <1>2, ResolveTwo
<1>4. e # NoNode
  BY <1>1, <1>3 DEF Enter
<1>5. e \in 1 .. Len(g.nodes) /\ e \in Range(g.nodes[Root].children) /\ g.nodes[e].name = x
  BY <1>1, <1>2, <1>4, EnterIs
<1>6. b \in Range(g.nodes[e].children) /\ g.nodes[b].name = y /\ e < b
  BY <1>1, <1>3, <1>5, EnterIs
<1>7. e \in 1 .. Len(f.nodes)
  BY <1>1, <1>5, <1>6
<1>8. e \in Range(f.nodes[Root].children) /\ b \in Range(f.nodes[e].children)
  BY <1>1, <1>5, <1>6, <1>7 DEF OnlyNew
<1>9. f.nodes[e].name = x /\ f.nodes[b].name = y
  BY <1>5, <1>6, <1>7 DEF Extends
<1>10. Child(f, Root, x) = e
  BY <1>1, <1>8, <1>9, ChildOf
<1>11. Child(f, e, y) = b
  BY <1>7, <1>8, <1>9, ChildOf
<1>12. Enter(f, Root, x) = e /\ Enter(f, e, y) = b
  BY <1>1, <1>4, <1>10, <1>11 DEF Enter
<1> QED
  BY <1>12, ResolveTwo

\* What lies in the root is a directory.
LEMMA TopIsDir ==
  ASSUME NEW f, Arena(f), NEW i \in 1 .. Len(f.nodes), f.nodes[i].parent = Root
  PROVE  f.nodes[i].is_dir
<1>1. /\ Root \in 1 .. Len(f.nodes) /\ Sound(f.nodes)
  BY ArenaNumbers DEF Arena
<1>2. f.nodes[Root].name = "/" /\ f.nodes[Root].parent = Root
  BY <1>1 DEF Sound, Rooted
<1>3. PlaceOk(f.nodes, i) /\ f.nodes[i].is_dir \in BOOLEAN
  BY <1>1 DEF Sound, Places, Shape, IsNode
<1> QED
  BY <1>2, <1>3 DEF PlaceOk

\* A call that leaves the files of /etc alone.
EtcFile(f, j) ==
  LET p == f.nodes[j].parent
  IN  ~f.nodes[j].is_dir /\ f.nodes[p].parent = Root /\ f.nodes[p].name = "etc"
EtcKept(f, g) ==
  /\ Extends(f, g) /\ OnlyNew(f, g)
  /\ \A j \in 1 .. Len(g.nodes) :
       EtcFile(g, j) => j \in 1 .. Len(f.nodes) /\ g.nodes[j].data = f.nodes[j].data

\* A parent is a node.
LEMMA ParentIs ==
  ASSUME NEW f, Arena(f), NEW i \in 1 .. Len(f.nodes)
  PROVE  f.nodes[i].parent \in 1 .. Len(f.nodes)
<1>1. Len(f.nodes) \in Nat /\ Root \in 1 .. Len(f.nodes)
  BY ArenaNumbers
<1>2. f.nodes[i].parent = Root \/ f.nodes[i].parent \in 1 .. i - 1
  BY DEF Arena, Sound, Rooted
<1> QED
  BY <1>1, <1>2

\* What is a file of /etc stays one.
LEMMA EtcFileKept ==
  ASSUME NEW f, NEW g, Arena(f), Extends(f, g), NEW j \in 1 .. Len(f.nodes)
  PROVE  EtcFile(g, j) <=> EtcFile(f, j)
BY ParentIs DEF Extends, EtcFile

\* EtcKept is reflexive.
LEMMA EtcKeptSelf == ASSUME NEW f, Arena(f) PROVE EtcKept(f, f)
BY ExtendsSelf DEF EtcKept, OnlyNew

\* It is transitive.
LEMMA EtcKeptOn ==
  ASSUME NEW f, NEW g, NEW k, Arena(f), Arena(g), Arena(k), EtcKept(f, g), EtcKept(g, k)
  PROVE  EtcKept(f, k)
<1>1. Extends(f, k) /\ OnlyNew(f, k)
  BY ExtendsOn, OnlyNewOn DEF EtcKept
<1>2. ASSUME NEW j \in 1 .. Len(k.nodes), EtcFile(k, j)
      PROVE  j \in 1 .. Len(f.nodes) /\ k.nodes[j].data = f.nodes[j].data
  <2>1. j \in 1 .. Len(g.nodes) /\ k.nodes[j].data = g.nodes[j].data
    BY <1>2 DEF EtcKept
  <2>2. EtcFile(g, j)
    BY <1>2, <2>1, EtcFileKept DEF EtcKept
  <2> QED
    BY <2>1, <2>2 DEF EtcKept
<1> QED
  BY <1>1, <1>2 DEF EtcKept

\* New directories leave the files of /etc alone.
LEMMA PavedKeeps ==
  ASSUME NEW f, NEW g, Paved(f, g)
  PROVE  EtcKept(f, g)
BY DEF Paved, EtcKept, EtcFile

\* So does a write below another directory.
LEMMA WrittenKeeps ==
  ASSUME NEW f, NEW g, Arena(f), NEW p \in 1 .. Len(f.nodes), NEW name, NEW data,
         Written(f, g, p, name, data), f.nodes[p].parent # Root
  PROVE  EtcKept(f, g)
<1>1. PICK c : c = Child(g, p, name)
  OBVIOUS
<1>2. /\ Arena(g) /\ Extends(f, g) /\ OnlyNew(f, g) /\ c \in Range(g.nodes[p].children)
      /\ \A j \in 1 .. Len(f.nodes) : j # c => g.nodes[j].data = f.nodes[j].data
      /\ 1 .. Len(g.nodes) \subseteq 1 .. Len(f.nodes) \cup {c}
  BY <1>1 DEF Written
<1>3. p \in 1 .. Len(g.nodes)
  <2>1. Len(f.nodes) \in Nat /\ Len(g.nodes) \in Nat
    BY <1>2, ArenaNumbers
  <2> QED
    BY <1>2, <2>1 DEF Extends
<1>4. g.nodes[c].parent = p
  BY <1>2, <1>3 DEF Arena, Sound, Kin
<1>5. g.nodes[p].parent # Root
  BY <1>2 DEF Extends
<1>6. ~EtcFile(g, c)
  BY <1>4, <1>5 DEF EtcFile
<1>7. \A j \in 1 .. Len(g.nodes) :
        EtcFile(g, j) => j \in 1 .. Len(f.nodes) /\ g.nodes[j].data = f.nodes[j].data
  BY <1>2, <1>6
<1> QED
  BY <1>2, <1>7 DEF EtcKept

\* The list of accounts is what the node of /etc/users holds.
RegNode(f) == Resolve(f, Root, REGISTRY)
\* The list, as it is read.
LEMMA ListIs ==
  ASSUME NEW f
  PROVE  List(f) = IF RegNode(f) # NoNode /\ ~f.nodes[RegNode(f)].is_dir
                   THEN f.nodes[RegNode(f)].data ELSE << >>
BY DEF List, IsFile, Read, RegNode

\* A call that leaves the files of /etc alone leaves the accounts.
LEMMA RegistryKept ==
  ASSUME NEW f, NEW g, Arena(f), Arena(g), EtcKept(f, g)
  PROVE  List(g) = List(f)
<1>1. PICK a, b : a = RegNode(f) /\ b = RegNode(g)
  OBVIOUS
<1>2. Len(REGISTRY) \in Nat /\ REGISTRY = <<"etc", "users">>
  BY DEF REGISTRY
<1>3. a \in 1 .. Len(f.nodes) \cup {NoNode}
  BY <1>1, <1>2, ArenaNumbers, ResolveType DEF RegNode
<1>4. CASE b # NoNode /\ ~g.nodes[b].is_dir
  <2>1. PICK x, y : x = "etc" /\ y = "users"
    OBVIOUS
  <2>2. b = Resolve(g, Root, <<x, y>>) /\ a = Resolve(f, Root, <<x, y>>)
    BY <1>1, <1>2, <2>1 DEF RegNode
  <2>3. /\ b \in 1 .. Len(g.nodes) /\ g.nodes[g.nodes[b].parent].parent = Root
        /\ g.nodes[g.nodes[b].parent].name = "etc"
    BY <1>4, <2>1, <2>2, DeepPlace
  <2>4. EtcFile(g, b)
    BY <1>4, <2>3 DEF EtcFile
  <2>5. b \in 1 .. Len(f.nodes) /\ g.nodes[b].data = f.nodes[b].data
    BY <2>3, <2>4 DEF EtcKept
  <2>6. a = b
    BY <2>2, <2>5, BackTwo DEF EtcKept
  <2>7. ~f.nodes[b].is_dir
    BY <1>4, <2>5 DEF EtcKept, Extends
  <2> QED
    BY <1>1, <1>4, <2>5, <2>6, <2>7, ListIs
<1>5. CASE ~(b # NoNode /\ ~g.nodes[b].is_dir)
  <2>1. ASSUME a # NoNode, ~f.nodes[a].is_dir PROVE FALSE
    <3>1. b = a
      BY <1>1, <1>2, <2>1, ExtendsResolve DEF RegNode, EtcKept
    <3>2. g.nodes[a].is_dir = f.nodes[a].is_dir
      BY <1>3, <2>1 DEF EtcKept, Extends
    <3> QED
      BY <1>5, <2>1, <3>1, <3>2
  <2> QED
    BY <1>1, <1>5, <2>1, ListIs
<1> QED
  BY <1>4, <1>5

\* A file in a directory of a directory of the root.
LEMMA DeepWrite ==
  ASSUME NEW f, Arena(f), NEW a, NEW b, NEW name, NEW data
  PROVE  LET g == Write(f, <<a, b>>, name, data) IN Arena(g) /\ EtcKept(f, g)
<1>1. PICK dir, p, g : /\ dir = <<a, b>> /\ p = Resolve(f, Root, dir)
                       /\ g = Write(f, dir, name, data)
  OBVIOUS
<1>2. Len(dir) \in Nat
  BY <1>1
<1>3. p # NoNode => /\ PlaceFor(f, p) /\ p \in 1 .. Len(f.nodes) /\ f.nodes[p].parent # Root
  BY <1>1, DeepPlace
<1>4. IF CanWrite(f, p, name) THEN Written(f, g, p, name, data) ELSE g = f
  BY <1>1, <1>2, <1>3, WriteIs
<1>5. CASE CanWrite(f, p, name)
  <2>1. p # NoNode
    BY <1>5 DEF CanWrite
  <2>2. EtcKept(f, g)
    BY <1>3, <1>4, <1>5, <2>1, WrittenKeeps
  <2> QED
    BY <1>1, <1>4, <1>5, <2>2 DEF Written
<1>6. CASE ~CanWrite(f, p, name)
  BY <1>1, <1>4, <1>6, EtcKeptSelf
<1> QED
  BY <1>5, <1>6

-----------------------------------------------------------------------------
(* Sessions: the invariant *)

\* The working directory is the root or a directory of /home.
AtHome(f, c) ==
  /\ c \in 1 .. Len(f.nodes)
  /\ c # Root =>
       LET h == f.nodes[c].parent
       IN  h \in 1 .. Len(f.nodes) /\ f.nodes[h].parent = Root /\ f.nodes[h].name = "home"
Session(f) == Arena(f) /\ AtHome(f, f.cwd)

\* An image that is whole, or none.
Intact(image) == image = << >> \/ (Parses(image) /\ Arena(Deserialize(image)))

\* The inductive invariant: the tree in memory and the one on the disk are arenas,
\* if they do not come from an image that was not written to its end.
Inv == /\ tree_ok => Session(fs)
       /\ disk_ok => Intact(disk)
       /\ current \in User /\ on \in BOOLEAN /\ disk_ok \in BOOLEAN /\ tree_ok \in BOOLEAN

\* A session goes on in a tree that has grown, or been pruned.
LEMMA SessionGrows ==
  ASSUME NEW f, Session(f), NEW g, Arena(g), Extends(f, g)
  PROVE  Session(g)
<1>1. Len(f.nodes) \in Nat /\ Len(g.nodes) \in Nat
  BY ArenaNumbers DEF Session
<1>2. 1 .. Len(f.nodes) \subseteq 1 .. Len(g.nodes)
  BY <1>1 DEF Extends
<1>3. g.cwd = f.cwd
  BY DEF Extends
<1> QED
  BY <1>2, <1>3 DEF Session, AtHome, Extends

\* Nor does pruning end a session.
LEMMA SessionPruned ==
  ASSUME NEW f, Session(f), NEW g, NEW path, Pruned(f, g, path)
  PROVE  Session(g)
<1>1. Arena(g) /\ Extends(g, f) /\ Len(g.nodes) = Len(f.nodes) /\ g.cwd = f.cwd
  BY DEF Pruned, Extends
<1> QED
  BY <1>1 DEF Session, AtHome, Extends

\* The working directory is a directory.
LEMMA CwdIsDir ==
  ASSUME NEW f, Session(f)
  PROVE  f.cwd \in 1 .. Len(f.nodes) /\ f.nodes[f.cwd].is_dir
<1>1. f.cwd \in 1 .. Len(f.nodes) /\ Sound(f.nodes)
  BY DEF Session, AtHome, Arena
<1>2. CASE f.cwd = Root
  BY <1>1, <1>2 DEF Sound, Rooted
<1>3. CASE f.cwd # Root
  <2>1. PlaceOk(f.nodes, f.cwd) /\ f.nodes[f.cwd].is_dir \in BOOLEAN
    BY <1>1 DEF Sound, Places, Shape, IsNode
  <2> QED
    BY <1>3, <2>1 DEF Session, AtHome, PlaceOk
<1> QED
  BY <1>1, <1>2, <1>3

\* cd to a home directory.
LEMMA GoHome ==
  ASSUME NEW f, Arena(f), NEW u, HasHome(f, u)
  PROVE  Session([f EXCEPT !.cwd = Resolve(f, Root, Home(u))])
<1>1. PICK c : c = Resolve(f, Root, <<"home", u>>)
  OBVIOUS
<1>2. c # NoNode /\ [f EXCEPT !.cwd = Resolve(f, Root, Home(u))] = [f EXCEPT !.cwd = c]
  BY <1>1 DEF HasHome, Home
<1>3. /\ c \in 1 .. Len(f.nodes) /\ f.nodes[f.nodes[c].parent].parent = Root
      /\ f.nodes[f.nodes[c].parent].name = "home" /\ f.nodes[c].parent \in 1 .. Len(f.nodes)
  BY <1>1, <1>2, DeepPlace
<1>4. PICK g : g = [f EXCEPT !.cwd = c]
  OBVIOUS
<1>5. g.nodes = f.nodes /\ g.cwd = c /\ g = [nodes |-> g.nodes, cwd |-> g.cwd]
  BY <1>4 DEF Arena
<1>6. Arena(g)
  BY <1>5 DEF Arena
<1> QED
  BY <1>2, <1>3, <1>4, <1>5, <1>6 DEF Session, AtHome

\* The empty tree, in which the machine starts.
LEMMA EmptySession == Session(Empty)
<1>1. PICK d \in BOOLEAN : d = TRUE
  OBVIOUS
<1>2. PICK x : x = NewNode("/", d, Root)
  OBVIOUS
<1>3. /\ IsNode(x) /\ x.name = "/" /\ x.is_dir /\ x.parent = Root /\ x.children = << >>
  <2>1. Root \in Nat
    BY DEF Root
  <2>2. PICK name : name = "/"
    OBVIOUS
  <2>3. x = NewNode(name, d, Root)
    BY <1>2, <2>2
  <2>4. /\ IsNode(x) /\ x.name = name /\ x.is_dir = d /\ x.parent = Root /\ x.children = << >>
    BY <2>1, <2>3, NewNodeIs
  <2> QED
    BY <1>1, <2>2, <2>4
<1>4. PICK nodes : nodes = <<x>>
  OBVIOUS
<1>5. Empty = [nodes |-> nodes, cwd |-> Root] /\ Empty.nodes = nodes /\ Empty.cwd = Root
  BY <1>1, <1>2, <1>4 DEF Empty
<1>6. IsSeq(nodes) /\ Len(nodes) = 1 /\ nodes[1] = x /\ \A i \in 1 .. 1 : i = 1
  BY <1>4 DEF IsSeq
<1>7. Range(<< >>) = {} /\ IsInjective(<< >>)
  BY EmptyIsSeq, RangeIs DEF IsInjective
<1>8. Shape(nodes)
  BY <1>3, <1>6 DEF Shape
<1>9. Kin(nodes)
  BY <1>3, <1>6, <1>7 DEF Kin
<1>10. Rooted(nodes) /\ Places(nodes)
  BY <1>3, <1>6 DEF Rooted, Places, PlaceOk, Root
<1>11. Arena(Empty)
  BY <1>5, <1>6, <1>8, <1>9, <1>10 DEF Arena, Sound
<1> QED
  BY <1>5, <1>6, <1>11 DEF Session, AtHome, Root

\* A file of the home directory.
SeededFile(g, u, name, data) ==
  IF IsFile(g, InHome(u, name)) THEN g ELSE Write(g, Home(u), name, data)

\* A write to a home directory.
LEMMA HomeWrite ==
  ASSUME NEW f, Arena(f), NEW u, NEW name, NEW data
  PROVE  LET g == Write(f, Home(u), name, data) IN Arena(g) /\ EtcKept(f, g)
BY DeepWrite DEF Home

\* mkdir_p leaves the files of /etc alone.
LEMMA MkdirKeeps ==
  ASSUME NEW f, Arena(f), NEW start \in 1 .. Len(f.nodes), NEW path, Len(path) \in Nat
  PROVE  LET g == MkdirP(f, start, path) IN Arena(g) /\ EtcKept(f, g)
BY MkdirPaves, PavedKeeps

\* A file of a new home.
LEMMA SeededSound ==
  ASSUME NEW f, Arena(f), NEW u, NEW name, NEW data
  PROVE  LET g == SeededFile(f, u, name, data) IN Arena(g) /\ EtcKept(f, g)
BY HomeWrite, EtcKeptSelf DEF SeededFile

\* A home stays where more comes.
LEMMA HomeKept ==
  ASSUME NEW f, NEW g, Arena(f), Arena(g), Extends(f, g), NEW u, HasHome(f, u)
  PROVE  HasHome(g, u)
<1>1. Len(Home(u)) \in Nat
  BY DEF Home
<1> QED
  BY <1>1, ExtendsResolve DEF HasHome

\* mkdir_p of a home makes it.
LEMMA HomeMade ==
  ASSUME NEW f, Arena(f), NEW u
  PROVE  LET g == MkdirP(f, Root, Home(u)) IN Arena(g) /\ EtcKept(f, g) /\ HasHome(g, u)
<1>1. Len(Home(u)) \in Nat /\ Root \in 1 .. Len(f.nodes)
  BY ArenaNumbers DEF Home
<1>2. Arena(MkdirP(f, Root, Home(u))) /\ EtcKept(f, MkdirP(f, Root, Home(u)))
  BY <1>1, MkdirKeeps
<1>3. Resolve(MkdirP(f, Root, <<"home", u>>), Root, <<"home", u>>) # NoNode
  BY MkdirTwo
<1>4. HasHome(MkdirP(f, Root, Home(u)), u)
  BY <1>3 DEF HasHome, Home
<1> QED
  BY <1>2, <1>4

\* seed_home makes a home and leaves the accounts.
LEMMA SeedIs ==
  ASSUME NEW f, Arena(f), NEW u
  PROVE  LET g == SeedHome(f, u) IN Arena(g) /\ EtcKept(f, g) /\ HasHome(g, u)
<1>1. PICK a : a = MkdirP(f, Root, Home(u))
  OBVIOUS
<1>2. PICK b : b = SeededFile(a, u, ".veilrc", <<"default">>)
  OBVIOUS
<1>3. PICK c : c = SeededFile(b, u, ".history", << >>)
  OBVIOUS
<1>4. SeedHome(f, u) = c
  BY <1>1, <1>2, <1>3 DEF SeedHome, SeededFile
<1>5. Arena(a) /\ EtcKept(f, a) /\ HasHome(a, u)
  BY <1>1, HomeMade
<1>6. Arena(b) /\ EtcKept(a, b)
  BY <1>2, <1>5, SeededSound
<1>7. Arena(c) /\ EtcKept(b, c)
  BY <1>3, <1>6, SeededSound
<1>8. EtcKept(f, b) /\ HasHome(b, u)
  BY <1>5, <1>6, EtcKeptOn, HomeKept DEF EtcKept
<1>9. EtcKept(f, c) /\ HasHome(c, u)
  BY <1>5, <1>6, <1>7, <1>8, EtcKeptOn, HomeKept DEF EtcKept
<1> QED
  BY <1>4, <1>7, <1>9

\* The directory /etc.
LEMMA EtcMade ==
  ASSUME NEW f, Arena(f)
  PROVE  LET g == MkdirP(f, Root, <<"etc">>) IN Arena(g) /\ EtcKept(f, g)
<1>1. Len(<<"etc">>) \in Nat /\ Root \in 1 .. Len(f.nodes)
  BY ArenaNumbers
<1> QED
  BY <1>1, MkdirKeeps

\* The fresh tree, with its user at home.
LEMMA FreshSession == Session(Fresh)
<1>1. PICK a, b : a = SeedHome(Empty, Default) /\ b = MkdirP(a, Root, <<"etc">>)
  OBVIOUS
<1>2. Arena(Empty)
  BY EmptySession DEF Session
<1>3. Arena(a) /\ HasHome(a, Default)
  BY <1>1, <1>2, SeedIs
<1>4. Arena(b) /\ EtcKept(a, b)
  BY <1>1, <1>3, EtcMade
<1>5. HasHome(b, Default)
  BY <1>3, <1>4, HomeKept DEF EtcKept
<1>6. Fresh = [b EXCEPT !.cwd = Resolve(b, Root, Home(Default))]
  BY <1>1 DEF Fresh
<1> QED
  BY <1>4, <1>5, <1>6, GoHome

\* save_list keeps the tree one and everything that was there.
LEMMA StoreListIs ==
  ASSUME NEW f, Arena(f), NEW list
  PROVE  LET g == StoreList(f, list) IN Arena(g) /\ Extends(f, g)
<1>1. PICK dir, p : dir = <<"etc">> /\ p = Resolve(f, Root, dir)
  OBVIOUS
<1>2. Len(dir) \in Nat
  BY <1>1
<1>3. p # NoNode => PlaceFor(f, p)
  BY <1>1, EtcPlace
<1> QED
  BY <1>1, <1>2, <1>3, WriteSound DEF StoreList

\* install leaves the accounts.
LEMMA InstalledIs ==
  ASSUME NEW f, Arena(f), NEW p
  PROVE  LET g == Write(MkdirP(MkdirP(f, Root, <<"apps">>), Root, App(p)),
                        App(p), "main.wasm", <<"code">>)
         IN  Arena(g) /\ EtcKept(f, g)
<1>1. PICK one, two : one = <<"apps">> /\ two = <<"apps", p>>
  OBVIOUS
<1>2. Len(one) \in Nat /\ Len(two) \in Nat /\ App(p) = two
  BY <1>1 DEF App
<1>3. PICK a, b : a = MkdirP(f, Root, one) /\ b = MkdirP(a, Root, two)
  OBVIOUS
<1>4. Arena(a) /\ EtcKept(f, a)
  BY <1>2, <1>3, ArenaNumbers, MkdirKeeps
<1>5. Arena(b) /\ EtcKept(a, b)
  BY <1>2, <1>3, <1>4, ArenaNumbers, MkdirKeeps
<1>8. PICK g : g = Write(b, two, "main.wasm", <<"code">>)
  OBVIOUS
<1>9. Arena(g) /\ EtcKept(b, g)
  BY <1>1, <1>5, <1>8, DeepWrite
<1>10. EtcKept(f, b)
  BY <1>4, <1>5, EtcKeptOn
<1>11. EtcKept(f, g)
  BY <1>5, <1>9, <1>10, EtcKeptOn
<1> QED
  BY <1>1, <1>2, <1>3, <1>8, <1>9, <1>11

-----------------------------------------------------------------------------
(* The steps *)

\* Inv holds at first.
LEMMA Initial == Init => Inv
<1>1. ASSUME Init PROVE Inv
  <2>1. /\ fs = Empty /\ current \in User /\ on \in BOOLEAN /\ disk = << >>
        /\ disk_ok \in BOOLEAN /\ tree_ok \in BOOLEAN
    BY <1>1, UsersAssumption DEF Init
  <2> QED
    BY <2>1, EmptySession DEF Inv, Intact
<1> QED
  BY <1>1

\* A call ends with f stored, kept in memory only, or on the way to the disk cut
\* off or refused; or with the power gone.
Saved(f, ok) ==
  /\ fs' = f /\ on' = TRUE /\ tree_ok' = ok /\ current' = current
  /\ \/ Len(Serialize(f)) <= REGION /\ disk' = Serialize(f) /\ disk_ok' = ok
     \/ ~(Len(Serialize(f)) <= REGION) /\ disk' = disk /\ disk_ok' = disk_ok
     \/ disk_ok' = FALSE
Cut == disk_ok' = FALSE /\ Off

\* persist ends in one of the two.
LEMMA PersistIs == ASSUME NEW f, NEW ok, Persist(f, ok) PROVE Saved(f, ok) \/ Cut
<1>1. PICK image : image = Serialize(f)
  OBVIOUS
<1>2. CASE /\ fs' = f /\ on' = TRUE /\ tree_ok' = ok /\ UNCHANGED current
           /\ IF Len(image) > REGION THEN UNCHANGED <<disk, disk_ok>>
              ELSE (disk' = image /\ disk_ok' = ok) \/ CutShort(image)
  <2>1. Len(image) > REGION <=> ~(Len(image) <= REGION)
    <3>1. PICK n : n = Len(image)
      OBVIOUS
    <3>2. n \in Int \/ n \notin Int
      OBVIOUS
    <3> QED
      BY <3>1, UsersAssumption
  <2> QED
    BY <1>1, <1>2, <2>1 DEF Saved, CutShort
<1>3. CASE Len(image) <= REGION /\ CutShort(image) /\ Off
  BY <1>3 DEF Cut, CutShort
<1> QED
  BY <1>1, <1>2, <1>3 DEF Persist

\* The machine is off: nothing is in memory.
LEMMA OffInv ==
  ASSUME Off, disk_ok' \in BOOLEAN, disk_ok' => Intact(disk')
  PROVE  Inv'
BY EmptySession, UsersAssumption DEF Inv, Off

\* The call ends with a sound tree if it makes one, whatever the power does.
LEMMA PersistInv ==
  ASSUME Inv, NEW f, NEW ok \in BOOLEAN, ok => Session(f), Persist(f, ok)
  PROVE  Inv'
<1>1. PICK image : image = Serialize(f)
  OBVIOUS
<1>2. ASSUME ok PROVE Intact(image)
  BY <1>1, <1>2, ImageSound, ImageParses DEF Session, Intact
<1>3. CASE Saved(f, ok)
  <2>1. tree_ok' = ok /\ fs' = f /\ on' = TRUE /\ current' = current
    BY <1>3 DEF Saved
  <2>2. disk_ok' \in BOOLEAN /\ (disk_ok' => Intact(disk'))
    <3>1. CASE disk' = image /\ disk_ok' = ok
      BY <1>2, <3>1
    <3>2. CASE disk' = disk /\ disk_ok' = disk_ok
      BY <3>2 DEF Inv
    <3>3. CASE disk_ok' = FALSE
      BY <3>3
    <3> QED
      BY <1>1, <1>3, <3>1, <3>2, <3>3 DEF Saved
  <2> QED
    BY <2>1, <2>2 DEF Inv
<1>4. CASE Cut
  BY <1>4, OffInv DEF Cut
<1> QED
  BY <1>3, <1>4, PersistIs

\* What init makes of the tree that it loads.
Start(d) == [d EXCEPT !.cwd = IF HasHome(d, Default)
                              THEN Resolve(d, Root, Home(Default)) ELSE Root]
\* If the image is whole it is a session.
LEMMA LoadedSession ==
  ASSUME NEW d, Arena(d)
  PROVE  Session(Start(d))
<1>1. CASE HasHome(d, Default)
  BY <1>1, GoHome DEF Start
<1>2. CASE ~HasHome(d, Default)
  <2>1. PICK g : g = [d EXCEPT !.cwd = Root]
    OBVIOUS
  <2>2. g.nodes = d.nodes /\ g.cwd = Root /\ g = [nodes |-> g.nodes, cwd |-> g.cwd]
    BY <2>1 DEF Arena
  <2>3. Arena(g) /\ Root \in 1 .. Len(g.nodes)
    BY <2>2, ArenaNumbers DEF Arena
  <2>4. Session(g)
    BY <2>2, <2>3 DEF Session, AtHome
  <2> QED
    BY <1>2, <2>1, <2>4 DEF Start
<1> QED
  BY <1>1, <1>2

\* Boot leaves a session, unless what it loads was not written to its end.
LEMMA BootInv == ASSUME Inv, Boot PROVE Inv'
<1>1. CASE ~Parses(disk)
  <2>1. Persist(Fresh, TRUE)
    BY <1>1 DEF Boot
  <2> QED
    BY <2>1, FreshSession, PersistInv
<1>2. CASE Parses(disk)
  <2>1. PICK d : d = Deserialize(disk)
    OBVIOUS
  <2>2. /\ fs' = Start(d) /\ on' = TRUE /\ tree_ok' = disk_ok
        /\ disk' = disk /\ disk_ok' = disk_ok /\ current' = current
    BY <1>2, <2>1 DEF Boot, Start
  <2>3. tree_ok' => Session(fs')
    <3>1. ASSUME disk_ok PROVE Arena(d)
      BY <1>2, <2>1, <3>1 DEF Inv, Intact, Parses
    <3> QED
      BY <2>2, <3>1, LoadedSession
  <2> QED
    BY <2>2, <2>3 DEF Inv
<1> QED
  BY <1>1, <1>2

\* What a call does to the disk and to what is known of it.
Working ==
  on /\ \/ /\ on' = on /\ disk' = disk /\ disk_ok' = disk_ok
           /\ tree_ok' = tree_ok /\ current' \in User
        \/ \E f : Persist(f, tree_ok)

\* Every step of a machine that is on is of that kind.
LEMMA WorkIs == ASSUME Inv, Next PROVE Boot \/ PowerOff \/ Working
<1>0. current \in User
  BY DEF Inv
<1>1. CASE PrefSet
  BY <1>1 DEF PrefSet, Fits, Working
<1>2. CASE HistoryAppend
  BY <1>0, <1>2 DEF HistoryAppend, Fits, Working
<1>3. ASSUME NEW u \in User, UserAdd(u) PROVE Working
  BY <1>3 DEF UserAdd, Fits, Working
<1>4. ASSUME NEW u \in User, Su(u) PROVE Working
  BY <1>4 DEF Su, Working
<1>5. ASSUME NEW u \in User, NEW purge \in BOOLEAN, UserDel(u, purge) PROVE Working
  BY <1>5 DEF UserDel, Working
<1>6. ASSUME NEW p \in Package, PkgInstall(p) PROVE Working
  BY <1>0, <1>6 DEF PkgInstall, Fits, Working
<1>7. ASSUME NEW p \in Package, PkgRemove(p) PROVE Working
  BY <1>0, <1>7 DEF PkgRemove, Working
<1>8. ASSUME NEW m \in MountPoint, Mount(m) PROVE Working
  BY <1>0, <1>8 DEF Mount, Fits, Working
<1> QED
  BY <1>1, <1>2, <1>3, <1>4, <1>5, <1>6, <1>7, <1>8 DEF Next

\* In a tree from an image that was not written to its end a call promises nothing,
\* and what it stores counts as no better.
LEMMA BlindInv == ASSUME Inv, ~tree_ok, Working PROVE Inv'
<1>1. tree_ok = FALSE
  BY DEF Inv
<1>2. CASE \E f : Persist(f, tree_ok)
  BY <1>1, <1>2, PersistInv
<1>3. CASE ~\E f : Persist(f, tree_ok)
  <2>1. on' = on /\ disk' = disk /\ disk_ok' = disk_ok /\ tree_ok' = FALSE /\ current' \in User
    BY <1>1, <1>3 DEF Working
  <2>2. disk_ok' => Intact(disk')
    BY <2>1 DEF Inv
  <2> QED
    BY <2>1, <2>2 DEF Inv
<1> QED
  BY <1>2, <1>3

\* A purge leaves a session.
LEMMA PurgePruned ==
  ASSUME NEW f, Arena(f), NEW u
  PROVE  Pruned(f, Purge(f, u), Home(u))
<1>1. IsSeq(Home(u)) /\ Len(Home(u)) \in Nat
  BY DEF Home, IsSeq
<1>2. PICK i, names : i = Resolve(f, Root, Home(u)) /\ names = Ls(f, i)
  OBVIOUS
<1>3. i \in 1 .. Len(f.nodes) \cup {NoNode}
  BY <1>1, <1>2, ArenaNumbers, ResolveType
<1>4. Len(names) \in Nat
  BY <1>2, <1>3, LsIs
<1>5. Purge(f, u) = RemoveAll(f, Home(u), names)
  BY <1>2 DEF Purge
<1> QED
  BY <1>1, <1>4, <1>5, RemoveAllPruned

\* And so do userdel and userdel -r.
LEMMA Deleted ==
  ASSUME NEW f, Session(f), NEW u, NEW purge
  PROVE  Session(IF purge THEN Purge(f, u) ELSE f)
<1>1. Pruned(f, Purge(f, u), Home(u))
  BY PurgePruned DEF Session
<1>2. Session(Purge(f, u))
  BY <1>1, SessionPruned
<1> QED
  BY <1>2

\* So does the removal of a package, whose directory is there.
LEMMA PkgPruned ==
  ASSUME NEW f, Arena(f), NEW p, Resolve(f, Root, App(p)) # NoNode
  PROVE  Pruned(f, RemoveAll(f, App(p), EntryNames(f, Resolve(f, Root, App(p)))), App(p))
<1>1. IsSeq(App(p)) /\ Len(App(p)) \in Nat
  BY DEF App, IsSeq
<1>2. PICK i, names : i = Resolve(f, Root, App(p)) /\ names = EntryNames(f, i)
  OBVIOUS
<1>3. i \in 1 .. Len(f.nodes)
  BY <1>1, <1>2, ArenaNumbers, ResolveType
<1>4. Len(names) \in Nat
  BY <1>2, <1>3, NamesIs DEF IsSeq
<1> QED
  BY <1>1, <1>2, <1>4, RemoveAllPruned

\* In a sound tree every step keeps Inv.
LEMMA SoundStable == ASSUME Inv, tree_ok, [Next]_vars PROVE Inv'
<1>0. Session(fs) /\ Arena(fs) /\ fs.cwd \in 1 .. Len(fs.nodes) /\ Root \in 1 .. Len(fs.nodes)
  BY ArenaNumbers DEF Inv, Session, AtHome
<1>1. CASE Boot
  BY <1>1, BootInv
<1>2. CASE PowerOff
  BY <1>2, OffInv DEF Inv, PowerOff
<1>3. CASE PrefSet
  <2>1. PICK f : f = Write(fs, Home(current), ".veilrc", <<"changed">>) /\ Persist(f, tree_ok)
    BY <1>3 DEF PrefSet
  <2>2. Session(f)
    BY <1>0, <2>1, HomeWrite, SessionGrows DEF EtcKept
  <2> QED
    BY <2>1, <2>2, PersistInv DEF Inv
<1>4. CASE HistoryAppend
  <2>1. PICK data : fs' = Write(fs, Home(current), ".history", data)
    BY <1>4 DEF HistoryAppend
  <2>2. Session(fs')
    BY <1>0, <2>1, HomeWrite, SessionGrows DEF EtcKept
  <2> QED
    BY <1>4, <2>2 DEF HistoryAppend, Inv
<1>5. ASSUME NEW u \in User, UserAdd(u) PROVE Inv'
  <2>1. PICK g : g = StoreList(fs, Append(List(fs), u))
    OBVIOUS
  <2>2. PICK f : f = SeedHome(g, u) /\ Persist(f, tree_ok)
    BY <1>5, <2>1 DEF UserAdd
  <2>3. Session(g) /\ Arena(g)
    BY <1>0, <2>1, StoreListIs, SessionGrows
  <2>4. Session(f)
    BY <2>2, <2>3, SeedIs, SessionGrows DEF EtcKept
  <2> QED
    BY <2>2, <2>4, PersistInv DEF Inv
<1>6. ASSUME NEW u \in User, Su(u) PROVE Inv'
  <2>1. Session(fs')
    <3>1. CASE HasHome(fs, u) /\ ~IsFile(fs, Home(u))
      BY <1>0, <1>6, <3>1, GoHome DEF Su
    <3>2. CASE ~(HasHome(fs, u) /\ ~IsFile(fs, Home(u)))
      BY <1>0, <1>6, <3>2 DEF Su
    <3> QED
      BY <3>1, <3>2
  <2> QED
    BY <1>6, <2>1 DEF Su, Inv
<1>7. ASSUME NEW u \in User, NEW purge \in BOOLEAN, UserDel(u, purge) PROVE Inv'
  <2>1. PICK g : g = StoreList(fs, Without(List(fs), u))
    OBVIOUS
  <2>2. PICK f : f = (IF purge THEN Purge(g, u) ELSE g) /\ Persist(f, tree_ok)
    BY <1>7, <2>1 DEF UserDel
  <2>3. Session(g)
    BY <1>0, <2>1, StoreListIs, SessionGrows
  <2>4. Session(f)
    BY <2>2, <2>3, Deleted
  <2> QED
    BY <2>2, <2>4, PersistInv DEF Inv
<1>8. ASSUME NEW p \in Package, PkgInstall(p) PROVE Inv'
  <2>1. Session(fs')
    BY <1>0, <1>8, InstalledIs, SessionGrows DEF PkgInstall, EtcKept
  <2> QED
    BY <1>8, <2>1 DEF PkgInstall, Inv
<1>9. ASSUME NEW p \in Package, PkgRemove(p) PROVE Inv'
  <2>1. PICK g : g = RemoveAll(fs, App(p), EntryNames(fs, Resolve(fs, Root, App(p))))
    OBVIOUS
  <2>2. Pruned(fs, g, App(p))
    BY <1>0, <1>9, <2>1, PkgPruned DEF PkgRemove
  <2>3. Session(g) /\ fs' = g
    BY <1>0, <1>9, <2>1, <2>2, SessionPruned DEF PkgRemove
  <2> QED
    BY <1>9, <2>3 DEF PkgRemove, Inv
<1>10. ASSUME NEW m \in MountPoint, Mount(m) PROVE Inv'
  <2>1. PICK start : start = IF m.start = "/" THEN Root ELSE fs.cwd
    OBVIOUS
  <2>2. start \in 1 .. Len(fs.nodes)
    BY <1>0, <2>1
  <2>3. Len(m.path) \in Nat
    <3>1. m.path \in Seq(STRING)
      BY UsersAssumption
    <3> QED
      BY <3>1
  <2>4. PICK g : g = MkdirP(fs, start, m.path)
    OBVIOUS
  <2>5. Arena(g) /\ Extends(fs, g)
    BY <1>0, <2>2, <2>3, <2>4, MkdirIs
  <2>6. Session(g) /\ fs' = g
    BY <1>0, <1>10, <2>1, <2>4, <2>5, SessionGrows DEF Mount
  <2> QED
    BY <1>10, <2>6 DEF Mount, Inv
<1>11. CASE UNCHANGED vars
  BY <1>11 DEF vars, Inv
<1> QED
  BY <1>1, <1>2, <1>3, <1>4, <1>5, <1>6, <1>7, <1>8, <1>9, <1>10, <1>11 DEF Next

\* Every step keeps Inv.
LEMMA Stable == ASSUME Inv, [Next]_vars PROVE Inv'
<1>1. CASE tree_ok
  BY <1>1, SoundStable
<1>2. CASE ~tree_ok /\ Next
  <2>1. CASE Boot
    BY <2>1, BootInv
  <2>2. CASE PowerOff
    BY <2>2, OffInv DEF Inv, PowerOff
  <2>3. CASE Working
    BY <1>2, <2>3, BlindInv
  <2> QED
    BY <1>2, <2>1, <2>2, <2>3, WorkIs
<1>3. CASE UNCHANGED vars
  BY <1>3 DEF vars, Inv
<1> QED
  BY <1>1, <1>2, <1>3

\* Inv is invariant.
LEMMA Invariant == Spec => []Inv
BY Initial, Stable, PTL DEF Spec

\* Inv is more than TreeSound.
LEMMA SoundTree == ASSUME Inv, tree_ok PROVE TreeSound
<1>1. Session(fs) /\ Arena(fs) /\ DOMAIN fs.nodes = 1 .. Len(fs.nodes)
  BY ArenaNumbers DEF Inv, Session
<1>2. ASSUME NEW i \in 1 .. Len(fs.nodes), NEW c \in Range(fs.nodes[i].children)
      PROVE  /\ c \in 1 .. Len(fs.nodes) /\ c # Root /\ fs.nodes[c].parent = i
             /\ \A d \in Range(fs.nodes[i].children) :
                  fs.nodes[c].name = fs.nodes[d].name => c = d
  BY <1>1 DEF Arena, Sound, Kin, Root
<1>3. \A i \in 1 .. Len(fs.nodes) : IsInjective(fs.nodes[i].children)
  BY <1>1 DEF Arena, Sound, Kin
<1>4. fs.cwd \in 1 .. Len(fs.nodes) /\ fs.nodes[fs.cwd].is_dir
  BY <1>1, CwdIsDir
<1> QED
  BY <1>1, <1>2, <1>3, <1>4 DEF TreeSound, Inv

\* For any accounts, packages, mount points and sizes, through any power failure and
\* whatever it leaves on the disk: unless the tree comes from an image that was not
\* written to its end, no two entries of a directory share a name, every node has
\* one place and its parent names it, and the working directory is a directory.
THEOREM TreeStaysSound == Spec => [](tree_ok => TreeSound)
<1>1. Inv => (tree_ok => TreeSound)
  BY SoundTree
<1> QED
  BY <1>1, Invariant, PTL

\* Inv gives Reloads.
LEMMA SameTree == ASSUME Inv, tree_ok PROVE Reloads
<1>1. Arena(fs)
  BY DEF Inv, Session
<1>2. PICK image : image = Serialize(fs)
  OBVIOUS
<1>3. Parses(image) /\ Tree(Deserialize(image)) = Tree(fs)
  BY <1>1, <1>2, ImageParses, ImageTree
<1> QED
  BY <1>2, <1>3 DEF Reloads

\* Of any tree that does not come from an image that was not written to its end:
\* load takes what serialize writes, and deserialize makes of it a tree that shows
\* the same to ls and read.
THEOREM WhatIsStoredReloads == Spec => [](tree_ok => Reloads)
<1>1. Inv => (tree_ok => Reloads)
  BY SameTree
<1> QED
  BY <1>1, Invariant, PTL

-----------------------------------------------------------------------------
(* What lies below the root *)

\* A node lies below the root if its directory lists it and lies there.
Held(f, S, i) ==
  \/ i = Root
  \/ i \in Range(f.nodes[f.nodes[i].parent].children) /\ f.nodes[i].parent \in S
Below(f, S) == \A i \in 1 .. Len(f.nodes) : i \in S <=> Held(f, S, i)

\* There is such a set, the union of those that hold no other nodes ...
LEMMA BelowExists ==
  ASSUME NEW f, Arena(f)
  PROVE  \E S : S \subseteq 1 .. Len(f.nodes) /\ Below(f, S)
<1> DEFINE All == { X \in SUBSET (1 .. Len(f.nodes)) : \A i \in X : Held(f, X, i) }
           S == UNION All
<1>1. S \subseteq 1 .. Len(f.nodes)
  OBVIOUS
<1>2. ASSUME NEW i \in S PROVE Held(f, S, i)
  <2>1. PICK X \in All : i \in X
    BY <1>2
  <2>2. Held(f, X, i)
    BY <2>1
  <2>3. X \subseteq S
    BY <2>1
  <2> HIDE DEF S, All
  <2> QED
    BY <2>2, <2>3 DEF Held
<1>3. ASSUME NEW i \in 1 .. Len(f.nodes), Held(f, S, i) PROVE i \in S
  <2>1. PICK X : X = S \cup {i}
    OBVIOUS
  <2>2. X \subseteq 1 .. Len(f.nodes)
    BY <1>1, <2>1
  <2>3. ASSUME NEW j \in X PROVE Held(f, X, j)
    <3>1. Held(f, S, j)
      BY <1>2, <1>3, <2>1, <2>3
    <3> HIDE DEF S
    <3> QED
      BY <2>1, <3>1 DEF Held
  <2>4. X \in All
    BY <2>2, <2>3
  <2>5. i \in X
    BY <2>1
  <2> HIDE DEF All
  <2> QED
    BY <2>4, <2>5
<1> HIDE DEF S
<1>4. \A i \in 1 .. Len(f.nodes) : i \in S <=> Held(f, S, i)
  BY <1>2, <1>3
<1> QED
  BY <1>1, <1>4 DEF Below

\* ... and InTree is one.
LEMMA InTreeIs ==
  ASSUME NEW f, Arena(f)
  PROVE  InTree(f) \subseteq 1 .. Len(f.nodes) /\ Below(f, InTree(f))
<1> DEFINE Def(h) == [i \in DOMAIN f.nodes |->
                        \/ i = Root
                        \/ /\ i \in Range(f.nodes[f.nodes[i].parent].children)
                           /\ h[f.nodes[i].parent]]
           h == CHOOSE h : h = Def(h)
           T == { i \in DOMAIN f.nodes : h[i] }
<1>1. InTree(f) = T
  BY DEF InTree
<1>2. \E g : g = Def(g)
  <2>1. PICK S : S \subseteq 1 .. Len(f.nodes) /\ Below(f, S)
    BY BelowExists
  <2>2. PICK g : g = [i \in DOMAIN f.nodes |-> i \in S]
    OBVIOUS
  <2>3. ASSUME NEW i \in DOMAIN f.nodes
        PROVE  g[i] = (i = Root \/ (/\ i \in Range(f.nodes[f.nodes[i].parent].children)
                                    /\ g[f.nodes[i].parent]))
    <3>1. i \in 1 .. Len(f.nodes) /\ f.nodes[i].parent \in DOMAIN f.nodes
      BY <2>3, ArenaNumbers, ParentIs
    <3>2. i \in S <=> Held(f, S, i)
      BY <2>1, <3>1 DEF Below
    <3>3. g[i] = (i \in S)
      BY <2>2, <2>3, Zenon
    <3>4. g[f.nodes[i].parent] = (f.nodes[i].parent \in S)
      BY <2>2, <3>1, Zenon
    <3>5. (i \in S) = (i = Root \/ (/\ i \in Range(f.nodes[f.nodes[i].parent].children)
                                  /\ f.nodes[i].parent \in S))
      BY <3>2 DEF Held
    <3> QED
      BY <3>3, <3>4, <3>5, Zenon
  <2>4. g = Def(g)
    BY <2>2, <2>3, Zenon
  <2> QED
    BY <2>4
<1>3. h = Def(h)
  BY <1>2, Zenon
<1> HIDE DEF h
<1>4. ASSUME NEW i \in 1 .. Len(f.nodes) PROVE i \in T <=> Held(f, T, i)
  <2>1. i \in DOMAIN f.nodes /\ f.nodes[i].parent \in DOMAIN f.nodes
    BY ArenaNumbers, ParentIs
  <2>2. h[i] = (i = Root \/ (/\ i \in Range(f.nodes[f.nodes[i].parent].children)
                             /\ h[f.nodes[i].parent]))
    BY <1>3, <2>1, Zenon
  <2>3. (i \in T <=> h[i]) /\ (f.nodes[i].parent \in T <=> h[f.nodes[i].parent])
    BY <2>1, Zenon
  <2> HIDE DEF T
  <2> QED
    BY <2>2, <2>3, Zenon DEF Held
<1>5. T \subseteq 1 .. Len(f.nodes)
  BY ArenaNumbers
<1> HIDE DEF T
<1> QED
  BY <1>1, <1>4, <1>5, Zenon DEF Below

\* The directory of a node, if it is not the root.
LEMMA InTreeStep ==
  ASSUME NEW f, Arena(f), NEW i \in 1 .. Len(f.nodes), i # Root
  PROVE  /\ f.nodes[i].parent \in 1 .. Len(f.nodes) /\ f.nodes[i].parent < i
         /\ i \in InTree(f) <=> /\ i \in Range(f.nodes[f.nodes[i].parent].children)
                                /\ f.nodes[i].parent \in InTree(f)
<1>1. f.nodes[i].parent \in 1 .. Len(f.nodes)
  BY ParentIs
<1>2. f.nodes[i].parent \in 1 .. i - 1
  BY DEF Arena, Sound, Rooted
<1>3. f.nodes[i].parent < i
  BY <1>2, ArenaNumbers
<1>4. i \in InTree(f) <=> Held(f, InTree(f), i)
  BY InTreeIs DEF Below
<1> QED
  BY <1>1, <1>3, <1>4 DEF Held

\* The root lies below itself.
LEMMA RootInTree == ASSUME NEW f, Arena(f) PROVE Root \in InTree(f)
BY InTreeIs, ArenaNumbers DEF Below, Held

\* What lies below the root still does when more has come.
LEMMA InTreeGrows ==
  ASSUME NEW f, NEW g, Arena(f), Arena(g), Extends(f, g), NEW c \in InTree(f)
  PROVE  c \in InTree(g)
<1> DEFINE Lost == { i \in 1 .. Len(f.nodes) : i \in InTree(f) /\ i \notin InTree(g) }
<1>1. Len(f.nodes) \in Nat /\ Len(g.nodes) \in Nat /\ Len(f.nodes) <= Len(g.nodes)
  BY ArenaNumbers DEF Extends
<1>2. ASSUME Lost # {} PROVE FALSE
  <2>1. PICK i \in Lost : \A j \in Lost : i <= j
    <3>1. Lost \in SUBSET Nat
      BY <1>1
    <3> HIDE DEF Lost
    <3> QED
      BY <1>2, <3>1, MinIs
  <2>2. i \in 1 .. Len(f.nodes) /\ i \in InTree(f) /\ i \notin InTree(g) /\ i # Root
    BY <2>1, RootInTree
  <2>3. PICK p : p = f.nodes[i].parent
    OBVIOUS
  <2>4. /\ p \in 1 .. Len(f.nodes) /\ p < i /\ p \in InTree(f)
        /\ i \in Range(f.nodes[p].children)
    BY <2>2, <2>3, InTreeStep
  <2>5. p \in InTree(g)
    BY <1>1, <2>1, <2>2, <2>4
  <2>6. g.nodes[i].parent = p /\ i \in Range(g.nodes[p].children) /\ i \in 1 .. Len(g.nodes)
    <3>1. i \in 1 .. Len(g.nodes)
      BY <1>1, <2>2
    <3>2. g.nodes[i].parent = p
      BY <2>2, <2>3 DEF Extends
    <3>3. Range(f.nodes[p].children) \subseteq Range(g.nodes[p].children)
      BY <2>4 DEF Extends
    <3> QED
      BY <2>4, <3>1, <3>2, <3>3
  <2> QED
    BY <2>2, <2>5, <2>6, InTreeStep
<1>3. c \in 1 .. Len(f.nodes)
  BY InTreeIs
<1> QED
  BY <1>2, <1>3

\* An entry of what lies below the root does too; so does what a path leads to.
LEMMA EnterInTree ==
  ASSUME NEW f, Arena(f), NEW i \in InTree(f), NEW name, Enter(f, i, name) # NoNode
  PROVE  Enter(f, i, name) \in InTree(f)
<1>1. PICK c : c = Enter(f, i, name)
  OBVIOUS
<1>2. i \in 1 .. Len(f.nodes)
  BY InTreeIs
<1>3. /\ c \in 1 .. Len(f.nodes) /\ c \in Range(f.nodes[i].children)
      /\ f.nodes[c].parent = i /\ i < c
  BY <1>1, <1>2, EnterIs
<1>4. c # Root
  BY <1>2, <1>3, ArenaNumbers DEF Root
<1> QED
  BY <1>1, <1>3, <1>4, InTreeStep

\* What a path of two names leads to lies below the root.
LEMMA PathInTree ==
  ASSUME NEW f, Arena(f), NEW a, NEW b, NEW c, c = Resolve(f, Root, <<a, b>>), c # NoNode
  PROVE  c \in InTree(f)
<1>1. PICK e : e = Enter(f, Root, a)
  OBVIOUS
<1>2. c = Enter(f, e, b)
  BY <1>1, ResolveTwo
<1>3. e # NoNode
  BY <1>2 DEF Enter
<1>4. e \in InTree(f)
  BY <1>1, <1>3, RootInTree, EnterInTree
<1> QED
  BY <1>2, <1>4, EnterInTree

\* A purge of node i, which lies in a directory of the root, takes off that
\* directory's list only node i.
Purged(f, g, i) ==
  /\ i # NoNode => f.nodes[i].parent # Root /\ f.nodes[f.nodes[i].parent].parent = Root
  /\ \A j \in 1 .. Len(f.nodes) : \A c \in Range(f.nodes[j].children) :
       \/ c \in Range(g.nodes[j].children)
       \/ i # NoNode /\ (c = i \/ f.nodes[c].parent = i)

\* The purge of a directory of a directory does that.
LEMMA PurgeIs ==
  ASSUME NEW f, NEW g, NEW a, NEW b, Arena(f), Pruned(f, g, <<a, b>>),
         NEW i, i = Resolve(f, Root, <<a, b>>)
  PROVE  Purged(f, g, i)
<1>1. i # NoNode => f.nodes[i].parent # Root /\ f.nodes[f.nodes[i].parent].parent = Root
  BY DeepPlace
<1>2. ASSUME NEW j \in 1 .. Len(f.nodes), NEW c \in Range(f.nodes[j].children)
      PROVE  \/ c \in Range(g.nodes[j].children)
             \/ i # NoNode /\ (c = i \/ f.nodes[c].parent = i)
  <2>1. c \in Range(g.nodes[j].children) \/ Meant(f, <<a, b>>, c)
    BY DEF Pruned
  <2>2. Meant(f, <<a, b>>, c) => i # NoNode /\ (c = i \/ f.nodes[c].parent = i)
    BY DEF Meant
  <2> QED
    BY <2>1, <2>2
<1> QED
  BY <1>1, <1>2 DEF Purged

\* Any other directory of a directory stays.
LEMMA PurgeSpares ==
  ASSUME NEW f, NEW g, Arena(f), NEW i, Purged(f, g, i),
         NEW c \in 1 .. Len(f.nodes), NEW h, h = f.nodes[c].parent, h # Root,
         f.nodes[h].parent = Root, h \in Range(f.nodes[Root].children),
         c \in Range(f.nodes[h].children), c # i
  PROVE  h \in Range(g.nodes[Root].children) /\ c \in Range(g.nodes[h].children)
<1>1. h \in 1 .. Len(f.nodes) /\ Root \in 1 .. Len(f.nodes)
  BY ParentIs, ArenaNumbers
<1>2. f.nodes[Root].parent = Root
  BY <1>1 DEF Arena, Sound, Rooted
<1>3. i # NoNode => i # h /\ i # Root
  BY <1>2 DEF Purged
<1> QED
  BY <1>1, <1>3 DEF Purged

\* How a purge loses the working directory.
LEMMA PurgeLoses ==
  ASSUME NEW f, NEW g, NEW a, NEW b, Session(f), Pruned(f, g, <<a, b>>),
         f.cwd \in InTree(f), g.cwd \notin InTree(g)
  PROVE  a = "home" /\ f.cwd = Resolve(f, Root, <<a, b>>)
<1>1. PICK c, i : c = f.cwd /\ i = Resolve(f, Root, <<a, b>>)
  OBVIOUS
<1>2. Arena(f) /\ Arena(g) /\ g.cwd = c /\ AtHome(f, c) /\ Len(g.nodes) = Len(f.nodes)
  BY <1>1 DEF Session, Pruned, Extends
<1>3. c # Root
  BY <1>2, RootInTree
<1>4. PICK h : h = f.nodes[c].parent
  OBVIOUS
<1>5. /\ c \in 1 .. Len(f.nodes) /\ h \in 1 .. Len(f.nodes) /\ f.nodes[h].parent = Root
      /\ f.nodes[h].name = "home"
  BY <1>2, <1>3, <1>4 DEF AtHome
<1>6. h # Root
  <2>1. f.nodes[Root].name = "/"
    BY <1>2, ArenaNumbers DEF Arena, Sound, Rooted
  <2> QED
    BY <1>5, <2>1
<1>7. c \in Range(f.nodes[h].children) /\ h \in InTree(f)
  BY <1>1, <1>2, <1>3, <1>4, <1>5, InTreeStep
<1>8. h \in Range(f.nodes[Root].children)
  BY <1>2, <1>5, <1>6, <1>7, InTreeStep
<1>9. CASE h \in Range(g.nodes[Root].children) /\ c \in Range(g.nodes[h].children)
  <2>1. g.nodes[h].parent = Root /\ g.nodes[c].parent = h
    BY <1>2, <1>4, <1>5 DEF Pruned, Extends
  <2>2. h \in InTree(g)
    BY <1>2, <1>5, <1>6, <1>9, <2>1, RootInTree, InTreeStep
  <2>3. c \in InTree(g)
    BY <1>2, <1>3, <1>5, <1>9, <2>1, <2>2, InTreeStep
  <2> QED
    BY <1>2, <2>3
<1>10. CASE c = i
  <2>1. i # NoNode
    BY <1>2, <1>5, <1>10, ArenaNumbers
  <2>2. f.nodes[f.nodes[i].parent].name = a
    BY <1>1, <1>2, <2>1, DeepPlace
  <2> QED
    BY <1>1, <1>4, <1>5, <1>10, <2>2
<1>11. Purged(f, g, i)
  BY <1>1, <1>2, PurgeIs
<1>12. \/ c = i
       \/ h \in Range(g.nodes[Root].children) /\ c \in Range(g.nodes[h].children)
  <2>1. SUFFICES ASSUME c # i
                 PROVE  h \in Range(g.nodes[Root].children) /\ c \in Range(g.nodes[h].children)
    OBVIOUS
  <2>2. Arena(f) /\ c \in 1 .. Len(f.nodes) /\ f.nodes[h].parent = Root
    BY <1>2, <1>5
  <2> QED
    BY <1>4, <1>6, <1>7, <1>8, <1>11, <2>1, <2>2, PurgeSpares
<1> QED
  BY <1>9, <1>10, <1>12

\* A purge leaves every other path of two names as it is.
LEMMA PurgeOther ==
  ASSUME NEW f, NEW g, NEW a, NEW b, Arena(f), Pruned(f, g, <<a, b>>),
         NEW x, NEW y, NEW r, r = Resolve(f, Root, <<x, y>>), r # NoNode,
         NEW i, i = Resolve(f, Root, <<a, b>>), r # i
  PROVE  /\ Resolve(g, Root, <<x, y>>) = r /\ r \in 1 .. Len(f.nodes)
         /\ g.nodes[r].data = f.nodes[r].data /\ g.nodes[r].is_dir = f.nodes[r].is_dir
<1>1. PICK h : h = f.nodes[r].parent
  OBVIOUS
<1>2. /\ r \in 1 .. Len(f.nodes) /\ r # Root /\ f.nodes[r].name = y
      /\ h = Enter(f, Root, x) /\ h # NoNode
      /\ f.nodes[h].parent = Root /\ h # Root /\ f.nodes[h].name = x
      /\ h \in 1 .. Len(f.nodes)
  BY <1>1, DeepPlace
<1>3. h \in Range(f.nodes[Root].children)
  BY <1>2, ArenaNumbers, EnterIs
<1>4. r = Enter(f, h, y)
  BY <1>2, ResolveTwo
<1>5. r \in Range(f.nodes[h].children)
  BY <1>2, <1>4, EnterIs
<1>6. h \in Range(g.nodes[Root].children) /\ r \in Range(g.nodes[h].children)
  <2>1. Purged(f, g, i)
    BY PurgeIs
  <2> QED
    BY <1>1, <1>2, <1>3, <1>5, <2>1, PurgeSpares
<1>7. Arena(g) /\ Extends(g, f) /\ Len(g.nodes) = Len(f.nodes)
  BY DEF Pruned
<1>8. /\ g.nodes[h].name = x /\ g.nodes[r].name = y /\ g.nodes[r].data = f.nodes[r].data
      /\ g.nodes[r].is_dir = f.nodes[r].is_dir
  BY <1>2, <1>7 DEF Pruned, Extends
<1>9. Child(g, Root, x) = h /\ Child(g, h, y) = r
  <2>1. Root \in 1 .. Len(g.nodes)
    BY <1>7, ArenaNumbers
  <2> QED
    BY <1>2, <1>6, <1>7, <1>8, <2>1, ChildOf
<1>10. Root # NoNode
  BY DEF Root, NoNode
<1>11. Enter(g, Root, x) = h /\ Enter(g, h, y) = r
  BY <1>2, <1>9, <1>10 DEF Enter
<1> QED
  BY <1>2, <1>8, <1>11, ResolveTwo

\* A purge outside /etc leaves the accounts.
LEMMA PurgeList ==
  ASSUME NEW f, NEW g, NEW a, NEW b, Arena(f), Pruned(f, g, <<a, b>>), a # "etc"
  PROVE  List(g) = List(f)
<1>1. PICK x, y, r, i : /\ x = "etc" /\ y = "users" /\ r = Resolve(f, Root, <<x, y>>)
                        /\ i = Resolve(f, Root, <<a, b>>)
  OBVIOUS
<1>2. r = RegNode(f) /\ RegNode(g) = Resolve(g, Root, <<x, y>>)
  BY <1>1 DEF RegNode, REGISTRY
<1>3. CASE r # NoNode
  <2>1. f.nodes[f.nodes[r].parent].name = x
    BY <1>1, <1>3, DeepPlace
  <2>2. i # NoNode => f.nodes[f.nodes[i].parent].name = a
    BY <1>1, DeepPlace
  <2>3. r # i
    BY <1>1, <1>3, <2>1, <2>2
  <2>4. /\ Resolve(g, Root, <<x, y>>) = r /\ g.nodes[r].data = f.nodes[r].data
        /\ g.nodes[r].is_dir = f.nodes[r].is_dir
    BY <1>1, <1>3, <2>3, PurgeOther
  <2> QED
    BY <1>2, <2>4, ListIs
<1>4. CASE r = NoNode
  <2>1. Len(<<x, y>>) \in Nat /\ Arena(g) /\ Extends(g, f)
    BY DEF Pruned
  <2>2. ASSUME Resolve(g, Root, <<x, y>>) # NoNode PROVE FALSE
    BY <1>1, <1>4, <2>1, <2>2, ExtendsResolve
  <2> QED
    BY <1>2, <1>4, <2>2, ListIs
<1> QED
  BY <1>3, <1>4

-----------------------------------------------------------------------------
(* The accounts and the working directory *)

\* save_list writes the list, if there is a place for it: if there was a list.
LEMMA ListStored ==
  ASSUME NEW f, Arena(f), NEW list
  PROVE  LET g == StoreList(f, list)
         IN  /\ Arena(g) /\ Extends(f, g) /\ OnlyNew(f, g)
             /\ List(g) = list \/ List(g) = List(f)
             /\ List(f) # << >> => List(g) = list
<1>1. PICK x, y, dir, p : /\ x = "etc" /\ y = "users" /\ dir = <<x>>
                          /\ p = Resolve(f, Root, dir)
  OBVIOUS
<1>2. Len(dir) \in Nat /\ Root \in 1 .. Len(f.nodes)
  BY <1>1, ArenaNumbers
<1>3. p # NoNode => PlaceFor(f, p)
  BY <1>1, EtcPlace
<1>4. PICK g : g = StoreList(f, list)
  OBVIOUS
<1>5. g = Write(f, dir, y, list)
  BY <1>1, <1>4 DEF StoreList
<1>6. p = Enter(f, Root, x)
  BY <1>1, ResolveOne
<1>7. RegNode(f) = Enter(f, p, y) /\ RegNode(g) = Enter(g, Enter(g, Root, x), y)
  BY <1>1, <1>6, ResolveTwo DEF RegNode, REGISTRY
<1>8. CASE CanWrite(f, p, y)
  <2>1. Written(f, g, p, y, list)
    BY <1>1, <1>2, <1>3, <1>5, <1>8, WriteIs
  <2>2. p # NoNode /\ Arena(g) /\ Extends(f, g) /\ OnlyNew(f, g)
    BY <2>1 DEF Written
  <2>3. Enter(g, Root, x) = p
    BY <1>2, <1>6, <2>2, ExtendsEnter
  <2>4. PICK c : c = Child(g, p, y)
    OBVIOUS
  <2>5. c # NoNode /\ ~g.nodes[c].is_dir /\ g.nodes[c].data = list
    BY <2>1, <2>4 DEF Written
  <2>6. RegNode(g) = c
    BY <1>7, <2>2, <2>3, <2>4 DEF Enter
  <2>7. List(g) = list
    BY <2>5, <2>6, ListIs
  <2> QED
    BY <1>4, <2>2, <2>7
<1>9. CASE ~CanWrite(f, p, y)
  <2>1. g = f
    BY <1>1, <1>2, <1>3, <1>5, <1>9, WriteIs
  <2>2. Arena(g) /\ Extends(f, g) /\ OnlyNew(f, g) /\ List(g) = List(f)
    BY <2>1, ExtendsSelf DEF OnlyNew
  <2>3. ASSUME List(f) # << >> PROVE FALSE
    <3>1. PICK r : r = Enter(f, p, y)
      OBVIOUS
    <3>2. r # NoNode /\ ~f.nodes[r].is_dir
      BY <1>7, <2>3, <3>1, ListIs
    <3>3. p # NoNode /\ Child(f, p, y) = r
      BY <3>1, <3>2 DEF Enter
    <3>4. p \in 1 .. Len(f.nodes) /\ f.nodes[p].parent = Root
      BY <1>2, <1>6, <3>3, EnterIs
    <3>5. f.nodes[p].is_dir
      BY <3>4, TopIsDir
    <3> QED
      BY <1>9, <3>2, <3>3, <3>5 DEF CanWrite
  <2> QED
    BY <1>4, <2>2, <2>3
<1> QED
  BY <1>8, <1>9

\* What is looked up depends on the nodes only.
LEMMA EnterSame ==
  ASSUME NEW f, NEW g, Arena(f), Arena(g), g.nodes = f.nodes,
         NEW i \in 1 .. Len(f.nodes) \cup {NoNode}, NEW name
  PROVE  Enter(g, i, name) = Enter(f, i, name)
<1>1. CASE i = NoNode
  BY <1>1 DEF Enter
<1>2. CASE i # NoNode
  <2>1. i \in 1 .. Len(f.nodes) /\ i \in 1 .. Len(g.nodes)
    BY <1>2
  <2>2. PICK a, b : a = Child(f, i, name) /\ b = Child(g, i, name)
    OBVIOUS
  <2>3. a # NoNode => a \in Range(f.nodes[i].children) /\ f.nodes[a].name = name
    BY <2>1, <2>2, ChildIs
  <2>4. b # NoNode => b \in Range(f.nodes[i].children) /\ f.nodes[b].name = name
    BY <2>1, <2>2, ChildIs
  <2>5. a # NoNode => b = a
    BY <2>1, <2>2, <2>3, ChildOf
  <2>6. b # NoNode => b = a
    BY <2>1, <2>2, <2>4, ChildOf
  <2> QED
    BY <1>2, <2>2, <2>5, <2>6 DEF Enter
<1> QED
  BY <1>1, <1>2

\* A name leads to a node or to none.
LEMMA EnterType ==
  ASSUME NEW f, Arena(f), NEW i \in 1 .. Len(f.nodes) \cup {NoNode}, NEW name
  PROVE  Enter(f, i, name) \in 1 .. Len(f.nodes) \cup {NoNode}
BY EnterIs

\* The working directory is of no matter to a path ...
LEMMA PathSame ==
  ASSUME NEW f, NEW g, Arena(f), Arena(g), g.nodes = f.nodes, NEW x, NEW y
  PROVE  Resolve(g, Root, <<x, y>>) = Resolve(f, Root, <<x, y>>)
<1>1. PICK e : e = Enter(f, Root, x)
  OBVIOUS
<1>2. Root \in 1 .. Len(f.nodes)
  BY ArenaNumbers
<1>3. e \in 1 .. Len(f.nodes) \cup {NoNode} /\ Enter(g, Root, x) = e
  BY <1>1, <1>2, EnterSame, EnterType
<1> QED
  BY <1>1, <1>3, EnterSame, ResolveTwo

\* ... nor to the accounts and homes.
LEMMA SeenSame ==
  ASSUME NEW f, NEW g, Arena(f), Arena(g), g.nodes = f.nodes
  PROVE  List(g) = List(f) /\ \A u : HasHome(g, u) <=> HasHome(f, u)
<1>1. RegNode(g) = RegNode(f)
  BY PathSame DEF RegNode, REGISTRY
<1>2. ASSUME NEW u PROVE HasHome(g, u) <=> HasHome(f, u)
  BY PathSame DEF HasHome, Home
<1> QED
  BY <1>1, <1>2, ListIs

\* Each account is there once, and has a home.
Housed(f) ==
  /\ IsSeq(List(f)) /\ IsInjective(List(f)) /\ Range(List(f)) \subseteq User
  /\ \A u \in Range(List(f)) : HasHome(f, u)

\* The working directory is lost with an account.
Lost(f, g) ==
  \E u \in Range(List(f)) : u \notin Range(List(g)) /\ f.cwd = Resolve(f, Root, Home(u))
Led(f, g) == f.cwd \in InTree(f) => g.cwd \in InTree(g) \/ Lost(f, g)

\* What a call does to the accounts.
More(f, g) == \E u \in User : Range(List(g)) = Range(List(f)) \cup {u}
Less(f, g) == \E u \in User : /\ Range(List(g)) = Range(List(f)) \ {u}
                              /\ Range(List(g)) # {}
Altered(f, g) ==
  /\ Session(g) /\ Housed(g) /\ Led(f, g)
  /\ List(g) = List(f) \/ More(f, g) \/ Less(f, g)

\* The empty tree has no accounts.
LEMMA ListEmpty == List(Empty) = << >>
<1>1. PICK x, y, e : x = "etc" /\ y = "users" /\ e = Enter(Empty, Root, x)
  OBVIOUS
<1>2. Arena(Empty) /\ Root \in 1 .. Len(Empty.nodes)
  BY EmptySession, ArenaNumbers DEF Session
<1>3. Empty.nodes[Root].children = << >>
  BY DEF Empty, NewNode, Root
<1>4. Range(Empty.nodes[Root].children) = {}
  BY <1>3, EmptyIsSeq, RangeIs
<1>5. e = NoNode
  BY <1>1, <1>2, <1>4, EnterIs
<1>6. RegNode(Empty) = NoNode
  BY <1>1, <1>5, ResolveTwo DEF RegNode, REGISTRY, Enter
<1> QED
  BY <1>6, ListIs

\* Without accounts every account has its home.
LEMMA NoneHoused == ASSUME NEW f, List(f) = << >> PROVE Housed(f)
BY EmptyIsSeq, RangeIs DEF Housed, IsInjective

\* A call that leaves the files of /etc alone.
LEMMA KeptAltered ==
  ASSUME NEW f, Session(f), Housed(f), NEW g, Arena(g), EtcKept(f, g)
  PROVE  Altered(f, g) /\ List(g) = List(f)
<1>1. Arena(f) /\ Extends(f, g) /\ g.cwd = f.cwd
  BY DEF Session, EtcKept, Extends
<1>2. Session(g)
  BY <1>1, SessionGrows
<1>3. List(g) = List(f)
  BY <1>1, RegistryKept
<1>4. \A u \in Range(List(f)) : HasHome(g, u)
  BY <1>1, HomeKept DEF Housed
<1>5. Housed(g)
  BY <1>3, <1>4 DEF Housed
<1>6. Led(f, g)
  BY <1>1, InTreeGrows DEF Led
<1> QED
  BY <1>2, <1>3, <1>5, <1>6 DEF Altered

\* useradd.
LEMMA AddAltered ==
  ASSUME NEW f, Session(f), Housed(f), NEW u \in User, u \notin Range(List(f))
  PROVE  Altered(f, SeedHome(StoreList(f, Append(List(f), u)), u))
<1>1. PICK list : list = Append(List(f), u)
  OBVIOUS
<1>2. PICK g : g = StoreList(f, list)
  OBVIOUS
<1>3. PICK k : k = SeedHome(g, u)
  OBVIOUS
<1>4. IsSeq(list) /\ IsInjective(list) /\ Range(list) = Range(List(f)) \cup {u}
  BY <1>1, Appended, AppendInj DEF Housed
<1>5. Arena(f) /\ Arena(g) /\ Extends(f, g) /\ (List(g) = list \/ List(g) = List(f))
  BY <1>2, ListStored DEF Session
<1>6. Arena(k) /\ EtcKept(g, k) /\ Extends(g, k) /\ HasHome(k, u)
  BY <1>3, <1>5, SeedIs DEF EtcKept
<1>7. List(k) = List(g) /\ Extends(f, k) /\ k.cwd = f.cwd
  BY <1>5, <1>6, RegistryKept, ExtendsOn DEF Extends
<1>8. Session(k)
  BY <1>6, <1>7, SessionGrows
<1>9. \A v \in Range(List(f)) : HasHome(k, v)
  BY <1>5, <1>6, <1>7, HomeKept DEF Housed
<1>10. Housed(k)
  BY <1>4, <1>5, <1>6, <1>7, <1>9 DEF Housed
<1>11. Led(f, k)
  BY <1>5, <1>6, <1>7, InTreeGrows DEF Led
<1>12. List(k) = List(f) \/ More(f, k)
  BY <1>4, <1>5, <1>7 DEF More
<1> QED
  BY <1>1, <1>2, <1>3, <1>8, <1>10, <1>11, <1>12 DEF Altered

-----------------------------------------------------------------------------
(* Deleting an account *)

\* The purge of a home directory leaves those of the others.
LEMMA OtherHome ==
  ASSUME NEW g, NEW k, NEW u, Arena(g), Pruned(g, k, Home(u)), NEW v, v # u, HasHome(g, v)
  PROVE  HasHome(k, v)
<1>1. PICK x : x = "home"
  OBVIOUS
<1>2. PICK r, i : r = Resolve(g, Root, <<x, v>>) /\ i = Resolve(g, Root, <<x, u>>)
  OBVIOUS
<1>3. r # NoNode /\ Pruned(g, k, <<x, u>>)
  BY <1>1, <1>2 DEF HasHome, Home
<1>4. g.nodes[r].name = v
  BY <1>2, <1>3, DeepPlace
<1>5. i # NoNode => g.nodes[i].name = u
  BY <1>2, DeepPlace
<1>6. r # i
  BY <1>3, <1>4, <1>5
<1>7. Resolve(k, Root, <<x, v>>) = r
  BY <1>2, <1>3, <1>6, PurgeOther
<1> QED
  BY <1>1, <1>3, <1>7 DEF HasHome, Home

\* A list of two accounts or more is not empty without one of them.
LEMMA OneLeft ==
  ASSUME NEW s, IsSeq(s), IsInjective(s), Len(s) > 1, NEW u
  PROVE  Range(s) \ {u} # {}
<1>1. 1 \in DOMAIN s /\ 2 \in DOMAIN s /\ s[1] \in Range(s) /\ s[2] \in Range(s)
  BY RangeIs DEF IsSeq
<1>2. s[1] # s[2]
  BY <1>1 DEF IsInjective
<1> QED
  BY <1>1, <1>2

\* userdel, with and without -r.
LEMMA PurgeKind ==
  ASSUME NEW g, Arena(g), NEW u, NEW purge, NEW k,
         k = IF purge THEN Purge(g, u) ELSE g
  PROVE  Pruned(g, k, Home(u))
<1>1. IsSeq(Home(u))
  BY DEF Home, IsSeq
<1>2. Pruned(g, g, Home(u)) /\ Pruned(g, Purge(g, u), Home(u))
  BY <1>1, PrunedSelf, PurgePruned
<1> QED
  BY <1>2

\* userdel takes one account off, with its home or without.
LEMMA DelAltered ==
  ASSUME NEW f, Session(f), Housed(f), NEW u \in User, u \in Range(List(f)),
         Len(List(f)) > 1, NEW purge, NEW g, g = StoreList(f, Without(List(f), u)),
         NEW k, k = IF purge THEN Purge(g, u) ELSE g
  PROVE  Altered(f, k)
<1>1. PICK list : list = Without(List(f), u)
  OBVIOUS
<1>2. /\ IsSeq(list) /\ IsInjective(list) /\ Range(list) = Range(List(f)) \ {u}
      /\ Range(list) # {}
  BY <1>1, WithoutIs, OneLeft DEF Housed
<1>3. List(f) # << >>
  BY EmptyIsSeq
<1>4. Arena(f) /\ Arena(g) /\ Extends(f, g) /\ OnlyNew(f, g) /\ List(g) = list
  BY <1>1, <1>3, ListStored DEF Session
<1>5. Pruned(g, k, Home(u))
  BY <1>4, PurgeKind
<1>6. List(k) = list
  <2>1. Pruned(g, k, <<"home", u>>)
    BY <1>5 DEF Home
  <2>2. "home" # "etc"
    OBVIOUS
  <2> QED
    BY <1>4, <2>1, <2>2, PurgeList
<1>7. Session(g) /\ Session(k)
  BY <1>4, <1>5, SessionGrows, SessionPruned
<1>8. ASSUME NEW v \in Range(list) PROVE HasHome(k, v)
  <2>1. v # u /\ v \in Range(List(f))
    BY <1>2
  <2>2. HasHome(g, v)
    BY <1>4, <2>1, HomeKept DEF Housed
  <2> QED
    BY <1>4, <1>5, <2>1, <2>2, OtherHome
<1>9. Housed(k)
  BY <1>2, <1>6, <1>8 DEF Housed
<1>10. ASSUME f.cwd \in InTree(f), k.cwd \notin InTree(k) PROVE Lost(f, k)
  <2>1. g.cwd = f.cwd /\ g.cwd \in InTree(g)
    BY <1>4, <1>10, InTreeGrows DEF Extends
  <2>2. Pruned(g, k, <<"home", u>>)
    BY <1>5 DEF Home
  <2>3. g.cwd = Resolve(g, Root, <<"home", u>>)
    BY <1>7, <1>10, <2>1, <2>2, PurgeLoses
  <2>4. g.cwd \in 1 .. Len(f.nodes)
    BY <2>1 DEF Session, AtHome
  <2>5. PICK x, c : x = "home" /\ c = g.cwd
    OBVIOUS
  <2>6. Resolve(f, Root, <<x, u>>) = c
    BY <1>4, <2>3, <2>4, <2>5, BackTwo
  <2>7. f.cwd = Resolve(f, Root, Home(u))
    BY <2>1, <2>5, <2>6 DEF Home
  <2> QED
    BY <1>2, <1>6, <2>7 DEF Lost
<1>11. Less(f, k)
  BY <1>2, <1>6 DEF Less
<1> QED
  BY <1>7, <1>9, <1>10, <1>11 DEF Altered, Led

\* apt remove.
LEMMA RemoveAltered ==
  ASSUME NEW f, Session(f), Housed(f), NEW p, Resolve(f, Root, App(p)) # NoNode, NEW k,
         k = RemoveAll(f, App(p), EntryNames(f, Resolve(f, Root, App(p))))
  PROVE  Altered(f, k) /\ List(k) = List(f)
<1>1. PICK x : x = "apps"
  OBVIOUS
<1>2. IsSeq(<<x, p>>) /\ App(p) = <<x, p>> /\ Arena(f)
  BY <1>1 DEF App, IsSeq, Session
<1>3. Pruned(f, k, <<x, p>>)
  BY <1>2, PkgPruned
<1>4. Session(k)
  BY <1>3, SessionPruned
<1>5. x # "etc" /\ x # "home"
  BY <1>1
<1>6. List(k) = List(f)
  BY <1>2, <1>3, <1>5, PurgeList
<1>7. ASSUME NEW v, HasHome(f, v) PROVE HasHome(k, v)
  <2>1. PICK y, r, i : /\ y = "home" /\ r = Resolve(f, Root, <<y, v>>)
                       /\ i = Resolve(f, Root, <<x, p>>)
    OBVIOUS
  <2>2. r # NoNode
    BY <1>7, <2>1 DEF HasHome, Home
  <2>3. f.nodes[f.nodes[r].parent].name = y
    BY <1>2, <2>1, <2>2, DeepPlace
  <2>4. i # NoNode => f.nodes[f.nodes[i].parent].name = x
    BY <1>2, <2>1, DeepPlace
  <2>5. r # i
    BY <1>5, <2>1, <2>2, <2>3, <2>4
  <2>6. Resolve(k, Root, <<y, v>>) = r
    BY <1>2, <1>3, <2>1, <2>2, <2>5, PurgeOther
  <2> QED
    BY <2>1, <2>2, <2>6 DEF HasHome, Home
<1>8. Housed(k)
  BY <1>6, <1>7 DEF Housed
<1>9. Led(f, k)
  <2>1. k.cwd \in InTree(k) \/ f.cwd \notin InTree(f)
    BY <1>3, <1>5, PurgeLoses
  <2> QED
    BY <2>1 DEF Led
<1> QED
  BY <1>1, <1>4, <1>6, <1>8, <1>9 DEF Altered

\* su.
LEMMA SuAltered ==
  ASSUME NEW f, Session(f), Housed(f), NEW u, HasHome(f, u)
  PROVE  LET k == [f EXCEPT !.cwd = Resolve(f, Root, Home(u))]
         IN  Altered(f, k) /\ List(k) = List(f)
<1>1. PICK c : c = Resolve(f, Root, <<"home", u>>)
  OBVIOUS
<1>2. PICK k : k = [f EXCEPT !.cwd = c]
  OBVIOUS
<1>3. k = [f EXCEPT !.cwd = Resolve(f, Root, Home(u))]
  BY <1>1, <1>2 DEF Home
<1>4. Arena(f) /\ Session(k) /\ Arena(k) /\ k.nodes = f.nodes /\ k.cwd = c
  <2>1. Arena(f)
    BY DEF Session
  <2>2. Session(k)
    BY <1>3, <2>1, GoHome
  <2>3. k.nodes = f.nodes /\ k.cwd = c
    BY <1>2, <2>1 DEF Arena
  <2> QED
    BY <2>1, <2>2, <2>3 DEF Session
<1>5. List(k) = List(f) /\ \A v : HasHome(k, v) <=> HasHome(f, v)
  BY <1>4, SeenSame
<1>6. Housed(k)
  BY <1>5 DEF Housed
<1>7. c \in InTree(k)
  <2>1. PICK x : x = "home"
    OBVIOUS
  <2>2. c = Resolve(k, Root, <<x, u>>)
    BY <1>1, <1>4, <2>1, PathSame
  <2>3. c # NoNode
    BY <1>1 DEF HasHome, Home
  <2> QED
    BY <1>4, <2>2, <2>3, PathInTree
<1> QED
  BY <1>3, <1>4, <1>5, <1>6, <1>7 DEF Altered, Led

-----------------------------------------------------------------------------
(* What is seen of the image *)

\* An entry of a directory read back is that of the directory written.
LEMMA CopyEnter ==
  ASSUME NEW f, Arena(f), NEW calls, NEW g, Restored(f, calls, g), Arena(g),
         NEW j \in 1 .. Len(g.nodes), g.nodes[j].is_dir, NEW i, i = calls[j].node, NEW name
  PROVE  /\ Enter(g, j, name) # NoNode => calls[Enter(g, j, name)].node = Enter(f, i, name)
         /\ Enter(f, i, name) # NoNode => Enter(g, j, name) # NoNode
<1>1. Whole(f, calls, g, j)
  BY CopyWhole
<1>2. PICK kids, all : kids = g.nodes[j].children /\ all = f.nodes[i].children
  OBVIOUS
<1>3. /\ i \in 1 .. Len(f.nodes) /\ IsSeq(kids) /\ Len(kids) = Len(all)
      /\ \A m \in 1 .. Len(kids) : calls[kids[m]].node = all[m]
  BY <1>1, <1>2 DEF Whole, Entries
<1>4. IsSeq(all) /\ i # NoNode /\ j # NoNode
  BY <1>2, <1>3, ArenaNumbers DEF Arena, Sound, Shape, IsNode
<1>5. ASSUME NEW k, k = Enter(g, j, name), k # NoNode
      PROVE  calls[k].node = Enter(f, i, name)
  <2>1. k \in 1 .. Len(g.nodes) /\ k \in Range(kids) /\ g.nodes[k].name = name
    BY <1>2, <1>5, EnterIs
  <2>2. PICK m \in 1 .. Len(kids) : k = kids[m]
    BY <1>3, <2>1, RangeIs
  <2>3. PICK c : c = all[m]
    OBVIOUS
  <2>4. calls[k].node = c /\ c \in Range(f.nodes[i].children)
    BY <1>2, <1>3, <1>4, <2>2, <2>3, RangeIs
  <2>5. f.nodes[c].name = name
    <3>1. Whole(f, calls, g, k)
      BY <2>1, CopyWhole
    <3>2. g.nodes[k].name = f.nodes[calls[k].node].name
      BY <3>1 DEF Whole
    <3> QED
      BY <2>1, <2>4, <3>2
  <2>6. Child(f, i, name) = c
    BY <1>3, <2>4, <2>5, ChildOf
  <2> QED
    BY <1>4, <2>4, <2>6 DEF Enter
<1>6. ASSUME NEW c, c = Enter(f, i, name), c # NoNode
      PROVE  Enter(g, j, name) # NoNode
  <2>1. c \in Range(all) /\ f.nodes[c].name = name
    BY <1>2, <1>3, <1>6, EnterIs
  <2>2. PICK m \in 1 .. Len(kids) : c = all[m]
    BY <1>3, <1>4, <2>1, RangeIs
  <2>3. PICK k : k = kids[m]
    OBVIOUS
  <2>4. k \in Range(g.nodes[j].children) /\ calls[k].node = c
    BY <1>2, <1>3, <2>2, <2>3, RangeIs
  <2>5. k \in 1 .. Len(g.nodes)
    BY <2>4 DEF Arena, Sound, Kin
  <2>6. g.nodes[k].name = name
    BY <2>1, <2>4, <2>5, CopyWhole DEF Whole
  <2>7. Child(g, j, name) = k
    BY <2>4, <2>6, ChildOf
  <2> QED
    BY <1>4, <2>5, <2>7, ArenaNumbers DEF Enter
<1> QED
  BY <1>5, <1>6

\* So is what a path of two names leads to.
LEMMA CopyTwo ==
  ASSUME NEW f, Arena(f), NEW calls, NEW g, Restored(f, calls, g), Arena(g), NEW x, NEW y,
         NEW k, k = Resolve(g, Root, <<x, y>>), NEW r, r = Resolve(f, Root, <<x, y>>)
  PROVE  /\ k # NoNode => k \in 1 .. Len(g.nodes) /\ calls[k].node = r /\ r # NoNode
         /\ r # NoNode => k # NoNode
<1>1. PICK e, d : e = Enter(g, Root, x) /\ d = Enter(f, Root, x)
  OBVIOUS
<1>2. k = Enter(g, e, y) /\ r = Enter(f, d, y)
  BY <1>1, ResolveTwo
<1>3. Root \in 1 .. Len(g.nodes) /\ g.nodes[Root].is_dir /\ calls[Root].node = Root
  <2>1. Root \in 1 .. Len(g.nodes) /\ calls[Root].node = Root
    BY ArenaNumbers DEF Restored, Copied
  <2> QED
    BY <2>1 DEF Arena, Sound, Rooted
<1>4. (e # NoNode => calls[e].node = d) /\ (d # NoNode => e # NoNode)
  BY <1>1, <1>3, CopyEnter
<1>5. e # NoNode => e \in 1 .. Len(g.nodes) /\ g.nodes[e].is_dir
  <2>1. e # NoNode => e \in 1 .. Len(g.nodes) /\ g.nodes[e].parent = Root
    BY <1>1, <1>3, EnterIs
  <2> QED
    BY <2>1, TopIsDir
<1>6. CASE e # NoNode
  <2>1. (k # NoNode => calls[k].node = r) /\ (r # NoNode => k # NoNode)
    BY <1>2, <1>4, <1>5, <1>6, CopyEnter
  <2>2. ASSUME k # NoNode PROVE k \in 1 .. Len(g.nodes) /\ r # NoNode
    <3>1. k \in 1 .. Len(g.nodes)
      BY <1>2, <1>5, <1>6, <2>2, EnterIs
    <3>2. calls[k].node \in 1 .. Len(f.nodes)
      BY <3>1, CopyWhole DEF Whole
    <3> QED
      BY <2>1, <2>2, <3>1, <3>2, ArenaNumbers
  <2> QED
    BY <2>1, <2>2
<1>7. CASE e = NoNode
  BY <1>2, <1>4, <1>7 DEF Enter
<1> QED
  BY <1>6, <1>7

\* The accounts and homes of the image are those of the tree.
LEMMA CopySeen ==
  ASSUME NEW f, Arena(f), NEW g, g = Deserialize(Serialize(f))
  PROVE  /\ Arena(g) /\ List(g) = List(f) /\ \A u : HasHome(g, u) <=> HasHome(f, u)
<1>1. PICK calls : Restored(f, calls, g)
  BY ImageIs
<1>2. Arena(g)
  BY ImageSound
<1>3. List(g) = List(f)
  <2>1. PICK x, y : x = "etc" /\ y = "users"
    OBVIOUS
  <2>2. PICK a, b : a = Resolve(f, Root, <<x, y>>) /\ b = Resolve(g, Root, <<x, y>>)
    OBVIOUS
  <2>3. a = RegNode(f) /\ b = RegNode(g)
    BY <2>1, <2>2 DEF RegNode, REGISTRY
  <2>4. /\ b # NoNode => b \in 1 .. Len(g.nodes) /\ calls[b].node = a /\ a # NoNode
        /\ a # NoNode => b # NoNode
    BY <1>1, <1>2, <2>2, CopyTwo
  <2>5. CASE b # NoNode
    <3>1. g.nodes[b].is_dir = f.nodes[a].is_dir /\ g.nodes[b].data = f.nodes[a].data
      BY <1>1, <2>4, <2>5, CopyWhole DEF Whole
    <3> QED
      BY <2>3, <2>4, <2>5, <3>1, ListIs
  <2>6. CASE b = NoNode
    BY <2>3, <2>4, <2>6, ListIs
  <2> QED
    BY <2>5, <2>6
<1>4. ASSUME NEW u PROVE HasHome(g, u) <=> HasHome(f, u)
  <2>1. PICK x : x = "home"
    OBVIOUS
  <2>2. PICK a, b : a = Resolve(f, Root, <<x, u>>) /\ b = Resolve(g, Root, <<x, u>>)
    OBVIOUS
  <2>3. (b # NoNode => a # NoNode) /\ (a # NoNode => b # NoNode)
    BY <1>1, <1>2, <2>2, CopyTwo
  <2> QED
    BY <2>1, <2>2, <2>3 DEF HasHome, Home
<1> QED
  BY <1>2, <1>3, <1>4

\* Only what lies below the root is written, each node once.
LEMMA ImageSize ==
  ASSUME NEW f, Arena(f)
  PROVE  Len(Serialize(f)) <= Cardinality(InTree(f)) /\ Cardinality(InTree(f)) \in Nat
<1>1. PICK calls, g : Restored(f, calls, g) /\ g = Deserialize(Serialize(f))
  BY ImageIs
<1>2. /\ Copied(f, calls, g.nodes) /\ Len(Serialize(f)) = Len(calls)
      /\ Len(g.nodes) = Len(calls) /\ Arena(g)
  BY <1>1, ImageSound DEF Restored, Copied
<1>3. Len(f.nodes) \in Nat /\ Len(g.nodes) \in Nat /\ calls[Root].node = Root
  BY <1>2, ArenaNumbers DEF Copied
<1>4. ASSUME NEW j \in 1 .. Len(g.nodes) PROVE calls[j].node \in InTree(f)
  <2> DEFINE Out == { k \in 1 .. Len(g.nodes) : calls[k].node \notin InTree(f) }
  <2>1. ASSUME Out # {} PROVE FALSE
    <3>1. PICK k \in Out : \A l \in Out : k <= l
      <4>1. Out \in SUBSET Nat
        BY <1>3
      <4> HIDE DEF Out
      <4> QED
        BY <2>1, <4>1, MinIs
    <3>2. k \in 1 .. Len(g.nodes) /\ calls[k].node \notin InTree(f)
      BY <3>1
    <3>3. k # Root
      BY <1>3, <3>2, RootInTree
    <3>4. Lies(f, calls, g.nodes, k)
      BY <1>2, <3>2, <3>3, CopyPlace
    <3>5. PICK p, c, d : p = g.nodes[k].parent /\ c = calls[k].node /\ d = calls[p].node
      OBVIOUS
    <3>6. /\ p \in 1 .. Len(g.nodes) /\ p < k /\ c # Root /\ f.nodes[c].parent = d
          /\ d \in 1 .. Len(f.nodes)
      BY <3>4, <3>5 DEF Lies
    <3>7. PICK m : EntryNo(f, calls, g.nodes, k, m)
      BY <3>4 DEF Lies
    <3>8. m \in 1 .. Len(Entries(f, d)) /\ c = Entries(f, d)[m]
      BY <3>5, <3>7 DEF EntryNo
    <3>9. c \in Range(Entries(f, d))
      BY <3>6, <3>8, EntriesAre, RangeIs
    <3>10. c \in Range(f.nodes[d].children)
      BY <3>9, EmptyIsSeq, RangeIs DEF Entries
    <3>11. c \in 1 .. Len(f.nodes)
      BY <3>6, <3>9, EntriesAre
    <3>12. p \notin Out
      BY <1>3, <3>1, <3>2, <3>6
    <3>13. d \in InTree(f)
      BY <3>5, <3>6, <3>12
    <3>14. c \in InTree(f)
      BY <3>6, <3>10, <3>11, <3>13, InTreeStep
    <3> QED
      BY <3>2, <3>5, <3>14
  <2> QED
    BY <2>1
<1>5. PICK S, T, L : S = 1 .. L /\ T = InTree(f) /\ L = Len(calls)
  OBVIOUS
<1>6. IsFiniteSet(T) /\ Cardinality(T) \in Nat
  <2>1. T \subseteq 1 .. Len(f.nodes)
    BY <1>5, InTreeIs
  <2>2. IsFiniteSet(1 .. Len(f.nodes))
    BY <1>3, FS_Interval
  <2>3. IsFiniteSet(T)
    BY <2>1, <2>2, FS_Subset
  <2> QED
    BY <2>3, FS_CardinalityType
<1>7. IsFiniteSet(S) /\ Cardinality(S) = L /\ L \in Nat
  <2>0. L \in Nat
    BY <1>2, <1>3, <1>5
  <2>1. IsFiniteSet(1 .. L) /\ Cardinality(1 .. L) = IF 1 > L THEN 0 ELSE L - 1 + 1
    BY <2>0, FS_Interval
  <2> QED
    BY <1>5, <2>0, <2>1
<1>8. ASSUME Cardinality(T) < L PROVE FALSE
  <2>1. PICK F : F = [j \in S |-> calls[j].node]
    OBVIOUS
  <2>2. F \in [S -> T]
    BY <1>2, <1>4, <1>5, <2>1
  <2>3. PICK x \in S, y \in S : x # y /\ F[x] = F[y]
    BY <1>6, <1>7, <1>8, <2>2, FS_PigeonHole
  <2>4. calls[x].node = calls[y].node
    BY <2>1, <2>3
  <2> QED
    BY <1>2, <1>5, <2>3, <2>4, WrittenOnce
<1> QED
  BY <1>2, <1>5, <1>6, <1>7, <1>8

-----------------------------------------------------------------------------
(* The fresh tree *)

\* Nothing but d lies in the directory x of the root.
OnlyHome(f, x, d) ==
  \A j \in 1 .. Len(f.nodes) :
    LET h == f.nodes[j].parent
    IN  h # Root /\ f.nodes[h].parent = Root /\ f.nodes[h].name = x => f.nodes[j].name = d

\* What is new has that name and lies there.
NewIn(f, g, p, name) ==
  \A j \in 1 .. Len(g.nodes) :
    j \in 1 .. Len(f.nodes) \/ (g.nodes[j].parent = p /\ g.nodes[j].name = name)
MayAdd(f, p, name, x, d) ==
  p # Root /\ f.nodes[p].parent = Root /\ f.nodes[p].name = x => name = d

\* An addition elsewhere leaves the only home the only one.
LEMMA OnlyHomeOn ==
  ASSUME NEW f, NEW g, Arena(f), Arena(g), Extends(f, g), NEW x, NEW d, OnlyHome(f, x, d),
         NEW p \in 1 .. Len(f.nodes), NEW name, NewIn(f, g, p, name), MayAdd(f, p, name, x, d)
  PROVE  OnlyHome(g, x, d)
<1>1. ASSUME NEW j \in 1 .. Len(g.nodes), NEW h, h = g.nodes[j].parent, h # Root,
             g.nodes[h].parent = Root, g.nodes[h].name = x
      PROVE  g.nodes[j].name = d
  <2>1. CASE j \in 1 .. Len(f.nodes)
    <3>1. h = f.nodes[j].parent /\ g.nodes[j].name = f.nodes[j].name
      BY <1>1, <2>1 DEF Extends
    <3>2. h \in 1 .. Len(f.nodes)
      BY <2>1, <3>1, ParentIs
    <3>3. f.nodes[h].parent = Root /\ f.nodes[h].name = x
      BY <1>1, <3>2 DEF Extends
    <3> QED
      BY <1>1, <2>1, <3>1, <3>3 DEF OnlyHome
  <2>2. CASE j \notin 1 .. Len(f.nodes)
    <3>1. h = p /\ g.nodes[j].name = name
      BY <1>1, <2>2 DEF NewIn
    <3>2. f.nodes[p].parent = Root /\ f.nodes[p].name = x
      BY <1>1, <3>1 DEF Extends
    <3> QED
      BY <1>1, <3>1, <3>2 DEF MayAdd
  <2> QED
    BY <2>1, <2>2
<1> QED
  BY <1>1 DEF OnlyHome

\* A turn of mkdir_p makes at most the directory of that name.
LEMMA DescendNew ==
  ASSUME NEW at, at = [fs |-> at.fs, cur |-> at.cur], Arena(at.fs),
         at.cur \in 1 .. Len(at.fs.nodes), NEW name
  PROVE  NewIn(at.fs, Descend(at, name).fs, at.cur, name)
<1>1. PICK f, i : f = at.fs /\ i = at.cur
  OBVIOUS
<1>2. Arena(f) /\ i \in 1 .. Len(f.nodes) /\ Len(f.nodes) \in Nat /\ at = [fs |-> f, cur |-> i]
  BY <1>1, ArenaNumbers
<1>3. CASE Child(f, i, name) # NoNode
  <2>1. Descend(at, name).fs = f
    BY <1>1, <1>2, <1>3 DEF Descend
  <2> QED
    BY <1>1, <2>1 DEF NewIn
<1>4. CASE Child(f, i, name) = NoNode
  <2>0. PICK n : n = Len(f.nodes) + 1
    OBVIOUS
  <2>1. PICK d \in BOOLEAN : d = TRUE
    OBVIOUS
  <2>2. PICK g : g = Add(f, i, name, d)
    OBVIOUS
  <2>3. Descend(at, name) = [fs |-> g, cur |-> n]
    BY <1>1, <1>4, <2>0, <2>1, <2>2 DEF Descend
  <2>4. NoEntry(f, i, name)
    BY <1>2, <1>4, ChildIs DEF NoEntry
  <2>5. Added(f, g, i, name, d)
    BY <1>2, <2>1, <2>2, <2>4, AddIs
  <2>6. Len(g.nodes) = n /\ g.nodes[n].name = name /\ g.nodes[n].parent = i
    BY <2>0, <2>5 DEF Added
  <2>7. \A j \in 1 .. n : j \in 1 .. Len(f.nodes) \/ j = n
    BY <1>2, <2>0
  <2>8. NewIn(f, g, i, name)
    BY <2>6, <2>7 DEF NewIn
  <2> QED
    BY <1>1, <2>3, <2>8
<1> QED
  BY <1>3, <1>4

\* mkdir_p of a path of two names, and of one.
LEMMA MkdirOnlyTwo ==
  ASSUME NEW f, Arena(f), NEW a, NEW b, OnlyHome(f, a, b)
  PROVE  OnlyHome(MkdirP(f, Root, <<a, b>>), a, b)
<1>1. PICK p : p = <<a, b>>
  OBVIOUS
<1>2. Len(p) \in Nat /\ Len(p) = 2 /\ p[1] = a /\ p[2] = b
  BY <1>1
<1>3. PICK h : MkdirWalk(f, Root, p, h)
  BY <1>2, MkdirSteps
<1>4. PICK x, y, z : x = h[0] /\ y = h[1] /\ z = h[2]
  OBVIOUS
<1>5. /\ x = [fs |-> f, cur |-> Root] /\ y = Descend(x, a) /\ z = Descend(y, b)
      /\ MkdirP(f, Root, p) = z.fs
  BY <1>2, <1>3, <1>4 DEF MkdirWalk
<1>6. x.fs = f /\ x.cur = Root /\ Root \in 1 .. Len(f.nodes) /\ x = [fs |-> x.fs, cur |-> x.cur]
  BY <1>5, ArenaNumbers
<1>7. /\ y = [fs |-> y.fs, cur |-> y.cur] /\ Arena(y.fs) /\ y.cur \in 1 .. Len(y.fs.nodes)
      /\ Extends(f, y.fs)
  BY <1>5, <1>6, DescendIs DEF Paved
<1>8. NewIn(f, y.fs, Root, a)
  BY <1>5, <1>6, DescendNew
<1>9. OnlyHome(y.fs, a, b)
  BY <1>6, <1>7, <1>8, OnlyHomeOn DEF MayAdd
<1>10. Arena(z.fs) /\ Extends(y.fs, z.fs)
  BY <1>5, <1>7, DescendIs DEF Paved
<1>11. NewIn(y.fs, z.fs, y.cur, b)
  BY <1>5, <1>7, DescendNew
<1>12. OnlyHome(z.fs, a, b)
  BY <1>7, <1>9, <1>10, <1>11, OnlyHomeOn DEF MayAdd
<1> QED
  BY <1>1, <1>5, <1>12

\* A directory of the root has no homes yet.
LEMMA MkdirOnlyOne ==
  ASSUME NEW f, Arena(f), NEW c, NEW a, NEW b, OnlyHome(f, a, b)
  PROVE  OnlyHome(MkdirP(f, Root, <<c>>), a, b)
<1>1. PICK p : p = <<c>>
  OBVIOUS
<1>2. Len(p) \in Nat /\ Len(p) = 1 /\ p[1] = c
  BY <1>1
<1>3. PICK h : MkdirWalk(f, Root, p, h)
  BY <1>2, MkdirSteps
<1>4. PICK x, y : x = h[0] /\ y = h[1]
  OBVIOUS
<1>5. x = [fs |-> f, cur |-> Root] /\ y = Descend(x, c) /\ MkdirP(f, Root, p) = y.fs
  BY <1>2, <1>3, <1>4 DEF MkdirWalk
<1>6. x.fs = f /\ x.cur = Root /\ Root \in 1 .. Len(f.nodes) /\ x = [fs |-> x.fs, cur |-> x.cur]
  BY <1>5, ArenaNumbers
<1>7. Arena(y.fs) /\ Extends(f, y.fs)
  BY <1>5, <1>6, DescendIs DEF Paved
<1>8. NewIn(f, y.fs, Root, c)
  BY <1>5, <1>6, DescendNew
<1>9. OnlyHome(y.fs, a, b)
  BY <1>6, <1>7, <1>8, OnlyHomeOn DEF MayAdd
<1> QED
  BY <1>1, <1>5, <1>9

\* A file in a directory of a directory of the root.
LEMMA WriteOnly ==
  ASSUME NEW f, Arena(f), NEW a, NEW b, NEW name, NEW data, NEW x, NEW d, OnlyHome(f, x, d)
  PROVE  OnlyHome(Write(f, <<a, b>>, name, data), x, d)
<1>1. PICK dir, p, g : /\ dir = <<a, b>> /\ p = Resolve(f, Root, dir)
                       /\ g = Write(f, dir, name, data)
  OBVIOUS
<1>2. Len(dir) \in Nat
  BY <1>1
<1>3. p # NoNode => /\ PlaceFor(f, p) /\ p \in 1 .. Len(f.nodes) /\ f.nodes[p].parent # Root
  BY <1>1, DeepPlace
<1>4. IF CanWrite(f, p, name) THEN Written(f, g, p, name, data) ELSE g = f
  BY <1>1, <1>2, <1>3, WriteIs
<1>5. CASE CanWrite(f, p, name)
  <2>1. PICK c : c = Child(g, p, name)
    OBVIOUS
  <2>2. /\ p # NoNode /\ Arena(g) /\ Extends(f, g) /\ c \in Range(g.nodes[p].children)
        /\ c # NoNode /\ 1 .. Len(g.nodes) \subseteq 1 .. Len(f.nodes) \cup {c}
    BY <1>4, <1>5, <2>1 DEF Written
  <2>3. p \in 1 .. Len(g.nodes) /\ p \in 1 .. Len(f.nodes)
    <3>1. Len(f.nodes) \in Nat /\ Len(g.nodes) \in Nat /\ Len(f.nodes) <= Len(g.nodes)
      BY <2>2, ArenaNumbers DEF Extends
    <3> QED
      BY <1>3, <2>2, <3>1
  <2>4. g.nodes[c].parent = p /\ g.nodes[c].name = name
    BY <2>1, <2>2, <2>3, ChildIs
  <2>5. NewIn(f, g, p, name)
    BY <2>2, <2>4 DEF NewIn
  <2>6. MayAdd(f, p, name, x, d)
    BY <1>3, <2>2 DEF MayAdd
  <2> QED
    BY <1>1, <2>2, <2>3, <2>5, <2>6, OnlyHomeOn
<1>6. CASE ~CanWrite(f, p, name)
  BY <1>1, <1>4, <1>6
<1> QED
  BY <1>5, <1>6

\* Nor has a file of the home.
LEMMA SeededOnly ==
  ASSUME NEW f, Arena(f), NEW u, NEW name, NEW data, NEW x, NEW d, OnlyHome(f, x, d)
  PROVE  OnlyHome(SeededFile(f, u, name, data), x, d)
BY WriteOnly DEF SeededFile, Home

\* The fresh tree: no account, and the home of its user.
LEMMA FreshSeen ==
  /\ Session(Fresh) /\ Housed(Fresh) /\ List(Fresh) = << >>
  /\ \A u : HasHome(Fresh, u) <=> u = Default
  /\ Fresh.cwd \in InTree(Fresh)
<1>1. PICK x, d : x = "home" /\ d = Default
  OBVIOUS
<1>2. PICK a, b, c, e, f :
         /\ a = MkdirP(Empty, Root, Home(d))
         /\ b = SeededFile(a, d, ".veilrc", <<"default">>)
         /\ c = SeededFile(b, d, ".history", << >>)
         /\ e = MkdirP(c, Root, <<"etc">>)
         /\ f = [e EXCEPT !.cwd = Resolve(e, Root, Home(d))]
  OBVIOUS
<1>3. c = SeedHome(Empty, d) /\ f = Fresh
  BY <1>1, <1>2 DEF SeedHome, SeededFile, Fresh
<1>4. Arena(Empty)
  BY EmptySession DEF Session
<1>5. Arena(a) /\ EtcKept(Empty, a) /\ HasHome(a, d)
  BY <1>2, <1>4, HomeMade
<1>6. Arena(b) /\ EtcKept(a, b)
  BY <1>2, <1>5, SeededSound
<1>7. Arena(c) /\ EtcKept(b, c)
  BY <1>2, <1>6, SeededSound
<1>8. Arena(e) /\ EtcKept(c, e)
  BY <1>2, <1>7, EtcMade
<1>9. HasHome(e, d)
  BY <1>5, <1>6, <1>7, <1>8, HomeKept DEF EtcKept
<1>10. List(e) = << >>
  BY <1>4, <1>5, <1>6, <1>7, <1>8, ListEmpty, RegistryKept
<1>11. OnlyHome(e, x, d)
  <2>1. OnlyHome(Empty, x, d)
    BY DEF OnlyHome, Empty, NewNode, Root
  <2>2. OnlyHome(a, x, d)
    BY <1>1, <1>2, <1>4, <2>1, MkdirOnlyTwo DEF Home
  <2>3. OnlyHome(b, x, d)
    BY <1>2, <1>5, <2>2, SeededOnly
  <2>4. OnlyHome(c, x, d)
    BY <1>2, <1>6, <2>3, SeededOnly
  <2> QED
    BY <1>2, <1>7, <2>4, MkdirOnlyOne
<1>12. ASSUME NEW u, HasHome(e, u) PROVE u = d
  <2>1. PICK r : r = Resolve(e, Root, <<x, u>>)
    OBVIOUS
  <2>2. r # NoNode
    BY <1>1, <1>12, <2>1 DEF HasHome, Home
  <2>3. PICK h : h = e.nodes[r].parent
    OBVIOUS
  <2>4. /\ r \in 1 .. Len(e.nodes) /\ e.nodes[r].name = u /\ h # Root
        /\ e.nodes[h].parent = Root /\ e.nodes[h].name = x
    BY <1>8, <2>1, <2>2, <2>3, DeepPlace
  <2> QED
    BY <1>11, <2>3, <2>4 DEF OnlyHome
<1>13. Session(f)
  BY <1>2, <1>8, <1>9, GoHome
<1>14. Arena(f) /\ f.nodes = e.nodes /\ f.cwd = Resolve(e, Root, Home(d))
  BY <1>2, <1>8, <1>13 DEF Session, Arena
<1>15. List(f) = << >> /\ \A u : HasHome(f, u) <=> HasHome(e, u)
  BY <1>8, <1>10, <1>14, SeenSame
<1>16. f.cwd \in InTree(f)
  <2>1. f.cwd = Resolve(f, Root, <<x, d>>)
    BY <1>1, <1>8, <1>14, PathSame DEF Home
  <2>2. Resolve(f, Root, <<x, d>>) # NoNode
    BY <1>1, <1>9, <1>15 DEF HasHome, Home
  <2> QED
    BY <1>14, <2>1, <2>2, PathInTree
<1> QED
  BY <1>1, <1>3, <1>9, <1>12, <1>13, <1>15, <1>16, NoneHoused

-----------------------------------------------------------------------------
(* The steps, sorted *)

\* The inductive invariant of the accounts, in memory and on the disk.
HousedOn(image) == image = << >> \/ Housed(Deserialize(image))
Full == Inv /\ (tree_ok => Housed(fs)) /\ (disk_ok => HousedOn(disk))

\* A call that does not persist, and one that does.
Quiet ==
  /\ on /\ on' = on /\ disk' = disk /\ disk_ok' = disk_ok /\ tree_ok' = tree_ok
  /\ current' \in User /\ Altered(fs, fs') /\ List(fs') = List(fs)
Stored == on /\ \E f : Altered(fs, f) /\ Persist(f, tree_ok)

\* Which step is which, in a sound tree.
LEMMA StepIs ==
  ASSUME Full, tree_ok, Next
  PROVE  Boot \/ PowerOff \/ Quiet \/ Stored
<1>0. /\ Session(fs) /\ Arena(fs) /\ fs.cwd \in 1 .. Len(fs.nodes)
      /\ Root \in 1 .. Len(fs.nodes) /\ Housed(fs) /\ current \in User
  BY ArenaNumbers DEF Full, Inv, Session, AtHome
<1>1. CASE PrefSet
  <2>1. PICK f : f = Write(fs, Home(current), ".veilrc", <<"changed">>) /\ Persist(f, tree_ok)
    BY <1>1 DEF PrefSet
  <2>2. Altered(fs, f)
    BY <1>0, <2>1, HomeWrite, KeptAltered
  <2> QED
    BY <1>1, <2>1, <2>2 DEF Stored, PrefSet, Fits
<1>2. CASE HistoryAppend
  <2>1. PICK data : fs' = Write(fs, Home(current), ".history", data)
    BY <1>2 DEF HistoryAppend
  <2>2. Altered(fs, fs') /\ List(fs') = List(fs)
    BY <1>0, <2>1, HomeWrite, KeptAltered
  <2> QED
    BY <1>0, <1>2, <2>2 DEF Quiet, HistoryAppend, Fits
<1>3. ASSUME NEW u \in User, UserAdd(u) PROVE Stored
  <2>1. PICK f : f = SeedHome(StoreList(fs, Append(List(fs), u)), u) /\ Persist(f, tree_ok)
    BY <1>3 DEF UserAdd
  <2>2. u \notin Range(List(fs))
    BY <1>3 DEF UserAdd, Registered
  <2>3. Altered(fs, f)
    BY <1>0, <2>1, <2>2, AddAltered
  <2> QED
    BY <1>3, <2>1, <2>3 DEF Stored, UserAdd, Fits
<1>4. ASSUME NEW u \in User, Su(u) PROVE Quiet
  <2>1. Altered(fs, fs') /\ List(fs') = List(fs)
    <3>1. CASE HasHome(fs, u) /\ ~IsFile(fs, Home(u))
      <4>1. fs' = [fs EXCEPT !.cwd = Resolve(fs, Root, Home(u))]
        BY <1>4, <3>1 DEF Su
      <4> QED
        BY <1>0, <3>1, <4>1, SuAltered
    <3>2. CASE ~(HasHome(fs, u) /\ ~IsFile(fs, Home(u)))
      <4>1. fs' = fs
        BY <1>4, <3>2 DEF Su
      <4> QED
        BY <1>0, <4>1, EtcKeptSelf, KeptAltered
    <3> QED
      BY <3>1, <3>2
  <2> QED
    BY <1>4, <2>1 DEF Quiet, Su
<1>5. ASSUME NEW u \in User, NEW purge \in BOOLEAN, UserDel(u, purge) PROVE Stored
  <2>1. PICK g : g = StoreList(fs, Without(List(fs), u))
    OBVIOUS
  <2>2. PICK f : f = (IF purge THEN Purge(g, u) ELSE g) /\ Persist(f, tree_ok)
    BY <1>5, <2>1 DEF UserDel
  <2>3. u \in Range(List(fs)) /\ Len(List(fs)) > 1
    BY <1>5 DEF UserDel, Registered
  <2>4. Altered(fs, f)
    BY <1>0, <2>1, <2>2, <2>3, DelAltered
  <2> QED
    BY <1>5, <2>2, <2>4 DEF Stored, UserDel
<1>6. ASSUME NEW p \in Package, PkgInstall(p) PROVE Quiet
  <2>1. Arena(fs') /\ EtcKept(fs, fs')
    BY <1>0, <1>6, InstalledIs DEF PkgInstall
  <2>2. Altered(fs, fs') /\ List(fs') = List(fs)
    BY <1>0, <2>1, KeptAltered
  <2> QED
    BY <1>0, <1>6, <2>2 DEF Quiet, PkgInstall, Fits
<1>7. ASSUME NEW p \in Package, PkgRemove(p) PROVE Quiet
  <2>1. /\ fs' = RemoveAll(fs, App(p), EntryNames(fs, Resolve(fs, Root, App(p))))
        /\ Resolve(fs, Root, App(p)) # NoNode
    BY <1>7 DEF PkgRemove
  <2>2. Altered(fs, fs') /\ List(fs') = List(fs)
    BY <1>0, <2>1, RemoveAltered
  <2> QED
    BY <1>0, <1>7, <2>2 DEF Quiet, PkgRemove
<1>8. ASSUME NEW m \in MountPoint, Mount(m) PROVE Quiet
  <2>1. PICK start : start = IF m.start = "/" THEN Root ELSE fs.cwd
    OBVIOUS
  <2>2. start \in 1 .. Len(fs.nodes)
    BY <1>0, <2>1
  <2>3. Len(m.path) \in Nat
    <3>1. m.path \in Seq(STRING)
      BY UsersAssumption
    <3> QED
      BY <3>1
  <2>4. fs' = MkdirP(fs, start, m.path)
    BY <1>8, <2>1 DEF Mount
  <2>5. Arena(fs') /\ EtcKept(fs, fs')
    BY <1>0, <2>2, <2>3, <2>4, MkdirKeeps
  <2>6. Altered(fs, fs') /\ List(fs') = List(fs)
    BY <1>0, <2>5, KeptAltered
  <2> QED
    BY <1>0, <1>8, <2>6 DEF Quiet, Mount, Fits
<1> QED
  BY <1>1, <1>2, <1>3, <1>4, <1>5, <1>6, <1>7, <1>8 DEF Next

\* Boot loads the image, or makes a fresh tree.
Loaded(d) ==
  /\ Parses(disk) /\ disk' = disk /\ on' = TRUE /\ tree_ok' = disk_ok /\ disk_ok' = disk_ok
  /\ disk_ok => /\ List(fs') = List(d) /\ \A u : HasHome(fs', u) <=> HasHome(d, u)
                /\ fs'.cwd \in InTree(fs')
\* What the session starts with is what is seen of the image.
LEMMA LoadedIs ==
  ASSUME NEW d, Arena(d), NEW g, g = Start(d)
  PROVE  /\ List(g) = List(d) /\ \A u : HasHome(g, u) <=> HasHome(d, u)
         /\ g.cwd \in InTree(g)
<1>1. PICK c : c = IF HasHome(d, Default) THEN Resolve(d, Root, Home(Default)) ELSE Root
  OBVIOUS
<1>2. g.nodes = d.nodes /\ g.cwd = c /\ Arena(g)
  <2>1. g.nodes = d.nodes /\ g.cwd = c
    BY <1>1 DEF Arena, Start
  <2> QED
    BY <2>1, LoadedSession DEF Session
<1>3. List(g) = List(d) /\ \A u : HasHome(g, u) <=> HasHome(d, u)
  BY <1>2, SeenSame
<1>4. CASE HasHome(d, Default)
  <2>1. PICK x : x = "home"
    OBVIOUS
  <2>2. c = Resolve(d, Root, <<x, Default>>) /\ c # NoNode
    BY <1>1, <1>4, <2>1 DEF Home, HasHome
  <2>3. c = Resolve(g, Root, <<x, Default>>)
    <3>1. Resolve(g, Root, <<x, Default>>) = Resolve(d, Root, <<x, Default>>)
      BY <1>2, PathSame
    <3> QED
      BY <2>2, <3>1
  <2>4. c \in InTree(g)
    BY <1>2, <2>2, <2>3, PathInTree
  <2> QED
    BY <1>2, <1>3, <2>4
<1>5. CASE ~HasHome(d, Default)
  BY <1>1, <1>2, <1>3, <1>5, RootInTree
<1> QED
  BY <1>4, <1>5
\* init stores a fresh tree, if no whole image is there, or loads what parses.
LEMMA BootIs ==
  ASSUME Full, Boot
  PROVE  /\ ~on
         /\ \/ (disk_ok => disk = << >>) /\ Persist(Fresh, TRUE)
            \/ Loaded(Deserialize(disk))
<1>1. CASE ~Parses(disk)
  <2>1. disk_ok => disk = << >>
    BY <1>1 DEF Full, Inv, Intact
  <2> QED
    BY <1>1, <2>1 DEF Boot
<1>2. CASE Parses(disk)
  <2>1. PICK d : d = Deserialize(disk)
    OBVIOUS
  <2>2. /\ fs' = Start(d) /\ on' = TRUE /\ tree_ok' = disk_ok
        /\ disk' = disk /\ disk_ok' = disk_ok /\ ~on
    BY <1>2, <2>1 DEF Boot, Start
  <2>3. ASSUME disk_ok PROVE Arena(d)
    BY <1>2, <2>1, <2>3 DEF Full, Inv, Intact, Parses
  <2>4. ASSUME disk_ok
        PROVE  /\ List(fs') = List(d) /\ \A u : HasHome(fs', u) <=> HasHome(d, u)
               /\ fs'.cwd \in InTree(fs')
    <3>1. PICK g : g = Start(d)
      OBVIOUS
    <3>2. /\ List(g) = List(d) /\ \A u : HasHome(g, u) <=> HasHome(d, u)
          /\ g.cwd \in InTree(g)
      BY <2>3, <2>4, <3>1, LoadedIs
    <3>3. fs' = g
      BY <2>2, <3>1
    <3> QED
      BY <3>2, <3>3
  <2> QED
    BY <1>2, <2>1, <2>2, <2>4 DEF Loaded
<1> QED
  BY <1>1, <1>2

\* Housed is about the accounts and homes only.
LEMMA HousedSame ==
  ASSUME NEW f, NEW g, List(g) = List(f), \A u : HasHome(g, u) <=> HasHome(f, u), Housed(f)
  PROVE  Housed(g)
BY DEF Housed

\* What Full says of the trees after a step.
AllHoused == (tree_ok' => Housed(fs')) /\ (disk_ok' => HousedOn(disk'))

\* What a stored tree leaves on the disk.
LEMMA SavedHoused ==
  ASSUME Full, NEW f, NEW ok \in BOOLEAN, ok => Session(f) /\ Housed(f), Saved(f, ok)
  PROVE  AllHoused
<1>1. PICK image, g : image = Serialize(f) /\ g = Deserialize(image)
  OBVIOUS
<1>2. ASSUME ok PROVE HousedOn(image)
  <2>1. List(g) = List(f) /\ \A u : HasHome(g, u) <=> HasHome(f, u)
    BY <1>1, <1>2, CopySeen DEF Session
  <2>2. Housed(g)
    BY <1>2, <2>1, HousedSame
  <2> QED
    BY <1>1, <2>2 DEF HousedOn
<1>3. tree_ok' => Housed(fs')
  BY DEF Saved
<1>4. disk_ok' => HousedOn(disk')
  <2>1. CASE disk' = image /\ disk_ok' = ok
    BY <1>2, <2>1
  <2>2. CASE disk' = disk /\ disk_ok' = disk_ok
    BY <2>2 DEF Full
  <2>3. CASE disk_ok' = FALSE
    BY <2>3
  <2> QED
    BY <1>1, <2>1, <2>2, <2>3 DEF Saved
<1> QED
  BY <1>3, <1>4 DEF AllHoused

\* The tree of a machine that is off.
LEMMA OffHoused == ASSUME Off PROVE Housed(fs')
BY ListEmpty, NoneHoused DEF Off

\* What persist leaves, in memory and on the disk.
LEMMA PersistHoused ==
  ASSUME Full, NEW f, NEW ok \in BOOLEAN, ok => Session(f) /\ Housed(f), Persist(f, ok)
  PROVE  AllHoused
<1>1. CASE Saved(f, ok)
  BY <1>1, SavedHoused
<1>2. CASE Cut
  BY <1>2, OffHoused DEF Cut, AllHoused
<1> QED
  BY <1>1, <1>2, PersistIs

\* Every step keeps Full.
LEMMA FullStable == ASSUME Full, [Next]_vars PROVE Full'
<1>0. tree_ok \in BOOLEAN
  BY DEF Full, Inv
<1>1. Inv'
  BY Stable DEF Full
<1>2. AllHoused
  <2>1. CASE UNCHANGED vars
    BY <2>1 DEF vars, Full, AllHoused
  <2>2. CASE Boot
    <3>1. CASE Persist(Fresh, TRUE)
      BY <3>1, FreshSeen, PersistHoused
    <3>2. CASE Loaded(Deserialize(disk))
      <4>1. ASSUME disk_ok PROVE Housed(fs') /\ HousedOn(disk)
        <5>1. Housed(Deserialize(disk)) /\ HousedOn(disk)
          <6>1. HousedOn(disk) /\ disk # << >>
            BY <3>2, <4>1 DEF Full, Loaded, Parses
          <6> QED
            BY <6>1 DEF HousedOn
        <5> QED
          BY <3>2, <4>1, <5>1, HousedSame DEF Loaded
      <4> QED
        BY <3>2, <4>1 DEF Loaded, AllHoused
    <3> QED
      BY <2>2, <3>1, <3>2, BootIs
  <2>3. CASE PowerOff
    BY <2>3, OffHoused DEF PowerOff, Full, AllHoused
  <2>4. CASE tree_ok /\ Quiet
    BY <2>4 DEF Quiet, Altered, Full, AllHoused
  <2>5. CASE tree_ok /\ Stored
    <3>1. PICK f : Altered(fs, f) /\ Persist(f, tree_ok)
      BY <2>5 DEF Stored
    <3> QED
      BY <1>0, <3>1, PersistHoused DEF Altered
  <2>6. CASE ~tree_ok /\ Working
    <3>1. CASE \E f : Persist(f, tree_ok)
      BY <1>0, <2>6, <3>1, PersistHoused
    <3>2. CASE ~\E f : Persist(f, tree_ok)
      <4>0. tree_ok = FALSE
        BY <1>0, <2>6
      <4>1. disk' = disk /\ disk_ok' = disk_ok /\ tree_ok' = FALSE
        BY <2>6, <3>2, <4>0 DEF Working
      <4>2. disk_ok' => HousedOn(disk')
        BY <4>1 DEF Full
      <4> QED
        BY <4>1, <4>2 DEF AllHoused
    <3> QED
      BY <3>1, <3>2
  <2>7. CASE Next /\ tree_ok
    BY <2>2, <2>3, <2>4, <2>5, <2>7, StepIs
  <2>8. CASE Next /\ ~tree_ok
    BY <2>2, <2>3, <2>6, <2>8, WorkIs DEF Full
  <2> QED
    BY <2>1, <2>7, <2>8
<1> QED
  BY <1>1, <1>2 DEF Full, AllHoused, HousedOn

\* Full holds at first.
LEMMA FullInitial == Init => Full
<1>1. ASSUME Init PROVE Full
  <2>1. fs = Empty /\ disk = << >>
    BY <1>1 DEF Init
  <2> QED
    BY <1>1, <2>1, Initial, ListEmpty, NoneHoused DEF Full, HousedOn
<1> QED
  BY <1>1

\* Full is invariant.
LEMMA FullInvariant == Spec => []Full
BY FullInitial, FullStable, PTL DEF Spec

-----------------------------------------------------------------------------
(* The working directory and the accounts *)

\* A purge that takes the working directory deletes its user.
CwdStep ==
  tree_ok' /\ ~Stranded /\ Stranded' =>
    \E u \in Registered : u \notin Registered' /\ fs.cwd = Resolve(fs, Root, Home(u))

\* A machine that is off is at the root.
LEMMA OffInTree == ASSUME Off PROVE fs'.cwd \in InTree(fs')
<1>1. Arena(Empty) /\ Empty.cwd = Root
  BY EmptySession DEF Session, Empty
<1> QED
  BY <1>1, RootInTree DEF Off

\* A call that goes on in the session it found.
LEMMA LedTo ==
  ASSUME Led(fs, fs')
  PROVE  CwdStep
BY DEF Led, Lost, CwdStep, Stranded, Registered

\* A call that ends inside the tree.
LEMMA InTreeTo ==
  ASSUME fs'.cwd \in InTree(fs')
  PROVE  CwdStep
BY DEF CwdStep, Stranded

\* Every step is one of these.
LEMMA CwdSteps == ASSUME Full, [Next]_vars PROVE [CwdStep]_vars
<1>1. CASE UNCHANGED vars
  BY <1>1
<1>2. CASE ~tree_ok /\ Working
  <2>1. tree_ok = FALSE
    BY <1>2 DEF Full, Inv
  <2>2. tree_ok' = FALSE \/ Cut
    <3>1. CASE \E f : Persist(f, tree_ok)
      BY <2>1, <3>1, PersistIs DEF Saved
    <3>2. CASE ~\E f : Persist(f, tree_ok)
      BY <1>2, <2>1, <3>2 DEF Working
    <3> QED
      BY <3>1, <3>2
  <2> QED
    BY <2>2, OffInTree, InTreeTo DEF Cut, CwdStep
<1>3. CASE Boot
  <2>2. CASE Persist(Fresh, TRUE)
    <3>1. CASE Saved(Fresh, TRUE)
      BY <3>1, FreshSeen, InTreeTo DEF Saved
    <3>2. CASE Cut
      BY <3>2, OffInTree, InTreeTo DEF Cut
    <3> QED
      BY <2>2, <3>1, <3>2, PersistIs
  <2>3. CASE Loaded(Deserialize(disk))
    <3>1. disk_ok => fs'.cwd \in InTree(fs')
      BY <2>3 DEF Loaded
    <3>2. tree_ok' = disk_ok
      BY <2>3 DEF Loaded
    <3> QED
      BY <3>1, <3>2 DEF CwdStep, Stranded
  <2> QED
    BY <1>3, <2>2, <2>3, BootIs
<1>4. CASE PowerOff
  BY <1>4, OffInTree, InTreeTo DEF PowerOff
<1>5. CASE Quiet
  BY <1>5, LedTo DEF Quiet, Altered
<1>6. CASE Stored
  <2>1. PICK f : Altered(fs, f) /\ Persist(f, tree_ok)
    BY <1>6 DEF Stored
  <2>2. CASE Saved(f, tree_ok)
    BY <2>1, <2>2, LedTo DEF Saved, Altered
  <2>3. CASE Cut
    BY <2>3, OffInTree, InTreeTo DEF Cut
  <2> QED
    BY <2>1, <2>2, <2>3, PersistIs
<1> QED
  BY <1>1, <1>2, <1>3, <1>4, <1>5, <1>6, StepIs, WorkIs DEF Full

\* For any accounts, packages and mount points: only a purge that deletes the
\* account whose home it is takes the working directory out of the tree, unless the
\* tree comes from an image that was not written to its end.
THEOREM OnlyPurgeStrands == Spec => CwdLostByPurge
<1>1. ASSUME Full, [Next]_vars
      PROVE  [tree_ok' /\ ~Stranded /\ Stranded' =>
               \E u \in Registered : /\ u \notin Registered'
                                     /\ fs.cwd = Resolve(fs, Root, Home(u))]_vars
  BY <1>1, CwdSteps DEF CwdStep
<1> QED
  BY <1>1, FullInvariant, PTL DEF Spec, CwdLostByPurge

-----------------------------------------------------------------------------
\* What is seen of a tree is the same if the list and the homes are.
LEMMA SeenIs ==
  ASSUME NEW f, NEW g, List(g) = List(f), \A u : HasHome(g, u) <=> HasHome(f, u)
  PROVE  Seen(g) = Seen(f)
BY DEF Seen

\* What load will see on the disk.
OnDisk(image) == IF image = << >> THEN NoAccounts ELSE Seen(Deserialize(image))
Room(f) == Cardinality(InTree(f)) <= REGION

\* The fresh tree is that of no accounts.
LEMMA FreshView == Seen(Fresh) = NoAccounts
<1>1. Range(List(Fresh)) = {}
  BY FreshSeen, EmptyIsSeq, RangeIs
<1>2. {u \in User : HasHome(Fresh, u)} = {Default}
  BY FreshSeen, UsersAssumption
<1> QED
  BY <1>1, <1>2 DEF Seen, NoAccounts

\* What persist leaves on the disk, if it is not cut off.
LEMMA SavedView ==
  ASSUME NEW f, Session(f), NEW ok, Saved(f, ok), disk_ok'
  PROVE  OnDisk(disk') \in {OnDisk(disk), Seen(f)} /\ (Room(f) => OnDisk(disk') = Seen(f))
<1>1. PICK image, g : image = Serialize(f) /\ g = Deserialize(image)
  OBVIOUS
<1>2. Seen(g) = Seen(f) /\ image # << >>
  <2>1. List(g) = List(f) /\ \A u : HasHome(g, u) <=> HasHome(f, u)
    BY <1>1, CopySeen DEF Session
  <2>2. Parses(image)
    BY <1>1, ImageParses DEF Session
  <2> QED
    BY <2>1, <2>2, SeenIs DEF Parses
<1>3. CASE Len(image) <= REGION
  <2>1. disk' = image
    BY <1>1, <1>3 DEF Saved
  <2> QED
    BY <1>1, <1>2, <2>1 DEF OnDisk
<1>4. CASE ~(Len(Serialize(f)) <= REGION)
  <2>1. ~Room(f)
    <3>1. PICK n, c : n = Len(Serialize(f)) /\ c = Cardinality(InTree(f))
      OBVIOUS
    <3>2. n <= c /\ c \in Nat
      BY <3>1, ImageSize DEF Session
    <3>3. n \in Nat
      <4>1. Len(Deserialize(Serialize(f)).nodes) = n /\ Arena(Deserialize(Serialize(f)))
        BY <3>1, ImageSound DEF Session
      <4> QED
        BY <4>1, ArenaNumbers
    <3>4. ~(n <= REGION) /\ REGION \in Nat
      BY <1>4, <3>1, UsersAssumption
    <3>5. ~(c <= REGION)
      BY <3>2, <3>3, <3>4
    <3> QED
      BY <3>1, <3>5 DEF Room
  <2>2. disk' = disk
    BY <1>4 DEF Saved
  <2> QED
    BY <2>1, <2>2
<1> QED
  BY <1>1, <1>3, <1>4

\* A step, as the accounts see it.
Live(f, g) ==
  /\ Seen(g).accounts \subseteq Seen(g).homes
  /\ \/ Seen(g).accounts = Seen(f).accounts
     \/ \E u \in User : Seen(g).accounts = Seen(f).accounts \cup {u}
     \/ \E u \in User : /\ Seen(g).accounts = Seen(f).accounts \ {u}
                        /\ Seen(g).accounts # {}
\* The accounts that a call leaves.
LEMMA AlteredLive ==
  ASSUME NEW f, NEW g, Altered(f, g)
  PROVE  Live(f, g)
<1>1. Seen(g).accounts = Range(List(g)) /\ Seen(f).accounts = Range(List(f))
  BY DEF Seen
<1>2. Seen(g).homes = {u \in User : HasHome(g, u)}
  BY DEF Seen
<1>3. Range(List(g)) \subseteq {u \in User : HasHome(g, u)}
  BY DEF Altered, Housed
<1> QED
  BY <1>1, <1>2, <1>3 DEF Altered, Live, More, Less

AccountStep ==
  CASE on /\ on' -> tree_ok => Kept(View(fs, disk), View(fs', disk'), disk_ok')
    [] ~on /\ on' -> tree_ok' => Seen(fs') = IF disk_ok THEN OnDisk(disk) ELSE NoAccounts
    [] OTHER -> disk_ok' => OnDisk(disk') = OnDisk(disk)

\* What Kept says, in parts.
LEMMA KeptIs ==
  ASSUME Live(fs, fs'),
         disk_ok' => OnDisk(disk') \in {OnDisk(disk), Seen(fs')},
         disk_ok' => \/ Seen(fs').accounts = Seen(fs).accounts
                     \/ Room(fs') => OnDisk(disk') = Seen(fs')
  PROVE  Kept(View(fs, disk), View(fs', disk'), disk_ok')
<1>1. PICK old, new : old = View(fs, disk) /\ new = View(fs', disk')
  OBVIOUS
<1>2. /\ old.live = Seen(fs) /\ new.live = Seen(fs')
      /\ old.stored = OnDisk(disk) /\ new.stored = OnDisk(disk')
      /\ new.fits = Room(fs')
  BY <1>1 DEF View, OnDisk, Room
<1>3. /\ new.live.accounts \subseteq new.live.homes
      /\ \/ new.live.accounts = old.live.accounts
         \/ \E u \in User : new.live.accounts = old.live.accounts \cup {u}
         \/ \E u \in User : /\ new.live.accounts = old.live.accounts \ {u}
                            /\ new.live.accounts # {}
  BY <1>2 DEF Live
<1>4. disk_ok' => new.stored \in {old.stored, new.live}
  BY <1>2
<1>5. disk_ok' /\ new.live.accounts # old.live.accounts /\ new.fits
        => new.stored = new.live
  BY <1>2
<1> QED
  BY <1>1, <1>3, <1>4, <1>5 DEF Kept

\* The power fails in a persist.
LEMMA CutStep == ASSUME Cut, on \in BOOLEAN PROVE AccountStep
<1>1. disk_ok' = FALSE /\ ~on'
  BY DEF Cut, Off
<1> QED
  BY <1>1 DEF AccountStep

\* Every step is one that AccountsKept allows.
LEMMA AccountSteps == ASSUME Full, Next PROVE AccountStep
<1>0. on \in BOOLEAN /\ tree_ok \in BOOLEAN /\ disk_ok \in BOOLEAN /\ (tree_ok => Session(fs))
  BY DEF Full, Inv
<1>1. CASE Boot
  <2>1. ~on
    BY <1>1, BootIs
  <2>2. CASE (disk_ok => disk = << >>) /\ Persist(Fresh, TRUE)
    <3>1. CASE Saved(Fresh, TRUE)
      <4>1. fs' = Fresh /\ on' = TRUE
        BY <3>1 DEF Saved
      <4>2. Seen(fs') = NoAccounts /\ (disk_ok => OnDisk(disk) = NoAccounts)
        BY <2>2, <4>1, FreshView DEF OnDisk
      <4> QED
        BY <2>1, <4>1, <4>2 DEF AccountStep
    <3>2. CASE Cut
      BY <1>0, <3>2, CutStep
    <3> QED
      BY <2>2, <3>1, <3>2, PersistIs
  <2>3. CASE Loaded(Deserialize(disk))
    <3>1. PICK d : d = Deserialize(disk)
      OBVIOUS
    <3>2. on' = TRUE /\ disk # << >> /\ tree_ok' = disk_ok
      BY <2>3 DEF Loaded, Parses
    <3>3. disk_ok => Seen(fs') = Seen(d)
      BY <2>3, <3>1, SeenIs DEF Loaded
    <3>4. disk_ok => Seen(fs') = OnDisk(disk)
      BY <3>1, <3>2, <3>3 DEF OnDisk
    <3> QED
      BY <2>1, <3>2, <3>4 DEF AccountStep
  <2> QED
    BY <1>1, <2>2, <2>3, BootIs
<1>2. CASE PowerOff
  <2>1. on /\ ~on' /\ disk' = disk
    BY <1>2 DEF PowerOff, Off
  <2>2. OnDisk(disk') = OnDisk(disk)
    BY <2>1
  <2> QED
    BY <2>1, <2>2 DEF AccountStep
<1>3. CASE Quiet
  <2>1. on /\ on' /\ disk' = disk /\ Live(fs, fs')
    BY <1>3, AlteredLive DEF Quiet
  <2>2. Seen(fs').accounts = Seen(fs).accounts
    BY <1>3 DEF Quiet, Seen
  <2>3. OnDisk(disk') = OnDisk(disk)
    BY <2>1
  <2>4. Kept(View(fs, disk), View(fs', disk'), disk_ok')
    BY <2>1, <2>2, <2>3, KeptIs
  <2> QED
    BY <2>1, <2>4 DEF AccountStep
<1>4. CASE Stored
  <2>1. PICK f : Altered(fs, f) /\ Persist(f, tree_ok)
    BY <1>4 DEF Stored
  <2>2. on
    BY <1>4 DEF Stored
  <2>3. CASE Saved(f, tree_ok)
    <3>1. on' = TRUE /\ fs' = f
      BY <2>3 DEF Saved
    <3>2. disk_ok' => /\ OnDisk(disk') \in {OnDisk(disk), Seen(fs')}
                      /\ Room(fs') => OnDisk(disk') = Seen(fs')
      BY <2>1, <2>3, <3>1, SavedView DEF Altered
    <3>3. Live(fs, fs')
      BY <2>1, <3>1, AlteredLive
    <3>4. Kept(View(fs, disk), View(fs', disk'), disk_ok')
      BY <3>2, <3>3, KeptIs
    <3> QED
      BY <2>2, <3>1, <3>4 DEF AccountStep
  <2>4. CASE Cut
    BY <1>0, <2>4, CutStep
  <2> QED
    BY <2>1, <2>3, <2>4, PersistIs
<1>5. CASE ~tree_ok /\ Working
  <2>1. on
    BY <1>5 DEF Working
  <2>2. CASE on'
    BY <1>5, <2>1, <2>2 DEF AccountStep
  <2>3. CASE ~on'
    <3>1. PICK f : Persist(f, tree_ok)
      BY <1>5, <2>3 DEF Working
    <3>2. Cut
      BY <2>3, <3>1, PersistIs DEF Saved
    <3> QED
      BY <1>0, <3>2, CutStep
  <2> QED
    BY <2>2, <2>3
<1> QED
  BY <1>1, <1>2, <1>3, <1>4, <1>5, StepIs, WorkIs DEF Full

\* What AccountsKept says of a step.
Judged(old, new) ==
  CASE on /\ on' -> tree_ok => Kept(old, new, disk_ok')
    [] ~on /\ on' -> tree_ok' => new.live = IF disk_ok THEN old.stored ELSE NoAccounts
    [] OTHER -> disk_ok' => new.stored = old.stored

\* For any accounts, packages, mount points and sizes, through any power failure and
\* whatever Mixed leaves of a write that is cut off: each account has a home and the
\* last stays; an image written to its end holds the accounts of the call that stored
\* it; power-on gives those of such an image back, and otherwise finds none, or a tree
\* of which nothing is promised.
THEOREM AccountsAreKept == Spec => AccountsKept
<1>1. ASSUME Full, [Next]_vars
      PROVE  [\E old \in {View(fs, disk)}, f \in {fs'}, image \in {disk'} :
               \E new \in {View(f, image)} :
                 CASE on /\ on' -> tree_ok => Kept(old, new, disk_ok')
                   [] ~on /\ on' -> tree_ok' => new.live = IF disk_ok THEN old.stored
                                                            ELSE NoAccounts
                   [] OTHER -> disk_ok' => new.stored = old.stored]_vars
  <2>1. CASE UNCHANGED vars
    BY <2>1
  <2>2. CASE Next
    <3>1. AccountStep
      BY <1>1, <2>2, AccountSteps
    <3>2. PICK old, new : old = View(fs, disk) /\ new = View(fs', disk')
      OBVIOUS
    <3>3. /\ new.live = Seen(fs') /\ old.stored = OnDisk(disk) /\ new.stored = OnDisk(disk')
      BY <3>2 DEF View, OnDisk
    <3>4. Judged(old, new)
      BY <3>1, <3>2, <3>3 DEF AccountStep, Judged
    <3> QED
      BY <3>2, <3>4 DEF Judged
  <2> QED
    BY <1>1, <2>1, <2>2
<1> QED
  BY <1>1, FullInvariant, PTL DEF Spec, AccountsKept
=============================================================================
