-------------------------------- MODULE Vfs --------------------------------
(***************************************************************************)
(* VeilFS (vfs.rs): the tree as an arena of nodes, and the image that      *)
(* persist writes of it.  Operators only: Users keeps the file system.     *)
(*                                                                         *)
(* A file system is [nodes, cwd]; node 1 is the root.  A path is its       *)
(* sequence of names, looked up from a node: 1 if it starts with "/", else *)
(* cwd.  Modification times are left out.                                  *)
(***************************************************************************)
EXTENDS Integers, Sequences, SequencesExt

Root == 1
NoNode == 0

NewNode(name, is_dir, parent) ==
    [name |-> name, is_dir |-> is_dir, children |-> << >>, data |-> << >>, parent |-> parent]
Empty == [nodes |-> <<NewNode("/", TRUE, Root)>>, cwd |-> Root]
-----------------------------------------------------------------------------
\* The first child of that name.
Child(fs, dir, name) ==
    LET kids == fs.nodes[dir].children
        k == SelectInSeq(kids, LAMBDA c : fs.nodes[c].name = name)
    IN  IF k = 0 THEN NoNode ELSE kids[k]

\* One name of the path after the other, as long as there is a child of that name.
Resolve(fs, start, path) ==
    LET at[k \in 0 .. Len(path)] ==
            IF k = 0 THEN start
            ELSE LET i == at[k - 1] IN IF i = NoNode THEN NoNode ELSE Child(fs, i, path[k])
    IN  at[Len(path)]

\* A node at the end of the arena, and of its parent's entries.
Attach(nodes, parent, node) ==
    Append([nodes EXCEPT ![parent].children = Append(@, Len(nodes) + 1)], node)
Add(fs, parent, name, is_dir) ==
    [fs EXCEPT !.nodes = Attach(fs.nodes, parent, NewNode(name, is_dir, parent))]

\* Mutant: a component is added although it is there.
DescendTwice(at, name) ==
    [fs |-> Add(at.fs, at.cur, name, TRUE), cur |-> Len(at.fs.nodes) + 1]
Descend(at, name) ==
    LET c == Child(at.fs, at.cur, name)
    IN  IF c # NoNode THEN [at EXCEPT !.cur = c]
        ELSE [fs |-> Add(at.fs, at.cur, name, TRUE), cur |-> Len(at.fs.nodes) + 1]
MkdirP(fs, start, path) ==
    LET at[k \in 0 .. Len(path)] ==
            IF k = 0 THEN [fs |-> fs, cur |-> start] ELSE Descend(at[k - 1], path[k])
    IN  at[Len(path)].fs

\* write fails without a parent directory, or on a directory.
Write(fs, dir, name, data) ==
    LET parent == Resolve(fs, Root, dir)
        child == Child(fs, parent, name)
        made == IF child = NoNode THEN Add(fs, parent, name, FALSE) ELSE fs
        file == IF child = NoNode THEN Len(fs.nodes) + 1 ELSE child
    IN  IF parent = NoNode \/ ~fs.nodes[parent].is_dir \/ made.nodes[file].is_dir THEN fs
        ELSE [made EXCEPT !.nodes[file].data = data]

IsFile(fs, path) ==
    LET i == Resolve(fs, Root, path) IN i # NoNode /\ ~fs.nodes[i].is_dir
Read(fs, path) == fs.nodes[Resolve(fs, Root, path)].data

\* The members of s that are not x, in their order (retain, filter).
Without(s, x) ==
    LET kept[k \in 0 .. Len(s)] ==
            IF k = 0 THEN << >>
            ELSE IF s[k] = x THEN kept[k - 1] ELSE Append(kept[k - 1], s[k])
    IN  kept[Len(s)]

\* remove takes the node off its parent's list and leaves it in the arena.
RemoveNode(fs, path) ==
    LET i == Resolve(fs, Root, path)
    IN  IF \/ i \in {NoNode, Root}
           \/ fs.nodes[i].is_dir /\ fs.nodes[i].children # << >> THEN fs
        ELSE [fs EXCEPT !.nodes[fs.nodes[i].parent].children = Without(@, i)]

\* The names that ls gives, a file's own too, and those of a node's entries.
EntryNames(fs, i) == [k \in DOMAIN fs.nodes[i].children |-> fs.nodes[fs.nodes[i].children[k]].name]
Ls(fs, i) == IF i = NoNode THEN << >>
             ELSE IF fs.nodes[i].is_dir THEN EntryNames(fs, i) ELSE <<fs.nodes[i].name>>

\* What has one of the names below the path, and then what is at the path
\* itself; what is not empty stays.
RemoveAll(fs, path, names) ==
    LET left[k \in 0 .. Len(names)] ==
            IF k = 0 THEN fs ELSE RemoveNode(left[k - 1], Append(path, names[k]))
    IN  RemoveNode(left[Len(names)], path)
-----------------------------------------------------------------------------
(* The image: the nodes that ser_node comes to, each with its data and the *)
(* number of its entries.                                                  *)
Entries(fs, i) == IF fs.nodes[i].is_dir THEN fs.nodes[i].children ELSE << >>

\* ser_node writes a node and then calls itself for each entry.  left holds
\* the entries that the call for a node has still to go through; the call
\* that goes on is the last that has any.
Visit(fs, calls) ==
    LET open == {k \in DOMAIN calls : calls[k].left # << >>}
        i == Head(calls[Max(open)].left)
    IN  IF open = {} THEN calls
        ELSE Append([calls EXCEPT ![Max(open)].left = Tail(@)],
                    [node |-> i, left |-> Entries(fs, i)])
\* No node has two places, so there is at most one call for each.
Serialize(fs) ==
    LET calls[n \in 0 .. Len(fs.nodes)] ==
            IF n = 0 THEN <<[node |-> Root, left |-> Entries(fs, Root)]>>
            ELSE Visit(fs, calls[n - 1])
        Entry(i) == [name |-> fs.nodes[i].name, is_dir |-> fs.nodes[i].is_dir,
                     data |-> fs.nodes[i].data, count |-> Len(Entries(fs, i))]
        all == calls[Len(fs.nodes)]
    IN  [k \in DOMAIN all |-> Entry(all[k].node)]

NodeOf(entry, parent) ==
    [NewNode(entry.name, entry.is_dir, parent) EXCEPT !.data = entry.data]
\* The nodes that have not got all their entries yet.
Waiting(nodes, image) == {k \in DOMAIN nodes : Len(nodes[k].children) < image[k].count}
\* Mutant: de_node reads an entry more than it was told.
PlacedOpen(nodes, image) ==
    LET open == {k \in DOMAIN nodes : Len(nodes[k].children) <= image[k].count}
    IN  IF nodes = << >> THEN <<NodeOf(image[1], Root)>>
        ELSE IF open = {} THEN nodes
        ELSE Attach(nodes, Max(open), NodeOf(image[Len(nodes) + 1], Max(open)))
\* de_node pushes a node and then calls itself for each of its entries: the
\* parent is the last node that waits for one.  When the root's call is back,
\* the rest of the image is not read.
Placed(nodes, image) ==
    LET open == Waiting(nodes, image)
    IN  IF nodes = << >> THEN <<NodeOf(image[1], Root)>>
        ELSE IF open = {} THEN nodes
        ELSE Attach(nodes, Max(open), NodeOf(image[Len(nodes) + 1], Max(open)))
Deserialize(image) ==
    LET read[n \in 0 .. Len(image)] == IF n = 0 THEN << >> ELSE Placed(read[n - 1], image)
    IN  [nodes |-> read[Len(image)], cwd |-> Root]
\* No call of de_node has come to the end of the image.  That is all that load
\* asks of what it finds.
Parses(image) == image # << >> /\ Waiting(Deserialize(image).nodes, image) = {}

\* What ls and read show from the root on: a file has no entries.
Tree(fs) ==
    LET tree[i \in DOMAIN fs.nodes] ==
            LET n == fs.nodes[i]
            IN  [name |-> n.name, is_dir |-> n.is_dir, data |-> n.data,
                 entries |-> IF n.is_dir THEN {tree[c] : c \in Range(n.children)} ELSE {}]
    IN  tree[Root]
\* The nodes that a path from the root leads to.
InTree(fs) ==
    LET placed[i \in DOMAIN fs.nodes] ==
            LET parent == fs.nodes[i].parent
            IN  i = Root \/ (i \in Range(fs.nodes[parent].children) /\ placed[parent])
    IN  {i \in DOMAIN fs.nodes : placed[i]}
=============================================================================
