------------------------------- MODULE Users -------------------------------
(***************************************************************************)
(* The accounts of users.rs, the packages of pkg.rs and the mount points   *)
(* of netfs.rs on the one VeilFS, with the machine switched off at any     *)
(* moment, in the middle of a persist too.  One task, the desktop, calls   *)
(* them all.  A file's data is the sequence of its lines.                  *)
(*                                                                         *)
(* persist writes over the image in the region.  What a write that is cut  *)
(* off or refused leaves there, new sectors and old ones, is any image of  *)
(* Mixed: load has no checksum and takes what parses.  disk_ok and tree_ok *)
(* are history: the image was written to its end, the tree does not come   *)
(* from one that was not.  Reads of the region are not refused.            *)
(***************************************************************************)
EXTENDS Vfs, FiniteSets, FiniteSetsExt

CONSTANTS User,      \* names, strings
          Default,   \* the name in USER.TXT
          Package,
          MountPoint,\* [start : {"/", "."}, path : Seq of names]
          REGION,    \* nodes that fit the disk region
          HISTORY,   \* lines .history keeps, 200 in the code
          Mixed(_, _),\* what part of a write may make of an image and the new one
          MaxNodes,  \* bound: nodes of the arena
          MixAgain   \* bound: may a write be cut off over what a cut-off one left?

ASSUME UsersAssumption == /\ Default \in User /\ IsFiniteSet(User)
                          /\ REGION \in Nat /\ HISTORY \in Nat \ {0} /\ MaxNodes \in Nat
                          /\ MountPoint \subseteq [start : {"/", "."}, path : Seq(STRING)]

VARIABLES fs,       \* the VFS static: nodes and cwd
          current,  \* the user logged in
          disk,     \* the image in the disk region; none, or one without magic: << >>
          on,       \* the machine runs
          disk_ok, tree_ok
vars == <<fs, current, disk, on, disk_ok, tree_ok>>

Home(u) == <<"home", u>>
InHome(u, name) == <<"home", u, name>>
REGISTRY == <<"etc", "users">>
App(p) == <<"apps", p>>

List(f) == IF IsFile(f, REGISTRY) THEN Read(f, REGISTRY) ELSE << >>
StoreList(f, list) == Write(f, <<"etc">>, "users", list)
Registered == Range(List(fs))
HasHome(f, u) == Resolve(f, Root, Home(u)) # NoNode

\* .profile and welcome.txt, like the empty directories, are left out.
SeedHome(f, u) ==
    LET Seeded(g, name, data) ==
            IF IsFile(g, InHome(u, name)) THEN g ELSE Write(g, Home(u), name, data)
    IN  Seeded(Seeded(MkdirP(f, Root, Home(u)), ".veilrc", <<"default">>), ".history", << >>)
Fresh ==
    LET f == MkdirP(SeedHome(Empty, Default), Root, <<"etc">>)
    IN  [f EXCEPT !.cwd = Resolve(f, Root, Home(Default))]

\* Nothing is left of the session; the next one starts with USER.TXT's user.
Off == on' = FALSE /\ fs' = Empty /\ current' = Default /\ tree_ok' = TRUE

IsImage(image) ==
    /\ image \in Seq([name : STRING, is_dir : BOOLEAN, data : Seq(STRING), count : Nat])
    /\ \A k \in DOMAIN image : ~image[k].is_dir => image[k].count = 0
CutShort(image) ==
    /\ disk_ok \/ MixAgain
    /\ disk' \in Mixed(disk, image) /\ IsImage(disk') /\ disk_ok' = FALSE

\* The call ends with f in memory, and persist writes it if it fits the region.
\* The result of persist is ignored, so the call ends in the same way if the
\* device refuses the write; and the power may fail during it.
Persist(f, ok) ==
    \E image \in {Serialize(f)} :
        \/ /\ fs' = f /\ on' = TRUE /\ tree_ok' = ok /\ UNCHANGED current
           /\ IF Len(image) > REGION THEN UNCHANGED <<disk, disk_ok>>
              ELSE (disk' = image /\ disk_ok' = ok) \/ CutShort(image)
        \/ Len(image) <= REGION /\ CutShort(image) /\ Off

Init == /\ fs = Empty /\ current = Default /\ disk = << >> /\ on = FALSE
        /\ disk_ok = TRUE /\ tree_ok = TRUE

\* Whatever parses is loaded; otherwise a fresh tree is seeded and stored.  The
\* session starts in the user's home, if there is one.
Boot ==
    /\ ~on
    /\ IF Parses(disk)
       THEN /\ \E f \in {Deserialize(disk)} :
                  fs' = [f EXCEPT !.cwd = IF HasHome(f, Default)
                                          THEN Resolve(f, Root, Home(Default)) ELSE Root]
            /\ on' = TRUE /\ tree_ok' = disk_ok /\ UNCHANGED <<disk, disk_ok, current>>
       ELSE \E f \in {Fresh} : Persist(f, TRUE)

PowerOff == on /\ Off /\ UNCHANGED <<disk, disk_ok>>

Fits == on /\ Len(fs.nodes) <= MaxNodes

UserAdd(u) ==
    /\ Fits /\ u \notin Registered
    /\ \E f \in {SeedHome(StoreList(fs, Append(List(fs), u)), u)} :
            Persist(f, tree_ok)

Purge(f, u) == RemoveAll(f, Home(u), Ls(f, Resolve(f, Root, Home(u))))
\* Mutant: the last account can go.
UserDelAny(u, purge) ==
    /\ on /\ u \in Registered
    /\ LET left == StoreList(fs, Without(List(fs), u))
       IN  \E f \in {IF purge THEN Purge(left, u) ELSE left} :
            Persist(f, tree_ok)
\* Mutant: the home goes, the account stays.
UserDelUnsaved(u, purge) ==
    /\ on /\ u \in Registered /\ Len(List(fs)) > 1
    /\ \E f \in {IF purge THEN Purge(fs, u) ELSE fs} : Persist(f, tree_ok)
UserDel(u, purge) ==
    /\ on /\ u \in Registered /\ Len(List(fs)) > 1
    /\ LET left == StoreList(fs, Without(List(fs), u))
       IN  \E f \in {IF purge THEN Purge(left, u) ELSE left} :
            Persist(f, tree_ok)

\* cd fails, and su succeeds, if the home is not there or not a directory.
Su(u) ==
    /\ on /\ u \in Registered
    /\ current' = u
    /\ fs' = IF HasHome(fs, u) /\ ~IsFile(fs, Home(u))
             THEN [fs EXCEPT !.cwd = Resolve(fs, Root, Home(u))] ELSE fs
    /\ UNCHANGED <<disk, on, disk_ok, tree_ok>>

PrefSet ==
    /\ Fits
    /\ \E f \in {Write(fs, Home(current), ".veilrc", <<"changed">>)} :
            Persist(f, tree_ok)

\* A line more, and the last HISTORY of them; nothing is stored.
HistoryAppend ==
    /\ Fits
    /\ LET path == InHome(current, ".history")
           lines == Append(IF IsFile(fs, path) THEN Read(fs, path) ELSE << >>, "line")
       IN  fs' = Write(fs, Home(current), ".history",
                      SubSeq(lines, Max({1, Len(lines) - HISTORY + 1}), Len(lines)))
    /\ UNCHANGED <<current, disk, on, disk_ok, tree_ok>>

PkgInstall(p) ==
    /\ Fits
    /\ fs' = Write(MkdirP(MkdirP(fs, Root, <<"apps">>), Root, App(p)),
                   App(p), "main.wasm", <<"code">>)
    /\ UNCHANGED <<current, disk, on, disk_ok, tree_ok>>

PkgRemove(p) ==
    /\ on /\ Resolve(fs, Root, App(p)) # NoNode
    /\ fs' = RemoveAll(fs, App(p), EntryNames(fs, Resolve(fs, Root, App(p))))
    /\ UNCHANGED <<current, disk, on, disk_ok, tree_ok>>

Mount(m) ==
    /\ Fits
    /\ fs' = MkdirP(fs, IF m.start = "/" THEN Root ELSE fs.cwd, m.path)
    /\ UNCHANGED <<current, disk, on, disk_ok, tree_ok>>

Next == \/ Boot \/ PowerOff \/ PrefSet \/ HistoryAppend
        \/ \E u \in User : UserAdd(u) \/ Su(u)
        \/ \E u \in User, purge \in BOOLEAN : UserDel(u, purge)
        \/ \E p \in Package : PkgInstall(p) \/ PkgRemove(p)
        \/ \E m \in MountPoint : Mount(m)
Spec == Init /\ [][Next]_vars
-----------------------------------------------------------------------------
(* The arena is a tree, whatever image it was loaded from: every node has  *)
(* one place at most, and parent, which .. and the path of a node follow,  *)
(* names that place; the working directory is a node.  Unless the image    *)
(* was not written to its end, no two entries of a directory share a name, *)
(* and the working directory is one.                                       *)
TreeSound ==
    LET nodes == fs.nodes IN
    /\ \A i \in DOMAIN nodes :
        /\ IsInjective(nodes[i].children)
        /\ \A c \in Range(nodes[i].children) :
            /\ c \in DOMAIN nodes \ {Root} /\ nodes[c].parent = i
            /\ tree_ok => \A d \in Range(nodes[i].children) : nodes[c].name = nodes[d].name => c = d
    /\ fs.cwd \in DOMAIN nodes /\ (tree_ok => nodes[fs.cwd].is_dir)
    /\ current \in User /\ on \in BOOLEAN

(* What persist stores, load gives back: serialize and deserialize lose    *)
(* nothing that ls or read can show, of whatever tree a session made, from *)
(* whatever image it was loaded.                                           *)
Reloads ==
    \E image \in {Serialize(fs)} :
        Parses(image) /\ Tree(Deserialize(image)) = Tree(fs)

(* The working directory leaves the tree in one way: userdel -r purges an  *)
(* account whose home it is (vfs.rs:187).  A tree from an image that was   *)
(* not written to its end is left out.                                     *)
Stranded == fs.cwd \notin InTree(fs)
CwdLostByPurge ==
    [][tree_ok' /\ ~Stranded /\ Stranded' =>
        \E u \in Registered : /\ u \notin Registered'
                              /\ fs.cwd = Resolve(fs, Root, Home(u))]_vars

(* The accounts, through the registry file, the tree, the image and load.  *)
(* Each has a home directory and the last one stays.  An image that was    *)
(* written to its end holds the accounts of the last call that stored it,  *)
(* and power-on gives them back; a call that changes the accounts stores   *)
(* them, unless its write was cut off or refused or the tree has outgrown  *)
(* the region.  After a write that was cut off, power-on finds no accounts *)
(* or a tree that comes from what is left (~tree_ok), of which the code,   *)
(* and this property, promise nothing until a fresh tree is seeded.        *)
Seen(f) == [accounts |-> Range(List(f)), homes |-> {u \in User : HasHome(f, u)}]
NoAccounts == [accounts |-> {}, homes |-> {Default}]
View(f, image) ==
    [live   |-> Seen(f),
     stored |-> IF image = << >> THEN NoAccounts ELSE Seen(Deserialize(image)),
     fits   |-> Cardinality(InTree(f)) <= REGION]
Kept(old, new, whole) ==
    /\ new.live.accounts \subseteq new.live.homes
    /\ \/ new.live.accounts = old.live.accounts
       \/ \E u \in User : new.live.accounts = old.live.accounts \cup {u}
       \/ \E u \in User : /\ new.live.accounts = old.live.accounts \ {u}
                        /\ new.live.accounts # {}
    /\ whole => new.stored \in {old.stored, new.live}
    /\ whole /\ new.live.accounts # old.live.accounts /\ new.fits
        => new.stored = new.live
AccountsKept ==
    [][\E old \in {View(fs, disk)}, f \in {fs'}, image \in {disk'} :
        \E new \in {View(f, image)} :
          CASE on /\ on' -> tree_ok => Kept(old, new, disk_ok')
            [] ~on /\ on' -> tree_ok' => new.live = IF disk_ok THEN old.stored ELSE NoAccounts
            [] OTHER -> disk_ok' => new.stored = old.stored]_vars
=============================================================================
