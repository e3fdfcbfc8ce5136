------------------------------ MODULE FileTree ------------------------------
(***************************************************************************)
(* What a file system promises: a tree of objects and handles on them.  An *)
(* object knows its directory and its name in it; nothing else knows its   *)
(* path.  Moving a directory therefore moves one edge, and everything      *)
(* below it, and every handle, comes along.                                *)
(***************************************************************************)
EXTENDS Integers, Sequences, FiniteSets

CONSTANTS
  Objects,     \* what can be in the tree
  Root,        \* the object that is always there
  Handles,     \* what a process holds
  Names,       \* of the entries of a directory
  Inputs,      \* what one call writes
  MaxBytes,    \* the longest file
  Positions,   \* of a handle: in the bytes of a file, or among entries
  Absent

VARIABLES
  tree,        \* of an object, its kind, directory, name and bytes
  held         \* of a handle, its object and position

treeVars == <<tree, held>>

Children(d) == {o \in Objects \ {Root} : tree[o] # Absent /\ tree[o].parent = d}

\* d and everything in it, at any depth.
Below(d) ==
  LET reach[n \in 0..Cardinality(Objects)] ==
        IF n = 0 THEN {d} ELSE reach[n - 1] \cup UNION {Children(o) : o \in reach[n - 1]}
  IN reach[Cardinality(Objects)]

IsDirectory(d) == tree[d] # Absent /\ tree[d].kind = "Directory"

At(d, name) == {o \in Children(d) : tree[o].name = name}

Holders(o) == {h \in Handles : held[h] # Absent /\ held[h].object = o}

Object(kind, d, name) == [kind |-> kind, parent |-> d, name |-> name, data |-> <<>>]

\* The bytes of a file after s is written at a position; a gap reads as zero.
Written(data, pos, s) ==
  LET size == IF pos + Len(s) > Len(data) THEN pos + Len(s) ELSE Len(data)
  IN [i \in 1..size |-> IF i \in (pos + 1)..(pos + Len(s)) THEN s[i - pos]
                        ELSE IF i <= Len(data) THEN data[i] ELSE 0]

\* Every object but Root is in a directory, under a name of its own, and is
\* reached from Root.
WellFormed ==
  /\ IsDirectory(Root)
  /\ \A o \in Objects \ {Root} : tree[o] # Absent =>
       /\ o \in Below(Root) /\ IsDirectory(tree[o].parent)
       /\ At(tree[o].parent, tree[o].name) = {o}

TreeInit == WellFormed /\ held = [h \in Handles |-> Absent]

Create(o, kind, d, name) ==
  /\ tree[o] = Absent /\ IsDirectory(d) /\ At(d, name) = {}
  /\ tree' = [tree EXCEPT ![o] = Object(kind, d, name)]

Remove(o) ==
  /\ o # Root /\ tree[o] # Absent /\ Children(o) = {} /\ Holders(o) = {}
  /\ tree' = [tree EXCEPT ![o] = Absent]

\* What is at the new place is replaced if it could have been removed.
Move(o, d, name) ==
  /\ o # Root /\ tree[o] # Absent /\ IsDirectory(d) /\ d \notin Below(o)
  /\ \A p \in At(d, name) \ {o} :
       Children(p) = {} /\ Holders(p) = {} /\ tree[p].kind = tree[o].kind
  /\ tree' = [p \in Objects |->
                IF p = o THEN [tree[o] EXCEPT !.parent = d, !.name = name]
                ELSE IF p \in At(d, name) THEN Absent ELSE tree[p]]

\* The file is created first, or emptied, if the call says so.
Open(h, o, append) ==
  /\ held[h] = Absent /\ tree'[o] # Absent
  /\ held' = [held EXCEPT ![h] =
       [object |-> o, append |-> append, pos |-> IF append THEN Len(tree'[o].data) ELSE 0]]
  /\ \/ UNCHANGED tree
     \/ tree[o] # Absent /\ tree' = [tree EXCEPT ![o].data = <<>>]
     \/ \E d \in Objects, name \in Names : Create(o, "File", d, name)

Close(hs) ==
  /\ hs \subseteq {h \in Handles : held[h] # Absent}
  /\ held' = [h \in Handles |-> IF h \in hs THEN Absent ELSE held[h]]
  /\ UNCHANGED tree

Write(h, s) ==
  /\ held[h] # Absent /\ tree[held[h].object].kind = "File"
  /\ LET o == held[h].object
         pos == IF held[h].append THEN Len(tree[o].data) ELSE held[h].pos
     IN /\ pos + Len(s) <= MaxBytes
        /\ tree' = [tree EXCEPT ![o].data = Written(tree[o].data, pos, s)]
        /\ held' = [held EXCEPT ![h].pos = pos + Len(s)]

\* Reading, seeking and listing move the position of one handle.
Reposition(h, pos) ==
  /\ held[h] # Absent
  /\ held' = [held EXCEPT ![h].pos = pos]
  /\ UNCHANGED tree

TreeNext ==
  \/ \E hs \in SUBSET Handles : Close(hs)
  \/ \E h \in Handles, pos \in Positions : Reposition(h, pos)
  \/ \E h \in Handles, o \in Objects, append \in BOOLEAN : Open(h, o, append)
  \/ \E h \in Handles, s \in Inputs : Write(h, s)
  \/ UNCHANGED held /\ \E o \in Objects :
       \/ Remove(o)
       \/ \E d \in Objects, name \in Names : Create(o, "Directory", d, name) \/ Move(o, d, name)

TreeSpec == TreeInit /\ [][TreeNext]_treeVars
=============================================================================
