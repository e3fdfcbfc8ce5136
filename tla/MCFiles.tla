------------------------------ MODULE MCFiles ------------------------------
(***************************************************************************)
(* Instances for TLC of the descriptors and of the files below them.  They *)
(* share no state; a behaviour is one of one of them.                      *)
(***************************************************************************)
EXTENDS MCDescriptors, Vfs

CONSTANTS n1, n2, l1, da, db

VARIABLE part

filesVars == <<part, vars, vfsVars>>

Calls(ops, owners, paths, flags, handles) ==
  [ops |-> ops, owners |-> owners, paths |-> paths, flags |-> flags, handles |-> handles]

ReadOnly == {"READ"}

\* Directories and files are made, moved and removed while one is open.
TreeCalls ==
  Calls({"mkdir", "rename", "unlink"}, {n1}, Paths \ {RootPath}, {ReadOnly, {"WRITE", "CREATE"}}, 1)
\* Two listings of directories that change.
ListCalls ==
  Calls({"mkdir", "unlink", "readdir"}, {n1}, {RootPath, <<da>>, <<db>>, <<db, da>>}, {ReadOnly}, 2)
\* Two handles on one file.
DataCalls ==
  Calls({"read", "write", "seek", "exit", "unlink"}, {n1, n2}, {<<da>>},
        {ReadOnly, {"READ", "WRITE"}, {"WRITE", "TRUNCATE"},
         {"WRITE", "CREATE", "EXCLUSIVE"}, {"WRITE", "CREATE", "APPEND"}}, 2)
\* Opens of the persistent root, and of control files, race native calls.
DiskCalls ==
  Calls({"mkdir", "rename", "unlink", "exit"}, {n1, l1}, {<<da>>, <<da, db>>, <<db, db>>},
        {ReadOnly, {"READ", "CREATE"}}, 2)
ControlCalls ==
  Calls({"mkdir", "rename", "unlink", "mount", "exit", "write"}, {n1, l1}, {<<db>>, <<db, da>>},
        {ReadOnly, {"READ", "WRITE", "CREATE"}}, 2)
AllCallSets == {TreeCalls, ListCalls, DataCalls, DiskCalls, ControlCalls}

\* Two directories, one in the other, and a file in a third.
MCDisk == [p \in {<<da>>, <<da, db>>, <<db, db>>} |-> IF p = <<db, db>> THEN "File" ELSE "Directory"]

FilesInit ==
  /\ part \in {"descriptors", "vfs"} /\ Init /\ VfsInit
  /\ part = "vfs" => work = FionreadWork
  /\ part = "descriptors" => calls = TreeCalls

FilesNext ==
  \/ part = "descriptors" /\ Next /\ UNCHANGED <<part, vfsVars>>
  \/ part = "vfs" /\ VfsNext /\ UNCHANGED <<part, vars>>

\* A call that has started is run to its end.
FilesSpec ==
  /\ FilesInit /\ [][FilesNext]_filesVars
  /\ \A c \in Contexts : WF_vars(part = "descriptors" /\ Step(c) /\ UNCHANGED <<kept, work, part, vfsVars>>)
=============================================================================
