-------------------------------- MODULE Vfs --------------------------------
(***************************************************************************)
(* The Akashic VFS (akashic_vfs.rs), the open files of Linux processes on  *)
(* top of it (linux_file.rs) and the mounts (linux_mount.rs).              *)
(*                                                                         *)
(* The namespace is a flat table of nodes, each with its whole path: a     *)
(* directory is moved by rewriting the path of everything in it.  A native *)
(* process calls the VFS with a capability; a Linux open may need several  *)
(* calls, between which the VFS lock is free: it makes the directories of  *)
(* the persistent root appear, or fills a control file before the open.    *)
(*                                                                         *)
(* A path is the sequence of its components, and MAXIMUM_PATH_BYTES a      *)
(* bound on their number.  A capability is a number no other open handle   *)
(* has, so the slot of the handle stands for it.  Ticks are left out.      *)
(***************************************************************************)
EXTENDS Integers, Sequences, FiniteSets
LOCAL INSTANCE SequencesExt
LOCAL INSTANCE FiniteSetsExt

CONSTANTS
  Native, LinuxOwners,   \* process generations
  NNodes, NHandles,      \* MAXIMUM_NODES, MAXIMUM_HANDLES
  NFiles,                \* MAXIMUM_FILE_DESCRIPTORS
  FILE_BYTES,            \* MAXIMUM_FILE_BYTES
  MaxPath,               \* components of the longest path
  Components,            \* the names in use
  Data, MaxInput,        \* the bytes that are written, and how many at once
  Disk,                  \* the persistent root: kinds by path
  ControlFiles,          \* names with default contents under a cgroup2 mount
  FileWorkloads,         \* which calls the processes of a behaviour make
  Absent

VARIABLES
  node,       \* nodes
  handle,     \* handles
  file,       \* FILES
  opening,    \* the Linux open that holds the lock of FILES
  mounts,     \* MOUNTS: the targets of cgroup2 mounts
  calls       \* the workload

vfsVars == <<node, handle, file, opening, mounts, calls>>

Nodes == 0..(NNodes - 1)
VfsHandles == 0..(NHandles - 1)
FileSlots == 0..(NFiles - 1)
Paths == UNION {[1..n -> Components] : n \in 0..MaxPath}
RootPath == <<>>

Flags == {"READ", "WRITE", "CREATE", "EXCLUSIVE", "TRUNCATE", "APPEND"}

-----------------------------------------------------------------------------
(* The namespace.                                                          *)

Node(kind, path) ==
  [kind |-> kind, path |-> path, content |-> [i \in 1..FILE_BYTES |-> 0],
   content_len |-> 0, open_count |-> 0]

UsedNodes == {n \in Nodes : node[n] # Absent}
FreeNodes == Nodes \ UsedNodes
FreeHandles == {h \in VfsHandles : handle[h] = Absent}

find_node(p) == {n \in UsedNodes : node[n].path = p}

\* The node at a path, if there is one.
Entry(p) == IF find_node(p) = {} THEN Absent ELSE CHOOSE n \in find_node(p) : TRUE

is_descendant(p, q) == IsStrictPrefix(p, q)

\* What require_parent_directory answers.
require_parent_directory(p) ==
  IF p = RootPath THEN "InvalidPath"
  ELSE IF find_node(Front(p)) = {} THEN "NotFound"
  ELSE IF \A n \in find_node(Front(p)) : node[n].kind = "Directory" THEN "Ok"
  ELSE "NotDirectory"

validate_open_flags(flags) ==
  /\ flags \cap {"READ", "WRITE"} # {}
  /\ "EXCLUSIVE" \in flags => "CREATE" \in flags
  /\ flags \cap {"TRUNCATE", "APPEND"} # {} => "WRITE" \in flags

\* What open answers; nothing is stored before the last of these checks.
open_result(p, flags) ==
  CASE ~validate_open_flags(flags) -> "PermissionDenied"
    [] FreeHandles = {} -> "Capacity"
    [] find_node(p) # {} /\ {"CREATE", "EXCLUSIVE"} \subseteq flags -> "AlreadyExists"
    [] /\ \E n \in find_node(p) : node[n].kind = "Directory"
       /\ flags \cap {"WRITE", "CREATE", "TRUNCATE", "APPEND"} # {} -> "NotFile"
    [] find_node(p) # {} -> "Ok"
    [] "CREATE" \notin flags -> "NotFound"
    [] require_parent_directory(p) # "Ok" -> require_parent_directory(p)
    [] FreeNodes = {} -> "Capacity"
    [] OTHER -> "Ok"

\* The node an open that succeeds is about, and what it makes of it.
Target(p) == IF find_node(p) = {} THEN Min(FreeNodes) ELSE Entry(p)

Truncated(n) == [n EXCEPT !.content = [i \in 1..FILE_BYTES |->
                                         IF i <= n.content_len THEN 0 ELSE n.content[i]],
                          !.content_len = 0]

Opened(p, flags) ==
  LET n == IF find_node(p) = {} THEN Node("File", p)
           ELSE IF "TRUNCATE" \in flags THEN Truncated(node[Target(p)])
           ELSE node[Target(p)]
  IN [n EXCEPT !.open_count = n.open_count + 1]

\* due is history: the entries that have been in the directory since the
\* handle was opened and that readdir has not returned yet.
Children(p) == {n \in UsedNodes : is_descendant(p, node[n].path) /\ Len(node[n].path) = Len(p) + 1}

vfs_open(o, h, p, flags) ==
  /\ open_result(p, flags) = "Ok" /\ h = Min(FreeHandles)
  /\ node' = [node EXCEPT ![Target(p)] = Opened(p, flags)]
  /\ handle' = [handle EXCEPT ![h] =
       [owner |-> o, node |-> Target(p), flags |-> flags,
        cursor |-> IF "APPEND" \in flags THEN Opened(p, flags).content_len ELSE 0,
        due |-> Children(p)]]

\* close_index, for each handle of a set.
CountsWithout(hs) ==
  [n \in Nodes |->
     IF node[n] = Absent THEN Absent
     ELSE [node[n] EXCEPT !.open_count = @ - Cardinality({h \in hs : handle[h].node = n})]]

CloseHandles(hs) ==
  /\ node' = CountsWithout(hs)
  /\ handle' = [h \in VfsHandles |-> IF h \in hs THEN Absent ELSE handle[h]]

find_handle(o) == {h \in VfsHandles : handle[h] # Absent /\ handle[h].owner = o}

Kind(h) == node[handle[h].node].kind

\* What one write of a workload stores.
Inputs == UNION {[1..k -> Data] : k \in 1..MaxInput}

\* read: at most count bytes from the cursor.
vfs_read(h, count) ==
  LET n == node[handle[h].node]
      c == handle[h].cursor
  IN /\ "READ" \in handle[h].flags /\ Kind(h) = "File" /\ c <= n.content_len
     /\ handle' = [handle EXCEPT ![h].cursor = c + Min({count, n.content_len - c})]
     /\ UNCHANGED node

\* The bytes of a node after a write at an offset: a gap is filled.
Stored(n, offset, s) ==
  [n EXCEPT !.content = [i \in 1..FILE_BYTES |->
                           IF i \in (offset + 1)..(offset + Len(s)) THEN s[i - offset]
                           ELSE IF i \in (n.content_len + 1)..offset THEN 0 ELSE n.content[i]],
            !.content_len = Max({n.content_len, offset + Len(s)})]

vfs_write(h, s) ==
  LET n == node[handle[h].node]
      offset == IF "APPEND" \in handle[h].flags THEN n.content_len ELSE handle[h].cursor
  IN /\ "WRITE" \in handle[h].flags /\ Kind(h) = "File" /\ offset + Len(s) <= FILE_BYTES
     /\ node' = [node EXCEPT ![handle[h].node] = Stored(n, offset, s)]
     /\ handle' = [handle EXCEPT ![h].cursor = offset + Len(s)]

\* seek: to any position a whence and an offset reach.
vfs_seek(h, next) ==
  /\ Kind(h) = "File" /\ next \in 0..FILE_BYTES
  /\ handle' = [handle EXCEPT ![h].cursor = next]
  /\ UNCHANGED node

\* What mkdir answers.
mkdir_result(p) ==
  CASE p = RootPath \/ find_node(p) # {} -> "AlreadyExists"
    [] require_parent_directory(p) # "Ok" -> require_parent_directory(p)
    [] FreeNodes = {} -> "Capacity"
    [] OTHER -> "Ok"

vfs_mkdir(p) ==
  /\ mkdir_result(p) = "Ok"
  /\ node' = [node EXCEPT ![Min(FreeNodes)] = Node("Directory", p)]
  /\ UNCHANGED handle

\* A step that changes the names forgets the entries that left a directory.
Refreshed(nodes, hs) ==
  [h \in VfsHandles |->
     IF hs[h] = Absent THEN Absent
     ELSE [hs[h] EXCEPT !.due =
             {n \in @ : /\ nodes[n] # Absent
                        /\ nodes[n].path # RootPath /\ Front(nodes[n].path) = nodes[hs[h].node].path}]]

vfs_unlink(p) ==
  /\ p # RootPath
  /\ \E n \in find_node(p) :
       /\ node[n].open_count = 0
       /\ node[n].kind = "Directory" => \A m \in UsedNodes : ~is_descendant(p, node[m].path)
       /\ node' = [node EXCEPT ![n] = Absent]
  /\ handle' = Refreshed(node', handle)

\* Mutated form: what is below a directory stays where it was.
SubtreeAlone(p) == find_node(p)

\* What moves with p: its node and everything below.
Subtree(p) == {n \in UsedNodes : node[n].path = p \/ is_descendant(p, node[n].path)}

renamed_path(p, q, current) == q \o SubSeq(current, Len(p) + 1, Len(current))

\* Every path is checked before the first one is changed.
vfs_rename(p, q) ==
  /\ p # RootPath /\ q # RootPath /\ p # q
  /\ require_parent_directory(q) = "Ok"
  /\ \E n \in find_node(p) :
       /\ node[n].kind = "Directory" => ~is_descendant(p, q)
       /\ \A t \in find_node(q) :
            /\ node[t].open_count = 0 /\ node[t].kind = node[n].kind
            /\ node[t].kind = "Directory" => \A m \in UsedNodes : ~is_descendant(q, node[m].path)
       /\ \A m \in Subtree(p) :
            /\ Len(renamed_path(p, q, node[m].path)) <= MaxPath
            /\ find_node(renamed_path(p, q, node[m].path)) \subseteq find_node(q) \cup Subtree(p)
  /\ node' = [m \in Nodes |->
       IF m \in Subtree(p) THEN [node[m] EXCEPT !.path = renamed_path(p, q, @)]
       ELSE IF m \in find_node(q) THEN Absent ELSE node[m]]
  /\ handle' = Refreshed(node', handle)

\* readdir: the next child from the cursor on, or the end.
vfs_readdir(h) ==
  LET rest == {n \in Children(node[handle[h].node].path) : n >= handle[h].cursor}
  IN /\ Kind(h) = "Directory"
     /\ handle' = [handle EXCEPT
          ![h].cursor = IF rest = {} THEN NNodes ELSE Min(rest) + 1,
          ![h].due = IF rest = {} THEN @ ELSE @ \ {Min(rest)}]
     /\ UNCHANGED node

-----------------------------------------------------------------------------
(* Linux files.                                                            *)

FreeFiles == {f \in FileSlots : file[f] = Absent}

\* mapped_open_flags, on flags that are already those of the VFS.
mapped_open_flags(flags, directory) == validate_open_flags(flags) /\ ~(directory /\ "CREATE" \in flags)

\* default_file_contents has an answer.
default_file_contents(p) ==
  /\ p # RootPath /\ Last(p) \in ControlFiles
  /\ \E t \in mounts : t = p \/ is_descendant(t, p)

\* The temporary capability of a control file, and what is written with it.
SeedFlags == {"READ", "WRITE", "CREATE", "EXCLUSIVE"}
Contents == <<CHOOSE b \in Data : TRUE>>

Opening(o, p, flags, directory, at) ==
  [owner |-> o, path |-> p, flags |-> flags, directory |-> directory, at |-> at,
   capability |-> Absent, todo |-> [i \in 1..Len(p) |-> SubSeq(p, 1, i)]]

Publish(f, o, h) == file' = [file EXCEPT ![f] = [owner |-> o, capability |-> h]]

\* open up to the first release of the VFS lock.  A file of the persistent
\* root needs no capability; a call that fails here has stored nothing.
file_open(o, p, flags, directory) ==
  /\ opening = Absent /\ FreeFiles # {} /\ mapped_open_flags(flags, directory)
  /\ \/ \E h \in FreeHandles :
          /\ vfs_open(o, h, p, flags)
          /\ opening' = [Opening(o, p, flags, directory, "opened") EXCEPT !.capability = h]
          /\ UNCHANGED file
     \/ /\ open_result(p, flags) = "NotFound" /\ p \in DOMAIN Disk
        /\ flags \cap {"WRITE", "EXCLUSIVE"} = {}
        /\ \/ Disk[p] = "Directory" /\ opening' = Opening(o, p, flags, directory, "parents")
             /\ UNCHANGED file
           \/ Disk[p] = "File" /\ ~directory /\ Publish(Min(FreeFiles), o, Absent)
             /\ UNCHANGED opening
        /\ UNCHANGED <<node, handle>>
     \/ /\ open_result(p, flags) = "NotFound" /\ p \notin DOMAIN Disk /\ default_file_contents(p)
        /\ opening' = Opening(o, p, flags, directory, "seed")
        /\ UNCHANGED <<node, handle, file>>

Fails == opening' = Absent

\* materialize_persistent_path: a mkdir for each prefix of the path.
ensure_persistent_parents ==
  /\ opening # Absent /\ opening.at = "parents"
  /\ LET p == Head(opening.todo)
         rest == Tail(opening.todo)
     IN \/ /\ \/ vfs_mkdir(p)
              \/ mkdir_result(p) = "AlreadyExists" /\ UNCHANGED <<node, handle>>
           /\ opening' = [opening EXCEPT !.todo = rest, !.at = IF rest = <<>> THEN "reopen" ELSE @]
        \/ mkdir_result(p) \notin {"Ok", "AlreadyExists"} /\ Fails /\ UNCHANGED <<node, handle>>
  /\ UNCHANGED file

\* A control file is created, filled and closed before it is opened.
SeedStep ==
  /\ opening # Absent
  /\ \/ /\ opening.at = "seed"
        /\ \/ \E h \in FreeHandles :
                /\ vfs_open(opening.owner, h, opening.path, SeedFlags)
                /\ opening' = [opening EXCEPT !.at = "fill", !.capability = h]
           \/ open_result(opening.path, SeedFlags) # "Ok" /\ Fails /\ UNCHANGED <<node, handle>>
     \/ /\ opening.at = "fill"
        /\ vfs_write(opening.capability, Contents)
        /\ opening' = [opening EXCEPT !.at = "drop"]
     \/ /\ opening.at = "drop"
        /\ CloseHandles({opening.capability})
        /\ opening' = [opening EXCEPT !.at = "reopen", !.capability = Absent]
  /\ UNCHANGED file

Reopen ==
  /\ opening # Absent /\ opening.at = "reopen"
  /\ \/ \E h \in FreeHandles :
          /\ vfs_open(opening.owner, h, opening.path, opening.flags)
          /\ opening' = [opening EXCEPT !.at = "opened", !.capability = h]
     \/ open_result(opening.path, opening.flags) # "Ok" /\ Fails /\ UNCHANGED <<node, handle>>
  /\ UNCHANGED file

\* Mutated form: the capability of something that is no directory is kept.
FinishOpenLeaks ==
  /\ opening # Absent /\ opening.at = "opened"
  /\ IF opening.directory /\ Kind(opening.capability) # "Directory" THEN UNCHANGED file
     ELSE Publish(Min(FreeFiles), opening.owner, opening.capability)
  /\ opening' = Absent
  /\ UNCHANGED <<node, handle>>

\* The end of open: the kind is checked and the slot filled.
FinishOpen ==
  /\ opening # Absent /\ opening.at = "opened"
  /\ IF opening.directory /\ Kind(opening.capability) # "Directory"
     THEN CloseHandles({opening.capability}) /\ UNCHANGED file
     ELSE Publish(Min(FreeFiles), opening.owner, opening.capability) /\ UNCHANGED <<node, handle>>
  /\ opening' = Absent

\* close.
file_close(o, f) ==
  /\ opening = Absent /\ file[f] # Absent /\ file[f].owner = o
  /\ IF file[f].capability = Absent THEN UNCHANGED <<node, handle>>
     ELSE CloseHandles({file[f].capability})
  /\ file' = [file EXCEPT ![f] = Absent]
  /\ UNCHANGED opening

\* mount: cgroup2, the one file system whose files have default contents.
mount(p) ==
  /\ p # RootPath /\ p \notin mounts
  /\ \E n \in find_node(p) : node[n].kind = "Directory"
  /\ mounts' = mounts \cup {p}
  /\ UNCHANGED <<node, handle, file, opening>>

\* A process ends: its descriptors are closed, then its capabilities.
process_exit(o) ==
  /\ o \in LinuxOwners => opening = Absent
  /\ CloseHandles(find_handle(o))
  /\ file' = [f \in FileSlots |-> IF file[f] # Absent /\ file[f].owner = o THEN Absent ELSE file[f]]
  /\ UNCHANGED opening

-----------------------------------------------------------------------------
(* The calls a workload makes.                                             *)

Does(call) == call \in calls.ops

\* The handles a call can name: those of a native process, and those of the
\* files of a Linux process while no open holds FILES.
Named == {h \in VfsHandles : handle[h] # Absent /\ (handle[h].owner \in Native \/ opening = Absent)}

Kept == UNCHANGED <<file, opening, mounts, calls>>

\* A bound on the handles a workload has open at once.
Room == Cardinality(VfsHandles \ FreeHandles) < calls.handles

NativeOpen ==
  /\ Room
  /\ \E o \in Native \cap calls.owners, h \in FreeHandles, p \in calls.paths, flags \in calls.flags :
       vfs_open(o, h, p, flags) /\ Kept
NativeClose ==
  \E h \in VfsHandles : handle[h] # Absent /\ handle[h].owner \in Native /\ CloseHandles({h}) /\ Kept
Read == Does("read") /\ \E h \in Named : vfs_read(h, 1) /\ Kept
Write == Does("write") /\ \E h \in Named, s \in Inputs : vfs_write(h, s) /\ Kept
Seek == Does("seek") /\ \E h \in Named, next \in 0..FILE_BYTES : vfs_seek(h, next) /\ Kept
Readdir == Does("readdir") /\ \E h \in Named : vfs_readdir(h) /\ Kept
Mkdir == Does("mkdir") /\ \E p \in calls.paths : vfs_mkdir(p) /\ Kept
Unlink == Does("unlink") /\ \E p \in calls.paths : vfs_unlink(p) /\ Kept
Rename == Does("rename") /\ \E p, q \in calls.paths : vfs_rename(p, q) /\ Kept

FileOpen ==
  /\ Room
  /\ \E o \in LinuxOwners \cap calls.owners, p \in calls.paths, flags \in calls.flags, d \in BOOLEAN :
       file_open(o, p, flags, d)
  /\ UNCHANGED <<mounts, calls>>
FileOpenStep ==
  (ensure_persistent_parents \/ SeedStep \/ Reopen \/ FinishOpen) /\ UNCHANGED <<mounts, calls>>
FileClose ==
  \E o \in LinuxOwners, f \in FileSlots : file_close(o, f) /\ UNCHANGED <<mounts, calls>>
Mount == Does("mount") /\ \E p \in calls.paths : mount(p) /\ UNCHANGED calls
Exit == Does("exit") /\ \E o \in calls.owners : process_exit(o) /\ UNCHANGED <<mounts, calls>>

\* The root.  What the kernel seeds before the first process runs is made by
\* the calls of the VFS in this order: directories, then a file.
VfsInit ==
  /\ node = [n \in Nodes |-> IF n = 0 THEN Node("Directory", RootPath) ELSE Absent]
  /\ handle = [h \in VfsHandles |-> Absent]
  /\ file = [f \in FileSlots |-> Absent]
  /\ opening = Absent
  /\ mounts = {}
  /\ calls \in FileWorkloads

VfsNext ==
  \/ NativeOpen \/ NativeClose \/ Read \/ Write \/ Seek \/ Readdir
  \/ Mkdir \/ Unlink \/ Rename
  \/ FileOpen \/ FileOpenStep \/ FileClose \/ Mount \/ Exit

VfsSpec == VfsInit /\ [][VfsNext]_vfsVars

-----------------------------------------------------------------------------
(* Properties.                                                             *)

\* The flat table of whole paths behaves as a tree: opens with create and
\* truncate, writes at any position, mkdir, unlink and rename change one
\* object or one edge, a rename carries everything below it and every open
\* handle along, and nothing is ever left without its directory, under the
\* name of another, or freed while a handle names it (akashic_vfs.rs).
Tree ==
  INSTANCE FileTree WITH
    Objects <- Nodes, Root <- 0, Handles <- VfsHandles, Names <- Components,
    MaxBytes <- FILE_BYTES, Positions <- 0..Max({NNodes, FILE_BYTES}),
    tree <- [n \in Nodes |->
       IF node[n] = Absent THEN Absent
       ELSE [kind |-> node[n].kind,
             parent |-> IF node[n].path = RootPath THEN 0 ELSE Entry(Front(node[n].path)),
             name |-> IF node[n].path = RootPath THEN Absent ELSE Last(node[n].path),
             data |-> SubSeq(node[n].content, 1, node[n].content_len)]],
    held <- [h \in VfsHandles |->
       IF handle[h] = Absent THEN Absent
       ELSE [object |-> handle[h].node, pos |-> handle[h].cursor,
             append |-> "APPEND" \in handle[h].flags]]

VfsIsTree == Tree!TreeSpec

\* Open counts and handles agree, so what unlink and rename call busy is
\* exactly what somebody has open; each Linux file, or the open in progress,
\* has the one capability of its owner it was given, also when the open failed
\* half way; and a listing that has passed a place in the table has returned
\* every entry that was in the directory all along.
HandlesExact ==
  /\ \A n \in Nodes : node[n] # Absent =>
       node[n].open_count = Cardinality({h \in VfsHandles : handle[h] # Absent /\ handle[h].node = n})
  /\ \A h \in VfsHandles : handle[h] # Absent =>
       /\ node[handle[h].node] # Absent
       /\ \A n \in handle[h].due : n >= handle[h].cursor
       /\ handle[h].owner \in LinuxOwners =>
            Cardinality({f \in FileSlots : file[f] # Absent /\ file[f].capability = h})
              + (IF opening # Absent /\ opening.capability = h THEN 1 ELSE 0) = 1
  /\ \A f \in FileSlots : file[f] # Absent /\ file[f].capability # Absent =>
       /\ handle[file[f].capability] # Absent
       /\ handle[file[f].capability].owner = file[f].owner
=============================================================================
