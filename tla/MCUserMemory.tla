---------------------------- MODULE MCUserMemory ----------------------------
(***************************************************************************)
(* Instances of UserMemory for TLC: every small image layout, one process  *)
(* with private mappings and a heap, and two that share memory files.      *)
(***************************************************************************)
EXTENDS UserMemory

CONSTANT t1

Seg(a, b, p) == [lo |-> a, hi |-> b, perm |-> p]
Good == {s \in {Seg(a, b, p) : a \in 2 .. 4, b \in 3 .. 5, p \in {{"r", "w"}, {"r", "x"}}} : s.lo < s.hi}

Layouts ==
  {[frames |-> 7, fuse |-> 2, sizes |-> {}, files |-> 0, lives |-> 2, spaces |-> 1, length |-> 1, hints |-> {0},
    access |-> {{"r"}}, calls |-> {}, plans |-> {[segs |-> <<a, b, c>>, entry |-> 2]}] : a, b, c \in Good}

Private(hints, calls) ==
  [frames |-> 7, fuse |-> 2, sizes |-> {}, files |-> 0, lives |-> 1, spaces |-> 1, length |-> 2, hints |-> hints,
   access |-> {{}, {"r", "w"}}, calls |-> calls,
   plans |-> {[segs |-> <<Seg(2, 4, {"r", "x"})>>, entry |-> 3]}]

Shared(n, k, f, sizes) ==
  [frames |-> f, fuse |-> 1, sizes |-> sizes, files |-> k, lives |-> 1, spaces |-> n, length |-> 2, hints |-> {0},
   access |-> {{"r", "w"}}, calls |-> {"memfd", "mmap_shared", "munmap"},
   plans |-> {[segs |-> <<Seg(2, 3, {"r", "x"})>>, entry |-> 2]}]

Map == {"mmap", "munmap", "mprotect"}

PrivateOnly == {Private({0}, Map \cup {"brk"})}
ProtectOnly == {Private({0}, {"mmap", "mprotect"})}
MemoryWork == Layouts \cup PrivateOnly \cup
  {Private({0, 3}, Map), Shared(2, 1, 11, {0, 3}), Shared(1, 2, 6, {0, 2})}
=============================================================================
