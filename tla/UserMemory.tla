----------------------------- MODULE UserMemory -----------------------------
(***************************************************************************)
(* User address spaces: the page-table back end of process/x86_64.rs, the  *)
(* installer that fills it (process/install.rs), and the memory files      *)
(* whose frames it shares between spaces (linux_memfd.rs).                 *)
(*                                                                         *)
(* An address is a page number.  The three upper levels of the hierarchy   *)
(* are one table per TableSpan pages, and `leaf' holds every last-level    *)
(* entry of a space.  A call holds the RUNTIME lock from start to end, so  *)
(* it is one step; ftruncate releases the MEMFDS lock around the resize    *)
(* and is three.  A call may meet an empty frame pool, or one entry write  *)
(* that fails (`fuse' counts the writes until then, 0 for never).  A call  *)
(* that maps takes back what it did; one that takes pages away, or all     *)
(* access to them, stops where it is and leaves the space `torn'.          *)
(***************************************************************************)
EXTENDS Integers, FiniteSets, Sequences, FiniteSetsExt, SequencesExt

CONSTANTS
  NSpaces,      \* MAXIMUM_RETAINED_PROCESSES
  NMaps,        \* MAXIMUM_PROCESS_SEGMENTS
  NPages,       \* MAXIMUM_PROCESS_PAGES
  NOwned,       \* MAXIMUM_OWNED_FRAMES
  NShared,      \* MAXIMUM_MEMFDS and MAXIMUM_SHARED_BACKINGS
  MaxSpaceGen,  \* u32::MAX for generations, scaled down
  StackPage,    \* INITIAL_USER_STACK_BASE
  BrkBase,      \* LINUX_BRK_BASE
  BrkPages,     \* LINUX_BRK_MAXIMUM_BYTES
  MmapBase,     \* LINUX_MMAP_BASE
  Limit,        \* the first non-canonical page
  TableSpan,    \* pages one last-level table maps
  SharedPages,  \* MAXIMUM_MEMFD_BYTES
  Threads,      \* threads inside ftruncate
  Workloads,    \* the frames, the images and the calls of a run
  None

Spaces == 1 .. NSpaces
Backings == 1 .. NShared
UserPages == 1 .. Limit - 1
Tables == 0 .. Limit \div TableSpan
Access == {{}, {"r"}, {"r", "w"}, {"r", "x"}}

ASSUME UserMemoryConstants ==
  /\ {NSpaces, NMaps, NPages, NOwned, NShared, MaxSpaceGen, TableSpan} \subseteq Nat \ {0}
  /\ {StackPage, BrkBase, BrkPages, MmapBase, Limit, SharedPages} \subseteq Nat \ {0}
  /\ StackPage < Limit /\ BrkBase + BrkPages <= Limit /\ MmapBase < Limit

VARIABLES
  work,     \* the workload
  space,    \* FrameBackedAddressSpace.slots, with the entries of their tables
  free,     \* the frames of the pool
  shared,   \* FrameBackedAddressSpace.shared
  memfd,    \* MEMFDS
  trunc,    \* the ftruncate each thread is in
  outcome   \* how the last call ended

memVars == <<work, space, free, shared, memfd, trunc, outcome>>

NoLeaf == [frame |-> 0, perm |-> {}]
NoPage == [va |-> 0, frame |-> 0]
NoMap == [kind |-> "free", va |-> 0, n |-> 0, first |-> 0, perm |-> {}, id |-> None, off |-> 0]
NoBacking == [id |-> None, open |-> FALSE, size |-> 0, frames |-> <<>>, refs |-> 0]

\* reset_records, and the state of a slot that holds no image.
FreeSpace(g) ==
  [phase |-> "Free", gen |-> g, root |-> 0, tables |-> [t \in Tables |-> 0],
   leaf |-> [v \in UserPages |-> NoLeaf], maps |-> [j \in 1 .. NMaps |-> NoMap],
   pages |-> [i \in 1 .. NPages |-> NoPage], owned |-> {}, brk |-> 0, torn |-> FALSE]

Releasable(r) == r.kind \in {"private", "shared"}
Mapped(sp) == {j \in 1 .. NMaps : sp.maps[j].kind # "free"}
WriteExecute(p) == {"w", "x"} \subseteq p
Lowest(S) == IF S = {} THEN 0 ELSE Min(S)
Sorted(S) == [k \in 1 .. Cardinality(S) |-> CHOOSE x \in S : Cardinality({y \in S : y < x}) = k - 1]
Upto(n) == [k \in 1 .. n |-> k]

\* Pages that hold a number of half pages.
div_ceil(halves) == (halves + 1) \div 2

-----------------------------------------------------------------------------
(* One call: the space it works on and everything it may take or give.     *)

Enter(sp, fuse) == [sp |-> sp, free |-> free, shared |-> shared, fuse |-> fuse,
                    got |-> 0, err |-> "ok"]
Fail(m, e) == [m EXCEPT !.err = e]
Ok(m) == m.err = "ok"
Then(m, F(_)) == IF Ok(m) THEN F(m) ELSE m

allocate_owned(m) ==
  IF Cardinality(m.sp.owned) = NOwned THEN Fail(m, "Capacity")
  ELSE IF m.free = {} THEN Fail(m, "Memory")
  ELSE LET f == Min(m.free)
       IN [m EXCEPT !.free = @ \ {f}, !.sp.owned = @ \cup {f}, !.got = f]

release_owned_frame(m, f) ==
  IF f \notin m.sp.owned THEN Fail(m, "Corrupt")
  ELSE [m EXCEPT !.free = @ \cup {f}, !.sp.owned = @ \ {f}]

\* write_entry: done is the state in which the entry is written.
Written(m, done) ==
  IF m.fuse = 1 THEN [m EXCEPT !.fuse = 0, !.err = "Memory"]
  ELSE [done EXCEPT !.fuse = IF @ = 0 THEN 0 ELSE @ - 1]

\* The walk to a page's entry, which makes the table it misses.
ensure_leaf_slot(m, va) ==
  LET t == va \div TableSpan
  IN Then(IF m.sp.tables[t] # 0 THEN m
          ELSE Then(allocate_owned(m), LAMBDA a : Written(a, [a EXCEPT !.sp.tables[t] = a.got])),
          LAMBDA b : IF b.sp.leaf[va] # NoLeaf THEN Fail(b, "Conflict") ELSE b)

\* One page of a mapping: a frame of its own, or (frame # 0) a shared one.
map_page(m, va, i, perm, frame) ==
  LET Kept(w, f) == IF ~Ok(w) /\ frame = 0 THEN Fail(release_owned_frame(w, f), w.err) ELSE w
      Put(a, f) == Kept(Written(a, [a EXCEPT !.sp.leaf[va] = [frame |-> f, perm |-> perm],
                                             !.sp.pages[i] = [va |-> va, frame |-> f]]), f)
  IN Then(ensure_leaf_slot(m, va),
          LAMBDA e : IF frame # 0 THEN Put(e, frame) ELSE Then(allocate_owned(e), LAMBDA a : Put(a, a.got)))

\* One page of a mapping taken away; a record already empty is passed over, or
\* (strict) is an error.
unmap_page(m, i, own, strict) ==
  LET p == m.sp.pages[i]
  IN IF ~Ok(m) \/ (p.va = 0 /\ ~strict) THEN m
     ELSE IF p.va = 0 THEN Fail(m, "Corrupt")
     ELSE Then(Then(Written(m, [m EXCEPT !.sp.leaf[p.va] = NoLeaf]),
                    LAMBDA w : IF own THEN release_owned_frame(w, p.frame) ELSE w),
               LAMBDA r : [r EXCEPT !.sp.pages[i] = NoPage])

\* A write that fails leaves the pages before it unmapped.
unmap_run(m, first, n, own, strict) ==
  LET step(x, k) == unmap_page(x, first + k - 1, own, strict)
      Stopped(u) == [u EXCEPT !.sp.torn = @ \/ (m.fuse > 1 /\ u.fuse = 0 /\ ~Ok(u))]
  IN Stopped(FoldLeft(step, m, Upto(n)))

\* Mutated form: a failure part of the way leaves the pages mapped so far.
map_run_no_rollback(m, va, first, n, perm, frames) ==
  LET step(x, k) == Then(x, LAMBDA y : map_page(y, va + k - 1, first + k - 1, perm,
                                                IF frames = <<>> THEN 0 ELSE frames[k]))
  IN FoldLeft(step, m, Upto(n))

\* The page loop of mmap and brk, and rollback_linux_mapping_pages or
\* rollback_shared_mapping_pages when it stops early.
map_run(m, va, first, n, perm, frames) ==
  LET step(x, k) == Then(x, LAMBDA y : map_page(y, va + k - 1, first + k - 1, perm,
                                                IF frames = <<>> THEN 0 ELSE frames[k]))
      Finished(r) == IF Ok(r) THEN r
                     ELSE Fail(unmap_run([r EXCEPT !.err = "ok", !.fuse = 0], first, n, frames = <<>>, FALSE), r.err)
  IN Finished(FoldLeft(step, m, Upto(n)))

free_mapping(sp) == Lowest(1 .. NMaps \ Mapped(sp))
free_page_run(sp, n) ==
  Lowest({i \in 1 .. NPages - n + 1 : \A k \in i .. i + n - 1 : sp.pages[k].va = 0})

\* What a new mapping must stay clear of: the whole break arena, every
\* mapping, every page.
Taken(sp) ==
  {[lo |-> BrkBase, hi |-> BrkBase + BrkPages]}
    \cup {[lo |-> sp.maps[j].va, hi |-> sp.maps[j].va + sp.maps[j].n] : j \in Mapped(sp)}
    \cup {[lo |-> sp.pages[i].va, hi |-> sp.pages[i].va + 1] :
            i \in {i \in 1 .. NPages : sp.pages[i].va # 0}}

\* The first gap at or after the hint, or 0.
find_linux_mmap_base(sp, hint, n) ==
  LET base[c \in 1 .. Limit] ==
        LET past == {t.hi : t \in {t \in Taken(sp) : c < t.hi /\ t.lo < c + n}}
        IN IF c + n > Limit THEN 0
           ELSE IF past = {} THEN c ELSE base[Max(past)]
  IN base[IF hint = 0 THEN MmapBase ELSE hint]

-----------------------------------------------------------------------------
(* Private mappings.                                                       *)

linux_mmap_private(m, hint, n, perm) ==
  LET j == free_mapping(m.sp)
      i == free_page_run(m.sp, n)
      base == find_linux_mmap_base(m.sp, hint, n)
  IN IF "r" \notin perm \/ WriteExecute(perm) THEN Fail(m, "InvalidRange")
     ELSE IF 0 \in {j, i, base} \/ Cardinality(m.sp.owned) + n > NOwned THEN Fail(m, "Capacity")
     ELSE Then(map_run(m, base, i, n, perm, <<>>),
               LAMBDA r : [r EXCEPT !.sp.maps[j] = [kind |-> "private", va |-> base, n |-> n, first |-> i,
                                                    perm |-> perm, id |-> None, off |-> 0]])

BackingOf(sh, id) == Lowest({b \in Backings : sh[b].id = id})

drop_shared_mapping_reference(m, id) ==
  LET b == BackingOf(m.shared, id)
      left == m.shared[b].refs - 1
  IN IF b = 0 \/ left < 0 THEN Fail(m, "Corrupt")
     ELSE IF left = 0 /\ ~m.shared[b].open
       THEN [m EXCEPT !.shared[b] = NoBacking, !.free = @ \cup Range(m.shared[b].frames)]
     ELSE [m EXCEPT !.shared[b].refs = left]

linux_munmap(m, va, n) ==
  LET j == Lowest({j \in 1 .. NMaps : /\ Releasable(m.sp.maps[j])
                                      /\ m.sp.maps[j].va = va /\ m.sp.maps[j].n = n})
      r == m.sp.maps[j]
  IN IF j = 0 THEN Fail(m, "InvalidRange")
     ELSE Then(Then(unmap_run(m, r.first, r.n, r.kind = "private", FALSE),
                    LAMBDA u : IF r.kind = "shared" THEN drop_shared_mapping_reference(u, r.id) ELSE u),
               LAMBDA d : [d EXCEPT !.sp.maps[j] = NoMap])

\* checked_mapping_leaf: page k of a record, present and backed by its frame.
LeafChecked(m, r, k) ==
  LET p == m.sp.pages[r.first + k]
  IN /\ p.va = r.va + k /\ p.frame # 0
     /\ m.sp.leaf[p.va].frame = p.frame /\ "r" \in m.sp.leaf[p.va].perm

\* frame_for_mapping_page, or 0: page k counts from the start of the record.
frame_for_mapping_page(m, r, k) ==
  LET f == m.sp.pages[r.first + k].frame
      b == BackingOf(m.shared, r.id)
  IN IF r.kind # "shared" THEN f
     ELSE IF b # 0 /\ r.off + k < Len(m.shared[b].frames) /\ m.shared[b].frames[r.off + k + 1] = f
       THEN f ELSE 0

\* The record is cut into the range asked for and what is left on each side.
Split(sp, j, r, va, n, perm, piece) ==
  LET k == va - r.va
      rest == r.n - k - n
      before == IF k = 0 THEN <<>> ELSE <<[r EXCEPT !.n = k]>>
      after == IF rest = 0 THEN <<>>
               ELSE <<[r EXCEPT !.va = va + n, !.n = rest, !.first = @ + k + n]>>
      sides == before \o after
  IN [sp EXCEPT !.maps = [x \in 1 .. NMaps |->
        IF x = j THEN [r EXCEPT !.va = va, !.n = n, !.first = @ + k, !.perm = perm]
        ELSE IF x \in Range(SubSeq(piece, 1, Len(sides)))
          THEN sides[CHOOSE y \in 1 .. Len(sides) : piece[y] = x] ELSE sp.maps[x]]]

SetAccess(sp, va, n, perm) ==
  [sp EXCEPT !.leaf = [v \in UserPages |->
     IF v \in va .. va + n - 1 THEN [sp.leaf[v] EXCEPT !.perm = perm] ELSE sp.leaf[v]]]

\* The fuse-th entry write of the range fails.  The way back checks every leaf
\* again, and a leaf that has just lost its present bit fails that check.
ProtectFails(m, va, perm) ==
  IF "r" \in perm \/ m.fuse = 1 THEN [m EXCEPT !.err = "Memory", !.fuse = 0]
  ELSE [m EXCEPT !.err = "Corrupt", !.fuse = 0, !.sp = [SetAccess(@, va, m.fuse - 1, perm) EXCEPT !.torn = TRUE]]

linux_mprotect(m, va, n, perm) ==
  LET j == Lowest({j \in 1 .. NMaps : /\ m.sp.maps[j].kind \notin {"free", "heap"}
                                      /\ va >= m.sp.maps[j].va
                                      /\ va + n <= m.sp.maps[j].va + m.sp.maps[j].n})
      r == m.sp.maps[j]
      k == va - r.va
      sides == Cardinality({s \in {"before", "after"} :
                              IF s = "before" THEN k # 0 ELSE k + n # r.n})
      piece == Sorted(1 .. NMaps \ Mapped(m.sp))
      range == [r EXCEPT !.va = va, !.first = @ + k]
      sound == \A x \in 0 .. n - 1 :
                 /\ LeafChecked(m, range, x)
                 /\ m.sp.leaf[va + x] = [frame |-> frame_for_mapping_page(m, r, x),
                                         perm |-> r.perm]
  IN IF j = 0 THEN Fail(m, "InvalidRange")
     ELSE IF Releasable(r) /\ (k # 0 \/ n # r.n) THEN Fail(m, "InvalidRange")
     ELSE IF Len(piece) < sides THEN Fail(m, "Capacity")
     ELSE IF ~sound THEN Fail(m, "Corrupt")
     ELSE IF perm = r.perm THEN m
     ELSE IF m.fuse \in 1 .. n THEN ProtectFails(m, va, perm)
     ELSE [m EXCEPT !.sp = Split(SetAccess(@, va, n, perm), j, r, va, n, perm, piece)]

BeyondArena(halves) == halves > 2 * BrkPages

\* The break, in half pages above LINUX_BRK_BASE.
linux_brk(m, halves) ==
  LET want == div_ceil(halves)
      j == Lowest({j \in 1 .. NMaps : m.sp.maps[j].kind = "heap"})
      have == IF j = 0 THEN 0 ELSE m.sp.maps[j].n
      more == want - have
      first == IF j = 0 THEN free_page_run(m.sp, want) ELSE m.sp.maps[j].first
      slot == IF j = 0 THEN free_mapping(m.sp) ELSE j
      room == /\ slot # 0 /\ first # 0 /\ first + want - 1 <= NPages
              /\ \A i \in first + have .. first + want - 1 : m.sp.pages[i].va = 0
      heap == [kind |-> "heap", va |-> BrkBase, n |-> want, first |-> first,
               perm |-> {"r", "w"}, id |-> None, off |-> 0]
  IN IF BeyondArena(halves) THEN Fail(m, "Capacity")
     ELSE IF want = have THEN [m EXCEPT !.sp.brk = halves]
     ELSE IF want < have
       THEN Then(unmap_run(m, m.sp.maps[j].first + want, have - want, TRUE, TRUE),
                 LAMBDA cut : [cut EXCEPT !.sp.maps[j].n = want, !.sp.brk = halves])
     ELSE IF Cardinality(m.sp.owned) + more > NOwned \/ ~room THEN Fail(m, "Capacity")
     ELSE Then(map_run(m, BrkBase + have, first + have, more, {"r", "w"}, <<>>),
               LAMBDA grown : [grown EXCEPT !.sp.maps[slot] = heap, !.sp.brk = halves])

-----------------------------------------------------------------------------
(* Images.                                                                 *)

Overlaps(a, b) == a.lo < b.hi /\ b.lo < a.hi
Merge(a, b) == [lo |-> Min({a.lo, b.lo}), hi |-> Max({a.hi, b.hi}), perm |-> a.perm \cup b.perm]

\* Group g, grown by a segment, takes in the later groups it now touches; the
\* last group fills the hole.
Absorb(gs, g) ==
  LET step(x, k) ==
        IF Overlaps(x.gs[g], x.gs[x.o])
          THEN [x EXCEPT !.gs = Front([@ EXCEPT ![g] = Merge(@, x.gs[x.o]), ![x.o] = Last(x.gs)])]
          ELSE [x EXCEPT !.o = @ + 1]
  IN FoldLeft(step, [gs |-> gs, o |-> g + 1], Upto(Len(gs) - g)).gs

\* Mutated form: a segment joins the first group it touches and no other.
segment_groups_once(segs) ==
  LET step(gs, s) ==
        LET g == Lowest({g \in DOMAIN gs : Overlaps(gs[g], s)})
        IN IF g = 0 THEN Append(gs, s) ELSE [gs EXCEPT ![g] = Merge(@, s)]
  IN FoldLeft(step, <<>>, segs)

\* The staged groups of an image's segments.
segment_groups(segs) ==
  LET step(gs, s) ==
        LET g == Lowest({g \in DOMAIN gs : Overlaps(gs[g], s)})
        IN IF g = 0 THEN Append(gs, s) ELSE Absorb([gs EXCEPT ![g] = Merge(@, s)], g)
  IN FoldLeft(step, <<>>, segs)

\* map_zeroed: frames and tables, and no entry yet.
map_zeroed(m, g) ==
  LET first == free_page_run(m.sp, g.hi - g.lo)
      j == free_mapping(m.sp)
      Staged(a, k) == Then(ensure_leaf_slot(a, g.lo + k - 1),
                           LAMBDA e : [e EXCEPT !.sp.pages[first + k - 1] = [va |-> g.lo + k - 1, frame |-> a.got]])
      stage(x, k) == Then(x, LAMBDA y : Then(allocate_owned(y), LAMBDA a : Staged(a, k)))
  IN IF ~Ok(m) THEN m
     ELSE IF first = 0 \/ j = 0 THEN Fail(m, "Capacity")
     ELSE Then(FoldLeft(stage, m, Upto(g.hi - g.lo)),
               LAMBDA r : [r EXCEPT !.sp.maps[j] = [kind |-> "static", va |-> g.lo, n |-> g.hi - g.lo,
                                                    first |-> first, perm |-> g.perm, id |-> None, off |-> 0]])

seal(m, j) ==
  LET r == m.sp.maps[j]
      write(x, k) ==
        IF ~Ok(x) THEN x
        ELSE Written(x, [x EXCEPT !.sp.leaf[r.va + k - 1] =
                           [frame |-> m.sp.pages[r.first + k - 1].frame, perm |-> r.perm]])
  IN IF ~Ok(m) THEN m
     ELSE IF "r" \notin r.perm \/ WriteExecute(r.perm) THEN Fail(m, "Permissions")
     ELSE FoldLeft(write, m, Upto(r.n))

initialize_root(m) == Then(allocate_owned(m), LAMBDA a : Written(a, [a EXCEPT !.sp.root = a.got]))

commit(m, entry) ==
  IF ~Ok(m) THEN m
  ELSE IF \E j \in Mapped(m.sp) : /\ "x" \in m.sp.maps[j].perm
                                  /\ entry \in m.sp.maps[j].va .. m.sp.maps[j].va + m.sp.maps[j].n - 1
    THEN [m EXCEPT !.sp.phase = "Committed"] ELSE Fail(m, "InvalidState")

\* Mutated form: what a failed install held is not given back.
cleanup_transaction_leaks(m) == [m EXCEPT !.sp = FreeSpace(m.sp.gen)]

\* abort and release_process: the records go, and every frame the space owned.
cleanup_transaction(m) ==
  [m EXCEPT !.sp = FreeSpace(m.sp.gen), !.free = @ \cup m.sp.owned]

\* install_exec_image: stage, seal and commit the groups, then the stack; any
\* failure gives the whole space back.
install_exec_image(m, plan) ==
  LET gs == segment_groups(plan.segs)
      Stack(done) == IF free_page_run(done.sp, 1) = 0 THEN Fail(done, "InvalidState")
                     ELSE map_page(done, StackPage, free_page_run(done.sp, 1), {"r", "w"}, 0)
      Finished(r) == IF Ok(r) THEN r ELSE cleanup_transaction(r)
  IN Finished(Then(commit(FoldLeft(seal, FoldLeft(map_zeroed, initialize_root(m), gs), Upto(Len(gs))), plan.entry), Stack))

\* drop_slot_shared_mappings, then the space.
release_process(m) ==
  LET drop(x, j) == IF x.sp.maps[j].kind = "shared"
                      THEN drop_shared_mapping_reference(x, x.sp.maps[j].id) ELSE x
  IN cleanup_transaction(FoldLeft(drop, m, Upto(NMaps)))

-----------------------------------------------------------------------------
(* Memory files.                                                           *)

Identity(i) == <<i, memfd[i].gen>>

\* memfd_create: the slot, then its backing; without a backing the slot goes
\* back, its generation spent.
MemfdCreate ==
  LET i == Lowest({i \in 1 .. work.files : ~memfd[i].open})
      b == Lowest({b \in 1 .. work.files : shared[b].id = None})
      g == memfd[i].gen + 1
  IN /\ "memfd" \in work.calls /\ i # 0 /\ g <= MaxSpaceGen
     /\ memfd' = [memfd EXCEPT ![i] = [open |-> b # 0, gen |-> g, size |-> 0]]
     /\ shared' = IF b = 0 THEN shared
                  ELSE [shared EXCEPT ![b] = [NoBacking EXCEPT !.id = <<i, g>>, !.open = TRUE]]
     /\ outcome' = IF b = 0 THEN "Capacity" ELSE "ok"
     /\ UNCHANGED <<work, space, free, trunc>>

Truncating(i) == \E t \in Threads : IF trunc[t] = None THEN FALSE ELSE trunc[t].i = i

\* ftruncate, first section: the size the caller believes in.
TruncateRead(t, i, size) ==
  /\ "memfd" \in work.calls /\ trunc[t] = None /\ memfd[i].open
  /\ trunc' = [trunc EXCEPT ![t] = [i |-> i, gen |-> memfd[i].gen, old |-> memfd[i].size,
                                    new |-> size, at |-> "resize"]]
  /\ UNCHANGED <<work, space, free, shared, memfd, outcome>>

\* linux_shared_memory_resize accepts: nobody resized meanwhile, and a mapped
\* file does not shrink.
linux_shared_memory_resize(b, old, new) ==
  /\ shared[b].size = old
  /\ new < old => shared[b].refs = 0

\* Second section, under the RUNTIME lock: the frames past the end go.
TruncateResize(t) ==
  LET q == trunc[t]
      b == Lowest({b \in Backings : shared[b].id = <<q.i, q.gen>> /\ shared[b].open})
      kept == SubSeq(shared[b].frames, 1, Min({Len(shared[b].frames), div_ceil(q.new)}))
      fits == b # 0 /\ linux_shared_memory_resize(b, q.old, q.new)
  IN /\ trunc[t] # None /\ q.at = "resize"
     /\ trunc' = [trunc EXCEPT ![t] = IF fits THEN [q EXCEPT !.at = "publish"] ELSE None]
     /\ shared' = IF fits THEN [shared EXCEPT ![b].size = q.new, ![b].frames = kept] ELSE shared
     /\ free' = IF fits THEN free \cup (Range(shared[b].frames) \ Range(kept)) ELSE free
     /\ outcome' = IF fits THEN "ok" ELSE "NotSupported"
     /\ UNCHANGED <<work, space, memfd>>

\* Third section: the size is published, unless it changed under the caller.
TruncatePublish(t) ==
  LET q == trunc[t]
      same == memfd[q.i].open /\ memfd[q.i].gen = q.gen /\ memfd[q.i].size = q.old
  IN /\ trunc[t] # None /\ q.at = "publish"
     /\ memfd' = IF same THEN [memfd EXCEPT ![q.i].size = q.new] ELSE memfd
     /\ trunc' = [trunc EXCEPT ![t] = None]
     /\ outcome' = IF same THEN "ok" ELSE "Permission"
     /\ UNCHANGED <<work, space, free, shared>>

\* linux_shared_memory_close: the mappings keep the backing.
linux_shared_memory_close(b) ==
  IF shared[b].refs = 0 THEN NoBacking ELSE [shared[b] EXCEPT !.open = FALSE]

\* The last descriptor of the file is closed; no call holds a lease on it.
MemfdClose(i) ==
  LET b == BackingOf(shared, Identity(i))
      left == linux_shared_memory_close(b)
  IN /\ memfd[i].open /\ ~Truncating(i)
     /\ shared' = [shared EXCEPT ![b] = left]
     /\ free' = IF left = NoBacking THEN free \cup Range(shared[b].frames) ELSE free
     /\ memfd' = [memfd EXCEPT ![i].open = FALSE, ![i].size = 0]
     /\ outcome' = "ok"
     /\ UNCHANGED <<work, space, trunc>>

\* ensure_shared_frames: all the frames that are missing, or none.
ensure_shared_frames(m, b, n) ==
  LET missing == n - Len(m.shared[b].frames)
      new == SubSeq(Sorted(m.free), 1, missing)
  IN IF missing <= 0 THEN m
     ELSE IF Cardinality(m.free) < missing THEN Fail(m, "Memory")
     ELSE [m EXCEPT !.free = @ \ Range(new), !.shared[b].frames = @ \o new]

\* A length in half pages; the mapping covers whole pages.
linux_mmap_shared(m, id, hint, halves, off, perm) ==
  LET b == Lowest({b \in Backings : m.shared[b].id = id /\ m.shared[b].open})
      n == div_ceil(halves)
      j == free_mapping(m.sp)
      i == free_page_run(m.sp, n)
      base == find_linux_mmap_base(m.sp, hint, n)
      Backed(e) == IF 0 \in {j, i, base} THEN Fail(e, "Capacity")
                   ELSE map_run(e, base, i, n, perm, SubSeq(e.shared[b].frames, off + 1, off + n))
  IN IF "r" \notin perm \/ WriteExecute(perm) THEN Fail(m, "InvalidRange")
     ELSE IF b = 0 THEN Fail(m, "InvalidHandle")
     ELSE IF 2 * off + halves > m.shared[b].size THEN Fail(m, "InvalidRange")
     ELSE Then(Then(ensure_shared_frames(m, b, off + n), Backed),
               LAMBDA r : [r EXCEPT !.shared[b].refs = @ + 1,
                                    !.sp.maps[j] = [kind |-> "shared", va |-> base, n |-> n, first |-> i,
                                                    perm |-> perm, id |-> id, off |-> off]])

-----------------------------------------------------------------------------
(* The calls.                                                              *)

\* The entry write at which a call fails.
Fuses == 0 .. work.fuse

Return(p, m) ==
  /\ space' = [space EXCEPT ![p] = m.sp]
  /\ free' = m.free /\ shared' = m.shared
  /\ outcome' = m.err
  /\ UNCHANGED <<work, memfd, trunc>>

Runs(p, name) == name \in work.calls /\ space[p].phase = "Committed"

Install(plan, fuse) ==
  LET p == Lowest({p \in 1 .. work.spaces : space[p].phase = "Free" /\ space[p].owned = {}})
      g == IF space[p].gen = MaxSpaceGen THEN 1 ELSE space[p].gen + 1
  IN /\ p # 0 /\ space[p].gen < work.lives
     /\ Return(p, install_exec_image(Enter(FreeSpace(g), fuse), plan))

Mmap(p, hint, n, perm, fuse) ==
  /\ Runs(p, "mmap")
  /\ Return(p, linux_mmap_private(Enter(space[p], fuse), hint, n, perm))

\* The size is read through the descriptor, then the back end checks its own.
MmapShared(p, i, hint, halves, off, perm, fuse) ==
  /\ Runs(p, "mmap_shared") /\ memfd[i].open
  /\ 2 * off + halves <= memfd[i].size
  /\ Return(p, linux_mmap_shared(Enter(space[p], fuse), Identity(i), hint, halves, off, perm))

Munmap(p, va, n, fuse) ==
  /\ Runs(p, "munmap")
  /\ Return(p, linux_munmap(Enter(space[p], fuse), va, n))

Mprotect(p, va, n, perm, fuse) ==
  /\ Runs(p, "mprotect")
  /\ Return(p, linux_mprotect(Enter(space[p], fuse), va, n, perm))

Brk(p, halves, fuse) ==
  /\ Runs(p, "brk")
  /\ Return(p, linux_brk(Enter(space[p], fuse), halves))

Exit(p) ==
  /\ space[p].phase = "Committed"
  /\ Return(p, release_process(Enter(space[p], 0)))

\* The addresses a process names: its pages, and one that stands for the
\* unmapped ones, which the calls refuse alike.
Targets(p) == {v \in UserPages : space[p].leaf[v] # NoLeaf \/ v = Limit - 1}

MemInit ==
  /\ work \in Workloads
  /\ space = [p \in Spaces |-> FreeSpace(0)]
  /\ free = 1 .. work.frames
  /\ shared = [b \in Backings |-> NoBacking]
  /\ memfd = [i \in Backings |-> [open |-> FALSE, gen |-> 0, size |-> 0]]
  /\ trunc = [t \in Threads |-> None]
  /\ outcome = "ok"

MemNext ==
  \/ \E plan \in work.plans, fuse \in Fuses : Install(plan, fuse)
  \/ \E p \in Spaces : Exit(p)
  \/ \E p \in Spaces, hint \in work.hints, n \in 1 .. work.length, perm \in work.access, fuse \in Fuses :
       Mmap(p, hint, n, perm, fuse)
  \/ \E p \in Spaces, i \in Backings, halves \in work.sizes \ {0}, off \in 0 .. 1,
        perm \in work.access, fuse \in Fuses : MmapShared(p, i, 0, halves, off, perm, fuse)
  \/ \E p \in Spaces, n \in 1 .. work.length, fuse \in Fuses :
       \E va \in Targets(p) : Munmap(p, va, n, fuse)
  \/ \E p \in Spaces, n \in 1 .. work.length, perm \in work.access :
       \E va \in Targets(p), fuse \in Fuses : Mprotect(p, va, n, perm, fuse)
  \/ \E p \in Spaces, halves \in 0 .. 2 * BrkPages + 1, fuse \in Fuses : Brk(p, halves, fuse)
  \/ MemfdCreate
  \/ \E t \in Threads, i \in Backings, size \in work.sizes : TruncateRead(t, i, size)
  \/ \E t \in Threads : TruncateResize(t) \/ TruncatePublish(t)
  \/ \E i \in Backings : MemfdClose(i)

MemSpec == MemInit /\ [][MemNext]_memVars

-----------------------------------------------------------------------------
(* Properties.                                                             *)

Committed == {p \in Spaces : space[p].phase = "Committed"}

\* A shared backing lives exactly as long as somebody can reach it: it is kept
\* while its file is open or a mapping names it, it counts those mappings, and
\* it is gone with the last of them.  Between ftruncate calls its size is the
\* one the descriptor reports, and no mapping reaches past it.
SharedLifetime ==
  /\ \A b \in Backings : shared[b].id # None =>
       /\ shared[b].refs = Cardinality({<<p, j>> \in Committed \X (1 .. NMaps) :
                                          space[p].maps[j].kind = "shared" /\ space[p].maps[j].id = shared[b].id})
       /\ shared[b].open \/ shared[b].refs > 0
       /\ shared[b].open <=> \E i \in Backings : memfd[i].open /\ Identity(i) = shared[b].id
  /\ \A i \in Backings : memfd[i].open =>
       LET b == BackingOf(shared, Identity(i))
       IN /\ b # 0
          /\ ~Truncating(i) => shared[b].size = memfd[i].size
          /\ \A p \in Committed, j \in 1 .. NMaps :
               space[p].maps[j].kind = "shared" /\ space[p].maps[j].id = Identity(i)
                 => space[p].maps[j].off + space[p].maps[j].n <= div_ceil(shared[b].size)

\* Every frame of the pool is free, owned by one address space, or part of one
\* shared backing that somebody can reach (SharedLifetime): nothing install,
\* mmap, brk, munmap, ftruncate, close or exit does, finished or rolled back,
\* leaks a frame or frees it twice.
FramesOwnedOnce ==
  LET holders(f) == {<<"space", p>> : p \in {p \in Spaces : f \in space[p].owned}}
                      \cup {<<"shared", b>> : b \in {b \in Backings : f \in Range(shared[b].frames)}}
                      \cup {<<"free", 0>> : x \in {f} \cap free}
  IN /\ \A f \in 1 .. work.frames : Cardinality(holders(f)) = 1
     /\ \A b \in Backings : Cardinality(Range(shared[b].frames)) = Len(shared[b].frames)
     /\ SharedLifetime

\* The page tables, the page ledger and the mapping records of a running
\* process say the same: an entry is present exactly for the pages the ledger
\* lists, once each; every page of a mapping has the frame and the access its
\* record promises, a private one from the space's own frames and a shared one
\* the page of the memory file at that offset.  A space in which munmap, a
\* shrinking brk or mprotect(PROT_NONE) stopped at a failed write is excepted.
RecordsExact(sp) ==
  LET listed == {i \in 1 .. NPages : sp.pages[i].va # 0}
  IN /\ \A v \in UserPages : sp.leaf[v] # NoLeaf <=> \E i \in listed : sp.pages[i].va = v
     /\ \A i, k \in listed : sp.pages[i].va = sp.pages[k].va => i = k
     /\ \A i \in listed : sp.leaf[sp.pages[i].va].frame = sp.pages[i].frame
     /\ \A j \in Mapped(sp) : \A k \in 0 .. sp.maps[j].n - 1 :
          LET r == sp.maps[j]
              e == sp.leaf[r.va + k]
          IN /\ sp.pages[r.first + k].va = r.va + k /\ e.perm = r.perm
             /\ IF r.kind # "shared" THEN e.frame \in sp.owned
                ELSE /\ BackingOf(shared, r.id) # 0
                     /\ e.frame = shared[BackingOf(shared, r.id)].frames[r.off + k + 1]

\* RecordsExact, and also in a torn space no page shows a frame that went back
\* to the pool, or is writable and executable.
LedgerMatchesTables ==
  \A p \in Committed :
    /\ ~space[p].torn => RecordsExact(space[p])
    /\ \A v \in UserPages : LET e == space[p].leaf[v] IN
         e # NoLeaf => /\ space[p].tables[v \div TableSpan] # 0
                       /\ e.frame \notin free /\ ~WriteExecute(e.perm)

\* A call that reports an error moves no mapping record and no break, and leaves
\* every page of every process as it was, also when it ran out of frames, or
\* failed to write an entry, half way.  Only a call that takes pages away, or all
\* access to them, and tears its space has lost some of them, and has then
\* added nothing.
FailedCallChangesNothing ==
  [][outcome' # "ok" =>
       \A p \in Spaces :
         LET old == space[p]
             new == space'[p]
         IN /\ new.maps = old.maps /\ new.brk = old.brk
            /\ \/ new.leaf = old.leaf /\ new.pages = old.pages
               \/ /\ new.torn
                  /\ \A i \in 1 .. NPages : new.pages[i] \in {old.pages[i], NoPage}
                  /\ \A v \in UserPages :
                       new.leaf[v] \in {old.leaf[v], NoLeaf, [old.leaf[v] EXCEPT !.perm = {}]}]_memVars

\* "A failed write restores all leaves already changed": a call that fails
\* leaves every entry as it was (the comment on linux_mprotect).
FailedWriteRestores ==
  [][outcome' # "ok" => \A p \in Spaces : space'[p].leaf = space[p].leaf]_memVars
=============================================================================
