------------------------------ MODULE Modules ------------------------------
(***************************************************************************)
(* Loading and unloading of native Linux modules: the transactional        *)
(* installer (linux_loader.rs), the native backend with its table of live  *)
(* names (x86_64_native.rs) and the owner of the module window, its page   *)
(* tables and frames (x86_64_memory.rs).                                   *)
(*                                                                         *)
(* The callers serialize everything, so each operation is one step; what   *)
(* makes it hard is that an entry write, an allocation or a release may    *)
(* fail anywhere, and that a processor may have cached any translation     *)
(* since the last invalidation.  tlb holds all it may have cached, and     *)
(* exposed every frame that was given back while it could be reached.      *)
(*                                                                         *)
(* An image is a sequence of pages, each "x" (executable) or "w"           *)
(* (writable).  Parsing, relocation and the bytes are left out: staging    *)
(* succeeds or fails.                                                      *)
(***************************************************************************)
EXTENDS Integers, Sequences, FiniteSets
LOCAL INSTANCE SequencesExt
LOCAL INSTANCE FiniteSetsExt

CONSTANTS
  NModSlots,         \* MAXIMUM_LIVE_LINUX_MODULES
  NExtents,          \* WINDOW_EXTENTS
  PagesPerExtent,    \* PAGES_PER_EXTENT
  NFrames,           \* frames of the pool
  MaxModuleGen,      \* u32::MAX for the generation of a slot, scaled down
  MaxFaults,         \* operations of the memory that fail, per behaviour
  Plans,             \* images: pages, how many are core, alignment, cleanup
  ModuleNames        \* names of modules

VARIABLES
  mm,         \* X86_64LinuxModuleMemory, the tables in memory and the TLB
  prepared,   \* prepared_generations
  live,       \* live_generations and live_names
  loader,     \* the call of install_linux_module in progress
  modules,    \* the handles its callers hold: pending and live modules
  faults      \* what may still fail

moduleVars == <<mm, prepared, live, loader, modules, faults>>

ModSlots == 1 .. NModSlots
Extents == 0 .. NExtents - 1
ModFrames == 1 .. NFrames
NoEntry == [frame |-> 0, perm |-> "-"]
NoName == [gen |-> 0, name |-> "-"]
NoLoad == [at |-> "idle"]

EmptySlot(gen) ==
  [phase |-> "Free", gen |-> gen, start |-> 0, count |-> 0, plan |-> <<>>,
   data |-> <<>>, leaf |-> <<>>, detached |-> TRUE]

\* A failure is a kind and a place: the allocation that fails or returns a
\* frame out of range, the entry that cannot be written ("ext" and "leaf"; in
\* a rollback "drop"), the frame that cannot be released.
At(W, kind) == {w[2] : w \in {w \in W : w[1] = kind}}

-----------------------------------------------------------------------------
(* Tables, translations and frames.                                        *)

\* What a walk of the tables finds at each page of the window.
Walk(m) ==
  {[va |-> e * PagesPerExtent + i, frame |-> m.tab[m.win[e]][i].frame, perm |-> m.tab[m.win[e]][i].perm] :
     <<e, i>> \in {<<e, i>> \in Extents \X (0 .. PagesPerExtent - 1) :
                     m.win[e] # 0 /\ m.tab[m.win[e]][i] # NoEntry}}

\* The processor may cache what it can walk to, at any time.
Cached(m) == [m EXCEPT !.tlb = @ \cup Walk(m)]

\* invalidate_kernel_range, as its contract has it.
invalidate(m, start, n) ==
  Cached([m EXCEPT !.tlb = {t \in @ : t.va \notin start .. start + n - 1}])

\* The frames a processor can reach: pages, and tables it walks through.
Reached(m) ==
  {t.frame : t \in m.tlb \cup Walk(m)} \cup {m.win[e] : e \in Extents} \cup {m.pml2}

GiveBack(m, fs) ==
  [m EXCEPT !.free = @ \cup fs, !.exposed = @ \cup (fs \cap Reached(m))]

\* retain_or_release of each: what cannot be released is kept as an orphan.
release_temporary(m, fs, stuck) ==
  [GiveBack(m, fs \ stuck) EXCEPT !.orphans = @ \cup (fs \cap stuck)]

\* The n first frames of the pool, zeroed.
Allocated(m, n) ==
  [i \in 1 .. n |-> CHOOSE f \in m.free : Cardinality({g \in m.free : g <= f}) = i]
Take(m, fs) ==
  [m EXCEPT !.free = @ \ fs,
            !.tab = [f \in ModFrames |-> IF f \in fs THEN [i \in 0 .. PagesPerExtent - 1 |-> NoEntry] ELSE m.tab[f]]]

\* Where page p of a slot has its leaf entry.
TableOf(s, p) == s.leaf[(p - 1) \div PagesPerExtent + 1]
IndexOf(p) == (p - 1) % PagesPerExtent
PageOf(s, p) == s.start * PagesPerExtent + p - 1

\* The leaf entries of pages ps of slot k are written; the processor may cache
\* each as soon as it is there, and any of the old ones up to then.
write_leaves(m, k, ps, entry) ==
  LET s == m.slots[k]
      here(f, i) == {p \in ps : TableOf(s, p) = f /\ IndexOf(p) = i}
      written(f, i) == IF here(f, i) = {} THEN m.tab[f][i] ELSE entry[CHOOSE p \in here(f, i) : TRUE]
  IN Cached([Cached(m) EXCEPT !.tab = [f \in ModFrames |-> [i \in 0 .. PagesPerExtent - 1 |-> written(f, i)]]])

\* clear_leaf_prefix, except for the writes that fail.
clear_leaves(m, k, ps, bad) == write_leaves(m, k, ps \ bad, [p \in ps |-> NoEntry])

\* detach_slot_tables.
detach_slot_tables(m, k, bad) ==
  LET s == m.slots[k]
      ours == (1 .. s.count) \ bad
  IN IF s.detached THEN m
     ELSE [m EXCEPT !.win = [e \in Extents |-> IF e - s.start + 1 \in ours THEN 0 ELSE m.win[e]],
                    !.slots[k].detached = ours = 1 .. s.count]

Owned(s) == (Range(s.data) \cup Range(s.leaf)) \ {0}

\* release_slot_frames: what could be released is forgotten.
release_slot_frames(m, k, stuck) ==
  LET s == m.slots[k]
      keep(fs) == [i \in DOMAIN fs |-> IF fs[i] \in stuck THEN fs[i] ELSE 0]
  IN [GiveBack(m, Owned(s) \ stuck) EXCEPT !.slots[k].data = keep(s.data), !.slots[k].leaf = keep(s.leaf)]

\* Frames go back if the image is unreachable; the slot if nothing is left.
Settle(m, k, revoked, stuck) ==
  LET r == release_slot_frames(m, k, stuck)
  IN IF ~revoked THEN [m EXCEPT !.slots[k].phase = "Quarantined"]
     ELSE IF Owned(r.slots[k]) # {} THEN [r EXCEPT !.slots[k].phase = "Quarantined"]
     ELSE [r EXCEPT !.slots[k] = EmptySlot(m.slots[k].gen)]

\* Mutated form: the frames go back before the translations are gone.
revoke_mapping_early(m, k, W) ==
  LET s == m.slots[k]
      clear == clear_leaves(m, k, DOMAIN s.data, At(W, "leaf"))
      gone == detach_slot_tables(clear, k, At(W, "ext"))
      revoked == DOMAIN s.data \cap At(W, "leaf") = {} /\ gone.slots[k].detached
  IN invalidate(Settle(gone, k, revoked, At(W, "frame")), PageOf(s, 1), Len(s.data))

\* revoke_mapping: leaves, tables, translations, and only then the frames.
revoke_mapping(m, k, W) ==
  LET s == m.slots[k]
      clear == clear_leaves(m, k, DOMAIN s.data, At(W, "leaf"))
      gone == invalidate(detach_slot_tables(clear, k, At(W, "ext")), PageOf(s, 1), Len(s.data))
      revoked == DOMAIN s.data \cap At(W, "leaf") = {} /\ gone.slots[k].detached
  IN Settle(gone, k, revoked, At(W, "frame"))

\* reclaim_quarantine, for one slot.
reclaim_slot(m, k, W) ==
  IF m.slots[k].phase # "Quarantined" THEN m
  ELSE IF m.slots[k].detached THEN Settle(m, k, TRUE, At(W, "frame"))
  ELSE revoke_mapping(m, k, W)

\* reclaim_quarantine: the orphans, then the slots in order.
reclaim_quarantine(m, W) ==
  LET back == m.orphans \ At(W, "frame")
  IN FoldLeft(LAMBDA d, k : reclaim_slot(d, k, W), [GiveBack(m, back) EXCEPT !.orphans = @ \ back],
              [k \in ModSlots |-> k])

-----------------------------------------------------------------------------
(* A reservation.                                                          *)

\* ensure_module_hierarchy: the table of the window, allocated once.
ensure_module_hierarchy(m, W) ==
  IF m.pml2 # 0 THEN [m |-> m, ok |-> TRUE]
  ELSE IF m.free = {} \/ 0 \in At(W, "alloc") THEN [m |-> m, ok |-> FALSE]
  ELSE LET f == Min(m.free)
       IN IF 0 \in At(W, "unfit") THEN [m |-> [Take(m, {f}) EXCEPT !.orphans = @ \cup {f}], ok |-> FALSE]
          ELSE IF 0 \in At(W, "ext") THEN [m |-> release_temporary(Take(m, {f}), {f}, At(W, "frame")), ok |-> FALSE]
          ELSE [m |-> [Take(m, {f}) EXCEPT !.pml2 = f], ok |-> TRUE]

overlaps(s, start, n) == s.phase # "Free" /\ start < s.start + s.count /\ s.start < start + n

\* find_extent: first fit.
find_extent(m, n, alignment) ==
  {start \in Extents : /\ start + n <= NExtents /\ start % alignment = 0
                       /\ \A k \in ModSlots : ~overlaps(m.slots[k], start, n)}

next_slot_generation(g) == IF g = MaxModuleGen THEN 1 ELSE g + 1

NoReservation(m) == [m |-> m, slot |-> 0]

\* The end of reserve_zeroed, with all frames at hand: the tables are
\* attached one by one; if that fails they are detached again, and a table
\* that cannot be detached keeps everything in quarantine.
attach_tables(m, k, start, plan, data, leaf, W) ==
  LET n == Len(leaf)
      failed == {i \in 1 .. n : i \in At(W, "ext")}
      upto == IF failed = {} THEN n ELSE Min(failed) - 1
      left == IF failed = {} THEN 1 .. n ELSE {i \in 1 .. upto : i \in At(W, "drop")}
      s(phase) == [phase |-> phase, gen |-> next_slot_generation(m.slots[k].gen), start |-> start, count |-> n,
                   plan |-> plan.pages, data |-> data, leaf |-> leaf, detached |-> FALSE]
      w == [m EXCEPT !.win = [e \in Extents |-> IF e - start + 1 \in left THEN leaf[e - start + 1] ELSE m.win[e]]]
      synced == invalidate(w, start * PagesPerExtent, n * PagesPerExtent)
  IN IF failed = {} THEN [m |-> [w EXCEPT !.slots[k] = s("Staging")], slot |-> k]
     ELSE IF left # {} THEN NoReservation([synced EXCEPT !.slots[k] = s("Quarantined")])
     ELSE NoReservation(release_temporary(synced, Range(data) \cup Range(leaf), At(W, "frame")))

reserve_zeroed(m, plan, W) ==
  LET h == ensure_module_hierarchy(m, W)
      pages == Len(plan.pages)
      n == (pages + PagesPerExtent - 1) \div PagesPerExtent
      slots == {k \in ModSlots : h.m.slots[k].phase = "Free"}
      starts == find_extent(h.m, n, plan.alignment)
      short == {j \in 1 .. pages + n : j \in At(W, "alloc") \cup At(W, "unfit") \/ j > Cardinality(h.m.free)}
      unfit == short # {} /\ Min(short) \in At(W, "unfit") /\ Min(short) <= Cardinality(h.m.free)
      got == Allocated(h.m, IF short = {} THEN pages + n ELSE Min(short) - 1)
      odd == IF unfit THEN {Allocated(h.m, Min(short))[Min(short)]} ELSE {}
      t == [Take(h.m, Range(got) \cup odd) EXCEPT !.orphans = @ \cup odd]
  IN IF ~h.ok \/ slots = {} \/ starts = {} THEN NoReservation(h.m)
     ELSE IF \E e \in Min(starts) .. Min(starts) + n - 1 : h.m.win[e] # 0 THEN NoReservation(h.m)
     ELSE IF short # {} THEN NoReservation(release_temporary(t, Range(got), At(W, "frame")))
     ELSE attach_tables(t, Min(slots), Min(starts), plan, SubSeq(got, 1, pages), SubSeq(got, pages + 1, pages + n), W)

\* seal: every leaf with its permission, or none.
seal_image(m, k, W) ==
  LET s == m.slots[k]
      failed == DOMAIN s.data \cap At(W, "leaf")
      done == IF failed = {} THEN DOMAIN s.data ELSE 1 .. Min(failed) - 1
      w == write_leaves(m, k, done, [p \in done |-> [frame |-> s.data[p], perm |-> s.plan[p]]])
      undone == IF failed = {} THEN w ELSE clear_leaves(w, k, done, At(W, "drop"))
      synced == invalidate(undone, PageOf(s, 1), Len(s.data))
  IN IF failed = {} THEN [synced EXCEPT !.slots[k].phase = "Sealed"]
     ELSE IF done \cap At(W, "drop") # {} THEN [synced EXCEPT !.slots[k].phase = "Quarantined"]
     ELSE synced

\* discard: the pages after the core.
discard(m, k, core, W) ==
  LET s == m.slots[k]
      init == core + 1 .. Len(s.data)
      failed == init \cap At(W, "leaf")
      cleared == clear_leaves(m, k, IF failed = {} THEN init ELSE core + 1 .. Min(failed) - 1, {})
      synced == invalidate(cleared, PageOf(s, core + 1), Len(s.data) - core)
      back == {p \in init : s.data[p] # 0 /\ s.data[p] \notin At(W, "frame")}
  IN IF failed # {} THEN synced
     ELSE [GiveBack(synced, {s.data[p] : p \in back}) EXCEPT
             !.slots[k].data = [p \in DOMAIN s.data |-> IF p \in back THEN 0 ELSE s.data[p]]]

\* The entry of page p names its frame, with this permission:
\* executable_address and committed_data_location.
mapped_as(m, k, p, perm) ==
  LET s == m.slots[k]
  IN s.phase = "Committed" /\ s.data[p] # 0
       /\ m.tab[TableOf(s, p)][IndexOf(p)] = [frame |-> s.data[p], perm |-> perm]

-----------------------------------------------------------------------------
(* The installer and its callers.                                          *)

\* A choice of at most faults failures among some points.
Failures(points) ==
  {Range(f) \ {<<"none", 0>>} : f \in [1 .. faults -> points \cup {<<"none", 0>>}]}
Spend(W) == faults' = faults - Cardinality(W)

Pages(k) == {"leaf"} \X DOMAIN mm.slots[k].data
RevokePoints(k) ==
  Pages(k) \cup ({"ext"} \X (1 .. mm.slots[k].count)) \cup ({"frame"} \X Owned(mm.slots[k]))

clear_prepared(k) == prepared' = [prepared EXCEPT ![k] = 0]

\* install_linux_module: the reservation.
InstallReserve(name, plan) ==
  LET last == 2 * Len(plan.pages)
      points == ({"alloc", "unfit"} \X (0 .. last)) \cup ({"ext", "drop"} \X (0 .. NExtents)) \cup ({"frame"} \X mm.free)
  IN /\ loader = NoLoad
     /\ \E W \in Failures(points) :
          LET r == reserve_zeroed(mm, plan, W)
          IN /\ mm' = r.m
             /\ loader' = IF r.slot = 0 THEN NoLoad
                          ELSE [at |-> "reserved", slot |-> r.slot, gen |-> r.m.slots[r.slot].gen, name |-> name, plan |-> plan]
             /\ Spend(W)
     /\ UNCHANGED <<prepared, live, modules>>

\* Binding, the verified writes and prepare_for_seal; each may fail.
InstallStage ==
  /\ loader.at = "reserved"
  /\ \/ /\ prepared[loader.slot] = 0
        /\ prepared' = [prepared EXCEPT ![loader.slot] = loader.gen]
        /\ loader' = [loader EXCEPT !.at = "prepared"]
     \/ loader' = [loader EXCEPT !.at = "abort"] /\ UNCHANGED prepared
  /\ UNCHANGED <<mm, live, modules, faults>>

InstallSeal ==
  /\ loader.at = "prepared" /\ prepared[loader.slot] = loader.gen
  /\ \E W \in Failures(Pages(loader.slot) \cup ({"drop"} \X DOMAIN mm.slots[loader.slot].data)) :
       /\ mm' = seal_image(mm, loader.slot, W)
       /\ loader' = [loader EXCEPT !.at = IF mm'.slots[loader.slot].phase = "Sealed" THEN "sealed" ELSE "abort"]
       /\ Spend(W)
  /\ UNCHANGED <<prepared, live, modules>>

name_is_live(name) == \E k \in ModSlots : live[k].gen # 0 /\ live[k].name = name

InstallCommit ==
  /\ loader.at = "sealed"
  /\ IF name_is_live(loader.name) \/ prepared[loader.slot] # loader.gen
     THEN /\ loader' = [loader EXCEPT !.at = "abort"]
          /\ UNCHANGED <<mm, prepared, live>>
     ELSE /\ mm' = [mm EXCEPT !.slots[loader.slot].phase = "Committed"]
          /\ live' = [live EXCEPT ![loader.slot] = [gen |-> loader.gen, name |-> loader.name]]
          /\ clear_prepared(loader.slot)
          /\ loader' = [loader EXCEPT !.at = "committed"]
  /\ UNCHANGED <<modules, faults>>

\* The backend's abort.
InstallAbort ==
  LET k == loader.slot
  IN /\ loader.at = "abort"
     /\ IF mm.slots[k].phase \in {"Staging", "Sealed"}
        THEN \E W \in Failures(RevokePoints(k)) : mm' = revoke_mapping(mm, k, W) /\ Spend(W)
        ELSE UNCHANGED <<mm, faults>>
     /\ clear_prepared(k)
     /\ loader' = NoLoad
     /\ UNCHANGED <<live, modules>>

ModuleHandle(kind, status) ==
  [slot |-> loader.slot, gen |-> loader.gen, plan |-> loader.plan, kind |-> kind, status |-> status]

registry_matches(h) == live[h.slot].gen = h.gen

\* The backend's release.
release(h) ==
  IF registry_matches(h)
  THEN /\ live' = [live EXCEPT ![h.slot] = NoName]
       /\ \E W \in Failures(RevokePoints(h.slot)) : mm' = revoke_mapping(mm, h.slot, W) /\ Spend(W)
  ELSE UNCHANGED <<live, mm, faults>>

\* invoke_init is refused, or the module returns a status.  A state that
\* cannot be published leaves the module pending, in the caller's hands.
InstallInit ==
  /\ loader.at = "committed"
  /\ \/ release(ModuleHandle("live", 0)) /\ UNCHANGED modules
     \/ /\ mapped_as(mm, loader.slot, loader.plan.entry, "x")
        /\ \E status \in {0, 1} :
             \/ /\ faults > 0 /\ faults' = faults - 1
                /\ modules' = modules \cup {ModuleHandle("pending", status)}
                /\ UNCHANGED <<mm, live>>
             \/ /\ mapped_as(mm, loader.slot, loader.plan.state, "w")
                /\ IF status = 1 THEN release(ModuleHandle("live", 0)) /\ UNCHANGED modules
                   ELSE /\ modules' = modules \cup {ModuleHandle("live", 0)}
                        /\ \E W \in Failures(IF loader.plan.core = Len(loader.plan.pages) THEN {}
                                             ELSE Pages(loader.slot) \cup ({"frame"} \X Owned(mm.slots[loader.slot]))) :
                             /\ mm' = IF loader.plan.core = Len(loader.plan.pages) THEN mm
                                      ELSE discard(mm, loader.slot, loader.plan.core, W)
                             /\ Spend(W)
                        /\ UNCHANGED live
  /\ loader' = NoLoad
  /\ UNCHANGED prepared

\* PendingLinuxModule::complete; a failure leaves it as it was.
Complete(h) ==
  /\ loader = NoLoad /\ h.kind = "pending"
  /\ registry_matches(h) /\ mapped_as(mm, h.slot, h.plan.state, "w")
  /\ IF h.status = 0
     THEN modules' = (modules \ {h}) \cup {[h EXCEPT !.kind = "live"]} /\ UNCHANGED <<mm, live, faults>>
     ELSE modules' = modules \ {h} /\ release(h)
  /\ UNCHANGED <<prepared, loader>>

\* unload: begin_cleanup publishes the going state once; a cleanup that was
\* not entered leaves the module with its caller.
Unload(h) ==
  /\ loader = NoLoad /\ h.kind \in {"live", "unloading"}
  /\ registry_matches(h) /\ (h.kind = "live" => mapped_as(mm, h.slot, h.plan.state, "w"))
  /\ \/ /\ h.kind = "live" /\ h.plan.cleanup # 0
        /\ modules' = (modules \ {h}) \cup {[h EXCEPT !.kind = "unloading"]}
        /\ UNCHANGED <<mm, live, faults>>
     \/ /\ h.plan.cleanup # 0 => mapped_as(mm, h.slot, h.plan.cleanup, "x")
        /\ modules' = modules \ {h}
        /\ release(h)
  /\ UNCHANGED <<prepared, loader>>

Reclaim ==
  LET kept == {k \in ModSlots : mm.slots[k].phase = "Quarantined"}
      points == UNION {RevokePoints(k) : k \in kept} \cup ({"frame"} \X mm.orphans)
  IN /\ loader = NoLoad
     /\ kept # {} \/ mm.orphans # {}
     /\ \E W \in Failures(points) : mm' = reclaim_quarantine(mm, W) /\ Spend(W)
     /\ UNCHANGED <<prepared, live, loader, modules>>

ModulesInit ==
  /\ mm = [pml2 |-> 0, win |-> [e \in Extents |-> 0],
           tab |-> [f \in ModFrames |-> [i \in 0 .. PagesPerExtent - 1 |-> NoEntry]],
           slots |-> [k \in ModSlots |-> EmptySlot(0)],
           free |-> ModFrames, orphans |-> {}, tlb |-> {}, exposed |-> {}]
  /\ prepared = [k \in ModSlots |-> 0]
  /\ live = [k \in ModSlots |-> NoName]
  /\ loader = NoLoad /\ modules = {} /\ faults = MaxFaults

ModulesNext ==
  \/ \E name \in ModuleNames, plan \in Plans : InstallReserve(name, plan)
  \/ InstallStage \/ InstallSeal \/ InstallCommit \/ InstallAbort \/ InstallInit
  \/ \E h \in modules : Complete(h) \/ Unload(h)
  \/ Reclaim

ModulesSpec == ModulesInit /\ [][ModulesNext]_moduleVars

-----------------------------------------------------------------------------
(* Properties.                                                             *)

\* The translation of page p of slot k.
PageReached(k, p) ==
  LET s == mm.slots[k]
  IN [va |-> PageOf(s, p), frame |-> s.data[p], perm |-> s.plan[p]]

\* A frame that was given back cannot be reached, by a walk or by a cached
\* translation, and could not when it was given back, whatever failed before.
\* What can be reached is a page of a sealed or a live image, with the one
\* permission it was sealed with; or it is a page of a quarantined image that two
\* failed writes, of its entry and of the way back or of its table's pointer,
\* left in the tables.  One failure never does, and nothing of a quarantined
\* image survives in the caches alone (revoke_mapping, seal, discard,
\* reclaim_quarantine).
ModulesContained ==
  /\ mm.exposed = {} /\ mm.free \cap Reached(mm) = {}
  /\ \A t \in mm.tlb \cup Walk(mm) :
       \E k \in ModSlots : \E p \in DOMAIN mm.slots[k].data :
         /\ t = PageReached(k, p)
         /\ \/ mm.slots[k].phase \in {"Sealed", "Committed"}
            \/ mm.slots[k].phase = "Quarantined" /\ ~mm.slots[k].detached
               /\ t \in Walk(mm) /\ faults + 2 <= MaxFaults

\* "abort, discard_init, and release must synchronously revoke addressability;
\* physical reclamation debt may be retained internally in a bounded quarantine"
\* (LinuxKoBackend): once the installer has returned, and so aborted or released
\* what it gave up, no page of an image in quarantine can be reached.
QuarantineUnreachable ==
  \A k \in ModSlots : loader = NoLoad /\ mm.slots[k].phase = "Quarantined" =>
    \A p \in DOMAIN mm.slots[k].data : PageReached(k, p) \notin mm.tlb \cup Walk(mm)

\* Every frame is in the pool, is an orphan, is the table of the window, or
\* belongs to one slot; the extents of two slots do not overlap; and each slot
\* in use has one owner: the installer, a handle of a caller under a name that
\* is live once, or the quarantine.  A live module can run: its core pages are
\* mapped with their permissions (x86_64_native.rs, linux_loader.rs).
ModulesOwned ==
  LET places(f) == Cardinality({k \in ModSlots : f \in Owned(mm.slots[k])})
                   + Cardinality({f} \cap mm.free) + Cardinality({f} \cap mm.orphans)
                   + Cardinality({f} \cap {mm.pml2})
      held(k) == {h \in modules : h.slot = k /\ h.gen = mm.slots[k].gen}
  IN /\ \A f \in ModFrames : places(f) = 1
     /\ \A j, k \in ModSlots : j # k /\ mm.slots[j].phase # "Free" =>
          ~overlaps(mm.slots[k], mm.slots[j].start, mm.slots[j].count)
     /\ \A k \in ModSlots :
          LET s == mm.slots[k]
              loading == loader # NoLoad /\ loader.slot = k
          IN /\ s.phase \in {"Staging", "Sealed"} => loading /\ loader.gen = s.gen
             /\ s.phase = "Committed" => (loading <=> held(k) = {}) /\ Cardinality(held(k)) <= 1
             /\ live[k].gen # 0 <=> s.phase = "Committed"
             /\ s.phase = "Committed" => live[k].gen = s.gen
             /\ prepared[k] # 0 => loading
     /\ \A j, k \in ModSlots : j # k /\ live[j].gen # 0 => live[j].name # live[k].name
     /\ \A h \in modules : mm.slots[h.slot].phase = "Committed" /\ registry_matches(h)
                            /\ \A p \in 1 .. h.plan.core : mapped_as(mm, h.slot, p, h.plan.pages[p])

\* Whatever fails on the way: nothing that was given back can be reached
\* (ModulesContained), and nothing is lost or owned twice (ModulesOwned; the
\* owner of the module window, the backend and the installer taken together).
ModulesExact == ModulesContained /\ ModulesOwned
=============================================================================
