----------------------------- MODULE SecondLevel -----------------------------
(***************************************************************************)
(* The second-level page table of one VT-d domain (hw/vtd_slpt.rs), the    *)
(* frames it is built from (hw/vtd_memory.rs) and the remapping engine     *)
(* that caches it (hw/vtd.rs).                                             *)
(*                                                                         *)
(* Addresses are page numbers.  Every operator takes and returns the       *)
(* record `c' of the backend core; the hardware is in it too: `te' is the  *)
(* unit's translation-enable status, `leaves' and `links' the translations *)
(* and the table pointers the unit may hold in its caches, that is, all    *)
(* that were visible since its last completed invalidation.  `cut' is      *)
(* history: the tables whose pointers were undone since then without one.  *)
(* `fuel' counts the invalidations the unit completes before one times out.*)
(*                                                                         *)
(* Entry reads and writes cannot fail on an owned frame in the production  *)
(* memory, nor can the pool refuse a frame it gave out, so the error paths *)
(* behind them are left out; running out of frames is not.                 *)
(***************************************************************************)
EXTENDS Integers, FiniteSets, Sequences, FiniteSetsExt, SequencesExt

CONSTANTS
  Levels,       \* depth of the table
  Entries,      \* ENTRIES_PER_TABLE
  NTables,      \* frames the table memory can own besides the root
  NMappings,    \* PAGES: slots of the ownership ledger and of page_records
  MaxMapGen     \* u32::MAX for the slots' generations

ASSUME SecondLevelConstants ==
  /\ {Entries, NTables, NMappings, MaxMapGen} \subseteq Nat \ {0}
  /\ Levels \in 2 .. 5

Root == 0
TableFrames == 1 .. NTables
MappingSlots == 1 .. NMappings
EmptyTable == [i \in 0 .. Entries - 1 |-> 0]

NoRecord == [phase |-> "None", iova |-> 0, pa |-> 0, path |-> <<>>, cleanup |-> 0]
EmptySlot == [gen |-> 1, retired |-> FALSE, rec |-> NoRecord]
LowestOf(S) == IF S = {} THEN 0 ELSE Min(S)
Counting(n) == [k \in 1 .. n |-> k]

index_at(iova, position) == (iova \div Entries ^ (Levels - position)) % Entries
LeafIndex(r) == index_at(r.iova, Levels)
LeafTable(r) == r.path[Levels]

(* The frames of a record that it has not given back yet. *)
Retained(r) == {r.path[p] : p \in 1 .. Len(r.path) - r.cleanup}
frame_is_known(c, f) == f = Root \/ \E k \in MappingSlots : f \in Retained(c.slots[k].rec)

(* What a walk of the tables finds. *)
Translations(c) == {<<c.slots[k].rec.iova, c.slots[k].rec.pa>> : k \in
  {j \in MappingSlots : c.slots[j].rec.phase \in {"AwaitingMapInvalidation", "Active"}}}
Linked(c) == {c.tbl[r.path[p]][index_at(r.iova, p)] :
                r \in {c.slots[k].rec : k \in {j \in MappingSlots : c.slots[j].rec.phase # "None"}},
                p \in 1 .. Levels - 1} \ {0}

(***************************************************************************)
(* The engine.  A failed invalidation poisons it, and a poisoned engine    *)
(* completes no further invalidation.                                      *)
(***************************************************************************)
\* Mutated form: a failed invalidation is taken for a completed one.
commit_table_update_ignored(c) == [c EXCEPT !.ok = TRUE]

commit_table_update(c) ==
  IF c.engine # "Enabled" THEN [c EXCEPT !.ok = FALSE]
  ELSE IF c.fuel = 0 THEN [c EXCEPT !.ok = FALSE, !.engine = "Poisoned"]
  ELSE [c EXCEPT !.ok = TRUE, !.fuel = @ - 1, !.leaves = Translations(c), !.links = Linked(c), !.cut = {}]

(* Enabling: the unit translates; or it does not and was put back; or its  *)
(* state is unknown.  An attempt that fails early leaves it as it was.     *)
EnableOutcomes == {<<"Enabled", TRUE>>, <<"Disabled", FALSE>>, <<"ForeignOwned", FALSE>>,
                   <<"Poisoned", TRUE>>, <<"Poisoned", FALSE>>}

(* Disabling: off and purged; or the command timed out with the unit still *)
(* on, in which case it may yet go off by itself; or off but not purged    *)
(* and turned on again; or that failed as well.                            *)
DisableOutcomes == {<<"Disabled", FALSE>>, <<"Enabled", TRUE>>, <<"Enabled", FALSE>>,
                    <<"Poisoned", TRUE>>, <<"Poisoned", FALSE>>}

disable(c, outcome) ==
  IF c.engine # "Enabled" THEN [c EXCEPT !.ok = FALSE]
  ELSE IF outcome[1] = "Disabled"
  THEN [c EXCEPT !.ok = TRUE, !.engine = "Disabled", !.te = FALSE, !.leaves = {}, !.links = {}, !.cut = {}]
  ELSE [c EXCEPT !.ok = FALSE, !.engine = outcome[1], !.te = outcome[2]]

(***************************************************************************)
(* Mapping one page.                                                       *)
(***************************************************************************)
write_link(c, parent, i, child) ==
  [c EXCEPT !.tbl[parent][i] = child, !.links = IF child = 0 THEN @ ELSE @ \cup {child}]

allocate_table(c) == LowestOf(TableFrames \ c.owned)

build_path(c, iova) ==
  LET step(b, position) ==
        LET parent == b.path[position]
            i == index_at(iova, position)
            entry == b.c.tbl[parent][i]
            child == allocate_table(b.c)
        IN IF ~b.c.ok THEN b
           ELSE IF entry # 0 /\ frame_is_known(b.c, entry) THEN [b EXCEPT !.path = Append(@, entry)]
           ELSE IF entry # 0 \/ (child # 0 /\ frame_is_known(b.c, child))
           THEN [b EXCEPT !.c.ok = FALSE, !.c.slpt = "Poisoned"]
           ELSE IF child = 0 THEN [b EXCEPT !.c.ok = FALSE]
           ELSE [c |-> write_link([b.c EXCEPT !.owned = @ \cup {child}, !.tbl[child] = EmptyTable], parent, i, child),
                 path |-> Append(b.path, child),
                 new |-> Append(b.new, [parent |-> parent, i |-> i, child |-> child])]
  IN FoldLeft(step, [c |-> [c EXCEPT !.ok = TRUE], path |-> <<Root>>, new |-> <<>>], Counting(Levels - 1))

(* The links go in reverse, each frame back to the pool at once. *)
rollback_new_links(c, new) ==
  FoldRight(LAMBDA l, d : [write_link(d, l.parent, l.i, 0) EXCEPT !.owned = @ \ {l.child}, !.cut = @ \cup {l.child}],
            new, c)

Failed(c, status) == [c EXCEPT !.out = "error", !.status = status]

Published(c, k) ==
  IF c.ok THEN [c EXCEPT !.slots[k].rec.phase = "Active", !.out = "active", !.at = [slot |-> k, gen |-> c.slots[k].gen]]
  ELSE [c EXCEPT !.out = "pending", !.at = [slot |-> k, gen |-> c.slots[k].gen], !.status = "IO_ERROR"]

PlaceLeaf(b, k, iova, pa) ==
  LET table == b.path[Levels]
      i == index_at(iova, Levels)
      rec == [phase |-> "AwaitingMapInvalidation", iova |-> iova, pa |-> pa, path |-> b.path, cleanup |-> 0]
  IN IF ~b.c.ok THEN Failed(rollback_new_links(b.c, b.new), "IO_ERROR")
     ELSE IF b.c.tbl[table][i] # 0
     THEN Failed([rollback_new_links(b.c, b.new) EXCEPT !.slpt = "Poisoned"], "IO_ERROR")
     ELSE Published(commit_table_update([b.c EXCEPT !.tbl[table][i] = pa, !.slots[k].rec = rec,
                                                    !.leaves = @ \cup {<<iova, pa>>}]), k)

slpt_map_page(c, iova, pa) ==
  LET records == {c.slots[j].rec : j \in {x \in MappingSlots : c.slots[x].rec.phase # "None"}}
      k == LowestOf({j \in MappingSlots : c.slots[j].rec.phase = "None" /\ ~c.slots[j].retired})
  IN IF c.slpt # "Operational" THEN Failed([c EXCEPT !.poisoned = TRUE], "IO_ERROR")
     ELSE IF k = 0 \/ \E r \in records : r.iova = iova \/ r.pa = pa THEN Failed(c, "BUSY")
     ELSE PlaceLeaf(build_path(c, iova), k, iova, pa)

(***************************************************************************)
(* Unmapping one page: the leaf goes, the unit forgets it, and the tables  *)
(* it leaves empty go one by one, each only once the unit has forgotten    *)
(* the pointer to it.                                                      *)
(***************************************************************************)
retire_slot(c, k) ==
  [c EXCEPT !.slots[k] = IF @.gen = MaxMapGen THEN [@ EXCEPT !.rec = NoRecord, !.retired = TRUE]
                         ELSE [@ EXCEPT !.rec = NoRecord, !.gen = @ + 1]]

table_is_empty(c, f) == c.tbl[f] = EmptyTable

(* A table pointer was cut; the frame follows once the unit forgot it. *)
Reclaimed(c, k, parent, i, child) ==
  IF c.ok THEN [stop |-> FALSE, c |-> [c EXCEPT !.owned = @ \ {child}, !.slots[k].rec.cleanup = @ + 1]]
  ELSE [stop |-> TRUE, c |-> [write_link(c, parent, i, child) EXCEPT !.out = "pending"]]

reclaim_empty_tables(c, k) ==
  LET step(d, n) ==
        LET r == d.c.slots[k].rec
            child == r.path[Levels - r.cleanup]
            parent == r.path[Levels - r.cleanup - 1]
            i == index_at(r.iova, Levels - r.cleanup - 1)
        IN IF d.stop \/ r.cleanup + 1 >= Levels THEN d
           ELSE IF ~table_is_empty(d.c, child) THEN [d EXCEPT !.stop = TRUE]
           ELSE IF d.c.tbl[parent][i] # child
           THEN [stop |-> TRUE, c |-> [d.c EXCEPT !.out = "error", !.slpt = "Poisoned"]]
           ELSE Reclaimed(commit_table_update(write_link(d.c, parent, i, 0)), k, parent, i, child)
  IN FoldLeft(step, [stop |-> FALSE, c |-> [c EXCEPT !.out = "complete"]], Counting(Levels - 1)).c

Unmapped(c, h) == IF c.out = "complete" THEN retire_slot(c, h.slot) ELSE [c EXCEPT !.at = h]
Invalidated(c, h) ==
  IF ~c.ok THEN [c EXCEPT !.out = "pending", !.at = h]
  ELSE Unmapped(reclaim_empty_tables([c EXCEPT !.slots[h.slot].rec.phase = "AwaitingCleanup"], h.slot), h)

finish_unmap(c, h) ==
  LET phase == c.slots[h.slot].rec.phase
  IN IF c.slpt # "Operational" \/ c.slots[h.slot].gen # h.gen
        \/ phase \notin {"AwaitingUnmapInvalidation", "AwaitingCleanup"}
     THEN [c EXCEPT !.out = "error"]
     ELSE Invalidated(IF phase = "AwaitingCleanup" THEN [c EXCEPT !.ok = TRUE] ELSE commit_table_update(c), h)

(* unmap_page from Active, cancel_pending_map from AwaitingMapInvalidation. *)
ClearLeaf(c, h, phase) ==
  LET r == c.slots[h.slot].rec
  IN IF c.slpt # "Operational" \/ c.slots[h.slot].gen # h.gen \/ r.phase # phase
     THEN [c EXCEPT !.out = "error"]
     ELSE IF c.tbl[LeafTable(r)][LeafIndex(r)] # r.pa THEN [c EXCEPT !.out = "error", !.slpt = "Poisoned"]
     ELSE finish_unmap([c EXCEPT !.tbl[LeafTable(r)][LeafIndex(r)] = 0,
                                 !.slots[h.slot].rec.phase = "AwaitingUnmapInvalidation"], h)
=============================================================================
