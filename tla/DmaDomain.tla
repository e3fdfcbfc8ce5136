------------------------------ MODULE DmaDomain ------------------------------
(***************************************************************************)
(* Device memory: the VT-d backend of one requester (hw/vtd_backend.rs),   *)
(* the domain a driver maps its buffers through (hw/iommu.rs), the ledger  *)
(* of device addresses (hw/iova.rs) and the xHCI driver's binding of its   *)
(* ring regions (drivers/xhci_iommu.rs).                                   *)
(*                                                                         *)
(* The backend's lock, and the exclusive borrow of the domain, make every  *)
(* call one step.  A backend serves one domain in its life, because a      *)
(* released backend isolates nothing again: the domain handle and its      *)
(* generation carry no information and are left out.  So are the access    *)
(* bits, which every layer only hands on.                                  *)
(***************************************************************************)
EXTENDS SecondLevel

CONSTANTS
  Aperture,     \* pages of the domain's aperture, 0 .. n
  Reserved,     \* the reserved device pages
  NBatches,     \* BATCHES
  MaxBatchPages,\* MAX_BATCH_PAGES
  NDomainMaps,  \* MAXIMUM_DOMAIN_MAPPINGS
  MaxDomainGen, \* u32::MAX for mappings, leases and batches
  Requests,     \* what drivers ask to map: [pa, n, align]
  Regions,      \* the xHCI arena, a sequence of [pa, n], mapped at its own address
  Faults,       \* values of `fuel' with a time-out
  NoFault       \* and without

Batches == 1 .. NBatches
DomainSlots == 1 .. NDomainMaps

NoPageRecord == [kind |-> "Empty", at |-> [slot |-> 0, gen |-> 0]]
EmptyBatch == [gen |-> 1, retired |-> FALSE, phase |-> "Empty", iova |-> 0, pa |-> 0, n |-> 0, start |-> 0, was |-> FALSE]
NoMapping == [gen |-> 0, active |-> FALSE, lease |-> [slot |-> 0, gen |-> 0], pa |-> 0, n |-> 0]
NoLease == [gen |-> 0, active |-> FALSE, start |-> 0, n |-> 0]

VARIABLES
  core,     \* VtdBackendCore and the hardware under it
  dom,      \* IommuDomain: active, mappings, the leases of its ledger
  held,     \* the handles drivers hold
  binding,  \* the handles of the xHCI binding, in the order it revokes them
  dmalast   \* how the last call ended

dmaVars == <<core, dom, held, binding, dmalast>>

Overlap(a, n, b, m) == a < b + m /\ b < a + n

(***************************************************************************)
(* hw/vtd_backend.rs                                                       *)
(***************************************************************************)
valid_domain(c) == c.live /\ c.domain /\ ~c.released

find_free_page_run(c, n) ==
  LowestOf({s \in 1 .. NMappings - n + 1 : \A k \in s .. s + n - 1 : c.pages[k] = NoPageRecord})

retire_batch(c, b) ==
  [c EXCEPT !.batches[b] = IF @.gen = MaxDomainGen THEN [EmptyBatch EXCEPT !.gen = MaxDomainGen, !.retired = TRUE]
                           ELSE [EmptyBatch EXCEPT !.gen = c.batches[b].gen + 1]]

(* Page by page, up to the first that stays pending; done iff none does. *)
PageCleaned(c, b, p) ==
  IF c.out = "complete" THEN [done |-> TRUE, c |-> [c EXCEPT !.pages[p] = NoPageRecord]]
  ELSE [done |-> FALSE,
        c |-> [c EXCEPT !.batches[b].phase = "Quarantined",
                        !.pages[p].kind = IF c.out = "pending" THEN "UnmapPending" ELSE @,
                        !.poisoned = @ \/ c.out = "error" \/ c.engine = "Poisoned"]]
BatchCleaned(r, b) == IF r.done THEN [r EXCEPT !.c = retire_batch(r.c, b)] ELSE r

cleanup_batch(c, b) ==
  LET step(d, p) ==
        LET page == d.c.pages[p]
        IN IF ~d.done \/ page.kind = "Empty" THEN d
           ELSE PageCleaned(IF page.kind = "UnmapPending" THEN finish_unmap(d.c, page.at)
                            ELSE ClearLeaf(d.c, page.at, IF page.kind = "Active" THEN "Active" ELSE "AwaitingMapInvalidation"),
                            b, p)
  IN BatchCleaned(FoldLeft(step, [done |-> TRUE, c |-> c],
                           [k \in 1 .. c.batches[b].n |-> c.batches[b].start + k - 1]), b)

PageMapped(c, p) ==
  CASE c.out = "active" -> [c EXCEPT !.pages[p] = [kind |-> "Active", at |-> c.at]]
    [] c.out = "pending" -> [c EXCEPT !.pages[p] = [kind |-> "MapPending", at |-> c.at],
                                      !.poisoned = @ \/ c.engine = "Poisoned"]
    [] c.out = "error" -> c

SpanMapped(c, b) ==
  IF c.status = "OK" THEN [c EXCEPT !.batches[b].phase = "Active", !.batches[b].was = TRUE]
  ELSE [cleanup_batch([c EXCEPT !.batches[b].phase = "Quarantined"], b).c EXCEPT !.status = c.status]

map_span(c, iova, pa, n) ==
  LET b == LowestOf({j \in Batches : c.batches[j].phase = "Empty" /\ ~c.batches[j].retired})
      start == find_free_page_run(c, n)
      used == {c.batches[j] : j \in {x \in Batches : c.batches[x].phase # "Empty"}}
      step(d, k) == IF d.status # "OK" THEN d ELSE PageMapped(slpt_map_page(d, iova + k - 1, pa + k - 1), start + k - 1)
  IN IF ~valid_domain(c) THEN [c EXCEPT !.status = "NOT_FOUND"]
     ELSE IF c.poisoned \/ \E u \in used : u.phase = "Quarantined" THEN [c EXCEPT !.status = "IO_ERROR"]
     ELSE IF \/ n > MaxBatchPages \/ n > NMappings
             \/ \E u \in used : Overlap(u.iova, u.n, iova, n) \/ Overlap(u.pa, u.n, pa, n)
             \/ b = 0 \/ start = 0
     THEN [c EXCEPT !.status = "BUSY"]
     ELSE SpanMapped(FoldLeft(step, [c EXCEPT !.status = "OK", !.batches[b] =
            [@ EXCEPT !.phase = "Staging", !.iova = iova, !.pa = pa, !.n = n, !.start = start]], Counting(n)), b)

SpanUnmapped(r, was) ==
  [r.c EXCEPT !.status = IF ~r.done THEN "IO_ERROR" ELSE IF was THEN "OK" ELSE "NOT_FOUND"]

unmap_span(c, iova, n) ==
  LET b == LowestOf({j \in Batches : c.batches[j].phase # "Empty" /\ c.batches[j].iova = iova /\ c.batches[j].n = n})
  IN IF ~valid_domain(c) \/ b = 0 THEN [c EXCEPT !.status = "NOT_FOUND"]
     ELSE SpanUnmapped(cleanup_batch([c EXCEPT !.batches[b].phase = "Quarantined"], b), c.batches[b].was)

(* Disabling the unit, and what follows once it is off. *)
Cleared(c) ==
  IF c.ok THEN [c EXCEPT !.installed = FALSE, !.released = TRUE, !.status = "OK"]
  ELSE [c EXCEPT !.poisoned = @ \/ c.engine = "Poisoned", !.status = "IO_ERROR"]

DomainCleaned(c, outcome) ==
  IF \E b \in Batches : c.batches[b].phase # "Empty" THEN [c EXCEPT !.status = "IO_ERROR"]
  ELSE LET Closed(e) == [e EXCEPT !.domain = e.status # "OK"] IN Closed(Cleared(disable(c, outcome)))

release_domain(c, outcome) ==
  LET step(d, b) == IF d.batches[b].phase = "Empty" THEN d ELSE cleanup_batch(d, b).c
  IN IF ~valid_domain(c) THEN [c EXCEPT !.status = "NOT_FOUND"]
     ELSE DomainCleaned(FoldLeft(step, c, Counting(NBatches)), outcome)

(***************************************************************************)
(* hw/iova.rs                                                              *)
(***************************************************************************)
Leased(l) == UNION {l[k].start .. l[k].start + l[k].n - 1 : k \in {j \in DomainSlots : l[j].active}}
LeaseOf(l, h) == h.slot \in DomainSlots /\ l[h.slot].active /\ l[h.slot].gen = h.gen

(* first_fit jumps past the blockers, aligning up: the lowest aligned start *)
(* whose pages are in the aperture, unreserved and unleased.                *)
Fits(l, s, n) == (s .. s + n - 1) \subseteq Aperture \ (Reserved \cup Leased(l))

first_fit(l, n, align) == {s \in Aperture : s % align = 0 /\ Fits(l, s, n) /\
                             \A t \in Aperture : t < s /\ t % align = 0 => ~Fits(l, t, n)}

LeaseSlot(l) == LowestOf({k \in DomainSlots : ~l[k].active /\ l[k].gen # MaxDomainGen})

(* reserve and reserve_exact, once the range is chosen. *)
Reserve(l, k, s, n) == [l EXCEPT ![k] = [gen |-> @.gen + 1, active |-> TRUE, start |-> s, n |-> n]]
ReleaseLease(l, h) == [l EXCEPT ![h.slot] = [NoLease EXCEPT !.gen = h.gen]]

(***************************************************************************)
(* hw/iommu.rs.  `s' is the domain over its backend.                       *)
(***************************************************************************)
ActiveMaps(d) == {k \in DomainSlots : d.maps[k].active}
PhysicalBusy(d, pa, n) == \E k \in ActiveMaps(d) : Overlap(d.maps[k].pa, d.maps[k].n, pa, n)
Ended(s, status) == [s EXCEPT !.status = status]

(* The ledger and the record are updated only once the backend agreed. *)
Recorded(s, c, k, l, start, pa, n) ==
  IF c.status # "OK" THEN [s EXCEPT !.c = c, !.status = c.status]
  ELSE [c |-> c, status |-> "OK", h |-> [slot |-> k, gen |-> s.d.maps[k].gen + 1],
        d |-> [s.d EXCEPT !.leases = Reserve(@, l, start, n),
                          !.maps[k] = [gen |-> @.gen + 1, active |-> TRUE, pa |-> pa, n |-> n,
                                       lease |-> [slot |-> l, gen |-> s.d.leases[l].gen + 1]]]]

MapAt(s, start, pa, n) ==
  LET k == LowestOf({j \in DomainSlots : ~s.d.maps[j].active /\ s.d.maps[j].gen # MaxDomainGen})
      l == LeaseSlot(s.d.leases)
  IN IF k = 0 \/ l = 0 THEN Ended(s, "BUSY")
     ELSE Recorded(s, map_span(s.c, start, pa, n), k, l, start, pa, n)

map_dma_aligned(s, pa, n, align) ==
  LET starts == first_fit(s.d.leases, n, align)
  IN IF PhysicalBusy(s.d, pa, n) \/ starts = {} THEN Ended(s, "BUSY")
     ELSE MapAt(s, Min(starts), pa, n)

map_dma_at(s, start, pa, n) ==
  IF PhysicalBusy(s.d, pa, n) \/ ~Fits(s.d.leases, start, n) THEN Ended(s, "BUSY")
  ELSE MapAt(s, start, pa, n)

Erased(s, c, k) ==
  IF c.status # "OK" THEN [s EXCEPT !.c = c, !.status = c.status]
  ELSE [s EXCEPT !.c = c, !.status = "OK", !.d.leases = ReleaseLease(@, s.d.maps[k].lease),
                 !.d.maps[k] = [NoMapping EXCEPT !.gen = s.d.maps[k].gen]]

Unmap(s, k) == Erased(s, unmap_span(s.c, s.d.leases[s.d.maps[k].lease.slot].start, s.d.maps[k].n), k)

\* Mutated form: the generation of the handle is not compared.
ReadsRecord_any(d, h) == h.slot \in ActiveMaps(d)

ReadsRecord(d, h) == h.slot \in ActiveMaps(d) /\ d.maps[h.slot].gen = h.gen

revoke_dma(s, h) == IF ReadsRecord(s.d, h) THEN Unmap(s, h.slot) ELSE Ended(s, "NOT_FOUND")

release(s, outcome) ==
  LET Closed(c) == [s EXCEPT !.c = c, !.status = c.status, !.d.active = c.status # "OK"]
  IN IF ActiveMaps(s.d) # {} THEN Ended(s, "BUSY") ELSE Closed(release_domain(s.c, outcome))

(* Drop: every mapping in reverse, past those that fail. *)
drop(s, outcome) ==
  LET Closed(t) == [t EXCEPT !.c = IF ActiveMaps(t.d) = {} THEN release_domain(@, outcome) ELSE @,
                             !.d.active = FALSE, !.status = "OK"]
  IN Closed(FoldRight(LAMBDA k, t : IF t.d.maps[k].active THEN Unmap(t, k) ELSE t, Counting(NDomainMaps), s))

(***************************************************************************)
(* drivers/xhci_iommu.rs                                                   *)
(***************************************************************************)
(* Revoke in order; what a failure leaves unrevoked is the debt. *)
revoke(s, handles) ==
  LET Revoked(t, h) == [s |-> t, left |-> IF t.status = "OK" THEN <<>> ELSE <<h>>]
      step(b, h) == IF b.left # <<>> THEN [b EXCEPT !.left = Append(@, h)] ELSE Revoked(revoke_dma(b.s, h), h)
  IN FoldLeft(step, [s |-> s, left |-> <<>>], handles)

(* Region by region; on a failure those mapped so far are revoked. *)
bind_core_regions(s) ==
  LET Bound(b, t) == [s |-> t, left |-> IF t.status = "OK" THEN Append(b.left, t.h) ELSE b.left]
      step(b, g) == IF b.s.status # "OK" THEN b ELSE Bound(b, map_dma_at(b.s, g.pa, g.pa, g.n))
      Finished(b) == IF b.s.status = "OK" THEN b ELSE [revoke(b.s, b.left) EXCEPT !.s.status = b.s.status]
  IN Finished(FoldLeft(step, [s |-> s, left |-> <<>>], Regions))

(***************************************************************************)
(* Steps                                                                   *)
(***************************************************************************)
DmaInit ==
  /\ core = [live |-> FALSE, domain |-> FALSE, released |-> FALSE, poisoned |-> FALSE, installed |-> FALSE,
             batches |-> [b \in Batches |-> EmptyBatch], pages |-> [k \in MappingSlots |-> NoPageRecord],
             slots |-> [k \in MappingSlots |-> EmptySlot], tbl |-> [f \in {Root} \cup TableFrames |-> EmptyTable],
             owned |-> {}, slpt |-> "Operational", engine |-> "Disabled", te |-> FALSE, leaves |-> {}, links |-> {}, cut |-> {},
             fuel |-> 0, ok |-> TRUE, out |-> "complete", at |-> [slot |-> 0, gen |-> 0], status |-> "OK"]
  /\ dom = [active |-> FALSE, maps |-> [k \in DomainSlots |-> NoMapping], leases |-> [k \in DomainSlots |-> NoLease]]
  /\ held = {} /\ binding = <<>> /\ dmalast = "OK"

(* The fields that only carry results inside a call. *)
Settled(c) == [c EXCEPT !.fuel = 0, !.ok = TRUE, !.out = "complete", !.at = [slot |-> 0, gen |-> 0], !.status = "OK"]
Entered(fuel) == [c |-> [core EXCEPT !.fuel = fuel], d |-> dom, status |-> "OK", h |-> [slot |-> 0, gen |-> 0]]
Injected(fuel) == fuel = NoFault \/ core.engine = "Enabled"
Left(s) == core' = Settled(s.c) /\ dom' = s.d /\ dmalast' = s.status

(* build: the requester's entries are installed before the unit is enabled, *)
(* and taken back only if it is known to be off.                            *)
Build(outcome) ==
  /\ ~core.live /\ core.engine = "Disabled" /\ ~core.released
  /\ core' = [core EXCEPT !.engine = outcome[1], !.te = outcome[2], !.live = outcome[1] = "Enabled",
                          !.installed = outcome[1] # "Disabled"]
  /\ dmalast' = IF outcome[1] = "Enabled" THEN "OK" ELSE "IO_ERROR"
  /\ UNCHANGED <<dom, held, binding>>

isolate_device ==
  /\ core.live /\ ~core.poisoned /\ ~core.released /\ ~core.domain
  /\ core' = [core EXCEPT !.domain = TRUE] /\ dom' = [dom EXCEPT !.active = TRUE] /\ dmalast' = "OK"
  /\ UNCHANGED <<held, binding>>

MapDma(q, fuel) ==
  /\ dom.active /\ Injected(fuel)
  /\ \E s \in {map_dma_aligned(Entered(fuel), q.pa, q.n, q.align)} :
       /\ Left(s)
       /\ held' = IF s.status = "OK" THEN held \cup {s.h} ELSE held
  /\ UNCHANGED binding

(* Any handle that was ever issued may come back. *)
RevokeDma(h, fuel) ==
  /\ dom.active /\ Injected(fuel) /\ (ReadsRecord(dom, h) \/ fuel = NoFault)
  /\ h.gen <= dom.maps[h.slot].gen /\ ~\E k \in 1 .. Len(binding) : binding[k] = h
  /\ \E s \in {revoke_dma(Entered(fuel), h)} :
       /\ Left(s)
       /\ held' = IF s.status = "OK" THEN held \ {h} ELSE held
  /\ UNCHANGED binding

BindRegions(fuel) ==
  /\ dom.active /\ binding = <<>> /\ Injected(fuel)
  /\ \E b \in {bind_core_regions(Entered(fuel))} : Left(b.s) /\ binding' = b.left
  /\ UNCHANGED held

RevokeBinding(fuel) ==
  /\ dom.active /\ binding # <<>> /\ Injected(fuel)
  /\ \E b \in {revoke(Entered(fuel), binding)} : Left(b.s) /\ binding' = b.left
  /\ UNCHANGED held

ReleaseDomain(outcome) ==
  /\ dom.active
  /\ \E s \in {release(Entered(NoFault), outcome)} : Left(s)
  /\ UNCHANGED <<held, binding>>

DropDomain(outcome, fuel) ==
  /\ dom.active /\ Injected(fuel)
  /\ \E s \in {drop(Entered(fuel), outcome)} : Left(s)
  /\ held' = {} /\ binding' = <<>>

shutdown(outcome) ==
  /\ core.live /\ ~core.domain /\ \A b \in Batches : core.batches[b].phase = "Empty"
  /\ \E c \in {IF core.released THEN core ELSE Cleared(disable(core, outcome))} :
       core' = Settled([c EXCEPT !.live = c.status # "OK"]) /\ dmalast' = c.status
  /\ UNCHANGED <<dom, held, binding>>

DmaNext ==
  \/ \E o \in EnableOutcomes : Build(o)
  \/ isolate_device
  \/ \E q \in Requests, f \in Faults \cup {NoFault} : MapDma(q, f)
  \/ \E k \in DomainSlots, g \in 1 .. MaxDomainGen, f \in Faults \cup {NoFault} : RevokeDma([slot |-> k, gen |-> g], f)
  \/ \E f \in Faults \cup {NoFault} : BindRegions(f) \/ RevokeBinding(f)
  \/ \E o \in DisableOutcomes : ReleaseDomain(o) \/ DropDomain(o, NoFault)
  \/ \E f \in Faults : DropDomain(<<"Disabled", FALSE>>, f)
  \/ \E o \in DisableOutcomes : shutdown(o)

DmaSpec == DmaInit /\ [][DmaNext]_dmaVars

(***************************************************************************)
(* Properties                                                              *)
(***************************************************************************)
(* Whatever translation the unit may still use, in its tables or its      *)
(* caches, belongs to a mapping a driver has not revoked, or to a batch    *)
(* the backend keeps in quarantine: memory whose revocation returned OK,   *)
(* or whose mapping failed and was cleaned up, is out of the device's      *)
(* reach even when invalidations time out half way (cleanup_batch).  So is *)
(* a table given back (reclaim_empty_tables): one the unit may still walk  *)
(* into is owned, but for those that rollback_new_links undid after a map  *)
(* that failed, which it gives back at once.                               *)
RevokedIsUnreachable ==
  /\ core.links \subseteq core.owned \cup core.cut
  /\ \A t \in core.leaves : \E b \in Batches :
       /\ core.batches[b].phase \in {"Active", "Quarantined"}
       /\ t[1] - core.batches[b].iova = t[2] - core.batches[b].pa
       /\ t[1] \in core.batches[b].iova .. core.batches[b].iova + core.batches[b].n - 1
       /\ core.batches[b].phase = "Active" =>
            \E k \in ActiveMaps(dom) : dom.maps[k].pa = core.batches[b].pa

(* The tables are what the ledger of mappings says: every record's path is *)
(* linked, every owned frame is some record's, each record has its page    *)
(* record, and a leaf is there exactly for the records that map one        *)
(* (build_path, rollback_new_links, reclaim_empty_tables).  While the unit *)
(* is on, or may be, the requester's entries are installed, and a backend  *)
(* that was shut down left it off (release_domain, shutdown).              *)
Records == {k \in MappingSlots : core.slots[k].rec.phase # "None"}
TablesMatchRecords ==
  /\ core.slpt = "Operational"
  /\ core.owned = UNION {Retained(core.slots[k].rec) : k \in Records} \ {Root}
  /\ \A k \in Records :
       LET r == core.slots[k].rec
       IN /\ \A p \in 1 .. Levels - 1 - r.cleanup : core.tbl[r.path[p]][index_at(r.iova, p)] = r.path[p + 1]
          /\ r.phase \in {"Active", "AwaitingMapInvalidation"} => core.tbl[LeafTable(r)][LeafIndex(r)] = r.pa
          /\ Cardinality({p \in MappingSlots : core.pages[p].at = [slot |-> k, gen |-> core.slots[k].gen]}) = 1
  /\ \A p \in MappingSlots : core.pages[p] # NoPageRecord =>
       core.pages[p].at.slot \in Records /\ core.slots[core.pages[p].at.slot].gen = core.pages[p].at.gen
  /\ \A f \in core.owned : core.tbl[f] = EmptyTable => core.engine = "Poisoned"
  /\ core.te => core.installed
  /\ core.released => ~core.te /\ core.owned = {} /\ core.leaves = {}

(* The domain's mappings, the leases of its ledger, the backend's batches  *)
(* and the handles the drivers hold are the same set: no two leases share  *)
(* a page, none covers a reserved one, a stale handle takes nothing away,  *)
(* a failed bind leaves no mapping without an owner, and a batch nobody    *)
(* owns is in quarantine (revoke_dma, bind_core_regions, map_span).  Below *)
(* them the second-level tables match the back end's records.              *)
LedgersAgree ==
  /\ TablesMatchRecords
  /\ dom.active =>
      LET own == held \cup {binding[k] : k \in 1 .. Len(binding)}
          mine(k) == dom.leases[dom.maps[k].lease.slot]
      IN /\ own = {[slot |-> k, gen |-> dom.maps[k].gen] : k \in ActiveMaps(dom)}
         /\ \A k \in ActiveMaps(dom) :
              /\ LeaseOf(dom.leases, dom.maps[k].lease) /\ mine(k).n = dom.maps[k].n
              /\ Cardinality({b \in Batches : core.batches[b].phase \in {"Active", "Quarantined"} /\ core.batches[b].was
                    /\ core.batches[b].iova = mine(k).start /\ core.batches[b].pa = dom.maps[k].pa}) = 1
         /\ {k \in DomainSlots : dom.leases[k].active} = {dom.maps[k].lease.slot : k \in ActiveMaps(dom)}
         /\ Leased(dom.leases) \subseteq Aperture \ Reserved
         /\ \A j, k \in ActiveMaps(dom) : j # k => ~Overlap(mine(j).start, mine(j).n, mine(k).start, mine(k).n)
         /\ Cardinality({b \in Batches : core.batches[b].phase = "Active"}) <= Cardinality(ActiveMaps(dom))
         /\ \A b \in Batches : core.batches[b].phase = "Quarantined" => core.poisoned
=============================================================================
