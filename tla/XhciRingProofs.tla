--------------------------- MODULE XhciRingProofs ---------------------------
(***************************************************************************)
(* The rings of XhciRing, for every length: commands are executed once, in *)
(* turn and whole, and a completion is taken for the command it is about.  *)
(*                                                                         *)
(* The invariant says how far each party has come.  Laid and Fetching are  *)
(* about the command ring: the cells behind the producer carry the cycle   *)
(* bit of this lap and those ahead the other one, store by store, and the  *)
(* controller is at most one command away.  Posting, Flying and Loaded are *)
(* about the event ring: the cycle bits tell the posted cells from the     *)
(* stale ones, at most one completion is on its way and it is that of the  *)
(* last command, and what the driver has loaded is the event it decides    *)
(* on, or does not match.                                                  *)
(***************************************************************************)
EXTENDS XhciRing, TLAPS

\* A number is so many turns and a rest.
LEMMA Divided ==
  ASSUME NEW n \in Nat \ {0}, NEW z \in Nat
  PROVE  \E q \in Nat, r \in 0 .. n - 1 : z = q * n + r /\ z % n = r
<1>1. z = (z \div n) * n + (z % n)
  OBVIOUS
<1>2. z \div n \in Nat
  OBVIOUS
<1>3. z % n \in 0 .. n - 1
  OBVIOUS
<1> QED BY <1>1, <1>2, <1>3, Zenon

\* The rest of so many turns and a rest.
LEMMA Remainder ==
  ASSUME NEW n \in Nat \ {0}, NEW q \in Nat, NEW r \in 0 .. n - 1
  PROVE  (q * n + r) % n = r
OBVIOUS

\* The place after a place of a ring of n, and one less than a turn further.
LEMMA Further ==
  ASSUME NEW n \in Nat \ {0}, NEW z \in Nat, NEW d \in 1 .. n
  PROVE  (z + d) % n = IF (z % n) + d < n THEN (z % n) + d ELSE (z % n) + d - n
<1>1. PICK q \in Nat, r \in 0 .. n - 1 : z = q * n + r /\ z % n = r
  BY Divided, Zenon
<1>2. CASE r + d < n
  <2> DEFINE s == r + d
  <2>1. s \in 0 .. n - 1 /\ z + d = q * n + s
    BY <1>1, <1>2
  <2>2. (q * n + s) % n = s
    <3> HIDE DEF s
    <3> QED BY <2>1, Remainder, Zenon
  <2>3. (z + d) % n = s
    BY <2>1, <2>2, Zenon
  <2> QED BY <1>1, <1>2, <2>3, Zenon
<1>3. CASE r + d >= n
  <2> DEFINE s == r + d - n
             p == q + 1
  <2>1. s \in 0 .. n - 1 /\ p \in Nat
    BY <1>1, <1>3
  <2>2. p * n = q * n + n
    OBVIOUS
  <2>3. z + d = p * n + s
    <3> DEFINE m == q * n
    <3>1. m \in Nat /\ z = m + r /\ p * n = m + n
      BY <1>1, <2>2
    <3> HIDE DEF m, p
    <3> QED BY <3>1
  <2>4. (p * n + s) % n = s
    <3> HIDE DEF s, p
    <3> QED BY <2>1, Remainder, Zenon
  <2>5. (z + d) % n = s
    BY <2>3, <2>4, Zenon
  <2> QED BY <1>1, <1>3, <2>5
<1> QED BY <1>2, <1>3

-----------------------------------------------------------------------------
(* The rings of the USB controller, as predicates of the command page cm,  *)
(* the event page ev, the machine r, the call x and the controller h.      *)

\* Commands submitted, and those whose completion was accepted.
Submitted(r) == r.next_sequence - 1
Taken(x) == x.evidence.seq

\* The types of the pages, the machine, the call and the controller.
Pointer == {NoPointer} \cup 0 .. LinkIndex - 1
EventIndex == 0 .. EventCapacity - 1
CommandSlot == [payload : {NoPointer, 0}, kind : {"none", "noop", "link"}, cycle : BOOLEAN]
EventSlot == [pointer : Pointer, code : Nat, kind : {"none", "completion", "port"}, cycle : BOOLEAN]
OwedEvent == [kind : {"completion", "port"}, pointer : Pointer, code : Nat]
MachineType ==
  [producer_index : 0 .. LinkIndex - 1, producer_cycle : BOOLEAN, event_index : EventIndex,
   event_cycle : BOOLEAN, next_sequence : Nat \ {0}, outstanding : [seq : Nat, index : Pointer]]
CallType(x) ==
  /\ x = [at |-> x.at, stores |-> x.stores, loaded |-> x.loaded, evidence |-> x.evidence]
  /\ x.at \in {"ready", "store", "load", "decide", "halt"}
  /\ x.loaded \in EventSlot /\ x.evidence \in [seq : Nat, code : Nat]
ControllerType ==
  [active : BOOLEAN, error : BOOLEAN, dequeue : 0 .. LinkIndex, ccs : BOOLEAN, enqueue : EventIndex,
   pcs : BOOLEAN, erdp : EventIndex, done : Nat, index : Pointer, code : Nat, owed : Seq(OwedEvent),
   ports : Nat]
RingTypes(cm, ev, r, x, h) ==
  /\ cm \in [0 .. LinkIndex -> CommandSlot] /\ ev \in [EventIndex -> EventSlot]
  /\ r \in MachineType /\ CallType(x) /\ h \in ControllerType

\* The n stores that remain of a submission at i in cycle c: the last three are
\* those of the command, those before them those of the link.
Remaining(n, i, c) ==
  LET c1 == [i |-> i, field |-> "control", kind |-> "noop", cycle |-> ~c]
      c2 == [i |-> i, field |-> "payload", payload |-> NoPointer]
      c3 == [i |-> i, field |-> "control", kind |-> "noop", cycle |-> c]
      l1 == [i |-> LinkIndex, field |-> "control", kind |-> "link", cycle |-> ~c]
      l2 == [i |-> LinkIndex, field |-> "payload", payload |-> 0]
      l3 == [i |-> LinkIndex, field |-> "control", kind |-> "link", cycle |-> c]
  IN CASE n = 6 -> <<l1, l2, l3, c1, c2, c3>> [] n = 5 -> <<l2, l3, c1, c2, c3>>
       [] n = 4 -> <<l3, c1, c2, c3>> [] n = 3 -> <<c1, c2, c3>> [] n = 2 -> <<c2, c3>>
       [] n = 1 -> <<c3>> [] OTHER -> <<>>

\* The whole command is in the page, and its doorbell is to come.
Shows(x) == x.at = "store" /\ x.stores = <<>>

\* The call has n stores to make; 7 when there is no submission.
Stage(r, x, n) ==
  /\ (n = 7) <=> (x.at # "store")
  /\ n # 7 => /\ x.stores = Remaining(n, r.producer_index, r.producer_cycle)
              /\ n > 3 => r.producer_index + 1 = LinkIndex
  /\ Shows(x) <=> n = 0

\* The command page with n stores to come: the cycle bit says which blocks are of this lap.
Cells(cm, r, n) ==
  LET i == r.producer_index
      c == r.producer_cycle
      linked == i + 1 = LinkIndex /\ n <= 3
  IN /\ \A k \in 0 .. i - 1 : cm[k].cycle = c /\ cm[k].kind = "noop"
     /\ \A k \in i + 1 .. LinkIndex - 1 : cm[k].cycle = ~c
     /\ cm[i].cycle = (IF n = 0 THEN c ELSE ~c) /\ (n \in 0 .. 2 => cm[i].kind = "noop")
     /\ \A k \in 0 .. LinkIndex - 1 : cm[k].kind # "link"
     /\ cm[LinkIndex].kind = "link" /\ cm[LinkIndex].payload = 0
     /\ linked => cm[LinkIndex].cycle = c
     /\ ~linked /\ Submitted(r) >= LinkIndex => cm[LinkIndex].cycle = ~c
Laid(cm, r, x) == \E n \in 0 .. 7 : Stage(r, x, n) /\ Cells(cm, r, n)

\* Where the call of the driver stands.
Calling(r, x) ==
  /\ r.producer_index = Submitted(r) % LinkIndex
  /\ x.at = "store" => r.outstanding = NoCommand
  /\ x.at \in {"load", "decide", "halt"} => r.outstanding # NoCommand
  /\ r.outstanding = NoCommand => Taken(x) = Submitted(r)
  /\ r.outstanding # NoCommand =>
       /\ Submitted(r) = Taken(x) + 1
       /\ r.outstanding.seq = Submitted(r) /\ r.outstanding.index = Taken(x) % LinkIndex

\* Where the controller stands in the command page.
Fetching(r, x, h) ==
  LET i == r.producer_index
      d == h.dequeue
      same == h.ccs = r.producer_cycle
  IN /\ \/ /\ h.done = Submitted(r)
           /\ (d = i /\ same) \/ (i = 0 /\ Submitted(r) >= LinkIndex /\ d = LinkIndex /\ ~same)
        \/ /\ h.done = Submitted(r) + 1 /\ Shows(x)
           /\ (d = i + 1 /\ same) \/ (i + 1 = LinkIndex /\ d = 0 /\ ~same)
        \/ /\ h.done = Submitted(r) - 1 /\ r.outstanding # NoCommand /\ (h.active \/ h.error)
           /\ \/ i > 0 /\ d = i - 1 /\ same
              \/ i = 1 /\ Submitted(r) >= LinkIndex /\ d = LinkIndex /\ ~same
              \/ i = 0 /\ d = LinkIndex - 1 /\ ~same
     /\ h.done > 0 => h.index = (h.done - 1) % LinkIndex
     /\ h.done = Taken(x) /\ h.done > 0 => h.code = x.evidence.code
     /\ h.error => ~h.active

\* The slots of the event page that are posted and not consumed.
Posted(r, h, j) ==
  IF h.enqueue >= r.event_index THEN r.event_index <= j /\ j < h.enqueue
  ELSE j >= r.event_index \/ j < h.enqueue

\* What a slot keeps of the completion the driver took from it in its last lap.
Stale(e, j, a) ==
  \/ e.pointer = NoPointer
  \/ \E k \in Nat : /\ a - EventCapacity <= k /\ k < a
                    /\ k % EventCapacity = j /\ e.pointer = k % LinkIndex

\* The event page: the cycle bit tells which slots are posted, and the others are stale.
Posting(ev, r, x, h) ==
  /\ h.erdp = r.event_index /\ r.event_index = Taken(x) % EventCapacity
  /\ (h.pcs = r.event_cycle) <=> (h.enqueue >= r.event_index)
  /\ \A j \in EventIndex : ev[j].cycle = (IF j < h.enqueue THEN h.pcs ELSE ~h.pcs)
  /\ \A j \in EventIndex : ~Posted(r, h, j) => Stale(ev[j], j, Taken(x))

\* The completion on its way is that of the last command executed, and there is one.
Latest(e, x, h) == h.done = Taken(x) + 1 /\ e.pointer = h.index /\ e.code = h.code
Arriving(ev, r, h, j) == Posted(r, h, j) /\ ev[j].kind = "completion"
Owing(h, p) == h.owed[p].kind = "completion"
Flying(ev, r, x, h) ==
  /\ \A j \in EventIndex : Arriving(ev, r, h, j) =>
       /\ Latest(ev[j], x, h)
       /\ \A k \in EventIndex : Arriving(ev, r, h, k) => k = j
       /\ \A p \in 1 .. Len(h.owed) : ~Owing(h, p)
  /\ \A p \in 1 .. Len(h.owed) : Owing(h, p) =>
       /\ Latest(h.owed[p], x, h)
       /\ \A q \in 1 .. Len(h.owed) : Owing(h, q) => q = p

\* What the driver has loaded is the event it decides on, or not the one it waits for.
Loaded(ev, r, x) ==
  x.at = "decide" => x.loaded = ev[r.event_index] \/ x.loaded.pointer # r.outstanding.index

RingSound(cm, ev, r, x, h) ==
  /\ RingTypes(cm, ev, r, x, h) /\ Calling(r, x) /\ Laid(cm, r, x) /\ Fetching(r, x, h)
  /\ Posting(ev, r, x, h) /\ Flying(ev, r, x, h) /\ Loaded(ev, r, x)
RingInv == RingSound(cmdring, evtring, rings, xcpu, xhc)

\* The fields of the machine, of the call and of the controller.
LEMMA RingFields ==
  ASSUME NEW cm, NEW ev, NEW r, NEW x, NEW h, RingTypes(cm, ev, r, x, h)
  PROVE  /\ LinkIndex \in Nat \ {0, 1} /\ EventCapacity \in Nat \ {0, 1, 2} /\ EventCapacity = LinkIndex + 1
         /\ r.producer_index \in 0 .. LinkIndex - 1 /\ r.producer_cycle \in BOOLEAN
         /\ r.event_index \in EventIndex /\ r.event_cycle \in BOOLEAN /\ Submitted(r) \in Nat
         /\ r.next_sequence = Submitted(r) + 1 /\ Taken(x) \in Nat /\ x.evidence.code \in Nat
         /\ h.active \in BOOLEAN /\ h.error \in BOOLEAN /\ h.dequeue \in 0 .. LinkIndex /\ h.ccs \in BOOLEAN
         /\ h.enqueue \in EventIndex /\ h.pcs \in BOOLEAN /\ h.erdp \in EventIndex /\ h.done \in Nat
         /\ h.index \in Pointer /\ h.code \in Nat /\ h.owed \in Seq(OwedEvent) /\ h.ports \in Nat
<1>1. LinkIndex \in Nat \ {0, 1} /\ EventCapacity \in Nat \ {0, 1, 2} /\ EventCapacity = LinkIndex + 1
  BY RingAssumption
<1>2. /\ r.producer_index \in 0 .. LinkIndex - 1 /\ r.producer_cycle \in BOOLEAN
      /\ r.event_index \in EventIndex /\ r.event_cycle \in BOOLEAN /\ r.next_sequence \in Nat \ {0}
  BY Zenon DEF RingTypes, MachineType
<1>3. x.evidence.seq \in Nat /\ x.evidence.code \in Nat
  BY Zenon DEF RingTypes, CallType
<1>4. /\ h.active \in BOOLEAN /\ h.error \in BOOLEAN /\ h.dequeue \in 0 .. LinkIndex /\ h.ccs \in BOOLEAN
      /\ h.enqueue \in EventIndex /\ h.pcs \in BOOLEAN /\ h.erdp \in EventIndex /\ h.done \in Nat
      /\ h.index \in Pointer /\ h.code \in Nat /\ h.owed \in Seq(OwedEvent) /\ h.ports \in Nat
  BY Zenon DEF RingTypes, ControllerType
<1> QED BY <1>1, <1>2, <1>3, <1>4, SMTT(30) DEF Submitted, Taken

\* RingInit establishes the invariant.
LEMMA InitRingInv == RingInit => RingInv
<1> SUFFICES ASSUME RingInit PROVE RingInv
  BY Zenon
<1>1. LinkIndex \in Nat \ {0, 1} /\ EventCapacity \in Nat \ {0, 1, 2} /\ EventCapacity = LinkIndex + 1
  BY RingAssumption
<1>2. NoPointer \in Pointer /\ NoPointer = -1 /\ 0 % LinkIndex = 0 /\ 0 % EventCapacity = 0
  BY <1>1 DEF NoPointer, Pointer
<1>3. ZeroEvent \in EventSlot /\ Zero \in CommandSlot
  BY <1>2, Zenon DEF ZeroEvent, EventSlot, Zero, CommandSlot
<1>4. rings \in MachineType
  <2>1. NoCommand \in [seq : Nat, index : Pointer]
    BY <1>2, Zenon DEF NoCommand
  <2> QED BY <1>1, <2>1 DEF RingInit, MachineType, EventIndex
<1>5. CallType(xcpu) /\ xcpu.at = "ready" /\ Taken(xcpu) = 0
  BY <1>3, Zenon DEF RingInit, CallType, Taken
<1>6. xhc \in ControllerType /\ xhc.owed = <<>>
  <2>1. <<>> \in Seq(OwedEvent)
    OBVIOUS
  <2> QED BY <1>1, <1>2, <2>1 DEF RingInit, ControllerType, EventIndex
<1>7. RingTypes(cmdring, evtring, rings, xcpu, xhc)
  <2>1. cmdring \in [0 .. LinkIndex -> CommandSlot]
    <3>1. [payload |-> 0, kind |-> "link", cycle |-> TRUE] \in CommandSlot
      BY Zenon DEF CommandSlot
    <3> QED BY <1>3, <3>1, Zenon DEF RingInit
  <2>2. evtring \in [EventIndex -> EventSlot]
    BY <1>3, Zenon DEF RingInit, EventIndex
  <2> QED BY <1>4, <1>5, <1>6, <2>1, <2>2, Zenon DEF RingTypes
<1>8. Submitted(rings) = 0 /\ rings.producer_index = 0 /\ rings.producer_cycle = TRUE
      /\ rings.event_index = 0 /\ rings.event_cycle = TRUE /\ rings.outstanding = NoCommand
  BY DEF RingInit, Submitted
<1>9. Calling(rings, xcpu)
  BY <1>2, <1>5, <1>8, Zenon DEF Calling
<1>10. Laid(cmdring, rings, xcpu)
  <2>1. Stage(rings, xcpu, 7)
    BY <1>5 DEF Stage, Shows
  <2>2. Cells(cmdring, rings, 7)
    <3>1. \A k \in 0 .. LinkIndex - 1 : cmdring[k] = Zero
      BY <1>1 DEF RingInit
    <3>2. cmdring[LinkIndex] = [payload |-> 0, kind |-> "link", cycle |-> TRUE]
      BY <1>1 DEF RingInit
    <3>4. \A k \in 0 .. LinkIndex - 1 : cmdring[k].kind # "link"
      BY <3>1 DEF Zero
    <3>3. /\ \A k \in 0 .. LinkIndex - 1 : cmdring[k].cycle = ~rings.producer_cycle
          /\ cmdring[LinkIndex].kind = "link" /\ cmdring[LinkIndex].payload = 0
      <4>1. \A k \in 0 .. LinkIndex - 1 : cmdring[k].cycle = FALSE
        BY <3>1 DEF Zero
      <4>2. (~rings.producer_cycle) = FALSE
        BY <1>8, Zenon
      <4>3. cmdring[LinkIndex].kind = "link" /\ cmdring[LinkIndex].payload = 0
        BY <3>2
      <4> QED BY <4>1, <4>2, <4>3, Zenon
    <3> QED BY <1>1, <1>8, <3>3, <3>4 DEF Cells
  <2> QED BY <2>1, <2>2 DEF Laid
<1>11. xhc.done = 0 /\ xhc.dequeue = 0 /\ xhc.ccs = rings.producer_cycle /\ ~xhc.error /\ xhc.enqueue = 0
       /\ xhc.pcs = rings.event_cycle /\ xhc.erdp = 0
  BY Zenon DEF RingInit
<1>12. Fetching(rings, xcpu, xhc)
  BY <1>8, <1>11 DEF Fetching
<1>13. Posting(evtring, rings, xcpu, xhc)
  <2>1. \A j \in EventIndex : evtring[j] = ZeroEvent
    BY Zenon DEF RingInit, EventIndex
  <2>2. \A j \in EventIndex : evtring[j].pointer = NoPointer /\ evtring[j].cycle = ~xhc.pcs /\ ~(j < 0)
    <3>1. \A j \in EventIndex : evtring[j].pointer = NoPointer /\ evtring[j].cycle = FALSE
      BY <2>1 DEF ZeroEvent
    <3>2. (~xhc.pcs) = FALSE
      BY Zenon DEF RingInit
    <3>3. \A j \in EventIndex : ~(j < 0)
      BY <1>1 DEF EventIndex
    <3> QED BY <3>1, <3>2, <3>3, Zenon
  <2> QED BY <1>2, <1>5, <1>8, <1>11, <2>2 DEF Posting, Stale
<1>14. Flying(evtring, rings, xcpu, xhc)
  <2>1. \A j \in EventIndex : ~Posted(rings, xhc, j)
    BY <1>1, <1>8, <1>11 DEF Posted, EventIndex
  <2>2. Len(xhc.owed) = 0
    BY <1>6
  <2> QED BY <2>1, <2>2 DEF Flying, Arriving
<1>15. Loaded(evtring, rings, xcpu)
  BY <1>5, Zenon DEF Loaded
<1> QED BY <1>7, <1>9, <1>10, <1>12, <1>13, <1>14, <1>15, Zenon DEF RingInv, RingSound

\* The steps of a poll that take nothing: only the call changes.
LEMMA CallKeeps ==
  ASSUME NEW cm, NEW ev, NEW r, NEW x, NEW h, RingSound(cm, ev, r, x, h),
         NEW y, CallType(y), y.evidence = x.evidence, x.at # "store", y.at # "store",
         y.at \in {"load", "decide", "halt"} => r.outstanding # NoCommand, Loaded(ev, r, y)
  PROVE  RingSound(cm, ev, r, y, h)
<1>1. Taken(y) = Taken(x) /\ ~Shows(x) /\ ~Shows(y)
  BY Zenon DEF Taken, Shows
<1>2. RingTypes(cm, ev, r, y, h) /\ Calling(r, y)
  BY <1>1, Zenon DEF RingSound, RingTypes, Calling
<1>3. Laid(cm, r, y)
  <2>1. PICK n \in 0 .. 7 : Stage(r, x, n) /\ Cells(cm, r, n)
    BY Zenon DEF RingSound, Laid
  <2>2. n = 7
    BY <2>1, Zenon DEF Stage
  <2>3. Stage(r, y, n)
    BY <1>1, <2>2 DEF Stage
  <2> QED BY <2>1, <2>3, Zenon DEF Laid
<1>4. Fetching(r, y, h)
  BY <1>1, Zenon DEF RingSound, Fetching
<1>5. Posting(ev, r, y, h) /\ Flying(ev, r, y, h)
  BY <1>1, Zenon DEF RingSound, Posting, Flying, Latest
<1> QED BY <1>2, <1>3, <1>4, <1>5, Zenon DEF RingSound


\* What a concatenation holds.
LEMMA Concatenated ==
  ASSUME NEW S, NEW s \in Seq(S), NEW t \in Seq(S)
  PROVE  /\ s \o t \in Seq(S) /\ Len(s \o t) = Len(s) + Len(t)
         /\ \A i \in 1 .. Len(s) + Len(t) : (s \o t)[i] = IF i <= Len(s) THEN s[i] ELSE t[i - Len(s)]
OBVIOUS

\* What the concatenation of two triples holds.
LEMMA Joined ==
  ASSUME NEW S, NEW s \in Seq(S), NEW t \in Seq(S), Len(s) = 3, Len(t) = 3
  PROVE  /\ s \o t \in Seq(S) /\ Len(s \o t) = 6
         /\ (s \o t)[1] = s[1] /\ (s \o t)[2] = s[2] /\ (s \o t)[3] = s[3]
         /\ (s \o t)[4] = t[1] /\ (s \o t)[5] = t[2] /\ (s \o t)[6] = t[3]
<1>1. Len(s) + Len(t) = 6
  OBVIOUS
<1>2. s \o t \in Seq(S) /\ Len(s \o t) = 6
  BY <1>1, Concatenated, Zenon
<1> DEFINE f == s \o t
<1>3. \A i \in 1 .. Len(s) + Len(t) : f[i] = IF i <= Len(s) THEN s[i] ELSE t[i - Len(s)]
  BY Concatenated, Zenon
<1> HIDE DEF f
<1>4. f[1] = s[1] /\ f[2] = s[2] /\ f[3] = s[3] /\ f[4] = t[1] /\ f[5] = t[2] /\ f[6] = t[3]
  BY <1>1, <1>3
<1> QED BY <1>2, <1>4, Zenon DEF f

\* Two calls of publish_trb make six stores.
LEMMA SixStores ==
  ASSUME NEW a, NEW b, NEW c, NEW d, NEW e, NEW f
  PROVE  <<a, b, c>> \o <<d, e, f>> = <<a, b, c, d, e, f>>
<1> DEFINE S == {a,b,c,d,e,f}
           s == <<a,b,c>>
           t == <<d,e,f>>
           u == <<a,b,c,d,e,f>>
<1>1. s \in Seq(S) /\ t \in Seq(S) /\ u \in Seq(S) /\ Len(s) = 3 /\ Len(t) = 3 /\ Len(u) = 6
  OBVIOUS
<1>2. s[1] = a /\ s[2] = b /\ s[3] = c /\ t[1] = d /\ t[2] = e /\ t[3] = f
  BY Zenon
<1>3. u[1] = a /\ u[2] = b /\ u[3] = c /\ u[4] = d /\ u[5] = e /\ u[6] = f
  BY Zenon
<1> HIDE DEF s, t, u, S
<1>4. /\ s \o t \in Seq(S) /\ Len(s \o t) = 6
         /\ (s \o t)[1] = s[1] /\ (s \o t)[2] = s[2] /\ (s \o t)[3] = s[3]
         /\ (s \o t)[4] = t[1] /\ (s \o t)[5] = t[2] /\ (s \o t)[6] = t[3]
  BY <1>1, Joined
<1>8. \A i \in 1 .. 6 : i = 1 \/ i = 2 \/ i = 3 \/ i = 4 \/ i = 5 \/ i = 6
  OBVIOUS
<1>11. \A i \in 1 .. 6 : (s \o t)[i] = u[i]
  BY <1>2, <1>3, <1>8, <1>4, Zenon
<1>7. s \o t = u
  BY <1>1, <1>4, <1>11
<1> QED BY <1>7, Zenon DEF s, t, u

\* The store a call with n to come makes next.
StoreOf(n, i, c) ==
  CASE n = 6 -> [i |-> LinkIndex, field |-> "control", kind |-> "link", cycle |-> ~c]
    [] n = 5 -> [i |-> LinkIndex, field |-> "payload", payload |-> 0]
    [] n = 4 -> [i |-> LinkIndex, field |-> "control", kind |-> "link", cycle |-> c]
    [] n = 3 -> [i |-> i, field |-> "control", kind |-> "noop", cycle |-> ~c]
    [] n = 2 -> [i |-> i, field |-> "payload", payload |-> NoPointer]
    [] OTHER -> [i |-> i, field |-> "control", kind |-> "noop", cycle |-> c]

\* The sequence s is an element and a rest.
Peels(s, e, rest) == s # <<>> /\ Head(s) = e /\ Tail(s) = rest

\* The stores to come are the next one and those after it.
LEMMA Peeled ==
  ASSUME NEW n \in 1 .. 6, NEW i, NEW c
  PROVE  Peels(Remaining(n, i, c), StoreOf(n, i, c), Remaining(n - 1, i, c))
<1> DEFINE c1 == [i |-> i, field |-> "control", kind |-> "noop", cycle |-> ~c]
           c2 == [i |-> i, field |-> "payload", payload |-> NoPointer]
           c3 == [i |-> i, field |-> "control", kind |-> "noop", cycle |-> c]
           l1 == [i |-> LinkIndex, field |-> "control", kind |-> "link", cycle |-> ~c]
           l2 == [i |-> LinkIndex, field |-> "payload", payload |-> 0]
           l3 == [i |-> LinkIndex, field |-> "control", kind |-> "link", cycle |-> c]
<1>1. /\ Remaining(6, i, c) = <<l1, l2, l3, c1, c2, c3>> /\ Remaining(5, i, c) = <<l2, l3, c1, c2, c3>>
      /\ Remaining(4, i, c) = <<l3, c1, c2, c3>> /\ Remaining(3, i, c) = <<c1, c2, c3>>
      /\ Remaining(2, i, c) = <<c2, c3>> /\ Remaining(1, i, c) = <<c3>> /\ Remaining(0, i, c) = <<>>
  BY DEF Remaining
<1>2. /\ StoreOf(6, i, c) = l1 /\ StoreOf(5, i, c) = l2 /\ StoreOf(4, i, c) = l3
      /\ StoreOf(3, i, c) = c1 /\ StoreOf(2, i, c) = c2 /\ StoreOf(1, i, c) = c3
  BY DEF StoreOf
<1>3. n = 1 \/ n = 2 \/ n = 3 \/ n = 4 \/ n = 5 \/ n = 6
  OBVIOUS
<1> HIDE DEF c1, c2, c3, l1, l2, l3
<1>4. CASE n = 6
  <2>1. /\ Head(<<l1, l2, l3, c1, c2, c3>>) = l1 /\ Tail(<<l1, l2, l3, c1, c2, c3>>) = <<l2, l3, c1, c2, c3>>
        /\ <<l1, l2, l3, c1, c2, c3>> # <<>>
    OBVIOUS
  <2>2. n - 1 = 5
    BY <1>4
  <2> QED BY <1>1, <1>2, <1>4, <2>1, <2>2, Zenon DEF Peels
<1>5. CASE n = 5
  <2>1. /\ Head(<<l2, l3, c1, c2, c3>>) = l2 /\ Tail(<<l2, l3, c1, c2, c3>>) = <<l3, c1, c2, c3>>
        /\ <<l2, l3, c1, c2, c3>> # <<>>
    OBVIOUS
  <2>2. n - 1 = 4
    BY <1>5
  <2> QED BY <1>1, <1>2, <1>5, <2>1, <2>2, Zenon DEF Peels
<1>6. CASE n = 4
  <2>1. /\ Head(<<l3, c1, c2, c3>>) = l3 /\ Tail(<<l3, c1, c2, c3>>) = <<c1, c2, c3>>
        /\ <<l3, c1, c2, c3>> # <<>>
    OBVIOUS
  <2>2. n - 1 = 3
    BY <1>6
  <2> QED BY <1>1, <1>2, <1>6, <2>1, <2>2, Zenon DEF Peels
<1>7. CASE n = 3
  <2>1. /\ Head(<<c1, c2, c3>>) = c1 /\ Tail(<<c1, c2, c3>>) = <<c2, c3>>
        /\ <<c1, c2, c3>> # <<>>
    OBVIOUS
  <2>2. n - 1 = 2
    BY <1>7
  <2> QED BY <1>1, <1>2, <1>7, <2>1, <2>2, Zenon DEF Peels
<1>8. CASE n = 2
  <2>1. /\ Head(<<c2, c3>>) = c2 /\ Tail(<<c2, c3>>) = <<c3>>
        /\ <<c2, c3>> # <<>>
    OBVIOUS
  <2>2. n - 1 = 1
    BY <1>8
  <2> QED BY <1>1, <1>2, <1>8, <2>1, <2>2, Zenon DEF Peels
<1>9. CASE n = 1
  <2>1. /\ Head(<<c3>>) = c3 /\ Tail(<<c3>>) = <<>>
        /\ <<c3>> # <<>>
    OBVIOUS
  <2>2. n - 1 = 0
    BY <1>9
  <2> QED BY <1>1, <1>2, <1>9, <2>1, <2>2, Zenon DEF Peels
<1> QED BY <1>3, <1>4, <1>5, <1>6, <1>7, <1>8, <1>9, Zenon

\* submit_no_op has its stores to make.
LEMMA BeginKeeps ==
  ASSUME NEW cm, NEW ev, NEW r, NEW x, NEW h, RingSound(cm, ev, r, x, h),
         x.at = "ready", r.outstanding = NoCommand,
         NEW y, CallType(y), y.at = "store", y.evidence = x.evidence,
         y.stores = (IF r.producer_index + 1 = LinkIndex THEN write_link_trb(r.producer_cycle) ELSE <<>>)
                    \o publish_trb(r.producer_index, NoPointer, "noop", r.producer_cycle)
  PROVE  RingSound(cm, ev, r, y, h)
<1> DEFINE i == r.producer_index
           c == r.producer_cycle
           m == IF i + 1 = LinkIndex THEN 6 ELSE 3
<1>1. y.stores = Remaining(m, i, c)
  <2> DEFINE c1 == [i |-> i, field |-> "control", kind |-> "noop", cycle |-> ~c]
             c2 == [i |-> i, field |-> "payload", payload |-> NoPointer]
             c3 == [i |-> i, field |-> "control", kind |-> "noop", cycle |-> c]
             l1 == [i |-> LinkIndex, field |-> "control", kind |-> "link", cycle |-> ~c]
             l2 == [i |-> LinkIndex, field |-> "payload", payload |-> 0]
             l3 == [i |-> LinkIndex, field |-> "control", kind |-> "link", cycle |-> c]
  <2>1. /\ publish_trb(i, NoPointer, "noop", c) = <<c1, c2, c3>>
        /\ write_link_trb(c) = <<l1, l2, l3>>
    BY Zenon DEF publish_trb, write_link_trb
  <2>2. Remaining(6, i, c) = <<l1, l2, l3, c1, c2, c3>> /\ Remaining(3, i, c) = <<c1, c2, c3>>
    BY DEF Remaining
  <2> HIDE DEF c1, c2, c3, l1, l2, l3
  <2>3. CASE i + 1 = LinkIndex
    <3>1. y.stores = <<l1, l2, l3>> \o <<c1, c2, c3>>
      BY <2>1, <2>3, Zenon
    <3>2. <<l1, l2, l3>> \o <<c1, c2, c3>> = <<l1, l2, l3, c1, c2, c3>>
      BY SixStores
    <3> QED BY <2>2, <2>3, <3>1, <3>2, Zenon
  <2>4. CASE i + 1 # LinkIndex
    <3>1. y.stores = <<>> \o <<c1, c2, c3>>
      BY <2>1, <2>4, Zenon
    <3>2. <<>> \o <<c1, c2, c3>> = <<c1, c2, c3>>
      OBVIOUS
    <3> QED BY <2>2, <2>4, <3>1, <3>2, Zenon
  <2> QED BY <2>3, <2>4, Zenon
<1>2. Taken(y) = Taken(x) /\ ~Shows(x) /\ ~Shows(y)
  <2>1. m \in 1 .. 6
    OBVIOUS
  <2>2. y.stores # <<>>
    <3>1. Remaining(m, i, c) # <<>>
      <4> HIDE DEF m
      <4> QED BY <2>1, Peeled DEF Peels
    <3> QED BY <1>1, <3>1, Zenon
  <2> QED BY <2>2, Zenon DEF Taken, Shows
<1>3. RingTypes(cm, ev, r, y, h) /\ Calling(r, y)
  BY <1>2, Zenon DEF RingSound, RingTypes, Calling
<1>4. Laid(cm, r, y)
  <2>1. PICK n \in 0 .. 7 : Stage(r, x, n) /\ Cells(cm, r, n)
    BY Zenon DEF RingSound, Laid
  <2>2. n = 7
    BY <2>1, Zenon DEF Stage
  <2>3. Stage(r, y, m)
    <3>1. m # 7 /\ m # 0 /\ (m > 3 => r.producer_index + 1 = LinkIndex)
      OBVIOUS
    <3>2. y.stores = Remaining(m, r.producer_index, r.producer_cycle)
      BY <1>1, Zenon
    <3> HIDE DEF m
    <3> QED BY <1>2, <3>1, <3>2, Zenon DEF Stage
  <2>4. Cells(cm, r, m)
    BY <2>1, <2>2 DEF Cells
  <2>5. m \in 0 .. 7
    OBVIOUS
  <2> HIDE DEF m
  <2> QED BY <2>3, <2>4, <2>5, Zenon DEF Laid
<1>5. Fetching(r, y, h)
  BY <1>2, Zenon DEF RingSound, Fetching
<1>6. Posting(ev, r, y, h) /\ Flying(ev, r, y, h)
  BY <1>2, Zenon DEF RingSound, Posting, Flying, Latest
<1>7. Loaded(ev, r, y)
  BY Zenon DEF Loaded
<1> QED BY <1>3, <1>4, <1>5, <1>6, <1>7, Zenon DEF RingSound

\* d is the page cm after the store s.
Wrote(cm, s, d) ==
  d = IF s.field = "payload" THEN [cm EXCEPT ![s.i].payload = s.payload]
      ELSE [cm EXCEPT ![s.i].kind = s.kind, ![s.i].cycle = s.cycle]

\* A store to a control word.
LEMMA ControlStore ==
  ASSUME NEW cm \in [0 .. LinkIndex -> CommandSlot], NEW j \in 0 .. LinkIndex,
         NEW k \in {"none", "noop", "link"}, NEW b \in BOOLEAN, NEW d, NEW s, Wrote(cm, s, d),
         s.i = j, s.field = "control", s.kind = k, s.cycle = b
  PROVE  /\ d \in [0 .. LinkIndex -> CommandSlot] /\ \A m \in (0 .. LinkIndex) \ {j} : d[m] = cm[m]
         /\ d[j].kind = k /\ d[j].cycle = b /\ d[j].payload = cm[j].payload
<1> DEFINE v == [cm[j] EXCEPT !.kind = k, !.cycle = b]
<1>1. cm[j] \in CommandSlot
  BY Zenon
<1>2. v \in CommandSlot /\ v.kind = k /\ v.cycle = b /\ v.payload = cm[j].payload
  BY <1>1, Zenon DEF CommandSlot
<1>3. d = [cm EXCEPT ![j] = v]
  <2>1. d = [cm EXCEPT ![j].kind = k, ![j].cycle = b]
    BY Zenon DEF Wrote
  <2> QED BY <1>1, <2>1, Zenon DEF CommandSlot
<1> HIDE DEF v
<1>4. d \in [0 .. LinkIndex -> CommandSlot] /\ d[j] = v /\ \A m \in (0 .. LinkIndex) \ {j} : d[m] = cm[m]
  BY <1>2, <1>3, Zenon
<1> QED BY <1>2, <1>4, Zenon

\* A store to a payload.
LEMMA PayloadStore ==
  ASSUME NEW cm \in [0 .. LinkIndex -> CommandSlot], NEW j \in 0 .. LinkIndex, NEW p \in {NoPointer, 0}, NEW d,
         NEW s, Wrote(cm, s, d), s.i = j, s.field = "payload", s.payload = p
  PROVE  /\ d \in [0 .. LinkIndex -> CommandSlot] /\ \A m \in (0 .. LinkIndex) \ {j} : d[m] = cm[m]
         /\ d[j].kind = cm[j].kind /\ d[j].cycle = cm[j].cycle /\ d[j].payload = p
<1> DEFINE v == [cm[j] EXCEPT !.payload = p]
<1>1. cm[j] \in CommandSlot
  BY Zenon
<1>2. v \in CommandSlot /\ v.kind = cm[j].kind /\ v.cycle = cm[j].cycle /\ v.payload = p
  BY <1>1, Zenon DEF CommandSlot
<1>3. d = [cm EXCEPT ![j] = v]
  BY Zenon DEF Wrote
<1> HIDE DEF v
<1>4. d \in [0 .. LinkIndex -> CommandSlot] /\ d[j] = v /\ \A m \in (0 .. LinkIndex) \ {j} : d[m] = cm[m]
  BY <1>2, <1>3, Zenon
<1> QED BY <1>2, <1>4, Zenon

\* Each store of a submission leaves the page of one store less.
LEMMA StoreCells ==
  ASSUME NEW cm \in [0 .. LinkIndex -> CommandSlot], NEW r \in MachineType, NEW n \in 1 .. 6,
         Cells(cm, r, n), n > 3 => r.producer_index + 1 = LinkIndex, NEW d,
         Wrote(cm, StoreOf(n, r.producer_index, r.producer_cycle), d)
  PROVE  d \in [0 .. LinkIndex -> CommandSlot] /\ Cells(d, r, n - 1)
<1>1. PICK i \in 0 .. LinkIndex - 1, c \in BOOLEAN : i = r.producer_index /\ c = r.producer_cycle
  BY Zenon DEF MachineType
<1>2. LinkIndex \in Nat \ {0, 1}
  BY RingAssumption, Zenon
<1>3. i \in 0 .. LinkIndex /\ LinkIndex \in 0 .. LinkIndex
  BY <1>2
<1>4. (~c) \in BOOLEAN /\ NoPointer \in {NoPointer, 0} /\ 0 \in {NoPointer, 0}
      /\ "noop" \in {"none", "noop", "link"} /\ "link" \in {"none", "noop", "link"}
  BY Zenon
<1>12. PICK nc \in BOOLEAN : nc = (~c)
  BY <1>4, Zenon
<1> DEFINE Same(j) == \A m \in (0 .. LinkIndex) \ {j} : d[m] = cm[m]
           Typed == d \in [0 .. LinkIndex -> CommandSlot]
           Put(j, k, b) == d[j].kind = k /\ d[j].cycle = b /\ d[j].payload = cm[j].payload
           Fill(j, p) == d[j].kind = cm[j].kind /\ d[j].cycle = cm[j].cycle /\ d[j].payload = p
<1>5. CASE n = 6
  <2> DEFINE s == [i |-> LinkIndex, field |-> "control", kind |-> "link", cycle |-> nc]
  <2>1. Wrote(cm, s, d)
    BY <1>1, <1>12, <1>5 DEF StoreOf
  <2>2. s.i = LinkIndex /\ s.field = "control" /\ s.kind = "link" /\ s.cycle = nc
    BY Zenon
  <2>3. Typed /\ Same(LinkIndex) /\ Put(LinkIndex, "link", nc)
    <3> HIDE DEF s
    <3> QED BY <1>3, <1>4, <2>1, <2>2, ControlStore
  <2>4. Cells(d, r, n - 1)
    <3> HIDE DEF Typed
    <3> QED BY <1>1, <1>2, <1>5, <1>12, <2>3, SMTT(30) DEF Cells
  <2> QED BY <2>3, <2>4, Zenon
<1>6. CASE n = 5
  <2> DEFINE s == [i |-> LinkIndex, field |-> "payload", payload |-> 0]
  <2>1. Wrote(cm, s, d)
    BY <1>1, <1>6 DEF StoreOf
  <2>2. s.i = LinkIndex /\ s.field = "payload" /\ s.payload = 0
    BY Zenon
  <2>3. Typed /\ Same(LinkIndex) /\ Fill(LinkIndex, 0)
    <3> HIDE DEF s
    <3> QED BY <1>3, <1>4, <2>1, <2>2, PayloadStore
  <2>4. Cells(d, r, n - 1)
    <3> HIDE DEF Typed
    <3> QED BY <1>1, <1>2, <1>6, <2>3, SMTT(30) DEF Cells
  <2> QED BY <2>3, <2>4, Zenon
<1>7. CASE n = 4
  <2> DEFINE s == [i |-> LinkIndex, field |-> "control", kind |-> "link", cycle |-> c]
  <2>1. Wrote(cm, s, d)
    BY <1>1, <1>7 DEF StoreOf
  <2>2. s.i = LinkIndex /\ s.field = "control" /\ s.kind = "link" /\ s.cycle = c
    BY Zenon
  <2>3. Typed /\ Same(LinkIndex) /\ Put(LinkIndex, "link", c)
    <3> HIDE DEF s
    <3> QED BY <1>3, <1>4, <2>1, <2>2, ControlStore
  <2>4. Cells(d, r, n - 1)
    <3> HIDE DEF Typed
    <3> QED BY <1>1, <1>2, <1>7, <2>3 DEF Cells
  <2> QED BY <2>3, <2>4, Zenon
<1>8. CASE n = 3
  <2> DEFINE s == [i |-> i, field |-> "control", kind |-> "noop", cycle |-> nc]
  <2>1. Wrote(cm, s, d)
    BY <1>1, <1>12, <1>8 DEF StoreOf
  <2>2. s.i = i /\ s.field = "control" /\ s.kind = "noop" /\ s.cycle = nc
    BY Zenon
  <2>3. Typed /\ Same(i) /\ Put(i, "noop", nc)
    <3> HIDE DEF s
    <3> QED BY <1>3, <1>4, <2>1, <2>2, ControlStore
  <2>4. Cells(d, r, n - 1)
    <3> HIDE DEF Typed
    <3> QED BY <1>1, <1>2, <1>8, <1>12, <2>3, SMTT(30) DEF Cells
  <2> QED BY <2>3, <2>4, Zenon
<1>9. CASE n = 2
  <2> DEFINE s == [i |-> i, field |-> "payload", payload |-> NoPointer]
  <2>1. Wrote(cm, s, d)
    BY <1>1, <1>9 DEF StoreOf
  <2>2. s.i = i /\ s.field = "payload" /\ s.payload = NoPointer
    BY Zenon
  <2>3. Typed /\ Same(i) /\ Fill(i, NoPointer)
    <3> HIDE DEF s
    <3> QED BY <1>3, <1>4, <2>1, <2>2, PayloadStore
  <2>4. Cells(d, r, n - 1)
    <3>1. /\ \A k \in 0 .. LinkIndex : d[k].kind = cm[k].kind /\ d[k].cycle = cm[k].cycle
          /\ d[LinkIndex].payload = cm[LinkIndex].payload
      BY <1>2, <2>3
    <3>2. Cells(cm, r, 2) /\ n - 1 = 1
      BY <1>9
    <3>3. 0 .. i - 1 \subseteq 0 .. LinkIndex /\ i + 1 .. LinkIndex - 1 \subseteq 0 .. LinkIndex
          /\ 0 .. LinkIndex - 1 \subseteq 0 .. LinkIndex
      BY <1>1, <1>2
    <3> HIDE DEF Typed, Same, Fill
    <3>4. Cells(d, r, 1)
      BY <1>1, <1>2, <1>3, <3>1, <3>2, <3>3, SMTT(30) DEF Cells
    <3> QED BY <3>2, <3>4, Zenon
  <2> QED BY <2>3, <2>4, Zenon
<1>10. CASE n = 1
  <2> DEFINE s == [i |-> i, field |-> "control", kind |-> "noop", cycle |-> c]
  <2>1. Wrote(cm, s, d)
    BY <1>1, <1>10 DEF StoreOf
  <2>2. s.i = i /\ s.field = "control" /\ s.kind = "noop" /\ s.cycle = c
    BY Zenon
  <2>3. Typed /\ Same(i) /\ Put(i, "noop", c)
    <3> HIDE DEF s
    <3> QED BY <1>3, <1>4, <2>1, <2>2, ControlStore
  <2>4. Cells(d, r, n - 1)
    <3> HIDE DEF Typed
    <3> QED BY <1>1, <1>2, <1>10, <2>3, SMTT(30) DEF Cells
  <2> QED BY <2>3, <2>4, Zenon
<1>11. n = 1 \/ n = 2 \/ n = 3 \/ n = 4 \/ n = 5 \/ n = 6
  OBVIOUS
<1> QED BY <1>5, <1>6, <1>7, <1>8, <1>9, <1>10, <1>11, Zenon

\* Store.
LEMMA StoreKeeps ==
  ASSUME NEW cm, NEW ev, NEW r, NEW x, NEW h, RingSound(cm, ev, r, x, h), x.at = "store", x.stores # <<>>,
         NEW y, CallType(y), y.at = "store", y.evidence = x.evidence, y.stores = Tail(x.stores), NEW d,
         Wrote(cm, Head(x.stores), d)
  PROVE  RingSound(d, ev, r, y, h)
<1>1. PICK n \in 0 .. 7 : Stage(r, x, n) /\ Cells(cm, r, n)
  BY Zenon DEF RingSound, Laid
<1>2. /\ n \in 1 .. 6 /\ x.stores = Remaining(n, r.producer_index, r.producer_cycle)
      /\ n > 3 => r.producer_index + 1 = LinkIndex
  BY <1>1 DEF Stage, Shows
<1>3. /\ Head(x.stores) = StoreOf(n, r.producer_index, r.producer_cycle)
      /\ y.stores = Remaining(n - 1, r.producer_index, r.producer_cycle)
  <2>1. PICK i, c : i = r.producer_index /\ c = r.producer_cycle
    BY Zenon
  <2>2. Head(Remaining(n, i, c)) = StoreOf(n, i, c) /\ Tail(Remaining(n, i, c)) = Remaining(n - 1, i, c)
    <3>1. Peels(Remaining(n, i, c), StoreOf(n, i, c), Remaining(n - 1, i, c))
      BY <1>2, Peeled, Zenon
    <3> QED BY <3>1, Zenon DEF Peels
  <2>3. x.stores = Remaining(n, i, c)
    BY <1>2, <2>1, Zenon
  <2>4. Head(x.stores) = StoreOf(n, i, c) /\ y.stores = Remaining(n - 1, i, c)
    BY <2>2, <2>3, Zenon
  <2> QED BY <2>1, <2>4, Zenon
<1>4. cm \in [0 .. LinkIndex -> CommandSlot] /\ r \in MachineType
  BY Zenon DEF RingSound, RingTypes
<1>5. d \in [0 .. LinkIndex -> CommandSlot] /\ Cells(d, r, n - 1)
  <2>1. Wrote(cm, StoreOf(n, r.producer_index, r.producer_cycle), d)
    BY <1>3, Zenon
  <2> QED BY <1>1, <1>2, <1>4, <2>1, StoreCells, Zenon
<1>6. Shows(y) <=> n - 1 = 0
  <2>1. CASE n = 1
    <3>1. Remaining(0, r.producer_index, r.producer_cycle) = <<>>
      BY DEF Remaining
    <3>2. n - 1 = 0
      BY <2>1
    <3> QED BY <1>3, <3>1, <3>2, Zenon DEF Shows
  <2>2. CASE n # 1
    <3>1. n - 1 \in 1 .. 6 /\ n - 1 # 0
      BY <1>2, <2>2
    <3>2. Remaining(n - 1, r.producer_index, r.producer_cycle) # <<>>
      BY <3>1, Peeled DEF Peels
    <3> QED BY <1>3, <3>1, <3>2, Zenon DEF Shows
  <2> QED BY <2>1, <2>2, Zenon
<1>7. ~Shows(x) /\ Taken(y) = Taken(x)
  BY Zenon DEF Shows, Taken
<1>8. RingTypes(d, ev, r, y, h) /\ Calling(r, y)
  BY <1>5, <1>7, Zenon DEF RingSound, RingTypes, Calling
<1>9. Laid(d, r, y)
  <2>1. n - 1 \in 0 .. 7 /\ n - 1 # 7 /\ (n - 1 > 3 => n > 3)
    BY <1>2
  <2>2. Stage(r, y, n - 1)
    BY <1>2, <1>3, <1>6, <2>1, Zenon DEF Stage
  <2> QED BY <1>5, <2>1, <2>2, Zenon DEF Laid
<1>10. Fetching(r, y, h)
  BY <1>7, Zenon DEF RingSound, Fetching
<1>11. Posting(ev, r, y, h) /\ Flying(ev, r, y, h)
  BY <1>7, ZenonT(40) DEF RingSound, Posting, Flying, Latest
<1>12. Loaded(ev, r, y)
  BY Zenon DEF Loaded
<1> QED BY <1>8, <1>9, <1>10, <1>11, <1>12, Zenon DEF RingSound

\* The machine q, the call y and the controller g hold what r, x and h hold of the events.
Alike(r, x, h, q, y, g) ==
  /\ q.event_index = r.event_index /\ q.event_cycle = r.event_cycle /\ Taken(y) = Taken(x)
  /\ g.enqueue = h.enqueue /\ g.pcs = h.pcs /\ g.erdp = h.erdp /\ g.owed = h.owed
  /\ g.done = h.done /\ g.index = h.index /\ g.code = h.code

\* The events on their way do not depend on what the controller fetches.
LEMMA SameEvents ==
  ASSUME NEW ev, NEW r, NEW x, NEW h, NEW q, NEW y, NEW g, Posting(ev, r, x, h), Flying(ev, r, x, h),
         Alike(r, x, h, q, y, g)
  PROVE  Posting(ev, q, y, g) /\ Flying(ev, q, y, g)
<1>1. \A j : Posted(q, g, j) <=> Posted(r, h, j)
  BY Zenon DEF Posted, Alike
<1>2. \A e : Latest(e, y, g) <=> Latest(e, x, h)
  BY Zenon DEF Latest, Alike
<1>3. \A p : Owing(g, p) <=> Owing(h, p)
  BY Zenon DEF Owing, Alike
<1>4. Posting(ev, q, y, g)
  BY <1>1, Zenon DEF Posting, Alike
<1>5. Flying(ev, q, y, g)
  BY <1>1, <1>2, <1>3, Zenon DEF Flying, Arriving, Alike
<1> QED BY <1>4, <1>5, Zenon

\* q is the machine r once it has counted its command.
Counted(r, q) ==
  LET last == r.producer_index + 1 = LinkIndex
  IN q = [r EXCEPT !.outstanding = [seq |-> r.next_sequence, index |-> r.producer_index],
                   !.next_sequence = @ + 1,
                   !.producer_index = IF last THEN 0 ELSE @ + 1,
                   !.producer_cycle = IF last THEN ~@ ELSE @]
Rang(h, g) == g = [h EXCEPT !.active = ~h.error]

\* Doorbell: the command is out.
LEMMA DoorbellKeeps ==
  ASSUME NEW cm, NEW ev, NEW r, NEW x, NEW h, RingSound(cm, ev, r, x, h), Shows(x),
         NEW y, CallType(y), y.at = "ready", y.evidence = x.evidence,
         NEW q, Counted(r, q), NEW g, Rang(h, g)
  PROVE  RingSound(cm, ev, q, y, g)
<1>1. RingTypes(cm, ev, r, x, h) /\ r \in MachineType /\ h \in ControllerType
  BY Zenon DEF RingSound, RingTypes
<1>2. PICK i \in 0 .. LinkIndex - 1, c \in BOOLEAN, P \in Nat :
        i = r.producer_index /\ c = r.producer_cycle /\ P = Submitted(r)
  BY <1>1, RingFields, ZenonT(40)
<1>3. LinkIndex \in Nat \ {0, 1} /\ r.next_sequence = P + 1
  BY <1>1, <1>2, RingFields, Zenon
<1> DEFINE last == i + 1 = LinkIndex
           i2 == IF last THEN 0 ELSE i + 1
           c2 == IF last THEN ~c ELSE c
           o == [seq |-> P + 1, index |-> i]
<1>4. /\ i2 \in 0 .. LinkIndex - 1 /\ c2 \in BOOLEAN /\ P + 2 \in Nat \ {0}
      /\ o \in [seq : Nat, index : Pointer]
  <2>1. i2 \in 0 .. LinkIndex - 1 /\ P + 2 \in Nat \ {0} /\ P + 1 \in Nat
    BY <1>2, <1>3
  <2>2. c2 \in BOOLEAN
    BY Zenon
  <2>3. i \in Pointer
    BY Zenon DEF Pointer
  <2> QED BY <2>1, <2>2, <2>3, Zenon
<1>5. q = [r EXCEPT !.outstanding = o, !.next_sequence = P + 2, !.producer_index = i2, !.producer_cycle = c2]
  <2>1. r.next_sequence + 1 = P + 2
    BY <1>2, <1>3
  <2> QED BY <1>1, <1>2, <1>3, <2>1, Zenon DEF Counted, MachineType
<1> HIDE DEF i2, c2, o
<1>6. /\ q \in MachineType /\ q.producer_index = i2 /\ q.producer_cycle = c2 /\ q.outstanding = o
      /\ q.next_sequence = P + 2 /\ q.event_index = r.event_index /\ q.event_cycle = r.event_cycle
  BY <1>1, <1>4, <1>5, Zenon DEF MachineType
<1>7. Submitted(q) = P + 1 /\ Taken(y) = Taken(x) /\ ~Shows(y) /\ x.at = "store"
  BY <1>2, <1>6 DEF Submitted, Taken, Shows
<1>8. r.outstanding = NoCommand /\ Taken(x) = P /\ i = P % LinkIndex
  BY <1>2, <1>7, Zenon DEF RingSound, Calling
<1>9. o # NoCommand /\ o.seq = P + 1 /\ o.index = i
  BY <1>2 DEF o, NoCommand
<1>10. (P + 1) % LinkIndex = i2
  <2>1. (P + 1) % LinkIndex = IF (P % LinkIndex) + 1 < LinkIndex THEN (P % LinkIndex) + 1
                              ELSE (P % LinkIndex) + 1 - LinkIndex
    <3>1. 1 \in 1 .. LinkIndex /\ LinkIndex \in Nat \ {0}
      BY <1>3
    <3> QED BY <1>2, <3>1, Further, Zenon
  <2> QED BY <1>2, <1>3, <1>8, <2>1 DEF i2
<1>11. i <= P
  <2>1. PICK u \in Nat, v \in 0 .. LinkIndex - 1 : P = u * LinkIndex + v /\ P % LinkIndex = v
    BY <1>2, <1>3, Divided, Zenon
  <2>2. u * LinkIndex \in Nat
    BY <1>3
  <2> QED BY <1>8, <2>1, <2>2
<1>12. /\ g \in ControllerType /\ g.active = ~h.error /\ g.error = h.error /\ g.dequeue = h.dequeue
       /\ g.ccs = h.ccs /\ g.enqueue = h.enqueue /\ g.pcs = h.pcs /\ g.erdp = h.erdp /\ g.done = h.done
       /\ g.index = h.index /\ g.code = h.code /\ g.owed = h.owed
  <2>1. (~h.error) \in BOOLEAN
    BY Zenon
  <2> QED BY <1>1, <2>1, Zenon DEF ControllerType, Rang
<1>13. RingTypes(cm, ev, q, y, g)
  BY <1>1, <1>6, <1>12, Zenon DEF RingTypes
<1>14. Calling(q, y)
  BY <1>6, <1>7, <1>8, <1>9, <1>10, Zenon DEF Calling
<1>15. Laid(cm, q, y)
  <2>1. PICK n \in 0 .. 7 : Stage(r, x, n) /\ Cells(cm, r, n)
    BY Zenon DEF RingSound, Laid
  <2>2. n = 0
    BY <2>1, Zenon DEF Stage
  <2>3. Stage(q, y, 7)
    BY <1>7 DEF Stage
  <2>4. Cells(cm, r, 0)
    BY <2>1, <2>2, Zenon
  <2>5. Cells(cm, q, 7)
    <3>1. CASE last
      <4>1. \A k \in 0 .. LinkIndex - 1 : cm[k].cycle = c /\ cm[k].kind # "link"
        BY <1>2, <1>3, <2>4, <3>1 DEF Cells
      <4>2. /\ cm[LinkIndex].kind = "link" /\ cm[LinkIndex].payload = 0 /\ cm[LinkIndex].cycle = c
        BY <1>2, <2>4, <3>1 DEF Cells
      <4>3. q.producer_index = 0 /\ (~q.producer_cycle) = c
        BY <1>6, <3>1, ZenonT(40) DEF i2, c2
      <4> QED BY <1>3, <4>1, <4>2, <4>3 DEF Cells
    <3>2. CASE ~last
      <4>1. P + 1 >= LinkIndex => P >= LinkIndex
        <5>1. P < LinkIndex => P % LinkIndex = P
          BY <1>2, <1>3, SMTT(30)
        <5> QED BY <1>2, <1>3, <1>8, <3>2, <5>1, SMTT(30)
      <4> QED BY <1>2, <1>3, <1>6, <1>7, <2>4, <3>2, <4>1, SMTT(30) DEF Cells, i2, c2
    <3> QED BY <3>1, <3>2, Zenon
  <2> QED BY <2>3, <2>5 DEF Laid
<1>16. Fetching(q, y, g)
  <2>1. g.active \/ g.error
    BY <1>12, ZenonT(40)
  <2>2. h.error => ~h.active
    BY Zenon DEF RingSound, Fetching
  <2>3. /\ last => i2 = 0 /\ ((h.ccs = c2) <=> ~(h.ccs = c))
        /\ ~last => i2 = i + 1 /\ c2 = c
    <3>1. h.ccs \in BOOLEAN
      BY <1>1, RingFields, Zenon
    <3> QED BY <3>1, Zenon DEF i2, c2
  <2>4. /\ h.done > 0 => h.index = (h.done - 1) % LinkIndex
        /\ h.done = Taken(x) /\ h.done > 0 => h.code = x.evidence.code
    BY <1>1, RingFields, Zenon DEF RingSound, Fetching
  <2>5. /\ g.done > 0 => g.index = (g.done - 1) % LinkIndex
        /\ g.done = Taken(y) /\ g.done > 0 => g.code = y.evidence.code
        /\ g.error => ~g.active
    <3>1. g.error => ~g.active
      BY <1>12, Zenon
    <3> QED BY <1>7, <1>12, <2>4, <3>1, Zenon
  <2> DEFINE same == h.ccs = c
             same2 == h.ccs = c2
             D == h.dequeue
  <2>6. \/ h.done = P /\ ((D = i /\ same) \/ (i = 0 /\ P >= LinkIndex /\ D = LinkIndex /\ ~same))
        \/ h.done = P + 1 /\ ((D = i + 1 /\ same) \/ (last /\ D = 0 /\ ~same))
    BY <1>2, <1>8, Zenon DEF RingSound, Fetching
  <2>7. \/ h.done = P + 1 /\ ((D = i2 /\ same2) \/ (i2 = 0 /\ P + 1 >= LinkIndex /\ D = LinkIndex /\ ~same2))
        \/ /\ h.done = P
           /\ \/ i2 > 0 /\ D = i2 - 1 /\ same2
              \/ i2 = 1 /\ P + 1 >= LinkIndex /\ D = LinkIndex /\ ~same2
              \/ i2 = 0 /\ D = LinkIndex - 1 /\ ~same2
    <3>1. ~last => (same2 <=> same)
      BY <2>3, Zenon
    <3>2. last => (same2 <=> ~same)
      BY <2>3, Zenon
    <3> HIDE DEF same, same2, D
    <3>3. CASE last
      BY <1>2, <1>3, <1>11, <2>3, <2>6, <3>2, <3>3
    <3>4. CASE ~last
      BY <1>2, <1>3, <2>3, <2>6, <3>1, <3>4
    <3> QED BY <3>3, <3>4, Zenon
  <2>8. P = (P + 1) - 1
    BY <1>2
  <2> QED BY <1>6, <1>7, <1>9, <1>12, <2>1, <2>5, <2>7, <2>8, Zenon DEF Fetching
<1>17. Posting(ev, q, y, g) /\ Flying(ev, q, y, g)
  <2>1. Alike(r, x, h, q, y, g)
    BY <1>6, <1>7, <1>12, ZenonT(40) DEF Alike
  <2>2. Posting(ev, r, x, h) /\ Flying(ev, r, x, h)
    BY Zenon DEF RingSound
  <2> QED BY <2>1, <2>2, SameEvents, Zenon
<1>18. Loaded(ev, q, y)
  BY Zenon DEF Loaded
<1> QED BY <1>13, <1>14, <1>15, <1>16, <1>17, <1>18, Zenon DEF RingSound

\* q is the machine r, and g the controller h, once the event is consumed.
Consumed(r, q) ==
  LET last == r.event_index + 1 = EventCapacity
  IN q = [r EXCEPT !.event_index = IF last THEN 0 ELSE r.event_index + 1,
                   !.event_cycle = IF last THEN ~@ ELSE @,
                   !.outstanding = NoCommand]
Told(r, h, g) ==
  g = [h EXCEPT !.erdp = IF r.event_index + 1 = EventCapacity THEN 0 ELSE r.event_index + 1]

\* A number k less than a turn or a turn behind a, at the same place, is a turn behind.
LEMMA TurnBehind ==
  ASSUME NEW n \in Nat \ {0}, NEW a \in Nat, NEW k \in Nat, a - n <= k, k < a
  PROVE  (k % n = a % n) <=> (k = a - n)
<1> DEFINE d == a - k
<1>1. d \in 1 .. n /\ k + d = a
  OBVIOUS
<1>2. (k + d) % n = IF (k % n) + d < n THEN (k % n) + d ELSE (k % n) + d - n
  <2> HIDE DEF d
  <2> QED BY <1>1, Further, Zenon
<1>3. a % n = IF (k % n) + d < n THEN (k % n) + d ELSE (k % n) + d - n
  <2> HIDE DEF d
  <2> QED BY <1>1, <1>2, Zenon
<1>4. k % n \in 0 .. n - 1 /\ a % n \in 0 .. n - 1
  OBVIOUS
<1>5. PICK u \in 0 .. n - 1, v \in 0 .. n - 1 : u = k % n /\ v = a % n
  BY <1>4, Zenon
<1>6. v = IF u + d < n THEN u + d ELSE u + d - n
  <2> HIDE DEF d
  <2> QED BY <1>3, <1>5, Zenon
<1>7. (u = v) <=> (d = n)
  <2> HIDE DEF d
  <2> QED BY <1>1, <1>6
<1>8. (d = n) <=> (k = a - n)
  OBVIOUS
<1> QED BY <1>5, <1>7, <1>8, Zenon

\* A slot that was stale and is not the one just taken stays stale.
LEMMA StaleStays ==
  ASSUME NEW e, NEW j, NEW a \in Nat, Stale(e, j, a), j # a % EventCapacity, EventCapacity \in Nat \ {0}
  PROVE  Stale(e, j, a + 1)
<1>1. CASE e.pointer = NoPointer
  BY <1>1, Zenon DEF Stale
<1>2. CASE e.pointer # NoPointer
  <2>1. PICK k \in Nat : /\ a - EventCapacity <= k /\ k < a
                         /\ k % EventCapacity = j /\ e.pointer = k % LinkIndex
    BY <1>2, Zenon DEF Stale
  <2>2. k # a - EventCapacity
    BY <2>1, TurnBehind, Zenon
  <2>3. a + 1 - EventCapacity <= k /\ k < a + 1
    BY <2>1, <2>2
  <2> QED BY <2>1, <2>3 DEF Stale
<1> QED BY <1>1, <1>2, Zenon

\* The slot just taken is stale.
LEMMA StaleNow ==
  ASSUME NEW e, NEW j, NEW a \in Nat, a % EventCapacity = j, e.pointer = a % LinkIndex,
         EventCapacity \in Nat \ {0}
  PROVE  Stale(e, j, a + 1)
<1>1. a + 1 - EventCapacity <= a /\ a < a + 1
  OBVIOUS
<1>2. \E k \in Nat : /\ a + 1 - EventCapacity <= k /\ k < a + 1
                     /\ k % EventCapacity = j /\ e.pointer = k % LinkIndex
  <2> WITNESS a \in Nat
  <2> QED BY <1>1, Zenon
<1> QED BY <1>2 DEF Stale

\* The slot the driver reads next is posted when its cycle bit says so.
LEMMA CycleTells ==
  ASSUME NEW ev, NEW r, NEW x, NEW h, r.event_index \in EventIndex, h.enqueue \in EventIndex,
         r.event_cycle \in BOOLEAN, h.pcs \in BOOLEAN, Posting(ev, r, x, h),
         ev[r.event_index].cycle = r.event_cycle
  PROVE  Posted(r, h, r.event_index)
<1>1. PICK E \in EventIndex, n \in EventIndex, c \in BOOLEAN, p \in BOOLEAN :
        E = r.event_index /\ n = h.enqueue /\ c = r.event_cycle /\ p = h.pcs
  BY Zenon
<1>2. EventIndex \subseteq Int
  BY RingAssumption DEF EventIndex
<1>3. (p = c) <=> (n >= E)
  BY <1>1, Zenon DEF Posting
<1>4. c = (IF E < n THEN p ELSE ~p)
  BY <1>1, Zenon DEF Posting
<1>5. n # E
  <2>1. SUFFICES ASSUME n = E PROVE FALSE
    BY Zenon
  <2>2. p = c
    BY <1>1, <1>2, <1>3, <2>1
  <2>3. c = (~p)
    BY <1>1, <1>2, <1>4, <2>1
  <2> QED BY <2>2, <2>3, Zenon
<1> QED BY <1>1, <1>2, <1>5 DEF Posted

\* Which slots are posted once the slot the driver reads is consumed.
LEMMA PostedAfter ==
  ASSUME NEW r, NEW q, NEW h, NEW g, r.event_index \in EventIndex, h.enqueue \in EventIndex,
         g.enqueue = h.enqueue, Posted(r, h, r.event_index),
         q.event_index = IF r.event_index + 1 = EventCapacity THEN 0 ELSE r.event_index + 1
  PROVE  \A j \in EventIndex : Posted(q, g, j) <=> Posted(r, h, j) /\ j # r.event_index
<1>1. PICK E \in EventIndex, n \in EventIndex : E = r.event_index /\ n = h.enqueue
  BY Zenon
<1>2. EventCapacity \in Nat \ {0, 1, 2}
  BY RingAssumption
<1>3. IF n >= E THEN E <= E /\ E < n ELSE TRUE
  BY <1>1, Zenon DEF Posted
<1> QED BY <1>1, <1>2, <1>3 DEF Posted, EventIndex

\* The call x takes the event at the driver's place and ends as y.
Accepts(ev, r, x, y) ==
  /\ x.at = "decide" /\ ev[r.event_index].cycle = r.event_cycle /\ ev[r.event_index].kind = "completion"
  /\ x.loaded.pointer = r.outstanding.index
  /\ y.at = "ready" /\ y.evidence = [seq |-> r.outstanding.seq, code |-> x.loaded.code]

\* PollAccepted.
LEMMA AcceptKeeps ==
  ASSUME NEW cm, NEW ev, NEW r, NEW x, NEW h, RingSound(cm, ev, r, x, h), 
         NEW y, CallType(y), Accepts(ev, r, x, y), NEW q, Consumed(r, q), NEW g, Told(r, h, g)
  PROVE  RingSound(cm, ev, q, y, g)
<1>1. RingTypes(cm, ev, r, x, h) /\ r \in MachineType /\ h \in ControllerType
  BY Zenon DEF RingSound, RingTypes
<1>2. PICK E \in EventIndex, A \in Nat, c \in BOOLEAN :
        E = r.event_index /\ A = Taken(x) /\ c = r.event_cycle
  BY <1>1, RingFields, Zenon
<1>3. LinkIndex \in Nat \ {0, 1} /\ EventCapacity \in Nat \ {0, 1, 2} /\ EventCapacity = LinkIndex + 1
  BY RingAssumption
<1> DEFINE last == E + 1 = EventCapacity
           E2 == IF last THEN 0 ELSE E + 1
           c2 == IF last THEN ~c ELSE c
<1>4. E2 \in EventIndex /\ c2 \in BOOLEAN /\ NoCommand \in [seq : Nat, index : Pointer]
  <2>1. E2 \in EventIndex
    BY <1>2, <1>3 DEF EventIndex
  <2>2. c2 \in BOOLEAN
    BY Zenon
  <2>3. NoCommand \in [seq : Nat, index : Pointer]
    BY Zenon DEF NoCommand, Pointer
  <2> QED BY <2>1, <2>2, <2>3, Zenon
<1>5. q = [r EXCEPT !.event_index = E2, !.event_cycle = c2, !.outstanding = NoCommand]
  BY <1>1, <1>2, Zenon DEF Consumed, MachineType
<1>6. g = [h EXCEPT !.erdp = E2]
  BY <1>2, Zenon DEF Told
<1> HIDE DEF E2, c2
<1>7. /\ q \in MachineType /\ q.event_index = E2 /\ q.event_cycle = c2 /\ q.outstanding = NoCommand
      /\ q.next_sequence = r.next_sequence /\ q.producer_index = r.producer_index
      /\ q.producer_cycle = r.producer_cycle
  BY <1>1, <1>4, <1>5, Zenon DEF MachineType
<1>8. /\ g \in ControllerType /\ g.active = h.active /\ g.error = h.error /\ g.dequeue = h.dequeue
      /\ g.ccs = h.ccs /\ g.enqueue = h.enqueue /\ g.pcs = h.pcs /\ g.erdp = E2 /\ g.done = h.done
      /\ g.index = h.index /\ g.code = h.code /\ g.owed = h.owed
  BY <1>1, <1>4, <1>6, Zenon DEF ControllerType
<1>30. /\ x.at = "decide" /\ y.at = "ready" /\ y.evidence.seq = r.outstanding.seq
       /\ y.evidence.code = x.loaded.code /\ x.loaded.pointer = r.outstanding.index
       /\ ev[E].cycle = c /\ ev[E].kind = "completion"
  BY <1>2, SMTT(30) DEF Accepts
<1>9. /\ r.outstanding # NoCommand /\ Submitted(r) = A + 1 /\ r.outstanding.seq = A + 1
      /\ r.outstanding.index = A % LinkIndex
  BY <1>2, <1>30, Zenon DEF RingSound, Calling
<1>10. Taken(y) = A + 1 /\ Submitted(q) = A + 1 /\ ~Shows(x) /\ ~Shows(y)
  BY <1>7, <1>9, <1>30, Zenon DEF Taken, Submitted, Shows
<1>11. Posted(r, h, E) /\ Arriving(ev, r, h, E)
  <2>1. h.enqueue \in EventIndex /\ h.pcs \in BOOLEAN
    BY <1>1, RingFields, Zenon
  <2>2. Posting(ev, r, x, h)
    BY Zenon DEF RingSound
  <2>3. Posted(r, h, r.event_index)
    BY <1>2, <1>30, <2>1, <2>2, CycleTells, Zenon
  <2> QED BY <1>2, <1>30, <2>3, Zenon DEF Arriving
<1>12. /\ Latest(ev[E], x, h) /\ \A k \in EventIndex : Arriving(ev, r, h, k) => k = E
       /\ \A p \in 1 .. Len(h.owed) : ~Owing(h, p)
  BY <1>2, <1>11, Zenon DEF RingSound, Flying
<1>13. x.loaded = ev[E]
  <2>1. Loaded(ev, r, x)
    BY Zenon DEF RingSound
  <2> QED BY <1>2, <1>30, <2>1, Zenon DEF Loaded
<1>14. h.done = A + 1 /\ h.code = y.evidence.code /\ ev[E].pointer = A % LinkIndex
  BY <1>2, <1>9, <1>12, <1>13, <1>30, Zenon DEF Latest
<1>15. \A j \in EventIndex : Posted(q, g, j) <=> Posted(r, h, j) /\ j # E
  <2>1. h.enqueue \in EventIndex
    BY <1>1, RingFields, Zenon
  <2>2. q.event_index = IF r.event_index + 1 = EventCapacity THEN 0 ELSE r.event_index + 1
    BY <1>2, <1>7, Zenon DEF E2
  <2> QED BY <1>2, <1>8, <1>11, <2>1, <2>2, PostedAfter, Zenon
<1>16. RingTypes(cm, ev, q, y, g)
  BY <1>1, <1>7, <1>8, ZenonT(40) DEF RingTypes
<1>17. Calling(q, y)
  <2>1. r.producer_index = Submitted(r) % LinkIndex
    BY Zenon DEF RingSound, Calling
  <2> QED BY <1>7, <1>9, <1>10, <1>30, <2>1, Zenon DEF Calling
<1>18. Laid(cm, q, y)
  <2>1. PICK n \in 0 .. 7 : Stage(r, x, n) /\ Cells(cm, r, n)
    BY Zenon DEF RingSound, Laid
  <2>2. n = 7
    BY <1>30, <2>1, Zenon DEF Stage
  <2>3. Stage(q, y, 7)
    BY <1>10, <1>30 DEF Stage
  <2>4. Cells(cm, q, 7)
    <3>1. Cells(cm, r, 7)
      BY <2>1, <2>2, Zenon
    <3> QED BY <1>7, <3>1, ZenonT(40) DEF Cells, Submitted
  <2>5. 7 \in 0 .. 7
    OBVIOUS
  <2> QED BY <2>3, <2>4, <2>5, Zenon DEF Laid
<1>19. Fetching(q, y, g)
  <2>1. Submitted(q) = Submitted(r) /\ h.done = Submitted(r) /\ Taken(y) = h.done
        /\ h.done # Submitted(r) + 1 /\ h.done # Submitted(r) - 1
    BY <1>2, <1>9, <1>10, <1>14
  <2>2. Fetching(r, x, h)
    BY Zenon DEF RingSound
  <2>3. /\ \/ h.dequeue = r.producer_index /\ h.ccs = r.producer_cycle
           \/ /\ r.producer_index = 0 /\ Submitted(r) >= LinkIndex /\ h.dequeue = LinkIndex
              /\ ~(h.ccs = r.producer_cycle)
        /\ h.done > 0 => h.index = (h.done - 1) % LinkIndex
        /\ h.error => ~h.active
    BY <2>1, <2>2, Zenon DEF Fetching
  <2> QED BY <1>7, <1>8, <1>14, <2>1, <2>3, Zenon DEF Fetching
<1>20. Posting(ev, q, y, g)
  <2>1. E2 = (A + 1) % EventCapacity
    <3>1. E = A % EventCapacity
      BY <1>2, Zenon DEF RingSound, Posting
    <3>2. 1 \in 1 .. EventCapacity /\ EventCapacity \in Nat \ {0}
      BY <1>3
    <3>3. (A + 1) % EventCapacity = IF (A % EventCapacity) + 1 < EventCapacity THEN (A % EventCapacity) + 1
                                    ELSE (A % EventCapacity) + 1 - EventCapacity
      BY <1>2, <3>2, Further, Zenon
    <3> QED BY <1>2, <1>3, <3>1, <3>3 DEF E2, EventIndex
  <2>2. (h.pcs = c2) <=> (h.enqueue >= E2)
    <3>1. PICK n \in EventIndex, p \in BOOLEAN : n = h.enqueue /\ p = h.pcs
      BY <1>1, RingFields
    <3>2. (p = c) <=> (n >= E)
      BY <1>2, <3>1, Zenon DEF RingSound, Posting
    <3>3. n # E
      BY <1>2, <1>3, <1>11, <3>1 DEF Posted, EventIndex
    <3>4. CASE last
      <4>1. n < E /\ n >= E2
        BY <1>2, <1>3, <3>1, <3>3, <3>4 DEF E2, EventIndex
      <4>2. p # c
        BY <1>2, <1>3, <3>1, <3>2, <4>1 DEF EventIndex
      <4>3. p = c2
        BY <3>1, <3>4, <4>2, Zenon DEF c2
      <4> QED BY <3>1, <4>1, <4>3, Zenon
    <3>5. CASE ~last
      <4>1. (n >= E2) <=> (n >= E)
        BY <1>2, <1>3, <3>1, <3>3, <3>5 DEF E2, EventIndex
      <4>2. c2 = c
        BY <3>5, Zenon DEF c2
      <4> QED BY <3>1, <3>2, <4>1, <4>2, Zenon
    <3> QED BY <3>4, <3>5, Zenon
  <2>3. \A j \in EventIndex : ev[j].cycle = (IF j < h.enqueue THEN h.pcs ELSE ~h.pcs)
    BY Zenon DEF RingSound, Posting
  <2>4. ASSUME NEW j \in EventIndex, ~Posted(q, g, j) PROVE Stale(ev[j], j, A + 1)
    <3>1. E = A % EventCapacity
      BY <1>2, Zenon DEF RingSound, Posting
    <3>2. CASE j = E
      <4>1. A % EventCapacity = j /\ ev[j].pointer = A % LinkIndex
        BY <1>14, <3>1, <3>2, Zenon
      <4>2. EventCapacity \in Nat \ {0}
        BY <1>3, Zenon
      <4> QED BY <4>1, <4>2, StaleNow, Zenon
    <3>3. CASE j # E
      <4>1. Stale(ev[j], j, A)
        BY <1>2, <1>15, <2>4, <3>3, Zenon DEF RingSound, Posting
      <4>2. EventCapacity \in Nat \ {0}
        BY <1>3
      <4> QED BY <1>2, <3>1, <3>3, <4>1, <4>2, StaleStays, Zenon
    <3> QED BY <3>2, <3>3, Zenon
  <2> QED BY <1>7, <1>8, <1>10, <2>1, <2>2, <2>3, <2>4, Zenon DEF Posting
<1>21. Flying(ev, q, y, g)
  <2>1. \A j \in EventIndex : ~Arriving(ev, q, g, j)
    BY <1>12, <1>15, Zenon DEF Arriving
  <2>2. \A p \in 1 .. Len(g.owed) : ~Owing(g, p)
    BY <1>8, <1>12, Zenon DEF Owing
  <2> QED BY <2>1, <2>2, Zenon DEF Flying
<1>22. Loaded(ev, q, y)
  BY <1>30, Zenon DEF Loaded
<1> QED BY <1>16, <1>17, <1>18, <1>19, <1>20, <1>21, <1>22, Zenon DEF RingSound

\* Where the controller stands when it looks at a block it may not take.
LEMMA FetchPlaces ==
  ASSUME NEW cm, NEW ev, NEW r, NEW x, NEW h, RingSound(cm, ev, r, x, h), NEW n \in 0 .. 7,
         Stage(r, x, n), Cells(cm, r, n), h.done = Submitted(r) - 1
  PROVE  cm[h.dequeue].cycle = h.ccs
<1>1. RingTypes(cm, ev, r, x, h)
  BY Zenon DEF RingSound
<1>20. /\ r.producer_index \in 0 .. LinkIndex - 1 /\ r.producer_cycle \in BOOLEAN /\ Submitted(r) \in Nat
       /\ h.dequeue \in 0 .. LinkIndex /\ h.ccs \in BOOLEAN
  BY <1>1, RingFields, Zenon
<1>2. PICK i \in 0 .. LinkIndex - 1, c \in BOOLEAN, P \in Nat, d \in 0 .. LinkIndex, s \in BOOLEAN :
        i = r.producer_index /\ c = r.producer_cycle /\ P = Submitted(r) /\ d = h.dequeue /\ s = h.ccs
  BY <1>20, Zenon
<1>3. LinkIndex \in Nat \ {0, 1}
  BY RingAssumption, Zenon
<1>4. /\ r.outstanding # NoCommand
      /\ \/ i > 0 /\ d = i - 1 /\ s = c
         \/ i = 1 /\ P >= LinkIndex /\ d = LinkIndex /\ ~(s = c)
         \/ i = 0 /\ d = LinkIndex - 1 /\ ~(s = c)
  BY <1>2 DEF RingSound, Fetching
<1>5. n = 7
  <2>1. x.at # "store"
    BY <1>4, ZenonT(40) DEF RingSound, Calling
  <2> QED BY <2>1, Zenon DEF Stage
<1>6. /\ \A k \in 0 .. i - 1 : cm[k].cycle = c
      /\ \A k \in i + 1 .. LinkIndex - 1 : cm[k].cycle = ~c
      /\ P >= LinkIndex => cm[LinkIndex].cycle = ~c
  <2>1. ~(i + 1 = LinkIndex /\ n <= 3)
    BY <1>5
  <2> QED BY <1>2, <2>1, Zenon DEF Cells
<1>7. CASE i > 0 /\ d = i - 1 /\ s = c
  <2>1. d \in 0 .. i - 1
    BY <1>2, <1>7
  <2> QED BY <1>2, <1>6, <1>7, <2>1, Zenon
<1>8. CASE i = 1 /\ P >= LinkIndex /\ d = LinkIndex /\ ~(s = c)
  <2>1. s = ~c
    BY <1>8, Zenon
  <2> QED BY <1>2, <1>6, <1>8, <2>1, Zenon
<1>9. CASE i = 0 /\ d = LinkIndex - 1 /\ ~(s = c)
  <2>1. s = ~c
    BY <1>9, Zenon
  <2>2. d \in i + 1 .. LinkIndex - 1
    BY <1>2, <1>3, <1>9
  <2> QED BY <1>2, <1>6, <1>9, <2>1, <2>2, Zenon
<1> QED BY <1>4, <1>7, <1>8, <1>9, Zenon

\* Fetch: the cycle bit is not the controller's, and it goes idle.
LEMMA IdleKeeps ==
  ASSUME NEW cm, NEW ev, NEW r, NEW x, NEW h, RingSound(cm, ev, r, x, h), cm[h.dequeue].cycle # h.ccs,
         NEW g, g = [h EXCEPT !.active = FALSE]
  PROVE  RingSound(cm, ev, r, x, g)
<1>1. h \in ControllerType
  BY Zenon DEF RingSound, RingTypes
<1>2. /\ g \in ControllerType /\ g.active = FALSE /\ g.error = h.error /\ g.dequeue = h.dequeue
      /\ g.ccs = h.ccs /\ g.enqueue = h.enqueue /\ g.pcs = h.pcs /\ g.erdp = h.erdp /\ g.done = h.done
      /\ g.index = h.index /\ g.code = h.code /\ g.owed = h.owed
  BY <1>1, Zenon DEF ControllerType
<1>3. h.done # Submitted(r) - 1
  <2>1. PICK n \in 0 .. 7 : Stage(r, x, n) /\ Cells(cm, r, n)
    BY Zenon DEF RingSound, Laid
  <2> QED BY <2>1, FetchPlaces, Zenon
<1>4. Fetching(r, x, g)
  BY <1>2, <1>3, Zenon DEF RingSound, Fetching
<1>5. Posting(ev, r, x, g) /\ Flying(ev, r, x, g)
  <2>1. Alike(r, x, h, r, x, g)
    BY <1>2, Zenon DEF Alike
  <2>2. Posting(ev, r, x, h) /\ Flying(ev, r, x, h)
    BY Zenon DEF RingSound
  <2> QED BY <2>1, <2>2, SameEvents, Zenon
<1> QED BY <1>2, <1>4, <1>5, Zenon DEF RingSound, RingTypes

\* HostSystemError.
LEMMA ErrorKeeps ==
  ASSUME NEW cm, NEW ev, NEW r, NEW x, NEW h, RingSound(cm, ev, r, x, h),
         NEW g, g = [h EXCEPT !.error = TRUE, !.active = FALSE]
  PROVE  RingSound(cm, ev, r, x, g)
<1>1. h \in ControllerType
  BY Zenon DEF RingSound, RingTypes
<1>2. /\ g \in ControllerType /\ g.active = FALSE /\ g.error = TRUE /\ g.dequeue = h.dequeue
      /\ g.ccs = h.ccs /\ g.enqueue = h.enqueue /\ g.pcs = h.pcs /\ g.erdp = h.erdp /\ g.done = h.done
      /\ g.index = h.index /\ g.code = h.code /\ g.owed = h.owed
  BY <1>1, Zenon DEF ControllerType
<1>3. Fetching(r, x, g)
  BY <1>2, Zenon DEF RingSound, Fetching
<1>4. Posting(ev, r, x, g) /\ Flying(ev, r, x, g)
  <2>1. Alike(r, x, h, r, x, g)
    BY <1>2, Zenon DEF Alike
  <2>2. Posting(ev, r, x, h) /\ Flying(ev, r, x, h)
    BY Zenon DEF RingSound
  <2> QED BY <2>1, <2>2, SameEvents
<1> QED BY <1>2, <1>3, <1>4, Zenon DEF RingSound, RingTypes

\* g is the controller h past the link t.
Followed(h, t, g) == g = [h EXCEPT !.dequeue = t.payload, !.ccs = ~@]

\* Fetch: the controller follows the link.
LEMMA LinkKeeps ==
  ASSUME NEW cm, NEW ev, NEW r, NEW x, NEW h, RingSound(cm, ev, r, x, h),
         cm[h.dequeue].cycle = h.ccs, cm[h.dequeue].kind = "link",
         NEW g, Followed(h, cm[h.dequeue], g)
  PROVE  RingSound(cm, ev, r, x, g)
<1>1. RingTypes(cm, ev, r, x, h) /\ h \in ControllerType
  BY ZenonT(40) DEF RingSound, RingTypes
<1>20. /\ r.producer_index \in 0 .. LinkIndex - 1 /\ r.producer_cycle \in BOOLEAN /\ Submitted(r) \in Nat
       /\ h.dequeue \in 0 .. LinkIndex /\ h.ccs \in BOOLEAN
  BY <1>1, RingFields, Zenon
<1>2. PICK i \in 0 .. LinkIndex - 1, c \in BOOLEAN, P \in Nat, d \in 0 .. LinkIndex, s \in BOOLEAN :
        i = r.producer_index /\ c = r.producer_cycle /\ P = Submitted(r) /\ d = h.dequeue /\ s = h.ccs
  BY <1>20, Zenon
<1>3. LinkIndex \in Nat \ {0, 1}
  BY RingAssumption, Zenon
<1>4. PICK n \in 0 .. 7 : Stage(r, x, n) /\ Cells(cm, r, n)
  BY Zenon DEF RingSound, Laid
<1>5. d = LinkIndex /\ cm[h.dequeue].payload = 0
  <2>1. d \notin 0 .. LinkIndex - 1
    <3>1. \A k \in 0 .. LinkIndex - 1 : cm[k].kind # "link"
      BY <1>4, Zenon DEF Cells
    <3> QED BY <1>2, <3>1, Zenon
  <2>2. d = LinkIndex
    BY <1>2, <1>3, <2>1
  <2> QED BY <1>2, <1>4, <2>2, Zenon DEF Cells
<1>6. PICK s2 \in BOOLEAN : s2 = ~s
  BY Zenon
<1>7. g = [h EXCEPT !.dequeue = 0, !.ccs = s2]
  BY <1>1, <1>2, <1>5, <1>6, Zenon DEF Followed, ControllerType
<1>8. /\ g \in ControllerType /\ g.active = h.active /\ g.error = h.error /\ g.dequeue = 0
      /\ g.ccs = s2 /\ g.enqueue = h.enqueue /\ g.pcs = h.pcs /\ g.erdp = h.erdp /\ g.done = h.done
      /\ g.index = h.index /\ g.code = h.code /\ g.owed = h.owed
  <2>1. 0 \in 0 .. LinkIndex
    BY <1>3
  <2> QED BY <1>1, <1>6, <1>7, <2>1, Zenon DEF ControllerType
<1>9. (s2 = c) <=> ~(s = c)
  BY <1>2, <1>6, Zenon
<1>10. Fetching(r, x, g)
  <2> DEFINE same == s = c
             same2 == s2 = c
  <2>1. \/ h.done = P /\ ((d = i /\ same) \/ (i = 0 /\ P >= LinkIndex /\ d = LinkIndex /\ ~same))
        \/ h.done = P + 1 /\ Shows(x) /\ ((d = i + 1 /\ same) \/ (i + 1 = LinkIndex /\ d = 0 /\ ~same))
        \/ /\ h.done = P - 1 /\ r.outstanding # NoCommand /\ (h.active \/ h.error)
           /\ \/ i > 0 /\ d = i - 1 /\ same
              \/ i = 1 /\ P >= LinkIndex /\ d = LinkIndex /\ ~same
              \/ i = 0 /\ d = LinkIndex - 1 /\ ~same
    BY <1>2, ZenonT(40) DEF RingSound, Fetching
  <2>2. \/ h.done = P /\ i = 0 /\ same2
        \/ h.done = P + 1 /\ Shows(x) /\ i + 1 = LinkIndex /\ ~same2
        \/ /\ h.done = P - 1 /\ r.outstanding # NoCommand /\ (h.active \/ h.error)
           /\ i = 1 /\ same2
    <3>1. same2 <=> ~same
      BY <1>9, Zenon
    <3> HIDE DEF same, same2
    <3> QED BY <1>2, <1>3, <1>5, <2>1, <3>1, SMTT(30)
  <2>3. /\ g.done > 0 => g.index = (g.done - 1) % LinkIndex
        /\ g.done = Taken(x) /\ g.done > 0 => g.code = x.evidence.code
        /\ g.error => ~g.active
    BY <1>8, Zenon DEF RingSound, Fetching
  <2>4. 1 > 0 /\ 0 = 1 - 1
    BY SMTT(30)
  <2> QED BY <1>2, <1>8, <2>2, <2>3, <2>4, Zenon DEF Fetching
<1>11. Posting(ev, r, x, g) /\ Flying(ev, r, x, g)
  <2>1. Alike(r, x, h, r, x, g)
    BY <1>8, ZenonT(40) DEF Alike
  <2>2. Posting(ev, r, x, h) /\ Flying(ev, r, x, h)
    BY Zenon DEF RingSound
  <2> QED BY <2>1, <2>2, SameEvents, Zenon
<1> QED BY <1>8, <1>10, <1>11, Zenon DEF RingSound, RingTypes

\* What an appended event changes.
LEMMA Appended ==
  ASSUME NEW s \in Seq(OwedEvent), NEW e \in OwedEvent
  PROVE  /\ Append(s, e) \in Seq(OwedEvent) /\ Len(s) \in Nat /\ Len(Append(s, e)) = Len(s) + 1
         /\ Append(s, e)[Len(s) + 1] = e /\ \A p \in 1 .. Len(s) : Append(s, e)[p] = s[p]
OBVIOUS

\* g is the controller h with one more event e to post.
Owes(h, e, g) == g.owed = Append(h.owed, e)

\* An event to post that is no completion, or the only one, keeps the events in order.
LEMMA OwedOneMore ==
  ASSUME NEW ev, NEW r, NEW x, NEW h, NEW g, NEW e \in OwedEvent, h.owed \in Seq(OwedEvent), Owes(h, e, g),
         g.enqueue = h.enqueue, Flying(ev, r, x, h),
         e.kind # "completion" => g.done = h.done /\ g.index = h.index /\ g.code = h.code,
         e.kind = "completion" => h.done # Taken(x) + 1 /\ Latest(e, x, g)
  PROVE  Flying(ev, r, x, g)
<1> DEFINE n == Len(h.owed)
<1>1. /\ n \in Nat /\ Len(g.owed) = n + 1 /\ g.owed[n + 1] = e /\ \A p \in 1 .. n : g.owed[p] = h.owed[p]
  BY Appended DEF Owes
<1> HIDE DEF n
<1>2. \A j : Posted(r, g, j) <=> Posted(r, h, j)
  BY Zenon DEF Posted
<1>3. \A p \in 1 .. n + 1 : p = n + 1 \/ p \in 1 .. n
  BY <1>1, SMTT(30)
<1>4. n + 1 \in 1 .. n + 1 /\ \A p \in 1 .. n : p \in 1 .. n + 1
  BY <1>1, SMTT(30)
<1>5. CASE e.kind = "completion"
  <2>1. /\ \A j \in EventIndex : ~Arriving(ev, r, h, j)
        /\ \A p \in 1 .. n : ~Owing(h, p)
    BY <1>5, Zenon DEF Flying, Latest, n
  <2>2. \A j \in EventIndex : ~Arriving(ev, r, g, j)
    BY <1>2, <2>1, Zenon DEF Arriving
  <2>3. \A p \in 1 .. n + 1 : Owing(g, p) => p = n + 1
    BY <1>1, <1>3, <2>1, Zenon DEF Owing
  <2>4. Latest(g.owed[n + 1], x, g)
    BY <1>1, <1>5, Zenon
  <2> QED BY <1>1, <2>2, <2>3, <2>4, Zenon DEF Flying
<1>6. CASE e.kind # "completion"
  <2>1. \A u : Latest(u, x, g) <=> Latest(u, x, h)
    BY <1>6, Zenon DEF Latest
  <2>2. \A j : Arriving(ev, r, g, j) <=> Arriving(ev, r, h, j)
    BY <1>2, Zenon DEF Arriving
  <2>3. \A p \in 1 .. n + 1 : Owing(g, p) => p \in 1 .. n /\ Owing(h, p) /\ g.owed[p] = h.owed[p]
    BY <1>1, <1>3, <1>6, Zenon DEF Owing
  <2>4. /\ \A j \in EventIndex : Arriving(ev, r, h, j) =>
             /\ Latest(ev[j], x, h)
             /\ \A k \in EventIndex : Arriving(ev, r, h, k) => k = j
             /\ \A p \in 1 .. n : ~Owing(h, p)
        /\ \A p \in 1 .. n : Owing(h, p) =>
             /\ Latest(h.owed[p], x, h)
             /\ \A q \in 1 .. n : Owing(h, q) => q = p
    BY Zenon DEF Flying, n
  <2>5. \A j \in EventIndex : Arriving(ev, r, g, j) =>
             /\ Latest(ev[j], x, g)
             /\ \A k \in EventIndex : Arriving(ev, r, g, k) => k = j
             /\ \A p \in 1 .. n + 1 : ~Owing(g, p)
    BY <2>1, <2>2, <2>3, <2>4, Zenon
  <2>6. \A p \in 1 .. n + 1 : Owing(g, p) =>
             /\ Latest(g.owed[p], x, g)
             /\ \A q \in 1 .. n + 1 : Owing(g, q) => q = p
    BY <2>1, <2>3, <2>4, Zenon
  <2> QED BY <1>1, <2>5, <2>6, Zenon DEF Flying
<1> QED BY <1>5, <1>6, Zenon

\* PortChanges.
LEMMA PortKeeps ==
  ASSUME NEW cm, NEW ev, NEW r, NEW x, NEW h, RingSound(cm, ev, r, x, h), NEW e \in OwedEvent, e.kind = "port",
         NEW o, o = Append(h.owed, e), NEW g, g = [h EXCEPT !.ports = h.ports + 1, !.owed = o]
  PROVE  RingSound(cm, ev, r, x, g)
<1>1. h \in ControllerType /\ h.owed \in Seq(OwedEvent) /\ h.ports \in Nat
  BY RingFields, Zenon DEF RingSound, RingTypes
<1>2. o \in Seq(OwedEvent) /\ h.ports + 1 \in Nat
  BY <1>1, Appended
<1>3. /\ g \in ControllerType /\ g.active = h.active /\ g.error = h.error /\ g.dequeue = h.dequeue
      /\ g.ccs = h.ccs /\ g.enqueue = h.enqueue /\ g.pcs = h.pcs /\ g.erdp = h.erdp /\ g.done = h.done
      /\ g.index = h.index /\ g.code = h.code /\ g.owed = o
  BY <1>1, <1>2, Zenon DEF ControllerType
<1>4. Fetching(r, x, g)
  BY <1>3, ZenonT(40) DEF RingSound, Fetching
<1>5. Posting(ev, r, x, g)
  <2>1. \A j : Posted(r, g, j) <=> Posted(r, h, j)
    BY <1>3, Zenon DEF Posted
  <2> QED BY <1>3, <2>1, Zenon DEF RingSound, Posting
<1>6. Flying(ev, r, x, g)
  <2>1. Owes(h, e, g) /\ Flying(ev, r, x, h)
    BY <1>3, Zenon DEF Owes, RingSound
  <2> QED BY <1>1, <1>3, <2>1, OwedOneMore, ZenonT(40)
<1> QED BY <1>3, <1>4, <1>5, <1>6, Zenon DEF RingSound, RingTypes

\* g is the controller h once it has executed the command at d with the code given.
Executed(h, d, code, o, g) ==
  /\ o = Append(h.owed, [kind |-> "completion", pointer |-> d, code |-> code])
  /\ g = [h EXCEPT !.dequeue = d + 1, !.done = h.done + 1, !.index = d, !.code = code, !.owed = o]

\* Fetch: the controller executes a command.
LEMMA ExecuteKeeps ==
  ASSUME NEW cm, NEW ev, NEW r, NEW x, NEW h, RingSound(cm, ev, r, x, h), NEW d, d = h.dequeue,
         cm[d].cycle = h.ccs, cm[d].kind = "noop", NEW code \in Nat,
         NEW o, NEW g, Executed(h, d, code, o, g)
  PROVE  RingSound(cm, ev, r, x, g)
<1>1. RingTypes(cm, ev, r, x, h) /\ h \in ControllerType
  BY Zenon DEF RingSound, RingTypes
<1>2. /\ r.producer_index \in 0 .. LinkIndex - 1 /\ r.producer_cycle \in BOOLEAN /\ Submitted(r) \in Nat
      /\ d \in 0 .. LinkIndex /\ h.ccs \in BOOLEAN /\ h.done \in Nat /\ Taken(x) \in Nat
      /\ h.owed \in Seq(OwedEvent)
  BY <1>1, RingFields, Zenon
<1>3. PICK i \in 0 .. LinkIndex - 1, c \in BOOLEAN, P \in Nat, s \in BOOLEAN, A \in Nat :
        i = r.producer_index /\ c = r.producer_cycle /\ P = Submitted(r) /\ s = h.ccs /\ A = Taken(x)
  BY <1>2, Zenon
<1>4. LinkIndex \in Nat \ {0, 1}
  BY RingAssumption, Zenon
<1>5. PICK n \in 0 .. 7 : Stage(r, x, n) /\ Cells(cm, r, n)
  BY Zenon DEF RingSound, Laid
<1>6. d \in 0 .. LinkIndex - 1
  <2>1. cm[LinkIndex].kind = "link"
    BY <1>5, Zenon DEF Cells
  <2>2. d # LinkIndex
    BY <2>1, Zenon
  <2> QED BY <1>2, <1>4, <2>2
<1>7. /\ d # i => (cm[d].cycle = c <=> d < i)
      /\ d = i => (cm[d].cycle = c <=> n = 0)
  <2>1. /\ \A k \in 0 .. i - 1 : cm[k].cycle = c
        /\ \A k \in i + 1 .. LinkIndex - 1 : cm[k].cycle = ~c
        /\ cm[i].cycle = (IF n = 0 THEN c ELSE ~c)
    BY <1>3, <1>5, ZenonT(40) DEF Cells
  <2>2. d \in 0 .. i - 1 \/ d = i \/ d \in i + 1 .. LinkIndex - 1
    BY <1>3, <1>4, <1>6, SMTT(30)
  <2>3. CASE d \in 0 .. i - 1
    BY <1>3, <2>1, <2>3, SMTT(30)
  <2>4. CASE d = i
    <3>1. (~c) # c
      BY <1>3, Zenon
    <3> QED BY <2>1, <2>4, <3>1, Zenon
  <2>5. CASE d \in i + 1 .. LinkIndex - 1
    <3>1. (~c) # c /\ ~(d < i)
      BY <1>3, <2>5
    <3> QED BY <2>1, <2>5, <3>1, Zenon
  <2> QED BY <2>2, <2>3, <2>4, <2>5, Zenon
<1> DEFINE same == s = c
<1>8. same <=> cm[d].cycle = c
  BY <1>3, Zenon
<1>9. \/ h.done = P /\ ((d = i /\ same) \/ (i = 0 /\ P >= LinkIndex /\ d = LinkIndex /\ ~same))
      \/ h.done = P + 1 /\ Shows(x) /\ ((d = i + 1 /\ same) \/ (i + 1 = LinkIndex /\ d = 0 /\ ~same))
      \/ /\ h.done = P - 1 /\ r.outstanding # NoCommand /\ (h.active \/ h.error)
         /\ \/ i > 0 /\ d = i - 1 /\ same
            \/ i = 1 /\ P >= LinkIndex /\ d = LinkIndex /\ ~same
            \/ i = 0 /\ d = LinkIndex - 1 /\ ~same
  BY <1>3, ZenonT(40) DEF RingSound, Fetching
<1>10. \/ h.done = P /\ d = i /\ same /\ n = 0
       \/ /\ h.done = P - 1 /\ r.outstanding # NoCommand
          /\ (i > 0 /\ d = i - 1 /\ same) \/ (i = 0 /\ d = LinkIndex - 1 /\ ~same)
  <2> HIDE DEF same
  <2>1. CASE h.done = P
    BY <1>3, <1>4, <1>6, <1>7, <1>8, <1>9, <2>1, SMTT(30)
  <2>2. CASE h.done = P + 1
    <3>1. ~(d = i + 1 /\ same)
      BY <1>3, <1>6, <1>7, <1>8, SMTT(30)
    <3>2. ~(i + 1 = LinkIndex /\ d = 0 /\ ~same)
      BY <1>3, <1>4, <1>7, <1>8, SMTT(30)
    <3> QED BY <1>3, <1>9, <2>2, <3>1, <3>2, SMTT(30)
  <2>3. CASE h.done = P - 1
    <3>1. d # LinkIndex
      BY <1>4, <1>6
    <3> QED BY <1>3, <1>9, <2>3, <3>1
  <2> QED BY <1>9, <2>1, <2>2, <2>3, Zenon
<1>11. n = 0 => Shows(x) /\ r.outstanding = NoCommand
  BY <1>5, Zenon DEF RingSound, Stage, Calling, Shows
<1>12. /\ i = P % LinkIndex
       /\ r.outstanding = NoCommand => A = P
       /\ r.outstanding # NoCommand => P = A + 1
  BY <1>3, ZenonT(40) DEF RingSound, Calling
<1>13. h.done = A
  BY <1>3, <1>10, <1>11, <1>12
<1>14. d = A % LinkIndex /\ (i = 0 /\ h.done = P - 1 => P >= LinkIndex)
  <2>1. CASE h.done = P
    BY <1>3, <1>10, <1>12, <1>13, <2>1, SMTT(30)
  <2>2. CASE h.done # P
    <3>1. P = A + 1 /\ ((i > 0 /\ d = i - 1) \/ (i = 0 /\ d = LinkIndex - 1))
      BY <1>10, <1>12, <2>2, Zenon
    <3>2. 1 \in 1 .. LinkIndex /\ LinkIndex \in Nat \ {0}
      BY <1>4
    <3>3. (A + 1) % LinkIndex = IF (A % LinkIndex) + 1 < LinkIndex THEN (A % LinkIndex) + 1
                                ELSE (A % LinkIndex) + 1 - LinkIndex
      BY <1>3, <3>2, Further, Zenon
    <3>4. A % LinkIndex \in 0 .. LinkIndex - 1
      BY <1>3, <1>4, SMTT(30)
    <3>5. d = A % LinkIndex
      BY <1>3, <1>4, <1>12, <3>1, <3>3, <3>4, SMTT(30)
    <3>6. i = 0 => P >= LinkIndex
      <4>1. PICK u \in Nat, v \in 0 .. LinkIndex - 1 : P = u * LinkIndex + v /\ P % LinkIndex = v
        BY <1>3, <3>2, Divided, Zenon
      <4>2. u = 0 => u * LinkIndex = 0
        BY <1>4
      <4>3. u >= 1 => u * LinkIndex >= LinkIndex
        BY <1>4
      <4>4. u * LinkIndex \in Nat
        BY <1>4
      <4> DEFINE m == u * LinkIndex
      <4>5. m \in Nat /\ (u = 0 => m = 0) /\ (u >= 1 => m >= LinkIndex) /\ P = m + v
        BY <4>1, <4>2, <4>3, <4>4, Zenon
      <4>6. v = i /\ P >= 1
        BY <1>3, <1>12, <3>1, <4>1, SMTT(30)
      <4> HIDE DEF m
      <4> QED BY <1>3, <1>4, <4>1, <4>5, <4>6
    <3> QED BY <3>5, <3>6, Zenon
  <2> QED BY <2>1, <2>2, Zenon
<1> DEFINE e == [kind |-> "completion", pointer |-> d, code |-> code]
<1>15. e \in OwedEvent /\ d \in Pointer
  <2>1. d \in Pointer
    BY <1>6, Zenon DEF Pointer
  <2> QED BY <2>1, Zenon DEF OwedEvent
<1>16. o = Append(h.owed, e) /\ e.kind = "completion" /\ e.pointer = d /\ e.code = code
  BY Zenon DEF Executed
<1> HIDE DEF e
<1>17. o \in Seq(OwedEvent)
  BY <1>2, <1>15, <1>16, Appended, Zenon
<1>18. d + 1 \in 0 .. LinkIndex /\ h.done + 1 \in Nat
  BY <1>2, <1>4, <1>6, SMTT(30)
<1>19. /\ g \in ControllerType /\ g.active = h.active /\ g.error = h.error /\ g.dequeue = d + 1
       /\ g.ccs = h.ccs /\ g.enqueue = h.enqueue /\ g.pcs = h.pcs /\ g.erdp = h.erdp /\ g.done = h.done + 1
       /\ g.index = d /\ g.code = code /\ g.owed = o
  BY <1>1, <1>15, <1>17, <1>18, Zenon DEF ControllerType, Executed
<1>20. Fetching(r, x, g)
  <2>1. g.done = A + 1 /\ A + 1 > 0 /\ (A + 1) - 1 = A /\ A + 1 # A
    BY <1>3, <1>13, <1>19, SMTT(30)
  <2>2. \/ g.done = P /\ ((g.dequeue = i /\ same) \/ (i = 0 /\ P >= LinkIndex /\ g.dequeue = LinkIndex /\ ~same))
        \/ g.done = P + 1 /\ Shows(x) /\ g.dequeue = i + 1 /\ same
    <3> HIDE DEF same
    <3>1. CASE h.done = P
      BY <1>3, <1>10, <1>11, <1>19, <3>1, SMTT(30)
    <3>2. CASE h.done # P
      <4>1. P - 1 + 1 = P /\ i - 1 + 1 = i /\ LinkIndex - 1 + 1 = LinkIndex
        BY <1>3, <1>4, SMTT(30)
      <4> QED BY <1>10, <1>14, <1>19, <3>2, <4>1, Zenon
    <3> QED BY <3>1, <3>2, Zenon
  <2>3. /\ g.done > 0 => g.index = (g.done - 1) % LinkIndex
        /\ ~(g.done = Taken(x))
    BY <1>3, <1>14, <1>19, <2>1, Zenon
  <2>4. g.error => ~g.active
    BY <1>19, Zenon DEF RingSound, Fetching
  <2> QED BY <1>3, <1>19, <2>2, <2>3, <2>4, Zenon DEF Fetching
<1>21. Posting(ev, r, x, g)
  <2>1. \A j : Posted(r, g, j) <=> Posted(r, h, j)
    BY <1>19, Zenon DEF Posted
  <2> QED BY <1>19, <2>1, Zenon DEF RingSound, Posting
<1>22. Flying(ev, r, x, g)
  <2>1. Owes(h, e, g) /\ Flying(ev, r, x, h)
    BY <1>16, <1>19, ZenonT(40) DEF Owes, RingSound
  <2>2. h.done # Taken(x) + 1 /\ Latest(e, x, g)
    BY <1>3, <1>13, <1>16, <1>19 DEF Latest
  <2> QED BY <1>2, <1>15, <1>16, <1>19, <2>1, <2>2, OwedOneMore, Zenon
<1> QED BY <1>19, <1>20, <1>21, <1>22, Zenon DEF RingSound, RingTypes

\* What the first event to post is, and those after it.
LEMMA Shifted ==
  ASSUME NEW s \in Seq(OwedEvent), s # <<>>
  PROVE  /\ Len(s) \in Nat \ {0} /\ Head(s) = s[1] /\ s[1] \in OwedEvent
         /\ Tail(s) \in Seq(OwedEvent) /\ Len(Tail(s)) = Len(s) - 1
         /\ \A p \in 1 .. Len(s) - 1 : Tail(s)[p] = s[p + 1]
OBVIOUS

\* The first event of the controller h posted: w is the event page, g the controller.
Wrapped(h) == IF h.enqueue + 1 = EventCapacity THEN 0 ELSE h.enqueue + 1
Turned(h) == IF h.enqueue + 1 = EventCapacity THEN ~h.pcs ELSE h.pcs
PutEvent(ev, h, e, w) ==
  w = [ev EXCEPT ![h.enqueue] = [pointer |-> e.pointer, code |-> e.code, kind |-> e.kind, cycle |-> h.pcs]]
Advanced(h, o, g) == g = [h EXCEPT !.owed = o, !.enqueue = Wrapped(h), !.pcs = Turned(h)]
PostsFirst(ev, h, w, g) ==
  h.owed # <<>> /\ PutEvent(ev, h, Head(h.owed), w) /\ Advanced(h, Tail(h.owed), g)

\* Which slots are posted once the controller has written one more.
LEMMA PostedMore ==
  ASSUME NEW r, NEW h, NEW g, r.event_index \in EventIndex, h.enqueue \in EventIndex,
         g.enqueue = Wrapped(h), Wrapped(h) # r.event_index
  PROVE  /\ ~Posted(r, h, h.enqueue)
         /\ \A j \in EventIndex : Posted(r, g, j) <=> Posted(r, h, j) \/ j = h.enqueue
<1>1. PICK E \in EventIndex, n \in EventIndex : E = r.event_index /\ n = h.enqueue
  BY Zenon
<1>2. EventCapacity \in Nat \ {0, 1, 2}
  BY RingAssumption
<1> QED BY <1>1, <1>2 DEF Posted, EventIndex, Wrapped

\* The cycle bits of the page w agree with the cycles of the machine and of the controller.
CycleBits(w, r, g) ==
  /\ (g.pcs = r.event_cycle) <=> (g.enqueue >= r.event_index)
  /\ \A j \in EventIndex : w[j].cycle = (IF j < g.enqueue THEN g.pcs ELSE ~g.pcs)
OneMore(ev, r, h, w, g) ==
  /\ g.enqueue = Wrapped(h) /\ g.pcs = Turned(h) /\ Wrapped(h) # r.event_index
  /\ w[h.enqueue].cycle = h.pcs /\ \A j \in EventIndex \ {h.enqueue} : w[j] = ev[j]

\* The cycle bits once the controller has written one more.
LEMMA CyclesMore ==
  ASSUME NEW ev, NEW r, NEW x, NEW h, NEW w, NEW g, r.event_index \in EventIndex, h.enqueue \in EventIndex,
         r.event_cycle \in BOOLEAN, h.pcs \in BOOLEAN, Posting(ev, r, x, h), OneMore(ev, r, h, w, g)
  PROVE  CycleBits(w, r, g)
<1>1. PICK E \in EventIndex, n \in EventIndex, c \in BOOLEAN, p \in BOOLEAN :
        E = r.event_index /\ n = h.enqueue /\ c = r.event_cycle /\ p = h.pcs
  BY Zenon
<1>2. EventCapacity \in Nat \ {0, 1, 2}
  BY RingAssumption, SMTT(30)
<1>3. (p = c) <=> (n >= E)
  BY <1>1, Zenon DEF Posting
<1>4. \A j \in EventIndex : ev[j].cycle = (IF j < n THEN p ELSE ~p)
  BY <1>1, Zenon DEF Posting
<1>5. w[n].cycle = p /\ \A j \in EventIndex : j # n => w[j].cycle = (IF j < n THEN p ELSE ~p)
  BY <1>1, <1>4, Zenon DEF OneMore
<1>6. CASE n + 1 = EventCapacity
  <2>1. g.enqueue = 0 /\ 0 # E /\ g.pcs = ~p
    BY <1>1, <1>6, Zenon DEF Wrapped, Turned, OneMore
  <2>2. n >= E /\ ~(0 >= E)
    BY <1>1, <1>2, <1>6, <2>1 DEF EventIndex
  <2>3. (~p) # c
    BY <1>1, <1>3, <2>2, Zenon
  <2>4. \A j \in EventIndex : w[j].cycle = p /\ ~(j < 0)
    BY <1>1, <1>2, <1>5, <1>6 DEF EventIndex
  <2>5. p = ~(~p)
    BY <1>1, Zenon
  <2>6. \A j \in EventIndex : w[j].cycle = (IF j < g.enqueue THEN g.pcs ELSE ~g.pcs)
    BY <2>1, <2>4, <2>5, Zenon
  <2>7. (g.pcs = r.event_cycle) <=> (g.enqueue >= r.event_index)
    BY <1>1, <2>1, <2>2, <2>3, Zenon
  <2> QED BY <2>6, <2>7, Zenon DEF CycleBits
<1>7. CASE n + 1 # EventCapacity
  <2>1. g.enqueue = n + 1 /\ n + 1 # E /\ g.pcs = p
    BY <1>1, <1>7, Zenon DEF Wrapped, Turned, OneMore
  <2>2. (n + 1 >= E) <=> (n >= E)
    BY <1>1, <1>2, <2>1 DEF EventIndex
  <2>3. \A j \in EventIndex : (j < n + 1) <=> (j < n \/ j = n)
    BY <1>1, <1>2 DEF EventIndex
  <2>4. \A j \in EventIndex : w[j].cycle = (IF j < n + 1 THEN p ELSE ~p)
    BY <1>5, <2>3, Zenon
  <2>5. \A j \in EventIndex : w[j].cycle = (IF j < g.enqueue THEN g.pcs ELSE ~g.pcs)
    BY <2>1, <2>4, Zenon
  <2>6. (g.pcs = r.event_cycle) <=> (g.enqueue >= r.event_index)
    BY <1>1, <1>3, <2>1, <2>2, Zenon
  <2> QED BY <2>5, <2>6, Zenon DEF CycleBits
<1> QED BY <1>6, <1>7, Zenon

\* A stale slot at the driver's place does not name the command the driver waits for.
LEMMA StaleIsNotAwaited ==
  ASSUME NEW e, NEW a \in Nat, Stale(e, a % EventCapacity, a)
  PROVE  e.pointer # a % LinkIndex
<1>1. LinkIndex \in Nat \ {0, 1} /\ EventCapacity \in Nat \ {0} /\ EventCapacity = LinkIndex + 1
  BY RingAssumption
<1>2. a % LinkIndex \in 0 .. LinkIndex - 1
  BY <1>1
<1>3. CASE e.pointer = NoPointer
  BY <1>1, <1>2, <1>3 DEF NoPointer
<1>4. CASE e.pointer # NoPointer
  <2>1. PICK k \in Nat : /\ a - EventCapacity <= k /\ k < a
                         /\ k % EventCapacity = a % EventCapacity /\ e.pointer = k % LinkIndex
    BY <1>4, Zenon DEF Stale
  <2>2. k = a - EventCapacity
    BY <1>1, <2>1, TurnBehind, Zenon
  <2>3. a = (k + 1) + LinkIndex /\ k + 1 \in Nat /\ LinkIndex \in Nat \ {0}
    BY <1>1, <2>1, <2>2
  <2>4. (k + 1) % LinkIndex = a % LinkIndex
    <3> DEFINE z == k + 1
    <3>1. a - LinkIndex <= z /\ z < a /\ z \in Nat /\ z = a - LinkIndex
      BY <1>1, <2>3
    <3> HIDE DEF z
    <3>2. z % LinkIndex = a % LinkIndex
      BY <2>3, <3>1, TurnBehind, Zenon
    <3> QED BY <3>2, Zenon DEF z
  <2>5. k % LinkIndex # (k + 1) % LinkIndex
    <3> DEFINE z == k + 1
    <3>1. z - LinkIndex <= k /\ k < z /\ z \in Nat /\ k # z - LinkIndex
      BY <1>1, <2>1
    <3> HIDE DEF z
    <3>2. k % LinkIndex # z % LinkIndex
      BY <2>1, <2>3, <3>1, TurnBehind, Zenon
    <3> QED BY <3>2, Zenon DEF z
  <2> QED BY <2>1, <2>4, <2>5, Zenon
<1> QED BY <1>3, <1>4, Zenon

\* PostEvent.
LEMMA PostKeeps ==
  ASSUME NEW cm, NEW ev, NEW r, NEW x, NEW h, RingSound(cm, ev, r, x, h), Wrapped(h) # h.erdp,
         NEW w, NEW g, PostsFirst(ev, h, w, g)
  PROVE  RingSound(cm, w, r, x, g)
<1>1. /\ RingTypes(cm, ev, r, x, h) /\ h \in ControllerType /\ ev \in [EventIndex -> EventSlot]
      /\ Posting(ev, r, x, h) /\ Flying(ev, r, x, h) /\ Fetching(r, x, h)
  BY Zenon DEF RingSound, RingTypes
<1>2. /\ r.event_index \in EventIndex /\ r.event_cycle \in BOOLEAN /\ h.enqueue \in EventIndex
      /\ h.pcs \in BOOLEAN /\ h.owed \in Seq(OwedEvent) /\ Taken(x) \in Nat
  BY <1>1, RingFields, Zenon
<1>3. EventCapacity \in Nat \ {0, 1, 2}
  BY RingAssumption
<1>4. PICK t, e, n : /\ t = Tail(h.owed) /\ e = Head(h.owed) /\ n = Len(h.owed) /\ h.owed # <<>>
                     /\ PutEvent(ev, h, e, w) /\ Advanced(h, t, g)
  BY Zenon DEF PostsFirst
<1>7. /\ n \in Nat \ {0} /\ e = h.owed[1] /\ e \in OwedEvent /\ t \in Seq(OwedEvent) /\ Len(t) = n - 1
      /\ \A p \in 1 .. n - 1 : t[p] = h.owed[p + 1]
  BY <1>2, <1>4, Shifted, ZenonT(40)
<1>5. n = Len(h.owed) /\ PutEvent(ev, h, e, w) /\ Advanced(h, t, g)
  BY <1>4, ZenonT(40)
<1>8. Wrapped(h) \in EventIndex /\ Turned(h) \in BOOLEAN
  <2>1. Wrapped(h) \in EventIndex
    BY <1>2, <1>3 DEF Wrapped, EventIndex
  <2>2. Turned(h) \in BOOLEAN
    BY <1>2, Zenon DEF Turned
  <2> QED BY <2>1, <2>2, Zenon
<1>9. /\ g \in ControllerType /\ g.active = h.active /\ g.error = h.error /\ g.dequeue = h.dequeue
      /\ g.ccs = h.ccs /\ g.enqueue = Wrapped(h) /\ g.pcs = Turned(h) /\ g.erdp = h.erdp /\ g.done = h.done
      /\ g.index = h.index /\ g.code = h.code /\ g.owed = t
  BY <1>1, <1>5, <1>7, <1>8, Zenon DEF ControllerType, Advanced
<1>10. PICK m : m = h.enqueue
  BY Zenon
<1> DEFINE v == [pointer |-> e.pointer, code |-> e.code, kind |-> e.kind, cycle |-> h.pcs]
<1>11. v \in EventSlot /\ v.pointer = e.pointer /\ v.code = e.code /\ v.kind = e.kind /\ v.cycle = h.pcs
  BY <1>2, <1>7, ZenonT(40) DEF EventSlot, OwedEvent
<1>12. w = [ev EXCEPT ![m] = v]
  BY <1>5, <1>10, Zenon DEF PutEvent
<1> HIDE DEF v
<1>13. /\ w \in [EventIndex -> EventSlot] /\ w[m] = v /\ \A j \in EventIndex : j # m => w[j] = ev[j]
  BY <1>1, <1>2, <1>10, <1>11, <1>12, Zenon
<1>14. Wrapped(h) # r.event_index
  BY <1>1, ZenonT(40) DEF Posting
<1>15. /\ ~Posted(r, h, m)
       /\ \A j \in EventIndex : Posted(r, g, j) <=> Posted(r, h, j) \/ j = m
  BY <1>2, <1>9, <1>10, <1>14, PostedMore, SMTT(30)
<1>16. RingTypes(cm, w, r, x, g)
  BY <1>1, <1>9, <1>13, Zenon DEF RingTypes
<1>17. Fetching(r, x, g)
  BY <1>1, <1>9, ZenonT(40) DEF Fetching
<1>18. Posting(w, r, x, g)
  <2>1. w[h.enqueue].cycle = h.pcs /\ \A j \in EventIndex \ {h.enqueue} : w[j] = ev[j]
    BY <1>10, <1>11, <1>13, Zenon
  <2>5. OneMore(ev, r, h, w, g)
    BY <1>9, <1>14, <2>1, ZenonT(40) DEF OneMore
  <2>2. CycleBits(w, r, g)
    BY <1>1, <1>2, <2>5, CyclesMore, ZenonT(40)
  <2>3. \A j \in EventIndex : ~Posted(r, g, j) => Stale(w[j], j, Taken(x))
    <3>1. \A j \in EventIndex : ~Posted(r, h, j) => Stale(ev[j], j, Taken(x))
      BY <1>1, Zenon DEF Posting
    <3> QED BY <1>13, <1>15, <3>1, Zenon
  <2>4. g.erdp = r.event_index /\ r.event_index = Taken(x) % EventCapacity
    BY <1>1, <1>9, Zenon DEF Posting
  <2> QED BY <2>2, <2>3, <2>4, Zenon DEF Posting, CycleBits
<1>19. Flying(w, r, x, g)
  <2>1. \A u : Latest(u, x, g) <=> Latest(u, x, h)
    BY <1>9, Zenon DEF Latest
  <2>2. \A p \in 1 .. Len(g.owed) : Owing(g, p) => p + 1 \in 1 .. n /\ Owing(h, p + 1) /\ g.owed[p] = h.owed[p + 1] /\ p + 1 # 1
    BY <1>7, <1>9 DEF Owing
  <2>3. /\ \A j \in EventIndex : Arriving(ev, r, h, j) =>
             /\ Latest(ev[j], x, h)
             /\ \A k \in EventIndex : Arriving(ev, r, h, k) => k = j
             /\ \A p \in 1 .. n : ~Owing(h, p)
        /\ \A p \in 1 .. n : Owing(h, p) =>
             /\ Latest(h.owed[p], x, h)
             /\ \A q \in 1 .. n : Owing(h, q) => q = p
    BY <1>1, <1>5, Zenon DEF Flying
  <2>4. \A p \in 1 .. Len(g.owed) : Owing(g, p) => Latest(g.owed[p], x, g)
    BY <2>1, <2>2, <2>3, Zenon
  <2>5. \A p, q \in 1 .. Len(g.owed) : Owing(g, p) /\ Owing(g, q) => q = p
    <3>1. \A p, q \in 1 .. Len(g.owed) : Owing(g, p) /\ Owing(g, q) => q + 1 = p + 1
      BY <2>2, <2>3, ZenonT(40)
    <3>2. \A p, q \in 1 .. Len(g.owed) : q + 1 = p + 1 => q = p
      BY <1>7, <1>9, SMTT(30)
    <3> QED BY <3>1, <3>2, Zenon
  <2>6. \A j \in EventIndex : Arriving(w, r, g, j) =>
          (j = m /\ e.kind = "completion") \/ (j # m /\ Arriving(ev, r, h, j) /\ w[j] = ev[j])
    BY <1>11, <1>13, <1>15, Zenon DEF Arriving
  <2>7. e.kind = "completion" => Owing(h, 1) /\ 1 \in 1 .. n
    BY <1>7, SMTT(30) DEF Owing
  <2>8. CASE e.kind = "completion"
    <3>1. \A j \in EventIndex : Arriving(w, r, g, j) => j = m
      BY <2>3, <2>6, <2>7, <2>8, Zenon
    <3>2. \A p \in 1 .. Len(g.owed) : ~Owing(g, p)
      BY <2>2, <2>3, <2>7, <2>8, ZenonT(40)
    <3>3. Latest(w[m], x, g)
      <4>1. Latest(e, x, h)
        BY <1>7, <2>3, <2>7, <2>8, Zenon
      <4> QED BY <1>9, <1>11, <1>13, <4>1, Zenon DEF Latest
    <3> QED BY <3>1, <3>2, <3>3, Zenon DEF Flying
  <2>9. CASE e.kind # "completion"
    <3>1. \A j \in EventIndex : Arriving(w, r, g, j) => Arriving(ev, r, h, j) /\ w[j] = ev[j]
      BY <2>6, <2>9, Zenon
    <3>2. \A j \in EventIndex : Arriving(w, r, g, j) =>
             /\ Latest(w[j], x, g)
             /\ \A k \in EventIndex : Arriving(w, r, g, k) => k = j
             /\ \A p \in 1 .. Len(g.owed) : ~Owing(g, p)
      <4>1. \A j \in EventIndex : Arriving(w, r, g, j) => Latest(w[j], x, g)
        BY <2>1, <2>3, <3>1, Zenon
      <4>2. \A j, k \in EventIndex : Arriving(w, r, g, j) /\ Arriving(w, r, g, k) => k = j
        BY <2>3, <3>1, Zenon
      <4>3. \A j \in EventIndex, p \in 1 .. Len(g.owed) : Arriving(w, r, g, j) => ~Owing(g, p)
        BY <2>2, <2>3, <3>1, Zenon
      <4> QED BY <4>1, <4>2, <4>3, Zenon
    <3> QED BY <2>4, <2>5, <3>2, ZenonT(40) DEF Flying
  <2> QED BY <2>8, <2>9, Zenon
<1>20. Loaded(w, r, x)
  <2>1. CASE x.at # "decide"
    BY <2>1, Zenon DEF Loaded
  <2>2. CASE x.at = "decide" /\ r.event_index # m
    BY <1>2, <1>13, <2>2, ZenonT(40) DEF RingSound, Loaded
  <2>3. CASE x.at = "decide" /\ r.event_index = m
    <3>1. r.event_index = Taken(x) % EventCapacity /\ Stale(ev[m], m, Taken(x))
      BY <1>1, <1>2, <1>15, <2>3, Zenon DEF Posting
    <3>2. ev[m].pointer # Taken(x) % LinkIndex
      BY <1>2, <2>3, <3>1, StaleIsNotAwaited, Zenon
    <3>3. r.outstanding.index = Taken(x) % LinkIndex
      BY <2>3, Zenon DEF RingSound, Calling
    <3> QED BY <2>3, <3>2, <3>3, ZenonT(40) DEF RingSound, Loaded
  <2> QED BY <2>1, <2>2, <2>3, Zenon
<1> QED BY <1>16, <1>17, <1>18, <1>19, <1>20, Zenon DEF RingSound

\* The invariant is what CompletionsExact asks.
LEMMA RingInvExact == RingInv => CompletionsExact
<1> SUFFICES ASSUME RingInv PROVE CompletionsExact
  BY Zenon
<1> DEFINE P == Submitted(rings)
           A == Taken(xcpu)
<1>1. /\ RingTypes(cmdring, evtring, rings, xcpu, xhc) /\ Calling(rings, xcpu) /\ Fetching(rings, xcpu, xhc)
  BY Zenon DEF RingInv, RingSound
<1>2. P \in Nat /\ A \in Nat /\ xhc.done \in Nat
  BY <1>1, RingFields, Zenon
<1>3. PublishedCommands = P + Shown /\ Shown = IF Shows(xcpu) THEN 1 ELSE 0
  BY Zenon DEF PublishedCommands, Shown, Shows, Submitted
<1>4. /\ Shows(xcpu) => rings.outstanding = NoCommand
      /\ rings.outstanding = NoCommand => A = P
      /\ rings.outstanding # NoCommand => P = A + 1 /\ rings.outstanding.seq = P
  BY <1>1, Zenon DEF Calling, Shows
<1>5. /\ \/ xhc.done = P
         \/ xhc.done = P + 1 /\ Shows(xcpu)
         \/ xhc.done = P - 1 /\ rings.outstanding # NoCommand /\ (xhc.active \/ xhc.error)
      /\ xhc.done > 0 => xhc.index = (xhc.done - 1) % LinkIndex
      /\ xhc.done = A /\ xhc.done > 0 => xhc.code = xcpu.evidence.code
  BY <1>1, Zenon DEF Fetching
<1>6. xcpu.evidence = [seq |-> A, code |-> xcpu.evidence.code]
  BY <1>1, Zenon DEF RingTypes, CallType, Taken
<1>7. xcpu.evidence.seq = A
  BY Zenon DEF Taken
<1> HIDE DEF P, A
<1>8. \A z : z = P + Shown => z - xhc.done \in {0, 1}
  BY <1>2, <1>3, <1>4, <1>5
<1>9. (rings.outstanding # NoCommand /\ ~xhc.active /\ ~xhc.error) => xhc.done = rings.outstanding.seq
  BY <1>4, <1>5, Zenon
<1>10. (rings.outstanding = NoCommand /\ Shown = 0 /\ xcpu.evidence.seq > 0)
          => xcpu.evidence = [seq |-> xhc.done, code |-> xhc.code]
  BY <1>3, <1>4, <1>5, <1>6, <1>7
<1>11. PublishedCommands - xhc.done \in {0, 1}
  <2>1. PublishedCommands = P + Shown
    BY <1>3, Zenon
  <2> QED BY <1>8, <2>1, Zenon
<1> QED BY <1>5, <1>9, <1>10, <1>11, Zenon DEF CompletionsExact

\* Every step keeps the invariant.
LEMMA RingInductive == RingInv /\ [RingNext]_ringVars => RingInv'
<1> SUFFICES ASSUME RingInv, [RingNext]_ringVars PROVE RingInv'
  BY Zenon
<1>1. /\ RingSound(cmdring, evtring, rings, xcpu, xhc) /\ RingTypes(cmdring, evtring, rings, xcpu, xhc)
      /\ CallType(xcpu) /\ xcpu.loaded \in EventSlot /\ xcpu.evidence \in [seq : Nat, code : Nat]
  BY Zenon DEF RingInv, RingSound, RingTypes, CallType
<1>2. xcpu = [at |-> xcpu.at, stores |-> xcpu.stores, loaded |-> xcpu.loaded, evidence |-> xcpu.evidence]
  BY <1>1, Zenon DEF CallType
<1>3. ZeroEvent \in EventSlot
  BY Zenon DEF ZeroEvent, EventSlot, Pointer
<1>4. rings.event_index \in EventIndex /\ evtring \in [EventIndex -> EventSlot]
  BY <1>1, RingFields, ZenonT(40) DEF RingTypes
<1>5. CASE UNCHANGED ringVars
  <2>1. UNCHANGED <<cmdring, evtring, rings, xcpu, xhc>>
    BY <1>5, Zenon DEF ringVars
  <2> QED BY <1>1, <2>1, ZenonT(40) DEF RingInv
<1>6. CASE submit_no_op
  <2> DEFINE st == (IF rings.producer_index + 1 = LinkIndex THEN write_link_trb(rings.producer_cycle) ELSE <<>>)
                   \o publish_trb(rings.producer_index, NoPointer, "noop", rings.producer_cycle)
  <2>1. /\ xcpu.at = "ready" /\ rings.outstanding = NoCommand /\ UNCHANGED <<cmdring, evtring, rings, xhc>>
        /\ xcpu' = [xcpu EXCEPT !.at = "store", !.stores = st]
    BY <1>6, Zenon DEF submit_no_op
  <2> HIDE DEF st
  <2>2. CallType(xcpu') /\ xcpu'.at = "store" /\ xcpu'.evidence = xcpu.evidence /\ xcpu'.stores = st
    BY <1>1, <1>2, <2>1, Zenon DEF CallType
  <2>3. RingSound(cmdring, evtring, rings, xcpu', xhc)
    BY <1>1, <2>1, <2>2, BeginKeeps, ZenonT(40) DEF st
  <2> QED BY <2>1, <2>3, Zenon DEF RingInv
<1>7. CASE Store
  <2>1. /\ xcpu.at = "store" /\ xcpu.stores # <<>> /\ UNCHANGED <<evtring, rings, xhc>>
        /\ xcpu' = [xcpu EXCEPT !.stores = Tail(xcpu.stores)]
    BY <1>7, Zenon DEF Store
  <2>2. Wrote(cmdring, Head(xcpu.stores), cmdring')
    BY <1>7, Zenon DEF Store, Wrote
  <2>3. CallType(xcpu') /\ xcpu'.at = "store" /\ xcpu'.evidence = xcpu.evidence /\ xcpu'.stores = Tail(xcpu.stores)
    BY <1>1, <1>2, <2>1, Zenon DEF CallType
  <2>4. RingSound(cmdring', evtring, rings, xcpu', xhc)
    BY <1>1, <2>1, <2>2, <2>3, StoreKeeps, Zenon
  <2> QED BY <2>1, <2>4, Zenon DEF RingInv
<1>8. CASE Doorbell
  <2>1. /\ Shows(xcpu) /\ UNCHANGED <<cmdring, evtring>> /\ xcpu' = [xcpu EXCEPT !.at = "ready"]
    BY <1>8, Zenon DEF Doorbell, Shows
  <2>2. Counted(rings, rings') /\ Rang(xhc, xhc')
    BY <1>8, Zenon DEF Doorbell, Counted, Rang
  <2>3. CallType(xcpu') /\ xcpu'.at = "ready" /\ xcpu'.evidence = xcpu.evidence
    BY <1>1, <1>2, <2>1, Zenon DEF CallType
  <2>4. RingSound(cmdring, evtring, rings', xcpu', xhc')
    BY <1>1, <2>1, <2>2, <2>3, DoorbellKeeps, Zenon
  <2> QED BY <2>1, <2>4, Zenon DEF RingInv
<1>9. CASE PollStatus \/ PollPayload \/ PollNone \/ PollRejected
  <2>1. /\ UNCHANGED <<cmdring, evtring, rings, xhc>> /\ xcpu.at # "store" /\ rings.outstanding # NoCommand
        /\ \E at \in {"ready", "load", "decide", "halt"}, l \in EventSlot :
             /\ xcpu' = [xcpu EXCEPT !.at = at, !.loaded = l]
             /\ at = "decide" => l = evtring[rings.event_index]
    <3>1. xcpu.at \in {"load", "decide"} => rings.outstanding # NoCommand
      BY <1>1, ZenonT(40) DEF RingSound, Calling
    <3>2. \A at : [xcpu EXCEPT !.at = at] = [xcpu EXCEPT !.at = at, !.loaded = xcpu.loaded]
      BY <1>2, Zenon
    <3>3. CASE PollStatus
      BY <1>1, <3>2, <3>3, Zenon DEF PollStatus, HaltCaller
    <3>4. CASE PollPayload
      <4>1. evtring[rings.event_index] \in EventSlot
        BY <1>4, Zenon
      <4> QED BY <3>1, <3>4, <4>1, Zenon DEF PollPayload
    <3>5. CASE PollNone
      BY <1>3, <3>1, <3>5, Zenon DEF PollNone
    <3>6. CASE PollRejected
      BY <1>1, <3>1, <3>2, <3>6, Zenon DEF PollRejected, HaltCaller
    <3> QED BY <1>9, <3>3, <3>4, <3>5, <3>6, ZenonT(40)
  <2>2. PICK at \in {"ready", "load", "decide", "halt"}, l \in EventSlot :
             /\ xcpu' = [xcpu EXCEPT !.at = at, !.loaded = l]
             /\ at = "decide" => l = evtring[rings.event_index]
    BY <2>1, Zenon
  <2>3. CallType(xcpu') /\ xcpu'.at = at /\ xcpu'.loaded = l /\ xcpu'.evidence = xcpu.evidence
    BY <1>1, <1>2, <2>2, Zenon DEF CallType
  <2>4. Loaded(evtring, rings, xcpu') /\ xcpu'.at # "store"
    BY <2>2, <2>3, Zenon DEF Loaded
  <2>5. RingSound(cmdring, evtring, rings, xcpu', xhc)
    BY <1>1, <2>1, <2>3, <2>4, CallKeeps, Zenon
  <2> QED BY <2>1, <2>5, Zenon DEF RingInv
<1>10. CASE PollAccepted
  <2> DEFINE evd == [seq |-> rings.outstanding.seq, code |-> xcpu.loaded.code]
  <2>1. /\ xcpu.at = "decide" /\ evtring[rings.event_index].cycle = rings.event_cycle
        /\ evtring[rings.event_index].kind = "completion" /\ xcpu.loaded.pointer = rings.outstanding.index
        /\ UNCHANGED <<cmdring, evtring>>
        /\ xcpu' = [xcpu EXCEPT !.at = "ready", !.loaded = ZeroEvent, !.evidence = evd]
    BY <1>10, Zenon DEF PollAccepted, Correlated, event_now
  <2>2. Consumed(rings, rings') /\ Told(rings, xhc, xhc')
    BY <1>10, Zenon DEF PollAccepted, Consumed, Told
  <2>3. evd \in [seq : Nat, code : Nat]
    <3>1. rings.outstanding.seq \in Nat
      BY <1>1, Zenon DEF RingTypes, MachineType
    <3>2. xcpu.loaded.code \in Nat
      BY <1>1, Zenon DEF EventSlot
    <3> QED BY <3>1, <3>2, Zenon
  <2> HIDE DEF evd
  <2>4. CallType(xcpu') /\ xcpu'.at = "ready" /\ xcpu'.evidence = evd
    BY <1>1, <1>2, <1>3, <2>1, <2>3, Zenon DEF CallType
  <2>6. Accepts(evtring, rings, xcpu, xcpu')
    BY <2>1, <2>4, Zenon DEF Accepts, evd
  <2>5. RingSound(cmdring, evtring, rings', xcpu', xhc')
    BY <1>1, <2>2, <2>4, <2>6, AcceptKeeps, Zenon
  <2> QED BY <2>1, <2>5, Zenon DEF RingInv
<1>11. CASE Fetch
  <2>1. UNCHANGED <<cmdring, evtring, rings, xcpu>>
    BY <1>11, Zenon DEF Fetch
  <2>2. CASE cmdring[xhc.dequeue].cycle # xhc.ccs /\ xhc' = [xhc EXCEPT !.active = FALSE]
    <3>1. RingSound(cmdring, evtring, rings, xcpu, xhc')
      BY <1>1, <2>2, IdleKeeps, Zenon
    <3> QED BY <2>1, <3>1, Zenon DEF RingInv
  <2>3. CASE /\ cmdring[xhc.dequeue].cycle = xhc.ccs /\ cmdring[xhc.dequeue].kind = "link"
             /\ xhc' = [xhc EXCEPT !.dequeue = cmdring[xhc.dequeue].payload, !.ccs = ~@]
    <3>1. Followed(xhc, cmdring[xhc.dequeue], xhc')
      BY <2>3, Zenon DEF Followed
    <3>2. RingSound(cmdring, evtring, rings, xcpu, xhc')
      BY <1>1, <2>3, <3>1, LinkKeeps, Zenon
    <3> QED BY <2>1, <3>2 DEF RingInv
  <2>4. CASE /\ cmdring[xhc.dequeue].cycle = xhc.ccs /\ cmdring[xhc.dequeue].kind = "noop"
             /\ \E code \in Codes :
                  xhc' = [xhc EXCEPT !.dequeue = @ + 1, !.done = @ + 1, !.index = xhc.dequeue, !.code = code,
                            !.owed = Append(@, [kind |-> "completion", pointer |-> xhc.dequeue, code |-> code])]
    <3>1. PICK code \in Codes :
                  xhc' = [xhc EXCEPT !.dequeue = @ + 1, !.done = @ + 1, !.index = xhc.dequeue, !.code = code,
                            !.owed = Append(@, [kind |-> "completion", pointer |-> xhc.dequeue, code |-> code])]
      BY <2>4, Zenon
    <3>2. code \in Nat
      BY DEF Codes, Success
    <3>3. PICK d : d = xhc.dequeue
      BY Zenon
    <3>4. PICK o : o = Append(xhc.owed, [kind |-> "completion", pointer |-> d, code |-> code])
      BY Zenon
    <3>5. Executed(xhc, d, code, o, xhc')
      BY <3>1, <3>3, <3>4, Zenon DEF Executed
    <3>6. RingSound(cmdring, evtring, rings, xcpu, xhc')
      BY <1>1, <2>4, <3>2, <3>3, <3>4, <3>5, ExecuteKeeps, Zenon
    <3> QED BY <2>1, <3>6, Zenon DEF RingInv
  <2> QED BY <1>11, <2>2, <2>3, <2>4, Zenon DEF Fetch
<1>12. CASE PortChanges
  <2> DEFINE e == [kind |-> "port", pointer |-> NoPointer, code |-> Success]
  <2>1. /\ UNCHANGED <<cmdring, evtring, rings, xcpu>>
        /\ xhc' = [xhc EXCEPT !.ports = xhc.ports + 1, !.owed = Append(xhc.owed, e)]
    BY <1>12, Zenon DEF PortChanges
  <2>2. e \in OwedEvent /\ e.kind = "port"
    BY Zenon DEF OwedEvent, Pointer, Success
  <2>3. PICK o : o = Append(xhc.owed, e)
    BY Zenon
  <2> HIDE DEF e
  <2>4. RingSound(cmdring, evtring, rings, xcpu, xhc')
    BY <1>1, <2>1, <2>2, <2>3, PortKeeps, Zenon
  <2> QED BY <2>1, <2>4, Zenon DEF RingInv
<1>13. CASE PostEvent
  <2>1. UNCHANGED <<cmdring, rings, xcpu>>
    BY <1>13, Zenon DEF PostEvent
  <2>2. Wrapped(xhc) # xhc.erdp /\ PostsFirst(evtring, xhc, evtring', xhc')
    BY <1>13, Zenon DEF PostEvent, Wrapped, Turned, PutEvent, Advanced, PostsFirst
  <2>3. RingSound(cmdring, evtring', rings, xcpu, xhc')
    BY <1>1, <2>1, <2>2, PostKeeps, Zenon
  <2> QED BY <2>1, <2>3, Zenon DEF RingInv
<1>14. CASE HostSystemError
  <2>1. /\ UNCHANGED <<cmdring, evtring, rings, xcpu>>
        /\ xhc' = [xhc EXCEPT !.error = TRUE, !.active = FALSE]
    BY <1>14, Zenon DEF HostSystemError
  <2>2. RingSound(cmdring, evtring, rings, xcpu, xhc')
    BY <1>1, <2>1, ErrorKeeps, Zenon
  <2> QED BY <2>1, <2>2, Zenon DEF RingInv
<1> QED BY <1>5, <1>6, <1>7, <1>8, <1>9, <1>10, <1>11, <1>12, <1>13, <1>14, Zenon DEF RingNext

\* For rings of every size and every number of commands and port events: each command
\* submit_no_op publishes is executed once and in its turn, none is forgotten when the
\* controller idles, and the evidence poll_completion returns is that of the last one.
THEOREM CommandsCompleteExactly == RingSpec => []CompletionsExact
<1>1. RingInit => RingInv
  BY InitRingInv, Zenon
<1>2. RingInv /\ [RingNext]_ringVars => RingInv'
  BY RingInductive, Zenon
<1>3. RingInv => CompletionsExact
  BY RingInvExact, Zenon
<1> QED BY <1>1, <1>2, <1>3, PTL DEF RingSpec

=============================================================================
