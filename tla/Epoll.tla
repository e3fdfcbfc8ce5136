------------------------------- MODULE Epoll -------------------------------
(***************************************************************************)
(* One epoll instance of linux_epoll.rs over an eventfd and the two ends   *)
(* of a pipe, at the granularity of the locks: epoll_wait copies its       *)
(* watches, asks every target for its readiness and for its generation,    *)
(* and writes back what it found, while the targets and the watches change.*)
(* Descriptors has the life of the objects; here an object closes once.    *)
(***************************************************************************)
EXTENDS Naturals, FiniteSets, FiniteSetsExt

CONSTANTS
  Targets,   \* the targets: event, reader, writer
  Waiters,   \* tasks that call epoll_wait, or poll on the epoll descriptor
  Workloads, \* the targets, waiters and interests of a behaviour, u64::MAX for
             \* a registration, scaled down, and whether its eventfd is a semaphore
  NWatches,  \* MAXIMUM_EPOLL_WATCHES
  Capacities,\* maxevents of a call
  Full,      \* u64::MAX of the eventfd and PIPE_BUF of the pipe, scaled down
  MaxGen,    \* readiness transitions that are explored
  NoWatch

Positions == 1 .. NWatches
Interest == [edge : BOOLEAN, bits : SUBSET {"IN", "OUT"}]

ASSUME EpollConstants ==
  /\ Targets \subseteq {"event", "reader", "writer"}
  /\ Workloads \subseteq [targets : SUBSET Targets, waiters : SUBSET Waiters,
                          interests : SUBSET Interest, regs : Nat, semaphore : BOOLEAN]
  /\ NWatches \in Nat /\ Full \in Nat \ {0} /\ MaxGen \in Nat
  /\ Capacities \subseteq Nat \ {0}

VARIABLES
  event, \* EventFdSlot: counter, EFD_SEMAPHORE and readiness generation
  pipe,  \* PipeSlot: length, open ends and readiness generation
  obj,   \* open, closing, detached from epoll, or gone
  watch, \* EpollSlot.watches; NoWatch is a free place
  reg,   \* EpollSlot.next_registration
  wait,  \* what each waiter has in its registers
  due,   \* history: places that became ready since they were last reported
  stay,  \* history: places that stood all through a waiter's call
  load   \* the workload

epVars == <<event, pipe, obj, watch, reg, wait, due, stay, load>>

-----------------------------------------------------------------------------
(* Readiness.                                                              *)

\* linux_eventfd::readiness and linux_pipe::readiness.
Bits(e, p, t) ==
  CASE t = "event"  -> {b \in {"IN", "OUT"} : IF b = "IN" THEN e.counter # 0 ELSE e.counter # Full}
    [] t = "reader" -> {b \in {"IN", "HUP"} : IF b = "IN" THEN p.length # 0 ELSE ~p.write_open}
    [] t = "writer" -> IF ~p.read_open THEN {"ERR"}
                       ELSE {b \in {"OUT"} : p.length < Full}

generation(t) == IF t = "event" THEN event.gen ELSE pipe.gen

Interested(ready, w) == ready \cap (w.bits \cup {"ERR", "HUP"})

\* The bits a watch would report now.
Now(w) == Interested(Bits(event, pipe, w.target), w)
Then(w) == Interested(Bits(event', pipe', w.target), w)

NotCalling == [pc |-> "idle"]
Absent == [pc |-> "absent"]

\* A place stands when the next call should report it: a level watch while it
\* is ready, an edge watch while it is due.
Standing(p) == /\ watch[p] # NoWatch /\ obj[watch[p].target] = "open" /\ Now(watch[p]) # {}
               /\ watch[p].edge => p \in due

\* A place is due when its watch is new or its bits rise from none, until it
\* is reported or they fall.
Settle(reported) ==
  /\ due' = {p \in Positions :
            /\ watch'[p] # NoWatch /\ Then(watch'[p]) # {}
            /\ \/ watch[p] = NoWatch
               \/ watch[p] # NoWatch /\ (watch'[p].reg # watch[p].reg \/ Now(watch[p]) = {})
               \/ p \in due \ reported}
  /\ stay' = [c \in Waiters |->
       {p \in Positions : /\ wait'[c] \notin {NotCalling, Absent} /\ Standing(p)'
                          /\ \/ wait[c] = NotCalling
                             \/ p \in stay[c] \ reported /\ watch'[p].reg = watch[p].reg}]

Leases(t) == {c \in Waiters : wait[c].pc = "generation" /\ wait[c].copy[wait[c].at].target = t}

-----------------------------------------------------------------------------
(* The eventfd and the pipe.                                               *)

Usable(t) == obj[t] = "open"
Moved == /\ generation("event") < MaxGen /\ generation("reader") < MaxGen
         /\ UNCHANGED <<obj, watch, reg, wait>> /\ Settle({})

eventfd_read ==
  /\ Usable("event") /\ event.counter # 0
  /\ LET n == IF event.semaphore THEN event.counter - 1 ELSE 0 IN
     event' = [event EXCEPT !.counter = n, !.gen = IF n = 0 THEN @ + 1 ELSE @]
  /\ UNCHANGED pipe /\ Moved

eventfd_write(v) ==
  /\ Usable("event") /\ v # Full /\ event.counter + v <= Full
  /\ event' = [event EXCEPT !.counter = @ + v,
                           !.gen = IF event.counter = 0 /\ v # 0 THEN @ + 1 ELSE @]
  /\ UNCHANGED pipe /\ Moved

pipe_read(n) ==
  /\ Usable("reader") /\ pipe.length # 0
  /\ pipe' = [pipe EXCEPT !.length = IF n < @ THEN @ - n ELSE 0, !.gen = @ + 1]
  /\ UNCHANGED event /\ Moved

pipe_write(n) ==
  /\ Usable("writer") /\ pipe.read_open /\ n <= Full - pipe.length
  /\ pipe' = [pipe EXCEPT !.length = @ + n, !.gen = @ + 1]
  /\ UNCHANGED event /\ Moved

\* linux_pipe::close, run by whoever drops the object last.
Closed(t) == CASE t = "reader" -> [pipe EXCEPT !.read_open = FALSE, !.gen = @ + 1]
               [] t = "writer" -> [pipe EXCEPT !.write_open = FALSE, !.gen = @ + 1]
               [] t = "event"  -> pipe

\* The last descriptor of t closes; its watches go, and then its back end.
Close(t) ==
  /\ Usable(t)
  /\ obj' = [obj EXCEPT ![t] = "closing"]
  /\ UNCHANGED <<event, pipe, watch, reg, wait>> /\ Settle({})

remove_target(t) ==
  /\ obj[t] = "closing"
  /\ watch' = [p \in Positions |-> IF watch[p] # NoWatch /\ watch[p].target = t
                                   THEN NoWatch ELSE watch[p]]
  /\ IF Leases(t) = {}
     THEN obj' = [obj EXCEPT ![t] = "gone"] /\ pipe' = Closed(t)
     ELSE obj' = [obj EXCEPT ![t] = "detached"] /\ UNCHANGED pipe
  /\ UNCHANGED <<event, reg, wait>> /\ Settle({})

-----------------------------------------------------------------------------
(* epoll_ctl.                                                              *)

Watch(t, i) == [target |-> t, reg |-> reg + 1, edge |-> i.edge, bits |-> i.bits,
                seen |-> FALSE, last |-> 0]
Existing(t) == {p \in Positions : watch[p] # NoWatch /\ watch[p].target = t}
FreePlaces == {p \in Positions : watch[p] = NoWatch}
\* A watch is written with a registration of its own.
Registers(p, t, i) ==
  /\ reg < load.regs /\ reg' = reg + 1
  /\ watch' = [watch EXCEPT ![p] = Watch(t, i)]
  /\ UNCHANGED <<event, pipe, obj, wait>> /\ Settle({})

EPOLL_CTL_ADD(t, i) ==
  /\ Usable(t) /\ Existing(t) = {} /\ FreePlaces # {}
  /\ Registers(Min(FreePlaces), t, i)

EPOLL_CTL_MOD(t, i) ==
  /\ Usable(t) /\ Existing(t) # {}
  /\ Registers(Min(Existing(t)), t, i)

EPOLL_CTL_DEL(t) ==
  /\ Usable(t) /\ Existing(t) # {}
  /\ watch' = [watch EXCEPT ![Min(Existing(t))] = NoWatch]
  /\ UNCHANGED <<event, pipe, obj, reg, wait>> /\ Settle({})

-----------------------------------------------------------------------------
(* epoll_wait, and poll on the epoll descriptor: the same scan, which for  *)
(* poll writes nothing back and ends with the first pending watch.         *)

\* The next occupied place from p on, or the end of the table.
From(copy, p) == Min({q \in Positions : q >= p /\ copy[q] # NoWatch} \cup {NWatches + 1})

Snapshot(c, op, n) ==
  /\ wait[c] = NotCalling
  /\ wait' = [wait EXCEPT ![c] =
       [pc |-> "ready", op |-> op, copy |-> watch, at |-> From(watch, 1), room |-> n, ready |-> {}]]
  /\ UNCHANGED <<event, pipe, obj, watch, reg>> /\ Settle({})

WaitSnapshot(c, n) == Snapshot(c, "wait", n)
PollSnapshot(c) == Snapshot(c, "poll", 1)

Scans(c, op) == wait[c].pc = "ready" /\ wait[c].op = op /\ wait[c].at \in Positions
Target(c) == wait[c].copy[wait[c].at].target

\* Every watch of the copy has been looked at.
ScanOver(c) == wait[c].pc = "ready" /\ wait[c].at \notin Positions

\* The target is leased and asked for its readiness.
TargetReady(c) ==
  /\ wait[c].pc = "ready" /\ wait[c].at \in Positions /\ obj[Target(c)] = "open"
  /\ wait' = [wait EXCEPT ![c].pc = "generation", ![c].ready = Bits(event, pipe, Target(c))]
  /\ UNCHANGED <<event, pipe, obj, watch, reg>> /\ Settle({})

\* The target is not there any more: that is reported as an error and a
\* hang-up, and no watch is left to update.
WaitInvalid(c) ==
  /\ Scans(c, "wait") /\ obj[Target(c)] # "open"
  /\ LET s == wait[c] IN wait' = [wait EXCEPT ![c] =
          [s EXCEPT !.room = IF @ > 0 THEN @ - 1 ELSE 0, !.at = From(s.copy, s.at + 1),
                         !.copy[s.at] = IF @.edge /\ s.room > 0
                                        THEN [@ EXCEPT !.seen = TRUE, !.last = 0] ELSE @]]
  /\ UNCHANGED <<event, pipe, obj, watch, reg>> /\ Settle({})

\* What the scan of one watch reports and remembers.
Scanned(w, bits, g, room) ==
  LET report == bits # {} /\ (w.edge => ~w.seen \/ w.last # g)
      emitted == report /\ room > 0
  IN [emitted |-> emitted,
      watch |-> IF w.edge /\ emitted THEN [w EXCEPT !.seen = TRUE, !.last = g]
                ELSE IF w.edge /\ bits = {} THEN [w EXCEPT !.seen = FALSE, !.last = g]
                ELSE w]

Scan(c) ==
  LET s == wait[c]
      w == s.copy[s.at]
  IN Scanned(w, Interested(s.ready, w), generation(w.target), s.room)

\* The places whose watch the scan of c reports.
Reports(c) ==
  {p \in Positions : /\ wait[c].pc = "generation" /\ Scan(c).emitted
                     /\ watch[p] # NoWatch /\ watch[p].reg = wait[c].copy[wait[c].at].reg}

\* The lease on the target ends; the last one of a closed target closes it.
Released(c, t) ==
  IF obj[t] = "detached" /\ Leases(t) = {c}
  THEN obj' = [obj EXCEPT ![t] = "gone"] /\ pipe' = Closed(t)
  ELSE UNCHANGED <<obj, pipe>>

\* The target is asked for its generation and its lease is released.
WaitGeneration(c) ==
  /\ wait[c].pc = "generation" /\ wait[c].op = "wait"
  /\ LET s == wait[c] IN wait' = [wait EXCEPT ![c] =
       [s EXCEPT !.pc = "ready", !.at = From(s.copy, s.at + 1), !.ready = {},
                 !.room = IF Scan(c).emitted THEN @ - 1 ELSE @,
                 !.copy[s.at] = Scan(c).watch]]
  /\ Released(c, Target(c))
  /\ UNCHANGED <<event, watch, reg>>
  /\ Settle(Reports(c))

\* Mutated form: poll does not look at the generation.
PollPendingLatched(w, ready, g) == Interested(ready, w) # {} /\ (~w.edge \/ ~w.seen)

\* Whether poll takes a watch of its copy for pending.
PollPending(w, ready, g) ==
  Interested(ready, w) # {} /\ (~w.edge \/ ~w.seen \/ w.last # g)

\* poll answers that the descriptor is readable, or looks at the next watch.
Polled(c, ready, g) ==
  wait' = [wait EXCEPT ![c] =
    IF PollPending(@.copy[@.at], ready, g) THEN NotCalling
    ELSE [@ EXCEPT !.pc = "ready", !.at = From(wait[c].copy, @ + 1), !.ready = {}]]

PollGeneration(c) ==
  /\ wait[c].pc = "generation" /\ wait[c].op = "poll"
  /\ Polled(c, wait[c].ready, generation(Target(c)))
  /\ Released(c, Target(c))
  /\ UNCHANGED <<event, watch, reg>> /\ Settle({})

\* A target that is not there any more has an error, a hang-up and generation 0.
PollInvalid(c) ==
  /\ Scans(c, "poll") /\ obj[Target(c)] # "open"
  /\ Polled(c, {"ERR", "HUP"}, 0)
  /\ UNCHANGED <<event, pipe, obj, watch, reg>> /\ Settle({})

\* poll answers that nothing is readable.
PollNothing(c) ==
  /\ ScanOver(c) /\ wait[c].op = "poll"
  /\ wait' = [wait EXCEPT ![c] = NotCalling]
  /\ UNCHANGED <<event, pipe, obj, watch, reg>> /\ Settle({})

\* Mutated form: the registration is not compared.
SameTarget(w, v) == w.target = v.target

Same(w, v) == w.target = v.target /\ w.reg = v.reg

\* What was found is written to the watches that are still registered.
WaitBack(c) ==
  /\ ScanOver(c) /\ wait[c].op = "wait"
  /\ LET found(w) == {p \in Positions : wait[c].copy[p] # NoWatch /\ Same(wait[c].copy[p], w)} IN
     watch' = [p \in Positions |->
       IF watch[p] = NoWatch \/ found(watch[p]) = {} THEN watch[p]
       ELSE LET v == wait[c].copy[Max(found(watch[p]))]
            IN [watch[p] EXCEPT !.seen = v.seen, !.last = v.last]]
  /\ wait' = [wait EXCEPT ![c] = NotCalling]
  /\ UNCHANGED <<event, pipe, obj, reg>> /\ Settle({})

-----------------------------------------------------------------------------
EpInit ==
  /\ pipe = [length |-> 0, read_open |-> TRUE, write_open |-> TRUE, gen |-> 1]
  /\ load \in Workloads
  /\ obj = [t \in Targets |-> IF t \in load.targets THEN "open" ELSE "gone"]
  /\ wait = [c \in Waiters |-> IF c \in load.waiters THEN NotCalling ELSE Absent]
  /\ event = [counter |-> 0, semaphore |-> load.semaphore, gen |-> 0]
  /\ watch = [p \in Positions |-> NoWatch] /\ reg = 0
  /\ due = {} /\ stay = [c \in Waiters |-> {}]

EpNext ==
  /\ \/ eventfd_read \/ \E v \in 0 .. Full : eventfd_write(v)
     \/ \E n \in 1 .. Full : pipe_read(n) \/ pipe_write(n)
     \/ \E t \in Targets : Close(t) \/ remove_target(t) \/ EPOLL_CTL_DEL(t)
     \/ \E t \in Targets, i \in load.interests : EPOLL_CTL_ADD(t, i) \/ EPOLL_CTL_MOD(t, i)
     \/ \E c \in Waiters : \/ \E n \in Capacities : WaitSnapshot(c, n)
                           \/ PollSnapshot(c) \/ TargetReady(c)
                           \/ WaitGeneration(c) \/ WaitInvalid(c) \/ WaitBack(c)
                           \/ PollGeneration(c) \/ PollInvalid(c) \/ PollNothing(c)
  /\ UNCHANGED load

EpSpec == EpInit /\ [][EpNext]_epVars

-----------------------------------------------------------------------------
(* Properties.                                                             *)

WatchType == [target : Targets, reg : 1 .. load.regs, edge : BOOLEAN,
              bits : SUBSET {"IN", "OUT"}, seen : BOOLEAN, last : 0 .. MaxGen + 2]

\* The variables have their types; the eventfd counter never wraps and the
\* pipe never holds more than its ring.
EpTypeOK ==
  /\ event \in [counter : 0 .. Full, semaphore : BOOLEAN, gen : 0 .. MaxGen + 2]
  /\ pipe \in [length : 0 .. Full, read_open : BOOLEAN, write_open : BOOLEAN,
               gen : 0 .. MaxGen + 2]
  /\ obj \in [Targets -> {"open", "closing", "detached", "gone"}]
  /\ \A p \in Positions : watch[p] \in WatchType \cup {NoWatch}
  /\ reg \in 0 .. load.regs /\ due \subseteq Positions /\ stay \in [Waiters -> SUBSET Positions]
  /\ load \in Workloads
  /\ \A c \in Waiters : wait[c].pc \in {"absent", "idle", "ready", "generation"}

\* An edge-triggered watch at place p will be reported by the next wait.
EdgePending(p) == ~watch[p].seen \/ watch[p].last # generation(watch[p].target)

\* The generation of an eventfd advances whenever the counter crosses between
\* empty and readable, or full and writable (the comment on EventFdSlot), so
\* that every edge-triggered watch whose bits rose since it was last reported
\* is pending.
NoLostEdge ==
  \A p \in due : watch[p].edge /\ obj[watch[p].target] = "open" => EdgePending(p)

\* A semaphore read leaves the generation alone when the counter comes down from
\* full: only a watch that asks for EPOLLOUT and not for EPOLLIN can tell.
FullUnseen(p) == watch[p].target = "event" /\ event.semaphore /\ "IN" \notin watch[p].bits

\* No edge is lost but that one: a watch whose bits rose since it was last
\* reported is pending, whatever waits, full outputs, modifications and torn
\* readings of readiness and generation lie in between.
EdgesKept ==
  \A p \in due : watch[p].edge /\ obj[watch[p].target] = "open" => EdgePending(p) \/ FullUnseen(p)

\* The watches of an epoll instance: a target has one at most, and none once no
\* descriptor names it; a copy that a wait took never brings one back.
WatchesExact ==
  /\ EpTypeOK
  /\ \A t \in Targets : /\ Cardinality(Existing(t)) <= 1
                        /\ obj[t] \in {"detached", "gone"} => Existing(t) = {}

\* An epoll_wait that ends with room to spare, and a poll that finds the epoll
\* descriptor not readable, overlooked no watch of an open target that stood
\* from the call's first step to its last: neither a watch that another call
\* reports and writes back meanwhile, nor a change between the readings of
\* readiness and of generation, hides it.  (Of a target that is closing
\* epoll_wait reports the error again, poll only if the watch did not report
\* generation 0 before.)
NothingOverlooked ==
  /\ WatchesExact
  /\ \A c \in Waiters : ScanOver(c) /\ wait[c].room > 0 => \A p \in stay[c] : FullUnseen(p)
=============================================================================
