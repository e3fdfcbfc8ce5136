---------------------------- MODULE Descriptors ----------------------------
(***************************************************************************)
(* The unified descriptor table of linux_fd.rs: descriptor spaces, open    *)
(* objects with their three counts, epoll watches and descriptors in       *)
(* transit, at the granularity of its locks.                               *)
(*                                                                         *)
(* A context is a task inside a call.  The lock section that opens a call  *)
(* is an action; what the call still has to do once it has dropped the     *)
(* lock is its todo list, and each item is one more lock section.  The     *)
(* kernel runs one context (a syscall is not preempted); several contexts  *)
(* are the concurrency the locks are there for.                            *)
(*                                                                         *)
(* A back end is an eventfd, timerfd, pipe end, file ... reduced to whether *)
(* its slot is in use.  The standard streams share the back end Console,   *)
(* which is never reclaimed.                                               *)
(***************************************************************************)
EXTENDS Integers, Sequences, FiniteSets, SequencesExt

CONSTANTS
  Contexts,   \* tasks that can be inside a call at the same time
  Owners,     \* exact process generations
  NObjects,   \* MAXIMUM_OPEN_OBJECTS
  NFds,       \* MAXIMUM_FILE_DESCRIPTORS
  MaxGen,     \* u32::MAX for an object generation, scaled down
  MaxCount,   \* u16::MAX for the counts, scaled down
  Files,      \* back ends that live in the Akashic VFS
  Events,     \* back ends that epoll can watch
  Epolls,     \* epoll instances
  MaxWatches, \* MAXIMUM_EPOLL_WATCHES
  MaxRights,  \* MAXIMUM_TRANSFER_DESCRIPTORS
  MaxQueue,   \* ancillary boundaries a stream holds
  Workloads,  \* what the programs of a behaviour do
  None, Console

Objs == 0 .. NObjects - 1
Fds == 0 .. NFds - 1
Backends == Files \cup Events \cup Epolls
AllCalls == {"operate", "fionread", "open", "pair", "close", "dup", "dup2",
             "send", "receive", "exec", "exit", "ADD", "DEL"}

\* A behaviour is that of some programs: the contexts and processes they
\* have, the calls they make, the back ends they open, and the number of
\* standard streams of a new space (three in the kernel).
Workload == [contexts : SUBSET Contexts, owners : SUBSET Owners, calls : SUBSET AllCalls,
             backends : SUBSET Backends, standard : 0 .. NFds]

ASSUME DescriptorConstants ==
  /\ NObjects \in Nat /\ NFds \in Nat
  /\ MaxGen \in Nat /\ MaxCount \in Nat /\ MaxWatches \in Nat
  /\ MaxRights \in Nat /\ MaxQueue \in Nat
  /\ \A w \in Workloads : w \in Workload
  /\ None \notin Backends \cup Owners /\ Console \notin Backends

VARIABLES
  space, \* DescriptorSpace.owner: none, open, or gone with its process
  fds,   \* DescriptorSpace.descriptors
  objs,  \* DescriptorRegistry.objects
  live,  \* back-end slots in use
  vfs,   \* the owner of the VFS handle behind a file, or None
  watch, \* the targets each epoll instance watches
  queue, \* rights in transit: one sequence of keys per message
  todo,  \* what each context still has to do
  kept,  \* history: the leases on each object that fionread returned with
  work   \* the workload

vars == <<space, fds, objs, live, vfs, watch, queue, todo, kept, work>>

EMPTY(g) == [gen |-> g, b |-> None, refs |-> 0, drefs |-> 0, act |-> 0,
             closing |-> FALSE]
NoFd == [obj |-> None, cx |-> FALSE]
Key(x) == [idx |-> x, gen |-> objs[x].gen]
Names(k) == objs[k.idx].b # None /\ objs[k.idx].gen = k.gen

-----------------------------------------------------------------------------
(* Items of a todo list.                                                   *)

Item(d, k, b) == [do |-> d, key |-> k, b |-> b]
Release(k) == Item("release", k, None)
Drop(k) == Item("drop", k, None)
Detach(k) == Item("detach", k, None)
Untoken(k) == Item("untoken", k, None)
Final(b) == Item("final", None, b)
Each(Op(_), s) == [n \in DOMAIN s |-> Op(s[n])]

\* The context starts a call, or replaces the item it has just run.
Starts(c, items) == todo[c] = <<>> /\ todo' = [todo EXCEPT ![c] = items]
Continues(c, items) == todo' = [todo EXCEPT ![c] = items \o Tail(@)]
Doing(c, d) == todo[c] # <<>> /\ Head(todo[c]).do = d

-----------------------------------------------------------------------------
(* Counts of one object.                                                   *)

Closable(o) == o.closing /\ o.refs = 0 /\ o.act = 0

\* Mutated form: an active operation does not hold the object.
TakeUnderLease(o) == IF o.closing /\ o.refs = 0 THEN EMPTY(o.gen) ELSE o

\* maybe_take_closing.
Take(o) == IF Closable(o) THEN EMPTY(o.gen) ELSE o
Finals(o) == IF Closable(o) /\ o.b \in Backends THEN <<Final(o.b)>> ELSE <<>>

Minus(a, n) == IF a > n THEN a - n ELSE 0

\* n descriptors or reservations of an object go away.
Closed(o, n) == [o EXCEPT !.refs = Minus(@, n), !.drefs = Minus(@, n),
                          !.closing = @ \/ o.drefs <= n]
Plus(o, n) == [o EXCEPT !.refs = @ + n, !.drefs = @ + n]

HasRoom(o, n) == o.refs + n <= MaxCount /\ o.drefs + n <= MaxCount

\* What follows the lock section that closed a descriptor of object x.
Detaching(x, o) == IF o.drefs = 0 THEN <<Detach([idx |-> x, gen |-> o.gen])>> ELSE <<>>

\* acquire_descriptor succeeds on descriptor f of owner p.
Open(p, f) == space[p] = "open" /\ fds[p][f].obj # None
Usable(p, f) ==
  /\ Open(p, f)
  /\ LET o == objs[fds[p][f].obj] IN o.b # None /\ ~o.closing /\ o.act < MaxCount
Leased(x) == [objs EXCEPT ![x].act = @ + 1]

LowestFree(p, m, f) ==
  /\ f \in Fds /\ f >= m /\ fds[p][f].obj = None
  /\ \A g \in m .. f - 1 : fds[p][g].obj # None

\* The n lowest free objects, in order.
FreeObjs == {x \in Objs : objs[x].b = None}
Lowest(n, s) ==
  /\ Len(s) = n /\ Range(s) \subseteq FreeObjs
  /\ \A i \in 1 .. n : Cardinality({y \in FreeObjs : y < s[i]}) = i - 1
Fresh(x, b) == [EMPTY(objs[x].gen + 1) EXCEPT !.b = b, !.refs = 1, !.drefs = 1]
Installed(s, bs) ==
  [x \in Objs |-> IF x \in Range(s)
                  THEN Fresh(x, bs[CHOOSE i \in DOMAIN s : s[i] = x]) ELSE objs[x]]

-----------------------------------------------------------------------------
(* Opening.                                                                *)

\* The first call of a process creates its space and its standard streams;
\* a call that fails right after leaves exactly this.
ensure_space(p) ==
  /\ space[p] = "none"
  /\ \E s \in [1 .. work.standard -> Objs] :
       /\ Lowest(work.standard, s)
       /\ \A x \in Range(s) : objs[x].gen < MaxGen
       /\ objs' = Installed(s, [i \in 1 .. work.standard |-> Console])
       /\ fds' = [fds EXCEPT ![p] = [f \in Fds |-> IF f < work.standard
                                       THEN [obj |-> s[f + 1], cx |-> FALSE] ELSE NoFd]]
  /\ space' = [space EXCEPT ![p] = "open"]
  /\ UNCHANGED <<live, vfs, watch, queue, todo>>

\* open, eventfd, epoll_create, pipe, socket_pair ...: the back ends bs are
\* created under their own lock, then installed.
Create(c, p, bs, cx) ==
  /\ space[p] = "open"
  /\ Range(bs) \cap live = {}
  /\ live' = live \cup Range(bs)
  /\ vfs' = [b \in Files |-> IF b \in Range(bs) THEN p ELSE vfs[b]]
  /\ Starts(c, <<[do |-> "install", p |-> p, bs |-> bs, cx |-> cx]>>)
  /\ UNCHANGED <<space, fds, objs, watch, queue>>

\* install_backend_object and install_object_pair: all of the objects and
\* descriptors, or none.
CanInstall(p, n, s, t) ==
  /\ Lowest(n, s) /\ \A x \in Range(s) : objs[x].gen < MaxGen
  /\ Len(t) = n
  /\ \A i \in 1 .. n : /\ fds[p][t[i]].obj = None
                       /\ Cardinality({g \in Fds : g < t[i] /\ fds[p][g].obj = None}) = i - 1

\* The back ends of a failed installation are closed again.
Refused(bs) ==
  /\ live' = live \ Range(bs)
  /\ vfs' = [b \in Files |-> IF b \in Range(bs) THEN None ELSE vfs[b]]

install_object(c) ==
  /\ Doing(c, "install")
  /\ LET i == Head(todo[c])
         n == Len(i.bs)
         Fits == {<<s, t>> \in [1 .. n -> Objs] \X [1 .. n -> Fds] :
                    CanInstall(i.p, n, s, t)}
     IN \/ \E fit \in Fits :
             /\ objs' = Installed(fit[1], i.bs)
             /\ fds' = [fds EXCEPT ![i.p] =
                          [f \in Fds |-> IF \E m \in 1 .. n : fit[2][m] = f
                             THEN [obj |-> fit[1][CHOOSE m \in 1 .. n : fit[2][m] = f],
                                   cx |-> i.cx]
                             ELSE @[f]]]
             /\ UNCHANGED <<live, vfs>>
        \/ /\ Fits = {}
           /\ Refused(i.bs)
           /\ UNCHANGED <<objs, fds>>
  /\ Continues(c, <<>>)
  /\ UNCHANGED <<space, watch, queue>>

-----------------------------------------------------------------------------
(* Operating, duplicating, closing.                                        *)

\* read, write, poll, fstat, lseek ...: a lease around the back-end call.
Operate(c, p, f) ==
  /\ Usable(p, f)
  /\ objs' = Leased(fds[p][f].obj)
  /\ Starts(c, <<Release(Key(fds[p][f].obj))>>)
  /\ UNCHANGED <<space, fds, live, vfs, watch, queue>>

\* fionread takes a lease and returns without releasing it.
fionread(c, p, f) ==
  /\ Usable(p, f)
  /\ objs' = Leased(fds[p][f].obj)
  /\ kept' = [kept EXCEPT ![fds[p][f].obj] = @ + 1]
  /\ Starts(c, <<>>)
  /\ UNCHANGED <<space, fds, live, vfs, watch, queue>>

\* Mutated form: the last operation of a closing object leaves it there.
release_lease_only(c) ==
  /\ Doing(c, "release")
  /\ objs' = [objs EXCEPT ![Head(todo[c]).key.idx].act = Minus(@, 1)]
  /\ Continues(c, <<>>)
  /\ UNCHANGED <<space, fds, live, vfs, watch, queue>>

release_lease(c) ==
  /\ Doing(c, "release")
  /\ LET k == Head(todo[c]).key
         o == objs[k.idx]
         n == [o EXCEPT !.act = @ - 1]
         held == o.gen = k.gen /\ o.act > 0
     IN /\ objs' = IF held THEN [objs EXCEPT ![k.idx] = Take(n)] ELSE objs
        /\ Continues(c, IF held THEN Finals(n) ELSE <<>>)
  /\ UNCHANGED <<space, fds, live, vfs, watch, queue>>

\* dup and F_DUPFD.
duplicate(c, p, f, m, cx) ==
  /\ Open(p, f)
  /\ LET x == fds[p][f].obj IN
     /\ objs[x].b # None /\ ~objs[x].closing /\ HasRoom(objs[x], 1)
     /\ \E g \in Fds :
          /\ LowestFree(p, m, g)
          /\ objs' = [objs EXCEPT ![x] = Plus(@, 1)]
          /\ fds' = [fds EXCEPT ![p][g] = [obj |-> x, cx |-> cx]]
  /\ Starts(c, <<>>)
  /\ UNCHANGED <<space, live, vfs, watch, queue>>

\* dup2 and dup3 onto another descriptor g, which is closed if it is open.
duplicate_to(c, p, f, g, cx) ==
  /\ f # g /\ Open(p, f)
  /\ LET x == fds[p][f].obj
         y == fds[p][g].obj
     IN /\ objs[x].b # None /\ ~objs[x].closing
        /\ x # y => HasRoom(objs[x], 1)
        /\ y \notin {None, x} => objs[y].refs > 0 /\ objs[y].drefs > 0
        /\ LET up == IF x = y THEN objs ELSE [objs EXCEPT ![x] = Plus(@, 1)]
               n == IF y \in {None, x} THEN EMPTY(0) ELSE Closed(objs[y], 1)
           IN IF y \in {None, x}
              THEN objs' = up /\ Starts(c, <<>>)
              ELSE /\ objs' = [up EXCEPT ![y] = Take(n)]
                   /\ Starts(c, Detaching(y, n) \o Finals(n))
        /\ fds' = [fds EXCEPT ![p][g] = [obj |-> x, cx |-> cx]]
  /\ UNCHANGED <<space, live, vfs, watch, queue>>

close(c, p, f) ==
  /\ Open(p, f)
  /\ LET x == fds[p][f].obj
         n == Closed(objs[x], 1)
     IN /\ objs[x].refs > 0 /\ objs[x].drefs > 0
        /\ objs' = [objs EXCEPT ![x] = Take(n)]
        /\ fds' = [fds EXCEPT ![p][f] = NoFd]
        /\ Starts(c, Detaching(x, n) \o Finals(n))
  /\ UNCHANGED <<space, live, vfs, watch, queue>>

\* close_on_exec and close_all: every matching descriptor in one lock
\* section, then the detaching, then the finalisation, in descriptor order.
Matching(p, all) == {f \in Fds : fds[p][f].obj # None /\ (all \/ fds[p][f].cx)}
close_matching(p, all) ==
  LET Of(x) == {f \in Matching(p, all) : fds[p][f].obj = x}
      n == [x \in Objs |-> Closed(objs[x], Cardinality(Of(x)))]
      order == SelectSeq([i \in 1 .. NFds |-> i - 1],
                 LAMBDA f : /\ f \in Matching(p, all)
                            /\ \A g \in Of(fds[p][f].obj) : g <= f)
      Gone(Op(_, _)) == FlattenSeq([i \in DOMAIN order |->
                          Op(fds[p][order[i]].obj, n[fds[p][order[i]].obj])])
  IN [objs |-> [x \in Objs |-> IF Of(x) = {} THEN objs[x] ELSE Take(n[x])],
      fds |-> [f \in Fds |-> IF f \in Matching(p, all) THEN NoFd ELSE fds[p][f]],
      items |-> Gone(Detaching) \o Gone(LAMBDA x, o : Finals(o))]

\* execve.
close_on_exec(c, p) ==
  /\ space[p] = "open"
  /\ LET r == close_matching(p, FALSE) IN
     /\ objs' = r.objs
     /\ fds' = [fds EXCEPT ![p] = r.fds]
     /\ Starts(c, r.items)
  /\ UNCHANGED <<space, live, vfs, watch, queue>>

\* Exit of the thread-group leader: linux_fd::close_all, and then
\* akashic_vfs::close_all.  The leader exits after its threads, and makes no
\* further call.
close_all(c, p) ==
  /\ space[p] = "open" /\ \A d \in Contexts : todo[d] = <<>>
  /\ LET r == close_matching(p, TRUE) IN
     /\ objs' = r.objs
     /\ fds' = [fds EXCEPT ![p] = r.fds]
     /\ Starts(c, Append(r.items, [do |-> "vfs_close_all", p |-> p]))
  /\ space' = [space EXCEPT ![p] = "gone"]
  /\ UNCHANGED <<live, vfs, watch, queue>>

vfs_close_all(c) ==
  /\ Doing(c, "vfs_close_all")
  /\ vfs' = [b \in Files |-> IF vfs[b] = Head(todo[c]).p THEN None ELSE vfs[b]]
  /\ Continues(c, <<>>)
  /\ UNCHANGED <<space, fds, objs, live, watch, queue>>

-----------------------------------------------------------------------------
(* Descriptors in transit.                                                 *)

\* capture_transfers: every reservation or none.
Transferable(p, f) ==
  /\ Open(p, f)
  /\ LET o == objs[fds[p][f].obj] IN o.b \notin {None} \cup Epolls /\ ~o.closing
Times(ks, x) == Cardinality({i \in DOMAIN ks : ks[i].idx = x})

\* Mutated form: a reservation counts as a reference, not as a descriptor.
ReservedRefsOnly(ks) ==
  [x \in Objs |-> [objs[x] EXCEPT !.refs = @ + Times(ks, x)]]

Reserved(ks) == [x \in Objs |-> Plus(objs[x], Times(ks, x))]

\* send_socket_with_rights; the message is queued or refused in a later step.
send_with_rights(c, p, sent) ==
  /\ space[p] = "open" /\ sent # <<>>
  /\ \A i \in DOMAIN sent : Transferable(p, sent[i])
  /\ LET ks == [i \in DOMAIN sent |-> Key(fds[p][sent[i]].obj)] IN
     /\ \A x \in Objs : HasRoom(objs[x], Times(ks, x))
     /\ objs' = Reserved(ks)
     /\ Starts(c, <<[do |-> "enqueue", keys |-> ks]>>)
  /\ UNCHANGED <<space, fds, live, vfs, watch, queue>>

\* send_message takes the tokens, or leaves them to release_transfers: the
\* descriptor is not a socket, the stream is full or its reader has gone.
send_message(c) ==
  /\ Doing(c, "enqueue")
  /\ LET ks == Head(todo[c]).keys IN
     \/ /\ Len(queue) < MaxQueue
        /\ queue' = Append(queue, ks)
        /\ Continues(c, <<>>)
     \/ /\ UNCHANGED queue
        /\ Continues(c, Each(Untoken, ks))
  /\ UNCHANGED <<space, fds, objs, live, vfs, watch>>

\* receive_socket_with_rights with room for n descriptors.
receive_with_rights(c, p, n, cx) ==
  /\ space[p] = "open" /\ queue # <<>>
  /\ queue' = Tail(queue)
  /\ Starts(c, <<[do |-> "deliver", p |-> p, keys |-> Head(queue), n |-> n, cx |-> cx]>>)
  /\ UNCHANGED <<space, fds, objs, live, vfs, watch>>

\* The stream closes or shuts down: what it holds is discarded.
discard_rights(c) ==
  /\ queue # <<>>
  /\ queue' = <<>>
  /\ Starts(c, Each(Untoken, FlattenSeq(queue)))
  /\ UNCHANGED <<space, fds, objs, live, vfs, watch>>

\* install_transfers, and release_transfers of what was not installed.
install_transfers(c) ==
  /\ Doing(c, "deliver")
  /\ LET i == Head(todo[c])
         n == IF i.n < Len(i.keys) THEN i.n ELSE Len(i.keys)
         free == {f \in Fds : fds[i.p][f].obj = None}
         Rank(f) == 1 + Cardinality({g \in free : g < f})
         ok == /\ Cardinality(free) >= n
               /\ \A m \in 1 .. n :
                    LET o == objs[i.keys[m].idx] IN
                    /\ Names(i.keys[m]) /\ o.refs > 0 /\ o.drefs > 0 /\ ~o.closing
     IN \/ /\ ok
           /\ fds' = [fds EXCEPT ![i.p] = [f \in Fds |->
                        IF f \in free /\ Rank(f) <= n
                        THEN [obj |-> i.keys[Rank(f)].idx, cx |-> i.cx] ELSE @[f]]]
           /\ Continues(c, Each(Untoken, SubSeq(i.keys, n + 1, Len(i.keys))))
        \/ /\ ~ok
           /\ UNCHANGED fds
           /\ Continues(c, Each(Untoken, i.keys))
  /\ UNCHANGED <<space, objs, live, vfs, watch, queue>>


\* release_transfers, one token.
release_transfer(c) ==
  /\ Doing(c, "untoken")
  /\ LET k == Head(todo[c]).key
         o == objs[k.idx]
         n == Closed(o, 1)
         held == o.gen = k.gen /\ o.refs > 0 /\ o.drefs > 0
     IN /\ objs' = IF held THEN [objs EXCEPT ![k.idx] = Take(n)] ELSE objs
        /\ Continues(c, IF held THEN Detaching(k.idx, n) \o Finals(n) ELSE <<>>)
  /\ UNCHANGED <<space, fds, live, vfs, watch, queue>>

-----------------------------------------------------------------------------
(* Watches and reclamation.                                                *)

Ctl(d, e, k) == [do |-> d, e |-> e, key |-> k]

\* epoll_ctl leases the epoll descriptor f, and then the target g.
epoll_ctl(c, p, f, g, op) ==
  /\ Usable(p, f)
  /\ objs' = Leased(fds[p][f].obj)
  /\ Starts(c, <<[do |-> "target", p |-> p, f |-> g, ep |-> fds[p][f].obj, op |-> op],
                Release(Key(fds[p][f].obj))>>)
  /\ UNCHANGED <<space, fds, live, vfs, watch, queue>>

epoll_ctl_target(c) ==
  /\ Doing(c, "target")
  /\ LET i == Head(todo[c])
         e == objs[i.ep].b
         x == fds[i.p][i.f].obj
     IN \/ /\ Usable(i.p, i.f)
           /\ objs' = Leased(x)
           /\ Continues(c, IF e \in Epolls /\ objs[x].b \in Events \cup {Console}
                           THEN <<Ctl(IF i.op = "ADD" THEN "probe" ELSE "del", e, Key(x)),
                                  Release(Key(x))>>
                           ELSE <<Release(Key(x))>>)
        \/ /\ ~Usable(i.p, i.f)
           /\ UNCHANGED objs
           /\ Continues(c, <<>>)
  /\ UNCHANGED <<space, fds, live, vfs, watch, queue>>

\* readiness_by_key: ADD first asks the target for its readiness.
readiness_by_key(c) ==
  /\ Doing(c, "probe")
  /\ LET i == Head(todo[c])
         o == objs[i.key.idx]
         ok == Names(i.key) /\ ~o.closing /\ o.act < MaxCount
     IN /\ objs' = IF ok THEN Leased(i.key.idx) ELSE objs
        /\ Continues(c, IF ok THEN <<Release(i.key), Ctl("add", i.e, i.key)>> ELSE <<>>)
  /\ UNCHANGED <<space, fds, live, vfs, watch, queue>>

\* linux_epoll::ctl under the epoll table lock.
ctl_add(c) ==
  /\ Doing(c, "add")
  /\ LET i == Head(todo[c])
         ok == i.key \notin watch[i.e] /\ Cardinality(watch[i.e]) < MaxWatches
     IN /\ watch' = IF ok THEN [watch EXCEPT ![i.e] = @ \cup {i.key}] ELSE watch
        /\ Continues(c, IF ok THEN <<Ctl("retain", i.e, i.key)>> ELSE <<>>)
  /\ UNCHANGED <<space, fds, objs, live, vfs, queue>>

ctl_del(c) ==
  /\ Doing(c, "del")
  /\ LET i == Head(todo[c]) IN
     /\ watch' = [watch EXCEPT ![i.e] = @ \ {i.key}]
     /\ Continues(c, IF i.key \in watch[i.e] THEN <<Drop(i.key)>> ELSE <<>>)
  /\ UNCHANGED <<space, fds, objs, live, vfs, queue>>

\* retain_key for a published watch, which is withdrawn when that fails.
retain_key(c) ==
  /\ Doing(c, "retain")
  /\ LET i == Head(todo[c])
         o == objs[i.key.idx]
         ok == Names(i.key) /\ o.drefs # 0 /\ ~o.closing /\ o.refs < MaxCount
     IN /\ objs' = IF ok THEN [objs EXCEPT ![i.key.idx].refs = @ + 1] ELSE objs
        /\ Continues(c, IF ok THEN <<>> ELSE <<Ctl("undo", i.e, i.key)>>)
  /\ UNCHANGED <<space, fds, live, vfs, watch, queue>>

ctl_undo(c) ==
  /\ Doing(c, "undo")
  /\ watch' = [watch EXCEPT ![Head(todo[c]).e] = @ \ {Head(todo[c]).key}]
  /\ Continues(c, <<>>)
  /\ UNCHANGED <<space, fds, objs, live, vfs, queue>>

drop_key_reference(c) ==
  /\ Doing(c, "drop")
  /\ LET k == Head(todo[c]).key
         o == objs[k.idx]
         n == [o EXCEPT !.refs = @ - 1, !.closing = @ \/ o.refs = 1]
         held == o.gen = k.gen /\ o.refs > 0
     IN /\ objs' = IF held THEN [objs EXCEPT ![k.idx] = Take(n)] ELSE objs
        /\ Continues(c, IF held THEN Finals(n) ELSE <<>>)
  /\ UNCHANGED <<space, fds, live, vfs, watch, queue>>

\* detach_epoll_watches: one table lock for all instances, then a drop for
\* each watch that was removed.
detach_epoll_watches(c) ==
  /\ Doing(c, "detach")
  /\ LET k == Head(todo[c]).key
         n == Cardinality({e \in Epolls : k \in watch[e]})
     IN /\ watch' = [e \in Epolls |-> watch[e] \ {k}]
        /\ Continues(c, [i \in 1 .. n |-> Drop(k)])
  /\ UNCHANGED <<space, fds, objs, live, vfs, queue>>

\* finalize_object.  linux_file::close keeps its slot when the VFS no longer
\* knows the handle.
finalize_object(c) ==
  /\ Doing(c, "final")
  /\ LET b == Head(todo[c]).b
         w == IF b \in Epolls THEN watch[b] ELSE {}
     IN /\ live' = IF b \in Files /\ vfs[b] = None THEN live ELSE live \ {b}
        /\ vfs' = [f \in Files |-> IF f = b THEN None ELSE vfs[f]]
        /\ watch' = [e \in Epolls |-> IF e = b THEN {} ELSE watch[e]]
        /\ Continues(c, Each(Drop, SetToSeq(w)))
  /\ UNCHANGED <<space, fds, objs, queue>>

-----------------------------------------------------------------------------
Init ==
  /\ space = [p \in Owners |-> "none"]
  /\ fds = [p \in Owners |-> [f \in Fds |-> NoFd]]
  /\ objs = [x \in Objs |-> EMPTY(0)]
  /\ live = {}
  /\ vfs = [b \in Files |-> None]
  /\ watch = [e \in Epolls |-> {}]
  /\ queue = <<>>
  /\ todo = [c \in Contexts |-> <<>>] /\ kept = [x \in Objs |-> 0]
  /\ work \in Workloads

CloseOnExec == IF "exec" \in work.calls THEN BOOLEAN ELSE {FALSE}
Pairs == {bs \in (Events \cap work.backends) \X (Events \cap work.backends) : bs[1] # bs[2]}

OpeningCall(c, p, cx) ==
  \/ "open" \in work.calls /\ \E b \in work.backends : Create(c, p, <<b>>, cx)
  \/ "pair" \in work.calls /\ \E bs \in Pairs : Create(c, p, bs, cx)
  \/ "receive" \in work.calls /\ \E n \in 0 .. MaxRights : receive_with_rights(c, p, n, cx)

DescriptorCall(c, p, f) ==
  \/ "operate" \in work.calls /\ Operate(c, p, f)
  \/ "close" \in work.calls /\ close(c, p, f)
  \/ "dup" \in work.calls /\ \E m \in Fds, cx \in CloseOnExec : duplicate(c, p, f, m, cx)
  \/ "dup2" \in work.calls /\ \E g \in Fds, cx \in CloseOnExec : duplicate_to(c, p, f, g, cx)
  \/ \E g \in Fds, op \in work.calls \cap {"ADD", "DEL"} : epoll_ctl(c, p, f, g, op)

ProcessCall(c, p) ==
  \/ "send" \in work.calls /\ \E n \in 1 .. MaxRights : \E sent \in [1 .. n -> Fds] :
       send_with_rights(c, p, sent)
  \/ "exec" \in work.calls /\ close_on_exec(c, p)
  \/ "exit" \in work.calls /\ close_all(c, p)

Call(c) ==
  \/ \E p \in work.owners :
       \/ \E cx \in CloseOnExec : OpeningCall(c, p, cx)
       \/ \E f \in Fds : DescriptorCall(c, p, f)
       \/ ProcessCall(c, p)
  \/ "receive" \in work.calls /\ discard_rights(c)

\* The next lock section of the call context c is in.
Step(c) ==
  \/ install_object(c) \/ release_lease(c) \/ vfs_close_all(c)
  \/ send_message(c) \/ install_transfers(c) \/ release_transfer(c)
  \/ epoll_ctl_target(c) \/ readiness_by_key(c) \/ ctl_add(c) \/ ctl_del(c)
  \/ retain_key(c) \/ ctl_undo(c) \/ drop_key_reference(c)
  \/ detach_epoll_watches(c) \/ finalize_object(c)

Next ==
  /\ \/ \E p \in work.owners : ensure_space(p) /\ UNCHANGED kept
     \/ \E c \in work.contexts : (Call(c) \/ Step(c)) /\ UNCHANGED kept
     \/ /\ "fionread" \in work.calls
        /\ \E c \in work.contexts, p \in work.owners, f \in Fds : fionread(c, p, f)
  /\ UNCHANGED work

Spec == Init /\ [][Next]_vars

\* A call that has started is run to its end.
FairSpec == Spec /\ \A c \in Contexts : WF_vars(Step(c) /\ UNCHANGED <<kept, work>>)

-----------------------------------------------------------------------------
(* Properties.                                                             *)

Keys == [idx : Objs, gen : 0 .. MaxGen]
Object == [gen : 0 .. MaxGen, b : Backends \cup {None, Console}, refs : 0 .. MaxCount,
           drefs : 0 .. MaxCount, act : 0 .. MaxCount, closing : BOOLEAN]

\* Every count stays in its width, every key is a slot and a generation.
TypeOK ==
  /\ space \in [Owners -> {"none", "open", "gone"}]
  /\ fds \in [Owners -> [Fds -> [obj : Objs \cup {None}, cx : BOOLEAN]]]
  /\ objs \in [Objs -> Object]
  /\ live \subseteq Backends
  /\ vfs \in [Files -> Owners \cup {None}]
  /\ watch \in [Epolls -> SUBSET Keys]
  /\ queue \in Seq(Seq(Keys))
  /\ \A c \in Contexts : \A i \in DOMAIN todo[c] : "do" \in DOMAIN todo[c][i]
  /\ kept \in [Objs -> 0 .. MaxCount]
  /\ work \in Workloads

MaxTodo == Max({Len(todo[c]) : c \in Contexts})

\* The items of kind d that are to be done for key k.
Pending(d, k) ==
  Cardinality({<<c, n>> \in Contexts \X (1 .. MaxTodo) :
    n \in DOMAIN todo[c] /\ todo[c][n].do = d /\ todo[c][n].key = k})

\* The descriptors and the tokens of a key: in a stream, in a message being
\* sent or received, or waiting for release_transfers.
Descriptors(k) == Cardinality({<<p, f>> \in Owners \X Fds : fds[p][f].obj = k.idx})
Tokens(k) ==
  Cardinality({<<m, j>> \in (DOMAIN queue) \X (1 .. MaxRights) :
    j \in DOMAIN queue[m] /\ queue[m][j] = k})
  + Cardinality({<<c, n, j>> \in Contexts \X (1 .. MaxTodo) \X (1 .. MaxRights) :
      /\ n \in DOMAIN todo[c] /\ todo[c][n].do \in {"enqueue", "deliver"}
      /\ j \in DOMAIN todo[c][n].keys /\ todo[c][n].keys[j] = k})
  + Pending("untoken", k)

\* The three counts of an open object (linux_fd.rs OpenObject) are at every
\* step exactly what holds it: descriptors and tokens; those and the epoll
\* watches, except for a watch that is published and not (yet) retained, or
\* removed and not yet dropped; and the operations in progress, with the
\* leases fionread keeps.  While an object closes, the references of the
\* watches may run ahead of the drops: a watch that was never retained is
\* detached with a drop of its own.
CountsExact ==
  TypeOK /\ \A x \in Objs : objs[x].b # None =>
    LET k == Key(x)
        o == objs[x]
        due == o.drefs + Pending("drop", k) + Cardinality({e \in Epolls : k \in watch[e]})
    IN /\ o.drefs = Descriptors(k) + Tokens(k)
       /\ o.act = Pending("release", k) + kept[x]
       /\ IF o.closing THEN o.refs <= due
          ELSE o.refs + Pending("retain", k) + Pending("undo", k) = due

Quiescent == \A c \in Contexts : todo[c] = <<>>

\* No name outlives its object.  An occupied descriptor slot, and a descriptor
\* in a stream, name an open object that is not being closed; while a call
\* holds a lease its object keeps its generation and its back end; between
\* calls no epoll instance watches an object whose last descriptor is closed
\* (acquire_descriptor, install_transfers, remove_target, epoll_ctl).
NamesStayOpen ==
  /\ \A p \in Owners, f \in Fds : fds[p][f].obj # None =>
       objs[fds[p][f].obj].b # None /\ ~objs[fds[p][f].obj].closing
  /\ \A i \in DOMAIN queue : \A j \in DOMAIN queue[i] :
       Names(queue[i][j]) /\ ~objs[queue[i][j].idx].closing
  /\ \A c \in Contexts : \A n \in DOMAIN todo[c] :
       todo[c][n].do = "release" =>
         LET k == todo[c][n].key IN
         Names(k) /\ (objs[k.idx].b \in Backends => objs[k.idx].b \in live)
  /\ Quiescent => \A e \in Epolls : \A k \in watch[e] :
       e \in live /\ Names(k) /\ objs[k.idx].drefs > 0


\* "A close racing an active operation marks the object closing and defers
\* backend reclamation until the active lease ends" (LINUX_KERNEL_CONTRACT.md):
\* between calls no operation is active, and no object is closing.
ReclaimedWhenIdle ==
  Quiescent => \A x \in Objs : ~objs[x].closing

\* An open file keeps its VFS handle, whichever process holds its last
\* descriptor: the handle is revoked by finalize_object, not before.
FileKeepsHandle ==
  \A x \in Objs : objs[x].b \in Files => vfs[objs[x].b] # None

\* Once the last descriptor of an object is closed, the object is reclaimed:
\* the operations in progress end, and the last one finalizes it.  Only a lease
\* that fionread kept is in the way, and nothing else ever is.
ClosingReclaimed ==
  \A x \in Objs : (objs[x].closing /\ kept[x] = 0) ~> ~objs[x].closing
=============================================================================
