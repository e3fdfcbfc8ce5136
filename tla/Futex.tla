------------------------------- MODULE Futex -------------------------------
(***************************************************************************)
(* Private futexes: the wait queue of linux_futex.rs, the robust lists of  *)
(* linux_robust.rs, the child-tid words of linux_thread.rs, and what       *)
(* clone, exec, exit and exit_group do to them, under threads that use     *)
(* robust mutexes and join each other through FUTEX_WAIT and FUTEX_WAKE.   *)
(*                                                                         *)
(* A thread is an exact PID generation and lives once.  The scheduler is   *)
(* reduced to who runs (Lifecycle has the rest), and lets a thread lose    *)
(* the processor anywhere, which Linux threads of the kernel do not.       *)
(***************************************************************************)
EXTENDS Naturals, FiniteSets

CONSTANTS
  Threads,   \* PID generations
  Procs,     \* thread groups
  GroupOf,   \* the group of each thread
  LeaderOf,  \* the leader of each group
  Roots,     \* address-space roots
  Locks,     \* addresses of robust mutexes
  MaxSeq,    \* u64::MAX for next_sequence, scaled down
  None

\* A word is a lock, or the tid word of a thread.
Addrs == Locks \cup Threads

ASSUME FutexConstants ==
  /\ GroupOf \in [Threads -> Procs] /\ LeaderOf \in [Procs -> Threads]
  /\ \A p \in Procs : GroupOf[LeaderOf[p]] = p
  /\ MaxSeq \in Nat \ {0}
  /\ None \notin Threads \cup Roots \cup Addrs
  /\ Locks \cap Threads = {}

VARIABLES
  phase,   \* of each thread
  current, \* the running thread, or None for PID0
  rootOf,  \* the address space of each group
  mem,     \* futex words, per address space
  queue,   \* FutexTable.waiters
  nextSeq, \* FutexTable.next_sequence
  robust,  \* the image a thread registered its robust list in, or None
  ctid,    \* the image of its registered clear_child_tid word, or None
  held,    \* the robust list of each thread, in user memory
  step     \* where each thread is in its program

vars == <<phase, current, rootOf, mem, queue, nextSeq, robust, ctid, held, step>>
kernel == <<queue, nextSeq, robust, ctid>>

Word == [tid : Threads \cup {None}, waiters : BOOLEAN, died : BOOLEAN]
Free == [tid |-> None, waiters |-> FALSE, died |-> FALSE]
Key == Roots \X Addrs
Waiter == [owner : Threads, key : Key, seq : 1 .. MaxSeq]

At(d, a, slow) == [do |-> d, a |-> a, slow |-> slow, exp |-> Free]
WaitFor(a, slow, w) == [do |-> "wait", a |-> a, slow |-> slow, exp |-> w]
Idle == At("idle", None, FALSE)

Root(t) == rootOf[GroupOf[t]]
Members(p) == {t \in Threads : GroupOf[t] = p /\ phase[t] \in {"running", "runnable", "blocked"}}
WordAt(t) == mem[Root(t)][step[t].a]
Store(t, a, w) == mem' = [mem EXCEPT ![Root(t)][a] = w]
Goto(t, s) == step' = [step EXCEPT ![t] = s]

\* take_robust_list and take_clear_child_tid of the threads T.
Without(T, reg) == [t \in Threads |-> IF t \in T THEN None ELSE reg[t]]

-----------------------------------------------------------------------------
(* The queue.                                                              *)

\* mark_runnable succeeds on this thread.
Wakeable(t) == phase[t] \in {"running", "blocked"}

\* wake_current: entries leave oldest first, stale ones too, until n threads
\* have been made runnable.
Taken(q, k, n) ==
  {e \in q : e.key = k /\ Cardinality({f \in q : /\ f.key = k /\ f.seq < e.seq
                                                 /\ Wakeable(f.owner)}) < n}
Woken(T) == {t \in Threads : Wakeable(t) /\ \E e \in T : e.owner = t}
Runnable(W) == [t \in Threads |-> IF t \in W THEN "runnable" ELSE phase[t]]

cancel(q, T) == {e \in q : e.owner \notin T}

\* The thread that stops running leaves the processor to a runnable one in
\* ph, or to PID0.
Dispatch(ph) ==
  \/ \E u \in Threads : /\ ph[u] = "runnable"
                        /\ phase' = [ph EXCEPT ![u] = "running"] /\ current' = u
  \/ /\ \A u \in Threads : ph[u] # "runnable"
     /\ phase' = ph /\ current' = None

-----------------------------------------------------------------------------
(* The program: a robust mutex, and a join.                                *)

UserLock(t, a) ==
  /\ step[t] = Idle /\ robust[t] # None /\ a \notin held[t]
  /\ Goto(t, At("lock", a, FALSE))
  /\ UNCHANGED <<phase, current, rootOf, mem, queue, nextSeq, robust, ctid, held>>

\* A contended thread cannot know that it was the last one waiting.
UserAcquire(t) ==
  /\ step[t].do = "lock" /\ WordAt(t).tid = None
  /\ Store(t, step[t].a, [tid |-> t, waiters |-> step[t].slow \/ WordAt(t).waiters,
                          died |-> FALSE])
  /\ held' = [held EXCEPT ![t] = @ \cup {step[t].a}]
  /\ Goto(t, Idle)
  /\ UNCHANGED <<phase, current, rootOf, queue, nextSeq, robust, ctid>>

UserContend(t) ==
  /\ step[t].do = "lock" /\ WordAt(t).tid # None
  /\ LET w == [WordAt(t) EXCEPT !.waiters = TRUE] IN
     /\ Store(t, step[t].a, w)
     /\ Goto(t, WaitFor(step[t].a, TRUE, w))
  /\ UNCHANGED <<phase, current, rootOf, queue, nextSeq, robust, ctid, held>>

UserUnlock(t, a) ==
  /\ step[t] = Idle /\ a \in held[t]
  /\ Store(t, a, Free)
  /\ held' = [held EXCEPT ![t] = @ \ {a}]
  /\ Goto(t, IF mem[Root(t)][a].waiters THEN At("wake", a, FALSE) ELSE Idle)
  /\ UNCHANGED <<phase, current, rootOf, queue, nextSeq, robust, ctid>>

\* The leader waits for the tid word of a peer to be cleared.
UserJoin(t, u) ==
  /\ step[t] = Idle /\ t = LeaderOf[GroupOf[t]] /\ u # t /\ GroupOf[u] = GroupOf[t]
  /\ mem[Root(t)][u].tid # None
  /\ Goto(t, WaitFor(u, FALSE, mem[Root(t)][u]))
  /\ UNCHANGED <<phase, current, rootOf, mem, queue, nextSeq, robust, ctid, held>>

-----------------------------------------------------------------------------
(* System calls.                                                           *)

\* The comparison wait_current makes under the queue lock.
ValueUnchanged(t) == WordAt(t) = step[t].exp

CanEnqueue(t) == (\A e \in queue : e.owner # t) /\ nextSeq < MaxSeq

\* After FUTEX_WAIT a lock is tried again, and a tid word is read again.
Retry(t) == IF step[t].a \in Locks THEN At("lock", step[t].a, TRUE) ELSE Idle

\* wait_current: compare, enqueue and block under the queue lock.
FutexWait(t) ==
  /\ step[t].do = "wait" /\ ValueUnchanged(t) /\ CanEnqueue(t)
  /\ queue' = queue \cup {[owner |-> t, key |-> <<Root(t), step[t].a>>, seq |-> nextSeq]}
  /\ nextSeq' = nextSeq + 1
  /\ Dispatch([phase EXCEPT ![t] = "blocked"])
  /\ Goto(t, Retry(t))
  /\ UNCHANGED <<rootOf, mem, robust, ctid, held>>

\* EAGAIN: the value changed, or there is no room.
FutexWaitRefused(t) ==
  /\ step[t].do = "wait" /\ (~ValueUnchanged(t) \/ ~CanEnqueue(t))
  /\ Goto(t, Retry(t))
  /\ UNCHANGED <<phase, current, rootOf, mem, kernel, held>>

\* FUTEX_WAKE of one waiter.
FutexWake(t) ==
  /\ step[t].do = "wake"
  /\ LET T == Taken(queue, <<Root(t), step[t].a>>, 1) IN
     /\ queue' = queue \ T
     /\ phase' = Runnable(Woken(T))
  /\ Goto(t, Idle)
  /\ UNCHANGED <<current, rootOf, mem, nextSeq, robust, ctid, held>>

set_robust_list(t) ==
  /\ step[t] = Idle
  /\ robust' = [robust EXCEPT ![t] = Root(t)]
  /\ UNCHANGED <<phase, current, rootOf, mem, queue, nextSeq, ctid, held, step>>

\* clone with CLONE_CHILD_SETTID and CLONE_CHILD_CLEARTID.
Clone(t, u) ==
  /\ step[t] = Idle
  /\ phase[u] = "unborn" /\ GroupOf[u] = GroupOf[t]
  /\ phase' = [phase EXCEPT ![u] = "runnable"]
  /\ Store(t, u, [Free EXCEPT !.tid = u])
  /\ ctid' = [ctid EXCEPT ![u] = Root(t)]
  /\ UNCHANGED <<current, rootOf, queue, nextSeq, robust, held, step>>

\* Mutated form: exec leaves the registrations of the old image.
ExecveKeeps(t) ==
  /\ step[t] = Idle /\ Members(GroupOf[t]) = {t} /\ t = LeaderOf[GroupOf[t]]
  /\ \E r \in Roots \ {rootOf[p] : p \in Procs} :
       /\ rootOf' = [rootOf EXCEPT ![GroupOf[t]] = r]
       /\ mem' = [mem EXCEPT ![r] = [a \in Addrs |-> Free]]
  /\ queue' = cancel(queue, {t})
  /\ held' = [held EXCEPT ![t] = {}]
  /\ UNCHANGED <<phase, current, nextSeq, robust, ctid, step>>

\* execve: only a leader without peers.  The new image is a free root; the
\* waits and registrations of the old one are dropped.
Execve(t) ==
  /\ step[t] = Idle /\ Members(GroupOf[t]) = {t} /\ t = LeaderOf[GroupOf[t]]
  /\ \E r \in Roots \ {rootOf[p] : p \in Procs} :
       /\ rootOf' = [rootOf EXCEPT ![GroupOf[t]] = r]
       /\ mem' = [mem EXCEPT ![r] = [a \in Addrs |-> Free]]
  /\ queue' = cancel(queue, {t})
  /\ robust' = Without({t}, robust) /\ ctid' = Without({t}, ctid)
  /\ held' = [held EXCEPT ![t] = {}]
  /\ UNCHANGED <<phase, current, nextSeq, step>>

-----------------------------------------------------------------------------
(* Exit.                                                                   *)

\* The locks recover_robust_list reaches: the list, and the pending entry.
Listed(t) ==
  IF robust[t] # None
  THEN held[t] \cup (IF step[t].do = "lock" THEN {step[t].a} ELSE {}) ELSE {}
OwnedBy(t) == {a \in Listed(t) : mem[Root(t)][a].tid = t}

\* Mutated form: the owner stays in the word.
OwnerDiedKeepsTid(w) == [w EXCEPT !.died = TRUE]

\* owner_died_replacement.
OwnerDied(w) == [tid |-> None, waiters |-> w.waiters, died |-> TRUE]

\* Mutated form: the owner of a contended lock dies and wakes nobody.
DeathWakesJoiner(t) == {a \in {t} : ctid[t] # None}

\* The words whose waiter is woken: contended locks, and the tid word.
DeathWakes(t) ==
  {a \in OwnedBy(t) : mem[Root(t)][a].waiters} \cup {a \in {t} : ctid[t] # None}

\* The words of the address space once the threads T are gone from it.
Bereaved(r, T) ==
  [a \in Addrs |->
     IF \E t \in T : a \in OwnedBy(t) THEN OwnerDied(mem[r][a])
     ELSE IF a \in T /\ ctid[a] # None THEN Free ELSE mem[r][a]]

\* A thread that is not the leader, or a leader without peers.
ThreadExit(t) ==
  /\ step[t] = Idle
  /\ t = LeaderOf[GroupOf[t]] => Members(GroupOf[t]) = {t}
  /\ LET q == cancel(queue, {t})
         T == {e \in q : \E a \in DeathWakes(t) : e \in Taken(q, <<Root(t), a>>, 1)}
     IN /\ queue' = q \ T
        /\ Dispatch([u \in Threads |-> IF u = t THEN "gone" ELSE Runnable(Woken(T))[u]])
  /\ mem' = [mem EXCEPT ![Root(t)] = Bereaved(Root(t), {t})]
  /\ robust' = Without({t}, robust) /\ ctid' = Without({t}, ctid)
  /\ rootOf' = [rootOf EXCEPT ![GroupOf[t]] = IF t = LeaderOf[GroupOf[t]] THEN None ELSE @]
  /\ UNCHANGED <<nextSeq, held, step>>

\* Mutated form: only the calling thread is cleaned up.
ExitGroupCallerOnly(t) ==
  /\ step[t] = Idle
  /\ LET G == Members(GroupOf[t]) IN
     /\ queue' = cancel(queue, {t})
     /\ Dispatch([u \in Threads |-> IF u \in G THEN "gone" ELSE phase[u]])
     /\ mem' = [mem EXCEPT ![Root(t)] = Bereaved(Root(t), {t})]
     /\ robust' = Without({t}, robust) /\ ctid' = Without({t}, ctid)
  /\ rootOf' = [rootOf EXCEPT ![GroupOf[t]] = None]
  /\ UNCHANGED <<nextSeq, held, step>>

\* exit_group: every member is cleaned up, and each wake this makes reaches
\* a member that is retired with it.
ExitGroup(t) ==
  /\ step[t] = Idle
  /\ LET G == Members(GroupOf[t]) IN
     /\ queue' = cancel(queue, G)
     /\ Dispatch([u \in Threads |-> IF u \in G THEN "gone" ELSE phase[u]])
     /\ mem' = [mem EXCEPT ![Root(t)] = Bereaved(Root(t), G)]
     /\ robust' = Without(G, robust) /\ ctid' = Without(G, ctid)
  /\ rootOf' = [rootOf EXCEPT ![GroupOf[t]] = None]
  /\ UNCHANGED <<nextSeq, held, step>>

-----------------------------------------------------------------------------
\* Another thread gets the processor.
Switch(t, u) ==
  /\ phase[u] = "runnable"
  /\ phase' = [phase EXCEPT ![t] = "runnable", ![u] = "running"]
  /\ current' = u
  /\ UNCHANGED <<rootOf, mem, kernel, held, step>>

\* The leaders exist from the start; one of them runs.
Init ==
  /\ current \in {LeaderOf[p] : p \in Procs}
  /\ phase = [t \in Threads |-> IF t = current THEN "running"
                ELSE IF t = LeaderOf[GroupOf[t]] THEN "runnable" ELSE "unborn"]
  /\ rootOf \in [Procs -> Roots]
  /\ \A p, q \in Procs : rootOf[p] = rootOf[q] => p = q
  /\ mem = [r \in Roots |-> [a \in Addrs |-> Free]]
  /\ queue = {} /\ nextSeq = 1
  /\ robust = [t \in Threads |-> None] /\ ctid = [t \in Threads |-> None]
  /\ held = [t \in Threads |-> {}]
  /\ step = [t \in Threads |-> Idle]

User(t) ==
  \/ \E a \in Locks : UserLock(t, a) \/ UserUnlock(t, a)
  \/ UserAcquire(t) \/ UserContend(t)
  \/ \E u \in Threads : UserJoin(t, u)

System(t) ==
  \/ FutexWait(t) \/ FutexWaitRefused(t) \/ FutexWake(t)
  \/ set_robust_list(t) \/ Execve(t) \/ ThreadExit(t) \/ ExitGroup(t)
  \/ \E u \in Threads : Clone(t, u)

Next == \E t \in Threads :
  /\ t = current
  /\ User(t) \/ System(t) \/ \E u \in Threads : Switch(t, u)

Spec == Init /\ [][Next]_vars

-----------------------------------------------------------------------------
(* Properties.                                                             *)

Point == [do : {"idle", "lock", "wait", "wake"}, a : Addrs \cup {None},
          slow : BOOLEAN, exp : Word]
Phases == {"unborn", "runnable", "running", "blocked", "gone"}

\* The variables have their types.
TypeOK ==
  /\ phase \in [Threads -> Phases]
  /\ current \in Threads \cup {None}
  /\ rootOf \in [Procs -> Roots \cup {None}]
  /\ mem \in [Roots -> [Addrs -> Word]]
  /\ queue \subseteq Waiter /\ nextSeq \in 1 .. MaxSeq
  /\ robust \in [Threads -> Roots \cup {None}] /\ ctid \in [Threads -> Roots \cup {None}]
  /\ held \in [Threads -> SUBSET Locks]
  /\ step \in [Threads -> Point]

\* Every entry of the wait queue is one blocked generation, waiting in the
\* address space it still has, and every blocked thread has one: mark_runnable
\* would also take a running thread, so this is what keeps a wake from
\* descheduling it, and what makes the table large enough.
QueuedAreBlocked ==
  /\ \A e \in queue : phase[e.owner] = "blocked" /\ e.key[1] = Root(e.owner)
  /\ \A e, f \in queue : e.owner = f.owner \/ e.seq = f.seq => e = f
  /\ \A t \in Threads : phase[t] = "blocked" => \E e \in queue : e.owner = t

Active(t) == phase[t] \in {"running", "runnable"}
Alive(t) == Active(t) \/ phase[t] = "blocked"

\* No lost wake: a thread queued on a mutex has a live owner that will see
\* the waiters bit, or a live thread that is about to take the mutex as a
\* contended one or to wake a waiter.  In particular the death of an owner,
\* wherever it strikes, strands nobody.  A leader queued on the tid word of a
\* peer waits for a live peer: exit clears the word and wakes the leader.
NobodyStranded ==
  \A e \in queue :
   /\ e.key[2] \in Threads => Alive(e.key[2])
   /\ e.key[2] \in Locks =>
    LET w == mem[e.key[1]][e.key[2]] IN
    \/ w.tid # None /\ w.waiters /\ w.tid \in Members(GroupOf[e.owner])
    \/ \E u \in Threads :
         /\ Active(u) /\ Root(u) = e.key[1] /\ step[u].a = e.key[2]
         /\ step[u].do = "lock" => step[u].slow

\* A mutex is owned by nobody, or by a live thread that has it in its list;
\* in particular two threads never hold one mutex.
OwnersAlive ==
  \A p \in Procs : rootOf[p] # None => \A a \in Locks :
    LET o == mem[rootOf[p]][a].tid IN o # None => o \in Members(p) /\ a \in held[o]

\* A registered robust list or child-tid word is in the image its thread has
\* now, and a thread that is gone has none: exit never writes through the
\* registration of an earlier image or generation.
RegistrationsCurrent ==
  \A t \in Threads : /\ robust[t] # None => Alive(t) /\ robust[t] = Root(t)
                     /\ ctid[t] # None => Alive(t) /\ ctid[t] = Root(t)
=============================================================================
