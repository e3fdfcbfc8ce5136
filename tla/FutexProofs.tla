---------------------------- MODULE FutexProofs ----------------------------
(***************************************************************************)
(* The wait queue of Futex holds exactly the blocked threads, in the       *)
(* address space they have, and registrations never outlive an image, for  *)
(* any number of threads, groups, roots and locks.                         *)
(*                                                                         *)
(* The second part shows that mutexes, waits and wakes keep the invariant  *)
(* behind "no mutex has a dead owner" and "nobody waits for a wake that    *)
(* will not come"; FutexExitProofs adds clone, exec and exit and draws the *)
(* conclusions.                                                            *)
(***************************************************************************)
EXTENDS Futex, TLAPS

\* One thread runs, a live thread has an image, and a sequence number is not
\* used twice.
Placed ==
  /\ \A t \in Threads : phase[t] = "running" <=> t = current
  /\ \A t \in Threads : Alive(t) => Root(t) # None
  /\ \A e \in queue : e.seq < nextSeq

\* A thread in the middle of an operation has the address it operates on.
HasAddress(s) == /\ s.do \in {"wait", "wake"} => s.a \in Addrs
                 /\ s.do = "lock" => s.a \in Locks
Addressed == \A t \in Threads : HasAddress(step[t])

IInv == TypeOK /\ QueuedAreBlocked /\ RegistrationsCurrent /\ Placed /\ Addressed

\* What Dispatch leaves: the phases it was given, one of the runnable threads
\* now running if there was one.
LEMMA DispatchEffect ==
  ASSUME NEW ph \in [Threads -> Phases], Dispatch(ph),
         \A u \in Threads : ph[u] # "running"
  PROVE  /\ phase' \in [Threads -> Phases]
         /\ current' \in Threads \cup {None}
         /\ \A u \in Threads : phase'[u] = "running" <=> u = current'
         /\ \A u \in Threads : phase'[u] = "blocked" <=> ph[u] = "blocked"
         /\ \A u \in Threads : phase'[u] \in {"running", "runnable"} <=> ph[u] = "runnable"
BY FutexConstants DEF Dispatch, Phases

\* The thread that runs has an image.
LEMMA Runner ==
  ASSUME IInv, NEW t \in Threads, t = current
  PROVE  phase[t] = "running" /\ Root(t) \in Roots /\ GroupOf[t] \in Procs
BY FutexConstants DEF IInv, Placed, Alive, Active, TypeOK, Root

\* Init establishes the invariant.
LEMMA InitIInv == Init => IInv
<1> SUFFICES ASSUME Init PROVE IInv
  BY Zenon
<1>1. \A t \in Threads : LeaderOf[GroupOf[t]] \in Threads
  BY FutexConstants, Zenon
<1>2. current \in Threads
  BY FutexConstants DEF Init
<1>3. phase \in [Threads -> Phases] /\ \A t \in Threads : phase[t] # "blocked"
  BY Zenon DEF Init, Phases
<1>4. Free \in Word /\ Idle \in Point
  BY Zenon DEF Free, Word, Idle, At, Point
<1>5. TypeOK
  BY <1>2, <1>3, <1>4, FutexConstants DEF Init, TypeOK
<1>6. QueuedAreBlocked /\ RegistrationsCurrent
  BY <1>3, Zenon DEF Init, QueuedAreBlocked, RegistrationsCurrent
<1>7. Placed
  BY <1>2, <1>3, FutexConstants DEF Init, Placed, Root
<1>8. Addressed
  BY Zenon DEF Init, Addressed, HasAddress, Idle, At
<1> QED BY <1>5, <1>6, <1>7, <1>8, Zenon DEF IInv

\* Program points are points of the program.
LEMMA PointsTyped ==
  /\ Free \in Word
  /\ \A d \in {"idle", "lock", "wait", "wake"}, a \in Addrs \cup {None}, s \in BOOLEAN :
       At(d, a, s) \in Point
  /\ \A a \in Addrs, s \in BOOLEAN, w \in Word :
       WaitFor(a, s, w) \in Point /\ HasAddress(WaitFor(a, s, w))
BY DEF Free, Word, At, WaitFor, Point, HasAddress

\* Storing a word in an address space.
LEMMA StoreTyped ==
  ASSUME TypeOK, NEW r \in Roots, NEW a \in Addrs, NEW w \in Word
  PROVE  [mem EXCEPT ![r][a] = w] \in [Roots -> [Addrs -> Word]]
BY Zenon DEF TypeOK

\* Moving to a program point.
LEMMA GotoTyped ==
  ASSUME TypeOK, Addressed, NEW t \in Threads, NEW s \in Point, HasAddress(s), Goto(t, s)
  PROVE  step' \in [Threads -> Point] /\ Addressed'
BY Zenon DEF TypeOK, Addressed, Goto

\* A step of the program changes nothing the kernel keeps.
LEMMA UserKeepsIInv ==
  ASSUME IInv, NEW t \in Threads, t = current, User(t)
  PROVE  IInv'
<1> DEFINE Kept == /\ UNCHANGED <<phase, current, rootOf, queue, nextSeq, robust, ctid>>
                   /\ mem' \in [Roots -> [Addrs -> Word]]
                   /\ held' \in [Threads -> SUBSET Locks]
                   /\ \E s \in Point : HasAddress(s) /\ Goto(t, s)
<1>1. Root(t) \in Roots /\ TypeOK /\ Addressed
  BY Runner, Zenon DEF IInv
<1>2. \A a \in Addrs : mem[Root(t)][a] \in Word
  BY <1>1, Zenon DEF TypeOK
<1>3. Locks \subseteq Addrs /\ Threads \subseteq Addrs /\ Idle \in Point /\ HasAddress(Idle)
  BY PointsTyped, Zenon DEF Addrs, Idle, HasAddress, At
<1> SUFFICES Kept
  <2>1. ASSUME Kept PROVE step' \in [Threads -> Point] /\ Addressed'
    BY <1>1, <2>1, GotoTyped, Zenon
  <2>2. ASSUME Kept PROVE TypeOK'
    BY <1>1, <2>1, <2>2, Zenon DEF TypeOK
  <2>3. ASSUME Kept PROVE QueuedAreBlocked' /\ RegistrationsCurrent' /\ Placed'
    BY <2>3 DEF IInv, QueuedAreBlocked, RegistrationsCurrent, Placed, Alive, Active, Root
  <2> QED BY <2>1, <2>2, <2>3, Zenon DEF IInv
<1>4. CASE \E a \in Locks : UserLock(t, a)
  <2>1. \A a \in Locks : At("lock", a, FALSE) \in Point /\ HasAddress(At("lock", a, FALSE))
    BY <1>3, PointsTyped, Zenon DEF HasAddress, At
  <2> QED BY <1>1, <1>4, <2>1, Zenon DEF UserLock, TypeOK
<1>5. CASE \E a \in Locks : UserUnlock(t, a)
  <2> PICK a \in Locks : UserUnlock(t, a)
    BY <1>5, Zenon
  <2>1. At("wake", a, FALSE) \in Point /\ HasAddress(At("wake", a, FALSE))
    BY <1>3, PointsTyped, Zenon DEF HasAddress, At
  <2>2. mem' \in [Roots -> [Addrs -> Word]]
    BY <1>1, <1>3, StoreTyped, PointsTyped, Zenon DEF UserUnlock, Store
  <2> QED BY <1>1, <1>3, <2>1, <2>2, Zenon DEF UserUnlock, TypeOK
<1>6. CASE UserAcquire(t)
  <2>1. step[t].a \in Locks /\ step[t] \in Point
    BY <1>1, <1>6, Zenon DEF UserAcquire, Addressed, HasAddress, TypeOK
  <2>2. [tid |-> t, waiters |-> step[t].slow \/ WordAt(t).waiters, died |-> FALSE] \in Word
    BY Zenon DEF Word
  <2>3. mem' \in [Roots -> [Addrs -> Word]]
    BY <1>1, <1>3, <1>6, <2>1, <2>2, StoreTyped DEF UserAcquire, Store
  <2> QED BY <1>1, <1>3, <1>6, <2>1, <2>3 DEF UserAcquire, TypeOK
<1>7. CASE UserContend(t)
  <2> DEFINE w == [WordAt(t) EXCEPT !.waiters = TRUE]
  <2>1. step[t].a \in Locks /\ WordAt(t) \in Word
    BY <1>1, <1>2, <1>3, <1>7, Zenon DEF UserContend, Addressed, HasAddress, WordAt
  <2>2. w \in Word
    BY <2>1, Zenon DEF Word
  <2>3. WaitFor(step[t].a, TRUE, w) \in Point /\ HasAddress(WaitFor(step[t].a, TRUE, w))
    BY <1>3, <2>1, <2>2, PointsTyped, Zenon
  <2>4. mem' \in [Roots -> [Addrs -> Word]]
    BY <1>1, <1>3, <1>7, <2>1, <2>2, StoreTyped DEF UserContend, Store
  <2> QED BY <1>1, <1>7, <2>3, <2>4, Zenon DEF UserContend, TypeOK
<1>8. CASE \E u \in Threads : UserJoin(t, u)
  <2> PICK u \in Threads : UserJoin(t, u)
    BY <1>8, Zenon
  <2>1. /\ WaitFor(u, FALSE, mem[Root(t)][u]) \in Point
        /\ HasAddress(WaitFor(u, FALSE, mem[Root(t)][u]))
    BY <1>2, <1>3, PointsTyped, Zenon
  <2> QED BY <1>1, <2>1, Zenon DEF UserJoin, TypeOK
<1> QED BY <1>4, <1>5, <1>6, <1>7, <1>8, Zenon DEF User

\* Where FUTEX_WAIT returns to is a point of the program.
LEMMA RetryTyped ==
  ASSUME IInv, NEW t \in Threads, step[t].do = "wait", Goto(t, Retry(t))
  PROVE  step' \in [Threads -> Point] /\ Addressed'
<1>1. TypeOK /\ Addressed /\ step[t].a \in Addrs
  BY Zenon DEF IInv, Addressed, HasAddress
<1>2. Retry(t) \in Point
  BY <1>1, PointsTyped, Zenon DEF Retry, Idle
<1>3. HasAddress(Retry(t))
  BY <1>1, Zenon DEF Retry, Idle, HasAddress, At
<1> QED BY <1>1, <1>2, <1>3, GotoTyped, Zenon

\* FUTEX_WAIT blocks the caller with an entry of its own.
LEMMA FutexWaitKeepsIInv ==
  ASSUME IInv, NEW t \in Threads, t = current, FutexWait(t)
  PROVE  IInv'
<1> DEFINE e == [owner |-> t, key |-> <<Root(t), step[t].a>>, seq |-> nextSeq]
           ph == [phase EXCEPT ![t] = "blocked"]
<1>1. TypeOK /\ QueuedAreBlocked /\ RegistrationsCurrent /\ Placed /\ Addressed
  BY Zenon DEF IInv
<1>2. Root(t) \in Roots /\ phase[t] = "running" /\ step[t].a \in Addrs
  BY <1>1, Runner, Zenon DEF FutexWait, Addressed, HasAddress
<1>3. nextSeq \in 1 .. MaxSeq /\ nextSeq < MaxSeq /\ MaxSeq \in Nat
  BY <1>1, FutexConstants, Zenon DEF TypeOK, FutexWait, CanEnqueue
<1>4. ph \in [Threads -> Phases] /\ \A u \in Threads : ph[u] # "running"
  BY <1>1, <1>2, Zenon DEF TypeOK, Placed, Phases
<1>5. /\ phase' \in [Threads -> Phases] /\ current' \in Threads \cup {None}
      /\ \A u \in Threads : phase'[u] = "running" <=> u = current'
      /\ \A u \in Threads : phase'[u] = "blocked" <=> ph[u] = "blocked"
      /\ \A u \in Threads : phase'[u] \in {"running", "runnable"} <=> ph[u] = "runnable"
  BY <1>4, DispatchEffect, Zenon DEF FutexWait
<1>6. \A u \in Threads : Alive(u)' => Alive(u)
  BY <1>1, <1>2, <1>5, Zenon DEF Alive, Active, TypeOK
<1>6a. \A u \in Threads : Alive(u) => Alive(u)'
  BY <1>1, <1>2, <1>5, <1>4, Zenon DEF Alive, Active, TypeOK, Placed
<1>7. e \in Waiter
  BY <1>2, <1>3, Zenon DEF Waiter, Key
<1>8. step' \in [Threads -> Point] /\ Addressed'
  BY RetryTyped, Zenon DEF FutexWait
<1>9. queue' = queue \cup {e} /\ nextSeq' = nextSeq + 1 /\ rootOf' = rootOf
  BY Zenon DEF FutexWait
<1>10. TypeOK'
  <2>1. queue' \subseteq Waiter /\ nextSeq' \in 1 .. MaxSeq
    BY <1>1, <1>3, <1>7, <1>9, SMTT(30) DEF TypeOK
  <2> QED BY <1>1, <1>5, <1>8, <2>1, Zenon DEF TypeOK, FutexWait
<1>11. QueuedAreBlocked'
  <2>1. \A f \in queue : /\ f.owner \in Threads /\ f.seq \in Nat /\ f.owner # t /\ f.seq < nextSeq
                         /\ phase[f.owner] = "blocked" /\ f.key[1] = Root(f.owner)
    <3> TAKE f \in queue
    <3>1. f \in Waiter /\ phase[f.owner] = "blocked" /\ f.key[1] = Root(f.owner) /\ f.seq < nextSeq
      BY <1>1, Zenon DEF TypeOK, QueuedAreBlocked, Placed
    <3>2. f.owner \in Threads /\ f.seq \in Nat
      BY <3>1, <1>3 DEF Waiter
    <3> QED BY <1>2, <3>1, <3>2, Zenon
  <2>2. \A f \in queue' : phase'[f.owner] = "blocked" /\ f.key[1] = Root(f.owner)'
    BY <1>1, <1>2, <1>5, <1>9, <2>1 DEF Root, TypeOK
  <2>3. \A f, g \in queue' : f.owner = g.owner \/ f.seq = g.seq => f = g
    BY <1>1, <1>3, <1>9, <2>1 DEF QueuedAreBlocked
  <2>4. \A u \in Threads : phase'[u] = "blocked" => \E f \in queue' : f.owner = u
    <3>1. e \in queue' /\ e.owner = t /\ queue \subseteq queue'
      BY <1>9, Zenon
    <3>2. \A u \in Threads \ {t} : phase'[u] = "blocked" => phase[u] = "blocked"
      BY <1>1, <1>5, Zenon DEF TypeOK
    <3> QED BY <1>1, <3>1, <3>2, Zenon DEF QueuedAreBlocked
  <2> QED BY <2>2, <2>3, <2>4, Zenon DEF QueuedAreBlocked
<1>12. RegistrationsCurrent'
  BY <1>1, <1>6a, Zenon DEF RegistrationsCurrent, FutexWait, Root
<1>13. Placed'
  BY <1>1, <1>3, <1>5, <1>6, <1>9 DEF Placed, Root, TypeOK, Waiter
<1> QED BY <1>8, <1>10, <1>11, <1>12, <1>13, Zenon DEF IInv

\* A refused FUTEX_WAIT only returns.
LEMMA RefusedKeepsIInv ==
  ASSUME IInv, NEW t \in Threads, FutexWaitRefused(t)
  PROVE  IInv'
<1>1. step' \in [Threads -> Point] /\ Addressed'
  BY RetryTyped, Zenon DEF FutexWaitRefused
<1>2. UNCHANGED <<phase, current, rootOf, mem, queue, nextSeq, robust, ctid, held>>
  BY Zenon DEF FutexWaitRefused, kernel
<1>3. TypeOK'
  BY <1>1, <1>2, Zenon DEF IInv, TypeOK
<1>4. QueuedAreBlocked' /\ RegistrationsCurrent' /\ Placed'
  BY <1>2 DEF IInv, QueuedAreBlocked, RegistrationsCurrent, Placed, Alive, Active, Root
<1> QED BY <1>1, <1>3, <1>4, Zenon DEF IInv

\* The owners of entries that leave the queue are blocked threads without
\* another entry.
LEMMA WakesBlocked ==
  ASSUME IInv, NEW T \in SUBSET queue
  PROVE  /\ Runnable(Woken(T)) \in [Threads -> Phases]
         /\ \A u \in Threads : u \in Woken(T) => phase[u] = "blocked"
         /\ \A u \in Threads : Runnable(Woken(T))[u] =
              IF u \in Woken(T) THEN "runnable" ELSE phase[u]
         /\ \A f \in queue : f.owner \in Woken(T) <=> f \in T
<1>1. TypeOK /\ QueuedAreBlocked
  BY Zenon DEF IInv
<1>2. \A f \in queue : f.owner \in Threads /\ phase[f.owner] = "blocked"
  BY <1>1, Zenon DEF TypeOK, Waiter, QueuedAreBlocked
<1>3. \A f \in queue : f.owner \in Woken(T) <=> f \in T
  BY <1>1, <1>2, Zenon DEF Woken, Wakeable, QueuedAreBlocked
<1>4. \A u \in Threads : u \in Woken(T) => phase[u] = "blocked"
  BY <1>2, Zenon DEF Woken
<1>5. Runnable(Woken(T)) \in [Threads -> Phases]
  BY <1>1, Zenon DEF Runnable, TypeOK, Phases
<1> QED BY <1>3, <1>4, <1>5, Zenon DEF Runnable

\* FUTEX_WAKE makes the owner of each entry it removes runnable.
LEMMA FutexWakeKeepsIInv ==
  ASSUME IInv, NEW t \in Threads, t = current, FutexWake(t)
  PROVE  IInv'
<1> DEFINE T == Taken(queue, <<Root(t), step[t].a>>, 1)
<1>1. TypeOK /\ QueuedAreBlocked /\ RegistrationsCurrent /\ Placed /\ Addressed
  BY Zenon DEF IInv
<1>2. T \in SUBSET queue
  BY Zenon DEF Taken
<1>3. /\ queue' = queue \ T /\ phase' = Runnable(Woken(T))
      /\ UNCHANGED <<current, rootOf, mem, nextSeq, robust, ctid, held>>
  BY Zenon DEF FutexWake
<1> HIDE DEF T
<1>4. /\ phase' \in [Threads -> Phases]
      /\ \A u \in Threads : u \in Woken(T) => phase[u] = "blocked"
      /\ \A u \in Threads : phase'[u] = IF u \in Woken(T) THEN "runnable" ELSE phase[u]
      /\ \A f \in queue : f.owner \in Woken(T) <=> f \in T
  BY <1>2, <1>3, WakesBlocked, Zenon
<1>5. step' \in [Threads -> Point] /\ Addressed'
  <2>1. Idle \in Point /\ HasAddress(Idle)
    BY PointsTyped, Zenon DEF Idle, HasAddress, At
  <2> QED BY <1>1, <2>1, GotoTyped, Zenon DEF FutexWake
<1>6. TypeOK'
  BY <1>1, <1>3, <1>4, <1>5, Zenon DEF TypeOK
<1>7. \A u \in Threads : Alive(u)' <=> Alive(u)
  BY <1>4, Zenon DEF Alive, Active
<1>8. QueuedAreBlocked'
  <2>1. \A f \in queue' : f \in queue /\ f.owner \in Threads /\ phase'[f.owner] = phase[f.owner]
    BY <1>1, <1>3, <1>4, Zenon DEF TypeOK, Waiter
  <2>2. \A u \in Threads : phase'[u] = "blocked" => \E f \in queue' : f.owner = u
    BY <1>1, <1>3, <1>4 DEF QueuedAreBlocked
  <2> QED BY <1>1, <1>3, <2>1, <2>2 DEF QueuedAreBlocked, Root
<1>9. RegistrationsCurrent'
  BY <1>1, <1>3, <1>7, Zenon DEF RegistrationsCurrent, Root
<1>10. Placed'
  BY <1>1, <1>3, <1>4, <1>7 DEF Placed, Root
<1> QED BY <1>5, <1>6, <1>8, <1>9, <1>10, Zenon DEF IInv

\* Registering a robust list registers it in the present image.
LEMMA RegisterKeepsIInv ==
  ASSUME IInv, NEW t \in Threads, t = current, set_robust_list(t)
  PROVE  IInv'
<1>1. TypeOK /\ QueuedAreBlocked /\ RegistrationsCurrent /\ Placed /\ Addressed
  BY DEF IInv
<1>2. Root(t) \in Roots /\ phase[t] = "running"
  BY Runner, Zenon
<1>3. /\ UNCHANGED <<phase, current, rootOf, mem, queue, nextSeq, ctid, held, step>>
      /\ robust' = [robust EXCEPT ![t] = Root(t)]
  BY Zenon DEF set_robust_list
<1>4. TypeOK'
  BY <1>1, <1>2, <1>3, Zenon DEF TypeOK
<1>5. RegistrationsCurrent'
  BY <1>1, <1>2, <1>3, Zenon DEF RegistrationsCurrent, Alive, Active, Root, TypeOK
<1>6. QueuedAreBlocked' /\ Placed' /\ Addressed'
  BY <1>1, <1>3, Zenon DEF QueuedAreBlocked, Placed, Alive, Active, Root, Addressed
<1> QED BY <1>4, <1>5, <1>6, Zenon DEF IInv

\* A cloned thread starts in the image of its group, with no wait.
LEMMA CloneKeepsIInv ==
  ASSUME IInv, NEW t \in Threads, t = current, NEW u \in Threads, Clone(t, u)
  PROVE  IInv'
<1>1. TypeOK /\ QueuedAreBlocked /\ RegistrationsCurrent /\ Placed /\ Addressed
  BY Zenon DEF IInv
<1>2. Root(t) \in Roots /\ phase[t] = "running" /\ Root(u) = Root(t) /\ Root(u) # None
  BY Runner, FutexConstants DEF Clone, Root
<1>3. /\ UNCHANGED <<current, rootOf, queue, nextSeq, robust, held, step>>
      /\ phase[u] = "unborn" /\ phase' = [phase EXCEPT ![u] = "runnable"]
      /\ ctid' = [ctid EXCEPT ![u] = Root(t)]
  BY Zenon DEF Clone
<1>4. mem' \in [Roots -> [Addrs -> Word]]
  <2>1. [Free EXCEPT !.tid = u] \in Word /\ u \in Addrs
    BY Zenon DEF Free, Word, Addrs
  <2> QED BY <1>1, <1>2, <2>1, StoreTyped, Zenon DEF Clone, Store
<1>5. TypeOK'
  BY <1>1, <1>2, <1>3, <1>4, Zenon DEF TypeOK, Phases
<1>6. \A v \in Threads : v # u => phase'[v] = phase[v]
  BY <1>1, <1>3, Zenon DEF TypeOK
<1>7. phase'[u] = "runnable" /\ u # t
  BY <1>1, <1>2, <1>3, Zenon DEF TypeOK
<1>8. QueuedAreBlocked'
  <2>1. \A e \in queue : e.owner \in Threads /\ e.owner # u
    BY <1>1, <1>3, Zenon DEF TypeOK, Waiter, QueuedAreBlocked
  <2> QED BY <1>1, <1>3, <1>6, <1>7, <2>1 DEF QueuedAreBlocked, Root
<1>9. RegistrationsCurrent'
  <2>1. Alive(u)' /\ robust[u] = None
    BY <1>1, <1>3, <1>7, Zenon DEF RegistrationsCurrent, Alive, Active
  <2>2. ctid'[u] = Root(u)' /\ robust'[u] = None
    BY <1>1, <1>2, <1>3, <2>1, Zenon DEF TypeOK, Root
  <2>3. \A v \in Threads \ {u} : ctid'[v] = ctid[v] /\ robust'[v] = robust[v] /\ Root(v)' = Root(v)
    BY <1>1, <1>3, Zenon DEF TypeOK, Root
  <2>4. \A v \in Threads \ {u} : Alive(v)' <=> Alive(v)
    BY <1>6, Zenon DEF Alive, Active
  <2> QED BY <1>1, <2>1, <2>2, <2>3, <2>4, Zenon DEF RegistrationsCurrent
<1>10. Placed'
  BY <1>1, <1>2, <1>3, <1>6, <1>7 DEF Placed, Root, Alive, Active
<1>11. Addressed'
  BY <1>1, <1>3, Zenon DEF Addressed
<1> QED BY <1>5, <1>8, <1>9, <1>10, <1>11, Zenon DEF IInv

\* exec changes the image of a group with one live thread, which runs.
LEMMA ExecveKeepsIInv ==
  ASSUME IInv, NEW t \in Threads, t = current, Execve(t)
  PROVE  IInv'
<1>1. TypeOK /\ QueuedAreBlocked /\ RegistrationsCurrent /\ Placed /\ Addressed
  BY DEF IInv
<1>2. Root(t) \in Roots /\ phase[t] = "running" /\ GroupOf[t] \in Procs
  BY Runner, Zenon
<1>3. PICK r \in Roots : /\ rootOf' = [rootOf EXCEPT ![GroupOf[t]] = r]
                         /\ mem' = [mem EXCEPT ![r] = [a \in Addrs |-> Free]]
  BY Zenon DEF Execve
<1>4. /\ queue' \subseteq queue /\ \A e \in queue : e.owner # t => e \in queue'
      /\ robust' = Without({t}, robust) /\ ctid' = Without({t}, ctid)
      /\ held' = [held EXCEPT ![t] = {}]
      /\ Members(GroupOf[t]) = {t}
      /\ UNCHANGED <<phase, current, nextSeq, step>>
  BY Zenon DEF Execve, cancel
<1>5. \A u \in Threads : Alive(u) /\ GroupOf[u] = GroupOf[t] => u = t
  BY <1>4, Zenon DEF Members, Alive, Active
<1>6. \A u \in Threads : Alive(u) /\ u # t => Root(u)' = Root(u)
  BY <1>1, <1>3, <1>5, FutexConstants, Zenon DEF Root, TypeOK
<1>7. Root(t)' = r /\ \A u \in Threads : Alive(u)' <=> Alive(u)
  BY <1>1, <1>2, <1>3, <1>4, Zenon DEF Root, TypeOK, Alive, Active
<1>8. robust'[t] = None /\ ctid'[t] = None /\ \A u \in Threads \ {t} :
        robust'[u] = robust[u] /\ ctid'[u] = ctid[u]
  BY <1>4, Zenon DEF Without
<1>9. TypeOK'
  <2>1. rootOf' \in [Procs -> Roots \cup {None}] /\ mem' \in [Roots -> [Addrs -> Word]]
    BY <1>1, <1>3, PointsTyped, Zenon DEF TypeOK
  <2>2. robust' \in [Threads -> Roots \cup {None}] /\ ctid' \in [Threads -> Roots \cup {None}]
    BY <1>1, <1>4, Zenon DEF TypeOK, Without
  <2> QED BY <1>1, <1>4, <2>1, <2>2, Zenon DEF TypeOK
<1>10. QueuedAreBlocked'
  <2>1. \A e \in queue : e.owner \in Threads /\ e.owner # t /\ Alive(e.owner)
    BY <1>1, <1>2, Zenon DEF TypeOK, Waiter, QueuedAreBlocked, Alive
  <2>2. queue' = queue /\ \A e \in queue : Root(e.owner)' = Root(e.owner)
    BY <1>4, <1>6, <2>1, Zenon
  <2> QED BY <1>1, <1>4, <2>2 DEF QueuedAreBlocked
<1>11. RegistrationsCurrent'
  BY <1>1, <1>6, <1>7, <1>8, Zenon DEF RegistrationsCurrent
<1>12. Placed'
  BY <1>1, <1>3, <1>4, <1>6, <1>7, FutexConstants DEF Placed
<1>13. Addressed'
  BY <1>1, <1>4, Zenon DEF Addressed
<1> QED BY <1>9, <1>10, <1>11, <1>12, <1>13, Zenon DEF IInv

\* What the exits have in common: the threads G go, the owners of the entries
\* T are woken, and everybody else that lives keeps its image.
LEMMA RetireKeepsIInv ==
  ASSUME IInv, NEW t \in Threads, t = current,
         NEW G \in SUBSET Threads, t \in G, NEW T \in SUBSET queue,
         queue' = cancel(queue, G) \ T,
         Dispatch([u \in Threads |-> IF u \in G THEN "gone" ELSE Runnable(Woken(T))[u]]),
         mem' \in [Roots -> [Addrs -> Word]],
         robust' = Without(G, robust), ctid' = Without(G, ctid),
         rootOf' \in [Procs -> Roots \cup {None}],
         \A u \in Threads \ G : Alive(u) => Root(u)' = Root(u),
         UNCHANGED <<nextSeq, held, step>>
  PROVE  IInv'
<1> DEFINE ph == [u \in Threads |-> IF u \in G THEN "gone" ELSE Runnable(Woken(T))[u]]
<1>1. TypeOK /\ QueuedAreBlocked /\ RegistrationsCurrent /\ Placed /\ Addressed
  BY Zenon DEF IInv
<1>2. /\ Runnable(Woken(T)) \in [Threads -> Phases]
      /\ \A u \in Threads : u \in Woken(T) => phase[u] = "blocked"
      /\ \A u \in Threads : Runnable(Woken(T))[u] =
           IF u \in Woken(T) THEN "runnable" ELSE phase[u]
      /\ \A f \in queue : f.owner \in Woken(T) <=> f \in T
  BY WakesBlocked, Zenon
<1>3. ph \in [Threads -> Phases] /\ \A u \in Threads : ph[u] # "running"
  BY <1>1, <1>2 DEF Placed, Phases
<1>4. /\ phase' \in [Threads -> Phases] /\ current' \in Threads \cup {None}
      /\ \A u \in Threads : phase'[u] = "running" <=> u = current'
      /\ \A u \in Threads : phase'[u] = "blocked" <=> ph[u] = "blocked"
      /\ \A u \in Threads : phase'[u] \in {"running", "runnable"} <=> ph[u] = "runnable"
  BY <1>3, DispatchEffect, Zenon
<1>5. \A u \in Threads : phase'[u] = "blocked" <=> /\ u \notin G /\ u \notin Woken(T)
                                                   /\ phase[u] = "blocked"
  BY <1>2, <1>4
<1>6. \A u \in Threads : Alive(u)' => u \notin G /\ Alive(u)
  BY <1>2, <1>4 DEF Alive, Active
<1>7. \A u \in Threads \ G : Alive(u) => Alive(u)'
  <2>1. \A u \in Threads \ G : phase[u] # "running"
    BY <1>1, Zenon DEF Placed
  <2> QED BY <1>2, <1>4, <2>1 DEF Alive, Active
<1>8. \A u \in Threads : robust'[u] = (IF u \in G THEN None ELSE robust[u])
                        /\ ctid'[u] = (IF u \in G THEN None ELSE ctid[u])
  BY Zenon DEF Without
<1>9. queue' \subseteq queue /\ \A e \in queue : e \in queue' <=> e.owner \notin G /\ e \notin T
  BY Zenon DEF cancel
<1>10. TypeOK'
  <2>1. robust' \in [Threads -> Roots \cup {None}] /\ ctid' \in [Threads -> Roots \cup {None}]
    BY <1>1, Zenon DEF TypeOK, Without
  <2> QED BY <1>1, <1>4, <1>9, <2>1, Zenon DEF TypeOK
<1>11. QueuedAreBlocked'
  <2>1. \A e \in queue' : /\ e \in queue /\ e.owner \in Threads \ G /\ e.owner \notin Woken(T)
                          /\ phase[e.owner] = "blocked" /\ e.key[1] = Root(e.owner)
    BY <1>1, <1>2, <1>9 DEF TypeOK, Waiter, QueuedAreBlocked
  <2>2. \A e \in queue' : phase'[e.owner] = "blocked" /\ Root(e.owner)' = Root(e.owner)
    BY <1>5, <2>1, Zenon DEF Alive
  <2>3. \A u \in Threads : phase'[u] = "blocked" => \E e \in queue' : e.owner = u
    BY <1>1, <1>2, <1>5, <1>9 DEF QueuedAreBlocked
  <2> QED BY <1>1, <2>1, <2>2, <2>3 DEF QueuedAreBlocked
<1>12. RegistrationsCurrent'
  BY <1>1, <1>7, <1>8, Zenon DEF RegistrationsCurrent
<1>13. Placed'
  <2>1. \A u \in Threads : Alive(u)' => Root(u)' # None
    <3>1. \A u \in Threads : Alive(u) => Root(u) # None
      BY <1>1, Zenon DEF Placed
    <3> QED BY <1>6, <3>1, Zenon
  <2>2. \A e \in queue' : e.seq < nextSeq'
    BY <1>1, <1>9, Zenon DEF Placed
  <2> QED BY <1>4, <2>1, <2>2, Zenon DEF Placed
<1>14. Addressed'
  BY <1>1, Zenon DEF Addressed
<1> QED BY <1>10, <1>11, <1>12, <1>13, <1>14, Zenon DEF IInv

\* The words after a death are words.
LEMMA BereavedTyped ==
  ASSUME TypeOK, NEW r \in Roots, NEW G
  PROVE  [mem EXCEPT ![r] = Bereaved(r, G)] \in [Roots -> [Addrs -> Word]]
<1>1. \A a \in Addrs : mem[r][a] \in Word
  BY Zenon DEF TypeOK
<1>2. \A w \in Word : OwnerDied(w) \in Word
  BY Zenon DEF OwnerDied, Word
<1>3. Bereaved(r, G) \in [Addrs -> Word]
  BY <1>1, <1>2, PointsTyped, Zenon DEF Bereaved
<1> QED BY <1>3, Zenon DEF TypeOK

\* The exit of one thread.
LEMMA ThreadExitKeepsIInv ==
  ASSUME IInv, NEW t \in Threads, t = current, ThreadExit(t)
  PROVE  IInv'
<1> DEFINE q == cancel(queue, {t})
           T == {e \in q : \E a \in DeathWakes(t) : e \in Taken(q, <<Root(t), a>>, 1)}
<1>1. TypeOK /\ Root(t) \in Roots /\ GroupOf[t] \in Procs
  BY Runner, Zenon DEF IInv
<1>2. T \in SUBSET queue
  BY Zenon DEF cancel
<1>3. /\ queue' = cancel(queue, {t}) \ T
      /\ Dispatch([u \in Threads |-> IF u = t THEN "gone" ELSE Runnable(Woken(T))[u]])
      /\ mem' = [mem EXCEPT ![Root(t)] = Bereaved(Root(t), {t})]
      /\ robust' = Without({t}, robust) /\ ctid' = Without({t}, ctid)
      /\ rootOf' = [rootOf EXCEPT ![GroupOf[t]] = IF t = LeaderOf[GroupOf[t]] THEN None ELSE @]
      /\ t = LeaderOf[GroupOf[t]] => Members(GroupOf[t]) = {t}
      /\ UNCHANGED <<nextSeq, held, step>>
  BY Zenon DEF ThreadExit
<1> HIDE DEF q, T
<1>4. [u \in Threads |-> IF u = t THEN "gone" ELSE Runnable(Woken(T))[u]]
      = [u \in Threads |-> IF u \in {t} THEN "gone" ELSE Runnable(Woken(T))[u]]
  BY Zenon
<1>5. mem' \in [Roots -> [Addrs -> Word]]
  BY <1>1, <1>3, BereavedTyped, Zenon
<1>6. rootOf' \in [Procs -> Roots \cup {None}]
  BY <1>1, <1>3, Zenon DEF TypeOK
<1>7. \A u \in Threads \ {t} : Alive(u) => Root(u)' = Root(u)
  BY <1>1, <1>3, FutexConstants, Zenon DEF TypeOK, Root, Members, Alive, Active
<1>8. Dispatch([u \in Threads |-> IF u \in {t} THEN "gone" ELSE Runnable(Woken(T))[u]])
  BY <1>3, <1>4, Zenon
<1>9. {t} \in SUBSET Threads /\ t \in {t}
  BY Zenon
<1> DEFINE G == {t}
<1>10. /\ G \in SUBSET Threads /\ t \in G /\ queue' = cancel(queue, G) \ T
       /\ Dispatch([u \in Threads |-> IF u \in G THEN "gone" ELSE Runnable(Woken(T))[u]])
       /\ robust' = Without(G, robust) /\ ctid' = Without(G, ctid)
       /\ \A u \in Threads \ G : Alive(u) => Root(u)' = Root(u)
  BY <1>3, <1>7, <1>8, <1>9, Zenon
<1> HIDE DEF G
<1> QED BY <1>2, <1>3, <1>5, <1>6, <1>10, RetireKeepsIInv, ZenonT(60)

\* The exit of a group: no member is left.
LEMMA ExitGroupKeepsIInv ==
  ASSUME IInv, NEW t \in Threads, t = current, ExitGroup(t)
  PROVE  IInv'
<1> DEFINE G == Members(GroupOf[t])
<1>1. TypeOK /\ Root(t) \in Roots /\ GroupOf[t] \in Procs /\ phase[t] = "running"
  BY Runner, Zenon DEF IInv
<1>2. /\ queue' = cancel(queue, G)
      /\ Dispatch([u \in Threads |-> IF u \in G THEN "gone" ELSE phase[u]])
      /\ mem' = [mem EXCEPT ![Root(t)] = Bereaved(Root(t), G)]
      /\ robust' = Without(G, robust) /\ ctid' = Without(G, ctid)
      /\ rootOf' = [rootOf EXCEPT ![GroupOf[t]] = None]
      /\ UNCHANGED <<nextSeq, held, step>>
  BY Zenon DEF ExitGroup
<1>3. G \in SUBSET Threads /\ t \in G
      /\ \A u \in Threads \ G : Alive(u) => GroupOf[u] # GroupOf[t]
  BY <1>1, Zenon DEF Members, Alive, Active
<1> HIDE DEF G
<1>4. queue' = cancel(queue, G) \ {} /\ {} \in SUBSET queue
  BY <1>2, Zenon
<1>5. \A u \in Threads : Runnable(Woken({}))[u] = phase[u]
  BY Zenon DEF Runnable, Woken
<1>6. [u \in Threads |-> IF u \in G THEN "gone" ELSE phase[u]]
      = [u \in Threads |-> IF u \in G THEN "gone" ELSE Runnable(Woken({}))[u]]
  BY <1>5, Zenon
<1>7. Dispatch([u \in Threads |-> IF u \in G THEN "gone" ELSE Runnable(Woken({}))[u]])
  BY <1>2, <1>6, Zenon
<1>8. mem' \in [Roots -> [Addrs -> Word]]
  BY <1>1, <1>2, BereavedTyped, Zenon
<1>9. rootOf' \in [Procs -> Roots \cup {None}]
  BY <1>1, <1>2, Zenon DEF TypeOK
<1>10. \A u \in Threads \ G : Alive(u) => Root(u)' = Root(u)
  BY <1>1, <1>2, <1>3, FutexConstants, Zenon DEF TypeOK, Root
<1> QED BY <1>2, <1>3, <1>4, <1>7, <1>8, <1>9, <1>10, RetireKeepsIInv, ZenonT(40)

\* A switch between runnable threads.
LEMMA SwitchKeepsIInv ==
  ASSUME IInv, NEW t \in Threads, t = current, NEW u \in Threads, Switch(t, u)
  PROVE  IInv'
<1>1. TypeOK /\ QueuedAreBlocked /\ RegistrationsCurrent /\ Placed /\ Addressed
  BY Zenon DEF IInv
<1>2. /\ phase[u] = "runnable" /\ phase[t] = "running" /\ current' = u
      /\ phase' = [phase EXCEPT ![t] = "runnable", ![u] = "running"]
      /\ UNCHANGED <<rootOf, mem, queue, nextSeq, robust, ctid, held, step>>
  BY Runner, Zenon DEF Switch, kernel
<1>3. TypeOK'
  BY <1>1, <1>2, Zenon DEF TypeOK, Phases
<1>4. \A v \in Threads : phase'[v] = (IF v = u THEN "running" ELSE IF v = t THEN "runnable" ELSE phase[v])
  BY <1>1, <1>2, Zenon DEF TypeOK
<1>5. \A v \in Threads : /\ Alive(v)' <=> Alive(v)
                         /\ phase'[v] = "blocked" <=> phase[v] = "blocked"
  BY <1>2, <1>4, Zenon DEF Alive, Active
<1>6. QueuedAreBlocked'
  <2>1. \A e \in queue : e.owner \in Threads
    BY <1>1, Zenon DEF TypeOK, Waiter
  <2> QED BY <1>1, <1>2, <1>5, <2>1, Zenon DEF QueuedAreBlocked, Root
<1>7. RegistrationsCurrent'
  BY <1>1, <1>2, <1>5, Zenon DEF RegistrationsCurrent, Root
<1>8. Placed'
  BY <1>1, <1>2, <1>4, <1>5, Zenon DEF Placed, Root
<1>9. Addressed'
  BY <1>1, <1>2, Zenon DEF Addressed
<1> QED BY <1>3, <1>6, <1>7, <1>8, <1>9, Zenon DEF IInv

\* Every step keeps the invariant.
LEMMA NextIInv == IInv /\ [Next]_vars => IInv'
<1> SUFFICES ASSUME IInv, [Next]_vars PROVE IInv'
  BY Zenon
<1>1. CASE UNCHANGED vars
  BY <1>1, ZenonT(40) DEF vars, IInv, TypeOK, QueuedAreBlocked, RegistrationsCurrent, Placed,
     Addressed, Alive, Active, Root
<1>2. CASE Next
  <2> PICK t \in Threads : /\ t = current
                           /\ User(t) \/ System(t) \/ \E u \in Threads : Switch(t, u)
    BY <1>2, Zenon DEF Next
  <2>1. CASE User(t)
    BY <2>1, UserKeepsIInv, Zenon
  <2>2. CASE FutexWait(t) \/ FutexWaitRefused(t) \/ FutexWake(t)
    BY <2>2, FutexWaitKeepsIInv, RefusedKeepsIInv, FutexWakeKeepsIInv, Zenon
  <2>3. CASE set_robust_list(t) \/ Execve(t) \/ \E u \in Threads : Clone(t, u)
    BY <2>3, RegisterKeepsIInv, ExecveKeepsIInv, CloneKeepsIInv, Zenon
  <2>4. CASE ThreadExit(t) \/ ExitGroup(t)
    BY <2>4, ThreadExitKeepsIInv, ExitGroupKeepsIInv, Zenon
  <2>5. CASE \E u \in Threads : Switch(t, u)
    BY <2>5, SwitchKeepsIInv, Zenon
  <2> QED BY <2>1, <2>2, <2>3, <2>4, <2>5, Zenon DEF System
<1> QED BY <1>1, <1>2, Zenon

\* The invariant holds of every execution.
LEMMA Inductive == Spec => []IInv
BY InitIInv, NextIInv, PTL DEF Spec

\* Words, queue entries, registrations and program points keep their types;
\* in particular next_sequence never passes its bound.
THEOREM FutexTypeCorrect == Spec => []TypeOK
<1>1. IInv => TypeOK
  BY Zenon DEF IInv
<1> QED BY <1>1, Inductive, PTL

\* The wait queue is exactly the blocked threads, one entry each, in the
\* address space the thread has: wait, wake, clone, exec and both exits keep
\* linux_futex.rs and the scheduler in step.
THEOREM QueueExact == Spec => []QueuedAreBlocked
<1>1. IInv => QueuedAreBlocked
  BY Zenon DEF IInv
<1> QED BY <1>1, Inductive, PTL

\* What exit writes through is in the image the thread has when it exits.
THEOREM RegistrationsSound == Spec => []RegistrationsCurrent
<1>1. IInv => RegistrationsCurrent
  BY Zenon DEF IInv
<1> QED BY <1>1, Inductive, PTL

-----------------------------------------------------------------------------
(* Nobody is stranded.  A wait compares the word with what the thread saw  *)
(* when it set the waiters bit, so it is enough to follow who owns a word, *)
(* what a waiting thread saw and where a queued one continues.             *)

\* An address space belongs to one group.
Separate == \A p, q \in Procs : rootOf[p] = rootOf[q] /\ rootOf[p] # None => p = q

\* A mutex is used by threads that registered a robust list, and a thread that
\* is not born has done nothing.
Prepared ==
  \A t \in Threads :
    /\ Alive(t) /\ (held[t] # {} \/ step[t].a \in Locks) => robust[t] # None
    /\ phase[t] = "unborn" => held[t] = {} /\ step[t] = Idle

\* What a thread about to wait has seen: an owner and, in a mutex, the waiters
\* bit it set itself; only leaders wait for tid words.
Seen(t, s) ==
  s.do = "wait" => /\ s.exp.tid # None
                   /\ s.a \in Locks => s.exp.waiters
                   /\ s.a \in Threads => t = LeaderOf[GroupOf[t]]
Waiting == \A t \in Threads : Seen(t, step[t])

\* A tid word that is set is that of a live thread of the group, which clears it
\* when it exits.
TidWords ==
  \A p \in Procs, u \in Threads : rootOf[p] # None /\ mem[rootOf[p]][u].tid # None =>
    Alive(u) /\ GroupOf[u] = p /\ ctid[u] # None

\* A thread queued on a mutex continues as a contended one; one queued on a tid
\* word is the leader, and the word is still set.
Queued ==
  \A e \in queue :
    /\ e.key[2] \in Locks => step[e.owner] = At("lock", e.key[2], TRUE)
    /\ e.key[2] \in Threads => /\ e.owner = LeaderOf[GroupOf[e.owner]]
                               /\ mem[e.key[1]][e.key[2]].tid # None

\* Somebody will look after an entry queued on a mutex.
Cared(e) ==
  LET w == mem[e.key[1]][e.key[2]] IN
  \/ w.tid # None /\ w.waiters /\ w.tid \in Members(GroupOf[e.owner])
  \/ \E u \in Threads : /\ Active(u) /\ Root(u) = e.key[1] /\ step[u].a = e.key[2]
                        /\ step[u].do = "lock" => step[u].slow

Bookkeeping == Separate /\ Prepared /\ Waiting /\ TidWords /\ Queued
SInv == IInv /\ Bookkeeping /\ OwnersAlive /\ NobodyStranded

\* The queue holds what finitely many waits put there, so it is well ordered.
Ordered == \A S \in SUBSET queue : S # {} => \E e \in S : \A f \in S : e.seq <= f.seq

\* Nothing is in the empty set, not even for a definition that counts by recursion.
LEMMA EmptyCardinality == Cardinality({}) = 0
<1> DEFINE Count(c) == [T \in SUBSET {} |-> IF T = {} THEN 0 ELSE 1 + c[T \ {CHOOSE x : x \in T}]]
           Zero == [T \in SUBSET {} |-> 0]
<1>1. Count(Zero) = Zero
  BY Zenon
<1>2. \A c : c = Count(c) => c[{}] = 0
  BY Zenon
<1>3. (CHOOSE c : c = Count(c))[{}] = 0
  BY <1>1, <1>2, Zenon
<1> QED BY <1>3, Zenon DEF Cardinality

\* Where the entries of the queue are.
LEMMA Entries ==
  ASSUME IInv
  PROVE  \A e \in queue :
           /\ e.owner \in Threads /\ phase[e.owner] = "blocked" /\ e.owner # current
           /\ e.key[1] = Root(e.owner) /\ e.key[1] \in Roots /\ e.key[2] \in Addrs
           /\ GroupOf[e.owner] \in Procs /\ e.seq \in Nat
<1> SUFFICES ASSUME NEW e \in queue
    PROVE /\ e.owner \in Threads /\ phase[e.owner] = "blocked" /\ e.owner # current
          /\ e.key[1] = Root(e.owner) /\ e.key[1] \in Roots /\ e.key[2] \in Addrs
          /\ GroupOf[e.owner] \in Procs /\ e.seq \in Nat
  BY Zenon
<1>1. e \in Waiter /\ phase[e.owner] = "blocked" /\ e.key[1] = Root(e.owner)
  BY Zenon DEF IInv, TypeOK, QueuedAreBlocked
<1>2. e.owner \in Threads /\ e.key[1] \in Roots /\ e.key[2] \in Addrs /\ e.seq \in Nat
  BY <1>1, FutexConstants DEF Waiter, Key
<1>3. e.owner # current
  BY <1>1, <1>2, Zenon DEF IInv, Placed
<1> QED BY <1>1, <1>2, <1>3, FutexConstants, Zenon

\* Live threads of one address space are of one group.
LEMMA SameGroup ==
  ASSUME IInv, Separate, NEW u \in Threads, NEW v \in Threads, Alive(u), Root(u) = Root(v)
  PROVE  GroupOf[u] = GroupOf[v]
BY FutexConstants DEF IInv, Placed, Separate, Root

\* A wake of a word with a queue takes the oldest entry of it.
LEMMA OldestIsTaken ==
  ASSUME IInv, Ordered, NEW e \in queue
  PROVE  \E f \in Taken(queue, e.key, 1) : f.key = e.key
<1> DEFINE S == {f \in queue : f.key = e.key}
<1>1. \A f \in queue : f.seq \in Nat
  BY Entries, Zenon
<1>2. PICK f \in S : \A g \in S : f.seq <= g.seq
  BY Zenon DEF Ordered
<1> DEFINE Before == {g \in queue : g.key = e.key /\ g.seq < f.seq /\ Wakeable(g.owner)}
<1>3. Before = {}
  BY <1>1, <1>2
<1> HIDE DEF Before
<1>4. Cardinality(Before) < 1
  BY <1>3, EmptyCardinality
<1> USE DEF Before
<1>5. f \in queue /\ f.key = e.key
  BY <1>2, Zenon
<1> HIDE DEF S
<1>6. f \in Taken(queue, e.key, 1)
  BY <1>4, <1>5, Zenon DEF Taken
<1> QED BY <1>5, <1>6, Zenon

\* A wait appends one entry and everything else only removes entries.
LEMMA NextOrdered == IInv /\ IInv' /\ Ordered /\ [Next]_vars => Ordered'
<1> SUFFICES ASSUME IInv, IInv', Ordered, [Next]_vars PROVE Ordered'
  BY Zenon
<1>1. \/ queue' \in SUBSET queue
      \/ \E w : queue' = queue \cup {w}
  <2>1. CASE UNCHANGED vars
    BY <2>1, Zenon DEF vars, kernel
  <2>2. ASSUME NEW t \in Threads, User(t) PROVE queue' = queue
    BY <2>2, Zenon DEF User, UserLock, UserUnlock, UserAcquire, UserContend, UserJoin
  <2>3. ASSUME NEW t \in Threads, NEW u \in Threads, Switch(t, u) \/ Clone(t, u)
        PROVE queue' = queue
    BY <2>3, Zenon DEF Switch, Clone, kernel
  <2>4. ASSUME NEW t \in Threads,
               FutexWake(t) \/ Execve(t) \/ ThreadExit(t) \/ ExitGroup(t)
        PROVE queue' \in SUBSET queue
    BY <2>4, Zenon DEF FutexWake, Execve, ThreadExit, ExitGroup, cancel
  <2>5. ASSUME NEW t \in Threads, FutexWaitRefused(t) \/ set_robust_list(t)
        PROVE queue' = queue
    BY <2>5, Zenon DEF FutexWaitRefused, set_robust_list, kernel
  <2>6. ASSUME NEW t \in Threads, FutexWait(t) PROVE \E w : queue' = queue \cup {w}
    BY <2>6, Zenon DEF FutexWait
  <2>7. CASE Next
    BY <2>2, <2>3, <2>4, <2>5, <2>6, <2>7, Zenon DEF Next, System
  <2> QED BY <2>1, <2>7, Zenon
<1>2. CASE queue' \in SUBSET queue
  BY <1>2, Zenon DEF Ordered
<1>3. ASSUME NEW w, queue' = queue \cup {w} PROVE Ordered'
  <2> SUFFICES ASSUME NEW S \in SUBSET queue', S # {}
               PROVE  \E e \in S : \A f \in S : e.seq <= f.seq
    BY Zenon DEF Ordered
  <2>1. w.seq \in Nat /\ \A f \in queue : f.seq \in Nat
    BY <1>3, Entries DEF IInv, TypeOK, Waiter
  <2>2. CASE S \ {w} = {}
    BY <2>1, <2>2
  <2>3. CASE S \ {w} # {}
    <3>1. PICK e \in S \ {w} : \A f \in S \ {w} : e.seq <= f.seq
      BY <1>3, <2>3, Zenon DEF Ordered
    <3>2. CASE e.seq <= w.seq
      BY <3>1, <3>2, Zenon
    <3>3. CASE w.seq <= e.seq
      BY <1>3, <2>1, <3>1, <3>3
    <3> QED BY <1>3, <2>1, <3>1, <3>2, <3>3
  <2> QED BY <2>2, <2>3, Zenon
<1> QED BY <1>1, <1>2, <1>3, Zenon

\* Init establishes it.
LEMMA InitSInv == Init => SInv
<1> SUFFICES ASSUME Init PROVE SInv
  BY Zenon
<1>1. IInv
  BY InitIInv, Zenon
<1>2. Separate /\ Waiting /\ Queued /\ NobodyStranded
  BY Zenon DEF Init, Separate, Waiting, Seen, Queued, NobodyStranded, Idle, At
<1>3. Prepared
  BY FutexConstants, Zenon DEF Init, Prepared, Idle, At, Addrs
<1>4. TidWords /\ OwnersAlive
  BY FutexConstants, Zenon DEF Init, TidWords, OwnersAlive, Free, Addrs
<1> QED BY <1>1, <1>2, <1>3, <1>4, Zenon DEF SInv, Bookkeeping

\* A step that changes neither words nor the queue: the thread may move on,
\* but not away from a mutex it is expected to look after.
LEMMA QuietKeepsSInv ==
  ASSUME SInv, IInv', NEW t \in Threads, t = current,
         UNCHANGED <<rootOf, mem, queue, held, ctid>>,
         \A u \in Threads : robust[u] # None => robust'[u] # None,
         \A u \in Threads : /\ Active(u)' <=> Active(u)
                            /\ phase'[u] = "blocked" <=> phase[u] = "blocked"
                            /\ phase'[u] = "unborn" <=> phase[u] = "unborn",
         NEW s \in Point, step' = [step EXCEPT ![t] = s],
         s.a \in Locks => robust[t] # None, Seen(t, s),
         step[t].a \in Locks => /\ s.a = step[t].a
                                /\ s.do = "lock" => s.slow \/ (step[t].do = "lock" /\ ~step[t].slow)
  PROVE  SInv'
<1>1. TypeOK /\ Separate /\ Prepared /\ Waiting /\ TidWords /\ Queued /\ OwnersAlive /\ NobodyStranded
  BY Zenon DEF SInv, Bookkeeping, IInv
<1>2. phase[t] = "running"
  BY Runner, Zenon DEF SInv
<1>3. \A u \in Threads : step'[u] = IF u = t THEN s ELSE step[u]
  BY <1>1, Zenon DEF TypeOK
<1>4. \A u \in Threads : (Alive(u)' <=> Alive(u)) /\ Root(u)' = Root(u)
  BY Zenon DEF Alive, Root
<1>5. \A p \in Procs : Members(p)' = Members(p)
  BY <1>4, Zenon DEF Members, Alive, Active
<1>6. \A e \in queue : e.owner \in Threads /\ e.owner # t /\ GroupOf[e.owner] \in Procs
  BY Entries, Zenon DEF SInv
<1>7. Separate' /\ TidWords'
  BY <1>1, <1>4, ZenonT(40) DEF Separate, TidWords
<1>8. Prepared'
  BY <1>1, <1>2, <1>3, <1>4 DEF Prepared
<1>9. Waiting'
  BY <1>1, <1>3 DEF Waiting, Seen
<1>10. Queued'
  <2>1. \A e \in queue : step'[e.owner] = step[e.owner]
    BY <1>3, <1>6, Zenon
  <2> QED BY <1>1, <2>1, Zenon DEF Queued
<1>11. OwnersAlive'
  BY <1>1, <1>5, Zenon DEF OwnersAlive
<1>12. NobodyStranded'
  <2> SUFFICES ASSUME NEW e \in queue
               PROVE  /\ e.key[2] \in Threads => Alive(e.key[2])'
                      /\ e.key[2] \in Locks => Cared(e)'
    BY Zenon DEF NobodyStranded, Cared
  <2>1. e.key[2] \in Threads => Alive(e.key[2])'
    BY <1>1, <1>4, Zenon DEF NobodyStranded
  <2>2. ASSUME e.key[2] \in Locks PROVE Cared(e)'
    <3>1. Cared(e)
      BY <1>1, <2>2, Zenon DEF NobodyStranded, Cared
    <3>2. CASE \E u \in Threads : /\ Active(u) /\ Root(u) = e.key[1] /\ step[u].a = e.key[2]
                                  /\ step[u].do = "lock" => step[u].slow
      <4> PICK u \in Threads : /\ Active(u) /\ Root(u) = e.key[1] /\ step[u].a = e.key[2]
                               /\ step[u].do = "lock" => step[u].slow
        BY <3>2, Zenon
      <4>1. Active(u)' /\ Root(u)' = e.key[1] /\ step'[u].a = e.key[2]
            /\ (step'[u].do = "lock" => step'[u].slow)
        BY <1>3, <1>4, <2>2
      <4> QED BY <4>1, Zenon DEF Cared
    <3> QED BY <1>5, <1>6, <3>1, <3>2, Zenon DEF Cared
  <2> QED BY <2>1, <2>2, Zenon
<1> QED BY <1>7, <1>8, <1>9, <1>10, <1>11, <1>12, Zenon DEF SInv, Bookkeeping

\* The steps that move a thread without touching words or queue.
LEMMA MovesKeepSInv ==
  ASSUME SInv, IInv', NEW t \in Threads, t = current,
         \/ \E a \in Locks : UserLock(t, a)
         \/ \E u \in Threads : UserJoin(t, u)
         \/ FutexWaitRefused(t) \/ set_robust_list(t)
         \/ \E u \in Threads : Switch(t, u)
  PROVE  SInv'
<1>1. TypeOK /\ Addressed /\ Prepared /\ Waiting /\ phase[t] = "running" /\ Root(t) \in Roots
  BY Runner, Zenon DEF SInv, Bookkeeping, IInv
<1>2. step[t] \in Point /\ Idle \in Point /\ Idle.a = None /\ Idle.do = "idle" /\ Idle.a \notin Locks
  BY <1>1, PointsTyped, FutexConstants, Zenon DEF TypeOK, Idle, At, Addrs
<1>3. Locks \subseteq Addrs /\ Threads \subseteq Addrs
  BY Zenon DEF Addrs
<1>4. CASE \E a \in Locks : UserLock(t, a)
  <2> PICK a \in Locks : UserLock(t, a)
    BY <1>4, Zenon
  <2> DEFINE s == At("lock", a, FALSE)
  <2>1. s \in Point /\ s.do = "lock" /\ s.a = a
    BY <1>3, PointsTyped, Zenon DEF At
  <2>2. step' = [step EXCEPT ![t] = s] /\ step[t] = Idle /\ robust[t] # None
        /\ UNCHANGED <<phase, current, rootOf, mem, queue, nextSeq, robust, ctid, held>>
    BY Zenon DEF UserLock, Goto
  <2> HIDE DEF s
  <2>3. Seen(t, s)
    BY <2>1, Zenon DEF Seen
  <2> QED BY <1>2, <2>1, <2>2, <2>3, QuietKeepsSInv, Zenon DEF Active
<1>5. CASE \E u \in Threads : UserJoin(t, u)
  <2> PICK u \in Threads : UserJoin(t, u)
    BY <1>5, Zenon
  <2> DEFINE s == WaitFor(u, FALSE, mem[Root(t)][u])
  <2>1. mem[Root(t)][u] \in Word /\ mem[Root(t)][u].tid # None
    BY <1>1, <1>3, Zenon DEF UserJoin, TypeOK
  <2>2. s \in Point /\ s.do = "wait" /\ s.a = u /\ s.exp = mem[Root(t)][u]
    BY <1>3, <2>1, PointsTyped, Zenon DEF WaitFor
  <2>3. step' = [step EXCEPT ![t] = s] /\ step[t] = Idle /\ t = LeaderOf[GroupOf[t]]
        /\ UNCHANGED <<phase, current, rootOf, mem, queue, nextSeq, robust, ctid, held>>
    BY Zenon DEF UserJoin, Goto
  <2> HIDE DEF s
  <2>4. Seen(t, s) /\ s.a \notin Locks
    BY <2>1, <2>2, <2>3, FutexConstants, Zenon DEF Seen
  <2> QED BY <1>2, <2>2, <2>3, <2>4, QuietKeepsSInv, Zenon DEF Active
<1>6. CASE FutexWaitRefused(t)
  <2> DEFINE s == Retry(t)
  <2>1. s \in Point
    BY <1>2, <1>3, PointsTyped, Zenon DEF Retry, Idle
  <2>1a. s.do # "wait" /\ (step[t].a \in Locks => s.a = step[t].a /\ s.slow)
         /\ (step[t].a \notin Locks => s.a = None)
    BY Zenon DEF Retry, At, Idle
  <2>2. step' = [step EXCEPT ![t] = s]
        /\ UNCHANGED <<phase, current, rootOf, mem, queue, nextSeq, robust, ctid, held>>
    BY <1>6, Zenon DEF FutexWaitRefused, Goto, kernel
  <2> HIDE DEF s
  <2>3. Seen(t, s) /\ (s.a \in Locks => robust[t] # None)
    BY <1>1, <2>1a, FutexConstants, Zenon DEF Seen, Prepared, Alive, Active, Addrs
  <2> QED BY <2>1, <2>1a, <2>2, <2>3, QuietKeepsSInv, Zenon DEF Active
<1>7. CASE set_robust_list(t)
  <2>1. step' = [step EXCEPT ![t] = step[t]] /\ step[t] = Idle
        /\ UNCHANGED <<phase, current, rootOf, mem, queue, nextSeq, ctid, held>>
        /\ robust' = [robust EXCEPT ![t] = Root(t)]
    BY <1>1, <1>7, Zenon DEF set_robust_list, TypeOK
  <2>2. \A u \in Threads : robust[u] # None => robust'[u] # None
    BY <1>1, <2>1, FutexConstants, Zenon DEF TypeOK
  <2>3. Seen(t, step[t])
    BY <1>1, Zenon DEF Waiting
  <2> QED BY <1>2, <2>1, <2>2, <2>3, QuietKeepsSInv, Zenon DEF Active
<1>8. CASE \E u \in Threads : Switch(t, u)
  <2> PICK u \in Threads : Switch(t, u)
    BY <1>8, Zenon
  <2>1. step' = [step EXCEPT ![t] = step[t]]
        /\ UNCHANGED <<rootOf, mem, queue, nextSeq, robust, ctid, held>>
        /\ phase[u] = "runnable" /\ phase' = [phase EXCEPT ![t] = "runnable", ![u] = "running"]
    BY <1>1, Zenon DEF Switch, TypeOK, kernel
  <2>2. \A v \in Threads : phase'[v] = (IF v = u THEN "running" ELSE IF v = t THEN "runnable" ELSE phase[v])
    BY <1>1, <2>1, Zenon DEF TypeOK
  <2>3. \A v \in Threads : /\ Active(v)' <=> Active(v)
                           /\ phase'[v] = "blocked" <=> phase[v] = "blocked"
                           /\ phase'[v] = "unborn" <=> phase[v] = "unborn"
    BY <1>1, <2>1, <2>2, Zenon DEF Active
  <2>4. Seen(t, step[t]) /\ (step[t].a \in Locks => robust[t] # None)
    BY <1>1, Zenon DEF Waiting, Prepared, Alive, Active
  <2> QED BY <1>2, <2>1, <2>3, <2>4, QuietKeepsSInv, Zenon
<1> QED BY <1>4, <1>5, <1>6, <1>7, <1>8, Zenon

\* A step of t that writes w to the mutex a, goes to s and leaves the list h: the
\* owner must have the mutex in its list, and whoever is queued on it must still
\* be looked after.
Rewrites(t, a, w, s, h) ==
  /\ UNCHANGED <<phase, current, rootOf, queue, nextSeq, robust, ctid>>
  /\ mem' = [mem EXCEPT ![Root(t)][a] = w]
  /\ step' = [step EXCEPT ![t] = s] /\ Seen(t, s)
  /\ held' = [held EXCEPT ![t] = h]
  /\ robust[t] # None
  /\ step[t].a \in Locks => step[t].a = a
  /\ \A b \in Locks \ {a} : b \in held[t] => b \in h
  /\ w.tid = t => a \in h
  /\ w.tid \notin {None, t} => w.tid = mem[Root(t)][a].tid
  /\ \A e \in queue : e.key[1] = Root(t) /\ e.key[2] = a =>
       \/ w.tid # None /\ w.waiters /\ w.tid \in Members(GroupOf[t])
       \/ s.a = a /\ s.do # "lock"
       \/ \E u \in Threads \ {t} : /\ Active(u) /\ Root(u) = Root(t) /\ step[u].a = a
                                   /\ step[u].do = "lock" => step[u].slow

\* Such a step keeps the invariant.
LEMMA StoreKeepsSInv ==
  ASSUME SInv, IInv', NEW t \in Threads, t = current, NEW a \in Locks, NEW w \in Word,
         NEW s \in Point, NEW h \in SUBSET Locks, Rewrites(t, a, w, s, h)
  PROVE  SInv'
<1> USE DEF Rewrites
<1>1. TypeOK /\ Separate /\ Prepared /\ Waiting /\ TidWords /\ Queued /\ OwnersAlive /\ NobodyStranded
  BY Zenon DEF SInv, Bookkeeping, IInv
<1>2. phase[t] = "running" /\ Root(t) \in Roots /\ GroupOf[t] \in Procs /\ IInv
  BY Runner, Zenon DEF SInv
<1>3. \A u \in Threads : step'[u] = IF u = t THEN s ELSE step[u]
  BY <1>1, Zenon DEF TypeOK
<1>4. \A u \in Threads : held'[u] = IF u = t THEN h ELSE held[u]
  BY <1>1, Zenon DEF TypeOK
<1>5. a \in Addrs /\ \A r \in Roots, b \in Addrs : mem'[r][b] = IF r = Root(t) /\ b = a THEN w ELSE mem[r][b]
  BY <1>1, <1>2, Zenon DEF TypeOK, Addrs
<1>6. \A u \in Threads : (Alive(u)' <=> Alive(u)) /\ (Active(u)' <=> Active(u)) /\ Root(u)' = Root(u)
  BY Zenon DEF Alive, Active, Root
<1>7. \A p \in Procs : Members(p)' = Members(p)
  BY Zenon DEF Members
<1>8. \A e \in queue : /\ e.owner \in Threads /\ e.owner # t /\ GroupOf[e.owner] \in Procs
                       /\ phase[e.owner] = "blocked" /\ e.key[1] = Root(e.owner)
                       /\ e.key[1] \in Roots /\ e.key[2] \in Addrs
  BY <1>2, Entries, Zenon
<1>9. Separate'
  BY <1>1, Zenon DEF Separate
<1>10. Prepared'
  BY <1>1, <1>2, <1>3, <1>4, <1>6 DEF Prepared
<1>11. Waiting'
  BY <1>1, <1>3 DEF Waiting, Seen
<1>12. a \notin Threads
  BY FutexConstants, Zenon
<1>13. TidWords'
  <2>1. \A p \in Procs, u \in Threads : rootOf[p] # None => mem'[rootOf[p]][u] = mem[rootOf[p]][u]
    BY <1>1, <1>5, <1>12 DEF TypeOK, Addrs
  <2> QED BY <1>1, <1>6, <2>1 DEF TidWords
<1>14. Queued'
  <2>1. \A e \in queue : step'[e.owner] = step[e.owner]
    BY <1>3, <1>8, Zenon
  <2>2. \A e \in queue : e.key[2] \in Threads =>
          mem'[e.key[1]][e.key[2]] = mem[e.key[1]][e.key[2]]
    BY <1>5, <1>8, <1>12
  <2> QED BY <1>1, <2>1, <2>2, Zenon DEF Queued
<1>15. OwnersAlive'
  <2> SUFFICES ASSUME NEW p \in Procs, rootOf[p] # None, NEW b \in Locks,
                      mem'[rootOf[p]][b].tid # None
               PROVE  /\ mem'[rootOf[p]][b].tid \in Members(p)
                      /\ b \in held'[mem'[rootOf[p]][b].tid]
    BY <1>7, Zenon DEF OwnersAlive
  <2>1. rootOf[p] \in Roots /\ b \in Addrs
    BY <1>1, Zenon DEF TypeOK, Addrs
  <2>2. mem[rootOf[p]][b].tid # None =>
          mem[rootOf[p]][b].tid \in Members(p) /\ b \in held[mem[rootOf[p]][b].tid]
    BY <1>1, Zenon DEF OwnersAlive
  <2>3. CASE rootOf[p] = Root(t)
    <3>1. p = GroupOf[t] /\ t \in Members(p)
      BY <1>1, <1>2, <2>3, Zenon DEF Separate, Root, Members
    <3>2. CASE b = a
      <4>1. mem'[rootOf[p]][b] = w
        BY <1>5, <2>1, <2>3, <3>2
      <4>2. CASE w.tid = t
        BY <1>4, <3>1, <3>2, <4>1, <4>2
      <4>3. CASE w.tid # t
        BY <1>4, <2>2, <2>3, <3>2, <4>1, <4>3, SMTT(30) DEF Members
      <4> QED BY <4>2, <4>3, Zenon
    <3>3. CASE b # a
      <4>1. mem'[rootOf[p]][b] = mem[rootOf[p]][b]
        BY <1>5, <2>1, <3>3
      <4> QED BY <1>4, <2>2, <3>3, <4>1 DEF Members
    <3> QED BY <3>2, <3>3, Zenon
  <2>4. CASE rootOf[p] # Root(t)
    <3>1. mem'[rootOf[p]][b] = mem[rootOf[p]][b] /\ p # GroupOf[t]
      BY <1>5, <2>1, <2>4 DEF Root
    <3> QED BY <1>4, <2>2, <3>1, Zenon DEF Members
  <2> QED BY <2>3, <2>4, Zenon
<1>16. NobodyStranded'
  <2> SUFFICES ASSUME NEW e \in queue
               PROVE  /\ e.key[2] \in Threads => Alive(e.key[2])'
                      /\ e.key[2] \in Locks => Cared(e)'
    BY Zenon DEF NobodyStranded, Cared
  <2>1. e.key[2] \in Threads => Alive(e.key[2])'
    BY <1>1, <1>6, Zenon DEF NobodyStranded
  <2>2. ASSUME e.key[2] \in Locks PROVE Cared(e)'
    <3>1. Cared(e)
      BY <1>1, <2>2, Zenon DEF NobodyStranded, Cared
    <3>2. CASE e.key[1] = Root(t) /\ e.key[2] = a
      <4>1. GroupOf[e.owner] = GroupOf[t] /\ mem'[e.key[1]][e.key[2]] = w
        BY <1>1, <1>2, <1>5, <1>8, <3>2, SameGroup DEF Alive
      <4>2. CASE w.tid # None /\ w.waiters /\ w.tid \in Members(GroupOf[t])
        BY <1>2, <1>7, <4>1, <4>2, Zenon DEF Cared
      <4>3. CASE s.a = a /\ s.do # "lock"
        BY <1>2, <1>3, <1>6, <3>2, <4>3 DEF Cared, Active
      <4>4. ASSUME NEW u \in Threads \ {t}, Active(u), Root(u) = Root(t), step[u].a = a,
                   step[u].do = "lock" => step[u].slow
            PROVE Cared(e)'
        BY <1>3, <1>6, <3>2, <4>4 DEF Cared
      <4> QED BY <3>2, <4>2, <4>3, <4>4, Zenon
    <3>3. CASE ~(e.key[1] = Root(t) /\ e.key[2] = a)
      <4>1. mem'[e.key[1]][e.key[2]] = mem[e.key[1]][e.key[2]]
        BY <1>5, <1>8, <3>3, SMTT(30)
      <4>2. ASSUME NEW u \in Threads, Active(u), Root(u) = e.key[1], step[u].a = e.key[2],
                   step[u].do = "lock" => step[u].slow
            PROVE Cared(e)'
        <5>1. u # t
          BY <2>2, <3>3, <4>2, Zenon
        <5> QED BY <1>3, <1>6, <4>2, <5>1 DEF Cared
      <4> QED BY <1>7, <1>8, <3>1, <4>1, <4>2, Zenon DEF Cared
    <3> QED BY <3>2, <3>3, Zenon
  <2> QED BY <2>1, <2>2, Zenon
<1> QED BY <1>9, <1>10, <1>11, <1>13, <1>14, <1>15, <1>16, Zenon DEF SInv, Bookkeeping

\* Taking, contending for and releasing a mutex.
LEMMA MutexKeepsSInv ==
  ASSUME SInv, IInv', NEW t \in Threads, t = current,
         UserAcquire(t) \/ UserContend(t) \/ \E a \in Locks : UserUnlock(t, a)
  PROVE  SInv'
<1>1. TypeOK /\ Addressed /\ Separate /\ Prepared /\ Waiting /\ OwnersAlive /\ NobodyStranded
  BY Zenon DEF SInv, Bookkeeping, IInv
<1>2. phase[t] = "running" /\ Root(t) \in Roots /\ GroupOf[t] \in Procs /\ IInv
  BY Runner, Zenon DEF SInv
<1>3. Locks \subseteq Addrs /\ step[t] \in Point /\ held[t] \in SUBSET Locks
  BY <1>1, Zenon DEF Addrs, TypeOK
<1>4. Idle \in Point /\ Idle.do = "idle" /\ Idle.a \notin Locks /\ Free \in Word
  BY PointsTyped, FutexConstants, Zenon DEF Idle, At, Addrs
<1>5. \A e \in queue : e.key[1] = Root(t) /\ e.key[2] \in Locks =>
        Cared(e) /\ GroupOf[e.owner] = GroupOf[t]
  <2> TAKE e \in queue
  <2> HAVE e.key[1] = Root(t) /\ e.key[2] \in Locks
  <2>1. e.owner \in Threads /\ phase[e.owner] = "blocked" /\ e.key[1] = Root(e.owner)
    BY <1>2, Entries, Zenon
  <2>2. GroupOf[e.owner] = GroupOf[t]
    BY <1>1, <1>2, <2>1, SameGroup, Zenon DEF Alive
  <2> QED BY <1>1, <2>2, Zenon DEF NobodyStranded, Cared
<1>6. t \in Members(GroupOf[t]) /\ Alive(t)
  BY <1>2, Zenon DEF Members, Alive, Active
<1>7. CASE UserAcquire(t)
  <2> DEFINE a == step[t].a
             w == [tid |-> t, waiters |-> step[t].slow \/ WordAt(t).waiters, died |-> FALSE]
             h == held[t] \cup {a}
  <2>1. a \in Locks /\ w \in Word /\ w.tid = t /\ h \in SUBSET Locks
    BY <1>1, <1>3, <1>7, Zenon DEF UserAcquire, Addressed, HasAddress, Word
  <2>2. /\ mem' = [mem EXCEPT ![Root(t)][a] = w] /\ step' = [step EXCEPT ![t] = Idle]
        /\ held' = [held EXCEPT ![t] = h] /\ mem[Root(t)][a].tid = None /\ step[t].do = "lock"
        /\ UNCHANGED <<phase, current, rootOf, queue, nextSeq, robust, ctid>>
    BY <1>7, Zenon DEF UserAcquire, Store, Goto, WordAt
  <2>3. robust[t] # None /\ Seen(t, Idle)
    BY <1>1, <1>4, <1>6, <2>1, Zenon DEF Prepared, Seen
  <2>4. \A e \in queue : e.key[1] = Root(t) /\ e.key[2] = a =>
           \/ w.tid # None /\ w.waiters /\ w.tid \in Members(GroupOf[t])
           \/ \E u \in Threads \ {t} : /\ Active(u) /\ Root(u) = Root(t) /\ step[u].a = a
                                       /\ step[u].do = "lock" => step[u].slow
    <3> TAKE e \in queue
    <3> HAVE e.key[1] = Root(t) /\ e.key[2] = a
    <3>1. PICK u \in Threads : /\ Active(u) /\ Root(u) = e.key[1] /\ step[u].a = e.key[2]
                               /\ step[u].do = "lock" => step[u].slow
      BY <1>5, <2>1, <2>2, Zenon DEF Cared
    <3>2. CASE u = t
      BY <1>6, <2>2, <3>1, <3>2, FutexConstants, Zenon
    <3> QED BY <3>1, <3>2, Zenon
  <2> HIDE DEF a, w, h
  <2>5. \A b \in Locks \ {a} : b \in held[t] => b \in h
    BY Zenon DEF h
  <2>6. a \in h /\ step[t].a = a
    BY Zenon DEF h, a
  <2>7. Rewrites(t, a, w, Idle, h)
    BY <2>1, <2>2, <2>3, <2>4, <2>5, <2>6, Zenon DEF Rewrites
  <2> QED BY <1>4, <2>1, <2>7, StoreKeepsSInv, Zenon
<1>8. CASE UserContend(t)
  <2> DEFINE a == step[t].a
             w == [WordAt(t) EXCEPT !.waiters = TRUE]
             s == WaitFor(a, TRUE, w)
  <2>1. a \in Locks /\ WordAt(t) = mem[Root(t)][a] /\ WordAt(t) \in Word
    BY <1>1, <1>2, <1>3, <1>8, Zenon DEF UserContend, Addressed, HasAddress, WordAt, TypeOK
  <2>2. w \in Word /\ w.tid = mem[Root(t)][a].tid /\ w.waiters /\ w.tid # None
    BY <1>8, <2>1, Zenon DEF UserContend, Word
  <2>3. /\ mem' = [mem EXCEPT ![Root(t)][a] = w] /\ step' = [step EXCEPT ![t] = s]
        /\ held' = [held EXCEPT ![t] = held[t]]
        /\ UNCHANGED <<phase, current, rootOf, queue, nextSeq, robust, ctid>>
    BY <1>1, <1>8, Zenon DEF UserContend, Store, Goto, TypeOK
  <2> HIDE DEF w
  <2>4. s \in Point /\ s.do = "wait" /\ s.a = a /\ s.exp = w
    BY <1>3, <2>1, <2>2, PointsTyped, Zenon DEF WaitFor
  <2>5. robust[t] # None
    BY <1>1, <1>6, <2>1, Zenon DEF Prepared
  <2>6. step[t].a = a
    BY Zenon
  <2> HIDE DEF s, a
  <2>7. Seen(t, s)
    BY <2>1, <2>2, <2>4, FutexConstants, Zenon DEF Seen
  <2>8. w.tid = t => a \in held[t]
    <3>1. rootOf[GroupOf[t]] = Root(t) /\ Root(t) # None
      BY <1>2, FutexConstants, Zenon DEF Root
    <3>2. mem[Root(t)][a].tid # None => a \in held[mem[Root(t)][a].tid]
      BY <1>1, <1>2, <2>1, <3>1, Zenon DEF OwnersAlive
    <3> QED BY <2>2, <3>2, Zenon
  <2>9. Rewrites(t, a, w, s, held[t])
    BY <2>2, <2>3, <2>4, <2>5, <2>6, <2>7, <2>8, Zenon DEF Rewrites
  <2> QED BY <1>3, <2>1, <2>2, <2>4, <2>9, StoreKeepsSInv, Zenon
<1>9. CASE \E a \in Locks : UserUnlock(t, a)
  <2> PICK a \in Locks : UserUnlock(t, a)
    BY <1>9, Zenon
  <2> DEFINE s == IF mem[Root(t)][a].waiters THEN At("wake", a, FALSE) ELSE Idle
             h == held[t] \ {a}
  <2>1. /\ mem' = [mem EXCEPT ![Root(t)][a] = Free] /\ step' = [step EXCEPT ![t] = s]
        /\ held' = [held EXCEPT ![t] = h] /\ a \in held[t] /\ step[t] = Idle
        /\ UNCHANGED <<phase, current, rootOf, queue, nextSeq, robust, ctid>>
    BY Zenon DEF UserUnlock, Store, Goto
  <2>2. s \in Point
    BY <1>3, <1>4, PointsTyped, Zenon
  <2>3. s.do # "wait" /\ (mem[Root(t)][a].waiters => s.a = a /\ s.do = "wake")
    BY <1>4, Zenon DEF At
  <2>4. robust[t] # None
    BY <1>1, <1>6, <2>1, Zenon DEF Prepared
  <2>5. \A e \in queue : e.key[1] = Root(t) /\ e.key[2] = a =>
           \/ s.a = a /\ s.do # "lock"
           \/ \E u \in Threads \ {t} : /\ Active(u) /\ Root(u) = Root(t) /\ step[u].a = a
                                       /\ step[u].do = "lock" => step[u].slow
    <3> HIDE DEF s
    <3> TAKE e \in queue
    <3> HAVE e.key[1] = Root(t) /\ e.key[2] = a
    <3>1. Cared(e)
      BY <1>5, Zenon
    <3>2. CASE mem[Root(t)][a].waiters
      BY <2>3, <3>2, Zenon
    <3>3. CASE ~mem[Root(t)][a].waiters
      BY <1>4, <2>1, <3>1, <3>3, Zenon DEF Cared
    <3> QED BY <3>2, <3>3, Zenon
  <2>6. Free.tid = None /\ h \in SUBSET Locks /\ t # None
    BY <1>3, FutexConstants, Zenon DEF Free
  <2>7. \A b \in Locks \ {a} : b \in held[t] => b \in h
    BY Zenon
  <2> HIDE DEF s, h
  <2>8. Seen(t, s)
    BY <2>3, Zenon DEF Seen
  <2>9. Rewrites(t, a, Free, s, h)
    BY <1>4, <2>1, <2>4, <2>5, <2>6, <2>7, <2>8, Zenon DEF Rewrites
  <2> QED BY <1>4, <2>2, <2>6, <2>9, StoreKeepsSInv, Zenon
<1> QED BY <1>7, <1>8, <1>9, Zenon

\* Dispatch changes no phase but that of the thread it picks.
LEMMA DispatchKeeps ==
  ASSUME NEW ph \in [Threads -> Phases], Dispatch(ph), NEW u \in Threads
  PROVE  phase'[u] = ph[u] \/ (ph[u] = "runnable" /\ phase'[u] = "running")
BY Zenon DEF Dispatch

\* FUTEX_WAIT: the word still has the owner and the waiters bit the thread saw.
LEMMA WaitKeepsSInv ==
  ASSUME SInv, IInv', NEW t \in Threads, t = current, FutexWait(t)
  PROVE  SInv'
<1> DEFINE a == step[t].a
           e0 == [owner |-> t, key |-> <<Root(t), a>>, seq |-> nextSeq]
           ph == [phase EXCEPT ![t] = "blocked"]
<1>1. /\ IInv /\ TypeOK /\ Separate /\ Prepared /\ Waiting /\ TidWords /\ Queued
      /\ OwnersAlive /\ NobodyStranded /\ Addressed
  BY Zenon DEF SInv, Bookkeeping, IInv
<1>2. phase[t] = "running" /\ Root(t) \in Roots /\ GroupOf[t] \in Procs /\ a \in Addrs
  BY <1>1, Runner, Zenon DEF FutexWait, Addressed, HasAddress
<1>3. /\ queue' = queue \cup {e0} /\ step' = [step EXCEPT ![t] = Retry(t)] /\ Dispatch(ph)
      /\ UNCHANGED <<rootOf, mem, robust, ctid, held>>
      /\ step[t].do = "wait" /\ mem[Root(t)][a] = step[t].exp
  BY Zenon DEF FutexWait, Goto, ValueUnchanged, WordAt
<1>4. /\ mem[Root(t)][a].tid # None
      /\ a \in Locks => mem[Root(t)][a].waiters
      /\ a \in Threads => t = LeaderOf[GroupOf[t]]
  BY <1>1, <1>3, Zenon DEF Waiting, Seen
<1>5. ph \in [Threads -> Phases] /\ ph[t] = "blocked" /\ \A u \in Threads \ {t} : ph[u] = phase[u]
  BY <1>1, Zenon DEF TypeOK, Phases
<1> HIDE DEF ph
<1>6. \A u \in Threads : phase'[u] = ph[u] \/ (ph[u] = "runnable" /\ phase'[u] = "running")
  BY <1>3, <1>5, DispatchKeeps, Zenon
<1>7. /\ \A u \in Threads : Alive(u)' <=> Alive(u)
      /\ \A u \in Threads : phase'[u] = "unborn" => phase[u] = "unborn"
      /\ \A u \in Threads \ {t} : Active(u) => Active(u)'
  <2>1. \A u \in Threads \ {t} : phase[u] # "running"
    BY <1>1, Zenon DEF IInv, Placed
  <2> QED BY <1>2, <1>5, <1>6, <2>1, Zenon DEF Alive, Active
<1>8. \A p \in Procs : Members(p)' = Members(p)
  BY <1>7, Zenon DEF Members, Alive, Active
<1>9. \A u \in Threads : Root(u)' = Root(u) /\ step'[u] = IF u = t THEN Retry(t) ELSE step[u]
  BY <1>1, <1>3, Zenon DEF Root, TypeOK
<1>10. /\ Retry(t).do # "wait" /\ (Retry(t).a \in Locks => a \in Locks)
       /\ (a \in Locks => Retry(t) = At("lock", a, TRUE))
  BY FutexConstants, Zenon DEF Retry, At, Idle, Addrs
<1>11. e0.owner = t /\ e0.key[1] = Root(t) /\ e0.key[2] = a
  BY Zenon
<1>12. \A e \in queue : /\ e.owner \in Threads /\ e.owner # t /\ phase[e.owner] = "blocked"
                        /\ e.key[1] = Root(e.owner) /\ GroupOf[e.owner] \in Procs
  BY <1>1, Entries, Zenon
<1> HIDE DEF e0, a
<1>13. Separate' /\ TidWords'
  BY <1>1, <1>3, <1>7, Zenon DEF Separate, TidWords
<1>14. Prepared'
  BY <1>1, <1>2, <1>3, <1>7, <1>9, <1>10 DEF Prepared, Alive, Active, a
<1>15. Waiting'
  BY <1>1, <1>9, <1>10, Zenon DEF Waiting, Seen
<1>16. Queued'
  <2> SUFFICES ASSUME NEW e \in queue'
      PROVE /\ e.key[2] \in Locks => step'[e.owner] = At("lock", e.key[2], TRUE)
            /\ e.key[2] \in Threads => /\ e.owner = LeaderOf[GroupOf[e.owner]]
                                       /\ mem[e.key[1]][e.key[2]].tid # None
    BY <1>3, Zenon DEF Queued
  <2>1. CASE e \in queue
    BY <1>1, <1>9, <1>12, <2>1, Zenon DEF Queued
  <2>2. CASE e = e0
    BY <1>4, <1>9, <1>10, <1>11, <2>2, Zenon
  <2> QED BY <1>3, <2>1, <2>2, Zenon
<1>17. OwnersAlive'
  BY <1>1, <1>3, <1>8, Zenon DEF OwnersAlive
<1>18. rootOf[GroupOf[t]] = Root(t) /\ Root(t) # None
  BY <1>2, FutexConstants, Zenon DEF Root
<1>19. NobodyStranded'
  <2> SUFFICES ASSUME NEW e \in queue'
               PROVE  /\ e.key[2] \in Threads => Alive(e.key[2])'
                      /\ e.key[2] \in Locks => Cared(e)'
    BY Zenon DEF NobodyStranded, Cared
  <2>1. ASSUME e.key[2] \in Threads PROVE Alive(e.key[2])'
    <3>1. CASE e \in queue
      BY <1>1, <1>7, <2>1, <3>1, Zenon DEF NobodyStranded
    <3>2. CASE e = e0
      <4>1. Alive(a)
        BY <1>1, <1>2, <1>4, <1>11, <1>18, <2>1, <3>2 DEF TidWords
      <4> QED BY <1>7, <1>11, <2>1, <3>2, <4>1, Zenon
    <3> QED BY <1>3, <3>1, <3>2, Zenon
  <2>2. ASSUME e.key[2] \in Locks PROVE Cared(e)'
    <3>1. CASE e.key[1] = Root(t) /\ e.key[2] = a
      <4>1. mem[Root(t)][a].tid \in Members(GroupOf[t])
        BY <1>1, <1>2, <1>4, <1>18, <2>2, <3>1, Zenon DEF OwnersAlive
      <4>2. GroupOf[e.owner] = GroupOf[t]
        <5>1. CASE e \in queue
          BY <1>1, <1>12, <3>1, <5>1, SameGroup DEF Alive
        <5> QED BY <1>3, <1>11, <5>1, Zenon
      <4> QED BY <1>2, <1>3, <1>4, <1>8, <2>2, <3>1, <4>1, <4>2 DEF Cared
    <3>2. CASE ~(e.key[1] = Root(t) /\ e.key[2] = a)
      <4>1. e \in queue /\ Cared(e)
        BY <1>1, <1>3, <1>11, <2>2, <3>2, Zenon DEF NobodyStranded, Cared
      <4>2. ASSUME NEW u \in Threads, Active(u), Root(u) = e.key[1], step[u].a = e.key[2],
                   step[u].do = "lock" => step[u].slow
            PROVE Cared(e)'
        <5>1. u # t
          BY <3>2, <4>2, Zenon DEF a
        <5> QED BY <1>7, <1>9, <4>2, <5>1, Zenon DEF Cared
      <4> QED BY <1>3, <1>8, <1>12, <4>1, <4>2, Zenon DEF Cared
    <3> QED BY <3>1, <3>2, Zenon
  <2> QED BY <2>1, <2>2, Zenon
<1> QED BY <1>13, <1>14, <1>15, <1>16, <1>17, <1>19, Zenon DEF SInv, Bookkeeping

\* FUTEX_WAKE: whoever is left in the queue is looked after by the one woken.
LEMMA WakeKeepsSInv ==
  ASSUME SInv, Ordered, IInv', NEW t \in Threads, t = current, FutexWake(t)
  PROVE  SInv'
<1> DEFINE k == <<Root(t), step[t].a>>
           T == Taken(queue, k, 1)
<1>1. /\ IInv /\ TypeOK /\ Separate /\ Prepared /\ Waiting /\ TidWords /\ Queued
      /\ OwnersAlive /\ NobodyStranded
  BY Zenon DEF SInv, Bookkeeping, IInv
<1>2. phase[t] = "running" /\ Root(t) \in Roots /\ GroupOf[t] \in Procs
  BY <1>1, Runner, Zenon
<1>3. /\ queue' = queue \ T /\ phase' = Runnable(Woken(T)) /\ step' = [step EXCEPT ![t] = Idle]
      /\ UNCHANGED <<rootOf, mem, robust, ctid, held>>
  BY Zenon DEF FutexWake, Goto
<1>4. T \in SUBSET queue
  BY Zenon DEF Taken
<1>5. \A e \in queue : e.key[1] = Root(t) /\ e.key[2] = step[t].a => \E f \in T : f.key = e.key
  <2> TAKE e \in queue
  <2> HAVE e.key[1] = Root(t) /\ e.key[2] = step[t].a
  <2>1. e.key = k
    BY <1>1 DEF TypeOK, Waiter, Key
  <2> QED BY <1>1, <2>1, OldestIsTaken, Zenon
<1> HIDE DEF T
<1>6. /\ \A u \in Threads : u \in Woken(T) => phase[u] = "blocked"
      /\ \A u \in Threads : phase'[u] = IF u \in Woken(T) THEN "runnable" ELSE phase[u]
      /\ \A f \in queue : f.owner \in Woken(T) <=> f \in T
  BY <1>1, <1>3, <1>4, WakesBlocked, Zenon
<1>7. \A u \in Threads : /\ Alive(u)' <=> Alive(u)
                         /\ phase'[u] = "unborn" => phase[u] = "unborn"
                         /\ Active(u) => Active(u)'
  BY <1>6, Zenon DEF Alive, Active
<1>8. \A p \in Procs : Members(p)' = Members(p)
  BY <1>7, Zenon DEF Members, Alive, Active
<1>9. \A u \in Threads : Root(u)' = Root(u) /\ step'[u] = IF u = t THEN Idle ELSE step[u]
  BY <1>1, <1>3, Zenon DEF Root, TypeOK
<1>10. Idle.do = "idle" /\ Idle.a \notin Locks
  BY FutexConstants, Zenon DEF Idle, At, Addrs
<1>11. \A e \in queue : /\ e.owner \in Threads /\ e.owner # t /\ phase[e.owner] = "blocked"
                        /\ e.key[1] = Root(e.owner) /\ GroupOf[e.owner] \in Procs
  BY <1>1, Entries, Zenon
<1>12. Separate' /\ TidWords'
  BY <1>1, <1>3, <1>7, Zenon DEF Separate, TidWords
<1>13. Prepared'
  <2>1. \A u \in Threads : Alive(u)' /\ (held'[u] # {} \/ step'[u].a \in Locks) => robust'[u] # None
    BY <1>1, <1>3, <1>7, <1>9, <1>10, Zenon DEF Prepared
  <2>2. \A u \in Threads : phase'[u] = "unborn" => held'[u] = {} /\ step'[u] = Idle
    BY <1>1, <1>3, <1>7, <1>9, Zenon DEF Prepared
  <2> QED BY <2>1, <2>2, Zenon DEF Prepared
<1>14. Waiting'
  BY <1>1, <1>9, <1>10 DEF Waiting, Seen
<1>15. Queued'
  <2>1. queue' \in SUBSET queue /\ \A e \in queue : step'[e.owner] = step[e.owner]
    BY <1>3, <1>9, <1>11, Zenon
  <2> QED BY <1>1, <1>3, <2>1, Zenon DEF Queued
<1>16. OwnersAlive'
  BY <1>1, <1>3, <1>8, Zenon DEF OwnersAlive
<1>17. NobodyStranded'
  <2> SUFFICES ASSUME NEW e \in queue'
               PROVE  /\ e.key[2] \in Threads => Alive(e.key[2])'
                      /\ e.key[2] \in Locks => Cared(e)'
    BY Zenon DEF NobodyStranded, Cared
  <2>1. e.key[2] \in Threads => Alive(e.key[2])'
    BY <1>1, <1>3, <1>7, Zenon DEF NobodyStranded
  <2>2. ASSUME e.key[2] \in Locks PROVE Cared(e)'
    <3>1. e \in queue /\ Cared(e)
      BY <1>1, <1>3, <2>2, Zenon DEF NobodyStranded, Cared
    <3>2. CASE e.key[1] = Root(t) /\ e.key[2] = step[t].a
      <4>1. PICK f \in T : f.key = e.key
        BY <1>5, <3>1, <3>2, Zenon
      <4>2. f.owner \in Threads /\ f.owner # t /\ Root(f.owner) = e.key[1] /\ phase'[f.owner] = "runnable"
        BY <1>4, <1>6, <1>11, <4>1, Zenon
      <4>3. step'[f.owner] = At("lock", e.key[2], TRUE)
        BY <1>1, <1>4, <1>9, <2>2, <4>1, <4>2, Zenon DEF Queued
      <4>4. step'[f.owner].a = e.key[2] /\ step'[f.owner].slow
        BY <4>3 DEF At
      <4> QED BY <1>9, <4>2, <4>4, Zenon DEF Cared, Active
    <3>3. CASE ~(e.key[1] = Root(t) /\ e.key[2] = step[t].a)
      <4>1. ASSUME NEW u \in Threads, Active(u), Root(u) = e.key[1], step[u].a = e.key[2],
                   step[u].do = "lock" => step[u].slow
            PROVE Cared(e)'
        BY <1>7, <1>9, <3>3, <4>1, Zenon DEF Cared
      <4> QED BY <1>3, <1>8, <1>11, <3>1, <4>1, Zenon DEF Cared
    <3> QED BY <3>2, <3>3, Zenon
  <2> QED BY <2>1, <2>2, Zenon
<1> QED BY <1>12, <1>13, <1>14, <1>15, <1>16, <1>17, Zenon DEF SInv, Bookkeeping
=============================================================================
