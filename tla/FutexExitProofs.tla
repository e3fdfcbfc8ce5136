-------------------------- MODULE FutexExitProofs --------------------------
(***************************************************************************)
(* Clone, exec and exit keep the strengthened invariant of FutexProofs.    *)
(* Hence a mutex never has a dead owner and nobody waits for a wake that   *)
(* will not come, for any number of threads, groups, roots and locks.      *)
(***************************************************************************)
EXTENDS FutexProofs

-----------------------------------------------------------------------------
\* clone: the tid word of the new thread is set, and it has done nothing yet.
LEMMA CloneKeepsSInv ==
  ASSUME SInv, IInv', NEW t \in Threads, t = current, NEW u \in Threads, Clone(t, u)
  PROVE  SInv'
<1> DEFINE w == [Free EXCEPT !.tid = u]
<1>1. /\ IInv /\ TypeOK /\ Separate /\ Prepared /\ Waiting /\ TidWords /\ Queued
      /\ OwnersAlive /\ NobodyStranded
  BY Zenon DEF SInv, Bookkeeping, IInv
<1>2. phase[t] = "running" /\ Root(t) \in Roots /\ GroupOf[t] \in Procs /\ Root(t) # None
  BY <1>1, Runner, FutexConstants
<1>3. /\ phase[u] = "unborn" /\ GroupOf[u] = GroupOf[t] /\ phase' = [phase EXCEPT ![u] = "runnable"]
      /\ mem' = [mem EXCEPT ![Root(t)][u] = w] /\ ctid' = [ctid EXCEPT ![u] = Root(t)]
      /\ UNCHANGED <<rootOf, queue, robust, held, step>>
  BY Zenon DEF Clone, Store
<1>4. held[u] = {} /\ step[u] = Idle /\ Idle.a \notin Locks /\ w.tid = u /\ u # None
  BY <1>1, <1>3, FutexConstants, Zenon DEF Prepared, Idle, At, Addrs, Free
<1> HIDE DEF w
<1>5. \A v \in Threads : /\ phase'[v] = (IF v = u THEN "runnable" ELSE phase[v])
                         /\ ctid'[v] = (IF v = u THEN Root(t) ELSE ctid[v])
                         /\ Root(v)' = Root(v)
  BY <1>1, <1>3, Zenon DEF TypeOK, Root
<1>6. \A r \in Roots, b \in Addrs : mem'[r][b] = IF r = Root(t) /\ b = u THEN w ELSE mem[r][b]
  BY <1>1, <1>2, <1>3, Zenon DEF TypeOK, Addrs
<1>7. \A v \in Threads : /\ Alive(v) => Alive(v)'
                         /\ Active(v) => Active(v)'
                         /\ v # u /\ Alive(v)' => Alive(v)
  BY <1>3, <1>5, Zenon DEF Alive, Active
<1>8. \A p \in Procs : Members(p) \subseteq Members(p)'
  BY <1>3, <1>5, Zenon DEF Members
<1>9. \A e \in queue : /\ e.owner \in Threads /\ e.key[1] = Root(e.owner)
                       /\ e.key[1] \in Roots /\ e.key[2] \in Addrs /\ GroupOf[e.owner] \in Procs
  BY <1>1, Entries, Zenon
<1>10. \A b \in Locks : b \in Addrs /\ b # u
  BY FutexConstants, Zenon DEF Addrs
<1>11. Separate'
  BY <1>1, <1>3, Zenon DEF Separate
<1>12. Prepared'
  <2> SUFFICES ASSUME NEW v \in Threads
      PROVE /\ Alive(v)' /\ (held[v] # {} \/ step[v].a \in Locks) => robust[v] # None
            /\ phase'[v] = "unborn" => held[v] = {} /\ step[v] = Idle
    BY <1>3, Zenon DEF Prepared
  <2> QED BY <1>1, <1>4, <1>5, <1>7, Zenon DEF Prepared
<1>13. Waiting'
  BY <1>1, <1>3, Zenon DEF Waiting, Seen
<1>14. TidWords'
  <2> SUFFICES ASSUME NEW p \in Procs, NEW v \in Threads, rootOf[p] # None,
                      mem'[rootOf[p]][v].tid # None
               PROVE  Alive(v)' /\ GroupOf[v] = p /\ ctid'[v] # None
    BY <1>3 DEF TidWords
  <2>1. rootOf[p] \in Roots /\ v \in Addrs
    BY <1>1, Zenon DEF TypeOK, Addrs
  <2>2. CASE rootOf[p] = Root(t) /\ v = u
    <3>1. p = GroupOf[t]
      BY <1>1, <1>2, <2>2, Zenon DEF Separate, Root
    <3> QED BY <1>2, <1>3, <1>5, <2>2, <3>1, Zenon DEF Alive, Active
  <2>3. CASE ~(rootOf[p] = Root(t) /\ v = u)
    <3>1. Alive(v) /\ GroupOf[v] = p /\ ctid[v] # None
      BY <1>1, <1>6, <2>1, <2>3 DEF TidWords
    <3> QED BY <1>2, <1>5, <1>7, <3>1, Zenon
  <2> QED BY <2>2, <2>3, Zenon
<1>15. Queued'
  <2>1. \A e \in queue : mem[e.key[1]][e.key[2]].tid # None => mem'[e.key[1]][e.key[2]].tid # None
    BY <1>4, <1>6, <1>9
  <2> QED BY <1>1, <1>3, <2>1, Zenon DEF Queued
<1>16. OwnersAlive'
  <2>1. \A p \in Procs, b \in Locks : rootOf[p] # None => mem'[rootOf[p]][b] = mem[rootOf[p]][b]
    BY <1>1, <1>6, <1>10 DEF TypeOK
  <2> QED BY <1>1, <1>3, <1>8, <2>1 DEF OwnersAlive
<1>17. NobodyStranded'
  <2> SUFFICES ASSUME NEW e \in queue
               PROVE  /\ e.key[2] \in Threads => Alive(e.key[2])'
                      /\ e.key[2] \in Locks => Cared(e)'
    BY <1>3, Zenon DEF NobodyStranded, Cared
  <2>1. e.key[2] \in Threads => Alive(e.key[2])'
    BY <1>1, <1>7, Zenon DEF NobodyStranded
  <2>2. ASSUME e.key[2] \in Locks PROVE Cared(e)'
    <3>1. Cared(e) /\ mem'[e.key[1]][e.key[2]] = mem[e.key[1]][e.key[2]]
      BY <1>1, <1>6, <1>9, <1>10, <2>2, Zenon DEF NobodyStranded, Cared
    <3>2. ASSUME NEW v \in Threads, Active(v), Root(v) = e.key[1], step[v].a = e.key[2],
                 step[v].do = "lock" => step[v].slow
          PROVE Cared(e)'
      BY <1>3, <1>5, <1>7, <3>2, Zenon DEF Cared
    <3> QED BY <1>8, <1>9, <3>1, <3>2, Zenon DEF Cared
  <2> QED BY <2>1, <2>2, Zenon
<1> QED BY <1>11, <1>12, <1>13, <1>14, <1>15, <1>16, <1>17, Zenon DEF SInv, Bookkeeping

\* exec: the new image is fresh, and nobody else was in the old one.
LEMMA ExecveKeepsSInv ==
  ASSUME SInv, IInv', NEW t \in Threads, t = current, Execve(t)
  PROVE  SInv'
<1>1. /\ IInv /\ TypeOK /\ Separate /\ Prepared /\ Waiting /\ TidWords /\ Queued
      /\ OwnersAlive /\ NobodyStranded
  BY Zenon DEF SInv, Bookkeeping, IInv
<1>2. phase[t] = "running" /\ Root(t) \in Roots /\ GroupOf[t] \in Procs
  BY <1>1, Runner, Zenon
<1>3. PICK r \in Roots \ {rootOf[p] : p \in Procs} :
        /\ rootOf' = [rootOf EXCEPT ![GroupOf[t]] = r]
        /\ mem' = [mem EXCEPT ![r] = [a \in Addrs |-> Free]]
  BY Zenon DEF Execve
<1>4. /\ queue' = cancel(queue, {t}) /\ held' = [held EXCEPT ![t] = {}]
      /\ robust' = Without({t}, robust) /\ ctid' = Without({t}, ctid)
      /\ Members(GroupOf[t]) = {t} /\ step[t] = Idle
      /\ UNCHANGED <<phase, current, step>>
  BY Zenon DEF Execve
<1>5. \A e \in queue : /\ e.owner \in Threads /\ e.owner # t /\ phase[e.owner] = "blocked"
                       /\ e.key[1] = Root(e.owner) /\ e.key[1] \in Roots /\ e.key[2] \in Addrs
                       /\ GroupOf[e.owner] \in Procs
  BY <1>1, Entries, Zenon
<1>6. queue' = queue
  BY <1>4, <1>5, Zenon DEF cancel
<1>7. \A u \in Threads : Alive(u) /\ u # t => GroupOf[u] # GroupOf[t]
  BY <1>4, Zenon DEF Members, Alive, Active
<1>8. \A p \in Procs : rootOf[p] # r /\ rootOf'[p] = IF p = GroupOf[t] THEN r ELSE rootOf[p]
  BY <1>1, <1>3, Zenon DEF TypeOK
<1>9. \A u \in Threads : GroupOf[u] # GroupOf[t] => Root(u)' = Root(u)
  BY <1>8, FutexConstants, Zenon DEF Root
<1>10. \A p \in Procs : rootOf[p] # None => mem'[rootOf[p]] = mem[rootOf[p]]
  BY <1>1, <1>3, <1>8, Zenon DEF TypeOK
<1>11. \A b \in Addrs : mem'[r][b].tid = None
  BY <1>1, <1>3, Zenon DEF TypeOK, Free
<1>12. \A u \in Threads \ {t} : held'[u] = held[u] /\ robust'[u] = robust[u] /\ ctid'[u] = ctid[u]
  BY <1>1, <1>4, Zenon DEF TypeOK, Without
<1>13. held'[t] = {} /\ Idle.a \notin Locks
  BY <1>1, <1>4, FutexConstants, Zenon DEF TypeOK, Idle, At, Addrs
<1>14. Separate'
  BY <1>1, <1>8, Zenon DEF Separate
<1>15. Prepared'
  <2> SUFFICES ASSUME NEW u \in Threads
      PROVE /\ Alive(u) /\ (held'[u] # {} \/ step[u].a \in Locks) => robust'[u] # None
            /\ phase[u] = "unborn" => held'[u] = {} /\ step[u] = Idle
    BY <1>4, Zenon DEF Prepared, Alive, Active
  <2> QED BY <1>1, <1>2, <1>4, <1>12, <1>13, Zenon DEF Prepared
<1>16. Waiting'
  BY <1>1, <1>4, Zenon DEF Waiting, Seen
<1>17. TidWords'
  <2> SUFFICES ASSUME NEW p \in Procs, NEW u \in Threads, rootOf'[p] # None,
                      mem'[rootOf'[p]][u].tid # None
               PROVE  Alive(u) /\ GroupOf[u] = p /\ ctid'[u] # None
    BY <1>4, ZenonT(40) DEF TidWords, Alive, Active
  <2>1. p # GroupOf[t]
    BY <1>8, <1>11, Zenon DEF Addrs
  <2> QED BY <1>1, <1>8, <1>10, <1>12, <2>1 DEF TidWords
<1>18. \A e \in queue : /\ GroupOf[e.owner] # GroupOf[t]
                        /\ mem'[e.key[1]] = mem[e.key[1]] /\ Root(e.owner) # None
  <2> TAKE e \in queue
  <2>1. GroupOf[e.owner] # GroupOf[t] /\ Root(e.owner) # None
    BY <1>1, <1>5, <1>7, Zenon DEF Alive, IInv, Placed
  <2> QED BY <1>5, <1>10, <2>1, Zenon DEF Root
<1>19. Queued'
  BY <1>1, <1>4, <1>6, <1>18, Zenon DEF Queued
<1>20. OwnersAlive'
  <2> SUFFICES ASSUME NEW p \in Procs, rootOf'[p] # None, NEW b \in Locks,
                      mem'[rootOf'[p]][b].tid # None
               PROVE  /\ mem'[rootOf'[p]][b].tid \in Members(p)
                      /\ b \in held'[mem'[rootOf'[p]][b].tid]
    BY <1>4, Zenon DEF OwnersAlive, Members
  <2>1. p # GroupOf[t]
    BY <1>8, <1>11, Zenon DEF Addrs
  <2>2. mem'[rootOf'[p]][b] = mem[rootOf[p]][b] /\ rootOf[p] # None
    BY <1>8, <1>10, <2>1, Zenon
  <2>3. mem[rootOf[p]][b].tid \in Members(p) /\ b \in held[mem[rootOf[p]][b].tid]
    BY <1>1, <2>2, Zenon DEF OwnersAlive
  <2>4. mem[rootOf[p]][b].tid \in Threads \ {t}
    BY <2>1, <2>3, Zenon DEF Members
  <2> QED BY <1>12, <2>2, <2>3, <2>4, Zenon
<1>21. NobodyStranded'
  <2> SUFFICES ASSUME NEW e \in queue
               PROVE  /\ e.key[2] \in Threads => Alive(e.key[2])'
                      /\ e.key[2] \in Locks => Cared(e)'
    BY <1>6, Zenon DEF NobodyStranded, Cared
  <2>1. e.key[2] \in Threads => Alive(e.key[2])'
    BY <1>1, <1>4, Zenon DEF NobodyStranded, Alive, Active
  <2>2. ASSUME e.key[2] \in Locks PROVE Cared(e)'
    <3>1. Cared(e)
      BY <1>1, <2>2, Zenon DEF NobodyStranded, Cared
    <3>2. ASSUME NEW u \in Threads, Active(u), Root(u) = e.key[1], step[u].a = e.key[2],
                 step[u].do = "lock" => step[u].slow
          PROVE Cared(e)'
      <4>1. GroupOf[u] = GroupOf[e.owner]
        BY <1>1, <1>5, <3>2, SameGroup DEF Alive
      <4>2. Root(u)' = Root(u)
        BY <1>9, <1>18, <4>1, Zenon
      <4> QED BY <1>4, <3>2, <4>2, Zenon DEF Cared, Active
    <3> QED BY <1>4, <1>18, <3>1, <3>2, Zenon DEF Cared, Members
  <2> QED BY <2>1, <2>2, Zenon
<1> QED BY <1>14, <1>15, <1>16, <1>17, <1>19, <1>20, <1>21, Zenon DEF SInv, Bookkeeping

\* The exit of a thread: its mutexes pass on with a wake, and the leader that
\* waits for its tid word is the only one to do so.
LEMMA ThreadExitKeepsSInv ==
  ASSUME SInv, Ordered, IInv', NEW t \in Threads, t = current, ThreadExit(t)
  PROVE  SInv'
<1> DEFINE q == cancel(queue, {t})
           T == {e \in q : \E a \in DeathWakes(t) : e \in Taken(q, <<Root(t), a>>, 1)}
           ph == [u \in Threads |-> IF u = t THEN "gone" ELSE Runnable(Woken(T))[u]]
<1>1. /\ IInv /\ TypeOK /\ Separate /\ Prepared /\ Waiting /\ TidWords /\ Queued
      /\ OwnersAlive /\ NobodyStranded /\ QueuedAreBlocked
  BY Zenon DEF SInv, Bookkeeping, IInv
<1>2. phase[t] = "running" /\ Root(t) \in Roots /\ GroupOf[t] \in Procs /\ Root(t) # None
  BY <1>1, Runner, FutexConstants
<1>3. /\ step[t] = Idle /\ queue' = q \ T /\ Dispatch(ph)
      /\ mem' = [mem EXCEPT ![Root(t)] = Bereaved(Root(t), {t})]
      /\ robust' = Without({t}, robust) /\ ctid' = Without({t}, ctid)
      /\ rootOf' = [rootOf EXCEPT ![GroupOf[t]] = IF t = LeaderOf[GroupOf[t]] THEN None ELSE @]
      /\ t = LeaderOf[GroupOf[t]] => Members(GroupOf[t]) = {t}
      /\ UNCHANGED <<held, step>>
  BY Zenon DEF ThreadExit
<1>4. \A e \in queue : /\ e.owner \in Threads /\ e.owner # t /\ phase[e.owner] = "blocked"
                       /\ e.key[1] = Root(e.owner) /\ e.key[1] \in Roots /\ e.key[2] \in Addrs
                       /\ GroupOf[e.owner] \in Procs /\ e.key = <<e.key[1], e.key[2]>>
                       /\ e.seq \in Nat
  BY <1>1, Entries DEF TypeOK, Waiter, Key
<1>5. q = queue
  BY <1>4, Zenon DEF cancel
<1>6. T \in SUBSET queue
  BY Zenon DEF cancel
<1>7. \A e \in queue, b \in DeathWakes(t) :
        e.key = <<Root(t), b>> => \E f \in T : f.key = e.key
  <2> SUFFICES ASSUME NEW e \in queue, NEW b \in DeathWakes(t), e.key = <<Root(t), b>>
               PROVE  \E f \in T : f.key = e.key
    BY Zenon
  <2>1. PICK f \in Taken(queue, e.key, 1) : f.key = e.key
    BY <1>1, OldestIsTaken, Zenon
  <2>2. f \in T
    BY <1>5, <2>1, Zenon DEF Taken
  <2> QED BY <2>1, <2>2, Zenon
<1> HIDE DEF T, q
<1>8. /\ \A u \in Threads : u \in Woken(T) => phase[u] = "blocked"
      /\ \A u \in Threads : Runnable(Woken(T))[u] = IF u \in Woken(T) THEN "runnable" ELSE phase[u]
      /\ \A f \in queue : f.owner \in Woken(T) <=> f \in T
  BY <1>1, <1>6, WakesBlocked, Zenon
<1>9. ph \in [Threads -> Phases] /\ ph[t] = "gone"
      /\ \A u \in Threads \ {t} : ph[u] = IF u \in Woken(T) THEN "runnable" ELSE phase[u]
  BY <1>1, <1>8, Zenon DEF TypeOK, Phases
<1> HIDE DEF ph
<1>10. \A u \in Threads : phase'[u] = ph[u] \/ (ph[u] = "runnable" /\ phase'[u] = "running")
  BY <1>3, <1>9, DispatchKeeps, Zenon
<1>11. phase'[t] = "gone"
  BY <1>9, <1>10, Zenon
<1>12. \A u \in Threads \ {t} : /\ Alive(u)' <=> Alive(u)
                                /\ Active(u) => Active(u)'
                                /\ phase'[u] = "unborn" => phase[u] = "unborn"
                                /\ u \in Woken(T) => Active(u)'
  BY <1>8, <1>9, <1>10 DEF Alive, Active
<1>13. \A p \in Procs : \A u \in Members(p) : u # t => u \in Members(p)'
  BY <1>12, Zenon DEF Members, Alive, Active
<1>14. \A p \in Procs : rootOf'[p] # None => rootOf'[p] = rootOf[p]
  BY <1>1, <1>3, Zenon DEF TypeOK
<1>15. \A u \in Threads \ {t} : Alive(u) => Root(u)' = Root(u)
  BY <1>1, <1>2, <1>3, FutexConstants, Zenon DEF TypeOK, Root, Members, Alive, Active
<1>16. Listed(t) = IF robust[t] # None THEN held[t] ELSE {}
  BY <1>3 DEF Listed, Idle, At
<1>17. OwnedBy(t) \subseteq Locks /\ \A b \in OwnedBy(t) : mem[Root(t)][b].tid = t
  BY <1>1, <1>16 DEF OwnedBy, TypeOK
<1>18. \A r \in Roots, b \in Addrs : mem'[r][b] =
         IF r # Root(t) THEN mem[r][b] ELSE
         IF b \in OwnedBy(t) THEN OwnerDied(mem[r][b]) ELSE
         IF b = t /\ ctid[t] # None THEN Free ELSE mem[r][b]
  BY <1>1, <1>2, <1>3, Zenon DEF TypeOK, Bereaved
<1>19. \A b \in Locks : b \in Addrs /\ b \notin Threads
  BY FutexConstants, Zenon DEF Addrs
<1>20. \A u \in Threads \ {t} : robust'[u] = robust[u] /\ ctid'[u] = ctid[u]
  BY <1>1, <1>3, Zenon DEF TypeOK, Without
<1>21. Idle.do = "idle" /\ Idle.a \notin Locks
  BY FutexConstants, Zenon DEF Idle, At, Addrs
\* The leader queued on the tid word of t is woken.
<1>22. \A e \in queue : e.key[2] = t => e \in T
  <2> SUFFICES ASSUME NEW e \in queue, e.key[2] = t PROVE e \in T
    BY Zenon
  <2>1. mem[e.key[1]][t].tid # None /\ Root(e.owner) # None
    BY <1>1, <1>4, ZenonT(40) DEF Queued, IInv, Placed, Alive
  <2>2. GroupOf[t] = GroupOf[e.owner] /\ ctid[t] # None
    BY <1>1, <1>4, <2>1 DEF TidWords, Root
  <2>3. e.key = <<Root(t), t>> /\ t \in DeathWakes(t)
    BY <1>4, <2>2, Zenon DEF Root, DeathWakes
  <2>4. PICK f \in T : f.key = e.key
    BY <1>7, <2>3, Zenon
  <2>5. f \in queue /\ f.key[2] = t /\ f.key[1] = e.key[1]
    BY <1>6, <2>4, Zenon
  <2>6. GroupOf[f.owner] = GroupOf[e.owner]
    BY <1>1, <1>4, <2>5, SameGroup DEF Alive
  <2>7. f.owner = e.owner
    BY <1>1, <2>5, <2>6, Zenon DEF Queued
  <2> QED BY <1>1, <2>4, <2>5, <2>7, Zenon DEF QueuedAreBlocked
<1>23. Separate'
  BY <1>1, <1>14, Zenon DEF Separate
<1>24. Prepared'
  <2> SUFFICES ASSUME NEW u \in Threads
      PROVE /\ Alive(u)' /\ (held[u] # {} \/ step[u].a \in Locks) => robust'[u] # None
            /\ phase'[u] = "unborn" => held[u] = {} /\ step[u] = Idle
    BY <1>3, Zenon DEF Prepared
  <2>1. CASE u = t
    BY <1>11, <2>1, Zenon DEF Alive, Active
  <2>2. CASE u # t
    BY <1>1, <1>12, <1>20, <2>2, Zenon DEF Prepared
  <2> QED BY <2>1, <2>2, Zenon
<1>25. Waiting'
  BY <1>1, <1>3, Zenon DEF Waiting, Seen
<1>26. TidWords'
  <2> SUFFICES ASSUME NEW p \in Procs, NEW u \in Threads, rootOf'[p] # None,
                      mem'[rootOf'[p]][u].tid # None
               PROVE  Alive(u)' /\ GroupOf[u] = p /\ ctid'[u] # None
    BY Zenon DEF TidWords
  <2>1. rootOf'[p] = rootOf[p] /\ rootOf[p] \in Roots /\ u \in Addrs /\ u \notin OwnedBy(t)
    BY <1>1, <1>14, <1>17, <1>19, Zenon DEF TypeOK, Addrs
  <2>2. mem[rootOf[p]][u].tid # None
    BY <1>18, <2>1 DEF Free
  <2>3. Alive(u) /\ GroupOf[u] = p /\ ctid[u] # None
    BY <1>1, <2>1, <2>2, Zenon DEF TidWords
  <2>4. u # t
    BY <1>18, <2>1, <2>3 DEF Free, Root
  <2> QED BY <1>12, <1>20, <2>3, <2>4, Zenon
<1>27. Queued'
  <2> SUFFICES ASSUME NEW e \in queue, e \notin T
      PROVE /\ e.key[2] \in Locks => step[e.owner] = At("lock", e.key[2], TRUE)
            /\ e.key[2] \in Threads => /\ e.owner = LeaderOf[GroupOf[e.owner]]
                                       /\ mem'[e.key[1]][e.key[2]].tid # None
    BY <1>3, <1>5, Zenon DEF Queued
  <2>1. e.key[2] # t
    BY <1>22, Zenon
  <2>2. e.key[2] \in Threads => mem'[e.key[1]][e.key[2]] = mem[e.key[1]][e.key[2]]
    BY <1>4, <1>17, <1>18, <1>19, <2>1
  <2> QED BY <1>1, <2>2, Zenon DEF Queued
<1>28. OwnersAlive'
  <2> SUFFICES ASSUME NEW p \in Procs, rootOf'[p] # None, NEW b \in Locks,
                      mem'[rootOf'[p]][b].tid # None
               PROVE  /\ mem'[rootOf'[p]][b].tid \in Members(p)'
                      /\ b \in held[mem'[rootOf'[p]][b].tid]
    BY <1>3, Zenon DEF OwnersAlive
  <2> DEFINE o == mem[rootOf[p]][b].tid
  <2>1. rootOf'[p] = rootOf[p] /\ rootOf[p] \in Roots /\ rootOf[p] # None
    BY <1>1, <1>14, Zenon DEF TypeOK
  <2>2. mem'[rootOf[p]][b].tid = o /\ (rootOf[p] = Root(t) => b \notin OwnedBy(t))
    <3>1. ASSUME rootOf[p] = Root(t), b \in OwnedBy(t) PROVE FALSE
      <4>1. mem'[rootOf[p]][b] = OwnerDied(mem[rootOf[p]][b])
        BY <1>18, <1>19, <2>1, <3>1, Zenon
      <4> QED BY <2>1, <4>1 DEF OwnerDied
    <3>2. mem'[rootOf[p]][b] = mem[rootOf[p]][b]
      BY <1>18, <1>19, <2>1, <3>1, Zenon
    <3> QED BY <3>1, <3>2, Zenon
  <2>3. o \in Members(p) /\ b \in held[o]
    BY <1>1, <2>1, <2>2, Zenon DEF OwnersAlive
  <2>4. o # t
    <3> SUFFICES ASSUME o = t PROVE FALSE
      BY Zenon
    <3>1. p = GroupOf[t] /\ rootOf[p] = Root(t)
      BY <2>3, Zenon DEF Members, Root
    <3>2. robust[t] # None
      BY <1>1, <1>2, <2>3, Zenon DEF Prepared, Alive, Active
    <3> QED BY <1>16, <2>2, <2>3, <3>1, <3>2, Zenon DEF OwnedBy
  <2> QED BY <1>13, <2>1, <2>2, <2>3, <2>4, Zenon
<1>29. NobodyStranded'
  <2> SUFFICES ASSUME NEW e \in queue, e \notin T
               PROVE  /\ e.key[2] \in Threads => Alive(e.key[2])'
                      /\ e.key[2] \in Locks => Cared(e)'
    BY <1>3, <1>5, Zenon DEF NobodyStranded, Cared
  <2>1. e.key[2] \in Threads => Alive(e.key[2])'
    BY <1>1, <1>12, <1>22, Zenon DEF NobodyStranded
  <2>2. ASSUME e.key[2] \in Locks PROVE Cared(e)'
    <3> DEFINE w == mem[e.key[1]][e.key[2]]
    <3>1. Cared(e)
      BY <1>1, <2>2, Zenon DEF NobodyStranded, Cared
    <3>2. ASSUME NEW u \in Threads, Active(u), Root(u) = e.key[1], step[u].a = e.key[2],
                 step[u].do = "lock" => step[u].slow
          PROVE Cared(e)'
      <4>1. u # t
        BY <1>3, <1>21, <2>2, <3>2, Zenon
      <4>2. Active(u)' /\ Root(u)' = Root(u)
        BY <1>12, <1>15, <3>2, <4>1, Zenon DEF Alive
      <4> QED BY <1>3, <3>2, <4>2, Zenon DEF Cared
    <3>3. CASE w.tid = t /\ w.waiters /\ t \in Members(GroupOf[e.owner])
      <4>1. e.key[1] = Root(t)
        BY <1>4, <3>3, Zenon DEF Members, Root
      <4>2. mem[Root(t)][e.key[2]].tid = t /\ mem[Root(t)][e.key[2]].waiters
        BY <3>3, <4>1, Zenon
      <4>3. e.key[2] \in held[t]
        BY <1>1, <1>2, <2>2, <4>2, FutexConstants DEF OwnersAlive, Root
      <4>4. robust[t] # None
        BY <1>1, <1>2, <4>3, Zenon DEF Prepared, Alive, Active
      <4>5. e.key[2] \in DeathWakes(t)
        BY <1>16, <4>2, <4>3, <4>4, Zenon DEF DeathWakes, OwnedBy
      <4>6. PICK f \in T : f.key = e.key
        BY <1>4, <1>7, <4>1, <4>5, Zenon
      <4>7. f.owner \in Threads \ {t} /\ Root(f.owner) = e.key[1] /\ f.owner \in Woken(T)
            /\ phase[f.owner] = "blocked"
        BY <1>4, <1>6, <1>8, <4>6, Zenon
      <4>8. step[f.owner] = At("lock", e.key[2], TRUE)
        BY <1>1, <1>6, <2>2, <4>6, Zenon DEF Queued
      <4>9. step[f.owner].a = e.key[2] /\ step[f.owner].slow
        BY <4>8 DEF At
      <4>10. Active(f.owner)' /\ Root(f.owner)' = e.key[1]
        BY <1>12, <1>15, <4>7, Zenon DEF Alive
      <4> QED BY <1>3, <4>7, <4>9, <4>10, Zenon DEF Cared
    <3>4. CASE w.tid # t /\ w.tid # None /\ w.waiters /\ w.tid \in Members(GroupOf[e.owner])
      <4>1. e.key[1] = Root(t) => e.key[2] \notin OwnedBy(t)
        BY <1>17, <3>4, Zenon
      <4>2. mem'[e.key[1]][e.key[2]] = w
        BY <1>4, <1>18, <1>19, <2>2, <4>1
      <4>3. w.tid \in Members(GroupOf[e.owner])'
        BY <1>4, <1>13, <3>4, Zenon
      <4> QED BY <3>4, <4>2, <4>3, Zenon DEF Cared
    <3> QED BY <3>1, <3>2, <3>3, <3>4, Zenon DEF Cared
  <2> QED BY <2>1, <2>2, Zenon
<1> QED BY <1>23, <1>24, <1>25, <1>26, <1>27, <1>28, <1>29, Zenon DEF SInv, Bookkeeping

\* exit_group: no member is left, and the words of other groups are not touched.
LEMMA ExitGroupKeepsSInv ==
  ASSUME SInv, IInv', NEW t \in Threads, t = current, ExitGroup(t)
  PROVE  SInv'
<1> DEFINE G == Members(GroupOf[t])
           ph == [u \in Threads |-> IF u \in G THEN "gone" ELSE phase[u]]
<1>1. /\ IInv /\ TypeOK /\ Separate /\ Prepared /\ Waiting /\ TidWords /\ Queued
      /\ OwnersAlive /\ NobodyStranded
  BY Zenon DEF SInv, Bookkeeping, IInv
<1>2. phase[t] = "running" /\ Root(t) \in Roots /\ GroupOf[t] \in Procs /\ Root(t) # None
  BY <1>1, Runner, FutexConstants
<1>3. /\ queue' = cancel(queue, G) /\ Dispatch(ph)
      /\ mem' = [mem EXCEPT ![Root(t)] = Bereaved(Root(t), G)]
      /\ robust' = Without(G, robust) /\ ctid' = Without(G, ctid)
      /\ rootOf' = [rootOf EXCEPT ![GroupOf[t]] = None]
      /\ UNCHANGED <<held, step>>
  BY Zenon DEF ExitGroup
<1>4. \A e \in queue : /\ e.owner \in Threads /\ phase[e.owner] = "blocked"
                       /\ e.key[1] = Root(e.owner) /\ GroupOf[e.owner] \in Procs
  BY <1>1, Entries, Zenon
<1>5. \A u \in Threads : u \in G <=> GroupOf[u] = GroupOf[t] /\ Alive(u)
  BY Zenon DEF Members, Alive, Active
<1> HIDE DEF G
<1>6. ph \in [Threads -> Phases] /\ \A u \in Threads : ph[u] = IF u \in G THEN "gone" ELSE phase[u]
  BY <1>1, Zenon DEF TypeOK, Phases
<1> HIDE DEF ph
<1>7. \A u \in Threads : phase'[u] = ph[u] \/ (ph[u] = "runnable" /\ phase'[u] = "running")
  BY <1>3, <1>6, DispatchKeeps, Zenon
<1>8. \A u \in Threads : /\ u \in G => phase'[u] = "gone"
                         /\ u \notin G => /\ Alive(u)' <=> Alive(u)
                                          /\ Active(u) => Active(u)'
                                          /\ phase'[u] = "unborn" => phase[u] = "unborn"
  BY <1>6, <1>7, Zenon DEF Alive, Active
<1>9. \A p \in Procs : /\ rootOf'[p] = IF p = GroupOf[t] THEN None ELSE rootOf[p]
                       /\ p # GroupOf[t] /\ rootOf[p] # None => mem'[rootOf[p]] = mem[rootOf[p]]
  BY <1>1, <1>2, <1>3, Zenon DEF TypeOK, Separate, Root
<1>10. \A p \in Procs : p # GroupOf[t] => Members(p) \subseteq Members(p)'
  BY <1>5, <1>8, Zenon DEF Members, Alive, Active
<1>11. \A u \in Threads : u \notin G => robust'[u] = robust[u] /\ ctid'[u] = ctid[u]
  BY <1>1, <1>3, Zenon DEF TypeOK, Without
<1>12. \A u \in Threads : GroupOf[u] # GroupOf[t] => Root(u)' = Root(u)
  BY <1>9, FutexConstants, Zenon DEF Root
<1>13. \A e \in queue' : /\ e \in queue /\ GroupOf[e.owner] # GroupOf[t] /\ Root(e.owner) # None
                         /\ mem'[e.key[1]] = mem[e.key[1]]
  <2> TAKE e \in queue'
  <2>1. e \in queue /\ e.owner \notin G
    BY <1>3, Zenon DEF cancel
  <2>2. GroupOf[e.owner] # GroupOf[t] /\ Root(e.owner) # None
    BY <1>1, <1>4, <1>5, <2>1, Zenon DEF Alive, IInv, Placed
  <2> QED BY <1>4, <1>9, <2>1, <2>2 DEF Root
<1>14. Separate'
  BY <1>1, <1>9, Zenon DEF Separate
<1>15. Prepared'
  <2> SUFFICES ASSUME NEW u \in Threads
      PROVE /\ Alive(u)' /\ (held[u] # {} \/ step[u].a \in Locks) => robust'[u] # None
            /\ phase'[u] = "unborn" => held[u] = {} /\ step[u] = Idle
    BY <1>3, Zenon DEF Prepared
  <2>1. CASE u \in G
    BY <1>8, <2>1, Zenon DEF Alive, Active
  <2>2. CASE u \notin G
    BY <1>1, <1>8, <1>11, <2>2, Zenon DEF Prepared
  <2> QED BY <2>1, <2>2, Zenon
<1>16. Waiting'
  BY <1>1, <1>3, Zenon DEF Waiting, Seen
<1>17. TidWords'
  <2> SUFFICES ASSUME NEW p \in Procs, NEW u \in Threads, rootOf'[p] # None,
                      mem'[rootOf'[p]][u].tid # None
               PROVE  Alive(u)' /\ GroupOf[u] = p /\ ctid'[u] # None
    BY Zenon DEF TidWords
  <2>1. p # GroupOf[t] /\ rootOf'[p] = rootOf[p] /\ mem'[rootOf[p]] = mem[rootOf[p]]
    BY <1>9, Zenon
  <2>2. Alive(u) /\ GroupOf[u] = p /\ ctid[u] # None
    BY <1>1, <2>1 DEF TidWords
  <2> QED BY <1>5, <1>8, <1>11, <2>1, <2>2, Zenon
<1>18. Queued'
  BY <1>1, <1>3, <1>13, Zenon DEF Queued
<1>19. OwnersAlive'
  BY <1>1, <1>3, <1>9, <1>10 DEF OwnersAlive
<1>20. NobodyStranded'
  <2> SUFFICES ASSUME NEW e \in queue'
               PROVE  /\ e.key[2] \in Threads => Alive(e.key[2])'
                      /\ e.key[2] \in Locks => Cared(e)'
    BY Zenon DEF NobodyStranded, Cared
  <2>1. e \in queue /\ GroupOf[e.owner] # GroupOf[t] /\ mem'[e.key[1]] = mem[e.key[1]]
    BY <1>13, Zenon
  <2>2. ASSUME e.key[2] \in Threads PROVE Alive(e.key[2])'
    <3>1. Alive(e.key[2]) /\ mem[e.key[1]][e.key[2]].tid # None
      BY <1>1, <2>1, <2>2, Zenon DEF NobodyStranded, Queued
    <3>2. GroupOf[e.key[2]] = GroupOf[e.owner]
      BY <1>1, <1>4, <1>13, <2>1, <2>2, <3>1 DEF TidWords, Root
    <3> QED BY <1>5, <1>8, <2>1, <2>2, <3>1, <3>2, Zenon
  <2>3. ASSUME e.key[2] \in Locks PROVE Cared(e)'
    <3>1. Cared(e)
      BY <1>1, <2>1, <2>3, Zenon DEF NobodyStranded, Cared
    <3>2. ASSUME NEW u \in Threads, Active(u), Root(u) = e.key[1], step[u].a = e.key[2],
                 step[u].do = "lock" => step[u].slow
          PROVE Cared(e)'
      <4>1. GroupOf[u] = GroupOf[e.owner]
        BY <1>1, <1>4, <2>1, <3>2, SameGroup DEF Alive
      <4>2. Root(u)' = Root(u) /\ Active(u)'
        BY <1>5, <1>8, <1>12, <2>1, <3>2, <4>1, Zenon
      <4> QED BY <1>3, <3>2, <4>2, Zenon DEF Cared
    <3> QED BY <1>4, <1>10, <2>1, <3>1, <3>2, Zenon DEF Cared
  <2> QED BY <2>2, <2>3, Zenon
<1> QED BY <1>14, <1>15, <1>16, <1>17, <1>18, <1>19, <1>20, Zenon DEF SInv, Bookkeeping

\* Every step keeps the strengthened invariant.
LEMMA NextSInv == SInv /\ Ordered /\ [Next]_vars => SInv' /\ Ordered'
<1> SUFFICES ASSUME SInv, Ordered, [Next]_vars PROVE SInv' /\ Ordered'
  BY Zenon
<1>1. IInv' /\ Ordered'
  BY NextIInv, NextOrdered, Zenon DEF SInv
<1>2. CASE UNCHANGED vars
  <2>1. /\ phase' = phase /\ rootOf' = rootOf /\ mem' = mem /\ queue' = queue
        /\ robust' = robust /\ ctid' = ctid /\ held' = held /\ step' = step
    BY <1>2, Zenon DEF vars, kernel
  <2>2. (Separate /\ Prepared /\ Waiting /\ TidWords /\ Queued)'
    BY <2>1, Zenon DEF SInv, Bookkeeping, Separate, Prepared, Waiting, Seen, TidWords, Queued, Alive, Active
  <2>3. OwnersAlive /\ NobodyStranded /\ \A p \in Procs : Members(p)' = Members(p)
    BY <2>1, Zenon DEF SInv, Members
  <2>4. OwnersAlive'
    BY <2>1, <2>3, Zenon DEF OwnersAlive
  <2>5. \A e \in queue : GroupOf[e.owner] \in Procs
    BY Entries, Zenon DEF SInv
  <2>6. NobodyStranded'
    BY <2>1, <2>3, <2>5, Zenon DEF NobodyStranded, Alive, Active, Root
  <2> QED BY <1>1, <2>2, <2>4, <2>6, Zenon DEF SInv, Bookkeeping
<1>3. CASE Next
  <2>1. PICK t \in Threads : /\ t = current
                             /\ User(t) \/ System(t) \/ \E u \in Threads : Switch(t, u)
    BY <1>3, Zenon DEF Next
  <2>2. CASE User(t)
    BY <1>1, <2>1, <2>2, MovesKeepSInv, MutexKeepsSInv, Zenon DEF User
  <2>3. CASE System(t)
    BY <1>1, <2>1, <2>3, MovesKeepSInv, WaitKeepsSInv, WakeKeepsSInv, CloneKeepsSInv,
       ExecveKeepsSInv, ThreadExitKeepsSInv, ExitGroupKeepsSInv, Zenon DEF System
  <2>4. CASE \E u \in Threads : Switch(t, u)
    BY <1>1, <2>1, <2>4, MovesKeepSInv, Zenon
  <2> QED BY <2>1, <2>2, <2>3, <2>4, Zenon
<1> QED BY <1>2, <1>3, Zenon

\* The strengthened invariant is inductive.
LEMMA StrandingInductive == Spec => []SInv
<1>1. Init => SInv /\ Ordered
  BY InitSInv, Zenon DEF Init, Ordered
<1>2. SInv /\ Ordered /\ [Next]_vars => SInv' /\ Ordered'
  BY NextSInv, Zenon
<1> QED BY <1>1, <1>2, PTL DEF Spec

\* A mutex is owned by nobody or by a live thread of the group that lists it, so
\* recover_robust_list reaches every mutex its thread dies with.
THEOREM NoDeadOwners == Spec => []OwnersAlive
<1>1. SInv => OwnersAlive
  BY Zenon DEF SInv
<1> QED BY <1>1, StrandingInductive, PTL

\* No wake is lost: wait_current compares and enqueues under the queue lock, an
\* unlock of a contended mutex and the death of its owner wake the oldest waiter,
\* and exit wakes the leader that waits for the tid word.
THEOREM NoLostWake == Spec => []NobodyStranded
<1>1. SInv => NobodyStranded
  BY Zenon DEF SInv
<1> QED BY <1>1, StrandingInductive, PTL
=============================================================================
