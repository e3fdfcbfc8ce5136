----------------------------- MODULE MCWaiting -----------------------------
(***************************************************************************)
(* Instances for TLC of what a thread waits for: Futex, Epoll, Signals and *)
(* TimerFd.  They share no state; a behaviour is one of one of them.       *)
(***************************************************************************)
EXTENDS MCFutex, MCEpoll, Signals, TimerFd

CONSTANTS t1, t2, t3

Action(h, d, r, m) == [handler |-> h, nodefer |-> d, resethand |-> r, mask |-> m]

Ignore == Action("ignore", FALSE, FALSE, {})

MCPrograms ==
  {[acts |-> {Action("handler", FALSE, FALSE, {9, 17}), Ignore}, masks |-> {{}, {9, 10}},
    sigs |-> {9, 10}, fds |-> {}],
   [acts |-> {Action("handler", TRUE, TRUE, {}), Default}, masks |-> {{10}},
    sigs |-> {10, 17}, fds |-> {}],
   [acts |-> {Action("handler", FALSE, FALSE, {})}, masks |-> {{9}, {10}},
    sigs |-> {9, 10}, fds |-> {1}]}

VARIABLE part

waitingVars == <<part, vars, epVars, sigVars, tfdVars>>

\* Three threads of a group share futexes, or a group of two at most execs
\* over a spare root.
WaitingInit ==
  /\ part \in {"group", "exec", "epoll", "signals", "timers"}
  /\ Init /\ EpInit /\ SigInit /\ TfdInit
  /\ rootOf = MCRootOf
  /\ part \notin {"group", "exec"} => current = a1
  /\ part # "epoll" => event.semaphore
  /\ part # "signals" => program = CHOOSE p \in MCPrograms : TRUE

FutexNext ==
  /\ Next
  /\ part = "group" => rootOf' = rootOf
  /\ part = "exec" => \E t \in {a2, a3} : phase'[t] = "unborn"

WaitingNext ==
  \/ part \in {"group", "exec"} /\ FutexNext /\ UNCHANGED <<part, epVars, sigVars, tfdVars>>
  \/ part = "epoll" /\ EpNext /\ UNCHANGED <<part, vars, sigVars, tfdVars>>
  \/ part = "signals" /\ SigNext /\ UNCHANGED <<part, vars, epVars, tfdVars>>
  \/ part = "timers" /\ TfdNext /\ UNCHANGED <<part, vars, epVars, sigVars>>

WaitingSpec == WaitingInit /\ [][WaitingNext]_waitingVars

\* Nothing tells apart the two peers of a1.
Alike == Permutations({a2, a3})
=============================================================================
