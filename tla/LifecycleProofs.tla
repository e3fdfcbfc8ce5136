-------------------------- MODULE LifecycleProofs --------------------------
(***************************************************************************)
(* Machine-checked proofs about Lifecycle, for every number of slots,      *)
(* every width of pid, generation and epoch, every set of services, and    *)
(* with fatal signals.                                                     *)
(***************************************************************************)
EXTENDS Lifecycle, TLAPS

\* A table whose occupied slots carry a real pid and launch, pids distinct.
Sound(t) ==
  /\ t \in [Index -> Slot]
  /\ \A i \in Index : Occupied(t, i) => t[i].pid \in Pids /\ t[i].launch \in Launch
  /\ \A i, j \in Index :
       Occupied(t, i) /\ Occupied(t, j) /\ t[i].pid = t[j].pid => i = j

NoneRunning(t) == \A k \in Index : t[k].phase # "Running"

\* What a scheduling decision establishes about the table and the CPU.
Decided ==
  /\ Sound(slots)
  /\ epoch \in Epochs
  /\ current \in UserHandles \cup {PID0}
  /\ cpu \in [pc : {"boot", "user", "return", "idle", "halt"},
              frame : [handle : UserHandles \cup {PID0}, epoch : Epochs,
                       root : Roots \cup {NoRoot}]]
  /\ RunningIsCurrent
  /\ ReturnGateOpens
  /\ IdleOnlyWithoutWork

\* Before PID1 is registered nothing has happened.
BootFresh ==
  cpu.pc = "boot" => /\ \A i \in Index : ~Occupied(slots, i)
                     /\ epoch = 0
                     /\ ticket = NoTicket

\* The inductive invariant.
IInv ==
  /\ Decided
  /\ nextPid \in 2 .. MaxPid
  /\ launched \subseteq ServiceLaunches
  /\ ticket \in [handle : UserHandles \cup {PID0}, epoch : Epochs]
  /\ TicketNamesDecision
  /\ BootFresh

-----------------------------------------------------------------------------
(* Decisions.                                                              *)

\* Setting the phase of one occupied slot to another live phase keeps a table
\* sound.
LEMMA PhaseSound ==
  ASSUME NEW t, Sound(t), NEW i \in Index, Occupied(t, i),
         NEW p \in Phases, p # "Free"
  PROVE  Sound([t EXCEPT ![i].phase = p])
<1> DEFINE u == [t EXCEPT ![i].phase = p]
<1>1. t \in [Index -> Slot] /\ t[i] \in Slot
  BY Zenon DEF Sound
<1>2. [t[i] EXCEPT !.phase = p] \in Slot
  BY <1>1, Zenon DEF Slot
<1>3. u = [t EXCEPT ![i] = [t[i] EXCEPT !.phase = p]]
  BY Zenon
<1>4. u \in [Index -> Slot]
  BY <1>1, <1>2, <1>3, Zenon
<1>5. \A k \in Index : /\ u[k].pid = t[k].pid /\ u[k].gen = t[k].gen
                       /\ u[k].launch = t[k].launch
                       /\ Occupied(u, k) <=> Occupied(t, k)
  BY <1>1, <1>2, Zenon DEF Slot, Occupied
<1> QED
  BY <1>4, <1>5, Zenon DEF Sound

\* resume_current, schedule_yield and the other functions that select a user
\* task: the selected slot becomes the only running one and its authority is
\* in the frame.
LEMMA RunDecides ==
  ASSUME NEW t, Sound(t), NEW j \in Index, Occupied(t, j),
         \A k \in Index \ {j} : t[k].phase # "Running",
         epoch \in Epochs, Run(t, j)
  PROVE  Decided' /\ epoch' = epoch + 1 /\ cpu'.pc = "return"
<1> DEFINE f == [handle |-> Handle(t, j), epoch |-> epoch + 1,
                 root |-> t[j].launch.root]
<1>1. /\ epoch < MaxEpoch
      /\ epoch' = epoch + 1
      /\ slots' = [t EXCEPT ![j].phase = "Running"]
      /\ current' = Handle(t, j)
      /\ cpu' = [pc |-> "return", frame |-> f]
  BY Zenon DEF Run
<1>2. Sound(slots')
  BY <1>1, PhaseSound, Zenon DEF Phases
<1>3. epoch' \in Epochs
  BY <1>1, LifecycleConstants DEF Epochs
<1>4. t \in [Index -> Slot] /\ t[j] \in Slot /\ t[j].pid \in Pids /\ t[j].launch \in Launch
  BY Zenon DEF Sound
<1>5. Handle(t, j) \in UserHandles
  BY <1>4, Zenon DEF Handle, UserHandles, Slot
<1>6. f \in [handle : UserHandles \cup {PID0}, epoch : Epochs,
             root : Roots \cup {NoRoot}]
  BY <1>1, <1>3, <1>4, <1>5, Zenon DEF Launch
<1>7. \A k \in Index : /\ slots'[k].pid = t[k].pid /\ slots'[k].gen = t[k].gen
                       /\ slots'[k].launch = t[k].launch
                       /\ slots'[k].phase = IF k = j THEN "Running" ELSE t[k].phase
  BY <1>1, <1>4, Zenon DEF Slot
<1>8. RunningIsCurrent'
  <2> SUFFICES ASSUME NEW k \in Index
               PROVE  slots'[k].phase = "Running" <=>
                        (Occupied(slots', k) /\ Handle(slots', k) = current')
    BY Zenon DEF RunningIsCurrent
  <2>1. CASE k = j
    BY <2>1, <1>1, <1>7, Zenon DEF Occupied, Handle
  <2>2. CASE k # j
    <3>1. slots'[k].phase # "Running"
      BY <2>2, <1>7, Zenon
    <3>2. ~(Occupied(slots', k) /\ Handle(slots', k) = current')
      <4> SUFFICES ASSUME Occupied(slots', k), Handle(slots', k) = current'
                   PROVE  FALSE
        BY Zenon
      <4>1. t[k].pid = t[j].pid
        BY <1>1, <1>7 DEF Handle
      <4>2. Occupied(t, k)
        BY <2>2, <1>7, Zenon DEF Occupied
      <4> QED
        BY <4>1, <4>2, <2>2, Zenon DEF Sound
    <3> QED
      BY <3>1, <3>2, Zenon
  <2> QED
    BY <2>1, <2>2, Zenon
<1>9. ReturnGateOpens'
  <2>1. cpu'.frame = f
    BY <1>1, Zenon
  <2>2. /\ slots'[j].phase = "Running" /\ Handle(slots', j) = f.handle
        /\ slots'[j].launch.root = f.root
    BY <1>7, Zenon DEF Handle
  <2> QED
    BY <2>1, <2>2, <1>1, Zenon DEF ReturnGateOpens, Authorized
<1>10. IdleOnlyWithoutWork'
  BY <1>1, Zenon DEF IdleOnlyWithoutWork
<1>11. cpu' \in [pc : {"boot", "user", "return", "idle", "halt"},
                 frame : [handle : UserHandles \cup {PID0}, epoch : Epochs,
                          root : Roots \cup {NoRoot}]]
  BY <1>1, <1>6, Zenon
<1> QED
  BY <1>1, <1>2, <1>3, <1>5, <1>8, <1>9, <1>10, <1>11, Zenon DEF Decided

\* The decision for PID0: no task runs and none could.
LEMMA IdleDecides ==
  ASSUME NEW t, Sound(t), NoneRunning(t), Runnable(t) = {},
         epoch \in Epochs, Idle(t)
  PROVE  Decided' /\ epoch' = epoch + 1 /\ cpu'.pc = "idle"
<1> DEFINE f == [NoFrame EXCEPT !.epoch = epoch + 1]
<1>1. /\ epoch < MaxEpoch
      /\ epoch' = epoch + 1
      /\ slots' = t
      /\ current' = PID0
      /\ cpu' = [pc |-> "idle", frame |-> f]
  BY Zenon DEF Idle
<1>2. epoch' \in Epochs
  BY <1>1, LifecycleConstants DEF Epochs
<1>3. f = [handle |-> PID0, epoch |-> epoch + 1, root |-> NoRoot]
  BY DEF NoFrame
<1>4. cpu' \in [pc : {"boot", "user", "return", "idle", "halt"},
                frame : [handle : UserHandles \cup {PID0}, epoch : Epochs,
                         root : Roots \cup {NoRoot}]]
  BY <1>1, <1>2, <1>3, Zenon
<1>5. RunningIsCurrent'
  <2> SUFFICES ASSUME NEW k \in Index
               PROVE  t[k].phase = "Running" <=> (Occupied(t, k) /\ Handle(t, k) = PID0)
    BY <1>1, Zenon DEF RunningIsCurrent
  <2>1. t[k].phase # "Running"
    BY Zenon DEF NoneRunning
  <2>2. ASSUME Occupied(t, k) PROVE Handle(t, k) # PID0
    <3>1. t[k].pid \in Pids
      BY <2>2, Zenon DEF Sound
    <3>2. t[k].pid # 0
      BY <3>1 DEF Pids
    <3> QED
      BY <3>2, Zenon DEF Handle, PID0
  <2> QED
    BY <2>1, <2>2, Zenon
<1>6. ReturnGateOpens' /\ IdleOnlyWithoutWork'
  BY <1>1, <1>3, Zenon DEF ReturnGateOpens, IdleOnlyWithoutWork
<1> QED
  BY <1>1, <1>2, <1>4, <1>5, <1>6, Zenon DEF Decided

\* next_runnable_index: a round-robin choice from candidates S that contain
\* all the work there is.
LEMMA DispatchDecides ==
  ASSUME NEW t, Sound(t), NoneRunning(t), NEW S, S \subseteq Runnable(t),
         S = {} => Runnable(t) = {}, NEW i, epoch \in Epochs, Dispatch(t, i, S)
  PROVE  Decided' /\ epoch' = epoch + 1 /\ cpu'.pc # "boot"
<1>1. CASE \E j \in S : IsNext(i, j, S) /\ Run(t, j)
  <2>1. PICK j \in S : Run(t, j)
    BY <1>1, Zenon
  <2>2. j \in Index /\ Occupied(t, j)
    BY Zenon DEF Runnable, Occupied
  <2> QED
    BY <2>1, <2>2, RunDecides, Zenon DEF NoneRunning
<1>2. CASE S = {} /\ Idle(t)
  BY <1>2, IdleDecides, Zenon
<1> QED
  BY <1>1, <1>2, Zenon DEF Dispatch

-----------------------------------------------------------------------------
(* Table updates.                                                          *)

\* Retiring a slot keeps the table sound.
LEMMA RetiredSlot ==
  ASSUME NEW s \in Slot
  PROVE  /\ Retired(s) \in Slot /\ Retired(s).phase = "Free"
         /\ Retired(s).gen >= s.gen
<1>1. s.gen \in Generations
  BY Zenon DEF Slot
<1>2. (IF s.gen = MaxGen THEN MaxGen ELSE s.gen + 1) \in Generations
  BY <1>1, LifecycleConstants DEF Generations
<1>3. 0 \in 0 .. MaxPid
  BY LifecycleConstants
<1>4. EMPTY(IF s.gen = MaxGen THEN MaxGen ELSE s.gen + 1) \in Slot
  BY <1>2, <1>3, Zenon DEF EMPTY, Slot, Phases
<1>5. (IF s.gen = MaxGen THEN MaxGen ELSE s.gen + 1) >= s.gen
  BY <1>1, LifecycleConstants DEF Generations
<1> QED
  BY <1>4, <1>5, Zenon DEF Retired, EMPTY

LEMMA RetireSound ==
  ASSUME NEW t, Sound(t), NEW i \in Index
  PROVE  Sound([t EXCEPT ![i] = Retired(@)])
<1>1. t \in [Index -> Slot] /\ t[i] \in Slot
  BY Zenon DEF Sound
<1>2. Retired(t[i]) \in Slot /\ Retired(t[i]).phase = "Free"
  BY <1>1, RetiredSlot, Zenon
<1> QED
  BY <1>1, <1>2, Zenon DEF Sound, Occupied

\* Filling a free slot with a pid no occupied slot has keeps it sound.
LEMMA InstallSound ==
  ASSUME NEW t, Sound(t), NEW j \in Index, ~Occupied(t, j), NEW s \in Slot,
         s.pid \in Pids \ OccupiedPids(t), s.launch \in Launch
  PROVE  Sound([t EXCEPT ![j] = s])
<1>1. \A k \in Index : Occupied(t, k) => t[k].pid # s.pid
  BY Zenon DEF OccupiedPids
<1> QED
  BY <1>1, Zenon DEF Sound, Occupied

\* Waking parked peers keeps the table sound and starts none of them.
LEMMA WakeSound ==
  ASSUME NEW t, Sound(t), NEW W, W \subseteq Index,
         \A k \in W : t[k].phase = "Blocked"
  PROVE  /\ Sound(mark_runnable(t, W))
         /\ \A k \in Index : /\ mark_runnable(t, W)[k].phase =
                                  IF k \in W THEN "Runnable" ELSE t[k].phase
                             /\ mark_runnable(t, W)[k].pid = t[k].pid
                             /\ mark_runnable(t, W)[k].gen = t[k].gen
                             /\ mark_runnable(t, W)[k].launch = t[k].launch
<1> DEFINE u == mark_runnable(t, W)
<1>1. \A k \in Index : t[k] \in Slot
  BY Zenon DEF Sound
<1>2. \A k \in Index : [t[k] EXCEPT !.phase = "Runnable"] \in Slot
  BY <1>1 DEF Slot, Phases
<1>3. u = [k \in Index |-> IF k \in W THEN [t[k] EXCEPT !.phase = "Runnable"] ELSE t[k]]
  BY Zenon DEF mark_runnable
<1>4. u \in [Index -> Slot]
  BY <1>1, <1>2, <1>3, Zenon
<1>5. \A k \in Index : /\ u[k].phase = IF k \in W THEN "Runnable" ELSE t[k].phase
                       /\ u[k].pid = t[k].pid /\ u[k].gen = t[k].gen
                       /\ u[k].launch = t[k].launch
  BY <1>1, <1>3 DEF Slot
<1>6. \A k \in Index : Occupied(u, k) <=> Occupied(t, k)
  BY <1>5, Zenon DEF Occupied
<1>7. Sound(u)
  BY <1>4, <1>5, <1>6, Zenon DEF Sound
<1> QED
  BY <1>5, <1>7, Zenon

-----------------------------------------------------------------------------
(* A handler starts from a table in which its caller, and only it, runs.   *)

Ready(t, i) ==
  /\ Sound(t)
  /\ t[i].phase = "Running"
  /\ \A k \in Index \ {i} : t[k].phase # "Running"

LEMMA CallerReady ==
  ASSUME Decided, NEW i \in Index, Caller(i)
  PROVE  Ready(slots, i) /\ Occupied(slots, i)
<1>1. Sound(slots) /\ RunningIsCurrent
  BY Zenon DEF Decided
<1>2. slots[i].phase = "Running" /\ Handle(slots, i) = current
  BY Zenon DEF Caller
<1>3. Occupied(slots, i)
  BY <1>2, Zenon DEF Occupied
<1>4. ASSUME NEW k \in Index \ {i} PROVE slots[k].phase # "Running"
  <2> SUFFICES ASSUME slots[k].phase = "Running" PROVE FALSE
    BY Zenon
  <2>1. Occupied(slots, k) /\ Handle(slots, k) = Handle(slots, i)
    BY <1>1, <1>2, Zenon DEF RunningIsCurrent
  <2>2. slots[k].pid = slots[i].pid
    BY <2>1, Zenon DEF Handle
  <2> QED
    BY <1>1, <1>3, <2>1, <2>2, Zenon DEF Sound
<1> QED
  BY <1>1, <1>2, <1>3, <1>4, Zenon DEF Ready

LEMMA ResumeDecides ==
  ASSUME NEW t, NEW i \in Index, Ready(t, i), epoch \in Epochs, resume_current(t, i)
  PROVE  Decided' /\ epoch' = epoch + 1 /\ cpu'.pc # "boot"
<1>1. Occupied(t, i) /\ Sound(t) /\ Run(t, i)
  BY Zenon DEF Ready, Occupied, resume_current
<1> QED
  BY <1>1, RunDecides, Zenon DEF Ready

LEMMA RotateDecides ==
  ASSUME NEW t, NEW i \in Index, Ready(t, i), epoch \in Epochs, Rotate(t, i)
  PROVE  Decided' /\ epoch' = epoch + 1 /\ cpu'.pc # "boot"
<1> DEFINE u == [t EXCEPT ![i].phase = "Runnable"]
<1>1. Occupied(t, i) /\ Sound(t)
  BY Zenon DEF Ready, Occupied
<1>2. CASE \E j \in Runnable(t) : Run(u, j)
  <2>1. PICK j \in Runnable(t) : Run(u, j)
    BY <1>2, Zenon
  <2>2. Sound(u)
    BY <1>1, PhaseSound, Zenon DEF Phases
  <2>3. t \in [Index -> Slot]
    BY <1>1, Zenon DEF Sound
  <2>4. \A k \in Index : u[k].phase = IF k = i THEN "Runnable" ELSE t[k].phase
    BY <2>3, Zenon DEF Slot
  <2>5. j \in Index /\ Occupied(u, j) /\ \A k \in Index \ {j} : u[k].phase # "Running"
    BY <2>4, Zenon DEF Ready, Runnable, Occupied
  <2> HIDE DEF u
  <2> QED
    BY <2>1, <2>2, <2>5, RunDecides, Zenon
<1>3. CASE Run(t, i)
  BY <1>1, <1>3, RunDecides, Zenon DEF Ready
<1> QED
  BY <1>2, <1>3, Zenon DEF Rotate

LEMMA SafePointDecides ==
  ASSUME NEW t, NEW i \in Index, Ready(t, i), epoch \in Epochs, SafePoint(t, i)
  PROVE  Decided' /\ epoch' = epoch + 1 /\ cpu'.pc # "boot" /\ ticket' = NoTicket
BY RotateDecides, ResumeDecides, Zenon DEF SafePoint

\* The caller stops, in phase p: schedule_block and schedule_exit.
LEMMA StopDecides ==
  ASSUME NEW t, NEW i \in Index, Ready(t, i), epoch \in Epochs,
         NEW p \in {"Blocked", "Zombie"},
         Dispatch([t EXCEPT ![i].phase = p], i, Runnable(t))
  PROVE  Decided' /\ epoch' = epoch + 1 /\ cpu'.pc # "boot"
<1> DEFINE u == [t EXCEPT ![i].phase = p]
<1>1. Occupied(t, i) /\ Sound(t)
  BY Zenon DEF Ready, Occupied
<1>2. Sound(u)
  BY <1>1, PhaseSound, Zenon DEF Phases
<1>3. t \in [Index -> Slot]
  BY <1>1, Zenon DEF Sound
<1>4. \A k \in Index : u[k].phase = IF k = i THEN p ELSE t[k].phase
  BY <1>3, Zenon DEF Slot
<1>5. NoneRunning(u) /\ Runnable(u) = Runnable(t)
  BY <1>4, Zenon DEF Ready, NoneRunning, Runnable
<1>6. Dispatch(u, i, Runnable(u))
  BY <1>5, Zenon
<1> HIDE DEF u
<1> QED
  BY <1>2, <1>5, <1>6, DispatchDecides, Zenon

LEMMA ThreadExitDecides ==
  ASSUME NEW t, NEW i \in Index, Ready(t, i), epoch \in Epochs,
         schedule_thread_exit(t, i)
  PROVE  Decided' /\ epoch' = epoch + 1 /\ cpu'.pc # "boot"
<1> DEFINE u == [t EXCEPT ![i] = Retired(@)]
<1>1. Sound(t) /\ t \in [Index -> Slot] /\ t[i] \in Slot
  BY Zenon DEF Ready, Sound
<1>2. Sound(u)
  BY <1>1, RetireSound, Zenon
<1>3. Retired(t[i]).phase = "Free"
  BY <1>1, RetiredSlot, Zenon
<1>4. \A k \in Index : u[k].phase = IF k = i THEN "Free" ELSE t[k].phase
  BY <1>1, <1>3, Zenon
<1>5. NoneRunning(u) /\ Runnable(u) = Runnable(t)
  BY <1>4 DEF Ready, NoneRunning, Runnable
<1>6. Dispatch(u, i, Runnable(u))
  BY <1>5, Zenon DEF schedule_thread_exit
<1> HIDE DEF u
<1> QED
  BY <1>2, <1>5, <1>6, DispatchDecides, Zenon

\* schedule_exit_group: all members go at once, whatever they were doing.
LEMMA GroupExitDecides ==
  ASSUME NEW i \in Index, Ready(slots, i), epoch \in Epochs, schedule_exit_group(i)
  PROVE  Decided' /\ epoch' = epoch + 1 /\ cpu'.pc # "boot"
<1> DEFINE g == slots[i].group
           M == Members(slots, g)
           S == Runnable(slots) \ M
           gone == [k \in Index |->
                      IF k \notin M THEN slots[k]
                      ELSE IF IsLeader(slots, k) THEN [slots[k] EXCEPT !.phase = "Zombie"]
                      ELSE Retired(slots[k])]
<1>1. Sound(slots) /\ \A k \in Index : slots[k] \in Slot
  BY Zenon DEF Ready, Sound
<1>2. \A k \in Index : /\ [slots[k] EXCEPT !.phase = "Zombie"] \in Slot
                       /\ [slots[k] EXCEPT !.phase = "Zombie"].phase = "Zombie"
                       /\ [slots[k] EXCEPT !.phase = "Zombie"].pid = slots[k].pid
                       /\ [slots[k] EXCEPT !.phase = "Zombie"].launch = slots[k].launch
  BY <1>1, Zenon DEF Slot, Phases
<1>3. \A k \in Index : Retired(slots[k]) \in Slot /\ Retired(slots[k]).phase = "Free"
  BY <1>1, RetiredSlot, Zenon
<1>4. gone \in [Index -> Slot]
  BY <1>1, <1>2, <1>3, Zenon
<1>5. \A k \in Index : /\ k \notin M => gone[k] = slots[k]
                       /\ k \in M => gone[k].phase \in {"Zombie", "Free"}
                       /\ Occupied(gone, k) => /\ Occupied(slots, k)
                                               /\ gone[k].pid = slots[k].pid
                                               /\ gone[k].launch = slots[k].launch
  BY <1>1, <1>2, <1>3, Zenon DEF Occupied, Members
<1>6. Sound(gone)
  <2> HIDE DEF gone
  <2> QED
    BY <1>1, <1>4, <1>5, Zenon DEF Sound
<1>7. i \in M
  BY Zenon DEF Members, Ready, Occupied
<1>8. NoneRunning(gone) /\ Runnable(gone) = S
  <2> HIDE DEF gone, M
  <2> QED
    BY <1>5, <1>7 DEF NoneRunning, Runnable, Ready
<1>9. Dispatch(gone, i, S)
  BY Zenon DEF schedule_exit_group
<1> HIDE DEF gone, S
<1> QED
  BY <1>6, <1>8, <1>9, DispatchDecides, Zenon

-----------------------------------------------------------------------------
(* The invariant: initially, and across each action.                       *)

LEMMA InitIInv == Init => IInv
<1> SUFFICES ASSUME Init PROVE IInv
  BY Zenon
<1>1. EMPTY(1) \in Slot /\ EMPTY(1).phase = "Free"
  BY LifecycleConstants DEF EMPTY, Slot, Phases, Generations
<1>2. slots \in [Index -> Slot] /\ \A i \in Index : slots[i].phase = "Free"
  BY <1>1, Zenon DEF Init
<1>3. Sound(slots)
  BY <1>2, Zenon DEF Sound, Occupied
<1>4. 0 \in Epochs /\ 2 \in 2 .. MaxPid
  BY LifecycleConstants DEF Epochs
<1>5. NoFrame \in [handle : UserHandles \cup {PID0}, epoch : Epochs,
                   root : Roots \cup {NoRoot}]
  BY <1>4, Zenon DEF NoFrame
<1>6. RunningIsCurrent
  BY <1>2, Zenon DEF RunningIsCurrent, Occupied
<1>7. Decided
  BY <1>3, <1>4, <1>5, <1>6, Zenon DEF Init, Decided, ReturnGateOpens, IdleOnlyWithoutWork
<1>8. ticket \in [handle : UserHandles \cup {PID0}, epoch : Epochs]
  BY <1>4, Zenon DEF Init, NoTicket
<1> QED
  BY <1>2, <1>4, <1>7, <1>8, Zenon DEF Init, IInv, TicketNamesDecision, BootFresh, Occupied

\* A decision makes every pending ticket stale.
LEMMA DecisionKeepsIInv ==
  ASSUME IInv, Decided', epoch' > epoch, cpu'.pc # "boot",
         ticket' \in {ticket, NoTicket}, nextPid' \in 2 .. MaxPid,
         launched' \subseteq ServiceLaunches
  PROVE  IInv'
<1>1. ticket \in [handle : UserHandles \cup {PID0}, epoch : Epochs] /\ epoch \in Epochs
  BY Zenon DEF IInv, Decided
<1>2. NoTicket \in [handle : UserHandles \cup {PID0}, epoch : Epochs]
  BY LifecycleConstants DEF NoTicket, Epochs
<1>3. TicketNamesDecision'
  <2> SUFFICES ASSUME ticket' # NoTicket
               PROVE  ticket'.epoch <= epoch' /\ ticket'.epoch # epoch'
    BY Zenon DEF TicketNamesDecision
  <2>1. ticket' = ticket /\ ticket.epoch <= epoch
    BY Zenon DEF IInv, TicketNamesDecision
  <2>2. ticket.epoch \in Int /\ epoch \in Int /\ epoch' \in Int
    BY <1>1 DEF Epochs, Decided
  <2> QED
    BY <2>1, <2>2
<1> QED
  BY <1>1, <1>2, <1>3, Zenon DEF IInv, BootFresh

\* allocate_pid returns a pid no occupied slot has, and the counter stays in
\* range although it wraps.
LEMMA AllocatedPid ==
  ASSUME nextPid \in 2 .. MaxPid, NEW k \in 0 .. NSlots, NEW p,
         allocate_pid(slots, k, p)
  PROVE  p \notin OccupiedPids(slots) /\ nextPid' \in 2 .. MaxPid
BY LifecycleConstants DEF allocate_pid, PidAfter

\* The peer and the child are well-formed occupants of the slot they take.
LEMMA InstallReady ==
  ASSUME NEW i \in Index, Ready(slots, i), NEW j \in Index, FirstUsable(slots, j),
         NEW p \in Pids, p \notin OccupiedPids(slots),
         NEW s, s \in Slot, s.phase = "Runnable", s.pid = p, s.launch \in Launch
  PROVE  Ready([slots EXCEPT ![j] = s], i)
<1> DEFINE u == [slots EXCEPT ![j] = s]
<1>1. Sound(slots) /\ slots \in [Index -> Slot] /\ ~Occupied(slots, j) /\ i # j
  BY Zenon DEF Ready, Sound, FirstUsable, Usable, Occupied
<1>2. Sound(u)
  BY <1>1, InstallSound, Zenon
<1>3. \A k \in Index : u[k].phase = IF k = j THEN "Runnable" ELSE slots[k].phase
  BY <1>1, Zenon
<1> QED
  BY <1>1, <1>2, <1>3, Zenon DEF Ready

LEMMA PeerSlot ==
  ASSUME NEW i \in Index, Ready(slots, i), NEW j \in Index, FirstUsable(slots, j),
         NEW p \in Pids
  PROVE  Peer(i, j, p) \in Slot /\ Peer(i, j, p).launch \in Launch
<1>1. slots[i] \in Slot /\ slots[j] \in Slot /\ slots[i].launch \in Launch
  BY Zenon DEF Ready, Sound, Occupied
<1>2. slots[j].gen + 1 \in Generations
  BY <1>1, LifecycleConstants DEF FirstUsable, Usable, Generations, Slot
<1>3. p \in 0 .. MaxPid
  BY DEF Pids
<1> QED
  BY <1>1, <1>2, <1>3, Zenon DEF Peer, Slot, Phases

LEMMA ChildSlot ==
  ASSUME NEW i \in Index, Ready(slots, i), NEW j \in Index, FirstUsable(slots, j),
         NEW p \in Pids, NEW l \in Launch
  PROVE  Child(i, j, p, l) \in Slot
<1>1. slots[i] \in Slot /\ slots[j] \in Slot
  BY Zenon DEF Ready, Sound
<1>2. slots[j].gen + 1 \in Generations
  BY <1>1, LifecycleConstants DEF FirstUsable, Usable, Generations, Slot
<1>3. p \in 0 .. MaxPid
  BY DEF Pids
<1> QED
  BY <1>1, <1>2, <1>3, Zenon DEF Child, Slot, Phases

LEMMA WakeReady ==
  ASSUME NEW i \in Index, Ready(slots, i), NEW W \in SUBSET Parked(i)
  PROVE  Ready(mark_runnable(slots, W), i)
<1>1. W \subseteq Index /\ \A k \in W : slots[k].phase = "Blocked"
  BY Zenon DEF Parked
<1>2. Sound(slots)
  BY Zenon DEF Ready
<1>3. i \notin W
  BY <1>1, Zenon DEF Ready
<1> QED
  BY <1>1, <1>2, <1>3, WakeSound DEF Ready

LEMMA ReapedReady ==
  ASSUME NEW i \in Index, Ready(slots, i), NEW z \in Index, ZombieChild(i, z)
  PROVE  Ready(Reaped(z), i)
<1>1. Sound(slots) /\ slots \in [Index -> Slot] /\ z # i
  BY Zenon DEF Ready, Sound, ZombieChild
<1>2. Sound(Reaped(z))
  BY <1>1, RetireSound, Zenon DEF Reaped
<1>3. Retired(slots[z]).phase = "Free"
  BY <1>1, RetiredSlot, Zenon
<1>4. \A k \in Index : Reaped(z)[k].phase = IF k = z THEN "Free" ELSE slots[k].phase
  BY <1>1, <1>3, Zenon DEF Reaped
<1> QED
  BY <1>1, <1>2, <1>4, Zenon DEF Ready

\* Stopping the machine changes nothing the invariant speaks of.
LEMMA HaltKeepsIInv ==
  ASSUME IInv, Halt, ticket' \in {ticket, NoTicket}, UNCHANGED launched
  PROVE  IInv'
<1>1. /\ slots' = slots /\ nextPid' = nextPid /\ epoch' = epoch /\ current' = current
      /\ cpu' = [pc |-> "halt", frame |-> NoFrame] /\ launched' = launched
  BY Zenon DEF Halt, tableVars
<1>2. 0 \in Epochs
  BY LifecycleConstants DEF Epochs
<1>3. NoFrame \in [handle : UserHandles \cup {PID0}, epoch : Epochs,
                   root : Roots \cup {NoRoot}]
  BY <1>2, Zenon DEF NoFrame
<1>4. NoTicket \in [handle : UserHandles \cup {PID0}, epoch : Epochs]
  BY <1>2, Zenon DEF NoTicket
<1>5. Decided'
  BY <1>1, <1>3, Zenon DEF IInv, Decided, RunningIsCurrent, ReturnGateOpens, IdleOnlyWithoutWork
<1>6. TicketNamesDecision'
  BY <1>1, Zenon DEF IInv, TicketNamesDecision
<1> QED
  BY <1>1, <1>4, <1>5, <1>6, Zenon DEF IInv, BootFresh

\* A handler that decides, whatever it does to the pid counter.
LEMMA ExitReturnKeepsIInv ==
  ASSUME IInv, NEW i \in Index, Caller(i), schedule_exit_return(i)
  PROVE  IInv'
<1>1. Ready(slots, i) /\ epoch \in Epochs
  BY CallerReady, Zenon DEF IInv, Decided
<1>2. PICK W \in SUBSET Parked(i) :
        LET t == mark_runnable(slots, W) IN
        IF IsLeader(slots, i) THEN schedule_exit(t, i) ELSE schedule_thread_exit(t, i)
  BY Zenon DEF schedule_exit_return
<1> DEFINE t == mark_runnable(slots, W)
<1>3. Ready(t, i)
  BY <1>1, WakeReady, Zenon
<1>4. schedule_exit(t, i) \/ schedule_thread_exit(t, i)
  BY <1>2, Zenon
<1> HIDE DEF t
<1>5. Decided' /\ epoch' = epoch + 1 /\ cpu'.pc # "boot"
  BY <1>1, <1>3, <1>4, StopDecides, ThreadExitDecides, Zenon DEF schedule_exit
<1>6. epoch' > epoch
  BY <1>1, <1>5 DEF Epochs
<1> QED
  BY <1>5, <1>6, DecisionKeepsIInv, Zenon DEF schedule_exit_return, IInv

LEMMA CloneRolledBackKeepsIInv ==
  ASSUME IInv, NEW i \in Index, CloneRolledBack(i)
  PROVE  IInv'
<1>1. Caller(i)
  BY Zenon DEF CloneRolledBack, CallerAbi
<1>2. Ready(slots, i) /\ epoch \in Epochs /\ Sound(slots) /\ slots[i].launch \in Launch
  BY <1>1, CallerReady, Zenon DEF IInv, Decided, Sound
<1>3. PICK k \in 0 .. NSlots, p \in Pids, j \in Index :
        /\ allocate_pid(slots, k, p)
        /\ FirstUsable(slots, j)
        /\ slots' = [slots EXCEPT ![j] = Retired(Peer(i, j, p))]
  BY Zenon DEF CloneRolledBack
<1>4. nextPid' \in 2 .. MaxPid
  BY <1>3, AllocatedPid, Zenon DEF IInv
<1>5. Peer(i, j, p) \in Slot
  BY <1>2, <1>3, PeerSlot, Zenon
<1>6. Retired(Peer(i, j, p)) \in Slot /\ Retired(Peer(i, j, p)).phase = "Free"
  BY <1>5, RetiredSlot, Zenon
<1>7. ~Occupied(slots, j) /\ i # j
  BY <1>2, <1>3, Zenon DEF FirstUsable, Usable, Ready, Occupied
<1>8. Sound(slots')
  BY <1>2, <1>3, <1>6, Zenon DEF Sound, Occupied
<1>9. \A m \in Index \ {j} : slots'[m] = slots[m]
  BY <1>2, <1>3, Zenon DEF Sound
<1>10. slots'[j].phase = "Free"
  BY <1>2, <1>3, <1>6, Zenon DEF Sound
<1>11. /\ epoch' = epoch + 2 /\ epoch' \in Epochs /\ epoch' > epoch
       /\ current' = current /\ ticket' = ticket /\ launched' = launched
       /\ cpu' = [pc |-> "return",
                  frame |-> [handle |-> current, epoch |-> epoch + 2,
                             root |-> slots[i].launch.root]]
  BY <1>2, LifecycleConstants DEF CloneRolledBack, Epochs
<1>12. RunningIsCurrent'
  <2>1. \A m \in Index : slots[m].phase = "Running" <=>
                           (Occupied(slots, m) /\ Handle(slots, m) = current)
    BY Zenon DEF IInv, Decided, RunningIsCurrent
  <2>2. \A m \in Index : slots'[m].phase = "Running" <=>
                           (Occupied(slots', m) /\ Handle(slots', m) = current)
    BY <2>1, <1>9, <1>10, Zenon DEF Occupied, Handle
  <2> QED
    BY <2>2, <1>11, Zenon DEF RunningIsCurrent
<1>13. slots'[i] = slots[i] /\ slots[i].phase = "Running" /\ Handle(slots, i) = current
  BY <1>1, <1>7, <1>9, Zenon DEF Caller
<1>14. Authorized(cpu.frame)'
  BY <1>11, <1>13, Zenon DEF Authorized, Handle
<1>15. cpu' \in [pc : {"boot", "user", "return", "idle", "halt"},
                 frame : [handle : UserHandles \cup {PID0}, epoch : Epochs,
                          root : Roots \cup {NoRoot}]]
  BY <1>2, <1>11, Zenon DEF IInv, Decided, Launch
<1>16. Decided'
  BY <1>8, <1>11, <1>12, <1>14, <1>15, Zenon
     DEF IInv, Decided, ReturnGateOpens, IdleOnlyWithoutWork
<1>17. cpu'.pc # "boot"
  BY <1>11, Zenon
<1> QED
  BY <1>4, <1>11, <1>16, <1>17, DecisionKeepsIInv, Zenon DEF IInv

LEMMA LinuxKeepsIInv ==
  ASSUME IInv, NEW i \in Index, LinuxStep(i)
  PROVE  IInv'
<1>1. Caller(i)
  BY Zenon DEF LinuxStep, LinuxResult, LinuxSyscall, Clone, CloneRefused,
         CloneRolledBack, Execve, FutexWait, LinuxExit, FatalSignal,
         LinuxExitGroup, CallerAbi
<1>2. /\ Ready(slots, i) /\ Occupied(slots, i) /\ epoch \in Epochs /\ Sound(slots)
      /\ nextPid \in 2 .. MaxPid /\ launched \subseteq ServiceLaunches
  BY <1>1, CallerReady, Zenon DEF IInv, Decided
<1>3. epoch + 1 > epoch
  BY <1>2 DEF Epochs
<1>4. CASE LinuxResult(i)
  <2>1. PICK W \in SUBSET Parked(i) : resume_current(mark_runnable(slots, W), i)
    BY <1>4, Zenon DEF LinuxResult
  <2>2. Decided' /\ epoch' = epoch + 1 /\ cpu'.pc # "boot"
    BY <1>2, <2>1, WakeReady, ResumeDecides, Zenon
  <2> QED
    BY <1>2, <1>3, <1>4, <2>2, DecisionKeepsIInv, Zenon DEF LinuxResult
<1>5. CASE LinuxSyscall(i)
  <2>1. CASE resume_current(slots, i)
    BY <1>2, <1>3, <1>5, <2>1, ResumeDecides, DecisionKeepsIInv, Zenon DEF LinuxSyscall
  <2>2. CASE Halt
    BY <1>5, <2>2, HaltKeepsIInv, Zenon DEF LinuxSyscall
  <2> QED
    BY <1>5, <2>1, <2>2, Zenon DEF LinuxSyscall, ResumeWithSignals
<1>6. CASE Clone(i)
  <2>1. PICK k \in 0 .. NSlots, p \in Pids, j \in Index :
          /\ allocate_pid(slots, k, p)
          /\ FirstUsable(slots, j)
          /\ resume_current([slots EXCEPT ![j] = Peer(i, j, p)], i)
    BY <1>6, Zenon DEF Clone
  <2>2. p \notin OccupiedPids(slots) /\ nextPid' \in 2 .. MaxPid
    BY <1>2, <2>1, AllocatedPid, Zenon
  <2>3. Peer(i, j, p) \in Slot /\ Peer(i, j, p).launch \in Launch
    BY <1>2, <2>1, PeerSlot, Zenon
  <2>4. Peer(i, j, p).phase = "Runnable" /\ Peer(i, j, p).pid = p
    BY Zenon DEF Peer
  <2>5. Ready([slots EXCEPT ![j] = Peer(i, j, p)], i)
    BY <1>2, <2>1, <2>2, <2>3, <2>4, InstallReady, Zenon
  <2>6. Decided' /\ epoch' = epoch + 1 /\ cpu'.pc # "boot"
    BY <1>2, <2>1, <2>5, ResumeDecides, Zenon
  <2> QED
    BY <1>2, <1>3, <1>6, <2>2, <2>6, DecisionKeepsIInv, Zenon DEF Clone
<1>7. CASE CloneRefused(i)
  <2>1. nextPid' \in 2 .. MaxPid
    BY <1>2, <1>7, AllocatedPid, Zenon DEF CloneRefused
  <2>2. Decided' /\ epoch' = epoch + 1 /\ cpu'.pc # "boot"
    BY <1>2, <1>7, ResumeDecides, Zenon DEF CloneRefused
  <2> QED
    BY <1>2, <1>3, <1>7, <2>1, <2>2, DecisionKeepsIInv, Zenon DEF CloneRefused
<1>8. CASE CloneRolledBack(i)
  BY <1>8, CloneRolledBackKeepsIInv, Zenon
<1>9. CASE Execve(i)
  <2>1. PICK r \in Roots : resume_current([slots EXCEPT ![i].launch.root = r], i)
    BY <1>9, Zenon DEF Execve
  <2> DEFINE u == [slots EXCEPT ![i].launch.root = r]
  <2>2. slots \in [Index -> Slot] /\ slots[i] \in Slot /\ slots[i].launch \in Launch
    BY <1>2, Zenon DEF Sound
  <2> DEFINE l == [slots[i].launch EXCEPT !.root = r]
             s == [slots[i] EXCEPT !.launch = l]
  <2>3. l \in Launch
    BY <2>2, Zenon DEF Launch
  <2>4. s \in Slot /\ s.phase = slots[i].phase /\ s.pid = slots[i].pid /\ s.launch = l
    <3> HIDE DEF l
    <3> QED
      BY <2>2, <2>3, Zenon DEF Slot
  <2>5. u = [slots EXCEPT ![i] = s]
    BY Zenon
  <2> HIDE DEF s, l, u
  <2>6. u \in [Index -> Slot] /\ \A k \in Index :
           /\ u[k].phase = slots[k].phase /\ u[k].pid = slots[k].pid
           /\ u[k].launch = IF k = i THEN l ELSE slots[k].launch
    BY <2>2, <2>4, <2>5, Zenon
  <2>7. Sound(u)
    BY <1>2, <2>3, <2>6 DEF Sound, Occupied
  <2>8. Ready(u, i)
    BY <1>2, <2>6, <2>7, Zenon DEF Ready
  <2>9. resume_current(u, i)
    BY <2>1, Zenon DEF u
  <2>10. Decided' /\ epoch' = epoch + 1 /\ cpu'.pc # "boot"
    BY <1>2, <2>8, <2>9, ResumeDecides, Zenon
  <2> QED
    BY <1>2, <1>3, <1>9, <2>10, DecisionKeepsIInv, Zenon DEF Execve
<1>10. CASE FutexWait(i)
  <2>1. Decided' /\ epoch' = epoch + 1 /\ cpu'.pc # "boot"
    BY <1>2, <1>10, StopDecides, Zenon DEF FutexWait, schedule_block
  <2> QED
    BY <1>2, <1>3, <1>10, <2>1, DecisionKeepsIInv, Zenon DEF FutexWait
<1>11. CASE LinuxExit(i) \/ FatalSignal(i)
  BY <1>1, <1>11, ExitReturnKeepsIInv, Zenon DEF LinuxExit, FatalSignal
<1>12. CASE LinuxExitGroup(i)
  <2>1. CASE schedule_exit_group(i)
    BY <1>2, <1>3, <1>12, <2>1, GroupExitDecides, DecisionKeepsIInv, Zenon DEF LinuxExitGroup
  <2>2. CASE Halt
    BY <1>12, <2>2, HaltKeepsIInv, Zenon DEF LinuxExitGroup
  <2> QED
    BY <1>12, <2>1, <2>2, Zenon DEF LinuxExitGroup
<1> QED
  BY <1>4, <1>5, <1>6, <1>7, <1>8, <1>9, <1>10, <1>11, <1>12, Zenon DEF LinuxStep

LEMMA NativeKeepsIInv ==
  ASSUME IInv, NEW i \in Index, NativeStep(i)
  PROVE  IInv'
<1>1. Caller(i)
  BY Zenon DEF NativeStep, NativeSyscall, NativeYield, NativeExit, Spawn, SpawnRefused,
         NativeWait, CallerAbi
<1>2. /\ Ready(slots, i) /\ epoch \in Epochs
      /\ nextPid \in 2 .. MaxPid /\ launched \subseteq ServiceLaunches
  BY <1>1, CallerReady, Zenon DEF IInv, Decided
<1>3. epoch + 1 > epoch
  BY <1>2 DEF Epochs
<1>4. ASSUME NEW t, Ready(t, i), SafePoint(t, i), nextPid' \in 2 .. MaxPid,
             launched' \subseteq ServiceLaunches
      PROVE  IInv'
  BY <1>2, <1>3, <1>4, SafePointDecides, DecisionKeepsIInv, Zenon
<1>5. CASE NativeSyscall(i)
  BY <1>2, <1>4, <1>5, Zenon DEF NativeSyscall
<1>6. CASE NativeYield(i)
  BY <1>2, <1>3, <1>6, RotateDecides, DecisionKeepsIInv, Zenon DEF NativeYield
<1>7. CASE NativeExit(i)
  BY <1>1, <1>7, ExitReturnKeepsIInv, Zenon DEF NativeExit
<1>8. CASE Spawn(i)
  <2>1. PICK l \in ServiceLaunches \ launched, k \in 0 .. NSlots, p \in Pids, j \in Index :
          /\ allocate_pid(slots, k, p)
          /\ FirstUsable(slots, j)
          /\ SafePoint([slots EXCEPT ![j] = Child(i, j, p, l)], i)
          /\ launched' = launched \cup {l}
    BY <1>8, Zenon DEF Spawn
  <2>2. p \notin OccupiedPids(slots) /\ nextPid' \in 2 .. MaxPid
    BY <1>2, <2>1, AllocatedPid, Zenon
  <2>3. l \in Launch /\ launched' \subseteq ServiceLaunches
    BY <1>2, <2>1, LifecycleConstants, Zenon
  <2>4. Child(i, j, p, l) \in Slot
    BY <1>2, <2>1, <2>3, ChildSlot, Zenon
  <2>5. /\ Child(i, j, p, l).phase = "Runnable" /\ Child(i, j, p, l).pid = p
        /\ Child(i, j, p, l).launch = l
    BY Zenon DEF Child
  <2>6. Ready([slots EXCEPT ![j] = Child(i, j, p, l)], i)
    BY <1>2, <2>1, <2>2, <2>3, <2>4, <2>5, InstallReady, Zenon
  <2> QED
    BY <1>4, <2>1, <2>2, <2>3, <2>6, Zenon
<1>9. CASE SpawnRefused(i)
  <2>1. nextPid' \in 2 .. MaxPid
    BY <1>2, <1>9, AllocatedPid, Zenon DEF SpawnRefused
  <2> QED
    BY <1>2, <1>4, <1>9, <2>1, Zenon DEF SpawnRefused
<1>10. CASE NativeWait(i)
  <2>1. PICK z \in Index : ZombieChild(i, z) /\ SafePoint(Reaped(z), i)
    BY <1>10, Zenon DEF NativeWait
  <2>2. Ready(Reaped(z), i)
    BY <1>2, <2>1, ReapedReady, Zenon
  <2> QED
    BY <1>2, <1>4, <1>10, <2>1, <2>2, Zenon DEF NativeWait
<1> QED
  BY <1>5, <1>6, <1>7, <1>8, <1>9, <1>10, Zenon DEF NativeStep

LEMMA BootKeepsIInv ==
  ASSUME IInv, Boot
  PROVE  IInv'
<1>0. PICK l \in InitLaunches :
        slots' = [slots EXCEPT ![0] =
                    [phase |-> "Running", gen |-> slots[0].gen, pid |-> INIT_PID,
                     group |-> INIT_PID, parent |-> 0, launch |-> l]]
  BY Zenon DEF Boot
<1> DEFINE s == [phase |-> "Running", gen |-> slots[0].gen, pid |-> INIT_PID,
                 group |-> INIT_PID, parent |-> 0, launch |-> l]
<1>1. /\ Sound(slots) /\ epoch = 0 /\ ticket = NoTicket
      /\ \A k \in Index : slots[k].phase = "Free"
  BY Zenon DEF IInv, Decided, BootFresh, Boot, Occupied
<1>2. 0 \in Index /\ 1 \in Epochs /\ 0 \in Epochs /\ INIT_PID \in Pids /\ 0 \in 0 .. MaxPid
  BY LifecycleConstants DEF Index, Epochs, INIT_PID, Pids
<1>3. slots \in [Index -> Slot] /\ slots[0].gen \in Generations
  BY <1>1, <1>2, Zenon DEF Sound, Slot
<1>4. INIT_PID \in 0 .. MaxPid /\ l \in Launch
  BY LifecycleConstants DEF INIT_PID
<1>5. s \in Slot
  BY <1>2, <1>3, <1>4, Zenon DEF Slot, Phases
<1>6. slots' = [slots EXCEPT ![0] = s]
  BY <1>0, Zenon
<1>7. \A k \in Index : slots'[k] = IF k = 0 THEN s ELSE slots[k]
  BY <1>2, <1>3, <1>6, Zenon
<1>8. Sound(slots')
  <2>1. slots' \in [Index -> Slot]
    BY <1>3, <1>5, <1>6, Zenon
  <2>2. \A k \in Index : Occupied(slots', k) => k = 0
    BY <1>1, <1>7, Zenon DEF Occupied
  <2> QED
    BY <1>2, <1>4, <1>7, <2>1, <2>2 DEF Sound
<1>9. /\ current' = [pid |-> INIT_PID, gen |-> slots[0].gen] /\ epoch' = 1
      /\ cpu' = [pc |-> "user", frame |-> NoFrame]
      /\ nextPid' = nextPid /\ launched' = launched /\ ticket' = NoTicket
  BY <1>1 DEF Boot
<1>10. current' \in UserHandles
  BY <1>2, <1>3, <1>9, Zenon DEF UserHandles
<1>11. RunningIsCurrent'
  BY <1>1, <1>7, <1>9 DEF RunningIsCurrent, Occupied, Handle
<1>12. NoFrame \in [handle : UserHandles \cup {PID0}, epoch : Epochs,
                    root : Roots \cup {NoRoot}]
  BY <1>2, Zenon DEF NoFrame
<1>13. Decided'
  BY <1>2, <1>8, <1>9, <1>10, <1>11, <1>12, Zenon DEF Decided, ReturnGateOpens, IdleOnlyWithoutWork
<1>14. epoch' > epoch /\ cpu'.pc # "boot"
  BY <1>1, <1>9
<1> QED
  BY <1>9, <1>13, <1>14, DecisionKeepsIInv, Zenon DEF IInv

\* The return gate, the timer interrupt and the idle loop.
LEMMA CpuKeepsIInv ==
  ASSUME IInv, arach_syscall_activate \/ TimerIrq \/ schedule_from_pid0 \/ Exhausted
  PROVE  IInv'
<1>1. 0 \in Epochs /\ epoch \in Epochs
  BY LifecycleConstants DEF IInv, Decided, Epochs
<1>2. CASE arach_syscall_activate
  <2>1. /\ slots' = slots /\ nextPid' = nextPid /\ epoch' = epoch /\ current' = current
        /\ launched' = launched /\ ticket' = ticket
        /\ cpu'.frame = NoFrame /\ cpu'.pc \in {"user", "halt"}
        /\ cpu' = [pc |-> cpu'.pc, frame |-> NoFrame]
    BY <1>2, Zenon DEF arach_syscall_activate, tableVars
  <2>2. cpu' \in [pc : {"boot", "user", "return", "idle", "halt"},
                  frame : [handle : UserHandles \cup {PID0}, epoch : Epochs,
                           root : Roots \cup {NoRoot}]]
    BY <1>1, <2>1 DEF NoFrame
  <2>3. Decided'
    BY <2>1, <2>2, Zenon DEF IInv, Decided, RunningIsCurrent, ReturnGateOpens, IdleOnlyWithoutWork
  <2> QED
    BY <2>1, <2>3, Zenon DEF IInv, TicketNamesDecision, BootFresh
<1>3. CASE TimerIrq
  <2>1. /\ slots' = slots /\ nextPid' = nextPid /\ epoch' = epoch /\ current' = current
        /\ launched' = launched /\ cpu' = cpu /\ cpu.pc = "user"
        /\ ticket' = [handle |-> current, epoch |-> epoch]
    BY <1>3, Zenon DEF TimerIrq, tableVars
  <2>2. Decided'
    BY <2>1, Zenon DEF IInv, Decided, RunningIsCurrent, ReturnGateOpens, Authorized,
                IdleOnlyWithoutWork
  <2>3. ticket' \in [handle : UserHandles \cup {PID0}, epoch : Epochs]
    BY <1>1, <2>1, Zenon DEF IInv, Decided
  <2>4. TicketNamesDecision'
    BY <1>1, <2>1 DEF TicketNamesDecision, Epochs
  <2> QED
    BY <2>1, <2>2, <2>3, <2>4, Zenon DEF IInv, BootFresh
<1>4. CASE schedule_from_pid0
  <2>1. /\ cpu.pc = "idle" /\ Sound(slots) /\ Runnable(slots) = {} /\ current = PID0
        /\ RunningIsCurrent
    BY <1>4, Zenon DEF schedule_from_pid0, IInv, Decided, IdleOnlyWithoutWork
  <2>2. NoneRunning(slots)
    <3> SUFFICES ASSUME NEW k \in Index, slots[k].phase = "Running" PROVE FALSE
      BY Zenon DEF NoneRunning
    <3>1. Occupied(slots, k) /\ Handle(slots, k) = PID0
      BY <2>1, Zenon DEF RunningIsCurrent
    <3>2. slots[k].pid \in Pids /\ slots[k].pid = 0
      BY <2>1, <3>1, Zenon DEF Sound, Handle, PID0
    <3> QED
      BY <3>2 DEF Pids
  <2>3. CASE Dispatch(slots, NSlots - 1, Runnable(slots))
    <3>1. Decided' /\ epoch' = epoch + 1 /\ cpu'.pc # "boot"
      BY <1>1, <2>1, <2>2, <2>3, DispatchDecides, Zenon
    <3>2. epoch' > epoch
      BY <1>1, <3>1 DEF Epochs
    <3> QED
      BY <1>4, <3>1, <3>2, DecisionKeepsIInv, Zenon DEF schedule_from_pid0, IInv
  <2>4. CASE Halt
    BY <1>4, <2>4, HaltKeepsIInv, Zenon DEF schedule_from_pid0
  <2> QED
    BY <1>4, <2>3, <2>4, Zenon DEF schedule_from_pid0
<1>5. CASE Exhausted
  BY <1>5, HaltKeepsIInv, Zenon DEF Exhausted
<1> QED
  BY <1>2, <1>3, <1>4, <1>5, Zenon

LEMMA NextIInv == IInv /\ [Next]_vars => IInv'
<1> SUFFICES ASSUME IInv, [Next]_vars PROVE IInv'
  BY Zenon
<1>1. CASE UNCHANGED vars
  BY <1>1, Zenon DEF vars, IInv, Decided, RunningIsCurrent, ReturnGateOpens, Authorized,
              IdleOnlyWithoutWork, TicketNamesDecision, BootFresh
<1>2. CASE Next
  <2>1. CASE \E i \in Index : LinuxStep(i) \/ NativeStep(i)
    BY <2>1, LinuxKeepsIInv, NativeKeepsIInv, Zenon
  <2> QED
    BY <1>1, <1>2, <2>1, BootKeepsIInv, CpuKeepsIInv, Zenon DEF Next, Halted
<1> QED
  BY <1>1, <1>2, Zenon

-----------------------------------------------------------------------------
(* The theorems.                                                           *)

LEMMA Inductive == Spec => []IInv
BY InitIInv, NextIInv, PTL DEF Spec

\* Type correctness: every variable keeps the shape of its Rust type under
\* every handler, including the pid counter that wraps.
THEOREM TypeCorrect == Spec => []TypeOK
<1>1. IInv => TypeOK
  BY Zenon DEF IInv, Decided, Sound, TypeOK
<1> QED
  BY <1>1, Inductive, PTL

\* The Running slot is the one CURRENT_EXECUTION names, and there is at most
\* one: no handler of syscalls.rs leaves two tasks running or the identity
\* pointing at a task that is not.
THEOREM OneRunning == Spec => []RunningIsCurrent
<1>1. IInv => RunningIsCurrent
  BY Zenon DEF IInv, Decided
<1> QED
  BY <1>1, Inductive, PTL

\* Live pids are distinct for every pid width and every number of slots,
\* after any number of wraps of allocate_pid's counter.
THEOREM PidsDistinct == Spec => []LivePidsDistinct
<1>1. IInv => LivePidsDistinct
  BY Zenon DEF IInv, Decided, Sound, LivePidsDistinct
<1> QED
  BY <1>1, Inductive, PTL

\* authorize_user_return accepts every frame a handler returns with, so the
\* gate in arach_syscall_activate never stops the machine.
THEOREM GateOpens == Spec => []ReturnGateOpens
<1>1. IInv => ReturnGateOpens
  BY Zenon DEF IInv, Decided
<1> QED
  BY <1>1, Inductive, PTL

\* PID0 is selected only when nothing can run, and its authority stays valid
\* through the idle loop.
THEOREM IdleSound == Spec => []IdleOnlyWithoutWork
<1>1. IInv => IdleOnlyWithoutWork
  BY Zenon DEF IInv, Decided
<1> QED
  BY <1>1, Inductive, PTL

\* A timer ticket can rotate only the decision it was issued against.
THEOREM TicketSound == Spec => []TicketNamesDecision
<1>1. IInv => TicketNamesDecision
  BY Zenon DEF IInv
<1> QED
  BY <1>1, Inductive, PTL

\* What every decision leaves behind is exact, as the theorems above say.
THEOREM DecisionsSound == Spec => []DecisionsExact
<1>1. TypeOK /\ RunningIsCurrent /\ IdleOnlyWithoutWork /\ TicketNamesDecision
        => DecisionsExact
  BY Zenon DEF DecisionsExact
<1> QED
  BY <1>1, TypeCorrect, OneRunning, IdleSound, TicketSound, PTL

-----------------------------------------------------------------------------
(* The epoch orders decisions.                                             *)

EpochStep ==
  /\ epoch' >= epoch
  /\ epoch' = epoch => current' = current /\ cpu'.frame \in {cpu.frame, NoFrame}

LEMMA EpochStepKept == ASSUME IInv, [Next]_vars PROVE EpochStep
<1>1. epoch \in Int
  BY DEF IInv, Decided, Epochs
<1>2. ASSUME NEW t, NEW j, Run(t, j) \/ Idle(t) PROVE EpochStep
  BY <1>1, <1>2 DEF Run, Idle, EpochStep
<1>3. ASSUME NEW t, NEW i, NEW S, Dispatch(t, i, S) PROVE EpochStep
  BY <1>2, <1>3, Zenon DEF Dispatch
<1>4. ASSUME Halt PROVE EpochStep
  BY <1>1, <1>4 DEF Halt, tableVars, EpochStep
<1>5. ASSUME NEW t, NEW i, Rotate(t, i) \/ SafePoint(t, i) PROVE EpochStep
  BY <1>2, <1>5, Zenon DEF Rotate, SafePoint, resume_current
<1>6. ASSUME NEW i, schedule_exit_return(i) PROVE EpochStep
  BY <1>3, <1>6, Zenon DEF schedule_exit_return, schedule_exit, schedule_thread_exit
<1>7. ASSUME NEW i, ResumeWithSignals(i) PROVE EpochStep
  BY <1>2, <1>4, <1>7, Zenon DEF ResumeWithSignals, resume_current
<1>8. ASSUME NEW i \in Index, LinuxStep(i) PROVE EpochStep
  <2>1. CASE LinuxResult(i) \/ Clone(i) \/ CloneRefused(i) \/ Execve(i)
    BY <1>2, <2>1, Zenon DEF LinuxResult, Clone, CloneRefused, Execve, resume_current
  <2>2. CASE LinuxSyscall(i)
    BY <1>7, <2>2, Zenon DEF LinuxSyscall
  <2>3. CASE CloneRolledBack(i)
    BY <1>1, <2>3 DEF CloneRolledBack, EpochStep
  <2>4. CASE FutexWait(i)
    BY <1>3, <2>4, Zenon DEF FutexWait, schedule_block
  <2>5. CASE LinuxExit(i) \/ FatalSignal(i)
    BY <1>6, <2>5, Zenon DEF LinuxExit, FatalSignal
  <2>6. CASE LinuxExitGroup(i)
    BY <1>3, <1>4, <2>6, Zenon DEF LinuxExitGroup, schedule_exit_group
  <2> QED
    BY <1>8, <2>1, <2>2, <2>3, <2>4, <2>5, <2>6, Zenon DEF LinuxStep
<1>9. ASSUME NEW i \in Index, NativeStep(i) PROVE EpochStep
  BY <1>5, <1>6, <1>9, Zenon DEF NativeStep, NativeSyscall, NativeYield, NativeExit, Spawn,
                          SpawnRefused, NativeWait
<1>10. CASE Boot
  BY <1>1, <1>10 DEF Boot, EpochStep
<1>11. CASE arach_syscall_activate \/ TimerIrq
  BY <1>1, <1>11 DEF arach_syscall_activate, TimerIrq, tableVars, EpochStep
<1>12. CASE schedule_from_pid0 \/ Exhausted
  BY <1>3, <1>4, <1>12, Zenon DEF schedule_from_pid0, Exhausted
<1>13. CASE UNCHANGED vars
  BY <1>1, <1>13 DEF vars, EpochStep
<1> QED
  BY <1>8, <1>9, <1>10, <1>11, <1>12, <1>13, Zenon DEF Next, Halted

\* No authority is ever issued twice: the running identity and the authority
\* in the return frame change only together with a larger scheduler epoch.
THEOREM EpochsOrder == Spec => EpochOrdersDecisions
<1>1. IInv /\ [Next]_vars => [EpochStep]_vars
  BY EpochStepKept, Zenon
<1> QED
  BY <1>1, Inductive, PTL DEF Spec, EpochOrdersDecisions, EpochStep

-----------------------------------------------------------------------------
(* Generations advance.                                                    *)

\* Slot k of table t holds what it held, or something of a later generation.
Later(t, k) ==
  /\ t[k].gen >= slots[k].gen
  /\ Occupied(slots, k) /\ Occupied(t, k) /\ t[k].pid # slots[k].pid => t[k].gen > slots[k].gen
  /\ ~Occupied(slots, k) /\ Occupied(t, k) => t[k].gen > slots[k].gen

Ahead(t) == t \in [Index -> Slot] /\ \A k \in Index : Later(t, k)

GenerationStep ==
  \A i \in Index :
    /\ slots'[i].gen >= slots[i].gen
    /\ Occupied(slots, i) /\ Occupied(slots', i)
         /\ slots'[i].pid # slots[i].pid => slots'[i].gen > slots[i].gen
    /\ ~Occupied(slots, i) /\ Occupied(slots', i) /\ cpu.pc # "boot"
         => slots'[i].gen > slots[i].gen

\* A table that is ahead, and becomes the process table, advances.
LEMMA AheadAdvances ==
  ASSUME NEW t, Ahead(t), slots' = t
  PROVE  GenerationStep
BY Zenon DEF Ahead, Later, GenerationStep, Occupied

LEMMA SameAhead ==
  ASSUME Sound(slots)
  PROVE  Ahead(slots)
<1>1. \A k \in Index : slots[k] \in Slot /\ slots[k].gen \in Int
  BY LifecycleConstants DEF Sound, Slot, Generations
<1> QED
  BY <1>1 DEF Sound, Ahead, Later

\* A live slot may change its phase: Run, schedule_block, schedule_exit.
LEMMA PhaseAhead ==
  ASSUME NEW t, Ahead(t), NEW i \in Index, Occupied(t, i), NEW p \in Phases
  PROVE  Ahead([t EXCEPT ![i].phase = p])
<1> DEFINE u == [t EXCEPT ![i].phase = p]
<1>1. t \in [Index -> Slot] /\ t[i] \in Slot
  BY Zenon DEF Ahead
<1>2. [t[i] EXCEPT !.phase = p] \in Slot
  BY <1>1, Zenon DEF Slot
<1>3. u = [t EXCEPT ![i] = [t[i] EXCEPT !.phase = p]]
  BY Zenon
<1>4. u \in [Index -> Slot]
  BY <1>1, <1>2, <1>3, Zenon
<1>5. \A k \in Index : /\ u[k].pid = t[k].pid /\ u[k].gen = t[k].gen
                       /\ Occupied(u, k) => Occupied(t, k)
  BY <1>1, Zenon DEF Slot, Occupied
<1>6. \A k \in Index : Later(u, k)
  <2> HIDE DEF u
  <2> QED
    BY <1>5, Zenon DEF Ahead, Later, Occupied
<1> QED
  BY <1>4, <1>6, Zenon DEF Ahead

\* Retired advances the generation, or leaves it at its limit, and frees.
LEMMA RetireAhead ==
  ASSUME Sound(slots), NEW t, Ahead(t), NEW i \in Index, NEW s \in Slot, s.gen >= t[i].gen
  PROVE  Ahead([t EXCEPT ![i] = Retired(s)])
<1> DEFINE u == [t EXCEPT ![i] = Retired(s)]
<1>1. /\ t \in [Index -> Slot] /\ Retired(s) \in Slot /\ Retired(s).phase = "Free"
      /\ Retired(s).gen >= s.gen
  BY RetiredSlot, Zenon DEF Ahead
<1>2. /\ t[i].gen \in Int /\ s.gen \in Int /\ Retired(s).gen \in Int /\ slots[i].gen \in Int
      /\ t[i].gen >= slots[i].gen
  BY <1>1, LifecycleConstants DEF Slot, Generations, Ahead, Later, Sound
<1>3. Retired(s).gen >= slots[i].gen
  BY <1>1, <1>2
<1>4. u \in [Index -> Slot]
  BY <1>1, Zenon
<1>5. Later(u, i)
  BY <1>1, <1>3, Zenon DEF Later, Occupied
<1>6. \A k \in Index \ {i} : u[k] = t[k]
  BY <1>1, Zenon
<1>7. \A k \in Index \ {i} : Later(u, k)
  <2> HIDE DEF u
  <2> QED
    BY <1>6, Zenon DEF Ahead, Later, Occupied
<1> QED
  BY <1>4, <1>5, <1>7, Zenon DEF Ahead

\* A free slot with a generation left gets its next one: Peer and Child.
LEMMA InstallAhead ==
  ASSUME Sound(slots), NEW j \in Index, FirstUsable(slots, j), NEW s \in Slot,
         s.gen = slots[j].gen + 1
  PROVE  Ahead([slots EXCEPT ![j] = s])
<1> DEFINE u == [slots EXCEPT ![j] = s]
<1>1. slots \in [Index -> Slot] /\ slots[j].gen \in Int /\ ~Occupied(slots, j)
  BY LifecycleConstants DEF Sound, Slot, Generations, FirstUsable, Usable
<1>2. u \in [Index -> Slot] /\ u[j] = s /\ \A k \in Index \ {j} : u[k] = slots[k]
  BY <1>1, Zenon
<1>3. Later(u, j)
  BY <1>1, <1>2 DEF Later
<1>4. \A k \in Index \ {j} : Later(u, k)
  <2>1. \A k \in Index : Later(slots, k)
    BY SameAhead, Zenon DEF Ahead
  <2> HIDE DEF u
  <2> QED
    BY <1>2, <2>1, Zenon DEF Later, Occupied
<1> QED
  BY <1>2, <1>3, <1>4, Zenon DEF Ahead

LEMMA WakeAhead ==
  ASSUME Sound(slots), NEW i, NEW W \in SUBSET Parked(i)
  PROVE  /\ Ahead(mark_runnable(slots, W))
         /\ \A k \in Index : Occupied(slots, k) => Occupied(mark_runnable(slots, W), k)
<1> DEFINE u == mark_runnable(slots, W)
<1>1. W \subseteq Index /\ \A k \in W : slots[k].phase = "Blocked"
  BY Zenon DEF Parked
<1>2. /\ Sound(u)
      /\ \A k \in Index : /\ u[k].phase = IF k \in W THEN "Runnable" ELSE slots[k].phase
                          /\ u[k].pid = slots[k].pid /\ u[k].gen = slots[k].gen
  BY <1>1, WakeSound
<1>3. \A k \in Index : Occupied(u, k) <=> Occupied(slots, k)
  BY <1>1, <1>2, Zenon DEF Occupied
<1>4. \A k \in Index : Later(slots, k)
  BY SameAhead, Zenon DEF Ahead
<1> HIDE DEF u
<1>5. \A k \in Index : Later(u, k)
  BY <1>2, <1>3, <1>4, Zenon DEF Later, Occupied
<1> QED
  BY <1>2, <1>3, <1>5, Zenon DEF Ahead, Sound, u

\* Whatever is selected after a table update that is ahead, the step advances.
LEMMA RunAdvances ==
  ASSUME NEW t, Ahead(t), NEW j \in Index, Occupied(t, j), Run(t, j)
  PROVE  GenerationStep
BY PhaseAhead, AheadAdvances, Zenon DEF Run, Phases

LEMMA DispatchAdvances ==
  ASSUME NEW t, Ahead(t), NEW i, NEW S,
         \A j \in S : j \in Index /\ Occupied(t, j), Dispatch(t, i, S)
  PROVE  GenerationStep
BY RunAdvances, AheadAdvances, Zenon DEF Dispatch, Idle

LEMMA RotateAdvances ==
  ASSUME NEW t, Ahead(t), NEW i \in Index, t[i].phase = "Running",
         Rotate(t, i) \/ resume_current(t, i) \/ SafePoint(t, i)
  PROVE  GenerationStep
<1> DEFINE u == [t EXCEPT ![i].phase = "Runnable"]
<1>1. t \in [Index -> Slot] /\ Occupied(t, i)
  BY Zenon DEF Ahead, Occupied
<1>2. Ahead(u)
  BY <1>1, PhaseAhead, Zenon DEF Phases
<1>3. \A k \in Runnable(t) : k \in Index /\ Occupied(u, k)
  BY <1>1, Zenon DEF Runnable, Occupied, Slot
<1> HIDE DEF u
<1>4. CASE Run(t, i)
  BY <1>1, <1>4, RunAdvances, Zenon
<1>5. CASE \E j \in Runnable(t) : Run(u, j)
  BY <1>2, <1>3, <1>5, RunAdvances, Zenon
<1> QED
  BY <1>4, <1>5, Zenon DEF Rotate, resume_current, SafePoint, u

\* Ending the caller: schedule_block, schedule_exit, schedule_thread_exit.
LEMMA StopAdvances ==
  ASSUME Sound(slots), NEW t, Ahead(t), NEW i \in Index, t[i].phase = "Running",
         \/ \E p \in {"Blocked", "Zombie"} : Dispatch([t EXCEPT ![i].phase = p], i, Runnable(t))
         \/ schedule_thread_exit(t, i)
  PROVE  GenerationStep
<1>1. t \in [Index -> Slot] /\ t[i] \in Slot /\ Occupied(t, i)
  BY Zenon DEF Ahead, Occupied
<1>2. ASSUME NEW p \in {"Blocked", "Zombie"},
             Dispatch([t EXCEPT ![i].phase = p], i, Runnable(t))
      PROVE  GenerationStep
  <2> DEFINE u == [t EXCEPT ![i].phase = p]
  <2>1. Ahead(u)
    BY <1>1, PhaseAhead, Zenon DEF Phases
  <2>2. \A j \in Runnable(t) : j \in Index /\ Occupied(u, j)
    BY <1>1, Zenon DEF Runnable, Occupied, Slot
  <2> HIDE DEF u
  <2> QED
    BY <1>2, <2>1, <2>2, DispatchAdvances, Zenon DEF u
<1>3. CASE schedule_thread_exit(t, i)
  <2> DEFINE u == [t EXCEPT ![i] = Retired(t[i])]
  <2>1. t[i].gen >= t[i].gen
    BY <1>1, LifecycleConstants DEF Slot, Generations
  <2>2. Ahead(u)
    BY <1>1, <2>1, RetireAhead, Zenon
  <2>3. \A j \in Runnable(t) : j \in Index /\ j # i /\ Occupied(u, j)
    BY <1>1, Zenon DEF Runnable, Occupied
  <2>4. Dispatch(u, i, Runnable(t))
    BY <1>3, Zenon DEF schedule_thread_exit
  <2> HIDE DEF u
  <2> QED
    BY <2>2, <2>3, <2>4, DispatchAdvances, Zenon
<1> QED
  BY <1>2, <1>3, Zenon

LEMMA ExitReturnAdvances ==
  ASSUME Sound(slots), NEW i \in Index, slots[i].phase = "Running", schedule_exit_return(i)
  PROVE  GenerationStep
<1>1. PICK W \in SUBSET Parked(i) :
        LET t == mark_runnable(slots, W) IN
        IF IsLeader(slots, i) THEN schedule_exit(t, i) ELSE schedule_thread_exit(t, i)
  BY Zenon DEF schedule_exit_return
<1> DEFINE t == mark_runnable(slots, W)
<1>2. Ahead(t) /\ t[i].phase = "Running"
  <2>1. i \notin W /\ W \subseteq Index /\ \A k \in W : slots[k].phase = "Blocked"
    BY Zenon DEF Parked
  <2> QED
    BY <2>1, WakeAhead, WakeSound
<1>3. schedule_exit(t, i) \/ schedule_thread_exit(t, i)
  BY <1>1, Zenon
<1> HIDE DEF t
<1> QED
  BY <1>2, <1>3, StopAdvances, Zenon DEF schedule_exit

LEMMA GroupExitAdvances ==
  ASSUME Sound(slots), NEW i \in Index, schedule_exit_group(i)
  PROVE  GenerationStep
<1> DEFINE M == Members(slots, slots[i].group)
           gone == [k \in Index |->
                      IF k \notin M THEN slots[k]
                      ELSE IF IsLeader(slots, k) THEN [slots[k] EXCEPT !.phase = "Zombie"]
                      ELSE Retired(slots[k])]
<1>1. \A k \in Index : slots[k] \in Slot
  BY Zenon DEF Sound
<1>2. \A k \in Index : /\ [slots[k] EXCEPT !.phase = "Zombie"] \in Slot
                       /\ [slots[k] EXCEPT !.phase = "Zombie"].pid = slots[k].pid
                       /\ [slots[k] EXCEPT !.phase = "Zombie"].gen = slots[k].gen
  BY <1>1, Zenon DEF Slot, Phases
<1>3. \A k \in Index : /\ Retired(slots[k]) \in Slot /\ Retired(slots[k]).phase = "Free"
                       /\ Retired(slots[k]).gen >= slots[k].gen
  BY <1>1, RetiredSlot, Zenon
<1>4. gone \in [Index -> Slot]
  BY <1>1, <1>2, <1>3, Zenon
<1>5. \A k \in Index : slots[k].gen \in Int
  BY <1>1, LifecycleConstants DEF Slot, Generations
<1>6. \A k \in Index : /\ gone[k].gen >= slots[k].gen
                       /\ Occupied(gone, k) => /\ Occupied(slots, k)
                                               /\ gone[k].pid = slots[k].pid
  BY <1>1, <1>2, <1>3, <1>5 DEF Occupied, Members
<1>7. \A j \in Runnable(slots) \ M : j \in Index /\ Occupied(gone, j)
  BY Zenon DEF Runnable, Occupied
<1>8. Dispatch(gone, i, Runnable(slots) \ M)
  BY Zenon DEF schedule_exit_group
<1> HIDE DEF gone, M
<1>9. Ahead(gone)
  BY <1>4, <1>6, Zenon DEF Ahead, Later, Occupied
<1> QED
  BY <1>7, <1>8, <1>9, DispatchAdvances, Zenon

\* The tables Clone, Execve, Spawn and NativeWait leave to the decision.
LEMMA CallAhead ==
  ASSUME Sound(slots), NEW i \in Index, Ready(slots, i), NEW j \in Index, NEW p \in Pids
  PROVE  /\ FirstUsable(slots, j) => /\ Ahead([slots EXCEPT ![j] = Peer(i, j, p)])
                                     /\ [slots EXCEPT ![j] = Peer(i, j, p)][i] = slots[i]
                                     /\ Ahead([slots EXCEPT ![j] = Retired(Peer(i, j, p))])
         /\ \A l \in Launch : FirstUsable(slots, j) =>
              /\ Ahead([slots EXCEPT ![j] = Child(i, j, p, l)])
              /\ [slots EXCEPT ![j] = Child(i, j, p, l)][i] = slots[i]
<1>1. slots \in [Index -> Slot] /\ slots[j].gen \in Int /\ Ahead(slots)
  BY SameAhead, LifecycleConstants DEF Sound, Slot, Generations
<1>2. FirstUsable(slots, j) => i # j
  BY Zenon DEF FirstUsable, Usable, Occupied, Ready
<1>3. FirstUsable(slots, j) => /\ Peer(i, j, p) \in Slot /\ Peer(i, j, p).gen = slots[j].gen + 1
                               /\ Peer(i, j, p).gen >= slots[j].gen
  BY <1>1, PeerSlot DEF Peer
<1>4. \A l \in Launch : FirstUsable(slots, j) =>
        Child(i, j, p, l) \in Slot /\ Child(i, j, p, l).gen = slots[j].gen + 1
  BY ChildSlot, Zenon DEF Child
<1> QED
  BY <1>1, <1>2, <1>3, <1>4, InstallAhead, RetireAhead, Zenon

LEMMA ExecAhead ==
  ASSUME Sound(slots), NEW i \in Index, NEW r \in Roots, Occupied(slots, i)
  PROVE  /\ Ahead([slots EXCEPT ![i].launch.root = r])
         /\ [slots EXCEPT ![i].launch.root = r][i].phase = slots[i].phase
<1> DEFINE u == [slots EXCEPT ![i].launch.root = r]
<1>1. slots \in [Index -> Slot] /\ slots[i] \in Slot /\ slots[i].launch \in Launch
  BY Zenon DEF Sound
<1>2. [slots[i].launch EXCEPT !.root = r] \in Launch
  BY <1>1, Zenon DEF Launch
<1>3. [slots[i] EXCEPT !.launch = [slots[i].launch EXCEPT !.root = r]] \in Slot
  BY <1>1, <1>2, Zenon DEF Slot
<1>4. u = [slots EXCEPT ![i] = [slots[i] EXCEPT !.launch = [slots[i].launch EXCEPT !.root = r]]]
  BY <1>1, Zenon DEF Slot
<1>5. u \in [Index -> Slot]
  BY <1>1, <1>3, <1>4, Zenon
<1>6. \A k \in Index : /\ u[k].pid = slots[k].pid /\ u[k].gen = slots[k].gen
                       /\ u[k].phase = slots[k].phase
  BY <1>1, <1>4, Zenon DEF Slot
<1>7. \A k \in Index : Later(slots, k)
  BY SameAhead, Zenon DEF Ahead
<1> HIDE DEF u
<1>8. \A k \in Index : Later(u, k)
  BY <1>6, <1>7, Zenon DEF Later, Occupied
<1> QED
  BY <1>5, <1>6, <1>8, Zenon DEF Ahead, u

LEMMA LinuxAdvances ==
  ASSUME IInv, NEW i \in Index, LinuxStep(i)
  PROVE  GenerationStep
<1>1. Caller(i)
  BY Zenon DEF LinuxStep, LinuxResult, LinuxSyscall, Clone, CloneRefused,
         CloneRolledBack, Execve, FutexWait, LinuxExit, FatalSignal,
         LinuxExitGroup, CallerAbi
<1>2. /\ Ready(slots, i) /\ Occupied(slots, i) /\ Sound(slots)
      /\ slots[i].phase = "Running" /\ Ahead(slots)
  BY <1>1, CallerReady, SameAhead, Zenon DEF IInv, Decided, Caller
<1>3. CASE LinuxResult(i)
  <2>1. PICK W \in SUBSET Parked(i) : resume_current(mark_runnable(slots, W), i)
    BY <1>3, Zenon DEF LinuxResult
  <2>2. Ready(mark_runnable(slots, W), i) /\ Ahead(mark_runnable(slots, W))
    BY <1>2, WakeReady, WakeAhead, Zenon
  <2> QED
    BY <2>1, <2>2, RotateAdvances, Zenon DEF Ready
<1>4. CASE LinuxSyscall(i) \/ CloneRefused(i)
  <2>1. resume_current(slots, i) \/ Halt
    BY <1>4, Zenon DEF LinuxSyscall, ResumeWithSignals, CloneRefused
  <2> QED
    BY <1>2, <2>1, RotateAdvances, AheadAdvances, Zenon DEF Halt, tableVars
<1>5. CASE Clone(i)
  <2>1. PICK p \in Pids, j \in Index :
          FirstUsable(slots, j) /\ resume_current([slots EXCEPT ![j] = Peer(i, j, p)], i)
    BY <1>5, Zenon DEF Clone
  <2> DEFINE u == [slots EXCEPT ![j] = Peer(i, j, p)]
  <2>2. Ahead(u) /\ u[i].phase = "Running"
    BY <1>2, <2>1, CallAhead, Zenon
  <2>3. resume_current(u, i)
    BY <2>1, Zenon
  <2> HIDE DEF u
  <2> QED
    BY <2>2, <2>3, RotateAdvances, Zenon
<1>6. CASE CloneRolledBack(i)
  <2>1. PICK p \in Pids, j \in Index :
          FirstUsable(slots, j) /\ slots' = [slots EXCEPT ![j] = Retired(Peer(i, j, p))]
    BY <1>6, Zenon DEF CloneRolledBack
  <2> QED
    BY <1>2, <2>1, CallAhead, AheadAdvances, Zenon
<1>7. CASE Execve(i)
  <2>1. PICK r \in Roots : resume_current([slots EXCEPT ![i].launch.root = r], i)
    BY <1>7, Zenon DEF Execve
  <2> DEFINE u == [slots EXCEPT ![i].launch.root = r]
  <2>2. Ahead(u) /\ u[i].phase = "Running"
    BY <1>2, ExecAhead, Zenon
  <2>3. resume_current(u, i)
    BY <2>1, Zenon
  <2> HIDE DEF u
  <2> QED
    BY <2>2, <2>3, RotateAdvances, Zenon
<1>8. CASE FutexWait(i)
  BY <1>2, <1>8, StopAdvances, Zenon DEF FutexWait, schedule_block
<1>9. CASE LinuxExit(i) \/ FatalSignal(i)
  BY <1>2, <1>9, ExitReturnAdvances, Zenon DEF LinuxExit, FatalSignal
<1>10. CASE LinuxExitGroup(i)
  BY <1>2, <1>10, GroupExitAdvances, AheadAdvances, Zenon DEF LinuxExitGroup, Halt, tableVars
<1> QED
  BY <1>3, <1>4, <1>5, <1>6, <1>7, <1>8, <1>9, <1>10, Zenon DEF LinuxStep

LEMMA NativeAdvances ==
  ASSUME IInv, NEW i \in Index, NativeStep(i)
  PROVE  GenerationStep
<1>1. Caller(i)
  BY Zenon DEF NativeStep, NativeSyscall, NativeYield, NativeExit, Spawn, SpawnRefused,
         NativeWait, CallerAbi
<1>2. /\ Ready(slots, i) /\ Sound(slots) /\ slots[i].phase = "Running" /\ Ahead(slots)
  BY <1>1, CallerReady, SameAhead, Zenon DEF IInv, Decided, Caller
<1>3. CASE NativeSyscall(i) \/ NativeYield(i) \/ SpawnRefused(i)
  BY <1>2, <1>3, RotateAdvances, Zenon DEF NativeSyscall, NativeYield, SpawnRefused
<1>4. CASE NativeExit(i)
  BY <1>2, <1>4, ExitReturnAdvances, Zenon DEF NativeExit
<1>5. CASE Spawn(i)
  <2>1. PICK l \in ServiceLaunches, p \in Pids, j \in Index :
          FirstUsable(slots, j) /\ SafePoint([slots EXCEPT ![j] = Child(i, j, p, l)], i)
    BY <1>5, Zenon DEF Spawn
  <2> DEFINE u == [slots EXCEPT ![j] = Child(i, j, p, l)]
  <2>2. l \in Launch
    BY LifecycleConstants, Zenon
  <2>3. Ahead(u) /\ u[i].phase = "Running"
    BY <1>2, <2>1, <2>2, CallAhead, Zenon
  <2>4. SafePoint(u, i)
    BY <2>1, Zenon
  <2> HIDE DEF u
  <2> QED
    BY <2>3, <2>4, RotateAdvances, Zenon
<1>6. CASE NativeWait(i)
  <2>1. PICK z \in Index : ZombieChild(i, z) /\ SafePoint(Reaped(z), i)
    BY <1>6, Zenon DEF NativeWait
  <2>2. slots[z] \in Slot /\ slots[z].gen >= slots[z].gen
    BY <1>2, LifecycleConstants DEF Sound, Slot, Generations
  <2>3. Ahead(Reaped(z)) /\ Ready(Reaped(z), i)
    BY <1>2, <2>1, <2>2, RetireAhead, ReapedReady, Zenon DEF Reaped
  <2> QED
    BY <2>1, <2>3, RotateAdvances, Zenon DEF Ready
<1> QED
  BY <1>3, <1>4, <1>5, <1>6, Zenon DEF NativeStep

LEMMA GenerationStepKept == ASSUME IInv, [Next]_vars PROVE GenerationStep
<1>1. Sound(slots) /\ Ahead(slots)
  BY SameAhead, Zenon DEF IInv, Decided
<1>2. ASSUME slots' = slots PROVE GenerationStep
  BY <1>1, <1>2, AheadAdvances, Zenon
<1>3. CASE Boot
  <2>1. 0 \in Index
    BY LifecycleConstants DEF Index
  <2>2. /\ slots \in [Index -> Slot] /\ cpu.pc = "boot" /\ ~Occupied(slots, 0)
    BY <1>1, <1>3, <2>1, Zenon DEF Boot, Sound, IInv, BootFresh
  <2>3. \A k \in Index : slots[k].gen \in Int
    BY <2>2, LifecycleConstants DEF Slot, Generations
  <2>4. PICK l \in InitLaunches :
          slots' = [slots EXCEPT ![0] =
                      [phase |-> "Running", gen |-> slots[0].gen, pid |-> INIT_PID,
                       group |-> INIT_PID, parent |-> 0, launch |-> l]]
    BY <1>3, Zenon DEF Boot
  <2>5. \A k \in Index : slots'[k].gen = slots[k].gen /\ (k # 0 => slots'[k] = slots[k])
    BY <2>2, <2>4, Zenon
  <2> QED
    BY <2>2, <2>5, <2>3 DEF GenerationStep, Occupied
<1>4. CASE \E i \in Index : LinuxStep(i) \/ NativeStep(i)
  BY <1>4, LinuxAdvances, NativeAdvances, Zenon
<1>5. CASE arach_syscall_activate \/ TimerIrq \/ Exhausted \/ Halted \/ UNCHANGED vars
  BY <1>2, <1>5, Zenon DEF arach_syscall_activate, TimerIrq, Exhausted, Halt, Halted, tableVars, vars
<1>6. CASE schedule_from_pid0
  <2>1. \A j \in Runnable(slots) : j \in Index /\ Occupied(slots, j)
    BY Zenon DEF Runnable, Occupied
  <2>2. Dispatch(slots, NSlots - 1, Runnable(slots)) \/ slots' = slots
    BY <1>6, Zenon DEF schedule_from_pid0, Halt, tableVars
  <2> QED
    BY <1>1, <1>2, <2>1, <2>2, DispatchAdvances, Zenon
<1> QED
  BY <1>3, <1>4, <1>5, <1>6, Zenon DEF Next

\* A retired slot's handle never names a later occupant of the slot, and a
\* retired authority never validates again, for every number of slots and
\* every width of generation and epoch.
THEOREM AuthoritiesSound == Spec => AuthoritiesAdvance
<1>1. IInv /\ [Next]_vars => [GenerationStep]_vars
  BY GenerationStepKept, Zenon
<1>2. Spec => GenerationsAdvance
  BY <1>1, Inductive, PTL DEF Spec, GenerationsAdvance, GenerationStep
<1> QED
  BY <1>2, EpochsOrder, Zenon DEF AuthoritiesAdvance

-----------------------------------------------------------------------------
(* The machine stops only when the epoch is spent.  A task whose leader is *)
(* gone would stop it, so leaders must stay while they have peers.         *)

\* PID1 has an address space no service has, and it alone takes fatal signals.
OneInit(r) ==
  /\ \A l \in InitLaunches \cup FatalSignals : l.root = r
  /\ \A l \in ServiceLaunches : l.root # r

\* Task m of table t is in the group of k.
Peers(t, k, m) == Occupied(t, k) /\ Occupied(t, m) /\ t[m].group = t[k].group

\* Every group has a leader, a waitable zombie with peers is PID1, whose address
\* space no other group has and which nobody can reap, and native programs are alone.
Families(t, r) ==
  /\ t \in [Index -> Slot]
  /\ \E a \in Index : /\ Occupied(t, a) /\ t[a].pid = INIT_PID /\ t[a].group = INIT_PID
                      /\ t[a].parent = 0 /\ t[a].launch.root = r
  /\ \A k \in Index : Occupied(t, k) => \E m \in Index : Peers(t, k, m) /\ IsLeader(t, m)
  /\ \A k \in Index : Occupied(t, k) /\ t[k].launch.root = r => t[k].group = INIT_PID
  /\ \A k \in Index : t[k].phase = "Zombie" => IsLeader(t, k)
  /\ \A k, m \in Index :
       t[k].phase = "Zombie" /\ t[k].group # INIT_PID /\ Peers(t, k, m) => m = k
  /\ \A k, m \in Index : t[k].launch.abi = "Native" /\ Peers(t, k, m) => m = k

\* The two tables agree on everything but phases and generations in slot k.
Alike(t, u, k) ==
  /\ u[k].pid = t[k].pid /\ u[k].group = t[k].group
  /\ u[k].parent = t[k].parent /\ u[k].launch = t[k].launch

\* Scheduling, waking and blocking change no family.
LEMMA PhaseFamilies ==
  ASSUME NEW r, NEW t, Families(t, r), NEW u \in [Index -> Slot],
         \A k \in Index : /\ Alike(t, u, k) /\ (Occupied(u, k) <=> Occupied(t, k))
                          /\ u[k].phase = "Zombie" => t[k].phase = "Zombie"
  PROVE  Families(u, r)
<1>1. \A k, m \in Index : Peers(u, k, m) <=> Peers(t, k, m)
  BY Zenon DEF Peers, Alike
<1>2. \A k \in Index : IsLeader(u, k) <=> IsLeader(t, k)
  BY Zenon DEF IsLeader, Alike
<1> QED
  BY <1>1, <1>2 DEF Families, Alike

\* A leader becomes a zombie: alone, or as PID1.
LEMMA ZombieFamilies ==
  ASSUME NEW r, NEW t, Families(t, r), NEW u \in [Index -> Slot], NEW i \in Index,
         Occupied(t, i), IsLeader(t, i),
         t[i].group = INIT_PID \/ \A m \in Index : Peers(t, i, m) => m = i,
         \A k \in Index : /\ Alike(t, u, k) /\ (Occupied(u, k) <=> Occupied(t, k))
                          /\ u[k].phase = "Zombie" => k = i \/ t[k].phase = "Zombie"
  PROVE  Families(u, r)
<1>1. \A k, m \in Index : Peers(u, k, m) <=> Peers(t, k, m)
  BY Zenon DEF Peers, Alike
<1>2. \A k \in Index : IsLeader(u, k) <=> IsLeader(t, k)
  BY Zenon DEF IsLeader, Alike
<1> QED
  BY <1>1, <1>2 DEF Families, Alike

\* Slots that are freed take no leader away from a task that stays, and not PID1.
LEMMA RetireFamilies ==
  ASSUME NEW r, NEW t, Families(t, r), NEW u \in [Index -> Slot], NEW G,
         \A k \in Index \cap G : ~Occupied(u, k),
         \A k \in Index \ G : u[k] = t[k],
         \A k \in Index \cap G : \A m \in Index \ G : Peers(t, m, k) => ~IsLeader(t, k),
         \A k \in Index \cap G : Occupied(t, k) => ~(t[k].pid = INIT_PID /\ t[k].group = INIT_PID)
  PROVE  Families(u, r)
<1>1. \A k \in Index : Occupied(u, k) => k \notin G /\ u[k] = t[k] /\ Occupied(t, k)
  BY Zenon DEF Occupied
<1>2. \A k, m \in Index : Peers(u, k, m) => Peers(t, k, m) /\ u[k] = t[k] /\ u[m] = t[m]
  BY <1>1, Zenon DEF Peers
<1>3. \A k \in Index : Occupied(u, k) => \E m \in Index : Peers(u, k, m) /\ IsLeader(u, m)
  <2> SUFFICES ASSUME NEW k \in Index, Occupied(u, k)
               PROVE  \E m \in Index : Peers(u, k, m) /\ IsLeader(u, m)
    BY Zenon
  <2>1. PICK m \in Index : Peers(t, k, m) /\ IsLeader(t, m)
    BY <1>1, Zenon DEF Families
  <2>2. m \notin G
    BY <1>1, <2>1, Zenon
  <2> QED BY <1>1, <2>1, <2>2, Zenon DEF Peers, IsLeader, Occupied
<1>4. \E a \in Index : /\ Occupied(u, a) /\ u[a].pid = INIT_PID /\ u[a].group = INIT_PID
                       /\ u[a].parent = 0 /\ u[a].launch.root = r
  <2>1. PICK a \in Index : /\ Occupied(t, a) /\ t[a].pid = INIT_PID /\ t[a].group = INIT_PID
                           /\ t[a].parent = 0 /\ t[a].launch.root = r
    BY Zenon DEF Families
  <2> QED BY <2>1, Zenon DEF Occupied
<1>5. \A k \in Index : u[k].phase = "Zombie" => Occupied(u, k)
  BY Zenon DEF Occupied
<1> QED
  BY <1>1, <1>2, <1>3, <1>4, <1>5 DEF Families, IsLeader

\* One slot is freed.
LEMMA OneRetires ==
  ASSUME NEW r, NEW t, Families(t, r), NEW u \in [Index -> Slot], NEW j \in Index,
         ~Occupied(u, j), \A k \in Index \ {j} : u[k] = t[k],
         \A m \in Index \ {j} : Peers(t, m, j) => ~IsLeader(t, j),
         Occupied(t, j) => ~(t[j].pid = INIT_PID /\ t[j].group = INIT_PID)
  PROVE  Families(u, r)
<1> DEFINE G == {j}
<1>1. /\ \A k \in Index \cap G : ~Occupied(u, k)
      /\ \A k \in Index \ G : u[k] = t[k]
      /\ \A k \in Index \cap G : \A m \in Index \ G : Peers(t, m, k) => ~IsLeader(t, k)
      /\ \A k \in Index \cap G : Occupied(t, k) => ~(t[k].pid = INIT_PID /\ t[k].group = INIT_PID)
  BY Zenon
<1> HIDE DEF G
<1> QED BY <1>1, RetireFamilies, Zenon

\* A new task joins the group of a Linux program that is not waited for, or makes
\* a group of its own.
LEMMA InstallFamilies ==
  ASSUME NEW r, NEW t, Families(t, r), NEW u \in [Index -> Slot], NEW j \in Index,
         ~Occupied(t, j), Occupied(u, j), u[j].phase # "Zombie",
         \A k \in Index \ {j} : u[k] = t[k],
         \/ \E i \in Index \ {j} :
              /\ t[i].phase = "Running" /\ t[i].launch.abi = "Linux"
              /\ u[j].group = t[i].group /\ u[j].launch = t[i].launch
         \/ /\ IsLeader(u, j) /\ u[j].pid \notin OccupiedPids(t) /\ u[j].launch.root # r
  PROVE  Families(u, r)
<1>1. \A k \in Index \ {j} : /\ u[k] = t[k] /\ (Occupied(u, k) <=> Occupied(t, k))
                             /\ IsLeader(u, k) <=> IsLeader(t, k)
  BY Zenon DEF Occupied, IsLeader
<1>2. \A k, m \in Index \ {j} : Peers(u, k, m) <=> Peers(t, k, m)
  BY <1>1, Zenon DEF Peers
<1>3. \E a \in Index : /\ Occupied(u, a) /\ u[a].pid = INIT_PID /\ u[a].group = INIT_PID
                       /\ u[a].parent = 0 /\ u[a].launch.root = r
  <2>1. PICK a \in Index : /\ Occupied(t, a) /\ t[a].pid = INIT_PID /\ t[a].group = INIT_PID
                           /\ t[a].parent = 0 /\ t[a].launch.root = r
    BY Zenon DEF Families
  <2> QED BY <1>1, <2>1, Zenon
<1>4. \A k \in Index \ {j} : Occupied(u, k) => \E m \in Index : Peers(u, k, m) /\ IsLeader(u, m)
  <2> SUFFICES ASSUME NEW k \in Index \ {j}, Occupied(u, k)
               PROVE  \E m \in Index : Peers(u, k, m) /\ IsLeader(u, m)
    BY Zenon
  <2>1. PICK m \in Index : Peers(t, k, m) /\ IsLeader(t, m)
    BY <1>1, Zenon DEF Families
  <2>2. m # j
    BY <2>1, Zenon DEF Peers
  <2> QED BY <1>1, <1>2, <2>1, <2>2, Zenon
<1>5. ASSUME NEW i \in Index \ {j}, t[i].phase = "Running", t[i].launch.abi = "Linux",
             u[j].group = t[i].group, u[j].launch = t[i].launch
      PROVE  Families(u, r)
  <2>1. /\ Occupied(t, i) /\ Occupied(u, i) /\ u[i] = t[i] /\ Peers(u, j, i) /\ Peers(t, i, i)
    BY <1>1, <1>5, Zenon DEF Occupied, Peers
  <2>2. \A m \in Index : Peers(u, i, m) => Peers(u, j, m)
    BY <1>5, <2>1, Zenon DEF Peers
  <2>3. \E m \in Index : Peers(u, j, m) /\ IsLeader(u, m)
    BY <1>4, <2>1, <2>2, Zenon
  <2>4. \A k \in Index \ {j} : Peers(u, k, j) => Peers(t, k, i)
    BY <1>1, <1>5, <2>1, Zenon DEF Peers
  <2>5. \A k \in Index \ {j} : Peers(u, k, j) =>
          /\ u[k].phase = "Zombie" => u[k].group = INIT_PID
          /\ u[k].launch.abi # "Native"
    <3> SUFFICES ASSUME NEW k \in Index \ {j}, Peers(u, k, j)
                 PROVE  /\ u[k].phase = "Zombie" => u[k].group = INIT_PID
                        /\ u[k].launch.abi # "Native"
      BY Zenon
    <3>1. Peers(t, k, i) /\ u[k] = t[k]
      BY <1>1, <2>4, Zenon
    <3> QED BY <1>5, <3>1, Zenon DEF Families
  <2>6. u[j].launch.root = r => u[j].group = INIT_PID
    BY <1>5, <2>1 DEF Families
  <2>7. u[j].launch.abi # "Native"
    BY <1>5, Zenon
  <2> QED
    BY <1>1, <1>2, <1>3, <1>4, <2>3, <2>5, <2>6, <2>7 DEF Families
<1>6. CASE IsLeader(u, j) /\ u[j].pid \notin OccupiedPids(t) /\ u[j].launch.root # r
  <2>1. \A k \in Index \ {j} : ~Peers(u, k, j) /\ ~Peers(u, j, k)
    <3> SUFFICES ASSUME NEW k \in Index \ {j}, Occupied(t, k), t[k].group = u[j].pid PROVE FALSE
      BY <1>1, <1>6, Zenon DEF Peers, IsLeader
    <3>1. PICK m \in Index : Peers(t, k, m) /\ IsLeader(t, m)
      BY Zenon DEF Families
    <3>2. t[m].pid \in OccupiedPids(t) /\ t[m].pid = u[j].pid
      BY <3>1, Zenon DEF Peers, IsLeader, OccupiedPids
    <3> QED BY <1>6, <3>2, Zenon
  <2>2. Peers(u, j, j)
    BY Zenon DEF Peers
  <2> QED
    BY <1>1, <1>2, <1>3, <1>4, <1>6, <2>1, <2>2 DEF Families
<1> QED
  BY <1>5, <1>6, Zenon

\* exec gives a task other than PID1 a root that nobody has.
LEMMA ExecFamilies ==
  ASSUME NEW r, NEW t, Families(t, r), NEW u \in [Index -> Slot], NEW i \in Index,
         Occupied(t, i), t[i].pid # INIT_PID, u[i].launch.root # r,
         u[i].launch.abi = t[i].launch.abi,
         \A k \in Index \ {i} : u[k] = t[k],
         u[i].phase = t[i].phase, u[i].pid = t[i].pid, u[i].group = t[i].group, u[i].parent = t[i].parent
  PROVE  Families(u, r)
<1>1. \A k \in Index : /\ u[k].phase = t[k].phase /\ u[k].pid = t[k].pid /\ u[k].group = t[k].group
                       /\ u[k].parent = t[k].parent /\ u[k].launch.abi = t[k].launch.abi
                       /\ k # i => u[k].launch = t[k].launch
  BY Zenon
<1>2. \A k, m \in Index : Peers(u, k, m) <=> Peers(t, k, m)
  BY <1>1, Zenon DEF Peers, Occupied
<1>3. \A k \in Index : /\ IsLeader(u, k) <=> IsLeader(t, k)
                       /\ Occupied(u, k) <=> Occupied(t, k)
  BY <1>1, Zenon DEF IsLeader, Occupied
<1>4. \E a \in Index : /\ Occupied(u, a) /\ u[a].pid = INIT_PID /\ u[a].group = INIT_PID
                       /\ u[a].parent = 0 /\ u[a].launch.root = r
  <2>1. PICK a \in Index : /\ Occupied(t, a) /\ t[a].pid = INIT_PID /\ t[a].group = INIT_PID
                           /\ t[a].parent = 0 /\ t[a].launch.root = r
    BY Zenon DEF Families
  <2> QED BY <1>1, <1>3, <2>1, Zenon
<1>5. \A k \in Index : Occupied(u, k) /\ u[k].launch.root = r => u[k].group = INIT_PID
  BY <1>1, <1>3 DEF Families
<1> QED
  BY <1>1, <1>2, <1>3, <1>4, <1>5 DEF Families

\* What a step that does not stop the machine leaves.
Kept(r) == Families(slots', r) /\ cpu'.pc # "halt"

\* The phase of one slot, as a change of the table.
LEMMA OnePhase ==
  ASSUME NEW t \in [Index -> Slot], NEW i \in Index, Occupied(t, i), NEW p \in Phases, p # "Free"
  PROVE  LET u == [t EXCEPT ![i].phase = p] IN
         /\ u \in [Index -> Slot] /\ \A k \in Index : Alike(t, u, k) /\ (Occupied(u, k) <=> Occupied(t, k))
         /\ \A k \in Index : u[k].phase = IF k = i THEN p ELSE t[k].phase
<1> DEFINE s == [t[i] EXCEPT !.phase = p]
           u == [t EXCEPT ![i].phase = p]
<1>1. t[i] \in Slot
  BY Zenon
<1>2. s \in Slot /\ s.phase = p /\ s.pid = t[i].pid /\ s.group = t[i].group
      /\ s.parent = t[i].parent /\ s.launch = t[i].launch
  BY <1>1, Zenon DEF Slot
<1>3. u = [t EXCEPT ![i] = s]
  BY Zenon
<1> HIDE DEF s
<1>4. u \in [Index -> Slot] /\ \A k \in Index : u[k] = IF k = i THEN s ELSE t[k]
  BY <1>2, <1>3, Zenon
<1> HIDE DEF u
<1>5. \A k \in Index : Alike(t, u, k) /\ (Occupied(u, k) <=> Occupied(t, k))
                       /\ u[k].phase = IF k = i THEN p ELSE t[k].phase
  BY <1>2, <1>4, Zenon DEF Alike, Occupied
<1> QED
  BY <1>4, <1>5, Zenon DEF u

LEMMA RunKeeps ==
  ASSUME NEW r, NEW t, Families(t, r), NEW j \in Index, Occupied(t, j), Run(t, j)
  PROVE  Kept(r)
<1>1. t \in [Index -> Slot] /\ "Running" \in Phases /\ "Running" # "Free"
  BY Zenon DEF Families, Phases
<1>2. slots' = [t EXCEPT ![j].phase = "Running"] /\ cpu'.pc = "return"
  BY Zenon DEF Run
<1>3. /\ slots' \in [Index -> Slot]
      /\ \A k \in Index : Alike(t, slots', k) /\ (Occupied(slots', k) <=> Occupied(t, k))
      /\ \A k \in Index : slots'[k].phase = IF k = j THEN "Running" ELSE t[k].phase
  BY <1>1, <1>2, OnePhase, ZenonT(40)
<1>4. Families(slots', r)
  BY <1>3, PhaseFamilies, Zenon
<1> QED
  BY <1>2, <1>4, Zenon DEF Kept

LEMMA DispatchKeeps ==
  ASSUME NEW r, NEW t, Families(t, r), NEW i, NEW S,
         \A j \in S : j \in Index /\ Occupied(t, j), Dispatch(t, i, S)
  PROVE  Kept(r)
<1>1. CASE \E j \in S : Run(t, j)
  BY <1>1, RunKeeps, Zenon
<1>2. CASE Idle(t)
  BY <1>2, Zenon DEF Idle, Kept
<1> QED
  BY <1>1, <1>2, Zenon DEF Dispatch

LEMMA ReturnKeeps ==
  ASSUME NEW r, NEW t, Families(t, r), NEW i \in Index, t[i].phase = "Running",
         Rotate(t, i) \/ resume_current(t, i) \/ SafePoint(t, i)
  PROVE  Kept(r)
<1> DEFINE u == [t EXCEPT ![i].phase = "Runnable"]
<1>1. t \in [Index -> Slot] /\ Occupied(t, i) /\ "Runnable" \in Phases /\ "Runnable" # "Free"
  BY Zenon DEF Families, Occupied, Phases
<1>2. /\ u \in [Index -> Slot]
      /\ \A k \in Index : Alike(t, u, k) /\ (Occupied(u, k) <=> Occupied(t, k))
      /\ \A k \in Index : u[k].phase = IF k = i THEN "Runnable" ELSE t[k].phase
  BY <1>1, OnePhase, ZenonT(40)
<1> HIDE DEF u
<1>3. Families(u, r)
  BY <1>2, PhaseFamilies, Zenon
<1>4. \A k \in Runnable(t) : k \in Index /\ Occupied(u, k)
  BY <1>2, Zenon DEF Runnable, Occupied
<1>5. CASE Run(t, i)
  BY <1>1, <1>5, RunKeeps, Zenon
<1>6. CASE \E j \in Runnable(t) : Run(u, j)
  BY <1>3, <1>4, <1>6, RunKeeps, Zenon
<1> QED
  BY <1>5, <1>6, Zenon DEF Rotate, resume_current, SafePoint, u

\* schedule_block.
LEMMA BlockKeeps ==
  ASSUME NEW r, Families(slots, r), NEW i \in Index, slots[i].phase = "Running", schedule_block(i)
  PROVE  Kept(r)
<1> DEFINE u == [slots EXCEPT ![i].phase = "Blocked"]
<1>1. slots \in [Index -> Slot] /\ Occupied(slots, i) /\ "Blocked" \in Phases /\ "Blocked" # "Free"
  BY Zenon DEF Families, Occupied, Phases
<1>2. /\ u \in [Index -> Slot]
      /\ \A k \in Index : Alike(slots, u, k) /\ (Occupied(u, k) <=> Occupied(slots, k))
      /\ \A k \in Index : u[k].phase = IF k = i THEN "Blocked" ELSE slots[k].phase
  BY <1>1, OnePhase, ZenonT(40)
<1>3. Dispatch(u, i, Runnable(slots))
  BY Zenon DEF schedule_block
<1> HIDE DEF u
<1>4. Families(u, r)
  BY <1>2, PhaseFamilies, Zenon
<1>5. \A k \in Runnable(slots) : k \in Index /\ Occupied(u, k)
  BY <1>2, Zenon DEF Runnable, Occupied
<1> QED
  BY <1>3, <1>4, <1>5, DispatchKeeps, Zenon

\* Waking parked peers.
LEMMA WakeKeeps ==
  ASSUME NEW r, Families(slots, r), NEW i, NEW W \in SUBSET Parked(i)
  PROVE  LET t == mark_runnable(slots, W) IN
         /\ Families(t, r)
         /\ \A k \in Index : /\ Alike(slots, t, k) /\ (Occupied(t, k) <=> Occupied(slots, k))
                             /\ slots[k].phase = "Running" => t[k].phase = "Running"
<1> DEFINE t == mark_runnable(slots, W)
<1>1. W \subseteq Index /\ \A k \in W : slots[k].phase = "Blocked"
  BY Zenon DEF Parked
<1>2. \A k \in Index : slots[k] \in Slot
  BY Zenon DEF Families
<1>3. \A k \in Index : LET s == [slots[k] EXCEPT !.phase = "Runnable"] IN
        /\ s \in Slot /\ s.phase = "Runnable" /\ s.pid = slots[k].pid /\ s.group = slots[k].group
        /\ s.parent = slots[k].parent /\ s.launch = slots[k].launch
  BY <1>2, Zenon DEF Slot, Phases
<1>4. t \in [Index -> Slot]
  BY <1>2, <1>3, Zenon DEF mark_runnable
<1>5. \A k \in Index : t[k] = IF k \in W THEN [slots[k] EXCEPT !.phase = "Runnable"] ELSE slots[k]
  BY Zenon DEF mark_runnable
<1> HIDE DEF t
<1>6. \A k \in Index : Alike(slots, t, k) /\ t[k].phase = IF k \in W THEN "Runnable" ELSE slots[k].phase
  BY <1>3, <1>5, Zenon DEF Alike
<1>7. \A k \in Index : (Occupied(t, k) <=> Occupied(slots, k))
                       /\ (slots[k].phase = "Running" => t[k].phase = "Running")
                       /\ (t[k].phase = "Zombie" => slots[k].phase = "Zombie")
  BY <1>1, <1>6, Zenon DEF Occupied
<1>8. Families(t, r)
  BY <1>4, <1>6, <1>7, PhaseFamilies, Zenon
<1> QED
  BY <1>6, <1>7, <1>8, Zenon DEF t

\* schedule_exit_return, by a leader that is alone or PID1, or by another thread.
LEMMA ExitKeeps ==
  ASSUME NEW r, Families(slots, r), NEW i \in Index, slots[i].phase = "Running",
         IsLeader(slots, i) => \/ slots[i].group = INIT_PID
                               \/ \A m \in Index : Peers(slots, i, m) => m = i,
         schedule_exit_return(i)
  PROVE  Kept(r)
<1>1. PICK W \in SUBSET Parked(i) :
        LET t == mark_runnable(slots, W) IN
        IF IsLeader(slots, i) THEN schedule_exit(t, i) ELSE schedule_thread_exit(t, i)
  BY Zenon DEF schedule_exit_return
<1> DEFINE t == mark_runnable(slots, W)
<1>2. /\ Families(t, r) /\ t[i].phase = "Running"
      /\ \A k \in Index : Alike(slots, t, k) /\ (Occupied(t, k) <=> Occupied(slots, k))
  BY WakeKeeps, Zenon
<1>3. IF IsLeader(slots, i) THEN schedule_exit(t, i) ELSE schedule_thread_exit(t, i)
  BY <1>1, Zenon
<1> HIDE DEF t
<1>4. /\ t \in [Index -> Slot] /\ t[i] \in Slot /\ Occupied(t, i)
      /\ IsLeader(t, i) <=> IsLeader(slots, i)
      /\ \A m \in Index : Peers(t, i, m) <=> Peers(slots, i, m)
      /\ t[i].group = slots[i].group
  BY <1>2, ZenonT(40) DEF Families, Occupied, IsLeader, Alike, Peers
<1>5. CASE IsLeader(slots, i)
  <2> DEFINE u == [t EXCEPT ![i].phase = "Zombie"]
  <2>1. Dispatch(u, i, Runnable(t))
    BY <1>3, <1>5, Zenon DEF schedule_exit
  <2>2. /\ u \in [Index -> Slot]
        /\ \A k \in Index : Alike(t, u, k) /\ (Occupied(u, k) <=> Occupied(t, k))
        /\ \A k \in Index : u[k].phase = IF k = i THEN "Zombie" ELSE t[k].phase
    <3>1. "Zombie" \in Phases /\ "Zombie" # "Free" /\ t \in [Index -> Slot] /\ Occupied(t, i)
      BY <1>4, Zenon DEF Phases
    <3> QED BY <3>1, OnePhase, ZenonT(40)
  <2> HIDE DEF u
  <2>3. Families(u, r)
    BY <1>2, <1>4, <1>5, <2>2, ZombieFamilies
  <2>4. \A k \in Runnable(t) : k \in Index /\ Occupied(u, k)
    BY <2>2, Zenon DEF Runnable, Occupied
  <2> QED
    BY <2>1, <2>3, <2>4, DispatchKeeps, Zenon
<1>6. CASE ~IsLeader(slots, i)
  <2> DEFINE u == [t EXCEPT ![i] = Retired(t[i])]
  <2>1. Dispatch(u, i, Runnable(t))
    BY <1>3, <1>6, Zenon DEF schedule_thread_exit
  <2>2. Retired(t[i]) \in Slot /\ Retired(t[i]).phase = "Free"
    BY <1>4, RetiredSlot, Zenon
  <2>3. u \in [Index -> Slot] /\ u[i].phase = "Free" /\ \A k \in Index \ {i} : u[k] = t[k]
    BY <1>4, <2>2, Zenon
  <2> HIDE DEF u
  <2>4. ~(t[i].pid = INIT_PID /\ t[i].group = INIT_PID) /\ ~IsLeader(t, i) /\ ~Occupied(u, i)
    BY <1>4, <1>6, <2>3, Zenon DEF IsLeader, Occupied
  <2>5. Families(u, r)
    BY <1>2, <2>3, <2>4, OneRetires, Zenon
  <2>6. \A k \in Runnable(t) : k \in Index /\ Occupied(u, k)
    BY <1>2, <2>3, Zenon DEF Runnable, Occupied
  <2> QED
    BY <2>1, <2>5, <2>6, DispatchKeeps
<1> QED
  BY <1>5, <1>6, Zenon

\* schedule_exit_group: the peers go, then the leader is a zombie alone.
LEMMA GroupExitKeeps ==
  ASSUME NEW r, Families(slots, r), Sound(slots), NEW i \in Index, slots[i].phase = "Running",
         HasLeader(slots, i), schedule_exit_group(i)
  PROVE  Kept(r)
<1> DEFINE M == Members(slots, slots[i].group)
           G == {k \in M : ~IsLeader(slots, k)}
           gone == [k \in Index |->
                      IF k \notin M THEN slots[k]
                      ELSE IF IsLeader(slots, k) THEN [slots[k] EXCEPT !.phase = "Zombie"]
                      ELSE Retired(slots[k])]
           v == [k \in Index |-> IF k \in G THEN Retired(slots[k]) ELSE slots[k]]
<1>1. \A k \in Index : slots[k] \in Slot
  BY Zenon DEF Sound
<1>2. \A k \in Index : LET s == [slots[k] EXCEPT !.phase = "Zombie"] IN
        /\ s \in Slot /\ s.phase = "Zombie" /\ s.pid = slots[k].pid /\ s.group = slots[k].group
        /\ s.parent = slots[k].parent /\ s.launch = slots[k].launch
  BY <1>1, Zenon DEF Slot, Phases
<1>3. \A k \in Index : Retired(slots[k]) \in Slot /\ Retired(slots[k]).phase = "Free"
  BY <1>1, RetiredSlot, Zenon
<1>4. v \in [Index -> Slot] /\ gone \in [Index -> Slot]
  BY <1>1, <1>2, <1>3, Zenon
<1>5. \A k \in Index : (k \in G => v[k].phase = "Free") /\ (k \notin G => v[k] = slots[k])
  BY <1>3, Zenon
<1>6. PICK l \in M : IsLeader(slots, l)
  BY Zenon DEF HasLeader
<1>7. l \in Index /\ Occupied(slots, l) /\ l \notin G
  BY <1>6, Zenon DEF Members
<1>8. \A k \in M : k \in Index /\ Occupied(slots, k) /\ slots[k].group = slots[i].group
  BY Zenon DEF Members
<1>9. \A k \in M : k \notin G => k = l
  BY <1>6, <1>7, <1>8, Zenon DEF Sound, IsLeader
<1>10. \A k \in Index : /\ k \notin M => gone[k] = slots[k]
                        /\ k \in G => gone[k] = v[k]
  BY Zenon
<1>11. gone[l] = [slots[l] EXCEPT !.phase = "Zombie"]
  BY <1>6, <1>7, Zenon
<1>12. Dispatch(gone, i, Runnable(slots) \ M)
  BY Zenon DEF schedule_exit_group
<1>13. \A k \in G : k \in M /\ ~IsLeader(slots, k)
  BY Zenon
<1>14. \A k \in Index : Occupied(slots, k) /\ slots[k].group = slots[i].group => k \in M
  BY Zenon DEF Members
<1> HIDE DEF M, G, gone, v
<1>15. Families(v, r)
  <2>1. \A k \in Index \cap G : ~Occupied(v, k) /\ ~IsLeader(slots, k)
                                /\ ~(slots[k].pid = INIT_PID /\ slots[k].group = INIT_PID)
    BY <1>5, <1>13, Zenon DEF Occupied, IsLeader
  <2>2. \A k \in Index \ G : v[k] = slots[k]
    BY <1>5, Zenon
  <2> QED
    BY <1>4, <2>1, <2>2, RetireFamilies, Zenon
<1>16. /\ v[l] = slots[l] /\ Occupied(v, l) /\ IsLeader(v, l)
       /\ \A m \in Index : Peers(v, l, m) => m = l
  <2>1. v[l] = slots[l] /\ Occupied(v, l) /\ IsLeader(v, l)
    BY <1>5, <1>6, <1>7, Zenon DEF Occupied, IsLeader
  <2>2. ASSUME NEW m \in Index, Peers(v, l, m) PROVE m = l
    <3>1. m \notin G /\ v[m] = slots[m]
      BY <1>5, <2>2, Zenon DEF Peers, Occupied
    <3>2. m \in M
      BY <1>6, <1>8, <1>14, <2>1, <2>2, <3>1, Zenon DEF Peers, Occupied
    <3> QED BY <1>9, <3>1, <3>2, Zenon
  <2> QED BY <2>1, <2>2, Zenon
<1>17. \A k \in Index : /\ Alike(v, gone, k) /\ (Occupied(gone, k) <=> Occupied(v, k))
                        /\ gone[k].phase = "Zombie" => k = l \/ v[k].phase = "Zombie"
  <2>1. \A k \in Index \ {l} : gone[k] = v[k]
    BY <1>5, <1>9, <1>10, <1>13, Zenon
  <2>2. /\ gone[l].pid = v[l].pid /\ gone[l].group = v[l].group /\ gone[l].parent = v[l].parent
        /\ gone[l].launch = v[l].launch /\ gone[l].phase = "Zombie"
    BY <1>2, <1>7, <1>11, <1>16
  <2>3. Occupied(gone, l)
    BY <2>2, Zenon DEF Occupied
  <2> QED BY <1>7, <1>16, <2>1, <2>2, <2>3, Zenon DEF Alike, Occupied
<1>18. Families(gone, r)
  BY <1>4, <1>7, <1>15, <1>16, <1>17, ZombieFamilies, Zenon
<1>19. \A j \in Runnable(slots) \ M : j \in Index /\ Occupied(gone, j)
  BY <1>10, Zenon DEF Runnable, Occupied
<1> QED
  BY <1>12, <1>18, <1>19, DispatchKeeps, Zenon

LEMMA LinuxKeepsFamilies ==
  ASSUME NEW r \in Roots, OneInit(r), IInv, Families(slots, r), NEW i \in Index, LinuxStep(i)
  PROVE  Kept(r)
<1>1. CallerAbi(i, "Linux")
  BY Zenon DEF LinuxStep, LinuxResult, LinuxSyscall, Clone, CloneRefused,
         CloneRolledBack, Execve, FutexWait, LinuxExit, FatalSignal, LinuxExitGroup
<1>2. /\ Ready(slots, i) /\ Occupied(slots, i) /\ Sound(slots)
      /\ slots[i].phase = "Running" /\ slots[i].launch.abi = "Linux"
  BY <1>1, CallerReady, Zenon DEF IInv, Decided, Caller, CallerAbi
<1>3. HasLeader(slots, i)
  <2>1. PICK m \in Index : Peers(slots, i, m) /\ IsLeader(slots, m)
    BY <1>2, Zenon DEF Families
  <2> QED BY <2>1, Zenon DEF HasLeader, Members, Peers
<1>4. CASE LinuxResult(i)
  <2>1. PICK W \in SUBSET Parked(i) : resume_current(mark_runnable(slots, W), i)
    BY <1>4, Zenon DEF LinuxResult
  <2>2. Families(mark_runnable(slots, W), r) /\ mark_runnable(slots, W)[i].phase = "Running"
    BY <1>2, WakeKeeps, Zenon
  <2> QED
    BY <2>1, <2>2, ReturnKeeps, Zenon
<1>5. CASE LinuxSyscall(i) \/ CloneRefused(i)
  <2>1. resume_current(slots, i)
    BY <1>3, <1>5, Zenon DEF LinuxSyscall, ResumeWithSignals, CloneRefused
  <2> QED
    BY <1>2, <2>1, ReturnKeeps, Zenon
<1>6. CASE Clone(i)
  <2>1. PICK k \in 0 .. NSlots, p \in Pids, j \in Index :
          /\ allocate_pid(slots, k, p) /\ FirstUsable(slots, j)
          /\ resume_current([slots EXCEPT ![j] = Peer(i, j, p)], i)
    BY <1>6, Zenon DEF Clone
  <2> DEFINE u == [slots EXCEPT ![j] = Peer(i, j, p)]
  <2>2. ~Occupied(slots, j) /\ i # j
    BY <1>2, <2>1, Zenon DEF FirstUsable, Usable, Occupied
  <2>3. Peer(i, j, p) \in Slot
    BY <1>2, <2>1, PeerSlot, Zenon
  <2>4. /\ u \in [Index -> Slot] /\ u[j] = Peer(i, j, p) /\ \A m \in Index \ {j} : u[m] = slots[m]
    BY <1>2, <2>3, Zenon DEF Sound
  <2>5. resume_current(u, i)
    BY <2>1, Zenon
  <2> HIDE DEF u
  <2>6. /\ Occupied(u, j) /\ u[j].phase # "Zombie" /\ u[j].group = slots[i].group
        /\ u[j].launch = slots[i].launch
    BY <2>4 DEF Peer, Occupied
  <2>7. Families(u, r)
    BY <1>2, <2>2, <2>4, <2>6, InstallFamilies
  <2>8. u[i].phase = "Running"
    BY <1>2, <2>2, <2>4, Zenon
  <2> QED
    BY <2>5, <2>7, <2>8, ReturnKeeps, Zenon
<1>7. CASE CloneRolledBack(i)
  <2>1. PICK k \in 0 .. NSlots, p \in Pids, j \in Index :
          /\ allocate_pid(slots, k, p) /\ FirstUsable(slots, j)
          /\ slots' = [slots EXCEPT ![j] = Retired(Peer(i, j, p))]
    BY <1>7, Zenon DEF CloneRolledBack
  <2>2. ~Occupied(slots, j) /\ Retired(Peer(i, j, p)) \in Slot /\ Retired(Peer(i, j, p)).phase = "Free"
    BY <1>2, <2>1, PeerSlot, RetiredSlot, Zenon DEF FirstUsable, Usable
  <2>3. /\ slots' \in [Index -> Slot] /\ slots'[j].phase = "Free"
        /\ \A m \in Index \ {j} : slots'[m] = slots[m]
    BY <1>2, <2>1, <2>2, Zenon DEF Sound
  <2>4. \A m \in Index : ~Peers(slots, m, j)
    BY <2>2, Zenon DEF Peers
  <2>5. Families(slots', r)
    <3>1. ~Occupied(slots', j)
      BY <2>3, Zenon DEF Occupied
    <3> QED BY <2>2, <2>3, <2>4, <3>1, OneRetires, Zenon
  <2>6. cpu'.pc = "return"
    BY <1>7, Zenon DEF CloneRolledBack
  <2> QED
    BY <2>5, <2>6, Zenon DEF Kept
<1>8. CASE Execve(i)
  <2>1. PICK q \in Roots \ InstalledRoots : resume_current([slots EXCEPT ![i].launch.root = q], i)
    BY <1>8, Zenon DEF Execve
  <2>2. slots[i].pid # INIT_PID
    BY <1>8, Zenon DEF Execve
  <2> DEFINE l == [slots[i].launch EXCEPT !.root = q]
             s == [slots[i] EXCEPT !.launch = l]
             u == [slots EXCEPT ![i].launch.root = q]
  <2>3. slots \in [Index -> Slot] /\ slots[i] \in Slot /\ slots[i].launch \in Launch
    BY <1>2, Zenon DEF Sound
  <2>4. l \in Launch /\ l.root = q /\ l.abi = slots[i].launch.abi
    BY <2>3, Zenon DEF Launch
  <2>5. u = [slots EXCEPT ![i] = s]
    BY Zenon
  <2>6. resume_current(u, i)
    BY <2>1, Zenon
  <2>7. q # r
    <3>1. \E a \in Index : slots[a].launch.root = r
      BY Zenon DEF Families
    <3> QED BY <3>1, Zenon DEF InstalledRoots
  <2> HIDE DEF l
  <2>8. /\ s \in Slot /\ s.launch = l /\ s.phase = slots[i].phase /\ s.pid = slots[i].pid
        /\ s.group = slots[i].group /\ s.parent = slots[i].parent
    BY <2>3, <2>4, Zenon DEF Slot
  <2> HIDE DEF s, u
  <2>9. u \in [Index -> Slot] /\ u[i] = s /\ \A k \in Index \ {i} : u[k] = slots[k]
    BY <2>3, <2>5, <2>8, Zenon
  <2>10. Families(u, r)
    BY <1>2, <2>2, <2>4, <2>7, <2>8, <2>9, ExecFamilies, Zenon
  <2> QED
    BY <1>2, <2>6, <2>8, <2>9, <2>10, ReturnKeeps, Zenon
<1>9. CASE FutexWait(i)
  BY <1>2, <1>9, BlockKeeps, Zenon DEF FutexWait
<1>10. CASE LinuxExit(i)
  <2>1. schedule_exit_return(i) /\ (IsLeader(slots, i) => Members(slots, slots[i].group) = {i})
    BY <1>10, Zenon DEF LinuxExit
  <2>2. \A m \in Index : Peers(slots, i, m) => m \in Members(slots, slots[i].group)
    BY Zenon DEF Peers, Members
  <2> QED
    BY <1>2, <2>1, <2>2, ExitKeeps, Zenon
<1>11. CASE FatalSignal(i)
  <2>1. schedule_exit_return(i) /\ slots[i].launch.root = r
    BY <1>11, Zenon DEF FatalSignal, OneInit
  <2>2. slots[i].group = INIT_PID
    BY <1>2, <2>1, Zenon DEF Families
  <2> QED
    BY <1>2, <2>1, <2>2, ExitKeeps, Zenon
<1>12. CASE LinuxExitGroup(i)
  BY <1>2, <1>3, <1>12, GroupExitKeeps, Zenon DEF LinuxExitGroup
<1> QED
  BY <1>4, <1>5, <1>6, <1>7, <1>8, <1>9, <1>10, <1>11, <1>12, Zenon DEF LinuxStep

LEMMA NativeKeepsFamilies ==
  ASSUME NEW r \in Roots, OneInit(r), IInv, Families(slots, r), NEW i \in Index, NativeStep(i)
  PROVE  Kept(r)
<1>1. CallerAbi(i, "Native")
  BY Zenon DEF NativeStep, NativeSyscall, NativeYield, NativeExit, Spawn, SpawnRefused, NativeWait
<1>2. /\ Ready(slots, i) /\ Occupied(slots, i) /\ Sound(slots)
      /\ slots[i].phase = "Running" /\ slots[i].launch.abi = "Native"
  BY <1>1, CallerReady, Zenon DEF IInv, Decided, Caller, CallerAbi
<1>3. CASE NativeSyscall(i) \/ NativeYield(i) \/ SpawnRefused(i)
  <2>1. SafePoint(slots, i) \/ Rotate(slots, i)
    BY <1>3, Zenon DEF NativeSyscall, NativeYield, SpawnRefused
  <2> QED BY <1>2, <2>1, ReturnKeeps, Zenon
<1>4. CASE NativeExit(i)
  <2>1. \A m \in Index : Peers(slots, i, m) => m = i
    BY <1>2, Zenon DEF Families
  <2> QED
    BY <1>2, <1>4, <2>1, ExitKeeps, Zenon DEF NativeExit
<1>5. CASE Spawn(i)
  <2>1. PICK l \in ServiceLaunches, k \in 0 .. NSlots, p \in Pids, j \in Index :
          /\ allocate_pid(slots, k, p) /\ FirstUsable(slots, j)
          /\ SafePoint([slots EXCEPT ![j] = Child(i, j, p, l)], i)
    BY <1>5, Zenon DEF Spawn
  <2> DEFINE u == [slots EXCEPT ![j] = Child(i, j, p, l)]
  <2>2. l \in Launch /\ l.root # r /\ p \notin OccupiedPids(slots)
    BY <2>1, LifecycleConstants, Zenon DEF OneInit, allocate_pid
  <2>3. ~Occupied(slots, j) /\ i # j
    BY <1>2, <2>1, Zenon DEF FirstUsable, Usable, Occupied
  <2>4. Child(i, j, p, l) \in Slot
    BY <1>2, <2>1, <2>2, ChildSlot, Zenon
  <2>5. /\ u \in [Index -> Slot] /\ u[j] = Child(i, j, p, l) /\ \A m \in Index \ {j} : u[m] = slots[m]
    BY <1>2, <2>4, Zenon DEF Sound
  <2>6. SafePoint(u, i)
    BY <2>1, Zenon
  <2> HIDE DEF u
  <2>7. /\ Occupied(u, j) /\ u[j].phase # "Zombie" /\ IsLeader(u, j) /\ u[j].pid = p
        /\ u[j].launch = l
    BY <2>5 DEF Child, Occupied, IsLeader
  <2>8. Families(u, r)
    BY <2>2, <2>3, <2>5, <2>7, InstallFamilies, Zenon
  <2>9. u[i].phase = "Running"
    BY <1>2, <2>3, <2>5, Zenon
  <2> QED
    BY <2>6, <2>8, <2>9, ReturnKeeps, Zenon
<1>6. CASE NativeWait(i)
  <2>1. PICK z \in Index : ZombieChild(i, z) /\ SafePoint(Reaped(z), i)
    BY <1>6, Zenon DEF NativeWait
  <2> DEFINE u == Reaped(z)
  <2>2. /\ slots[z].phase = "Zombie" /\ slots[z].parent = slots[i].pid /\ slots[i].pid \in Pids
        /\ Occupied(slots, z) /\ IsLeader(slots, z)
    BY <1>2, <2>1, Zenon DEF ZombieChild, Occupied, Sound, Families
  <2>3. slots[z].group # INIT_PID
    <3> SUFFICES ASSUME slots[z].group = INIT_PID PROVE FALSE
      BY Zenon
    <3>1. PICK a \in Index : /\ Occupied(slots, a) /\ slots[a].pid = INIT_PID /\ slots[a].parent = 0
      BY Zenon DEF Families
    <3>2. a = z
      BY <1>2, <2>2, <3>1, Zenon DEF Sound, IsLeader
    <3> QED BY <2>2, <3>1, <3>2 DEF Pids
  <2>4. Retired(slots[z]) \in Slot /\ Retired(slots[z]).phase = "Free"
    BY <1>2, RetiredSlot, Zenon DEF Sound
  <2>5. /\ u \in [Index -> Slot] /\ u[z].phase = "Free" /\ \A m \in Index \ {z} : u[m] = slots[m]
    BY <1>2, <2>4, Zenon DEF Sound, Reaped
  <2>6. \A m \in Index \ {z} : ~Peers(slots, m, z)
    <3>1. \A m \in Index : Peers(slots, m, z) => Peers(slots, z, m)
      BY Zenon DEF Peers
    <3> QED BY <2>2, <2>3, <3>1, Zenon DEF Families
  <2>7. SafePoint(u, i)
    BY <2>1, Zenon
  <2> HIDE DEF u
  <2>8. Families(u, r)
    <3>1. ~Occupied(u, z)
      BY <2>5, Zenon DEF Occupied
    <3> QED BY <2>3, <2>5, <2>6, <3>1, OneRetires, Zenon
  <2>9. u[i].phase = "Running"
    BY <1>2, <2>2, <2>5, Zenon
  <2> QED
    BY <2>7, <2>8, <2>9, ReturnKeeps, Zenon
<1> QED
  BY <1>3, <1>4, <1>5, <1>6, Zenon DEF NativeStep

\* The inductive invariant of the theorem, beside IInv.
Headed(r) == HaltOnlyWhenExhausted /\ (cpu.pc # "boot" => Families(slots, r))

LEMMA NextHeaded ==
  ASSUME NEW r \in Roots, OneInit(r), IInv, Headed(r), [Next]_vars
  PROVE  Headed(r)'
<1>1. ASSUME Kept(r) PROVE Headed(r)'
  BY <1>1, Zenon DEF Kept, Headed, HaltOnlyWhenExhausted
<1>2. CASE Boot
  <2>1. PICK l \in InitLaunches :
          slots' = [slots EXCEPT ![0] =
                      [phase |-> "Running", gen |-> slots[0].gen, pid |-> INIT_PID,
                       group |-> INIT_PID, parent |-> 0, launch |-> l]]
    BY <1>2, Zenon DEF Boot
  <2> DEFINE s == [phase |-> "Running", gen |-> slots[0].gen, pid |-> INIT_PID,
                   group |-> INIT_PID, parent |-> 0, launch |-> l]
  <2>2. /\ 0 \in Index /\ slots \in [Index -> Slot] /\ cpu'.pc = "user" /\ l.root = r
        /\ \A k \in Index : slots[k].phase = "Free"
    BY <1>2, LifecycleConstants DEF Index, IInv, Decided, Sound, BootFresh, Boot, Occupied, OneInit
  <2>3. Sound(slots')
    BY <1>2, BootKeepsIInv, Zenon DEF IInv, Decided
  <2>4. slots' = [slots EXCEPT ![0] = s]
    BY <2>1, Zenon
  <2>5. slots' \in [Index -> Slot] /\ slots'[0] = s /\ \A k \in Index \ {0} : slots'[k].phase = "Free"
    BY <2>2, <2>3, <2>4, Zenon DEF Sound
  <2>6. /\ s.phase = "Running" /\ s.pid = INIT_PID /\ s.group = INIT_PID /\ s.parent = 0 /\ s.launch = l
    BY Zenon
  <2> HIDE DEF s
  <2>7. \A k \in Index : Occupied(slots', k) <=> k = 0
    BY <2>2, <2>5, <2>6, Zenon DEF Occupied
  <2>8. Families(slots', r)
    BY <2>2, <2>5, <2>6, <2>7, Zenon DEF Families, Peers, IsLeader
  <2> QED BY <1>1, <2>2, <2>8, Zenon DEF Kept
<1>3. CASE \E i \in Index : LinuxStep(i) \/ NativeStep(i)
  <2>1. PICK i \in Index : LinuxStep(i) \/ NativeStep(i)
    BY <1>3, Zenon
  <2>2. cpu.pc = "user"
    BY <2>1, Zenon DEF LinuxStep, LinuxResult, LinuxSyscall, Clone, CloneRefused, CloneRolledBack, Execve,
                FutexWait, LinuxExit, FatalSignal, LinuxExitGroup, NativeStep, NativeSyscall,
                NativeYield, NativeExit, Spawn, SpawnRefused, NativeWait, CallerAbi, Caller
  <2>3. Families(slots, r)
    BY <2>2, Zenon DEF Headed
  <2> QED BY <1>1, <2>1, <2>3, LinuxKeepsFamilies, NativeKeepsFamilies, Zenon
<1>4. CASE arach_syscall_activate
  BY <1>4, Zenon DEF arach_syscall_activate, tableVars, IInv, Decided, ReturnGateOpens, Headed, HaltOnlyWhenExhausted
<1>5. CASE TimerIrq \/ Halted \/ UNCHANGED vars
  BY <1>5, Zenon DEF TimerIrq, Halted, vars, tableVars, Headed, HaltOnlyWhenExhausted
<1>6. CASE schedule_from_pid0
  <2>1. cpu.pc = "idle" /\ Dispatch(slots, NSlots - 1, Runnable(slots)) /\ Families(slots, r)
    BY <1>6, Zenon DEF schedule_from_pid0, IInv, Decided, IdleOnlyWithoutWork, Headed
  <2>2. \A j \in Runnable(slots) : j \in Index /\ Occupied(slots, j)
    BY Zenon DEF Runnable, Occupied
  <2> QED BY <1>1, <2>1, <2>2, DispatchKeeps, Zenon
<1>7. CASE Exhausted
  <2>1. /\ cpu'.pc = "halt" /\ epoch' = epoch /\ slots' = slots /\ cpu.pc # "boot"
        /\ epoch = MaxEpoch \/ epoch = MaxEpoch - 1
    BY <1>7, Zenon DEF Exhausted, Halt, tableVars
  <2>2. epoch >= MaxEpoch - 1
    BY <2>1, LifecycleConstants
  <2> QED BY <2>1, <2>2, Zenon DEF Headed, HaltOnlyWhenExhausted
<1> QED
  BY <1>2, <1>3, <1>4, <1>5, <1>6, <1>7, Zenon DEF Next

\* resume_linux_with_pending_signal and exit_group stop the machine when a task
\* has lost its leader.  They never do, provided only PID1, which nobody waits
\* for, is killed by a signal: then the machine stops only when the scheduler
\* epoch is exhausted, for every number of slots and every width.
THEOREM HaltsExhausted ==
  ASSUME NEW r \in Roots, OneInit(r)
  PROVE  Spec => []HaltOnlyWhenExhausted
<1>1. Init => Headed(r)
  BY DEF Init, Headed, HaltOnlyWhenExhausted
<1>2. IInv /\ Headed(r) /\ [Next]_vars => Headed(r)'
  BY NextHeaded, Zenon
<1>3. Headed(r) => HaltOnlyWhenExhausted
  BY Zenon DEF Headed
<1> QED
  BY <1>1, <1>2, <1>3, Inductive, PTL DEF Spec
=============================================================================
