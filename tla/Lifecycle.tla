----------------------------- MODULE Lifecycle -----------------------------
(***************************************************************************)
(* The process lifecycle of the kernel: the process table, the scheduler   *)
(* epoch and the execution identity of process/lifecycle.rs, driven by the *)
(* syscall handlers of syscalls.rs that call it.  One action is one whole  *)
(* syscall, run on the bootstrap CPU with interrupts masked; the assembly  *)
(* return gate that follows it (arach_syscall_activate) is a step of its   *)
(* own, because it revalidates what the handler decided.                   *)
(*                                                                         *)
(* Register contents, exit codes and wait sequences are left out.  What    *)
(* the futex queue, the robust list and the child-tid word contribute is   *)
(* the set of parked peers a handler wakes: any set here, the exact one in *)
(* module Futex.                                                           *)
(***************************************************************************)
EXTENDS Integers, FiniteSets

CONSTANTS
  NSlots,          \* MAXIMUM_PROCESSES
  MaxPid,          \* u32::MAX for a pid, scaled down
  MaxGen,          \* u32::MAX for a slot generation, scaled down
  MaxEpoch,        \* u64::MAX for the scheduler epoch, scaled down
  Roots,           \* address-space roots
  NoRoot,          \* the zero root of an empty slot
  InitLaunches,    \* launch records PID1 may be booted with
  ServiceLaunches, \* launch records of the installed services
  FatalSignals     \* the programs that take a signal whose default kills

Index == 0 .. NSlots - 1
Abi == {"Linux", "Native"}
Launch == [abi : Abi, root : Roots]
NoLaunch == [abi |-> "Native", root |-> NoRoot]

ASSUME LifecycleConstants ==
  /\ NSlots \in Nat \ {0}
  /\ MaxPid \in Nat /\ MaxPid > NSlots + 1
  /\ MaxGen \in Nat /\ MaxGen > 1
  /\ MaxEpoch \in Nat /\ MaxEpoch > 1
  /\ NoRoot \notin Roots
  /\ InitLaunches \subseteq Launch
  /\ ServiceLaunches \subseteq Launch
  /\ FatalSignals \subseteq Launch

VARIABLES
  slots,    \* ProcessTable.slots
  nextPid,  \* ProcessTable.next_pid
  epoch,    \* ProcessTable.scheduler_epoch (and its IRQ mirror)
  current,  \* CURRENT_EXECUTION: a handle, or PID0
  launched, \* ServiceImageRegistry.launched: services already started
  ticket,   \* the preemption mailbox: a pending authority, or NoTicket
  cpu       \* what the bootstrap CPU does, with the authority it carries

tableVars == <<slots, nextPid, epoch, current>>
vars == <<slots, nextPid, epoch, current, launched, ticket, cpu>>

INIT_PID == 1
Pids == 1 .. MaxPid
Generations == 1 .. MaxGen
Epochs == 0 .. MaxEpoch
PID0 == [pid |-> 0, gen |-> 1]
UserHandles == [pid : Pids, gen : Generations]
NoTicket == [handle |-> PID0, epoch |-> 0]
NoFrame == [handle |-> PID0, epoch |-> 0, root |-> NoRoot]

Phases == {"Free", "Runnable", "Running", "Blocked", "Zombie"}
Slot == [phase : Phases, gen : Generations, pid : 0 .. MaxPid,
         group : 0 .. MaxPid, parent : 0 .. MaxPid,
         launch : Launch \cup {NoLaunch}]
EMPTY(g) == [phase |-> "Free", gen |-> g, pid |-> 0, group |-> 0,
             parent |-> 0, launch |-> NoLaunch]

-----------------------------------------------------------------------------
(* Reading a table t: an occupied slot is one whose phase is not Free.     *)

Occupied(t, i) == t[i].phase # "Free"
Handle(t, i) == [pid |-> t[i].pid, gen |-> t[i].gen]
OccupiedPids(t) == {t[i].pid : i \in {k \in Index : Occupied(t, k)}}
Runnable(t) == {i \in Index : t[i].phase = "Runnable"}
Members(t, g) == {i \in Index : Occupied(t, i) /\ t[i].group = g}
IsLeader(t, i) == t[i].pid = t[i].group
HasLeader(t, i) == \E k \in Members(t, t[i].group) : IsLeader(t, k)

\* The slot the running user identity names; every handler starts from it.
Caller(i) ==
  /\ cpu.pc = "user"
  /\ slots[i].phase = "Running"
  /\ Handle(slots, i) = current

CallerAbi(i, abi) == Caller(i) /\ slots[i].launch.abi = abi

-----------------------------------------------------------------------------
(* Pid and slot allocation.                                                *)

\* The k-th candidate after p; the counter wraps past MaxPid to 2.
PidAfter(p, k) == IF p + k > MaxPid THEN p + k - MaxPid + 1 ELSE p + k

\* Mutated form: the next candidate is taken unchecked.
allocate_pid_unchecked(t, k, p) ==
  /\ k = 0 /\ p = nextPid
  /\ nextPid' = PidAfter(nextPid, 1)

\* allocate_pid: k candidates are taken, the one at offset k is free.
allocate_pid(t, k, p) ==
  /\ p = PidAfter(nextPid, k)
  /\ p \notin OccupiedPids(t)
  /\ \A m \in 0 .. k - 1 : PidAfter(nextPid, m) \in OccupiedPids(t)
  /\ nextPid' = PidAfter(nextPid, k + 1)

\* A free slot whose generation is not exhausted; the first one is taken.
Usable(t) == {i \in Index : ~Occupied(t, i) /\ t[i].gen # MaxGen}
FirstUsable(t, j) == j \in Usable(t) /\ \A k \in Usable(t) : j <= k

\* Mutated form: the slot is reset to ProcessSlot::EMPTY and nothing more.
RetiredToDefault(s) == EMPTY(1)

\* EMPTY with the next generation, which saturates.
Retired(s) == EMPTY(IF s.gen = MaxGen THEN MaxGen ELSE s.gen + 1)

-----------------------------------------------------------------------------
(* Scheduling decisions on a table t the handler has already updated.      *)

\* Steps of the scan (after+1 .. after+NSlots) % NSlots until it meets j.
Distance(i, j) == IF j > i THEN j - i ELSE j + NSlots - i
IsNext(i, j, S) == j \in S /\ \A k \in S : Distance(i, j) <= Distance(i, k)

\* Select slot j: it runs, and the return frame carries its authority.
Run(t, j) ==
  /\ epoch < MaxEpoch
  /\ epoch' = epoch + 1
  /\ slots' = [t EXCEPT ![j].phase = "Running"]
  /\ current' = Handle(t, j)
  /\ cpu' = [pc |-> "return",
             frame |-> [handle |-> Handle(t, j), epoch |-> epoch + 1,
                        root |-> t[j].launch.root]]

\* Select PID0: the kernel idles with a Pid0Authority.
Idle(t) ==
  /\ epoch < MaxEpoch
  /\ epoch' = epoch + 1
  /\ slots' = t
  /\ current' = PID0
  /\ cpu' = [pc |-> "idle", frame |-> [NoFrame EXCEPT !.epoch = epoch + 1]]

\* Mutated form: the decision is published without a new epoch.
DispatchSameEpoch(t, i, S) ==
  \/ \E j \in S :
       /\ IsNext(i, j, S)
       /\ slots' = [t EXCEPT ![j].phase = "Running"]
       /\ current' = Handle(t, j)
       /\ cpu' = [pc |-> "return",
                  frame |-> [handle |-> Handle(t, j), epoch |-> epoch,
                             root |-> t[j].launch.root]]
       /\ UNCHANGED epoch
  \/ S = {} /\ Idle(t)

\* The next slot of S in round-robin order after i, or PID0.
Dispatch(t, i, S) ==
  \/ \E j \in S : IsNext(i, j, S) /\ Run(t, j)
  \/ S = {} /\ Idle(t)

resume_current(t, i) == Run(t, i)

\* schedule_yield and a valid schedule_preempt: the caller goes to the back.
Rotate(t, i) ==
  LET S == Runnable(t) IN
  \/ \E j \in S : IsNext(i, j, S) /\ Run([t EXCEPT ![i].phase = "Runnable"], j)
  \/ S = {} /\ Run(t, i)

schedule_block(i) ==
  Dispatch([slots EXCEPT ![i].phase = "Blocked"], i, Runnable(slots))

schedule_exit(t, i) ==
  Dispatch([t EXCEPT ![i].phase = "Zombie"], i, Runnable(t))

schedule_thread_exit(t, i) ==
  Dispatch([t EXCEPT ![i] = Retired(@)], i, Runnable(t))

schedule_exit_group(i) ==
  LET g == slots[i].group
      gone == [k \in Index |->
                 IF k \notin Members(slots, g) THEN slots[k]
                 ELSE IF IsLeader(slots, k) THEN [slots[k] EXCEPT !.phase = "Zombie"]
                 ELSE Retired(slots[k])]
  IN Dispatch(gone, i, Runnable(slots) \ Members(slots, g))

Halt == cpu' = [pc |-> "halt", frame |-> NoFrame] /\ UNCHANGED tableVars

-----------------------------------------------------------------------------
(* The Linux personality.  It never takes a preemption ticket.             *)

\* Blocked peers on the caller's address space: what wake_current can reach.
Parked(i) == {k \in Index : /\ slots[k].phase = "Blocked"
                            /\ slots[k].launch.root = slots[i].launch.root}
mark_runnable(t, W) ==
  [k \in Index |-> IF k \in W THEN [t[k] EXCEPT !.phase = "Runnable"] ELSE t[k]]

\* resume_linux_result: futex WAKE, and every call that fails before it
\* changes the table.
LinuxResult(i) ==
  /\ CallerAbi(i, "Linux")
  /\ \E W \in SUBSET Parked(i) : resume_current(mark_runnable(slots, W), i)
  /\ UNCHANGED <<nextPid, launched, ticket>>

\* resume_linux_with_pending_signal: a task whose leader is gone stops the
\* machine.
ResumeWithSignals(i) ==
  \/ HasLeader(slots, i) /\ resume_current(slots, i)
  \/ ~HasLeader(slots, i) /\ Halt

\* Every other Linux call, wait4 included: only PID1 has children, and it has
\* them only with the native personality.
LinuxSyscall(i) ==
  /\ CallerAbi(i, "Linux")
  /\ ResumeWithSignals(i)
  /\ UNCHANGED <<nextPid, launched, ticket>>

\* The peer clone_current_thread installs in slot j.
Peer(i, j, p) ==
  [phase |-> "Runnable", gen |-> slots[j].gen + 1, pid |-> p,
   group |-> slots[i].group, parent |-> slots[i].parent,
   launch |-> slots[i].launch]

Clone(i) ==
  /\ CallerAbi(i, "Linux")
  /\ \E k \in 0 .. NSlots, p \in Pids, j \in Index :
       /\ allocate_pid(slots, k, p)
       /\ FirstUsable(slots, j)
       /\ resume_current([slots EXCEPT ![j] = Peer(i, j, p)], i)
  /\ UNCHANGED <<launched, ticket>>

\* No usable slot: the pid was consumed all the same.
CloneRefused(i) ==
  /\ CallerAbi(i, "Linux")
  /\ Usable(slots) = {}
  /\ \E k \in 0 .. NSlots, p \in Pids : allocate_pid(slots, k, p)
  /\ resume_current(slots, i)
  /\ UNCHANGED <<launched, ticket>>

\* Mutated form: the rolled-back clone returns through the authority of the
\* clone, which the resume has superseded.
CloneRolledBackOldFrame(i) ==
  /\ CallerAbi(i, "Linux")
  /\ epoch + 2 <= MaxEpoch
  /\ \E k \in 0 .. NSlots, p \in Pids, j \in Index :
       /\ allocate_pid(slots, k, p)
       /\ FirstUsable(slots, j)
       /\ slots' = [slots EXCEPT ![j] = Retired(Peer(i, j, p))]
  /\ epoch' = epoch + 2
  /\ cpu' = [pc |-> "return",
             frame |-> [handle |-> current, epoch |-> epoch + 1,
                        root |-> slots[i].launch.root]]
  /\ UNCHANGED <<current, launched, ticket>>

\* Publishing the child's metadata faults: discard_runnable_thread takes the
\* peer back, and the parent resumes in a second epoch.
CloneRolledBack(i) ==
  /\ CallerAbi(i, "Linux")
  /\ epoch + 2 <= MaxEpoch
  /\ \E k \in 0 .. NSlots, p \in Pids, j \in Index :
       /\ allocate_pid(slots, k, p)
       /\ FirstUsable(slots, j)
       /\ slots' = [slots EXCEPT ![j] = Retired(Peer(i, j, p))]
  /\ epoch' = epoch + 2
  /\ cpu' = [pc |-> "return",
             frame |-> [handle |-> current, epoch |-> epoch + 2,
                        root |-> slots[i].launch.root]]
  /\ UNCHANGED <<current, launched, ticket>>

\* Roots of installed images: those of live slots and of services that have
\* not been launched yet.
InstalledRoots == {slots[k].launch.root : k \in Index}
                    \cup {l.root : l \in ServiceLaunches \ launched}

\* execve by a leader without peers: a new root under the same identity.  The
\* registry exchanges the images of launched services only, never PID1's.
Execve(i) ==
  /\ CallerAbi(i, "Linux")
  /\ IsLeader(slots, i) /\ slots[i].pid # INIT_PID
  /\ Members(slots, slots[i].group) = {i}
  /\ \E r \in Roots \ InstalledRoots :
       resume_current([slots EXCEPT ![i].launch.root = r], i)
  /\ UNCHANGED <<nextPid, launched, ticket>>

FutexWait(i) ==
  /\ CallerAbi(i, "Linux")
  /\ schedule_block(i)
  /\ UNCHANGED <<nextPid, launched, ticket>>

-----------------------------------------------------------------------------
(* Ending a task.                                                          *)

\* schedule_exit_return: the robust list and the child-tid word wake peers,
\* then a leader becomes a zombie and any other thread disappears.
schedule_exit_return(i) ==
  /\ \E W \in SUBSET Parked(i) :
       LET t == mark_runnable(slots, W) IN
       IF IsLeader(slots, i) THEN schedule_exit(t, i) ELSE schedule_thread_exit(t, i)
  /\ ticket' = NoTicket
  /\ UNCHANGED <<nextPid, launched>>

\* Mutated form: the member count of a leader is not consulted.
LinuxExitUncounted(i) ==
  /\ CallerAbi(i, "Linux")
  /\ schedule_exit_return(i)

\* exit: a leader with live peers is refused (LinuxResult).
LinuxExit(i) ==
  /\ CallerAbi(i, "Linux")
  /\ IsLeader(slots, i) => Members(slots, slots[i].group) = {i}
  /\ schedule_exit_return(i)

\* A terminating signal, or a broken signal frame, at the syscall boundary.
FatalSignal(i) ==
  /\ slots[i].launch \in FatalSignals
  /\ CallerAbi(i, "Linux")
  /\ schedule_exit_return(i)

\* exit_group: every wake of its cleanup reaches a member it retires.
LinuxExitGroup(i) ==
  /\ CallerAbi(i, "Linux")
  /\ \/ HasLeader(slots, i) /\ schedule_exit_group(i)
     \/ ~HasLeader(slots, i) /\ Halt
  /\ ticket' = NoTicket
  /\ UNCHANGED <<nextPid, launched>>

-----------------------------------------------------------------------------
(* The native personality.  Its ordinary syscalls end at a safe point that *)
(* consumes the preemption ticket.                                         *)

TicketValid(tk) == tk.handle = current /\ tk.epoch = epoch

SafePoint(t, i) ==
  /\ \/ ticket # NoTicket /\ TicketValid(ticket) /\ Rotate(t, i)
     \/ ~(ticket # NoTicket /\ TicketValid(ticket)) /\ resume_current(t, i)
  /\ ticket' = NoTicket

NativeSyscall(i) ==
  /\ CallerAbi(i, "Native")
  /\ SafePoint(slots, i)
  /\ UNCHANGED <<nextPid, launched>>

\* SYS_YIELD rotates whether or not a ticket is pending, valid or stale.
NativeYield(i) ==
  /\ CallerAbi(i, "Native")
  /\ Rotate(slots, i)
  /\ ticket' = NoTicket
  /\ UNCHANGED <<nextPid, launched>>

NativeExit(i) ==
  /\ CallerAbi(i, "Native")
  /\ schedule_exit_return(i)

\* The child commit_child installs in slot j.
Child(i, j, p, l) ==
  [phase |-> "Runnable", gen |-> slots[j].gen + 1, pid |-> p, group |-> p,
   parent |-> slots[i].pid, launch |-> l]

\* SYS_SPAWN: only PID1 may launch a service, and each service once.
Spawn(i) ==
  /\ CallerAbi(i, "Native")
  /\ slots[i].pid = INIT_PID
  /\ \E l \in ServiceLaunches \ launched, k \in 0 .. NSlots, p \in Pids, j \in Index :
       /\ allocate_pid(slots, k, p)
       /\ FirstUsable(slots, j)
       /\ SafePoint([slots EXCEPT ![j] = Child(i, j, p, l)], i)
       /\ launched' = launched \cup {l}

SpawnRefused(i) ==
  /\ CallerAbi(i, "Native")
  /\ slots[i].pid = INIT_PID
  /\ ServiceLaunches # launched
  /\ Usable(slots) = {}
  /\ \E k \in 0 .. NSlots, p \in Pids : allocate_pid(slots, k, p)
  /\ SafePoint(slots, i)
  /\ UNCHANGED launched

\* wait_child and reap_child: z is a zombie child of the caller.
ZombieChild(i, z) ==
  slots[z].phase = "Zombie" /\ slots[z].parent = slots[i].pid
Reaped(z) == [slots EXCEPT ![z] = Retired(@)]

NativeWait(i) ==
  /\ CallerAbi(i, "Native")
  /\ \E z \in Index : ZombieChild(i, z) /\ SafePoint(Reaped(z), i)
  /\ UNCHANGED <<nextPid, launched>>

-----------------------------------------------------------------------------
(* The CPU between syscalls.                                               *)

Init ==
  /\ slots = [i \in Index |-> EMPTY(1)]
  /\ nextPid = 2
  /\ epoch = 0
  /\ current = PID0
  /\ launched = {}
  /\ ticket = NoTicket
  /\ cpu = [pc |-> "boot", frame |-> NoFrame]

\* register_init, then mark_running, before the first entry to Ring 3.
Boot ==
  /\ cpu.pc = "boot"
  /\ \E l \in InitLaunches :
       slots' = [slots EXCEPT ![0] =
                   [phase |-> "Running", gen |-> slots[0].gen, pid |-> INIT_PID,
                    group |-> INIT_PID, parent |-> 0, launch |-> l]]
  /\ current' = [pid |-> INIT_PID, gen |-> slots[0].gen]
  /\ epoch' = epoch + 1
  /\ cpu' = [pc |-> "user", frame |-> NoFrame]
  /\ UNCHANGED <<nextPid, launched, ticket>>

\* authorize_user_return: the frame still names the running decision.
Authorized(f) ==
  /\ f.handle = current
  /\ f.epoch = epoch
  /\ \E i \in Index : /\ slots[i].phase = "Running"
                      /\ Handle(slots, i) = f.handle
                      /\ slots[i].launch.root = f.root

arach_syscall_activate ==
  /\ cpu.pc = "return"
  /\ cpu' = [pc |-> IF Authorized(cpu.frame) THEN "user" ELSE "halt",
             frame |-> NoFrame]
  /\ UNCHANGED <<tableVars, launched, ticket>>

\* The timer interrupts Ring 3 and publishes into an empty mailbox; PID0
\* has no user authority to publish.
TimerIrq ==
  /\ cpu.pc = "user"
  /\ ticket = NoTicket
  /\ ticket' = [handle |-> current, epoch |-> epoch]
  /\ UNCHANGED <<tableVars, launched, cpu>>

\* One turn of the idle loop: schedule_from_pid0 scans from slot 0, and a
\* stale authority stops the machine.
schedule_from_pid0 ==
  /\ cpu.pc = "idle"
  /\ IF current = PID0 /\ cpu.frame.epoch = epoch
     THEN Dispatch(slots, NSlots - 1, Runnable(slots))
     ELSE Halt
  /\ UNCHANGED <<nextPid, launched, ticket>>

\* The epoch is spent: no decision can be made, and the handler halts.  A
\* clone that rolls back needs two epochs.
Exhausted ==
  /\ cpu.pc \in {"user", "idle"}
  /\ \/ epoch = MaxEpoch
     \/ epoch = MaxEpoch - 1 /\ \E i \in Index : CallerAbi(i, "Linux")
  /\ Halt
  /\ UNCHANGED <<launched, ticket>>

Halted == cpu.pc = "halt" /\ UNCHANGED vars

LinuxStep(i) ==
  \/ LinuxResult(i) \/ LinuxSyscall(i)
  \/ Clone(i) \/ CloneRefused(i) \/ CloneRolledBack(i)
  \/ Execve(i) \/ FutexWait(i)
  \/ LinuxExit(i) \/ FatalSignal(i) \/ LinuxExitGroup(i)

NativeStep(i) ==
  \/ NativeSyscall(i) \/ NativeYield(i) \/ NativeExit(i)
  \/ Spawn(i) \/ SpawnRefused(i) \/ NativeWait(i)

Next ==
  \/ Boot
  \/ \E i \in Index : LinuxStep(i) \/ NativeStep(i)
  \/ arach_syscall_activate \/ TimerIrq \/ schedule_from_pid0
  \/ Exhausted \/ Halted

Spec == Init /\ [][Next]_vars

-----------------------------------------------------------------------------
(* What the lifecycle promises.                                            *)

\* Every variable keeps the shape of its Rust type.
TypeOK ==
  /\ slots \in [Index -> Slot]
  /\ nextPid \in 2 .. MaxPid
  /\ epoch \in Epochs
  /\ current \in UserHandles \cup {PID0}
  /\ launched \subseteq ServiceLaunches
  /\ ticket \in [handle : UserHandles \cup {PID0}, epoch : Epochs]
  /\ cpu \in [pc : {"boot", "user", "return", "idle", "halt"},
             frame : [handle : UserHandles \cup {PID0}, epoch : Epochs,
                      root : Roots \cup {NoRoot}]]

\* The table and CURRENT_EXECUTION agree: the slot that is Running is the one
\* the execution identity names, so at most one task runs, and with PID0
\* current none does (mark_running, every schedule_* function).
RunningIsCurrent ==
  \A i \in Index : slots[i].phase = "Running" <=>
                    (Occupied(slots, i) /\ Handle(slots, i) = current)

\* Two occupied slots never share a pid, although the pid counter wraps and
\* a failed clone or spawn consumes a candidate (allocate_pid).
LivePidsDistinct ==
  \A i, j \in Index : /\ Occupied(slots, i) /\ Occupied(slots, j)
                      /\ slots[i].pid = slots[j].pid
                     => i = j

\* The authority a handler puts in the return frame is accepted by the
\* return gate: authorize_user_return never stops the machine.
ReturnGateOpens == cpu.pc = "return" => Authorized(cpu.frame)

\* The idle loop holds the authority schedule_from_pid0 expects, and the
\* scheduler idles only when no task could run.
IdleOnlyWithoutWork ==
  cpu.pc = "idle" => /\ current = PID0
                     /\ cpu.frame.epoch = epoch
                     /\ Runnable(slots) = {}

\* A timer ticket that carries the present epoch was issued against the
\* present execution: a superseded tick can never rotate another task.
TicketNamesDecision ==
  ticket # NoTicket => /\ ticket.epoch <= epoch
                       /\ ticket.epoch = epoch => ticket.handle = current

\* What a decision leaves behind is exact: one running slot that the identity
\* names, PID0 only when nothing could run, and no ticket of this epoch for
\* another task (schedule_*, publish_execution, the timer interrupt).
DecisionsExact ==
  TypeOK /\ RunningIsCurrent /\ IdleOnlyWithoutWork /\ TicketNamesDecision

\* A waitable zombie is the last of its thread group ("the leader remains as
\* the sole waitable process zombie").
ZombieIsAlone ==
  \A i \in Index : slots[i].phase = "Zombie" =>
                    Members(slots, slots[i].group) = {i}

\* The machine stops only when the scheduler epoch is exhausted.
HaltOnlyWhenExhausted == cpu.pc = "halt" => epoch >= MaxEpoch - 1

\* Each scheduling decision gets an epoch of its own: the running identity
\* and the authorities in the frame change only while the epoch grows, so no
\* earlier authority validates again.
EpochOrdersDecisions ==
  [][/\ epoch' >= epoch
     /\ epoch' = epoch => /\ current' = current
                          /\ cpu'.frame \in {cpu.frame, NoFrame}]_vars

\* A slot gets a new occupant only under a strictly larger generation, and an
\* exhausted generation is never used again (reap_child, commit_child).
GenerationsAdvance ==
  [][\A i \in Index :
       /\ slots'[i].gen >= slots[i].gen
       /\ Occupied(slots, i) /\ Occupied(slots', i)
            /\ slots'[i].pid # slots[i].pid => slots'[i].gen > slots[i].gen
       /\ ~Occupied(slots, i) /\ Occupied(slots', i) /\ cpu.pc # "boot"
            => slots'[i].gen > slots[i].gen]_vars

\* No authority of an earlier decision, and no handle of an earlier occupant
\* of a slot, names a later one: epochs and generations only grow, and grow
\* whenever what they qualify changes.
AuthoritiesAdvance == EpochOrdersDecisions /\ GenerationsAdvance
=============================================================================
