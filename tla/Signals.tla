------------------------------ MODULE Signals ------------------------------
(***************************************************************************)
(* Signals of one Linux thread group: the dispositions, masks, pending     *)
(* bits and return frames of linux_signal.rs, the signalfd objects of      *)
(* linux_signalfd.rs, and the system calls of syscalls.rs that drive them. *)
(* A system call runs to its return on one processor, so it is one action; *)
(* delivery is part of the return.                                         *)
(*                                                                         *)
(* A thread is an exact TID generation: a dead one never comes back.  The  *)
(* table finds a slot by its owner, so the slots are a function of the     *)
(* owner and their number is bounded.                                      *)
(***************************************************************************)
EXTENDS Naturals, FiniteSets

CONSTANTS
  Tids,           \* exact generations of the group's threads
  Leader,
  Sigs,           \* the signal numbers the programs use
  DefaultIgnored, \* default_ignored
  Programs,       \* the dispositions, masks, signals and signalfds a program uses
  Frames,         \* stack addresses at which a frame may be built
  Fds,            \* signalfd slots
  MaxSlots,       \* MAXIMUM_ENTRIES = MAXIMUM_PROCESSES
  Null

SIGKILL == 9
Default == [handler |-> "default", nodefer |-> FALSE, resethand |-> FALSE, mask |-> {}]
EmptySlot == [blocked |-> {}, pending |-> {}, frame |-> Null]

ActionType == [handler : {"default", "ignore", "handler"}, nodefer : BOOLEAN,
               resethand : BOOLEAN, mask : SUBSET Sigs]
FrameType == [at : Frames, mask : SUBSET Sigs]
SlotType == [blocked : SUBSET Sigs, pending : SUBSET Sigs, frame : FrameType \cup {Null}]
ProgramType == [acts : SUBSET ActionType, masks : SUBSET SUBSET Sigs, sigs : SUBSET Sigs,
                fds : SUBSET Fds]

ASSUME SigConstants ==
  /\ Leader \in Tids /\ Sigs \subseteq Nat /\ MaxSlots \in Nat \ {0}
  /\ \A p \in Programs : p \in ProgramType
  /\ Null \notin FrameType /\ Null \notin SlotType /\ Null \notin [Sigs -> ActionType]

VARIABLES
  program,  \* what runs here
  stage,    \* "new", "live", "zombie" or "dead"; only the leader is a zombie
  actions,  \* the group's dispositions, or Null without a slot
  thread,   \* a thread's slot, or Null; its frame is active_frame with the mask
            \* that the frame on the stack holds
  signalfd, \* the mask and the close-on-exec flag of each signalfd, or Null
  halted,   \* the machine has stopped
  want      \* history: the mask the thread has asked for outside handlers

sigVars == <<program, stage, actions, thread, signalfd, halted, want>>

Live == {t \in Tids : stage[t] = "live"}
SigMembers == {t \in Tids : stage[t] \in {"live", "zombie"}}

SigInit ==
  /\ program \in Programs
  /\ stage = [t \in Tids |-> IF t = Leader THEN "live" ELSE "new"]
  /\ actions = Null /\ thread = [t \in Tids |-> Null]
  /\ signalfd = [f \in Fds |-> Null] /\ halted = FALSE
  /\ want = [t \in Tids |-> {}]

sanitize_mask(m) == m \ {SIGKILL}

Slot(t) == IF thread[t] = Null THEN EmptySlot ELSE thread[t]

\* thread_mut finds the owner's slot or takes a free one.
HasRoom(t) == thread[t] # Null \/ Cardinality({u \in Tids : thread[u] # Null}) < MaxSlots

action(acts, s) == IF acts = Null THEN Default ELSE acts[s]

\* What begin_delivery may take from a slot, and what it throws away.
Candidates(th) == {s \in th.pending : s \notin th.blocked \/ s = SIGKILL}
Ignored(acts, s) ==
  \/ action(acts, s).handler = "ignore"
  \/ action(acts, s).handler = "default" /\ s \in DefaultIgnored

delivery_pending(th) == th # Null /\ th.frame = Null /\ Candidates(th) # {}

-----------------------------------------------------------------------------
clear_thread(ths, t) == [ths EXCEPT ![t] = Null]

\* schedule_exit_return: the caller alone goes, be it the leader or not.
ExitCaller(t, ths, acts, fds) ==
  /\ stage' = [stage EXCEPT ![t] = IF t = Leader THEN "zombie" ELSE "dead"]
  /\ thread' = clear_thread(ths, t)
  /\ IF t = Leader THEN actions' = Null /\ signalfd' = [f \in Fds |-> Null]
                   ELSE actions' = acts /\ signalfd' = fds
  /\ want' = [want EXCEPT ![t] = {}]
  /\ UNCHANGED <<program, halted>>

\* SA_RESETHAND: begin_delivery resets the disposition before the frame is copied.
ResetHand(acts, s) ==
  IF action(acts, s).resethand /\ acts # Null THEN [acts EXCEPT ![s] = Default] ELSE acts

\* The part of begin_delivery that builds the frame for signal s.
RunHandler(t, ths, acts, fds, w, s, skipped) ==
  \E f \in Frames :
    LET th == ths[t]
        a == action(acts, s)
        self == IF a.nodefer THEN {} ELSE {s}
    IN /\ thread' = [ths EXCEPT ![t] =
            [blocked |-> sanitize_mask(th.blocked \cup a.mask \cup self),
             pending |-> th.pending \ (skipped \cup {s}),
             frame |-> [at |-> f, mask |-> th.blocked]]]
       /\ actions' = ResetHand(acts, s)
       /\ want' = w /\ signalfd' = fds
       /\ UNCHANGED <<program, stage, halted>>

\* begin_delivery takes the lowest candidate until one is not ignored.
begin_delivery(t, ths, acts, fds, w) ==
  LET th == ths[t]
      real == {s \in Candidates(th) : ~Ignored(acts, s)}
      First(s) == s \in real /\ \A r \in real : s <= r
      Skipped(s) == {r \in Candidates(th) \ real : r < s}
  IN \/ /\ real = {}
        /\ thread' = [ths EXCEPT ![t] = [th EXCEPT !.pending = @ \ Candidates(th)]]
        /\ actions' = acts /\ want' = w /\ signalfd' = fds
        /\ UNCHANGED <<program, stage, halted>>
     \/ \E s \in Sigs :
          /\ First(s)
          /\ \/ /\ action(acts, s).handler = "default" \/ s = SIGKILL
                /\ ExitCaller(t, ths, acts, fds)
             \/ /\ action(acts, s).handler = "handler" /\ s # SIGKILL
                /\ \/ RunHandler(t, ths, acts, fds, w, s, Skipped(s))
                   \/ ExitCaller(t, ths, ResetHand(acts, s), fds) \* the copy of the frame fails

\* Mutated form: the return does not look at the pending signals.
resume_without_signals(t, ths, acts, fds, w) ==
  /\ thread' = ths
  /\ actions' = acts /\ want' = w /\ signalfd' = fds
  /\ UNCHANGED <<program, stage, halted>>

\* The return of a call that left the thread slots as ths, the dispositions as
\* acts, the signalfds as fds and the history as w.  A group whose leader has
\* been reaped has no handle any more, and the machine stops.
resume_linux_with_pending_signal(t, ths, acts, fds, w) ==
  \/ /\ stage[Leader] = "dead"
     /\ halted' = TRUE
     /\ UNCHANGED <<stage, actions, thread, program, signalfd, want>>
  \/ /\ stage[Leader] # "dead"
     /\ IF ~delivery_pending(ths[t])
        THEN /\ thread' = ths
             /\ actions' = acts /\ want' = w /\ signalfd' = fds
             /\ UNCHANGED <<program, stage, halted>>
        ELSE \/ ExitCaller(t, ths, acts, fds) \* no room for a frame below the stack pointer
             \/ begin_delivery(t, ths, acts, fds, w)

-----------------------------------------------------------------------------
set_action(s, a) ==
  [x \in Sigs |-> IF x = s /\ s # SIGKILL THEN [a EXCEPT !.mask = sanitize_mask(@)]
                  ELSE action(actions, x)]

\* A refused SIGKILL makes no slot; the call returns in the same way.
Sigaction(t, s, a) ==
  resume_linux_with_pending_signal(t, thread,
    IF s = SIGKILL THEN actions ELSE set_action(s, a), signalfd, want)

update_mask(old, op, m) ==
  CASE op = "block" -> old \cup sanitize_mask(m)
    [] op = "unblock" -> old \ sanitize_mask(m)
    [] op = "set" -> sanitize_mask(m)

Sigprocmask(t, op, m) ==
  LET th == [Slot(t) EXCEPT !.blocked = update_mask(@, op, m)]
  IN /\ HasRoom(t)
     /\ resume_linux_with_pending_signal(t, [thread EXCEPT ![t] = th], actions, signalfd,
          IF th.frame = Null THEN [want EXCEPT ![t] = th.blocked] ELSE want)

\* kill and tgkill reach the calling thread only.
Kill(t, s) ==
  /\ HasRoom(t)
  /\ resume_linux_with_pending_signal(t,
       [thread EXCEPT ![t] = [Slot(t) EXCEPT !.pending = @ \cup {s}]], actions, signalfd, want)

\* rt_sigreturn with the frame at f; the program may have edited its mask.
Sigreturn(t, f, edited, m) ==
  IF Slot(t).frame = Null \/ Slot(t).frame.at # f
  THEN ExitCaller(t, thread, actions, signalfd)
  ELSE LET mask == IF edited THEN m ELSE thread[t].frame.mask
       IN \/ ExitCaller(t, thread, actions, signalfd) \* unreadable frame or invalid context
          \/ resume_linux_with_pending_signal(t,
               [thread EXCEPT ![t].blocked = sanitize_mask(mask), ![t].frame = Null],
               actions, signalfd,
               IF edited THEN [want EXCEPT ![t] = sanitize_mask(m)] ELSE want)

\* Mutated form: the child starts without a mask.
inherit_mask_nothing(t) == EmptySlot

\* inherit_mask: what the slot of a child of t starts as.
inherit_mask(t) == [EmptySlot EXCEPT !.blocked = Slot(t).blocked]

\* clone; the call does not go through the delivery.  A child whose
\* publication fails is taken back.
SigClone(t, c) ==
  /\ stage[c] = "new" /\ Cardinality(SigMembers) < MaxSlots
  /\ \/ /\ HasRoom(c)
        /\ stage' = [stage EXCEPT ![c] = "live"]
        /\ thread' = [thread EXCEPT ![c] = inherit_mask(t)]
        /\ want' = [want EXCEPT ![c] = Slot(t).blocked]
        /\ UNCHANGED <<actions, signalfd, program, halted>>
     \/ /\ stage' = [stage EXCEPT ![c] = "dead"]
        /\ UNCHANGED <<actions, thread, signalfd, program, halted, want>>

\* exit; a leader with other members is refused.
Exit(t) ==
  /\ t # Leader \/ SigMembers = {t}
  /\ ExitCaller(t, thread, actions, signalfd)

\* exit_group; without a leader the machine stops.
SigExitGroup(t) ==
  IF stage[Leader] = "dead"
  THEN halted' = TRUE /\ UNCHANGED <<stage, actions, thread, program, signalfd, want>>
  ELSE /\ stage' = [u \in Tids |-> IF u = Leader THEN "zombie"
                                   ELSE IF u \in SigMembers THEN "dead" ELSE stage[u]]
       /\ thread' = [u \in Tids |-> IF u \in SigMembers THEN Null ELSE thread[u]]
       /\ actions' = Null /\ signalfd' = [f \in Fds |-> Null]
       /\ want' = [u \in Tids |-> {}]
       /\ UNCHANGED <<program, halted>>

reset_for_exec(th) ==
  IF th = Null THEN Null ELSE [th EXCEPT !.pending = {}, !.frame = Null]

\* A successful execve of a group of one.
SigExecve(t) ==
  /\ t = Leader /\ SigMembers = {t}
  /\ actions' = IF actions = Null THEN Null
                ELSE [s \in Sigs |-> IF actions[s].handler = "ignore" THEN actions[s] ELSE Default]
  /\ thread' = [thread EXCEPT ![t] = reset_for_exec(@)]
  /\ signalfd' = [f \in Fds |-> IF signalfd[f] # Null /\ signalfd[f].cloexec THEN Null
                                ELSE signalfd[f]]
  /\ want' = [want EXCEPT ![t] = Slot(t).blocked]
  /\ UNCHANGED <<program, stage, halted>>

\* signalfd and signalfd4 with -1: the leader owns the object.
SignalfdCreate(t, f, m, c) ==
  /\ signalfd[f] = Null
  /\ resume_linux_with_pending_signal(t, thread, actions,
       [signalfd EXCEPT ![f] = [mask |-> m, cloexec |-> c]], want)

SignalfdUpdate(t, f, m) ==
  /\ signalfd[f] # Null
  /\ resume_linux_with_pending_signal(t, thread, actions,
       [signalfd EXCEPT ![f].mask = m], want)

SignalfdClose(t, f) ==
  /\ signalfd[f] # Null
  /\ resume_linux_with_pending_signal(t, thread, actions, [signalfd EXCEPT ![f] = Null], want)

\* A read takes the lowest selected signal of the leader's slot, whoever reads.
dequeue_for_signalfd(th, s) == [th EXCEPT !.pending = @ \ {s}]

SignalfdRead(t, f, s) ==
  /\ signalfd[f] # Null /\ thread[Leader] # Null
  /\ LET selected == thread[Leader].pending \cap signalfd[f].mask
     IN s \in selected /\ \A r \in selected : s <= r
  /\ resume_linux_with_pending_signal(t,
       [thread EXCEPT ![Leader] = dequeue_for_signalfd(@, s)], actions, signalfd, want)

\* The parent waits for the leader.
Reap ==
  /\ stage[Leader] = "zombie"
  /\ stage' = [stage EXCEPT ![Leader] = "dead"]
  /\ UNCHANGED <<actions, thread, signalfd, program, halted, want>>

-----------------------------------------------------------------------------
Call(t) ==
  \/ \E s \in program.sigs, a \in program.acts : Sigaction(t, s, a)
  \/ \E op \in {"block", "unblock", "set"}, m \in program.masks : Sigprocmask(t, op, m)
  \/ \E s \in program.sigs : Kill(t, s)
  \/ \E f \in Frames, m \in program.masks, e \in BOOLEAN : Sigreturn(t, f, e, m)
  \/ \E c \in Tids : SigClone(t, c)
  \/ Exit(t) \/ SigExitGroup(t) \/ SigExecve(t)
  \/ \E f \in program.fds :
       \/ \E m \in program.masks : SignalfdUpdate(t, f, m) \/ \E c \in BOOLEAN : SignalfdCreate(t, f, m, c)
       \/ SignalfdClose(t, f)
       \/ \E s \in Sigs : SignalfdRead(t, f, s)

SigNext == ~halted /\ (Reap \/ \E t \in Live : Call(t))

SigSpec == SigInit /\ [][SigNext]_sigVars

-----------------------------------------------------------------------------
\* The types of the signal tables.
SigTypeOK ==
  /\ stage \in [Tids -> {"new", "live", "zombie", "dead"}]
  /\ actions \in [Sigs -> ActionType] \cup {Null}
  /\ thread \in [Tids -> SlotType \cup {Null}]
  /\ signalfd \in [Fds -> [mask : SUBSET Sigs, cloexec : BOOLEAN] \cup {Null}]
  /\ halted \in BOOLEAN
  /\ program \in Programs /\ want \in [Tids -> SUBSET Sigs]

\* A slot of the thread table belongs to a thread that is alive (clear_thread on
\* every way out), so the table never fills and no later thread inherits a
\* mask or a pending bit.
SlotsAreLive == \A t \in Tids : thread[t] # Null => stage[t] = "live"

\* Whenever a thread is back in its program, it has no unblocked pending signal
\* unless it is inside a handler: every call that can raise or unblock a signal
\* delivers before it returns.
DeliveredAtReturn ==
  \A t \in Live : thread[t] # Null /\ thread[t].frame = Null => Candidates(thread[t]) = {}

\* Outside handlers a thread's mask is the one it asked for: what a delivery
\* adds, and what a handler changes, is undone by rt_sigreturn.
MaskRestored ==
  \A t \in Live :
    /\ thread[t] = Null => want[t] = {}
    /\ thread[t] # Null /\ thread[t].frame = Null => thread[t].blocked = want[t]
    /\ thread[t] # Null /\ thread[t].frame # Null => thread[t].frame.mask = want[t]

\* SIGKILL is never masked or given a handler, by any of the four ways a mask
\* is computed.
Uncatchable ==
  /\ \A t \in Tids : thread[t] # Null => SIGKILL \notin thread[t].blocked
  /\ actions # Null /\ SIGKILL \in Sigs => actions[SIGKILL] = Default

\* The thread table is exact: slots of live threads only, each with the mask
\* its thread asked for, and SIGKILL in none of them.
MasksExact == SigTypeOK /\ SlotsAreLive /\ MaskRestored /\ Uncatchable
=============================================================================
