------------------------------- MODULE Images -------------------------------
(***************************************************************************)
(* Who owns an address space: the image slots of the page-table back end   *)
(* (process/x86_64.rs), the measured services of service_registry.rs, and  *)
(* the single deferred reap of runtime.rs, under spawn, clone, exec, exit, *)
(* and the return gate that loads CR3 and frees what was left behind.      *)
(*                                                                         *)
(* A system call ends with a decision; the gate, or one turn of the PID0   *)
(* loop, is a step of its own.  Which live task is chosen is left open     *)
(* (Lifecycle has the scheduler).                                          *)
(***************************************************************************)
EXTENDS Naturals, FiniteSets

CONSTANTS
  Tasks,        \* PID generations
  Pid1,         \* the task that boots
  Classes,      \* service classes
  Pid1Class,
  Linux,        \* the classes with the Linux personality
  NImages,      \* MAXIMUM_RETAINED_PROCESSES
  ImageRoots,   \* frames that can be a page-table root
  Kernel,       \* the kernel's root
  MaxImageGen,  \* u32::MAX for image generations, scaled down
  BootSlot,     \* where the boot loader installed each class
  BootRoot,
  MaySignal,    \* a signal may end a task
  NoImage

Slots == 1 .. NImages
AllClasses == Classes \cup {Pid1Class}

ASSUME ImagesConstants ==
  /\ Pid1 \in Tasks /\ Pid1Class \notin Classes /\ Linux \subseteq AllClasses
  /\ NImages \in Nat /\ MaxImageGen \in Nat \ {0} /\ MaySignal \in BOOLEAN
  /\ Kernel \notin ImageRoots /\ NoImage \notin ImageRoots \cup Tasks \cup AllClasses \cup {Kernel}
  /\ NoImage \notin [slot : Slots, gen : 1 .. MaxImageGen]
  /\ BootSlot \in [AllClasses -> Slots] /\ BootRoot \in [AllClasses -> ImageRoots]
  /\ \A c, d \in AllClasses :
       BootSlot[c] = BootSlot[d] \/ BootRoot[c] = BootRoot[d] => c = d

VARIABLES
  task,     \* phase, leader, class and root of each task
  running,  \* the task that was scheduled last, or NoImage for PID0
  at,       \* "user", "gate", "pid0" or "halted"
  cr3,      \* the active root
  slot,     \* FrameBackedAddressSpace.slots
  pending,  \* ProcessRuntime.pending_reap
  images,   \* ServiceImageRegistry.images
  launches, \* ServiceImageRegistry.launched
  handles   \* ServiceImageRegistry.handles

imageVars == <<task, running, at, cr3, slot, pending, images, launches, handles>>

ImageHandle == [slot : Slots, gen : 1 .. MaxImageGen]
Unborn == [phase |-> "unborn", leader |-> NoImage, class |-> NoImage, root |-> NoImage]
Free(g) == [phase |-> "Free", gen |-> g, root |-> NoImage]

\* process_slot: the handle names an installed image.
Names(sl, h) == sl[h.slot].phase = "Committed" /\ sl[h.slot].gen = h.gen

next_generation(g) == IF g = MaxImageGen THEN 1 ELSE g + 1

Live(t) == task[t].phase = "live"
Group(t) == {u \in Tasks : task[u].leader = task[t].leader /\ Live(u)}
Leads(t) == task[t].leader = t
InUse == {slot[s].root : s \in {s \in Slots : slot[s].phase = "Committed"}}

-----------------------------------------------------------------------------
(* Decisions.                                                              *)

\* The handler returns to the gate for a live task, or loops in PID0.
Decide(tk) ==
  \/ \E u \in Tasks : tk[u].phase = "live" /\ running' = u /\ at' = "gate"
  \/ running' = NoImage /\ at' = "pid0"

\* defer_reap, and the halt of its callers when one is already pending.
Defer(h, tk) ==
  \/ pending = NoImage /\ pending' = h /\ Decide(tk)
  \/ pending # NoImage /\ at' = "halted" /\ UNCHANGED <<pending, running>>

\* release_committed of an image while r is the active root.
release_committed(h, r) ==
  /\ Names(slot, h) /\ slot[h.slot].root # r
  /\ slot' = [slot EXCEPT ![h.slot] = Free(slot[h.slot].gen)]

\* reap_after_root_switch, once r is active.
reap(r, next) ==
  \/ pending = NoImage /\ at' = next /\ UNCHANGED <<slot, pending>>
  \/ pending # NoImage /\ release_committed(pending, r) /\ at' = next /\ pending' = NoImage
  \/ /\ pending # NoImage /\ ~(Names(slot, pending) /\ slot[pending.slot].root # r)
     /\ at' = "halted" /\ UNCHANGED <<slot, pending>>

-----------------------------------------------------------------------------
(* System calls of the running task.                                       *)

\* Every call that leaves the images alone: it returns, yields or blocks.
Reschedule(t) ==
  /\ Decide(task)
  /\ UNCHANGED <<task, cr3, slot, pending, images, launches, handles>>

\* SYS_SPAWN, of the native dispatcher: PID1 launches a class once.
launch(t, c, u) ==
  /\ t = Pid1 /\ Pid1Class \notin Linux
  /\ ~launches[c] /\ images[c] # NoImage
  /\ task[u].phase = "unborn"
  /\ task' = [task EXCEPT ![u] = [phase |-> "live", leader |-> u, class |-> c,
                                  root |-> BootRoot[c]]]
  /\ launches' = [launches EXCEPT ![c] = TRUE]
  /\ handles' = [handles EXCEPT ![c] = u]
  /\ Decide(task')
  /\ UNCHANGED <<cr3, slot, pending, images>>

clone_current_thread(t, u) ==
  /\ task[t].class \in Linux /\ task[u].phase = "unborn"
  /\ task' = [task EXCEPT ![u] = task[t]]
  /\ at' = "gate" /\ running' = t
  /\ UNCHANGED <<cr3, slot, pending, images, launches, handles>>

\* current_replacement_index: a Linux leader without peers.
MayExec(t) == task[t].class \in Linux /\ Leads(t) /\ Group(t) = {t}

\* The slot begin takes: the first free one.
FreeSlots == {s \in Slots : slot[s].phase = "Free"}
First(n) == n \in FreeSlots /\ \A u \in FreeSlots : n <= u

\* The registry lets the task exchange the image of its class.
MayExchange(t) == handles[task[t].class] = t /\ launches[task[t].class]

\* execve that fails once begin took a slot: nothing is left of the image but
\* the generation, whether the install failed, or the registry refused it and
\* discard_exec_image gave it back.
ExecveFails(t, n) ==
  /\ MayExec(t) /\ pending = NoImage /\ First(n)
  /\ slot' = [slot EXCEPT ![n] = Free(next_generation(slot[n].gen))]
  /\ at' = "gate" /\ running' = t
  /\ UNCHANGED <<task, cr3, pending, images, launches, handles>>

\* Mutated form: the old image is released at once.
ExecveReleases(t, r, n) ==
  /\ MayExec(t) /\ pending = NoImage /\ First(n) /\ MayExchange(t)
  /\ r \notin InUse
  /\ LET c == task[t].class
         new == [slot |-> n, gen |-> next_generation(slot[n].gen)]
     IN /\ slot' = [slot EXCEPT ![n] = [phase |-> "Committed", gen |-> new.gen, root |-> r],
                                ![images[c].slot] = Free(images[c].gen)]
        /\ images' = [images EXCEPT ![c] = new]
        /\ task' = [task EXCEPT ![t].root = r]
  /\ at' = "gate" /\ running' = t
  /\ UNCHANGED <<cr3, launches, handles, pending>>

\* execve: the new image is exchanged into the registry and published to the
\* lifecycle, and the old one waits for the gate.
ExecveDone(t, r, n) ==
  /\ MayExec(t) /\ pending = NoImage /\ First(n) /\ MayExchange(t)
  /\ r \notin InUse
  /\ LET c == task[t].class
         new == [slot |-> n, gen |-> next_generation(slot[n].gen)]
     IN /\ slot' = [slot EXCEPT ![n] = [phase |-> "Committed", gen |-> new.gen, root |-> r]]
        /\ images' = [images EXCEPT ![c] = new]
        /\ task' = [task EXCEPT ![t].root = r]
        /\ pending' = images[c]
  /\ at' = "gate" /\ running' = t
  /\ UNCHANGED <<cr3, launches, handles>>

\* take_exited: the image of the service the task was launched as.
take_exited(t) == IF handles[task[t].class] = t THEN images[task[t].class] ELSE NoImage

\* take_exited and defer_reap for the leader t, when the tasks are tk.
Retire(t, tk) ==
  /\ task' = tk
  /\ \/ take_exited(t) = NoImage /\ Decide(tk) /\ UNCHANGED <<pending, images, handles>>
     \/ /\ take_exited(t) # NoImage /\ Defer(take_exited(t), tk)
        /\ images' = [images EXCEPT ![task[t].class] = NoImage]
        /\ handles' = [handles EXCEPT ![task[t].class] = NoImage]
  /\ UNCHANGED <<cr3, slot, launches>>

Ended(T) == [u \in Tasks |-> IF u \in T THEN [task[u] EXCEPT !.phase = "ended"] ELSE task[u]]

\* schedule_exit_return: exit of a thread ends it; exit of a leader is refused
\* while it has peers, but a fatal signal ends it all the same.
ThreadExit(t) ==
  /\ ~Leads(t)
  /\ task' = Ended({t}) /\ Decide(task')
  /\ UNCHANGED <<cr3, slot, pending, images, launches, handles>>

LeaderExit(t) ==
  /\ Leads(t) /\ (Group(t) = {t} \/ MaySignal)
  /\ Retire(t, Ended({t}))

ExitGroup(t) ==
  /\ task[t].class \in Linux
  /\ Retire(task[t].leader, Ended(Group(t)))

-----------------------------------------------------------------------------
(* The way back.                                                           *)

\* arach_syscall_activate: load the root of the task, then reap.
Activate ==
  /\ at = "gate" /\ cr3' = task[running].root
  /\ reap(cr3', "user")
  /\ UNCHANGED <<task, running, images, launches, handles>>

\* One turn of complete_schedule_decision: the kernel's root, the reap, a
\* halt until an interrupt, and the next decision.
PidZero ==
  /\ at = "pid0" /\ cr3' = Kernel
  /\ \/ reap(Kernel, "pid0") /\ UNCHANGED running
     \/ \E u \in Tasks : Live(u) /\ reap(Kernel, "gate") /\ running' = u
  /\ UNCHANGED <<task, images, launches, handles>>

\* The boot loader installed every image, PID1 runs, and the registry owns
\* the services.
ImageInit ==
  /\ task = [t \in Tasks |-> IF t # Pid1 THEN Unborn ELSE
               [phase |-> "live", leader |-> Pid1, class |-> Pid1Class,
                root |-> BootRoot[Pid1Class]]]
  /\ running = Pid1 /\ at = "user" /\ cr3 = BootRoot[Pid1Class]
  /\ slot = [s \in Slots |->
               IF \E c \in AllClasses : BootSlot[c] = s
               THEN [phase |-> "Committed", gen |-> 1,
                     root |-> BootRoot[CHOOSE c \in AllClasses : BootSlot[c] = s]]
               ELSE Free(0)]
  /\ pending = NoImage
  /\ images = [c \in AllClasses |->
                 IF c \in Classes THEN [slot |-> BootSlot[c], gen |-> 1] ELSE NoImage]
  /\ launches = [c \in AllClasses |-> FALSE]
  /\ handles = [c \in AllClasses |-> NoImage]

Syscall(t) ==
  \/ Reschedule(t) \/ ThreadExit(t) \/ LeaderExit(t) \/ ExitGroup(t)
  \/ \E n \in Slots : ExecveFails(t, n) \/ \E r \in ImageRoots : ExecveDone(t, r, n)
  \/ \E u \in Tasks : clone_current_thread(t, u) \/ \E c \in Classes : launch(t, c, u)

ImageNext ==
  \/ \E t \in Tasks : at = "user" /\ t = running /\ Syscall(t)
  \/ Activate \/ PidZero

ImageSpec == ImageInit /\ [][ImageNext]_imageVars

-----------------------------------------------------------------------------
(* Properties.                                                             *)

TaskType == [phase : {"unborn", "live", "ended"}, leader : Tasks \cup {NoImage},
             class : AllClasses \cup {NoImage}, root : ImageRoots \cup {NoImage}]
SlotType == [phase : {"Free", "Committed"}, gen : 0 .. MaxImageGen,
             root : ImageRoots \cup {NoImage}]

\* The variables have their types.
ImageTypeOK ==
  /\ task \in [Tasks -> TaskType]
  /\ running \in Tasks \cup {NoImage} /\ at \in {"user", "gate", "pid0", "halted"}
  /\ cr3 \in ImageRoots \cup {Kernel}
  /\ slot \in [Slots -> SlotType]
  /\ pending \in ImageHandle \cup {NoImage}
  /\ images \in [AllClasses -> ImageHandle \cup {NoImage}]
  /\ launches \in [AllClasses -> BOOLEAN] /\ handles \in [AllClasses -> Tasks \cup {NoImage}]

\* The registry's handle for the task's class, or PID1's boot image.
ImageOf(t) ==
  IF task[t].class = Pid1Class THEN [slot |-> BootSlot[Pid1Class], gen |-> 1]
  ELSE images[task[t].class]

\* Images and owners match.  The active root is the kernel's or that of an
\* installed image; a live task runs on page tables that are installed and
\* that the registry keeps for its class, so nothing frees them under it and
\* no launch uses the root of an image that exec or exit gave back.  Every
\* installed image has one owner, the registry or the pending reap (or is
\* PID1's), and every handle they keep names an installed image.  The
\* one-place pending_reap never overflows and the gate can always reap, so the
\* halts are unreachable, and nothing is pending when a task runs.
ImagesOwned ==
  /\ ImageTypeOK
  /\ cr3 = Kernel \/ cr3 \in InUse
  /\ \A t \in Tasks : Live(t) =>
       /\ ImageOf(t) # NoImage /\ Names(slot, ImageOf(t))
       /\ slot[ImageOf(t).slot].root = task[t].root
  /\ \A c \in AllClasses : images[c] # NoImage => Names(slot, images[c]) /\ images[c] # pending
  /\ \A c, d \in AllClasses : images[c] = images[d] /\ images[c] # NoImage => c = d
  /\ pending # NoImage => Names(slot, pending)
  /\ \A s \in Slots : slot[s].phase = "Committed" =>
       \/ s = BootSlot[Pid1Class]
       \/ pending # NoImage /\ pending.slot = s
       \/ \E c \in Classes : images[c] # NoImage /\ images[c].slot = s
  /\ at # "halted" /\ (at = "user" => pending = NoImage)
=============================================================================
