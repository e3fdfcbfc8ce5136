---------------------------- MODULE MemoryProofs ----------------------------
(***************************************************************************)
(* Every installed image has one owner and no page table is freed under a  *)
(* task that runs on it, for any tasks, classes, slots and roots, as long  *)
(* as no fatal signal ends a leader that has peers.                        *)
(***************************************************************************)
EXTENDS Images, TLAPS

-----------------------------------------------------------------------------
(* The inductive invariant.                                                *)

\* A task that was born has a leader of its own class, who led it from the start.
Led ==
  \A t \in Tasks : task[t].phase # "unborn" =>
    /\ task[t].class \in AllClasses /\ task[t].leader \in Tasks
    /\ task[task[t].leader].phase # "unborn"
    /\ task[task[t].leader].leader = task[t].leader
    /\ task[task[t].leader].class = task[t].class

\* The live tasks of a service are the group that was launched as the service;
\* PID1 is not a service.
Registered ==
  /\ \A t \in Tasks : Live(t) /\ task[t].class # Pid1Class =>
       launches[task[t].class] /\ handles[task[t].class] = task[t].leader
  /\ images[Pid1Class] = NoImage /\ handles[Pid1Class] = NoImage
  /\ \A c \in AllClasses : handles[c] # NoImage =>
       task[handles[c]].phase # "unborn" /\ task[handles[c]].class = c

\* Until it is launched a service is as the boot loader left it, and PID1's
\* image always is.
AsBooted ==
  /\ \A c \in Classes : ~launches[c] /\ images[c] # NoImage =>
       slot[images[c].slot].root = BootRoot[c]
  /\ slot[BootSlot[Pid1Class]] = [phase |-> "Committed", gen |-> 1, root |-> BootRoot[Pid1Class]]

\* No two installed images share a root, and none is at PID1's slot but its own.
Apart ==
  /\ \A s \in Slots : slot[s].phase = "Committed" => slot[s].root \in ImageRoots
  /\ \A s, u \in Slots :
       slot[s].phase = "Committed" /\ slot[u].phase = "Committed" /\ slot[s].root = slot[u].root => s = u
  /\ \A c \in AllClasses : images[c] # NoImage => images[c].slot # BootSlot[Pid1Class]
  /\ pending # NoImage => pending.slot # BootSlot[Pid1Class]

\* The task that runs or is about to run is live.
Scheduled == at \in {"user", "gate"} => running \in Tasks /\ Live(running)

\* The parts of ImagesOwned.
ActiveRoot == cr3 = Kernel \/ cr3 \in InUse
Running ==
  \A t \in Tasks : Live(t) =>
    /\ ImageOf(t) # NoImage /\ Names(slot, ImageOf(t))
    /\ slot[ImageOf(t).slot].root = task[t].root
Kept ==
  /\ \A c \in AllClasses : images[c] # NoImage => Names(slot, images[c]) /\ images[c] # pending
  /\ \A c, d \in AllClasses : images[c] = images[d] /\ images[c] # NoImage => c = d
  /\ pending # NoImage => Names(slot, pending)
Owned ==
  \A s \in Slots : slot[s].phase = "Committed" =>
    \/ s = BootSlot[Pid1Class]
    \/ pending # NoImage /\ pending.slot = s
    \/ \E c \in Classes : images[c] # NoImage /\ images[c].slot = s
NoHalt == at # "halted" /\ (at = "user" => pending = NoImage)

ImageInv ==
  /\ ImageTypeOK /\ ActiveRoot /\ Running /\ Kept /\ Owned /\ NoHalt
  /\ Led /\ Registered /\ AsBooted /\ Apart /\ Scheduled

-----------------------------------------------------------------------------
(* What the parts say of one state.                                        *)

\* The slots of the registry and of the pending reap are all different.
LEMMA SlotsApart ==
  ASSUME ImageTypeOK, Kept
  PROVE  /\ \A c, d \in AllClasses :
              images[c] # NoImage /\ images[d] # NoImage /\ images[c].slot = images[d].slot => c = d
         /\ \A c \in AllClasses :
              images[c] # NoImage /\ pending # NoImage => images[c].slot # pending.slot
<1>1. /\ \A c \in AllClasses : images[c] # NoImage => images[c] \in ImageHandle
      /\ pending # NoImage => pending \in ImageHandle
  BY Zenon DEF ImageTypeOK
<1>2. \A h, g \in ImageHandle : h.slot = g.slot /\ h.gen = g.gen => h = g
  BY DEF ImageHandle
<1> QED BY <1>1, <1>2 DEF Kept, Names

\* A decision leads to the gate of a live task, or to PID0.
LEMMA DecideScheduled ==
  ASSUME NEW tk, Decide(tk)
  PROVE  /\ running' \in Tasks \cup {NoImage} /\ at' \in {"gate", "pid0"}
         /\ at' = "gate" => running' \in Tasks /\ tk[running'].phase = "live"
BY Zenon DEF Decide

-----------------------------------------------------------------------------
(* The calls that leave the slots and the registry's images alone.         *)

\* With slots, images, pending reap and CR3 as they were, so are the ownership parts.
LEMMA SameImagesKeep ==
  ASSUME ImageInv, UNCHANGED <<cr3, slot, pending, images>>
  PROVE  ActiveRoot' /\ Kept' /\ Owned' /\ Apart'
<1>1. ActiveRoot'
  BY Zenon DEF ImageInv, ActiveRoot, InUse
<1>2. Kept'
  BY Zenon DEF ImageInv, Kept, Names
<1>3. Owned'
  BY Zenon DEF ImageInv, Owned
<1>4. Apart'
  BY Zenon DEF ImageInv, Apart
<1> QED BY <1>1, <1>2, <1>3, <1>4, Zenon

\* A system call that ends in a scheduling decision.
LEMMA RescheduleKeeps ==
  ASSUME ImageInv, NEW t \in Tasks, Reschedule(t)
  PROVE  ImageInv'
<1>1. Decide(task) /\ UNCHANGED <<task, cr3, slot, pending, images, launches, handles>>
  BY Zenon DEF Reschedule
<1>2. /\ running' \in Tasks \cup {NoImage} /\ at' \in {"gate", "pid0"}
      /\ at' = "gate" => running' \in Tasks /\ task[running'].phase = "live"
  BY <1>1, DecideScheduled, Zenon
<1>3. ActiveRoot' /\ Kept' /\ Owned' /\ Apart'
  BY <1>1, SameImagesKeep, Zenon
<1>4. ImageTypeOK'
  BY <1>1, <1>2, Zenon DEF ImageInv, ImageTypeOK
<1>5. Running'
  BY <1>1, Zenon DEF ImageInv, Running, Live, ImageOf, Names
<1>6. Led' /\ AsBooted'
  BY <1>1, Zenon DEF ImageInv, Led, AsBooted
<1>7. Registered'
  BY <1>1, Zenon DEF ImageInv, Registered, Live
<1>8. Scheduled' /\ NoHalt'
  BY <1>1, <1>2, Zenon DEF Scheduled, NoHalt, Live
<1> QED BY <1>3, <1>4, <1>5, <1>6, <1>7, <1>8, Zenon DEF ImageInv

\* launch_prepared_service: the new task runs on the image the loader installed.
LEMMA LaunchKeeps ==
  ASSUME ImageInv, NEW t \in Tasks, NEW u \in Tasks, NEW c \in Classes, launch(t, c, u)
  PROVE  ImageInv'
<1> DEFINE born == [phase |-> "live", leader |-> u, class |-> c, root |-> BootRoot[c]]
<1>1. /\ ~launches[c] /\ images[c] # NoImage /\ task[u].phase = "unborn"
      /\ task' = [task EXCEPT ![u] = born]
      /\ launches' = [launches EXCEPT ![c] = TRUE] /\ handles' = [handles EXCEPT ![c] = u]
      /\ Decide(task') /\ UNCHANGED <<cr3, slot, pending, images>>
  BY Zenon DEF launch
<1>2. /\ running' \in Tasks \cup {NoImage} /\ at' \in {"gate", "pid0"}
      /\ at' = "gate" => running' \in Tasks /\ task'[running'].phase = "live"
  BY <1>1, DecideScheduled, Zenon
<1>3. ActiveRoot' /\ Kept' /\ Owned' /\ Apart'
  BY <1>1, SameImagesKeep, Zenon
<1>c. c \in AllClasses /\ c # Pid1Class
  BY ImagesConstants, Zenon DEF AllClasses
<1>t. ImageTypeOK
  BY Zenon DEF ImageInv
<1>p. task'[u] = born /\ \A v \in Tasks : v # u => task'[v] = task[v]
  BY <1>1, <1>t, Zenon DEF ImageTypeOK
<1>q. launches'[c] /\ handles'[c] = u
      /\ \A d \in AllClasses : d # c => launches'[d] = launches[d] /\ handles'[d] = handles[d]
  BY <1>1, <1>t, <1>c, Zenon DEF ImageTypeOK
<1>4. ImageTypeOK'
  <2>1. born \in TaskType
    BY <1>c, ImagesConstants, Zenon DEF TaskType
  <2> HIDE DEF born
  <2> QED BY <1>1, <1>2, <1>t, <1>c, <2>1, Zenon DEF ImageTypeOK
<1>5. Running'
  <2>1. ASSUME NEW v \in Tasks, v # u, task'[v].phase = "live"
        PROVE  /\ ImageOf(v)' # NoImage /\ Names(slot', ImageOf(v)')
               /\ slot'[ImageOf(v)'.slot].root = task'[v].root
    BY <1>1, <1>p, <2>1 DEF ImageInv, Running, Live, ImageOf, Names
  <2>2. /\ ImageOf(u)' # NoImage /\ Names(slot', ImageOf(u)')
        /\ slot'[ImageOf(u)'.slot].root = task'[u].root
    BY <1>1, <1>p, <1>c DEF ImageInv, Kept, AsBooted, ImageOf, Names
  <2> QED BY <2>1, <2>2, ZenonT(40) DEF Running, Live
<1>6. Led'
  BY <1>1, <1>c, <1>p DEF ImageInv, Led
<1>7. AsBooted'
  BY <1>1, <1>q, <1>c, Zenon DEF ImageInv, AsBooted, AllClasses
<1>8. Registered'
  <2>1. \A v \in Tasks : task'[v].phase = "live" /\ task'[v].class # Pid1Class =>
          launches'[task'[v].class] /\ handles'[task'[v].class] = task'[v].leader
    BY <1>1, <1>p, <1>q DEF ImageInv, Registered, Live, Led
  <2>2. images'[Pid1Class] = NoImage /\ handles'[Pid1Class] = NoImage
    BY <1>1, <1>q, <1>c, Zenon DEF ImageInv, Registered, AllClasses
  <2>3. \A d \in AllClasses : handles'[d] # NoImage =>
          task'[handles'[d]].phase # "unborn" /\ task'[handles'[d]].class = d
    <3>1. \A d \in AllClasses : handles[d] # NoImage => handles[d] \in Tasks
      BY <1>t, Zenon DEF ImageTypeOK
    <3>2. \A d \in AllClasses : handles[d] # NoImage =>
            task[handles[d]].phase # "unborn" /\ task[handles[d]].class = d
      BY Zenon DEF ImageInv, Registered
    <3> QED BY <1>1, <1>p, <1>q, <3>1, <3>2
  <2> QED BY <2>1, <2>2, <2>3, Zenon DEF Registered, Live
<1>9. Scheduled' /\ NoHalt'
  BY <1>1, <1>2, Zenon DEF Scheduled, NoHalt, Live
<1> QED BY <1>3, <1>4, <1>5, <1>6, <1>7, <1>8, <1>9, Zenon DEF ImageInv

\* clone_current_thread: a peer shares the class and the image of its creator.
LEMMA CloneKeeps ==
  ASSUME ImageInv, NEW t \in Tasks, Live(t), NEW u \in Tasks, clone_current_thread(t, u)
  PROVE  ImageInv'
<1>1. /\ task[u].phase = "unborn" /\ task' = [task EXCEPT ![u] = task[t]]
      /\ at' = "gate" /\ running' = t
      /\ UNCHANGED <<cr3, slot, pending, images, launches, handles>>
  BY Zenon DEF clone_current_thread
<1>2. ActiveRoot' /\ Kept' /\ Owned' /\ Apart'
  BY <1>1, SameImagesKeep, Zenon
<1>t. ImageTypeOK
  BY Zenon DEF ImageInv
<1>p. task'[u] = task[t] /\ \A v \in Tasks : v # u => task'[v] = task[v]
  BY <1>1, <1>t, Zenon DEF ImageTypeOK
<1>3. ImageTypeOK'
  BY <1>1, <1>t, Zenon DEF ImageTypeOK
<1>4. Running'
  <2> SUFFICES ASSUME NEW v \in Tasks, task'[v].phase = "live"
               PROVE  /\ ImageOf(v)' # NoImage /\ Names(slot', ImageOf(v)')
                      /\ slot'[ImageOf(v)'.slot].root = task'[v].root
    BY Zenon DEF Running, Live
  <2>1. PICK w \in Tasks : task'[v] = task[w] /\ Live(w)
    BY <1>p, Zenon DEF Live
  <2>2. ImageOf(v)' = ImageOf(w)
    BY <1>1, <2>1 DEF ImageOf
  <2> QED BY <1>1, <2>1, <2>2 DEF ImageInv, Running, Names
<1>5. Led'
  <2> SUFFICES ASSUME NEW v \in Tasks, task'[v].phase # "unborn"
               PROVE  /\ task'[v].class \in AllClasses /\ task'[v].leader \in Tasks
                      /\ task'[task'[v].leader].phase # "unborn"
                      /\ task'[task'[v].leader].leader = task'[v].leader
                      /\ task'[task'[v].leader].class = task'[v].class
    BY Zenon DEF Led
  <2>1. PICK w \in Tasks : task'[v] = task[w] /\ task[w].phase # "unborn"
    BY <1>p, Zenon DEF Live
  <2>2. task[w].leader \in Tasks /\ task[task[w].leader].phase # "unborn"
    BY <2>1, Zenon DEF ImageInv, Led
  <2>3. task'[task[w].leader] = task[task[w].leader]
    BY <1>1, <1>p, <2>2, Zenon
  <2> QED BY <2>1, <2>2, <2>3 DEF ImageInv, Led
<1>6. AsBooted'
  BY <1>1, Zenon DEF ImageInv, AsBooted
<1>7. Registered'
  <2>1. \A v \in Tasks : task'[v].phase = "live" /\ task'[v].class # Pid1Class =>
          launches'[task'[v].class] /\ handles'[task'[v].class] = task'[v].leader
    BY <1>1, <1>p DEF ImageInv, Registered, Live
  <2>2. \A d \in AllClasses : handles'[d] # NoImage =>
          task'[handles'[d]].phase # "unborn" /\ task'[handles'[d]].class = d
    BY <1>1, <1>p, <1>t DEF ImageInv, Registered, ImageTypeOK
  <2> QED BY <1>1, <2>1, <2>2, Zenon DEF ImageInv, Registered, Live
<1>8. Scheduled' /\ NoHalt'
  BY <1>1, <1>p, Zenon DEF Scheduled, NoHalt, Live
<1> QED BY <1>2, <1>3, <1>4, <1>5, <1>6, <1>7, <1>8, Zenon DEF ImageInv

\* Tasks that end take nothing but their life from the tables of tasks.
LEMMA EndedTasks ==
  ASSUME ImageInv, NEW T \in SUBSET Tasks, task' = Ended(T)
  PROVE  /\ task' \in [Tasks -> TaskType]
         /\ \A v \in Tasks : /\ task'[v].leader = task[v].leader /\ task'[v].class = task[v].class
                             /\ task'[v].root = task[v].root
                             /\ task'[v].phase = IF v \in T THEN "ended" ELSE task[v].phase
<1>1. task \in [Tasks -> TaskType]
  BY Zenon DEF ImageInv, ImageTypeOK
<1>2. \A v \in Tasks : task'[v] = IF v \in T THEN [task[v] EXCEPT !.phase = "ended"] ELSE task[v]
  BY Zenon DEF Ended
<1>3. \A v \in Tasks : /\ task'[v] \in TaskType
                       /\ task'[v].leader = task[v].leader /\ task'[v].class = task[v].class
                       /\ task'[v].root = task[v].root
                       /\ task'[v].phase = IF v \in T THEN "ended" ELSE task[v].phase
  BY <1>1, <1>2, ZenonT(40) DEF TaskType
<1> QED BY <1>3, Zenon DEF Ended

\* The exit of a thread that is not the leader leaves the image to the others.
LEMMA ThreadExitKeeps ==
  ASSUME ImageInv, NEW t \in Tasks, Live(t), ThreadExit(t)
  PROVE  ImageInv'
<1>1. /\ task' = Ended({t}) /\ Decide(task')
      /\ UNCHANGED <<cr3, slot, pending, images, launches, handles>>
  BY Zenon DEF ThreadExit
<1>2. /\ running' \in Tasks \cup {NoImage} /\ at' \in {"gate", "pid0"}
      /\ at' = "gate" => running' \in Tasks /\ task'[running'].phase = "live"
  BY <1>1, DecideScheduled, Zenon
<1>3. ActiveRoot' /\ Kept' /\ Owned' /\ Apart'
  BY <1>1, SameImagesKeep, Zenon
<1>4. /\ task' \in [Tasks -> TaskType]
      /\ \A v \in Tasks : /\ task'[v].leader = task[v].leader /\ task'[v].class = task[v].class
                          /\ task'[v].root = task[v].root
                          /\ task'[v].phase = IF v \in {t} THEN "ended" ELSE task[v].phase
  BY <1>1, EndedTasks, ZenonT(40)
<1>5. ImageTypeOK'
  BY <1>1, <1>2, <1>4, Zenon DEF ImageInv, ImageTypeOK
<1>6. Running'
  <2> SUFFICES ASSUME NEW v \in Tasks, task'[v].phase = "live"
               PROVE  /\ ImageOf(v)' # NoImage /\ Names(slot', ImageOf(v)')
                      /\ slot'[ImageOf(v)'.slot].root = task'[v].root
    BY Zenon DEF Running, Live
  <2>1. task[v].phase = "live" /\ task'[v].root = task[v].root /\ task'[v].class = task[v].class
    BY <1>4, Zenon
  <2>2. ImageOf(v)' = ImageOf(v)
    BY <1>1, <2>1, Zenon DEF ImageOf
  <2> QED BY <1>1, <2>1, <2>2, Zenon DEF ImageInv, Running, Names, Live
<1>7. Led'
  BY <1>4 DEF ImageInv, Led, Live
<1>8. AsBooted'
  BY <1>1, Zenon DEF ImageInv, AsBooted
<1>9. Registered'
  <2>1. \A v \in Tasks : task'[v].phase = "live" /\ task'[v].class # Pid1Class =>
          launches'[task'[v].class] /\ handles'[task'[v].class] = task'[v].leader
    <3> SUFFICES ASSUME NEW v \in Tasks, task'[v].phase = "live", task'[v].class # Pid1Class
                 PROVE  launches'[task'[v].class] /\ handles'[task'[v].class] = task'[v].leader
      BY Zenon
    <3>1. task[v].phase = "live" /\ task[v].class = task'[v].class /\ task[v].leader = task'[v].leader
      BY <1>4, Zenon
    <3> QED BY <1>1, <3>1, Zenon DEF ImageInv, Registered, Live
  <2>2. \A d \in AllClasses : handles[d] # NoImage => handles[d] \in Tasks
    BY Zenon DEF ImageInv, ImageTypeOK
  <2>3. \A d \in AllClasses : handles'[d] # NoImage =>
          task'[handles'[d]].phase # "unborn" /\ task'[handles'[d]].class = d
    <3>1. \A d \in AllClasses : handles[d] # NoImage =>
            task[handles[d]].phase # "unborn" /\ task[handles[d]].class = d
      BY Zenon DEF ImageInv, Registered
    <3>2. \A v \in Tasks : task[v].phase # "unborn" => task'[v].phase # "unborn" /\ task'[v].class = task[v].class
      BY <1>4, Zenon
    <3> QED BY <1>1, <2>2, <3>1, <3>2, Zenon
  <2>4. images[Pid1Class] = NoImage /\ handles[Pid1Class] = NoImage
    BY Zenon DEF ImageInv, Registered
  <2> QED BY <1>1, <2>1, <2>3, <2>4, Zenon DEF Registered, Live
<1>10. Scheduled' /\ NoHalt'
  BY <1>1, <1>2, Zenon DEF Scheduled, NoHalt, Live
<1> QED BY <1>3, <1>5, <1>6, <1>7, <1>8, <1>9, <1>10, Zenon DEF ImageInv

-----------------------------------------------------------------------------
(* The end of a group: its image goes from the registry to the reap.       *)

\* take_exited and defer_reap: the image leaves the registry for the pending reap.
LEMMA RetireKeeps ==
  ASSUME ImageInv, at = "user", NEW l \in Tasks, NEW T \in SUBSET Tasks,
         task[l].phase # "unborn", task[l].leader = l,
         \A v \in Tasks : Live(v) /\ task[v].leader = l => v \in T, \A v \in T : Live(v),
         Retire(l, Ended(T))
  PROVE  ImageInv'
<1> DEFINE c == task[l].class
<1>1. task' = Ended(T) /\ UNCHANGED <<cr3, slot, launches>>
  BY Zenon DEF Retire
<1>2. /\ task' \in [Tasks -> TaskType]
      /\ \A v \in Tasks : /\ task'[v].leader = task[v].leader /\ task'[v].class = task[v].class
                          /\ task'[v].root = task[v].root
                          /\ task'[v].phase = IF v \in T THEN "ended" ELSE task[v].phase
  BY <1>1, EndedTasks, Zenon
<1>t. ImageTypeOK /\ pending = NoImage /\ c \in AllClasses
  BY Zenon DEF ImageInv, NoHalt, Led
<1>3. ASSUME take_exited(l) = NoImage, Decide(task'), UNCHANGED <<pending, images, handles>>
      PROVE  ImageInv'
  <2>1. /\ running' \in Tasks \cup {NoImage} /\ at' \in {"gate", "pid0"}
        /\ at' = "gate" => running' \in Tasks /\ task'[running'].phase = "live"
    BY <1>3, DecideScheduled, Zenon
  <2>2. ActiveRoot' /\ Kept' /\ Owned' /\ Apart'
    BY <1>1, <1>3, SameImagesKeep, Zenon
  <2>3. ImageTypeOK'
    BY <1>1, <1>2, <1>3, <2>1, Zenon DEF ImageInv, ImageTypeOK
  <2>4. Running'
    <3> SUFFICES ASSUME NEW v \in Tasks, task'[v].phase = "live"
                 PROVE  /\ ImageOf(v)' # NoImage /\ Names(slot', ImageOf(v)')
                        /\ slot'[ImageOf(v)'.slot].root = task'[v].root
      BY Zenon DEF Running, Live
    <3>1. task[v].phase = "live" /\ task'[v].root = task[v].root /\ task'[v].class = task[v].class
      BY <1>2, Zenon
    <3>2. ImageOf(v)' = ImageOf(v)
      BY <1>3, <3>1, Zenon DEF ImageOf
    <3> QED BY <1>1, <3>1, <3>2 DEF ImageInv, Running, Names, Live
  <2>5. Led'
    BY <1>2 DEF ImageInv, Led, Live
  <2>6. AsBooted'
    BY <1>1, <1>3, Zenon DEF ImageInv, AsBooted
  <2>7. Registered'
    BY <1>1, <1>2, <1>3 DEF ImageInv, Registered, Live, ImageTypeOK
  <2>8. Scheduled' /\ NoHalt'
    BY <2>1, Zenon DEF Scheduled, NoHalt, Live
  <2> QED BY <2>2, <2>3, <2>4, <2>5, <2>6, <2>7, <2>8, Zenon DEF ImageInv
<1>4. ASSUME take_exited(l) # NoImage, Defer(take_exited(l), task'),
             images' = [images EXCEPT ![c] = NoImage], handles' = [handles EXCEPT ![c] = NoImage]
      PROVE  ImageInv'
  <2>1. handles[c] = l /\ images[c] # NoImage /\ take_exited(l) = images[c]
    BY <1>4, Zenon DEF take_exited
  <2>2. c # Pid1Class /\ images[c] \in ImageHandle
    BY <2>1, <1>t DEF ImageInv, Registered, ImageTypeOK
  <2>3. pending' = images[c] /\ Decide(task')
    BY <1>4, <1>t, <2>1, Zenon DEF Defer
  <2>4. /\ running' \in Tasks \cup {NoImage} /\ at' \in {"gate", "pid0"}
        /\ at' = "gate" => running' \in Tasks /\ task'[running'].phase = "live"
    BY <2>3, DecideScheduled, Zenon
  <2>5. /\ images'[c] = NoImage /\ handles'[c] = NoImage
        /\ \A d \in AllClasses : d # c => images'[d] = images[d] /\ handles'[d] = handles[d]
    BY <1>4, <1>t, Zenon DEF ImageTypeOK
  <2>6. \A v \in Tasks : task'[v].phase = "live" => task[v].phase = "live" /\ task[v].class # c
    BY <1>2, <2>1, <2>2 DEF ImageInv, Registered, Live
  <2> HIDE DEF c
  <2>7. ImageTypeOK'
    BY <1>1, <1>2, <1>4, <1>t, <2>2, <2>3, <2>4, Zenon DEF ImageTypeOK
  <2>8. ActiveRoot'
    BY <1>1, Zenon DEF ImageInv, ActiveRoot, InUse
  <2>9. Running'
    <3> SUFFICES ASSUME NEW v \in Tasks, task'[v].phase = "live"
                 PROVE  /\ ImageOf(v)' # NoImage /\ Names(slot', ImageOf(v)')
                        /\ slot'[ImageOf(v)'.slot].root = task'[v].root
      BY DEF Running, Live
    <3>1. Live(v) /\ task[v].class # c /\ task[v].class \in AllClasses
      BY <2>6, Zenon DEF Live, ImageInv, Led
    <3>2. ImageOf(v)' = ImageOf(v)
      BY <1>2, <2>5, <3>1 DEF ImageOf
    <3> QED BY <1>1, <1>2, <3>1, <3>2 DEF ImageInv, Running, Names
  <2>10. Kept'
    BY <1>1, <1>t, <2>1, <2>3, <2>5 DEF ImageInv, Kept, Names
  <2>11. Owned'
    BY <1>1, <1>t, <2>1, <2>2, <2>3, <2>5 DEF ImageInv, Owned, AllClasses
  <2>12. Apart'
    BY <1>1, <1>t, <2>1, <2>3, <2>5, Zenon DEF ImageInv, Apart
  <2>13. Led'
    BY <1>2 DEF ImageInv, Led, Live
  <2>14. AsBooted'
    BY <1>1, <2>5, Zenon DEF ImageInv, AsBooted, AllClasses
  <2>15. Registered'
    <3>1. \A v \in Tasks : task'[v].phase = "live" /\ task'[v].class # Pid1Class =>
            launches'[task'[v].class] /\ handles'[task'[v].class] = task'[v].leader
      BY <1>1, <1>2, <2>5, <2>6 DEF ImageInv, Registered, Live, Led
    <3>2. images'[Pid1Class] = NoImage /\ handles'[Pid1Class] = NoImage
      BY <2>2, <2>5, Zenon DEF ImageInv, Registered, AllClasses
    <3>3. \A d \in AllClasses : handles'[d] # NoImage =>
            task'[handles'[d]].phase # "unborn" /\ task'[handles'[d]].class = d
      <4>1. \A d \in AllClasses : handles[d] # NoImage => handles[d] \in Tasks
        BY <1>t, Zenon DEF ImageTypeOK
      <4>2. \A d \in AllClasses : handles[d] # NoImage =>
              task[handles[d]].phase # "unborn" /\ task[handles[d]].class = d
        BY Zenon DEF ImageInv, Registered
      <4> QED BY <1>2, <2>5, <4>1, <4>2
    <3> QED BY <3>1, <3>2, <3>3, Zenon DEF Registered, Live
  <2>16. Scheduled' /\ NoHalt'
    BY <2>4 DEF Scheduled, NoHalt, Live
  <2> QED BY <2>7, <2>8, <2>9, <2>10, <2>11, <2>12, <2>13, <2>14, <2>15, <2>16, Zenon DEF ImageInv
<1> QED BY <1>1, <1>3, <1>4, Zenon DEF Retire

\* The exit of a leader: without fatal signals it has no peers left.
LEMMA LeaderExitKeeps ==
  ASSUME ImageInv, ~MaySignal, at = "user", NEW t \in Tasks, Live(t), LeaderExit(t)
  PROVE  ImageInv'
<1>1. task[t].leader = t /\ Group(t) = {t} /\ Retire(t, Ended({t}))
  BY Zenon DEF LeaderExit, Leads
<1>2. \A v \in Tasks : Live(v) /\ task[v].leader = t => v \in {t}
  BY <1>1, Zenon DEF Group
<1>3. \A v \in {t} : Live(v)
  BY Zenon
<1>4. task[t].phase # "unborn"
  BY Zenon DEF Live
<1> QED BY <1>1, <1>2, <1>3, <1>4, RetireKeeps

\* exit_group ends every task of the group, whoever calls it.
LEMMA ExitGroupKeeps ==
  ASSUME ImageInv, at = "user", NEW t \in Tasks, Live(t), ExitGroup(t)
  PROVE  ImageInv'
<1>1. /\ task[t].leader \in Tasks /\ task[task[t].leader].phase # "unborn"
      /\ task[task[t].leader].leader = task[t].leader
  BY Zenon DEF ImageInv, Led, Live
<1>2. Group(t) \in SUBSET Tasks /\ \A v \in Tasks : Live(v) /\ task[v].leader = task[t].leader => v \in Group(t)
  BY Zenon DEF Group
<1>4. \A v \in Group(t) : Live(v)
  BY Zenon DEF Group
<1>3. Retire(task[t].leader, Ended(Group(t)))
  BY Zenon DEF ExitGroup
<1> QED BY <1>1, <1>2, <1>3, <1>4, RetireKeeps, Zenon

-----------------------------------------------------------------------------
(* execve.                                                                 *)

\* A failed execve touches a free slot only.
LEMMA ExecveFailsKeeps ==
  ASSUME ImageInv, NEW t \in Tasks, Live(t), NEW n \in Slots, ExecveFails(t, n)
  PROVE  ImageInv'
<1>1. /\ pending = NoImage /\ First(n)
      /\ slot' = [slot EXCEPT ![n] = Free(next_generation(slot[n].gen))]
      /\ at' = "gate" /\ running' = t
      /\ UNCHANGED <<task, cr3, pending, images, launches, handles>>
  BY Zenon DEF ExecveFails
<1>2. n \in Slots /\ slot[n].phase = "Free"
  BY <1>1, Zenon DEF First, FreeSlots
<1>t. ImageTypeOK
  BY Zenon DEF ImageInv
<1>3. slot'[n].phase = "Free" /\ \A s \in Slots : s # n => slot'[s] = slot[s]
  BY <1>1, <1>2, <1>t, Zenon DEF ImageTypeOK, Free
<1>4. \A s \in Slots : slot'[s].phase = "Committed" \/ slot[s].phase = "Committed" => slot'[s] = slot[s]
  BY <1>2, <1>3, Zenon
<1>h. /\ \A c \in AllClasses : images[c] # NoImage => images[c].slot \in Slots
      /\ pending # NoImage => pending.slot \in Slots
      /\ BootSlot[Pid1Class] \in Slots
  BY <1>t, ImagesConstants, Zenon DEF ImageTypeOK, ImageHandle, AllClasses
<1>5. ImageTypeOK'
  <2>0. slot[n].gen \in 0 .. MaxImageGen
    BY <1>2, <1>t, Zenon DEF ImageTypeOK, SlotType
  <2>1. next_generation(slot[n].gen) \in 0 .. MaxImageGen
    BY <2>0, ImagesConstants DEF next_generation
  <2>2. Free(next_generation(slot[n].gen)) \in SlotType
    BY <2>1, Zenon DEF Free, SlotType
  <2> HIDE DEF Free
  <2> QED BY <1>1, <1>2, <1>t, <2>2, Zenon DEF ImageTypeOK
<1>6. ActiveRoot'
  BY <1>1, <1>4, Zenon DEF ImageInv, ActiveRoot, InUse
<1>7. Running'
  <2> SUFFICES ASSUME NEW v \in Tasks, Live(v)
               PROVE  /\ ImageOf(v)' # NoImage /\ Names(slot', ImageOf(v)')
                      /\ slot'[ImageOf(v)'.slot].root = task'[v].root
    BY <1>1, Zenon DEF Running, Live
  <2>1. ImageOf(v)' = ImageOf(v)
    BY <1>1, Zenon DEF ImageOf
  <2>2. ImageOf(v) # NoImage /\ Names(slot, ImageOf(v)) /\ slot[ImageOf(v).slot].root = task[v].root
    BY Zenon DEF ImageInv, Running
  <2>3. ImageOf(v).slot \in Slots
    <3>1. task[v].class \in AllClasses
      BY Zenon DEF ImageInv, Led, Live
    <3> QED BY <1>h, <2>2, <3>1, Zenon DEF ImageOf
  <2> QED BY <1>1, <1>4, <2>1, <2>2, <2>3, Zenon DEF Names
<1>8. Kept'
  BY <1>1, <1>4, <1>h DEF ImageInv, Kept, Names
<1>9. Owned'
  BY <1>1, <1>4, Zenon DEF ImageInv, Owned
<1>10. Apart'
  BY <1>1, <1>4 DEF ImageInv, Apart
<1>11. AsBooted'
  <2>1. \A c \in Classes : c \in AllClasses
    BY Zenon DEF AllClasses
  <2>2. slot'[BootSlot[Pid1Class]] = slot[BootSlot[Pid1Class]]
    BY <1>4, <1>h DEF ImageInv, AsBooted
  <2>3. \A c \in Classes : images[c] # NoImage => slot'[images[c].slot] = slot[images[c].slot]
    BY <1>4, <1>h, <2>1, Zenon DEF ImageInv, Kept, Names
  <2> QED BY <1>1, <2>2, <2>3, Zenon DEF ImageInv, AsBooted
<1>12. Led'
  BY <1>1, Zenon DEF ImageInv, Led
<1>13. Registered'
  BY <1>1, Zenon DEF ImageInv, Registered, Live
<1>14. Scheduled' /\ NoHalt'
  BY <1>1, Zenon DEF Scheduled, NoHalt, Live
<1> QED BY <1>5, <1>6, <1>7, <1>8, <1>9, <1>10, <1>11, <1>12, <1>13, <1>14, Zenon DEF ImageInv

\* The new image takes the place of the old one, which waits for the gate.
LEMMA ExecveKeeps ==
  ASSUME ImageInv, NEW t \in Tasks, Live(t), NEW r \in ImageRoots, NEW n \in Slots, ExecveDone(t, r, n)
  PROVE  ImageInv'
<1> DEFINE c == task[t].class
           new == [slot |-> n, gen |-> next_generation(slot[n].gen)]
           made == [phase |-> "Committed", gen |-> new.gen, root |-> r]
<1>1. /\ MayExec(t) /\ pending = NoImage /\ First(n) /\ handles[c] = t /\ launches[c] /\ r \notin InUse
      /\ slot' = [slot EXCEPT ![n] = made] /\ images' = [images EXCEPT ![c] = new]
      /\ task' = [task EXCEPT ![t].root = r] /\ pending' = images[c]
      /\ at' = "gate" /\ running' = t /\ UNCHANGED <<cr3, launches, handles>>
  BY Zenon DEF ExecveDone, MayExchange
<1>2. n \in Slots /\ slot[n].phase = "Free"
  BY <1>1, Zenon DEF First, FreeSlots
<1>t. ImageTypeOK /\ c \in AllClasses
  BY Zenon DEF ImageInv, Led, Live
<1>3. c # Pid1Class /\ images[c] # NoImage /\ images[c] \in ImageHandle
  <2>1. c # Pid1Class
    BY <1>1, ImagesConstants DEF ImageInv, Registered
  <2>2. images[c] # NoImage
    BY <2>1, Zenon DEF ImageInv, Running, ImageOf
  <2> QED BY <1>t, <2>1, <2>2, Zenon DEF ImageTypeOK
<1>4. new \in ImageHandle /\ new # NoImage /\ new.slot = n /\ new.gen = made.gen
  <2>0. slot[n].gen \in 0 .. MaxImageGen
    BY <1>2, <1>t, Zenon DEF ImageTypeOK, SlotType
  <2>1. next_generation(slot[n].gen) \in 1 .. MaxImageGen
    BY <2>0, ImagesConstants DEF next_generation
  <2>2. new \in ImageHandle
    BY <1>2, <2>1, Zenon DEF ImageHandle
  <2> QED BY <2>2, ImagesConstants, Zenon DEF ImageHandle
<1>5. slot'[n] = made /\ \A s \in Slots : s # n => slot'[s] = slot[s]
  BY <1>1, <1>2, <1>t, Zenon DEF ImageTypeOK
<1>6. \A s \in Slots : slot[s].phase = "Committed" => slot'[s] = slot[s]
  BY <1>2, <1>5, Zenon
<1>7. images'[c] = new /\ \A d \in AllClasses : d # c => images'[d] = images[d]
  BY <1>1, <1>t, Zenon DEF ImageTypeOK
<1>8. /\ task'[t].root = r
      /\ \A v \in Tasks : /\ task'[v].phase = task[v].phase /\ task'[v].leader = task[v].leader
                          /\ task'[v].class = task[v].class
                          /\ v # t => task'[v].root = task[v].root
  BY <1>1, <1>t DEF ImageTypeOK
<1>h. /\ \A d \in AllClasses : images[d] # NoImage => images[d].slot \in Slots
      /\ BootSlot[Pid1Class] \in Slots
  BY <1>t, ImagesConstants, Zenon DEF ImageTypeOK, ImageHandle, AllClasses
<1>9. \A d \in AllClasses : images[d] # NoImage => images[d].slot # n
  BY <1>2, Zenon DEF ImageInv, Kept, Names
<1>a. \A v \in Tasks : Live(v) /\ v # t => task[v].class # c
  <2> SUFFICES ASSUME NEW v \in Tasks, Live(v), v # t, task[v].class = c
               PROVE  FALSE
    BY Zenon
  <2>1. task[v].leader = t
    BY <1>1, <1>3, Zenon DEF ImageInv, Registered
  <2>2. v \in Group(t)
    BY <1>1, <2>1, Zenon DEF Group, MayExec, Leads
  <2> QED BY <1>1, <2>2, Zenon DEF MayExec
<1>b. made \in SlotType
      /\ made.phase = "Committed" /\ made.root = r
  BY <1>4 DEF ImageHandle, SlotType
<1> HIDE DEF c, new, made
<1>10. ImageTypeOK'
  <2>1. task' \in [Tasks -> TaskType]
    BY <1>1, <1>t DEF ImageTypeOK, TaskType
  <2> QED BY <1>1, <1>2, <1>t, <1>3, <1>4, <1>b, <2>1, Zenon DEF ImageTypeOK
<1>11. ActiveRoot'
  BY <1>1, <1>6, Zenon DEF ImageInv, ActiveRoot, InUse
<1>12. Running'
  <2> SUFFICES ASSUME NEW v \in Tasks, Live(v)
               PROVE  /\ ImageOf(v)' # NoImage /\ Names(slot', ImageOf(v)')
                      /\ slot'[ImageOf(v)'.slot].root = task'[v].root
    BY <1>8 DEF Running, Live
  <2>1. CASE v = t
    <3>1. ImageOf(v)' = new
      BY <1>3, <1>7, <1>8, <2>1, Zenon DEF ImageOf, c
    <3> QED BY <1>4, <1>5, <1>8, <1>b, <2>1, <3>1, Zenon DEF Names
  <2>2. CASE v # t
    <3>0. task[v].class # c /\ task[v].class \in AllClasses
      BY <1>a, <2>2, Zenon DEF ImageInv, Led, Live
    <3>1. ImageOf(v)' = ImageOf(v)
      BY <1>7, <1>8, <3>0, Zenon DEF ImageOf
    <3>2. ImageOf(v) # NoImage /\ Names(slot, ImageOf(v)) /\ slot[ImageOf(v).slot].root = task[v].root
      BY Zenon DEF ImageInv, Running
    <3>3. ImageOf(v).slot \in Slots
      BY <1>h, <3>0, <3>2, Zenon DEF ImageOf
    <3> QED BY <1>6, <1>8, <2>2, <3>1, <3>2, <3>3, Zenon DEF Names
  <2> QED BY <2>1, <2>2, Zenon
<1>13. Kept'
  <2>1. \A d \in AllClasses : images'[d] # NoImage => Names(slot', images'[d]) /\ images'[d] # pending'
    <3> SUFFICES ASSUME NEW d \in AllClasses, images'[d] # NoImage
                 PROVE  Names(slot', images'[d]) /\ images'[d] # pending'
      BY Zenon
    <3>1. CASE d = c
      BY <1>1, <1>3, <1>4, <1>5, <1>7, <1>9, <1>b, <1>t, <3>1 DEF Names
    <3>2. CASE d # c
      BY <1>1, <1>3, <1>6, <1>7, <1>h, <1>t, <3>2 DEF ImageInv, Kept, Names
    <3> QED BY <3>1, <3>2, Zenon
  <2>2. \A d, e \in AllClasses : images'[d] = images'[e] /\ images'[d] # NoImage => d = e
    BY <1>4, <1>7, <1>9 DEF ImageInv, Kept
  <2>3. pending' # NoImage => Names(slot', pending')
    BY <1>1, <1>3, <1>6, <1>h, <1>t DEF ImageInv, Kept, Names
  <2> QED BY <2>1, <2>2, <2>3, Zenon DEF Kept
<1>14. Owned'
  <2> SUFFICES ASSUME NEW s \in Slots, slot'[s].phase = "Committed"
               PROVE  \/ s = BootSlot[Pid1Class]
                      \/ pending' # NoImage /\ pending'.slot = s
                      \/ \E d \in Classes : images'[d] # NoImage /\ images'[d].slot = s
    BY Zenon DEF Owned
  <2>1. c \in Classes /\ \A d \in Classes : d \in AllClasses
    BY <1>t, <1>3, Zenon DEF AllClasses
  <2>2. CASE s = n
    BY <1>4, <1>7, <2>1, <2>2, Zenon
  <2>3. CASE s # n
    <3>1. slot[s].phase = "Committed"
      BY <1>5, <2>3, Zenon
    <3>2. s = BootSlot[Pid1Class] \/ \E d \in Classes : images[d] # NoImage /\ images[d].slot = s
      BY <1>1, <3>1, Zenon DEF ImageInv, Owned
    <3> QED BY <1>1, <1>7, <2>1, <3>2, Zenon
  <2> QED BY <2>2, <2>3, Zenon
<1>15. Apart'
  <2>1. \A s \in Slots : slot'[s].phase = "Committed" => slot'[s].root \in ImageRoots
    BY <1>5, <1>b, Zenon DEF ImageInv, Apart
  <2>2. \A s \in Slots : s # n /\ slot[s].phase = "Committed" => slot[s].root # r
    BY <1>1, Zenon DEF InUse
  <2>3. \A s, u \in Slots :
          slot'[s].phase = "Committed" /\ slot'[u].phase = "Committed" /\ slot'[s].root = slot'[u].root => s = u
    BY <1>5, <1>b, <2>2 DEF ImageInv, Apart
  <2>4. n # BootSlot[Pid1Class]
    BY <1>2 DEF ImageInv, AsBooted
  <2>5. \A d \in AllClasses : images'[d] # NoImage => images'[d].slot # BootSlot[Pid1Class]
    BY <1>4, <1>7, <2>4, Zenon DEF ImageInv, Apart
  <2>6. pending'.slot # BootSlot[Pid1Class]
    BY <1>1, <1>3, <1>t, Zenon DEF ImageInv, Apart
  <2> QED BY <2>1, <2>3, <2>5, <2>6, Zenon DEF Apart
<1>16. AsBooted'
  <2>1. slot'[BootSlot[Pid1Class]] = slot[BootSlot[Pid1Class]]
    BY <1>6, <1>h DEF ImageInv, AsBooted
  <2>2. \A d \in Classes : d \in AllClasses /\ (~launches[d] => d # c)
    BY <1>1, Zenon DEF AllClasses
  <2>3. \A d \in Classes : images[d] # NoImage => slot'[images[d].slot] = slot[images[d].slot]
    BY <1>6, <1>h, <2>2, Zenon DEF ImageInv, Kept, Names
  <2> QED BY <1>1, <1>7, <2>1, <2>2, <2>3 DEF ImageInv, AsBooted
<1>17. Led'
  BY <1>8 DEF ImageInv, Led
<1>18. Registered'
  <2>1. \A v \in Tasks : task'[v].phase = "live" /\ task'[v].class # Pid1Class =>
          launches'[task'[v].class] /\ handles'[task'[v].class] = task'[v].leader
    BY <1>1, <1>8 DEF ImageInv, Registered, Live
  <2>2. images'[Pid1Class] = NoImage /\ handles'[Pid1Class] = NoImage
    BY <1>1, <1>3, <1>7, Zenon DEF ImageInv, Registered, AllClasses
  <2>3. \A d \in AllClasses : handles[d] # NoImage => handles[d] \in Tasks
    BY <1>t, Zenon DEF ImageTypeOK
  <2>4. \A d \in AllClasses : handles'[d] # NoImage =>
          task'[handles'[d]].phase # "unborn" /\ task'[handles'[d]].class = d
    BY <1>1, <1>8, <2>3 DEF ImageInv, Registered
  <2> QED BY <2>1, <2>2, <2>4, Zenon DEF Registered, Live
<1>19. Scheduled' /\ NoHalt'
  BY <1>1, <1>8 DEF Scheduled, NoHalt, Live
<1> QED BY <1>10, <1>11, <1>12, <1>13, <1>14, <1>15, <1>16, <1>17, <1>18, <1>19, Zenon DEF ImageInv

-----------------------------------------------------------------------------
(* The way back.                                                           *)

\* The reap frees the image that waits, on which nobody runs.
LEMMA ReapKeeps ==
  ASSUME ImageInv, NEW r, NEW next \in {"user", "gate", "pid0"}, reap(r, next), cr3' = r,
         pending # NoImage => slot[pending.slot].root # r,
         r = Kernel \/ r \in InUse,
         running' \in Tasks \cup {NoImage}, next \in {"user", "gate"} => running' \in Tasks /\ Live(running'),
         UNCHANGED <<task, images, launches, handles>>
  PROVE  ImageInv'
<1>t. ImageTypeOK /\ Kept
  BY Zenon DEF ImageInv
<1>1. at' = next /\ pending' = NoImage
  BY Zenon DEF reap, release_committed, ImageInv, Kept
<1>2. \/ pending = NoImage /\ slot' = slot
      \/ /\ pending # NoImage /\ pending.slot \in Slots
         /\ slot' = [slot EXCEPT ![pending.slot] = Free(slot[pending.slot].gen)]
  BY <1>t, Zenon DEF reap, release_committed, Kept, ImageTypeOK, ImageHandle
<1>3. /\ slot' \in [Slots -> SlotType]
      /\ \A s \in Slots : slot'[s].phase = "Committed" => slot'[s] = slot[s]
      /\ \A s \in Slots : (pending # NoImage => s # pending.slot) => slot'[s] = slot[s]
  <2>1. slot \in [Slots -> SlotType]
    BY <1>t, Zenon DEF ImageTypeOK
  <2>2. \A s \in Slots : Free(slot[s].gen) \in SlotType /\ Free(slot[s].gen).phase = "Free"
    BY <2>1, Zenon DEF Free, SlotType
  <2> HIDE DEF Free
  <2> QED BY <1>2, <2>1, <2>2, Zenon
<1>4. \A s \in Slots : slot'[s].phase = "Committed" => (pending # NoImage => s # pending.slot)
  BY <1>2, <1>t DEF ImageTypeOK, Free
<1>h. /\ \A d \in AllClasses : images[d] # NoImage =>
           images[d].slot \in Slots /\ (pending # NoImage => images[d].slot # pending.slot)
      /\ BootSlot[Pid1Class] \in Slots /\ (pending # NoImage => BootSlot[Pid1Class] # pending.slot)
  <2>1. \A d \in AllClasses : images[d] # NoImage /\ pending # NoImage => images[d].slot # pending.slot
    BY <1>t, SlotsApart, Zenon
  <2>2. /\ \A d \in AllClasses : images[d] # NoImage => images[d].slot \in Slots
        /\ BootSlot[Pid1Class] \in Slots
    BY <1>t, ImagesConstants, Zenon DEF ImageTypeOK, ImageHandle, AllClasses
  <2> QED BY <2>1, <2>2, Zenon DEF ImageInv, Apart
<1>5. r \in InUse => r \in InUse'
  <2> SUFFICES ASSUME NEW s \in Slots, slot[s].phase = "Committed", slot[s].root = r
               PROVE  r \in InUse'
    BY Zenon DEF InUse
  <2>1. slot'[s] = slot[s]
    BY <1>3, Zenon
  <2> QED BY <2>1, Zenon DEF InUse
<1>6. ImageTypeOK'
  <2>1. cr3' \in ImageRoots \cup {Kernel}
    BY Zenon DEF ImageInv, Apart, InUse
  <2> QED BY <1>1, <1>3, <1>t, <2>1, Zenon DEF ImageTypeOK
<1>7. ActiveRoot'
  BY <1>5, Zenon DEF ActiveRoot
<1>8. Running'
  <2> SUFFICES ASSUME NEW v \in Tasks, Live(v)
               PROVE  /\ ImageOf(v)' # NoImage /\ Names(slot', ImageOf(v)')
                      /\ slot'[ImageOf(v)'.slot].root = task'[v].root
    BY Zenon DEF Running, Live
  <2>1. ImageOf(v)' = ImageOf(v) /\ task[v].class \in AllClasses
    BY Zenon DEF ImageOf, ImageInv, Led, Live
  <2>2. ImageOf(v) # NoImage /\ Names(slot, ImageOf(v)) /\ slot[ImageOf(v).slot].root = task[v].root
    BY Zenon DEF ImageInv, Running
  <2>3. ImageOf(v).slot \in Slots /\ (pending # NoImage => ImageOf(v).slot # pending.slot)
    BY <1>h, <2>1, <2>2, Zenon DEF ImageOf
  <2> QED BY <1>3, <2>1, <2>2, <2>3, Zenon DEF Names
<1>9. Kept'
  BY <1>1, <1>3, <1>h, <1>t DEF Kept, Names
<1>10. Owned'
  BY <1>1, <1>3, <1>4, Zenon DEF ImageInv, Owned
<1>11. Apart'
  BY <1>1, <1>3 DEF ImageInv, Apart
<1>12. AsBooted'
  <2>1. \A d \in Classes : d \in AllClasses
    BY Zenon DEF AllClasses
  <2> QED BY <1>3, <1>h, <2>1, Zenon DEF ImageInv, AsBooted
<1>13. Led'
  BY Zenon DEF ImageInv, Led
<1>14. Registered'
  BY Zenon DEF ImageInv, Registered, Live
<1>15. Scheduled' /\ NoHalt'
  BY <1>1, Zenon DEF Scheduled, NoHalt, Live
<1> QED BY <1>6, <1>7, <1>8, <1>9, <1>10, <1>11, <1>12, <1>13, <1>14, <1>15, Zenon DEF ImageInv

\* The root that the gate loads belongs to a task that runs, so it is installed
\* and not the one that waits.
LEMMA ActivateKeeps ==
  ASSUME ImageInv, Activate
  PROVE  ImageInv'
<1>1. /\ at = "gate" /\ cr3' = task[running].root /\ reap(cr3', "user")
      /\ UNCHANGED <<task, running, images, launches, handles>>
  BY Zenon DEF Activate
<1>2. running \in Tasks /\ Live(running)
  BY <1>1, Zenon DEF ImageInv, Scheduled
<1>t. ImageTypeOK /\ Kept
  BY Zenon DEF ImageInv
<1>3. /\ ImageOf(running) # NoImage /\ Names(slot, ImageOf(running))
      /\ slot[ImageOf(running).slot].root = task[running].root
  BY <1>2, Zenon DEF ImageInv, Running
<1>4. ImageOf(running).slot \in Slots /\ (pending # NoImage => ImageOf(running).slot # pending.slot)
  <2>1. task[running].class \in AllClasses
    BY <1>2, Zenon DEF ImageInv, Led, Live
  <2>2. CASE task[running].class = Pid1Class
    <3>1. BootSlot[Pid1Class] \in Slots
      BY ImagesConstants, Zenon DEF AllClasses
    <3> QED BY <2>2, <3>1, Zenon DEF ImageOf, ImageInv, Apart
  <2>3. CASE task[running].class # Pid1Class
    <3>1. pending # NoImage => images[task[running].class].slot # pending.slot
      BY <1>3, <1>t, <2>1, <2>3, SlotsApart, Zenon DEF ImageOf
    <3>2. images[task[running].class] \in ImageHandle
      BY <1>3, <1>t, <2>1, <2>3, Zenon DEF ImageOf, ImageTypeOK
    <3> QED BY <2>3, <3>1, <3>2, Zenon DEF ImageOf, ImageHandle
  <2> QED BY <2>2, <2>3, Zenon
<1>5. task[running].root \in InUse
  BY <1>3, <1>4, Zenon DEF InUse, Names
<1>6. pending # NoImage => slot[pending.slot].root # task[running].root
  <2> SUFFICES ASSUME pending # NoImage
               PROVE  slot[pending.slot].root # task[running].root
    BY Zenon
  <2>1. pending.slot \in Slots /\ Names(slot, pending)
    BY <1>t, Zenon DEF ImageTypeOK, ImageHandle, Kept
  <2> QED BY <1>3, <1>4, <2>1, Zenon DEF ImageInv, Apart, Names
<1>7. running' \in Tasks /\ Live(running')
  BY <1>1, <1>2, Zenon DEF Live
<1> QED BY <1>1, <1>5, <1>6, <1>7, ReapKeeps, Zenon

\* The kernel's root is that of no image.
LEMMA IdleKeeps ==
  ASSUME ImageInv, PidZero
  PROVE  ImageInv'
<1>1. /\ at = "pid0" /\ cr3' = Kernel /\ UNCHANGED <<task, images, launches, handles>>
      /\ \/ reap(Kernel, "pid0") /\ UNCHANGED running
         \/ \E u \in Tasks : Live(u) /\ reap(Kernel, "gate") /\ running' = u
  BY Zenon DEF PidZero
<1>2. pending # NoImage => slot[pending.slot].root # Kernel
  <2> SUFFICES ASSUME pending # NoImage
               PROVE  slot[pending.slot].root # Kernel
    BY Zenon
  <2>1. pending.slot \in Slots /\ Names(slot, pending)
    BY Zenon DEF ImageInv, ImageTypeOK, ImageHandle, Kept
  <2> QED BY <2>1, ImagesConstants, Zenon DEF ImageInv, Apart, Names
<1>3. running \in Tasks \cup {NoImage}
  BY Zenon DEF ImageInv, ImageTypeOK
<1>4. CASE reap(Kernel, "pid0") /\ UNCHANGED running
  BY <1>1, <1>2, <1>3, <1>4, ReapKeeps, Zenon
<1>5. ASSUME NEW u \in Tasks, Live(u), reap(Kernel, "gate"), running' = u
      PROVE  ImageInv'
  BY <1>1, <1>2, <1>5, ReapKeeps, Zenon
<1> QED BY <1>1, <1>4, <1>5, Zenon

-----------------------------------------------------------------------------
(* Every run.                                                              *)

\* The boot loader leaves a state of the invariant.
LEMMA InitImageInv == ImageInit => ImageInv
<1> SUFFICES ASSUME ImageInit PROVE ImageInv
  BY Zenon
<1>0. /\ pending = NoImage /\ cr3 = BootRoot[Pid1Class] /\ at = "user" /\ running = Pid1
      /\ images = [c \in AllClasses |-> IF c \in Classes THEN [slot |-> BootSlot[c], gen |-> 1] ELSE NoImage]
      /\ launches = [c \in AllClasses |-> FALSE] /\ handles = [c \in AllClasses |-> NoImage]
  BY Zenon DEF ImageInit
<1>1. \A s \in Slots : (\E c \in AllClasses : BootSlot[c] = s) =>
        BootSlot[CHOOSE c \in AllClasses : BootSlot[c] = s] = s /\ (CHOOSE c \in AllClasses : BootSlot[c] = s) \in AllClasses
  BY Zenon
<1>2. \A c \in AllClasses : /\ BootSlot[c] \in Slots /\ BootRoot[c] \in ImageRoots
                            /\ slot[BootSlot[c]] = [phase |-> "Committed", gen |-> 1, root |-> BootRoot[c]]
  <2> SUFFICES ASSUME NEW c \in AllClasses
               PROVE  /\ BootSlot[c] \in Slots /\ BootRoot[c] \in ImageRoots
                      /\ slot[BootSlot[c]] = [phase |-> "Committed", gen |-> 1, root |-> BootRoot[c]]
    BY Zenon
  <2>1. BootSlot[c] \in Slots /\ BootRoot[c] \in ImageRoots
    BY ImagesConstants, Zenon
  <2>2. (CHOOSE d \in AllClasses : BootSlot[d] = BootSlot[c]) = c
    BY <2>1, <1>1, ImagesConstants, Zenon
  <2> QED BY <2>1, <2>2, Zenon DEF ImageInit
<1>b. \A c \in AllClasses : slot[BootSlot[c]].phase = "Committed" /\ slot[BootSlot[c]].gen = 1
                            /\ slot[BootSlot[c]].root = BootRoot[c]
  <2> TAKE c \in AllClasses
  <2>1. slot[BootSlot[c]] = [phase |-> "Committed", gen |-> 1, root |-> BootRoot[c]]
    BY <1>2, Zenon
  <2> QED BY <2>1
<1>3. \A s \in Slots : \/ slot[s] = Free(0)
                       \/ \E c \in AllClasses : s = BootSlot[c]
  BY Zenon DEF ImageInit
<1>4. \A c \in AllClasses : images[c] # NoImage => c \in Classes /\ images[c] = [slot |-> BootSlot[c], gen |-> 1]
  BY Zenon DEF ImageInit
<1>s. \A c \in AllClasses : images[c] # NoImage => images[c].slot = BootSlot[c]
  <2> TAKE c \in AllClasses
  <2> HAVE images[c] # NoImage
  <2>1. images[c] = [slot |-> BootSlot[c], gen |-> 1]
    BY <1>4, Zenon
  <2> QED BY <2>1
<1>5. \A t \in Tasks : task[t].phase # "unborn" =>
        t = Pid1 /\ task[t] = [phase |-> "live", leader |-> Pid1, class |-> Pid1Class, root |-> BootRoot[Pid1Class]]
  BY Zenon DEF ImageInit, Unborn
<1>6. Pid1Class \in AllClasses /\ Pid1Class \notin Classes /\ \A c \in Classes : c \in AllClasses
  BY ImagesConstants, Zenon DEF AllClasses
<1>7. ImageTypeOK
  <2>1. \A c \in AllClasses : [slot |-> BootSlot[c], gen |-> 1] \in ImageHandle
    BY <1>2, ImagesConstants DEF ImageHandle
  <2>2. images \in [AllClasses -> ImageHandle \cup {NoImage}]
    BY <2>1, Zenon DEF ImageInit
  <2>3. task \in [Tasks -> TaskType]
    <3>1. BootRoot[Pid1Class] \in ImageRoots /\ Pid1 \in Tasks
      BY <1>2, <1>6, ImagesConstants, Zenon
    <3> QED BY <1>6, <3>1, Zenon DEF ImageInit, Unborn, TaskType
  <2>4. \A s \in Slots : slot[s] \in SlotType
    <3>1. \A x \in ImageRoots : [phase |-> "Committed", gen |-> 1, root |-> x] \in SlotType
      BY ImagesConstants DEF SlotType
    <3>2. Free(0) \in SlotType
      BY ImagesConstants DEF Free, SlotType
    <3> TAKE s \in Slots
    <3>3. CASE slot[s] = Free(0)
      BY <3>2, <3>3, Zenon
    <3>4. ASSUME NEW c \in AllClasses, s = BootSlot[c]
          PROVE  slot[s] \in SlotType
      <4>1. BootRoot[c] \in ImageRoots /\ slot[s] = [phase |-> "Committed", gen |-> 1, root |-> BootRoot[c]]
        BY <1>2, <3>4, Zenon
      <4> QED BY <3>1, <4>1, Zenon
    <3> QED BY <1>3, <3>3, <3>4, Zenon
  <2>5. slot \in [Slots -> SlotType]
    BY <2>4, Zenon DEF ImageInit
  <2> QED BY <1>2, <1>6, <2>2, <2>3, <2>5, ImagesConstants, Zenon DEF ImageTypeOK, ImageInit
<1>8. ActiveRoot
  <2>1. cr3 = slot[BootSlot[Pid1Class]].root
    BY <1>0, <1>b, <1>6, Zenon
  <2>2. BootSlot[Pid1Class] \in Slots /\ slot[BootSlot[Pid1Class]].phase = "Committed"
    BY <1>2, <1>b, <1>6, Zenon
  <2> QED BY <2>1, <2>2, Zenon DEF ActiveRoot, InUse
<1>9. Running
  <2>1. [slot |-> BootSlot[Pid1Class], gen |-> 1] # NoImage
    <3>1. [slot |-> BootSlot[Pid1Class], gen |-> 1] \in [slot : Slots, gen : 1 .. MaxImageGen]
      BY <1>2, <1>6, ImagesConstants
    <3> QED BY <3>1, ImagesConstants, Zenon
  <2>2. \A t \in Tasks : Live(t) => ImageOf(t) = [slot |-> BootSlot[Pid1Class], gen |-> 1]
                                  /\ task[t].root = BootRoot[Pid1Class]
    BY <1>5 DEF Live, ImageOf
  <2> QED BY <1>b, <1>6, <2>1, <2>2 DEF Running, Names
<1>10. Kept
  <2>1. \A c \in AllClasses : images[c] # NoImage => Names(slot, images[c]) /\ images[c] # pending
    BY <1>0, <1>b, <1>s, <1>4, Zenon DEF Names
  <2>2. \A c, d \in AllClasses : images[c] = images[d] /\ images[c] # NoImage => c = d
    <3>1. \A c, d \in AllClasses : images[c] = images[d] /\ images[c] # NoImage => BootSlot[c] = BootSlot[d]
      BY <1>s, Zenon
    <3> QED BY <3>1, ImagesConstants, Zenon
  <2> QED BY <1>0, <2>1, <2>2, Zenon DEF Kept
<1>11. Owned
  <2>1. \A c \in Classes : images[c] = [slot |-> BootSlot[c], gen |-> 1] /\ images[c] # NoImage
    <3>1. \A c \in Classes : [slot |-> BootSlot[c], gen |-> 1] \in [slot : Slots, gen : 1 .. MaxImageGen]
      BY <1>2, <1>6, ImagesConstants
    <3> QED BY <1>6, <3>1, ImagesConstants DEF ImageInit
  <2>2. \A s \in Slots : slot[s].phase = "Committed" => \E c \in AllClasses : s = BootSlot[c]
    BY <1>3 DEF Free
  <2>3. \A c \in AllClasses : c = Pid1Class \/ c \in Classes
    BY Zenon DEF AllClasses
  <2>4. \A c \in Classes : images[c] # NoImage /\ images[c].slot = BootSlot[c]
    BY <1>s, <1>6, <2>1, Zenon
  <2> QED BY <2>2, <2>3, <2>4 DEF Owned
<1>12. Apart
  <2>1. \A s \in Slots : slot[s].phase = "Committed" =>
          \E c \in AllClasses : s = BootSlot[c] /\ slot[s].root = BootRoot[c]
    BY <1>b, <1>3 DEF Free
  <2>2. \A c, d \in AllClasses : BootSlot[c] = BootSlot[d] \/ BootRoot[c] = BootRoot[d] => c = d
    BY ImagesConstants, Zenon
  <2>3. \A c \in AllClasses : images[c] # NoImage => c # Pid1Class /\ images[c].slot = BootSlot[c]
    BY <1>s, <1>4, <1>6, Zenon
  <2>4. /\ \A s \in Slots : slot[s].phase = "Committed" => slot[s].root \in ImageRoots
        /\ \A s, u \in Slots :
             slot[s].phase = "Committed" /\ slot[u].phase = "Committed" /\ slot[s].root = slot[u].root => s = u
    <3>1. \A s \in Slots : slot[s].phase = "Committed" => slot[s].root \in ImageRoots
      <4>1. \A c \in AllClasses : BootRoot[c] \in ImageRoots
        BY <1>2, Zenon
      <4> QED BY <2>1, <4>1, Zenon
    <3>2. \A s, u \in Slots :
            slot[s].phase = "Committed" /\ slot[u].phase = "Committed" /\ slot[s].root = slot[u].root => s = u
      BY <2>1, <2>2
    <3> QED BY <3>1, <3>2, Zenon
  <2> QED BY <1>0, <1>6, <2>2, <2>3, <2>4, Zenon DEF Apart
<1>13. AsBooted
  <2>1. \A c \in Classes : images[c] # NoImage => images[c].slot = BootSlot[c]
    BY <1>s, <1>6, Zenon
  <2> QED BY <1>2, <1>b, <1>6, <2>1, Zenon DEF AsBooted
<1>14. Led
  BY <1>5, <1>6, ImagesConstants DEF Led
<1>15. Registered
  BY <1>0, <1>5, <1>6 DEF Registered, Live
<1>16. Scheduled /\ NoHalt
  BY ImagesConstants, Zenon DEF Scheduled, NoHalt, Live, ImageInit
<1> QED BY <1>7, <1>8, <1>9, <1>10, <1>11, <1>12, <1>13, <1>14, <1>15, <1>16, Zenon DEF ImageInv

\* Every step keeps it.
LEMMA NextImageInv ==
  ASSUME ~MaySignal, ImageInv, [ImageNext]_imageVars
  PROVE  ImageInv'
<1>1. ASSUME NEW t \in Tasks, at = "user", t = running, Syscall(t)
      PROVE  ImageInv'
  <2>1. Live(t)
    BY <1>1, Zenon DEF ImageInv, Scheduled
  <2>2. CASE Reschedule(t)
    BY <2>2, RescheduleKeeps, Zenon
  <2>3. ASSUME NEW n \in Slots, ExecveFails(t, n) PROVE ImageInv'
    BY <2>1, <2>3, ExecveFailsKeeps, Zenon
  <2>4. CASE ThreadExit(t)
    BY <2>1, <2>4, ThreadExitKeeps, Zenon
  <2>5. CASE LeaderExit(t)
    BY <1>1, <2>1, <2>5, LeaderExitKeeps, Zenon
  <2>6. CASE ExitGroup(t)
    BY <1>1, <2>1, <2>6, ExitGroupKeeps, Zenon
  <2>7. ASSUME NEW n \in Slots, NEW r \in ImageRoots, ExecveDone(t, r, n)
        PROVE  ImageInv'
    BY <2>1, <2>7, ExecveKeeps, Zenon
  <2>8. ASSUME NEW u \in Tasks, clone_current_thread(t, u)
        PROVE  ImageInv'
    BY <2>1, <2>8, CloneKeeps, Zenon
  <2>9. ASSUME NEW u \in Tasks, NEW c \in Classes, launch(t, c, u)
        PROVE  ImageInv'
    BY <2>9, LaunchKeeps, Zenon
  <2> QED BY <1>1, <2>2, <2>3, <2>4, <2>5, <2>6, <2>7, <2>8, <2>9, Zenon DEF Syscall
<1>2. CASE Activate
  BY <1>2, ActivateKeeps, Zenon
<1>3. CASE PidZero
  BY <1>3, IdleKeeps, Zenon
<1>4. CASE UNCHANGED imageVars
  <2>1. UNCHANGED <<task, running, at, cr3, slot, pending, images, launches, handles>>
    BY <1>4, Zenon DEF imageVars
  <2>2. ActiveRoot' /\ Kept' /\ Owned' /\ Apart'
    BY <2>1, SameImagesKeep, Zenon
  <2>3. ImageTypeOK'
    BY <2>1, Zenon DEF ImageInv, ImageTypeOK
  <2>4. Running'
    <3>1. \A t \in Tasks : ImageOf(t)' = ImageOf(t) /\ Live(t)' = Live(t)
      BY <2>1, Zenon DEF ImageOf, Live
    <3> QED BY <2>1, <3>1, Zenon DEF ImageInv, Running, Names
  <2>5. Led' /\ AsBooted'
    BY <2>1, Zenon DEF ImageInv, Led, AsBooted
  <2>6. Registered'
    <3>1. Registered
      BY Zenon DEF ImageInv
    <3> QED BY <2>1, <3>1, Zenon DEF Registered, Live
  <2>7. Scheduled' /\ NoHalt'
    BY <2>1, Zenon DEF ImageInv, Scheduled, NoHalt, Live
  <2> QED BY <2>2, <2>3, <2>4, <2>5, <2>6, <2>7, Zenon DEF ImageInv
<1> QED BY <1>1, <1>2, <1>3, <1>4, Zenon DEF ImageNext

\* Images and owners match in every run in which no fatal signal ends a leader
\* that has peers: nothing frees the page tables of a live task, every installed
\* image has its one owner, and the single place for a deferred reap is enough
\* (defer_reap, reap_after_root_switch, release_committed).
THEOREM ImagesAreOwned ==
  ASSUME ~MaySignal
  PROVE  ImageSpec => []ImagesOwned
<1>1. ImageInv => ImagesOwned
  BY Zenon DEF ImageInv, ImagesOwned, ActiveRoot, Running, Kept, Owned, NoHalt
<1>2. ImageInv /\ [ImageNext]_imageVars => ImageInv'
  BY NextImageInv, Zenon
<1> QED BY <1>1, <1>2, InitImageInv, PTL DEF ImageSpec
=============================================================================
