---------------------------- MODULE EventsProofs ----------------------------
(***************************************************************************)
(* The invariants of Signals, for every set of threads, signals, programs, *)
(* frames and descriptors.  Every call changes the tables and then returns *)
(* through resume_linux_with_pending_signal, so the proof has the same     *)
(* shape: Ready says what the tables must look like when the call reaches  *)
(* its return, the lemmas about the return show that Ready is enough, and  *)
(* one lemma per call shows that it gets there.  The second part has the   *)
(* expirations of TimerFd, for every clock and setting.                    *)
(***************************************************************************)
EXTENDS Signals, TimerFd, FiniteSetTheorems, TLAPS

TableType == [Tids -> SlotType \cup {Null}]
FdType == [Fds -> [mask : SUBSET Sigs, cloexec : BOOLEAN] \cup {Null}]

\* The mask part of the invariant, for one slot and the mask asked for.
MaskOK(th, m) ==
  /\ th = Null => m = {}
  /\ th # Null /\ th.frame = Null => th.blocked = m
  /\ th # Null /\ th.frame # Null => th.frame.mask = m

NoKill(th, m) == SIGKILL \notin m /\ (th # Null => SIGKILL \notin th.blocked)

\* The inductive invariant: the five invariants of the module, and that SIGKILL
\* is not in the mask a thread has asked for, which a return restores.
IInv ==
  /\ SigTypeOK /\ SlotsAreLive /\ DeliveredAtReturn /\ MaskRestored /\ Uncatchable
  /\ \A t \in Tids : SIGKILL \notin want[t]

\* What a call of thread t may hand to its return.
Ready(t, ths, acts, fds, w) ==
  /\ t \in Tids /\ stage[t] = "live"
  /\ ths \in TableType /\ acts \in [Sigs -> ActionType] \cup {Null} /\ fds \in FdType
  /\ w \in [Tids -> SUBSET Sigs] /\ \A u \in Tids \ {t} : w[u] = want[u]
  /\ \A u \in Tids : ths[u] # Null => stage[u] = "live"
  /\ \A u \in Tids \ {t} :
       ths[u] # Null /\ ths[u].frame = Null => Candidates(ths[u]) = {}
  /\ \A u \in Tids : stage[u] = "live" => MaskOK(ths[u], w[u])
  /\ \A u \in Tids : NoKill(ths[u], w[u])
  /\ acts # Null /\ SIGKILL \in Sigs => acts[SIGKILL] = Default

LEMMA DefaultType == Default \in ActionType /\ EmptySlot \in SlotType
BY Zenon DEF Default, ActionType, EmptySlot, SlotType

\* A slot never equals Null, and neither does a table of dispositions or a frame.
LEMMA NoneApart ==
  /\ \A th \in SlotType : th # Null
  /\ \A f \in FrameType : f # Null
  /\ \A a \in [Sigs -> ActionType] : a # Null
BY SigConstants, Zenon

\* The initial state satisfies the invariant.
LEMMA InitHolds == SigInit => IInv
<1> SUFFICES ASSUME SigInit PROVE IInv
  BY Zenon
<1>1. SigTypeOK
  BY SigConstants, Zenon DEF SigInit, SigTypeOK
<1>2. SlotsAreLive /\ DeliveredAtReturn /\ MaskRestored
  BY Zenon DEF SigInit, SlotsAreLive, DeliveredAtReturn, MaskRestored, Live
<1>3. Uncatchable /\ \A t \in Tids : SIGKILL \notin want[t]
  BY Zenon DEF SigInit, Uncatchable
<1> QED
  BY <1>1, <1>2, <1>3, Zenon DEF IInv

\* What a call may hand to its return when it changes nothing but the
\* dispositions or the signalfds.
LEMMA ReadyFromInv ==
  ASSUME IInv, NEW t \in Tids, stage[t] = "live"
  PROVE  Ready(t, thread, actions, signalfd, want)
<1>1. thread \in TableType /\ actions \in [Sigs -> ActionType] \cup {Null} /\ signalfd \in FdType
      /\ want \in [Tids -> SUBSET Sigs]
  BY Zenon DEF IInv, SigTypeOK, TableType, FdType
<1>2. \A u \in Tids : stage[u] = "live" => MaskOK(thread[u], want[u])
  BY Zenon DEF IInv, MaskRestored, MaskOK, Live
<1>3. \A u \in Tids : NoKill(thread[u], want[u])
  BY Zenon DEF IInv, Uncatchable, NoKill
<1>4. \A u \in Tids \ {t} :
       thread[u] # Null /\ thread[u].frame = Null => Candidates(thread[u]) = {}
  BY Zenon DEF IInv, DeliveredAtReturn, SlotsAreLive, Live
<1> QED
  BY <1>1, <1>2, <1>3, <1>4, Zenon DEF Ready, IInv, SlotsAreLive, Uncatchable

-----------------------------------------------------------------------------
\* A thread that leaves takes its slot with it, and the leader takes the
\* dispositions and the signalfds.
LEMMA ExitHolds ==
  ASSUME IInv, NEW t, NEW ths, NEW acts, NEW fds, NEW w, Ready(t, ths, acts, fds, w),
         ExitCaller(t, ths, acts, fds)
  PROVE  IInv'
<1> USE DEF clear_thread
<1>1. /\ stage' \in [Tids -> {"new", "live", "zombie", "dead"}] /\ thread' \in TableType
      /\ want' \in [Tids -> SUBSET Sigs] /\ signalfd' \in FdType
      /\ actions' \in [Sigs -> ActionType] \cup {Null}
  BY DEF IInv, SigTypeOK, Ready, ExitCaller, TableType, FdType
<1>2. SigTypeOK'
  BY <1>1, Zenon DEF IInv, SigTypeOK, ExitCaller, TableType, FdType
<1>3. t \in Tids /\ thread'[t] = Null /\ stage'[t] # "live"
  BY Zenon DEF Ready, ExitCaller, IInv, SigTypeOK, TableType
<1>4. \A u \in Tids \ {t} : thread'[u] = ths[u] /\ stage'[u] = stage[u] /\ want'[u] = w[u]
  BY Zenon DEF Ready, ExitCaller, IInv, SigTypeOK, TableType
<1>5. SlotsAreLive'
  BY <1>3, <1>4, Zenon DEF SlotsAreLive, Ready
<1>6. DeliveredAtReturn'
  BY <1>3, <1>4 DEF DeliveredAtReturn, Live, Ready, Candidates
<1>7. MaskRestored'
  BY <1>3, <1>4 DEF MaskRestored, Live, Ready, MaskOK
<1>8. \A u \in Tids : SIGKILL \notin want'[u]
  <2>1. want'[t] = {}
    BY Zenon DEF Ready, ExitCaller, IInv, SigTypeOK
  <2> QED
    BY <2>1, <1>4, Zenon DEF Ready, NoKill
<1>9. Uncatchable'
  BY <1>3, <1>4, Zenon DEF Uncatchable, Ready, NoKill, ExitCaller
<1> QED
  BY <1>2, <1>5, <1>6, <1>7, <1>8, <1>9, Zenon DEF IInv

\* A return that installs the tables of the call, with the slot of the caller
\* replaced by one that keeps the invariant, keeps it everywhere.
LEMMA InstallHolds ==
  ASSUME IInv, NEW t, NEW ths, NEW acts, NEW fds, NEW w, Ready(t, ths, acts, fds, w),
         NEW th \in SlotType \cup {Null}, NEW acts2 \in [Sigs -> ActionType] \cup {Null},
         thread' = [ths EXCEPT ![t] = th], actions' = acts2, want' = w, signalfd' = fds,
         UNCHANGED <<program, stage, halted>>,
         MaskOK(th, w[t]), NoKill(th, w[t]),
         th # Null /\ th.frame = Null => Candidates(th) = {},
         acts2 # Null /\ SIGKILL \in Sigs => acts2[SIGKILL] = Default
  PROVE  IInv'
<1>1. thread' \in TableType /\ want' \in [Tids -> SUBSET Sigs] /\ signalfd' \in FdType
  BY Zenon DEF Ready, TableType
<1>2. SigTypeOK'
  BY <1>1, Zenon DEF IInv, SigTypeOK, TableType, FdType
<1>3. t \in Tids /\ thread'[t] = th /\ stage'[t] = "live"
  BY Zenon DEF Ready, TableType
<1>4. \A u \in Tids \ {t} : thread'[u] = ths[u] /\ stage'[u] = stage[u] /\ want'[u] = w[u]
  BY Zenon DEF Ready, TableType
<1>5. SlotsAreLive'
  BY <1>3, <1>4, Zenon DEF SlotsAreLive, Ready
<1>6. DeliveredAtReturn'
  BY <1>3, <1>4 DEF DeliveredAtReturn, Live, Ready, Candidates
<1>7. MaskRestored'
  BY <1>3, <1>4 DEF MaskRestored, Live, Ready, MaskOK
<1>8. Uncatchable' /\ \A u \in Tids : SIGKILL \notin want'[u]
  BY <1>3, <1>4, Zenon DEF Uncatchable, Ready, NoKill
<1> QED
  BY <1>2, <1>5, <1>6, <1>7, <1>8, Zenon DEF IInv

\* A disposition that SA_RESETHAND resets leaves the call ready.
LEMMA ReadyAfterReset ==
  ASSUME NEW t, NEW ths, NEW acts, NEW fds, NEW w, Ready(t, ths, acts, fds, w),
         NEW s \in Sigs
  PROVE  Ready(t, ths, ResetHand(acts, s), fds, w)
<1> DEFINE acts2 == ResetHand(acts, s)
<1>1. acts2 \in [Sigs -> ActionType] \cup {Null}
  BY DefaultType, Zenon DEF Ready, ResetHand
<1>2. acts2 # Null /\ SIGKILL \in Sigs => acts2[SIGKILL] = Default
  BY Zenon DEF Ready, ResetHand
<1> HIDE DEF acts2
<1>3. Ready(t, ths, acts2, fds, w)
  BY <1>1, <1>2, Zenon DEF Ready
<1> QED
  BY <1>3, Zenon DEF acts2

\* Running a handler: the frame holds the mask that the thread asked for.
LEMMA HandlerHolds ==
  ASSUME IInv, NEW t, NEW ths, NEW acts, NEW fds, NEW w, Ready(t, ths, acts, fds, w),
         NEW s \in Sigs, s # SIGKILL, NEW skipped, delivery_pending(ths[t]),
         RunHandler(t, ths, acts, fds, w, s, skipped)
  PROVE  IInv'
<1>1. PICK f \in Frames :
        LET a == action(acts, s)
            self == IF a.nodefer THEN {} ELSE {s}
        IN /\ thread' = [ths EXCEPT ![t] =
                [blocked |-> sanitize_mask(ths[t].blocked \cup a.mask \cup self),
                 pending |-> ths[t].pending \ (skipped \cup {s}),
                 frame |-> [at |-> f, mask |-> ths[t].blocked]]]
           /\ actions' = ResetHand(acts, s)
           /\ want' = w /\ signalfd' = fds
           /\ UNCHANGED <<program, stage, halted>>
  BY Zenon DEF RunHandler
<1> DEFINE a == action(acts, s)
           self == IF a.nodefer THEN {} ELSE {s}
           fr == [at |-> f, mask |-> ths[t].blocked]
           th == [blocked |-> sanitize_mask(ths[t].blocked \cup a.mask \cup self),
                  pending |-> ths[t].pending \ (skipped \cup {s}), frame |-> fr]
           acts2 == ResetHand(acts, s)
<1>2. t \in Tids /\ ths[t] \in SlotType /\ ths[t].frame = Null
  BY Zenon DEF Ready, TableType, delivery_pending
<1>3. a \in ActionType
  BY DefaultType, Zenon DEF Ready, action
<1>4. fr \in FrameType
  BY <1>2, Zenon DEF FrameType, SlotType
<1>5. th \in SlotType
  BY <1>2, <1>3, <1>4, Zenon DEF SlotType, ActionType, sanitize_mask
<1>6. th # Null /\ th.frame # Null /\ th.frame.mask = ths[t].blocked
  BY <1>5, <1>4, NoneApart, Zenon
<1>7. MaskOK(th, w[t]) /\ NoKill(th, w[t])
  <2>1. ths[t] # Null /\ ths[t].blocked = w[t] /\ SIGKILL \notin w[t]
    BY <1>2, NoneApart, Zenon DEF Ready, MaskOK, NoKill
  <2>2. SIGKILL \notin th.blocked
    BY Zenon DEF sanitize_mask
  <2> QED
    BY <2>1, <2>2, <1>6, Zenon DEF MaskOK, NoKill
<1>8. acts2 \in [Sigs -> ActionType] \cup {Null}
  BY DefaultType, Zenon DEF Ready, ResetHand
<1>9. acts2 # Null /\ SIGKILL \in Sigs => acts2[SIGKILL] = Default
  BY Zenon DEF Ready, ResetHand
<1>10. thread' = [ths EXCEPT ![t] = th] /\ actions' = acts2
  BY <1>1, Zenon
<1> HIDE DEF th, acts2
<1> QED
  BY <1>1, <1>5, <1>6, <1>7, <1>8, <1>9, <1>10, InstallHolds, Zenon

\* Delivery keeps the invariant, whatever it finds.
LEMMA DeliveryHolds ==
  ASSUME IInv, NEW t, NEW ths, NEW acts, NEW fds, NEW w, Ready(t, ths, acts, fds, w),
         delivery_pending(ths[t]), begin_delivery(t, ths, acts, fds, w)
  PROVE  IInv'
<1> DEFINE th == ths[t]
           real == {s \in Candidates(th) : ~Ignored(acts, s)}
           none == [th EXCEPT !.pending = @ \ Candidates(th)]
<1>1. CASE /\ real = {}
           /\ thread' = [ths EXCEPT ![t] = none]
           /\ actions' = acts /\ want' = w /\ signalfd' = fds
           /\ UNCHANGED <<program, stage, halted>>
  <2>1. t \in Tids /\ th \in SlotType /\ th.frame = Null
    BY Zenon DEF Ready, TableType, delivery_pending
  <2>2. none \in SlotType /\ none.frame = Null /\ none.blocked = th.blocked
    BY <2>1, Zenon DEF SlotType
  <2>3. Candidates(none) = {}
    BY <2>1, <2>2, Zenon DEF Candidates, SlotType
  <2>4. MaskOK(none, w[t]) /\ NoKill(none, w[t])
    BY <2>1, <2>2, NoneApart, Zenon DEF Ready, MaskOK, NoKill
  <2>5. acts \in [Sigs -> ActionType] \cup {Null}
        /\ (acts # Null /\ SIGKILL \in Sigs => acts[SIGKILL] = Default)
    BY Zenon DEF Ready
  <2> HIDE DEF none
  <2> QED
    BY <1>1, <2>2, <2>3, <2>4, <2>5, InstallHolds, Zenon
<1>2. CASE \E s \in Sigs :
             \/ ExitCaller(t, ths, acts, fds)
             \/ ExitCaller(t, ths, ResetHand(acts, s), fds)
             \/ s # SIGKILL /\ \E skipped : RunHandler(t, ths, acts, fds, w, s, skipped)
  BY <1>2, ExitHolds, ReadyAfterReset, HandlerHolds, Zenon
<1> QED
  BY <1>1, <1>2, Zenon DEF begin_delivery

\* The invariant does not see the halt of the machine.
LEMMA SameStateHolds ==
  ASSUME IInv, halted' \in BOOLEAN, UNCHANGED <<program, stage, actions, thread, signalfd, want>>
  PROVE  IInv'
<1>1. SigTypeOK'
  BY Zenon DEF IInv, SigTypeOK
<1>2. SlotsAreLive' /\ DeliveredAtReturn'
  BY Zenon DEF IInv, SlotsAreLive, DeliveredAtReturn, Live, Candidates
<1>3. MaskRestored'
  BY Zenon DEF IInv, MaskRestored, Live
<1>4. Uncatchable' /\ \A t \in Tids : SIGKILL \notin want'[t]
  BY Zenon DEF IInv, Uncatchable
<1> QED
  BY <1>1, <1>2, <1>3, <1>4, Zenon DEF IInv

\* The return of a call keeps the invariant.
LEMMA ReturnHolds ==
  ASSUME IInv, NEW t, NEW ths, NEW acts, NEW fds, NEW w, Ready(t, ths, acts, fds, w),
         resume_linux_with_pending_signal(t, ths, acts, fds, w)
  PROVE  IInv'
<1>1. CASE halted' = TRUE /\ UNCHANGED <<program, stage, actions, thread, signalfd, want>>
  BY <1>1, SameStateHolds, Zenon
<1>2. CASE /\ ~delivery_pending(ths[t])
           /\ thread' = ths /\ actions' = acts /\ want' = w /\ signalfd' = fds
           /\ UNCHANGED <<program, stage, halted>>
  <2>1. t \in Tids /\ ths[t] \in SlotType \cup {Null} /\ ths = [ths EXCEPT ![t] = ths[t]]
    BY Zenon DEF Ready, TableType
  <2>2. ths[t] # Null /\ ths[t].frame = Null => Candidates(ths[t]) = {}
    BY <1>2, Zenon DEF delivery_pending
  <2>3. MaskOK(ths[t], w[t]) /\ NoKill(ths[t], w[t])
    BY Zenon DEF Ready
  <2>4. acts \in [Sigs -> ActionType] \cup {Null}
        /\ (acts # Null /\ SIGKILL \in Sigs => acts[SIGKILL] = Default)
    BY Zenon DEF Ready
  <2> QED
    BY <1>2, <2>1, <2>2, <2>3, <2>4, InstallHolds, Zenon
<1>3. CASE delivery_pending(ths[t]) /\ (\/ ExitCaller(t, ths, acts, fds)
                                        \/ begin_delivery(t, ths, acts, fds, w))
  BY <1>3, ExitHolds, DeliveryHolds, Zenon
<1> QED
  BY <1>1, <1>2, <1>3, Zenon DEF resume_linux_with_pending_signal

-----------------------------------------------------------------------------
\* A call that replaces the slot of the caller reaches its return ready.
LEMMA ReadySlot ==
  ASSUME IInv, NEW t \in Tids, stage[t] = "live", NEW th \in SlotType,
         NEW w \in [Tids -> SUBSET Sigs], \A u \in Tids \ {t} : w[u] = want[u],
         MaskOK(th, w[t]), NoKill(th, w[t])
  PROVE  Ready(t, [thread EXCEPT ![t] = th], actions, signalfd, w)
<1> DEFINE ths == [thread EXCEPT ![t] = th]
<1>1. Ready(t, thread, actions, signalfd, want)
  BY ReadyFromInv, Zenon
<1>2. ths \in TableType /\ ths[t] = th /\ \A u \in Tids \ {t} : ths[u] = thread[u]
  BY <1>1, Zenon DEF Ready, TableType
<1> HIDE DEF ths
<1>3. Ready(t, ths, actions, signalfd, w)
  BY <1>1, <1>2, Zenon DEF Ready
<1> QED
  BY <1>3, Zenon DEF ths

\* The slot a thread has, or would be given, fits the invariant.
LEMMA SlotFits ==
  ASSUME IInv, NEW t \in Tids, stage[t] = "live"
  PROVE  /\ Slot(t) \in SlotType /\ SIGKILL \notin Slot(t).blocked /\ SIGKILL \notin want[t]
         /\ Slot(t).frame = Null => Slot(t).blocked = want[t]
         /\ Slot(t).frame # Null => Slot(t).frame.mask = want[t]
         /\ want \in [Tids -> SUBSET Sigs]
<1>1. CASE thread[t] = Null
  BY <1>1, DefaultType, Zenon DEF Slot, EmptySlot, IInv, MaskRestored, Live, SigTypeOK
<1>2. CASE thread[t] # Null
  BY <1>2, Zenon DEF Slot, IInv, MaskRestored, Live, SigTypeOK, Uncatchable
<1> QED
  BY <1>1, <1>2, Zenon

LEMMA SigactionHolds ==
  ASSUME IInv, NEW t \in Tids, stage[t] = "live", NEW s \in Sigs, NEW a \in ActionType,
         Sigaction(t, s, a)
  PROVE  IInv'
<1> DEFINE acts == IF s = SIGKILL THEN actions ELSE set_action(s, a)
<1>1. Ready(t, thread, actions, signalfd, want)
  BY ReadyFromInv, Zenon
<1>2. \A x \in Sigs : action(actions, x) \in ActionType
  BY <1>1, DefaultType, Zenon DEF Ready, action
<1>3. [a EXCEPT !.mask = sanitize_mask(@)] \in ActionType
  BY Zenon DEF ActionType, sanitize_mask
<1>4. acts \in [Sigs -> ActionType] \cup {Null}
  BY <1>1, <1>2, <1>3, Zenon DEF Ready, set_action
<1>5. acts # Null /\ SIGKILL \in Sigs => acts[SIGKILL] = Default
  BY <1>1, Zenon DEF Ready, set_action, action
<1> HIDE DEF acts
<1>6. Ready(t, thread, acts, signalfd, want)
  BY <1>1, <1>4, <1>5, Zenon DEF Ready
<1>7. resume_linux_with_pending_signal(t, thread, acts, signalfd, want)
  BY Zenon DEF Sigaction, acts
<1> QED
  BY <1>6, <1>7, ReturnHolds, Zenon

LEMMA SigprocmaskHolds ==
  ASSUME IInv, NEW t \in Tids, stage[t] = "live", NEW op \in {"block", "unblock", "set"},
         NEW m \in SUBSET Sigs, Sigprocmask(t, op, m)
  PROVE  IInv'
<1> DEFINE new == update_mask(Slot(t).blocked, op, m)
           th == [Slot(t) EXCEPT !.blocked = new]
           w == IF th.frame = Null THEN [want EXCEPT ![t] = th.blocked] ELSE want
<1>1. Slot(t) \in SlotType /\ SIGKILL \notin Slot(t).blocked /\ SIGKILL \notin want[t]
      /\ (Slot(t).frame # Null => Slot(t).frame.mask = want[t])
      /\ want \in [Tids -> SUBSET Sigs]
  BY SlotFits, Zenon
<1>2. new \in SUBSET Sigs /\ SIGKILL \notin new
  BY <1>1, Zenon DEF update_mask, sanitize_mask, SlotType
<1>3. th \in SlotType /\ th.blocked = new /\ th.frame = Slot(t).frame
  BY <1>1, <1>2, Zenon DEF SlotType
<1>4. w \in [Tids -> SUBSET Sigs] /\ \A u \in Tids \ {t} : w[u] = want[u]
  BY <1>1, <1>2, <1>3, Zenon
<1>5. w[t] = IF th.frame = Null THEN new ELSE want[t]
  BY <1>1, <1>2, <1>3, Zenon
<1>6. MaskOK(th, w[t]) /\ NoKill(th, w[t])
  BY <1>1, <1>2, <1>3, <1>5, NoneApart, Zenon DEF MaskOK, NoKill
<1>7. resume_linux_with_pending_signal(t, [thread EXCEPT ![t] = th], actions, signalfd, w)
  BY Zenon DEF Sigprocmask
<1> HIDE DEF th, w
<1>8. Ready(t, [thread EXCEPT ![t] = th], actions, signalfd, w)
  BY <1>3, <1>4, <1>6, ReadySlot, Zenon
<1> QED
  BY <1>7, <1>8, ReturnHolds, Zenon

LEMMA KillHolds ==
  ASSUME IInv, NEW t \in Tids, stage[t] = "live", NEW s \in Sigs, Kill(t, s)
  PROVE  IInv'
<1> DEFINE th == [Slot(t) EXCEPT !.pending = @ \cup {s}]
<1>1. /\ Slot(t) \in SlotType /\ SIGKILL \notin Slot(t).blocked /\ SIGKILL \notin want[t]
      /\ Slot(t).frame = Null => Slot(t).blocked = want[t]
      /\ Slot(t).frame # Null => Slot(t).frame.mask = want[t]
      /\ want \in [Tids -> SUBSET Sigs]
  BY SlotFits, Zenon
<1>2. th \in SlotType /\ th.blocked = Slot(t).blocked /\ th.frame = Slot(t).frame
  BY <1>1, Zenon DEF SlotType
<1>3. MaskOK(th, want[t]) /\ NoKill(th, want[t])
  BY <1>1, <1>2, NoneApart, Zenon DEF MaskOK, NoKill
<1>4. resume_linux_with_pending_signal(t, [thread EXCEPT ![t] = th], actions, signalfd, want)
  BY Zenon DEF Kill
<1> HIDE DEF th
<1>5. Ready(t, [thread EXCEPT ![t] = th], actions, signalfd, want)
  BY <1>1, <1>2, <1>3, ReadySlot, Zenon
<1> QED
  BY <1>4, <1>5, ReturnHolds, Zenon

LEMMA SigreturnHolds ==
  ASSUME IInv, NEW t \in Tids, stage[t] = "live", NEW f \in Frames, NEW e \in BOOLEAN,
         NEW m \in SUBSET Sigs, Sigreturn(t, f, e, m)
  PROVE  IInv'
<1> DEFINE mask == IF e THEN m ELSE thread[t].frame.mask
           th == [thread[t] EXCEPT !.blocked = sanitize_mask(mask), !.frame = Null]
           ths == [thread EXCEPT ![t].blocked = sanitize_mask(mask), ![t].frame = Null]
           w == IF e THEN [want EXCEPT ![t] = sanitize_mask(m)] ELSE want
<1>1. CASE ExitCaller(t, thread, actions, signalfd)
  BY <1>1, ReadyFromInv, ExitHolds, Zenon
<1>2. CASE /\ Slot(t).frame # Null
           /\ resume_linux_with_pending_signal(t, ths, actions, signalfd, w)
  <2>1. thread[t] # Null /\ Slot(t) = thread[t] /\ thread \in TableType
    BY <1>2, Zenon DEF Slot, EmptySlot, IInv, SigTypeOK, TableType
  <2>2. thread[t] \in SlotType /\ SIGKILL \notin want[t] /\ want \in [Tids -> SUBSET Sigs]
        /\ thread[t].frame.mask = want[t]
    BY <1>2, <2>1, SlotFits, Zenon
  <2>3. sanitize_mask(mask) \in SUBSET Sigs /\ SIGKILL \notin sanitize_mask(mask)
    BY <2>2, Zenon DEF sanitize_mask
  <2>4. w \in [Tids -> SUBSET Sigs] /\ (\A u \in Tids \ {t} : w[u] = want[u])
        /\ w[t] = sanitize_mask(mask)
    BY <2>2, Zenon DEF sanitize_mask
  <2>5. th \in SlotType /\ th.blocked = sanitize_mask(mask) /\ th.frame = Null
    BY <2>2, <2>3, Zenon DEF SlotType
  <2>6. ths = [thread EXCEPT ![t] = th]
    BY <2>1, <2>2, Zenon DEF TableType, SlotType
  <2>7. MaskOK(th, w[t]) /\ NoKill(th, w[t])
    BY <2>3, <2>4, <2>5, NoneApart, Zenon DEF MaskOK, NoKill
  <2> HIDE DEF th, w, ths, mask
  <2>8. Ready(t, ths, actions, signalfd, w)
    BY <2>4, <2>5, <2>6, <2>7, ReadySlot, Zenon
  <2> QED
    BY <1>2, <2>8, ReturnHolds, Zenon
<1> QED
  BY <1>1, <1>2, Zenon DEF Sigreturn

LEMMA CloneHolds ==
  ASSUME IInv, NEW t \in Tids, stage[t] = "live", NEW c \in Tids, SigClone(t, c)
  PROVE  IInv'
<1>1. stage[c] = "new" /\ thread[c] = Null /\ thread \in TableType
      /\ want \in [Tids -> SUBSET Sigs] /\ stage \in [Tids -> {"new", "live", "zombie", "dead"}]
  BY Zenon DEF IInv, SlotsAreLive, SigClone, SigTypeOK, TableType
<1>2. CASE /\ stage' = [stage EXCEPT ![c] = "live"]
           /\ thread' = [thread EXCEPT ![c] = inherit_mask(t)]
           /\ want' = [want EXCEPT ![c] = Slot(t).blocked]
           /\ UNCHANGED <<actions, signalfd, program, halted>>
  <2> DEFINE th == inherit_mask(t)
  <2>1. Slot(t).blocked \in SUBSET Sigs /\ SIGKILL \notin Slot(t).blocked
    BY SlotFits, Zenon DEF SlotType
  <2>2. th \in SlotType /\ th.blocked = Slot(t).blocked /\ th.pending = {} /\ th.frame = Null
    BY <2>1, Zenon DEF inherit_mask, EmptySlot, SlotType
  <2>3. thread' \in TableType /\ thread'[c] = th /\ \A u \in Tids \ {c} : thread'[u] = thread[u]
    BY <1>1, <1>2, <2>2, Zenon DEF TableType
  <2>4. want' \in [Tids -> SUBSET Sigs] /\ want'[c] = Slot(t).blocked
        /\ \A u \in Tids \ {c} : want'[u] = want[u]
    BY <1>1, <1>2, <2>1, Zenon
  <2>5. stage' \in [Tids -> {"new", "live", "zombie", "dead"}] /\ stage'[c] = "live"
        /\ \A u \in Tids \ {c} : stage'[u] = stage[u]
    BY <1>1, <1>2, Zenon
  <2>6. Candidates(th) = {} /\ th # Null
    BY <2>2, NoneApart, Zenon DEF Candidates
  <2> HIDE DEF th
  <2>7. SigTypeOK'
    BY <1>2, <2>3, <2>4, <2>5, Zenon DEF IInv, SigTypeOK, TableType
  <2>8. SlotsAreLive'
    BY <2>3, <2>5, Zenon DEF IInv, SlotsAreLive
  <2>9. DeliveredAtReturn'
    BY <2>3, <2>5, <2>6 DEF IInv, DeliveredAtReturn, Live, Candidates
  <2>10. MaskRestored'
    BY <2>2, <2>3, <2>4, <2>5, <2>6 DEF IInv, MaskRestored, Live
  <2>11. Uncatchable' /\ \A u \in Tids : SIGKILL \notin want'[u]
    BY <1>2, <2>1, <2>2, <2>3, <2>4, Zenon DEF IInv, Uncatchable
  <2> QED
    BY <2>7, <2>8, <2>9, <2>10, <2>11, Zenon DEF IInv
<1>3. CASE /\ stage' = [stage EXCEPT ![c] = "dead"]
           /\ UNCHANGED <<actions, thread, signalfd, program, halted, want>>
  <2>1. stage' \in [Tids -> {"new", "live", "zombie", "dead"}] /\ stage'[c] = "dead"
        /\ \A u \in Tids \ {c} : stage'[u] = stage[u]
    BY <1>1, <1>3, Zenon
  <2>2. SigTypeOK' /\ SlotsAreLive'
    BY <1>1, <1>3, <2>1, Zenon DEF IInv, SigTypeOK, SlotsAreLive
  <2>3. DeliveredAtReturn' /\ MaskRestored'
    BY <1>1, <1>3, <2>1 DEF IInv, DeliveredAtReturn, MaskRestored, Live, Candidates
  <2>4. Uncatchable' /\ \A u \in Tids : SIGKILL \notin want'[u]
    BY <1>3, Zenon DEF IInv, Uncatchable
  <2> QED
    BY <2>2, <2>3, <2>4, Zenon DEF IInv
<1> QED
  BY <1>2, <1>3, Zenon DEF SigClone

LEMMA ExitGroupHolds ==
  ASSUME IInv, NEW t \in Tids, SigExitGroup(t)
  PROVE  IInv'
<1>1. CASE halted' = TRUE /\ UNCHANGED <<stage, actions, thread, program, signalfd, want>>
  BY <1>1, SameStateHolds, Zenon
<1>2. CASE /\ stage' = [u \in Tids |-> IF u = Leader THEN "zombie"
                                       ELSE IF u \in SigMembers THEN "dead" ELSE stage[u]]
           /\ thread' = [u \in Tids |-> IF u \in SigMembers THEN Null ELSE thread[u]]
           /\ actions' = Null /\ signalfd' = [f \in Fds |-> Null]
           /\ want' = [u \in Tids |-> {}]
           /\ UNCHANGED <<program, halted>>
  <2>1. SigTypeOK'
    BY <1>2, Zenon DEF IInv, SigTypeOK
  <2>2. \A u \in Tids : thread'[u] = Null /\ stage'[u] # "live"
    BY <1>2, Zenon DEF IInv, SlotsAreLive, SigMembers
  <2>3. SlotsAreLive' /\ DeliveredAtReturn' /\ MaskRestored' /\ Uncatchable'
    BY <1>2, <2>2, Zenon DEF SlotsAreLive, DeliveredAtReturn, MaskRestored, Uncatchable, Live
  <2> QED
    BY <1>2, <2>1, <2>3, Zenon DEF IInv
<1> QED
  BY <1>1, <1>2, Zenon DEF SigExitGroup

LEMMA ExecveHolds ==
  ASSUME IInv, NEW t \in Tids, stage[t] = "live", SigExecve(t)
  PROVE  IInv'
<1> DEFINE th == reset_for_exec(thread[t])
<1>1. thread \in TableType /\ want \in [Tids -> SUBSET Sigs]
      /\ stage' = stage /\ halted' = halted /\ program' = program
  BY Zenon DEF IInv, SigTypeOK, TableType, SigExecve
<1>2. Slot(t) \in SlotType /\ SIGKILL \notin Slot(t).blocked
  BY SlotFits, Zenon
<1>3. th \in SlotType \cup {Null} /\ (th = Null <=> thread[t] = Null)
      /\ (th # Null => th.blocked = Slot(t).blocked /\ th.pending = {} /\ th.frame = Null)
  BY <1>1, <1>2, NoneApart, Zenon DEF reset_for_exec, Slot, SlotType
<1>4. thread' \in TableType /\ thread'[t] = th /\ \A u \in Tids \ {t} : thread'[u] = thread[u]
  BY <1>1, <1>3, Zenon DEF SigExecve, TableType
<1>5. want' \in [Tids -> SUBSET Sigs] /\ want'[t] = Slot(t).blocked
      /\ \A u \in Tids \ {t} : want'[u] = want[u]
  BY <1>1, <1>2, Zenon DEF SigExecve, SlotType
<1>6. actions' \in [Sigs -> ActionType] \cup {Null}
      /\ (actions' # Null /\ SIGKILL \in Sigs => actions'[SIGKILL] = Default)
  BY DefaultType, NoneApart, Zenon DEF IInv, SigTypeOK, Uncatchable, SigExecve
<1>7. signalfd' \in FdType
  BY Zenon DEF IInv, SigTypeOK, SigExecve, FdType
<1>8. th # Null => Candidates(th) = {}
  BY <1>3, Zenon DEF Candidates
<1>9. th = Null => Slot(t).blocked = {}
  BY <1>3, Zenon DEF Slot, EmptySlot
<1> HIDE DEF th
<1>10. SigTypeOK'
  BY <1>1, <1>4, <1>5, <1>6, <1>7, Zenon DEF IInv, SigTypeOK, TableType, FdType
<1>11. SlotsAreLive' /\ DeliveredAtReturn'
  BY <1>1, <1>3, <1>4, <1>8 DEF IInv, SlotsAreLive, DeliveredAtReturn, Live, Candidates
<1>12. MaskRestored'
  BY <1>1, <1>3, <1>4, <1>5, <1>9 DEF IInv, MaskRestored, Live
<1>13. Uncatchable' /\ \A u \in Tids : SIGKILL \notin want'[u]
  BY <1>2, <1>3, <1>4, <1>5, <1>6, Zenon DEF IInv, Uncatchable
<1> QED
  BY <1>10, <1>11, <1>12, <1>13, Zenon DEF IInv

\* The calls on signalfd objects.
LEMMA SignalfdHolds ==
  ASSUME IInv, NEW t \in Tids, stage[t] = "live", NEW f \in Fds,
         \/ \E m \in SUBSET Sigs, c \in BOOLEAN : SignalfdCreate(t, f, m, c)
         \/ \E m \in SUBSET Sigs : SignalfdUpdate(t, f, m)
         \/ SignalfdClose(t, f)
         \/ \E s \in Sigs : SignalfdRead(t, f, s)
  PROVE  IInv'
<1>1. Ready(t, thread, actions, signalfd, want)
  BY ReadyFromInv, Zenon
<1>2. CASE \E fds \in FdType : resume_linux_with_pending_signal(t, thread, actions, fds, want)
  <2>1. PICK fds \in FdType : resume_linux_with_pending_signal(t, thread, actions, fds, want)
    BY <1>2, Zenon
  <2>2. Ready(t, thread, actions, fds, want)
    BY <1>1, Zenon DEF Ready
  <2> QED
    BY <2>1, <2>2, ReturnHolds, Zenon
<1>3. ASSUME NEW s \in Sigs, SignalfdRead(t, f, s) PROVE IInv'
  <2> DEFINE th == dequeue_for_signalfd(thread[Leader], s)
             ths == [thread EXCEPT ![Leader] = dequeue_for_signalfd(@, s)]
  <2>1. thread[Leader] # Null /\ Leader \in Tids /\ thread \in TableType
    BY <1>3, SigConstants, Zenon DEF SignalfdRead, IInv, SigTypeOK, TableType
  <2>2. thread[Leader] \in SlotType
    BY <2>1, Zenon DEF TableType
  <2>3. th \in SlotType /\ th.blocked = thread[Leader].blocked /\ th.frame = thread[Leader].frame
        /\ Candidates(th) \subseteq Candidates(thread[Leader])
    BY <2>2, Zenon DEF dequeue_for_signalfd, SlotType, Candidates
  <2>4. ths \in TableType /\ ths[Leader] = th /\ \A u \in Tids \ {Leader} : ths[u] = thread[u]
    BY <2>1, <2>2, <2>3, Zenon DEF TableType
  <2>5. th # Null
    BY <2>3, NoneApart, Zenon
  <2> HIDE DEF th, ths
  <2>6. \A u \in Tids : MaskOK(thread[u], want[u]) => MaskOK(ths[u], want[u])
    BY <2>1, <2>3, <2>4, <2>5, Zenon DEF MaskOK
  <2>7. \A u \in Tids : NoKill(thread[u], want[u]) => NoKill(ths[u], want[u])
    BY <2>1, <2>3, <2>4, <2>5, Zenon DEF NoKill
  <2>8. \A u \in Tids \ {t} : ths[u] # Null /\ ths[u].frame = Null => Candidates(ths[u]) = {}
    BY <1>1, <2>1, <2>3, <2>4, Zenon DEF Ready
  <2>9. \A u \in Tids : ths[u] # Null => stage[u] = "live"
    BY <1>1, <2>1, <2>4, Zenon DEF Ready
  <2>10. Ready(t, ths, actions, signalfd, want)
    BY <1>1, <2>4, <2>6, <2>7, <2>8, <2>9, Zenon DEF Ready
  <2>11. resume_linux_with_pending_signal(t, ths, actions, signalfd, want)
    BY <1>3, Zenon DEF SignalfdRead, ths
  <2> QED
    BY <2>10, <2>11, ReturnHolds, Zenon
<1>4. signalfd \in FdType
  BY <1>1, Zenon DEF Ready
<1>5. \A m \in SUBSET Sigs, c \in BOOLEAN :
        [signalfd EXCEPT ![f] = [mask |-> m, cloexec |-> c]] \in FdType
  BY <1>4, Zenon DEF FdType
<1>6. [signalfd EXCEPT ![f] = Null] \in FdType
  BY <1>4, Zenon DEF FdType
<1>7. signalfd[f] # Null => \A m \in SUBSET Sigs : [signalfd EXCEPT ![f].mask = m] \in FdType
  BY <1>4, Zenon DEF FdType
<1> QED
  BY <1>2, <1>3, <1>5, <1>6, <1>7, Zenon DEF SignalfdCreate, SignalfdUpdate, SignalfdClose

-----------------------------------------------------------------------------
\* Every step of the specification keeps the invariant.
LEMMA NextHolds == IInv /\ [SigNext]_sigVars => IInv'
<1> SUFFICES ASSUME IInv, [SigNext]_sigVars PROVE IInv'
  BY Zenon
<1>1. CASE UNCHANGED sigVars
  BY <1>1, SameStateHolds, Zenon DEF sigVars, IInv, SigTypeOK
<1>2. CASE Reap
  <2>1. stage' \in [Tids -> {"new", "live", "zombie", "dead"}]
        /\ \A u \in Tids : stage'[u] = "live" <=> stage[u] = "live"
    BY <1>2, Zenon DEF Reap, IInv, SigTypeOK
  <2>2. SigTypeOK'
    BY <1>2, <2>1, Zenon DEF Reap, IInv, SigTypeOK
  <2>3. SlotsAreLive' /\ DeliveredAtReturn'
    BY <1>2, <2>1 DEF Reap, IInv, SlotsAreLive, DeliveredAtReturn, Live, Candidates
  <2>4. MaskRestored'
    BY <1>2, <2>1, Zenon DEF Reap, IInv, MaskRestored, Live
  <2>5. Uncatchable' /\ \A t \in Tids : SIGKILL \notin want'[t]
    BY <1>2, Zenon DEF Reap, IInv, Uncatchable
  <2> QED
    BY <2>2, <2>3, <2>4, <2>5, Zenon DEF IInv
<1>3. ASSUME NEW t \in Live, Call(t) PROVE IInv'
  <2> t \in Tids /\ stage[t] = "live"
    BY Zenon DEF Live
  <2>1. program \in ProgramType
    BY SigConstants, Zenon DEF IInv, SigTypeOK
  <2>2. program.acts \subseteq ActionType /\ program.masks \subseteq SUBSET Sigs
        /\ program.sigs \subseteq Sigs /\ program.fds \subseteq Fds
    BY <2>1, Zenon DEF ProgramType
  <2>3. CASE \E s \in program.sigs, a \in program.acts : Sigaction(t, s, a)
    BY <2>2, <2>3, SigactionHolds, Zenon
  <2>4. CASE \E op \in {"block", "unblock", "set"}, m \in program.masks : Sigprocmask(t, op, m)
    BY <2>2, <2>4, SigprocmaskHolds, Zenon
  <2>5. CASE \E s \in program.sigs : Kill(t, s)
    BY <2>2, <2>5, KillHolds, Zenon
  <2>6. CASE \E f \in Frames, m \in program.masks, e \in BOOLEAN : Sigreturn(t, f, e, m)
    BY <2>2, <2>6, SigreturnHolds, Zenon
  <2>7. CASE \E c \in Tids : SigClone(t, c)
    BY <2>7, CloneHolds, Zenon
  <2>8. CASE Exit(t)
    BY <2>8, ReadyFromInv, ExitHolds, Zenon DEF Exit
  <2>9. CASE SigExitGroup(t) \/ SigExecve(t)
    BY <2>9, ExitGroupHolds, ExecveHolds, Zenon
  <2>10. CASE \E f \in program.fds :
                \/ \E m \in program.masks :
                     SignalfdUpdate(t, f, m) \/ \E c \in BOOLEAN : SignalfdCreate(t, f, m, c)
                \/ SignalfdClose(t, f)
                \/ \E s \in Sigs : SignalfdRead(t, f, s)
    BY <2>2, <2>10, SignalfdHolds, Zenon
  <2> QED
    BY <1>3, <2>3, <2>4, <2>5, <2>6, <2>7, <2>8, <2>9, <2>10, Zenon DEF Call
<1> QED
  BY <1>1, <1>2, <1>3, Zenon DEF SigNext

LEMMA InvHolds == SigSpec => []IInv
BY InitHolds, NextHolds, PTL DEF SigSpec

\* The tables keep their types.
THEOREM SignalTypes == SigSpec => []SigTypeOK
BY InvHolds, PTL DEF IInv

\* No slot outlives its thread (clear_thread), whatever way the thread ends.
THEOREM SignalSlots == SigSpec => []SlotsAreLive
BY InvHolds, PTL DEF IInv

\* No call returns to a program with a signal it should have delivered
\* (resume_linux_with_pending_signal).
THEOREM SignalDelivery == SigSpec => []DeliveredAtReturn
BY InvHolds, PTL DEF IInv

\* A handler leaves no trace in the mask (begin_delivery, finish_sigreturn).
THEOREM SignalMasks == SigSpec => []MaskRestored
BY InvHolds, PTL DEF IInv

\* SIGKILL is never masked or caught (sanitize_mask, set_action).
THEOREM SignalKill == SigSpec => []Uncatchable
BY InvHolds, PTL DEF IInv

\* The thread table is exact through every call and every way to end.
THEOREM SignalTable == SigSpec => []MasksExact
<1>1. SigTypeOK /\ SlotsAreLive /\ MaskRestored /\ Uncatchable => MasksExact
  BY Zenon DEF MasksExact
<1> QED
  BY <1>1, SignalTypes, SignalSlots, SignalMasks, SignalKill, PTL

-----------------------------------------------------------------------------
(* Timers.                                                                 *)

\* What is stored of setting a when m expirations have been counted.
Counted(t, a, m, n) ==
  /\ a.first = 0 => m = 0 /\ t.next = 0
  /\ a.first # 0 /\ a.interval = 0 =>
       \/ m = 0 /\ t.next = a.first
       \/ m = 1 /\ t.next = 0 /\ a.first <= n
  /\ a.first # 0 /\ a.interval # 0 =>
       /\ t.next = saturating(a.first + m * a.interval)
       /\ m > 0 => a.first + (m - 1) * a.interval <= n

\* The setting and the counts of a slot, when the clock shows n.
Counts(t, a, k, n) ==
  /\ t \in TimerType /\ k \in Nat
  /\ a \in [first : 0 .. MaxTime, interval : 0 .. MaxTime]
  /\ a.first # 0 => t.interval = a.interval
  /\ Counted(t, a, t.expirations + k, n)

\* A report leaves no generation behind that could come back.
Watched(t, sn, fl) ==
  /\ sn \in Nat /\ sn <= t.gen
  /\ fl /\ t.expirations # 0 => sn < t.gen

TimerInv ==
  /\ now \in 1 .. MaxNow
  /\ timer \in [Timers -> TimerType \cup {NoTimer}]
  /\ DOMAIN armed = Timers /\ DOMAIN taken = Timers /\ DOMAIN seen = Timers /\ fell \in [Timers -> BOOLEAN]
  /\ \A s \in Timers : timer[s] # NoTimer =>
       Counts(timer[s], armed[s], taken[s], now) /\ Watched(timer[s], seen[s], fell[s])

-----------------------------------------------------------------------------
\* Products keep the order of their factors.
LEMMA Grows ==
  ASSUME NEW a \in Nat, NEW b \in Nat, NEW c \in Nat, a <= b
  PROVE  a * c <= b * c /\ a * c \in Nat /\ b * c \in Nat
<1>1. PICK d \in Nat : b = a + d
  <2> WITNESS b - a \in Nat
  <2> QED OBVIOUS
<1>2. b * c = a * c + d * c
  BY <1>1
<1>3. d * c \in Nat /\ a * c \in Nat
  OBVIOUS
<1> QED BY <1>2, <1>3

\* The whole intervals in a span.
LEMMA Spans ==
  ASSUME NEW z \in Nat, NEW i \in Nat \ {0}
  PROVE  /\ z \div i \in Nat
         /\ (z \div i) * i <= z /\ z < (z \div i) * i + i
<1>1. z = (z \div i) * i + (z % i) /\ z % i \in 0 .. i - 1 /\ z \div i \in Int
  OBVIOUS
<1>2. z \div i \in Nat
  OBVIOUS
<1> QED BY <1>1, <1>2

\* The expirations counted are at most one for each time there has been.
LEMMA Few ==
  ASSUME NEW f \in Nat \ {0}, NEW i \in Nat \ {0}, NEW m \in Nat \ {0}, NEW n \in Nat, f + (m - 1) * i <= n
  PROVE  m <= n
<1>1. (m - 1) * 1 <= (m - 1) * i
  <2>1. m - 1 \in Nat
    OBVIOUS
  <2>2. PICK x \in Nat : x = m - 1
    BY <2>1, Zenon
  <2>3. 1 * x <= i * x
    BY Grows
  <2> QED BY <2>2, <2>3
<1>2. (m - 1) * i \in Int
  OBVIOUS
<1> QED BY <1>1, <1>2

\* One more turn is one more interval.
LEMMA Turned ==
  ASSUME NEW m \in Nat, NEW q \in Nat, NEW i \in Nat
  PROVE  /\ (m + (q + 1)) * i = m * i + (q * i + i)
         /\ ((m + (q + 1)) - 1) * i = m * i + q * i
         /\ i * (q + 1) = q * i + i
         /\ m * i \in Nat /\ q * i \in Nat
OBVIOUS

\* What a refresh does to the fields of a slot that is due.
LEMMA RefreshFields ==
  ASSUME NEW t \in TimerType, t.next # 0, now >= t.next, now \in Nat,
         NEW c, c = IF t.interval = 0 THEN 1 ELSE saturating((now - t.next) \div t.interval + 1)
  PROVE  /\ refresh(t).interval = t.interval /\ refresh(t).cloexec = t.cloexec
         /\ refresh(t).expirations = saturating(t.expirations + c)
         /\ refresh(t).gen = (IF t.expirations = 0 THEN t.gen + 1 ELSE t.gen)
         /\ refresh(t).next = (IF t.interval = 0 THEN 0 ELSE saturating(t.next + saturating(t.interval * c)))
         /\ refresh(t) = [t EXCEPT !.expirations = saturating(t.expirations + c),
                            !.gen = IF t.expirations = 0 THEN t.gen + 1 ELSE t.gen,
                            !.next = IF t.interval = 0 THEN 0 ELSE saturating(t.next + saturating(t.interval * c))]
<1>1. now \in Nat /\ t.next \in Nat /\ ~(t.next = 0 \/ now < t.next)
  BY DEF TimerType
<1>2. refresh(t) = [t EXCEPT !.expirations = saturating(t.expirations + c),
                       !.gen = IF t.expirations = 0 THEN t.gen + 1 ELSE t.gen,
                       !.next = IF t.interval = 0 THEN 0 ELSE saturating(t.next + saturating(t.interval * c))]
  BY <1>1, Zenon DEF refresh
<1> QED BY <1>2, Zenon DEF TimerType

\* A slot that is not due stays as it is.
LEMMA RefreshIdle ==
  ASSUME NEW t, t.next = 0 \/ now < t.next
  PROVE  refresh(t) = t
BY Zenon DEF refresh

\* A saturating sum is the sum or the limit, and the limit only beyond it.
LEMMA Saturates ==
  ASSUME NEW z \in Nat
  PROVE  /\ saturating(z) \in Nat /\ saturating(z) <= MaxTime
         /\ saturating(z) < MaxTime => saturating(z) = z
         /\ z <= MaxTime => saturating(z) = z
         /\ z >= MaxTime => saturating(z) = MaxTime
BY TfdConstants DEF saturating

\* The refresh of a periodic timer counts every interval that has passed and
\* leaves the next one in the future.
LEMMA RefreshPeriodic ==
  ASSUME now \in 1 .. MaxNow, NEW t \in TimerType, NEW f \in Nat \ {0}, NEW i \in Nat \ {0}, NEW k \in Nat, NEW m \in Nat,
         m = t.expirations + k, t.interval = i, t.next = saturating(f + m * i), t.next # 0, now >= t.next
  PROVE  LET r == refresh(t)
         IN /\ r \in TimerType /\ r.interval = i /\ r.expirations > t.expirations
            /\ r.gen = (IF t.expirations = 0 THEN t.gen + 1 ELSE t.gen)
            /\ r.next = saturating(f + (r.expirations + k) * i)
            /\ f + ((r.expirations + k) - 1) * i <= now
            /\ now < r.next
<1> DEFINE q == (now - t.next) \div i
<1>1. /\ now \in Nat /\ now < MaxTime /\ MaxTime \in Nat /\ t.next \in Nat /\ t.expirations \in Nat
      /\ now - t.next \in Nat
  BY TfdConstants DEF TimerType
<1>2. m * i \in Nat
  OBVIOUS
<1>3. t.next = f + m * i
  BY <1>1, <1>2, Saturates
<1>4. q \in Nat /\ q * i <= now - t.next /\ now - t.next < q * i + i
  BY <1>1, Spans, Zenon
<1> HIDE DEF q
<1>5. /\ (m + (q + 1)) * i = m * i + (q * i + i) /\ ((m + (q + 1)) - 1) * i = m * i + q * i
      /\ i * (q + 1) = q * i + i /\ q * i \in Nat
  BY <1>4, Turned
<1>6. f + ((m + (q + 1)) - 1) * i <= now
  BY <1>1, <1>2, <1>3, <1>4, <1>5
<1>7. m + (q + 1) <= now
  <2>1. PICK x \in Nat \ {0} : x = m + (q + 1)
    BY <1>4
  <2>2. f + (x - 1) * i <= now
    BY <1>6, <2>1, Zenon
  <2> QED BY <1>1, <2>1, <2>2, Few, Zenon
<1>8. saturating(q + 1) = q + 1 /\ saturating(t.expirations + (q + 1)) = t.expirations + (q + 1)
  BY <1>1, <1>4, <1>7, Saturates
<1>9. q + 1 = IF t.interval = 0 THEN 1 ELSE saturating((now - t.next) \div t.interval + 1)
  BY <1>8, Zenon DEF q
<1>10. /\ refresh(t).interval = i /\ refresh(t).cloexec = t.cloexec
       /\ refresh(t).expirations = t.expirations + (q + 1)
       /\ refresh(t).gen = (IF t.expirations = 0 THEN t.gen + 1 ELSE t.gen)
       /\ refresh(t).next = saturating(t.next + saturating(i * (q + 1)))
       /\ refresh(t) = [t EXCEPT !.expirations = t.expirations + (q + 1),
                          !.gen = IF t.expirations = 0 THEN t.gen + 1 ELSE t.gen,
                          !.next = saturating(t.next + saturating(i * (q + 1)))]
  <2> DEFINE c == q + 1
  <2>1. c = IF t.interval = 0 THEN 1 ELSE saturating((now - t.next) \div t.interval + 1)
    BY <1>9, Zenon
  <2>2. /\ refresh(t).interval = t.interval /\ refresh(t).cloexec = t.cloexec
        /\ refresh(t).expirations = saturating(t.expirations + c)
        /\ refresh(t).gen = (IF t.expirations = 0 THEN t.gen + 1 ELSE t.gen)
        /\ refresh(t).next = (IF t.interval = 0 THEN 0 ELSE saturating(t.next + saturating(t.interval * c)))
        /\ refresh(t) = [t EXCEPT !.expirations = saturating(t.expirations + c),
                           !.gen = IF t.expirations = 0 THEN t.gen + 1 ELSE t.gen,
                           !.next = IF t.interval = 0 THEN 0 ELSE saturating(t.next + saturating(t.interval * c))]
    <3> HIDE DEF c
    <3> QED BY <1>1, <2>1, RefreshFields, Zenon
  <2> QED BY <1>8, <2>2, Zenon
<1>11. saturating(t.next + saturating(i * (q + 1))) = saturating(f + (m + (q + 1)) * i)
  <2>1. PICK y \in Nat : y = i * (q + 1) /\ f + (m + (q + 1)) * i = t.next + y
    BY <1>2, <1>3, <1>4, <1>5
  <2>2. saturating(t.next + saturating(y)) = saturating(t.next + y)
    BY <1>1 DEF saturating
  <2> QED BY <2>1, <2>2, Zenon
<1>12. now < saturating(f + (m + (q + 1)) * i)
  <2>1. now < f + (m + (q + 1)) * i /\ f + (m + (q + 1)) * i \in Nat
    BY <1>1, <1>2, <1>3, <1>4, <1>5
  <2> QED BY <1>1, <2>1, Zenon DEF saturating
<1>13. refresh(t) \in TimerType
  <2>1. t.next + saturating(i * (q + 1)) \in Nat
    BY <1>1, <1>4, <1>5, Saturates
  <2>2. saturating(t.next + saturating(i * (q + 1))) \in Nat
    BY <2>1, Saturates, Zenon
  <2>3. t.gen \in Nat
    BY Zenon DEF TimerType
  <2>4. (IF t.expirations = 0 THEN t.gen + 1 ELSE t.gen) \in Nat /\ t.expirations + (q + 1) \in Nat
    BY <1>1, <1>4, <2>3
  <2> QED BY <1>10, <2>2, <2>4, Zenon DEF TimerType
<1>14. refresh(t).expirations + k = m + (q + 1)
  BY <1>1, <1>4, <1>10
<1> QED
  BY <1>1, <1>4, <1>6, <1>10, <1>11, <1>12, <1>13, <1>14

\* Nothing is due any more.
Settled(t) == t.next = 0 \/ now < t.next

\* A refresh keeps the account and settles it; it renews the generation of a
\* slot that becomes readable, and of no other.
LEMMA RefreshKeeps ==
  ASSUME now \in 1 .. MaxNow, NEW t, NEW a, NEW k, Counts(t, a, k, now)
  PROVE  /\ Counts(refresh(t), a, k, now) /\ Settled(refresh(t))
         /\ refresh(t).gen \in Nat /\ refresh(t).expirations \in Nat
         /\ t.expirations # 0 => refresh(t).gen = t.gen /\ refresh(t).expirations # 0
         /\ t.expirations = 0 /\ refresh(t).expirations # 0 => refresh(t).gen = t.gen + 1
         /\ refresh(t).gen >= t.gen
<1>1. /\ t \in TimerType /\ k \in Nat /\ a.first \in Nat /\ a.interval \in Nat /\ now \in Nat
      /\ t.next \in Nat /\ t.gen \in Nat /\ t.expirations \in Nat /\ now < MaxTime /\ MaxTime \in Nat
  BY TfdConstants DEF Counts, TimerType
<1>2. CASE t.next = 0 \/ now < t.next
  <2>1. refresh(t) = t
    BY <1>2, RefreshIdle, Zenon
  <2> QED BY <1>1, <1>2, <2>1 DEF Settled
<1>3. CASE t.next # 0 /\ now >= t.next
  <2>1. a.first # 0 /\ t.interval = a.interval
    BY <1>3, Zenon DEF Counts, Counted
  <2>2. CASE a.interval = 0
    <3>1. t.expirations = 0 /\ k = 0 /\ t.next = a.first
      <4>1. t.expirations + k = 0 /\ t.next = a.first
        BY <1>3, <2>1, <2>2, Zenon DEF Counts, Counted
      <4> QED BY <1>1, <4>1
    <3>2. saturating(1) = 1
      BY <1>1, Saturates
    <3>3. /\ refresh(t).interval = t.interval /\ refresh(t).expirations = 1 /\ refresh(t).next = 0
          /\ refresh(t).gen = t.gen + 1
          /\ refresh(t) = [t EXCEPT !.expirations = 1, !.gen = t.gen + 1, !.next = 0]
      <4>1. PICK c \in Nat : c = 1 /\ c = IF t.interval = 0 THEN 1 ELSE saturating((now - t.next) \div t.interval + 1)
        BY <2>1, <2>2, SMTT(30)
      <4>2. /\ refresh(t).interval = t.interval /\ refresh(t).expirations = saturating(t.expirations + c)
            /\ refresh(t).gen = (IF t.expirations = 0 THEN t.gen + 1 ELSE t.gen)
            /\ refresh(t).next = (IF t.interval = 0 THEN 0 ELSE saturating(t.next + saturating(t.interval * c)))
            /\ refresh(t) = [t EXCEPT !.expirations = saturating(t.expirations + c),
                              !.gen = IF t.expirations = 0 THEN t.gen + 1 ELSE t.gen,
                              !.next = IF t.interval = 0 THEN 0 ELSE saturating(t.next + saturating(t.interval * c))]
        BY <1>1, <1>3, <4>1, RefreshFields, ZenonT(40)
      <4>3. /\ saturating(t.expirations + c) = 1 /\ (IF t.expirations = 0 THEN t.gen + 1 ELSE t.gen) = t.gen + 1
            /\ (IF t.interval = 0 THEN 0 ELSE saturating(t.next + saturating(t.interval * c))) = 0
        BY <2>1, <2>2, <3>1, <3>2, <4>1
      <4> QED BY <4>2, <4>3, Zenon
    <3>4. refresh(t) \in TimerType
      <4>1. PICK g \in Nat : g = t.gen + 1
        BY <1>1
      <4>2. [t EXCEPT !.expirations = 1, !.gen = g, !.next = 0] \in TimerType
        BY <1>1, Zenon DEF TimerType
      <4> QED BY <3>3, <4>1, <4>2, Zenon
    <3>5. Counted(refresh(t), a, 1, now)
      BY <1>3, <2>1, <2>2, <3>1, <3>3, Zenon DEF Counted
    <3>6. refresh(t).expirations + k = 1
      BY <3>1, <3>3
    <3>7. a \in [first : 0 .. MaxTime, interval : 0 .. MaxTime]
      BY Zenon DEF Counts
    <3>8. Counts(refresh(t), a, k, now)
      BY <1>1, <2>1, <3>3, <3>4, <3>5, <3>6, <3>7, Zenon DEF Counts
    <3> QED BY <1>1, <3>1, <3>3, <3>8 DEF Settled
  <2>3. CASE a.interval # 0
    <3>1. PICK m \in Nat : m = t.expirations + k /\ t.next = saturating(a.first + m * a.interval)
      BY <1>1, <2>1, <2>3 DEF Counts, Counted
    <3>2. /\ refresh(t) \in TimerType /\ refresh(t).interval = a.interval /\ refresh(t).expirations > t.expirations
          /\ refresh(t).gen = (IF t.expirations = 0 THEN t.gen + 1 ELSE t.gen)
          /\ refresh(t).next = saturating(a.first + (refresh(t).expirations + k) * a.interval)
          /\ a.first + ((refresh(t).expirations + k) - 1) * a.interval <= now
          /\ now < refresh(t).next
      BY <1>1, <1>3, <2>1, <2>3, <3>1, RefreshPeriodic
    <3>3. Counted(refresh(t), a, refresh(t).expirations + k, now)
      BY <2>1, <2>3, <3>2, Zenon DEF Counted
    <3>4. Counts(refresh(t), a, k, now)
      BY <1>1, <3>2, <3>3, Zenon DEF Counts
    <3> QED
      BY <1>1, <3>2, <3>4 DEF Settled, TimerType
  <2> QED BY <2>2, <2>3, Zenon
<1> QED BY <1>1, <1>2, <1>3

\* A settled account is the number of expirations that are due.
LEMMA SettledIsDue ==
  ASSUME now \in 1 .. MaxNow, NEW t, NEW a, NEW k, Counts(t, a, k, now), Settled(t)
  PROVE  t.expirations + k = Due(a)
<1>1. /\ t \in TimerType /\ k \in Nat /\ a.first \in Nat /\ a.interval \in Nat /\ now \in Nat
      /\ t.next \in Nat /\ t.expirations \in Nat /\ now < MaxTime /\ MaxTime \in Nat /\ now <= MaxNow /\ MaxNow \in Nat
  BY TfdConstants DEF Counts, TimerType
<1>2. PICK m \in Nat : m = t.expirations + k /\ Counted(t, a, m, now)
  BY <1>1 DEF Counts
<1>3. CASE a.first = 0 \/ a.interval = 0
  BY <1>1, <1>2, <1>3 DEF Counted, Due, Settled
<1>4. CASE a.first # 0 /\ a.interval # 0
  <2> DEFINE S == {j \in 0 .. MaxNow : a.first + j * a.interval <= now}
  <2>1. /\ m * a.interval \in Nat /\ t.next = saturating(a.first + m * a.interval)
        /\ m > 0 => a.first + (m - 1) * a.interval <= now
    BY <1>1, <1>2, <1>4 DEF Counted
  <2>2. now < a.first + m * a.interval
    <3>1. saturating(a.first + m * a.interval) # 0
      BY <1>1, <1>4, <2>1 DEF saturating
    <3>2. now < saturating(a.first + m * a.interval)
      BY <2>1, <3>1, Zenon DEF Settled
    <3> QED BY <1>1, <2>1, <3>2 DEF saturating
  <2>3. m <= now
    BY <1>1, <1>4, <2>1, Few
  <2>4. ASSUME NEW j \in 0 .. MaxNow
        PROVE  a.first + j * a.interval <= now <=> j <= m - 1
    <3>1. j * a.interval \in Nat
      BY <1>1
    <3>2. CASE j >= m
      <4>1. m * a.interval <= j * a.interval
        BY <1>1, <3>2, Grows
      <4> QED BY <1>1, <2>1, <2>2, <3>1, <3>2, <4>1
    <3>3. CASE j < m
      <4>1. PICK x \in Nat : x = m - 1 /\ j <= x
        BY <1>1, <3>3
      <4>2. j * a.interval <= x * a.interval /\ x * a.interval \in Nat
        BY <1>1, <4>1, Grows
      <4>3. a.first + x * a.interval <= now
        BY <2>1, <3>3, <4>1
      <4> QED BY <1>1, <3>1, <4>1, <4>2, <4>3
    <3> QED BY <1>1, <3>2, <3>3
  <2>5. S = 0 .. m - 1
    <3>1. ASSUME NEW j PROVE j \in S <=> j \in 0 .. m - 1
      BY <1>1, <2>3, <2>4
    <3> HIDE DEF S
    <3> QED BY <3>1, Zenon
  <2>6. Cardinality(0 .. m - 1) = m
    <3>1. Cardinality(0 .. m - 1) = IF 0 > m - 1 THEN 0 ELSE (m - 1) - 0 + 1
      BY FS_Interval
    <3> QED BY <3>1
  <2>7. Due(a) = Cardinality(S)
    BY <1>4, Zenon DEF Due
  <2> QED BY <1>2, <2>5, <2>6, <2>7, Zenon
<1> QED BY <1>3, <1>4, Zenon

\* The inductive invariant gives the property: at any time a look at a timer
\* shows what is due, and a watch has not yet reported it.
LEMMA TimerInvExact == TimerInv => ExpirationsExact
<1> SUFFICES ASSUME TimerInv, NEW s \in Timers
             PROVE  /\ timer[s] # NoTimer => refresh(timer[s]).expirations + taken[s] = Due(armed[s])
                    /\ Readable(timer[s]) /\ fell[s] => refresh(timer[s]).gen # seen[s]
  BY Zenon DEF ExpirationsExact
<1>1. CASE timer[s] = NoTimer
  BY <1>1, Zenon DEF Readable
<1>2. CASE timer[s] # NoTimer
  <2> DEFINE t == timer[s]  r == refresh(timer[s])
  <2>1. Counts(t, armed[s], taken[s], now) /\ Watched(t, seen[s], fell[s]) /\ now \in 1 .. MaxNow
    BY <1>2, Zenon DEF TimerInv
  <2>2. /\ Counts(r, armed[s], taken[s], now) /\ Settled(r) /\ r.gen \in Nat /\ r.expirations \in Nat
        /\ t.expirations # 0 => r.gen = t.gen
        /\ t.expirations = 0 /\ r.expirations # 0 => r.gen = t.gen + 1
    BY <2>1, RefreshKeeps, Zenon
  <2>3. r.expirations + taken[s] = Due(armed[s])
    BY <2>1, <2>2, SettledIsDue, Zenon
  <2>4. t.gen \in Nat /\ t.expirations \in Nat
    BY <2>1, Zenon DEF Counts, TimerType
  <2>5. Readable(t) /\ fell[s] => r.gen # seen[s]
    BY <2>1, <2>2, <2>4 DEF Readable, Watched
  <2> QED BY <2>3, <2>5, Zenon
<1> QED BY <1>1, <1>2, Zenon

-----------------------------------------------------------------------------
\* The arming of slot s becomes a, and k expirations of it have been read.
Arms(s, a, k) ==
  /\ DOMAIN armed' = Timers /\ armed'[s] = a /\ \A u \in Timers \ {s} : armed'[u] = armed[u]
  /\ DOMAIN taken' = Timers /\ taken'[s] = k /\ \A u \in Timers \ {s} : taken'[u] = taken[u]

\* A slot that becomes t keeps the invariant if t is a sound account.
LEMMA PutKeeps ==
  ASSUME TimerInv, NEW s \in Timers, NEW t \in TimerType, Put(s, t), NEW a, NEW k, Arms(s, a, k),
         Counts(t, a, k, now), Watched(t, seen[s], fell'[s])
  PROVE  TimerInv'
<1>1. now' = now /\ seen' = seen /\ timer' = [timer EXCEPT ![s] = t]
  BY Zenon DEF Put
<1>2. fell' \in [Timers -> BOOLEAN] /\ \A u \in Timers \ {s} : fell'[u] = fell[u]
  BY Zenon DEF Put, TimerInv
<1>3. /\ timer' \in [Timers -> TimerType \cup {NoTimer}] /\ timer'[s] = t
      /\ \A u \in Timers \ {s} : timer'[u] = timer[u]
  BY <1>1, Zenon DEF TimerInv
<1>4. ASSUME NEW u \in Timers, timer'[u] # NoTimer
      PROVE  Counts(timer'[u], armed'[u], taken'[u], now) /\ Watched(timer'[u], seen[u], fell'[u])
  <2>1. CASE u = s
    BY <1>3, <2>1, Zenon DEF Arms
  <2>2. CASE u # s
    <3>1. timer'[u] = timer[u] /\ armed'[u] = armed[u] /\ taken'[u] = taken[u] /\ fell'[u] = fell[u]
      BY <1>2, <1>3, <2>2, Zenon DEF Arms
    <3>2. Counts(timer[u], armed[u], taken[u], now) /\ Watched(timer[u], seen[u], fell[u])
      BY <1>4, <3>1, Zenon DEF TimerInv
    <3> QED BY <3>1, <3>2, Zenon
  <2> QED BY <2>1, <2>2, Zenon
<1>5. now \in 1 .. MaxNow /\ DOMAIN armed' = Timers /\ DOMAIN taken' = Timers /\ DOMAIN seen = Timers
  BY Zenon DEF TimerInv, Arms
<1> QED
  BY <1>1, <1>2, <1>3, <1>4, <1>5, Zenon DEF TimerInv

\* What the refresh at the head of every operation leaves in slot s.
LEMMA Refreshed ==
  ASSUME TimerInv, NEW s \in Timers, timer[s] # NoTimer
  PROVE  LET r == refresh(timer[s])
         IN /\ Counts(r, armed[s], taken[s], now) /\ r \in TimerType /\ r # NoTimer
            /\ seen[s] \in Nat /\ seen[s] <= r.gen /\ r.gen \in Nat /\ r.expirations \in Nat
            /\ fell[s] /\ r.expirations # 0 => seen[s] < r.gen
            /\ Readable(timer[s]) <=> r.expirations # 0
            /\ r.expirations # 0 => refresh(r).expirations # 0
<1> DEFINE t == timer[s]  r == refresh(timer[s])
<1>1. Counts(t, armed[s], taken[s], now) /\ Watched(t, seen[s], fell[s]) /\ now \in 1 .. MaxNow
  BY Zenon DEF TimerInv
<1>2. /\ Counts(r, armed[s], taken[s], now) /\ r.gen \in Nat /\ r.expirations \in Nat
      /\ t.expirations # 0 => r.gen = t.gen
      /\ t.expirations = 0 /\ r.expirations # 0 => r.gen = t.gen + 1
      /\ r.gen >= t.gen
  BY <1>1, RefreshKeeps, Zenon
<1>3. r.expirations # 0 => refresh(r).expirations # 0
  BY <1>1, <1>2, RefreshKeeps, Zenon
<1>4. r \in TimerType /\ r # NoTimer /\ t.gen \in Nat /\ t.expirations \in Nat
  BY <1>1, <1>2, TfdConstants, Zenon DEF Counts, TimerType
<1>5. seen[s] \in Nat /\ seen[s] <= r.gen /\ (fell[s] /\ r.expirations # 0 => seen[s] < r.gen)
  BY <1>1, <1>2, <1>4 DEF Watched
<1>6. Readable(timer[s]) <=> r.expirations # 0
  BY Zenon DEF Readable
<1> QED BY <1>2, <1>3, <1>4, <1>5, <1>6, Zenon

\* gettime, readiness, readiness_generation, and a refused settime.
LEMMA RefreshPutKeeps ==
  ASSUME TimerInv, NEW s \in Timers, timer[s] # NoTimer, Put(s, refresh(timer[s])), UNCHANGED <<armed, taken>>
  PROVE  TimerInv'
<1> DEFINE r == refresh(timer[s])
<1>1. /\ Counts(r, armed[s], taken[s], now) /\ r \in TimerType /\ r # NoTimer
      /\ seen[s] \in Nat /\ seen[s] <= r.gen /\ r.gen \in Nat /\ r.expirations \in Nat
      /\ fell[s] /\ r.expirations # 0 => seen[s] < r.gen
      /\ Readable(timer[s]) <=> r.expirations # 0
      /\ r.expirations # 0 => refresh(r).expirations # 0
  BY Refreshed, Zenon
<1>2. fell'[s] <=> (fell[s] \/ ~Readable(timer[s]) \/ r = NoTimer \/ refresh(r).expirations = 0)
  BY Zenon DEF Put, TimerInv
<1>3. Arms(s, armed[s], taken[s])
  BY Zenon DEF Arms, TimerInv
<1> HIDE DEF r
<1>4. Watched(r, seen[s], fell'[s])
  BY <1>1, <1>2, Zenon DEF Watched
<1> QED BY <1>1, <1>3, <1>4, PutKeeps, Zenon DEF r

\* read consumes the count and renews the generation.
LEMMA TimerReadKeeps ==
  ASSUME TimerInv, NEW s \in Timers, TimerRead(s)
  PROVE  TimerInv'
<1> DEFINE r == refresh(timer[s])
           t == [r EXCEPT !.expirations = 0, !.gen = r.gen + 1]
<1>1. timer[s] # NoTimer /\ Put(s, t) /\ taken' = [taken EXCEPT ![s] = taken[s] + r.expirations] /\ armed' = armed
  BY Zenon DEF TimerRead
<1>2. /\ Counts(r, armed[s], taken[s], now) /\ r \in TimerType
      /\ seen[s] \in Nat /\ seen[s] <= r.gen /\ r.gen \in Nat /\ r.expirations \in Nat
  BY <1>1, Refreshed, Zenon
<1> HIDE DEF r
<1>3. /\ t \in TimerType /\ t.expirations = 0 /\ t.gen = r.gen + 1 /\ t.interval = r.interval /\ t.next = r.next
  <2>1. PICK g \in Nat : g = r.gen + 1
    BY <1>2
  <2> DEFINE u == [r EXCEPT !.expirations = 0, !.gen = g]
  <2>2. /\ u \in TimerType /\ u.expirations = 0 /\ u.gen = g /\ u.interval = r.interval /\ u.next = r.next
    BY <1>2, Zenon DEF TimerType
  <2>3. t = u
    BY <2>1, Zenon
  <2> HIDE DEF t, u
  <2> QED BY <2>1, <2>2, <2>3, Zenon
<1> HIDE DEF t
<1>4. Arms(s, armed[s], taken[s] + r.expirations)
  BY <1>1, Zenon DEF Arms, TimerInv
<1>5. taken[s] \in Nat /\ t.expirations + (taken[s] + r.expirations) = r.expirations + taken[s]
  BY <1>2, <1>3 DEF Counts
<1>6. Counted(t, armed[s], r.expirations + taken[s], now)
  BY <1>2, <1>3, Zenon DEF Counts, Counted
<1>7. Counts(t, armed[s], taken[s] + r.expirations, now)
  BY <1>2, <1>3, <1>5, <1>6 DEF Counts
<1>8. Watched(t, seen[s], fell'[s])
  BY <1>2, <1>3 DEF Watched
<1> QED BY <1>1, <1>3, <1>4, <1>7, <1>8, PutKeeps, Zenon

\* settime disarms, refuses an overflowing deadline, or starts a new count.
LEMMA TimerSettimeKeeps ==
  ASSUME TimerInv, NEW s \in Timers, NEW abstime \in BOOLEAN, NEW value \in Values, NEW interval \in Intervals,
         TimerSettime(s, abstime, value, interval)
  PROVE  TimerInv'
<1> DEFINE r == refresh(timer[s])
           deadline == IF abstime THEN value ELSE now + value
           t(i, d) == [r EXCEPT !.interval = i, !.next = d, !.expirations = 0]
<1>1. /\ Counts(r, armed[s], taken[s], now) /\ r \in TimerType /\ timer[s] # NoTimer
      /\ seen[s] \in Nat /\ seen[s] <= r.gen /\ r.gen \in Nat
  BY Refreshed, Zenon DEF TimerSettime
<1>2. /\ value \in Nat /\ value <= MaxTime /\ interval \in Nat /\ interval <= MaxTime /\ MaxTime \in Nat
      /\ now \in Nat /\ deadline \in Nat /\ (value # 0 => deadline # 0)
  BY TfdConstants DEF TimerInv
<1>3. CASE value = 0
  <2>1. Put(s, t(0, 0)) /\ armed' = [armed EXCEPT ![s] = Disarmed] /\ taken' = [taken EXCEPT ![s] = 0]
    BY <1>3, Zenon DEF TimerSettime
  <2>2. t(0, 0) \in TimerType /\ t(0, 0).expirations = 0 /\ t(0, 0).gen = r.gen /\ t(0, 0).next = 0
    BY <1>1, Zenon DEF TimerType
  <2> HIDE DEF t
  <2>3. Counts(t(0, 0), Disarmed, 0, now)
    BY <1>2, <2>2 DEF Counts, Counted, Disarmed
  <2>4. Arms(s, Disarmed, 0)
    BY <2>1, Zenon DEF Arms, TimerInv
  <2>5. Watched(t(0, 0), seen[s], fell'[s])
    BY <1>1, <2>2, Zenon DEF Watched
  <2> QED BY <2>1, <2>2, <2>3, <2>4, <2>5, PutKeeps, Zenon
<1>4. CASE value # 0 /\ deadline > MaxTime
  <2>1. Put(s, r) /\ UNCHANGED <<armed, taken>>
    BY <1>4, Zenon DEF TimerSettime
  <2> QED BY <1>1, <2>1, RefreshPutKeeps, Zenon
<1>5. CASE value # 0 /\ ~(deadline > MaxTime)
  <2> DEFINE a == [first |-> deadline, interval |-> interval]
  <2>1. Put(s, t(interval, deadline)) /\ armed' = [armed EXCEPT ![s] = a] /\ taken' = [taken EXCEPT ![s] = 0]
    BY <1>5, Zenon DEF TimerSettime
  <2> HIDE DEF deadline
  <2>2. /\ t(interval, deadline) \in TimerType /\ t(interval, deadline).expirations = 0
        /\ t(interval, deadline).gen = r.gen /\ t(interval, deadline).next = deadline
        /\ t(interval, deadline).interval = interval
    BY <1>1, <1>2, Zenon DEF TimerType
  <2> HIDE DEF t
  <2>3. Counts(t(interval, deadline), a, 0, now)
    <3>1. a \in [first : 0 .. MaxTime, interval : 0 .. MaxTime] /\ a.first = deadline /\ a.interval = interval
      BY <1>2, <1>5
    <3>2. saturating(deadline + 0 * interval) = deadline
      BY <1>2, <1>5 DEF saturating
    <3> HIDE DEF a
    <3>3. Counted(t(interval, deadline), a, 0, now)
      BY <1>2, <1>5, <2>2, <3>1, <3>2 DEF Counted
    <3>4. t(interval, deadline).expirations + 0 = 0
      BY <2>2
    <3> QED BY <2>2, <3>1, <3>3, <3>4, Zenon DEF Counts
  <2>4. Arms(s, a, 0)
    BY <2>1, Zenon DEF Arms, TimerInv
  <2>5. Watched(t(interval, deadline), seen[s], fell'[s])
    BY <1>1, <2>2, Zenon DEF Watched
  <2> HIDE DEF a
  <2> QED BY <2>1, <2>2, <2>3, <2>4, <2>5, PutKeeps, Zenon
<1> QED BY <1>3, <1>4, <1>5, Zenon


\* create, close and an edge-triggered report.
LEMMA TimerSlotKeeps ==
  ASSUME TimerInv, NEW s \in Timers,
         (\E c \in BOOLEAN : TimerCreate(s, c)) \/ TimerClose(s) \/ EdgeReported(s)
  PROVE  TimerInv'
<1>1. CASE \E c \in BOOLEAN : TimerCreate(s, c)
  <2>1. PICK c \in BOOLEAN : TimerCreate(s, c)
    BY <1>1, Zenon
  <2>2. NewTimer(c) \in TimerType /\ NewTimer(c).next = 0 /\ NewTimer(c).expirations = 0 /\ NewTimer(c).gen = 0
    BY Zenon DEF NewTimer, TimerType
  <2>3. Counts(NewTimer(c), Disarmed, 0, now)
    BY <2>2, TfdConstants DEF Counts, Counted, Disarmed
  <2>4. Watched(NewTimer(c), 0, TRUE)
    BY <2>2 DEF Watched
  <2>5. /\ timer' = [timer EXCEPT ![s] = NewTimer(c)] /\ armed' = [armed EXCEPT ![s] = Disarmed]
        /\ taken' = [taken EXCEPT ![s] = 0] /\ seen' = [seen EXCEPT ![s] = 0] /\ fell' = [fell EXCEPT ![s] = TRUE]
        /\ now' = now
    BY <2>1, Zenon DEF TimerCreate
  <2>6. ASSUME NEW u \in Timers, timer'[u] # NoTimer
        PROVE  Counts(timer'[u], armed'[u], taken'[u], now) /\ Watched(timer'[u], seen'[u], fell'[u])
    <3>1. CASE u = s
      BY <2>3, <2>4, <2>5, <3>1, Zenon DEF TimerInv
    <3>2. CASE u # s
      <4>1. /\ timer'[u] = timer[u] /\ armed'[u] = armed[u] /\ taken'[u] = taken[u] /\ fell'[u] = fell[u]
            /\ seen'[u] = seen[u]
        BY <2>5, <3>2, Zenon DEF TimerInv
      <4>2. Counts(timer[u], armed[u], taken[u], now) /\ Watched(timer[u], seen[u], fell[u])
        BY <2>6, <4>1, Zenon DEF TimerInv
      <4> QED BY <4>1, <4>2, Zenon
    <3> QED BY <3>1, <3>2, Zenon
  <2>7. /\ timer' \in [Timers -> TimerType \cup {NoTimer}] /\ fell' \in [Timers -> BOOLEAN]
        /\ DOMAIN armed' = Timers /\ DOMAIN taken' = Timers /\ DOMAIN seen' = Timers
    BY <2>2, <2>5, Zenon DEF TimerInv
  <2> QED BY <2>5, <2>6, <2>7, Zenon DEF TimerInv
<1>2. CASE TimerClose(s)
  <2>1. /\ timer' = [timer EXCEPT ![s] = NoTimer] /\ armed' = [armed EXCEPT ![s] = Disarmed]
        /\ taken' = [taken EXCEPT ![s] = 0] /\ seen' = seen /\ now' = now
    BY <1>2, Zenon DEF TimerClose, Put
  <2>2. fell' \in [Timers -> BOOLEAN] /\ \A u \in Timers \ {s} : fell'[u] = fell[u]
    BY <1>2, Zenon DEF TimerClose, Put, TimerInv
  <2>3. ASSUME NEW u \in Timers, timer'[u] # NoTimer
        PROVE  Counts(timer'[u], armed'[u], taken'[u], now) /\ Watched(timer'[u], seen'[u], fell'[u])
    <3>1. /\ timer'[u] = timer[u] /\ armed'[u] = armed[u] /\ taken'[u] = taken[u] /\ fell'[u] = fell[u]
          /\ seen'[u] = seen[u]
      BY <2>1, <2>2, <2>3, Zenon DEF TimerInv
    <3>2. Counts(timer[u], armed[u], taken[u], now) /\ Watched(timer[u], seen[u], fell[u])
      BY <2>3, <3>1, Zenon DEF TimerInv
    <3> QED BY <3>1, <3>2, Zenon
  <2>4. /\ timer' \in [Timers -> TimerType \cup {NoTimer}]
        /\ DOMAIN armed' = Timers /\ DOMAIN taken' = Timers /\ DOMAIN seen' = Timers
    BY <2>1, Zenon DEF TimerInv
  <2> QED BY <2>1, <2>2, <2>3, <2>4, Zenon DEF TimerInv
<1>3. CASE EdgeReported(s)
  <2> DEFINE r == refresh(timer[s])
  <2>1. /\ timer[s] # NoTimer /\ timer' = [timer EXCEPT ![s] = r] /\ seen' = [seen EXCEPT ![s] = r.gen]
        /\ fell' = [fell EXCEPT ![s] = FALSE] /\ now' = now /\ armed' = armed /\ taken' = taken
    BY <1>3, Zenon DEF EdgeReported, Readable
  <2>2. Counts(r, armed[s], taken[s], now) /\ r \in TimerType /\ r.gen \in Nat
    BY <2>1, Refreshed, Zenon
  <2> HIDE DEF r
  <2>3. Watched(r, r.gen, FALSE)
    BY <2>2 DEF Watched
  <2>4. ASSUME NEW u \in Timers, timer'[u] # NoTimer
        PROVE  Counts(timer'[u], armed'[u], taken'[u], now) /\ Watched(timer'[u], seen'[u], fell'[u])
    <3>1. CASE u = s
      BY <2>1, <2>2, <2>3, <3>1, Zenon DEF TimerInv
    <3>2. CASE u # s
      <4>1. timer'[u] = timer[u] /\ armed'[u] = armed[u] /\ taken'[u] = taken[u] /\ fell'[u] = fell[u] /\ seen'[u] = seen[u]
        BY <2>1, <3>2, Zenon DEF TimerInv
      <4>2. Counts(timer[u], armed[u], taken[u], now) /\ Watched(timer[u], seen[u], fell[u])
        BY <2>4, <4>1, Zenon DEF TimerInv
      <4> QED BY <4>1, <4>2, Zenon
    <3> QED BY <3>1, <3>2, Zenon
  <2>5. /\ timer' \in [Timers -> TimerType \cup {NoTimer}] /\ fell' \in [Timers -> BOOLEAN]
        /\ DOMAIN armed' = Timers /\ DOMAIN taken' = Timers /\ DOMAIN seen' = Timers
    BY <2>1, <2>2, Zenon DEF TimerInv
  <2> QED BY <2>1, <2>4, <2>5, Zenon DEF TimerInv
<1> QED BY <1>1, <1>2, <1>3, Zenon

\* Time passes: an account that is sound stays so.
LEMMA TickKeeps ==
  ASSUME TimerInv, NEW d \in 1 .. 3, Tick(d)
  PROVE  TimerInv'
<1>1. now' = now + d /\ now' \in 1 .. MaxNow /\ now \in Nat /\ now' \in Nat /\ now <= now'
  BY TfdConstants DEF Tick, TimerInv
<1>2. timer' = timer /\ armed' = armed /\ taken' = taken /\ seen' = seen
  BY Zenon DEF Tick
<1>3. fell' \in [Timers -> BOOLEAN] /\ \A s \in Timers : fell'[s] <=> (fell[s] \/ ~Readable(timer[s]))
  BY Zenon DEF Tick, TimerInv
<1>4. ASSUME NEW s \in Timers, timer[s] # NoTimer
      PROVE  Counts(timer[s], armed[s], taken[s], now') /\ Watched(timer[s], seen[s], fell'[s])
  <2> DEFINE t == timer[s]  a == armed[s]  m == timer[s].expirations + taken[s]
  <2>1. Counts(t, a, taken[s], now) /\ Watched(t, seen[s], fell[s]) /\ now \in 1 .. MaxNow
    BY <1>4, Zenon DEF TimerInv
  <2>2. m \in Nat /\ a.first \in Nat /\ a.interval \in Nat /\ t.expirations \in Nat
    BY <2>1 DEF Counts, TimerType
  <2>3. Counted(t, a, m, now)
    BY <2>1, Zenon DEF Counts
  <2>4. Counted(t, a, m, now')
    <3> HIDE DEF m, t, a
    <3>1. (m - 1) * a.interval \in Int
      BY <2>2
    <3> QED BY <1>1, <2>2, <2>3, <3>1 DEF Counted
  <2>5. Counts(t, a, taken[s], now')
    BY <2>1, <2>4, Zenon DEF Counts
  <2>6. t.expirations # 0 => Readable(t)
    BY <1>4, <2>1, RefreshKeeps, Zenon DEF Readable
  <2>7. Watched(t, seen[s], fell'[s])
    BY <1>3, <2>1, <2>6, Zenon DEF Watched
  <2> QED BY <2>5, <2>7, Zenon
<1> QED BY <1>1, <1>2, <1>3, <1>4, Zenon DEF TimerInv

LEMMA TimersInductive == TimerInv /\ [TfdNext]_tfdVars => TimerInv'
<1> SUFFICES ASSUME TimerInv, [TfdNext]_tfdVars PROVE TimerInv'
  BY Zenon
<1>1. CASE UNCHANGED tfdVars
  BY <1>1 DEF tfdVars, TimerInv, Counts, Counted
<1>2. CASE \E d \in 1 .. 3 : Tick(d)
  BY <1>2, TickKeeps, Zenon
<1>3. ASSUME NEW s \in Timers,
             \/ \E c \in BOOLEAN : TimerCreate(s, c)
             \/ TimerObserve(s) \/ TimerRead(s) \/ TimerClose(s) \/ EdgeReported(s)
             \/ \E a \in BOOLEAN, v \in Values, i \in Intervals : TimerSettime(s, a, v, i)
      PROVE  TimerInv'
  <2>1. CASE TimerObserve(s)
    BY <2>1, RefreshPutKeeps, Zenon DEF TimerObserve
  <2>2. CASE TimerRead(s)
    BY <2>2, TimerReadKeeps, Zenon
  <2>3. CASE (\E c \in BOOLEAN : TimerCreate(s, c)) \/ TimerClose(s) \/ EdgeReported(s)
    BY <2>3, TimerSlotKeeps, Zenon
  <2>4. CASE \E a \in BOOLEAN, v \in Values, i \in Intervals : TimerSettime(s, a, v, i)
    BY <2>4, TimerSettimeKeeps, Zenon
  <2> QED BY <1>3, <2>1, <2>2, <2>3, <2>4, Zenon
<1> QED BY <1>1, <1>2, <1>3, ZenonT(40) DEF TfdNext

\* For any timers, clock range and settings: what a timer holds and what reads
\* took from it add up to the expirations that are due, and no expiration hides
\* from an edge-triggered watch (refresh, read, settime).
THEOREM ExpirationsAreExact == TfdSpec => []ExpirationsExact
<1>1. TfdInit => TimerInv
  BY TfdConstants DEF TfdInit, TimerInv
<1>2. TfdSpec => []TimerInv
  BY <1>1, TimersInductive, PTL DEF TfdSpec
<1> QED BY <1>2, TimerInvExact, PTL

=============================================================================
