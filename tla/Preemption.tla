----------------------------- MODULE Preemption -----------------------------
(***************************************************************************)
(* The preemption mailbox of process/preemption.rs, one atomic access at a *)
(* time: timer interrupts that read the execution identity and publish a   *)
(* ticket, against the kernel, which publishes decisions and takes tickets *)
(* at its safe points.  Lifecycle has the same mailbox as one variable.    *)
(***************************************************************************)
EXTENDS Naturals

CONSTANTS
  Handles,  \* PID generations
  Irqs,     \* hardware threads whose timer may fire
  MaxEpoch, \* decisions that are explored
  None

ASSUME PreemptionConstants ==
  MaxEpoch \in Nat \ {0} /\ None \notin Handles \cup Nat /\ None \notin Handles \X Nat

VARIABLES
  table,     \* ProcessTable: the running handle and the scheduler epoch
  execution, \* CURRENT_EXECUTION
  published, \* CURRENT_SCHEDULER_EPOCH
  state,     \* PreemptionMailbox.state
  identity,  \* PreemptionMailbox.identity
  epoch,     \* PreemptionMailbox.scheduler_epoch
  irq,       \* program counter and registers of each interrupt
  kernel,    \* program counter and registers of the kernel
  out        \* what take returned last

vars == <<table, execution, published, state, identity, epoch, irq, kernel, out>>
mailbox == <<state, identity, epoch>>

Epochs == 1 .. MaxEpoch

\* A program point with the handle and the epoch in its registers.
At(pc, h, e) == [pc |-> pc, h |-> h, e |-> e]
Quiet == At("off", None, None)
User == At("user", None, None)

Irq(i, s) == irq' = [irq EXCEPT ![i] = s]
IrqAt(i, pc) == Irq(i, At(pc, irq[i].h, irq[i].e))
KernelAt(pc) == kernel' = At(pc, kernel.h, kernel.e)

-----------------------------------------------------------------------------
(* The interrupt.                                                          *)

\* current_execution_authority_from_irq: the epoch, the handle, the epoch.
ReadEpoch(i) ==
  /\ irq[i].pc = "off"
  /\ Irq(i, At("handle", None, published))
  /\ UNCHANGED <<table, execution, published, mailbox, kernel, out>>

ReadHandle(i) ==
  /\ irq[i].pc = "handle"
  /\ Irq(i, IF execution = None THEN Quiet ELSE At("again", execution, irq[i].e))
  /\ UNCHANGED <<table, execution, published, mailbox, kernel, out>>

ReadEpochAgain(i) ==
  /\ irq[i].pc = "again"
  /\ IF published # irq[i].e THEN Irq(i, Quiet) ELSE IrqAt(i, "claim")
  /\ UNCHANGED <<table, execution, published, mailbox, kernel, out>>

\* publish: claim the empty mailbox, or coalesce.
PublishClaim(i) ==
  /\ irq[i].pc = "claim"
  /\ IF state = "EMPTY"
     THEN state' = "CLAIMED" /\ IrqAt(i, "identity")
     ELSE UNCHANGED state /\ Irq(i, Quiet)
  /\ UNCHANGED <<table, execution, published, identity, epoch, kernel, out>>

PublishIdentity(i) ==
  /\ irq[i].pc = "identity"
  /\ identity' = irq[i].h /\ IrqAt(i, "epoch")
  /\ UNCHANGED <<table, execution, published, state, epoch, kernel, out>>

PublishEpoch(i) ==
  /\ irq[i].pc = "epoch"
  /\ epoch' = irq[i].e /\ IrqAt(i, "pending")
  /\ UNCHANGED <<table, execution, published, state, identity, kernel, out>>

PublishPending(i) ==
  /\ irq[i].pc = "pending"
  /\ state' = "PENDING" /\ Irq(i, Quiet)
  /\ UNCHANGED <<table, execution, published, identity, epoch, kernel, out>>

-----------------------------------------------------------------------------
(* The kernel.                                                             *)

\* A decision under the table lock; its two stores follow.
Decide(h) ==
  /\ kernel.pc = "user" /\ table.epoch < MaxEpoch
  /\ table' = [cur |-> h, epoch |-> table.epoch + 1]
  /\ KernelAt("execution")
  /\ UNCHANGED <<execution, published, mailbox, irq, out>>

StoreExecution ==
  /\ kernel.pc = "execution"
  /\ execution' = table.cur /\ KernelAt("published")
  /\ UNCHANGED <<table, published, mailbox, irq, out>>

StoreEpoch ==
  /\ kernel.pc = "published"
  /\ published' = table.epoch /\ kernel' = User
  /\ UNCHANGED <<table, execution, mailbox, irq, out>>

\* take: only a pending ticket is claimed.
TakeClaim ==
  /\ kernel.pc = "user" /\ state = "PENDING"
  /\ state' = "CLAIMED" /\ KernelAt("identity")
  /\ UNCHANGED <<table, execution, published, identity, epoch, irq, out>>

TakeIdentity ==
  /\ kernel.pc = "identity"
  /\ kernel' = At("epoch", identity, kernel.e)
  /\ UNCHANGED <<table, execution, published, mailbox, irq, out>>

\* Mutated form: the mailbox is released before its last word is read.
TakeEpochReleased ==
  /\ kernel.pc = "epoch"
  /\ kernel' = At("empty", kernel.h, epoch)
  /\ state' = "EMPTY"
  /\ UNCHANGED <<table, execution, published, identity, epoch, irq, out>>

TakeEpoch ==
  /\ kernel.pc = "epoch"
  /\ kernel' = At("empty", kernel.h, epoch)
  /\ UNCHANGED <<table, execution, published, mailbox, irq, out>>

\* Mutated form: the mailbox is not released.
TakeReleaseNot ==
  /\ kernel.pc = "empty"
  /\ out' = <<kernel.h, kernel.e>>
  /\ KernelAt("preempt")
  /\ UNCHANGED <<table, execution, published, mailbox, irq>>

TakeRelease ==
  /\ kernel.pc = "empty"
  /\ state' = "EMPTY" /\ out' = <<kernel.h, kernel.e>>
  /\ KernelAt("preempt")
  /\ UNCHANGED <<table, execution, published, identity, epoch, irq>>

\* Mutated form: only the handle is compared.
CurrentHandle(h, e) == h = execution

\* The test of schedule_preempt.
Current(h, e) == h = execution /\ e = table.epoch

\* schedule_preempt rotates to h; a stale ticket lets the call go on.
Preempt(h) ==
  /\ kernel.pc = "preempt" /\ Current(kernel.h, kernel.e) /\ table.epoch < MaxEpoch
  /\ table' = [cur |-> h, epoch |-> table.epoch + 1]
  /\ KernelAt("execution")
  /\ UNCHANGED <<execution, published, mailbox, irq, out>>

Stale ==
  /\ kernel.pc = "preempt" /\ ~Current(kernel.h, kernel.e)
  /\ kernel' = User
  /\ UNCHANGED <<table, execution, published, mailbox, irq, out>>

\* Yield and exit take a ticket only to drop it.
retire_superseded ==
  /\ kernel.pc = "preempt"
  /\ kernel' = User
  /\ UNCHANGED <<table, execution, published, mailbox, irq, out>>

-----------------------------------------------------------------------------
Init ==
  /\ table \in [cur : Handles, epoch : {1}]
  /\ execution = table.cur /\ published = 1
  /\ state = "EMPTY" /\ identity = None /\ epoch = None
  /\ irq = [i \in Irqs |-> Quiet] /\ kernel = User /\ out = None

IrqStep(i) ==
  \/ ReadHandle(i) \/ ReadEpochAgain(i)
  \/ PublishClaim(i) \/ PublishIdentity(i) \/ PublishEpoch(i) \/ PublishPending(i)

KernelStep ==
  \/ StoreExecution \/ StoreEpoch
  \/ TakeIdentity \/ TakeEpoch \/ TakeRelease
  \/ Stale \/ retire_superseded \/ \E h \in Handles \cup {None} : Preempt(h)

Next ==
  \/ \E i \in Irqs : ReadEpoch(i) \/ IrqStep(i)
  \/ KernelStep \/ TakeClaim \/ \E h \in Handles \cup {None} : Decide(h)

Spec == Init /\ [][Next]_vars

\* An interrupt and a kernel path, once entered, run to their end.
FairSpec == Spec /\ WF_vars(KernelStep) /\ \A i \in Irqs : WF_vars(IrqStep(i))

-----------------------------------------------------------------------------
(* Properties.                                                             *)

\* The variables have their types.
TypeOK ==
  /\ table \in [cur : Handles \cup {None}, epoch : Epochs]
  /\ execution \in Handles \cup {None} /\ published \in Epochs
  /\ state \in {"EMPTY", "CLAIMED", "PENDING"}
  /\ identity \in Handles \cup {None} /\ epoch \in Epochs \cup {None}
  /\ irq \in [Irqs -> [pc : {"off", "handle", "again", "claim", "identity", "epoch", "pending"},
                       h : Handles \cup {None}, e : Epochs \cup {None}]]
  /\ kernel \in [pc : {"user", "execution", "published", "identity", "epoch", "empty", "preempt"},
                 h : Handles \cup {None}, e : Epochs \cup {None}]
  /\ out \in Handles \X Epochs \cup {None}

Taking == kernel.pc \in {"identity", "epoch", "empty"}

\* Publish and take, interleaved access by access, are a one-place mailbox:
\* a ticket comes out with the identity and the epoch it went in with, and is
\* neither lost nor taken twice.
M == INSTANCE Mailbox WITH
  Tickets <- Handles \X Epochs,
  box <- IF state = "PENDING" \/ Taking THEN <<identity, epoch>> ELSE None
OnePlace == M!Spec

\* No mixed authority is valid: identity and epoch are published by two
\* stores and read by three loads, and still what schedule_preempt accepts is
\* the pair of the decision it preempts, published to its end.
AcceptedIsExact ==
  [][\A h \in Handles \cup {None} : Preempt(h) =>
       out = <<table.cur, table.epoch>> /\ published = table.epoch /\ execution = table.cur]_vars

\* The mailbox is never left claimed: later ticks are not coalesced for ever.
ClaimEnds == state = "CLAIMED" ~> state # "CLAIMED"
=============================================================================
