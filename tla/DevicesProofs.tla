---------------------------- MODULE DevicesProofs ----------------------------
(***************************************************************************)
(* The mailbox of preemption.rs is a one-place mailbox and no mixed        *)
(* authority is accepted, for any number of timers and decisions.  The     *)
(* memory a USB controller can reach is the driver's for the whole of the  *)
(* epoch of XhciEpoch, and from the moment its BARs are sized nobody but   *)
(* the kernel drives it, for any number of ports.  The kernel and PID1     *)
(* take whole records from the Nexus pages, in order, whatever the steps   *)
(* of their writers they overlap with.                                     *)
(***************************************************************************)
EXTENDS Preemption, XhciEpoch, Nexus, TLAPS

-----------------------------------------------------------------------------
(* The preemption mailbox.                                                 *)

HoldsIrq(i) == irq[i].pc \in {"identity", "epoch", "pending"}

\* Who claimed the mailbox holds it alone.
Exclusive ==
  /\ \A i \in Irqs : HoldsIrq(i) => state = "CLAIMED" /\ ~Taking
  /\ Taking => state = "CLAIMED"
  /\ \A i, j \in Irqs : HoldsIrq(i) /\ HoldsIrq(j) => i = j

\* What an interrupt is about to publish is whole, and what it has stored is
\* what it read.
Storing ==
  \A i \in Irqs :
    /\ irq[i].pc # "off" => irq[i].e \in Epochs
    /\ irq[i].pc \in {"again", "claim", "identity", "epoch", "pending"} => irq[i].h \in Handles
    /\ irq[i].pc \in {"epoch", "pending"} => identity = irq[i].h
    /\ irq[i].pc = "pending" => epoch = irq[i].e

\* A pending ticket is whole, and what the kernel has loaded is what it says.
KernelReading ==
  /\ state = "PENDING" \/ Taking => identity \in Handles /\ epoch \in Epochs
  /\ kernel.pc \in {"epoch", "empty"} => kernel.h = identity
  /\ kernel.pc = "empty" => kernel.e = epoch
  /\ kernel.pc = "preempt" => out = <<kernel.h, kernel.e>>

\* Between decisions the two published words are those of the table.
Published ==
  /\ kernel.pc # "execution" => execution = table.cur
  /\ kernel.pc \notin {"execution", "published"} => published = table.epoch

IInv == TypeOK /\ Exclusive /\ Storing /\ KernelReading /\ Published

-----------------------------------------------------------------------------
\* The invariant holds at boot.
LEMMA InitIInv == Init => IInv
  BY PreemptionConstants DEF Init, IInv, TypeOK, Exclusive, Storing, KernelReading, Published, HoldsIrq,
     Taking, Quiet, User, At, Epochs

\* The loads of current_execution_authority_from_irq keep it.
LEMMA ReadKeeps == ASSUME IInv, NEW i \in Irqs, ReadEpoch(i) \/ ReadHandle(i) \/ ReadEpochAgain(i)
                   PROVE  IInv'
<1> USE DEF IInv
<1>1. TypeOK'
  BY DEF TypeOK, ReadEpoch, ReadHandle, ReadEpochAgain, Irq, IrqAt, Quiet, At, mailbox
<1>2. Exclusive'
  BY DEF TypeOK, Exclusive, HoldsIrq, Taking, ReadEpoch, ReadHandle, ReadEpochAgain, Irq, IrqAt, Quiet, At, mailbox
<1>3. Storing'
  BY DEF TypeOK, Storing, ReadEpoch, ReadHandle, ReadEpochAgain, Irq, IrqAt, Quiet, At, mailbox
<1>4. KernelReading' /\ Published'
  BY Zenon DEF KernelReading, Published, Taking, ReadEpoch, ReadHandle, ReadEpochAgain, mailbox
<1> QED BY <1>1, <1>2, <1>3, <1>4, Zenon

\* The accesses of publish keep it.
LEMMA PublishKeeps ==
  ASSUME IInv, NEW i \in Irqs,
         PublishClaim(i) \/ PublishIdentity(i) \/ PublishEpoch(i) \/ PublishPending(i)
  PROVE  IInv'
<1> USE DEF IInv
<1>1. TypeOK'
  BY DEF TypeOK, Storing, PublishClaim, PublishIdentity, PublishEpoch, PublishPending, Irq, IrqAt, Quiet, At
<1>2. Exclusive'
  BY DEF TypeOK, Exclusive, HoldsIrq, Taking, PublishClaim, PublishIdentity, PublishEpoch, PublishPending,
     Irq, IrqAt, Quiet, At
<1>3. Storing'
  BY DEF TypeOK, Exclusive, HoldsIrq, Storing, PublishClaim, PublishIdentity, PublishEpoch, PublishPending,
     Irq, IrqAt, Quiet, At
<1>4. KernelReading' /\ Published'
  BY DEF TypeOK, Exclusive, HoldsIrq, Storing, KernelReading, Published, Taking,
     PublishClaim, PublishIdentity, PublishEpoch, PublishPending
<1> QED BY <1>1, <1>2, <1>3, <1>4, Zenon

\* Decisions and their two stores keep it.
LEMMA DecideKeeps ==
  ASSUME IInv, NEW h \in Handles \cup {None},
         Decide(h) \/ Preempt(h) \/ StoreExecution \/ StoreEpoch \/ Stale \/ retire_superseded
  PROVE  IInv'
<1> USE DEF IInv
<1>1. TypeOK'
  BY PreemptionConstants
     DEF TypeOK, Epochs, Decide, Preempt, StoreExecution, StoreEpoch, Stale, retire_superseded, KernelAt, User, At, mailbox
<1>2. Exclusive' /\ Storing'
  BY DEF TypeOK, Exclusive, Storing, HoldsIrq, Taking, Decide, Preempt, StoreExecution, StoreEpoch, Stale, retire_superseded,
     KernelAt, User, At, mailbox
<1>3. KernelReading' /\ Published'
  BY DEF TypeOK, KernelReading, Published, Taking, Decide, Preempt, StoreExecution, StoreEpoch, Stale, retire_superseded,
     KernelAt, User, At, mailbox
<1> QED BY <1>1, <1>2, <1>3, Zenon

\* The accesses of take keep it.
LEMMA TakeKeeps ==
  ASSUME IInv, TakeClaim \/ TakeIdentity \/ TakeEpoch \/ TakeRelease
  PROVE  IInv'
<1> USE DEF IInv
<1>1. TypeOK'
  BY DEF TypeOK, KernelReading, Taking, TakeClaim, TakeIdentity, TakeEpoch, TakeRelease, KernelAt, At, mailbox
<1>2. Exclusive' /\ Storing'
  BY DEF TypeOK, Exclusive, Storing, HoldsIrq, Taking, TakeClaim, TakeIdentity, TakeEpoch, TakeRelease,
     KernelAt, At, mailbox
<1>3. KernelReading' /\ Published'
  BY DEF TypeOK, Exclusive, KernelReading, Published, Taking, TakeClaim, TakeIdentity, TakeEpoch, TakeRelease,
     KernelAt, At, mailbox
<1> QED BY <1>1, <1>2, <1>3, Zenon

\* Every step keeps the invariant.
LEMMA NextIInv == IInv /\ [Next]_vars => IInv'
<1> SUFFICES ASSUME IInv, [Next]_vars PROVE IInv'
  BY Zenon
<1>1. CASE UNCHANGED vars
  BY <1>1 DEF vars, mailbox, IInv, TypeOK, Exclusive, Storing, KernelReading, Published, HoldsIrq, Taking
<1>2. CASE \E i \in Irqs : ReadEpoch(i) \/ IrqStep(i)
  BY <1>2, ReadKeeps, PublishKeeps, Zenon DEF IrqStep
<1>3. CASE KernelStep \/ TakeClaim \/ \E h \in Handles \cup {None} : Decide(h)
  BY <1>3, DecideKeeps, TakeKeeps, Zenon DEF KernelStep
<1> QED BY <1>1, <1>2, <1>3, Zenon DEF Next

\* The invariant holds throughout.
LEMMA Invariance == Spec => []IInv
  BY InitIInv, NextIInv, PTL DEF Spec

\* Every cell and register keeps its type: a ticket that take returns names a
\* handle and an epoch.
THEOREM PreemptionTypeCorrect == Spec => []TypeOK
<1>1. IInv => TypeOK BY Zenon DEF IInv
<1> QED BY <1>1, Invariance, PTL

-----------------------------------------------------------------------------
Box == IF state = "PENDING" \/ Taking THEN <<identity, epoch>> ELSE None

\* A ticket is not the empty mailbox.
LEMMA TicketNotNone == ASSUME NEW t \in Handles \X Epochs PROVE t # None
  BY PreemptionConstants DEF Epochs

\* publish and take, interleaved access by access, are the steps of a
\* one-place mailbox.
THEOREM MailboxImplemented == Spec => OnePlace
<1>1. Init => M!Init
  BY DEF Init, M!Init, Taking, User, At
<1>2. IInv /\ [Next]_vars => [M!Next]_<<Box, out>>
  <2> SUFFICES ASSUME IInv, [Next]_vars PROVE M!Next \/ UNCHANGED <<Box, out>>
    BY Zenon DEF M!Next, M!Publish, M!Take, Box
  <2> USE DEF IInv
  <2>1. CASE UNCHANGED vars
    BY <2>1, Zenon DEF vars, mailbox, Box, Taking
  <2>2. ASSUME NEW i \in Irqs, ReadEpoch(i) \/ ReadHandle(i) \/ ReadEpochAgain(i)
        PROVE  UNCHANGED <<Box, out>>
    BY <2>2, Zenon DEF ReadEpoch, ReadHandle, ReadEpochAgain, mailbox, Box, Taking
  <2>3. ASSUME NEW i \in Irqs, PublishClaim(i) \/ PublishIdentity(i) \/ PublishEpoch(i)
        PROVE  UNCHANGED <<Box, out>>
    BY <2>3, Zenon DEF PublishClaim, PublishIdentity, PublishEpoch, Exclusive, HoldsIrq, Box, Taking
  <2>4. ASSUME NEW i \in Irqs, PublishPending(i)
        PROVE  M!Publish
    <3>1. Box = None /\ UNCHANGED out
      BY <2>4, Zenon DEF PublishPending, Exclusive, HoldsIrq, Box
    <3>2. Box' = <<identity, epoch>> /\ <<identity, epoch>> \in Handles \X Epochs
      BY <2>4, Zenon DEF PublishPending, Storing, Box
    <3> QED BY <3>1, <3>2, Zenon DEF M!Publish, Box
  <2>5. ASSUME NEW h \in Handles \cup {None},
               Decide(h) \/ Preempt(h) \/ StoreExecution \/ StoreEpoch \/ Stale \/ retire_superseded
        PROVE  UNCHANGED <<Box, out>>
    BY <2>5 DEF Decide, Preempt, StoreExecution, StoreEpoch, Stale, retire_superseded, KernelAt, User, At, mailbox, Box, Taking
  <2>6. CASE TakeClaim \/ TakeIdentity \/ TakeEpoch
    <3>1. UNCHANGED <<Box, out>>
      BY <2>6 DEF TakeClaim, TakeIdentity, TakeEpoch, KernelAt, At, mailbox, Box, Taking
    <3> QED BY <3>1, Zenon
  <2>7. CASE TakeRelease
    <3>1. Box = <<identity, epoch>> /\ <<identity, epoch>> \in Handles \X Epochs
      BY <2>7, Zenon DEF TakeRelease, KernelReading, Taking, Box
    <3>2. out' = Box
      BY <2>7, <3>1, Zenon DEF TakeRelease, KernelReading
    <3>3. Box' = None
      BY <2>7, Zenon DEF TakeRelease, KernelAt, At, Box, Taking
    <3> QED BY <3>1, <3>2, <3>3, TicketNotNone, Zenon DEF M!Next, M!Take, Box
  <2> QED BY <2>1, <2>2, <2>3, <2>4, <2>5, <2>6, <2>7, Zenon DEF Next, IrqStep, KernelStep, M!Next
<1> QED BY <1>1, <1>2, Invariance, PTL DEF Spec, OnePlace, M!Spec, Box

\* What schedule_preempt accepts is the pair of the decision it preempts.
THEOREM NoMixedAuthority == Spec => AcceptedIsExact
<1>1. IInv /\ [Next]_vars =>
        [\A h \in Handles \cup {None} : Preempt(h) =>
           out = <<table.cur, table.epoch>> /\ published = table.epoch /\ execution = table.cur]_vars
  BY Zenon DEF IInv, KernelReading, Published, Preempt, Current
<1> QED BY <1>1, Invariance, PTL DEF Spec, AcceptedIsExact

-----------------------------------------------------------------------------
(* The USB controller: where the two machines can be.                      *)

MaskPhases == {"MaskLegacySmi", "VerifyLegacySmiMasked"}

\* Told to stop, seen stopped, the ports drained, and the firmware silent.
Still == {"AwaitMeasuredAperture"} \cup ProbePhases
Stopping == {"ArmHalt", "AwaitHalt"} \cup Still
Drained == {"RequestHalt", "ReadyHalted"} \cup Stopping
Silent == {"ArmInitialReady", "AwaitInitialReady", "ArmUsb2ResetDrain", "DrainUsb2Resets"} \cup Drained
TakePhases ==
  {"ClaimLegacyOwnership", "ArmLegacyHandoff", "AwaitLegacyHandoff", "Faulted"} \cup MaskPhases \cup Silent
WasReset == {"ArmPostResetReady", "AwaitPostResetReady", "VerifyReadyHalted", "ReadyHalted"}

OffStages == {"takeover", "capture", "scrub", "scrub writes", "isolate"}
GuardedStages == {"reset", "reset waits", "unguard"}
ProgrammedStages ==
  {"prepare writes", "start", "start waits", "command", "stop", "stop waits", "rescrub", "rescrub writes",
   "rereset", "rereset waits"}
ClosingStages == {"unmaster", "unbind", "shutdown", "release"}

Stages ==
  OffStages \cup {"guard"} \cup GuardedStages \cup {"bind", "master", "prepare"} \cup ProgrammedStages
    \cup ClosingStages \cup {"done", "halt"}

Identity == [a \in Addresses |-> IF a \in UsbArena THEN a ELSE Fault]
GuardMap(g) == IF g = Null THEN Denied ELSE [Denied EXCEPT ![g] = "event"]

\* The register writes of a transaction.
Given == {"dcbaa", "command", "erst", "event"}
ClearWrites == Seq(AddressRegisters \X {Null})
ProgramWrites == Seq(AddressRegisters \X Given)

TakeType ==
  [phase : TakePhases, policy : {"BeforeReady", "Defer"}, port : Ports, saw : BOOLEAN,
   lease : BOOLEAN, mutated : BOOLEAN, aperture : BOOLEAN]
HwType ==
  [bios : BOOLEAN, os : BOOLEAN, smi : BOOLEAN, rs : BOOLEAN, hcrst : BOOLEAN, hch : BOOLEAN,
   cnr : BOOLEAN, hse : BOOLEAN, resets : SUBSET Ports, decode : BOOLEAN, master : BOOLEAN,
   regs : [AddressRegisters -> Addresses \cup {Null}], held : SUBSET Addresses]
UsbType ==
  [at : Stages, writes : ClearWrites \cup ProgramWrites, guard : Addresses \cup {Null},
   owned : SUBSET UsbArena, unit : BOOLEAN, map : [Addresses -> UsbArena \cup {Fault}]]
EpochTypeOK == take \in TakeType /\ xhw \in HwType /\ usb \in UsbType

\* The firmware is gone before the controller is told anything, the ports stay
\* out of reset once they are drained, and the controller stays stopped.
Hushed ==
  /\ take.phase \in MaskPhases => ~xhw.bios
  /\ take.phase \in Silent => ~xhw.bios /\ ~xhw.smi
  /\ take.phase \notin {"DrainUsb2Resets", "Faulted"} => take.port = 1 /\ ~take.saw
  /\ take.phase = "DrainUsb2Resets" /\ ~take.saw => \A p \in Ports : p < take.port => p \notin xhw.resets
  /\ take.phase \in Drained => xhw.resets = {}
  /\ take.phase \in Stopping => ~xhw.rs
  /\ take.phase \in Still => xhw.hch
  /\ take.phase \in ProbePhases => ~xhw.master
  /\ take.phase \in Stopping \cup {"ReadyHalted"} => take.mutated

\* A policy that resets the controller leaves it without addresses.
Forgets ==
  take.policy = "BeforeReady" /\ usb.at = "takeover" =>
    /\ take.phase \in WasReset => xhw.held = {}
    /\ take.phase \in {"ArmReset", "AwaitReset"} /\ ~xhw.hcrst => xhw.held = {}

\* The epoch begins when the takeover has ended.
After == usb.at # "takeover" => take.phase = "ReadyHalted"

\* Up to the isolation: the unit is off, and the addresses are the firmware's.
StagedOff ==
  /\ usb.at \in OffStages =>
       /\ ~usb.unit /\ usb.map = Denied /\ xhw.held \subseteq FirmwareAddresses
       /\ usb.at # "takeover" => Stopped /\ ~xhw.master
  /\ usb.at = "takeover" => usb.owned = {}
  /\ usb.at \notin {"takeover", "release", "done", "halt"} => usb.owned = UsbArena
  /\ usb.at \in {"takeover", "capture"} /\ "fw event" \in xhw.held => xhw.regs["erdp"] = "fw event"

\* Up to the binding: the first reset may touch the guard page, and then no
\* address is left.
StagedGuard ==
  /\ usb.at \in {"scrub", "scrub writes", "isolate", "guard", "reset", "reset waits"} /\ "fw event" \in xhw.held =>
       usb.guard = "fw event"
  /\ usb.at = "guard" => usb.unit /\ usb.map = Denied /\ xhw.held \subseteq FirmwareAddresses
  /\ usb.at \in GuardedStages => usb.unit /\ usb.map = GuardMap(usb.guard) /\ xhw.held \subseteq FirmwareAddresses
  /\ usb.at = "bind" => usb.unit /\ usb.map = Denied

\* Without addresses: from a reset that was seen to end until the programming.
StagedForgotten ==
  /\ usb.at \in {"reset waits", "rereset waits"} /\ ~xhw.hcrst => xhw.held = {}
  /\ usb.at \in {"unguard", "bind", "master", "prepare"} \cup ClosingStages => xhw.held = {}

\* The session, and its end.
StagedSession ==
  /\ usb.at \in {"master", "prepare", "unmaster", "unbind"} \cup ProgrammedStages => usb.unit /\ usb.map = Identity
  /\ usb.at \in ProgrammedStages => xhw.held \subseteq UsbArena
  /\ usb.at \in ClosingStages => Stopped
  /\ usb.at \in {"unbind", "shutdown", "release"} => ~xhw.master
  /\ usb.at = "shutdown" => usb.unit
  /\ usb.at = "release" => ~usb.unit
  /\ usb.at = "done" => ~usb.unit /\ xhw.held = {} /\ Stopped /\ ~xhw.master

Staged == StagedOff /\ StagedGuard /\ StagedForgotten /\ StagedSession

\* What is left of a register transaction.
Writing ==
  /\ usb.at \in {"scrub writes", "rescrub writes"} => usb.writes \in ClearWrites
  /\ usb.at = "prepare writes" => usb.writes \in ProgramWrites
  /\ usb.at \notin {"scrub writes", "rescrub writes", "prepare writes"} => usb.writes = <<>>

EpochInv == EpochTypeOK /\ Hushed /\ Forgets /\ After /\ Staged /\ Writing /\ DmaContained /\ QuietTakeover

-----------------------------------------------------------------------------
(* The takeover.                                                           *)

\* The arena and the ports of the takeover are what the constants say.
LEMMA Arena ==
  /\ UsbArena = {"dcbaa", "command", "event", "erst", "scratchpad array", "scratchpads"}
  /\ FirmwareAddresses \cap UsbArena = {} /\ UsbArena \subseteq Addresses /\ FirmwareAddresses \subseteq Addresses
  /\ Null \notin Addresses /\ Fault \notin Addresses
  /\ Reached(Null) = {} /\ \A a \in Given : Reached(a) \subseteq UsbArena
<1>1. Len(RegionOrder) = 6 /\ RegionOrder[1] = "dcbaa" /\ RegionOrder[2] = "command" /\ RegionOrder[3] = "event"
      /\ RegionOrder[4] = "erst" /\ RegionOrder[5] = "scratchpad array" /\ RegionOrder[6] = "scratchpads"
  BY Zenon DEF RegionOrder
<1>2. 1 .. 6 = {1, 2, 3, 4, 5, 6}
  OBVIOUS
<1>3. UsbArena = {"dcbaa", "command", "event", "erst", "scratchpad array", "scratchpads"}
  BY <1>1, <1>2, ZenonT(40) DEF UsbArena
<1>4. /\ FirmwareAddresses \cap UsbArena = {} /\ UsbArena \subseteq Addresses /\ FirmwareAddresses \subseteq Addresses
      /\ Null \notin Addresses /\ Fault \notin Addresses
  BY <1>3, Zenon DEF Addresses, FirmwareAddresses, Null, Fault
<1>5. Reached(Null) = {} /\ \A a \in Given : Reached(a) \subseteq UsbArena
  BY <1>3, Zenon DEF Reached, Given, Null
<1> QED BY <1>3, <1>4, <1>5, Zenon


\* The phases of the takeover that the proofs name are phases.
LEMMA PhaseNames ==
  /\ "ClaimLegacyOwnership" \in TakePhases /\ "ArmLegacyHandoff" \in TakePhases /\ "AwaitLegacyHandoff" \in TakePhases
  /\ "MaskLegacySmi" \in TakePhases /\ "VerifyLegacySmiMasked" \in TakePhases /\ "ArmInitialReady" \in TakePhases
  /\ "AwaitInitialReady" \in TakePhases /\ "ArmUsb2ResetDrain" \in TakePhases /\ "DrainUsb2Resets" \in TakePhases
  /\ "RequestHalt" \in TakePhases /\ "ArmHalt" \in TakePhases /\ "AwaitHalt" \in TakePhases
  /\ "AwaitMeasuredAperture" \in TakePhases /\ "Probing" \in TakePhases /\ "RequestReset" \in TakePhases
  /\ "ArmReset" \in TakePhases /\ "AwaitReset" \in TakePhases /\ "ArmPostResetReady" \in TakePhases
  /\ "AwaitPostResetReady" \in TakePhases /\ "VerifyReadyHalted" \in TakePhases /\ "ReadyHalted" \in TakePhases
  /\ "Faulted" \in TakePhases
BY Zenon DEF TakePhases, MaskPhases, Silent, Drained, Stopping, Still, ProbePhases

\* A step of the takeover machine touches no address.
LEMMA TakeoverTyped ==
  ASSUME EpochTypeOK, TakeoverStep
  PROVE  take' \in TakeType /\ xhw' \in HwType /\ xhw'.held = xhw.held /\ xhw'.regs = xhw.regs
<1>1. take \in TakeType /\ xhw \in HwType
  BY Zenon DEF EpochTypeOK
<1>2. CASE ClaimLegacyOwnership
  BY <1>1, <1>2, PhaseNames, Zenon DEF TakeType, HwType, ClaimLegacyOwnership, Mutates
<1>3. CASE ArmSome
  BY <1>1, <1>3, PhaseNames, ZenonT(40) DEF TakeType, HwType, ArmSome, Arm
<1>4. CASE AwaitLegacyHandoff
  BY <1>1, <1>4, PhaseNames, Zenon DEF TakeType, HwType, AwaitLegacyHandoff, Cancelled
<1>5. CASE MaskLegacySmi
  BY <1>1, <1>5, PhaseNames, Zenon DEF TakeType, HwType, MaskLegacySmi, From
<1>6. CASE VerifyLegacySmiMasked
  BY <1>1, <1>6, PhaseNames DEF TakeType, HwType, VerifyLegacySmiMasked, From
<1>7. CASE AwaitInitialReady
  BY <1>1, <1>7, PhaseNames, Zenon DEF TakeType, HwType, AwaitInitialReady, Cancelled
<1>8. CASE drain_one_usb2_port
  <2>1. take.port \in Nat /\ 1 <= take.port /\ take.port <= NPorts /\ 1 \in Ports
        /\ (take.port # NPorts => take.port + 1 \in Ports)
    BY <1>1, PortsAssumption DEF TakeType, Ports
  <2>2. xhw' = xhw /\ \/ take' = [take EXCEPT !.port = @ + 1, !.saw = take.saw \/ take.port \in xhw.resets]
                           /\ take.port # NPorts
                      \/ take' = [take EXCEPT !.port = 1, !.saw = FALSE]
                      \/ take' = [take EXCEPT !.port = 1, !.phase = "RequestHalt", !.lease = FALSE]
    BY <1>8, Zenon DEF drain_one_usb2_port
  <2> QED BY <1>1, <2>1, <2>2, PhaseNames, ZenonT(40) DEF TakeType
<1>9. CASE RequestHalt
  BY <1>1, <1>9, PhaseNames, Zenon DEF TakeType, HwType, RequestHalt, Mutates
<1>10. CASE AwaitHalt
  BY <1>1, <1>10, PhaseNames, Zenon DEF TakeType, HwType, AwaitHalt, Cancelled
<1>11. CASE ProbeBegins
  BY <1>1, <1>11, PhaseNames, Zenon DEF TakeType, HwType, ProbeBegins, Mutates
<1>12. CASE bind_measured_aperture
  BY <1>1, <1>12, PhaseNames, Zenon DEF TakeType, HwType, bind_measured_aperture
<1>13. CASE RequestReset
  BY <1>1, <1>13, PhaseNames, Zenon DEF TakeType, HwType, RequestReset, Mutates
<1>14. CASE AwaitReset
  BY <1>1, <1>14, PhaseNames, ZenonT(40) DEF TakeType, HwType, AwaitReset, Cancelled
<1>15. CASE AwaitPostResetReady
  BY <1>1, <1>15, PhaseNames, Zenon DEF TakeType, HwType, AwaitPostResetReady, Cancelled
<1>16. CASE VerifyReadyHalted
  BY <1>1, <1>16, PhaseNames DEF TakeType, HwType, VerifyReadyHalted, From
<1>17. CASE Abandon
  BY <1>1, <1>17, PhaseNames, ZenonT(40) DEF TakeType, HwType, Abandon
<1> QED BY <1>2, <1>3, <1>4, <1>5, <1>6, <1>7, <1>8, <1>9, <1>10, <1>11, <1>12, <1>13, <1>14, <1>15, <1>16, <1>17, Zenon DEF TakeoverStep

\* It keeps the firmware out, the ports quiet and the controller stopped.
LEMMA TakeoverStepKeeps ==
  ASSUME EpochInv, usb.at = "takeover", TakeoverStep, UNCHANGED usb
  PROVE  Hushed' /\ Forgets' /\ QuietTakeover'
<1> USE DEF MaskPhases, ProbePhases, Terminal, ArmedPhases, Silent, Stopping, Drained, Still, WasReset
<1>1. take \in TakeType /\ xhw \in HwType /\ Hushed /\ Forgets /\ QuietTakeover /\ usb'.at = "takeover"
  BY Zenon DEF EpochInv, EpochTypeOK
<1>2. CASE ClaimLegacyOwnership
  <2>1. Hushed'
    BY <1>1, <1>2, Zenon DEF TakeType, HwType, ClaimLegacyOwnership, Mutates, Hushed
  <2>2. Forgets' /\ QuietTakeover'
    BY <1>1, <1>2, Zenon DEF TakeType, HwType, ClaimLegacyOwnership, Mutates, Forgets, QuietTakeover, Stopped, Hushed
  <2> QED BY <2>1, <2>2, Zenon
<1>3. CASE ArmSome
  <2>1. CASE Arm("ArmLegacyHandoff", "AwaitLegacyHandoff")
    <3>1. Hushed'
      BY <1>1, <2>1, Zenon DEF TakeType, HwType, Arm, Hushed
    <3>2. Forgets' /\ QuietTakeover'
      BY <1>1, <2>1, Zenon DEF TakeType, HwType, Arm, Forgets, QuietTakeover, Stopped, Hushed
    <3> QED BY <3>1, <3>2
  <2>2. CASE Arm("ArmInitialReady", "AwaitInitialReady")
    <3>1. Hushed'
      BY <1>1, <2>2, Zenon DEF TakeType, HwType, Arm, Hushed
    <3>2. Forgets' /\ QuietTakeover'
      BY <1>1, <2>2, Zenon DEF TakeType, HwType, Arm, Forgets, QuietTakeover, Stopped, Hushed
    <3> QED BY <3>1, <3>2
  <2>3. CASE Arm("ArmUsb2ResetDrain", "DrainUsb2Resets")
    <3>1. Hushed'
      <4>1. take'.phase = "DrainUsb2Resets" /\ take'.port = 1 /\ xhw' = xhw /\ ~xhw.bios /\ ~xhw.smi
        BY <1>1, <2>3, Zenon DEF TakeType, Arm, Hushed
      <4>2. \A p \in Ports : ~(p < take'.port)
        BY <4>1 DEF Ports
      <4> QED BY <4>1, <4>2, Zenon DEF Hushed
    <3>2. Forgets' /\ QuietTakeover'
      BY <1>1, <2>3, Zenon DEF TakeType, HwType, Arm, Forgets, QuietTakeover, Stopped, Hushed
    <3> QED BY <3>1, <3>2
  <2>4. CASE Arm("ArmHalt", "AwaitHalt")
    <3>1. Hushed'
      BY <1>1, <2>4, Zenon DEF TakeType, HwType, Arm, Hushed
    <3>2. Forgets' /\ QuietTakeover'
      BY <1>1, <2>4, Zenon DEF TakeType, HwType, Arm, Forgets, QuietTakeover, Stopped, Hushed
    <3> QED BY <3>1, <3>2
  <2>5. CASE Arm("ArmReset", "AwaitReset")
    <3>1. Hushed'
      BY <1>1, <2>5, Zenon DEF TakeType, HwType, Arm, Hushed
    <3>2. Forgets' /\ QuietTakeover'
      BY <1>1, <2>5, Zenon DEF TakeType, HwType, Arm, Forgets, QuietTakeover, Stopped, Hushed
    <3> QED BY <3>1, <3>2
  <2>6. CASE Arm("ArmPostResetReady", "AwaitPostResetReady")
    <3>1. Hushed'
      BY <1>1, <2>6, Zenon DEF TakeType, HwType, Arm, Hushed
    <3>2. Forgets' /\ QuietTakeover'
      BY <1>1, <2>6, Zenon DEF TakeType, HwType, Arm, Forgets, QuietTakeover, Stopped, Hushed
    <3> QED BY <3>1, <3>2
  <2> QED BY <1>3, <2>1, <2>2, <2>3, <2>4, <2>5, <2>6, Zenon DEF ArmSome
<1>4. CASE AwaitLegacyHandoff
  <2>1. Hushed'
    BY <1>1, <1>4, Zenon DEF TakeType, HwType, AwaitLegacyHandoff, Cancelled, Hushed
  <2>2. Forgets' /\ QuietTakeover'
    BY <1>1, <1>4, Zenon DEF TakeType, HwType, AwaitLegacyHandoff, Cancelled, Forgets, QuietTakeover, Stopped, Hushed
  <2> QED BY <2>1, <2>2
<1>5. CASE MaskLegacySmi
  <2>1. Hushed'
    BY <1>1, <1>5, Zenon DEF TakeType, HwType, MaskLegacySmi, From, Hushed
  <2>2. Forgets' /\ QuietTakeover'
    BY <1>1, <1>5, Zenon DEF TakeType, HwType, MaskLegacySmi, From, Forgets, QuietTakeover, Stopped, Hushed
  <2> QED BY <2>1, <2>2
<1>6. CASE VerifyLegacySmiMasked
  <2>1. Hushed'
    BY <1>1, <1>6, Zenon DEF TakeType, HwType, VerifyLegacySmiMasked, From, Hushed
  <2>2. Forgets' /\ QuietTakeover'
    BY <1>1, <1>6, Zenon DEF TakeType, HwType, VerifyLegacySmiMasked, From, Forgets, QuietTakeover, Stopped, Hushed
  <2> QED BY <2>1, <2>2
<1>7. CASE AwaitInitialReady
  <2>1. Hushed'
    BY <1>1, <1>7, Zenon DEF TakeType, HwType, AwaitInitialReady, Cancelled, Hushed
  <2>2. Forgets' /\ QuietTakeover'
    BY <1>1, <1>7, Zenon DEF TakeType, HwType, AwaitInitialReady, Cancelled, Forgets, QuietTakeover, Stopped, Hushed
  <2> QED BY <2>1, <2>2
<1>8. CASE drain_one_usb2_port
  <2>1. take.port \in Nat /\ 1 <= take.port /\ take.port <= NPorts
    BY <1>1, PortsAssumption DEF TakeType, Ports
  <2>2. take.phase = "DrainUsb2Resets" /\ xhw' = xhw /\ take'.policy = take.policy /\ take'.mutated = take.mutated
    BY <1>1, <1>8, Zenon DEF drain_one_usb2_port, TakeType
  <2>3. /\ ~xhw.bios /\ ~xhw.smi /\ take.lease
        /\ ~take.saw => \A p \in Ports : p < take.port => p \notin xhw.resets
    BY <1>1, <2>2, Zenon DEF Hushed, QuietTakeover
  <2>4. CASE take.port # NPorts
    <3>1. /\ take'.port = take.port + 1 /\ take'.phase = "DrainUsb2Resets" /\ take'.lease = take.lease
          /\ ~take'.saw => ~take.saw /\ take.port \notin xhw.resets
      BY <1>1, <1>8, <2>4, Zenon DEF drain_one_usb2_port, TakeType
    <3>2. ~take'.saw => \A p \in Ports : p < take'.port => p \notin xhw.resets
      BY <2>1, <2>3, <3>1 DEF Ports
    <3>3. Hushed'
      BY <2>2, <2>3, <3>1, <3>2, Zenon DEF Hushed
    <3> QED BY <1>1, <2>2, <2>3, <3>1, <3>3, Zenon DEF Forgets, QuietTakeover
  <2>5. CASE take.port = NPorts /\ (take.saw \/ take.port \in xhw.resets)
    <3>1. take'.port = 1 /\ ~take'.saw /\ take'.phase = "DrainUsb2Resets" /\ take'.lease = take.lease
      BY <1>1, <1>8, <2>5, Zenon DEF drain_one_usb2_port, TakeType
    <3>2. \A p \in Ports : ~(p < take'.port)
      BY <3>1 DEF Ports
    <3>3. Hushed'
      BY <2>2, <2>3, <3>1, <3>2, Zenon DEF Hushed
    <3> QED BY <1>1, <2>2, <2>3, <3>1, <3>3, Zenon DEF Forgets, QuietTakeover
  <2>6. CASE take.port = NPorts /\ ~(take.saw \/ take.port \in xhw.resets)
    <3>1. take'.port = 1 /\ take'.saw = take.saw /\ take'.phase = "RequestHalt" /\ ~take'.lease
      BY <1>1, <1>8, <2>6, Zenon DEF drain_one_usb2_port, TakeType
    <3>2. xhw.resets = {}
      BY <1>1, <2>1, <2>3, <2>6, PortsAssumption DEF HwType, Ports
    <3>3. Hushed'
      BY <2>2, <2>3, <2>6, <3>1, <3>2, Zenon DEF Hushed
    <3> QED BY <1>1, <2>2, <2>3, <3>1, <3>3, Zenon DEF Forgets, QuietTakeover
  <2> QED BY <2>4, <2>5, <2>6, Zenon
<1>9. CASE RequestHalt
  <2>1. Hushed'
    BY <1>1, <1>9, Zenon DEF TakeType, HwType, RequestHalt, Mutates, Hushed
  <2>2. Forgets' /\ QuietTakeover'
    BY <1>1, <1>9, Zenon DEF TakeType, HwType, RequestHalt, Mutates, Forgets, QuietTakeover, Stopped, Hushed
  <2> QED BY <2>1, <2>2
<1>10. CASE AwaitHalt
  <2>1. Hushed'
    BY <1>1, <1>10, Zenon DEF TakeType, HwType, AwaitHalt, Cancelled, Hushed
  <2>2. Forgets' /\ QuietTakeover'
    BY <1>1, <1>10, Zenon DEF TakeType, HwType, AwaitHalt, Cancelled, Forgets, QuietTakeover, Stopped, Hushed
  <2> QED BY <2>1, <2>2
<1>11. CASE ProbeBegins
  <2>1. Hushed'
    BY <1>1, <1>11, Zenon DEF TakeType, HwType, ProbeBegins, Mutates, Hushed
  <2>2. Forgets' /\ QuietTakeover'
    BY <1>1, <1>11, Zenon DEF TakeType, HwType, ProbeBegins, Mutates, Forgets, QuietTakeover, Stopped, Hushed
  <2> QED BY <2>1, <2>2
<1>12. CASE bind_measured_aperture
  <2>1. Hushed'
    BY <1>1, <1>12, Zenon DEF TakeType, HwType, bind_measured_aperture, Hushed
  <2>2. Forgets' /\ QuietTakeover'
    BY <1>1, <1>12, Zenon DEF TakeType, HwType, bind_measured_aperture, Forgets, QuietTakeover, Stopped, Hushed
  <2> QED BY <2>1, <2>2
<1>13. CASE RequestReset
  <2>1. Hushed'
    BY <1>1, <1>13, Zenon DEF TakeType, HwType, RequestReset, Mutates, ResetEligible, Hushed
  <2>2. Forgets' /\ QuietTakeover'
    BY <1>1, <1>13, Zenon DEF TakeType, HwType, RequestReset, Mutates, ResetEligible, Forgets, QuietTakeover, Stopped, Hushed
  <2> QED BY <2>1, <2>2
<1>14. CASE AwaitReset
  <2>1. Hushed'
    BY <1>1, <1>14, Zenon DEF TakeType, HwType, AwaitReset, Cancelled, Hushed
  <2>2. Forgets' /\ QuietTakeover'
    BY <1>1, <1>14, Zenon DEF TakeType, HwType, AwaitReset, Cancelled, Forgets, QuietTakeover, Stopped, Hushed
  <2> QED BY <2>1, <2>2
<1>15. CASE AwaitPostResetReady
  <2>1. Hushed'
    BY <1>1, <1>15, Zenon DEF TakeType, HwType, AwaitPostResetReady, Cancelled, Hushed
  <2>2. Forgets' /\ QuietTakeover'
    BY <1>1, <1>15, Zenon DEF TakeType, HwType, AwaitPostResetReady, Cancelled, Forgets, QuietTakeover, Stopped, Hushed
  <2> QED BY <2>1, <2>2
<1>16. CASE VerifyReadyHalted
  <2>1. Hushed'
    BY <1>1, <1>16, Zenon DEF TakeType, HwType, VerifyReadyHalted, From, ResetEligible, Hushed
  <2>2. Forgets' /\ QuietTakeover'
    BY <1>1, <1>16, Zenon DEF TakeType, HwType, VerifyReadyHalted, From, ResetEligible, Forgets, QuietTakeover, Stopped, Hushed
  <2> QED BY <2>1, <2>2
<1>17. CASE Abandon
  <2>1. Hushed'
    BY <1>1, <1>17, Zenon DEF TakeType, HwType, Abandon, Hushed
  <2>2. Forgets' /\ QuietTakeover'
    BY <1>1, <1>17, Zenon DEF TakeType, HwType, Abandon, Forgets, QuietTakeover, Stopped, Hushed
  <2> QED BY <2>1, <2>2
<1> QED BY <1>2, <1>3, <1>4, <1>5, <1>6, <1>7, <1>8, <1>9, <1>10, <1>11, <1>12, <1>13, <1>14, <1>15, <1>16, <1>17, Zenon DEF TakeoverStep

\* Every step of the takeover keeps what the takeover has established.
LEMMA TakeoverKeeps ==
  ASSUME EpochInv, usb.at = "takeover", TakeoverStep, UNCHANGED usb
  PROVE  EpochInv'
<1>1. /\ usb \in UsbType /\ After /\ Staged /\ Writing /\ DmaContained
      /\ take' \in TakeType /\ xhw' \in HwType /\ Hushed' /\ Forgets' /\ QuietTakeover'
      /\ xhw'.held = xhw.held /\ xhw'.regs = xhw.regs
  BY TakeoverStepKeeps, TakeoverTyped, Zenon DEF EpochInv, EpochTypeOK
<1>2. After' /\ Writing'
  BY <1>1, Zenon DEF After, Writing
<1>3. Staged'
  BY <1>1, Zenon DEF Staged, StagedOff, StagedGuard, StagedForgotten, StagedSession, OffStages, GuardedStages, ProgrammedStages, ClosingStages
<1>4. DmaContained'
  BY <1>1, Arena, Zenon DEF DmaContained, Staged, StagedOff, OffStages, FirmwareAddresses
<1> QED BY <1>1, <1>2, <1>3, <1>4, Zenon DEF EpochInv, EpochTypeOK

-----------------------------------------------------------------------------
(* The firmware and the controller.                                        *)

Environment ==
  FirmwareReleases \/ FirmwareDrives \/ ControllerStep \/ ResetCompletes \/ \E a \in xhw.held : DmaFaults(a)

\* What they can do: only the firmware starts the controller or resets a port,
\* and an address is only forgotten, by the end of a reset.
LEMMA EnvironmentEffect ==
  ASSUME xhw \in HwType, Environment
  PROVE  /\ xhw' \in HwType
         /\ xhw'.os = xhw.os /\ xhw'.smi = xhw.smi /\ xhw'.decode = xhw.decode /\ xhw'.master = xhw.master
         /\ xhw'.bios => xhw.bios
         /\ xhw'.hcrst => xhw.hcrst
         /\ (xhw'.held = xhw.held /\ xhw'.regs = xhw.regs /\ (xhw'.hcrst <=> xhw.hcrst)) \/ xhw'.held = {}
         /\ xhw'.resets \subseteq xhw.resets \/ xhw.bios \/ xhw.smi
         /\ ~xhw.rs => ~xhw'.rs \/ xhw.bios \/ xhw.smi
         /\ ~xhw.rs /\ xhw.hch => xhw'.hch
<1>1. CASE FirmwareReleases
  BY <1>1, Zenon DEF HwType, FirmwareReleases
<1>2. CASE FirmwareDrives
  <2>1. CASE ~xhw.rs /\ xhw' = [xhw EXCEPT !.rs = TRUE]
    BY <1>2, <2>1, Zenon DEF HwType, FirmwareDrives
  <2>2. CASE \E p \in Ports \ xhw.resets : xhw' = [xhw EXCEPT !.resets = @ \cup {p}]
    BY <1>2, <2>2 DEF HwType, FirmwareDrives
  <2> QED BY <1>2, <2>1, <2>2, Zenon DEF FirmwareDrives
<1>3. CASE ControllerStep
  <2>1. CASE xhw.rs /\ xhw.hch /\ xhw' = [xhw EXCEPT !.hch = FALSE]
    BY <2>1, Zenon DEF HwType
  <2>2. CASE ~xhw.rs /\ ~xhw.hch /\ xhw' = [xhw EXCEPT !.hch = TRUE]
    BY <2>2, Zenon DEF HwType
  <2>3. CASE xhw.cnr /\ ~xhw.hcrst /\ xhw' = [xhw EXCEPT !.cnr = FALSE]
    BY <2>3, Zenon DEF HwType
  <2>4. CASE \E p \in xhw.resets : xhw' = [xhw EXCEPT !.resets = @ \ {p}]
    BY <2>4, Zenon DEF HwType
  <2>5. CASE ~xhw.hch /\ xhw' = [xhw EXCEPT !.hse = TRUE, !.rs = FALSE, !.hch = TRUE]
    BY <2>5, Zenon DEF HwType
  <2> QED BY <1>3, <2>1, <2>2, <2>3, <2>4, <2>5, Zenon DEF ControllerStep
<1>4. CASE ResetCompletes
  <2>1. PICK waking \in BOOLEAN :
          xhw' = [xhw EXCEPT !.hcrst = FALSE, !.rs = FALSE, !.hch = TRUE, !.hse = FALSE, !.cnr = waking, !.resets = {},
                             !.regs = [r \in AddressRegisters |-> Null], !.held = {}]
    BY <1>4, Zenon DEF ResetCompletes
  <2>2. [r \in AddressRegisters |-> Null] \in [AddressRegisters -> Addresses \cup {Null}] /\ {} \in SUBSET Ports
        /\ {} \in SUBSET Addresses
    BY Zenon
  <2> HIDE DEF AddressRegisters
  <2>3. xhw' \in HwType
    BY <2>1, <2>2, ZenonT(40) DEF HwType
  <2> QED BY <2>1, <2>3 DEF HwType
<1>5. CASE \E a \in xhw.held : DmaFaults(a)
  BY <1>5, ZenonT(40) DEF HwType, DmaFaults
<1> QED BY <1>1, <1>2, <1>3, <1>4, <1>5, Zenon DEF Environment

\* What firmware and the controller do by themselves keeps it too.
LEMMA EnvironmentKeeps ==
  ASSUME EpochInv, Environment, UNCHANGED <<take, usb>>
  PROVE  EpochInv'
<1>1. /\ take \in TakeType /\ xhw \in HwType /\ usb \in UsbType /\ Hushed /\ Forgets /\ QuietTakeover
      /\ After /\ Staged /\ Writing /\ DmaContained /\ take' = take /\ usb' = usb
  BY Zenon DEF EpochInv, EpochTypeOK
<1>2. /\ xhw' \in HwType
      /\ xhw'.os = xhw.os /\ xhw'.smi = xhw.smi /\ xhw'.decode = xhw.decode /\ xhw'.master = xhw.master
      /\ xhw'.bios => xhw.bios
      /\ xhw'.hcrst => xhw.hcrst
      /\ (xhw'.held = xhw.held /\ xhw'.regs = xhw.regs /\ (xhw'.hcrst <=> xhw.hcrst)) \/ xhw'.held = {}
      /\ xhw'.resets \subseteq xhw.resets \/ xhw.bios \/ xhw.smi
      /\ ~xhw.rs => ~xhw'.rs \/ xhw.bios \/ xhw.smi
      /\ ~xhw.rs /\ xhw.hch => xhw'.hch
  BY <1>1, EnvironmentEffect, Zenon
<1>3. take.phase \in Silent => ~xhw.bios /\ ~xhw.smi
  BY <1>1, Zenon DEF Hushed
<1>4. take.phase = "ReadyHalted" => take.phase \in Silent
  BY Zenon DEF Silent, Drained
<1>5. usb.at # "takeover" => (Stopped => Stopped') /\ ~xhw.bios /\ ~xhw.smi
  BY <1>1, <1>2, <1>3, <1>4, Zenon DEF After, Stopped
<1>6. Hushed'
  BY <1>1, <1>2, <1>3, Zenon DEF Hushed, Silent, Drained, Stopping, Still, MaskPhases, ProbePhases
<1>7. Forgets'
  BY <1>1, <1>2, Zenon DEF Forgets
<1>8. After' /\ Writing'
  BY <1>1, Zenon DEF After, Writing
<1>9. Staged'
  <2>1. StagedOff'
    BY <1>1, <1>2, <1>5, Zenon DEF Staged, StagedOff, OffStages
  <2>2. StagedGuard'
    BY <1>1, <1>2, Zenon DEF Staged, StagedGuard
  <2>3. StagedForgotten'
    BY <1>1, <1>2, Zenon DEF Staged, StagedForgotten
  <2>4. StagedSession'
    BY <1>1, <1>2, <1>5, Zenon DEF Staged, StagedSession, ClosingStages
  <2> QED BY <2>1, <2>2, <2>3, <2>4, Zenon DEF Staged
<1>10. DmaContained'
  BY <1>1, <1>2, <1>5, Zenon DEF DmaContained, Staged, StagedOff
<1>11. QuietTakeover'
  BY <1>1, <1>2, <1>3, <1>6, Zenon DEF QuietTakeover, Hushed, Stopped, Silent, Drained, Stopping, Still, Before
<1> QED BY <1>1, <1>2, <1>6, <1>7, <1>8, <1>9, <1>10, <1>11, Zenon DEF EpochInv, EpochTypeOK

-----------------------------------------------------------------------------
(* The epoch.                                                              *)

\* Where the machine is not halted, the table of the stages says enough.
LEMMA StagedContains ==
  ASSUME xhw \in HwType, usb \in UsbType, Staged, usb.at # "halt"
  PROVE  DmaContained
<1> USE DEF OffStages, GuardedStages, ProgrammedStages, ClosingStages
<1>1. /\ FirmwareAddresses \cap UsbArena = {} /\ UsbArena \subseteq Addresses /\ FirmwareAddresses \subseteq Addresses
      /\ "event" \in UsbArena /\ "event" # Fault /\ "fw event" \in Addresses /\ Null \notin Addresses
  BY Arena, Zenon DEF FirmwareAddresses, Fault
<1>2. usb.at \in Stages /\ xhw.held \subseteq Addresses /\ usb.owned \subseteq UsbArena
  BY Zenon DEF UsbType, HwType
<1>3. \A a \in Addresses : Denied[a] = Fault
  BY Zenon DEF Denied
<1>4. CASE usb.at \in OffStages
  <2>1. ~usb.unit /\ xhw.held \subseteq FirmwareAddresses /\ usb.owned \in {{}, UsbArena}
    BY <1>4, Zenon DEF Staged, StagedOff
  <2> QED BY <1>1, <1>4, <2>1, Zenon DEF DmaContained
<1>5. CASE usb.at = "guard"
  <2>1. usb.unit /\ usb.map = Denied /\ xhw.held \subseteq FirmwareAddresses /\ usb.owned = UsbArena
    BY <1>5, Zenon DEF Staged, StagedOff, StagedGuard
  <2>2. \A a \in xhw.held : usb.map[a] = Fault /\ a \notin UsbArena
    BY <1>1, <1>2, <1>3, <2>1, Zenon
  <2> QED BY <1>5, <2>1, <2>2, Zenon DEF DmaContained
<1>6. CASE usb.at \in GuardedStages
  <2>1. usb.guard \in Addresses \cup {Null} /\ usb.owned = UsbArena
    BY <1>6, Zenon DEF UsbType, Staged, StagedOff
  <2>2. /\ usb.unit /\ usb.map = GuardMap(usb.guard) /\ xhw.held \subseteq FirmwareAddresses
        /\ usb.at \in {"reset", "reset waits"} /\ "fw event" \in xhw.held => usb.guard = "fw event"
    BY <1>6, Zenon DEF Staged, StagedGuard
  <2>3. \A a \in Addresses : usb.map[a] = IF a = usb.guard THEN "event" ELSE Fault
    BY <1>1, <2>1, <2>2, Zenon DEF GuardMap, Denied
  <2>4. \A a \in xhw.held : usb.map[a] \in {"event", Fault} /\ a \notin UsbArena
    BY <1>1, <1>2, <2>2, <2>3, Zenon
  <2>5. (usb.at \in {"reset", "reset waits"} /\ "fw event" \in xhw.held) => usb.map["fw event"] # Fault
    BY <1>1, <1>2, <2>2, <2>3, Zenon
  <2> QED BY <1>1, <1>6, <2>1, <2>2, <2>4, <2>5, Zenon DEF DmaContained
<1>7. CASE usb.at \in {"bind", "master", "prepare"}
  BY <1>7, Zenon DEF Staged, StagedOff, StagedForgotten, DmaContained
<1>8. CASE usb.at \in ProgrammedStages
  <2>1. usb.unit /\ usb.map = Identity /\ xhw.held \subseteq UsbArena /\ usb.owned = UsbArena
    BY <1>8, Zenon DEF Staged, StagedOff, StagedSession
  <2>2. \A a \in xhw.held : usb.map[a] = a
    BY <1>1, <2>1, Zenon DEF Identity
  <2> QED BY <1>8, <2>1, <2>2, Zenon DEF DmaContained
<1>9. CASE usb.at \in ClosingStages
  BY <1>9, Zenon DEF Staged, StagedOff, StagedForgotten, StagedSession, DmaContained
<1>10. CASE usb.at = "done"
  BY <1>10, Zenon DEF Staged, StagedSession, DmaContained
<1> QED BY <1>2, <1>4, <1>5, <1>6, <1>7, <1>8, <1>9, <1>10, Zenon DEF Stages

\* A machine that halts keeps what it has.
LEMMA HaltContains ==
  ASSUME DmaContained, usb'.at = "halt", xhw'.held = xhw.held, usb'.map = usb.map, usb'.owned = usb.owned,
         usb'.unit = usb.unit \/ xhw.held = {},
         usb.owned \in {{}, UsbArena} \/ (Stopped' /\ ~xhw'.master)
  PROVE  DmaContained'
<1>1. /\ \A a \in xhw.held : IF usb.unit THEN usb.map[a] \in usb.owned \cup {Fault} ELSE a \notin UsbArena
      /\ \A a \in xhw.held \cap UsbArena : usb.map[a] = a
      /\ (usb.owned # {} /\ usb.owned # UsbArena) => xhw.held = {} /\ Stopped /\ ~xhw.master
  BY Zenon DEF DmaContained
<1> QED BY <1>1, Zenon DEF DmaContained

\* What a call of main has to establish.
Settles ==
  /\ take' = take /\ take.phase = "ReadyHalted"
  /\ usb' \in UsbType /\ xhw' \in HwType /\ usb'.at # "takeover"
  /\ xhw'.bios = xhw.bios /\ xhw'.smi = xhw.smi /\ xhw'.resets = xhw.resets
  /\ Staged' /\ Writing' /\ (usb'.at = "halt" => DmaContained')

\* A call that settles in a stage keeps the inductive invariant.
LEMMA SettledKeeps ==
  ASSUME EpochInv, Settles
  PROVE  EpochInv'
<1>1. /\ take \in TakeType /\ Hushed /\ QuietTakeover /\ take' = take /\ take.phase = "ReadyHalted"
      /\ usb' \in UsbType /\ xhw' \in HwType /\ usb'.at # "takeover"
      /\ xhw'.bios = xhw.bios /\ xhw'.smi = xhw.smi /\ xhw'.resets = xhw.resets
      /\ Staged' /\ Writing' /\ (usb'.at = "halt" => DmaContained')
  BY Zenon DEF EpochInv, EpochTypeOK, Settles
<1>2. DmaContained'
  <2>1. (xhw \in HwType /\ usb \in UsbType /\ Staged /\ usb.at # "halt" => DmaContained)'
    BY StagedContains, PTL
  <2> QED BY <1>1, <2>1, Zenon
<1>3. Hushed'
  BY <1>1, Zenon DEF Hushed, Silent, Drained, Stopping, Still, MaskPhases, ProbePhases
<1>4. Forgets' /\ After'
  BY <1>1, Zenon DEF Forgets, After
<1>5. QuietTakeover'
  <2>1. Before(usb'.at) => Stopped' /\ ~xhw'.master
    BY <1>1, Zenon DEF Before, Staged, StagedOff, OffStages
  <2>2. take.mutated /\ ~xhw.bios /\ ~xhw.smi /\ xhw.resets = {}
    BY <1>1, Zenon DEF Hushed, Silent, Drained
  <2>3. take.lease <=> take.phase \in ArmedPhases
    BY <1>1, Zenon DEF QuietTakeover
  <2>4. take.phase \notin ProbePhases
    BY <1>1, Zenon DEF ProbePhases
  <2> QED BY <1>1, <2>1, <2>2, <2>3, <2>4, Zenon DEF QuietTakeover
<1> QED BY <1>1, <1>2, <1>3, <1>4, <1>5, Zenon DEF EpochInv, EpochTypeOK

\* The stages of the epoch that the proofs name are stages.
LEMMA StageNames ==
  /\ "takeover" \in Stages /\ "capture" \in Stages /\ "scrub" \in Stages /\ "scrub writes" \in Stages
  /\ "isolate" \in Stages /\ "guard" \in Stages /\ "reset" \in Stages /\ "reset waits" \in Stages
  /\ "unguard" \in Stages /\ "bind" \in Stages /\ "master" \in Stages /\ "prepare" \in Stages
  /\ "prepare writes" \in Stages /\ "start" \in Stages /\ "start waits" \in Stages /\ "command" \in Stages
  /\ "stop" \in Stages /\ "stop waits" \in Stages /\ "rescrub" \in Stages /\ "rescrub writes" \in Stages
  /\ "rereset" \in Stages /\ "rereset waits" \in Stages /\ "unmaster" \in Stages /\ "unbind" \in Stages
  /\ "shutdown" \in Stages /\ "release" \in Stages /\ "done" \in Stages /\ "halt" \in Stages
BY Zenon DEF Stages, OffStages, GuardedStages, ProgrammedStages, ClosingStages

\* A write transaction is one of the kinds of the epoch.
LEMMA TransactionsTyped ==
  Clears \in ClearWrites /\ Programs \in ProgramWrites /\ <<>> \in ClearWrites
BY DEF Clears, Programs, ClearWrites, ProgramWrites, AddressRegisters, Given

\* The maps of the epoch are of the type of maps.
LEMMA MapsTyped ==
  /\ Denied \in [Addresses -> UsbArena \cup {Fault}] /\ Identity \in [Addresses -> UsbArena \cup {Fault}]
  /\ \A g : GuardMap(g) \in [Addresses -> UsbArena \cup {Fault}]
<1>1. "event" \in UsbArena
  BY Arena, Zenon
<1>2. Denied \in [Addresses -> UsbArena \cup {Fault}] /\ Identity \in [Addresses -> UsbArena \cup {Fault}]
  BY Zenon DEF Denied, Identity
<1> QED BY <1>1, <1>2, Zenon DEF GuardMap

\* The calls of main after the takeover that write no address register.
LEMMA CallsSettle ==
  ASSUME EpochInv, usb.at # "takeover",
         \/ halted_event_dequeue_page
         \/ Begin("scrub", "scrub writes", Stopped, Clears)
         \/ End("scrub writes", "isolate", Stopped)
         \/ Begin("rescrub", "rescrub writes", Stopped, Clears)
         \/ End("rescrub writes", "rereset", Stopped)
         \/ Begin("prepare", "prepare writes", Halted, Programs)
         \/ End("prepare writes", "start", TRUE)
         \/ IsolateController
         \/ GuardMaps
         \/ GuardRevoked
         \/ MapArena
         \/ RunCommand
         \/ BindingRevoked
         \/ ResetEligible /\ Call("reset", "reset waits", usb) /\ xhw' = [xhw EXCEPT !.hcrst = TRUE] /\ UNCHANGED take
         \/ Halted /\ ~xhw.hcrst /\ ~xhw.cnr /\ Call("reset waits", "unguard", usb) /\ UNCHANGED takeVars
         \/ ResetEligible /\ Call("rereset", "rereset waits", usb) /\ xhw' = [xhw EXCEPT !.hcrst = TRUE] /\ UNCHANGED take
         \/ Halted /\ ~xhw.hcrst /\ ~xhw.cnr /\ Call("rereset waits", "unmaster", usb) /\ UNCHANGED takeVars
         \/ Halted /\ Call("start", "start waits", usb) /\ xhw' = [xhw EXCEPT !.rs = TRUE] /\ UNCHANGED take
         \/ ~xhw.hse /\ ~xhw.hch /\ Call("start waits", "command", usb) /\ UNCHANGED takeVars
         \/ Call("start waits", "halt", usb) /\ xhw' = [xhw EXCEPT !.rs = FALSE] /\ UNCHANGED take
         \/ xhw.rs /\ Call("stop", "stop waits", usb) /\ xhw' = [xhw EXCEPT !.rs = FALSE] /\ UNCHANGED take
         \/ ~xhw.hse /\ xhw.hch /\ Call("stop waits", "rescrub", usb) /\ UNCHANGED takeVars
         \/ Call("master", "prepare", usb) /\ xhw' = [xhw EXCEPT !.master = TRUE] /\ UNCHANGED take
         \/ Call("master", "halt", usb) /\ xhw' = [xhw EXCEPT !.master = TRUE] /\ UNCHANGED take
         \/ Call("unmaster", "unbind", usb) /\ xhw' = [xhw EXCEPT !.master = FALSE] /\ UNCHANGED take
         \/ Call("unmaster", "halt", usb) /\ xhw' = [xhw EXCEPT !.master = FALSE] /\ UNCHANGED take
         \/ Call("shutdown", "release", [usb EXCEPT !.unit = FALSE]) /\ UNCHANGED takeVars
         \/ Call("shutdown", "halt", [usb EXCEPT !.unit = FALSE]) /\ UNCHANGED takeVars
  PROVE  Settles
<1> USE DEF OffStages, GuardedStages, ProgrammedStages, ClosingStages
<1>1. /\ take \in TakeType /\ xhw \in HwType /\ usb \in UsbType /\ Staged /\ Writing /\ DmaContained
      /\ take.phase = "ReadyHalted"
  BY Zenon DEF EpochInv, EpochTypeOK, After
<1>2. CASE halted_event_dequeue_page
  <2>1. /\ usb.at = "capture" /\ usb'.at = "scrub" /\ usb'.writes = usb.writes
        /\ usb'.guard = xhw.regs["erdp"] /\ usb'.owned = usb.owned /\ usb'.unit = usb.unit
        /\ usb'.map = usb.map
    BY <1>1, <1>2, Zenon DEF halted_event_dequeue_page, Call, takeVars, UsbType
  <2>2. take' = take /\ xhw' \in HwType
        /\ xhw' = xhw
    BY <1>1, <1>2, Zenon DEF halted_event_dequeue_page, Call, takeVars
  <2>3. usb' \in UsbType
    BY <1>1, <1>2, StageNames, TransactionsTyped, MapsTyped, Zenon DEF halted_event_dequeue_page, Call, UsbType, HwType, AddressRegisters
  <2>4. Staged'
    BY <1>1, <2>1, <2>2, Zenon DEF Staged, StagedOff, StagedGuard, StagedForgotten, StagedSession, Stopped
  <2>5. Writing'
    BY <1>1, <2>1, TransactionsTyped, Zenon DEF Writing
  <2> QED BY <1>1, <2>1, <2>2, <2>3, <2>4, <2>5, Zenon DEF Settles
<1>3. CASE Begin("scrub", "scrub writes", Stopped, Clears)
  <2>1. /\ usb.at = "scrub" /\ usb'.at = "scrub writes" /\ usb'.writes = Clears /\ usb'.guard = usb.guard
        /\ usb'.owned = usb.owned /\ usb'.unit = usb.unit /\ usb'.map = usb.map
    BY <1>1, <1>3, Zenon DEF Begin, takeVars, UsbType
  <2>2. take' = take /\ xhw' \in HwType
        /\ xhw' = xhw
    BY <1>1, <1>3, Zenon DEF Begin, takeVars
  <2>3. usb' \in UsbType
    BY <1>1, <1>3, StageNames, TransactionsTyped, MapsTyped, Zenon DEF Begin, UsbType
  <2>4. Staged'
    BY <1>1, <2>1, <2>2, Zenon DEF Staged, StagedOff, StagedGuard, StagedForgotten, StagedSession, Stopped
  <2>5. Writing'
    BY <1>1, <2>1, TransactionsTyped, Zenon DEF Writing
  <2> QED BY <1>1, <2>1, <2>2, <2>3, <2>4, <2>5, Zenon DEF Settles
<1>4. CASE End("scrub writes", "isolate", Stopped)
  <2>1. /\ usb.at = "scrub writes" /\ usb'.at = "isolate" /\ usb'.writes = usb.writes
        /\ usb'.guard = usb.guard /\ usb'.owned = usb.owned /\ usb'.unit = usb.unit /\ usb'.map = usb.map
        /\ usb.writes = <<>>
    BY <1>1, <1>4, Zenon DEF End, Call, takeVars, UsbType
  <2>2. take' = take /\ xhw' \in HwType
        /\ xhw' = xhw
    BY <1>1, <1>4, Zenon DEF End, Call, takeVars
  <2>3. usb' \in UsbType
    BY <1>1, <1>4, StageNames, TransactionsTyped, MapsTyped, Zenon DEF End, Call, UsbType
  <2>4. Staged'
    BY <1>1, <2>1, <2>2, Zenon DEF Staged, StagedOff, StagedGuard, StagedForgotten, StagedSession, Stopped
  <2>5. Writing'
    BY <1>1, <2>1, TransactionsTyped, Zenon DEF Writing
  <2> QED BY <1>1, <2>1, <2>2, <2>3, <2>4, <2>5, Zenon DEF Settles
<1>5. CASE Begin("rescrub", "rescrub writes", Stopped, Clears)
  <2>1. /\ usb.at = "rescrub" /\ usb'.at = "rescrub writes" /\ usb'.writes = Clears /\ usb'.guard = usb.guard
        /\ usb'.owned = usb.owned /\ usb'.unit = usb.unit /\ usb'.map = usb.map
    BY <1>1, <1>5, Zenon DEF Begin, takeVars, UsbType
  <2>2. take' = take /\ xhw' \in HwType
        /\ xhw' = xhw
    BY <1>1, <1>5, Zenon DEF Begin, takeVars
  <2>3. usb' \in UsbType
    BY <1>1, <1>5, StageNames, TransactionsTyped, MapsTyped, Zenon DEF Begin, UsbType
  <2>4. Staged'
    BY <1>1, <2>1, <2>2, Zenon DEF Staged, StagedOff, StagedGuard, StagedForgotten, StagedSession, Stopped
  <2>5. Writing'
    BY <1>1, <2>1, TransactionsTyped, Zenon DEF Writing
  <2> QED BY <1>1, <2>1, <2>2, <2>3, <2>4, <2>5, Zenon DEF Settles
<1>6. CASE End("rescrub writes", "rereset", Stopped)
  <2>1. /\ usb.at = "rescrub writes" /\ usb'.at = "rereset" /\ usb'.writes = usb.writes
        /\ usb'.guard = usb.guard /\ usb'.owned = usb.owned /\ usb'.unit = usb.unit /\ usb'.map = usb.map
        /\ usb.writes = <<>>
    BY <1>1, <1>6, Zenon DEF End, Call, takeVars, UsbType
  <2>2. take' = take /\ xhw' \in HwType
        /\ xhw' = xhw
    BY <1>1, <1>6, Zenon DEF End, Call, takeVars
  <2>3. usb' \in UsbType
    BY <1>1, <1>6, StageNames, TransactionsTyped, MapsTyped, Zenon DEF End, Call, UsbType
  <2>4. Staged'
    BY <1>1, <2>1, <2>2, Zenon DEF Staged, StagedOff, StagedGuard, StagedForgotten, StagedSession, Stopped
  <2>5. Writing'
    BY <1>1, <2>1, TransactionsTyped, Zenon DEF Writing
  <2> QED BY <1>1, <2>1, <2>2, <2>3, <2>4, <2>5, Zenon DEF Settles
<1>7. CASE Begin("prepare", "prepare writes", Halted, Programs)
  <2>1. /\ usb.at = "prepare" /\ usb'.at = "prepare writes" /\ usb'.writes = Programs
        /\ usb'.guard = usb.guard /\ usb'.owned = usb.owned /\ usb'.unit = usb.unit /\ usb'.map = usb.map
    BY <1>1, <1>7, Zenon DEF Begin, takeVars, UsbType
  <2>2. take' = take /\ xhw' \in HwType
        /\ xhw' = xhw
    BY <1>1, <1>7, Zenon DEF Begin, takeVars
  <2>3. usb' \in UsbType
    BY <1>1, <1>7, StageNames, TransactionsTyped, MapsTyped, Zenon DEF Begin, UsbType
  <2>4. Staged'
    BY <1>1, <2>1, <2>2, Zenon DEF Staged, StagedOff, StagedGuard, StagedForgotten, StagedSession, Stopped
  <2>5. Writing'
    BY <1>1, <2>1, TransactionsTyped, Zenon DEF Writing
  <2> QED BY <1>1, <2>1, <2>2, <2>3, <2>4, <2>5, Zenon DEF Settles
<1>8. CASE End("prepare writes", "start", TRUE)
  <2>1. /\ usb.at = "prepare writes" /\ usb'.at = "start" /\ usb'.writes = usb.writes
        /\ usb'.guard = usb.guard /\ usb'.owned = usb.owned /\ usb'.unit = usb.unit /\ usb'.map = usb.map
        /\ usb.writes = <<>>
    BY <1>1, <1>8, Zenon DEF End, Call, takeVars, UsbType
  <2>2. take' = take /\ xhw' \in HwType
        /\ xhw' = xhw
    BY <1>1, <1>8, Zenon DEF End, Call, takeVars
  <2>3. usb' \in UsbType
    BY <1>1, <1>8, StageNames, TransactionsTyped, MapsTyped, Zenon DEF End, Call, UsbType
  <2>4. Staged'
    BY <1>1, <2>1, <2>2, Zenon DEF Staged, StagedOff, StagedGuard, StagedForgotten, StagedSession, Stopped
  <2>5. Writing'
    BY <1>1, <2>1, TransactionsTyped, Zenon DEF Writing
  <2> QED BY <1>1, <2>1, <2>2, <2>3, <2>4, <2>5, Zenon DEF Settles
<1>9. CASE IsolateController
  <2>1. /\ usb.at = "isolate" /\ usb'.at = "guard" /\ usb'.writes = usb.writes /\ usb'.guard = usb.guard
        /\ usb'.owned = usb.owned /\ usb'.unit = TRUE /\ usb'.map = usb.map
    BY <1>1, <1>9, Zenon DEF IsolateController, Call, takeVars, UsbType
  <2>2. take' = take /\ xhw' \in HwType
        /\ xhw' = xhw
    BY <1>1, <1>9, Zenon DEF IsolateController, Call, takeVars
  <2>3. usb' \in UsbType
    BY <1>1, <1>9, StageNames, TransactionsTyped, MapsTyped, Zenon DEF IsolateController, Call, UsbType
  <2>4. Staged'
    BY <1>1, <2>1, <2>2, Zenon DEF Staged, StagedOff, StagedGuard, StagedForgotten, StagedSession, Stopped
  <2>5. Writing'
    BY <1>1, <2>1, TransactionsTyped, Zenon DEF Writing
  <2> QED BY <1>1, <2>1, <2>2, <2>3, <2>4, <2>5, Zenon DEF Settles
<1>10. CASE GuardMaps
  <2>1. usb.at = "guard" /\ usb.map = Denied /\ usb.guard \in Addresses \cup {Null}
    BY <1>1, <1>10, Zenon DEF GuardMaps, Call, Staged, StagedGuard, UsbType
  <2>2. usb' = [usb EXCEPT !.map = GuardMap(usb.guard), !.at = "reset"] /\ take' = take /\ xhw' = xhw
    BY <1>1, <1>10, <2>1, Zenon DEF GuardMaps, Call, takeVars, GuardMap, UsbType
  <2>3. usb' \in UsbType
    BY <1>1, <2>2, StageNames, MapsTyped, Zenon DEF UsbType
  <2>4. /\ usb'.at = "reset" /\ usb'.writes = usb.writes /\ usb'.guard = usb.guard
        /\ usb'.owned = usb.owned /\ usb'.unit = usb.unit /\ usb'.map = GuardMap(usb'.guard)
    BY <1>1, <2>2, Zenon DEF UsbType
  <2>5. Staged'
    BY <1>1, <2>1, <2>2, <2>4, Zenon DEF Staged, StagedOff, StagedGuard, StagedForgotten, StagedSession, Stopped
  <2>6. Writing'
    BY <1>1, <2>1, <2>4, Zenon DEF Writing
  <2> QED BY <1>1, <2>2, <2>3, <2>5, <2>6, <2>4, Zenon DEF Settles
<1>11. CASE GuardRevoked
  <2>1. /\ usb.at = "unguard" /\ usb'.at = "bind" /\ usb'.writes = usb.writes /\ usb'.guard = usb.guard
        /\ usb'.owned = usb.owned /\ usb'.unit = usb.unit /\ usb'.map = Denied
    BY <1>1, <1>11, Zenon DEF GuardRevoked, Call, takeVars, UsbType
  <2>2. take' = take /\ xhw' \in HwType
        /\ xhw' = xhw
    BY <1>1, <1>11, Zenon DEF GuardRevoked, Call, takeVars
  <2>3. usb' \in UsbType
    BY <1>1, <1>11, StageNames, TransactionsTyped, MapsTyped, Zenon DEF GuardRevoked, Call, UsbType
  <2>4. Staged'
    BY <1>1, <2>1, <2>2, Zenon DEF Staged, StagedOff, StagedGuard, StagedForgotten, StagedSession, Stopped
  <2>5. Writing'
    BY <1>1, <2>1, TransactionsTyped, Zenon DEF Writing
  <2> QED BY <1>1, <2>1, <2>2, <2>3, <2>4, <2>5, Zenon DEF Settles
<1>12. CASE MapArena
  <2>1. /\ usb.at = "bind" /\ usb'.at = "master" /\ usb'.writes = usb.writes /\ usb'.guard = usb.guard
        /\ usb'.owned = usb.owned /\ usb'.unit = usb.unit /\ usb'.map = Identity
    BY <1>1, <1>12, Zenon DEF MapArena, Call, takeVars, UsbType, Identity
  <2>2. take' = take /\ xhw' \in HwType
        /\ xhw' = xhw
    BY <1>1, <1>12, Zenon DEF MapArena, Call, takeVars
  <2>3. usb' \in UsbType
    BY <1>1, <1>12, StageNames, TransactionsTyped, MapsTyped, Zenon DEF MapArena, Call, UsbType, Identity
  <2>4. Staged'
    BY <1>1, <2>1, <2>2, Zenon DEF Staged, StagedOff, StagedGuard, StagedForgotten, StagedSession, Stopped
  <2>5. Writing'
    BY <1>1, <2>1, TransactionsTyped, Zenon DEF Writing
  <2> QED BY <1>1, <2>1, <2>2, <2>3, <2>4, <2>5, Zenon DEF Settles
<1>13. CASE RunCommand
  <2>1. /\ usb.at = "command" /\ usb'.at = "stop" /\ usb'.writes = usb.writes /\ usb'.guard = usb.guard
        /\ usb'.owned = usb.owned /\ usb'.unit = usb.unit /\ usb'.map = usb.map
    BY <1>1, <1>13, Zenon DEF RunCommand, Call, takeVars, UsbType
  <2>2. take' = take /\ xhw' \in HwType
        /\ xhw' = xhw
    BY <1>1, <1>13, Zenon DEF RunCommand, Call, takeVars
  <2>3. usb' \in UsbType
    BY <1>1, <1>13, StageNames, TransactionsTyped, MapsTyped, Zenon DEF RunCommand, Call, UsbType
  <2>4. Staged'
    BY <1>1, <2>1, <2>2, Zenon DEF Staged, StagedOff, StagedGuard, StagedForgotten, StagedSession, Stopped
  <2>5. Writing'
    BY <1>1, <2>1, TransactionsTyped, Zenon DEF Writing
  <2> QED BY <1>1, <2>1, <2>2, <2>3, <2>4, <2>5, Zenon DEF Settles
<1>14. CASE BindingRevoked
  <2>1. /\ usb.at = "unbind" /\ usb'.at = "shutdown" /\ usb'.writes = usb.writes /\ usb'.guard = usb.guard
        /\ usb'.owned = usb.owned /\ usb'.unit = usb.unit /\ usb'.map = Denied
    BY <1>1, <1>14, Zenon DEF BindingRevoked, Call, takeVars, UsbType
  <2>2. take' = take /\ xhw' \in HwType
        /\ xhw' = xhw
    BY <1>1, <1>14, Zenon DEF BindingRevoked, Call, takeVars
  <2>3. usb' \in UsbType
    BY <1>1, <1>14, StageNames, TransactionsTyped, MapsTyped, Zenon DEF BindingRevoked, Call, UsbType
  <2>4. Staged'
    BY <1>1, <2>1, <2>2, Zenon DEF Staged, StagedOff, StagedGuard, StagedForgotten, StagedSession, Stopped
  <2>5. Writing'
    BY <1>1, <2>1, TransactionsTyped, Zenon DEF Writing
  <2> QED BY <1>1, <2>1, <2>2, <2>3, <2>4, <2>5, Zenon DEF Settles
<1>15. CASE ResetEligible /\ Call("reset", "reset waits", usb) /\ xhw' = [xhw EXCEPT !.hcrst = TRUE] /\ UNCHANGED take
  <2>1. /\ usb.at = "reset" /\ usb'.at = "reset waits" /\ usb'.writes = usb.writes /\ usb'.guard = usb.guard
        /\ usb'.owned = usb.owned /\ usb'.unit = usb.unit /\ usb'.map = usb.map
    BY <1>1, <1>15, Zenon DEF Call, takeVars, UsbType, HwType
  <2>2. take' = take /\ xhw' \in HwType
        /\ xhw'.bios = xhw.bios /\ xhw'.smi = xhw.smi /\ xhw'.rs = xhw.rs /\ xhw'.hcrst = TRUE
        /\ xhw'.hch = xhw.hch /\ xhw'.master = xhw.master /\ xhw'.resets = xhw.resets /\ xhw'.regs = xhw.regs
        /\ xhw'.held = xhw.held
    BY <1>1, <1>15, Zenon DEF Call, takeVars, HwType
  <2>3. usb' \in UsbType
    BY <1>1, <1>15, StageNames, TransactionsTyped, MapsTyped, Zenon DEF Call, UsbType
  <2>4. Staged'
    BY <1>1, <2>1, <2>2, Zenon DEF Staged, StagedOff, StagedGuard, StagedForgotten, StagedSession, Stopped
  <2>5. Writing'
    BY <1>1, <2>1, TransactionsTyped, Zenon DEF Writing
  <2> QED BY <1>1, <2>1, <2>2, <2>3, <2>4, <2>5, Zenon DEF Settles
<1>16. CASE Halted /\ ~xhw.hcrst /\ ~xhw.cnr /\ Call("reset waits", "unguard", usb) /\ UNCHANGED takeVars
  <2>1. /\ usb.at = "reset waits" /\ usb'.at = "unguard" /\ usb'.writes = usb.writes /\ usb'.guard = usb.guard
        /\ usb'.owned = usb.owned /\ usb'.unit = usb.unit /\ usb'.map = usb.map /\ ~xhw.hcrst /\ Stopped
    BY <1>1, <1>16, Zenon DEF Call, takeVars, UsbType, Halted
  <2>2. take' = take /\ xhw' \in HwType
        /\ xhw' = xhw
    BY <1>1, <1>16, Zenon DEF Call, takeVars
  <2>3. usb' \in UsbType
    BY <1>1, <1>16, StageNames, TransactionsTyped, MapsTyped, Zenon DEF Call, UsbType
  <2>4. Staged'
    BY <1>1, <2>1, <2>2, Zenon DEF Staged, StagedOff, StagedGuard, StagedForgotten, StagedSession, Stopped
  <2>5. Writing'
    BY <1>1, <2>1, TransactionsTyped, Zenon DEF Writing
  <2> QED BY <1>1, <2>1, <2>2, <2>3, <2>4, <2>5, Zenon DEF Settles
<1>17. CASE ResetEligible /\ Call("rereset", "rereset waits", usb) /\ xhw' = [xhw EXCEPT !.hcrst = TRUE] /\ UNCHANGED take
  <2>1. /\ usb.at = "rereset" /\ usb'.at = "rereset waits" /\ usb'.writes = usb.writes
        /\ usb'.guard = usb.guard /\ usb'.owned = usb.owned /\ usb'.unit = usb.unit /\ usb'.map = usb.map
    BY <1>1, <1>17, Zenon DEF Call, takeVars, UsbType, HwType
  <2>2. take' = take /\ xhw' \in HwType
        /\ xhw'.bios = xhw.bios /\ xhw'.smi = xhw.smi /\ xhw'.rs = xhw.rs /\ xhw'.hcrst = TRUE
        /\ xhw'.hch = xhw.hch /\ xhw'.master = xhw.master /\ xhw'.resets = xhw.resets /\ xhw'.regs = xhw.regs
        /\ xhw'.held = xhw.held
    BY <1>1, <1>17, Zenon DEF Call, takeVars, HwType
  <2>3. usb' \in UsbType
    BY <1>1, <1>17, StageNames, TransactionsTyped, MapsTyped, Zenon DEF Call, UsbType
  <2>4. Staged'
    BY <1>1, <2>1, <2>2, Zenon DEF Staged, StagedOff, StagedGuard, StagedForgotten, StagedSession, Stopped
  <2>5. Writing'
    BY <1>1, <2>1, TransactionsTyped, Zenon DEF Writing
  <2> QED BY <1>1, <2>1, <2>2, <2>3, <2>4, <2>5, Zenon DEF Settles
<1>18. CASE Halted /\ ~xhw.hcrst /\ ~xhw.cnr /\ Call("rereset waits", "unmaster", usb) /\ UNCHANGED takeVars
  <2>1. /\ usb.at = "rereset waits" /\ usb'.at = "unmaster" /\ usb'.writes = usb.writes
        /\ usb'.guard = usb.guard /\ usb'.owned = usb.owned /\ usb'.unit = usb.unit /\ usb'.map = usb.map
        /\ ~xhw.hcrst /\ Stopped
    BY <1>1, <1>18, Zenon DEF Call, takeVars, UsbType, Halted
  <2>2. take' = take /\ xhw' \in HwType
        /\ xhw' = xhw
    BY <1>1, <1>18, Zenon DEF Call, takeVars
  <2>3. usb' \in UsbType
    BY <1>1, <1>18, StageNames, TransactionsTyped, MapsTyped, Zenon DEF Call, UsbType
  <2>4. Staged'
    BY <1>1, <2>1, <2>2, Zenon DEF Staged, StagedOff, StagedGuard, StagedForgotten, StagedSession, Stopped
  <2>5. Writing'
    BY <1>1, <2>1, TransactionsTyped, Zenon DEF Writing
  <2> QED BY <1>1, <2>1, <2>2, <2>3, <2>4, <2>5, Zenon DEF Settles
<1>19. CASE Halted /\ Call("start", "start waits", usb) /\ xhw' = [xhw EXCEPT !.rs = TRUE] /\ UNCHANGED take
  <2>1. /\ usb.at = "start" /\ usb'.at = "start waits" /\ usb'.writes = usb.writes /\ usb'.guard = usb.guard
        /\ usb'.owned = usb.owned /\ usb'.unit = usb.unit /\ usb'.map = usb.map
    BY <1>1, <1>19, Zenon DEF Call, takeVars, UsbType, HwType
  <2>2. take' = take /\ xhw' \in HwType
        /\ xhw'.bios = xhw.bios /\ xhw'.smi = xhw.smi /\ xhw'.rs = TRUE /\ xhw'.hcrst = xhw.hcrst
        /\ xhw'.hch = xhw.hch /\ xhw'.master = xhw.master /\ xhw'.resets = xhw.resets /\ xhw'.regs = xhw.regs
        /\ xhw'.held = xhw.held
    BY <1>1, <1>19, Zenon DEF Call, takeVars, HwType
  <2>3. usb' \in UsbType
    BY <1>1, <1>19, StageNames, TransactionsTyped, MapsTyped, Zenon DEF Call, UsbType
  <2>4. Staged'
    BY <1>1, <2>1, <2>2, Zenon DEF Staged, StagedOff, StagedGuard, StagedForgotten, StagedSession, Stopped
  <2>5. Writing'
    BY <1>1, <2>1, TransactionsTyped, Zenon DEF Writing
  <2> QED BY <1>1, <2>1, <2>2, <2>3, <2>4, <2>5, Zenon DEF Settles
<1>20. CASE ~xhw.hse /\ ~xhw.hch /\ Call("start waits", "command", usb) /\ UNCHANGED takeVars
  <2>1. /\ usb.at = "start waits" /\ usb'.at = "command" /\ usb'.writes = usb.writes /\ usb'.guard = usb.guard
        /\ usb'.owned = usb.owned /\ usb'.unit = usb.unit /\ usb'.map = usb.map
    BY <1>1, <1>20, Zenon DEF Call, takeVars, UsbType
  <2>2. take' = take /\ xhw' \in HwType
        /\ xhw' = xhw
    BY <1>1, <1>20, Zenon DEF Call, takeVars
  <2>3. usb' \in UsbType
    BY <1>1, <1>20, StageNames, TransactionsTyped, MapsTyped, Zenon DEF Call, UsbType
  <2>4. Staged'
    BY <1>1, <2>1, <2>2, Zenon DEF Staged, StagedOff, StagedGuard, StagedForgotten, StagedSession, Stopped
  <2>5. Writing'
    BY <1>1, <2>1, TransactionsTyped, Zenon DEF Writing
  <2> QED BY <1>1, <2>1, <2>2, <2>3, <2>4, <2>5, Zenon DEF Settles
<1>21. CASE Call("start waits", "halt", usb) /\ xhw' = [xhw EXCEPT !.rs = FALSE] /\ UNCHANGED take
  <2>1. /\ usb.at = "start waits" /\ usb'.at = "halt" /\ usb'.writes = usb.writes /\ usb'.guard = usb.guard
        /\ usb'.owned = usb.owned /\ usb'.unit = usb.unit /\ usb'.map = usb.map
    BY <1>1, <1>21, Zenon DEF Call, takeVars, UsbType, HwType
  <2>2. take' = take /\ xhw' \in HwType
        /\ xhw'.bios = xhw.bios /\ xhw'.smi = xhw.smi /\ xhw'.rs = FALSE /\ xhw'.hcrst = xhw.hcrst
        /\ xhw'.hch = xhw.hch /\ xhw'.master = xhw.master /\ xhw'.resets = xhw.resets /\ xhw'.regs = xhw.regs
        /\ xhw'.held = xhw.held
    BY <1>1, <1>21, Zenon DEF Call, takeVars, HwType
  <2>3. usb' \in UsbType
    BY <1>1, <1>21, StageNames, TransactionsTyped, MapsTyped, Zenon DEF Call, UsbType
  <2>4. Staged'
    BY <1>1, <2>1, <2>2, Zenon DEF Staged, StagedOff, StagedGuard, StagedForgotten, StagedSession, Stopped
  <2>5. Writing'
    BY <1>1, <2>1, TransactionsTyped, Zenon DEF Writing
  <2>6. DmaContained'
    <3>1. usb.owned = UsbArena /\ (usb'.unit = usb.unit \/ xhw.held = {})
      BY <1>1, <2>1, Zenon DEF Staged, StagedOff, StagedForgotten
    <3> QED BY <1>1, <2>1, <2>2, <3>1, HaltContains, Zenon
  <2> QED BY <1>1, <2>1, <2>2, <2>3, <2>4, <2>5, <2>6, Zenon DEF Settles
<1>22. CASE xhw.rs /\ Call("stop", "stop waits", usb) /\ xhw' = [xhw EXCEPT !.rs = FALSE] /\ UNCHANGED take
  <2>1. /\ usb.at = "stop" /\ usb'.at = "stop waits" /\ usb'.writes = usb.writes /\ usb'.guard = usb.guard
        /\ usb'.owned = usb.owned /\ usb'.unit = usb.unit /\ usb'.map = usb.map
    BY <1>1, <1>22, Zenon DEF Call, takeVars, UsbType, HwType
  <2>2. take' = take /\ xhw' \in HwType
        /\ xhw'.bios = xhw.bios /\ xhw'.smi = xhw.smi /\ xhw'.rs = FALSE /\ xhw'.hcrst = xhw.hcrst
        /\ xhw'.hch = xhw.hch /\ xhw'.master = xhw.master /\ xhw'.resets = xhw.resets /\ xhw'.regs = xhw.regs
        /\ xhw'.held = xhw.held
    BY <1>1, <1>22, Zenon DEF Call, takeVars, HwType
  <2>3. usb' \in UsbType
    BY <1>1, <1>22, StageNames, TransactionsTyped, MapsTyped, Zenon DEF Call, UsbType
  <2>4. Staged'
    BY <1>1, <2>1, <2>2, Zenon DEF Staged, StagedOff, StagedGuard, StagedForgotten, StagedSession, Stopped
  <2>5. Writing'
    BY <1>1, <2>1, TransactionsTyped, Zenon DEF Writing
  <2> QED BY <1>1, <2>1, <2>2, <2>3, <2>4, <2>5, Zenon DEF Settles
<1>23. CASE ~xhw.hse /\ xhw.hch /\ Call("stop waits", "rescrub", usb) /\ UNCHANGED takeVars
  <2>1. /\ usb.at = "stop waits" /\ usb'.at = "rescrub" /\ usb'.writes = usb.writes /\ usb'.guard = usb.guard
        /\ usb'.owned = usb.owned /\ usb'.unit = usb.unit /\ usb'.map = usb.map
    BY <1>1, <1>23, Zenon DEF Call, takeVars, UsbType
  <2>2. take' = take /\ xhw' \in HwType
        /\ xhw' = xhw
    BY <1>1, <1>23, Zenon DEF Call, takeVars
  <2>3. usb' \in UsbType
    BY <1>1, <1>23, StageNames, TransactionsTyped, MapsTyped, Zenon DEF Call, UsbType
  <2>4. Staged'
    BY <1>1, <2>1, <2>2, Zenon DEF Staged, StagedOff, StagedGuard, StagedForgotten, StagedSession, Stopped
  <2>5. Writing'
    BY <1>1, <2>1, TransactionsTyped, Zenon DEF Writing
  <2> QED BY <1>1, <2>1, <2>2, <2>3, <2>4, <2>5, Zenon DEF Settles
<1>24. CASE Call("master", "prepare", usb) /\ xhw' = [xhw EXCEPT !.master = TRUE] /\ UNCHANGED take
  <2>1. /\ usb.at = "master" /\ usb'.at = "prepare" /\ usb'.writes = usb.writes /\ usb'.guard = usb.guard
        /\ usb'.owned = usb.owned /\ usb'.unit = usb.unit /\ usb'.map = usb.map
    BY <1>1, <1>24, Zenon DEF Call, takeVars, UsbType, HwType
  <2>2. take' = take /\ xhw' \in HwType
        /\ xhw'.bios = xhw.bios /\ xhw'.smi = xhw.smi /\ xhw'.rs = xhw.rs /\ xhw'.hcrst = xhw.hcrst
        /\ xhw'.hch = xhw.hch /\ xhw'.master = TRUE /\ xhw'.resets = xhw.resets /\ xhw'.regs = xhw.regs
        /\ xhw'.held = xhw.held
    BY <1>1, <1>24, Zenon DEF Call, takeVars, HwType
  <2>3. usb' \in UsbType
    BY <1>1, <1>24, StageNames, TransactionsTyped, MapsTyped, Zenon DEF Call, UsbType
  <2>4. Staged'
    BY <1>1, <2>1, <2>2, Zenon DEF Staged, StagedOff, StagedGuard, StagedForgotten, StagedSession, Stopped
  <2>5. Writing'
    BY <1>1, <2>1, TransactionsTyped, Zenon DEF Writing
  <2> QED BY <1>1, <2>1, <2>2, <2>3, <2>4, <2>5, Zenon DEF Settles
<1>25. CASE Call("master", "halt", usb) /\ xhw' = [xhw EXCEPT !.master = TRUE] /\ UNCHANGED take
  <2>1. /\ usb.at = "master" /\ usb'.at = "halt" /\ usb'.writes = usb.writes /\ usb'.guard = usb.guard
        /\ usb'.owned = usb.owned /\ usb'.unit = usb.unit /\ usb'.map = usb.map
    BY <1>1, <1>25, Zenon DEF Call, takeVars, UsbType, HwType
  <2>2. take' = take /\ xhw' \in HwType
        /\ xhw'.bios = xhw.bios /\ xhw'.smi = xhw.smi /\ xhw'.rs = xhw.rs /\ xhw'.hcrst = xhw.hcrst
        /\ xhw'.hch = xhw.hch /\ xhw'.master = TRUE /\ xhw'.resets = xhw.resets /\ xhw'.regs = xhw.regs
        /\ xhw'.held = xhw.held
    BY <1>1, <1>25, Zenon DEF Call, takeVars, HwType
  <2>3. usb' \in UsbType
    BY <1>1, <1>25, StageNames, TransactionsTyped, MapsTyped, Zenon DEF Call, UsbType
  <2>4. Staged'
    BY <1>1, <2>1, <2>2, Zenon DEF Staged, StagedOff, StagedGuard, StagedForgotten, StagedSession, Stopped
  <2>5. Writing'
    BY <1>1, <2>1, TransactionsTyped, Zenon DEF Writing
  <2>6. DmaContained'
    <3>1. usb.owned = UsbArena /\ (usb'.unit = usb.unit \/ xhw.held = {})
      BY <1>1, <2>1, Zenon DEF Staged, StagedOff, StagedForgotten
    <3> QED BY <1>1, <2>1, <2>2, <3>1, HaltContains, Zenon
  <2> QED BY <1>1, <2>1, <2>2, <2>3, <2>4, <2>5, <2>6, Zenon DEF Settles
<1>26. CASE Call("unmaster", "unbind", usb) /\ xhw' = [xhw EXCEPT !.master = FALSE] /\ UNCHANGED take
  <2>1. /\ usb.at = "unmaster" /\ usb'.at = "unbind" /\ usb'.writes = usb.writes /\ usb'.guard = usb.guard
        /\ usb'.owned = usb.owned /\ usb'.unit = usb.unit /\ usb'.map = usb.map
    BY <1>1, <1>26, Zenon DEF Call, takeVars, UsbType, HwType
  <2>2. take' = take /\ xhw' \in HwType
        /\ xhw'.bios = xhw.bios /\ xhw'.smi = xhw.smi /\ xhw'.rs = xhw.rs /\ xhw'.hcrst = xhw.hcrst
        /\ xhw'.hch = xhw.hch /\ xhw'.master = FALSE /\ xhw'.resets = xhw.resets /\ xhw'.regs = xhw.regs
        /\ xhw'.held = xhw.held
    BY <1>1, <1>26, Zenon DEF Call, takeVars, HwType
  <2>3. usb' \in UsbType
    BY <1>1, <1>26, StageNames, TransactionsTyped, MapsTyped, Zenon DEF Call, UsbType
  <2>4. Staged'
    BY <1>1, <2>1, <2>2, Zenon DEF Staged, StagedOff, StagedGuard, StagedForgotten, StagedSession, Stopped
  <2>5. Writing'
    BY <1>1, <2>1, TransactionsTyped, Zenon DEF Writing
  <2> QED BY <1>1, <2>1, <2>2, <2>3, <2>4, <2>5, Zenon DEF Settles
<1>27. CASE Call("unmaster", "halt", usb) /\ xhw' = [xhw EXCEPT !.master = FALSE] /\ UNCHANGED take
  <2>1. /\ usb.at = "unmaster" /\ usb'.at = "halt" /\ usb'.writes = usb.writes /\ usb'.guard = usb.guard
        /\ usb'.owned = usb.owned /\ usb'.unit = usb.unit /\ usb'.map = usb.map
    BY <1>1, <1>27, Zenon DEF Call, takeVars, UsbType, HwType
  <2>2. take' = take /\ xhw' \in HwType
        /\ xhw'.bios = xhw.bios /\ xhw'.smi = xhw.smi /\ xhw'.rs = xhw.rs /\ xhw'.hcrst = xhw.hcrst
        /\ xhw'.hch = xhw.hch /\ xhw'.master = FALSE /\ xhw'.resets = xhw.resets /\ xhw'.regs = xhw.regs
        /\ xhw'.held = xhw.held
    BY <1>1, <1>27, Zenon DEF Call, takeVars, HwType
  <2>3. usb' \in UsbType
    BY <1>1, <1>27, StageNames, TransactionsTyped, MapsTyped, Zenon DEF Call, UsbType
  <2>4. Staged'
    BY <1>1, <2>1, <2>2, Zenon DEF Staged, StagedOff, StagedGuard, StagedForgotten, StagedSession, Stopped
  <2>5. Writing'
    BY <1>1, <2>1, TransactionsTyped, Zenon DEF Writing
  <2>6. DmaContained'
    <3>1. usb.owned = UsbArena /\ (usb'.unit = usb.unit \/ xhw.held = {})
      BY <1>1, <2>1, Zenon DEF Staged, StagedOff, StagedForgotten
    <3> QED BY <1>1, <2>1, <2>2, <3>1, HaltContains, Zenon
  <2> QED BY <1>1, <2>1, <2>2, <2>3, <2>4, <2>5, <2>6, Zenon DEF Settles
<1>28. CASE Call("shutdown", "release", [usb EXCEPT !.unit = FALSE]) /\ UNCHANGED takeVars
  <2>1. /\ usb.at = "shutdown" /\ usb'.at = "release" /\ usb'.writes = usb.writes /\ usb'.guard = usb.guard
        /\ usb'.owned = usb.owned /\ usb'.unit = FALSE /\ usb'.map = usb.map
    BY <1>1, <1>28, Zenon DEF Call, takeVars, UsbType
  <2>2. take' = take /\ xhw' \in HwType
        /\ xhw' = xhw
    BY <1>1, <1>28, Zenon DEF Call, takeVars
  <2>3. usb' \in UsbType
    BY <1>1, <1>28, StageNames, TransactionsTyped, MapsTyped, Zenon DEF Call, UsbType
  <2>4. Staged'
    BY <1>1, <2>1, <2>2, Zenon DEF Staged, StagedOff, StagedGuard, StagedForgotten, StagedSession, Stopped
  <2>5. Writing'
    BY <1>1, <2>1, TransactionsTyped, Zenon DEF Writing
  <2> QED BY <1>1, <2>1, <2>2, <2>3, <2>4, <2>5, Zenon DEF Settles
<1>29. CASE Call("shutdown", "halt", [usb EXCEPT !.unit = FALSE]) /\ UNCHANGED takeVars
  <2>1. /\ usb.at = "shutdown" /\ usb'.at = "halt" /\ usb'.writes = usb.writes /\ usb'.guard = usb.guard
        /\ usb'.owned = usb.owned /\ usb'.unit = FALSE /\ usb'.map = usb.map
    BY <1>1, <1>29, Zenon DEF Call, takeVars, UsbType
  <2>2. take' = take /\ xhw' \in HwType
        /\ xhw' = xhw
    BY <1>1, <1>29, Zenon DEF Call, takeVars
  <2>3. usb' \in UsbType
    BY <1>1, <1>29, StageNames, TransactionsTyped, MapsTyped, Zenon DEF Call, UsbType
  <2>4. Staged'
    BY <1>1, <2>1, <2>2, Zenon DEF Staged, StagedOff, StagedGuard, StagedForgotten, StagedSession, Stopped
  <2>5. Writing'
    BY <1>1, <2>1, TransactionsTyped, Zenon DEF Writing
  <2>6. DmaContained'
    <3>1. usb.owned = UsbArena /\ (usb'.unit = usb.unit \/ xhw.held = {})
      BY <1>1, <2>1, Zenon DEF Staged, StagedOff, StagedForgotten
    <3> QED BY <1>1, <2>1, <2>2, <3>1, HaltContains, Zenon
  <2> QED BY <1>1, <2>1, <2>2, <2>3, <2>4, <2>5, <2>6, Zenon DEF Settles
<1> QED BY <1>2, <1>3, <1>4, <1>5, <1>6, <1>7, <1>8, <1>9, <1>10, <1>11, <1>12, <1>13, <1>14, <1>15, <1>16, <1>17, <1>18, <1>19, <1>20, <1>21, <1>22, <1>23, <1>24, <1>25, <1>26, <1>27, <1>28, <1>29, ZenonT(40)

\* The epoch begins, or there is none.
LEMMA UnitSettles ==
  ASSUME EpochInv, UnitProven \/ UnitUnproven
  PROVE  Settles
<1> USE DEF OffStages, GuardedStages, ProgrammedStages, ClosingStages
<1>1. /\ take \in TakeType /\ xhw \in HwType /\ usb \in UsbType /\ Staged /\ Writing /\ DmaContained
      /\ Forgets /\ QuietTakeover
  BY Zenon DEF EpochInv, EpochTypeOK
<1>2. /\ take.phase = "ReadyHalted" /\ usb.at = "takeover" /\ take' = take /\ xhw' = xhw
      /\ usb.writes = <<>> /\ ~usb.unit /\ usb.owned = {}
  BY <1>1, Zenon DEF UnitProven, UnitUnproven, Call, takeVars, Writing, Staged, StagedOff
<1>3. Stopped /\ ~xhw.master
  BY <1>1, <1>2, Zenon DEF QuietTakeover, Before
<1>4. CASE UnitProven
  <2>1. /\ usb'.at = "capture" /\ usb'.owned = UsbArena /\ usb'.writes = <<>> /\ usb'.unit = usb.unit
        /\ usb'.map = usb.map
    BY <1>1, <1>2, <1>4, Zenon DEF UnitProven, Call, UsbType
  <2>2. usb' \in UsbType
    BY <1>1, <1>4, StageNames, Zenon DEF UnitProven, Call, UsbType
  <2>3. Staged'
    BY <1>1, <1>2, <1>3, <2>1, Zenon DEF Staged, StagedOff, StagedGuard, StagedForgotten, StagedSession, Stopped
  <2> QED BY <1>1, <1>2, <2>1, <2>2, <2>3, Zenon DEF Settles, Writing
<1>5. CASE UnitUnproven
  <2>1. /\ usb'.at = (IF take.policy = "Defer" THEN "halt" ELSE "done") /\ usb'.writes = <<>>
        /\ usb'.unit = usb.unit /\ usb'.map = usb.map /\ usb'.owned = usb.owned
    BY <1>1, <1>2, <1>5, Zenon DEF UnitUnproven, Call, UsbType
  <2>2. usb' \in UsbType
    BY <1>1, <1>5, StageNames, Zenon DEF UnitUnproven, Call, UsbType
  <2>3. take.policy # "Defer" => xhw.held = {}
    BY <1>1, <1>2, Zenon DEF Forgets, WasReset, TakeType
  <2>4. Staged'
    BY <1>1, <1>2, <1>3, <2>1, <2>3, Zenon DEF Staged, StagedOff, StagedGuard, StagedForgotten, StagedSession, Stopped
  <2>5. usb'.at = "halt" => DmaContained'
    BY <1>1, <1>2, <2>1, HaltContains, Zenon
  <2> QED BY <1>1, <1>2, <2>1, <2>2, <2>4, <2>5, Zenon DEF Settles, Writing
<1> QED BY <1>4, <1>5, Zenon

\* An address register is written: by a scrub with null, by the programming with
\* an address of the arena.
LEMMA WriteSettles ==
  ASSUME EpochInv, WriteAddress
  PROVE  Settles
<1> USE DEF OffStages, GuardedStages, ProgrammedStages, ClosingStages
<1> DEFINE w == Head(usb.writes)
<1>1. /\ take \in TakeType /\ xhw \in HwType /\ usb \in UsbType /\ Staged /\ Writing /\ After
      /\ usb.writes # <<>> /\ take' = take
      /\ xhw' = [xhw EXCEPT !.regs[w[1]] = w[2], !.held = @ \cup Reached(w[2])]
      /\ usb' = [usb EXCEPT !.writes = Tail(@)]
  BY Zenon DEF EpochInv, EpochTypeOK, WriteAddress
<1>2. usb.at \in {"scrub writes", "rescrub writes", "prepare writes"} /\ take.phase = "ReadyHalted"
  BY <1>1, Zenon DEF Writing, After
<1>3. /\ w[1] \in AddressRegisters
      /\ usb.at # "prepare writes" => w[2] = Null /\ Tail(usb.writes) \in ClearWrites
      /\ usb.at = "prepare writes" => w[2] \in Given /\ Tail(usb.writes) \in ProgramWrites
  <2>1. CASE usb.at # "prepare writes"
    <3>1. usb.writes \in Seq(AddressRegisters \X {Null})
      BY <1>1, <1>2, <2>1, Zenon DEF Writing, ClearWrites
    <3>2. w \in AddressRegisters \X {Null} /\ Tail(usb.writes) \in Seq(AddressRegisters \X {Null})
      BY <1>1, <3>1
    <3> QED BY <2>1, <3>2, Zenon DEF ClearWrites
  <2>2. CASE usb.at = "prepare writes"
    <3>1. usb.writes \in Seq(AddressRegisters \X Given)
      BY <1>1, <2>2, Zenon DEF Writing, ProgramWrites
    <3>2. w \in AddressRegisters \X Given /\ Tail(usb.writes) \in Seq(AddressRegisters \X Given)
      BY <1>1, <3>1
    <3> QED BY <2>2, <3>2, Zenon DEF ProgramWrites
  <2> QED BY <2>1, <2>2, Zenon
<1> HIDE DEF w
<1>4. w[2] \in Addresses \cup {Null} /\ Reached(w[2]) \subseteq UsbArena /\ UsbArena \subseteq Addresses
      /\ (usb.at # "prepare writes" => Reached(w[2]) = {})
  BY <1>3, Arena, Zenon DEF Given
<1>5. /\ usb'.at = usb.at /\ usb'.writes = Tail(usb.writes) /\ usb'.guard = usb.guard /\ usb'.owned = usb.owned
      /\ usb'.unit = usb.unit /\ usb'.map = usb.map /\ usb' \in UsbType
  BY <1>1, <1>2, <1>3, Zenon DEF UsbType
<1>6. [xhw.regs EXCEPT ![w[1]] = w[2]] \in [AddressRegisters -> Addresses \cup {Null}]
  BY <1>1, <1>4, Zenon DEF HwType
<1>7. xhw' = [xhw EXCEPT !.regs = [xhw.regs EXCEPT ![w[1]] = w[2]], !.held = xhw.held \cup Reached(w[2])]
  BY <1>1, Zenon DEF HwType
<1>8. /\ xhw' \in HwType /\ xhw'.bios = xhw.bios /\ xhw'.smi = xhw.smi /\ xhw'.resets = xhw.resets
      /\ xhw'.rs = xhw.rs /\ xhw'.hch = xhw.hch /\ xhw'.master = xhw.master /\ xhw'.hcrst = xhw.hcrst
      /\ xhw'.held = xhw.held \cup Reached(w[2])
  BY <1>1, <1>4, <1>6, <1>7, Zenon DEF HwType
<1>9. Staged'
  BY <1>1, <1>2, <1>4, <1>5, <1>8, Zenon DEF Staged, StagedOff, StagedGuard, StagedForgotten, StagedSession, Stopped
<1>10. Writing'
  BY <1>2, <1>3, <1>5, Zenon DEF Writing
<1> QED BY <1>1, <1>2, <1>5, <1>8, <1>9, <1>10, Zenon DEF Settles

\* The arena is given back, and any call may fail.
LEMMA EndSettles ==
  ASSUME EpochInv, release_records \/ Fails
  PROVE  Settles
<1> USE DEF OffStages, GuardedStages, ProgrammedStages, ClosingStages
<1>1. /\ take \in TakeType /\ xhw \in HwType /\ usb \in UsbType /\ Staged /\ Writing /\ DmaContained /\ After
  BY Zenon DEF EpochInv, EpochTypeOK
<1>2. CASE release_records
  <2> DEFINE rest == usb.owned \ {RegionOrder[Cardinality(usb.owned)]}
  <2>1. /\ usb.at = "release" /\ usb' = [usb EXCEPT !.owned = rest, !.at = IF rest = {} THEN "done" ELSE "release"]
        /\ take' = take /\ xhw' = xhw
    BY <1>1, <1>2, Zenon DEF release_records, Call, takeVars, UsbType
  <2>2. rest \subseteq UsbArena
    BY <1>1, Zenon DEF UsbType
  <2> HIDE DEF rest
  <2>3. usb' \in UsbType /\ usb'.at \in {"done", "release"} /\ usb'.writes = usb.writes /\ usb'.unit = usb.unit
    BY <1>1, <2>1, <2>2, StageNames, Zenon DEF UsbType
  <2>4. Staged'
    BY <1>1, <2>1, <2>3, Zenon DEF Staged, StagedOff, StagedGuard, StagedForgotten, StagedSession, Stopped
  <2>5. Writing'
    BY <1>1, <2>1, <2>3, Zenon DEF Writing
  <2> QED BY <1>1, <2>1, <2>3, <2>4, <2>5, Zenon DEF Settles, After
<1>3. CASE Fails
  <2>1. /\ usb.at # "takeover" /\ usb' = [usb EXCEPT !.at = "halt", !.writes = <<>>]
        /\ take' = take /\ xhw' = xhw
    BY <1>3, Zenon DEF Fails, takeVars
  <2>2. /\ usb' \in UsbType /\ usb'.at = "halt" /\ usb'.writes = <<>> /\ usb'.unit = usb.unit /\ usb'.map = usb.map
        /\ usb'.owned = usb.owned
    BY <1>1, <2>1, StageNames, TransactionsTyped, Zenon DEF UsbType
  <2>3. Staged' /\ Writing'
    BY <2>2, Zenon DEF Staged, StagedOff, StagedGuard, StagedForgotten, StagedSession, Writing
  <2>4. usb.owned \in {{}, UsbArena} \/ (Stopped' /\ ~xhw'.master)
    BY <1>1, <2>1, Zenon DEF DmaContained, Stopped
  <2>5. DmaContained'
    BY <1>1, <2>1, <2>2, <2>4, HaltContains, Zenon
  <2> QED BY <1>1, <2>1, <2>2, <2>3, <2>5, Zenon DEF Settles, After
<1> QED BY <1>2, <1>3

-----------------------------------------------------------------------------
(* The theorems.                                                           *)

\* The inductive invariant holds before the first step.
LEMMA InitEpochInv == UsbInit => EpochInv
<1> SUFFICES ASSUME UsbInit PROVE EpochInv
  BY Zenon
<1>1. TakeInit /\ usb = [at |-> "takeover", writes |-> <<>>, guard |-> Null, owned |-> {}, unit |-> FALSE, map |-> Denied]
  BY Zenon DEF UsbInit
<1>2. PICK legacy \in BOOLEAN, runs \in BOOLEAN, smi \in BOOLEAN, waking \in BOOLEAN, rule \in {"BeforeReady", "Defer"},
           regs \in FirmwareRegisters, resets \in SUBSET Ports :
        /\ smi => legacy
        /\ take = [phase |-> IF legacy THEN "ClaimLegacyOwnership" ELSE "ArmInitialReady", policy |-> rule,
                   port |-> 1, saw |-> FALSE, lease |-> FALSE, mutated |-> FALSE, aperture |-> FALSE]
        /\ xhw = [bios |-> legacy, os |-> FALSE, smi |-> smi, rs |-> runs, hcrst |-> FALSE, hch |-> ~runs, cnr |-> waking,
                  hse |-> FALSE, resets |-> resets, decode |-> TRUE, master |-> TRUE, regs |-> regs, held |-> NonNull(regs)]
  BY <1>1, Zenon DEF TakeInit
<1>3. take \in TakeType
  <2>1. 1 \in Ports
    BY PortsAssumption DEF Ports
  <2> QED BY <1>2, <2>1, PhaseNames, Zenon DEF TakeType
<1>4. /\ regs \in [AddressRegisters -> FirmwareAddresses \cup {Null}] /\ NonNull(regs) \subseteq FirmwareAddresses
      /\ "fw event" \in NonNull(regs) => regs["erdp"] = "fw event"
  <2>1. \/ \E event \in {Null, "fw event"} : regs = [r \in AddressRegisters |-> IF r = "erdp" THEN event ELSE "fw ring"]
        \/ regs = [r \in AddressRegisters |-> Null]
    BY Zenon DEF FirmwareRegisters
  <2>2. "fw ring" # "fw event" /\ Null # "fw event" /\ Null # "fw ring"
    BY Zenon DEF Null
  <2>3. /\ regs \in [AddressRegisters -> FirmwareAddresses \cup {Null}]
        /\ \A r \in AddressRegisters : regs[r] = "fw event" => r = "erdp"
    BY <2>1, <2>2, Zenon DEF FirmwareAddresses
  <2> QED BY <2>3, Zenon DEF NonNull
<1>5. xhw \in HwType
  <2>1. regs \in [AddressRegisters -> Addresses \cup {Null}] /\ NonNull(regs) \in SUBSET Addresses
    BY <1>4, Arena, Zenon
  <2>2. (~runs) \in BOOLEAN
    BY Zenon
  <2> QED BY <1>2, <2>1, <2>2, Zenon DEF HwType
<1>6. usb \in UsbType
  BY <1>1, StageNames, TransactionsTyped, MapsTyped, Zenon DEF UsbType
<1>7. /\ take.phase \in {"ClaimLegacyOwnership", "ArmInitialReady"} /\ take.port = 1 /\ ~take.saw /\ ~take.lease
      /\ ~take.mutated /\ (take.phase = "ArmInitialReady" => ~xhw.bios /\ ~xhw.smi)
      /\ ~xhw.os /\ ~xhw.hcrst /\ xhw.master /\ xhw.decode
      /\ xhw.held = NonNull(regs) /\ xhw.regs = regs
  BY <1>2, Zenon
<1>8. Hushed
  BY <1>7, Zenon DEF Hushed, Silent, Drained, Stopping, Still, MaskPhases, ProbePhases
<1>9. Forgets /\ After /\ Writing
  BY <1>1, <1>7, Zenon DEF Forgets, After, Writing, WasReset
<1>10. Staged
  BY <1>1, <1>4, <1>7, Zenon DEF Staged, StagedOff, StagedGuard, StagedForgotten, StagedSession, OffStages, GuardedStages,
     ProgrammedStages, ClosingStages
<1>11. DmaContained
  BY <1>1, <1>5, <1>6, <1>10, StagedContains, Zenon
<1>12. QuietTakeover
  BY <1>7, Zenon DEF QuietTakeover, ProbePhases, ArmedPhases
<1> QED BY <1>3, <1>5, <1>6, <1>8, <1>9, <1>10, <1>11, <1>12, Zenon DEF EpochInv, EpochTypeOK

\* Every step of the epoch keeps it.
LEMMA NextEpochInv == EpochInv /\ [UsbNext]_usbVars => EpochInv'
<1> SUFFICES ASSUME EpochInv, [UsbNext]_usbVars PROVE EpochInv'
  BY Zenon
<1>1. CASE UNCHANGED usbVars
  <2>1. take' = take /\ xhw' = xhw /\ usb' = usb
    BY <1>1, Zenon DEF usbVars
  <2>2. /\ EpochTypeOK /\ Hushed /\ Forgets /\ After /\ StagedOff /\ StagedGuard /\ StagedForgotten
        /\ StagedSession /\ Writing /\ DmaContained /\ QuietTakeover /\ (Stopped <=> Stopped')
    BY <2>1, Zenon DEF EpochInv, Staged, Stopped
  <2>3. (EpochTypeOK /\ Forgets /\ After /\ Writing)'
    BY <2>1, <2>2, Zenon DEF EpochTypeOK, Forgets, After, Writing
  <2>4. Hushed'
    BY <2>1, <2>2, Zenon DEF Hushed
  <2>5. StagedOff'
    BY <2>1, <2>2, Zenon DEF StagedOff
  <2>6. StagedGuard'
    BY <2>1, <2>2, Zenon DEF StagedGuard
  <2>7. StagedForgotten' /\ StagedSession'
    BY <2>1, <2>2, Zenon DEF StagedForgotten, StagedSession
  <2>8. (DmaContained /\ QuietTakeover)'
    BY <2>1, <2>2, Zenon DEF DmaContained, QuietTakeover
  <2> QED BY <2>3, <2>4, <2>5, <2>6, <2>7, <2>8, Zenon DEF EpochInv, Staged
<1>2. CASE usb.at = "takeover" /\ TakeoverStep /\ UNCHANGED usb
  BY <1>2, TakeoverKeeps, Zenon
<1>3. CASE UsbStep
  <2>1. CASE UnitProven \/ UnitUnproven
    BY <2>1, UnitSettles, SettledKeeps, Zenon
  <2>2. CASE WriteAddress
    BY <2>2, WriteSettles, SettledKeeps, Zenon
  <2>3. CASE release_records \/ Fails
    BY <2>3, EndSettles, SettledKeeps, Zenon
  <2>4. CASE halted_event_dequeue_page \/ scrub_halted_registers \/ prepare_halted
    <3>1. usb.at # "takeover"
      BY <2>4, Zenon DEF halted_event_dequeue_page, scrub_halted_registers, prepare_halted, Begin, End, Call
    <3> QED BY <2>4, <3>1, CallsSettle, SettledKeeps, Zenon DEF scrub_halted_registers, prepare_halted
  <2>5. CASE IsolateController \/ GuardMaps \/ GuardRevoked \/ MapArena \/ RunCommand \/ BindingRevoked
    <3>1. usb.at # "takeover"
      BY <2>5, Zenon DEF IsolateController, GuardMaps, GuardRevoked, MapArena, RunCommand, BindingRevoked, Call
    <3> QED BY <2>5, <3>1, CallsSettle, SettledKeeps, Zenon
  <2>6. CASE \/ reset_halted_controller("reset", "reset waits", "unguard")
             \/ reset_halted_controller("rereset", "rereset waits", "unmaster")
    <3>1. usb.at # "takeover"
      BY <2>6, Zenon DEF reset_halted_controller, Call
    <3> QED BY <2>6, <3>1, CallsSettle, SettledKeeps, Zenon DEF reset_halted_controller
  <2>7. CASE start_session \/ halt_session
    <3>1. usb.at # "takeover"
      BY <2>7, Zenon DEF start_session, halt_session, Call
    <3> QED BY <2>7, <3>1, CallsSettle, SettledKeeps, Zenon DEF start_session, halt_session
  <2>8. CASE enable_bus_master \/ revoke_bus_master \/ backend_shutdown
    <3>1. usb.at # "takeover"
      BY <2>8, Zenon DEF enable_bus_master, revoke_bus_master, backend_shutdown, Call
    <3> QED BY <2>8, <3>1, CallsSettle, SettledKeeps, Zenon DEF enable_bus_master, revoke_bus_master, backend_shutdown
  <2> QED BY <1>3, <2>1, <2>2, <2>3, <2>4, <2>5, <2>6, <2>7, <2>8, Zenon DEF UsbStep
<1>4. CASE Environment /\ UNCHANGED <<take, usb>>
  BY <1>4, EnvironmentKeeps, Zenon
<1> QED BY <1>1, <1>2, <1>3, <1>4, Zenon DEF UsbNext, Environment

\* So it holds in every state of every run of the epoch.
LEMMA EpochInductive == UsbSpec => []EpochInv
BY InitEpochInv, NextEpochInv, PTL DEF UsbSpec

\* Every address the controller can use leads to memory of the driver, from the
\* firmware's last transfer to the release of the arena, wherever a call of main
\* fails and whatever the firmware, the controller and the unit do in between.
THEOREM ControllerContained == UsbSpec => []DmaContained
<1>1. EpochInv => DmaContained
  BY Zenon DEF EpochInv
<1> QED BY <1>1, EpochInductive, PTL

\* From the sizing of the BARs on nobody but the kernel drives the function, a
\* deadline is armed exactly in the waits of TakeoverMachine::step, and a takeover
\* that reports no mutation made none.
THEOREM TakeoverQuiet == UsbSpec => []QuietTakeover
<1>1. EpochInv => QuietTakeover
  BY Zenon DEF EpochInv
<1> QED BY <1>1, EpochInductive, PTL

-----------------------------------------------------------------------------
(* The Nexus pages.                                                        *)

\* The types of the pages and of what was taken from them.
Words == Nat \X Nat
WireType == [guard : Nat, words : Words]
TakenType == [sequence : Nat, words : Words, status : {"Ok", "BadFrame"}]
PageTypes ==
  /\ ingress \in [published : Nat, command : WireType]
  /\ observation \in [last : Nat, reply : WireType, telemetry : WireType]
  /\ taken \in Seq(TakenType)

\* The command page in each step of submit: the guard is odd while the words
\* are written, and no even guard covers a published sequence that is not theirs.
Submitting ==
  LET c == ingress.command
      p == ingress.published
      odd == c.guard % 2 = 1
      even == c.guard % 2 = 0
  IN /\ pid1.pc \in {"idle", "first", "second", "guard", "publish", "before", "one", "two", "after", "got"}
     /\ pid1.pc = "first" => odd
     /\ pid1.pc = "second" => odd /\ c.words[1] = p + 1
     /\ pid1.pc = "guard" => odd /\ c.words = Message(p + 1)
     /\ pid1.pc = "publish" => even /\ c.words = Message(p + 1)
     /\ pid1.pc \in {"idle", "before", "one", "two", "after", "got"} => even /\ c.words = Message(p)

\* The commands taken are whole, in order, published and answered.
Answered ==
  /\ \A i \in 1 .. Len(taken) :
       /\ taken[i].words = Message(taken[i].sequence) /\ taken[i].sequence \in 1 .. ingress.published
       /\ i > 1 => taken[i].sequence > taken[i - 1].sequence
  /\ observation.last = private_cursor /\ observation.reply.words = Message(private_cursor)
  /\ observation.telemetry.words[1] = observation.telemetry.words[2]

\* What a reader has so far is of the message under the guard it saw, unless the
\* guard has moved since.
Observing ==
  LET w == observation[pid1.wire]
  IN /\ pid1.pc \in {"before", "one", "two", "after", "got"} =>
          /\ pid1.wire \in {"reply", "telemetry"} /\ (pid1.wire = "reply" => pid1.expected # NoSequence)
     /\ pid1.pc \in {"one", "two", "after"} => pid1.before \in Nat /\ pid1.before <= w.guard
     /\ pid1.pc = "two" => (pid1.before = w.guard => pid1.word = w.words[1])
     /\ pid1.pc = "after" => (pid1.before = w.guard => pid1.words = w.words)
     /\ pid1.pc = "got" =>
          /\ pid1.words[1] = pid1.words[2]
          /\ pid1.wire = "reply" => \E i \in 1 .. Len(taken) : taken[i].sequence = pid1.words[1]

NexusInv == PageTypes /\ Submitting /\ Answered /\ Observing

\* NexusInit establishes it.
LEMMA InitNexusInv == NexusInit => NexusInv
<1> SUFFICES ASSUME NexusInit PROVE NexusInv
  BY Zenon
<1>1. Message(0) \in Words /\ Message(0)[1] = Message(0)[2]
  BY Zenon DEF Message, Words
<1>2. PageTypes
  BY <1>1 DEF NexusInit, PageTypes, Wire, WireType
<1>3. Submitting
  BY DEF NexusInit, Submitting, Wire, Idle
<1>4. Answered
  BY <1>1 DEF NexusInit, Answered, Wire, private_cursor
<1>5. Observing
  BY Zenon DEF NexusInit, Observing, Idle
<1> QED BY <1>2, <1>3, <1>4, <1>5, Zenon DEF NexusInv

\* A step that moves only PID1 along its submission keeps what was taken.
LEMMA AnsweredGrows ==
  ASSUME NexusInv, UNCHANGED <<observation, taken>>, ingress'.published \in Nat,
         ingress'.published >= ingress.published
  PROVE  Answered'
<1>1. private_cursor' = private_cursor /\ ingress.published \in Nat
  BY Zenon DEF private_cursor, NexusInv, PageTypes
<1>2. \A i \in 1 .. Len(taken) : taken[i].sequence \in 1 .. ingress'.published
  BY <1>1 DEF NexusInv, Answered
<1> QED BY <1>1, <1>2, Zenon DEF NexusInv, Answered

\* submit, one access at a time.
LEMMA SubmitKeeps ==
  ASSUME NexusInv, SubmitBegins \/ SubmitFirst \/ SubmitSecond \/ SubmitGuard \/ SubmitEnds
  PROVE  NexusInv'
<1> DEFINE c == ingress.command
           p == ingress.published
<1>1. /\ c \in WireType /\ p \in Nat /\ c.guard \in Nat /\ c.words \in Words
      /\ ingress \in [published : Nat, command : WireType]
      /\ observation \in [last : Nat, reply : WireType, telemetry : WireType] /\ taken \in Seq(TakenType)
  BY Zenon DEF NexusInv, PageTypes, WireType
<1>2. UNCHANGED <<observation, taken>>
  BY Zenon DEF SubmitBegins, SubmitFirst, SubmitSecond, SubmitGuard, SubmitEnds, SubmitAccess, machine
<1>3. \A g \in Nat : g % 2 \in {0, 1} /\ (g % 2 = 0 <=> (g + 1) % 2 = 1) /\ (g % 2 = 1 <=> (g + 1) % 2 = 0)
  OBVIOUS
<1>4. \A w \in WireType, n \in Nat :
        /\ WithWord(w, 1, n) = [guard |-> w.guard, words |-> <<n, w.words[2]>>]
        /\ WithWord(w, 2, n) = [guard |-> w.guard, words |-> <<w.words[1], n>>]
        /\ WithGuard(w) = [guard |-> w.guard + 1, words |-> w.words]
  <2> SUFFICES ASSUME NEW w \in WireType, NEW n \in Nat
               PROVE  /\ WithWord(w, 1, n) = [guard |-> w.guard, words |-> <<n, w.words[2]>>]
                      /\ WithWord(w, 2, n) = [guard |-> w.guard, words |-> <<w.words[1], n>>]
                      /\ WithGuard(w) = [guard |-> w.guard + 1, words |-> w.words]
    BY Zenon
  <2>1. PICK x \in Nat, y \in Nat : w.words = <<x, y>>
    BY DEF WireType, Words
  <2>2. [w.words EXCEPT ![1] = n] = <<n, y>> /\ [w.words EXCEPT ![2] = n] = <<x, n>>
    BY <2>1
  <2> QED BY <2>1, <2>2 DEF WithWord, WithGuard, WireType
\* Each access, as what it leaves in the page.
<1> DEFINE Page(pc, next, g, w, n) ==
             /\ pid1.pc = pc /\ pid1' = [pc |-> next]
             /\ ingress' = [published |-> n, command |-> [guard |-> g, words |-> w]]
<1>5. \/ Page("idle", "first", c.guard + 1, c.words, p)
      \/ Page("first", "second", c.guard, <<p + 1, c.words[2]>>, p)
      \/ Page("second", "guard", c.guard, <<c.words[1], p + 1>>, p)
      \/ Page("guard", "publish", c.guard + 1, c.words, p)
      \/ Page("publish", "idle", c.guard, c.words, p + 1)
  <2>1. /\ c = [guard |-> c.guard, words |-> c.words]
        /\ \A v : [ingress EXCEPT !.command = v] = [published |-> p, command |-> v]
    BY <1>1 DEF WireType
  <2>2. ASSUME SubmitBegins PROVE Page("idle", "first", c.guard + 1, c.words, p)
    <3>1. WithGuard(c) = [guard |-> c.guard + 1, words |-> c.words]
      BY <1>1, <1>4, Zenon
    <3>2. ingress' = [ingress EXCEPT !.command = WithGuard(c)]
      BY <2>2, Zenon DEF SubmitBegins, SubmitAccess
    <3>3. ingress' = [published |-> p, command |-> [guard |-> c.guard + 1, words |-> c.words]]
      BY <2>1, <3>1, <3>2, Zenon
    <3> QED BY <2>2, <3>3, Zenon DEF SubmitBegins, SubmitAccess, UserAt
  <2>3. ASSUME SubmitFirst PROVE Page("first", "second", c.guard, <<p + 1, c.words[2]>>, p)
    <3>1. WithWord(c, 1, p + 1) = [guard |-> c.guard, words |-> <<p + 1, c.words[2]>>]
      <4>1. p + 1 \in Nat
        BY <1>1
      <4> QED BY <1>1, <1>4, <4>1, Zenon
    <3>2. ingress' = [ingress EXCEPT !.command = WithWord(c, 1, p + 1)]
      BY <2>3, Zenon DEF SubmitFirst, SubmitAccess, Sequence
    <3>3. ingress' = [published |-> p, command |-> [guard |-> c.guard, words |-> <<p + 1, c.words[2]>>]]
      BY <2>1, <3>1, <3>2, Zenon
    <3> QED BY <2>3, <3>3, Zenon DEF SubmitFirst, SubmitAccess, UserAt
  <2>4. ASSUME SubmitSecond PROVE Page("second", "guard", c.guard, <<c.words[1], p + 1>>, p)
    <3>1. WithWord(c, 2, p + 1) = [guard |-> c.guard, words |-> <<c.words[1], p + 1>>]
      <4>1. p + 1 \in Nat
        BY <1>1
      <4> QED BY <1>1, <1>4, <4>1, Zenon
    <3>2. ingress' = [ingress EXCEPT !.command = WithWord(c, 2, p + 1)]
      BY <2>4, Zenon DEF SubmitSecond, SubmitAccess, Sequence
    <3>3. ingress' = [published |-> p, command |-> [guard |-> c.guard, words |-> <<c.words[1], p + 1>>]]
      BY <2>1, <3>1, <3>2, Zenon
    <3> QED BY <2>4, <3>3, Zenon DEF SubmitSecond, SubmitAccess, UserAt
  <2>5. ASSUME SubmitGuard PROVE Page("guard", "publish", c.guard + 1, c.words, p)
    <3>1. WithGuard(c) = [guard |-> c.guard + 1, words |-> c.words]
      BY <1>1, <1>4
    <3>2. ingress' = [ingress EXCEPT !.command = WithGuard(c)]
      BY <2>5, Zenon DEF SubmitGuard, SubmitAccess
    <3>3. ingress' = [published |-> p, command |-> [guard |-> c.guard + 1, words |-> c.words]]
      BY <2>1, <3>1, <3>2
    <3> QED BY <2>5, <3>3, Zenon DEF SubmitGuard, SubmitAccess, UserAt
  <2>6. ASSUME SubmitEnds PROVE Page("publish", "idle", c.guard, c.words, p + 1)
    BY <1>1, <2>1, <2>6, Zenon DEF SubmitEnds, SubmitAccess, UserAt, Sequence
  <2> QED BY <2>2, <2>3, <2>4, <2>5, <2>6, Zenon
<1>6. c.words[1] \in Nat /\ c.words[2] \in Nat /\ c.words = <<c.words[1], c.words[2]>>
  BY <1>1 DEF Words
<1>7. PageTypes'
  <2>1. <<p + 1, c.words[2]>> \in Words /\ <<c.words[1], p + 1>> \in Words
    BY <1>1, <1>6 DEF Words
  <2>2. ASSUME NEW g \in Nat, NEW w \in Words, NEW n \in Nat, NEW pc, NEW next, Page(pc, next, g, w, n)
        PROVE  ingress' \in [published : Nat, command : WireType]
    BY <2>2, Zenon DEF WireType
  <2>3. ingress' \in [published : Nat, command : WireType]
    <3> HIDE DEF Page
    <3>1. c.guard + 1 \in Nat /\ p + 1 \in Nat
      BY <1>1
    <3> QED BY <1>1, <1>5, <2>1, <2>2, <3>1, Zenon
  <2> QED BY <1>1, <1>2, <2>3, Zenon DEF PageTypes
<1>8. Submitting'
  <2>1. CASE Page("idle", "first", c.guard + 1, c.words, p)
    BY <1>1, <1>3, <2>1, Zenon DEF NexusInv, Submitting
  <2>2. CASE Page("first", "second", c.guard, <<p + 1, c.words[2]>>, p)
    BY <1>1, <1>3, <2>2, Zenon DEF NexusInv, Submitting
  <2>3. CASE Page("second", "guard", c.guard, <<c.words[1], p + 1>>, p)
    BY <1>1, <1>3, <2>3, Zenon DEF NexusInv, Submitting, Message
  <2>4. CASE Page("guard", "publish", c.guard + 1, c.words, p)
    BY <1>1, <1>3, <2>4, Zenon DEF NexusInv, Submitting
  <2>5. CASE Page("publish", "idle", c.guard, c.words, p + 1)
    BY <1>1, <1>3, <2>5, Zenon DEF NexusInv, Submitting
  <2> QED BY <1>5, <2>1, <2>2, <2>3, <2>4, <2>5, Zenon
<1>9. Answered'
  <2>1. ingress'.published \in Nat /\ ingress'.published >= p
    BY <1>1, <1>5
  <2> QED BY <1>2, <2>1, AnsweredGrows, Zenon
<1>10. Observing'
  <2>1. pid1'.pc \in {"idle", "first", "second", "guard", "publish"}
    BY <1>5
  <2> QED BY <2>1, Zenon DEF Observing
<1> QED BY <1>7, <1>8, <1>9, <1>10, Zenon DEF NexusInv

\* The reads of PID1: only its registers change.
LEMMA PageReadKeeps ==
  ASSUME NexusInv, \/ \E s \in 1 .. MaxCommands : ReadReply(s)
                   \/ ReadTelemetry \/ ReadBefore \/ ReadOne \/ ReadTwo \/ ReadAfter \/ ReadEnds
  PROVE  NexusInv'
<1> DEFINE Readers == {"before", "one", "two", "after", "got"}
<1>1. UNCHANGED <<ingress, observation, taken>>
  BY Zenon DEF ReadReply, ReadTelemetry, ReadBefore, ReadOne, ReadTwo, ReadAfter, ReadEnds, ReadAccess,
         pages, machine
<1>2. PageTypes' /\ Answered'
  BY <1>1, Zenon DEF NexusInv, PageTypes, Answered, private_cursor
<1>3. pid1.pc \in {"idle"} \cup Readers /\ pid1'.pc \in {"idle"} \cup Readers
  BY DEF ReadReply, ReadTelemetry, ReadBefore, ReadOne, ReadTwo, ReadAfter, ReadEnds, ReadAccess,
         UserAt, Reading, Idle
<1>4. Submitting'
  BY <1>1, <1>3, Zenon DEF NexusInv, Submitting
<1>5. Observing'
  <2>1. ASSUME NEW s \in 1 .. MaxCommands, ReadReply(s) PROVE Observing'
    BY <2>1 DEF ReadReply, ReadAccess, Reading, Observing, NoSequence
  <2>2. CASE ReadTelemetry
    BY <2>2, Zenon DEF ReadTelemetry, ReadAccess, Reading, Observing
  <2>3. \A w \in {"reply", "telemetry"} : observation[w] \in WireType /\ observation[w].guard \in Nat
    BY Zenon DEF NexusInv, PageTypes, WireType
  <2>4. CASE ReadBefore
    <3>1. /\ pid1'.pc = "one" /\ pid1'.wire = pid1.wire /\ pid1'.expected = pid1.expected
          /\ pid1'.before = observation[pid1.wire].guard
      BY <2>4, Zenon DEF ReadBefore, ReadAccess
    <3>2. pid1.wire \in {"reply", "telemetry"} /\ (pid1.wire = "reply" => pid1.expected # NoSequence)
      BY <2>4, Zenon DEF ReadBefore, ReadAccess, UserAt, NexusInv, Observing
    <3> QED BY <1>1, <2>3, <3>1, <3>2 DEF Observing
  <2>5. CASE ReadOne
    <3>1. /\ pid1'.pc = "two" /\ pid1'.wire = pid1.wire /\ pid1'.expected = pid1.expected
          /\ pid1'.before = pid1.before /\ pid1'.word = observation[pid1.wire].words[1]
      BY <2>5, Zenon DEF ReadOne, ReadAccess
    <3>2. pid1.pc = "one"
      BY <2>5, Zenon DEF ReadOne, ReadAccess, UserAt
    <3> QED BY <1>1, <3>1, <3>2, Zenon DEF NexusInv, Observing
  <2>6. CASE ReadTwo
    <3>1. /\ pid1'.pc = "after" /\ pid1'.wire = pid1.wire /\ pid1'.expected = pid1.expected
          /\ pid1'.before = pid1.before /\ pid1'.words = <<pid1.word, observation[pid1.wire].words[2]>>
      BY <2>6, Zenon DEF ReadTwo, ReadAccess
    <3>2. pid1.pc = "two" /\ pid1.wire \in {"reply", "telemetry"}
      BY <2>6, Zenon DEF ReadTwo, ReadAccess, UserAt, NexusInv, Observing
    <3>3. observation[pid1.wire].words = <<observation[pid1.wire].words[1], observation[pid1.wire].words[2]>>
      BY <2>3, <3>2 DEF WireType, Words
    <3> QED BY <1>1, <3>1, <3>2, <3>3, Zenon DEF NexusInv, Observing
  <2>7. CASE ReadAfter
    <3> DEFINE w == observation[pid1.wire]
    <3>1. /\ pid1.pc = "after" /\ pid1.wire \in {"reply", "telemetry"}
          /\ pid1.wire = "reply" => pid1.expected # NoSequence
          /\ pid1.before = w.guard => pid1.words = w.words
      BY <2>7, Zenon DEF ReadAfter, ReadAccess, UserAt, NexusInv, Observing
    <3>2. CASE pid1'.pc = "idle"
      BY <3>2, Zenon DEF Observing
    <3>3. CASE pid1'.pc = "before" /\ pid1'.wire = pid1.wire /\ pid1'.expected = pid1.expected
      BY <3>1, <3>3, Zenon DEF Observing
    <3>4. CASE /\ pid1'.pc = "got" /\ pid1'.wire = pid1.wire /\ pid1'.expected = pid1.expected
               /\ pid1'.words = pid1.words /\ pid1.before = w.guard
               /\ pid1.expected \in {NoSequence, pid1.words[1]}
      <4>1. pid1.words = w.words
        BY <3>1, <3>4, Zenon
      <4>2. w.words[1] = w.words[2]
        BY <3>1 DEF NexusInv, Answered, Message
      <4>3. ASSUME pid1.wire = "reply" PROVE \E i \in 1 .. Len(taken) : taken[i].sequence = pid1.words[1]
        <5>1. w.words = Message(private_cursor) /\ pid1.words[1] # NoSequence
          BY <3>1, <3>4, <4>3, Zenon DEF NexusInv, Answered
        <5>2. private_cursor # 0 /\ pid1.words[1] = private_cursor
          BY <4>1, <5>1 DEF Message, NoSequence
        <5>3. taken # <<>> /\ private_cursor = taken[Len(taken)].sequence
          BY <5>2, Zenon DEF private_cursor
        <5>4. Len(taken) \in 1 .. Len(taken)
          BY <5>3 DEF NexusInv, PageTypes
        <5> QED BY <5>2, <5>3, <5>4, Zenon
      <4> QED BY <1>1, <3>1, <3>4, <4>1, <4>2, <4>3, Zenon DEF Observing
    <3> QED BY <2>7, <3>1, <3>2, <3>3, <3>4, Zenon DEF ReadAfter, ReadAccess, Reading, Idle, Unmoved
  <2>8. CASE ReadEnds
    BY <2>8, Zenon DEF ReadEnds, ReadAccess, Idle, Observing
  <2> QED BY <2>1, <2>2, <2>4, <2>5, <2>6, <2>7, <2>8, Zenon
<1> QED BY <1>2, <1>4, <1>5, Zenon DEF NexusInv

\* What a pass of the kernel leaves in the pages.
Republishes(w, v, n) == v = w \/ v = Republished(w, n)
Passed ==
  \/ UNCHANGED <<taken, observation>>
  \/ /\ ~take_new /\ taken' = taken
     /\ observation'.last = observation.last /\ observation'.reply = observation.reply
     /\ Republishes(observation.telemetry, observation'.telemetry, observation.telemetry.words[1] + 1)
     /\ observation' = [last |-> observation'.last, reply |-> observation'.reply,
                        telemetry |-> observation'.telemetry]
  \/ /\ take_new
     /\ \E status \in {"Ok", "BadFrame"} :
          taken' = Append(taken, [sequence |-> ingress.published, words |-> ingress.command.words,
                                  status |-> status])
     /\ observation'.last = ingress.published
     /\ observation'.reply = Republished(observation.reply, ingress.published)
     /\ Republishes(observation.telemetry, observation'.telemetry, observation.telemetry.words[1] + 1)
     /\ observation' = [last |-> observation'.last, reply |-> observation'.reply,
                        telemetry |-> observation'.telemetry]

\* A system call takes a command that is new and whole, or none.
LEMMA CallPasses ==
  ASSUME NEW control \in BOOLEAN, SystemCall(control)
  PROVE  Passed /\ UNCHANGED <<ingress, pid1>>
<1>1. UNCHANGED <<ingress, pid1>>
  BY Zenon DEF SystemCall
<1>2. UNCHANGED <<observation, taken>> \/ \E s : drive_once(s, ahead')
  BY Zenon DEF SystemCall
<1>3. ASSUME NEW s, drive_once(s, ahead') PROVE Passed
  <2> DEFINE status == IF ahead' THEN "BadFrame" ELSE "Ok"
             Ob(ready) ==
               [last |-> IF take_new THEN ingress.published ELSE observation.last,
                reply |-> IF take_new THEN Republished(observation.reply, ingress.published)
                          ELSE observation.reply,
                telemetry |-> IF ready THEN observation.telemetry
                              ELSE Republished(observation.telemetry, observation.telemetry.words[1] + 1)]
  <2>1. /\ taken' = IF take_new THEN Append(taken, [sequence |-> ingress.published,
                                                    words |-> ingress.command.words, status |-> status])
                    ELSE taken
        /\ observation' = Ob(TRUE) \/ observation' = Ob(FALSE)
    BY <1>3, Zenon DEF drive_once
  <2>2. status \in {"Ok", "BadFrame"}
    BY Zenon
  <2>3. /\ observation'.last = IF take_new THEN ingress.published ELSE observation.last
        /\ observation'.reply = IF take_new THEN Republished(observation.reply, ingress.published)
                                ELSE observation.reply
        /\ Republishes(observation.telemetry, observation'.telemetry, observation.telemetry.words[1] + 1)
        /\ observation' = [last |-> observation'.last, reply |-> observation'.reply,
                           telemetry |-> observation'.telemetry]
    BY <2>1 DEF Republishes
  <2> HIDE DEF status, Ob
  <2> QED BY <2>1, <2>2, <2>3, Zenon DEF Passed
<1> QED BY <1>1, <1>2, <1>3, Zenon DEF Passed

\* A pass of the kernel keeps the pages in order.
LEMMA PassKeeps ==
  ASSUME NexusInv, Passed, UNCHANGED <<ingress, pid1>>
  PROVE  NexusInv'
<1> DEFINE p == ingress.published
           o == observation
           t == o.telemetry
<1>1. /\ p \in Nat /\ ingress \in [published : Nat, command : WireType]
      /\ ingress.command \in WireType /\ ingress.command.words \in Words
      /\ o \in [last : Nat, reply : WireType, telemetry : WireType] /\ taken \in Seq(TakenType)
      /\ o.reply \in WireType /\ t \in WireType
  BY Zenon DEF NexusInv, PageTypes, WireType
<1>2. Submitting'
  BY Zenon DEF NexusInv, Submitting
\* A wire that is published again is whole, and its guard has moved.
<1>3. ASSUME NEW w \in WireType, NEW n \in Nat
      PROVE  /\ Republished(w, n) \in WireType /\ Republished(w, n).guard > w.guard
             /\ Republished(w, n).words = Message(n)
             /\ Republished(w, n).words[1] = Republished(w, n).words[2]
  BY DEF Republished, WireType, Message, Words
<1>4. CASE UNCHANGED <<taken, observation>>
  BY <1>2, <1>4, Zenon DEF NexusInv, PageTypes, Answered, Observing, private_cursor
<1>5. ASSUME Republishes(t, o'.telemetry, t.words[1] + 1)
      PROVE  /\ o'.telemetry \in WireType /\ o'.telemetry.words[1] = o'.telemetry.words[2]
             /\ o'.telemetry = t \/ o'.telemetry.guard > t.guard
  <2>1. t.words[1] + 1 \in Nat /\ t.words[1] = t.words[2]
    BY <1>1 DEF WireType, Words, NexusInv, Answered
  <2> DEFINE k == t.words[1] + 1
  <2> HIDE DEF k
  <2>2. k \in Nat /\ (o'.telemetry = t \/ o'.telemetry = Republished(t, k))
    BY <1>5, <2>1, Zenon DEF Republishes, k
  <2> QED BY <1>1, <1>3, <2>1, <2>2, ZenonT(40)
\* A reader keeps what it has, or the guard has moved.
<1>6. ASSUME o'.telemetry = t \/ o'.telemetry.guard > t.guard,
             o'.reply = o.reply \/ o'.reply.guard > o.reply.guard,
             o'.telemetry \in WireType, o'.reply \in WireType,
             \A i \in 1 .. Len(taken) : i \in 1 .. Len(taken') /\ taken'[i] = taken[i]
      PROVE  Observing'
  <2> DEFINE w == o[pid1.wire]
             v == o'[pid1.wire]
             Readers == {"before", "one", "two", "after", "got"}
  <2>1. CASE pid1.pc \in Readers
    <3>1. pid1.wire \in {"reply", "telemetry"} /\ (pid1.wire = "reply" => pid1.expected # NoSequence)
      BY <2>1, Zenon DEF NexusInv, Observing
    <3>2. (v = w \/ v.guard > w.guard) /\ w.guard \in Nat /\ v.guard \in Nat
      BY <1>1, <1>6, <3>1, Zenon DEF WireType
    <3> HIDE DEF w, v
    <3>3. pid1.pc \in {"one", "two", "after"} => /\ pid1.before \in Nat /\ pid1.before <= v.guard
                                                 /\ pid1.before = v.guard => v = w
      BY <3>2 DEF NexusInv, Observing, w
    <3>4. /\ pid1.pc = "two" => (pid1.before = v.guard => pid1.word = v.words[1])
          /\ pid1.pc = "after" => (pid1.before = v.guard => pid1.words = v.words)
      BY <3>3, Zenon DEF NexusInv, Observing, w
    <3>5. pid1.pc = "got" =>
            /\ pid1.words[1] = pid1.words[2]
            /\ pid1.wire = "reply" => \E i \in 1 .. Len(taken') : taken'[i].sequence = pid1.words[1]
      BY <1>6, Zenon DEF NexusInv, Observing
    <3> QED BY <3>1, <3>3, <3>4, <3>5, Zenon DEF Observing, v
  <2>2. CASE pid1.pc \notin Readers
    BY <2>2, Zenon DEF Observing
  <2> QED BY <2>1, <2>2, Zenon
<1>7. CASE /\ taken' = taken /\ o'.last = o.last /\ o'.reply = o.reply
           /\ Republishes(t, o'.telemetry, t.words[1] + 1)
           /\ o' = [last |-> o'.last, reply |-> o'.reply, telemetry |-> o'.telemetry]
  <2>1. PageTypes'
    BY <1>1, <1>5, <1>7, Zenon DEF PageTypes
  <2>2. Answered'
    BY <1>5, <1>7, Zenon DEF NexusInv, Answered, private_cursor
  <2>3. Observing'
    BY <1>1, <1>5, <1>6, <1>7, Zenon
  <2> QED BY <1>2, <2>1, <2>2, <2>3, Zenon DEF NexusInv
<1>8. ASSUME NEW status \in {"Ok", "BadFrame"}, take_new,
             taken' = Append(taken, [sequence |-> p, words |-> ingress.command.words, status |-> status]),
             o'.last = p, o'.reply = Republished(o.reply, p),
             Republishes(t, o'.telemetry, t.words[1] + 1),
             o' = [last |-> o'.last, reply |-> o'.reply, telemetry |-> o'.telemetry]
      PROVE  NexusInv'
  <2> DEFINE x == [sequence |-> p, words |-> ingress.command.words, status |-> status]
             L == Len(taken)
  <2>1. p # 0 /\ p # private_cursor /\ ingress.command.words = Message(p)
    <3>1. p # 0 /\ p # private_cursor /\ ingress.command.guard % 2 = 0 /\ ingress.command.words[1] = p
      BY <1>8, Zenon DEF take_new
    <3>2. Message(p + 1)[1] = p + 1 /\ p + 1 # p
      BY <1>1 DEF Message
    <3> QED BY <3>1, <3>2 DEF NexusInv, Submitting
  <2>2. /\ x \in TakenType /\ x.sequence = p /\ x.words = Message(p) /\ L \in Nat
        /\ taken' \in Seq(TakenType) /\ Len(taken') = L + 1 /\ taken'[L + 1] = x
        /\ \A i \in 1 .. L : i \in 1 .. L + 1 /\ taken'[i] = taken[i]
        /\ \A i \in 1 .. L + 1 : i \in 1 .. L \/ i = L + 1
    <3>1. x \in TakenType
      BY <1>1, Zenon DEF TakenType
    <3>2. taken' = Append(taken, x)
      BY <1>8, Zenon
    <3> HIDE DEF x
    <3>3. /\ L \in Nat /\ taken' \in Seq(TakenType) /\ Len(taken') = L + 1 /\ taken'[L + 1] = x
          /\ \A i \in 1 .. L : i \in 1 .. L + 1 /\ taken'[i] = taken[i]
          /\ \A i \in 1 .. L + 1 : i \in 1 .. L \/ i = L + 1
      BY <1>1, <3>1, <3>2
    <3> QED BY <2>1, <3>1, <3>3, Zenon DEF x
  <2> HIDE DEF x
  <2>3. private_cursor' = p
    <3>1. taken' # <<>>
      BY <2>2
    <3> QED BY <2>2, <3>1, Zenon DEF private_cursor
  <2>4. L # 0 => taken[L].sequence < p /\ L \in 1 .. L
    <3> SUFFICES ASSUME L # 0 PROVE taken[L].sequence < p /\ L \in 1 .. L
      BY Zenon
    <3>1. L \in 1 .. L /\ taken # <<>>
      BY <1>1, <2>2
    <3>2. private_cursor = taken[L].sequence /\ taken[L].sequence \in 1 .. p
      BY <3>1, Zenon DEF private_cursor, NexusInv, Answered
    <3> QED BY <1>1, <2>1, <3>1, <3>2
  <2>5. /\ o'.reply \in WireType /\ o'.reply.guard > o.reply.guard /\ o'.reply.words = Message(p)
    BY <1>1, <1>3, <1>8
  <2>6. PageTypes'
    BY <1>1, <1>5, <1>8, <2>2, <2>5, Zenon DEF PageTypes
  <2>7. Answered'
    <3>1. ASSUME NEW i \in 1 .. Len(taken')
          PROVE  /\ taken'[i].words = Message(taken'[i].sequence)
                 /\ taken'[i].sequence \in 1 .. ingress'.published
                 /\ i > 1 => taken'[i].sequence > taken'[i - 1].sequence
      <4>1. CASE i \in 1 .. L
        <5>1. i > 1 => i - 1 \in 1 .. L
          BY <2>2, <4>1
        <5> QED BY <2>2, <4>1, <5>1, Zenon DEF NexusInv, Answered
      <4>2. CASE i = L + 1
        <5>1. p \in 1 .. p /\ ingress'.published = p
          BY <1>1, <2>1
        <5>2. i > 1 => L # 0 /\ i - 1 = L
          BY <2>2, <4>2
        <5>3. i > 1 => p > taken[L].sequence /\ taken'[L] = taken[L]
          BY <1>1, <2>2, <2>4, <5>2, Zenon DEF NexusInv, Answered
        <5> QED BY <2>2, <4>2, <5>1, <5>2, <5>3, Zenon
      <4> QED BY <2>2, <4>1, <4>2, Zenon
    <3> QED BY <1>5, <1>8, <2>3, <2>5, <3>1, Zenon DEF Answered
  <2>8. Observing'
    BY <1>5, <1>6, <1>8, <2>2, <2>5, Zenon
  <2> QED BY <1>2, <2>6, <2>7, <2>8, Zenon DEF NexusInv
<1> QED BY <1>4, <1>7, <1>8, Zenon DEF Passed

\* NexusInv holds in every reachable state.
LEMMA NexusInductive == NexusSpec => []NexusInv
<1>1. NexusInv /\ [NexusNext]_nexusVars => NexusInv'
  <2> SUFFICES ASSUME NexusInv, [NexusNext]_nexusVars PROVE NexusInv'
    BY Zenon
  <2>1. ASSUME UNCHANGED <<pages, taken, pid1>> PROVE NexusInv'
    BY <2>1, Zenon DEF pages, NexusInv, PageTypes, Submitting, Answered, Observing, private_cursor
  <2>2. CASE request_from_irq
    BY <2>1, <2>2, Zenon DEF request_from_irq
  <2>3. ASSUME NEW control \in BOOLEAN, SystemCall(control) PROVE NexusInv'
    BY <2>3, CallPasses, PassKeeps, Zenon
  <2>4. CASE UNCHANGED nexusVars
    BY <2>1, <2>4, Zenon DEF nexusVars, machine
  <2> QED BY <2>2, <2>3, <2>4, SubmitKeeps, PageReadKeeps, Zenon DEF NexusNext
<1> QED BY InitNexusInv, <1>1, PTL DEF NexusSpec

\* The Nexus pages (AtomicWire64 and take_new of resonance_split.rs): the kernel
\* takes every command at most once, in order and whole, and answers it; what PID1
\* reads is one message as it was published, wherever it lost the processor, and
\* the reply is the one it asked for.
THEOREM NexusPagesExact == NexusSpec => []PagesExact
<1>1. NexusInv => PagesExact
  BY Zenon DEF NexusInv, Answered, Observing, PagesExact
<1> QED BY <1>1, NexusInductive, PTL

=============================================================================
