---------------------------- MODULE XhciTakeover ----------------------------
(***************************************************************************)
(* Taking a USB controller over from the firmware: TakeoverMachine         *)
(* (drivers/xhci_takeover.rs) driven by activate_reset_ready               *)
(* (drivers/xhci.rs), with the sizing of the BARs in its middle            *)
(* (hw/pci.rs), beside the firmware and the controller.                    *)
(*                                                                         *)
(* A step of the machine is one action; the firmware's management mode and *)
(* the controller run between any two.  A wait that sees its condition     *)
(* unmet and its deadline pending changes nothing.                         *)
(***************************************************************************)
EXTENDS Naturals, FiniteSets

CONSTANT NPorts   \* maximum_ports

\* decode_snapshot refuses a controller without ports.
ASSUME PortsAssumption == NPorts \in Nat \ {0}

Ports == 1 .. NPorts
AddressRegisters == {"dcbaap", "crcr", "erstba", "erdp"}
FirmwareAddresses == {"fw ring", "fw event"}
Null == "null"

VARIABLES
  take,   \* TakeoverMachine, the deadline lease and activate_reset_ready's notes
  xhw     \* the function's registers and what the controller does

takeVars == <<take, xhw>>

FirmwareRegisters ==
  {[r \in AddressRegisters |-> IF r = "erdp" THEN event ELSE "fw ring"] : event \in {Null, "fw event"}}
    \cup {[r \in AddressRegisters |-> Null]}

NonNull(regs) == {regs[r] : r \in AddressRegisters} \ {Null}

(* The controller as the firmware leaves it, its latched addresses with it. *)
TakeInit ==
  \E legacy, runs, smi, waking \in BOOLEAN, policy \in {"BeforeReady", "Defer"}, regs \in FirmwareRegisters,
     resets \in SUBSET Ports :
    /\ smi => legacy
    /\ take = [phase |-> IF legacy THEN "ClaimLegacyOwnership" ELSE "ArmInitialReady", policy |-> policy,
               port |-> 1, saw |-> FALSE, lease |-> FALSE, mutated |-> FALSE, aperture |-> FALSE]
    /\ xhw = [bios |-> legacy, os |-> FALSE, smi |-> smi, rs |-> runs, hcrst |-> FALSE, hch |-> ~runs, cnr |-> waking,
              hse |-> FALSE, resets |-> resets, decode |-> TRUE, master |-> TRUE, regs |-> regs, held |-> NonNull(regs)]

(***************************************************************************)
(* TakeoverMachine::step                                                   *)
(***************************************************************************)
Terminal == {"ReadyHalted", "Faulted"}
ArmedPhases == {"AwaitLegacyHandoff", "AwaitInitialReady", "DrainUsb2Resets", "AwaitHalt", "AwaitReset", "AwaitPostResetReady"}

From(p, q) == take.phase = p /\ take' = [take EXCEPT !.phase = q]
Arm(p, q) == take.phase = p /\ take' = [take EXCEPT !.phase = q, !.lease = TRUE] /\ UNCHANGED xhw
Cancelled(p, q) == take.phase = p /\ take' = [take EXCEPT !.phase = q, !.lease = FALSE] /\ UNCHANGED xhw
Mutates(p, q) == take.phase = p /\ take' = [take EXCEPT !.phase = q, !.mutated = TRUE]

ClaimLegacyOwnership ==
  Mutates("ClaimLegacyOwnership", "ArmLegacyHandoff") /\ xhw' = [xhw EXCEPT !.os = TRUE]

ArmSome ==
  \/ Arm("ArmLegacyHandoff", "AwaitLegacyHandoff")
  \/ Arm("ArmInitialReady", "AwaitInitialReady")
  \/ Arm("ArmUsb2ResetDrain", "DrainUsb2Resets")
  \/ Arm("ArmHalt", "AwaitHalt")
  \/ Arm("ArmReset", "AwaitReset")
  \/ Arm("ArmPostResetReady", "AwaitPostResetReady")

AwaitLegacyHandoff == ~xhw.bios /\ xhw.os /\ Cancelled("AwaitLegacyHandoff", "MaskLegacySmi")

(* The function may keep the bits it is told to clear. *)
MaskLegacySmi ==
  From("MaskLegacySmi", "VerifyLegacySmiMasked") /\ \E kept \in {FALSE, xhw.smi} : xhw' = [xhw EXCEPT !.smi = kept]

(* Mutated form: the readback is not looked at. *)
VerifyLegacySmiTrusted == From("VerifyLegacySmiMasked", "ArmInitialReady") /\ UNCHANGED xhw

VerifyLegacySmiMasked == ~xhw.smi /\ From("VerifyLegacySmiMasked", "ArmInitialReady") /\ UNCHANGED xhw

AwaitInitialReady == ~xhw.hse /\ ~xhw.cnr /\ Cancelled("AwaitInitialReady", "ArmUsb2ResetDrain")

(* One port; at the end of a round that saw a reset, another round. *)
drain_one_usb2_port ==
  /\ take.phase = "DrainUsb2Resets"
  /\ LET saw == take.saw \/ take.port \in xhw.resets
     IN IF take.port # NPorts
          THEN take' = [take EXCEPT !.port = @ + 1, !.saw = saw] /\ UNCHANGED xhw
          ELSE IF saw THEN take' = [take EXCEPT !.port = 1, !.saw = FALSE] /\ UNCHANGED xhw
               ELSE take' = [take EXCEPT !.port = 1, !.phase = "RequestHalt", !.lease = FALSE] /\ UNCHANGED xhw

RequestHalt == ~xhw.hcrst /\ Mutates("RequestHalt", "ArmHalt") /\ xhw' = [xhw EXCEPT !.rs = FALSE]

AwaitHalt == ~xhw.hse /\ xhw.hch /\ Cancelled("AwaitHalt", "AwaitMeasuredAperture")

(* measure_bar0_aperture: decode and bus mastering go off, the BARs are    *)
(* sized and restored, and of the two only decode comes back.              *)
ProbeBegins ==
  /\ Mutates("AwaitMeasuredAperture", "Probing")
  /\ xhw' = [xhw EXCEPT !.decode = FALSE, !.master = FALSE]

bind_measured_aperture ==
  /\ take.phase = "Probing"
  /\ take' = [take EXCEPT !.aperture = TRUE,
               !.phase = IF take.policy = "Defer" THEN "VerifyReadyHalted" ELSE "RequestReset"]
  /\ xhw' = [xhw EXCEPT !.decode = TRUE]

ResetEligible == ~xhw.rs /\ ~xhw.hcrst /\ xhw.hch /\ ~xhw.cnr

RequestReset ==
  ~xhw.hse /\ ResetEligible /\ Mutates("RequestReset", "ArmReset") /\ xhw' = [xhw EXCEPT !.hcrst = TRUE]

AwaitReset == ~xhw.hcrst /\ Cancelled("AwaitReset", "ArmPostResetReady")

AwaitPostResetReady == ~xhw.hse /\ ~xhw.cnr /\ Cancelled("AwaitPostResetReady", "VerifyReadyHalted")

VerifyReadyHalted == ResetEligible /\ ~xhw.hse /\ From("VerifyReadyHalted", "ReadyHalted") /\ UNCHANGED xhw

(* A refused check, a failed access, an expired deadline, or too many      *)
(* steps; the lease still armed is cancelled when it is dropped.           *)
Abandon ==
  /\ take.phase \notin Terminal
  /\ take' = [take EXCEPT !.phase = "Faulted", !.lease = FALSE]
  /\ UNCHANGED xhw

TakeoverStep ==
  \/ ClaimLegacyOwnership \/ ArmSome \/ AwaitLegacyHandoff \/ MaskLegacySmi \/ VerifyLegacySmiMasked
  \/ AwaitInitialReady \/ drain_one_usb2_port \/ RequestHalt \/ AwaitHalt
  \/ ProbeBegins \/ bind_measured_aperture \/ RequestReset \/ AwaitReset \/ AwaitPostResetReady
  \/ VerifyReadyHalted \/ Abandon

(***************************************************************************)
(* The firmware and the controller                                         *)
(***************************************************************************)

(* The firmware lets go when it is asked; until then, and while it still   *)
(* gets interrupts, it may start the controller or reset a port.           *)
FirmwareReleases == xhw.bios /\ xhw.os /\ xhw' = [xhw EXCEPT !.bios = FALSE]

FirmwareDrives ==
  /\ (xhw.bios \/ xhw.smi) /\ ~xhw.hcrst /\ ~xhw.hse
  /\ \/ ~xhw.rs /\ xhw' = [xhw EXCEPT !.rs = TRUE]
     \/ \E p \in Ports \ xhw.resets : xhw' = [xhw EXCEPT !.resets = @ \cup {p}]

ControllerStep ==
  \/ xhw.rs /\ xhw.hch /\ xhw' = [xhw EXCEPT !.hch = FALSE]
  \/ ~xhw.rs /\ ~xhw.hch /\ xhw' = [xhw EXCEPT !.hch = TRUE]
  \/ xhw.cnr /\ ~xhw.hcrst /\ xhw' = [xhw EXCEPT !.cnr = FALSE]
  \/ \E p \in xhw.resets : xhw' = [xhw EXCEPT !.resets = @ \ {p}]
  \/ ~xhw.hch /\ xhw' = [xhw EXCEPT !.hse = TRUE, !.rs = FALSE, !.hch = TRUE]

(* A reset forgets every address; the controller may need time after it. *)
ResetCompletes ==
  /\ xhw.hcrst
  /\ \E waking \in BOOLEAN :
       xhw' = [xhw EXCEPT !.hcrst = FALSE, !.rs = FALSE, !.hch = TRUE, !.hse = FALSE, !.cnr = waking, !.resets = {},
                          !.regs = [r \in AddressRegisters |-> Null], !.held = {}]

ProbePhases ==
  {"Probing", "RequestReset", "ArmReset", "AwaitReset", "ArmPostResetReady", "AwaitPostResetReady", "VerifyReadyHalted"}
=============================================================================
