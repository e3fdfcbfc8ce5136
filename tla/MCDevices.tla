----------------------------- MODULE MCDevices -----------------------------
(***************************************************************************)
(* The kernel against its timer and its devices, for TLC: the sum of five  *)
(* systems that share no state, the part named by the variable part.       *)
(*                                                                         *)
(* The IOMMU table of the device is three levels of two entries; its four  *)
(* frames are one short of what all the requests need, so that a path can  *)
(* be cut short after its first link.                                      *)
(***************************************************************************)
EXTENDS Preemption, Nexus, DmaDomain, XhciRing, XhciEpoch

Buffer(pa, n, align) == [pa |-> pa, n |-> n, align |-> align]
DriverRequests == {Buffer(9, 1, 1), Buffer(10, 2, 2)}
DmaRegions == <<[pa |-> 2, n |-> 1], [pa |-> 4, n |-> 2]>>
DevicePages == 0 .. Entries ^ Levels - 1

VARIABLE part

devVars == <<part, vars, nexusVars, dmaVars, ringVars, usbVars>>

\* The parts that do not run start in one of their initial states.
OneController ==
  /\ take.phase = "ArmInitialReady" /\ take.policy = "Defer"
  /\ ~xhw.rs /\ ~xhw.cnr /\ xhw.resets = {} /\ NonNull(xhw.regs) = {}

DevInit ==
  /\ part \in {"mailbox", "nexus", "dma", "ring", "usb"}
  /\ Init /\ NexusInit /\ DmaInit /\ RingInit /\ UsbInit
  /\ part # "mailbox" => execution = CHOOSE h \in Handles : TRUE
  /\ part # "usb" => OneController

DevNext ==
  \/ part = "mailbox" /\ Next /\ UNCHANGED <<part, nexusVars, dmaVars, ringVars, usbVars>>
  \/ part = "nexus" /\ NexusNext /\ UNCHANGED <<part, vars, dmaVars, ringVars, usbVars>>
  \/ part = "dma" /\ DmaNext /\ UNCHANGED <<part, vars, nexusVars, ringVars, usbVars>>
  \/ part = "ring" /\ RingNext /\ UNCHANGED <<part, vars, nexusVars, dmaVars, usbVars>>
  \/ part = "usb" /\ UsbNext /\ UNCHANGED <<part, vars, nexusVars, dmaVars, ringVars>>

DevSpec ==
  /\ DevInit /\ [][DevNext]_devVars
  /\ WF_vars(part = "mailbox" /\ KernelStep)
  /\ \A i \in Irqs : WF_vars(part = "mailbox" /\ IrqStep(i))
=============================================================================
