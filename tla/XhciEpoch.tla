------------------------------ MODULE XhciEpoch ------------------------------
(***************************************************************************)
(* The one epoch in which the kernel lets a USB controller reach memory    *)
(* (main.rs, drivers/xhci_runtime.rs): a DMA arena is allocated, the       *)
(* firmware's addresses are scrubbed, the requester is isolated behind the *)
(* IOMMU, the controller is reset, bound, given bus mastering, programmed, *)
(* started, used and stopped, and everything is undone in reverse.         *)
(*                                                                         *)
(* Every step that fails halts the machine with all authority retained.    *)
(* The mappings are those of DmaDomain, seen as one function; the command  *)
(* of the session is XhciRing's.                                           *)
(***************************************************************************)
EXTENDS XhciTakeover, Sequences

VARIABLE usb   \* where main is in the epoch, the arena, the unit and its mappings

usbVars == <<take, xhw, usb>>

(* The arena's regions in the order they are allocated, and what the       *)
(* controller finds in memory from each address.                           *)
RegionOrder == <<"dcbaa", "command", "event", "erst", "scratchpad array", "scratchpads">>
UsbArena == {RegionOrder[i] : i \in 1 .. Len(RegionOrder)}
Reached(a) ==
  CASE a = "dcbaa" -> {a, "scratchpad array", "scratchpads"}
    [] a = "erst" -> {a, "event"}
    [] a = Null -> {}
    [] OTHER -> {a}
Addresses == UsbArena \cup FirmwareAddresses
Fault == "fault"
Denied == [a \in Addresses |-> Fault]

UsbInit ==
  /\ TakeInit
  /\ usb = [at |-> "takeover", writes |-> <<>>, guard |-> Null, owned |-> {}, unit |-> FALSE, map |-> Denied]

(* A call of main in its place; Fails is what any of them may do instead. *)
Call(at, next, e) == usb.at = at /\ usb' = [e EXCEPT !.at = next]
Fails ==
  usb.at \notin {"takeover", "halt", "done"} /\ usb' = [usb EXCEPT !.at = "halt", !.writes = <<>>] /\ UNCHANGED takeVars

Stopped == ~xhw.rs /\ xhw.hch
Halted == Stopped /\ ~xhw.hse

(* The routed unit is looked at again once the controller is ready: an     *)
(* unproven unit is left alone, but not with a reset still owed.           *)
UnitProven == Call("takeover", "capture", [usb EXCEPT !.owned = UsbArena]) /\ take.phase = "ReadyHalted" /\ UNCHANGED takeVars
UnitUnproven ==
  /\ take.phase = "ReadyHalted"
  /\ Call("takeover", IF take.policy = "Defer" THEN "halt" ELSE "done", usb)
  /\ UNCHANGED takeVars

halted_event_dequeue_page ==
  Stopped /\ Call("capture", "scrub", [usb EXCEPT !.guard = xhw.regs["erdp"]]) /\ UNCHANGED takeVars

(***************************************************************************)
(* Register transactions, a register at a time                             *)
(***************************************************************************)
Clears == << <<"erdp", Null>>, <<"erstba", Null>>, <<"crcr", Null>>, <<"dcbaap", Null>> >>
Programs == << <<"dcbaap", "dcbaa">>, <<"crcr", "command">>, <<"erstba", "erst">>, <<"erdp", "event">> >>

Begin(at, next, ready, writes) ==
  /\ usb.at = at /\ usb.writes = <<>> /\ ready
  /\ usb' = [usb EXCEPT !.at = next, !.writes = writes]
  /\ UNCHANGED takeVars

(* The controller holds on to an address it is given until it is reset. *)
WriteAddress ==
  /\ usb.writes # <<>>
  /\ LET w == Head(usb.writes)
     IN xhw' = [xhw EXCEPT !.regs[w[1]] = w[2], !.held = @ \cup Reached(w[2])]
  /\ usb' = [usb EXCEPT !.writes = Tail(@)]
  /\ UNCHANGED take

End(at, next, fine) ==
  fine /\ usb.writes = <<>> /\ Call(at, next, usb) /\ UNCHANGED takeVars

scrub_halted_registers ==
  \/ Begin("scrub", "scrub writes", Stopped, Clears) \/ End("scrub writes", "isolate", Stopped)
  \/ Begin("rescrub", "rescrub writes", Stopped, Clears) \/ End("rescrub writes", "rereset", Stopped)

prepare_halted ==
  Begin("prepare", "prepare writes", Halted, Programs) \/ End("prepare writes", "start", TRUE)

(* Mutated form: the reset is requested and not waited for. *)
reset_unobserved(at, wait, next) ==
  ResetEligible /\ Call(at, next, usb) /\ xhw' = [xhw EXCEPT !.hcrst = TRUE] /\ UNCHANGED take

reset_halted_controller(at, wait, next) ==
  \/ /\ ResetEligible /\ Call(at, wait, usb)
     /\ xhw' = [xhw EXCEPT !.hcrst = TRUE] /\ UNCHANGED take
  \/ Halted /\ ~xhw.hcrst /\ ~xhw.cnr /\ Call(wait, next, usb) /\ UNCHANGED takeVars

start_session ==
  \/ /\ Halted /\ Call("start", "start waits", usb)
     /\ xhw' = [xhw EXCEPT !.rs = TRUE] /\ UNCHANGED take
  \/ ~xhw.hse /\ ~xhw.hch /\ Call("start waits", "command", usb) /\ UNCHANGED takeVars
  \/ Call("start waits", "halt", usb) /\ xhw' = [xhw EXCEPT !.rs = FALSE] /\ UNCHANGED take

(* The command completes, or the caller halts: XhciRing. *)
RunCommand == ~xhw.hse /\ Call("command", "stop", usb) /\ UNCHANGED takeVars

halt_session ==
  \/ xhw.rs /\ Call("stop", "stop waits", usb) /\ xhw' = [xhw EXCEPT !.rs = FALSE] /\ UNCHANGED take
  \/ ~xhw.hse /\ xhw.hch /\ Call("stop waits", "rescrub", usb) /\ UNCHANGED takeVars

(***************************************************************************)
(* The IOMMU, the bus-master bit and the arena                             *)
(***************************************************************************)
IsolateController == Call("isolate", "guard", [usb EXCEPT !.unit = TRUE]) /\ UNCHANGED takeVars

GuardMaps ==
  Call("guard", "reset", [usb EXCEPT !.map = IF usb.guard = Null THEN @ ELSE [@ EXCEPT ![usb.guard] = "event"]])
    /\ UNCHANGED takeVars

GuardRevoked == Call("unguard", "bind", [usb EXCEPT !.map = Denied]) /\ UNCHANGED takeVars

MapArena ==
  Call("bind", "master", [usb EXCEPT !.map = [a \in Addresses |-> IF a \in UsbArena THEN a ELSE Fault]]) /\ UNCHANGED takeVars

(* A write of the command register that is not read back is a debt, with   *)
(* the bit in either state.                                                *)
enable_bus_master ==
  \/ Call("master", "prepare", usb) /\ xhw' = [xhw EXCEPT !.master = TRUE] /\ UNCHANGED take
  \/ Call("master", "halt", usb) /\ xhw' = [xhw EXCEPT !.master = TRUE] /\ UNCHANGED take

revoke_bus_master ==
  \/ Call("unmaster", "unbind", usb) /\ xhw' = [xhw EXCEPT !.master = FALSE] /\ UNCHANGED take
  \/ Call("unmaster", "halt", usb) /\ xhw' = [xhw EXCEPT !.master = FALSE] /\ UNCHANGED take

BindingRevoked == Call("unbind", "shutdown", [usb EXCEPT !.map = Denied]) /\ UNCHANGED takeVars

(* A shutdown that times out may still take effect. *)
backend_shutdown ==
  \E next \in {"release", "halt"} : Call("shutdown", next, [usb EXCEPT !.unit = FALSE]) /\ UNCHANGED takeVars

(* The last region first. *)
release_records ==
  LET rest == usb.owned \ {RegionOrder[Cardinality(usb.owned)]}
  IN Call("release", IF rest = {} THEN "done" ELSE "release", [usb EXCEPT !.owned = rest]) /\ UNCHANGED takeVars

UsbStep ==
  \/ UnitProven \/ UnitUnproven \/ halted_event_dequeue_page
  \/ scrub_halted_registers \/ prepare_halted \/ WriteAddress
  \/ IsolateController \/ GuardMaps \/ reset_halted_controller("reset", "reset waits", "unguard") \/ GuardRevoked
  \/ MapArena \/ enable_bus_master \/ start_session \/ RunCommand \/ halt_session
  \/ reset_halted_controller("rereset", "rereset waits", "unmaster") \/ revoke_bus_master
  \/ BindingRevoked \/ backend_shutdown \/ release_records \/ Fails

(* The controller uses an address that its unit does not map. *)
DmaFaults(a) ==
  /\ usb.unit /\ usb.map[a] = Fault
  /\ xhw' = [xhw EXCEPT !.hse = TRUE, !.rs = FALSE, !.hch = TRUE]

UsbNext ==
  \/ usb.at = "takeover" /\ TakeoverStep /\ UNCHANGED usb
  \/ UsbStep
  \/ (FirmwareReleases \/ FirmwareDrives \/ ControllerStep \/ ResetCompletes \/ \E a \in xhw.held : DmaFaults(a))
       /\ UNCHANGED <<take, usb>>

UsbSpec == UsbInit /\ [][UsbNext]_usbVars

(***************************************************************************)
(* Properties                                                              *)
(***************************************************************************)
Before(at) == at \in {"takeover", "capture", "scrub", "scrub writes", "isolate"}

(* Every address the controller may still use leads to memory that is the  *)
(* driver's: nothing of the arena is used untranslated, and once the unit  *)
(* is on, an address translates to a page of the arena that is not         *)
(* released, or faults.  The driver's own addresses, and the firmware's    *)
(* event page that the first reset may touch, do not fault.  Memory is     *)
(* given back, and the unit turned off, only when the controller holds no  *)
(* address, is stopped and is no bus master.                               *)
DmaContained ==
  /\ \A a \in xhw.held :
       IF usb.unit THEN usb.map[a] \in usb.owned \cup {Fault} ELSE a \notin UsbArena
  /\ \A a \in xhw.held \cap UsbArena : usb.map[a] = a
  /\ (usb.at \in {"reset", "reset waits"} /\ "fw event" \in xhw.held) => usb.map["fw event"] # Fault
  /\ (~usb.unit /\ usb.at \in {"release", "done"}) => xhw.held = {} /\ Stopped /\ ~xhw.master
  /\ (usb.owned # {} /\ usb.owned # UsbArena) => xhw.held = {} /\ Stopped /\ ~xhw.master

(* From the moment the BARs are sized nobody but the kernel drives the     *)
(* function: the firmware has let go and gets no interrupt, no port is in  *)
(* reset, and until the device is isolated for the driver the controller   *)
(* is stopped and no bus master.  A deadline is armed exactly in the waits,*)
(* and a takeover that reports that it changed nothing has not.            *)
QuietTakeover ==
  /\ take.phase \in ProbePhases \cup {"ReadyHalted"} => ~xhw.bios /\ ~xhw.smi /\ xhw.resets = {}
  /\ (take.phase \in ProbePhases \/ (take.phase = "ReadyHalted" /\ Before(usb.at))) => Stopped /\ ~xhw.master
  /\ take.lease <=> take.phase \in ArmedPhases
  /\ ~take.mutated => ~xhw.os /\ ~xhw.hcrst /\ xhw.master /\ xhw.decode
=============================================================================
