------------------------------ MODULE XhciRing ------------------------------
(***************************************************************************)
(* The command and event rings of the xHCI driver (drivers/xhci_ring.rs),  *)
(* driven through the polled runtime (drivers/xhci_runtime.rs), beside a   *)
(* controller that reads and writes the same pages.  The processor stores  *)
(* and loads one field at a time, in the order of the bytes; the           *)
(* controller runs between any two of them and posts an event as a whole.  *)
(*                                                                         *)
(* A request block is its payload (the first twelve bytes) and its control *)
(* word: the type and the cycle bit.  A pointer to a command is its index. *)
(* Every error a call of the runtime returns makes its caller halt.        *)
(***************************************************************************)
EXTENDS Integers, Sequences

CONSTANTS
  LinkIndex,      \* COMMAND_LINK_INDEX: the commands before the link
  EventCapacity,  \* EVENT_CAPACITY
  MaxSequence,    \* u32::MAX for the numbers of commands
  MaxPortEvents   \* events no command asked for

ASSUME RingAssumption == LinkIndex \in Nat \ {0, 1} /\ EventCapacity = LinkIndex + 1

Success == 1
Codes == {Success, 2}
NoPointer == -1                                  \* a payload of zero bytes
NoCommand == [seq |-> 0, index |-> NoPointer]

VARIABLES
  cmdring,  \* the command page: index -> [payload, kind, cycle]
  evtring,  \* the event page: index -> [pointer, code, kind, cycle]
  rings,    \* XhciRingMachine
  xcpu,     \* the call in progress: its stores to come, what it has loaded
  xhc       \* the controller

ringVars == <<cmdring, evtring, rings, xcpu, xhc>>

Zero == [payload |-> NoPointer, kind |-> "none", cycle |-> FALSE]
ZeroEvent == [pointer |-> NoPointer, code |-> 0, kind |-> "none", cycle |-> FALSE]

(* The pages and the machine as initialize_inner leaves them, the          *)
(* controller as register_program points it at them.                       *)
RingInit ==
  /\ cmdring = [i \in 0 .. LinkIndex |-> IF i = LinkIndex THEN [payload |-> 0, kind |-> "link", cycle |-> TRUE] ELSE Zero]
  /\ evtring = [i \in 0 .. EventCapacity - 1 |-> ZeroEvent]
  /\ rings = [producer_index |-> 0, producer_cycle |-> TRUE, event_index |-> 0, event_cycle |-> TRUE,
              next_sequence |-> 1, outstanding |-> NoCommand]
  /\ xcpu = [at |-> "ready", stores |-> <<>>, loaded |-> ZeroEvent, evidence |-> [seq |-> 0, code |-> 0]]
  /\ xhc = [active |-> FALSE, error |-> FALSE, dequeue |-> 0, ccs |-> TRUE, enqueue |-> 0, pcs |-> TRUE, erdp |-> 0,
            done |-> 0, index |-> NoPointer, code |-> 0, owed |-> <<>>, ports |-> 0]

(***************************************************************************)
(* Submission                                                              *)
(***************************************************************************)

(* The block is hidden, filled, and shown by the store of its cycle bit. *)
publish_trb(i, payload, kind, cycle) ==
  << [i |-> i, field |-> "control", kind |-> kind, cycle |-> ~cycle],
     [i |-> i, field |-> "payload", payload |-> payload],
     [i |-> i, field |-> "control", kind |-> kind, cycle |-> cycle] >>

(* Mutated form: the link keeps the cycle bit of the first lap. *)
write_link_trb_once(cycle) == <<>>

write_link_trb(cycle) == publish_trb(LinkIndex, 0, "link", cycle)

(* submit_no_op: refused while a command is out or the numbers are used    *)
(* up; otherwise the link first, when the command is the last before it.   *)
submit_no_op ==
  /\ xcpu.at = "ready" /\ rings.outstanding = NoCommand /\ rings.next_sequence # MaxSequence
  /\ xcpu' = [xcpu EXCEPT !.at = "store",
               !.stores = (IF rings.producer_index + 1 = LinkIndex THEN write_link_trb(rings.producer_cycle) ELSE <<>>)
                          \o publish_trb(rings.producer_index, NoPointer, "noop", rings.producer_cycle)]
  /\ UNCHANGED <<cmdring, evtring, rings, xhc>>

Store ==
  /\ xcpu.at = "store" /\ xcpu.stores # <<>>
  /\ LET s == Head(xcpu.stores)
     IN cmdring' = IF s.field = "payload" THEN [cmdring EXCEPT ![s.i].payload = s.payload]
                   ELSE [cmdring EXCEPT ![s.i].kind = s.kind, ![s.i].cycle = s.cycle]
  /\ xcpu' = [xcpu EXCEPT !.stores = Tail(@)]
  /\ UNCHANGED <<evtring, rings, xhc>>

(* The machine's own account of the command, then the doorbell. *)
Doorbell ==
  /\ xcpu.at = "store" /\ xcpu.stores = <<>>
  /\ LET last == rings.producer_index + 1 = LinkIndex
     IN rings' = [rings EXCEPT !.outstanding = [seq |-> rings.next_sequence, index |-> rings.producer_index],
                               !.next_sequence = @ + 1,
                               !.producer_index = IF last THEN 0 ELSE @ + 1,
                               !.producer_cycle = IF last THEN ~@ ELSE @]
  /\ xcpu' = [xcpu EXCEPT !.at = "ready"]
  /\ xhc' = [xhc EXCEPT !.active = ~xhc.error]
  /\ UNCHANGED <<cmdring, evtring>>

(***************************************************************************)
(* Completion                                                              *)
(***************************************************************************)
HaltCaller == xcpu' = [xcpu EXCEPT !.at = "halt"] /\ UNCHANGED <<cmdring, evtring, rings, xhc>>

(* The status register first, then the payload of the next event ... *)
PollStatus ==
  /\ xcpu.at = "ready" /\ rings.outstanding # NoCommand
  /\ IF xhc.error THEN HaltCaller
     ELSE xcpu' = [xcpu EXCEPT !.at = "load"] /\ UNCHANGED <<cmdring, evtring, rings, xhc>>

PollPayload ==
  /\ xcpu.at = "load"
  /\ xcpu' = [xcpu EXCEPT !.at = "decide", !.loaded = evtring[rings.event_index]]
  /\ UNCHANGED <<cmdring, evtring, rings, xhc>>

(* ... then its control word, which decides. *)
event_now == evtring[rings.event_index]

PollNone ==
  /\ xcpu.at = "decide" /\ event_now.cycle # rings.event_cycle
  /\ xcpu' = [xcpu EXCEPT !.at = "ready", !.loaded = ZeroEvent]
  /\ UNCHANGED <<cmdring, evtring, rings, xhc>>

Correlated == event_now.kind = "completion" /\ xcpu.loaded.pointer = rings.outstanding.index

PollRejected ==
  /\ xcpu.at = "decide" /\ event_now.cycle = rings.event_cycle /\ ~Correlated
  /\ HaltCaller

(* The event is consumed, and the controller told so in its register. *)
PollAccepted ==
  /\ xcpu.at = "decide" /\ event_now.cycle = rings.event_cycle /\ Correlated
  /\ LET last == rings.event_index + 1 = EventCapacity
         next == IF last THEN 0 ELSE rings.event_index + 1
     IN /\ rings' = [rings EXCEPT !.event_index = next,
                                  !.event_cycle = IF last THEN ~@ ELSE @,
                                  !.outstanding = NoCommand]
        /\ xhc' = [xhc EXCEPT !.erdp = next]
  /\ xcpu' = [xcpu EXCEPT !.at = "ready", !.loaded = ZeroEvent,
               !.evidence = [seq |-> rings.outstanding.seq, code |-> xcpu.loaded.code]]
  /\ UNCHANGED <<cmdring, evtring>>

(***************************************************************************)
(* The controller, as the driver relies on it                              *)
(***************************************************************************)

(* It fetches while the cycle bit is its own, and then goes idle. *)
Fetch ==
  /\ xhc.active
  /\ LET t == cmdring[xhc.dequeue]
     IN \/ t.cycle # xhc.ccs /\ xhc' = [xhc EXCEPT !.active = FALSE]
        \/ /\ t.cycle = xhc.ccs /\ t.kind = "link"
           /\ xhc' = [xhc EXCEPT !.dequeue = t.payload, !.ccs = ~@]
        \/ /\ t.cycle = xhc.ccs /\ t.kind = "noop"
           /\ \E code \in Codes :
                xhc' = [xhc EXCEPT !.dequeue = @ + 1, !.done = @ + 1, !.index = xhc.dequeue, !.code = code,
                                   !.owed = Append(@, [kind |-> "completion", pointer |-> xhc.dequeue, code |-> code])]
  /\ UNCHANGED <<cmdring, evtring, rings, xcpu>>

PortChanges ==
  /\ ~xhc.error /\ xhc.ports < MaxPortEvents
  /\ xhc' = [xhc EXCEPT !.ports = @ + 1, !.owed = Append(@, [kind |-> "port", pointer |-> NoPointer, code |-> Success])]
  /\ UNCHANGED <<cmdring, evtring, rings, xcpu>>

(* It posts while a slot remains before the one the driver reads next. *)
PostEvent ==
  /\ xhc.owed # <<>> /\ ~xhc.error
  /\ LET e == Head(xhc.owed)
         last == xhc.enqueue + 1 = EventCapacity
         next == IF last THEN 0 ELSE xhc.enqueue + 1
     IN /\ next # xhc.erdp
        /\ evtring' = [evtring EXCEPT ![xhc.enqueue] =
                         [pointer |-> e.pointer, code |-> e.code, kind |-> e.kind, cycle |-> xhc.pcs]]
        /\ xhc' = [xhc EXCEPT !.owed = Tail(@), !.enqueue = next, !.pcs = IF last THEN ~@ ELSE @]
  /\ UNCHANGED <<cmdring, rings, xcpu>>

HostSystemError ==
  /\ ~xhc.error
  /\ xhc' = [xhc EXCEPT !.error = TRUE, !.active = FALSE]
  /\ UNCHANGED <<cmdring, evtring, rings, xcpu>>

RingNext ==
  \/ submit_no_op \/ Store \/ Doorbell
  \/ PollStatus \/ PollPayload \/ PollNone \/ PollRejected \/ PollAccepted
  \/ Fetch \/ PortChanges \/ PostEvent \/ HostSystemError

RingSpec == RingInit /\ [][RingNext]_ringVars

(***************************************************************************)
(* Properties                                                              *)
(***************************************************************************)

(* The command whose cycle bit is in place though the doorbell is to come. *)
Shown == IF xcpu.at = "store" /\ xcpu.stores = <<>> THEN 1 ELSE 0
PublishedCommands == rings.next_sequence - 1 + Shown

(* A command is executed once, in its turn, and never before it is wholly  *)
(* written; it is not forgotten: a controller that has gone idle while a   *)
(* command is out has executed it; and evidence handed to the caller names *)
(* the last command executed and the code the controller gave it, however  *)
(* the controller's posting of the event falls between the loads of        *)
(* read_trb, and around the wraps of both rings.                           *)
CompletionsExact ==
  /\ PublishedCommands - xhc.done \in {0, 1}
  /\ xhc.done > 0 => xhc.index = (xhc.done - 1) % LinkIndex
  /\ (rings.outstanding # NoCommand /\ ~xhc.active /\ ~xhc.error) => xhc.done = rings.outstanding.seq
  /\ (rings.outstanding = NoCommand /\ Shown = 0 /\ xcpu.evidence.seq > 0)
        => xcpu.evidence = [seq |-> xhc.done, code |-> xhc.code]
=============================================================================
