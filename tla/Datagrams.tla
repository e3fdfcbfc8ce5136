----------------------------- MODULE Datagrams -----------------------------
(***************************************************************************)
(* The Unix-domain datagram sockets of linux_unix_dgram.rs: endpoints with *)
(* generations, each with a ring of messages once it is bound.  Every      *)
(* operation is one lock section.  A message is its number, with the       *)
(* address it was sent to and the one it was sent from.                    *)
(***************************************************************************)
EXTENDS Naturals, FiniteSets

CONSTANTS
  NDgrams,     \* MAXIMUM_ENDPOINTS
  DgQueue,     \* MAXIMUM_QUEUE_LENGTH
  MaxDgGen,    \* MAXIMUM_ENDPOINT_GENERATION, scaled down
  DgAddresses,
  MaxMessages, \* bound on the messages of a run
  Unnamed

Dgrams == 1 .. NDgrams

ASSUME DgConstants ==
  NDgrams \in Nat /\ DgQueue \in Nat \ {0} /\ MaxDgGen \in Nat /\ MaxMessages \in Nat

VARIABLES
  dg,      \* ENDPOINTS
  dghandle, \* the handles that descriptors hold
  sentto,  \* history: the messages each handle accepted and nobody took yet, in order
  dgtaken, \* the last receive: the message and the one that was due
  dgcount  \* messages sent

dgVars == <<dg, dghandle, sentto, dgtaken, dgcount>>

NoMessage == [n |-> 0, to |-> Unnamed, from |-> Unnamed]
EmptyDgram(g) ==
  [occupied |-> FALSE, gen |-> g, address |-> Unnamed, bound |-> FALSE, head |-> 0, length |-> 0,
   ring |-> [i \in 0 .. DgQueue - 1 |-> NoMessage], ready |-> 0]

DgInit ==
  /\ dg = [i \in Dgrams |-> EmptyDgram(0)] /\ dghandle = {} /\ sentto = {}
  /\ dgtaken = <<NoMessage, NoMessage>> /\ dgcount = 0

DgResolved(h) == dg[h[1]].occupied /\ dg[h[1]].gen = h[2]

DgCreate ==
  \E i \in Dgrams :
    /\ ~dg[i].occupied /\ \A j \in Dgrams : j < i => dg[j].occupied
    /\ dg[i].gen < MaxDgGen
    /\ dg' = [dg EXCEPT ![i] = [EmptyDgram(@.gen + 1) EXCEPT !.occupied = TRUE]]
    /\ dghandle' = dghandle \cup {<<i, dg[i].gen + 1>>}
    /\ UNCHANGED <<sentto, dgtaken, dgcount>>

BoundTo(a) == {i \in Dgrams : dg[i].occupied /\ dg[i].bound /\ dg[i].address = a}

AddressFree(a) == BoundTo(a) = {}

DgBind(h, a) ==
  /\ DgResolved(h) /\ ~dg[h[1]].bound /\ AddressFree(a)
  /\ dg' = [dg EXCEPT ![h[1]].address = a, ![h[1]].bound = TRUE]
  /\ UNCHANGED <<dghandle, sentto, dgtaken, dgcount>>

\* Mutated form: the ring is entered at its start.
TailOf_zero(e) == e.length

TailOf(e) == (e.head + e.length) % DgQueue

\* send goes to the first endpoint bound to the address, never to the sender.
DgSend(h, a) ==
  /\ DgResolved(h) /\ ~(dg[h[1]].bound /\ dg[h[1]].address = a)
  /\ dgcount < MaxMessages /\ dgcount' = dgcount + 1
  /\ \E i \in BoundTo(a) :
       /\ \A j \in BoundTo(a) : i <= j
       /\ dg[i].length < DgQueue
       /\ LET e == dg[i]
              m == [n |-> dgcount + 1, to |-> a, from |-> dg[h[1]].address]
          IN /\ dg' = [dg EXCEPT ![i] = [e EXCEPT
                  !.ring[TailOf(e)] = m, !.length = @ + 1,
                  !.ready = IF e.length = 0 THEN @ + 1 ELSE @]]
             /\ sentto' = sentto \cup {[m |-> m, handle |-> <<i, dg[i].gen>>]}
  /\ UNCHANGED <<dghandle, dgtaken>>

\* The oldest message that a handle accepted.
Oldest(h) ==
  LET mine == {x \in sentto : x.handle = h}
  IN IF mine = {} THEN NoMessage
     ELSE (CHOOSE x \in mine : \A y \in mine : x.m.n <= y.m.n).m

\* receive without MSG_PEEK, which changes nothing.
DgReceive(h) ==
  /\ DgResolved(h) /\ dg[h[1]].length # 0
  /\ LET e == dg[h[1]]
         m == e.ring[e.head]
     IN /\ dgtaken' = <<m, Oldest(h)>>
        /\ sentto' = {x \in sentto : x.m # m}
        /\ dg' = [dg EXCEPT ![h[1]] = [e EXCEPT
             !.ring[e.head] = NoMessage, !.head = (@ + 1) % DgQueue, !.length = @ - 1,
             !.ready = IF e.length = 1 THEN @ + 1 ELSE @]]
  /\ UNCHANGED <<dghandle, dgcount>>

DgClose(h) ==
  /\ DgResolved(h)
  /\ dg' = [dg EXCEPT ![h[1]] = EmptyDgram(@.gen)]
  /\ dghandle' = dghandle \ {h}
  /\ sentto' = {x \in sentto : x.handle # h}
  /\ UNCHANGED <<dgtaken, dgcount>>

DgNext ==
  \/ DgCreate
  \/ \E h \in dghandle :
       \/ DgReceive(h) \/ DgClose(h)
       \/ \E a \in DgAddresses : DgBind(h, a) \/ DgSend(h, a)

DgSpec == DgInit /\ [][DgNext]_dgVars

-----------------------------------------------------------------------------
\* A bound address names one endpoint, and a receiver gets the messages that were
\* sent to its address while it held it, each once, oldest first and whole with
\* its sender's address, across the wrap of the ring and the reuse of the slot.
DgramsInOrder ==
  /\ dgtaken[1] = dgtaken[2]
  /\ \A a \in DgAddresses : Cardinality(BoundTo(a)) <= 1
  /\ \A i \in Dgrams : LET e == dg[i] IN
       /\ {e.ring[(e.head + k) % DgQueue] : k \in 0 .. e.length - 1} =
            {x.m : x \in {y \in sentto : y.handle = <<i, e.gen>>}}
       /\ \A k \in 0 .. e.length - 1 : e.ring[(e.head + k) % DgQueue].to = e.address
=============================================================================
