------------------------------ MODULE Sockets ------------------------------
(***************************************************************************)
(* The Unix-domain stream sockets of linux_socket.rs: a table of endpoints *)
(* with generations, a table of connections, listen queues, two byte       *)
(* streams per connection and the descriptors that travel with them.       *)
(* Every operation is one lock section.                                    *)
(*                                                                         *)
(* A byte is the number of bytes its side had sent before it, and the      *)
(* rings are sequences.  Sides are 1 and 2.                                *)
(***************************************************************************)
EXTENDS Naturals, Sequences, FiniteSets, SequencesExt

CONSTANTS
  NEndpoints, NConnections, \* MAXIMUM_ENDPOINTS, MAXIMUM_CONNECTIONS
  MaxEndpointGen,           \* MAXIMUM_ENDPOINT_GENERATION, scaled down
  Backlog,                  \* MAXIMUM_LISTEN_BACKLOG
  SocketBuffer,             \* SOCKET_BUFFER_BYTES
  MaxRecords,               \* MAXIMUM_RIGHTS_RECORDS
  SockWork,                 \* what the programs of a run do
  NoOne

Slots == 1 .. NEndpoints
Conns == 1 .. NConnections
Sides == 1 .. 2
Other(d) == 3 - d

VARIABLES
  sockwork, \* what the programs of this run do, and their bounds
  ep,       \* SocketRegistry.endpoints
  conn,     \* SocketRegistry.connections
  held,     \* the handles that descriptors hold
  inflight, \* transfer tokens that a queue owns
  sockgot   \* what the last receive returned

sockVars == <<sockwork, ep, conn, held, inflight, sockgot>>

EmptyEp(g) == [occupied |-> FALSE, gen |-> g, owner |-> NoOne, state |-> "Unbound",
               address |-> NoOne, conn |-> 0, cgen |-> 0, side |-> 1, backlog |-> 0,
               pending |-> <<>>, ready |-> 1]
Both(x) == <<x, x>>
EmptyConn(g) ==
  [occupied |-> FALSE, gen |-> g, handle |-> Both(NoOne), owner |-> Both(NoOne),
   open |-> Both(FALSE), rd |-> Both(FALSE), wr |-> Both(FALSE), queue |-> Both(<<>>),
   seq |-> Both(0), sent |-> Both(0), rights |-> Both(<<>>), ready |-> 1]

SockInit ==
  /\ sockwork \in SockWork
  /\ ep = [i \in Slots |-> EmptyEp(0)] /\ conn = [c \in Conns |-> EmptyConn(0)]
  /\ held = {} /\ inflight = {} /\ sockgot = NoOne

\* Mutated form: the readiness generation stays.
advance_generation_not(g) == g

\* advance_generation: only a change of the value matters.
advance_generation(g) == 3 - g

LowestSock(s, i) == i \in s /\ \A j \in s : i <= j
FreeEps == {i \in Slots : ~ep[i].occupied}
FreeConns == {c \in Conns : ~conn[c].occupied}

\* resolved_endpoint; the descriptor table passes the owner with the handle.
SockResolved(o, h) ==
  LET e == ep[h[1]] IN e.occupied /\ e.gen = h[2] /\ e.owner = o

\* resolved_connection of a resolved endpoint.
SockConnection(h) ==
  LET e == ep[h[1]]
      c == conn[e.conn]
  IN /\ e.state = "Connected"
     /\ c.occupied /\ c.gen = e.cgen /\ c.handle[e.side] = h /\ c.owner[e.side] = e.owner

\* initialize_endpoint of slot i with the fields of initialize_connected_endpoint.
NewEp(i, o) == [EmptyEp(ep[i].gen + 1) EXCEPT !.occupied = TRUE, !.owner = o]
Connected(e, c, g, d) == [e EXCEPT !.state = "Connected", !.conn = c, !.cgen = g, !.side = d]
HasGeneration(i) == ep[i].gen < MaxEndpointGen

\* ConnectionSlot::initialize
NewConn(c, h1, h2, o1, o2) ==
  [EmptyConn(conn[c].gen + 1) EXCEPT
     !.occupied = TRUE, !.handle = <<h1, h2>>, !.owner = <<o1, o2>>, !.open = Both(TRUE),
     !.rd = Both(TRUE), !.wr = Both(TRUE)]

-----------------------------------------------------------------------------
SockCreate(o) ==
  /\ \E i \in Slots :
       /\ LowestSock(FreeEps, i) /\ HasGeneration(i)
       /\ ep' = [ep EXCEPT ![i] = NewEp(i, o)]
       /\ held' = held \cup {<<i, ep[i].gen + 1>>}
  /\ sockgot' = NoOne /\ UNCHANGED <<sockwork, conn, inflight>>

\* create_pair; when the second slot has no generation left, the first one is
\* given back and has used one up.
SockPair(o) ==
  \E i, j \in Slots, c \in Conns :
    /\ LowestSock(FreeEps, i) /\ LowestSock(FreeEps \ {i}, j) /\ LowestSock(FreeConns, c)
    /\ HasGeneration(i)
    /\ LET g == conn[c].gen + 1
           hi == <<i, ep[i].gen + 1>>
           hj == <<j, ep[j].gen + 1>>
       IN IF HasGeneration(j)
          THEN /\ ep' = [ep EXCEPT ![i] = Connected(NewEp(i, o), c, g, 1),
                                   ![j] = Connected(NewEp(j, o), c, g, 2)]
               /\ conn' = [conn EXCEPT ![c] = NewConn(c, hi, hj, o, o)]
               /\ held' = held \cup {hi, hj}
          ELSE /\ ep' = [ep EXCEPT ![i] = EmptyEp(@.gen + 1)]
               /\ UNCHANGED <<conn, held>>
    /\ sockgot' = NoOne /\ UNCHANGED <<sockwork, inflight>>

SockBind(o, h, a) ==
  /\ SockResolved(o, h) /\ ep[h[1]].state = "Unbound"
  /\ \A i \in Slots \ {h[1]} : ~(ep[i].occupied /\ ep[i].address = a)
  /\ ep' = [ep EXCEPT ![h[1]].state = "Bound", ![h[1]].address = a,
                      ![h[1]].ready = advance_generation(@)]
  /\ sockgot' = NoOne /\ UNCHANGED <<sockwork, conn, held, inflight>>

SockListen(o, h, n) ==
  /\ SockResolved(o, h) /\ ep[h[1]].state \in {"Bound", "Listening"}
  /\ ep' = [ep EXCEPT ![h[1]].state = "Listening", ![h[1]].backlog = n,
                      ![h[1]].ready = advance_generation(@)]
  /\ sockgot' = NoOne /\ UNCHANGED <<sockwork, conn, held, inflight>>

\* A listener takes a connection while its queue is below the backlog.
Admits(e) == Len(e.pending) < e.backlog

\* connect makes the connection and the server's endpoint, which waits in the
\* listener's queue without a descriptor.
SockConnect(o, h, a) ==
  /\ SockResolved(o, h) /\ ep[h[1]].state \in {"Unbound", "Bound"}
  /\ \E l, i \in Slots, c \in Conns :
       /\ LowestSock({k \in Slots : ep[k].occupied /\ ep[k].state = "Listening" /\ ep[k].address = a}, l)
       /\ Admits(ep[l])
       /\ LowestSock(FreeEps, i) /\ LowestSock(FreeConns, c) /\ HasGeneration(i)
       /\ LET g == conn[c].gen + 1
              s == <<i, ep[i].gen + 1>>
          IN /\ ep' = [ep EXCEPT
                  ![i] = Connected(NewEp(i, ep[l].owner), c, g, 2),
                  ![h[1]] = [Connected(@, c, g, 1) EXCEPT !.ready = advance_generation(@)],
                  ![l].pending = Append(@, s), ![l].ready = advance_generation(@)]
             /\ conn' = [conn EXCEPT ![c] = NewConn(c, h, s, o, ep[l].owner)]
  /\ sockgot' = NoOne /\ UNCHANGED <<sockwork, held, inflight>>

\* accept refuses a queued handle that no longer resolves, and leaves it there.
SockAccept(o, h) ==
  /\ SockResolved(o, h) /\ ep[h[1]].state = "Listening" /\ ep[h[1]].pending # <<>>
  /\ LET s == Head(ep[h[1]].pending)
     IN /\ SockResolved(o, s) /\ SockConnection(s)
        /\ held' = held \cup {s}
  /\ ep' = [ep EXCEPT ![h[1]].pending = Tail(@), ![h[1]].ready = advance_generation(@)]
  /\ sockgot' = NoOne /\ UNCHANGED <<sockwork, conn, inflight>>

-----------------------------------------------------------------------------
TokensOf(rights) == UNION {rights[k].tokens : k \in DOMAIN rights}

\* receive_message of up to n bytes with room for the rights of one record.
\* Rights end a read: it stops before the byte that carries the next record.
Copied(c, d, n) ==
  LET q == c.queue[d]
      m == IF n < Len(q) THEN n ELSE Len(q)
      r == c.rights[d]
  IN IF Len(r) >= 2 /\ r[1].at < c.seq[d] + m /\ r[2].at < c.seq[d] + m
     THEN r[2].at - c.seq[d] ELSE m

\* The first record is delivered when its byte is.
Delivers(c, d, m) == c.rights[d] # <<>> /\ c.rights[d][1].at < c.seq[d] + m

SockReceive(o, h, n) ==
  /\ SockResolved(o, h) /\ SockConnection(h)
  /\ LET k == ep[h[1]].conn
         c == conn[k]
         me == ep[h[1]].side
         d == Other(me)
         m == Copied(c, d, n)
         with == Delivers(c, d, m)
     IN /\ c.rd[me] /\ c.queue[d] # <<>>
        /\ conn' = [conn EXCEPT
             ![k].queue[d] = SubSeq(@, m + 1, Len(@)), ![k].seq[d] = @ + m,
             ![k].rights[d] = IF with THEN Tail(@) ELSE @,
             ![k].ready = advance_generation(@)]
        /\ sockgot' = [bytes |-> SubSeq(c.queue[d], 1, m),
                   at |-> IF with THEN c.rights[d][1].at ELSE NoOne]
        /\ inflight' = inflight \ (IF with THEN c.rights[d][1].tokens ELSE {})
  /\ UNCHANGED <<sockwork, ep, held>>

\* The byte that carries the rights of a send of n bytes: its first.
AttachedAt(c, d, n) == c.seq[d] + Len(c.queue[d])

\* send_message of n bytes with the tokens t; a full record queue refuses it all.
SockSend(o, h, n, t) ==
  /\ SockResolved(o, h) /\ SockConnection(h)
  /\ LET k == ep[h[1]].conn
         c == conn[k]
         d == ep[h[1]].side
         available == SocketBuffer - Len(c.queue[d])
         m == IF n < available THEN n ELSE available
     IN /\ c.wr[d] /\ c.rd[Other(d)] /\ available # 0
        /\ t # {} => Len(c.rights[d]) < MaxRecords
        /\ c.sent[d] + m <= sockwork.bytes
        /\ conn' = [conn EXCEPT
             ![k].queue[d] = @ \o [x \in 1 .. m |-> c.sent[d] + x - 1],
             ![k].sent[d] = @ + m,
             ![k].rights[d] = IF t = {} THEN @
                              ELSE Append(@, [at |-> AttachedAt(c, d, m), tokens |-> t]),
             ![k].ready = advance_generation(@)]
        /\ inflight' = inflight \cup t
  /\ sockgot' = NoOne /\ UNCHANGED <<sockwork, ep, held>>

\* Mutated form: the bytes are cleared and their rights stay queued.
Drained_bytes(c, d) == [c EXCEPT !.seq[d] = @ + Len(c.queue[d]), !.queue[d] = <<>>]

\* ByteQueue::clear and RightsQueue::drain of direction d.
Drained(c, d) == [c EXCEPT !.seq[d] = @ + Len(c.queue[d]), !.queue[d] = <<>>, !.rights[d] = <<>>]

SockShutdown(o, h, how) ==
  /\ SockResolved(o, h) /\ SockConnection(h)
  /\ LET k == ep[h[1]].conn
         me == ep[h[1]].side
         d == Other(me)
         c == IF "rd" \in how THEN [Drained(conn[k], d) EXCEPT !.rd[me] = FALSE] ELSE conn[k]
         c2 == IF "wr" \in how THEN [c EXCEPT !.wr[me] = FALSE] ELSE c
     IN /\ conn' = [conn EXCEPT ![k] = [c2 EXCEPT !.ready = advance_generation(@)]]
        /\ inflight' = inflight \ (IF "rd" \in how THEN TokensOf(conn[k].rights[d]) ELSE {})
  /\ sockgot' = NoOne /\ UNCHANGED <<sockwork, ep, held>>

retire_connection(c) == EmptyConn(c.gen)

\* close_connected_endpoint of slot i, on the connections cs; a connection with
\* both ends closed is retired.
CloseSide(cs, i) ==
  LET e == ep[i]
      me == e.side
      c == [Drained(cs[e.conn], Other(me)) EXCEPT
              !.open[me] = FALSE, !.rd[me] = FALSE, !.wr[me] = FALSE,
              !.ready = advance_generation(@)]
  IN IF e.state = "Connected" /\ cs[e.conn].occupied /\ cs[e.conn].gen = e.cgen
        /\ cs[e.conn].handle[me] = <<i, e.gen>>
     THEN [cs EXCEPT ![e.conn] = IF c.open = Both(FALSE) THEN retire_connection(c) ELSE c]
     ELSE cs

Queued(cs) == UNION {TokensOf(cs[c].rights[d]) : c \in Conns, d \in Sides}

\* MAXIMUM_CLOSE_DISCARDS: RightsQueue::pop loses what does not fit the array.
MaximumDiscards == Backlog * MaxRecords
Released(dropped) ==
  IF Cardinality(dropped) <= MaximumDiscards THEN dropped
  ELSE CHOOSE s \in SUBSET dropped : Cardinality(s) = MaximumDiscards

CloseAll(cs, s) == FoldLeft(LAMBDA acc, h : CloseSide(acc, h[1]), cs, s)

\* Mutated form: the queue of a listener is forgotten with it.
Waiting_forgotten(o, s) == <<>>

\* Which of the handles waiting in a listener's queue are still its own.
Waiting(o, s) == SelectSeq(s, LAMBDA x : SockResolved(o, x) /\ ep[x[1]].state = "Connected")

SockClose(o, h) ==
  /\ SockResolved(o, h)
  /\ LET e == ep[h[1]]
         gone == IF e.state = "Listening" THEN Waiting(o, e.pending) ELSE <<h>>
         cs == CloseAll(conn, gone)
         slots == {h[1]} \cup {gone[k][1] : k \in DOMAIN gone}
     IN /\ conn' = cs
        /\ ep' = [i \in Slots |-> IF i \in slots THEN EmptyEp(ep[i].gen) ELSE ep[i]]
        /\ inflight' = inflight \ Released(Queued(conn) \ Queued(cs))
  /\ held' = held \ {h} /\ sockgot' = NoOne /\ UNCHANGED sockwork

-----------------------------------------------------------------------------
\* The calls of a program; creation is bounded by sockwork.handles descriptors.
SockNext ==
  \/ \E o \in sockwork.owners :
       /\ Cardinality(held) < sockwork.handles
       /\ ("pair" \in sockwork.make /\ SockPair(o)) \/ ("single" \in sockwork.make /\ SockCreate(o))
  \/ \E h \in held :
       LET o == ep[h[1]].owner
       IN \/ \E a \in sockwork.addresses : SockBind(o, h, a) \/ SockConnect(o, h, a)
          \/ \E n \in 1 .. Backlog : n # ep[h[1]].backlog /\ SockListen(o, h, n)
          \/ SockAccept(o, h)
          \/ \E n \in sockwork.sizes :
               \/ SockReceive(o, h, n)
               \/ \E t \in sockwork.rights :
                    /\ t \cap inflight = {} /\ ep[h[1]].side \in sockwork.senders
                    /\ SockSend(o, h, n, t)
          \/ \E how \in sockwork.how : SockShutdown(o, h, how)
          \/ SockClose(o, h)

SockSpec == SockInit /\ [][SockNext]_sockVars

-----------------------------------------------------------------------------
SockEndpoints == {<<i, ep[i].gen>> : i \in {j \in Slots : ep[j].occupied}}
QueuedOf(l) == ToSet(ep[l].pending)

\* Both tables tell the same story: a connected endpoint and the side of a
\* connection that is open name each other, every endpoint is either held by a
\* descriptor or waits in exactly one listener's queue, and what waits there can
\* be accepted.  A lost endpoint or connection would never be given back.
SockTablesAgree ==
  /\ \A i \in Slots : ep[i].occupied /\ ep[i].state = "Connected" =>
       SockConnection(<<i, ep[i].gen>>) /\ conn[ep[i].conn].open[ep[i].side]
  /\ \A c \in Conns :
       /\ conn[c].occupied <=> \E d \in Sides : conn[c].open[d]
       /\ \A d \in Sides : conn[c].open[d] =>
            LET h == conn[c].handle[d]
            IN SockResolved(conn[c].owner[d], h) /\ ep[h[1]].conn = c /\ ep[h[1]].side = d
  /\ held \subseteq SockEndpoints
  /\ \A h \in SockEndpoints \ held : \E l \in Slots : h \in QueuedOf(l)
  /\ \A l \in Slots :
       /\ Len(ep[l].pending) <= Backlog /\ Cardinality(QueuedOf(l)) = Len(ep[l].pending)
       /\ \A h \in QueuedOf(l) :
            /\ h \notin held /\ SockResolved(ep[l].owner, h) /\ SockConnection(h)
            /\ \A k \in Slots \ {l} : h \notin QueuedOf(k)

\* Each direction is a stream: what is queued is what was sent and not yet taken,
\* in order, and rights stay with their byte: the queued records carry bytes that
\* are queued too, in increasing order, and a read that returns rights returns
\* their byte.  A descriptor in flight is in exactly one queue until it is
\* received or its queue is discarded by a shutdown or a close, and no queue
\* holds one that was given back.
RightsTravelWithBytes ==
  /\ \A c \in Conns, d \in Sides :
       LET x == conn[c]
           r == x.rights[d]
       IN /\ x.queue[d] = [k \in 1 .. Len(x.queue[d]) |-> x.seq[d] + k - 1]
          /\ x.seq[d] + Len(x.queue[d]) = x.sent[d]
          /\ \A k \in DOMAIN r : x.seq[d] <= r[k].at /\ r[k].at < x.sent[d]
          /\ \A k \in 1 .. Len(r) - 1 : r[k].at < r[k + 1].at
  /\ sockgot # NoOne => sockgot.bytes # <<>> /\ (sockgot.at # NoOne => sockgot.at \in ToSet(sockgot.bytes))
  /\ inflight = Queued(conn)
  /\ \A c, e \in Conns, d, f \in Sides :
       \A k \in DOMAIN conn[c].rights[d], m \in DOMAIN conn[e].rights[f] :
         <<c, d, k>> # <<e, f, m>> =>
           conn[c].rights[d][k].tokens \cap conn[e].rights[f][m].tokens = {}

\* readiness and readiness_generation of an endpoint that has them.
HasReadiness(h) == h \in SockEndpoints /\ ep[h[1]].state \in {"Listening", "Connected"}
SockReadiness(h) ==
  LET e == ep[h[1]]
      c == conn[e.conn]
      d == e.side
      p == Other(d)
  IN IF e.state = "Listening" THEN {"in"} \ (IF e.pending = <<>> THEN {"in"} ELSE {})
     ELSE {b \in {"in", "out", "err", "hup"} :
             CASE b = "in" -> c.queue[p] # <<>> \/ ~c.wr[p]
               [] b = "out" -> c.wr[d] /\ c.rd[p] /\ Len(c.queue[d]) < SocketBuffer
               [] b = "err" -> ~c.rd[p]
               [] b = "hup" -> ~c.wr[p]}
SockGeneration(h) ==
  IF ep[h[1]].state = "Listening" THEN ep[h[1]].ready ELSE conn[ep[h[1]].conn].ready

\* An endpoint never becomes ready in a new way without a new readiness
\* generation, which is all an edge-triggered watch looks at, whoever made it
\* ready: a send, a receive, a shutdown or close of the other end, a connect.
SockEdges ==
  [][\A h \in held :
       HasReadiness(h) /\ HasReadiness(h)' /\ ep[h[1]].state = ep'[h[1]].state
         /\ ~(SockReadiness(h)' \subseteq SockReadiness(h)) =>
            SockGeneration(h)' # SockGeneration(h)]_sockVars
=============================================================================
