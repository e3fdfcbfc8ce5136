------------------------------ MODULE IpcProofs ------------------------------
(***************************************************************************)
(* The two tables of the pipes agree and a pipe is a stream of bytes;      *)
(* datagrams arrive once and in order: for any sizes of the tables and of  *)
(* the rings, any owners, bytes and addresses.                             *)
(***************************************************************************)
EXTENDS Pipe, Datagrams, TLAPS

-----------------------------------------------------------------------------
(* Numbers, sequences and small sets.                                      *)

\* A remainder, after as many turns.
LEMMA Round ==
  ASSUME NEW n \in Nat \ {0}, NEW z \in 0 .. n - 1
  PROVE  z % n = z /\ (z + n) % n = z /\ (z + 2 * n) % n = z
OBVIOUS

\* A remainder is below the divisor.
LEMMA Rest ==
  ASSUME NEW n \in Nat \ {0}, NEW z \in Nat
  PROVE  z % n \in 0 .. n - 1
OBVIOUS

\* The k-th element of a ring of N with head hd is before or after the turn.
LEMMA Place ==
  ASSUME NEW N \in Nat \ {0}, NEW hd \in 0 .. N - 1, NEW k \in 1 .. N
  PROVE \/ hd + k - 1 \in 0 .. N - 1 /\ (hd + k - 1) % N = hd + k - 1
        \/ hd + k - 1 - N \in 0 .. N - 1 /\ (hd + k - 1) % N = hd + k - 1 - N
<1>1. CASE hd + k - 1 < N
  <2>1. hd + k - 1 \in 0 .. N - 1
    BY <1>1
  <2> QED BY <2>1, Round, Zenon
<1>2. CASE hd + k - 1 >= N
  <2> DEFINE z == hd + k - 1 - N
  <2>1. z \in 0 .. N - 1 /\ hd + k - 1 = z + N
    BY <1>2
  <2>2. (z + N) % N = z
    <3> HIDE DEF z
    <3> QED BY <2>1, Round, Zenon
  <2> QED BY <2>1, <2>2, Zenon
<1> QED BY <1>1, <1>2

\* Its distance from the first free place, with l elements in the ring.
LEMMA Behind ==
  ASSUME NEW N \in Nat \ {0}, NEW hd \in 0 .. N - 1, NEW l \in 0 .. N, NEW k \in 1 .. N
  PROVE (((hd + k - 1) % N) + 2 * N - hd - l) % N = IF k <= l THEN k - 1 - l + N ELSE k - 1 - l
<1> DEFINE a == (hd + k - 1) % N
<1>1. a \in Nat /\ (a = hd + k - 1 \/ a = hd + k - 1 - N)
  BY Place
<1> HIDE DEF a
<1>2. CASE k <= l
  <2> DEFINE z == k - 1 - l + N
  <2>1. z \in 0 .. N - 1
    BY <1>2
  <2>2. a + 2 * N - hd - l = z \/ a + 2 * N - hd - l = z + N
    BY <1>1
  <2>3. z % N = z /\ (z + N) % N = z
    <3> HIDE DEF z
    <3> QED BY <2>1, Round, Zenon
  <2>4. (a + 2 * N - hd - l) % N = z
    <3> HIDE DEF z
    <3> QED BY <2>2, <2>3, Zenon
  <2> QED BY <1>2, <2>4, Zenon DEF a
<1>3. CASE ~(k <= l)
  <2> DEFINE z == k - 1 - l
  <2>1. z \in 0 .. N - 1
    BY <1>3
  <2>2. a + 2 * N - hd - l = z + N \/ a + 2 * N - hd - l = z + 2 * N
    BY <1>1
  <2>3. (z + N) % N = z /\ (z + 2 * N) % N = z
    <3> HIDE DEF z
    <3> QED BY <2>1, Round, Zenon
  <2>4. (a + 2 * N - hd - l) % N = z
    <3> HIDE DEF z
    <3> QED BY <2>2, <2>3, Zenon
  <2> QED BY <1>3, <2>4, Zenon DEF a
<1> QED BY <1>2, <1>3, Zenon

\* The k-th element after the head has moved by c was the one c further.
LEMMA Onward ==
  ASSUME NEW N \in Nat \ {0}, NEW hd \in 0 .. N - 1, NEW c \in 1 .. N, NEW k \in 1 .. N - c
  PROVE (((hd + c) % N) + k - 1) % N = (hd + c + k - 1) % N
<1> DEFINE a == (hd + c) % N
<1>1. c + 1 \in 1 .. N /\ hd + (c + 1) - 1 = hd + c
  OBVIOUS
<1>2. a \in 0 .. N - 1 /\ (a = hd + c \/ a = hd + c - N)
  BY <1>1, Place
<1> HIDE DEF a
<1>3. CASE a = hd + c
  BY <1>3, Zenon DEF a
<1>4. CASE a = hd + c - N
  <2> DEFINE z == a + k - 1
  <2>1. z \in 0 .. N - 1 /\ hd + c + k - 1 = z + N
    BY <1>2, <1>4
  <2>2. (z + N) % N = z /\ z % N = z
    <3> HIDE DEF z
    <3> QED BY <2>1, Round, Zenon
  <2> QED BY <2>1, <2>2, Zenon DEF a
<1> QED BY <1>2, <1>3, <1>4, Zenon

\* A function on 1 .. n is a sequence of length n.
LEMMA Listed ==
  ASSUME NEW B, NEW n \in Nat, NEW s \in [1 .. n -> B]
  PROVE  s \in Seq(B) /\ Len(s) = n
OBVIOUS

\* What a concatenation holds.
LEMMA Joined ==
  ASSUME NEW B, NEW s \in Seq(B), NEW u \in Seq(B)
  PROVE  /\ s \o u \in Seq(B) /\ Len(s \o u) = Len(s) + Len(u)
         /\ \A k \in 1 .. Len(s) + Len(u) :
              (s \o u)[k] = IF k <= Len(s) THEN s[k] ELSE u[k - Len(s)]
OBVIOUS

\* What the two halves of a sequence hold.
LEMMA Halves ==
  ASSUME NEW B, NEW s \in Seq(B), NEW n \in 1 .. Len(s)
  PROVE  /\ SubSeq(s, 1, n) \in Seq(B) /\ Len(SubSeq(s, 1, n)) = n
         /\ \A k \in 1 .. n : SubSeq(s, 1, n)[k] = s[k]
         /\ SubSeq(s, n + 1, Len(s)) \in Seq(B) /\ Len(SubSeq(s, n + 1, Len(s))) = Len(s) - n
         /\ \A k \in 1 .. Len(s) - n : SubSeq(s, n + 1, Len(s))[k] = s[n + k]
OBVIOUS

\* Two sequences that agree everywhere are one.
LEMMA SameSequence ==
  ASSUME NEW B, NEW s \in Seq(B), NEW u \in Seq(B), Len(s) = Len(u),
         \A k \in 1 .. Len(s) : s[k] = u[k]
  PROVE  s = u
OBVIOUS

\* There is nothing to count in the empty set.
LEMMA EmptyCardinality == Cardinality({}) = 0
<1> DEFINE Count(c) == [T \in SUBSET {} |-> IF T = {} THEN 0 ELSE 1 + c[T \ {CHOOSE x : x \in T}]]
           Zeros == [T \in SUBSET {} |-> 0]
<1>1. Count(Zeros) = Zeros
  BY Zenon
<1>2. \A c : c = Count(c) => c[{}] = 0
  BY Zenon
<1>3. (CHOOSE c : c = Count(c))[{}] = 0
  BY <1>1, <1>2, Zenon
<1> QED BY <1>3, Zenon DEF Cardinality

\* There is one thing to count in a singleton.
LEMMA OneCardinality == ASSUME NEW e PROVE Cardinality({e}) = 1
<1> DEFINE Count(c) == [T \in SUBSET {e} |-> IF T = {} THEN 0 ELSE 1 + c[T \ {CHOOSE x : x \in T}]]
           Ones == [T \in SUBSET {e} |-> IF T = {} THEN 0 ELSE 1]
<1>1. \A T \in SUBSET {e} : T # {} => T \ {CHOOSE x : x \in T} = {}
  BY Zenon
<1>2. Count(Ones) = Ones
  <2> SUFFICES ASSUME NEW T \in SUBSET {e} PROVE Count(Ones)[T] = Ones[T]
    BY Zenon
  <2> QED BY <1>1
<1>3. \A c : c = Count(c) => c[{e}] = 1
  <2> SUFFICES ASSUME NEW c, c = Count(c) PROVE c[{e}] = 1
    BY Zenon
  <2>1. c[{}] = 0
    BY Zenon
  <2> QED BY <1>1, <2>1
<1>4. (CHOOSE c : c = Count(c))[{e}] = 1
  BY <1>2, <1>3, Zenon
<1> QED BY <1>4, Zenon DEF Cardinality

-----------------------------------------------------------------------------
(* Pipes.                                                                  *)

\* An endpoint in use names a pipe of its generation whose end is open, and an
\* open end has one endpoint.
Matched ==
  /\ \A e \in Endpoints : endpoints[e].occupied =>
       /\ endpoints[e].pgen = pipes[endpoints[e].pipe].gen
       /\ endpoints[e].direction \in Ends(endpoints[e].pipe)
  /\ \A e, f \in Endpoints :
       /\ endpoints[e].occupied /\ endpoints[f].occupied
       /\ endpoints[e].pipe = endpoints[f].pipe /\ endpoints[e].direction = endpoints[f].direction
       => e = f
  /\ \A i \in Pipes, d \in {"Read", "Write"} : d \in Ends(i) =>
       \E e \in Endpoints : /\ endpoints[e].occupied
                            /\ endpoints[e].pipe = i /\ endpoints[e].direction = d

\* A pipe is in use as long as an end of it is open.
InUse == \A i \in Pipes : pipes[i].occupied <=> Ends(i) # {}

\* A handle names the pipe it was created for, and the handles to come none.
Issued ==
  /\ issued \in [Handles -> SUBSET (Pipes \X (0 .. MaxPipeGen))]
  /\ \A e \in Endpoints : endpoints[e].occupied =>
       /\ endpoints[e].gen \in 1 .. MaxGen
       /\ issued[<<e, endpoints[e].gen>>] = {<<endpoints[e].pipe, endpoints[e].pgen>>}
  /\ \A h \in Handles : endpoints[h[1]].gen < h[2] => issued[h] = {}

PipeInv == TypeOK /\ Matched /\ InUse /\ Issued

\* The ends that are open, as two flags.
LEMMA OpenEnds ==
  ASSUME NEW i
  PROVE  /\ "Read" \in Ends(i) <=> pipes[i].read_open = TRUE
         /\ "Write" \in Ends(i) <=> pipes[i].write_open = TRUE
         /\ Ends(i) \subseteq {"Read", "Write"}
BY Zenon DEF Ends

\* Init establishes it.
LEMMA InitPipeInv == Init => PipeInv
<1> SUFFICES ASSUME Init PROVE PipeInv
  BY Zenon
<1>1. EmptyPipe(0) \in PipeSlot
  <2>1. Zero \in Bytes
    BY PipeConstants, Zenon DEF Zero
  <2> QED BY <2>1, PipeConstants DEF EmptyPipe, PipeSlot, Fill
<1>2. \A i \in Endpoints : EmptyEndpoint \in EndpointSlot
  BY PipeConstants DEF EmptyEndpoint, EndpointSlot, Endpoints, Pipes
<1>3. TypeOK
  BY <1>1, <1>2, Zenon DEF Init, TypeOK
<1>4. \A i \in Pipes : ~pipes[i].occupied /\ ~pipes[i].read_open /\ ~pipes[i].write_open
  BY Zenon DEF Init, EmptyPipe
<1>5. \A e \in Endpoints : ~endpoints[e].occupied
  BY Zenon DEF Init, EmptyEndpoint
<1>6. Matched /\ InUse
  BY <1>4, <1>5, Zenon DEF Matched, InUse, Ends
<1>7. Issued
  BY <1>5, Zenon DEF Issued, Init
<1> QED BY <1>3, <1>6, <1>7, Zenon DEF PipeInv

\* Moving bytes leaves the tables as they are.
SameTables ==
  /\ endpoints' = endpoints /\ issued' = issued
  /\ \A i \in Pipes : /\ pipes'[i].occupied = pipes[i].occupied /\ pipes'[i].gen = pipes[i].gen
                      /\ pipes'[i].read_open = pipes[i].read_open
                      /\ pipes'[i].write_open = pipes[i].write_open

\* With the tables the invariant stays, once the rings have their type.
LEMMA SameTablesKeep ==
  ASSUME PipeInv, SameTables, TypeOK'
  PROVE  PipeInv' /\ \A i \in Pipes : Ends(i)' = Ends(i)
<1>1. \A i \in Pipes : Ends(i)' = Ends(i)
  BY Zenon DEF SameTables, Ends
<1>2. \A e \in Endpoints : endpoints[e].pipe \in Pipes
  BY Zenon DEF PipeInv, TypeOK, EndpointSlot
<1>3. Matched'
  BY <1>1, <1>2 DEF PipeInv, Matched, SameTables
<1>4. InUse'
  BY <1>1, Zenon DEF PipeInv, InUse, SameTables
<1>5. Issued'
  BY Zenon DEF PipeInv, Issued, SameTables
<1> QED BY <1>1, <1>3, <1>4, <1>5, Zenon DEF PipeInv

\* What a handle that resolves gives access to.
LEMMA Resolved ==
  ASSUME PipeInv, NEW o \in Owners, NEW h \in Handles, resolved_endpoint(o, h)
  PROVE  /\ h[1] \in Endpoints /\ endpoints[h[1]].occupied /\ endpoints[h[1]].gen = h[2]
         /\ PipeOf(h) \in Pipes /\ Direction(h) \in Ends(PipeOf(h))
         /\ pipes[PipeOf(h)] \in PipeSlot /\ pipes[PipeOf(h)].occupied
         /\ Direction(h) \in {"Read", "Write"}
<1>1. h[1] \in Endpoints /\ endpoints[h[1]].occupied /\ endpoints[h[1]].gen = h[2]
  BY Zenon DEF Handles, resolved_endpoint
<1>2. PipeOf(h) \in Pipes /\ Direction(h) \in Ends(PipeOf(h)) /\ Direction(h) \in {"Read", "Write"}
  BY <1>1 DEF PipeInv, TypeOK, EndpointSlot, Matched, PipeOf, Direction
<1>3. pipes[PipeOf(h)] \in PipeSlot /\ pipes[PipeOf(h)].occupied
  BY <1>2, Zenon DEF PipeInv, TypeOK, resolved_endpoint, PipeOf
<1> QED BY <1>1, <1>2, <1>3, Zenon

\* The ring of a pipe after a read and after a write.
Taken(p, c) == [p EXCEPT !.head = (@ + c) % PIPE_BUF, !.length = @ - c]
Added(p, b) == [p EXCEPT !.bytes = Put(p, b), !.length = @ + Len(b)]

\* A read takes bytes from the head of the ring and returns them.
LEMMA TakeContent ==
  ASSUME NEW p \in PipeSlot, NEW c \in 1 .. p.length
  PROVE  /\ Taken(p, c) \in PipeSlot
         /\ Content(Taken(p, c)) = SubSeq(Content(p), c + 1, Len(Content(p)))
         /\ [k \in 1 .. c |-> p.bytes[(p.head + k - 1) % PIPE_BUF]] = SubSeq(Content(p), 1, c)
         /\ Len(Content(p)) = p.length
<1> DEFINE q == Taken(p, c)
           At(j) == p.bytes[j % PIPE_BUF]
<1>1. /\ p.head \in 0 .. PIPE_BUF - 1 /\ p.length \in 0 .. PIPE_BUF
      /\ p.bytes \in [0 .. PIPE_BUF - 1 -> Bytes] /\ PIPE_BUF \in Nat \ {0} /\ c \in Nat
  BY PipeConstants DEF PipeSlot
<1>2. \A j \in Nat : j % PIPE_BUF \in 0 .. PIPE_BUF - 1
  BY <1>1
<1>3. q.head = (p.head + c) % PIPE_BUF /\ q.length = p.length - c /\ q.bytes = p.bytes
  BY Zenon DEF Taken, PipeSlot
<1>4. q.head \in 0 .. PIPE_BUF - 1 /\ q.length \in 0 .. PIPE_BUF
  <2>1. p.head + c \in Nat /\ p.length - c \in 0 .. PIPE_BUF
    BY <1>1
  <2> HIDE DEF q
  <2> QED BY <1>2, <1>3, <2>1, Zenon
<1>5. q \in PipeSlot
  BY <1>3, <1>4, Zenon DEF Taken, PipeSlot
<1>6. Content(p) \in [1 .. p.length -> Bytes]
  <2> SUFFICES ASSUME NEW k \in 1 .. p.length PROVE At(p.head + k - 1) \in Bytes
    BY Zenon DEF Content
  <2>1. p.head + k - 1 \in Nat
    BY <1>1
  <2> QED BY <1>1, <1>2, <2>1, Zenon
<1>7. Content(q) \in [1 .. p.length - c -> Bytes]
  <2> SUFFICES ASSUME NEW k \in 1 .. p.length - c PROVE At(q.head + k - 1) \in Bytes
    BY <1>3, Zenon DEF Content
  <2>1. q.head + k - 1 \in Nat
    BY <1>1, <1>4
  <2> QED BY <1>1, <1>2, <2>1, Zenon
<1>8. Content(p) \in Seq(Bytes) /\ Len(Content(p)) = p.length
  BY <1>1, <1>6, Listed, SMTT(30)
<1>9. Content(q) \in Seq(Bytes) /\ Len(Content(q)) = p.length - c
  <2>1. p.length - c \in Nat
    BY <1>1
  <2> QED BY <1>7, <2>1, Listed, Zenon
<1>15. c \in 1 .. PIPE_BUF /\ \A k \in 1 .. p.length - c : k \in 1 .. PIPE_BUF - c
  BY <1>1
<1>10. ASSUME NEW k \in 1 .. p.length - c PROVE Content(q)[k] = Content(p)[c + k]
  <2>1. (q.head + k - 1) % PIPE_BUF = (p.head + c + k - 1) % PIPE_BUF
    BY <1>1, <1>3, <1>15, Onward, SMTT(30)
  <2>2. c + k \in 1 .. p.length /\ p.head + (c + k) - 1 = p.head + c + k - 1
    BY <1>1
  <2>3. Content(q)[k] = p.bytes[(q.head + k - 1) % PIPE_BUF]
    BY <1>3, Zenon DEF Content
  <2>4. Content(p)[c + k] = p.bytes[(p.head + c + k - 1) % PIPE_BUF]
    BY <2>2, Zenon DEF Content
  <2> QED BY <2>1, <2>3, <2>4, Zenon
<1> DEFINE s == Content(p)
           r == [k \in 1 .. c |-> p.bytes[(p.head + k - 1) % PIPE_BUF]]
<1>11. r \in Seq(Bytes) /\ Len(r) = c /\ \A k \in 1 .. c : r[k] = s[k]
  <2>1. \A k \in 1 .. c : k \in 1 .. p.length
    BY <1>1
  <2>2. \A k \in 1 .. c : r[k] = s[k]
    BY <2>1, Zenon DEF Content
  <2>3. r \in [1 .. c -> Bytes]
    BY <2>1, <2>2, <1>6, Zenon
  <2> QED BY <1>1, <2>2, <2>3, Listed, Zenon
<1> HIDE DEF s, r, q
<1>12. /\ SubSeq(s, 1, c) \in Seq(Bytes) /\ Len(SubSeq(s, 1, c)) = c
       /\ \A k \in 1 .. c : SubSeq(s, 1, c)[k] = s[k]
       /\ SubSeq(s, c + 1, Len(s)) \in Seq(Bytes) /\ Len(SubSeq(s, c + 1, Len(s))) = Len(s) - c
       /\ \A k \in 1 .. Len(s) - c : SubSeq(s, c + 1, Len(s))[k] = s[c + k]
  BY <1>8, Halves DEF s
<1>13. r = SubSeq(s, 1, c)
  BY <1>11, <1>12, SameSequence, Zenon
<1>14. Content(q) = SubSeq(s, c + 1, Len(s))
  <2>1. \A k \in 1 .. Len(s) - c : Content(q)[k] = s[c + k]
    BY <1>8, <1>10, Zenon DEF s
  <2>2. Len(Content(q)) = Len(s) - c /\ Content(q) \in Seq(Bytes)
    BY <1>8, <1>9, Zenon DEF s
  <2> HIDE DEF Content
  <2>3. \A k \in 1 .. Len(Content(q)) : Content(q)[k] = SubSeq(s, c + 1, Len(s))[k]
    BY <1>12, <2>1, <2>2, Zenon
  <2> QED BY <1>12, <2>2, <2>3, SameSequence, Zenon
<1> QED BY <1>5, <1>8, <1>13, <1>14, Zenon DEF q, r, s

\* A write puts bytes behind the last one of the ring.
LEMMA PutContent ==
  ASSUME NEW p \in PipeSlot, NEW n \in 1 .. PIPE_BUF, NEW b \in [1 .. n -> Bytes],
         n <= PIPE_BUF - p.length
  PROVE  /\ Added(p, b) \in PipeSlot /\ Len(b) = n
         /\ Content(Added(p, b)) = Content(p) \o b
<1> DEFINE q == Added(p, b)
           Slot(i) == 1 + ((i + 2 * PIPE_BUF - p.head - p.length) % PIPE_BUF)
<1>1. /\ p.head \in 0 .. PIPE_BUF - 1 /\ p.length \in 0 .. PIPE_BUF
      /\ p.bytes \in [0 .. PIPE_BUF - 1 -> Bytes] /\ PIPE_BUF \in Nat \ {0} /\ n \in Nat
  BY PipeConstants DEF PipeSlot
<1>2. b \in Seq(Bytes) /\ Len(b) = n
  BY <1>1, Listed, Zenon
<1>3. \A j \in Nat : j % PIPE_BUF \in 0 .. PIPE_BUF - 1
  BY <1>1
<1>4. \A i \in 0 .. PIPE_BUF - 1 : Put(p, b)[i] = IF Slot(i) <= n THEN b[Slot(i)] ELSE p.bytes[i]
  BY <1>2, Zenon DEF Put
<1>5. \A i \in 0 .. PIPE_BUF - 1 : Slot(i) \in 1 .. PIPE_BUF
  <2> SUFFICES ASSUME NEW i \in 0 .. PIPE_BUF - 1 PROVE Slot(i) \in 1 .. PIPE_BUF
    BY Zenon
  <2> DEFINE y == i + 2 * PIPE_BUF - p.head - p.length
  <2>1. y \in Nat
    BY <1>1
  <2> DEFINE x == y % PIPE_BUF
  <2>2. x \in 0 .. PIPE_BUF - 1
    <3> HIDE DEF y
    <3> QED BY <1>1, <2>1, Rest, Zenon
  <2>3. Slot(i) = 1 + x
    BY Zenon
  <2> HIDE DEF x, Slot
  <2> QED BY <1>1, <2>2, <2>3
<1>6. Put(p, b) \in [0 .. PIPE_BUF - 1 -> Bytes]
  <2>1. \A i \in 0 .. PIPE_BUF - 1 : Put(p, b)[i] \in Bytes
    <3> HIDE DEF Slot
    <3> SUFFICES ASSUME NEW i \in 0 .. PIPE_BUF - 1 PROVE Put(p, b)[i] \in Bytes
      BY Zenon
    <3>1. Slot(i) <= n => b[Slot(i)] \in Bytes
      BY <1>1, <1>5
    <3> QED BY <1>1, <1>4, <3>1, Zenon
  <2> HIDE DEF Slot
  <2> QED BY <2>1, Zenon DEF Put
<1>7. q.head = p.head /\ q.length = p.length + n /\ q.bytes = Put(p, b)
  BY <1>2, Zenon DEF Added, PipeSlot
<1>8. q.length \in 0 .. PIPE_BUF
  <2> HIDE DEF q
  <2> QED BY <1>1, <1>7
<1>9. q \in PipeSlot
  BY <1>6, <1>7, <1>8, Zenon DEF Added, PipeSlot
<1> DEFINE At(k) == (p.head + k - 1) % PIPE_BUF
\* The k-th byte of the ring lies in the slot that Put gives to byte k - length.
<1>10. ASSUME NEW k \in 1 .. p.length + n
       PROVE  /\ At(k) \in 0 .. PIPE_BUF - 1
              /\ k <= p.length => Slot(At(k)) > n
              /\ k > p.length => Slot(At(k)) = k - p.length
  <2>1. k \in 1 .. PIPE_BUF /\ p.head + k - 1 \in Nat
    BY <1>1
  <2>2. At(k) \in 0 .. PIPE_BUF - 1
    BY <1>1, <2>1, Rest, Zenon
  <2> DEFINE y == (At(k) + 2 * PIPE_BUF - p.head - p.length) % PIPE_BUF
  <2>3. y = IF k <= p.length THEN k - 1 - p.length + PIPE_BUF ELSE k - 1 - p.length
    BY <1>1, <2>1, Behind, Zenon
  <2>4. Slot(At(k)) = 1 + y
    BY Zenon
  <2> HIDE DEF y, Slot, At
  <2>5. CASE k <= p.length
    <3>1. Slot(At(k)) = k - p.length + PIPE_BUF
      BY <1>1, <2>3, <2>4, <2>5
    <3>2. k - p.length + PIPE_BUF > n /\ ~(k > p.length)
      BY <1>1, <2>5
    <3> QED BY <2>2, <3>1, <3>2, Zenon
  <2>6. CASE ~(k <= p.length)
    <3>1. Slot(At(k)) = k - p.length
      BY <1>1, <2>3, <2>4, <2>6
    <3> QED BY <2>2, <2>6, <3>1, Zenon
  <2> QED BY <2>5, <2>6, Zenon
<1> HIDE DEF Slot
<1>11. Content(p) \in Seq(Bytes) /\ Len(Content(p)) = p.length
  <2>1. \A k \in 1 .. p.length : k \in 1 .. p.length + n
    BY <1>1
  <2>2. Content(p) \in [1 .. p.length -> Bytes]
    BY <1>1, <1>10, <2>1, Zenon DEF Content
  <2>3. p.length \in Nat
    BY <1>1
  <2> HIDE DEF Content
  <2> QED BY <2>2, <2>3, Listed, Zenon
<1>12. Content(q) \in Seq(Bytes) /\ Len(Content(q)) = p.length + n
  <2> HIDE DEF q
  <2>1. Content(q) \in [1 .. p.length + n -> Bytes]
    BY <1>6, <1>7, <1>10, Zenon DEF Content
  <2>2. p.length + n \in Nat
    BY <1>1
  <2> HIDE DEF Content
  <2> QED BY <2>1, <2>2, Listed, Zenon
<1>13. ASSUME NEW k \in 1 .. p.length + n
       PROVE  Content(q)[k] = IF k <= p.length THEN Content(p)[k] ELSE b[k - p.length]
  <2>1. Content(q)[k] = Put(p, b)[At(k)]
    <3> HIDE DEF q
    <3> QED BY <1>7, Zenon DEF Content
  <2>2. CASE k <= p.length
    <3>1. Put(p, b)[At(k)] = p.bytes[At(k)]
      <4> HIDE DEF At
      <4>1. ~(Slot(At(k)) <= n)
        BY <1>1, <1>5, <1>10, <2>2
      <4> QED BY <1>4, <1>10, <4>1, Zenon
    <3>2. Content(p)[k] = p.bytes[At(k)]
      BY <1>1, <2>2 DEF Content
    <3> QED BY <2>1, <2>2, <3>1, <3>2, Zenon
  <2>3. CASE ~(k <= p.length)
    <3> HIDE DEF At
    <3>1. Slot(At(k)) = k - p.length /\ k - p.length <= n
      BY <1>1, <1>10, <2>3
    <3> QED BY <1>4, <1>10, <2>1, <2>3, <3>1, Zenon
  <2> QED BY <2>2, <2>3, Zenon
<1> HIDE DEF q, At
<1> HIDE DEF Content, Put
<1>14. Content(q) = Content(p) \o b
  <2>1. /\ Content(p) \o b \in Seq(Bytes) /\ Len(Content(p) \o b) = p.length + n
        /\ \A k \in 1 .. p.length + n :
             (Content(p) \o b)[k] = IF k <= p.length THEN Content(p)[k] ELSE b[k - p.length]
    <3> DEFINE s == Content(p)
    <3>1. s \in Seq(Bytes) /\ Len(s) = p.length
      BY <1>11, Zenon
    <3> HIDE DEF s
    <3>2. /\ s \o b \in Seq(Bytes) /\ Len(s \o b) = Len(s) + Len(b)
          /\ \A k \in 1 .. Len(s) + Len(b) :
               (s \o b)[k] = IF k <= Len(s) THEN s[k] ELSE b[k - Len(s)]
      BY <1>2, <3>1, Joined, Zenon
    <3> QED BY <1>2, <3>1, <3>2, Zenon DEF s
  <2>2. \A k \in 1 .. Len(Content(q)) : Content(q)[k] = (Content(p) \o b)[k]
    BY <1>12, <1>13, <2>1, Zenon
  <2> QED BY <1>12, <2>1, <2>2, SameSequence, Zenon
<1> QED BY <1>2, <1>9, <1>14, Zenon DEF q

\* A pipe of the table with its ring changed.
LEMMA RingKeeps ==
  ASSUME PipeInv, NEW i \in Pipes, NEW q \in PipeSlot,
         q.occupied = pipes[i].occupied, q.gen = pipes[i].gen,
         q.read_open = pipes[i].read_open, q.write_open = pipes[i].write_open,
         pipes' = [pipes EXCEPT ![i] = q], UNCHANGED <<endpoints, issued>>
  PROVE  /\ PipeInv' /\ \A j \in Pipes : Ends(j)' = Ends(j)
         /\ pipes'[i] = q /\ \A j \in Pipes \ {i} : pipes'[j] = pipes[j]
<1>1. pipes \in [Pipes -> PipeSlot] /\ endpoints \in [Endpoints -> EndpointSlot]
  BY Zenon DEF PipeInv, TypeOK
<1>2. pipes'[i] = q /\ \A j \in Pipes \ {i} : pipes'[j] = pipes[j]
  BY <1>1, Zenon
<1>3. TypeOK'
  BY <1>1, Zenon DEF TypeOK
<1>4. SameTables
  BY <1>2, Zenon DEF SameTables
<1> QED BY <1>2, <1>3, <1>4, SameTablesKeep, Zenon

\* What a stream of the abstract specification holds.
Held(i) == IF pipes[i].occupied THEN Content(pipes[i]) ELSE None

\* A read is a read of the stream, or sees its end.
LEMMA ReadSteps ==
  ASSUME PipeInv, NEW o \in Owners, NEW h \in Handles, NEW n \in 1 .. PIPE_BUF, read(o, h, n)
  PROVE  PipeInv' /\ S!Next
<1>0. PICK i \in Pipes : i = PipeOf(h)
  BY Resolved, Zenon DEF read
<1> DEFINE p == pipes[i]
           min == IF n < p.length THEN n ELSE p.length
           K == [j \in Pipes |-> Held(j)]
           E == [j \in Pipes |-> Ends(j)]
<1>1. /\ p \in PipeSlot /\ p.occupied
      /\ "Read" \in E[i] /\ UNCHANGED <<endpoints, issued>>
  BY <1>0, Resolved, Zenon DEF read
<1>2. PIPE_BUF \in Nat \ {0} /\ p.length \in 0 .. PIPE_BUF
  BY <1>1, PipeConstants, Zenon DEF PipeSlot
<1>3. K[i] = Content(p)
  BY <1>1, Zenon DEF Held
<1>4. CASE p.length = 0 /\ ~p.write_open /\ got' = <<>> /\ UNCHANGED pipes
  <2>1. PipeInv' /\ E' = E /\ K' = K
    <3>1. TypeOK' /\ SameTables
      BY <1>1, <1>4, Zenon DEF PipeInv, TypeOK, SameTables
    <3> QED BY <1>4, <3>1, SameTablesKeep, Zenon DEF Held
  <2>2. {"Read"} = E[i]
    BY <1>1, <1>4, OpenEnds, Zenon
  <2>3. K[i] = <<>>
    BY <1>3, <1>4 DEF Content
  <2>4. S!End(i)
    BY <1>4, <2>1, <2>2, <2>3, Zenon DEF S!End, Held
  <2> QED BY <1>1, <2>1, <2>4, Zenon DEF S!Next
<1>5. CASE p.length # 0 /\ got' = [k \in 1 .. min |-> p.bytes[(p.head + k - 1) % PIPE_BUF]]
             /\ pipes' = [pipes EXCEPT ![i] = Taken(p, min)]
  <2>1. PICK c \in 1 .. PIPE_BUF : c = min /\ c \in 1 .. p.length
    BY <1>2, <1>5
  <2> HIDE DEF min
  <2>2. /\ Taken(p, c) \in PipeSlot /\ Len(Content(p)) = p.length
        /\ Content(Taken(p, c)) = SubSeq(Content(p), c + 1, Len(Content(p)))
        /\ got' = SubSeq(Content(p), 1, c)
    BY <1>1, <1>5, <2>1, TakeContent, Zenon
  <2>3. /\ Taken(p, c).occupied = p.occupied /\ Taken(p, c).gen = p.gen
        /\ Taken(p, c).read_open = p.read_open /\ Taken(p, c).write_open = p.write_open
    BY <1>1, Zenon DEF Taken, PipeSlot
  <2>4. /\ PipeInv' /\ \A j \in Pipes : Ends(j)' = Ends(j)
        /\ pipes'[i] = Taken(p, c) /\ \A j \in Pipes \ {i} : pipes'[j] = pipes[j]
    <3> HIDE DEF p
    <3> DEFINE q == Taken(p, c)
    <3> HIDE DEF q
    <3> QED BY <1>1, <1>5, <2>1, <2>2, <2>3, RingKeeps, Zenon DEF p, q
  <2>5. E' = E
    BY <2>4, Zenon
  <2>6. K' = [K EXCEPT ![i] = SubSeq(@, c + 1, Len(@))]
    <3>1. Held(i)' = SubSeq(K[i], c + 1, Len(K[i]))
      BY <1>1, <1>3, <2>2, <2>3, <2>4, Zenon DEF Held
    <3>2. \A j \in Pipes \ {i} : Held(j)' = Held(j)
      BY <2>4, Zenon DEF Held
    <3> QED BY <1>1, <3>1, <3>2, Zenon
  <2>7. c \in 1 .. Len(K[i]) /\ got' = SubSeq(K[i], 1, c)
    BY <1>3, <2>1, <2>2, Zenon
  <2>8. S!Read(i, c)
    <3> QED BY <1>1, <2>5, <2>6, <2>7, Zenon DEF S!Read, Held
  <2>9. S!Next
    <3>1. \E m \in 1 .. PIPE_BUF : S!Read(i, m)
      BY <2>1, <2>8, Zenon
    <3> QED BY <3>1, Zenon DEF S!Next
  <2> QED BY <2>4, <2>9, Zenon
<1> QED BY <1>0, <1>4, <1>5, Zenon DEF read, Taken

\* A write is a write of the stream.
LEMMA WriteSteps ==
  ASSUME PipeInv, NEW o \in Owners, NEW h \in Handles, NEW n \in 1 .. PIPE_BUF,
         NEW b \in [1 .. n -> Bytes], write(o, h, b)
  PROVE  PipeInv' /\ S!Next
<1>0. PICK i \in Pipes : i = PipeOf(h)
  BY Resolved, Zenon DEF write
<1> DEFINE p == pipes[i]
           K == [j \in Pipes |-> Held(j)]
           E == [j \in Pipes |-> Ends(j)]
<1>1. /\ p \in PipeSlot /\ p.occupied /\ p.read_open
      /\ "Write" \in E[i] /\ UNCHANGED <<endpoints, issued>> /\ got' = None
  BY <1>0, Resolved, Zenon DEF write
<1>2. PIPE_BUF \in Nat \ {0} /\ p.length \in 0 .. PIPE_BUF
  BY <1>1, PipeConstants, Zenon DEF PipeSlot
<1>3. Len(b) = n /\ n <= PIPE_BUF - p.length /\ pipes' = [pipes EXCEPT ![i] = Added(p, b)]
  <2>1. Len(b) = n
    BY <1>2, Listed
  <2> QED BY <1>0, <2>1, Zenon DEF write, Added
<1>4. Added(p, b) \in PipeSlot /\ Content(Added(p, b)) = Content(p) \o b
  BY <1>1, <1>3, PutContent, Zenon
<1>5. /\ Added(p, b).occupied = p.occupied /\ Added(p, b).gen = p.gen
      /\ Added(p, b).read_open = p.read_open /\ Added(p, b).write_open = p.write_open
  BY <1>1, Zenon DEF Added, PipeSlot
<1>6. /\ PipeInv' /\ \A j \in Pipes : Ends(j)' = Ends(j)
      /\ pipes'[i] = Added(p, b) /\ \A j \in Pipes \ {i} : pipes'[j] = pipes[j]
  <2> HIDE DEF p
  <2> DEFINE q == Added(p, b)
  <2> HIDE DEF q
  <2> QED BY <1>1, <1>3, <1>4, <1>5, RingKeeps, Zenon DEF p, q
<1>7. K[i] = Content(p) /\ Len(K[i]) = p.length
  <2>1. K[i] = Content(p)
    BY <1>1, Zenon DEF Held
  <2>2. Len(Content(p)) = p.length
    BY <1>2 DEF Content
  <2> QED BY <2>1, <2>2, Zenon
<1>8. E' = E
  BY <1>6, Zenon
<1>9. K' = [K EXCEPT ![i] = @ \o b]
  <2>1. Held(i)' = K[i] \o b
    BY <1>1, <1>4, <1>5, <1>6, <1>7, Zenon DEF Held
  <2>2. \A j \in Pipes \ {i} : Held(j)' = Held(j)
    BY <1>6, Zenon DEF Held
  <2> QED BY <1>1, <2>1, <2>2, Zenon
<1>10. {"Read", "Write"} = E[i]
  BY <1>1, OpenEnds, Zenon
<1>11. Len(K[i]) + Len(b) <= PIPE_BUF
  BY <1>2, <1>3, <1>7
<1>12. S!Write(i, b)
  <2> QED BY <1>1, <1>8, <1>9, <1>10, <1>11, Zenon DEF S!Write, Held
<1> QED BY <1>1, <1>6, <1>12, Zenon DEF S!Next

\* A free slot of the table of pipes.
LEMMA EmptyPipeType ==
  ASSUME NEW g \in 0 .. MaxPipeGen
  PROVE  EmptyPipe(g) \in PipeSlot
<1>1. Zero \in Bytes
  BY PipeConstants, Zenon DEF Zero
<1> QED BY <1>1, PipeConstants DEF EmptyPipe, PipeSlot, Fill

\* Closing a handle closes its end of the stream.
LEMMA CloseSteps ==
  ASSUME PipeInv, NEW o \in Owners, NEW h \in Handles, close(o, h)
  PROVE  PipeInv' /\ S!Next
<1>0. PICK i \in Pipes, d \in {"Read", "Write"} : i = PipeOf(h) /\ d = Direction(h)
  BY Resolved, Zenon DEF close
<1> DEFINE p == pipes[i]
           x == h[1]
           q == closed(p, d)
           K == [j \in Pipes |-> Held(j)]
           E == [j \in Pipes |-> Ends(j)]
<1>1. /\ x \in Endpoints /\ endpoints[x].occupied /\ endpoints[x].pipe = i /\ endpoints[x].direction = d
      /\ p \in PipeSlot /\ p.occupied /\ d \in Ends(i)
      /\ pipes' = [pipes EXCEPT ![i] = q] /\ issued' = issued /\ got' = None
      /\ endpoints' = [endpoints EXCEPT ![x].occupied = FALSE]
  BY <1>0, Resolved, Zenon DEF close, PipeOf, Direction
<1>2. pipes \in [Pipes -> PipeSlot] /\ endpoints \in [Endpoints -> EndpointSlot]
  BY Zenon DEF PipeInv, TypeOK
<1>3. /\ q \in PipeSlot /\ q.gen = p.gen
      /\ q.read_open = (p.read_open /\ d # "Read") /\ q.write_open = (p.write_open /\ d # "Write")
      /\ q.occupied = (q.read_open \/ q.write_open)
      /\ q.occupied => q.head = p.head /\ q.length = p.length /\ q.bytes = p.bytes
  <2>1. EmptyPipe(p.gen) \in PipeSlot
    BY <1>1, EmptyPipeType, Zenon DEF PipeSlot
  <2> DEFINE r == [p EXCEPT !.read_open = @ /\ d # "Read", !.write_open = @ /\ d # "Write"]
  <2>2. /\ r \in PipeSlot /\ r.gen = p.gen /\ r.occupied = p.occupied
        /\ r.read_open = (p.read_open /\ d # "Read") /\ r.write_open = (p.write_open /\ d # "Write")
        /\ r.head = p.head /\ r.length = p.length /\ r.bytes = p.bytes
    BY <1>1, ZenonT(40) DEF PipeSlot
  <2>3. q = IF r.read_open \/ r.write_open THEN r ELSE EmptyPipe(r.gen)
    BY Zenon DEF closed
  <2> HIDE DEF q, r, p
  <2>4. CASE r.read_open \/ r.write_open
    BY <1>1, <2>2, <2>3, <2>4, Zenon DEF PipeSlot
  <2>5. CASE ~(r.read_open \/ r.write_open)
    BY <1>1, <2>1, <2>2, <2>3, <2>5, Zenon DEF PipeSlot, EmptyPipe
  <2> QED BY <2>4, <2>5, Zenon
<1> HIDE DEF q
<1>4. pipes'[i] = q /\ \A j \in Pipes \ {i} : pipes'[j] = pipes[j]
  BY <1>1, <1>2, Zenon
<1>5. /\ ~endpoints'[x].occupied /\ \A e \in Endpoints \ {x} : endpoints'[e] = endpoints[e]
      /\ endpoints'[x].gen = endpoints[x].gen
  <2>1. endpoints[x] \in EndpointSlot
    BY <1>1, <1>2, Zenon
  <2> QED BY <1>1, <1>2, <2>1, Zenon DEF EndpointSlot
<1>6. TypeOK'
  <2>1. pipes' \in [Pipes -> PipeSlot]
    BY <1>1, <1>2, <1>3, Zenon
  <2>2. endpoints' \in [Endpoints -> EndpointSlot]
    <3>1. [endpoints[x] EXCEPT !.occupied = FALSE] \in EndpointSlot
      BY <1>1, <1>2, ZenonT(40) DEF EndpointSlot
    <3>2. endpoints' = [endpoints EXCEPT ![x] = [endpoints[x] EXCEPT !.occupied = FALSE]]
      BY <1>1, <1>2, Zenon
    <3> QED BY <1>1, <1>2, <3>1, <3>2, Zenon
  <2> QED BY <2>1, <2>2, Zenon DEF TypeOK
<1>7. Ends(i)' = Ends(i) \ {d} /\ \A j \in Pipes \ {i} : Ends(j)' = Ends(j)
  BY <1>3, <1>4, Zenon DEF Ends
<1> DEFINE Old(e) == e \in Endpoints \ {x} /\ endpoints[e].occupied
<1>8. \A e \in Endpoints : endpoints'[e].occupied => Old(e) /\ endpoints'[e] = endpoints[e]
  BY <1>5, Zenon
<1>9. \A e : Old(e) => endpoints[e].pipe \in Pipes /\ ~(endpoints[e].pipe = i /\ endpoints[e].direction = d)
  BY <1>1, <1>2 DEF PipeInv, Matched, EndpointSlot
<1>10. Matched'
  <2>1. ASSUME NEW e \in Endpoints, endpoints'[e].occupied
        PROVE  /\ (endpoints[e].pgen = pipes[endpoints[e].pipe].gen)'
               /\ (endpoints[e].direction \in Ends(endpoints[e].pipe))'
    <3>1. Old(e) /\ endpoints'[e] = endpoints[e]
      BY <1>8, <2>1, Zenon
    <3>2. PICK j \in Pipes : j = endpoints[e].pipe
      BY <1>9, <3>1, Zenon
    <3>3. endpoints[e].pgen = pipes[j].gen /\ endpoints[e].direction \in Ends(j)
      BY <3>1, <3>2, Zenon DEF PipeInv, Matched
    <3>4. pipes'[j].gen = pipes[j].gen
      BY <1>3, <1>4, Zenon
    <3>5. endpoints[e].direction \in Ends(j)'
      BY <1>7, <1>9, <3>1, <3>2, <3>3, Zenon
    <3>6. endpoints'[e].pipe = j
      BY <3>1, <3>2, Zenon
    <3> QED BY <3>1, <3>3, <3>4, <3>5, <3>6, Zenon DEF Ends
  <2>2. ASSUME NEW e \in Endpoints, NEW f \in Endpoints,
               endpoints'[e].occupied, endpoints'[f].occupied,
               endpoints'[e].pipe = endpoints'[f].pipe,
               endpoints'[e].direction = endpoints'[f].direction
        PROVE  e = f
    BY <1>8, <2>2 DEF PipeInv, Matched
  <2>3. ASSUME NEW j \in Pipes, NEW m \in {"Read", "Write"}, m \in Ends(j)'
        PROVE  \E e \in Endpoints : /\ endpoints'[e].occupied
                                    /\ endpoints'[e].pipe = j /\ endpoints'[e].direction = m
    <3>1. m \in Ends(j) /\ ~(j = i /\ m = d)
      BY <1>7, <2>3, Zenon
    <3>2. PICK e \in Endpoints : /\ endpoints[e].occupied
                                 /\ endpoints[e].pipe = j /\ endpoints[e].direction = m
      BY <3>1 DEF PipeInv, Matched
    <3>3. e # x
      BY <1>1, <3>1, <3>2, Zenon
    <3> QED BY <1>5, <3>2, <3>3, Zenon
  <2> QED BY <2>1, <2>2, <2>3, Zenon DEF Matched
<1>11. InUse'
  <2>1. pipes'[i].occupied <=> Ends(i)' # {}
    BY <1>3, <1>4, Zenon DEF Ends
  <2>2. \A j \in Pipes \ {i} : pipes'[j].occupied <=> Ends(j)' # {}
    BY <1>4, <1>7, Zenon DEF PipeInv, InUse
  <2> QED BY <2>1, <2>2, Zenon DEF InUse
<1>12. Issued'
  <2>1. \A e \in Endpoints : endpoints'[e].gen = endpoints[e].gen
    BY <1>5, Zenon
  <2>2. \A g \in Handles : g[1] \in Endpoints
    BY Zenon DEF Handles
  <2> QED BY <1>1, <1>8, <2>1, <2>2 DEF PipeInv, Issued
<1>13. S!Close(i, d)
  <2>1. E' = [E EXCEPT ![i] = @ \ {d}] /\ d \in E[i]
    BY <1>1, <1>7, Zenon
  <2>2. K' = [K EXCEPT ![i] = IF E[i] = {d} THEN None ELSE @]
    <3>1. \A j \in Pipes \ {i} : Held(j)' = Held(j)
      BY <1>4, Zenon DEF Held
    <3>2. E[i] = {d} <=> ~q.occupied
      BY <1>1, <1>3, Zenon DEF Ends
    <3>3. q.occupied => Content(q) = Content(p)
      BY <1>3, Zenon DEF Content
    <3>4. Held(i)' = IF E[i] = {d} THEN None ELSE Held(i)
      BY <1>1, <1>4, <3>2, <3>3, Zenon DEF Held
    <3> QED BY <3>1, <3>4, Zenon
  <2> QED BY <1>1, <2>1, <2>2, Zenon DEF S!Close, Held
<1>14. S!Next
  BY <1>13, Zenon DEF S!Next
<1> QED BY <1>6, <1>10, <1>11, <1>12, <1>14, Zenon DEF PipeInv

\* Creating a pipe opens both ends of an empty stream.
LEMMA CreateSteps ==
  ASSUME PipeInv, NEW o \in Owners, create(o)
  PROVE  PipeInv' /\ S!Next
<1>1. PICK i \in Pipes, r \in Endpoints, w \in Endpoints :
        /\ Lowest(FreePipes, i) /\ Lowest(FreeEndpoints, r) /\ Lowest(FreeEndpoints \ {r}, w)
        /\ pipes[i].gen < MaxPipeGen
        /\ next_generation(endpoints[r].gen) # 0 /\ next_generation(endpoints[w].gen) # 0
        /\ endpoints' = [endpoints EXCEPT
             ![r] = Endpoint(next_generation(endpoints[r].gen), o, i, "Read"),
             ![w] = Endpoint(next_generation(endpoints[w].gen), o, i, "Write")]
        /\ issued' = [h \in Handles |->
             IF h \in {<<r, next_generation(endpoints[r].gen)>>, <<w, next_generation(endpoints[w].gen)>>}
             THEN issued[h] \cup {<<i, pipes[i].gen + 1>>} ELSE issued[h]]
        /\ pipes' = [pipes EXCEPT ![i] = [EmptyPipe(@.gen + 1) EXCEPT
             !.occupied = TRUE, !.owner = o, !.read_open = TRUE, !.write_open = TRUE]]
        /\ got' = None
  BY ZenonT(40) DEF create
<1> DEFINE g == pipes[i].gen + 1
           rg == endpoints[r].gen + 1
           wg == endpoints[w].gen + 1
           q == [EmptyPipe(g) EXCEPT
             !.occupied = TRUE, !.owner = o, !.read_open = TRUE, !.write_open = TRUE]
           R == Endpoint(rg, o, i, "Read")
           W == Endpoint(wg, o, i, "Write")
           K == [j \in Pipes |-> Held(j)]
           E == [j \in Pipes |-> Ends(j)]
<1>2. pipes \in [Pipes -> PipeSlot] /\ endpoints \in [Endpoints -> EndpointSlot]
  BY Zenon DEF PipeInv, TypeOK
<1>3. /\ r # w /\ ~endpoints[r].occupied /\ ~endpoints[w].occupied /\ ~pipes[i].occupied
      /\ rg \in 1 .. MaxGen /\ wg \in 1 .. MaxGen /\ g \in 1 .. MaxPipeGen
      /\ next_generation(endpoints[r].gen) = rg /\ next_generation(endpoints[w].gen) = wg
  <2>1. /\ endpoints[r].gen \in Nat /\ endpoints[w].gen \in Nat /\ pipes[i].gen \in Nat
        /\ MaxGen \in Nat /\ MaxPipeGen \in Nat
    BY <1>2, PipeConstants, SMTT(30) DEF PipeSlot, EndpointSlot
  <2>2. r # w /\ ~endpoints[r].occupied /\ ~endpoints[w].occupied /\ ~pipes[i].occupied
    BY <1>1, Zenon DEF Lowest, FreePipes, FreeEndpoints
  <2>3. endpoints[r].gen < MaxGen /\ endpoints[w].gen < MaxGen
    BY <1>1, <2>1, Zenon DEF next_generation
  <2> QED BY <1>1, <2>1, <2>2, <2>3 DEF next_generation
<1>4. /\ q \in PipeSlot /\ q.gen = g /\ q.occupied /\ q.read_open = TRUE /\ q.write_open = TRUE
      /\ q.length = 0
  <2>1. EmptyPipe(g) \in PipeSlot /\ EmptyPipe(g).gen = g /\ EmptyPipe(g).length = 0
    <3>1. g \in 0 .. MaxPipeGen
      BY <1>3, PipeConstants
    <3> QED BY <3>1, EmptyPipeType, Zenon DEF EmptyPipe
  <2> QED BY <2>1, Zenon DEF PipeSlot
<1>5. /\ R \in EndpointSlot /\ R.occupied /\ R.gen = rg /\ R.pipe = i /\ R.pgen = g /\ R.direction = "Read"
      /\ W \in EndpointSlot /\ W.occupied /\ W.gen = wg /\ W.pipe = i /\ W.pgen = g /\ W.direction = "Write"
  <2>1. rg \in 0 .. MaxGen /\ wg \in 0 .. MaxGen /\ g \in 0 .. MaxPipeGen
    BY <1>3, PipeConstants
  <2> QED BY <2>1, Zenon DEF Endpoint, EndpointSlot
<1>6. /\ pipes' = [pipes EXCEPT ![i] = q]
      /\ endpoints' = [endpoints EXCEPT ![r] = R, ![w] = W]
      /\ \A h \in Handles : issued'[h] =
           IF h = <<r, rg>> \/ h = <<w, wg>> THEN issued[h] \cup {<<i, g>>} ELSE issued[h]
      /\ DOMAIN issued' = Handles /\ issued' = [h \in Handles |-> issued'[h]]
  BY <1>1, <1>2, <1>3, Zenon
<1> HIDE DEF q, R, W
<1>7. pipes'[i] = q /\ \A j \in Pipes \ {i} : pipes'[j] = pipes[j]
  BY <1>2, <1>6, Zenon
<1>8. endpoints'[r] = R /\ endpoints'[w] = W /\ \A e \in Endpoints \ {r, w} : endpoints'[e] = endpoints[e]
  BY <1>2, <1>3, <1>6, Zenon
<1>9. TypeOK'
  <2>1. pipes' \in [Pipes -> PipeSlot]
    BY <1>2, <1>4, <1>6, Zenon
  <2>2. endpoints' \in [Endpoints -> EndpointSlot]
    BY <1>2, <1>5, <1>6, Zenon
  <2> QED BY <2>1, <2>2, Zenon DEF TypeOK
<1>10. Ends(i)' = {"Read", "Write"} /\ Ends(i) = {} /\ \A j \in Pipes \ {i} : Ends(j)' = Ends(j)
  <2>1. Ends(i) = {}
    BY <1>3, Zenon DEF PipeInv, InUse
  <2>2. Ends(i)' = {"Read", "Write"}
    BY <1>4, <1>7, Zenon DEF Ends
  <2> QED BY <1>7, <2>1, <2>2, Zenon DEF Ends
<1> DEFINE Old(e) == e \in Endpoints \ {r, w} /\ endpoints[e].occupied
<1>11. \A e : Old(e) => endpoints[e].pipe \in Pipes \ {i}
  BY <1>2, <1>10 DEF PipeInv, Matched, EndpointSlot
<1>12. \A e \in Endpoints : endpoints'[e].occupied =>
         e = r \/ e = w \/ (Old(e) /\ endpoints'[e] = endpoints[e])
  BY <1>8, Zenon
<1>13. Matched'
  <2>1. ASSUME NEW e \in Endpoints, endpoints'[e].occupied
        PROVE  /\ (endpoints[e].pgen = pipes[endpoints[e].pipe].gen)'
               /\ (endpoints[e].direction \in Ends(endpoints[e].pipe))'
    <3>1. CASE e = r
      BY <1>4, <1>5, <1>7, <1>8, <1>10, <3>1, Zenon
    <3>2. CASE e = w
      BY <1>4, <1>5, <1>7, <1>8, <1>10, <3>2, Zenon
    <3>3. CASE Old(e) /\ endpoints'[e] = endpoints[e]
      <4>1. PICK j \in Pipes \ {i} : j = endpoints[e].pipe
        BY <1>11, <3>3, Zenon
      <4>2. endpoints[e].pgen = pipes[j].gen /\ endpoints[e].direction \in Ends(j)
        BY <3>3, <4>1, Zenon DEF PipeInv, Matched
      <4>3. endpoints'[e].pipe = j /\ pipes'[j] = pipes[j] /\ Ends(j)' = Ends(j)
        BY <1>7, <1>10, <3>3, <4>1, Zenon
      <4> QED BY <3>3, <4>2, <4>3, Zenon DEF Ends
    <3> QED BY <1>12, <2>1, <3>1, <3>2, <3>3, Zenon
  <2>2. ASSUME NEW e \in Endpoints, NEW f \in Endpoints,
               endpoints'[e].occupied, endpoints'[f].occupied,
               endpoints'[e].pipe = endpoints'[f].pipe,
               endpoints'[e].direction = endpoints'[f].direction
        PROVE  e = f
    <3>1. CASE Old(e) /\ endpoints'[e] = endpoints[e] /\ Old(f) /\ endpoints'[f] = endpoints[f]
      BY <2>2, <3>1 DEF PipeInv, Matched
    <3>2. CASE e \in {r, w} /\ f \in {r, w}
      BY <1>5, <1>8, <2>2, <3>2
    <3> QED BY <1>5, <1>8, <1>11, <1>12, <2>2, <3>1, <3>2
  <2>3. ASSUME NEW j \in Pipes, NEW m \in {"Read", "Write"}, m \in Ends(j)'
        PROVE  \E e \in Endpoints : /\ endpoints'[e].occupied
                                    /\ endpoints'[e].pipe = j /\ endpoints'[e].direction = m
    <3>1. CASE j = i
      BY <1>5, <1>8, <3>1, Zenon
    <3>2. CASE j # i
      <4>1. PICK e \in Endpoints : /\ endpoints[e].occupied
                                   /\ endpoints[e].pipe = j /\ endpoints[e].direction = m
        BY <1>10, <2>3, <3>2 DEF PipeInv, Matched
      <4>2. e \notin {r, w}
        BY <1>3, <4>1, Zenon
      <4> QED BY <1>8, <4>1, <4>2, Zenon
    <3> QED BY <3>1, <3>2, Zenon
  <2> QED BY <2>1, <2>2, <2>3, Zenon DEF Matched
<1>14. InUse'
  <2>1. pipes'[i].occupied <=> Ends(i)' # {}
    BY <1>4, <1>7, <1>10, Zenon
  <2>2. \A j \in Pipes \ {i} : pipes'[j].occupied <=> Ends(j)' # {}
    BY <1>7, <1>10, Zenon DEF PipeInv, InUse
  <2> QED BY <2>1, <2>2, Zenon DEF InUse
<1>15. Issued'
  <2>1. /\ issued \in [Handles -> SUBSET (Pipes \X (0 .. MaxPipeGen))]
        /\ \A e \in Endpoints : endpoints[e].occupied =>
             /\ endpoints[e].gen \in 1 .. MaxGen
             /\ issued[<<e, endpoints[e].gen>>] = {<<endpoints[e].pipe, endpoints[e].pgen>>}
        /\ \A h \in Handles : endpoints[h[1]].gen < h[2] => issued[h] = {}
    BY Zenon DEF PipeInv, Issued
  <2>2. \A e \in Endpoints : endpoints[e].gen \in Nat
    BY <1>2 DEF EndpointSlot
  <2>3. <<i, g>> \in Pipes \X (0 .. MaxPipeGen)
    BY <1>3, PipeConstants
  <2> HIDE DEF g
  <2>4. <<r, rg>> \in Handles /\ <<w, wg>> \in Handles
    BY <1>3, Zenon DEF Handles
  <2>5. issued[<<r, rg>>] = {} /\ issued[<<w, wg>>] = {}
    BY <2>1, <2>2, <2>4
  <2>6. issued' \in [Handles -> SUBSET (Pipes \X (0 .. MaxPipeGen))]
    <3>1. \A h \in Handles : issued'[h] \in SUBSET (Pipes \X (0 .. MaxPipeGen))
      BY <1>6, <2>1, <2>3
    <3> QED BY <1>6, <3>1, Zenon
  <2>7. issued'[<<r, rg>>] = {<<i, g>>} /\ issued'[<<w, wg>>] = {<<i, g>>}
    BY <1>6, <2>4, <2>5, Zenon
  <2>8. ASSUME NEW e \in Endpoints, endpoints'[e].occupied
        PROVE  /\ endpoints'[e].gen \in 1 .. MaxGen
               /\ issued'[<<e, endpoints'[e].gen>>] = {<<endpoints'[e].pipe, endpoints'[e].pgen>>}
    <3>1. CASE e = r \/ e = w
      BY <1>3, <1>5, <1>8, <2>7, <3>1
    <3>2. CASE Old(e) /\ endpoints'[e] = endpoints[e]
      <4>1. endpoints[e].gen \in 1 .. MaxGen
        BY <2>1, <3>2, Zenon
      <4>2. <<e, endpoints[e].gen>> \in Handles
        BY <4>1, Zenon DEF Handles
      <4>3. <<e, endpoints[e].gen>> # <<r, rg>> /\ <<e, endpoints[e].gen>> # <<w, wg>>
        BY <3>2, Zenon
      <4> QED BY <1>6, <2>1, <3>2, <4>1, <4>2, <4>3, ZenonT(40)
    <3> QED BY <1>12, <2>8, <3>1, <3>2, Zenon
  <2>9. ASSUME NEW h \in Handles, endpoints'[h[1]].gen < h[2]
        PROVE  issued'[h] = {}
    <3>1. h[1] \in Endpoints /\ h[2] \in Nat /\ h = <<h[1], h[2]>>
      BY DEF Handles
    <3>2. endpoints[h[1]].gen < h[2]
      <4>1. CASE h[1] \in {r, w}
        BY <1>5, <1>8, <2>2, <2>9, <3>1, <4>1
      <4>2. CASE h[1] \notin {r, w}
        BY <1>8, <2>9, <3>1, <4>2, Zenon
      <4> QED BY <4>1, <4>2, Zenon
    <3>3. h # <<r, rg>> /\ h # <<w, wg>>
      <4>1. ASSUME h = <<r, rg>> PROVE FALSE
        BY <1>5, <1>8, <2>2, <2>9, <4>1
      <4>2. ASSUME h = <<w, wg>> PROVE FALSE
        BY <1>5, <1>8, <2>2, <2>9, <4>2
      <4> QED BY <4>1, <4>2, Zenon
    <3> QED BY <1>6, <2>1, <3>2, <3>3, Zenon
  <2> QED BY <2>6, <2>8, <2>9, Zenon DEF Issued
<1>16. S!Create(i)
  <2>1. K[i] = None
    BY <1>3, Zenon DEF Held
  <2>2. K' = [K EXCEPT ![i] = <<>>]
    <3>1. \A j \in Pipes \ {i} : Held(j)' = Held(j)
      BY <1>7, Zenon DEF Held
    <3>2. Held(i)' = <<>>
      BY <1>4, <1>7 DEF Held, Content
    <3> QED BY <3>1, <3>2, Zenon
  <2>3. E' = [E EXCEPT ![i] = {"Read", "Write"}]
    BY <1>10, Zenon
  <2> QED BY <1>1, <2>1, <2>2, <2>3, Zenon DEF S!Create, Held
<1>17. S!Next
  BY <1>16, Zenon DEF S!Next
<1> QED BY <1>9, <1>13, <1>14, <1>15, <1>17, Zenon DEF PipeInv

\* Every step keeps the invariant and is a step of the stream.
LEMMA NextPipeInv ==
  ASSUME PipeInv, [Next]_vars
  PROVE  PipeInv' /\ (S!Next \/ UNCHANGED vars)
<1>1. CASE UNCHANGED vars
  <2>1. TypeOK' /\ SameTables
    BY <1>1, Zenon DEF vars, PipeInv, TypeOK, SameTables
  <2> QED BY <1>1, <2>1, SameTablesKeep, Zenon
<1>2. ASSUME NEW o \in Owners, create(o) PROVE PipeInv' /\ S!Next
  BY <1>2, CreateSteps, Zenon
<1>3. ASSUME NEW o \in Owners, NEW h \in Handles, close(o, h) PROVE PipeInv' /\ S!Next
  BY <1>3, CloseSteps, Zenon
<1>4. ASSUME NEW o \in Owners, NEW h \in Handles, NEW n \in 1 .. PIPE_BUF, read(o, h, n)
      PROVE  PipeInv' /\ S!Next
  BY <1>4, ReadSteps, Zenon
<1>5. ASSUME NEW o \in Owners, NEW h \in Handles, NEW n \in 1 .. PIPE_BUF,
             NEW b \in [1 .. n -> Bytes], write(o, h, b)
      PROVE  PipeInv' /\ S!Next
  BY <1>5, WriteSteps, Zenon
<1> QED BY <1>1, <1>2, <1>3, <1>4, <1>5, Zenon DEF Next

\* PipeInv holds in every reachable state.
LEMMA PipeInductive == Spec => []PipeInv
<1>1. PipeInv /\ [Next]_vars => PipeInv'
  BY NextPipeInv, Zenon
<1> QED BY InitPipeInv, <1>1, PTL DEF Spec

\* The two tables of linux_pipe.rs agree: create, read, write and close of any
\* handles, current or stale, leave one endpoint to each open end and every
\* handle at the pipe it was created for.
THEOREM EndsMatch == Spec => []EndsMatchEndpoints
<1>1. ASSUME PipeInv PROVE EndsMatchEndpoints
  <2> USE <1>1
  <2>1. ASSUME NEW i \in Pipes, NEW d \in {"Read", "Write"}
        PROVE  Cardinality({e \in Endpoints : /\ endpoints[e].occupied /\ endpoints[e].pipe = i
                                              /\ endpoints[e].pgen = pipes[i].gen
                                              /\ endpoints[e].direction = d}) =
                 IF d \in Ends(i) THEN 1 ELSE 0
    <3> DEFINE Mine == {e \in Endpoints : /\ endpoints[e].occupied /\ endpoints[e].pipe = i
                                          /\ endpoints[e].pgen = pipes[i].gen
                                          /\ endpoints[e].direction = d}
    <3>1. CASE d \in Ends(i)
      <4>1. PICK e \in Endpoints : /\ endpoints[e].occupied
                                   /\ endpoints[e].pipe = i /\ endpoints[e].direction = d
        BY <3>1 DEF PipeInv, Matched
      <4>2. Mine = {e}
        BY <4>1 DEF PipeInv, Matched
      <4> HIDE DEF Mine
      <4>3. Cardinality(Mine) = 1
        BY <4>2, OneCardinality, Zenon
      <4> QED BY <3>1, <4>3, Zenon DEF Mine
    <3>2. CASE d \notin Ends(i)
      <4>1. Mine = {}
        BY <3>2 DEF PipeInv, Matched
      <4> HIDE DEF Mine
      <4>2. Cardinality(Mine) = 0
        BY <4>1, EmptyCardinality, Zenon
      <4> QED BY <3>2, <4>2, Zenon DEF Mine
    <3> QED BY <3>1, <3>2, Zenon
  <2>2. ASSUME NEW e \in Endpoints, endpoints[e].occupied
        PROVE  pipes[endpoints[e].pipe].occupied /\ pipes[endpoints[e].pipe].gen = endpoints[e].pgen
    <3>1. endpoints[e].pipe \in Pipes
      BY Zenon DEF PipeInv, TypeOK, EndpointSlot
    <3> QED BY <2>2, <3>1, Zenon DEF PipeInv, Matched, InUse
  <2>3. ASSUME NEW o \in Owners, NEW h \in Handles, resolved_endpoint(o, h)
        PROVE  issued[h] = {<<PipeOf(h), pipes[PipeOf(h)].gen>>}
    <3>1. h[1] \in Endpoints /\ endpoints[h[1]].occupied /\ endpoints[h[1]].gen = h[2] /\ h = <<h[1], h[2]>>
      BY <2>3, Resolved DEF Handles
    <3>2. issued[h] = {<<endpoints[h[1]].pipe, endpoints[h[1]].pgen>>}
      BY <3>1 DEF PipeInv, Issued
    <3> QED BY <2>2, <3>1, <3>2, Zenon DEF PipeOf
  <2>4. TypeOK
    BY Zenon DEF PipeInv
  <2> QED BY <2>1, <2>2, <2>3, <2>4, Zenon DEF EndsMatchEndpoints
<1> QED BY <1>1, PipeInductive, PTL

\* A pipe of linux_pipe.rs is a stream: what comes out of the ring is what went in, in
\* order and whole, a write that does not fit changes nothing, the end is seen after
\* the last byte, and a slot that is used again starts empty.
THEOREM PipeIsStream == Spec => IsStream
<1>1. Init => S!Init
  <2> SUFFICES ASSUME Init PROVE S!Init
    BY Zenon
  <2>1. \A i \in Pipes : ~pipes[i].occupied /\ Ends(i) = {}
    BY Zenon DEF Init, EmptyPipe, Ends
  <2> QED BY <2>1, Zenon DEF S!Init, Init
<1>2. PipeInv /\ [Next]_vars =>
        [S!Next]_<<[i \in Pipes |-> IF pipes[i].occupied THEN Content(pipes[i]) ELSE None],
                   [i \in Pipes |-> Ends(i)], got>>
  <2> SUFFICES ASSUME PipeInv, [Next]_vars, UNCHANGED vars
               PROVE  UNCHANGED <<[i \in Pipes |-> IF pipes[i].occupied THEN Content(pipes[i]) ELSE None],
                                  [i \in Pipes |-> Ends(i)], got>>
    BY NextPipeInv, Zenon
  <2> QED BY Zenon DEF vars, Ends
<1> QED BY <1>1, <1>2, PipeInductive, PTL DEF Spec, IsStream, S!Spec


-----------------------------------------------------------------------------
(* Datagrams.                                                              *)

\* The types of the datagram tables.
Message == [n : Nat, to : DgAddresses \cup {Unnamed}, from : DgAddresses \cup {Unnamed}]
DgramSlot ==
  [occupied : BOOLEAN, gen : Nat, address : DgAddresses \cup {Unnamed}, bound : BOOLEAN,
   head : 0 .. DgQueue - 1, length : 0 .. DgQueue, ring : [0 .. DgQueue - 1 -> Message], ready : Nat]

DgTypes ==
  /\ dg \in [Dgrams -> DgramSlot] /\ dgcount \in Nat
  /\ dghandle \subseteq Dgrams \X Nat
  /\ sentto \subseteq [m : Message, handle : Dgrams \X Nat]

\* The k-th message of an endpoint, the head being the 0-th.
Nth(e, k) == e.ring[(e.head + k) % DgQueue]

\* The rings hold what was sent and not received, and nothing else.
Recorded ==
  /\ \A i \in Dgrams : \A k \in 0 .. dg[i].length - 1 :
       [m |-> Nth(dg[i], k), handle |-> <<i, dg[i].gen>>] \in sentto
  /\ \A x \in sentto : \E i \in Dgrams : \E k \in 0 .. dg[i].length - 1 :
       x = [m |-> Nth(dg[i], k), handle |-> <<i, dg[i].gen>>]

\* Messages are numbered as they are sent, and a ring holds them in this order.
Numbered ==
  /\ \A x \in sentto : x.m.n \in 1 .. dgcount
  /\ \A x, y \in sentto : x.m.n = y.m.n => x = y
  /\ \A i \in Dgrams : \A j, k \in 0 .. dg[i].length - 1 :
       j < k => Nth(dg[i], j).n < Nth(dg[i], k).n

\* Only a bound endpoint has messages, for its address, and no two share one.
Addressed ==
  /\ \A i \in Dgrams : dg[i].length # 0 => dg[i].bound
  /\ \A i \in Dgrams : dg[i].bound => dg[i].occupied
  /\ \A i \in Dgrams : \A k \in 0 .. dg[i].length - 1 : Nth(dg[i], k).to = dg[i].address
  /\ \A i, j \in Dgrams : dg[i].bound /\ dg[j].bound /\ dg[i].address = dg[j].address => i = j

DgInv == DgTypes /\ Recorded /\ Numbered /\ Addressed /\ dgtaken[1] = dgtaken[2]

\* The place before one that is not the first.
LEMMA Earlier ==
  ASSUME NEW N \in Nat, NEW l \in 1 .. N, NEW m, m = l - 1, NEW k \in 0 .. l - 1, k # 0
  PROVE  k - 1 \in 0 .. m - 1 /\ (k - 1) + 1 = k
OBVIOUS

\* Different places of a ring are different slots.
LEMMA Apart ==
  ASSUME NEW N \in Nat \ {0}, NEW hd \in 0 .. N - 1, NEW j \in 0 .. N - 1, NEW k \in 0 .. N - 1, j < k
  PROVE  (hd + j) % N # (hd + k) % N
<1> DEFINE a == (hd + j) % N
           b == (hd + k) % N
<1>1. a = hd + j \/ (a = hd + j - N /\ hd + j >= N)
  <2>1. CASE hd + j < N
    BY <2>1, Round
  <2>2. CASE hd + j >= N
    <3> DEFINE z == hd + j - N
    <3>1. z \in 0 .. N - 1 /\ hd + j = z + N
      BY <2>2
    <3>2. (z + N) % N = z
      <4> HIDE DEF z
      <4> QED BY <3>1, Round, Zenon
    <3> QED BY <2>2, <3>1, <3>2, Zenon
  <2> QED BY <2>1, <2>2
<1>2. (b = hd + k /\ hd + k < N) \/ b = hd + k - N
  <2>1. CASE hd + k < N
    BY <2>1, Round
  <2>2. CASE hd + k >= N
    <3> DEFINE z == hd + k - N
    <3>1. z \in 0 .. N - 1 /\ hd + k = z + N
      BY <2>2
    <3>2. (z + N) % N = z
      <4> HIDE DEF z
      <4> QED BY <3>1, Round, Zenon
    <3> QED BY <2>2, <3>1, <3>2, Zenon
  <2> QED BY <2>1, <2>2
<1> HIDE DEF a, b
<1>3. a # b
  BY <1>1, <1>2
<1> QED BY <1>3, Zenon DEF a, b

\* The k-th place after the head has moved on by one was the next one.
LEMMA Shifted ==
  ASSUME NEW N \in Nat \ {0}, NEW hd \in 0 .. N - 1, NEW k \in 0 .. N - 1
  PROVE  (((hd + 1) % N) + k) % N = (hd + (k + 1)) % N
<1>1. CASE hd + 1 < N
  <2>1. (hd + 1) % N = hd + 1 /\ hd + 1 + k = hd + (k + 1)
    <3>1. hd + 1 \in 0 .. N - 1
      BY <1>1
    <3> QED BY <3>1, Round
  <2> QED BY <2>1, Zenon
<1>2. CASE hd + 1 >= N
  <2>1. hd + 1 = 0 + N /\ 0 \in 0 .. N - 1 /\ k + N = hd + (k + 1)
    BY <1>2
  <2>2. (0 + N) % N = 0
    BY <2>1, Round, Zenon
  <2>3. k % N = k /\ (k + N) % N = k /\ 0 + k = k
    BY Round
  <2> QED BY <2>1, <2>2, <2>3, Zenon
<1> QED BY <1>1, <1>2

\* The k-th place is a slot.
LEMMA InRing ==
  ASSUME NEW e \in DgramSlot, NEW k \in Nat
  PROVE  (e.head + k) % DgQueue \in 0 .. DgQueue - 1 /\ Nth(e, k) \in Message
<1>1. e.head + k \in Nat /\ DgQueue \in Nat \ {0} /\ e.ring \in [0 .. DgQueue - 1 -> Message]
  BY DgConstants DEF DgramSlot
<1>2. (e.head + k) % DgQueue \in 0 .. DgQueue - 1
  BY <1>1, Rest, Zenon
<1> QED BY <1>1, <1>2, Zenon DEF Nth

\* A free slot of the table.
LEMMA EmptyDgramType ==
  ASSUME NEW g \in Nat
  PROVE  EmptyDgram(g) \in DgramSlot
BY DgConstants DEF EmptyDgram, DgramSlot, NoMessage, Message

\* DgInit establishes the invariant.
LEMMA InitDgInv == DgInit => DgInv
<1> SUFFICES ASSUME DgInit PROVE DgInv
  BY Zenon
<1>1. DgTypes
  BY EmptyDgramType, Zenon DEF DgInit, DgTypes
<1>2. \A i \in Dgrams : dg[i].length = 0 /\ ~dg[i].bound
  BY Zenon DEF DgInit, EmptyDgram
<1>3. Recorded /\ Numbered /\ Addressed
  BY <1>2 DEF DgInit, Recorded, Numbered, Addressed
<1> QED BY <1>1, <1>3, Zenon DEF DgInv, DgInit

\* An endpoint that has no messages, and has lost those it had.
LEMMA EmptiedKeeps ==
  ASSUME DgInv, NEW i \in Dgrams, NEW q \in DgramSlot, q.length = 0,
         dg' = [dg EXCEPT ![i] = q], sentto' = {x \in sentto : x.handle[1] # i},
         UNCHANGED <<dgcount, dgtaken>>, dghandle' \subseteq Dgrams \X Nat,
         q.bound => q.occupied,
         \A j \in Dgrams \ {i} : q.bound /\ dg[j].bound => q.address # dg[j].address
  PROVE  DgInv'
<1>1. /\ dg \in [Dgrams -> DgramSlot] /\ dgcount \in Nat
      /\ sentto \subseteq [m : Message, handle : Dgrams \X Nat]
  BY Zenon DEF DgInv, DgTypes
<1>2. dg'[i] = q /\ \A j \in Dgrams \ {i} : dg'[j] = dg[j]
  BY <1>1, Zenon
<1>3. DgTypes'
  BY <1>1, Zenon DEF DgTypes
<1>4. Recorded'
  <2>1. ASSUME NEW j \in Dgrams, NEW k \in 0 .. dg'[j].length - 1
        PROVE  [m |-> Nth(dg'[j], k), handle |-> <<j, dg'[j].gen>>] \in sentto'
    <3>1. j # i
      BY <1>2
    <3>2. [m |-> Nth(dg[j], k), handle |-> <<j, dg[j].gen>>] \in sentto
      BY <1>2, <3>1, Zenon DEF DgInv, Recorded
    <3> QED BY <1>2, <3>1, <3>2
  <2>2. ASSUME NEW x \in sentto'
        PROVE  \E j \in Dgrams : \E k \in 0 .. dg'[j].length - 1 :
                 x = [m |-> Nth(dg'[j], k), handle |-> <<j, dg'[j].gen>>]
    <3>1. PICK j \in Dgrams : \E k \in 0 .. dg[j].length - 1 :
            x = [m |-> Nth(dg[j], k), handle |-> <<j, dg[j].gen>>]
      BY Zenon DEF DgInv, Recorded
    <3>2. j # i
      BY <3>1
    <3> QED BY <1>2, <3>1, <3>2
  <2> QED BY <2>1, <2>2, Zenon DEF Recorded, Nth
<1>5. Numbered'
  <2>1. \A x \in sentto' : x \in sentto
    BY Zenon
  <2>2. \A j \in Dgrams : \A l, k \in 0 .. dg'[j].length - 1 :
          l < k => Nth(dg'[j], l).n < Nth(dg'[j], k).n
    BY <1>2 DEF DgInv, Numbered
  <2> QED BY <2>1, <2>2, Zenon DEF DgInv, Numbered, Nth
<1>6. Addressed'
  <2>1. \A j \in Dgrams : \A k \in 0 .. dg'[j].length - 1 : Nth(dg'[j], k).to = dg'[j].address
    BY <1>2 DEF DgInv, Addressed
  <2>2. \A j \in Dgrams : /\ dg'[j].length # 0 => dg'[j].bound
                          /\ dg'[j].bound => dg'[j].occupied
    BY <1>2 DEF DgInv, Addressed
  <2>3. \A l, j \in Dgrams : dg'[l].bound /\ dg'[j].bound /\ dg'[l].address = dg'[j].address => l = j
    BY <1>2 DEF DgInv, Addressed
  <2> QED BY <2>1, <2>2, <2>3, Zenon DEF Addressed, Nth
<1> QED BY <1>3, <1>4, <1>5, <1>6, Zenon DEF DgInv

\* No message is recorded for an endpoint without messages.
LEMMA NothingRecorded ==
  ASSUME DgInv, NEW i \in Dgrams, dg[i].length = 0
  PROVE  sentto = {x \in sentto : x.handle[1] # i}
<1> SUFFICES ASSUME NEW x \in sentto PROVE x.handle[1] # i
  BY Zenon
<1>1. PICK j \in Dgrams : \E k \in 0 .. dg[j].length - 1 :
        x = [m |-> Nth(dg[j], k), handle |-> <<j, dg[j].gen>>]
  BY Zenon DEF DgInv, Recorded
<1> QED BY <1>1

\* What is recorded for an endpoint is recorded for its generation.
LEMMA RecordedNow ==
  ASSUME DgInv, NEW i \in Dgrams, NEW x \in sentto, x.handle[1] = i
  PROVE  x.handle = <<i, dg[i].gen>> /\ \E k \in 0 .. dg[i].length - 1 : x.m = Nth(dg[i], k)
<1>1. PICK j \in Dgrams : \E k \in 0 .. dg[j].length - 1 :
        x = [m |-> Nth(dg[j], k), handle |-> <<j, dg[j].gen>>]
  BY Zenon DEF DgInv, Recorded
<1> QED BY <1>1

\* DgCreate: a free slot has no messages and is not bound.
LEMMA DgCreateKeeps ==
  ASSUME DgInv, DgCreate
  PROVE  DgInv'
<1>1. PICK i \in Dgrams :
        /\ ~dg[i].occupied
        /\ dg' = [dg EXCEPT ![i] = [EmptyDgram(@.gen + 1) EXCEPT !.occupied = TRUE]]
        /\ dghandle' = dghandle \cup {<<i, dg[i].gen + 1>>}
        /\ UNCHANGED <<sentto, dgtaken, dgcount>>
  BY Zenon DEF DgCreate
<1> DEFINE q == [EmptyDgram(dg[i].gen + 1) EXCEPT !.occupied = TRUE]
<1>2. dg \in [Dgrams -> DgramSlot] /\ dg[i].gen \in Nat /\ dghandle \subseteq Dgrams \X Nat
  BY Zenon DEF DgInv, DgTypes, DgramSlot
<1>3. q \in DgramSlot /\ q.length = 0 /\ ~q.bound
  <2>1. EmptyDgram(dg[i].gen + 1) \in DgramSlot
    BY <1>2, EmptyDgramType
  <2> QED BY <2>1, Zenon DEF EmptyDgram, DgramSlot
<1>4. dg' = [dg EXCEPT ![i] = q] /\ dghandle' \subseteq Dgrams \X Nat
  BY <1>1, <1>2
<1>5. dg[i].length = 0
  BY <1>1, Zenon DEF DgInv, Addressed
<1>6. sentto' = {x \in sentto : x.handle[1] # i}
  BY <1>1, <1>5, NothingRecorded, Zenon
<1> HIDE DEF q
<1> QED BY <1>1, <1>3, <1>4, <1>6, EmptiedKeeps, Zenon

\* DgBind: an endpoint that is not bound has no messages, and the address is free.
LEMMA DgBindKeeps ==
  ASSUME DgInv, NEW h \in dghandle, NEW a \in DgAddresses, DgBind(h, a)
  PROVE  DgInv'
<1>1. PICK i \in Dgrams : i = h[1]
  BY Zenon DEF DgInv, DgTypes
<1> DEFINE q == [dg[i] EXCEPT !.address = a, !.bound = TRUE]
<1>2. dg \in [Dgrams -> DgramSlot] /\ dg[i] \in DgramSlot /\ dghandle \subseteq Dgrams \X Nat
  BY Zenon DEF DgInv, DgTypes
<1>3. dg[i].occupied /\ ~dg[i].bound /\ AddressFree(a) /\ UNCHANGED <<dghandle, sentto, dgtaken, dgcount>>
  BY <1>1, Zenon DEF DgBind, DgResolved
<1>4. dg' = [dg EXCEPT ![i] = q]
  BY <1>1, <1>2, Zenon DEF DgBind
<1>5. dg[i].length = 0
  BY <1>3, Zenon DEF DgInv, Addressed
<1>6. q \in DgramSlot /\ q.length = 0 /\ q.occupied = dg[i].occupied /\ q.address = a
  BY <1>2, <1>5, Zenon DEF DgramSlot
<1>7. sentto' = {x \in sentto : x.handle[1] # i}
  BY <1>3, <1>5, NothingRecorded, Zenon
<1>8. \A j \in Dgrams \ {i} : dg[j].bound => a # dg[j].address
  BY <1>3, Zenon DEF AddressFree, BoundTo, DgInv, Addressed
<1> HIDE DEF q
<1> QED BY <1>2, <1>3, <1>4, <1>6, <1>7, <1>8, EmptiedKeeps, Zenon

\* DgClose: the messages go with the endpoint.
LEMMA DgCloseKeeps ==
  ASSUME DgInv, NEW h \in dghandle, DgClose(h)
  PROVE  DgInv'
<1>1. PICK i \in Dgrams : i = h[1] /\ h = <<i, h[2]>>
  BY DEF DgInv, DgTypes
<1> DEFINE q == EmptyDgram(dg[i].gen)
<1>2. dg \in [Dgrams -> DgramSlot] /\ dg[i].gen \in Nat /\ dghandle \subseteq Dgrams \X Nat
  BY Zenon DEF DgInv, DgTypes, DgramSlot
<1>3. /\ dg[i].gen = h[2] /\ dg' = [dg EXCEPT ![i] = q] /\ dghandle' \subseteq Dgrams \X Nat
      /\ sentto' = {x \in sentto : x.handle # h} /\ UNCHANGED <<dgtaken, dgcount>>
  BY <1>1, <1>2, Zenon DEF DgClose, DgResolved
<1>4. q \in DgramSlot /\ q.length = 0 /\ ~q.bound
  BY <1>2, EmptyDgramType, Zenon DEF EmptyDgram
<1>5. \A x \in sentto : x.handle # h <=> x.handle[1] # i
  BY <1>1, <1>3, RecordedNow, Zenon
<1>6. sentto' = {x \in sentto : x.handle[1] # i}
  BY <1>3, <1>5, Zenon
<1> HIDE DEF q
<1> QED BY <1>3, <1>4, <1>6, EmptiedKeeps, Zenon

\* The fields of a slot.
LEMMA SlotFields ==
  ASSUME NEW e \in DgramSlot
  PROVE  /\ e.head \in 0 .. DgQueue - 1 /\ e.length \in 0 .. DgQueue /\ DgQueue \in Nat \ {0}
         /\ e.ring \in [0 .. DgQueue - 1 -> Message] /\ e.gen \in Nat /\ e.ready \in Nat
BY DgConstants, Zenon DEF DgramSlot

\* What send leaves in the slot it writes to.
Pushed(e, m) ==
  [e EXCEPT !.ring[TailOf(e)] = m, !.length = @ + 1, !.ready = IF e.length = 0 THEN @ + 1 ELSE @]

LEMMA PushedFields ==
  ASSUME NEW e \in DgramSlot, NEW m \in Message, e.length < DgQueue
  PROVE  LET q == Pushed(e, m) IN
         /\ TailOf(e) = (e.head + e.length) % DgQueue /\ TailOf(e) \in 0 .. DgQueue - 1
         /\ q.ring = [e.ring EXCEPT ![TailOf(e)] = m] /\ q.length = e.length + 1 /\ q.head = e.head
         /\ q.bound = e.bound /\ q.occupied = e.occupied /\ q.address = e.address /\ q.gen = e.gen
         /\ q \in DgramSlot
<1> DEFINE t == TailOf(e)
           r == [e.ring EXCEPT ![t] = m]
           l == e.length + 1
           w == IF e.length = 0 THEN e.ready + 1 ELSE e.ready
<1>1. e.length \in Nat
  BY SlotFields
<1>2. t = (e.head + e.length) % DgQueue /\ t \in 0 .. DgQueue - 1
  BY <1>1, InRing, Zenon DEF TailOf
<1> HIDE DEF t
<1>3. r \in [0 .. DgQueue - 1 -> Message] /\ l \in 0 .. DgQueue /\ w \in Nat
  BY <1>2, SlotFields, SMTT(30)
<1>4. Pushed(e, m) = [e EXCEPT !.ring = r, !.length = l, !.ready = w]
  BY Zenon DEF Pushed, t, DgramSlot
<1> HIDE DEF r, l, w
<1>5. /\ Pushed(e, m).ring = r /\ Pushed(e, m).length = l /\ Pushed(e, m).head = e.head
      /\ Pushed(e, m).bound = e.bound /\ Pushed(e, m).occupied = e.occupied
      /\ Pushed(e, m).address = e.address /\ Pushed(e, m).gen = e.gen
      /\ Pushed(e, m) \in DgramSlot
  BY <1>3, <1>4, Zenon DEF DgramSlot
<1> QED BY <1>2, <1>5, Zenon DEF r, l, t

\* What receive leaves in the slot it reads from.
Popped(e) ==
  [e EXCEPT !.ring[e.head] = NoMessage, !.head = (@ + 1) % DgQueue, !.length = @ - 1,
            !.ready = IF e.length = 1 THEN @ + 1 ELSE @]

LEMMA PoppedFields ==
  ASSUME NEW e \in DgramSlot, e.length # 0
  PROVE  LET q == Popped(e) IN
         /\ q.ring = [e.ring EXCEPT ![e.head] = NoMessage] /\ q.length = e.length - 1
         /\ q.head = (e.head + 1) % DgQueue
         /\ q.bound = e.bound /\ q.occupied = e.occupied /\ q.address = e.address /\ q.gen = e.gen
         /\ q \in DgramSlot
<1> DEFINE t == (e.head + 1) % DgQueue
           r == [e.ring EXCEPT ![e.head] = NoMessage]
           l == e.length - 1
           w == IF e.length = 1 THEN e.ready + 1 ELSE e.ready
<1>1. t \in 0 .. DgQueue - 1
  BY InRing, Zenon
<1> HIDE DEF t
<1>2. NoMessage \in Message
  BY Zenon DEF NoMessage, Message
<1>3. r \in [0 .. DgQueue - 1 -> Message] /\ l \in 0 .. DgQueue /\ w \in Nat
  BY <1>2, SlotFields
<1>4. Popped(e) = [e EXCEPT !.ring = r, !.head = t, !.length = l, !.ready = w]
  BY Zenon DEF Popped, t, DgramSlot
<1> HIDE DEF r, l, w
<1>5. /\ Popped(e).ring = r /\ Popped(e).length = l /\ Popped(e).head = t
      /\ Popped(e).bound = e.bound /\ Popped(e).occupied = e.occupied
      /\ Popped(e).address = e.address /\ Popped(e).gen = e.gen
      /\ Popped(e) \in DgramSlot
  BY <1>1, <1>3, <1>4, ZenonT(40) DEF DgramSlot
<1> QED BY <1>5, Zenon DEF r, l, t

\* The head of the ring is its 0-th place.
LEMMA HeadPlace ==
  ASSUME NEW e \in DgramSlot
  PROVE  (e.head + 0) % DgQueue = e.head
<1> DEFINE z == e.head
<1>1. z \in 0 .. DgQueue - 1 /\ DgQueue \in Nat \ {0} /\ z + 0 = z
  BY SlotFields
<1> HIDE DEF z
<1>2. (z + 0) % DgQueue = z
  BY <1>1, Round, Zenon
<1> QED BY <1>2, Zenon DEF z

\* DgSend: the message goes behind the last one.
LEMMA DgSendKeeps ==
  ASSUME DgInv, NEW h \in dghandle, NEW a \in DgAddresses, DgSend(h, a)
  PROVE  DgInv'
<1>1. PICK s \in Dgrams : s = h[1]
  BY Zenon DEF DgInv, DgTypes
<1> DEFINE m == [n |-> dgcount + 1, to |-> a, from |-> dg[s].address]
<1>2. PICK i \in Dgrams :
        /\ dg[i].bound /\ dg[i].address = a /\ dg[i].length < DgQueue
        /\ dg' = [dg EXCEPT ![i] = [dg[i] EXCEPT !.ring[TailOf(dg[i])] = m, !.length = @ + 1,
                                                 !.ready = IF dg[i].length = 0 THEN @ + 1 ELSE @]]
        /\ sentto' = sentto \cup {[m |-> m, handle |-> <<i, dg[i].gen>>]}
  BY <1>1, Zenon DEF DgSend, BoundTo
<1>3. dgcount' = dgcount + 1 /\ UNCHANGED <<dghandle, dgtaken>>
  BY Zenon DEF DgSend
<1> DEFINE e == dg[i]
           q == Pushed(e, m)
           new == [m |-> m, handle |-> <<i, e.gen>>]
<1>4. /\ dg \in [Dgrams -> DgramSlot] /\ dgcount \in Nat /\ dghandle \subseteq Dgrams \X Nat
      /\ sentto \subseteq [m : Message, handle : Dgrams \X Nat] /\ e \in DgramSlot
  BY Zenon DEF DgInv, DgTypes
<1>5. /\ e.head \in 0 .. DgQueue - 1 /\ e.length \in 0 .. DgQueue - 1 /\ DgQueue \in Nat \ {0}
      /\ e.ring \in [0 .. DgQueue - 1 -> Message] /\ e.gen \in Nat /\ e.ready \in Nat
  <2>1. e.length < DgQueue
    BY <1>2, Zenon
  <2> QED BY <1>4, <2>1, SlotFields
<1>6. m \in Message /\ m.n = dgcount + 1 /\ m.to = a
  BY <1>4 DEF DgramSlot, Message
<1> HIDE DEF m
<1>7. TailOf(e) = (e.head + e.length) % DgQueue /\ TailOf(e) \in 0 .. DgQueue - 1
  BY <1>4, <1>5, <1>6, PushedFields
<1>8. /\ q.ring = [e.ring EXCEPT ![TailOf(e)] = m] /\ q.length = e.length + 1 /\ q.head = e.head
      /\ q.bound = e.bound /\ q.occupied = e.occupied /\ q.address = e.address /\ q.gen = e.gen
      /\ q \in DgramSlot
  BY <1>4, <1>5, <1>6, PushedFields
<1>9. dg' = [dg EXCEPT ![i] = q]
  BY <1>2, Zenon DEF Pushed, m
<1> HIDE DEF q
<1>10. dg'[i] = q /\ \A j \in Dgrams \ {i} : dg'[j] = dg[j]
  BY <1>4, <1>9, Zenon
<1>11. Nth(q, e.length) = m /\ \A k \in 0 .. e.length - 1 : Nth(q, k) = Nth(e, k)
  <2>1. Nth(q, e.length) = m
    BY <1>5, <1>7, <1>8 DEF Nth
  <2>2. ASSUME NEW k \in 0 .. e.length - 1 PROVE Nth(q, k) = Nth(e, k)
    <3>1. k \in 0 .. DgQueue - 1 /\ k < e.length /\ k \in Nat
      BY <1>5
    <3>2. (e.head + k) % DgQueue # TailOf(e)
      <4> DEFINE l == e.length
                 hd == e.head
      <4>1. hd \in 0 .. DgQueue - 1 /\ l \in 0 .. DgQueue - 1 /\ k < l /\ TailOf(e) = (hd + l) % DgQueue
        BY <1>5, <1>7, <3>1, Zenon
      <4> HIDE DEF l, hd
      <4>2. (hd + k) % DgQueue # (hd + l) % DgQueue
        BY <1>5, <3>1, <4>1, Apart, Zenon
      <4> QED BY <4>1, <4>2, Zenon DEF hd
    <3>3. (e.head + k) % DgQueue \in 0 .. DgQueue - 1
      BY <1>4, <3>1, InRing, Zenon
    <3> QED BY <1>5, <1>8, <3>2, <3>3, SMTT(30) DEF Nth
  <2> QED BY <2>1, <2>2, Zenon
<1>12. \A k \in 0 .. q.length - 1 : k = e.length \/ k \in 0 .. e.length - 1
  BY <1>5, <1>8
<1>13. new \in [m : Message, handle : Dgrams \X Nat] /\ new.m = m /\ new.handle = <<i, e.gen>>
  BY <1>5, <1>6, Zenon
<1>14. sentto' = sentto \cup {new}
  BY <1>2, Zenon
<1> HIDE DEF new
<1>15. DgTypes'
  BY <1>3, <1>4, <1>8, <1>9, <1>13, <1>14 DEF DgTypes
<1>16. Recorded'
  <2>1. ASSUME NEW j \in Dgrams, NEW k \in 0 .. dg'[j].length - 1
        PROVE  [m |-> Nth(dg'[j], k), handle |-> <<j, dg'[j].gen>>] \in sentto'
    <3>1. CASE j # i
      BY <1>10, <1>14, <3>1, Zenon DEF DgInv, Recorded
    <3>2. CASE j = i /\ k = e.length
      BY <1>8, <1>10, <1>11, <1>14, <3>2, Zenon DEF new
    <3>3. CASE j = i /\ k \in 0 .. e.length - 1
      <4>1. [m |-> Nth(e, k), handle |-> <<i, e.gen>>] \in sentto
        BY <3>3, Zenon DEF DgInv, Recorded
      <4> QED BY <1>8, <1>10, <1>11, <1>14, <3>3, <4>1, Zenon
    <3> QED BY <1>10, <1>12, <3>1, <3>2, <3>3, Zenon
  <2>2. ASSUME NEW x \in sentto'
        PROVE  \E j \in Dgrams : \E k \in 0 .. dg'[j].length - 1 :
                 x = [m |-> Nth(dg'[j], k), handle |-> <<j, dg'[j].gen>>]
    <3>1. CASE x = new
      <4>1. e.length \in 0 .. dg'[i].length - 1
        BY <1>5, <1>8, <1>10
      <4> QED BY <1>8, <1>10, <1>11, <3>1, <4>1, Zenon DEF new
    <3>2. CASE x \in sentto
      <4>10. PICK j \in Dgrams : \E k \in 0 .. dg[j].length - 1 :
              x = [m |-> Nth(dg[j], k), handle |-> <<j, dg[j].gen>>]
        BY <3>2, Zenon DEF DgInv, Recorded
      <4>1. PICK k \in 0 .. dg[j].length - 1 :
              x = [m |-> Nth(dg[j], k), handle |-> <<j, dg[j].gen>>]
        BY <4>10, Zenon
      <4>2. CASE j # i
        BY <1>10, <4>1, <4>2, Zenon
      <4>3. CASE j = i
        <5>1. k \in 0 .. dg'[i].length - 1 /\ k \in 0 .. e.length - 1
          BY <1>5, <1>8, <1>10, <4>1, <4>3
        <5> QED BY <1>8, <1>10, <1>11, <4>1, <4>3, <5>1, Zenon
      <4> QED BY <4>2, <4>3, Zenon
    <3> QED BY <1>14, <3>1, <3>2, Zenon
  <2> QED BY <2>1, <2>2, Zenon DEF Recorded, Nth
<1>17. Numbered'
  <2>1. \A x \in sentto : x.m.n \in 1 .. dgcount
    BY Zenon DEF DgInv, Numbered
  <2>2. \A x \in sentto' : x.m.n \in 1 .. dgcount'
    BY <1>3, <1>4, <1>6, <1>13, <1>14, <2>1
  <2>3. \A x, y \in sentto' : x.m.n = y.m.n => x = y
    <3>1. \A x \in sentto : x.m.n # dgcount + 1
      BY <1>4, <2>1
    <3> QED BY <1>6, <1>13, <1>14, <3>1, Zenon DEF DgInv, Numbered
  <2>4. ASSUME NEW j \in Dgrams, NEW l \in 0 .. dg'[j].length - 1, NEW k \in 0 .. dg'[j].length - 1, l < k
        PROVE  Nth(dg'[j], l).n < Nth(dg'[j], k).n
    <3>1. CASE j # i
      BY <1>10, <2>4, <3>1, Zenon DEF DgInv, Numbered
    <3>2. CASE j = i
      <4>1. l \in 0 .. e.length - 1
        BY <1>5, <1>8, <1>10, <2>4, <3>2
      <4>2. [m |-> Nth(e, l), handle |-> <<i, e.gen>>] \in sentto
        BY <4>1, Zenon DEF DgInv, Recorded
      <4>3. Nth(e, l).n \in 1 .. dgcount
        BY <2>1, <4>2, Zenon
      <4>4. CASE k = e.length
        BY <1>4, <1>6, <1>10, <1>11, <3>2, <4>1, <4>3, <4>4
      <4>5. CASE k \in 0 .. e.length - 1
        BY <1>10, <1>11, <2>4, <3>2, <4>1, <4>5, ZenonT(40) DEF DgInv, Numbered
      <4> QED BY <1>10, <1>12, <3>2, <4>4, <4>5, ZenonT(40)
    <3> QED BY <3>1, <3>2, Zenon
  <2> QED BY <2>2, <2>3, <2>4, Zenon DEF Numbered, Nth
<1>18. Addressed'
  <2>1. ASSUME NEW j \in Dgrams, NEW k \in 0 .. dg'[j].length - 1
        PROVE  Nth(dg'[j], k).to = dg'[j].address
    <3>1. CASE j # i
      BY <1>10, <3>1 DEF DgInv, Addressed
    <3>2. CASE j = i /\ k = e.length
      BY <1>2, <1>6, <1>8, <1>10, <1>11, <3>2
    <3>3. CASE j = i /\ k \in 0 .. e.length - 1
      BY <1>8, <1>10, <1>11, <3>3 DEF DgInv, Addressed
    <3> QED BY <1>10, <1>12, <3>1, <3>2, <3>3, Zenon
  <2>2. \A j \in Dgrams : /\ dg'[j].bound = dg[j].bound /\ dg'[j].occupied = dg[j].occupied
                          /\ dg'[j].address = dg[j].address
    BY <1>8, <1>10, Zenon
  <2>3. \A j \in Dgrams : dg'[j].length # 0 => dg'[j].bound
    BY <1>2, <1>8, <1>10 DEF DgInv, Addressed
  <2> QED BY <2>1, <2>2, <2>3 DEF DgInv, Addressed, Nth
<1> QED BY <1>3, <1>15, <1>16, <1>17, <1>18, Zenon DEF DgInv

\* DgReceive: the message at the head is the oldest one, and goes.
LEMMA DgReceiveKeeps ==
  ASSUME DgInv, NEW h \in dghandle, DgReceive(h)
  PROVE  DgInv'
<1>1. PICK i \in Dgrams : i = h[1] /\ h = <<i, h[2]>>
  BY DEF DgInv, DgTypes
<1> DEFINE e == dg[i]
           m == e.ring[e.head]
           q == Popped(e)
<1>2. /\ e.gen = h[2] /\ e.length # 0 /\ dgtaken' = <<m, Oldest(h)>>
      /\ sentto' = {x \in sentto : x.m # m} /\ dg' = [dg EXCEPT ![i] = q]
      /\ UNCHANGED <<dghandle, dgcount>>
  BY <1>1, Zenon DEF DgReceive, DgResolved, Popped
<1>3. /\ dg \in [Dgrams -> DgramSlot] /\ dgcount \in Nat /\ dghandle \subseteq Dgrams \X Nat
      /\ sentto \subseteq [m : Message, handle : Dgrams \X Nat] /\ e \in DgramSlot
  BY Zenon DEF DgInv, DgTypes
<1>4. /\ e.head \in 0 .. DgQueue - 1 /\ e.length \in 1 .. DgQueue /\ DgQueue \in Nat \ {0}
      /\ e.ring \in [0 .. DgQueue - 1 -> Message] /\ e.gen \in Nat /\ e.ready \in Nat
  <2>1. e.length # 0
    BY <1>2, Zenon
  <2> QED BY <1>3, <2>1, SlotFields
<1>7. /\ q.ring = [e.ring EXCEPT ![e.head] = NoMessage] /\ q.length = e.length - 1
      /\ q.head = (e.head + 1) % DgQueue
      /\ q.bound = e.bound /\ q.occupied = e.occupied /\ q.address = e.address /\ q.gen = e.gen
      /\ q \in DgramSlot
  BY <1>3, <1>4, PoppedFields, SMTT(30)
<1>8. m = Nth(e, 0)
  BY <1>3, HeadPlace, Zenon DEF Nth
<1> HIDE DEF q, m
<1>9. dg'[i] = q /\ \A j \in Dgrams \ {i} : dg'[j] = dg[j]
  BY <1>2, <1>3, Zenon
\* The other messages move up by one.
<1>10. ASSUME NEW k \in 0 .. q.length - 1
       PROVE  k + 1 \in 0 .. e.length - 1 /\ Nth(q, k) = Nth(e, k + 1)
  <2> DEFINE hd == e.head
             x == (hd + (k + 1)) % DgQueue
  <2>1. /\ k \in 0 .. DgQueue - 1 /\ k + 1 \in 0 .. e.length - 1 /\ k + 1 \in 0 .. DgQueue - 1
        /\ 0 \in 0 .. DgQueue - 1 /\ 0 < k + 1 /\ k + 1 \in Nat /\ hd \in 0 .. DgQueue - 1
    BY <1>4, <1>7
  <2>2. (q.head + k) % DgQueue = x
    <3> HIDE DEF hd
    <3>1. (((hd + 1) % DgQueue) + k) % DgQueue = (hd + (k + 1)) % DgQueue
      BY <1>4, <2>1, Shifted, Zenon
    <3> QED BY <1>7, <3>1, Zenon DEF hd
  <2>3. x # hd /\ x \in 0 .. DgQueue - 1
    <3>1. (hd + 0) % DgQueue = hd
      BY <1>3, HeadPlace, Zenon
    <3>2. (hd + 0) % DgQueue # (hd + (k + 1)) % DgQueue
      <4> HIDE DEF hd
      <4> QED BY <1>4, <2>1, Apart, Zenon
    <3>3. x \in 0 .. DgQueue - 1
      BY <1>3, <2>1, InRing, Zenon
    <3> QED BY <3>1, <3>2, <3>3, Zenon
  <2> HIDE DEF x
  <2>4. q.ring[x] = e.ring[x]
    BY <1>4, <1>7, <2>3, Zenon
  <2> QED BY <2>1, <2>2, <2>4, Zenon DEF Nth, x
<1>11. ASSUME NEW k \in 0 .. e.length - 1, k # 0
       PROVE  k - 1 \in 0 .. q.length - 1 /\ Nth(q, k - 1) = Nth(e, k)
  <2>1. k - 1 \in 0 .. q.length - 1 /\ (k - 1) + 1 = k
    <3>1. e.length \in 1 .. DgQueue /\ DgQueue \in Nat \ {0} /\ q.length = e.length - 1
      BY <1>4, <1>7, Zenon
    <3> QED BY <1>11, <3>1, Earlier, Zenon
  <2> QED BY <1>10, <2>1, Zenon
<1> DEFINE first == [m |-> m, handle |-> h]
<1>12. first \in sentto /\ first.m = m /\ h = <<i, e.gen>> /\ first.handle = h
  <2>1. 0 \in 0 .. e.length - 1
    BY <1>4
  <2>2. [m |-> Nth(e, 0), handle |-> <<i, e.gen>>] \in sentto
    BY <2>1, Zenon DEF DgInv, Recorded
  <2> QED BY <1>1, <1>2, <1>8, <2>2, Zenon
<1>13. \A x \in sentto : x.m = m <=> x = first
  BY <1>12, Zenon DEF DgInv, Numbered
<1>14. \A k \in 0 .. e.length - 1 : k # 0 => m.n < Nth(e, k).n
  <2>1. 0 \in 0 .. e.length - 1
    BY <1>4
  <2>2. \A k \in 0 .. e.length - 1 : k # 0 => 0 < k
    BY <1>4
  <2> QED BY <1>8, <2>1, <2>2, Zenon DEF DgInv, Numbered
<1>15. dgtaken'[1] = dgtaken'[2]
  <2> DEFINE mine == {x \in sentto : x.handle = h}
  <2>1. first \in mine
    BY <1>12, Zenon
  <2>2. \A x \in mine : x.m.n \in Nat /\ first.m.n <= x.m.n
    <3> SUFFICES ASSUME NEW x \in mine PROVE x.m.n \in Nat /\ first.m.n <= x.m.n
      BY Zenon
    <3>1. x.m.n \in Nat /\ x \in sentto /\ m.n \in Nat
      BY <1>3, <1>12, Zenon DEF Message
    <3>2. PICK k \in 0 .. e.length - 1 : x.m = Nth(e, k)
      BY <1>1, <3>1, RecordedNow, Zenon
    <3>3. CASE k = 0
      BY <1>8, <1>12, <3>1, <3>2, <3>3
    <3>4. CASE k # 0
      BY <1>12, <1>14, <3>1, <3>2, <3>4
    <3> QED BY <3>3, <3>4, Zenon
  <2> DEFINE c == CHOOSE x \in mine : \A y \in mine : x.m.n <= y.m.n
  <2>3. c \in mine /\ \A y \in mine : c.m.n <= y.m.n
    BY <2>1, <2>2, Zenon
  <2> HIDE DEF c
  <2>4. c.m.n = first.m.n
    BY <2>1, <2>2, <2>3
  <2>5. c = first
    BY <2>1, <2>3, <2>4, Zenon DEF DgInv, Numbered
  <2>6. Oldest(h) = c.m
    BY <2>1, Zenon DEF Oldest, c
  <2> QED BY <1>2, <1>12, <2>5, <2>6, Zenon
<1>16. DgTypes'
  BY <1>2, <1>3, <1>7, Zenon DEF DgTypes
<1>17. Recorded'
  <2>1. ASSUME NEW j \in Dgrams, NEW k \in 0 .. dg'[j].length - 1
        PROVE  [m |-> Nth(dg'[j], k), handle |-> <<j, dg'[j].gen>>] \in sentto'
    <3>1. CASE j # i
      <4>1. [m |-> Nth(dg[j], k), handle |-> <<j, dg[j].gen>>] \in sentto
        BY <1>9, <3>1, Zenon DEF DgInv, Recorded
      <4>2. [m |-> Nth(dg[j], k), handle |-> <<j, dg[j].gen>>] # first
        BY <1>12, <3>1, Zenon
      <4> QED BY <1>2, <1>9, <1>13, <3>1, <4>1, <4>2
    <3>2. CASE j = i
      <4>1. k + 1 \in 0 .. e.length - 1 /\ Nth(q, k) = Nth(e, k + 1) /\ k + 1 # 0
        BY <1>4, <1>7, <1>9, <1>10, <3>2
      <4>2. [m |-> Nth(e, k + 1), handle |-> <<i, e.gen>>] \in sentto
        BY <4>1, Zenon DEF DgInv, Recorded
      <4>3. m.n < Nth(e, k + 1).n /\ m.n \in Nat
        BY <1>3, <1>12, <1>14, <4>1, Zenon DEF Message
      <4>4. Nth(e, k + 1) # m
        BY <4>3
      <4> QED BY <1>2, <1>7, <1>9, <3>2, <4>1, <4>2, <4>4
    <3> QED BY <3>1, <3>2, Zenon
  <2>2. ASSUME NEW x \in sentto'
        PROVE  \E j \in Dgrams : \E k \in 0 .. dg'[j].length - 1 :
                 x = [m |-> Nth(dg'[j], k), handle |-> <<j, dg'[j].gen>>]
    <3>1. x \in sentto /\ x.m # m
      BY <1>2, Zenon
    <3>20. PICK j \in Dgrams : \E k \in 0 .. dg[j].length - 1 :
            x = [m |-> Nth(dg[j], k), handle |-> <<j, dg[j].gen>>]
      BY <3>1, Zenon DEF DgInv, Recorded
    <3>2. PICK k \in 0 .. dg[j].length - 1 :
            x = [m |-> Nth(dg[j], k), handle |-> <<j, dg[j].gen>>]
      BY <3>20, Zenon
    <3>3. CASE j # i
      BY <1>9, <3>2, <3>3, Zenon
    <3>4. CASE j = i
      <4>1. k # 0
        BY <1>8, <3>1, <3>2, <3>4, Zenon
      <4>2. k - 1 \in 0 .. q.length - 1 /\ Nth(q, k - 1) = Nth(e, k)
        BY <1>11, <3>2, <3>4, <4>1, Zenon
      <4> QED BY <1>7, <1>9, <3>2, <3>4, <4>2, Zenon
    <3> QED BY <3>3, <3>4, Zenon
  <2> QED BY <2>1, <2>2, Zenon DEF Recorded, Nth
<1>18. Numbered'
  <2>1. ASSUME NEW j \in Dgrams, NEW l \in 0 .. dg'[j].length - 1, NEW k \in 0 .. dg'[j].length - 1, l < k
        PROVE  Nth(dg'[j], l).n < Nth(dg'[j], k).n
    <3>1. CASE j # i
      BY <1>9, <2>1, <3>1, Zenon DEF DgInv, Numbered
    <3>2. CASE j = i
      <4>1. /\ l + 1 \in 0 .. e.length - 1 /\ Nth(q, l) = Nth(e, l + 1)
            /\ k + 1 \in 0 .. e.length - 1 /\ Nth(q, k) = Nth(e, k + 1)
        BY <1>9, <1>10, <3>2, Zenon
      <4>2. l + 1 < k + 1
        BY <1>4, <1>7, <1>9, <2>1, <3>2
      <4> QED BY <1>9, <3>2, <4>1, <4>2, Zenon DEF DgInv, Numbered
    <3> QED BY <3>1, <3>2, Zenon
  <2>2. \A x \in sentto' : x \in sentto
    BY <1>2, Zenon
  <2> QED BY <1>2, <2>1, <2>2, Zenon DEF DgInv, Numbered, Nth
<1>19. Addressed'
  <2>1. ASSUME NEW j \in Dgrams, NEW k \in 0 .. dg'[j].length - 1
        PROVE  Nth(dg'[j], k).to = dg'[j].address
    <3>1. CASE j # i
      BY <1>9, <3>1 DEF DgInv, Addressed
    <3>2. CASE j = i
      BY <1>7, <1>9, <1>10, <3>2 DEF DgInv, Addressed
    <3> QED BY <3>1, <3>2, Zenon
  <2>2. \A j \in Dgrams : /\ dg'[j].bound = dg[j].bound /\ dg'[j].occupied = dg[j].occupied
                          /\ dg'[j].address = dg[j].address
    BY <1>7, <1>9, Zenon
  <2>3. \A j \in Dgrams : dg'[j].length # 0 => dg'[j].bound
    BY <1>2, <1>7, <1>9 DEF DgInv, Addressed
  <2> QED BY <2>1, <2>2, <2>3 DEF DgInv, Addressed, Nth
<1> QED BY <1>15, <1>16, <1>17, <1>18, <1>19, Zenon DEF DgInv

\* DgInv holds in every reachable state.
LEMMA DgInductive == DgSpec => []DgInv
<1>1. DgInv /\ [DgNext]_dgVars => DgInv'
  <2> SUFFICES ASSUME DgInv, [DgNext]_dgVars PROVE DgInv'
    BY Zenon
  <2>1. CASE DgCreate
    BY <2>1, DgCreateKeeps, Zenon
  <2>2. ASSUME NEW h \in dghandle, DgReceive(h) PROVE DgInv'
    BY <2>2, DgReceiveKeeps, Zenon
  <2>3. ASSUME NEW h \in dghandle, DgClose(h) PROVE DgInv'
    BY <2>3, DgCloseKeeps, Zenon
  <2>4. ASSUME NEW h \in dghandle, NEW a \in DgAddresses, DgBind(h, a) PROVE DgInv'
    BY <2>4, DgBindKeeps, Zenon
  <2>5. ASSUME NEW h \in dghandle, NEW a \in DgAddresses, DgSend(h, a) PROVE DgInv'
    BY <2>5, DgSendKeeps, Zenon
  <2>6. CASE UNCHANGED dgVars
    <3>1. dg' = dg /\ dghandle' = dghandle /\ sentto' = sentto /\ dgtaken' = dgtaken /\ dgcount' = dgcount
      BY <2>6, Zenon DEF dgVars
    <3>2. DgTypes'
      BY <3>1, Zenon DEF DgInv, DgTypes
    <3>3. Recorded'
      BY <3>1, ZenonT(40) DEF DgInv, Recorded, Nth
    <3>4. Numbered'
      BY <3>1, Zenon DEF DgInv, Numbered, Nth
    <3>5. Addressed'
      BY <3>1, Zenon DEF DgInv, Addressed, Nth
    <3> QED BY <3>1, <3>2, <3>3, <3>4, <3>5, Zenon DEF DgInv
  <2> QED BY <2>1, <2>2, <2>3, <2>4, <2>5, <2>6, Zenon DEF DgNext
<1> QED BY InitDgInv, <1>1, PTL DEF DgSpec

\* linux_unix_dgram.rs delivers datagrams once, in order and whole: whoever binds,
\* sends, receives and closes in between, an address names one endpoint, and its
\* ring holds what was sent to the endpoint and not received, oldest first.
THEOREM DatagramsInOrder == DgSpec => []DgramsInOrder
<1>1. ASSUME DgInv PROVE DgramsInOrder
  <2> USE <1>1
  <2>1. ASSUME NEW a \in DgAddresses PROVE Cardinality(BoundTo(a)) <= 1
    <3> DEFINE B == BoundTo(a)
    <3>1. \A i, j \in B : i = j
      BY Zenon DEF BoundTo, DgInv, Addressed
    <3> HIDE DEF B
    <3>2. CASE B = {}
      BY <3>2, EmptyCardinality DEF B
    <3>3. CASE B # {}
      <4>1. PICK i \in B : TRUE
        BY <3>3, Zenon
      <4>2. B = {i}
        BY <3>1, <4>1, Zenon
      <4>3. Cardinality(B) = 1
        BY <4>2, OneCardinality, Zenon
      <4> QED BY <4>3 DEF B
    <3> QED BY <3>2, <3>3, Zenon
  <2>2. ASSUME NEW i \in Dgrams
        PROVE  {Nth(dg[i], k) : k \in 0 .. dg[i].length - 1} =
                 {x.m : x \in {y \in sentto : y.handle = <<i, dg[i].gen>>}}
    <3>1. \A k \in 0 .. dg[i].length - 1 : [m |-> Nth(dg[i], k), handle |-> <<i, dg[i].gen>>] \in sentto
      BY Zenon DEF DgInv, Recorded
    <3>2. \A x \in sentto : x.handle = <<i, dg[i].gen>> =>
            \E k \in 0 .. dg[i].length - 1 : x.m = Nth(dg[i], k)
      BY RecordedNow
    <3> QED BY <3>1, <3>2, Zenon
  <2>3. \A i \in Dgrams : \A k \in 0 .. dg[i].length - 1 : Nth(dg[i], k).to = dg[i].address
    BY Zenon DEF DgInv, Addressed
  <2>4. dgtaken[1] = dgtaken[2]
    BY Zenon DEF DgInv
  <2> QED BY <2>1, <2>2, <2>3, <2>4, Zenon DEF DgramsInOrder, Nth
<1> QED BY <1>1, DgInductive, PTL

=============================================================================
