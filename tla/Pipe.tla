-------------------------------- MODULE Pipe --------------------------------
(***************************************************************************)
(* The anonymous pipes of linux_pipe.rs: a table of rings, a table of      *)
(* endpoints that name them, and handles that carry a generation.  Every   *)
(* operation is one lock section.                                          *)
(***************************************************************************)
EXTENDS Naturals, Sequences, FiniteSets

CONSTANTS
  Owners,  \* exact process generations
  NPipes,  \* MAXIMUM_PIPES; there are twice as many endpoints
  PIPE_BUF,
  MaxGen,  \* MAXIMUM_ENDPOINT_GENERATION, scaled down
  MaxPipeGen, \* u32::MAX for the generation of a pipe, scaled down
  Bytes,
  None

Pipes == 0 .. NPipes - 1
Endpoints == 0 .. 2 * NPipes - 1
Handles == Endpoints \X (1 .. MaxGen)

ASSUME PipeConstants ==
  /\ NPipes \in Nat /\ PIPE_BUF \in Nat \ {0} /\ MaxGen \in Nat /\ MaxPipeGen \in Nat
  /\ None \notin Owners /\ \E b \in Bytes : TRUE

VARIABLES
  pipes,     \* PipeRegistry.pipes
  endpoints, \* PipeRegistry.endpoints
  got,       \* what the last read returned
  issued     \* history: the pipes each handle was created for

vars == <<pipes, endpoints, got, issued>>

Zero == CHOOSE b \in Bytes : TRUE
Fill == [i \in 0 .. PIPE_BUF - 1 |-> Zero]
EmptyPipe(g) == [occupied |-> FALSE, gen |-> g, owner |-> None, read_open |-> FALSE,
                 write_open |-> FALSE, head |-> 0, length |-> 0, bytes |-> Fill]
EmptyEndpoint == [occupied |-> FALSE, gen |-> 0, owner |-> None, pipe |-> 0,
                  pgen |-> 0, direction |-> "Read"]

resolved_endpoint(o, h) ==
  LET e == endpoints[h[1]]
      p == pipes[e.pipe]
  IN /\ e.occupied /\ e.gen = h[2] /\ e.owner = o
     /\ p.occupied /\ p.gen = e.pgen /\ p.owner = o

PipeOf(h) == endpoints[h[1]].pipe
Direction(h) == endpoints[h[1]].direction

-----------------------------------------------------------------------------
FreePipes == {i \in Pipes : ~pipes[i].occupied}
FreeEndpoints == {i \in Endpoints : ~endpoints[i].occupied}
Lowest(s, i) == i \in s /\ \A j \in s : i <= j

\* The next generation of a slot, or 0 when it has none.
next_generation(g) == IF g < MaxGen THEN g + 1 ELSE 0

Endpoint(g, o, i, d) ==
  [occupied |-> TRUE, gen |-> g, owner |-> o, pipe |-> i, pgen |-> pipes[i].gen + 1,
   direction |-> d]

create(o) ==
  \E i \in Pipes, r, w \in Endpoints :
    /\ Lowest(FreePipes, i) /\ Lowest(FreeEndpoints, r) /\ Lowest(FreeEndpoints \ {r}, w)
    /\ pipes[i].gen < MaxPipeGen
    /\ LET rg == next_generation(endpoints[r].gen)
           wg == next_generation(endpoints[w].gen)
       IN /\ rg # 0 /\ wg # 0
          /\ endpoints' = [endpoints EXCEPT ![r] = Endpoint(rg, o, i, "Read"),
                                            ![w] = Endpoint(wg, o, i, "Write")]
          /\ issued' = [h \in Handles |-> IF h \in {<<r, rg>>, <<w, wg>>}
                                          THEN issued[h] \cup {<<i, pipes[i].gen + 1>>} ELSE issued[h]]
    /\ pipes' = [pipes EXCEPT ![i] = [EmptyPipe(@.gen + 1) EXCEPT
         !.occupied = TRUE, !.owner = o, !.read_open = TRUE, !.write_open = TRUE]]
    /\ got' = None

\* read of up to n bytes.
read(o, h, n) ==
  /\ resolved_endpoint(o, h) /\ Direction(h) = "Read"
  /\ LET p == pipes[PipeOf(h)]
         copied == IF n < p.length THEN n ELSE p.length
     IN \/ /\ p.length = 0 /\ ~p.write_open
           /\ got' = <<>> /\ UNCHANGED pipes
        \/ /\ p.length # 0
           /\ got' = [k \in 1 .. copied |-> p.bytes[(p.head + k - 1) % PIPE_BUF]]
           /\ pipes' = [pipes EXCEPT ![PipeOf(h)] =
                [p EXCEPT !.head = (@ + copied) % PIPE_BUF, !.length = @ - copied]]
  /\ UNCHANGED <<endpoints, issued>>

\* The ring after the bytes b were put behind the last one.
Put(p, b) ==
  [i \in 0 .. PIPE_BUF - 1 |->
     LET k == 1 + ((i + 2 * PIPE_BUF - p.head - p.length) % PIPE_BUF)
     IN IF k <= Len(b) THEN b[k] ELSE p.bytes[i]]

\* Mutated form: what does not fit overwrites.
write_over(o, h, b) ==
  /\ resolved_endpoint(o, h) /\ Direction(h) = "Write"
  /\ LET p == pipes[PipeOf(h)] IN
     /\ p.read_open
     /\ pipes' = [pipes EXCEPT ![PipeOf(h)] =
          [p EXCEPT !.bytes = Put(p, b),
                    !.length = IF @ + Len(b) < PIPE_BUF THEN @ + Len(b) ELSE PIPE_BUF]]
  /\ got' = None /\ UNCHANGED <<endpoints, issued>>

write(o, h, b) ==
  /\ resolved_endpoint(o, h) /\ Direction(h) = "Write"
  /\ LET p == pipes[PipeOf(h)] IN
     /\ p.read_open /\ Len(b) <= PIPE_BUF - p.length
     /\ pipes' = [pipes EXCEPT ![PipeOf(h)] =
          [p EXCEPT !.bytes = Put(p, b), !.length = @ + Len(b)]]
  /\ got' = None /\ UNCHANGED <<endpoints, issued>>

\* Mutated form: the pipe is freed when its read end closes.
closed_early(p, d) ==
  LET q == [p EXCEPT !.read_open = @ /\ d # "Read", !.write_open = @ /\ d # "Write"]
  IN IF q.read_open THEN q ELSE EmptyPipe(q.gen)

\* The pipe once its end d is closed; without ends it is free.
closed(p, d) ==
  LET q == [p EXCEPT !.read_open = @ /\ d # "Read", !.write_open = @ /\ d # "Write"]
  IN IF q.read_open \/ q.write_open THEN q ELSE EmptyPipe(q.gen)

close(o, h) ==
  /\ resolved_endpoint(o, h)
  /\ endpoints' = [endpoints EXCEPT ![h[1]].occupied = FALSE]
  /\ pipes' = [pipes EXCEPT ![PipeOf(h)] = closed(@, Direction(h))]
  /\ got' = None /\ UNCHANGED issued

-----------------------------------------------------------------------------
Init ==
  /\ pipes = [i \in Pipes |-> EmptyPipe(0)] /\ endpoints = [i \in Endpoints |-> EmptyEndpoint]
  /\ got = None /\ issued = [h \in Handles |-> {}]

\* Any handle may be presented: the open ones and those closed long ago.
Next == \E o \in Owners :
  \/ create(o)
  \/ \E h \in Handles :
       \/ close(o, h)
       \/ \E n \in 1 .. PIPE_BUF : read(o, h, n) \/ \E b \in [1 .. n -> Bytes] : write(o, h, b)

Spec == Init /\ [][Next]_vars

-----------------------------------------------------------------------------
(* Properties.                                                             *)

PipeSlot ==
  [occupied : BOOLEAN, gen : 0 .. MaxPipeGen, owner : Owners \cup {None}, read_open : BOOLEAN,
   write_open : BOOLEAN, head : 0 .. PIPE_BUF - 1, length : 0 .. PIPE_BUF,
   bytes : [0 .. PIPE_BUF - 1 -> Bytes]]
EndpointSlot ==
  [occupied : BOOLEAN, gen : 0 .. MaxGen, owner : Owners \cup {None}, pipe : Pipes,
   pgen : 0 .. MaxPipeGen, direction : {"Read", "Write"}]

\* The variables have their types, and every handle fits its encoding.
TypeOK == pipes \in [Pipes -> PipeSlot] /\ endpoints \in [Endpoints -> EndpointSlot]

Ends(i) == {d \in {"Read", "Write"} : IF d = "Read" THEN pipes[i].read_open ELSE pipes[i].write_open}
Content(p) == [k \in 1 .. p.length |-> p.bytes[(p.head + k - 1) % PIPE_BUF]]

\* The ring is a stream: what read returns is what write was given, in order
\* and whole, across the wrap of head and tail, and a slot that is used again
\* starts empty.
S == INSTANCE Stream WITH
  Streams <- Pipes, Capacity <- PIPE_BUF,
  content <- [i \in Pipes |-> IF pipes[i].occupied THEN Content(pipes[i]) ELSE None],
  ends <- [i \in Pipes |-> Ends(i)]
IsStream == S!Spec

\* The two tables agree: an open end of a pipe has exactly one endpoint, an
\* endpoint in use names a pipe whose end is open, and a handle that resolves
\* resolves to the pipe it was created for, however often its slot and the
\* slot of the pipe were used in between.
EndsMatchEndpoints ==
  /\ TypeOK
  /\ \A i \in Pipes, d \in {"Read", "Write"} :
       Cardinality({e \in Endpoints : /\ endpoints[e].occupied /\ endpoints[e].pipe = i
                                      /\ endpoints[e].pgen = pipes[i].gen
                                      /\ endpoints[e].direction = d}) = IF d \in Ends(i) THEN 1 ELSE 0
  /\ \A e \in Endpoints : endpoints[e].occupied =>
       pipes[endpoints[e].pipe].occupied /\ pipes[endpoints[e].pipe].gen = endpoints[e].pgen
  /\ \A o \in Owners, h \in Handles : resolved_endpoint(o, h) =>
       issued[h] = {<<PipeOf(h), pipes[PipeOf(h)].gen>>}
=============================================================================
