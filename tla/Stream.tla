------------------------------- MODULE Stream -------------------------------
(* What a pipe promises: bytes come out in the order they went in, a write *)
(* is whole or not at all, and the end of the stream is seen after the     *)
(* last byte.                                                              *)
EXTENDS Naturals, Sequences

CONSTANTS Streams, Bytes, Capacity, None
VARIABLES
  content, \* the bytes of each stream that is in use, or None
  ends,    \* its open ends
  got      \* what the last read returned: bytes, none at the end, or None

Init == content = [s \in Streams |-> None] /\ ends = [s \in Streams |-> {}] /\ got = None

Create(s) ==
  /\ content[s] = None
  /\ content' = [content EXCEPT ![s] = <<>>] /\ ends' = [ends EXCEPT ![s] = {"Read", "Write"}]
  /\ got' = None

Write(s, b) ==
  /\ {"Read", "Write"} = ends[s] /\ Len(content[s]) + Len(b) <= Capacity
  /\ content' = [content EXCEPT ![s] = @ \o b] /\ got' = None /\ UNCHANGED ends

Read(s, n) ==
  /\ "Read" \in ends[s] /\ n \in 1 .. Len(content[s])
  /\ got' = SubSeq(content[s], 1, n)
  /\ content' = [content EXCEPT ![s] = SubSeq(@, n + 1, Len(@))] /\ UNCHANGED ends

End(s) ==
  /\ {"Read"} = ends[s] /\ content[s] = <<>>
  /\ got' = <<>> /\ UNCHANGED <<content, ends>>

Close(s, d) ==
  /\ d \in ends[s]
  /\ ends' = [ends EXCEPT ![s] = @ \ {d}]
  /\ content' = [content EXCEPT ![s] = IF ends[s] = {d} THEN None ELSE @] /\ got' = None

Next == \E s \in Streams :
  \/ Create(s) \/ End(s)
  \/ \E n \in 1 .. Capacity : Read(s, n) \/ \E b \in [1 .. n -> Bytes] : Write(s, b)
  \/ \E d \in {"Read", "Write"} : Close(s, d)

Spec == Init /\ [][Next]_<<content, ends, got>>
=============================================================================
