------------------------------ MODULE MCEpoll ------------------------------
(***************************************************************************)
(* Instances of Epoll for TLC: one task that waits on both ends of a pipe, *)
(* two that wait on an eventfd, and one on an eventfd that is a semaphore. *)
(***************************************************************************)
EXTENDS Epoll

CONSTANTS c1, c2

In == [edge |-> TRUE, bits |-> {"IN"}]
Out == [edge |-> TRUE, bits |-> {"OUT"}]
Both == [edge |-> TRUE, bits |-> {"IN", "OUT"}]
Level == [edge |-> FALSE, bits |-> {"IN", "OUT"}]

FullSemaphore ==
  [targets |-> {"event"}, waiters |-> {c1}, interests |-> {In, Out, Level},
   regs |-> 2, semaphore |-> TRUE]

OnlySemaphore == {FullSemaphore}

PipeOrEvent ==
  {[targets |-> {"reader", "writer"}, waiters |-> {c1}, interests |-> {Both},
    regs |-> 2, semaphore |-> FALSE],
   [targets |-> {"event"}, waiters |-> {c1, c2}, interests |-> {In},
    regs |-> 2, semaphore |-> FALSE],
   FullSemaphore}
=============================================================================
