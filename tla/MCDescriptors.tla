--------------------------- MODULE MCDescriptors ---------------------------
(***************************************************************************)
(* Instances of Descriptors for TLC, by workload.                          *)
(***************************************************************************)
EXTENDS Descriptors, TLC

CONSTANTS c1, c2, p1, p2, f1, v1, v2, e1

\* One process opens files and pairs, duplicates, closes, execs and exits.
FilesWork ==
  [contexts |-> {c1}, owners |-> {p1}, backends |-> {f1, v1, v2}, standard |-> 1,
   calls |-> {"open", "pair", "close", "dup", "dup2", "exec", "exit", "operate"}]

\* Two processes pass watched descriptors through a stream.
RightsWork ==
  [contexts |-> {c1}, owners |-> {p1, p2}, backends |-> {v1, e1}, standard |-> 0,
   calls |-> {"open", "close", "send", "receive", "exit", "ADD", "DEL"}]

\* Two calls interleave at every lock.  There is no DEL: one that overtakes
\* the ADD of its target drops a reference the ADD has not taken yet, which
\* needs a second CPU.
RaceWork ==
  [contexts |-> {c1, c2}, owners |-> {p1}, backends |-> {v1, e1}, standard |-> 0,
   calls |-> {"open", "close", "ADD"}]

\* FIONREAD on descriptors that are duplicated and closed.
FionreadWork ==
  [contexts |-> {c1}, owners |-> {p1}, backends |-> {v1}, standard |-> 1,
   calls |-> {"open", "close", "dup", "exit", "fionread"}]

AllWork == {FilesWork, RightsWork, RaceWork, FionreadWork}

OnlyFionread == {[FionreadWork EXCEPT !.standard = 0]}

\* A file is sent and its sender exits.
SenderExit == {[RightsWork EXCEPT !.backends = {f1}]}
=============================================================================
