------------------------------ MODULE Mailbox ------------------------------
(* What the preemption mailbox promises: one place, and tickets that come  *)
(* out whole, once, and as they went in.                                   *)
CONSTANTS Tickets, None
VARIABLES
  box, \* the ticket in the mailbox, or None
  out  \* the ticket taken last, or None

Init == box = None /\ out = None
Publish == box = None /\ box' \in Tickets /\ UNCHANGED out
Take == box # None /\ out' = box /\ box' = None
Next == Publish \/ Take
Spec == Init /\ [][Next]_<<box, out>>
=============================================================================
