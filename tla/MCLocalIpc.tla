----------------------------- MODULE MCLocalIpc -----------------------------
(***************************************************************************)
(* Instances of the local byte and message channels for TLC: Pipe, Sockets *)
(* and Datagrams.  They share no state; a behaviour is one of one of them. *)
(*   pipe      two pipes of one process                                    *)
(*   sockets   rights sent one way and both ways over a socket pair; a     *)
(*             listener with clients that come and go; slots used up       *)
(*   dgrams    three datagram endpoints                                    *)
(***************************************************************************)
EXTENDS Pipe, Sockets, Datagrams

CONSTANTS a, b, k1, k2

VARIABLE part

ipcVars == <<part, vars, sockVars, dgVars>>

OneWay ==
  [make |-> {"pair"}, owners |-> {a}, addresses |-> {}, handles |-> 1, bytes |-> 4, senders |-> {1},
   sizes |-> 1 .. SocketBuffer, rights |-> {{}, {k1}, {k2}}, how |-> {{"rd"}, {"wr"}, {"rd", "wr"}}]
BothWays ==
  [make |-> {"pair"}, owners |-> {a}, addresses |-> {}, handles |-> 1, bytes |-> 2, senders |-> {1, 2},
   sizes |-> {1, 2}, rights |-> {{k1}, {k2}}, how |-> {{"rd"}, {"wr"}}]
Clients ==
  [make |-> {"single"}, owners |-> {a, b}, addresses |-> {1}, handles |-> 2, bytes |-> 1, senders |-> {1},
   sizes |-> {1}, rights |-> {{k1}, {k2}}, how |-> {}]
Reuse ==
  [make |-> {"pair", "single"}, owners |-> {a}, addresses |-> {}, handles |-> 2, bytes |-> 0,
   senders |-> {}, sizes |-> {}, rights |-> {}, how |-> {}]
SockPrograms == {OneWay, BothWays, Clients, Reuse}

IpcInit == part \in {"pipe", "sockets", "dgrams"} /\ Init /\ SockInit /\ DgInit
           /\ (part # "sockets" => sockwork = Reuse)

IpcNext ==
  \/ part = "pipe" /\ Next /\ UNCHANGED <<part, sockVars, dgVars>>
  \/ part = "sockets" /\ SockNext /\ UNCHANGED <<part, vars, dgVars>>
  \/ part = "dgrams" /\ DgNext /\ UNCHANGED <<part, vars, sockVars>>

\* The descriptors in transit, the bytes and the processes are interchangeable.
IpcSymmetry == Permutations({k1, k2}) \cup Permutations({a, b}) \cup Permutations(Bytes)

IpcSpec == IpcInit /\ [][IpcNext]_ipcVars
=============================================================================
