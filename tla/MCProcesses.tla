---------------------------- MODULE MCProcesses ----------------------------
(***************************************************************************)
(* Instances for TLC of the process table and of what belongs to a process:*)
(* Lifecycle, how the kernel schedules; UserMemory, how an address space is*)
(* built and changed; Images, who owns the ones that were built; and the   *)
(* module window of the kernel.  They share no state; a behaviour is one   *)
(* of one of them.                                                         *)
(***************************************************************************)
EXTENDS MCLifecycle, MCUserMemory, Images, MCModules

\* The loader fills the slots in order.
MCBootSlot == [c \in AllClasses |-> IF c = Pid1Class THEN 1 ELSE c]
MCBootRoot == [c \in AllClasses |-> IF c = Pid1Class THEN 1 ELSE c]

VARIABLE part

processVars == <<part, vars, memVars, imageVars, moduleVars>>

ProcessInit ==
  /\ part \in {"lifecycle", "user", "images", "modules"}
  /\ Init /\ MemInit /\ ImageInit /\ ModulesInit
  /\ part # "user" => work \in PrivateOnly

\* Only the scheduler must always find a next step; the others stop at their bounds.
Rest == part # "lifecycle" /\ UNCHANGED processVars

ProcessNext ==
  \/ part = "lifecycle" /\ Next /\ UNCHANGED <<part, memVars, imageVars, moduleVars>>
  \/ part = "user" /\ MemNext /\ UNCHANGED <<part, vars, imageVars, moduleVars>>
  \/ part = "images" /\ ImageNext /\ UNCHANGED <<part, vars, memVars, moduleVars>>
  \/ part = "modules" /\ ModulesNext /\ UNCHANGED <<part, vars, memVars, imageVars>>
  \/ Rest

ProcessSpec == ProcessInit /\ [][ProcessNext]_processVars
=============================================================================
