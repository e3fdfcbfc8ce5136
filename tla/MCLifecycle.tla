---------------------------- MODULE MCLifecycle ----------------------------
(***************************************************************************)
(* An instance of Lifecycle for TLC.  PID1 is booted as the kernel does, a *)
(* Linux program that creates threads and may be killed by a signal, or    *)
(* as a native program that spawns one service of each personality.        *)
(***************************************************************************)
EXTENDS Lifecycle

CONSTANTS rootInit, rootService, rootSpare

MCRoots == {rootInit, rootService, rootSpare}

LinuxInit == [abi |-> "Linux", root |-> rootInit]

BothInits == {LinuxInit, [abi |-> "Native", root |-> rootInit]}

OnlyLinuxInit == {LinuxInit}

BothServices == {[abi |-> "Linux", root |-> rootService], [abi |-> "Native", root |-> rootSpare]}
=============================================================================
