----------------------------- MODULE MCMachine -----------------------------
(***************************************************************************)
(* Model checking of Machine: the daemon with its concurrent API requests, *)
(* a sequence of command lines beside an idle daemon, or both at once.     *)
(***************************************************************************)
EXTENDS Machine, TLC

CONSTANTS CommandLine, Requests

InDaemon == [s \in Slots |-> Daemon]
InCommandLine == [s \in Slots |-> CommandLine]

\* The requests are the daemon's, the other slot is the command line's.
InBoth == [s \in Slots |-> IF s \in Requests THEN Daemon ELSE CommandLine]

SlotSymmetry == Permutations(Requests)
=============================================================================
