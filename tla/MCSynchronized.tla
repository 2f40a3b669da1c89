--------------------------- MODULE MCSynchronized ---------------------------
(***************************************************************************)
(* Model checking of Synchronized.  Calls is the number of concurrent API  *)
(* requests; each one may invoke any method.                               *)
(***************************************************************************)
EXTENDS Synchronized, TLC

CallSymmetry == Permutations(Calls)
=============================================================================
