----------------------------- MODULE MCDrivers -----------------------------
(***************************************************************************)
(* For TLC: the two drivers and the loop, with two errors a callback can   *)
(* retry.                                                                  *)
(***************************************************************************)
EXTENDS Drivers

MCTexts == {"refused", "expired"}

=============================================================================
