---------------------------- MODULE MCWorkQueue -----------------------------
(***************************************************************************)
(* Small instances of WorkQueue: a slice that stays and a claim that comes *)
(* and goes, and the values of SCAN_INTERVAL at its bounds.                *)
(***************************************************************************)
EXTENDS WorkQueue

CONSTANTS pool, claim, event1, event2, silent

AllSettings == {Unset, NotANumber, -1, 0, 1, 86400, 86401}

=============================================================================
