---------------------------- MODULE MCSlowPasses ----------------------------
(* A unit is five minutes, but the full pass comes every hour, not every     *)
(* three, and the deal's window is an hour and not 95 minutes.               *)
EXTENDS SlowPasses
MCLookback == [deal |-> 12, arrival |-> 7]
=============================================================================
