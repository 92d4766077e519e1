---------------------------- MODULE MCPortalGate ----------------------------
(* Two entities: deals, walked in chains inside batch, and stages, listed.  *)
EXTENDS PortalGate

MCVia == [deals |-> "batch", stages |-> "stages"]
MCLadder == [THROTTLE |-> <<1, 2, 3>>, TRANSIENT |-> <<1, 2>>, CREDENTIAL |-> <<2>>]

=============================================================================
