---------------------------- MODULE MCCrmEvents ----------------------------
(* Two deals; the order of the rows matters, the deals are interchangeable. *)
EXTENDS CrmEvents, TLC

CONSTANTS d1, d2
MCDeal == {d1, d2}
Interchangeable == Permutations(MCDeal)

=============================================================================
