----------------------------- MODULE MCTtlCache -----------------------------
(* An answer good for one unit of time, or two if the warmer's. *)
EXTENDS TtlCache
=============================================================================
