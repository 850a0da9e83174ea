----------------------------- MODULE MCDelivery -----------------------------
(* Instance of Delivery for TLC: overlapping fires of few slots. *)
EXTENDS Delivery
=============================================================================
