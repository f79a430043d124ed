-------------------------- MODULE MCReliableControl --------------------------
(* A small instance of ReliableControl: messages of one and of two chunks. *)
EXTENDS ReliableControl

CONSTANTS d1, d2, d3

MCMessages == {<<d1>>, <<d2, d3>>}
=============================================================================
