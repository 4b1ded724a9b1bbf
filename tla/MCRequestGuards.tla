--------------------------- MODULE MCRequestGuards ---------------------------
(* Two visitors, of whom a cleanup keeps one; two keys, of which a cleanup *)
(* keeps one; half a token per tick.                                       *)
EXTENDS RequestGuards
==============================================================================
