------------------------------ MODULE MCSessions ------------------------------
(* One account with two sessions and two tokens, an old and a new one, and *)
(* two requests at a time.                                                 *)
EXTENDS Sessions
===============================================================================
