------------------------------ MODULE MCEvidence ------------------------------
(* One piece of evidence, documents that share a key or not, and two       *)
(* requests at a time.                                                     *)
EXTENDS Evidence
===============================================================================
