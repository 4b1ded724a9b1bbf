--------------------------- MODULE MCCaseServices ---------------------------
(* One case, three rows of any of the four kinds, and two requests.        *)
EXTENDS CaseServices, TLC

Symmetry == Permutations(Requests) \cup Permutations(Rows)
=============================================================================
