--------------------------- MODULE MCFormPublishing ---------------------------
(* One form with two versions and two requests at a time.                  *)
EXTENDS CaseForms

MCVersions == Forms \X (1..2)
===============================================================================
