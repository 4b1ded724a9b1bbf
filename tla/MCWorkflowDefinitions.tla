------------------------ MODULE MCWorkflowDefinitions ------------------------
(* Two versions of one key, which rival requests create and activate, and  *)
(* a second key a draft may be moved to.                                   *)
EXTENDS WorkflowDefinitions

MCDefinitions == {CHOOSE k \in Keys : TRUE} \X (1 .. 2)
=============================================================================
