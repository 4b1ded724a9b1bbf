---------------------------- MODULE MCAIArtifacts ----------------------------
(* A case with two pieces of evidence, one with a document that redaction  *)
(* changes, and two requests at a time.  The budgets are so small that a   *)
(* section is cut short in one context and nothing is in another.          *)
EXTENDS AIArtifacts

CONSTANTS e1, e2, d1, d2, o1, s1, a1, k1, w1

MCEvidence == <<e1, e2>>
MCDocuments == (e1 :> <<d1>>) @@ (e2 :> <<d2>>)
MCCost == [x \in {e1, d1, d2, o1, k1, w1} |-> 1] @@ (e2 :> 2)
MCRows == ("case" :> <<k1>>) @@ ("workflow_history" :> <<w1>>)

(* A summary, a caller that reads documents and observations, and one that *)
(* wants only what people have verified, in two facts.                     *)
MCSummaryOptions ==
    [include |-> {"case", "evidence", "ai_observation"}, verifiedEvidence |-> TRUE,
     onlyVerified |-> FALSE, onlyHumanVerified |-> FALSE,
     maxFacts |-> 0, maxTokens |-> 2]
MCContextOptions ==
    {[include |-> {"document", "ai_observation"}, verifiedEvidence |-> FALSE,
      onlyVerified |-> FALSE, onlyHumanVerified |-> FALSE,
      maxFacts |-> 0, maxTokens |-> 0],
     [include |-> {"workflow", "evidence", "ai_observation"}, verifiedEvidence |-> FALSE,
      onlyVerified |-> TRUE, onlyHumanVerified |-> TRUE,
      maxFacts |-> 2, maxTokens |-> 0]}
===============================================================================
