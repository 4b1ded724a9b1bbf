---------------------------- MODULE MCReviewQueue ----------------------------
(* Two reviews of one case, two reviewers and two requests at a time:      *)
(* rival claims, rival conclusions and rival supersessions all meet.       *)
EXTENDS ReviewQueue

MCCaseOf == [v \in Reviews |-> CHOOSE c \in Cases : TRUE]
=============================================================================
