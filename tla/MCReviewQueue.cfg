CONSTANTS
    Cases = {c1}
    Reviews = {v1, v2}
    CaseOf <- MCCaseOf
    Reviewers = {alice, bob}
    Requests = {p1, p2}
    MaxVersion = 2
    Nil = Nil
SPECIFICATION FairSpec
CHECK_DEADLOCK FALSE
INVARIANTS
    ConcludedWithDecision
    SupersessionIsAChain
PROPERTIES
    HolderKeepsReview
    RequestsEnd
