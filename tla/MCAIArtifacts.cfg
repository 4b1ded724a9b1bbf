SPECIFICATION ArtifactsSpec
CONSTANTS
    e1 = e1
    e2 = e2
    d1 = d1
    d2 = d2
    o1 = o1
    s1 = s1
    a1 = a1
    k1 = k1
    w1 = w1
    Cost <- MCCost
    DefaultFacts = 2
    DefaultTokens = 5
    Evidence <- MCEvidence
    Documents <- MCDocuments
    Altered = {d2}
    Rows <- MCRows
    Observations = {o1}
    Summaries = {s1}
    Analyses = {a1}
    ContextOptions <- MCContextOptions
    SummaryOptions <- MCSummaryOptions
    Requests = {p1, p2}
    MaxRequests = 4
    None = None
CHECK_DEADLOCK FALSE
INVARIANTS
    FactsFollowReviews
    LastReviewIsAudited
    ContextsAreHonest
