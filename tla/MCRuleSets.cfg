CONSTANTS
  r1 = r1
  r2 = r2
  p1 = p1
  p2 = p2
  RuleSetIds = {r1, r2}
  Assignments = {a1}
  Orders = {0, 1}
  Cases = {c1}
  Contents <- MCContents
  Snapshots <- MCSnapshots
  Requests = {p1, p2}
  MaxVersion = 2
  Outcome <- Evaluate
  Nil = Nil
  Missing = Missing
  Conditions <- MCConditions
  Nesting <- MCNesting
SPECIFICATION Spec
SYMMETRY Symmetry
CHECK_DEADLOCK FALSE

    
PROPERTIES
    FrozenOncePublished
