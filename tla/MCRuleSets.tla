----------------------------- MODULE MCRuleSets -----------------------------
(* Two contents of a rule set, which differ in what they say of the facts  *)
(* of the case and in the events they are for.                             *)
EXTENDS RuleSets, RuleConditions, TLC

CONSTANTS r1, r2, p1, p2

Number(n) == [type |-> "number", v |-> n]
Null == [type |-> "null", v |-> 0]

Leaf(f, op, v) == [kind |-> "leaf", field |-> f, op |-> op, value |-> v]

Rule(n, o, c) == [priority |-> n, outcome |-> o, conditions |-> c]

MCContents ==
    {[rules |-> <<Rule(1, "ELIGIBLE", Leaf("income", "lt", Number(2)))>>,
      default |-> "INELIGIBLE", triggers |-> {}],
     [rules |-> <<Rule(1, "ELIGIBLE", Leaf("income", "exists", Null))>>,
      default |-> "REQUIRES_REVIEW", triggers |-> {"form_submitted"}]}

(* None of them is a group.                                                *)
MCConditions == UNION {{r.conditions : r \in ToSet(k.rules)} : k \in MCContents}
MCNesting(c) == 0

MCSnapshots == {[income |-> Number(3)]}

Symmetry == Permutations({r1, r2}) \cup Permutations({p1, p2})
=============================================================================
