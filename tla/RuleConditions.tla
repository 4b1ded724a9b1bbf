--------------------------- MODULE RuleConditions ---------------------------
(***************************************************************************)
(* Conditions and rule sets as values: what a condition says of the facts  *)
(* of a case, which facts it lacks, and which of them may be stored.       *)
(*                                                                         *)
(* A value of a fact or of a condition is [type, v].  The v of a text is a *)
(* number that stands for it: that of its instant if it is a date, and a   *)
(* negative one if it is none.  Whether a text matches a regular           *)
(* expression is left out.                                                 *)
(***************************************************************************)
EXTENDS Integers, FiniteSets, Sequences, FiniteSetsExt, SequencesExt

CONSTANTS
    Missing,     \* what a path that cannot be resolved gives
    Conditions,  \* the conditions people write, with all they are made of
    Nesting(_)   \* how deep each of them is

Results == {"TRUE", "FALSE", "UNKNOWN", "ERROR"}
Outcomes == {"ELIGIBLE", "INELIGIBLE", "REQUIRES_REVIEW", "INFORMATION_REQUIRED",
             "FLAG", "SCORE", "ERROR"}

NumericOperators == {"gt", "gte", "lt", "lte"}
TemporalOperators == {"before", "on_or_before", "after", "on_or_after"}
MembershipOperators == {"in", "not_in"}
BooleanOperators == {"is", "is_not"}
ExistenceOperators == {"exists", "not_exists"}
EqualityOperators == {"eq", "neq"}
Operators ==
    NumericOperators \cup TemporalOperators \cup MembershipOperators \cup
    BooleanOperators \cup ExistenceOperators \cup EqualityOperators

(* A condition is a leaf [kind, field, op, value], or a group [kind, of]   *)
(* with kind "all", "any" or "not", a tree as it is decoded.               *)
IsLeaf(c) == c.kind = "leaf"

ASSUME ConditionsAreTrees ==
    \A c \in Conditions :
        /\ Nesting(c) \in Nat
        /\ c.kind \in {"leaf", "all", "any", "not"}
        /\ IsLeaf(c) =>
              /\ c.op \in Operators
              /\ c.value.type = "array" => c.value.v \in Seq(ToSet(c.value.v))
        /\ ~IsLeaf(c) =>
              /\ c.of \in Seq(Conditions)
              /\ \A i \in DOMAIN c.of : Nesting(c.of[i]) < Nesting(c)
        /\ c.kind = "not" => Len(c.of) = 1

Truth(b) == IF b THEN "TRUE" ELSE "FALSE"

IsScalar(v) == v.type \in {"number", "string", "boolean", "null"}
IsTime(v) == v.type = "string" /\ v.v >= 0

-----------------------------------------------------------------------------
(* One comparison.  The types of both sides are checked, and never         *)
(* converted.                                                              *)

Ordered(op, a, e) ==
    CASE op \in {"gt", "after"} -> a > e
      [] op \in {"gte", "on_or_after"} -> a >= e
      [] op \in {"lt", "before"} -> a < e
      [] op \in {"lte", "on_or_before"} -> a <= e

CompareNumeric(op, a, e) ==
    IF a.type = "number" /\ e.type = "number" THEN Truth(Ordered(op, a.v, e.v)) ELSE "ERROR"

CompareTemporal(op, a, e) ==
    IF IsTime(a) /\ IsTime(e) THEN Truth(Ordered(op, a.v, e.v)) ELSE "ERROR"

CompareEquality(op, a, e) ==
    IF a.type = e.type /\ IsScalar(a) THEN Truth((a.v = e.v) <=> (op = "eq")) ELSE "ERROR"

(* The elements are compared in turn, until one is equal or of another     *)
(* type.                                                                   *)
CompareMembership(op, a, e) ==
    IF e.type # "array" THEN "ERROR" ELSE
    LET result == [i \in 1..Len(e.v) |-> CompareEquality("eq", a, e.v[i])]
        telling == {i \in 1..Len(e.v) : result[i] # "FALSE"}
    IN  IF telling = {} THEN Truth(op = "not_in")
        ELSE IF result[Min(telling)] = "ERROR" THEN "ERROR" ELSE Truth(op = "in")

(* "is" asks for both to be true, "is_not" for them to differ.             *)
CompareBoolean(op, a, e) ==
    IF a.type = "boolean" /\ e.type = "boolean"
    THEN Truth(IF op = "is" THEN a.v /\ e.v ELSE a.v # e.v)
    ELSE "ERROR"

CompareTyped(op, a, e) ==
    CASE op \in NumericOperators -> CompareNumeric(op, a, e)
      [] op \in MembershipOperators -> CompareMembership(op, a, e)
      [] op \in BooleanOperators -> CompareBoolean(op, a, e)
      [] op \in TemporalOperators -> CompareTemporal(op, a, e)
      [] op \in EqualityOperators -> CompareEquality(op, a, e)

(* A fact that is there may be null; and a leaf that does not know a null. *)
EvalLeaf(op, a, e) ==
    IF op \in ExistenceOperators THEN Truth((a.type = "null") <=> (op = "not_exists"))
    ELSE CompareTyped(op, a, e)

-----------------------------------------------------------------------------
(* What a condition says.                                                  *)

(* Facts is a function from the paths that can be resolved.                *)
ResolveFact(facts, path) == IF path \in DOMAIN facts THEN facts[path] ELSE Missing

InvertResult(r) ==
    CASE r = "TRUE" -> "FALSE" [] r = "FALSE" -> "TRUE" [] OTHER -> r

(* One child may decide the group, whatever is wrong with those before it. *)
EvalGroup(results, isAll) ==
    LET given == ToSet(results)
    IN  IF Truth(~isAll) \in given THEN Truth(~isAll)
        ELSE IF "ERROR" \in given THEN "ERROR"
        ELSE IF "UNKNOWN" \in given THEN "UNKNOWN"
        ELSE Truth(isAll)

(* A path that cannot be resolved is unknown under every operator.         *)
EvalField(c, fact) == IF fact = Missing THEN "UNKNOWN" ELSE EvalLeaf(c.op, fact, c.value)

EvaluateCondition(c, facts) ==
    LET value[d \in Conditions] ==
            IF IsLeaf(d) THEN EvalField(d, ResolveFact(facts, d.field)) ELSE
            LET results == [i \in 1..Len(d.of) |-> value[d.of[i]]]
            IN  IF d.kind = "not" THEN InvertResult(results[1])
                ELSE EvalGroup(results, d.kind = "all")
    IN  value[c]

-----------------------------------------------------------------------------
(* Rule sets: [rules, default], each rule [priority, outcome, conditions]. *)

(* The rules that are true.                                                *)
Matching(rs, facts) ==
    {r \in ToSet(rs.rules) : EvaluateCondition(r.conditions, facts) = "TRUE"}

(* What a rule set says: the rule of the lowest priority number that is    *)
(* true, or else what stands in the way, or else the default.              *)
Evaluate(rs, facts) ==
    LET matching == Matching(rs, facts)
        results == {EvaluateCondition(r.conditions, facts) : r \in ToSet(rs.rules)}
    IN  IF matching # {}
        THEN (CHOOSE r \in matching : \A s \in matching : r.priority <= s.priority).outcome
        ELSE IF "ERROR" \in results THEN "ERROR"
        ELSE IF "UNKNOWN" \in results THEN "INFORMATION_REQUIRED"
        ELSE rs.default

(* The comparisons a condition is made of.                                 *)
Leaves(c) ==
    LET leaves[d \in Conditions] ==
            IF IsLeaf(d) THEN {d} ELSE UNION {leaves[d.of[i]] : i \in 1..Len(d.of)}
    IN  leaves[c]

(* The paths a caller is told to supply.                                   *)
FindMissingFacts(rs, facts) ==
    {leaf.field : leaf \in {l \in UNION {Leaves(r.conditions) : r \in ToSet(rs.rules)} :
                               ResolveFact(facts, l.field) = Missing}}

-----------------------------------------------------------------------------
(* Validation, before a rule set is stored and before it is published.     *)

(* What kind of value an operator is compared with; and a check that takes *)
(* a number for every operator that orders.                                *)
ValidNumberForOrder(op, v) ==
    CASE op \in NumericOperators \cup TemporalOperators -> v.type \in {"number", "string"}
      [] op \in MembershipOperators -> v.type = "array"
      [] op \in BooleanOperators -> v.type = "boolean"
      [] op \in EqualityOperators -> IsScalar(v)
ValidValueForOperator(op, v) ==
    CASE op \in NumericOperators -> v.type = "number"
      [] op \in MembershipOperators ->
            v.type = "array" /\ \A e \in ToSet(v.v) : IsScalar(e)
      [] op \in BooleanOperators -> v.type = "boolean"
      [] op \in TemporalOperators -> IsTime(v)
      [] op \in EqualityOperators -> IsScalar(v)

(* A leaf without a value is only good for an existence operator.          *)
ValidLeaf(c) ==
    \/ c.op \in ExistenceOperators
    \/ c.value.type # "null" /\ ValidValueForOperator(c.op, c.value)

MaxConditionNestingDepth == 10
MaxRulesPerRuleSet == 100

(* The depths at which a condition may stand include that of the outermost.*)
ValidCondition(c) ==
    LET depths[d \in Conditions] ==
            {n \in 0..MaxConditionNestingDepth :
                IF IsLeaf(d) THEN ValidLeaf(d)
                ELSE d.of # <<>> /\ \A i \in 1..Len(d.of) : n + 1 \in depths[d.of[i]]}
    IN  0 \in depths[c]

ValidRuleSet(rs) ==
    /\ rs.default \in Outcomes
    /\ Len(rs.rules) <= MaxRulesPerRuleSet
    /\ \A r \in ToSet(rs.rules) :
          /\ r.priority >= 0
          /\ r.outcome \in Outcomes
          /\ ValidCondition(r.conditions)
    /\ IsInjective([i \in 1..Len(rs.rules) |-> rs.rules[i].priority])
=============================================================================
