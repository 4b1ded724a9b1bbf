----------------------------- MODULE RuleEngine -----------------------------
(***************************************************************************)
(* The evaluation of a rule set over the facts of a case: the rules are    *)
(* tried one after the other until one of them is true.                    *)
(***************************************************************************)
EXTENDS RuleConditions

CONSTANTS
    Programs,  \* rule sets someone asks to evaluate
    FactSets,  \* facts they are evaluated over
    NoOutcome  \* what an evaluation that has not ended returns

ASSUME ProgramsAreRuleSets ==
    /\ NoOutcome \notin Outcomes
    /\ \A rs \in Programs :
          /\ rs.rules \in Seq(ToSet(rs.rules))
          /\ \A r \in ToSet(rs.rules) : r.priority \in Int /\ r.conditions \in Conditions

VARIABLES
    program,     \* the rule set, [rules, default]
    facts,       \* the frozen facts
    todo,        \* the positions of the rules not yet tried
    anyError,    \* one of those tried could not be compared
    anyUnknown,  \* one of those tried lacks a fact
    outcome      \* what the evaluation returns

engineVars == <<program, facts, todo, anyError, anyUnknown, outcome>>

-----------------------------------------------------------------------------
(* Rule i is the next one by priority, however they are stored; and as     *)
(* they are stored.                                                        *)
NextStored(i) == \A j \in todo : i <= j
NextByPriority(i) ==
    \A j \in todo : program.rules[i].priority <= program.rules[j].priority

(* Whoever evaluates a rule set validates it before.                       *)
EngineInit ==
    /\ program \in {rs \in Programs : ValidRuleSet(rs)}
    /\ facts \in FactSets
    /\ todo = DOMAIN program.rules
    /\ anyError = FALSE
    /\ anyUnknown = FALSE
    /\ outcome = NoOutcome

(* The first rule that is true decides, even if one before it could not be *)
(* evaluated.                                                              *)
TryRule(i) ==
    /\ outcome = NoOutcome
    /\ i \in todo /\ NextByPriority(i)
    /\ LET rule == program.rules[i]
           result == EvaluateCondition(rule.conditions, facts) IN
          /\ outcome' = IF result = "TRUE" THEN rule.outcome ELSE NoOutcome
          /\ anyError' = (anyError \/ result = "ERROR")
          /\ anyUnknown' = (anyUnknown \/ result = "UNKNOWN")
    /\ todo' = todo \ {i}
    /\ UNCHANGED <<program, facts>>

ApplyDefault ==
    /\ outcome = NoOutcome /\ todo = {}
    /\ outcome' = IF anyError THEN "ERROR"
                  ELSE IF anyUnknown THEN "INFORMATION_REQUIRED" ELSE program.default
    /\ UNCHANGED <<program, facts, todo, anyError, anyUnknown>>

EngineNext == (\E i \in todo : TryRule(i)) \/ ApplyDefault

EngineSpec == EngineInit /\ [][EngineNext]_engineVars

-----------------------------------------------------------------------------
(* The evaluation gives what the rule set says, however its rules are      *)
(* stored.                                                                 *)
OutcomeIsDeclared == outcome # NoOutcome => outcome = Evaluate(program, facts)

(* If nothing is known to hold, but more information may settle it, the    *)
(* caller is told which facts to supply.                                   *)
InformationRequiredNamesFacts ==
    outcome # NoOutcome /\ Matching(program, facts) = {} /\ anyUnknown /\ ~anyError
        => FindMissingFacts(program, facts) # {}

(* The order in which the children of a group are written means nothing,   *)
(* and a negation may be pushed into it, whatever is unknown or cannot be  *)
(* compared.                                                               *)
Group(kind, of) == [kind |-> kind, of |-> of]

Reversed(c) == Group(c.kind, Reverse(c.of))
Dual(c) == Group(IF c.kind = "all" THEN "any" ELSE "all",
                 [i \in 1..Len(c.of) |-> Group("not", <<c.of[i]>>)])

GroupsHaveNoOrder ==
    \A r \in ToSet(program.rules) :
        LET c == r.conditions
            result == EvaluateCondition(c, facts)
        IN  c.kind \in {"all", "any"} =>
                /\ Reversed(c) \in Conditions =>
                      EvaluateCondition(Reversed(c), facts) = result
                /\ Dual(c) \in Conditions =>
                      EvaluateCondition(Dual(c), facts) = InvertResult(result)

(* The fact is of the kind the leaf compares it with.                      *)
Suits(c, fact) ==
    CASE c.op \in ExistenceOperators -> TRUE
      [] c.op \in TemporalOperators -> IsTime(fact)
      [] c.op \in MembershipOperators -> \A e \in ToSet(c.value.v) : e.type = fact.type
      [] OTHER -> fact.type = c.value.type

WellTyped(c) ==
    \A leaf \in Leaves(c) :
        leaf.field \in DOMAIN facts => Suits(leaf, facts[leaf.field])

(* What validation lets through can be compared: over facts of the kinds   *)
(* its conditions ask for, a rule set is never an error.                   *)
ValidRuleSetsNeverErr ==
    (\A r \in ToSet(program.rules) : WellTyped(r.conditions)) => ~anyError

(* What an evaluation answers depends on what the rule set says and on     *)
(* nothing else: not on the order its rules are stored or its children are *)
(* written in; and what is missing for an answer is named (Evaluate).      *)
EvaluationIsDeclarative ==
    /\ OutcomeIsDeclared
    /\ InformationRequiredNamesFacts
    /\ GroupsHaveNoOrder
=============================================================================
