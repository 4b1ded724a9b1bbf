------------------------------ MODULE MCApart ------------------------------
(* Parts that share no state with the rest, or with each other: rule sets  *)
(* evaluated over facts, the fields of a form over answers, migrations     *)
(* split into statements and applied by servers that start.  A behaviour   *)
(* is one of them.                                                         *)
EXTENDS RuleEngine, FormFields, SQLScripts, Migrations, TLC

CONSTANTS s1, s2, s3

VARIABLE part  \* the one that runs

-----------------------------------------------------------------------------
(* Two rules in either order: one with any operator and operand, over facts *)
(* of every kind, or with a group.                                         *)
Number(n) == [type |-> "number", v |-> n]
Text(n) == [type |-> "string", v |-> n]
Bool(b) == [type |-> "boolean", v |-> b]
Null == [type |-> "null", v |-> 0]
Array(s) == [type |-> "array", v |-> s]

Leaf(f, op, v) == [kind |-> "leaf", field |-> f, op |-> op, value |-> v]

Rule(n, o, c) == [priority |-> n, outcome |-> o, conditions |-> c]

MCFactSets ==
    {<<>>} \cup
    {("a" :> v) : v \in {Number(1), Number(2), Text(1), Text(-1), Bool(TRUE), Bool(FALSE),
                         Null, Array(<<Number(1)>>)}}

Operands ==
    {Number(1), Text(1), Text(-1), Bool(TRUE), Bool(FALSE), Null,
     Array(<<Number(2), Number(1)>>), Array(<<Text(1), Number(1)>>), Array(<<>>)}

Comparisons ==
    {Leaf("a", op, v) :
        op \in NumericOperators \cup TemporalOperators \cup MembershipOperators \cup
              BooleanOperators \cup ExistenceOperators \cup EqualityOperators,
        v \in Operands}

(* True or false, known of any fact, unknown, not comparable with a number. *)
Some ==
    {Leaf("a", "eq", Number(1)), Leaf("a", "exists", Null), Leaf("b", "exists", Null),
     Leaf("a", "before", Text(1))}

Groups ==
    {Group(k, <<c, d, e>>) : k \in {"all", "any"}, c, d, e \in Some}
    \cup {Group("not", <<Group("any", <<c, d>>)>>) : c, d \in Some}
    \cup {Group("all", <<>>)}

(* With the groups in any order, and their negations pushed inwards.       *)
Written ==
    LET duals == {Dual(c) : c \in {g \in Groups : g.kind # "not"}}
        whole == Comparisons \cup Groups \cup duals
        parts == UNION {ToSet(g.of) : g \in Groups \cup duals}
    IN  whole \cup parts

MCConditions == Written

(* A group of groups is the deepest.                                       *)
MCNesting(c) ==
    IF IsLeaf(c) THEN 0 ELSE IF \A d \in ToSet(c.of) : IsLeaf(d) THEN 1 ELSE 2

MCPrograms ==
    {[rules |-> IF swapped THEN <<s, r>> ELSE <<r, s>>, default |-> "INELIGIBLE"] :
        swapped \in BOOLEAN,
        r \in {Rule(1, "ELIGIBLE", c) : c \in Comparisons \cup Groups},
        s \in {Rule(n, "FLAG", c) : n \in {0, 2}, c \in Some}}

-----------------------------------------------------------------------------
(* Every object of four bounds for text and numbers, with bounds at zero,  *)
(* equal, apart, and no numbers.                                           *)
Bounds == {<<>>, <<0>>, <<10>>, <<30>>}

Objects(keys) == UNION {[S -> Bounds] : S \in SUBSET keys}

Others == [{"pattern"} -> {"wide", "narrow", "broken"}] \cup [{"format"} -> {"date", "other"}]

MCDefinitions ==
    ({"TEXT"} \X (Objects(LengthKeys) \cup Others))
    \cup ({"NUMBER"} \X (Objects(ValueKeys) \cup Others))
    \cup ({"EMAIL", "PHONE"} \X (Objects({"min_length", "maxLength"}) \cup Others))
    \cup ({"DATE", "BOOLEAN", "CHECKBOX", "SELECT", "MULTISELECT"}
           \X ({<<>>} \cup Others \cup Objects({"min_value", "maxLength"})))

MCOptionLists == {<<>>, <<"a">>, <<"a", "b">>, <<"a", "a">>, <<Blank>>}

Answer(kind, of) == [kind |-> kind, of |-> of]

MCAnswers ==
    {Blank}
    \cup {Answer("text", n) : n \in {1, 10, 30}} \cup {Answer("email", n) : n \in {10, 30}}
    \cup {Answer("phone", 10), Answer("date", 10)}
    \cup {Answer("number", n) : n \in {-1, 0, 10, 30}}
    \cup {Answer("boolean", b) : b \in BOOLEAN}
    \cup {Answer("option", o) : o \in {"a", "b"}}
    \cup {Answer("array", S) : S \in SUBSET {"a", "b"}}

-----------------------------------------------------------------------------
(* Scripts of up to four tokens, in which literals, comments and quotes    *)
(* hold what would end a statement, or begin or end one of them.           *)
Tokens ==
    {<<"x">>, <<" ">>, <<";">>, <<"$", "1">>, <<"-", "x">>,
     <<"'", ";", "ae", "-", "-", "'">>, <<"'", "'", "'", "$", "$", "'">>,
     <<"-", "-", "'", ";", "n">>, <<"/", "*", "-", "-", ";", "'", "*", "/">>,
     <<"$", "$", ";", "'", "$", "$">>, <<"$", "$", ";", "ae", "$", "$">>,
     <<"$", "x", "$", "$", "y", "$", ";", "$", "y", "$", "/", "*", "$", "x", "$">>}

MCScripts == UNION {[1..n -> Tokens] : n \in 0..4}
MCCharacters == UNION {ToSet(t) : t \in Tokens}

-----------------------------------------------------------------------------
(* Three releases: the last one lists its fifth file before its second,    *)
(* and the first does without the second.                                  *)
MCDirectory == (s1 :> <<1, 3>>) @@ (s2 :> <<1, 2, 3>>) @@ (s3 :> <<1, 5, 2, 3, 4>>)
MCNeeds == (1 :> {}) @@ (2 :> {1}) @@ (3 :> {1}) @@ (4 :> {}) @@ (5 :> {4})

-----------------------------------------------------------------------------
(* What the other parts leave alone.                                       *)
AProgram ==
    LET known == Leaf("a", "exists", Null)
    IN  [rules |-> <<Rule(1, "ELIGIBLE", known), Rule(2, "FLAG", known)>>,
         default |-> "INELIGIBLE"]

PartInit ==
    /\ part \in {"rules", "fields", "scripts", "startup"}
    /\ part = "rules" \/ (program = AProgram /\ facts = <<>>)
    /\ part = "scripts" \/ script = <<>>
    /\ EngineInit /\ FieldInit /\ ScriptInit /\ StartupInit

PartNext ==
    /\ UNCHANGED part
    /\ \/ part = "rules" /\ EngineNext /\ UNCHANGED <<fieldVars, scriptVars, startupVars>>
       \/ part = "fields" /\ FieldNext /\ UNCHANGED <<engineVars, scriptVars, startupVars>>
       \/ part = "scripts" /\ Split /\ UNCHANGED <<engineVars, fieldVars, startupVars>>
       \/ part = "startup" /\ StartupNext /\ UNCHANGED <<engineVars, fieldVars, scriptVars>>

PartSpec ==
    /\ PartInit
    /\ [][PartNext]_<<engineVars, fieldVars, scriptVars, startupVars, part>>
    /\ \A s \in Servers : WF_startupVars(part = "startup" /\ StartUp(s))
=============================================================================
