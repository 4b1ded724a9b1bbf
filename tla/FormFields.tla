----------------------------- MODULE FormFields -----------------------------
(***************************************************************************)
(* The fields of a form, checked twice: what may be required of an answer  *)
(* is validated by the forms service when a field is defined, the answer   *)
(* by the case service when a form is submitted.  The two read the same    *)
(* constraints, each with code of its own.                                 *)
(*                                                                         *)
(* A constraint is found under either of two spellings; what is stored     *)
(* under a key is a number, <<n>>, or something else, <<>>.  Lengths are   *)
(* those of three strings, and of an answer only its kind matters besides. *)
(* TEXTAREA is a TEXT, DECIMAL a NUMBER, DATETIME a DATE, RADIO a SELECT.  *)
(***************************************************************************)
EXTENDS Integers, Sequences, Functions

CONSTANTS
    Definitions,  \* types and validation objects of the fields defined
    OptionLists,  \* option values they are given
    Answers,      \* answers submitted
    Blank         \* no field, no answer, an answer null or ""

VARIABLES
    field,   \* the row of form_fields
    answer   \* the answer of the last submission that was accepted

fieldVars == <<field, answer>>

ChoiceTypes == {"SELECT", "MULTISELECT", "CHECKBOX"}
LengthKeys == {"min_length", "max_length", "minLength", "maxLength"}
ValueKeys == {"min_value", "max_value", "minValue", "maxValue"}
MaxBound == 1000000

FieldTypes == {"TEXT", "EMAIL", "PHONE", "NUMBER", "DATE", "BOOLEAN"} \cup ChoiceTypes

(* A bound is a number or none; a length is not negative.                  *)
ASSUME FieldsAreTyped ==
    /\ \A d \in Definitions :
          /\ d[1] \in FieldTypes
          /\ \A key \in (LengthKeys \cup ValueKeys) \cap DOMAIN d[2] :
                d[2][key] \in Seq(Int) /\ Len(d[2][key]) <= 1
    /\ \A o \in OptionLists : o \in Seq(Range(o))
    /\ \A a \in Answers \ {Blank} :
          /\ a.kind \in {"text", "email", "phone", "date"} => a.of \in Nat
          /\ a.kind = "number" => a.of \in Int

(* People may write a text as long, and a number as high, as any bound is, *)
(* and choose any option they are shown.                                   *)
MayBeAnswered(kind, of) == [kind |-> kind, of |-> of] \in Answers \ {Blank}

ASSUME AnswersAreFree ==
    /\ MayBeAnswered("text", 1) /\ MayBeAnswered("number", 0)
    /\ MayBeAnswered("boolean", TRUE) /\ MayBeAnswered("array", {})
    /\ \E a \in Answers \ {Blank} : a.kind = "date"
    /\ \A d \in Definitions :
          /\ \A key \in LengthKeys \cap DOMAIN d[2] :
                d[2][key] # <<>> /\ d[2][key][1] > 0 => MayBeAnswered("text", d[2][key][1])
          /\ \A key \in ValueKeys \cap DOMAIN d[2] :
                d[2][key] # <<>> => MayBeAnswered("number", d[2][key][1])
    /\ \A o \in OptionLists : \A i \in DOMAIN o :
          o[i] # Blank => MayBeAnswered("option", o[i])

-----------------------------------------------------------------------------
(* Definition time.                                                        *)

(* getFloat: <<n>>, or <<>> for a key that is absent or no number.         *)
GetFloat(v, key) == IF key \in DOMAIN v THEN v[key] ELSE <<>>

FirstOf(v, key, other) ==
    IF GetFloat(v, key) # <<>> THEN GetFloat(v, key) ELSE GetFloat(v, other)

Exceeds(low, high) == low # <<>> /\ high # <<>> /\ low[1] > high[1]

(* Lengths that are not negative and, if both are bounded, in order.       *)
ValidateLengthFieldValidation(v) ==
    /\ \A key \in LengthKeys \cap DOMAIN v : v[key] # <<>> /\ v[key][1] \in 0 .. MaxBound
    /\ ~Exceeds(FirstOf(v, "min_length", "minLength"), FirstOf(v, "max_length", "maxLength"))

ValidateNumericFieldValidation(v) ==
    ~Exceeds(FirstOf(v, "min_value", "minValue"), FirstOf(v, "max_value", "maxValue"))

ValidateDateFormatValidation(v) ==
    "format" \in DOMAIN v => v["format"] \in {"date", "datetime", "iso8601"}

(* Bounds are numbers and a pattern compiles.                              *)
ValidateCommonFieldValidation(v) ==
    /\ \A key \in (LengthKeys \cup ValueKeys) \cap DOMAIN v : v[key] # <<>>
    /\ "pattern" \in DOMAIN v => v["pattern"] # "broken"

(* The bounds of an e-mail address or a phone number are not compared.     *)
ValidateFieldValidation(type, v) ==
    /\ type = "TEXT" => ValidateLengthFieldValidation(v)
    /\ type = "NUMBER" => ValidateNumericFieldValidation(v)
    /\ type = "DATE" => ValidateDateFormatValidation(v)
    /\ type \in ChoiceTypes \cup {"BOOLEAN"} \/ ValidateCommonFieldValidation(v)

(* Options are distinct, not empty, and only of a choice.                  *)
ValidateFieldOptions(type, options) ==
    IF type \notin ChoiceTypes THEN options = <<>>
    ELSE /\ options # <<>>
         /\ \A i \in DOMAIN options : options[i] # Blank
         /\ \A i, j \in DOMAIN options : options[i] = options[j] => i = j

(* A check box may do without options, and nobody asks for them.           *)
ValidateField(f) ==
    /\ ValidateFieldValidation(f.type, f.validation)
    /\ f.type \in {"SELECT", "MULTISELECT"} => ValidateFieldOptions(f.type, f.options)

-----------------------------------------------------------------------------
(* Submission time.                                                        *)

(* validationNumber looks for the other spelling first; and a reader of    *)
(* one spelling.                                                           *)
CamelCaseOnly(v, camel, snake) == GetFloat(v, camel)
ValidationNumber(v, camel, snake) == FirstOf(v, camel, snake)

(* A bound of zero, or below, is none.                                     *)
ValidateLength(v, size) ==
    LET min == ValidationNumber(v, "minLength", "min_length")
        max == ValidationNumber(v, "maxLength", "max_length") IN
    /\ min # <<>> /\ min[1] > 0 => size >= min[1]
    /\ max # <<>> /\ max[1] > 0 => size <= max[1]

ValidateNumber(v, n) ==
    LET min == ValidationNumber(v, "minValue", "min_value")
        max == ValidationNumber(v, "maxValue", "max_value") IN
    /\ min # <<>> => n >= min[1]
    /\ max # <<>> => n <= max[1]

(* "narrow" stands for a pattern that no answer meets.                     *)
ValidatePatternConstraint(v) == "pattern" \in DOMAIN v => v["pattern"] = "wide"

(* The pattern of a TEXT is never looked at.                               *)
ValidateFieldValue(f, a) ==
    IF a = Blank THEN ~f.required
    ELSE CASE f.type = "TEXT" -> a.kind \in {"text", "email", "phone", "date"}
                                 /\ ValidateLength(f.validation, a.of)
           [] f.type = "EMAIL" -> a.kind = "email" /\ ValidateLength(f.validation, a.of)
                                  /\ ValidatePatternConstraint(f.validation)
           [] f.type = "PHONE" -> a.kind = "phone" /\ ValidateLength(f.validation, a.of)
                                  /\ ValidatePatternConstraint(f.validation)
           [] f.type = "NUMBER" -> a.kind = "number" /\ ValidateNumber(f.validation, a.of)
           [] f.type = "DATE" -> a.kind = "date"
           [] f.type \in {"BOOLEAN", "CHECKBOX"} -> a.kind = "boolean"
           [] f.type = "SELECT" -> a.kind = "option"
                                   /\ \E i \in DOMAIN f.options : f.options[i] = a.of
           [] f.type = "MULTISELECT" -> a.kind = "array"
                                   /\ \A x \in a.of : \E i \in DOMAIN f.options : f.options[i] = x

-----------------------------------------------------------------------------
FieldInit == field = Blank /\ answer = Blank

AddField ==
    /\ field = Blank
    /\ \E d \in Definitions, required \in BOOLEAN, o \in OptionLists :
          LET f == [type |-> d[1], required |-> required, validation |-> d[2],
                    options |-> o] IN
          ValidateField(f) /\ field' = f
    /\ UNCHANGED answer

(* UpdateField validates what it is given, new options of a type that      *)
(* AddField takes no notice of included, and leaves the rest of the row    *)
(* alone.  A request that gives both is as good as two.  The version is    *)
(* still a draft.                                                          *)
UpdateField ==
    /\ field # Blank /\ answer = Blank
    /\ \E required \in BOOLEAN :
          \/ \E d \in Definitions :
                /\ d[1] = field.type /\ ValidateFieldValidation(field.type, d[2])
                /\ field' = [field EXCEPT !.required = required, !.validation = d[2]]
          \/ \E o \in OptionLists :
                /\ ValidateFieldOptions(field.type, o)
                /\ field' = [field EXCEPT !.required = required, !.options = o]
    /\ UNCHANGED answer

(* validateSubmissionData: an answer may only be left out, or be blank, if *)
(* it is not required.                                                     *)
SubmitAnswer ==
    /\ field # Blank /\ answer = Blank
    /\ \E a \in Answers :
          /\ ValidateFieldValue(field, a)
          /\ answer' = a
    /\ UNCHANGED field

FieldNext == AddField \/ UpdateField \/ SubmitAnswer

FieldSpec == FieldInit /\ [][FieldNext]_fieldVars

-----------------------------------------------------------------------------
(* The two validators look at the spellings in opposite orders, so they    *)
(* only agree on fields that spell each bound one way.                     *)
OneSpelling(v) ==
    \A pair \in {{"min_length", "minLength"}, {"max_length", "maxLength"},
                 {"min_value", "minValue"}, {"max_value", "maxValue"}} :
        ~(pair \subseteq DOMAIN v)

(* A field that was accepted can be answered: a required one never keeps a *)
(* case in its state for good.  It takes one spelling of each bound, and   *)
(* the bounds and patterns of addresses and numbers are never compared     *)
(* with what these look like (ValidateField, validateFieldValue).          *)
FieldsCanBeAnswered ==
    field # Blank /\ OneSpelling(field.validation) /\ field.type \notin {"EMAIL", "PHONE"}
        => \E a \in Answers \ {Blank} : ValidateFieldValue(field, a)

(* A constraint is enforced whichever way it is spelled, as the comment on *)
(* validationNumber says, on fields that spell it one way: an answer is    *)
(* within every bound of its field, a maximal length of zero apart.        *)
BoundsAreEnforced ==
    answer # Blank /\ OneSpelling(field.validation) =>
        LET v == field.validation IN
        /\ field.type \in {"TEXT", "EMAIL", "PHONE"} =>
              /\ \A key \in {"min_length", "minLength"} \cap DOMAIN v : answer.of >= v[key][1]
              /\ \A key \in {"max_length", "maxLength"} \cap DOMAIN v :
                    v[key][1] <= 0 \/ answer.of <= v[key][1]
        /\ field.type = "NUMBER" =>
              /\ \A key \in {"min_value", "minValue"} \cap DOMAIN v : answer.of >= v[key][1]
              /\ \A key \in {"max_value", "maxValue"} \cap DOMAIN v : answer.of <= v[key][1]

(* A field that can be defined can be answered, and only as it is defined  *)
(* (ValidateFieldValidation, validateFieldValue).                          *)
DefinedAsAnswered == FieldsCanBeAnswered /\ BoundsAreEnforced
=============================================================================
