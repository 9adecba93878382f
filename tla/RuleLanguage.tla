---------------------------- MODULE RuleLanguage ----------------------------
(* The condition language of trigger rules, workflow branches and role        *)
(* permissions (packages/rule-dsl). A condition is validated against a typed  *)
(* context when it is published, and evaluated against what is known when it  *)
(* is used, where a field may be missing. An expression is [op, args]; an     *)
(* argument is an expression, a field reference [field] or a literal [lit]; a *)
(* value is a tuple that starts with its type.                                *)
EXTENDS Integers, Sequences, FiniteSets, FiniteSetsExt

CONSTANTS
  Schema,     \* Schema[f]: the type of field f of the context
  Conditions, \* the expressions that are published
  Contexts    \* what the fields may be: functions from DOMAIN Schema to values

VARIABLES
  condition,  \* the expression at hand
  verdict,    \* what validation said
  known,      \* the context of the last evaluation
  answer      \* what each user of the language made of it

ruleVars == <<condition, verdict, known, answer>>

None == <<"none">>
Order == {"lt", "lte", "gt", "gte"}
Equality == {"eq", "ne"}
Membership == {"in", "not_in"}
Boolean == {"and", "or", "not"}
IsExpr(a) == "op" \in DOMAIN a
IsField(a) == "field" \in DOMAIN a
Unasked == [trigger |-> "none", workflow |-> "none", rbac |-> "none"]

RulesInit == condition \in Conditions /\ verdict = "none" /\ known = <<>> /\ answer = Unasked

LanguageTypeOK == verdict \in {"none", "ok", "error"} /\ (answer # Unasked => verdict = "ok")

-----------------------------------------------------------------------------
(* parse: the operator of every node is allowed.                             *)
RECURSIVE Parse(_)
Parse(e) ==
  /\ e.op \in Order \cup Equality \cup Membership \cup Boolean \cup {"exists"}
  /\ \A i \in DOMAIN e.args : IsExpr(e.args[i]) => Parse(e.args[i])

(* _literal_matches: a date is written as a string.                          *)
LiteralMatches(type, v) == v[1] = IF type = "datetime" THEN "string" ELSE type

FieldKnown(a) == IsField(a) => a.field \in DOMAIN Schema

(* _operand_type: "any" is a bare literal.                                   *)
OperandType(a) ==
  IF IsExpr(a) THEN "boolean" ELSE IF IsField(a) THEN Schema[a.field] ELSE "any"

(* _check_literal: a literal beside a typed operand has its type.            *)
CheckLiteralNot(type, other) == TRUE                                 \* mutant
CheckLiteral(type, other) ==
  type = "any" \/ IsExpr(other) \/ IsField(other) \/ LiteralMatches(type, other.lit)

(* _check: a comparison is checked, the predicates inside it are not.        *)
RECURSIVE Check(_)
Check(e) ==
  IF e.op \in Boolean
  THEN \A i \in DOMAIN e.args :
         IF IsExpr(e.args[i]) THEN Check(e.args[i]) ELSE FieldKnown(e.args[i])
  ELSE IF e.op = "exists" THEN Len(e.args) = 1 /\ IsField(e.args[1]) /\ FieldKnown(e.args[1])
  ELSE /\ Len(e.args) = 2 /\ FieldKnown(e.args[1]) /\ FieldKnown(e.args[2])
       /\ LET left == e.args[1]
              right == e.args[2]
              lt == OperandType(left)
              rt == OperandType(right) IN
          CASE e.op \in Order ->
                 {lt, rt} \subseteq {"number", "datetime", "any"} /\ CheckLiteral(lt, right) /\ CheckLiteral(rt, left)
            [] e.op \in Equality -> CheckLiteral(lt, right) /\ CheckLiteral(rt, left)
            [] e.op \in Membership ->
                 /\ IF rt = "any" THEN right.lit[1] = "list" ELSE rt = "list"
                 /\ lt # "any" /\ rt = "any" => \A k \in 2..Len(right.lit) : LiteralMatches(lt, right.lit[k])

(* ContextSchema.validate                                                    *)
Validate(e) == Parse(e) /\ Check(e)

-----------------------------------------------------------------------------
Said(b) == IF b THEN "true" ELSE "false"
Truth(v) == v # None /\ (v[1] = "list" => Len(v) > 1) /\ (v[1] # "list" => v[2] # 0)

(* Python compares a boolean as a number.                                    *)
AsNumber(v) == IF v[1] = "boolean" THEN <<"number", v[2]>> ELSE v
Same(a, b) == AsNumber(a) = AsNumber(b)

(* _compare: order needs two numbers or two strings.                         *)
Compare(op, a, b) ==
  CASE op = "eq" -> Said(Same(a, b))
    [] op = "ne" -> Said(~Same(a, b))
    [] op \in Order ->
         IF AsNumber(a)[1] # AsNumber(b)[1] \/ a = None THEN "error"
         ELSE CASE op = "lt" -> Said(a[2] < b[2]) [] op = "lte" -> Said(a[2] <= b[2])
                [] op = "gt" -> Said(a[2] > b[2]) [] op = "gte" -> Said(a[2] >= b[2])

Field(c, f) == IF f \in DOMAIN c THEN c[f] ELSE None

(* all and any stop at the first answer that decides, an error included.     *)
First(answers, decides) ==
  LET hits == {i \in DOMAIN answers : answers[i] \in {decides, "error"}}
  IN  IF hits = {} THEN (IF decides = "true" THEN "false" ELSE "true") ELSE answers[Min(hits)]
Not(a) == CASE a = "true" -> "false" [] a = "false" -> "true" [] OTHER -> a

(* _eval, with _truthy and _value of its arguments. The nesting bound of 64  *)
(* is out of reach of the conditions that are tried.                         *)
RECURSIVE Eval(_, _)
Truthy(a, c) == IF IsExpr(a) THEN Eval(a, c) ELSE Said(Truth(IF IsField(a) THEN Field(c, a.field) ELSE a.lit))
Value(a, c) ==
  IF IsExpr(a) THEN LET r == Eval(a, c) IN IF r = "error" THEN <<"error">> ELSE <<"boolean", IF r = "true" THEN 1 ELSE 0>>
  ELSE IF IsField(a) THEN Field(c, a.field) ELSE a.lit
Arity(e, n) == Len(e.args) = n
Eval(e, c) ==
  IF e.op \in {"and", "or"}
  THEN IF Len(e.args) = 0 THEN "error"
       ELSE First([i \in DOMAIN e.args |-> Truthy(e.args[i], c)], IF e.op = "and" THEN "false" ELSE "true")
  ELSE IF e.op = "not" THEN (IF Arity(e, 1) THEN Not(Truthy(e.args[1], c)) ELSE "error")
  ELSE IF e.op = "exists"
  THEN IF Arity(e, 1) /\ IsField(e.args[1]) THEN Said(Field(c, e.args[1].field) # None) ELSE "error"
  ELSE IF ~Arity(e, 2) THEN "error"
  ELSE LET a == Value(e.args[1], c)
           b == Value(e.args[2], c)
           found == \E k \in 2..Len(b) : Same(b[k], a) IN
       CASE <<"error">> \in {a, b} -> "error"
         [] e.op \in Membership /\ b[1] # "list" -> "error"
         [] e.op = "in" -> Said(found)
         [] e.op = "not_in" -> Said(~found)
         [] OTHER -> Compare(e.op, a, b)

-----------------------------------------------------------------------------
(* What the users of the language make of an answer: rule_matches lets an    *)
(* error through, a branch condition and a permission condition read it as   *)
(* false.                                                                    *)
RuleMatches(e, c) == Eval(e, c)
GuardTrue(e, c) == Said(Eval(e, c) = "true")
ConditionAllows(e, c) == Said(Eval(e, c) = "true")

Publish ==
  /\ verdict = "none"
  /\ verdict' = IF Validate(condition) THEN "ok" ELSE "error"
  /\ UNCHANGED <<condition, known, answer>>

(* signal_to_context and the like: every field of the schema, or None.       *)
(* Bound: one use of a condition, as nothing is remembered between two.      *)
Use(c) ==
  /\ verdict = "ok" /\ answer = Unasked
  /\ known' = c
  /\ answer' = [trigger |-> RuleMatches(condition, c), workflow |-> GuardTrue(condition, c),
                rbac |-> ConditionAllows(condition, c)]
  /\ UNCHANGED <<condition, verdict>>

RulesNext == Publish \/ \E c \in Contexts : Use(c)

-----------------------------------------------------------------------------
(* What a condition means: the reference. A comparison that cannot be made   *)
(* is not true.                                                              *)
RECURSIVE Means(_, _)
Means(e, c) ==
  LET holds(a) == IF IsExpr(a) THEN Means(a, c) ELSE Truth(IF IsField(a) THEN Field(c, a.field) ELSE a.lit)
      value(a) == IF IsExpr(a) THEN <<"boolean", IF Means(a, c) THEN 1 ELSE 0>>
                  ELSE IF IsField(a) THEN Field(c, a.field) ELSE a.lit
      a == value(e.args[1])
      b == value(e.args[2])
  IN  CASE e.op = "and" -> \A i \in DOMAIN e.args : holds(e.args[i])
        [] e.op = "or" -> \E i \in DOMAIN e.args : holds(e.args[i])
        [] e.op = "not" -> ~holds(e.args[1])
        [] e.op = "exists" -> Field(c, e.args[1].field) # None
        [] e.op \in Equality -> Same(a, b) <=> e.op = "eq"
        [] e.op \in Membership -> (\E k \in 2..Len(b) : Same(b[k], a)) <=> e.op = "in"
        [] OTHER -> /\ Len(a) > 1 /\ Len(b) > 1
                    /\ IF a[2] = b[2] THEN e.op \in {"lte", "gte"} ELSE (a[2] < b[2]) <=> e.op \in {"lt", "lte"}

(* What publishing does not look at: the number of arguments of and, or and  *)
(* not, two literals side by side, a number beside a date, a predicate       *)
(* inside a comparison, and whether a field to order or search will be there.*)
RECURSIVE Unchecked(_, _)
Unchecked(e, c) ==
  LET missing(a) == IsField(a) /\ Field(c, a.field) = None
      inner == {i \in DOMAIN e.args : IsExpr(e.args[i])}
  IN  IF e.op \in Boolean
      THEN \/ e.args = <<>> \/ (e.op = "not" /\ Len(e.args) > 1)
           \/ \E i \in inner : Unchecked(e.args[i], c)
      ELSE \/ inner # {}
           \/ /\ e.op \in Order \cup Membership
              /\ \/ \A i \in DOMAIN e.args : ~IsField(e.args[i])
                 \/ \E i \in DOMAIN e.args : missing(e.args[i])
                 \/ e.op \in Order /\ {OperandType(e.args[i]) : i \in {1, 2}} = {"number", "datetime"}

(* A condition that was published says what it means wherever it is used,    *)
(* except where publishing does not look; and there it is an error, or for a *)
(* branch and a permission false, never true by accident of a failure.       *)
ConditionsMean ==
  answer # Unasked =>
    LET meaning == Said(Means(condition, known)) IN
    /\ ~Unchecked(condition, known) => \A u \in DOMAIN answer : answer[u] = meaning
    /\ answer.trigger = "error" => answer.workflow = "false" /\ answer.rbac = "false"

(* rule_matches answers for every published condition and every signal.      *)
MatchingIsTotal == answer.trigger # "error"
=============================================================================
