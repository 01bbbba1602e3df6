-------------------------------- MODULE Checks --------------------------------
(***************************************************************************)
(* The last part of executeDrill: the provider asks the restored target    *)
(* for each check (Validate of the four providers), then the engine holds  *)
(* each answer against its expectation (EvalExpression) and comes to the   *)
(* verdict of the drill.                                                   *)
(*                                                                         *)
(* Expectations and answers are texts; what the code finds in one is a     *)
(* field of Syntax or Reading, a set that is empty when it is not found.   *)
(***************************************************************************)
EXTENDS Configuration

CONSTANTS
  Reading,   \* answer |-> [lower, number, age, items, inside, size]
  Syntax,    \* expectation |-> [text, begins, age, contains, compare, comma, items]
  CheckLists,\* lists of checks that a drill may have
  Numeral,   \* the text of a number of keys
  Labelled,  \* what redis-cli may print for a number of keys
  MaxInt,    \* the largest int64, in the unit of the ages
  UnitOf     \* for each unit of an age its length, in that unit

(***************************************************************************)
(* A check comes with what the restored target holds for it: "holds", the  *)
(* value that its command prints; for a key_count the number of "keys",    *)
(* and for a key_sample whether a key is "missing".  "blank" says that the *)
(* sql of a query is blanks only.                                          *)
(***************************************************************************)
Check ==
  [type : STRING, expect : DOMAIN Syntax, holds : DOMAIN Reading, keys : DOMAIN Labelled,
   missing : BOOLEAN, blank : BOOLEAN]

\* redis-cli prints the number itself, or behind a label.
ASSUME ChecksAssumption ==
  /\ MaxInt \in Nat
  /\ \A unit \in DOMAIN UnitOf : UnitOf[unit] \in Nat \ {0}
  /\ CheckLists \subseteq Seq(Check)
  /\ DOMAIN Labelled \subseteq Nat
  /\ \A n \in DOMAIN Labelled : \A text \in Labelled[n] :
       IF Reading[text].size = {} THEN text = Numeral[n] ELSE Reading[text].size = {Numeral[n]}

\* An expectation is looked at as one form: what another pattern would find in it
\* is not found.
ASSUME SyntaxAssumption ==
  \A expect \in DOMAIN Syntax : LET x == Syntax[expect] IN
    /\ x.text \in {"true", "false", "exists"} => x.begins = "" /\ x.compare = {}
    /\ x.age # {} => x.begins = "age"
    /\ \A a \in x.age : a.amount \in Nat /\ a.unit \in DOMAIN UnitOf
    /\ x.contains # {} => x.begins = "contains "
    /\ \A s, t \in x.contains : s = t
    /\ x.compare # {} => x.begins = ""

VARIABLES
  provider,  \* of the drill, "none" before it starts
  checks,    \* drill.Validate
  answers,   \* valResult.Checks: [actual : {} for an error, fault : a command failed]
  passed,    \* CheckResult.Passed, for the checks evaluated
  verdict    \* "none", "passed" or "failed"

drillChecks == <<provider, checks, answers, passed, verdict>>

ChecksInit ==
  /\ provider = "none"
  /\ checks = <<>> /\ answers = <<>> /\ passed = <<>>
  /\ verdict = "none"

-----------------------------------------------------------------------------
(* Validate                                                                *)

\* The cases of the providers' switches.
Implemented ==
  [postgres |-> {"query", "sql", "row_count", "schema", "freshness", "extensions"},
   mysql    |-> {"query", "sql", "row_count", "schema", "freshness"},
   redis    |-> {"key_count", "key_sample", "query"},
   etcd     |-> {"key_count", "key_get", "query"}]

\* etcdctl puts an empty line behind each key.
Listing(n) == [i \in 1..(2 * n) |-> IF i % 2 = 1 THEN "key" ELSE ""]

keyCount(lines) == Cardinality({i \in DOMAIN lines : lines[i] # ""})

\* The number in what redis-cli prints for DBSIZE, when it has a label.
extractDBSize(text) ==
  IF Reading[text].size = {} THEN text ELSE CHOOSE s \in Reading[text].size : TRUE

\* What Validate can make of the answer of a target that works.
Actual(p, check) ==
  CASE check.type = "key_sample" -> {IF check.missing THEN "false" ELSE "true"}
    [] check.type = "key_count"  ->
         IF p = "redis" THEN {extractDBSize(text) : text \in Labelled[check.keys]}
         ELSE {Numeral[keyCount(Listing(check.keys))]}
    [] OTHER                     -> {check.holds}

\* The words of a query are its command.
Understood(p, check) ==
  /\ check.type \in Implemented[p]
  /\ ~(check.type = "query" /\ p \in {"redis", "etcd"} /\ check.blank)

StartChecks ==
  /\ provider = "none"
  /\ provider' \in DOMAIN Implemented
  /\ checks' \in CheckLists
  /\ \A i \in DOMAIN checks' : checks'[i].type \in supportedCheckTypesByProvider[provider']
  /\ UNCHANGED <<answers, passed, verdict>>

ValidateCheck ==
  /\ Len(answers) < Len(checks)
  /\ LET check == checks[Len(answers) + 1] IN
     \/ answers' = Append(answers, [actual |-> {}, fault |-> TRUE])
     \/ /\ ~Understood(provider, check)
        /\ answers' = Append(answers, [actual |-> {}, fault |-> FALSE])
     \/ /\ Understood(provider, check)
        /\ \E actual \in Actual(provider, check) :
             answers' = Append(answers, [actual |-> {actual}, fault |-> FALSE])
  /\ UNCHANGED <<provider, checks, passed, verdict>>

-----------------------------------------------------------------------------
(* EvalExpression; an expression that cannot be evaluated does not pass.   *)

Compare(op, a, b) ==
  CASE op = ">"  -> a > b
    [] op = ">=" -> a >= b
    [] op = "<"  -> a < b
    [] op = "<=" -> a <= b
    [] op = "==" -> a = b
    [] op = "!=" -> a # b

Wrap(n) == ((n + MaxInt + 1) % (2 * (MaxInt + 1))) - (MaxInt + 1)

\* Atoi stops at the largest int, and its error is dropped.
Threshold(a) == Wrap((IF a.amount > MaxInt THEN MaxInt ELSE a.amount) * UnitOf[a.unit])

isTruthy(actual) == Reading[actual].lower \in {"true", "1", "t", "yes", "y", "exists"}

evalAge(x, actual) ==
  \E a \in x.age, age \in Reading[actual].age : Compare(a.op, age, Threshold(a))

evalContains(x, actual) == x.contains # {} /\ x.contains \subseteq Reading[actual].inside

evalNumericComparison(x, actual) ==
  \E c \in x.compare : \E n \in c.value, m \in Reading[actual].number : Compare(c.op, m, n)

\* Mutant: a listed value is enough.
AnyListed(x, actual) == x.items \cap Reading[actual].items # {}
evalListContains(x, actual) == x.items \subseteq Reading[actual].items

EvalExpression(expect, actual) ==
  LET x == Syntax[expect] IN
  IF x.text \in {"true", "exists"} THEN isTruthy(actual)
  ELSE IF x.text = "false" THEN actual \in {"false", "0", "f"}
  ELSE IF x.begins = "age" THEN evalAge(x, actual)
  ELSE IF x.begins = "contains " THEN evalContains(x, actual)
  ELSE IF x.compare # {} THEN evalNumericComparison(x, actual)
  ELSE IF x.comma THEN evalListContains(x, actual)
  ELSE x.text = actual

Passes(check, answer) == \E actual \in answer.actual : EvalExpression(check.expect, actual)

EvaluateCheck ==
  /\ Len(answers) = Len(checks)
  /\ Len(passed) < Len(checks)
  /\ LET i == Len(passed) + 1 IN passed' = Append(passed, Passes(checks[i], answers[i]))
  /\ UNCHANGED <<provider, checks, answers, verdict>>

GiveVerdict ==
  /\ provider # "none" /\ verdict = "none"
  /\ Len(answers) = Len(checks) /\ Len(passed) = Len(checks)
  /\ verdict' = IF \A i \in DOMAIN passed : passed[i] THEN "passed" ELSE "failed"
  /\ UNCHANGED <<provider, checks, answers, passed>>

ChecksNext == StartChecks \/ ValidateCheck \/ EvaluateCheck \/ GiveVerdict

-----------------------------------------------------------------------------
(* Properties                                                              *)

\* The restored data itself, whatever was answered.
Held(check) ==
  CASE check.type = "key_sample" -> IF check.missing THEN "false" ELSE "true"
    [] check.type = "key_count"  -> Numeral[check.keys]
    [] OTHER                     -> check.holds

\* What the guide says of each form of expectation, and of a text of none: it is
\* the value itself.
Means(check) ==
  LET x == Syntax[check.expect]
      held == Held(check)
      form == x.text \in {"true", "false", "exists"} \/ x.age # {} \/ x.contains # {}
                \/ \E c \in x.compare : c.value # {}
  IN \/ x.text \in {"true", "exists"} /\ isTruthy(held)
     \/ x.text = "false" /\ held \in {"false", "0", "f"}
     \/ \E a \in x.age, age \in Reading[held].age : Compare(a.op, age, a.amount * UnitOf[a.unit])
     \/ \E t \in x.contains : t \in Reading[held].inside
     \/ \E c \in x.compare : \E n \in c.value, m \in Reading[held].number : Compare(c.op, m, n)
     \/ ~form /\ x.comma /\ \A item \in x.items : item \in Reading[held].items
     \/ ~form /\ ~x.comma /\ x.text = held

\* A threshold beyond what a time.Duration holds: the product wraps.
Overflows(check) ==
  \E a \in Syntax[check.expect].age : a.amount * UnitOf[a.unit] > MaxInt

\* A value that begins like a form it is not of: "agent-1", "<none>".
Misread(check) ==
  LET x == Syntax[check.expect] IN
  \/ x.begins = "age" /\ x.age = {}
  \/ x.begins = "contains " /\ x.contains = {}
  \/ \E c \in x.compare : c.value = {}

\* executeDrill: a drill passes its validation exactly when the target answered
\* every check of the accepted configuration and the restored data is what the
\* expectations say: no type of check that the loader accepts is one that the
\* provider does not know, and what a client prints is read as what it means.
\* Excepted: a query of blanks fails, a value that is misread fails, and an age
\* too long for a time.Duration may come out either way.
VerdictIsTheMeaning ==
  LET Earned(i) == ~answers[i].fault /\ (Means(checks[i]) \/ Overflows(checks[i]))
      Lost(i) == \/ answers[i].fault
                 \/ ~Means(checks[i])
                 \/ Overflows(checks[i])
                 \/ Misread(checks[i])
                 \/ checks[i].type = "query" /\ checks[i].blank
  IN /\ verdict = "passed" => \A i \in DOMAIN checks : Earned(i)
     /\ verdict = "failed" => \E i \in DOMAIN checks : Lost(i)
=============================================================================
