------------------------------ MODULE RuleEngine ------------------------------
(***************************************************************************)
(* libs/health/RuleEngine.cpp: the built-in rules, the loading of rules    *)
(* from files, and evaluate(), which turns the events of one collection    *)
(* into findings.                                                          *)
(*                                                                         *)
(* Rules, conditions and events are sets: their order only decides the     *)
(* order of the report.  Titles, causes, suggested actions, finding ids    *)
(* and times are copied through and left out.                              *)
(***************************************************************************)
EXTENDS ObservationEvents

CONSTANTS
  Substring,   \* pairs <<t, s>>: text s contains text t
  RegexMatch   \* pairs <<t, s>>: t is a valid pattern and is found in s

-------------------------------------------------------------------------------
(* Matching. *)

Ordering == {"greater_than", "greater_than_or_equal", "less_than", "less_than_or_equal"}

MatchOperator == Ordering \cup {"equals", "not_equals", "contains", "regex"}

evaluateNumericComparison(x, y, op) ==
  CASE op = "greater_than"          -> x > y
    [] op = "greater_than_or_equal" -> x >= y
    [] op = "less_than"             -> x < y
    [] op = "less_than_or_equal"    -> x <= y

\* Only the orderings compare numbers, and they fail when either side is none.
\* The others compare renderings: a double 85 is not equal to "85".
matchValueOperator(value, target, op) ==
  CASE op \in Ordering     -> \E x \in value.num, y \in target.num :
                                evaluateNumericComparison(x, y, op)
    [] op = "equals"       -> value.text = target.text
    [] op = "not_equals"   -> value.text # target.text
    [] op = "contains"     -> <<target.text, value.text>> \in Substring
    [] op = "regex"        -> <<target.text, value.text>> \in RegexMatch

\* A RuleCondition; what it does not mention matches everything.
AnyEvent ==
  [source |-> {}, category |-> {}, subject |-> {}, signal |-> {},
   min_severity |-> {}, target_value |-> {}, value_operator |-> "equals"]

matchEventToCondition(event, condition) ==
  /\ condition.source   \subseteq {event.source}
  /\ condition.category \subseteq {event.category}
  /\ condition.subject  \subseteq {event.subject}
  /\ condition.signal   \subseteq {event.signal}
  /\ \A floor \in condition.min_severity : event.severity >= floor
  /\ \A target \in condition.target_value :
       matchValueOperator(event.value, target, condition.value_operator)

Matching(condition, events) == {e \in events : matchEventToCondition(e, condition)}

evaluateAllLogic(rule, events) == \A c \in rule.conditions : Matching(c, events) # {}
evaluateAnyLogic(rule, events) == \E c \in rule.conditions : Matching(c, events) # {}

Satisfied(rule, events) ==
  IF rule.condition_logic = "all" THEN evaluateAllLogic(rule, events)
                                  ELSE evaluateAnyLogic(rule, events)

\* One finding for each satisfied rule, with the events that satisfied it.
evaluate(rules, events) ==
  {[rule_id  |-> rule.rule_id,
    severity |-> rule.severity,
    matched_events |-> UNION {Matching(c, events) : c \in rule.conditions}] :
      rule \in {r \in rules : r.conditions # {} /\ Satisfied(r, events)}}

-------------------------------------------------------------------------------
(* The built-in rules. *)

DiagnosticRule(id, severity, logic, conditions) ==
  [rule_id |-> id, severity |-> severity, condition_logic |-> logic,
   conditions |-> conditions]

Expects(category, subject, signal) ==
  [AnyEvent EXCEPT !.category = {category}, !.subject = subject,
                   !.signal = {signal}, !.min_severity = {Warning}]

registerBuiltInRules ==
  {DiagnosticRule("RULE-KERNEL-001", Warning, "all",
     {Expects("package", {"kernel"}, "pacman.kernel_mismatch")}),
   DiagnosticRule("RULE-PACMAN-001", Warning, "all",
     {Expects("package", {"pacman_db"}, "pacman.stale_lock")}),
   DiagnosticRule("RULE-STORAGE-001", Warning, "any",
     {Expects("storage", {}, "space_pressure"), Expects("storage", {}, "inode_pressure")}),
   DiagnosticRule("RULE-MEMORY-001", Error, "any",
     {Expects("memory", {}, "oom_kill"), Expects("memory", {}, "memory_pressure")}),
   DiagnosticRule("RULE-SYSTEMD-001", Error, "all",
     {Expects("systemd", {}, "unit_failed")})}

-------------------------------------------------------------------------------
(* Rules from files.  A file is what nlohmann::json makes of it: whether it *)
(* is a readable .json file that parses, and its members; a member of the   *)
(* wrong JSON type is one that is not there.                                *)

matchOperatorFromString(str)  == {str} \cap MatchOperator
logicOperatorFromString(str)  == {str} \cap {"all", "any"}

\* The value of an optional member, or what the struct is initialized with.
OrDefault(set, default) == IF set = {} THEN default ELSE CHOOSE x \in set : TRUE

\* An unknown severity or operator is ignored, and so is an item that is not an
\* object: what is left of the condition still counts.
parseConditionItem(item) ==
  [AnyEvent EXCEPT
     !.source = item.source, !.category = item.category,
     !.subject = item.subject, !.signal = item.signal,
     !.min_severity = UNION {severityFromString(s) : s \in item.min_severity},
     !.target_value = item.target_value,
     !.value_operator =
        OrDefault(UNION {matchOperatorFromString(s) : s \in item.value_operator}, "equals")]

\* The rule of a file, or nothing when the file is rejected.
loadRuleFromJson(file) ==
  {DiagnosticRule(id,
      OrDefault(UNION {severityFromString(s) : s \in file.severity}, Warning),
      OrDefault(UNION {logicOperatorFromString(s) : s \in file.condition_logic}, "all"),
      {parseConditionItem(item) : item \in file.conditions}) :
     id \in {i \in file.rule_id :
               /\ file.parses
               /\ file.has_title /\ file.has_category
               /\ \A s \in file.severity : severityFromString(s) # {}
               /\ \A s \in file.condition_logic : logicOperatorFromString(s) # {}}}

\* The rules of the files that could be visited; the others are skipped.
loadRulesFromDirectory(files) ==
  UNION {loadRuleFromJson(f) : f \in {g \in files : g.json}}

================================================================================
