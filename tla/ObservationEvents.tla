--------------------------- MODULE ObservationEvents ---------------------------
(***************************************************************************)
(* include/holonightd/ObservationEvent.h: the events that collectors emit  *)
(* and rules match.  An optional field (std::optional) is a set of at most *)
(* one element throughout.  Timestamp, id and attributes_json take no part *)
(* in any decision and are left out.                                       *)
(***************************************************************************)
EXTENDS Integers

Debug    == 0
Info     == 1
Warning  == 2
Error    == 3
Critical == 4

Severity == Debug..Critical

\* The level of a name, none for an unknown one.
severityFromString(str) ==
  LET level == [debug |-> Debug, info |-> Info, warning |-> Warning,
                error |-> Error, critical |-> Critical]
  IN  {level[s] : s \in {str} \cap DOMAIN level}

\* An EventValue is its rendering and the number it is or parses to: a double
\* is rendered with six decimals, std::monostate as nothing, and neither it nor
\* a bool is a number.
Value(text, num) == [text |-> text, num |-> num]
Word(str)        == Value(<<"word", str>>, {})
NoValue          == Word("")
True             == Word("true")
Int64(n)         == Value(<<"int", n>>, {n})
Double(n)        == Value(<<"double", n>>, {n})

ObservationEvent(source, category, subject, signal, value, severity) ==
  [source |-> source, category |-> category, subject |-> subject,
   signal |-> signal, value |-> value, severity |-> severity]

\* The elements of a set, provided a condition holds.
When(condition, set) == IF condition THEN set ELSE {}

================================================================================
