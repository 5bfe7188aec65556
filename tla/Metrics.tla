------------------------------- MODULE Metrics -------------------------------
(***************************************************************************)
(* The result of an engine calculation: a complete or partial value, or    *)
(* an unavailable one that carries nothing.  A calculation that the code   *)
(* abandons by throwing an invariant error is the metric Invalid.  The     *)
(* versions, explanation lines and warning contexts of a result are left   *)
(* out; warnings are the set of their codes where a status depends on them.*)
(***************************************************************************)
EXTENDS Integers, FiniteSets, FiniteSetsExt

CONSTANT NoValue

Complete(v)  == [status |-> "complete", value |-> v]
Partial(v)   == [status |-> "partial", value |-> v]
Unavailable  == [status |-> "unavailable", value |-> NoValue]
Invalid      == [status |-> "invalid", value |-> NoValue]

\* createMetricResult: a complete result has a value and an unavailable one has none.
WellFormed(m) == /\ m.status = "complete" => m.value # NoValue
                 /\ m.status \in {"unavailable", "invalid"} => m.value = NoValue

\* A period of time, from its start up to and without its end.
Period(start, end) == [start |-> start, end |-> end]
ValidPeriod(p) == p.start < p.end
PeriodContains(p, t) == p.start <= t /\ t < p.end

\* Whether no two members of a set of facts agree on the key.
UniqueBy(S, key(_)) == \A x, y \in S : key(x) = key(y) => x = y

SumOver(S, amount(_)) == MapThenSumSet(amount, S)

\* A record with what was found added to it; what it has already stays as it is.
Extended(c, found) ==
  [name \in DOMAIN c \union DOMAIN found |-> IF name \in DOMAIN c THEN c[name] ELSE found[name]]
==============================================================================
