------------------------- MODULE PerformanceContract -------------------------
(***************************************************************************)
(* What tests d009 to d016 rely on: a platform (external) that keeps the   *)
(* limits and the level it is told, in the range it lists.                 *)
(*                                                                         *)
(* It may refuse any command.  But what it accepts it tells from then on,  *)
(* what it refuses changes nothing, limits it accepts are inside the range *)
(* of the domain and in order, and a level it accepts is inside the limits *)
(* it tells.  Level 0, which no domain has, is outside the contract.       *)
(***************************************************************************)
EXTENDS Scmi, Sequences

CONSTANTS
  Domain,          \* the performance domains
  Lowest(_), Highest(_)    \* the ends of the levels a domain lists

VARIABLES
  limits,    \* limits[d]: max and min
  level      \* level[d]

Performs(q, m, st) ==
  q.proto = PROTOCOL_PERFORMANCE /\ q.msg = m /\ st = SCMI_SUCCESS

WholeRange ==
  /\ limits = [d \in Domain |-> [max |-> Highest(d), min |-> Lowest(d)]]
  /\ \A d \in Domain : Lowest(d) <= level[d] /\ level[d] <= Highest(d)

KeepLimits(d, max, min) ==
  /\ d \in Domain
  /\ Lowest(d) <= min /\ min <= max /\ max <= Highest(d)
  /\ limits' = [limits EXCEPT ![d] = [max |-> max, min |-> min]]
  /\ UNCHANGED level

KeepLevel(d, asked) ==
  /\ d \in Domain
  /\ limits[d].min <= asked /\ asked <= limits[d].max
  /\ level' = [level EXCEPT ![d] = asked]
  /\ UNCHANGED limits

NoLevel(q) == q.msg = PERFORMANCE_LEVEL_SET /\ q.args[2] = 0

\* Request q answered with status st and value v.
Keep(q, st, v) ==
  \/ NoLevel(q)
  \/ Performs(q, PERFORMANCE_LIMITS_SET, st) /\ KeepLimits(q.args[1], q.args[2], q.args[3])
  \/ Performs(q, PERFORMANCE_LEVEL_SET, st) /\ KeepLevel(q.args[1], q.args[2])
  \/ /\ ~Performs(q, PERFORMANCE_LIMITS_SET, st) /\ ~Performs(q, PERFORMANCE_LEVEL_SET, st)
     /\ Performs(q, PERFORMANCE_LIMITS_GET, st) => v = limits[q.args[1]]
     /\ Performs(q, PERFORMANCE_LEVEL_GET, st) => v.level = level[q.args[1]]
     /\ UNCHANGED <<limits, level>>

=============================================================================
