--------------------------- MODULE MetricAggregator ---------------------------
(***************************************************************************)
(* What the Metric Aggregator promises (spec 4.5), without VUs, ticks or   *)
(* the target: every outcome handed to it adds one to the count of the     *)
(* verdict the spec's decision table gives it, no update is lost, and the  *)
(* report is built once, from the final counts, after which nothing is     *)
(* recorded.                                                                *)
(***************************************************************************)
EXTENDS Integers

CONSTANT Verdicts

VARIABLES
    outcomes,  \* per verdict: outcomes handed to the aggregator
    count,     \* per verdict: what the aggregator holds
    report     \* the counts the report shows, or NoReport

vars == <<outcomes, count, report>>

NoReport == [k \in Verdicts |-> -1]

Init ==
    /\ outcomes = [k \in Verdicts |-> 0]
    /\ count = [k \in Verdicts |-> 0]
    /\ report = NoReport

(* One outcome of verdict k is recorded. *)
Add(k) ==
    /\ report = NoReport
    /\ outcomes' = [outcomes EXCEPT ![k] = @ + 1]
    /\ count' = [count EXCEPT ![k] = @ + 1]
    /\ UNCHANGED report

(* The report is built from the counts. *)
Build ==
    /\ report = NoReport
    /\ report' = count
    /\ UNCHANGED <<outcomes, count>>

Next == (\E k \in Verdicts : Add(k)) \/ Build

Spec == Init /\ [][Next]_vars
=============================================================================
