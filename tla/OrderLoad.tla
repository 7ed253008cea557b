------------------------------ MODULE OrderLoad ------------------------------
(***************************************************************************)
(* The order-creation scripts: order-load-test, order-soak-test and        *)
(* order-pattern-comparison.                                               *)
(*                                                                         *)
(* Each iteration of a VU posts one order, runs the script's check()       *)
(* callbacks on the response, and adds to the script's metrics.  The       *)
(* scripts share no state between VUs but k6's metrics, whose updates      *)
(* commute, so an iteration is one step here; the executor that starts and *)
(* stops VUs is the one modelled in CouponFcfs.  The run is MaxIters       *)
(* iterations long; then k6 evaluates the thresholds of `options` and      *)
(* calls handleSummary.                                                    *)
(*                                                                         *)
(* The order service is outside the repository and modelled from the       *)
(* spec's contract: 200 with a JSON body holding an order number, an error *)
(* status, or a transport error.  FaultyTarget lets it answer 200 without  *)
(* an order number, the case the body check exists to catch.               *)
(***************************************************************************)
EXTENDS Integers, FiniteSets, Sequences, Functions

CONSTANTS
    Script,        \* "load" | "soak" | "pattern"
    NumVUs,        \* __VU runs over 1..NumVUs
    MaxIters,      \* iterations in the run, over all VUs
    Latencies,     \* response times (ms) the target may take
    FaultyTarget   \* the target may answer 200 without an order number

ASSUME /\ Script \in {"load", "soak", "pattern"}
       /\ NumVUs \in Nat \ {0}
       /\ MaxIters \in Nat \ {0}
       /\ Latencies \subseteq Nat \ {0}
       /\ FaultyTarget \in BOOLEAN

VUs == 1..NumVUs

(* A response: status, what the body is, and timings.duration.  "order":  *)
(* JSON with orderNumber; "noOrder": JSON without it; "error": an error    *)
(* body; "none": no body (transport error, status 0, zero timings).        *)
Response(s, b, d) == [status |-> s, body |-> b, duration |-> d]

TargetResponses ==
    {Response(200, "order", d) : d \in Latencies}
    \cup (IF FaultyTarget THEN {Response(200, "noOrder", d) : d \in Latencies} ELSE {})
    \cup {Response(500, "error", d) : d \in Latencies}
    \cup {Response(0, "none", 0)}

Durations == Latencies \cup {0}

(* The spec's verdict for an order response: granted when 200 with an     *)
(* order-number field (spec 4.4).                                           *)
SpecGranted(r) == r.status = 200 /\ r.body = "order"

(* k6's http_req_failed: a response outside the expected 200-399 range.    *)
HttpFailed(r) == r.status < 200 \/ r.status > 399

-----------------------------------------------------------------------------
(* Thresholds of `options`, as written: a sequence of key/conditions pairs *)
(* in source order.  A condition is a percentile bound on a trend or a     *)
(* bound on a rate, with the bound as a fraction num/den.                   *)
P(q, ms)            == [kind |-> "p", q |-> q, bound |-> ms]
RateBelow(num, den) == [kind |-> "below", num |-> num, den |-> den]
RateAbove(num, den) == [kind |-> "above", num |-> num, den |-> den]

LoadThresholds ==
    << <<"http_req_duration",  {P(95, 1000)}>>,
       <<"http_req_duration",  {P(99, 2000)}>>,
       <<"http_req_failed",    {RateBelow(1, 100)}>>,
       <<"order_error_rate",   {RateBelow(1, 100)}>>,
       <<"order_success_rate", {RateAbove(99, 100)}>> >>

SoakThresholds ==
    << <<"http_req_duration",  {P(95, 1500)}>>,
       <<"http_req_failed",    {RateBelow(1, 100)}>>,
       <<"order_success_rate", {RateAbove(99, 100)}>> >>

PatternThresholds ==
    << <<"http_req_duration", {P(95, 2000)}>>,
       <<"http_req_failed",   {RateBelow(5, 100)}>> >>

Declared ==
    CASE Script = "load"    -> LoadThresholds
      [] Script = "soak"    -> SoakThresholds
      [] Script = "pattern" -> PatternThresholds

(* What a JavaScript object literal makes of such a list: one property per *)
(* key, the last value written for a key replacing the earlier ones.       *)
ObjectLiteral(pairs) ==
    [k \in {pairs[i][1] : i \in DOMAIN pairs} |->
        pairs[CHOOSE i \in DOMAIN pairs :
                /\ pairs[i][1] = k
                /\ \A j \in DOMAIN pairs : j > i => pairs[j][1] # k][2]]

-----------------------------------------------------------------------------
(* Mutant: the order-number check dropped from order-load-test's check(). *)
LoadChecksNoBody(r) ==
    [status200 |-> r.status = 200,
     under1s   |-> r.duration < 1000]

(* The check() callbacks of each script, by check name. *)
LoadChecks(r) ==
    [status200 |-> r.status = 200,
     under1s   |-> r.duration < 1000,
     hasOrder  |-> r.body = "order"]      \* JSON.parse + orderNumber, in try

SoakChecks(r) ==
    [status200 |-> r.status = 200,
     under2s   |-> r.duration < 2000]

PatternChecks(r) ==
    [status200 |-> r.status = 200,
     under2s   |-> r.duration < 2000]

ScriptChecks(r) ==
    CASE Script = "load"    -> LoadChecks(r)
      [] Script = "soak"    -> SoakChecks(r)
      [] Script = "pattern" -> PatternChecks(r)

CheckNames == DOMAIN ScriptChecks(Response(0, "none", 0))

(* check() runs every callback and returns true only if all of them pass. *)
CheckResult(r) == \A c \in CheckNames : ScriptChecks(r)[c]

(* order-pattern-comparison: the endpoint a VU posts to, by __VU parity. *)
PatternOf(v) == IF v % 2 = 0 THEN "orchestration" ELSE "choreography"

Patterns == {"orchestration", "choreography"}

-----------------------------------------------------------------------------
(* k6 metrics.  A Rate is [passes, total]; http_req_duration is kept as a  *)
(* bag of durations (a count per duration).                                 *)
RateNames == {"order_success_rate", "order_error_rate", "orchestration_success_rate",
              "choreography_success_rate", "http_req_failed"}
PatternRate == [orchestration |-> "orchestration_success_rate",
                choreography  |-> "choreography_success_rate"]
NoReport == [thresholds |-> <<>>, symbols |-> <<>>, faster |-> "none"]

AddRate(rs, name, b) ==
    [rs EXCEPT ![name] = [passes |-> @.passes + (IF b THEN 1 ELSE 0),
                          total  |-> @.total + 1]]

VARIABLES
    iters,        \* iterations run so far
    rates,        \* the Rate metrics
    reqDuration,  \* http_req_duration samples
    checks,       \* root_group.checks: passes and fails per check name
    orderCount,   \* the order_count Counter
    granted,      \* history: responses the spec calls granted
    trends,       \* orchestration_duration, choreography_duration: sum, count
    report        \* threshold results and printed check symbols, or NoReport

vars == <<iters, rates, reqDuration, checks, orderCount, granted, trends, report>>

(* Mutants: slips in the metric calls of order-load-test's default function. *)
(* orderErrorRate.add(!success) written twice. *)
LoadMetricsErrorTwice(rs, r, ok) ==
    AddRate(AddRate(AddRate(rs, "order_success_rate", ok), "order_error_rate", ~ok),
            "order_error_rate", ~ok)

LoadMetrics(rs, r, ok) ==
    AddRate(AddRate(rs, "order_success_rate", ok), "order_error_rate", ~ok)

SoakMetrics(rs, r, ok) == AddRate(rs, "order_success_rate", ok)

PatternMetrics(rs, v, ok) ==
    IF PatternOf(v) = "orchestration"
    THEN AddRate(rs, "orchestration_success_rate", ok)
    ELSE AddRate(rs, "choreography_success_rate", ok)

(* order-pattern-comparison also adds the duration to its pattern's Trend. *)
PatternTrends(ts, v, d) ==
    IF Script = "pattern"
    THEN [ts EXCEPT ![PatternOf(v)] = [sum |-> @.sum + d, count |-> @.count + 1]]
    ELSE ts

ScriptMetrics(rs, v, r, ok) ==
    CASE Script = "load"    -> LoadMetrics(rs, r, ok)
      [] Script = "soak"    -> SoakMetrics(rs, r, ok)
      [] Script = "pattern" -> PatternMetrics(rs, v, ok)

Init ==
    /\ iters = 0
    /\ rates = [n \in RateNames |-> [passes |-> 0, total |-> 0]]
    /\ reqDuration = [d \in Durations |-> 0]
    /\ checks = [c \in CheckNames |-> [passes |-> 0, fails |-> 0]]
    /\ orderCount = 0
    /\ granted = 0
    /\ trends = [p \in Patterns |-> [sum |-> 0, count |-> 0]]
    /\ report = NoReport

(* One iteration of the default function of VU v: build the order, post  *)
(* it, run check(), add to the metrics.  k6 itself adds the request to    *)
(* http_req_duration, http_req_failed and the checks' pass/fail counts.   *)
(* sleep() only spaces the iterations.                                     *)
Iterate(v) ==
    /\ iters < MaxIters
    /\ \E r \in TargetResponses :
          LET ok == CheckResult(r) IN
          /\ rates' = AddRate(ScriptMetrics(rates, v, r, ok), "http_req_failed", HttpFailed(r))
          /\ reqDuration' = [reqDuration EXCEPT ![r.duration] = @ + 1]
          /\ checks' = [c \in CheckNames |->
                          IF ScriptChecks(r)[c]
                          THEN [checks[c] EXCEPT !.passes = @ + 1]
                          ELSE [checks[c] EXCEPT !.fails = @ + 1]]
          /\ granted' = granted + (IF SpecGranted(r) THEN 1 ELSE 0)
          /\ trends' = PatternTrends(trends, v, r.duration)
    /\ iters' = iters + 1
    /\ orderCount' = IF Script \in {"load", "soak"} THEN orderCount + 1 ELSE orderCount
    /\ UNCHANGED report
-----------------------------------------------------------------------------
(* Threshold evaluation at the end of the run (k6; spec 4.6).              *)
SampleCount(bag) == SumFunction(bag)

(* The k-th smallest sample, k in 1..SampleCount(bag). *)
CountBelow(bag, x) == SumFunction(Restrict(bag, {y \in DOMAIN bag : y < x}))
Kth(bag, k) ==
    CHOOSE x \in DOMAIN bag : /\ bag[x] > 0
                              /\ CountBelow(bag, x) < k
                              /\ CountBelow(bag, x) + bag[x] >= k

(* 100 times k6's percentile p(q) of a trend: the sorted samples, position *)
(* q/100 * (n-1), interpolated linearly between its neighbours.            *)
PercentileX100(bag, q) ==
    LET n   == SampleCount(bag)
        pos == q * (n - 1)                 \* 100 times the position, 0-based
        lo  == Kth(bag, pos \div 100 + 1)
        fr  == pos % 100
        hi  == IF fr = 0 THEN lo ELSE Kth(bag, pos \div 100 + 2)
    IN  IF n = 0 THEN 0 ELSE lo * 100 + (hi - lo) * fr

(* A Rate's value is passes/total, 0 while it has no samples. *)
RateCompare(rate, c) ==
    LET lhs == rate.passes * c.den
        rhs == c.num * rate.total
    IN  IF rate.total = 0 THEN (c.kind = "below" /\ 0 < c.num)
        ELSE IF c.kind = "below" THEN lhs < rhs ELSE lhs > rhs

Holds(metric, c) ==
    IF c.kind = "p" THEN PercentileX100(reqDuration, c.q) < c.bound * 100
    ELSE RateCompare(rates[metric], c)

(* The thresholds k6 sees: the options object. *)
Effective == ObjectLiteral(Declared)

(* handleSummary of order-load-test prints one symbol per check. *)
CheckSymbol(c) ==
    IF checks[c].passes = checks[c].passes THEN "pass" ELSE "fail"

(* order-pattern-comparison's handleSummary: with both Trends present in   *)
(* data.metrics (a Trend appears once it has a sample), the pattern faster  *)
(* on average; diff = orchAvg - choreoAvg > 0 names choreography, anything  *)
(* else orchestration.                                                      *)
Faster ==
    IF \A p \in Patterns : trends[p].count > 0
    THEN IF trends.orchestration.sum * trends.choreography.count
              > trends.choreography.sum * trends.orchestration.count
         THEN "choreography" ELSE "orchestration"
    ELSE "none"

(* The run is over: k6 evaluates the thresholds, then handleSummary runs. *)
Summary ==
    /\ iters = MaxIters
    /\ report = NoReport
    /\ report' = [thresholds |-> [k \in DOMAIN Effective |->
                                     \A c \in Effective[k] : Holds(k, c)],
                  symbols    |-> IF Script = "load"
                                 THEN [c \in CheckNames |-> CheckSymbol(c)]
                                 ELSE <<>>,
                  faster     |-> IF Script = "pattern" THEN Faster ELSE "none"]
    /\ UNCHANGED <<iters, rates, reqDuration, checks, orderCount, granted, trends>>

Finished == report # NoReport /\ UNCHANGED vars

Next == (\E v \in VUs : Iterate(v)) \/ Summary \/ Finished

Spec == Init /\ [][Next]_vars

-----------------------------------------------------------------------------
TypeOK ==
    /\ iters \in 0..MaxIters
    /\ rates \in [RateNames -> [passes : 0..MaxIters, total : 0..MaxIters]]
    /\ reqDuration \in [Durations -> 0..MaxIters]
    /\ checks \in [CheckNames -> [passes : 0..MaxIters, fails : 0..MaxIters]]
    /\ orderCount \in 0..MaxIters
    /\ granted \in 0..MaxIters
    /\ trends \in [Patterns -> [sum : Nat, count : 0..MaxIters]]

(* The order success rate never counts a response as a success unless the *)
(* target created an order (200 with an order number, spec 4.4): the      *)
(* check() callbacks of the script are at least as strict as the spec.     *)
SuccessRateSound == rates["order_success_rate"].passes <= granted

=============================================================================
