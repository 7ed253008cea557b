----------------------------- MODULE CouponFcfs -----------------------------
(***************************************************************************)
(* The FCFS coupon-issuance load scripts run against the target service.  *)
(*                                                                         *)
(* One virtual user (VU) per id in 1..NumVUs runs the script's default    *)
(* function in a loop: pick a user id, POST issue-fcfs, classify the       *)
(* response into a counter, sleep.  The k6 executor ticks once per second  *)
(* (one control interval), starting and stopping VUs to follow the        *)
(* schedule, and stops everything at the end after a grace period; then    *)
(* handleSummary prints the counts.                                        *)
(*                                                                         *)
(* Variant selects the script's handler:                                   *)
(*   "helpers" - validateCouponIssueResponse (coupon-fcfs-concurrency)     *)
(*   "simple"  - coupon-fcfs-simple's inline counting into k6 Counters     *)
(*   "inline"  - coupon-fcfs-quick / -spike counting into module `let`s    *)
(* Each k6 VU runs its own copy of the script, so module-level `let`       *)
(* variables are per VU; handleSummary runs in a separate copy, index 0.   *)
(*                                                                         *)
(* The target service is outside the repository; it is modelled from the  *)
(* spec's HTTP contract: 202 grant, 409 duplicate, 400 with the stock-     *)
(* exhaustion message, 400 with another message for a user it does not     *)
(* know.                                                                   *)
(***************************************************************************)
EXTENDS Integers, Sequences, FiniteSets, Functions, K6Schedule

CONSTANTS
    NumVUs,          \* size of the VU pool (__VU runs over 1..NumVUs)
    StartVUs,        \* executor level at time 0
    Stages,          \* the scenario's stages, durations in ticks
    GraceTicks,      \* gracefulStop, in ticks
    Variant,         \* "helpers" | "simple" | "inline"
    Selection,       \* "random" | "sequential" | "cyclic"
    UserIdStart,     \* config.userIdStart
    UserIdEnd,       \* config.userIdEnd
    USER_IDS,        \* the scripts' fixed user pool, a sequence of ids
    KnownUsers,      \* ids the target service has in its database
    Stock,           \* coupon stock at the start of the run
    Unreliable,      \* requests or responses may be lost (timeouts)
    MalformedBodies, \* the target may answer 400 with a non-JSON body
    MaxBurst         \* iterations one VU may start within one tick

ASSUME /\ NumVUs \in Nat \ {0}
       /\ ValidSchedule(StartVUs, Stages)
       /\ GraceTicks \in Nat \ {0}
       /\ Variant \in {"helpers", "simple", "inline"}
       /\ Selection \in {"random", "sequential", "cyclic"}
       /\ UserIdStart <= UserIdEnd
       /\ Len(USER_IDS) > 0
       /\ Stock \in Nat
       /\ Unreliable \in BOOLEAN /\ MalformedBodies \in BOOLEAN
       /\ MaxBurst \in Nat \ {0}

VUs == 1..NumVUs

(* The summary runs in a VU context of its own. *)
SummaryCtx == 0

Total == TotalDuration(Stages)

(* Last tick of the run: the schedule, one tick past it where the level is *)
(* 0, then gracefulStop.                                                    *)
End == Total + 1 + GraceTicks

(* What a response is, to the scripts: its status and what its body is.    *)
(* "marker": JSON whose message is the stock-exhaustion text (it contains   *)
(* both 재고 and 소진); "message": JSON with another message; "text": not   *)
(* JSON; "empty": an empty body; "none": no body (transport error, body is *)
(* null).                                                                  *)
Bodies   == {"marker", "message", "text", "none", "empty"}
Response(s, b) == [status |-> s, body |-> b]
TransportError == Response(0, "none")
NoResponse == Response(-1, "none")    \* no response held
NoUser == -1                          \* no request on the wire
Responses == [status : {0, 202, 400, 409}, body : Bodies] \cup {NoResponse}

(* The four counters: coupon_issue_success/_duplicate/_stock_out/_failure. *)
Verdicts == {"success", "duplicate", "stockOut", "failure"}
Throws == "throws"   \* the handler raised: the iteration ends uncounted
NoCount == [k \in Verdicts |-> 0]
NoReport == [k \in Verdicts |-> -1]

VARIABLES
    elapsed,   \* ticks since the start of the run
    pc,        \* per VU: inactive | idle | sent | answered | sleeping | orphan
    stopping,  \* per VU: told to stop once the current iteration ends
    burst,     \* per VU: iterations started in the current tick
    req,       \* per VU: the user id of its current request
    resp,      \* per VU: the response it received
    issued,    \* target service: users holding the coupon
    stock,     \* target service: coupons left
    counters,  \* k6 Counter metrics, aggregated over all VUs
    local,     \* per script copy (VUs and SummaryCtx): the module `let`s
    truth,     \* history: per spec verdict, responses handled so far
    received,  \* k6's http_reqs samples, per spec verdict of the response
    report     \* the four counts handleSummary printed, or NoReport

vars == <<elapsed, pc, stopping, burst, req, resp, issued, stock,
          counters, local, truth, received, report>>

-----------------------------------------------------------------------------
(* Workload generator: the user id an iteration of VU v posts for. *)
(* Mutant: Math.ceil in place of Math.floor, one id past userIdEnd. *)
RandomUserIdsCeil == UserIdStart..(UserIdEnd + 1)

RandomUserIds == UserIdStart..UserIdEnd                  \* getRandomUserId

(* Mutant: the inclusive range's size taken as end - start. *)
SeqUserIdExclusive(start, end, index) == start + (index % (end - start))

(* getSequentialUserId for any configured range, and its use by the VU. *)
SeqUserId(start, end, index) == start + (index % (end - start + 1))

SequentialUserId(v) == SeqUserId(UserIdStart, UserIdEnd, v)

(* USER_IDS[(__VU - 1) % USER_IDS.length], for any pool. *)
CycUserId(pool, index) == pool[((index - 1) % Len(pool)) + 1]

CyclicUserId(v) == CycUserId(USER_IDS, v)

UserChoices(v) ==
    CASE Selection = "random"     -> RandomUserIds
      [] Selection = "sequential" -> {SequentialUserId(v)}
      [] Selection = "cyclic"     -> {CyclicUserId(v)}

(* Mutants: plausible slips in the classifiers, each breaking one property. *)
(* The body is parsed for every status but 202/409: JSON.parse(null) of a  *)
(* transport error is null, and null.message throws.                        *)
HelpersVerdictParseAll(r) ==
    CASE r.status = 202 -> "success"
      [] r.status = 409 -> "duplicate"
      [] r.body \in {"text", "none"} -> Throws
      [] r.body = "marker" -> "stockOut"
      [] OTHER -> "failure"

(* The message check dropped: every 400 is a stock-out. *)
HelpersVerdictAny400(r) ==
    CASE r.status = 202 -> "success"
      [] r.status = 409 -> "duplicate"
      [] r.status = 400 -> "stockOut"
      [] OTHER -> "failure"

(* Response classifiers, one per script, as the scripts write them. *)
HelpersVerdict(r) ==                         \* validateCouponIssueResponse
    CASE r.status = 202 -> "success"
      [] r.status = 409 -> "duplicate"
      [] r.status = 400 /\ r.body = "text" -> Throws  \* JSON.parse
      [] r.status = 400 /\ r.body = "marker" -> "stockOut"
      [] OTHER -> "failure"

SimpleVerdict(r) ==
    CASE r.status = 202 -> "success"
      [] r.status = 409 -> "duplicate"
      [] r.status = 400 -> "stockOut"
      [] OTHER -> "failure"

InlineVerdict(r) ==
    CASE r.status = 202 -> "success"
      [] r.status = 409 -> "duplicate"
      [] r.status = 400 -> "stockOut"
      [] r.body = "none" -> Throws                 \* null.includes('소진')
      [] r.body = "marker" -> "stockOut"
      [] OTHER -> "failure"

ScriptVerdict(r) ==
    CASE Variant = "helpers" -> HelpersVerdict(r)
      [] Variant = "simple"  -> SimpleVerdict(r)
      [] Variant = "inline"  -> InlineVerdict(r)

(* The decision table of the spec (section 4.4), the reference the         *)
(* classifiers are held to.                                                *)
SpecVerdict(r) ==
    CASE r.status = 202 -> "success"
      [] r.status = 409 -> "duplicate"
      [] r.status = 400 /\ r.body = "marker" -> "stockOut"
      [] OTHER -> "failure"

ErrorBodies == IF MalformedBodies THEN {"message", "text"} ELSE {"message"}

(* The target's answers to a request for user u, as a set of               *)
(* [response, issued, stock] outcomes.                                     *)
TargetAnswers(u) ==
    IF u \notin KnownUsers
    THEN {[r |-> Response(400, b), issued |-> issued, stock |-> stock] : b \in ErrorBodies}
    ELSE IF u \in issued
    THEN {[r |-> Response(409, "message"), issued |-> issued, stock |-> stock]}
    ELSE IF stock = 0
    THEN {[r |-> Response(400, "marker"), issued |-> issued, stock |-> stock]}
    ELSE {[r |-> Response(202, "empty"), issued |-> issued \cup {u}, stock |-> stock - 1]}

-----------------------------------------------------------------------------
Init ==
    /\ elapsed = 0
    /\ pc = [v \in VUs |-> IF v <= ActiveLevel(StartVUs, Stages, 0)
                           THEN "idle" ELSE "inactive"]
    /\ stopping = [v \in VUs |-> FALSE]
    /\ burst = [v \in VUs |-> 0]
    /\ req = [v \in VUs |-> NoUser]
    /\ resp = [v \in VUs |-> NoResponse]
    /\ issued = {}
    /\ stock = Stock
    /\ counters = NoCount
    /\ local = [c \in {SummaryCtx} \cup VUs |-> NoCount]
    /\ truth = NoCount
    /\ received = NoCount
    /\ report = NoReport

(* k6's http module records every response a VU waits for as one sample *)
(* of http_reqs and http_req_failed, before the script sees it; an orphan's *)
(* answer reaches no VU and is not recorded.                                *)
Sampled(v, r) ==
    IF pc[v] = "sent" THEN [received EXCEPT ![SpecVerdict(r)] = @ + 1]
    ELSE received

(* VU v starts an iteration: builds the URL for a user and posts it. *)
Send(v) ==
    /\ pc[v] = "idle"
    /\ burst[v] < MaxBurst
    /\ \E u \in UserChoices(v) :
          /\ req' = [req EXCEPT ![v] = u]
          /\ pc' = [pc EXCEPT ![v] = "sent"]
          /\ burst' = [burst EXCEPT ![v] = @ + 1]
    /\ UNCHANGED <<elapsed, stopping, resp, issued, stock, counters, local,
                   truth, received, report>>

(* The target handles v's request.  The answer may be lost on the way back *)
(* (the client times out after the target acted).  A request whose VU was  *)
(* interrupted (orphan) is still handled; nobody reads the answer.         *)
TargetHandle(v) ==
    /\ pc[v] \in {"sent", "orphan"}
    /\ \E a \in TargetAnswers(req[v]), delivered \in IF Unreliable THEN BOOLEAN ELSE {TRUE} :
          /\ issued' = a.issued
          /\ stock' = a.stock
          /\ resp' = [resp EXCEPT ![v] = CASE pc[v] = "orphan" -> NoResponse
                                            [] delivered     -> a.r
                                            [] OTHER         -> TransportError]
          /\ pc' = [pc EXCEPT ![v] = IF pc[v] = "sent" THEN "answered" ELSE "inactive"]
          /\ received' = Sampled(v, resp'[v])
    /\ req' = [req EXCEPT ![v] = NoUser]
    /\ UNCHANGED <<elapsed, stopping, burst, counters, local, truth, report>>

(* The request never reaches the target: connection refused or timed out. *)
LoseRequest(v) ==
    /\ Unreliable
    /\ pc[v] \in {"sent", "orphan"}
    /\ resp' = [resp EXCEPT ![v] = IF pc[v] = "sent" THEN TransportError ELSE NoResponse]
    /\ pc' = [pc EXCEPT ![v] = IF pc[v] = "sent" THEN "answered" ELSE "inactive"]
    /\ received' = Sampled(v, resp'[v])
    /\ req' = [req EXCEPT ![v] = NoUser]
    /\ UNCHANGED <<elapsed, stopping, burst, issued, stock, counters,
                   local, truth, report>>

(* Mutant: the VU does not move on after counting, and counts the same    *)
(* response again.                                                        *)
RecordNoReset(v) ==
    /\ pc[v] = "answered"
    /\ LET k == ScriptVerdict(resp[v]) IN
         /\ counters' = IF Variant \in {"helpers", "simple"} /\ k # Throws
                        THEN [counters EXCEPT ![k] = @ + 1] ELSE counters
         /\ local' = IF Variant = "inline" /\ k # Throws
                     THEN [local EXCEPT ![v][k] = @ + 1] ELSE local
    /\ truth' = [truth EXCEPT ![SpecVerdict(resp[v])] = @ + 1]
    /\ UNCHANGED <<elapsed, pc, stopping, burst, req, resp, issued, stock,
                   received, report>>

(* The rest of the default function: classify into a counter, then sleep.  *)
(* A handler that throws ends the iteration before sleep(), so the VU      *)
(* starts its next iteration at once.  A VU told to stop stops here.       *)
Record(v) ==
    /\ pc[v] = "answered"
    /\ LET k == ScriptVerdict(resp[v]) IN
         /\ counters' = IF Variant \in {"helpers", "simple"} /\ k # Throws
                        THEN [counters EXCEPT ![k] = @ + 1] ELSE counters
         /\ local' = IF Variant = "inline" /\ k # Throws
                     THEN [local EXCEPT ![v][k] = @ + 1] ELSE local
         /\ pc' = [pc EXCEPT ![v] = CASE stopping[v] -> "inactive"
                                      [] k = Throws  -> "idle"
                                      [] OTHER       -> "sleeping"]
    /\ truth' = [truth EXCEPT ![SpecVerdict(resp[v])] = @ + 1]
    /\ stopping' = [stopping EXCEPT ![v] = FALSE]
    /\ resp' = [resp EXCEPT ![v] = NoResponse]
    /\ UNCHANGED <<elapsed, burst, req, issued, stock, received, report>>

(* One control interval passes.  VUs up to the new level run (a sleeping   *)
(* one wakes); VUs above it stop: at once if between iterations, after the *)
(* current iteration if one is in flight.  At End, gracefulStop is over:   *)
(* in-flight requests are abandoned and their answers discarded.           *)
VUStep(p, v, level, e) ==
    IF e = End
    THEN CASE p = "sent"     -> "orphan"
           [] p = "answered" -> "inactive"
           [] p = "orphan"   -> "orphan"
           [] OTHER          -> "inactive"
    ELSE IF v <= level
    THEN IF p \in {"inactive", "sleeping"} THEN "idle" ELSE p
    ELSE IF p \in {"idle", "sleeping"} THEN "inactive" ELSE p

(* config.timeout (30 s) is no longer than gracefulStop (30 s): a request *)
(* of coupon-fcfs-concurrency has its answer, or its timeout error, and is *)
(* classified before k6 abandons it.  simple, quick and spike set no        *)
(* timeout, and k6's default of 60 s outlasts gracefulStop.                 *)
AnsweredWithinGrace == Variant = "helpers"

Tick ==
    /\ elapsed < End
    /\ (elapsed + 1 = End /\ AnsweredWithinGrace) =>
          \A v \in VUs : pc[v] \notin {"sent", "answered"}
    /\ LET e     == elapsed + 1
           level == ActiveLevel(StartVUs, Stages, e)
       IN /\ elapsed' = e
          /\ pc' = [v \in VUs |-> VUStep(pc[v], v, level, e)]
          /\ stopping' = [v \in VUs |-> pc'[v] \in {"sent", "answered"} /\ v > level]
          /\ resp' = [v \in VUs |-> IF e = End THEN NoResponse ELSE resp[v]]
    /\ burst' = [v \in VUs |-> 0]
    /\ UNCHANGED <<req, issued, stock, counters, local, truth, received, report>>

(* The four counts handleSummary prints.                                   *)
Reported ==
    IF Variant = "inline" THEN local[SummaryCtx] ELSE counters

(* Mutant: the summary runs as soon as the schedule is over, before the   *)
(* VUs finishing under gracefulStop have counted.                          *)
SummaryEarly ==
    /\ elapsed > Total
    /\ report = NoReport
    /\ report' = Reported
    /\ UNCHANGED <<elapsed, pc, stopping, burst, req, resp, issued, stock,
                   counters, local, truth, received>>

(* handleSummary, once gracefulStop is over and every VU has stopped. *)
Summary ==
    /\ elapsed = End
    /\ report = NoReport
    /\ \A v \in VUs : pc[v] \in {"inactive", "orphan"}
    /\ report' = Reported
    /\ UNCHANGED <<elapsed, pc, stopping, burst, req, resp, issued, stock,
                   counters, local, truth, received>>

(* The run is over and no request is left on the wire. *)
Finished ==
    /\ report # NoReport
    /\ \A v \in VUs : pc[v] = "inactive"
    /\ UNCHANGED vars

Next ==
    \/ \E v \in VUs : Send(v) \/ TargetHandle(v) \/ LoseRequest(v) \/ Record(v)
    \/ Tick
    \/ Summary
    \/ Finished

Spec == Init /\ [][Next]_vars

-----------------------------------------------------------------------------
(* What the counters add up to, over all copies of the script. *)
Aggregated ==
    IF Variant = "inline"
    THEN [k \in Verdicts |-> SumFunction([c \in VUs |-> local[c][k]])]
    ELSE counters

CountSum(f) == SumFunction(f)

TypeOK ==
    /\ elapsed \in 0..End
    /\ pc \in [VUs -> {"inactive", "idle", "sent", "answered", "sleeping", "orphan"}]
    /\ stopping \in [VUs -> BOOLEAN]
    /\ burst \in [VUs -> 0..MaxBurst]
    /\ req \in [VUs -> (UserIdStart..UserIdEnd) \cup Range(USER_IDS) \cup {NoUser}]
    /\ resp \in [VUs -> Responses]
    /\ issued \subseteq KnownUsers
    /\ stock \in 0..Stock
    /\ counters \in [Verdicts -> Nat]
    /\ local \in [{SummaryCtx} \cup VUs -> [Verdicts -> Nat]]
    /\ truth \in [Verdicts -> Nat]
    /\ received \in [Verdicts -> Nat]
    /\ report \in [Verdicts -> Nat] \cup {NoReport}

(* No lost record (spec 4.5, 4.2): every response a VU received before the *)
(* run ended is counted in exactly one of the four counters, whatever its   *)
(* status or body, transport errors included.                               *)
NoLostRecord == CountSum(Aggregated) = CountSum(truth)

(* Classification (spec 4.4): the counters agree, verdict by verdict, with *)
(* the spec's decision table applied to the same responses: a 400 is a      *)
(* stock-out only when its message says the stock is exhausted.             *)
ClassifiedAsSpecified == Aggregated = truth

(* The summary handleSummary prints is what the VUs counted. *)
ReportFaithful == report # NoReport => report = Aggregated

(* The harness never reports more grants than the target made. *)
GrantsNeverOverReported == Aggregated["success"] <= Cardinality(issued)

(* Refinement: the counters, with the history of the spec's verdicts and  *)
(* the printed summary, behave as the abstract Metric Aggregator: each     *)
(* handled response adds one to its verdict's counter and nothing else,    *)
(* and the summary is built once from the final counts.                     *)
MA == INSTANCE MetricAggregator WITH outcomes <- truth, count <- Aggregated,
                                     report <- report
MetricsRefined == MA!Spec

(* The http_req_failed threshold the script declares, in percent:        *)
(* config.thresholds (env.js) for coupon-fcfs-concurrency, rate<0.10 in     *)
(* coupon-fcfs-simple, -quick and -spike.  Their http_req_duration bounds   *)
(* are left out with the latencies.                                         *)
ConfigFailedRate == 5
ScriptFailedRate == 10
FailedRateBound == IF Variant = "helpers" THEN ConfigFailedRate ELSE ScriptFailedRate

(* k6's verdict on http_req_failed: ['rate<x'] at the end of the run.  A   *)
(* response fails when its status is outside 200-399, k6's default         *)
(* expected statuses, which no script changes; a Rate with no samples is 0. *)
FailedThresholdHolds ==
    LET total  == CountSum(received)
        failed == total - received["success"]
    IN  total = 0 \/ failed * 100 < FailedRateBound * total

(* Spec 7(c): a 409 duplicate and a stock-exhaustion 400 are expected     *)
(* outcomes the report counts, and the harness must never treat them as    *)
(* failures of its own.  So when the target answered every request with a  *)
(* grant, a duplicate or an exhaustion (no transport error, no other       *)
(* error), the run's http_req_failed threshold passes.                     *)
BusinessOutcomesPassThreshold ==
    report # NoReport /\ received["failure"] = 0 => FailedThresholdHolds

Running == {v \in VUs : pc[v] # "inactive"}
Distinct(ids, size) ==
    /\ (Running # {} /\ Max(Running) <= size) => IsInjective(ids)
    /\ Cardinality(Running) > size => ~IsInjective(ids)
VUIdsDistinctWhenFit ==
    /\ \A start \in 0..2, width \in 2..4 :
          LET ids == [v \in Running |-> SeqUserId(start, start + width - 1, v)]
          IN  Range(ids) \subseteq start..(start + width - 1) /\ Distinct(ids, width)
    /\ \A k \in 1..2 :
          Distinct([v \in Running |-> CycUserId([i \in 1..k |-> 10 + i], v)], k)
=============================================================================
