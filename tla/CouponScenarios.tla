---------------------------- MODULE CouponScenarios ----------------------------
(***************************************************************************)
(* coupon-fcfs-concurrency's four scenarios (smoke, load, stress, spike)   *)
(* run by their executors on one clock.                                    *)
(*                                                                         *)
(* Each scenario has its own VUs, its startTime and its stages (seconds,   *)
(* K6Schedule's ConcurrencyScenarios).  The clock advances in ticks of     *)
(* TickSeconds.  A VU of a scenario runs the default function while its    *)
(* index is within the scenario's level: post, wait for the answer (at     *)
(* most the request timeout), classify, sleep(0.1).  A VU taken out by a   *)
(* ramp-down gets gracefulRampDown to finish its iteration; at the         *)
(* scenario's end every VU gets gracefulStop; after that k6 interrupts it  *)
(* and the request in flight is abandoned.  How a response is classified   *)
(* is CouponFcfs's subject and is left out here.                           *)
(***************************************************************************)
EXTENDS Integers, Sequences, FiniteSets, K6Schedule

CONSTANTS
    VUIndices,    \* the VU indices, per scenario, the model keeps
    TickSeconds   \* seconds per tick

ASSUME VUIndices \subseteq Nat \ {0} /\ TickSeconds \in Nat \ {0}

Scenarios == DOMAIN ConcurrencyScenarios
VUs == VUIndices
Slots == Scenarios \X VUs

(* Mutant: the request option dropped, k6's default timeout of 60 s. *)
TimeoutDefault == 60

(* config.timeout, the request timeout of every post, in seconds. *)
Timeout == 30

(* k6's defaults, unchanged by the script: gracefulRampDown, gracefulStop. *)
GracefulRampDown == 30
GracefulStop == 30

Ticks(seconds) == seconds \div TickSeconds

Sc(s) == ConcurrencyScenarios[s]
StartTick(s) == Ticks(Sc(s).start)
EndTick(s) == Ticks(Sc(s).start + TotalDuration(Sc(s).stages))

(* The scenario's level during tick c (the interval from c * TickSeconds  *)
(* to the next tick): 0 before its startTime and once its stages are over. *)
LevelAt(s, c) ==
    IF c < StartTick(s) \/ c >= EndTick(s) THEN 0
    ELSE ActiveLevel(Sc(s).startVUs, Sc(s).stages, c * TickSeconds - Sc(s).start)

LastTick == Max({EndTick(s) : s \in Scenarios}) + Ticks(GracefulStop) + 1
NoDeadline == -1

VARIABLES
    clock,     \* ticks since the start of the run
    pc,        \* per slot: inactive | idle | inflight
    age,       \* per slot: ticks the request in flight has waited
    deadline,  \* per slot: tick at which k6 interrupts it, or NoDeadline
    burst,     \* per slot: an iteration was started in this tick
    cut        \* history: a request in flight was abandoned by k6

vars == <<clock, pc, age, deadline, burst, cut>>

Init ==
    /\ clock = 0
    /\ pc = [x \in Slots |-> IF x[2] <= LevelAt(x[1], 0) THEN "idle" ELSE "inactive"]
    /\ age = [x \in Slots |-> 0]
    /\ deadline = [x \in Slots |-> NoDeadline]
    /\ burst = [x \in Slots |-> FALSE]
    /\ cut = FALSE

(* VU x starts an iteration: picks a user and posts issue-fcfs. *)
Start(x) ==
    /\ pc[x] = "idle"
    /\ ~burst[x]
    /\ pc' = [pc EXCEPT ![x] = "inflight"]
    /\ age' = [age EXCEPT ![x] = 0]
    /\ burst' = [burst EXCEPT ![x] = TRUE]
    /\ UNCHANGED <<clock, deadline, cut>>

(* The answer, or the timeout, arrives; the VU classifies it and sleeps.  *)
(* A VU with a deadline has been told to stop and stops here.             *)
Finish(x) ==
    /\ pc[x] = "inflight"
    /\ pc' = [pc EXCEPT ![x] = IF deadline[x] = NoDeadline THEN "idle" ELSE "inactive"]
    /\ deadline' = [deadline EXCEPT ![x] = NoDeadline]
    /\ UNCHANGED <<clock, age, burst, cut>>

(* The deadline k6 sets for a VU with an iteration in flight at tick e:   *)
(* gracefulStop once its scenario is over, gracefulRampDown when a ramp    *)
(* takes it out; an earlier deadline stands.                               *)
StopDeadline(x, e) ==
    LET s   == x[1]
        new == IF e >= EndTick(s) THEN EndTick(s) + Ticks(GracefulStop)
               ELSE e + Ticks(GracefulRampDown)
    IN  IF deadline[x] = NoDeadline THEN new ELSE Min({deadline[x], new})

(* Mutant: k6 ignores the request's timeout; an answer may never come. *)
AnswerDueNever(x) == FALSE

(* The request of x has waited its whole timeout: its answer, or the      *)
(* timeout error, is due before the clock moves on.                        *)
AnswerDue(x) == pc[x] = "inflight" /\ age[x] >= Ticks(Timeout)

(* One tick of the clock.  A request that has waited its whole timeout has *)
(* been answered by then (the timeout is an answer, status 0).  Every      *)
(* executor moves its VUs to the new level; VUs past a deadline are         *)
(* interrupted.                                                             *)
Tick ==
    /\ clock < LastTick
    /\ \A x \in Slots : ~AnswerDue(x)
    /\ LET e     == clock + 1
           Out(x) == x[2] > LevelAt(x[1], e)
           dl    == [x \in Slots |->
                       CASE pc[x] # "inflight" -> NoDeadline
                         [] Out(x)              -> StopDeadline(x, e)
                         [] OTHER               -> deadline[x]]
           Interrupted(x) == pc[x] = "inflight" /\ dl[x] # NoDeadline /\ e >= dl[x]
       IN /\ clock' = e
          /\ pc' = [x \in Slots |->
                      CASE Interrupted(x)     -> "inactive"
                        [] pc[x] = "inflight" -> "inflight"
                        [] Out(x)             -> "inactive"
                        [] OTHER              -> "idle"]
          /\ deadline' = [x \in Slots |-> IF Interrupted(x) THEN NoDeadline ELSE dl[x]]
          /\ cut' = (cut \/ \E x \in Slots : Interrupted(x))
    /\ age' = [x \in Slots |-> IF pc[x] = "inflight" THEN age[x] + 1 ELSE 0]
    /\ burst' = [x \in Slots |-> FALSE]

(* Every scenario is over and every VU has stopped. *)
Done ==
    /\ clock = LastTick
    /\ \A x \in Slots : pc[x] = "inactive"
    /\ UNCHANGED vars

Next == (\E x \in Slots : Start(x) \/ Finish(x)) \/ Tick \/ Done

Spec == Init /\ [][Next]_vars

-----------------------------------------------------------------------------
TypeOK ==
    /\ clock \in 0..LastTick
    /\ pc \in [Slots -> {"inactive", "idle", "inflight"}]
    /\ age \in [Slots -> 0..Ticks(Timeout)]
    /\ deadline \in [Slots -> {NoDeadline} \cup 0..LastTick]
    /\ burst \in [Slots -> BOOLEAN]
    /\ cut \in BOOLEAN

(* No answer is ever abandoned: the request timeout of the script is no    *)
(* longer than gracefulRampDown and gracefulStop, so every request a VU   *)
(* is told to stop during, or that is in flight when its scenario ends,   *)
(* has its answer (or its timeout) before k6 would interrupt the VU.       *)
GraceNeverCutsRequest == ~cut

(* The script's header says the four scenarios run one after another, and *)
(* load_test's startTime comment that it starts after smoke_test has      *)
(* ended: no two scenarios ever have a VU running at once.                 *)
Busy(s) == \E v \in VUs : pc[<<s, v>>] # "inactive"
ScenariosSequential ==
    \A s1, s2 \in Scenarios : s1 # s2 => ~(Busy(s1) /\ Busy(s2))
=============================================================================
