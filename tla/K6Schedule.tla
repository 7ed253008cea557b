----------------------------- MODULE K6Schedule -----------------------------
(***************************************************************************)
(* The Phase Scheduler.  Every scenario script declares its load shape as *)
(* a list of k6 stages {duration, target} in `options`; k6's ramping-vus  *)
(* executor turns that list into the number of virtual users (VUs) that   *)
(* are active at each instant.  The stage lists below are the scripts'     *)
(* own, in seconds; ActiveLevel is the executor's level function as the   *)
(* spec (section 4.1) describes it: a stage ramps linearly from the       *)
(* previous stage's target to its own, rounded to the nearest integer,    *)
(* and the level is 0 once the schedule is over.                           *)
(***************************************************************************)
EXTENDS Integers, Sequences, SequencesExt

Stage(d, t) == [duration |-> d, target |-> t]

(* Sum of the durations of the first n stages. *)
Elapsed(stages, n) ==
    FoldLeft(LAMBDA acc, s : acc + s.duration, 0, SubSeq(stages, 1, n))

StageStart(stages, i) == Elapsed(stages, i - 1)
StageEnd(stages, i)   == Elapsed(stages, i)
TotalDuration(stages) == Elapsed(stages, Len(stages))

(* A ramping stage starts at the level the previous one reached; the first *)
(* starts at the executor's startVUs.                                      *)
FromLevel(startVUs, stages, i) ==
    IF i = 1 THEN startVUs ELSE stages[i - 1].target

(* n / d rounded to the nearest integer, halves upwards (d > 0). *)
RoundDiv(n, d) == (2 * n + d) \div (2 * d)

(* The stage whose window [start, end] holds t: the first one, so that a   *)
(* stage boundary belongs to the stage that ends there.                    *)
StageAt(stages, t) ==
    CHOOSE i \in 1..Len(stages) :
        /\ StageStart(stages, i) <= t
        /\ t <= StageEnd(stages, i)
        /\ \A j \in 1..(i - 1) : t > StageEnd(stages, j)

ActiveLevel(startVUs, stages, t) ==
    IF t > TotalDuration(stages) THEN 0
    ELSE LET i    == StageAt(stages, t)
             from == FromLevel(startVUs, stages, i)
         IN  from + RoundDiv((stages[i].target - from) * (t - StageStart(stages, i)),
                             stages[i].duration)

(* A schedule k6 accepts: at least one stage, positive durations,          *)
(* non-negative targets.                                                   *)
ValidSchedule(startVUs, stages) ==
    /\ Len(stages) > 0
    /\ startVUs >= 0
    /\ \A i \in 1..Len(stages) : stages[i].duration > 0 /\ stages[i].target >= 0

-----------------------------------------------------------------------------
(* The scripts' schedules, in seconds.  `stages` in options is k6's        *)
(* shortcut for one ramping-vus scenario with startVUs = 1 (the default    *)
(* `vus`); `vus` + `duration` is one constant-vus scenario, which is a     *)
(* single stage holding `vus` from the start.                              *)

ShortcutStartVUs == 1

SpikeStages ==
    << Stage(10, 10), Stage(10, 100), Stage(20, 100), Stage(10, 100),
       Stage(10, 200), Stage(20, 200), Stage(5, 500), Stage(15, 500),
       Stage(5, 0) >>

OrderLoadStages ==
    << Stage(60, 50), Stage(300, 100), Stage(300, 200), Stage(300, 100),
       Stage(60, 0) >>

PatternComparisonStages ==
    << Stage(30, 50), Stage(120, 100), Stage(30, 0) >>

(* JavaScript's parseInt(s, 10) on a string given as a sequence of its    *)
(* characters: the value of the leading run of digits, NaN when there is    *)
(* none.  The result is a set: {n} for the number n, {} for NaN.  (The      *)
(* environment values below carry no sign or blanks.)                       *)
Digits == <<"0", "1", "2", "3", "4", "5", "6", "7", "8", "9">>
DigitValue(c) == CHOOSE i \in 0..9 : Digits[i + 1] = c
IsDigit(c) == c \in Range(Digits)

RECURSIVE LeadingDigits(_, _)
LeadingDigits(s, acc) ==
    IF s # <<>> /\ IsDigit(Head(s))
    THEN LeadingDigits(Tail(s), 10 * acc + DigitValue(Head(s)))
    ELSE acc

ParseInt(s) == IF s # <<>> /\ IsDigit(Head(s)) THEN {LeadingDigits(s, 0)} ELSE {}

(* order-soak-test's DURATION_HOURS: parseInt(__ENV.DURATION_HOURS || '2'). *)
(* An unset or empty variable is falsy and gives the default.               *)
DurationHours(env) == ParseInt(IF env = <<>> THEN <<"2">> ELSE env)

SoakStages(hours) ==
    << Stage(300, 100), Stage(hours * 3600, 100), Stage(300, 0) >>

(* coupon-fcfs-quick (vus 50, 10s) and coupon-fcfs-simple (vus 100, 10s). *)
ConstantVUs(vus, seconds) == << Stage(seconds, vus) >>

(* The four scenarios of coupon-fcfs-concurrency: executor start level,    *)
(* stages, and startTime.  ramping-vus there keeps the default startVUs 1. *)
ConcurrencyScenarios ==
    << [start |-> 0,   startVUs |-> 10, stages |-> ConstantVUs(10, 30)],
       [start |-> 35,  startVUs |-> 1,
        stages |-> << Stage(30, 50), Stage(60, 100), Stage(30, 0) >>],
       [start |-> 180, startVUs |-> 1,
        stages |-> << Stage(60, 100), Stage(120, 200), Stage(60, 300), Stage(60, 0) >>],
       [start |-> 480, startVUs |-> 1,
        stages |-> << Stage(10, 500), Stage(30, 500), Stage(10, 0) >>] >>
=============================================================================
