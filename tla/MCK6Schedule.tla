---------------------------- MODULE MCK6Schedule ----------------------------
(***************************************************************************)
(* Walks every script's schedule second by second.  One behaviour per      *)
(* schedule: Init picks the schedule, Step advances the clock one second.  *)
(* Each schedule carries the holds its comments promise: a stage the       *)
(* comments say keeps a level ("유지", or order-load-test's "정상 부하:    *)
(* 100명 (5분)").  order-soak-test's schedule is built from each value of  *)
(* DURATION_HOURS the environment may hold.                                *)
(***************************************************************************)
EXTENDS Integers, Sequences, K6Schedule

Hold(i, level) == [stage |-> i, level |-> level]

(* Values of __ENV.DURATION_HOURS, as character sequences: unset, "1.5",   *)
(* "0.5" and "abc".                                                         *)
DurationEnvs == { <<>>, <<"1", ".", "5">>, <<"0", ".", "5">>, <<"a", "b", "c">> }

(* Every script's schedule, with the holds its comments name. *)
Schedules ==
    { [name |-> "coupon-fcfs-spike", startVUs |-> ShortcutStartVUs,
       stages |-> SpikeStages, holds |-> {Hold(8, 500)}],          \* 15초 유지
      [name |-> "coupon-fcfs-quick", startVUs |-> 50,
       stages |-> ConstantVUs(50, 10), holds |-> {}],
      [name |-> "coupon-fcfs-simple", startVUs |-> 100,
       stages |-> ConstantVUs(100, 10), holds |-> {}],
      \* header: 정상 부하 100명 (5분), 피크타임 200명 (5분), 정상 부하 100명 (5분)
      [name |-> "order-load-test", startVUs |-> ShortcutStartVUs,
       stages |-> OrderLoadStages,
       holds |-> {Hold(2, 100), Hold(3, 200), Hold(4, 100)}],
      [name |-> "order-pattern-comparison", startVUs |-> ShortcutStartVUs,
       stages |-> PatternComparisonStages, holds |-> {}] }
    \cup
    \* 100 VUs를 장시간 유지.  `${DURATION_HOURS}h` with NaN is "NaNh", which k6
    \* cannot parse as a duration: that run never starts.
    UNION { { [name |-> "order-soak-test", startVUs |-> ShortcutStartVUs,
               stages |-> SoakStages(hours), holds |-> {Hold(2, 100)}]
              : hours \in DurationHours(env) }
            : env \in DurationEnvs }
    \cup
    \* coupon-fcfs-concurrency, each scenario on its own clock: smoke's 10명
    \* 30초 동안, load_test's 1분 동안 100명 유지, spike_test's 30초 동안 유지
    { [name |-> "coupon-fcfs-concurrency",
       startVUs |-> ConcurrencyScenarios[i].startVUs,
       stages |-> ConcurrencyScenarios[i].stages,
       holds |-> << {Hold(1, 10)}, {Hold(2, 100)}, {}, {Hold(2, 500)} >>[i]]
      : i \in 1..Len(ConcurrencyScenarios) }

VARIABLES sched, t

Level(x) == ActiveLevel(sched.startVUs, sched.stages, x)
Total == TotalDuration(sched.stages)

Init == sched \in Schedules /\ t = 0

Step == t <= Total /\ t' = t + 1 /\ UNCHANGED sched

(* Past the end the executor is done. *)
Done == t > Total /\ UNCHANGED <<sched, t>>

Spec == Init /\ [][Step \/ Done]_<<sched, t>>

-----------------------------------------------------------------------------
(* A stage a comment says holds a level runs that level throughout: at     *)
(* every second after the stage starts and up to its end, the executor's   *)
(* level is the one the comment names.  A stage that ramps from the        *)
(* previous target reaches it only at its end.                             *)
HoldsAsCommented ==
    \A h \in sched.holds :
        StageStart(sched.stages, h.stage) < t /\ t <= StageEnd(sched.stages, h.stage)
            => Level(t) = h.level

(* Spec 4.1: a zero-duration phase is rejected when the schedule is built, *)
(* and a malformed schedule never runs.  Every schedule k6 starts, soak    *)
(* schedules built from DURATION_HOURS included, is one the spec accepts.  *)
OnlyValidSchedulesRun == ValidSchedule(sched.startVUs, sched.stages)
=============================================================================
