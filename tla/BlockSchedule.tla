--------------------------- MODULE BlockSchedule ---------------------------
(***************************************************************************)
(* What the timer of dwmblocks does as the seconds go by: trigger_event    *)
(* runs the blocks that are due and re-arms the alarm, `tick` seconds      *)
(* later the alarm fires and trigger_event runs again.  The intervals are  *)
(* chosen in the initial state, so that one run checks every               *)
(* configuration up to MaxInterval.                                        *)
(***************************************************************************)
EXTENDS BlockTimer

CONSTANTS BLOCK_COUNT,  (* number of blocks                                *)
          MaxInterval,  (* bound: the longest interval of a configuration  *)
          MaxClock,     (* bound: the seconds a behaviour lasts            *)
          Harmonic      (* TRUE: every interval divides the longest one,   *)
                        (* as in the shipped config.h                      *)

ASSUME ScheduleAssumption ==
    /\ BLOCK_COUNT \in Nat \ {0}
    /\ MaxInterval \in Nat
    /\ MaxClock \in Nat
    /\ Harmonic \in BOOLEAN

Position == 1..BLOCK_COUNT

VARIABLES interval,   (* the configuration: BLOCKS(X) in config.h          *)
          timer_time, (* timer->time                                       *)
          clock       (* seconds since the start                           *)

scheduleVars == <<interval, timer_time, clock>>

Period == compute_tick(interval, BLOCK_COUNT)
Reset  == compute_reset_value(interval, BLOCK_COUNT)

Due(i) == timer_must_run_block(timer_time, Reset, interval[i])

(* timer_new, before the kick-start call of trigger_event in event_loop.   *)
ScheduleInit ==
    /\ interval \in [Position -> 0..MaxInterval]
    /\ Harmonic => \A i \in Position : interval[i] # 0 => Reset % interval[i] = 0
    /\ timer_time = Reset
    /\ clock = 0

(* One trigger_event and the wait for the next alarm.  alarm(0) arms       *)
(* nothing, so a configuration without periodic blocks stops here.         *)
TriggerEvent ==
    /\ Period > 0
    /\ clock + Period <= MaxClock
    /\ timer_time' = timer_arm(timer_time, Period, Reset)
    /\ clock' = clock + Period
    /\ UNCHANGED interval

ScheduleNext == TriggerEvent

ScheduleSpec == ScheduleInit /\ [][ScheduleNext]_scheduleVars

-----------------------------------------------------------------------------
Divides(d, n) == \E q \in 0..n : n = q * d

(* timer->time stays between 0 and the longest interval: a residue of it   *)
(* once the timer has been armed.                                          *)
ScheduleTypeOK ==
    /\ interval \in [Position -> 0..MaxInterval]
    /\ clock \in 0..MaxClock
    /\ timer_time \in 0..Reset

(* compute_tick is the greatest common divisor of the intervals: it        *)
(* divides each of them, and no larger number does.                        *)
TickIsGcd ==
    LET Common(d) == \A i \in Position : Divides(d, interval[i])
    IN  Period > 0 => Common(Period) /\ \A d \in 1..MaxInterval : Common(d) => d <= Period

(* In a harmonic configuration an alarm runs exactly the blocks whose      *)
(* interval divides the elapsed seconds: the wrap of timer->time at the    *)
(* longest interval never makes a block early or late.                     *)
OnSchedule ==
    (Harmonic /\ clock > 0) =>
        \A i \in Position : Due(i) <=> (interval[i] # 0 /\ clock % interval[i] = 0)
=============================================================================
