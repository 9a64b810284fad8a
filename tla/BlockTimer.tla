----------------------------- MODULE BlockTimer -----------------------------
(***************************************************************************)
(* The timer of dwmblocks (dwmblocks-async/src/timer.c): the period of the *)
(* SIGALRM that drives the periodic blocks and the counter that tells      *)
(* which blocks a given alarm has to run.  Everything here is a pure       *)
(* function of the blocks' intervals.                                      *)
(***************************************************************************)
EXTENDS Integers

(* util.c: Euclid's algorithm, one loop iteration per application to the   *)
(* pair <<a, b>>.                                                          *)
gcd[ab \in Nat \X Nat] ==
    IF ab[2] = 0 THEN ab[1] ELSE gcd[<<ab[2], ab[1] % ab[2]>>]

(* Mutant: the running tick is forgotten, only neighbours are compared. *)
compute_tick_Neighbours(interval, n) ==
    gcd[<<interval[n], IF n = 1 THEN 0 ELSE interval[n-1]>>]

(* compute_tick folds gcd over the blocks in array order. *)
compute_tick(interval, n) ==
    LET upto[i \in 0..n] == IF i = 0 THEN 0 ELSE gcd[<<interval[i], upto[i-1]>>]
    IN  upto[n]

(* compute_reset_value: the longest interval, and at least 1. *)
compute_reset_value(interval, n) ==
    LET upto[i \in 0..n] ==
            IF i = 0 THEN 1
            ELSE IF interval[i] > upto[i-1] THEN interval[i] ELSE upto[i-1]
    IN  upto[n]

(* Mutants: no wrap; a wrap that lets time be reset_value again. *)
timer_arm_NoWrap(time, tick, reset_value) == time + tick
timer_arm_OffByOne(time, tick, reset_value) == (time + tick) % (reset_value + 1)

(* The new value of timer->time after timer_arm. *)
timer_arm(time, tick, reset_value) == (time + tick) % reset_value

(* timer_must_run_block for a non-NULL timer. *)
timer_must_run_block(time, reset_value, interval) ==
    \/ time = reset_value
    \/ interval # 0 /\ time % interval = 0
=============================================================================
