----------------------------- MODULE DwmBlocks -----------------------------
(***************************************************************************)
(* The dwmblocks-async process (dwmblocks-async/src): one event loop that  *)
(* polls a signalfd and one pipe per block, the child processes it forks,  *)
(* one at a time per block, and the X root window name it writes.          *)
(*                                                                         *)
(* What a block's command prints is a sample of a value that the command   *)
(* reads (the volume, the battery...): world[i] is the number of times     *)
(* that value has changed.  Whoever changes it sends the block's signal,   *)
(* as the README tells ("Signalling changes"), so the samples tell a fresh *)
(* output from a stale one.                                                *)
(***************************************************************************)
EXTENDS BlockTimer, FiniteSets, Sequences

CONSTANTS N,           (* BLOCK_COUNT                                       *)
          Interval,    (* interval of each block, 0: never updated by time  *)
          Signalled,   (* the blocks whose signal number is positive        *)
          MaxChanges,  (* bound: changes (each sends a signal) per block    *)
          MaxRefresh,  (* bound: SIGUSR1 sent                               *)
          MaxKills,    (* bound: children killed from outside               *)
          MayStop,     (* whether SIGTERM/SIGINT may be sent                *)
          MayFail      (* whether fork, pipe and the X server may fail      *)

Block == 1..N

ASSUME BlocksAssumption ==
    /\ N \in Nat \ {0}
    /\ Interval \in [Block -> Nat]
    /\ Signalled \subseteq Block
    /\ MaxChanges \in Nat /\ MaxRefresh \in Nat /\ MaxKills \in Nat
    /\ MayStop \in BOOLEAN /\ MayFail \in BOOLEAN

(* Process ids: a pid only has to tell the unreaped children of the        *)
(* process apart, so block i's children take theirs from <<i, slot>>.      *)
Slot  == 1..2
Pid   == Block \X Slot
NoPid == <<0, 0>>                   (* fork_pid = -1 *)

(* What travels in a pipe and ends up in block->output: a sample of the    *)
(* world, or Empty, the lone NUL byte written by a failing child.          *)
Empty == -1

(* A child: not there, running the command, with the command's output in   *)
(* its buffer (val), past its write, or dead with an exit status and not   *)
(* yet waited for.                                                         *)
ChildState == [st     : {"none", "running", "sampled", "wrote", "dead"},
               val    : Int,
               status : {0, 1, 9}]
NoChild  == [st |-> "none",    val |-> Empty, status |-> 0]
NewChild == [st |-> "running", val |-> Empty, status |-> 0]

VARIABLES
    pc,        (* where the process is in main() / event_loop()            *)
    time,      (* timer->time                                              *)
    alarm,     (* alarm(2) is armed                                        *)
    pending,   (* standard signals pending for the signalfd                *)
    rt,        (* rt[i]: queued real-time signals of block i               *)
    active,    (* watcher.active_blocks still to update in this round      *)
    alive,     (* is_alive                                                 *)
    fork_pid,  (* block->fork_pid                                          *)
    pipe,      (* pipe[i]: messages in the pipe of block i                 *)
    buffer,    (* the message block_update has read and not yet stored     *)
    output,    (* block->output                                            *)
    current,   (* status.current, as the vector of outputs it was built of *)
    root_name, (* the root window's name, NoName: not ours yet             *)
    child,     (* child[p]: the child process with pid p                   *)
    world,     (* number of changes of the value block i shows             *)
    refreshes, (* number of SIGUSR1 sent                                   *)
    killed     (* the pids killed from outside, and how many so far        *)

timerVars  == <<time, alarm>>
signalVars == <<pending, rt>>
blockVars  == <<fork_pid, output>>
statusVars == <<current, root_name>>
envVars    == <<world, refreshes, killed>>
vars == <<pc, timerVars, signalVars, active, alive, blockVars, pipe, buffer,
          statusVars, child, envVars>>

Tick        == compute_tick(Interval, N)
ResetValue  == compute_reset_value(Interval, N)
Blank       == [i \in Block |-> Empty]      (* the status without a block *)
NoName      == <<>>

Standard == {"SIGALRM", "SIGUSR1", "SIGTERM"}   (* SIGINT acts as SIGTERM *)

Live(p) == child[p].st \in {"running", "sampled", "wrote"}

-----------------------------------------------------------------------------
(* block_execute for every block of `due`, in array order.  A block that   *)
(* still has a child is skipped.  fork may fail at any block: the loop of  *)
(* execute_blocks stops there and ok is FALSE.                             *)

FreePid(i) == CHOOSE p \in Pid : p[1] = i /\ child[p].st = "none"

CanFork(i) == \E p \in Pid : p[1] = i /\ child[p].st = "none"

(* Mutant: the test of fork_pid is dropped. *)
Idle_Always(i) == i \in Block

(* "Ensure only one child process exists per block at an instance." *)
Idle(i) == fork_pid[i] = NoPid

block_execute(S) ==
    /\ \A i \in S : CanFork(i)
    /\ fork_pid' = [i \in Block |-> IF i \in S THEN FreePid(i) ELSE fork_pid[i]]
    /\ child' = [p \in Pid |->
                    IF p[1] \in S /\ p = FreePid(p[1]) THEN NewChild ELSE child[p]]

execute_blocks(due, ok) ==
    \/ /\ ok
       /\ block_execute({i \in due : Idle(i)})
    \/ /\ MayFail /\ ~ok
       /\ \E f \in due : Idle(f) /\ block_execute({i \in due : Idle(i) /\ i < f})

DueBlocks == {i \in Block : timer_must_run_block(time, ResetValue, Interval[i])}

(* trigger_event: run what the timer says, then re-arm it.                 *)
(* Mutant: the alarm is not set again. *)
trigger_event_NoArm(ok) == execute_blocks(DueBlocks, ok) /\ UNCHANGED timerVars

trigger_event(ok) ==
    /\ execute_blocks(DueBlocks, ok)
    /\ IF ok THEN /\ alarm' = (Tick > 0)
                  /\ time' = timer_arm(time, Tick, ResetValue)
             ELSE UNCHANGED timerVars

-----------------------------------------------------------------------------
Init ==
    /\ pc = "boot"
    /\ time = ResetValue
    /\ alarm = FALSE
    /\ pending = {}
    /\ rt = [i \in Block |-> 0]
    /\ active = {}
    /\ alive = TRUE
    /\ fork_pid = [i \in Block |-> NoPid]
    /\ pipe = [i \in Block |-> <<>>]
    /\ buffer = Empty
    /\ output = Blank
    /\ current = Blank
    /\ root_name = NoName
    /\ child = [p \in Pid |-> NoChild]
    /\ world = [i \in Block |-> 0]
    /\ refreshes = 0
    /\ killed = {}

(* main: init_blocks and signal_handler_init.  Until sigprocmask has run   *)
(* the signals of the blocks still have their default action.              *)
Boot ==
    /\ pc = "boot"
    /\ \/ pc' = "start"
       \/ MayFail /\ pc' = "exit"
    /\ UNCHANGED <<timerVars, signalVars, active, alive, blockVars, pipe, buffer,
                   statusVars, child, envVars>>

(* event_loop: the initial execution of all blocks. *)
Start ==
    /\ pc = "start"
    /\ \E ok \in BOOLEAN : trigger_event(ok) /\ pc' = IF ok THEN "poll" ELSE "exit"
    /\ UNCHANGED <<signalVars, active, alive, output, pipe, buffer, statusVars, envVars>>

(* watcher_poll: blocks until the signalfd or a pipe is readable, then     *)
(* takes the snapshot that the rest of the round works from.               *)
(* Mutant: every descriptor counts as readable. *)
Readable_All == Block

Readable  == {i \in Block : pipe[i] # <<>>}
GotSignal == pending # {} \/ \E i \in Signalled : rt[i] > 0

watcher_poll ==
    /\ pc = "poll"
    /\ GotSignal \/ Readable # {}
    /\ active' = Readable
    /\ pc' = IF GotSignal THEN "signal" ELSE "update"
    /\ UNCHANGED <<timerVars, signalVars, alive, blockVars, pipe, buffer, statusVars,
                   child, envVars>>

(* signal_handler_process: reads one signal.  Which of several pending     *)
(* numbers is delivered first is left open; equal numbers are a queue      *)
(* (real-time) or merge (standard).                                        *)
ProcessTimer ==
    /\ pc = "signal" /\ "SIGALRM" \in pending
    /\ pending' = pending \ {"SIGALRM"}
    /\ \E ok \in BOOLEAN : trigger_event(ok) /\ alive' = ok
    /\ pc' = "update"
    /\ UNCHANGED <<rt, active, output, pipe, buffer, statusVars, envVars>>

ProcessRefresh ==
    /\ pc = "signal" /\ "SIGUSR1" \in pending
    /\ pending' = pending \ {"SIGUSR1"}
    /\ \E ok \in BOOLEAN : execute_blocks(Block, ok) /\ alive' = ok
    /\ pc' = "update"
    /\ UNCHANGED <<timerVars, rt, active, output, pipe, buffer, statusVars, envVars>>

ProcessTerm ==
    /\ pc = "signal" /\ "SIGTERM" \in pending
    /\ pending' = pending \ {"SIGTERM"}
    /\ alive' = FALSE
    /\ pc' = "update"
    /\ UNCHANGED <<timerVars, rt, active, blockVars, pipe, buffer, statusVars, child, envVars>>

(* The return value of block_execute is ignored here. *)
ProcessBlock(i) ==
    /\ pc = "signal" /\ i \in Signalled /\ rt[i] > 0
    /\ rt' = [rt EXCEPT ![i] = @ - 1]
    /\ \E ok \in BOOLEAN : execute_blocks({i}, ok)
    /\ pc' = "update"
    /\ UNCHANGED <<timerVars, pending, active, alive, output, pipe, buffer, statusVars, envVars>>

(* block_update, first half: read the pipe of the first active block.  The *)
(* text that strncpy takes of what was read ends at the first NUL.         *)
FirstActive == CHOOSE i \in active : \A j \in active : i <= j

(* Mutant: read() leaves the message in the pipe. *)
block_read_Leaves ==
    /\ pc = "update" /\ active # {}
    /\ buffer' = pipe[FirstActive][1]
    /\ pc' = "wait"
    /\ UNCHANGED <<timerVars, signalVars, active, alive, blockVars, pipe, statusVars, child,
                   envVars>>

block_read ==
    /\ pc = "update" /\ active # {}
    /\ buffer' = pipe[FirstActive][1]
    /\ pipe' = [pipe EXCEPT ![FirstActive] = <<>>]
    /\ pc' = "wait"
    /\ UNCHANGED <<timerVars, signalVars, active, alive, blockVars, statusVars, child, envVars>>

(* block_update, second half: waitpid blocks until the child is dead; the  *)
(* output is kept only when it exited with status 0.                       *)
(* block_wait without (reset) the reset of fork_pid, (check) the check of  *)
(* the exit status.                                                        *)
block_wait_Without(reset, check) ==
    LET i == FirstActive
        p == fork_pid[i]
    IN  /\ pc = "wait"
        /\ p # NoPid /\ child[p].st = "dead"
        /\ child' = [child EXCEPT ![p] = NoChild]
        /\ killed' = killed \ {p}
        /\ fork_pid' = IF reset THEN fork_pid ELSE [fork_pid EXCEPT ![i] = NoPid]
        /\ output' = IF check \/ child[p].status = 0
                        THEN [output EXCEPT ![i] = buffer] ELSE output
        /\ active' = active \ {i}
        /\ buffer' = Empty
        /\ pc' = "update"
        /\ UNCHANGED <<timerVars, signalVars, alive, pipe, statusVars, world, refreshes>>

(* Mutants: *)
block_wait_KeepsPid  == block_wait_Without(TRUE, FALSE)
block_wait_AnyStatus == block_wait_Without(FALSE, TRUE)

block_wait ==
    LET i == FirstActive
        p == fork_pid[i]
    IN  /\ pc = "wait"
        /\ p # NoPid /\ child[p].st = "dead"
        /\ child' = [child EXCEPT ![p] = NoChild]
        /\ killed' = killed \ {p}
        /\ fork_pid' = [fork_pid EXCEPT ![i] = NoPid]
        /\ output' = IF child[p].status = 0 THEN [output EXCEPT ![i] = buffer] ELSE output
        /\ active' = active \ {i}
        /\ buffer' = Empty
        /\ pc' = "update"
        /\ UNCHANGED <<timerVars, signalVars, alive, pipe, statusVars, world, refreshes>>

(* status_update and status_write: the root window is renamed only when    *)
(* the text differs from that of the round before.                         *)
(* Mutant: the window gets the text of the round before. *)
status_update_Previous ==
    /\ pc = "update" /\ active = {}
    /\ current' = output
    /\ root_name' = IF output # current THEN current ELSE root_name
    /\ pc' = IF alive THEN "poll" ELSE "exit"
    /\ UNCHANGED <<timerVars, signalVars, active, alive, blockVars, pipe, buffer, child, envVars>>

status_update ==
    /\ pc = "update" /\ active = {}
    /\ current' = output
    /\ \/ /\ root_name' = IF output # current THEN output ELSE root_name
          /\ pc' = IF alive THEN "poll" ELSE "exit"
       \/ /\ MayFail /\ output # current     (* x11_set_root_name fails *)
          /\ pc' = "exit"
          /\ UNCHANGED root_name
    /\ UNCHANGED <<timerVars, signalVars, active, alive, blockVars, pipe, buffer, child, envVars>>

-----------------------------------------------------------------------------
(* The children, between fork and exit (block_execute, child side).        *)
ChildSample(p) ==
    /\ child[p].st = "running"
    /\ child' = [child EXCEPT ![p].st = "sampled", ![p].val = world[p[1]]]
    /\ UNCHANGED <<pc, timerVars, signalVars, active, alive, blockVars, pipe, buffer,
                   statusVars, envVars>>

ChildWrite(p) ==
    /\ child[p].st = "sampled"
    /\ child' = [child EXCEPT ![p] = [st |-> "wrote", val |-> Empty, status |-> 0]]
    /\ pipe' = [pipe EXCEPT ![p[1]] = Append(@, child[p].val)]
    /\ UNCHANGED <<pc, timerVars, signalVars, active, alive, blockVars, buffer, statusVars, envVars>>

(* popen fails or the command's exit status is not 0. *)
ChildFail(p) ==
    /\ MayFail
    /\ child[p].st \in {"running", "sampled"}
    /\ child' = [child EXCEPT ![p] = [st |-> "wrote", val |-> Empty, status |-> 1]]
    /\ pipe' = [pipe EXCEPT ![p[1]] = Append(@, Empty)]
    /\ UNCHANGED <<pc, timerVars, signalVars, active, alive, blockVars, buffer, statusVars, envVars>>

ChildExit(p) ==
    /\ child[p].st = "wrote"
    /\ child' = [child EXCEPT ![p].st = "dead"]
    /\ UNCHANGED <<pc, timerVars, signalVars, active, alive, blockVars, pipe, buffer,
                   statusVars, envVars>>

-----------------------------------------------------------------------------
(* The environment.                                                        *)
AlarmFires ==
    /\ alarm
    /\ alarm' = FALSE
    /\ pending' = pending \cup {"SIGALRM"}
    /\ UNCHANGED <<pc, time, rt, active, alive, blockVars, pipe, buffer, statusVars, child, envVars>>

(* A value changes and its block is signalled. *)
Change(i) ==
    /\ pc \notin {"exit", "terminated"}
    /\ i \in Signalled /\ world[i] < MaxChanges
    /\ world' = [world EXCEPT ![i] = @ + 1]
    /\ IF pc = "boot" THEN pc' = "terminated" /\ UNCHANGED rt
                      ELSE rt' = [rt EXCEPT ![i] = @ + 1] /\ UNCHANGED pc
    /\ UNCHANGED <<timerVars, pending, active, alive, blockVars, pipe, buffer, statusVars,
                   child, refreshes, killed>>

(* A value changes and nobody tells: only the interval can show it. *)
SilentChange(i) ==
    /\ pc \notin {"exit", "terminated"}
    /\ i \notin Signalled /\ world[i] < MaxChanges
    /\ world' = [world EXCEPT ![i] = @ + 1]
    /\ UNCHANGED <<pc, timerVars, signalVars, active, alive, blockVars, pipe, buffer,
                   statusVars, child, refreshes, killed>>

SendRefresh ==
    /\ pc \notin {"boot", "exit", "terminated"}
    /\ refreshes < MaxRefresh
    /\ refreshes' = refreshes + 1
    /\ pending' = pending \cup {"SIGUSR1"}
    /\ UNCHANGED <<pc, timerVars, rt, active, alive, blockVars, pipe, buffer, statusVars,
                   child, world, killed>>

SendTerm ==
    /\ MayStop
    /\ pc \notin {"boot", "exit", "terminated"}
    /\ pending' = pending \cup {"SIGTERM"}
    /\ UNCHANGED <<pc, timerVars, rt, active, alive, blockVars, pipe, buffer, statusVars,
                   child, envVars>>

KillChild(p) ==
    /\ Cardinality(killed) < MaxKills
    /\ Live(p)
    /\ killed' = killed \cup {p}
    /\ child' = [child EXCEPT ![p] = [st |-> "dead", val |-> Empty, status |-> 9]]
    /\ UNCHANGED <<pc, timerVars, signalVars, active, alive, blockVars, pipe, buffer,
                   statusVars, world, refreshes>>

(* signal_handler_deinit, deinit_blocks, x11_connection_close. *)
Deinit ==
    /\ pc = "exit"
    /\ pc' = "terminated"
    /\ UNCHANGED <<timerVars, signalVars, active, alive, blockVars, pipe, buffer, statusVars,
                   child, envVars>>

Terminated == pc = "terminated" /\ UNCHANGED vars

-----------------------------------------------------------------------------
Main ==
    \/ Boot \/ Start \/ watcher_poll
    \/ ProcessTimer \/ ProcessRefresh \/ ProcessTerm
    \/ \E i \in Block : ProcessBlock(i)
    \/ block_read \/ block_wait \/ status_update \/ Deinit

Child(p) == ChildSample(p) \/ ChildWrite(p) \/ ChildFail(p) \/ ChildExit(p)

Environment ==
    \/ AlarmFires \/ SendRefresh \/ SendTerm
    \/ \E i \in Block : Change(i) \/ SilentChange(i)
    \/ \E p \in Pid : KillChild(p)

Running == pc # "terminated"

Next == \/ Main
        \/ Running /\ \E p \in Pid : Child(p)
        \/ Running /\ Environment
        \/ Terminated

Spec == Init /\ [][Next]_vars

(* The loop is never descheduled for good, a command that is not killed    *)
(* ends, an armed alarm fires, and no pending signal is passed over for    *)
(* ever: the kernel delivers standard signals first, and ticks are seconds *)
(* apart while a round of the loop takes microseconds.                     *)
Fairness ==
    /\ WF_vars(Main)
    /\ \A p \in Pid : WF_vars(Running /\ Child(p))
    /\ WF_vars(Running /\ AlarmFires)
    /\ SF_vars(ProcessTimer) /\ SF_vars(ProcessRefresh) /\ SF_vars(ProcessTerm)
    /\ \A i \in Block : SF_vars(ProcessBlock(i))

FairSpec == Spec /\ Fairness
-----------------------------------------------------------------------------
(* Type invariant. *)
TypeOK ==
    /\ pc \in {"boot", "start", "poll", "signal", "update", "wait", "exit", "terminated"}
    /\ time \in 0..ResetValue
    /\ alarm \in BOOLEAN
    /\ pending \subseteq Standard
    /\ rt \in [Block -> Nat]
    /\ active \subseteq Block
    /\ alive \in BOOLEAN
    /\ fork_pid \in [Block -> Pid \cup {NoPid}]
    /\ pipe \in [Block -> Seq(Int)]
    /\ buffer \in Int
    /\ output \in [Block -> Int]
    /\ current \in [Block -> Int]
    /\ root_name \in [Block -> Int] \cup {NoName}
    /\ child \in [Pid -> ChildState]
    /\ world \in [Block -> Nat]
    /\ refreshes \in Nat
    /\ killed \subseteq Pid

(* block.c: "Ensure only one child process exists per block at an          *)
(* instance."  No interleaving of timer, refresh and block signals with    *)
(* slow, failing or killed children gives a block a second process, and    *)
(* fork_pid always names the one it has, so no zombie is forgotten.        *)
OneChildPerBlock ==
    \A p \in Pid : child[p].st # "none" <=> fork_pid[p[1]] = p

(* A pipe holds one message at most, written by the child that fork_pid    *)
(* names: read() never returns two outputs at once, and block_update never *)
(* calls waitpid(-1), which would reap the child of another block.         *)
PipeBelongsToChild ==
    \A i \in Block : pipe[i] # <<>> =>
        /\ Len(pipe[i]) = 1
        /\ fork_pid[i] # NoPid
        /\ child[fork_pid[i]].st \in {"wrote", "dead"}

(* The round works from the snapshot of watcher_poll; whatever the signal  *)
(* of the round did, the blocks still to be updated have their message and *)
(* their child, so that neither read() nor waitpid() can block for ever.   *)
SnapshotStaysValid ==
    /\ pc \in {"signal", "update"} => \A i \in active : pipe[i] # <<>>
    /\ pc = "wait" => /\ active # {}
                      /\ fork_pid[FirstActive] # NoPid
                      /\ child[fork_pid[FirstActive]].st \in {"wrote", "dead"}

(* When the process waits for events the root window shows the outputs of  *)
(* the blocks, or was never named because no block has had an output.      *)
RootShowsOutputs ==
    pc = "poll" => /\ current = output
                   /\ root_name = current \/ (root_name = NoName /\ output = Blank)

(* A block's output is never replaced by one sampled earlier, nor erased.  *)
OutputNeverGoesBack ==
    [][\A i \in Block : output'[i] >= output[i]]_vars

(* Every child is waited for unless it is itself killed: a block whose     *)
(* child was killed before writing stays without updates for ever, and the *)
(* other blocks do not.                                                    *)
SiblingsReaped ==
    \A i \in Block :
        (fork_pid[i] # NoPid)
            ~> (fork_pid[i] = NoPid \/ fork_pid[i] \in killed \/ ~Running)

(* When its value has stopped changing, a block with an interval ends up   *)
(* showing it, although a signal that arrives while the block's child is   *)
(* alive is dropped; unless its children are killed for ever.              *)
IntervalBlocksConverge ==
    \A i \in Block : Interval[i] > 0 =>
        \/ <>[](~Running \/ output[i] = world[i])
        \/ []<>(\E p \in killed : p[1] = i)

(* dwmblocks-async/README.md: "give your block a signal through which you  *)
(* can indicate it to update on relevant event, rather than have it rerun  *)
(* idly."  Every signalled change ends up on the bar.                      *)
SignalledBlocksConverge ==
    \A i \in Signalled : <>[](~Running \/ output[i] = world[i])
=============================================================================
