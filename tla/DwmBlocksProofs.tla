-------------------------- MODULE DwmBlocksProofs --------------------------
(***************************************************************************)
(* Proofs about DwmBlocks, for every number of blocks, every choice of     *)
(* intervals and signals and every bound on the environment: a block never *)
(* has two children, its pipe holds what its own child wrote, a round of   *)
(* the event loop cannot block for ever in read() or waitpid(), and an     *)
(* output never goes back to an earlier sample.  The last part is about    *)
(* the timer by itself, BlockSchedule.                                     *)
(***************************************************************************)
EXTENDS DwmBlocks, BlockSchedule, AlgorithmProofs

(* The type invariant without the timer, whose value is a recursive        *)
(* function of the intervals.                                              *)
StateType ==
    /\ pc \in {"boot", "start", "poll", "signal", "update", "wait", "exit", "terminated"}
    /\ active \in SUBSET Block
    /\ fork_pid \in [Block -> Pid \cup {NoPid}]
    /\ pipe \in [Block -> Seq(Int)]
    /\ buffer \in Int
    /\ output \in [Block -> Int]
    /\ child \in [Pid -> ChildState]
    /\ world \in [Block -> Nat]

(* fork_pid names a child of its own block. *)
OwnChild == \A i \in Block : fork_pid[i] # NoPid => fork_pid[i][1] = i

(* Between read() and the return of waitpid() the message is in the local  *)
(* buffer of block_update, and only there.                                 *)
MessageTaken ==
    pc = "wait" => /\ pipe[FirstActive] = <<>>
                   /\ \A j \in active \ {FirstActive} : pipe[j] # <<>>

ChildInv == StateType /\ OwnChild /\ OneChildPerBlock /\ PipeBelongsToChild
                /\ SnapshotStaysValid /\ MessageTaken

-----------------------------------------------------------------------------
(* A round updates a block of its snapshot. *)
LEMMA FirstActiveInSet ==
    ASSUME active \in SUBSET Block, active # {}
    PROVE  FirstActive \in active
<1>1. active \subseteq Nat
  BY BlocksAssumption DEF Block
<1> QED
  BY <1>1, LeastElement DEF FirstActive

(* fork() returns a pid that no unreaped child of the block has. *)
LEMMA FreePidIsFree ==
    ASSUME NEW i \in Block, CanFork(i)
    PROVE  /\ FreePid(i) \in Pid
           /\ FreePid(i)[1] = i
           /\ child[FreePid(i)].st = "none"
BY DEF FreePid, CanFork

LEMMA PidParts ==
    /\ \A p \in Pid : p[1] \in Block /\ p # NoPid
    /\ NoPid \notin Pid
BY BlocksAssumption DEF Pid, Slot, NoPid, Block

(* block_execute keeps the correspondence between fork_pid and the         *)
(* children: it forks only for idle blocks.                                *)
LEMMA ExecuteKeepsChildren ==
    ASSUME ChildInv, NEW S \in SUBSET Block, \A i \in S : Idle(i), block_execute(S)
    PROVE  /\ fork_pid' \in [Block -> Pid \cup {NoPid}]
           /\ child' \in [Pid -> ChildState]
           /\ OwnChild' /\ OneChildPerBlock'
           /\ \A i \in Block \ S : fork_pid'[i] = fork_pid[i]
           /\ \A p \in Pid : child[p].st # "none" => child'[p] = child[p]
           /\ \A p \in Pid : child[p].st = "none" => child'[p] \in {child[p], NewChild}
<1>1. \A i \in S : /\ FreePid(i) \in Pid
                   /\ FreePid(i)[1] = i
                   /\ child[FreePid(i)].st = "none"
  BY FreePidIsFree DEF block_execute
<1>2. fork_pid' \in [Block -> Pid \cup {NoPid}]
  BY <1>1 DEF block_execute, ChildInv, StateType
<1>3. child' \in [Pid -> ChildState]
  BY DEF block_execute, ChildInv, StateType, ChildState, NewChild, Empty
<1>4. OwnChild'
  BY <1>1 DEF block_execute, ChildInv, OwnChild
<1>5. ASSUME NEW p \in Pid PROVE child'[p].st # "none" <=> fork_pid'[p[1]] = p
  <2>1. p[1] \in Block /\ p # NoPid
    BY PidParts
  <2>2. CASE p[1] \in S
    BY <1>1, <2>1, <2>2 DEF block_execute, ChildInv, OneChildPerBlock, Idle, NewChild
  <2>3. CASE p[1] \notin S
    BY <2>1, <2>3 DEF block_execute, ChildInv, OneChildPerBlock
  <2> QED
    BY <2>2, <2>3
<1>6. \A p \in Pid : child[p].st # "none" => child'[p] = child[p]
  BY <1>1 DEF block_execute
<1> QED
  BY <1>2, <1>3, <1>4, <1>5, <1>6 DEF block_execute, OneChildPerBlock

(* A round that forks keeps the whole invariant, whatever place of the     *)
(* event loop it leaves for another that is not the wait for a child.      *)
LEMMA ExecuteKeepsInv ==
    ASSUME ChildInv, NEW due \in SUBSET Block, NEW ok \in BOOLEAN, execute_blocks(due, ok),
           pc \in {"start", "signal"}, pc' \in {"poll", "exit", "update"},
           pc' = "update" => pc = "signal",
           UNCHANGED <<active, pipe, buffer, output, world>>
    PROVE  ChildInv'
<1>1. PICK S \in SUBSET Block : (\A i \in S : Idle(i)) /\ block_execute(S)
  BY DEF execute_blocks
<1>2. /\ fork_pid' \in [Block -> Pid \cup {NoPid}]
      /\ child' \in [Pid -> ChildState]
      /\ OwnChild' /\ OneChildPerBlock'
      /\ \A i \in Block \ S : fork_pid'[i] = fork_pid[i]
      /\ \A p \in Pid : child[p].st # "none" => child'[p] = child[p]
  BY <1>1, ExecuteKeepsChildren
<1>3. \A i \in S : fork_pid[i] = NoPid
  BY <1>1 DEF Idle
<1>4. StateType'
  BY <1>2 DEF ChildInv, StateType
<1>5. PipeBelongsToChild'
  <2> SUFFICES ASSUME NEW i \in Block, pipe[i] # <<>>
               PROVE  /\ Len(pipe[i]) = 1
                      /\ fork_pid'[i] # NoPid
                      /\ child'[fork_pid'[i]].st \in {"wrote", "dead"}
    BY DEF PipeBelongsToChild
  <2>1. /\ Len(pipe[i]) = 1
        /\ fork_pid[i] \in Pid
        /\ child[fork_pid[i]].st \in {"wrote", "dead"}
    BY DEF ChildInv, PipeBelongsToChild, StateType
  <2>2. fork_pid'[i] = fork_pid[i]
    BY <1>2, <1>3, <2>1, PidParts
  <2> QED
    BY <1>2, <2>1, <2>2, PidParts
<1>6. SnapshotStaysValid' /\ MessageTaken'
  BY DEF ChildInv, SnapshotStaysValid, MessageTaken
<1> QED
  BY <1>2, <1>4, <1>5, <1>6 DEF ChildInv

(* A step that leaves the children, the pipes and the snapshot alone.      *)
LEMMA FrameKeepsInv ==
    ASSUME ChildInv, UNCHANGED <<active, fork_pid, pipe, child>>,
           output' \in [Block -> Int], world' \in [Block -> Nat], buffer' \in Int,
           \/ pc' = pc
           \/ pc' \in {"start", "poll", "exit", "terminated"}
           \/ pc = "signal" /\ pc' = "update"
    PROVE  ChildInv'
<1>1. FirstActive' = FirstActive
  BY DEF FirstActive
<1>2. StateType' /\ OwnChild' /\ OneChildPerBlock' /\ PipeBelongsToChild'
  BY DEF ChildInv, StateType, OwnChild, OneChildPerBlock, PipeBelongsToChild
<1>3. SnapshotStaysValid' /\ MessageTaken'
  BY <1>1 DEF ChildInv, SnapshotStaysValid, MessageTaken
<1> QED
  BY <1>2, <1>3 DEF ChildInv

(* A child takes a step: it stays the child of its block, and if it writes *)
(* then its pipe was empty.                                                *)
LEMMA ChildKeepsInv ==
    ASSUME ChildInv, NEW p \in Pid, NEW r \in ChildState,
           child[p].st \in {"running", "sampled", "wrote"},
           child' = [child EXCEPT ![p] = r],
           \/ /\ r.st \in {"sampled", "dead"} /\ pipe' = pipe
              /\ child[p].st = "wrote" => r.st = "dead"
           \/ /\ r.st = "wrote" /\ child[p].st # "wrote"
              /\ \E m \in Int : pipe' = [pipe EXCEPT ![p[1]] = Append(@, m)],
           UNCHANGED <<pc, active, fork_pid, buffer, output, world>>
    PROVE  ChildInv'
<1> USE DEF ChildInv
<1>1. p[1] \in Block /\ fork_pid[p[1]] = p /\ p # NoPid
  BY PidParts DEF OneChildPerBlock
<1>2. child[p].st # "wrote" => pipe[p[1]] = <<>>
  BY <1>1 DEF PipeBelongsToChild
<1>3. PICK s \in Seq(Int) :
        /\ pipe' = [pipe EXCEPT ![p[1]] = s]
        /\ s # pipe[p[1]] => /\ r.st = "wrote"
                             /\ pipe[p[1]] = <<>> /\ Len(s) = 1 /\ s # <<>>
  <2>1. pipe[p[1]] \in Seq(Int)
    BY <1>1 DEF StateType
  <2>2. CASE pipe' = pipe
    <3>1. pipe = [pipe EXCEPT ![p[1]] = pipe[p[1]]]
      BY <1>1 DEF StateType
    <3> QED
      BY <2>1, <2>2, <3>1
  <2>3. ASSUME NEW m \in Int, pipe' = [pipe EXCEPT ![p[1]] = Append(@, m)],
               r.st = "wrote", child[p].st # "wrote"
        PROVE  \E s \in Seq(Int) :
                 /\ pipe' = [pipe EXCEPT ![p[1]] = s]
                 /\ s # pipe[p[1]] => /\ r.st = "wrote"
                                      /\ pipe[p[1]] = <<>> /\ Len(s) = 1 /\ s # <<>>
    <3> DEFINE q == Append(pipe[p[1]], m)
    <3>1. q \in Seq(Int) /\ pipe' = [pipe EXCEPT ![p[1]] = q]
      BY <2>1, <2>3
    <3>2. pipe[p[1]] = <<>>
      BY <1>2, <2>3
    <3>3. Len(q) = 1
      BY <2>1, <3>2
    <3>4. q # <<>>
      <4> HIDE DEF q
      <4>1. Len(<<>>) = 0
        OBVIOUS
      <4> QED
        BY <3>3, <4>1
    <3> QED
      BY <2>3, <3>1, <3>2, <3>3, <3>4
  <2> QED
    BY <2>2, <2>3
<1>4. StateType'
  BY <1>1, <1>3 DEF StateType
<1>5. OwnChild' /\ OneChildPerBlock'
  BY <1>1 DEF StateType, OwnChild, OneChildPerBlock
<1>6. ASSUME NEW i \in Block \ {p[1]}
      PROVE  /\ fork_pid[i] # p
             /\ fork_pid[i] # NoPid => child'[fork_pid[i]] = child[fork_pid[i]]
             /\ pipe'[i] = pipe[i]
  <2>1. fork_pid[i] # p /\ pipe'[i] = pipe[i]
    BY <1>1, <1>3 DEF OwnChild, StateType
  <2>2. fork_pid[i] # NoPid => fork_pid[i] \in Pid
    BY DEF StateType
  <2> QED
    BY <2>1, <2>2 DEF StateType
<1>7. child'[p] = r /\ pipe'[p[1]] = s
  BY <1>1, <1>3 DEF StateType
<1>8. r.st \in {"wrote", "dead"} \/ (child[p].st # "wrote" /\ s = <<>>)
  BY <1>2, <1>3
<1>9. PipeBelongsToChild'
  <2> SUFFICES ASSUME NEW i \in Block, pipe'[i] # <<>>
               PROVE  /\ Len(pipe'[i]) = 1
                      /\ fork_pid[i] # NoPid
                      /\ child'[fork_pid[i]].st \in {"wrote", "dead"}
    BY DEF PipeBelongsToChild
  <2>1. CASE i = p[1]
    BY <1>1, <1>3, <1>7, <1>8, <2>1 DEF PipeBelongsToChild
  <2>2. CASE i # p[1]
    BY <1>6, <2>2 DEF PipeBelongsToChild
  <2> QED
    BY <2>1, <2>2
<1>10. \A i \in active : pipe[i] # <<>> => pipe'[i] # <<>>
  BY <1>3, <1>6, <1>7 DEF StateType
<1>11. pc = "wait" => FirstActive \in active /\ FirstActive \in Block
  BY FirstActiveInSet DEF StateType, SnapshotStaysValid
<1>12. FirstActive' = FirstActive
  BY DEF FirstActive
<1>13. pc = "wait" => /\ child'[fork_pid[FirstActive]].st \in {"wrote", "dead"}
                      /\ pipe'[FirstActive] = <<>>
  <2> SUFFICES ASSUME pc = "wait"
               PROVE  /\ child'[fork_pid[FirstActive]].st \in {"wrote", "dead"}
                      /\ pipe'[FirstActive] = <<>>
    OBVIOUS
  <2>1. CASE FirstActive = p[1]
    BY <1>1, <1>3, <1>7, <1>8, <1>11, <2>1 DEF SnapshotStaysValid, MessageTaken
  <2>2. CASE FirstActive # p[1]
    BY <1>6, <1>11, <2>2 DEF SnapshotStaysValid, MessageTaken
  <2> QED
    BY <2>1, <2>2
<1>14. SnapshotStaysValid' /\ MessageTaken'
  BY <1>10, <1>12, <1>13 DEF SnapshotStaysValid, MessageTaken
<1> QED
  BY <1>4, <1>5, <1>9, <1>14

LEMMA InitInv == Init => ChildInv
<1> SUFFICES ASSUME Init PROVE ChildInv
  OBVIOUS
<1>1. StateType
  BY DEF Init, StateType, Blank, NoChild, ChildState, Empty
<1>2. OneChildPerBlock
  BY PidParts DEF Init, OneChildPerBlock, NoChild
<1> QED
  BY <1>1, <1>2 DEF ChildInv, Init, OwnChild, PipeBelongsToChild, SnapshotStaysValid, MessageTaken

(* Every step of the process, of its children and of the environment keeps *)
(* the invariant.                                                          *)
LEMMA StepInv == ChildInv /\ [Next]_vars => ChildInv'
<1> SUFFICES ASSUME ChildInv, [Next]_vars PROVE ChildInv'
  OBVIOUS
<1> USE DEF ChildInv
<1>1. CASE Boot
  BY <1>1, FrameKeepsInv DEF Boot, blockVars, envVars, StateType
<1>2. CASE Start
  <2>1. PICK ok \in BOOLEAN : trigger_event(ok) /\ pc' = IF ok THEN "poll" ELSE "exit"
    BY <1>2 DEF Start
  <2>2. DueBlocks \in SUBSET Block
    BY DEF DueBlocks
  <2>3. execute_blocks(DueBlocks, ok)
    BY <2>1 DEF trigger_event
  <2> QED
    BY <1>2, <2>1, <2>2, <2>3, ExecuteKeepsInv DEF Start, envVars
<1>3. CASE watcher_poll
  <2>1. StateType' /\ OwnChild' /\ OneChildPerBlock' /\ PipeBelongsToChild'
    BY <1>3 DEF watcher_poll, blockVars, envVars, Readable, StateType, OwnChild,
                OneChildPerBlock, PipeBelongsToChild
  <2>2. SnapshotStaysValid' /\ MessageTaken'
    BY <1>3 DEF watcher_poll, Readable, SnapshotStaysValid, MessageTaken
  <2> QED
    BY <2>1, <2>2
<1>4. CASE ProcessTimer
  <2>1. PICK ok \in BOOLEAN : trigger_event(ok)
    BY <1>4 DEF ProcessTimer
  <2>2. DueBlocks \in SUBSET Block
    BY DEF DueBlocks
  <2> QED
    BY <1>4, <2>1, <2>2, ExecuteKeepsInv DEF ProcessTimer, trigger_event, envVars
<1>5. CASE ProcessRefresh
  BY <1>5, ExecuteKeepsInv DEF ProcessRefresh, envVars
<1>6. CASE ProcessTerm
  BY <1>6, FrameKeepsInv DEF ProcessTerm, blockVars, envVars, StateType
<1>7. ASSUME NEW i \in Block, ProcessBlock(i) PROVE ChildInv'
  BY <1>7, ExecuteKeepsInv DEF ProcessBlock, envVars
<1>8. CASE block_read
  <2> DEFINE f == FirstActive
  <2>1. f \in active /\ f \in Block /\ pipe[f] # <<>> /\ f' = f
    BY <1>8, FirstActiveInSet DEF block_read, StateType, SnapshotStaysValid, FirstActive
  <2>2. /\ Len(pipe[f]) = 1
        /\ fork_pid[f] # NoPid
        /\ child[fork_pid[f]].st \in {"wrote", "dead"}
    BY <2>1 DEF PipeBelongsToChild
  <2>3. pipe[f][1] \in Int
    BY <2>1, <2>2 DEF StateType
  <2>4. StateType'
    BY <1>8, <2>1, <2>3 DEF block_read, StateType, blockVars, envVars
  <2>5. OwnChild' /\ OneChildPerBlock' /\ PipeBelongsToChild'
    BY <1>8, <2>1 DEF block_read, blockVars, StateType, OwnChild, OneChildPerBlock,
                      PipeBelongsToChild
  <2>6. SnapshotStaysValid' /\ MessageTaken'
    BY <1>8, <2>1, <2>2 DEF block_read, blockVars, StateType, SnapshotStaysValid, MessageTaken
  <2> QED
    BY <2>4, <2>5, <2>6
<1>9. CASE block_wait
  <2> DEFINE f == FirstActive
             p == fork_pid[f]
  <2>1. /\ f \in active /\ f \in Block
        /\ p \in Pid /\ p[1] = f /\ child[p].st = "dead"
        /\ pipe[f] = <<>> /\ \A j \in active \ {f} : pipe[j] # <<>>
    BY <1>9, FirstActiveInSet
       DEF block_wait, StateType, SnapshotStaysValid, MessageTaken, OwnChild
  <2>2. /\ child' = [child EXCEPT ![p] = NoChild]
        /\ fork_pid' = [fork_pid EXCEPT ![f] = NoPid]
        /\ active' = active \ {f}
        /\ pc' = "update" /\ pipe' = pipe /\ world' = world /\ buffer' = Empty
        /\ output' = IF child[p].status = 0 THEN [output EXCEPT ![f] = buffer] ELSE output
    BY <1>9 DEF block_wait
  <2>3. StateType'
    BY <2>1, <2>2 DEF StateType, NoChild, ChildState, Empty
  <2>4. OwnChild'
    BY <2>1, <2>2 DEF StateType, OwnChild
  <2>5. OneChildPerBlock'
    BY <2>1, <2>2, PidParts DEF StateType, OneChildPerBlock, NoChild
  <2>6. PipeBelongsToChild'
    <3> SUFFICES ASSUME NEW i \in Block, pipe[i] # <<>>
                 PROVE  /\ Len(pipe[i]) = 1
                        /\ fork_pid'[i] # NoPid
                        /\ child'[fork_pid'[i]].st \in {"wrote", "dead"}
      BY <2>2 DEF PipeBelongsToChild
    <3>1. i # f /\ fork_pid'[i] = fork_pid[i] /\ fork_pid[i] \in Pid /\ fork_pid[i][1] = i
      BY <2>1, <2>2 DEF StateType, OwnChild, PipeBelongsToChild
    <3> QED
      BY <2>1, <2>2, <3>1 DEF StateType, PipeBelongsToChild
  <2>7. SnapshotStaysValid' /\ MessageTaken'
    BY <2>1, <2>2 DEF SnapshotStaysValid, MessageTaken
  <2> QED
    BY <2>3, <2>4, <2>5, <2>6, <2>7
<1>10. CASE status_update
  BY <1>10, FrameKeepsInv DEF status_update, blockVars, envVars, StateType
<1>11. CASE Deinit
  BY <1>11, FrameKeepsInv DEF Deinit, blockVars, envVars, StateType
<1>12. ASSUME NEW p \in Pid, Child(p) PROVE ChildInv'
  <2>1. child[p] \in ChildState /\ p[1] \in Block
    BY PidParts DEF StateType
  <2>2. CASE ChildSample(p)
    <3> DEFINE r == [child[p] EXCEPT !.st = "sampled", !.val = world[p[1]]]
    <3>1. child' = [child EXCEPT ![p] = r]
      BY <2>2 DEF ChildSample, StateType
    <3>2. r \in ChildState /\ r.st = "sampled"
      <4>1. world[p[1]] \in Int
        BY <2>1 DEF StateType
      <4> QED
        BY <2>1, <4>1 DEF ChildState
    <3> HIDE DEF r
    <3> QED
      BY <2>2, <3>1, <3>2, ChildKeepsInv DEF ChildSample, blockVars, envVars
  <2>3. CASE ChildWrite(p)
    <3> DEFINE r == [st |-> "wrote", val |-> Empty, status |-> 0]
    <3>1. child' = [child EXCEPT ![p] = r]
      BY <2>3 DEF ChildWrite
    <3>2. r \in ChildState /\ r.st = "wrote"
      BY DEF ChildState, Empty
    <3>3. child[p].val \in Int
      BY <2>1 DEF ChildState
    <3> HIDE DEF r
    <3> QED
      BY <2>3, <3>1, <3>2, <3>3, ChildKeepsInv DEF ChildWrite, blockVars, envVars
  <2>4. CASE ChildFail(p)
    <3> DEFINE r == [st |-> "wrote", val |-> Empty, status |-> 1]
    <3>1. child' = [child EXCEPT ![p] = r]
      BY <2>4 DEF ChildFail
    <3>2. r \in ChildState /\ r.st = "wrote" /\ Empty \in Int
      BY DEF ChildState, Empty
    <3> HIDE DEF r
    <3> QED
      BY <2>4, <3>1, <3>2, ChildKeepsInv DEF ChildFail, blockVars, envVars
  <2>5. CASE ChildExit(p)
    <3> DEFINE r == [child[p] EXCEPT !.st = "dead"]
    <3>1. child' = [child EXCEPT ![p] = r]
      BY <2>5 DEF ChildExit, StateType
    <3>2. r \in ChildState /\ r.st = "dead"
      BY <2>1 DEF ChildState
    <3> HIDE DEF r
    <3> QED
      BY <2>5, <3>1, <3>2, ChildKeepsInv DEF ChildExit, blockVars, envVars
  <2> QED
    BY <1>12, <2>2, <2>3, <2>4, <2>5 DEF Child
<1>13. CASE AlarmFires \/ SendRefresh \/ SendTerm
  BY <1>13, FrameKeepsInv
     DEF AlarmFires, SendRefresh, SendTerm, blockVars, envVars, StateType
<1>14. ASSUME NEW i \in Block, Change(i) \/ SilentChange(i) PROVE ChildInv'
  <2>1. world' = [world EXCEPT ![i] = @ + 1]
    BY <1>14 DEF Change, SilentChange
  <2>2. world' \in [Block -> Nat]
    BY <2>1 DEF StateType
  <2>3. pc' \in {pc, "terminated"}
    BY <1>14 DEF Change, SilentChange
  <2> QED
    BY <1>14, <2>2, <2>3, FrameKeepsInv DEF Change, SilentChange, blockVars, StateType
<1>15. ASSUME NEW p \in Pid, KillChild(p) PROVE ChildInv'
  <2> DEFINE r == [st |-> "dead", val |-> Empty, status |-> 9]
  <2>1. child' = [child EXCEPT ![p] = r] /\ child[p].st \in {"running", "sampled", "wrote"}
    BY <1>15 DEF KillChild, Live
  <2>2. r \in ChildState /\ r.st = "dead"
    BY DEF ChildState, Empty
  <2> HIDE DEF r
  <2> QED
    BY <1>15, <2>1, <2>2, ChildKeepsInv DEF KillChild, blockVars, envVars
<1>16. CASE UNCHANGED vars
  BY <1>16, FrameKeepsInv DEF vars, blockVars, envVars, StateType
<1> QED
  BY <1>1, <1>2, <1>3, <1>4, <1>5, <1>6, <1>7, <1>8, <1>9, <1>10, <1>11, <1>12, <1>13,
     <1>14, <1>15, <1>16
     DEF Next, Main, Environment, Terminated

THEOREM ChildInvHolds == Spec => []ChildInv
BY InitInv, StepInv, PTL DEF Spec

(* No interleaving gives a block a second child, or makes it forget one.   *)
THEOREM OneChildPerBlockHolds == Spec => []OneChildPerBlock
<1>1. ChildInv => OneChildPerBlock
  BY DEF ChildInv
<1> QED
  BY <1>1, ChildInvHolds, PTL

(* What is in a pipe is the one message of the block's own child.          *)
THEOREM PipeBelongsToChildHolds == Spec => []PipeBelongsToChild
<1>1. ChildInv => PipeBelongsToChild
  BY DEF ChildInv
<1> QED
  BY <1>1, ChildInvHolds, PTL

(* Neither read() nor waitpid() can block the event loop for ever.         *)
THEOREM SnapshotStaysValidHolds == Spec => []SnapshotStaysValid
<1>1. ChildInv => SnapshotStaysValid
  BY DEF ChildInv
<1> QED
  BY <1>1, ChildInvHolds, PTL

-----------------------------------------------------------------------------
(* A message m is not older than the output it will replace. *)
MsgFresh(i, m) == output[i] <= m /\ m <= world[i]

(* Where a successful child's sample is on its way to block->output: in    *)
(* the child, in the pipe, in the buffer of block_update.                  *)
Fresh ==
    /\ \A i \in Block : output[i] <= world[i]
    /\ \A p \in Pid : child[p].st = "sampled" => MsgFresh(p[1], child[p].val)
    /\ \A p \in Pid : (child[p].st \in {"wrote", "dead"} /\ child[p].status = 0) =>
           IF pc = "wait" /\ p[1] = FirstActive
              THEN MsgFresh(p[1], buffer)
              ELSE pipe[p[1]] # <<>> /\ MsgFresh(p[1], pipe[p[1]][1])

LEMMA InitFresh == Init => Fresh
BY PidParts DEF Init, Fresh, Blank, Empty, NoChild

(* A step that moves no message. *)
LEMMA FreshFrame ==
    ASSUME StateType, Fresh, UNCHANGED <<pipe, buffer, output>>,
           \/ pc # "wait" /\ pc' # "wait"
           \/ pc' = pc /\ active' = active,
           world' \in [Block -> Nat], \A i \in Block : world[i] <= world'[i],
           \A p \in Pid : \/ child'[p] = child[p]
                          \/ child'[p].st \in {"none", "running"}
                          \/ child'[p].st = "dead" /\ child'[p].status = 9
    PROVE  Fresh'
<1>1. \A i \in Block, m \in Int : MsgFresh(i, m) => MsgFresh(i, m)'
  BY DEF MsgFresh, StateType
<1>2. \A i \in Block : output'[i] <= world'[i]
  BY DEF StateType, Fresh
<1>3. ASSUME NEW p \in Pid, child'[p].st = "sampled" PROVE MsgFresh(p[1], child[p].val)'
  <2>1. child'[p] = child[p] /\ p[1] \in Block
    BY <1>3, PidParts
  <2>2. child[p].val \in Int
    BY DEF StateType, ChildState
  <2> QED
    BY <1>1, <1>3, <2>1, <2>2 DEF Fresh
<1>4. ASSUME NEW p \in Pid, child'[p].st \in {"wrote", "dead"}, child'[p].status = 0
      PROVE  IF pc' = "wait" /\ p[1] = FirstActive'
                THEN MsgFresh(p[1], buffer)'
                ELSE pipe'[p[1]] # <<>> /\ MsgFresh(p[1], pipe[p[1]][1])'
  <2>1. child'[p] = child[p] /\ p[1] \in Block
    BY <1>4, PidParts
  <2>2. (pc' = "wait" /\ p[1] = FirstActive') <=> (pc = "wait" /\ p[1] = FirstActive)
    BY DEF FirstActive
  <2>3. pipe[p[1]] # <<>> => pipe[p[1]][1] \in Int
    BY <2>1 DEF StateType
  <2>4. IF pc = "wait" /\ p[1] = FirstActive
           THEN MsgFresh(p[1], buffer)
           ELSE pipe[p[1]] # <<>> /\ MsgFresh(p[1], pipe[p[1]][1])
    BY <1>4, <2>1 DEF Fresh
  <2>5. buffer \in Int
    BY DEF StateType
  <2> QED
    BY <1>1, <2>1, <2>2, <2>3, <2>4, <2>5
<1> QED
  BY <1>2, <1>3, <1>4 DEF Fresh

LEMMA ExecuteKeepsFresh ==
    ASSUME ChildInv, Fresh, NEW due \in SUBSET Block, NEW ok \in BOOLEAN,
           execute_blocks(due, ok), pc # "wait", pc' # "wait",
           UNCHANGED <<pipe, buffer, output, world>>
    PROVE  Fresh'
<1>1. PICK S \in SUBSET Block : (\A i \in S : Idle(i)) /\ block_execute(S)
  BY DEF execute_blocks
<1>2. \A p \in Pid : child'[p] = child[p] \/ child'[p].st \in {"none", "running"}
  BY <1>1, ExecuteKeepsChildren DEF NewChild
<1>3. world' \in [Block -> Nat] /\ \A i \in Block : world[i] <= world'[i]
  BY DEF ChildInv, StateType
<1> QED
  BY <1>2, <1>3, FreshFrame DEF ChildInv

(* No step of the process or of a child loses or reorders samples.         *)
LEMMA StepFresh ==
    ASSUME ChildInv, Fresh, [Next]_vars
    PROVE  Fresh' /\ \A i \in Block : output'[i] >= output[i]
<1> USE DEF ChildInv
<1> DEFINE Grows == \A i \in Block : output'[i] >= output[i]
<1>0. /\ \A i \in Block : world[i] <= world[i]
      /\ output' = output => Grows
      /\ world' = world => world' \in [Block -> Nat]
  BY DEF StateType
<1>1. CASE Boot
  BY <1>0, <1>1, FreshFrame DEF Boot, blockVars, envVars
<1>2. CASE Start
  <2>1. PICK ok \in BOOLEAN : trigger_event(ok) /\ pc' = IF ok THEN "poll" ELSE "exit"
    BY <1>2 DEF Start
  <2>2. DueBlocks \in SUBSET Block /\ execute_blocks(DueBlocks, ok)
    BY <2>1 DEF DueBlocks, trigger_event
  <2> QED
    BY <1>0, <1>2, <2>1, <2>2, ExecuteKeepsFresh DEF Start, envVars
<1>3. CASE watcher_poll
  BY <1>0, <1>3, FreshFrame DEF watcher_poll, blockVars, envVars
<1>4. CASE ProcessTimer
  <2>1. PICK ok \in BOOLEAN : trigger_event(ok)
    BY <1>4 DEF ProcessTimer
  <2>2. DueBlocks \in SUBSET Block /\ execute_blocks(DueBlocks, ok)
    BY <2>1 DEF DueBlocks, trigger_event
  <2> QED
    BY <1>0, <1>4, <2>1, <2>2, ExecuteKeepsFresh DEF ProcessTimer, envVars
<1>5. CASE ProcessRefresh
  BY <1>0, <1>5, ExecuteKeepsFresh DEF ProcessRefresh, envVars
<1>6. CASE ProcessTerm
  BY <1>0, <1>6, FreshFrame DEF ProcessTerm, blockVars, envVars
<1>7. ASSUME NEW i \in Block, ProcessBlock(i) PROVE Fresh' /\ Grows
  BY <1>0, <1>7, ExecuteKeepsFresh DEF ProcessBlock, envVars
<1>8. CASE block_read
  <2> DEFINE f == FirstActive
  <2>1. /\ f \in Block /\ f' = f /\ pipe[f] # <<>> /\ pipe \in [Block -> Seq(Int)]
        /\ pc = "update" /\ pc' = "wait" /\ buffer' = pipe[f][1]
        /\ pipe' = [pipe EXCEPT ![f] = <<>>]
        /\ child' = child /\ world' = world /\ output' = output
    BY <1>8, FirstActiveInSet
       DEF block_read, StateType, SnapshotStaysValid, FirstActive, blockVars, envVars
  <2> HIDE DEF f
  <2>2. ASSUME NEW p \in Pid, child[p].st \in {"wrote", "dead"}, child[p].status = 0
        PROVE  IF p[1] = f
                  THEN MsgFresh(p[1], buffer)'
                  ELSE pipe'[p[1]] # <<>> /\ MsgFresh(p[1], pipe[p[1]][1])'
    BY <2>1, <2>2, PidParts DEF Fresh, MsgFresh
  <2>3. Fresh'
    BY <2>1, <2>2 DEF Fresh, MsgFresh, f
  <2> QED
    BY <1>0, <2>1, <2>3
<1>9. CASE block_wait
  <2> DEFINE f == FirstActive
             p == fork_pid[f]
  <2>1. /\ f \in active /\ f \in Block /\ p \in Pid /\ p[1] = f /\ child[p].st = "dead"
    BY <1>9, FirstActiveInSet DEF block_wait, StateType, SnapshotStaysValid, OwnChild
  <2>2. /\ child' = [child EXCEPT ![p] = NoChild] /\ pc = "wait" /\ pc' = "update"
        /\ pipe' = pipe /\ world' = world /\ buffer' = Empty
        /\ output' = IF child[p].status = 0 THEN [output EXCEPT ![f] = buffer] ELSE output
    BY <1>9 DEF block_wait
  <2>3. child[p].status = 0 => MsgFresh(f, buffer)
    BY <2>1, <2>2 DEF Fresh
  <2>4. /\ \A i \in Block \ {f} : output'[i] = output[i]
        /\ output[f] <= output'[f] /\ output'[f] <= world[f]
    BY <2>1, <2>2, <2>3 DEF StateType, Fresh, MsgFresh
  <2>5. \A c \in Pid : child'[c].st # "none" => c # p /\ child'[c] = child[c] /\ c[1] # f
    BY <2>1, <2>2 DEF OneChildPerBlock, StateType, NoChild
  <2> HIDE DEF f, p
  <2>6. ASSUME NEW c \in Pid, child'[c].st = "sampled" PROVE MsgFresh(c[1], child[c].val)'
    BY <2>2, <2>4, <2>5, <2>6, PidParts DEF Fresh, MsgFresh
  <2>7. ASSUME NEW c \in Pid, child'[c].st \in {"wrote", "dead"}, child'[c].status = 0
        PROVE  pipe'[c[1]] # <<>> /\ MsgFresh(c[1], pipe[c[1]][1])'
    BY <2>2, <2>4, <2>5, <2>7, PidParts DEF Fresh, MsgFresh, f
  <2>8. \A i \in Block : output'[i] <= world'[i] /\ output'[i] >= output[i]
    BY <2>1, <2>2, <2>4 DEF Fresh, StateType
  <2> QED
    BY <2>2, <2>6, <2>7, <2>8 DEF Fresh
<1>10. CASE status_update
  BY <1>0, <1>10, FreshFrame DEF status_update, blockVars, envVars
<1>11. CASE Deinit
  BY <1>0, <1>11, FreshFrame DEF Deinit, blockVars, envVars
<1>13. CASE AlarmFires \/ SendRefresh \/ SendTerm
  BY <1>0, <1>13, FreshFrame DEF AlarmFires, SendRefresh, SendTerm, blockVars, envVars
<1>14. ASSUME NEW i \in Block, Change(i) \/ SilentChange(i) PROVE Fresh' /\ Grows
  <2>1. world' = [world EXCEPT ![i] = @ + 1] /\ pc' \in {pc, "terminated"}
        /\ (pc = "boot" \/ pc' = pc)
    BY <1>14 DEF Change, SilentChange
  <2>2. world' \in [Block -> Nat] /\ \A j \in Block : world[j] <= world'[j]
    BY <2>1 DEF StateType
  <2> QED
    BY <1>0, <1>14, <2>1, <2>2, FreshFrame DEF Change, SilentChange, blockVars
<1>15. ASSUME NEW p \in Pid, KillChild(p) PROVE Fresh' /\ Grows
  <2>1. \A c \in Pid : \/ child'[c] = child[c]
                       \/ child'[c].st = "dead" /\ child'[c].status = 9
    BY <1>15 DEF KillChild, StateType
  <2> QED
    BY <1>0, <1>15, <2>1, FreshFrame DEF KillChild, blockVars
<1>16. CASE UNCHANGED vars
  BY <1>0, <1>16, FreshFrame DEF vars, blockVars, envVars
<1>12. ASSUME NEW p \in Pid, Child(p) PROVE Fresh' /\ Grows
  <2> DEFINE b == p[1]
  <2>1. /\ b \in Block /\ fork_pid[b] = p /\ pc' = pc /\ active' = active
        /\ output' = output /\ world' = world /\ buffer' = buffer
        /\ child[p].st \in {"running", "sampled", "wrote"}
    BY <1>12, PidParts
       DEF Child, ChildSample, ChildWrite, ChildFail, ChildExit, blockVars, envVars,
           OneChildPerBlock
  <2>2. \A c \in Pid \ {p} : child'[c] = child[c] /\ (child[c].st # "none" => c[1] # b)
    BY <1>12, <2>1
       DEF Child, ChildSample, ChildWrite, ChildFail, ChildExit, StateType, OneChildPerBlock
  <2>3. \A i \in Block \ {b} : pipe'[i] = pipe[i]
    BY <1>12, <2>1 DEF Child, ChildSample, ChildWrite, ChildFail, ChildExit, StateType
  <2>4. child'[p].st = "sampled" => MsgFresh(b, child'[p].val)
    <3>1. CASE ChildSample(p)
      <4>1. world[b] \in Nat /\ output[b] \in Int /\ output[b] <= world[b]
        BY <2>1 DEF StateType, Fresh
      <4>2. child'[p].val = world[b]
        BY <3>1 DEF ChildSample, StateType, ChildState
      <4> QED
        BY <4>1, <4>2 DEF MsgFresh
    <3>2. CASE ChildWrite(p)
      BY <3>2 DEF ChildWrite, StateType
    <3>3. CASE ChildFail(p) \/ ChildExit(p)
      BY <3>3 DEF ChildFail, ChildExit, StateType, ChildState
    <3> QED
      BY <1>12, <3>1, <3>2, <3>3 DEF Child
  <2>5. pc = "wait" /\ b = FirstActive => child[p].st = "wrote"
    BY <2>1 DEF SnapshotStaysValid
  <2>6. (child'[p].st \in {"wrote", "dead"} /\ child'[p].status = 0) =>
           IF pc = "wait" /\ b = FirstActive
              THEN MsgFresh(b, buffer)
              ELSE pipe'[b] # <<>> /\ MsgFresh(b, pipe'[b][1])
    <3>1. CASE ChildSample(p) \/ ChildFail(p)
      <4>1. child'[p].st = "sampled" \/ child'[p].status = 1
        BY <3>1 DEF ChildSample, ChildFail, StateType, ChildState
      <4> QED
        BY <4>1
    <3>2. CASE ChildExit(p)
      BY <2>1, <3>2 DEF ChildExit, StateType, Fresh
    <3>3. CASE ChildWrite(p)
      <4>1. /\ child[p].st = "sampled" /\ MsgFresh(b, child[p].val) /\ child[p].val \in Int
            /\ pipe'[b] = Append(pipe[b], child[p].val)
        BY <2>1, <3>3 DEF ChildWrite, StateType, ChildState, Fresh
      <4>2. pipe[b] = <<>>
        BY <2>1, <4>1 DEF PipeBelongsToChild
      <4>3. pipe'[b] = <<child[p].val>>
        BY <4>1, <4>2
      <4> QED
        BY <2>5, <4>1, <4>3
    <3> QED
      BY <1>12, <3>1, <3>2, <3>3 DEF Child
  <2>7. FirstActive' = FirstActive
    BY <2>1 DEF FirstActive
  <2> HIDE DEF b
  <2>8. ASSUME NEW c \in Pid, child'[c].st = "sampled" PROVE MsgFresh(c[1], child[c].val)'
    BY <2>1, <2>2, <2>4, <2>8 DEF Fresh, MsgFresh, b
  <2>9. ASSUME NEW c \in Pid, child'[c].st \in {"wrote", "dead"}, child'[c].status = 0
        PROVE  IF pc' = "wait" /\ c[1] = FirstActive'
                  THEN MsgFresh(c[1], buffer)'
                  ELSE pipe'[c[1]] # <<>> /\ MsgFresh(c[1], pipe[c[1]][1])'
    <3>1. CASE c = p
      BY <2>1, <2>6, <2>7, <2>9, <3>1 DEF MsgFresh, b
    <3>2. CASE c # p
      BY <2>1, <2>2, <2>3, <2>7, <2>9, <3>2, PidParts DEF Fresh, MsgFresh
    <3> QED
      BY <3>1, <3>2
  <2> QED
    BY <1>0, <2>1, <2>8, <2>9 DEF Fresh
<1> QED
  BY <1>1, <1>2, <1>3, <1>4, <1>5, <1>6, <1>7, <1>8, <1>9, <1>10, <1>11, <1>12, <1>13,
     <1>14, <1>15, <1>16
     DEF Next, Main, Environment, Terminated

(* An output is never replaced by an earlier sample of the block's value.  *)
THEOREM OutputNeverGoesBackHolds == Spec => OutputNeverGoesBack
<1>1. ChildInv /\ Fresh /\ [Next]_vars => (ChildInv /\ Fresh)'
  BY StepInv, StepFresh
<1>2. ChildInv /\ Fresh /\ [Next]_vars => [\A i \in Block : output'[i] >= output[i]]_vars
  BY StepFresh
<1> QED
  BY <1>1, <1>2, InitInv, InitFresh, PTL DEF Spec, OutputNeverGoesBack

-----------------------------------------------------------------------------
(* The timer and what only the type invariant needs. *)
RestType ==
    /\ time \in 0..ResetValue
    /\ alarm \in BOOLEAN
    /\ pending \in SUBSET Standard
    /\ rt \in [Block -> Nat]
    /\ alive \in BOOLEAN
    /\ current \in [Block -> Int]
    /\ root_name \in [Block -> Int] \cup {NoName}
    /\ refreshes \in Nat
    /\ killed \in SUBSET Pid

LEMMA TimerTypes == Tick \in Nat /\ ResetValue \in Nat \ {0}
<1>1. N \in Nat /\ Interval \in [1..N -> Nat]
  BY BlocksAssumption DEF Block
<1> QED
  BY <1>1, TickCorrect, ResetValueBounds DEF Tick, ResetValue

LEMMA InitRest == Init => RestType
<1> SUFFICES ASSUME Init PROVE RestType
  OBVIOUS
<1>1. time \in 0..ResetValue
  BY TimerTypes DEF Init
<1>2. current \in [Block -> Int] /\ rt \in [Block -> Nat]
  BY DEF Init, Blank, Empty
<1> QED
  BY <1>1, <1>2 DEF Init, RestType

LEMMA TriggerRest ==
    ASSUME RestType, NEW ok \in BOOLEAN, trigger_event(ok)
    PROVE  time' \in 0..ResetValue /\ alarm' \in BOOLEAN
<1>1. CASE ok
  <2>1. alarm' = (Tick > 0) /\ time' = (time + Tick) % ResetValue
    BY <1>1 DEF trigger_event, timer_arm
  <2>2. time + Tick \in Nat /\ ResetValue \in Nat \ {0}
    BY TimerTypes DEF RestType
  <2>3. (time + Tick) % ResetValue \in 0..(ResetValue-1)
    BY <2>2, ModBound
  <2>4. (Tick > 0) \in BOOLEAN
    OBVIOUS
  <2>5. time' \in 0..ResetValue
    BY <2>1, <2>2, <2>3
  <2> QED
    BY <2>1, <2>4, <2>5
<1>2. CASE ~ok
  BY <1>2 DEF trigger_event, timerVars, RestType
<1> QED
  BY <1>1, <1>2

LEMMA StepRest == ChildInv /\ RestType /\ [Next]_vars => RestType'
<1> SUFFICES ASSUME ChildInv, RestType, [Next]_vars PROVE RestType'
  OBVIOUS
<1> USE DEF RestType
<1>1. CASE Boot \/ Deinit \/ watcher_poll \/ block_read
  BY <1>1 DEF Boot, Deinit, watcher_poll, block_read, timerVars, signalVars, statusVars, envVars
<1>2. CASE Start
  <2>1. PICK ok \in BOOLEAN : trigger_event(ok)
    BY <1>2 DEF Start
  <2> QED
    BY <1>2, <2>1, TriggerRest DEF Start, signalVars, statusVars, envVars
<1>3. CASE ProcessTimer
  <2>1. PICK ok \in BOOLEAN : trigger_event(ok) /\ alive' = ok
    BY <1>3 DEF ProcessTimer
  <2> QED
    BY <1>3, <2>1, TriggerRest DEF ProcessTimer, statusVars, envVars
<1>4. CASE ProcessRefresh \/ ProcessTerm
  BY <1>4 DEF ProcessRefresh, ProcessTerm, timerVars, statusVars, envVars
<1>5. ASSUME NEW i \in Block, ProcessBlock(i) PROVE RestType'
  BY <1>5 DEF ProcessBlock, timerVars, statusVars, envVars
<1>6. CASE block_wait
  <2>1. killed' \in SUBSET Pid /\ UNCHANGED <<timerVars, signalVars, alive, statusVars, refreshes>>
    BY <1>6 DEF block_wait
  <2> QED
    BY <2>1 DEF timerVars, signalVars, statusVars
<1>7. CASE status_update
  <2>1. output \in [Block -> Int]
    BY DEF ChildInv, StateType
  <2> QED
    BY <1>7, <2>1 DEF status_update, timerVars, signalVars, envVars
<1>8. ASSUME NEW p \in Pid, Child(p) PROVE RestType'
  BY <1>8 DEF Child, ChildSample, ChildWrite, ChildFail, ChildExit, timerVars, signalVars,
              statusVars, envVars
<1>9. CASE AlarmFires \/ SendRefresh \/ SendTerm
  <2>1. \A sig \in Standard : pending \cup {sig} \in SUBSET Standard
    OBVIOUS
  <2>2. pending' \in SUBSET Standard
    <3>1. \E sig \in Standard : pending' = pending \cup {sig}
      BY <1>9 DEF AlarmFires, SendRefresh, SendTerm, Standard
    <3> QED
      BY <2>1, <3>1
  <2>3. /\ time' = time
        /\ alarm' = FALSE \/ alarm' = alarm
        /\ refreshes' = refreshes \/ refreshes' = refreshes + 1
    BY <1>9 DEF AlarmFires, SendRefresh, SendTerm, timerVars, envVars
  <2>4. UNCHANGED <<rt, alive, current, root_name, killed>>
    BY <1>9 DEF AlarmFires, SendRefresh, SendTerm, statusVars, envVars
  <2>5. refreshes' \in Nat
    BY <2>3
  <2>6. alarm' \in BOOLEAN
    BY <2>3
  <2> QED
    BY <2>2, <2>3, <2>4, <2>5, <2>6
<1>10. ASSUME NEW i \in Block, Change(i) \/ SilentChange(i) PROVE RestType'
  BY <1>10 DEF Change, SilentChange, timerVars, signalVars, statusVars
<1>11. ASSUME NEW p \in Pid, KillChild(p) PROVE RestType'
  BY <1>11 DEF KillChild, timerVars, signalVars, statusVars
<1>12. CASE UNCHANGED vars
  BY <1>12 DEF vars, timerVars, signalVars, statusVars, envVars
<1> QED
  BY <1>1, <1>2, <1>3, <1>4, <1>5, <1>6, <1>7, <1>8, <1>9, <1>10, <1>11, <1>12
     DEF Next, Main, Environment, Terminated

(* The variables keep their types; the timer is armed with the tick that   *)
(* compute_tick yields and wraps at a positive reset value.                *)
THEOREM TypeOKHolds == Spec => []TypeOK
<1>1. ChildInv /\ RestType => TypeOK
  BY DEF ChildInv, StateType, RestType, TypeOK
<1> QED
  BY <1>1, InitInv, StepInv, InitRest, StepRest, PTL DEF Spec

-----------------------------------------------------------------------------
(* status.current is what the root window shows while the loop runs, and   *)
(* it is up to date whenever no update round is under way.                 *)
StatusInv ==
    /\ pc \notin {"exit", "terminated"} =>
           root_name = current \/ (root_name = NoName /\ current = Blank)
    /\ pc \in {"boot", "start", "poll", "signal"} => current = output

LEMMA StepStatus == StatusInv /\ [Next]_vars => StatusInv'
<1> SUFFICES ASSUME StatusInv, [Next]_vars PROVE StatusInv'
  OBVIOUS
<1> USE DEF StatusInv
<1>1. CASE Boot \/ Deinit \/ watcher_poll \/ block_read
  BY <1>1 DEF Boot, Deinit, watcher_poll, block_read, blockVars, statusVars
<1>2. CASE Start
  BY <1>2 DEF Start, statusVars
<1>3. CASE ProcessTimer
  BY <1>3 DEF ProcessTimer, statusVars
<1>4. CASE ProcessRefresh \/ ProcessTerm
  BY <1>4 DEF ProcessRefresh, ProcessTerm, statusVars
<1>5. ASSUME NEW i \in Block, ProcessBlock(i) PROVE StatusInv'
  BY <1>5 DEF ProcessBlock, statusVars
<1>6. CASE block_wait
  BY <1>6 DEF block_wait, statusVars
<1>7. CASE status_update
  BY <1>7 DEF status_update, blockVars
<1>8. ASSUME NEW p \in Pid, Child(p) PROVE StatusInv'
  BY <1>8 DEF Child, ChildSample, ChildWrite, ChildFail, ChildExit, blockVars, statusVars
<1>9. CASE AlarmFires \/ SendRefresh \/ SendTerm
  BY <1>9 DEF AlarmFires, SendRefresh, SendTerm, blockVars, statusVars
<1>10. ASSUME NEW i \in Block, Change(i) \/ SilentChange(i) PROVE StatusInv'
  BY <1>10 DEF Change, SilentChange, blockVars, statusVars
<1>11. ASSUME NEW p \in Pid, KillChild(p) PROVE StatusInv'
  BY <1>11 DEF KillChild, blockVars, statusVars
<1>12. CASE UNCHANGED vars
  BY <1>12 DEF vars, blockVars, statusVars
<1> QED
  BY <1>1, <1>2, <1>3, <1>4, <1>5, <1>6, <1>7, <1>8, <1>9, <1>10, <1>11, <1>12
     DEF Next, Main, Environment, Terminated

(* Whenever the process waits, the root window shows the blocks' outputs.  *)
THEOREM RootShowsOutputsHolds == Spec => []RootShowsOutputs
<1>1. Init => StatusInv
  BY DEF Init, StatusInv
<1>2. StatusInv => RootShowsOutputs
  BY DEF StatusInv, RootShowsOutputs
<1> QED
  BY <1>1, <1>2, StepStatus, PTL DEF Spec
-----------------------------------------------------------------------------
(* The schedule of the alarms (BlockSchedule), for every number of blocks  *)
(* and every choice of intervals: the period of the alarm is the greatest  *)
(* common divisor of the intervals, and in a harmonic configuration every  *)
(* block runs exactly at the multiples of its interval.                    *)

(* Facts about \div and % that the prover does not find by itself.         *)
LEMMA DivModUnique ==
    ASSUME NEW b \in Nat \ {0}, NEW q \in Nat, NEW r \in 0..(b-1), NEW a \in Nat, a = b * q + r
    PROVE  a % b = r /\ a \div b = q
<1>1. b \in Int /\ b > 0 /\ q \in Int /\ a \in Int
  OBVIOUS
<1> QED
  BY <1>1, SMTT(30)

LEMMA ModOfMultiple ==
    ASSUME NEW b \in Nat \ {0}, NEW k \in Nat, NEW y \in Nat
    PROVE  (y + b * k) % b = y % b
<1> DEFINE q == y \div b
           r == y % b
<1>1. q \in Nat /\ y = b * q + r /\ r \in 0..(b-1)
  BY DivMod, ModBound
<1> HIDE DEF q, r
<1>2. y + b * k = b * (q + k) + r
  <2>1. b * (q + k) = b * q + b * k /\ b * q \in Nat /\ b * k \in Nat
    BY <1>1
  <2> DEFINE u == b * q
             v == b * k
             w == b * (q + k)
  <2>2. w = u + v /\ u \in Nat /\ v \in Nat /\ y = u + r /\ r \in Nat
    BY <1>1, <2>1
  <2> HIDE DEF u, v, w
  <2>3. y + v = w + r
    BY <2>2
  <2> QED
    BY <2>3 DEF v, w
<1>3. q + k \in Nat /\ y + b * k \in Nat
  BY <1>1
<1>4. r \in 0..(b-1)
  BY <1>1
<1>5. ASSUME NEW a \in Nat, a = b * (q + k) + r PROVE a % b = r
  BY <1>3, <1>4, <1>5, DivModUnique
<1> QED
  BY <1>2, <1>3, <1>5 DEF r

LEMMA ModZeroIsDivides ==
    ASSUME NEW a \in Nat, NEW b \in Nat \ {0}
    PROVE  a % b = 0 <=> DividesNat(b, a)
<1>1. ASSUME a % b = 0 PROVE DividesNat(b, a)
  <2>1. a \div b \in Nat /\ a = b * (a \div b) + (a % b)
    BY DivMod
  <2>2. a = (a \div b) * b
    BY <1>1, <2>1
  <2> QED
    BY <2>1, <2>2 DEF DividesNat
<1>2. ASSUME NEW q \in Nat, a = q * b PROVE a % b = 0
  <2>1. a = b * q + 0 /\ 0 \in 0..(b-1)
    BY <1>2
  <2> QED
    BY <2>1, DivModUnique
<1> QED
  BY <1>1, <1>2 DEF DividesNat
-----------------------------------------------------------------------------
(* timer->time is the elapsed time modulo the longest interval, but for    *)
(* the first event, where it is the longest interval itself.               *)
SchedInv ==
    /\ interval \in [Position -> 0..MaxInterval]
    /\ Harmonic => \A i \in Position : interval[i] # 0 => Reset % interval[i] = 0
    /\ clock \in Nat
    /\ timer_time = IF clock = 0 THEN Reset ELSE clock % Reset

LEMMA ScheduleTypes ==
    ASSUME interval \in [Position -> 0..MaxInterval]
    PROVE  /\ BLOCK_COUNT \in Nat /\ interval \in [1..BLOCK_COUNT -> Nat]
           /\ Period \in Nat /\ Reset \in Nat \ {0}
<1>1. BLOCK_COUNT \in Nat /\ interval \in [1..BLOCK_COUNT -> Nat]
  BY ScheduleAssumption DEF Position
<1> QED
  BY <1>1, TickCorrect, ResetValueBounds DEF Period, Reset

LEMMA SchedInvHolds == ScheduleSpec => []SchedInv
<1>1. ScheduleInit => SchedInv
  BY DEF ScheduleInit, SchedInv
<1>2. SchedInv /\ [ScheduleNext]_scheduleVars => SchedInv'
  <2> SUFFICES ASSUME SchedInv, [ScheduleNext]_scheduleVars PROVE SchedInv'
    OBVIOUS
  <2>1. CASE TriggerEvent
    <3>1. /\ Period \in Nat /\ Period > 0 /\ Reset \in Nat \ {0} /\ clock \in Nat
          /\ interval' = interval /\ clock' = clock + Period
          /\ timer_time' = (timer_time + Period) % Reset
      BY <2>1, ScheduleTypes DEF TriggerEvent, SchedInv, timer_arm
    <3>2. Reset' = Reset
      BY <3>1 DEF Reset
    <3> HIDE DEF Reset, Period
    <3>3. timer_time' = (clock + Period) % Reset
      <4>1. CASE clock = 0
        <5>1. (Period + Reset * 1) % Reset = Period % Reset
          BY <3>1, ModOfMultiple
        <5>2. timer_time = Reset
          BY <4>1 DEF SchedInv
        <5>3. Reset * 1 = Reset /\ clock + Period = Period
          BY <3>1, <4>1
        <5> QED
          BY <3>1, <5>1, <5>2, <5>3
      <4>2. CASE clock # 0
        <5> DEFINE q == clock \div Reset
        <5>1. q \in Nat /\ clock = Reset * q + (clock % Reset)
          BY <3>1, DivMod
        <5> HIDE DEF q
        <5>5. clock % Reset \in Nat
          BY <3>1, ModBound
        <5>2. timer_time = clock % Reset /\ timer_time \in Nat
          BY <4>2, <5>5 DEF SchedInv
        <5>3. clock + Period = (timer_time + Period) + Reset * q
          <6> DEFINE u == Reset * q
          <6>1. u \in Nat /\ clock = u + timer_time
            BY <3>1, <5>1, <5>2
          <6> HIDE DEF u
          <6>2. clock + Period = (timer_time + Period) + u
            BY <3>1, <5>2, <6>1
          <6> QED
            BY <6>2 DEF u
        <5>4. ((timer_time + Period) + Reset * q) % Reset = (timer_time + Period) % Reset
          <6>1. timer_time + Period \in Nat
            BY <3>1, <5>2
          <6> QED
            BY <3>1, <5>1, <6>1, ModOfMultiple
        <5> QED
          BY <3>1, <5>3, <5>4
      <4> QED
        BY <4>1, <4>2
    <3>4. clock + Period # 0 /\ clock' \in Nat
      BY <3>1
    <3> QED
      BY <3>1, <3>2, <3>3, <3>4 DEF SchedInv
  <2>2. CASE UNCHANGED scheduleVars
    BY <2>2 DEF scheduleVars, SchedInv, Reset
  <2> QED
    BY <2>1, <2>2 DEF ScheduleNext
<1> QED
  BY <1>1, <1>2, PTL DEF ScheduleSpec

(* The alarm's period divides every interval, and nothing longer does: a   *)
(* block's turn never falls between two alarms.                            *)
THEOREM TickIsGcdHolds == ScheduleSpec => []TickIsGcd
<1>1. SchedInv => TickIsGcd
  <2> SUFFICES ASSUME SchedInv, Period > 0
               PROVE  /\ \A i \in Position : Divides(Period, interval[i])
                      /\ \A d \in 1..MaxInterval :
                            (\A i \in Position : Divides(d, interval[i])) => d <= Period
    BY DEF TickIsGcd
  <2>1. /\ BLOCK_COUNT \in Nat /\ interval \in [1..BLOCK_COUNT -> Nat] /\ Period \in Nat
        /\ \A i \in Position : DividesNat(Period, interval[i])
        /\ \A d \in Nat : (\A i \in Position : DividesNat(d, interval[i])) => DividesNat(d, Period)
    BY ScheduleTypes, TickCorrect DEF SchedInv, Period, Position
  <2>2. ASSUME NEW d \in Nat \ {0}, NEW n \in Nat
        PROVE  DividesNat(d, n) <=> Divides(d, n)
    <3>1. \A q \in Nat : n = q * d => q <= n
      BY SMTT(30)
    <3> QED
      BY <3>1 DEF DividesNat, Divides
  <2> HIDE DEF Period
  <2>3. \A i \in Position : Divides(Period, interval[i])
    BY <2>1, <2>2 DEF Position
  <2>4. ASSUME NEW d \in 1..MaxInterval, \A i \in Position : Divides(d, interval[i])
        PROVE  d <= Period
    <3>1. d \in Nat \ {0}
      BY ScheduleAssumption
    <3>2. DividesNat(d, Period)
      BY <2>1, <2>2, <2>4, <3>1 DEF Position
    <3>3. PICK q \in Nat : Period = q * d
      BY <3>2 DEF DividesNat
    <3>4. q >= 1
      BY <2>1, <3>1, <3>3
    <3> QED
      BY <3>1, <3>3, <3>4, SMTT(30)
  <2> QED
    BY <2>3, <2>4
<1> QED
  BY <1>1, SchedInvHolds, PTL

(* In a harmonic configuration the blocks that an alarm runs are those     *)
(* whose interval divides the elapsed seconds, for ever.                   *)
THEOREM OnScheduleHolds == ScheduleSpec => []OnSchedule
<1>1. SchedInv => OnSchedule
  <2> SUFFICES ASSUME SchedInv, Harmonic, clock > 0, NEW i \in Position
               PROVE  Due(i) <=> (interval[i] # 0 /\ clock % interval[i] = 0)
    BY DEF OnSchedule
  <2>1. Reset \in Nat \ {0} /\ clock \in Nat /\ timer_time = clock % Reset /\ interval[i] \in Nat
    BY ScheduleTypes DEF SchedInv, Position
  <2>2. timer_time \in 0..(Reset - 1) /\ timer_time \in Nat
    BY <2>1, ModBound
  <2>3. CASE interval[i] = 0
    BY <2>1, <2>2, <2>3 DEF Due, timer_must_run_block
  <2>4. CASE interval[i] # 0
    <3>1. interval[i] \in Nat \ {0} /\ Reset % interval[i] = 0
      BY <2>1, <2>4 DEF SchedInv
    <3>2. DividesNat(interval[i], Reset)
      BY <2>1, <3>1, ModZeroIsDivides
    <3>3. DividesNat(interval[i], timer_time) <=> DividesNat(interval[i], clock)
      BY <2>1, <3>1, <3>2, DividesSum, DividesRest
    <3>4. timer_time % interval[i] = 0 <=> clock % interval[i] = 0
      BY <2>1, <2>2, <3>1, <3>3, ModZeroIsDivides
    <3> QED
      BY <2>1, <2>2, <2>4, <3>4 DEF Due, timer_must_run_block
  <2> QED
    BY <2>3, <2>4
<1> QED
  BY <1>1, SchedInvHolds, PTL
=============================================================================
