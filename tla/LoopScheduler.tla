--------------------------- MODULE LoopScheduler ---------------------------
(***************************************************************************)
(* The microbatch loop scheduler, src/src/pjrt_client/loop_scheduler.cc.   *)
(*                                                                         *)
(* A microbatch loop of num_iterations iterations, whose body calls        *)
(* `stages' tasks, is unrolled into tasks[iter][stage].  ScheduleLoops     *)
(* returns rows of tasks; MpmdLoopUnroll (module LoopUnroll) turns the     *)
(* order of each row into control dependencies.  A task is the pair        *)
(* <<iter, stage>>, both counted from 0 as in the code.  Every push_back   *)
(* is one step; the steps of one nested loop share the counters outer and  *)
(* inner.                                                                  *)
(***************************************************************************)
EXTENDS Integers, Sequences, FiniteSets

CONSTANTS
  Configs,       \* the loops to schedule, see IsLoopConfig
  DeviceLists,   \* the device lists (zuku::DeviceList) tasks are placed on
  AllDevices,    \* the list with partition.TotalDevices() devices
  Names          \* the task names a custom schedule may use

Schedules == {"FillDrain", "1F1B", "Wavefront", "PrefetchWavefront",
              "ZeroBubbleH2", "Custom"}

(***************************************************************************)
(* A loop to schedule: LoopConfig and what the schedulers read of the      *)
(* partition.  num_stages = 0 is the absent option.  devices gives the list*)
(* of each task (a loop dependent submesh changes with the iteration);     *)
(* increment and noncritical are the stages whose color satisfies          *)
(* IsLoopIncrementColor and IsNonCritical; partner is the largest critical *)
(* stage that a stage consumes, 0 if none; color is the set of names that  *)
(* the color of a stage contains (absl::StrContains).                      *)
(***************************************************************************)
IsLoopConfig(c) ==
  /\ c.schedule \in Schedules
  /\ c.num_iterations \in Nat \ {0}
  /\ c.num_stages \in Nat
  /\ c.stages \in Nat \ {0}
  /\ c.devices \in [0 .. c.num_iterations - 1 ->
                      [0 .. c.stages - 1 -> DeviceLists]]
  /\ c.increment \subseteq 0 .. c.stages - 1
  /\ c.noncritical \subseteq 0 .. c.stages - 1
  /\ c.partner \in [0 .. c.stages - 1 -> 0 .. c.stages - 1]
  /\ c.color \in [0 .. c.stages - 1 -> SUBSET Names]
  /\ c.custom_schedule \in Seq(Seq(Nat \X Names)) \ {<< >>}

ASSUME ConfigsAssumption == \A c \in Configs : IsLoopConfig(c)

VARIABLES
  config,       \* the loop being scheduled: never changes
  pc,           \* the loop of loop_scheduler.cc that is running
  schedule,     \* the rows that ScheduleLoops returns
  outer, inner, \* the counters of the running (nested) loop
  todo,         \* stages that a hash set or a heap still has to hand out
  order,        \* remaining_tasks[i] or reordered_tasks[i]: stages, one row
  num_groups, next_minibatch_delay, \* locals of the wavefront schedulers
  queue         \* the priority queue of ScheduleZeroBubble

schedulerVars == <<config, pc, schedule, outer, inner, todo, order,
                   num_groups, next_minibatch_delay, queue>>

Iters  == 0 .. config.num_iterations - 1
Stages == 0 .. config.stages - 1
Tasks  == Iters \X Stages

\* A mistake that FollowsCustomSchedule catches: rows filled from the front.
PushFront(row, task) ==
  schedule' = [schedule EXCEPT ![row] = <<task>> \o @]

\* schedule[row].push_back(task)
PushBack(row, task) ==
  schedule' = [schedule EXCEPT ![row] = Append(@, task)]

-----------------------------------------------------------------------------

Init ==
  /\ config \in Configs
  /\ pc = "dispatch"
  /\ schedule = << >>
  /\ outer = 0 /\ inner = 0
  /\ todo = {}
  /\ order = << >>
  /\ num_groups = 1 /\ next_minibatch_delay = 1
  /\ queue = {}

(***************************************************************************)
(* ScheduleLoops.  SchedulePrefetchWavefront and ScheduleWavefront run the *)
(* same code: each schedules a single task like fill-drain, and otherwise  *)
(* unrolls the loop increments (possibly none) before the wavefront.       *)
(***************************************************************************)
IsWavefront == config.schedule \in {"1F1B", "Wavefront", "PrefetchWavefront"}

SingleRowByStage == \/ config.schedule = "FillDrain"
                    \/ IsWavefront /\ config.stages = 1

ScheduleLoops ==
  /\ pc = "dispatch"
  /\ schedule' = IF config.schedule = "Custom"
                   THEN [row \in 1 .. Len(config.custom_schedule) |-> << >>]
                   ELSE << << >> >>
  /\ pc' = CASE config.schedule = "ZeroBubbleH2" -> "critical"
             [] SingleRowByStage -> "gpipe"
             [] OTHER -> "unroll"
  /\ todo' = IF pc' = "unroll" THEN config.increment ELSE {}
  /\ UNCHANGED <<config, outer, inner, order, num_groups,
                 next_minibatch_delay, queue>>

(***************************************************************************)
(* ScheduleGpipe: outer is task_index, inner is iter.                      *)
(***************************************************************************)
ScheduleGpipe ==
  /\ pc = "gpipe"
  /\ PushBack(1, <<inner, outer>>)
  /\ IF inner + 1 < config.num_iterations
       THEN inner' = inner + 1 /\ UNCHANGED <<outer, pc>>
       ELSE /\ inner' = 0
            /\ outer' = outer + 1
            /\ pc' = IF outer + 1 < config.stages THEN "gpipe" ELSE "done"
  /\ UNCHANGED <<config, todo, order, num_groups, next_minibatch_delay, queue>>

(***************************************************************************)
(* UnrollLoopIncrementTasks: every iteration of each loop increment task,  *)
(* the tasks in the order in which the hash set enumerates them, then      *)
(* remaining_tasks, where outer is task_index.                             *)
(***************************************************************************)
UnrollLoopIncrementTasks ==
  /\ pc = "unroll"
  /\ \E task_index \in todo :
       /\ schedule' = [schedule EXCEPT ![1] =
                         @ \o [i \in 1 .. config.num_iterations |->
                                 <<i - 1, task_index>>]]
       /\ todo' = todo \ {task_index}
  /\ UNCHANGED <<config, pc, outer, inner, order, num_groups,
                 next_minibatch_delay, queue>>

RemainingTasks ==
  /\ pc = "unroll"
  /\ todo = {}
  /\ outer < config.stages
  /\ order' = IF outer \in config.increment THEN order ELSE Append(order, outer)
  /\ outer' = outer + 1
  /\ UNCHANGED <<config, pc, schedule, inner, todo, num_groups,
                 next_minibatch_delay, queue>>

(***************************************************************************)
(* ScheduleWavefront (the overload that fills `schedule').  The locals     *)
(* first; then outer is the wavefront wf and inner the stage, descending.  *)
(* Tasks over all devices do not count as groups or pipeline tasks.        *)
(***************************************************************************)
RowDevices(i) == config.devices[0][order[i]]

PipelineTasks == { i \in 1 .. Len(order) : RowDevices(i) # AllDevices }

NumGroups == LET n == Cardinality({RowDevices(i) : i \in PipelineTasks})
             IN  IF n > 1 THEN n ELSE 1

\* A mistake that BoundedInFlight catches: minibatches follow each other at once.
NoMinibatchDelay == IF config.num_stages # 0 THEN config.num_stages ELSE 1

MinibatchDelay ==
  IF config.num_stages # 0
    THEN config.num_stages
    ELSE LET d == (Cardinality(PipelineTasks) + 1) \div 2
         IN  IF d > 1 THEN d ELSE 1

\* A mistake that SchedulesEveryTask catches: the last minibatch, when it is not
\* full, is left out.
NumFullMinibatches(groups) == config.num_iterations \div groups

NumMinibatches(groups) == (config.num_iterations + groups - 1) \div groups

NumWavefronts == Len(order) + NumMinibatches(num_groups) * next_minibatch_delay

StartWavefront ==
  /\ pc = "unroll"
  /\ todo = {}
  /\ outer = config.stages
  /\ config.schedule # "Custom"
  /\ num_groups' = NumGroups
  /\ next_minibatch_delay' = MinibatchDelay
  /\ outer' = 0
  /\ inner' = Len(order) - 1
  /\ pc' = IF order = << >> THEN "done" ELSE "wavefront"
  /\ UNCHANGED <<config, schedule, todo, order, queue>>

\* A mistake that RespectsDataflow catches: the last stage starts first.
TickOfLastFirst(wf, stage) == wf - (Len(order) - 1 - stage)

\* The task of `stage' that wavefront wf runs, a microbatch past the last one
\* or a tick between two minibatches meaning none.
Tick(wf, stage)  == wf - stage
Microbatch(tick) == (tick \div next_minibatch_delay) * num_groups
                      + (tick % next_minibatch_delay)

\* A mistake that TypeOK catches: a microbatch is not compared with the last.
RunsAnyMicrobatch(tick) == tick >= 0 /\ tick % next_minibatch_delay < num_groups

RunsMicrobatch(tick) ==
  /\ tick >= 0
  /\ tick % next_minibatch_delay < num_groups
  /\ Microbatch(tick) < config.num_iterations

ScheduleWavefront ==
  /\ pc = "wavefront"
  /\ LET tick == Tick(outer, inner)
     IN  IF RunsMicrobatch(tick)
           THEN PushBack(1, <<Microbatch(tick), order[inner + 1]>>)
           ELSE UNCHANGED schedule
  /\ IF inner > 0
       THEN inner' = inner - 1 /\ UNCHANGED <<outer, pc>>
       ELSE /\ inner' = Len(order) - 1
            /\ outer' = outer + 1
            /\ pc' = IF outer + 1 < NumWavefronts THEN "wavefront" ELSE "done"
  /\ UNCHANGED <<config, todo, order, num_groups, next_minibatch_delay, queue>>

-----------------------------------------------------------------------------
(***************************************************************************)
(* ScheduleZeroBubble.  reordered_tasks: the critical stages in order, then*)
(* the non-critical ones from a heap by descending partner stage, ties in  *)
(* any order.                                                              *)
(***************************************************************************)
CriticalStages ==
  /\ pc = "critical"
  /\ outer < config.stages
  /\ order' = IF outer \in config.noncritical THEN order
                                              ELSE Append(order, outer)
  /\ outer' = outer + 1
  /\ IF outer + 1 = config.stages
       THEN /\ pc' = "noncritical"
            /\ todo' = config.noncritical
            /\ next_minibatch_delay' = (Len(order') + 1) \div 2
       ELSE UNCHANGED <<pc, todo, next_minibatch_delay>>
  /\ UNCHANGED <<config, schedule, inner, num_groups, queue>>

NonCriticalStages ==
  /\ pc = "noncritical"
  /\ \E stage \in todo :
       /\ \A other \in todo : config.partner[other] <= config.partner[stage]
       /\ order' = Append(order, stage)
       /\ todo' = todo \ {stage}
  /\ UNCHANGED <<config, pc, schedule, outer, inner, num_groups,
                 next_minibatch_delay, queue>>

\* CompareStageGroup: g is popped before h.
PoppedBefore(g, h) ==
  \/ g.wf < h.wf
  \/ g.wf = h.wf /\ g.microbatch < h.microbatch
  \/ g.wf = h.wf /\ g.microbatch = h.microbatch /\ g.stage < h.stage

\* A mistake that ScheduledAtMostOnce catches: minibatches overlap.
StageGroupOverlapping(groups, minibatch, mb, stage) ==
  [wf |-> minibatch * next_minibatch_delay + mb + stage,
   microbatch |-> minibatch + mb, stage |-> stage]

StageGroup(groups, minibatch, mb, stage) ==
  [wf |-> minibatch * next_minibatch_delay + mb + stage,
   microbatch |-> minibatch * groups + mb, stage |-> stage]

\* The groups emplaced for a minibatch do not stop at num_iterations.
EmplaceStageGroups ==
  /\ pc = "noncritical"
  /\ todo = {}
  /\ num_groups' = NumGroups
  /\ queue' = { StageGroup(num_groups', minibatch, mb, stage) :
                  minibatch \in 0 .. NumMinibatches(num_groups') - 1,
                  mb \in 0 .. num_groups' - 1,
                  stage \in Stages }
  /\ pc' = "pop"
  /\ UNCHANGED <<config, schedule, outer, inner, todo, order,
                 next_minibatch_delay>>

\* reordered_tasks[group.microbatch] has no row for a microbatch past the last
\* iteration: what the access returns is undefined.
PopStageGroup ==
  /\ pc = "pop"
  /\ \E group \in queue :
       /\ \A other \in queue \ {group} : PoppedBefore(group, other)
       /\ queue' = queue \ {group}
       /\ IF group.microbatch < config.num_iterations
            THEN /\ PushBack(1, <<group.microbatch, order[group.stage + 1]>>)
                 /\ pc' = IF queue' = {} THEN "done" ELSE "pop"
            ELSE /\ pc' = "undefined"
                 /\ UNCHANGED schedule
  /\ UNCHANGED <<config, outer, inner, todo, order, num_groups,
                 next_minibatch_delay>>

-----------------------------------------------------------------------------
(***************************************************************************)
(* ScheduleCustomSchedule: check 1 counts each name over all the rows,     *)
(* check 2 that a name selects at most one remaining task of an iteration. *)
(* Then outer is mesh_id and inner the position in its row (both from 1).  *)
(***************************************************************************)
CustomPositions(name) ==
  { p \in UNION { {row} \X (1 .. Len(config.custom_schedule[row])) :
                    row \in 1 .. Len(config.custom_schedule) } :
      config.custom_schedule[p[1]][p[2]][2] = name }

CustomNames == { name \in Names : CustomPositions(name) # {} }

Matches(name) == { i \in 1 .. Len(order) : name \in config.color[order[i]] }

CustomChecksPass ==
  \A name \in CustomNames :
    /\ Cardinality(CustomPositions(name)) = config.num_iterations
    /\ Cardinality(Matches(name)) <= 1

\* Check 3: task_map has the task of the entry.
InTaskMap(entry) == entry[1] \in Iters /\ Matches(entry[2]) # {}

StartCustomSchedule ==
  /\ pc = "unroll"
  /\ todo = {}
  /\ outer = config.stages
  /\ config.schedule = "Custom"
  /\ pc' = IF CustomChecksPass THEN "custom" ELSE "error"
  /\ outer' = 1 /\ inner' = 1
  /\ UNCHANGED <<config, schedule, todo, order, num_groups,
                 next_minibatch_delay, queue>>

\* One iteration of the loops over mesh_id and the entries of its row.
ScheduleCustomSchedule ==
  /\ pc = "custom"
  /\ IF outer > Len(config.custom_schedule)
       THEN pc' = "done" /\ UNCHANGED <<schedule, outer, inner>>
     ELSE IF inner > Len(config.custom_schedule[outer])
       THEN outer' = outer + 1 /\ inner' = 1 /\ UNCHANGED <<schedule, pc>>
     ELSE LET entry == config.custom_schedule[outer][inner]
          IN  IF InTaskMap(entry)
                THEN /\ \E i \in Matches(entry[2]) :
                          PushBack(outer, <<entry[1], order[i]>>)
                     /\ inner' = inner + 1
                     /\ UNCHANGED <<outer, pc>>
                ELSE pc' = "error" /\ UNCHANGED <<schedule, outer, inner>>
  /\ UNCHANGED <<config, todo, order, num_groups, next_minibatch_delay, queue>>

-----------------------------------------------------------------------------

SchedulerStep ==
  \/ ScheduleLoops
  \/ ScheduleGpipe
  \/ UnrollLoopIncrementTasks
  \/ RemainingTasks
  \/ StartWavefront
  \/ ScheduleWavefront
  \/ CriticalStages
  \/ NonCriticalStages
  \/ EmplaceStageGroups
  \/ PopStageGroup
  \/ StartCustomSchedule
  \/ ScheduleCustomSchedule

\* ScheduleLoops has returned (or, for "undefined", read out of range).
Returned == pc \in {"done", "error", "undefined"} /\ UNCHANGED schedulerVars

Next == SchedulerStep \/ Returned

Spec == Init /\ [][Next]_schedulerVars

-----------------------------------------------------------------------------
(***************************************************************************)
(* Correctness.                                                            *)
(***************************************************************************)

\* The types of the scheduler's state; in particular every entry of the
\* schedule is a task of the loop (tasks[iter][stage] is in range).
TypeOK ==
  /\ IsLoopConfig(config)
  /\ pc \in {"dispatch", "gpipe", "unroll", "wavefront", "critical",
             "noncritical", "pop", "custom", "done", "error", "undefined"}
  /\ schedule \in Seq(Seq(Tasks))
  /\ outer \in Nat
  /\ inner \in Nat \cup {-1}
  /\ todo \subseteq Stages
  /\ order \in Seq(Stages)
  /\ num_groups \in Nat \ {0}
  /\ next_minibatch_delay \in Nat
  /\ queue \subseteq [wf: Nat, microbatch: Nat, stage: Stages]

Positions == UNION { {row} \X DOMAIN schedule[row] : row \in DOMAIN schedule }

TaskAt(p) == schedule[p[1]][p[2]]

\* Fill-drain, wavefront and zero-bubble never schedule a task twice, whatever
\* the loop: a task that came back later in a row would end up in a cycle of
\* control dependencies.  (A custom schedule may.)
ScheduledAtMostOnce ==
  config.schedule # "Custom" =>
  \A p, q \in Positions : TaskAt(p) = TaskAt(q) => p = q

\* Task t may depend on what task u produces, directly or through other tasks
\* of the loop.  A task consumes earlier stages of its iteration (except those
\* whose outputs all go to the root, the non-critical ones) and, through a loop
\* carried value such as an accumulated gradient, the same stage of an earlier
\* iteration.  A loop increment consumes only its own previous value.
MayDependOn(t, u) ==
  /\ u # t
  /\ u[1] <= t[1] /\ u[2] <= t[2]
  /\ \/ u[2] = t[2]
     \/ u[2] \notin config.noncritical /\ t[2] \notin config.increment

\* The delay between two minibatches leaves a tick for every device group.
DelayCoversGroups == num_groups <= next_minibatch_delay

\* ScheduleWavefront, ScheduleGpipe and ScheduleZeroBubble never put a task
\* before one that it may depend on: the control dependencies that
\* MpmdLoopUnroll adds along the row then agree with the data flow.  The
\* zero-bubble schedule needs the minibatch delay to cover the groups, as it
\* does when every group has a critical forward and backward task.
RespectsDataflow ==
  /\ config.schedule # "Custom"
  /\ config.schedule = "ZeroBubbleH2" => DelayCoversGroups
  =>
  \A row \in DOMAIN schedule : \A j \in DOMAIN schedule[row] :
    \A i \in 1 .. j - 1 : ~MayDependOn(schedule[row][i], schedule[row][j])

\* When the delay between minibatches covers the device groups, the wavefront
\* schedules, fill-drain and zero-bubble leave out no task: the ticks and the
\* number of wavefronts of ScheduleWavefront reach the last microbatch of the
\* last stage.
SchedulesEveryTask ==
  pc = "done" /\ config.schedule # "Custom" /\ DelayCoversGroups =>
    { TaskAt(p) : p \in Positions } = Tasks

\* A microbatch is in flight from its first pipeline task to its last one.  By
\* default the wavefront schedules of a pipeline keep at most two microbatches
\* per device group in flight, however long the pipeline and the loop are, which
\* bounds the activations that are alive (fill-drain keeps them all alive).
InFlight(m) ==
  LET done == { i \in DOMAIN order :
                  \E p \in Positions : TaskAt(p) = <<m, order[i]>> }
  IN  done # {} /\ done # DOMAIN order

BoundedInFlight ==
  pc = "wavefront" /\ config.num_stages = 0 /\ PipelineTasks = DOMAIN order =>
    Cardinality({ m \in Iters : InFlight(m) }) <= 2 * num_groups

\* A custom schedule that ScheduleCustomSchedule accepts is followed to the
\* letter: each row holds, after the unrolled loop increments, one task for
\* each of its entries, of the named stage and iteration and in that order.
FollowsCustomSchedule ==
  pc = "done" /\ config.schedule = "Custom" =>
    \A row \in DOMAIN config.custom_schedule :
      LET skip == Len(schedule[row]) - Len(config.custom_schedule[row])
      IN  /\ skip = (IF row = 1 THEN Cardinality(config.increment)
                                       * config.num_iterations
                                ELSE 0)
          /\ \A i \in DOMAIN config.custom_schedule[row] :
               LET task  == schedule[row][skip + i]
                   entry == config.custom_schedule[row][i]
               IN  /\ task[1] = entry[1]
                   /\ entry[2] \in config.color[task[2]]
                   /\ task[2] \notin config.increment

-----------------------------------------------------------------------------
(***************************************************************************)
(* What a test of the repository says and the code does not do.            *)
(***************************************************************************)

\* loop_scheduler_test.cc, Run1F1BTest: the number of scheduled tasks of each
\* layer is config.num_iterations.
EveryIterationScheduled ==
  pc = "done" /\ IsWavefront => Tasks \subseteq { TaskAt(p) : p \in Positions }
=============================================================================
