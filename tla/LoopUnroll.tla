----------------------------- MODULE LoopUnroll -----------------------------
(***************************************************************************)
(* MpmdLoopUnroll::Unroll, src/src/pjrt_client/mpmd_loop_unroll.cc: the    *)
(* body of a microbatch loop is cloned once per iteration into the entry   *)
(* computation, ScheduleLoops (module LoopScheduler) orders the clones, and*)
(* control dependencies fix that order on each device list.                *)
(*                                                                         *)
(* The loop of LoopScheduler is extended with the data flow of its body:   *)
(*   indices       elements of the loop tuple                              *)
(*   carried       those with a loop_carried_index property                *)
(*   operands[s]   what the call of stage s consumes                       *)
(*   root[index]   what the root tuple returns for the element             *)
(* where <<-1, index>> is an element of the body's parameter tuple and     *)
(* <<0, stage>> an output of a stage.  In the unrolled module a value is   *)
(* an operand <<-1, index>> of the while loop's input tuple or the output  *)
(* <<iter, stage>> of a clone.                                             *)
(***************************************************************************)
EXTENDS LoopScheduler

Input(index) == <<-1, index>>

\* The tuple elements that the body reads.
ReadElements(c) ==
  { index \in c.indices :
      \/ \E s \in 0 .. c.stages - 1 : Input(index) \in c.operands[s]
      \/ \E x \in c.indices : c.root[x] = Input(index) }

\* A loop body: a call comes after the calls it consumes, and an element that is
\* read without being loop carried is passed on unchanged, which is how
\* InstructionProperties tells loop_parameter_index from loop_carried_index.
IsLoopBody(c) ==
  LET values == ({-1} \X c.indices) \cup ({0} \X (0 .. c.stages - 1))
  IN  /\ c.operands \in [0 .. c.stages - 1 -> SUBSET values]
      /\ c.root \in [c.indices -> values]
      /\ \A s \in 0 .. c.stages - 1 : \A t \in 0 .. c.stages - 1 :
           <<0, t>> \in c.operands[s] => t < s
      /\ \A index \in ReadElements(c) \ c.carried : c.root[index] = Input(index)

ASSUME BodiesAssumption == \A c \in Configs : IsLoopBody(c)

VARIABLES
  phase,                  \* "clone", "schedule", "control", "unrolled", "error"
  iter, stage,            \* the instruction being cloned
  uses,                   \* the operands of the clones made so far
  prev_loop_output_tuple, \* what the previous iteration returned
  control,                \* AddControlDependencyTo pairs
  row, lhs                \* the scheduled task being constrained

unrollVars == <<phase, iter, stage, uses, prev_loop_output_tuple, control,
                row, lhs>>

vars == <<schedulerVars, unrollVars>>

UnrollInit ==
  /\ Init
  /\ phase = "clone"
  /\ iter = 0 /\ stage = 0
  /\ uses = << >>
  /\ prev_loop_output_tuple = [index \in config.indices |-> Input(index)]
  /\ control = {}
  /\ row = 1 /\ lhs = 1

\* A mistake that UnrolledDataflow catches: the value of the previous iteration
\* is not passed on.
CloneNotCarried(value) == IF value[1] = 0 THEN <<iter, value[2]>> ELSE value

\* clone_map[{instruction, iter}]: a loop carried tuple element is what the
\* previous iteration returned, any other one what the loop was called with.
Clone(value) ==
  IF value[1] = 0 THEN <<iter, value[2]>>
  ELSE IF value[2] \in config.carried THEN prev_loop_output_tuple[value[2]]
  ELSE value

\* IsNonCritical of mpmd_loop_unroll.cc: only the root uses the outputs.
OnlyUsedByRoot(s) == \A t \in Stages : <<0, s>> \notin config.operands[t]

\* kCall (with the kGetTupleElement instructions it consumes)
CloneCall ==
  /\ phase = "clone"
  /\ stage < config.stages
  /\ IF stage \in config.noncritical /\ ~OnlyUsedByRoot(stage)
       THEN phase' = "error" /\ UNCHANGED <<uses, stage>>
       ELSE /\ uses' = [task \in DOMAIN uses \cup {<<iter, stage>>} |->
                          IF task = <<iter, stage>>
                            THEN { Clone(v) : v \in config.operands[stage] }
                            ELSE uses[task]]
            /\ stage' = stage + 1
            /\ UNCHANGED phase
  /\ UNCHANGED <<schedulerVars, iter, prev_loop_output_tuple, control, row, lhs>>

\* kTuple: the root of the body ends the iteration.
CloneRoot ==
  /\ phase = "clone"
  /\ stage = config.stages
  /\ prev_loop_output_tuple' =
       [index \in config.indices |-> Clone(config.root[index])]
  /\ iter' = iter + 1
  /\ stage' = 0
  /\ phase' = IF iter + 1 < config.num_iterations THEN "clone" ELSE "schedule"
  /\ UNCHANGED <<schedulerVars, uses, control, row, lhs>>

\* ScheduleLoops(*partition_, config, tasks)
CallScheduleLoops ==
  /\ phase = "schedule"
  /\ SchedulerStep
  /\ phase' = CASE pc' = "done" -> "control"
                [] pc' \in {"error", "undefined"} -> "error"
                [] OTHER -> "schedule"
  /\ UNCHANGED <<iter, stage, uses, prev_loop_output_tuple, control, row, lhs>>

DevicesForInstruction(task) == config.devices[task[1]][task[2]]

\* A mistake that UnrolledGraphAcyclic catches: the loop over rhs starts at lhs.
SameDevicesFrom(r, i) ==
  { j \in i .. Len(schedule[r]) :
      DevicesForInstruction(schedule[r][j])
        = DevicesForInstruction(schedule[r][i]) }

\* The tasks after position i of a row that run on the same device list.
SameDevicesAfter(r, i) ==
  { j \in i + 1 .. Len(schedule[r]) :
      DevicesForInstruction(schedule[r][j])
        = DevicesForInstruction(schedule[r][i]) }

\* A mistake that DeviceOrderTotal catches: only the next task is looked at.
NextIfSameDevices(r, i) ==
  { j \in SameDevicesAfter(r, i) : j = i + 1 }

\* The loop over rhs breaks at the first of them.
NextOnSameDevices(r, i) ==
  { j \in SameDevicesAfter(r, i) : \A k \in SameDevicesAfter(r, i) : j <= k }

\* One iteration of the loops over stage (here row) and lhs.
AddControlDependency ==
  /\ phase = "control"
  /\ IF row > Len(schedule)
       THEN phase' = "unrolled" /\ UNCHANGED <<row, lhs, control>>
     ELSE IF lhs > Len(schedule[row])
       THEN row' = row + 1 /\ lhs' = 1 /\ UNCHANGED <<phase, control>>
     ELSE /\ control' =
               control \cup
                 { <<schedule[row][lhs], schedule[row][j]>> :
                     j \in NextOnSameDevices(row, lhs) }
          /\ lhs' = lhs + 1
          /\ UNCHANGED <<phase, row>>
  /\ UNCHANGED <<schedulerVars, iter, stage, uses, prev_loop_output_tuple>>

Unrolled == phase \in {"unrolled", "error"} /\ UNCHANGED vars

UnrollNext ==
  \/ CloneCall
  \/ CloneRoot
  \/ CallScheduleLoops
  \/ AddControlDependency
  \/ Unrolled

UnrollSpec == UnrollInit /\ [][UnrollNext]_vars

-----------------------------------------------------------------------------

\* The types of the unrolling state.
UnrollTypeOK ==
  /\ TypeOK
  /\ phase \in {"clone", "schedule", "control", "unrolled", "error"}
  /\ iter \in 0 .. config.num_iterations
  /\ stage \in 0 .. config.stages
  /\ DOMAIN uses \subseteq Tasks
  /\ control \subseteq Tasks \X Tasks

DataDependencies ==
  UNION { { <<u, t>> : u \in uses[t] \cap Tasks } : t \in DOMAIN uses }

\* The tasks that remain when those without an incoming edge are removed as
\* often as there are tasks.
OnOrBelowCycle(edges) ==
  LET left[k \in 0 .. Cardinality(Tasks)] ==
        IF k = 0 THEN Tasks
        ELSE LET prev == left[k - 1]
             IN  { e[2] : e \in { e \in edges : e[1] \in prev /\ e[2] \in prev } }
  IN  left[Cardinality(Tasks)]

\* The tasks that one can reach from t.
Reachable(edges, t) ==
  LET reached[k \in 0 .. Cardinality(Tasks)] ==
        IF k = 0 THEN {t}
        ELSE LET prev == reached[k - 1]
             IN  prev \cup { e[2] : e \in { e \in edges : e[1] \in prev } }
  IN  reached[Cardinality(Tasks)]

\* The value of the loop's tuple elements when iteration m starts, by running
\* the loop one iteration after the other.
SequentialState ==
  LET state[m \in 0 .. config.num_iterations] ==
        IF m = 0 THEN [index \in config.indices |-> Input(index)]
        ELSE [index \in config.indices |->
                LET v == config.root[index]
                IN  IF v[1] = 0 THEN <<m - 1, v[2]>> ELSE state[m - 1][v[2]]]
  IN  state

\* A pipelined body: what a stage receives from earlier iterations it produced
\* itself, and a loop increment consumes nothing else.
IsPipelined ==
  \A s \in Stages : \A v \in config.operands[s] :
    IF v[1] = 0
      THEN s \notin config.increment
      ELSE \A m \in Iters :
             SequentialState[m][v[2]] \in Tasks => SequentialState[m][v[2]][2] = s

\* MpmdLoopUnroll must not create a circular dependency in a pipelined loop: the
\* data flow of the clones and the control dependencies added along the schedule
\* form an acyclic graph, although the schedule interleaves stages of different
\* iterations.
UnrolledGraphAcyclic ==
  phase = "unrolled"
    /\ config.schedule # "Custom"
    /\ (config.schedule = "ZeroBubbleH2" => DelayCoversGroups)
    /\ IsPipelined =>
      OnOrBelowCycle(DataDependencies \cup control) = {}

\* The control dependencies order all the tasks of a row that run on one device
\* list, whatever runs between them on other lists: each device then executes
\* its tasks in the order that ScheduleLoops chose.
DeviceOrderTotal ==
  phase = "unrolled" =>
    \A r \in DOMAIN schedule : \A i \in DOMAIN schedule[r] :
      { schedule[r][j] : j \in SameDevicesAfter(r, i) }
        \subseteq Reachable(control, schedule[r][i])

\* Unrolling keeps the meaning of the loop: every clone consumes what its call
\* would consume in the sequential loop, also through elements that the body
\* passes on unchanged, and the loop's users get the state after the last
\* iteration.
UnrolledDataflow ==
  /\ \A t \in DOMAIN uses :
       uses[t] = { IF v[1] = 0 THEN <<t[1], v[2]>>
                               ELSE SequentialState[t[1]][v[2]] :
                     v \in config.operands[t[2]] }
  /\ phase # "clone" /\ iter = config.num_iterations =>
       prev_loop_output_tuple = SequentialState[config.num_iterations]
=============================================================================
