# Verification of multimesh-jax

multimesh-jax runs one JAX program on several meshes of devices. A PJRT client
wraps the native XLA client: it partitions the HLO module of a jitted function
into SPMD tasks, each on a submesh, schedules the microbatches of its loops as a
pipeline, compiles each task and defers the tasks on the Zuku/Realm runtime. All
of it is in `src/src/pjrt_client` (C++); `src/multimesh` is the Python API that
annotates the program. File names below are relative to `src/src/pjrt_client`.

This directory models the way of a program through that client: the compiler
pipeline from the traced module to a schedule of tasks, the compilation of the
tasks on the local devices, and the execution of the schedule on several
processes. TLC checks small instances; TLAPS proves the invariants for all of them,
for every part except the first two of the table below.

## Inventory

| Part | State | Operations | Hard behaviour |
|---|---|---|---|
| Coloring (`mpmd_coloring.cc`, `mpmd_instruction.cc`, `mpmd_utils.cc`, `hlo_partition.cc` and the passes around them) | the color of each instruction, the partition from colors to devices, the stack of named contexts | one HLO pass each | several rounds of propagation in both directions and along loops, names made unique, loop values replaced |
| Grouping and fusion (`mpmd_computation_grouper.cc`, `mpmd_computation_fusion.cc`, `mpmd_uniquify_colors.cc`, `mpmd_delay_recolor.cc`, ...) | calls and their task computations | one HLO pass each | groups that make the call graph cyclic, colors that the partition has dropped, outputs that nobody returns |
| Loop scheduler (`loop_scheduler.cc`) | rows of tasks, counters, a heap | `ScheduleGpipe`, `ScheduleWavefront`, `ScheduleZeroBubble`, `ScheduleCustomSchedule` | partial minibatches, off-by-one in ticks, order against data flow |
| Loop unrolling (`mpmd_loop_unroll.cc`) | cloned calls, loop carried tuple, control dependencies | `Unroll` | cycles, values of the wrong iteration |
| Reshards and buffers (`mpmd_insert_reshard.cc`, `mpmd_inplace_collectives.cc`, `mpmd_buffer_scheduling_name.cc`) | scheduling names, pools of free names, simulated time | one HLO pass each | a buffer reused before its last reader |
| Task scheduling (`mpmd_partition.cc`) | stores, schedule, module per computation, donors and aliases | `MpmdScheduler`, `AddHloModuleTask` | reshards moved in the schedule, a module reused at call sites with other donors |
| Compilation (`mm_pjrt_client.cc`, `hlo_loader.cc`, `executable_cache.cc`, `mm_computation.cc`) | compile tasks, cache entries and locks, events | `Compile`, `CreateCompileTask`, `FenceCompilation`, `compile_executable`, `Block` | races for one entry, shared events, failed compiles, blocked devices |
| Execution (`mm_pjrt_executable.cc`, `zuku_execute_context_impl.cc`, `hlo_executor.cc`) | control and execute events of each device, windows, streams, futures, stores | `Execute`, `CreateExecuteTask`, `Reshard`, `RunAfterAllTasks`, `OpenWindow`, `CloseWindow`, `StopZuku` | processes at their own speed, collectives launched in different orders, early futures, stop during work |
| Temporary memory, buffers, C API, mock, Python API, shard map rewrites | - | - | mostly HLO algebra or forwarding |

How they interact: `MultiMeshClient::Compile` calls `MpmdPartition`, which runs
the passes in one fixed order. The coloring passes give every instruction a
color; the grouping passes turn the instructions of a color into calls of task
computations, which are fused, moved and split; `MpmdLoopUnroll` replaces a
microbatch loop by its unrolled calls and asks the loop scheduler for an order,
which it records as control dependencies; reshards are inserted between
submeshes; buffers are named; and `MpmdScheduler` turns the graph into
`schedule_`, a sequence of tasks and reshards over stores. `Compile` then defers
compile tasks on every local device and waits for them in `FenceCompilation`.
`Execute`, called for every step of training by every process, walks `schedule_`
and defers each operation on each local device. `StopZuku` runs at exit.

What makes each part correct: no pass changes what the module computes; every
instruction ends up in a task on the devices its scope names; a cyclic graph is
refused (and, beside it, only a task with more outputs than its loop has values, when
it is split); a schedule contains each task exactly once, in an
order that agrees with the data flow, with a bounded number of microbatches in
flight; the unrolled graph is acyclic and computes what the loop computes; every
operation reads its own operands from the buffers it is given; a module is
compiled exactly once although every device tries, and when the client goes on
everything is compiled; tasks with collectives are launched in one order
everywhere, nobody waits for ever, and a future that is ready means that the
work is done.

## Modules

**`HloPartition`**, **`Hlo`**, **`HloSemantics`**, **`HloTasks`** are what the
passes work on. A module under compilation is a record: nodes with opcode, operands,
color, sharding, size and metadata, in the entry computation, the body of at most
one loop, or the computation of a task. `HloPartition` has the colors, the
devices they stand for and the matching of metadata (`hlo_partition.cc`);
`Hlo` the helpers of `mpmd_utils.cc` and `InstructionProperties`; `HloTasks` the
grouped form. The data structure is XLA's and is marked external, as is
`HloSemantics`: the outputs of a module as terms over the names of instructions
and parameters, with the loop run `NumIterations` times. It is the reference that
the passes are checked against.

**`Coloring`** has one action per pass, in the order of `Pipeline`, from the first
output copies to the replication of parameters (`MpmdColoring::Run` has one action
for each of its phases). A pass that returns an error ends in `"error"`. `Dealias` of
the loop output remover reads past the operands of an optimization barrier; the model
lets the read give any answer, or end the compilation. The context stack, the environment options and the program are chosen in `Init`.

**`Grouping`** continues with the passes that group, fuse, rename, move,
recompute, inline, group again and split tasks, with
`ValidateCircularDependencies` where the pipeline has it. What the source leaves
open is nondeterministic: the color that wins a tie in a hash map
(`ComputeColorDepthMap`), whether sharding propagation reaches the tasks, and which
of several equally deep outputs counts as critical.
`Coloring` and `Grouping` are two modules, not one: the second starts from
colored modules that are enumerated more widely than the first could produce in
reasonable time.

**`LoopScheduler`** models `loop_scheduler.cc`. A task is `<<iter, stage>>`. The
variable `schedule` is the value that `ScheduleLoops` returns, `outer` and
`inner` are the counters of the running loop, `order` is `remaining_tasks` or
`reordered_tasks`, `queue` is the heap of `ScheduleZeroBubble`. Each `push_back`
is one action. `config` is chosen in `Init` among `Configs` and holds the
`LoopConfig` and what the code reads of the partition. The iteration order of the
hash set of loop increments and the ties of the heap are nondeterministic. A read
past the last row of `reordered_tasks` ends in the state "undefined".
`ScheduleWavefront` and `SchedulePrefetchWavefront` are the same code.

**`LoopUnroll`** extends it with `mpmd_loop_unroll.cc`: calls and tuples of the
loop body are cloned in topological order, iteration by iteration, then
`LoopScheduler` runs, then each task of a row gets a control dependency to the
next one with an equal device list. `IsLoopBody` is what the pass relies on: calls
come after what they consume, and an element that is read without being loop
carried is passed on unchanged, which is how `InstructionProperties` tells the two
apart (`mpmd_utils.cc:562`).

**`TaskProgram`** is the entry computation once the loops are unrolled.
**`InsertReshard`** has the passes that add reshards and name the outputs of
in-place collectives, as operators on a program. **`BufferNames`** is
`MpmdAssignBufferSchedulingName`, output by output and operand by operand, with
its simulated time and its pools. **`TaskSchedule`** extends both: when all values have
names it adds the stores, schedules the instructions in post order (each call
with the module and the aliases of its computation), gives the stores memory and
runs the schedule. `memory` maps a store to the value it holds; an operation that
does not find its operands writes garbage. The runtime orders operations on one
store as the schedule does, so that one sequence stands for all runs.
**`TaskDataflow`** is the abstract specification: operations run in any order the
data flow allows, and the results become the values the root tuple names.
`TaskSchedule` instantiates it with `computed <- Ran` and `result <- ResultOf`, and
`ImplementsDataflow` is its specification, liveness included.

**`CompileTasks`** models `Compile` from the loop over the schedule on, the
compile tasks of every local device through each lock of `executable_cache.cc`,
`MultiMeshCompiler::Compile` with its three outcomes (done, exception swallowed,
abort), the fence, and execute tasks that block until their module is compiled. An
exception leaves a module that counts as compiled and has no executable; a task that
then runs it takes the process down, since `RunExecutable` asks the executable for its
replica count before `Execute` checks that there is one. `aborted` stands for this and
for `abort()`. A device runs one task at a time and keeps it while it blocks. Realm is
external.

**`ExecuteContext`** models `Execute` on several processes. Every process
dispatches the same program (`ops`, one or more runs of a schedule) on its devices,
at its own speed. `last_control_events`, `last_execute_events`, `window_markers`
and `sync_all_execution_event` are the members of `ZukuExecuteContextImpl`.
Deferred tasks start when their order event has triggered and their stores are
free (external), go through the stream of the device, and, when they contain
collectives, end together. `FreeStore` and `CreateStore` operations, which
`Execute` passes over, are left out, and the caller asks for futures.

The `MC*` modules give the instances; the `*Proofs` modules the theorems.
Definitions introduced by "Mutant:" are deliberate faults, used by no
specification: with one in the place of the definition after it, a run must
report the property that `PROJECT.json` names.

## Runs

| Run | Instance | Shows |
|---|---|---|
| `colors` | straight-line modules with scopes, shardings, explicit tasks and optimization barriers, summed concatenations, a microbatch loop, one that carries the elements of a barrier and one that slices its input; two context stacks, three settings of the options; 141600 states | well formed after every pass; outputs preserved; every instruction colored, with a color that is allocated and is the one its scope or sharding names; a color never changes once it is set; every output has a buffer of its own |
| `grouping` | every data flow of four instructions on three colors (two of them on the same devices), two pairs of tasks that depend on each other, barriers over shared values, cheap values to recompute, products larger than their operands, a loop, and a loop of two values with a task of up to three outputs; two settings of the options; 100336 states | outputs preserved by every pass; a cycle is always caught by the next validation, and the pipeline fails only at a cycle or at an output index that is not one of the loop root; everything ends in a task, every output of a task is read, no product is computed twice, nor on devices other than those of its color, unless it is larger than its operands and then where its readers want it |
| `fusioncycle` | the two pairs of tasks | violated: two fusions that are allowed one by one make a cycle together |
| `schedules` | all loops of up to 5 iterations and 4 stages, every placement on two groups and on all devices, `num_stages` absent, 1 or 2, at most one loop increment; zero-bubble loops of up to 4 iterations and 3 stages with every set of non-critical stages, and the pipelines of `loop_scheduler_test.cc` with 2 and 3 layers; custom schedules of two rows of up to two entries, with names that match no, one or two tasks and an iteration that does not exist | well typed, no task twice, no task before one it may depend on (directly or through others), every task when the delay covers the groups, microbatches in flight bounded; an accepted custom schedule is followed entry by entry |
| `dropped` | loops of 2 iterations and 2 stages | violated: a delay smaller than the groups loses microbatches |
| `unroll` | 4 pipeline stages and a loop increment, every data flow among them, four placements, up to 3 iterations | acyclic for pipelined bodies, tasks on one device list totally ordered, data flow of the sequential loop |
| `tasks` | chains and branches of four tasks on two devices, every donation and alias of two parameters, two iterations of a loop whose calls share modules, scalars, recolored results and different shardings; 42840 states | scheduling names are exclusive; every operand is where its reader needs it and every result where the root tuple wants it; the schedule is a topological order of the program; every operation reads its own operands from memory; the whole implements `TaskDataflow` |
| `clobber` | a value that goes to another mesh late in post order | violated: a reshard that is moved forward shares a store with a value that is still needed |
| `compile` | one client, 3 devices, 3 modules, one executed twice and one remote | compiled once, fence complete, everything ends, or the process went down on a module without an executable |
| `fastpath` | one client, 4 devices | everything ends when the client compiles itself, or the process went down |
| `twoclients` | two clients, a module each | violated: one fence takes the events of the other |
| `execute` | 3 devices on 2 processes: every sequence of 3 out of 4 kinds of operations, the last in a second execution, and 3 independent collectives on any pairs of devices; both settings of the scheduling option | launched in order, collectives in one order, futures and stop wait for tasks, everything ends |

Why these bounds are enough. `colors`: the families have at least one module for
every rule of a pass (its guard true and its guard false), three iterations tell
the first, a middle and the last one apart, and the two node limits are reached
(`kMinInstructionsToVisit` and `kMaxInstructionsInTree` are scaled down so that
they are). `grouping`: two pairs of calls are the smallest set that can be fused
into a cycle, and four instructions give every shape of a diamond; a product of size 8
with operands of size 2 is moved by `MpmdCutSizeMinimizer`, one of size 2 is not. `tasks`: reuse
of a buffer needs a value that is dead and a later one of the same shape, and a
clobbered one a third value in between. `schedules`: five iterations over two
groups give full and partial minibatches, two of them in flight; four stages give
a pipeline that goes forward and back. `execute`: three devices are the smallest
number on which independent collectives on pairs of devices can form a cycle, and
two executions show that the events carry over. The proofs remove the bounds from
`schedules`, `unroll`, `compile` and `execute` but for liveness, and from `tasks` for the
programs that run in order (below).

Runs that stop (`CHECK_DEADLOCK FALSE`): compilation and execution end; that they
end in the right state is what `EveryTaskEnds`, `EverythingEnds` and
`ImplementsDataflow` say. The pipelines of `Coloring` and `Grouping` have a last
step that stutters, so that a pass that cannot run is reported as a deadlock.

## Fairness

`CompileTasks`: every client thread, every compile task and every execute task
that can take a step for ever takes one. A compile task that waits for a mutex is
not enabled, so no fairness of the mutex is assumed; a device that is idle
starts one of its tasks. The XLA compiler is assumed to return.

`ExecuteContext`: the processes go on, Realm starts what it can start, and a
device finishes what it has begun. A collective is finished only when all its
devices have reached it, which is what could block.

`TaskSchedule`: weak fairness of the next step. The compiler is one thread that
runs to its end, and `Execute` issues every operation of the schedule.

The other modules are sequential and are checked for safety only.

## Proofs

Each theorem holds for every value of the constants that satisfies the named
assumption of the module: `ConfigsAssumption` (the constants are loops),
`BodiesAssumption` (their bodies are loop bodies), `ProgramsAssumption` (finitely
many instructions, an order of all of them in which operands come first, the outputs
of a call numbered and read off it once each, calls that read values and slice offsets,
reshards of one value, parameters with numbers of their own, results that are values,
none of them twice: what the passes before leave), and those of `CompileTasks` and `ExecuteContext`
on devices, schedules and programs. TLC evaluates them in the runs.

| Module | Theorem | States | Inductive invariant |
|---|---|---|---|
| `LoopSchedulerProofs` | `TypeCorrect`, `AtMostOnce`, `DataflowRespected` | `TypeOK`, `ScheduledAtMostOnce`, `RespectsDataflow` | `IInv` |
| `LoopCoverageProofs` | `EveryTaskScheduled`, `InFlightBounded`, `CustomFollowed` | `SchedulesEveryTask`, `BoundedInFlight`, `FollowsCustomSchedule` | `FullInv` |
| `LoopUnrollProofs` | `UnrollTypeCorrect`, `DataflowKept`, `DeviceOrder`, `GraphAcyclic` | `UnrollTypeOK`, `UnrolledDataflow`, `DeviceOrderTotal`, `UnrolledGraphAcyclic` | `UInv` |
| `BufferNamesProofs` | `NamesExclusive` | `NamesAreExclusive`, of the naming pass | `Inv` with `Core`, and `ApartInv` |
| `TaskScheduleProofs` | `ScheduleTypeCorrect`, `ScheduleInDataflowOrder`, `NamesStayExclusive`, `RunsAsDataflow` | for every program: `TypeOK`, `ScheduleFollowsDataflow`, `NamesAreExclusive`, and the steps of `TaskDataflow` on `computed` | `SInv` |
| | `RunReadsOwnValues`, `RunKeepsStoresUnique`, `RunImplementsDataflow` | for every run in order: `ReadsOwnValues`, `StoresAreUnique`, and the initial states and steps of `TaskDataflow` | `Everything`, with `Tables` and `RunInv` |
| | `ScheduledInPostOrder`, `OrderlyProgramsRunInOrder`, `OrderlyProgramsComputeDataflow` | which programs run in order, and the three results above from conditions on the program alone | `Placed`, `Fitting` |
| `CompileTasksProofs` | `TypeCorrect`, `CompilesOnce`, `FenceSound` | `TypeOK`, `CompiledOnce`, `FenceMeansCompiled` | `Inv`, `FenceInv` |
| `ExecuteContextProofs` | `TypeCorrect`, `StrictLaunchOrder`, `CollectivesAgreed`, `FuturesSound`, `StopIsSafe` | `TypeOK`, `LaunchedInOrder`, `CollectivesAgree`, `FutureMeansDone`, `StopWaitsForTasks` | `Inv`, `EventInv` |

`Induction` has what the others need of arithmetic: a least element of a set of
numbers, induction over an interval, stated for a set instead of a predicate, and
the existence of a function defined by recursion. With the last one the recursive
functions of `LoopUnroll` get their equations, and induction what they compute.

**Loop scheduler.** `ScheduledAtMostOnce` is not inductive: it does not say where in
the loop a task comes from. `IInv` adds it: for each loop of the code, every task in
the schedule comes before the current position of the counters. For the wavefront, a
task of microbatch m at position j of the order was pushed at wavefront
q * delay + o + j where m = q * groups + o; the arithmetic lemmas show that this
determines m and is monotonic. For the zero-bubble heap, every scheduled group
precedes those in the queue. `RespectsDataflow` speaks of `MayDependOn`, which is
transitive: what the acyclicity of the unrolled graph needs, and stronger than what a
task reads itself.

**Coverage.** `IInv` says of every entry why it is there; `FullInv` is the converse,
that what the running loop has gone past is in the row: `StageInv` for the stages of
the order, `CoverInv` for the microbatches, `DelayInv` for the constants that
`StartWavefront` computes, `CustomInv` for the entries of a custom schedule.
`EveryTaskScheduled` then rests on arithmetic: the last wavefront reaches the last
microbatch at the last stage when the delay covers the groups (`dropped` shows that
it does not otherwise). `InFlightBounded` compares the wavefronts at which two
microbatches in flight were pushed.

**Unrolling.** `CloneInv` says that the tuple after each iteration is that of the
sequential loop and that a clone consumes what its call consumes there, `ControlInv`
that a control dependency goes forward in a row and that the positions passed have
theirs. `DeviceOrder` follows by taking the first task that is not reached.
`GraphAcyclic`: of the tasks on a cycle take the first one t of the row, and of those
t may depend on the least; its predecessor on the cycle is less again, or comes before
t in the row. It needs that the row agrees with the dependencies (`IInv`), and that
the body is a pipeline (`IsPipelined`: a stage receives from earlier iterations only
what it produced itself, and an increment consumes nothing else). A body in which an
early stage reads what a late stage of the previous iteration has produced is not a
pipeline, and a wavefront schedule of it would contradict its data flow; the code does
not check for it.

**Buffer names.** `NamesExclusive` speaks of programs in which no call reads a value
twice and in which earlier passes name outputs only, after an output that introduced the
name (`IsWellNamed`): the loop unrolling, for the clones of an accumulator, and the
in-place collectives. Two live values then share a name only if it is such a name.
The invariant `Core` says in addition that outputs of visited instructions have names
(`OutputsNamed`), that a name is the identifier of a value that has it, that a name in a
pool is there once and belongs to no live value, that a name set before the pass
comes only to the pool of no shape, from which nothing is taken, that parameters and
results do not share theirs, and that the visits of a value count no more than its
readers so far: when the count reaches `user_count()`, all readers have been visited, and
the name may go back to the pool. `ApartInv` keeps what is needed when the pass is over,
in terms of the post order: what an operation computes and what is needed after it have
different names, also when the names were set before, if those are chained. A loop whose
initial value is a parameter of the module would give its clones the name of the
parameter (`mpmd_loop_unroll.cc:204`, `:272`); such programs are outside `IsWellNamed`.

**Task schedule.** For any program. `NameInv` shows that an operand that is freed has a
name, so that the error of `free_operand` is never returned. `Covered` says that the
operations the loop over the post order has gone past are scheduled and that no call is
before its turn; so a reshard that is moved forward finds its source computed, and a call
is new. `RunsAsDataflow` is the half of the refinement of `TaskDataflow` that is about
which operations run.

**The run.** `ReadsOwnValues` does not hold of every program: `clobber` is one where a
reshard is moved in front of a value that has its store. `RunsInOrder` says what
excludes that, and its parts are what the code relies on without checking it:

- `IsWellNamed` and `IsChained`: the values an earlier pass has given one name follow
  each other as the clones of an accumulator do, each computed from one before it that
  nothing needs later;
- `KeepsPostOrder`: the schedule has the order the names were computed for, so that no
  reshard was moved past another operation;
- `ModulesFit`: a call that finds the module of its computation could have made it
  itself, so that the aliases fit its own donors (`modules_` keeps those of the first
  call).

In `tasks` 875 of the 920 programs are scheduled in post order, every module fits and all
names are well formed and chained; so the theorems are about most of the instances,
donations, aliases, loops and reshards included.

`Tables` says what `MpmdScheduler` and `Execute` enter in `stores`, `schedule`,
`modules` and `rooted`, `Settled` what the naming pass leaves, in terms of the post order.
`RunInv` is the invariant of the run: a value that is computed, or is a parameter, and
that the rest of the schedule reads, or is a result, is in the memory of its store
(`Held`). An operation preserves it for two reasons. `WritesToItsStore`: an output goes to
the location of its own store, also when its module aliases it to an input; the user's
aliases and the matched donors end in root stores that `add_root_store` has placed in the
parameter's memory, and the aliases of equal names in the store they share.
`NeededIsSpared`: what is in that location is no longer read, for a name that is reused
because it was free, for a chain because `IsChained` says so, and for a parameter's
memory because the operation is its last reader (`LastUsedParams`) and no other result was
given to it (`DonatedOnce`). `RunKeepsStoresUnique` follows, since one location does not
hold two values, and `RunImplementsDataflow` from `Held` for the results.

`OrderlyProgramsComputeDataflow` replaces the conditions on the schedule by conditions on
the program. `ReshardsFollow`: between an output and a reshard of it the post order has
only reshards of that output, in the order of their creation; then what the loop adds at
its cursor comes after all that is scheduled (`ComesAfter`), because an operation that
was moved past it would lie between an output and its reshard. `CalledOnce`: no
computation is called twice; then a call never finds a module. The second is stronger than
needed: the loops of `tasks` call their computations once per iteration, and their modules
fit; 843 of the programs are orderly, 561 of them with reshards.

**Compilation.** `Inv` ties the state of a compile task to the owner of the entry lock,
and `opt_module` to the entries that are compiled or being compiled; it needs that two
clients share no module. `FenceInv` says that a compile task that has not ended is
among the pending events or those the fence waits for. That is true only if no other
client clears the pending events: `FenceSound` has the hypothesis `SingleClient`, and
the run `twoclients` shows what happens without it.

**Execution.** What is deferred on a device is what the loops of its process have
passed (`DeferInv`); the last control event is that of the last strict task and the
order event of a strict task is that of the strict task before it (`ControlInv`); so
what is launched is closed under the order of strict tasks (`StreamInv`). Collectives
are strict, so that two devices agree. `EventInv` adds that the execute events of a
device stand for all its tasks: a task that was deferred has ended or is one of them,
and the callbacks and `sync_all_execution_event` hold what they were given.

Only model-checked:

- liveness (`EveryTaskEnds`, `EverythingEnds`), which the prover does not support;
- `ReadsOwnValues` and the results of `ImplementsDataflow` of the programs of `tasks` that do
  not run in order (45 of them, with reshards that are moved), and its liveness; they do not
  hold of every such program (`clobber`);
- `ValuesArePlaced`: it is about folds over the instructions of a program, not about
  steps;
- `Coloring` and `Grouping`, whose terms, post orders and closures are recursive
  operators outside the prover's reach.

## What the runs that end in a violation say

Each states what a comment or a test says of the code, and TLC finds a behaviour
of the model that does not satisfy it; `PROJECT.json` quotes the lines under
`findings`. `dropped`: a wavefront delay that is smaller than the number of device
groups leaves microbatches out of the schedule. `twoclients`: two concurrent
`Compile` calls share their pending events. `fusioncycle`: fusion sets are each
checked against an ordering that the others invalidate; the compilation ends with
the error of `ValidateCircularDependencies` although the module has a schedule.
`clobber`: `PrioritizeReshardsInSchedule` moves a reshard to a place for which its
buffer was not allocated.

More disagreements, met while modelling, that have no run of their own:

- a custom schedule may miss an iteration of a task: the check that each task
  appears "AT LEAST ONCE" (`loop_scheduler.cc:418`) only looks entries up, and the
  counts are per name. `FollowsCustomSchedule` therefore says only that what is
  accepted is followed;
- a module whose compilation ended in an exception counts as compiled
  (`mm_computation.cc:435`), and `MultiMeshExecutable::Execute` would report it,
  "executable is null" (`mm_computation.cc:903`); but `RunExecutable` reads the replica
  count of the executable first (`hlo_executor.cc:156`, `mm_computation.h:73`), so that
  the process goes down. `EveryTaskEnds` names this end beside the others;
- `ScheduleZeroBubble` puts whole minibatches in its queue and reads
  `reordered_tasks` past its end (`loop_scheduler.cc:216`) when the last one is
  partial; the model goes to "undefined" there and stops, and the properties
  speak of the schedules that are complete;
- a reshard that is the last operation is not merged into
  `sync_all_execution_event`, so that `StopZuku` does not "wait for everything to
  finish" (`zuku_execute_context_impl.cc:53`); `StopWaitsForTasks` speaks of tasks;
- the marker of a window is not recorded (`zuku_execute_context_impl.cc:140`), so
  that the limit of `OpenWindow` (`:129`) is never reached;
- `MpmdUnusedLoopOutputRemover` replaces an output that nothing after the loop
  reads by a dummy although the next iteration may read it
  (`mpmd_unused_loop_output_remover.cc:81`); `OutputsPreserved` of `Coloring` is
  stated for modules where no such value is read;
- in the same pass `Dealias` looks the element of an optimization barrier up among the
  operands of the barrier (`mpmd_unused_loop_output_remover.cc:23`), which has one, the
  tuple, instead of among those of the tuple: a loop invariant that goes through a
  barrier is not recognised when it is the first element, and the later ones are read
  past the operands;
- `CriticalRootTupleIndex` compares the index of an output of the task with the number
  of operands of the root of the computation around it (`critical_path_finder.cc:55`):
  a task with more outputs than the loop has values ends the compilation although the
  module is correct. `FailsOnlyOnCycleOrSplitIndex` names this case;
- a call that reads a value twice is one user of it and visits it twice
  (`mpmd_buffer_scheduling_name.cc:121`), so that its name may be freed before the last
  reader; `IsWellNamed` excludes such calls;
- `ComputeColorDepthMap` says that a depth maps to one color
  (`mpmd_coloring.cc:95`); two colors may have the same greatest depth, and the order
  of a hash map decides;
- `MpmdCutSizeMinimizer` walks a tree and assigns the color to `instruction` each
  time instead of to the element (`mpmd_cut_size_minimizer.cc:148`).

## Not modelled

The arithmetic of HLO instructions: `HoistLoopConvert`, `HoistShardMapReduce`,
`ShardMapLoopReduce` and `ReorderShardMapTranspose` are correct for algebraic reasons
that terms do not show, as are the translations of shardings (`LogicalToGSPMD`, the
sanitizer of iota shardings, and the propagation inside a computation, which is
XLA's; only its effect on the parameters of tasks is in `Grouping`). Nested loops,
and loops without a configuration in `Grouping`. The layout of temporary memory,
which XLA's buffer assignment decides. Buffers and host transfers. XLA, Zuku and
Realm are external, and modelled as far as the code relies on them. The Python
API, the C API, the mock backend, JSON and CUDA utilities and the timeline tool
keep no state worth a model. Two threads that call `Execute` at the same time, and
exceptions inside a deferred task, are not modelled.

## Plan

What is left to prove: `MakeReshardIfNeeded` as a lemma, that what it returns is placed,
and with it `ValuesArePlaced`; and `ModulesFit` for the calls of an unrolled loop, which
needs that the clones of a call differ in their names only.

What is left to model: a module that composes `LoopUnroll` with `TaskSchedule` (today
the loops of `tasks` are written down as the unrolled program), and the buffers of
results across executions.
