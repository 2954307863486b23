---------------------------- MODULE ExecuteContext ----------------------------
(***************************************************************************)
(* Execution of a schedule on the devices.                                 *)
(*                                                                         *)
(* Every process runs MultiMeshPjRtExecutable::Execute                     *)
(* (mm_pjrt_executable.cc) for the same executables, at its own speed, and *)
(* defers each operation of their schedules on its local devices through   *)
(* ZukuExecuteContextImpl (zuku_execute_context_impl.cc).  A task with     *)
(* strict ordering is launched after the previous one of the device; what  *)
(* it launches runs on the stream of the device.  A task with collectives  *)
(* ends when its devices have all reached it.  Zuku and Realm are external:*)
(* a deferred operation starts once its order event and the operations     *)
(* before it on the same stores have triggered.                            *)
(***************************************************************************)
EXTENDS Integers, Sequences, FiniteSets, Functions

CONSTANTS
  Processes,
  Devices,   \* numbered
  Owner,     \* the process of each device
  Programs   \* sequences of operations, from the schedules that are executed

\* run is the Execute call an operation belongs to, loop and concurrent are
\* task.loop and compiler->Concurrent(), which is the same on every process
\* since they compile the same module.
IsOperation(o) ==
  o \in [kind: {"task", "reshard"}, devices: SUBSET Devices, run: Nat,
         loop: BOOLEAN, concurrent: BOOLEAN, reads: SUBSET Nat, writes: SUBSET Nat]

\* A program executes at least one schedule, and each has operations.
IsProgram(ops) ==
  /\ Len(ops) \in Nat \ {0} /\ DOMAIN ops = 1 .. Len(ops)
  /\ \A n \in 1 .. Len(ops) : IsOperation(ops[n])
  /\ ops[1].run = 1
  /\ \A n \in 2 .. Len(ops) : ops[n].run \in {ops[n - 1].run, ops[n - 1].run + 1}

ASSUME ProgramsAssumption ==
  /\ Devices \subseteq Nat
  /\ Owner \in [Devices -> Processes]
  /\ \A p \in Processes : \E d \in Devices : Owner[d] = p
  /\ \A ops \in Programs : IsProgram(ops)

kMaxOpenWindows == 8

VARIABLES
  ops,                      \* the operations that every process dispatches
  static_schedule_all_tasks,
  pc,                       \* where each process is
  run,                      \* the Execute call it is in
  op,                       \* the operation it is at, of schedule_
  todo,                     \* the devices left in the loop over local devices
  deferred,                 \* operations deferred on each device
  order_event,              \* what each of them is to be launched after
  last_control_events,
  last_execute_events,
  stream,                   \* tasks launched on each device
  done,                     \* operations that have ended on each device
  window_markers,
  sync_all_execution_event,
  callbacks,                \* callbacks deferred on each device
  future                    \* the futures that are ready

hostVars    == <<pc, run, op, todo>>
eventVars   == <<last_control_events, last_execute_events>>
windowVars  == <<window_markers, sync_all_execution_event>>
runtimeVars == <<deferred, order_event, stream, done>>
vars == <<ops, static_schedule_all_tasks, hostVars, eventVars, windowVars,
          runtimeVars, callbacks, future>>

NO_USER_EVENT   == 0
Operations      == DOMAIN ops
Local(p)        == {d \in Devices : Owner[d] = p}
Launched(d)     == Range(stream[d])
On(n)           == ops[n].devices
IsTask(n)       == ops[n].kind = "task"
IsCollective(n) == IsTask(n) /\ ops[n].concurrent

\* A mistake that CollectivesAgree catches: tasks with collectives are launched
\* as soon as their inputs are ready.
StrictUnlessConcurrent(n) == ops[n].loop \/ static_schedule_all_tasks

StrictOrdering(n) ==
  ops[n].loop \/ static_schedule_all_tasks \/ ops[n].concurrent

Init ==
  /\ ops \in Programs
  /\ static_schedule_all_tasks \in BOOLEAN
  /\ pc = [p \in Processes |-> "open"]
  /\ run = [p \in Processes |-> 1]
  /\ op = [p \in Processes |-> 1]
  /\ todo = [p \in Processes |-> {}]
  /\ deferred = [d \in Devices |-> {}]
  /\ order_event = [d \in Devices |-> [n \in Operations |-> NO_USER_EVENT]]
  /\ last_control_events = [d \in Devices |-> NO_USER_EVENT]
  /\ last_execute_events = [d \in Devices |-> {}]
  /\ stream = [d \in Devices |-> <<>>]
  /\ done = [d \in Devices |-> {}]
  /\ window_markers = [p \in Processes |-> <<>>]
  /\ sync_all_execution_event = [p \in Processes |-> {}]
  /\ callbacks = [d \in Devices |-> <<>>]
  /\ future = [d \in Devices |-> {}]

-----------------------------------------------------------------------------
(***************************************************************************)
(* Execute, on process p.                                                  *)
(***************************************************************************)
Triggered(tokens) == \A t \in tokens : t[2] \in done[t[1]]

\* Wait for the oldest window while too many are open, then go on.
OpenWindow(p) ==
  /\ pc[p] = "open"
  /\ IF Len(window_markers[p]) >= kMaxOpenWindows
       THEN /\ Triggered(Head(window_markers[p]))
            /\ window_markers' = [window_markers EXCEPT ![p] = Tail(@)]
            /\ UNCHANGED <<pc, todo>>
       ELSE /\ pc' = [pc EXCEPT ![p] = "dispatch"]
            /\ todo' = [todo EXCEPT ![p] = Local(p)]
            /\ UNCHANGED window_markers
  /\ UNCHANGED <<ops, static_schedule_all_tasks, run, op, eventVars,
                 sync_all_execution_event, runtimeVars, callbacks, future>>

\* The next iteration of the loop over the local devices, d having been served.
NextDevice(p, d) ==
  IF todo[p] = {d}
    THEN /\ todo' = [todo EXCEPT ![p] = Local(p)]
         /\ op' = [op EXCEPT ![p] = @ + 1]
         /\ pc' = [pc EXCEPT ![p] =
                     IF op[p] = Len(ops) \/ ops[op[p] + 1].run # run[p]
                       THEN "callbacks" ELSE @]
    ELSE /\ todo' = [todo EXCEPT ![p] = @ \ {d}]
         /\ UNCHANGED <<op, pc>>

\* A mistake that TypeOK catches: the operation is deferred on every device.
DeferEverywhere(n, d) == deferred' = [deferred EXCEPT ![d] = @ \cup {n}]

\* across(devices).if_on(p): the operation is deferred on its own devices only.
Defer(n, d) ==
  deferred' = [deferred EXCEPT ![d] = IF d \in On(n) THEN @ \cup {n} ELSE @]

OrderEvent(n, d) ==
  IF StrictOrdering(n) THEN last_control_events[d] ELSE NO_USER_EVENT

\* A mistake that FutureMeansDone and StopWaitsForTasks catch: the events of the
\* tasks before are forgotten.
ReplaceLastExecuteEvent(n, d) ==
  last_execute_events' =
    [last_execute_events EXCEPT ![d] = IF d \in On(n) THEN {n} ELSE @]

\* The token of a task that is not on this device has no event.
SetLastExecuteEvent(n, d) ==
  last_execute_events' =
    [last_execute_events EXCEPT ![d] = IF d \in On(n) THEN @ \cup {n} ELSE @]

\* A mistake that LaunchedInOrder catches: a task that is not on this device
\* breaks the chain of control events.
ResetLastControlEvent(n, d) ==
  last_control_events' =
    IF StrictOrdering(n)
      THEN [last_control_events EXCEPT ![d] = IF d \in On(n) THEN n ELSE NO_USER_EVENT]
      ELSE last_control_events

\* A mistake that EverythingEnds catches: the control event of a task that is
\* not on this device, which never triggers, is kept.
KeepAnyControlEvent(n, d) ==
  last_control_events' =
    IF StrictOrdering(n) THEN [last_control_events EXCEPT ![d] = n]
                         ELSE last_control_events

SetLastControlEvent(n, d) ==
  LET ev == IF d \in On(n) THEN n ELSE NO_USER_EVENT
  IN  last_control_events' =
        IF StrictOrdering(n) /\ ev # NO_USER_EVENT
          THEN [last_control_events EXCEPT ![d] = ev] ELSE last_control_events

CreateExecuteTask(p, d) ==
  /\ pc[p] = "dispatch" /\ IsTask(op[p])
  /\ d \in todo[p] /\ \A e \in todo[p] : d <= e
  /\ Defer(op[p], d)
  /\ order_event' = [order_event EXCEPT ![d][op[p]] = OrderEvent(op[p], d)]
  /\ SetLastExecuteEvent(op[p], d)
  /\ SetLastControlEvent(op[p], d)
  /\ NextDevice(p, d)
  /\ UNCHANGED <<ops, static_schedule_all_tasks, run, windowVars, stream, done,
                 callbacks, future>>

Reshard(p, d) ==
  /\ pc[p] = "dispatch" /\ ~IsTask(op[p])
  /\ d \in todo[p] /\ \A e \in todo[p] : d <= e
  /\ Defer(op[p], d)
  /\ NextDevice(p, d)
  /\ UNCHANGED <<ops, static_schedule_all_tasks, run, eventVars, windowVars,
                 order_event, stream, done, callbacks, future>>

\* On every local device, a callback that makes the future of the run ready.
RunAfterAllTasks(p) ==
  /\ pc[p] = "callbacks"
  /\ callbacks' = [d \in Devices |->
                     IF d \in Local(p)
                       THEN Append(callbacks[d], last_execute_events[d])
                       ELSE callbacks[d]]
  /\ pc' = [pc EXCEPT ![p] = "close"]
  /\ UNCHANGED <<ops, static_schedule_all_tasks, run, op, todo, eventVars,
                 windowVars, runtimeVars, future>>

\* The line that records the marker of the window is commented out.
CloseWindow(p) ==
  LET marker == UNION { {d} \X last_execute_events[d] : d \in Local(p) }
  IN  /\ pc[p] = "close"
      /\ sync_all_execution_event' =
           [sync_all_execution_event EXCEPT ![p] = @ \cup marker]
      /\ pc' = [pc EXCEPT ![p] = IF op[p] > Len(ops) THEN "exit" ELSE "open"]
      /\ run' = [run EXCEPT ![p] = IF op[p] > Len(ops) THEN @ ELSE @ + 1]
      /\ UNCHANGED <<ops, static_schedule_all_tasks, op, todo, eventVars,
                     window_markers, runtimeVars, callbacks, future>>

\* At the exit of the process.
StopZuku(p) ==
  /\ pc[p] = "exit"
  /\ Triggered(sync_all_execution_event[p])
  /\ pc' = [pc EXCEPT ![p] = "stopped"]
  /\ UNCHANGED <<ops, static_schedule_all_tasks, run, op, todo, eventVars,
                 windowVars, runtimeVars, callbacks, future>>

-----------------------------------------------------------------------------
(***************************************************************************)
(* The runtime and the devices.                                            *)
(***************************************************************************)

\* The operations that were deferred on d before n and share a store with it,
\* one of the two writing it.
Preconditions(n, d) ==
  {m \in deferred[d] : /\ m < n
                       /\ \/ ops[m].writes \cap (ops[n].reads \cup ops[n].writes) # {}
                          \/ ops[m].reads \cap ops[n].writes # {}}

\* RunExecutable launches the task on the stream, which triggers the control
\* event of its token.
Launch(n, d) ==
  /\ n \in deferred[d] \ Launched(d) /\ IsTask(n)
  /\ order_event[d][n] \in Launched(d) \cup {NO_USER_EVENT}
  /\ Preconditions(n, d) \subseteq done[d]
  /\ stream' = [stream EXCEPT ![d] = Append(@, n)]
  /\ UNCHANGED <<ops, static_schedule_all_tasks, hostVars, eventVars,
                 windowVars, deferred, order_event, done, callbacks, future>>

AtHead(n, d) ==
  \E i \in DOMAIN stream[d] :
    /\ stream[d][i] = n /\ n \notin done[d]
    /\ \A j \in 1 .. i - 1 : stream[d][j] \in done[d]

Finish(n, devices) ==
  /\ done' = [d \in Devices |-> IF d \in devices THEN done[d] \cup {n} ELSE done[d]]
  /\ UNCHANGED <<ops, static_schedule_all_tasks, hostVars, eventVars,
                 windowVars, deferred, order_event, stream, callbacks, future>>

FinishTask(n, d) ==
  /\ IsTask(n) /\ ~IsCollective(n) /\ AtHead(n, d)
  /\ Finish(n, {d})

FinishCollective(n) ==
  /\ IsCollective(n) /\ On(n) # {}
  /\ \A d \in On(n) : AtHead(n, d)
  /\ Finish(n, On(n))

FinishReshard(n) ==
  /\ ~IsTask(n) /\ On(n) # {}
  /\ \A d \in On(n) : /\ n \in deferred[d] \ done[d]
                      /\ Preconditions(n, d) \subseteq done[d]
  /\ Finish(n, On(n))

\* The callback of run r.
RunCallback(r, d) ==
  /\ r \in DOMAIN callbacks[d] /\ r \notin future[d]
  /\ callbacks[d][r] \subseteq done[d]
  /\ future' = [future EXCEPT ![d] = @ \cup {r}]
  /\ UNCHANGED <<ops, static_schedule_all_tasks, hostVars, eventVars,
                 windowVars, runtimeVars, callbacks>>

-----------------------------------------------------------------------------

HostStep(p) ==
  \/ OpenWindow(p)
  \/ \E d \in Devices : CreateExecuteTask(p, d) \/ Reshard(p, d)
  \/ RunAfterAllTasks(p) \/ CloseWindow(p) \/ StopZuku(p)

DeviceStep(d) ==
  \/ \E n \in Operations : Launch(n, d) \/ FinishTask(n, d)
  \/ \E r \in DOMAIN callbacks[d] : RunCallback(r, d)

GangStep == \E n \in Operations : FinishCollective(n) \/ FinishReshard(n)

Next ==
  \/ \E p \in Processes : HostStep(p)
  \/ \E d \in Devices : DeviceStep(d)
  \/ GangStep

\* The processes run and Realm starts what can start; a device finishes what it
\* has begun.
Fairness ==
  /\ \A p \in Processes : WF_vars(HostStep(p))
  /\ \A d \in Devices : WF_vars(DeviceStep(d))
  /\ WF_vars(GangStep)

Spec == Init /\ [][Next]_vars /\ Fairness

-----------------------------------------------------------------------------

\* The types of the variables; operations are deferred on their own devices.
TypeOK ==
  /\ ops \in Programs
  /\ static_schedule_all_tasks \in BOOLEAN
  /\ pc \in [Processes -> {"open", "dispatch", "callbacks", "close", "exit", "stopped"}]
  /\ run \in [Processes -> Nat]
  /\ op \in [Processes -> 1 .. Len(ops) + 1]
  /\ todo \in [Processes -> SUBSET Devices]
  /\ deferred \in [Devices -> SUBSET Operations]
  /\ \A d \in Devices : \A n \in deferred[d] : d \in On(n)
  /\ order_event \in [Devices -> [Operations -> Operations \cup {NO_USER_EVENT}]]
  /\ last_control_events \in [Devices -> Operations \cup {NO_USER_EVENT}]
  /\ last_execute_events \in [Devices -> SUBSET Operations]
  /\ stream \in [Devices -> Seq(Operations)]
  /\ done \in [Devices -> SUBSET Operations]
  /\ window_markers \in [Processes -> Seq(SUBSET (Devices \X Operations))]
  /\ sync_all_execution_event \in [Processes -> SUBSET (Devices \X Operations)]
  /\ callbacks \in [Devices -> Seq(SUBSET Operations)]
  /\ future \in [Devices -> SUBSET Nat]

\* Whatever the speed of the processes and the order in which the inputs of the
\* tasks become ready, the tasks with strict ordering are launched in the order
\* of the schedule, none being left out.
LaunchedInOrder ==
  \A d \in Devices :
    /\ \A i, j \in DOMAIN stream[d] :
         /\ i < j
         /\ StrictOrdering(stream[d][i]) /\ StrictOrdering(stream[d][j])
         => stream[d][i] < stream[d][j]
    /\ \A n \in Launched(d), m \in Operations :
         /\ StrictOrdering(n) /\ StrictOrdering(m)
         /\ m < n /\ IsTask(m) /\ d \in On(m)
         => m \in Launched(d)

\* Two devices never launch two tasks with collectives in opposite orders, or
\* each would wait in the collective of one of them for the other.
CollectivesAgree ==
  \A d, e \in Devices :
    \A i, j \in DOMAIN stream[d], k, l \in DOMAIN stream[e] :
      /\ stream[d][i] = stream[e][k] /\ stream[d][j] = stream[e][l]
      /\ IsCollective(stream[d][i]) /\ IsCollective(stream[d][j])
      => (i < j <=> k < l)

\* A future that is ready means that every task of its run, and of the runs
\* before it, has ended on the device.
FutureMeansDone ==
  \A d \in Devices : \A r \in future[d] : \A n \in Operations :
    IsTask(n) /\ ops[n].run <= r /\ d \in On(n) => n \in done[d]

\* Every process exits, every operation ends and every future gets ready: the
\* devices never wait for each other for ever.
EverythingEnds ==
  <> /\ \A p \in Processes : pc[p] = "stopped"
     /\ \A d \in Devices : /\ \A n \in Operations : d \in On(n) => n \in done[d]
                           /\ \A n \in Operations : ops[n].run \in future[d]

\* When StopZuku goes on to destroy the streams, no task of the process is
\* left on one of its devices.
StopWaitsForTasks ==
  \A p \in Processes : pc[p] = "stopped" =>
    \A d \in Local(p) : \A n \in deferred[d] : IsTask(n) => n \in done[d]
=============================================================================
