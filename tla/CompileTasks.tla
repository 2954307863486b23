---------------------------- MODULE CompileTasks ----------------------------
(***************************************************************************)
(* Compilation in parallel on the local devices.                           *)
(*                                                                         *)
(* MultiMeshClient::Compile (mm_pjrt_client.cc) defers one compile task per*)
(* module and local device; each calls LoadAndCompile (hlo_loader.cc),     *)
(* where compile_executable (executable_cache.cc) lets one of them run     *)
(* MultiMeshCompiler::Compile (mm_computation.cc).  The client then waits  *)
(* in FenceCompilation (zuku_execute_context_impl.cc).  The tasks it later *)
(* executes block in MultiMeshCompiler::Block until their module has been  *)
(* compiled.  A device runs one task at a time, in any order (the tasks    *)
(* have priorities); a task that blocks on a mutex or a condition variable *)
(* keeps its device.                                                       *)
(***************************************************************************)
EXTENDS Integers, Sequences, FiniteSets

CONSTANTS
  Clients,    \* threads that call Compile and then Execute
  Devices,    \* local devices, numbered
  Modules,    \* HLO modules, one compiler each
  NoDevice,   \* the owner of a free mutex
  Schedule,   \* the operations of each client: [module, devices] records
  FastPath    \* clients whose executable is small enough for the fast path

\* CreateTasks clones the modules of each Compile, which gives them new ids.  The
\* fast path needs a schedule of one operation.
ASSUME ScheduleAssumption ==
  /\ Devices \subseteq Nat /\ NoDevice \notin Devices
  /\ Schedule \in [Clients -> Seq([module: Modules, devices: SUBSET Devices])]
  /\ FastPath \subseteq Clients
  /\ \A c \in FastPath : Len(Schedule[c]) = 1
  /\ \A b, c \in Clients : b # c =>
       \A i \in 1 .. Len(Schedule[b]), j \in 1 .. Len(Schedule[c]) :
         Schedule[b][i].module # Schedule[c][j].module

VARIABLES
  client,               \* where each client is
  op,                   \* the operation it is at, of schedule_
  todo,                 \* the devices left in the loop over local devices
  already_built,        \* modules it has deferred compile tasks for
  pending_compilation_events, \* compile tasks not yet fenced
  all_compilations,     \* the event that each client waits for
  compile_task,         \* where the compile task of a module and device is
  cache_lock,           \* owner of the mutex of executable_cache.cc
  entry_lock,           \* owner of each Entry::lock
  entry_executable,     \* entries that hold an executable
  opt_module,           \* modules that no Compile has moved from
  executable,           \* computations with an XLA executable
  compilation_finished, \* compilers that have finished
  execute_task,         \* the tasks that execute an operation on a device
  aborted               \* the process is down: abort() or a null pointer

clientVars  == <<client, op, todo, already_built, all_compilations>>
compileVars == <<opt_module, executable, compilation_finished, aborted>>
cacheVars   == <<cache_lock, entry_lock, entry_executable>>
vars == <<clientVars, pending_compilation_events, compile_task, cacheVars,
          compileVars, execute_task>>

CompileTasks == Modules \X Devices
Ops(c)       == 1 .. Len(Schedule[c])
ExecuteTasks == UNION { {c} \X Ops(c) \X Devices : c \in Clients }

Init ==
  /\ client = [c \in Clients |-> IF c \in FastPath THEN "fast_path" ELSE "build"]
  /\ op = [c \in Clients |-> 0]
  /\ todo = [c \in Clients |-> {}]
  /\ already_built = [c \in Clients |-> {}]
  /\ pending_compilation_events = {}
  /\ all_compilations = [c \in Clients |-> {}]
  /\ compile_task = [t \in CompileTasks |-> "none"]
  /\ cache_lock = NoDevice
  /\ entry_lock = [m \in Modules |-> NoDevice]
  /\ entry_executable = {}
  /\ opt_module = Modules
  /\ executable = {}
  /\ compilation_finished = {}
  /\ execute_task = [e \in ExecuteTasks |-> "none"]
  /\ aborted = FALSE

\* A device runs a task from the moment it starts it until the task returns.
Idle(d) ==
  /\ \A t \in CompileTasks :
       t[2] = d => compile_task[t] \in {"none", "queued", "done"}
  /\ \A e \in ExecuteTasks :
       e[3] = d => execute_task[e] \in {"none", "queued", "done", "error"}

-----------------------------------------------------------------------------
(***************************************************************************)
(* MultiMeshClient::Compile, from the loop over the schedule on.           *)
(***************************************************************************)

\* The visitor of the next operation: nothing to do for a module that was
\* built before, else the loop over the local devices of the task.
NextOp(c) ==
  /\ client[c] = "build" /\ todo[c] = {} /\ op[c] < Len(Schedule[c])
  /\ op' = [op EXCEPT ![c] = @ + 1]
  /\ LET task == Schedule[c][op[c] + 1]
     IN  todo' = [todo EXCEPT ![c] = IF task.module \in already_built[c]
                                       THEN {} ELSE task.devices]
  /\ UNCHANGED <<client, already_built, all_compilations,
                 pending_compilation_events, compile_task, cacheVars,
                 compileVars, execute_task>>

CreateCompileTask(c) ==
  /\ client[c] = "build"
  /\ \E d \in todo[c] :
       LET module == Schedule[c][op[c]].module
       IN  /\ \A e \in todo[c] : d <= e
           /\ compile_task' = [compile_task EXCEPT ![<<module, d>>] = "queued"]
           /\ pending_compilation_events' =
                pending_compilation_events \cup {<<module, d>>}
           /\ already_built' = [already_built EXCEPT ![c] = @ \cup {module}]
           /\ todo' = [todo EXCEPT ![c] = @ \ {d}]
  /\ UNCHANGED <<client, op, all_compilations, cacheVars, compileVars,
                 execute_task>>

\* merge_events, then clear: the events of every client that created some.
FenceCompilation(c) ==
  /\ client[c] = "build" /\ todo[c] = {} /\ op[c] = Len(Schedule[c])
  /\ all_compilations' = [all_compilations EXCEPT ![c] = pending_compilation_events]
  /\ pending_compilation_events' = {}
  /\ client' = [client EXCEPT ![c] = "fence"]
  /\ UNCHANGED <<op, todo, already_built, compile_task, cacheVars, compileVars,
                 execute_task>>

\* A mistake that FenceMeansCompiled catches: the fence does not wait.
NoWait(c) == TRUE

\* The event that the client waits for has triggered.
AllCompilationsDone(c) == \A t \in all_compilations[c] : compile_task[t] = "done"

FenceReturns(c) ==
  /\ client[c] = "fence"
  /\ AllCompilationsDone(c)
  /\ client' = [client EXCEPT ![c] = "execute"]
  /\ op' = [op EXCEPT ![c] = 0]
  /\ UNCHANGED <<todo, already_built, pending_compilation_events,
                 all_compilations, compile_task, cacheVars, compileVars,
                 execute_task>>

\* A mistake that EveryTaskEnds catches: an exception leaves the compiler
\* unfinished.
CompileReturnsUnfinished(m) ==
  \/ /\ executable' = executable \cup {m}
     /\ compilation_finished' = compilation_finished \cup {m}
     /\ UNCHANGED aborted
  \/ UNCHANGED <<executable, aborted, compilation_finished>>

\* MultiMeshCompiler::Compile of module m once the XLA compiler returns: an
\* exception is logged and swallowed, an error status aborts the process; in
\* each case the compiler counts as finished.
CompileReturns(m) ==
  /\ compilation_finished' = compilation_finished \cup {m}
  /\ \/ executable' = executable \cup {m} /\ UNCHANGED aborted
     \/ UNCHANGED <<executable, aborted>>
     \/ aborted' = TRUE /\ UNCHANGED executable

\* The small executable of the fast path is compiled by the client itself (and
\* a second time by the native backend, which is external).
CompileFastPath(c) ==
  /\ client[c] = "fast_path"
  /\ CompileReturns(Schedule[c][1].module)
  /\ opt_module' = opt_module \ {Schedule[c][1].module}
  /\ op' = [op EXCEPT ![c] = Len(Schedule[c])]
  /\ client' = [client EXCEPT ![c] = "build"]
  /\ UNCHANGED <<todo, already_built, all_compilations,
                 pending_compilation_events, compile_task, cacheVars,
                 execute_task>>

\* A mistake that TypeOK catches: one operation too many.
HasNextOpOrEnd(c) == op[c] <= Len(Schedule[c])

HasNextOp(c) == op[c] < Len(Schedule[c])

\* Execute, the loop over schedule_: one task per local device of the operation.
CreateExecuteTasks(c) ==
  /\ client[c] = "execute"
  /\ IF HasNextOp(c)
       THEN /\ execute_task' =
                 [e \in ExecuteTasks |->
                    IF e[1] = c /\ e[2] = op[c] + 1
                         /\ e[3] \in Schedule[c][e[2]].devices
                      THEN "queued" ELSE execute_task[e]]
            /\ op' = [op EXCEPT ![c] = @ + 1]
            /\ UNCHANGED client
       ELSE /\ client' = [client EXCEPT ![c] = "returned"]
            /\ UNCHANGED <<op, execute_task>>
  /\ UNCHANGED <<todo, already_built, all_compilations,
                 pending_compilation_events, compile_task, cacheVars,
                 compileVars>>

-----------------------------------------------------------------------------
(***************************************************************************)
(* LoadAndCompile and ExecutableCache::compile_executable, on device d.    *)
(***************************************************************************)
Move(m, d, from, to) ==
  /\ compile_task[<<m, d>>] = from
  /\ compile_task' = [compile_task EXCEPT ![<<m, d>>] = to]
  /\ UNCHANGED <<clientVars, pending_compilation_events, execute_task>>

StartCompileTask(m, d) ==
  /\ Idle(d)
  /\ Move(m, d, "queued", "start")
  /\ UNCHANGED <<cacheVars, compileVars>>

LockCache(m, d) ==
  /\ cache_lock = NoDevice
  /\ cache_lock' = d
  /\ Move(m, d, "start", "lookup")
  /\ UNCHANGED <<entry_lock, entry_executable, compileVars>>

\* executables_[hlo_id] and cache_lock.unlock()
LookupEntry(m, d) ==
  /\ Move(m, d, "lookup", "entry")
  /\ cache_lock' = NoDevice
  /\ UNCHANGED <<entry_lock, entry_executable, compileVars>>

\* A mistake that CompiledOnce catches: the lock of the entry is not taken.
LockEntryUnguarded(m, d) ==
  /\ Move(m, d, "entry", "locked")
  /\ UNCHANGED <<cacheVars, compileVars>>

LockEntry(m, d) ==
  /\ entry_lock[m] = NoDevice
  /\ entry_lock' = [entry_lock EXCEPT ![m] = d]
  /\ Move(m, d, "entry", "locked")
  /\ UNCHANGED <<cache_lock, entry_executable, compileVars>>

\* Another task has compiled the module: return false, which unlocks.
AlreadyCompiled(m, d) ==
  /\ m \in entry_executable
  /\ Move(m, d, "locked", "done")
  /\ entry_lock' = [entry_lock EXCEPT ![m] = NoDevice]
  /\ UNCHANGED <<cache_lock, entry_executable, compileVars>>

\* MultiMeshXla::Compile moves from opt_module_; to compile a module that has
\* been moved from is undefined.
StartCompile(m, d) ==
  /\ m \notin entry_executable
  /\ Move(m, d, "locked", IF m \in opt_module THEN "compile" ELSE "undefined")
  /\ opt_module' = opt_module \ {m}
  /\ UNCHANGED <<cacheVars, executable, compilation_finished, aborted>>

Compile(m, d) ==
  /\ Move(m, d, "compile", "make_executable")
  /\ CompileReturns(m)
  /\ UNCHANGED <<cacheVars, opt_module>>

\* Block, then entry.executable = MakeExecutable(), which unlocks.
MakeExecutable(m, d) ==
  /\ m \in compilation_finished
  /\ Move(m, d, "make_executable", "done")
  /\ entry_executable' = entry_executable \cup {m}
  /\ entry_lock' = [entry_lock EXCEPT ![m] = NoDevice]
  /\ UNCHANGED <<cache_lock, compileVars>>

-----------------------------------------------------------------------------
(***************************************************************************)
(* RunExecutable (hlo_executor.cc) of the operation e, on its device.      *)
(***************************************************************************)
StartExecuteTask(e) ==
  /\ execute_task[e] = "queued" /\ Idle(e[3])
  /\ execute_task' = [execute_task EXCEPT ![e] = "block"]
  /\ UNCHANGED <<clientVars, pending_compilation_events, compile_task,
                 cacheVars, compileVars>>

\* MakeExecutable and Execute.  Block re-reads compilation_finished_ every second
\* and on notify_all.  The message of an execution that failed is thrown.  A
\* computation without an executable does not get as far as the check for it in
\* Execute: ReplicaCount and NumPartitions, for the device assignment, dereference
\* the null executable_ first, and the process is down.
RunExecutable(e) ==
  LET module == Schedule[e[1]][e[2]].module
  IN  /\ execute_task[e] = "block"
      /\ module \in compilation_finished
      /\ \/ /\ module \in executable
            /\ \E result \in {"done", "error"} :
                 execute_task' = [execute_task EXCEPT ![e] = result]
            /\ UNCHANGED aborted
         \/ /\ module \notin executable
            /\ aborted' = TRUE
            /\ UNCHANGED execute_task
      /\ UNCHANGED <<clientVars, pending_compilation_events, compile_task,
                     cacheVars, opt_module, executable, compilation_finished>>

-----------------------------------------------------------------------------

ClientStep(c) ==
  /\ ~aborted
  /\ \/ NextOp(c) \/ CreateCompileTask(c) \/ FenceCompilation(c)
     \/ FenceReturns(c) \/ CompileFastPath(c) \/ CreateExecuteTasks(c)

CompileStep(m, d) ==
  /\ ~aborted
  /\ \/ StartCompileTask(m, d) \/ LockCache(m, d) \/ LookupEntry(m, d)
     \/ LockEntry(m, d) \/ AlreadyCompiled(m, d) \/ StartCompile(m, d)
     \/ Compile(m, d) \/ MakeExecutable(m, d)

ExecuteStep(e) ==
  /\ ~aborted
  /\ StartExecuteTask(e) \/ RunExecutable(e)

Next ==
  \/ \E c \in Clients : ClientStep(c)
  \/ \E m \in Modules, d \in Devices : CompileStep(m, d)
  \/ \E e \in ExecuteTasks : ExecuteStep(e)

\* Client threads run, and a device goes on with the task it runs or, when it
\* is idle, starts one that is queued.  The XLA compiler returns.
Fairness ==
  /\ \A c \in Clients : WF_vars(ClientStep(c))
  /\ \A m \in Modules, d \in Devices : WF_vars(CompileStep(m, d))
  /\ \A e \in ExecuteTasks : WF_vars(ExecuteStep(e))

Spec == Init /\ [][Next]_vars /\ Fairness

-----------------------------------------------------------------------------

\* The types of the variables.
TypeOK ==
  /\ client \in [Clients -> {"fast_path", "build", "fence", "execute", "returned"}]
  /\ op \in [Clients -> Nat] /\ \A c \in Clients : op[c] <= Len(Schedule[c])
  /\ todo \in [Clients -> SUBSET Devices]
  /\ already_built \in [Clients -> SUBSET Modules]
  /\ pending_compilation_events \subseteq CompileTasks
  /\ all_compilations \in [Clients -> SUBSET CompileTasks]
  /\ compile_task \in [CompileTasks ->
       {"none", "queued", "start", "lookup", "entry", "locked", "compile",
        "undefined", "make_executable", "done"}]
  /\ cache_lock \in Devices \cup {NoDevice}
  /\ entry_lock \in [Modules -> Devices \cup {NoDevice}]
  /\ entry_executable \subseteq Modules
  /\ opt_module \subseteq Modules
  /\ executable \subseteq Modules
  /\ compilation_finished \subseteq Modules
  /\ execute_task \in [ExecuteTasks -> {"none", "queued", "block", "done", "error"}]
  /\ aborted \in BOOLEAN

\* Although every local device defers a compile task for a module, the locks of
\* ExecutableCache let exactly one of them compile it: no task compiles a module
\* whose opt_module_ was moved away, and no two compile it at the same time.
CompiledOnce ==
  /\ \A t \in CompileTasks : compile_task[t] # "undefined"
  /\ \A m \in Modules, d, e \in Devices :
       /\ compile_task[<<m, d>>] \in {"compile", "make_executable"}
       /\ compile_task[<<m, e>>] \in {"compile", "make_executable"}
       => d = e

\* mm_pjrt_client.cc: "we have to block on all the compile tasks finishing".
\* When the fence of a client has returned, every module it executes on a local
\* device has been compiled.
FenceMeansCompiled ==
  \A c \in Clients : client[c] \in {"execute", "returned"} =>
    \A i \in Ops(c) : Schedule[c][i].devices # {} =>
      /\ Schedule[c][i].module \in compilation_finished
      /\ \A d \in Devices :
           compile_task[<<Schedule[c][i].module, d>>] \in {"none", "done"}

\* Every Compile returns and every task that is executed ends, in a result or
\* in an error: no device waits for ever for a lock or in Block.  Only a failed
\* compilation stops this, and then the process does not hang but goes down, in
\* Compile or in the first task that executes the module.
EveryTaskEnds ==
  <>(\/ aborted /\ compilation_finished \ executable # {}
     \/ /\ \A c \in Clients : client[c] = "returned"
        /\ \A e \in ExecuteTasks : execute_task[e] \in {"none", "done", "error"})
=============================================================================
