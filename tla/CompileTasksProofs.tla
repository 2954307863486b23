------------------------- MODULE CompileTasksProofs -------------------------
(***************************************************************************)
(* For all clients, devices, modules and schedules: a module is compiled   *)
(* once, and the fence of the only client waits for what it executes.      *)
(***************************************************************************)
EXTENDS CompileTasks, TLAPS, SequenceTheorems

\* What the clients have deferred: a module that is not in already_built has no
\* compile task, so CreateCompileTask never restarts one that runs.
ClientInv ==
  /\ \A c \in Clients : todo[c] # {} => client[c] = "build" /\ op[c] \in Ops(c)
  /\ \A c \in Clients : client[c] \in {"fast_path", "build"} =>
       op[c] \in 0 .. Len(Schedule[c])
  /\ \A c \in Clients : \A d \in todo[c] :
       compile_task[<<Schedule[c][op[c]].module, d>>] = "none"
  /\ \A c \in Clients : \A i \in Ops(c) : \A d \in Devices :
       Schedule[c][i].module \notin already_built[c] =>
         compile_task[<<Schedule[c][i].module, d>>] = "none"

\* A client on the fast path defers no compile task.
FastPathInv ==
  /\ \A c \in Clients : client[c] = "fast_path" => c \in FastPath
  /\ \A c \in FastPath : /\ already_built[c] = {} /\ todo[c] = {}
                         /\ client[c] = "build" => op[c] = Len(Schedule[c])

\* The task that is inside the critical section of an entry holds its lock.
LockInv ==
  \A m \in Modules, d \in Devices :
    compile_task[<<m, d>>] \in {"locked", "compile", "make_executable"} =>
      entry_lock[m] = d

\* A module that was moved from has been compiled, or is compiled by the task
\* that holds its lock, or belongs to the fast path.
MovedInv ==
  /\ \A t \in CompileTasks : compile_task[t] # "undefined"
  /\ \A m \in Modules \ opt_module :
       \/ m \in entry_executable
       \/ \E d \in Devices : compile_task[<<m, d>>] \in {"compile", "make_executable"}
       \/ \E c \in FastPath : Schedule[c][1].module = m

Inv == TypeOK /\ ClientInv /\ FastPathInv /\ LockInv /\ MovedInv
-----------------------------------------------------------------------------

\* The operations of a client name modules and local devices, and no two
\* clients share a module.
LEMMA ScheduleFacts ==
  /\ \A c \in Clients : /\ Len(Schedule[c]) \in Nat
                        /\ Ops(c) = 1 .. Len(Schedule[c])
  /\ \A c \in Clients : \A i \in Ops(c) : /\ Schedule[c][i].module \in Modules
                                          /\ Schedule[c][i].devices \subseteq Devices
  /\ \A b, c \in Clients : b # c => \A i \in Ops(b), j \in Ops(c) :
       Schedule[b][i].module # Schedule[c][j].module
  /\ \A c \in FastPath : c \in Clients /\ Len(Schedule[c]) = 1 /\ 1 \in Ops(c)
<1>1. \A c \in Clients :
        Schedule[c] \in Seq([module: Modules, devices: SUBSET Devices])
  BY ScheduleAssumption
<1>2. \A c \in Clients : Len(Schedule[c]) \in Nat /\ Ops(c) = 1 .. Len(Schedule[c])
  BY <1>1, LenProperties DEF Ops
<1>3. ASSUME NEW c \in Clients, NEW i \in Ops(c)
      PROVE  /\ Schedule[c][i].module \in Modules
             /\ Schedule[c][i].devices \subseteq Devices
  <2>1. Schedule[c][i] \in [module: Modules, devices: SUBSET Devices]
    <3>1. i \in 1 .. Len(Schedule[c])
      BY <1>2
    <3>2. Schedule[c] \in Seq([module: Modules, devices: SUBSET Devices])
      BY <1>1
    <3> QED
      BY <3>1, <3>2, ElementOfSeq, Zenon
  <2> QED
    BY <2>1
<1>4. \A b, c \in Clients : b # c => \A i \in Ops(b), j \in Ops(c) :
        Schedule[b][i].module # Schedule[c][j].module
  BY <1>2, ScheduleAssumption
<1>5. \A c \in FastPath : c \in Clients /\ Len(Schedule[c]) = 1 /\ 1 \in Ops(c)
  BY <1>2, ScheduleAssumption
<1> QED
  BY <1>2, <1>3, <1>4, <1>5

\* The invariant holds initially.
LEMMA InitInv == Init => Inv
<1> SUFFICES ASSUME Init PROVE Inv
  OBVIOUS
<1>1. TypeOK
  <2>1. op \in [Clients -> Nat] /\ \A c \in Clients : op[c] <= Len(Schedule[c])
    BY ScheduleFacts DEF Init
  <2> QED
    BY <2>1 DEF Init, TypeOK
<1>2. ClientInv
  BY ScheduleFacts DEF Init, ClientInv, CompileTasks
<1>3. FastPathInv
  BY ScheduleFacts DEF Init, FastPathInv
<1>4. LockInv /\ MovedInv
  BY DEF Init, LockInv, MovedInv, CompileTasks
<1> QED
  BY <1>1, <1>2, <1>3, <1>4 DEF Inv

\* A step of a client that defers no compile task and compiles nothing leaves
\* the locks and the modules alone.
LEMMA QuietClientInv ==
  ASSUME Inv, UNCHANGED <<compile_task, cacheVars, compileVars>>
  PROVE  LockInv' /\ MovedInv'
BY DEF Inv, LockInv, MovedInv, cacheVars, compileVars

\* NextOp begins an operation: no compile task and no lock changes.
LEMMA NextOpInv == ASSUME Inv, NEW c \in Clients, NextOp(c) PROVE Inv'
<1>1. /\ client[c] = "build" /\ todo[c] = {} /\ op[c] < Len(Schedule[c])
      /\ op' = [op EXCEPT ![c] = op[c] + 1]
      /\ todo' = [todo EXCEPT ![c] =
                    IF Schedule[c][op[c] + 1].module \in already_built[c]
                      THEN {} ELSE Schedule[c][op[c] + 1].devices]
      /\ UNCHANGED <<client, already_built, all_compilations,
                     pending_compilation_events, compile_task, cacheVars,
                     compileVars, execute_task>>
  BY DEF NextOp
<1>2. TypeOK /\ op[c] \in Nat
  BY DEF Inv, TypeOK
<1>3. op[c] + 1 \in Ops(c)
  BY <1>1, <1>2, ScheduleFacts
<1>4. TypeOK'
  <2>1. Schedule[c][op[c] + 1].devices \subseteq Devices
    BY <1>3, ScheduleFacts
  <2> QED
    BY <1>1, <1>2, <2>1 DEF TypeOK, cacheVars, compileVars
<1>5. c \notin FastPath
  <2>1. op[c] # Len(Schedule[c])
    BY <1>1, <1>2, ScheduleFacts
  <2> QED
    BY <1>1, <2>1 DEF Inv, FastPathInv
<1>6. ClientInv'
  <2>1. op'[c] = op[c] + 1 /\ \A b \in Clients \ {c} : op'[b] = op[b] /\ todo'[b] = todo[b]
    BY <1>1, <1>2 DEF TypeOK
  <2>2. \A d \in todo'[c] : /\ d \in Devices
                            /\ compile_task[<<Schedule[c][op[c] + 1].module, d>>] = "none"
    <3>1. todo'[c] = IF Schedule[c][op[c] + 1].module \in already_built[c]
                       THEN {} ELSE Schedule[c][op[c] + 1].devices
      BY <1>1, <1>2 DEF TypeOK
    <3>2. Schedule[c][op[c] + 1].devices \subseteq Devices
      BY <1>3, ScheduleFacts
    <3> QED
      BY <1>3, <3>1, <3>2 DEF Inv, ClientInv
  <2>3. op[c] + 1 \in 0 .. Len(Schedule[c])
    BY <1>3, ScheduleFacts
  <2> QED
    BY <1>1, <1>3, <2>1, <2>2, <2>3 DEF Inv, ClientInv
<1>7. FastPathInv'
  BY <1>1, <1>2, <1>5 DEF Inv, FastPathInv, TypeOK
<1>8. LockInv' /\ MovedInv'
  BY <1>1, QuietClientInv
<1> QED
  BY <1>4, <1>6, <1>7, <1>8 DEF Inv

\* CreateCompileTask starts a task that did not exist.
LEMMA CreateCompileTaskInv ==
  ASSUME Inv, NEW c \in Clients, CreateCompileTask(c) PROVE Inv'
<1> DEFINE m == Schedule[c][op[c]].module
<1>1. PICK d \in todo[c] :
        /\ client[c] = "build"
        /\ compile_task' = [compile_task EXCEPT ![<<m, d>>] = "queued"]
        /\ pending_compilation_events' = pending_compilation_events \cup {<<m, d>>}
        /\ already_built' = [already_built EXCEPT ![c] = already_built[c] \cup {m}]
        /\ todo' = [todo EXCEPT ![c] = todo[c] \ {d}]
        /\ UNCHANGED <<client, op, all_compilations, cacheVars, compileVars,
                       execute_task>>
  BY DEF CreateCompileTask
<1>2. TypeOK /\ d \in Devices
  BY DEF Inv, TypeOK
<1>3. op[c] \in Ops(c) /\ m \in Modules /\ c \notin FastPath
  <2>1. op[c] \in Ops(c)
    BY DEF Inv, ClientInv
  <2>2. c \notin FastPath
    BY DEF Inv, FastPathInv
  <2> QED
    BY <2>1, <2>2, ScheduleFacts
<1>4. <<m, d>> \in CompileTasks /\ compile_task[<<m, d>>] = "none"
  <2>1. compile_task[<<m, d>>] = "none"
    BY DEF Inv, ClientInv
  <2> QED
    BY <1>2, <1>3, <2>1 DEF CompileTasks
<1>5. \A b \in Clients \ {c} : \A i \in Ops(b) : Schedule[b][i].module # m
  BY <1>3, ScheduleFacts
<1> HIDE DEF m
<1>6. /\ compile_task'[<<m, d>>] = "queued"
      /\ \A t \in CompileTasks : t # <<m, d>> => compile_task'[t] = compile_task[t]
      /\ compile_task' \in [CompileTasks ->
           {"none", "queued", "start", "lookup", "entry", "locked", "compile",
            "undefined", "make_executable", "done"}]
  BY <1>1, <1>2, <1>4 DEF TypeOK
<1>7. TypeOK'
  BY <1>1, <1>2, <1>3, <1>4, <1>6 DEF TypeOK, cacheVars, compileVars
<1>8. ClientInv'
  <2>1. /\ \A b \in Clients : todo'[b] \subseteq todo[b]
        /\ d \notin todo'[c]
        /\ already_built'[c] = already_built[c] \cup {m}
        /\ \A b \in Clients \ {c} : already_built'[b] = already_built[b]
        /\ op' = op /\ client' = client
    BY <1>1, <1>2 DEF TypeOK
  <2>2. ASSUME NEW b \in Clients, NEW e \in todo'[b]
        PROVE  compile_task'[<<Schedule[b][op[b]].module, e>>] = "none"
    <3>1. e \in todo[b] /\ op[b] \in Ops(b) /\ e \in Devices
      BY <1>2, <2>1, <2>2 DEF Inv, ClientInv, TypeOK
    <3>2. compile_task[<<Schedule[b][op[b]].module, e>>] = "none"
      BY <3>1 DEF Inv, ClientInv
    <3>3. <<Schedule[b][op[b]].module, e>> \in CompileTasks
      BY <3>1, ScheduleFacts DEF CompileTasks
    <3>4. <<Schedule[b][op[b]].module, e>> # <<m, d>>
      BY <1>5, <2>1, <2>2, <3>1
    <3> QED
      BY <1>6, <3>2, <3>3, <3>4
  <2>3. ASSUME NEW b \in Clients, NEW i \in Ops(b), NEW e \in Devices,
               Schedule[b][i].module \notin already_built'[b]
        PROVE  compile_task'[<<Schedule[b][i].module, e>>] = "none"
    <3>1. Schedule[b][i].module # m
      BY <1>5, <2>1, <2>3
    <3>2. compile_task[<<Schedule[b][i].module, e>>] = "none"
      <4>1. Schedule[b][i].module \notin already_built[b]
        BY <2>1, <2>3
      <4> QED
        BY <4>1 DEF Inv, ClientInv
    <3>3. <<Schedule[b][i].module, e>> \in CompileTasks
      BY ScheduleFacts DEF CompileTasks
    <3> QED
      BY <1>6, <3>1, <3>2, <3>3
  <2>4. \A b \in Clients : todo'[b] # {} => client[b] = "build" /\ op[b] \in Ops(b)
    BY <2>1 DEF Inv, ClientInv
  <2>5. \A b \in Clients : client[b] \in {"fast_path", "build"} =>
          op[b] \in 0 .. Len(Schedule[b])
    BY DEF Inv, ClientInv
  <2> QED
    BY <2>1, <2>2, <2>3, <2>4, <2>5 DEF ClientInv
<1>9. FastPathInv'
  BY <1>1, <1>2, <1>3 DEF Inv, FastPathInv, TypeOK
<1>10. LockInv'
  <2>1. \A n \in Modules, e \in Devices : <<n, e>> \in CompileTasks
    BY DEF CompileTasks
  <2> QED
    BY <1>1, <1>6, <2>1 DEF Inv, LockInv, cacheVars
<1>11. MovedInv'
  <2>1. \A n \in Modules, e \in Devices : <<n, e>> \in CompileTasks
    BY DEF CompileTasks
  <2>2. \A n \in Modules, e \in Devices :
          compile_task[<<n, e>>] \in {"compile", "make_executable"} =>
            compile_task'[<<n, e>>] \in {"compile", "make_executable"}
    BY <1>4, <1>6, <2>1
  <2>3. \A t \in CompileTasks : compile_task'[t] # "undefined"
    BY <1>6 DEF Inv, MovedInv
  <2> QED
    BY <1>1, <2>2, <2>3 DEF Inv, MovedInv, cacheVars, compileVars
<1> QED
  BY <1>7, <1>8, <1>9, <1>10, <1>11 DEF Inv

\* The fence, Execute and the fast path.
LEMMA FenceCompilationInv ==
  ASSUME Inv, NEW c \in Clients, FenceCompilation(c) PROVE Inv'
<1>1. TypeOK'
  BY DEF Inv, TypeOK, FenceCompilation, cacheVars, compileVars
<1>2. ClientInv' /\ FastPathInv'
  BY DEF Inv, TypeOK, ClientInv, FastPathInv, FenceCompilation
<1>3. LockInv' /\ MovedInv'
  BY QuietClientInv DEF FenceCompilation
<1> QED
  BY <1>1, <1>2, <1>3 DEF Inv

\* FenceReturns only moves its client on to Execute.
LEMMA FenceReturnsInv ==
  ASSUME Inv, NEW c \in Clients, FenceReturns(c) PROVE Inv'
<1> USE DEF FenceReturns
<1>0. /\ op' \in [Clients -> Nat] /\ \A b \in Clients : op'[b] <= Len(Schedule[b])
      /\ client'[c] = "execute" /\ client[c] = "fence"
      /\ \A b \in Clients \ {c} : client'[b] = client[b] /\ op'[b] = op[b]
  BY ScheduleFacts DEF Inv, TypeOK
<1>1. TypeOK'
  BY <1>0 DEF Inv, TypeOK, cacheVars, compileVars
<1>2. ClientInv' /\ FastPathInv'
  <2>1. ClientInv /\ FastPathInv /\ FastPath \subseteq Clients
    BY ScheduleAssumption DEF Inv
  <2>2. UNCHANGED <<todo, already_built, compile_task>>
    OBVIOUS
  <2> HIDE DEF FenceReturns
  <2> QED
    BY <1>0, <2>1, <2>2 DEF ClientInv, FastPathInv
<1>3. LockInv' /\ MovedInv'
  BY QuietClientInv DEF FenceReturns
<1> QED
  BY <1>1, <1>2, <1>3 DEF Inv

\* CreateExecuteTasks leaves everything that Compile wrote alone.
LEMMA CreateExecuteTasksInv ==
  ASSUME Inv, NEW c \in Clients, CreateExecuteTasks(c) PROVE Inv'
<1> USE DEF CreateExecuteTasks, HasNextOp
<1>a. /\ client[c] = "execute"
      /\ UNCHANGED <<todo, already_built, all_compilations,
                     pending_compilation_events, compile_task, cacheVars,
                     compileVars>>
  OBVIOUS
<1>b. /\ client' \in [Clients -> {"fast_path", "build", "fence", "execute",
                                  "returned"}]
      /\ op' \in [Clients -> Nat] /\ \A b \in Clients : op'[b] <= Len(Schedule[b])
      /\ client'[c] \in {"execute", "returned"}
      /\ \A b \in Clients \ {c} : client'[b] = client[b] /\ op'[b] = op[b]
  <2>1. TypeOK
    BY DEF Inv
  <2>2. CASE op[c] < Len(Schedule[c])
    <3>1. client' = client /\ op' = [op EXCEPT ![c] = op[c] + 1]
      BY <2>2
    <3> QED
      BY <1>a, <2>1, <2>2, <3>1, ScheduleFacts DEF TypeOK
  <2>3. CASE ~(op[c] < Len(Schedule[c]))
    <3>1. client' = [client EXCEPT ![c] = "returned"] /\ op' = op
      BY <2>3
    <3> QED
      BY <1>a, <2>1, <3>1 DEF TypeOK
  <2> QED
    BY <2>2, <2>3
<1>c. execute_task' \in [ExecuteTasks -> {"none", "queued", "block", "done", "error"}]
  <2>1. execute_task \in [ExecuteTasks -> {"none", "queued", "block", "done", "error"}]
    BY DEF Inv, TypeOK
  <2>2. CASE op[c] < Len(Schedule[c])
    <3> DEFINE Queued(e) == /\ e[1] = c /\ e[2] = op[c] + 1
                            /\ e[3] \in Schedule[c][e[2]].devices
    <3>1. execute_task' = [e \in ExecuteTasks |->
                             IF Queued(e) THEN "queued" ELSE execute_task[e]]
      BY <2>2
    <3> HIDE DEF Queued
    <3> QED
      BY <2>1, <3>1
  <2> QED
    BY <2>1, <2>2
<1> HIDE DEF CreateExecuteTasks, HasNextOp
<1>1. TypeOK'
  <2>1. TypeOK
    BY DEF Inv
  <2> QED
    BY <1>a, <1>b, <1>c, <2>1 DEF TypeOK, cacheVars, compileVars
<1>2. ClientInv' /\ FastPathInv'
  <2>1. todo[c] = {}
    BY <1>a DEF Inv, ClientInv
  <2>2. ClientInv'
    BY <1>a, <1>b, <2>1 DEF Inv, ClientInv
  <2>3. FastPathInv'
    <3>1. FastPathInv /\ FastPath \subseteq Clients
      BY ScheduleAssumption DEF Inv
    <3> QED
      BY <1>a, <1>b, <3>1 DEF FastPathInv
  <2> QED
    BY <2>2, <2>3
<1>3. LockInv' /\ MovedInv'
  BY QuietClientInv DEF CreateExecuteTasks
<1> QED
  BY <1>1, <1>2, <1>3 DEF Inv

\* CompileFastPath compiles a module that no compile task is created for.
LEMMA CompileFastPathInv ==
  ASSUME Inv, NEW c \in Clients, CompileFastPath(c) PROVE Inv'
<1>1. /\ client[c] = "fast_path" /\ c \in FastPath
      /\ op' = [op EXCEPT ![c] = Len(Schedule[c])]
      /\ client' = [client EXCEPT ![c] = "build"]
      /\ opt_module' = opt_module \ {Schedule[c][1].module}
      /\ CompileReturns(Schedule[c][1].module)
      /\ UNCHANGED <<todo, already_built, all_compilations,
                     pending_compilation_events, compile_task, cacheVars,
                     execute_task>>
  BY DEF CompileFastPath, Inv, FastPathInv
<1>2. Len(Schedule[c]) \in Nat /\ Schedule[c][1].module \in Modules
  BY <1>1, ScheduleFacts
<1>3. TypeOK'
  <2>1. op' \in [Clients -> Nat] /\ \A b \in Clients : op'[b] <= Len(Schedule[b])
    BY <1>1, <1>2 DEF Inv, TypeOK
  <2> QED
    BY <1>1, <1>2, <2>1 DEF Inv, TypeOK, CompileReturns, cacheVars
<1>4. ClientInv'
  <2>1. todo[c] = {}
    BY <1>1 DEF Inv, FastPathInv
  <2>2. Len(Schedule[c]) \in 0 .. Len(Schedule[c])
    BY <1>2
  <2>3. \A b \in Clients \ {c} : op'[b] = op[b] /\ client'[b] = client[b]
    BY <1>1 DEF Inv, TypeOK
  <2>4. op'[c] = Len(Schedule[c])
    BY <1>1 DEF Inv, TypeOK
  <2> QED
    BY <1>1, <2>1, <2>2, <2>3, <2>4 DEF Inv, ClientInv
<1>5. FastPathInv'
  BY <1>1 DEF Inv, TypeOK, FastPathInv
<1>6. LockInv'
  BY <1>1 DEF Inv, LockInv, cacheVars
<1>7. MovedInv'
  BY <1>1 DEF Inv, MovedInv, cacheVars
<1> QED
  BY <1>3, <1>4, <1>5, <1>6, <1>7 DEF Inv

-----------------------------------------------------------------------------

\* A compile task that moves on touches no client and no other task.
LEMMA MoveFacts ==
  ASSUME Inv, NEW m \in Modules, NEW d \in Devices, NEW from, NEW to,
         Move(m, d, from, to), from # "none", to # "none"
  PROVE  /\ compile_task[<<m, d>>] = from /\ compile_task'[<<m, d>>] = to
         /\ \A n \in Modules, e \in Devices :
              <<n, e>> # <<m, d>> => compile_task'[<<n, e>>] = compile_task[<<n, e>>]
         /\ \A t \in CompileTasks :
              t # <<m, d>> => compile_task'[t] = compile_task[t]
         /\ ClientInv' /\ FastPathInv'
<1>1. /\ compile_task[<<m, d>>] = from
      /\ compile_task' = [compile_task EXCEPT ![<<m, d>>] = to]
      /\ UNCHANGED clientVars
  BY DEF Move
<1>2. /\ <<m, d>> \in CompileTasks
      /\ \A n \in Modules, e \in Devices : <<n, e>> \in CompileTasks
      /\ DOMAIN compile_task = CompileTasks
  BY DEF CompileTasks, Inv, TypeOK
<1>3. /\ compile_task'[<<m, d>>] = to
      /\ \A t \in CompileTasks : t # <<m, d>> => compile_task'[t] = compile_task[t]
  BY <1>1, <1>2
<1>4. \A n \in Modules, e \in Devices :
        <<n, e>> # <<m, d>> => compile_task'[<<n, e>>] = compile_task[<<n, e>>]
  BY <1>2, <1>3
<1>5. \A n \in Modules, e \in Devices :
        compile_task[<<n, e>>] = "none" => compile_task'[<<n, e>>] = "none"
  BY <1>1, <1>4
<1>6. ClientInv'
  <2>1. todo' = todo /\ op' = op /\ client' = client /\ already_built' = already_built
    BY <1>1 DEF clientVars
  <2>2. \A c \in Clients : \A e \in todo[c] :
          op[c] \in Ops(c) /\ Schedule[c][op[c]].module \in Modules /\ e \in Devices
    BY ScheduleFacts DEF Inv, TypeOK, ClientInv
  <2>3. \A c \in Clients : \A i \in Ops(c) : Schedule[c][i].module \in Modules
    BY ScheduleFacts
  <2> QED
    BY <1>5, <2>1, <2>2, <2>3 DEF Inv, ClientInv
<1>7. FastPathInv'
  BY <1>1 DEF Inv, FastPathInv, clientVars
<1> QED
  BY <1>1, <1>3, <1>4, <1>6, <1>7

\* Starting a task, looking up its entry and waiting for its lock.
LEMMA ApproachInv ==
  ASSUME Inv, NEW m \in Modules, NEW d \in Devices,
         StartCompileTask(m, d) \/ LockCache(m, d) \/ LookupEntry(m, d)
  PROVE  Inv'
<1>1. PICK from, to :
        /\ Move(m, d, from, to)
        /\ from \in {"queued", "start", "lookup"} /\ to \in {"start", "lookup", "entry"}
        /\ UNCHANGED <<entry_lock, entry_executable, compileVars>>
        /\ cache_lock' \in Devices \cup {NoDevice}
  BY DEF StartCompileTask, LockCache, LookupEntry, cacheVars, Inv, TypeOK
<1>2. /\ compile_task[<<m, d>>] = from /\ compile_task'[<<m, d>>] = to
      /\ \A n \in Modules, e \in Devices :
           <<n, e>> # <<m, d>> => compile_task'[<<n, e>>] = compile_task[<<n, e>>]
      /\ \A t \in CompileTasks : t # <<m, d>> => compile_task'[t] = compile_task[t]
      /\ ClientInv' /\ FastPathInv'
  BY <1>1, MoveFacts
<1>3. TypeOK'
  BY <1>1 DEF Inv, TypeOK, Move, clientVars, compileVars
<1>4. LockInv'
  BY <1>1, <1>2 DEF Inv, LockInv
<1>5. MovedInv'
  BY <1>1, <1>2 DEF Inv, MovedInv, compileVars
<1> QED
  BY <1>2, <1>3, <1>4, <1>5 DEF Inv

\* Only one task is between lock and unlock of an entry.
LEMMA LockEntryInv ==
  ASSUME Inv, NEW m \in Modules, NEW d \in Devices, LockEntry(m, d)
  PROVE  Inv'
<1>1. /\ Move(m, d, "entry", "locked") /\ entry_lock[m] = NoDevice
      /\ entry_lock' = [entry_lock EXCEPT ![m] = d]
      /\ UNCHANGED <<cache_lock, entry_executable, compileVars>>
  BY DEF LockEntry
<1>2. /\ compile_task[<<m, d>>] = "entry" /\ compile_task'[<<m, d>>] = "locked"
      /\ \A n \in Modules, e \in Devices :
           <<n, e>> # <<m, d>> => compile_task'[<<n, e>>] = compile_task[<<n, e>>]
      /\ \A t \in CompileTasks : t # <<m, d>> => compile_task'[t] = compile_task[t]
      /\ ClientInv' /\ FastPathInv'
  BY <1>1, MoveFacts
<1>3. TypeOK'
  BY <1>1 DEF Inv, TypeOK, Move, clientVars, compileVars
<1>4. LockInv'
  <2>1. \A e \in Devices :
          compile_task[<<m, e>>] \notin {"locked", "compile", "make_executable"}
    BY <1>1, ScheduleAssumption DEF Inv, LockInv
  <2>2. entry_lock'[m] = d /\ \A n \in Modules \ {m} : entry_lock'[n] = entry_lock[n]
    BY <1>1 DEF Inv, TypeOK
  <2> QED
    BY <1>2, <2>1, <2>2 DEF Inv, LockInv
<1>5. MovedInv'
  BY <1>1, <1>2 DEF Inv, MovedInv, compileVars
<1> QED
  BY <1>2, <1>3, <1>4, <1>5 DEF Inv

\* The holder of the lock leaves: the module is in the cache.
LEMMA LeaveInv ==
  ASSUME Inv, NEW m \in Modules, NEW d \in Devices,
         AlreadyCompiled(m, d) \/ MakeExecutable(m, d)
  PROVE  Inv'
<1>1. PICK from \in {"locked", "make_executable"} :
        /\ Move(m, d, from, "done")
        /\ entry_lock' = [entry_lock EXCEPT ![m] = NoDevice]
        /\ entry_executable' = entry_executable \cup {m}
        /\ UNCHANGED <<cache_lock, compileVars>>
  BY DEF AlreadyCompiled, MakeExecutable
<1>2. /\ compile_task[<<m, d>>] = from /\ compile_task'[<<m, d>>] = "done"
      /\ \A n \in Modules, e \in Devices :
           <<n, e>> # <<m, d>> => compile_task'[<<n, e>>] = compile_task[<<n, e>>]
      /\ \A t \in CompileTasks : t # <<m, d>> => compile_task'[t] = compile_task[t]
      /\ ClientInv' /\ FastPathInv'
  BY <1>1, MoveFacts
<1>3. TypeOK'
  BY <1>1 DEF Inv, TypeOK, Move, clientVars, compileVars
<1>4. LockInv'
  <2>1. \A e \in Devices \ {d} :
          compile_task[<<m, e>>] \notin {"locked", "compile", "make_executable"}
    BY <1>1, <1>2 DEF Inv, LockInv
  <2>2. \A n \in Modules \ {m} : entry_lock'[n] = entry_lock[n]
    BY <1>1 DEF Inv, TypeOK
  <2> QED
    BY <1>2, <2>1, <2>2 DEF Inv, LockInv
<1>5. MovedInv'
  BY <1>1, <1>2 DEF Inv, MovedInv, compileVars
<1> QED
  BY <1>2, <1>3, <1>4, <1>5 DEF Inv

\* The heart of the argument: the holder of the lock finds no executable, so
\* the module has not been moved from.
LEMMA StartCompileInv ==
  ASSUME Inv, NEW m \in Modules, NEW d \in Devices, StartCompile(m, d)
  PROVE  Inv'
<1>1. /\ Move(m, d, "locked", IF m \in opt_module THEN "compile" ELSE "undefined")
      /\ m \notin entry_executable
      /\ opt_module' = opt_module \ {m}
      /\ UNCHANGED <<cacheVars, executable, compilation_finished, aborted>>
  BY DEF StartCompile
<1>2. compile_task[<<m, d>>] = "locked"
  BY <1>1 DEF Move
<1>3. m \in opt_module
  <2> SUFFICES ASSUME m \notin opt_module PROVE FALSE
    OBVIOUS
  <2>1. CASE \E e \in Devices : compile_task[<<m, e>>] \in {"compile", "make_executable"}
    <3>1. PICK e \in Devices : compile_task[<<m, e>>] \in {"compile", "make_executable"}
      BY <2>1
    <3>2. e # d
      BY <1>2, <3>1
    <3> QED
      BY <1>2, <3>1, <3>2 DEF Inv, LockInv
  <2>2. CASE \E c \in FastPath : Schedule[c][1].module = m
    <3>1. PICK c \in FastPath : Schedule[c][1].module = m
      BY <2>2
    <3>2. c \in Clients /\ 1 \in Ops(c) /\ already_built[c] = {}
      BY ScheduleFacts DEF Inv, FastPathInv
    <3>3. compile_task[<<m, d>>] = "none"
      BY <3>1, <3>2 DEF Inv, ClientInv
    <3> QED
      BY <1>2, <3>3
  <2> QED
    BY <1>1, <2>1, <2>2 DEF Inv, MovedInv
<1>4. Move(m, d, "locked", "compile")
  BY <1>1, <1>3
<1>5. /\ compile_task'[<<m, d>>] = "compile"
      /\ \A n \in Modules, e \in Devices :
           <<n, e>> # <<m, d>> => compile_task'[<<n, e>>] = compile_task[<<n, e>>]
      /\ \A t \in CompileTasks : t # <<m, d>> => compile_task'[t] = compile_task[t]
      /\ ClientInv' /\ FastPathInv'
  BY <1>4, MoveFacts
<1>6. TypeOK'
  BY <1>1, <1>4 DEF Inv, TypeOK, Move, clientVars, cacheVars
<1>7. LockInv'
  BY <1>1, <1>2, <1>5 DEF Inv, LockInv, cacheVars
<1>8. MovedInv'
  BY <1>1, <1>2, <1>5 DEF Inv, MovedInv, cacheVars
<1> QED
  BY <1>5, <1>6, <1>7, <1>8 DEF Inv

\* Compile ends under the lock of the entry, which the device keeps.
LEMMA CompileInv ==
  ASSUME Inv, NEW m \in Modules, NEW d \in Devices, Compile(m, d)
  PROVE  Inv'
<1>1. /\ Move(m, d, "compile", "make_executable") /\ CompileReturns(m)
      /\ UNCHANGED <<cacheVars, opt_module>>
  BY DEF Compile
<1>2. /\ compile_task[<<m, d>>] = "compile" /\ compile_task'[<<m, d>>] = "make_executable"
      /\ \A n \in Modules, e \in Devices :
           <<n, e>> # <<m, d>> => compile_task'[<<n, e>>] = compile_task[<<n, e>>]
      /\ \A t \in CompileTasks : t # <<m, d>> => compile_task'[t] = compile_task[t]
      /\ ClientInv' /\ FastPathInv'
  BY <1>1, MoveFacts
<1>3. TypeOK'
  BY <1>1 DEF Inv, TypeOK, Move, CompileReturns, clientVars, cacheVars
<1>4. LockInv'
  BY <1>1, <1>2 DEF Inv, LockInv, cacheVars
<1>5. MovedInv'
  BY <1>1, <1>2 DEF Inv, MovedInv, cacheVars
<1> QED
  BY <1>2, <1>3, <1>4, <1>5 DEF Inv

\* Executing a task writes nothing that Compile wrote; it can take the process down.
LEMMA ExecuteStepFrame ==
  ASSUME Inv, NEW e \in ExecuteTasks, ExecuteStep(e)
  PROVE  /\ UNCHANGED <<clientVars, pending_compilation_events, compile_task, cacheVars,
                        opt_module, executable, compilation_finished>>
         /\ execute_task' \in [ExecuteTasks -> {"none", "queued", "block", "done", "error"}]
         /\ aborted' \in BOOLEAN
<1>1. CASE StartExecuteTask(e)
  BY <1>1 DEF StartExecuteTask, Inv, TypeOK, compileVars
<1>2. CASE RunExecutable(e)
  BY <1>2 DEF RunExecutable, Inv, TypeOK
<1> QED
  BY <1>1, <1>2 DEF ExecuteStep

\* A step of a task that executes keeps the invariant.
LEMMA ExecuteStepInv ==
  ASSUME Inv, NEW e \in ExecuteTasks, ExecuteStep(e)
  PROVE  Inv'
<1>1. TypeOK' /\ ClientInv' /\ FastPathInv'
  BY ExecuteStepFrame DEF Inv, TypeOK, ClientInv, FastPathInv, clientVars, cacheVars
<1>2. LockInv' /\ MovedInv'
  BY ExecuteStepFrame DEF Inv, LockInv, MovedInv, cacheVars
<1> QED
  BY <1>1, <1>2 DEF Inv

-----------------------------------------------------------------------------

\* Inv is an invariant for all clients, devices, modules and schedules.
THEOREM Invariance == Spec => []Inv
<1>1. ASSUME Inv, [Next]_vars PROVE Inv'
  <2>1. ASSUME NEW c \in Clients, ClientStep(c) PROVE Inv'
    BY <1>1, <2>1, NextOpInv, CreateCompileTaskInv, FenceCompilationInv,
       FenceReturnsInv, CompileFastPathInv, CreateExecuteTasksInv DEF ClientStep
  <2>2. ASSUME NEW m \in Modules, NEW d \in Devices, CompileStep(m, d) PROVE Inv'
    BY <1>1, <2>2, ApproachInv, LockEntryInv, LeaveInv, StartCompileInv,
       CompileInv DEF CompileStep
  <2>3. CASE UNCHANGED vars
    <3>1. UNCHANGED <<client, op, todo, already_built, all_compilations,
                      pending_compilation_events, compile_task, execute_task,
                      cacheVars, compileVars>>
      BY <2>3 DEF vars, clientVars
    <3>2. TypeOK' /\ ClientInv' /\ FastPathInv'
      BY <1>1, <3>1 DEF Inv, TypeOK, ClientInv, FastPathInv, cacheVars, compileVars
    <3>3. LockInv' /\ MovedInv'
      BY <1>1, <3>1, QuietClientInv
    <3> QED
      BY <3>2, <3>3 DEF Inv
  <2> QED
    BY <1>1, <2>1, <2>2, <2>3, ExecuteStepInv DEF Next
<1> QED
  BY InitInv, <1>1, PTL DEF Spec

\* ExecutableCache compiles every module at most once, however many devices
\* defer a compile task for it and however they interleave.
THEOREM CompilesOnce == Spec => []CompiledOnce
<1>1. ASSUME Inv PROVE CompiledOnce
  <2>1. \A t \in CompileTasks : compile_task[t] # "undefined"
    BY <1>1 DEF Inv, MovedInv
  <2>2. ASSUME NEW m \in Modules, NEW d \in Devices, NEW e \in Devices,
               compile_task[<<m, d>>] \in {"compile", "make_executable"},
               compile_task[<<m, e>>] \in {"compile", "make_executable"}
        PROVE  d = e
    BY <1>1, <2>2 DEF Inv, LockInv
  <2> QED
    BY <2>1, <2>2 DEF CompiledOnce
<1> QED
  BY <1>1, Invariance, PTL
-----------------------------------------------------------------------------
(***************************************************************************)
(* What the fence of the only client has waited for.  A second client can  *)
(* clear the events of the first, which is why there is only one here.     *)
(***************************************************************************)
SingleClient == \A b, c \in Clients : b = c

\* The modules of the operations that a client has passed have been built, one
\* that is built has a compile task, and the fast path has compiled its module.
BuiltInv ==
  /\ \A c \in Clients \ FastPath : client[c] = "build" =>
       \A i \in 1 .. op[c] : Schedule[c][i].devices # {} =>
         \/ Schedule[c][i].module \in already_built[c]
         \/ i = op[c] /\ todo[c] # {}
  /\ \A c \in Clients \ FastPath : client[c] \in {"fence", "execute", "returned"} =>
       \A i \in Ops(c) : Schedule[c][i].devices # {} =>
         Schedule[c][i].module \in already_built[c]
  /\ \A c \in Clients : \A m \in already_built[c] :
       \E d \in Devices : compile_task[<<m, d>>] # "none"
  /\ \A c \in FastPath : client[c] # "fast_path" =>
       Schedule[c][1].module \in compilation_finished

\* A compile task returns when the module has been compiled.
FinishedInv ==
  /\ \A m \in Modules, d \in Devices :
       compile_task[<<m, d>>] = "done" => m \in compilation_finished
  /\ entry_executable \subseteq compilation_finished

\* Every compile task is waited for, and none is left after the fence.
WaitInv ==
  \A c \in Clients : \A m \in Modules, d \in Devices :
    /\ client[c] \in {"fast_path", "build"} /\ compile_task[<<m, d>>] # "none" =>
         <<m, d>> \in pending_compilation_events
    /\ client[c] = "fence" /\ compile_task[<<m, d>>] # "none" =>
         <<m, d>> \in all_compilations[c]
    /\ client[c] \in {"execute", "returned"} =>
         compile_task[<<m, d>>] \in {"none", "done"}

FenceInv == BuiltInv /\ FinishedInv /\ WaitInv

\* Nothing has been deferred or compiled initially.
LEMMA InitFenceInv == Init => FenceInv
<1> SUFFICES ASSUME Init PROVE FenceInv
  OBVIOUS
<1>1. \A m \in Modules, d \in Devices : compile_task[<<m, d>>] = "none"
  BY DEF Init, CompileTasks
<1>2. \A c \in Clients : /\ client[c] = IF c \in FastPath THEN "fast_path" ELSE "build"
                         /\ op[c] = 0 /\ already_built[c] = {}
  BY DEF Init
<1>3. BuiltInv
  BY <1>2, ScheduleAssumption DEF BuiltInv
<1>4. FinishedInv /\ WaitInv
  BY <1>1, <1>2 DEF Init, FinishedInv, WaitInv
<1> QED
  BY <1>3, <1>4 DEF FenceInv

\* NextOp passes an operation whose module is built or has devices left.
LEMMA NextOpFence ==
  ASSUME SingleClient, Inv, FenceInv, NEW c \in Clients, NextOp(c)
  PROVE  FenceInv'
<1>1. /\ client[c] = "build" /\ todo[c] = {} /\ op[c] \in Nat
      /\ op'[c] = op[c] + 1
      /\ todo'[c] = IF Schedule[c][op[c] + 1].module \in already_built[c]
                      THEN {} ELSE Schedule[c][op[c] + 1].devices
      /\ UNCHANGED <<client, already_built, all_compilations, compile_task,
                     pending_compilation_events, entry_executable,
                     compilation_finished>>
  BY DEF NextOp, Inv, TypeOK, cacheVars, compileVars
<1>2. \A b \in Clients : b = c
  BY DEF SingleClient
<1>3. BuiltInv'
  <2>1. ASSUME c \notin FastPath, NEW i \in 1 .. op[c] + 1, Schedule[c][i].devices # {}
        PROVE  Schedule[c][i].module \in already_built[c] \/ (i = op[c] + 1 /\ todo'[c] # {})
    <3>1. CASE i = op[c] + 1
      BY <1>1, <2>1, <3>1
    <3>2. CASE i \in 1 .. op[c]
      BY <1>1, <2>1, <3>2 DEF FenceInv, BuiltInv
    <3> QED
      BY <1>1, <2>1, <3>1, <3>2
  <2> QED
    BY <1>1, <1>2, <2>1 DEF FenceInv, BuiltInv
<1>4. FinishedInv' /\ WaitInv'
  BY <1>1 DEF FenceInv, FinishedInv, WaitInv
<1> QED
  BY <1>3, <1>4 DEF FenceInv

\* CreateCompileTask builds the module and leaves its event pending.
LEMMA CreateCompileTaskFence ==
  ASSUME SingleClient, Inv, FenceInv, NEW c \in Clients, CreateCompileTask(c)
  PROVE  FenceInv'
<1> DEFINE m == Schedule[c][op[c]].module
<1>1. PICK d \in todo[c] :
        /\ client[c] = "build"
        /\ compile_task' = [compile_task EXCEPT ![<<m, d>>] = "queued"]
        /\ pending_compilation_events' = pending_compilation_events \cup {<<m, d>>}
        /\ already_built' = [already_built EXCEPT ![c] = already_built[c] \cup {m}]
        /\ UNCHANGED <<client, op, all_compilations, entry_executable, compilation_finished>>
  BY DEF CreateCompileTask, cacheVars, compileVars
<1>2. TypeOK /\ d \in Devices /\ op[c] \in Ops(c) /\ c \notin FastPath
  BY DEF Inv, TypeOK, ClientInv, FastPathInv
<1>3. m \in Modules /\ op[c] \in Nat
  BY <1>2, ScheduleFacts
<1> HIDE DEF m
<1>4. /\ compile_task'[<<m, d>>] = "queued"
      /\ already_built'[c] = already_built[c] \cup {m}
      /\ \A n \in Modules, e \in Devices : <<n, e>> # <<m, d>> =>
           compile_task'[<<n, e>>] = compile_task[<<n, e>>]
  BY <1>1, <1>2, <1>3 DEF TypeOK, CompileTasks
<1>5. \A b \in Clients : b = c
  BY DEF SingleClient
<1>6. BuiltInv'
  <2>1. \A i \in 1 .. op[c] : Schedule[c][i].devices # {} =>
          Schedule[c][i].module \in already_built'[c]
    <3> SUFFICES ASSUME NEW i \in 1 .. op[c], Schedule[c][i].devices # {}
                 PROVE  Schedule[c][i].module \in already_built'[c]
      OBVIOUS
    <3>1. Schedule[c][i].module \in already_built[c] \/ i = op[c]
      BY <1>1, <1>2 DEF FenceInv, BuiltInv
    <3> QED
      BY <1>4, <3>1 DEF m
  <2>2. ASSUME NEW n \in already_built'[c]
        PROVE  \E e \in Devices : compile_task'[<<n, e>>] # "none"
    <3>1. CASE n = m
      BY <1>2, <1>4, <3>1
    <3>2. CASE n # m
      <4>1. n \in already_built[c] /\ n \in Modules
        BY <1>2, <1>4, <3>2 DEF TypeOK
      <4>2. PICK e \in Devices : compile_task[<<n, e>>] # "none"
        BY <4>1 DEF FenceInv, BuiltInv
      <4> QED
        BY <1>4, <3>2, <4>1, <4>2
    <3> QED
      BY <3>1, <3>2
  <2>3. client'[c] = "build" /\ op'[c] = op[c] /\ \A b \in FastPath : FALSE
    BY <1>1, <1>2, <1>5, ScheduleFacts
  <2> QED
    BY <1>5, <2>1, <2>2, <2>3 DEF BuiltInv
<1>7. FinishedInv'
  BY <1>1, <1>4 DEF FenceInv, FinishedInv
<1>8. WaitInv'
  BY <1>1, <1>4, <1>5 DEF FenceInv, WaitInv
<1> QED
  BY <1>6, <1>7, <1>8 DEF FenceInv

\* FenceCompilation waits for every event that is pending.
LEMMA FenceCompilationFence ==
  ASSUME SingleClient, Inv, FenceInv, NEW c \in Clients, FenceCompilation(c)
  PROVE  FenceInv'
<1>1. /\ client[c] = "build" /\ todo[c] = {} /\ op[c] = Len(Schedule[c])
      /\ all_compilations'[c] = pending_compilation_events
      /\ client'[c] = "fence"
      /\ UNCHANGED <<op, already_built, compile_task, entry_executable, compilation_finished>>
  BY DEF FenceCompilation, Inv, TypeOK, cacheVars, compileVars
<1>2. \A b \in Clients : b = c
  BY DEF SingleClient
<1>3. BuiltInv'
  <2>1. c \notin FastPath => \A i \in Ops(c) : Schedule[c][i].devices # {} =>
          Schedule[c][i].module \in already_built[c]
    BY <1>1, ScheduleFacts DEF FenceInv, BuiltInv
  <2>2. \A b \in FastPath : b \in Clients
    BY ScheduleFacts
  <2> QED
    BY <1>1, <1>2, <2>1, <2>2 DEF FenceInv, BuiltInv
<1>4. FinishedInv' /\ WaitInv'
  BY <1>1, <1>2 DEF FenceInv, FinishedInv, WaitInv
<1> QED
  BY <1>3, <1>4 DEF FenceInv

\* When the fence returns, every compile task has returned.
LEMMA FenceReturnsFence ==
  ASSUME SingleClient, Inv, FenceInv, NEW c \in Clients, FenceReturns(c)
  PROVE  FenceInv'
<1>1. /\ client[c] = "fence" /\ client'[c] = "execute" /\ AllCompilationsDone(c)
      /\ UNCHANGED <<already_built, compile_task, entry_executable, compilation_finished>>
  BY DEF FenceReturns, Inv, TypeOK, cacheVars, compileVars
<1>2. \A b \in Clients : b = c
  BY DEF SingleClient
<1>3. BuiltInv'
  <2>1. \A b \in FastPath : b \in Clients
    BY ScheduleFacts
  <2> QED
    BY <1>1, <1>2, <2>1 DEF FenceInv, BuiltInv
<1>4. \A m \in Modules, d \in Devices : compile_task[<<m, d>>] \in {"none", "done"}
  BY <1>1 DEF FenceInv, WaitInv, AllCompilationsDone
<1>5. FinishedInv' /\ WaitInv'
  BY <1>1, <1>2, <1>4 DEF FenceInv, FinishedInv, WaitInv
<1> QED
  BY <1>3, <1>5 DEF FenceInv

\* The fast path compiles its only module and has nothing to fence.
LEMMA CompileFastPathFence ==
  ASSUME SingleClient, Inv, FenceInv, NEW c \in Clients, CompileFastPath(c)
  PROVE  FenceInv'
<1>1. /\ client[c] = "fast_path" /\ client'[c] = "build"
      /\ compilation_finished' = compilation_finished \cup {Schedule[c][1].module}
      /\ UNCHANGED <<already_built, compile_task, pending_compilation_events,
                     all_compilations, entry_executable>>
  BY DEF CompileFastPath, CompileReturns, Inv, TypeOK, cacheVars
<1>2. c \in FastPath /\ \A b \in Clients : b = c
  BY <1>1 DEF SingleClient, Inv, FastPathInv
<1>3. BuiltInv'
  BY <1>1, <1>2, ScheduleFacts, ZenonT(30) DEF FenceInv, BuiltInv
<1>4. FinishedInv' /\ WaitInv'
  BY <1>1, <1>2 DEF FenceInv, FinishedInv, WaitInv
<1> QED
  BY <1>3, <1>4 DEF FenceInv

\* Execute and the tasks it creates leave the compilation alone.
LEMMA ExecuteFence ==
  ASSUME SingleClient, Inv, FenceInv,
         UNCHANGED <<already_built, compile_task, pending_compilation_events,
                     all_compilations, entry_executable, compilation_finished>>,
         \/ UNCHANGED <<client, op, todo>>
         \/ \E c \in Clients : CreateExecuteTasks(c)
  PROVE  FenceInv'
<1>1. CASE UNCHANGED <<client, op, todo>>
  BY <1>1 DEF FenceInv, BuiltInv, FinishedInv, WaitInv
<1>2. ASSUME NEW c \in Clients, CreateExecuteTasks(c) PROVE FenceInv'
  <2>1. client[c] = "execute" /\ client'[c] \in {"execute", "returned"}
    BY <1>2 DEF CreateExecuteTasks, Inv, TypeOK
  <2>2. \A b \in Clients : b = c
    BY DEF SingleClient
  <2>3. \A b \in FastPath : b \in Clients
    BY ScheduleFacts
  <2> QED
    BY <2>1, <2>2, <2>3 DEF FenceInv, BuiltInv, FinishedInv, WaitInv
<1> QED
  BY <1>1, <1>2

\* A compile task that runs is waited for, and returns once its module has been
\* compiled, by itself or by the one that had the lock before.
LEMMA CompileStepFence ==
  ASSUME Inv, FenceInv, NEW m \in Modules, NEW d \in Devices, CompileStep(m, d)
  PROVE  FenceInv'
<1>1. PICK from, to :
        /\ Move(m, d, from, to)
        /\ from \notin {"none", "done"} /\ to # "none"
        /\ to = "done" => m \in compilation_finished
        /\ compilation_finished \subseteq compilation_finished'
        /\ entry_executable' \subseteq compilation_finished'
  <2>1. entry_executable \subseteq compilation_finished
    BY DEF FenceInv, FinishedInv
  <2>2. CASE StartCompileTask(m, d)
    BY <2>1, <2>2 DEF StartCompileTask, cacheVars, compileVars
  <2>3. CASE LockCache(m, d)
    BY <2>1, <2>3 DEF LockCache, compileVars
  <2>4. CASE LookupEntry(m, d)
    BY <2>1, <2>4 DEF LookupEntry, compileVars
  <2>5. CASE LockEntry(m, d)
    BY <2>1, <2>5 DEF LockEntry, compileVars
  <2>6. CASE AlreadyCompiled(m, d)
    BY <2>1, <2>6 DEF AlreadyCompiled, compileVars
  <2>7. CASE StartCompile(m, d)
    BY <2>1, <2>7 DEF StartCompile, cacheVars
  <2>8. CASE Compile(m, d)
    BY <2>1, <2>8 DEF Compile, CompileReturns, cacheVars
  <2>9. CASE MakeExecutable(m, d)
    BY <2>1, <2>9 DEF MakeExecutable, compileVars
  <2> QED
    BY <2>2, <2>3, <2>4, <2>5, <2>6, <2>7, <2>8, <2>9 DEF CompileStep
<1>2. /\ compile_task[<<m, d>>] = from /\ compile_task'[<<m, d>>] = to
      /\ \A n \in Modules, e \in Devices :
           <<n, e>> # <<m, d>> => compile_task'[<<n, e>>] = compile_task[<<n, e>>]
  BY <1>1, MoveFacts
<1>3. UNCHANGED <<client, op, todo, already_built, all_compilations,
                  pending_compilation_events>>
  BY <1>1 DEF Move, clientVars
<1>4. \A n \in Modules, e \in Devices :
        compile_task'[<<n, e>>] # "none" <=> compile_task[<<n, e>>] # "none"
  BY <1>1, <1>2
<1>5. BuiltInv'
  <2>1. \A c \in Clients : already_built[c] \subseteq Modules
    BY DEF Inv, TypeOK
  <2> QED
    BY <1>1, <1>3, <1>4, <2>1 DEF FenceInv, BuiltInv
<1>6. FinishedInv'
  BY <1>1, <1>2 DEF FenceInv, FinishedInv
<1>7. WaitInv'
  <2>1. \A c \in Clients : client[c] \notin {"execute", "returned"}
    BY <1>1, <1>2 DEF FenceInv, WaitInv
  <2> QED
    BY <1>3, <1>4, <2>1 DEF FenceInv, WaitInv
<1> QED
  BY <1>5, <1>6, <1>7 DEF FenceInv

\* With one client, FenceInv holds in every state.
THEOREM FenceInvariance == ASSUME SingleClient PROVE Spec => []FenceInv
<1>1. Inv /\ FenceInv /\ [Next]_vars => FenceInv'
  <2> SUFFICES ASSUME Inv, FenceInv, [Next]_vars PROVE FenceInv'
    OBVIOUS
  <2>1. ASSUME NEW c \in Clients, ClientStep(c) PROVE FenceInv'
    <3>1. CASE CreateExecuteTasks(c)
      <4>1. UNCHANGED <<already_built, compile_task, pending_compilation_events,
                        all_compilations, entry_executable, compilation_finished>>
        BY <3>1 DEF CreateExecuteTasks, cacheVars, compileVars
      <4> QED
        BY <3>1, <4>1, ExecuteFence
    <3> QED
      BY <2>1, <3>1, NextOpFence, CreateCompileTaskFence, FenceCompilationFence,
         FenceReturnsFence, CompileFastPathFence DEF ClientStep
  <2>2. ASSUME NEW m \in Modules, NEW d \in Devices, CompileStep(m, d) PROVE FenceInv'
    BY <2>2, CompileStepFence
  <2>3. ASSUME NEW e \in ExecuteTasks, ExecuteStep(e) PROVE FenceInv'
    <3>1. UNCHANGED <<clientVars, compile_task, pending_compilation_events, cacheVars,
                      compilation_finished>>
      BY <2>3, ExecuteStepFrame
    <3> QED
      BY <3>1, ExecuteFence DEF clientVars, cacheVars
  <2>4. CASE UNCHANGED vars
    BY <2>4, ExecuteFence DEF vars, clientVars, cacheVars, compileVars
  <2> QED
    BY <2>1, <2>2, <2>3, <2>4 DEF Next
<1> QED
  BY InitFenceInv, Invariance, <1>1, PTL DEF Spec

\* With one client, whatever its schedule and the interleaving of the compile
\* tasks: when FenceCompilation has returned, every module that the client
\* executes on a local device is compiled and no compile task of it is left
\* ("we have to block on all the compile tasks finishing", mm_pjrt_client.cc).
THEOREM FenceSound == ASSUME SingleClient PROVE Spec => []FenceMeansCompiled
<1>1. Inv /\ FenceInv => FenceMeansCompiled
  <2> SUFFICES ASSUME Inv, FenceInv, NEW c \in Clients, client[c] \in {"execute", "returned"},
                      NEW i \in Ops(c), Schedule[c][i].devices # {}
               PROVE  /\ Schedule[c][i].module \in compilation_finished
                      /\ \A d \in Devices :
                           compile_task[<<Schedule[c][i].module, d>>] \in {"none", "done"}
    BY DEF FenceMeansCompiled
  <2>1. Schedule[c][i].module \in Modules
    BY ScheduleFacts
  <2>2. \A d \in Devices : compile_task[<<Schedule[c][i].module, d>>] \in {"none", "done"}
    BY <2>1 DEF FenceInv, WaitInv
  <2>3. CASE c \in FastPath
    <3>1. i = 1
      BY <2>3, ScheduleFacts
    <3> QED
      BY <2>2, <2>3, <3>1 DEF FenceInv, BuiltInv
  <2>4. CASE c \notin FastPath
    <3>1. Schedule[c][i].module \in already_built[c]
      BY <2>4 DEF FenceInv, BuiltInv
    <3>2. PICK d \in Devices : compile_task[<<Schedule[c][i].module, d>>] # "none"
      BY <3>1 DEF FenceInv, BuiltInv
    <3> QED
      BY <2>1, <2>2, <3>2 DEF FenceInv, FinishedInv
  <2> QED
    BY <2>3, <2>4
<1> QED
  BY Invariance, FenceInvariance, <1>1, PTL

\* For all clients, devices, modules and schedules, the state of the compilation
\* is well typed; no client goes past the end of its schedule.
THEOREM TypeCorrect == Spec => []TypeOK
<1>1. Inv => TypeOK
  BY DEF Inv
<1> QED
  BY Invariance, <1>1, PTL
=============================================================================
