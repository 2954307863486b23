---------------------------- MODULE TaskSchedule ----------------------------
(***************************************************************************)
(* MpmdPartitionIntoTasks, mpmd_partition.cc: MpmdScheduler turns the named*)
(* program into stores and a schedule of tasks and reshards, with one      *)
(* module per computation whose inputs and outputs may share memory; and   *)
(* Execute, mm_pjrt_executable.cc, which gives the stores memory and runs  *)
(* the schedule.  Zuku runs the operations on a store in schedule order,   *)
(* so the run is modelled as that sequence.                                *)
(***************************************************************************)
EXTENDS BufferNames, InsertReshard, FiniteSetsExt

VARIABLES
  phase,      \* "name", "schedule", "run", "done" or "error"
  stores,     \* scheduling_name_to_buffer_index_
  last_use,   \* the last reader of a value in post order
  cursor,     \* the instruction that is scheduled next
  schedule,
  modules,    \* computation -> its input/output aliases, pairs <<output, input>>
  rooted,     \* output number -> the location of root_stores
  memory,     \* location -> the value it holds
  ran         \* the number of operations run

scheduleVars == <<phase, stores, last_use, cursor, schedule, modules, rooted, memory, ran>>

vars == <<nameVars, scheduleVars>>

Init ==
  /\ NameInit
  /\ phase = "name"
  /\ stores = <<>> /\ last_use = <<>>
  /\ cursor = 1 /\ schedule = <<>> /\ modules = <<>>
  /\ rooted = <<>> /\ memory = <<>> /\ ran = 0

AssignNames ==
  /\ phase = "name" /\ NameNext
  /\ UNCHANGED scheduleVars

-----------------------------------------------------------------------------
Store(type, index) == [type |-> type, index |-> index]

\* GetRootIndex: the first root tuple operand that is the instruction.
RootIndex(i) == SelectInSeq(program.roots, LAMBDA r : r = i)

Position(i) == SelectInSeq(program.order, LAMBDA j : j = i)

\* The instruction of a set that comes first in post order.
First(S) == CHOOSE i \in S : \A j \in S : Position(i) <= Position(j)

Sharing(x) == {v \in Values(program) : name[v] = x}

Params(x) == {v \in Sharing(x) : Op(program, v) = "parameter"}

Results(x) == {v \in Sharing(x) : IsRoot(program, v)}

SchedulingNames == {name[v] : v \in Values(program)}

TemporaryNames == {x \in SchedulingNames : Params(x) \cup Results(x) = {}}

\* AddStore: parameters and results are entered first, and emplace keeps the store that a
\* name already has; the temporaries are then numbered in post order.
AddStore(x) ==
  IF x \in TemporaryNames
    THEN Store("TEMP", Cardinality({y \in TemporaryNames :
                                      Position(First(Sharing(y))) < Position(First(Sharing(x)))}))
  ELSE LET i == First(Params(x) \cup Results(x))
       IN  IF i \in Params(x) THEN Store("PARAM", program.n[i].index)
           ELSE Store("ROOT", RootIndex(i))

\* LogUseOrder: the last reader of every operand.
LastReader(v) ==
  SelectLastInSeq(program.order,
    LAMBDA u : u \in Operations(program) /\ v \in Elements(program.n[u].in))

\* The first three loops of AddTasksFromEntryComputation.
AddStores ==
  /\ phase = "name" /\ Named
  /\ stores' = [x \in SchedulingNames |-> AddStore(x)]
  /\ last_use' = [v \in Values(program) |->
                    IF LastReader(v) = 0 THEN None ELSE program.order[LastReader(v)]]
  /\ phase' = "schedule"
  /\ UNCHANGED <<nameVars, cursor, schedule, modules, rooted, memory, ran>>

-----------------------------------------------------------------------------
Scheduling(ops) ==
  /\ phase = "schedule" /\ cursor <= Len(program.order)
  /\ Op(program, program.order[cursor]) \in ops

GetStore(v) == stores[name[v]]

SliceOffset == Store("TEMP", -1)

\* sorted_users[user->tuple_index()] = user: every output of a call has a get-tuple-element.
SortedUsers(call) ==
  LET users == Outputs(program, call)
  IN  [k \in 1 .. Cardinality(users) |-> CHOOSE g \in users : program.n[g].index = k - 1]

SpmdHloModuleTask(call) ==
  LET users == SortedUsers(call)
      in    == program.n[call].in
  IN  [op |-> call,
       inputs  |-> [k \in DOMAIN in |->
                      IF Op(program, in[k]) = "offset" THEN SliceOffset ELSE GetStore(in[k])],
       outputs |-> [j \in DOMAIN users |-> GetStore(users[j])]]

\* Mutant: a parameter is donated to the first task that reads it.
AnyUsedParams(task) == {k \in DOMAIN task.inputs : task.inputs[k].type = "PARAM"}

\* The inputs of a task that are parameters of the executable it reads last.
LastUsedParams(task) ==
  {k \in DOMAIN task.inputs :
     task.inputs[k].type = "PARAM" /\ last_use[program.n[task.op].in[k]] = task.op}

\* The aliases the user configured between a parameter and a result.
UserAliases(task) ==
  {a \in (DOMAIN task.outputs) \X LastUsedParams(task) :
     /\ task.inputs[a[2]].index \in DOMAIN program.alias
     /\ task.outputs[a[1]] = Store("ROOT", program.alias[task.inputs[a[2]].index])}

\* Scalars are never donated.
Donors(task) ==
  {k \in LastUsedParams(task) :
     /\ task.inputs[k].index \notin DOMAIN program.alias
     /\ task.inputs[k].index \in program.donors
     /\ program.n[program.n[task.op].in[k]].shape > 1}

\* in_out_name_alias: input_names keeps the last input of a name, and the last output
\* that has the name of an input replaces an earlier one.
NameAliases(task) ==
  LET in     == program.n[task.op].in
      users  == SortedUsers(task.op)
      Pairs  == {a \in (DOMAIN users) \X (DOMAIN in) :
                   Op(program, in[a[2]]) # "offset" /\ name[users[a[1]]] = name[in[a[2]]]}
  IN  {a \in Pairs : \A b \in Pairs : /\ b[1] = a[1] => b[2] <= a[2]
                                      /\ b[2] = a[2] => b[1] <= a[1]}

AliasedOutputs(aliases) == {a[1] : a \in aliases}

AliasedInputs(aliases) == {a[2] : a \in aliases}

\* The outputs that may take the memory of a donor: not temporaries.
Donees(task, aliases) ==
  {j \in DOMAIN task.outputs :
     task.outputs[j].type # "TEMP" /\ j \notin AliasedOutputs(aliases)}

OutputShape(task, j) == program.n[SortedUsers(task.op)[j]].shape

InputShape(task, k) == program.n[program.n[task.op].in[k]].shape

\* FindBestMatch: an output takes a donor its value is computed from, of the same shape.
\* Which ones it finds depends on the inside of the computation: any matching.
BestMatches(task, aliases) ==
  LET free  == Donors(task) \ AliasedInputs(aliases)
      pairs == {a \in Donees(task, aliases) \X free :
                  OutputShape(task, a[1]) = InputShape(task, a[2])}
  IN  {m \in SUBSET pairs : \A a, b \in m : a # b => a[1] # b[1] /\ a[2] # b[2]}

\* Build: of the donors and donees of one size, the first is matched with the first.
Rank(S, x) == Cardinality({y \in S : y < x})

SizeMatches(task, aliases) ==
  LET free     == Donors(task) \ AliasedInputs(aliases)
      From(n)  == {k \in free : InputShape(task, k) = n}
      To(n)    == {j \in Donees(task, aliases) : OutputShape(task, j) = n}
  IN  {a \in Donees(task, aliases) \X free :
         LET n == InputShape(task, a[2])
         IN  a[1] \in To(n) /\ Rank(To(n), a[1]) = Rank(From(n), a[2])}

\* SetUpAlias refuses an output that has an alias, Verify an input that has two.
IsValid(aliases) ==
  \A a, b \in aliases : a # b => a[1] # b[1] /\ a[2] # b[2]

\* The alias configurations MpmdInputOutputBufferAlias may leave a module with.
AliasConfigs(task) ==
  LET set == UserAliases(task) \cup NameAliases(task)
  IN  {set \cup best \cup SizeMatches(task, set \cup best) : best \in BestMatches(task, set)}

\* AddHloModuleTask: a computation that has a module keeps it, aliases included.
AddHloModuleTask ==
  /\ Scheduling({"call"})
  /\ LET task == SpmdHloModuleTask(program.order[cursor])
         comp == program.n[task.op].comp
         With(config) == [c \in DOMAIN modules \cup {comp} |->
                            IF c = comp THEN config ELSE modules[c]]
     IN  /\ modules' \in IF comp \in DOMAIN modules THEN {modules}
                         ELSE {With(config) : config \in AliasConfigs(task)}
         /\ phase' = IF IsValid(modules'[comp]) THEN phase ELSE "error"
         /\ schedule' = Append(schedule, task)
  /\ cursor' = cursor + 1
  /\ UNCHANGED <<nameVars, stores, last_use, rooted, memory, ran>>

IsScheduled(i) == \E k \in DOMAIN schedule : schedule[k].op = i

Reshard(i) ==
  [op |-> i, inputs |-> <<GetStore(program.n[i].in[1])>>, outputs |-> <<GetStore(i)>>]

\* Mutant: already_scheduled_ is not looked at.
AllReshards(reshards) == reshards

\* The reshards that are not in already_scheduled_.
Unscheduled(reshards) == {i \in reshards : ~IsScheduled(i)}

\* users() lists the reshards as they were created.
InOrder(S) == [k \in 1 .. Cardinality(S) |-> CHOOSE i \in S : Rank(S, i) = k - 1]

\* AddReshardTask for each of the reshards.
AddReshardTasks(reshards) ==
  LET added == InOrder(Unscheduled(reshards))
  IN  schedule' = schedule \o [k \in DOMAIN added |-> Reshard(added[k])]

\* PrioritizeReshardsInSchedule: the reshards of an output follow its task.
PrioritizeReshards ==
  /\ Scheduling({"gte"})
  /\ AddReshardTasks({u \in Readers(program, program.order[cursor]) : Op(program, u) = "reshard"})
  /\ cursor' = cursor + 1
  /\ UNCHANGED <<nameVars, phase, stores, last_use, modules, rooted, memory, ran>>

AddReshardTask ==
  /\ Scheduling({"reshard"})
  /\ AddReshardTasks({program.order[cursor]})
  /\ cursor' = cursor + 1
  /\ UNCHANGED <<nameVars, phase, stores, last_use, modules, rooted, memory, ran>>

ScheduleNothing ==
  /\ Scheduling({"parameter", "offset"})
  /\ cursor' = cursor + 1
  /\ UNCHANGED <<nameVars, phase, stores, last_use, schedule, modules, rooted, memory, ran>>

-----------------------------------------------------------------------------
\* The input whose memory the compiled module writes an output to, if there is one.
OutputAlias(task, j) ==
  IF Op(program, task.op) # "call" THEN {}
  ELSE {a[2] : a \in {b \in modules[program.n[task.op].comp] : b[1] = j}}

\* The positions of the schedule and the outputs there that write a result.
RootWrites(index) ==
  {w \in (DOMAIN schedule) \X (1 .. Cardinality(Ids(program))) :
     /\ w[2] \in DOMAIN schedule[w[1]].outputs
     /\ schedule[w[1]].outputs[w[2]] = Store("ROOT", index)}

\* add_root_store: the first of them decides where the result is, in the store of a
\* parameter whose memory it takes or in a store of its own.
RootStore(index) ==
  LET w       == CHOOSE x \in RootWrites(index) : \A y \in RootWrites(index) :
                   x[1] < y[1] \/ (x[1] = y[1] /\ x[2] <= y[2])
      task    == schedule[w[1]]
      donated == {k \in OutputAlias(task, w[2]) : task.inputs[k].type = "PARAM"}
  IN  IF donated = {} THEN Store("ROOT", index) ELSE task.inputs[CHOOSE k \in donated : TRUE]

\* Execute: the stores of parameters, results and temporaries.
PrepareStores ==
  /\ phase = "schedule" /\ cursor > Len(program.order)
  /\ rooted' = [k \in {j \in DOMAIN program.roots : RootWrites(j) # {}} |-> RootStore(k)]
  /\ memory' = [s \in Range(stores) |->
                  IF s.type = "PARAM"
                    THEN CHOOSE i \in Ids(program) :
                           Op(program, i) = "parameter" /\ program.n[i].index = s.index
                    ELSE None]
  /\ phase' = "run"
  /\ UNCHANGED <<nameVars, stores, last_use, cursor, schedule, modules, ran>>

\* get_store_handle
Location(store) == IF store.type = "ROOT" THEN rooted[store.index] ELSE store

\* The module writes an aliased output to the memory of its input.
WriteLocation(task, j) ==
  LET aliased == OutputAlias(task, j)
  IN  Location(IF aliased = {} THEN task.outputs[j]
               ELSE task.inputs[CHOOSE k \in aliased : TRUE])

OutputValue(task, j) ==
  IF Op(program, task.op) = "call" THEN SortedUsers(task.op)[j] ELSE task.op

OperandsAreHeld(task) ==
  \A k \in DOMAIN task.inputs :
    task.inputs[k] # SliceOffset =>
      memory[Location(task.inputs[k])] = program.n[task.op].in[k]

\* An operation that reads anything but its operands computes garbage, here None.
RunOperation ==
  /\ phase = "run" /\ ran < Len(schedule)
  /\ LET task == schedule[ran + 1]
         held == OperandsAreHeld(task)
         Writers(loc) == {j \in DOMAIN task.outputs :
                         /\ WriteLocation(task, j) = loc
                         /\ \A i \in j + 1 .. Len(task.outputs) : WriteLocation(task, i) # loc}
     IN  memory' = [loc \in DOMAIN memory |->
                      IF Writers(loc) = {} THEN memory[loc]
                      ELSE IF held THEN OutputValue(task, CHOOSE j \in Writers(loc) : TRUE)
                      ELSE None]
  /\ ran' = ran + 1
  /\ UNCHANGED <<nameVars, phase, stores, last_use, cursor, schedule, modules, rooted>>

\* Mutant: the last operation of the schedule is not issued.
FinishedEarly ==
  /\ phase = "run" /\ ran + 1 >= Len(schedule)
  /\ phase' = "done"
  /\ UNCHANGED <<nameVars, stores, last_use, cursor, schedule, modules, rooted, memory, ran>>

Finished ==
  /\ phase = "run" /\ ran = Len(schedule)
  /\ phase' = "done"
  /\ UNCHANGED <<nameVars, stores, last_use, cursor, schedule, modules, rooted, memory, ran>>

Next ==
  \/ AssignNames \/ AddStores
  \/ AddHloModuleTask \/ PrioritizeReshards \/ AddReshardTask \/ ScheduleNothing
  \/ PrepareStores \/ RunOperation \/ Finished

\* The compiler is one thread that runs to its end, and Execute issues every operation.
Spec == Init /\ [][Next]_vars /\ WF_vars(Next)

-----------------------------------------------------------------------------
TypeOK ==
  /\ NameTypeOK
  /\ phase \in {"name", "schedule", "run", "done", "error"}
  /\ phase # "name" => Named /\ DOMAIN stores = SchedulingNames
  /\ cursor \in 1 .. Len(program.order) + 1
  /\ \A k \in DOMAIN schedule : schedule[k].op \in Operations(program)
  /\ ran \in 0 .. Len(schedule)

\* The call or reshard that computes a value.
Producer(v) == IF Op(program, v) = "gte" THEN program.n[v].in[1] ELSE v

\* The schedule is a topological order of the program although reshards are moved forward
\* in it: no operation is in it twice (already_scheduled_), each comes after those that
\* compute its operands (PrioritizeReshardsInSchedule), and when the stores are prepared
\* every operation of the post order is in it (mpmd_partition.cc:353, 700).
ScheduleFollowsDataflow ==
  /\ \A j, k \in DOMAIN schedule : schedule[j].op = schedule[k].op => j = k
  /\ \A k \in DOMAIN schedule : \A v \in Sources(program, schedule[k].op) :
       \/ Op(program, v) = "parameter"
       \/ \E j \in 1 .. k - 1 : schedule[j].op = Producer(v)
  /\ phase \in {"run", "done"} =>
       \A i \in Operations(program) :
         i \in Elements(program.order) => \E k \in DOMAIN schedule : schedule[k].op = i

\* The reshards the passes insert, share and leave out put every value where it is used: a
\* call finds each operand, and the caller of the executable each result, on the devices and
\* with the sharding they expect (mpmd_insert_reshard.cc).
ValuesArePlaced == IsPlaced(program)

\* Every operation of the schedule reads, from the memory of its stores, the values the
\* program gives it as operands: no store was overwritten before its last reader, donated
\* too early, or left without the value by an alias (mpmd_partition.cc, AddHloModuleTask;
\* mm_pjrt_executable.cc, add_root_store).
ReadsOwnValues ==
  phase = "run" /\ ran < Len(schedule) => OperandsAreHeld(schedule[ran + 1])

\* No reshard was moved: the operations are scheduled in post order.
KeepsPostOrder ==
  \A j, k \in DOMAIN schedule : j < k => Precedes(program, schedule[j].op, schedule[k].op)

\* A call that finds the module of its computation could have made it itself.
ModulesFit ==
  \A k \in DOMAIN schedule :
    Op(program, schedule[k].op) = "call" =>
      modules[program.n[schedule[k].op].comp] \in AliasConfigs(schedule[k])

\* Accumulators are chained, nothing is moved and no module is shared by calls that differ.
RunsInOrder ==
  IsWellNamed(program) /\ IsChained(program) /\ KeepsPostOrder /\ ModulesFit

Ran == {schedule[k].op : k \in 1 .. ran}

\* The values computed so far that the rest of the schedule reads, and the results.
Needed ==
  {v \in Values(program) :
     /\ Op(program, v) # "parameter"
     /\ \E k \in 1 .. ran : v \in Outputs(program, schedule[k].op)
     /\ \/ IsRoot(program, v)
        \/ \E k \in ran + 1 .. Len(schedule) : v \in Elements(program.n[schedule[k].op].in)}

\* "at this point, every instruction should have been assigned to a unique Store"
\* (mpmd_partition.cc:711): two values that are both still needed are in two stores.
StoresAreUnique ==
  phase = "run" =>
    \A v, w \in Needed : v # w => Location(GetStore(v)) # Location(GetStore(w))

\* The result a caller would find now.
ResultOf(k) ==
  LET v    == program.roots[k]
      made == phase \in {"run", "done"} /\ \E i \in Ran : v \in Outputs(program, i)
  IN  IF made /\ k \in DOMAIN rooted THEN memory[rooted[k]] ELSE None

Dataflow ==
  INSTANCE TaskDataflow WITH computed <- Ran, result <- [k \in DOMAIN program.roots |-> ResultOf(k)]

\* Naming, storing, scheduling and running a program implements its data flow: every
\* operation runs, after the ones it depends on, and the results are in the root stores
\* from the moment they are computed to the end.
ImplementsDataflow == Dataflow!Spec
=============================================================================
