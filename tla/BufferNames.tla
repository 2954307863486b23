---------------------------- MODULE BufferNames ----------------------------
(***************************************************************************)
(* MpmdAssignBufferSchedulingName, mpmd_buffer_scheduling_name.cc: every   *)
(* value of the entry computation gets a scheduling name, that is, a       *)
(* buffer.  The pass simulates the instructions in post order with one     *)
(* time unit per call and two per reshard; the name of a value whose last  *)
(* reader has been visited goes to a pool, from which a later value of the *)
(* same shape, devices and sharding may take it.                           *)
(*                                                                         *)
(* A name is the identifier of the value that introduced it.               *)
(***************************************************************************)
EXTENDS TaskProgram

CONSTANT Programs

\* Every instruction is in the post order, after its operands.
IsPostOrder(p) ==
  /\ p.order \in Seq(Ids(p)) /\ Ids(p) \subseteq Elements(p.order)
  /\ \A j, k \in DOMAIN p.order : p.order[j] = p.order[k] => j = k
  /\ \A k \in DOMAIN p.order : \A v \in Elements(p.n[p.order[k]].in) :
       \E j \in DOMAIN p.order : j < k /\ p.order[j] = v

\* The outputs of a call are numbered and read off it once each, a reshard has one operand,
\* a value, calls read values and offsets, the parameters have numbers of their own, and the
\* results are values, none of them twice.
IsFlat(p) ==
  /\ \A i \in Ids(p) : p.n[i].in \in Seq(Ids(p)) /\ p.n[i].name \in Ids(p) \cup {0}
  /\ \A g \in Ids(p) : Op(p, g) = "gte" =>
       \E c \in Ids(p) : Op(p, c) = "call" /\ p.n[g].in = <<c>>
  /\ \A r \in Ids(p) : Op(p, r) = "reshard" => \E v \in Values(p) : p.n[r].in = <<v>>
  /\ \A i, u \in Ids(p) : Op(p, i) = "call" /\ i \in Elements(p.n[u].in) => Op(p, u) = "gte"
  /\ \A c \in Ids(p) : Op(p, c) = "call" => IsNumbered(p, Readers(p, c))
  /\ \A i \in Operations(p) : \A v \in Elements(p.n[i].in) :
       v \in Values(p) \/ Op(p, v) = "offset"
  /\ \A i, j \in Ids(p) : /\ Op(p, i) = "parameter" /\ Op(p, j) = "parameter"
                         /\ p.n[i].index = p.n[j].index
                         => i = j
  /\ p.roots \in Seq(Values(p))
  /\ \A j, k \in DOMAIN p.roots : p.roots[j] = p.roots[k] => j = k

ASSUME ProgramsAssumption ==
  \A p \in Programs :
    IsFiniteSet(Ids(p)) /\ Ids(p) \subseteq Nat \ {0} /\ IsPostOrder(p) /\ IsFlat(p)

VARIABLES
  program,
  at,               \* the instruction visited, a position of the post order
  step,             \* "visit", "outputs" or "operands"
  todo,             \* the outputs of the instruction that are still to be visited
  arg,              \* the operand that is freed next
  name,             \* metadata().scheduling_name() of every instruction, 0 if empty
  times_visited,
  times_available,
  time_on_mesh,
  time_started,
  pools,            \* the names to reuse: [name, key, time, of]
  shapes            \* the shape a name was last allocated for

nameVars == <<program, at, step, todo, arg, name, times_visited, times_available,
              time_on_mesh, time_started, pools, shapes>>

None == 0

\* An entry of shapes_ that was never written: a default constructed shape.
NoKey == <<>>

\* XlaShapeToZukuShape(shape, devices, sharding)
Key(i) == <<program.n[i].shape, program.n[i].at, program.n[i].shard>>

instruction == program.order[at]

visited == program.n[instruction]

\* The parameters are named first.
NameInit ==
  /\ program \in Programs
  /\ at = 1 /\ step = "visit" /\ todo = {} /\ arg = 1
  /\ name = [i \in Ids(program) |->
               IF Op(program, i) = "parameter" THEN i ELSE program.n[i].name]
  /\ times_visited = [i \in Ids(program) |-> 0]
  /\ times_available = [i \in Ids(program) |-> 0]
  /\ time_on_mesh = [d \in {program.n[i].at : i \in Ids(program)} |-> 0]
  /\ time_started = 0
  /\ pools = {}
  /\ shapes = [x \in Ids(program) \cup {None} |-> NoKey]

Visiting(ops) ==
  /\ at <= Len(program.order) /\ step = "visit" /\ visited.op \in ops

\* The other instructions of the entry computation are passed over.
Pass ==
  /\ Visiting({"parameter", "gte", "offset"})
  /\ at' = at + 1
  /\ UNCHANGED <<program, step, todo, arg, name, times_visited, times_available,
                 time_on_mesh, time_started, pools, shapes>>

\* A call starts when its devices are free and its operands are available.
MaxOperandTime ==
  LET times == {time_on_mesh[visited.at]} \cup {times_available[v] : v \in Elements(visited.in)}
  IN  CHOOSE t \in times : \A s \in times : s <= t

StartCall ==
  /\ Visiting({"call"})
  /\ time_started' = MaxOperandTime
  /\ todo' = Outputs(program, instruction)
  /\ step' = "outputs"
  /\ UNCHANGED <<program, at, arg, name, times_visited, times_available,
                 time_on_mesh, pools, shapes>>

StartReshard ==
  /\ Visiting({"reshard"})
  /\ time_started' = times_available[visited.in[1]]
  /\ todo' = {instruction}
  /\ step' = "outputs"
  /\ UNCHANGED <<program, at, arg, name, times_visited, times_available,
                 time_on_mesh, pools, shapes>>

\* A call takes one unit of time, a communication two.
time_done == time_started + (IF visited.op = "call" THEN 1 ELSE 2)

\* The top of the priority queue of a shape: any entry of the least time.
Tops(key) ==
  {e \in pools : e.key = key /\ \A f \in pools : f.key = key => e.time <= f.time}

\* AllocateAtTime: the names that may be taken from the pool, with the pool that is left.
AllocateFromPool(key, time) ==
  {<<e.name, pools \ {e}>> : e \in {f \in Tops(key) : f.time <= time}}

\* visit_output: a name set by an earlier pass is kept.
KeepName(g) == name[g] # None /\ UNCHANGED <<name, pools, shapes>>

NameRoot(g) ==
  /\ name[g] = None /\ IsRoot(program, g)
  /\ name' = [name EXCEPT ![g] = g]
  /\ UNCHANGED <<pools, shapes>>

\* Outside the pool, a value is named after itself.
NameTemporary(g) ==
  /\ name[g] = None /\ ~IsRoot(program, g)
  /\ LET reuse == AllocateFromPool(Key(g), time_started)
     IN  \E choice \in IF reuse = {} THEN {<<g, pools>>} ELSE reuse :
           /\ name' = [name EXCEPT ![g] = choice[1]]
           /\ pools' = choice[2]
           /\ shapes' = [shapes EXCEPT ![choice[1]] = Key(g)]

VisitOutput ==
  /\ step = "outputs"
  /\ \E g \in todo :
       /\ KeepName(g) \/ NameRoot(g) \/ NameTemporary(g)
       /\ times_available' = [times_available EXCEPT ![g] = time_done]
       /\ todo' = todo \ {g}
  /\ UNCHANGED <<program, at, step, arg, times_visited, time_on_mesh, time_started>>

OutputsVisited ==
  /\ step = "outputs" /\ todo = {}
  /\ step' = "operands" /\ arg' = 1
  /\ UNCHANGED <<program, at, todo, name, times_visited, times_available,
                 time_on_mesh, time_started, pools, shapes>>

output_names == {name[g] : g \in Outputs(program, instruction)}

\* Mutant: the first reader frees the operand.
FirstUse(v) == times_visited[v] = 0

\* num_visits == user_count()
LastUse(v) == times_visited[v] + 1 = UserCount(program, v)

\* Mutant: slice offsets are freed.
IsKeptParameter(v) ==
  \/ Op(program, v) = "parameter"
  \/ visited.op = "call" /\ name[v] \in output_names

\* An operand that is not freed: a call keeps a buffer that is also its output.
IsKept(v) ==
  \/ Op(program, v) \in {"parameter", "offset"}
  \/ visited.op = "call" /\ name[v] \in output_names

\* free_operand.  Its error for an operand without a name cannot occur in a post order.
FreeOperand ==
  /\ step = "operands" /\ arg <= Len(visited.in)
  /\ LET v == visited.in[arg]
     IN  IF IsKept(v) THEN UNCHANGED <<times_visited, pools>>
         ELSE /\ times_visited' = [times_visited EXCEPT ![v] = @ + 1]
              /\ pools' = IF LastUse(v)
                            THEN pools \cup {[name |-> name[v], key |-> shapes[name[v]],
                                              time |-> time_done, of |-> v]}
                            ELSE pools
  /\ arg' = arg + 1
  /\ UNCHANGED <<program, at, step, todo, name, times_available, time_on_mesh,
                 time_started, shapes>>

\* Only a call occupies its devices.
Finish ==
  /\ step = "operands" /\ arg > Len(visited.in)
  /\ time_on_mesh' = IF visited.op = "call"
                       THEN [time_on_mesh EXCEPT ![visited.at] = time_done]
                       ELSE time_on_mesh
  /\ at' = at + 1 /\ step' = "visit"
  /\ UNCHANGED <<program, todo, arg, name, times_visited, times_available,
                 time_started, pools, shapes>>

NameNext ==
  \/ Pass \/ StartCall \/ StartReshard
  \/ VisitOutput \/ OutputsVisited \/ FreeOperand \/ Finish

NameSpec == NameInit /\ [][NameNext]_nameVars

Named == at > Len(program.order)

-----------------------------------------------------------------------------
NameTypeOK ==
  /\ at \in 1 .. Len(program.order) + 1
  /\ step \in {"visit", "outputs", "operands"}
  /\ step # "visit" => at <= Len(program.order) /\ visited.op \in {"call", "reshard"}
  /\ todo \subseteq Ids(program)
  /\ arg \in Nat \ {0}
  /\ name \in [Ids(program) -> Ids(program) \cup {None}]
  /\ times_visited \in [Ids(program) -> Nat]
  /\ times_available \in [Ids(program) -> Nat]
  /\ time_on_mesh \in [{program.n[i].at : i \in Ids(program)} -> Nat]
  /\ time_started \in Nat
  /\ \A e \in pools : e.name \in Ids(program) /\ e.time \in Nat

\* The names that are set before the pass.
PresetNames(p) == {p.n[i].name : i \in Ids(p)} \ {None}

(***************************************************************************)
(* The loop unrolling and the in-place collectives set the names of outputs*)
(* only, to the name of an output that introduced it, and no call reads a  *)
(* value twice.                                                            *)
(***************************************************************************)
IsWellNamed(p) ==
  /\ \A i \in Ids(p) : p.n[i].name # None =>
       Op(p, i) \in {"gte", "reshard"} /\ p.n[p.n[i].name].name = p.n[i].name
  /\ \A i \in Ids(p) : \A j, k \in DOMAIN p.n[i].in :
       p.n[i].in[j] = p.n[i].in[k] => j = k

\* The values before w that an earlier pass has given the name of w, an output of i.
Forerunners(p, w, i) ==
  {v \in Values(p) \ {w} : p.n[v].name = p.n[w].name /\ ComputedBy(p, v, i)}

(***************************************************************************)
(* The values with a name that is set before the pass follow each other as *)
(* the clones of an accumulator do: the operation that computes one reads  *)
(* one before it, computes no other, and none before it is needed later.   *)
(***************************************************************************)
IsChained(p) ==
  \A i \in Operations(p) : \A w \in Outputs(p, i) :
    p.n[w].name # None /\ Forerunners(p, w, i) # {} =>
      /\ \A v \in Forerunners(p, w, i) : v \notin Outputs(p, i) /\ ~NeededAfter(p, v, i)
      /\ \E v \in Elements(p.n[i].in) : p.n[v].name = p.n[w].name

Visited(i) == \E k \in 1 .. at - 1 : program.order[k] = i

\* u has been counted as a reader of v.
HasRead(u, v) ==
  \/ Visited(u)
  \/ /\ step = "operands" /\ u = instruction
     /\ \E k \in 1 .. arg - 1 : k \in DOMAIN visited.in /\ visited.in[k] = v

\* The buffer of v is in use: v has been computed and is a result or will still be read, or
\* nothing ever frees it.
Live(v) ==
  /\ v \in Values(program) /\ name[v] # None
  /\ \/ IsRoot(program, v)
     \/ Op(program, v) = "parameter"
     \/ Readers(program, v) = {}
     \/ \E u \in Readers(program, v) : ~HasRead(u, v)

\* Two values that are live at the same time have the same scheduling name only if an
\* earlier pass has set it: a buffer goes back to the pool only after its last reader, a
\* call never writes an output over an operand, and the name of an accumulator is never
\* given to another value (mpmd_buffer_scheduling_name.cc, free_operand and visit_output).
NamesAreExclusive ==
  IsWellNamed(program) =>
    \A v, w \in Values(program) :
      Live(v) /\ Live(w) /\ v # w /\ name[v] = name[w] => name[v] \in PresetNames(program)
=============================================================================
