------------------------- MODULE BufferNamesProofs -------------------------
(***************************************************************************)
(* For every set of programs: two values that are live at the same time    *)
(* have different scheduling names, or one that an earlier pass has set.   *)
(*                                                                         *)
(* NamesAreExclusive is not inductive: that a name taken from the pool is  *)
(* not the name of a live value rests on the counting of readers, that a   *)
(* value can be named after itself on where names come from, and that the  *)
(* names of accumulators stay theirs on the shapes of the pool.            *)
(***************************************************************************)
EXTENDS BufferNames, FiniteSetTheorems, TLAPS

ReadBy(v) == {u \in Readers(program, v) : HasRead(u, v)}

Shape ==
  /\ at \in 1 .. Len(program.order) + 1
  /\ step \in {"visit", "outputs", "operands"}
  /\ step # "visit" => at <= Len(program.order) /\ visited.op \in {"call", "reshard"}
  /\ todo \subseteq Ids(program)
  /\ arg \in Nat \ {0}
  /\ name \in [Ids(program) -> Ids(program) \cup {None}]
  /\ times_visited \in [Ids(program) -> Nat]
  /\ DOMAIN shapes = Ids(program) \cup {None}

\* The outputs of what was visited have names, and so do the parameters.
OutputsNamed ==
  /\ \A i \in Operations(program) : Visited(i) =>
       \A g \in Outputs(program, i) : name[g] # None
  /\ step # "visit" => \A g \in Outputs(program, instruction) : g \in todo \/ name[g] # None
  /\ step = "operands" => todo = {}
  /\ \A i \in Ids(program) : Op(program, i) = "parameter" => name[i] = i

\* A name is the identifier of a value that has it.
NamesHaveOwners ==
  /\ \A v \in Ids(program) : name[v] # None => name[name[v]] = name[v]
  /\ \A e \in pools : e.name \in Ids(program) /\ name[e.name] = e.name

IsPreset(x) == x \in PresetNames(program)

\* The names set before the pass are those of the same values as before; they come to the
\* pool of no shape, from which nothing is taken.
PresetsKept ==
  /\ \A v \in Ids(program) : program.n[v].name # None => name[v] = program.n[v].name
  /\ \A v \in Ids(program) : IsPreset(name[v]) => program.n[v].name = name[v]
  /\ \A x \in PresetNames(program) : shapes[x] = NoKey
  /\ \A e \in pools : IsPreset(e.name) => e.key = NoKey

Exclusive ==
  \A v, w \in Values(program) :
    Live(v) /\ Live(w) /\ v # w /\ name[v] = name[w] => IsPreset(name[v])

\* Any other name in the pool is there once and no live value has it.
PoolIsFree ==
  /\ \A e, f \in pools : e.name = f.name /\ ~IsPreset(e.name) => e = f
  /\ \A e \in pools : \A v \in Values(program) :
       Live(v) /\ ~IsPreset(e.name) => name[v] # e.name

\* The name of a parameter or a result is its own, before and after.
OwnersAlone ==
  \A r, v \in Values(program) :
    /\ IsRoot(program, r) \/ Op(program, r) = "parameter"
    /\ name[r] # None /\ name[r] = name[v]
    => v = r \/ IsPreset(name[r])

ReadersCounted ==
  \A v \in Ids(program) : times_visited[v] <= Cardinality(ReadBy(v))

Core ==
  /\ Shape /\ OutputsNamed /\ NamesHaveOwners /\ PresetsKept
  /\ Exclusive /\ PoolIsFree /\ OwnersAlone /\ ReadersCounted

Inv == program \in Programs /\ (IsWellNamed(program) => Core)

-----------------------------------------------------------------------------
\* An operand comes before its user in post order.
LEMMA OperandsFirst ==
  ASSUME program \in Programs, NEW k \in DOMAIN program.order,
         NEW v \in Elements(program.n[program.order[k]].in)
  PROVE  \E j \in DOMAIN program.order : j < k /\ program.order[j] = v
<1>1. IsPostOrder(program)
  BY ProgramsAssumption
<1> QED  BY <1>1 DEF IsPostOrder

\* The post order is a sequence of distinct instructions.
LEMMA OrderIsSequence ==
  ASSUME program \in Programs
  PROVE  /\ program.order \in Seq(Ids(program))
         /\ \A j, k \in DOMAIN program.order : program.order[j] = program.order[k] => j = k
<1>1. IsPostOrder(program)
  BY ProgramsAssumption
<1> QED  BY <1>1 DEF IsPostOrder

\* Identifiers are positive.
LEMMA IdsPositive ==
  ASSUME program \in Programs, NEW i \in Ids(program)
  PROVE  i \in Nat /\ i # None
BY ProgramsAssumption DEF None

\* An output is read off its call.
LEMMA OutputsHaveCalls ==
  ASSUME program \in Programs, NEW g \in Ids(program), Op(program, g) = "gte"
  PROVE  \E c \in Ids(program) : Op(program, c) = "call" /\ program.n[g].in = <<c>>
<1>1. IsFlat(program)
  BY ProgramsAssumption
<1> QED  BY <1>1 DEF IsFlat

\* An operation reads values and offsets.
LEMMA OperandsAreValues ==
  ASSUME program \in Programs, NEW i \in Operations(program),
         NEW v \in Elements(program.n[i].in), Op(program, v) # "offset"
  PROVE  v \in Values(program)
<1>1. IsFlat(program)
  BY ProgramsAssumption
<1> QED  BY <1>1 DEF IsFlat

\* The readers of a value are finitely many, and so are those counted.
LEMMA ReadersFinite ==
  ASSUME program \in Programs, NEW v
  PROVE  /\ IsFiniteSet(Readers(program, v))
         /\ IsFiniteSet(ReadBy(v))
         /\ Cardinality(ReadBy(v)) \in Nat
         /\ Cardinality(Readers(program, v)) \in Nat
         /\ Cardinality(ReadBy(v)) <= Cardinality(Readers(program, v))
         /\ Cardinality(ReadBy(v)) = Cardinality(Readers(program, v)) =>
              ReadBy(v) = Readers(program, v)
<1>1. IsFiniteSet(Ids(program))
  BY ProgramsAssumption
<1>2. Readers(program, v) \subseteq Ids(program)
  BY DEF Readers
<1>3. IsFiniteSet(Readers(program, v))
  BY <1>1, <1>2, FS_Subset
<1>4. ReadBy(v) \subseteq Readers(program, v)
  BY DEF ReadBy
<1>5. IsFiniteSet(ReadBy(v))
  BY <1>3, <1>4, FS_Subset
<1>6. Cardinality(ReadBy(v)) \in Nat /\ Cardinality(Readers(program, v)) \in Nat
  BY <1>3, <1>5, FS_CardinalityType
<1> QED
  BY <1>3, <1>4, <1>5, <1>6, FS_Subset

\* What has been read stays read, in every step of the pass.
LEMMA HasReadStable ==
  ASSUME Inv, IsWellNamed(program), NameNext
  PROVE  /\ program' = program
         /\ \A u, v : HasRead(u, v) => HasRead(u, v)'
<1>0. program' = program
  BY DEF NameNext, Pass, StartCall, StartReshard, VisitOutput, OutputsVisited, FreeOperand, Finish
<1>1. Shape
  BY DEF Inv, Core
<1>2. at \in Nat /\ arg \in Nat
  BY <1>1 DEF Shape
<1> SUFFICES ASSUME NEW u, NEW v, HasRead(u, v)
             PROVE  HasRead(u, v)'
  BY <1>0
<1>3. at' = at \/ at' = at + 1
  BY DEF NameNext, Pass, StartCall, StartReshard, VisitOutput, OutputsVisited, FreeOperand, Finish
<1>4. CASE Visited(u)
  <2>1. Visited(u)'
    BY <1>0, <1>2, <1>3, <1>4 DEF Visited
  <2> QED  BY <2>1 DEF HasRead
<1>5. CASE ~Visited(u)
  <2>1. /\ step = "operands" /\ u = instruction
        /\ \E k \in 1 .. arg - 1 : k \in DOMAIN visited.in /\ visited.in[k] = v
    BY <1>5 DEF HasRead
  <2>2. FreeOperand \/ Finish
    BY <2>1 DEF NameNext, Pass, StartCall, StartReshard, VisitOutput, OutputsVisited, Visiting
  <2>3. CASE FreeOperand
    <3>1. step' = step /\ arg' = arg + 1 /\ at' = at
      BY <2>3 DEF FreeOperand
    <3>2. instruction' = instruction /\ visited' = visited
      BY <1>0, <3>1 DEF instruction, visited
    <3>3. 1 .. arg - 1 \subseteq 1 .. arg' - 1
      BY <1>2, <3>1
    <3> QED  BY <2>1, <3>1, <3>2, <3>3 DEF HasRead
  <2>4. CASE Finish
    <3>1. at' = at + 1
      BY <2>4 DEF Finish
    <3>2. at \in 1 .. at' - 1 /\ program'.order[at] = u
      BY <1>0, <1>1, <1>2, <2>1, <3>1 DEF instruction, Shape
    <3>3. Visited(u)'
      BY <3>2 DEF Visited
    <3> QED  BY <3>3 DEF HasRead
  <2> QED  BY <2>2, <2>3, <2>4
<1> QED  BY <1>4, <1>5

\* A value that keeps its name does not become live.
LEMMA LiveStable ==
  ASSUME Inv, IsWellNamed(program), NameNext, NEW v, name'[v] = name[v], Live(v)'
  PROVE  Live(v)
BY HasReadStable DEF Live

\* Steps that leave the names alone and put nothing into the pool.
LEMMA NamesKept ==
  ASSUME Inv, IsWellNamed(program), NameNext, UNCHANGED <<name, shapes>>,
         pools' \subseteq pools
  PROVE  NamesHaveOwners' /\ PresetsKept' /\ Exclusive' /\ PoolIsFree' /\ OwnersAlone'
<1>1. program' = program
  BY HasReadStable
<1>2. \A v : Live(v)' => Live(v)
  BY LiveStable
<1>3. NamesHaveOwners /\ PresetsKept /\ Exclusive /\ PoolIsFree /\ OwnersAlone
  BY DEF Inv, Core
<1>4. NamesHaveOwners'
  BY <1>1, <1>3 DEF NamesHaveOwners
<1>5. Exclusive'
  BY <1>1, <1>2, <1>3 DEF Exclusive, IsPreset
<1>6. PoolIsFree'
  BY <1>1, <1>2, <1>3 DEF PoolIsFree, IsPreset
<1>7. PresetsKept'
  BY <1>1, <1>3 DEF PresetsKept, IsPreset
<1>8. OwnersAlone'
  BY <1>1, <1>3 DEF OwnersAlone, IsPreset
<1> QED  BY <1>4, <1>5, <1>6, <1>7, <1>8

\* The set of counted readers only grows.
LEMMA ReadByGrows ==
  ASSUME Inv, IsWellNamed(program), NameNext, NEW v
  PROVE  /\ ReadBy(v) \subseteq ReadBy(v)'
         /\ IsFiniteSet(ReadBy(v)')
         /\ Cardinality(ReadBy(v)) \in Nat
         /\ Cardinality(ReadBy(v)') \in Nat
         /\ Cardinality(ReadBy(v)) <= Cardinality(ReadBy(v)')
<1>1. program' = program /\ program \in Programs
  BY HasReadStable DEF Inv
<1>2. ReadBy(v) \subseteq ReadBy(v)'
  BY <1>1, HasReadStable DEF ReadBy
<1>3. ReadBy(v)' \subseteq Readers(program, v)
  BY <1>1 DEF ReadBy
<1>4. IsFiniteSet(ReadBy(v)')
  BY <1>1, <1>3, ReadersFinite, FS_Subset
<1> QED
  BY <1>2, <1>4, FS_Subset, FS_CardinalityType

\* Steps that count no reader.
LEMMA CountsKept ==
  ASSUME Inv, IsWellNamed(program), NameNext, UNCHANGED times_visited
  PROVE  ReadersCounted'
<1>1. program' = program
  BY HasReadStable
<1> SUFFICES ASSUME NEW v \in Ids(program)
             PROVE  times_visited[v] <= Cardinality(ReadBy(v)')
  BY <1>1 DEF ReadersCounted
<1>2. times_visited[v] <= Cardinality(ReadBy(v)) /\ times_visited[v] \in Nat
  BY DEF Inv, Core, ReadersCounted, Shape
<1> QED  BY <1>2, ReadByGrows

\* The instruction at a position of the post order has not been visited.
LEMMA InstructionNotVisited ==
  ASSUME Inv, IsWellNamed(program), at <= Len(program.order)
  PROVE  /\ at \in DOMAIN program.order
         /\ instruction \in Ids(program)
         /\ ~Visited(instruction)
<1>1. program.order \in Seq(Ids(program)) /\ at \in Nat /\ at >= 1
  BY OrderIsSequence DEF Inv, Core, Shape
<1>2. at \in DOMAIN program.order /\ instruction \in Ids(program)
  BY <1>1 DEF instruction
<1>3. \A k \in 1 .. at - 1 : k \in DOMAIN program.order
  BY <1>1
<1>4. ~Visited(instruction)
  BY <1>1, <1>2, <1>3, OrderIsSequence DEF Visited, instruction, Inv
<1> QED  BY <1>2, <1>4

\* An operand of the instruction is a named value, a parameter or an offset.
LEMMA OperandIsNamed ==
  ASSUME Inv, IsWellNamed(program), step # "visit", NEW v \in Elements(visited.in),
         Op(program, v) # "offset"
  PROVE  v \in Values(program) /\ name[v] # None
<1>1. Shape /\ OutputsNamed /\ program \in Programs
  BY DEF Inv, Core
<1>2. at \in DOMAIN program.order /\ instruction \in Ids(program)
  BY <1>1, InstructionNotVisited DEF Shape
<1>3. instruction \in Operations(program)
  BY <1>1, <1>2 DEF Shape, Operations, visited, Op
<1>4. v \in Values(program)
  BY <1>1, <1>3, OperandsAreValues DEF visited
<1>5. PICK j \in DOMAIN program.order : j < at /\ program.order[j] = v
  <2>1. v \in Elements(program.n[program.order[at]].in)
    BY DEF visited, instruction
  <2> QED  BY <1>1, <1>2, <2>1, OperandsFirst
<1>6. j \in Nat \ {0} /\ at \in Nat /\ Visited(v)
  BY <1>1, <1>5, OrderIsSequence DEF Visited, Shape
<1>7. v \in Ids(program) /\ Op(program, v) \in {"parameter", "gte", "reshard"}
  BY <1>4 DEF Values
<1>8. CASE Op(program, v) = "parameter"
  BY <1>1, <1>4, <1>7, <1>8, IdsPositive DEF OutputsNamed
<1>9. CASE Op(program, v) = "reshard"
  <2>1. v \in Operations(program) /\ v \in Outputs(program, v)
    BY <1>7, <1>9 DEF Operations, Outputs
  <2> QED  BY <1>1, <1>4, <1>6, <2>1 DEF OutputsNamed
<1>10. CASE Op(program, v) = "gte"
  <2>1. PICK c \in Ids(program) : Op(program, c) = "call" /\ program.n[v].in = <<c>>
    BY <1>1, <1>7, <1>10, OutputsHaveCalls
  <2>2. c \in Elements(program.n[v].in)
    BY <2>1 DEF Elements
  <2>3. PICK i \in DOMAIN program.order : i < j /\ program.order[i] = c
    BY <1>1, <1>5, <2>2, OperandsFirst
  <2>4. i \in Nat \ {0}
    BY <1>1, OrderIsSequence
  <2>5. Visited(c)
    BY <1>5, <1>6, <2>3, <2>4 DEF Visited
  <2>6. c \in Operations(program) /\ v \in Outputs(program, c)
    BY <1>7, <2>1, <2>2 DEF Operations, Outputs, Readers
  <2> QED  BY <1>1, <1>4, <2>5, <2>6 DEF OutputsNamed
<1>11. name[v] # None
  BY <1>7, <1>8, <1>9, <1>10
<1> QED  BY <1>4, <1>11

-----------------------------------------------------------------------------
\* Passing over an instruction keeps the invariant.
LEMMA PassKeepsCore ==
  ASSUME Inv, IsWellNamed(program), Pass
  PROVE  Core'
<1>1. NameNext
  BY DEF NameNext
<1>2. Core /\ program \in Programs
  BY DEF Inv
<1>3. /\ UNCHANGED <<program, step, todo, arg, name, times_visited, pools, shapes>>
      /\ at' = at + 1 /\ at <= Len(program.order) /\ step = "visit"
      /\ visited.op \in {"parameter", "gte", "offset"}
  BY DEF Pass, Visiting
<1>4. /\ NamesHaveOwners' /\ PresetsKept' /\ Exclusive' /\ PoolIsFree' /\ OwnersAlone'
      /\ ReadersCounted'
  BY <1>1, <1>3, NamesKept, CountsKept
<1>5. Shape'
  BY <1>2, <1>3, OrderIsSequence DEF Core, Shape
<1>6. \A i \in Operations(program) : Visited(i)' => Visited(i)
  <2> SUFFICES ASSUME NEW i \in Operations(program), Visited(i)'
               PROVE  Visited(i)
    OBVIOUS
  <2>1. PICK k \in 1 .. at : program.order[k] = i
    BY <1>2, <1>3 DEF Visited, Core, Shape
  <2>2. k # at
    BY <1>3, <2>1 DEF Operations, Op, visited, instruction
  <2> QED  BY <1>2, <2>1, <2>2 DEF Visited, Core, Shape
<1>7. OutputsNamed'
  BY <1>2, <1>3, <1>6 DEF Core, OutputsNamed
<1> QED  BY <1>4, <1>5, <1>7 DEF Core

\* Starting a call or a reshard keeps the invariant.
LEMMA StartKeepsCore ==
  ASSUME Inv, IsWellNamed(program), StartCall \/ StartReshard
  PROVE  Core'
<1>1. NameNext
  BY DEF NameNext
<1>2. Core /\ program \in Programs
  BY DEF Inv
<1>3. /\ UNCHANGED <<program, at, arg, name, times_visited, pools, shapes>>
      /\ at <= Len(program.order) /\ step = "visit" /\ step' = "outputs"
      /\ visited.op \in {"call", "reshard"}
      /\ todo' = Outputs(program, instruction)
  BY DEF StartCall, StartReshard, Visiting, Outputs, visited, Op
<1>4. /\ NamesHaveOwners' /\ PresetsKept' /\ Exclusive' /\ PoolIsFree' /\ OwnersAlone'
      /\ ReadersCounted'
  BY <1>1, <1>3, NamesKept, CountsKept
<1>5. instruction' = instruction /\ visited' = visited /\ \A i : Visited(i)' <=> Visited(i)
  BY <1>3 DEF instruction, visited, Visited
<1>6. Outputs(program, instruction) \subseteq Ids(program)
  BY <1>3, InstructionNotVisited DEF Outputs, Readers
<1>7. Shape'
  BY <1>2, <1>3, <1>5, <1>6 DEF Core, Shape
<1>8. OutputsNamed'
  BY <1>2, <1>3, <1>5 DEF Core, OutputsNamed
<1> QED  BY <1>4, <1>7, <1>8 DEF Core

\* A value without a name has not given it to an accumulator.
LEMMA UnnamedIsFree ==
  ASSUME Inv, IsWellNamed(program), NEW g \in Ids(program), name[g] = None
  PROVE  ~IsPreset(g)
<1>1. Core /\ program \in Programs
  BY DEF Inv
<1> SUFFICES ASSUME IsPreset(g) PROVE FALSE
  OBVIOUS
<1>2. PICK i \in Ids(program) : program.n[i].name = g /\ g # None
  BY IdsPositive, <1>1 DEF IsPreset, PresetNames
<1>3. program.n[g].name = g
  BY <1>2 DEF IsWellNamed
<1> QED  BY <1>1, <1>2, <1>3 DEF Core, PresetsKept

\* What naming an output does to names, shapes and pool.
LEMMA NewName ==
  ASSUME Inv, IsWellNamed(program), VisitOutput
  PROVE  \/ UNCHANGED <<name, pools, shapes>>
         \/ \E g \in todo, x \in Ids(program) :
              /\ name[g] = None /\ name' = [name EXCEPT ![g] = x]
              /\ UNCHANGED shapes \/ \E k : shapes' = [shapes EXCEPT ![x] = k]
              /\ \/ x = g /\ pools' = pools
                 \/ /\ ~IsRoot(program, g)
                    /\ \E e \in pools : x = e.name /\ pools' = pools \ {e} /\ e.key # NoKey
<1>1. Core
  BY DEF Inv
<1>2. PICK g \in todo : KeepName(g) \/ NameRoot(g) \/ NameTemporary(g)
  BY DEF VisitOutput
<1>3. g \in Ids(program)
  BY <1>1 DEF Core, Shape
<1>4. CASE KeepName(g)
  BY <1>4 DEF KeepName
<1>5. CASE NameRoot(g)
  BY <1>3, <1>5 DEF NameRoot
<1>6. CASE NameTemporary(g)
  <2> DEFINE reuse == AllocateFromPool(Key(g), time_started)
  <2>1. PICK choice \in IF reuse = {} THEN {<<g, pools>>} ELSE reuse :
          /\ name' = [name EXCEPT ![g] = choice[1]] /\ pools' = choice[2]
          /\ shapes' = [shapes EXCEPT ![choice[1]] = Key(g)]
    BY <1>6 DEF NameTemporary
  <2>2. CASE reuse = {}
    <3>1. choice = <<g, pools>>
      BY <2>1, <2>2
    <3> QED  BY <1>3, <1>6, <2>1, <3>1 DEF NameTemporary
  <2>3. CASE reuse # {}
    <3>1. PICK e \in pools : choice = <<e.name, pools \ {e}>> /\ e.key = Key(g)
      BY <2>1, <2>3 DEF AllocateFromPool, Tops
    <3>2. e.name \in Ids(program)
      BY <1>1, <3>1 DEF Core, NamesHaveOwners
    <3>3. /\ name' = [name EXCEPT ![g] = e.name] /\ pools' = pools \ {e}
          /\ shapes' = [shapes EXCEPT ![e.name] = Key(g)]
      BY <2>1, <3>1
    <3>4. e.key # NoKey
      BY <3>1 DEF Key, NoKey
    <3> QED  BY <1>6, <3>1, <3>2, <3>3, <3>4 DEF NameTemporary
  <2> QED  BY <2>2, <2>3
<1> QED  BY <1>2, <1>4, <1>5, <1>6

\* A new name is not the name of a live value.
LEMMA NewNameIsFree ==
  ASSUME Inv, IsWellNamed(program), VisitOutput, NEW g \in todo, NEW x \in Ids(program),
         name[g] = None, name' = [name EXCEPT ![g] = x],
         UNCHANGED shapes \/ \E k : shapes' = [shapes EXCEPT ![x] = k],
         \/ x = g /\ pools' = pools
         \/ /\ ~IsRoot(program, g)
            /\ \E e \in pools : x = e.name /\ pools' = pools \ {e} /\ e.key # NoKey
  PROVE  NamesHaveOwners' /\ PresetsKept' /\ Exclusive' /\ PoolIsFree' /\ OwnersAlone'
<1>0. NameNext
  BY DEF NameNext
<1>1. Core /\ program' = program /\ program \in Programs
  BY <1>0, HasReadStable DEF Inv
<1>2. /\ g \in Ids(program) /\ name \in [Ids(program) -> Ids(program) \cup {None}]
      /\ name'[g] = x /\ \A v \in Ids(program) : v # g => name'[v] = name[v]
  BY <1>1 DEF Core, Shape
<1>3. \A v \in Ids(program) : name[v] # g
  BY <1>1, <1>2, IdsPositive DEF Core, NamesHaveOwners
<1>4. \A e \in pools : e.name \in Ids(program) /\ name[e.name] = e.name /\ e.name # g
  BY <1>1, <1>2, IdsPositive DEF Core, NamesHaveOwners
<1>5. name'[x] = x
  BY <1>2, <1>4
<1>6. pools' \subseteq pools
  OBVIOUS
<1>7. NamesHaveOwners'
  <2>1. \A v \in Ids(program) : name'[v] # None => name'[name'[v]] = name'[v]
    BY <1>1, <1>2, <1>3, <1>5 DEF Core, NamesHaveOwners
  <2>2. \A e \in pools' : e.name \in Ids(program) /\ name'[e.name] = e.name
    BY <1>2, <1>4, <1>6
  <2> QED  BY <1>1, <2>1, <2>2 DEF NamesHaveOwners
<1>8. Values(program) \subseteq Ids(program)
  BY DEF Values
<1>x. ~IsPreset(x) /\ ~IsPreset(x)'
  <2>1. ~IsPreset(g)
    BY <1>2, UnnamedIsFree
  <2>2. \A e \in pools : e.key # NoKey => ~IsPreset(e.name)
    BY <1>1 DEF Core, PresetsKept
  <2>3. ~IsPreset(x)
    BY <2>1, <2>2
  <2> QED  BY <1>1, <2>3 DEF IsPreset
<1>9. \A v \in Values(program) : v # g /\ Live(v)' => Live(v) /\ name'[v] = name[v]
  BY <1>0, <1>2, <1>8, LiveStable
<1>10. \A v \in Values(program) : v # g /\ Live(v) => name[v] # x
  <2>1. CASE x = g
    BY <1>3, <1>8, <2>1
  <2>2. CASE \E e \in pools : x = e.name
    BY <1>1, <1>x, <2>2 DEF Core, PoolIsFree
  <2> QED  BY <2>1, <2>2
<1>11. Exclusive'
  BY <1>1, <1>2, <1>9, <1>10 DEF Core, Exclusive, IsPreset
<1>12. \A e \in pools' : e.name # x
  <2>1. CASE x = g
    BY <1>4, <1>6, <2>1
  <2>2. CASE x # g
    BY <1>1, <1>x, <2>2 DEF Core, PoolIsFree
  <2> QED  BY <2>1, <2>2
<1>13. PoolIsFree'
  <2>1. \A e, f \in pools' : e.name = f.name /\ ~IsPreset(e.name) => e = f
    BY <1>1, <1>6 DEF Core, PoolIsFree
  <2>2. \A e \in pools' : \A v \in Values(program) :
          Live(v)' /\ ~IsPreset(e.name) => name'[v] # e.name
    BY <1>1, <1>2, <1>6, <1>9, <1>12 DEF Core, PoolIsFree
  <2> QED  BY <1>1, <2>1, <2>2 DEF PoolIsFree, IsPreset
<1>14. PresetsKept'
  <2>1. \A v \in Ids(program) : program.n[v].name # None => name'[v] = program.n[v].name
    BY <1>1, <1>2 DEF Core, PresetsKept
  <2>2. \A v \in Ids(program) : IsPreset(name'[v]) => program.n[v].name = name'[v]
    BY <1>1, <1>2, <1>x DEF Core, PresetsKept
  <2>3. \A y \in PresetNames(program) : shapes'[y] = NoKey
    <3> SUFFICES ASSUME NEW y \in PresetNames(program) PROVE shapes'[y] = shapes[y]
      BY <1>1 DEF Core, PresetsKept
    <3>1. y # x
      BY <1>x DEF IsPreset
    <3>2. y \in Ids(program)
      <4>1. IsFlat(program)
        BY <1>1, ProgramsAssumption
      <4> QED  BY <4>1 DEF IsFlat, PresetNames, None
    <3>3. y \in DOMAIN shapes
      BY <1>1, <3>2 DEF Core, Shape
    <3> QED  BY <3>1, <3>3
  <2>4. \A e \in pools' : IsPreset(e.name) => e.key = NoKey
    BY <1>1, <1>6 DEF Core, PresetsKept
  <2> QED  BY <1>1, <2>1, <2>2, <2>3, <2>4 DEF PresetsKept, IsPreset
<1>15. OwnersAlone'
  <2> SUFFICES ASSUME NEW r \in Values(program), NEW v \in Values(program),
                      IsRoot(program, r) \/ Op(program, r) = "parameter",
                      name'[r] # None, name'[r] = name'[v], v # r
               PROVE  IsPreset(name'[r])
    BY <1>1 DEF OwnersAlone, IsPreset
  <2>1. r \in Ids(program) /\ v \in Ids(program)
    BY <1>8
  <2>2. CASE r # g /\ v # g
    BY <1>1, <1>2, <2>1, <2>2 DEF Core, OwnersAlone
  <2>3. CASE v = g
    <3>1. r # g /\ name[r] = x /\ name[r] # None
      BY <1>2, <2>1, <2>3
    <3>2. Live(r)
      BY <3>1 DEF Live
    <3> QED  BY <1>10, <3>1, <3>2
  <2>4. CASE r = g
    <3>1. Op(program, g) # "parameter"
      BY <1>1, <1>2, IdsPositive DEF Core, OutputsNamed
    <3>2. x = g
      BY <2>4, <3>1
    <3> QED  BY <1>2, <1>3, <2>1, <2>4, <3>2
  <2> QED  BY <2>2, <2>3, <2>4
<1> QED  BY <1>7, <1>11, <1>13, <1>14, <1>15

\* Naming an output keeps the invariant.
LEMMA VisitOutputKeepsCore ==
  ASSUME Inv, IsWellNamed(program), VisitOutput
  PROVE  Core'
<1>0. NameNext
  BY DEF NameNext
<1>1. Core /\ program \in Programs
  BY DEF Inv
<1>2. PICK h \in todo :
        /\ KeepName(h) \/ NameRoot(h) \/ NameTemporary(h)
        /\ todo' = todo \ {h}
  BY DEF VisitOutput
<1>3. /\ UNCHANGED <<program, at, step, arg, times_visited>>
      /\ step = "outputs"
  BY DEF VisitOutput
<1>4. instruction' = instruction /\ visited' = visited /\ \A i : Visited(i)' <=> Visited(i)
  BY <1>3 DEF instruction, visited, Visited
<1>5. ReadersCounted'
  BY <1>0, <1>3, CountsKept
<1>6. /\ NamesHaveOwners' /\ PresetsKept' /\ Exclusive' /\ PoolIsFree' /\ OwnersAlone'
      /\ name' \in [Ids(program) -> Ids(program) \cup {None}]
      /\ DOMAIN shapes' = DOMAIN shapes
      /\ \A v \in Ids(program) : name[v] # None => name'[v] = name[v]
  <2>1. CASE UNCHANGED <<name, pools, shapes>>
    BY <1>0, <1>1, <2>1, NamesKept DEF Core, Shape
  <2>2. CASE ~ UNCHANGED <<name, pools, shapes>>
    <3>1. PICK g \in todo, x \in Ids(program) :
            /\ name[g] = None /\ name' = [name EXCEPT ![g] = x]
            /\ UNCHANGED shapes \/ \E k : shapes' = [shapes EXCEPT ![x] = k]
            /\ \/ x = g /\ pools' = pools
               \/ /\ ~IsRoot(program, g)
                  /\ \E e \in pools : x = e.name /\ pools' = pools \ {e} /\ e.key # NoKey
      BY <2>2, NewName
    <3>2. NamesHaveOwners' /\ PresetsKept' /\ Exclusive' /\ PoolIsFree' /\ OwnersAlone'
      BY <3>1, NewNameIsFree
    <3> QED  BY <1>1, <3>1, <3>2 DEF Core, Shape
  <2> QED  BY <2>1, <2>2
<1>7. name'[h] # None
  <2>1. h \in Ids(program)
    BY <1>1, <1>2 DEF Core, Shape
  <2>2. CASE KeepName(h)
    BY <2>2 DEF KeepName
  <2>3. CASE ~KeepName(h)
    <3>1. name[h] = None
      BY <1>2, <2>3 DEF NameRoot, NameTemporary
    <3>2. \E x : name' = [name EXCEPT ![h] = x]
      BY <1>2, <2>3 DEF NameRoot, NameTemporary
    <3>3. CASE UNCHANGED <<name, pools, shapes>>
      <4>1. NameTemporary(h) \/ NameRoot(h)
        BY <1>2, <2>3
      <4>2. CASE NameRoot(h)
        BY <1>1, <2>1, <4>2, IdsPositive DEF NameRoot, Core, Shape
      <4>3. CASE NameTemporary(h)
        <5> DEFINE reuse == AllocateFromPool(Key(h), time_started)
        <5>1. PICK choice \in IF reuse = {} THEN {<<h, pools>>} ELSE reuse :
                name' = [name EXCEPT ![h] = choice[1]]
          BY <4>3 DEF NameTemporary
        <5>2. choice[1] \in Ids(program)
          <6>1. CASE reuse = {}
            BY <2>1, <5>1, <6>1
          <6>2. CASE reuse # {}
            <7>1. PICK e \in pools : choice = <<e.name, pools \ {e}>>
              BY <5>1, <6>2 DEF AllocateFromPool, Tops
            <7> QED  BY <1>1, <7>1 DEF Core, NamesHaveOwners
          <6> QED  BY <6>1, <6>2
        <5>3. name'[h] = choice[1]
          BY <1>1, <2>1, <5>1 DEF Core, Shape
        <5> QED  BY <1>1, <5>2, <5>3, IdsPositive
      <4> QED  BY <4>1, <4>2, <4>3
    <3>4. CASE ~ UNCHANGED <<name, pools, shapes>>
      <4>1. PICK g \in todo, x \in Ids(program) :
              name[g] = None /\ name' = [name EXCEPT ![g] = x]
        BY <3>4, NewName
      <4>2. g \in Ids(program) /\ name'[g] = x /\ x # None
        BY <1>1, <4>1, IdsPositive DEF Core, Shape
      <4>3. g = h
        BY <1>1, <2>1, <3>2, <4>1, <4>2 DEF Core, Shape
      <4> QED  BY <4>2, <4>3
    <3> QED  BY <3>3, <3>4
  <2> QED  BY <2>2, <2>3
<1>8. Shape'
  BY <1>1, <1>2, <1>3, <1>4, <1>6 DEF Core, Shape
<1>9. OutputsNamed'
  <2>1. \A i \in Operations(program) : Visited(i) =>
          \A g \in Outputs(program, i) : name'[g] # None
    <3>1. \A i \in Operations(program) : Outputs(program, i) \subseteq Ids(program)
      BY DEF Operations, Outputs, Readers
    <3> QED  BY <1>1, <1>6, <3>1 DEF Core, OutputsNamed
  <2>2. \A g \in Outputs(program, instruction) : g \in todo' \/ name'[g] # None
    <3>1. instruction \in Ids(program)
      BY <1>1, <1>3, InstructionNotVisited DEF Core, Shape
    <3>2. Outputs(program, instruction) \subseteq Ids(program)
      BY <3>1 DEF Outputs, Readers
    <3> QED  BY <1>1, <1>2, <1>3, <1>6, <1>7, <3>2 DEF Core, OutputsNamed
  <2>3. \A i \in Ids(program) : Op(program, i) = "parameter" => name'[i] = i
    BY <1>1, <1>6, IdsPositive DEF Core, OutputsNamed
  <2> QED  BY <1>3, <1>4, <2>1, <2>2, <2>3 DEF OutputsNamed
<1> QED  BY <1>5, <1>6, <1>8, <1>9 DEF Core

\* Turning from the outputs to the operands keeps the invariant.
LEMMA OutputsVisitedKeepsCore ==
  ASSUME Inv, IsWellNamed(program), OutputsVisited
  PROVE  Core'
<1>1. NameNext
  BY DEF NameNext
<1>2. Core /\ program \in Programs
  BY DEF Inv
<1>3. /\ UNCHANGED <<program, at, todo, name, times_visited, pools, shapes>>
      /\ step = "outputs" /\ step' = "operands" /\ arg' = 1 /\ todo = {}
  BY DEF OutputsVisited
<1>4. /\ NamesHaveOwners' /\ PresetsKept' /\ Exclusive' /\ PoolIsFree' /\ OwnersAlone'
      /\ ReadersCounted'
  BY <1>1, <1>3, NamesKept, CountsKept
<1>5. instruction' = instruction /\ visited' = visited /\ \A i : Visited(i)' <=> Visited(i)
  BY <1>3 DEF instruction, visited, Visited
<1>6. Shape'
  BY <1>2, <1>3, <1>5 DEF Core, Shape
<1>7. OutputsNamed'
  BY <1>2, <1>3, <1>5 DEF Core, OutputsNamed
<1> QED  BY <1>4, <1>6, <1>7 DEF Core

\* Going on to the next instruction keeps the invariant.
LEMMA FinishKeepsCore ==
  ASSUME Inv, IsWellNamed(program), Finish
  PROVE  Core'
<1>1. NameNext
  BY DEF NameNext
<1>2. Core /\ program \in Programs
  BY DEF Inv
<1>3. /\ UNCHANGED <<program, todo, arg, name, times_visited, pools, shapes>>
      /\ at' = at + 1 /\ step = "operands" /\ step' = "visit"
  BY DEF Finish
<1>4. /\ NamesHaveOwners' /\ PresetsKept' /\ Exclusive' /\ PoolIsFree' /\ OwnersAlone'
      /\ ReadersCounted'
  BY <1>1, <1>3, NamesKept, CountsKept
<1>5. Shape'
  BY <1>2, <1>3, OrderIsSequence DEF Core, Shape
<1>6. \A i : Visited(i)' => Visited(i) \/ i = instruction
  BY <1>2, <1>3 DEF Visited, instruction, Core, Shape
<1>7. OutputsNamed'
  BY <1>2, <1>3, <1>6 DEF Core, OutputsNamed
<1> QED  BY <1>4, <1>5, <1>7 DEF Core

\* Reading an operand makes the instruction one of its counted readers.
LEMMA OneMoreReader ==
  ASSUME Inv, IsWellNamed(program), FreeOperand, NEW v, v = visited.in[arg],
         Op(program, v) # "offset"
  PROVE  /\ v \in Values(program) /\ v \in Ids(program)
         /\ name[v] \in Ids(program) /\ Live(v)
         /\ Cardinality(ReadBy(v)') = Cardinality(ReadBy(v)) + 1
<1>0. NameNext
  BY DEF NameNext
<1>1. Core /\ program \in Programs /\ program' = program
  BY <1>0, HasReadStable DEF Inv
<1>2. /\ UNCHANGED <<at, step, todo, name>>
      /\ step = "operands" /\ arg <= Len(visited.in) /\ arg' = arg + 1 /\ arg \in Nat \ {0}
  BY <1>1 DEF FreeOperand, Core, Shape
<1>3. at <= Len(program.order)
  BY <1>1, <1>2 DEF Core, Shape
<1>4. instruction \in Ids(program) /\ ~Visited(instruction)
  BY <1>3, InstructionNotVisited
<1>5. visited.in \in Seq(Ids(program))
  <2>1. IsFlat(program)
    BY <1>1, ProgramsAssumption
  <2> QED  BY <1>4, <2>1 DEF IsFlat, visited
<1>6. arg \in DOMAIN visited.in /\ v \in Elements(visited.in)
  BY <1>2, <1>5 DEF Elements
<1>7. v \in Values(program) /\ name[v] # None
  BY <1>2, <1>6, OperandIsNamed
<1>8. v \in Ids(program) /\ name[v] \in Ids(program)
  BY <1>1, <1>7 DEF Values, Core, Shape
<1>9. instruction \in Readers(program, v)
  BY <1>4, <1>6 DEF Readers, visited
<1>10. ~HasRead(instruction, v)
  <2>1. \A k \in DOMAIN visited.in : visited.in[k] = v => k = arg
    BY <1>4, <1>6 DEF IsWellNamed, visited
  <2> QED  BY <1>2, <1>4, <2>1 DEF HasRead
<1>11. Live(v)
  BY <1>7, <1>9, <1>10 DEF Live
<1>12. instruction' = instruction /\ visited' = visited /\ \A i : Visited(i)' <=> Visited(i)
  BY <1>1, <1>2 DEF instruction, visited, Visited
<1>c. PICK c : c = instruction
  OBVIOUS
<1>13. HasRead(c, v)'
  <2>1. arg \in 1 .. arg' - 1
    BY <1>2
  <2> QED  BY <1>2, <1>6, <1>12, <1>c, <2>1 DEF HasRead
<1>14. \A u : HasRead(u, v)' => HasRead(u, v) \/ u = instruction
  BY <1>12 DEF HasRead
<1>15. ReadBy(v)' = ReadBy(v) \cup {c} /\ c \notin ReadBy(v)
  <2>1. \A u : HasRead(u, v) => HasRead(u, v)'
    BY <1>0, HasReadStable
  <2>2. ReadBy(v)' = {u \in Readers(program, v) : HasRead(u, v)'}
    BY <1>1 DEF ReadBy
  <2> QED  BY <1>c, <1>9, <1>10, <1>13, <1>14, <2>1, <2>2 DEF ReadBy
<1>16. Cardinality(ReadBy(v)') = Cardinality(ReadBy(v)) + 1
  BY <1>1, <1>15, ReadersFinite, FS_AddElement
<1> QED  BY <1>7, <1>8, <1>11, <1>16

\* Freeing an operand keeps the invariant.
LEMMA FreeOperandKeepsCore ==
  ASSUME Inv, IsWellNamed(program), FreeOperand
  PROVE  Core'
<1>0. NameNext
  BY DEF NameNext
<1>1. Core /\ program \in Programs /\ program' = program
  BY <1>0, HasReadStable DEF Inv
<1>2. UNCHANGED <<at, step, todo, name, shapes>> /\ arg' = arg + 1
  BY DEF FreeOperand
<1>3. instruction' = instruction /\ visited' = visited /\ \A i : Visited(i)' <=> Visited(i)
  BY <1>1, <1>2 DEF instruction, visited, Visited
<1>4. OutputsNamed'
  BY <1>1, <1>2, <1>3 DEF Core, OutputsNamed
<1>v. PICK v : v = visited.in[arg]
  OBVIOUS
<1>5. CASE IsKept(v)
  <2>1. UNCHANGED <<times_visited, pools>>
    BY <1>v, <1>5 DEF FreeOperand
  <2>2. /\ NamesHaveOwners' /\ PresetsKept' /\ Exclusive' /\ PoolIsFree' /\ OwnersAlone'
        /\ ReadersCounted'
    BY <1>0, <1>2, <2>1, NamesKept, CountsKept
  <2>3. Shape'
    BY <1>1, <1>2, <1>3, <2>1 DEF Core, Shape
  <2> QED  BY <1>4, <2>2, <2>3 DEF Core
<1>6. CASE ~IsKept(v)
  <2>1. /\ times_visited' = [times_visited EXCEPT ![v] = @ + 1]
        /\ pools' = IF LastUse(v)
                      THEN pools \cup {[name |-> name[v], key |-> shapes[name[v]],
                                        time |-> time_done, of |-> v]}
                      ELSE pools
    BY <1>v, <1>6 DEF FreeOperand
  <2>2. Op(program, v) # "offset" /\ Op(program, v) # "parameter"
    BY <1>6 DEF IsKept
  <2>3. /\ v \in Values(program) /\ v \in Ids(program)
        /\ name[v] \in Ids(program) /\ Live(v)
        /\ Cardinality(ReadBy(v)') = Cardinality(ReadBy(v)) + 1
    BY <1>v, <2>2, OneMoreReader
  <2>4. Shape'
    BY <1>1, <1>2, <1>3, <2>1, <2>3 DEF Core, Shape
  <2>5. /\ times_visited[v] \in Nat
        /\ times_visited[v] <= Cardinality(ReadBy(v))
        /\ Cardinality(ReadBy(v)) \in Nat
    BY <1>1, <2>3, ReadersFinite DEF Core, Shape, ReadersCounted
  <2>6. ReadersCounted'
    <3> SUFFICES ASSUME NEW w \in Ids(program)
                 PROVE  times_visited'[w] <= Cardinality(ReadBy(w)')
      BY <1>1 DEF ReadersCounted
    <3>1. CASE w = v
      <4>1. times_visited'[v] = times_visited[v] + 1
        BY <1>1, <2>1, <2>3 DEF Core, Shape
      <4> QED  BY <2>3, <2>5, <3>1, <4>1
    <3>2. CASE w # v
      <4>1. times_visited'[w] = times_visited[w] /\ times_visited[w] \in Nat
        BY <1>1, <2>1, <3>2 DEF Core, Shape
      <4>2. times_visited[w] <= Cardinality(ReadBy(w))
        BY <1>1 DEF Core, ReadersCounted
      <4> QED  BY <1>0, <4>1, <4>2, ReadByGrows
    <3> QED  BY <3>1, <3>2
  <2>7. CASE ~LastUse(v)
    <3>1. NamesHaveOwners' /\ PresetsKept' /\ Exclusive' /\ PoolIsFree' /\ OwnersAlone'
      BY <1>0, <1>2, <2>1, <2>7, NamesKept
    <3> QED  BY <1>4, <2>4, <2>6, <3>1 DEF Core
  <2>8. CASE LastUse(v)
    <3>1. /\ ReadBy(v)' \subseteq Readers(program, v)
          /\ IsFiniteSet(Readers(program, v))
          /\ Cardinality(Readers(program, v)) \in Nat
      BY <1>1, ReadersFinite DEF ReadBy
    <3>2. /\ Cardinality(ReadBy(v)') <= Cardinality(Readers(program, v))
          /\ Cardinality(ReadBy(v)') = Cardinality(Readers(program, v)) =>
               ReadBy(v)' = Readers(program, v)
      BY <3>1, FS_Subset
    <3>3. ~IsRoot(program, v) /\ Cardinality(ReadBy(v)') = Cardinality(Readers(program, v))
      BY <2>3, <2>5, <2>8, <3>1, <3>2 DEF LastUse, UserCount
    <3>4. ~Live(v)'
      <4>1. \A u \in Readers(program, v) : HasRead(u, v)'
        BY <3>2, <3>3 DEF ReadBy
      <4>2. Readers(program, v) # {}
        BY <2>3, <2>5, <3>3, FS_EmptySet
      <4> QED  BY <1>1, <2>2, <3>3, <4>1, <4>2 DEF Live
    <3>5. \A w : Live(w)' => Live(w) /\ w # v
      BY <1>0, <1>2, <3>4, LiveStable
    <3> DEFINE freed == [name |-> name[v], key |-> shapes[name[v]],
                         time |-> time_done, of |-> v]
    <3>6. /\ freed.name = name[v] /\ freed.key = shapes[name[v]]
          /\ pools' = pools \cup {freed}
      BY <2>1, <2>8
    <3> HIDE DEF freed
    <3>7. NamesHaveOwners'
      BY <1>1, <1>2, <2>3, <3>6, IdsPositive DEF Core, NamesHaveOwners
    <3>8. Exclusive'
      BY <1>1, <1>2, <3>5 DEF Core, Exclusive, IsPreset
    <3>9. PoolIsFree'
      <4>1. \A e \in pools : e.name = name[v] => IsPreset(name[v])
        BY <1>1, <2>3 DEF Core, PoolIsFree
      <4>2. \A w \in Values(program) : Live(w)' /\ name[w] = name[v] => IsPreset(name[v])
        BY <1>1, <2>3, <3>5 DEF Core, Exclusive
      <4> QED  BY <1>1, <1>2, <3>5, <3>6, <4>1, <4>2 DEF Core, PoolIsFree, IsPreset
    <3>10. PresetsKept'
      BY <1>1, <1>2, <3>6 DEF Core, PresetsKept, IsPreset
    <3>11. OwnersAlone'
      BY <1>1, <1>2 DEF Core, OwnersAlone, IsPreset
    <3> QED  BY <1>4, <2>4, <2>6, <3>7, <3>8, <3>9, <3>10, <3>11 DEF Core
  <2> QED  BY <2>7, <2>8
<1> QED  BY <1>5, <1>6

-----------------------------------------------------------------------------
\* The initial states satisfy the invariant.
LEMMA InitInv ==
  ASSUME NameInit
  PROVE  Inv
<1>1. program \in Programs
  BY DEF NameInit
<1> SUFFICES ASSUME IsWellNamed(program)
             PROVE  Core
  BY <1>1 DEF Inv
<1>2. /\ at = 1 /\ step = "visit" /\ todo = {} /\ arg = 1 /\ pools = {}
      /\ name = [i \in Ids(program) |->
                   IF Op(program, i) = "parameter" THEN i ELSE program.n[i].name]
      /\ times_visited = [i \in Ids(program) |-> 0]
      /\ shapes = [x \in Ids(program) \cup {None} |-> NoKey]
  BY DEF NameInit
<1>p. /\ IsFlat(program)
      /\ \A i \in Ids(program) : program.n[i].name \in Ids(program) \cup {None}
  BY <1>1, ProgramsAssumption DEF IsFlat, None
<1>3. Shape
  BY <1>1, <1>2, <1>p, OrderIsSequence DEF Shape
<1>4. \A i : ~Visited(i)
  BY <1>2 DEF Visited
<1>5. OutputsNamed
  BY <1>2, <1>4 DEF OutputsNamed
<1>q. \A x \in PresetNames(program) : x \in Ids(program) /\ program.n[x].name = x /\ x # None
  BY <1>p DEF PresetNames, IsWellNamed
<1>6. NamesHaveOwners
  <2> SUFFICES ASSUME NEW v \in Ids(program), name[v] # None
               PROVE  name[name[v]] = name[v]
    BY <1>2 DEF NamesHaveOwners
  <2>1. CASE Op(program, v) = "parameter"
    BY <1>2, <2>1
  <2>2. CASE Op(program, v) # "parameter"
    <3>1. name[v] = program.n[v].name /\ name[v] \in PresetNames(program)
      BY <1>2, <2>2 DEF PresetNames
    <3> QED  BY <1>2, <1>q, <3>1
  <2> QED  BY <2>1, <2>2
<1>r. PresetsKept
  <2>1. \A v \in Ids(program) : program.n[v].name # None => Op(program, v) # "parameter"
    BY DEF IsWellNamed
  <2>2. \A v \in Ids(program) : IsPreset(name[v]) => program.n[v].name = name[v]
    <3> SUFFICES ASSUME NEW v \in Ids(program), IsPreset(name[v])
                 PROVE  program.n[v].name = name[v]
      OBVIOUS
    <3>1. name[v] \in Ids(program) /\ program.n[name[v]].name = name[v] /\ name[v] # None
      BY <1>q DEF IsPreset
    <3>2. Op(program, name[v]) # "parameter"
      BY <2>1, <3>1
    <3>3. Op(program, v) # "parameter"
      BY <1>2, <3>2
    <3> QED  BY <1>2, <3>3
  <2> QED  BY <1>2, <1>q, <2>1, <2>2 DEF PresetsKept
<1>s. \A v \in Values(program) :
        name[v] # None => IsPreset(name[v]) \/ (name[v] = v /\ Op(program, v) = "parameter")
  BY <1>2 DEF Values, IsPreset, PresetNames
<1>7. Exclusive
  BY <1>s DEF Exclusive, Live
<1>8. PoolIsFree
  BY <1>2 DEF PoolIsFree
<1>9. ReadersCounted
  BY <1>1, <1>2, ReadersFinite DEF ReadersCounted
<1>10. OwnersAlone
  BY <1>s DEF OwnersAlone
<1> QED  BY <1>3, <1>5, <1>6, <1>r, <1>7, <1>8, <1>9, <1>10 DEF Core

\* A state in which nothing of the pass changes satisfies the invariant as before.
LEMMA StutterInv ==
  ASSUME Inv, UNCHANGED nameVars
  PROVE  Inv'
<1>1. /\ program' = program /\ at' = at /\ step' = step /\ todo' = todo /\ arg' = arg
      /\ name' = name /\ times_visited' = times_visited /\ pools' = pools /\ shapes' = shapes
  BY DEF nameVars
<1>2. instruction' = instruction /\ visited' = visited
  BY <1>1 DEF instruction, visited
<1>3. \A v : Visited(v)' <=> Visited(v)
  BY <1>1 DEF Visited
<1>4. \A u, v : HasRead(u, v)' <=> HasRead(u, v)
  BY <1>1, <1>2, <1>3 DEF HasRead
<1>5. \A v : (Live(v)' <=> Live(v)) /\ ReadBy(v)' = ReadBy(v)
  BY <1>1, <1>4 DEF Live, ReadBy
<1>6. Shape => Shape'
  BY <1>1, <1>2 DEF Shape
<1>7. OutputsNamed => OutputsNamed'
  BY <1>1, <1>2, <1>3 DEF OutputsNamed
<1>8. NamesHaveOwners => NamesHaveOwners'
  BY <1>1 DEF NamesHaveOwners
<1>9. Exclusive => Exclusive'
  BY <1>1, <1>5 DEF Exclusive, IsPreset
<1>10. PoolIsFree => PoolIsFree'
  BY <1>1, <1>5 DEF PoolIsFree, IsPreset
<1>11. ReadersCounted => ReadersCounted'
  BY <1>1, <1>5 DEF ReadersCounted
<1>12. PresetsKept => PresetsKept'
  BY <1>1 DEF PresetsKept, IsPreset
<1>13. OwnersAlone => OwnersAlone'
  BY <1>1 DEF OwnersAlone, IsPreset
<1> QED
  BY <1>1, <1>6, <1>7, <1>8, <1>9, <1>10, <1>11, <1>12, <1>13 DEF Inv, Core, IsWellNamed

\* The invariant holds all along.
LEMMA NamesInvariance == NameSpec => []Inv
<1>1. NameInit => Inv
  BY InitInv
<1>2. Inv /\ [NameNext]_nameVars => Inv'
  <2> SUFFICES ASSUME Inv, [NameNext]_nameVars
               PROVE  Inv'
    OBVIOUS
  <2>1. CASE UNCHANGED nameVars
    BY <2>1, StutterInv
  <2>2. CASE NameNext
    <3>1. program' = program
      BY <2>2 DEF NameNext, Pass, StartCall, StartReshard, VisitOutput, OutputsVisited,
                  FreeOperand, Finish
    <3> SUFFICES ASSUME IsWellNamed(program)
                 PROVE  Core'
      BY <3>1 DEF Inv, IsWellNamed
    <3> QED
      BY <2>2, PassKeepsCore, StartKeepsCore, VisitOutputKeepsCore, OutputsVisitedKeepsCore,
         FinishKeepsCore, FreeOperandKeepsCore DEF NameNext
  <2> QED  BY <2>1, <2>2
<1> QED  BY <1>1, <1>2, PTL DEF NameSpec

(***************************************************************************)
(* For every set of programs: as MpmdAssignBufferSchedulingName goes       *)
(* through the entry computation, no two values that are still needed have *)
(* the same scheduling name, but for those an earlier pass has given it.   *)
(***************************************************************************)
THEOREM NamesExclusive == NameSpec => []NamesAreExclusive
<1>1. Inv => NamesAreExclusive
  BY DEF Inv, Core, Exclusive, NamesAreExclusive, IsPreset
<1> QED  BY <1>1, NamesInvariance, PTL

-----------------------------------------------------------------------------
(***************************************************************************)
(* No operation is given the buffer of a value that is needed after it, in *)
(* programs whose accumulators are chained.                                *)
(***************************************************************************)

\* w has been given its name by the visit of the operation that computes it.
Started(w) ==
  \/ Op(program, w) = "parameter"
  \/ \E i \in Operations(program) :
       /\ w \in Outputs(program, i)
       /\ Visited(i) \/ (step # "visit" /\ i = instruction /\ w \notin todo)

\* What an operation computes and what is needed after it have different names.
Apart ==
  \A i \in Operations(program) : \A w \in Outputs(program, i) : \A v \in Values(program) :
    /\ v # w /\ Started(w) /\ Started(v)
    /\ Op(program, v) = "parameter" \/ ComputedBy(program, v, i)
    /\ NeededAfter(program, v, i)
    => name[v] # name[w]

TodoIsOwn == step # "visit" => todo \subseteq Outputs(program, instruction)

ApartInv == IsWellNamed(program) /\ IsChained(program) => Apart /\ TodoIsOwn

\* An output is a value and no parameter, of one operation.
LEMMA OutputFacts ==
  ASSUME program \in Programs, NEW i \in Operations(program), NEW w \in Outputs(program, i)
  PROVE  /\ w \in Values(program) /\ w \in Ids(program) /\ i \in Ids(program)
         /\ Op(program, w) # "parameter"
         /\ Op(program, i) = "call" => Op(program, w) = "gte" /\ program.n[w].in = <<i>>
         /\ Op(program, i) # "call" => w = i /\ Op(program, i) = "reshard"
         /\ \A j \in Operations(program) : w \in Outputs(program, j) => j = i
<1>1. IsFlat(program)
  BY ProgramsAssumption
<1>2. i \in Ids(program) /\ Op(program, i) \in {"call", "reshard"}
  BY DEF Operations
<1>3. ASSUME NEW c \in Ids(program), Op(program, c) = "call", NEW g \in Outputs(program, c)
      PROVE  g \in Ids(program) /\ Op(program, g) = "gte" /\ program.n[g].in = <<c>>
  <2>1. g \in Ids(program) /\ c \in Elements(program.n[g].in)
    BY <1>3 DEF Outputs, Readers
  <2>2. Op(program, g) = "gte"
    BY <1>1, <1>3, <2>1 DEF IsFlat
  <2>3. PICK d \in Ids(program) : program.n[g].in = <<d>>
    BY <1>1, <2>1, <2>2 DEF IsFlat
  <2>4. c = d
    BY <2>1, <2>3 DEF Elements
  <2> QED  BY <2>1, <2>2, <2>3, <2>4
<1>4. ASSUME NEW r \in Ids(program), Op(program, r) # "call", NEW g \in Outputs(program, r)
      PROVE  g = r
  BY <1>4 DEF Outputs
<1>5. /\ w \in Ids(program) /\ Op(program, w) \in {"gte", "reshard"}
      /\ Op(program, i) = "call" => Op(program, w) = "gte" /\ program.n[w].in = <<i>>
      /\ Op(program, i) # "call" => w = i /\ Op(program, i) = "reshard"
  BY <1>2, <1>3, <1>4
<1>6. ASSUME NEW j \in Operations(program), w \in Outputs(program, j)
      PROVE  j = i
  <2>1. j \in Ids(program) /\ Op(program, j) \in {"call", "reshard"}
    BY DEF Operations
  <2>2. /\ Op(program, j) = "call" => Op(program, w) = "gte" /\ program.n[w].in = <<j>>
        /\ Op(program, j) # "call" => w = j
    BY <1>3, <1>4, <1>6, <2>1
  <2> QED  BY <1>2, <1>5, <2>1, <2>2
<1> QED  BY <1>2, <1>5, <1>6 DEF Values

\* Every instruction has one place in the post order.
LEMMA HasPlace ==
  ASSUME program \in Programs, NEW u \in Ids(program)
  PROVE  \E k \in DOMAIN program.order : k \in Nat \ {0} /\ program.order[k] = u
<1>1. IsPostOrder(program)
  BY ProgramsAssumption
<1>2. DOMAIN program.order \subseteq Nat \ {0}
  BY OrderIsSequence
<1> QED  BY <1>1, <1>2 DEF IsPostOrder, Elements

\* What reads an output comes after the operation that computes it.
LEMMA ReadersComeAfter ==
  ASSUME program \in Programs, NEW i \in Operations(program), NEW w \in Outputs(program, i),
         NEW u \in Readers(program, w)
  PROVE  Precedes(program, i, u)
<1>1. u \in Ids(program) /\ w \in Elements(program.n[u].in)
  BY DEF Readers
<1>2. PICK k \in DOMAIN program.order : k \in Nat \ {0} /\ program.order[k] = u
  BY <1>1, HasPlace
<1>3. PICK j \in DOMAIN program.order : j < k /\ program.order[j] = w
  BY <1>1, <1>2, OperandsFirst
<1>4. j \in Nat
  BY OrderIsSequence
<1>5. CASE Op(program, i) = "call"
  <2>1. i \in Elements(program.n[w].in)
    BY <1>5, OutputFacts DEF Elements
  <2>2. PICK l \in DOMAIN program.order : l < j /\ program.order[l] = i
    BY <1>3, <2>1, OperandsFirst
  <2>3. l \in Nat /\ l < k
    BY <1>2, <1>3, <1>4, <2>2, OrderIsSequence
  <2> QED  BY <1>2, <2>2, <2>3 DEF Precedes
<1>6. CASE Op(program, i) # "call"
  BY <1>2, <1>3, <1>6, OutputFacts DEF Precedes
<1> QED  BY <1>5, <1>6

\* What comes after the instruction has neither been visited nor read anything.
LEMMA LaterIsUnvisited ==
  ASSUME Inv, IsWellNamed(program), at <= Len(program.order), NEW u,
         Precedes(program, instruction, u)
  PROVE  ~Visited(u) /\ u # instruction /\ \A v : ~HasRead(u, v)
<1>1. PICK k, l \in DOMAIN program.order :
        k < l /\ program.order[k] = instruction /\ program.order[l] = u
  BY DEF Precedes
<1>2. at \in DOMAIN program.order /\ program \in Programs
  BY InstructionNotVisited DEF Inv
<1>3. k = at
  BY <1>1, <1>2, OrderIsSequence DEF instruction
<1>4. at \in Nat /\ l \in Nat /\ at < l /\ DOMAIN program.order = 1 .. Len(program.order)
  BY <1>1, <1>2, <1>3, OrderIsSequence
<1>5. \A j \in 1 .. at - 1 : j \in DOMAIN program.order /\ j # l
  BY <1>2, <1>4
<1>6. ~Visited(u)
  BY <1>1, <1>2, <1>5, OrderIsSequence DEF Visited
<1>7. u # instruction
  BY <1>1, <1>2, <1>3, <1>4, OrderIsSequence DEF instruction
<1> QED  BY <1>6, <1>7 DEF HasRead

\* A value that has been started has a name.
LEMMA StartedIsNamed ==
  ASSUME Inv, IsWellNamed(program), NEW v \in Values(program), Started(v)
  PROVE  name[v] # None
<1>1. Core /\ program \in Programs /\ v \in Ids(program)
  BY DEF Inv, Values
<1>2. CASE Op(program, v) = "parameter"
  BY <1>1, <1>2, IdsPositive DEF Core, OutputsNamed
<1>3. CASE Op(program, v) # "parameter"
  BY <1>1, <1>3 DEF Started, Core, OutputsNamed
<1> QED  BY <1>2, <1>3

\* The outputs of the instruction are live when they have names: what reads them is later.
LEMMA OutputsAreLive ==
  ASSUME Inv, IsWellNamed(program), at <= Len(program.order),
         instruction \in Operations(program),
         NEW w \in Outputs(program, instruction), name[w] # None
  PROVE  Live(w)
<1>1. program \in Programs /\ w \in Values(program)
  BY OutputFacts DEF Inv
<1>2. \A u \in Readers(program, w) : ~HasRead(u, w)
  BY <1>1, ReadersComeAfter, LaterIsUnvisited
<1> QED  BY <1>1, <1>2 DEF Live

\* A value that is needed after the instruction is live.
LEMMA NeededIsLive ==
  ASSUME Inv, IsWellNamed(program), at <= Len(program.order),
         NEW v \in Values(program), name[v] # None, NeededAfter(program, v, instruction)
  PROVE  Live(v)
BY LaterIsUnvisited DEF Live, NeededAfter

\* Live values with one name that come before one another are accumulators out of chain.
LEMMA ChainsAreApart ==
  ASSUME Inv, IsWellNamed(program), IsChained(program),
         NEW i \in Operations(program), NEW w \in Outputs(program, i),
         NEW v \in Values(program), v # w, Live(v), Live(w), name[v] = name[w],
         Op(program, v) = "parameter" \/ ComputedBy(program, v, i)
  PROVE  v \notin Outputs(program, i) /\ ~NeededAfter(program, v, i)
<1>1. Core /\ program \in Programs /\ w \in Values(program) /\ w \in Ids(program)
  BY OutputFacts DEF Inv
<1>2. v \in Ids(program) /\ IsPreset(name[w])
  BY <1>1 DEF Core, Exclusive, Values
<1>3. program.n[v].name = name[w] /\ program.n[w].name = name[w]
  BY <1>1, <1>2 DEF Core, PresetsKept
<1>4. name[w] # None
  BY <1>2 DEF IsPreset, PresetNames
<1>5. Op(program, v) # "parameter"
  BY <1>2, <1>3, <1>4 DEF IsWellNamed
<1>6. v \in Forerunners(program, w, i)
  BY <1>3, <1>5 DEF Forerunners
<1> QED  BY <1>3, <1>4, <1>6 DEF IsChained

\* The instruction is not given the buffer of a value that is needed after it.
LEMMA InstructionIsApart ==
  ASSUME Inv, IsWellNamed(program), IsChained(program), at <= Len(program.order),
         instruction \in Operations(program), NEW w \in Outputs(program, instruction),
         NEW v \in Values(program), v # w, Started(v), Started(w),
         Op(program, v) = "parameter" \/ ComputedBy(program, v, instruction),
         NeededAfter(program, v, instruction)
  PROVE  name[v] # name[w]
<1>1. w \in Values(program)
  BY OutputFacts DEF Inv
<1>2. name[v] # None /\ name[w] # None
  BY <1>1, StartedIsNamed
<1>3. Live(w) /\ Live(v)
  BY <1>2, OutputsAreLive, NeededIsLive
<1> QED  BY <1>3, ChainsAreApart

\* The same after a step.
LEMMA InstructionIsApartNext ==
  (\A v, w : /\ Inv /\ IsWellNamed(program) /\ IsChained(program)
             /\ at <= Len(program.order) /\ instruction \in Operations(program)
             /\ w \in Outputs(program, instruction) /\ v \in Values(program) /\ v # w
             /\ Started(v) /\ Started(w)
             /\ Op(program, v) = "parameter" \/ ComputedBy(program, v, instruction)
             /\ NeededAfter(program, v, instruction)
             => name[v] # name[w])'
<1>1. \A v, w : /\ Inv /\ IsWellNamed(program) /\ IsChained(program)
                /\ at <= Len(program.order) /\ instruction \in Operations(program)
                /\ w \in Outputs(program, instruction) /\ v \in Values(program) /\ v # w
                /\ Started(v) /\ Started(w)
                /\ Op(program, v) = "parameter" \/ ComputedBy(program, v, instruction)
                /\ NeededAfter(program, v, instruction)
                => name[v] # name[w]
  BY InstructionIsApart
<1> QED  BY <1>1, PTL

\* The steps that name nothing start nothing.
LEMMA StartsNothing ==
  ASSUME Inv, IsWellNamed(program), TodoIsOwn, NameNext, ~VisitOutput
  PROVE  /\ name' = name /\ TodoIsOwn'
         /\ \A w : Started(w)' => Started(w)
<1>0. program' = program
  BY HasReadStable
<1>1. Core /\ program \in Programs
  BY DEF Inv
<1>2. CASE Pass
  <2>1. /\ UNCHANGED <<step, todo, name>> /\ at' = at + 1 /\ step = "visit"
        /\ visited.op \in {"parameter", "gte", "offset"}
    BY <1>2 DEF Pass, Visiting
  <2>2. ASSUME NEW i \in Operations(program), Visited(i)'
        PROVE  Visited(i)
    <3>1. PICK k \in 1 .. at : program.order[k] = i
      BY <1>0, <1>1, <2>1, <2>2 DEF Visited, Core, Shape
    <3>2. k # at
      BY <2>1, <3>1 DEF Operations, Op, visited, instruction
    <3> QED  BY <1>1, <3>1, <3>2 DEF Visited, Core, Shape
  <2> QED  BY <1>0, <2>1, <2>2 DEF Started, TodoIsOwn
<1>3. CASE StartCall \/ StartReshard
  <2>1. /\ UNCHANGED <<at, name>> /\ step' = "outputs"
        /\ todo' = Outputs(program, instruction)
    BY <1>3 DEF StartCall, StartReshard, Visiting, Outputs, visited, Op
  <2>2. instruction' = instruction /\ \A i : Visited(i)' <=> Visited(i)
    BY <1>0, <2>1 DEF instruction, Visited
  <2> QED  BY <1>0, <2>1, <2>2 DEF Started, TodoIsOwn
<1>4. CASE OutputsVisited \/ FreeOperand
  <2>1. UNCHANGED <<at, todo, name>> /\ step # "visit" /\ step' # "visit"
    BY <1>4 DEF OutputsVisited, FreeOperand
  <2>2. instruction' = instruction /\ \A i : Visited(i)' <=> Visited(i)
    BY <1>0, <2>1 DEF instruction, Visited
  <2> QED  BY <1>0, <2>1, <2>2 DEF Started, TodoIsOwn
<1>5. CASE Finish
  <2>1. UNCHANGED <<todo, name>> /\ at' = at + 1 /\ step = "operands" /\ step' = "visit"
    BY <1>5 DEF Finish
  <2>2. \A i : Visited(i)' => Visited(i) \/ i = instruction
    BY <1>0, <1>1, <2>1 DEF Visited, instruction, Core, Shape
  <2>3. todo = {}
    BY <1>1, <2>1 DEF Core, OutputsNamed
  <2> QED  BY <1>0, <2>1, <2>2, <2>3 DEF Started, TodoIsOwn
<1> QED  BY <1>2, <1>3, <1>4, <1>5 DEF NameNext

\* Naming an output keeps what is needed apart from it.
LEMMA VisitOutputKeepsApart ==
  ASSUME Inv, Inv', IsWellNamed(program), IsChained(program), Apart, TodoIsOwn, VisitOutput
  PROVE  Apart' /\ TodoIsOwn'
<1>0. NameNext
  BY DEF NameNext
<1>1. Core /\ program \in Programs /\ program' = program
  BY <1>0, HasReadStable DEF Inv
<1>2. PICK h \in todo :
        /\ KeepName(h) \/ NameRoot(h) \/ NameTemporary(h)
        /\ todo' = todo \ {h}
  BY DEF VisitOutput
<1>3. UNCHANGED <<at, step>> /\ step = "outputs" /\ at <= Len(program.order)
  BY <1>1 DEF VisitOutput, Core, Shape
<1>4. instruction' = instruction /\ \A i : Visited(i)' <=> Visited(i)
  BY <1>1, <1>3 DEF instruction, Visited
<1>5. TodoIsOwn' /\ h \in Outputs(program, instruction)
  BY <1>1, <1>2, <1>3, <1>4 DEF TodoIsOwn
<1>6. instruction \in Operations(program) /\ instruction \in Ids(program)
  <2>1. instruction \in Ids(program) /\ visited.op \in {"call", "reshard"}
    BY <1>1, <1>3, InstructionNotVisited DEF Core, Shape
  <2> QED  BY <2>1 DEF Operations, Op, visited
<1>7. \A v : Started(v)' => Started(v) \/ v = h
  BY <1>1, <1>2, <1>3, <1>4 DEF Started
<1>8. \A v \in Ids(program) : name[v] # None => name'[v] = name[v]
  <2>1. CASE UNCHANGED <<name, pools, shapes>>
    BY <2>1
  <2>2. CASE ~ UNCHANGED <<name, pools, shapes>>
    <3>1. PICK g \in todo, x \in Ids(program) : name[g] = None /\ name' = [name EXCEPT ![g] = x]
      BY <2>2, NewName
    <3> QED  BY <1>1, <3>1 DEF Core, Shape
  <2> QED  BY <2>1, <2>2
<1>9. IsWellNamed(program)' /\ IsChained(program)'
  BY <1>1
<1>10. (at <= Len(program.order))'
  BY <1>1, <1>3
<1> SUFFICES ASSUME NEW i \in Operations(program), NEW w \in Outputs(program, i),
                    NEW v \in Values(program), v # w, Started(w)', Started(v)',
                    Op(program, v) = "parameter" \/ ComputedBy(program, v, i),
                    NeededAfter(program, v, i), name'[v] = name'[w]
             PROVE  FALSE
  BY <1>1, <1>5 DEF Apart
<1>11. /\ w \in Values(program) /\ w \in Ids(program) /\ Op(program, w) # "parameter"
       /\ v \in Ids(program) /\ i \in Ids(program)
  BY <1>1, OutputFacts DEF Values
<1>13. CASE Started(w) /\ Started(v)
  <2>1. name[v] # None /\ name[w] # None
    BY <1>11, <1>13, StartedIsNamed
  <2>2. name[v] = name[w]
    BY <1>8, <1>11, <2>1
  <2> QED  BY <1>13, <2>2 DEF Apart
<1>14. ASSUME i = instruction PROVE FALSE
  <2>1. /\ (instruction \in Operations(program) /\ w \in Outputs(program, instruction))'
        /\ (v \in Values(program) /\ NeededAfter(program, v, instruction))'
        /\ (Op(program, v) = "parameter" \/ ComputedBy(program, v, instruction))'
    BY <1>1, <1>4, <1>6, <1>14
  <2> QED  BY <1>9, <1>10, <2>1, InstructionIsApartNext
<1>15. CASE w = h
  <2>1. i = instruction
    BY <1>1, <1>5, <1>6, <1>15, OutputFacts
  <2> QED  BY <1>14, <2>1
<1>16. CASE w # h /\ v = h
  <2>1. i # instruction
    BY <1>14
  <2>2. Visited(i)
    <3>1. Started(w)
      BY <1>7, <1>16
    <3>2. PICK j \in Operations(program) :
            w \in Outputs(program, j) /\ (Visited(j) \/ j = instruction)
      BY <1>11, <3>1 DEF Started
    <3>3. j = i
      BY <1>1, <3>2, OutputFacts
    <3> QED  BY <2>1, <3>2, <3>3
  <2>3. Op(program, h) # "parameter"
    BY <1>1, <1>5, <1>6, OutputFacts
  <2>4. PICK j \in Operations(program) :
          h \in Outputs(program, j) /\ (j = i \/ Precedes(program, j, i))
    BY <1>16, <2>3 DEF ComputedBy
  <2>5. j = instruction
    BY <1>1, <1>5, <1>6, <2>4, OutputFacts
  <2> QED  BY <1>3, <2>1, <2>2, <2>4, <2>5, LaterIsUnvisited
<1> QED  BY <1>7, <1>13, <1>15, <1>16

\* What is computed and what is needed after it have different names, all along.
LEMMA NamesApart == NameSpec => []ApartInv
<1>1. NameInit => ApartInv
  <2> SUFFICES ASSUME NameInit PROVE Apart /\ TodoIsOwn
    BY DEF ApartInv
  <2>1. program \in Programs /\ at = 1 /\ step = "visit"
    BY DEF NameInit
  <2>2. \A i : ~Visited(i)
    BY <2>1 DEF Visited
  <2>3. \A w : Started(w) => Op(program, w) = "parameter"
    BY <2>1, <2>2 DEF Started
  <2> QED  BY <2>1, <2>3, OutputFacts DEF Apart, TodoIsOwn
<1>2. Inv /\ Inv' /\ ApartInv /\ [NameNext]_nameVars => ApartInv'
  <2> SUFFICES ASSUME Inv, Inv', ApartInv, [NameNext]_nameVars,
                      IsWellNamed(program)', IsChained(program)'
               PROVE  Apart' /\ TodoIsOwn'
    BY DEF ApartInv
  <2>1. program' = program
    BY DEF NameNext, Pass, StartCall, StartReshard, VisitOutput, OutputsVisited,
           FreeOperand, Finish, nameVars
  <2>2. IsWellNamed(program) /\ IsChained(program) /\ Apart /\ TodoIsOwn
    BY <2>1 DEF ApartInv
  <2>3. CASE VisitOutput
    BY <2>2, <2>3, VisitOutputKeepsApart
  <2>4. CASE NameNext /\ ~VisitOutput
    BY <2>1, <2>2, <2>4, StartsNothing DEF Apart
  <2>5. CASE UNCHANGED nameVars
    <3>1. UNCHANGED <<at, step, todo, name>>
      BY <2>5 DEF nameVars
    <3>2. instruction' = instruction /\ \A i : Visited(i)' <=> Visited(i)
      BY <2>1, <3>1 DEF instruction, Visited
    <3>3. \A w : Started(w)' <=> Started(w)
      BY <2>1, <3>1, <3>2 DEF Started
    <3> QED  BY <2>1, <2>2, <3>1, <3>2, <3>3 DEF Apart, TodoIsOwn
  <2> QED  BY <2>3, <2>4, <2>5
<1> QED  BY <1>1, <1>2, NamesInvariance, PTL DEF NameSpec
=============================================================================
