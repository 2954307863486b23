------------------------- MODULE TaskScheduleProofs ------------------------
(***************************************************************************)
(* For every program: the schedule of MpmdScheduler is a topological order *)
(* of its operations, running it computes them as the data flow allows, and*)
(* the pass that names buffers never frees a value without a name.  What   *)
(* BufferNamesProofs proves of the names holds until the end of the run.   *)
(*                                                                         *)
(* For every run in order (RunsInOrder): each operation reads its operands,*)
(* what is needed is in memory of its own, and the results appear as in    *)
(* TaskDataflow; and which programs run in order (IsOrderly).              *)
(*                                                                         *)
(* ScheduleFollowsDataflow is not inductive: that a call finds its operands*)
(* computed rests on what the loop over the post order has gone past, which*)
(* Covered adds.  Neither is ReadsOwnValues: RunInv adds that every value  *)
(* that is still awaited is in its store, Tables what stores, tasks and    *)
(* modules are, and Settled what the naming pass leaves.  The argument has *)
(* two halves: an output is written to the store of its name even when its *)
(* module aliases it to an input (WritesToItsStore), and that store holds  *)
(* nothing that is awaited then (NeededIsSpared).                          *)
(***************************************************************************)
EXTENDS TaskSchedule, BufferNamesProofs, Induction

-----------------------------------------------------------------------------
(***************************************************************************)
(* Finite sets of numbers.                                                 *)
(***************************************************************************)

\* A finite set of numbers that is not empty has a greatest one.
LEMMA GreatestNumber ==
  ASSUME NEW T, IsFiniteSet(T), T \subseteq Nat, T # {}
  PROVE  \E x \in T : \A y \in T : y <= x
<1> DEFINE HasMax(U) == \E x \in U : \A y \in U : y <= x
           S == {n \in Nat : \A U \in SUBSET T : Cardinality(U) = n + 1 => HasMax(U)}
<1>1. 0 \in S
  <2> SUFFICES ASSUME NEW U \in SUBSET T, Cardinality(U) = 1 PROVE HasMax(U)
    OBVIOUS
  <2>1. PICK x : U = {x}
    BY FS_Subset, FS_Singleton
  <2>2. x \in Nat
    BY <2>1
  <2> QED
    BY <2>1, <2>2
<1>2. ASSUME NEW n \in Nat, n \in S PROVE n + 1 \in S
  <2> SUFFICES ASSUME NEW U \in SUBSET T, Cardinality(U) = (n + 1) + 1 PROVE HasMax(U)
    OBVIOUS
  <2>0. \A W \in SUBSET T : Cardinality(W) = n + 1 => HasMax(W)
    BY <1>2
  <2> HIDE DEF S
  <2>1. IsFiniteSet(U) /\ U # {}
    <3>1. IsFiniteSet(U)
      BY FS_Subset
    <3>2. Cardinality(U) # 0
      BY <1>2
    <3> QED
      BY <3>1, <3>2, FS_EmptySet
  <2>2. PICK z : z \in U
    BY <2>1
  <2>3. Cardinality(U \ {z}) = n + 1
    <3>1. Cardinality(U \ {z}) = Cardinality(U) - 1
      BY <2>1, <2>2, FS_RemoveElement
    <3> QED
      BY <3>1
  <2>4. HasMax(U \ {z})
    BY <2>0, <2>3
  <2>5. PICK x \in U \ {z} : \A y \in U \ {z} : y <= x
    BY <2>4
  <2>6. x \in Nat /\ z \in Nat /\ U \subseteq Nat
    BY <2>2, <2>5
  <2> QED
    BY <2>2, <2>5, <2>6
<1>3. PICK b \in Nat : Cardinality(T) = b + 1
  <2>1. Cardinality(T) \in Nat /\ Cardinality(T) # 0
    BY FS_CardinalityType, FS_EmptySet
  <2>2. Cardinality(T) - 1 \in Nat
    BY <2>1
  <2> QED
    BY <2>1, <2>2
<1>4. b \in S
  <2> HIDE DEF S
  <2>1. \A i \in 0 .. b : i \in S
    BY <1>1, <1>2, UpTo
  <2> QED
    BY <2>1
<1> QED
  BY <1>3, <1>4

\* The places of a finite set of numbers: InOrder lists each element once, in their order.
LEMMA RanksOfSet ==
  ASSUME NEW S, IsFiniteSet(S), S \subseteq Nat
  PROVE  /\ Cardinality(S) \in Nat
         /\ DOMAIN InOrder(S) = 1 .. Cardinality(S)
         /\ \A k \in 1 .. Cardinality(S) : InOrder(S)[k] \in S
         /\ \A j, k \in 1 .. Cardinality(S) : InOrder(S)[j] = InOrder(S)[k] => j = k
         /\ \A i \in S : \E k \in 1 .. Cardinality(S) : InOrder(S)[k] = i
         /\ \A j, k \in 1 .. Cardinality(S) : j < k => InOrder(S)[j] < InOrder(S)[k]
<1> DEFINE Below(x) == {y \in S : y < x}
           N == Cardinality(S)
           f == [x \in S |-> Rank(S, x)]
<1>1. N \in Nat
  BY FS_CardinalityType
<1>2. ASSUME NEW x \in S PROVE Rank(S, x) \in 0 .. N - 1
  <2>1. Below(x) \subseteq S /\ x \notin Below(x)
    OBVIOUS
  <2>2. IsFiniteSet(Below(x)) /\ Cardinality(Below(x)) <= N /\ Cardinality(Below(x)) # N
    BY <2>1, FS_Subset
  <2>3. Cardinality(Below(x)) \in Nat
    BY <2>2, FS_CardinalityType
  <2>4. Rank(S, x) = Cardinality(Below(x))
    BY DEF Rank
  <2> HIDE DEF Below
  <2> QED
    BY <1>1, <2>2, <2>3, <2>4
<1>3. ASSUME NEW x \in S, NEW y \in S, x < y PROVE Rank(S, x) < Rank(S, y)
  <2>0. x \in Nat /\ y \in Nat /\ \A z \in S : z \in Nat
    OBVIOUS
  <2>1. Below(x) \subseteq Below(y) /\ x \in Below(y) /\ x \notin Below(x)
    <3>1. x \in Below(y) /\ x \notin Below(x)
      BY <1>3, <2>0
    <3>2. ASSUME NEW z \in Below(x) PROVE z \in Below(y)
      <4>1. z \in S /\ z < x /\ z \in Nat
        BY <3>2, <2>0
      <4>2. z < y
        BY <1>3, <2>0, <4>1
      <4> QED
        BY <4>1, <4>2
    <3> QED
      BY <3>1, <3>2
  <2>2. IsFiniteSet(Below(y))
    BY FS_Subset
  <2>3. Rank(S, x) = Cardinality(Below(x)) /\ Rank(S, y) = Cardinality(Below(y))
    BY DEF Rank
  <2> HIDE DEF Below
  <2>4. /\ Cardinality(Below(x)) <= Cardinality(Below(y))
        /\ Cardinality(Below(x)) # Cardinality(Below(y))
    BY <2>1, <2>2, FS_Subset
  <2>5. Rank(S, x) \in Nat /\ Rank(S, y) \in Nat
    BY <1>1, <1>2
  <2> QED
    BY <2>3, <2>4, <2>5
<1>4. \A x, y \in S : Rank(S, x) = Rank(S, y) => x = y
  <2> SUFFICES ASSUME NEW x \in S, NEW y \in S, x # y PROVE Rank(S, x) # Rank(S, y)
    OBVIOUS
  <2>1. x \in Nat /\ y \in Nat /\ Rank(S, x) \in Nat /\ Rank(S, y) \in Nat
    BY <1>1, <1>2
  <2>2. x < y \/ y < x
    BY <2>1
  <2> QED
    BY <1>3, <2>1, <2>2
<1>5. f \in Injection(S, 0 .. N - 1)
  BY <1>2, <1>4 DEF Injection, IsInjective
<1>6. IsFiniteSet(0 .. N - 1) /\ Cardinality(0 .. N - 1) = N
  <2> HIDE DEF N
  <2>1. 0 \in Int /\ N - 1 \in Int
    BY <1>1
  <2>2. /\ IsFiniteSet(0 .. N - 1)
        /\ Cardinality(0 .. N - 1) = IF 0 > N - 1 THEN 0 ELSE (N - 1) - 0 + 1
    BY <2>1, FS_Interval
  <2> QED
    BY <1>1, <2>2
<1>7. f \in Surjection(S, 0 .. N - 1)
  <2> HIDE DEF f
  <2> QED
    BY <1>5, <1>6, FS_Injection
<1>8. \A k \in 1 .. N : \E i \in S : Rank(S, i) = k - 1
  <2>1. \A m \in 0 .. N - 1 : \E i \in S : Rank(S, i) = m
    BY <1>7 DEF Surjection
  <2> HIDE DEF N
  <2>2. \A k \in 1 .. N : k - 1 \in 0 .. N - 1
    BY <1>1
  <2> QED
    BY <2>1, <2>2
<1>9. ASSUME NEW k \in 1 .. N PROVE InOrder(S)[k] \in S /\ Rank(S, InOrder(S)[k]) = k - 1
  BY <1>8 DEF InOrder
<1>10. ASSUME NEW i \in S PROVE \E k \in 1 .. N : InOrder(S)[k] = i
  <2>1. Rank(S, i) \in 0 .. N - 1
    BY <1>2
  <2>2. PICK k \in 1 .. N : Rank(S, i) = k - 1
    <3>1. Rank(S, i) + 1 \in 1 .. N /\ Rank(S, i) = (Rank(S, i) + 1) - 1
      BY <1>1, <2>1
    <3> QED
      BY <3>1
  <2> QED
    BY <1>4, <1>9, <2>2
<1>11. \A j, k \in 1 .. N : InOrder(S)[j] = InOrder(S)[k] => j = k
  <2> SUFFICES ASSUME NEW j \in 1 .. N, NEW k \in 1 .. N, InOrder(S)[j] = InOrder(S)[k]
               PROVE  j = k
    OBVIOUS
  <2>1. j - 1 = k - 1
    BY <1>9
  <2> QED
    BY <1>1, <2>1
<1>12. ASSUME NEW j \in 1 .. N, NEW k \in 1 .. N, j < k PROVE InOrder(S)[j] < InOrder(S)[k]
  <2> DEFINE x == InOrder(S)[j]
             y == InOrder(S)[k]
  <2>1. x \in S /\ y \in S /\ Rank(S, x) = j - 1 /\ Rank(S, y) = k - 1
    BY <1>9
  <2> HIDE DEF x, y
  <2>2. x \in Nat /\ y \in Nat /\ Rank(S, x) < Rank(S, y)
    BY <1>1, <1>12, <2>1
  <2>3. ~(y < x) /\ x # y
    BY <1>1, <1>2, <1>3, <2>1, <2>2
  <2>4. x < y
    BY <2>2, <2>3
  <2> QED
    BY <2>4 DEF x, y
<1> QED
  BY <1>1, <1>9, <1>10, <1>11, <1>12 DEF InOrder

-----------------------------------------------------------------------------
(***************************************************************************)
(* The scheduling names of any program are well typed: an operand that is  *)
(* freed has a name.                                                       *)
(***************************************************************************)

\* The inductive invariant of the naming pass.
NameInv == program \in Programs /\ NameTypeOK /\ OutputsNamed

\* The instruction visited.
LEMMA InstructionFacts ==
  ASSUME NameInv, at <= Len(program.order)
  PROVE  /\ at \in DOMAIN program.order /\ at \in Nat \ {0}
         /\ instruction \in Ids(program)
         /\ visited.in \in Seq(Ids(program))
         /\ \A i : Visited(i) => i # instruction
<1>1. program.order \in Seq(Ids(program)) /\ at \in Nat /\ at >= 1 /\ IsFlat(program)
  BY OrderIsSequence, ProgramsAssumption DEF NameInv, NameTypeOK
<1>2. at \in DOMAIN program.order /\ instruction \in Ids(program)
  BY <1>1 DEF instruction
<1>3. \A k \in 1 .. at - 1 : k \in DOMAIN program.order
  BY <1>1
<1>4. \A i : Visited(i) => i # instruction
  BY <1>1, <1>2, <1>3, OrderIsSequence DEF Visited, instruction, NameInv
<1>5. visited.in \in Seq(Ids(program))
  BY <1>1, <1>2 DEF IsFlat, visited
<1> QED
  BY <1>1, <1>2, <1>4, <1>5

\* An operand that is visited and is no offset has a name.
LEMMA OperandHasName ==
  ASSUME NameInv, step # "visit", NEW v \in Elements(visited.in), Op(program, v) # "offset"
  PROVE  v \in Ids(program) /\ name[v] \in Ids(program)
<1>1. /\ program \in Programs /\ OutputsNamed /\ at <= Len(program.order)
      /\ visited.op \in {"call", "reshard"}
      /\ name \in [Ids(program) -> Ids(program) \cup {None}]
  BY DEF NameInv, NameTypeOK
<1>2. at \in DOMAIN program.order /\ at \in Nat /\ instruction \in Ids(program)
  BY <1>1, InstructionFacts
<1>3. instruction \in Operations(program)
  BY <1>1, <1>2 DEF Operations, visited, Op
<1>4. v \in Values(program)
  BY <1>1, <1>3, OperandsAreValues DEF visited
<1>5. PICK j \in DOMAIN program.order : j < at /\ program.order[j] = v
  <2>1. v \in Elements(program.n[program.order[at]].in)
    BY DEF visited, instruction
  <2> QED
    BY <1>1, <1>2, <2>1, OperandsFirst
<1>6. j \in Nat \ {0} /\ Visited(v)
  BY <1>1, <1>2, <1>5, OrderIsSequence DEF Visited
<1>7. v \in Ids(program) /\ Op(program, v) \in {"parameter", "gte", "reshard"}
  BY <1>4 DEF Values
<1>8. CASE Op(program, v) = "parameter"
  BY <1>1, <1>7, <1>8 DEF OutputsNamed
<1>9. CASE Op(program, v) = "reshard"
  <2>1. v \in Operations(program) /\ v \in Outputs(program, v)
    BY <1>7, <1>9 DEF Operations, Outputs
  <2> QED
    BY <1>1, <1>6, <1>7, <2>1 DEF OutputsNamed
<1>10. CASE Op(program, v) = "gte"
  <2>1. PICK c \in Ids(program) : Op(program, c) = "call" /\ program.n[v].in = <<c>>
    BY <1>1, <1>7, <1>10, OutputsHaveCalls
  <2>2. c \in Elements(program.n[v].in)
    BY <2>1 DEF Elements
  <2>3. PICK i \in DOMAIN program.order : i < j /\ program.order[i] = c
    BY <1>1, <1>5, <2>2, OperandsFirst
  <2>4. i \in Nat \ {0}
    BY <1>1, OrderIsSequence
  <2>5. Visited(c)
    BY <1>2, <1>5, <1>6, <2>3, <2>4 DEF Visited
  <2>6. c \in Operations(program) /\ v \in Outputs(program, c)
    BY <1>7, <2>1, <2>2 DEF Operations, Outputs, Readers
  <2> QED
    BY <1>1, <1>7, <2>5, <2>6 DEF OutputsNamed
<1> QED
  BY <1>7, <1>8, <1>9, <1>10

\* The first names are well typed.
LEMMA NameInitInv == ASSUME NameInit PROVE NameInv
<1>1. program \in Programs /\ IsFlat(program) /\ program.order \in Seq(Ids(program))
  BY OrderIsSequence, ProgramsAssumption DEF NameInit
<1>2. \A i : ~Visited(i)
  BY DEF Visited, NameInit
<1>3. name \in [Ids(program) -> Ids(program) \cup {None}]
  BY <1>1 DEF NameInit, IsFlat, None
<1>4. NameTypeOK
  BY <1>1, <1>3 DEF NameInit, NameTypeOK
<1>5. OutputsNamed
  BY <1>2 DEF NameInit, OutputsNamed
<1> QED
  BY <1>1, <1>4, <1>5 DEF NameInv

\* An instruction that is passed over.
LEMMA PassTyped == ASSUME NameInv, Pass PROVE NameInv'
<1>1. /\ UNCHANGED <<program, step, todo, arg, name, times_visited, times_available,
                     time_on_mesh, time_started, pools, shapes>>
      /\ at' = at + 1 /\ at <= Len(program.order) /\ step = "visit"
      /\ visited.op \in {"parameter", "gte", "offset"}
  BY DEF Pass, Visiting
<1>2. at \in Nat \ {0} /\ program.order \in Seq(Ids(program))
  BY <1>1, InstructionFacts, OrderIsSequence DEF NameInv
<1>3. NameTypeOK'
  <2>1. at' \in 1 .. Len(program.order) + 1
    BY <1>1, <1>2
  <2> QED
    BY <1>1, <2>1 DEF NameInv, NameTypeOK
<1>4. ASSUME NEW i \in Operations(program), Visited(i)' PROVE Visited(i)
  <2>1. PICK k \in 1 .. at : program.order[k] = i
    BY <1>1, <1>2, <1>4 DEF Visited
  <2>2. k # at
    BY <1>1, <2>1 DEF Operations, Op, visited, instruction
  <2> QED
    BY <1>2, <2>1, <2>2 DEF Visited
<1>5. OutputsNamed'
  BY <1>1, <1>4 DEF NameInv, OutputsNamed
<1> QED
  BY <1>1, <1>3, <1>5 DEF NameInv

\* A call starts at some time.
LEMMA OperandTime ==
  ASSUME NameInv, Visiting({"call"})
  PROVE  MaxOperandTime \in Nat
<1>1. instruction \in Ids(program) /\ visited.in \in Seq(Ids(program))
  BY InstructionFacts DEF Visiting
<1>2. time_on_mesh[visited.at] \in Nat
  BY <1>1 DEF NameInv, NameTypeOK, visited
<1>3. \A v \in Elements(visited.in) : times_available[v] \in Nat
  BY <1>1 DEF NameInv, NameTypeOK, Elements
<1> DEFINE E == {times_available[v] : v \in Elements(visited.in)}
           T == {time_on_mesh[visited.at]} \cup E
<1>4. IsFiniteSet(Elements(visited.in))
  <2>1. IsFiniteSet(Ids(program)) /\ Elements(visited.in) \subseteq Ids(program)
    BY <1>1, ProgramsAssumption DEF NameInv, Elements
  <2> QED
    BY <2>1, FS_Subset
<1>5. IsFiniteSet(E)
  <2> DEFINE f == [v \in Elements(visited.in) |-> times_available[v]]
  <2>1. f \in Surjection(Elements(visited.in), E)
    BY DEF Surjection
  <2> HIDE DEF f, E
  <2> QED
    BY <1>4, <2>1, FS_Surjection
<1>6. IsFiniteSet(T)
  <2> HIDE DEF E
  <2> QED
    BY <1>5, FS_Union, FS_Singleton
<1>7. T \subseteq Nat /\ T # {}
  BY <1>2, <1>3
<1>8. \E t \in T : \A s \in T : s <= t
  <2> HIDE DEF T
  <2> QED
    BY <1>6, <1>7, GreatestNumber
<1>9. MaxOperandTime = CHOOSE t \in T : \A s \in T : s <= t
  BY DEF MaxOperandTime
<1> HIDE DEF T
<1> QED
  BY <1>7, <1>8, <1>9

\* A call or a reshard is started.
LEMMA StartTyped == ASSUME NameInv, StartCall \/ StartReshard PROVE NameInv'
<1>1. /\ UNCHANGED <<program, at, arg, name, times_visited, times_available,
                     time_on_mesh, pools, shapes>>
      /\ at <= Len(program.order) /\ step = "visit" /\ step' = "outputs"
      /\ visited.op \in {"call", "reshard"}
      /\ todo' = Outputs(program, instruction)
  BY DEF StartCall, StartReshard, Visiting, Outputs, visited, Op
<1>2. instruction' = instruction /\ visited' = visited /\ \A i : Visited(i)' <=> Visited(i)
  BY <1>1 DEF instruction, visited, Visited
<1>3. instruction \in Ids(program) /\ Outputs(program, instruction) \subseteq Ids(program)
  BY <1>1, InstructionFacts DEF Outputs, Readers
<1>4. time_started' \in Nat
  <2>1. CASE StartCall
    BY <2>1, OperandTime DEF StartCall
  <2>2. CASE StartReshard
    <3>1. IsFlat(program) /\ visited.op = "reshard"
      BY <2>2, ProgramsAssumption DEF NameInv, StartReshard, Visiting
    <3>2. PICK v \in Ids(program) : visited.in = <<v>>
      BY <1>3, <3>1 DEF IsFlat, visited, Op
    <3> QED
      BY <2>2, <3>2 DEF StartReshard, NameInv, NameTypeOK
  <2> QED
    BY <2>1, <2>2
<1>5. NameTypeOK'
  BY <1>1, <1>2, <1>3, <1>4 DEF NameInv, NameTypeOK
<1>6. OutputsNamed'
  BY <1>1, <1>2 DEF NameInv, OutputsNamed
<1> QED
  BY <1>1, <1>5, <1>6 DEF NameInv

\* An output is given a name.
LEMMA VisitOutputTyped == ASSUME NameInv, VisitOutput PROVE NameInv'
<1>1. PICK g \in todo :
        /\ KeepName(g) \/ NameRoot(g) \/ NameTemporary(g)
        /\ times_available' = [times_available EXCEPT ![g] = time_done]
        /\ todo' = todo \ {g}
  BY DEF VisitOutput
<1>2. /\ UNCHANGED <<program, at, step, arg, times_visited, time_on_mesh, time_started>>
      /\ step = "outputs" /\ program \in Programs /\ NameTypeOK /\ OutputsNamed
      /\ at <= Len(program.order)
  BY DEF VisitOutput, NameInv, NameTypeOK
<1>3. instruction' = instruction /\ visited' = visited /\ \A i : Visited(i)' <=> Visited(i)
  BY <1>2 DEF instruction, visited, Visited
<1>4. g \in Ids(program) /\ g # None
  BY <1>1, <1>2, IdsPositive DEF NameTypeOK
<1>5. /\ name' \in [Ids(program) -> Ids(program) \cup {None}]
      /\ \A e \in pools' : e.name \in Ids(program) /\ e.time \in Nat
      /\ name'[g] # None
      /\ \A i \in Ids(program) : name[i] # None => name'[i] = name[i]
  <2>1. /\ name \in [Ids(program) -> Ids(program) \cup {None}]
        /\ \A e \in pools : e.name \in Ids(program) /\ e.time \in Nat
    BY <1>2 DEF NameTypeOK
  <2>2. CASE KeepName(g)
    BY <2>1, <2>2 DEF KeepName
  <2>3. CASE NameRoot(g)
    BY <1>4, <2>1, <2>3 DEF NameRoot
  <2>4. CASE NameTemporary(g)
    <3> DEFINE reuse == AllocateFromPool(Key(g), time_started)
    <3>1. PICK choice \in IF reuse = {} THEN {<<g, pools>>} ELSE reuse :
            name' = [name EXCEPT ![g] = choice[1]] /\ pools' = choice[2]
      BY <2>4 DEF NameTemporary
    <3>2. name[g] = None
      BY <2>4 DEF NameTemporary
    <3>3. choice[1] \in Ids(program) /\ choice[2] \subseteq pools
      <4>1. CASE reuse = {}
        BY <1>4, <3>1, <4>1
      <4>2. CASE reuse # {}
        <5>1. choice \in AllocateFromPool(Key(g), time_started)
          BY <3>1, <4>2
        <5>2. PICK e \in Tops(Key(g)) : choice = <<e.name, pools \ {e}>>
          BY <5>1 DEF AllocateFromPool
        <5>3. e \in pools
          BY <5>2 DEF Tops
        <5> QED
          BY <2>1, <5>2, <5>3
      <4> QED
        BY <4>1, <4>2
    <3>4. choice[1] # None
      BY <1>2, <3>3, IdsPositive
    <3> HIDE DEF reuse
    <3> QED
      BY <1>4, <2>1, <3>1, <3>2, <3>3, <3>4
  <2> QED
    BY <1>1, <2>2, <2>3, <2>4
<1>6. times_available' \in [Ids(program) -> Nat]
  <2>1. time_done \in Nat
    BY <1>2 DEF time_done, NameTypeOK
  <2>2. times_available \in [Ids(program) -> Nat]
    BY <1>2 DEF NameTypeOK
  <2> QED
    BY <1>1, <2>1, <2>2
<1>7. NameTypeOK'
  <2>1. todo' \subseteq Ids(program)
    BY <1>1, <1>2 DEF NameTypeOK
  <2> QED
    BY <1>2, <1>3, <1>5, <1>6, <2>1 DEF NameTypeOK
<1>8. OutputsNamed'
  <2>1. \A i \in Ids(program) : Outputs(program, i) \subseteq Ids(program)
    BY DEF Outputs, Readers
  <2>2. instruction \in Ids(program)
    BY <1>2, InstructionFacts
  <2>3. ASSUME NEW i \in Operations(program), Visited(i), NEW h \in Outputs(program, i)
        PROVE  name'[h] # None
    BY <1>2, <1>5, <2>1, <2>3 DEF OutputsNamed, Operations
  <2>4. ASSUME NEW h \in Outputs(program, instruction) PROVE h \in todo' \/ name'[h] # None
    <3>1. h \in todo \/ name[h] # None
      BY <1>2 DEF OutputsNamed
    <3> QED
      BY <1>1, <1>5, <2>1, <2>2, <3>1
  <2>5. ASSUME NEW i \in Ids(program), Op(program, i) = "parameter" PROVE name'[i] = i
    BY <1>2, <1>5, <2>5, IdsPositive DEF OutputsNamed
  <2> QED
    BY <1>2, <1>3, <2>3, <2>4, <2>5 DEF OutputsNamed
<1> QED
  BY <1>2, <1>7, <1>8 DEF NameInv

\* The outputs have been visited.
LEMMA OutputsVisitedTyped == ASSUME NameInv, OutputsVisited PROVE NameInv'
<1>1. /\ UNCHANGED <<program, at, todo, name, times_visited, times_available,
                     time_on_mesh, time_started, pools, shapes>>
      /\ step = "outputs" /\ todo = {} /\ step' = "operands" /\ arg' = 1
  BY DEF OutputsVisited
<1>2. instruction' = instruction /\ visited' = visited /\ \A i : Visited(i)' <=> Visited(i)
  BY <1>1 DEF instruction, visited, Visited
<1>3. NameTypeOK'
  BY <1>1, <1>2 DEF NameInv, NameTypeOK
<1>4. OutputsNamed'
  BY <1>1, <1>2 DEF NameInv, OutputsNamed
<1> QED
  BY <1>1, <1>3, <1>4 DEF NameInv

\* An operand is freed or kept.
LEMMA FreeOperandTyped == ASSUME NameInv, FreeOperand PROVE NameInv'
<1>1. /\ UNCHANGED <<program, at, step, todo, name, times_available, time_on_mesh,
                     time_started, shapes>>
      /\ step = "operands" /\ arg <= Len(visited.in) /\ arg' = arg + 1
      /\ program \in Programs /\ NameTypeOK /\ OutputsNamed /\ at <= Len(program.order)
  BY DEF FreeOperand, NameInv, NameTypeOK
<1>2. instruction' = instruction /\ visited' = visited /\ \A i : Visited(i)' <=> Visited(i)
  BY <1>1 DEF instruction, visited, Visited
<1>3. visited.in \in Seq(Ids(program)) /\ arg \in Nat \ {0}
  BY <1>1, InstructionFacts DEF NameTypeOK
<1> DEFINE v == visited.in[arg]
<1>4. v \in Elements(visited.in) /\ v \in Ids(program)
  BY <1>1, <1>3 DEF Elements
<1>5. /\ times_visited \in [Ids(program) -> Nat]
      /\ \A e \in pools : e.name \in Ids(program) /\ e.time \in Nat
  BY <1>1 DEF NameTypeOK
<1>6. /\ times_visited' \in [Ids(program) -> Nat]
      /\ \A e \in pools' : e.name \in Ids(program) /\ e.time \in Nat
  <2>1. CASE IsKept(v)
    BY <1>5, <2>1 DEF FreeOperand
  <2>2. CASE ~IsKept(v)
    <3>1. name[v] \in Ids(program)
      BY <1>1, <1>4, <2>2, OperandHasName DEF IsKept
    <3>2. time_done \in Nat
      BY <1>1 DEF time_done, NameTypeOK
    <3> DEFINE e == [name |-> name[v], key |-> shapes[name[v]], time |-> time_done, of |-> v]
    <3>3. /\ times_visited' = [times_visited EXCEPT ![v] = @ + 1]
          /\ pools' = pools \cup {e} \/ pools' = pools
      BY <2>2 DEF FreeOperand
    <3>4. e.name \in Ids(program) /\ e.time \in Nat
      BY <3>1, <3>2
    <3> HIDE DEF e, v
    <3> QED
      BY <1>4, <1>5, <3>3, <3>4
  <2> QED
    BY <2>1, <2>2
<1> HIDE DEF v
<1>7. NameTypeOK'
  <2>1. arg' \in Nat \ {0}
    BY <1>1, <1>3
  <2> QED
    BY <1>1, <1>2, <1>6, <2>1 DEF NameTypeOK
<1>8. OutputsNamed'
  BY <1>1, <1>2 DEF OutputsNamed
<1> QED
  BY <1>1, <1>7, <1>8 DEF NameInv

\* The instruction is done.
LEMMA FinishTyped == ASSUME NameInv, Finish PROVE NameInv'
<1>1. /\ UNCHANGED <<program, todo, arg, name, times_visited, times_available,
                     time_started, pools, shapes>>
      /\ step = "operands" /\ at' = at + 1 /\ step' = "visit"
      /\ program \in Programs /\ NameTypeOK /\ OutputsNamed /\ at <= Len(program.order)
  BY DEF Finish, NameInv, NameTypeOK
<1>2. at \in Nat \ {0} /\ instruction \in Ids(program) /\ program.order \in Seq(Ids(program))
  BY <1>1, InstructionFacts, OrderIsSequence
<1>3. time_on_mesh' \in [{program.n[i].at : i \in Ids(program)} -> Nat]
  <2>1. time_done \in Nat
    BY <1>1 DEF time_done, NameTypeOK
  <2>2. time_on_mesh \in [{program.n[i].at : i \in Ids(program)} -> Nat]
    BY <1>1 DEF NameTypeOK
  <2> QED
    BY <2>1, <2>2 DEF Finish
<1>4. NameTypeOK'
  BY <1>1, <1>2, <1>3, SMTT(30) DEF NameTypeOK
<1>5. ASSUME NEW i \in Operations(program), Visited(i)', NEW g \in Outputs(program, i)
      PROVE  name[g] # None
  <2>1. PICK k \in 1 .. at : program.order[k] = i
    BY <1>1, <1>2, <1>5 DEF Visited
  <2>2. CASE k = at
    <3>1. i = instruction
      BY <2>1, <2>2 DEF instruction
    <3> QED
      BY <1>1, <1>5, <3>1 DEF OutputsNamed
  <2>3. CASE k # at
    <3>1. Visited(i)
      BY <1>2, <2>1, <2>3 DEF Visited
    <3> QED
      BY <1>1, <1>5, <3>1 DEF OutputsNamed
  <2> QED
    BY <2>2, <2>3
<1>6. OutputsNamed'
  BY <1>1, <1>5 DEF OutputsNamed
<1> QED
  BY <1>1, <1>4, <1>6 DEF NameInv

\* A step that leaves the names alone.
LEMMA NamesUnchanged == ASSUME NameInv, UNCHANGED nameVars PROVE NameInv'
<1>1. UNCHANGED <<program, at, step, todo, arg, name, times_visited, times_available,
                  time_on_mesh, time_started, pools, shapes>>
  BY DEF nameVars
<1>2. instruction' = instruction /\ visited' = visited /\ \A i : Visited(i)' <=> Visited(i)
  BY <1>1 DEF instruction, visited, Visited
<1>3. NameTypeOK'
  BY <1>1, <1>2 DEF NameInv, NameTypeOK
<1>4. OutputsNamed'
  BY <1>1, <1>2 DEF NameInv, OutputsNamed
<1> QED
  BY <1>1, <1>3, <1>4 DEF NameInv

\* Every step of the naming pass.
LEMMA NameNextTyped == ASSUME NameInv, NameNext PROVE NameInv' /\ program' = program
<1>1. NameInv'
  BY PassTyped, StartTyped, VisitOutputTyped, OutputsVisitedTyped, FreeOperandTyped,
     FinishTyped DEF NameNext
<1>2. program' = program
  BY DEF NameNext, Pass, StartCall, StartReshard, VisitOutput, OutputsVisited, FreeOperand,
         Finish
<1> QED
  BY <1>1, <1>2

-----------------------------------------------------------------------------
(***************************************************************************)
(* The schedule.                                                           *)
(***************************************************************************)

\* Operation i is in the sequence.
HasOp(s, i) == \E k \in DOMAIN s : s[k].op = i

\* What operation i reads is a parameter or computed by the sequence.
IsReadyAfter(s, i) ==
  \A v \in Sources(program, i) : Op(program, v) = "parameter" \/ HasOp(s, Producer(v))

\* A sequence of operations, none of them twice, each after those it depends on.
Topological(s) ==
  /\ \E S : s \in Seq(S)
  /\ \A k \in DOMAIN s : s[k].op \in Operations(program)
  /\ \A j, k \in DOMAIN s : s[j].op = s[k].op => j = k
  /\ \A k \in DOMAIN s : \A v \in Sources(program, s[k].op) :
       Op(program, v) = "parameter" \/ \E j \in 1 .. k - 1 : s[j].op = Producer(v)

\* The operations that the loop over the post order has gone past are scheduled, and
\* no call before its turn.
Covered ==
  /\ \A k \in 1 .. cursor - 1 :
       program.order[k] \in Operations(program) => HasOp(schedule, program.order[k])
  /\ \A k \in DOMAIN schedule : Op(program, schedule[k].op) = "call" =>
       \E j \in 1 .. cursor - 1 : program.order[j] = schedule[k].op

\* The part of the invariant about phases and counters.
Progress ==
  /\ phase \in {"name", "schedule", "run", "done", "error"}
  /\ phase # "name" => Named /\ DOMAIN stores = SchedulingNames
  /\ phase \in {"run", "done"} => cursor > Len(program.order)
  /\ cursor \in 1 .. Len(program.order) + 1
  /\ ran \in 0 .. Len(schedule)
  /\ phase \in {"name", "schedule"} => ran = 0

\* The inductive invariant.
SInv == NameInv /\ Progress /\ Topological(schedule) /\ Covered

\* Operations that are ready and new extend a topological sequence.
LEMMA TopologicalExtended ==
  ASSUME NEW s, Topological(s), NEW T, NEW t \in Seq(T),
         \A k \in DOMAIN t : /\ t[k].op \in Operations(program)
                             /\ ~HasOp(s, t[k].op) /\ IsReadyAfter(s, t[k].op),
         \A j, k \in DOMAIN t : t[j].op = t[k].op => j = k
  PROVE  /\ Topological(s \o t)
         /\ Len(s) \in Nat /\ Len(s \o t) = Len(s) + Len(t)
         /\ \A i : HasOp(s \o t, i) <=> HasOp(s, i) \/ HasOp(t, i)
<1>1. PICK S : s \in Seq(S)
  BY DEF Topological
<1> DEFINE r == s \o t
<1>2. s \in Seq(S \cup T) /\ t \in Seq(S \cup T) /\ r \in Seq(S \cup T)
  <2>1. s \in Seq(S \cup T) /\ t \in Seq(S \cup T)
    BY <1>1
  <2> QED
    BY <2>1
<1>3. /\ Len(s) \in Nat /\ Len(t) \in Nat /\ Len(r) = Len(s) + Len(t)
      /\ DOMAIN s = 1 .. Len(s) /\ DOMAIN t = 1 .. Len(t) /\ DOMAIN r = 1 .. Len(s) + Len(t)
      /\ \A k \in 1 .. Len(s) : r[k] = s[k]
      /\ \A k \in 1 .. Len(t) : r[Len(s) + k] = t[k]
  BY <1>2
<1> HIDE DEF r
<1>4. ASSUME NEW k \in DOMAIN r
      PROVE  \/ k \in DOMAIN s /\ r[k] = s[k]
             \/ \E l \in DOMAIN t : k = Len(s) + l /\ r[k] = t[l]
  <2>1. CASE k <= Len(s)
    BY <1>3, <2>1
  <2>2. CASE k > Len(s)
    <3>1. k - Len(s) \in 1 .. Len(t) /\ k = Len(s) + (k - Len(s))
      BY <1>3, <2>2
    <3> QED
      BY <1>3, <3>1
  <2> QED
    BY <1>3, <2>1, <2>2
<1>5. \A i : HasOp(r, i) <=> HasOp(s, i) \/ HasOp(t, i)
  <2> TAKE i
  <2>1. ASSUME HasOp(r, i) PROVE HasOp(s, i) \/ HasOp(t, i)
    BY <1>4, <2>1 DEF HasOp
  <2>2. ASSUME HasOp(s, i) PROVE HasOp(r, i)
    BY <1>3, <2>2 DEF HasOp
  <2>3. ASSUME HasOp(t, i) PROVE HasOp(r, i)
    <3>1. PICK l \in DOMAIN t : t[l].op = i
      BY <2>3 DEF HasOp
    <3>2. Len(s) + l \in DOMAIN r /\ r[Len(s) + l].op = i
      BY <1>3, <3>1
    <3> QED
      BY <3>2 DEF HasOp
  <2> QED
    BY <2>1, <2>2, <2>3
<1>6. \A k \in DOMAIN r : r[k].op \in Operations(program)
  BY <1>4 DEF Topological
<1>7. ASSUME NEW j \in DOMAIN r, NEW k \in DOMAIN r, r[j].op = r[k].op PROVE j = k
  <2>1. CASE j \in DOMAIN s /\ r[j] = s[j]
    <3>1. k \in DOMAIN s /\ r[k] = s[k]
      BY <1>4, <1>7, <2>1 DEF HasOp
    <3> QED
      BY <1>7, <2>1, <3>1 DEF Topological
  <2>2. CASE \E l \in DOMAIN t : j = Len(s) + l /\ r[j] = t[l]
    <3>1. PICK l \in DOMAIN t : j = Len(s) + l /\ r[j] = t[l]
      BY <2>2
    <3>2. PICK m \in DOMAIN t : k = Len(s) + m /\ r[k] = t[m]
      BY <1>4, <1>7, <3>1 DEF HasOp
    <3> QED
      BY <1>7, <3>1, <3>2
  <2> QED
    BY <1>4, <2>1, <2>2
<1>8. ASSUME NEW k \in DOMAIN r, NEW v \in Sources(program, r[k].op),
             Op(program, v) # "parameter"
      PROVE  \E j \in 1 .. k - 1 : r[j].op = Producer(v)
  <2>1. CASE k \in DOMAIN s /\ r[k] = s[k]
    <3>1. PICK j \in 1 .. k - 1 : s[j].op = Producer(v)
      BY <1>8, <2>1 DEF Topological
    <3>2. r[j] = s[j]
      BY <1>3, <2>1, <3>1
    <3> QED
      BY <3>1, <3>2
  <2>2. CASE \E l \in DOMAIN t : k = Len(s) + l /\ r[k] = t[l]
    <3>1. PICK l \in DOMAIN t : k = Len(s) + l /\ r[k] = t[l]
      BY <2>2
    <3>2. HasOp(s, Producer(v))
      BY <1>8, <3>1 DEF IsReadyAfter
    <3>3. PICK j \in DOMAIN s : s[j].op = Producer(v)
      BY <3>2 DEF HasOp
    <3>4. j \in 1 .. k - 1 /\ r[j] = s[j]
      BY <1>3, <3>1, <3>3
    <3> QED
      BY <3>3, <3>4
  <2> QED
    BY <1>4, <2>1, <2>2
<1>9. Topological(r)
  BY <1>2, <1>6, <1>7, <1>8 DEF Topological
<1> QED
  BY <1>3, <1>5, <1>9 DEF r

\* When all operations before an instruction are scheduled, what it reads is computed.
LEMMA ReadyInPostOrder ==
  ASSUME NameInv, Covered, cursor \in Nat \ {0}, NEW i \in Operations(program),
         NEW m \in DOMAIN program.order, m <= cursor, program.order[m] = i
  PROVE  IsReadyAfter(schedule, i)
<1> SUFFICES ASSUME NEW v \in Sources(program, i), Op(program, v) # "parameter"
             PROVE  HasOp(schedule, Producer(v))
  BY DEF IsReadyAfter
<1>1. program \in Programs /\ m \in Nat \ {0}
  BY OrderIsSequence DEF NameInv
<1>2. v \in Elements(program.n[i].in) /\ Op(program, v) # "offset"
  BY DEF Sources
<1>3. v \in Values(program) /\ v \in Ids(program)
  BY <1>1, <1>2, OperandsAreValues DEF Values
<1>4. PICK j \in DOMAIN program.order : j < m /\ program.order[j] = v
  BY <1>1, <1>2, OperandsFirst
<1>5. j \in Nat \ {0} /\ j \in 1 .. cursor - 1
  BY <1>1, <1>4, OrderIsSequence
<1>6. CASE Op(program, v) = "reshard"
  <2>1. v \in Operations(program) /\ Producer(v) = v
    BY <1>3, <1>6 DEF Operations, Producer
  <2> QED
    BY <1>4, <1>5, <2>1 DEF Covered
<1>7. CASE Op(program, v) = "gte"
  <2>1. PICK c \in Ids(program) : Op(program, c) = "call" /\ program.n[v].in = <<c>>
    BY <1>1, <1>3, <1>7, OutputsHaveCalls
  <2>2. c \in Elements(program.n[v].in) /\ Producer(v) = c /\ c \in Operations(program)
    BY <1>7, <2>1 DEF Elements, Producer, Operations
  <2>3. PICK l \in DOMAIN program.order : l < j /\ program.order[l] = c
    BY <1>1, <1>4, <2>2, OperandsFirst
  <2>4. l \in 1 .. cursor - 1
    BY <1>1, <1>5, <2>3, OrderIsSequence
  <2> QED
    BY <2>2, <2>3, <2>4 DEF Covered
<1> QED
  BY <1>3, <1>6, <1>7 DEF Values

\* A sequence that is topological after a step that keeps the program.
LEMMA StillTopological ==
  ASSUME program' = program, NEW s, s = schedule', Topological(s)
  PROVE  Topological(schedule)'
<1>1. \A v : Producer(v)' = Producer(v)
  BY DEF Producer
<1>2. (\E S : schedule \in Seq(S))'
  BY DEF Topological
<1>3. (\A k \in DOMAIN schedule : schedule[k].op \in Operations(program))'
  BY DEF Topological
<1>4. (\A j, k \in DOMAIN schedule : schedule[j].op = schedule[k].op => j = k)'
  BY DEF Topological
<1>5. ASSUME NEW k \in DOMAIN schedule', NEW v \in Sources(program, schedule'[k].op),
             Op(program, v) # "parameter"
      PROVE  \E j \in 1 .. k - 1 : schedule'[j].op = Producer(v)
  BY <1>5 DEF Topological
<1>6. (\A k \in DOMAIN schedule : \A v \in Sources(program, schedule[k].op) :
         Op(program, v) = "parameter" \/ \E j \in 1 .. k - 1 : schedule[j].op = Producer(v))'
  BY <1>1, <1>5
<1> QED
  BY <1>2, <1>3, <1>4, <1>6 DEF Topological

\* The facts about the instruction that is scheduled.
LEMMA SchedulingFacts ==
  ASSUME SInv, NEW ops, Scheduling(ops)
  PROVE  /\ cursor \in DOMAIN program.order /\ cursor \in Nat \ {0}
         /\ cursor + 1 \in 1 .. Len(program.order) + 1
         /\ program.order[cursor] \in Ids(program)
         /\ Op(program, program.order[cursor]) \in ops
         /\ phase = "schedule" /\ Named /\ DOMAIN stores = SchedulingNames
         /\ program \in Programs
<1>1. program \in Programs /\ program.order \in Seq(Ids(program))
  BY OrderIsSequence DEF SInv, NameInv
<1>2. /\ cursor \in 1 .. Len(program.order) + 1 /\ cursor <= Len(program.order)
      /\ Op(program, program.order[cursor]) \in ops
      /\ phase = "schedule" /\ Named /\ DOMAIN stores = SchedulingNames
  BY DEF SInv, Progress, Scheduling
<1> QED
  BY <1>1, <1>2

\* The instruction at the cursor is scheduled by tasks that are new and ready.
LEMMA ScheduleStep ==
  ASSUME SInv, Scheduling({"call", "gte", "reshard", "parameter", "offset"}),
         UNCHANGED <<nameVars, stores, ran>>, phase' \in {"schedule", "error"},
         cursor' = cursor + 1,
         NEW T, NEW t \in Seq(T), schedule' = schedule \o t,
         \A k \in DOMAIN t : /\ t[k].op \in Operations(program)
                             /\ ~HasOp(schedule, t[k].op)
                             /\ IsReadyAfter(schedule, t[k].op)
                             /\ Op(program, t[k].op) = "call" => t[k].op = program.order[cursor],
         \A j, k \in DOMAIN t : t[j].op = t[k].op => j = k,
         program.order[cursor] \in Operations(program) =>
           HasOp(schedule, program.order[cursor]) \/ HasOp(t, program.order[cursor])
  PROVE  SInv'
<1> DEFINE r == schedule \o t
<1>1. /\ cursor \in Nat \ {0} /\ cursor + 1 \in 1 .. Len(program.order) + 1
      /\ Named /\ DOMAIN stores = SchedulingNames /\ program \in Programs
  BY SchedulingFacts
<1>2. /\ Topological(schedule) /\ Covered /\ NameInv
      /\ ran \in 0 .. Len(schedule) /\ ran = 0
  BY SchedulingFacts DEF SInv, Progress
<1>3. /\ Topological(r) /\ Len(schedule) \in Nat /\ Len(r) = Len(schedule) + Len(t)
      /\ \A i : HasOp(r, i) <=> HasOp(schedule, i) \/ HasOp(t, i)
  BY <1>2, TopologicalExtended
<1>4. program' = program /\ name' = name /\ at' = at /\ schedule' = r /\ Len(t) \in Nat
  BY DEF nameVars
<1> HIDE DEF r
<1>5. NameInv'
  BY <1>2, NamesUnchanged
<1>6. Topological(schedule)'
  BY <1>3, <1>4, StillTopological
<1>7. Progress'
  <2>1. SchedulingNames' = SchedulingNames /\ Named' = Named
    BY <1>4 DEF SchedulingNames, Named
  <2>2. ran' \in 0 .. Len(r)
    BY <1>2, <1>3, <1>4
  <2> QED
    BY <1>1, <1>2, <1>4, <2>1, <2>2 DEF Progress
<1>8. ASSUME NEW k \in 1 .. cursor, program.order[k] \in Operations(program)
      PROVE  HasOp(r, program.order[k])
  <2>1. CASE k = cursor
    BY <1>3, <1>8, <2>1
  <2>2. CASE k # cursor
    <3>1. k \in 1 .. cursor - 1
      BY <1>1, <2>2
    <3> QED
      BY <1>2, <1>3, <1>8, <3>1 DEF Covered
  <2> QED
    BY <2>1, <2>2
<1>9. ASSUME NEW i, HasOp(r, i), Op(program, i) = "call"
      PROVE  \E j \in 1 .. cursor : program.order[j] = i
  <2>1. CASE HasOp(schedule, i)
    <3>1. PICK k \in DOMAIN schedule : schedule[k].op = i
      BY <2>1 DEF HasOp
    <3>2. PICK j \in 1 .. cursor - 1 : program.order[j] = i
      BY <1>2, <1>9, <3>1 DEF Covered
    <3>3. j \in 1 .. cursor
      BY <1>1, <3>2
    <3> QED
      BY <3>2, <3>3
  <2>2. CASE HasOp(t, i)
    <3>1. i = program.order[cursor]
      BY <1>9, <2>2 DEF HasOp
    <3>2. cursor \in 1 .. cursor
      BY <1>1
    <3> QED
      BY <3>1, <3>2
  <2> QED
    BY <1>3, <1>9, <2>1, <2>2
<1>10. Covered'
  <2>1. cursor' - 1 = cursor
    BY <1>1
  <2>2. \A k \in DOMAIN r : HasOp(r, r[k].op)
    BY DEF HasOp
  <2>3. \A k \in 1 .. cursor' - 1 :
          program'.order[k] \in Operations(program') => HasOp(r, program'.order[k])
    BY <1>4, <1>8, <2>1
  <2>4. \A k \in DOMAIN r : Op(program', r[k].op) = "call" =>
          \E j \in 1 .. cursor' - 1 : program'.order[j] = r[k].op
    BY <1>4, <1>9, <2>1, <2>2
  <2>5. \A i : HasOp(schedule, i)' <=> HasOp(r, i)
    BY <1>4 DEF HasOp
  <2>6. \A k \in 1 .. cursor' - 1 :
          program'.order[k] \in Operations(program') => HasOp(schedule, program.order[k])'
    BY <1>4, <2>3, <2>5
  <2> QED
    BY <1>4, <2>4, <2>6 DEF Covered
<1> QED
  BY <1>5, <1>6, <1>7, <1>10 DEF SInv

-----------------------------------------------------------------------------
(***************************************************************************)
(* One lemma per action.                                                   *)
(***************************************************************************)

\* Nothing is scheduled at first.
LEMMA ScheduleInitInv == ASSUME Init PROVE SInv
<1>1. NameInit /\ phase = "name" /\ cursor = 1 /\ schedule = <<>> /\ ran = 0
  BY DEF Init
<1>2. NameInv /\ program.order \in Seq(Ids(program))
  BY <1>1, NameInitInv, OrderIsSequence DEF NameInv
<1>3. <<>> \in Seq({}) /\ DOMAIN schedule = {} /\ Len(schedule) = 0
  BY <1>1
<1>4. Topological(schedule)
  BY <1>1, <1>3 DEF Topological
<1>5. Covered
  BY <1>1, <1>3 DEF Covered
<1>6. Progress
  BY <1>1, <1>2, <1>3 DEF Progress
<1> QED
  BY <1>2, <1>4, <1>5, <1>6 DEF SInv

\* A step that leaves program and schedule alone.
LEMMA ScheduleKept ==
  ASSUME SInv, UNCHANGED <<program, schedule, cursor>>
  PROVE  Topological(schedule)' /\ Covered'
<1>1. Topological(schedule)'
  BY StillTopological DEF SInv
<1>2. Covered'
  BY DEF SInv, Covered, HasOp
<1> QED
  BY <1>1, <1>2

\* The names are assigned before anything is scheduled.
LEMMA AssignNamesInv == ASSUME SInv, AssignNames PROVE SInv'
<1>1. NameInv' /\ program' = program
  BY NameNextTyped DEF SInv, AssignNames
<1>2. UNCHANGED <<phase, schedule, cursor, ran>> /\ phase = "name"
  BY DEF AssignNames, scheduleVars
<1>3. Progress'
  BY <1>1, <1>2 DEF SInv, Progress
<1> QED
  BY <1>1, <1>2, <1>3, ScheduleKept DEF SInv

\* A step after the naming that adds nothing to the schedule.
LEMMA NothingScheduledInv ==
  ASSUME SInv, AddStores \/ PrepareStores \/ RunOperation \/ Finished
  PROVE  SInv'
<1>1. UNCHANGED <<nameVars, schedule, cursor>>
  BY DEF AddStores, PrepareStores, RunOperation, Finished
<1>2. NameInv' /\ program' = program /\ name' = name /\ at' = at
  BY <1>1, NamesUnchanged DEF SInv, nameVars
<1>3. SchedulingNames' = SchedulingNames /\ Named' = Named
  BY <1>2 DEF SchedulingNames, Named
<1>4. Len(schedule) \in Nat /\ ran \in 0 .. Len(schedule) /\ ran \in Nat
  BY DEF SInv, Progress, Topological
<1>5. Progress'
  <2>1. CASE AddStores
    BY <1>1, <1>2, <1>3, <2>1 DEF SInv, Progress, AddStores
  <2>2. CASE PrepareStores
    BY <1>1, <1>2, <1>3, <2>2 DEF SInv, Progress, PrepareStores
  <2>3. CASE RunOperation
    <3>1. /\ UNCHANGED <<phase, stores>> /\ phase = "run" /\ ran < Len(schedule)
          /\ ran' = ran + 1
      BY <2>3 DEF RunOperation
    <3>2. ran' \in 0 .. Len(schedule)
      BY <1>4, <3>1
    <3> QED
      BY <1>1, <1>2, <1>3, <3>1, <3>2 DEF SInv, Progress
  <2>4. CASE Finished
    BY <1>1, <1>2, <1>3, <2>4 DEF SInv, Progress, Finished
  <2> QED
    BY <2>1, <2>2, <2>3, <2>4
<1> QED
  BY <1>1, <1>2, <1>5, ScheduleKept DEF SInv

\* A call is not scheduled before its turn.
LEMMA CallIsNew ==
  ASSUME SInv, cursor \in DOMAIN program.order, Op(program, program.order[cursor]) = "call"
  PROVE  ~HasOp(schedule, program.order[cursor])
<1> DEFINE call == program.order[cursor]
<1> SUFFICES ASSUME HasOp(schedule, call) PROVE FALSE
  OBVIOUS
<1>1. program \in Programs /\ program.order \in Seq(Ids(program))
  BY OrderIsSequence DEF SInv, NameInv
<1>2. PICK j \in 1 .. cursor - 1 : program.order[j] = call
  BY DEF SInv, Covered, HasOp
<1>3. j \in DOMAIN program.order /\ j # cursor
  BY <1>1, <1>2
<1> QED
  BY <1>1, <1>2, <1>3, OrderIsSequence

\* A call is scheduled.
LEMMA AddHloModuleTaskInv == ASSUME SInv, AddHloModuleTask PROVE SInv'
<1> DEFINE call == program.order[cursor]
           task == SpmdHloModuleTask(call)
<1>1. /\ Scheduling({"call"}) /\ schedule' = Append(schedule, task)
      /\ UNCHANGED <<nameVars, stores, ran>> /\ cursor' = cursor + 1
      /\ phase' = phase \/ phase' = "error"
  BY DEF AddHloModuleTask
<1>2. /\ cursor \in DOMAIN program.order /\ cursor \in Nat \ {0} /\ program \in Programs
      /\ call \in Ids(program) /\ Op(program, call) = "call" /\ phase = "schedule"
  BY <1>1, SchedulingFacts
<1>3. call \in Operations(program) /\ task.op = call
  BY <1>2 DEF Operations, SpmdHloModuleTask
<1>4. Scheduling({"call", "gte", "reshard", "parameter", "offset"})
  BY <1>1 DEF Scheduling
<1>5. ~HasOp(schedule, call)
  BY <1>2, CallIsNew
<1>6. IsReadyAfter(schedule, call)
  BY <1>2, <1>3, ReadyInPostOrder DEF SInv
<1> HIDE DEF task, call
<1> DEFINE t == <<task>>
<1>7. t \in Seq({task}) /\ DOMAIN t = {1} /\ t[1] = task
  OBVIOUS
<1>8. schedule' = schedule \o t
  BY <1>1 DEF SInv, Topological
<1>9. HasOp(t, call)
  BY <1>3, <1>7 DEF HasOp
<1>10. \A k \in DOMAIN t : t[k].op = call
  BY <1>3, <1>7
<1>11. \A j, k \in DOMAIN t : j = k
  BY <1>7
<1> HIDE DEF t
<1>12. /\ \A k \in DOMAIN t :
            /\ t[k].op \in Operations(program) /\ ~HasOp(schedule, t[k].op)
            /\ IsReadyAfter(schedule, t[k].op)
            /\ Op(program, t[k].op) = "call" => t[k].op = program.order[cursor]
       /\ program.order[cursor] = call /\ phase' \in {"schedule", "error"}
  BY <1>1, <1>2, <1>3, <1>5, <1>6, <1>10 DEF call
<1> QED
  BY <1>1, <1>4, <1>7, <1>8, <1>9, <1>11, <1>12, ScheduleStep

\* The reshards that are scheduled: the new ones, once each, in the order of their creation.
LEMMA ReshardsAppended ==
  ASSUME program \in Programs, NEW R, R \subseteq {u \in Ids(program) : Op(program, u) = "reshard"},
         AddReshardTasks(R)
  PROVE  \E t : /\ \E T : t \in Seq(T)
                /\ schedule' = schedule \o t
                /\ \A k \in DOMAIN t : /\ t[k] = Reshard(t[k].op) /\ t[k].op \in R
                                       /\ ~HasOp(schedule, t[k].op)
                /\ \A u \in R : HasOp(schedule, u) \/ HasOp(t, u)
                /\ \A j, k \in DOMAIN t : j < k => t[j].op < t[k].op
                /\ \A j, k \in DOMAIN t : t[j].op = t[k].op => j = k
<1> DEFINE U == Unscheduled(R)
           N == Cardinality(U)
           t == [k \in DOMAIN InOrder(U) |-> Reshard(InOrder(U)[k])]
<1>1. /\ U \subseteq R /\ \A u \in R : u \in U \/ HasOp(schedule, u)
      /\ \A u \in U : ~HasOp(schedule, u)
  BY DEF Unscheduled, IsScheduled, HasOp
<1>2. IsFiniteSet(U) /\ U \subseteq Nat
  <2>1. IsFiniteSet(Ids(program)) /\ U \subseteq Ids(program)
    BY <1>1, ProgramsAssumption
  <2>2. Ids(program) \subseteq Nat
    BY IdsPositive
  <2> HIDE DEF U
  <2> QED
    BY <2>1, <2>2, FS_Subset
<1>3. schedule' = schedule \o t
  BY DEF AddReshardTasks
<1> HIDE DEF U
<1>4. /\ N \in Nat /\ DOMAIN InOrder(U) = 1 .. N
      /\ \A k \in 1 .. N : InOrder(U)[k] \in U
      /\ \A j, k \in 1 .. N : InOrder(U)[j] = InOrder(U)[k] => j = k
      /\ \A i \in U : \E k \in 1 .. N : InOrder(U)[k] = i
      /\ \A j, k \in 1 .. N : j < k => InOrder(U)[j] < InOrder(U)[k]
  BY <1>2, RanksOfSet
<1> HIDE DEF N
<1>5. t = [k \in 1 .. N |-> Reshard(InOrder(U)[k])] /\ DOMAIN t = 1 .. N
  BY <1>4
<1>6. \A k \in 1 .. N : t[k] = Reshard(InOrder(U)[k]) /\ t[k].op = InOrder(U)[k]
  BY <1>5 DEF Reshard
<1> HIDE DEF t
<1>7. \E T : t \in Seq(T)
  <2>1. N \in Nat
    BY <1>4
  <2>2. t \in [1 .. N -> {t[k] : k \in 1 .. N}]
    BY <1>5
  <2>3. t \in Seq({t[k] : k \in 1 .. N})
    BY <2>1, <2>2
  <2> QED
    BY <2>3
<1>8. \A k \in DOMAIN t : t[k] = Reshard(t[k].op) /\ t[k].op \in R /\ ~HasOp(schedule, t[k].op)
  BY <1>1, <1>4, <1>5, <1>6
<1>9. \A u \in R : HasOp(schedule, u) \/ HasOp(t, u)
  <2>1. \A i \in U : HasOp(t, i)
    BY <1>4, <1>5, <1>6 DEF HasOp
  <2> QED
    BY <1>1, <2>1
<1>10. /\ \A j, k \in DOMAIN t : j < k => t[j].op < t[k].op
       /\ \A j, k \in DOMAIN t : t[j].op = t[k].op => j = k
  BY <1>4, <1>5, <1>6
<1> QED
  BY <1>3, <1>7, <1>8, <1>9, <1>10

\* Reshards that are ready are scheduled.
LEMMA AddReshardTasksInv ==
  ASSUME SInv, NEW ops, Scheduling(ops), ops \subseteq {"gte", "reshard"},
         UNCHANGED <<nameVars, phase, stores, ran>>, cursor' = cursor + 1,
         NEW R, R \subseteq {u \in Ids(program) : Op(program, u) = "reshard"},
         AddReshardTasks(R), \A u \in R : IsReadyAfter(schedule, u),
         Op(program, program.order[cursor]) = "reshard" => program.order[cursor] \in R
  PROVE  SInv'
<1>1. program \in Programs /\ phase = "schedule" /\ Op(program, program.order[cursor]) \in ops
  BY SchedulingFacts
<1>2. PICK t : /\ \E T : t \in Seq(T)
               /\ schedule' = schedule \o t
               /\ \A k \in DOMAIN t : /\ t[k] = Reshard(t[k].op) /\ t[k].op \in R
                                      /\ ~HasOp(schedule, t[k].op)
               /\ \A u \in R : HasOp(schedule, u) \/ HasOp(t, u)
               /\ \A j, k \in DOMAIN t : j < k => t[j].op < t[k].op
               /\ \A j, k \in DOMAIN t : t[j].op = t[k].op => j = k
  BY <1>1, ReshardsAppended
<1>3. PICK T : t \in Seq(T)
  BY <1>2
<1>4. \A k \in DOMAIN t :
        /\ t[k].op \in Operations(program) /\ ~HasOp(schedule, t[k].op)
        /\ IsReadyAfter(schedule, t[k].op)
        /\ Op(program, t[k].op) = "call" => t[k].op = program.order[cursor]
  BY <1>2 DEF Operations
<1>5. program.order[cursor] \in Operations(program) =>
        HasOp(schedule, program.order[cursor]) \/ HasOp(t, program.order[cursor])
  BY <1>1, <1>2 DEF Operations
<1>6. Scheduling({"call", "gte", "reshard", "parameter", "offset"})
  BY DEF Scheduling
<1>7. phase' \in {"schedule", "error"}
  BY <1>1
<1> QED
  BY <1>2, <1>3, <1>4, <1>5, <1>6, <1>7, ScheduleStep

\* The reshards of an output may follow it at once: its call is scheduled.
LEMMA PrioritizeReshardsInv == ASSUME SInv, PrioritizeReshards PROVE SInv'
<1> DEFINE g == program.order[cursor]
           R == {u \in Readers(program, g) : Op(program, u) = "reshard"}
<1>1. /\ Scheduling({"gte"}) /\ AddReshardTasks(R)
      /\ UNCHANGED <<nameVars, phase, stores, ran>> /\ cursor' = cursor + 1
  BY DEF PrioritizeReshards
<1>2. /\ cursor \in DOMAIN program.order /\ cursor \in Nat \ {0} /\ program \in Programs
      /\ g \in Ids(program) /\ Op(program, g) = "gte"
  BY <1>1, SchedulingFacts
<1>3. PICK c \in Ids(program) : Op(program, c) = "call" /\ program.n[g].in = <<c>>
  BY <1>2, OutputsHaveCalls
<1>4. c \in Elements(program.n[g].in) /\ Producer(g) = c /\ c \in Operations(program)
  BY <1>2, <1>3 DEF Elements, Producer, Operations
<1>5. PICK j \in DOMAIN program.order : j < cursor /\ program.order[j] = c
  BY <1>2, <1>4, OperandsFirst
<1>6. j \in 1 .. cursor - 1
  BY <1>2, <1>5, OrderIsSequence
<1>7. HasOp(schedule, Producer(g))
  BY <1>4, <1>5, <1>6 DEF SInv, Covered
<1>8. R \subseteq {u \in Ids(program) : Op(program, u) = "reshard"}
  BY DEF Readers
<1>9. ASSUME NEW u \in R PROVE IsReadyAfter(schedule, u)
  <2>1. u \in Ids(program) /\ Op(program, u) = "reshard" /\ g \in Elements(program.n[u].in)
    BY DEF Readers
  <2>2. PICK w \in Values(program) : program.n[u].in = <<w>>
    BY <1>2, <2>1, ProgramsAssumption DEF IsFlat
  <2>3. Elements(program.n[u].in) = {w} /\ w = g
    BY <2>1, <2>2 DEF Elements
  <2> QED
    BY <1>7, <2>3 DEF IsReadyAfter, Sources
<1> HIDE DEF R
<1> QED
  BY <1>1, <1>2, <1>8, <1>9, AddReshardTasksInv

\* A reshard is scheduled at its place in post order.
LEMMA AddReshardTaskInv == ASSUME SInv, AddReshardTask PROVE SInv'
<1> DEFINE r == program.order[cursor]
           R == {r}
<1>1. /\ Scheduling({"reshard"}) /\ AddReshardTasks(R)
      /\ UNCHANGED <<nameVars, phase, stores, ran>> /\ cursor' = cursor + 1
  BY DEF AddReshardTask
<1>2. /\ cursor \in DOMAIN program.order /\ cursor \in Nat \ {0}
      /\ r \in Ids(program) /\ Op(program, r) = "reshard"
  BY <1>1, SchedulingFacts
<1>3. IsReadyAfter(schedule, r)
  BY <1>2, ReadyInPostOrder DEF SInv, Operations
<1>4. R \subseteq {u \in Ids(program) : Op(program, u) = "reshard"}
  BY <1>2
<1>5. (\A u \in R : IsReadyAfter(schedule, u)) /\ r \in R
  BY <1>3
<1> HIDE DEF R
<1> QED
  BY <1>1, <1>4, <1>5, AddReshardTasksInv

\* Parameters and offsets are passed over.
LEMMA ScheduleNothingInv == ASSUME SInv, ScheduleNothing PROVE SInv'
<1>1. /\ Scheduling({"parameter", "offset"}) /\ schedule' = schedule
      /\ UNCHANGED <<nameVars, phase, stores, ran>> /\ cursor' = cursor + 1
  BY DEF ScheduleNothing
<1>2. Op(program, program.order[cursor]) \in {"parameter", "offset"} /\ phase = "schedule"
  BY <1>1, SchedulingFacts
<1>3. program.order[cursor] \notin Operations(program)
  BY <1>2 DEF Operations
<1>4. Scheduling({"call", "gte", "reshard", "parameter", "offset"})
  BY <1>1 DEF Scheduling
<1> DEFINE t == <<>>
<1>5. schedule' = schedule \o t /\ t \in Seq({}) /\ DOMAIN t = {}
  BY <1>1 DEF SInv, Topological
<1> HIDE DEF t
<1>6. phase' \in {"schedule", "error"}
  BY <1>1, <1>2
<1> QED
  BY <1>1, <1>3, <1>4, <1>5, <1>6, ScheduleStep

-----------------------------------------------------------------------------
(***************************************************************************)
(* The theorems.                                                           *)
(***************************************************************************)

\* SInv is an invariant of naming, scheduling and running, for every program.
THEOREM ScheduleInvariance == Spec => []SInv
<1>1. SInv /\ [Next]_vars => SInv'
  <2> SUFFICES ASSUME SInv, [Next]_vars PROVE SInv'
    OBVIOUS
  <2>1. CASE UNCHANGED vars
    <3>1. UNCHANGED <<nameVars, phase, stores, cursor, schedule, ran>>
      BY <2>1 DEF vars, scheduleVars
    <3>2. NameInv' /\ program' = program /\ name' = name /\ at' = at
      BY <3>1, NamesUnchanged DEF SInv, nameVars
    <3>3. SchedulingNames' = SchedulingNames /\ Named' = Named
      BY <3>2 DEF SchedulingNames, Named
    <3>4. Progress'
      BY <3>1, <3>2, <3>3 DEF SInv, Progress
    <3> QED
      BY <3>1, <3>2, <3>4, ScheduleKept DEF SInv
  <2>2. CASE Next
    BY <2>2, AssignNamesInv, NothingScheduledInv, AddHloModuleTaskInv, PrioritizeReshardsInv,
       AddReshardTaskInv, ScheduleNothingInv DEF Next
  <2> QED
    BY <2>1, <2>2
<1>2. Init => SInv
  BY ScheduleInitInv
<1> QED
  BY <1>1, <1>2, PTL DEF Spec

\* The state is well typed: a buffer that is freed has a name, a scheduled operation is
\* one of the program, and no step runs past the post order or the schedule.
THEOREM ScheduleTypeCorrect == Spec => []TypeOK
<1>1. SInv => TypeOK
  BY DEF SInv, NameInv, Progress, Topological, TypeOK
<1> QED
  BY <1>1, ScheduleInvariance, PTL

\* MpmdScheduler's schedule is a topological order of every program: nothing twice,
\* operands first, and nothing left out when the stores are prepared.
THEOREM ScheduleInDataflowOrder == Spec => []ScheduleFollowsDataflow
<1>1. ASSUME SInv PROVE ScheduleFollowsDataflow
  <2>1. ASSUME phase \in {"run", "done"}, NEW i \in Operations(program),
               i \in Elements(program.order)
        PROVE  \E k \in DOMAIN schedule : schedule[k].op = i
    <3>1. /\ program.order \in Seq(Ids(program)) /\ cursor > Len(program.order)
          /\ cursor \in 1 .. Len(program.order) + 1
      BY <1>1, <2>1, OrderIsSequence DEF SInv, NameInv, Progress
    <3>2. PICK k \in DOMAIN program.order : program.order[k] = i
      BY <2>1 DEF Elements
    <3>3. k \in 1 .. cursor - 1
      BY <3>1, <3>2
    <3> QED
      BY <1>1, <3>2, <3>3 DEF SInv, Covered, HasOp
  <2> QED
    BY <1>1, <2>1 DEF SInv, Topological, ScheduleFollowsDataflow
<1> QED
  BY <1>1, ScheduleInvariance, PTL

\* Naming is a part of the specification.
LEMMA NamesAsSpecified == Spec => NameSpec
<1>1. Init => NameInit
  BY DEF Init
<1>2. [Next]_vars => [NameNext]_nameVars
  BY DEF Next, vars, AssignNames, AddStores, AddHloModuleTask, PrioritizeReshards,
         AddReshardTask, ScheduleNothing, PrepareStores, RunOperation, Finished
<1> QED
  BY <1>1, <1>2, PTL DEF Spec, NameSpec

\* Two values that are live at the same time have different scheduling names, or one that
\* an earlier pass has set, from the naming to the end of the run.
THEOREM NamesStayExclusive == Spec => []NamesAreExclusive
BY NamesAsSpecified, NamesExclusive, PTL

\* A step runs at most one operation, one that has not run and whose operands have been
\* computed.
LEMMA OneOperationRuns ==
  ASSUME SInv, Next
  PROVE  \/ Ran' = Ran
         \/ /\ phase = "run" /\ phase' = "run"
            /\ \E i \in Operations(program) :
                 i \notin Ran /\ Dataflow!IsReady(i) /\ Ran' = Ran \cup {i}
<1>1. Len(schedule) \in Nat /\ ran \in Nat /\ ran <= Len(schedule) /\ Topological(schedule)
  BY DEF SInv, Progress, Topological
<1>2. PICK S : schedule \in Seq(S)
  BY <1>1 DEF Topological
<1>3. DOMAIN schedule = 1 .. Len(schedule)
  BY <1>2
<1>4. CASE RunOperation
  <2> DEFINE i == schedule[ran + 1].op
  <2>1. /\ schedule' = schedule /\ ran' = ran + 1 /\ ran + 1 \in DOMAIN schedule
        /\ phase = "run" /\ phase' = "run"
    BY <1>1, <1>3, <1>4 DEF RunOperation
  <2>2. i \in Operations(program)
    BY <1>1, <2>1 DEF Topological
  <2>3. i \notin Ran
    <3> SUFFICES ASSUME NEW k \in 1 .. ran, schedule[k].op = i PROVE FALSE
      BY DEF Ran
    <3>1. k \in DOMAIN schedule /\ k # ran + 1
      BY <1>1, <1>3
    <3> QED
      BY <1>1, <2>1, <3>1 DEF Topological
  <2>4. Ran' = Ran \cup {i}
    <3>1. Ran' = {schedule[k].op : k \in 1 .. ran + 1}
      BY <2>1 DEF Ran
    <3>2. 1 .. ran + 1 = (1 .. ran) \cup {ran + 1}
      BY <1>1
    <3> QED
      BY <3>1, <3>2 DEF Ran
  <2>5. ASSUME NEW v \in Sources(program, i), Op(program, v) # "parameter"
        PROVE  Dataflow!Producer(program, v) \in Ran
    <3>1. PICK j \in 1 .. (ran + 1) - 1 : schedule[j].op = Producer(v)
      BY <1>1, <2>1, <2>5 DEF Topological
    <3>2. j \in 1 .. ran
      BY <1>1, <3>1
    <3>3. Dataflow!Producer(program, v) = Producer(v)
      BY DEF Dataflow!Producer, Producer, Dataflow!Op, Op
    <3> QED
      BY <3>1, <3>2, <3>3 DEF Ran
  <2>6. Dataflow!IsReady(i)
    BY <2>5 DEF Dataflow!IsReady, Dataflow!Sources, Dataflow!Elements, Dataflow!Op,
                Sources, Elements, Op
  <2> QED
    BY <2>1, <2>2, <2>3, <2>4, <2>6
<1>5. CASE \/ AssignNames \/ AddHloModuleTask \/ PrioritizeReshards \/ AddReshardTask
           \/ ScheduleNothing
  <2>1. ran = 0 /\ ran' = 0
    BY <1>5 DEF SInv, Progress, AssignNames, AddHloModuleTask, PrioritizeReshards,
                      AddReshardTask, ScheduleNothing, Scheduling, scheduleVars
  <2> QED
    BY <2>1 DEF Ran
<1>6. CASE AddStores \/ PrepareStores \/ Finished
  <2>1. ran' = ran /\ schedule' = schedule
    BY <1>6 DEF AddStores, PrepareStores, Finished
  <2> QED
    BY <2>1 DEF Ran
<1> QED
  BY <1>4, <1>5, <1>6 DEF Next

\* The half of ImplementsDataflow that is about computed: a step runs at most one
\* operation, one that has not run and whose operands have been computed.
THEOREM RunsAsDataflow ==
  Spec => [][ \/ Ran' = Ran
              \/ \E i \in Operations(program) :
                   i \notin Ran /\ Dataflow!IsReady(i) /\ Ran' = Ran \cup {i} ]_vars
BY OneOperationRuns, ScheduleInvariance, PTL DEF Spec

-----------------------------------------------------------------------------
(***************************************************************************)
(* Places.                                                                 *)
(***************************************************************************)

\* The place of an instruction in the post order.
LEMMA PositionFacts ==
  ASSUME program \in Programs, NEW u \in Ids(program)
  PROVE  /\ Position(u) \in DOMAIN program.order /\ Position(u) \in Nat
         /\ program.order[Position(u)] = u
<1> DEFINE I == {k \in 1 .. Len(program.order) : program.order[k] = u}
<1>1. DOMAIN program.order = 1 .. Len(program.order) /\ Len(program.order) \in Nat
  BY OrderIsSequence
<1>2. I # {} /\ I \subseteq Nat
  BY <1>1, HasPlace
<1>3. Position(u) = Min(I)
  BY <1>2 DEF Position, SelectInSeq
<1>4. Min(I) \in I
  BY <1>2, LeastNumber DEF Min
<1> QED
  BY <1>1, <1>3, <1>4

\* The number of a result.
LEMMA RootIndexFacts ==
  ASSUME program \in Programs, NEW v, IsRoot(program, v)
  PROVE  /\ RootIndex(v) \in DOMAIN program.roots /\ program.roots[RootIndex(v)] = v
         /\ \A k \in DOMAIN program.roots : program.roots[k] = v => k = RootIndex(v)
         /\ v \in Values(program)
<1> DEFINE I == {k \in 1 .. Len(program.roots) : program.roots[k] = v}
<1>1. /\ program.roots \in Seq(Values(program))
      /\ \A j, k \in DOMAIN program.roots : program.roots[j] = program.roots[k] => j = k
  BY ProgramsAssumption DEF IsFlat
<1>2. DOMAIN program.roots = 1 .. Len(program.roots) /\ Len(program.roots) \in Nat
  BY <1>1
<1>3. I # {} /\ I \subseteq Nat
  BY <1>2 DEF IsRoot, Elements
<1>4. RootIndex(v) = Min(I)
  BY <1>3 DEF RootIndex, SelectInSeq
<1>5. Min(I) \in I
  BY <1>3, LeastNumber DEF Min
<1>6. RootIndex(v) \in DOMAIN program.roots /\ program.roots[RootIndex(v)] = v
  BY <1>2, <1>4, <1>5
<1> HIDE DEF I
<1>7. v \in Values(program)
  BY <1>1, <1>6
<1> QED
  BY <1>1, <1>6, <1>7

\* The last reader of a value comes after all others.
LEMMA LastReaderFacts ==
  ASSUME program \in Programs, NEW v, NEW u \in Operations(program),
         v \in Elements(program.n[u].in)
  PROVE  /\ LastReader(v) \in DOMAIN program.order /\ LastReader(v) # 0
         /\ ~Precedes(program, program.order[LastReader(v)], u)
<1> DEFINE R(j) == j \in Operations(program) /\ v \in Elements(program.n[j].in)
           I == {k \in 1 .. Len(program.order) : R(program.order[k])}
<1>1. DOMAIN program.order = 1 .. Len(program.order) /\ Len(program.order) \in Nat
  BY OrderIsSequence
<1>2. u \in Ids(program)
  BY DEF Operations
<1>3. I # {} /\ I \subseteq Nat
  BY <1>1, <1>2, HasPlace
<1>4. LastReader(v) = Max(I)
  BY <1>3 DEF LastReader, SelectLastInSeq
<1>5. IsFiniteSet(I)
  <2>1. 1 \in Int /\ Len(program.order) \in Int /\ I \subseteq 1 .. Len(program.order)
    BY <1>1
  <2>2. IsFiniteSet(1 .. Len(program.order))
    BY <2>1, FS_Interval
  <2> HIDE DEF I
  <2> QED
    BY <2>1, <2>2, FS_Subset
<1>6. \E x \in I : \A y \in I : x >= y
  <2>1. \E x \in I : \A y \in I : y <= x
    BY <1>3, <1>5, GreatestNumber
  <2> QED
    BY <1>3, <2>1
<1>7. Max(I) \in I /\ \A y \in I : Max(I) >= y
  BY <1>6 DEF Max
<1>8. ASSUME Precedes(program, program.order[LastReader(v)], u) PROVE FALSE
  <2>1. PICK k, l \in DOMAIN program.order :
          k < l /\ program.order[k] = program.order[LastReader(v)] /\ program.order[l] = u
    BY <1>8 DEF Precedes
  <2>2. k = LastReader(v) /\ l \in I
    BY <1>1, <1>4, <1>7, <2>1, OrderIsSequence
  <2>3. k \in Nat /\ l \in Nat /\ k >= l
    BY <1>3, <1>4, <1>7, <2>2
  <2> QED
    BY <2>1, <2>3
<1>9. LastReader(v) \in 1 .. Len(program.order)
  BY <1>4, <1>7
<1> HIDE DEF I, R
<1> QED
  BY <1>1, <1>8, <1>9

\* Of two different instructions one comes before the other, and only one.
LEMMA OneComesFirst ==
  ASSUME program \in Programs, NEW i \in Ids(program), NEW j \in Ids(program)
  PROVE  /\ i = j \/ Precedes(program, i, j) \/ Precedes(program, j, i)
         /\ Precedes(program, i, j) => i # j /\ ~Precedes(program, j, i)
<1>1. PICK k \in DOMAIN program.order : k \in Nat \ {0} /\ program.order[k] = i
  BY HasPlace
<1>2. PICK l \in DOMAIN program.order : l \in Nat \ {0} /\ program.order[l] = j
  BY HasPlace
<1>3. CASE k < l
  BY <1>1, <1>2, <1>3, OrderIsSequence DEF Precedes
<1>4. CASE l < k
  BY <1>1, <1>2, <1>4, OrderIsSequence DEF Precedes
<1>5. CASE k = l
  BY <1>1, <1>2, <1>5, OrderIsSequence DEF Precedes
<1> QED
  BY <1>1, <1>2, <1>3, <1>4, <1>5

\* What comes before what comes before.
LEMMA PrecedesTransitive ==
  ASSUME program \in Programs, NEW i, NEW j, NEW l,
         Precedes(program, i, j), Precedes(program, j, l)
  PROVE  Precedes(program, i, l)
<1>1. PICK a, b \in DOMAIN program.order :
        a < b /\ program.order[a] = i /\ program.order[b] = j
  BY DEF Precedes
<1>2. PICK c, d \in DOMAIN program.order :
        c < d /\ program.order[c] = j /\ program.order[d] = l
  BY DEF Precedes
<1>3. b = c /\ a \in Nat /\ b \in Nat /\ d \in Nat
  BY <1>1, <1>2, OrderIsSequence
<1> QED
  BY <1>1, <1>2, <1>3 DEF Precedes

-----------------------------------------------------------------------------
(***************************************************************************)
(* Stores.                                                                 *)
(***************************************************************************)

\* What the naming pass leaves of a program whose accumulators are chained.
Settled ==
  /\ program \in Programs /\ IsWellNamed(program) /\ IsChained(program)
  /\ PresetsKept /\ OwnersAlone
  /\ \A v \in Values(program) : name[v] \in Ids(program)
  /\ \A v \in Values(program) : Op(program, v) = "parameter" => name[v] = v
  /\ \A i \in Operations(program) : \A w \in Outputs(program, i) : \A v \in Values(program) :
       /\ v # w
       /\ Op(program, v) = "parameter" \/ ComputedBy(program, v, i)
       /\ NeededAfter(program, v, i)
       => name[v] # name[w]

\* The call or reshard that computes a value.
LEMMA ProducerFacts ==
  ASSUME program \in Programs, NEW v \in Values(program), Op(program, v) # "parameter"
  PROVE  Producer(v) \in Operations(program) /\ v \in Outputs(program, Producer(v))
<1>1. v \in Ids(program) /\ Op(program, v) \in {"gte", "reshard"}
  BY DEF Values
<1>2. CASE Op(program, v) = "gte"
  <2>1. PICK c \in Ids(program) : Op(program, c) = "call" /\ program.n[v].in = <<c>>
    BY <1>1, <1>2, OutputsHaveCalls
  <2>2. Producer(v) = c /\ c \in Elements(program.n[v].in)
    BY <1>2, <2>1 DEF Producer, Elements
  <2> QED
    BY <1>1, <2>1, <2>2 DEF Operations, Outputs, Readers
<1>3. CASE Op(program, v) = "reshard"
  BY <1>1, <1>3 DEF Producer, Operations, Outputs
<1> QED
  BY <1>1, <1>2, <1>3

\* When every instruction has been visited, the names are settled.
LEMMA NamesSettle ==
  ASSUME Inv, ApartInv, IsWellNamed(program), IsChained(program), Named
  PROVE  Settled
<1>1. program \in Programs /\ Core /\ Apart
  BY DEF Inv, ApartInv
<1>2. ASSUME NEW i \in Ids(program) PROVE Visited(i)
  <2>1. PICK k \in DOMAIN program.order : k \in Nat \ {0} /\ program.order[k] = i
    BY <1>1, HasPlace
  <2>2. k \in 1 .. at - 1
    BY <1>1, <2>1, OrderIsSequence DEF Named, Core, Shape
  <2> QED
    BY <2>1, <2>2 DEF Visited
<1>3. ASSUME NEW v \in Values(program) PROVE Started(v)
  <2>1. CASE Op(program, v) = "parameter"
    BY <2>1 DEF Started
  <2>2. CASE Op(program, v) # "parameter"
    BY <1>1, <1>2, <2>2, ProducerFacts DEF Started, Operations
  <2> QED
    BY <2>1, <2>2
<1>4. \A v \in Values(program) : v \in Ids(program) /\ name[v] \in Ids(program)
  BY <1>1, <1>3, StartedIsNamed DEF Core, Shape, Values
<1>5. \A v \in Values(program) : Op(program, v) = "parameter" => name[v] = v
  BY <1>1, <1>4 DEF Core, OutputsNamed
<1>6. \A i \in Operations(program) : \A w \in Outputs(program, i) : w \in Values(program)
  BY <1>1, OutputFacts
<1>7. \A i \in Operations(program) : \A w \in Outputs(program, i) : \A v \in Values(program) :
        /\ v # w
        /\ Op(program, v) = "parameter" \/ ComputedBy(program, v, i)
        /\ NeededAfter(program, v, i)
        => name[v] # name[w]
  BY <1>1, <1>3, <1>6 DEF Apart
<1> QED
  BY <1>1, <1>4, <1>5, <1>7 DEF Settled, Core

\* The name of a parameter is no other value's.
LEMMA ParametersAlone ==
  ASSUME Settled, NEW u \in Values(program), Op(program, u) = "parameter",
         NEW v \in Values(program), name[v] = name[u]
  PROVE  v = u
<1>1. /\ name[u] = u /\ name[u] \in Ids(program) /\ OwnersAlone /\ PresetsKept
      /\ program \in Programs /\ IsWellNamed(program) /\ u \in Ids(program)
  BY DEF Settled, Values
<1>2. name[u] # None
  BY <1>1, IdsPositive
<1>3. ASSUME IsPreset(name[u]) PROVE FALSE
  <2>1. program.n[u].name = u
    BY <1>1, <1>3 DEF PresetsKept
  <2> QED
    BY <1>1, <1>2, <2>1 DEF IsWellNamed
<1> QED
  BY <1>1, <1>2, <1>3 DEF OwnersAlone

\* The name of a result is no other result's, and its other values come before it.
LEMMA ResultsAlone ==
  ASSUME Settled, NEW r \in Values(program), IsRoot(program, r),
         NEW v \in Values(program), name[v] = name[r], v # r
  PROVE  /\ ~IsRoot(program, v)
         /\ Op(program, v) # "parameter" /\ Op(program, r) # "parameter"
         /\ ~ComputedBy(program, r, Producer(v))
<1>1. program \in Programs
  BY DEF Settled
<1>2. Op(program, v) # "parameter" /\ Op(program, r) # "parameter"
  BY ParametersAlone
<1>3. ASSUME NEW x \in Values(program), NEW y \in Values(program), x # y,
             Op(program, x) # "parameter", Op(program, y) # "parameter",
             IsRoot(program, x), name[x] = name[y]
      PROVE  ~ComputedBy(program, x, Producer(y))
  <2>1. Producer(y) \in Operations(program) /\ y \in Outputs(program, Producer(y))
    BY <1>1, <1>3, ProducerFacts
  <2>2. NeededAfter(program, x, Producer(y))
    BY <1>3 DEF NeededAfter
  <2> QED
    BY <1>3, <2>1, <2>2 DEF Settled
<1>4. ASSUME IsRoot(program, v) PROVE FALSE
  <2> DEFINE i == Producer(v)
             j == Producer(r)
  <2>1. /\ i \in Operations(program) /\ v \in Outputs(program, i)
        /\ j \in Operations(program) /\ r \in Outputs(program, j)
    BY <1>1, <1>2, ProducerFacts
  <2>2. ~ComputedBy(program, r, i) /\ ~ComputedBy(program, v, j)
    BY <1>2, <1>3, <1>4
  <2> HIDE DEF i, j
  <2>3. i # j /\ ~Precedes(program, j, i) /\ ~Precedes(program, i, j)
    BY <2>1, <2>2 DEF ComputedBy
  <2>4. i \in Ids(program) /\ j \in Ids(program)
    BY <2>1 DEF Operations
  <2> QED
    BY <1>1, <2>3, <2>4, OneComesFirst
<1> QED
  BY <1>2, <1>3, <1>4

\* The first of a set of instructions.
LEMMA FirstFacts ==
  ASSUME program \in Programs, NEW S, S \subseteq Ids(program), S # {}
  PROVE  First(S) \in S
<1> DEFINE T == {Position(j) : j \in S}
<1>1. T \subseteq Nat /\ T # {}
  BY PositionFacts
<1>2. PICK x \in T : \A y \in T : x <= y
  <2> HIDE DEF T
  <2> QED
    BY <1>1, LeastNumber
<1>3. \E i \in S : \A j \in S : Position(i) <= Position(j)
  BY <1>2
<1> QED
  BY <1>3 DEF First

\* The tables AddTasksFromEntryComputation fills before it schedules.
StoresAssigned ==
  /\ stores = [x \in SchedulingNames |-> AddStore(x)]
  /\ last_use = [v \in Values(program) |->
                   IF LastReader(v) = 0 THEN None ELSE program.order[LastReader(v)]]

\* The fields of a store.
LEMMA StoreFields ==
  \A type, index : Store(type, index).type = type /\ Store(type, index).index = index
BY DEF Store

\* The store of a value is that of its name.
LEMMA StoreOfValue ==
  ASSUME StoresAssigned, NEW v \in Values(program)
  PROVE  GetStore(v) = AddStore(name[v])
<1>1. name[v] \in SchedulingNames
  BY DEF SchedulingNames
<1> QED
  BY <1>1 DEF StoresAssigned, GetStore

\* A parameter is in the store of its number.
LEMMA StoreOfParameter ==
  ASSUME Settled, StoresAssigned, NEW u \in Values(program), Op(program, u) = "parameter"
  PROVE  GetStore(u) = Store("PARAM", program.n[u].index)
<1> DEFINE x == name[u]
<1>1. Sharing(x) = {u}
  BY ParametersAlone DEF Sharing
<1>2. Params(x) = {u} /\ Params(x) \cup Results(x) = {u}
  BY <1>1 DEF Params, Results
<1>3. x \notin TemporaryNames
  BY <1>2 DEF TemporaryNames
<1>4. u \in Ids(program) /\ program \in Programs
  BY DEF Settled, Values
<1>5. First({u}) = u
  BY <1>4, FirstFacts
<1> QED
  BY <1>2, <1>3, <1>5, StoreOfValue DEF AddStore

\* A result that is computed is in the store of its number.
LEMMA StoreOfResult ==
  ASSUME Settled, StoresAssigned, NEW r \in Values(program), Op(program, r) # "parameter",
         IsRoot(program, r)
  PROVE  GetStore(r) = Store("ROOT", RootIndex(r))
<1> DEFINE x == name[r]
<1>1. \A v \in Sharing(x) : v = r \/ (~IsRoot(program, v) /\ Op(program, v) # "parameter")
  BY ResultsAlone DEF Sharing
<1>2. r \in Sharing(x)
  BY DEF Sharing
<1>3. Params(x) = {} /\ Params(x) \cup Results(x) = {r}
  BY <1>1, <1>2 DEF Params, Results
<1>4. x \notin TemporaryNames
  BY <1>3 DEF TemporaryNames
<1>5. r \in Ids(program) /\ program \in Programs
  BY DEF Settled, Values
<1>6. First({r}) = r
  BY <1>5, FirstFacts
<1> QED
  BY <1>3, <1>4, <1>6, StoreOfValue DEF AddStore

\* What the store of a value says of it.
LEMMA StoreKinds ==
  ASSUME Settled, StoresAssigned, NEW v \in Values(program)
  PROVE  /\ GetStore(v).type \in {"PARAM", "ROOT", "TEMP"}
         /\ GetStore(v).type = "PARAM" => Op(program, v) = "parameter"
         /\ GetStore(v).type = "ROOT" =>
              \E r \in Values(program) : /\ IsRoot(program, r) /\ Op(program, r) # "parameter"
                                         /\ name[r] = name[v]
                                         /\ GetStore(v) = Store("ROOT", RootIndex(r))
         /\ GetStore(v).type = "TEMP" => name[v] \in TemporaryNames
<1> DEFINE x == name[v]
           P == Params(x) \cup Results(x)
<1>1. CASE x \in TemporaryNames
  <2>1. GetStore(v).type = "TEMP"
    BY <1>1, StoreOfValue, StoreFields DEF AddStore
  <2> QED
    BY <1>1, <2>1
<1>2. CASE x \notin TemporaryNames
  <2>1. P # {}
    BY <1>2 DEF TemporaryNames, SchedulingNames
  <2>2. PICK i \in P : TRUE
    BY <2>1
  <2>3. i \in Values(program) /\ name[i] = x
    BY <2>2 DEF Params, Results, Sharing
  <2>4. CASE Op(program, i) = "parameter"
    <3>1. v = i
      BY <2>3, <2>4, ParametersAlone
    <3>2. GetStore(v).type = "PARAM"
      BY <2>4, <3>1, StoreOfParameter, StoreFields
    <3> QED
      BY <2>4, <3>1, <3>2
  <2>5. CASE Op(program, i) # "parameter"
    <3>1. IsRoot(program, i)
      BY <2>2, <2>5 DEF Params, Results
    <3>2. GetStore(i) = Store("ROOT", RootIndex(i)) /\ GetStore(v) = GetStore(i)
      BY <2>3, <2>5, <3>1, StoreOfResult DEF GetStore
    <3>3. GetStore(v).type = "ROOT"
      BY <3>2, StoreFields
    <3> QED
      BY <2>3, <2>5, <3>1, <3>2, <3>3
  <2> QED
    BY <2>4, <2>5
<1> QED
  BY <1>1, <1>2

\* Values in one store have one name.
LEMMA StoresDiffer ==
  ASSUME Settled, StoresAssigned, NEW v \in Values(program), NEW w \in Values(program),
         GetStore(v) = GetStore(w)
  PROVE  name[v] = name[w]
<1>0. program \in Programs
  BY DEF Settled
<1>1. CASE GetStore(v).type = "PARAM"
  <2>1. Op(program, v) = "parameter" /\ Op(program, w) = "parameter"
    BY <1>1, StoreKinds
  <2>2. program.n[v].index = program.n[w].index
    BY <2>1, StoreOfParameter, StoreFields
  <2>3. v \in Ids(program) /\ w \in Ids(program) /\ IsFlat(program)
    BY <1>0, ProgramsAssumption DEF Values
  <2> QED
    BY <2>1, <2>2, <2>3 DEF IsFlat
<1>2. CASE GetStore(v).type = "ROOT"
  <2>1. PICK q \in Values(program) : /\ IsRoot(program, q) /\ name[q] = name[v]
                                     /\ GetStore(v) = Store("ROOT", RootIndex(q))
    BY <1>2, StoreKinds
  <2>2. PICK r \in Values(program) : /\ IsRoot(program, r) /\ name[r] = name[w]
                                     /\ GetStore(w) = Store("ROOT", RootIndex(r))
    BY <1>2, StoreKinds
  <2>a. PICK a : a = RootIndex(q)
    OBVIOUS
  <2>b. PICK b : b = RootIndex(r)
    OBVIOUS
  <2>s. Store("ROOT", a).index = a /\ Store("ROOT", b).index = b
    BY StoreFields
  <2>t. GetStore(v) = Store("ROOT", a) /\ GetStore(w) = Store("ROOT", b)
    BY <2>1, <2>2, <2>a, <2>b
  <2>3. GetStore(v).index = a /\ GetStore(w).index = b
    BY <2>s, <2>t
  <2>4. q = r
    BY <1>0, <2>1, <2>2, <2>3, <2>a, <2>b, RootIndexFacts
  <2> QED
    BY <2>1, <2>2, <2>4
<1>3. CASE GetStore(v).type = "TEMP"
  <2> DEFINE At(x) == Position(First(Sharing(x)))
             Earlier(x) == {y \in TemporaryNames : At(y) < At(x)}
  <2>1. name[v] \in TemporaryNames /\ name[w] \in TemporaryNames
    BY <1>3, StoreKinds
  <2>2. ASSUME NEW x \in TemporaryNames
        PROVE  At(x) \in Nat /\ \A y \in TemporaryNames : At(x) = At(y) => x = y
    <3>1. ASSUME NEW y \in TemporaryNames
          PROVE  First(Sharing(y)) \in Ids(program) /\ name[First(Sharing(y))] = y
      <4>1. Sharing(y) \subseteq Ids(program) /\ Sharing(y) # {}
        BY DEF Sharing, Values, TemporaryNames, SchedulingNames
      <4>2. First(Sharing(y)) \in Sharing(y)
        BY <1>0, <4>1, FirstFacts
      <4> QED
        BY <4>1, <4>2 DEF Sharing
    <3>2. \A y \in TemporaryNames : At(y) \in Nat /\ program.order[At(y)] = First(Sharing(y))
      BY <1>0, <3>1, PositionFacts
    <3> QED
      BY <3>1, <3>2
  <2>3. Cardinality(Earlier(name[v])) = Cardinality(Earlier(name[w]))
    <3>1. AddStore(name[v]) = AddStore(name[w])
      BY StoreOfValue
    <3>2. /\ AddStore(name[v]) = Store("TEMP", Cardinality(Earlier(name[v])))
          /\ AddStore(name[w]) = Store("TEMP", Cardinality(Earlier(name[w])))
      BY <2>1 DEF AddStore
    <3> HIDE DEF Earlier
    <3>3. /\ AddStore(name[v]).index = Cardinality(Earlier(name[v]))
          /\ AddStore(name[w]).index = Cardinality(Earlier(name[w]))
      BY <3>2, StoreFields
    <3> QED
      BY <3>1, <3>3
  <2>4. IsFiniteSet(TemporaryNames)
    <3>1. TemporaryNames \subseteq Ids(program) /\ IsFiniteSet(Ids(program))
      BY <1>0, ProgramsAssumption DEF TemporaryNames, SchedulingNames, Settled
    <3> QED
      BY <3>1, FS_Subset
  <2> HIDE DEF At
  <2>5. ASSUME NEW x \in TemporaryNames, NEW y \in TemporaryNames, At(x) < At(y)
        PROVE  Cardinality(Earlier(x)) # Cardinality(Earlier(y))
    <3>1. IsFiniteSet(Earlier(y))
      BY <2>4, FS_Subset
    <3>2. x \in Earlier(y) /\ x \notin Earlier(x)
      BY <2>2, <2>5
    <3>3. Earlier(x) \subseteq Earlier(y)
      BY <2>2, <2>5
    <3> HIDE DEF Earlier
    <3> QED
      BY <3>1, <3>2, <3>3, FS_Subset
  <2> HIDE DEF Earlier
  <2>6. ~(At(name[v]) < At(name[w])) /\ ~(At(name[w]) < At(name[v]))
    BY <2>1, <2>3, <2>5
  <2>7. At(name[v]) \in Nat /\ At(name[w]) \in Nat
    BY <2>1, <2>2
  <2>8. At(name[v]) = At(name[w])
    BY <2>6, <2>7
  <2> QED
    BY <2>1, <2>2, <2>8
<1> QED
  BY <1>1, <1>2, <1>3, StoreKinds

-----------------------------------------------------------------------------
(***************************************************************************)
(* Tables.                                                                 *)
(***************************************************************************)

\* The task that is scheduled for an operation.
TaskOf(i) == IF Op(program, i) = "call" THEN SpmdHloModuleTask(i) ELSE Reshard(i)

\* A scheduled call has a module, with aliases that do not collide.
Compiled(k) ==
  LET comp == program.n[schedule[k].op].comp
  IN  Op(program, schedule[k].op) = "call" => comp \in DOMAIN modules /\ IsValid(modules[comp])

\* What stores, schedule, modules and root stores hold.
Tables ==
  /\ phase = "name" => schedule = <<>>
  /\ phase # "name" => StoresAssigned
  /\ \A k \in DOMAIN schedule : schedule[k] = TaskOf(schedule[k].op)
  /\ phase # "error" => \A k \in DOMAIN schedule : Compiled(k)
  /\ phase \in {"run", "done"} =>
       rooted = [k \in {j \in DOMAIN program.roots : RootWrites(j) # {}} |-> RootStore(k)]

\* The stores and the tasks depend on program and names only.
LEMMA TablesKept ==
  ASSUME UNCHANGED <<program, name>>
  PROVE  /\ \A x : AddStore(x)' = AddStore(x)
         /\ \A v : LastReader(v)' = LastReader(v)
         /\ UNCHANGED <<stores, last_use>> /\ StoresAssigned => StoresAssigned'
         /\ UNCHANGED stores => \A i : TaskOf(i)' = TaskOf(i)
<1>1. ASSUME NEW x PROVE AddStore(x)' = AddStore(x)
  BY DEF AddStore, TemporaryNames, SchedulingNames, Params, Results, Sharing, First,
         Position, RootIndex, SelectInSeq, Min, Store
<1>2. ASSUME NEW v PROVE LastReader(v)' = LastReader(v)
  BY DEF LastReader, SelectLastInSeq, Max
<1>3. SchedulingNames' = SchedulingNames
  BY DEF SchedulingNames
<1>4. ASSUME UNCHANGED <<stores, last_use>>, StoresAssigned PROVE StoresAssigned'
  BY <1>1, <1>2, <1>3, <1>4 DEF StoresAssigned
<1>5. ASSUME UNCHANGED stores, NEW i PROVE TaskOf(i)' = TaskOf(i)
  BY <1>5 DEF TaskOf, SpmdHloModuleTask, Reshard, SortedUsers, GetStore, SliceOffset, Store
<1> QED
  BY <1>1, <1>2, <1>4, <1>5

\* Tasks that are appended to the schedule.
LEMMA TasksAppended ==
  ASSUME SInv, Tables, UNCHANGED <<program, name, stores, last_use>>, phase = "schedule",
         NEW T, NEW t \in Seq(T), schedule' = schedule \o t,
         \A k \in DOMAIN t : t[k] = TaskOf(t[k].op)
  PROVE  /\ (\A k \in DOMAIN schedule : schedule[k] = TaskOf(schedule[k].op))'
         /\ StoresAssigned'
         /\ \A k \in DOMAIN schedule' :
              \/ k \in DOMAIN schedule /\ schedule'[k] = schedule[k]
              \/ \E j \in DOMAIN t : schedule'[k] = t[j]
<1>1. PICK S : schedule \in Seq(S)
  BY DEF SInv, Topological
<1>2. /\ DOMAIN schedule = 1 .. Len(schedule) /\ Len(schedule) \in Nat
      /\ DOMAIN t = 1 .. Len(t) /\ Len(t) \in Nat
  BY <1>1
<1>3. ASSUME NEW k \in DOMAIN schedule'
      PROVE  \/ k \in DOMAIN schedule /\ schedule'[k] = schedule[k]
             \/ \E j \in DOMAIN t : schedule'[k] = t[j]
  <2>1. DOMAIN schedule' = 1 .. Len(schedule) + Len(t)
    BY <1>1, <1>2
  <2>2. CASE k <= Len(schedule)
    BY <1>1, <1>2, <2>1, <2>2
  <2>3. CASE k > Len(schedule)
    <3>1. k - Len(schedule) \in DOMAIN t /\ schedule'[k] = t[k - Len(schedule)]
      BY <1>1, <1>2, <2>1, <2>3
    <3> QED
      BY <3>1
  <2> QED
    BY <1>2, <2>1, <2>2, <2>3
<1>4. \A i : TaskOf(i)' = TaskOf(i)
  BY TablesKept
<1>5. \A k \in DOMAIN schedule : schedule[k] = TaskOf(schedule[k].op)
  BY DEF Tables
<1>6. \A k \in DOMAIN schedule' : schedule'[k] = TaskOf(schedule'[k].op)
  BY <1>3, <1>5
<1>7. (\A k \in DOMAIN schedule : schedule[k] = TaskOf(schedule[k].op))'
  BY <1>4, <1>6
<1>8. StoresAssigned'
  BY TablesKept DEF Tables
<1> QED
  BY <1>3, <1>7, <1>8

\* A call adds its task and finds or makes its module.
LEMMA AddHloModuleTaskTables == ASSUME SInv, Tables, AddHloModuleTask PROVE Tables'
<1> DEFINE call == program.order[cursor]
           task == SpmdHloModuleTask(call)
           comp == program.n[task.op].comp
           With(config) == [c \in DOMAIN modules \cup {comp} |->
                              IF c = comp THEN config ELSE modules[c]]
<1>1. /\ Scheduling({"call"}) /\ schedule' = Append(schedule, task)
      /\ modules' \in IF comp \in DOMAIN modules THEN {modules}
                      ELSE {With(config) : config \in AliasConfigs(task)}
      /\ phase' = IF IsValid(modules'[comp]) THEN phase ELSE "error"
      /\ UNCHANGED <<nameVars, stores, last_use, rooted>>
  BY DEF AddHloModuleTask
<1>t. task.op = call
  BY DEF SpmdHloModuleTask
<1>2. phase = "schedule" /\ Op(program, call) = "call" /\ task.op = call
  BY <1>1, <1>t, SchedulingFacts
<1>3. UNCHANGED <<program, name, stores, last_use>> /\ task = TaskOf(task.op)
  BY <1>1, <1>2 DEF nameVars, TaskOf
<1>4. /\ comp \in DOMAIN modules'
      /\ \A c \in DOMAIN modules : c \in DOMAIN modules' /\ modules'[c] = modules[c]
  <2>1. CASE comp \in DOMAIN modules
    BY <1>1, <2>1
  <2>2. CASE comp \notin DOMAIN modules
    <3>1. PICK config : modules' = With(config)
      BY <1>1, <2>2
    <3> HIDE DEF comp
    <3> QED
      BY <2>2, <3>1
  <2> QED
    BY <2>1, <2>2
<1>5. phase' # "error" => phase' = "schedule" /\ IsValid(modules'[comp])
  BY <1>1, <1>2
<1>p. phase' \in {"schedule", "error"}
  BY <1>1, <1>2
<1>6. \A k \in DOMAIN schedule : Compiled(k)
  BY <1>2 DEF Tables
<1> HIDE DEF task
<1> DEFINE t == <<task>>
<1>7. t \in Seq({task}) /\ DOMAIN t = {1} /\ t[1] = task
  OBVIOUS
<1>8. schedule' = schedule \o t
  BY <1>1 DEF SInv, Topological
<1>9. \A k \in DOMAIN t : t[k] = TaskOf(t[k].op)
  BY <1>3, <1>7
<1>10. \A j \in DOMAIN t : t[j] = task
  BY <1>7
<1> HIDE DEF t, comp
<1>11. /\ (\A k \in DOMAIN schedule : schedule[k] = TaskOf(schedule[k].op))'
       /\ StoresAssigned'
       /\ \A k \in DOMAIN schedule' :
              \/ k \in DOMAIN schedule /\ schedule'[k] = schedule[k]
              \/ schedule'[k] = task
  BY <1>2, <1>3, <1>7, <1>8, <1>9, <1>10, TasksAppended
<1>12. ASSUME phase' # "error", NEW k \in DOMAIN schedule' PROVE Compiled(k)'
  <2>1. CASE k \in DOMAIN schedule /\ schedule'[k] = schedule[k]
    <3>1. Compiled(k)
      BY <1>6, <2>1
    <3> QED
      BY <1>3, <1>4, <2>1, <3>1 DEF Compiled, IsValid
  <2>2. CASE schedule'[k] = task
    BY <1>3, <1>4, <1>5, <1>12, <2>2 DEF Compiled, IsValid, comp
  <2> QED
    BY <1>11, <2>1, <2>2
<1> QED
  BY <1>p, <1>11, <1>12 DEF Tables

\* Reshards add their tasks.
LEMMA AddReshardTasksTables ==
  ASSUME SInv, Tables, NEW ops, Scheduling(ops),
         NEW R, R \subseteq {u \in Ids(program) : Op(program, u) = "reshard"},
         AddReshardTasks(R), UNCHANGED <<nameVars, phase, stores, last_use, modules>>
  PROVE  Tables'
<1>1. program \in Programs /\ phase = "schedule"
  BY SchedulingFacts
<1>2. PICK t : /\ \E T : t \in Seq(T)
               /\ schedule' = schedule \o t
               /\ \A k \in DOMAIN t : /\ t[k] = Reshard(t[k].op) /\ t[k].op \in R
                                      /\ ~HasOp(schedule, t[k].op)
               /\ \A u \in R : HasOp(schedule, u) \/ HasOp(t, u)
               /\ \A j, k \in DOMAIN t : j < k => t[j].op < t[k].op
               /\ \A j, k \in DOMAIN t : t[j].op = t[k].op => j = k
  BY <1>1, ReshardsAppended
<1>3. PICK T : t \in Seq(T)
  BY <1>2
<1>4. \A k \in DOMAIN t : t[k] = TaskOf(t[k].op) /\ Op(program, t[k].op) = "reshard"
  BY <1>2 DEF TaskOf
<1>5. UNCHANGED <<program, name, stores, last_use>>
  BY DEF nameVars
<1>6. /\ (\A k \in DOMAIN schedule : schedule[k] = TaskOf(schedule[k].op))'
      /\ StoresAssigned'
      /\ \A k \in DOMAIN schedule' :
             \/ k \in DOMAIN schedule /\ schedule'[k] = schedule[k]
             \/ \E j \in DOMAIN t : schedule'[k] = t[j]
  BY <1>1, <1>2, <1>3, <1>4, <1>5, TasksAppended
<1>7. ASSUME NEW k \in DOMAIN schedule' PROVE Compiled(k)'
  <2>1. CASE k \in DOMAIN schedule /\ schedule'[k] = schedule[k]
    <3>1. Compiled(k)
      BY <1>1, <2>1 DEF Tables
    <3> QED
      BY <1>5, <2>1, <3>1 DEF Compiled, IsValid
  <2>2. CASE \E j \in DOMAIN t : schedule'[k] = t[j]
    BY <1>4, <1>5, <2>2 DEF Compiled
  <2> QED
    BY <1>6, <2>1, <2>2
<1> QED
  BY <1>1, <1>6, <1>7 DEF Tables

\* Steps that leave the schedule and the modules alone.
LEMMA ScheduleUnchangedTables ==
  ASSUME Tables, UNCHANGED <<program, name, schedule, modules, stores, last_use>>
  PROVE  /\ (phase # "name" => StoresAssigned')
         /\ (\A k \in DOMAIN schedule : schedule[k] = TaskOf(schedule[k].op))'
         /\ (phase # "error" => \A k \in DOMAIN schedule' : Compiled(k)')
         /\ \A j : RootWrites(j)' = RootWrites(j)
         /\ \A k : RootStore(k)' = RootStore(k)
<1>1. phase # "name" => StoresAssigned'
  BY TablesKept DEF Tables
<1>2. \A i : TaskOf(i)' = TaskOf(i)
  BY TablesKept
<1>3. \A k \in DOMAIN schedule' : schedule'[k] = TaskOf(schedule[k].op)
  BY DEF Tables
<1>4. (\A k \in DOMAIN schedule : schedule[k] = TaskOf(schedule[k].op))'
  BY <1>2, <1>3
<1>5. ASSUME NEW k PROVE Compiled(k)' <=> Compiled(k)
  BY DEF Compiled, IsValid
<1>6. phase # "error" => \A k \in DOMAIN schedule' : Compiled(k)'
  BY <1>5 DEF Tables
<1>7. ASSUME NEW j PROVE RootWrites(j)' = RootWrites(j)
  BY DEF RootWrites, Store
<1>8. ASSUME NEW k PROVE RootStore(k)' = RootStore(k)
  BY DEF RootStore, RootWrites, OutputAlias, Store
<1> QED
  BY <1>1, <1>4, <1>6, <1>7, <1>8

\* The stores and the last readers are entered before anything is scheduled.
LEMMA AddStoresTables == ASSUME Tables, AddStores PROVE Tables'
<1>1. /\ phase = "name" /\ phase' = "schedule" /\ schedule' = schedule
      /\ UNCHANGED <<program, name>>
      /\ stores' = [x \in SchedulingNames |-> AddStore(x)]
      /\ last_use' = [v \in Values(program) |->
                        IF LastReader(v) = 0 THEN None ELSE program.order[LastReader(v)]]
  BY DEF AddStores, nameVars
<1>2. schedule = <<>>
  BY <1>1 DEF Tables
<1>3. SchedulingNames' = SchedulingNames
  BY <1>1 DEF SchedulingNames
<1>4. (\A x : AddStore(x)' = AddStore(x)) /\ (\A v : LastReader(v)' = LastReader(v))
  BY <1>1, TablesKept
<1>5. StoresAssigned'
  BY <1>1, <1>3, <1>4 DEF StoresAssigned
<1>6. DOMAIN schedule' = {}
  BY <1>1, <1>2
<1> QED
  BY <1>1, <1>5, <1>6 DEF Tables

\* The tables hold what MpmdScheduler and Execute enter into them.
LEMMA TablesInvariance == Spec => []Tables
<1>1. Init => Tables
  BY DEF Init, Tables
<1>2. SInv /\ Tables /\ [Next]_vars => Tables'
  <2> SUFFICES ASSUME SInv, Tables, [Next]_vars PROVE Tables'
    OBVIOUS
  <2>1. CASE AssignNames
    <3>1. phase' = "name" /\ phase = "name" /\ schedule' = schedule
      BY <2>1 DEF AssignNames, scheduleVars
    <3>2. schedule' = <<>> /\ DOMAIN schedule' = {}
      BY <3>1 DEF Tables
    <3> QED
      BY <3>1, <3>2 DEF Tables
  <2>2. CASE PrioritizeReshards
    <3> DEFINE R == {u \in Readers(program, program.order[cursor]) : Op(program, u) = "reshard"}
    <3>1. /\ Scheduling({"gte"}) /\ AddReshardTasks(R)
          /\ UNCHANGED <<nameVars, phase, stores, last_use, modules>>
      BY <2>2 DEF PrioritizeReshards
    <3>2. R \subseteq {u \in Ids(program) : Op(program, u) = "reshard"}
      BY DEF Readers
    <3> HIDE DEF R
    <3> QED
      BY <3>1, <3>2, AddReshardTasksTables
  <2>3. CASE AddReshardTask
    <3> DEFINE R == {program.order[cursor]}
    <3>1. /\ Scheduling({"reshard"}) /\ AddReshardTasks(R)
          /\ UNCHANGED <<nameVars, phase, stores, last_use, modules>>
      BY <2>3 DEF AddReshardTask
    <3>2. R \subseteq {u \in Ids(program) : Op(program, u) = "reshard"}
      BY <3>1, SchedulingFacts
    <3> HIDE DEF R
    <3> QED
      BY <3>1, <3>2, AddReshardTasksTables
  <2>4. CASE PrepareStores
    <3>1. /\ phase = "schedule" /\ phase' = "run"
          /\ UNCHANGED <<program, name, schedule, modules, stores, last_use>>
          /\ rooted' = [k \in {j \in DOMAIN program.roots : RootWrites(j) # {}} |-> RootStore(k)]
      BY <2>4 DEF PrepareStores, nameVars
    <3> QED
      BY <3>1, ScheduleUnchangedTables DEF Tables
  <2>5. CASE ScheduleNothing \/ RunOperation \/ Finished \/ UNCHANGED vars
    <3>1. /\ UNCHANGED <<program, name, schedule, modules, stores, last_use, rooted>>
          /\ phase' = phase \/ (phase = "run" /\ phase' = "done")
      BY <2>5 DEF ScheduleNothing, RunOperation, Finished, vars, scheduleVars, nameVars
    <3>2. /\ (phase # "name" => StoresAssigned')
          /\ (\A k \in DOMAIN schedule : schedule[k] = TaskOf(schedule[k].op))'
          /\ (phase # "error" => \A k \in DOMAIN schedule' : Compiled(k)')
          /\ \A j : RootWrites(j)' = RootWrites(j)
          /\ \A k : RootStore(k)' = RootStore(k)
      BY <3>1, ScheduleUnchangedTables
    <3>3. phase' \in {"run", "done"} =>
            rooted' = [k \in {j \in DOMAIN program.roots : RootWrites(j) # {}} |-> RootStore(k)]'
      BY <3>1, <3>2 DEF Tables
    <3>4. phase' = "name" => schedule' = <<>>
      BY <3>1 DEF Tables
    <3> QED
      BY <3>1, <3>2, <3>3, <3>4 DEF Tables
  <2> QED
    BY <2>1, <2>2, <2>3, <2>4, <2>5, AddHloModuleTaskTables, AddStoresTables DEF Next
<1> QED
  BY <1>1, <1>2, ScheduleInvariance, PTL DEF Spec

-----------------------------------------------------------------------------
(***************************************************************************)
(* A schedule in post order and its tasks.                                 *)
(***************************************************************************)

\* An execution that runs in order.
Running ==
  /\ SInv /\ Settled /\ Tables
  /\ phase \in {"run", "done"} /\ KeepsPostOrder /\ ModulesFit

\* The operations of the program are scheduled once each, in post order.
LEMMA InPostOrder ==
  ASSUME Running
  PROVE  /\ DOMAIN schedule = 1 .. Len(schedule) /\ Len(schedule) \in Nat
         /\ \A i \in Operations(program) : \E k \in DOMAIN schedule : schedule[k].op = i
         /\ \A k \in DOMAIN schedule :
              schedule[k].op \in Operations(program) /\ schedule[k].op \in Ids(program)
         /\ \A j, k \in DOMAIN schedule :
              (j < k <=> Precedes(program, schedule[j].op, schedule[k].op))
         /\ \A j, k \in DOMAIN schedule : schedule[j].op = schedule[k].op => j = k
<1>1. /\ program \in Programs /\ Topological(schedule) /\ Covered /\ KeepsPostOrder
      /\ cursor > Len(program.order) /\ cursor \in 1 .. Len(program.order) + 1
  BY DEF Running, SInv, NameInv, Progress
<1>2. DOMAIN schedule = 1 .. Len(schedule) /\ Len(schedule) \in Nat
  BY <1>1 DEF Topological
<1>3. \A k \in DOMAIN schedule :
        schedule[k].op \in Operations(program) /\ schedule[k].op \in Ids(program)
  BY <1>1 DEF Topological, Operations
<1>4. \A j, k \in DOMAIN schedule : schedule[j].op = schedule[k].op => j = k
  BY <1>1 DEF Topological
<1>5. ASSUME NEW i \in Operations(program)
      PROVE  \E k \in DOMAIN schedule : schedule[k].op = i
  <2>1. i \in Ids(program)
    BY DEF Operations
  <2>2. PICK k \in DOMAIN program.order : k \in Nat \ {0} /\ program.order[k] = i
    BY <1>1, <2>1, HasPlace
  <2>3. k \in 1 .. cursor - 1
    BY <1>1, <2>2, OrderIsSequence
  <2> QED
    BY <1>1, <2>2, <2>3 DEF Covered, HasOp
<1>6. ASSUME NEW j \in DOMAIN schedule, NEW k \in DOMAIN schedule
      PROVE  j < k <=> Precedes(program, schedule[j].op, schedule[k].op)
  <2>1. CASE j < k
    BY <1>1, <2>1 DEF KeepsPostOrder
  <2>2. CASE k < j
    <3>1. Precedes(program, schedule[k].op, schedule[j].op)
      BY <1>1, <2>2 DEF KeepsPostOrder
    <3> QED
      BY <1>1, <1>2, <1>3, <2>2, <3>1, OneComesFirst
  <2>3. CASE j = k
    BY <1>1, <1>2, <1>3, <2>3, OneComesFirst
  <2> QED
    BY <1>2, <2>1, <2>2, <2>3
<1> QED
  BY <1>2, <1>3, <1>4, <1>5, <1>6

\* The outputs of a call, in the order of their numbers.
LEMMA SortedUsersFacts ==
  ASSUME program \in Programs, NEW c \in Operations(program), Op(program, c) = "call"
  PROVE  /\ DOMAIN SortedUsers(c) = 1 .. Cardinality(Outputs(program, c))
         /\ Cardinality(Outputs(program, c)) \in 0 .. Cardinality(Ids(program))
         /\ Cardinality(Ids(program)) \in Nat
         /\ \A j \in DOMAIN SortedUsers(c) : SortedUsers(c)[j] \in Outputs(program, c)
         /\ \A j, k \in DOMAIN SortedUsers(c) : SortedUsers(c)[j] = SortedUsers(c)[k] => j = k
         /\ \A w \in Outputs(program, c) : \E j \in DOMAIN SortedUsers(c) : SortedUsers(c)[j] = w
<1> DEFINE U == Outputs(program, c)
           N == Cardinality(U)
<1>1. IsFlat(program) /\ IsFiniteSet(Ids(program))
  BY ProgramsAssumption
<1>2. c \in Ids(program) /\ U = Readers(program, c) /\ U \subseteq Ids(program)
  BY DEF Operations, Outputs, Readers
<1>3. IsNumbered(program, U)
  BY <1>1, <1>2 DEF IsFlat
<1>4. IsFiniteSet(U) /\ N <= Cardinality(Ids(program))
  <2> HIDE DEF U
  <2> QED
    BY <1>1, <1>2, FS_Subset
<1>5. N \in Nat /\ Cardinality(Ids(program)) \in Nat
  <2> HIDE DEF U
  <2> QED
    BY <1>1, <1>4, FS_CardinalityType
<1>6. SortedUsers(c) = [k \in 1 .. N |-> CHOOSE g \in U : program.n[g].index = k - 1]
  BY DEF SortedUsers
<1> HIDE DEF U, N
<1>7. /\ \A g, h \in U : program.n[g].index = program.n[h].index => g = h
      /\ {program.n[g].index : g \in U} = 0 .. N - 1
  BY <1>3 DEF IsNumbered, N
<1>8. ASSUME NEW k \in 1 .. N
      PROVE  SortedUsers(c)[k] \in U /\ program.n[SortedUsers(c)[k]].index = k - 1
  <2>1. k - 1 \in {program.n[g].index : g \in U}
    BY <1>5, <1>7
  <2>2. \E g \in U : program.n[g].index = k - 1
    BY <2>1
  <2> QED
    BY <1>6, <2>2
<1>9. ASSUME NEW w \in U PROVE \E j \in 1 .. N : SortedUsers(c)[j] = w
  <2>1. PICK m \in 0 .. N - 1 : program.n[w].index = m
    BY <1>7
  <2>2. m + 1 \in 1 .. N /\ (m + 1) - 1 = m
    BY <1>5, <2>1
  <2>3. SortedUsers(c)[m + 1] = w
    BY <1>7, <1>8, <2>1, <2>2
  <2> QED
    BY <2>2, <2>3
<1>10. \A j, k \in 1 .. N : SortedUsers(c)[j] = SortedUsers(c)[k] => j = k
  <2> SUFFICES ASSUME NEW j \in 1 .. N, NEW k \in 1 .. N, SortedUsers(c)[j] = SortedUsers(c)[k]
               PROVE  j = k
    OBVIOUS
  <2>1. j - 1 = k - 1
    BY <1>8
  <2> QED
    BY <1>5, <2>1
<1>11. DOMAIN SortedUsers(c) = 1 .. N
  BY <1>6
<1> QED
  BY <1>4, <1>5, <1>8, <1>9, <1>10, <1>11 DEF U, N

\* What a task writes: the stores of the outputs of its operation.
LEMMA TaskOutputs ==
  ASSUME Running, NEW k \in DOMAIN schedule, NEW task, task = schedule[k]
  PROVE  /\ DOMAIN task.outputs = 1 .. Len(task.outputs) /\ Len(task.outputs) \in Nat
         /\ \A j \in DOMAIN task.outputs :
              /\ j \in 1 .. Cardinality(Ids(program))
              /\ OutputValue(task, j) \in Outputs(program, task.op)
              /\ task.outputs[j] = GetStore(OutputValue(task, j))
         /\ \A j, l \in DOMAIN task.outputs : OutputValue(task, j) = OutputValue(task, l) => j = l
         /\ \A w \in Outputs(program, task.op) :
              \E j \in DOMAIN task.outputs : OutputValue(task, j) = w
<1>1. /\ program \in Programs /\ task.op \in Operations(program)
      /\ task = TaskOf(task.op) /\ task.op \in Ids(program)
  BY InPostOrder DEF Running, Settled, Tables
<1>2. CASE Op(program, task.op) = "call"
  <2> DEFINE c == task.op
             N == Cardinality(Outputs(program, c))
  <2>1. task = SpmdHloModuleTask(c)
    BY <1>1, <1>2 DEF TaskOf
  <2>2. task.outputs = [j \in DOMAIN SortedUsers(c) |-> GetStore(SortedUsers(c)[j])]
    BY <2>1 DEF SpmdHloModuleTask
  <2>3. \A j : OutputValue(task, j) = SortedUsers(c)[j]
    BY <1>2 DEF OutputValue
  <2>4. /\ DOMAIN SortedUsers(c) = 1 .. N /\ N \in 0 .. Cardinality(Ids(program))
        /\ Cardinality(Ids(program)) \in Nat
        /\ \A j \in DOMAIN SortedUsers(c) : SortedUsers(c)[j] \in Outputs(program, c)
        /\ \A j, l \in DOMAIN SortedUsers(c) : SortedUsers(c)[j] = SortedUsers(c)[l] => j = l
        /\ \A w \in Outputs(program, c) : \E j \in DOMAIN SortedUsers(c) : SortedUsers(c)[j] = w
    BY <1>1, <1>2, SortedUsersFacts
  <2> HIDE DEF N, c
  <2>5. DOMAIN task.outputs = 1 .. N /\ Len(task.outputs) = N /\ N \in Nat
    BY <2>2, <2>4
  <2> QED
    BY <2>2, <2>3, <2>4, <2>5 DEF c
<1>3. CASE Op(program, task.op) # "call"
  <2>1. task = Reshard(task.op)
    BY <1>1, <1>3 DEF TaskOf
  <2>2. task.outputs = <<GetStore(task.op)>>
    BY <2>1 DEF Reshard
  <2>3. DOMAIN task.outputs = {1} /\ Len(task.outputs) = 1 /\ {1} = 1 .. 1
    BY <2>2
  <2>4. \A j : OutputValue(task, j) = task.op
    BY <1>3 DEF OutputValue
  <2>5. Outputs(program, task.op) = {task.op}
    BY <1>3 DEF Outputs
  <2>6. 1 \in 1 .. Cardinality(Ids(program))
    <3>1. IsFiniteSet(Ids(program)) /\ Ids(program) # {}
      BY <1>1, ProgramsAssumption
    <3>2. Cardinality(Ids(program)) \in Nat /\ Cardinality(Ids(program)) # 0
      BY <3>1, FS_CardinalityType, FS_EmptySet
    <3> QED
      BY <3>2
  <2>7. \A j \in DOMAIN task.outputs : j = 1 /\ task.outputs[j] = GetStore(task.op)
    BY <2>2, <2>3
  <2> QED
    BY <2>3, <2>4, <2>5, <2>6, <2>7
<1> QED
  BY <1>2, <1>3

\* What a task reads: the stores of the operands that are values.
LEMMA TaskInputs ==
  ASSUME Running, NEW k \in DOMAIN schedule, NEW task, task = schedule[k],
         NEW m \in DOMAIN task.inputs
  PROVE  /\ m \in DOMAIN program.n[task.op].in
         /\ program.n[task.op].in[m] \in Elements(program.n[task.op].in)
         /\ \/ Op(program, program.n[task.op].in[m]) = "offset" /\ task.inputs[m] = SliceOffset
            \/ /\ Op(program, program.n[task.op].in[m]) # "offset"
               /\ program.n[task.op].in[m] \in Values(program)
               /\ task.inputs[m] = GetStore(program.n[task.op].in[m])
<1>1. /\ program \in Programs /\ task.op \in Operations(program)
      /\ task = TaskOf(task.op) /\ task.op \in Ids(program)
  BY InPostOrder DEF Running, Settled, Tables
<1>2. CASE Op(program, task.op) = "call"
  <2>1. task = SpmdHloModuleTask(task.op)
    BY <1>1, <1>2 DEF TaskOf
  <2>2. task.inputs = [l \in DOMAIN program.n[task.op].in |->
                         IF Op(program, program.n[task.op].in[l]) = "offset" THEN SliceOffset
                         ELSE GetStore(program.n[task.op].in[l])]
    BY <2>1 DEF SpmdHloModuleTask
  <2>3. m \in DOMAIN program.n[task.op].in
    BY <2>2
  <2>4. program.n[task.op].in[m] \in Elements(program.n[task.op].in)
    BY <2>3 DEF Elements
  <2> QED
    BY <1>1, <2>2, <2>3, <2>4, OperandsAreValues
<1>3. CASE Op(program, task.op) # "call"
  <2>1. task = Reshard(task.op) /\ Op(program, task.op) = "reshard"
    BY <1>1, <1>3 DEF TaskOf, Operations
  <2>2. task.inputs = <<GetStore(program.n[task.op].in[1])>>
    BY <2>1 DEF Reshard
  <2>3. m = 1
    BY <2>2
  <2>4. PICK v \in Values(program) : program.n[task.op].in = <<v>>
    BY <1>1, <2>1, ProgramsAssumption DEF IsFlat
  <2>5. Op(program, v) # "offset"
    BY DEF Values
  <2> QED
    BY <2>2, <2>3, <2>4, <2>5 DEF Elements
<1> QED
  BY <1>2, <1>3

-----------------------------------------------------------------------------
(***************************************************************************)
(* Aliases and the stores of the results.                                  *)
(***************************************************************************)

\* Output j of the task at t is the first to be written to the store of a result.
FirstWrite(index, t, j) ==
  /\ t \in DOMAIN schedule /\ j \in DOMAIN schedule[t].outputs
  /\ schedule[t].outputs[j] = Store("ROOT", index)
  /\ \A s \in DOMAIN schedule : \A l \in DOMAIN schedule[s].outputs :
       schedule[s].outputs[l] = Store("ROOT", index) => t < s \/ (t = s /\ j <= l)

\* The inputs whose memory output j of the task at t may take.
DonatedTo(t, j) == {m \in OutputAlias(schedule[t], j) : schedule[t].inputs[m].type = "PARAM"}

\* The first write decides where a result is.
LEMMA RootStoreFacts ==
  ASSUME Running, NEW index, RootWrites(index) # {}
  PROVE  \E t, j : /\ FirstWrite(index, t, j)
                   /\ DonatedTo(t, j) = {} => RootStore(index) = Store("ROOT", index)
                   /\ DonatedTo(t, j) # {} => \E m \in DonatedTo(t, j) :
                                                RootStore(index) = schedule[t].inputs[m]
<1> DEFINE W == RootWrites(index)
           Least(x) == \A y \in W : x[1] < y[1] \/ (x[1] = y[1] /\ x[2] <= y[2])
           T == {y[1] : y \in W}
<1>1. /\ DOMAIN schedule = 1 .. Len(schedule) /\ Len(schedule) \in Nat
  BY InPostOrder
<1>2. \A y \in W : /\ y = <<y[1], y[2]>> /\ y[1] \in Nat /\ y[2] \in Nat
                   /\ y[1] \in DOMAIN schedule /\ y[2] \in DOMAIN schedule[y[1]].outputs
                   /\ schedule[y[1]].outputs[y[2]] = Store("ROOT", index)
  BY <1>1 DEF RootWrites
<1>3. ASSUME NEW s \in DOMAIN schedule, NEW l \in DOMAIN schedule[s].outputs,
             schedule[s].outputs[l] = Store("ROOT", index)
      PROVE  <<s, l>> \in W
  <2>1. l \in 1 .. Cardinality(Ids(program))
    BY TaskOutputs
  <2> QED
    BY <1>3, <2>1 DEF RootWrites
<1>4. RootStore(index) = LET w    == CHOOSE x \in W : Least(x)
                             task == schedule[w[1]]
                             don  == {m \in OutputAlias(task, w[2]) : task.inputs[m].type = "PARAM"}
                         IN  IF don = {} THEN Store("ROOT", index)
                             ELSE task.inputs[CHOOSE m \in don : TRUE]
  BY DEF RootStore
<1> HIDE DEF W
<1>5. PICK t \in T : \A s \in T : t <= s
  <2>1. T \subseteq Nat /\ T # {}
    BY <1>2 DEF W
  <2> HIDE DEF T
  <2> QED
    BY <2>1, LeastNumber
<1> DEFINE J == {y[2] : y \in {z \in W : z[1] = t}}
<1>6. PICK j \in J : \A l \in J : j <= l
  <2>1. J \subseteq Nat /\ J # {}
    BY <1>2, <1>5
  <2> HIDE DEF J
  <2> QED
    BY <2>1, LeastNumber
<1>7. PICK z \in W : z[1] = t /\ z[2] = j
  BY <1>6
<1>8. Least(z)
  <2> SUFFICES ASSUME NEW y \in W
               PROVE  z[1] < y[1] \/ (z[1] = y[1] /\ z[2] <= y[2])
    OBVIOUS
  <2>1. y[1] \in Nat /\ z[1] \in Nat /\ t <= y[1]
    BY <1>2, <1>5
  <2>2. CASE y[1] = t
    BY <1>6, <1>7, <2>2
  <2>3. CASE y[1] # t
    BY <1>7, <2>1, <2>3
  <2> QED
    BY <2>2, <2>3
<1> DEFINE w == CHOOSE x \in W : Least(x)
<1>9. w \in W /\ Least(w)
  BY <1>8
<1>10. /\ DonatedTo(w[1], w[2]) = {} => RootStore(index) = Store("ROOT", index)
       /\ DonatedTo(w[1], w[2]) # {} => \E m \in DonatedTo(w[1], w[2]) :
                                          RootStore(index) = schedule[w[1]].inputs[m]
  BY <1>4 DEF DonatedTo
<1> HIDE DEF w
<1>11. FirstWrite(index, w[1], w[2])
  <2>1. ASSUME NEW s \in DOMAIN schedule, NEW l \in DOMAIN schedule[s].outputs,
               schedule[s].outputs[l] = Store("ROOT", index)
        PROVE  w[1] < s \/ (w[1] = s /\ w[2] <= l)
    <3>1. <<s, l>> \in W
      BY <1>3, <2>1
    <3> QED
      BY <1>9, <3>1
  <2> QED
    BY <1>2, <1>9, <2>1 DEF FirstWrite
<1> QED
  BY <1>10, <1>11

\* The aliases of a module: of names, or of a parameter that is read for the last time with
\* a result.
LEMMA AliasFacts ==
  ASSUME Running, NEW t \in DOMAIN schedule, NEW task, task = schedule[t],
         Op(program, task.op) = "call",
         NEW a \in modules[program.n[task.op].comp]
  PROVE  /\ a = <<a[1], a[2]>> /\ a[1] \in DOMAIN task.outputs /\ a[2] \in DOMAIN task.inputs
         /\ \/ task.inputs[a[2]] = task.outputs[a[1]]
            \/ a[2] \in LastUsedParams(task) /\ task.outputs[a[1]].type = "ROOT"
<1> DEFINE M == modules[program.n[task.op].comp]
           set == UserAliases(task) \cup NameAliases(task)
<1>1. /\ program \in Programs /\ task.op \in Operations(program)
      /\ task = SpmdHloModuleTask(task.op)
  BY InPostOrder DEF Running, Settled, Tables, TaskOf
<1>2. /\ task.outputs = [j \in DOMAIN SortedUsers(task.op) |-> GetStore(SortedUsers(task.op)[j])]
      /\ task.inputs = [k \in DOMAIN program.n[task.op].in |->
                          IF Op(program, program.n[task.op].in[k]) = "offset" THEN SliceOffset
                          ELSE GetStore(program.n[task.op].in[k])]
  BY <1>1 DEF SpmdHloModuleTask
<1>3. PICK best \in BestMatches(task, set) : M = set \cup best \cup SizeMatches(task, set \cup best)
  <2>1. M \in AliasConfigs(task)
    BY DEF Running, ModulesFit
  <2> QED
    BY <2>1 DEF AliasConfigs
<1>4. CASE a \in NameAliases(task)
  <2>1. a \in {b \in (DOMAIN SortedUsers(task.op)) \X (DOMAIN program.n[task.op].in) :
                 /\ Op(program, program.n[task.op].in[b[2]]) # "offset"
                 /\ name[SortedUsers(task.op)[b[1]]] = name[program.n[task.op].in[b[2]]]}
    BY <1>4, Zenon DEF NameAliases
  <2>2. a \in (DOMAIN SortedUsers(task.op)) \X (DOMAIN program.n[task.op].in)
    BY <2>1
  <2>3. /\ a = <<a[1], a[2]>>
        /\ a[1] \in DOMAIN SortedUsers(task.op) /\ a[2] \in DOMAIN program.n[task.op].in
    BY <2>2
  <2>4. /\ Op(program, program.n[task.op].in[a[2]]) # "offset"
        /\ name[SortedUsers(task.op)[a[1]]] = name[program.n[task.op].in[a[2]]]
    BY <2>1
  <2>5. a[1] \in DOMAIN task.outputs /\ a[2] \in DOMAIN task.inputs
    BY <1>2, <2>3
  <2>6. task.outputs[a[1]] = GetStore(SortedUsers(task.op)[a[1]])
    BY <1>2, <2>3
  <2>7. task.inputs[a[2]] = GetStore(program.n[task.op].in[a[2]])
    BY <1>2, <2>3, <2>4
  <2>8. GetStore(SortedUsers(task.op)[a[1]]) = GetStore(program.n[task.op].in[a[2]])
    BY <2>4 DEF GetStore
  <2> QED
    BY <2>3, <2>5, <2>6, <2>7, <2>8
<1>5. CASE a \in UserAliases(task)
  <2>1. /\ a \in (DOMAIN task.outputs) \X LastUsedParams(task)
        /\ \E n : task.outputs[a[1]] = Store("ROOT", n)
    BY <1>5 DEF UserAliases
  <2>2. a = <<a[1], a[2]>> /\ a[1] \in DOMAIN task.outputs /\ a[2] \in LastUsedParams(task)
    BY <2>1
  <2>3. a[2] \in DOMAIN task.inputs
    BY <2>2 DEF LastUsedParams
  <2> QED
    BY <2>1, <2>2, <2>3, StoreFields
<1>6. ASSUME NEW b, b \in {set, set \cup best},
             a = <<a[1], a[2]>>, a[1] \in Donees(task, b), a[2] \in Donors(task)
      PROVE  /\ a[1] \in DOMAIN task.outputs /\ a[2] \in DOMAIN task.inputs
             /\ a[2] \in LastUsedParams(task) /\ task.outputs[a[1]].type = "ROOT"
  <2>1. a[1] \in DOMAIN task.outputs /\ task.outputs[a[1]].type # "TEMP"
    BY <1>6 DEF Donees
  <2>2. a[2] \in LastUsedParams(task) /\ a[2] \in DOMAIN task.inputs
    BY <1>6 DEF Donors, LastUsedParams
  <2>3. /\ OutputValue(task, a[1]) \in Outputs(program, task.op)
        /\ task.outputs[a[1]] = GetStore(OutputValue(task, a[1]))
    BY <2>1, TaskOutputs
  <2>4. /\ OutputValue(task, a[1]) \in Values(program)
        /\ Op(program, OutputValue(task, a[1])) # "parameter"
    BY <1>1, <2>3, OutputFacts
  <2>5. task.outputs[a[1]].type = "ROOT"
    BY <2>1, <2>3, <2>4, StoreKinds DEF Running, Tables
  <2> QED
    BY <2>1, <2>2, <2>5
<1>7. CASE a \in best
  <2> DEFINE pairs == {b \in Donees(task, set) \X (Donors(task) \ AliasedInputs(set)) :
                         OutputShape(task, b[1]) = InputShape(task, b[2])}
  <2>1. best \in SUBSET pairs
    BY <1>3, Zenon DEF BestMatches
  <2>2. a \in Donees(task, set) \X (Donors(task) \ AliasedInputs(set))
    BY <1>7, <2>1
  <2>3. a = <<a[1], a[2]>> /\ a[1] \in Donees(task, set) /\ a[2] \in Donors(task)
    BY <2>2
  <2> QED
    BY <1>6, <2>3
<1>8. CASE a \in SizeMatches(task, set \cup best)
  <2>1. a = <<a[1], a[2]>> /\ a[1] \in Donees(task, set \cup best) /\ a[2] \in Donors(task)
    BY <1>8 DEF SizeMatches
  <2> QED
    BY <1>6, <2>1
<1> QED
  BY <1>3, <1>4, <1>5, <1>7, <1>8

\* No output and no input is aliased twice.
LEMMA AliasesDiffer ==
  ASSUME Running, NEW t \in DOMAIN schedule, Op(program, schedule[t].op) = "call"
  PROVE  \A a, b \in modules[program.n[schedule[t].op].comp] :
           a # b => a[1] # b[1] /\ a[2] # b[2]
BY DEF Running, Tables, Compiled, IsValid

\* The aliases of the outputs of a task.
LEMMA OutputAliasFacts ==
  ASSUME Running, NEW t \in DOMAIN schedule, NEW task, task = schedule[t], NEW j,
         NEW m \in OutputAlias(task, j)
  PROVE  /\ Op(program, task.op) = "call" /\ <<j, m>> \in modules[program.n[task.op].comp]
         /\ j \in DOMAIN task.outputs /\ m \in DOMAIN task.inputs
         /\ \/ task.inputs[m] = task.outputs[j]
            \/ m \in LastUsedParams(task) /\ task.outputs[j].type = "ROOT"
         /\ \A l \in OutputAlias(task, j) : l = m
<1>1. Op(program, task.op) = "call"
  BY DEF OutputAlias
<1>2. ASSUME NEW l \in OutputAlias(task, j)
      PROVE  /\ <<j, l>> \in modules[program.n[task.op].comp]
             /\ j \in DOMAIN task.outputs /\ l \in DOMAIN task.inputs
             /\ \/ task.inputs[l] = task.outputs[j]
                \/ l \in LastUsedParams(task) /\ task.outputs[j].type = "ROOT"
  <2>1. PICK a \in modules[program.n[task.op].comp] : a[1] = j /\ a[2] = l
    BY <1>1 DEF OutputAlias
  <2> QED
    BY <1>1, <2>1, AliasFacts
<1>3. ASSUME NEW l \in OutputAlias(task, j) PROVE l = m
  <2>1. /\ <<j, l>> \in modules[program.n[task.op].comp]
        /\ <<j, m>> \in modules[program.n[task.op].comp]
    BY <1>2
  <2>2. <<j, l>>[1] = <<j, m>>[1]
    OBVIOUS
  <2>3. <<j, l>> = <<j, m>>
    BY <1>1, <2>1, <2>2, AliasesDiffer
  <2> QED
    BY <2>3
<1> QED
  BY <1>1, <1>2, <1>3

\* A call that computes a value of a chain writes it over the one before.
LEMMA ChainedOutputs ==
  ASSUME Running, NEW t \in DOMAIN schedule, NEW task, task = schedule[t],
         Op(program, task.op) = "call", NEW j \in DOMAIN task.outputs,
         NEW w, w = OutputValue(task, j), program.n[w].name # None,
         Forerunners(program, w, task.op) # {}
  PROVE  \E m \in OutputAlias(task, j) : task.inputs[m] = task.outputs[j]
<1> DEFINE users == SortedUsers(task.op)
           in == program.n[task.op].in
           Pairs == {a \in (DOMAIN users) \X (DOMAIN in) :
                       Op(program, in[a[2]]) # "offset" /\ name[users[a[1]]] = name[in[a[2]]]}
<1>1. /\ program \in Programs /\ task.op \in Operations(program) /\ task.op \in Ids(program)
      /\ task = SpmdHloModuleTask(task.op) /\ IsWellNamed(program) /\ PresetsKept
  BY InPostOrder DEF Running, Settled, Tables, TaskOf
<1>2. in \in Seq(Ids(program))
  BY <1>1, ProgramsAssumption DEF IsFlat
<1>3. /\ w \in Outputs(program, task.op) /\ w \in Values(program) /\ w \in Ids(program)
      /\ users[j] = w
  BY <1>1, TaskOutputs, OutputFacts DEF OutputValue
<1>4. DOMAIN task.outputs = DOMAIN users
  BY <1>1 DEF SpmdHloModuleTask
<1>5. /\ \A v \in Forerunners(program, w, task.op) : v \notin Outputs(program, task.op)
      /\ \E v \in Elements(in) : program.n[v].name = program.n[w].name
  BY <1>1, <1>3 DEF Running, Settled, IsChained
<1>6. PICK k \in DOMAIN in : program.n[in[k]].name = program.n[w].name
  BY <1>5 DEF Elements
<1>7. in[k] \in Ids(program)
  BY <1>2
<1>8. Op(program, in[k]) # "offset" /\ name[in[k]] = name[w] /\ name[w] = program.n[w].name
  <2>1. Op(program, in[k]) \in {"gte", "reshard"}
    BY <1>1, <1>6, <1>7 DEF IsWellNamed
  <2>2. name[in[k]] = program.n[in[k]].name /\ name[w] = program.n[w].name
    BY <1>1, <1>3, <1>6, <1>7 DEF PresetsKept
  <2> QED
    BY <1>6, <2>1, <2>2
<1>9. IsPreset(name[w])
  BY <1>3, <1>8 DEF IsPreset, PresetNames
<1>10. NameAliases(task) = {a \in Pairs : \A b \in Pairs : /\ b[1] = a[1] => b[2] <= a[2]
                                                           /\ b[2] = a[2] => b[1] <= a[1]}
  BY DEF NameAliases
<1>11. \A a : a \in Pairs <=> /\ a \in (DOMAIN users) \X (DOMAIN in)
                              /\ Op(program, in[a[2]]) # "offset"
                              /\ name[users[a[1]]] = name[in[a[2]]]
  OBVIOUS
<1>12. ASSUME NEW m
       PROVE  <<j, m>> \in Pairs <=> /\ m \in DOMAIN in /\ Op(program, in[m]) # "offset"
                                    /\ name[in[m]] = name[w]
  <2> HIDE DEF Pairs
  <2>1. <<j, m>> \in (DOMAIN users) \X (DOMAIN in) <=> m \in DOMAIN in
    BY <1>4
  <2>2. <<j, m>>[1] = j /\ <<j, m>>[2] = m
    OBVIOUS
  <2> QED
    BY <1>3, <1>11, <2>1, <2>2
<1>13. ASSUME NEW b \in Pairs
       PROVE  b = <<b[1], b[2]>> /\ b[1] \in DOMAIN users /\ b[2] \in DOMAIN in
  <2> HIDE DEF Pairs
  <2>1. b \in (DOMAIN users) \X (DOMAIN in)
    BY <1>11
  <2> QED
    BY <2>1
<1> HIDE DEF Pairs
<1> DEFINE T == {m \in DOMAIN in : <<j, m>> \in Pairs}
<1>14. PICK m \in T : \A n \in T : n <= m
  <2>1. DOMAIN in = 1 .. Len(in) /\ Len(in) \in Nat
    BY <1>2
  <2>2. IsFiniteSet(1 .. Len(in))
    BY <2>1, FS_Interval
  <2>3. T \subseteq 1 .. Len(in) /\ k \in T
    BY <1>6, <1>8, <1>12, <2>1
  <2> HIDE DEF T
  <2>4. IsFiniteSet(T)
    BY <2>2, <2>3, FS_Subset
  <2>5. T \subseteq Nat
    BY <2>3
  <2> QED
    BY <2>3, <2>4, <2>5, GreatestNumber
<1>15. <<j, m>> \in NameAliases(task)
  <2> SUFFICES ASSUME NEW b \in Pairs
               PROVE  /\ b[1] = j => b[2] <= m
                      /\ b[2] = m => b[1] <= j
    BY <1>10, <1>14
  <2>1. b = <<b[1], b[2]>> /\ b[1] \in DOMAIN users /\ b[2] \in DOMAIN in
    BY <1>13
  <2>2. CASE b[1] = j
    <3>1. b[2] \in T
      BY <2>1, <2>2
    <3>2. j <= j
      BY TaskOutputs
    <3> QED
      BY <1>14, <2>2, <3>1, <3>2
  <2>3. CASE b[1] # j /\ b[2] = m
    <3>1. /\ users[b[1]] \in Outputs(program, task.op) /\ users[b[1]] # w
          /\ users[b[1]] \in Values(program) /\ users[b[1]] \in Ids(program)
      BY <1>1, <1>3, <1>4, <2>1, <2>3, SortedUsersFacts, OutputFacts
    <3>2. name[users[b[1]]] = name[w]
      <4>1. name[in[m]] = name[w]
        BY <1>12, <1>14
      <4>2. name[users[b[1]]] = name[in[b[2]]]
        BY <1>11 DEF Pairs
      <4> QED
        BY <2>3, <4>1, <4>2
    <3>3. program.n[users[b[1]]].name = program.n[w].name
      BY <1>1, <1>8, <1>9, <3>1, <3>2 DEF PresetsKept
    <3>4. ComputedBy(program, users[b[1]], task.op)
      BY <1>1, <3>1 DEF ComputedBy
    <3>5. users[b[1]] \in Forerunners(program, w, task.op)
      BY <3>1, <3>3, <3>4 DEF Forerunners
    <3> QED
      BY <1>5, <3>1, <3>5
  <2> QED
    BY <2>2, <2>3
<1>16. <<j, m>> \in modules[program.n[task.op].comp]
  <2>1. modules[program.n[task.op].comp] \in AliasConfigs(task)
    BY DEF Running, ModulesFit
  <2> QED
    BY <1>15, <2>1 DEF AliasConfigs
<1>17. m \in OutputAlias(task, j)
  <2>1. <<j, m>>[1] = j /\ <<j, m>>[2] = m
    OBVIOUS
  <2> QED
    BY <1>16, <2>1 DEF OutputAlias
<1>18. task.inputs[m] = task.outputs[j]
  <2>1. m \in DOMAIN in /\ Op(program, in[m]) # "offset" /\ name[in[m]] = name[w]
    BY <1>12, <1>14
  <2>2. task.inputs[m] = GetStore(in[m])
    BY <1>1, <2>1 DEF SpmdHloModuleTask
  <2>3. task.outputs[j] = GetStore(w)
    BY TaskOutputs
  <2>4. GetStore(in[m]) = GetStore(w)
    BY <2>1 DEF GetStore
  <2> QED
    BY <2>2, <2>3, <2>4
<1> QED
  BY <1>17, <1>18

\* A parameter whose memory an output takes is read by no operation after that.
LEMMA DonatedFacts ==
  ASSUME Running, NEW t, NEW j, t \in DOMAIN schedule, NEW m \in DonatedTo(t, j),
         NEW u, u = program.n[schedule[t].op].in[m]
  PROVE  /\ m \in OutputAlias(schedule[t], j)
         /\ u \in Values(program) /\ Op(program, u) = "parameter"
         /\ u \in Elements(program.n[schedule[t].op].in)
         /\ schedule[t].inputs[m] = GetStore(u) /\ GetStore(u).type = "PARAM"
         /\ m \in DOMAIN program.n[schedule[t].op].in
         /\ last_use[u] = schedule[t].op
         /\ \A i \in Operations(program) :
              u \in Elements(program.n[i].in) => ~Precedes(program, schedule[t].op, i)
<1> DEFINE task == schedule[t]
<1>1. /\ Settled /\ StoresAssigned /\ program \in Programs
      /\ task.op \in Operations(program)
  BY InPostOrder DEF Running, Settled, Tables
<1>2. m \in OutputAlias(task, j) /\ task.inputs[m].type = "PARAM"
  BY DEF DonatedTo
<1>3. /\ j \in DOMAIN task.outputs /\ m \in DOMAIN task.inputs
      /\ task.inputs[m] = task.outputs[j] \/ m \in LastUsedParams(task)
  BY <1>2, OutputAliasFacts
<1>4. /\ m \in DOMAIN program.n[task.op].in /\ u \in Elements(program.n[task.op].in)
      /\ u \in Values(program) /\ task.inputs[m] = GetStore(u)
  <2>1. SliceOffset.type = "TEMP"
    BY StoreFields DEF SliceOffset
  <2> QED
    BY <1>2, <1>3, <2>1, TaskInputs
<1>5. Op(program, u) = "parameter"
  BY <1>1, <1>2, <1>4, StoreKinds
<1>6. task.inputs[m] # task.outputs[j]
  <2>1. /\ OutputValue(task, j) \in Outputs(program, task.op)
        /\ task.outputs[j] = GetStore(OutputValue(task, j))
    BY <1>3, TaskOutputs
  <2>2. OutputValue(task, j) \in Values(program) /\ Op(program, OutputValue(task, j)) # "parameter"
    BY <1>1, <2>1, OutputFacts
  <2>3. task.outputs[j].type # "PARAM"
    BY <1>1, <2>1, <2>2, StoreKinds
  <2> QED
    BY <1>2, <2>3
<1>7. last_use[u] = task.op
  BY <1>3, <1>6 DEF LastUsedParams
<1>8. ASSUME NEW i \in Operations(program), u \in Elements(program.n[i].in)
      PROVE  ~Precedes(program, task.op, i)
  <2>1. LastReader(u) # 0 /\ ~Precedes(program, program.order[LastReader(u)], i)
    BY <1>1, <1>8, LastReaderFacts
  <2>2. last_use[u] = program.order[LastReader(u)]
    BY <1>1, <1>4, <2>1 DEF StoresAssigned
  <2> QED
    BY <1>7, <2>1, <2>2
<1> QED
  BY <1>2, <1>4, <1>5, <1>7, <1>8

\* Where Execute puts a result.
LEMMA RootedFacts ==
  ASSUME Running, NEW t \in DOMAIN schedule, NEW j \in DOMAIN schedule[t].outputs,
         NEW index, schedule[t].outputs[j] = Store("ROOT", index)
  PROVE  \E s, l : /\ FirstWrite(index, s, l)
                   /\ \/ DonatedTo(s, l) = {} /\ Location(Store("ROOT", index)) = Store("ROOT", index)
                      \/ \E m \in DonatedTo(s, l) :
                           Location(Store("ROOT", index)) = schedule[s].inputs[m]
<1>1. /\ Settled /\ StoresAssigned /\ program \in Programs
      /\ rooted = [k \in {i \in DOMAIN program.roots : RootWrites(i) # {}} |-> RootStore(k)]
  BY DEF Running, Settled, Tables
<1>2. RootWrites(index) # {}
  <2>1. j \in 1 .. Cardinality(Ids(program))
    BY TaskOutputs
  <2>2. <<t, j>> \in RootWrites(index)
    BY <2>1 DEF RootWrites
  <2> QED
    BY <2>2
<1>3. index \in DOMAIN program.roots
  <2> DEFINE w == OutputValue(schedule[t], j)
  <2>1. w \in Outputs(program, schedule[t].op) /\ GetStore(w) = Store("ROOT", index)
    BY TaskOutputs
  <2>2. w \in Values(program) /\ schedule[t].op \in Operations(program)
    BY <1>1, <2>1, InPostOrder, OutputFacts
  <2>3. GetStore(w).type = "ROOT" /\ GetStore(w).index = index
    BY <2>1, StoreFields
  <2>4. PICK r \in Values(program) : /\ IsRoot(program, r)
                                     /\ GetStore(w) = Store("ROOT", RootIndex(r))
    BY <1>1, <2>2, <2>3, StoreKinds
  <2>5. Store("ROOT", RootIndex(r)).index = RootIndex(r)
    BY StoreFields
  <2>6. RootIndex(r) = index
    BY <2>3, <2>4, <2>5
  <2> QED
    BY <1>1, <2>4, <2>6, RootIndexFacts
<1>4. rooted[index] = RootStore(index)
  BY <1>1, <1>2, <1>3
<1>5. Location(Store("ROOT", index)) = RootStore(index)
  BY <1>4, StoreFields DEF Location
<1>6. PICK s, l : /\ FirstWrite(index, s, l)
                  /\ DonatedTo(s, l) = {} => RootStore(index) = Store("ROOT", index)
                  /\ DonatedTo(s, l) # {} => \E m \in DonatedTo(s, l) :
                                               RootStore(index) = schedule[s].inputs[m]
  BY <1>2, RootStoreFacts
<1> QED
  BY <1>5, <1>6

\* Two outputs of the schedule that have a store in common, the second computed by i: they
\* are of a chain.
LEMMA SameStoreIsChained ==
  ASSUME Running, NEW s \in DOMAIN schedule, NEW l \in DOMAIN schedule[s].outputs,
         NEW t \in DOMAIN schedule, NEW j \in DOMAIN schedule[t].outputs,
         s < t \/ (s = t /\ l # j), schedule[s].outputs[l] = schedule[t].outputs[j],
         schedule[t].outputs[j].type = "ROOT",
         NEW w, w = OutputValue(schedule[t], j)
  PROVE  program.n[w].name # None /\ Forerunners(program, w, schedule[t].op) # {}
<1> DEFINE v == OutputValue(schedule[s], l)
<1>1. /\ Settled /\ StoresAssigned /\ program \in Programs
      /\ schedule[s].op \in Operations(program) /\ schedule[t].op \in Operations(program)
      /\ PresetsKept /\ OwnersAlone
      /\ s \in Nat /\ t \in Nat
  BY InPostOrder DEF Running, Settled, Tables
<1>2. /\ v \in Outputs(program, schedule[s].op) /\ GetStore(v) = schedule[s].outputs[l]
      /\ w \in Outputs(program, schedule[t].op) /\ GetStore(w) = schedule[t].outputs[j]
  BY TaskOutputs
<1>3. v \in Values(program) /\ w \in Values(program) /\ v \in Ids(program) /\ w \in Ids(program)
  BY <1>1, <1>2, OutputFacts
<1>4. name[v] = name[w]
  BY <1>1, <1>2, <1>3, StoresDiffer
<1>5. v # w
  <2>1. CASE s = t
    <3>1. l # j /\ l \in DOMAIN schedule[t].outputs
      BY <1>1, <2>1
    <3>2. OutputValue(schedule[t], l) # OutputValue(schedule[t], j)
      BY <3>1, TaskOutputs
    <3> QED
      BY <2>1, <3>2
  <2>2. CASE s # t
    <3>1. schedule[s].op # schedule[t].op
      BY <2>2, InPostOrder
    <3> QED
      BY <1>1, <1>2, <3>1, OutputFacts
  <2> QED
    BY <2>1, <2>2
<1>6. PICK r \in Values(program) : IsRoot(program, r) /\ name[r] = name[w]
  BY <1>1, <1>2, <1>3, StoreKinds
<1>7. name[r] # None
  BY <1>1, IdsPositive DEF Settled
<1>8. IsPreset(name[w])
  BY <1>1, <1>3, <1>4, <1>5, <1>6, <1>7 DEF OwnersAlone
<1>9. program.n[v].name = name[w] /\ program.n[w].name = name[w]
  BY <1>1, <1>3, <1>4, <1>8 DEF PresetsKept
<1>10. ComputedBy(program, v, schedule[t].op)
  <2>1. schedule[s].op = schedule[t].op \/ Precedes(program, schedule[s].op, schedule[t].op)
    BY <1>1, InPostOrder
  <2> QED
    BY <1>1, <1>2, <2>1 DEF ComputedBy
<1>11. v \in Forerunners(program, w, schedule[t].op)
  BY <1>3, <1>5, <1>9, <1>10 DEF Forerunners
<1> QED
  BY <1>6, <1>7, <1>9, <1>11

\* An operation writes an output to the store of its value, aliased or not.
LEMMA WritesToItsStore ==
  ASSUME Running, NEW t \in DOMAIN schedule, NEW task, task = schedule[t],
         NEW j \in DOMAIN task.outputs
  PROVE  WriteLocation(task, j) = Location(task.outputs[j])
<1>1. CASE OutputAlias(task, j) = {}
  BY <1>1 DEF WriteLocation
<1>2. CASE OutputAlias(task, j) # {}
  <2>1. PICK m \in OutputAlias(task, j) : TRUE
    BY <1>2
  <2>2. /\ Op(program, task.op) = "call" /\ m \in DOMAIN task.inputs
        /\ \/ task.inputs[m] = task.outputs[j]
           \/ m \in LastUsedParams(task) /\ task.outputs[j].type = "ROOT"
        /\ \A l \in OutputAlias(task, j) : l = m
    BY <2>1, OutputAliasFacts
  <2>3. WriteLocation(task, j) = Location(task.inputs[m])
    <3>1. (CHOOSE k \in OutputAlias(task, j) : TRUE) = m
      BY <2>1, <2>2
    <3> QED
      BY <1>2, <3>1 DEF WriteLocation
  <2>4. CASE task.inputs[m] = task.outputs[j]
    BY <2>3, <2>4
  <2>5. CASE task.inputs[m] # task.outputs[j]
    <3>1. task.inputs[m].type = "PARAM" /\ task.outputs[j].type = "ROOT"
      BY <2>2, <2>5 DEF LastUsedParams
    <3>2. PICK index : task.outputs[j] = Store("ROOT", index)
      <4>1. /\ OutputValue(task, j) \in Outputs(program, task.op)
            /\ task.outputs[j] = GetStore(OutputValue(task, j))
        BY TaskOutputs
      <4>2. OutputValue(task, j) \in Values(program) /\ Settled /\ StoresAssigned
        BY <4>1, InPostOrder, OutputFacts DEF Running, Settled, Tables
      <4> QED
        BY <3>1, <4>1, <4>2, StoreKinds
    <3>3. PICK s, l : /\ FirstWrite(index, s, l)
                      /\ \/ /\ DonatedTo(s, l) = {}
                            /\ Location(Store("ROOT", index)) = Store("ROOT", index)
                         \/ \E n \in DonatedTo(s, l) :
                              Location(Store("ROOT", index)) = schedule[s].inputs[n]
      BY <3>2, RootedFacts
    <3>4. /\ s \in DOMAIN schedule /\ l \in DOMAIN schedule[s].outputs
          /\ schedule[s].outputs[l] = Store("ROOT", index)
          /\ s < t \/ (s = t /\ l <= j)
      BY <3>2, <3>3 DEF FirstWrite
    <3>5. s = t /\ l = j
      <4> SUFFICES ASSUME s < t \/ (s = t /\ l # j) PROVE FALSE
        BY <3>4
      <4>1. /\ program.n[OutputValue(task, j)].name # None
            /\ Forerunners(program, OutputValue(task, j), task.op) # {}
        BY <3>1, <3>2, <3>4, SameStoreIsChained
      <4>2. \E n \in OutputAlias(task, j) : task.inputs[n] = task.outputs[j]
        BY <2>2, <4>1, ChainedOutputs
      <4> QED
        BY <2>2, <2>5, <4>2
    <3>6. m \in DonatedTo(s, l) /\ \A n \in DonatedTo(s, l) : n = m
      BY <2>1, <2>2, <3>1, <3>5 DEF DonatedTo
    <3>7. Location(Store("ROOT", index)) = task.inputs[m]
      BY <3>3, <3>5, <3>6
    <3>8. Location(task.inputs[m]) = task.inputs[m]
      BY <3>1 DEF Location
    <3> QED
      BY <2>3, <3>2, <3>7, <3>8
  <2> QED
    BY <2>4, <2>5
<1> QED
  BY <1>1, <1>2

\* Every value is an output of a task.
LEMMA ValueIsOutput ==
  ASSUME Running, NEW v \in Values(program), Op(program, v) # "parameter"
  PROVE  \E t \in DOMAIN schedule : \E j \in DOMAIN schedule[t].outputs :
           /\ v \in Outputs(program, schedule[t].op) /\ OutputValue(schedule[t], j) = v
           /\ schedule[t].outputs[j] = GetStore(v)
<1>1. Producer(v) \in Operations(program) /\ v \in Outputs(program, Producer(v))
  BY ProducerFacts DEF Running, Settled
<1>2. PICK t \in DOMAIN schedule : schedule[t].op = Producer(v)
  BY <1>1, InPostOrder
<1>3. PICK j \in DOMAIN schedule[t].outputs : OutputValue(schedule[t], j) = v
  BY <1>1, <1>2, TaskOutputs
<1>4. schedule[t].outputs[j] = GetStore(v)
  BY <1>3, TaskOutputs
<1> QED
  BY <1>1, <1>2, <1>3, <1>4

\* The memory of a value in the store of a result.
LEMMA ResultLocation ==
  ASSUME Running, NEW v \in Values(program), GetStore(v).type = "ROOT",
         NEW t \in DOMAIN schedule, v \in Outputs(program, schedule[t].op)
  PROVE  \E s \in DOMAIN schedule : \E l \in DOMAIN schedule[s].outputs :
           /\ s <= t /\ schedule[s].outputs[l] = GetStore(v)
           /\ \/ Location(GetStore(v)) = GetStore(v)
              \/ \E m \in DonatedTo(s, l) : Location(GetStore(v)) = schedule[s].inputs[m]
<1>1. Settled /\ StoresAssigned
  BY DEF Running, Tables
<1>2. PICK index : GetStore(v) = Store("ROOT", index)
  BY <1>1, StoreKinds
<1>3. PICK j \in DOMAIN schedule[t].outputs : schedule[t].outputs[j] = GetStore(v)
  <2>1. PICK j \in DOMAIN schedule[t].outputs : OutputValue(schedule[t], j) = v
    BY TaskOutputs
  <2>2. schedule[t].outputs[j] = GetStore(v)
    BY <2>1, TaskOutputs
  <2> QED
    BY <2>2
<1>4. PICK s, l : /\ FirstWrite(index, s, l)
                  /\ \/ DonatedTo(s, l) = {} /\ Location(Store("ROOT", index)) = Store("ROOT", index)
                     \/ \E m \in DonatedTo(s, l) :
                          Location(Store("ROOT", index)) = schedule[s].inputs[m]
  BY <1>2, <1>3, RootedFacts
<1>5. /\ s \in DOMAIN schedule /\ l \in DOMAIN schedule[s].outputs
      /\ schedule[s].outputs[l] = GetStore(v) /\ (s < t \/ s = t)
  BY <1>2, <1>3, <1>4 DEF FirstWrite
<1>6. s <= t
  BY <1>5, InPostOrder
<1> QED
  BY <1>2, <1>4, <1>5, <1>6

\* Two results never take the memory of one parameter.
LEMMA DonatedOnce ==
  ASSUME Running, NEW s \in DOMAIN schedule, NEW l, NEW m \in DonatedTo(s, l),
         NEW t \in DOMAIN schedule, NEW j, NEW n \in DonatedTo(t, j),
         schedule[s].inputs[m] = schedule[t].inputs[n]
  PROVE  s = t /\ l = j
<1> DEFINE u == program.n[schedule[s].op].in[m]
           x == program.n[schedule[t].op].in[n]
<1>1. /\ Settled /\ StoresAssigned /\ program \in Programs /\ IsWellNamed(program)
      /\ schedule[s].op \in Ids(program)
  BY InPostOrder DEF Running, Settled, Tables
<1>2. /\ u \in Values(program) /\ Op(program, u) = "parameter" /\ last_use[u] = schedule[s].op
      /\ schedule[s].inputs[m] = GetStore(u) /\ m \in DOMAIN program.n[schedule[s].op].in
      /\ m \in OutputAlias(schedule[s], l)
  BY DonatedFacts
<1>3. /\ x \in Values(program) /\ Op(program, x) = "parameter" /\ last_use[x] = schedule[t].op
      /\ schedule[t].inputs[n] = GetStore(x) /\ n \in DOMAIN program.n[schedule[t].op].in
      /\ n \in OutputAlias(schedule[t], j)
  BY DonatedFacts
<1>4. u = x
  <2> HIDE DEF u, x
  <2>1. GetStore(u) = GetStore(x)
    BY <1>2, <1>3
  <2>2. name[u] = name[x]
    BY <1>1, <1>2, <1>3, <2>1, StoresDiffer
  <2> QED
    BY <1>1, <1>2, <1>3, <2>2, ParametersAlone
<1>5. s = t
  BY <1>2, <1>3, <1>4, InPostOrder
<1>6. m = n
  BY <1>1, <1>2, <1>3, <1>4, <1>5 DEF IsWellNamed
<1>7. /\ Op(program, schedule[s].op) = "call"
      /\ <<l, m>> \in modules[program.n[schedule[s].op].comp]
      /\ <<j, m>> \in modules[program.n[schedule[s].op].comp]
  BY <1>2, <1>3, <1>5, <1>6, OutputAliasFacts
<1>8. <<l, m>>[2] = <<j, m>>[2]
  OBVIOUS
<1>9. <<l, m>> = <<j, m>>
  BY <1>7, <1>8, AliasesDiffer
<1> QED
  BY <1>5, <1>9

\* An operation writes no output to the memory of another value that is needed after it.
LEMMA NeededIsSpared ==
  ASSUME Running, NEW t \in DOMAIN schedule, NEW w \in Outputs(program, schedule[t].op),
         NEW v \in Values(program), v # w,
         Op(program, v) = "parameter" \/ ComputedBy(program, v, schedule[t].op),
         \/ Op(program, v) # "parameter" /\ IsRoot(program, v)
         \/ \E u \in Operations(program) : /\ v \in Elements(program.n[u].in)
                                           /\ Precedes(program, schedule[t].op, u)
  PROVE  Location(GetStore(v)) # Location(GetStore(w))
<1> DEFINE i == schedule[t].op
<1>1. /\ Settled /\ StoresAssigned /\ program \in Programs
      /\ i \in Operations(program) /\ i \in Ids(program)
  BY InPostOrder DEF Running, Settled, Tables
<1>2. w \in Values(program) /\ Op(program, w) # "parameter"
  BY <1>1, OutputFacts
<1>3. GetStore(v) # GetStore(w)
  <2>1. NeededAfter(program, v, i)
    BY DEF NeededAfter, Readers, Operations
  <2>2. name[v] # name[w]
    BY <1>1, <2>1 DEF Settled
  <2> QED
    BY <1>1, <1>2, <2>2, StoresDiffer
<1>4. /\ GetStore(w).type \in {"ROOT", "TEMP"}
      /\ GetStore(v).type \in {"PARAM", "ROOT", "TEMP"}
      /\ GetStore(v).type = "PARAM" => Op(program, v) = "parameter"
  BY <1>1, <1>2, StoreKinds
<1>5. \A x : x.type # "ROOT" => Location(x) = x
  BY DEF Location
<1>6. \A s \in DOMAIN schedule : \A l : \A m \in DonatedTo(s, l) : schedule[s].inputs[m].type = "PARAM"
  BY DEF DonatedTo
<1>7. CASE GetStore(w).type = "TEMP"
  <2>1. CASE GetStore(v).type # "ROOT"
    BY <1>3, <1>5, <1>7, <2>1
  <2>2. CASE GetStore(v).type = "ROOT"
    <3>1. Op(program, v) # "parameter"
      BY <1>1, <2>2, StoreOfParameter, StoreFields
    <3>2. PICK s \in DOMAIN schedule : v \in Outputs(program, schedule[s].op)
      BY <3>1, ValueIsOutput
    <3>3. Location(GetStore(v)).type \in {"PARAM", "ROOT"}
      BY <1>6, <2>2, <3>2, ResultLocation
    <3> QED
      BY <1>5, <1>7, <3>3
  <2> QED
    BY <2>1, <2>2
<1>8. CASE GetStore(w).type = "ROOT"
  <2>1. PICK s \in DOMAIN schedule : \E l \in DOMAIN schedule[s].outputs :
           /\ s <= t /\ schedule[s].outputs[l] = GetStore(w)
           /\ \/ Location(GetStore(w)) = GetStore(w)
              \/ \E m \in DonatedTo(s, l) : Location(GetStore(w)) = schedule[s].inputs[m]
    BY <1>2, <1>8, ResultLocation
  <2>2. PICK l \in DOMAIN schedule[s].outputs :
           /\ s <= t /\ schedule[s].outputs[l] = GetStore(w)
           /\ \/ Location(GetStore(w)) = GetStore(w)
              \/ \E m \in DonatedTo(s, l) : Location(GetStore(w)) = schedule[s].inputs[m]
    BY <2>1
  <2>3. CASE GetStore(v).type = "TEMP"
    <3>1. Location(GetStore(w)).type \in {"PARAM", "ROOT"}
      BY <1>6, <1>8, <2>2
    <3> QED
      BY <1>5, <2>3, <3>1
  <2>4. CASE GetStore(v).type = "PARAM"
    <3> SUFFICES ASSUME Location(GetStore(w)) = Location(GetStore(v)) PROVE FALSE
      OBVIOUS
    <3>1. Op(program, v) = "parameter" /\ Location(GetStore(v)) = GetStore(v)
      BY <1>4, <1>5, <2>4
    <3>2. PICK m \in DonatedTo(s, l) : GetStore(v) = schedule[s].inputs[m]
      BY <1>8, <2>2, <2>4, <3>1
    <3> DEFINE x == program.n[schedule[s].op].in[m]
    <3>3. /\ x \in Values(program) /\ schedule[s].inputs[m] = GetStore(x)
          /\ \A u \in Operations(program) :
               x \in Elements(program.n[u].in) => ~Precedes(program, schedule[s].op, u)
      BY DonatedFacts
    <3>4. x = v
      <4>1. name[x] = name[v]
        BY <1>1, <3>2, <3>3, StoresDiffer
      <4> QED
        BY <1>1, <3>1, <3>3, <4>1, ParametersAlone
    <3>5. PICK u \in Operations(program) : v \in Elements(program.n[u].in) /\ Precedes(program, i, u)
      BY <3>1
    <3>6. schedule[s].op = i \/ Precedes(program, schedule[s].op, i)
      BY <2>2, InPostOrder
    <3>7. Precedes(program, schedule[s].op, u)
      BY <1>1, <3>5, <3>6, PrecedesTransitive
    <3> QED
      BY <3>3, <3>4, <3>5, <3>7
  <2>5. CASE GetStore(v).type = "ROOT"
    <3> SUFFICES ASSUME Location(GetStore(w)) = Location(GetStore(v)) PROVE FALSE
      OBVIOUS
    <3>1. Op(program, v) # "parameter"
      BY <1>1, <2>5, StoreOfParameter, StoreFields
    <3>2. PICK tv \in DOMAIN schedule : v \in Outputs(program, schedule[tv].op)
      BY <3>1, ValueIsOutput
    <3>3. PICK sv \in DOMAIN schedule : \E lv \in DOMAIN schedule[sv].outputs :
             /\ schedule[sv].outputs[lv] = GetStore(v)
             /\ \/ Location(GetStore(v)) = GetStore(v)
                \/ \E m \in DonatedTo(sv, lv) : Location(GetStore(v)) = schedule[sv].inputs[m]
      BY <2>5, <3>2, ResultLocation
    <3>4. PICK lv \in DOMAIN schedule[sv].outputs :
             /\ schedule[sv].outputs[lv] = GetStore(v)
             /\ \/ Location(GetStore(v)) = GetStore(v)
                \/ \E m \in DonatedTo(sv, lv) : Location(GetStore(v)) = schedule[sv].inputs[m]
      BY <3>3
    <3>5. PICK m \in DonatedTo(s, l), n \in DonatedTo(sv, lv) :
            schedule[s].inputs[m] = schedule[sv].inputs[n]
      BY <1>3, <1>6, <1>8, <2>2, <2>5, <3>4
    <3>6. s = sv /\ l = lv
      BY <3>5, DonatedOnce
    <3> QED
      BY <1>3, <2>2, <3>4, <3>6
  <2> QED
    BY <1>4, <2>3, <2>4, <2>5
<1> QED
  BY <1>4, <1>7, <1>8

-----------------------------------------------------------------------------
(***************************************************************************)
(* The memory.                                                             *)
(***************************************************************************)

\* The rest of the schedule or the caller reads v, and v has been computed.
Awaited(v) ==
  \/ v \in Needed
  \/ /\ Op(program, v) = "parameter"
     /\ \E k \in ran + 1 .. Len(schedule) : v \in Elements(program.n[schedule[k].op].in)

\* Every such value is in its store.
Held == \A v \in Values(program) : Awaited(v) => memory[Location(GetStore(v))] = v

RunInv ==
  phase \in {"run", "done"} =>
    DOMAIN memory = Range(stores) /\ (RunsInOrder => Held)

\* The memory of a value exists.
LEMMA MemoryExists ==
  ASSUME Running, NEW v \in Values(program)
  PROVE  Location(GetStore(v)) \in Range(stores)
<1>1. /\ Settled /\ StoresAssigned /\ DOMAIN stores = SchedulingNames
  BY DEF Running, Tables, SInv, Progress
<1>2. \A u \in Values(program) : GetStore(u) \in Range(stores)
  BY <1>1 DEF GetStore, Range, SchedulingNames
<1>3. CASE GetStore(v).type # "ROOT"
  BY <1>2, <1>3 DEF Location
<1>4. CASE GetStore(v).type = "ROOT"
  <2>1. Op(program, v) # "parameter"
    BY <1>1, <1>4, StoreOfParameter, StoreFields
  <2>2. PICK t \in DOMAIN schedule : v \in Outputs(program, schedule[t].op)
    BY <2>1, ValueIsOutput
  <2>3. \/ Location(GetStore(v)) = GetStore(v)
        \/ \E s \in DOMAIN schedule : \E l : \E m \in DonatedTo(s, l) :
             Location(GetStore(v)) = schedule[s].inputs[m]
    BY <1>4, <2>2, ResultLocation
  <2>4. \A s \in DOMAIN schedule : \A l : \A m \in DonatedTo(s, l) :
          schedule[s].inputs[m] \in Range(stores)
    BY <1>2, DonatedFacts
  <2> QED
    BY <1>2, <2>3, <2>4
<1> QED
  BY <1>3, <1>4

\* The next operation finds its operands.
LEMMA NextReadsOwnValues ==
  ASSUME Running, Held, ran < Len(schedule)
  PROVE  OperandsAreHeld(schedule[ran + 1])
<1> DEFINE task == schedule[ran + 1]
<1>1. /\ ran \in Nat /\ ran + 1 \in DOMAIN schedule /\ ran + 1 \in ran + 1 .. Len(schedule)
      /\ program \in Programs /\ Topological(schedule)
  BY InPostOrder DEF Running, SInv, Progress, Settled
<1> SUFFICES ASSUME NEW m \in DOMAIN task.inputs, task.inputs[m] # SliceOffset
             PROVE  memory[Location(task.inputs[m])] = program.n[task.op].in[m]
  BY DEF OperandsAreHeld
<1> DEFINE v == program.n[task.op].in[m]
<1>2. /\ Op(program, v) # "offset" /\ v \in Values(program) /\ task.inputs[m] = GetStore(v)
      /\ v \in Elements(program.n[task.op].in)
  BY <1>1, TaskInputs
<1>3. Awaited(v)
  <2>1. CASE Op(program, v) = "parameter"
    BY <1>1, <1>2, <2>1 DEF Awaited
  <2>2. CASE Op(program, v) # "parameter"
    <3>1. v \in Sources(program, task.op)
      BY <1>2 DEF Sources
    <3>2. PICK j \in 1 .. (ran + 1) - 1 : schedule[j].op = Producer(v)
      BY <1>1, <2>2, <3>1 DEF Topological
    <3>3. j \in 1 .. ran
      BY <1>1
    <3>4. v \in Outputs(program, schedule[j].op)
      BY <1>1, <1>2, <2>2, <3>2, ProducerFacts
    <3> QED
      BY <1>1, <1>2, <2>2, <3>3, <3>4 DEF Awaited, Needed
  <2> QED
    BY <2>1, <2>2
<1> QED
  BY <1>2, <1>3 DEF Held

\* What is awaited is needed after the operation that runs, and was awaited before unless it
\* is an output of that operation.
LEMMA AwaitedAfter ==
  ASSUME Running, ran < Len(schedule), ran' = ran + 1, UNCHANGED <<program, schedule>>,
         NEW v \in Values(program), Awaited(v)'
  PROVE  /\ Op(program, v) = "parameter" \/ ComputedBy(program, v, schedule[ran + 1].op)
         /\ \/ Op(program, v) # "parameter" /\ IsRoot(program, v)
            \/ \E u \in Operations(program) : /\ v \in Elements(program.n[u].in)
                                              /\ Precedes(program, schedule[ran + 1].op, u)
         /\ v \in Outputs(program, schedule[ran + 1].op) \/ Awaited(v)
<1> DEFINE i == schedule[ran + 1].op
           Read == \E k \in ran + 2 .. Len(schedule) : v \in Elements(program.n[schedule[k].op].in)
<1>1. /\ ran \in Nat /\ Len(schedule) \in Nat /\ ran + 1 \in DOMAIN schedule
      /\ DOMAIN schedule = 1 .. Len(schedule)
      /\ \A k \in DOMAIN schedule : schedule[k].op \in Operations(program)
  BY InPostOrder DEF Running, SInv, Progress
<1>2. (ran + 1) + 1 = ran + 2
  BY <1>1
<1>3. \/ /\ Op(program, v) # "parameter"
         /\ \E k \in 1 .. ran + 1 : v \in Outputs(program, schedule[k].op)
         /\ IsRoot(program, v) \/ Read
      \/ Op(program, v) = "parameter" /\ Read
  BY <1>2 DEF Awaited, Needed
<1>4. Read => /\ \E k \in ran + 1 .. Len(schedule) : v \in Elements(program.n[schedule[k].op].in)
              /\ \E u \in Operations(program) :
                   v \in Elements(program.n[u].in) /\ Precedes(program, i, u)
  <2> SUFFICES ASSUME NEW k \in ran + 2 .. Len(schedule),
                      v \in Elements(program.n[schedule[k].op].in)
               PROVE  /\ \E n \in ran + 1 .. Len(schedule) :
                           v \in Elements(program.n[schedule[n].op].in)
                      /\ \E u \in Operations(program) :
                           v \in Elements(program.n[u].in) /\ Precedes(program, i, u)
    OBVIOUS
  <2>1. k \in ran + 1 .. Len(schedule) /\ k \in DOMAIN schedule /\ ran + 1 < k
    BY <1>1
  <2>2. Precedes(program, i, schedule[k].op) /\ schedule[k].op \in Operations(program)
    BY <1>1, <2>1, InPostOrder
  <2> QED
    BY <2>1, <2>2
<1> HIDE DEF Read
<1>5. CASE Op(program, v) = "parameter"
  BY <1>3, <1>4, <1>5 DEF Awaited
<1>6. CASE Op(program, v) # "parameter"
  <2>1. PICK k \in 1 .. ran + 1 : v \in Outputs(program, schedule[k].op)
    BY <1>3, <1>6
  <2>2. k \in DOMAIN schedule /\ (k = ran + 1 \/ (k \in 1 .. ran /\ k < ran + 1))
    BY <1>1
  <2>3. ComputedBy(program, v, i)
    <3>1. schedule[k].op = i \/ Precedes(program, schedule[k].op, i)
      BY <1>1, <2>2, InPostOrder
    <3> QED
      BY <1>1, <2>1, <2>2, <3>1 DEF ComputedBy
  <2>4. v \in Outputs(program, i) \/ Awaited(v)
    BY <1>3, <1>4, <1>6, <2>1, <2>2 DEF Awaited, Needed
  <2> QED
    BY <1>3, <1>4, <1>6, <2>3, <2>4
<1> QED
  BY <1>5, <1>6

\* An operation leaves every awaited value in its store.
LEMMA RunOperationHolds ==
  ASSUME Running, Held, DOMAIN memory = Range(stores), RunOperation,
         NEW v \in Values(program), Awaited(v)'
  PROVE  memory'[Location(GetStore(v))] = v
<1> DEFINE task == schedule[ran + 1]
           loc == Location(GetStore(v))
           Writers(x) == {j \in DOMAIN task.outputs :
                            /\ WriteLocation(task, j) = x
                            /\ \A i \in j + 1 .. Len(task.outputs) : WriteLocation(task, i) # x}
<1>1. /\ ran < Len(schedule) /\ ran' = ran + 1 /\ UNCHANGED <<program, schedule>>
      /\ memory' = [x \in DOMAIN memory |->
                      IF Writers(x) = {} THEN memory[x]
                      ELSE IF OperandsAreHeld(task)
                             THEN OutputValue(task, CHOOSE j \in Writers(x) : TRUE)
                      ELSE None]
  BY DEF RunOperation, nameVars
<1>2. ran + 1 \in DOMAIN schedule
  BY <1>1, InPostOrder DEF Running, SInv, Progress
<1>3. loc \in DOMAIN memory
  BY MemoryExists
<1>4. OperandsAreHeld(task)
  BY <1>1, NextReadsOwnValues
<1>5. memory'[loc] = IF Writers(loc) = {} THEN memory[loc]
                     ELSE OutputValue(task, CHOOSE j \in Writers(loc) : TRUE)
  BY <1>1, <1>3, <1>4
<1>6. ASSUME NEW j \in DOMAIN task.outputs, OutputValue(task, j) # v
      PROVE  WriteLocation(task, j) # loc
  <2>1. /\ OutputValue(task, j) \in Outputs(program, task.op)
        /\ task.outputs[j] = GetStore(OutputValue(task, j))
    BY <1>2, TaskOutputs
  <2>2. WriteLocation(task, j) = Location(task.outputs[j])
    BY <1>2, WritesToItsStore
  <2>3. Location(GetStore(v)) # Location(GetStore(OutputValue(task, j)))
    BY <1>1, <1>2, <1>6, <2>1, AwaitedAfter, NeededIsSpared
  <2> QED
    BY <2>1, <2>2, <2>3
<1>7. CASE v \in Outputs(program, task.op)
  <2>1. PICK j \in DOMAIN task.outputs : OutputValue(task, j) = v
    BY <1>2, <1>7, TaskOutputs
  <2>2. WriteLocation(task, j) = loc
    BY <1>2, <2>1, TaskOutputs, WritesToItsStore
  <2>3. /\ DOMAIN task.outputs = 1 .. Len(task.outputs) /\ Len(task.outputs) \in Nat
        /\ \A l \in DOMAIN task.outputs : OutputValue(task, l) = v => l = j
    BY <1>2, <2>1, TaskOutputs
  <2>4. j \in Writers(loc)
    <3> SUFFICES ASSUME NEW l \in j + 1 .. Len(task.outputs) PROVE WriteLocation(task, l) # loc
      BY <2>2
    <3>1. l \in DOMAIN task.outputs /\ l # j
      BY <2>3
    <3> QED
      BY <1>6, <2>3, <3>1
  <2>5. \A l \in Writers(loc) : l = j
    BY <1>6, <2>3
  <2> HIDE DEF Writers
  <2>6. (CHOOSE l \in Writers(loc) : TRUE) = j
    BY <2>4, <2>5
  <2> QED
    BY <1>5, <2>1, <2>4, <2>6
<1>8. CASE v \notin Outputs(program, task.op)
  <2>1. \A j \in DOMAIN task.outputs : OutputValue(task, j) # v
    BY <1>2, <1>8, TaskOutputs
  <2>2. Writers(loc) = {}
    BY <1>6, <2>1
  <2>3. Awaited(v)
    BY <1>1, <1>8, AwaitedAfter
  <2> HIDE DEF Writers
  <2> QED
    BY <1>5, <2>2, <2>3 DEF Held
<1> QED
  BY <1>7, <1>8

\* What a module may alias depends on the program, the names and the last readers.
LEMMA ConfigsKept ==
  ASSUME UNCHANGED <<program, name, last_use>>
  PROVE  \A task : AliasConfigs(task)' = AliasConfigs(task)
<1>1. \A task : /\ UserAliases(task)' = UserAliases(task)
                /\ NameAliases(task)' = NameAliases(task)
  BY DEF UserAliases, LastUsedParams, NameAliases, SortedUsers
<1>2. \A task, a : BestMatches(task, a)' = BestMatches(task, a)
  BY DEF BestMatches, Donees, Donors, LastUsedParams, OutputShape, InputShape, SortedUsers
<1>3. \A task, a : SizeMatches(task, a)' = SizeMatches(task, a)
  BY DEF SizeMatches, Donees, Donors, LastUsedParams, OutputShape, InputShape, SortedUsers
<1> TAKE task
<1> DEFINE set == UserAliases(task) \cup NameAliases(task)
<1>4. \A c : c \in AliasConfigs(task)' <=>
              \E best \in BestMatches(task, set) : c = set \cup best \cup SizeMatches(task, set \cup best)
  BY <1>1, <1>2, <1>3 DEF AliasConfigs
<1>5. \A c : c \in AliasConfigs(task) <=>
              \E best \in BestMatches(task, set) : c = set \cup best \cup SizeMatches(task, set \cup best)
  BY DEF AliasConfigs
<1> QED
  BY <1>4, <1>5

\* Nothing that RunsInOrder is about changes once the schedule is made.
LEMMA OrderKept ==
  ASSUME UNCHANGED <<program, name, stores, last_use, schedule, modules>>
  PROVE  RunsInOrder' <=> RunsInOrder
<1>1. KeepsPostOrder' <=> KeepsPostOrder
  BY DEF KeepsPostOrder
<1>2. \A task : AliasConfigs(task)' = AliasConfigs(task)
  BY ConfigsKept
<1>3. ModulesFit' <=> ModulesFit
  BY <1>2 DEF ModulesFit
<1> QED
  BY <1>1, <1>3 DEF RunsInOrder

\* An execution in order is one that Running describes.
LEMMA InOrderIsRunning ==
  ASSUME SInv, Inv, ApartInv, Tables, phase \in {"run", "done"}, RunsInOrder
  PROVE  Running
<1>1. Named /\ IsWellNamed(program) /\ IsChained(program)
  BY DEF SInv, Progress, RunsInOrder
<1> QED
  BY <1>1, NamesSettle DEF Running, RunsInOrder

\* Execute puts the parameters into their stores.
LEMMA PrepareStoresHolds ==
  ASSUME SInv, Inv, ApartInv, Tables, PrepareStores PROVE RunInv'
<1>1. /\ phase = "schedule" /\ phase' = "run"
      /\ UNCHANGED <<program, name, stores, last_use, schedule, modules, ran>>
      /\ memory' = [s \in Range(stores) |->
                      IF s.type = "PARAM"
                        THEN CHOOSE i \in Ids(program) :
                               Op(program, i) = "parameter" /\ program.n[i].index = s.index
                        ELSE None]
  BY DEF PrepareStores, nameVars
<1>2. DOMAIN memory' = Range(stores)'
  BY <1>1 DEF Range
<1>3. ASSUME RunsInOrder' PROVE Held'
  <2>1. RunsInOrder /\ ran = 0 /\ Named /\ StoresAssigned /\ DOMAIN stores = SchedulingNames
    BY <1>1, <1>3, OrderKept DEF SInv, Progress, Tables
  <2>2. Settled
    BY <2>1, NamesSettle DEF RunsInOrder
  <2> SUFFICES ASSUME NEW v \in Values(program), Awaited(v)'
               PROVE  (memory[Location(GetStore(v))] = v)'
    BY <1>1 DEF Held
  <2>3. Op(program, v) = "parameter"
    BY <1>1, <2>1 DEF Awaited, Needed
  <2>4. /\ GetStore(v) = Store("PARAM", program.n[v].index) /\ GetStore(v) \in Range(stores)
        /\ v \in Ids(program) /\ program \in Programs
    BY <2>1, <2>2, <2>3, StoreOfParameter DEF GetStore, Range, SchedulingNames, Values, Settled
  <2>5. GetStore(v).type = "PARAM" /\ GetStore(v).index = program.n[v].index
    BY <2>4, StoreFields
  <2>6. Location(GetStore(v))' = GetStore(v)
    BY <1>1, <2>5 DEF Location, GetStore
  <2>7. memory'[GetStore(v)] = CHOOSE i \in Ids(program) :
                                 Op(program, i) = "parameter" /\ program.n[i].index = program.n[v].index
    BY <1>1, <2>4, <2>5
  <2>8. \A i \in Ids(program) :
          Op(program, i) = "parameter" /\ program.n[i].index = program.n[v].index => i = v
    BY <2>3, <2>4, ProgramsAssumption DEF IsFlat
  <2>9. memory'[GetStore(v)] = v
    BY <2>3, <2>4, <2>7, <2>8
  <2> QED
    BY <2>6, <2>9
<1> QED
  BY <1>2, <1>3 DEF RunInv

\* The operations and the end of the schedule keep what is awaited.
LEMMA RunHolds ==
  ASSUME SInv, Inv, ApartInv, Tables, RunInv, RunOperation \/ Finished \/ UNCHANGED vars
  PROVE  RunInv'
<1>1. UNCHANGED <<program, name, stores, last_use, schedule, modules, rooted>>
  BY DEF RunOperation, Finished, vars, scheduleVars, nameVars
<1>2. \A v : Location(GetStore(v))' = Location(GetStore(v))
  BY <1>1 DEF Location, GetStore
<1>3. RunsInOrder' <=> RunsInOrder
  BY <1>1, OrderKept
<1>4. CASE RunOperation
  <2>1. phase = "run" /\ DOMAIN memory' = DOMAIN memory
    BY <1>4 DEF RunOperation
  <2>2. DOMAIN memory = Range(stores) /\ DOMAIN memory' = Range(stores)'
    BY <1>1, <2>1 DEF RunInv, Range
  <2>3. ASSUME RunsInOrder' PROVE Held'
    <3>1. Running /\ Held
      BY <1>3, <2>1, <2>3, InOrderIsRunning DEF RunInv
    <3> SUFFICES ASSUME NEW v \in Values(program), Awaited(v)'
                 PROVE  (memory[Location(GetStore(v))] = v)'
      BY <1>1 DEF Held
    <3>2. memory'[Location(GetStore(v))] = v
      BY <1>4, <2>2, <3>1, RunOperationHolds
    <3> QED
      BY <1>2, <3>2
  <2> QED
    BY <2>2, <2>3 DEF RunInv
<1>5. CASE Finished \/ UNCHANGED vars
  <2>1. UNCHANGED <<memory, ran>> /\ (phase' \in {"run", "done"} => phase \in {"run", "done"})
    BY <1>5 DEF Finished, vars, scheduleVars
  <2>2. \A v : Awaited(v)' <=> Awaited(v)
    BY <1>1, <2>1 DEF Awaited, Needed
  <2>3. Held => Held'
    BY <1>1, <1>2, <2>1, <2>2 DEF Held
  <2>4. Range(stores)' = Range(stores)
    BY <1>1 DEF Range
  <2> QED
    BY <1>3, <2>1, <2>3, <2>4 DEF RunInv
<1> QED
  BY <1>4, <1>5

\* Everything that is known of a state.
Everything == SInv /\ Inv /\ ApartInv /\ Tables /\ RunInv

\* In every run in order, what is awaited is in its store.
LEMMA RunInvariance == Spec => []Everything
<1>1. Init => RunInv
  BY DEF Init, RunInv
<1>2. SInv /\ Inv /\ ApartInv /\ Tables /\ RunInv /\ [Next]_vars => RunInv'
  <2> SUFFICES ASSUME SInv, Inv, ApartInv, Tables, RunInv, [Next]_vars PROVE RunInv'
    OBVIOUS
  <2>1. CASE PrepareStores
    BY <2>1, PrepareStoresHolds
  <2>2. CASE RunOperation \/ Finished \/ UNCHANGED vars
    BY <2>2, RunHolds
  <2>3. CASE \/ AssignNames \/ AddStores \/ AddHloModuleTask \/ PrioritizeReshards
             \/ AddReshardTask \/ ScheduleNothing
    <3>1. phase' \notin {"run", "done"}
      BY <2>3 DEF AssignNames, scheduleVars, AddStores, AddHloModuleTask, PrioritizeReshards,
                  AddReshardTask, ScheduleNothing, Scheduling
    <3> QED
      BY <3>1 DEF RunInv
  <2> QED
    BY <2>1, <2>2, <2>3 DEF Next
<1>3. Spec => [](SInv /\ Inv /\ ApartInv /\ Tables)
  BY ScheduleInvariance, NamesAsSpecified, NamesInvariance, NamesApart, TablesInvariance, PTL
<1> QED
  BY <1>1, <1>2, <1>3, PTL DEF Spec, Everything

-----------------------------------------------------------------------------
(***************************************************************************)
(* The theorems about a run in order.                                      *)
(***************************************************************************)

\* In a run in order every operation reads its operands: names that are reused, chains that
\* are overwritten in place, and donated parameters never destroy a value that is still read.
THEOREM RunReadsOwnValues == Spec => [](RunsInOrder => ReadsOwnValues)
<1>1. Everything => (RunsInOrder => ReadsOwnValues)
  BY InOrderIsRunning, NextReadsOwnValues DEF Everything, RunInv, ReadsOwnValues
<1> QED
  BY <1>1, RunInvariance, PTL

\* In a run in order two values that are still needed are in different memory.
THEOREM RunKeepsStoresUnique == Spec => [](RunsInOrder => StoresAreUnique)
<1>1. Everything => (RunsInOrder => StoresAreUnique)
  <2> SUFFICES ASSUME Everything, RunsInOrder, phase = "run",
                      NEW v \in Needed, NEW w \in Needed,
                      Location(GetStore(v)) = Location(GetStore(w))
               PROVE  v = w
    BY DEF StoresAreUnique
  <2>1. Held /\ Awaited(v) /\ Awaited(w) /\ v \in Values(program) /\ w \in Values(program)
    BY DEF Everything, RunInv, Awaited, Needed
  <2> QED
    BY <2>1 DEF Held
<1> QED
  BY <1>1, RunInvariance, PTL

\* Result k has been computed.
Made(k) ==
  phase \in {"run", "done"} /\ \E i \in Ran : program.roots[k] \in Outputs(program, i)

\* The caller finds a result from the moment it is computed.
LEMMA ResultFacts ==
  Everything /\ RunsInOrder =>
    \A k \in DOMAIN program.roots : ResultOf(k) = IF Made(k) THEN program.roots[k] ELSE None
<1> SUFFICES ASSUME Everything, RunsInOrder, NEW k \in DOMAIN program.roots, Made(k)
             PROVE  ResultOf(k) = program.roots[k]
  BY DEF Made, ResultOf
<1> DEFINE v == program.roots[k]
<1>1. Running /\ Held
  BY InOrderIsRunning DEF Everything, RunInv, Made
<1>2. /\ program \in Programs /\ Settled /\ StoresAssigned
      /\ rooted = [j \in {i \in DOMAIN program.roots : RootWrites(i) # {}} |-> RootStore(j)]
  BY <1>1 DEF Running, Settled, Tables
<1>3. PICK n \in 1 .. ran : v \in Outputs(program, schedule[n].op)
  BY DEF Made, Ran
<1>4. n \in DOMAIN schedule /\ schedule[n].op \in Operations(program)
  <2>1. ran \in 0 .. Len(schedule)
    BY <1>1 DEF Running, SInv, Progress
  <2> QED
    BY <1>1, <1>3, <2>1, InPostOrder
<1>5. v \in Values(program) /\ Op(program, v) # "parameter" /\ IsRoot(program, v)
  BY <1>2, <1>3, <1>4, OutputFacts DEF IsRoot, Elements
<1>6. RootIndex(v) = k
  BY <1>2, <1>5, RootIndexFacts
<1>7. GetStore(v) = Store("ROOT", k)
  BY <1>2, <1>5, <1>6, StoreOfResult
<1>8. Location(GetStore(v)) = rooted[k]
  BY <1>7, StoreFields DEF Location
<1>9. memory[rooted[k]] = v
  <2>1. Awaited(v)
    BY <1>3, <1>5 DEF Awaited, Needed
  <2> QED
    BY <1>1, <1>5, <1>8, <2>1 DEF Held
<1>10. k \in DOMAIN rooted
  <2>1. PICK j \in DOMAIN schedule[n].outputs : OutputValue(schedule[n], j) = v
    BY <1>1, <1>3, <1>4, TaskOutputs
  <2>2. schedule[n].outputs[j] = Store("ROOT", k) /\ j \in 1 .. Cardinality(Ids(program))
    BY <1>1, <1>4, <1>7, <2>1, TaskOutputs
  <2>3. <<n, j>> \in RootWrites(k)
    BY <1>4, <2>1, <2>2 DEF RootWrites
  <2> QED
    BY <1>2, <2>3
<1> QED
  BY <1>9, <1>10 DEF ResultOf, Made

\* The same of the next state.
LEMMA ResultFactsNext ==
  (Everything /\ RunsInOrder =>
    \A k \in DOMAIN program.roots : ResultOf(k) = IF Made(k) THEN program.roots[k] ELSE None)'
BY ResultFacts, PTL

\* A step of a run in order is a step of the data flow, or none.
LEMMA StepOfDataflow ==
  ASSUME Everything, Everything', RunsInOrder, RunsInOrder', [Next]_vars
  PROVE  [Dataflow!Next]_(Dataflow!vars)
<1> DEFINE result == [k \in DOMAIN program.roots |-> ResultOf(k)]
<1>1. program' = program /\ program \in Programs
  <2>1. program \in Programs
    BY DEF Everything, SInv, NameInv
  <2>2. CASE UNCHANGED vars
    BY <2>1, <2>2 DEF vars, nameVars
  <2>3. CASE AssignNames
    BY <2>1, <2>3, NameNextTyped DEF AssignNames, Everything, SInv
  <2>4. CASE Next /\ ~AssignNames
    BY <2>1, <2>4 DEF Next, nameVars, AddStores, AddHloModuleTask, PrioritizeReshards,
                      AddReshardTask, ScheduleNothing, PrepareStores, RunOperation, Finished
  <2> QED
    BY <2>2, <2>3, <2>4
<1>2. \A k \in DOMAIN program.roots : ResultOf(k) = IF Made(k) THEN program.roots[k] ELSE None
  BY ResultFacts
<1>3. \A k \in DOMAIN program.roots : ResultOf(k)' = IF Made(k)' THEN program.roots[k] ELSE None
  BY <1>1, ResultFactsNext
<1>4. ASSUME \A k \in DOMAIN program.roots : Made(k)' <=> Made(k)
      PROVE  result' = result
  BY <1>1, <1>2, <1>3, <1>4
<1>5. CASE UNCHANGED vars
  <2>1. UNCHANGED <<program, phase, schedule, ran>>
    BY <1>5 DEF vars, nameVars, scheduleVars
  <2>2. Ran' = Ran
    BY <2>1 DEF Ran
  <2>3. result' = result
    BY <1>4, <2>1, <2>2 DEF Made
  <2> QED
    BY <2>1, <2>2, <2>3 DEF Dataflow!vars
<1>6. CASE Next /\ Ran' = Ran
  <2>1. \/ phase \in {"run", "done"} <=> phase' \in {"run", "done"}
        \/ phase = "schedule"
    BY <1>6 DEF Next, AssignNames, scheduleVars, AddStores, Scheduling, AddHloModuleTask,
                PrioritizeReshards, AddReshardTask, ScheduleNothing, PrepareStores,
                RunOperation, Finished
  <2>2. phase = "schedule" => Ran = {}
    BY DEF Everything, SInv, Progress, Ran
  <2>3. result' = result
    BY <1>1, <1>4, <1>6, <2>1, <2>2 DEF Made
  <2> QED
    BY <1>1, <1>6, <2>3 DEF Dataflow!vars
<1>7. CASE Next /\ Ran' # Ran
  <2>1. phase = "run" /\ phase' = "run"
    BY <1>7, OneOperationRuns DEF Everything
  <2>2. PICK i \in Operations(program) :
          i \notin Ran /\ Dataflow!IsReady(i) /\ Ran' = Ran \cup {i}
    BY <1>7, OneOperationRuns DEF Everything
  <2>3. ASSUME NEW k \in DOMAIN program.roots
        PROVE  ResultOf(k)' = IF Dataflow!Producer(program, program.roots[k]) = i
                                THEN program.roots[k] ELSE ResultOf(k)
    <3> DEFINE v == program.roots[k]
    <3>1. Made(k)' <=> Made(k) \/ v \in Outputs(program, i)
      BY <1>1, <2>1, <2>2 DEF Made
    <3>2. Dataflow!Producer(program, v) = Producer(v)
      BY DEF Dataflow!Producer, Producer, Dataflow!Op, Op
    <3>3. v \in Outputs(program, i) <=> Producer(v) = i
      <4>1. v \in Values(program)
        BY <1>1, ProgramsAssumption DEF IsFlat
      <4>2. CASE Op(program, v) = "parameter"
        BY <1>1, <4>1, <4>2, OutputFacts DEF Producer, Operations
      <4>3. CASE Op(program, v) # "parameter"
        BY <1>1, <4>1, <4>3, OutputFacts, ProducerFacts
      <4> QED
        BY <4>2, <4>3
    <3> QED
      BY <1>2, <1>3, <3>1, <3>2, <3>3
  <2>4. result' = [k \in DOMAIN program.roots |->
                     IF Dataflow!Producer(program, program.roots[k]) = i
                       THEN program.roots[k] ELSE result[k]]
    BY <1>1, <2>3
  <2>5. Dataflow!Compute(i)
    BY <1>1, <2>2, <2>4 DEF Dataflow!Compute
  <2>6. i \in Dataflow!Operations(program)
    BY <2>2 DEF Operations, Dataflow!Operations, Ids, Dataflow!Ids, Op, Dataflow!Op
  <2> QED
    BY <2>5, <2>6 DEF Dataflow!Next
<1> QED
  BY <1>5, <1>6, <1>7

\* The safety part of ImplementsDataflow: a run in order computes every operation once,
\* after its operands, and the caller finds the results the root tuple names.
THEOREM RunImplementsDataflow ==
  Spec /\ []RunsInOrder => Dataflow!Init /\ [][Dataflow!Next]_(Dataflow!vars)
<1>1. Init => Dataflow!Init
  <2> SUFFICES ASSUME Init PROVE Dataflow!Init
    OBVIOUS
  <2>1. Ran = {}
    BY DEF Init, Ran
  <2>2. \A k : ResultOf(k) = 0
    BY DEF Init, ResultOf, None
  <2> QED
    BY <2>1, <2>2 DEF Dataflow!Init
<1> QED
  BY <1>1, StepOfDataflow, RunInvariance, PTL DEF Spec

-----------------------------------------------------------------------------
(***************************************************************************)
(* Programs that run in order.                                             *)
(***************************************************************************)

\* Reshard r moves output g of a call to other devices.
ReshardOf(p, r, g) == Op(p, r) = "reshard" /\ Op(p, g) = "gte" /\ p.n[r].in = <<g>>

\* Between an output and a reshard of it the post order has no operation but other
\* reshards of the output, in the order they were created.
ReshardsFollow(p) ==
  \A r, g \in Ids(p) : ReshardOf(p, r, g) =>
    \A i \in Operations(p) : Precedes(p, g, i) /\ Precedes(p, i, r) => ReshardOf(p, i, g) /\ i < r

\* No computation is called twice.
CalledOnce(p) ==
  \A c, d \in Ids(p) : Op(p, c) = "call" /\ Op(p, d) = "call" /\ p.n[c].comp = p.n[d].comp => c = d

\* An operation is scheduled at its turn or, a reshard, at the turn of its operand.
Moved ==
  \A k \in DOMAIN schedule : \E j \in 1 .. cursor - 1 :
    \/ schedule[k].op = program.order[j]
    \/ ReshardOf(program, schedule[k].op, program.order[j])

\* The reshards of an output that the loop has gone past are scheduled.
Fed ==
  \A j \in 1 .. cursor - 1 : \A r \in Ids(program) :
    ReshardOf(program, r, program.order[j]) => HasOp(schedule, r)

\* A sequence of operations is in post order.
Ascending(s) ==
  \A j, k \in DOMAIN s : j < k => Precedes(program, s[j].op, s[k].op)

\* An operand comes before its reader.
LEMMA OperandPrecedes ==
  ASSUME program \in Programs, NEW i \in Ids(program), NEW v \in Elements(program.n[i].in)
  PROVE  Precedes(program, v, i)
<1>1. PICK k \in DOMAIN program.order : program.order[k] = i
  BY HasPlace
<1>2. PICK j \in DOMAIN program.order : j < k /\ program.order[j] = v
  BY <1>1, OperandsFirst
<1> QED
  BY <1>1, <1>2 DEF Precedes

\* A reshard comes after the output it moves.
LEMMA ReshardFollowsOutput ==
  ASSUME program \in Programs, NEW r \in Ids(program), NEW g, ReshardOf(program, r, g)
  PROVE  Precedes(program, g, r)
<1>1. g \in Elements(program.n[r].in)
  BY DEF ReshardOf, Elements
<1> QED
  BY <1>1, OperandPrecedes

\* What is scheduled at the cursor comes after everything that is scheduled.
LEMMA ComesAfter ==
  ASSUME SInv, Moved, Fed, ReshardsFollow(program), cursor \in DOMAIN program.order,
         NEW x \in Operations(program), ~HasOp(schedule, x),
         x = program.order[cursor] \/ ReshardOf(program, x, program.order[cursor]),
         NEW k \in DOMAIN schedule
  PROVE  Precedes(program, schedule[k].op, x)
<1> DEFINE s == schedule[k].op
           c == program.order[cursor]
<1>1. /\ program \in Programs /\ s \in Operations(program) /\ s \in Ids(program)
      /\ x \in Ids(program) /\ s # x /\ program.order \in Seq(Ids(program))
  BY OrderIsSequence DEF SInv, NameInv, Topological, Operations, HasOp
<1>2. PICK j \in 1 .. cursor - 1 :
        s = program.order[j] \/ ReshardOf(program, s, program.order[j])
  BY DEF Moved
<1> DEFINE g == program.order[j]
<1>3. j \in DOMAIN program.order /\ j < cursor /\ g \in Ids(program) /\ c \in Ids(program)
  BY <1>1, <1>2
<1>4. Precedes(program, g, c)
  BY <1>3 DEF Precedes
<1>5. c = x \/ Precedes(program, c, x)
  BY <1>1, ReshardFollowsOutput
<1>6. Precedes(program, g, x)
  BY <1>1, <1>4, <1>5, PrecedesTransitive
<1> SUFFICES ASSUME Precedes(program, x, s) PROVE FALSE
  BY <1>1, OneComesFirst
<1>7. CASE s = g
  BY <1>1, <1>3, <1>6, <1>7, OneComesFirst
<1>8. CASE ReshardOf(program, s, g)
  <2>1. ReshardOf(program, x, g)
    BY <1>1, <1>3, <1>6, <1>8 DEF ReshardsFollow
  <2> QED
    BY <1>1, <1>2, <2>1 DEF Fed
<1> QED
  BY <1>2, <1>7, <1>8

\* A sequence in post order is extended in post order.
LEMMA AscendingExtended ==
  ASSUME NEW S, NEW s \in Seq(S), NEW T, NEW t \in Seq(T), Ascending(s), Ascending(t),
         \A j \in DOMAIN s, k \in DOMAIN t : Precedes(program, s[j].op, t[k].op)
  PROVE  Ascending(s \o t)
<1> DEFINE r == s \o t
<1>1. /\ Len(s) \in Nat /\ Len(t) \in Nat
      /\ DOMAIN s = 1 .. Len(s) /\ DOMAIN t = 1 .. Len(t) /\ DOMAIN r = 1 .. Len(s) + Len(t)
      /\ \A k \in DOMAIN s : r[k] = s[k]
      /\ \A k \in DOMAIN r : k > Len(s) => k - Len(s) \in DOMAIN t /\ r[k] = t[k - Len(s)]
  OBVIOUS
<1> HIDE DEF r
<1> SUFFICES ASSUME NEW j \in DOMAIN r, NEW k \in DOMAIN r, j < k
             PROVE  Precedes(program, r[j].op, r[k].op)
  BY DEF Ascending, r
<1>2. CASE k <= Len(s)
  <2>1. j \in DOMAIN s /\ k \in DOMAIN s
    BY <1>1, <1>2
  <2> QED
    BY <1>1, <2>1 DEF Ascending
<1>3. CASE j <= Len(s) /\ k > Len(s)
  <2>1. j \in DOMAIN s /\ k - Len(s) \in DOMAIN t /\ r[k] = t[k - Len(s)]
    BY <1>1, <1>3
  <2> QED
    BY <1>1, <2>1
<1>4. CASE j > Len(s)
  <2>1. /\ j - Len(s) \in DOMAIN t /\ r[j] = t[j - Len(s)]
        /\ k - Len(s) \in DOMAIN t /\ r[k] = t[k - Len(s)] /\ j - Len(s) < k - Len(s)
    BY <1>1, <1>4
  <2> QED
    BY <2>1 DEF Ascending
<1> QED
  BY <1>1, <1>2, <1>3, <1>4

\* The invariant that shows that a program of this kind is scheduled in post order.
Placed == Moved /\ Fed /\ (ReshardsFollow(program) => Ascending(schedule))

\* The instruction at the cursor is scheduled, and with it the reshards of an output.
LEMMA PlaceStep ==
  ASSUME SInv, Placed, NEW ops, Scheduling(ops), program' = program, cursor' = cursor + 1,
         NEW T, NEW t \in Seq(T), schedule' = schedule \o t,
         \A k \in DOMAIN t :
           /\ t[k].op \in Operations(program) /\ ~HasOp(schedule, t[k].op)
           /\ \/ t[k].op = program.order[cursor]
              \/ ReshardOf(program, t[k].op, program.order[cursor]),
         \A r \in Ids(program) : ReshardOf(program, r, program.order[cursor]) =>
           HasOp(schedule, r) \/ HasOp(t, r),
         ReshardsFollow(program) => Ascending(t)
  PROVE  Placed'
<1>1. /\ cursor \in DOMAIN program.order /\ cursor \in Nat \ {0}
      /\ 1 .. cursor' - 1 = (1 .. cursor - 1) \cup {cursor}
  <2>1. cursor \in DOMAIN program.order /\ cursor \in Nat \ {0}
    BY SchedulingFacts
  <2> QED
    BY <2>1
<1>2. PICK S : schedule \in Seq(S)
  BY DEF SInv, Topological
<1>3. /\ \A k \in DOMAIN schedule' : \/ k \in DOMAIN schedule /\ schedule'[k] = schedule[k]
                                     \/ \E j \in DOMAIN t : schedule'[k] = t[j]
      /\ \A k \in DOMAIN schedule : k \in DOMAIN schedule' /\ schedule'[k] = schedule[k]
      /\ \A j \in DOMAIN t : \E k \in DOMAIN schedule' : schedule'[k] = t[j]
  <2>1. /\ Len(schedule) \in Nat /\ Len(t) \in Nat /\ DOMAIN schedule = 1 .. Len(schedule)
        /\ DOMAIN t = 1 .. Len(t) /\ DOMAIN schedule' = 1 .. Len(schedule) + Len(t)
    BY <1>2
  <2>2. \A k \in DOMAIN schedule : k \in DOMAIN schedule' /\ schedule'[k] = schedule[k]
    BY <1>2, <2>1
  <2>3. \A j \in DOMAIN t : Len(schedule) + j \in DOMAIN schedule' /\ schedule'[Len(schedule) + j] = t[j]
    BY <1>2, <2>1
  <2>4. ASSUME NEW k \in DOMAIN schedule', k > Len(schedule)
        PROVE  k - Len(schedule) \in DOMAIN t /\ schedule'[k] = t[k - Len(schedule)]
    BY <1>2, <2>1, <2>4
  <2>5. \A k \in DOMAIN schedule' : k <= Len(schedule) \/ k > Len(schedule)
    BY <2>1
  <2>6. \A k \in DOMAIN schedule' : k <= Len(schedule) => k \in DOMAIN schedule
    BY <2>1
  <2> QED
    BY <2>2, <2>3, <2>4, <2>5, <2>6
<1>4. Moved'
  <2> SUFFICES ASSUME NEW k \in DOMAIN schedule'
               PROVE  \E j \in 1 .. cursor' - 1 :
                        \/ schedule'[k].op = program.order[j]
                        \/ ReshardOf(program, schedule'[k].op, program.order[j])
    BY DEF Moved
  <2>1. CASE k \in DOMAIN schedule /\ schedule'[k] = schedule[k]
    BY <1>1, <2>1 DEF Placed, Moved
  <2>2. CASE \E j \in DOMAIN t : schedule'[k] = t[j]
    BY <1>1, <2>2
  <2> QED
    BY <1>3, <2>1, <2>2
<1>5. Fed'
  <2>1. \A i : HasOp(schedule, i) \/ HasOp(t, i) => HasOp(schedule', i)
    <3>1. ASSUME NEW i, HasOp(schedule, i) PROVE HasOp(schedule', i)
      <4>1. PICK k \in DOMAIN schedule : schedule[k].op = i
        BY <3>1 DEF HasOp
      <4> QED
        BY <1>3, <4>1 DEF HasOp
    <3>2. ASSUME NEW i, HasOp(t, i) PROVE HasOp(schedule', i)
      <4>1. PICK j \in DOMAIN t : t[j].op = i
        BY <3>2 DEF HasOp
      <4>2. PICK k \in DOMAIN schedule' : schedule'[k] = t[j]
        BY <1>3
      <4> QED
        BY <4>1, <4>2 DEF HasOp
    <3> QED
      BY <3>1, <3>2
  <2> SUFFICES ASSUME NEW j \in 1 .. cursor' - 1, NEW r \in Ids(program),
                      ReshardOf(program, r, program.order[j])
               PROVE  HasOp(schedule', r)
    BY DEF Fed, HasOp
  <2> QED
    BY <1>1, <2>1 DEF Placed, Fed
<1>6. ASSUME ReshardsFollow(program) PROVE Ascending(schedule')
  <2>1. \A j \in DOMAIN schedule, k \in DOMAIN t : Precedes(program, schedule[j].op, t[k].op)
    BY <1>1, <1>6, ComesAfter DEF Placed
  <2> QED
    BY <1>2, <1>6, <2>1, AscendingExtended DEF Placed
<1>7. (ReshardsFollow(program) => Ascending(schedule))'
  BY <1>6 DEF Ascending
<1> QED
  BY <1>4, <1>5, <1>7 DEF Placed

\* A call is scheduled at its turn.
LEMMA AddHloModuleTaskPlaced == ASSUME SInv, Placed, AddHloModuleTask PROVE Placed'
<1> DEFINE call == program.order[cursor]
           task == SpmdHloModuleTask(call)
<1>1. /\ Scheduling({"call"}) /\ schedule' = Append(schedule, task)
      /\ program' = program /\ cursor' = cursor + 1
  BY DEF AddHloModuleTask, nameVars
<1>2. /\ cursor \in DOMAIN program.order /\ cursor \in Nat \ {0} /\ program \in Programs
      /\ call \in Ids(program) /\ Op(program, call) = "call" /\ phase = "schedule"
  BY <1>1, SchedulingFacts
<1>3. call \in Operations(program) /\ task.op = call
  BY <1>2 DEF Operations, SpmdHloModuleTask
<1>4. ~HasOp(schedule, call)
  BY <1>2, CallIsNew
<1>5. \A r \in Ids(program) : ~ReshardOf(program, r, call)
  BY <1>2 DEF ReshardOf
<1> HIDE DEF task, call
<1> DEFINE t == <<task>>
<1>6. t \in Seq({task}) /\ DOMAIN t = {1} /\ t[1] = task
  OBVIOUS
<1>7. schedule' = schedule \o t
  BY <1>1 DEF SInv, Topological
<1>8. Ascending(t)
  BY <1>6 DEF Ascending
<1> HIDE DEF t
<1> QED
  BY <1>1, <1>3, <1>4, <1>5, <1>6, <1>7, <1>8, PlaceStep DEF call

\* Reshards are scheduled, the ones created first before the others.
LEMMA AddReshardTasksPlaced ==
  ASSUME SInv, Placed, NEW ops, Scheduling(ops), program' = program, cursor' = cursor + 1,
         NEW R, R \subseteq {u \in Ids(program) : Op(program, u) = "reshard"},
         AddReshardTasks(R),
         \A u \in R : u = program.order[cursor] \/ ReshardOf(program, u, program.order[cursor]),
         \A r \in Ids(program) : ReshardOf(program, r, program.order[cursor]) => r \in R,
         ReshardsFollow(program) => \A u, w \in R : u < w => Precedes(program, u, w)
  PROVE  Placed'
<1>1. program \in Programs
  BY SchedulingFacts
<1>2. PICK t : /\ \E T : t \in Seq(T)
               /\ schedule' = schedule \o t
               /\ \A k \in DOMAIN t : /\ t[k] = Reshard(t[k].op) /\ t[k].op \in R
                                      /\ ~HasOp(schedule, t[k].op)
               /\ \A u \in R : HasOp(schedule, u) \/ HasOp(t, u)
               /\ \A j, k \in DOMAIN t : j < k => t[j].op < t[k].op
               /\ \A j, k \in DOMAIN t : t[j].op = t[k].op => j = k
  BY <1>1, ReshardsAppended
<1>3. PICK T : t \in Seq(T)
  BY <1>2
<1>4. \A k \in DOMAIN t :
        /\ t[k].op \in Operations(program) /\ ~HasOp(schedule, t[k].op)
        /\ \/ t[k].op = program.order[cursor]
           \/ ReshardOf(program, t[k].op, program.order[cursor])
  BY <1>2 DEF Operations
<1>5. \A r \in Ids(program) : ReshardOf(program, r, program.order[cursor]) =>
        HasOp(schedule, r) \/ HasOp(t, r)
  BY <1>2
<1>6. ReshardsFollow(program) => Ascending(t)
  BY <1>2 DEF Ascending
<1> QED
  BY <1>2, <1>3, <1>4, <1>5, <1>6, PlaceStep

\* The reshards of an output are scheduled with it.
LEMMA PrioritizeReshardsPlaced == ASSUME SInv, Placed, PrioritizeReshards PROVE Placed'
<1> DEFINE g == program.order[cursor]
           R == {u \in Readers(program, g) : Op(program, u) = "reshard"}
<1>1. /\ Scheduling({"gte"}) /\ AddReshardTasks(R)
      /\ program' = program /\ cursor' = cursor + 1
  BY DEF PrioritizeReshards, nameVars
<1>2. program \in Programs /\ g \in Ids(program) /\ Op(program, g) = "gte"
  BY <1>1, SchedulingFacts
<1>3. \A u : u \in R <=> u \in Ids(program) /\ ReshardOf(program, u, g)
  <2>1. ASSUME NEW u \in R PROVE u \in Ids(program) /\ ReshardOf(program, u, g)
    <3>1. u \in Ids(program) /\ Op(program, u) = "reshard" /\ g \in Elements(program.n[u].in)
      BY DEF Readers
    <3>2. PICK w \in Values(program) : program.n[u].in = <<w>>
      BY <1>2, <3>1, ProgramsAssumption DEF IsFlat
    <3>3. w = g
      BY <3>1, <3>2 DEF Elements
    <3> QED
      BY <1>2, <3>1, <3>2, <3>3 DEF ReshardOf
  <2>2. ASSUME NEW u \in Ids(program), ReshardOf(program, u, g) PROVE u \in R
    BY <2>2 DEF ReshardOf, Readers, Elements
  <2> QED
    BY <2>1, <2>2
<1>4. R \subseteq {u \in Ids(program) : Op(program, u) = "reshard"}
  BY <1>3
<1> HIDE DEF R
<1>5. ASSUME ReshardsFollow(program), NEW u \in R, NEW w \in R, u < w
      PROVE  Precedes(program, u, w)
  <2>1. /\ u \in Ids(program) /\ ReshardOf(program, u, g)
        /\ w \in Ids(program) /\ ReshardOf(program, w, g)
        /\ u \in Nat /\ w \in Nat /\ w \in Operations(program)
    BY <1>2, <1>3, IdsPositive DEF ReshardOf, Operations
  <2>2. Precedes(program, g, w)
    BY <1>2, <2>1, ReshardFollowsOutput
  <2>3. ~Precedes(program, w, u)
    <3> SUFFICES ASSUME Precedes(program, w, u) PROVE FALSE
      OBVIOUS
    <3>1. w < u
      BY <1>2, <1>5, <2>1, <2>2 DEF ReshardsFollow
    <3> QED
      BY <1>5, <2>1, <3>1
  <2>4. u # w
    BY <1>5, <2>1
  <2> QED
    BY <1>2, <2>1, <2>3, <2>4, OneComesFirst
<1> QED
  BY <1>1, <1>3, <1>4, <1>5, AddReshardTasksPlaced

\* A reshard that was not scheduled with its operand is scheduled at its turn.
LEMMA AddReshardTaskPlaced == ASSUME SInv, Placed, AddReshardTask PROVE Placed'
<1> DEFINE r == program.order[cursor]
           R == {r}
<1>1. /\ Scheduling({"reshard"}) /\ AddReshardTasks(R)
      /\ program' = program /\ cursor' = cursor + 1
  BY DEF AddReshardTask, nameVars
<1>2. program \in Programs /\ r \in Ids(program) /\ Op(program, r) = "reshard" /\ r \in Nat
  BY <1>1, SchedulingFacts, IdsPositive
<1>3. R \subseteq {u \in Ids(program) : Op(program, u) = "reshard"}
  BY <1>2
<1>4. \A u \in Ids(program) : ~ReshardOf(program, u, r)
  BY <1>2 DEF ReshardOf
<1>5. (\A u \in R : u = r) /\ \A u, w \in R : ~(u < w)
  BY <1>2
<1> HIDE DEF R
<1> QED
  BY <1>1, <1>3, <1>4, <1>5, AddReshardTasksPlaced

\* Placed is an invariant: while the loop over the post order schedules a call, a reshard
\* or the reshards of an output, all that it adds comes after all that it has added.
LEMMA PlacedInvariance == Spec => []Placed
<1>1. Init => Placed
  <2> SUFFICES ASSUME Init PROVE Placed
    OBVIOUS
  <2>1. DOMAIN schedule = {} /\ 1 .. cursor - 1 = {}
    BY DEF Init
  <2> QED
    BY <2>1 DEF Placed, Moved, Fed, Ascending
<1>2. SInv /\ Placed /\ [Next]_vars => Placed'
  <2> SUFFICES ASSUME SInv, Placed, [Next]_vars PROVE Placed'
    OBVIOUS
  <2>1. CASE ScheduleNothing
    <3>1. /\ Scheduling({"parameter", "offset"}) /\ schedule' = schedule
          /\ program' = program /\ cursor' = cursor + 1
      BY <2>1 DEF ScheduleNothing, nameVars
    <3>2. Op(program, program.order[cursor]) \in {"parameter", "offset"}
      BY <3>1, SchedulingFacts
    <3>3. \A r \in Ids(program) : ~ReshardOf(program, r, program.order[cursor])
      BY <3>2 DEF ReshardOf
    <3> DEFINE t == <<>>
    <3>4. schedule' = schedule \o t /\ t \in Seq({}) /\ DOMAIN t = {}
      BY <3>1 DEF SInv, Topological
    <3>5. Ascending(t)
      BY <3>4 DEF Ascending
    <3> HIDE DEF t
    <3> QED
      BY <3>1, <3>3, <3>4, <3>5, PlaceStep
  <2>2. CASE \/ AssignNames \/ AddStores \/ PrepareStores \/ RunOperation \/ Finished
             \/ UNCHANGED vars
    <3>1. program' = program
      BY <2>2, NameNextTyped DEF SInv, AssignNames, AddStores, PrepareStores, RunOperation,
                                 Finished, vars, nameVars
    <3>2. UNCHANGED <<schedule, cursor>>
      BY <2>2 DEF AssignNames, AddStores, PrepareStores, RunOperation, Finished, vars,
                  scheduleVars
    <3> QED
      BY <3>1, <3>2 DEF Placed, Moved, Fed, Ascending, HasOp
  <2> QED
    BY <2>1, <2>2, AddHloModuleTaskPlaced, PrioritizeReshardsPlaced, AddReshardTaskPlaced
       DEF Next
<1> QED
  BY <1>1, <1>2, ScheduleInvariance, PTL DEF Spec

\* A program whose reshards follow the outputs they move is scheduled in post order,
\* although PrioritizeReshardsInSchedule moves every reshard to its operand.
THEOREM ScheduledInPostOrder == Spec => [](ReshardsFollow(program) => KeepsPostOrder)
<1>1. Placed => (ReshardsFollow(program) => KeepsPostOrder)
  BY DEF Placed, Ascending, KeepsPostOrder
<1> QED
  BY <1>1, PlacedInvariance, PTL

\* The modules are those of the scheduled calls.
OwnModules ==
  \A c \in DOMAIN modules : \E k \in DOMAIN schedule :
    Op(program, schedule[k].op) = "call" /\ program.n[schedule[k].op].comp = c

\* The invariant that shows that a module fits its call.
Fitting == OwnModules /\ (CalledOnce(program) => ModulesFit)

\* A call makes the module of its computation when no other call did.
LEMMA AddHloModuleTaskFitting ==
  ASSUME SInv, Tables, Fitting, AddHloModuleTask PROVE Fitting'
<1> DEFINE call == program.order[cursor]
           task == SpmdHloModuleTask(call)
           comp == program.n[task.op].comp
           With(config) == [c \in DOMAIN modules \cup {comp} |->
                              IF c = comp THEN config ELSE modules[c]]
<1>1. /\ Scheduling({"call"}) /\ schedule' = Append(schedule, task)
      /\ modules' \in IF comp \in DOMAIN modules THEN {modules}
                      ELSE {With(config) : config \in AliasConfigs(task)}
      /\ UNCHANGED <<program, name, last_use>>
  BY DEF AddHloModuleTask, nameVars
<1>2. /\ cursor \in DOMAIN program.order /\ program \in Programs /\ phase = "schedule"
      /\ call \in Ids(program) /\ Op(program, call) = "call"
  <2>1. Scheduling({"call"})
    BY <1>1
  <2> QED
    BY <2>1, SchedulingFacts
<1>3. task.op = call /\ ~HasOp(schedule, call)
  <2>1. task.op = call
    BY DEF SpmdHloModuleTask
  <2>2. ~HasOp(schedule, call)
    BY <1>2, CallIsNew
  <2> QED
    BY <2>1, <2>2
<1>4. \A t : AliasConfigs(t)' = AliasConfigs(t)
  BY <1>1, ConfigsKept
<1>5. \A k \in DOMAIN schedule :
        /\ schedule[k].op \in Ids(program) /\ schedule[k].op # call
        /\ Op(program, schedule[k].op) = "call" => program.n[schedule[k].op].comp \in DOMAIN modules
  BY <1>2, <1>3 DEF SInv, Topological, Operations, HasOp, Tables, Compiled
<1> HIDE DEF task, call
<1>6. /\ \A k \in DOMAIN schedule' : \/ k \in DOMAIN schedule /\ schedule'[k] = schedule[k]
                                     \/ schedule'[k] = task
      /\ \A k \in DOMAIN schedule : k \in DOMAIN schedule' /\ schedule'[k] = schedule[k]
      /\ \E k \in DOMAIN schedule' : schedule'[k] = task
  <2>1. PICK S : schedule \in Seq(S)
    BY DEF SInv, Topological
  <2>2. /\ Len(schedule) \in Nat /\ DOMAIN schedule = 1 .. Len(schedule)
        /\ DOMAIN schedule' = 1 .. Len(schedule) + 1
        /\ schedule'[Len(schedule) + 1] = task
        /\ \A k \in DOMAIN schedule : schedule'[k] = schedule[k]
    BY <1>1, <2>1
  <2> QED
    BY <2>2
<1> HIDE DEF comp
<1>7. OwnModules'
  <2>1. DOMAIN modules' \subseteq DOMAIN modules \cup {comp}
    BY <1>1
  <2> SUFFICES ASSUME NEW c \in DOMAIN modules \cup {comp}
               PROVE  \E k \in DOMAIN schedule' :
                        Op(program, schedule'[k].op) = "call" /\ program.n[schedule'[k].op].comp = c
    BY <1>1, <2>1 DEF OwnModules
  <2>2. CASE c \in DOMAIN modules
    <3>1. PICK k \in DOMAIN schedule :
            Op(program, schedule[k].op) = "call" /\ program.n[schedule[k].op].comp = c
      BY <2>2 DEF Fitting, OwnModules
    <3> QED
      BY <1>6, <3>1
  <2>3. CASE c = comp
    BY <1>2, <1>3, <1>6, <2>3 DEF comp
  <2> QED
    BY <2>2, <2>3
<1>8. ASSUME CalledOnce(program), NEW k \in DOMAIN schedule', Op(program, schedule'[k].op) = "call"
      PROVE  modules'[program.n[schedule'[k].op].comp] \in AliasConfigs(schedule'[k])
  <2>1. comp \notin DOMAIN modules
    <3> SUFFICES ASSUME comp \in DOMAIN modules PROVE FALSE
      OBVIOUS
    <3>1. PICK j \in DOMAIN schedule :
            Op(program, schedule[j].op) = "call" /\ program.n[schedule[j].op].comp = comp
      BY DEF Fitting, OwnModules
    <3> QED
      BY <1>2, <1>3, <1>5, <1>8, <3>1 DEF CalledOnce, comp
  <2>2. PICK config \in AliasConfigs(task) : modules' = With(config)
    BY <1>1, <2>1
  <2>3. CASE k \in DOMAIN schedule /\ schedule'[k] = schedule[k]
    <3> DEFINE d == program.n[schedule[k].op].comp
    <3>1. d \in DOMAIN modules /\ d # comp
      BY <1>5, <1>8, <2>1, <2>3
    <3>2. modules'[d] = modules[d]
      BY <2>2, <3>1
    <3> QED
      BY <1>8, <2>3, <3>2 DEF Fitting, ModulesFit
  <2>4. CASE schedule'[k] = task
    <3>1. modules'[comp] = config
      BY <2>2
    <3> QED
      BY <2>2, <2>4, <3>1 DEF comp
  <2> QED
    BY <1>6, <2>3, <2>4
<1>9. (CalledOnce(program) => ModulesFit)'
  BY <1>1, <1>4, <1>8 DEF ModulesFit
<1> QED
  BY <1>7, <1>9 DEF Fitting

\* Reshards have no modules.
LEMMA AddReshardTasksFitting ==
  ASSUME SInv, Fitting, NEW ops, Scheduling(ops),
         NEW R, R \subseteq {u \in Ids(program) : Op(program, u) = "reshard"},
         AddReshardTasks(R), UNCHANGED <<program, name, last_use, modules>>
  PROVE  Fitting'
<1>1. program \in Programs
  BY SchedulingFacts
<1>2. PICK t : /\ \E T : t \in Seq(T)
               /\ schedule' = schedule \o t
               /\ \A k \in DOMAIN t : /\ t[k] = Reshard(t[k].op) /\ t[k].op \in R
                                      /\ ~HasOp(schedule, t[k].op)
               /\ \A u \in R : HasOp(schedule, u) \/ HasOp(t, u)
               /\ \A j, k \in DOMAIN t : j < k => t[j].op < t[k].op
               /\ \A j, k \in DOMAIN t : t[j].op = t[k].op => j = k
  BY <1>1, ReshardsAppended
<1>3. PICK T : t \in Seq(T)
  BY <1>2
<1>4. PICK S : schedule \in Seq(S)
  BY DEF SInv, Topological
<1>5. /\ Len(schedule) \in Nat /\ Len(t) \in Nat /\ DOMAIN schedule = 1 .. Len(schedule)
      /\ DOMAIN t = 1 .. Len(t) /\ DOMAIN schedule' = 1 .. Len(schedule) + Len(t)
      /\ \A k \in DOMAIN schedule : schedule'[k] = schedule[k]
      /\ \A k \in DOMAIN schedule' : k > Len(schedule) =>
           k - Len(schedule) \in DOMAIN t /\ schedule'[k] = t[k - Len(schedule)]
  BY <1>2, <1>3, <1>4
<1>6. \A k \in DOMAIN schedule : k \in DOMAIN schedule' /\ schedule'[k] = schedule[k]
  BY <1>5
<1>7. \A k \in DOMAIN schedule' :
        Op(program, schedule'[k].op) = "call" => k \in DOMAIN schedule /\ schedule'[k] = schedule[k]
  <2> SUFFICES ASSUME NEW k \in DOMAIN schedule', Op(program, schedule'[k].op) = "call"
               PROVE  k \in DOMAIN schedule
    BY <1>6
  <2>1. ~(k > Len(schedule))
    BY <1>2, <1>5
  <2> QED
    BY <1>5, <2>1
<1>8. \A task : AliasConfigs(task)' = AliasConfigs(task)
  BY ConfigsKept
<1>9. OwnModules'
  BY <1>6 DEF Fitting, OwnModules
<1>10. (CalledOnce(program) => ModulesFit)'
  BY <1>7, <1>8 DEF Fitting, ModulesFit
<1> QED
  BY <1>9, <1>10 DEF Fitting

\* Fitting is an invariant: the names and the last readers that a module was made from do
\* not change while there are modules.
LEMMA FittingInvariance == Spec => []Fitting
<1>1. Init => Fitting
  <2> SUFFICES ASSUME Init PROVE Fitting
    OBVIOUS
  <2>1. DOMAIN schedule = {} /\ DOMAIN modules = {}
    BY DEF Init
  <2> QED
    BY <2>1 DEF Fitting, OwnModules, ModulesFit
<1>2. SInv /\ Tables /\ Fitting /\ [Next]_vars => Fitting'
  <2> SUFFICES ASSUME SInv, Tables, Fitting, [Next]_vars PROVE Fitting'
    OBVIOUS
  <2>1. CASE AssignNames \/ AddStores
    <3>1. UNCHANGED <<schedule, modules>> /\ phase = "name"
      BY <2>1 DEF AssignNames, AddStores, scheduleVars
    <3>2. DOMAIN schedule = {}
      BY <3>1 DEF Tables
    <3>3. DOMAIN modules' = {} /\ DOMAIN schedule' = {}
      BY <3>1, <3>2 DEF Fitting, OwnModules
    <3> QED
      BY <3>3 DEF Fitting, OwnModules, ModulesFit
  <2>2. CASE PrioritizeReshards
    <3> DEFINE R == {u \in Readers(program, program.order[cursor]) : Op(program, u) = "reshard"}
    <3>1. /\ Scheduling({"gte"}) /\ AddReshardTasks(R)
          /\ UNCHANGED <<program, name, last_use, modules>>
      BY <2>2 DEF PrioritizeReshards, nameVars
    <3>2. R \subseteq {u \in Ids(program) : Op(program, u) = "reshard"}
      BY DEF Readers
    <3> HIDE DEF R
    <3> QED
      BY <3>1, <3>2, AddReshardTasksFitting
  <2>3. CASE AddReshardTask
    <3> DEFINE R == {program.order[cursor]}
    <3>1. /\ Scheduling({"reshard"}) /\ AddReshardTasks(R)
          /\ UNCHANGED <<program, name, last_use, modules>>
      BY <2>3 DEF AddReshardTask, nameVars
    <3>2. R \subseteq {u \in Ids(program) : Op(program, u) = "reshard"}
      BY <3>1, SchedulingFacts
    <3> HIDE DEF R
    <3> QED
      BY <3>1, <3>2, AddReshardTasksFitting
  <2>4. CASE ScheduleNothing \/ PrepareStores \/ RunOperation \/ Finished \/ UNCHANGED vars
    <3>1. UNCHANGED <<program, name, last_use, schedule, modules>>
      BY <2>4 DEF ScheduleNothing, PrepareStores, RunOperation, Finished, vars, scheduleVars,
                  nameVars
    <3>2. \A task : AliasConfigs(task)' = AliasConfigs(task)
      BY <3>1, ConfigsKept
    <3> QED
      BY <3>1, <3>2 DEF Fitting, OwnModules, ModulesFit
  <2> QED
    BY <2>1, <2>2, <2>3, <2>4, AddHloModuleTaskFitting DEF Next
<1> QED
  BY <1>1, <1>2, ScheduleInvariance, TablesInvariance, PTL DEF Spec

\* Accumulators are chained, reshards follow the outputs they move, and no computation is
\* called twice.
IsOrderly(p) == IsWellNamed(p) /\ IsChained(p) /\ ReshardsFollow(p) /\ CalledOnce(p)

\* The conditions on a program under which its schedule runs in order.
THEOREM OrderlyProgramsRunInOrder == Spec => [](IsOrderly(program) => RunsInOrder)
<1>1. Fitting /\ (ReshardsFollow(program) => KeepsPostOrder) =>
        (IsOrderly(program) => RunsInOrder)
  BY DEF Fitting, IsOrderly, RunsInOrder
<1> QED
  BY <1>1, FittingInvariance, ScheduledInPostOrder, PTL

\* No step changes the program.
LEMMA ProgramKept == Spec => [](IsOrderly(program) => [](IsOrderly(program)))
<1>1. SInv /\ [Next]_vars => program' = program
  <2> SUFFICES ASSUME SInv, [Next]_vars PROVE program' = program
    OBVIOUS
  <2>1. CASE AssignNames
    BY <2>1, NameNextTyped DEF SInv, AssignNames
  <2> QED
    BY <2>1 DEF Next, AddStores, AddHloModuleTask, PrioritizeReshards, AddReshardTask,
                ScheduleNothing, PrepareStores, RunOperation, Finished, vars, nameVars
<1>2. SInv /\ [Next]_vars /\ IsOrderly(program) => IsOrderly(program)'
  <2> SUFFICES ASSUME program' = program, IsOrderly(program) PROVE IsOrderly(program')
    BY <1>1
  <2> QED
    OBVIOUS
<1> QED
  BY <1>2, ScheduleInvariance, PTL DEF Spec

\* Naming, storing, scheduling and running an orderly program computes its data flow: no
\* store is overwritten while its value is needed, every operation reads its operands, and
\* the results are in the root stores from the moment they are computed.
THEOREM OrderlyProgramsComputeDataflow ==
  Spec /\ IsOrderly(program) =>
    /\ [](ReadsOwnValues /\ StoresAreUnique)
    /\ Dataflow!Init /\ [][Dataflow!Next]_(Dataflow!vars)
BY OrderlyProgramsRunInOrder, ProgramKept, RunReadsOwnValues, RunKeepsStoresUnique,
   RunImplementsDataflow, PTL
=============================================================================
