------------------------- MODULE LoopUnrollProofs --------------------------
(***************************************************************************)
(* Unrolling a loop is correct for every loop body, schedule and placement *)
(* of the stages on devices: the clones consume what the sequential loop   *)
(* has them consume, the tasks of a device list are totally ordered by the *)
(* control dependencies, and data flow and control dependencies of a       *)
(* pipelined loop close no cycle.                                          *)
(*                                                                         *)
(* Three definitions of LoopUnroll are recursive functions: the tasks left *)
(* after repeated removal (OnOrBelowCycle), the tasks reached (Reachable)  *)
(* and the state of the sequential loop (SequentialState).  A lemma each   *)
(* gives their equations (from FunctionByRecursion), and induction on the  *)
(* number of rounds what they compute.                                     *)
(***************************************************************************)
EXTENDS LoopUnroll, LoopSchedulerProofs, Induction

-----------------------------------------------------------------------------
(***************************************************************************)
(* Graphs of tasks.                                                        *)
(***************************************************************************)

\* The loop has finitely many tasks.
LEMMA TasksFinite ==
  ASSUME IInv
  PROVE  IsFiniteSet(Tasks) /\ Cardinality(Tasks) \in Nat
<1>1. config.num_iterations - 1 \in Int /\ config.stages - 1 \in Int
  BY ConfigFacts
<1>2. IsFiniteSet(Iters) /\ IsFiniteSet(Stages)
  BY <1>1, FS_Interval DEF Iters, Stages
<1>3. IsFiniteSet(Tasks)
  BY <1>2, FS_Product DEF Tasks
<1> QED
  BY <1>3, FS_CardinalityType

\* The ends of the edges inside a set of tasks.
Inside(edges, X) == { e[2] : e \in { e \in edges : e[1] \in X /\ e[2] \in X } }

\* The recursive function of OnOrBelowCycle.
LEMMA LeftFunction ==
  ASSUME IInv, NEW edges
  PROVE  \E left \in [0 .. Cardinality(Tasks) -> SUBSET Tasks] :
           /\ left[0] = Tasks
           /\ \A k \in 1 .. Cardinality(Tasks) : left[k] = Inside(edges, left[k - 1])
           /\ OnOrBelowCycle(edges) = left[Cardinality(Tasks)]
<1> DEFINE N == Cardinality(Tasks)
           V == SUBSET Tasks
           G == [k \in 1 .. N |-> [X \in V |-> Inside(edges, X)]]
           Def(f) == f = [k \in 0 .. N |-> IF k = 0 THEN Tasks ELSE Inside(edges, f[k - 1])]
           left == CHOOSE f : Def(f)
<1>1. N \in Nat
  BY TasksFinite
<1>2. \A X \in V : Inside(edges, X) \in V
  BY DEF Inside
<1>3. G \in [1 .. N -> [V -> V]] /\ Tasks \in V
  BY <1>2
<1>4. PICK f : RecursiveUpTo(f, N, V, Tasks, G)
  <2> HIDE DEF N, V, G
  <2> QED
    BY <1>1, <1>3, FunctionByRecursion
<1>5. f \in [0 .. N -> V] /\ f[0] = Tasks /\ \A k \in 1 .. N : f[k] = G[k][f[k - 1]]
  BY <1>4 DEF RecursiveUpTo
<1>6. \A k \in 1 .. N : f[k] = Inside(edges, f[k - 1])
  <2> SUFFICES ASSUME NEW k \in 1 .. N PROVE f[k] = Inside(edges, f[k - 1])
    OBVIOUS
  <2>1. k - 1 \in 0 .. N
    BY <1>1
  <2>2. f[k - 1] \in V
    BY <1>5, <2>1
  <2> HIDE DEF N, V
  <2> QED
    BY <1>5, <2>2
<1>7. Def(f)
  <2> HIDE DEF N, V
  <2>1. ASSUME NEW k \in 0 .. N PROVE f[k] = IF k = 0 THEN Tasks ELSE Inside(edges, f[k - 1])
    BY <1>1, <1>5, <1>6
  <2> QED
    BY <1>5, <2>1
<1>8. Def(left)
  <2> HIDE DEF Def
  <2> QED
    BY <1>7
<1>9. OnOrBelowCycle(edges) = left[N]
  BY DEF OnOrBelowCycle, Inside
<1>10. DOMAIN left = 0 .. N /\ left = [k \in 0 .. N |-> left[k]] /\ left[0] = Tasks
  <2> HIDE DEF left, N
  <2> QED
    BY <1>1, <1>8
<1>11. \A k \in 1 .. N : left[k] = Inside(edges, left[k - 1])
  <2> HIDE DEF left, N
  <2> QED
    BY <1>1, <1>8
<1> HIDE DEF left, N, Def, V
<1>12. \A k \in 0 .. N : left[k] \in V
  <2> DEFINE S == {k \in 0 .. N : left[k] \in V}
  <2>1. 0 \in S
    BY <1>1, <1>3, <1>10
  <2>2. ASSUME NEW k \in 0 .. N - 1, k \in S PROVE k + 1 \in S
    <3>1. k + 1 \in 1 .. N /\ (k + 1) - 1 = k /\ k + 1 \in 0 .. N
      BY <1>1
    <3>2. left[k + 1] = Inside(edges, left[k])
      BY <1>11, <3>1
    <3> QED
      BY <1>2, <2>2, <3>1, <3>2
  <2> HIDE DEF S
  <2>3. \A k \in 0 .. N : k \in S
    BY <1>1, <2>1, <2>2, UpTo
  <2> QED
    BY <2>3 DEF S
<1>13. left \in [0 .. N -> V]
  BY <1>10, <1>12
<1> QED
  BY <1>9, <1>10, <1>11, <1>13 DEF N, V

\* A set of tasks with the ends of the edges that leave it.
Grown(edges, X) == X \cup { e[2] : e \in { e \in edges : e[1] \in X } }

\* The recursive function of Reachable.
LEMMA ReachedFunction ==
  ASSUME IInv, NEW edges \in SUBSET (Tasks \X Tasks), NEW t \in Tasks
  PROVE  \E reached \in [0 .. Cardinality(Tasks) -> SUBSET Tasks] :
           /\ reached[0] = {t}
           /\ \A k \in 1 .. Cardinality(Tasks) : reached[k] = Grown(edges, reached[k - 1])
           /\ Reachable(edges, t) = reached[Cardinality(Tasks)]
<1> DEFINE N == Cardinality(Tasks)
           V == SUBSET Tasks
           start == {t}
           G == [k \in 1 .. N |-> [X \in V |-> Grown(edges, X)]]
           Def(f) == f = [k \in 0 .. N |-> IF k = 0 THEN start ELSE Grown(edges, f[k - 1])]
           reached == CHOOSE f : Def(f)
<1>1. N \in Nat
  BY TasksFinite
<1>2. \A X \in V : Grown(edges, X) \in V
  BY DEF Grown
<1>3. G \in [1 .. N -> [V -> V]] /\ start \in V
  BY <1>2
<1>4. PICK f : RecursiveUpTo(f, N, V, start, G)
  <2> HIDE DEF N, V, G
  <2> QED
    BY <1>1, <1>3, FunctionByRecursion
<1>5. f \in [0 .. N -> V] /\ f[0] = start /\ \A k \in 1 .. N : f[k] = G[k][f[k - 1]]
  BY <1>4 DEF RecursiveUpTo
<1>6. \A k \in 1 .. N : f[k] = Grown(edges, f[k - 1])
  <2> SUFFICES ASSUME NEW k \in 1 .. N PROVE f[k] = Grown(edges, f[k - 1])
    OBVIOUS
  <2>1. k - 1 \in 0 .. N
    BY <1>1
  <2>2. f[k - 1] \in V
    BY <1>5, <2>1
  <2> HIDE DEF N, V
  <2> QED
    BY <1>5, <2>2
<1>7. Def(f)
  <2> HIDE DEF N, V
  <2>1. ASSUME NEW k \in 0 .. N PROVE f[k] = IF k = 0 THEN start ELSE Grown(edges, f[k - 1])
    BY <1>1, <1>5, <1>6
  <2> QED
    BY <1>5, <2>1
<1>8. Def(reached)
  <2> HIDE DEF Def
  <2> QED
    BY <1>7
<1>9. Reachable(edges, t) = reached[N]
  BY DEF Reachable, Grown
<1>10. DOMAIN reached = 0 .. N /\ reached = [k \in 0 .. N |-> reached[k]] /\ reached[0] = start
  <2> HIDE DEF reached, N, start
  <2> QED
    BY <1>1, <1>8
<1>11. \A k \in 1 .. N : reached[k] = Grown(edges, reached[k - 1])
  <2> HIDE DEF reached, N, start
  <2> QED
    BY <1>1, <1>8
<1> HIDE DEF reached, N, Def, V, start
<1>12. \A k \in 0 .. N : reached[k] \in V
  <2> DEFINE S == {k \in 0 .. N : reached[k] \in V}
  <2>1. 0 \in S
    BY <1>1, <1>3, <1>10
  <2>2. ASSUME NEW k \in 0 .. N - 1, k \in S PROVE k + 1 \in S
    <3>1. k + 1 \in 1 .. N /\ (k + 1) - 1 = k /\ k + 1 \in 0 .. N
      BY <1>1
    <3>2. reached[k + 1] = Grown(edges, reached[k])
      BY <1>11, <3>1
    <3> QED
      BY <1>2, <2>2, <3>1, <3>2
  <2> HIDE DEF S
  <2>3. \A k \in 0 .. N : k \in S
    BY <1>1, <2>1, <2>2, UpTo
  <2> QED
    BY <2>3 DEF S
<1>13. reached \in [0 .. N -> V]
  BY <1>10, <1>12
<1> QED
  BY <1>9, <1>10, <1>11, <1>13 DEF N, V, start

\* What remains after the removals has, for each of its tasks, an edge that
\* comes from within.
LEMMA CycleCore ==
  ASSUME IInv, NEW edges
  PROVE  /\ OnOrBelowCycle(edges) \subseteq Tasks
         /\ \A x \in OnOrBelowCycle(edges) :
              \E e \in edges : e[2] = x /\ e[1] \in OnOrBelowCycle(edges)
<1> DEFINE N == Cardinality(Tasks)
<1>1. IsFiniteSet(Tasks) /\ N \in Nat
  BY TasksFinite
<1>2. PICK left \in [0 .. N -> SUBSET Tasks] :
        /\ left[0] = Tasks
        /\ \A k \in 1 .. N : left[k] = Inside(edges, left[k - 1])
        /\ OnOrBelowCycle(edges) = left[N]
  BY LeftFunction
<1> HIDE DEF N
<1>3. \A k \in 0 .. N : left[k] \subseteq Tasks
  BY <1>2
<1>4. \A X : Inside(edges, X) \subseteq X
  BY DEF Inside
<1> DEFINE Small(k) == Cardinality(left[k]) <= N - k \/ Inside(edges, left[k]) = left[k]
           T == {k \in 0 .. N : Small(k)}
<1>5. 0 \in T
  BY <1>1, <1>2 DEF N
<1>6. ASSUME NEW k \in 0 .. N - 1, k \in T PROVE k + 1 \in T
  <2>1. k \in 0 .. N /\ k + 1 \in 0 .. N /\ k + 1 \in 1 .. N /\ (k + 1) - 1 = k
    BY <1>1
  <2>2. left[k + 1] = Inside(edges, left[k])
    BY <1>2, <2>1
  <2>3. CASE Inside(edges, left[k]) = left[k]
    BY <2>1, <2>2, <2>3
  <2>4. CASE Inside(edges, left[k]) # left[k]
    <3>1. IsFiniteSet(left[k]) /\ IsFiniteSet(left[k + 1])
      BY <1>1, <1>3, <2>1, FS_Subset
    <3>2. left[k + 1] \subseteq left[k] /\ left[k + 1] # left[k]
      BY <1>4, <2>2, <2>4
    <3>3. /\ Cardinality(left[k + 1]) <= Cardinality(left[k])
          /\ Cardinality(left[k + 1]) # Cardinality(left[k])
      BY <3>1, <3>2, FS_Subset
    <3>4. Cardinality(left[k]) \in Nat /\ Cardinality(left[k + 1]) \in Nat
      BY <3>1, FS_CardinalityType
    <3>5. Cardinality(left[k]) <= N - k
      BY <1>6, <2>4
    <3>6. Cardinality(left[k + 1]) <= N - (k + 1)
      BY <1>1, <2>1, <3>3, <3>4, <3>5
    <3> QED
      BY <2>1, <3>6
  <2> QED
    BY <2>3, <2>4
<1>7. N \in T
  <2> HIDE DEF T
  <2>1. \A k \in 0 .. N : k \in T
    BY <1>1, <1>5, <1>6, UpTo
  <2> QED
    BY <1>1, <2>1
<1>8. Inside(edges, left[N]) = left[N]
  <2>1. CASE Cardinality(left[N]) <= N - N
    <3>1. N \in 0 .. N
      BY <1>1
    <3>2. IsFiniteSet(left[N])
      BY <1>1, <1>3, <3>1, FS_Subset
    <3>3. Cardinality(left[N]) \in Nat
      BY <3>2, FS_CardinalityType
    <3>4. Cardinality(left[N]) = 0
      BY <1>1, <2>1, <3>3
    <3>5. left[N] = {}
      BY <3>2, <3>4, FS_EmptySet
    <3> QED
      BY <3>5 DEF Inside
  <2> QED
    BY <1>7, <2>1
<1> QED
  <2>1. N \in 0 .. N
    BY <1>1
  <2> QED
    BY <1>2, <1>3, <1>8, <2>1 DEF Inside

\* What can be reached is closed under the edges.
LEMMA ReachableClosed ==
  ASSUME IInv, NEW edges \in SUBSET (Tasks \X Tasks), NEW t \in Tasks
  PROVE  /\ t \in Reachable(edges, t)
         /\ \A e \in edges : e[1] \in Reachable(edges, t) => e[2] \in Reachable(edges, t)
<1> DEFINE N == Cardinality(Tasks)
<1>1. IsFiniteSet(Tasks) /\ N \in Nat
  BY TasksFinite
<1>2. PICK reached \in [0 .. N -> SUBSET Tasks] :
        /\ reached[0] = {t}
        /\ \A k \in 1 .. N : reached[k] = Grown(edges, reached[k - 1])
        /\ Reachable(edges, t) = reached[N]
  BY ReachedFunction
<1> HIDE DEF N
<1>3. \A k \in 0 .. N : reached[k] \subseteq Tasks
  BY <1>2
<1>4. \A X : X \subseteq Grown(edges, X)
  BY DEF Grown
<1> DEFINE Large(k) == \/ Cardinality(reached[k]) >= k + 1
                       \/ Grown(edges, reached[k]) = reached[k]
           T == {k \in 0 .. N : t \in reached[k] /\ Large(k)}
<1>5. 0 \in T
  <2>1. Cardinality({t}) = 1
    BY FS_Singleton
  <2>2. Cardinality(reached[0]) = 1 /\ t \in reached[0]
    BY <1>2, <2>1
  <2>3. 0 \in 0 .. N
    BY <1>1
  <2> QED
    BY <2>2, <2>3
<1>6. ASSUME NEW k \in 0 .. N - 1, k \in T PROVE k + 1 \in T
  <2>1. k \in 0 .. N /\ k + 1 \in 0 .. N /\ k + 1 \in 1 .. N /\ (k + 1) - 1 = k
    BY <1>1
  <2>2. reached[k + 1] = Grown(edges, reached[k])
    BY <1>2, <2>1
  <2>3. CASE Grown(edges, reached[k]) = reached[k]
    BY <1>6, <2>1, <2>2, <2>3
  <2>4. CASE Grown(edges, reached[k]) # reached[k]
    <3>1. IsFiniteSet(reached[k]) /\ IsFiniteSet(reached[k + 1])
      BY <1>1, <1>3, <2>1, FS_Subset
    <3>2. reached[k] \subseteq reached[k + 1] /\ reached[k + 1] # reached[k]
      BY <1>4, <2>2, <2>4
    <3>3. /\ Cardinality(reached[k]) <= Cardinality(reached[k + 1])
          /\ Cardinality(reached[k + 1]) # Cardinality(reached[k])
      BY <3>1, <3>2, FS_Subset
    <3>4. Cardinality(reached[k]) \in Nat /\ Cardinality(reached[k + 1]) \in Nat
      BY <3>1, FS_CardinalityType
    <3>5. Cardinality(reached[k]) >= k + 1 /\ t \in reached[k]
      BY <1>6, <2>4
    <3>6. Cardinality(reached[k + 1]) >= (k + 1) + 1
      BY <1>1, <2>1, <3>3, <3>4, <3>5
    <3> QED
      BY <2>1, <3>2, <3>5, <3>6
  <2> QED
    BY <2>3, <2>4
<1>7. N \in T
  <2> HIDE DEF T
  <2>1. \A k \in 0 .. N : k \in T
    BY <1>1, <1>5, <1>6, UpTo
  <2> QED
    BY <1>1, <2>1
<1>8. Grown(edges, reached[N]) = reached[N]
  <2>1. CASE Cardinality(reached[N]) >= N + 1
    <3>1. N \in 0 .. N
      BY <1>1
    <3>2. Cardinality(reached[N]) <= N /\ IsFiniteSet(reached[N])
      BY <1>1, <1>3, <3>1, FS_Subset DEF N
    <3>3. Cardinality(reached[N]) \in Nat
      BY <3>2, FS_CardinalityType
    <3> QED
      BY <1>1, <2>1, <3>2, <3>3
  <2> QED
    BY <1>7, <2>1
<1> QED
  BY <1>2, <1>7, <1>8 DEF Grown

-----------------------------------------------------------------------------
(***************************************************************************)
(* The sequential loop.                                                    *)
(***************************************************************************)

\* The values of the unrolled module.
Values == ({-1} \X config.indices) \cup Tasks

\* The tuple after iteration m - 1, from the tuple before it.
AfterIteration(m, tuple) ==
  [index \in config.indices |->
     IF config.root[index][1] = 0 THEN <<m - 1, config.root[index][2]>>
                                  ELSE tuple[config.root[index][2]]]

\* What the root returns is an output of a stage or an element of the tuple.
LEMMA RootValue ==
  ASSUME IsLoopBody(config), NEW index \in config.indices
  PROVE  \/ config.root[index][1] = 0 /\ config.root[index][2] \in Stages
         \/ /\ config.root[index][1] # 0
            /\ config.root[index][2] \in config.indices
            /\ config.root[index] = Input(config.root[index][2])
            /\ config.root[index][2] \in ReadElements(config)
<1>1. config.root[index] \in ({-1} \X config.indices) \cup ({0} \X Stages)
  BY DEF IsLoopBody, Stages
<1>2. CASE config.root[index] \in {0} \X Stages
  BY <1>2
<1>3. CASE config.root[index] \in {-1} \X config.indices
  BY <1>3 DEF ReadElements, Input
<1> QED
  BY <1>1, <1>2, <1>3

\* An iteration takes a tuple of values to a tuple of values.
LEMMA AfterIterationType ==
  ASSUME IInv, IsLoopBody(config), NEW m \in 1 .. config.num_iterations,
         NEW tuple \in [config.indices -> Values]
  PROVE  AfterIteration(m, tuple) \in [config.indices -> Values]
<1> SUFFICES ASSUME NEW index \in config.indices
             PROVE  (IF config.root[index][1] = 0 THEN <<m - 1, config.root[index][2]>>
                                                  ELSE tuple[config.root[index][2]]) \in Values
  BY DEF AfterIteration
<1>1. m - 1 \in Iters
  BY ConfigFacts DEF Iters
<1>2. CASE config.root[index][1] = 0
  BY <1>1, <1>2, RootValue DEF Values, Tasks
<1>3. CASE config.root[index][1] # 0
  BY <1>3, RootValue
<1> QED
  BY <1>2, <1>3

\* The recursive function of SequentialState.
LEMMA SequentialFunction ==
  ASSUME IInv, IsLoopBody(config)
  PROVE  /\ SequentialState[0] = [index \in config.indices |-> Input(index)]
         /\ \A m \in 1 .. config.num_iterations :
              SequentialState[m] = AfterIteration(m, SequentialState[m - 1])
         /\ \A m \in 0 .. config.num_iterations :
              SequentialState[m] \in [config.indices -> Values]
<1> DEFINE N == config.num_iterations
           V == [config.indices -> Values]
           start == [index \in config.indices |-> Input(index)]
           G == [k \in 1 .. N |-> [tuple \in V |-> AfterIteration(k, tuple)]]
           Def(f) == f = [k \in 0 .. N |-> IF k = 0 THEN start ELSE AfterIteration(k, f[k - 1])]
           state == CHOOSE f : Def(f)
<1>1. N \in Nat
  BY ConfigFacts
<1>2. \A k \in 1 .. N : \A tuple \in V : AfterIteration(k, tuple) \in V
  BY AfterIterationType
<1>3. start \in V
  BY DEF Values, Input
<1>4. G \in [1 .. N -> [V -> V]]
  <2> HIDE DEF N, V
  <2> QED
    BY <1>2
<1>5. PICK f : RecursiveUpTo(f, N, V, start, G)
  <2> HIDE DEF N, V, G, start
  <2> QED
    BY <1>1, <1>3, <1>4, FunctionByRecursion
<1>6. f \in [0 .. N -> V] /\ f[0] = start /\ \A k \in 1 .. N : f[k] = G[k][f[k - 1]]
  BY <1>5 DEF RecursiveUpTo
<1>7. \A k \in 1 .. N : f[k] = AfterIteration(k, f[k - 1])
  <2> SUFFICES ASSUME NEW k \in 1 .. N PROVE f[k] = AfterIteration(k, f[k - 1])
    OBVIOUS
  <2>1. k - 1 \in 0 .. N
    BY <1>1
  <2> HIDE DEF N, V, start
  <2>2. f[k - 1] \in V
    BY <1>6, <2>1
  <2> QED
    BY <1>6, <2>2
<1>8. Def(f)
  <2> HIDE DEF N, V, start
  <2>1. ASSUME NEW k \in 0 .. N
        PROVE  f[k] = IF k = 0 THEN start ELSE AfterIteration(k, f[k - 1])
    BY <1>1, <1>6, <1>7
  <2> QED
    BY <1>6, <2>1
<1>9. Def(state)
  <2> HIDE DEF Def
  <2> QED
    BY <1>8
<1>10. SequentialState = state
  BY DEF SequentialState, AfterIteration
<1>11. state[0] = start
  <2> HIDE DEF state, N, start
  <2> QED
    BY <1>1, <1>9
<1>12. \A k \in 1 .. N : state[k] = AfterIteration(k, state[k - 1])
  <2> HIDE DEF state, N, start
  <2> QED
    BY <1>1, <1>9
<1> HIDE DEF state, N, Def, V, start
<1>13. \A k \in 0 .. N : state[k] \in V
  <2> DEFINE S == {k \in 0 .. N : state[k] \in V}
  <2>1. 0 \in S
    BY <1>1, <1>3, <1>11
  <2>2. ASSUME NEW k \in 0 .. N - 1, k \in S PROVE k + 1 \in S
    <3>1. k + 1 \in 1 .. N /\ (k + 1) - 1 = k /\ k + 1 \in 0 .. N
      BY <1>1
    <3>2. state[k + 1] = AfterIteration(k + 1, state[k])
      BY <1>12, <3>1
    <3> QED
      BY <1>2, <2>2, <3>1, <3>2
  <2> HIDE DEF S
  <2>3. \A k \in 0 .. N : k \in S
    BY <1>1, <2>1, <2>2, UpTo
  <2> QED
    BY <2>3 DEF S
<1> QED
  BY <1>10, <1>11, <1>12, <1>13 DEF N, V, start

\* In the sequential loop an element that is read and not loop carried keeps its
\* first value, and a task whose output is in the tuple ran in an earlier
\* iteration.
LEMMA SequentialFacts ==
  ASSUME IInv, IsLoopBody(config), NEW m \in 0 .. config.num_iterations
  PROVE  /\ \A x \in ReadElements(config) \ config.carried :
              SequentialState[m][x] = Input(x)
         /\ \A x \in config.indices :
              SequentialState[m][x] \in Tasks => SequentialState[m][x][1] < m
<1> DEFINE N == config.num_iterations
           Kept(k) == \A x \in ReadElements(config) \ config.carried :
                        SequentialState[k][x] = Input(x)
           Earlier(k) == \A x \in config.indices :
                           SequentialState[k][x] \in Tasks => SequentialState[k][x][1] < k
           S == {k \in 0 .. N : Kept(k) /\ Earlier(k)}
<1>1. N \in Nat /\ ReadElements(config) \subseteq config.indices
  BY ConfigFacts DEF ReadElements
<1>2. 0 \in S
  <2>1. \A x \in config.indices : SequentialState[0][x] = Input(x)
    BY SequentialFunction
  <2>2. \A x : Input(x) \notin Tasks
    BY DEF Input, Tasks, Iters
  <2>3. Kept(0) /\ Earlier(0)
    BY <1>1, <2>1, <2>2
  <2> QED
    BY <1>1, <2>3
<1>3. ASSUME NEW k \in 0 .. N - 1, k \in S PROVE k + 1 \in S
  <2>1. k + 1 \in 1 .. N /\ (k + 1) - 1 = k /\ k + 1 \in 0 .. N /\ k \in Nat
    BY <1>1
  <2>2. SequentialState[k + 1] = AfterIteration(k + 1, SequentialState[k])
    BY <2>1, SequentialFunction
  <2>3. \A x \in config.indices :
          SequentialState[k + 1][x] = IF config.root[x][1] = 0
                                        THEN <<k, config.root[x][2]>>
                                        ELSE SequentialState[k][config.root[x][2]]
    BY <2>1, <2>2 DEF AfterIteration
  <2>4. Kept(k + 1)
    <3> SUFFICES ASSUME NEW x \in ReadElements(config) \ config.carried
                 PROVE  SequentialState[k + 1][x] = Input(x)
      OBVIOUS
    <3>1. config.root[x] = Input(x)
      BY DEF IsLoopBody
    <3>2. config.root[x][1] # 0 /\ config.root[x][2] = x
      BY <3>1 DEF Input
    <3> QED
      BY <1>1, <1>3, <2>3, <3>2
  <2>5. Earlier(k + 1)
    <3> SUFFICES ASSUME NEW x \in config.indices, SequentialState[k + 1][x] \in Tasks
                 PROVE  SequentialState[k + 1][x][1] < k + 1
      OBVIOUS
    <3>1. CASE config.root[x][1] = 0
      <4>1. SequentialState[k + 1][x] = <<k, config.root[x][2]>>
        BY <2>3, <3>1
      <4>2. SequentialState[k + 1][x][1] = k
        BY <4>1
      <4> QED
        BY <2>1, <4>2
    <3>2. CASE config.root[x][1] # 0
      <4> DEFINE y == config.root[x][2]
      <4>1. y \in config.indices /\ SequentialState[k + 1][x] = SequentialState[k][y]
        BY <2>3, <3>2, RootValue
      <4>2. SequentialState[k][y][1] < k
        BY <1>3, <4>1
      <4>3. SequentialState[k][y][1] \in Int
        BY <4>1 DEF Tasks, Iters
      <4> QED
        BY <2>1, <4>1, <4>2, <4>3
    <3> QED
      BY <3>1, <3>2
  <2> QED
    BY <2>1, <2>4, <2>5
<1>4. \A k \in 0 .. N : k \in S
  <2> HIDE DEF S
  <2> QED
    BY <1>1, <1>2, <1>3, UpTo
<1> QED
  BY <1>4

-----------------------------------------------------------------------------
(***************************************************************************)
(* The inductive invariant.                                                *)
(***************************************************************************)

\* What a task consumes in the sequential loop.
Consumed(t) ==
  { IF v[1] = 0 THEN <<t[1], v[2]>> ELSE SequentialState[t[1]][v[2]] :
      v \in config.operands[t[2]] }

\* The clones made so far consume what they should, the tuple is that of the
\* sequential loop, and the non-critical stages gone past were accepted.
CloneInv ==
  /\ phase \in {"clone", "schedule", "control", "unrolled", "error"}
  /\ iter \in 0 .. config.num_iterations
  /\ stage \in 0 .. config.stages
  /\ phase = "clone" => iter < config.num_iterations
  /\ phase \in {"schedule", "control", "unrolled"} => iter = config.num_iterations
  /\ phase \in {"control", "unrolled"} => pc # "dispatch"
  /\ DOMAIN uses \subseteq Tasks
  /\ prev_loop_output_tuple = SequentialState[iter]
  /\ \A t \in DOMAIN uses : uses[t] = Consumed(t)
  /\ \A s \in config.noncritical : iter > 0 \/ s < stage => OnlyUsedByRoot(s)

\* A control dependency goes from a position of a row to a later one, and the
\* positions that the loops over stage and lhs have gone past have theirs.
ControlInv ==
  /\ row \in Nat \ {0} /\ lhs \in Nat \ {0}
  /\ phase \notin {"control", "unrolled"} => control = {} /\ row = 1 /\ lhs = 1
  /\ phase = "unrolled" => row > Len(schedule)
  /\ \A e \in control : \E r \in 1 .. Len(schedule) :
       \E i, j \in 1 .. Len(schedule[r]) :
         i < j /\ e = <<schedule[r][i], schedule[r][j]>>
  /\ \A r \in 1 .. Len(schedule) : \A i \in 1 .. Len(schedule[r]) :
       r < row \/ (r = row /\ i < lhs) =>
         \A j \in NextOnSameDevices(r, i) :
           <<schedule[r][i], schedule[r][j]>> \in control

\* The inductive invariant.
UInv == IInv /\ IsLoopBody(config) /\ CloneInv /\ ControlInv

-----------------------------------------------------------------------------
(***************************************************************************)
(* One lemma per action.                                                   *)
(***************************************************************************)

\* What is defined by the loop alone does not change with it.
LEMMA LoopUnchanged ==
  ASSUME config' = config
  PROVE  /\ Tasks' = Tasks /\ Stages' = Stages /\ Iters' = Iters
         /\ SequentialState' = SequentialState
         /\ \A t : Consumed(t)' = Consumed(t)
         /\ \A s : OnlyUsedByRoot(s)' = OnlyUsedByRoot(s)
         /\ IsLoopBody(config)' = IsLoopBody(config)
<1>1. Tasks' = Tasks /\ Stages' = Stages /\ Iters' = Iters
  BY DEF Tasks, Stages, Iters
<1>2. SequentialState' = SequentialState
  BY DEF SequentialState, Input
<1>3. \A t : Consumed(t)' = Consumed(t)
  BY <1>2 DEF Consumed
<1>4. \A s : OnlyUsedByRoot(s)' = OnlyUsedByRoot(s)
  BY <1>1 DEF OnlyUsedByRoot
<1>5. IsLoopBody(config)' = IsLoopBody(config)
  OBVIOUS
<1> QED
  BY <1>1, <1>2, <1>3, <1>4, <1>5

\* The invariant holds when Unroll is called.
LEMMA UnrollInitInv == UnrollInit => UInv
<1> SUFFICES ASSUME UnrollInit PROVE UInv
  OBVIOUS
<1>1. IInv
  BY InitInv DEF UnrollInit
<1>2. IsLoopBody(config)
  BY BodiesAssumption DEF UnrollInit, Init
<1>3. CloneInv
  <2>1. SequentialState[0] = [index \in config.indices |-> Input(index)]
    BY <1>1, <1>2, SequentialFunction
  <2>2. DOMAIN uses = {}
    BY DEF UnrollInit
  <2>3. /\ config.num_iterations \in Nat \ {0} /\ config.stages \in Nat \ {0}
        /\ config.noncritical \subseteq Stages
    BY <1>1, ConfigFacts
  <2>4. \A s \in config.noncritical : ~(s < 0)
    BY <2>3 DEF Stages
  <2> QED
    BY <2>1, <2>2, <2>3, <2>4 DEF UnrollInit, CloneInv
<1>4. ControlInv
  <2>1. schedule = << >> /\ control = {} /\ row = 1 /\ lhs = 1 /\ phase = "clone"
    BY DEF UnrollInit, Init
  <2>2. Len(schedule) = 0
    BY <2>1
  <2> QED
    BY <2>1, <2>2 DEF ControlInv
<1> QED
  BY <1>1, <1>2, <1>3, <1>4 DEF UInv

\* The clone of a value is what the sequential loop has for it.
LEMMA CloneValue ==
  ASSUME UInv, NEW v,
         v[1] = 0 \/ (\E x \in ReadElements(config) : v = Input(x))
  PROVE  Clone(v) = IF v[1] = 0 THEN <<iter, v[2]>> ELSE SequentialState[iter][v[2]]
<1>1. CASE v[1] = 0
  BY <1>1 DEF Clone
<1>2. CASE v[1] # 0
  <2>1. PICK x \in ReadElements(config) : v = Input(x)
    BY <1>2
  <2>2. v[2] = x
    BY <2>1 DEF Input
  <2>3. iter \in 0 .. config.num_iterations /\ prev_loop_output_tuple = SequentialState[iter]
    BY DEF UInv, CloneInv
  <2>4. CASE x \in config.carried
    BY <1>2, <2>2, <2>3, <2>4 DEF Clone
  <2>5. CASE x \notin config.carried
    <3>1. SequentialState[iter][x] = Input(x)
      BY <2>3, <2>5, SequentialFacts DEF UInv
    <3> QED
      BY <1>2, <2>1, <2>2, <2>5, <3>1 DEF Clone
  <2> QED
    BY <2>4, <2>5
<1> QED
  BY <1>1, <1>2

\* An operand is an output of an earlier stage or an element that is read.
LEMMA OperandValue ==
  ASSUME IsLoopBody(config), NEW s \in Stages, NEW v \in config.operands[s]
  PROVE  \/ v[1] = 0 /\ v[2] \in Stages /\ v = <<0, v[2]>> /\ v[2] < s
         \/ /\ v[1] # 0
            /\ \E x \in ReadElements(config) : v = Input(x)
<1>1. v \in ({-1} \X config.indices) \cup ({0} \X Stages)
  BY DEF IsLoopBody, Stages
<1>2. CASE v \in {0} \X Stages
  <2>1. v[1] = 0 /\ v[2] \in Stages /\ v = <<0, v[2]>>
    BY <1>2
  <2>2. v[2] < s
    BY <2>1 DEF IsLoopBody, Stages
  <2> QED
    BY <2>1, <2>2
<1>3. CASE v \in {-1} \X config.indices
  <2>1. PICK x \in config.indices : v = Input(x)
    BY <1>3 DEF Input
  <2>2. x \in ReadElements(config)
    BY <2>1 DEF ReadElements, Stages
  <2> QED
    BY <2>1, <2>2 DEF Input
<1> QED
  BY <1>1, <1>2, <1>3

\* Control dependencies that are not touched.
LEMMA ControlUnchanged ==
  ASSUME ControlInv, UNCHANGED <<schedulerVars, control, row, lhs>>,
         phase \notin {"control", "unrolled"}, phase' \notin {"control", "unrolled"}
  PROVE  ControlInv'
<1>1. control' = {} /\ row' = 1 /\ lhs' = 1
  BY DEF ControlInv
<1> QED
  BY <1>1 DEF ControlInv

\* A call is cloned with the operands of the sequential loop.
LEMMA CloneCallInv == ASSUME UInv, CloneCall PROVE UInv'
<1>1. /\ phase = "clone" /\ stage < config.stages
      /\ UNCHANGED <<schedulerVars, config, iter, prev_loop_output_tuple, control, row, lhs>>
  BY DEF CloneCall, schedulerVars
<1>2. IInv'
  BY <1>1, UnchangedInv DEF UInv
<1>3. IsLoopBody(config)'
  BY <1>1, LoopUnchanged DEF UInv
<1>4. /\ iter \in 0 .. config.num_iterations /\ iter < config.num_iterations
      /\ stage \in 0 .. config.stages /\ DOMAIN uses \subseteq Tasks
      /\ prev_loop_output_tuple = SequentialState[iter]
      /\ \A t \in DOMAIN uses : uses[t] = Consumed(t)
      /\ \A s \in config.noncritical : iter > 0 \/ s < stage => OnlyUsedByRoot(s)
      /\ config.stages \in Nat \ {0} /\ config.num_iterations \in Nat \ {0}
      /\ config.noncritical \subseteq Stages
  BY <1>1, ConfigFacts DEF UInv, CloneInv
<1>5. CASE phase' = "error"
  <2>1. uses' = uses /\ stage' = stage
    BY <1>1, <1>5 DEF CloneCall
  <2>2. CloneInv'
    BY <1>1, <1>4, <1>5, <2>1, LoopUnchanged DEF CloneInv
  <2>3. ControlInv'
    BY <1>1, <1>5, ControlUnchanged DEF UInv
  <2> QED
    BY <1>2, <1>3, <2>2, <2>3 DEF UInv
<1>6. CASE ~(stage \in config.noncritical /\ ~OnlyUsedByRoot(stage))
  <2> DEFINE t == <<iter, stage>>
  <2>1. /\ phase' = "clone" /\ stage' = stage + 1
        /\ uses' = [task \in DOMAIN uses \cup {t} |->
                      IF task = t THEN { Clone(v) : v \in config.operands[stage] }
                                  ELSE uses[task]]
    BY <1>1, <1>6 DEF CloneCall
  <2>2. stage \in Stages /\ iter \in Iters /\ t \in Tasks
    BY <1>1, <1>4 DEF Stages, Iters, Tasks
  <2>3. { Clone(v) : v \in config.operands[stage] } = Consumed(t)
    <3>1. \A v \in config.operands[stage] :
            Clone(v) = IF v[1] = 0 THEN <<iter, v[2]>> ELSE SequentialState[iter][v[2]]
      BY <2>2, OperandValue, CloneValue DEF UInv
    <3>2. Consumed(t) = { IF v[1] = 0 THEN <<iter, v[2]>> ELSE SequentialState[iter][v[2]] :
                            v \in config.operands[stage] }
      BY DEF Consumed
    <3> QED
      BY <3>1, <3>2
  <2>4. DOMAIN uses' \subseteq Tasks
    BY <1>4, <2>1, <2>2
  <2>5. \A u \in DOMAIN uses' : uses'[u] = Consumed(u)
    <3> SUFFICES ASSUME NEW u \in DOMAIN uses' PROVE uses'[u] = Consumed(u)
      OBVIOUS
    <3> HIDE DEF t
    <3>1. CASE u = t
      BY <2>1, <2>3, <3>1
    <3>2. CASE u # t
      BY <1>4, <2>1, <3>2
    <3> QED
      BY <3>1, <3>2
  <2>6. \A s \in config.noncritical : iter > 0 \/ s < stage + 1 => OnlyUsedByRoot(s)
    <3> SUFFICES ASSUME NEW s \in config.noncritical, iter > 0 \/ s < stage + 1
                 PROVE  OnlyUsedByRoot(s)
      OBVIOUS
    <3>1. s \in Int /\ stage \in Int
      BY <1>4 DEF Stages
    <3>2. CASE s = stage
      BY <1>6, <3>2
    <3>3. CASE s # stage
      BY <1>4, <3>1, <3>3
    <3> QED
      BY <3>2, <3>3
  <2>7. CloneInv'
    <3>1. stage' \in 0 .. config.stages
      BY <1>1, <1>4, <2>1
    <3> QED
      BY <1>1, <1>4, <2>1, <2>4, <2>5, <2>6, <3>1, LoopUnchanged DEF CloneInv
  <2>8. ControlInv'
    BY <1>1, <2>1, ControlUnchanged DEF UInv
  <2> QED
    BY <1>2, <1>3, <2>7, <2>8 DEF UInv
<1> QED
  BY <1>1, <1>5, <1>6 DEF CloneCall

\* The root tuple is cloned with the values of the sequential loop.
LEMMA CloneRootInv == ASSUME UInv, CloneRoot PROVE UInv'
<1>1. /\ phase = "clone" /\ stage = config.stages /\ iter' = iter + 1 /\ stage' = 0
      /\ phase' = IF iter + 1 < config.num_iterations THEN "clone" ELSE "schedule"
      /\ prev_loop_output_tuple' = [index \in config.indices |-> Clone(config.root[index])]
      /\ UNCHANGED <<schedulerVars, config, pc, uses, control, row, lhs>>
  BY DEF CloneRoot, schedulerVars
<1>2. IInv'
  BY <1>1, UnchangedInv DEF UInv
<1>3. IsLoopBody(config)'
  BY <1>1, LoopUnchanged DEF UInv
<1>4. /\ iter \in 0 .. config.num_iterations /\ iter < config.num_iterations
      /\ stage \in 0 .. config.stages /\ DOMAIN uses \subseteq Tasks
      /\ \A t \in DOMAIN uses : uses[t] = Consumed(t)
      /\ \A s \in config.noncritical : iter > 0 \/ s < stage => OnlyUsedByRoot(s)
      /\ config.stages \in Nat \ {0} /\ config.num_iterations \in Nat \ {0}
      /\ config.noncritical \subseteq Stages
  BY <1>1, ConfigFacts DEF UInv, CloneInv
<1>5. prev_loop_output_tuple' = SequentialState[iter + 1]
  <2>1. iter + 1 \in 1 .. config.num_iterations /\ (iter + 1) - 1 = iter
    BY <1>4
  <2>2. SequentialState[iter + 1] = AfterIteration(iter + 1, SequentialState[iter])
    BY <2>1, SequentialFunction DEF UInv
  <2>3. ASSUME NEW index \in config.indices
        PROVE  Clone(config.root[index]) =
                 IF config.root[index][1] = 0 THEN <<iter, config.root[index][2]>>
                 ELSE SequentialState[iter][config.root[index][2]]
    <3>1. \/ config.root[index][1] = 0
          \/ \E x \in ReadElements(config) : config.root[index] = Input(x)
      BY RootValue DEF UInv
    <3> QED
      BY <3>1, CloneValue
  <2>4. AfterIteration(iter + 1, SequentialState[iter]) =
          [index \in config.indices |->
             IF config.root[index][1] = 0 THEN <<iter, config.root[index][2]>>
             ELSE SequentialState[iter][config.root[index][2]]]
    BY <2>1 DEF AfterIteration
  <2>5. prev_loop_output_tuple' = [index \in config.indices |->
             IF config.root[index][1] = 0 THEN <<iter, config.root[index][2]>>
             ELSE SequentialState[iter][config.root[index][2]]]
    BY <1>1, <2>3
  <2> QED
    BY <2>2, <2>4, <2>5
<1>6. \A s \in config.noncritical : OnlyUsedByRoot(s)
  <2>1. \A s \in config.noncritical : s < stage
    BY <1>1, <1>4 DEF Stages
  <2> QED
    BY <1>4, <2>1
<1>7. CloneInv'
  <2>1. /\ iter' \in 0 .. config.num_iterations /\ stage' \in 0 .. config.stages
        /\ phase' = "clone" => iter' < config.num_iterations
        /\ phase' # "clone" => iter' = config.num_iterations
        /\ phase' \in {"clone", "schedule"}
    BY <1>1, <1>4
  <2> QED
    BY <1>1, <1>4, <1>5, <1>6, <2>1, LoopUnchanged DEF CloneInv
<1>8. ControlInv'
  BY <1>1, ControlUnchanged DEF UInv
<1> QED
  BY <1>2, <1>3, <1>7, <1>8 DEF UInv

\* A step of ScheduleLoops leaves the clones alone.
LEMMA CallScheduleLoopsInv == ASSUME UInv, CallScheduleLoops PROVE UInv'
<1>1. /\ phase = "schedule" /\ SchedulerStep
      /\ phase' = CASE pc' = "done" -> "control"
                    [] pc' \in {"error", "undefined"} -> "error"
                    [] OTHER -> "schedule"
      /\ UNCHANGED <<iter, stage, uses, prev_loop_output_tuple, control, row, lhs>>
  BY DEF CallScheduleLoops
<1>2. config' = config
  BY <1>1 DEF SchedulerStep, ScheduleLoops, ScheduleGpipe, UnrollLoopIncrementTasks,
              RemainingTasks, StartWavefront, ScheduleWavefront, CriticalStages,
              NonCriticalStages, EmplaceStageGroups, PopStageGroup,
              StartCustomSchedule, ScheduleCustomSchedule
<1>3. IInv'
  BY <1>1, SchedulerStepInv DEF UInv
<1>4. /\ phase' \in {"control", "error", "schedule"}
      /\ phase' = "control" => pc' = "done"
  BY <1>1
<1>5. IsLoopBody(config)'
  BY <1>2, LoopUnchanged DEF UInv
<1>6. CloneInv'
  BY <1>1, <1>2, <1>4, LoopUnchanged DEF UInv, CloneInv
<1>7. control' = {} /\ row' = 1 /\ lhs' = 1
  BY <1>1 DEF UInv, ControlInv
<1>8. ControlInv'
  BY <1>4, <1>7 DEF ControlInv
<1> QED
  BY <1>3, <1>5, <1>6, <1>8 DEF UInv

\* What the loops over stage and lhs read of the schedule does not change.
LEMMA RowsUnchanged ==
  ASSUME UNCHANGED schedulerVars
  PROVE  \A r, i : NextOnSameDevices(r, i)' = NextOnSameDevices(r, i)
<1>1. schedule' = schedule /\ config' = config
  BY DEF schedulerVars
<1>2. \A r, i : SameDevicesAfter(r, i)' = SameDevicesAfter(r, i)
  BY <1>1 DEF SameDevicesAfter, DevicesForInstruction
<1> QED
  BY <1>2 DEF NextOnSameDevices

\* The loops over stage and lhs go past a position after adding its dependency.
LEMMA AddControlDependencyInv == ASSUME UInv, AddControlDependency PROVE UInv'
<1>1. /\ phase = "control" /\ phase' \in {"control", "unrolled"}
      /\ UNCHANGED <<schedulerVars, config, pc, schedule, iter, stage, uses,
                     prev_loop_output_tuple>>
  BY DEF AddControlDependency, schedulerVars
<1>2. IInv'
  BY <1>1, UnchangedInv DEF UInv
<1>3. IsLoopBody(config)'
  BY <1>1, LoopUnchanged DEF UInv
<1>4. CloneInv'
  BY <1>1, LoopUnchanged DEF UInv, CloneInv
<1>5. ControlInv
  BY DEF UInv
<1>6. /\ row \in Nat \ {0} /\ lhs \in Nat \ {0}
      /\ \A r, i : NextOnSameDevices(r, i)' = NextOnSameDevices(r, i)
  BY <1>1, <1>5, RowsUnchanged DEF ControlInv
<1>7. Len(schedule) \in Nat /\ \A r \in 1 .. Len(schedule) : Len(schedule[r]) \in Nat
  <2>1. schedule \in Seq(Seq(Tasks))
    BY DEF UInv, IInv, TypeOK
  <2> QED
    BY <2>1, ElementOfSeq, LenProperties
<1>8. ASSUME row' \in Nat \ {0}, lhs' \in Nat \ {0},
             phase' = "unrolled" => row' > Len(schedule),
             \A e \in control' : \E r \in 1 .. Len(schedule) :
               \E i, j \in 1 .. Len(schedule[r]) :
                 i < j /\ e = <<schedule[r][i], schedule[r][j]>>,
             \A r \in 1 .. Len(schedule) : \A i \in 1 .. Len(schedule[r]) :
               r < row' \/ (r = row' /\ i < lhs') =>
                 \A j \in NextOnSameDevices(r, i) :
                   <<schedule[r][i], schedule[r][j]>> \in control'
      PROVE  ControlInv'
  BY <1>1, <1>6, <1>8 DEF ControlInv
<1>9. CASE row > Len(schedule)
  <2>1. phase' = "unrolled" /\ UNCHANGED <<row, lhs, control>>
    BY <1>9 DEF AddControlDependency
  <2>2. ControlInv'
    BY <1>5, <1>8, <1>9, <2>1 DEF ControlInv
  <2> QED
    BY <1>2, <1>3, <1>4, <2>2 DEF UInv
<1>10. CASE ~(row > Len(schedule)) /\ lhs > Len(schedule[row])
  <2>1. row' = row + 1 /\ lhs' = 1 /\ phase' = "control" /\ control' = control
    BY <1>1, <1>10 DEF AddControlDependency
  <2>2. ASSUME NEW r \in 1 .. Len(schedule), NEW i \in 1 .. Len(schedule[r]),
               r < row' \/ (r = row' /\ i < lhs')
        PROVE  r < row \/ (r = row /\ i < lhs)
    <3>1. Len(schedule[r]) \in Nat
      BY <1>7
    <3> QED
      BY <1>6, <1>10, <2>1, <2>2, <3>1
  <2>3. ControlInv'
    BY <1>5, <1>6, <1>8, <2>1, <2>2 DEF ControlInv
  <2> QED
    BY <1>2, <1>3, <1>4, <2>3 DEF UInv
<1>11. CASE ~(row > Len(schedule)) /\ ~(lhs > Len(schedule[row]))
  <2>1. /\ row' = row /\ lhs' = lhs + 1 /\ phase' = "control"
        /\ control' = control \cup { <<schedule[row][lhs], schedule[row][j]>> :
                                       j \in NextOnSameDevices(row, lhs) }
    BY <1>1, <1>11 DEF AddControlDependency
  <2>2. row \in 1 .. Len(schedule)
    BY <1>6, <1>7, <1>11
  <2>3. lhs \in 1 .. Len(schedule[row]) /\ Len(schedule[row]) \in Nat
    BY <1>6, <1>7, <1>11, <2>2
  <2>4. \A j \in NextOnSameDevices(row, lhs) : j \in 1 .. Len(schedule[row]) /\ lhs < j
    BY <2>3 DEF NextOnSameDevices, SameDevicesAfter
  <2>5. ASSUME NEW e \in control'
        PROVE  \E r \in 1 .. Len(schedule) : \E i, j \in 1 .. Len(schedule[r]) :
                 i < j /\ e = <<schedule[r][i], schedule[r][j]>>
    <3>1. CASE e \in control
      BY <1>5, <3>1 DEF ControlInv
    <3>2. CASE e \notin control
      BY <2>1, <2>2, <2>3, <2>4, <3>2
    <3> QED
      BY <3>1, <3>2
  <2>6. ASSUME NEW r \in 1 .. Len(schedule), NEW i \in 1 .. Len(schedule[r]),
               r < row' \/ (r = row' /\ i < lhs'),
               NEW j \in NextOnSameDevices(r, i)
        PROVE  <<schedule[r][i], schedule[r][j]>> \in control'
    <3>1. CASE r = row /\ i = lhs
      BY <2>1, <3>1
    <3>2. CASE ~(r = row /\ i = lhs)
      <4>1. r < row \/ (r = row /\ i < lhs)
        BY <1>6, <1>7, <2>1, <2>6, <3>2
      <4> QED
        BY <1>5, <2>1, <4>1 DEF ControlInv
    <3> QED
      BY <3>1, <3>2
  <2>7. row' \in Nat \ {0} /\ lhs' \in Nat \ {0} /\ phase' # "unrolled"
    BY <1>6, <2>1
  <2>8. ControlInv'
    BY <1>8, <2>5, <2>6, <2>7
  <2> QED
    BY <1>2, <1>3, <1>4, <2>8 DEF UInv
<1> QED
  BY <1>9, <1>10, <1>11

\* A step that changes nothing.
LEMMA UnrollUnchangedInv == ASSUME UInv, UNCHANGED vars PROVE UInv'
<1>1. UNCHANGED <<schedulerVars, config, pc, schedule, phase, iter, stage, uses,
                  prev_loop_output_tuple, control, row, lhs>>
  BY DEF vars, unrollVars, schedulerVars
<1>2. IInv'
  BY <1>1, UnchangedInv DEF UInv
<1>3. IsLoopBody(config)'
  BY <1>1, LoopUnchanged DEF UInv
<1>4. CloneInv'
  BY <1>1, LoopUnchanged DEF UInv, CloneInv
<1>5. ControlInv /\ \A r, i : NextOnSameDevices(r, i)' = NextOnSameDevices(r, i)
  BY <1>1, RowsUnchanged DEF UInv
<1>6. /\ (row \in Nat \ {0} /\ lhs \in Nat \ {0})'
      /\ (phase \notin {"control", "unrolled"} => control = {} /\ row = 1 /\ lhs = 1)'
      /\ (phase = "unrolled" => row > Len(schedule))'
      /\ (\A e \in control : \E r \in 1 .. Len(schedule) :
            \E i, j \in 1 .. Len(schedule[r]) :
              i < j /\ e = <<schedule[r][i], schedule[r][j]>>)'
  BY <1>1, <1>5 DEF ControlInv
<1>7. ASSUME NEW r \in 1 .. Len(schedule'), NEW i \in 1 .. Len(schedule'[r]),
             r < row' \/ (r = row' /\ i < lhs'), NEW j \in NextOnSameDevices(r, i)'
      PROVE  <<schedule'[r][i], schedule'[r][j]>> \in control'
  <2>1. /\ r \in 1 .. Len(schedule) /\ i \in 1 .. Len(schedule[r])
        /\ r < row \/ (r = row /\ i < lhs)
        /\ j \in NextOnSameDevices(r, i)
    BY <1>1, <1>5, <1>7
  <2>2. <<schedule[r][i], schedule[r][j]>> \in control
    BY <1>5, <2>1 DEF ControlInv
  <2> QED
    BY <1>1, <2>2
<1>8. ControlInv'
  BY <1>6, <1>7 DEF ControlInv
<1> QED
  BY <1>2, <1>3, <1>4, <1>8 DEF UInv

-----------------------------------------------------------------------------
(***************************************************************************)
(* The theorems.                                                           *)
(***************************************************************************)

\* UInv is an invariant of Unroll, for every loop configuration and body.
THEOREM UnrollInvariance == UnrollSpec => []UInv
<1>1. UInv /\ [UnrollNext]_vars => UInv'
  BY CloneCallInv, CloneRootInv, CallScheduleLoopsInv, AddControlDependencyInv,
     UnrollUnchangedInv DEF UnrollNext, Unrolled
<1> QED
  BY UnrollInitInv, <1>1, PTL DEF UnrollSpec

\* A control dependency joins two tasks of the loop.
LEMMA ControlJoinsTasks == ASSUME UInv PROVE control \subseteq Tasks \X Tasks
<1> SUFFICES ASSUME NEW e \in control PROVE e \in Tasks \X Tasks
  OBVIOUS
<1>1. PICK r \in 1 .. Len(schedule) : \E i, j \in 1 .. Len(schedule[r]) :
        i < j /\ e = <<schedule[r][i], schedule[r][j]>>
  BY DEF UInv, ControlInv
<1>2. PICK i \in 1 .. Len(schedule[r]), j \in 1 .. Len(schedule[r]) :
        e = <<schedule[r][i], schedule[r][j]>>
  BY <1>1
<1>3. schedule[r] \in Seq(Tasks)
  BY ElementOfSeq DEF UInv, IInv, TypeOK
<1>4. schedule[r][i] \in Tasks /\ schedule[r][j] \in Tasks
  BY <1>3, ElementOfSeq
<1> QED
  BY <1>2, <1>4

\* The unrolling state has its types, whatever the scheduler does: in particular
\* control dependencies join tasks of the loop.
THEOREM UnrollTypeCorrect == UnrollSpec => []UnrollTypeOK
<1>1. ASSUME UInv PROVE UnrollTypeOK
  <2>1. TypeOK
    BY <1>1 DEF UInv, IInv
  <2>2. control \subseteq Tasks \X Tasks
    BY <1>1, ControlJoinsTasks
  <2> QED
    BY <1>1, <2>1, <2>2 DEF UInv, CloneInv, UnrollTypeOK
<1> QED
  BY <1>1, UnrollInvariance, PTL

\* Unrolling keeps the meaning of every loop: each clone consumes what its call
\* consumes in the sequential loop, and the users of the loop get its last state.
THEOREM DataflowKept == UnrollSpec => []UnrolledDataflow
<1>1. ASSUME UInv PROVE UnrolledDataflow
  BY <1>1 DEF UInv, CloneInv, UnrolledDataflow, Consumed
<1> QED
  BY <1>1, UnrollInvariance, PTL

\* Every two tasks of a row on the same device list are ordered by the control
\* dependencies, for every schedule: the dependency of a task goes to the next
\* one on its list, and those form a chain.
THEOREM DeviceOrder == UnrollSpec => []DeviceOrderTotal
<1>1. ASSUME UInv PROVE DeviceOrderTotal
  <2> SUFFICES ASSUME phase = "unrolled", NEW r \in DOMAIN schedule,
                      NEW i \in DOMAIN schedule[r], NEW l \in SameDevicesAfter(r, i),
                      schedule[r][l] \notin Reachable(control, schedule[r][i])
               PROVE  FALSE
    BY DEF DeviceOrderTotal
  <2> DEFINE R == Reachable(control, schedule[r][i])
             A == SameDevicesAfter(r, i)
             B == {j \in A : schedule[r][j] \notin R}
             Dev(j) == DevicesForInstruction(schedule[r][j])
  <2>1. schedule \in Seq(Seq(Tasks)) /\ IInv
    BY <1>1 DEF UInv, IInv, TypeOK
  <2>2. r \in 1 .. Len(schedule) /\ schedule[r] \in Seq(Tasks) /\ Len(schedule) \in Nat
    BY <2>1, ElementOfSeq, LenProperties
  <2>3. i \in 1 .. Len(schedule[r]) /\ schedule[r][i] \in Tasks /\ Len(schedule[r]) \in Nat
    BY <2>2, ElementOfSeq, LenProperties
  <2>4. /\ schedule[r][i] \in R
        /\ \A e \in control : e[1] \in R => e[2] \in R
    BY <1>1, <2>1, <2>3, ControlJoinsTasks, ReachableClosed
  <2>5. \A k : k \in A <=> k \in i + 1 .. Len(schedule[r]) /\ Dev(k) = Dev(i)
    BY DEF SameDevicesAfter
  <2>6. A \subseteq Nat /\ B \subseteq Nat /\ B # {}
    BY <2>3, <2>5
  <2> HIDE DEF R, A, Dev
  <2>7. PICK j \in B : \A k \in B : j <= k
    <3> HIDE DEF B
    <3> QED
      BY <2>6, LeastNumber
  <2>8. j \in A /\ j \in Nat /\ schedule[r][j] \notin R /\ i \in Nat /\ i < j
    BY <2>3, <2>5, <2>6, <2>7
  <2> DEFINE P == {k \in A \cup {i} : k < j}
             D == {j - k : k \in P}
  <2>9. PICK k \in P : \A m \in P : m <= k
    <3>1. \A m \in P : m \in Nat /\ j - m \in Nat
      BY <2>6, <2>8
    <3>2. i \in P
      BY <2>8
    <3>3. D \subseteq Nat /\ D # {}
      BY <3>1, <3>2
    <3>4. PICK d \in D : \A x \in D : d <= x
      <4> HIDE DEF D
      <4> QED
        BY <3>3, LeastNumber
    <3>5. PICK k \in P : d = j - k
      BY <3>4
    <3>6. \A m \in P : j - k <= j - m
      BY <3>4, <3>5
    <3> HIDE DEF P
    <3> QED
      BY <2>8, <3>1, <3>6
  <2>10. k \in 1 .. Len(schedule[r]) /\ k < j /\ i <= k /\ Dev(k) = Dev(i) /\ k \in Nat
    BY <2>3, <2>5, <2>9
  <2>11. schedule[r][k] \in R
    <3>1. CASE k = i
      BY <2>4, <3>1
    <3>2. CASE k # i
      <4>1. k \in A
        BY <2>9, <3>2
      <4>2. k \notin B
        BY <2>7, <2>8, <2>10
      <4> QED
        BY <4>1, <4>2
    <3> QED
      BY <3>1, <3>2
  <2>12. \A m : m \in SameDevicesAfter(r, k) <=>
                  m \in k + 1 .. Len(schedule[r]) /\ Dev(m) = Dev(k)
    BY DEF SameDevicesAfter, Dev
  <2>13. j \in SameDevicesAfter(r, k)
    <3>1. j \in i + 1 .. Len(schedule[r]) /\ Dev(j) = Dev(i)
      BY <2>5, <2>8
    <3> QED
      BY <2>3, <2>8, <2>10, <2>12, <3>1
  <2>14. ASSUME NEW m \in SameDevicesAfter(r, k) PROVE j <= m
    <3>1. m \in k + 1 .. Len(schedule[r]) /\ Dev(m) = Dev(i)
      BY <2>10, <2>12
    <3>2. m \in A /\ m \in Nat /\ k < m
      BY <2>3, <2>5, <2>8, <2>10, <3>1
    <3>3. m < j => m <= k
      BY <2>9, <3>2
    <3> QED
      BY <2>8, <2>10, <3>2, <3>3
  <2>15. j \in NextOnSameDevices(r, k)
    BY <2>13, <2>14 DEF NextOnSameDevices
  <2>16. <<schedule[r][k], schedule[r][j]>> \in control
    <3>1. r < row
      BY <1>1, <2>2 DEF UInv, ControlInv
    <3> QED
      BY <1>1, <2>2, <2>10, <2>15, <3>1 DEF UInv, ControlInv
  <2> QED
    BY <2>4, <2>8, <2>11, <2>16
<1> QED
  BY <1>1, UnrollInvariance, PTL

-----------------------------------------------------------------------------
(***************************************************************************)
(* No circular dependency.                                                 *)
(***************************************************************************)

\* A dependency makes the sum of iteration and stage grow, and dependencies
\* compose.
LEMMA DependencyOrder ==
  ASSUME NEW t \in Tasks, NEW u \in Tasks, MayDependOn(t, u)
  PROVE  /\ u[1] + u[2] < t[1] + t[2]
         /\ \A w \in Tasks : MayDependOn(w, t) => MayDependOn(w, u)
<1>1. PICK a \in Int, b \in Int, c \in Int, d \in Int : t = <<a, b>> /\ u = <<c, d>>
  <2>1. /\ t[1] \in Int /\ t[2] \in Int /\ u[1] \in Int /\ u[2] \in Int
        /\ t = <<t[1], t[2]>> /\ u = <<u[1], u[2]>>
    BY DEF Tasks, Iters, Stages
  <2> QED
    BY <2>1
<1>2. /\ c <= a /\ d <= b /\ ~(c = a /\ d = b)
      /\ d = b \/ (d \notin config.noncritical /\ b \notin config.increment)
  BY <1>1 DEF MayDependOn
<1>3. u[1] + u[2] < t[1] + t[2]
  BY <1>1, <1>2
<1>4. ASSUME NEW w \in Tasks, MayDependOn(w, t) PROVE MayDependOn(w, u)
  <2>1. PICK x \in Int, y \in Int : w = <<x, y>>
    <3>1. w[1] \in Int /\ w[2] \in Int /\ w = <<w[1], w[2]>>
      BY DEF Tasks, Iters, Stages
    <3> QED
      BY <3>1
  <2>2. /\ a <= x /\ b <= y /\ ~(a = x /\ b = y)
        /\ b = y \/ (b \notin config.noncritical /\ y \notin config.increment)
    BY <1>1, <1>4, <2>1 DEF MayDependOn
  <2>3. /\ c <= x /\ d <= y /\ ~(c = x /\ d = y)
        /\ d = y \/ (d \notin config.noncritical /\ y \notin config.increment)
    BY <1>2, <2>2
  <2> QED
    BY <1>1, <2>1, <2>3 DEF MayDependOn
<1> QED
  BY <1>3, <1>4

\* A set of tasks that is not empty has one with the least sum of iteration and
\* stage.
LEMMA LeastTask ==
  ASSUME NEW Y, Y \subseteq Tasks, Y # {}, IInv
  PROVE  \E y \in Y : \A z \in Y : ~(z[1] + z[2] < y[1] + y[2])
<1> DEFINE T == {y[1] + y[2] : y \in Y}
<1>1. \A y \in Y : y[1] + y[2] \in Nat
  BY DEF Tasks, Iters, Stages
<1>2. T \subseteq Nat /\ T # {}
  BY <1>1
<1>3. PICK x \in T : \A z \in T : x <= z
  <2> HIDE DEF T
  <2> QED
    BY <1>2, LeastNumber
<1>4. PICK y \in Y : x = y[1] + y[2]
  BY <1>3
<1>5. \A z \in Y : y[1] + y[2] <= z[1] + z[2]
  BY <1>3, <1>4
<1> QED
  BY <1>1, <1>5

\* The data flow among the clones is what a pipelined loop allows.
LEMMA DataIsDependency ==
  ASSUME UInv, phase = "unrolled", IsPipelined, NEW e \in DataDependencies
  PROVE  e[1] \in Tasks /\ e[2] \in Tasks /\ MayDependOn(e[2], e[1])
<1>1. PICK t \in DOMAIN uses, u \in Tasks : u \in uses[t] /\ e = <<u, t>>
  BY DEF DataDependencies
<1>2. t \in Tasks /\ u \in Consumed(t)
  BY <1>1 DEF UInv, CloneInv
<1>3. t[1] \in Iters /\ t[2] \in Stages /\ t = <<t[1], t[2]>>
  BY <1>2 DEF Tasks
<1>4. PICK v \in config.operands[t[2]] :
        u = IF v[1] = 0 THEN <<t[1], v[2]>> ELSE SequentialState[t[1]][v[2]]
  BY <1>2 DEF Consumed
<1>5. t[1] \in Int /\ t[2] \in Int /\ t[1] \in 0 .. config.num_iterations
  BY <1>3, ConfigFacts DEF UInv, Iters, Stages
<1>6. MayDependOn(t, u)
  <2>1. CASE v[1] = 0
    <3>1. v[2] \in Stages /\ v = <<0, v[2]>> /\ v[2] < t[2] /\ u = <<t[1], v[2]>>
      BY <1>3, <1>4, <2>1, OperandValue DEF UInv
    <3>2. v[2] \notin config.noncritical
      <4>1. iter > 0
        BY ConfigFacts DEF UInv, CloneInv
      <4>2. v[2] \in config.noncritical => OnlyUsedByRoot(v[2])
        BY <4>1 DEF UInv, CloneInv
      <4> QED
        BY <1>3, <3>1, <4>2 DEF OnlyUsedByRoot
    <3>3. t[2] \notin config.increment
      BY <1>3, <2>1 DEF IsPipelined
    <3>4. v[2] \in Int
      BY <3>1 DEF Stages
    <3>5. u[1] = t[1] /\ u[2] = v[2]
      BY <3>1
    <3> QED
      BY <1>5, <3>1, <3>2, <3>3, <3>4, <3>5 DEF MayDependOn
  <2>2. CASE v[1] # 0
    <3>1. u = SequentialState[t[1]][v[2]]
      BY <1>4, <2>2
    <3>2. v[2] \in config.indices
      <4>1. PICK x \in ReadElements(config) : v = Input(x)
        BY <1>3, <1>4, <2>2, OperandValue DEF UInv
      <4> QED
        BY <4>1 DEF ReadElements, Input
    <3>3. u[1] < t[1]
      BY <1>1, <1>5, <3>1, <3>2, SequentialFacts DEF UInv
    <3>4. u[2] = t[2]
      BY <1>1, <1>3, <2>2, <3>1 DEF IsPipelined
    <3>5. u[1] \in Int
      BY <1>1 DEF Tasks, Iters
    <3> QED
      BY <1>5, <3>3, <3>4, <3>5 DEF MayDependOn
  <2> QED
    BY <2>1, <2>2
<1> QED
  BY <1>1, <1>2, <1>6

\* Data flow and control dependencies close no cycle, for every pipelined loop,
\* schedule and placement.  A task on a cycle would have a predecessor on it;
\* take the first scheduled task t of those, and of the tasks it may depend on
\* the least: its predecessor is less, or earlier in the row than t.
THEOREM GraphAcyclic == UnrollSpec => []UnrolledGraphAcyclic
<1>1. ASSUME UInv PROVE UnrolledGraphAcyclic
  <2> DEFINE edges == DataDependencies \cup control
             X == OnOrBelowCycle(edges)
             line == schedule[1]
             L == Len(schedule[1])
             Q == {i \in 1 .. L : line[i] \in X}
  <2> SUFFICES ASSUME phase = "unrolled", config.schedule # "Custom",
                      config.schedule = "ZeroBubbleH2" => DelayCoversGroups,
                      IsPipelined, X # {}
               PROVE  FALSE
    BY DEF UnrolledGraphAcyclic
  <2>1. IInv /\ pc # "dispatch"
    BY <1>1 DEF UInv, CloneInv
  <2>2. /\ DOMAIN schedule = {1} /\ line \in Seq(Tasks) /\ L \in Nat
        /\ Len(schedule) = 1
        /\ Distinct(line) /\ InDataflowOrder(line)
    <3>1. DOMAIN schedule = {1} /\ line \in Seq(Tasks)
      BY <2>1, OneRow
    <3>2. Distinct(line) /\ InDataflowOrder(line) /\ Len(schedule) = 1
      BY <2>1 DEF IInv, RowInv, LoopInv
    <3> QED
      BY <3>1, <3>2, LenProperties
  <2>3. /\ X \subseteq Tasks
        /\ \A x \in X : \E e \in edges : e[2] = x /\ e[1] \in X
    BY <2>1, CycleCore
  <2>4. ASSUME NEW e \in control
        PROVE  \E i, j \in 1 .. L : i < j /\ e[1] = line[i] /\ e[2] = line[j]
    <3>1. PICK r \in 1 .. Len(schedule) : \E i, j \in 1 .. Len(schedule[r]) :
            i < j /\ e = <<schedule[r][i], schedule[r][j]>>
      BY <1>1 DEF UInv, ControlInv
    <3>2. r = 1
      BY <2>2, <3>1
    <3> QED
      BY <3>1, <3>2
  <2>5. ASSUME NEW e \in DataDependencies
        PROVE  e[1] \in Tasks /\ e[2] \in Tasks /\ MayDependOn(e[2], e[1])
    BY <1>1, DataIsDependency
  <2>8. \A i, j \in 1 .. L : line[i] = line[j] => i = j
    BY <2>2 DEF Distinct
  <2> HIDE DEF X, line, L
  <2>6. CASE Q = {}
    <3>1. PICK y \in X : \A z \in X : ~(z[1] + z[2] < y[1] + y[2])
      BY <2>1, <2>3, LeastTask
    <3>2. PICK e \in edges : e[2] = y /\ e[1] \in X
      BY <2>3
    <3>3. e \notin control
      BY <2>4, <2>6, <3>1, <3>2
    <3>4. e \in DataDependencies
      BY <3>2, <3>3
    <3>5. e[1] \in Tasks /\ y \in Tasks /\ MayDependOn(y, e[1])
      BY <2>5, <3>2, <3>4
    <3> QED
      BY <3>1, <3>2, <3>5, DependencyOrder
  <2>7. CASE Q # {}
    <3>1. PICK p \in Q : \A i \in Q : p <= i
      <4>1. Q \subseteq Nat
        BY <2>2
      <4> HIDE DEF Q
      <4> QED
        BY <2>7, <4>1, LeastNumber
    <3> DEFINE t == line[p]
               Y == {y \in X : y = t \/ MayDependOn(t, y)}
    <3>2. p \in 1 .. L /\ t \in X /\ t \in Tasks /\ Y \subseteq Tasks /\ Y # {}
      BY <2>3, <3>1
    <3>3. PICK y \in Y : \A z \in Y : ~(z[1] + z[2] < y[1] + y[2])
      <4> HIDE DEF Y
      <4> QED
        BY <2>1, <3>2, LeastTask
    <3>4. y \in X /\ y \in Tasks /\ (y = t \/ MayDependOn(t, y))
      BY <2>3, <3>3
    <3>5. PICK e \in edges : e[2] = y /\ e[1] \in X
      BY <2>3, <3>4
    <3>6. CASE e \in DataDependencies
      <4>1. e[1] \in Tasks /\ MayDependOn(y, e[1])
        BY <2>5, <3>5, <3>6
      <4>2. MayDependOn(t, e[1])
        BY <3>2, <3>4, <4>1, DependencyOrder
      <4>3. e[1] \in Y
        BY <3>5, <4>2
      <4>4. e[1][1] + e[1][2] < y[1] + y[2]
        BY <3>4, <4>1, DependencyOrder
      <4> QED
        BY <3>3, <4>3, <4>4
    <3>7. CASE e \in control
      <4>1. PICK i \in 1 .. L, j \in 1 .. L : i < j /\ e[1] = line[i] /\ y = line[j]
        BY <2>4, <3>5, <3>7
      <4>2. i \in Q
        BY <3>5, <4>1
      <4>3. p <= i /\ p < j /\ p \in 1 .. j - 1
        BY <2>2, <3>1, <3>2, <4>1, <4>2
      <4>4. y # t
        BY <2>8, <3>2, <4>1, <4>3
      <4>5. ~MayDependOn(t, y)
        BY <2>2, <4>1, <4>3 DEF InDataflowOrder, L, line
      <4> QED
        BY <3>4, <4>4, <4>5
    <3> QED
      BY <3>5, <3>6, <3>7
  <2> QED
    BY <2>6, <2>7
<1> QED
  BY <1>1, UnrollInvariance, PTL

=============================================================================
