------------------------ MODULE LoopCoverageProofs -------------------------
(***************************************************************************)
(* For every loop, the schedules leave nothing out: every task of the loop *)
(* is in the row when the scheduler is done, a custom schedule is followed *)
(* to the letter, and a wavefront schedule keeps few microbatches in       *)
(* flight.  IInv (module LoopSchedulerProofs) says of every entry of the   *)
(* row why it is there; FullInv adds the converse, that what the running   *)
(* loop has gone past is in the row.                                       *)
(***************************************************************************)
EXTENDS LoopSchedulerProofs

-----------------------------------------------------------------------------
(***************************************************************************)
(* The inductive invariant, together with IInv.                            *)
(***************************************************************************)

\* x is an element of the sequence.
Has(seq, x) == \E i \in 1 .. Len(seq) : seq[i] = x
InRow(t)    == Has(schedule[1], t)
InOrder(s)  == Has(order, s)

\* The stages that the row of stages holds.
StageInv ==
  /\ pc = "unroll" => \A s \in 0 .. outer - 1 : s \notin config.increment => InOrder(s)
  /\ pc = "wavefront" => \A s \in Stages \ config.increment : InOrder(s)
  /\ pc = "critical" => \A s \in 0 .. outer - 1 : s \notin config.noncritical => InOrder(s)
  /\ pc = "noncritical" => \A s \in Stages \ todo : InOrder(s)
  /\ pc = "pop" => \A s \in Stages : InOrder(s)

\* The wavefront loop has gone past microbatch <<q, o>> at stage index j - 1.
Passed(q, o, j) ==
  \/ Wavefront(q, o, j - 1) < outer
  \/ Wavefront(q, o, j - 1) = outer /\ j - 1 > inner

\* The tasks that the running loop has gone past are in the row.
CoverInv ==
  config.schedule # "Custom" =>
    /\ pc = "gpipe" => \A m \in Iters, s \in Stages :
         s < outer \/ (s = outer /\ m < inner) => InRow(<<m, s>>)
    /\ pc = "unroll" => \A m \in Iters, s \in config.increment \ todo : InRow(<<m, s>>)
    /\ pc = "wavefront" => \A m \in Iters, s \in config.increment : InRow(<<m, s>>)
    /\ pc = "wavefront" => \A m \in Iters, j \in 1 .. Len(order), q \in Nat, o \in Nat :
         /\ IsMicrobatch(m, q, o) /\ o < next_minibatch_delay
         /\ Passed(q, o, j)
         => InRow(<<m, order[j]>>)
    /\ pc = "pop" => \A m \in Iters, j \in 1 .. Len(order) :
         \/ InRow(<<m, order[j]>>)
         \/ \E g \in queue : g.microbatch = m /\ g.stage = j - 1
    /\ pc = "done" /\ DelayCoversGroups => \A t \in Tasks : InRow(t)

\* The delay of the wavefront loop is the one StartWavefront chose.
DelayInv == pc = "wavefront" => next_minibatch_delay = MinibatchDelay

\* Row `row' holds the loop increments that go first and n entries.
Skip(row) == IF row = 1 THEN Cardinality(config.increment) * config.num_iterations ELSE 0

Filled(row, n) ==
  /\ Len(schedule[row]) = Skip(row) + n
  /\ \A i \in 1 .. n :
       LET task  == schedule[row][Skip(row) + i]
           entry == config.custom_schedule[row][i]
       IN  /\ task[1] = entry[1]
           /\ entry[2] \in config.color[task[2]]
           /\ task[2] \notin config.increment

\* The entries of the custom schedule that have been pushed.
CustomInv ==
  config.schedule = "Custom" =>
    /\ pc \in {"unroll", "custom", "done"} => Len(schedule) = Len(config.custom_schedule)
    /\ pc \in {"unroll", "custom"} =>
         \A i \in 1 .. Len(order) : order[i] \notin config.increment
    /\ pc = "unroll" =>
         /\ Len(schedule[1]) = Cardinality(config.increment \ todo) * config.num_iterations
         /\ \A row \in 2 .. Len(schedule) : Len(schedule[row]) = 0
    /\ pc = "custom" => \A row \in 1 .. Len(schedule) :
         /\ row < outer => Filled(row, Len(config.custom_schedule[row]))
         /\ row = outer => Filled(row, inner - 1) /\ inner - 1 <= Len(config.custom_schedule[row])
         /\ row > outer => Filled(row, 0)
    /\ pc = "done" => \A row \in 1 .. Len(schedule) :
         Filled(row, Len(config.custom_schedule[row]))

FullInv == StageInv /\ CoverInv /\ DelayInv /\ CustomInv
-----------------------------------------------------------------------------

\* push_back adds its element and keeps the others.
LEMMA AppendHas ==
  ASSUME NEW S, NEW seq \in Seq(S), NEW x \in S
  PROVE  /\ Has(Append(seq, x), x)
         /\ \A y : Has(seq, y) => Has(Append(seq, x), y)
<1>1. /\ Len(seq) \in Nat
      /\ Len(Append(seq, x)) = Len(seq) + 1
      /\ \A i \in 1 .. Len(seq) : Append(seq, x)[i] = seq[i]
      /\ Append(seq, x)[Len(seq) + 1] = x
  BY AppendProperties, LenProperties
<1>2. Len(seq) + 1 \in 1 .. Len(seq) + 1 /\ 1 .. Len(seq) \subseteq 1 .. Len(seq) + 1
  BY <1>1
<1> QED
  BY <1>1, <1>2 DEF Has

\* The same for the row of a schedule with one row.
LEMMA PushBackHas ==
  ASSUME IInv, pc # "dispatch", config.schedule # "Custom", NEW t \in Tasks, PushBack(1, t)
  PROVE  Has(schedule'[1], t) /\ \A u : Has(schedule[1], u) => Has(schedule'[1], u)
<1>1. schedule \in Seq(Seq(Tasks)) /\ 1 \in 1 .. Len(schedule) /\ schedule[1] \in Seq(Tasks)
  BY ElementOfSeq DEF IInv, TypeOK, LoopInv
<1>2. schedule'[1] = Append(schedule[1], t)
  BY <1>1, PushBackFacts
<1> QED
  BY <1>1, <1>2, AppendHas

\* Before a loop has begun nothing need be in the schedule.
LEMMA ScheduleLoopsFull == ASSUME IInv, ScheduleLoops PROVE FullInv'
<1>1. /\ pc = "dispatch" /\ config' = config /\ UNCHANGED <<outer, inner, order>>
      /\ pc' \in {"critical", "gpipe", "unroll"}
      /\ todo' = IF pc' = "unroll" THEN config.increment ELSE {}
      /\ schedule' = IF config.schedule = "Custom"
                       THEN [row \in 1 .. Len(config.custom_schedule) |-> << >>]
                       ELSE << << >> >>
      /\ config.schedule = "Custom" => pc' = "unroll"
  BY DEF ScheduleLoops, SingleRowByStage, IsWavefront
<1>2. outer = 0 /\ inner = 0 /\ order = << >>
  BY <1>1 DEF IInv, LoopInv, OrderInv
<1>3. StageInv'
  BY <1>1, <1>2 DEF StageInv
<1>4. CoverInv'
  <2>1. \A s \in Stages : ~(s < 0)
    BY ConfigFacts DEF Stages
  <2>2. \A m \in Iters : ~(m < 0)
    BY ConfigFacts DEF Iters
  <2>3. Stages' = Stages /\ Iters' = Iters /\ Tasks' = Tasks
    BY <1>1 DEF Stages, Iters, Tasks
  <2> QED
    BY <1>1, <1>2, <2>1, <2>2, <2>3 DEF CoverInv
<1>5. DelayInv'
  BY <1>1 DEF DelayInv
<1>6. CustomInv'
  <2> SUFFICES ASSUME config.schedule = "Custom" PROVE CustomInv'
    BY <1>1 DEF CustomInv
  <2>1. Len(config.custom_schedule) \in Nat \ {0}
    BY ConfigFacts, LenProperties, EmptySeq
  <2>2. /\ schedule' \in Seq({<< >>}) /\ Len(schedule') = Len(config.custom_schedule)
        /\ \A row \in 1 .. Len(schedule') : Len(schedule'[row]) = 0
    BY <1>1, <2>1
  <2>3. config.increment \ todo' = {} /\ Cardinality({}) = 0 /\ pc' = "unroll"
    BY <1>1, FS_EmptySet
  <2>4. Len(schedule'[1]) = Cardinality(config.increment \ todo') * config.num_iterations
    <3>1. Cardinality(config.increment \ todo') = 0
      BY <2>3
    <3>2. Len(schedule'[1]) = 0
      BY <2>1, <2>2
    <3>3. 0 * config.num_iterations = 0
      BY ConfigFacts
    <3> QED
      BY <3>1, <3>2, <3>3
  <2> QED
    BY <1>1, <1>2, <2>2, <2>3, <2>4 DEF CustomInv
<1> QED
  BY <1>3, <1>4, <1>5, <1>6 DEF FullInv

\* ScheduleGpipe goes past the task that it appends, and ends past the last one.
LEMMA GpipeFull == ASSUME IInv, FullInv, ScheduleGpipe PROVE FullInv'
<1>1. /\ pc = "gpipe" /\ pc' \in {"gpipe", "done"} /\ PushBack(1, <<inner, outer>>)
      /\ config' = config /\ Stages' = Stages /\ Iters' = Iters /\ Tasks' = Tasks
  BY DEF ScheduleGpipe, Stages, Iters, Tasks
<1>2. /\ config.schedule # "Custom" /\ outer \in Nat /\ inner \in Nat
      /\ outer < config.stages /\ inner < config.num_iterations
  BY <1>1 DEF IInv, TypeOK, LoopInv
<1>3. <<inner, outer>> \in Tasks
  BY <1>2, ConfigFacts DEF Tasks, Iters, Stages
<1>4. Has(schedule'[1], <<inner, outer>>) /\ \A u : Has(schedule[1], u) => Has(schedule'[1], u)
  BY <1>1, <1>2, <1>3, PushBackHas
<1>5. ASSUME NEW m \in Iters, NEW s \in Stages,
             s < outer \/ (s = outer /\ m < inner) \/ (s = outer /\ m = inner)
      PROVE  Has(schedule'[1], <<m, s>>)
  <2>1. s < outer \/ (s = outer /\ m < inner) => Has(schedule[1], <<m, s>>)
    BY <1>1, <1>2 DEF FullInv, CoverInv, InRow
  <2> QED
    BY <1>4, <1>5, <2>1
<1>6. \A m \in Iters, s \in Stages : /\ m \in Nat /\ m < config.num_iterations
                                     /\ s \in Nat /\ s < config.stages
  BY ConfigFacts DEF Iters, Stages
<1>7. CASE inner + 1 < config.num_iterations
  <2>1. inner' = inner + 1 /\ outer' = outer /\ pc' = "gpipe"
    BY <1>1, <1>7 DEF ScheduleGpipe
  <2>2. \A m \in Iters, s \in Stages :
          s < outer' \/ (s = outer' /\ m < inner') => Has(schedule'[1], <<m, s>>)
    BY <1>2, <1>5, <1>6, <2>1
  <2> QED
    BY <1>1, <1>2, <2>1, <2>2 DEF FullInv, StageInv, CoverInv, DelayInv, CustomInv, InRow
<1>8. CASE ~(inner + 1 < config.num_iterations)
  <2>1. /\ inner' = 0 /\ outer' = outer + 1
        /\ pc' = IF outer + 1 < config.stages THEN "gpipe" ELSE "done"
    BY <1>1, <1>8 DEF ScheduleGpipe
  <2>2. \A m \in Iters, s \in Stages : s < outer + 1 => Has(schedule'[1], <<m, s>>)
    BY <1>2, <1>5, <1>6, <1>8, ConfigFacts
  <2>3. CASE pc' = "gpipe"
    BY <1>1, <1>2, <1>6, <2>1, <2>2, <2>3
       DEF FullInv, StageInv, CoverInv, DelayInv, CustomInv, InRow
  <2>4. CASE pc' = "done"
    <3>0. ~(outer + 1 < config.stages)
      BY <2>1, <2>4
    <3>1. \A m \in Iters, s \in Stages : Has(schedule'[1], <<m, s>>)
      <4>1. \A s \in Stages : s < outer + 1
        BY <1>2, <1>6, <3>0, ConfigFacts
      <4> QED
        BY <2>2, <4>1
    <3>2. \A t \in Tasks : Has(schedule'[1], t)
      BY <3>1 DEF Tasks
    <3> QED
      BY <1>1, <1>2, <2>4, <3>2 DEF FullInv, StageInv, CoverInv, DelayInv, CustomInv, InRow
  <2> QED
    BY <1>1, <2>3, <2>4
<1> QED
  BY <1>7, <1>8

\* UnrollLoopIncrementTasks goes past one loop increment.
LEMMA UnrollFull == ASSUME IInv, FullInv, UnrollLoopIncrementTasks PROVE FullInv'
<1>1. /\ pc = "unroll" /\ pc' = "unroll" /\ UNCHANGED <<config, outer, order>>
      /\ Stages' = Stages /\ Iters' = Iters
  BY DEF UnrollLoopIncrementTasks, Stages, Iters
<1> DEFINE L == Len(schedule[1])
           N == config.num_iterations
<1>2. PICK x \in todo :
        /\ todo' = todo \ {x} /\ x \in Stages /\ x \in config.increment
        /\ L \in Nat /\ Len(schedule') = Len(schedule)
        /\ \A r \in 2 .. Len(schedule) : schedule'[r] = schedule[r]
        /\ Len(schedule'[1]) = L + N
        /\ \A i \in 1 .. Len(schedule'[1]) :
             \/ i <= L /\ schedule'[1][i] = schedule[1][i]
             \/ i > L /\ schedule'[1][i] = <<i - L - 1, x>>
  BY UnrollFacts
<1>3. N \in Nat \ {0} /\ \A m \in Iters : m \in 0 .. N - 1
  BY ConfigFacts DEF Iters
<1> HIDE DEF L, N
<1>4. \A u : Has(schedule[1], u) => Has(schedule'[1], u)
  <2> SUFFICES ASSUME NEW i \in 1 .. L PROVE Has(schedule'[1], schedule[1][i])
    BY DEF Has, L
  <2>1. i \in 1 .. Len(schedule'[1]) /\ schedule'[1][i] = schedule[1][i]
    BY <1>2, <1>3
  <2> QED
    BY <2>1 DEF Has
<1>5. ASSUME NEW m \in Iters PROVE Has(schedule'[1], <<m, x>>)
  <2> DEFINE i == L + 1 + m
  <2>1. i \in 1 .. Len(schedule'[1]) /\ ~(i <= L) /\ i - L - 1 = m
    BY <1>2, <1>3
  <2>2. schedule'[1][i] = <<i - L - 1, x>>
    BY <1>2, <2>1
  <2> QED
    BY <2>1, <2>2 DEF Has
<1>6. StageInv' /\ DelayInv'
  BY <1>1 DEF FullInv, StageInv, DelayInv, InOrder
<1>7. CoverInv'
  <2> SUFFICES ASSUME config.schedule # "Custom", NEW m \in Iters,
                      NEW s \in config.increment \ todo'
               PROVE  Has(schedule'[1], <<m, s>>)
    BY <1>1 DEF CoverInv, InRow
  <2>1. s # x => Has(schedule[1], <<m, s>>)
    BY <1>1, <1>2 DEF FullInv, CoverInv, InRow
  <2> QED
    BY <1>4, <1>5, <2>1
<1>8. CustomInv'
  <2> SUFFICES ASSUME config.schedule = "Custom" PROVE CustomInv'
    BY <1>1 DEF CustomInv
  <2>0. /\ Len(schedule) = Len(config.custom_schedule)
        /\ \A i \in 1 .. Len(order) : order[i] \notin config.increment
        /\ \A row \in 2 .. Len(schedule) : Len(schedule[row]) = 0
    BY <1>1 DEF FullInv, CustomInv
  <2>1. L = Cardinality(config.increment \ todo) * N
    BY <1>1 DEF FullInv, CustomInv, L, N
  <2>2. IsFiniteSet(config.increment \ todo)
    <3>1. config.increment \ todo \subseteq Stages
      BY ConfigFacts
    <3> QED
      BY <3>1, StagesFinite, FS_Subset
  <2> DEFINE C == Cardinality(config.increment \ todo)
  <2>3. config.increment \ todo' = (config.increment \ todo) \cup {x}
    BY <1>2
  <2>4. C \in Nat /\ Cardinality(config.increment \ todo') = C + 1
    BY <1>2, <2>2, <2>3, FS_CardinalityType, FS_AddElement
  <2> HIDE DEF C
  <2>5. (C + 1) * N = C * N + N
    BY <1>3, <2>4
  <2>6. Len(schedule'[1]) = Cardinality(config.increment \ todo') * N
    BY <1>2, <2>1, <2>4, <2>5 DEF C
  <2> QED
    BY <1>1, <1>2, <2>0, <2>6 DEF CustomInv, N
<1> QED
  BY <1>6, <1>7, <1>8 DEF FullInv

\* remaining_tasks holds the stages that the loop has gone past.
LEMMA RemainingTasksFull == ASSUME IInv, FullInv, RemainingTasks PROVE FullInv'
<1>1. /\ pc = "unroll" /\ pc' = "unroll" /\ UNCHANGED <<config, schedule, todo>>
      /\ Stages' = Stages /\ Iters' = Iters
      /\ outer < config.stages /\ outer' = outer + 1
      /\ order' = IF outer \in config.increment THEN order ELSE Append(order, outer)
  BY DEF RemainingTasks, Stages, Iters
<1>2. outer \in Nat /\ outer \in Stages /\ order \in Seq(Stages)
  BY <1>1, ConfigFacts DEF IInv, TypeOK, Stages
<1>3. /\ \A s : Has(order, s) => Has(order', s)
      /\ outer \notin config.increment => Has(order', outer)
  BY <1>1, <1>2, AppendHas
<1>4. StageInv'
  <2> SUFFICES ASSUME NEW s \in 0 .. outer, s \notin config.increment
               PROVE  Has(order', s)
    BY <1>1, <1>2 DEF StageInv, InOrder
  <2>1. s # outer => Has(order, s)
    BY <1>1, <1>2 DEF FullInv, StageInv, InOrder
  <2> QED
    BY <1>3, <2>1
<1>5. CoverInv' /\ DelayInv'
  BY <1>1 DEF FullInv, CoverInv, DelayInv, InRow
<1>6. CustomInv'
  <2>1. OrderInv'
    BY RemainingTasksInv DEF IInv
  <2>2. \A i \in 1 .. Len(order') : order'[i] \notin config.increment
    BY <1>1, <2>1 DEF OrderInv
  <2>3. config.schedule = "Custom" =>
          /\ Len(schedule) = Len(config.custom_schedule)
          /\ Len(schedule[1]) = Cardinality(config.increment \ todo) * config.num_iterations
          /\ \A row \in 2 .. Len(schedule) : Len(schedule[row]) = 0
    BY <1>1 DEF FullInv, CustomInv
  <2> QED
    BY <1>1, <2>2, <2>3 DEF CustomInv
<1> QED
  BY <1>4, <1>5, <1>6 DEF FullInv

\* The wavefront loop begins with the loop increments in the row; without other
\* stages it has nothing to do.
LEMMA StartWavefrontFull == ASSUME IInv, FullInv, StartWavefront PROVE FullInv'
<1>1. /\ pc = "unroll" /\ todo = {} /\ outer = config.stages /\ config.schedule # "Custom"
      /\ pc' = IF order = << >> THEN "done" ELSE "wavefront"
      /\ outer' = 0 /\ inner' = Len(order) - 1 /\ UNCHANGED <<config, schedule, order>>
      /\ next_minibatch_delay' = MinibatchDelay /\ num_groups' = NumGroups
      /\ Stages' = Stages /\ Iters' = Iters /\ Tasks' = Tasks
  BY DEF StartWavefront, Stages, Iters, Tasks
<1>2. \A m \in Iters, s \in config.increment : Has(schedule[1], <<m, s>>)
  BY <1>1 DEF FullInv, CoverInv, InRow
<1>3. \A s \in Stages \ config.increment : Has(order, s)
  <2>1. Stages = 0 .. outer - 1
    BY <1>1 DEF Stages
  <2> QED
    BY <1>1, <2>1 DEF FullInv, StageInv, InOrder
<1>4. MinibatchDelay' = MinibatchDelay
  BY <1>1 DEF MinibatchDelay, PipelineTasks, RowDevices
<1>5. CASE order = << >>
  <2>1. pc' = "done"
    BY <1>1, <1>5
  <2>2. Stages \subseteq config.increment
    <3>1. Len(order) = 0
      BY <1>5
    <3> QED
      BY <1>3, <3>1 DEF Has
  <2>3. \A t \in Tasks : Has(schedule[1], t)
    BY <1>2, <2>2 DEF Tasks
  <2> QED
    BY <1>1, <2>1, <2>3 DEF FullInv, StageInv, CoverInv, DelayInv, CustomInv, InRow
<1>6. CASE order # << >>
  <2>1. pc' = "wavefront"
    BY <1>1, <1>6
  <2>2. next_minibatch_delay' \in Nat \ {0} /\ num_groups' \in Nat \ {0} /\ Len(order) \in Nat
    BY <1>1, WavefrontLocals, LenProperties DEF IInv, TypeOK
  <2>3. ASSUME NEW j \in 1 .. Len(order), NEW q \in Nat, NEW o \in Nat
        PROVE  ~Passed(q, o, j)'
    <3>0. PICK D \in Nat : D = next_minibatch_delay'
      BY <2>2
    <3>1. PICK x \in Nat : x = q * D
      OBVIOUS
    <3>2. ~(q * next_minibatch_delay' + o + (j - 1) < 0)
      <4>1. ~(x + o + (j - 1) < 0)
        BY <2>2
      <4> QED
        BY <3>0, <3>1, <4>1
    <3>3. ~(j - 1 > Len(order) - 1)
      BY <2>2
    <3> QED
      BY <1>1, <3>2, <3>3 DEF Passed, Wavefront
  <2>4. StageInv' /\ DelayInv' /\ CustomInv'
    BY <1>1, <1>3, <1>4, <2>1 DEF StageInv, DelayInv, CustomInv, InOrder
  <2>5. CoverInv'
    BY <1>1, <1>2, <2>1, <2>3 DEF CoverInv, InRow
  <2> QED
    BY <2>4, <2>5 DEF FullInv
<1> QED
  BY <1>5, <1>6

\* The minibatches that are counted hold every microbatch.
LEMMA MinibatchInRange ==
  ASSUME config.num_iterations \in Nat \ {0}, NEW G \in Nat \ {0},
         NEW m \in Nat, m < config.num_iterations, NEW q \in Nat, NEW o \in Nat,
         m = q * G + o
  PROVE  NumMinibatches(G) \in Nat /\ q < NumMinibatches(G) /\ q \in 0 .. NumMinibatches(G) - 1
<1> DEFINE N == config.num_iterations
<1>1. N + G - 1 \in Nat
  OBVIOUS
<1>2. /\ (N + G - 1) \div G \in Nat /\ (N + G - 1) % G \in 0 .. G - 1
      /\ N + G - 1 = ((N + G - 1) \div G) * G + ((N + G - 1) % G)
  BY <1>1, DivMod
<1>3. PICK a \in Nat, b \in Nat : a = (N + G - 1) \div G /\ b = (N + G - 1) % G
  BY <1>2
<1>4. NumMinibatches(G) = a /\ b < G /\ N + G - 1 = a * G + b
  BY <1>2, <1>3 DEF NumMinibatches
<1>5. a * G \in Nat /\ q * G \in Nat
  OBVIOUS
<1>6. CASE ~(q < a)
  <2>1. a * G <= q * G
    <3>1. CASE a = q
      BY <1>5, <3>1
    <3>2. CASE a < q
      <4>1. a * G + G <= q * G
        BY <3>2, MultMonotonic
      <4> QED
        BY <1>5, <4>1
    <3> QED
      BY <1>6, <3>1, <3>2
  <2> QED
    BY <1>4, <1>5, <2>1
<1> QED
  BY <1>4, <1>6

\* The wavefront loop goes past the microbatch of a tick, which it schedules
\* unless there is none.  When it ends, no microbatch is left at any stage: the
\* last one of stage index Len(order) - 1 is at a wavefront below NumWavefronts.
LEMMA WavefrontFull == ASSUME IInv, FullInv, ScheduleWavefront PROVE FullInv'
<1> DEFINE G == num_groups
           D == next_minibatch_delay
           N == config.num_iterations
           tick == outer - inner
<1>1. /\ pc = "wavefront" /\ pc' \in {"wavefront", "done"} /\ UNCHANGED <<config, order>>
      /\ num_groups' = G /\ next_minibatch_delay' = D
      /\ Stages' = Stages /\ Iters' = Iters /\ Tasks' = Tasks
      /\ IF RunsMicrobatch(tick)
           THEN PushBack(1, <<Microbatch(tick), order[inner + 1]>>)
           ELSE UNCHANGED schedule
  BY DEF ScheduleWavefront, Stages, Iters, Tasks, Tick
<1>2. /\ outer \in Nat /\ inner \in Nat /\ inner < Len(order) /\ Len(order) \in Nat
      /\ G \in Nat \ {0} /\ D \in Nat \ {0} /\ order \in Seq(Stages)
      /\ config.schedule \notin {"ZeroBubbleH2", "Custom"} /\ N \in Nat \ {0}
  BY <1>1, ConfigFacts, LenProperties DEF IInv, TypeOK, LoopInv
<1>3. \A u : Has(schedule[1], u) => Has(schedule'[1], u)
  <2>1. CASE RunsMicrobatch(tick)
    <3>1. <<Microbatch(tick), order[inner + 1]>> \in Tasks
      <4>1. order[inner + 1] \in Stages
        BY <1>2, ElementOfSeq
      <4>2. tick \in Nat
        BY <1>2, <2>1 DEF RunsMicrobatch
      <4>3. tick \div D \in Nat /\ tick % D \in 0 .. D - 1
        BY <1>2, <4>2, DivMod
      <4>4. PICK q \in Nat, o \in Nat : q = tick \div D /\ o = tick % D
        BY <4>3
      <4>5. q * G \in Nat
        BY <1>2
      <4>6. Microbatch(tick) \in Nat /\ Microbatch(tick) < N
        BY <2>1, <4>4, <4>5 DEF Microbatch, RunsMicrobatch
      <4> QED
        BY <1>2, <4>1, <4>6 DEF Tasks, Iters
    <3> QED
      BY <1>1, <1>2, <2>1, <3>1, PushBackHas
  <2>2. CASE ~RunsMicrobatch(tick)
    BY <1>1, <2>2
  <2> QED
    BY <2>1, <2>2
\* The microbatch that is at stage index inner in this wavefront.
<1>4. ASSUME NEW m \in Iters, NEW q \in Nat, NEW o \in Nat,
             m = q * G + o, o < G, o < D, q * D + o + inner = outer
      PROVE  Has(schedule'[1], <<m, order[inner + 1]>>)
  <2>1. q * D \in Nat
    BY <1>2
  <2>2. tick \in Nat /\ tick = q * D + o
    BY <1>2, <1>4, <2>1
  <2>3. tick \div D \in Nat /\ tick % D \in 0 .. D - 1
        /\ tick = (tick \div D) * D + (tick % D)
    BY <1>2, <2>2, DivMod
  <2>4. PICK a \in Nat, b \in Nat : a = tick \div D /\ b = tick % D
    BY <2>3
  <2>5. b < D /\ a * D + b = q * D + o
    BY <1>2, <2>2, <2>3, <2>4
  <2>6. a = q /\ b = o
    BY <1>2, <1>4, <2>5, MinibatchUnique
  <2>7. Microbatch(tick) = m
    BY <1>4, <2>4, <2>6 DEF Microbatch
  <2>8. RunsMicrobatch(tick)
    <3>1. m < N
      BY <1>2 DEF Iters
    <3> QED
      BY <1>4, <2>2, <2>4, <2>6, <2>7, <3>1 DEF RunsMicrobatch
  <2>9. order[inner + 1] \in Stages
    BY <1>2, ElementOfSeq
  <2>10. <<Microbatch(tick), order[inner + 1]>> \in Tasks
    BY <2>7, <2>9 DEF Tasks
  <2> QED
    BY <1>1, <1>2, <2>7, <2>8, <2>10, PushBackHas
\* The microbatches that the loop has gone past after this step.
<1>5. ASSUME NEW m \in Iters, NEW j \in 1 .. Len(order), NEW q \in Nat, NEW o \in Nat,
             m = q * G + o, o < G, o < D,
             \/ q * D + o + (j - 1) < outer
             \/ q * D + o + (j - 1) = outer /\ j - 1 >= inner
      PROVE  Has(schedule'[1], <<m, order[j]>>)
  <2>1. CASE q * D + o + (j - 1) = outer /\ j - 1 = inner
    <3>1. j = inner + 1
      BY <1>2, <2>1
    <3> QED
      BY <1>4, <1>5, <2>1, <3>1
  <2>2. CASE ~(q * D + o + (j - 1) = outer /\ j - 1 = inner)
    <3>1. IsMicrobatch(m, q, o) /\ o < next_minibatch_delay
      BY <1>5 DEF IsMicrobatch
    <3>2. Passed(q, o, j)
      BY <1>2, <1>5, <2>2 DEF Passed, Wavefront
    <3>3. Has(schedule[1], <<m, order[j]>>)
      BY <1>1, <1>2, <3>1, <3>2 DEF FullInv, CoverInv, InRow
    <3> QED
      BY <1>3, <3>3
  <2> QED
    BY <2>1, <2>2
<1>6. \A m \in Iters, s \in config.increment : Has(schedule'[1], <<m, s>>)
  BY <1>1, <1>2, <1>3 DEF FullInv, CoverInv, InRow
<1>7. \A s \in Stages \ config.increment : Has(order, s)
  BY <1>1 DEF FullInv, StageInv, InOrder
<1>8. MinibatchDelay' = MinibatchDelay
  BY <1>1 DEF MinibatchDelay, PipelineTasks, RowDevices
<1>9. CASE pc' = "wavefront"
  <2>1. \/ outer' = outer /\ inner' = inner - 1 /\ inner > 0
        \/ outer' = outer + 1 /\ inner = 0 /\ inner' = Len(order) - 1
    BY <1>2 DEF ScheduleWavefront
  <2>2. ASSUME NEW m \in Iters, NEW j \in 1 .. Len(order), NEW q \in Nat, NEW o \in Nat,
               m = q * G + o, o < G, o < D,
               \/ q * D + o + (j - 1) < outer'
               \/ q * D + o + (j - 1) = outer' /\ j - 1 > inner'
        PROVE  Has(schedule'[1], <<m, order[j]>>)
    <3>1. q * D + o + (j - 1) \in Int
      BY <1>2
    <3>2. \/ q * D + o + (j - 1) < outer
          \/ q * D + o + (j - 1) = outer /\ j - 1 >= inner
      BY <1>2, <2>1, <2>2, <3>1
    <3> QED
      BY <1>5, <2>2, <3>2
  <2>3. CoverInv'
    BY <1>1, <1>2, <1>6, <1>9, <2>2 DEF CoverInv, InRow, IsMicrobatch, Passed, Wavefront
  <2>4. StageInv' /\ DelayInv' /\ CustomInv'
    BY <1>1, <1>2, <1>7, <1>8, <1>9
       DEF FullInv, StageInv, DelayInv, CustomInv, InOrder
  <2> QED
    BY <2>3, <2>4 DEF FullInv
<1>10. CASE pc' = "done"
  <2> DEFINE M == NumMinibatches(G)
  <2>1. inner = 0 /\ ~(outer + 1 < Len(order) + M * D)
    BY <1>1, <1>2, <1>10 DEF ScheduleWavefront, NumWavefronts
  <2>2. ASSUME G <= D, NEW m \in Iters, NEW j \in 1 .. Len(order)
        PROVE  Has(schedule'[1], <<m, order[j]>>)
    <3>1. m \in Nat /\ m < N
      BY <1>2 DEF Iters
    <3>2. /\ m \div G \in Nat /\ m % G \in 0 .. G - 1
          /\ m = (m \div G) * G + (m % G)
      BY <1>2, <3>1, DivMod
    <3>3. PICK q \in Nat, o \in Nat : q = m \div G /\ o = m % G
      BY <3>2
    <3>4. m = q * G + o /\ o < G /\ o < D
      <4>1. m = q * G + o
        BY <3>2, <3>3
      <4>2. o \in 0 .. G - 1
        BY <3>2, <3>3
      <4>3. o < G
        BY <1>2, <4>2
      <4> QED
        BY <1>2, <2>2, <4>1, <4>3
    <3>5. M \in Nat /\ q < M
      BY <1>2, <3>1, <3>4, MinibatchInRange
    <3>6. q * D + D <= M * D
      BY <1>2, <3>5, MultMonotonic
    <3>7. q * D \in Nat /\ M * D \in Nat
      BY <1>2, <3>5
    <3>8. q * D + o + (j - 1) <= outer
      <4> HIDE DEF M
      <4> QED
        BY <1>2, <2>1, <3>4, <3>6, <3>7
    <3>9. \/ q * D + o + (j - 1) < outer
          \/ q * D + o + (j - 1) = outer /\ j - 1 >= inner
      BY <1>2, <2>1, <3>7, <3>8
    <3> QED
      BY <1>5, <3>4, <3>9
  <2>3. ASSUME G <= D, NEW m \in Iters, NEW s \in Stages
        PROVE  Has(schedule'[1], <<m, s>>)
    <3>1. CASE s \in config.increment
      BY <1>6, <3>1
    <3>2. CASE s \notin config.increment
      <4>1. PICK j \in 1 .. Len(order) : order[j] = s
        BY <1>7, <3>2 DEF Has
      <4> QED
        BY <2>2, <2>3, <4>1
    <3> QED
      BY <3>1, <3>2
  <2>4. G <= D => \A t \in Tasks : Has(schedule'[1], t)
    BY <2>3 DEF Tasks
  <2>5. DelayCoversGroups' <=> G <= D
    BY <1>1 DEF DelayCoversGroups
  <2> QED
    BY <1>1, <1>2, <1>10, <2>4, <2>5
       DEF FullInv, StageInv, CoverInv, DelayInv, CustomInv, InRow
<1> QED
  BY <1>1, <1>9, <1>10

\* Zero-bubble: the critical stages that the loop has gone past.
LEMMA CriticalFull == ASSUME IInv, FullInv, CriticalStages PROVE FullInv'
<1>1. /\ pc = "critical" /\ UNCHANGED <<config, schedule>> /\ Stages' = Stages
      /\ outer < config.stages /\ outer' = outer + 1
      /\ order' = IF outer \in config.noncritical THEN order ELSE Append(order, outer)
      /\ pc' \in {"critical", "noncritical"}
      /\ pc' = "noncritical" => outer + 1 = config.stages /\ todo' = config.noncritical
  BY DEF CriticalStages, Stages
<1>2. /\ outer \in Nat /\ outer \in Stages /\ order \in Seq(Stages)
      /\ config.schedule = "ZeroBubbleH2"
  BY <1>1, ConfigFacts DEF IInv, TypeOK, LoopInv, Stages
<1>3. /\ \A s : Has(order, s) => Has(order', s)
      /\ outer \notin config.noncritical => Has(order', outer)
  BY <1>1, <1>2, AppendHas
<1>4. ASSUME NEW s \in 0 .. outer, s \notin config.noncritical
      PROVE  Has(order', s)
  <2>1. s # outer => Has(order, s)
    BY <1>1, <1>2, <1>4 DEF FullInv, StageInv, InOrder
  <2> QED
    BY <1>3, <1>4, <2>1
<1>5. CASE pc' = "critical"
  BY <1>1, <1>2, <1>4, <1>5 DEF FullInv, StageInv, CoverInv, DelayInv, CustomInv, InOrder
<1>6. CASE pc' = "noncritical"
  <2>1. Stages = 0 .. outer
    <3>1. config.stages - 1 = outer
      BY <1>1, <1>2, <1>6, ConfigFacts
    <3> QED
      BY <3>1 DEF Stages
  <2> QED
    BY <1>1, <1>2, <1>4, <1>6, <2>1
       DEF FullInv, StageInv, CoverInv, DelayInv, CustomInv, InOrder
<1> QED
  BY <1>1, <1>5, <1>6

\* Zero-bubble: a non-critical stage joins the others.
LEMMA NonCriticalFull == ASSUME IInv, FullInv, NonCriticalStages PROVE FullInv'
<1>1. PICK stage \in todo :
        /\ pc = "noncritical" /\ pc' = "noncritical" /\ UNCHANGED config /\ Stages' = Stages
        /\ order' = Append(order, stage) /\ todo' = todo \ {stage}
  BY DEF NonCriticalStages, Stages
<1>2. stage \in Stages /\ order \in Seq(Stages) /\ config.schedule = "ZeroBubbleH2"
  BY <1>1 DEF IInv, TypeOK, LoopInv
<1>3. Has(order', stage) /\ \A s : Has(order, s) => Has(order', s)
  BY <1>1, <1>2, AppendHas
<1>4. \A s \in Stages \ todo' : Has(order', s)
  BY <1>1, <1>3 DEF FullInv, StageInv, InOrder
<1> QED
  BY <1>1, <1>2, <1>4 DEF FullInv, StageInv, CoverInv, DelayInv, CustomInv, InOrder

\* Zero-bubble: there is a group for every task.
LEMMA EmplaceFull == ASSUME IInv, FullInv, EmplaceStageGroups PROVE FullInv'
<1> DEFINE G == NumGroups
           N == config.num_iterations
           M == NumMinibatches(G)
<1>1. /\ pc = "noncritical" /\ pc' = "pop" /\ todo = {} /\ UNCHANGED <<config, order, schedule>>
      /\ Stages' = Stages /\ Iters' = Iters
      /\ queue' = { [wf |-> minibatch * next_minibatch_delay + mb + stage,
                     microbatch |-> minibatch * G + mb, stage |-> stage] :
                      minibatch \in 0 .. M - 1, mb \in 0 .. G - 1, stage \in Stages }
  BY DEF EmplaceStageGroups, StageGroup, Stages, Iters, NumMinibatches
<1>2. G \in Nat \ {0} /\ N \in Nat \ {0} /\ config.schedule = "ZeroBubbleH2"
  BY <1>1, WavefrontLocals, ConfigFacts DEF IInv, LoopInv
<1>3. \A s \in Stages : Has(order, s)
  BY <1>1 DEF FullInv, StageInv, InOrder
<1>4. ASSUME NEW m \in Iters, NEW j \in 1 .. Len(order)
      PROVE  \E g \in queue' : g.microbatch = m /\ g.stage = j - 1
  <2>1. j - 1 \in Stages
    <3>1. OrderInv' /\ TypeOK'
      BY EmplaceStageGroupsInv DEF IInv
    <3>2. Len(order) = config.stages /\ config.stages \in Nat
      BY <1>1, <3>1, ConfigFacts DEF OrderInv
    <3> QED
      BY <3>2 DEF Stages
  <2>2. m \in Nat /\ m < N
    BY <1>2 DEF Iters
  <2>3. /\ m \div G \in Nat /\ m % G \in 0 .. G - 1 /\ m = (m \div G) * G + (m % G)
    BY <1>2, <2>2, DivMod
  <2>4. PICK q \in Nat, o \in 0 .. G - 1 : q = m \div G /\ o = m % G
    BY <2>3
  <2>5. m = q * G + o
    BY <2>3, <2>4
  <2>6. q \in 0 .. M - 1
    <3>1. o \in Nat
      BY <1>2
    <3> HIDE DEF G
    <3> QED
      BY <1>2, <2>2, <2>5, <3>1, MinibatchInRange
  <2> DEFINE g == [wf |-> q * next_minibatch_delay + o + (j - 1),
                   microbatch |-> q * G + o, stage |-> j - 1]
  <2> HIDE DEF G, M
  <2>7. g \in queue'
    BY <1>1, <2>1, <2>4, <2>6
  <2> QED
    BY <2>5, <2>7
<1> QED
  BY <1>1, <1>2, <1>3, <1>4
     DEF FullInv, StageInv, CoverInv, DelayInv, CustomInv, InOrder, InRow

\* Zero-bubble: the task of a group that is popped is in the row.
LEMMA PopFull == ASSUME IInv, FullInv, PopStageGroup PROVE FullInv'
<1>1. /\ pc = "pop" /\ pc' \in {"pop", "done", "undefined"} /\ UNCHANGED <<config, order>>
      /\ Stages' = Stages /\ Iters' = Iters /\ Tasks' = Tasks
  BY DEF PopStageGroup, Stages, Iters, Tasks
<1>2. PICK group \in queue :
        /\ queue' = queue \ {group}
        /\ IF group.microbatch < config.num_iterations
             THEN /\ PushBack(1, <<group.microbatch, order[group.stage + 1]>>)
                  /\ pc' = IF queue' = {} THEN "done" ELSE "pop"
             ELSE pc' = "undefined"
  BY DEF PopStageGroup
<1>3. CASE pc' = "undefined"
  BY <1>1, <1>3 DEF FullInv, StageInv, CoverInv, DelayInv, CustomInv, LoopInv, IInv
<1>4. CASE pc' # "undefined"
  <2>1. /\ group.microbatch < config.num_iterations
        /\ PushBack(1, <<group.microbatch, order[group.stage + 1]>>)
        /\ pc' = IF queue' = {} THEN "done" ELSE "pop"
    BY <1>2, <1>4
  <2>2. /\ group.microbatch \in Nat /\ group.stage \in Stages /\ order \in Seq(Stages)
        /\ config.schedule = "ZeroBubbleH2" /\ Len(order) = config.stages
    BY <1>1 DEF IInv, TypeOK, LoopInv, OrderInv
  <2>3. order[group.stage + 1] \in Stages
    <3>1. group.stage + 1 \in 1 .. Len(order)
      BY <2>2, ConfigFacts DEF Stages
    <3> QED
      BY <2>2, <3>1, ElementOfSeq
  <2>4. <<group.microbatch, order[group.stage + 1]>> \in Tasks
    BY <2>1, <2>2, <2>3, ConfigFacts DEF Tasks, Iters
  <2>5. /\ Has(schedule'[1], <<group.microbatch, order[group.stage + 1]>>)
        /\ \A u : Has(schedule[1], u) => Has(schedule'[1], u)
    BY <1>1, <2>1, <2>2, <2>4, PushBackHas
  <2>6. ASSUME NEW m \in Iters, NEW j \in 1 .. Len(order)
        PROVE  \/ Has(schedule'[1], <<m, order[j]>>)
               \/ \E g \in queue' : g.microbatch = m /\ g.stage = j - 1
    <3>1. \/ Has(schedule[1], <<m, order[j]>>)
          \/ \E g \in queue : g.microbatch = m /\ g.stage = j - 1
      BY <1>1, <2>2 DEF FullInv, CoverInv, InRow
    <3>2. CASE Has(schedule[1], <<m, order[j]>>)
      BY <2>5, <3>2
    <3>3. ASSUME NEW g \in queue, g.microbatch = m, g.stage = j - 1
          PROVE  \/ Has(schedule'[1], <<m, order[j]>>)
                 \/ \E h \in queue' : h.microbatch = m /\ h.stage = j - 1
      <4>1. CASE g = group
        <5>1. j = group.stage + 1
          BY <3>3, <4>1, ConfigFacts, <2>2 DEF Stages
        <5> QED
          BY <2>5, <3>3, <4>1, <5>1
      <4>2. CASE g # group
        BY <1>2, <3>3, <4>2
      <4> QED
        BY <4>1, <4>2
    <3> QED
      BY <3>1, <3>2, <3>3
  <2>7. \A s \in Stages : Has(order, s)
    BY <1>1 DEF FullInv, StageInv, InOrder
  <2>8. CASE pc' = "pop"
    BY <1>1, <2>2, <2>6, <2>7, <2>8
       DEF FullInv, StageInv, CoverInv, DelayInv, CustomInv, InOrder, InRow
  <2>9. CASE pc' = "done"
    <3>1. queue' = {}
      BY <2>1, <2>9
    <3>2. ASSUME NEW m \in Iters, NEW s \in Stages PROVE Has(schedule'[1], <<m, s>>)
      <4>1. PICK j \in 1 .. Len(order) : order[j] = s
        BY <2>7 DEF Has
      <4> QED
        BY <2>6, <3>1, <4>1
    <3>3. \A t \in Tasks : Has(schedule'[1], t)
      BY <3>2 DEF Tasks
    <3> QED
      BY <1>1, <2>2, <2>9, <3>3
         DEF FullInv, StageInv, CoverInv, DelayInv, CustomInv, InOrder, InRow
  <2> QED
    BY <2>1, <2>8, <2>9
<1> QED
  BY <1>3, <1>4

\* The rows of a custom schedule begin with what was unrolled.
LEMMA StartCustomFull == ASSUME IInv, FullInv, StartCustomSchedule PROVE FullInv'
<1>1. /\ pc = "unroll" /\ todo = {} /\ config.schedule = "Custom"
      /\ pc' \in {"custom", "error"} /\ outer' = 1 /\ inner' = 1
      /\ UNCHANGED <<config, schedule, order>>
  BY DEF StartCustomSchedule
<1>2. /\ Len(schedule) = Len(config.custom_schedule)
      /\ \A i \in 1 .. Len(order) : order[i] \notin config.increment
      /\ Len(schedule[1]) = Cardinality(config.increment \ todo) * config.num_iterations
      /\ \A row \in 2 .. Len(schedule) : Len(schedule[row]) = 0
  BY <1>1 DEF FullInv, CustomInv
<1>3. config.increment \ todo = config.increment
  BY <1>1
<1>4. Len(schedule) \in Nat /\ Skip(1) \in Nat
  <2>1. IsFiniteSet(config.increment)
    BY ConfigFacts, StagesFinite, FS_Subset
  <2>2. Cardinality(config.increment) \in Nat
    BY <2>1, FS_CardinalityType
  <2> QED
    BY <2>2, ConfigFacts, LenProperties DEF Skip, IInv, TypeOK
<1>5. ASSUME NEW row \in 1 .. Len(schedule)
      PROVE  Len(schedule[row]) = Skip(row) /\ Skip(row) \in Nat
  <2>1. CASE row = 1
    BY <1>2, <1>3, <1>4, <2>1 DEF Skip
  <2>2. CASE row # 1
    BY <1>2, <1>4, <2>2 DEF Skip
  <2> QED
    BY <2>1, <2>2
<1>6. ASSUME NEW row \in 1 .. Len(schedule)
      PROVE  /\ Filled(row, 0)' /\ Filled(row, inner - 1)' /\ ~(row < outer')
             /\ inner' - 1 <= Len(config.custom_schedule[row])
  <2>1. /\ Len(schedule[row]) = Skip(row) + 0 /\ 1 .. 0 = {} /\ Skip(row)' = Skip(row)
        /\ inner' - 1 = 0
    BY <1>1, <1>5 DEF Skip
  <2>2. Len(config.custom_schedule[row]) \in Nat
    <3>1. config.custom_schedule[row] \in Seq(Nat \X Names)
      BY <1>2, ConfigFacts, ElementOfSeq
    <3> QED
      BY <3>1, LenProperties
  <2> QED
    BY <1>1, <1>4, <2>1, <2>2 DEF Filled
<1>7. CustomInv'
  BY <1>1, <1>2, <1>6 DEF CustomInv
<1>8. StageInv' /\ CoverInv' /\ DelayInv'
  BY <1>1 DEF StageInv, CoverInv, DelayInv
<1> QED
  BY <1>7, <1>8 DEF FullInv

\* A custom schedule pushes the task of the next entry of the row.
LEMMA CustomFull == ASSUME IInv, FullInv, ScheduleCustomSchedule PROVE FullInv'
<1> DEFINE rows == config.custom_schedule
<1>1. /\ pc = "custom" /\ pc' \in {"custom", "error", "done"} /\ UNCHANGED <<config, order>>
      /\ \A r : Skip(r)' = Skip(r)
  BY DEF ScheduleCustomSchedule, InTaskMap, Skip
<1>2. /\ outer \in Nat /\ outer >= 1 /\ inner \in Nat /\ inner >= 1
      /\ config.schedule = "Custom" /\ Len(schedule) = Len(rows) /\ Len(schedule) \in Nat
      /\ order \in Seq(Stages) /\ schedule \in Seq(Seq(Tasks))
      /\ config.color \in [Stages -> SUBSET Names]
  BY <1>1, LenProperties DEF IInv, TypeOK, LoopInv, IsLoopConfig, Stages
<1>3. ASSUME NEW r \in 1 .. Len(rows) PROVE Len(rows[r]) \in Nat
  <2>1. rows[r] \in Seq(Nat \X Names)
    BY ConfigFacts, ElementOfSeq
  <2> QED
    BY <2>1, LenProperties
<1>4. \A r \in 1 .. Len(rows) :
        /\ r < outer => Filled(r, Len(rows[r]))
        /\ r = outer => Filled(r, inner - 1) /\ inner - 1 <= Len(rows[r])
        /\ r > outer => Filled(r, 0)
  BY <1>1, <1>2 DEF FullInv, CustomInv
<1>5. \A i \in 1 .. Len(order) : order[i] \notin config.increment
  BY <1>1, <1>2 DEF FullInv, CustomInv
<1>6. StageInv' /\ CoverInv' /\ DelayInv'
  BY <1>1, <1>2 DEF StageInv, CoverInv, DelayInv
<1> HIDE DEF rows
<1>7. CASE pc' = "error"
  BY <1>1, <1>6, <1>7 DEF FullInv, CustomInv
<1>8. CASE outer > Len(rows)
  <2>1. pc' = "done" /\ schedule' = schedule
    BY <1>8 DEF ScheduleCustomSchedule, rows
  <2>2. \A r \in 1 .. Len(rows) : Filled(r, Len(rows[r]))
    BY <1>2, <1>4, <1>8
  <2>3. \A r \in 1 .. Len(rows) : Filled(r, Len(rows[r]))'
    BY <1>1, <2>1, <2>2 DEF Filled, rows
  <2> QED
    BY <1>1, <1>2, <1>6, <2>1, <2>3 DEF FullInv, CustomInv, rows
<1>9. CASE ~(outer > Len(rows)) /\ inner > Len(rows[outer])
  <2>1. pc' = "custom" /\ outer' = outer + 1 /\ inner' = 1 /\ schedule' = schedule
    BY <1>1, <1>9 DEF ScheduleCustomSchedule, rows
  <2>2. outer \in 1 .. Len(rows) /\ inner - 1 = Len(rows[outer])
    <3>1. outer \in 1 .. Len(rows)
      BY <1>2, <1>9
    <3>2. inner - 1 <= Len(rows[outer]) /\ Len(rows[outer]) \in Nat
      BY <1>3, <1>4, <3>1
    <3> QED
      BY <1>2, <1>9, <3>1, <3>2
  <2>3. ASSUME NEW r \in 1 .. Len(rows)
        PROVE  /\ r < outer + 1 => Filled(r, Len(rows[r]))
               /\ r >= outer + 1 => Filled(r, 0)
    <3>1. CASE r < outer
      BY <1>2, <1>4, <3>1
    <3>2. CASE r = outer
      <4>1. Filled(outer, inner - 1) /\ inner - 1 = Len(rows[outer])
        BY <1>4, <2>2
      <4>2. Filled(outer, Len(rows[outer]))
        BY <4>1
      <4> QED
        BY <1>2, <3>2, <4>2
    <3>3. CASE r > outer
      BY <1>2, <1>4, <3>3
    <3> QED
      BY <1>2, <3>1, <3>2, <3>3
  <2>4. \A r \in 1 .. Len(rows) : /\ r < outer' => Filled(r, Len(rows[r]))'
                                  /\ r >= outer' => Filled(r, 0)'
    BY <1>1, <2>1, <2>3 DEF Filled, rows
  <2>5. \A r \in 1 .. Len(rows) : /\ r = outer' => /\ Filled(r, inner - 1)'
                                                   /\ inner' - 1 <= Len(rows[r])
                                  /\ r > outer' => Filled(r, 0)'
    <3>1. inner' - 1 = 0
      BY <2>1
    <3>2. \A r : Filled(r, 0)' <=> Filled(r, inner - 1)'
      BY <3>1 DEF Filled
    <3> QED
      BY <1>2, <1>3, <2>1, <2>4, <3>1, <3>2
  <2> QED
    BY <1>1, <1>2, <1>5, <1>6, <2>1, <2>4, <2>5 DEF FullInv, CustomInv, rows
<1>10. CASE ~(outer > Len(rows)) /\ ~(inner > Len(rows[outer])) /\ pc' # "error"
  <2> DEFINE entry == rows[outer][inner]
  <2>1. /\ entry[1] \in Iters /\ Matches(entry[2]) # {} /\ pc' = "custom"
        /\ outer' = outer /\ inner' = inner + 1
        /\ \E i \in Matches(entry[2]) : PushBack(outer, <<entry[1], order[i]>>)
    BY <1>1, <1>10 DEF ScheduleCustomSchedule, InTaskMap, rows
  <2>2. PICK i \in Matches(entry[2]) : PushBack(outer, <<entry[1], order[i]>>)
    BY <2>1
  <2>3. i \in 1 .. Len(order) /\ entry[2] \in config.color[order[i]]
    BY DEF Matches
  <2>4. order[i] \in Stages /\ order[i] \notin config.increment
    BY <1>2, <1>5, <2>3, ElementOfSeq
  <2> DEFINE t == <<entry[1], order[i]>>
  <2>5. t \in Tasks /\ outer \in 1 .. Len(rows) /\ outer \in 1 .. Len(schedule)
    BY <1>2, <1>10, <2>1, <2>4 DEF Tasks
  <2>6. /\ Len(schedule') = Len(schedule)
        /\ Len(schedule'[outer]) = Len(schedule[outer]) + 1
        /\ \A k \in 1 .. Len(schedule[outer]) : schedule'[outer][k] = schedule[outer][k]
        /\ schedule'[outer][Len(schedule[outer]) + 1] = t
    BY <1>2, <2>2, <2>5, PushBackFacts
  <2>7. \A r \in 1 .. Len(rows) : r # outer => schedule'[r] = schedule[r]
    BY <1>2, <2>2, LenProperties DEF PushBack
  <2>8. Filled(outer, inner - 1) /\ inner - 1 <= Len(rows[outer]) /\ Len(rows[outer]) \in Nat
    BY <1>3, <1>4, <2>5
  <2>9. Skip(outer) \in Nat
    <3>1. Len(schedule[outer]) \in Nat /\ Len(schedule[outer]) = Skip(outer) + (inner - 1)
      BY <1>2, <2>5, <2>8, ElementOfSeq, LenProperties DEF Filled
    <3>2. IsFiniteSet(config.increment)
      BY ConfigFacts, StagesFinite, FS_Subset
    <3>3. Cardinality(config.increment) \in Nat
      BY <3>2, FS_CardinalityType
    <3> QED
      BY <3>3, ConfigFacts DEF Skip
  <2>10. ASSUME NEW k \in 1 .. inner
         PROVE  /\ schedule'[outer][Skip(outer) + k][1] = rows[outer][k][1]
                /\ rows[outer][k][2] \in config.color[schedule'[outer][Skip(outer) + k][2]]
                /\ schedule'[outer][Skip(outer) + k][2] \notin config.increment
    <3>1. CASE k = inner
      <4>1. Skip(outer) + k = Len(schedule[outer]) + 1
        BY <1>2, <2>8, <2>9, <3>1 DEF Filled
      <4>2. schedule'[outer][Skip(outer) + k] = <<entry[1], order[i]>>
        BY <2>6, <4>1
      <4> QED
        BY <2>3, <2>4, <3>1, <4>2
    <3>2. CASE k # inner
      <4>1. k \in 1 .. inner - 1
        BY <1>2, <3>2
      <4>2. Skip(outer) + k \in 1 .. Len(schedule[outer])
        BY <1>2, <2>8, <2>9, <4>1, SMTT(30) DEF Filled
      <4>3. schedule'[outer][Skip(outer) + k] = schedule[outer][Skip(outer) + k]
        BY <2>6, <4>2
      <4> QED
        BY <2>8, <4>1, <4>3 DEF Filled, rows
    <3> QED
      BY <3>1, <3>2
  <2>11. Filled(outer, inner - 1)' /\ inner' - 1 <= Len(rows[outer])
    <3>1. inner' - 1 = inner /\ inner <= Len(rows[outer]) /\ Skip(outer)' = Skip(outer)
      BY <1>1, <1>2, <1>10, <2>1, <2>8, SMTT(30)
    <3>2. Len(schedule'[outer]) = Skip(outer) + inner
      BY <1>2, <2>6, <2>8, <2>9 DEF Filled
    <3>3. /\ Len(schedule'[outer']) = Skip(outer)' + (inner' - 1)
          /\ \A k \in 1 .. (inner' - 1) :
               /\ schedule'[outer'][Skip(outer)' + k][1] = config'.custom_schedule[outer'][k][1]
               /\ config'.custom_schedule[outer'][k][2]
                     \in config'.color[schedule'[outer'][Skip(outer)' + k][2]]
               /\ schedule'[outer'][Skip(outer)' + k][2] \notin config'.increment
      BY <1>1, <2>1, <2>10, <3>1, <3>2 DEF rows
    <3> QED
      BY <3>1, <3>3 DEF Filled
  <2>12. ASSUME NEW r \in 1 .. Len(rows), r # outer
         PROVE  \A n : Filled(r, n) => Filled(r, n)'
    BY <1>1, <2>7, <2>12 DEF Filled, rows
  <2>13. ASSUME NEW r \in 1 .. Len(rows)
         PROVE  /\ r < outer' => Filled(r, Len(rows[r]))'
                /\ r = outer' => Filled(r, inner - 1)' /\ inner' - 1 <= Len(rows[r])
                /\ r > outer' => Filled(r, 0)'
    <3> rows' = rows /\ outer' = outer
      BY <1>1, <2>1 DEF rows
    <3>1. CASE r = outer
      BY <1>2, <2>11, <3>1
    <3>2. CASE r # outer
      BY <1>2, <1>4, <2>12, <3>2
    <3> QED
      BY <3>1, <3>2
  <2> QED
    BY <1>1, <1>2, <1>5, <1>6, <2>1, <2>6, <2>13 DEF FullInv, CustomInv, rows
<1> QED
  BY <1>1, <1>2, <1>7, <1>8, <1>9, <1>10

\* A step that changes nothing.
LEMMA UnchangedFull == ASSUME FullInv, UNCHANGED schedulerVars PROVE FullInv'
<1>1. UNCHANGED <<config, pc, schedule, outer, inner, todo, order, num_groups,
                  next_minibatch_delay, queue, Iters, Stages, Tasks>>
  BY DEF schedulerVars, Iters, Stages, Tasks
<1>2. StageInv'
  BY <1>1 DEF FullInv, StageInv, InOrder, Has
<1>3. CoverInv'
  <2>1. /\ \A t : InRow(t)' <=> InRow(t)
        /\ \A q, o, j : Passed(q, o, j)' <=> Passed(q, o, j)
        /\ \A m, q, o : IsMicrobatch(m, q, o)' <=> IsMicrobatch(m, q, o)
        /\ DelayCoversGroups' <=> DelayCoversGroups
    BY <1>1 DEF InRow, Has, Passed, Wavefront, IsMicrobatch, DelayCoversGroups
  <2> QED
    BY <1>1, <2>1 DEF FullInv, CoverInv
<1>4. DelayInv'
  BY <1>1 DEF FullInv, DelayInv, MinibatchDelay, PipelineTasks, RowDevices
<1>5. \A row, n : Filled(row, n) => Filled(row, n)'
  BY <1>1 DEF Filled, Skip
<1>6. CustomInv'
  BY <1>1, <1>5 DEF FullInv, CustomInv
<1> QED
  BY <1>2, <1>3, <1>4, <1>6 DEF FullInv

\* Nothing has been gone past in the initial states.
LEMMA InitFull == Init => FullInv
BY DEF Init, FullInv, StageInv, CoverInv, DelayInv, CustomInv

-----------------------------------------------------------------------------
(***************************************************************************)
(* The theorems.                                                           *)
(***************************************************************************)

\* FullInv is an invariant of the scheduler, for every loop configuration.
THEOREM FullInvariance == Spec => []FullInv
<1>1. IInv /\ FullInv /\ [Next]_schedulerVars => FullInv'
  BY ScheduleLoopsFull, GpipeFull, UnrollFull, RemainingTasksFull,
     StartWavefrontFull, WavefrontFull, CriticalFull, NonCriticalFull,
     EmplaceFull, PopFull, StartCustomFull, CustomFull, UnchangedFull
     DEF Next, SchedulerStep, Returned
<1> QED
  BY InitFull, Invariance, <1>1, PTL DEF Spec

\* The tasks of the row are those at a position of the schedule.
LEMMA RowTasks ==
  ASSUME IInv, pc # "dispatch", config.schedule # "Custom"
  PROVE  \A t : InRow(t) <=> \E p \in Positions : TaskAt(p) = t
<1>1. DOMAIN schedule = {1} /\ DOMAIN schedule[1] = 1 .. Len(schedule[1])
  BY OneRow
<1>2. Positions = {1} \X (1 .. Len(schedule[1]))
  BY <1>1 DEF Positions
<1>3. ASSUME NEW i \in 1 .. Len(schedule[1])
      PROVE  <<1, i>> \in Positions /\ TaskAt(<<1, i>>) = schedule[1][i]
  BY <1>2 DEF TaskAt
<1>4. ASSUME NEW p \in Positions
      PROVE  \E i \in 1 .. Len(schedule[1]) : TaskAt(p) = schedule[1][i]
  BY <1>2 DEF TaskAt
<1> QED
  BY <1>3, <1>4 DEF InRow, Has

\* Fill-drain, wavefront and zero-bubble schedule every task of the loop when
\* the delay between minibatches covers the device groups, whatever the number
\* of iterations, stages and groups: the last, partly filled minibatch and the
\* last wavefront are reached.
THEOREM EveryTaskScheduled == Spec => []SchedulesEveryTask
<1>1. ASSUME IInv, FullInv PROVE SchedulesEveryTask
  <2> SUFFICES ASSUME pc = "done", config.schedule # "Custom", DelayCoversGroups
               PROVE  { TaskAt(p) : p \in Positions } = Tasks
    BY DEF SchedulesEveryTask
  <2>1. \A t : InRow(t) <=> \E p \in Positions : TaskAt(p) = t
    BY <1>1, RowTasks
  <2>2. \A t \in Tasks : InRow(t)
    BY <1>1 DEF FullInv, CoverInv
  <2>3. \A t : InRow(t) => t \in Tasks
    BY <1>1, OneRow, ElementOfSeq DEF InRow, Has
  <2> QED
    BY <2>1, <2>2, <2>3
<1> QED
  BY <1>1, Invariance, FullInvariance, PTL

\* A custom schedule that passes the checks of ScheduleCustomSchedule is
\* followed to the letter, whatever its rows and the loop are.
THEOREM CustomFollowed == Spec => []FollowsCustomSchedule
<1>1. ASSUME IInv, FullInv PROVE FollowsCustomSchedule
  <2> DEFINE rows == config.custom_schedule
  <2> SUFFICES ASSUME pc = "done", config.schedule = "Custom",
                      NEW row \in DOMAIN rows
               PROVE  LET skip == Len(schedule[row]) - Len(rows[row])
                      IN  /\ skip = (IF row = 1 THEN Cardinality(config.increment)
                                                       * config.num_iterations
                                                ELSE 0)
                          /\ \A i \in DOMAIN rows[row] :
                               LET task  == schedule[row][skip + i]
                                   entry == rows[row][i]
                               IN  /\ task[1] = entry[1]
                                   /\ entry[2] \in config.color[task[2]]
                                   /\ task[2] \notin config.increment
    BY DEF FollowsCustomSchedule
  <2>1. rows \in Seq(Seq(Nat \X Names))
    BY <1>1, ConfigFacts
  <2>2. DOMAIN rows = 1 .. Len(rows) /\ rows[row] \in Seq(Nat \X Names)
    BY <2>1, LenProperties, ElementOfSeq
  <2>3. DOMAIN rows[row] = 1 .. Len(rows[row]) /\ Len(rows[row]) \in Nat
    BY <2>2, LenProperties
  <2>4. Filled(row, Len(rows[row]))
    BY <1>1, <2>2 DEF FullInv, CustomInv
  <2>5. Skip(row) \in Nat
    <3>1. IsFiniteSet(config.increment)
      BY <1>1, ConfigFacts, StagesFinite, FS_Subset
    <3>2. Cardinality(config.increment) \in Nat
      BY <3>1, FS_CardinalityType
    <3> QED
      BY <1>1, <3>2, ConfigFacts DEF Skip
  <2>6. Len(schedule[row]) - Len(rows[row]) = Skip(row)
    BY <2>3, <2>4, <2>5 DEF Filled
  <2> HIDE DEF rows
  <2> QED
    BY <2>3, <2>4, <2>6 DEF Filled, Skip, rows
<1> QED
  BY <1>1, Invariance, FullInvariance, PTL

\* Microbatches that are equal modulo two groups are two minibatch delays apart.
LEMMA TwoMinibatchesApart ==
  ASSUME NEW G \in Nat \ {0}, NEW D \in Nat, NEW m1 \in Nat, NEW m2 \in Nat,
         m1 < m2, m1 % (2 * G) = m2 % (2 * G),
         NEW q1 \in Nat, NEW o1 \in Nat, NEW q2 \in Nat, NEW o2 \in Nat,
         o1 < G, o2 < G, m1 = q1 * G + o1, m2 = q2 * G + o2
  PROVE  q1 * D + o1 + 2 * D <= q2 * D + o2
<1>1. 2 * G \in Nat \ {0}
  OBVIOUS
<1>2. PICK a1 \in Nat, a2 \in Nat, r \in Nat :
        m1 = a1 * (2 * G) + r /\ m2 = a2 * (2 * G) + r
  <2>1. /\ m1 \div (2 * G) \in Nat /\ m1 % (2 * G) \in 0 .. 2 * G - 1
        /\ m1 = (m1 \div (2 * G)) * (2 * G) + (m1 % (2 * G))
    BY <1>1, DivMod
  <2>2. /\ m2 \div (2 * G) \in Nat
        /\ m2 = (m2 \div (2 * G)) * (2 * G) + (m2 % (2 * G))
    BY <1>1, DivMod
  <2>3. m1 % (2 * G) \in Nat
    BY <1>1, <2>1
  <2> QED
    BY <2>1, <2>2, <2>3, ZenonT(30)
<1>3. a1 < a2
  <2>1. CASE a1 = a2
    BY <1>2, <2>1
  <2>2. CASE a2 < a1
    <3>1. a2 * (2 * G) + 2 * G <= a1 * (2 * G)
      BY <1>1, <2>2, MultMonotonic
    <3>2. PICK x \in Nat, y \in Nat : x = a1 * (2 * G) /\ y = a2 * (2 * G)
      OBVIOUS
    <3> QED
      BY <1>2, <3>1, <3>2
  <2> QED
    BY <2>1, <2>2
<1>4. PICK k \in Nat : a2 = a1 + 1 + k
  BY <1>3
<1>5. m2 = (q1 + 2 + 2 * k) * G + o1
  <2>1. a2 * (2 * G) = a1 * (2 * G) + 2 * G + 2 * (k * G)
    BY <1>4
  <2>2. (q1 + 2 + 2 * k) * G = q1 * G + 2 * G + 2 * (k * G)
    OBVIOUS
  <2>3. PICK x \in Nat, y \in Nat, z \in Nat, u \in Nat, v \in Nat :
          x = a1 * (2 * G) /\ y = k * G /\ z = q1 * G /\ u = a2 * (2 * G)
          /\ v = (q1 + 2 + 2 * k) * G
    OBVIOUS
  <2> QED
    BY <1>2, <2>1, <2>2, <2>3
<1>6. q2 = q1 + 2 + 2 * k /\ o2 = o1
  <2>1. q1 + 2 + 2 * k \in Nat /\ q2 * G + o2 = (q1 + 2 + 2 * k) * G + o1
    BY <1>5
  <2> QED
    BY <2>1, MinibatchUnique
<1>7. q2 * D = q1 * D + 2 * D + 2 * (k * D)
  BY <1>6
<1>8. PICK x \in Nat, y \in Nat, z \in Nat : x = q1 * D /\ y = k * D /\ z = q2 * D
  OBVIOUS
<1> QED
  BY <1>6, <1>7, <1>8

\* A microbatch in flight started before the running wavefront and its last
\* task is not before it.
LEMMA InFlightWindow ==
  ASSUME IInv, FullInv, pc = "wavefront", NEW m \in Iters, InFlight(m)
  PROVE  \E q \in Nat, o \in Nat :
           /\ IsMicrobatch(m, q, o)
           /\ q * next_minibatch_delay + o < outer
           /\ outer < q * next_minibatch_delay + o + Len(order)
<1>1. /\ outer \in Nat /\ inner \in Nat /\ next_minibatch_delay \in Nat
      /\ order \in Seq(Stages) /\ config.schedule # "Custom"
      /\ \A j \in 1 .. Len(order) : order[j] \notin config.increment
  BY DEF IInv, TypeOK, LoopInv, OrderInv
<1>2. DOMAIN order = 1 .. Len(order) /\ Len(order) \in Nat
  BY <1>1, LenProperties
<1>3. \A t : InRow(t) <=> \E p \in Positions : TaskAt(p) = t
  BY <1>1, RowTasks
<1>4. PICK j1 \in 1 .. Len(order) : InRow(<<m, order[j1]>>)
  BY <1>2, <1>3 DEF InFlight
<1>5. PICK j2 \in 1 .. Len(order) : ~InRow(<<m, order[j2]>>)
  BY <1>2, <1>3 DEF InFlight
<1>6. PICK i \in 1 .. Len(schedule[1]) : schedule[1][i] = <<m, order[j1]>>
  BY <1>4 DEF InRow, Has
<1>7. PICK j \in 1 .. Len(order), q \in Nat, o \in Nat :
        /\ IsMicrobatch(m, q, o) /\ o < next_minibatch_delay
        /\ Passed(q, o, j)
  <2>1. schedule[1][i][1] = m /\ schedule[1][i][2] = order[j1]
    BY <1>6
  <2>2. WavefrontInv
    BY DEF IInv
  <2> QED
    BY <1>1, <2>1, <2>2 DEF WavefrontInv, Passed
<1>8. ~Passed(q, o, j2)
  BY <1>1, <1>5, <1>7 DEF FullInv, CoverInv
<1>9. PICK x \in Nat : x = q * next_minibatch_delay
  BY <1>1
<1>10. x + o < outer
  BY <1>1, <1>2, <1>7, <1>9 DEF Passed, Wavefront
<1>11. outer < x + o + Len(order)
  BY <1>1, <1>2, <1>8, <1>9 DEF Passed, Wavefront
<1> QED
  BY <1>7, <1>9, <1>10, <1>11

\* By default, a wavefront schedule of a pipeline of any length has at most two
\* microbatches per device group in flight, for any number of iterations.
THEOREM InFlightBounded == Spec => []BoundedInFlight
<1>1. ASSUME IInv, FullInv PROVE BoundedInFlight
  <2> DEFINE G == num_groups
             D == next_minibatch_delay
             L == Len(order)
             S == { m \in Iters : InFlight(m) }
  <2> SUFFICES ASSUME pc = "wavefront", config.num_stages = 0,
                      PipelineTasks = DOMAIN order
               PROVE  Cardinality(S) <= 2 * G
    BY DEF BoundedInFlight
  <2>1. G \in Nat \ {0} /\ D \in Nat /\ outer \in Nat /\ order \in Seq(Stages)
    BY <1>1 DEF IInv, TypeOK
  <2>2. DOMAIN order = 1 .. L /\ L \in Nat
    BY <2>1, LenProperties
  <2>3. L <= 2 * D
    <3>1. Cardinality(PipelineTasks) = L
      <4>1. Cardinality(1 .. L) = IF 1 > L THEN 0 ELSE L - 1 + 1
        BY <2>2, FS_Interval, SMTT(30)
      <4>2. 1 > L => L = 0
        BY <2>2
      <4>3. Cardinality(1 .. L) = L
        BY <2>2, <4>1, <4>2
      <4> QED
        BY <2>2, <4>3
    <3>2. D = IF (L + 1) \div 2 > 1 THEN (L + 1) \div 2 ELSE 1
      BY <1>1, <3>1 DEF FullInv, DelayInv, MinibatchDelay
    <3> HIDE DEF D, L
    <3> QED
      BY <2>1, <2>2, <3>2
  <2>4. S \subseteq Nat
    BY DEF Iters
  <2>5. ASSUME NEW m1 \in S, NEW m2 \in S, m1 < m2, m1 % (2 * G) = m2 % (2 * G)
        PROVE  FALSE
    <3>1. PICK q1 \in Nat, o1 \in Nat :
            /\ IsMicrobatch(m1, q1, o1)
            /\ q1 * D + o1 < outer /\ outer < q1 * D + o1 + L
      BY <1>1, InFlightWindow
    <3>2. PICK q2 \in Nat, o2 \in Nat :
            /\ IsMicrobatch(m2, q2, o2)
            /\ q2 * D + o2 < outer /\ outer < q2 * D + o2 + L
      BY <1>1, InFlightWindow
    <3>3. q1 * D + o1 + 2 * D <= q2 * D + o2
      <4>1. /\ o1 < G /\ o2 < G /\ m1 = q1 * G + o1 /\ m2 = q2 * G + o2
            /\ m1 \in Nat /\ m2 \in Nat
        BY <2>4, <3>1, <3>2 DEF IsMicrobatch
      <4> HIDE DEF G, D, S
      <4> QED
        BY <2>1, <2>5, <4>1, TwoMinibatchesApart
    <3>4. PICK x \in Nat, y \in Nat : x = q1 * D /\ y = q2 * D
      BY <2>1
    <3> HIDE DEF G, D, S, L
    <3> QED
      BY <2>1, <2>2, <2>3, <3>1, <3>2, <3>3, <3>4
  <2>6. \A m \in Nat : m % (2 * G) \in 0 .. 2 * G - 1
    <3>1. 2 * G \in Nat \ {0}
      BY <2>1
    <3> QED
      BY <3>1, DivMod
  <2> DEFINE f == [m \in S |-> m % (2 * G)]
             T == 0 .. 2 * G - 1
  <2>7. IsFiniteSet(T) /\ Cardinality(T) = 2 * G
    BY <2>1, FS_Interval
  <2>8. f \in Injection(S, T)
    <3> HIDE DEF G, S
    <3>1. f \in [S -> T]
      BY <2>4, <2>6
    <3>2. ASSUME NEW m1 \in S, NEW m2 \in S, f[m1] = f[m2] PROVE m1 = m2
      <4>1. m1 % (2 * G) = m2 % (2 * G)
        BY <3>2
      <4>2. m1 \in Nat /\ m2 \in Nat
        BY <2>4
      <4> QED
        BY <2>5, <4>1, <4>2
    <3> HIDE DEF f
    <3> QED
      BY <3>1, <3>2 DEF Injection, IsInjective
  <2>9. Cardinality(S) <= Cardinality(T)
    <3> HIDE DEF S, T, f
    <3> QED
      BY <2>7, <2>8, FS_Injection
  <2> QED
    BY <2>7, <2>9
<1> QED
  BY <1>1, Invariance, FullInvariance, PTL
=============================================================================
