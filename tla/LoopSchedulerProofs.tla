------------------------ MODULE LoopSchedulerProofs ------------------------
(***************************************************************************)
(* For every loop, the schedules are well typed, contain no task twice and *)
(* agree with the data flow.  The inductive invariant IInv says, for each  *)
(* loop of loop_scheduler.cc, which tasks the schedule holds so far and in *)
(* which order, in terms of the counters of the loop.                      *)
(***************************************************************************)
EXTENDS LoopScheduler, TLAPS, FiniteSetTheorems, SequenceTheorems

-----------------------------------------------------------------------------
(***************************************************************************)
(* Arithmetic: minibatches and offsets.                                    *)
(***************************************************************************)

\* Multiplying by a natural number is monotonic.
LEMMA MultMonotonic ==
  ASSUME NEW a \in Nat, NEW b \in Nat, NEW g \in Nat, a < b
  PROVE  a * g + g <= b * g
<1>1. PICK d \in Nat : b = a + 1 + d
  OBVIOUS
<1>2. b * g = a * g + g + d * g
  BY <1>1
<1>3. d * g >= 0
  OBVIOUS
<1> QED
  BY <1>2, <1>3

\* A tick is minibatch * delay + offset, which is how ScheduleWavefront takes it
\* apart with / and %.
LEMMA DivMod ==
  ASSUME NEW tick \in Nat, NEW delay \in Nat \ {0}
  PROVE  /\ tick \div delay \in Nat
         /\ tick % delay \in 0 .. delay - 1
         /\ tick = (tick \div delay) * delay + (tick % delay)
OBVIOUS

\* A microbatch number determines its minibatch and its offset.
LEMMA MinibatchUnique ==
  ASSUME NEW q1 \in Nat, NEW q2 \in Nat, NEW o1 \in Nat, NEW o2 \in Nat,
         NEW g \in Nat, o1 < g, o2 < g, q1 * g + o1 = q2 * g + o2
  PROVE  q1 = q2 /\ o1 = o2
<1>1. CASE q1 < q2
  <2>1. q1 * g + g <= q2 * g
    BY <1>1, MultMonotonic
  <2> QED
    BY <2>1
<1>2. CASE q2 < q1
  <2>1. q2 * g + g <= q1 * g
    BY <1>2, MultMonotonic
  <2> QED
    BY <2>1
<1>3. CASE q1 = q2
  BY <1>3
<1> QED
  BY <1>1, <1>2, <1>3

\* Later ticks run later microbatches.
LEMMA LaterTickLaterMicrobatch ==
  ASSUME NEW q1 \in Nat, NEW q2 \in Nat, NEW o1 \in Nat, NEW o2 \in Nat,
         NEW g \in Nat, NEW d \in Nat, o1 < g, o2 < g, o1 < d, o2 < d,
         q1 * d + o1 < q2 * d + o2
  PROVE  q1 * g + o1 < q2 * g + o2
<1>1. CASE q1 < q2
  <2>1. q1 * g + g <= q2 * g
    BY <1>1, MultMonotonic
  <2> QED
    BY <2>1
<1>2. CASE q2 < q1
  <2>1. q2 * d + d <= q1 * d
    BY <1>2, MultMonotonic
  <2> QED
    BY <2>1
<1>3. CASE q1 = q2
  BY <1>3
<1> QED
  BY <1>1, <1>2, <1>3

\* When the delay covers the groups, later microbatches do not run earlier.
LEMMA LaterMicrobatchLaterTick ==
  ASSUME NEW q1 \in Nat, NEW q2 \in Nat, NEW o1 \in Nat, NEW o2 \in Nat,
         NEW g \in Nat, NEW d \in Nat, g <= d, o1 < g, o2 < g,
         q1 * g + o1 < q2 * g + o2
  PROVE  q1 * d + o1 <= q2 * d + o2
<1>1. CASE q1 < q2
  <2>1. q1 * d + d <= q2 * d
    BY <1>1, MultMonotonic
  <2> QED
    BY <2>1
<1>2. CASE q2 < q1
  <2>1. q2 * g + g <= q1 * g
    BY <1>2, MultMonotonic
  <2> QED
    BY <2>1
<1>3. CASE q1 = q2
  BY <1>3
<1> QED
  BY <1>1, <1>2, <1>3

-----------------------------------------------------------------------------
(***************************************************************************)
(* push_back on a row of the schedule.                                     *)
(***************************************************************************)
LEMMA PushBackFacts ==
  ASSUME schedule \in Seq(Seq(Tasks)), NEW r \in 1 .. Len(schedule),
         NEW t \in Tasks, PushBack(r, t)
  PROVE  /\ schedule' \in Seq(Seq(Tasks))
         /\ Len(schedule') = Len(schedule)
         /\ schedule'[r] = Append(schedule[r], t)
         /\ Len(schedule'[r]) = Len(schedule[r]) + 1
         /\ \A i \in 1 .. Len(schedule[r]) : schedule'[r][i] = schedule[r][i]
         /\ schedule'[r][Len(schedule[r]) + 1] = t
<1>1. schedule[r] \in Seq(Tasks)
  BY ElementOfSeq
<1>2. /\ Append(schedule[r], t) \in Seq(Tasks)
      /\ Len(Append(schedule[r], t)) = Len(schedule[r]) + 1
      /\ \A i \in 1 .. Len(schedule[r]) : Append(schedule[r], t)[i] = schedule[r][i]
      /\ Append(schedule[r], t)[Len(schedule[r]) + 1] = t
  BY <1>1, AppendProperties
<1>3. schedule' = [schedule EXCEPT ![r] = Append(schedule[r], t)]
  BY DEF PushBack
<1>4. /\ schedule' \in Seq(Seq(Tasks))
      /\ Len(schedule') = Len(schedule)
      /\ schedule'[r] = Append(schedule[r], t)
  BY <1>2, <1>3, ExceptSeq
<1> QED
  BY <1>2, <1>4

-----------------------------------------------------------------------------
(***************************************************************************)
(* The inductive invariant.                                                *)
(***************************************************************************)

\* The tasks of a row are distinct.
Distinct(row) == \A i, j \in 1 .. Len(row) : row[i] = row[j] => i = j

\* No task of a row comes before one that it may depend on.
InDataflowOrder(row) ==
  \A j \in 1 .. Len(row) : \A i \in 1 .. j - 1 : ~MayDependOn(row[i], row[j])

\* The counters and the rows of the loop that is running.
LoopInv ==
  /\ pc = "dispatch" => schedule = << >> /\ outer = 0 /\ inner = 0
  /\ pc # "dispatch" => Len(schedule) >= 1
  /\ pc # "dispatch" /\ config.schedule # "Custom" => Len(schedule) = 1
  /\ pc = "gpipe" => /\ outer < config.stages
                     /\ inner >= 0 /\ inner < config.num_iterations
                     /\ config.schedule \notin {"ZeroBubbleH2", "Custom"}
  /\ pc = "unroll" => /\ outer <= config.stages
                      /\ todo \subseteq config.increment
                      /\ config.schedule # "ZeroBubbleH2"
  /\ pc = "wavefront" => /\ inner >= 0 /\ inner < Len(order)
                         /\ next_minibatch_delay > 0
                         /\ config.schedule \notin {"ZeroBubbleH2", "Custom"}
  /\ pc = "critical" => outer < config.stages
  /\ pc \in {"critical", "noncritical"} =>
       /\ schedule = << << >> >>
       /\ config.schedule = "ZeroBubbleH2"
  /\ pc = "pop" => config.schedule = "ZeroBubbleH2"
  /\ pc = "custom" => /\ outer >= 1 /\ inner >= 1
                      /\ config.schedule = "Custom"
                      /\ Len(schedule) = Len(config.custom_schedule)
  /\ pc = "unroll" /\ config.schedule = "Custom" =>
       Len(schedule) = Len(config.custom_schedule)

\* A row of remaining_tasks or reordered_tasks: distinct stages, and only a
\* non-critical one comes after a larger stage.
OrderInv ==
  /\ Distinct(order)
  /\ \A i, j \in 1 .. Len(order) :
       i < j /\ order[j] < order[i] => order[j] \in config.noncritical
  /\ pc = "dispatch" => order = << >>
  /\ pc = "unroll" => \A i \in 1 .. Len(order) : order[i] < outer
  /\ pc \in {"unroll", "wavefront"} =>
       \A i \in 1 .. Len(order) : order[i] \notin config.increment
  /\ pc = "critical" =>
       /\ \A i \in 1 .. Len(order) :
            order[i] < outer /\ order[i] \notin config.noncritical
       /\ Len(order) = Cardinality((0 .. outer - 1) \ config.noncritical)
  /\ pc = "noncritical" =>
       /\ \A i \in 1 .. Len(order) : order[i] \notin todo
       /\ todo \subseteq config.noncritical
       /\ Len(order) + Cardinality(todo) = config.stages
  /\ pc = "pop" => Len(order) = config.stages

\* Microbatch m is the one at offset o of minibatch q.
IsMicrobatch(m, q, o) == /\ o < num_groups
                         /\ m = q * num_groups + o

\* The wavefront or queue position of microbatch <<q, o>> at stage index s.
Wavefront(q, o, s) == q * next_minibatch_delay + o + s

\* What the running loop has scheduled so far.
GpipeInv ==
  pc = "gpipe" =>
    \A i \in 1 .. Len(schedule[1]) :
      \/ schedule[1][i][2] < outer
      \/ schedule[1][i][2] = outer /\ schedule[1][i][1] < inner

UnrollInv ==
  pc = "unroll" =>
    \A i \in 1 .. Len(schedule[1]) :
      config.schedule # "Custom" =>
        schedule[1][i][2] \in config.increment \ todo

WavefrontInv ==
  pc = "wavefront" =>
    \A i \in 1 .. Len(schedule[1]) :
      \/ schedule[1][i][2] \in config.increment
      \/ \E j \in 1 .. Len(order), q \in Nat, o \in Nat :
           /\ schedule[1][i][2] = order[j]
           /\ IsMicrobatch(schedule[1][i][1], q, o)
           /\ o < next_minibatch_delay
           /\ \/ Wavefront(q, o, j - 1) < outer
              \/ Wavefront(q, o, j - 1) = outer /\ j - 1 > inner

PopInv ==
  pc = "pop" =>
    /\ \A g \in queue : \E q \in Nat, o \in Nat :
         /\ IsMicrobatch(g.microbatch, q, o)
         /\ g.wf = Wavefront(q, o, g.stage)
    /\ \A i \in 1 .. Len(schedule[1]) :
         \E j \in 1 .. Len(order), q \in Nat, o \in Nat :
           /\ schedule[1][i][2] = order[j]
           /\ IsMicrobatch(schedule[1][i][1], q, o)
           /\ \A g \in queue :
                PoppedBefore([wf |-> Wavefront(q, o, j - 1),
                              microbatch |-> schedule[1][i][1],
                              stage |-> j - 1], g)

\* ScheduledAtMostOnce and RespectsDataflow for the single row.
RowInv ==
  pc # "dispatch" /\ config.schedule # "Custom" =>
    /\ Distinct(schedule[1])
    /\ (config.schedule = "ZeroBubbleH2" => DelayCoversGroups) =>
         InDataflowOrder(schedule[1])

IInv == /\ TypeOK /\ LoopInv /\ OrderInv /\ RowInv
        /\ GpipeInv /\ UnrollInv /\ WavefrontInv /\ PopInv

-----------------------------------------------------------------------------
(***************************************************************************)
(* One lemma per action: it preserves the invariant.                       *)
(***************************************************************************)

\* The constants of a loop have the types of IsLoopConfig.
LEMMA ConfigFacts ==
  ASSUME IInv
  PROVE  /\ config.num_iterations \in Nat \ {0}
         /\ config.stages \in Nat \ {0}
         /\ config.increment \subseteq Stages
         /\ config.noncritical \subseteq Stages
         /\ config.custom_schedule \in Seq(Seq(Nat \X Names)) \ {<< >>}
         /\ 0 \in Iters
BY SMTT(30) DEF IInv, TypeOK, IsLoopConfig, Stages, Iters

\* The invariant holds before ScheduleLoops is called.
LEMMA InitInv == Init => IInv
<1> SUFFICES ASSUME Init PROVE IInv
  OBVIOUS
<1>1. IsLoopConfig(config)
  BY ConfigsAssumption DEF Init
<1>2. TypeOK
  BY <1>1 DEF Init, TypeOK
<1>3. LoopInv /\ OrderInv
  BY DEF Init, LoopInv, OrderInv, Distinct
<1>4. RowInv /\ GpipeInv /\ UnrollInv /\ WavefrontInv /\ PopInv
  BY DEF Init, RowInv, GpipeInv, UnrollInv, WavefrontInv, PopInv
<1> QED
  BY <1>2, <1>3, <1>4 DEF IInv

\* ScheduleLoops enters the loop of the schedule with empty rows.
LEMMA ScheduleLoopsInv == IInv /\ ScheduleLoops => IInv'
<1> SUFFICES ASSUME IInv, ScheduleLoops PROVE IInv'
  OBVIOUS
<1>1. config' = config /\ Tasks' = Tasks /\ Stages' = Stages
  BY DEF ScheduleLoops, Tasks, Stages, Iters
<1>2. /\ schedule' \in Seq(Seq(Tasks))
      /\ Len(schedule') >= 1
      /\ config.schedule # "Custom" => schedule' = << << >> >>
      /\ config.schedule = "Custom" =>
           Len(schedule') = Len(config.custom_schedule)
      /\ schedule'[1] = << >>
  <2>1. CASE config.schedule = "Custom"
    <3>1. schedule' = [r \in 1 .. Len(config.custom_schedule) |-> << >>]
      BY <2>1 DEF ScheduleLoops
    <3>2. Len(config.custom_schedule) \in Nat \ {0}
      BY ConfigFacts, EmptySeq
    <3> QED
      BY <2>1, <3>1, <3>2
  <2>2. CASE config.schedule # "Custom"
    BY <2>2 DEF ScheduleLoops
  <2> QED
    BY <2>1, <2>2
<1>3. /\ pc' \in {"critical", "gpipe", "unroll"}
      /\ pc' = "critical" <=> config.schedule = "ZeroBubbleH2"
      /\ pc' = "gpipe" => config.schedule # "Custom"
  BY DEF ScheduleLoops, SingleRowByStage, IsWavefront
<1>4. /\ outer' = 0 /\ inner' = 0 /\ order' = << >>
      /\ todo' \subseteq config.increment
      /\ todo' \subseteq Stages
      /\ UNCHANGED <<num_groups, next_minibatch_delay, queue>>
  BY ConfigFacts DEF ScheduleLoops, IInv, LoopInv, OrderInv
<1>5. TypeOK'
  BY <1>1, <1>2, <1>3, <1>4 DEF IInv, TypeOK
<1>6. LoopInv'
  BY <1>1, <1>2, <1>3, <1>4, ConfigFacts, SMTT(30) DEF LoopInv
<1>7. OrderInv'
  <2>1. (0 .. outer' - 1) \ config.noncritical = {}
    BY <1>4
  <2>2. Cardinality({}) = 0
    BY FS_EmptySet
  <2> QED
    BY <1>1, <1>3, <1>4, <2>1, <2>2 DEF OrderInv, Distinct
<1>8. RowInv'
  BY <1>2 DEF RowInv, Distinct, InDataflowOrder
<1>9. GpipeInv' /\ UnrollInv' /\ WavefrontInv' /\ PopInv'
  BY <1>2, <1>3 DEF GpipeInv, UnrollInv, WavefrontInv, PopInv
<1> QED
  BY <1>5, <1>6, <1>7, <1>8, <1>9 DEF IInv

\* Appending a task that does not occur keeps a row distinct; appending one
\* that no earlier task depends on keeps it in data flow order.
LEMMA AppendRow ==
  ASSUME NEW row \in Seq(Tasks), NEW t \in Tasks
  PROVE  /\ Distinct(row) /\ (\A i \in 1 .. Len(row) : row[i] # t) =>
              Distinct(Append(row, t))
         /\ InDataflowOrder(row)
              /\ (\A i \in 1 .. Len(row) : ~MayDependOn(row[i], t)) =>
              InDataflowOrder(Append(row, t))
<1>1. /\ Len(row) \in Nat
      /\ Len(Append(row, t)) = Len(row) + 1
      /\ \A i \in 1 .. Len(row) : Append(row, t)[i] = row[i]
      /\ Append(row, t)[Len(row) + 1] = t
  BY AppendProperties, LenProperties
<1>2. ASSUME Distinct(row), \A i \in 1 .. Len(row) : row[i] # t
      PROVE  Distinct(Append(row, t))
  BY <1>1, <1>2 DEF Distinct
<1>3. ASSUME InDataflowOrder(row), \A i \in 1 .. Len(row) : ~MayDependOn(row[i], t)
      PROVE  InDataflowOrder(Append(row, t))
  <2> SUFFICES ASSUME NEW j \in 1 .. Len(row) + 1, NEW i \in 1 .. j - 1
               PROVE  ~MayDependOn(Append(row, t)[i], Append(row, t)[j])
    BY <1>1 DEF InDataflowOrder
  <2>1. CASE j = Len(row) + 1
    BY <1>1, <1>3, <2>1
  <2>2. CASE j # Len(row) + 1
    <3>1. j \in 1 .. Len(row) /\ i \in 1 .. Len(row)
      BY <1>1, <2>2
    <3>2. ~MayDependOn(row[i], row[j])
      BY <1>3, <3>1 DEF InDataflowOrder
    <3> QED
      BY <1>1, <3>1, <3>2
  <2> QED
    BY <2>1, <2>2
<1> QED
  BY <1>2, <1>3

\* RowInv holds after a step that leaves such a row.
LEMMA RowInvPrime ==
  ASSUME config' = config, UNCHANGED <<num_groups, next_minibatch_delay>>,
         config.schedule # "Custom" => Distinct(schedule'[1]),
         /\ config.schedule # "Custom"
         /\ config.schedule = "ZeroBubbleH2" => DelayCoversGroups
         => InDataflowOrder(schedule'[1])
  PROVE  RowInv'
<1>1. DelayCoversGroups' <=> DelayCoversGroups
  BY DEF DelayCoversGroups
<1>2. InDataflowOrder(schedule[1])' <=> InDataflowOrder(schedule'[1])
  BY DEF InDataflowOrder, MayDependOn
<1>3. Distinct(schedule[1])' <=> Distinct(schedule'[1])
  BY DEF Distinct
<1> QED
  BY <1>1, <1>2, <1>3 DEF RowInv

\* A task that is pushed on the only row of a schedule.
LEMMA PushBackRow ==
  ASSUME IInv, pc # "dispatch", config.schedule # "Custom",
         NEW t \in Tasks, PushBack(1, t), config' = config,
         UNCHANGED <<num_groups, next_minibatch_delay>>,
         \A i \in 1 .. Len(schedule[1]) : schedule[1][i] # t,
         (config.schedule = "ZeroBubbleH2" => DelayCoversGroups) =>
           \A i \in 1 .. Len(schedule[1]) : ~MayDependOn(schedule[1][i], t)
  PROVE  /\ schedule' \in Seq(Seq(Tasks))
         /\ Len(schedule') = 1
         /\ schedule[1] \in Seq(Tasks)
         /\ Len(schedule'[1]) = Len(schedule[1]) + 1
         /\ \A i \in 1 .. Len(schedule[1]) : schedule'[1][i] = schedule[1][i]
         /\ schedule'[1][Len(schedule[1]) + 1] = t
         /\ RowInv'
<1>1. /\ schedule \in Seq(Seq(Tasks))
      /\ Len(schedule) = 1
      /\ schedule[1] \in Seq(Tasks)
  BY ElementOfSeq DEF IInv, TypeOK, LoopInv
<1>2. /\ schedule' \in Seq(Seq(Tasks))
      /\ Len(schedule') = Len(schedule)
      /\ schedule'[1] = Append(schedule[1], t)
      /\ Len(schedule'[1]) = Len(schedule[1]) + 1
      /\ \A i \in 1 .. Len(schedule[1]) : schedule'[1][i] = schedule[1][i]
      /\ schedule'[1][Len(schedule[1]) + 1] = t
  BY <1>1, PushBackFacts DEF PushBack
<1>3. Distinct(schedule'[1])
  BY <1>1, <1>2, AppendRow DEF IInv, RowInv
<1>4. ASSUME config.schedule = "ZeroBubbleH2" => DelayCoversGroups
      PROVE  InDataflowOrder(schedule'[1])
  BY <1>1, <1>2, <1>4, AppendRow DEF IInv, RowInv
<1>5. RowInv'
  BY <1>3, <1>4, RowInvPrime
<1> QED
  BY <1>1, <1>2, <1>5

\* ScheduleGpipe appends the next task in the order of stages, then iterations.
LEMMA GpipeStepInv == IInv /\ ScheduleGpipe => IInv'
<1> SUFFICES ASSUME IInv, ScheduleGpipe PROVE IInv'
  OBVIOUS
<1>1. config' = config /\ Tasks' = Tasks /\ Stages' = Stages
  BY DEF ScheduleGpipe, Tasks, Stages, Iters
<1>2. /\ pc = "gpipe" /\ config.schedule \notin {"Custom", "ZeroBubbleH2"}
      /\ outer \in Stages /\ inner \in Iters
      /\ <<inner, outer>> \in Tasks
      /\ PushBack(1, <<inner, outer>>)
      /\ UNCHANGED <<todo, order, num_groups, next_minibatch_delay, queue>>
  <2>1. /\ pc = "gpipe" /\ PushBack(1, <<inner, outer>>)
        /\ UNCHANGED <<todo, order, num_groups, next_minibatch_delay, queue>>
    BY DEF ScheduleGpipe
  <2>2. /\ config.schedule \notin {"Custom", "ZeroBubbleH2"}
        /\ outer \in Stages /\ inner \in Iters
    <3>1. /\ outer < config.stages /\ inner < config.num_iterations
          /\ inner >= 0
          /\ config.schedule \notin {"ZeroBubbleH2", "Custom"}
      BY <2>1 DEF IInv, LoopInv
    <3>2. outer \in Nat /\ inner \in Nat \cup {-1}
      BY DEF IInv, TypeOK
    <3> QED
      BY <3>1, <3>2, ConfigFacts DEF Stages, Iters
  <2> QED
    BY <2>1, <2>2 DEF Tasks
<1>3. /\ pc' \in {"gpipe", "done"} /\ outer' \in Nat /\ inner' \in Nat
      /\ pc' = "gpipe" => outer' < config.stages
                          /\ inner' >= 0 /\ inner' < config.num_iterations
      /\ \/ outer' = outer /\ inner' = inner + 1
         \/ outer' = outer + 1 /\ inner' = 0
  <2>0. outer \in Nat /\ inner \in Nat /\ outer < config.stages
    BY <1>2, ConfigFacts DEF Stages, Iters
  <2>1. CASE inner + 1 < config.num_iterations
    BY <1>2, <2>0, <2>1 DEF ScheduleGpipe
  <2>2. CASE ~(inner + 1 < config.num_iterations)
    BY <1>2, <2>0, <2>2, ConfigFacts DEF ScheduleGpipe
  <2> QED
    BY <2>1, <2>2
<1>4. /\ schedule[1] \in Seq(Tasks)
      /\ \A i \in 1 .. Len(schedule[1]) : schedule[1][i] \in Tasks
  BY <1>2, ElementOfSeq DEF IInv, TypeOK, LoopInv
<1>5. \A i \in 1 .. Len(schedule[1]) :
        \/ schedule[1][i][2] < outer
        \/ schedule[1][i][2] = outer /\ schedule[1][i][1] < inner
  BY <1>2 DEF IInv, GpipeInv
<1>6. \A i \in 1 .. Len(schedule[1]) :
        schedule[1][i] # <<inner, outer>> /\ ~MayDependOn(schedule[1][i], <<inner, outer>>)
  <2> SUFFICES ASSUME NEW i \in 1 .. Len(schedule[1])
               PROVE  /\ schedule[1][i] # <<inner, outer>>
                      /\ ~MayDependOn(schedule[1][i], <<inner, outer>>)
    OBVIOUS
  <2>0. PICK m \in Iters, s \in Stages : schedule[1][i] = <<m, s>>
    BY <1>4 DEF Tasks
  <2>1. m \in Int /\ s \in Int /\ schedule[1][i] = <<m, s>>
    BY <2>0 DEF Iters, Stages
  <2>2. s < outer \/ (s = outer /\ m < inner)
    BY <1>5, <2>1
  <2>3. outer \in Int /\ inner \in Int
    BY <1>2 DEF Iters, Stages
  <2> QED
    BY <2>1, <2>2, <2>3 DEF MayDependOn
<1>7. /\ schedule' \in Seq(Seq(Tasks)) /\ Len(schedule') = 1
      /\ Len(schedule'[1]) = Len(schedule[1]) + 1
      /\ \A i \in 1 .. Len(schedule[1]) : schedule'[1][i] = schedule[1][i]
      /\ schedule'[1][Len(schedule[1]) + 1] = <<inner, outer>>
      /\ RowInv'
  BY <1>1, <1>2, <1>6, PushBackRow
<1>8. TypeOK'
  BY <1>1, <1>2, <1>3, <1>7 DEF IInv, TypeOK
<1>9. LoopInv'
  BY <1>1, <1>2, <1>3, <1>7 DEF LoopInv
<1>10. OrderInv'
  BY <1>1, <1>2, <1>3 DEF IInv, OrderInv
<1>11. GpipeInv'
  <2>1. ASSUME NEW i \in 1 .. Len(schedule'[1])
        PROVE  \/ schedule'[1][i][2] < outer'
               \/ schedule'[1][i][2] = outer' /\ schedule'[1][i][1] < inner'
    <3>1. CASE i = Len(schedule[1]) + 1
      BY <1>2, <1>3, <1>7, <3>1 DEF Stages, Iters
    <3>2. CASE i \in 1 .. Len(schedule[1])
      <4>1. schedule[1][i][1] \in Int /\ schedule[1][i][2] \in Int
        BY <1>4, <3>2 DEF Tasks, Stages, Iters
      <4>2. outer \in Int /\ inner \in Int
        BY <1>2 DEF Stages, Iters
      <4>3. schedule'[1][i] = schedule[1][i]
        BY <1>7, <3>2
      <4>4. \/ schedule[1][i][2] < outer
            \/ schedule[1][i][2] = outer /\ schedule[1][i][1] < inner
        BY <1>5, <3>2
      <4> QED
        BY <1>3, <4>1, <4>2, <4>3, <4>4
    <3>3. Len(schedule[1]) \in Nat
      BY <1>4, LenProperties
    <3> QED
      BY <1>7, <3>1, <3>2, <3>3
  <2> QED
    BY <2>1 DEF GpipeInv
<1>12. UnrollInv' /\ WavefrontInv' /\ PopInv'
  BY <1>3 DEF UnrollInv, WavefrontInv, PopInv
<1> QED
  BY <1>7, <1>8, <1>9, <1>10, <1>11, <1>12 DEF IInv

\* UnrollLoopIncrementTasks appends every iteration of a loop increment to the
\* first row.
LEMMA UnrollFacts ==
  ASSUME IInv, UnrollLoopIncrementTasks
  PROVE  \E x \in todo :
           /\ todo' = todo \ {x} /\ x \in Stages /\ x \in config.increment
           /\ schedule[1] \in Seq(Tasks) /\ Len(schedule[1]) \in Nat
           /\ schedule' \in Seq(Seq(Tasks)) /\ Len(schedule') = Len(schedule)
           /\ \A r \in 2 .. Len(schedule) : schedule'[r] = schedule[r]
           /\ Len(schedule'[1]) = Len(schedule[1]) + config.num_iterations
           /\ \A i \in 1 .. Len(schedule'[1]) :
                \/ i <= Len(schedule[1]) /\ schedule'[1][i] = schedule[1][i]
                \/ /\ i > Len(schedule[1])
                   /\ schedule'[1][i] = <<i - Len(schedule[1]) - 1, x>>
<1>1. pc = "unroll"
  BY DEF UnrollLoopIncrementTasks
<1> DEFINE chunk(x) == [i \in 1 .. config.num_iterations |-> <<i - 1, x>>]
<1>2. PICK x \in todo :
        /\ schedule' = [schedule EXCEPT ![1] = schedule[1] \o chunk(x)]
        /\ todo' = todo \ {x}
  BY DEF UnrollLoopIncrementTasks
<1>3. /\ todo \subseteq Stages /\ x \in Stages /\ x \in config.increment
      /\ schedule \in Seq(Seq(Tasks)) /\ Len(schedule) >= 1
      /\ schedule[1] \in Seq(Tasks)
  BY <1>1, <1>2, ElementOfSeq DEF IInv, TypeOK, LoopInv
<1>4. /\ chunk(x) \in Seq(Tasks)
      /\ Len(chunk(x)) = config.num_iterations
      /\ \A i \in 1 .. config.num_iterations : chunk(x)[i] = <<i - 1, x>>
  <2>1. config.num_iterations \in Nat
    BY ConfigFacts
  <2>2. \A i \in 1 .. config.num_iterations : <<i - 1, x>> \in Tasks
    BY <1>3, <2>1 DEF Tasks, Iters
  <2> QED
    BY <2>1, <2>2, SMTT(30)
<1> HIDE DEF chunk
<1>5. /\ schedule[1] \o chunk(x) \in Seq(Tasks)
      /\ Len(schedule[1] \o chunk(x)) = Len(schedule[1]) + config.num_iterations
      /\ \A i \in 1 .. Len(schedule[1]) + config.num_iterations :
           (schedule[1] \o chunk(x))[i] =
             IF i <= Len(schedule[1]) THEN schedule[1][i]
                                      ELSE chunk(x)[i - Len(schedule[1])]
  <2>1. PICK c \in Seq(Tasks) : c = chunk(x)
    BY <1>4
  <2>2. /\ schedule[1] \o c \in Seq(Tasks)
        /\ Len(schedule[1] \o c) = Len(schedule[1]) + Len(c)
        /\ \A i \in 1 .. Len(schedule[1]) + Len(c) :
             (schedule[1] \o c)[i] = IF i <= Len(schedule[1]) THEN schedule[1][i]
                                     ELSE c[i - Len(schedule[1])]
    BY <1>3, ConcatProperties
  <2> QED
    BY <1>4, <2>1, <2>2
<1>6. /\ schedule' \in Seq(Seq(Tasks))
      /\ Len(schedule') = Len(schedule)
      /\ schedule'[1] = schedule[1] \o chunk(x)
  BY <1>2, <1>3, <1>5, ExceptSeq
<1>7. ASSUME NEW i \in 1 .. Len(schedule'[1])
      PROVE  \/ i <= Len(schedule[1]) /\ schedule'[1][i] = schedule[1][i]
             \/ /\ i > Len(schedule[1])
                /\ schedule'[1][i] = <<i - Len(schedule[1]) - 1, x>>
  <2>1. Len(schedule[1]) \in Nat /\ config.num_iterations \in Nat
    BY <1>3, LenProperties, ConfigFacts
  <2>2. i \in 1 .. Len(schedule[1]) + config.num_iterations
    BY <1>5, <1>6
  <2>3. CASE i <= Len(schedule[1])
    BY <1>5, <1>6, <2>1, <2>2, <2>3
  <2>4. CASE i > Len(schedule[1])
    <3>1. schedule'[1][i] = chunk(x)[i - Len(schedule[1])]
      BY <1>5, <1>6, <2>1, <2>2, <2>4
    <3>2. i - Len(schedule[1]) \in 1 .. config.num_iterations
      BY <2>1, <2>2, <2>4
    <3> QED
      BY <1>4, <2>4, <3>1, <3>2
  <2> QED
    BY <2>1, <2>3, <2>4
<1>8. \A r \in 2 .. Len(schedule) : schedule'[r] = schedule[r]
  BY <1>2, <1>3, LenProperties
<1>9. Len(schedule[1]) \in Nat
  BY <1>3, LenProperties
<1> QED
  BY <1>2, <1>3, <1>5, <1>6, <1>7, <1>8, <1>9

\* A loop increment that is unrolled was not in the schedule.
LEMMA UnrollStepInv == IInv /\ UnrollLoopIncrementTasks => IInv'
<1> SUFFICES ASSUME IInv, UnrollLoopIncrementTasks PROVE IInv'
  OBVIOUS
<1>1. /\ config' = config /\ Tasks' = Tasks /\ Stages' = Stages
      /\ pc = "unroll" /\ pc' = "unroll"
      /\ UNCHANGED <<outer, inner, order, num_groups, next_minibatch_delay, queue>>
  BY DEF UnrollLoopIncrementTasks, Tasks, Stages, Iters
<1>2. PICK x \in todo :
        /\ todo' = todo \ {x} /\ x \in Stages /\ x \in config.increment
        /\ schedule[1] \in Seq(Tasks) /\ Len(schedule[1]) \in Nat
        /\ schedule' \in Seq(Seq(Tasks)) /\ Len(schedule') = Len(schedule)
        /\ Len(schedule'[1]) = Len(schedule[1]) + config.num_iterations
        /\ \A i \in 1 .. Len(schedule'[1]) :
             \/ i <= Len(schedule[1]) /\ schedule'[1][i] = schedule[1][i]
             \/ /\ i > Len(schedule[1])
                /\ schedule'[1][i] = <<i - Len(schedule[1]) - 1, x>>
  BY UnrollFacts
<1>3. x \in Stages /\ x \in config.increment /\ todo \subseteq Stages
  BY <1>2 DEF IInv, TypeOK
<1>4. x \in todo /\ todo' = todo \ {x}
  BY <1>2
<1>7. ASSUME NEW i \in 1 .. Len(schedule'[1])
      PROVE  \/ i <= Len(schedule[1]) /\ schedule'[1][i] = schedule[1][i]
             \/ /\ i > Len(schedule[1])
                /\ schedule'[1][i] = <<i - Len(schedule[1]) - 1, x>>
  BY <1>2
<1>8. TypeOK'
  BY <1>1, <1>2, <1>3 DEF IInv, TypeOK
<1>9. LoopInv'
  BY <1>1, <1>2 DEF IInv, LoopInv
<1>10. OrderInv'
  BY <1>1 DEF IInv, OrderInv
<1>11. config.schedule # "Custom" =>
         \A i \in 1 .. Len(schedule[1]) :
           schedule[1][i][2] \in config.increment \ todo
  BY <1>1 DEF IInv, UnrollInv
<1>12. UnrollInv'
  <2> SUFFICES ASSUME config.schedule # "Custom",
                      NEW i \in 1 .. Len(schedule'[1])
               PROVE  schedule'[1][i][2] \in config.increment \ todo'
    BY <1>1 DEF UnrollInv
  <2>1. Len(schedule[1]) \in Nat
    BY <1>2
  <2>2. CASE i <= Len(schedule[1])
    BY <1>4, <1>7, <1>11, <2>1, <2>2
  <2>3. CASE i > Len(schedule[1])
    <3>1. schedule'[1][i] = <<i - Len(schedule[1]) - 1, x>>
      BY <1>7, <2>1, <2>3
    <3> QED
      BY <1>3, <1>4, <3>1
  <2> QED
    BY <1>7, <2>2, <2>3
<1>13. RowInv'
  <2> SUFFICES ASSUME config.schedule # "Custom"
               PROVE  Distinct(schedule'[1]) /\ InDataflowOrder(schedule'[1])
    BY <1>1, RowInvPrime
  <2>1. Distinct(schedule[1]) /\ InDataflowOrder(schedule[1])
    BY <1>1 DEF IInv, RowInv, LoopInv
  <2>2. /\ Len(schedule[1]) \in Nat /\ Len(schedule'[1]) \in Nat
        /\ \A i \in 1 .. Len(schedule[1]) : schedule[1][i] \in Tasks
    BY <1>2, LenProperties, ElementOfSeq, ConfigFacts
  <2>3. Distinct(schedule'[1])
    <3> SUFFICES ASSUME NEW i \in 1 .. Len(schedule'[1]),
                        NEW j \in 1 .. Len(schedule'[1]),
                        schedule'[1][i] = schedule'[1][j]
                 PROVE  i = j
      BY DEF Distinct
    <3>1. CASE i <= Len(schedule[1]) /\ j <= Len(schedule[1])
      BY <1>7, <2>1, <2>2, <3>1 DEF Distinct
    <3>2. CASE i > Len(schedule[1]) /\ j > Len(schedule[1])
      BY <1>7, <2>2, <3>2
    <3>3. CASE i <= Len(schedule[1]) /\ j > Len(schedule[1])
      <4>1. schedule[1][i][2] = x
        BY <1>7, <2>2, <3>3, SMTT(30)
      <4> QED
        BY <1>4, <1>11, <2>2, <3>3, <4>1
    <3>4. CASE i > Len(schedule[1]) /\ j <= Len(schedule[1])
      <4>1. schedule[1][j][2] = x
        BY <1>7, <2>2, <3>4, SMTT(30)
      <4> QED
        BY <1>4, <1>11, <2>2, <3>4, <4>1
    <3> QED
      BY <2>2, <3>1, <3>2, <3>3, <3>4
  <2>4. InDataflowOrder(schedule'[1])
    <3> SUFFICES ASSUME NEW j \in 1 .. Len(schedule'[1]),
                        NEW i \in 1 .. j - 1
                 PROVE  ~MayDependOn(schedule'[1][i], schedule'[1][j])
      BY DEF InDataflowOrder
    <3>0. i \in 1 .. Len(schedule'[1])
      BY <2>2
    <3>1. CASE j <= Len(schedule[1])
      <4>1. /\ j \in 1 .. Len(schedule[1]) /\ i \in 1 .. Len(schedule[1])
            /\ schedule'[1][i] = schedule[1][i]
            /\ schedule'[1][j] = schedule[1][j]
        BY <1>7, <2>2, <3>0, <3>1
      <4> QED
        BY <2>1, <4>1 DEF InDataflowOrder
    <3>2. CASE j > Len(schedule[1]) /\ i > Len(schedule[1])
      <4>0. ~(i <= Len(schedule[1])) /\ ~(j <= Len(schedule[1]))
        BY <2>2, <3>2
      <4>a. schedule'[1][i] = <<i - Len(schedule[1]) - 1, x>>
        BY <1>7, <3>0, <4>0
      <4>b. schedule'[1][j] = <<j - Len(schedule[1]) - 1, x>>
        BY <1>7, <4>0
      <4>1. /\ schedule'[1][i] = <<i - Len(schedule[1]) - 1, x>>
            /\ schedule'[1][j] = <<j - Len(schedule[1]) - 1, x>>
        BY <4>a, <4>b
      <4>2. x \in Int
        BY <1>3 DEF Stages
      <4> QED
        BY <2>2, <4>1, <4>2 DEF MayDependOn
    <3>3. CASE j > Len(schedule[1]) /\ i <= Len(schedule[1])
      <4>1. /\ i \in 1 .. Len(schedule[1])
            /\ schedule'[1][i] = schedule[1][i]
            /\ schedule'[1][j] = <<j - Len(schedule[1]) - 1, x>>
        BY <1>7, <2>2, <3>0, <3>3
      <4>2. schedule[1][i][2] \in config.increment \ todo
        BY <1>11, <4>1
      <4> QED
        BY <1>4, <4>1, <4>2 DEF MayDependOn
    <3> QED
      BY <2>2, <3>1, <3>2, <3>3
  <2> QED
    BY <2>3, <2>4
<1>14. GpipeInv' /\ WavefrontInv' /\ PopInv'
  BY <1>1 DEF GpipeInv, WavefrontInv, PopInv
<1> QED
  BY <1>8, <1>9, <1>10, <1>12, <1>13, <1>14 DEF IInv

\* A stage that does not occur is appended to the row of stages; it is larger
\* than all the others, or non-critical.
LEMMA AppendOrder ==
  ASSUME IInv, NEW s \in Stages,
         \A i \in 1 .. Len(order) : order[i] # s,
         \/ \A i \in 1 .. Len(order) : order[i] < s
         \/ s \in config.noncritical
  PROVE  /\ Append(order, s) \in Seq(Stages)
         /\ Len(order) \in Nat
         /\ Len(Append(order, s)) = Len(order) + 1
         /\ \A i \in 1 .. Len(order) : Append(order, s)[i] = order[i]
         /\ Append(order, s)[Len(order) + 1] = s
         /\ Distinct(Append(order, s))
         /\ \A i, j \in 1 .. Len(Append(order, s)) :
              i < j /\ Append(order, s)[j] < Append(order, s)[i] =>
                Append(order, s)[j] \in config.noncritical
<1>1. order \in Seq(Stages)
  BY DEF IInv, TypeOK
<1>2. /\ Append(order, s) \in Seq(Stages)
      /\ Len(order) \in Nat
      /\ Len(Append(order, s)) = Len(order) + 1
      /\ \A i \in 1 .. Len(order) : Append(order, s)[i] = order[i]
      /\ Append(order, s)[Len(order) + 1] = s
  BY <1>1, AppendProperties, LenProperties
<1>3. /\ Distinct(order)
      /\ \A i, j \in 1 .. Len(order) :
           i < j /\ order[j] < order[i] => order[j] \in config.noncritical
  BY DEF IInv, OrderInv
<1>4. Distinct(Append(order, s))
  BY <1>2, <1>3 DEF Distinct
<1>5. ASSUME NEW i \in 1 .. Len(order) + 1, NEW j \in 1 .. Len(order) + 1,
             i < j, Append(order, s)[j] < Append(order, s)[i]
      PROVE  Append(order, s)[j] \in config.noncritical
  <2>1. i \in 1 .. Len(order)
    BY <1>2, <1>5
  <2>2. CASE j \in 1 .. Len(order)
    BY <1>2, <1>3, <1>5, <2>1, <2>2
  <2>3. CASE j = Len(order) + 1
    <3>1. order[i] \in Int /\ s \in Int
      <4>1. order[i] \in Stages
        BY <1>1, <2>1, ElementOfSeq
      <4> QED
        BY <4>1, ConfigFacts DEF Stages
    <3>2. s < order[i]
      BY <1>2, <1>5, <2>1, <2>3
    <3> QED
      BY <1>2, <2>1, <2>3, <3>1, <3>2
  <2> QED
    BY <1>2, <2>2, <2>3
<1> QED
  BY <1>2, <1>4, <1>5

\* RemainingTasks leaves the schedule alone; order stays increasing.
LEMMA RemainingTasksInv == IInv /\ RemainingTasks => IInv'
<1> SUFFICES ASSUME IInv, RemainingTasks PROVE IInv'
  OBVIOUS
<1>1. /\ config' = config /\ Tasks' = Tasks /\ Stages' = Stages
      /\ pc = "unroll" /\ pc' = "unroll"
      /\ outer < config.stages /\ outer' = outer + 1
      /\ UNCHANGED <<schedule, inner, todo, num_groups, next_minibatch_delay, queue>>
  BY DEF RemainingTasks, Tasks, Stages, Iters
<1>2. outer \in Nat /\ outer \in Stages /\ outer' \in Nat /\ outer' <= config.stages
  <2>1. outer \in Nat
    BY DEF IInv, TypeOK
  <2> QED
    BY <1>1, <2>1, ConfigFacts DEF Stages
<1>3. /\ order \in Seq(Stages) /\ Len(order) \in Nat
      /\ \A i \in 1 .. Len(order) : /\ order[i] \in Int
                                    /\ order[i] < outer
                                    /\ order[i] \notin config.increment
  <2>1. order \in Seq(Stages)
    BY DEF IInv, TypeOK
  <2>2. Len(order) \in Nat /\ \A i \in 1 .. Len(order) : order[i] \in Int
    <3>1. Len(order) \in Nat
      BY <2>1, LenProperties
    <3>2. \A i \in 1 .. Len(order) : order[i] \in Stages
      BY <2>1, ElementOfSeq
    <3> QED
      BY <3>1, <3>2, ConfigFacts DEF Stages
  <2> QED
    BY <1>1, <2>1, <2>2 DEF IInv, OrderInv
<1>4. order' \in Seq(Stages) /\ OrderInv'
  <2>1. CASE outer \in config.increment
    <3>1. order' = order
      BY <2>1 DEF RemainingTasks
    <3>2. \A i \in 1 .. Len(order) : order[i] < outer'
      BY <1>1, <1>2, <1>3
    <3> QED
      BY <1>1, <1>3, <3>1, <3>2 DEF IInv, OrderInv
  <2>2. CASE outer \notin config.increment
    <3>1. order' = Append(order, outer)
      BY <2>2 DEF RemainingTasks
    <3>2. \A i \in 1 .. Len(order) : order[i] # outer
      BY <1>2, <1>3
    <3>3. /\ order' \in Seq(Stages)
          /\ Len(order') = Len(order) + 1
          /\ \A i \in 1 .. Len(order) : order'[i] = order[i]
          /\ order'[Len(order) + 1] = outer
          /\ Distinct(order')
          /\ \A i, j \in 1 .. Len(order') :
               i < j /\ order'[j] < order'[i] => order'[j] \in config.noncritical
      BY <1>2, <1>3, <3>1, <3>2, AppendOrder
    <3>4. \A i \in 1 .. Len(order') :
            order'[i] < outer' /\ order'[i] \notin config.increment
      BY <1>1, <1>2, <1>3, <2>2, <3>3
    <3>5. Distinct(order)' <=> Distinct(order')
      BY DEF Distinct
    <3> QED
      BY <1>1, <3>3, <3>4, <3>5 DEF OrderInv
  <2> QED
    BY <2>1, <2>2
<1>5. TypeOK'
  BY <1>1, <1>2, <1>4 DEF IInv, TypeOK
<1>6. LoopInv'
  BY <1>1, <1>2 DEF IInv, LoopInv
<1>7. RowInv'
  BY <1>1, RowInvPrime DEF IInv, RowInv
<1>8. GpipeInv' /\ WavefrontInv' /\ PopInv' /\ UnrollInv'
  BY <1>1 DEF IInv, GpipeInv, WavefrontInv, PopInv, UnrollInv
<1> QED
  BY <1>4, <1>5, <1>6, <1>7, <1>8 DEF IInv

\* The locals of the wavefront schedulers are positive.
LEMMA WavefrontLocals ==
  ASSUME IInv
  PROVE  NumGroups \in Nat \ {0} /\ MinibatchDelay \in Nat \ {0}
<1>1. order \in Seq(Stages) /\ Len(order) \in Nat
  BY LenProperties DEF IInv, TypeOK
<1>2. IsFiniteSet(PipelineTasks) /\ Cardinality(PipelineTasks) \in Nat
  <2>1. IsFiniteSet(1 .. Len(order))
    BY <1>1, FS_Interval
  <2>2. PipelineTasks \in SUBSET (1 .. Len(order))
    BY DEF PipelineTasks
  <2>3. IsFiniteSet(PipelineTasks)
    BY <2>1, <2>2, FS_Subset
  <2> QED
    BY <2>3, FS_CardinalityType
<1>3. NumGroups \in Nat \ {0}
  <2> DEFINE groups == {RowDevices(i) : i \in PipelineTasks}
             f == [i \in PipelineTasks |-> RowDevices(i)]
  <2>1. f \in Surjection(PipelineTasks, groups)
    BY DEF Surjection
  <2>2. IsFiniteSet(groups)
    BY <1>2, <2>1, FS_Surjection
  <2>3. Cardinality(groups) \in Nat
    BY <2>2, FS_CardinalityType
  <2> QED
    BY <2>3 DEF NumGroups
<1>4. MinibatchDelay \in Nat \ {0}
  <2>1. config.num_stages \in Nat
    BY DEF IInv, TypeOK, IsLoopConfig
  <2>2. (Cardinality(PipelineTasks) + 1) \div 2 \in Nat
    BY <1>2
  <2> QED
    BY <2>1, <2>2 DEF MinibatchDelay
<1> QED
  BY <1>3, <1>4

\* StartWavefront chooses the groups and the delay.
LEMMA StartWavefrontInv == IInv /\ StartWavefront => IInv'
<1> SUFFICES ASSUME IInv, StartWavefront PROVE IInv'
  OBVIOUS
<1>1. /\ config' = config /\ Tasks' = Tasks /\ Stages' = Stages
      /\ pc = "unroll" /\ pc' \in {"done", "wavefront"}
      /\ order # << >> <=> pc' = "wavefront"
      /\ todo = {} /\ outer' = 0 /\ inner' = Len(order) - 1
      /\ config.schedule # "Custom"
      /\ num_groups' = NumGroups /\ next_minibatch_delay' = MinibatchDelay
      /\ UNCHANGED <<schedule, todo, order, queue>>
  BY DEF StartWavefront, Tasks, Stages, Iters
<1>2. /\ num_groups' \in Nat \ {0} /\ next_minibatch_delay' \in Nat \ {0}
      /\ order \in Seq(Stages) /\ Len(order) \in Nat
      /\ order # << >> => Len(order) > 0
      /\ inner' \in Nat \cup {-1}
      /\ config.schedule # "ZeroBubbleH2"
  <2>1. num_groups' \in Nat \ {0} /\ next_minibatch_delay' \in Nat \ {0}
    BY <1>1, WavefrontLocals
  <2>2. order \in Seq(Stages) /\ Len(order) \in Nat
    BY LenProperties DEF IInv, TypeOK
  <2>3. order # << >> => Len(order) > 0
    BY <2>2, EmptySeq
  <2>4. config.schedule # "ZeroBubbleH2"
    BY <1>1 DEF IInv, LoopInv
  <2> QED
    BY <1>1, <2>1, <2>2, <2>3, <2>4
<1>3. TypeOK'
  BY <1>1, <1>2 DEF IInv, TypeOK
<1>4. LoopInv'
  <2>1. Len(schedule) = 1
    BY <1>1 DEF IInv, LoopInv
  <2> QED
    BY <1>1, <1>2, <2>1 DEF LoopInv
<1>5. OrderInv'
  <2>1. Distinct(order)' <=> Distinct(order)
    BY <1>1 DEF Distinct
  <2> QED
    BY <1>1, <2>1 DEF IInv, OrderInv
<1>6. RowInv'
  <2>1. Distinct(schedule[1]) /\ InDataflowOrder(schedule[1])
    BY <1>1, <1>2 DEF IInv, RowInv
  <2>2. Distinct(schedule[1])' /\ InDataflowOrder(schedule[1])'
    BY <1>1, <2>1 DEF Distinct, InDataflowOrder, MayDependOn
  <2> QED
    BY <2>2 DEF RowInv
<1>7. GpipeInv' /\ UnrollInv' /\ PopInv'
  BY <1>1 DEF GpipeInv, UnrollInv, PopInv
<1>8. WavefrontInv'
  <2>1. \A i \in 1 .. Len(schedule[1]) : schedule[1][i][2] \in config.increment
    BY <1>1 DEF IInv, UnrollInv
  <2> QED
    BY <1>1, <2>1 DEF WavefrontInv
<1> QED
  BY <1>3, <1>4, <1>5, <1>6, <1>7, <1>8 DEF IInv

\* The wavefront loop.  The new task <<Microbatch(tick), order[inner + 1]>> is
\* at wavefront outer and stage inner, which no scheduled task has reached.
LEMMA WavefrontStepInv == IInv /\ ScheduleWavefront => IInv'
<1> SUFFICES ASSUME IInv, ScheduleWavefront PROVE IInv'
  OBVIOUS
<1> DEFINE G == num_groups
           D == next_minibatch_delay
           tick == outer - inner
<1>1. /\ config' = config /\ Tasks' = Tasks /\ Stages' = Stages
      /\ pc = "wavefront" /\ pc' \in {"wavefront", "done"}
      /\ UNCHANGED <<todo, order, num_groups, next_minibatch_delay, queue>>
  BY DEF ScheduleWavefront, Tasks, Stages, Iters
<1>2. /\ outer \in Nat /\ inner \in Nat /\ inner < Len(order)
      /\ G \in Nat \ {0} /\ D \in Nat \ {0}
      /\ order \in Seq(Stages) /\ Len(order) \in Nat
      /\ config.schedule \notin {"ZeroBubbleH2", "Custom"}
      /\ Len(schedule) = 1 /\ schedule[1] \in Seq(Tasks)
      /\ schedule \in Seq(Seq(Tasks))
  <2>1. /\ inner >= 0 /\ inner < Len(order) /\ D > 0 /\ Len(schedule) = 1
        /\ config.schedule \notin {"ZeroBubbleH2", "Custom"}
    BY <1>1 DEF IInv, LoopInv
  <2>2. /\ outer \in Nat /\ inner \in Nat \cup {-1} /\ G \in Nat \ {0}
        /\ D \in Nat /\ order \in Seq(Stages) /\ schedule \in Seq(Seq(Tasks))
    BY DEF IInv, TypeOK
  <2>3. Len(order) \in Nat
    BY <2>2, LenProperties
  <2>4. schedule[1] \in Seq(Tasks)
    <3>1. 1 \in 1 .. Len(schedule)
      BY <2>1
    <3>2. schedule \in Seq(Seq(Tasks))
      BY <2>2
    <3> QED
      BY <3>1, <3>2, ElementOfSeq
  <2> QED
    BY <2>1, <2>2, <2>3, <2>4
<1>3. /\ outer' \in Nat /\ inner' \in Nat /\ inner' < Len(order)
      /\ \/ outer' = outer /\ inner' = inner - 1
         \/ outer' = outer + 1 /\ inner = 0
  <2>1. CASE inner > 0
    BY <1>2, <2>1 DEF ScheduleWavefront
  <2>2. CASE ~(inner > 0)
    BY <1>2, <2>2 DEF ScheduleWavefront
  <2> QED
    BY <2>1, <2>2
<1> DEFINE Before(q, o, j) ==
             /\ o < G /\ o < D
             /\ \/ q * D + o + (j - 1) < outer
                \/ q * D + o + (j - 1) = outer /\ j - 1 > inner
<1>4. \A i \in 1 .. Len(schedule[1]) :
        \/ schedule[1][i][2] \in config.increment
        \/ \E j \in 1 .. Len(order), q \in Nat, o \in Nat :
             /\ schedule[1][i][2] = order[j]
             /\ schedule[1][i][1] = q * G + o
             /\ Before(q, o, j)
  BY <1>1 DEF IInv, WavefrontInv, IsMicrobatch, Wavefront
<1>5. \A q, o \in Nat, j \in 1 .. Len(order) :
        Before(q, o, j) => \/ q * D + o + (j - 1) < outer'
                           \/ q * D + o + (j - 1) = outer' /\ j - 1 > inner'
  <2> SUFFICES ASSUME NEW q \in Nat, NEW o \in Nat, NEW j \in 1 .. Len(order),
                      Before(q, o, j)
               PROVE  \/ q * D + o + (j - 1) < outer'
                      \/ q * D + o + (j - 1) = outer' /\ j - 1 > inner'
    OBVIOUS
  <2>1. q * D + o + (j - 1) \in Int
    BY <1>2
  <2> QED
    BY <1>2, <1>3, <2>1
<1>6. ASSUME schedule' \in Seq(Seq(Tasks)), Len(schedule') = 1, RowInv',
             \A i \in 1 .. Len(schedule'[1]) :
               \/ schedule'[1][i][2] \in config.increment
               \/ \E j \in 1 .. Len(order), q \in Nat, o \in Nat :
                    /\ schedule'[1][i][2] = order[j]
                    /\ schedule'[1][i][1] = q * G + o
                    /\ o < G /\ o < D
                    /\ \/ q * D + o + (j - 1) < outer'
                       \/ q * D + o + (j - 1) = outer' /\ j - 1 > inner'
      PROVE  IInv'
  <2>1. TypeOK'
    BY <1>1, <1>2, <1>3, <1>6 DEF IInv, TypeOK
  <2>2. LoopInv'
    BY <1>1, <1>2, <1>3, <1>6 DEF LoopInv
  <2>3. OrderInv'
    <3>1. Distinct(order)' <=> Distinct(order)
      BY <1>1 DEF Distinct
    <3> QED
      BY <1>1, <3>1 DEF IInv, OrderInv
  <2>4. WavefrontInv'
    BY <1>1, <1>6 DEF WavefrontInv, IsMicrobatch, Wavefront
  <2>5. GpipeInv' /\ UnrollInv' /\ PopInv'
    BY <1>1 DEF GpipeInv, UnrollInv, PopInv
  <2> QED
    BY <1>6, <2>1, <2>2, <2>3, <2>4, <2>5 DEF IInv
<1>7. CASE ~RunsMicrobatch(tick)
  <2>1. schedule' = schedule
    BY <1>7 DEF ScheduleWavefront, Tick
  <2>2. RowInv'
    BY <1>1, <2>1, RowInvPrime DEF IInv, RowInv
  <2> HIDE DEF Before
  <2>3. \A i \in 1 .. Len(schedule'[1]) :
          \/ schedule'[1][i][2] \in config.increment
          \/ \E j \in 1 .. Len(order), q \in Nat, o \in Nat :
               /\ schedule'[1][i][2] = order[j]
               /\ schedule'[1][i][1] = q * G + o
               /\ Before(q, o, j)
               /\ \/ q * D + o + (j - 1) < outer'
                  \/ q * D + o + (j - 1) = outer' /\ j - 1 > inner'
    BY <1>4, <1>5, <2>1
  <2> USE DEF Before
  <2> QED
    BY <1>2, <1>6, <2>1, <2>2, <2>3, ZenonT(30)
<1>8. CASE RunsMicrobatch(tick)
  <2> DEFINE q0 == tick \div D
             o0 == tick % D
             s0 == order[inner + 1]
             t == <<q0 * G + o0, s0>>
  <2>1. /\ tick \in Nat /\ o0 < G /\ q0 * G + o0 < config.num_iterations
    BY <1>2, <1>8 DEF RunsMicrobatch, Microbatch
  <2>2. /\ q0 \in Nat /\ o0 \in Nat /\ o0 < D
        /\ outer = q0 * D + o0 + inner
    <3>1. tick \in Nat /\ D \in Nat \ {0}
      BY <1>2, <2>1
    <3> HIDE DEF tick, D
    <3>2. /\ q0 \in Nat /\ o0 \in 0 .. D - 1 /\ tick = q0 * D + o0
      BY <3>1, DivMod
    <3> HIDE DEF q0, o0
    <3>3. o0 \in Nat /\ o0 < D /\ q0 * D \in Nat
      BY <3>1, <3>2
    <3>4. outer = tick + inner
      BY <1>2 DEF tick
    <3> QED
      BY <3>2, <3>3, <3>4
  <2>3. PushBack(1, t)
    BY <1>8 DEF ScheduleWavefront, Tick, Microbatch
  <2>4. inner + 1 \in 1 .. Len(order) /\ s0 \in Stages
    BY <1>2, ElementOfSeq
  <2> HIDE DEF q0, o0, s0, tick, G, D
  <2>5. q0 * G \in Nat
    BY <1>2, <2>2
  <2>6. t \in Tasks
    BY <2>1, <2>2, <2>4, <2>5, ConfigFacts, SMTT(30) DEF Tasks, Iters
  <2>7. s0 \notin config.increment
    BY <1>1, <2>4 DEF IInv, OrderInv, s0
  <2>8. ASSUME NEW i \in 1 .. Len(schedule[1])
        PROVE  schedule[1][i] # t /\ ~MayDependOn(schedule[1][i], t)
    <3>1. CASE schedule[1][i][2] \in config.increment
      BY <2>7, <3>1 DEF MayDependOn
    <3>2. CASE schedule[1][i][2] \notin config.increment
      <4>1. PICK j \in 1 .. Len(order), q \in Nat, o \in Nat :
              /\ schedule[1][i][2] = order[j]
              /\ schedule[1][i][1] = q * G + o
              /\ Before(q, o, j)
        BY <1>4, <3>2
      <4>2. q * D \in Nat /\ q0 * D \in Nat /\ q * G \in Nat
        BY <1>2, <2>2
      <4>3. ASSUME order[j] = s0 PROVE q * G + o < q0 * G + o0
        <5>1. j = inner + 1
          BY <2>4, <4>3 DEF IInv, OrderInv, Distinct, s0
        <5>2. q * D + o < q0 * D + o0
          BY <1>2, <2>2, <4>1, <4>2, <5>1
        <5> QED
          BY <1>2, <2>1, <2>2, <4>1, <5>2, LaterTickLaterMicrobatch
      <4>4. ASSUME q0 * G + o0 <= q * G + o, s0 < order[j],
                   s0 \notin config.noncritical
            PROVE  FALSE
        <5>1. ~(q * D + o < q0 * D + o0)
          <6>1. ~(q * G + o < q0 * G + o0)
            BY <2>2, <2>5, <4>2, <4>4
          <6> QED
            BY <1>2, <2>1, <2>2, <4>1, <6>1, LaterTickLaterMicrobatch
        <5>2. ~(j < inner + 1)
          BY <2>4, <4>4 DEF IInv, OrderInv, s0
        <5>3. j # inner + 1
          BY <2>4, <4>4, ConfigFacts DEF s0, Stages
        <5>4. PICK x \in Nat, x0 \in Nat : x = q * D /\ x0 = q0 * D
          BY <4>2
        <5> QED
          BY <1>2, <2>2, <4>1, <5>1, <5>2, <5>3, <5>4
      <4>5. q * G + o \in Int /\ q0 * G + o0 \in Int
        BY <2>2, <2>5, <4>2
      <4>6. schedule[1][i] # t
        BY <4>1, <4>3, <4>5
      <4>7. ~MayDependOn(schedule[1][i], t)
        <5> SUFFICES ASSUME MayDependOn(schedule[1][i], t) PROVE FALSE
          OBVIOUS
        <5>1. /\ q0 * G + o0 <= q * G + o /\ s0 <= order[j]
              /\ s0 = order[j] \/ s0 \notin config.noncritical
          BY <4>1 DEF MayDependOn
        <5>2. CASE s0 = order[j]
          BY <4>3, <4>5, <5>1, <5>2
        <5>3. CASE s0 # order[j]
          <6>1. s0 < order[j]
            <7>0. order[j] \in Stages
              BY <1>2, ElementOfSeq
            <7>1. s0 \in Int /\ order[j] \in Int
              BY <2>4, <7>0 DEF Stages
            <7> QED
              BY <5>1, <5>3, <7>1
          <6> QED
            BY <4>4, <5>1, <5>3, <6>1
        <5> QED
          BY <5>2, <5>3
      <4> QED
        BY <4>6, <4>7
    <3> QED
      BY <3>1, <3>2
  <2>9. /\ schedule' \in Seq(Seq(Tasks)) /\ Len(schedule') = 1
        /\ Len(schedule'[1]) = Len(schedule[1]) + 1
        /\ \A i \in 1 .. Len(schedule[1]) : schedule'[1][i] = schedule[1][i]
        /\ schedule'[1][Len(schedule[1]) + 1] = t
        /\ RowInv'
    BY <1>1, <1>2, <2>3, <2>6, <2>8, PushBackRow
  <2>10. ASSUME NEW i \in 1 .. Len(schedule'[1])
         PROVE  \/ schedule'[1][i][2] \in config.increment
                \/ \E j \in 1 .. Len(order), q \in Nat, o \in Nat :
                     /\ schedule'[1][i][2] = order[j]
                     /\ schedule'[1][i][1] = q * G + o
                     /\ o < G /\ o < D
                     /\ \/ q * D + o + (j - 1) < outer'
                        \/ q * D + o + (j - 1) = outer' /\ j - 1 > inner'
    <3>1. CASE i \in 1 .. Len(schedule[1])
      <4>1. schedule'[1][i] = schedule[1][i]
        BY <2>9, <3>1
      <4> QED
        BY <1>4, <1>5, <3>1, <4>1
    <3>2. CASE i = Len(schedule[1]) + 1
      <4>1. schedule'[1][i] = t
        BY <2>9, <3>2
      <4>2. q0 * D + o0 \in Nat
        BY <1>2, <2>2, SMTT(30)
      <4>3. \/ q0 * D + o0 + ((inner + 1) - 1) < outer'
            \/ /\ q0 * D + o0 + ((inner + 1) - 1) = outer'
               /\ (inner + 1) - 1 > inner'
        BY <1>2, <1>3, <2>2, <4>2
      <4> QED
        BY <2>1, <2>2, <2>4, <4>1, <4>3 DEF s0
    <3>3. Len(schedule[1]) \in Nat
      BY <1>2, LenProperties
    <3> QED
      BY <2>9, <3>1, <3>2, <3>3
  <2> QED
    BY <1>6, <2>9, <2>10
<1> QED
  BY <1>7, <1>8

\* The stages are a finite set.
LEMMA StagesFinite ==
  ASSUME IInv
  PROVE  IsFiniteSet(Stages) /\ Cardinality(Stages) = config.stages
<1>1. config.stages \in Nat \ {0}
  BY ConfigFacts
<1>2. \A a, b \in Int : /\ IsFiniteSet(a .. b)
                        /\ Cardinality(a .. b) = IF a > b THEN 0 ELSE b - a + 1
  BY FS_Interval
<1> DEFINE last == config.stages - 1
<1>3. last \in Int /\ last >= 0 /\ last + 1 = config.stages
  BY <1>1
<1> HIDE DEF last
<1>4. IsFiniteSet(0 .. last) /\ Cardinality(0 .. last) = last + 1
  BY <1>2, <1>3
<1> QED
  BY <1>3, <1>4 DEF Stages, last

\* Zero-bubble: the critical stages, in ascending order.
LEMMA CriticalStagesInv == IInv /\ CriticalStages => IInv'
<1> SUFFICES ASSUME IInv, CriticalStages PROVE IInv'
  OBVIOUS
<1>1. /\ config' = config /\ Tasks' = Tasks /\ Stages' = Stages
      /\ pc = "critical" /\ outer < config.stages /\ outer' = outer + 1
      /\ UNCHANGED <<schedule, inner, num_groups, queue>>
      /\ pc' \in {"critical", "noncritical"}
      /\ pc' = "noncritical" <=> outer + 1 = config.stages
      /\ pc' = "critical" => UNCHANGED <<todo, next_minibatch_delay>>
      /\ pc' = "noncritical" => /\ todo' = config.noncritical
                                /\ next_minibatch_delay' = (Len(order') + 1) \div 2
  BY DEF CriticalStages, Tasks, Stages, Iters
<1>2. outer \in Nat /\ outer \in Stages /\ outer' \in Nat /\ outer' <= config.stages
  <2>1. outer \in Nat
    BY DEF IInv, TypeOK
  <2> QED
    BY <1>1, <2>1, ConfigFacts DEF Stages
<1>3. /\ order \in Seq(Stages) /\ Len(order) \in Nat
      /\ \A i \in 1 .. Len(order) : /\ order[i] \in Int
                                    /\ order[i] < outer
                                    /\ order[i] \notin config.noncritical
  <2>1. order \in Seq(Stages)
    BY DEF IInv, TypeOK
  <2>2. Len(order) \in Nat /\ \A i \in 1 .. Len(order) : order[i] \in Int
    <3>1. Len(order) \in Nat
      BY <2>1, LenProperties
    <3>2. \A i \in 1 .. Len(order) : order[i] \in Stages
      BY <2>1, ElementOfSeq
    <3> QED
      BY <3>1, <3>2, ConfigFacts DEF Stages
  <2> QED
    BY <1>1, <2>1, <2>2 DEF IInv, OrderInv
<1> DEFINE critical == (0 .. outer - 1) \ config.noncritical
<1>0. Len(order) = Cardinality(critical)
  BY <1>1 DEF IInv, OrderInv
<1> HIDE DEF critical
<1>4. IsFiniteSet(critical) /\ outer \notin critical
  <2>1. IsFiniteSet(0 .. outer - 1)
    BY <1>2, FS_Interval
  <2>2. IsFiniteSet(critical)
    BY <2>1, FS_Difference DEF critical
  <2> QED
    BY <1>2, <2>2 DEF critical
<1>5. /\ order' \in Seq(Stages) /\ Len(order') \in Nat
      /\ Distinct(order')
      /\ \A i, j \in 1 .. Len(order') :
           i < j /\ order'[j] < order'[i] => order'[j] \in config.noncritical
      /\ \A i \in 1 .. Len(order') :
           order'[i] < outer' /\ order'[i] \notin config.noncritical
      /\ Len(order') = Cardinality((0 .. outer' - 1) \ config.noncritical)
  <2>1. CASE outer \in config.noncritical
    <3>1. order' = order
      BY <2>1 DEF CriticalStages
    <3>2. \A i \in 1 .. Len(order) : order[i] < outer'
      BY <1>1, <1>2, <1>3
    <3>3. (0 .. outer' - 1) \ config.noncritical = critical
      BY <1>1, <1>2, <2>1 DEF critical
    <3>4. /\ Distinct(order)
          /\ \A i, j \in 1 .. Len(order) :
               i < j /\ order[j] < order[i] => order[j] \in config.noncritical
      BY DEF IInv, OrderInv
    <3> QED
      BY <1>0, <1>3, <3>1, <3>2, <3>3, <3>4
  <2>2. CASE outer \notin config.noncritical
    <3>1. order' = Append(order, outer)
      BY <2>2 DEF CriticalStages
    <3>2. \A i \in 1 .. Len(order) : order[i] # outer
      BY <1>2, <1>3
    <3>3. /\ order' \in Seq(Stages)
          /\ Len(order') = Len(order) + 1
          /\ \A i \in 1 .. Len(order) : order'[i] = order[i]
          /\ order'[Len(order) + 1] = outer
          /\ Distinct(order')
          /\ \A i, j \in 1 .. Len(order') :
               i < j /\ order'[j] < order'[i] => order'[j] \in config.noncritical
      BY <1>2, <1>3, <3>1, <3>2, AppendOrder
    <3>4. \A i \in 1 .. Len(order') :
            order'[i] < outer' /\ order'[i] \notin config.noncritical
      BY <1>1, <1>2, <1>3, <2>2, <3>3
    <3>5. (0 .. outer' - 1) \ config.noncritical = critical \cup {outer}
      BY <1>1, <1>2, <2>2 DEF critical
    <3>6. Cardinality(critical \cup {outer}) = Cardinality(critical) + 1
      BY <1>4, FS_AddElement
    <3> QED
      <4>1. Len(order') = Cardinality((0 .. outer' - 1) \ config.noncritical)
        BY <1>0, <3>3, <3>5, <3>6
      <4>2. Len(order') \in Nat
        BY <3>3, LenProperties
      <4> QED
        BY <3>3, <3>4, <4>1, <4>2
  <2> QED
    BY <2>1, <2>2
<1>6. /\ todo' \subseteq Stages
      /\ next_minibatch_delay' \in Nat
  <2>1. todo \subseteq Stages /\ next_minibatch_delay \in Nat
    BY DEF IInv, TypeOK
  <2>2. (Len(order') + 1) \div 2 \in Nat
    BY <1>5
  <2> QED
    BY <1>1, <2>1, <2>2, ConfigFacts
<1>7. TypeOK'
  BY <1>1, <1>2, <1>5, <1>6 DEF IInv, TypeOK
<1>8. LoopInv'
  <2>1. schedule = << << >> >> /\ config.schedule = "ZeroBubbleH2"
    BY <1>1 DEF IInv, LoopInv
  <2>2. pc' = "critical" => outer' < config.stages
    BY <1>1, <1>2, ConfigFacts
  <2> QED
    BY <1>1, <2>1, <2>2 DEF LoopInv
<1>9. OrderInv'
  <2>1. Distinct(order)' <=> Distinct(order')
    BY DEF Distinct
  <2>2. pc' = "noncritical" =>
          Len(order') + Cardinality(config.noncritical) = config.stages
    <3> SUFFICES ASSUME outer' = config.stages
                 PROVE  Len(order') + Cardinality(config.noncritical) = config.stages
      BY <1>1
    <3>1. outer' - 1 = config.stages - 1 /\ 0 \in Int /\ config.stages - 1 \in Int
      BY ConfigFacts
    <3>2. IsFiniteSet(Stages) /\ Cardinality(Stages) = config.stages
      BY StagesFinite
    <3>3. Stages \cap config.noncritical = config.noncritical
      BY ConfigFacts
    <3>4. Cardinality(Stages \ config.noncritical)
            = Cardinality(Stages) - Cardinality(config.noncritical)
      <4>1. Cardinality(Stages \ config.noncritical)
              = Cardinality(Stages) - Cardinality(Stages \cap config.noncritical)
        BY <3>2, FS_Difference
      <4> QED
        BY <3>3, <4>1
    <3>5. Cardinality(config.noncritical) \in Nat
      <4>1. IsFiniteSet(config.noncritical)
        BY <3>2, ConfigFacts, FS_Subset
      <4> QED
        BY <4>1, FS_CardinalityType
    <3>6. Len(order') = Cardinality(Stages \ config.noncritical)
      BY <1>5, <3>1 DEF Stages
    <3> QED
      BY <3>2, <3>4, <3>5, <3>6, ConfigFacts
  <2> QED
    BY <1>1, <1>5, <2>1, <2>2 DEF OrderInv
<1>10. schedule' = << << >> >>
  BY <1>1 DEF IInv, LoopInv
<1>11. RowInv'
  BY <1>10 DEF RowInv, Distinct, InDataflowOrder
<1>12. GpipeInv' /\ UnrollInv' /\ WavefrontInv' /\ PopInv'
  BY <1>1 DEF GpipeInv, UnrollInv, WavefrontInv, PopInv
<1> QED
  BY <1>7, <1>8, <1>9, <1>11, <1>12 DEF IInv

\* Zero-bubble: the non-critical stages, in the order of the heap.
LEMMA NonCriticalStagesInv == IInv /\ NonCriticalStages => IInv'
<1> SUFFICES ASSUME IInv, NonCriticalStages PROVE IInv'
  OBVIOUS
<1>1. /\ config' = config /\ Tasks' = Tasks /\ Stages' = Stages
      /\ pc = "noncritical" /\ pc' = "noncritical"
      /\ UNCHANGED <<schedule, outer, inner, num_groups, next_minibatch_delay, queue>>
  BY DEF NonCriticalStages, Tasks, Stages, Iters
<1>2. PICK stage \in todo : order' = Append(order, stage) /\ todo' = todo \ {stage}
  BY DEF NonCriticalStages
<1>3. /\ \A i \in 1 .. Len(order) : order[i] \notin todo
      /\ todo \subseteq config.noncritical
      /\ Len(order) + Cardinality(todo) = config.stages
  BY <1>1 DEF IInv, OrderInv
<1>4. stage \in Stages /\ todo \subseteq Stages
  BY DEF IInv, TypeOK
<1>5. /\ order' \in Seq(Stages)
      /\ Len(order) \in Nat
      /\ Len(order') = Len(order) + 1
      /\ \A i \in 1 .. Len(order) : order'[i] = order[i]
      /\ order'[Len(order) + 1] = stage
      /\ Distinct(order')
      /\ \A i, j \in 1 .. Len(order') :
           i < j /\ order'[j] < order'[i] => order'[j] \in config.noncritical
  BY <1>2, <1>3, <1>4, AppendOrder
<1>6. Len(order') + Cardinality(todo') = config.stages
  <2>1. IsFiniteSet(Stages)
    BY StagesFinite
  <2>2. IsFiniteSet(todo)
    BY <1>4, <2>1, FS_Subset
  <2>3. Cardinality(todo) \in Nat
    BY <2>2, FS_CardinalityType
  <2>4. Cardinality(todo') = Cardinality(todo) - 1
    BY <1>2, <2>2, FS_RemoveElement
  <2> QED
    BY <1>3, <1>5, <2>3, <2>4, ConfigFacts
<1>7. TypeOK'
  BY <1>1, <1>2, <1>4, <1>5 DEF IInv, TypeOK
<1>8. LoopInv'
  BY <1>1 DEF IInv, LoopInv
<1>9. OrderInv'
  <2>1. Distinct(order)' <=> Distinct(order')
    BY DEF Distinct
  <2>2. \A i \in 1 .. Len(order') : order'[i] \notin todo'
    BY <1>2, <1>3, <1>5
  <2> QED
    BY <1>1, <1>2, <1>3, <1>5, <1>6, <2>1, <2>2 DEF OrderInv
<1>10. RowInv'
  BY <1>1, RowInvPrime DEF IInv, RowInv
<1>11. GpipeInv' /\ UnrollInv' /\ WavefrontInv' /\ PopInv'
  BY <1>1 DEF GpipeInv, UnrollInv, WavefrontInv, PopInv
<1> QED
  BY <1>7, <1>8, <1>9, <1>10, <1>11 DEF IInv

\* Zero-bubble: the groups that enter the priority queue.
LEMMA EmplaceStageGroupsInv == IInv /\ EmplaceStageGroups => IInv'
<1> SUFFICES ASSUME IInv, EmplaceStageGroups PROVE IInv'
  OBVIOUS
<1> DEFINE G == NumGroups
           D == next_minibatch_delay
           N == NumMinibatches(G)
<1>1. /\ config' = config /\ Tasks' = Tasks /\ Stages' = Stages
      /\ pc = "noncritical" /\ pc' = "pop" /\ todo = {}
      /\ num_groups' = G
      /\ UNCHANGED <<schedule, outer, inner, todo, order, next_minibatch_delay>>
      /\ queue' = { [wf |-> m * D + mb + stage, microbatch |-> m * G + mb,
                     stage |-> stage] :
                      m \in 0 .. N - 1, mb \in 0 .. G - 1, stage \in Stages }
  BY DEF EmplaceStageGroups, StageGroup, Tasks, Stages, Iters, NumMinibatches
<1>2. G \in Nat \ {0} /\ D \in Nat /\ N \in Int
  <2>1. G \in Nat \ {0}
    BY WavefrontLocals
  <2>2. D \in Nat
    BY DEF IInv, TypeOK
  <2>3. N \in Int
    BY <2>1, ConfigFacts DEF NumMinibatches
  <2> QED
    BY <2>1, <2>2, <2>3
<1> HIDE DEF G, D, N
<1>3. schedule = << << >> >> /\ config.schedule = "ZeroBubbleH2"
  BY <1>1 DEF IInv, LoopInv
<1>4. ASSUME NEW g \in queue'
      PROVE  /\ g \in [wf: Nat, microbatch: Nat, stage: Stages]
             /\ \E q \in Nat, o \in Nat : /\ o < G /\ g.microbatch = q * G + o
                                          /\ g.wf = q * D + o + g.stage
  <2>1. PICK m \in 0 .. N - 1, mb \in 0 .. G - 1, stage \in Stages :
          g = [wf |-> m * D + mb + stage, microbatch |-> m * G + mb,
               stage |-> stage]
    BY <1>1
  <2>2. m \in Nat /\ mb \in Nat /\ mb < G
    BY <1>2
  <2>3. stage \in Nat
    BY ConfigFacts DEF Stages
  <2>4. m * D \in Nat /\ m * G \in Nat
    BY <1>2, <2>2
  <2>5. m * D + mb + stage \in Nat /\ m * G + mb \in Nat
    BY <2>2, <2>3, <2>4
  <2> QED
    BY <2>1, <2>2, <2>5
<1>5. TypeOK'
  <2>1. queue' \subseteq [wf: Nat, microbatch: Nat, stage: Stages]
    BY <1>4
  <2> QED
    BY <1>1, <1>2, <2>1 DEF IInv, TypeOK
<1>6. LoopInv'
  BY <1>1, <1>3 DEF LoopInv
<1>7. OrderInv'
  <2>1. Distinct(order)' <=> Distinct(order)
    BY <1>1 DEF Distinct
  <2>2. Len(order) + Cardinality({}) = config.stages
    BY <1>1 DEF IInv, OrderInv
  <2>3. Len(order) = config.stages
    <3>1. order \in Seq(Stages)
      BY DEF IInv, TypeOK
    <3>2. Len(order) \in Nat /\ Cardinality({}) = 0
      BY <3>1, LenProperties, FS_EmptySet
    <3> QED
      BY <2>2, <3>2
  <2> QED
    BY <1>1, <2>1, <2>3 DEF IInv, OrderInv
<1>8. RowInv'
  BY <1>1, <1>3 DEF RowInv, Distinct, InDataflowOrder
<1>9. PopInv'
  <2>1. D' = D
    BY <1>1 DEF D
  <2> QED
    BY <1>1, <1>3, <1>4, <2>1 DEF PopInv, IsMicrobatch, Wavefront, D
<1>10. GpipeInv' /\ UnrollInv' /\ WavefrontInv'
  BY <1>1 DEF GpipeInv, UnrollInv, WavefrontInv
<1> QED
  BY <1>5, <1>6, <1>7, <1>8, <1>9, <1>10 DEF IInv

\* What CompareStageGroup says of two groups at ticks x, x0, stage indices
\* j - 1, s and microbatches m, m0.
LEMMA QueueOrder ==
  ASSUME NEW x \in Nat, NEW x0 \in Nat, NEW j \in Nat, NEW s \in Nat,
         NEW m \in Nat, NEW m0 \in Nat,
         \/ x + (j - 1) < x0 + s
         \/ x + (j - 1) = x0 + s /\ m < m0
         \/ x + (j - 1) = x0 + s /\ m = m0 /\ j - 1 < s
  PROVE  /\ m = m0 /\ x = x0 => j < s + 1
         /\ j = s + 1 /\ m0 < m => x < x0
OBVIOUS

\* Zero-bubble: the group at the head of the queue.  No task that was popped
\* before it is the same task or depends on it, provided the minibatch delay
\* covers the groups: a group is popped in wavefront order, and within one
\* microbatch the wavefront grows with the stage.
LEMMA PopStageGroupInv == IInv /\ PopStageGroup => IInv'
<1> SUFFICES ASSUME IInv, PopStageGroup PROVE IInv'
  OBVIOUS
<1> DEFINE G == num_groups
           D == next_minibatch_delay
<1>1. /\ config' = config /\ Tasks' = Tasks /\ Stages' = Stages
      /\ pc = "pop" /\ pc' \in {"pop", "done", "undefined"}
      /\ UNCHANGED <<outer, inner, todo, order, num_groups, next_minibatch_delay>>
  BY DEF PopStageGroup, Tasks, Stages, Iters
<1>2. PICK group \in queue :
        /\ \A other \in queue \ {group} : PoppedBefore(group, other)
        /\ queue' = queue \ {group}
        /\ IF group.microbatch < config.num_iterations
             THEN PushBack(1, <<group.microbatch, order[group.stage + 1]>>)
             ELSE pc' = "undefined" /\ UNCHANGED schedule
  BY DEF PopStageGroup
<1>3. /\ G \in Nat \ {0} /\ D \in Nat /\ order \in Seq(Stages)
      /\ schedule \in Seq(Seq(Tasks))
      /\ group.wf \in Nat /\ group.microbatch \in Nat /\ group.stage \in Stages
  BY DEF IInv, TypeOK
<1>4. /\ Len(order) = config.stages /\ Distinct(order)
      /\ config.schedule = "ZeroBubbleH2" /\ Len(schedule) = 1
      /\ \A i, j \in 1 .. Len(order) :
           i < j /\ order[j] < order[i] => order[j] \in config.noncritical
  <2>1. config.schedule = "ZeroBubbleH2"
    BY <1>1 DEF IInv, LoopInv
  <2> QED
    BY <1>1, <2>1 DEF IInv, LoopInv, OrderInv
<1>5. PICK q0 \in Nat, o0 \in Nat :
        /\ o0 < G /\ group.microbatch = q0 * G + o0
        /\ group.wf = q0 * D + o0 + group.stage
  BY <1>1 DEF IInv, PopInv, IsMicrobatch, Wavefront
<1>6. \A i \in 1 .. Len(schedule[1]) :
        \E j \in 1 .. Len(order), q \in Nat, o \in Nat :
          /\ schedule[1][i][2] = order[j]
          /\ o < G /\ schedule[1][i][1] = q * G + o
          /\ \A g \in queue :
               PoppedBefore([wf |-> q * D + o + (j - 1),
                             microbatch |-> schedule[1][i][1],
                             stage |-> j - 1], g)
  BY <1>1 DEF IInv, PopInv, IsMicrobatch, Wavefront
<1>7. \A g \in queue : \E q \in Nat, o \in Nat :
         /\ o < G /\ g.microbatch = q * G + o
         /\ g.wf = q * D + o + g.stage
  BY <1>1 DEF IInv, PopInv, IsMicrobatch, Wavefront
<1> DEFINE k == group.stage + 1
           s0 == order[k]
           t == <<group.microbatch, s0>>
<1>8. k \in 1 .. Len(order) /\ s0 \in Stages /\ group.stage \in Nat
  <2>1. group.stage \in Nat /\ k \in 1 .. Len(order)
    BY <1>3, <1>4, ConfigFacts, SMTT(30) DEF Stages
  <2> QED
    BY <1>3, <2>1, ElementOfSeq
<1> HIDE DEF G, D, s0
<1>9. ASSUME schedule' \in Seq(Seq(Tasks)), Len(schedule') = 1, RowInv',
             pc' = "pop" =>
               \A i \in 1 .. Len(schedule'[1]) :
                 \E j \in 1 .. Len(order), q \in Nat, o \in Nat :
                   /\ schedule'[1][i][2] = order[j]
                   /\ o < G /\ schedule'[1][i][1] = q * G + o
                   /\ \A g \in queue' :
                        PoppedBefore([wf |-> q * D + o + (j - 1),
                                      microbatch |-> schedule'[1][i][1],
                                      stage |-> j - 1], g)
      PROVE  IInv'
  <2>1. TypeOK'
    <3>1. queue' \subseteq queue
      BY <1>2
    <3> QED
      BY <1>1, <1>9, <3>1 DEF IInv, TypeOK
  <2>2. LoopInv'
    BY <1>1, <1>4, <1>9 DEF LoopInv
  <2>3. OrderInv'
    <3>1. Distinct(order)' <=> Distinct(order)
      BY <1>1 DEF Distinct
    <3> QED
      BY <1>1, <1>4, <3>1 DEF OrderInv
  <2>4. PopInv'
    BY <1>1, <1>2, <1>7, <1>9 DEF PopInv, IsMicrobatch, Wavefront, PoppedBefore, G, D
  <2>5. GpipeInv' /\ UnrollInv' /\ WavefrontInv'
    BY <1>1 DEF GpipeInv, UnrollInv, WavefrontInv
  <2> QED
    BY <1>9, <2>1, <2>2, <2>3, <2>4, <2>5 DEF IInv
<1>10. CASE ~(group.microbatch < config.num_iterations)
  <2>1. schedule' = schedule /\ pc' = "undefined"
    BY <1>2, <1>10
  <2>2. RowInv'
    BY <1>1, <2>1, RowInvPrime DEF IInv, RowInv
  <2> QED
    BY <1>3, <1>4, <1>9, <2>1, <2>2
<1>11. CASE group.microbatch < config.num_iterations
  <2>1. PushBack(1, t)
    BY <1>2, <1>11 DEF s0
  <2>2. t \in Tasks
    BY <1>3, <1>8, <1>11, ConfigFacts DEF Tasks, Iters
  <2>3. ASSUME NEW i \in 1 .. Len(schedule[1])
        PROVE  /\ schedule[1][i] # t
               /\ DelayCoversGroups => ~MayDependOn(schedule[1][i], t)
    <3>1. PICK j \in 1 .. Len(order), q \in Nat, o \in Nat :
            /\ schedule[1][i][2] = order[j]
            /\ o < G /\ schedule[1][i][1] = q * G + o
            /\ \A g \in queue :
                 PoppedBefore([wf |-> q * D + o + (j - 1),
                               microbatch |-> schedule[1][i][1],
                               stage |-> j - 1], g)
      BY <1>6
    <3> DEFINE m == schedule[1][i][1]
               w == q * D + o + (j - 1)
               w0 == q0 * D + o0 + group.stage
    <3>2. \/ w < w0
          \/ w = w0 /\ m < group.microbatch
          \/ w = w0 /\ m = group.microbatch /\ j - 1 < group.stage
      BY <1>5, <3>1 DEF PoppedBefore
    <3>3. /\ q * D \in Nat /\ q0 * D \in Nat /\ q * G \in Nat /\ q0 * G \in Nat
          /\ j \in Nat
      <4>1. Len(order) \in Nat
        BY <1>3, LenProperties
      <4> QED
        BY <1>3, <4>1
    <3>4. m \in Nat /\ group.microbatch \in Nat
      <4>1. m = q * G + o
        BY <3>1
      <4> HIDE DEF m
      <4>2. q * G + o \in Nat
        BY <3>3
      <4> QED
        BY <1>3, <4>1, <4>2
    <3>5. ASSUME order[j] = s0 PROVE j = k
      BY <1>4, <1>8, <3>5 DEF Distinct, s0
    <3>6. ASSUME m = group.microbatch PROVE q = q0 /\ o = o0
      <4>1. o < G /\ o0 < G /\ G \in Nat /\ q * G + o = q0 * G + o0
        BY <1>3, <1>5, <3>1, <3>6
      <4> QED
        BY <4>1, MinibatchUnique
    <3>7. ASSUME m = group.microbatch PROVE j < k
      <4>1. q * D + o = q0 * D + o0
        BY <3>6, <3>7
      <4> HIDE DEF m
      <4>2. q * D + o \in Nat /\ q0 * D + o0 \in Nat /\ j \in Nat
        BY <3>3, SMTT(30)
      <4>3. group.stage \in Nat
        BY <1>8
      <4>4. PICK x \in Nat : q * D + o = x /\ q0 * D + o0 = x
        BY <4>1, <4>2
      <4>5. \/ x + (j - 1) < x + group.stage
            \/ x + (j - 1) = x + group.stage /\ m < group.microbatch
            \/ x + (j - 1) = x + group.stage /\ j - 1 < group.stage
        BY <3>2, <4>4
      <4> QED
        BY <3>4, <3>7, <4>2, <4>3, <4>5, SMTT(30)
    <3>8. schedule[1][i] # t
      <4>1. k \in Nat
        BY <1>8
      <4> SUFFICES ASSUME schedule[1][i] = t PROVE FALSE
        OBVIOUS
      <4>2. m = group.microbatch /\ order[j] = s0
        BY <3>1
      <4> QED
        BY <3>5, <3>7, <4>1, <4>2
    <3>9. ASSUME DelayCoversGroups, MayDependOn(schedule[1][i], t)
          PROVE  FALSE
      <4>1. G <= D
        BY <3>9 DEF DelayCoversGroups, G, D
      <4>2. CASE /\ group.microbatch <= m /\ s0 < order[j]
                 /\ s0 \notin config.noncritical
        <5>1. ~(j < k) /\ j # k
          <6>1. s0 \in Int
            BY <1>8 DEF Stages
          <6>2. ~(j < k)
            BY <1>4, <1>8, <4>2 DEF s0
          <6>3. j # k
            BY <4>2, <6>1 DEF s0
          <6> QED
            BY <6>2, <6>3
        <5>2. q0 * D + o0 <= q * D + o
          <6>1. CASE group.microbatch = m
            BY <3>3, <3>6, <6>1
          <6>2. CASE group.microbatch # m
            <7>1. q0 * G + o0 < q * G + o
              BY <1>5, <3>1, <3>4, <4>2, <6>2
            <7>2. o < G /\ o0 < G /\ G \in Nat /\ D \in Nat
              BY <1>3, <1>5, <3>1
            <7> QED
              BY <4>1, <7>1, <7>2, LaterMicrobatchLaterTick
          <6> QED
            BY <6>1, <6>2
        <5>3. PICK x \in Nat, x0 \in Nat : x = q * D + o /\ x0 = q0 * D + o0
          BY <3>3, SMTT(30)
        <5>4. PICK st \in Nat : st = group.stage /\ k = st + 1
          BY <1>8
        <5>5. x + (j - 1) < x0 + st \/ x + (j - 1) = x0 + st
          BY <3>2, <5>3, <5>4
        <5>6. x0 <= x /\ j \in Nat /\ ~(j < st + 1) /\ j # st + 1
          BY <3>3, <5>1, <5>2, <5>3, <5>4
        <5> HIDE DEF k
        <5> QED
          BY <5>5, <5>6
      <4>3. CASE order[j] = s0 /\ group.microbatch < m
        <5>1. j = k
          BY <3>5, <4>3
        <5>2. q0 * G + o0 < q * G + o
          BY <1>5, <3>1, <4>3
        <5>3. o < G /\ o0 < G /\ G \in Nat /\ D \in Nat
          BY <1>3, <1>5, <3>1
        <5>4. q0 * D + o0 <= q * D + o
          BY <4>1, <5>2, <5>3, LaterMicrobatchLaterTick
        <5> HIDE DEF m
        <5>5. q * D + o \in Nat /\ q0 * D + o0 \in Nat /\ j \in Nat
          BY <3>3, SMTT(30)
        <5>6. group.stage \in Nat
          BY <1>8
        <5>7. j = group.stage + 1 /\ group.microbatch < m
          BY <4>3, <5>1
        <5>8. q * D + o < q0 * D + o0
          <6> DEFINE x == q * D + o
                     x0 == q0 * D + o0
                     st == group.stage
                     m0 == group.microbatch
          <6>1. x \in Nat /\ x0 \in Nat /\ st \in Nat /\ m \in Nat /\ m0 \in Nat
            BY <3>4, <5>5, <5>6
          <6>2. \/ x + (j - 1) < x0 + st
                \/ x + (j - 1) = x0 + st /\ m < m0
                \/ x + (j - 1) = x0 + st /\ m = m0 /\ j - 1 < st
            BY <3>2
          <6>3. j = st + 1 /\ m0 < m
            BY <5>7
          <6> HIDE DEF x, x0, st, m0
          <6>4. x < x0
            BY <5>5, <6>1, <6>2, <6>3, QueueOrder
          <6> QED
            BY <6>4 DEF x, x0
        <5> QED
          BY <5>4, <5>5, <5>8
      <4>4. /\ group.microbatch <= m /\ s0 <= order[j] /\ t # schedule[1][i]
            /\ s0 = order[j] \/ s0 \notin config.noncritical
        BY <3>1, <3>9 DEF MayDependOn
      <4>5. s0 \in Int /\ order[j] \in Int
        <5>1. order[j] \in Stages
          BY <1>3, ElementOfSeq
        <5> QED
          BY <1>8, <5>1 DEF Stages
      <4>6. CASE s0 = order[j]
        <5>1. j = k
          BY <3>5, <4>6
        <5>2. m # group.microbatch
          BY <1>8, <3>3, <3>7, <5>1
        <5> QED
          BY <3>4, <4>3, <4>4, <4>6, <5>2
      <4> QED
        BY <4>2, <4>4, <4>5, <4>6
    <3> QED
      BY <3>8, <3>9
  <2>4. /\ schedule' \in Seq(Seq(Tasks)) /\ Len(schedule') = 1
        /\ schedule[1] \in Seq(Tasks)
        /\ Len(schedule'[1]) = Len(schedule[1]) + 1
        /\ \A i \in 1 .. Len(schedule[1]) : schedule'[1][i] = schedule[1][i]
        /\ schedule'[1][Len(schedule[1]) + 1] = t
        /\ RowInv'
    BY <1>1, <1>4, <2>1, <2>2, <2>3, PushBackRow
  <2>5. ASSUME NEW i \in 1 .. Len(schedule'[1])
        PROVE  \E j \in 1 .. Len(order), q \in Nat, o \in Nat :
                 /\ schedule'[1][i][2] = order[j]
                 /\ o < G /\ schedule'[1][i][1] = q * G + o
                 /\ \A g \in queue' :
                      PoppedBefore([wf |-> q * D + o + (j - 1),
                                    microbatch |-> schedule'[1][i][1],
                                    stage |-> j - 1], g)
    <3>1. CASE i \in 1 .. Len(schedule[1])
      <4>1. schedule'[1][i] = schedule[1][i]
        BY <2>4, <3>1
      <4>2. queue' \subseteq queue
        BY <1>2
      <4> QED
        BY <1>6, <3>1, <4>1, <4>2
    <3>2. CASE i = Len(schedule[1]) + 1
      <4>1. schedule'[1][i] = t
        BY <2>4, <3>2
      <4>2. k - 1 = group.stage
        BY <1>8
      <4>3. \A g \in queue' :
              PoppedBefore([wf |-> q0 * D + o0 + (k - 1),
                            microbatch |-> group.microbatch,
                            stage |-> k - 1], g)
        BY <1>2, <1>5, <4>2 DEF PoppedBefore
      <4>4. /\ schedule'[1][i][2] = order[k]
            /\ schedule'[1][i][1] = group.microbatch
        BY <4>1 DEF s0
      <4> HIDE DEF k
      <4> QED
        BY <1>5, <1>8, <4>3, <4>4
    <3>3. Len(schedule[1]) \in Nat
      BY <2>4, LenProperties
    <3>4. i \in 1 .. Len(schedule[1]) \/ i = Len(schedule[1]) + 1
      BY <2>4, <3>3
    <3> QED
      BY <3>1, <3>2, <3>4
  <2> QED
    BY <1>9, <2>4, <2>5
<1> QED
  BY <1>10, <1>11

\* The checks of a custom schedule change no row.
LEMMA StartCustomScheduleInv == IInv /\ StartCustomSchedule => IInv'
<1> SUFFICES ASSUME IInv, StartCustomSchedule PROVE IInv'
  OBVIOUS
<1>1. /\ config' = config /\ Tasks' = Tasks /\ Stages' = Stages
      /\ pc = "unroll" /\ pc' \in {"custom", "error"}
      /\ config.schedule = "Custom"
      /\ outer' = 1 /\ inner' = 1
      /\ UNCHANGED <<schedule, todo, order, num_groups, next_minibatch_delay, queue>>
  BY DEF StartCustomSchedule, Tasks, Stages, Iters
<1>2. TypeOK'
  BY <1>1 DEF IInv, TypeOK
<1>3. LoopInv'
  <2>1. Len(schedule) >= 1 /\ Len(schedule) = Len(config.custom_schedule)
    BY <1>1 DEF IInv, LoopInv
  <2> QED
    BY <1>1, <2>1 DEF LoopInv
<1>4. OrderInv'
  <2>1. Distinct(order)' <=> Distinct(order)
    BY <1>1 DEF Distinct
  <2> QED
    BY <1>1, <2>1 DEF IInv, OrderInv
<1>5. RowInv' /\ GpipeInv' /\ UnrollInv' /\ WavefrontInv' /\ PopInv'
  BY <1>1 DEF RowInv, GpipeInv, UnrollInv, WavefrontInv, PopInv
<1> QED
  BY <1>2, <1>3, <1>4, <1>5 DEF IInv

\* A custom schedule pushes tasks of the loop only: check 3 rejects the rest.
LEMMA ScheduleCustomScheduleInv == IInv /\ ScheduleCustomSchedule => IInv'
<1> SUFFICES ASSUME IInv, ScheduleCustomSchedule PROVE IInv'
  OBVIOUS
<1>1. /\ config' = config /\ Tasks' = Tasks /\ Stages' = Stages
      /\ pc = "custom" /\ pc' \in {"custom", "error", "done"}
      /\ UNCHANGED <<todo, order, num_groups, next_minibatch_delay, queue>>
  BY DEF ScheduleCustomSchedule, InTaskMap, Tasks, Stages, Iters
<1>2. /\ outer >= 1 /\ inner >= 1 /\ config.schedule = "Custom"
      /\ Len(schedule) = Len(config.custom_schedule) /\ Len(schedule) >= 1
  BY <1>1 DEF IInv, LoopInv
<1>3. /\ outer \in Nat /\ inner \in Nat \cup {-1} /\ order \in Seq(Stages)
      /\ schedule \in Seq(Seq(Tasks))
  BY DEF IInv, TypeOK
<1>4. /\ outer' \in Nat /\ outer' >= 1 /\ inner' \in Nat /\ inner' >= 1
      /\ schedule' \in Seq(Seq(Tasks)) /\ Len(schedule') = Len(schedule)
  <2>1. CASE outer > Len(config.custom_schedule)
    BY <1>2, <1>3, <2>1 DEF ScheduleCustomSchedule, InTaskMap
  <2>2. CASE /\ ~(outer > Len(config.custom_schedule))
             /\ inner > Len(config.custom_schedule[outer])
    BY <1>2, <1>3, <2>2 DEF ScheduleCustomSchedule, InTaskMap
  <2>3. CASE /\ ~(outer > Len(config.custom_schedule))
             /\ ~(inner > Len(config.custom_schedule[outer]))
    <3> DEFINE entry == config.custom_schedule[outer][inner]
    <3>1. CASE ~(entry[1] \in Iters /\ Matches(entry[2]) # {})
      BY <1>2, <1>3, <2>3, <3>1 DEF ScheduleCustomSchedule, InTaskMap
    <3>2. CASE entry[1] \in Iters /\ Matches(entry[2]) # {}
      <4>1. outer' = outer /\ inner' = inner + 1
        BY <2>3, <3>2 DEF ScheduleCustomSchedule, InTaskMap
      <4>2. PICK i \in Matches(entry[2]) : PushBack(outer, <<entry[1], order[i]>>)
        BY <2>3, <3>2 DEF ScheduleCustomSchedule, InTaskMap
      <4>3. order[i] \in Stages
        <5>1. i \in 1 .. Len(order)
          BY <4>2 DEF Matches
        <5> QED
          BY <1>3, <5>1, ElementOfSeq
      <4>4. <<entry[1], order[i]>> \in Tasks
        BY <3>2, <4>3 DEF Tasks
      <4>5. outer \in 1 .. Len(schedule)
        <5>1. Len(schedule) \in Nat
          BY <1>3, LenProperties
        <5> QED
          BY <1>2, <1>3, <2>3, <5>1
      <4>6. schedule' \in Seq(Seq(Tasks)) /\ Len(schedule') = Len(schedule)
        BY <1>3, <4>2, <4>4, <4>5, PushBackFacts
      <4> QED
        BY <1>2, <1>3, <4>1, <4>6
    <3> QED
      BY <3>1, <3>2
  <2> QED
    BY <2>1, <2>2, <2>3
<1>5. TypeOK'
  BY <1>1, <1>4 DEF IInv, TypeOK
<1>6. LoopInv'
  BY <1>1, <1>2, <1>4 DEF LoopInv
<1>7. OrderInv'
  <2>1. Distinct(order)' <=> Distinct(order)
    BY <1>1 DEF Distinct
  <2> QED
    BY <1>1, <2>1 DEF IInv, OrderInv
<1>8. RowInv' /\ GpipeInv' /\ UnrollInv' /\ WavefrontInv' /\ PopInv'
  BY <1>1, <1>2 DEF RowInv, GpipeInv, UnrollInv, WavefrontInv, PopInv
<1> QED
  BY <1>5, <1>6, <1>7, <1>8 DEF IInv

\* A step that changes nothing.
LEMMA UnchangedInv == IInv /\ UNCHANGED schedulerVars => IInv'
<1> SUFFICES ASSUME IInv, UNCHANGED schedulerVars PROVE IInv'
  OBVIOUS
<1>1. /\ config' = config /\ pc' = pc /\ schedule' = schedule
      /\ outer' = outer /\ inner' = inner /\ todo' = todo /\ order' = order
      /\ num_groups' = num_groups
      /\ next_minibatch_delay' = next_minibatch_delay /\ queue' = queue
      /\ Tasks' = Tasks /\ Stages' = Stages
  BY DEF schedulerVars, Tasks, Stages, Iters
<1>2. TypeOK' /\ LoopInv'
  BY <1>1 DEF IInv, TypeOK, LoopInv
<1>3. OrderInv'
  <2>1. Distinct(order)' <=> Distinct(order)
    BY <1>1 DEF Distinct
  <2> QED
    BY <1>1, <2>1 DEF IInv, OrderInv
<1>4. RowInv'
  <2>1. /\ Distinct(schedule[1])' <=> Distinct(schedule[1])
        /\ InDataflowOrder(schedule[1])' <=> InDataflowOrder(schedule[1])
        /\ DelayCoversGroups' <=> DelayCoversGroups
    BY <1>1 DEF Distinct, InDataflowOrder, MayDependOn, DelayCoversGroups
  <2> QED
    BY <1>1, <2>1 DEF IInv, RowInv
<1>5. GpipeInv' /\ UnrollInv'
  BY <1>1 DEF IInv, GpipeInv, UnrollInv
<1>6. WavefrontInv'
  BY <1>1 DEF IInv, WavefrontInv, IsMicrobatch, Wavefront
<1>7. PopInv'
  BY <1>1 DEF IInv, PopInv, IsMicrobatch, Wavefront
<1> QED
  BY <1>2, <1>3, <1>4, <1>5, <1>6, <1>7 DEF IInv

-----------------------------------------------------------------------------
(***************************************************************************)
(* The theorems.                                                           *)
(***************************************************************************)

\* Every step of the scheduler preserves the invariant.
LEMMA SchedulerStepInv == IInv /\ SchedulerStep => IInv'
BY ScheduleLoopsInv, GpipeStepInv, UnrollStepInv, RemainingTasksInv,
   StartWavefrontInv, WavefrontStepInv, CriticalStagesInv,
   NonCriticalStagesInv, EmplaceStageGroupsInv, PopStageGroupInv,
   StartCustomScheduleInv, ScheduleCustomScheduleInv
   DEF SchedulerStep

\* IInv is an invariant of the scheduler, for every loop configuration.
THEOREM Invariance == Spec => []IInv
<1>1. IInv /\ [Next]_schedulerVars => IInv'
  BY SchedulerStepInv, UnchangedInv DEF Next, Returned
<1> QED
  BY InitInv, <1>1, PTL DEF Spec

\* The scheduler keeps its types: in particular it never puts anything in a
\* row that is not a task of the loop, and never reads past a row of stages.
THEOREM TypeCorrect == Spec => []TypeOK
<1>1. IInv => TypeOK
  BY DEF IInv
<1> QED
  BY <1>1, Invariance, PTL

\* The positions of a schedule with one row.
LEMMA OneRow ==
  ASSUME IInv, pc # "dispatch", config.schedule # "Custom"
  PROVE  /\ DOMAIN schedule = {1} /\ DOMAIN schedule[1] = 1 .. Len(schedule[1])
         /\ schedule[1] \in Seq(Tasks)
<1>1. Len(schedule) = 1
  BY DEF IInv, LoopInv
<1>2. schedule \in Seq(Seq(Tasks))
  BY DEF IInv, TypeOK
<1>3. 1 \in 1 .. Len(schedule)
  BY <1>1
<1>4. schedule[1] \in Seq(Tasks)
  BY <1>2, <1>3, ElementOfSeq
<1>5. DOMAIN schedule = 1 .. Len(schedule)
  BY <1>2, LenProperties
<1>6. DOMAIN schedule[1] = 1 .. Len(schedule[1])
  BY <1>4, LenProperties
<1>7. 1 .. 1 = {1}
  OBVIOUS
<1> QED
  BY <1>1, <1>4, <1>5, <1>6, <1>7

\* No task is scheduled twice by fill-drain, wavefront or zero-bubble, for
\* every number of iterations, stages, groups and minibatch delay.
THEOREM AtMostOnce == Spec => []ScheduledAtMostOnce
<1>1. ASSUME IInv PROVE ScheduledAtMostOnce
  <2> SUFFICES ASSUME config.schedule # "Custom",
                      NEW p \in Positions, NEW q \in Positions,
                      TaskAt(p) = TaskAt(q)
               PROVE  p = q
    BY DEF ScheduledAtMostOnce
  <2>1. CASE pc = "dispatch"
    <3>1. schedule = << >>
      BY <1>1, <2>1 DEF IInv, LoopInv
    <3> QED
      BY <3>1 DEF Positions
  <2>2. CASE pc # "dispatch"
    <3>1. /\ DOMAIN schedule = {1} /\ DOMAIN schedule[1] = 1 .. Len(schedule[1])
          /\ Distinct(schedule[1])
      BY <1>1, <2>2, OneRow DEF IInv, RowInv
    <3>2. Positions = {1} \X (1 .. Len(schedule[1]))
      BY <3>1 DEF Positions
    <3> QED
      BY <3>1, <3>2 DEF TaskAt, Distinct
  <2> QED
    BY <2>1, <2>2
<1> QED
  BY <1>1, Invariance, PTL

\* The order of the row never contradicts the data flow of the loop body, for
\* fill-drain and the wavefront schedules of every loop, and for zero-bubble
\* when the minibatch delay covers the groups.
THEOREM DataflowRespected == Spec => []RespectsDataflow
<1>1. ASSUME IInv PROVE RespectsDataflow
  <2> SUFFICES ASSUME config.schedule # "Custom",
                      config.schedule = "ZeroBubbleH2" => DelayCoversGroups,
                      NEW row \in DOMAIN schedule,
                      NEW j \in DOMAIN schedule[row], NEW i \in 1 .. j - 1
               PROVE  ~MayDependOn(schedule[row][i], schedule[row][j])
    BY DEF RespectsDataflow
  <2>1. CASE pc = "dispatch"
    <3>1. schedule = << >>
      BY <1>1, <2>1 DEF IInv, LoopInv
    <3> QED
      BY <3>1
  <2>2. CASE pc # "dispatch"
    <3>1. /\ DOMAIN schedule = {1} /\ DOMAIN schedule[1] = 1 .. Len(schedule[1])
          /\ InDataflowOrder(schedule[1])
      BY <1>1, <2>2, OneRow DEF IInv, RowInv
    <3> QED
      BY <3>1 DEF InDataflowOrder
  <2> QED
    BY <2>1, <2>2
<1> QED
  BY <1>1, Invariance, PTL
=============================================================================
