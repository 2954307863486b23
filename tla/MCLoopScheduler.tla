-------------------------- MODULE MCLoopScheduler --------------------------
(***************************************************************************)
(* Instances of LoopScheduler: all the loops of at most MaxIterations      *)
(* iterations and MaxStages stages over a few device lists; for zero-bubble*)
(* loops, where the non-critical stages vary too, one less of each.        *)
(***************************************************************************)
EXTENDS LoopScheduler, TLC

CONSTANTS
  MaxIterations, MaxStages,  \* bounds on the loops
  MaxNumStages,              \* bound on the num_stages option
  all, g0, g1, g2                \* the device lists of a pipeline

Pipeline == <<g0, g1, g2>>

Loop(kind, n, k, S, dev, inc, non, partner, color, custom) ==
  [schedule |-> kind, num_iterations |-> n, num_stages |-> k, stages |-> S,
   devices |-> [i \in 0 .. n - 1 |-> dev], increment |-> inc,
   noncritical |-> non, partner |-> partner, color |-> color,
   custom_schedule |-> custom]

\* Placements on two groups and all the devices.  The schedulers only compare
\* device lists, so the first group to appear may be called g0.
Placements(S) ==
  { dev \in [0 .. S - 1 -> {g0, g1, AllDevices}] :
      \A s \in 0 .. S - 1 :
        dev[s] = g1 => \E t \in 0 .. s - 1 : dev[t] = g0 }

NoPartner(S) == [s \in 0 .. S - 1 |-> 0]
NoColor(S)   == [s \in 0 .. S - 1 |-> {}]

\* Fill-drain and wavefront loops.  At most one loop increment task, placed on
\* all the devices (AllocateLoopIncrementColor).
WavefrontConfigs ==
  UNION { UNION {
    { Loop(kind[1], n, kind[2], S, dev, inc, {}, NoPartner(S), NoColor(S),
           << << >> >>) :
        kind \in {<<"FillDrain", 0>>}
                   \cup ({"Wavefront"} \X (0 .. MaxNumStages)),
        inc \in { i \in SUBSET {s \in 0 .. S - 1 : dev[s] = AllDevices} :
                    Cardinality(i) <= 1 } } :
      dev \in Placements(S) } :
    n \in 1 .. MaxIterations, S \in 1 .. MaxStages }

\* Zero-bubble loops.  A non-critical stage consumes an earlier critical stage
\* or none of them.
Partners(S, non) ==
  { f \in [0 .. S - 1 -> 0 .. S - 1] :
      \A s \in 0 .. S - 1 :
        \/ f[s] = 0
        \/ s \in non /\ f[s] < s /\ f[s] \notin non }

SmallZeroBubbleConfigs ==
  UNION { UNION { UNION {
    { Loop("ZeroBubbleH2", n, 0, S, dev, {}, non, partner, NoColor(S),
           << << >> >>) :
        dev \in Placements(S) } :
      partner \in Partners(S, non) } :
    non \in SUBSET (0 .. S - 1) } :
    n \in 1 .. MaxIterations - 1, S \in 1 .. MaxStages - 1 }

\* The loop bodies of loop_scheduler_test.cc, GetZeroBubbleLoopBody: layers
\* forward tasks, then a backward and a gradient task for each layer; layer l
\* is placed on group l % groups.
ZeroBubblePipeline(n, layers, groups) ==
  LET Bwd(l)   == layers + 2 * (layers - 1 - l)
      S        == 3 * layers
      Layer(s) == IF s < layers THEN s ELSE layers - 1 - ((s - layers) \div 2)
      Grads    == { Bwd(l) + 1 : l \in 0 .. layers - 1 }
  IN  Loop("ZeroBubbleH2", n, 0, S,
           [s \in 0 .. S - 1 |-> Pipeline[(Layer(s) % groups) + 1]], {}, Grads,
           [s \in 0 .. S - 1 |-> IF s \in Grads THEN s - 1 ELSE 0],
           NoColor(S), << << >> >>)

ZeroBubbleConfigs ==
  SmallZeroBubbleConfigs
    \cup { ZeroBubblePipeline(n, layers, groups) :
             n \in 1 .. 2 * (MaxIterations - 1), layers \in 2 .. 3, groups \in 1 .. 3 }

\* Custom schedules of two rows for a loop of one forward and one backward task
\* per iteration and a loop increment; c is a name no task has.  An entry may
\* name an iteration past the last one.
CustomRows(names, length) ==
  UNION { [1 .. l -> (0 .. 2) \X names] : l \in 0 .. length }

CustomConfigs ==
  { Loop("Custom", 2, 0, 3,
         0 :> all @@ 1 :> g0 @@ 2 :> g1, {0}, {}, NoPartner(3),
         0 :> {} @@ 1 :> {"a", "d"} @@ 2 :> {"b", "d"}, <<r1, r2>>) :
      r1 \in CustomRows({"a", "d"}, 2), r2 \in CustomRows({"b", "c"}, 2) }

AllConfigs == WavefrontConfigs \cup ZeroBubbleConfigs \cup CustomConfigs
=============================================================================
