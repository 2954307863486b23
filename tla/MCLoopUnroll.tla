---------------------------- MODULE MCLoopUnroll ----------------------------
(***************************************************************************)
(* Instances of LoopUnroll: every data flow among a few stages, each stage *)
(* with a loop carried accumulator, a loop invariant element, and an       *)
(* element that reaches the last stage two iterations later.               *)
(***************************************************************************)
EXTENDS LoopUnroll, TLC

CONSTANTS
  MaxIterations,          \* bound on the loops
  Layers,                 \* number of pipeline stages
  all, g0, g1             \* device lists

(***************************************************************************)
(* Stage S - 1 is the loop increment on all the devices.  Tuple elements   *)
(* 0 .. S - 1 are the accumulators of the stages, S is invariant, and the  *)
(* last pipeline stage writes S + 2, which becomes S + 1 one iteration     *)
(* later and is then consumed by the same stage.                           *)
(***************************************************************************)
Body(kind, n, S, dev, flow, non, custom) ==
  LET last == S - 2
  IN  [schedule |-> kind, num_iterations |-> n, num_stages |-> 0, stages |-> S,
       devices |-> [i \in 0 .. n - 1 |->
                      [s \in 0 .. S - 1 |->
                         IF dev[s] # "rotate" THEN dev[s]
                         ELSE IF i % 2 = 0 THEN g0 ELSE g1]],
       increment |-> {S - 1}, noncritical |-> non,
       partner |-> [s \in 0 .. S - 1 |->
                      LET crit == { t \in 0 .. s - 1 : <<t, s>> \in flow } \ non
                      IN  IF crit = {} THEN 0
                          ELSE CHOOSE t \in crit : \A u \in crit : u <= t],
       color |-> [s \in 0 .. S - 1 |-> {s}],
       custom_schedule |-> custom,
       indices |-> 0 .. S + 2,
       carried |-> 0 .. S + 2 \ {S},
       operands |-> [s \in 0 .. S - 1 |->
                       {Input(s)}
                         \cup { <<0, t>> : t \in {t \in 0 .. s - 1 : <<t, s>> \in flow} }
                         \cup (IF s = S - 1 THEN {} ELSE {Input(S)})
                         \cup (IF s = last THEN {Input(S + 1)} ELSE {})],
       root |-> [x \in 0 .. S + 2 |->
                   CASE x < S -> <<0, x>>
                     [] x = S -> Input(S)
                     [] x = S + 1 -> Input(S + 2)
                     [] OTHER -> <<0, last>>]]

\* The data flow among the pipeline stages.
Flows(S) == SUBSET { e \in (0 .. S - 2) \X (0 .. S - 2) : e[1] < e[2] }

\* Stages go forward and back over the two groups, or move with the iteration.
Placement(S) ==
  { [s \in 0 .. S - 1 |-> IF s = S - 1 THEN all ELSE d[s]] :
      d \in { [s \in 0 .. S - 2 |->
                 IF s < (S \div 2) THEN (IF s % 2 = 0 THEN g0 ELSE g1)
                 ELSE (IF (S - 2 - s) % 2 = 0 THEN g0 ELSE g1)],
              [s \in 0 .. S - 2 |-> IF s % 2 = 0 THEN g0 ELSE g1],
              [s \in 0 .. S - 2 |-> g0],
              [s \in 0 .. S - 2 |-> IF s = 0 THEN "rotate" ELSE g1] } }

UnrollConfigs ==
  { Body(kind, n, S, dev, flow, non, << << >> >>) :
      kind \in {"FillDrain", "1F1B"}, n \in 1 .. MaxIterations,
      S \in {Layers + 1}, dev \in Placement(Layers + 1),
      flow \in Flows(Layers + 1), non \in {{}} }
  \cup
  { [Body("ZeroBubbleH2", n, S, dev, flow, non, << << >> >>)
       EXCEPT !.increment = {}] :
      n \in 1 .. MaxIterations,
      S \in {Layers + 1}, dev \in Placement(Layers + 1),
      flow \in Flows(Layers + 1), non \in {{}, {Layers - 1}, {0}} }
=============================================================================
