------------------------------ MODULE Grouping ------------------------------
(***************************************************************************)
(* The second part of the pipeline of mpmd_partition.cc: the colored, flat *)
(* module is grouped into tasks, the tasks are fused, made unique, inlined *)
(* again, moved between colors, and grouped and fused a second time.  One  *)
(* action is one pass; ValidateCircularDependencies runs where the         *)
(* pipeline has it.                                                        *)
(***************************************************************************)
EXTENDS HloTasks

CONSTANTS
  Modules,           \* pairs of a colored module and its partition
  Options,           \* environment options and configuration
  MemoryRatio,       \* kGlobalMemToComputeRatio
  CrossMeshRatio,    \* kCrossMeshCommComputeRatio
  LargeBufferSize    \* kLargeBufferSize

VARIABLES
  hlo,        \* the module
  partition,  \* the HloPartition
  options,    \* the options of this compilation
  step,       \* the pass of Pipeline to run next, 0 after an error
  source      \* the module and the partition as they were given

vars == <<hlo, partition, options, step, source>>

\* The order in which MpmdPartition adds the passes.
Pipeline ==
  << "group", "validate", "fuse_colors", "validate", "dce", "remove_barriers", "validate",
     "sharding_propagation", "dce", "uniquify_colors", "delay_recolor", "validate",
     "inline", "argument_recompute", "validate", "cut_size", "validate",
     "group", "validate", "remove_parameter_barriers", "unused_param_output", "validate",
     "fuse_original_colors", "fuse_devices", "validate", "dce",
     "split_critical_path", "validate" >>

Init ==
  /\ source \in Modules
  /\ hlo = source.hlo /\ partition = source.partition
  /\ options \in Options
  /\ step = 1

At(p) == step \in DOMAIN Pipeline /\ Pipeline[step] = p

Failed == step = 0

Done == step = Len(Pipeline) + 1

\* A pass that returns a status other than ok ends the compilation.
Finish(P, p, ok) ==
  /\ step' = IF ok THEN step + 1 ELSE 0
  /\ hlo' = P
  /\ partition' = p
  /\ UNCHANGED <<options, source>>

\* Mutant: a circular dependency is not reported.
ValidateNothing == At("validate") /\ Finish(hlo, partition, TRUE)

Validate == At("validate") /\ Finish(hlo, partition, Acyclic(hlo))

HloDce == At("dce") /\ Finish(Dce(hlo), partition, TRUE)

\* The computations whose instructions are grouped.
Computations(P) == IF HasLoop(P) THEN <<Entry, Body>> ELSE <<Entry>>

\* A pass over each of them that may fail.
OnComputations(P, Visit(_, _)) ==
  FoldLeft(LAMBDA acc, comp : IF acc.ok THEN Visit(acc.P, comp) ELSE acc,
           [P |-> P, ok |-> TRUE], Computations(P))

-----------------------------------------------------------------------------
(***************************************************************************)
(* MpmdComputationGrouper.  Consecutive instructions of one color in the   *)
(* color sorted postorder make a task.  An instruction that is replicated  *)
(* is cloned into every task that reads it.                                *)
(***************************************************************************)
\* Mutant: a constant is an argument of the task that reads it.
IsAlwaysTaskOperandOrConstant(P, i) ==
  \/ Op(P, i) \in {"parameter", "arg", "slice_offset", "dummy", "constant"}
  \/ Op(P, i) = "gte" /\ Op(P, P.n[i].in[1]) \in {"while", "arg"}

IsAlwaysTaskOperand(P, i) ==
  \/ Op(P, i) \in {"parameter", "arg", "slice_offset", "dummy"}
  \/ Op(P, i) = "gte" /\ Op(P, P.n[i].in[1]) \in {"while", "arg"}

ReplicateInstruction(P, i) ==
  \/ DerivedInput(P, i) \/ ~IsAssignedColor(P, i)
  \/ Op(P, i) \in {"arg_recolor", "barrier", "tuple"}
  \/ Op(P, i) = "gte" /\ Op(P, P.n[i].in[1]) \in {"barrier", "tuple"}

IncludeDirectlyInBuilder(P, i) ==
  ~ReplicateInstruction(P, i) /\ ~IsAlwaysTaskOperand(P, i)

IncludeIndirectlyInBuilder(P, i) ==
  ReplicateInstruction(P, i) /\ ~IsAlwaysTaskOperand(P, i)

\* The instructions of a sequence, cut where the color changes and around loops.
CutByColor(P, items) ==
  LET isNew(k) == \/ k = 1 \/ Op(P, items[k]) = "while" \/ Op(P, items[k-1]) = "while"
                  \/ Color(P, items[k]) # Color(P, items[k-1])
      starts == Sorted({k \in DOMAIN items : isNew(k)})
      End(n) == IF n = Len(starts) THEN Len(items) ELSE starts[n+1] - 1
  IN  Tabulated([n \in DOMAIN starts |-> {items[k] : k \in starts[n]..End(n)}])

\* The sets of instructions that start a task each, in order; a loop separates tasks.
Builders(P, comp) ==
  SelectSeq(CutByColor(P, SelectSeq(ColorSortedPostorder(P, comp),
                            LAMBDA i : /\ Op(P, i) # "recolor"
                                       /\ Op(P, i) = "while" \/ IncludeDirectlyInBuilder(P, i))),
            LAMBDA g : \A i \in g : Op(P, i) # "while")

\* AddInstruction, with AddReplicatedOperandDfs: all a task is made of.
BuilderInstructions(P, comp, group) ==
  LET Indirect(S) == {o \in UNION {OperandSet(P, i) : i \in S} :
                           IncludeIndirectlyInBuilder(P, o)}
      included == Closure(Indirect, group)
  IN  SelectSeq(PostOrder(P, comp), LAMBDA i : i \in included)

OperandsOf(P, insts) ==
  Sorted(UNION {OperandSet(P, i) : i \in ToSet(insts)} \ ToSet(insts))

\* Mutant: every instruction of the group is a root.
BuilderRootsAll(P, comp, all, b) == b.group

\* Mutant: only the outputs of the computation are roots.
BuilderOutputsOnly(P, comp, all, b) == ToSet(b.insts) \cap ToSet(Root(P, comp).in)

(***************************************************************************)
(* AddRoot, AddConsumer and IsRoot: what a task returns is read by another *)
(* task, by the loop or by a recolored output, or is an output of the      *)
(* computation.                                                            *)
(***************************************************************************)
BuilderRoots(P, comp, all, b) ==
  LET outside == UNION {ToSet(OperandsOf(P, all[n].insts)) : n \in DOMAIN all}
      toLoop  == IF HasLoop(P) /\ comp = Entry THEN ToSet(InitTuple(P).in) ELSE {}
      recolored == {P.n[i].in[1] : i \in {j \in Ids(P, comp) : Op(P, j) = "recolor"}}
  IN  {i \in b.group : i \in outside \cup toLoop \cup recolored}
        \cup (ToSet(b.insts) \cap ToSet(Root(P, comp).in))

\* The tasks under construction: instructions, color, and then the roots of each.
BuildContexts(P, comp, groups) ==
  Tabulated([n \in DOMAIN groups |->
    [group |-> groups[n], insts |-> BuilderInstructions(P, comp, groups[n]),
     color |-> Color(P, CHOOSE i \in groups[n] : TRUE)]])

RootsOf(P, comp, all) ==
  Tabulated([n \in DOMAIN all |-> BuilderRoots(P, comp, all, all[n])])

\* The operand of a recolored output and every parameter come from one task.
CanBuild(P, comp, all, roots, used) ==
  /\ \A i \in Ids(P, comp) : Op(P, i) = "recolor" =>
       \/ \E n \in DOMAIN all : P.n[i].in[1] \in all[n].group
       \/ Op(P, P.n[i].in[1]) = "gte" /\ Op(P, P.n[P.n[i].in[1]].in[1]) = "while"
  /\ \A n \in ToSet(used) : \A o \in ToSet(OperandsOf(P, all[n].insts)) :
       IsAlwaysTaskOperand(P, o) \/ \E m \in ToSet(used) : o \in roots[m]
  /\ \A n, m \in ToSet(used) : n # m => roots[n] \cap roots[m] = {}

AddTask(P, comp, builder, params, roots) ==
  NewTask(P, comp, builder.color,
          [params |-> params, args |-> params, insts |-> builder.insts,
           rep |-> Empty, roots |-> roots, recolor |-> ToSet(params)])

AddTasks(P, comp, all, roots, used) ==
  LET Add(acc, n) ==
        LET rs == Sorted(roots[n])
        IN  [P    |-> AddTask(acc.P, comp, all[n], OperandsOf(P, all[n].insts), rs),
             outs |-> acc.outs \o [k \in DOMAIN rs |-> [old |-> rs[k], call |-> FreshId(acc.P), k |-> k]]]
  IN  FoldLeft(Add, [P |-> P, outs |-> <<>>], used)

ReplaceWithOutputs(P, new) ==
  FoldLeft(LAMBDA R, out : ReplaceWithOutput(R, out.old, out.call, out.k,
                             Color(new.P, out.call), P.n[out.old].shard),
           new.P, new.outs)

\* A task that returns nothing is not built.
BuildTasks(P, comp, all, roots) ==
  LET used == SelectSeq([n \in DOMAIN all |-> n], LAMBDA n : roots[n] # {})
  IN  IF CanBuild(P, comp, all, roots, used)
      THEN [ok |-> TRUE,
            P  |-> RemoveUnusedInstructions(
                     ReplaceWithOutputs(P, AddTasks(P, comp, all, roots, used)), comp)]
      ELSE [ok |-> FALSE, P |-> P]

RootAndBuild(P, comp, all) == BuildTasks(P, comp, all, RootsOf(P, comp, all))

GroupComputationIntoTasks(P, comp) ==
  RootAndBuild(P, comp, BuildContexts(P, comp, Builders(P, comp)))

\* ApplyInterTaskReshards: a recorded resharding is redone on the parameter.
ApplyReshard(P, i) ==
  LET o == P.n[i].in[1]
  IN  RemoveNodes(ReplaceAllUsesWith([P EXCEPT !.n[o].shard = P.n[i].shard], i, o), {i})

ApplyInterTaskReshards(P) ==
  FoldLeft(ApplyReshard, P,
           Sorted({i \in DOMAIN P.n : Op(P, i) = "arg_recolor" /\ P.n[i].comp # Entry}))

\* What is left of them in the entry computation must be of a parameter.
RemoveDangling(P) ==
  FoldLeft(LAMBDA Q, i : RemoveNodes(ReplaceAllUsesWith(Q, i, P.n[i].in[1]), {i}), P,
           Sorted({i \in Ids(P, Entry) : Op(P, i) = "arg_recolor"}))

FinishGrouping(new, P) ==
  LET dangling == {i \in Ids(P, Entry) : Op(P, i) = "arg_recolor"}
  IN  Finish(RemoveDangling(P), partition,
             new.ok /\ \A i \in dangling : Op(P, P.n[i].in[1]) = "parameter")

Group ==
  /\ At("group")
  /\ LET new == OnComputations(hlo, GroupComputationIntoTasks)
     IN  FinishGrouping(new, ApplyInterTaskReshards(new.P))

-----------------------------------------------------------------------------
(***************************************************************************)
(* MpmdComputationFusion.  Calls that match are fused when every call      *)
(* between them in the postorder can be moved out of the way.              *)
(***************************************************************************)
FusionMatch(P, l, r) ==
  /\ IsCall(P, l) /\ IsCall(P, r)
  /\ CASE At("fuse_colors") -> Color(P, l) = Color(P, r)
       [] At("fuse_original_colors") ->
            OriginalColor(partition, Color(P, l)) = OriginalColor(partition, Color(P, r))
       [] OTHER -> SameMesh(partition, Color(P, l), Color(P, r))

\* The set of fused calls that c is in, 0 if none.
FusionSet(sets, c) == SelectInSeq(sets, LAMBDA s : c \in s)

FusedWith(sets, c) == LET k == FusionSet(sets, c) IN IF k = 0 THEN {c} ELSE sets[k]

\* new joins the set of anchor, unless it is in one already.
JoinSet(sets, anchor, new) ==
  LET k == FusionSet(sets, anchor)
      more == IF FusionSet(sets, new) = 0 THEN {new} ELSE {}
  IN  IF k = 0 THEN Append(sets, {anchor} \cup more) ELSE [sets EXCEPT ![k] = @ \cup more]

(***************************************************************************)
(* The search goes on over calls that nothing in the set executes before   *)
(* (forward) or that execute before nothing in it (backward).  Two calls   *)
(* never find the same match forward, since the nearer one is a match of   *)
(* the other: the error for that case cannot occur.                        *)
(***************************************************************************)
MatchForward(P, order, sets, l) ==
  {r \in (l+1)..Len(order) :
     /\ FusionMatch(P, order[l], order[r])
     /\ \A m \in (l+1)..(r-1) :
          /\ ~FusionMatch(P, order[l], order[m])
          /\ \A c \in FusedWith(sets, order[l]) : ~ExecutesBefore(P, c, order[m])}

MatchBackward(P, order, sets, r) ==
  {l \in 1..(r-1) :
     /\ FusionMatch(P, order[l], order[r])
     /\ \A m \in (l+1)..(r-1) :
          /\ ~FusionMatch(P, order[m], order[r])
          /\ \A c \in FusedWith(sets, order[r]) : ~ExecutesBefore(P, order[m], c)}

FusionSets(P, order) ==
  LET Forward(sets, l) ==
        FoldSet(LAMBDA r, acc : JoinSet(acc, order[l], order[r]), sets,
                MatchForward(P, order, sets, l))
      Backward(sets, r) ==
        FoldSet(LAMBDA l, acc : JoinSet(acc, order[l], order[r]), sets,
                MatchBackward(P, order, sets, r))
      positions == [k \in DOMAIN order |-> k]
  IN  FoldLeft(Backward, FoldLeft(Forward, <<>>, positions), positions)

(***************************************************************************)
(* FuseCalls: one task of the instructions of all calls.  An operand that  *)
(* several of them have is one parameter, one that a call of the set       *)
(* produces is replaced by the instruction that computes it.               *)
(***************************************************************************)
FuseCalls(P, comp, calls) ==
  LET outputs  == FlattenSeq([n \in DOMAIN calls |-> TaskOutputs(P, calls[n])])
      produced == ToSet(outputs)
      params   == FlattenSeq([n \in DOMAIN calls |->
                    [k \in DOMAIN P.n[calls[n]].in |->
                       CHOOSE q \in TaskParameters(P, calls[n]) : P.n[q].idx = k]])
      First(q) == SelectInSeq(params, LAMBDA x : TaskOperand(P, x) = TaskOperand(P, q))
      needed   == SelectSeq(params, LAMBDA q : /\ TaskOperand(P, q) \notin produced
                                               /\ params[First(q)] = q)
      Stand(rep, q) ==
        LET o == TaskOperand(P, q)
            r == MatchingRoot(P, o)
        IN  Put(rep, q, IF o \notin produced THEN params[First(q)] ELSE ValueOr(rep, r, r))
      roots    == SelectSeq(outputs, LAMBDA u : \E v \in Users(P, u) : v \notin ToSet(calls))
      Q == NewTask(P, comp, Color(P, Head(calls)),
             [params |-> needed, args |-> [k \in DOMAIN needed |-> TaskOperand(P, needed[k])],
              insts |-> FlattenSeq([n \in DOMAIN calls |-> TaskInstructions(P, calls[n])]),
              rep |-> FoldLeft(Stand, Empty, params),
              roots |-> [k \in DOMAIN roots |-> MatchingRoot(P, roots[k])], recolor |-> {}])
      R == FoldLeft(LAMBDA S, k : ReplaceWithOutput(S, roots[k], FreshId(P), k,
                                    Color(P, roots[k]), P.n[roots[k]].shard),
                    Q, [k \in DOMAIN roots |-> k])
  IN  RemoveNodes(RemoveCalls(R, ToSet(calls)), produced)

\* Visit fuses until nothing matches.  A module that has become cyclic is left to Validate.
RECURSIVE FuseComputation(_, _)
FuseComputation(P, comp) ==
  LET order == SelectSeq(ColorSortedPostorder(P, comp),
                         LAMBDA i : IsCall(P, i) \/ Op(P, i) = "while")
      sets  == FusionSets(P, order)
      Q     == FoldLeft(LAMBDA R, s : FuseCalls(R, comp, SelectSeq(order, LAMBDA i : i \in s)),
                        P, sets)
  IN  IF sets = <<>> \/ ~Acyclic(P) THEN P ELSE FuseComputation(Q, comp)

Fuse ==
  /\ At("fuse_colors") \/ At("fuse_original_colors") \/ At("fuse_devices")
  /\ LET comps == IF At("fuse_devices") THEN Tail(Computations(hlo)) ELSE Computations(hlo)
         Q     == FoldLeft(FuseComputation, hlo, comps)
         skip  == At("fuse_devices") /\ options.bijective
     IN  Finish(IF skip \/ Q = hlo THEN hlo ELSE Dce(Q), partition, TRUE)

-----------------------------------------------------------------------------
(***************************************************************************)
(* MpmdCrossTaskBarrierRemover: the part of a barrier over a tuple that    *)
(* nobody in the task reads goes, the second time also the part that comes *)
(* from the parameters of the task.                                        *)
(***************************************************************************)
DerivedInTask(P, i) ==
  LET derived[j \in DOMAIN P.n] ==
        \/ Op(P, j) \in {"parameter", "constant"}
        \/ Op(P, j) \in {"reshape", "broadcast"} /\ derived[P.n[j].in[1]]
  IN  derived[i]

RemoveBarrier(P, b) ==
  LET tuple == P.n[b].in[1]
      input == P.n[tuple].in
      users == Sorted(Users(P, b))
      Source(u) == input[P.n[u].idx]
      Bypassed(u) == At("remove_parameter_barriers") /\ DerivedInTask(P, Source(u))
      kept  == SelectSeq(users, LAMBDA u : ~Bypassed(u))
      Bypass(Q, u) == RemoveNodes(ReplaceAllUsesWith(Q, u, Source(u)), {u})
      Q     == FoldLeft(Bypass, P, SelectSeq(users, Bypassed))
      t     == FreshId(Q)
      Narrow(R, k) ==
        RemoveNodes(ReplaceAllUsesWith(
          AddNode(R, [P.n[kept[k]] EXCEPT !.in = <<t + 1>>, !.idx = k]), kept[k], FreshId(R)),
          {kept[k]})
      narrowed == FoldLeft(Narrow,
        AddNode(AddNode(Q, [P.n[tuple] EXCEPT !.in = [k \in DOMAIN kept |-> Source(kept[k])]]),
                [P.n[b] EXCEPT !.in = <<t>>]),
        [k \in DOMAIN kept |-> k])
      R == IF Len(kept) = 1 THEN Bypass(Q, kept[1]) ELSE narrowed
      unread == ToSet(input) \ {Source(u) : u \in ToSet(users)}
  IN  IF Len(kept) = Len(input) THEN Q
      ELSE FoldLeft(LAMBDA S, o : IF o \in DOMAIN S.n THEN RemoveBackToParameters(S, o) ELSE S,
                    RemoveNodes(R, {b, tuple}), Sorted(unread))

RemoveBarriers ==
  /\ At("remove_barriers") \/ At("remove_parameter_barriers")
  /\ LET barriers == {i \in DOMAIN hlo.n :
                        /\ Op(hlo, i) = "barrier" /\ IsTupleShaped(hlo, i)
                        /\ hlo.n[i].comp \notin {Entry, Body}}
     IN  Finish(FoldLeft(RemoveBarrier, hlo, Sorted(barriers)), partition, TRUE)

(***************************************************************************)
(* MpmdShardingPropagation, for what the passes after it can tell: the     *)
(* parameters of the tasks may have a sharding over the devices of theirs. *)
(***************************************************************************)
ShardingPropagation ==
  /\ At("sharding_propagation")
  /\ \E calls \in {{}, Calls(hlo)} :
       LET Sharded(P, c) ==
             Update(P, [q \in TaskParameters(P, c) |->
               [P.n[q] EXCEPT !.shard = DevicesForColor(partition, Color(P, c))]])
       IN  Finish(FoldLeft(Sharded, hlo, Sorted(calls)), partition, TRUE)

(***************************************************************************)
(* MpmdUniquifyColors: a color that a task before has got already is       *)
(* numbered.  The colors of calls and of parameters survive.               *)
(***************************************************************************)
UniquifyCall(acc, c) ==
  LET old  == Color(acc.P, c)
      Numbered(n) == [old EXCEPT !.pre = <<n>> \o @]
      free == CHOOSE n \in 0..Cardinality(DOMAIN acc.map) :
                /\ Numbered(n) \notin DOMAIN acc.map
                /\ \A m \in 0..(n-1) : Numbered(m) \in DOMAIN acc.map
      new  == IF old \in DOMAIN acc.map THEN Numbered(free) ELSE old
  IN  [P   |-> IF new = old THEN acc.P
               ELSE AssignAll(acc.P, Ids(acc.P, Task(c)) \cup Users(acc.P, c) \cup {c}, new),
       map |-> Put(acc.map, new, old)]

UniquifyComputation(acc, comp) ==
  LET order  == PostOrder(acc.P, comp)
      new    == FoldLeft(UniquifyCall, acc, SelectSeq(order, LAMBDA i : IsCall(acc.P, i)))
      colors == {Color(acc.P, i) : i \in {j \in ToSet(order) :
                                            Op(acc.P, j) \in {"parameter", "arg"}}}
  IN  [new EXCEPT !.map = @ @@ [c \in colors \ {NoColor} |-> c]]

UniquifyColors ==
  /\ At("uniquify_colors")
  /\ LET new == FoldLeft(UniquifyComputation, [P |-> hlo, map |-> Empty], Computations(hlo))
         p   == Recolor(partition, new.map)
     IN  Finish(new.P, p.p, p.ok)

-----------------------------------------------------------------------------
(***************************************************************************)
(* MpmdInstructionDelayRecolor.  A task output that is read much later, by *)
(* one task on the same devices, is computed there: the instructions it    *)
(* depends on move if nothing else in their task reads them.               *)
(***************************************************************************)
TaskRebuild(P, comp, c, new) ==
  LET outputs == new.outputs
      Q == NewTask(P, comp, Color(P, c),
             [params |-> new.params, args |-> new.args, insts |-> new.insts, rep |-> new.rep,
              roots |-> [k \in DOMAIN outputs |-> MatchingRoot(P, outputs[k])],
              recolor |-> ToSet(new.params) \cup ToSet(new.insts)])
  IN  FoldLeft(LAMBDA R, k : ReplaceWithOutput(R, outputs[k], FreshId(P), k,
                               IF new.colored THEN Color(P, outputs[k]) ELSE NoColor,
                               P.n[outputs[k]].shard),
               Q, [k \in DOMAIN outputs |-> k])

\* MaybeRecolorOutput: the instructions that move with the output u, if any.
MovedTree(P, comp, u) ==
  LET call  == P.n[u].in[1]
      user  == CHOOSE v \in Users(P, u) : TRUE
      order == SelectSeq(PostOrder(P, comp), LAMBDA i : Op(P, i) # "gte")
      depth == TopologicalIndexMap(P, comp)
      Distance == Cardinality({i \in ToSet(order) : depth[call] < depth[i] /\ depth[i] <= depth[user]})
      tree  == Closure(LAMBDA S : UNION {OperandSet(P, i) : i \in S}, {MatchingRoot(P, u)})
  IN  IF /\ Cardinality(Users(P, u)) = 1 /\ IsCall(P, user)
         /\ Distance >= 2
         /\ DevicesForColor(partition, Color(P, call)) = DevicesForColor(partition, Color(P, user))
         /\ \A i \in tree : Cardinality(Users(P, i)) = 1 \/ DerivedInput(P, i)
      THEN tree ELSE {}

MovedTrees(P, comp, calls) ==
  Tabulated([u \in UNION {Users(P, c) : c \in ToSet(calls)} |-> MovedTree(P, comp, u)])

Moved(trees) == {u \in DOMAIN trees : trees[u] # {}}

\* What comes to c from other tasks: the parameters, or the rest.
MovesTo(P, calls, trees, c, isParameter) ==
  FlattenSeq([n \in DOMAIN calls |->
    SelectSeq(PostOrder(P, Task(calls[n])), LAMBDA i :
      /\ \E u \in Moved(trees) : c \in Users(P, u) /\ u \in Users(P, calls[n]) /\ i \in trees[u]
      /\ (Op(P, i) = "parameter") = isParameter)])

\* An instruction that stays in its task: an input, or one that moves nowhere.
Stays(P, trees, c, i) ==
  /\ ~(Op(P, i) = "parameter" /\ TaskOperand(P, i) \in Moved(trees))
  /\ DerivedInput(P, i) \/ \A u \in Users(P, c) \cap Moved(trees) : i \notin trees[u]

DelayedTask(P, Q, calls, trees, c, params) ==
  [params |-> params, args |-> [k \in DOMAIN params |-> TaskOperand(Q, params[k])],
   insts |-> MovesTo(P, calls, trees, c, FALSE)
               \o SelectSeq(TaskInstructions(P, c), LAMBDA i : Stays(P, trees, c, i)),
   rep |-> [q \in {r \in TaskParameters(P, c) : TaskOperand(P, r) \in Moved(trees)} |->
              MatchingRoot(P, TaskOperand(P, q))],
   outputs |-> SelectSeq(TaskOutputs(P, c), LAMBDA u : u \notin Moved(trees)),
   colored |-> FALSE]

RebuildDelayed(P, Q, comp, calls, trees, c) ==
  TaskRebuild(Q, comp, c,
    DelayedTask(P, Q, calls, trees, c,
      MovesTo(P, calls, trees, c, TRUE)
        \o SelectSeq(Sorted(TaskParameters(P, c)), LAMBDA i : Stays(P, trees, c, i))))

\* The tasks that were rebuilt are removed; nothing may read them any more.
RemoveRebuilt(P, Q, calls, dead) ==
  LET ok == \A i \in DOMAIN Q.n \ dead : OperandSet(Q, i) \cap dead = {}
  IN  [P |-> IF ok THEN RemoveNodes(RemoveCalls(Q, calls), dead) ELSE P, ok |-> ok]

MoveTrees(P, comp, calls, trees) ==
  LET rebuilt == SelectSeq(calls, LAMBDA c :
                   \E u \in Moved(trees) : c \in Users(P, u) \/ u \in Users(P, c))
  IN  RemoveRebuilt(P, FoldLeft(LAMBDA Q, c : RebuildDelayed(P, Q, comp, calls, trees, c),
                                P, rebuilt),
                    ToSet(rebuilt), UNION {{c} \cup Users(P, c) : c \in ToSet(rebuilt)})

DelayCalls(P, comp, calls) == MoveTrees(P, comp, calls, MovedTrees(P, comp, calls))

DelayInComputation(P, comp) ==
  DelayCalls(P, comp, SelectSeq(PostOrder(P, comp), LAMBDA i : IsCall(P, i)))

FinishDelay(new) == Finish(IF new.P = hlo THEN hlo ELSE Dce(new.P), partition, new.ok)

DelayRecolor == At("delay_recolor") /\ FinishDelay(OnComputations(hlo, DelayInComputation))

(***************************************************************************)
(* MpmdComputationInliner: the instructions of every task go back to the   *)
(* computation that calls it.  The sharding of a parameter that is used is *)
(* recorded by an instruction in its place.                                *)
(***************************************************************************)
InlineCall(P, c) ==
  LET comp  == P.n[c].comp
      used  == {q \in TaskParameters(P, c) : Users(P, q) # {} /\ HasSharding(P.n[q])}
      Plain(Q, q) == RemoveNodes(ReplaceAllUsesWith(Q, q, TaskOperand(P, q)), {q})
      Q == FoldLeft(Plain,
             Update(P, [q \in used |-> [Node("arg_recolor", <<TaskOperand(P, q)>>, comp) EXCEPT
                                          !.color = Color(P, c), !.shard = P.n[q].shard,
                                          !.size = P.n[q].size]]),
             Sorted(TaskParameters(P, c) \ used))
      R == FoldLeft(LAMBDA S, u : ReplaceAllUsesWith(S, u, MatchingRoot(Q, u)), Q,
                    TaskOutputs(P, c))
      S == Update(R, [i \in ToSet(TaskInstructions(P, c)) |-> [R.n[i] EXCEPT !.comp = comp]])
  IN  RemoveNodes(RemoveCalls(S, {c}), Users(P, c))

Inline ==
  /\ At("inline")
  /\ LET order == FlattenSeq([k \in DOMAIN Computations(hlo) |->
                    PostOrder(hlo, Computations(hlo)[k])])
         calls == SelectSeq(order, LAMBDA i : IsCall(hlo, i))
     IN  Finish(FoldLeft(InlineCall, hlo, calls), partition, TRUE)

-----------------------------------------------------------------------------
(***************************************************************************)
(* MpmdArgumentRecompute: an operand of another color is computed again in *)
(* the color of its user, from the inputs of the module, if that is cheap. *)
(***************************************************************************)
Tiled(node) == node.shard \notin {NoSharding, Replicated}

NumDevices(c) == DevicesForColor(partition, c)[2]

InputOrReplicatedInputCopy(P, i) ==
  \/ Op(P, i) = "parameter"
  \/ ParameterNumber(P, i) # 0
  \/ ~Tiled(P.n[i]) /\ Op(P, i) = "copy" /\ ParameterNumber(P, P.n[i].in[1]) # 0

RecomputeCost(P, i) ==
  CASE Op(P, i) \in {"slice_offset", "constant", "broadcast", "reshape", "arg_recolor",
                     "sharding"} \/ IsTupleShaped(P, i) -> 0
    [] Op(P, i) = "reduce" -> P.n[P.n[i].in[1]].size
    [] OTHER -> P.n[i].size

CostCutoff(P, i, o) ==
  LET size  == P.n[i].size
      cross == IF /\ size > LargeBufferSize /\ IsAssignedColor(P, o)
                  /\ DevicesForColor(partition, Color(P, o)) # DevicesForColor(partition, Color(P, i))
               THEN size * CrossMeshRatio ELSE 0
  IN  Max({size * MemoryRatio, cross, options.cost})

\* An input of the module, or what is cloned already, costs nothing.
NeedsClone(P, clones, j) == j \notin DOMAIN clones /\ ~InputOrReplicatedInputCopy(P, j)

RecomputedIn(P, i, o, tree) ==
  IF /\ \A j \in tree :
          /\ Op(P, j) \notin {"dot", "dummy", "recolor", "while", "arg", "call"}
          /\ Tiled(P.n[j]) /\ Tiled(P.n[i]) => P.n[j].shard[2] = P.n[i].shard[2]
     /\ MapThenSumSet(LAMBDA j : RecomputeCost(P, j), tree) <= CostCutoff(P, i, o)
  THEN {j \in tree : Op(P, j) # "slice_offset"} ELSE {}

\* The operands computed again, when none of them forbids it; clones are those there are.
RecomputeTree(P, clones, i, o) ==
  LET More(S) == UNION {OperandSet(P, x) : x \in {y \in S : Op(P, y) # "slice_offset"}}
      NeededOf(S) == {j \in S : NeedsClone(P, clones, j)}
  IN  IF NeedsClone(P, clones, o)
      THEN RecomputedIn(P, i, o, Closure(LAMBDA S : NeededOf(More(S)), {o})) ELSE {}

CloneTree(acc, comp, i, tree) ==
  LET color == Color(acc.P, i)
      Clone(a, j) ==
        LET node == a.P.n[j]
            new  == [node EXCEPT !.color = color,
                       !.in = [k \in DOMAIN @ |-> ValueOr(a.clones, @[k], @[k])],
                       !.shard = IF Tiled(node) /\ @[2] # NumDevices(color)
                                 THEN NoSharding ELSE @]
        IN  [P |-> AddNode(a.P, new), clones |-> Put(a.clones, j, FreshId(a.P))]
  IN  FoldLeft(Clone, acc, SelectSeq(PostOrder(acc.P, comp), LAMBDA j : j \in tree))

\* The first occurrence of the operand is replaced.
UseClone(P, i, o, clone) ==
  ReplaceOperandWith(P, i, SelectInSeq(P.n[i].in, LAMBDA x : x = o), clone)

SkipArgRecolor(P, i) ==
  IF Op(P, i) = "arg_recolor" THEN ReplaceAllUsesWith(P, i, P.n[i].in[1]) ELSE P

RecomputeWith(acc, i, o, new) ==
  [P |-> SkipArgRecolor(UseClone(new.P, i, o, new.clones[o]), i),
   clones |-> Put(acc.clones, Color(acc.P, i), new.clones)]

CloneAndUse(acc, comp, i, o, mine, tree) ==
  IF tree = {} THEN acc
  ELSE RecomputeWith(acc, i, o, CloneTree([P |-> acc.P, clones |-> mine], comp, i, tree))

\* One operand: clones maps a color to the clones it has, mine are those of this color.
RecomputeOperand(acc, comp, i, o, mine) ==
  IF ~IsAssignedColor(acc.P, o) \/ Color(acc.P, o) = Color(acc.P, i) \/ Op(acc.P, o) = "slice_offset"
  THEN acc
  ELSE CloneAndUse(acc, comp, i, o, mine, RecomputeTree(acc.P, mine, i, o))

RemoveReplaced(P, Q, comp) == IF Q = P THEN P ELSE RemoveUnusedInstructions(Q, comp)

RecomputeInComputation(P, comp) ==
  LET Visit(acc, i) ==
        IF Op(P, i) \in {"tuple", "while"} \/ DerivedInput(acc.P, i) \/ ~IsAssignedColor(P, i)
        THEN acc
        ELSE FoldLeft(LAMBDA a, k : RecomputeOperand(a, comp, i, a.P.n[i].in[k],
                                      ValueOr(a.clones, Color(a.P, i), Empty)),
                      acc, [k \in DOMAIN P.n[i].in |-> k])
  IN  RemoveReplaced(P, FoldLeft(Visit, [P |-> P, clones |-> Empty], PostOrder(P, comp)).P, comp)

ArgumentRecompute ==
  /\ At("argument_recompute")
  /\ Finish(IF options.recompute THEN FoldLeft(RecomputeInComputation, hlo, Computations(hlo))
            ELSE hlo, partition, TRUE)

(***************************************************************************)
(* MpmdCutSizeMinimizer: an instruction read in one other color only goes  *)
(* there if the chain it ends starts with one larger than its operands.    *)
(***************************************************************************)
EquivalentMesh(c, d) == NumDevices(c) = NumDevices(d)

\* The last of GetSingleUserUnaryTree.
UnaryTreeEnd(P, i) ==
  LET end[j \in DOMAIN P.n] ==
        IF Op(P, j) \in {"reshape", "elementwise"} /\ Cardinality(Users(P, j)) <= 1
        THEN end[P.n[j].in[1]] ELSE j
  IN  end[i]

IsLargerThanOperands(P, i) ==
  P.n[i].size > FoldLeft(LAMBDA sum, o : sum + P.n[o].size, 0, P.n[i].in)

\* The colors of the users, when they are one that i has not.
SingleUserDifferentColor(P, i) ==
  LET colors == {Color(P, u) : u \in Users(P, i)} \ {NoColor}
  IN  IF Cardinality(colors) = 1 THEN colors \ {Color(P, i)} ELSE {}

MinimizeCut(acc, i) ==
  LET P      == acc.P
      others == SingleUserDifferentColor(P, i)
      user   == CHOOSE c \in others : TRUE
      known  == HasColor(partition, user) /\ HasColor(partition, Color(P, i))
  IN  IF \/ ~acc.ok \/ others = {} \/ ~IsAssignedColor(P, i)
         \/ Op(P, i) \in {"gte", "copy", "while", "parameter", "arg", "arg_recolor", "sharding",
                          "slice_offset", "dummy", "recolor"}
         \/ i \in {P.root[comp] : comp \in DOMAIN P.root}
      THEN acc
      ELSE IF ~known THEN [acc EXCEPT !.ok = FALSE]
      ELSE IF EquivalentMesh(user, Color(P, i)) /\ IsLargerThanOperands(P, UnaryTreeEnd(P, i))
      THEN [acc EXCEPT !.P = AssignColor(P, i, user)] ELSE acc

MinimizeInComputation(P, comp) ==
  FoldLeft(MinimizeCut, [P |-> P, ok |-> TRUE], Reverse(PostOrder(P, comp)))

CutSizeMinimizer ==
  /\ At("cut_size")
  /\ LET new == OnComputations(hlo, MinimizeInComputation)
     IN  IF options.minimize THEN Finish(new.P, partition, new.ok)
         ELSE Finish(hlo, partition, TRUE)

-----------------------------------------------------------------------------
(***************************************************************************)
(* MpmdUnusedParamOutputRemover: outputs nobody reads, outputs that are a  *)
(* parameter, and parameters that are at most an output are dropped.       *)
(***************************************************************************)
RemoveUnusedOfCall(P, c) ==
  LET outputs == TaskOutputs(P, c)
      Alias(u) == Op(P, MatchingRoot(P, u)) = "parameter"
      kept    == SelectSeq(outputs, LAMBDA u : ~Alias(u) /\ Users(P, u) # {})
      unused  == {q \in TaskParameters(P, c) : Users(P, q) \subseteq {P.root[Task(c)]}}
      params  == Sorted(TaskParameters(P, c) \ unused)
      Q == TaskRebuild(P, P.n[c].comp, c,
             [params |-> params, args |-> [k \in DOMAIN params |-> TaskOperand(P, params[k])],
              insts |-> TaskInstructions(P, c), rep |-> Empty, outputs |-> kept,
              colored |-> TRUE])
      R == FoldLeft(LAMBDA S, u : ReplaceAllUsesWith(S, u, TaskOperand(P, MatchingRoot(P, u))),
                    Q, SelectSeq(outputs, Alias))
  IN  IF kept = outputs /\ unused = {} THEN P
      ELSE RemoveNodes(RemoveCalls(R, {c}), ToSet(outputs))

UnusedParamOutputRemover ==
  /\ At("unused_param_output")
  /\ LET Visit(P, comp) ==
           FoldLeft(RemoveUnusedOfCall, P,
                    SelectSeq(Reverse(PostOrder(P, comp)), LAMBDA i : IsCall(P, i)))
     IN  Finish(FoldLeft(Visit, hlo, Computations(hlo)), partition, TRUE)

(***************************************************************************)
(* MpmdSplitCriticalPath: a task of the loop that is configured for it is  *)
(* split in two, what one output depends on and the rest.  The output is   *)
(* one whose next call comes first; which user FirstCallDepth meets first  *)
(* is not determined.                                                      *)
(***************************************************************************)
FirstCallDepths(P, depth, u) ==
  {depth[v] : v \in {x \in Users(P, u) : IsCall(P, x) \/ x = P.root[Body]}}

CriticalRootTupleIndices(P, depth, c) ==
  LET D(u) == FirstCallDepths(P, depth, u)
  IN  {P.n[u].idx : u \in {x \in Users(P, c) :
         \A v \in Users(P, c) \ {x} :
           \/ Min(D(x)) < Max(D(v))
           \/ Min(D(x)) = Max(D(v)) /\ P.n[x].idx < P.n[v].idx}}

\* One half as a task of a color of its own; stands maps an instruction to the output of
\* the new calls that stands for it.
SplitTask(acc, c, insts, params, roots, new) ==
  LET P == acc.P
      AddOutput(a, k) ==
        [a EXCEPT !.P = AddNode(@, [Node("gte", <<FreshId(P)>>, P.n[c].comp) EXCEPT !.idx = k,
                          !.color = new.color, !.shard = P.n[roots[k]].shard,
                          !.size = P.n[roots[k]].size]),
                  !.stands = Put(@, roots[k], FreshId(a.P))]
      task == [params |-> params,
               args |-> [k \in DOMAIN params |->
                           IF Op(P, params[k]) = "parameter" THEN TaskOperand(P, params[k])
                           ELSE acc.stands[params[k]]],
               insts |-> insts, rep |-> Empty, roots |-> roots,
               recolor |-> ToSet(insts) \cup ToSet(params)]
  IN  IF ~new.ok THEN [acc EXCEPT !.ok = FALSE]
      ELSE FoldLeft(AddOutput,
                    [acc EXCEPT !.P = NewTask(P, P.n[c].comp, new.color, task), !.p = new.p],
                    [k \in DOMAIN roots |-> k])

\* suffix tells the new colors apart.
SplitPart(acc, c, insts, suffix) ==
  IF ~acc.ok THEN acc
  ELSE SplitTask(acc, c, insts, OperandsOf(acc.P, insts),
                 SelectSeq(insts, LAMBDA i : ~(Users(acc.P, i) \subseteq ToSet(insts))),
                 CloneColor(acc.p, Color(acc.P, c),
                            [Color(acc.P, c) EXCEPT !.suf = Append(@, suffix)]))

\* The outputs of the new calls take the place of those of c.
ReplaceSplit(P, p, c, both) ==
  LET Replace(R, u) ==
        LET new == both.stands[MatchingRoot(P, u)]
        IN  ReplaceAllUsesWith([R EXCEPT !.n[new].shard = P.n[u].shard], u, new)
      noncritical == [Color(P, c) EXCEPT !.suf = Append(@, -2)]
  IN  IF ~both.ok THEN [P |-> P, p |-> p, ok |-> FALSE]
      ELSE [P |-> RemoveNodes(RemoveCalls(FoldLeft(Replace, both.P, TaskOutputs(P, c)), {c}),
                              Users(P, c)),
            p |-> [both.p EXCEPT !.colors[noncritical].noncritical = TRUE], ok |-> TRUE]

SplitInstructions(P, p, c, insts, critical) ==
  ReplaceSplit(P, p, c,
    SplitPart(SplitPart([P |-> P, p |-> p, ok |-> TRUE, stands |-> Empty], c,
                        SelectSeq(insts, LAMBDA i : i \in critical), -1),
              c, SelectSeq(insts, LAMBDA i : i \notin critical), -2))

SplitComputation(P, p, c, root) ==
  SplitInstructions(P, p, c, TaskInstructions(P, c),
    Closure(LAMBDA S : UNION {OperandSet(P, i) : i \in S}, {TaskRoots(P, c)[root]}))

SplitComputations(split, roots) ==
  FoldLeft(LAMBDA acc, n : IF acc.ok THEN SplitComputation(acc.P, acc.p, split[n], roots[n]) ELSE acc,
           [P |-> hlo, p |-> partition, ok |-> TRUE], [n \in DOMAIN split |-> n])

FinishSplit(new) == Finish(new.P, new.p, new.ok)

\* The index of an output of a task is taken for an index of the root of the loop.
SplitTasks(split, outputs, depth) ==
  IF \E k \in outputs : k > Len(Root(hlo, Body).in) THEN Finish(hlo, partition, FALSE)
  ELSE \E roots \in [DOMAIN split -> outputs] :
         /\ \A n \in DOMAIN split :
              roots[n] \in CriticalRootTupleIndices(hlo, depth, split[n])
         /\ FinishSplit(SplitComputations(split, roots))

SplitCriticalPath ==
  /\ At("split_critical_path")
  /\ LET split == IF HasLoop(hlo)
                  THEN SelectSeq(PostOrder(hlo, Body), LAMBDA i :
                         IsCall(hlo, i) /\ Color(hlo, i).base \in options.split)
                  ELSE <<>>
     IN  SplitTasks(split, UNION {{hlo.n[u].idx : u \in Users(hlo, c)} : c \in ToSet(split)},
                    DepthMap(hlo, Body))

-----------------------------------------------------------------------------
Stop == (Failed \/ Done) /\ UNCHANGED vars

Next ==
  \/ Validate \/ HloDce \/ Group \/ Fuse \/ RemoveBarriers \/ ShardingPropagation
  \/ UniquifyColors \/ DelayRecolor \/ Inline \/ ArgumentRecompute \/ CutSizeMinimizer
  \/ UnusedParamOutputRemover \/ SplitCriticalPath
  \/ Stop

Spec == Init /\ [][Next]_vars

-----------------------------------------------------------------------------
(***************************************************************************)
(* Properties.                                                             *)
(***************************************************************************)

\* The module stays well formed whatever the passes that build and erase calls do: every
\* call has its task and every task its call, and an operand is in the computation of its user.
TypeOK ==
  /\ step \in 0..(Len(Pipeline) + 1)
  /\ DOMAIN hlo.root = {Entry} \cup (IF HasLoop(hlo) THEN {Body} ELSE {})
                         \cup {Task(c) : c \in Calls(hlo)}
  /\ \A i \in DOMAIN hlo.n :
       /\ hlo.n[i].comp \in DOMAIN hlo.root
       /\ OperandSet(hlo, i) \subseteq Ids(hlo, hlo.n[i].comp)

\* Grouping, fusing, moving, recomputing and splitting never change what the module
\* computes: after every pass each output is the same term of the parameters.
OutputsPreserved == Acyclic(hlo) => Outputs(hlo) = Outputs(source.hlo)

\* A fusion that makes the module cyclic is stopped by the ValidateCircularDependencies
\* after it, before a pass that would loop over the cycle.
CyclesAreCaught ==
  ~Acyclic(hlo) => Failed \/ At("validate") \/ At("fuse_devices")

\* A task of the loop that is to be split has an output with an index that the root tuple of
\* the loop does not have.
SplitIndexOutOfRange(P) ==
  HasLoop(P) /\ \E c \in Calls(P) \cap Ids(P, Body) :
    /\ Color(P, c).base \in options.split
    /\ \E u \in Users(P, c) : P.n[u].idx > Len(Root(P, Body).in)

\* The internal errors of the passes (an output no builder produces, an operand that is no
\* root, a color that is gone or exists already) never happen.  A compilation ends in an error
\* only when ValidateCircularDependencies meets a cycle, or when CriticalRootTupleIndex
\* compares the index of a task output with the root of the loop and finds it out of bounds.
FailsOnlyOnCycleOrSplitIndex ==
  [][Failed' /\ ~Failed => \/ At("validate") /\ ~Acyclic(hlo)
                           \/ At("split_critical_path") /\ SplitIndexOutOfRange(hlo)]_vars

\* The call that an instruction of a task belongs to, and the devices it is computed on.
TaskOf(P, i) == P.n[i].comp[2]

ComputedOn(i) == DevicesForColor(partition, Color(hlo, TaskOf(hlo, i)))

\* The instructions that read i in a task, its own or one that has i as an argument.
Readers(i) ==
  LET outputs == {u \in Users(hlo, TaskOf(hlo, i)) : MatchingRoot(hlo, u) = i}
      params  == {q \in DOMAIN hlo.n : /\ Op(hlo, q) = "parameter" /\ hlo.n[q].comp # Entry
                                       /\ TaskOperand(hlo, q) \in outputs}
  IN  {v \in UNION {Users(hlo, j) : j \in params \cup {i}} : Op(hlo, v) # "tuple"}

\* Recolored outputs that are i, with the devices they are wanted on.
WantedOn(i) ==
  {DevicesForColor(source.partition, Color(hlo, v)) :
     v \in {w \in DOMAIN hlo.n : /\ Op(hlo, w) = "recolor"
                                 /\ LET u == hlo.n[w].in[1]
                                    IN  /\ Op(hlo, u) = "gte" /\ IsCall(hlo, hlo.n[u].in[1])
                                        /\ MatchingRoot(hlo, u) = i}}

\* A matrix product is computed at most once and in a task.  It is on the devices its color
\* stood for before the passes renamed, moved, cloned and split tasks, unless it is larger
\* than its operands: MpmdCutSizeMinimizer may have taken such a product to the devices,
\* as many, on which all who read it are.
WorkIsDoneOnce ==
  Done => \A i \in {j \in DOMAIN source.hlo.n : Op(source.hlo, j) = "dot"} :
            LET same == {j \in DOMAIN hlo.n : hlo.n[j].name = source.hlo.n[i].name}
                devices == DevicesForColor(source.partition, Color(source.hlo, i))
            IN  /\ Cardinality(same) <= 1
                /\ \A j \in same :
                     /\ hlo.n[j].comp \notin {Entry, Body}
                     /\ \/ ComputedOn(j) = devices
                        \/ /\ IsLargerThanOperands(source.hlo, i)
                           /\ ComputedOn(j)[2] = devices[2]
                           /\ {ComputedOn(v) : v \in Readers(j)} \cup WantedOn(j) = {ComputedOn(j)}

\* The scheduler gets calls, loops and plumbing only: no instruction that computes is left
\* outside a task, so none is dropped from the schedule.
EverythingIsInATask ==
  Done => \A comp \in ToSet(Computations(hlo)) : \A i \in Ids(hlo, comp) :
            Op(hlo, i) \in {"parameter", "arg", "call", "gte", "tuple", "while", "recolor",
                            "slice_offset", "dummy"}

\* Every output of a task has exactly one get-tuple-element: AddHloModuleTask indexes the
\* users of a call by output and dereferences the entry of each.
EveryOutputIsRead ==
  Done => \A c \in Calls(hlo) : \A k \in DOMAIN TaskRoots(hlo, c) :
            Cardinality({u \in Users(hlo, c) : hlo.n[u].idx = k}) = 1

\* What the safety argument of the fusion search claims: fusing never makes a cycle.
FusionKeepsOrder == Acyclic(hlo)
=============================================================================
