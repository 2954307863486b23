------------------------------ MODULE Coloring ------------------------------
(***************************************************************************)
(* The first part of the pipeline of mpmd_partition.cc: the passes that    *)
(* work on the flat module and give every instruction a color, from the    *)
(* first output copies to the replication of parameters.  One action is    *)
(* one pass; MpmdColoring is one action per phase of its Run.              *)
(***************************************************************************)
EXTENDS HloSemantics

CONSTANTS
  Programs,         \* the modules that may be compiled
  ContextStacks,    \* the stacks of named task contexts at the time of the call
  Options,          \* the environment options and the configuration
  MinInstructionsToVisit,   \* kMinInstructionsToVisit
  MaxInstructionsInTree     \* kMaxInstructionsInTree

VARIABLES
  hlo,        \* the module
  partition,  \* the HloPartition
  contexts,   \* NamedTaskContexts()
  options,    \* the options of this compilation
  pass,       \* the pass to run next, "done", or "error"
  source      \* the module as it was given

vars == <<hlo, partition, contexts, options, pass, source>>

Init ==
  /\ source \in Programs
  /\ hlo = source
  /\ partition = EmptyPartition
  /\ contexts \in ContextStacks
  /\ options \in Options
  /\ pass = "constant_output_copy_1"

\* The order in which MpmdPartition adds the passes.
Pipeline ==
  << "constant_output_copy_1", "repeated_output_copy", "loop_canonicalizer",
     "canonicalize_slices", "loop_increment", "inline_explicit_tasks",
     "root_tuple_shardings", "assigned_colors", "unpack_barrier", "loop_depth",
     "elementwise", "nontrivial", "everything", "color_roots", "repack_barrier",
     "constant_output_copy_2", "unused_loop_output", "concatenate_grouper",
     "logical_sharding", "parameter_replication", "done" >>

NextPass(p) == Pipeline[1 + SelectInSeq(Pipeline, LAMBDA q : q = p)]

\* A pass that returns a status other than ok ends the compilation.
Finish(P, p, ok) ==
  /\ pass' = IF ok THEN NextPass(pass) ELSE "error"
  /\ hlo' = P
  /\ partition' = p
  /\ UNCHANGED <<contexts, options, source>>

-----------------------------------------------------------------------------
(***************************************************************************)
(* MpmdConstantOutputCopy and MpmdRepeatedOutputCopy.                      *)
(***************************************************************************)
RootIndices(P, i) == {k \in DOMAIN Root(P, Entry).in : Root(P, Entry).in[k] = i}

CopyOf(P, i) == [Node("copy", <<i>>, P.n[i].comp) EXCEPT !.size = P.n[i].size]

\* Mutant: the root tuple does not read the copy.
CopyBesideRoot(P, i) == AddNode(P, [CopyOf(P, i) EXCEPT !.color = Color(P, i)])

CopyToRoot(P, i) ==
  LET copy == [CopyOf(P, i) EXCEPT
                 !.color = Color(P, i),
                 !.shard = IF Op(P, i) = "parameter" THEN P.n[i].shard ELSE NoSharding]
  IN  [AddNode(P, copy) EXCEPT !.n[P.root[Entry]].in =
         [k \in DOMAIN @ |-> IF @[k] = i THEN FreshId(P) ELSE @[k]]]

ConstantOutputCopy ==
  /\ pass \in {"constant_output_copy_1", "constant_output_copy_2"}
  /\ LET Step(P, i) == IF DerivedInput(hlo, i) /\ RootIndices(hlo, i) # {}
                       THEN CopyToRoot(P, i) ELSE P
     IN  Finish(FoldLeft(Step, hlo, PostOrder(hlo, Entry)), partition, TRUE)

RepeatedOutputCopy ==
  /\ pass = "repeated_output_copy"
  /\ LET repeats == {k \in DOMAIN Root(hlo, Entry).in :
                       k # Min(RootIndices(hlo, Root(hlo, Entry).in[k]))}
         Step(P, k) ==
           ReplaceOperandWith(AddNode(P, CopyOf(P, Root(P, Entry).in[k])),
                              P.root[Entry], k, FreshId(P))
     IN  Finish(FoldLeft(Step, hlo, Sorted(repeats)), partition, TRUE)

-----------------------------------------------------------------------------
(***************************************************************************)
(* MpmdMicrobatchLoopCanonicalizer.  A MicrobatchInit marks an input of    *)
(* the loop, through reshapes and custom calls with one user; it becomes a *)
(* copy that carries the configuration.  A loop with a marked input takes  *)
(* its configuration, and its constant inputs are copied.                  *)
(***************************************************************************)
CustomCalls == {"sharding", "task", "microbatch", "microbatch_init", "autosharding"}

Forwards(P, i) == Op(P, i) \in {"reshape", "broadcast"} \cup CustomCalls

LoopInputOperand(P, i) ==
  LET last[j \in DOMAIN P.n] ==
        IF Cardinality(Users(P, j)) # 1 THEN 0
        ELSE LET u == CHOOSE u \in Users(P, j) : TRUE
             IN  IF Forwards(P, u) THEN last[u] ELSE j
  IN  last[i]

\* Mutant: the marker is removed, its uses are not replaced.
DropMicrobatchInit(P, i) == RemoveNodes(P, {i})

ReplaceMicrobatchInit(P, i) ==
  LET operand == LoopInputOperand(P, i)
      copy    == FreshId(P)
      Q       == AddNode(P, [Node("copy", <<P.n[operand].in[1]>>, Entry) EXCEPT
                   !.cfg = P.n[i].cfg, !.color = P.n[i].color,
                   !.size = P.n[operand].size])
  IN  RemoveNodes(ReplaceAllUsesWith(ReplaceAllUsesWith(Q, operand, copy),
                                     i, P.n[i].in[1]), {i})

CopyLoopConstants(P) ==
  LET tuple    == P.n[CHOOSE w \in WhileLoops(P) : TRUE].in[1]
      Step(Q, k) ==
        LET i == Q.n[tuple].in[k]
            R == ReplaceOperandWith(AddNode(Q, CopyOf(Q, i)), tuple, k, FreshId(Q))
        IN  IF Op(Q, i) # "constant" THEN Q
            ELSE IF Users(R, i) = {} THEN RemoveNodes(R, {i}) ELSE R
  IN  FoldLeft(Step, P, [k \in DOMAIN P.n[tuple].in |-> k])

ConfigureLoop(P) ==
  LET w      == CHOOSE w \in WhileLoops(P) : TRUE
      marked == {k \in DOMAIN InitTuple(P).in : P.n[InitTuple(P).in[k]].cfg # 0}
      cfg    == IF marked = {} THEN P.n[w].cfg
                ELSE P.n[InitTuple(P).in[Min(marked)]].cfg
  IN  IF cfg = 0 THEN P ELSE CopyLoopConstants([P EXCEPT !.n[w].cfg = cfg])

LoopCanonicalizer ==
  /\ pass = "loop_canonicalizer"
  /\ LET inits == {i \in Ids(hlo, Entry) : Op(hlo, i) = "microbatch_init"}
         ok    == \A i \in inits : LoopInputOperand(hlo, i) # 0
         Q     == FoldLeft(ReplaceMicrobatchInit, hlo, Sorted(inits))
     IN  IF ~ok THEN Finish(hlo, partition, FALSE)
         ELSE Finish(IF HasLoop(Q) THEN ConfigureLoop(Q) ELSE Q, partition, TRUE)

(***************************************************************************)
(* CanonicalizeSlices.  A Microbatch marker, which has one user, goes away.*)
(* The offset of the dynamic slice under a                                 *)
(* MicrobatchSlice becomes the one SliceOffset of the body, which          *)
(* replaces every use of the instruction the first slice had as offset.    *)
(***************************************************************************)
SliceOf(P, m) ==
  LET o == P.n[m].in[1] IN IF Op(P, o) \in {"sharding", "autosharding"} THEN P.n[o].in[1] ELSE o

SliceOffsets(P) == {i \in Ids(P, Body) : Op(P, i) = "slice_offset"}

CanonicalizeSlice(P, m) ==
  LET Q      == IF SliceOffsets(P) # {} THEN P
                ELSE AddNode(P, Node("slice_offset", <<>>, Body))
      offset == P.n[SliceOf(P, m)].in[2]
      R      == ReplaceAllUsesWith(Q, offset, CHOOSE s \in SliceOffsets(Q) : TRUE)
      S      == IF offset \in SliceOffsets(Q) THEN R ELSE RemoveBackToParameters(R, offset)
  IN  RemoveNodes(ReplaceAllUsesWith(S, m, P.n[m].in[1]), {m})

ConfiguredLoop(P) == HasLoop(P) /\ \E w \in WhileLoops(P) : P.n[w].cfg # 0

CanonicalizeSlices ==
  /\ pass = "canonicalize_slices"
  /\ LET markers == {i \in Ids(hlo, Entry) : Op(hlo, i) = "microbatch"}
         slices  == {i \in Ids(hlo, Body) :
                       Op(hlo, i) = "microbatch_slice" /\ ConfiguredLoop(hlo)}
         ok == /\ \A i \in markers : Cardinality(Users(hlo, i)) = 1
               /\ \A i \in slices : Op(hlo, SliceOf(hlo, i)) = "dynamic_slice"
         Unmark(P, i) == RemoveNodes(ReplaceAllUsesWith(P, i, P.n[i].in[1]), {i})
         Q == FoldLeft(Unmark, hlo, Sorted(markers))
     IN  IF ok THEN Finish(FoldLeft(CanonicalizeSlice, Q, Sorted(slices)),
                           partition, TRUE)
         ELSE Finish(hlo, partition, FALSE)

-----------------------------------------------------------------------------
(***************************************************************************)
(* MpmdSimpleLoopIncrementColoring.  The operands of a loop output back to *)
(* the argument tuple form its tree; an instruction reached on two paths   *)
(* counts twice.  A small tree without calls is an increment.              *)
(***************************************************************************)
TreeOperands(P, i) ==
  SelectSeq(Operands(P, i), LAMBDA o : Op(P, o) \notin {"arg", "constant"})

IncrementTreeSize(P, i) ==
  LET size[j \in DOMAIN P.n] ==
        1 + FoldLeft(LAMBDA n, o : n + size[o], 0, TreeOperands(P, j))
  IN  size[i]

IncrementTree(P, i) ==
  LET tree[j \in DOMAIN P.n] ==
        {j} \cup UNION {tree[o] : o \in ToSet(TreeOperands(P, j))}
      hasCall == \E j \in tree[i] \ {i} : Op(P, j) = "task"
  IN  IF hasCall \/ IncrementTreeSize(P, i) > MaxInstructionsInTree THEN {} ELSE tree[i]

SimpleLoopIncrementColoring ==
  /\ pass = "loop_increment"
  /\ LET outputs == {i \in ToSet(Root(hlo, Body).in) :
                       ~(Op(hlo, i) = "gte" /\ Op(hlo, hlo.n[i].in[1]) = "arg")}
         trees   == UNION {IncrementTree(hlo, i) : i \in outputs}
         new     == AllocateLoopIncrementColor(partition)
     IN  IF /\ options.loop_increment /\ HasLoop(hlo)
            /\ Cardinality(DOMAIN hlo.n) >= MinInstructionsToVisit
            /\ trees # {}
         THEN Finish(AssignAll(hlo, trees, new.color), new.p, TRUE)
         ELSE Finish(hlo, partition, TRUE)

-----------------------------------------------------------------------------
(***************************************************************************)
(* MpmdInlineExplicitTasks.  The computation a MultiMeshTask calls is one  *)
(* instruction here.  Inlining puts it in the caller with the color of the *)
(* task; the custom call stays behind without users.                       *)
(***************************************************************************)
InlineTask(acc, i) ==
  LET node    == acc.P.n[i]
      task    == TaskOptions["MultiMeshTask", node.meta.name, FALSE]
      devices == IF task.devices = <<>> THEN Devices ELSE CreateDeviceList(task.devices)
      new     == AllocateColor(acc.p, task.name, ColorConfig(devices, FALSE))
      inlined == [node EXCEPT !.op = "compute", !.color = new.color, !.meta = NoMetadata]
      Q       == ReplaceAllUsesWith(AddNode(acc.P, inlined), i, FreshId(acc.P))
  IN  IF node.op # "task" THEN acc
      ELSE IF devices = NoDevices THEN [acc EXCEPT !.ok = FALSE]
      ELSE [acc EXCEPT !.P = AssignColor(Q, i, new.color), !.p = new.p]

InlineExplicitTasks ==
  /\ pass = "inline_explicit_tasks"
  /\ LET new == FoldLeft(InlineTask, [P |-> hlo, p |-> partition, ok |-> TRUE],
                         RecursivePostOrder(hlo))
     IN  Finish(new.P, new.p, new.ok)

(***************************************************************************)
(* MpmdInsertRootTupleShardings.                                           *)
(***************************************************************************)
InsertRootSharding(acc, k) ==
  LET P        == acc.P
      sharding == P.rootShard[k]
      operand  == Root(P, Entry).in[k]
      Q        == IF sharding # Replicated /\ ~HasSharding(P.n[operand])
                  THEN [P EXCEPT !.n[operand].shard = sharding] ELSE P
      new      == IF sharding = Replicated THEN FindOrAllocateGlobalColor(acc.p)
                  ELSE FindOrAllocateDefaultColor(acc.p, sharding)
      recolor  == [Node("recolor", <<operand>>, Entry) EXCEPT
                     !.shard = sharding, !.color = new.color, !.size = P.n[operand].size]
  IN  IF AllowOverride(k, P.allowOut) THEN [acc EXCEPT !.P = Q]
      ELSE [P |-> ReplaceOperandWith(AddNode(Q, recolor), P.root[Entry], k, FreshId(Q)),
            p |-> new.p]

InsertRootTupleShardings ==
  /\ pass = "root_tuple_shardings"
  /\ LET new == FoldLeft(InsertRootSharding, [P |-> hlo, p |-> partition],
                         [k \in DOMAIN hlo.rootShard |-> k])
     IN  Finish(new.P, new.p, TRUE)

-----------------------------------------------------------------------------
(***************************************************************************)
(* MpmdComputeAssignedColors: the colors the user asked for, by the name   *)
(* of a scope or else by a sharding.  acc is [P, p, ok].                   *)
(***************************************************************************)
ShardingNamesColor(P, i) ==
  /\ HasSharding(P.n[i])
  /\ P.n[i].shard = Replicated =>
       /\ ParameterNumber(P, i) # 0
       /\ ~AllowOverride(ParameterNumber(P, i), P.allowParam)

ExplicitShardingColor(p, P, i) ==
  LET devices == IF P.n[i].shard = Replicated THEN Devices ELSE P.n[i].shard
  IN  IF ~ShardingNamesColor(P, i) THEN Ok(p, NoColor)
      ELSE IF FindColor(p, devices) # NoColor THEN Ok(p, FindColor(p, devices))
      ELSE AllocateColor(p, Named("sharding"), ColorConfig(devices, FALSE))

\* The sharding of an instruction must be over as many devices as its color has.
ShardingFits(p, P, i, c) ==
  P.n[i].shard \notin {NoSharding, Replicated}
    => P.n[i].shard[2] = DevicesForColor(p, c)[2]

ComputeAssignedColor(acc, i) ==
  LET P      == acc.P
      own    == Color(P, i)
      named  == IF own # NoColor THEN Ok(acc.p, own)
                ELSE ComputeMetadataNameColor(acc.p, contexts, P.n[i].meta)
      result == IF named.color # NoColor \/ ~named.ok THEN named
                ELSE ExplicitShardingColor(named.p, P, i)
      c      == result.color
      fits   == named.color = NoColor \/ ShardingFits(named.p, P, i, c)
  IN  CASE ~acc.ok \/ i = P.root[P.n[i].comp]  -> acc
        [] own = NoColor /\ Op(P, i) = "tuple" -> [acc EXCEPT !.P = ColorTuple(P, i)]
        [] ~result.ok                          -> [acc EXCEPT !.ok = FALSE]
        [] result.ok /\ (own # NoColor => HasColor(acc.p, own)) /\ fits ->
             [acc EXCEPT !.p = result.p,
                !.P = IF c = NoColor THEN P
                      ELSE AssignUnassigned(AssignColor(P, i, c), Aliases(P, i), c)]
        [] OTHER                               -> [acc EXCEPT !.ok = FALSE]

ComputeAssignedColors ==
  /\ pass = "assigned_colors"
  /\ LET new == FoldLeft(ComputeAssignedColor, [P |-> hlo, p |-> partition, ok |-> TRUE],
                         RecursivePostOrder(hlo))
     IN  Finish(new.P, new.p, new.ok)

(***************************************************************************)
(* MpmdUnpackOptimizationBarrier: a barrier on a tuple becomes one         *)
(* placeholder per element, each with the name of the barrier.             *)
(***************************************************************************)
UnpackOptBarrier(P, b) ==
  LET tuple    == P.n[b].in[1]
      operands == IF Op(P, tuple) = "tuple" THEN P.n[tuple].in ELSE <<tuple>>
      Placeholder(o) == [Node("unpacked", <<o>>, P.n[b].comp) EXCEPT
                           !.cfg = b, !.size = P.n[o].size]
      gtes     == {u \in Users(P, b) : Op(P, tuple) = "tuple"}
      UnpackElement(Q, k) ==
        LET new == FreshId(Q)
            replaced == {u \in gtes : P.n[u].idx = k}
            R == FoldSet(LAMBDA u, acc : ReplaceAllUsesWith(acc, u, new),
                         AddNode(Q, Placeholder(operands[k])), replaced)
        IN  IF gtes = {} THEN ReplaceAllUsesWith(R, b, new) ELSE R
      Q == FoldLeft(UnpackElement, P, [k \in DOMAIN operands |-> k])
      R == RemoveNodes(Q, gtes \cup {b})
  IN  IF Op(P, tuple) = "tuple" /\ Users(R, tuple) = {} THEN RemoveNodes(R, {tuple}) ELSE R

UnpackOptimizationBarrier ==
  /\ pass = "unpack_barrier"
  /\ Finish(FoldSet(LAMBDA b, P : UnpackOptBarrier(P, b), hlo,
                    {b \in DOMAIN hlo.n : Op(hlo, b) = "barrier"}), partition, TRUE)

-----------------------------------------------------------------------------
(***************************************************************************)
(* MpmdColoring::PropagateLoopColorDepth.  Colors known before the phase   *)
(* are fixed.  Inside the loop each color flows forward along users, in    *)
(* the order of the greatest depth at which it occurs, then backward.      *)
(***************************************************************************)
VisitLoopDepth(P, i) == Op(P, i) # "constant" /\ ~IsTupleShaped(P, i)

FixColors(acc, i) ==
  IF ~IsAssignedColor(acc.P, i) THEN acc
  ELSE [P     |-> AssignUnassigned(acc.P, Aliases(acc.P, i), Color(acc.P, i)),
        fixed |-> acc.fixed \cup {i}]

BodyDepth(P, c) ==
  LET depth == DepthMap(P, Body)
  IN  Max({depth[i] : i \in {j \in Ids(P, Body) : Color(P, j) = c}})

BodyColors(P) == {Color(P, i) : i \in Ids(P, Body)} \ {NoColor}

(***************************************************************************)
(* ComputeColorDepthMap keeps one color for a depth.  When two colors have *)
(* the same greatest depth, the order of a hash map decides which one.     *)
(***************************************************************************)
ColorDepthMaps(P) ==
  LET depth  == [c \in BodyColors(P) |-> BodyDepth(P, c)]
      depths == {depth[c] : c \in BodyColors(P)}
  IN  {m \in [depths -> BodyColors(P)] : \A d \in depths : depth[m[d]] = d}

PropagateTo(P, i, c, fixed) ==
  LET Q == IF VisitLoopDepth(P, i) /\ i \notin fixed
           THEN AssignAll(P, {i} \cup {j \in ToSet(Aliases(P, i)) :
                                        P.n[j].color = NoColor \/ j \notin fixed}, c)
           ELSE P
  IN  IF Op(P, i) = "tuple" THEN ColorTuple(Q, i) ELSE Q

PropagateDirectionally(P, c, fixed, forward) ==
  LET order == PostOrder(P, Body)
      Related(i) == IF forward THEN Sorted(Users(P, i)) ELSE Operands(P, i)
      Step(Q, i) == IF Color(Q, i) # c THEN Q
                    ELSE FoldLeft(LAMBDA R, j : PropagateTo(R, j, c, fixed), Q, Related(i))
  IN  FoldLeft(Step, P, IF forward THEN order ELSE Reverse(order))

PropagateLoopColorDepth ==
  /\ pass = "loop_depth"
  /\ LET entry == FoldLeft(FixColors, [P |-> hlo, fixed |-> {}], PostOrder(hlo, Entry))
         body  == FoldLeft(FixColors, entry, PostOrder(hlo, Body))
     IN  IF ~HasLoop(hlo) THEN Finish(entry.P, partition, TRUE)
         ELSE \E m \in ColorDepthMaps(body.P) :
                LET depths   == Sorted(DOMAIN m)
                    Forward(P, d)  == PropagateDirectionally(P, m[d], body.fixed, TRUE)
                    Backward(P, d) == PropagateDirectionally(P, m[d], body.fixed, FALSE)
                IN  Finish(FoldLeft(Backward, FoldLeft(Forward, body.P, depths),
                                    Reverse(depths)), partition, TRUE)

(***************************************************************************)
(* MpmdColoring::PropagateIf: rounds over the instructions, the body where *)
(* the loop is met, until a round changes nothing.  An instruction without *)
(* a color takes the best one among its operands and users: the heaviest,  *)
(* the nearest in depth, or the nearest in topological order, by the       *)
(* priority of the options.                                                *)
(***************************************************************************)
Visits(filter, P, i) ==
  /\ Op(P, i) # "constant" /\ ~IsTupleShaped(P, i)
  /\ CASE filter = "elementwise" ->
            Op(P, i) \in {"elementwise", "copy", "add", "parameter", "reduce"}
       [] filter = "nontrivial"  -> P.n[i].size > 1
       [] OTHER                  -> TRUE

\* The maps of one computation; an instruction of another one is infinitely far.
Infinite == 1000

Distance(map, a, b) ==
  LET x == ValueOr(map, a, Infinite)
      y == ValueOr(map, b, Infinite)
  IN  IF x > y THEN x - y ELSE y - x

Maps(P) ==
  [comp \in {Entry, Body} |->
     [depth |-> DepthMap(P, comp), index |-> TopologicalIndexMap(P, comp),
      order |-> PostOrder(P, comp)]]

\* Whether the color with these three scores replaces the best one so far.
Better(s, best) ==
  \/ best.color = NoColor
  \/ CASE options.priority = "WEIGHT" ->
            \/ s.weight > best.weight
            \/ s.weight = best.weight /\ s.depth < best.depth
            \/ s.weight = best.weight /\ s.depth = best.depth /\ s.index < best.index
       [] options.priority = "DEPTH" ->
            \/ s.depth < best.depth
            \/ s.depth = best.depth /\ s.weight > best.weight
            \/ s.depth = best.depth /\ s.weight = best.weight /\ s.index < best.index
       [] options.priority = "TOPOLOGICAL" -> s.index < best.index

NoScore == [color |-> NoColor, weight |-> 0, depth |-> Infinite, index |-> Infinite]

BestColor(P, filter, maps, i) ==
  LET visited == SelectSeq(AliasOperands(P, i) \o AliasUsers(P, i),
                           LAMBDA j : Visits(filter, P, j))
      \* broadcasts make operands trivially bigger
      related == SelectSeq([k \in DOMAIN visited |->
                              IF Op(P, visited[k]) = "broadcast"
                              THEN P.n[visited[k]].in[1] ELSE visited[k]],
                           LAMBDA j : IsAssignedColor(P, j))
      Score(acc, j) ==
        LET old == ValueOr(acc.scores, Color(P, j), NoScore)
            d   == Distance(maps.depth, i, j)
            t   == Distance(maps.index, i, j)
            s   == [color  |-> Color(P, j),
                    weight |-> old.weight + P.n[j].size,
                    depth  |-> Min({old.depth, d}),
                    index  |-> Min({old.index, t})]
        IN  [scores |-> Put(acc.scores, s.color, s),
             best   |-> IF Better(s, acc.best) THEN s ELSE acc.best]
  IN  FoldLeft(Score, [scores |-> [c \in {} |-> NoScore], best |-> NoScore], related).best.color

PropagateOne(P, filter, maps, i) ==
  LET c == BestColor(P, filter, maps, i)
  IN  IF Op(P, i) = "tuple" THEN ColorTuple(P, i)
      ELSE IF IsAssignedColor(P, i) \/ ~Visits(filter, P, i) \/ c = NoColor THEN P
      ELSE AssignUnassigned(AssignColor(P, i, c), Aliases(P, i), c)

\* A tuple that changes color does not count as a propagation.
Propagated(P, Q) ==
  \E i \in DOMAIN P.n : Op(P, i) # "tuple" /\ Color(P, i) # Color(Q, i)

RECURSIVE PropagateIf(_, _, _, _)
PropagateIf(P, comp, filter, maps) ==
  LET Step(Q, i) == IF Op(P, i) = "while" THEN PropagateIf(Q, Body, filter, maps)
                    ELSE PropagateOne(Q, filter, maps[comp], i)
      Q == FoldLeft(Step, P, maps[comp].order)
  IN  IF Propagated(P, Q) THEN PropagateIf(Q, comp, filter, maps) ELSE Q

Propagate ==
  /\ pass \in {"elementwise", "nontrivial", "everything"}
  /\ Finish(PropagateIf(hlo, Entry, pass, Maps(hlo)), partition, TRUE)

\* Mutant: what the output depends on is not colored.
ColorRootOnly(P, root, c) == AssignColor(P, root, c)

(***************************************************************************)
(* The end of MpmdColoring::Run.  An output that still has no color gets   *)
(* the color of all devices, and ColorBackwards gives it to what the       *)
(* output is computed from, up to constants and colored instructions.      *)
(***************************************************************************)
ColorBackwards(P, root, c) ==
  LET Back(i) == {o \in OperandSet(P, i) : Op(P, o) # "arg"}
                   \cup ToSet(BackwardAliases(P, i))
      Reach(S) == {j \in UNION {Back(i) : i \in S} :
                     ~IsAssignedColor(P, j) /\ ~DerivedConstant(P, j)}
      reached == IF Op(P, root) = "slice_offset" THEN {root} ELSE Closure(Reach, {root})
  IN  AssignAll(P, reached, c)

ColorRoot(acc, i) ==
  LET new == FindOrAllocateGlobalColor(acc.p)
  IN  IF IsAssignedColor(acc.P, i) THEN acc
      ELSE [P |-> ColorBackwards(acc.P, i, new.color), p |-> new.p]

ColorRoots ==
  /\ pass = "color_roots"
  /\ LET new == FoldLeft(ColorRoot, [P |-> hlo, p |-> partition], Root(hlo, Entry).in)
     IN  Finish(new.P, new.p, TRUE)

(***************************************************************************)
(* MpmdRepackOptimizationBarrier: the placeholders of one barrier become a *)
(* tuple, a barrier on it and its elements; a single one becomes a barrier *)
(* without tuple.  The new tuple and barrier have no color.                *)
(***************************************************************************)
RepackBarrier(P, name) ==
  LET placeholders == Sorted({i \in DOMAIN P.n :
                         Op(P, i) = "unpacked" /\ P.n[i].cfg = name})
      comp  == P.n[placeholders[1]].comp
      tuple == FreshId(P)
      Q     == AddNode(P, Node("tuple", [k \in DOMAIN placeholders |->
                                           P.n[placeholders[k]].in[1]], comp))
      R     == AddNode(Q, Node("barrier", <<tuple>>, comp))
      Gte(i, k) == [Node("gte", <<tuple + 1>>, comp) EXCEPT
                          !.idx = k, !.color = P.n[i].color, !.size = P.n[i].size]
      Replace(S, k) == LET i == placeholders[k]
                       IN  RemoveNodes(ReplaceAllUsesWith(AddNode(S, Gte(i, k)),
                                                          i, FreshId(S)), {i})
  IN  IF Len(placeholders) = 1
      THEN [P EXCEPT !.n[placeholders[1]].op = "barrier", !.n[placeholders[1]].cfg = 0]
      ELSE FoldLeft(Replace, R, [k \in DOMAIN placeholders |-> k])

RepackOptimizationBarrier ==
  /\ pass = "repack_barrier"
  /\ Finish(FoldSet(LAMBDA b, P : RepackBarrier(P, b), hlo,
                    {hlo.n[i].cfg : i \in {j \in DOMAIN hlo.n : Op(hlo, j) = "unpacked"}}),
            partition, TRUE)

-----------------------------------------------------------------------------
(***************************************************************************)
(* MpmdUnusedLoopOutputRemover.  An output of the loop nobody outside the  *)
(* loop reads becomes a dummy, unless it is a colored parameter the loop   *)
(* only passes on; then inputs the body does not read become dummies.      *)
(***************************************************************************)
IsElementOf(P, i, op) == Op(P, i) = "gte" /\ Op(P, P.n[i].in[1]) = op

\* Dealias looks an element of a barrier up among the operands of the barrier, not of the
\* tuple that is its operand: the first element is taken for the tuple, a later one is past
\* the end.
PastTheOperands(P, i) ==
  IsElementOf(P, i, "barrier") /\ P.n[i].idx > Len(P.n[P.n[i].in[1]].in)

Dealias(P, i) ==
  LET alias[j \in DOMAIN P.n] ==
        IF IsElementOf(P, j, "barrier") /\ ~PastTheOperands(P, j)
        THEN alias[P.n[P.n[j].in[1]].in[P.n[j].idx]] ELSE j
  IN  alias[i]

\* guessed are the instructions past the end that pass for a parameter.
IsRepeatedUseParameter(P, i, guessed) ==
  i \in guessed \/ IsElementOf(P, Dealias(P, i), "arg")

\* The loop outputs that are not read after the loop.
UnreadOutputs(P) ==
  LET w == CHOOSE w \in WhileLoops(P) : TRUE
  IN  {k \in DOMAIN Root(P, Body).in : \A u \in Users(P, w) : P.n[u].idx # k}

UnusedOutputs(P, guessed) ==
  {k \in UnreadOutputs(P) :
     LET i == Root(P, Body).in[k]
     IN  ~IsAssignedColor(P, i) \/ ~IsRepeatedUseParameter(P, i, guessed)}

\* What IsRepeatedUseParameter is asked about and Dealias cannot answer.
Unanswered(P) ==
  {i \in {Root(P, Body).in[k] : k \in UnreadOutputs(P)} :
     IsAssignedColor(P, i) /\ PastTheOperands(P, i)}

DummyOperand(P, tuple, k) ==
  LET i == P.n[tuple].in[k]
      Q == ReplaceOperandWith(AddNode(P, Node("dummy", <<>>, P.n[tuple].comp)),
                              tuple, k, FreshId(P))
  IN  RemoveBackToParameters(Q, i)

RemoveUnusedLoopOutputs(P, guessed) ==
  LET Q == FoldLeft(LAMBDA S, k : DummyOperand(S, P.root[Body], k), P,
                    Sorted(UnusedOutputs(P, guessed)))
      gtes   == {i \in DOMAIN Q.n : IsElementOf(Q, i, "arg")}
      R      == RemoveNodes(Q, {i \in gtes : Users(Q, i) = {}})
      used   == {Q.n[i].idx : i \in {j \in gtes : Users(Q, j) # {}}}
      tuple  == P.n[CHOOSE w \in WhileLoops(P) : TRUE].in[1]
  IN  FoldLeft(LAMBDA S, k : DummyOperand(S, tuple, k), R,
               Sorted(DOMAIN P.n[tuple].in \ used))

\* To read past the operands is undefined: it gives any answer, or ends the compilation.
UnusedLoopOutputRemover ==
  /\ pass = "unused_loop_output"
  /\ \/ ~ConfiguredLoop(hlo) /\ Finish(hlo, partition, TRUE)
     \/ /\ ConfiguredLoop(hlo)
        /\ \E guessed \in SUBSET Unanswered(hlo) :
             Finish(RemoveUnusedLoopOutputs(hlo, guessed), partition, TRUE)
     \/ /\ ConfiguredLoop(hlo) /\ Unanswered(hlo) # {}
        /\ Finish(hlo, partition, FALSE)

(***************************************************************************)
(* MpmdConcatenateGrouper: a concatenation that is only summed up is       *)
(* split by the color of its operands, in the order the colors occur.      *)
(***************************************************************************)
IsSummed(P, i) ==
  /\ Op(P, i) = "concatenate" /\ P.n[i].comp = Entry
  /\ \E u \in DOMAIN P.n : Users(P, i) = {u} /\ Op(P, u) = "reduce" /\ P.n[u].size = 1

\* Mutant: only the first operand of each color is kept.
ConcatenateFirsts(P, i) ==
  LET First(s, o) == \A h \in ToSet(s) : Color(P, h) # Color(P, o)
  IN  [P EXCEPT !.n[i].in =
         FoldLeft(LAMBDA s, o : IF First(s, o) THEN Append(s, o) ELSE s, <<>>, @)]

GroupConcatenate(P, i) ==
  LET in     == P.n[i].in
      firsts == SelectSeq([k \in DOMAIN in |-> k],
                  LAMBDA k : \A h \in 1..(k-1) : Color(P, in[h]) # Color(P, in[k]))
      Sub(c) == [Node("concatenate", SelectSeq(in, LAMBDA o : Color(P, o) = c), Entry)
                   EXCEPT !.color = c, !.size = P.n[i].size]
      subs   == [k \in DOMAIN firsts |-> FreshId(P) + k - 1]
      Q      == FoldLeft(LAMBDA S, k : AddNode(S, Sub(Color(P, in[k]))), P, firsts)
      R      == AddNode(Q, [P.n[i] EXCEPT !.in = subs])
  IN  RemoveNodes(ReplaceAllUsesWith(R, i, FreshId(Q)), {i})

ConcatenateGrouper ==
  /\ pass = "concatenate_grouper"
  /\ Finish(FoldSet(LAMBDA i, P : GroupConcatenate(P, i), hlo,
                    {i \in DOMAIN hlo.n : IsSummed(hlo, i)}), partition, TRUE)

\* MpmdLogicalShardingPropagation: the markers go; the axes are not modelled.
LogicalShardingPropagation ==
  /\ pass = "logical_sharding"
  /\ LET Unmark(P, i) == RemoveNodes(ReplaceAllUsesWith(P, i, P.n[i].in[1]), {i})
     IN  Finish(FoldLeft(Unmark, hlo, Sorted({i \in DOMAIN hlo.n :
                                        Op(hlo, i) = "autosharding"})), partition, TRUE)

(***************************************************************************)
(* MpmdParameterReplication: every user of a small sharded parameter reads *)
(* a replicated copy on all devices.  What the loop carries of such a copy *)
(* is replicated in the body too.  acc is [P, p, replicated].              *)
(***************************************************************************)
ReplicateParameter(acc, i) ==
  LET new  == FindOrAllocateGlobalColor(acc.p)
      copy == [CopyOf(acc.P, i) EXCEPT !.shard = Replicated, !.color = new.color]
  IN  IF /\ Op(acc.P, i) = "parameter"
         /\ acc.P.n[i].shard \notin {NoSharding, Replicated}
         /\ acc.P.n[i].size <= options.cutoff
         /\ Users(acc.P, i) # {}
      THEN [P |-> ReplaceAllUsesWith(AddNode(acc.P, copy), i, FreshId(acc.P)), p |-> new.p,
            replicated |-> acc.replicated \cup {FreshId(acc.P)}]
      ELSE acc

ReplicateLoopInputs(acc, i) ==
  LET P       == acc.P
      inputs  == {u \in Ids(P, Body) : Op(P, u) = "gte" /\ Op(P, P.n[u].in[1]) = "arg"}
      carried == {u \in inputs : P.n[i].in[P.n[u].idx] \in acc.replicated}
  IN  IF Op(P, i) = "tuple" /\ \E w \in WhileLoops(P) : Users(P, i) = {w}
      THEN [acc EXCEPT !.P = Update(P, [u \in carried |-> [P.n[u] EXCEPT !.shard = Replicated]]),
                       !.replicated = @ \cup inputs]
      ELSE acc

ParameterReplication ==
  /\ pass = "parameter_replication"
  /\ LET Step(acc, i) == ReplicateLoopInputs(ReplicateParameter(acc, i), i)
         new == FoldLeft(Step, [P |-> hlo, p |-> partition, replicated |-> {}],
                         PostOrder(hlo, Entry))
     IN  Finish(new.P, new.p, TRUE)

-----------------------------------------------------------------------------
Done == pass \in {"done", "error"} /\ UNCHANGED vars

Next ==
  \/ ConstantOutputCopy \/ RepeatedOutputCopy
  \/ LoopCanonicalizer \/ CanonicalizeSlices
  \/ SimpleLoopIncrementColoring
  \/ InlineExplicitTasks \/ InsertRootTupleShardings
  \/ ComputeAssignedColors \/ UnpackOptimizationBarrier
  \/ PropagateLoopColorDepth \/ Propagate \/ ColorRoots
  \/ RepackOptimizationBarrier
  \/ UnusedLoopOutputRemover
  \/ ConcatenateGrouper \/ LogicalShardingPropagation
  \/ ParameterReplication
  \/ Done

Spec == Init /\ [][Next]_vars

-----------------------------------------------------------------------------
\* Every operand exists whatever a pass replaced and removed, and the passes of this part
\* leave no computation behind but the entry and the body of the loop.
TypeOK ==
  /\ pass \in ToSet(Pipeline) \cup {"error"}
  /\ \A i \in DOMAIN hlo.n :
       /\ OperandSet(hlo, i) \subseteq DOMAIN hlo.n
       /\ hlo.n[i].comp \in {Entry, Body}
  /\ hlo.root[Entry] \in Ids(hlo, Entry)
  /\ DOMAIN partition.matched \subseteq STRING \X BOOLEAN

(***************************************************************************)
(* What a later iteration reads of an output that was replaced by a dummy. *)
(***************************************************************************)
LoopStateDropped(P) ==
  \E i \in DOMAIN P.n :
    /\ IsElementOf(P, i, "arg") /\ Users(P, i) # {}
    /\ Op(P, Root(P, Body).in[P.n[i].idx]) = "dummy"

(***************************************************************************)
(* No pass changes what the program computes, as long as the loop only     *)
(* carries values that are also read after it (UnusedLoopOutputRemover).   *)
(***************************************************************************)
OutputsPreserved ==
  ~LoopStateDropped(hlo) => Outputs(hlo) = Outputs(source)

\* What the outputs depend on; only the body of a configured loop is split into tasks.
LiveInstructions(P) ==
  LET From(i) == OperandSet(P, i)
                   \cup {P.root[Body] : w \in {i} \cap {v \in WhileLoops(P) : P.n[v].cfg # 0}}
  IN  Closure(LAMBDA S : UNION {From(i) : i \in S}, {P.root[Entry]})

\* The colors in use are known to the partition.
ColorsAllocated ==
  \A i \in DOMAIN hlo.n : IsAssignedColor(hlo, i) => HasColor(partition, Color(hlo, i))

(***************************************************************************)
(* Every color an instruction has is known to the partition, so that       *)
(* ConfigForColor never stops the process; and when the passes are done    *)
(* every instruction an output depends on has one, which the grouper needs *)
(* to put it in a task.                                                    *)
(***************************************************************************)
EveryInstructionColored ==
  /\ ColorsAllocated
  /\ pass = "done" =>
       \A i \in LiveInstructions(hlo) :
         \/ IsAssignedColor(hlo, i) \/ IsTupleShaped(hlo, i) \/ DerivedConstant(hlo, i)
         \/ Op(hlo, i) \in {"slice_offset", "dummy"}

(***************************************************************************)
(* The color an instruction has is never replaced: neither the aliases of  *)
(* the loop nor the propagation overrule a task or a named scope.          *)
(***************************************************************************)
ColorsNeverChange ==
  [][\A i \in DOMAIN hlo.n \cap DOMAIN hlo'.n :
       IsAssignedColor(hlo, i) /\ Op(hlo, i) # "tuple" => Color(hlo', i) = Color(hlo, i)]_vars

(***************************************************************************)
(* An instruction runs on the devices that the callback of the innermost   *)
(* task context with a matcher for its scope returned for the scope.       *)
(***************************************************************************)
ScopesHonoured ==
  pass = "done" =>
    \A i \in DOMAIN hlo.n :
      LET meta    == hlo.n[i].meta
          scopes  == {k \in DOMAIN contexts : \E m \in ToSet(contexts[k]) : Matches(m, meta)}
          inner   == contexts[Max(scopes)]
          first   == inner[SelectInSeq(inner, LAMBDA m : Matches(m, meta))]
          devices == TaskOptions[first, meta.name, meta.backprop].devices
      IN  Op(hlo, i) # "task" /\ scopes # {}
            => DevicesForColor(partition, Color(hlo, i)) = <<Head(devices), Len(devices)>>

(***************************************************************************)
(* The outputs of the module are different instructions, and none is a     *)
(* parameter or a constant: each output gets a buffer of its own.          *)
(***************************************************************************)
OutputsAreOwned ==
  pass = "done" =>
    LET in == Root(hlo, Entry).in
    IN  /\ \A k, l \in DOMAIN in : in[k] = in[l] => k = l
        /\ \A k \in DOMAIN in : ~DerivedInput(hlo, in[k])
=============================================================================
