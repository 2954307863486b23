--------------------------- MODULE InsertReshard ---------------------------
(***************************************************************************)
(* The passes between the unrolling of loops and the scheduling names.     *)
(* MpmdInsertReshard, mpmd_insert_reshard.cc: a call that needs an operand *)
(* on other devices or with another sharding reads a reshard of it, shared *)
(* by all that need the same; recolor wrappers of the root tuple become    *)
(* reshards or vanish; a scalar result is sent to all devices.             *)
(* MpmdInPlaceCollectives, mpmd_inplace_collectives.cc: the output of a    *)
(* collective takes the scheduling name of its input.                      *)
(*                                                                         *)
(* Device lists are pairs <<start, number>>; a sharding is "replicated" or *)
(* the name of a tiling, and two of them are mesh equivalent if equal.     *)
(***************************************************************************)
EXTENDS TaskProgram, SequencesExt

CONSTANT AllDevices

Covers(outer, inner) ==
  outer[1] <= inner[1] /\ inner[1] + inner[2] <= outer[1] + outer[2]

\* Mutant: one side being replicated is taken to be enough.
NeedsReshardUnlessReplicated(from, at, operand_sharding, sharding) ==
  ~(operand_sharding = "replicated" /\ Covers(from, at))
    /\ (from # at \/ operand_sharding # sharding)

NeedsReshard(from, at, operand_sharding, sharding) ==
  /\ ~(operand_sharding = "replicated" /\ sharding = "replicated" /\ Covers(from, at))
  /\ from # at \/ operand_sharding # sharding

AddNode(p, id, node) == [p EXCEPT !.n = (id :> node) @@ @]

ReshardNode(operand, shape, at, shard) ==
  [op |-> "reshard", in |-> <<operand>>, after |-> <<>>, at |-> at, shape |-> shape,
   shard |-> shard, index |-> 0, comp |-> 0, wants |-> <<>>, name |-> 0]

FreshId(p) == 1 + CHOOSE i \in Ids(p) : \A j \in Ids(p) : j <= i

\* The reshards of operand to those devices and that sharding: reshard_map.
SameReshards(p, operand, at, shard) ==
  {r \in Ids(p) : /\ Op(p, r) = "reshard" /\ p.n[r].in = <<operand>>
                  /\ p.n[r].at = at /\ p.n[r].shard = shard}

\* make_reshard_if_needed: the program, and the instruction to read in place of operand.
MakeReshardIfNeeded(p, operand, at, shard) ==
  LET from == p.n[operand]
      same == SameReshards(p, operand, at, shard)
      id   == FreshId(p)
  IN  IF ~NeedsReshard(from.at, at, from.shard, shard) THEN <<p, operand>>
      ELSE IF same # {} THEN <<p, CHOOSE r \in same : TRUE>>
      ELSE <<AddNode(p, id, ReshardNode(operand, from.shape, at, shard)), id>>

\* The loop over the operands of a call.
ReshardOperand(p, call, k) ==
  LET made == MakeReshardIfNeeded(p, p.n[call].in[k], p.n[call].at, p.n[call].wants[k])
  IN  IF Op(p, p.n[call].in[k]) = "offset" THEN p
      ELSE [made[1] EXCEPT !.n[call].in[k] = made[2]]

ReshardOperands(p, call) ==
  FoldLeft(LAMBDA q, k : ReshardOperand(q, call, k), p, [k \in DOMAIN p.n[call].in |-> k])

ReplaceUses(p, old, new) ==
  LET With(s) == [k \in DOMAIN s |-> IF s[k] = old THEN new ELSE s[k]]
  IN  [p EXCEPT !.n = [i \in Ids(p) \ {new} |-> [@[i] EXCEPT !.in = With(@)]] @@ @,
                !.roots = With(@)]

RemoveNode(p, i) == [p EXCEPT !.n = [j \in DOMAIN @ \ {i} |-> @[j]]]

\* A root tuple operand under a recolor wrapper.
UnwrapRoot(p, wrapper) ==
  LET made == MakeReshardIfNeeded(p, p.n[wrapper].in[1], p.n[wrapper].at, p.n[wrapper].shard)
  IN  RemoveNode(ReplaceUses(made[1], wrapper, made[2]), wrapper)

\* A scalar on some of the devices: all of its uses read the broadcast value.
BroadcastScalar(p, i) ==
  ReplaceUses(AddNode(p, FreshId(p), ReshardNode(i, 1, AllDevices, "replicated")), i, FreshId(p))

ReshardRoot(p, k) ==
  LET i == p.roots[k]
  IN  IF Op(p, i) = "recolor" THEN UnwrapRoot(p, i)
      ELSE IF p.n[i].shape = 1 /\ p.n[i].at[2] < AllDevices[2] THEN BroadcastScalar(p, i)
      ELSE p

-----------------------------------------------------------------------------
(***************************************************************************)
(* MakeInstructionPostOrder of XLA: depth first from the root tuple, then  *)
(* from the instructions nobody uses, operands before control predecessors.*)
(***************************************************************************)
Before(p, i) == SelectSeq(p.n[i].in \o p.n[i].after, LAMBDA j : j \in Ids(p))

Descend(p, s) ==
  LET i    == Head(s.stack)
      open == SelectSeq(Before(p, i), LAMBDA j : j \notin Elements(s.order))
  IN  IF s.stack = <<>> THEN s
      ELSE IF i \in Elements(s.order) THEN [s EXCEPT !.stack = Tail(@)]
      ELSE IF open # <<>> THEN [s EXCEPT !.stack = <<Head(open)>> \o @]
      ELSE [stack |-> Tail(s.stack), order |-> Append(s.order, i)]

PostOrder(p) ==
  LET unused == {i \in Ids(p) : Readers(p, i) = {} /\ ~IsRoot(p, i)}
      start  == p.roots \o SetToSortSeq(unused, <)
      fuel   == 2 * (Cardinality(Ids(p)) + Len(start))
  IN  FoldLeft(LAMBDA s, k : Descend(p, s), [stack |-> start, order |-> <<>>],
               [k \in 1 .. fuel |-> k]).order

Ordered(p) == [p EXCEPT !.order = PostOrder(p)]

\* MpmdInsertReshard::Run
WithReshards(p) ==
  LET calls == SelectSeq(p.order, LAMBDA i : Op(p, i) = "call")
      fed   == FoldLeft(ReshardOperands, p, calls)
  IN  Ordered(FoldLeft(ReshardRoot, fed, [k \in DOMAIN p.roots |-> k]))

\* GetMatchingCollectiveInput: the operand an output of a call reduces in place, or none.
\* What the computation does is part of the program: collective[comp] is the set of pairs
\* of a tuple index and a parameter number.
CollectiveInput(p, g) ==
  LET call == p.n[g].in[1]
  IN  {p.n[call].in[k] : k \in {j \in DOMAIN p.n[call].in :
         <<p.n[g].index, j>> \in p.collective[p.n[call].comp]}}

\* MpmdInPlaceCollectives::Run; the input may have been named by this very pass.
InPlaceCollectives(p) ==
  FoldLeft(LAMBDA q, g :
             IF Op(q, g) = "gte" /\ \E v \in CollectiveInput(q, g) : q.n[v].name # 0
               THEN [q EXCEPT !.n[g].name = q.n[CHOOSE v \in CollectiveInput(q, g) : TRUE].name]
               ELSE q,
           p, p.order)

\* The pipeline from MpmdInsertReshard to MpmdAssignBufferSchedulingName.
Flattened(p) == InPlaceCollectives(WithReshards(p))

-----------------------------------------------------------------------------
\* The devices and the sharding the module before the pass asks for, result by result: those
\* of the recolor wrapper, for a scalar without one all devices, and else what the result has.
RootPlacements(p) ==
  [k \in DOMAIN p.roots |->
     LET r == p.n[p.roots[k]]
     IN  IF r.op # "recolor" /\ r.shape = 1 THEN [at |-> AllDevices, shard |-> "replicated"]
         ELSE [at |-> r.at, shard |-> r.shard]]

\* A value that can be read on the devices at with the sharding: it has the sharding and is
\* there, or is a copy of the whole on at least these devices.
Holds(v, at, shard) ==
  /\ v.shard = shard
  /\ v.at = at \/ (shard = "replicated" /\ Covers(v.at, at))

\* After the pass a call finds each operand on its devices, with the sharding its computation
\* expects, and no wrapper is left: every result is placed as it was asked for, p.wanted
\* (mpmd_insert_reshard.cc).
IsPlaced(p) ==
  /\ \A c \in Ids(p) : Op(p, c) = "call" =>
       \A k \in DOMAIN p.n[c].in :
         \/ Op(p, p.n[c].in[k]) = "offset"
         \/ Holds(p.n[p.n[c].in[k]], p.n[c].at, p.n[c].wants[k])
  /\ \A k \in DOMAIN p.roots :
       /\ Op(p, p.roots[k]) \in {"parameter", "gte", "reshard"}
       /\ Holds(p.n[p.roots[k]], p.wanted[k].at, p.wanted[k].shard)
=============================================================================
