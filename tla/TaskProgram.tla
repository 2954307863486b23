---------------------------- MODULE TaskProgram ----------------------------
(***************************************************************************)
(* The entry computation when the loops are unrolled: parameters, calls of *)
(* tasks, a get-tuple-element for each output of a call, reshards between  *)
(* device lists, the offsets of microbatch slices and, until reshards are  *)
(* inserted, the recolor wrappers of root tuple operands.                  *)
(*                                                                         *)
(* A program is a record                                                   *)
(*   n      instruction identifier -> node                                 *)
(*   order  MakeInstructionPostOrder of the entry computation              *)
(*   roots  the operands of the root tuple                                 *)
(*   alias  parameter number -> output number, as the user configured it   *)
(*   donors the parameter numbers the user donates                         *)
(*   wanted the devices and the sharding each operand of the root tuple    *)
(*          was asked for with, before reshards were inserted              *)
(* and a node is a record                                                  *)
(*   op     "parameter", "call", "gte", "reshard", "offset" or "recolor"   *)
(*   in     the operands           after  the control predecessors         *)
(*   at     the devices of its color                                       *)
(*   shape  the number of elements shard  "replicated" or a tiling         *)
(*   index  parameter number or tuple index                                *)
(*   comp   the computation a call applies                                 *)
(*   wants  the shardings of the parameters of that computation            *)
(*   name   the scheduling name an earlier pass has set, 0 if there is none*)
(***************************************************************************)
EXTENDS Integers, Sequences, FiniteSets

Elements(s) == {s[k] : k \in DOMAIN s}

Ids(p) == DOMAIN p.n

Op(p, i) == p.n[i].op

Readers(p, i) == {u \in Ids(p) : i \in Elements(p.n[u].in)}

IsRoot(p, i) == i \in Elements(p.roots)

\* user_count() counts the root tuple once.
UserCount(p, i) == Cardinality(Readers(p, i)) + (IF IsRoot(p, i) THEN 1 ELSE 0)

\* What occupies a buffer, and what is put on the schedule.
Values(p) == {i \in Ids(p) : Op(p, i) \in {"parameter", "gte", "reshard"}}

Operations(p) == {i \in Ids(p) : Op(p, i) \in {"call", "reshard"}}

\* The values a call or a reshard defines.
Outputs(p, i) == IF Op(p, i) = "call" THEN Readers(p, i) ELSE {i}

\* The numbers of a set of outputs are 0, 1, 2, ...
IsNumbered(p, S) ==
  /\ \A g, h \in S : p.n[g].index = p.n[h].index => g = h
  /\ {p.n[g].index : g \in S} = 0 .. Cardinality(S) - 1

\* The operands a call or a reshard reads from a buffer.
Sources(p, i) == {v \in Elements(p.n[i].in) : Op(p, v) # "offset"}

\* i comes before j in the post order.
Precedes(p, i, j) ==
  \E k, l \in DOMAIN p.order : k < l /\ p.order[k] = i /\ p.order[l] = j

\* v is a result or an instruction after i reads it.
NeededAfter(p, v, i) == IsRoot(p, v) \/ \E u \in Readers(p, v) : Precedes(p, i, u)

\* v is computed by i or by an operation before it.
ComputedBy(p, v, i) ==
  \E j \in Operations(p) : v \in Outputs(p, j) /\ (j = i \/ Precedes(p, j, i))
=============================================================================
