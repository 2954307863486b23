---------------------------- MODULE HloSemantics ----------------------------
(***************************************************************************)
(* What a module computes: its outputs as terms over the names of          *)
(* instructions, parameters and constants, the loop run NumIterations      *)
(* times.  it is the iteration, 0 outside the loop.  Markers and copies    *)
(* do not change a value; a sum does not depend on the order of a          *)
(* concatenation.  The call k is the only one of the computation Task(k).  *)
(*                                                                         *)
(* This is the meaning XLA gives to its instructions, the reference the    *)
(* passes are checked against.                                             *)
(***************************************************************************)
EXTENDS Hlo

CONSTANT NumIterations   \* iterations of the loop

Transparent ==
  {"copy", "barrier", "unpacked", "recolor", "arg_recolor", "sharding", "autosharding",
   "microbatch_init", "microbatch", "microbatch_slice", "offset", "reshard"}

Term(name, args) == [name |-> name, args |-> args, n |-> 0]
Number(n) == [name |-> "number", args |-> <<>>, n |-> n]

RECURSIVE Val(_, _, _), Summands(_, _, _)

Element(P, i, it) ==
  LET src == P.n[P.n[i].in[1]]
      k   == P.n[i].idx
  IN  CASE src.op = "arg" /\ it = 1 -> Val(P, InitTuple(P).in[k], 0)
        [] src.op = "arg" /\ it > 1 -> Val(P, Root(P, Body).in[k], it - 1)
        [] src.op = "while"         -> Val(P, Root(P, Body).in[k], NumIterations)
        [] src.op = "tuple"         -> Val(P, src.in[k], it)
        [] src.op = "barrier"       -> Val(P, P.n[src.in[1]].in[k], it)
        [] src.op = "call"          -> Val(P, Root(P, Task(P.n[i].in[1])).in[k], it)

Val(P, i, it) ==
  LET node == P.n[i]
  IN  CASE node.op = "gte"           -> Element(P, i, it)
        [] node.op \in Transparent   -> Val(P, node.in[1], it)
        [] node.op = "slice_offset"  -> Number(it - 1)
        [] node.op = "constant"      -> Number(node.idx)
        [] node.op = "inc"           -> Number(Val(P, node.in[1], it).n + 1)
        [] node.op = "reduce"        -> Term("sum", Summands(P, node.in[1], it))
        [] node.op = "parameter" /\ node.comp # Entry ->
             Val(P, P.n[node.comp[2]].in[node.idx], it)
        [] OTHER -> Term(IF node.op = "dummy" THEN "dummy" ELSE node.name,
                         [k \in DOMAIN node.in |-> Val(P, node.in[k], it)])

\* The values a concatenation holds, with the number of times it holds each.
Summands(P, i, it) ==
  IF Op(P, i) # "concatenate" THEN Put(Empty, Val(P, i, it), 1)
  ELSE LET parts == [k \in DOMAIN P.n[i].in |-> Summands(P, P.n[i].in[k], it)]
           vals  == UNION {DOMAIN parts[k] : k \in DOMAIN parts}
       IN  [v \in vals |-> FoldLeft(LAMBDA n, s : n + ValueOr(s, v, 0), 0, parts)]

Outputs(P) == [k \in DOMAIN Root(P, Entry).in |-> Val(P, Root(P, Entry).in[k], 0)]
=============================================================================
