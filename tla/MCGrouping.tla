----------------------------- MODULE MCGrouping -----------------------------
(***************************************************************************)
(* Colored modules for Grouping: every small data flow over four           *)
(* instructions and three colors, barriers and inputs that are shared by   *)
(* tasks, and a microbatch loop.                                           *)
(***************************************************************************)
EXTENDS Grouping

MCDevices == <<0, 4>>
MCTaskOptions == <<>>

A == Named("a")
B == Named("b")
C == Named("c")     \* on the devices of A
D == Named("d")     \* on all devices

MCPartition(colors) ==
  LET On(c) == CASE c = B -> <<2, 2>> [] c = D -> MCDevices [] OTHER -> <<0, 2>>
  IN  FoldLeft(LAMBDA p, c : AllocateColor(p, c, ColorConfig(On(c), FALSE)).p,
               EmptyPartition, colors)

Opts(recompute, split, bijective) ==
  [recompute |-> recompute, cost |-> 2, minimize |-> TRUE, split |-> split,
   bijective |-> bijective]

MCOptions == {Opts(TRUE, {"a"}, FALSE), Opts(FALSE, {}, TRUE)}

Names == <<"n1", "n2", "n3", "n4", "n5", "n6", "n7", "n8", "n9">>

Parameter(k, color) ==
  [Node("parameter", <<>>, Entry) EXCEPT !.idx = k, !.color = color, !.name = Names[k]]
Constant(v, color) == [Node("constant", <<>>, Entry) EXCEPT !.idx = v, !.size = 1, !.color = color]
Inst(op, name, in, color, comp) == [Node(op, in, comp) EXCEPT !.name = name, !.color = color]
GteOf(in, k, color, comp) == [Node("gte", <<in>>, comp) EXCEPT !.idx = k, !.color = color]

Module(nodes, root, body) ==
  [hlo |-> [n |-> nodes @@ Empty, next |-> Len(nodes) + 1,
            root |-> IF body = 0 THEN (Entry :> root)
                     ELSE (Entry :> root) @@ (Body :> body),
            allowParam |-> <<>>, allowOut |-> <<>>, rootShard |-> <<>>],
   partition |-> MCPartition(<<A, B, C, D>>)]

(***************************************************************************)
(* Four instructions on one parameter, of colors that share devices or do  *)
(* not.  In Flows each reads earlier ones and what nothing reads is an     *)
(* output; in Crossings two pairs depend on each other and all but one are *)
(* outputs, in any order.                                                  *)
(***************************************************************************)
Flow(colors, ins, outs) ==
  Module(<< Parameter(1, colors[1]) >>
         \o [k \in 1..4 |-> Inst("dot", Names[k + 1], ins[k], colors[k], Entry)]
         \o << Node("tuple", outs, Entry) >>, 6, 0)

Unread(ins) ==
  SelectSeq(<<2, 3, 4, 5>>, LAMBDA i : \A k \in DOMAIN ins : i \notin ToSet(ins[k]))

Earlier(k) == {<<j>> : j \in 1..k} \cup {<<2, j>> : j \in 3..k}

Flows ==
  UNION {{ Flow(<<A, c2, c3, c4>>, <<<<1>>, i2, i3, i4>>, Unread(<<i2, i3, i4>>)) :
             c2 \in {A, B}, c3 \in {A, B}, c4 \in {B, C}} :
         i2 \in {<<1>>, <<2>>}, i3 \in Earlier(3), i4 \in Earlier(4)}

Crossings ==
  { Flow(<<A, c2, c3, c4>>, <<<<1>>, <<1>>, <<3>>, <<2, 3>>>>, outs) :
      c2 \in {A, B}, c3 \in {A, B}, c4 \in {B, C}, outs \in SetToSeqs({2, 4, 5}) }

(***************************************************************************)
(* Two results pass a barrier, together with a value that comes from the   *)
(* parameter; each of the readers reads one or two of them.                *)
(***************************************************************************)
Barriers ==
  { Module(<< Parameter(1, A), Inst("dot", "n2", <<1>>, A, Entry),
              Inst("dot", "n3", <<x>>, c3, Entry), Inst("reshape", "n4", <<1>>, A, Entry),
              Node("tuple", <<2, 3, 4>>, Entry), Node("barrier", <<5>>, Entry),
              GteOf(6, 1, A, Entry), GteOf(6, 2, c3, Entry), GteOf(6, 3, A, Entry),
              Inst("dot", "n5", i5, A, Entry), Inst("dot", "n6", <<i6, 10>>, B, Entry),
              Node("tuple", <<11, out>>, Entry) >>, 12, 0) :
      x \in {1, 2}, c3 \in {A, B}, i5 \in {<<7, 8>>, <<9, 8>>, <<9>>, <<7, 9>>},
      i6 \in {7, 8, 9, 3}, out \in {10, 3} }

(***************************************************************************)
(* Values that are cheap to compute again in the color of their readers,   *)
(* and an instruction that is larger than what it is computed from.        *)
(***************************************************************************)
Inputs ==
  { Module(<< Parameter(1, A), Constant(7, c2), Inst("broadcast", "n3", <<2>>, c2, Entry),
              Inst("elementwise", "n4", <<1>>, A, Entry),
              [Inst("add", "n5", <<3, 4>>, c5, Entry) EXCEPT !.size = big],
              Inst("reshape", "n6", <<5>>, c5, Entry),
              Inst("dot", "n7", i7, B, Entry), Inst("add", "n8", <<4, 3>>, c8, Entry),
              [Inst("recolor", "", <<7>>, A, Entry) EXCEPT !.shard = <<0, 2>>],
              Node("tuple", <<8, out>>, Entry) >>, 10, 0) :
      c2 \in {NoColor, A}, c5 \in {A, C}, big \in {2, 8}, i7 \in {<<6, 6>>, <<5, 6>>, <<6, 4>>},
      c8 \in {B, C}, out \in {7, 9} }

(***************************************************************************)
(* A microbatch loop that carries x, reads the parameter w and returns y   *)
(* too, after a task that prepares x.                                      *)
(***************************************************************************)
Loops ==
  { Module(<< Parameter(1, A), Parameter(2, B), Inst("dot", "n3", <<1>>, A, Entry),
              Node("tuple", <<3, 2, 3>>, Entry), [Node("while", <<4>>, Entry) EXCEPT !.cfg = 1],
              GteOf(5, 1, A, Entry), GteOf(5, 3, cy, Entry),
              Inst("dot", "n4", <<6, 7>>, B, Entry), Node("tuple", <<8, 7>>, Entry),
              Node("arg", <<>>, Body), GteOf(10, 1, A, Body), GteOf(10, 2, B, Body),
              GteOf(10, 3, cy, Body), Inst("slice_offset", "", <<>>, NoColor, Body),
              Inst("dot", "n5", <<11, 14>>, A, Body), Inst("dot", "n6", i6, cy, Body),
              Inst("dot", "n7", <<x, 12>>, B, Body), Inst("dot", "n8", <<15>>, A, Body),
              Inst("dot", "n9", <<17, y>>, cx, Body),
              Node("tuple", <<19, 12, 16>>, Body) >>, 9, 20) :
      cy \in {A, B, C}, cx \in {A, B}, i6 \in {<<15>>, <<15, 13>>},
      x \in {15, 16}, y \in {18, 16} }

(***************************************************************************)
(* A product that may be larger than its operand, read in one or several   *)
(* colors, on as many devices or on more, directly or through a reshape,   *)
(* and an output itself, recolored or not.                                 *)
(***************************************************************************)
Products ==
  { Module(<< Parameter(1, A), [Inst("dot", "n2", <<1>>, A, Entry) EXCEPT !.size = big],
              [Inst("reshape", "n3", <<2>>, c3, Entry) EXCEPT !.size = big],
              Inst("dot", "n4", <<i4>>, c4, Entry), Inst("dot", "n5", <<i5, 4>>, c5, Entry),
              [Inst("recolor", "", <<2>>, B, Entry) EXCEPT !.shard = <<2, 2>>],
              Node("tuple", outs, Entry) >>, 7, 0) :
      big \in {2, 8}, c3 \in {A, B}, i4 \in {2, 3}, c4 \in {B, D}, i5 \in {1, 2, 3},
      c5 \in {A, B}, outs \in {<<5>>, <<5, 2>>, <<5, 6>>} }

(***************************************************************************)
(* A loop that carries one value and one parameter only: a task of it has  *)
(* up to three outputs, more than the root of the loop.                    *)
(***************************************************************************)
NarrowLoops ==
  { Module(<< Parameter(1, A), Parameter(2, B), Inst("dot", "n3", <<1>>, A, Entry),
              Node("tuple", <<3, 2>>, Entry), [Node("while", <<4>>, Entry) EXCEPT !.cfg = 1],
              GteOf(5, 1, A, Entry), Node("tuple", <<6>>, Entry),
              Node("arg", <<>>, Body), GteOf(8, 1, A, Body), GteOf(8, 2, B, Body),
              Inst("slice_offset", "", <<>>, NoColor, Body),
              Inst("dot", "n4", <<9, 11>>, A, Body), Inst("dot", "n5", <<12>>, A, Body),
              Inst("dot", "n6", <<12>>, A, Body), Inst("dot", "n7", i7, B, Body),
              Inst("dot", "n8", i8, c8, Body), Node("tuple", <<16, 10>>, Body) >>, 7, 17) :
      i7 \in {<<12, 10>>, <<13, 10>>}, i8 \in {<<15>>, <<15, 13>>, <<15, 13, 14>>},
      c8 \in {A, B} }

MCModules ==
  Flows \cup Crossings \cup Barriers \cup Inputs \cup Loops \cup Products \cup NarrowLoops
=============================================================================
