----------------------------- MODULE MCColoring -----------------------------
(***************************************************************************)
(* Modules for Coloring: straight-line modules with tasks, scopes,         *)
(* shardings and barriers, a summed concatenation, a microbatch loop, and  *)
(* a loop that slices its input.                                           *)
(***************************************************************************)
EXTENDS Coloring

F == [name |-> "f", backprop |-> FALSE]
G == [name |-> "g", backprop |-> FALSE]
GBack == [name |-> "g", backprop |-> TRUE]
H == [name |-> "h", backprop |-> FALSE]

\* The callbacks of the tests: two submeshes; "inner" overrides "outer" for f.
MCTaskOptions ==
     <<"outer", "f", FALSE>> :> [name |-> Named("fwd"), devices |-> <<0, 1>>]
  @@ <<"outer", "g", FALSE>> :> [name |-> Named("t"), devices |-> <<2, 3>>]
  @@ <<"outer", "g", TRUE>>  :> [name |-> Named("t"), devices |-> <<2, 3>>]
  @@ <<"inner", "f", FALSE>> :> [name |-> Named("f"), devices |-> <<2, 3>>]
  @@ <<"inner", "h", FALSE>> :> [name |-> Named("f"), devices |-> <<0, 1>>]
  @@ <<"MultiMeshTask", "f", FALSE>> :> [name |-> Named("fwd"), devices |-> <<0, 1>>]
  @@ <<"MultiMeshTask", "g", FALSE>> :> [name |-> Named("t"), devices |-> <<>>]
  @@ <<"MultiMeshTask", "h", FALSE>> :> [name |-> Named("h"), devices |-> <<3, 2>>]

MCDevices == <<0, 4>>

MCContextStacks == {<< <<"outer">> >>, << <<"outer">>, <<"inner">> >>}

Opts(priority, increment, cutoff) ==
  [priority |-> priority, loop_increment |-> increment, cutoff |-> cutoff]

MCOptions == {Opts("WEIGHT", FALSE, 1), Opts("DEPTH", TRUE, 0), Opts("TOPOLOGICAL", FALSE, 0)}

Parameter(k, shard, size) ==
  [Node("parameter", <<>>, Entry) EXCEPT !.idx = k, !.shard = shard, !.size = size,
     !.name = IF k = 1 THEN "p1" ELSE "p2"]
Constant(v, comp) == [Node("constant", <<>>, comp) EXCEPT !.idx = v, !.size = 1]
Inst(op, name, in, meta, comp) == [Node(op, in, comp) EXCEPT !.name = name, !.meta = meta]
GteOf(in, k, comp) == [Node("gte", <<in>>, comp) EXCEPT !.idx = k]
Module(nodes, root, body, allowOut, rootShard) ==
  [n |-> nodes, next |-> Len(nodes) + 1, root |-> (Entry :> root) @@ (Body :> body),
   allowParam |-> <<TRUE, FALSE>>, allowOut |-> allowOut, rootShard |-> rootShard]

(***************************************************************************)
(* Two parameters, a constant and two instructions; the second output may  *)
(* be any of them, so that it repeats the first, or is no result at all.   *)
(***************************************************************************)
StraightLine ==
  { Module(<< Parameter(1, s, 1), Parameter(2, Replicated, 2), Constant(7, Entry),
              Inst(o1, "a", <<1, 3>>, m1, Entry), Inst(o2, "b", <<4, 2>>, m2, Entry),
              Node("tuple", <<5, second>>, Entry) >>, 6, 0, ao, rs) :
      s \in {NoSharding, <<0, 2>>}, o1 \in {"compute", "task"},
      o2 \in {"elementwise", "reshape"}, m1 \in {F, G}, m2 \in {NoMetadata, F, GBack},
      second \in {1, 3, 4, 5}, ao \in {<<TRUE>>}, rs \in {<< <<2, 2>>, Replicated >>} }
  \cup
  { Module(<< Parameter(1, s, 2), Parameter(2, Replicated, 2), Constant(7, Entry),
              Inst("compute", "a", <<1, 3>>, m1, Entry),
              Inst("autosharding", "", <<4>>, NoMetadata, Entry),
              Node("tuple", <<5, 2>>, Entry), Node("barrier", <<6>>, Entry),
              GteOf(7, 1, Entry), GteOf(7, 2, Entry),
              Node("barrier", <<8>>, Entry),
              Inst("add", "b", <<9, 10>>, m2, Entry),
              Inst(o3, "c", <<11, 8>>, m3, Entry),
              Node("tuple", <<11, 12>>, Entry) >>, 13, 0, ao, rs) :
      s \in {NoSharding, <<2, 2>>, <<0, 4>>}, m1 \in {NoMetadata, F}, m2 \in {G, NoMetadata},
      o3 \in {"broadcast", "task"}, m3 \in {G, H}, ao \in {<<TRUE>>, <<FALSE>>},
      rs \in {<< <<2, 2>>, Replicated >>, << <<0, 4>>, <<0, 2>> >>} }

\* Four instructions on submeshes, concatenated and summed up.
Concatenations ==
  { Module(<< Parameter(1, s, 2),
              Inst("compute", "a", <<1>>, m1, Entry), Inst("compute", "b", <<1>>, m2, Entry),
              Inst("compute", "c", <<1>>, m3, Entry), Inst("elementwise", "a", <<1>>, m1, Entry),
              Node("concatenate", <<2, 3, 4, 5>>, Entry),
              [Node("reduce", <<6>>, Entry) EXCEPT !.size = 1],
              Node("tuple", <<7, 2>>, Entry) >>, 8, 0, <<TRUE>>,
           << Replicated, Replicated >>) :
      s \in {NoSharding, <<0, 2>>}, m1 \in {F, NoMetadata}, m2 \in {F, G, NoMetadata},
      m3 \in {F, G} }

(***************************************************************************)
(* A loop over microbatches, whose configuration is 1.  It carries x and   *)
(* y, passes on the invariant z and sums up the rest.                      *)
(***************************************************************************)
Loops ==
  { Module(<< Parameter(1, s, 2), Parameter(2, Replicated, 2), Constant(0, Entry),
              [Inst("microbatch_init", "", <<1>>, NoMetadata, Entry) EXCEPT !.cfg = cfg],
              Node("sharding", <<4>>, Entry),
              Node("tuple", <<5, 2, 2, 3>>, Entry), Node("while", <<6>>, Entry),
              GteOf(7, 1, Entry), GteOf(7, 4, Entry),
              Inst("compute", "post", <<8, 9>>, m3, Entry),
              Node("tuple", <<10, out>>, Entry),
              Node("arg", <<>>, Body), GteOf(12, 1, Body), GteOf(12, 2, Body),
              GteOf(12, 3, Body), GteOf(12, 4, Body),
              Inst("compute", "x", <<13, 15>>, m1, Body),
              Inst(o, "y", <<14, 17>>, m2, Body), Inst("add", "sum", <<16, 18>>, NoMetadata, Body),
              Node("tuple", <<17, carried, 15, 19>>, Body) >>, 11, 20, <<TRUE>>,
           << Replicated, Replicated >>) :
      s \in {NoSharding, <<0, 2>>}, cfg \in {0, 1}, m1 \in {F, NoMetadata}, m2 \in {F, G, NoMetadata},
      m3 \in {F, G, NoMetadata}, o \in {"compute", "barrier"}, carried \in {14, 18}, out \in {8, 9} }

\* The same, with a barrier over x and the invariant y at the end of the body: the loop
\* carries elements of the barrier.
BarrierLoops ==
  { Module(<< Parameter(1, NoSharding, 2), Parameter(2, Replicated, 2), Constant(0, Entry),
              [Inst("microbatch_init", "", <<1>>, NoMetadata, Entry) EXCEPT !.cfg = 1],
              Node("sharding", <<4>>, Entry),
              Node("tuple", <<5, 2, 2, 3>>, Entry), Node("while", <<6>>, Entry),
              GteOf(7, 1, Entry), GteOf(7, 4, Entry),
              Inst("compute", "post", <<8, 9>>, m3, Entry),
              Node("tuple", <<10, 9>>, Entry),
              Node("arg", <<>>, Body), GteOf(12, 1, Body), GteOf(12, 2, Body),
              GteOf(12, 3, Body), GteOf(12, 4, Body),
              Inst("compute", "x", <<13, 15>>, m1, Body),
              Node("tuple", IF first THEN <<14, 17>> ELSE <<17, 14>>, Body),
              Node("barrier", <<18>>, Body), GteOf(19, 1, Body), GteOf(19, 2, Body),
              Inst("add", "sum", <<16, 14, 17>>, NoMetadata, Body),
              Node("tuple", <<IF first THEN 21 ELSE 20, IF first THEN 20 ELSE 21, 15, 22>>,
                   Body) >>, 11, 23, <<TRUE>>, << Replicated, Replicated >>) :
      m1 \in {F, NoMetadata}, m3 \in {F, G}, first \in BOOLEAN }

\* A loop with a counter that slices its input, which may be read elsewhere too.
Slices ==
  { Module(<< Parameter(1, s, 2), Parameter(2, s, 1), Constant(0, Entry),
              [Inst("microbatch_init", "", <<1>>, NoMetadata, Entry) EXCEPT !.cfg = 1],
              Node(forward, <<4>>, Entry),
              Inst("microbatch", "", <<2>>, NoMetadata, Entry),
              Node("tuple", <<5, 6, 3>>, Entry), Node("while", <<7>>, Entry),
              GteOf(8, 2, Entry), GteOf(8, k, Entry),
              Node("tuple", <<9, out>>, Entry),
              Node("arg", <<>>, Body), GteOf(12, 1, Body), GteOf(12, 2, Body),
              GteOf(12, 3, Body), Node("offset", <<15>>, Body),
              Inst("dynamic_slice", "slice", <<13, 16>>, NoMetadata, Body),
              Node(marker, <<17>>, Body), Node("microbatch_slice", <<18>>, Body),
              Inst("compute", "acc", <<14, 19>>, m1, Body),
              Inst("inc", "inc", <<15>>, NoMetadata, Body),
              Node("tuple", <<13, 20, 21>>, Body) >>, 11, 22, ao,
           << Replicated, Replicated >>) :
      s \in {NoSharding, <<0, 2>>}, marker \in {"sharding", "autosharding", "copy"}, m1 \in {F, G, NoMetadata},
      k \in {2, 3}, ao \in {<<TRUE>>, <<FALSE>>}, forward \in {"sharding", "copy"},
      out \in {10, 5} }

MCPrograms == StraightLine \cup Concatenations \cup Loops \cup BarrierLoops \cup Slices
=============================================================================
