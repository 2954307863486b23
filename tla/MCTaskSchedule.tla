--------------------------- MODULE MCTaskSchedule ---------------------------
(***************************************************************************)
(* Small programs over two devices: A and B hold one each.  The identifiers*)
(* of a program ascend with its data flow.                                 *)
(***************************************************************************)
EXTENDS TaskSchedule

A == <<0, 1>>
B == <<1, 1>>
Both == <<0, 2>>

Node(op, in, mesh) ==
  [op |-> op, in |-> in, after |-> <<>>, at |-> mesh, shape |-> 2, shard |-> "replicated",
   index |-> 0, comp |-> 0, wants |-> <<>>, name |-> 0]

Param(number, mesh) == [Node("parameter", <<>>, mesh) EXCEPT !.index = number]

Call(comp, in, mesh) ==
  [Node("call", in, mesh) EXCEPT !.comp = comp, !.wants = [k \in DOMAIN in |-> "replicated"]]

Output(call, index, mesh) == [Node("gte", <<call>>, mesh) EXCEPT !.index = index]

Program(n, roots) ==
  Ordered([n |-> n, order |-> <<>>, roots |-> roots, alias |-> <<>>, donors |-> {},
           wanted |-> RootPlacements([n |-> n, roots |-> roots]),
           collective |-> [c \in 0 .. 20 |-> {}]])

\* The values of n nobody reads.
Unread(n) ==
  SetToSortSeq({i \in DOMAIN n : n[i].op = "gte" /\ \A u \in DOMAIN n : i \notin Elements(n[u].in)}, <)


\* Four tasks in a chain or in branches, on one mesh or two; a value may also be a result.
Flows ==
  {LET n == 1 :> Param(0, A) @@ 2 :> Call(2, <<1>>, A) @@ 3 :> Output(2, 0, A)
         @@ 4 :> Call(4, in2, m2) @@ 5 :> Output(4, 0, m2)
         @@ 6 :> Call(6, in3, m3) @@ 7 :> Output(6, 0, m3)
         @@ 8 :> Call(8, in4, m4) @@ 9 :> Output(8, 0, m4)
   IN  Program(n, Unread(n) \o extra) :
     m2 \in {A, B}, m3 \in {A, B}, m4 \in {A, B}, extra \in {<<>>, <<3>>},
     in2 \in {<<1>>, <<3>>}, in3 \in {<<5>>, <<1, 5>>, <<5, 3>>},
     in4 \in {<<7>>, <<5, 7>>, <<7, 3>>, <<1, 7>>}}

\* Two parameters that may be donated or aliased to a result, and two tasks.
Donations ==
  {LET n == 1 :> Param(0, A) @@ 2 :> [Param(1, A) EXCEPT !.shape = size]
         @@ 3 :> Call(3, in3, A) @@ 4 :> Output(3, 0, A) @@ 5 :> Output(3, 1, A)
         @@ 6 :> Call(6, in6, m6) @@ 7 :> Output(6, 0, m6)
   IN  [Program(n, Unread(n) \o extra) EXCEPT !.donors = donors, !.alias = alias] :
     size \in {2, 3}, m6 \in {A, B}, in3 \in {<<1>>, <<1, 2>>},
     in6 \in {<<4>>, <<1, 4>>, <<5, 2>>}, extra \in {<<>>, <<4>>},
     donors \in SUBSET {0, 1}, alias \in {<<>>, 0 :> 1, 0 :> 2}}

\* Two iterations of a loop of two tasks, f and g, whose calls share their computations; g
\* accumulates into what init computes.  The clones of the accumulator carry the name of the
\* first one (mpmd_loop_unroll.cc:204, 272).  A last task may reduce it in place.
Loops ==
  {LET Named3(node) == [node EXCEPT !.name = 3]
       After(c, node) == [node EXCEPT !.after = <<c>>]
       n == 1 :> Param(0, f) @@ 2 :> Call(2, <<1>>, g) @@ 3 :> Named3(Output(2, 0, g))
         @@ 14 :> Node("offset", <<>>, f) @@ 15 :> Node("offset", <<>>, f)
         @@ 4 :> Call(4, <<14, 1>>, f) @@ 5 :> Output(4, 0, f)
         @@ 6 :> Call(6, <<3, 5>>, g) @@ 7 :> Named3(Output(6, 0, g))
         @@ 8 :> After(4, Call(4, <<15, 1>>, f)) @@ 9 :> Output(8, 0, f)
         @@ 10 :> After(6, Call(6, <<7, 9>>, g)) @@ 11 :> Named3(Output(10, 0, g))
         @@ (IF last THEN 12 :> Call(12, <<11>>, g) @@ 13 :> Output(12, 0, g) ELSE <<>>)
   IN  [Program(n, Unread(n)) EXCEPT !.donors = donors,
          !.collective = [@ EXCEPT ![12] = reduces]] :
     f \in {A, B}, g \in {A, B}, last \in BOOLEAN, donors \in SUBSET {0},
     reduces \in {{}, {<<0, 1>>}}}

\* Results that are scalars or under a recolor wrapper, and shardings that differ.
Recolors ==
  {LET Shard(node) == [node EXCEPT !.shape = value[1], !.shard = value[2]]
       n == 1 :> Param(0, Both) @@ 2 :> [Call(2, <<1>>, m) EXCEPT !.wants = <<w>>]
         @@ 3 :> Shard(Output(2, 0, m))
         @@ 4 :> [Call(4, <<3, 1>>, m4) EXCEPT !.wants = <<value[2], w>>]
         @@ 5 :> [Output(4, 0, m4) EXCEPT !.shape = 1]
         @@ (IF root = <<>> THEN <<>> ELSE 6 :> [Shard(Node("recolor", <<3>>, root[1])) EXCEPT !.shard = root[2]])
   IN  Program(n, IF root = <<>> THEN <<5, 3>> ELSE <<6, 5>>) :
     m \in {A, Both}, w \in {"replicated", "tiled"}, m4 \in {A, B},
     value \in {<<1, "replicated">>, <<2, "replicated">>, <<2, "tiled">>},
     root \in {<<>>, <<A, "replicated">>, <<B, "tiled">>}}

\* A chain on A whose second value goes to B late in post order, after a chain on B.
Crossings ==
  {LET n == 1 :> Param(0, A) @@ 14 :> Param(1, B)
         @@ 2 :> Call(2, <<1>>, A) @@ 3 :> Output(2, 0, A)
         @@ 4 :> Call(4, <<3>>, A) @@ 5 :> Output(4, 0, A)
         @@ 6 :> Call(6, <<5>>, A) @@ 7 :> Output(6, 0, A)
         @@ 8 :> Call(8, <<14>>, B) @@ 9 :> Output(8, 0, B)
         @@ 10 :> Call(10, <<9>>, B) @@ 11 :> Output(10, 0, B)
         @@ 12 :> Call(12, in, B) @@ 13 :> Output(12, 0, B)
   IN  Program(n, roots) : in \in {<<11, 5>>, <<5, 11>>}, roots \in {<<7, 13>>, <<13, 7>>}}

Distinct(p) == \A j, k \in DOMAIN p.roots : p.roots[j] = p.roots[k] => j = k

MCAllDevices == Both

MCPrograms ==
  {Flattened(p) : p \in {q \in Flows \cup Donations \cup Loops \cup Recolors : Distinct(q)}}

MCCrossings == {Flattened(p) : p \in Crossings}
=============================================================================
