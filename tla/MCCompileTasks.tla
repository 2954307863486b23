--------------------------- MODULE MCCompileTasks ---------------------------
(***************************************************************************)
(* Instances of CompileTasks.  One client: two modules on overlapping      *)
(* devices, one of them executed twice (a loop body), and a module of a    *)
(* remote process.  The fast path: one small module.  Two clients: a module*)
(* each.                                                                   *)
(***************************************************************************)
EXTENDS CompileTasks

CONSTANTS c1, c2, m1, m2, m3

Task(m, devs) == [module |-> m, devices |-> devs]

OneClient ==
  [c \in {c1} |-> <<Task(m1, {0, 1, 2}), Task(m3, {}), Task(m2, {0, 1}),
                    Task(m1, {0, 1, 2})>>]

FastPathClient == [c \in {c1} |-> <<Task(m1, {0, 1, 2, 3})>>]

TwoClients ==
  [c \in {c1, c2} |-> IF c = c1 THEN <<Task(m1, {0})>> ELSE <<Task(m2, {1})>>]
=============================================================================
