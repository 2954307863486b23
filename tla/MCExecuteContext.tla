--------------------------- MODULE MCExecuteContext ---------------------------
(* Instances of ExecuteContext. *)
EXTENDS ExecuteContext, TLC

Task(devices, concurrent, loop, reads, writes) ==
  [kind |-> "task", devices |-> devices, run |-> 1, loop |-> loop,
   concurrent |-> concurrent, reads |-> reads, writes |-> writes]

Copy(devices, reads, writes) ==
  [kind |-> "reshard", devices |-> devices, run |-> 1, loop |-> FALSE,
   concurrent |-> FALSE, reads |-> reads, writes |-> writes]

\* A task with collectives, a task and a task of a loop on one device each, and
\* a reshard.
Kinds ==
  { Task({0, 1}, TRUE, FALSE, {1}, {2}),
    Task({0}, FALSE, FALSE, {}, {3}),
    Task({1}, FALSE, TRUE, {2}, {1}),
    Copy({0, 1}, {2}, {1}) }

\* Three different operations, the last one in a run of its own.
TwoRuns ==
  { [n \in 1 .. 3 |-> [s[n] EXCEPT !.run = IF n = 3 THEN 2 ELSE 1]] :
      s \in Injection(1 .. 3, Kinds) }

\* Independent collectives on overlapping sets of devices; one process has two.
Overlapping ==
  { [n \in 1 .. 3 |-> Task(s[n], TRUE, FALSE, {}, {n})] :
      s \in [1 .. 3 -> {{0, 1}, {1, 2}, {0, 2}}] }

\* Two runs, or collectives that could form a cycle.
TwoRunsOrOverlapping == TwoRuns \cup Overlapping

ThreeDevices == (0 :> "p") @@ (1 :> "q") @@ (2 :> "q")
=============================================================================
