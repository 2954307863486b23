------------------------------ MODULE HloTasks ------------------------------
(***************************************************************************)
(* Modules in grouped form: calls of task computations, and what the       *)
(* passes that build, merge, split and inline tasks have in common.        *)
(***************************************************************************)
EXTENDS HloSemantics

IsCall(P, i) == Op(P, i) = "call"

Calls(P) == {i \in DOMAIN P.n : IsCall(P, i)}

TaskRoots(P, c) == Root(P, Task(c)).in

TaskParameters(P, c) == {i \in Ids(P, Task(c)) : Op(P, i) = "parameter"}

\* The instructions of a task without its parameters and its root tuple.
TaskInstructions(P, c) ==
  SelectSeq(PostOrder(P, Task(c)),
            LAMBDA i : Op(P, i) # "parameter" /\ i # P.root[Task(c)])

\* The get-tuple-element users of a call.
TaskOutputs(P, c) == Sorted(Users(P, c))

\* The instruction of the task that a get-tuple-element of its call stands for.
MatchingRoot(P, u) == TaskRoots(P, P.n[u].in[1])[P.n[u].idx]

\* ExecutesBefore of DependencyHloOrdering, within one computation.
ExecutesBefore(P, a, b) ==
  a # b /\ a \in Closure(LAMBDA S : UNION {OperandSet(P, i) : i \in S}, {b})

\* ValidateCircularDependencies.
Acyclic(P) ==
  \A comp \in DOMAIN P.root : UNION ToSet(Levels(P, comp)) = Ids(P, comp)

\* Mutant: the computation of an erased call stays.
RemoveCallsOnly(P, calls) == RemoveNodes(P, calls)

RemoveCalls(P, calls) ==
  LET tasks == {Task(c) : c \in calls}
      dead  == {i \in DOMAIN P.n : i \in calls \/ P.n[i].comp \in tasks}
  IN  [RemoveNodes(P, dead) EXCEPT
         !.root = [comp \in DOMAIN @ \ tasks |-> @[comp]]]

\* RemoveUnusedInstructions: what the root of comp does not need, parameters excepted.
RemoveUnusedInstructions(P, comp) ==
  LET live == Closure(LAMBDA S : UNION {OperandSet(P, i) : i \in S}, {P.root[comp]})
      dead == {i \in Ids(P, comp) \ live : Op(P, i) \notin {"parameter", "arg"}}
  IN  RemoveNodes(RemoveCalls(P, {i \in dead : IsCall(P, i)}), dead)

\* HloDCE of XLA.
Dce(P) ==
  FoldSet(LAMBDA comp, Q : IF comp \in DOMAIN Q.root THEN RemoveUnusedInstructions(Q, comp)
                           ELSE Q,
          FoldSet(LAMBDA comp, Q : RemoveUnusedInstructions(Q, comp), P,
                  DOMAIN P.root \cap {Entry, Body}),
          DOMAIN P.root \ {Entry, Body})

(***************************************************************************)
(* A new task, called in the computation parent.  t names what it is made  *)
(* of: the instructions that become parameters, args, the operands of the  *)
(* call, insts, the instructions to clone, rep, which takes an instruction *)
(* to the one that stands for it if it is not itself, and roots.  Those in *)
(* recolor take the color of the task, the others keep theirs.             *)
(***************************************************************************)
NewTask(P, parent, color, t) ==
  LET k      == P.next
      keys   == t.params \o t.insts
      New(i) == k + SelectInSeq(keys, LAMBDA x : x = ValueOr(t.rep, i, i))
      last   == k + Len(keys) + 1
      Colored(i, node) == [node EXCEPT !.comp = Task(k),
                             !.color = IF i \in t.recolor THEN color ELSE @]
      Clone(m) ==
        LET i == keys[m]
        IN  IF m <= Len(t.params)
            THEN Colored(i, [Node("parameter", <<>>, parent) EXCEPT !.idx = m,
                               !.shard = P.n[i].shard, !.size = P.n[i].size,
                               !.color = P.n[i].color])
            ELSE Colored(i, [P.n[i] EXCEPT !.in = [j \in DOMAIN @ |-> New(@[j])]])
      nodes  == [id \in k..last |->
                   CASE id = k    -> [Node("call", t.args, parent) EXCEPT !.color = color]
                     [] id = last -> Node("tuple", [j \in DOMAIN t.roots |-> New(t.roots[j])],
                                          Task(k))
                     [] OTHER     -> Clone(id - k)]
  IN  [Update(P, nodes) EXCEPT !.next = last + 1, !.root = Put(@, Task(k), last)]

\* Mutant: the first output stands for all.
ReplaceWithFirstOutput(P, old, call, k, color, shard) ==
  ReplaceAllUsesWith(
    AddNode(P, [Node("gte", <<call>>, P.n[call].comp) EXCEPT !.idx = 1, !.color = color]),
    old, FreshId(P))

\* Output k of the call replaces every use of old.
ReplaceWithOutput(P, old, call, k, color, shard) ==
  LET gte == [Node("gte", <<call>>, P.n[call].comp) EXCEPT !.idx = k, !.color = color,
                !.shard = shard, !.size = P.n[old].size]
  IN  ReplaceAllUsesWith(AddNode(P, gte), old, FreshId(P))

(***************************************************************************)
(* ColorSortedPostorder: a depth-first search with its stack.  A color     *)
(* gets a higher priority each time the search comes to it from another    *)
(* one, and among the operands those of the lowest priority come first.    *)
(***************************************************************************)
SortedOperands(P, in, priority, highest) ==
  LET Prio(o) == ValueOr(priority, Color(P, o), 0)
  IN  FlattenSeq([v \in 1..(highest + 1) |->
        SelectSeq(in, LAMBDA o : IsAssignedColor(P, o) /\ Prio(o) = highest + 1 - v)])
      \o SelectSeq(in, LAMBDA o : ~IsAssignedColor(P, o))

RECURSIVE ColorDfs(_, _)
ColorDfs(P, s) ==
  LET i       == Last(s.stack)
      c       == Color(P, i)
      entered == c # NoColor /\ c # s.color
      n       == IF entered THEN s.n + 1 ELSE s.n
      prio    == IF entered THEN Put(s.priority, c, n) ELSE s.priority
  IN  IF s.stack = <<>> THEN s.order
      ELSE IF i \notin s.open
      THEN ColorDfs(P, [s EXCEPT !.open = @ \cup {i}, !.n = n, !.priority = prio,
                          !.color = IF entered THEN c ELSE @,
                          !.stack = @ \o SortedOperands(P, P.n[i].in, prio, n)])
      ELSE ColorDfs(P, [s EXCEPT !.stack = Front(@), !.done = @ \cup {i},
                          !.order = IF i \in s.done THEN @ ELSE Append(@, i)])

ColorSortedPostorder(P, comp) ==
  ColorDfs(P, [stack |-> <<P.root[comp]>>, open |-> {}, done |-> {}, order |-> <<>>,
               color |-> NoColor, priority |-> Empty, n |-> 0])
=============================================================================
