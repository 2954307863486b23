-------------------------------- MODULE Hlo --------------------------------
(***************************************************************************)
(* The HLO module as the partitioning passes see it: one entry computation,*)
(* at most one while loop, whose body is a computation, and the            *)
(* computations of tasks once the instructions are grouped.                *)
(*                                                                         *)
(* A module is a record [n, next, root, allowParam, allowOut, rootShard]:  *)
(* n maps instruction identifiers to nodes, next is the first free one,    *)
(* root maps a computation to its root tuple.  The shape of an instruction *)
(* is only its size; what an instruction computes is its name.             *)
(*                                                                         *)
(* The data structure itself belongs to XLA; InstructionProperties and the *)
(* helpers on top of it are mpmd_utils.cc and mpmd_instruction.cc.         *)
(***************************************************************************)
EXTENDS HloPartition, FiniteSets, FiniteSetsExt

(***************************************************************************)
(* A node.  op is the opcode, in the operands, idx a tuple index or a      *)
(* parameter number, comp the computation, cfg the backend configuration.  *)
(* A sharding is the device list of a tile assignment.                     *)
(***************************************************************************)
Entry == <<"entry", 0>>
Body == <<"body", 0>>
Task(k) == <<"task", k>>

NoSharding == <<0, 0>>

Replicated == <<-1, 0>>

HasSharding(node) == node.shard # NoSharding

Node(op, in, comp) ==
  [op |-> op, in |-> in, idx |-> 0, comp |-> comp, color |-> NoColor,
   shard |-> NoSharding, meta |-> NoMetadata, size |-> 2, name |-> "", cfg |-> 0]

\* A set of instructions by increasing identifier.
RECURSIVE Sorted(_)
Sorted(S) == IF S = {} THEN <<>> ELSE LET i == Min(S) IN <<i>> \o Sorted(S \ {i})

\* The least superset of S that contains all the More of it.
RECURSIVE Closure(_, _)
Closure(More(_), S) ==
  LET T == S \cup More(S) IN IF T = S THEN S ELSE Closure(More, T)

Ids(P, comp) == {i \in DOMAIN P.n : P.n[i].comp = comp}

Op(P, i) == P.n[i].op

Operands(P, i) == P.n[i].in

OperandSet(P, i) == ToSet(P.n[i].in)

Users(P, i) == {u \in DOMAIN P.n : i \in OperandSet(P, u)}

Root(P, comp) == P.n[P.root[comp]]

\* Nested loops are not modelled: the only while instruction, or none.
WhileLoops(P) == {i \in DOMAIN P.n : Op(P, i) = "while"}

HasLoop(P) == WhileLoops(P) # {}

InitTuple(P) == P.n[P.n[CHOOSE w \in WhileLoops(P) : TRUE].in[1]]

\* Instructions whose shape is a tuple.
IsTupleShaped(P, i) ==
  \/ Op(P, i) \in {"tuple", "while", "arg"}
  \/ Op(P, i) = "barrier" /\ Op(P, P.n[i].in[1]) = "tuple"

(***************************************************************************)
(* ComputeDepthMap: the longest path from an instruction to an argument.   *)
(* Levels are the instructions by depth, computed level by level.          *)
(***************************************************************************)
RECURSIVE LevelsFrom(_, _, _)
LevelsFrom(P, rest, levels) ==
  LET ready == {i \in rest : OperandSet(P, i) \cap rest = {}}
  IN  IF ready = {} THEN levels ELSE LevelsFrom(P, rest \ ready, Append(levels, ready))

Levels(P, comp) == LevelsFrom(P, Ids(P, comp), <<>>)

DepthMap(P, comp) ==
  LET levels == Levels(P, comp)
  IN  [i \in Ids(P, comp) |-> SelectInSeq(levels, LAMBDA L : i \in L) - 1]

(***************************************************************************)
(* MakeInstructionPostOrder of XLA: some order in which operands precede   *)
(* their users.  The passes may assume no more of it.                      *)
(***************************************************************************)
PostOrder(P, comp) ==
  FoldLeft(LAMBDA order, L : order \o Sorted(L), <<>>, Levels(P, comp))

TopologicalIndexMap(P, comp) ==
  LET order == PostOrder(P, comp)
  IN  [i \in Ids(P, comp) |-> SelectInSeq(order, LAMBDA j : j = i)]

\* The order of a pass that recurses into the loop body where it meets the loop.
RecursivePostOrder(P) ==
  LET order == PostOrder(P, Entry)
      body  == PostOrder(P, Body)
  IN  FlattenSeq([k \in DOMAIN order |->
        IF Op(P, order[k]) = "while" THEN <<order[k]>> \o body ELSE <<order[k]>>])

(***************************************************************************)
(* Editing a module: AddInstruction, ReplaceAllUsesWith (which spares the  *)
(* new producer itself), ReplaceOperandWith and RemoveInstruction of XLA.  *)
(***************************************************************************)
Update(P, nodes) == [P EXCEPT !.n = nodes @@ @]

FreshId(P) == P.next

AddNode(P, node) == [Update(P, P.next :> node) EXCEPT !.next = @ + 1]

ReplaceAllUsesWith(P, old, new) ==
  Update(P, [u \in Users(P, old) \ {new} |->
    [P.n[u] EXCEPT !.in = [k \in DOMAIN @ |-> IF @[k] = old THEN new ELSE @[k]]]])

ReplaceOperandWith(P, i, k, new) ==
  [P EXCEPT !.n[i].in = SubSeq(@, 1, k - 1) \o <<new>> \o SubSeq(@, k + 1, Len(@))]

RemoveNodes(P, S) == [P EXCEPT !.n = Tabulated([i \in DOMAIN @ \ S |-> @[i]])]

(***************************************************************************)
(* RemoveInstructionBackToParameters, and RemoveInstructionAndUnused-      *)
(* Operands of XLA: i goes if it has no user, then the operands that have  *)
(* lost their last user, never a parameter.                                *)
(***************************************************************************)
RemoveBackToParameters(P, i) ==
  LET Dead(S) == {j \in DOMAIN P.n \ S :
                    /\ Op(P, j) \notin {"parameter", "arg"}
                    /\ \E u \in S : j \in OperandSet(P, u)
                    /\ Users(P, j) \subseteq S}
  IN  IF Users(P, i) # {} \/ Op(P, i) \in {"parameter", "arg"} THEN P
      ELSE RemoveNodes(P, Closure(Dead, {i}))

(***************************************************************************)
(* Aliases of InstructionProperties.  A user of the body's argument tuple  *)
(* goes back to the operand of the loop's input tuple, a user of the loop  *)
(* to the operand of the body's root, a user of a barrier to the operand   *)
(* of its tuple; an operand of the body's root goes forward to the user of *)
(* the loop with its index, the last one if there are several.             *)
(***************************************************************************)
BackwardAlias(P, i) ==
  IF Op(P, i) # "gte" THEN 0
  ELSE LET src == P.n[i].in[1]
       IN  CASE Op(P, src) = "arg"     -> InitTuple(P).in[P.n[i].idx]
             [] Op(P, src) = "while"   -> Root(P, Body).in[P.n[i].idx]
             [] Op(P, src) = "barrier" -> P.n[P.n[src].in[1]].in[P.n[i].idx]
             [] OTHER                  -> 0

ForwardAlias(P, i) ==
  LET users == {u \in DOMAIN P.n :
                  /\ Op(P, u) = "gte" /\ Op(P, P.n[u].in[1]) = "while"
                  /\ Root(P, Body).in[P.n[u].idx] = i}
  IN  IF P.n[i].comp = Entry \/ users = {} THEN 0 ELSE Max(users)

\* ForEachBackwardAlias, ForEachForwardAlias, ForEachAlias: what they visit, in order.
BackwardAliases(P, i) ==
  LET chain[j \in DOMAIN P.n] ==
        LET b == BackwardAlias(P, j) IN IF b = 0 THEN <<>> ELSE <<b>> \o chain[b]
  IN  chain[i]

ForwardAliases(P, i) ==
  LET chain[j \in DOMAIN P.n] ==
        LET f == ForwardAlias(P, j) IN IF f = 0 THEN <<>> ELSE <<f>> \o chain[f]
  IN  chain[i]

Aliases(P, i) == BackwardAliases(P, i) \o ForwardAliases(P, i)

\* InstructionProperties::Operands and Users go to the far end of the alias chain.
AliasOperands(P, i) == Operands(P, Last(<<i>> \o BackwardAliases(P, i)))

AliasUsers(P, i) ==
  Sorted(Users(P, Last(<<i>> \o ForwardAliases(P, i))))

\* What the call of a task passes to its parameter p.
TaskOperand(P, p) == P.n[P.n[p].comp[2]].in[P.n[p].idx]

(***************************************************************************)
(* Forward properties: what an instruction is derived from.  A constant,   *)
(* or an entry parameter, through reshape, transpose, broadcast, convert   *)
(* and into the loop.  A user of the loop copies the entry of its alias    *)
(* before the body is visited, when only users of the argument tuple have  *)
(* one.                                                                    *)
(***************************************************************************)
DerivedFrom(P, ops, i) ==
  LET derived[j \in DOMAIN P.n] ==
        \/ Op(P, j) = "constant"
        \/ Op(P, j) \in ops /\ P.n[j].comp = Entry
        \/ Op(P, j) \in {"reshape", "broadcast"} /\ derived[P.n[j].in[1]]
        \/ Op(P, j) = "parameter" /\ P.n[j].comp # Entry /\ derived[TaskOperand(P, j)]
        \/ /\ Op(P, j) = "gte"
           /\ LET src == Op(P, P.n[j].in[1])
                  b   == BackwardAlias(P, j)
              IN  \/ src = "arg" /\ derived[b]
                  \/ /\ src = "while" /\ Op(P, b) = "gte"
                     /\ Op(P, P.n[b].in[1]) = "arg" /\ derived[b]
  IN  derived[i]

DerivedConstant(P, i) == DerivedFrom(P, {}, i)

DerivedInput(P, i) == DerivedFrom(P, {"parameter"}, i)

\* parameter_number, inherited by the loop's copies of an entry parameter.
ParameterNumber(P, i) ==
  LET ends == <<i>> \o BackwardAliases(P, i)
      p    == Last(ends)
  IN  IF Op(P, p) = "parameter" /\ \A k \in 1..(Len(ends) - 1) : Op(P, ends[k]) = "gte"
      THEN P.n[p].idx ELSE 0

AllowOverride(index, override) ==
  IF index <= Len(override) THEN override[index]
  ELSE override # <<>> /\ override[1]

(***************************************************************************)
(* The color attribute.                                                    *)
(***************************************************************************)
Color(P, i) == P.n[i].color

IsAssignedColor(P, i) == Color(P, i) # NoColor

AssignColor(P, i, c) == [P EXCEPT !.n[i].color = c]

AssignAll(P, S, c) == Update(P, [i \in S |-> [P.n[i] EXCEPT !.color = c]])

\* Mutant: a color that is there is overwritten.
AssignAllOf(P, seq, c) == AssignAll(P, ToSet(seq), c)

\* Assigns c to those of seq that have no color yet.
AssignUnassigned(P, seq, c) ==
  Update(P, [i \in {j \in ToSet(seq) : P.n[j].color = NoColor} |->
               [P.n[i] EXCEPT !.color = c]])

\* A tuple takes a color when all its operands have one and it is the same.
ColorTuple(P, i) ==
  LET colors == {Color(P, o) : o \in OperandSet(P, i)}
  IN  IF Cardinality(colors) = 1 /\ NoColor \notin colors
      THEN AssignColor(P, i, CHOOSE c \in colors : TRUE) ELSE P
=============================================================================
