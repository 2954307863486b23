---------------------------- MODULE TaskDataflow ----------------------------
(***************************************************************************)
(* What the schedule of an executable promises, without buffers: every call*)
(* and every reshard of the program runs, after those whose values it      *)
(* reads, and result k becomes the value the root tuple names.             *)
(***************************************************************************)
EXTENDS TaskProgram

VARIABLES
  program,   \* any program, fixed
  computed,  \* the operations that have run
  result     \* output number -> the value returned, 0 before it is computed

vars == <<program, computed, result>>

Producer(p, v) == IF Op(p, v) = "gte" THEN p.n[v].in[1] ELSE v

Init ==
  /\ computed = {}
  /\ result = [k \in DOMAIN program.roots |-> 0]

IsReady(i) ==
  \A v \in Sources(program, i) :
    Op(program, v) = "parameter" \/ Producer(program, v) \in computed

Compute(i) ==
  /\ i \notin computed /\ IsReady(i)
  /\ computed' = computed \cup {i}
  /\ result' = [k \in DOMAIN program.roots |->
                  IF Producer(program, program.roots[k]) = i THEN program.roots[k]
                  ELSE result[k]]
  /\ UNCHANGED program

Next == \E i \in Operations(program) : Compute(i)

Spec == Init /\ [][Next]_vars /\ WF_vars(Next)
=============================================================================
