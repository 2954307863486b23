------------------------ MODULE ExecuteContextProofs ------------------------
(***************************************************************************)
(* The order in which tasks are launched, for all processes, devices and   *)
(* programs.  The chain of control events of a device links each task with *)
(* strict ordering to the one before it, so that what is launched is closed*)
(* under that order.                                                       *)
(***************************************************************************)
EXTENDS ExecuteContext, Induction, TLAPS, SequenceTheorems

\* A process that dispatches is at an operation of the program.
HostInv ==
  /\ \A p \in Processes : todo[p] \subseteq Local(p)
  /\ \A p \in Processes : pc[p] \in {"open", "dispatch"} => op[p] \in Operations

\* The loops of Execute have passed operation n on device d.
Served(n, d) ==
  \/ n < op[Owner[d]]
  \/ n = op[Owner[d]] /\ pc[Owner[d]] = "dispatch" /\ d \notin todo[Owner[d]]

\* What is deferred on a device is what the loops have passed.
DeferInv ==
  \A d \in Devices : \A n \in Operations :
    n \in deferred[d] <=> d \in On(n) /\ Served(n, d)

Strict(d) == {n \in deferred[d] : IsTask(n) /\ StrictOrdering(n)}

\* The last control event is that of the last strict task, and the order event
\* of a strict task is that of the strict task before it.
ControlInv ==
  \A d \in Devices :
    /\ last_control_events[d] \in Strict(d) \cup {NO_USER_EVENT}
    /\ \A n \in Strict(d) : n <= last_control_events[d]
    /\ \A n \in Strict(d) : \A m \in Strict(d) :
         m < n => m <= order_event[d][n] /\ order_event[d][n] < n
    /\ \A n \in Strict(d) :
         order_event[d][n] \in Strict(d) \cup {NO_USER_EVENT}

\* Tasks are launched once they are deferred, the strict ones in order.
StreamInv ==
  \A d \in Devices :
    /\ \A n \in Launched(d) : n \in deferred[d] /\ IsTask(n)
    /\ \A n \in Launched(d) : \A m \in Strict(d) :
         StrictOrdering(n) /\ m < n => m \in Launched(d)
    /\ \A i, j \in DOMAIN stream[d] :
         i < j /\ StrictOrdering(stream[d][i]) /\ StrictOrdering(stream[d][j])
           => stream[d][i] < stream[d][j]

Inv == TypeOK /\ HostInv /\ DeferInv /\ ControlInv /\ StreamInv
-----------------------------------------------------------------------------

\* What the assumption says of the program that is executed.
LEMMA ProgramFacts ==
  ASSUME ops \in Programs
  PROVE  /\ Len(ops) \in Nat \ {0}
         /\ Operations = 1 .. Len(ops)
         /\ \A n \in Operations : IsOperation(ops[n]) /\ On(n) \subseteq Devices
<1>1. IsProgram(ops)
  BY ProgramsAssumption
<1>2. Len(ops) \in Nat \ {0} /\ Operations = 1 .. Len(ops)
  BY <1>1 DEF IsProgram, Operations
<1>3. \A n \in Operations : IsOperation(ops[n])
  BY <1>1, <1>2 DEF IsProgram
<1>4. \A n \in Operations : On(n) \subseteq Devices
  BY <1>3 DEF IsOperation, On
<1> QED
  BY <1>2, <1>3, <1>4

\* Launching a task appends it to the stream.
LEMMA AppendFacts ==
  ASSUME NEW S, NEW s \in Seq(S), NEW e \in S
  PROVE  /\ Append(s, e) \in Seq(S)
         /\ Len(s) \in Nat
         /\ DOMAIN s = 1 .. Len(s)
         /\ DOMAIN Append(s, e) = 1 .. Len(s) + 1
         /\ \A i \in 1 .. Len(s) : Append(s, e)[i] = s[i]
         /\ Append(s, e)[Len(s) + 1] = e
         /\ Range(Append(s, e)) = Range(s) \cup {e}
<1>1. /\ Append(s, e) \in Seq(S) /\ Len(Append(s, e)) = Len(s) + 1
      /\ \A i \in 1 .. Len(s) : Append(s, e)[i] = s[i]
      /\ Append(s, e)[Len(s) + 1] = e
  BY AppendProperties
<1>2. Len(s) \in Nat /\ DOMAIN s = 1 .. Len(s)
  BY LenProperties
<1>3. DOMAIN Append(s, e) = 1 .. Len(s) + 1
  BY <1>1, LenProperties
<1>4. Range(Append(s, e)) = Range(s) \cup {e}
  BY <1>1, <1>2, <1>3 DEF Range
<1> QED
  BY <1>1, <1>2, <1>3, <1>4

\* The invariant holds initially.
LEMMA InitInv == Init => Inv
<1> SUFFICES ASSUME Init PROVE Inv
  OBVIOUS
<1>0. ops \in Programs
  BY DEF Init
<1>1. TypeOK
  <2>1. 1 \in 1 .. Len(ops) + 1
    BY <1>0, ProgramFacts
  <2>2. << >> \in Seq(Operations) /\ << >> \in Seq(SUBSET (Devices \X Operations))
        /\ << >> \in Seq(SUBSET Operations)
    BY EmptySeq
  <2>3. \A d \in Devices : \A n \in deferred[d] : d \in On(n)
    BY DEF Init
  <2> QED
    BY <2>1, <2>2, <2>3 DEF Init, TypeOK
<1>2. HostInv
  BY <1>0, ProgramFacts DEF Init, HostInv
<1>3. DeferInv
  <2>1. \A d \in Devices : Owner[d] \in Processes
    BY ProgramsAssumption
  <2> QED
    BY <1>0, <2>1, ProgramFacts DEF Init, DeferInv, Served
<1>4. ControlInv
  BY DEF Init, ControlInv, Strict
<1>5. StreamInv
  <2>1. \A d \in Devices : DOMAIN stream[d] = {} /\ Launched(d) = {}
    BY EmptySeq DEF Init, Launched, Range
  <2> QED
    BY <2>1 DEF StreamInv
<1> QED
  BY <1>1, <1>2, <1>3, <1>4, <1>5 DEF Inv

-----------------------------------------------------------------------------

\* ControlInv and StreamInv only depend on what is deferred, on the chain of
\* control events and on the streams.
LEMMA ChainUnchanged ==
  ASSUME Inv, UNCHANGED <<ops, static_schedule_all_tasks, deferred, order_event,
                          last_control_events, stream>>
  PROVE  ControlInv' /\ StreamInv'
<1>1. \A d \in Devices : Strict(d)' = Strict(d) /\ Launched(d)' = Launched(d)
  BY DEF Strict, Launched, IsTask, StrictOrdering
<1>2. ControlInv'
  BY <1>1 DEF Inv, ControlInv
<1>3. StreamInv'
  BY <1>1 DEF Inv, StreamInv, IsTask, StrictOrdering
<1> QED
  BY <1>2, <1>3

\* A step of the devices leaves the processes and what they deferred alone.
LEMMA HostUnchanged ==
  ASSUME Inv, UNCHANGED <<ops, hostVars, deferred>>
  PROVE  HostInv' /\ DeferInv'
<1>1. HostInv'
  BY DEF Inv, HostInv, hostVars, Operations, Local
<1>2. DeferInv'
  BY DEF Inv, DeferInv, Served, hostVars, Operations, On
<1> QED
  BY <1>1, <1>2

\* OpenWindow gets a process ready to dispatch.
LEMMA OpenWindowInv ==
  ASSUME Inv, NEW p \in Processes, OpenWindow(p) PROVE Inv'
<1>1. /\ pc[p] = "open" /\ op' = op /\ deferred' = deferred /\ ops' = ops
      /\ \/ pc' = pc /\ todo' = todo
         \/ /\ pc' = [pc EXCEPT ![p] = "dispatch"]
            /\ todo' = [todo EXCEPT ![p] = Local(p)]
  BY DEF OpenWindow, runtimeVars
<1>2. TypeOK
  BY DEF Inv
<1>3. TypeOK'
  <2>1. window_markers' \in [Processes -> Seq(SUBSET (Devices \X Operations))]
    <3>1. CASE window_markers' = window_markers
      BY <1>2, <3>1 DEF TypeOK
    <3>2. CASE /\ Len(window_markers[p]) >= kMaxOpenWindows
               /\ window_markers' = [window_markers EXCEPT ![p] = Tail(window_markers[p])]
      <4>1. window_markers[p] \in Seq(SUBSET (Devices \X Operations))
        BY <1>2 DEF TypeOK
      <4>2. window_markers[p] # << >>
        BY <3>2, <4>1, EmptySeq DEF kMaxOpenWindows
      <4>3. Tail(window_markers[p]) \in Seq(SUBSET (Devices \X Operations))
        BY <4>1, <4>2, HeadTailProperties
      <4> QED
        BY <1>2, <3>2, <4>3 DEF TypeOK
    <3> QED
      BY <3>1, <3>2 DEF OpenWindow
  <2>2. /\ pc' \in [Processes -> {"open", "dispatch", "callbacks", "close", "exit",
                                 "stopped"}]
        /\ todo' \in [Processes -> SUBSET Devices]
    <3>1. Local(p) \subseteq Devices
      BY DEF Local
    <3> QED
      BY <1>1, <1>2, <3>1, ZenonT(30) DEF TypeOK
  <2>3. UNCHANGED <<Operations, ops, static_schedule_all_tasks, run, op,
                    last_control_events, last_execute_events,
                    sync_all_execution_event, deferred, order_event, stream, done,
                    callbacks, future>>
    BY DEF OpenWindow, eventVars, runtimeVars, Operations
  <2> QED
    BY <1>2, <2>1, <2>2, <2>3 DEF TypeOK, On
<1>4. HostInv'
  <2>1. \A q \in Processes : Local(q)' = Local(q)
    BY DEF Local
  <2>2. \A q \in Processes : todo'[q] = todo[q] \/ todo'[q] = Local(q)
    BY <1>1, <1>2 DEF TypeOK
  <2>3. \A q \in Processes : pc'[q] = pc[q] \/ (pc[q] = "open" /\ pc'[q] = "dispatch")
    BY <1>1, <1>2 DEF TypeOK
  <2>4. Operations' = Operations
    BY <1>1 DEF Operations
  <2> QED
    BY <1>1, <2>1, <2>2, <2>3, <2>4 DEF Inv, HostInv
<1>5. DeferInv'
  <2>1. ASSUME NEW d \in Devices, NEW n \in Operations
        PROVE  Served(n, d)' <=> Served(n, d)
    <3>1. Owner[d] \in Processes
      BY ProgramsAssumption
    <3>2. Owner[d] = p => d \in Local(p)
      BY DEF Local
    <3> QED
      BY <1>1, <1>2, <3>1, <3>2 DEF Served, TypeOK
  <2> QED
    BY <1>1, <2>1 DEF Inv, DeferInv, Operations, On
<1>6. ControlInv' /\ StreamInv'
  BY ChainUnchanged DEF OpenWindow, eventVars, runtimeVars
<1> QED
  BY <1>3, <1>4, <1>5, <1>6 DEF Inv

\* An operation is served on the devices one after the other, and the next one
\* begins when none is left.
LEMMA ServeInv ==
  ASSUME Inv, NEW p \in Processes, NEW d \in todo[p], pc[p] = "dispatch",
         Defer(op[p], d), NextDevice(p, d), UNCHANGED <<ops, run>>
  PROVE  /\ HostInv' /\ DeferInv'
         /\ d \in Devices /\ op[p] \in Operations
         /\ pc' \in [Processes -> {"open", "dispatch", "callbacks", "close", "exit",
                                   "stopped"}]
         /\ op' \in [Processes -> 1 .. Len(ops) + 1]
         /\ todo' \in [Processes -> SUBSET Devices]
         /\ deferred' \in [Devices -> SUBSET Operations]
         /\ \A e \in Devices : \A n \in deferred'[e] : e \in On(n)
         /\ \A n \in deferred[d] : n < op[p]
<1>1. TypeOK
  BY DEF Inv
<1>2. /\ d \in Local(p) /\ d \in Devices /\ Owner[d] = p
      /\ op[p] \in Operations
  BY DEF Inv, HostInv, Local
<1>3. /\ Len(ops) \in Nat \ {0} /\ Operations = 1 .. Len(ops)
      /\ op[p] \in 1 .. Len(ops)
  BY <1>1, <1>2, ProgramFacts DEF TypeOK
<1>4. \A e \in Devices : Owner[e] \in Processes
  BY ProgramsAssumption
<1>5. /\ pc' \in [Processes -> {"open", "dispatch", "callbacks", "close", "exit",
                                "stopped"}]
      /\ op' \in [Processes -> 1 .. Len(ops) + 1]
      /\ todo' \in [Processes -> SUBSET Devices]
  <2>1. Local(p) \subseteq Devices /\ op[p] + 1 \in 1 .. Len(ops) + 1
    BY <1>3 DEF Local
  <2>2. /\ pc \in [Processes -> {"open", "dispatch", "callbacks", "close", "exit",
                                "stopped"}]
        /\ op \in [Processes -> 1 .. Len(ops) + 1]
        /\ todo \in [Processes -> SUBSET Devices]
    BY <1>1 DEF TypeOK
  <2>3. CASE todo[p] = {d}
    <3>1. op' \in [Processes -> 1 .. Len(ops) + 1]
      BY <2>1, <2>2, <2>3 DEF NextDevice
    <3>2. todo' \in [Processes -> SUBSET Devices]
      BY <2>1, <2>2, <2>3 DEF NextDevice
    <3>3. pc' = [pc EXCEPT ![p] = "callbacks"] \/ pc' = pc
      BY <2>2, <2>3 DEF NextDevice
    <3> QED
      BY <2>2, <3>1, <3>2, <3>3
  <2>4. CASE todo[p] # {d}
    <3>1. todo' = [todo EXCEPT ![p] = todo[p] \ {d}] /\ op' = op /\ pc' = pc
      BY <2>4 DEF NextDevice
    <3>2. todo[p] \ {d} \in SUBSET Devices
      BY <2>2
    <3> QED
      BY <2>2, <3>1, <3>2
  <2> QED
    BY <2>3, <2>4
<1>6. /\ deferred' \in [Devices -> SUBSET Operations]
      /\ \A e \in Devices : \A n \in deferred'[e] : e \in On(n)
      /\ \A e \in Devices \ {d} : deferred'[e] = deferred[e]
      /\ deferred'[d] = IF d \in On(op[p]) THEN deferred[d] \cup {op[p]} ELSE deferred[d]
  BY <1>1, <1>2 DEF TypeOK, Defer
<1>7. \A n \in deferred[d] : n < op[p]
  <2>1. \A n \in deferred[d] : n \in Operations
    BY <1>1, <1>2 DEF TypeOK
  <2> QED
    BY <1>2, <2>1 DEF Inv, DeferInv, Served
<1>8. HostInv'
  <2>1. \A q \in Processes : Local(q)' = Local(q)
    BY DEF Local
  <2>2. \A q \in Processes : todo'[q] \subseteq todo[q] \/ todo'[q] = Local(q)
    <3>1. todo \in [Processes -> SUBSET Devices]
      BY <1>1 DEF TypeOK
    <3>2. \/ todo' = [todo EXCEPT ![p] = Local(p)]
          \/ todo' = [todo EXCEPT ![p] = todo[p] \ {d}]
      BY DEF NextDevice
    <3> QED
      BY <3>1, <3>2
  <2>3. \A q \in Processes \ {p} : pc'[q] = pc[q] /\ op'[q] = op[q]
    BY <1>1 DEF TypeOK, NextDevice
  <2>4. Operations' = Operations
    BY DEF Operations
  <2>5. pc'[p] \in {"open", "dispatch"} => op'[p] \in Operations
    <3>1. CASE todo[p] = {d}
      <4>1. /\ op'[p] = op[p] + 1
            /\ pc'[p] = IF op[p] = Len(ops) \/ ops[op[p] + 1].run # run[p]
                          THEN "callbacks" ELSE pc[p]
        BY <1>1, <3>1 DEF TypeOK, NextDevice
      <4> QED
        BY <1>3, <4>1
    <3>2. CASE todo[p] # {d}
      BY <1>2, <3>2 DEF NextDevice
    <3> QED
      BY <3>1, <3>2
  <2>6. \A q \in Processes : todo'[q] \subseteq Local(q)
    BY <2>2 DEF Inv, HostInv
  <2>7. \A q \in Processes : pc'[q] \in {"open", "dispatch"} => op'[q] \in Operations
    BY <2>3, <2>5 DEF Inv, HostInv
  <2> QED
    BY <2>1, <2>4, <2>6, <2>7 DEF HostInv
<1>9. DeferInv'
  <2>1. ASSUME NEW e \in Devices, NEW n \in Operations
        PROVE  Served(n, e)' <=> Served(n, e) \/ (e = d /\ n = op[p])
    <3>1. Owner[e] \in Processes /\ n \in Nat /\ op[Owner[e]] \in Nat /\ op[p] \in Nat
      BY <1>1, <1>3, <1>4, SMTT(30) DEF TypeOK
    <3>2. CASE Owner[e] # p
      <4>1. /\ pc'[Owner[e]] = pc[Owner[e]] /\ op'[Owner[e]] = op[Owner[e]]
            /\ todo'[Owner[e]] = todo[Owner[e]]
        BY <1>1, <3>1, <3>2 DEF TypeOK, NextDevice
      <4> QED
        BY <1>2, <3>2, <4>1 DEF Served
    <3>3. CASE Owner[e] = p /\ todo[p] # {d}
      <4>1. pc' = pc /\ op' = op /\ todo'[p] = todo[p] \ {d}
        BY <1>1, <3>3 DEF TypeOK, NextDevice
      <4> QED
        BY <3>3, <4>1 DEF Served
    <3>4. CASE Owner[e] = p /\ todo[p] = {d}
      <4>1. op'[p] = op[p] + 1 /\ todo'[p] = Local(p)
        BY <1>1, <3>4 DEF TypeOK, NextDevice
      <4>2. e \in Local(p)
        BY <3>4 DEF Local
      <4>3. Served(n, e)' <=> n <= op[p]
        BY <3>1, <3>4, <4>1, <4>2 DEF Served
      <4>4. Served(n, e) <=> n < op[p] \/ (n = op[p] /\ e # d)
        BY <3>4 DEF Served
      <4> QED
        BY <3>1, <4>3, <4>4
    <3> QED
      BY <3>2, <3>3, <3>4
  <2>2. \A e \in Devices : \A n \in Operations :
          n \in deferred'[e] <=> n \in deferred[e] \/ (e = d /\ n = op[p] /\ d \in On(n))
    BY <1>2, <1>6
  <2>3. Operations' = Operations /\ \A n \in Operations : On(n)' = On(n)
    BY DEF Operations, On
  <2>4. ASSUME NEW e \in Devices, NEW n \in Operations
        PROVE  n \in deferred'[e] <=> e \in On(n) /\ Served(n, e)'
    <3>1. n \in deferred[e] <=> e \in On(n) /\ Served(n, e)
      BY DEF Inv, DeferInv
    <3> QED
      BY <2>1, <2>2, <3>1
  <2> QED
    BY <2>3, <2>4 DEF DeferInv
<1> QED
  BY <1>2, <1>5, <1>6, <1>7, <1>8, <1>9

\* CreateExecuteTask links the task to the last strict one.
LEMMA CreateExecuteTaskInv ==
  ASSUME Inv, NEW p \in Processes, NEW d \in Devices, CreateExecuteTask(p, d)
  PROVE  Inv'
<1> DEFINE n == op[p]
<1>1. /\ pc[p] = "dispatch" /\ d \in todo[p] /\ IsTask(n)
      /\ Defer(n, d) /\ NextDevice(p, d) /\ SetLastExecuteEvent(n, d)
      /\ SetLastControlEvent(n, d)
      /\ order_event' = [order_event EXCEPT ![d][n] = OrderEvent(n, d)]
      /\ UNCHANGED <<ops, static_schedule_all_tasks, run, window_markers,
                     sync_all_execution_event, stream, done, callbacks, future>>
  BY DEF CreateExecuteTask, windowVars
<1>2. TypeOK
  BY DEF Inv
<1>3. /\ HostInv' /\ DeferInv'
      /\ n \in Operations
      /\ pc' \in [Processes -> {"open", "dispatch", "callbacks", "close", "exit",
                                "stopped"}]
      /\ op' \in [Processes -> 1 .. Len(ops) + 1]
      /\ todo' \in [Processes -> SUBSET Devices]
      /\ deferred' \in [Devices -> SUBSET Operations]
      /\ \A e \in Devices : \A m \in deferred'[e] : e \in On(m)
      /\ \A m \in deferred[d] : m < n
  BY <1>1, ServeInv
<1>4. Operations \subseteq Nat \ {0} /\ n \in Nat \ {0}
  BY <1>2, <1>3, ProgramFacts DEF TypeOK
<1>5. UNCHANGED <<Operations, ops, static_schedule_all_tasks, run, window_markers,
                  sync_all_execution_event, stream, done, callbacks, future>>
  BY <1>1 DEF Operations
<1>6. last_control_events \in [Devices -> Operations \cup {NO_USER_EVENT}]
  BY <1>2 DEF TypeOK
<1>7. /\ order_event' \in [Devices -> [Operations -> Operations \cup {NO_USER_EVENT}]]
      /\ \A e \in Devices \ {d} : order_event'[e] = order_event[e]
      /\ \A m \in Operations \ {n} : order_event'[d][m] = order_event[d][m]
      /\ order_event'[d][n] = OrderEvent(n, d)
  <2>1. order_event \in [Devices -> [Operations -> Operations \cup {NO_USER_EVENT}]]
    BY <1>2 DEF TypeOK
  <2>2. OrderEvent(n, d) \in Operations \cup {NO_USER_EVENT}
    BY <1>6 DEF OrderEvent
  <2>3. order_event' = [order_event EXCEPT ![d] = [order_event[d] EXCEPT ![n] = OrderEvent(n, d)]]
    BY <1>1
  <2> HIDE DEF n
  <2>4. [order_event[d] EXCEPT ![n] = OrderEvent(n, d)]
          \in [Operations -> Operations \cup {NO_USER_EVENT}]
    BY <2>1, <2>2
  <2> QED
    BY <1>3, <2>1, <2>3, <2>4
<1>8. /\ last_control_events' \in [Devices -> Operations \cup {NO_USER_EVENT}]
      /\ \A e \in Devices \ {d} : last_control_events'[e] = last_control_events[e]
      /\ last_control_events'[d] = IF StrictOrdering(n) /\ d \in On(n)
                                     THEN n ELSE last_control_events[d]
  BY <1>1, <1>3, <1>4, <1>6 DEF SetLastControlEvent, NO_USER_EVENT
<1>9. last_execute_events' \in [Devices -> SUBSET Operations]
  <2>1. last_execute_events \in [Devices -> SUBSET Operations]
    BY <1>2 DEF TypeOK
  <2> QED
    BY <1>1, <1>3, <2>1 DEF SetLastExecuteEvent
<1>10. TypeOK'
  BY <1>2, <1>3, <1>5, <1>7, <1>8, <1>9 DEF TypeOK, On
<1>11. /\ \A e \in Devices \ {d} : Strict(e)' = Strict(e)
       /\ Strict(d)' = IF StrictOrdering(n) /\ d \in On(n)
                         THEN Strict(d) \cup {n} ELSE Strict(d)
       /\ \A m \in Strict(d) : m < n /\ m \in Operations
  <2>1. /\ \A e \in Devices \ {d} : deferred'[e] = deferred[e]
        /\ deferred'[d] = IF d \in On(n) THEN deferred[d] \cup {n} ELSE deferred[d]
        /\ deferred[d] \subseteq Operations
    BY <1>1, <1>2 DEF TypeOK, Defer
  <2>2. \A m \in Operations : /\ IsTask(m)' <=> IsTask(m)
                              /\ StrictOrdering(m)' <=> StrictOrdering(m)
    BY <1>1 DEF IsTask, StrictOrdering
  <2>3. \A e \in Devices : deferred[e] \subseteq Operations
    BY <1>2 DEF TypeOK
  <2> HIDE DEF n
  <2> QED
    BY <1>1, <1>3, <2>1, <2>2, <2>3 DEF Strict
<1>12. \A m \in Strict(d) : m \in Nat /\ m < n /\ m # n /\ m \in Operations \ {n}
  <2> SUFFICES ASSUME NEW m \in Strict(d) PROVE m \in Nat /\ m < n /\ m # n /\ m \in Operations \ {n}
    OBVIOUS
  <2>1. m < n /\ m \in Operations /\ m \in Nat
    BY <1>4, <1>11
  <2> HIDE DEF n
  <2> QED
    BY <1>4, <2>1
<1>13. ControlInv'
  <2> SUFFICES ASSUME NEW e \in Devices
               PROVE  /\ last_control_events'[e] \in Strict(e)' \cup {NO_USER_EVENT}
                      /\ \A a \in Strict(e)' : a <= last_control_events'[e]
                      /\ \A a \in Strict(e)' : \A b \in Strict(e)' :
                           b < a => b <= order_event'[e][a] /\ order_event'[e][a] < a
                      /\ \A a \in Strict(e)' :
                           order_event'[e][a] \in Strict(e)' \cup {NO_USER_EVENT}
    BY DEF ControlInv, NO_USER_EVENT
  <2>1. /\ last_control_events[e] \in Strict(e) \cup {NO_USER_EVENT}
        /\ \A a \in Strict(e) : a <= last_control_events[e]
        /\ \A a \in Strict(e) : \A b \in Strict(e) :
             b < a => b <= order_event[e][a] /\ order_event[e][a] < a
        /\ \A a \in Strict(e) : order_event[e][a] \in Strict(e) \cup {NO_USER_EVENT}
    BY DEF Inv, ControlInv
  <2> HIDE DEF n
  <2>2. CASE e # d
    BY <1>7, <1>8, <1>11, <2>1, <2>2
  <2>3. CASE e = d /\ ~(StrictOrdering(n) /\ d \in On(n))
    <3>1. \A a \in Strict(d) : order_event'[d][a] = order_event[d][a]
      BY <1>7, <1>12
    <3> QED
      BY <1>8, <1>11, <2>1, <2>3, <3>1
  <2>4. CASE e = d /\ StrictOrdering(n) /\ d \in On(n)
    <3>1. \A a \in Strict(d) : order_event'[d][a] = order_event[d][a]
      BY <1>7, <1>12
    <3>2. order_event'[d][n] = last_control_events[d]
      BY <1>7, <2>4 DEF OrderEvent
    <3>3. last_control_events'[d] = n /\ Strict(d)' = Strict(d) \cup {n}
      BY <1>8, <1>11, <2>4
    <3>4. last_control_events[d] < n
      BY <1>4, <1>12, <2>1, <2>4 DEF NO_USER_EVENT
    <3>5. \A a \in Strict(d)' : a <= n
      BY <1>4, <1>12, <3>3
    <3>6. ASSUME NEW a \in Strict(d)', NEW b \in Strict(d)', b < a
          PROVE  b <= order_event'[d][a] /\ order_event'[d][a] < a
      <4>1. b \in Strict(d) /\ b # n
        BY <1>4, <1>12, <3>3, <3>6
      <4> QED
        BY <2>1, <2>4, <3>1, <3>2, <3>3, <3>4, <3>6, <4>1
    <3>7. \A a \in Strict(d)' : order_event'[d][a] \in Strict(d)' \cup {NO_USER_EVENT}
      BY <2>1, <2>4, <3>1, <3>2, <3>3
    <3> QED
      BY <2>4, <3>3, <3>5, <3>6, <3>7
  <2> QED
    BY <2>2, <2>3, <2>4
<1>14. StreamInv'
  <2> SUFFICES ASSUME NEW e \in Devices
               PROVE  /\ \A a \in Launched(e) : a \in deferred'[e] /\ IsTask(a)
                      /\ \A a \in Launched(e) : \A b \in Strict(e)' :
                           StrictOrdering(a) /\ b < a => b \in Launched(e)
                      /\ \A i, j \in DOMAIN stream[e] :
                           i < j /\ StrictOrdering(stream[e][i])
                                 /\ StrictOrdering(stream[e][j])
                             => stream[e][i] < stream[e][j]
    BY <1>5 DEF StreamInv, Launched, IsTask, StrictOrdering
  <2>1. /\ \A a \in Launched(e) : a \in deferred[e] /\ IsTask(a)
        /\ \A a \in Launched(e) : \A b \in Strict(e) :
             StrictOrdering(a) /\ b < a => b \in Launched(e)
        /\ \A i, j \in DOMAIN stream[e] :
             i < j /\ StrictOrdering(stream[e][i]) /\ StrictOrdering(stream[e][j])
               => stream[e][i] < stream[e][j]
    BY DEF Inv, StreamInv
  <2>2. deferred[e] \subseteq deferred'[e]
    BY <1>1, <1>2 DEF TypeOK, Defer
  <2>3. ASSUME NEW a \in Launched(e), NEW b \in Strict(e)', StrictOrdering(a), b < a
        PROVE  b \in Launched(e)
    <3>1. CASE b \in Strict(e)
      BY <2>1, <2>3, <3>1
    <3>2. CASE e = d /\ b = n
      <4>1. a < n /\ a \in Nat
        BY <1>2, <1>3, <1>4, <2>1, <3>2 DEF TypeOK
      <4> HIDE DEF n
      <4> QED
        BY <1>4, <2>3, <3>2, <4>1
    <3> QED
      BY <1>11, <3>1, <3>2
  <2> QED
    BY <2>1, <2>2, <2>3
<1> QED
  BY <1>3, <1>10, <1>13, <1>14 DEF Inv

\* Reshard leaves the chain of control events alone.
LEMMA ReshardInv ==
  ASSUME Inv, NEW p \in Processes, NEW d \in Devices, Reshard(p, d)
  PROVE  Inv'
<1> DEFINE n == op[p]
<1>1. /\ pc[p] = "dispatch" /\ d \in todo[p] /\ ~IsTask(n)
      /\ Defer(n, d) /\ NextDevice(p, d)
      /\ UNCHANGED <<ops, static_schedule_all_tasks, run, last_control_events,
                     last_execute_events, window_markers, sync_all_execution_event,
                     order_event, stream, done, callbacks, future>>
  BY DEF Reshard, eventVars, windowVars
<1>2. TypeOK
  BY DEF Inv
<1>3. /\ HostInv' /\ DeferInv'
      /\ n \in Operations
      /\ pc' \in [Processes -> {"open", "dispatch", "callbacks", "close", "exit",
                                "stopped"}]
      /\ op' \in [Processes -> 1 .. Len(ops) + 1]
      /\ todo' \in [Processes -> SUBSET Devices]
      /\ deferred' \in [Devices -> SUBSET Operations]
      /\ \A e \in Devices : \A m \in deferred'[e] : e \in On(m)
  BY <1>1, ServeInv
<1>4. Operations' = Operations
  BY <1>1 DEF Operations
<1>5. TypeOK'
  BY <1>1, <1>2, <1>3, <1>4 DEF TypeOK, On
<1>6. /\ \A e \in Devices : deferred[e] \subseteq deferred'[e]
      /\ \A e \in Devices : deferred'[e] \subseteq deferred[e] \cup {n}
  BY <1>1, <1>2 DEF TypeOK, Defer
<1>7. \A e \in Devices : Strict(e)' = Strict(e)
  <2>1. \A m : /\ IsTask(m)' <=> IsTask(m)
               /\ StrictOrdering(m)' <=> StrictOrdering(m)
    BY <1>1 DEF IsTask, StrictOrdering
  <2> HIDE DEF n
  <2> QED
    BY <1>1, <1>6, <2>1 DEF Strict
<1>8. ControlInv'
  BY <1>1, <1>7 DEF Inv, ControlInv
<1>9. StreamInv'
  <2>1. \A e \in Devices : Launched(e)' = Launched(e)
    BY <1>1 DEF Launched
  <2>2. \A m : /\ IsTask(m)' <=> IsTask(m)
               /\ StrictOrdering(m)' <=> StrictOrdering(m)
    BY <1>1 DEF IsTask, StrictOrdering
  <2> QED
    BY <1>1, <1>6, <1>7, <2>1, <2>2 DEF Inv, StreamInv
<1> QED
  BY <1>3, <1>5, <1>8, <1>9 DEF Inv

\* A process that does not dispatch may go on, to "open" only with operations
\* left.
LEMMA PcInv ==
  ASSUME Inv, NEW p \in Processes, NEW x \in {"open", "close", "exit", "stopped"},
         pc[p] # "dispatch", pc' = [pc EXCEPT ![p] = x],
         x = "open" => op[p] \in Operations,
         UNCHANGED <<ops, static_schedule_all_tasks, op, todo, deferred, order_event,
                     last_control_events, stream>>
  PROVE  /\ pc' \in [Processes -> {"open", "dispatch", "callbacks", "close", "exit",
                                   "stopped"}]
         /\ HostInv' /\ DeferInv' /\ ControlInv' /\ StreamInv'
<1>1. pc \in [Processes -> {"open", "dispatch", "callbacks", "close", "exit",
                            "stopped"}]
  BY DEF Inv, TypeOK
<1>2. pc' \in [Processes -> {"open", "dispatch", "callbacks", "close", "exit",
                             "stopped"}]
  BY <1>1
<1>3. \A q \in Processes : pc'[q] = pc[q] \/ (q = p /\ pc'[q] = x)
  BY <1>1
<1>4. HostInv'
  <2>1. Operations' = Operations /\ \A q \in Processes : Local(q)' = Local(q)
    BY DEF Operations, Local
  <2> QED
    BY <1>3, <2>1 DEF Inv, HostInv
<1>5. DeferInv'
  <2>1. \A q \in Processes : pc'[q] = "dispatch" <=> pc[q] = "dispatch"
    BY <1>1, <1>3
  <2>2. \A e \in Devices : Owner[e] \in Processes
    BY ProgramsAssumption
  <2>3. \A e \in Devices : \A n \in Operations : Served(n, e)' <=> Served(n, e)
    BY <2>1, <2>2 DEF Served
  <2> QED
    BY <2>3 DEF Inv, DeferInv, Operations, On
<1> QED
  BY <1>2, <1>4, <1>5, ChainUnchanged

\* RunAfterAllTasks appends callbacks.
LEMMA RunAfterAllTasksInv ==
  ASSUME Inv, NEW p \in Processes, RunAfterAllTasks(p) PROVE Inv'
<1>1. TypeOK
  BY DEF Inv
<1>2. UNCHANGED <<Operations, ops, static_schedule_all_tasks, run, op, todo,
                  last_control_events, last_execute_events, window_markers,
                  sync_all_execution_event, deferred, order_event, stream, done, future>>
  BY DEF RunAfterAllTasks, eventVars, windowVars, runtimeVars, Operations
<1>3. /\ pc' \in [Processes -> {"open", "dispatch", "callbacks", "close", "exit",
                                "stopped"}]
      /\ HostInv' /\ DeferInv' /\ ControlInv' /\ StreamInv'
  BY <1>2, PcInv DEF RunAfterAllTasks
<1>4. callbacks' \in [Devices -> Seq(SUBSET Operations)]
  <2>1. ASSUME NEW e \in Devices
        PROVE  /\ callbacks[e] \in Seq(SUBSET Operations)
               /\ Append(callbacks[e], last_execute_events[e]) \in Seq(SUBSET Operations)
    <3>1. callbacks[e] \in Seq(SUBSET Operations) /\ last_execute_events[e] \in SUBSET Operations
      BY <1>1 DEF TypeOK
    <3> QED
      BY <3>1, AppendProperties
  <2>2. callbacks' = [e \in Devices |->
                        IF e \in Local(p) THEN Append(callbacks[e], last_execute_events[e])
                                          ELSE callbacks[e]]
    BY DEF RunAfterAllTasks
  <2> QED
    BY <2>1, <2>2
<1>5. TypeOK'
  BY <1>1, <1>2, <1>3, <1>4 DEF TypeOK, On
<1> QED
  BY <1>3, <1>5 DEF Inv

\* CloseWindow adds the events of the local devices to those StopZuku waits for.
LEMMA CloseWindowInv ==
  ASSUME Inv, NEW p \in Processes, CloseWindow(p) PROVE Inv'
<1> DEFINE marker == UNION { {d} \X last_execute_events[d] : d \in Local(p) }
<1> DEFINE x == IF op[p] > Len(ops) THEN "exit" ELSE "open"
<1>1. TypeOK
  BY DEF Inv
<1>2. /\ pc[p] = "close" /\ pc' = [pc EXCEPT ![p] = x]
      /\ sync_all_execution_event' =
           [sync_all_execution_event EXCEPT ![p] = sync_all_execution_event[p] \cup marker]
      /\ run' = [run EXCEPT ![p] = IF op[p] > Len(ops) THEN run[p] ELSE run[p] + 1]
  BY DEF CloseWindow
<1>3. UNCHANGED <<Operations, ops, static_schedule_all_tasks, op, todo,
                  last_control_events, last_execute_events, window_markers,
                  deferred, order_event, stream, done, callbacks, future>>
  BY DEF CloseWindow, eventVars, runtimeVars, Operations
<1>4. x = "open" => op[p] \in Operations
  <2>1. op[p] \in 1 .. Len(ops) + 1 /\ Operations = 1 .. Len(ops) /\ Len(ops) \in Nat
    BY <1>1, ProgramFacts DEF TypeOK
  <2> QED
    BY <2>1
<1>5. /\ pc' \in [Processes -> {"open", "dispatch", "callbacks", "close", "exit",
                                "stopped"}]
      /\ HostInv' /\ DeferInv' /\ ControlInv' /\ StreamInv'
  <2>1. x \in {"open", "close", "exit", "stopped"}
    OBVIOUS
  <2> HIDE DEF x
  <2> QED
    BY <1>2, <1>3, <1>4, <2>1, PcInv
<1>6. sync_all_execution_event' \in [Processes -> SUBSET (Devices \X Operations)]
  <2>1. sync_all_execution_event \in [Processes -> SUBSET (Devices \X Operations)]
    BY <1>1 DEF TypeOK
  <2>2. \A d \in Local(p) : d \in Devices /\ last_execute_events[d] \subseteq Operations
    BY <1>1 DEF TypeOK, Local
  <2>3. marker \subseteq Devices \X Operations
    BY <2>2
  <2> HIDE DEF marker
  <2> QED
    BY <1>2, <2>1, <2>3
<1>7. run' \in [Processes -> Nat]
  <2>1. run \in [Processes -> Nat]
    BY <1>1 DEF TypeOK
  <2> QED
    BY <1>2, <2>1
<1>8. TypeOK'
  BY <1>1, <1>3, <1>5, <1>6, <1>7 DEF TypeOK, On
<1> QED
  BY <1>5, <1>8 DEF Inv

\* StopZuku changes nothing but the state of its process.
LEMMA StopZukuInv ==
  ASSUME Inv, NEW p \in Processes, StopZuku(p) PROVE Inv'
<1>1. TypeOK
  BY DEF Inv
<1>2. UNCHANGED <<Operations, ops, static_schedule_all_tasks, run, op, todo,
                  last_control_events, last_execute_events, window_markers,
                  sync_all_execution_event, deferred, order_event, stream, done,
                  callbacks, future>>
  BY DEF StopZuku, eventVars, windowVars, runtimeVars, Operations
<1>3. /\ pc' \in [Processes -> {"open", "dispatch", "callbacks", "close", "exit",
                                "stopped"}]
      /\ HostInv' /\ DeferInv' /\ ControlInv' /\ StreamInv'
  BY <1>2, PcInv DEF StopZuku
<1>4. TypeOK'
  BY <1>1, <1>2, <1>3 DEF TypeOK, On
<1> QED
  BY <1>3, <1>4 DEF Inv

-----------------------------------------------------------------------------

\* A strict task is launched after its order event, and so, what is launched
\* being closed under the order, after every strict task before it.
LEMMA LaunchInv ==
  ASSUME Inv, NEW n \in Operations, NEW d \in Devices, Launch(n, d) PROVE Inv'
<1>1. TypeOK
  BY DEF Inv
<1>2. /\ n \in deferred[d] /\ n \notin Launched(d) /\ IsTask(n)
      /\ order_event[d][n] \in Launched(d) \cup {NO_USER_EVENT}
      /\ stream' = [stream EXCEPT ![d] = Append(stream[d], n)]
  BY DEF Launch
<1>3. UNCHANGED <<Operations, ops, static_schedule_all_tasks, hostVars, pc, run, op, todo,
                  last_control_events, last_execute_events, window_markers,
                  sync_all_execution_event, deferred, order_event, done,
                  callbacks, future>>
  BY DEF Launch, hostVars, eventVars, windowVars, Operations
<1>4. HostInv' /\ DeferInv'
  BY <1>3, HostUnchanged
<1>5. \A e \in Devices : stream[e] \in Seq(Operations)
  BY <1>1 DEF TypeOK
<1>6. stream' \in [Devices -> Seq(Operations)]
  <2>1. Append(stream[d], n) \in Seq(Operations)
    BY <1>5, AppendProperties
  <2> QED
    BY <1>1, <1>2, <2>1 DEF TypeOK
<1>7. TypeOK'
  BY <1>1, <1>3, <1>6 DEF TypeOK, On
<1>8. \A e \in Devices : Strict(e)' = Strict(e) /\ Strict(e) \subseteq Operations
  BY <1>1, <1>3 DEF TypeOK, Strict, IsTask, StrictOrdering
<1>9. ControlInv'
  BY <1>3, <1>8 DEF Inv, ControlInv
<1>10. Operations \subseteq Nat \ {0}
  BY <1>1, ProgramFacts DEF TypeOK
<1>11. \A m : /\ IsTask(m)' <=> IsTask(m)
              /\ StrictOrdering(m)' <=> StrictOrdering(m)
  BY <1>3 DEF IsTask, StrictOrdering
<1>12. StreamInv'
  <2> SUFFICES ASSUME NEW e \in Devices
               PROVE  /\ \A a \in Launched(e)' : a \in deferred[e] /\ IsTask(a)
                      /\ \A a \in Launched(e)' : \A b \in Strict(e) :
                           StrictOrdering(a) /\ b < a => b \in Launched(e)'
                      /\ \A i, j \in DOMAIN stream'[e] :
                           i < j /\ StrictOrdering(stream'[e][i])
                                 /\ StrictOrdering(stream'[e][j])
                             => stream'[e][i] < stream'[e][j]
    BY <1>3, <1>8, <1>11 DEF StreamInv
  <2>1. /\ \A a \in Launched(e) : a \in deferred[e] /\ IsTask(a)
        /\ \A a \in Launched(e) : \A b \in Strict(e) :
             StrictOrdering(a) /\ b < a => b \in Launched(e)
        /\ \A i, j \in DOMAIN stream[e] :
             i < j /\ StrictOrdering(stream[e][i]) /\ StrictOrdering(stream[e][j])
               => stream[e][i] < stream[e][j]
    BY DEF Inv, StreamInv
  <2>2. CASE e # d
    <3>1. stream'[e] = stream[e] /\ Launched(e)' = Launched(e)
      BY <1>1, <1>2, <2>2 DEF TypeOK, Launched
    <3> QED
      BY <2>1, <3>1
  <2>3. CASE e = d
    <3>1. stream'[d] = Append(stream[d], n)
      BY <1>1, <1>2 DEF TypeOK
    <3>2. /\ Len(stream[d]) \in Nat
          /\ DOMAIN stream[d] = 1 .. Len(stream[d])
          /\ DOMAIN stream'[d] = 1 .. Len(stream[d]) + 1
          /\ \A i \in 1 .. Len(stream[d]) : stream'[d][i] = stream[d][i]
          /\ stream'[d][Len(stream[d]) + 1] = n
          /\ Range(stream'[d]) = Range(stream[d]) \cup {n}
      BY <1>5, <3>1, AppendFacts
    <3>3. Launched(d)' = Launched(d) \cup {n}
      BY <3>2 DEF Launched
    \* Every strict task before n has been launched.
    <3>4. ASSUME StrictOrdering(n), NEW b \in Strict(d), b < n
          PROVE  b \in Launched(d)
      <4>1. n \in Strict(d)
        BY <1>2, <3>4 DEF Strict
      <4>2. b <= order_event[d][n] /\ order_event[d][n] < n
        BY <3>4, <4>1 DEF Inv, ControlInv
      <4>3. b \in Nat \ {0} /\ order_event[d][n] \in Nat
        <5>1. order_event[d][n] \in Operations \cup {0}
          BY <1>1 DEF TypeOK, NO_USER_EVENT
        <5>2. b \in Operations
          BY <1>8
        <5>3. \A m \in Operations : m \in Nat \ {0}
          BY <1>10
        <5> QED
          BY <5>1, <5>2, <5>3
      <4>4. order_event[d][n] \in Launched(d) /\ order_event[d][n] \in Strict(d)
        <5>1. order_event[d][n] # NO_USER_EVENT
          BY <4>2, <4>3 DEF NO_USER_EVENT
        <5>2. order_event[d][n] \in Strict(d) \cup {NO_USER_EVENT}
          BY <4>1 DEF Inv, ControlInv
        <5> QED
          BY <1>2, <5>1, <5>2
      <4>5. StrictOrdering(order_event[d][n])
        BY <4>4 DEF Strict
      <4> QED
        BY <2>1, <2>3, <4>2, <4>3, <4>4, <4>5
    \* No strict task after n has been launched.
    <3>5. ASSUME StrictOrdering(n), NEW a \in Launched(d), StrictOrdering(a)
          PROVE  a < n
      <4>1. n \in Strict(d) /\ a \in deferred[d]
        BY <1>2, <2>1, <2>3, <3>5 DEF Strict
      <4>2. a \in Nat /\ n \in Nat /\ a # n
        BY <1>1, <1>2, <1>10, <4>1 DEF TypeOK
      <4>3. ~(n < a)
        BY <1>2, <2>1, <2>3, <3>5, <4>1
      <4> QED
        BY <4>2, <4>3
    <3>6. \A a \in Launched(d)' : a \in deferred[d] /\ IsTask(a)
      BY <1>2, <2>1, <2>3, <3>3
    <3>7. \A a \in Launched(d)' : \A b \in Strict(d) :
            StrictOrdering(a) /\ b < a => b \in Launched(d)'
      BY <2>1, <2>3, <3>3, <3>4
    <3>8. ASSUME NEW i \in DOMAIN stream'[d], NEW j \in DOMAIN stream'[d], i < j,
                 StrictOrdering(stream'[d][i]), StrictOrdering(stream'[d][j])
          PROVE  stream'[d][i] < stream'[d][j]
      <4>1. i \in 1 .. Len(stream[d]) /\ stream'[d][i] = stream[d][i]
        BY <3>2, <3>8
      <4>2. CASE j \in 1 .. Len(stream[d])
        BY <2>1, <2>3, <3>2, <3>8, <4>1, <4>2
      <4>3. CASE j = Len(stream[d]) + 1
        <5>1. stream[d][i] \in Launched(d)
          BY <3>2, <4>1 DEF Launched, Range
        <5> QED
          BY <3>2, <3>5, <3>8, <4>1, <4>3, <5>1
      <4> QED
        BY <3>2, <4>2, <4>3
    <3> QED
      BY <2>3, <3>6, <3>7, <3>8
  <2> QED
    BY <2>2, <2>3
<1> QED
  BY <1>4, <1>7, <1>9, <1>12 DEF Inv

\* Operations end, on any devices.
LEMMA FinishInv ==
  ASSUME Inv, NEW n \in Operations, NEW devices, Finish(n, devices) PROVE Inv'
<1>1. TypeOK
  BY DEF Inv
<1>2. UNCHANGED <<Operations, ops, static_schedule_all_tasks, hostVars, pc, run, op, todo,
                  last_control_events, last_execute_events, window_markers,
                  sync_all_execution_event, deferred, order_event, stream,
                  callbacks, future>>
  BY DEF Finish, hostVars, eventVars, windowVars, Operations
<1>3. HostInv' /\ DeferInv' /\ ControlInv' /\ StreamInv'
  BY <1>2, HostUnchanged, ChainUnchanged
<1>4. done' \in [Devices -> SUBSET Operations]
  BY <1>1 DEF TypeOK, Finish
<1>5. TypeOK'
  BY <1>1, <1>2, <1>4 DEF TypeOK, On
<1> QED
  BY <1>3, <1>5 DEF Inv

\* A callback makes a future ready.
LEMMA RunCallbackInv ==
  ASSUME Inv, NEW d \in Devices, NEW r \in DOMAIN callbacks[d], RunCallback(r, d)
  PROVE  Inv'
<1>1. TypeOK
  BY DEF Inv
<1>2. UNCHANGED <<Operations, ops, static_schedule_all_tasks, hostVars, pc, run, op, todo,
                  last_control_events, last_execute_events, window_markers,
                  sync_all_execution_event, deferred, order_event, stream, done, callbacks>>
  BY DEF RunCallback, hostVars, eventVars, windowVars, runtimeVars, Operations
<1>3. HostInv' /\ DeferInv' /\ ControlInv' /\ StreamInv'
  BY <1>2, HostUnchanged, ChainUnchanged
<1>4. future' \in [Devices -> SUBSET Nat]
  <2>1. callbacks[d] \in Seq(SUBSET Operations)
    BY <1>1 DEF TypeOK
  <2>2. r \in Nat
    BY <2>1, LenProperties
  <2> QED
    BY <1>1, <2>2 DEF TypeOK, RunCallback
<1>5. TypeOK'
  BY <1>1, <1>2, <1>4 DEF TypeOK, On
<1> QED
  BY <1>3, <1>5 DEF Inv

\* A step that changes nothing preserves the invariant.
LEMMA StutterInv == ASSUME Inv, UNCHANGED vars PROVE Inv'
<1>1. TypeOK
  BY DEF Inv
<1>2. UNCHANGED <<Operations, ops, static_schedule_all_tasks, hostVars, pc, run, op, todo,
                  last_control_events, last_execute_events, window_markers,
                  sync_all_execution_event, deferred, order_event, stream, done,
                  callbacks, future>>
  BY DEF vars, hostVars, eventVars, windowVars, runtimeVars, Operations
<1>3. HostInv' /\ DeferInv' /\ ControlInv' /\ StreamInv'
  BY <1>2, HostUnchanged, ChainUnchanged
<1>4. TypeOK'
  BY <1>1, <1>2 DEF TypeOK, On
<1> QED
  BY <1>3, <1>4 DEF Inv

-----------------------------------------------------------------------------

\* The inductive invariant holds in every state of Execute.
THEOREM Invariance == Spec => []Inv
<1>1. Inv /\ [Next]_vars => Inv'
  <2> SUFFICES ASSUME Inv, [Next]_vars PROVE Inv'
    OBVIOUS
  <2>1. ASSUME NEW p \in Processes, HostStep(p) PROVE Inv'
    BY <2>1, OpenWindowInv, CreateExecuteTaskInv, ReshardInv, RunAfterAllTasksInv,
       CloseWindowInv, StopZukuInv DEF HostStep
  <2>2. ASSUME NEW d \in Devices, DeviceStep(d) PROVE Inv'
    BY <2>2, LaunchInv, FinishInv, RunCallbackInv DEF DeviceStep, FinishTask
  <2>3. CASE GangStep
    BY <2>3, FinishInv DEF GangStep, FinishCollective, FinishReshard
  <2>4. CASE UNCHANGED vars
    BY <2>4, StutterInv
  <2> QED
    BY <2>1, <2>2, <2>3, <2>4 DEF Next
<1> QED
  BY InitInv, <1>1, PTL DEF Spec

\* The streams follow the schedule: every device launches the strict tasks of
\* the schedule that it takes part in, each before the next.
LEMMA InvLaunchedInOrder == Inv => LaunchedInOrder
<1> SUFFICES ASSUME Inv, NEW d \in Devices
             PROVE  /\ \A i, j \in DOMAIN stream[d] :
                         /\ i < j
                         /\ StrictOrdering(stream[d][i]) /\ StrictOrdering(stream[d][j])
                         => stream[d][i] < stream[d][j]
                    /\ \A n \in Launched(d), m \in Operations :
                         /\ StrictOrdering(n) /\ StrictOrdering(m)
                         /\ m < n /\ IsTask(m) /\ d \in On(m)
                         => m \in Launched(d)
  BY DEF LaunchedInOrder
<1>1. TypeOK /\ Operations \subseteq Nat
  BY ProgramFacts DEF Inv, TypeOK
<1>2. \A i, j \in DOMAIN stream[d] :
        /\ i < j
        /\ StrictOrdering(stream[d][i]) /\ StrictOrdering(stream[d][j])
        => stream[d][i] < stream[d][j]
  BY DEF Inv, StreamInv
<1>3. ASSUME NEW n \in Launched(d), NEW m \in Operations,
             StrictOrdering(n), StrictOrdering(m), m < n, IsTask(m), d \in On(m)
      PROVE  m \in Launched(d)
  <2>1. n \in deferred[d] /\ n \in Operations
    BY <1>1 DEF Inv, StreamInv, TypeOK
  <2>2. Served(n, d)
    BY <2>1 DEF Inv, DeferInv
  <2>3. op[Owner[d]] \in Nat /\ m \in Nat /\ n \in Nat
    <3>1. Owner[d] \in Processes
      BY ProgramsAssumption
    <3> QED
      BY <1>1, <2>1, <3>1, ProgramFacts DEF TypeOK
  <2>4. Served(m, d)
    BY <1>3, <2>2, <2>3 DEF Served
  <2>5. m \in Strict(d)
    BY <1>3, <2>4 DEF Inv, DeferInv, Strict
  <2> QED
    BY <1>3, <2>5 DEF Inv, StreamInv
<1> QED
  BY <1>2, <1>3

\* Whatever the processes, the devices and the schedules, the tasks with strict
\* ordering are launched in the order of the schedule, none being left out
\* (the order events of CreateExecuteTask).
THEOREM StrictLaunchOrder == Spec => []LaunchedInOrder
  BY Invariance, InvLaunchedInOrder, PTL

\* Two devices never launch two tasks with collectives in opposite orders:
\* compiler->Concurrent() makes the ordering of the task strict.
THEOREM CollectivesAgreed == Spec => []CollectivesAgree
<1>1. Inv => CollectivesAgree
  <2> SUFFICES ASSUME Inv, NEW d \in Devices, NEW e \in Devices,
                      NEW i \in DOMAIN stream[d], NEW j \in DOMAIN stream[d],
                      NEW k \in DOMAIN stream[e], NEW l \in DOMAIN stream[e],
                      stream[d][i] = stream[e][k], stream[d][j] = stream[e][l],
                      IsCollective(stream[d][i]), IsCollective(stream[d][j])
               PROVE  i < j <=> k < l
    BY DEF CollectivesAgree
  <2>1. StrictOrdering(stream[d][i]) /\ StrictOrdering(stream[d][j])
    BY DEF IsCollective, StrictOrdering
  <2>2. /\ stream[d] \in Seq(Operations) /\ stream[e] \in Seq(Operations)
        /\ Operations \subseteq Nat
    BY ProgramFacts DEF Inv, TypeOK
  <2>3. i \in Nat /\ j \in Nat /\ k \in Nat /\ l \in Nat
    BY <2>2, LenProperties
  <2>4. stream[d][i] \in Nat /\ stream[d][j] \in Nat
    BY <2>2, LenProperties, ElementOfSeq
  <2>5. /\ i < j => stream[d][i] < stream[d][j]
        /\ j < i => stream[d][j] < stream[d][i]
        /\ k < l => stream[e][k] < stream[e][l]
        /\ l < k => stream[e][l] < stream[e][k]
    BY <2>1 DEF Inv, StreamInv
  <2>6. i = j => stream[d][i] = stream[d][j]
    OBVIOUS
  <2>7. k = l => stream[e][k] = stream[e][l]
    OBVIOUS
  <2> QED
    BY <2>3, <2>4, <2>5, <2>6, <2>7
<1> QED
  BY Invariance, <1>1, PTL
-----------------------------------------------------------------------------
(***************************************************************************)
(* What the futures and the exit of a process wait for.  The callback of a *)
(* run is deferred after the tasks of the run, when last_execute_events    *)
(* holds all of them and those of the runs before.                         *)
(***************************************************************************)

\* The events a device waits for are those of the tasks deferred on it.
ExecuteInv ==
  \A d \in Devices : last_execute_events[d] = {n \in deferred[d] : IsTask(n)}

\* A process is in the Execute call of the operation it is at, or between two
\* calls, and has deferred one callback per device for every call it has finished.
RunInv ==
  \A p \in Processes :
    /\ pc[p] \in {"open", "dispatch"} => ops[op[p]].run = run[p]
    /\ pc[p] \in {"callbacks", "close"} /\ op[p] \in Operations =>
         ops[op[p]].run = run[p] + 1
    /\ \A d \in Local(p) :
         Len(callbacks[d]) = IF pc[p] \in {"open", "dispatch", "callbacks"}
                               THEN run[p] - 1 ELSE run[p]

\* The callback of a run waits for the tasks of this run and of those before it.
CallbackInv ==
  \A d \in Devices : \A r \in DOMAIN callbacks[d] : \A n \in Operations :
    IsTask(n) /\ ops[n].run <= r /\ d \in On(n) => n \in callbacks[d][r]

\* A future is ready once its callback has run, after what it waits for.
FutureInv ==
  \A d \in Devices : \A r \in future[d] :
    r \in DOMAIN callbacks[d] /\ callbacks[d][r] \subseteq done[d]

\* At the exit of the process, the events of all the tasks of its devices are
\* among those StopZuku waits for.
SyncInv ==
  \A p \in Processes :
    /\ pc[p] \in {"exit", "stopped"} => \A d \in Local(p) : \A n \in deferred[d] :
         IsTask(n) => <<d, n>> \in sync_all_execution_event[p]
    /\ pc[p] = "stopped" => Triggered(sync_all_execution_event[p])

EventInv == ExecuteInv /\ RunInv /\ CallbackInv /\ FutureInv /\ SyncInv

\* The runs of a program do not decrease.
LEMMA RunsAscend ==
  ASSUME ops \in Programs, NEW m \in Operations, NEW n \in Operations, m <= n
  PROVE  ops[m].run <= ops[n].run
<1>1. IsProgram(ops)
  BY ProgramsAssumption
<1>2. /\ Len(ops) \in Nat \ {0} /\ Operations = 1 .. Len(ops)
      /\ \A i \in Operations : ops[i].run \in Nat
  BY ProgramFacts DEF IsOperation
<1> DEFINE S == {i \in Operations : ops[m].run <= ops[i].run}
<1>3. m \in S
  BY <1>2
<1>4. ASSUME NEW i \in m .. Len(ops) - 1, i \in S
      PROVE  i + 1 \in S
  <2>1. i + 1 \in 2 .. Len(ops) /\ (i + 1) - 1 = i /\ i + 1 \in Operations
    BY <1>2
  <2>2. ops[i + 1].run \in {ops[i].run, ops[i].run + 1}
    BY <1>1, <2>1 DEF IsProgram
  <2> QED
    BY <1>2, <1>4, <2>1, <2>2
<1>5. \A i \in m .. Len(ops) : i \in S
  <2>1. m \in Nat /\ Len(ops) \in Nat
    BY <1>2
  <2>2. \A i \in m .. Len(ops) - 1 : i \in S => i + 1 \in S
    BY <1>4
  <2> HIDE DEF S
  <2> QED
    BY <1>3, <2>1, <2>2, UpTo
<1> QED
  BY <1>2, <1>5

\* What Execute has passed is deferred: between two runs, the operations before.
LEMMA DeferredBefore ==
  ASSUME Inv, NEW d \in Devices, NEW n \in Operations, d \in On(n), n < op[Owner[d]]
  PROVE  n \in deferred[d]
BY DEF Inv, DeferInv, Served

\* The events hold initially.
LEMMA InitEventInv == Init => EventInv
<1> SUFFICES ASSUME Init PROVE EventInv
  OBVIOUS
<1>1. ops \in Programs /\ IsProgram(ops)
  BY ProgramsAssumption DEF Init
<1>2. ExecuteInv
  BY DEF Init, ExecuteInv
<1>3. \A d \in Devices : callbacks[d] = << >> /\ Len(callbacks[d]) = 0 /\ DOMAIN callbacks[d] = {}
  BY EmptySeq DEF Init
<1>4. RunInv
  <2>1. \A p \in Processes : pc[p] = "open" /\ op[p] = 1 /\ run[p] = 1
    BY DEF Init
  <2> QED
    BY <1>1, <1>3, <2>1 DEF RunInv, IsProgram, Local
<1>5. CallbackInv /\ FutureInv
  BY <1>3 DEF CallbackInv, FutureInv, Init
<1>6. SyncInv
  BY DEF Init, SyncInv
<1> QED
  BY <1>2, <1>4, <1>5, <1>6 DEF EventInv

\* Steps of the devices: an operation is launched or ends.
LEMMA RuntimeEvents ==
  ASSUME Inv, EventInv,
         UNCHANGED <<ops, pc, run, op, todo, deferred, last_execute_events,
                     sync_all_execution_event, callbacks, future>>,
         \A d \in Devices : done[d] \subseteq done'[d]
  PROVE  EventInv'
<1>1. ExecuteInv' /\ RunInv' /\ CallbackInv'
  BY DEF EventInv, ExecuteInv, RunInv, CallbackInv, Operations, IsTask, On, Local
<1>2. FutureInv'
  BY DEF EventInv, FutureInv
<1>3. SyncInv'
  <2>1. \A p \in Processes : \A t \in sync_all_execution_event[p] : t[1] \in Devices
    BY DEF Inv, TypeOK
  <2>2. \A p \in Processes : Triggered(sync_all_execution_event[p])
          => Triggered(sync_all_execution_event[p])'
    BY <2>1 DEF Triggered
  <2> QED
    BY <2>2 DEF EventInv, SyncInv, IsTask, Local
<1> QED
  BY <1>1, <1>2, <1>3 DEF EventInv

\* A callback runs when the tasks it waits for have ended.
LEMMA RunCallbackEvents ==
  ASSUME Inv, EventInv, NEW d \in Devices, NEW r \in DOMAIN callbacks[d], RunCallback(r, d)
  PROVE  EventInv'
<1>1. /\ callbacks[d][r] \subseteq done[d]
      /\ future' = [future EXCEPT ![d] = future[d] \cup {r}]
      /\ UNCHANGED <<ops, pc, run, op, todo, deferred, last_execute_events,
                     sync_all_execution_event, callbacks, done>>
  BY DEF RunCallback, hostVars, eventVars, windowVars, runtimeVars
<1>2. ExecuteInv' /\ RunInv' /\ CallbackInv' /\ SyncInv'
  BY <1>1 DEF EventInv, ExecuteInv, RunInv, CallbackInv, SyncInv, Operations, IsTask, On,
              Local, Triggered
<1>3. FutureInv'
  <2>1. future \in [Devices -> SUBSET Nat]
    BY DEF Inv, TypeOK
  <2> QED
    BY <1>1, <2>1 DEF EventInv, FutureInv
<1> QED
  BY <1>2, <1>3 DEF EventInv

\* The window opens: the call goes on to dispatch its operations.
LEMMA OpenWindowEvents ==
  ASSUME Inv, EventInv, NEW p \in Processes, OpenWindow(p)
  PROVE  EventInv'
<1>1. /\ pc[p] = "open"
      /\ pc' = pc \/ pc' = [pc EXCEPT ![p] = "dispatch"]
      /\ UNCHANGED <<ops, run, op, deferred, last_execute_events,
                     sync_all_execution_event, callbacks, done, future>>
  BY DEF OpenWindow, eventVars, runtimeVars
<1>2. \A q \in Processes : pc'[q] = pc[q] \/ (q = p /\ pc'[q] = "dispatch")
  BY <1>1 DEF Inv, TypeOK
<1>3. ExecuteInv' /\ CallbackInv' /\ FutureInv'
  BY <1>1 DEF EventInv, ExecuteInv, CallbackInv, FutureInv, Operations, IsTask, On
<1>4. RunInv'
  <2>1. Operations' = Operations /\ \A q \in Processes : Local(q)' = Local(q)
    BY <1>1 DEF Operations, Local
  <2> QED
    BY <1>1, <1>2, <2>1 DEF EventInv, RunInv
<1>5. SyncInv'
  BY <1>1, <1>2 DEF EventInv, SyncInv, Local, IsTask, Triggered
<1> QED
  BY <1>3, <1>4, <1>5 DEF EventInv

\* The call goes on to the next device or operation.
LEMMA ServeEvents ==
  ASSUME Inv, EventInv, NEW p \in Processes, NEW d \in Devices, pc[p] = "dispatch",
         d \in todo[p], Defer(op[p], d), NextDevice(p, d),
         \A e \in Devices : last_execute_events'[e] =
           IF e = d /\ d \in On(op[p]) /\ IsTask(op[p]) THEN last_execute_events[e] \cup {op[p]}
                                                        ELSE last_execute_events[e],
         UNCHANGED <<ops, run, sync_all_execution_event, callbacks, done, future>>
  PROVE  EventInv'
<1>1. /\ TypeOK /\ op[p] \in Operations /\ Owner[d] = p
      /\ Len(ops) \in Nat \ {0} /\ Operations = 1 .. Len(ops)
  BY ProgramFacts DEF Inv, TypeOK, HostInv, Local
<1>2. \A e \in Devices :
        deferred'[e] = IF e = d /\ d \in On(op[p]) THEN deferred[e] \cup {op[p]} ELSE deferred[e]
  BY <1>1 DEF TypeOK, Defer
<1>3. ExecuteInv'
  <2>1. \A n : IsTask(n)' <=> IsTask(n)
    BY DEF IsTask
  <2> QED
    BY <1>2, <2>1 DEF EventInv, ExecuteInv
<1>4. CallbackInv' /\ FutureInv'
  BY DEF EventInv, CallbackInv, FutureInv, Operations, IsTask, On
<1>5. /\ \A q \in Processes \ {p} : pc'[q] = pc[q] /\ op'[q] = op[q]
      /\ pc'[p] \in {"dispatch", "callbacks"}
  BY <1>1 DEF TypeOK, NextDevice
<1>6. RunInv'
  <2>1. Operations' = Operations /\ \A q \in Processes : Local(q)' = Local(q)
    BY DEF Operations, Local
  <2>2. ops[op[p]].run = run[p] /\ run[p] \in Nat
    BY <1>1 DEF EventInv, RunInv, TypeOK
  <2>3. /\ pc'[p] = "dispatch" => ops[op'[p]].run = run[p]
        /\ pc'[p] = "callbacks" /\ op'[p] \in Operations => ops[op'[p]].run = run[p] + 1
    <3>1. CASE todo[p] = {d}
      <4>1. /\ op'[p] = op[p] + 1
            /\ pc'[p] = IF op[p] = Len(ops) \/ ops[op[p] + 1].run # run[p]
                          THEN "callbacks" ELSE pc[p]
        BY <1>1, <3>1 DEF TypeOK, NextDevice
      <4>2. op[p] + 1 \in Operations => ops[op[p] + 1].run \in {ops[op[p]].run, ops[op[p]].run + 1}
        <5>1. IsProgram(ops)
          BY <1>1, ProgramsAssumption DEF TypeOK
        <5>2. op[p] + 1 \in Operations => op[p] + 1 \in 2 .. Len(ops) /\ (op[p] + 1) - 1 = op[p]
          BY <1>1
        <5> QED
          BY <5>1, <5>2 DEF IsProgram
      <4>3. op[p] # Len(ops) => op[p] + 1 \in Operations
        BY <1>1
      <4>4. CASE op[p] = Len(ops)
        BY <1>1, <4>1, <4>4
      <4>5. CASE op[p] # Len(ops)
        <5>1. /\ op[p] + 1 \in Operations
              /\ ops[op[p] + 1].run \in {run[p], run[p] + 1}
          BY <2>2, <4>2, <4>3, <4>5
        <5>2. pc'[p] = IF ops[op'[p]].run # run[p] THEN "callbacks" ELSE "dispatch"
          BY <1>1, <4>1, <4>5
        <5> QED
          BY <4>1, <5>1, <5>2
      <4> QED
        BY <4>4, <4>5
    <3>2. CASE todo[p] # {d}
      BY <2>2, <3>2 DEF NextDevice
    <3> QED
      BY <3>1, <3>2
  <2> QED
    BY <1>5, <2>1, <2>3 DEF EventInv, RunInv
<1>7. SyncInv'
  <2>1. \A q \in Processes : pc'[q] \in {"exit", "stopped"} => q # p /\ pc'[q] = pc[q]
    BY <1>5
  <2>2. \A q \in Processes \ {p} : \A e \in Local(q) : deferred'[e] = deferred[e]
    BY <1>1, <1>2 DEF Local
  <2> QED
    BY <2>1, <2>2 DEF EventInv, SyncInv, Local, IsTask, Triggered
<1> QED
  BY <1>3, <1>4, <1>6, <1>7 DEF EventInv

\* CreateExecuteTask and Reshard serve a device.
LEMMA DispatchEvents ==
  ASSUME Inv, EventInv, NEW p \in Processes, NEW d \in Devices,
         CreateExecuteTask(p, d) \/ Reshard(p, d)
  PROVE  EventInv'
<1>1. last_execute_events \in [Devices -> SUBSET Operations]
  BY DEF Inv, TypeOK
<1>2. CASE CreateExecuteTask(p, d)
  <2>1. /\ pc[p] = "dispatch" /\ IsTask(op[p]) /\ d \in todo[p]
        /\ Defer(op[p], d) /\ NextDevice(p, d) /\ SetLastExecuteEvent(op[p], d)
        /\ UNCHANGED <<ops, run, sync_all_execution_event, callbacks, done, future>>
    BY <1>2 DEF CreateExecuteTask, windowVars
  <2>2. \A e \in Devices : last_execute_events'[e] =
          IF e = d /\ d \in On(op[p]) /\ IsTask(op[p]) THEN last_execute_events[e] \cup {op[p]}
                                                       ELSE last_execute_events[e]
    BY <1>1, <2>1 DEF SetLastExecuteEvent
  <2> QED
    BY <2>1, <2>2, ServeEvents
<1>3. CASE Reshard(p, d)
  <2>1. /\ pc[p] = "dispatch" /\ ~IsTask(op[p]) /\ d \in todo[p]
        /\ Defer(op[p], d) /\ NextDevice(p, d)
        /\ UNCHANGED <<ops, run, last_execute_events, sync_all_execution_event, callbacks,
                       done, future>>
    BY <1>3 DEF Reshard, windowVars, eventVars
  <2>2. \A e \in Devices : last_execute_events'[e] =
          IF e = d /\ d \in On(op[p]) /\ IsTask(op[p]) THEN last_execute_events[e] \cup {op[p]}
                                                       ELSE last_execute_events[e]
    BY <2>1
  <2> QED
    BY <2>1, <2>2, ServeEvents
<1> QED
  BY <1>2, <1>3

\* The callback of a run is deferred after the tasks of this run, and before any
\* of the next one.
LEMMA RunAfterAllTasksEvents ==
  ASSUME Inv, EventInv, NEW p \in Processes, RunAfterAllTasks(p)
  PROVE  EventInv'
<1>1. /\ pc[p] = "callbacks" /\ pc' = [pc EXCEPT ![p] = "close"]
      /\ callbacks' = [d \in Devices |->
                         IF d \in Local(p) THEN Append(callbacks[d], last_execute_events[d])
                                           ELSE callbacks[d]]
      /\ UNCHANGED <<ops, run, op, deferred, last_execute_events,
                     sync_all_execution_event, done, future>>
  BY DEF RunAfterAllTasks, eventVars, windowVars, runtimeVars
<1>2. /\ TypeOK /\ Len(ops) \in Nat \ {0} /\ Operations = 1 .. Len(ops)
      /\ \A d \in Devices : callbacks[d] \in Seq(SUBSET Operations)
      /\ \A d \in Devices : last_execute_events[d] \in SUBSET Operations
      /\ run[p] \in Nat /\ op[p] \in 1 .. Len(ops) + 1
  BY ProgramFacts DEF Inv, TypeOK
<1>3. \A q \in Processes : pc'[q] = IF q = p THEN "close" ELSE pc[q]
  BY <1>1, <1>2 DEF TypeOK
<1>4. ASSUME NEW d \in Devices, d \in Local(p)
      PROVE  /\ Len(callbacks[d]) = run[p] - 1 /\ Len(callbacks'[d]) = run[p]
             /\ DOMAIN callbacks[d] = 1 .. run[p] - 1
             /\ DOMAIN callbacks'[d] = 1 .. run[p]
             /\ \A r \in 1 .. run[p] - 1 : callbacks'[d][r] = callbacks[d][r]
             /\ callbacks'[d][run[p]] = last_execute_events[d]
  <2>1. Len(callbacks[d]) = run[p] - 1
    BY <1>1, <1>4 DEF EventInv, RunInv
  <2>2. callbacks'[d] = Append(callbacks[d], last_execute_events[d])
    BY <1>1, <1>4
  <2>3. /\ DOMAIN callbacks[d] = 1 .. Len(callbacks[d])
        /\ DOMAIN callbacks'[d] = 1 .. Len(callbacks[d]) + 1
        /\ Len(callbacks'[d]) = Len(callbacks[d]) + 1
        /\ \A r \in 1 .. Len(callbacks[d]) : callbacks'[d][r] = callbacks[d][r]
        /\ callbacks'[d][Len(callbacks[d]) + 1] = last_execute_events[d]
    BY <1>2, <2>2, AppendFacts, AppendProperties
  <2> QED
    BY <1>2, <2>1, <2>3, SMTT(30)
<1>5. \A d \in Devices : d \notin Local(p) => callbacks'[d] = callbacks[d]
  BY <1>1
<1>6. ExecuteInv'
  BY <1>1 DEF EventInv, ExecuteInv, IsTask
<1>7. RunInv'
  <2>1. Operations' = Operations /\ \A q \in Processes : Local(q)' = Local(q)
    BY <1>1 DEF Operations, Local
  <2>2. \A q \in Processes \ {p} : \A d \in Local(q) : d \in Devices /\ d \notin Local(p)
    BY DEF Local
  <2>3. \A d \in Local(p) : d \in Devices
    BY DEF Local
  <2>4. \A q \in Processes : \A d \in Local(q) :
          Len(callbacks'[d]) = IF pc'[q] \in {"open", "dispatch", "callbacks"}
                                 THEN run[q] - 1 ELSE run[q]
    BY <1>3, <1>4, <1>5, <2>2, <2>3 DEF EventInv, RunInv
  <2>5. \A q \in Processes :
          /\ pc'[q] \in {"open", "dispatch"} => ops[op[q]].run = run[q]
          /\ pc'[q] \in {"callbacks", "close"} /\ op[q] \in Operations =>
               ops[op[q]].run = run[q] + 1
    BY <1>1, <1>3 DEF EventInv, RunInv
  <2>6. op' = op /\ run' = run /\ ops' = ops
    BY <1>1
  <2> QED
    BY <2>1, <2>4, <2>5, <2>6 DEF RunInv
<1>8. CallbackInv'
  <2> SUFFICES ASSUME NEW d \in Devices, NEW r \in DOMAIN callbacks'[d], NEW n \in Operations,
                      IsTask(n), ops[n].run <= r, d \in On(n)
               PROVE  n \in callbacks'[d][r]
    BY <1>1 DEF CallbackInv, Operations, IsTask, On
  <2>1. CASE d \notin Local(p) \/ r \in DOMAIN callbacks[d]
    <3>1. r \in DOMAIN callbacks[d] /\ callbacks'[d][r] = callbacks[d][r]
      <4>1. CASE d \notin Local(p)
        BY <1>5, <4>1
      <4>2. CASE d \in Local(p) /\ r \in DOMAIN callbacks[d]
        BY <1>4, <4>2
      <4> QED
        BY <2>1, <4>1, <4>2
    <3> QED
      BY <3>1 DEF EventInv, CallbackInv
  <2>2. CASE d \in Local(p) /\ r \notin DOMAIN callbacks[d]
    <3>1. r = run[p] /\ callbacks'[d][r] = last_execute_events[d] /\ Owner[d] = p
      BY <1>2, <1>4, <2>2 DEF Local
    <3>2. n < op[p]
      <4>1. n \in Nat /\ op[p] \in Nat /\ ops[n].run \in Nat
        BY <1>2, ProgramFacts DEF IsOperation, TypeOK
      <4>2. SUFFICES ASSUME n >= op[p] PROVE FALSE
        BY <4>1
      <4>3. op[p] \in Operations
        BY <1>2, <4>1, <4>2
      <4>4. ops[op[p]].run = run[p] + 1
        BY <1>1, <4>3 DEF EventInv, RunInv
      <4>5. ops[op[p]].run <= ops[n].run
        BY <1>2, <4>2, <4>3, RunsAscend DEF TypeOK
      <4> QED
        BY <1>2, <3>1, <4>1, <4>4, <4>5
    <3>3. n \in deferred[d]
      BY <3>1, <3>2, DeferredBefore
    <3> QED
      BY <3>1, <3>3 DEF EventInv, ExecuteInv
  <2> QED
    BY <2>1, <2>2
<1>9. FutureInv'
  <2> SUFFICES ASSUME NEW d \in Devices, NEW r \in future[d]
               PROVE  r \in DOMAIN callbacks'[d] /\ callbacks'[d][r] \subseteq done[d]
    BY <1>1 DEF FutureInv
  <2>1. r \in DOMAIN callbacks[d] /\ callbacks[d][r] \subseteq done[d]
    BY DEF EventInv, FutureInv
  <2>2. CASE d \in Local(p)
    <3>1. r \in 1 .. run[p] - 1
      BY <1>4, <2>1, <2>2
    <3>2. callbacks'[d][r] = callbacks[d][r] /\ r \in DOMAIN callbacks'[d]
      BY <1>2, <1>4, <2>2, <3>1
    <3> QED
      BY <2>1, <3>2
  <2>3. CASE d \notin Local(p)
    BY <1>5, <2>1, <2>3
  <2> QED
    BY <2>2, <2>3
<1>10. SyncInv'
  BY <1>1, <1>3 DEF EventInv, SyncInv, Local, IsTask, Triggered
<1> QED
  BY <1>6, <1>7, <1>8, <1>9, <1>10 DEF EventInv

\* CloseWindow adds the events of the local devices to what StopZuku waits for.
LEMMA CloseWindowEvents ==
  ASSUME Inv, EventInv, NEW p \in Processes, CloseWindow(p)
  PROVE  EventInv'
<1> DEFINE marker == UNION { {d} \X last_execute_events[d] : d \in Local(p) }
<1>1. /\ pc[p] = "close"
      /\ pc' = [pc EXCEPT ![p] = IF op[p] > Len(ops) THEN "exit" ELSE "open"]
      /\ run' = [run EXCEPT ![p] = IF op[p] > Len(ops) THEN run[p] ELSE run[p] + 1]
      /\ sync_all_execution_event' =
           [sync_all_execution_event EXCEPT ![p] = sync_all_execution_event[p] \cup marker]
      /\ UNCHANGED <<ops, op, deferred, last_execute_events, callbacks, done, future>>
  BY DEF CloseWindow, eventVars, runtimeVars
<1>2. /\ TypeOK /\ Len(ops) \in Nat \ {0} /\ Operations = 1 .. Len(ops)
      /\ run[p] \in Nat /\ op[p] \in 1 .. Len(ops) + 1
  BY ProgramFacts DEF Inv, TypeOK
<1>3. /\ \A q \in Processes \ {p} : /\ pc'[q] = pc[q] /\ run'[q] = run[q]
                                    /\ sync_all_execution_event'[q] = sync_all_execution_event[q]
      /\ pc'[p] = IF op[p] > Len(ops) THEN "exit" ELSE "open"
      /\ run'[p] = IF op[p] > Len(ops) THEN run[p] ELSE run[p] + 1
      /\ sync_all_execution_event'[p] = sync_all_execution_event[p] \cup marker
  BY <1>1, <1>2 DEF TypeOK
<1>4. ExecuteInv' /\ CallbackInv' /\ FutureInv'
  BY <1>1 DEF EventInv, ExecuteInv, CallbackInv, FutureInv, Operations, IsTask, On
<1>5. RunInv'
  <2>1. Operations' = Operations /\ \A q \in Processes : Local(q)' = Local(q)
    BY <1>1 DEF Operations, Local
  <2>2. /\ op[p] \in Operations => ops[op[p]].run = run[p] + 1
        /\ \A d \in Local(p) : Len(callbacks[d]) = run[p]
    BY <1>1 DEF EventInv, RunInv
  <2>3. op[p] \in Operations <=> ~(op[p] > Len(ops))
    BY <1>2
  <2>4. (run[p] + 1) - 1 = run[p]
    BY <1>2
  <2> QED
    BY <1>1, <1>3, <2>1, <2>2, <2>3, <2>4 DEF EventInv, RunInv
<1>6. SyncInv'
  <2>1. \A n : IsTask(n)' <=> IsTask(n)
    BY <1>1 DEF IsTask
  <2>2. \A d \in Local(p) : \A n \in deferred[d] : IsTask(n) => <<d, n>> \in marker
    <3> SUFFICES ASSUME NEW d \in Local(p), NEW n \in deferred[d], IsTask(n)
                 PROVE  <<d, n>> \in marker
      OBVIOUS
    <3>1. n \in last_execute_events[d]
      BY DEF EventInv, ExecuteInv, Local
    <3> QED
      BY <3>1
  <2>3. pc'[p] # "stopped"
    BY <1>3
  <2> HIDE DEF marker
  <2> QED
    BY <1>1, <1>3, <2>1, <2>2, <2>3 DEF EventInv, SyncInv, Local, Triggered
<1> QED
  BY <1>4, <1>5, <1>6 DEF EventInv

\* StopZuku goes on once the events have triggered.
LEMMA StopZukuEvents ==
  ASSUME Inv, EventInv, NEW p \in Processes, StopZuku(p)
  PROVE  EventInv'
<1>1. /\ pc[p] = "exit" /\ pc' = [pc EXCEPT ![p] = "stopped"]
      /\ Triggered(sync_all_execution_event[p])
      /\ UNCHANGED <<ops, run, op, deferred, last_execute_events,
                     sync_all_execution_event, callbacks, done, future>>
  BY DEF StopZuku, eventVars, windowVars, runtimeVars
<1>2. \A q \in Processes : pc'[q] = IF q = p THEN "stopped" ELSE pc[q]
  BY <1>1 DEF Inv, TypeOK
<1>3. ExecuteInv' /\ CallbackInv' /\ FutureInv'
  BY <1>1 DEF EventInv, ExecuteInv, CallbackInv, FutureInv, Operations, IsTask, On
<1>4. RunInv'
  <2>1. Operations' = Operations /\ \A q \in Processes : Local(q)' = Local(q)
    BY <1>1 DEF Operations, Local
  <2> QED
    BY <1>1, <1>2, <2>1 DEF EventInv, RunInv
<1>5. SyncInv'
  BY <1>1, <1>2 DEF EventInv, SyncInv, Local, IsTask, Triggered
<1> QED
  BY <1>3, <1>4, <1>5 DEF EventInv

\* The events hold in every state of Execute.
THEOREM EventInvariance == Spec => []EventInv
<1>1. Inv /\ EventInv /\ [Next]_vars => EventInv'
  <2> SUFFICES ASSUME Inv, EventInv, [Next]_vars PROVE EventInv'
    OBVIOUS
  <2>1. ASSUME NEW p \in Processes, HostStep(p) PROVE EventInv'
    BY <2>1, OpenWindowEvents, DispatchEvents, RunAfterAllTasksEvents,
       CloseWindowEvents, StopZukuEvents DEF HostStep
  <2>2. ASSUME NEW n \in Operations, NEW devices, Finish(n, devices) PROVE EventInv'
    <3>1. \A d \in Devices : done[d] \subseteq done'[d]
      BY <2>2 DEF Finish
    <3> QED
      BY <2>2, <3>1, RuntimeEvents DEF Finish, hostVars, eventVars, windowVars
  <2>3. ASSUME NEW d \in Devices, DeviceStep(d) PROVE EventInv'
    <3>1. ASSUME NEW n \in Operations, Launch(n, d) PROVE EventInv'
      BY <3>1, RuntimeEvents DEF Launch, hostVars, eventVars, windowVars
    <3> QED
      BY <2>2, <2>3, <3>1, RunCallbackEvents DEF DeviceStep, FinishTask
  <2>4. CASE GangStep
    BY <2>2, <2>4 DEF GangStep, FinishCollective, FinishReshard
  <2>5. CASE UNCHANGED vars
    BY <2>5, RuntimeEvents DEF vars, hostVars, eventVars, windowVars, runtimeVars
  <2> QED
    BY <2>1, <2>3, <2>4, <2>5 DEF Next
<1> QED
  BY InitEventInv, Invariance, <1>1, PTL DEF Spec

\* For all processes, devices and programs, the state of Execute is well typed and
\* operations are only deferred on their own devices.
THEOREM TypeCorrect == Spec => []TypeOK
<1>1. Inv => TypeOK
  BY DEF Inv
<1> QED
  BY Invariance, <1>1, PTL

\* For all processes, devices and programs, when the future of a run is ready on
\* a device, every task of this run and of the runs before it has ended there
\* (RunAfterAllTasks waits for last_execute_events, which accumulate).
THEOREM FuturesSound == Spec => []FutureMeansDone
<1>1. EventInv => FutureMeansDone
  BY DEF EventInv, CallbackInv, FutureInv, FutureMeansDone
<1> QED
  BY EventInvariance, <1>1, PTL

\* For all processes, devices and programs, StopZuku destroys the streams of a
\* process only when every task deferred on its devices has ended.
THEOREM StopIsSafe == Spec => []StopWaitsForTasks
<1>1. Inv /\ EventInv => StopWaitsForTasks
  <2> SUFFICES ASSUME Inv, EventInv, NEW p \in Processes, pc[p] = "stopped",
                      NEW d \in Local(p), NEW n \in deferred[d], IsTask(n)
               PROVE  n \in done[d]
    BY DEF StopWaitsForTasks
  <2>1. <<d, n>> \in sync_all_execution_event[p] /\ Triggered(sync_all_execution_event[p])
    BY DEF EventInv, SyncInv
  <2> QED
    BY <2>1 DEF Triggered
<1> QED
  BY Invariance, EventInvariance, <1>1, PTL
=============================================================================
