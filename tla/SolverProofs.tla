---------------------------- MODULE SolverProofs -----------------------------
(***************************************************************************)
(* Theorems about Solver, for every circuit that satisfies its assumptions *)
(* and any number of threads: first the types; then the control, who may   *)
(* be in Solve and who is queued to be, which says nothing of the pins'    *)
(* states; then the data, that no pin change is lost from the Set that     *)
(* makes it to the last connection that carries it.                        *)
(***************************************************************************)
EXTENDS Solver, SequenceTheorems, QueueLemmas, TLAPS

-----------------------------------------------------------------------------
(* The types.                                                              *)

\* The pins that Set is called on: those that ConnectAssumption lets a driver
\* reach, and those set from outside.
Settable == {q \in Pin : Direction[q] \in {1, 2, 4} /\ (Direction[q] = 1 => Owner[q] # Sim)}

\* Whatever is connected can be Set: an input of a child, an output or all_stop.
LEMMA TargetsSettable ==
  ASSUME NEW p \in Driver, NEW i \in DOMAIN Targets[p]
  PROVE  Targets[p][i] \in Settable
<1>1. p \in Pin /\ Targets[p] \in Seq(Pin)
  BY ConnectAssumption DEF Driver
<1>2. Targets[p][i] \in Pin /\ Targets[p][i] \in Range(Targets[p])
  BY <1>1 DEF Range
<1>3. \/ Direction[Targets[p][i]] = 1 /\ Owner[Targets[p][i]] # Sim
      \/ Direction[Targets[p][i]] \in {2, 4}
  BY <1>2, ConnectAssumption
<1>. QED
  BY <1>2, <1>3 DEF Settable

\* A queue that takes one more entry stays a queue.
LEMMA AppendType ==
  ASSUME NEW S, NEW T, NEW f \in [S -> Seq(T)], NEW d \in S, NEW e \in T
  PROVE  [f EXCEPT ![d] = Append(@, e)] \in [S -> Seq(T)]
<1>1. f[d] \in Seq(T)
  OBVIOUS
<1>2. Append(f[d], e) \in Seq(T)
  BY <1>1, AppendProperties
<1>. QED
  BY <1>2

\* Only drivers have connections.
LEMMA TargetDriver ==
  ASSUME NEW p \in Pin, NEW i \in DOMAIN Targets[p]
  PROVE  p \in Driver
BY ConnectAssumption

\* A Gate's operator yields a Boolean.
LEMMA GateOutputType ==
  ASSUME NEW g \in Gate, NEW s \in [Pin -> BOOLEAN]
  PROVE  GateOutput(g, s) \in BOOLEAN
BY DEF GateOutput, AllHigh, AnyHigh

\* The output of a Gate is a pin of its own, of direction 2.
LEMMA OutType ==
  ASSUME NEW g \in Gate
  PROVE  Out(g) \in Pin /\ Owner[Out(g)] = g /\ Direction[Out(g)] = 2
<1>1. Outward[g] \in Seq(Pin) /\ Len(Outward[g]) = 1
  BY PinAssumption DEF Component
<1>2. 1 \in DOMAIN Outward[g]
  BY <1>1
<1>3. Out(g) \in Range(Outward[g])
  BY <1>2 DEF Out, Range
<1>. QED
  BY <1>3, PinAssumption DEF Component

\* What Set changes keeps its type.
LEMMA SetTypeOK ==
  ASSUME TypeOK, NEW q \in Settable, NEW v \in BOOLEAN, Set(q, v)
  PROVE  /\ state' \in [Pin -> BOOLEAN] /\ state_changed' \in [Pin -> BOOLEAN]
         /\ propagate_next_tick' \in [Device -> Seq(Component \ {Sim})]
         /\ propagate_this_tick' \in [Device -> Seq(Component \ {Sim})]
         /\ next_tick_flag' \in [Component -> BOOLEAN]
         /\ this_tick_flag' \in [Component -> BOOLEAN]
         /\ solve_this_tick' \in [Device -> Seq(Device \ {Sim})]
         /\ solve_this_tick_flag' \in [Device -> BOOLEAN]
         /\ buffered_propagation' \in [Device -> BOOLEAN]
         /\ errors' \subseteq {"unstable", "all_stop"} \X Device
<1>. USE DEF TypeOK, Settable
<1>1. q \in Pin /\ Owner[q] \in Component
  BY PinAssumption
<1>2. CASE Direction[q] = 1 /\ Owner[q] \in Gate /\ SetGateInput(q, v)
  <2>. DEFINE g == Owner[q]
  <2>1. g \in Gate /\ g \in Component \ {Sim} /\ Parent[g] \in Device /\ Out(g) \in Pin
    BY <1>2, OutType, TreeAssumption DEF Component
  <2>2. [state EXCEPT ![q] = v] \in [Pin -> BOOLEAN]
    BY <1>1
  <2>3. GateOutput(g, [state EXCEPT ![q] = v]) \in BOOLEAN
    BY <2>1, <2>2, GateOutputType
  <2>4. state' \in [Pin -> BOOLEAN] /\ state_changed' \in [Pin -> BOOLEAN]
    <3>. DEFINE moved == [state EXCEPT ![q] = v]
    <3>1. \/ state' = moved /\ state_changed' = state_changed
          \/ /\ state' = [moved EXCEPT ![Out(g)] = GateOutput(g, moved)]
             /\ state_changed' = [state_changed EXCEPT ![Out(g)] = TRUE]
      BY <1>2 DEF SetGateInput
    <3>2. moved \in [Pin -> BOOLEAN] /\ GateOutput(g, moved) \in BOOLEAN
      BY <2>2, <2>3
    <3>. HIDE DEF moved, g
    <3>. QED
      BY <2>1, <3>1, <3>2
  <2>5. UNCHANGED <<solves, errors, propagate_this_tick, this_tick_flag>>
    BY <1>2 DEF SetGateInput, QueueToPropagate
  <2>6. \/ UNCHANGED <<propagate_next_tick, next_tick_flag>>
        \/ /\ propagate_next_tick' = [propagate_next_tick EXCEPT ![Parent[g]] = Append(@, g)]
           /\ next_tick_flag' = [next_tick_flag EXCEPT ![g] = TRUE]
    BY <1>2 DEF SetGateInput, QueueToPropagate
  <2>7. /\ propagate_next_tick' \in [Device -> Seq(Component \ {Sim})]
        /\ next_tick_flag' \in [Component -> BOOLEAN]
    <3>. HIDE DEF g
    <3>1. [propagate_next_tick EXCEPT ![Parent[g]] = Append(@, g)]
            \in [Device -> Seq(Component \ {Sim})]
      <4>1. propagate_next_tick \in [Device -> Seq(Component \ {Sim})]
        BY <1>1
      <4>. HIDE DEF TypeOK, Settable
      <4>. QED
        BY <2>1, <4>1, AppendType
    <3>2. [next_tick_flag EXCEPT ![g] = TRUE] \in [Component -> BOOLEAN]
      BY <1>1
    <3>. QED
      BY <1>1, <2>6, <3>1, <3>2, Zenon
  <2>. QED
    BY <2>4, <2>5, <2>7 DEF solves
<1>3. CASE Direction[q] = 1 /\ Owner[q] \in Device /\ SetDeviceInput(q, v)
  <2>1. Owner[q] \in Device \ {Sim} /\ Parent[Owner[q]] \in Device
    BY <1>3, TreeAssumption DEF Component
  <2>2. state' \in [Pin -> BOOLEAN] /\ state_changed' \in [Pin -> BOOLEAN]
    <3>1. state' = [state EXCEPT ![q] = v]
      BY <1>3 DEF SetDeviceInput
    <3>2. state_changed' \in {state_changed, [state_changed EXCEPT ![q] = TRUE]}
      BY <1>3 DEF SetDeviceInput
    <3>. QED
      BY <1>1, <3>1, <3>2
  <2>3. /\ solve_this_tick' \in [Device -> Seq(Device \ {Sim})]
        /\ solve_this_tick_flag' \in [Device -> BOOLEAN]
    <3>1. \/ UNCHANGED <<solve_this_tick, solve_this_tick_flag>>
          \/ /\ solve_this_tick' =
                  [solve_this_tick EXCEPT ![Parent[Owner[q]]] = Append(@, Owner[q])]
             /\ solve_this_tick_flag' = [solve_this_tick_flag EXCEPT ![Owner[q]] = TRUE]
      BY <1>3 DEF SetDeviceInput
    <3>2. [solve_this_tick EXCEPT ![Parent[Owner[q]]] = Append(@, Owner[q])]
            \in [Device -> Seq(Device \ {Sim})]
      <4>1. solve_this_tick \in [Device -> Seq(Device \ {Sim})]
        BY <1>1
      <4>. HIDE DEF TypeOK, Settable
      <4>. QED
        BY <2>1, <4>1, AppendType
    <3>3. [solve_this_tick_flag EXCEPT ![Owner[q]] = TRUE] \in [Device -> BOOLEAN]
      BY <1>1
    <3>. QED
      BY <1>1, <3>1, <3>2, <3>3, Zenon
  <2>4. UNCHANGED <<queues, buffered_propagation, errors>>
    BY <1>3 DEF SetDeviceInput
  <2>. QED
    BY <2>2, <2>3, <2>4 DEF queues
<1>4. CASE Direction[q] = 2 /\ SetDeviceOutput(q, v)
  <2>1. state' = [state EXCEPT ![q] = v]
    BY <1>4 DEF SetDeviceOutput
  <2>2. /\ state_changed' \in {state_changed, [state_changed EXCEPT ![q] = TRUE]}
        /\ buffered_propagation' \in
             {buffered_propagation, [buffered_propagation EXCEPT ![Owner[q]] = TRUE]}
    BY <1>4 DEF SetDeviceOutput
  <2>3. UNCHANGED <<queues, solve_this_tick, solve_this_tick_flag, errors>>
    BY <1>4 DEF SetDeviceOutput
  <2>4. state' \in [Pin -> BOOLEAN] /\ state_changed' \in [Pin -> BOOLEAN]
    BY <1>1, <2>1, <2>2
  <2>5. buffered_propagation' \in [Device -> BOOLEAN]
    BY <2>2
  <2>. QED
    BY <2>3, <2>4, <2>5 DEF queues
<1>5. CASE Direction[q] = 4 /\ SetAllStop(q, v)
  <2>1. Owner[q] \in Device
    <3>1. Owner[q] \in Gate => Direction[q] \in {1, 2}
      BY <1>1, PinAssumption
    <3>. QED
      BY <1>1, <1>5, <3>1 DEF Component
  <2>2. errors' \in {errors, errors \cup {<<"all_stop", Owner[q]>>}}
    BY <1>5 DEF SetAllStop
  <2>3. errors' \subseteq {"unstable", "all_stop"} \X Device
    BY <2>1, <2>2
  <2>4. UNCHANGED <<pins, queues, solves>>
    BY <1>5 DEF SetAllStop
  <2>. QED
    BY <2>3, <2>4 DEF queues, pins, solves
<1>. QED
  <2>. HIDE DEF TypeOK
  <2>. QED
    BY <1>2, <1>3, <1>4, <1>5 DEF Set

\* The pin at which a scan stands is a pin.
LEMMA ScanType ==
  ASSUME TypeOK, NEW d \in Device
  PROVE  /\ Scan(d) \in Seq(Pin)
         /\ Scanning(d) => pinAt[d] \in DOMAIN Scan(d) /\ ScanPin(d) \in Pin
<1>1. Scan(d) \in Seq(Pin)
  BY PinAssumption DEF Scan, TypeOK
<1>2. pinAt[d] \in Nat \ {0}
  BY DEF TypeOK
<1>. QED
  BY <1>1, <1>2 DEF Scanning, ScanPin

\* Entering Solve keeps the types.
LEMMA EnterTypeOK ==
  ASSUME TypeOK, NEW d \in Device, Enter(d)
  PROVE  /\ phase' \in [Device -> Phase]
         /\ solve_this_tick_flag' \in [Device -> BOOLEAN]
         /\ sub_tick_count' \in [Device -> Nat]
         /\ current' \in [Device -> Component]
         /\ pinAt' \in [Device -> Nat \ {0}]
         /\ connAt' \in [Device -> Nat]
<1>1. "inputs" \in Phase /\ 1 \in Nat \ {0} /\ d \in Component
  BY DEF Phase, Component
<1>. QED
  BY <1>1 DEF TypeOK, Enter

\* The constructors leave every variable in its type.
LEMMA InitTypeOK == Init => TypeOK
<1>. SUFFICES ASSUME Init PROVE TypeOK
  OBVIOUS
<1>1. state \in [Pin -> BOOLEAN] /\ state_changed \in [Pin -> BOOLEAN]
  BY DEF Init
<1>2. \A d \in Device : d \in Component
  BY DEF Component
<1>. QED
  BY <1>1, <1>2 DEF Init, TypeOK, Phase

\* Each step of Device::Solve keeps the types.
LEMMA SolveStepTypeOK ==
  ASSUME TypeOK, NEW d \in Device, SolveStep(d)
  PROVE  TypeOK'
<1>0. {"idle", "inputs", "subtick", "propagate", "children", "return"} = Phase
  BY DEF Phase
<1>a. /\ pinAt \in [Device -> Nat \ {0}] /\ connAt \in [Device -> Nat]
      /\ started \in [Device -> Nat] /\ sub_tick_count \in [Device -> Nat]
      /\ phase \in [Device -> Phase]
  BY DEF TypeOK
<1>b. /\ [pinAt EXCEPT ![d] = @ + 1] \in [Device -> Nat \ {0}]
      /\ [connAt EXCEPT ![d] = @ + 1] \in [Device -> Nat]
      /\ [started EXCEPT ![d] = @ + 1] \in [Device -> Nat]
      /\ [sub_tick_count EXCEPT ![d] = @ + 1] \in [Device -> Nat]
  BY <1>a
<1>c. \A x \in Phase : [phase EXCEPT ![d] = x] \in [Device -> Phase]
  BY <1>a
<1>1. CASE SkipPin(d)
  <2>1. /\ pinAt' = [pinAt EXCEPT ![d] = @ + 1]
        /\ UNCHANGED <<pins, queues, solves, current, connAt, phase, started, sub_tick_count,
                       built, errors>>
    BY <1>1 DEF SkipPin
  <2>. QED
    BY <1>b, <2>1 DEF TypeOK, pins, queues, solves
<1>2. CASE TakePin(d)
  BY <1>2 DEF TakePin, TypeOK, queues, solves
<1>3. CASE Deliver(d)
  <2>. DEFINE p == ScanPin(d)
              q == Targets[p][connAt[d]]
  <2>1. p \in Driver /\ p \in Pin /\ q \in Settable
    BY <1>3, ScanType, TargetDriver, TargetsSettable DEF Deliver
  <2>2. state[p] \in BOOLEAN /\ Set(q, state[p])
    BY <1>3, <2>1 DEF Deliver, TypeOK
  <2>3. connAt' \in [Device -> Nat] /\ UNCHANGED <<current, pinAt, phase, started, sub_tick_count, built>>
    BY <1>3 DEF Deliver, TypeOK
  <2>. HIDE DEF p, q
  <2>. QED
    BY <2>1, <2>2, <2>3, SetTypeOK DEF TypeOK
<1>4. CASE LeavePin(d)
  <2>1. /\ pinAt' = [pinAt EXCEPT ![d] = @ + 1] /\ connAt' = [connAt EXCEPT ![d] = 0]
        /\ UNCHANGED <<pins, queues, solves, current, phase, started, sub_tick_count, built, errors>>
    BY <1>4 DEF LeavePin
  <2>2. connAt' \in [Device -> Nat]
    BY <1>a, <2>1
  <2>. QED
    BY <1>b, <2>1, <2>2 DEF TypeOK, pins, queues, solves
<1>5. CASE BeginSubTick(d)
  <2>1. /\ propagate_this_tick' = [propagate_this_tick EXCEPT ![d] = @ \o propagate_next_tick[d]]
        /\ propagate_next_tick' = [propagate_next_tick EXCEPT ![d] = <<>>]
    BY <1>5 DEF BeginSubTick
  <2>2. /\ propagate_this_tick' \in [Device -> Seq(Component \ {Sim})]
        /\ propagate_next_tick' \in [Device -> Seq(Component \ {Sim})]
    <3>1. propagate_this_tick[d] \o propagate_next_tick[d] \in Seq(Component \ {Sim})
      BY DEF TypeOK
    <3>2. /\ propagate_this_tick \in [Device -> Seq(Component \ {Sim})]
          /\ propagate_next_tick \in [Device -> Seq(Component \ {Sim})]
      BY DEF TypeOK
    <3>. QED
      BY <2>1, <3>1, <3>2
  <2>3. /\ this_tick_flag' \in [Component -> BOOLEAN]
        /\ next_tick_flag' \in [Component -> BOOLEAN]
    BY <1>5 DEF BeginSubTick, TypeOK
  <2>4. /\ phase' \in [Device -> Phase]
        /\ current' \in [Device -> Component]
        /\ pinAt' \in [Device -> Nat \ {0}]
    <3>1. Len(Inward[d]) + 1 \in Nat \ {0} /\ d \in Component
      BY PinAssumption DEF Component
    <3>2. /\ phase' = [phase EXCEPT ![d] = "propagate"]
          /\ current' = [current EXCEPT ![d] = d]
          /\ pinAt' = [pinAt EXCEPT ![d] = Len(Inward[d]) + 1]
      BY <1>5 DEF BeginSubTick
    <3>. QED
      BY <1>0, <3>1, <3>2 DEF TypeOK
  <2>. QED
    BY <1>5, <2>2, <2>3, <2>4 DEF BeginSubTick, TypeOK, pins, solves
<1>6. CASE BeginPropagate(d)
  <2>1. /\ propagate_this_tick[d] \in Seq(Component \ {Sim}) /\ propagate_this_tick[d] # <<>>
    BY <1>6 DEF BeginPropagate, TypeOK
  <2>2. /\ Head(propagate_this_tick[d]) \in Component
        /\ Tail(propagate_this_tick[d]) \in Seq(Component \ {Sim})
    BY <2>1
  <2>3. /\ propagate_this_tick' = [propagate_this_tick EXCEPT ![d] = Tail(@)]
        /\ this_tick_flag' = [this_tick_flag EXCEPT ![Head(propagate_this_tick[d])] = FALSE]
        /\ current' = [current EXCEPT ![d] = Head(propagate_this_tick[d])]
        /\ pinAt' = [pinAt EXCEPT ![d] = 1]
        /\ UNCHANGED <<pins, propagate_next_tick, next_tick_flag, solves, connAt, phase, started,
                       sub_tick_count, built, errors>>
    BY <1>6 DEF BeginPropagate
  <2>4. propagate_this_tick' \in [Device -> Seq(Component \ {Sim})]
    BY <2>2, <2>3 DEF TypeOK
  <2>5. /\ current' \in [Device -> Component]
        /\ this_tick_flag' \in [Component -> BOOLEAN]
    BY <2>2, <2>3 DEF TypeOK
  <2>6. pinAt' \in [Device -> Nat \ {0}]
    BY <1>a, <2>3
  <2>. QED
    BY <2>3, <2>4, <2>5, <2>6 DEF TypeOK, pins, solves
<1>7. CASE Repeat(d)
  <2>1. /\ sub_tick_count' = [sub_tick_count EXCEPT ![d] = @ + 1]
        /\ phase' = [phase EXCEPT ![d] = "subtick"]
        /\ UNCHANGED <<pins, queues, solves, scan, started, built, errors>>
    BY <1>7 DEF Repeat
  <2>2. phase' \in [Device -> Phase]
    BY <1>0, <1>c, <2>1
  <2>. QED
    BY <1>b, <2>1, <2>2 DEF TypeOK, pins, queues, solves, scan
<1>8. CASE Stall(d)
  <2>1. errors' \subseteq {"unstable", "all_stop"} \X Device
    <3>1. errors' = errors \cup {<<"unstable", d>>}
      BY <1>8 DEF Stall
    <3>2. errors \subseteq {"unstable", "all_stop"} \X Device
      BY DEF TypeOK
    <3>3. <<"unstable", d>> \in {"unstable", "all_stop"} \X Device
      OBVIOUS
    <3>. QED
      BY <3>1, <3>2, <3>3
  <2>2. /\ sub_tick_count' = [sub_tick_count EXCEPT ![d] = @ + 1]
        /\ phase' = [phase EXCEPT ![d] = "return"]
        /\ UNCHANGED <<pins, queues, solves, scan, started, built>>
    BY <1>8 DEF Stall
  <2>3. phase' \in [Device -> Phase]
    BY <1>0, <1>c, <2>2
  <2>. QED
    BY <1>b, <2>1, <2>2, <2>3 DEF TypeOK, pins, queues, solves, scan
<1>9. CASE Quiesce(d)
  BY <1>0, <1>9 DEF Quiesce, TypeOK, pins, queues, solves, scan
<1>10. CASE StartChild(d)
  <2>. DEFINE c == solve_this_tick[d][started[d] + 1]
  <2>1. solve_this_tick[d] \in Seq(Device \ {Sim}) /\ started[d] \in Nat
    BY DEF TypeOK
  <2>2. c \in Device /\ Enter(c)
    BY <1>10, <2>1 DEF StartChild
  <2>3. started' \in [Device -> Nat]
    <3>1. started' = [started EXCEPT ![d] = @ + 1]
      BY <1>10 DEF StartChild
    <3>. QED
      BY <1>b, <3>1
  <2>4. UNCHANGED <<pins, queues, solve_this_tick, buffered_propagation, built, errors>>
    BY <1>10 DEF StartChild
  <2>. HIDE DEF c
  <2>. QED
    BY <2>2, <2>3, <2>4, EnterTypeOK DEF TypeOK, pins, queues
<1>11. CASE EndChildren(d)
  <2>1. /\ solve_this_tick' = [solve_this_tick EXCEPT ![d] = <<>>]
        /\ \E x \in Phase : phase' = [phase EXCEPT ![d] = x]
        /\ UNCHANGED <<pins, queues, solve_this_tick_flag, buffered_propagation, scan, started,
                       sub_tick_count, built, errors>>
    BY <1>0, <1>11 DEF EndChildren
  <2>2. phase' \in [Device -> Phase]
    BY <1>c, <2>1
  <2>3. solve_this_tick' \in [Device -> Seq(Device \ {Sim})]
    BY <2>1 DEF TypeOK
  <2>. QED
    BY <2>1, <2>2, <2>3 DEF TypeOK, pins, queues, scan
<1>12. CASE Return(d)
  <2>1. propagate_next_tick' \in [Device -> Seq(Component \ {Sim})]
    <3>1. CASE d # Sim /\ buffered_propagation[d]
      <4>1. Parent[d] \in Device /\ d \in Component \ {Sim}
        BY <3>1, TreeAssumption DEF Component
      <4>2. propagate_next_tick \in [Device -> Seq(Component \ {Sim})]
        BY DEF TypeOK
      <4>3. propagate_next_tick' = [propagate_next_tick EXCEPT ![Parent[d]] = Append(@, d)]
        BY <1>12, <3>1 DEF Return
      <4>. QED
        BY <4>1, <4>2, <4>3, AppendType
    <3>2. CASE ~(d # Sim /\ buffered_propagation[d])
      BY <1>12, <3>2 DEF Return, TypeOK
    <3>. QED
      BY <3>1, <3>2
  <2>2. buffered_propagation' \in [Device -> BOOLEAN] /\ phase' \in [Device -> Phase]
    BY <1>0, <1>12 DEF Return, TypeOK
  <2>3. UNCHANGED <<pins, next_tick_flag, propagate_this_tick, this_tick_flag, solve_this_tick,
                    solve_this_tick_flag, scan, started, sub_tick_count, built, errors>>
    BY <1>12 DEF Return
  <2>. QED
    BY <2>1, <2>2, <2>3 DEF TypeOK, pins, scan
<1>. QED
  BY <1>1, <1>2, <1>3, <1>4, <1>5, <1>6, <1>7, <1>8, <1>9, <1>10, <1>11, <1>12 DEF SolveStep

\* Device::Stabilise keeps the types.
LEMMA StabiliseTypeOK ==
  ASSUME TypeOK, NEW d \in Device, Stabilise(d)
  PROVE  TypeOK'
<1>1. state' \in [Pin -> BOOLEAN]
  <2>1. \A p \in Pin : Owner[p] \in Gate => GateOutput(Owner[p], state) \in BOOLEAN
    BY GateOutputType DEF TypeOK
  <2>2. \A p \in Pin : state[p] \in BOOLEAN
    BY DEF TypeOK
  <2>. QED
    BY <2>1, <2>2 DEF Stabilise
<1>2. state_changed' \in [Pin -> BOOLEAN]
  <2>1. \A p \in Pin : state_changed[p] \in BOOLEAN
    BY DEF TypeOK
  <2>. QED
    BY <2>1 DEF Stabilise
<1>3. propagate_next_tick' \in [Device -> Seq(Component \ {Sim})]
  <2>1. propagate_next_tick[d] \o Children[d] \in Seq(Component \ {Sim})
    <3>1. Children[d] \in Seq(Component \ {Sim})
      BY TreeAssumption
    <3>2. propagate_next_tick[d] \in Seq(Component \ {Sim})
      BY DEF TypeOK
    <3>. QED
      BY <3>1, <3>2
  <2>. QED
    BY <2>1 DEF Stabilise, TypeOK
<1>4. Enter(d) /\ built' \subseteq Device
  BY DEF Stabilise, TypeOK
<1>. QED
  BY <1>1, <1>2, <1>3, <1>4, EnterTypeOK DEF Stabilise, TypeOK

\* Every step keeps the types.
LEMMA NextTypeOK ==
  ASSUME TypeOK, [Next]_vars
  PROVE  TypeOK'
<1>1. ASSUME NEW d \in Device, SolveStep(d) \/ Stabilise(d)
      PROVE  TypeOK'
  BY <1>1, SolveStepTypeOK, StabiliseTypeOK
<1>2. ASSUME NEW q \in External, NEW v \in BOOLEAN, Drive(q, v)
      PROVE  TypeOK'
  <2>1. q \in Settable
    <3>1. q \in Pin /\ Direction[q] = 1 /\ Owner[q] # Sim
      BY ConnectAssumption
    <3>. QED
      BY <3>1 DEF Settable
  <2>2. Set(q, v) /\ UNCHANGED <<scan, phase, started, sub_tick_count, built>>
    BY <1>2 DEF Drive
  <2>3. /\ state' \in [Pin -> BOOLEAN] /\ state_changed' \in [Pin -> BOOLEAN]
        /\ propagate_next_tick' \in [Device -> Seq(Component \ {Sim})]
        /\ propagate_this_tick' \in [Device -> Seq(Component \ {Sim})]
        /\ next_tick_flag' \in [Component -> BOOLEAN]
        /\ this_tick_flag' \in [Component -> BOOLEAN]
        /\ solve_this_tick' \in [Device -> Seq(Device \ {Sim})]
        /\ solve_this_tick_flag' \in [Device -> BOOLEAN]
        /\ buffered_propagation' \in [Device -> BOOLEAN]
        /\ errors' \subseteq {"unstable", "all_stop"} \X Device
    BY <1>2, <2>1, <2>2, SetTypeOK
  <2>4. /\ phase' \in [Device -> Phase] /\ current' \in [Device -> Component]
        /\ pinAt' \in [Device -> Nat \ {0}] /\ connAt' \in [Device -> Nat]
        /\ started' \in [Device -> Nat] /\ sub_tick_count' \in [Device -> Nat]
        /\ built' \subseteq Device
    BY <2>2 DEF TypeOK, scan
  <2>. QED
    BY <2>3, <2>4 DEF TypeOK
<1>3. CASE SolveTop
  <2>1. Enter(Sim) /\ UNCHANGED <<pins, queues, solve_this_tick, buffered_propagation, started,
                                  built, errors>>
    BY <1>3 DEF SolveTop
  <2>. QED
    BY <2>1, EnterTypeOK, TreeAssumption DEF TypeOK, pins, queues
<1>4. CASE UNCHANGED vars
  BY <1>4 DEF vars, pins, queues, solves, scan, TypeOK
<1>. QED
  BY <1>1, <1>2, <1>3, <1>4 DEF Next

\* Every variable keeps its type in every behaviour of the solver.
THEOREM TypeCorrect == Spec => []TypeOK
BY InitTypeOK, NextTypeOK, PTL DEF Spec

-----------------------------------------------------------------------------
(* Control.                                                               *)

ChildrenOf(d) == {c \in Component \ {Sim} : Parent[c] = d}

-----------------------------------------------------------------------------
(* The inductive invariant, part by part.                                  *)

\* Devices are built from the leaves up; one that is not built is untouched.
Construction ==
  /\ \A d \in Device : phase[d] # "idle" => d \in built
  /\ \A d \in Device : \A a \in Ancestors[d] : a \in built => d \in built
  /\ \A d \in Device \ built : solve_this_tick[d] = <<>>

\* A Device queues and propagates its own children only.
Homes ==
  \A d \in Device :
    /\ Range(propagate_next_tick[d]) \subseteq ChildrenOf(d)
    /\ Range(propagate_this_tick[d]) \subseteq ChildrenOf(d)
    /\ Range(solve_this_tick[d]) \subseteq ChildrenOf(d)
    /\ current[d] \in {d} \cup ChildrenOf(d)
    /\ phase[d] = "inputs" => current[d] = d

\* The sub-tick's queue is in use during the sub-tick only, a pin's connections
\* while the pin is being propagated only.
Loops ==
  \A d \in Device :
    /\ phase[d] # "propagate" => propagate_this_tick[d] = <<>>
    /\ connAt[d] # 0 => Scanning(d)

\* The pending flag of a Device is clear while it is being solved.
BusyClear ==
  /\ \A d \in Device : phase[d] # "idle" => ~solve_this_tick_flag[d]
  /\ ~solve_this_tick_flag[Sim]

Control == TypeOK /\ Construction /\ Homes /\ Loops /\ CallStack /\ SolveFlags /\ BusyClear

-----------------------------------------------------------------------------
(* Facts about the tree, the scan and the waiting children.                *)

\* The Device above another one is among its ancestors, and a step down from
\* an ancestor towards it leads to a child of that ancestor.
LEMMA AncestorFacts ==
  ASSUME NEW d \in Device
  PROVE  /\ d # Sim => Parent[d] \in Ancestors[d] /\ Parent[d] \in Device
         /\ d \notin Ancestors[d] /\ Ancestors[d] \subseteq Device
         /\ d # Sim => Ancestors[d] = {Parent[d]} \cup Ancestors[Parent[d]]
         /\ \A a \in Ancestors[d] : \E c \in Ancestors[d] \cup {d} :
              c \in Device \ {Sim} /\ Parent[c] = a
<1>1. Ancestors[d] \subseteq Device
  BY TreeAssumption
<1>2. CASE d = Sim
  BY <1>1, <1>2, TreeAssumption
<1>3. CASE d # Sim
  <2>1. d \in Device \ {Sim} /\ Parent[d] \in Device
    BY <1>3, TreeAssumption DEF Component
  <2>2. Ancestors[d] = {Parent[d]} \cup Ancestors[Parent[d]] /\ d \notin Ancestors[d]
    BY <2>1, TreeAssumption
  <2>3. \A a \in Ancestors[d] : \E c \in Ancestors[d] \cup {d} : c # Sim /\ Parent[c] = a
    BY <2>1, TreeAssumption
  <2>. QED
    BY <1>1, <1>3, <2>1, <2>2, <2>3
<1>. QED
  BY <1>2, <1>3

\* The pin being propagated by d has its connections in the circuit of d.
LEMMA ScanHome ==
  ASSUME TypeOK, Homes, NEW d \in Device, Scanning(d)
  PROVE  /\ ScanPin(d) \in Pin /\ Direction[ScanPin(d)] \in {1, 2, 3}
         /\ \/ Owner[ScanPin(d)] = d /\ Direction[ScanPin(d)] \in {1, 3}
            \/ Owner[ScanPin(d)] \in ChildrenOf(d) /\ Direction[ScanPin(d)] = 2
         /\ ScanPin(d) \in Driver /\ Home[ScanPin(d)] = d
<1>. DEFINE p == ScanPin(d)
<1>1. p \in Pin /\ p \in Range(Scan(d))
  BY ScanType DEF ScanPin, Range
<1>2. current[d] \in Component /\ current[d] \in {d} \cup ChildrenOf(d)
  BY DEF TypeOK, Homes
<1>3. CASE current[d] = d
  <2>1. Owner[p] = d /\ Direction[p] \in {1, 3}
    BY <1>1, <1>3, PinAssumption DEF Scan
  <2>. QED
    BY <1>1, <2>1 DEF Driver, Home
<1>4. CASE current[d] # d
  <2>1. Owner[p] = current[d] /\ Direction[p] = 2
    BY <1>1, <1>2, <1>4, PinAssumption DEF Scan
  <2>2. Owner[p] \in ChildrenOf(d) /\ Owner[p] # Sim /\ Parent[Owner[p]] = d
    BY <1>2, <1>4, <2>1 DEF ChildrenOf
  <2>. QED
    BY <1>1, <2>1, <2>2 DEF Driver, Home
<1>. QED
  BY <1>3, <1>4

\* Outside the loop over the children everything queued is waiting.
LEMMA WaitingAll ==
  ASSUME NEW d \in Device, phase[d] # "children"
  PROVE  Waiting(d) = {solve_this_tick[d][i] : i \in 1 .. Len(solve_this_tick[d])}
BY DEF Waiting

\* The elements of a sequence, as Waiting lists them and as Range does.
LEMMA RangeElements ==
  ASSUME NEW S, NEW s \in Seq(S)
  PROVE  Range(s) = {s[i] : i \in 1 .. Len(s)}
BY DEF Range

-----------------------------------------------------------------------------
(* A Set, called while the Device h propagates or from outside on a child  *)
(* of the idle Simulation h.                                               *)

Setting(h, q) ==
  /\ h \in built /\ q \in Settable
  /\ \/ Direction[q] = 1 /\ Parent[Owner[q]] = h
     \/ Direction[q] \in {2, 4} /\ Owner[q] = h
  /\ \/ phase[h] \in {"inputs", "propagate"}
     \/ AllIdle /\ h = Sim /\ Direction[q] = 1

\* The Set of a delivery is one that the delivering Device may make.
LEMMA DeliverSetting ==
  ASSUME Control, NEW d \in Device, Deliver(d)
  PROVE  /\ Setting(d, Targets[ScanPin(d)][connAt[d]])
         /\ Set(Targets[ScanPin(d)][connAt[d]], state[ScanPin(d)])
         /\ state[ScanPin(d)] \in BOOLEAN
<1>. DEFINE p == ScanPin(d)
            q == Targets[p][connAt[d]]
<1>1. Scanning(d) /\ connAt[d] \in DOMAIN Targets[p] /\ Set(q, state[p])
  BY DEF Deliver
<1>2. p \in Pin /\ p \in Driver /\ Home[p] = d
  BY <1>1, ScanHome DEF Control
<1>3. q \in Settable
  BY <1>1, <1>2, TargetsSettable
<1>4. q \in Range(Targets[p])
  BY <1>1 DEF Range
<1>5. \/ Direction[q] = 1 /\ Parent[Owner[q]] = d
      \/ Direction[q] \in {2, 4} /\ Owner[q] = d
  BY <1>2, <1>4, ConnectAssumption
<1>6. phase[d] \in {"inputs", "propagate"}
  BY <1>1 DEF Scanning
<1>7. d \in built
  BY <1>6 DEF Control, Construction
<1>8. state[p] \in BOOLEAN
  BY <1>2 DEF Control, TypeOK
<1>. HIDE DEF p, q
<1>. QED
  <2>1. Setting(d, q)
    BY <1>3, <1>5, <1>6, <1>7 DEF Setting
  <2>. QED
    BY <1>1, <1>8, <2>1 DEF p, q

\* So is the Set of a Clock or of ChildSet, on behalf of the idle Simulation.
LEMMA DriveSetting ==
  ASSUME Control, NEW q \in External, NEW v \in BOOLEAN, Drive(q, v)
  PROVE  Setting(Sim, q)
<1>1. q \in Pin /\ Direction[q] = 1 /\ Owner[q] # Sim /\ Parent[Owner[q]] = Sim
  BY ConnectAssumption
<1>. QED
  BY <1>1 DEF Drive, Setting, Settable

\* What a Set does to the queues.
LEMMA SetQueues ==
  ASSUME TypeOK, NEW h \in Device, NEW q \in Settable, NEW v \in BOOLEAN,
         Setting(h, q), Set(q, v)
  PROVE  /\ UNCHANGED <<propagate_this_tick, this_tick_flag>>
         /\ \/ UNCHANGED <<propagate_next_tick, next_tick_flag>>
            \/ /\ Direction[q] = 1 /\ Owner[q] \in Gate
               /\ ~next_tick_flag[Owner[q]] /\ ~this_tick_flag[Owner[q]]
               /\ propagate_next_tick' = [propagate_next_tick EXCEPT ![h] = Append(@, Owner[q])]
               /\ next_tick_flag' = [next_tick_flag EXCEPT ![Owner[q]] = TRUE]
         /\ \/ UNCHANGED <<solve_this_tick, solve_this_tick_flag>>
            \/ /\ Direction[q] = 1 /\ Owner[q] \in Device \ {Sim}
               /\ ~solve_this_tick_flag[Owner[q]]
               /\ solve_this_tick' = [solve_this_tick EXCEPT ![h] = Append(@, Owner[q])]
               /\ solve_this_tick_flag' = [solve_this_tick_flag EXCEPT ![Owner[q]] = TRUE]
<1>1. CASE Direction[q] = 1 /\ Owner[q] \in Gate /\ SetGateInput(q, v)
  <2>1. Parent[Owner[q]] = h
    BY <1>1 DEF Setting
  <2>. QED
    BY <1>1, <2>1 DEF SetGateInput, QueueToPropagate, solves
<1>2. CASE Direction[q] = 1 /\ Owner[q] \in Device /\ SetDeviceInput(q, v)
  <2>1. Parent[Owner[q]] = h /\ Owner[q] # Sim
    BY <1>2 DEF Setting, Settable
  <2>. QED
    BY <1>2, <2>1 DEF SetDeviceInput, queues
<1>3. CASE Direction[q] = 2 /\ SetDeviceOutput(q, v)
  BY <1>3 DEF SetDeviceOutput, queues
<1>4. CASE Direction[q] = 4 /\ SetAllStop(q, v)
  BY <1>4 DEF SetAllStop, queues, solves
<1>. QED
  BY <1>1, <1>2, <1>3, <1>4 DEF Set

\* A Set leaves the control part of the invariant as it is.
LEMMA SetKeepsControl ==
  ASSUME Control, NEW h \in Device, NEW q \in Settable, NEW v \in BOOLEAN,
         Setting(h, q), Set(q, v), UNCHANGED <<phase, built, started, current>>
  PROVE  Construction' /\ Homes' /\ CallStack' /\ SolveFlags' /\ BusyClear'
<1>. DEFINE c == Owner[q]
<1>1. TypeOK /\ Construction /\ Homes /\ CallStack /\ SolveFlags /\ BusyClear
  BY DEF Control
<1>2. /\ propagate_this_tick' = propagate_this_tick
      /\ \/ propagate_next_tick' = propagate_next_tick
         \/ /\ Direction[q] = 1 /\ c \in Gate
            /\ propagate_next_tick' = [propagate_next_tick EXCEPT ![h] = Append(@, c)]
  BY <1>1, SetQueues
<1>3. \/ solve_this_tick' = solve_this_tick /\ solve_this_tick_flag' = solve_this_tick_flag
      \/ /\ Direction[q] = 1 /\ c \in Device \ {Sim} /\ ~solve_this_tick_flag[c]
         /\ solve_this_tick' = [solve_this_tick EXCEPT ![h] = Append(@, c)]
         /\ solve_this_tick_flag' = [solve_this_tick_flag EXCEPT ![c] = TRUE]
  BY <1>1, SetQueues
<1>4. h \in built /\ phase[h] # "children"
  BY DEF Setting, AllIdle
<1>5. Direction[q] = 1 => c \in Component \ {Sim} /\ Parent[c] = h /\ c \in ChildrenOf(h)
  BY PinAssumption, TreeAssumption DEF Setting, Settable, ChildrenOf
<1>6. CallStack'
  BY <1>1 DEF CallStack
<1>. HIDE DEF c
<1>7. Construction'
  <2>1. \A d \in Device \ built : solve_this_tick'[d] = <<>>
    BY <1>1, <1>3, <1>4 DEF Construction, TypeOK
  <2>. QED
    BY <1>1, <2>1 DEF Construction
<1>8. Homes'
  <2>1. Direction[q] = 1 => \A d \in Device, S \in {Component \ {Sim}, Device \ {Sim}} :
          \A s \in Seq(S) : c \in S /\ Range(s) \subseteq ChildrenOf(h) =>
            Range(Append(s, c)) \subseteq ChildrenOf(h)
    BY <1>5, AppendElements
  <2>2. Range(propagate_next_tick[h]) \subseteq ChildrenOf(h) /\ Range(solve_this_tick[h]) \subseteq ChildrenOf(h)
    BY <1>1 DEF Homes
  <2>3. \A d \in Device : Range(propagate_next_tick'[d]) \subseteq ChildrenOf(d)
    <3>1. propagate_next_tick \in [Device -> Seq(Component \ {Sim})]
      BY <1>1 DEF TypeOK
    <3>2. CASE propagate_next_tick' = propagate_next_tick
      BY <1>1, <3>2 DEF Homes
    <3>3. CASE Direction[q] = 1 /\ propagate_next_tick' = [propagate_next_tick EXCEPT ![h] = Append(@, c)]
      <4>1. Range(propagate_next_tick'[h]) \subseteq ChildrenOf(h)
        BY <1>5, <2>1, <2>2, <3>1, <3>3
      <4>2. \A d \in Device \ {h} : propagate_next_tick'[d] = propagate_next_tick[d]
        BY <3>1, <3>3
      <4>. QED
        BY <1>1, <4>1, <4>2 DEF Homes
    <3>. QED
      BY <1>2, <3>2, <3>3
  <2>4. \A d \in Device : Range(solve_this_tick'[d]) \subseteq ChildrenOf(d)
    <3>1. solve_this_tick \in [Device -> Seq(Device \ {Sim})]
      BY <1>1 DEF TypeOK
    <3>2. CASE solve_this_tick' = solve_this_tick
      BY <1>1, <3>2 DEF Homes
    <3>3. CASE Direction[q] = 1 /\ c \in Device \ {Sim} /\ solve_this_tick' = [solve_this_tick EXCEPT ![h] = Append(@, c)]
      <4>1. Range(solve_this_tick'[h]) \subseteq ChildrenOf(h)
        BY <2>1, <2>2, <3>1, <3>3
      <4>2. \A d \in Device \ {h} : solve_this_tick'[d] = solve_this_tick[d]
        BY <3>1, <3>3
      <4>. QED
        BY <1>1, <4>1, <4>2 DEF Homes
    <3>. QED
      BY <1>3, <3>2, <3>3
  <2>5. \A d \in Device : ChildrenOf(d)' = ChildrenOf(d)
    BY DEF ChildrenOf
  <2>. QED
    BY <1>1, <1>2, <2>3, <2>4, <2>5 DEF Homes
<1>9. CASE solve_this_tick' = solve_this_tick /\ solve_this_tick_flag' = solve_this_tick_flag
  BY <1>1, <1>6, <1>7, <1>8, <1>9 DEF SolveFlags, BusyClear, Waiting
<1>10. CASE /\ Direction[q] = 1 /\ c \in Device \ {Sim} /\ ~solve_this_tick_flag[c]
            /\ solve_this_tick' = [solve_this_tick EXCEPT ![h] = Append(@, c)]
            /\ solve_this_tick_flag' = [solve_this_tick_flag EXCEPT ![c] = TRUE]
  <2>1. phase[c] = "idle"
    <3>1. h \in Ancestors[c]
      BY <1>5, <1>10, AncestorFacts
    <3>2. AllIdle => phase[c] = "idle"
      BY <1>10 DEF AllIdle
    <3>. QED
      BY <1>1, <1>4, <1>10, <3>1, <3>2 DEF CallStack, Setting
  <2>2. solve_this_tick_flag \in [Device -> BOOLEAN] /\ solve_this_tick \in [Device -> Seq(Device \ {Sim})]
    BY <1>1 DEF TypeOK
  <2>3. BusyClear'
    BY <1>1, <1>10, <2>1, <2>2 DEF BusyClear
  <2>4. Waiting(h) = Range(solve_this_tick[h]) /\ Waiting(h)' = Range(solve_this_tick'[h])
    <3>1. solve_this_tick[h] \in Seq(Device \ {Sim}) /\ solve_this_tick'[h] \in Seq(Device \ {Sim})
      BY <1>10, <2>2
    <3>. QED
      BY <1>4, <3>1, RangeElements DEF Waiting
  <2>5. \A d \in Device \ {h} : solve_this_tick'[d] = solve_this_tick[d] /\ Waiting(d)' = Waiting(d)
    BY <1>10, <2>2 DEF Waiting
  <2>6. c \notin Range(solve_this_tick[h])
    BY <1>1, <1>5, <1>10, <2>4 DEF SolveFlags
  <2>7. solve_this_tick'[h] = Append(solve_this_tick[h], c)
    BY <1>10, <2>2
  <2>8. Range(solve_this_tick'[h]) = Range(solve_this_tick[h]) \cup {c}
    <3>1. solve_this_tick[h] \in Seq(Device \ {Sim}) /\ c \in Device \ {Sim}
      BY <1>10, <2>2
    <3>2. Range(Append(solve_this_tick[h], c)) = Range(solve_this_tick[h]) \cup {c}
      BY <3>1, AppendElements
    <3>. QED
      BY <2>7, <3>2
  <2>9. \A d \in Device : IsInjective(solve_this_tick'[d])
    <3>1. IsInjective(solve_this_tick'[h])
      <4>1. solve_this_tick[h] \in Seq(Device \ {Sim}) /\ IsInjective(solve_this_tick[h])
        BY <1>1, <2>2 DEF SolveFlags
      <4>2. IsInjective(Append(solve_this_tick[h], c))
        BY <1>10, <2>6, <4>1, AppendNew
      <4>. QED
        BY <2>7, <4>2
    <3>2. \A d \in Device \ {h} : IsInjective(solve_this_tick'[d])
      BY <1>1, <2>5 DEF SolveFlags
    <3>. QED
      BY <3>1, <3>2
  <2>10. ASSUME NEW e \in Device \ {Sim}
         PROVE  solve_this_tick_flag'[e] <=> e \in Waiting(Parent[e])'
    <3>1. Parent[e] \in Device /\ (solve_this_tick_flag[e] <=> e \in Waiting(Parent[e]))
      BY <1>1, AncestorFacts DEF SolveFlags
    <3>2. solve_this_tick_flag'[e] <=> (solve_this_tick_flag[e] \/ e = c)
      BY <1>10, <2>2
    <3>3. CASE Parent[e] = h
      BY <2>4, <2>8, <3>1, <3>2, <3>3
    <3>4. CASE Parent[e] # h
      BY <1>5, <1>10, <2>5, <3>1, <3>2, <3>4
    <3>. QED
      BY <3>3, <3>4
  <2>. QED
    BY <1>6, <1>7, <1>8, <2>3, <2>9, <2>10 DEF SolveFlags
<1>. QED
  BY <1>3, <1>9, <1>10

-----------------------------------------------------------------------------
(* The steps of Solve, one lemma for each group of actions.                *)

\* Moving through the pins of a scan.
LEMMA ScanKeepsControl ==
  ASSUME Control, NEW d \in Device, SkipPin(d) \/ TakePin(d) \/ LeavePin(d)
  PROVE  Control'
<1>1. TypeOK'
  BY SolveStepTypeOK DEF Control, SolveStep
<1>2. UNCHANGED <<queues, solves, current, phase, started, built>>
  BY DEF SkipPin, TakePin, LeavePin
<1>3. Construction' /\ CallStack' /\ SolveFlags' /\ BusyClear'
  BY <1>2 DEF Control, Construction, CallStack, SolveFlags, Waiting, BusyClear, solves
<1>4. Homes'
  BY <1>2 DEF Control, Homes, ChildrenOf, solves, queues
<1>5. Loops'
  <2>1. /\ connAt \in [Device -> Nat] /\ pinAt \in [Device -> Nat \ {0}]
        /\ \A e \in Device : connAt[e] # 0 => Scanning(e)
    BY DEF Control, TypeOK, Loops
  <2>2. \A e \in Device \ {d} : connAt'[e] = connAt[e] /\ pinAt'[e] = pinAt[e]
    BY <2>1 DEF SkipPin, TakePin, LeavePin
  <2>3. \A e \in Device \ {d} : Scanning(e)' <=> Scanning(e)
    BY <1>2, <2>2 DEF Scanning, Scan
  <2>4. connAt'[d] # 0 => Scanning(d)'
    <3>1. CASE SkipPin(d)
      BY <2>1, <3>1 DEF SkipPin
    <3>2. CASE TakePin(d)
      BY <3>2 DEF TakePin, Scanning, Scan
    <3>3. CASE LeavePin(d)
      BY <2>1, <3>3 DEF LeavePin
    <3>. QED
      BY <3>1, <3>2, <3>3
  <2>5. \A e \in Device : connAt'[e] # 0 => Scanning(e)'
    BY <2>1, <2>2, <2>3, <2>4
  <2>. QED
    BY <1>2, <2>5 DEF Control, Loops, queues
<1>. QED
  BY <1>1, <1>3, <1>4, <1>5 DEF Control

\* Setting the target of a connection.
LEMMA DeliverKeepsControl ==
  ASSUME Control, NEW d \in Device, Deliver(d)
  PROVE  Control'
<1>. DEFINE q == Targets[ScanPin(d)][connAt[d]]
            v == state[ScanPin(d)]
<1>1. TypeOK'
  BY SolveStepTypeOK DEF Control, SolveStep
<1>2. Setting(d, q) /\ Set(q, v) /\ v \in BOOLEAN /\ q \in Settable
  BY DeliverSetting DEF Setting
<1>3. /\ connAt' = [connAt EXCEPT ![d] = @ + 1] /\ Scanning(d)
      /\ UNCHANGED <<current, pinAt, phase, started, sub_tick_count, built>>
  BY DEF Deliver
<1>. HIDE DEF q, v
<1>4. Construction' /\ Homes' /\ CallStack' /\ SolveFlags' /\ BusyClear'
  BY <1>2, <1>3, SetKeepsControl
<1>5. propagate_this_tick' = propagate_this_tick
  BY <1>2, SetQueues DEF Control
<1>6. Loops'
  <2>1. \A e \in Device : Scanning(e)' <=> Scanning(e)
    BY <1>3 DEF Scanning, Scan
  <2>2. \A e \in Device \ {d} : connAt'[e] = connAt[e]
    BY <1>3 DEF Control, TypeOK
  <2>. QED
    BY <1>3, <1>5, <2>1, <2>2 DEF Control, Loops
<1>. QED
  BY <1>1, <1>4, <1>6 DEF Control

\* Setting a pin from outside.
LEMMA DriveKeepsControl ==
  ASSUME Control, NEW q \in External, NEW v \in BOOLEAN, Drive(q, v)
  PROVE  Control'
<1>1. TypeOK'
  BY NextTypeOK DEF Control, Next
<1>2. Setting(Sim, q) /\ Set(q, v) /\ q \in Settable /\ Sim \in Device
  BY DriveSetting, TreeAssumption DEF Setting, Drive
<1>3. UNCHANGED <<scan, phase, started, sub_tick_count, built>>
  BY DEF Drive
<1>4. Construction' /\ Homes' /\ CallStack' /\ SolveFlags' /\ BusyClear'
  BY <1>2, <1>3, SetKeepsControl DEF scan
<1>5. propagate_this_tick' = propagate_this_tick
  BY <1>2, SetQueues DEF Control
<1>6. Loops'
  BY <1>3, <1>5 DEF Control, Loops, Scanning, Scan, scan
<1>. QED
  BY <1>1, <1>4, <1>6 DEF Control

\* A Device that is in Solve, but not in the loop over its children, moves on.
LEMMA MoveKeeps ==
  ASSUME Control, NEW d \in Device, phase[d] \notin {"idle", "children"},
         NEW y \in Phase, phase' = [phase EXCEPT ![d] = y],
         \A e \in Device \ {d} : started'[e] = started[e],
         y = "children" => started'[d] = 0,
         UNCHANGED <<built, solve_this_tick, solve_this_tick_flag>>
  PROVE  Construction' /\ CallStack' /\ SolveFlags' /\ BusyClear'
<1>1. phase \in [Device -> Phase] /\ d \in built
  BY DEF Control, TypeOK, Construction
<1>2. phase'[d] = y /\ \A e \in Device \ {d} : phase'[e] = phase[e]
  BY <1>1
<1>3. Construction'
  BY <1>1, <1>2 DEF Control, Construction
<1>4. CallStack'
  <2>. SUFFICES ASSUME NEW e \in Device, phase'[e] # "idle", NEW a \in Ancestors[e], a \in built
                PROVE  phase'[a] = "children"
    BY DEF CallStack
  <2>1. a \in Device /\ e \notin Ancestors[e]
    BY AncestorFacts
  <2>2. phase[e] # "idle"
    BY <1>2
  <2>3. phase[a] = "children"
    BY <2>2 DEF Control, CallStack
  <2>. QED
    BY <1>2, <2>1, <2>3
<1>5. SolveFlags'
  <2>1. \A e \in Device \ {d} : Waiting(e)' = Waiting(e)
    BY <1>2 DEF Waiting
  <2>2. Waiting(d)' = Waiting(d)
    BY <1>2 DEF Waiting
  <2>3. \A e \in Device : Waiting(e)' = Waiting(e)
    BY <2>1, <2>2
  <2>. QED
    BY <2>3, AncestorFacts DEF Control, SolveFlags
<1>6. BusyClear'
  BY <1>2 DEF Control, BusyClear
<1>. QED
  BY <1>3, <1>4, <1>5, <1>6

\* The start of a sub-tick.
LEMMA BeginSubTickKeepsControl ==
  ASSUME Control, NEW d \in Device, BeginSubTick(d)
  PROVE  Control'
<1>1. TypeOK'
  BY SolveStepTypeOK DEF Control, SolveStep
<1>2. /\ phase \in [Device -> Phase] /\ connAt \in [Device -> Nat] /\ pinAt \in [Device -> Nat \ {0}]
      /\ current \in [Device -> Component]
      /\ propagate_next_tick \in [Device -> Seq(Component \ {Sim})]
      /\ propagate_this_tick \in [Device -> Seq(Component \ {Sim})]
  BY DEF Control, TypeOK
<1>3. /\ phase[d] \in {"inputs", "subtick"} /\ ~Scanning(d)
      /\ propagate_this_tick' = [propagate_this_tick EXCEPT ![d] = @ \o propagate_next_tick[d]]
      /\ propagate_next_tick' = [propagate_next_tick EXCEPT ![d] = <<>>]
      /\ phase' = [phase EXCEPT ![d] = "propagate"]
      /\ current' = [current EXCEPT ![d] = d]
      /\ pinAt' = [pinAt EXCEPT ![d] = Len(Inward[d]) + 1]
      /\ UNCHANGED <<solve_this_tick, solve_this_tick_flag, connAt, started, built>>
  <2>1. ~Scanning(d)
    <3>1. Len(Scan(d)) \in Nat /\ pinAt[d] \in Nat
      BY <1>2, ScanType DEF Control
    <3>. QED
      BY <3>1 DEF BeginSubTick, Scanning, ScanDone
  <2>. QED
    BY <2>1 DEF BeginSubTick, solves, ScanDone
<1>4. Construction' /\ CallStack' /\ SolveFlags' /\ BusyClear'
  <2>1. "propagate" \in Phase
    BY DEF Phase
  <2>. QED
    BY <1>3, <2>1, MoveKeeps
<1>5. \A e \in Device \ {d} : /\ propagate_this_tick'[e] = propagate_this_tick[e]
                              /\ propagate_next_tick'[e] = propagate_next_tick[e]
                              /\ phase'[e] = phase[e] /\ current'[e] = current[e]
                              /\ pinAt'[e] = pinAt[e]
  BY <1>2, <1>3
<1>6. Homes'
  <2>1. \A e \in Device : ChildrenOf(e)' = ChildrenOf(e)
    BY DEF ChildrenOf
  <2>2. Range(propagate_this_tick'[d]) \subseteq ChildrenOf(d) /\ Range(propagate_next_tick'[d]) \subseteq ChildrenOf(d)
    <3>1. propagate_this_tick[d] \in Seq(Component \ {Sim}) /\ propagate_next_tick[d] \in Seq(Component \ {Sim})
      BY <1>2
    <3>2. Range(propagate_this_tick[d] \o propagate_next_tick[d])
            = Range(propagate_this_tick[d]) \cup Range(propagate_next_tick[d])
      BY <3>1, ConcatElements
    <3>3. propagate_this_tick'[d] = propagate_this_tick[d] \o propagate_next_tick[d]
          /\ propagate_next_tick'[d] = <<>>
      BY <1>2, <1>3
    <3>4. Range(<<>>) = {}
      BY DEF Range
    <3>. QED
      BY <3>2, <3>3, <3>4 DEF Control, Homes
  <2>3. phase'[d] = "propagate" /\ current'[d] = d
    BY <1>2, <1>3
  <2>. QED
    BY <1>3, <1>5, <2>1, <2>2, <2>3 DEF Control, Homes
<1>7. Loops'
  <2>1. \A e \in Device \ {d} : Scanning(e)' <=> Scanning(e)
    BY <1>5 DEF Scanning, Scan
  <2>2. connAt'[d] = 0 /\ phase'[d] = "propagate"
    BY <1>2, <1>3 DEF Control, Loops
  <2>. QED
    BY <1>3, <1>5, <2>1, <2>2 DEF Control, Loops
<1>. QED
  BY <1>1, <1>4, <1>6, <1>7 DEF Control

\* The next entry of the sub-tick.
LEMMA BeginPropagateKeepsControl ==
  ASSUME Control, NEW d \in Device, BeginPropagate(d)
  PROVE  Control'
<1>1. TypeOK'
  BY SolveStepTypeOK DEF Control, SolveStep
<1>2. /\ connAt \in [Device -> Nat] /\ pinAt \in [Device -> Nat \ {0}]
      /\ current \in [Device -> Component]
      /\ propagate_this_tick \in [Device -> Seq(Component \ {Sim})]
  BY DEF Control, TypeOK
<1>3. /\ phase[d] = "propagate" /\ ~Scanning(d) /\ propagate_this_tick[d] # <<>>
      /\ propagate_this_tick' = [propagate_this_tick EXCEPT ![d] = Tail(@)]
      /\ current' = [current EXCEPT ![d] = Head(propagate_this_tick[d])]
      /\ pinAt' = [pinAt EXCEPT ![d] = 1]
      /\ UNCHANGED <<propagate_next_tick, solve_this_tick, solve_this_tick_flag, connAt, phase, started, built>>
  <2>1. Len(Scan(d)) \in Nat /\ pinAt[d] \in Nat
    BY <1>2, ScanType DEF Control
  <2>. QED
    BY <2>1 DEF BeginPropagate, solves, ScanDone, Scanning
<1>4. Construction' /\ CallStack' /\ SolveFlags' /\ BusyClear'
  BY <1>3 DEF Control, Construction, CallStack, SolveFlags, Waiting, BusyClear
<1>5. \A e \in Device \ {d} : /\ propagate_this_tick'[e] = propagate_this_tick[e]
                              /\ current'[e] = current[e] /\ pinAt'[e] = pinAt[e]
  BY <1>2, <1>3
<1>6. Homes'
  <2>1. \A e \in Device : ChildrenOf(e)' = ChildrenOf(e)
    BY DEF ChildrenOf
  <2>2. propagate_this_tick[d] \in Seq(Component \ {Sim})
    BY <1>2
  <2>3. /\ Range(Tail(propagate_this_tick[d])) \subseteq Range(propagate_this_tick[d])
        /\ Head(propagate_this_tick[d]) \in Range(propagate_this_tick[d])
    BY <1>3, <2>2, PopElements
  <2>4. propagate_this_tick'[d] = Tail(propagate_this_tick[d])
        /\ current'[d] = Head(propagate_this_tick[d]) /\ phase'[d] = "propagate"
    BY <1>2, <1>3
  <2>. QED
    BY <1>3, <1>5, <2>1, <2>3, <2>4 DEF Control, Homes
<1>7. Loops'
  <2>1. \A e \in Device \ {d} : Scanning(e)' <=> Scanning(e)
    BY <1>3, <1>5 DEF Scanning, Scan
  <2>2. connAt'[d] = 0
    BY <1>3 DEF Control, Loops
  <2>. QED
    BY <1>3, <1>5, <2>1, <2>2 DEF Control, Loops
<1>. QED
  BY <1>1, <1>4, <1>6, <1>7 DEF Control

\* After a sub-tick: another one, an error, or the children's turn.
LEMMA AfterSubTickKeepsControl ==
  ASSUME Control, NEW d \in Device, Repeat(d) \/ Stall(d) \/ Quiesce(d)
  PROVE  Control'
<1>1. TypeOK'
  BY SolveStepTypeOK DEF Control, SolveStep
<1>2. /\ phase[d] = "propagate" /\ pinAt[d] > Len(Scan(d)) /\ propagate_this_tick[d] = <<>>
      /\ UNCHANGED <<queues, solves, scan, built>>
  BY DEF Repeat, Stall, Quiesce, SubTickDone, ScanDone
<1>3. PICK y \in {"subtick", "return", "children"} :
        phase' = [phase EXCEPT ![d] = y] /\ (y # "children" => started' = started)
          /\ (y = "children" => started' = [started EXCEPT ![d] = 0])
  BY DEF Repeat, Stall, Quiesce
<1>4. /\ phase \in [Device -> Phase] /\ started \in [Device -> Nat]
      /\ connAt \in [Device -> Nat] /\ pinAt \in [Device -> Nat \ {0}] /\ y \in Phase
  BY DEF Control, TypeOK, Phase
<1>5. \A e \in Device \ {d} : started'[e] = started[e] /\ phase'[e] = phase[e]
  BY <1>3, <1>4
<1>6. Construction' /\ CallStack' /\ SolveFlags' /\ BusyClear'
  <2>1. y = "children" => started'[d] = 0
    BY <1>3, <1>4
  <2>. QED
    BY <1>2, <1>3, <1>4, <1>5, <2>1, MoveKeeps DEF solves
<1>7. Homes'
  <2>1. phase'[d] # "inputs"
    BY <1>3, <1>4
  <2>. QED
    BY <1>2, <1>5, <2>1 DEF Control, Homes, ChildrenOf, queues, solves, scan
<1>8. Loops'
  <2>1. connAt[d] = 0
    <3>1. Len(Scan(d)) \in Nat /\ pinAt[d] \in Nat
      BY <1>4, ScanType DEF Control
    <3>. QED
      BY <1>2, <3>1 DEF Control, Loops, Scanning
  <2>2. \A e \in Device \ {d} : Scanning(e)' <=> Scanning(e)
    BY <1>2, <1>5 DEF Scanning, Scan, scan
  <2>. QED
    BY <1>2, <1>5, <2>1, <2>2 DEF Control, Loops, queues, scan
<1>. QED
  BY <1>1, <1>6, <1>7, <1>8 DEF Control

\* Leaving Solve.
LEMMA ReturnKeepsControl ==
  ASSUME Control, NEW d \in Device, Return(d)
  PROVE  Control'
<1>1. TypeOK'
  BY SolveStepTypeOK DEF Control, SolveStep
<1>2. /\ phase[d] = "return" /\ phase' = [phase EXCEPT ![d] = "idle"]
      /\ UNCHANGED <<propagate_this_tick, solve_this_tick, solve_this_tick_flag, scan, started, built>>
  BY DEF Return
<1>3. /\ phase \in [Device -> Phase] /\ connAt \in [Device -> Nat]
      /\ propagate_next_tick \in [Device -> Seq(Component \ {Sim})]
  BY DEF Control, TypeOK
<1>4. Construction' /\ CallStack' /\ SolveFlags' /\ BusyClear'
  <2>1. "idle" \in Phase
    BY DEF Phase
  <2>. QED
    BY <1>2, <2>1, MoveKeeps
<1>5. phase'[d] = "idle" /\ \A e \in Device \ {d} : phase'[e] = phase[e]
  BY <1>2, <1>3
<1>6. Homes'
  <2>1. \A e \in Device : ChildrenOf(e)' = ChildrenOf(e)
    BY DEF ChildrenOf
  <2>2. \A e \in Device : Range(propagate_next_tick'[e]) \subseteq ChildrenOf(e)
    <3>1. CASE d # Sim /\ buffered_propagation[d]
      <4>. DEFINE h == Parent[d]
      <4>1. h \in Device /\ d \in ChildrenOf(h) /\ d \in Component \ {Sim}
        BY <3>1, AncestorFacts DEF ChildrenOf, Component
      <4>2. propagate_next_tick' = [propagate_next_tick EXCEPT ![h] = Append(@, d)]
        BY <3>1 DEF Return
      <4>. HIDE DEF h
      <4>3. Range(Append(propagate_next_tick[h], d)) = Range(propagate_next_tick[h]) \cup {d}
        <5>1. propagate_next_tick[h] \in Seq(Component \ {Sim})
          BY <1>3, <4>1
        <5>. QED
          BY <4>1, <5>1, AppendElements
      <4>4. propagate_next_tick'[h] = Append(propagate_next_tick[h], d)
        BY <1>3, <4>1, <4>2
      <4>5. \A e \in Device \ {h} : propagate_next_tick'[e] = propagate_next_tick[e]
        BY <1>3, <4>2
      <4>. QED
        BY <4>1, <4>3, <4>4, <4>5 DEF Control, Homes
    <3>2. CASE ~(d # Sim /\ buffered_propagation[d])
      BY <3>2 DEF Return, Control, Homes
    <3>. QED
      BY <3>1, <3>2
  <2>. QED
    BY <1>2, <1>5, <2>1, <2>2 DEF Control, Homes, scan
<1>7. Loops'
  <2>1. connAt[d] = 0 /\ propagate_this_tick[d] = <<>>
    BY <1>2 DEF Control, Loops, Scanning
  <2>2. \A e \in Device \ {d} : Scanning(e)' <=> Scanning(e)
    BY <1>2, <1>5 DEF Scanning, Scan, scan
  <2>. QED
    BY <1>2, <1>5, <2>1, <2>2 DEF Control, Loops, scan
<1>. QED
  BY <1>1, <1>4, <1>6, <1>7 DEF Control

\* The Device that enters Solve starts with its own pins; the others go on.
LEMMA EnterFacts ==
  ASSUME Control, NEW c \in Device, phase[c] = "idle", Enter(c),
         UNCHANGED propagate_this_tick
  PROVE  /\ phase'[c] = "inputs" /\ current'[c] = c /\ ~solve_this_tick_flag'[c]
         /\ \A e \in Device \ {c} : /\ phase'[e] = phase[e] /\ current'[e] = current[e]
                                    /\ solve_this_tick_flag'[e] = solve_this_tick_flag[e]
         /\ Loops'
<1>1. /\ phase \in [Device -> Phase] /\ connAt \in [Device -> Nat]
      /\ pinAt \in [Device -> Nat \ {0}] /\ current \in [Device -> Component]
      /\ solve_this_tick_flag \in [Device -> BOOLEAN]
  BY DEF Control, TypeOK
<1>2. /\ phase'[c] = "inputs" /\ current'[c] = c /\ ~solve_this_tick_flag'[c] /\ connAt'[c] = 0
      /\ \A e \in Device \ {c} : /\ phase'[e] = phase[e] /\ current'[e] = current[e]
                                 /\ solve_this_tick_flag'[e] = solve_this_tick_flag[e]
                                 /\ connAt'[e] = connAt[e] /\ pinAt'[e] = pinAt[e]
  BY <1>1 DEF Enter
<1>3. \A e \in Device \ {c} : Scanning(e)' <=> Scanning(e)
  BY <1>2 DEF Scanning, Scan
<1>4. Loops'
  BY <1>2, <1>3 DEF Control, Loops
<1>. QED
  BY <1>2, <1>4

\* The Devices above a Device that is in Solve are still waiting in theirs
\* when a further one enters Solve below a waiting Device, or on its own.
LEMMA EnterCallStack ==
  ASSUME Control, NEW c \in Device, phase[c] = "idle",
         \A e \in Device \ {c} : phase'[e] = phase[e],
         \A a \in Ancestors[c] : a \in built' => phase[a] = "children",
         built' \subseteq built \cup {c}, c \in built' \ built => AllIdle
  PROVE  CallStack'
<1>. SUFFICES ASSUME NEW e \in Device, phase'[e] # "idle", NEW a \in Ancestors[e], a \in built'
              PROVE  phase'[a] = "children"
  BY DEF CallStack
<1>1. a \in Device /\ e \notin Ancestors[e]
  BY AncestorFacts
<1>2. CASE e = c
  <2>1. a # c /\ phase[a] = "children"
    BY <1>1, <1>2
  <2>. QED
    BY <1>1, <2>1
<1>3. CASE e # c
  <2>1. phase[e] # "idle"
    BY <1>3
  <2>2. a \in built
    BY <2>1 DEF AllIdle
  <2>3. phase[a] = "children"
    BY <2>1, <2>2 DEF Control, CallStack
  <2>. QED
    BY <1>1, <2>3
<1>. QED
  BY <1>2, <1>3

\* A queued child enters Solve.
LEMMA StartChildKeepsControl ==
  ASSUME Control, NEW d \in Device, StartChild(d)
  PROVE  Control'
<1>0. PICK c \in Device \ {Sim} : c = solve_this_tick[d][started[d] + 1]
  <2>1. solve_this_tick[d] \in Seq(Device \ {Sim}) /\ started[d] \in Nat
    BY DEF Control, TypeOK
  <2>. QED
    BY <2>1 DEF StartChild
<1>1. TypeOK'
  BY SolveStepTypeOK DEF Control, SolveStep
<1>2. /\ solve_this_tick[d] \in Seq(Device \ {Sim}) /\ started[d] \in Nat
      /\ started \in [Device -> Nat]
  BY DEF Control, TypeOK
<1>3. /\ phase[d] = "children" /\ started[d] < Len(solve_this_tick[d]) /\ Enter(c)
      /\ started' = [started EXCEPT ![d] = @ + 1]
      /\ UNCHANGED <<pins, queues, solve_this_tick, buffered_propagation, built, errors>>
  BY <1>0 DEF StartChild
<1>4. c \in Range(solve_this_tick[d]) /\ c \in Waiting(d) /\ c \in Device \ {Sim}
  <2>1. started[d] + 1 \in 1 .. Len(solve_this_tick[d])
    BY <1>2, <1>3
  <2>2. c \in Range(solve_this_tick[d])
    BY <1>0, <1>2, <2>1 DEF Range
  <2>3. Waiting(d) = {solve_this_tick[d][i] : i \in (started[d] + 1) .. Len(solve_this_tick[d])}
    BY <1>3 DEF Waiting
  <2>4. started[d] + 1 \in (started[d] + 1) .. Len(solve_this_tick[d])
    BY <1>2, <1>3
  <2>. QED
    BY <1>0, <2>2, <2>3, <2>4
<1>5. Parent[c] = d /\ c \in ChildrenOf(d) /\ d \in Ancestors[c]
  BY <1>4, AncestorFacts DEF Control, Homes, ChildrenOf
<1>6. phase[c] = "idle" /\ solve_this_tick_flag[c]
  BY <1>4, <1>5 DEF Control, SolveFlags, BusyClear
<1>7. c \in built
  BY <1>3, <1>4, <1>5 DEF Control, Construction
<1>8. c # d
  BY <1>3, <1>6
<1>9. started'[d] = started[d] + 1 /\ \A e \in Device \ {d} : started'[e] = started[e]
  BY <1>2, <1>3
<1>10. /\ Waiting(d)' = {solve_this_tick[d][i] : i \in (started[d] + 2) .. Len(solve_this_tick[d])}
       /\ Waiting(d) = {solve_this_tick[d][i] : i \in (started[d] + 1) .. Len(solve_this_tick[d])}
  <2>1. phase'[d] = "children" /\ solve_this_tick'[d] = solve_this_tick[d]
    BY <1>3, <1>4, <1>6, <1>8, EnterFacts DEF queues
  <2>2. Waiting(d) = {solve_this_tick[d][i] : i \in (started[d] + 1) .. Len(solve_this_tick[d])}
    BY <1>3 DEF Waiting
  <2>3. started'[d] + 1 = started[d] + 2
    BY <1>2, <1>9
  <2>. QED
    BY <2>1, <2>2, <2>3 DEF Waiting
<1>11. Waiting(d)' = Waiting(d) \ {c}
  <2>1. \A i \in (started[d] + 2) .. Len(solve_this_tick[d]) : solve_this_tick[d][i] # c
    <3>1. /\ IsInjective(solve_this_tick[d])
          /\ DOMAIN solve_this_tick[d] = 1 .. Len(solve_this_tick[d])
      BY <1>2 DEF Control, SolveFlags
    <3>2. started[d] + 1 \in 1 .. Len(solve_this_tick[d])
      BY <1>2, <1>3
    <3>3. \A i \in (started[d] + 2) .. Len(solve_this_tick[d]) :
            i \in 1 .. Len(solve_this_tick[d]) /\ i # started[d] + 1
      BY <1>2
    <3>. QED
      BY <1>0, <3>1, <3>2, <3>3 DEF IsInjective
  <2>2. \A i \in (started[d] + 1) .. Len(solve_this_tick[d]) :
          i = started[d] + 1 \/ i \in (started[d] + 2) .. Len(solve_this_tick[d])
    BY <1>2
  <2>3. \A i \in (started[d] + 2) .. Len(solve_this_tick[d]) :
          i \in (started[d] + 1) .. Len(solve_this_tick[d])
    BY <1>2
  <2>. QED
    BY <1>0, <1>10, <2>1, <2>2, <2>3
<1>12. /\ phase'[c] = "inputs" /\ current'[c] = c /\ ~solve_this_tick_flag'[c]
       /\ \A e \in Device \ {c} : /\ phase'[e] = phase[e] /\ current'[e] = current[e]
                                  /\ solve_this_tick_flag'[e] = solve_this_tick_flag[e]
       /\ Loops'
  BY <1>3, <1>4, <1>6, EnterFacts DEF queues
<1>13. Construction'
  BY <1>3, <1>7, <1>12 DEF Control, Construction
<1>14. Homes'
  BY <1>3, <1>12 DEF Control, Homes, ChildrenOf, queues
<1>15. CallStack'
  <2>1. \A a \in Ancestors[c] : a \in built => phase[a] = "children"
    <3>1. Ancestors[c] = {d} \cup Ancestors[d]
      BY <1>4, <1>5, AncestorFacts
    <3>. QED
      BY <1>3, <3>1 DEF Control, CallStack
  <2>. QED
    BY <1>3, <1>4, <1>6, <1>7, <1>12, <2>1, EnterCallStack
<1>16. SolveFlags'
  <2>1. \A e \in Device \ {d, c} : Waiting(e)' = Waiting(e)
    BY <1>3, <1>9, <1>12 DEF Waiting
  <2>2. Waiting(c)' = Waiting(c)
    <3>1. started'[c] = started[c]
      BY <1>4, <1>8, <1>9
    <3>. QED
      BY <1>3, <1>6, <1>12, <3>1 DEF Waiting
  <2>3. \A e \in Device \ {d} : Waiting(e)' = Waiting(e)
    BY <2>1, <2>2
  <2>4. \A e \in Device \ {Sim} : solve_this_tick_flag'[e] <=> e \in Waiting(Parent[e])'
    <3>. TAKE e \in Device \ {Sim}
    <3>1. Parent[e] \in Device /\ (solve_this_tick_flag[e] <=> e \in Waiting(Parent[e]))
      BY AncestorFacts DEF Control, SolveFlags
    <3>2. CASE e = c
      BY <1>5, <1>11, <1>12, <3>2
    <3>3. CASE e # c
      <4>1. solve_this_tick_flag'[e] = solve_this_tick_flag[e]
        BY <1>12, <3>3
      <4>2. CASE Parent[e] = d
        BY <1>11, <3>1, <3>3, <4>1, <4>2
      <4>3. CASE Parent[e] # d
        BY <2>3, <3>1, <4>1, <4>3
      <4>. QED
        BY <4>2, <4>3
    <3>. QED
      BY <3>2, <3>3
  <2>. QED
    BY <1>3, <2>4 DEF Control, SolveFlags
<1>17. BusyClear'
  BY <1>4, <1>12, TreeAssumption DEF Control, BusyClear
<1>. QED
  BY <1>1, <1>12, <1>13, <1>14, <1>15, <1>16, <1>17 DEF Control

\* All children have returned.
LEMMA EndChildrenKeepsControl ==
  ASSUME Control, NEW d \in Device, EndChildren(d)
  PROVE  Control'
<1>1. TypeOK'
  BY SolveStepTypeOK DEF Control, SolveStep
<1>2. /\ phase[d] = "children" /\ started[d] = Len(solve_this_tick[d]) /\ Busy(d) = {}
      /\ solve_this_tick' = [solve_this_tick EXCEPT ![d] = <<>>]
      /\ phase' = [phase EXCEPT ![d] = IF propagate_next_tick[d] = <<>> THEN "return" ELSE "subtick"]
      /\ UNCHANGED <<pins, queues, solve_this_tick_flag, scan, started, built>>
  BY DEF EndChildren
<1>3. /\ phase \in [Device -> Phase] /\ started[d] \in Nat
      /\ solve_this_tick \in [Device -> Seq(Device \ {Sim})]
  BY DEF Control, TypeOK
<1>4. /\ phase'[d] \in {"return", "subtick"} /\ solve_this_tick'[d] = <<>>
      /\ \A e \in Device \ {d} : phase'[e] = phase[e] /\ solve_this_tick'[e] = solve_this_tick[e]
  BY <1>2, <1>3
<1>5. d \in built
  BY <1>2 DEF Control, Construction
<1>6. Construction'
  BY <1>2, <1>4, <1>5 DEF Control, Construction
<1>7. Homes'
  <2>1. Range(<<>>) = {}
    BY DEF Range
  <2>. QED
    BY <1>2, <1>4, <2>1 DEF Control, Homes, ChildrenOf, queues, scan
<1>8. Loops'
  <2>1. connAt[d] = 0
    BY <1>2 DEF Control, Loops, Scanning
  <2>2. \A e \in Device \ {d} : Scanning(e)' <=> Scanning(e)
    BY <1>2, <1>4 DEF Scanning, Scan, scan
  <2>. QED
    BY <1>2, <1>4, <2>1, <2>2 DEF Control, Loops, scan, queues
<1>9. CallStack'
  <2>. SUFFICES ASSUME NEW e \in Device, phase'[e] # "idle", NEW a \in Ancestors[e], a \in built
                PROVE  phase'[a] = "children"
    BY <1>2 DEF CallStack
  <2>1. phase[e] # "idle"
    BY <1>2, <1>4
  <2>2. phase[a] = "children" /\ a \in Device
    BY <2>1, AncestorFacts DEF Control, CallStack
  <2>3. a # d
    <3>. SUFFICES ASSUME a = d PROVE FALSE
      OBVIOUS
    <3>1. PICK c \in Ancestors[e] \cup {e} : c \in Device \ {Sim} /\ Parent[c] = d
      BY AncestorFacts
    <3>2. d \in Ancestors[c]
      BY <3>1, AncestorFacts
    <3>3. c \in built
      BY <1>5, <3>1, <3>2 DEF Control, Construction
    <3>4. phase[c] # "idle"
      BY <2>1, <3>1, <3>3 DEF Control, CallStack
    <3>. QED
      BY <1>2, <3>1, <3>4 DEF Busy
  <2>. QED
    BY <1>4, <2>2, <2>3
<1>10. SolveFlags'
  <2>1. Waiting(d) = {} /\ Waiting(d)' = {}
    <3>1. solve_this_tick[d] \in Seq(Device \ {Sim})
      BY <1>3
    <3>2. Waiting(d) = {}
      BY <1>2, <1>3, <3>1 DEF Waiting
    <3>3. Waiting(d)' = {}
      BY <1>4 DEF Waiting
    <3>. QED
      BY <3>2, <3>3
  <2>2. \A e \in Device \ {d} : Waiting(e)' = Waiting(e)
    BY <1>2, <1>4 DEF Waiting
  <2>3. \A e \in Device : Waiting(e)' = Waiting(e)
    BY <2>1, <2>2
  <2>4. IsInjective(<<>>)
    BY DEF IsInjective
  <2>. QED
    BY <1>2, <1>4, <2>3, <2>4, AncestorFacts DEF Control, SolveFlags
<1>11. BusyClear'
  BY <1>2, <1>4 DEF Control, BusyClear
<1>. QED
  BY <1>1, <1>6, <1>7, <1>8, <1>9, <1>10, <1>11 DEF Control

\* The end of a Device's construction.
LEMMA StabiliseKeepsControl ==
  ASSUME Control, NEW d \in Device, Stabilise(d)
  PROVE  Control'
<1>1. TypeOK'
  BY StabiliseTypeOK DEF Control
<1>2. /\ AllIdle /\ d \notin built /\ built' = built \cup {d} /\ Enter(d) /\ phase[d] = "idle"
      /\ \A c \in Device \ {Sim} : Parent[c] = d => c \in built
      /\ propagate_next_tick' = [propagate_next_tick EXCEPT ![d] = @ \o Children[d]]
      /\ UNCHANGED <<propagate_this_tick, solve_this_tick, started>>
  BY DEF Stabilise, AllIdle
<1>3. /\ phase'[d] = "inputs" /\ current'[d] = d /\ ~solve_this_tick_flag'[d]
      /\ \A e \in Device \ {d} : /\ phase'[e] = phase[e] /\ current'[e] = current[e]
                                 /\ solve_this_tick_flag'[e] = solve_this_tick_flag[e]
      /\ Loops'
  BY <1>2, EnterFacts
<1>4. \A a \in Ancestors[d] : a \notin built /\ a \in Device
  BY <1>2, AncestorFacts DEF Control, Construction
<1>5. Construction'
  <2>1. ASSUME NEW e \in Device, NEW a \in Ancestors[e], a \in built'
        PROVE  e \in built'
    <3>1. CASE a = d
      <4>1. PICK c \in Ancestors[e] \cup {e} : c \in Device \ {Sim} /\ Parent[c] = d
        BY <2>1, <3>1, AncestorFacts
      <4>2. c \in built
        BY <1>2, <4>1
      <4>. QED
        BY <1>2, <4>1, <4>2 DEF Control, Construction
    <3>2. CASE a # d
      BY <1>2, <2>1, <3>2 DEF Control, Construction
    <3>. QED
      BY <3>1, <3>2
  <2>. QED
    BY <1>2, <1>3, <2>1 DEF Control, Construction
<1>6. Homes'
  <2>1. \A e \in Device : ChildrenOf(e)' = ChildrenOf(e)
    BY DEF ChildrenOf
  <2>2. propagate_next_tick \in [Device -> Seq(Component \ {Sim})] /\ Children[d] \in Seq(Component \ {Sim})
    BY TreeAssumption DEF Control, TypeOK
  <2>3. Range(propagate_next_tick'[d]) \subseteq ChildrenOf(d)
    <3>1. Range(propagate_next_tick[d] \o Children[d]) = Range(propagate_next_tick[d]) \cup Range(Children[d])
      BY <2>2, ConcatElements
    <3>2. Range(Children[d]) = ChildrenOf(d)
      BY TreeAssumption DEF ChildrenOf
    <3>3. propagate_next_tick'[d] = propagate_next_tick[d] \o Children[d]
      BY <1>2, <2>2
    <3>. QED
      BY <3>1, <3>2, <3>3 DEF Control, Homes
  <2>4. \A e \in Device \ {d} : propagate_next_tick'[e] = propagate_next_tick[e]
    BY <1>2, <2>2
  <2>. QED
    BY <1>2, <1>3, <2>1, <2>3, <2>4 DEF Control, Homes
<1>7. CallStack'
  BY <1>2, <1>3, <1>4, EnterCallStack, AncestorFacts
<1>8. SolveFlags'
  <2>1. \A e \in Device : phase[e] # "children" /\ phase'[e] # "children"
    BY <1>2, <1>3 DEF AllIdle
  <2>2. \A e \in Device : Waiting(e)' = Waiting(e)
    BY <1>2, <2>1 DEF Waiting
  <2>3. d # Sim => d \notin Waiting(Parent[d])
    <3>. SUFFICES ASSUME d # Sim PROVE d \notin Waiting(Parent[d])
      OBVIOUS
    <3>1. Parent[d] \in Device /\ Parent[d] \notin built
      BY <1>4, AncestorFacts
    <3>2. solve_this_tick[Parent[d]] = <<>> /\ phase[Parent[d]] # "children"
      BY <2>1, <3>1 DEF Control, Construction
    <3>. QED
      BY <3>2 DEF Waiting
  <2>4. \A e \in Device \ {Sim} : solve_this_tick_flag'[e] <=> e \in Waiting(Parent[e])'
    BY <1>3, <2>2, <2>3, AncestorFacts DEF Control, SolveFlags
  <2>. QED
    BY <1>2, <2>4 DEF Control, SolveFlags
<1>9. BusyClear'
  BY <1>3, TreeAssumption DEF Control, BusyClear
<1>. QED
  BY <1>1, <1>3, <1>5, <1>6, <1>7, <1>8, <1>9 DEF Control

\* A Solve of the top level.
LEMMA SolveTopKeepsControl ==
  ASSUME Control, SolveTop
  PROVE  Control'
<1>1. TypeOK'
  BY NextTypeOK DEF Control, Next
<1>2. /\ AllIdle /\ Sim \in built /\ Enter(Sim) /\ phase[Sim] = "idle" /\ Sim \in Device
      /\ UNCHANGED <<queues, solve_this_tick, started, built>>
  BY TreeAssumption DEF SolveTop, AllIdle
<1>3. /\ phase'[Sim] = "inputs" /\ current'[Sim] = Sim /\ ~solve_this_tick_flag'[Sim]
      /\ \A e \in Device \ {Sim} : /\ phase'[e] = phase[e] /\ current'[e] = current[e]
                                   /\ solve_this_tick_flag'[e] = solve_this_tick_flag[e]
      /\ Loops'
  BY <1>2, EnterFacts DEF queues
<1>4. Construction'
  BY <1>2, <1>3 DEF Control, Construction
<1>5. Homes'
  BY <1>2, <1>3 DEF Control, Homes, ChildrenOf, queues
<1>6. CallStack'
  BY <1>2, <1>3, EnterCallStack, TreeAssumption
<1>7. SolveFlags'
  <2>1. \A e \in Device : phase[e] # "children" /\ phase'[e] # "children"
    BY <1>2, <1>3 DEF AllIdle
  <2>2. \A e \in Device : Waiting(e)' = Waiting(e)
    BY <1>2, <2>1 DEF Waiting
  <2>. QED
    BY <1>2, <1>3, <2>2, AncestorFacts DEF Control, SolveFlags
<1>8. BusyClear'
  BY <1>3, <1>2 DEF Control, BusyClear
<1>. QED
  BY <1>1, <1>3, <1>4, <1>5, <1>6, <1>7, <1>8 DEF Control

-----------------------------------------------------------------------------
(* The theorems.                                                           *)

\* Before anything is built every queue is empty and every Device idle.
LEMMA InitControl == Init => Control
<1>. SUFFICES ASSUME Init PROVE Control
  OBVIOUS
<1>1. /\ \A d \in Device : /\ phase[d] = "idle" /\ solve_this_tick[d] = <<>>
                           /\ propagate_next_tick[d] = <<>> /\ propagate_this_tick[d] = <<>>
                           /\ current[d] = d /\ connAt[d] = 0 /\ ~solve_this_tick_flag[d]
      /\ built = {}
  BY DEF Init
<1>2. Range(<<>>) = {} /\ IsInjective(<<>>)
  BY DEF Range, IsInjective
<1>3. \A d \in Device : Waiting(d) = {}
  BY <1>1 DEF Waiting
<1>. QED
  BY <1>1, <1>2, <1>3, InitTypeOK, AncestorFacts, TreeAssumption
  DEF Control, Construction, Homes, Loops, CallStack, SolveFlags, BusyClear

\* Every step of the solver keeps Control.
LEMMA NextControl ==
  ASSUME Control, [Next]_vars
  PROVE  Control'
<1>1. ASSUME NEW d \in Device, SolveStep(d) PROVE Control'
  <2>1. CASE SkipPin(d) \/ TakePin(d) \/ LeavePin(d)
    BY <2>1, ScanKeepsControl
  <2>2. CASE Deliver(d)
    BY <2>2, DeliverKeepsControl
  <2>3. CASE BeginSubTick(d)
    BY <2>3, BeginSubTickKeepsControl
  <2>4. CASE BeginPropagate(d)
    BY <2>4, BeginPropagateKeepsControl
  <2>5. CASE Repeat(d) \/ Stall(d) \/ Quiesce(d)
    BY <2>5, AfterSubTickKeepsControl
  <2>6. CASE StartChild(d)
    BY <2>6, StartChildKeepsControl
  <2>7. CASE EndChildren(d)
    BY <2>7, EndChildrenKeepsControl
  <2>8. CASE Return(d)
    BY <2>8, ReturnKeepsControl
  <2>. QED
    BY <1>1, <2>1, <2>2, <2>3, <2>4, <2>5, <2>6, <2>7, <2>8 DEF SolveStep
<1>2. ASSUME NEW d \in Device, Stabilise(d) PROVE Control'
  BY <1>2, StabiliseKeepsControl
<1>3. ASSUME NEW q \in External, NEW v \in BOOLEAN, Drive(q, v) PROVE Control'
  BY <1>3, DriveKeepsControl
<1>4. CASE SolveTop
  BY <1>4, SolveTopKeepsControl
<1>5. CASE UNCHANGED vars
  <2>1. TypeOK'
    BY NextTypeOK DEF Control
  <2>2. /\ Construction' /\ Homes' /\ CallStack' /\ SolveFlags' /\ BusyClear'
    BY <1>5 DEF Control, Construction, Homes, ChildrenOf, CallStack, SolveFlags, BusyClear,
                Waiting, vars, pins, queues, solves, scan
  <2>3. Loops'
    BY <1>5 DEF Control, Loops, Scanning, Scan, vars, pins, queues, solves, scan
  <2>. QED
    BY <2>1, <2>2, <2>3 DEF Control
<1>. QED
  BY <1>1, <1>2, <1>3, <1>4, <1>5 DEF Next

\* The control part of the invariant holds in every reachable state.
THEOREM ControlInvariant == Spec => []Control
BY InitControl, NextControl, PTL DEF Spec

\* One thread at a time works on any subtree of any circuit, whatever the
\* number of threads (Device::Solve called through the pool).
THEOREM CallStackHolds == Spec => []CallStack
<1>1. Control => CallStack
  BY DEF Control
<1>. QED
  BY <1>1, ControlInvariant, PTL

\* No Device is queued twice for its parent's next round of solves, and none
\* with a changed in pin is left out (Device::Set and QueueToSolve).
THEOREM SolveFlagsHold == Spec => []SolveFlags
<1>1. Control => SolveFlags
  BY DEF Control
<1>. QED
  BY <1>1, ControlInvariant, PTL

\* What one step may do to the queues that are being iterated.
LEMMA NextKeepsLoops ==
  ASSUME Control, Next, NEW d \in Device
  PROVE  /\ phase[d] = "children" /\ phase'[d] = "children" =>
              solve_this_tick'[d] = solve_this_tick[d]
         /\ phase[d] = "propagate" /\ phase'[d] = "propagate" =>
              Len(propagate_this_tick'[d]) <= Len(propagate_this_tick[d])
<1>. DEFINE Kept == /\ phase[d] = "children" /\ phase'[d] = "children" =>
                         solve_this_tick'[d] = solve_this_tick[d]
                    /\ phase[d] = "propagate" /\ phase'[d] = "propagate" =>
                         Len(propagate_this_tick'[d]) <= Len(propagate_this_tick[d])
<1>1. /\ solve_this_tick \in [Device -> Seq(Device \ {Sim})] /\ phase \in [Device -> Phase]
      /\ propagate_this_tick \in [Device -> Seq(Component \ {Sim})]
      /\ Len(propagate_this_tick[d]) \in Nat
  <2>1. /\ solve_this_tick \in [Device -> Seq(Device \ {Sim})] /\ phase \in [Device -> Phase]
        /\ propagate_this_tick \in [Device -> Seq(Component \ {Sim})]
    BY DEF Control, TypeOK
  <2>2. propagate_this_tick[d] \in Seq(Component \ {Sim})
    BY <2>1
  <2>. QED
    BY <2>1, <2>2, LenProperties
<1>2. ASSUME NEW h \in Device, NEW q \in Settable, NEW v \in BOOLEAN, Setting(h, q), Set(q, v)
      PROVE  Kept
  <2>1. /\ propagate_this_tick' = propagate_this_tick
        /\ \/ solve_this_tick' = solve_this_tick
           \/ solve_this_tick' = [solve_this_tick EXCEPT ![h] = Append(@, Owner[q])]
    BY <1>2, SetQueues DEF Control
  <2>2. phase[h] # "children"
    BY <1>2 DEF Setting, AllIdle
  <2>. QED
    BY <1>1, <2>1, <2>2
<1>3. ASSUME NEW e \in Device, SolveStep(e)
      PROVE  Kept
  <2>1. CASE Deliver(e)
    <3>1. /\ Setting(e, Targets[ScanPin(e)][connAt[e]])
          /\ Set(Targets[ScanPin(e)][connAt[e]], state[ScanPin(e)])
          /\ state[ScanPin(e)] \in BOOLEAN
          /\ Targets[ScanPin(e)][connAt[e]] \in Settable
      BY <2>1, DeliverSetting DEF Setting
    <3>. QED
      BY <1>2, <3>1
  <2>2. CASE BeginSubTick(e)
    <3>1. /\ solve_this_tick' = solve_this_tick /\ phase[e] # "propagate"
          /\ propagate_this_tick' = [propagate_this_tick EXCEPT ![e] = @ \o propagate_next_tick[e]]
      BY <2>2 DEF BeginSubTick, solves, ScanDone
    <3>2. CASE d = e
      BY <3>1, <3>2
    <3>3. CASE d # e
      BY <1>1, <3>1, <3>3
    <3>. QED
      BY <3>2, <3>3
  <2>3. CASE BeginPropagate(e)
    <3>1. /\ solve_this_tick' = solve_this_tick /\ propagate_this_tick[e] # <<>>
          /\ propagate_this_tick' = [propagate_this_tick EXCEPT ![e] = Tail(@)]
      BY <2>3 DEF BeginPropagate, solves
    <3>2. Len(Tail(propagate_this_tick[e])) <= Len(propagate_this_tick[e])
      BY <1>1, <3>1, PopElements
    <3>. QED
      BY <1>1, <3>1, <3>2
  <2>4. CASE EndChildren(e)
    <3>1. /\ propagate_this_tick' = propagate_this_tick
          /\ solve_this_tick' = [solve_this_tick EXCEPT ![e] = <<>>]
          /\ phase' = [phase EXCEPT ![e] = IF propagate_next_tick[e] = <<>> THEN "return" ELSE "subtick"]
      BY <2>4 DEF EndChildren, queues
    <3>. QED
      BY <1>1, <3>1
  <2>5. CASE \/ SkipPin(e) \/ TakePin(e) \/ LeavePin(e) \/ Repeat(e) \/ Stall(e) \/ Quiesce(e)
             \/ StartChild(e) \/ Return(e)
    <3>1. UNCHANGED <<propagate_this_tick, solve_this_tick>>
      BY <2>5 DEF SkipPin, TakePin, LeavePin, Repeat, Stall, Quiesce, StartChild, Return, queues, solves
    <3>. QED
      BY <1>1, <3>1
  <2>. QED
    BY <1>3, <2>1, <2>2, <2>3, <2>4, <2>5 DEF SolveStep
<1>4. ASSUME NEW e \in Device, Stabilise(e) PROVE Kept
  BY <1>1, <1>4 DEF Stabilise
<1>5. ASSUME NEW q \in External, NEW v \in BOOLEAN, Drive(q, v) PROVE Kept
  <2>1. Setting(Sim, q) /\ Set(q, v) /\ q \in Settable /\ Sim \in Device
    BY <1>5, DriveSetting, TreeAssumption DEF Setting, Drive
  <2>. QED
    BY <1>2, <2>1
<1>6. CASE SolveTop
  BY <1>1, <1>6 DEF SolveTop, queues
<1>. QED
  BY <1>3, <1>4, <1>5, <1>6 DEF Next

\* m_solve_this_tick and m_propagate_this_tick are never added to while the
\* loops of Device::Solve and Device::SubTick iterate over them by reference.
THEOREM LoopsUndisturbed == Spec => NotModifiedWhileIterated
<1>1. Control /\ [Next]_vars =>
        [\A d \in Device :
           /\ phase[d] = "children" /\ phase'[d] = "children" =>
                solve_this_tick'[d] = solve_this_tick[d]
           /\ phase[d] = "propagate" /\ phase'[d] = "propagate" =>
                Len(propagate_this_tick'[d]) <= Len(propagate_this_tick[d])]_vars
  BY NextKeepsLoops
<1>. QED
  BY <1>1, ControlInvariant, PTL DEF Spec, NotModifiedWhileIterated

-----------------------------------------------------------------------------
(* The data: Control, and what goes with it.                               *)

\* The in pins of a Device that is not built are still marked.
Untouched ==
  \A p \in Pin : (Owner[p] \in Device \ built /\ Direction[p] \in {1, 3}) => state_changed[p]

\* A Gate's flags tell which queue it is in.
FlagsQueued ==
  \A c \in Component \ {Sim} :
    /\ next_tick_flag[c] => c \in Range(propagate_next_tick[Parent[c]])
    /\ this_tick_flag[c] => c \in Range(propagate_this_tick[Parent[c]])

\* In a built Device the output of every Gate follows its inputs.
Evaluated ==
  \A g \in Gate : Parent[g] \in built => state[Out(g)] = GateOutput(g, state)

\* Without an error, a Device that is done has nothing left in its queues.
Finished(d) == phase[d] = "return" \/ (phase[d] = "idle" /\ d # Sim)
Clean ==
  ~Unstable => \A d \in built : Finished(d) =>
    /\ propagate_next_tick[d] = <<>> /\ solve_this_tick[d] = <<>>
    /\ phase[d] = "idle" => ~buffered_propagation[d]

SolverInv ==
  /\ Control
  /\ Untouched /\ FlagsQueued /\ Evaluated
  /\ PendingPropagation /\ ChangesScheduled /\ Clean

-----------------------------------------------------------------------------
(* Facts about the pins.                                                   *)

\* The output of a Gate is a function of its inputs.
LEMMA OutputOfInputs ==
  ASSUME NEW g \in Gate, NEW s, NEW t, \A p \in Inputs[g] : s[p] = t[p]
  PROVE  GateOutput(g, s) = GateOutput(g, t)
BY DEF GateOutput, AllHigh, AnyHigh

\* The inputs of a Gate are pins of its own, and none is its output.
LEMMA InputFacts ==
  ASSUME NEW g \in Gate
  PROVE  \A p \in Inputs[g] : p \in Pin /\ Owner[p] = g /\ Direction[p] = 1 /\ p # Out(g)
BY OutType DEF Inputs

\* What is known of a driver: whose pin it is and in which circuit it drives.
LEMMA DriverFacts ==
  ASSUME NEW p \in Driver
  PROVE  /\ p \in Pin /\ Home[p] \in Device /\ Owner[p] \in Component
         /\ \/ Direction[p] \in {1, 3} /\ Owner[p] \in Device /\ Home[p] = Owner[p]
            \/ /\ Direction[p] = 2 /\ Owner[p] \in Component \ {Sim}
               /\ Home[p] = Parent[Owner[p]] /\ Home[p] # Owner[p]
<1>1. p \in Pin /\ Owner[p] \in Component
  BY PinAssumption DEF Driver
<1>2. CASE Direction[p] \in {1, 3} /\ Owner[p] \in Device
  BY <1>1, <1>2 DEF Home
<1>3. CASE Direction[p] = 2 /\ Owner[p] # Sim
  <2>1. Home[p] = Parent[Owner[p]]
    BY <1>3 DEF Home
  <2>2. Parent[Owner[p]] \in Device
    BY <1>1, <1>3, TreeAssumption DEF Component
  <2>3. Parent[Owner[p]] # Owner[p]
    <3>1. CASE Owner[p] \in Gate
      BY <2>2, <3>1, TreeAssumption
    <3>2. CASE Owner[p] \in Device
      BY <1>3, <3>2, AncestorFacts
    <3>. QED
      BY <1>1, <3>1, <3>2 DEF Component
  <2>. QED
    BY <1>1, <1>3, <2>1, <2>2, <2>3
<1>. QED
  BY <1>1, <1>2, <1>3 DEF Driver

\* A target is not the output of a Gate, and no other connection ends there.
LEMMA TargetFacts ==
  ASSUME NEW p \in Driver, NEW i \in DOMAIN Targets[p]
  PROVE  /\ Targets[p][i] \in Settable /\ Targets[p][i] \in Pin
         /\ ~(Owner[Targets[p][i]] \in Gate /\ Direction[Targets[p][i]] = 2)
         /\ \A r \in Driver : \A j \in DOMAIN Targets[r] :
              Targets[r][j] = Targets[p][i] => r = p /\ j = i
<1>1. Targets[p][i] \in Settable /\ Targets[p][i] \in Pin
  BY TargetsSettable DEF Settable
<1>2. Targets[p][i] \in Range(Targets[p])
  BY DEF Range
<1>3. Direction[Targets[p][i]] = 2 => Owner[Targets[p][i]] \in Device
  <2>1. Direction[Targets[p][i]] = 2 => Owner[Targets[p][i]] = Home[p]
    <3>1. \A q \in Range(Targets[p]) : Direction[q] = 1 \/ Owner[q] = Home[p]
      BY ConnectAssumption
    <3>. QED
      BY <1>2, <3>1
  <2>2. Home[p] \in Device
    BY DriverFacts
  <2>. QED
    BY <2>1, <2>2
<1>4. \A r \in Driver : \A j \in DOMAIN Targets[r] :
        Targets[r][j] = Targets[p][i] => r = p /\ j = i
  BY ConnectAssumption
<1>. QED
  BY <1>1, <1>3, <1>4, TreeAssumption

\* What a Set does to the states: the pin takes the value, and the output of
\* the Gate it belongs to may follow; no other pin is touched.
LEMMA SetStates ==
  ASSUME TypeOK, NEW h \in Device, NEW q \in Settable, NEW v \in BOOLEAN,
         Setting(h, q), Set(q, v)
  PROVE  /\ Direction[q] # 4 => state'[q] = v
         /\ \A p \in Pin : p # q /\ ~(Owner[p] \in Gate /\ Direction[p] = 2) => state'[p] = state[p]
<1>1. q \in Pin /\ state \in [Pin -> BOOLEAN]
  BY DEF Settable, TypeOK
<1>2. CASE Direction[q] = 1 /\ Owner[q] \in Gate /\ SetGateInput(q, v)
  <2>1. PICK x : \/ state' = [state EXCEPT ![q] = v]
                 \/ state' = [[state EXCEPT ![q] = v] EXCEPT ![Out(Owner[q])] = x]
    BY <1>2 DEF SetGateInput
  <2>2. /\ Out(Owner[q]) \in Pin /\ Out(Owner[q]) # q
        /\ Owner[Out(Owner[q])] \in Gate /\ Direction[Out(Owner[q])] = 2
    BY <1>2, OutType
  <2>. QED
    BY <1>1, <2>1, <2>2
<1>3. CASE state' = [state EXCEPT ![q] = v]
  BY <1>1, <1>3
<1>4. CASE Direction[q] = 4 /\ SetAllStop(q, v)
  BY <1>4 DEF SetAllStop, pins
<1>. QED
  BY <1>2, <1>3, <1>4 DEF Set, SetDeviceInput, SetDeviceOutput

\* What a Set marks: what changes and can drive others is marked; what is
\* marked is queued.
LEMMA SetPins ==
  ASSUME TypeOK, NEW h \in Device, NEW q \in Settable, NEW v \in BOOLEAN,
         Setting(h, q), Set(q, v)
  PROVE  /\ Direction[q] = 4 /\ v => <<"all_stop", Owner[q]>> \in errors'
         /\ errors \subseteq errors'
         /\ \A p \in Pin : state_changed[p] => state_changed'[p]
         /\ \A p \in Driver : state'[p] # state[p] => state_changed'[p]
         /\ \A p \in Pin : state_changed'[p] /\ ~state_changed[p] =>
              \/ /\ Owner[q] \in Gate /\ p = Out(Owner[q])
                 /\ next_tick_flag'[Owner[q]] \/ this_tick_flag'[Owner[q]]
              \/ p = q /\ Direction[q] = 1 /\ Owner[q] \in Device /\ solve_this_tick_flag'[Owner[q]]
              \/ p = q /\ Direction[q] = 2 /\ Owner[q] = h /\ buffered_propagation'[h]
<1>1. q \in Pin /\ Owner[q] \in Component
  BY PinAssumption DEF Settable
<1>2. /\ state \in [Pin -> BOOLEAN] /\ state_changed \in [Pin -> BOOLEAN]
      /\ next_tick_flag \in [Component -> BOOLEAN] /\ this_tick_flag \in [Component -> BOOLEAN]
      /\ solve_this_tick_flag \in [Device -> BOOLEAN] /\ buffered_propagation \in [Device -> BOOLEAN]
  BY DEF TypeOK
<1>3. CASE Direction[q] = 1 /\ Owner[q] \in Gate /\ SetGateInput(q, v)
  <2>. DEFINE g == Owner[q]
              moved == [state EXCEPT ![q] = v]
              flips == state[q] # v /\ state[Out(g)] # GateOutput(g, moved)
  <2>1. g \in Gate /\ Out(g) \in Pin /\ Owner[Out(g)] = g /\ Direction[Out(g)] = 2 /\ Out(g) # q
    BY <1>3, OutType
  <2>2. moved \in [Pin -> BOOLEAN]
    BY <1>1, <1>2
  <2>3. /\ state' = IF flips THEN [moved EXCEPT ![Out(g)] = GateOutput(g, moved)] ELSE moved
        /\ state_changed' = IF flips THEN [state_changed EXCEPT ![Out(g)] = TRUE] ELSE state_changed
        /\ QueueToPropagate(g, flips)
        /\ UNCHANGED <<buffered_propagation, errors>>
    BY <1>3 DEF SetGateInput, solves
  <2>4. flips => next_tick_flag'[g] \/ this_tick_flag'[g]
    <3>1. g \in Component
      BY <2>1 DEF Component
    <3>. QED
      BY <1>2, <2>3, <3>1 DEF QueueToPropagate
  <2>5. q \notin Driver
    BY <1>3, TreeAssumption DEF Driver
  <2>6. /\ state'[q] = v
        /\ \A p \in Pin : p # q /\ p # Out(g) => state'[p] = state[p]
        /\ state'[Out(g)] # state[Out(g)] => state_changed'[Out(g)]
    <3>. HIDE DEF g, flips
    <3>1. \/ ~flips /\ state' = moved
          \/ /\ flips /\ state' = [moved EXCEPT ![Out(g)] = GateOutput(g, moved)]
             /\ state_changed' = [state_changed EXCEPT ![Out(g)] = TRUE]
      BY <2>3
    <3>. QED
      BY <1>1, <1>2, <2>1, <2>2, <3>1
  <2>7. /\ \A p \in Pin : state_changed[p] => state_changed'[p]
        /\ \A p \in Pin : state_changed'[p] /\ ~state_changed[p] => p = Out(g) /\ flips
    <3>. HIDE DEF g, flips
    <3>. QED
      BY <1>2, <2>1, <2>3
  <2>8. \A p \in Pin : p # q /\ ~(Owner[p] \in Gate /\ Direction[p] = 2) => state'[p] = state[p]
    BY <2>1, <2>6
  <2>9. \A p \in Driver : state'[p] # state[p] => state_changed'[p]
    BY <2>5, <2>6 DEF Driver
  <2>. HIDE DEF g, flips, moved
  <2>10. \A p \in Pin : state_changed'[p] /\ ~state_changed[p] =>
           p = Out(g) /\ (next_tick_flag'[g] \/ this_tick_flag'[g])
    BY <2>4, <2>7
  <2>. QED
    <3>1. Direction[q] # 4
      BY <1>3
    <3>. QED
      BY <2>1, <2>3, <2>6, <2>7, <2>8, <2>9, <2>10, <3>1 DEF g
<1>4. CASE Direction[q] = 1 /\ Owner[q] \in Device /\ SetDeviceInput(q, v)
  <2>1. /\ state' = [state EXCEPT ![q] = v]
        /\ state_changed' = IF state[q] # v THEN [state_changed EXCEPT ![q] = TRUE] ELSE state_changed
        /\ UNCHANGED <<buffered_propagation, errors>>
    BY <1>4 DEF SetDeviceInput
  <2>2. state[q] # v => solve_this_tick_flag'[Owner[q]]
    BY <1>2, <1>4 DEF SetDeviceInput
  <2>. QED
    BY <1>1, <1>2, <1>4, <2>1, <2>2 DEF Driver
<1>5. CASE Direction[q] = 2 /\ SetDeviceOutput(q, v)
  <2>0. Owner[q] = h
    BY <1>5 DEF Setting
  <2>1. /\ state' = [state EXCEPT ![q] = v]
        /\ state_changed' = IF state[q] # v THEN [state_changed EXCEPT ![q] = TRUE] ELSE state_changed
        /\ buffered_propagation' = IF state[q] # v THEN [buffered_propagation EXCEPT ![h] = TRUE]
                                   ELSE buffered_propagation
        /\ UNCHANGED errors
    BY <1>5, <2>0 DEF SetDeviceOutput
  <2>. QED
    BY <1>1, <1>2, <1>5, <2>0, <2>1 DEF Driver
<1>6. CASE Direction[q] = 4 /\ SetAllStop(q, v)
  <2>1. /\ UNCHANGED <<state, state_changed, buffered_propagation>> /\ errors \subseteq errors'
        /\ v => <<"all_stop", Owner[q]>> \in errors'
    BY <1>6 DEF SetAllStop, pins, solves
  <2>. QED
    BY <1>6, <2>1
<1>. QED
  BY <1>3, <1>4, <1>5, <1>6 DEF Set

\* A Set buffers no propagation but that of the Device h.
LEMMA SetElsewhere ==
  ASSUME TypeOK, NEW h \in Device, NEW q \in Settable, NEW v \in BOOLEAN,
         Setting(h, q), Set(q, v)
  PROVE  /\ \A d \in Device \ {h} : buffered_propagation'[d] = buffered_propagation[d]
         /\ \A d \in Device : buffered_propagation[d] => buffered_propagation'[d]
<1>1. \/ buffered_propagation' = buffered_propagation
      \/ buffered_propagation' = [buffered_propagation EXCEPT ![h] = TRUE]
  <2>1. CASE Direction[q] = 1 /\ Owner[q] \in Gate /\ SetGateInput(q, v)
    BY <2>1 DEF SetGateInput, solves
  <2>2. CASE Direction[q] = 1 /\ Owner[q] \in Device /\ SetDeviceInput(q, v)
    BY <2>2 DEF SetDeviceInput
  <2>3. CASE Direction[q] = 2 /\ SetDeviceOutput(q, v)
    <3>1. Owner[q] = h
      BY <2>3 DEF Setting
    <3>. QED
      BY <2>3, <3>1 DEF SetDeviceOutput
  <2>4. CASE Direction[q] = 4 /\ SetAllStop(q, v)
    BY <2>4 DEF SetAllStop, solves
  <2>. QED
    BY <2>1, <2>2, <2>3, <2>4 DEF Set
<1>2. \A d \in Device \ {h} : buffered_propagation'[d] = buffered_propagation[d]
  BY <1>1 DEF TypeOK
<1>3. \A d \in Device : buffered_propagation[d] => buffered_propagation'[d]
  BY <1>1 DEF TypeOK
<1>. QED
  BY <1>2, <1>3, Zenon

\* The queue of a Device in the two sub-ticks, after a Set: nothing leaves it,
\* and a Gate whose flag has been set is in it.
LEMMA SetKeepsFlags ==
  ASSUME TypeOK, FlagsQueued, NEW h \in Device, NEW q \in Settable, NEW v \in BOOLEAN,
         Setting(h, q), Set(q, v)
  PROVE  /\ FlagsQueued'
         /\ \A c \in Component \ {Sim} : Queued(c) => Queued(c)'
<1>1. /\ propagate_next_tick \in [Device -> Seq(Component \ {Sim})]
      /\ next_tick_flag \in [Component -> BOOLEAN]
  BY DEF TypeOK
<1>2. UNCHANGED <<propagate_this_tick, this_tick_flag>>
  BY SetQueues
<1>3. CASE UNCHANGED <<propagate_next_tick, next_tick_flag>>
  BY <1>2, <1>3 DEF FlagsQueued, Queued
<1>4. CASE /\ Direction[q] = 1 /\ Owner[q] \in Gate
           /\ propagate_next_tick' = [propagate_next_tick EXCEPT ![h] = Append(@, Owner[q])]
           /\ next_tick_flag' = [next_tick_flag EXCEPT ![Owner[q]] = TRUE]
  <2>1. Owner[q] \in Component \ {Sim} /\ Parent[Owner[q]] = h
    BY <1>4, TreeAssumption DEF Setting, Component
  <2>2. Range(Append(propagate_next_tick[h], Owner[q])) = Range(propagate_next_tick[h]) \cup {Owner[q]}
    <3>1. propagate_next_tick[h] \in Seq(Component \ {Sim})
      BY <1>1
    <3>. QED
      BY <2>1, <3>1, AppendElements
  <2>3. /\ propagate_next_tick'[h] = Append(propagate_next_tick[h], Owner[q])
        /\ \A e \in Device \ {h} : propagate_next_tick'[e] = propagate_next_tick[e]
    BY <1>1, <1>4
  <2>4. \A e \in Device : Range(propagate_next_tick[e]) \subseteq Range(propagate_next_tick'[e])
    BY <2>2, <2>3
  <2>5. Owner[q] \in Range(propagate_next_tick'[h])
    BY <2>2, <2>3
  <2>6. \A c \in Component \ {Sim} : Parent[c] \in Device
    BY TreeAssumption
  <2>7. \A c \in Component \ {Sim} : next_tick_flag'[c] => c = Owner[q] \/ next_tick_flag[c]
    BY <1>1, <1>4
  <2>. QED
    BY <1>2, <2>1, <2>4, <2>5, <2>6, <2>7 DEF FlagsQueued, Queued
<1>. QED
  BY <1>3, <1>4, SetQueues

\* A Set keeps the outputs of the Gates evaluated.
LEMMA SetKeepsEvaluated ==
  ASSUME TypeOK, Evaluated, NEW h \in Device, NEW q \in Settable, NEW v \in BOOLEAN,
         Setting(h, q), Set(q, v), UNCHANGED built
  PROVE  Evaluated'
<1>. SUFFICES ASSUME NEW g \in Gate, Parent[g] \in built
              PROVE  state'[Out(g)] = GateOutput(g, state')
  BY DEF Evaluated
<1>1. state \in [Pin -> BOOLEAN] /\ q \in Pin
  BY DEF TypeOK, Settable
<1>2. Out(g) \in Pin /\ Owner[Out(g)] = g /\ Direction[Out(g)] = 2
  BY OutType
<1>3. CASE Direction[q] = 1 /\ Owner[q] = g /\ SetGateInput(q, v)
  <2>. DEFINE moved == [state EXCEPT ![q] = v]
              flips == state[q] # v /\ state[Out(g)] # GateOutput(g, moved)
  <2>1. state' = IF flips THEN [moved EXCEPT ![Out(g)] = GateOutput(g, moved)] ELSE moved
    BY <1>3 DEF SetGateInput
  <2>2. moved \in [Pin -> BOOLEAN] /\ moved[Out(g)] = state[Out(g)]
    BY <1>1, <1>2, <1>3
  <2>3. \A p \in Inputs[g] : state'[p] = moved[p]
    <3>. HIDE DEF moved, flips
    <3>. QED
      BY <1>2, <2>1, <2>2, InputFacts
  <2>4. GateOutput(g, state') = GateOutput(g, moved)
    BY <2>3, OutputOfInputs
  <2>5. state'[Out(g)] = GateOutput(g, moved)
    <3>1. CASE flips
      <4>. HIDE DEF moved
      <4>. QED
        BY <1>2, <2>1, <2>2, <3>1
    <3>2. CASE ~flips /\ state[q] = v
      <4>1. moved = state
        BY <1>1, <3>2
      <4>. QED
        BY <2>1, <3>2, <4>1 DEF Evaluated
    <3>3. CASE ~flips /\ state[q] # v
      BY <2>1, <2>2, <3>3
    <3>. QED
      BY <3>1, <3>2, <3>3
  <2>. QED
    BY <2>4, <2>5
<1>4. CASE ~(Direction[q] = 1 /\ Owner[q] = g)
  <2>1. \A p \in Pin : Owner[p] = g => state'[p] = state[p]
    <3>1. CASE Direction[q] = 1 /\ Owner[q] \in Gate /\ SetGateInput(q, v)
      <4>1. Owner[q] # g /\ Owner[Out(Owner[q])] = Owner[q] /\ Out(Owner[q]) \in Pin
        BY <1>4, <3>1, OutType
      <4>2. PICK x : \/ state' = [state EXCEPT ![q] = v]
                     \/ state' = [[state EXCEPT ![q] = v] EXCEPT ![Out(Owner[q])] = x]
        BY <3>1 DEF SetGateInput
      <4>. QED
        BY <1>1, <4>1, <4>2
    <3>2. CASE Direction[q] = 1 /\ Owner[q] \in Device /\ SetDeviceInput(q, v)
      BY <1>1, <1>4, <3>2, TreeAssumption DEF SetDeviceInput
    <3>3. CASE Direction[q] = 2 /\ SetDeviceOutput(q, v)
      <4>1. Owner[q] = h /\ h # g
        BY <3>3, TreeAssumption DEF Setting
      <4>. QED
        BY <1>1, <3>3, <4>1 DEF SetDeviceOutput
    <3>4. CASE Direction[q] = 4 /\ SetAllStop(q, v)
      BY <3>4 DEF SetAllStop, pins
    <3>. QED
      BY <3>1, <3>2, <3>3, <3>4 DEF Set
  <2>2. GateOutput(g, state') = GateOutput(g, state)
    <3>1. \A p \in Inputs[g] : state'[p] = state[p]
      BY <2>1, InputFacts
    <3>. QED
      BY <3>1, OutputOfInputs
  <2>. QED
    BY <1>2, <2>1, <2>2 DEF Evaluated
<1>. QED
  <2>1. CASE Direction[q] = 1 /\ Owner[q] = g
    <3>1. g \notin Device
      BY TreeAssumption
    <3>. QED
      BY <1>3, <2>1, <3>1 DEF Set
  <2>. QED
    BY <1>4, <2>1

\* A Set leaves Devices that are done as they are.
LEMMA SetKeepsClean ==
  ASSUME Control, Clean, NEW h \in Device, NEW q \in Settable, NEW v \in BOOLEAN,
         Setting(h, q), Set(q, v), UNCHANGED <<phase, built>>
  PROVE  Clean'
<1>1. TypeOK /\ ~Finished(h)
  BY DEF Control, Setting, Finished, AllIdle
<1>2. errors \subseteq errors'
  BY <1>1, SetPins
<1>3. \A d \in Device \ {h} : /\ buffered_propagation'[d] = buffered_propagation[d]
                              /\ propagate_next_tick'[d] = propagate_next_tick[d]
                              /\ solve_this_tick'[d] = solve_this_tick[d]
  <2>1. \A d \in Device \ {h} : buffered_propagation'[d] = buffered_propagation[d]
    BY <1>1, SetElsewhere, Zenon
  <2>2. /\ \/ propagate_next_tick' = propagate_next_tick
           \/ propagate_next_tick' = [propagate_next_tick EXCEPT ![h] = Append(@, Owner[q])]
        /\ \/ solve_this_tick' = solve_this_tick
           \/ solve_this_tick' = [solve_this_tick EXCEPT ![h] = Append(@, Owner[q])]
    BY <1>1, SetQueues
  <2>. QED
    BY <1>1, <2>1, <2>2 DEF TypeOK
<1>4. ~Unstable' => ~Unstable
  BY <1>2 DEF Unstable
<1>5. built \subseteq Device
  BY <1>1 DEF TypeOK
<1>. QED
  BY <1>1, <1>3, <1>4, <1>5 DEF Clean, Finished

\* A Set queues whatever it marks.
LEMMA SetKeepsScheduled ==
  ASSUME Control, FlagsQueued, ChangesScheduled,
         NEW h \in Device, NEW q \in Settable, NEW v \in BOOLEAN,
         Setting(h, q), Set(q, v), UNCHANGED <<phase, built>>,
         \A d \in Device, p \in Pin : ToBeScanned(d, p) => ToBeScanned(d, p)'
  PROVE  ChangesScheduled'
<1>1. TypeOK
  BY DEF Control
<1>2. FlagsQueued' /\ \A c \in Component \ {Sim} : Queued(c) => Queued(c)'
  BY <1>1, SetKeepsFlags
<1>3. \A c \in Device : solve_this_tick_flag[c] => solve_this_tick_flag'[c]
  <2>1. \/ solve_this_tick_flag' = solve_this_tick_flag
        \/ solve_this_tick_flag' = [solve_this_tick_flag EXCEPT ![Owner[q]] = TRUE]
    BY <1>1, SetQueues
  <2>. QED
    BY <1>1, <2>1 DEF TypeOK
<1>4. \A c \in Device : buffered_propagation[c] => buffered_propagation'[c]
  BY <1>1, SetElsewhere, Zenon
<1>. SUFFICES ASSUME NEW p \in Driver, state_changed'[p], Home[p] \in built
              PROVE  IF Home[p] = Owner[p]
                     THEN solve_this_tick_flag'[Owner[p]] \/ ToBeScanned(Owner[p], p)'
                     ELSE \/ Queued(Owner[p])' \/ ToBeScanned(Home[p], p)'
                          \/ Owner[p] \in Device /\ buffered_propagation'[Owner[p]] /\ phase'[Owner[p]] # "idle"
  BY DEF ChangesScheduled
<1>5. /\ p \in Pin /\ Home[p] \in Device
      /\ Home[p] = Owner[p] => Owner[p] \in Device /\ Direction[p] \in {1, 3}
      /\ Home[p] # Owner[p] => Owner[p] \in Component \ {Sim} /\ Direction[p] = 2
  BY DriverFacts
<1>6. CASE state_changed[p]
  BY <1>2, <1>3, <1>4, <1>5, <1>6 DEF ChangesScheduled
<1>7. CASE ~state_changed[p] /\ Owner[q] \in Gate /\ p = Out(Owner[q])
           /\ (next_tick_flag'[Owner[q]] \/ this_tick_flag'[Owner[q]])
  <2>1. Owner[p] = Owner[q] /\ Owner[p] # Home[p]
    BY <1>5, <1>7, OutType
  <2>2. Queued(Owner[p])'
    BY <1>2, <1>5, <1>7, <2>1 DEF FlagsQueued, Queued
  <2>. QED
    BY <2>1, <2>2
<1>8. CASE p = q /\ Direction[q] = 1 /\ Owner[q] \in Device /\ solve_this_tick_flag'[Owner[q]]
  BY <1>5, <1>8
<1>9. CASE p = q /\ Direction[q] = 2 /\ Owner[q] = h /\ buffered_propagation'[h]
  <2>1. phase'[h] # "idle" /\ Home[p] # Owner[p]
    BY <1>5, <1>9 DEF Setting
  <2>. QED
    BY <1>9, <2>1
<1>10. state_changed'[p] /\ ~state_changed[p] =>
         \/ /\ Owner[q] \in Gate /\ p = Out(Owner[q])
            /\ next_tick_flag'[Owner[q]] \/ this_tick_flag'[Owner[q]]
         \/ p = q /\ Direction[q] = 1 /\ Owner[q] \in Device /\ solve_this_tick_flag'[Owner[q]]
         \/ p = q /\ Direction[q] = 2 /\ Owner[q] = h /\ buffered_propagation'[h]
  BY <1>1, <1>5, SetPins, Zenon
<1>. QED
  BY <1>6, <1>7, <1>8, <1>9, <1>10

-----------------------------------------------------------------------------
(* The steps of Solve.                                                     *)

\* The scan of a Device that has not moved.
LEMMA ScanElsewhere ==
  ASSUME NEW e \in Device, phase'[e] = phase[e], current'[e] = current[e],
         pinAt'[e] = pinAt[e], connAt'[e] = connAt[e]
  PROVE  \A p \in Pin : /\ ToBeScanned(e, p)' <=> ToBeScanned(e, p)
                        /\ Driving(e, p)' <=> Driving(e, p)
BY DEF ToBeScanned, Driving, Scanning, Scan, ScanPin

\* A Device whose scan is over, or that is not scanning, has nothing to come.
LEMMA NotScanning ==
  ASSUME NEW e \in Device, ~Scanning(e)
  PROVE  \A p \in Pin : ~ToBeScanned(e, p) /\ ~Driving(e, p)
BY DEF ToBeScanned, Driving

\* Moving through the pins of a scan.
LEMMA ScanKeepsData ==
  ASSUME SolverInv, NEW d \in Device, SkipPin(d) \/ TakePin(d) \/ LeavePin(d)
  PROVE  SolverInv'
<1>0. PICK r : r = ScanPin(d)
  OBVIOUS
<1>1. /\ Control' /\ Control
      /\ pinAt \in [Device -> Nat \ {0}] /\ connAt \in [Device -> Nat]
      /\ state_changed \in [Pin -> BOOLEAN]
  BY ScanKeepsControl DEF SolverInv, Control, TypeOK
<1>2. /\ UNCHANGED <<state, queues, solves, current, phase, started, built, errors>>
      /\ Scanning(d)
  BY DEF SkipPin, TakePin, LeavePin, pins
<1>3. /\ r \in Pin /\ r \in Driver /\ Home[r] = d /\ Scan(d) \in Seq(Pin)
      /\ \/ Owner[r] = d /\ Direction[r] \in {1, 3}
         \/ Owner[r] \in ChildrenOf(d) /\ Direction[r] = 2
  BY <1>0, <1>1, <1>2, ScanHome, ScanType DEF Control
<1>4. d \in built
  BY <1>1, <1>2 DEF Control, Construction, Scanning
<1>5. \/ state_changed' = state_changed
      \/ TakePin(d) /\ state_changed' = [state_changed EXCEPT ![r] = FALSE]
  BY <1>0 DEF SkipPin, TakePin, LeavePin, pins
<1>6. ASSUME NEW e \in Device, e # d, NEW p \in Pin
      PROVE  /\ ToBeScanned(e, p)' <=> ToBeScanned(e, p)
             /\ Driving(e, p)' <=> Driving(e, p)
             /\ connAt'[e] = connAt[e]
  <2>1. pinAt'[e] = pinAt[e] /\ connAt'[e] = connAt[e]
    BY <1>1, <1>6 DEF SkipPin, TakePin, LeavePin
  <2>2. phase'[e] = phase[e] /\ current'[e] = current[e]
    BY <1>2
  <2>. QED
    BY <2>1, <2>2, ScanElsewhere
<1>7. \A p \in Pin : state_changed'[p] /\ ToBeScanned(d, p) => ToBeScanned(d, p)'
  <2>. SUFFICES ASSUME NEW p \in Pin, state_changed'[p], ToBeScanned(d, p)
                PROVE  ToBeScanned(d, p)'
    OBVIOUS
  <2>1. PICK k \in pinAt[d] .. Len(Scan(d)) : Scan(d)[k] = p /\ (k = pinAt[d] => connAt[d] = 0)
    BY DEF ToBeScanned
  <2>2. k # pinAt[d]
    <3>1. CASE SkipPin(d)
      BY <2>1, <3>1 DEF SkipPin, ScanPin, pins
    <3>2. CASE TakePin(d)
      BY <1>0, <1>1, <1>3, <2>1, <3>2 DEF TakePin, ScanPin
    <3>3. CASE LeavePin(d)
      <4>1. Len(Targets[r]) \in Nat /\ connAt[d] \in Nat /\ connAt[d] > Len(Targets[r])
        BY <1>0, <1>1, <1>3, <3>3, ConnectAssumption DEF LeavePin
      <4>. QED
        BY <2>1, <4>1
    <3>. QED
      BY <3>1, <3>2, <3>3
  <2>3. pinAt[d] \in Nat /\ Len(Scan(d)) \in Nat /\ Scan(d)' = Scan(d)
    BY <1>1, <1>2, <1>3 DEF Scan
  <2>4. /\ pinAt'[d] = pinAt[d] \/ (pinAt'[d] = pinAt[d] + 1 /\ connAt'[d] = 0)
    BY <1>1 DEF SkipPin, TakePin, LeavePin
  <2>5. k \in pinAt'[d] .. Len(Scan(d)) /\ pinAt'[d] <= Len(Scan(d))
    BY <2>1, <2>2, <2>3, <2>4
  <2>6. k = pinAt'[d] => connAt'[d] = 0
    BY <2>1, <2>2, <2>3, <2>4
  <2>. QED
    BY <1>2, <2>1, <2>3, <2>5, <2>6 DEF ToBeScanned, Scanning
<1>8. \A p \in Pin : p # r => state_changed'[p] = state_changed[p]
  BY <1>1, <1>5
<1>9. Untouched'
  <2>1. ~(Owner[r] \in Device \ built /\ Direction[r] \in {1, 3})
    BY <1>3, <1>4
  <2>. QED
    BY <1>2, <1>8, <2>1 DEF SolverInv, Untouched
<1>10. FlagsQueued' /\ Evaluated' /\ Clean'
  <2>2. FlagsQueued'
    BY <1>2 DEF SolverInv, FlagsQueued, queues
  <2>3. Evaluated'
    BY <1>2 DEF SolverInv, Evaluated
  <2>4. Clean'
    BY <1>2 DEF SolverInv, Clean, Finished, Unstable, queues, solves
  <2>. QED
    BY <2>2, <2>3, <2>4
<1>11. PendingPropagation'
  <2>. SUFFICES ASSUME NEW p \in Driver, Home[p] \in built, NEW i \in DOMAIN Targets[p]
                PROVE  \/ Agree(p, Targets[p][i])'
                       \/ state_changed'[p]
                       \/ Driving(Home[p], p)' /\ connAt'[Home[p]] <= i
    BY <1>2 DEF PendingPropagation
  <2>1. p \in Pin /\ Home[p] \in Device
    BY DriverFacts
  <2>2. Agree(p, Targets[p][i])' <=> Agree(p, Targets[p][i])
    BY <1>2 DEF Agree
  <2>3. i \in Nat \ {0} /\ i <= Len(Targets[p])
    <3>1. Targets[p] \in Seq(Pin)
      BY <2>1, ConnectAssumption
    <3>. QED
      BY <3>1
  <2>4. CASE Agree(p, Targets[p][i])
    BY <2>2, <2>4
  <2>5. CASE state_changed[p]
    <3>1. CASE p # r
      BY <1>8, <2>1, <2>5, <3>1
    <3>2. CASE p = r /\ ~TakePin(d)
      BY <1>5, <2>5, <3>2
    <3>3. CASE p = r /\ TakePin(d)
      <4>1. connAt'[d] = 1
        BY <1>1, <3>3 DEF TakePin
      <4>2. Scanning(d)' /\ ScanPin(d)' = r
        BY <1>0, <1>2, <3>3 DEF TakePin, Scanning, Scan, ScanPin
      <4>3. Driving(d, p)'
        BY <3>3, <4>1, <4>2 DEF Driving
      <4>. QED
        BY <1>3, <2>3, <3>3, <4>1, <4>3
    <3>. QED
      BY <3>1, <3>2, <3>3
  <2>6. CASE Driving(Home[p], p) /\ connAt[Home[p]] <= i
    <3>1. CASE Home[p] # d
      BY <1>6, <2>1, <2>6, <3>1
    <3>2. CASE Home[p] = d
      <4>1. p = r /\ connAt[d] > 0 /\ connAt[d] <= i
        BY <1>0, <2>6, <3>2 DEF Driving
      <4>2. connAt[d] \in Nat /\ Len(Targets[r]) \in Nat /\ connAt[d] <= Len(Targets[r])
        BY <1>1, <1>3, <2>3, <4>1, ConnectAssumption
      <4>. QED
        BY <1>0, <4>1, <4>2 DEF SkipPin, TakePin, LeavePin
    <3>. QED
      BY <3>1, <3>2
  <2>. QED
    BY <2>4, <2>5, <2>6 DEF SolverInv, PendingPropagation
<1>12. ChangesScheduled'
  <2>. SUFFICES ASSUME NEW p \in Driver, state_changed'[p], Home[p] \in built
                PROVE  IF Home[p] = Owner[p]
                       THEN solve_this_tick_flag[Owner[p]] \/ ToBeScanned(Owner[p], p)'
                       ELSE \/ Queued(Owner[p]) \/ ToBeScanned(Home[p], p)'
                            \/ /\ Owner[p] \in Device /\ buffered_propagation[Owner[p]]
                               /\ phase[Owner[p]] # "idle"
    BY <1>2 DEF ChangesScheduled, Queued, queues, solves
  <2>1. p \in Pin /\ Home[p] \in Device
    BY DriverFacts
  <2>2. state_changed[p]
    BY <1>1, <1>3, <1>5, <2>1
  <2>3. ToBeScanned(Home[p], p) => ToBeScanned(Home[p], p)'
    BY <1>6, <1>7, <2>1
  <2>. QED
    BY <2>1, <2>2, <2>3 DEF SolverInv, ChangesScheduled
<1>. QED
  BY <1>1, <1>9, <1>10, <1>11, <1>12 DEF SolverInv

\* A connection whose ends agree, or whose driver is marked, stays so when
\* another pin is set, and becomes so when its target is.
LEMMA SetKeepsAgreement ==
  ASSUME TypeOK, NEW h \in Device, NEW q \in Settable, NEW v \in BOOLEAN,
         Setting(h, q), Set(q, v),
         NEW p \in Driver, NEW i \in DOMAIN Targets[p],
         \/ Targets[p][i] # q /\ (Agree(p, Targets[p][i]) \/ state_changed[p])
         \/ Targets[p][i] = q /\ (v = state[p] \/ q \in External)
  PROVE  Agree(p, Targets[p][i])' \/ state_changed'[p]
<1>. DEFINE t == Targets[p][i]
<1>1. /\ t \in Pin /\ ~(Owner[t] \in Gate /\ Direction[t] = 2) /\ p \in Pin
  BY TargetFacts, DriverFacts
<1>2. errors \subseteq errors'
  BY SetPins
<1>3. state_changed[p] => state_changed'[p]
  BY <1>1, SetPins, Zenon
<1>4. CASE state'[p] # state[p]
  BY <1>4, SetPins, Zenon
<1>5. CASE state'[p] = state[p] /\ t # q
  <2>0. \A x \in Pin : x # q /\ ~(Owner[x] \in Gate /\ Direction[x] = 2) => state'[x] = state[x]
    BY SetStates
  <2>1. state'[t] = state[t]
    BY <1>1, <1>5, <2>0
  <2>2. Agree(p, t) => Agree(p, t)'
    BY <1>2, <1>5, <2>1 DEF Agree
  <2>. QED
    BY <1>3, <1>5, <2>2
<1>6. CASE state'[p] = state[p] /\ t = q
  <2>1. CASE q \in External
    BY <1>6, <2>1 DEF Agree
  <2>2. CASE Direction[q] # 4 /\ v = state[p]
    <3>0. Direction[q] # 4 => state'[q] = v
      BY SetStates
    <3>1. state'[q] = v
      BY <2>2, <3>0
    <3>. QED
      BY <1>6, <2>2, <3>1 DEF Agree
  <2>3. CASE Direction[q] = 4 /\ v = state[p]
    <3>1. v => <<"all_stop", Owner[q]>> \in errors'
      BY <2>3, SetPins, Zenon
    <3>. QED
      BY <1>6, <2>3, <3>1 DEF Agree
  <2>. QED
    BY <1>6, <2>1, <2>2, <2>3
<1>. QED
  BY <1>4, <1>5, <1>6

\* Setting the target of a connection.
LEMMA DeliverKeepsData ==
  ASSUME SolverInv, NEW d \in Device, Deliver(d)
  PROVE  SolverInv'
<1>0. PICK r, i0, q, v : r = ScanPin(d) /\ i0 = connAt[d] /\ q = Targets[r][i0] /\ v = state[r]
  OBVIOUS
<1>1. Control /\ Control' /\ TypeOK /\ FlagsQueued /\ Evaluated /\ Clean /\ ChangesScheduled
  BY DeliverKeepsControl DEF SolverInv, Control
<1>2. Setting(d, q) /\ Set(q, v) /\ v \in BOOLEAN /\ q \in Settable
  BY <1>0, <1>1, DeliverSetting DEF Setting
<1>3. /\ connAt' = [connAt EXCEPT ![d] = @ + 1] /\ Scanning(d) /\ i0 \in DOMAIN Targets[r]
      /\ UNCHANGED <<current, pinAt, phase, started, built>>
  BY <1>0 DEF Deliver
<1>4. /\ r \in Driver /\ r \in Pin /\ Home[r] = d /\ connAt \in [Device -> Nat]
      /\ i0 \in Nat \ {0}
  <2>1. r \in Driver /\ r \in Pin /\ Home[r] = d /\ connAt \in [Device -> Nat]
    BY <1>0, <1>1, <1>3, ScanHome DEF Control, TypeOK
  <2>2. Targets[r] \in Seq(Pin)
    BY <2>1, ConnectAssumption
  <2>. QED
    BY <1>3, <2>1, <2>2
<1>5. Untouched'
  <2>1. \A p \in Pin : state_changed[p] => state_changed'[p]
    BY <1>1, <1>2, SetPins, Zenon
  <2>. QED
    BY <1>3, <2>1 DEF SolverInv, Untouched
<1>6. FlagsQueued'
  BY <1>1, <1>2, SetKeepsFlags
<1>7. Evaluated'
  BY <1>1, <1>2, <1>3, SetKeepsEvaluated
<1>8. Clean'
  BY <1>1, <1>2, <1>3, SetKeepsClean
<1>9. ASSUME NEW e \in Device, e # d, NEW p \in Pin
      PROVE  /\ ToBeScanned(e, p)' <=> ToBeScanned(e, p)
             /\ Driving(e, p)' <=> Driving(e, p)
             /\ connAt'[e] = connAt[e]
  <2>1. phase'[e] = phase[e] /\ current'[e] = current[e] /\ pinAt'[e] = pinAt[e]
    BY <1>3
  <2>2. connAt'[e] = connAt[e]
    BY <1>3, <1>4, <1>9
  <2>. QED
    BY <2>1, <2>2, ScanElsewhere
<1>10. ChangesScheduled'
  <2>1. ASSUME NEW p \in Pin, ToBeScanned(d, p)
        PROVE  ToBeScanned(d, p)'
    <3>1. PICK k \in pinAt[d] .. Len(Scan(d)) : Scan(d)[k] = p /\ (k = pinAt[d] => connAt[d] = 0)
      BY <2>1 DEF ToBeScanned
    <3>2. k # pinAt[d]
      BY <1>0, <1>4, <3>1
    <3>3. Scan(d)' = Scan(d) /\ pinAt'[d] = pinAt[d] /\ phase'[d] = phase[d]
      BY <1>3 DEF Scan
    <3>. QED
      BY <2>1, <3>1, <3>2, <3>3 DEF ToBeScanned, Scanning
  <2>2. \A e \in Device, p \in Pin : ToBeScanned(e, p) => ToBeScanned(e, p)'
    BY <1>9, <2>1
  <2>. QED
    BY <1>1, <1>2, <1>3, <2>2, SetKeepsScheduled
<1>11. PendingPropagation'
  <2>. SUFFICES ASSUME NEW p \in Driver, Home[p] \in built, NEW i \in DOMAIN Targets[p]
                PROVE  \/ Agree(p, Targets[p][i])'
                       \/ state_changed'[p]
                       \/ Driving(Home[p], p)' /\ connAt'[Home[p]] <= i
    BY <1>3 DEF PendingPropagation
  <2>1. p \in Pin /\ Home[p] \in Device
    BY DriverFacts
  <2>2. CASE Targets[p][i] = q
    <3>1. p = r
      BY <1>0, <1>3, <1>4, <2>2, TargetFacts
    <3>. QED
      BY <1>0, <1>1, <1>2, <2>2, <3>1, SetKeepsAgreement
  <2>3. CASE Targets[p][i] # q /\ (Agree(p, Targets[p][i]) \/ state_changed[p])
    BY <1>1, <1>2, <2>3, SetKeepsAgreement
  <2>4. CASE Targets[p][i] # q /\ Driving(Home[p], p) /\ connAt[Home[p]] <= i
    <3>1. CASE Home[p] # d
      BY <1>9, <2>1, <2>4, <3>1
    <3>2. CASE Home[p] = d
      <4>1. p = r /\ i0 <= i /\ i # i0
        BY <1>0, <2>4, <3>2 DEF Driving
      <4>2. i \in Nat
        <5>1. Targets[p] \in Seq(Pin)
          BY <2>1, ConnectAssumption
        <5>. QED
          BY <5>1
      <4>3. connAt'[d] = i0 + 1 /\ connAt'[d] <= i /\ connAt'[d] > 0
        BY <1>0, <1>3, <1>4, <4>1, <4>2
      <4>4. Scanning(d)' /\ ScanPin(d)' = ScanPin(d)
        BY <1>3 DEF Scanning, Scan, ScanPin
      <4>5. Driving(d, p)'
        BY <1>0, <4>1, <4>3, <4>4 DEF Driving
      <4>. QED
        BY <3>2, <4>3, <4>5
    <3>. QED
      BY <3>1, <3>2
  <2>. QED
    BY <2>2, <2>3, <2>4 DEF SolverInv, PendingPropagation
<1>. QED
  BY <1>1, <1>5, <1>6, <1>7, <1>8, <1>10, <1>11 DEF SolverInv

\* Setting a pin from outside.
LEMMA DriveKeepsData ==
  ASSUME SolverInv, NEW q \in External, NEW v \in BOOLEAN, Drive(q, v)
  PROVE  SolverInv'
<1>1. /\ Control /\ Control' /\ TypeOK /\ FlagsQueued /\ Evaluated /\ Clean /\ ChangesScheduled
      /\ Sim \in Device
  BY DriveKeepsControl, TreeAssumption DEF SolverInv, Control
<1>2. Setting(Sim, q) /\ Set(q, v) /\ q \in Settable
  BY <1>1, DriveSetting DEF Setting, Drive
<1>3. UNCHANGED <<scan, phase, started, built>>
  BY DEF Drive
<1>4. Untouched'
  <2>1. \A p \in Pin : state_changed[p] => state_changed'[p]
    BY <1>1, <1>2, SetPins, Zenon
  <2>. QED
    BY <1>3, <2>1 DEF SolverInv, Untouched
<1>5. FlagsQueued'
  BY <1>1, <1>2, SetKeepsFlags
<1>6. Evaluated'
  BY <1>1, <1>2, <1>3, SetKeepsEvaluated
<1>7. Clean'
  BY <1>1, <1>2, <1>3, SetKeepsClean
<1>8. ASSUME NEW e \in Device, NEW p \in Pin
      PROVE  /\ ToBeScanned(e, p)' <=> ToBeScanned(e, p)
             /\ Driving(e, p)' <=> Driving(e, p)
             /\ connAt'[e] = connAt[e]
  <2>1. phase'[e] = phase[e] /\ current'[e] = current[e] /\ pinAt'[e] = pinAt[e] /\ connAt'[e] = connAt[e]
    BY <1>3 DEF scan
  <2>. QED
    BY <2>1, ScanElsewhere
<1>9. ChangesScheduled'
  <2>1. \A e \in Device, p \in Pin : ToBeScanned(e, p) => ToBeScanned(e, p)'
    BY <1>8
  <2>. QED
    BY <1>1, <1>2, <1>3, <2>1, SetKeepsScheduled
<1>10. PendingPropagation'
  <2>. SUFFICES ASSUME NEW p \in Driver, Home[p] \in built, NEW i \in DOMAIN Targets[p]
                PROVE  \/ Agree(p, Targets[p][i])'
                       \/ state_changed'[p]
                       \/ Driving(Home[p], p)' /\ connAt'[Home[p]] <= i
    BY <1>3 DEF PendingPropagation
  <2>1. p \in Pin /\ Home[p] \in Device
    BY DriverFacts
  <2>2. CASE Targets[p][i] = q
    BY <1>1, <1>2, <2>2, SetKeepsAgreement
  <2>3. CASE Targets[p][i] # q /\ (Agree(p, Targets[p][i]) \/ state_changed[p])
    BY <1>1, <1>2, <2>3, SetKeepsAgreement
  <2>4. CASE Driving(Home[p], p) /\ connAt[Home[p]] <= i
    BY <1>8, <2>1, <2>4
  <2>. QED
    BY <2>2, <2>3, <2>4 DEF SolverInv, PendingPropagation
<1>. QED
  BY <1>1, <1>4, <1>5, <1>6, <1>7, <1>9, <1>10 DEF SolverInv

\* A step of a Device that is not scanning, by which no pin and no other
\* Device's scan changes, keeps what is said of the connections.
LEMMA QuietKeepsPins ==
  ASSUME SolverInv, NEW d \in Device, ~Scanning(d),
         UNCHANGED <<state, state_changed, built>>, errors \subseteq errors',
         \A e \in Device \ {d} : /\ phase'[e] = phase[e] /\ current'[e] = current[e]
                                 /\ pinAt'[e] = pinAt[e] /\ connAt'[e] = connAt[e]
  PROVE  /\ Untouched' /\ Evaluated' /\ PendingPropagation'
         /\ \A e \in Device, p \in Pin : ToBeScanned(e, p) => ToBeScanned(e, p)'
<1>1. Untouched'
  BY DEF SolverInv, Untouched
<1>2. Evaluated'
  BY DEF SolverInv, Evaluated
<1>3. ASSUME NEW e \in Device, e # d, NEW p \in Pin
      PROVE  /\ ToBeScanned(e, p)' <=> ToBeScanned(e, p)
             /\ Driving(e, p)' <=> Driving(e, p)
             /\ connAt'[e] = connAt[e]
  BY <1>3, ScanElsewhere
<1>4. \A p \in Pin : ~ToBeScanned(d, p) /\ ~Driving(d, p)
  BY NotScanning
<1>5. PendingPropagation'
  <2>. SUFFICES ASSUME NEW p \in Driver, Home[p] \in built, NEW i \in DOMAIN Targets[p]
                PROVE  \/ Agree(p, Targets[p][i])'
                       \/ state_changed'[p]
                       \/ Driving(Home[p], p)' /\ connAt'[Home[p]] <= i
    BY DEF PendingPropagation
  <2>1. p \in Pin /\ Home[p] \in Device
    BY DriverFacts
  <2>2. Agree(p, Targets[p][i]) => Agree(p, Targets[p][i])'
    BY DEF Agree
  <2>3. CASE Driving(Home[p], p) /\ connAt[Home[p]] <= i
    BY <1>3, <1>4, <2>1, <2>3
  <2>. QED
    BY <2>2, <2>3 DEF SolverInv, PendingPropagation
<1>. QED
  BY <1>1, <1>2, <1>3, <1>4, <1>5

\* The start of a sub-tick.
LEMMA BeginSubTickKeepsData ==
  ASSUME SolverInv, NEW d \in Device, BeginSubTick(d)
  PROVE  SolverInv'
<1>1. /\ Control /\ Control' /\ phase \in [Device -> Phase] /\ current \in [Device -> Component]
      /\ pinAt \in [Device -> Nat \ {0}]
      /\ propagate_next_tick \in [Device -> Seq(Component \ {Sim})]
      /\ propagate_this_tick \in [Device -> Seq(Component \ {Sim})]
  BY BeginSubTickKeepsControl DEF SolverInv, Control, TypeOK
<1>2. /\ phase[d] \in {"inputs", "subtick"} /\ ~Scanning(d)
      /\ propagate_this_tick' = [propagate_this_tick EXCEPT ![d] = @ \o propagate_next_tick[d]]
      /\ propagate_next_tick' = [propagate_next_tick EXCEPT ![d] = <<>>]
      /\ this_tick_flag' = [c \in Component |-> c \in Range(propagate_next_tick[d]) \/ this_tick_flag[c]]
      /\ next_tick_flag' = [c \in Component |-> c \notin Range(propagate_next_tick[d]) /\ next_tick_flag[c]]
      /\ phase' = [phase EXCEPT ![d] = "propagate"]
      /\ current' = [current EXCEPT ![d] = d]
      /\ pinAt' = [pinAt EXCEPT ![d] = Len(Inward[d]) + 1]
      /\ UNCHANGED <<state, state_changed, solve_this_tick, solve_this_tick_flag,
                     buffered_propagation, connAt, built, errors>>
  <2>1. ~Scanning(d)
    <3>1. Len(Scan(d)) \in Nat /\ pinAt[d] \in Nat
      BY <1>1, ScanType DEF Control
    <3>. QED
      BY <3>1 DEF BeginSubTick, Scanning, ScanDone
  <2>. QED
    BY <2>1 DEF BeginSubTick, solves, pins, ScanDone
<1>3. \A e \in Device \ {d} : /\ propagate_this_tick'[e] = propagate_this_tick[e]
                              /\ propagate_next_tick'[e] = propagate_next_tick[e]
                              /\ phase'[e] = phase[e] /\ current'[e] = current[e]
                              /\ pinAt'[e] = pinAt[e]
  BY <1>1, <1>2
<1>4. Range(propagate_this_tick'[d]) = Range(propagate_this_tick[d]) \cup Range(propagate_next_tick[d])
  <2>1. propagate_this_tick'[d] = propagate_this_tick[d] \o propagate_next_tick[d]
    BY <1>1, <1>2
  <2>2. /\ propagate_this_tick[d] \in Seq(Component \ {Sim})
        /\ propagate_next_tick[d] \in Seq(Component \ {Sim})
    BY <1>1
  <2>. QED
    BY <2>1, <2>2, ConcatElements
<1>5. \A c \in Component \ {Sim} : c \in Range(propagate_next_tick[d]) => Parent[c] = d
  BY <1>1 DEF Control, Homes, ChildrenOf
<1>6. \A c \in Component \ {Sim} : Parent[c] \in Device
  BY TreeAssumption
<1>7. /\ Untouched' /\ Evaluated' /\ PendingPropagation'
      /\ \A e \in Device, p \in Pin : ToBeScanned(e, p) => ToBeScanned(e, p)'
  BY <1>2, <1>3, QuietKeepsPins
<1>8. FlagsQueued'
  <2>. SUFFICES ASSUME NEW c \in Component \ {Sim}
                PROVE  /\ next_tick_flag'[c] => c \in Range(propagate_next_tick'[Parent[c]])
                       /\ this_tick_flag'[c] => c \in Range(propagate_this_tick'[Parent[c]])
    BY DEF FlagsQueued
  <2>1. /\ next_tick_flag[c] => c \in Range(propagate_next_tick[Parent[c]])
        /\ this_tick_flag[c] => c \in Range(propagate_this_tick[Parent[c]])
    BY DEF SolverInv, FlagsQueued
  <2>2. next_tick_flag'[c] => c \in Range(propagate_next_tick'[Parent[c]])
    BY <1>2, <1>3, <1>6, <2>1
  <2>3. this_tick_flag'[c] => c \in Range(propagate_this_tick'[Parent[c]])
    BY <1>2, <1>3, <1>4, <1>5, <1>6, <2>1
  <2>. QED
    BY <2>2, <2>3
<1>9. ChangesScheduled'
  <2>1. \A c \in Component \ {Sim} : Queued(c) => Queued(c)'
    BY <1>3, <1>4, <1>6 DEF Queued
  <2>. SUFFICES ASSUME NEW p \in Driver, state_changed[p], Home[p] \in built
                PROVE  IF Home[p] = Owner[p]
                       THEN solve_this_tick_flag[Owner[p]] \/ ToBeScanned(Owner[p], p)'
                       ELSE \/ Queued(Owner[p])' \/ ToBeScanned(Home[p], p)'
                            \/ /\ Owner[p] \in Device /\ buffered_propagation[Owner[p]]
                               /\ phase'[Owner[p]] # "idle"
    BY <1>2 DEF ChangesScheduled
  <2>2. /\ p \in Pin /\ Home[p] \in Device
        /\ Home[p] # Owner[p] => Owner[p] \in Component \ {Sim}
    BY DriverFacts
  <2>3. \A e \in Device : phase[e] # "idle" => phase'[e] # "idle"
    BY <1>1, <1>2
  <2>. QED
    BY <1>7, <2>1, <2>2, <2>3 DEF SolverInv, ChangesScheduled
<1>10. Clean'
  <2>1. ~Finished(d)'
    BY <1>1, <1>2 DEF Finished
  <2>. QED
    BY <1>1, <1>2, <1>3, <2>1 DEF SolverInv, Clean, Finished, Unstable, Control, TypeOK
<1>. QED
  BY <1>1, <1>7, <1>8, <1>9, <1>10 DEF SolverInv

\* The out pins of the Component at the head of the sub-tick are scanned next.
LEMMA BeginPropagateKeepsData ==
  ASSUME SolverInv, NEW d \in Device, BeginPropagate(d)
  PROVE  SolverInv'
<1>1. /\ Control /\ Control' /\ current \in [Device -> Component]
      /\ pinAt \in [Device -> Nat \ {0}] /\ this_tick_flag \in [Component -> BOOLEAN]
      /\ propagate_this_tick \in [Device -> Seq(Component \ {Sim})]
  BY BeginPropagateKeepsControl DEF SolverInv, Control, TypeOK
<1>0. PICK c : c = Head(propagate_this_tick[d])
  OBVIOUS
<1>2. /\ phase[d] = "propagate" /\ ~Scanning(d) /\ propagate_this_tick[d] # <<>>
      /\ propagate_this_tick' = [propagate_this_tick EXCEPT ![d] = Tail(@)]
      /\ this_tick_flag' = [this_tick_flag EXCEPT ![c] = FALSE]
      /\ current' = [current EXCEPT ![d] = c]
      /\ pinAt' = [pinAt EXCEPT ![d] = 1]
      /\ UNCHANGED <<state, state_changed, propagate_next_tick, next_tick_flag, solve_this_tick,
                     solve_this_tick_flag, buffered_propagation, connAt, phase, built, errors>>
  <2>1. ~Scanning(d)
    <3>1. Len(Scan(d)) \in Nat /\ pinAt[d] \in Nat
      BY <1>1, ScanType DEF Control
    <3>. QED
      BY <3>1 DEF BeginPropagate, Scanning, ScanDone
  <2>. QED
    BY <1>0, <2>1 DEF BeginPropagate, solves, pins
<1>3. \A e \in Device \ {d} : /\ propagate_this_tick'[e] = propagate_this_tick[e]
                              /\ phase'[e] = phase[e] /\ current'[e] = current[e]
                              /\ pinAt'[e] = pinAt[e]
  BY <1>1, <1>2
<1>4. /\ propagate_this_tick'[d] = Tail(propagate_this_tick[d])
      /\ current'[d] = c /\ pinAt'[d] = 1 /\ phase'[d] = "propagate"
  BY <1>1, <1>2
<1>5. /\ Range(propagate_this_tick[d]) = Range(propagate_this_tick'[d]) \cup {c}
      /\ c \in Component \ {Sim} /\ Parent[c] = d /\ c # d
  <2>1. propagate_this_tick[d] \in Seq(Component \ {Sim})
    BY <1>1
  <2>2. Range(propagate_this_tick[d]) = Range(propagate_this_tick'[d]) \cup {c}
    BY <1>0, <1>2, <1>4, <2>1, PopElements
  <2>3. c \in Component \ {Sim} /\ Parent[c] = d
    BY <1>1, <2>2 DEF Control, Homes, ChildrenOf
  <2>4. c # d
    BY <2>3, AncestorFacts
  <2>. QED
    BY <2>2, <2>3, <2>4
<1>6. \A x \in Component \ {Sim} : Parent[x] \in Device
  BY TreeAssumption
<1>7. /\ Untouched' /\ Evaluated' /\ PendingPropagation'
      /\ \A e \in Device, p \in Pin : ToBeScanned(e, p) => ToBeScanned(e, p)'
  BY <1>2, <1>3, QuietKeepsPins
<1>8. FlagsQueued'
  <2>. SUFFICES ASSUME NEW x \in Component \ {Sim}
                PROVE  /\ next_tick_flag[x] => x \in Range(propagate_next_tick[Parent[x]])
                       /\ this_tick_flag'[x] => x \in Range(propagate_this_tick'[Parent[x]])
    BY <1>2 DEF FlagsQueued
  <2>1. /\ next_tick_flag[x] => x \in Range(propagate_next_tick[Parent[x]])
        /\ this_tick_flag[x] => x \in Range(propagate_this_tick[Parent[x]])
    BY DEF SolverInv, FlagsQueued
  <2>2. this_tick_flag'[x] => this_tick_flag[x] /\ x # c
    BY <1>1, <1>2
  <2>3. this_tick_flag'[x] => x \in Range(propagate_this_tick'[Parent[x]])
    BY <1>3, <1>5, <1>6, <2>1, <2>2
  <2>. QED
    BY <2>1, <2>3
<1>9. ASSUME NEW p \in Pin, Owner[p] = c, Direction[p] = 2
      PROVE  ToBeScanned(d, p)'
  <2>1. Scan(d)' = Outward[c] /\ Outward[c] \in Seq(Pin) /\ p \in Range(Outward[c])
    BY <1>4, <1>5, <1>9, PinAssumption DEF Scan
  <2>2. PICK k \in 1 .. Len(Outward[c]) : Outward[c][k] = p
    BY <2>1 DEF Range
  <2>3. Len(Outward[c]) \in Nat /\ 1 <= Len(Outward[c])
    BY <2>1, <2>2
  <2>4. connAt'[d] = 0
    BY <1>1, <1>2 DEF Control, Loops
  <2>5. Scanning(d)'
    BY <1>4, <2>1, <2>3 DEF Scanning
  <2>. QED
    BY <1>4, <2>1, <2>2, <2>4, <2>5 DEF ToBeScanned
<1>10. ChangesScheduled'
  <2>1. \A x \in Component \ {Sim} : Queued(x) => Queued(x)' \/ x = c
    BY <1>2, <1>3, <1>5, <1>6 DEF Queued
  <2>. SUFFICES ASSUME NEW p \in Driver, state_changed[p], Home[p] \in built
                PROVE  IF Home[p] = Owner[p]
                       THEN solve_this_tick_flag[Owner[p]] \/ ToBeScanned(Owner[p], p)'
                       ELSE \/ Queued(Owner[p])' \/ ToBeScanned(Home[p], p)'
                            \/ /\ Owner[p] \in Device /\ buffered_propagation[Owner[p]]
                               /\ phase[Owner[p]] # "idle"
    BY <1>2 DEF ChangesScheduled
  <2>2. /\ p \in Pin /\ Home[p] \in Device
        /\ Home[p] # Owner[p] => /\ Owner[p] \in Component \ {Sim} /\ Direction[p] = 2
                                 /\ Home[p] = Parent[Owner[p]]
    BY DriverFacts
  <2>3. Home[p] # Owner[p] /\ Owner[p] = c => ToBeScanned(Home[p], p)'
    BY <1>5, <1>9, <2>2
  <2>. QED
    BY <1>7, <2>1, <2>2, <2>3 DEF SolverInv, ChangesScheduled
<1>11. Clean'
  BY <1>2 DEF SolverInv, Clean, Finished, Unstable
<1>. QED
  BY <1>1, <1>7, <1>8, <1>10, <1>11 DEF SolverInv

\* After a sub-tick: another one, an error, or the children's turn.
LEMMA AfterSubTickKeepsData ==
  ASSUME SolverInv, NEW d \in Device, Repeat(d) \/ Stall(d) \/ Quiesce(d)
  PROVE  SolverInv'
<1>1. /\ Control /\ Control' /\ phase \in [Device -> Phase] /\ pinAt \in [Device -> Nat \ {0}]
  BY AfterSubTickKeepsControl DEF SolverInv, Control, TypeOK
<1>2. /\ UNCHANGED <<pins, queues, solves, scan, built>> /\ errors \subseteq errors'
      /\ phase[d] = "propagate" /\ pinAt[d] > Len(Scan(d))
  BY DEF Repeat, Stall, Quiesce, SubTickDone, ScanDone
<1>3. \/ phase' = [phase EXCEPT ![d] = "return"] /\ <<"unstable", d>> \in errors'
      \/ phase' = [phase EXCEPT ![d] = "subtick"] /\ errors' = errors
      \/ phase' = [phase EXCEPT ![d] = "children"] /\ errors' = errors
  BY DEF Repeat, Stall, Quiesce
<1>4. phase'[d] # "idle" /\ \A e \in Device \ {d} : phase'[e] = phase[e]
  BY <1>1, <1>3
<1>5. ~Scanning(d)
  <2>1. Len(Scan(d)) \in Nat /\ pinAt[d] \in Nat
    BY <1>1, ScanType DEF Control
  <2>. QED
    BY <1>2, <2>1 DEF Scanning
<1>6. /\ Untouched' /\ Evaluated' /\ PendingPropagation'
      /\ \A e \in Device, p \in Pin : ToBeScanned(e, p) => ToBeScanned(e, p)'
  BY <1>2, <1>4, <1>5, QuietKeepsPins DEF pins, scan
<1>7. FlagsQueued'
  BY <1>2 DEF SolverInv, FlagsQueued, queues
<1>8. ChangesScheduled'
  <2>. SUFFICES ASSUME NEW p \in Driver, state_changed[p], Home[p] \in built
                PROVE  IF Home[p] = Owner[p]
                       THEN solve_this_tick_flag[Owner[p]] \/ ToBeScanned(Owner[p], p)'
                       ELSE \/ Queued(Owner[p]) \/ ToBeScanned(Home[p], p)'
                            \/ /\ Owner[p] \in Device /\ buffered_propagation[Owner[p]]
                               /\ phase'[Owner[p]] # "idle"
    BY <1>2 DEF ChangesScheduled, Queued, pins, queues, solves
  <2>1. p \in Pin /\ Home[p] \in Device
    BY DriverFacts
  <2>2. \A e \in Device : phase[e] # "idle" => phase'[e] # "idle"
    BY <1>4
  <2>. QED
    BY <1>6, <2>1, <2>2 DEF SolverInv, ChangesScheduled
<1>9. Clean'
  <2>1. CASE phase' = [phase EXCEPT ![d] = "return"] /\ <<"unstable", d>> \in errors'
    BY <2>1 DEF Clean, Unstable
  <2>2. CASE errors' = errors /\ phase'[d] \in {"subtick", "children"}
    BY <1>1, <1>2, <1>4, <2>2 DEF SolverInv, Clean, Finished, Unstable, queues, solves, Control, TypeOK
  <2>. QED
    BY <1>1, <1>3, <2>1, <2>2
<1>. QED
  BY <1>1, <1>6, <1>7, <1>8, <1>9 DEF SolverInv

\* The Device that enters Solve is going to scan all its in pins.
LEMMA EnterScans ==
  ASSUME TypeOK, NEW c \in Device, Enter(c), NEW p \in Pin, Owner[p] = c, Direction[p] \in {1, 3}
  PROVE  ToBeScanned(c, p)'
<1>1. /\ phase'[c] = "inputs" /\ current'[c] = c /\ pinAt'[c] = 1 /\ connAt'[c] = 0
  BY DEF Enter, TypeOK
<1>2. Scan(c)' = Inward[c] /\ Inward[c] \in Seq(Pin) /\ p \in Range(Inward[c])
  BY <1>1, PinAssumption DEF Scan
<1>3. PICK k \in 1 .. Len(Inward[c]) : Inward[c][k] = p
  BY <1>2 DEF Range
<1>4. Len(Inward[c]) \in Nat /\ 1 <= Len(Inward[c])
  BY <1>2, <1>3
<1>5. Scanning(c)'
  BY <1>1, <1>2, <1>4 DEF Scanning
<1>. QED
  BY <1>1, <1>2, <1>3, <1>5 DEF ToBeScanned

\* A Device enters Solve by itself, without a change of any pin.
LEMMA EnterKeepsData ==
  ASSUME SolverInv, NEW c \in Device, phase[c] = "idle", Enter(c), c \in built,
         UNCHANGED <<pins, queues, solve_this_tick, buffered_propagation, built, errors>>
  PROVE  /\ Untouched' /\ FlagsQueued' /\ Evaluated' /\ PendingPropagation'
         /\ ChangesScheduled' /\ Clean'
<1>1. /\ Control /\ TypeOK /\ ~Scanning(c)
      /\ phase \in [Device -> Phase] /\ current \in [Device -> Component]
      /\ pinAt \in [Device -> Nat \ {0}] /\ connAt \in [Device -> Nat]
      /\ solve_this_tick_flag \in [Device -> BOOLEAN]
  BY DEF SolverInv, Control, TypeOK, Scanning
<1>2. /\ phase'[c] = "inputs"
      /\ \A e \in Device \ {c} : /\ phase'[e] = phase[e] /\ current'[e] = current[e]
                                 /\ pinAt'[e] = pinAt[e] /\ connAt'[e] = connAt[e]
                                 /\ solve_this_tick_flag'[e] = solve_this_tick_flag[e]
  BY <1>1 DEF Enter
<1>3. /\ Untouched' /\ Evaluated' /\ PendingPropagation'
      /\ \A e \in Device, p \in Pin : ToBeScanned(e, p) => ToBeScanned(e, p)'
  BY <1>1, <1>2, QuietKeepsPins DEF pins
<1>4. FlagsQueued'
  BY DEF SolverInv, FlagsQueued, queues
<1>5. ChangesScheduled'
  <2>. SUFFICES ASSUME NEW p \in Driver, state_changed[p], Home[p] \in built
                PROVE  IF Home[p] = Owner[p]
                       THEN solve_this_tick_flag'[Owner[p]] \/ ToBeScanned(Owner[p], p)'
                       ELSE \/ Queued(Owner[p]) \/ ToBeScanned(Home[p], p)'
                            \/ /\ Owner[p] \in Device /\ buffered_propagation[Owner[p]]
                               /\ phase'[Owner[p]] # "idle"
    BY DEF ChangesScheduled, Queued, pins, queues
  <2>1. /\ p \in Pin /\ Home[p] \in Device
        /\ Home[p] = Owner[p] => Owner[p] \in Device /\ Direction[p] \in {1, 3}
    BY DriverFacts
  <2>2. \A e \in Device : phase[e] # "idle" => phase'[e] # "idle"
    BY <1>2
  <2>3. CASE Home[p] = Owner[p] /\ Owner[p] = c
    BY <1>1, <2>1, <2>3, EnterScans
  <2>4. CASE Home[p] = Owner[p] /\ Owner[p] # c
    BY <1>2, <1>3, <2>1, <2>4 DEF SolverInv, ChangesScheduled
  <2>5. CASE Home[p] # Owner[p]
    BY <1>3, <2>1, <2>2, <2>5 DEF SolverInv, ChangesScheduled
  <2>. QED
    BY <2>3, <2>4, <2>5
<1>6. Clean'
  <2>1. \A e \in built : Finished(e)' => Finished(e) /\ phase'[e] = phase[e]
    BY <1>1, <1>2 DEF Finished, TypeOK
  <2>. QED
    BY <2>1 DEF SolverInv, Clean, Unstable, queues
<1>. QED
  BY <1>3, <1>4, <1>5, <1>6

\* A queued child enters Solve.
LEMMA StartChildKeepsData ==
  ASSUME SolverInv, NEW d \in Device, StartChild(d)
  PROVE  SolverInv'
<1>1. /\ Control /\ Control' /\ solve_this_tick[d] \in Seq(Device \ {Sim}) /\ started[d] \in Nat
  BY StartChildKeepsControl DEF SolverInv, Control, TypeOK
<1>2. PICK c : c = solve_this_tick[d][started[d] + 1]
  OBVIOUS
<1>3. /\ phase[d] = "children" /\ started[d] < Len(solve_this_tick[d]) /\ Enter(c)
      /\ UNCHANGED <<pins, queues, solve_this_tick, buffered_propagation, built, errors>>
  BY <1>2 DEF StartChild
<1>4. c \in Device \ {Sim} /\ c \in Waiting(d) /\ c \in Range(solve_this_tick[d])
  <2>1. /\ started[d] + 1 \in 1 .. Len(solve_this_tick[d])
        /\ started[d] + 1 \in (started[d] + 1) .. Len(solve_this_tick[d])
    BY <1>1, <1>3
  <2>2. c \in Range(solve_this_tick[d]) /\ c \in Device \ {Sim}
    BY <1>1, <1>2, <2>1 DEF Range
  <2>3. Waiting(d) = {solve_this_tick[d][i] : i \in (started[d] + 1) .. Len(solve_this_tick[d])}
    BY <1>3 DEF Waiting
  <2>. QED
    BY <1>2, <2>1, <2>2, <2>3
<1>5. Parent[c] = d
  BY <1>1, <1>4 DEF Control, Homes, ChildrenOf
<1>6. phase[c] = "idle" /\ c \in built
  <2>1. solve_this_tick_flag[c]
    BY <1>1, <1>4, <1>5 DEF Control, SolveFlags
  <2>2. phase[c] = "idle"
    BY <1>1, <1>4, <2>1 DEF Control, BusyClear
  <2>3. d \in built /\ d \in Ancestors[c]
    BY <1>1, <1>3, <1>4, <1>5, AncestorFacts DEF Control, Construction
  <2>. QED
    BY <1>1, <1>4, <2>2, <2>3 DEF Control, Construction
<1>. QED
  BY <1>1, <1>3, <1>4, <1>6, EnterKeepsData DEF SolverInv

\* A Solve of the top level.
LEMMA SolveTopKeepsData ==
  ASSUME SolverInv, SolveTop
  PROVE  SolverInv'
<1>1. Control'
  BY SolveTopKeepsControl DEF SolverInv
<1>2. /\ Sim \in Device /\ phase[Sim] = "idle" /\ Enter(Sim) /\ Sim \in built
      /\ UNCHANGED <<pins, queues, solve_this_tick, buffered_propagation, built, errors>>
  BY TreeAssumption DEF SolveTop, AllIdle
<1>. QED
  BY <1>1, <1>2, EnterKeepsData DEF SolverInv

\* All children have returned.
LEMMA EndChildrenKeepsData ==
  ASSUME SolverInv, NEW d \in Device, EndChildren(d)
  PROVE  SolverInv'
<1>1. /\ Control /\ Control' /\ phase \in [Device -> Phase] /\ built \subseteq Device
      /\ solve_this_tick \in [Device -> Seq(Device \ {Sim})]
  BY EndChildrenKeepsControl DEF SolverInv, Control, TypeOK
<1>2. /\ phase[d] = "children"
      /\ solve_this_tick' = [solve_this_tick EXCEPT ![d] = <<>>]
      /\ phase' = [phase EXCEPT ![d] = IF propagate_next_tick[d] = <<>> THEN "return" ELSE "subtick"]
      /\ UNCHANGED <<pins, queues, solve_this_tick_flag, buffered_propagation, scan, built, errors>>
  BY DEF EndChildren
<1>3. /\ phase'[d] \in {"return", "subtick"} /\ solve_this_tick'[d] = <<>>
      /\ phase'[d] = "return" => propagate_next_tick[d] = <<>>
      /\ \A e \in Device \ {d} : phase'[e] = phase[e] /\ solve_this_tick'[e] = solve_this_tick[e]
  BY <1>1, <1>2
<1>4. /\ Untouched' /\ Evaluated' /\ PendingPropagation'
      /\ \A e \in Device, p \in Pin : ToBeScanned(e, p) => ToBeScanned(e, p)'
  <2>1. ~Scanning(d)
    BY <1>2 DEF Scanning
  <2>. QED
    BY <1>2, <1>3, <2>1, QuietKeepsPins DEF pins, scan
<1>5. FlagsQueued'
  BY <1>2 DEF SolverInv, FlagsQueued, queues
<1>6. ChangesScheduled'
  <2>. SUFFICES ASSUME NEW p \in Driver, state_changed[p], Home[p] \in built
                PROVE  IF Home[p] = Owner[p]
                       THEN solve_this_tick_flag[Owner[p]] \/ ToBeScanned(Owner[p], p)'
                       ELSE \/ Queued(Owner[p]) \/ ToBeScanned(Home[p], p)'
                            \/ /\ Owner[p] \in Device /\ buffered_propagation[Owner[p]]
                               /\ phase'[Owner[p]] # "idle"
    BY <1>2 DEF ChangesScheduled, Queued, pins, queues
  <2>1. p \in Pin /\ Home[p] \in Device
    BY DriverFacts
  <2>2. \A e \in Device : phase[e] # "idle" => phase'[e] # "idle"
    BY <1>3
  <2>. QED
    BY <1>4, <2>1, <2>2 DEF SolverInv, ChangesScheduled
<1>7. Clean'
  <2>. SUFFICES ASSUME ~Unstable, NEW e \in built, Finished(e)'
                PROVE  /\ propagate_next_tick[e] = <<>> /\ solve_this_tick'[e] = <<>>
                       /\ phase'[e] = "idle" => ~buffered_propagation[e]
    BY <1>2 DEF Clean, Unstable, queues
  <2>1. CASE e = d
    BY <1>3, <2>1 DEF Finished
  <2>2. CASE e # d
    BY <1>1, <1>3, <2>2 DEF SolverInv, Clean, Finished
  <2>. QED
    BY <2>1, <2>2
<1>. QED
  BY <1>1, <1>4, <1>5, <1>6, <1>7 DEF SolverInv

\* Leaving Solve hands a buffered change to the parent.
LEMMA ReturnKeepsData ==
  ASSUME SolverInv, NEW d \in Device, Return(d)
  PROVE  SolverInv'
<1>. DEFINE h == Parent[d]
            queues_itself == d # Sim /\ buffered_propagation[d]
<1>1. /\ Control /\ Control' /\ phase \in [Device -> Phase] /\ built \subseteq Device
      /\ buffered_propagation \in [Device -> BOOLEAN]
      /\ propagate_next_tick \in [Device -> Seq(Component \ {Sim})]
  BY ReturnKeepsControl DEF SolverInv, Control, TypeOK
<1>2. /\ phase[d] = "return" /\ phase' = [phase EXCEPT ![d] = "idle"]
      /\ UNCHANGED <<pins, next_tick_flag, propagate_this_tick, this_tick_flag, solve_this_tick,
                     solve_this_tick_flag, scan, built, errors>>
  BY DEF Return
<1>3. /\ phase'[d] = "idle" /\ \A e \in Device \ {d} : phase'[e] = phase[e]
  BY <1>1, <1>2
<1>4. CASE queues_itself
  <2>1. /\ buffered_propagation' = [buffered_propagation EXCEPT ![d] = FALSE]
        /\ propagate_next_tick' = [propagate_next_tick EXCEPT ![h] = Append(@, d)]
    BY <1>4 DEF Return
  <2>2. h \in Device /\ d \in Component \ {Sim} /\ h \in Ancestors[d]
    BY <1>4, AncestorFacts DEF Component
  <2>. HIDE DEF h
  <2>3. /\ propagate_next_tick'[h] = Append(propagate_next_tick[h], d)
        /\ \A e \in Device \ {h} : propagate_next_tick'[e] = propagate_next_tick[e]
        /\ ~buffered_propagation'[d]
        /\ \A e \in Device \ {d} : buffered_propagation'[e] = buffered_propagation[e]
    BY <1>1, <2>1, <2>2
  <2>4. Range(propagate_next_tick'[h]) = Range(propagate_next_tick[h]) \cup {d}
    <3>1. propagate_next_tick[h] \in Seq(Component \ {Sim})
      BY <1>1, <2>2
    <3>. QED
      BY <2>2, <2>3, <3>1, AppendElements
  <2>5. /\ Range(propagate_next_tick[h]) \subseteq Range(propagate_next_tick'[h])
        /\ \A c \in Component \ {Sim} : Parent[c] \in Device
        /\ \A e \in Device : Range(propagate_next_tick[e]) \subseteq Range(propagate_next_tick'[e])
    BY <2>3, <2>4, TreeAssumption
  <2>6. /\ \A e \in Device \ {d} : /\ phase'[e] = phase[e] /\ current'[e] = current[e]
                                   /\ pinAt'[e] = pinAt[e] /\ connAt'[e] = connAt[e]
        /\ ~Scanning(d)
    BY <1>2, <1>3 DEF scan, Scanning
  <2>7. /\ Untouched' /\ Evaluated' /\ PendingPropagation'
        /\ \A e \in Device, p \in Pin : ToBeScanned(e, p) => ToBeScanned(e, p)'
    BY <1>2, <2>6, QuietKeepsPins DEF pins
  <2>8. FlagsQueued'
    BY <1>2, <2>5 DEF SolverInv, FlagsQueued
  <2>9. ChangesScheduled'
    <3>. SUFFICES ASSUME NEW p \in Driver, state_changed[p], Home[p] \in built
                  PROVE  IF Home[p] = Owner[p]
                         THEN solve_this_tick_flag[Owner[p]] \/ ToBeScanned(Owner[p], p)'
                         ELSE \/ Queued(Owner[p])' \/ ToBeScanned(Home[p], p)'
                              \/ /\ Owner[p] \in Device /\ buffered_propagation'[Owner[p]]
                                 /\ phase'[Owner[p]] # "idle"
      BY <1>2 DEF ChangesScheduled, pins
    <3>1. /\ p \in Pin /\ Home[p] \in Device
          /\ Home[p] # Owner[p] => Owner[p] \in Component \ {Sim}
      BY DriverFacts
    <3>2. \A c \in Component \ {Sim} : Queued(c) => Queued(c)'
      BY <1>2, <2>5 DEF Queued
    <3>3. Queued(d)'
      BY <2>4 DEF Queued, h
    <3>4. \A e \in Device \ {d} : phase[e] # "idle" /\ buffered_propagation[e] =>
                                    phase'[e] # "idle" /\ buffered_propagation'[e]
      BY <1>3, <2>3
    <3>. QED
      BY <2>7, <3>1, <3>2, <3>3, <3>4 DEF SolverInv, ChangesScheduled
  <2>10. Clean'
    <3>. SUFFICES ASSUME ~Unstable, NEW e \in built, Finished(e)'
                  PROVE  /\ propagate_next_tick'[e] = <<>> /\ solve_this_tick[e] = <<>>
                         /\ phase'[e] = "idle" => ~buffered_propagation'[e]
      BY <1>2 DEF Clean, Unstable
    <3>1. e # h
      <4>1. h \in built => phase[h] = "children"
        BY <1>1, <1>2, <2>2 DEF Control, CallStack
      <4>. QED
        BY <1>3, <2>2, <4>1, AncestorFacts DEF Finished
    <3>2. CASE e = d
      BY <1>1, <1>2, <2>3, <3>1, <3>2 DEF SolverInv, Clean, Finished
    <3>3. CASE e # d
      BY <1>1, <1>3, <2>3, <3>1, <3>3 DEF SolverInv, Clean, Finished
    <3>. QED
      BY <3>2, <3>3
  <2>. QED
    BY <1>1, <2>7, <2>8, <2>9, <2>10 DEF SolverInv
<1>5. CASE ~queues_itself
  <2>1. UNCHANGED <<buffered_propagation, propagate_next_tick>>
    BY <1>5 DEF Return
  <2>2. /\ \A e \in Device \ {d} : /\ phase'[e] = phase[e] /\ current'[e] = current[e]
                                   /\ pinAt'[e] = pinAt[e] /\ connAt'[e] = connAt[e]
        /\ ~Scanning(d)
    BY <1>2, <1>3 DEF scan, Scanning
  <2>3. /\ Untouched' /\ Evaluated' /\ PendingPropagation'
        /\ \A e \in Device, p \in Pin : ToBeScanned(e, p) => ToBeScanned(e, p)'
    BY <1>2, <2>2, QuietKeepsPins DEF pins
  <2>4. FlagsQueued'
    BY <1>2, <2>1 DEF SolverInv, FlagsQueued
  <2>5. ChangesScheduled'
    <3>. SUFFICES ASSUME NEW p \in Driver, state_changed[p], Home[p] \in built
                  PROVE  IF Home[p] = Owner[p]
                         THEN solve_this_tick_flag[Owner[p]] \/ ToBeScanned(Owner[p], p)'
                         ELSE \/ Queued(Owner[p]) \/ ToBeScanned(Home[p], p)'
                              \/ /\ Owner[p] \in Device /\ buffered_propagation[Owner[p]]
                                 /\ phase'[Owner[p]] # "idle"
      BY <1>2, <2>1 DEF ChangesScheduled, Queued, pins
    <3>1. /\ p \in Pin /\ Home[p] \in Device
          /\ Home[p] # Owner[p] => Owner[p] \in Component \ {Sim}
      BY DriverFacts
    <3>2. Home[p] # Owner[p] /\ Owner[p] = d => ~buffered_propagation[Owner[p]]
      BY <1>5, <3>1
    <3>. QED
      BY <1>3, <2>3, <3>1, <3>2 DEF SolverInv, ChangesScheduled
  <2>6. Clean'
    <3>. SUFFICES ASSUME ~Unstable, NEW e \in built, Finished(e)'
                  PROVE  /\ propagate_next_tick[e] = <<>> /\ solve_this_tick[e] = <<>>
                         /\ phase'[e] = "idle" => ~buffered_propagation[e]
      BY <1>2, <2>1 DEF Clean, Unstable
    <3>1. CASE e = d
      BY <1>2, <1>3, <1>5, <3>1 DEF SolverInv, Clean, Finished
    <3>2. CASE e # d
      BY <1>1, <1>3, <3>2 DEF SolverInv, Clean, Finished
    <3>. QED
      BY <3>1, <3>2
  <2>. QED
    BY <1>1, <2>3, <2>4, <2>5, <2>6 DEF SolverInv
<1>. QED
  BY <1>4, <1>5

\* What the end of a Device's construction does to the pins: the outputs of the
\* Gates in it are evaluated, the outputs of all its children marked.
LEMMA StabilisePins ==
  ASSUME TypeOK, NEW d \in Device, Stabilise(d)
  PROVE  /\ \A p \in Pin : ~(Owner[p] \in Gate /\ Parent[Owner[p]] = d /\ Direction[p] = 2) =>
              state'[p] = state[p]
         /\ \A g \in Gate : Parent[g] = d => state'[Out(g)] = GateOutput(g, state)
         /\ \A p \in Pin : state_changed[p] => state_changed'[p]
         /\ \A p \in Pin : Owner[p] # Sim /\ Parent[Owner[p]] = d /\ Direction[p] = 2 =>
              state_changed'[p]
         /\ \A p \in Pin : state_changed'[p] /\ ~state_changed[p] =>
              Owner[p] # Sim /\ Parent[Owner[p]] = d /\ Direction[p] = 2
<1>1. state' = [p \in Pin |-> IF Owner[p] \in Gate /\ Parent[Owner[p]] = d /\ Direction[p] = 2
                              THEN GateOutput(Owner[p], state) ELSE state[p]]
  BY DEF Stabilise
<1>2. state_changed' = [p \in Pin |-> \/ Owner[p] # Sim /\ Parent[Owner[p]] = d /\ Direction[p] = 2
                                      \/ state_changed[p]]
  BY DEF Stabilise
<1>3. \A p \in Pin : ~(Owner[p] \in Gate /\ Parent[Owner[p]] = d /\ Direction[p] = 2) =>
        state'[p] = state[p]
  BY <1>1
<1>4. \A g \in Gate : Parent[g] = d => state'[Out(g)] = GateOutput(g, state)
  BY <1>1, OutType
<1>5. \A p \in Pin : state_changed'[p] <=>
        \/ Owner[p] # Sim /\ Parent[Owner[p]] = d /\ Direction[p] = 2
        \/ state_changed[p]
  BY <1>2
<1>6. /\ \A p \in Pin : state_changed[p] => state_changed'[p]
      /\ \A p \in Pin : Owner[p] # Sim /\ Parent[Owner[p]] = d /\ Direction[p] = 2 =>
           state_changed'[p]
      /\ \A p \in Pin : state_changed'[p] /\ ~state_changed[p] =>
           Owner[p] # Sim /\ Parent[Owner[p]] = d /\ Direction[p] = 2
  BY <1>5, Zenon
<1>. QED
  BY <1>3, <1>4, <1>6, Zenon

\* The end of a Device's construction.
LEMMA StabiliseKeepsData ==
  ASSUME SolverInv, NEW d \in Device, Stabilise(d)
  PROVE  SolverInv'
<1>1. /\ Control /\ Control' /\ TypeOK
      /\ propagate_next_tick \in [Device -> Seq(Component \ {Sim})]
      /\ solve_this_tick_flag \in [Device -> BOOLEAN]
      /\ phase \in [Device -> Phase] /\ built \subseteq Device
  BY StabiliseKeepsControl DEF SolverInv, Control, TypeOK
<1>2. /\ AllIdle /\ d \notin built /\ built' = built \cup {d} /\ Enter(d)
      /\ propagate_next_tick' = [propagate_next_tick EXCEPT ![d] = @ \o Children[d]]
      /\ UNCHANGED <<next_tick_flag, propagate_this_tick, this_tick_flag, solve_this_tick,
                     buffered_propagation, started, errors>>
  BY DEF Stabilise
<1>3. /\ phase'[d] = "inputs"
      /\ \A e \in Device \ {d} : /\ phase'[e] = phase[e]
                                 /\ solve_this_tick_flag'[e] = solve_this_tick_flag[e]
                                 /\ propagate_next_tick'[e] = propagate_next_tick[e]
  BY <1>1, <1>2 DEF Enter
<1>4. \A e \in Device, p \in Pin : ~ToBeScanned(e, p) /\ ~Driving(e, p)
  <2>1. \A e \in Device : ~Scanning(e)
    BY <1>2 DEF AllIdle, Scanning
  <2>. QED
    BY <2>1, NotScanning
<1>5. Range(propagate_next_tick'[d]) = Range(propagate_next_tick[d]) \cup ChildrenOf(d)
  <2>1. /\ propagate_next_tick[d] \in Seq(Component \ {Sim})
        /\ Children[d] \in Seq(Component \ {Sim})
    BY <1>1, TreeAssumption
  <2>2. Range(propagate_next_tick[d] \o Children[d]) =
          Range(propagate_next_tick[d]) \cup Range(Children[d])
    BY <2>1, ConcatElements
  <2>3. Range(Children[d]) = ChildrenOf(d)
    BY TreeAssumption DEF ChildrenOf
  <2>4. propagate_next_tick'[d] = propagate_next_tick[d] \o Children[d]
    BY <1>1, <1>2
  <2>. QED
    BY <2>2, <2>3, <2>4
<1>6. /\ \A c \in Component \ {Sim} : Parent[c] \in Device
      /\ \A e \in Device : Range(propagate_next_tick[e]) \subseteq Range(propagate_next_tick'[e])
  BY <1>3, <1>5, TreeAssumption
<1>7. /\ \A p \in Pin : ~(Owner[p] \in Gate /\ Parent[Owner[p]] = d /\ Direction[p] = 2) =>
           state'[p] = state[p]
      /\ \A g \in Gate : Parent[g] = d => state'[Out(g)] = GateOutput(g, state)
      /\ \A p \in Pin : state_changed[p] => state_changed'[p]
      /\ \A p \in Pin : Owner[p] # Sim /\ Parent[Owner[p]] = d /\ Direction[p] = 2 =>
           state_changed'[p]
      /\ \A p \in Pin : state_changed'[p] /\ ~state_changed[p] =>
           Owner[p] # Sim /\ Parent[Owner[p]] = d /\ Direction[p] = 2
  BY <1>1, StabilisePins, Zenon
<1>8. Untouched'
  <2>. SUFFICES ASSUME NEW p \in Pin, Owner[p] \in Device \ built', Direction[p] \in {1, 3}
                PROVE  state_changed'[p]
    BY DEF Untouched
  <2>1. Owner[p] \in Device \ built
    BY <1>2
  <2>2. state_changed[p]
    BY <2>1 DEF SolverInv, Untouched
  <2>. QED
    BY <1>7, <2>2
<1>9. FlagsQueued'
  BY <1>2, <1>6 DEF SolverInv, FlagsQueued
<1>10. Evaluated'
  <2>. SUFFICES ASSUME NEW g \in Gate, Parent[g] \in built'
                PROVE  state'[Out(g)] = GateOutput(g, state')
    BY DEF Evaluated
  <2>1. GateOutput(g, state') = GateOutput(g, state)
    <3>1. \A p \in Inputs[g] : state'[p] = state[p]
      BY <1>7, InputFacts
    <3>. QED
      BY <3>1, OutputOfInputs
  <2>2. CASE Parent[g] = d
    BY <1>7, <2>1, <2>2
  <2>3. CASE Parent[g] # d
    <3>1. state'[Out(g)] = state[Out(g)]
      BY <1>7, <2>3, OutType
    <3>2. Parent[g] \in built
      BY <1>2, <2>3
    <3>. QED
      BY <2>1, <3>1, <3>2 DEF SolverInv, Evaluated
  <2>. QED
    BY <2>2, <2>3
<1>11. PendingPropagation'
  <2>. SUFFICES ASSUME NEW p \in Driver, Home[p] \in built', NEW i \in DOMAIN Targets[p]
                PROVE  Agree(p, Targets[p][i])' \/ state_changed'[p]
    BY DEF PendingPropagation
  <2>1. /\ p \in Pin
        /\ \/ Direction[p] \in {1, 3} /\ Owner[p] \in Device /\ Home[p] = Owner[p]
           \/ /\ Direction[p] = 2 /\ Owner[p] \in Component \ {Sim} /\ Home[p] = Parent[Owner[p]]
    BY DriverFacts
  <2>2. CASE Home[p] = d
    <3>1. CASE Direction[p] \in {1, 3} /\ Owner[p] = d
      <4>1. state_changed[p]
        BY <1>2, <2>1, <3>1 DEF SolverInv, Untouched
      <4>. QED
        BY <1>7, <2>1, <4>1
    <3>2. CASE Direction[p] = 2 /\ Owner[p] # Sim /\ Parent[Owner[p]] = d
      BY <1>7, <2>1, <3>2
    <3>. QED
      BY <2>1, <2>2, <3>1, <3>2
  <2>3. CASE Home[p] # d
    <3>1. Home[p] \in built /\ Home[p] \in Device
      BY <1>2, <2>3, DriverFacts
    <3>2. state'[p] = state[p]
      BY <1>7, <2>1, <2>3
    <3>3. state'[Targets[p][i]] = state[Targets[p][i]]
      BY <1>7, TargetFacts
    <3>4. Agree(p, Targets[p][i]) => Agree(p, Targets[p][i])'
      BY <1>2, <3>2, <3>3 DEF Agree
    <3>5. Agree(p, Targets[p][i]) \/ state_changed[p]
      BY <1>4, <2>1, <3>1 DEF SolverInv, PendingPropagation
    <3>. QED
      BY <1>7, <2>1, <3>4, <3>5
  <2>. QED
    BY <2>2, <2>3
<1>12. ChangesScheduled'
  <2>. SUFFICES ASSUME NEW p \in Driver, state_changed'[p], Home[p] \in built'
                PROVE  IF Home[p] = Owner[p]
                       THEN solve_this_tick_flag'[Owner[p]] \/ ToBeScanned(Owner[p], p)'
                       ELSE Queued(Owner[p])'
    BY DEF ChangesScheduled
  <2>1. /\ p \in Pin /\ Home[p] \in Device
        /\ \/ Direction[p] \in {1, 3} /\ Owner[p] \in Device /\ Home[p] = Owner[p]
           \/ /\ Direction[p] = 2 /\ Owner[p] \in Component \ {Sim}
              /\ Home[p] = Parent[Owner[p]] /\ Home[p] # Owner[p]
    BY DriverFacts
  <2>2. CASE Home[p] = d /\ Owner[p] = d
    <3>1. ToBeScanned(d, p)'
      BY <1>1, <1>2, <2>1, <2>2, EnterScans
    <3>. QED
      BY <2>2, <3>1
  <2>3. CASE Home[p] = d /\ Owner[p] # d
    BY <1>5, <2>1, <2>3 DEF Queued, ChildrenOf
  <2>4. CASE Home[p] # d
    <3>1. Home[p] \in built
      BY <1>2, <2>4
    <3>2. state_changed[p]
      BY <1>7, <2>1, <2>4
    <3>3. Owner[p] \in Device => phase[Owner[p]] = "idle"
      BY <1>2 DEF AllIdle
    <3>4. IF Home[p] = Owner[p] THEN solve_this_tick_flag[Owner[p]] ELSE Queued(Owner[p])
      BY <1>4, <2>1, <3>1, <3>2, <3>3 DEF SolverInv, ChangesScheduled
    <3>5. \A c \in Component \ {Sim} : Queued(c) => Queued(c)'
      BY <1>2, <1>6 DEF Queued
    <3>. QED
      BY <1>3, <2>1, <2>4, <3>4, <3>5
  <2>. QED
    BY <2>2, <2>3, <2>4
<1>13. Clean'
  <2>. SUFFICES ASSUME ~Unstable, NEW e \in built', Finished(e)'
                PROVE  /\ propagate_next_tick'[e] = <<>> /\ solve_this_tick[e] = <<>>
                       /\ phase'[e] = "idle" => ~buffered_propagation[e]
    BY <1>2 DEF Clean, Unstable
  <2>1. e # d
    BY <1>3 DEF Finished
  <2>2. e \in built /\ e \in Device
    BY <1>1, <1>2, <2>1
  <2>3. Finished(e) /\ phase'[e] = phase[e] /\ propagate_next_tick'[e] = propagate_next_tick[e]
    BY <1>3, <2>1, <2>2 DEF Finished
  <2>. QED
    BY <2>2, <2>3 DEF SolverInv, Clean
<1>. QED
  BY <1>1, <1>8, <1>9, <1>10, <1>11, <1>12, <1>13 DEF SolverInv

-----------------------------------------------------------------------------
(* The theorems.                                                           *)

\* Nothing is built: only the marks of the untouched Devices matter.
LEMMA InitSolverInv == Init => SolverInv
<1>. SUFFICES ASSUME Init PROVE SolverInv
  OBVIOUS
<1>1. /\ built = {}
      /\ \A c \in Component : ~next_tick_flag[c] /\ ~this_tick_flag[c]
      /\ state_changed = [p \in Pin |-> Owner[p] \in Device /\ Direction[p] # 4]
  BY DEF Init
<1>2. Untouched
  <2>. SUFFICES ASSUME NEW p \in Pin, Owner[p] \in Device, Direction[p] \in {1, 3}
                PROVE  state_changed[p]
    BY DEF Untouched
  <2>1. Direction[p] # 4
    OBVIOUS
  <2>2. state_changed[p] = (Owner[p] \in Device /\ Direction[p] # 4)
    BY <1>1
  <2>. QED
    BY <2>1, <2>2
<1>3. FlagsQueued
  BY <1>1 DEF FlagsQueued
<1>4. Evaluated /\ PendingPropagation /\ ChangesScheduled /\ Clean
  BY <1>1 DEF Evaluated, PendingPropagation, ChangesScheduled, Clean
<1>. QED
  BY <1>2, <1>3, <1>4, InitControl DEF SolverInv

\* Every step of the solver keeps the invariant.
LEMMA NextSolverInv ==
  ASSUME SolverInv, [Next]_vars
  PROVE  SolverInv'
<1>1. ASSUME NEW d \in Device, SolveStep(d) PROVE SolverInv'
  <2>1. CASE SkipPin(d) \/ TakePin(d) \/ LeavePin(d)
    BY <2>1, ScanKeepsData
  <2>2. CASE Deliver(d)
    BY <2>2, DeliverKeepsData
  <2>3. CASE BeginSubTick(d)
    BY <2>3, BeginSubTickKeepsData
  <2>4. CASE BeginPropagate(d)
    BY <2>4, BeginPropagateKeepsData
  <2>5. CASE Repeat(d) \/ Stall(d) \/ Quiesce(d)
    BY <2>5, AfterSubTickKeepsData
  <2>6. CASE StartChild(d)
    BY <2>6, StartChildKeepsData
  <2>7. CASE EndChildren(d)
    BY <2>7, EndChildrenKeepsData
  <2>8. CASE Return(d)
    BY <2>8, ReturnKeepsData
  <2>. QED
    BY <1>1, <2>1, <2>2, <2>3, <2>4, <2>5, <2>6, <2>7, <2>8 DEF SolveStep
<1>2. ASSUME NEW d \in Device, Stabilise(d) PROVE SolverInv'
  BY <1>2, StabiliseKeepsData
<1>3. ASSUME NEW q \in External, NEW v \in BOOLEAN, Drive(q, v) PROVE SolverInv'
  BY <1>3, DriveKeepsData
<1>4. CASE SolveTop
  BY <1>4, SolveTopKeepsData
<1>5. CASE UNCHANGED vars
  <2>1. Control'
    BY NextControl DEF SolverInv
  <2>2. UNCHANGED <<pins, queues, solves, scan, phase, built, errors>>
    BY <1>5 DEF vars
  <2>3. Untouched' /\ FlagsQueued' /\ Evaluated' /\ Clean'
    BY <2>2 DEF SolverInv, Untouched, FlagsQueued, Evaluated, Clean, Finished, Unstable,
                pins, queues, solves
  <2>4. PendingPropagation'
    BY <2>2 DEF SolverInv, PendingPropagation, Agree, Driving, ScanPin, Scan, Scanning,
                pins, scan
  <2>5. ChangesScheduled'
    BY <2>2 DEF SolverInv, ChangesScheduled, ToBeScanned, Queued, Scan, Scanning,
                pins, queues, solves, scan
  <2>. QED
    BY <2>1, <2>3, <2>4, <2>5 DEF SolverInv
<1>. QED
  BY <1>1, <1>2, <1>3, <1>4, <1>5 DEF Next

\* The invariant holds in every reachable state.
THEOREM SolverInvariant == Spec => []SolverInv
BY InitSolverInv, NextSolverInv, PTL DEF Spec

\* No change is lost between the two ends of a connection: where they disagree
\* the propagation is still to come (Component::Set, Propagate, PropagateInputs).
THEOREM NoChangeLost == Spec => []PendingPropagation
<1>1. SolverInv => PendingPropagation
  BY DEF SolverInv
<1>. QED
  BY <1>1, SolverInvariant, PTL

\* A pin that is marked as changed is in line for a scan that will find it
\* (QueueToPropagate, QueueToSolve and the buffered propagation of a Device).
THEOREM ChangesAreScheduled == Spec => []ChangesScheduled
<1>1. SolverInv => ChangesScheduled
  BY DEF SolverInv
<1>. QED
  BY <1>1, SolverInvariant, PTL

\* A Device below the top that is out of Solve has empty queues.
LEMMA CleanWhenIdle == SolverInv => NothingLeftBehind
<1>. SUFFICES ASSUME SolverInv, ~Unstable, NEW d \in built \ {Sim}, phase[d] = "idle"
              PROVE  /\ propagate_next_tick[d] = <<>> /\ propagate_this_tick[d] = <<>>
                     /\ solve_this_tick[d] = <<>> /\ ~buffered_propagation[d]
  BY DEF NothingLeftBehind
<1>1. d \in Device
  BY DEF SolverInv, Control, TypeOK
<1>2. propagate_this_tick[d] = <<>>
  BY <1>1 DEF SolverInv, Control, Loops
<1>3. Finished(d)
  BY DEF Finished
<1>. QED
  BY <1>2, <1>3 DEF SolverInv, Clean

\* Leaving Solve without an error, a Device leaves nothing queued inside.
THEOREM NothingIsLeftBehind == Spec => []NothingLeftBehind
BY CleanWhenIdle, SolverInvariant, PTL

\* When the top level returns every queue of every Device is empty, so by
\* ChangesScheduled no driver is marked, and by PendingPropagation all agree.
LEMMA SettledAtReturn == SolverInv => SettledWhenSampled
<1>. SUFFICES ASSUME SolverInv, phase[Sim] = "return", ~Unstable
              PROVE  /\ \A p \in Driver : \A q \in Range(Targets[p]) : Agree(p, q)
                     /\ \A g \in Gate : state[Out(g)] = GateOutput(g, state)
  BY DEF SettledWhenSampled
<1>1. /\ Control /\ TypeOK /\ Sim \in Device
      /\ phase \in [Device -> Phase]
  BY TreeAssumption DEF SolverInv, Control, TypeOK
<1>2. Sim \in built
  BY <1>1 DEF Control, Construction
<1>3. \A d \in Device \ {Sim} : d \in built /\ phase[d] = "idle"
  <2>. SUFFICES ASSUME NEW d \in Device \ {Sim} PROVE d \in built /\ phase[d] = "idle"
    OBVIOUS
  <2>1. Sim \in Ancestors[d]
    BY TreeAssumption
  <2>. QED
    BY <1>1, <1>2, <2>1 DEF Control, Construction, CallStack
<1>4. \A d \in Device : d \in built /\ Finished(d) /\ phase[d] \in {"idle", "return"}
  BY <1>2, <1>3 DEF Finished
<1>5. \A d \in Device : /\ propagate_next_tick[d] = <<>> /\ solve_this_tick[d] = <<>>
                        /\ propagate_this_tick[d] = <<>>
  BY <1>1, <1>4 DEF SolverInv, Clean, Control, Loops
<1>6. \A d \in Device, p \in Pin : ~ToBeScanned(d, p) /\ ~Driving(d, p)
  <2>1. \A d \in Device : ~Scanning(d)
    BY <1>4 DEF Scanning
  <2>. QED
    BY <2>1, NotScanning
<1>7. \A d \in Device : ~solve_this_tick_flag[d]
  <2>. SUFFICES ASSUME NEW d \in Device \ {Sim} PROVE ~solve_this_tick_flag[d]
    BY <1>1 DEF Control, BusyClear
  <2>1. Parent[d] \in Device
    BY AncestorFacts
  <2>2. Waiting(Parent[d]) = {}
    BY <1>4, <1>5, <2>1 DEF Waiting
  <2>. QED
    BY <1>1, <2>2 DEF Control, SolveFlags
<1>8. \A c \in Component \ {Sim} : ~Queued(c)
  <2>1. \A c \in Component \ {Sim} : Parent[c] \in Device
    BY TreeAssumption
  <2>2. Range(<<>>) = {}
    BY DEF Range
  <2>. QED
    BY <1>5, <2>1, <2>2 DEF Queued
<1>9. ASSUME NEW p \in Driver PROVE ~state_changed[p] /\ Home[p] \in built
  <2>1. /\ p \in Pin /\ Home[p] \in Device /\ Home[p] \in built
        /\ Home[p] = Owner[p] => Owner[p] \in Device
        /\ Home[p] # Owner[p] => Owner[p] \in Component \ {Sim}
    BY <1>4, DriverFacts
  <2>2. CASE Home[p] = Owner[p]
    BY <1>6, <1>7, <2>1, <2>2 DEF SolverInv, ChangesScheduled
  <2>3. CASE Home[p] # Owner[p]
    BY <1>3, <1>6, <1>8, <2>1, <2>3 DEF SolverInv, ChangesScheduled
  <2>. QED
    BY <2>1, <2>2, <2>3
<1>10. ASSUME NEW p \in Driver, NEW q \in Range(Targets[p]) PROVE Agree(p, q)
  <2>1. PICK i \in DOMAIN Targets[p] : Targets[p][i] = q
    BY DEF Range
  <2>2. p \in Pin /\ Home[p] \in Device
    BY DriverFacts
  <2>. QED
    BY <1>6, <1>9, <2>1, <2>2 DEF SolverInv, PendingPropagation
<1>11. \A g \in Gate : state[Out(g)] = GateOutput(g, state)
  <2>1. \A g \in Gate : Parent[g] \in Device
    BY TreeAssumption DEF Component
  <2>. QED
    BY <1>4, <2>1 DEF SolverInv, Evaluated
<1>. QED
  BY <1>10, <1>11

\* What the probes sample is a settled circuit, or an error has been logged
\* (Simulation::Run: Solve, then TriggerProbes).
THEOREM SettledIsSampled == Spec => []SettledWhenSampled
BY SettledAtReturn, SolverInvariant, PTL

=============================================================================
