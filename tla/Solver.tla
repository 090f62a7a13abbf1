------------------------------- MODULE Solver -------------------------------
(***************************************************************************)
(* The event-driven solver of sim_src/core: a tree of Devices with logic   *)
(* Gates at its leaves, whose pin changes are propagated sub-tick by       *)
(* sub-tick within a Device and tree level by tree level between Devices.  *)
(*                                                                         *)
(* Every call of Component::Set is a step of its own, so the steps of      *)
(* Devices that are solved in threads of their own interleave at the       *)
(* granularity of one pin.  The circuit is a constant: building and        *)
(* purging it is not part of this module.                                  *)
(***************************************************************************)
EXTENDS Naturals, Sequences, FiniteSets, Functions

CONSTANTS
  Device,           \* every Device, the top-level Simulation included
  Gate,             \* every Gate
  Sim,              \* the top-level Simulation
  Parent,           \* m_parent_device_pointer of every other Component
  Ancestors,        \* the Devices strictly above a Device
  Children,         \* m_components: the child Components in order
  Pin,              \* every pin of every Component
  Owner, Direction, \* the Component a pin belongs to; pin.direction
  Inward,           \* of a Device: its pins of direction 1 and 3, in m_pins order
  Outward,          \* of a Component: its pins of direction 2, in m_pins order
  Targets,          \* m_ports / m_connections: the pins a pin drives, in order
  Operator,         \* Gate::m_operator_function_pointer
  DefaultHigh,      \* Device pins that SetPin makes TRUE
  Seeds,            \* the random Gate inputs considered: sets of high pins
  External,         \* pins set from outside: by a Clock or by ChildSet
  MaxPropagations,  \* m_max_propagations of each Device
  Threaded,         \* Devices with m_solve_children_in_own_threads
  Workers           \* threads of the pool

Component == Device \cup Gate
Inputs == [g \in Gate |-> {p \in Pin : Owner[p] = g /\ Direction[p] = 1}]
Out(g) == Outward[g][1]

\* The pins that drive others: all but Gate inputs, hidden outputs and the
\* (unconnectable) outputs of the Simulation.
Driver == {p \in Pin : \/ Owner[p] \in Device /\ Direction[p] \in {1, 3}
                       \/ Owner[p] # Sim /\ Direction[p] = 2}

\* The Device in whose circuit the connections of a driver lie.
Home == [p \in Driver |-> IF Owner[p] \in Device /\ Direction[p] \in {1, 3}
                          THEN Owner[p] ELSE Parent[Owner[p]]]

OperatorNames == {"and", "nand", "or", "nor", "not"}

ASSUME TreeAssumption ==
  /\ Device \cap Gate = {} /\ Sim \in Device
  /\ Parent \in [Component \ {Sim} -> Device]
  /\ Children \in [Device -> Seq(Component \ {Sim})]
  /\ \A d \in Device : Range(Children[d]) = {c \in Component \ {Sim} : Parent[c] = d}
  /\ Ancestors \in [Device -> SUBSET Device]
  /\ Ancestors[Sim] = {}
  /\ \A d \in Device \ {Sim} :
       /\ Ancestors[d] = {Parent[d]} \cup Ancestors[Parent[d]]
       /\ d \notin Ancestors[d]
       /\ Sim \in Ancestors[d]
       /\ \A a \in Ancestors[d] : \E c \in Ancestors[d] \cup {d} : c # Sim /\ Parent[c] = a

ASSUME PinAssumption ==
  /\ Owner \in [Pin -> Component]
  /\ Direction \in [Pin -> 1..4]
  /\ Inward \in [Device -> Seq(Pin)]
  /\ Outward \in [Component -> Seq(Pin)]
  /\ \A d \in Device :
       Range(Inward[d]) = {p \in Pin : Owner[p] = d /\ Direction[p] \in {1, 3}}
  /\ \A c \in Component : Range(Outward[c]) = {p \in Pin : Owner[p] = c /\ Direction[p] = 2}
  /\ \A c \in Component : IsInjective(Outward[c])
  /\ \A g \in Gate : Len(Outward[g]) = 1
  /\ \A p \in Pin : Owner[p] \in Gate => Direction[p] \in {1, 2}
  /\ Operator \in [Gate -> OperatorNames]
  /\ DefaultHigh \subseteq Pin
  /\ Seeds \subseteq SUBSET Pin
  /\ MaxPropagations \in [Device -> Nat]
  /\ Threaded \subseteq Device
  /\ Workers \in Nat

\* What Device::Connect accepts (and a well-formed use of Gate::Connect, which
\* does not check the direction): an inward pin drives inputs of children, an
\* outward pin drives inputs of siblings or outputs of the parent, and the
\* drive flags give every pin at most one driver.
ASSUME ConnectAssumption ==
  /\ Targets \in [Pin -> Seq(Pin)]
  /\ \A p \in Pin \ Driver : Targets[p] = <<>>
  /\ \A p \in Driver : \A q \in Range(Targets[p]) :
       \/ Direction[q] = 1 /\ Owner[q] # Sim /\ Parent[Owner[q]] = Home[p]
       \/ Direction[p] = 2 /\ Direction[q] \in {2, 4} /\ Owner[q] = Home[p]
  /\ \A p, q \in Driver : \A i \in DOMAIN Targets[p], j \in DOMAIN Targets[q] :
       Targets[p][i] = Targets[q][j] => p = q /\ i = j
  /\ \A q \in External :
       q \in Pin /\ Direction[q] = 1 /\ Owner[q] # Sim /\ Parent[Owner[q]] = Sim

VARIABLES
  state, state_changed,                 \* of every pin
  propagate_next_tick, next_tick_flag,  \* queue of a Device; flag of a child
  propagate_this_tick, this_tick_flag,
  solve_this_tick, solve_this_tick_flag,
  buffered_propagation,
  phase,           \* how far the Device is in Solve
  current,         \* the Component whose pins it is propagating
  pinAt, connAt,   \* which of the pins, and which connection (0: none yet)
  started,         \* how many entries of solve_this_tick have been started
  sub_tick_count,
  built,           \* the Devices whose Stabilise has been called
  errors           \* m_error_messages: <<"unstable" or "all_stop", Device>>

pins == <<state, state_changed>>
queues == <<propagate_next_tick, next_tick_flag, propagate_this_tick, this_tick_flag>>
solves == <<solve_this_tick, solve_this_tick_flag, buffered_propagation>>
scan == <<current, pinAt, connAt>>
vars == <<pins, queues, solves, scan, phase, started, sub_tick_count, built, errors>>

Phase == {"idle", "inputs", "subtick", "propagate", "children", "return"}

TypeOK ==
  /\ state \in [Pin -> BOOLEAN] /\ state_changed \in [Pin -> BOOLEAN]
  /\ propagate_next_tick \in [Device -> Seq(Component \ {Sim})]
  /\ propagate_this_tick \in [Device -> Seq(Component \ {Sim})]
  /\ next_tick_flag \in [Component -> BOOLEAN] /\ this_tick_flag \in [Component -> BOOLEAN]
  /\ solve_this_tick \in [Device -> Seq(Device \ {Sim})]
  /\ solve_this_tick_flag \in [Device -> BOOLEAN]
  /\ buffered_propagation \in [Device -> BOOLEAN]
  /\ phase \in [Device -> Phase]
  /\ current \in [Device -> Component]
  /\ pinAt \in [Device -> Nat \ {0}] /\ connAt \in [Device -> Nat]
  /\ started \in [Device -> Nat] /\ sub_tick_count \in [Device -> Nat]
  /\ built \subseteq Device
  /\ errors \subseteq {"unstable", "all_stop"} \X Device

-----------------------------------------------------------------------------
(* Gates.                                                                  *)

AllHigh(g, s) == \A p \in Inputs[g] : s[p]
AnyHigh(g, s) == \E p \in Inputs[g] : s[p]

\* OperatorAnd ... OperatorNot over the input states s.
GateOutput(g, s) ==
  CASE Operator[g] = "and"  -> AllHigh(g, s)
    [] Operator[g] = "nand" -> ~AllHigh(g, s)
    [] Operator[g] = "or"   -> AnyHigh(g, s)
    [] OTHER                -> ~AnyHigh(g, s)     \* nor, and not of its one input

-----------------------------------------------------------------------------
(* Component::Set, one operator per kind of pin.                           *)

\* Mutant: the Gate is queued in the sub-tick that is being worked through.
MutantQueueThisTick(g, really) ==
  LET d == Parent[g]
      queue == really /\ ~this_tick_flag[g] /\ ~next_tick_flag[g]
  IN /\ propagate_this_tick' = IF queue THEN [propagate_this_tick EXCEPT ![d] = Append(@, g)]
                               ELSE propagate_this_tick
     /\ this_tick_flag' = IF queue THEN [this_tick_flag EXCEPT ![g] = TRUE] ELSE this_tick_flag
     /\ UNCHANGED <<propagate_next_tick, next_tick_flag>>

\* Device::QueueToPropagate, called by a Gate when `really`.
QueueToPropagate(g, really) ==
  LET d == Parent[g]
      queue == really /\ ~this_tick_flag[g] /\ ~next_tick_flag[g]
  IN /\ propagate_next_tick' = IF queue THEN [propagate_next_tick EXCEPT ![d] = Append(@, g)]
                               ELSE propagate_next_tick
     /\ next_tick_flag' = IF queue THEN [next_tick_flag EXCEPT ![g] = TRUE] ELSE next_tick_flag
     /\ UNCHANGED <<propagate_this_tick, this_tick_flag>>

\* Gate::Set and Gate::Evaluate.
SetGateInput(q, v) ==
  LET g == Owner[q]
      moved == [state EXCEPT ![q] = v]
      new == GateOutput(g, moved)
      flips == state[q] # v /\ state[Out(g)] # new
  IN /\ state' = IF flips THEN [moved EXCEPT ![Out(g)] = new] ELSE moved
     /\ state_changed' = IF flips THEN [state_changed EXCEPT ![Out(g)] = TRUE] ELSE state_changed
     /\ QueueToPropagate(g, flips)
     /\ UNCHANGED <<solves, errors>>

\* SetDeviceInput with its pieces as parameters, for the mutants below.
SetInPin(q, v, queue, mark, entry) ==
  LET d == Parent[Owner[q]]
  IN /\ state' = [state EXCEPT ![q] = v]
     /\ state_changed' = IF mark THEN [state_changed EXCEPT ![q] = TRUE] ELSE state_changed
     /\ solve_this_tick_flag' = IF queue THEN [solve_this_tick_flag EXCEPT ![Owner[q]] = TRUE]
                                ELSE solve_this_tick_flag
     /\ solve_this_tick' = IF queue THEN [solve_this_tick EXCEPT ![d] = Append(@, entry)]
                           ELSE solve_this_tick
     /\ UNCHANGED <<queues, buffered_propagation, errors>>
Fresh(q, v) == state[q] # v /\ ~solve_this_tick_flag[Owner[q]]

\* Mutants: the Device is queued again while it is pending; only the change
\* that queues it is marked; the parent queues its own identifier.
MutantQueueTwice(q, v) == SetInPin(q, v, state[q] # v, state[q] # v, Owner[q])
MutantMarkFirstOnly(q, v) == SetInPin(q, v, Fresh(q, v), Fresh(q, v), Owner[q])
MutantQueueParent(q, v) == SetInPin(q, v, Fresh(q, v), state[q] # v, Parent[Owner[q]])

\* Device::Set on an in pin, with Device::QueueToSolve.
SetDeviceInput(q, v) ==
  LET c == Owner[q]
      d == Parent[c]
      queue == state[q] # v /\ ~solve_this_tick_flag[c]
  IN /\ state' = [state EXCEPT ![q] = v]
     /\ state_changed' = IF state[q] # v THEN [state_changed EXCEPT ![q] = TRUE] ELSE state_changed
     /\ solve_this_tick_flag' = IF queue THEN [solve_this_tick_flag EXCEPT ![c] = TRUE]
                                ELSE solve_this_tick_flag
     /\ solve_this_tick' = IF queue THEN [solve_this_tick EXCEPT ![d] = Append(@, c)]
                           ELSE solve_this_tick
     /\ UNCHANGED <<queues, buffered_propagation, errors>>

\* Device::Set on an out pin: the change waits for the end of the Device's Solve.
SetDeviceOutput(q, v) ==
  /\ state' = [state EXCEPT ![q] = v]
  /\ state_changed' = IF state[q] # v THEN [state_changed EXCEPT ![q] = TRUE] ELSE state_changed
  /\ buffered_propagation' = IF state[q] # v THEN [buffered_propagation EXCEPT ![Owner[q]] = TRUE]
                             ELSE buffered_propagation
  /\ UNCHANGED <<queues, solve_this_tick, solve_this_tick_flag, errors>>

\* Device::Set on the hidden all_stop pin.
SetAllStop(q, v) ==
  /\ errors' = IF v THEN errors \cup {<<"all_stop", Owner[q]>>} ELSE errors
  /\ UNCHANGED <<pins, queues, solves>>

Set(q, v) ==
  \/ (Direction[q] = 1 /\ Owner[q] \in Gate) /\ SetGateInput(q, v)
  \/ (Direction[q] = 1 /\ Owner[q] \in Device) /\ SetDeviceInput(q, v)
  \/ Direction[q] = 2 /\ SetDeviceOutput(q, v)
  \/ Direction[q] = 4 /\ SetAllStop(q, v)

-----------------------------------------------------------------------------
(* Device::Solve.                                                          *)

\* Entering Solve: the pending flag and the count are cleared and the in pins scanned.
\* The Device's own pins are then propagated by PropagateInputs.
Enter(d) ==
  /\ phase' = [phase EXCEPT ![d] = "inputs"]
  /\ solve_this_tick_flag' = [solve_this_tick_flag EXCEPT ![d] = FALSE]
  /\ sub_tick_count' = [sub_tick_count EXCEPT ![d] = 0]
  /\ current' = [current EXCEPT ![d] = d]
  /\ pinAt' = [pinAt EXCEPT ![d] = 1]
  /\ connAt' = [connAt EXCEPT ![d] = 0]

\* The pins being propagated by d: its in pins (PropagateInputs), or the out
\* pins of the child at the head of the sub-tick (Gate/Device::Propagate).
Scan(d) == IF current[d] = d THEN Inward[d] ELSE Outward[current[d]]
Scanning(d) == phase[d] \in {"inputs", "propagate"} /\ pinAt[d] <= Len(Scan(d))
ScanDone(d) == phase[d] \in {"inputs", "propagate"} /\ pinAt[d] > Len(Scan(d))
ScanPin(d) == Scan(d)[pinAt[d]]

SkipPin(d) ==
  /\ Scanning(d) /\ connAt[d] = 0 /\ ~state_changed[ScanPin(d)]
  /\ pinAt' = [pinAt EXCEPT ![d] = @ + 1]
  /\ UNCHANGED <<pins, queues, solves, current, connAt, phase, started, sub_tick_count, built, errors>>

TakePin(d) ==
  /\ Scanning(d) /\ connAt[d] = 0 /\ state_changed[ScanPin(d)]
  /\ state_changed' = [state_changed EXCEPT ![ScanPin(d)] = FALSE]
  /\ connAt' = [connAt EXCEPT ![d] = 1]
  /\ UNCHANGED <<state, queues, solves, current, pinAt, phase, started, sub_tick_count, built, errors>>

\* One connection of the pin: the state is read again for each of them.
Deliver(d) ==
  /\ Scanning(d) /\ connAt[d] \in DOMAIN Targets[ScanPin(d)]
  /\ Set(Targets[ScanPin(d)][connAt[d]], state[ScanPin(d)])
  /\ connAt' = [connAt EXCEPT ![d] = @ + 1]
  /\ UNCHANGED <<current, pinAt, phase, started, sub_tick_count, built>>

LeavePin(d) ==
  /\ Scanning(d) /\ connAt[d] > Len(Targets[ScanPin(d)])
  /\ connAt' = [connAt EXCEPT ![d] = 0]
  /\ pinAt' = [pinAt EXCEPT ![d] = @ + 1]
  /\ UNCHANGED <<pins, queues, solves, current, phase, started, sub_tick_count, built, errors>>

\* SubTick moves the next-tick queue, with its flags, to this tick.
BeginSubTick(d) ==
  /\ \/ phase[d] = "subtick"
     \/ phase[d] = "inputs" /\ ScanDone(d)
  /\ LET moved == Range(propagate_next_tick[d]) IN
       /\ propagate_this_tick' = [propagate_this_tick EXCEPT ![d] = @ \o propagate_next_tick[d]]
       /\ this_tick_flag' = [c \in Component |-> c \in moved \/ this_tick_flag[c]]
       /\ next_tick_flag' = [c \in Component |-> c \notin moved /\ next_tick_flag[c]]
       /\ propagate_next_tick' = [propagate_next_tick EXCEPT ![d] = <<>>]
  /\ phase' = [phase EXCEPT ![d] = "propagate"]
  \* No child is being propagated yet: the finished scan of the in pins stands for that.
  /\ current' = [current EXCEPT ![d] = d]
  /\ pinAt' = [pinAt EXCEPT ![d] = Len(Inward[d]) + 1]
  /\ UNCHANGED <<pins, solves, connAt, started, sub_tick_count, built, errors>>

\* The next entry of the sub-tick: its flag is cleared, then it propagates.
BeginPropagate(d) ==
  /\ phase[d] = "propagate" /\ ScanDone(d) /\ propagate_this_tick[d] # <<>>
  /\ LET c == Head(propagate_this_tick[d]) IN
       /\ this_tick_flag' = [this_tick_flag EXCEPT ![c] = FALSE]
       /\ current' = [current EXCEPT ![d] = c]
  /\ propagate_this_tick' = [propagate_this_tick EXCEPT ![d] = Tail(@)]
  /\ pinAt' = [pinAt EXCEPT ![d] = 1]
  /\ UNCHANGED <<pins, propagate_next_tick, next_tick_flag, solves, connAt, phase, started,
                 sub_tick_count, built, errors>>

SubTickDone(d) == phase[d] = "propagate" /\ ScanDone(d) /\ propagate_this_tick[d] = <<>>

\* Mutant: the sub-ticks are not counted.
MutantUncounted(d) ==
  /\ SubTickDone(d) /\ propagate_next_tick[d] # <<>>
  /\ sub_tick_count[d] < MaxPropagations[d]
  /\ phase' = [phase EXCEPT ![d] = "subtick"]
  /\ UNCHANGED <<pins, queues, solves, scan, started, sub_tick_count, built, errors>>

\* More is pending: another sub-tick, as long as the count allows one.
Repeat(d) ==
  /\ SubTickDone(d) /\ propagate_next_tick[d] # <<>>
  /\ sub_tick_count[d] < MaxPropagations[d]
  /\ sub_tick_count' = [sub_tick_count EXCEPT ![d] = @ + 1]
  /\ phase' = [phase EXCEPT ![d] = "subtick"]
  /\ UNCHANGED <<pins, queues, solves, scan, started, built, errors>>

\* Mutant: Solve gives up without a word.
MutantSilentStall(d) ==
  /\ SubTickDone(d) /\ propagate_next_tick[d] # <<>>
  /\ sub_tick_count[d] >= MaxPropagations[d]
  /\ sub_tick_count' = [sub_tick_count EXCEPT ![d] = @ + 1]
  /\ phase' = [phase EXCEPT ![d] = "return"]
  /\ UNCHANGED <<pins, queues, solves, scan, started, built, errors>>

\* "Could not stabilise": the error is logged and Solve left, queues as they are.
Stall(d) ==
  /\ SubTickDone(d) /\ propagate_next_tick[d] # <<>>
  /\ sub_tick_count[d] >= MaxPropagations[d]
  /\ sub_tick_count' = [sub_tick_count EXCEPT ![d] = @ + 1]
  /\ errors' = errors \cup {<<"unstable", d>>}
  /\ phase' = [phase EXCEPT ![d] = "return"]
  /\ UNCHANGED <<pins, queues, solves, scan, started, built>>

\* Nothing is pending: the count restarts and the queued child Devices are solved.
Quiesce(d) ==
  /\ SubTickDone(d) /\ propagate_next_tick[d] = <<>>
  /\ sub_tick_count' = [sub_tick_count EXCEPT ![d] = 0]
  /\ started' = [started EXCEPT ![d] = 0]
  /\ phase' = [phase EXCEPT ![d] = "children"]
  /\ UNCHANGED <<pins, queues, solves, scan, built, errors>>

Busy(d) == {c \in Device \ {Sim} : Parent[c] = d /\ phase[c] # "idle"}

\* The next queued child starts its Solve: when the previous one has returned,
\* or, in a threaded Device, when one of the pool's threads takes its job.
StartChild(d) ==
  /\ phase[d] = "children" /\ started[d] < Len(solve_this_tick[d])
  /\ Cardinality(Busy(d)) < IF d \in Threaded THEN Workers ELSE 1
  /\ Enter(solve_this_tick[d][started[d] + 1])
  /\ started' = [started EXCEPT ![d] = @ + 1]
  /\ UNCHANGED <<pins, queues, solve_this_tick, buffered_propagation, built, errors>>

\* Mutants: the running children are not waited for; Solve ends although their
\* outputs are pending; Solve never ends.
LeaveChildren(d, next) ==
  /\ phase[d] = "children" /\ started[d] = Len(solve_this_tick[d])
  /\ solve_this_tick' = [solve_this_tick EXCEPT ![d] = <<>>]
  /\ phase' = [phase EXCEPT ![d] = next]
  /\ UNCHANGED <<pins, queues, solve_this_tick_flag, buffered_propagation, scan, started,
                 sub_tick_count, built, errors>>
MutantNoWait(d) == LeaveChildren(d, IF propagate_next_tick[d] = <<>> THEN "return" ELSE "subtick")
MutantOnePass(d) == Busy(d) = {} /\ LeaveChildren(d, "return")
MutantNoExit(d) == Busy(d) = {} /\ LeaveChildren(d, "subtick")

\* All queued children have returned (WaitForAllJobs): done, or another pass.
EndChildren(d) ==
  /\ phase[d] = "children" /\ started[d] = Len(solve_this_tick[d]) /\ Busy(d) = {}
  /\ solve_this_tick' = [solve_this_tick EXCEPT ![d] = <<>>]
  /\ phase' = [phase EXCEPT ![d] = IF propagate_next_tick[d] = <<>> THEN "return" ELSE "subtick"]
  /\ UNCHANGED <<pins, queues, solve_this_tick_flag, buffered_propagation, scan, started,
                 sub_tick_count, built, errors>>

\* Mutants: the change of an output is not handed to the parent; or is, but not forgotten.
MutantForgetParent(d) ==
  /\ phase[d] = "return"
  /\ phase' = [phase EXCEPT ![d] = "idle"]
  /\ buffered_propagation' = [buffered_propagation EXCEPT ![d] = FALSE]
  /\ UNCHANGED <<pins, queues, solve_this_tick, solve_this_tick_flag, scan, started,
                 sub_tick_count, built, errors>>
MutantKeepBuffered(d) ==
  /\ phase[d] = "return"
  /\ phase' = [phase EXCEPT ![d] = "idle"]
  /\ propagate_next_tick' = IF d # Sim /\ buffered_propagation[d]
                            THEN [propagate_next_tick EXCEPT ![Parent[d]] = Append(@, d)]
                            ELSE propagate_next_tick
  /\ UNCHANGED <<pins, next_tick_flag, propagate_this_tick, this_tick_flag, solves, scan,
                 started, sub_tick_count, built, errors>>

\* Leaving Solve: a changed output queues the Device in its parent (under the
\* parent's mutex when that is threaded), without touching the flags.  For the
\* Simulation this is where the probes sample.
Return(d) ==
  /\ phase[d] = "return"
  /\ phase' = [phase EXCEPT ![d] = "idle"]
  /\ IF d # Sim /\ buffered_propagation[d]
     THEN /\ buffered_propagation' = [buffered_propagation EXCEPT ![d] = FALSE]
          /\ propagate_next_tick' = [propagate_next_tick EXCEPT ![Parent[d]] = Append(@, d)]
     ELSE UNCHANGED <<buffered_propagation, propagate_next_tick>>
  /\ UNCHANGED <<pins, next_tick_flag, propagate_this_tick, this_tick_flag, solve_this_tick,
                 solve_this_tick_flag, scan, started, sub_tick_count, built, errors>>

-----------------------------------------------------------------------------
(* Building, and the world outside.                                        *)

AllIdle == \A d \in Device : phase[d] = "idle"

\* Device::Stabilise at the end of the Device's constructor: every child is
\* Initialised in order, then the Device is solved.  Children come first.
Stabilise(d) ==
  /\ AllIdle /\ d \notin built
  /\ \A c \in Device \ {Sim} : Parent[c] = d => c \in built
  /\ built' = built \cup {d}
  /\ state' = [p \in Pin |-> IF Owner[p] \in Gate /\ Parent[Owner[p]] = d /\ Direction[p] = 2
                             THEN GateOutput(Owner[p], state) ELSE state[p]]
  /\ state_changed' = [p \in Pin |-> \/ Owner[p] # Sim /\ Parent[Owner[p]] = d /\ Direction[p] = 2
                                     \/ state_changed[p]]
  /\ propagate_next_tick' = [propagate_next_tick EXCEPT ![d] = @ \o Children[d]]
  /\ Enter(d)
  /\ UNCHANGED <<next_tick_flag, propagate_this_tick, this_tick_flag, solve_this_tick,
                 buffered_propagation, started, errors>>

\* Clock::Propagate or the Set of Device::ChildSet, between two solves.
Drive(q, v) ==
  /\ AllIdle /\ Sim \in built
  /\ Set(q, v)
  /\ UNCHANGED <<scan, phase, started, sub_tick_count, built>>

\* Simulation::Run and ChildSet solve the top level.
SolveTop ==
  /\ AllIdle /\ Sim \in built
  /\ Enter(Sim)
  /\ UNCHANGED <<pins, queues, solve_this_tick, buffered_propagation, started, built, errors>>

-----------------------------------------------------------------------------
\* The constructors: Gate inputs are random, Gate outputs low, Device pins at
\* their defaults and marked as changed.
Init ==
  /\ \E high \in Seeds :
       state = [p \in Pin |-> IF Owner[p] \in Gate THEN Direction[p] = 1 /\ p \in high
                              ELSE p \in DefaultHigh /\ Direction[p] \in {1, 3}]
  /\ state_changed = [p \in Pin |-> Owner[p] \in Device /\ Direction[p] # 4]
  /\ propagate_next_tick = [d \in Device |-> <<>>]
  /\ propagate_this_tick = [d \in Device |-> <<>>]
  /\ next_tick_flag = [c \in Component |-> FALSE]
  /\ this_tick_flag = [c \in Component |-> FALSE]
  /\ solve_this_tick = [d \in Device |-> <<>>]
  /\ solve_this_tick_flag = [d \in Device |-> FALSE]
  /\ buffered_propagation = [d \in Device |-> FALSE]
  /\ phase = [d \in Device |-> "idle"]
  /\ current = [d \in Device |-> d]
  /\ pinAt = [d \in Device |-> 1]
  /\ connAt = [d \in Device |-> 0]
  /\ started = [d \in Device |-> 0]
  /\ sub_tick_count = [d \in Device |-> 0]
  /\ built = {}
  /\ errors = {}

SolveStep(d) ==
  \/ SkipPin(d) \/ TakePin(d) \/ Deliver(d) \/ LeavePin(d)
  \/ BeginSubTick(d) \/ BeginPropagate(d) \/ Repeat(d) \/ Stall(d) \/ Quiesce(d)
  \/ StartChild(d) \/ EndChildren(d) \/ Return(d)

Next ==
  \/ \E d \in Device : SolveStep(d) \/ Stabilise(d)
  \/ \E q \in External, v \in BOOLEAN : Drive(q, v)
  \/ SolveTop

Spec == Init /\ [][Next]_vars

\* The call stack runs, and the operating system runs every thread of the pool.
FairSpec == Spec /\ \A d \in Device : WF_vars(SolveStep(d))

-----------------------------------------------------------------------------
(* What makes the solver correct.                                          *)

Unstable == \E d \in Device : <<"unstable", d>> \in errors

\* A Device is only ever in Solve while all Devices above it that take part are
\* waiting in their loop over the children: one thread at a time works on any
\* subtree, whether the children are solved in turn or by the thread pool.
CallStack ==
  \A d \in Device : phase[d] # "idle" =>
    \A a \in Ancestors[d] : a \in built => phase[a] = "children"

\* The entries of m_solve_this_tick that have not been started yet.
Waiting(d) ==
  LET first == IF phase[d] = "children" THEN started[d] + 1 ELSE 1
  IN {solve_this_tick[d][i] : i \in first .. Len(solve_this_tick[d])}

\* A child is queued for its parent's next round of solves at most once, and
\* exactly when its pending flag says so: no change of an in pin is left
\* unsolved, and no Device is handed to two threads.
SolveFlags ==
  /\ \A d \in Device : IsInjective(solve_this_tick[d])
  /\ \A c \in Device \ {Sim} : solve_this_tick_flag[c] <=> c \in Waiting(Parent[c])

Driving(d, p) == Scanning(d) /\ ScanPin(d) = p /\ connAt[d] > 0

\* The target q has received the state of its driver p; all_stop keeps no state
\* but has logged its error.  A pin set from outside follows its last setter.
Agree(p, q) ==
  \/ q \in External
  \/ Direction[q] # 4 /\ state[q] = state[p]
  \/ Direction[q] = 4 /\ (state[p] => <<"all_stop", Owner[q]>> \in errors)

\* Wherever the two ends of a connection disagree the propagation that will
\* make them agree is still to come: the driver is marked as changed, or its
\* delivery has not reached this connection.
PendingPropagation ==
  \A p \in Driver : Home[p] \in built =>
    \A i \in DOMAIN Targets[p] :
      \/ Agree(p, Targets[p][i])
      \/ state_changed[p]
      \/ Driving(Home[p], p) /\ connAt[Home[p]] <= i

\* p is among the pins that d's present scan has yet to come to.
ToBeScanned(d, p) ==
  Scanning(d) /\ \E k \in pinAt[d] .. Len(Scan(d)) :
    Scan(d)[k] = p /\ (k = pinAt[d] => connAt[d] = 0)

Queued(c) == c \in Range(propagate_next_tick[Parent[c]]) \cup Range(propagate_this_tick[Parent[c]])

\* A pin marked as changed is in line to be propagated: an in pin by the next
\* Solve of its Device, an out pin by a sub-tick of the parent.
ChangesScheduled ==
  \A p \in Driver : state_changed[p] /\ Home[p] \in built =>
    LET c == Owner[p] IN
    IF Home[p] = c
    THEN solve_this_tick_flag[c] \/ ToBeScanned(c, p)
    ELSE \/ Queued(c) \/ ToBeScanned(Home[p], p)
         \/ c \in Device /\ buffered_propagation[c] /\ phase[c] # "idle"

\* A Device that has left Solve without an error leaves nothing queued inside.
NothingLeftBehind ==
  ~Unstable => \A d \in built \ {Sim} : phase[d] = "idle" =>
    /\ propagate_next_tick[d] = <<>> /\ propagate_this_tick[d] = <<>>
    /\ solve_this_tick[d] = <<>> /\ ~buffered_propagation[d]

\* When the top level has been solved and the probes sample, the whole circuit
\* has settled, or an error says that it has not: every connection carries its
\* driver's state and every Gate's output is its operator's value.
SettledWhenSampled ==
  phase[Sim] = "return" /\ ~Unstable =>
    /\ \A p \in Driver : \A q \in Range(Targets[p]) : Agree(p, q)
    /\ \A g \in Gate : state[Out(g)] = GateOutput(g, state)

\* m_solve_this_tick and m_propagate_this_tick are iterated by reference:
\* nothing may be added to them while the loop over them runs.
NotModifiedWhileIterated ==
  [][\A d \in Device :
       /\ phase[d] = "children" /\ phase'[d] = "children" =>
            solve_this_tick'[d] = solve_this_tick[d]
       /\ phase[d] = "propagate" /\ phase'[d] = "propagate" =>
            Len(propagate_this_tick'[d]) <= Len(propagate_this_tick[d])]_vars

\* Every Solve returns.
SolveReturns == \A d \in Device : phase[d] # "idle" ~> phase[d] = "idle"

=============================================================================
