------------------------------ MODULE Netlist ------------------------------
(***************************************************************************)
(* Building a circuit and taking it apart: the tables of child Components  *)
(* that a Device keeps, the connections between pins with their drive      *)
(* flags, and what PurgeComponent does to all of them.  The pin states and *)
(* their propagation are the subject of Solver, which takes as a constant  *)
(* the circuit built here.                                                 *)
(*                                                                         *)
(* A Component is a place in the tree, with a fixed parent and pins; it is *)
(* constructed, and may be purged and constructed again.  The order of the *)
(* descriptors on one pin is left out: a connection is counted.            *)
(***************************************************************************)
EXTENDS Naturals, Sequences, FiniteSets, Functions

CONSTANTS
  Device, Gate,     \* the Components that may be constructed
  Sim,              \* the top-level Simulation, there from the start
  Parent,           \* m_parent_device_pointer; the Simulation is its own parent
  Ancestors,        \* the Devices strictly above a Component
  Name,             \* m_name; siblings may share one
  NotGate,          \* Gates with a single input
  Magic,            \* Devices with a magic engine: no children, pins marked as driven
  Pin, Owner, Direction,
  Clock,
  Spare,            \* outputs that a program marks as not connected
  MaxFlags,         \* bound: length of m_propagate_next_tick_flags
  MaxQueue          \* bound: length of m_propagate_next_tick

Component == Device \cup Gate
Source == Pin \cup Clock
PinsOf(c) == {p \in Pin : Owner[p] = c}
InPins(c) == {p \in PinsOf(c) : Direction[p] = 1}
OutPins(c) == {p \in PinsOf(c) : Direction[p] = 2}
Nesting(c) == Cardinality(Ancestors[c])

ASSUME NetlistAssumption ==
  /\ Device \cap Gate = {} /\ (Pin \cup Component) \cap Clock = {} /\ Sim \in Device
  /\ Parent \in [Component -> Device] /\ Parent[Sim] = Sim
  /\ Ancestors \in [Component -> SUBSET Device] /\ Ancestors[Sim] = {}
  /\ \A c \in Component \ {Sim} :
       /\ Ancestors[c] = {Parent[c]} \cup Ancestors[Parent[c]]
       /\ c \notin Ancestors[c]
  /\ Owner \in [Pin -> Component] /\ Direction \in [Pin -> 1..4]
  /\ \A p \in Pin : Owner[p] \in Gate => Direction[p] \in {1, 2}
  /\ NotGate \subseteq Gate
  /\ Magic \subseteq Device \ {Sim}
  /\ \A c \in Component \ {Sim} : Parent[c] \notin Magic
  /\ \A p \in PinsOf(Sim) : Direction[p] \in {3, 4}
  /\ Spare \subseteq Pin /\ MaxFlags \in Nat /\ MaxQueue \in Nat

VARIABLES
  alive,               \* the Components that exist
  components,          \* m_components of every Device
  devices,             \* m_devices: local indices
  local_index,         \* m_local_component_index
  flags,               \* entries of the two vectors of propagation flags
  propagate_next_tick, \* m_propagate_next_tick: local indices
  queued,              \* observer: the children that put those indices there
  clocks,              \* the Clocks that exist
  connections,         \* m_ports, m_connections: descriptors by source and target
  drive_in, drive_out, \* pin.drive[0], pin.drive[1]
  building,            \* the Devices whose construction is under way, outermost first
  errors               \* m_error_messages is not empty

tables == <<alive, components, devices, local_index, flags>>
pending == <<propagate_next_tick, queued>>
wiring == <<connections, drive_in, drive_out>>
vars == <<tables, pending, clocks, wiring, building, errors>>

TypeOK ==
  /\ alive \subseteq Component /\ clocks \subseteq Clock
  /\ components \in [Device -> Seq(Component)] /\ devices \in [Device -> Seq(Nat)]
  /\ local_index \in [Component -> Nat] /\ flags \in [Device -> Nat]
  /\ propagate_next_tick \in [Device -> Seq(Nat)] /\ queued \in [Device -> Seq(Device)]
  /\ connections \in [Source -> [Pin -> Nat]]
  /\ drive_in \in [Pin -> BOOLEAN] /\ drive_out \in [Pin -> BOOLEAN]
  /\ building \in Seq(Device) /\ errors \in BOOLEAN

\* The Device whose Build() runs; the main program works on the Simulation.
Here == building[Len(building)]

\* GetChildComponentPointer: of children that share a name only the first is found.
Visible(d) == {components[d][i] : i \in {i \in DOMAIN components[d] :
                 \A j \in 1 .. i - 1 : Name[components[d][j]] # Name[components[d][i]]}}

-----------------------------------------------------------------------------
(* Constructing Components.                                                *)

\* MarkInnerTerminalsDisconnected: what a magic Device's engine reads and sets
\* counts as connected.
InnerTerminals(c) == IF c \in Magic THEN InPins(c) \cup OutPins(c) ELSE {}
MarkedIn(c) == InnerTerminals(c) \cap OutPins(c)
MarkedOut(c) == InnerTerminals(c) \cap InPins(c)

\* What the two constructors have in common: the new child's local index is the
\* number of its elder siblings, the parent gets an entry in each flag vector,
\* and the pins are created, unconnected.
Construct(c) ==
  LET d == Parent[c] IN
  /\ c \notin alive /\ d = Here /\ flags[d] < MaxFlags
  /\ alive' = alive \cup {c}
  /\ local_index' = [local_index EXCEPT ![c] = Len(components[d])]
  /\ flags' = [flags EXCEPT ![d] = @ + 1]
  /\ connections' = [s \in Source |-> IF s \in PinsOf(c) THEN [q \in Pin |-> 0] ELSE connections[s]]
  /\ drive_in' = [p \in Pin |-> IF Owner[p] = c THEN p \in MarkedIn(c) ELSE drive_in[p]]
  /\ drive_out' = [p \in Pin |-> IF Owner[p] = c THEN p \in MarkedOut(c) ELSE drive_out[p]]

\* Device::AddGate: the constructor of Gate, which wants two inputs unless it
\* is a not, and AddComponent.
AddGate(g) ==
  /\ Construct(g)
  /\ components' = [components EXCEPT ![Here] = Append(@, g)]
  /\ errors' = (errors \/ (g \notin NotGate /\ Cardinality(InPins(g)) < 2))
  /\ UNCHANGED <<devices, pending, clocks, building>>

\* The constructor of a Device, up to its Build().
BeginDevice(d) ==
  /\ d # Sim /\ Construct(d)
  /\ building' = Append(building, d)
  /\ UNCHANGED <<components, devices, pending, clocks, errors>>

\* The Stabilise() that ends Build(), of a circuit that settles: the Device's
\* own queue has been worked off, and if its outputs have changed it has queued
\* itself in its parent - before AddComponent enters it in the parent's tables.
EndDevice(outputsChanged) ==
  LET d == Here
      p == Parent[d]
  IN
  /\ d # Sim
  /\ building' = SubSeq(building, 1, Len(building) - 1)
  /\ outputsChanged => OutPins(d) # {} /\ Len(propagate_next_tick[p]) < MaxQueue
  /\ propagate_next_tick' = [propagate_next_tick EXCEPT ![d] = <<>>,
       ![p] = IF outputsChanged THEN Append(@, local_index[d]) ELSE @]
  /\ queued' = [queued EXCEPT ![d] = <<>>, ![p] = IF outputsChanged THEN Append(@, d) ELSE @]
  /\ components' = [components EXCEPT ![p] = Append(@, d)]
  /\ devices' = [devices EXCEPT ![p] = Append(@, local_index[d])]
  /\ UNCHANGED <<alive, local_index, flags, clocks, wiring, errors>>

\* Mutant: a Gate directly in the Simulation may be open altogether.
MutantOpenGatePins(g) ==
  {p \in PinsOf(g) : Nesting(g) > 1 /\ ~(IF p \in InPins(g) THEN drive_in ELSE drive_out)[p]}

\* ReportUnConnectedPins of a Gate and of a Device: the pins that are reported.  The
\* Components directly in the Simulation may be open towards it, but not a Gate's inputs.
OpenGatePins(g) ==
  {p \in InPins(g) : ~drive_in[p]} \cup {p \in OutPins(g) : Nesting(g) > 1 /\ ~drive_out[p]}
OpenDevicePins(d) ==
  {p \in InPins(d) : ~drive_out[p] \/ (Nesting(d) > 1 /\ ~drive_in[p])} \cup
  {p \in OutPins(d) : ~drive_in[p] \/ (Nesting(d) > 1 /\ ~drive_out[p])}
Unconnected == UNION ({OpenGatePins(g) : g \in Gate \cap alive} \cup
                      {OpenDevicePins(d) : d \in Device \cap alive})

\* Stabilise() of the Simulation: every queue is worked off, then the pins are checked.
StabiliseSim ==
  /\ Here = Sim
  /\ propagate_next_tick' = [propagate_next_tick EXCEPT ![Sim] = <<>>]
  /\ queued' = [queued EXCEPT ![Sim] = <<>>]
  /\ errors' = (errors \/ Unconnected # {})
  /\ UNCHANGED <<tables, clocks, wiring, building>>

-----------------------------------------------------------------------------
(* Connecting.                                                             *)

\* The Components that a connection from pin s can name: a Device's own in pins
\* reach its children, any other pin reaches siblings and the "parent".
Inner(s) == Owner[s] \in Device /\ Direction[s] \in {1, 3}
Scope(s) == IF Inner(s) THEN Visible(Owner[s])
            ELSE Visible(Parent[Owner[s]]) \cup {Parent[Owner[s]]}

\* Pins that can be named here as the source of a connection, and what s can name.
Connectable == {s \in Pin : Owner[s] \in {Here} \cup Visible(Here) /\ (Owner[s] = Here => Inner(s))}
Reach(s) == UNION {PinsOf(c) : c \in Scope(s)}

\* What Device::Connect allows; Gate::Connect does not look at the directions.
Compatible(s, q) ==
  \/ Inner(s) /\ Direction[q] = 1
  \/ Direction[s] = 2 /\ IF Owner[q] = Parent[Owner[s]] THEN Direction[q] \in {2, 4}
                         ELSE Direction[q] = 1

\* Mutant: the drive-in flag of the target is not looked at.
MutantFree(s, q) == connections[s][q] = 0

\* Neither connected to this source already nor driven by another.
Free(s, q) == connections[s][q] = 0 /\ ~drive_in[q]

\* The descriptor is added, the target's drive-in and the source's drive-out are set.
Wire(s, q) ==
  /\ connections' = [connections EXCEPT ![s][q] = @ + 1]
  /\ drive_in' = [drive_in EXCEPT ![q] = TRUE]
  /\ drive_out' = [p \in Pin |-> p = s \/ drive_out[p]]

\* Only an error message is logged: of several the first tells.
Refuse == ~errors /\ errors' = TRUE /\ UNCHANGED wiring

\* Device::ChildConnect to a child, or Connect of the Device's own.
Connect(s, q, allowed) ==
  /\ IF allowed /\ Free(s, q) THEN Wire(s, q) /\ UNCHANGED errors ELSE Refuse
  /\ UNCHANGED <<tables, pending, clocks, building>>
GateConnect(s, q) == Owner[s] \in Gate /\ Direction[s] = 2 /\ Connect(s, q, TRUE)
\* A hidden output, from which nothing can be connected onwards, is left out: the code
\* goes on to look at the pins of a Component that it has not set, a null pointer.
DeviceConnect(s, q) == Owner[s] \in Device /\ Direction[s] # 4 /\ Connect(s, q, Compatible(s, q))

\* Clock::Connect, to a Component directly in the Simulation.
ClockConnect(k, q) ==
  /\ Here = Sim
  /\ IF ~drive_in[q] /\ Direction[q] = 1
     THEN Wire(k, q) /\ UNCHANGED errors
     ELSE Refuse
  /\ UNCHANGED <<tables, pending, clocks, building>>

\* A Component, a pin or a Clock of that name does not exist, a Clock of that name
\* does already, or the parameters are too many or too few: only the error is logged.
Misnamed ==
  /\ Refuse
  /\ UNCHANGED <<tables, pending, clocks, building>>

\* Device::ChildMarkOutputNotConnected.
MarkNotConnected(p) ==
  /\ Owner[p] \in Visible(Here) /\ Direction[p] \in {2, 4}
  /\ drive_out' = [drive_out EXCEPT ![p] = TRUE]
  /\ UNCHANGED <<tables, pending, clocks, connections, drive_in, building, errors>>

\* Simulation::AddClock.
AddClock(k) ==
  /\ Here = Sim /\ k \notin clocks
  /\ clocks' = clocks \cup {k}
  /\ UNCHANGED <<tables, pending, wiring, building, errors>>

-----------------------------------------------------------------------------
(* Purging.                                                                *)

Targets(s) == {q \in Pin : connections[s][q] > 0}
NoTargets == [q \in Pin |-> 0]
Within(x, c) == x = c \/ c \in Ancestors[x]
Lost(c, s) == s \in Pin /\ Within(Owner[s], c)

\* Mutants: the Clocks, or the parent, are not asked to forget c; what c drove
\* stays marked as driven.
MutantKeepClocks(c, s) == s \in Pin /\ Owner[s] \in {Parent[c]} \cup Range(components[Parent[c]])
MutantKeepParent(c, s) == s \in Clock \/ Owner[s] \in Range(components[Parent[c]])
MutantStillDriven(c, q) == FALSE

\* Who is asked to drop its descriptors of c: the parent and its children by
\* PurgeInboundConnections, every Clock by PurgeComponentFromClocks.
Asked(c, s) == s \in Clock \/ Owner[s] \in {Parent[c]} \cup Range(components[Parent[c]])

\* PurgeOutboundConnections: what c's out pins drive is not driven any more.
Outbound(c, q) == \E s \in OutPins(c) : connections[s][q] > 0

\* A source that drives only c is not marked as driving any more.
Emptied(c, s) ==
  /\ Asked(c, s)
  /\ \E q \in PinsOf(c) : connections[s][q] > 0
  /\ \A q \in Pin : connections[s][q] > 0 => Owner[q] = c

\* A Clock is asked by every Component that goes, the others only by c.
Forgets(c, s, q) ==
  Asked(c, s) /\ IF s \in Clock THEN Within(Owner[q], c) ELSE Owner[q] = c

\* PurgeChildConnections for c, and PurgeComponentFromClocks for c and all below
\* it; the connections and pins of what is deleted go with it.
PurgeConnections(c) ==
  /\ connections' = [s \in Source |-> IF Lost(c, s) THEN NoTargets
       ELSE [q \in Pin |-> IF Forgets(c, s, q) THEN 0 ELSE connections[s][q]]]
  /\ drive_in' = [p \in Pin |-> drive_in[p] /\ ~Lost(c, p) /\ ~Outbound(c, p)]
  /\ drive_out' = [p \in Pin |-> drive_out[p] /\ ~Lost(c, p) /\ ~Emptied(c, p)]

\* A sequence without its i-th entry (from 1), if it has one.
Omit(s, i) == IF i \in DOMAIN s THEN SubSeq(s, 1, i - 1) \o SubSeq(s, i + 1, Len(s)) ELSE s

\* Mutant: the younger siblings keep their local indices.
MutantRenumber(c) == [x \in Component |-> IF Within(x, c) THEN 0 ELSE local_index[x]]

\* Those that follow c in m_components move down by one.
Position(x) == CHOOSE i \in DOMAIN components[Parent[x]] : components[Parent[x]][i] = x
Renumber(c) ==
  [x \in Component |->
     IF Within(x, c) THEN 0
     ELSE IF x \in Range(components[Parent[c]]) /\ Position(x) > Position(c)
          THEN Position(x) - 2
          ELSE local_index[x]]

\* PurgeChildComponentIdentifiers.  What is left out of m_devices is the entry at
\* the position that is c's local index, whatever it says, and the others are not
\* renumbered; only for a Device is a propagation flag removed.
PurgeIdentifiers(c) ==
  LET d == Parent[c]
      keep(f, empty) == [x \in Device |-> IF Within(x, c) THEN empty ELSE f[x]] IN
  /\ alive' = {x \in alive : ~Within(x, c)}
  /\ components' = [keep(components, <<>>) EXCEPT ![d] = Omit(@, Position(c))]
  /\ local_index' = Renumber(c)
  /\ devices' = [keep(devices, <<>>) EXCEPT
       ![d] = IF c \in Device THEN Omit(@, local_index[c] + 1) ELSE @]
  /\ flags' = [keep(flags, 0) EXCEPT ![d] = IF c \in Device THEN @ - 1 ELSE @]
  /\ propagate_next_tick' = keep(propagate_next_tick, <<>>)
  /\ queued' = keep(queued, <<>>)

\* The destructor of a Gate or Device: PurgeComponent.
Purge(c) ==
  /\ PurgeConnections(c) /\ PurgeIdentifiers(c)
  /\ UNCHANGED <<clocks, building, errors>>

\* Device::PurgeChildComponent.
PurgeChild(c) == c # Sim /\ Parent[c] = Here /\ c \in Visible(Here) /\ Purge(c)

\* Simulation::PurgeGlobalComponent finds c by its full name: the search looks at
\* all children of a Device and goes on through its m_devices.
Listed(d) ==
  \E i \in Range(devices[Parent[d]]) :
    i < Len(components[Parent[d]]) /\ components[Parent[d]][i + 1] = d
PurgeGlobal(c) ==
  /\ Here = Sim /\ c # Sim /\ c \in Visible(Parent[c])
  /\ \A d \in Ancestors[c] \ {Sim} : Listed(d)
  /\ Purge(c)

\* Simulation::PurgeChildClock and PurgeClock.
PurgeClock(k) ==
  /\ Here = Sim /\ k \in clocks
  /\ clocks' = clocks \ {k}
  /\ connections' = [connections EXCEPT ![k] = NoTargets]
  /\ drive_in' = [p \in Pin |-> p \notin Targets(k) /\ drive_in[p]]
  /\ UNCHANGED <<tables, pending, drive_out, building, errors>>

-----------------------------------------------------------------------------
Init ==
  /\ alive = {Sim} /\ clocks = {}
  /\ components = [d \in Device |-> <<>>] /\ devices = [d \in Device |-> <<>>]
  /\ local_index = [c \in Component |-> 0] /\ flags = [d \in Device |-> 0]
  /\ propagate_next_tick = [d \in Device |-> <<>>] /\ queued = [d \in Device |-> <<>>]
  /\ connections = [s \in Source |-> NoTargets]
  /\ drive_in = [p \in Pin |-> FALSE] /\ drive_out = [p \in Pin |-> FALSE]
  /\ building = <<Sim>> /\ errors = FALSE

Next ==
  \/ \E g \in Gate : AddGate(g)
  \/ \E d \in Device : BeginDevice(d)
  \/ \E outputsChanged \in BOOLEAN : EndDevice(outputsChanged)
  \/ StabiliseSim
  \/ \E s \in Connectable : \E q \in Reach(s) : GateConnect(s, q) \/ DeviceConnect(s, q)
  \/ \E k \in clocks : \E q \in UNION {PinsOf(c) : c \in Visible(Sim)} : ClockConnect(k, q)
  \/ Misnamed
  \/ \E p \in Spare : MarkNotConnected(p)
  \/ \E c \in Component : PurgeChild(c) \/ PurgeGlobal(c)
  \/ \E k \in Clock : AddClock(k) \/ PurgeClock(k)

Spec == Init /\ [][Next]_vars

-----------------------------------------------------------------------------
(* What makes the builder correct.                                         *)

\* A pin never has two drivers, not even twice the same one: neither the order of
\* Connect calls nor any purge in between gets past the drive-in flag.
OneDriver ==
  \A q \in Pin :
    LET drivers == {s \in Source : connections[s][q] > 0} IN
    Cardinality(drivers) <= 1 /\ \A s \in drivers : connections[s][q] = 1

\* The drive flags, kept at the two ends of a connection, agree with it: a pin is
\* marked as driven exactly if something drives it (or a magic engine sets it),
\* so a purge leaves no pin blocked and none open to a second driver; and a pin
\* that drives something is marked as driving.
DriveFlags ==
  /\ \A q \in Pin : drive_in[q] <=> \/ Owner[q] \in alive /\ q \in MarkedIn(Owner[q])
                                    \/ \E s \in Source : connections[s][q] > 0
  /\ \A s \in Pin : Targets(s) # {} => drive_out[s]

\* A connection, whichever purges have taken place, leads to a Component that exists;
\* it comes from another, or from a Clock that exists, and then leads to a Component
\* directly in the Simulation.
NothingDangling ==
  \A s \in Source : \A q \in Targets(s) :
    /\ Owner[q] \in alive
    /\ s \in Clock => s \in clocks /\ Parent[Owner[q]] = Sim
    /\ s \in Pin => Owner[s] \in alive

\* Every child's local index is its position in its parent's m_components, and
\* the propagation flags reach as far: both are what the queues are indexed by.
IndexIsPosition ==
  \A d \in Device :
    /\ \A i \in DOMAIN components[d] : local_index[components[d][i]] = i - 1
    /\ Len(components[d]) <= flags[d]

\* The check that ends the Simulation's Stabilise() looks at flags, not connections.
\* Still, when it finds nothing, every input of a Gate, and every pin of a Device
\* inside a Device, is at the end of a connection, whatever was purged before.
BuildCheckIsSound ==
  Here = Sim /\ Unconnected = {} =>
    \A q \in Pin : Owner[q] \in alive /\ Direction[q] \in {1, 2} =>
      \/ \E s \in Source : connections[s][q] > 0
      \/ q \in MarkedIn(Owner[q])
      \/ IF Owner[q] \in Gate THEN Direction[q] = 2
         ELSE Direction[q] = 1 /\ Nesting(Owner[q]) = 1

\* What is queued for propagation is a child that exists, under its own index: it
\* is safe to delete a Component, as the comment at the end of its purge says.
QueuedIsRight ==
  \A d \in Device \cap alive : \A i \in DOMAIN queued[d] :
    queued[d][i] \in alive /\ local_index[queued[d][i]] = propagate_next_tick[d][i]

\* The wires and parts that the connections amount to.
Wires == UNION {{s} \X Targets(s) : s \in Source}
W == INSTANCE Wiring WITH parts <- alive \cup clocks, wires <- Wires, refused <- errors
ImplementsWiring == W!Spec

=============================================================================
