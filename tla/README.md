# A TLA+ model of cpp_logic_simulation

cpp_logic_simulation simulates digital circuits: logic Gates are wired into
Devices, Devices into larger Devices, and the largest one, the Simulation, is
driven by clocks and solved once per tick. This directory holds the
specifications of its core, the TLC configurations that model-check them, and
proofs of the results that matter for every circuit and every number of threads.

## 1. Inventory

| component | source (`src/...`) | state | operations | interacts with |
|---|---|---|---|---|
| Gate | `sim_src/core/c_gate.cpp` | pins, one list of connections | Initialise, Set, Evaluate, Propagate, Connect, Reset, Purge* | its parent Device's queue; `Set` of the targets |
| Device, the solver | `sim_src/core/c_device.cpp` 199-241, 557-776 | pins, `m_ports`, the queues `m_propagate_next_tick`, `m_propagate_this_tick`, `m_solve_this_tick` and their flags, `m_buffered_propagation` | Stabilise, Solve, SubTick, PropagateInputs, Propagate, Set, QueueTo*, AppendChildPropagationIdentifier | calls `Set` and `Solve` of children, queues itself in its parent |
| Device, the builder | `c_device.cpp` 39-131, 243-555, 778-1153, `c_comp.cpp` | `m_components`, `m_devices`, drive flags | Create*Pins, AddComponent, AddGate, Connect, ChildConnect, Purge* | the tables of parent and siblings |
| Simulation | `c_sim.cpp` | clocks, probes, magic engines, errors, messages, running flag, tick index | Run, Add*, Stop, Log*, Purge* | everything |
| Clock, Probe | `c_clock.cpp`, `c_probe.cpp` | toggle pattern position, ticked flag; samples | Tick, Reset, TriggerProbes; Sample, Reset | `Set` of the targets; sampled after the top-level Solve |
| MagicEngine and magic devices | `c_m_engine.cpp`, `magic_devices/*.cpp` | event traps; memory, FIFO buffers, data-ready flag | CheckMagicEventTrap, InvokeMagic, UpdateMagic | called from inside `Device::Set`, calls `ChildSet`/`Set` |
| Thread pool | `void_thread_pool/void_thread_pool.cpp` | job queue, pending count, two locks, two condition variables | AddJob, WaitForAllJobs, Finish, WorkerFunction | runs `Device::Solve` of the children of one nesting level |
| Device library | `devices/*.cpp` | netlists only | Build | the builder |
| Utilities | `utils/*.cpp` | none | compareNat, conversions | the builder, the RAM and ROM files |
| Game of life | `devices/game_of_life/game_of_life.cpp` | netlists only | Build of a cell and of the grid, SiblingID, CloseOverRange | the builder |
| Terminal client | `simple_terminal_client/` | three pipes | its main loop | the Terminal's magic engine, through the pipes |

How they interact. The constructors of Devices call the builder and end in
Stabilise; from then on everything is driven from the top. Run updates the magic
engines, ticks the Clocks, which set pins, solves the Simulation, and samples;
within a Solve a Device calls Set and Solve of its children and the children
queue themselves in it. A magic engine is called from inside `Device::Set`,
while its Device's pin still has its old state.

The hard part is the order of events. A pin change is not a function call that
returns a settled circuit: it sets a pin, marks it, and queues a component in
one of three queues, and it is picked up later, perhaps by another thread,
perhaps one level up, perhaps after the same pin has changed again. Nothing in
the code waits for a particular event; correctness rests on no mark, no queue
entry and no flag ever going missing or outliving its use. The other hard parts
are the thread pool, the tables that are renumbered when a component is purged,
the two processes of the terminal, and circuits whose meaning depends on the
order in which their connections were made.

What makes each component correct:

- **Solver**: when the top level has been solved every connection carries the
  state of its driver and every Gate shows its operator's value, or an error
  says so; one thread at a time in any subtree; no Device queued twice; the
  queues are not changed while they are iterated; every Solve returns.
- **Thread pool**: WaitForAllJobs and Finish return exactly when every job has
  run; each job runs once; nobody sleeps through the last notification.
- **Builder**: one driver per pin, drive flags that agree with the connections
  after any sequence of Connect and Purge; nothing that refers to a purged
  Component; tables that agree with one another.
- **Run, clocks, probes**: one sample per tick of the trigger clock, taken from
  a settled circuit, across errors, stops, restarts and purges.
- **Memories**: an edge of the clock is one step for all of them.
- **Terminal**: no character lost, doubled or overtaken; data_waiting tells the
  truth whatever its flag starts as; where the two processes wait for one another,
  in their opens, their writes and at the end, and that nowhere else does either.
- **Device library, game of life**: each netlist is the machine it is named for,
  whatever the order in which its inputs change.

## 2. Modules

| module | what it is |
|---|---|
| `Solver` | the event-driven solver for an arbitrary circuit, given as constants |
| `MCSolver` | circuits for TLC: chips as trees of records, flattened into `Solver`'s constants |
| `JobPool` | what the solver needs of its thread pool (abstract) |
| `ThreadPool` | VoidThreadPool with its locks and condition variables; shown to implement `JobPool` |
| `Netlist`, `MCNetlist` | building and purging: the tables of children, connections, drive flags |
| `Wiring` | what a circuit under construction is: parts and wires (abstract); `Netlist` implements it |
| `Simulation`, `MCSimulation` | Clocks, Probes, magic engines, the loop of Run, purges, destruction |
| `Sampling` | what whoever reads the Probes is promised (abstract); `Simulation` implements it |
| `Memory`, `MCMemory` | event traps, SimpleRam and SimpleRom in a Simulation |
| `ClockedMemory` | what memories on a clock promise (abstract); `Memory` implements it |
| `Terminal`, `MCTerminal` | the SimpleTerminal, its pipes and its client process |
| `Circuits` | a tree of chips with Device::Solve as one step, for circuits of hundreds of Gates |
| `Devices`, `GameOfLife` | every Build() method of the library, and of the cell and the grid, as a chip |
| `Flops` | what a bank of master-slave flip-flops promises (abstract) |
| `CellRule`, `LifeCell` | what a cell does at the edges of its clock, and at any change of its inputs (abstract) |
| `LifeGrid`, `MCGrid` | cells wired as `GameOfLife::Build` wires them, on one clock |
| `Life` | Conway's game (abstract); `LifeGrid` implements it |
| `MCDevices` | the bench: one Simulation that holds every chip |
| `QueueLemmas` | what appending to, popping and moving a queue does to its elements |
| `SolverProofs` | the solver's inductive invariant: the types; who is in Solve and who is queued for it (control); that no change is lost and that what the probes sample has settled (data) |
| `ThreadPoolProofs` | the pool's invariant, and that it implements `JobPool` |
| `TerminalProofs` | the Terminal's characters and its data_waiting flag |
| `SimulationProofs` | the Simulation's lists and samples, and that it implements `Sampling` |
| `NetlistProofs` | the builder's tables, connections and flags, and that it implements `Wiring` |
| `MemoryProofs` | the invariant of the memories, and that `Memory` implements `ClockedMemory` |
| `LifeProofs` | the connections of the grid, and that `LifeGrid` implements `Life` |

How they fit: `Netlist` builds the circuits that `Solver` takes as a constant
(its `ConnectAssumption` is what `OneDriver` and `NothingDangling` say);
`ThreadPool` is the pool that `Solver` abstracts to a number of workers; `Solver`
shows that a Solve settles the circuit, which is one step in `Simulation`
(`Settled`), in `Circuits` and, for Devices without children, in `Memory`.

### Solver

The circuit is constant: `Pin`, `Owner`, `Direction`, `Targets` (a Device's
`m_ports`, a Gate's `m_connections`), `Parent`, `Children`, `Operator`. The
named assumptions `TreeAssumption`, `PinAssumption` and `ConnectAssumption` say
what the builder guarantees: a tree, pins in the order of `m_pins`, wires only
between the ends `Device::Connect` accepts, and at most one driver per pin.
`External` are the pins that Clocks and ChildSet set; they may be driven by
another pin too, as the README's own SR latch demonstration does with "false".

| variable | code |
|---|---|
| `state`, `state_changed` | `pin.state`, `pin.state_changed` |
| `propagate_next_tick`, `next_tick_flag` | `m_propagate_next_tick`, `m_propagate_next_tick_flags[child]` |
| `propagate_this_tick`, `this_tick_flag` | `m_propagate_this_tick`, `..._flags[child]` |
| `solve_this_tick`, `solve_this_tick_flag` | parent's `m_solve_this_tick`, child's `m_solve_this_tick_flag` |
| `buffered_propagation` | `m_buffered_propagation` |
| `phase`, `current`, `pinAt`, `connAt`, `started`, `sub_tick_count` | where the Device's `Solve` has got to: its program counter and loop variables |
| `built`, `errors` | which constructors have called Stabilise; `m_error_messages` |

Each call of `Component::Set` is one action, so that the Devices which the pool
solves in parallel interleave pin by pin. The actions of one Device's `Solve`:

| action | code in `c_device.cpp` |
|---|---|
| `Enter` (part of `StartChild`, `Stabilise`, `SolveTop`) | 571-574 |
| `SkipPin`, `TakePin`, `Deliver`, `LeavePin` | PropagateInputs 690-705, Propagate 707-722, `Gate::Propagate` |
| `BeginSubTick`, `BeginPropagate` | SubTick 650-668 |
| `Repeat`, `Stall`, `Quiesce` | 581-601 |
| `StartChild`, `EndChildren` | 610-637, sequential and threaded |
| `Return` | 639-646 |

`Set` dispatches to `SetGateInput` (with Evaluate and QueueToPropagate),
`SetDeviceInput` (with QueueToSolve), `SetDeviceOutput` and `SetAllStop`.
`Stabilise` is the end of a Device's constructor, children first; `Drive` and
`SolveTop` are what Clocks, ChildSet and Run do between solves.

Messages and monitors are left out; the magic traps are in `Memory`. `AppendChildPropagationIdentifier`
takes a mutex in a threaded parent; the append is one action either way. The
pool is abstracted to its number of workers: `StartChild` is "a worker takes the
job", `EndChildren` waits for all of them. `ThreadPool` justifies that.

### ThreadPool and JobPool

One action per critical section; what lies between two of them is where another
thread may run. A wait is "release the lock and sleep" in one step, and can end
spuriously (`WakeWorker`, `WakeOwner`). `held[w]` is the local variable `job`,
`adding` the argument of the AddJob in progress. `JP == INSTANCE JobPool` maps
the owner's position to working / waiting / finishing / stopped.

### Netlist and Wiring

A Component is a place in the tree with a name, a parent and pins; it is
constructed, may be purged, and may be constructed again. `alive`, `components`
(`m_components`), `devices` (`m_devices`), `local_index`, `flags` (the length of
the two vectors of propagation flags) and `propagate_next_tick` are the tables;
`connections` counts the descriptors from a pin or Clock to a pin; `drive_in` and
`drive_out` are the flags at the two ends; `building` is the stack of
constructors in progress. `BeginDevice` and `EndDevice` bracket the Build()
method of a Device, between which its children are added and connected. The
connecting actions take their source from `Connectable` and their target from
`Reach`: what a Build() method can name. `Wire`, `Refuse` and `Compatible` are
the checks of Connect with their error messages; `PurgeChild`, `PurgeGlobal` and
`PurgeClock` are the three ways to purge. `refused` in `Wiring` is all that is
left of an error: the promise is that nothing else changes.

### Simulation and Sampling

One action per step of the loop of Run: `UpdateMagic` for one engine, `BeginTick`,
`Tick` of one Clock, `SolveTick` with the probes' triggers, `EndTick`, and `Stop`
for an error or the key; between two runs, adding and purging Clocks, Probes and
Components and `ChildSet`. The circuit is a function `Settled` of its old state
and the levels held at its pins. `Sampling` has one step per tick: all Clocks
take their next levels, the circuit settles, all Probes record it. The refinement
holds with the identity on the lists and, as the number of a tick, the index of
the Clock minus one while it is marked as ticked.

### Memory and ClockedMemory

`Set` is `Device::Set`, one call per step, and within it `Incantations` is
CheckMagicEventTrap and `Put` and `Store` InvokeMagic, all evaluated in the state
before the pin changes, as in the code. `SolveChild`, `BeginSubTick` and
`Propagate` are the parts of the Simulation's Solve that a Device without
children sees. Pins of a ROM are named as those of a RAM (`d_out` for `d`). A bit
of `m_magic_pin_flag` beyond its end, which the address pins of a ROM have, makes
no difference: no trap is on those pins. 
`Drive` is a Clock's Tick or a ChildSet: it sets the pins that the source drives,
one after the other. Several sources may change before the Simulation is solved,
as Run ticks all Clocks first; `driven` holds those that have. `BeginSolve` and
`EndSolve` bracket the Solve (`solving`), after which the pins that the memories
drive have their new levels (`fed`). `ClockedMemory` has one step per change of a
source (`Move`) and one per Solve (`Feed`), in which what the memories put out
arrives, for all of them at once. The map (`Mapped`) is the state itself, except
while the change of a source is under way, when it is the state before it
(`before`): the change is one step, taken with the last `Set`. `Seen` is the one
subtlety of the promise: a pin that the same clock drives has already changed if
it comes before `clk` among the Clock's targets.

### Terminal

`master` and `client` are where the two processes are: fork, the three mkfifo
and open calls of each side, the simulator's ticks (`Idle`, `RiseRead`,
`ReadNothing`, `RiseWrite` with `Write`, `Fall`, each with the UpdateMagic before
it), the client's loop (`Getch`, `WriteKey`, `ShowText`, `Command`), and the end
(`ShutDown`, `Finish`). `pipe` is what is in each pipe; `buffer` is the deque of
characters, newest first. Nothing that the code leaves open is assumed away:

- the client is forked before the pipes are made, and `OpenClient` may run at any
  time after that; `Missed` are the pipes that it tried to open before they were
  there. Its keys are lost if the first is among them, and if one of the others is,
  the simulator waits for a reader for ever;
- `waiting_flag` starts as either value. If it is up while the buffer is empty a read
  takes a character from an empty deque (`ReadNothing`); of what follows nothing is
  said;
- the pipe of the keys may fill up. `RiseWrite` and `Write` are two steps because the
  simulator, too, may wait for room. `KeysFull` is the client in its write without
  room; it may be left there when the simulator ends (`Blocked`).

### Circuits, Devices and the game of life

`Devices` and `GameOfLife` write every Build() method as a record: parts and
wires in the order in which the code adds and connects them. `Circuits` flattens
a tree of such chips, builds it (`Build`: random Gate inputs, then Stabilise from
the leaves up), and makes one step of each change of an input: `ChildSet` is Set
and the whole Solve, with the queues and the order of propagation that the code
has. The variable `built` holds the tables of the flattened tree, which do not
change; `circuit` the rest. The abstract machines are stated over the pins:
`Flops` for the flip-flops, five counters and two registers, `LifeCell` for the
cell. The grid is checked one level up: `LifeGrid` puts cells that behave as
`CellRule` says on the connections of `GameOfLife::Build`, because all the Gates
of a grid at once are beyond TLC; that the Gates of a cell behave as `LifeCell`
says, and `LifeCell` takes its steps from `CellRule`, is checked in `devices`.
`LifeGrid` writes the connections with numbers (`Wires`); that the chip
`GameOfLife` has just these between its cells is an assumption of `MCGrid`
(`ChipAssumption`), which TLC evaluates. A grid has two rows at least: the only
cell of a grid of one is connected to cells 1 and 2 (`game_of_life.cpp:233`, the
top-left corner leaves targets 2 and 3 as they are), which do not exist.

## 3. Runs

| run | instance | checks | shows |
|---|---|---|---|
| `solver_latch` | two SR latches in series, the second's output on `all_stop`, `true` on the first's R; at the first's output a pulse of one sub-tick into a Gate fed back to itself; sequential | TypeOK, SolveFlags, PendingPropagation, NothingLeftBehind, SettledWhenSampled, SolveReturns | no change is lost between levels, from construction on, whatever is driven in whatever order |
| `solver_threads` | a Device with two latches and a Gate, solved by two threads | CallStack, ChangesScheduled, SettledWhenSampled, NotModifiedWhileIterated | the same under every interleaving of the two threads |
| `solver_ring` | a gated ring oscillator beside a latch | NothingLeftBehind, SolveReturns | the limit ends every Solve, and unfinished work is left only with an error |
| `solver_loop` | an inverter Device fed back through its own pins | SolveReturns (violated) | the limit does not see oscillation through child Devices (section 6) |
| `thread_pool` | 2 workers, 3 jobs | TypeOK, CountIsExact, JobInOnePlace, NoLostWakeup, PoolSpec, PoolFairSpec | the pool implements JobPool, with liveness |
| `netlist` | a Simulation with a Gate, a Clock and two Devices of one name, one holding a Gate, one magic | OneDriver, DriveFlags, NothingDangling, BuildCheckIsSound, IndexIsPosition, ImplementsWiring | the builder's tables, flags and connections agree after every sequence of constructions, connections, refusals and purges |
| `netlist_queue` | the same without the magic Device, with the queues | QueuedIsRight (violated) | a purged Component stays queued (section 6) |
| `simulation` | two Clocks with patterns of 2 and 3, two Probes of one name, a magic engine, a toggle flip-flop | ListsAgree, SamplesInStep, ImplementsSampling, RunEnds | one settled sample per tick of the trigger clock; no list refers to what is gone |
| `memory` | two RAMs and a ROM that address and feed one another | PinsFollow, ImplementsClocked | an edge is one step for all memories, in whatever order the traps fire |
| `terminal` | three keys, three characters of text, pipes of two; the client early or late, the flag up or down at first | CharactersInOrder, WaitingRight, StartupEnds, SimulatorGoesOn | order, data_waiting, and exactly when the two processes get through their start, their writes and their end |
| `devices` | every chip of the library and the cell, 615 Components | CombinationalFollow, BanksFollow, SetReset, CellSpec | each netlist is the machine it is named for |
| `grid` | 4 x 4 cells, 512 patterns | PlaysLife, NinthCycle | nine cycles are a generation |

Bounds.

*Solver.* The state spaces are finite without any constraint: every counter is
bounded by the circuit or by `m_max_propagations`. The latches give feedback
(sub-ticks that re-queue a Gate already propagated), two levels of nesting below
the Simulation, siblings driving each other, a Device re-queued while its
parent's pass is under way, and outputs that change twice in one Solve. The nand
that is fed back to itself changes while its own connections are being served, so
that its targets are given different states by one propagation; the pulse that it
answers is shorter than the limit, and it settles.
`m_max_propagations` is 4 (3 for the ring) instead of 10: the latches settle
within it and the ring does not, which are the two cases there are. Gate inputs
start all low or all high; the code draws them at random, and Stabilise
overwrites or evaluates all of them.

*Thread pool.* Two workers and three jobs are enough for a job to wait in the
queue while both workers are busy, and for a worker to take a second job while
the owner is in each part of AddJob.

*Netlist.* Three children of the Simulation, so that one purged in the middle
renumbers those after it, and one level more, so that a purge goes through two
tables. `MaxFlags` 2: a Component is constructed at most so often that the flag
vectors have two entries; a Device that is purged takes its entry with it
(`c_device.cpp:1125`), a Gate leaves its own behind. `MaxQueue` is 0 except in
`netlist_queue`, where what is queued is the question.

*Simulation.* `MaxTicks` 4 covers both patterns and a return to the start of
each; runs of 0 (until stopped) and 2 ticks; `InputCheckLimit` 1 instead of 1000.

*Memory.* One- and two-bit addresses, one- and two-bit words, three lines for the
ROM, so that one is padded. Every source is set, in any order and any number of
them before a Solve, each at most once, as a Clock ticks once. The clock drives an
address pin before `clk` and another after it.

*Terminal.* Two characters of each kind are needed for an order to be wrong, and
three keys for pipes of two: with the pipe full the client waits with the third in
its hand, at the end as well as while the simulator waits in a write of its own.
The welcome and two characters more fill the other pipe.

*Devices.* Counters and latches of 3 and 4 bits, registers of 2, a mux of three
busses of two bits (so one selection is of no bus), chains of 10 and 11 inverters
(an even and an odd one, the second the longest that can settle with
`m_max_propagations` at its real value of 10). Each behaviour sets the pins of one
subject; the Simulation is the same for all. Random Gate inputs: one pattern that
differs from pin to pin. Of the cell's siblings one is alive throughout and three
change at any time: all counts from one to four, where the rule makes its
differences.

*Grid.* Every pattern in a 3 x 3 corner of a 4 x 4 torus: still lives, blinkers,
gliders, and growth over the border.

Fairness. `WF(SolveStep(d))` for each Device: a C++ call stack keeps running and
the operating system schedules every thread of the pool. Nothing is assumed of
`Drive`, `SolveTop` and `Stabilise`. In the pool, `WF(WorkerStep(w))` and
`WF(OwnerStep)` are again scheduling, and no fairness is put on spurious
wake-ups, so that liveness rests on the notifications alone. In `Simulation`,
`WF(LoopStep)`: the thread of Run goes on; the key and the user's calls are free.
In `Terminal`, each process goes on when it can (`WF` of `Startup`, `ClientStep`,
`Write` and `Finish`); nothing makes a key be typed, a clock tick or the simulator end.
The other runs check safety only, `grid` apart, whose clock ticks.

Deadlock is checked in every run but `simulation`, which stops when the
Simulation has been destroyed or `MaxTicks` is reached.

Every property of every passing run has a mutant (`Mutant*` definitions, beside
the operator they alter), a plausible slip in that code that violates it.

## 4. Proofs

`tlapm` checks all of them, for every value of the constants.

- `SolverProofs`, the types: `TypeCorrect`, `Spec => []TypeOK`, for every circuit
  that satisfies the three assumptions. The type invariant is inductive by itself;
  the work is in the queues (what is appended is a child of the Device that owns
  the queue) and in the pin indices of the scan.
- `SolverProofs`, the control: `ControlInvariant`, `Spec => []Control`. `CallStack` and
  `SolveFlags` are not inductive as they stand. That a Device's ancestors are all
  in their loop over the children follows only if a Device queues nothing but
  children of its own (`Homes`); that it is not started a second time, only if
  its pending flag is clear while it is being solved (`BusyClear`), because
  everything waiting has the flag set; and that no stale entry is met, only if
  Devices are built from the leaves up (`Construction`). `Loops` ties the
  sub-tick's queue and the connection index to the phases that use them. The
  theorems taken from it are `CallStackHolds`, `SolveFlagsHold` and, as an action
  property, `LoopsUndisturbed`: the loops of Solve and SubTick may iterate over
  their vectors by reference because whoever could append to them is, by
  `CallStack`, not running.
- `SolverProofs`, the data: `SolverInvariant`, `Spec => []SolverInv`, where `SolverInv` adds
  to `Control` the properties `PendingPropagation` and `ChangesScheduled` and four
  parts they need. `Untouched`: the pins of a Device under construction are all
  still marked, so nothing is lost by wiring it up before its first Solve.
  `FlagsQueued`: a Gate is skipped by QueueToPropagate only when it is in a queue.
  `Evaluated`: a Gate's output already follows its inputs, so Gate::Set loses
  nothing by leaving when its output would not change. `Clean`: a Device that
  leaves Solve without an error leaves empty queues. The step that carries the
  proof is a delivery: it makes one connection agree, its Set marks and queues
  whatever else it changes, and by `CallStack` no other thread has a hand in the
  same pins. From it follow `NoChangeLost`, `ChangesAreScheduled`,
  `NothingIsLeftBehind` and `SettledIsSampled`: when the top level returns every
  queue in the tree is empty, so no driver is marked, so every connection agrees,
  for every circuit the builder accepts and any number of threads, or an error
  has been logged.
- `QueueLemmas`: the elements of a queue after an append, a pop and a move.
- `ThreadPoolProofs`: `PoolInvariant`, `Spec => []PoolInv`, for any number of
  workers and any finite set of jobs. `CountIsExact` alone is not inductive:
  the counter is decremented by a worker that must still hold an uncounted job
  (`InHand`), which must be in no other place (`JobInOnePlace`). `Ledger` says
  where every unfinished job is and `Stopping` that workers stop only with an
  empty queue. From it `PoolTypes`, `CountCorrect`, `NoJobTwice`, `WakeupsArrive`
  (`NoLostWakeup`: no job waits while every worker sleeps unnotified), and
  `PoolImplemented`: `Worker # {} => (Spec => PoolSpec)`, each step of the
  threads is a step of JobPool or none. The assumption is needed: Finish on a
  pool without workers returns with the jobs still queued.
- `TerminalProofs`: for any characters, any capacity of the pipes and any number of
  keys, whatever the flag starts as and whenever the client comes. `TermInv` is the
  types, `Contents` (what each pipe may hold, and that none holds more than it can),
  `Stages` (nothing is written before the welcome, and the end is told only by the
  destructor) and `Connected` (the simulator gets through its constructor only with
  the pipes of text and commands open at the other end); `TerminalTypes` is that.
  `TerminalInOrder` (`CharactersInOrder`) says of every start where the characters
  are, and of one in which the client missed the pipe of the keys that none has
  arrived; its work is about `Reverse`, for the buffer is kept newest first and read
  from its end. `TerminalWaitingRight` (`WaitingRight`) rests on `PinTrue`, which
  holds for either value of the flag; that flag, pin and buffer agree from the start
  needs a flag that is down (`TerminalFlagDown`), and nothing in the code sees to
  it. `TerminalWrites` is the safety behind `SimulatorGoesOn`: as `RoomLeft` counts,
  the client has taken a character for every key that it passed on since the
  simulator began to wait, so that never both pipes are full with both processes
  in a write.
- `SimulationProofs`: for any Clocks, patterns, Probes, Components and function
  `Settled`. `SimInv` has, besides the types and `SamplesInStep`, `Lists` (m_probes
  and each Clock's list agree), `References` (with the destructor's order in
  mind), `Turn` (which Clocks are marked as ticked at which point of the loop),
  `Levels` (a Clock's position in its pattern follows from its count) and
  `Unsampled`. `SamplesInStep` needs `Turn`: between Tick and Sample a Clock is one
  ahead of its Probes, and only the loop's position says which Clocks are. The work
  with m_probes is in `Without`: a purge keeps the order of what it leaves, by the
  ranks of what is kept. From it `SimulationTypes`, `ListsAlwaysAgree`,
  `SamplesAlwaysInStep` and `SimulationImplementsSampling`.
- `NetlistProofs`: for every tree of Components, any pins, names, magic Devices and
  Clocks, and any order of adding, connecting and purging. `NetInv` is `TableInv`
  and `WireInv`. Of the tables, `IndexIsPosition` is not inductive: `Children` says
  that m_components holds, once each, complete children that exist, `Path` that the
  Devices whose constructors are under way are a path down the tree, and `Reserved`
  that each of them still has the index and the flag that its entry will need,
  which is why nothing may be purged from a Device that waits for the Build() of
  another (`PurgeReaches`: no code can). `Omit` is what erasing an entry does.
  Of the connections, `DriveFlags` and
  `NothingDangling` need `Single` (a purge clears a flag on behalf of one driver)
  and `Wired`, with `Leads`: a connection stays within one Device or goes one level
  down or up. That carries the proof: `RightlyForgotten` shows that those whom
  PurgeInboundConnections and PurgeComponentFromClocks ask are all that could have
  led into what goes, however deep, and that only the out pins of the Component
  itself, which PurgeOutboundConnections looks at, lead out. From it `NetlistTypes`,
  `AtMostOneDriver`, `FlagsAgree`, `NothingDangles`, `IndicesHold`, `CheckIsSound`
  (`Deep`: nesting levels are finite, so those of the Simulation's children are one
  exactly if their parent is the Simulation) and `NetlistImplementsWiring`, action
  by action: the constructors are `Add`, a connection is `Connect` or `Refuse`, a
  purge `Remove`, the rest stutters or refuses. Nothing is assumed beyond
  `NetlistAssumption`, the shape of a tree and of its pins.

- `MemoryProofs`: for any RAMs and ROMs, any widths that the code can do, any lines of the ROMs, and any
  wiring with one driver per pin in which no `clk` is driven by a memory
  (`MemoryAssumption`; a clock made by a memory would edge in the middle of a
  Solve, which is no step of `ClockedMemory`). `MemInv` has the types
  (`MemoryTypes`) and, for the queues, `Queued`: a memory with an output not yet
  propagated is marked, and a marked one waits somewhere, which `PinsFollow`
  (`PinsAlwaysFollow`) needs at the end of a Solve. `Undriven` pins stay low;
  `OutFollows` and `SourceFollows` say where a pin and its driver may differ (the
  change is in `wave`, or the out pin is still in `changed`), `SolvingWave` that
  what travels during a Solve comes from an out pin with its present state, and
  `FedFollows` that between two Solves the driven pins are as `fed` has them. What
  makes `ImplementsClocked` (`MemoryImplementsClocked`) inductive is `InFlight`:
  while k of the pins of a source have been set, the memories whose `clk` is among
  the first k have answered the edge by what was there before it, the others not at
  all. The step is `FlightStep`: the trap that fires reads the pins as `Seen` says
  (`SeenNow`), because no memory's answer reaches a pin before the Solve.
- `LifeProofs`: for every `Side` from two. First the arithmetic: `TargetValues`
  evaluates the nine cases of `GameOfLife::Build`, and `TargetPlace` concludes that
  target_cell_s of a cell is the cell that Conway's torus has in that direction,
  for products and remainders of the number of the cell. With `ThereAndBack` (a step
  and the opposite one lead home) a cell's input i is alive exactly if its place
  has an alive neighbour there (`SeenAlive`), and the numbers agree (`SameNumber`).
  `LifeInv` (`LifeInvariant`) then says that all cells are in the same cycle
  (`InStep`), that each has counted, modulo eight, those of its siblings alive whose
  cycle is over (`Counted`), and that it hears the one of this cycle while the clock
  is high (`Hears`). `NinthCycle` alone says nothing of the count, and `PlaysLife`
  nothing of the cycle: neither is inductive. Counting to eight in three bits is
  harmless because eight and none have the same outcome (`EightIsNone`). From it
  `GridPlaysLife`, `OnlyTheNinthCycle` and `CellsKeepTheirPromise`: each cell of
  the grid is a `LifeCell` with the siblings that its connections give it, which
  ties the grid to the promise that the circuit of a cell is checked against.

Only model-checked are:

- liveness, which is out of the prover's reach: SolveReturns, PoolFairSpec,
  RunEnds, StartupEnds, SimulatorGoesOn;
- what runs in `Circuits`: CombinationalFollow, BanksFollow, SetReset, CellSpec.
  The module evaluates a circuit with RECURSIVE operators, for which tlapm has no
  SMT backend, and what its recursion computes could only be proved by induction
  over the queues. (`Devices` and `GameOfLife`, the chips themselves, have none.)

Every other property of the passing runs, the five refinements among them, is
proved for every value of the constants: `PoolSpec`, `ImplementsWiring`,
`ImplementsSampling`, `ImplementsClocked` and `PlaysLife`.

## 5. Plan

Done: `Solver`, `ThreadPool`, `Netlist`, `Simulation`, `Terminal`, `Memory` and
`LifeGrid`, checked, and their safety and refinements proved; the Device library
and the cell of the game of life, checked.

Left, in this order: Reset as an action of `Solver`, with the queues a stalled
Solve leaves behind; an evaluation of circuits without recursive operators, so
that the chips of the library can be proved to be the machines they are named for,
for every width.

## 6. Findings met while modelling

Checked, as runs that expect a violation:

- `solver_loop`: `m_max_propagations` bounds the sub-ticks of one pass, and
  `c_device.cpp:587` resets the count before the children are solved. A circuit
  that oscillates through a child Device makes Solve loop forever; the error
  that line 592 announces is never logged. The ring inside one Device
  (`solver_ring`) is caught.
- `netlist_queue`: PurgeComponent leaves the index of a Component that is queued
  for propagation in its parent's queue; the index then denotes another child,
  or none.

Met while reading, and not the subject of a run; where the model departs from the
code because of one of them, it says so beside the definition:

- `PurgeChildComponentIdentifiers` (`c_device.cpp:1115`) compares positions in
  `m_devices` with a local index and does not renumber the entries, while the
  comment at line 251 says that the list holds the local indices. `Netlist` keeps
  the list as the code does; only the search by full name reads it.
- `~Simulation` destroys the list of magic engines before `~Device` deletes the
  children, whose engines take themselves off that list (`c_sim.cpp:452`,
  `c_m_engine.cpp:45`). `Simulation` lets the children go without harm.
- The message of AddProbe for a trigger clock that does not exist reads the
  clock's name through the null pointer (`c_sim.cpp:271`). Left out of the model.
- `m_data_in_waiting_flag` (`simple_terminal.h:83`) is read at
  `simple_terminal.cpp:222` before anything has set it. If it happens to be TRUE, the
  pin is not raised for the characters that come first, although
  `simple_terminal_demo.md:26` says that it is whenever the buffer was empty, and a
  read before there is one takes from an empty deque. `WaitingRight` says what holds
  all the same.
- `simple_terminal_demo.md:24` says that the FIFOs are made before the process is
  spawned; the code forks first (`simple_terminal.cpp:86`, then 92), and nothing
  delays the client's open. `StartupEnds` and `CharactersInOrder` say what becomes
  of a client that comes too early.
- At the end the simulator no longer reads the keys while it waits for the client
  (`simple_terminal.cpp:279`): if the pipe of the keys is full neither goes on, and
  the session is not closed "gracefully", as `simple_terminal_demo.md:41` has it.
  `SimulatorGoesOn` names this as the only exception.
- Device::Connect from a hidden output, from which there is nothing to connect
  onwards, goes on with a target that is the null pointer (`c_device.cpp:470`, 474).
  Left out of `Netlist`.
- SimpleRam shifts an int by the number of the data pin (`simple_ram.cpp:161`), and a
  SimpleRom's table of powers of two has eight entries (`simple_rom.h:59`): beyond 31
  data pins of the one and eight address pins of the other the result is not
  defined. `MemoryAssumption` stops there.
- `1_bit_register_demo.md:8` says that a register stores what is at its input when
  load is set, and is cleared when clr is set. A master takes every j and k while
  its clock is high: data that changes meanwhile leaves its mark
  (`devices.cpp:508`), and load and clr together do nothing (`devices.cpp:515`).
  `Flops` states what the netlist does.
- "Only logic circuits that are statically-stable state can be simulated"
  (`README.md:781`), but not all of those: the limit of propagations
  (`c_device.cpp:591`) is taken as a sign of oscillation, and a chain of twelve
  inverters in one Device passes the default of ten. The library's RLIC
  (`devices.cpp:811`) has 5001 and passes no limit of its own, so that it takes the
  Simulation's: its demonstration builds one with 100000
  (`really_long_inverter_chain.cpp:13`).
- The pins that NxM_Bit_Mux marks as not connected are counted from the width of
  the select bus as its square and not as a power of two (`devices.cpp:752`): for
  five to eight busses one output too many, which does not exist, for more than
  sixteen too few.
- `simple_ram_demo.md:10` says that the RAM acts when clk goes from high to low;
  its traps are on low to high (`simple_ram.cpp:59`). `simple_terminal_demo.md:26`
  says the same of the SimpleTerminal, whose traps are on low to high as well
  (`simple_terminal.cpp:66`), and that it writes while write is high: the trap asks
  only that read is low. Of the SimpleRom, whose trap is on high to low
  (`simple_rom.cpp:60`), `simple_rom_demo.md:10` is right.

## 7. Not modelled

Console output, monitors, message collation and its branch identifiers; the
reading of files; the position of the cursor in the client's window; a fork, a
mkfifo or an open of the simulator that fails, and a client window that is closed
before the end; Device::Reset and Gate::Reset, which repeat the
initialisation and Stabilise of the construction; string comparison and number
conversion, which serve the order of pins and the messages; the demonstrations,
which are programs that use all this.
