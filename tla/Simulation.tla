----------------------------- MODULE Simulation -----------------------------
(***************************************************************************)
(* The top-level Simulation: its Clocks, Probes and magic engines, the     *)
(* loop of Run, what may be added and purged between two runs, and its     *)
(* destruction.  How the circuit settles is the subject of Solver: here it *)
(* is a function of the state it was in and of the levels that the Clocks, *)
(* the magic engines and ChildSet hold at its pins.                        *)
(*                                                                         *)
(* The order of m_clocks and m_magic_engines is left out: their loops may  *)
(* take the entries in any order.                                          *)
(***************************************************************************)
EXTENDS Naturals, Sequences, FiniteSets, Functions

CONSTANTS
  Clock, Probe,
  Part,              \* Components that a Probe may look at
  Magic,             \* those with a magic engine
  Manual,            \* the source of what ChildSet sets
  State,             \* states of the circuit, settled
  Start,             \* the one its construction settles in
  Settled,           \* what Solve makes of a state and the levels held
  Pattern,           \* m_toggle_pattern
  Trigger,           \* m_trigger_clock_pointer
  Target,            \* m_target_component_pointer
  ProbeName,         \* m_name; Probes may share one
  InputCheckLimit,   \* input_check_count_limit
  RunLength,         \* the number_of_ticks that Run is called with
  MaxTicks           \* bound: ticks of a Clock

Source == Clock \cup Magic \cup {Manual}

ASSUME SimulationAssumption ==
  /\ Magic \subseteq Part /\ Start \in State
  /\ Settled \in [State \X [Source -> BOOLEAN] -> State]
  /\ \A c \in Clock : Pattern[c] \in Seq(BOOLEAN) /\ Pattern[c] # <<>>
  /\ Trigger \in [Probe -> Clock] /\ Target \in [Probe -> Part]
  /\ InputCheckLimit \in Nat /\ RunLength \subseteq Nat /\ MaxTicks \in Nat

VARIABLES
  parts,             \* the Parts that exist
  clocks,            \* m_clocks
  probes,            \* m_probes of the Simulation
  engines,           \* m_magic_engines: whose engine
  watching,          \* m_probes of every Clock
  index, sub_index,  \* m_index, m_sub_index
  ticked,            \* m_ticked_flag
  samples,           \* m_timestamps and m_samples
  held,              \* the level last set by every source
  circuit,
  errors,            \* m_error_messages is not empty
  phase,             \* where the loop of Run, or the destructor, is
  todo,              \* the rest of the loop over engines or Clocks
  number_of_ticks, tick_count, input_check_count, global_tick

lists == <<parts, clocks, probes, engines, watching>>
clockwork == <<index, sub_index, ticked>>
counters == <<number_of_ticks, tick_count, input_check_count, global_tick>>
vars == <<lists, clockwork, samples, held, circuit, errors, phase, todo, counters>>

Phase == {"idle", "magic", "tick", "solved", "destroyed"}

TypeOK ==
  /\ parts \subseteq Part /\ clocks \subseteq Clock /\ engines \subseteq Magic
  /\ probes \in Seq(Probe) /\ watching \in [Clock -> SUBSET Probe]
  /\ index \in [Clock -> Nat] /\ sub_index \in [Clock -> Nat]
  /\ ticked \in [Clock -> BOOLEAN]
  /\ samples \in [Probe -> Seq([index : Nat, state : State])]
  /\ held \in [Source -> BOOLEAN] /\ circuit \in State /\ errors \in BOOLEAN
  /\ phase \in Phase /\ todo \subseteq Magic \cup Clock
  /\ number_of_ticks \in Nat /\ tick_count \in Nat
  /\ input_check_count \in Nat /\ global_tick \in Nat

-----------------------------------------------------------------------------
(* What may be added and purged while no Run is under way.                 *)

\* Simulation::AddClock; a second Clock of that name is only reported.
AddClock(c) ==
  /\ phase = "idle"
  /\ IF c \notin clocks THEN clocks' = clocks \cup {c} /\ UNCHANGED errors
     ELSE ~errors /\ errors' = TRUE /\ UNCHANGED clocks
  /\ UNCHANGED <<parts, probes, engines, watching, clockwork, samples, held, circuit, phase,
                 todo, counters>>

\* A Component is built; its magic engine enters itself in m_magic_engines.
AddPart(x) ==
  /\ phase = "idle" /\ x \notin parts /\ parts' = parts \cup {x}
  /\ engines' = engines \cup ({x} \cap Magic)
  /\ UNCHANGED <<clocks, probes, watching, clockwork, samples, held, circuit, errors, phase,
                 todo, counters>>

\* Simulation::AddProbe and the constructor of Probe.  A missing target is reported.  For
\* a missing trigger Clock the message asks the null pointer for its name: what follows
\* is not defined, and left out.
AddProbe(p) ==
  /\ phase = "idle" /\ p \notin Range(probes)
  /\ IF Target[p] \in parts
     THEN /\ Trigger[p] \in clocks
          /\ probes' = Append(probes, p)
          /\ watching' = [watching EXCEPT ![Trigger[p]] = @ \cup {p}]
          /\ UNCHANGED errors
     ELSE ~errors /\ errors' = TRUE /\ UNCHANGED <<probes, watching>>
  /\ UNCHANGED <<parts, clocks, engines, clockwork, samples, held, circuit, phase, todo, counters>>

\* What is left of a sequence without some of its members: the n-th of those kept is the
\* one with n of them up to it.
Kept(s, P) == {i \in DOMAIN s : s[i] \notin P}
Without(s, P) ==
  [n \in 1 .. Cardinality(Kept(s, P)) |->
     s[CHOOSE i \in Kept(s, P) : Cardinality(Kept(s, P) \cap (1 .. i)) = n]]

\* Mutant: the Clock is not told.
MutantPurgeProbes(P) ==
  /\ probes' = Without(probes, P)
  /\ samples' = [p \in Probe |-> IF p \in P THEN <<>> ELSE samples[p]]
  /\ UNCHANGED watching

\* The destructors of these Probes: PurgeProbe.
PurgeProbes(P) ==
  /\ probes' = Without(probes, P)
  /\ watching' = [c \in Clock |-> watching[c] \ P]
  /\ samples' = [p \in Probe |-> IF p \in P THEN <<>> ELSE samples[p]]

\* Simulation::PurgeChildProbe: the first of that name.
PurgeChildProbe(p) ==
  /\ phase = "idle"
  /\ \E i \in DOMAIN probes :
       probes[i] = p /\ \A j \in 1 .. i - 1 : ProbeName[probes[j]] # ProbeName[p]
  /\ PurgeProbes({p})
  /\ UNCHANGED <<parts, clocks, engines, clockwork, held, circuit, errors, phase, todo, counters>>

\* Clock::PurgeClock: the Clock takes its Probes along.
PurgeClock(c) ==
  /\ phase = "idle" /\ c \in clocks
  /\ clocks' = clocks \ {c} /\ PurgeProbes(watching[c])
  /\ index' = [index EXCEPT ![c] = 0] /\ sub_index' = [sub_index EXCEPT ![c] = 0]
  /\ ticked' = [ticked EXCEPT ![c] = FALSE]
  /\ UNCHANGED <<parts, engines, held, circuit, errors, phase, todo, counters>>

\* PurgeMagicEngineDescriptorFromSimulation, by the destructor of the engine.
PurgeMagicEngine(x) == engines' = engines \ {x}

\* The destructor of a Component: PurgeComponentFromProbes and the purge of its engine.
PurgePart(x) ==
  /\ phase = "idle" /\ x \in parts /\ parts' = parts \ {x}
  /\ PurgeProbes({p \in Range(probes) : Target[p] = x}) /\ PurgeMagicEngine(x)
  /\ UNCHANGED <<clocks, clockwork, held, circuit, errors, phase, todo, counters>>

-----------------------------------------------------------------------------
(* Solving, and the loop of Run.                                           *)

\* Probe::Sample, with the number of the tick that Clock::TriggerProbes gives it.
Sample(p) == Append(samples[p], [index |-> index[Trigger[p]] - 1, state |-> circuit'])

\* Mutant: the Clocks stay marked as ticked.
MutantCheckProbeTriggers ==
  /\ samples' = [p \in Probe |->
       IF \E c \in clocks : ticked[c] /\ p \in watching[c] THEN Sample(p) ELSE samples[p]]
  /\ UNCHANGED ticked

\* Simulation::CheckProbeTriggers: every Clock that has ticked has its Probes sample.
CheckProbeTriggers ==
  /\ samples' = [p \in Probe |->
       IF \E c \in clocks : ticked[c] /\ p \in watching[c] THEN Sample(p) ELSE samples[p]]
  /\ ticked' = [c \in Clock |-> IF c \in clocks THEN FALSE ELSE ticked[c]]

\* Device::Solve of the top level: the circuit settles, then the Probes are triggered.
SolveUnder(levels) == circuit' = Settled[circuit, levels] /\ CheckProbeTriggers

\* Device::ChildSet while the simulation is not running.  As in a tick the pin
\* __ALL_STOP__ may be set meanwhile: an error.
ChildSet(level) ==
  /\ phase = "idle"
  /\ held' = [held EXCEPT ![Manual] = level]
  /\ SolveUnder(held')
  /\ errors' \in {errors, TRUE}
  /\ UNCHANGED <<lists, index, sub_index, phase, todo, counters>>

\* Mutant: only the Clocks are reset.
MutantReset ==
  /\ index' = [c \in Clock |-> 0] /\ sub_index' = [c \in Clock |-> 0]
  /\ ticked' = [c \in Clock |-> FALSE]
  /\ UNCHANGED samples

\* Clock::Reset of every Clock, and Probe::Reset of the Probes it triggers.
Reset ==
  /\ index' = [c \in Clock |-> 0] /\ sub_index' = [c \in Clock |-> 0]
  /\ ticked' = [c \in Clock |-> FALSE]
  /\ samples' = [p \in Probe |-> IF \E c \in clocks : p \in watching[c] THEN <<>> ELSE samples[p]]

\* The bound on the ticks of the Clocks and of the Simulation.
Room(ticks, restart) ==
  restart \/ \A n \in {index[c] : c \in clocks} \cup {global_tick} : n + ticks <= MaxTicks

\* Simulation::Run; with errors it only prints them.
Run(ticks, restart) ==
  /\ phase = "idle" /\ ~errors /\ Room(ticks, restart)
  /\ IF restart THEN Reset /\ global_tick' = 0 ELSE UNCHANGED <<clockwork, samples, global_tick>>
  /\ phase' = "magic" /\ todo' = engines
  /\ number_of_ticks' = ticks /\ tick_count' = 0 /\ input_check_count' = 0
  /\ UNCHANGED <<lists, held, circuit, errors>>

\* UpdateMagic of one engine, which may set the out pins of its Device.
UpdateMagic(x) ==
  /\ phase = "magic" /\ x \in todo /\ todo' = todo \ {x}
  /\ \E level \in BOOLEAN : held' = [held EXCEPT ![x] = level]
  /\ UNCHANGED <<lists, clockwork, samples, circuit, errors, phase, counters>>

BeginTick ==
  /\ phase = "magic" /\ todo = {} /\ Room(1, FALSE)
  /\ phase' = "tick" /\ todo' = clocks
  /\ UNCHANGED <<lists, clockwork, samples, held, circuit, errors, counters>>

NextSub(c) == IF sub_index[c] + 1 >= Len(Pattern[c]) THEN 0 ELSE sub_index[c] + 1

\* Clock::Tick.
Tick(c) ==
  /\ phase = "tick" /\ c \in todo /\ todo' = todo \ {c}
  /\ held' = [held EXCEPT ![c] = Pattern[c][sub_index[c] + 1]]
  /\ index' = [index EXCEPT ![c] = @ + 1] /\ sub_index' = [sub_index EXCEPT ![c] = NextSub(c)]
  /\ ticked' = [ticked EXCEPT ![c] = TRUE]
  /\ UNCHANGED <<lists, samples, circuit, errors, phase, counters>>

\* Solve() of the Simulation.  A pin __ALL_STOP__ may be set meanwhile: an error.
SolveTick ==
  /\ phase = "tick" /\ todo = {} /\ phase' = "solved"
  /\ SolveUnder(held)
  /\ errors' \in {errors, TRUE}
  /\ UNCHANGED <<lists, index, sub_index, held, todo, counters>>

\* The rest of the loop: an error, the stop key or the last tick ends the Run.
Stop ==
  /\ phase = "solved" /\ phase' = "idle"
  /\ errors \/ input_check_count >= InputCheckLimit
  /\ UNCHANGED <<lists, clockwork, samples, held, circuit, errors, todo, counters>>

\* Mutant: the last tick is recognised one tick late.
MutantLastTick == number_of_ticks > 0 /\ tick_count = number_of_ticks
LastTick == number_of_ticks > 0 /\ tick_count + 1 = number_of_ticks

EndTick ==
  /\ phase = "solved" /\ ~errors
  /\ input_check_count' =
       IF input_check_count >= InputCheckLimit THEN 0 ELSE input_check_count + 1
  /\ global_tick' = global_tick + 1
  /\ tick_count' = IF number_of_ticks > 0 THEN tick_count + 1 ELSE tick_count
  /\ phase' = IF LastTick THEN "idle" ELSE "magic"
  /\ todo' = IF LastTick THEN {} ELSE engines
  /\ UNCHANGED <<lists, clockwork, samples, held, circuit, errors, number_of_ticks>>

-----------------------------------------------------------------------------
(* The destructor.                                                         *)

\* ~Simulation deletes the Clocks and the Probes, then its members are destroyed,
\* the list of magic engines among them ...
Destroy ==
  /\ phase = "idle" /\ phase' = "destroyed"
  /\ clocks' = {} /\ probes' = <<>> /\ engines' = {}
  /\ watching' = [c \in Clock |-> {}] /\ samples' = [p \in Probe |-> <<>>]
  /\ index' = [c \in Clock |-> 0] /\ sub_index' = [c \in Clock |-> 0]
  /\ ticked' = [c \in Clock |-> FALSE]
  /\ UNCHANGED <<parts, held, circuit, errors, todo, counters>>

\* ... and ~Device deletes the children, whose engines take themselves off that list,
\* which is not there any more: not defined, and taken here to do no harm.
DestroyChild(x) ==
  /\ phase = "destroyed" /\ x \in parts /\ parts' = parts \ {x}
  /\ UNCHANGED <<clocks, probes, engines, watching, clockwork, samples, held, circuit, errors,
                 phase, todo, counters>>

-----------------------------------------------------------------------------
Init ==
  /\ parts = {} /\ clocks = {} /\ probes = <<>> /\ engines = {}
  /\ watching = [c \in Clock |-> {}]
  /\ index = [c \in Clock |-> 0] /\ sub_index = [c \in Clock |-> 0]
  /\ ticked = [c \in Clock |-> FALSE] /\ samples = [p \in Probe |-> <<>>]
  /\ held = [s \in Source |-> FALSE] /\ circuit = Start /\ errors = FALSE
  /\ phase = "idle" /\ todo = {}
  /\ number_of_ticks = 0 /\ tick_count = 0 /\ input_check_count = 0 /\ global_tick = 0


LoopStep ==
  \/ \E x \in Magic : UpdateMagic(x)
  \/ BeginTick \/ SolveTick \/ EndTick \/ Stop
  \/ \E c \in Clock : Tick(c)

Next ==
  \/ LoopStep \/ Destroy
  \/ \E c \in Clock : AddClock(c) \/ PurgeClock(c)
  \/ \E p \in Probe : AddProbe(p) \/ PurgeChildProbe(p)
  \/ \E x \in Part : AddPart(x) \/ PurgePart(x) \/ DestroyChild(x)
  \/ \E level \in BOOLEAN : ChildSet(level)
  \/ \E ticks \in RunLength, restart \in BOOLEAN : Run(ticks, restart)

Spec == Init /\ [][Next]_vars

\* The thread of Run goes on as long as it can.
FairSpec == Spec /\ WF_vars(LoopStep)

-----------------------------------------------------------------------------
(* What makes it correct.                                                  *)

\* The two lists that a Probe is on agree, and nothing that exists refers to what was
\* purged: not a Probe to its Clock or its target, not m_magic_engines to a Device.
ListsAgree ==
  phase # "destroyed" =>
    /\ \A c \in Clock : watching[c] = {p \in Range(probes) : Trigger[p] = c}
    /\ \A c \in Clock : c \notin clocks => watching[c] = {}
    /\ IsInjective(probes)
    /\ \A p \in Range(probes) : Target[p] \in parts
    /\ engines = parts \cap Magic

\* The ticks of a Clock that have been recorded: all but the one under way.
Taken(c) == IF ticked[c] THEN index[c] - 1 ELSE index[c]

\* A Probe has one sample for each tick of its Clock since the last restart, or since
\* it was added, none missing and none twice, whatever was set, purged, stopped by an
\* error or by the key, and resumed in between.
SamplesInStep ==
  \A p \in Range(probes) :
    LET s == samples[p] IN
    \A i \in DOMAIN s : s[i].index + (Len(s) - i) + 1 = Taken(Trigger[p])

\* A Run that was asked for a number of ticks ends.
RunEnds == phase \notin {"idle", "destroyed"} /\ number_of_ticks > 0 ~> phase = "idle"

\* To whoever reads the samples the Simulation is the machine of Sampling: every tick is
\* one step, with all Clocks at the levels of their patterns; all else goes unrecorded.
S == INSTANCE Sampling WITH
  probes <- Range(probes),
  count <- [c \in Clock |-> Taken(c)]
ImplementsSampling == S!Spec

=============================================================================
