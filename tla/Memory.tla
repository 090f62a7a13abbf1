------------------------------- MODULE Memory -------------------------------
(***************************************************************************)
(* The magic memories, SimpleRam and SimpleRom, in a Simulation: what sets *)
(* a pin of theirs fires an event trap before the pin has changed, what    *)
(* the engine does shows on the out pins at once, and goes on from there   *)
(* once the Device has been solved.  A memory has no children: its Solve   *)
(* has nothing to do but to queue the Device if its outputs have changed.  *)
(* Before each Solve any of the sources change, one after the other.       *)
(* A word, and an address, is the set of its bits that are high.           *)
(***************************************************************************)
EXTENDS Naturals, Sequences

CONSTANTS
  Ram, Rom,       \* the memories; no clk of theirs is driven by one of them
  AddressWidth,
  DataWidth,
  Rows,           \* the lines of the file of a ROM
  Source,         \* what sets pins from outside: Clocks, ChildSet
  Target          \* for every Source and out pin the pins it drives, in order

Memory == Ram \cup Rom
Address(m) == SUBSET (0 .. AddressWidth[m] - 1)
OutPin == UNION {{<<m, "d_out", i>> : i \in 0 .. DataWidth[m] - 1} : m \in Memory}
InPin ==
  UNION {{<<m, "clk">>, <<m, "read">>, <<m, "write">>} \cup
         {<<m, "a", i>> : i \in 0 .. AddressWidth[m] - 1} \cup
         {<<m, "d_in", i>> : i \in 0 .. DataWidth[m] - 1} : m \in Memory}

Drives(x) == {Target[x][i] : i \in DOMAIN Target[x]}
\* A pin has one driver, which drives it once.  Beyond these widths what the engines do
\* is not defined: a SimpleRam shifts an int by the number of the data pin and an address
\* of 32 bits is all it forms; a SimpleRom's table of powers of two has eight entries.
ASSUME MemoryAssumption ==
  /\ Ram \cap Rom = {} /\ Source \cap OutPin = {}
  /\ AddressWidth \in [Memory -> Nat] /\ DataWidth \in [Memory -> Nat]
  /\ \A m \in Ram : AddressWidth[m] <= 32 /\ DataWidth[m] <= 31
  /\ \A m \in Rom : AddressWidth[m] <= 8
  /\ Rows \in [Rom -> Seq(SUBSET Nat)]
  /\ \A m \in Rom : \A i \in DOMAIN Rows[m] : Rows[m][i] \subseteq 0 .. DataWidth[m] - 1
  /\ Target \in [Source \cup OutPin -> Seq(InPin)]
  /\ \A x, y \in DOMAIN Target : \A i \in DOMAIN Target[x], j \in DOMAIN Target[y] :
       Target[x][i] = Target[y][j] => x = y /\ i = j
  /\ \A o \in OutPin, m \in Memory : <<m, "clk">> \notin Drives(o)

VARIABLES
  level,        \* what every source has set last
  high,         \* the pins whose state is TRUE
  changed,      \* the out pins whose state_changed is set
  buffered,     \* m_buffered_propagation
  m_data,       \* of the engines
  wave,         \* what is left of a pin's connections: <<pin, state>>
  solve,        \* m_solve_this_tick of the Simulation
  this_tick,    \* what is left of m_propagate_this_tick
  next_tick,    \* m_propagate_next_tick
  solving,      \* whether the Simulation is in Solve
  driven,       \* the sources that have changed since the last Solve
  before,       \* observer: level, outputs and data before the change that is under way
  fed           \* observer: the out pins that were high after the last Solve

pins == <<high, changed, buffered>>
queues == <<wave, solve, this_tick, next_tick>>
loop == <<solving, driven>>
vars == <<level, pins, m_data, queues, loop, before, fed>>

Idle == wave = <<>> /\ ~solving
Settled == Idle /\ queues = <<<<>>, <<>>, <<>>, <<>>>>
Now == [level |-> level, shown |-> OutPin \cap high, stored |-> m_data]

-----------------------------------------------------------------------------
(* The magic engines.                                                      *)

\* The calls of AddMagicEventTrap: the new state of clk, what must be high, what low.
Traps(m) ==
  IF m \in Ram
  THEN << [state |-> TRUE, on |-> {"read"}, off |-> {"write"}, incantation |-> "read"],
          [state |-> TRUE, on |-> {"write"}, off |-> {"read"}, incantation |-> "write"] >>
  ELSE << [state |-> FALSE, on |-> {"read"}, off |-> {}, incantation |-> "read"] >>

\* CheckMagicEventTrap: the first trap that is met, if any.
Met(t, m, state) ==
  /\ t.state = state
  /\ \A name \in t.on : <<m, name>> \in high
  /\ \A name \in t.off : <<m, name>> \notin high
Incantations(m, state) ==
  LET met == {i \in DOMAIN Traps(m) : Met(Traps(m)[i], m, state)}
  IN {Traps(m)[i].incantation : i \in {i \in met : \A j \in met : i <= j}}

Bus(m, name, n) == {i \in 0 .. n - 1 : <<m, name, i>> \in high}
At(m) == Bus(m, "a", AddressWidth[m])
Outputs(m) == {o \in OutPin : o[1] = m}

\* InvokeMagic: what the out pins are, and what is stored, after these incantations.
Put(m, incantations) ==
  IF "read" \in incantations THEN {<<m, "d_out", i>> : i \in m_data[m][At(m)]}
  ELSE high \cap Outputs(m)
Store(m, incantations) ==
  IF "write" \in incantations
  THEN [m_data EXCEPT ![m][At(m)] = Bus(m, "d_in", DataWidth[m])] ELSE m_data

-----------------------------------------------------------------------------
(* The Simulation.                                                         *)

\* A Clock ticks, or ChildSet sets a pin.
Drive(s) ==
  /\ Idle /\ s \notin driven /\ driven' = driven \cup {s}
  /\ level' = [level EXCEPT ![s] = ~@] /\ before' = Now
  /\ wave' = [i \in DOMAIN Target[s] |-> <<Target[s][i], ~level[s]>>]
  /\ UNCHANGED <<pins, m_data, solve, this_tick, next_tick, solving, fed>>

\* What Device::Set does once a pin changes, given what the trap on it brings about.
Change(p, state, incantations) ==
  LET m == p[1]
      put == Put(m, incantations)
      moved == {o \in Outputs(m) : (o \in put) # (o \in high)}
  IN
  /\ high' = {q \in InPin \cup OutPin :
                IF q = p THEN state ELSE IF q \in Outputs(m) THEN q \in put ELSE q \in high}
  /\ changed' = changed \cup moved
  /\ buffered' = IF moved = {} THEN buffered ELSE buffered \cup {m}
  /\ m_data' = Store(m, incantations)
  /\ solve' = IF \E i \in DOMAIN solve : solve[i] = m THEN solve ELSE Append(solve, m)

\* Mutation of Set: what the engine does goes on at once.
MutantSet ==
  /\ wave # <<>>
  /\ LET p == Head(wave)[1]
         state == Head(wave)[2]
         incantations == IF (p \in high) # state /\ p[2] = "clk" THEN Incantations(p[1], state) ELSE {}
         put == Put(p[1], incantations)
         On(o) == [i \in DOMAIN Target[o] |-> <<Target[o][i], o \in put>>]
     IN /\ IF (p \in high) = state THEN UNCHANGED <<pins, m_data, solve>>
           ELSE Change(p, state, incantations)
        /\ wave' = (IF p[2] = "clk" THEN On(<<p[1], "d_out", 0>>) ELSE <<>>) \o Tail(wave)
  /\ UNCHANGED <<level, this_tick, next_tick, loop, before, fed>>
\* Device::Set of the next pin.
Set ==
  /\ wave # <<>> /\ wave' = Tail(wave)
  /\ LET p == Head(wave)[1]
         state == Head(wave)[2]
     IN IF (p \in high) = state THEN UNCHANGED <<pins, m_data, solve>>
        ELSE Change(p, state, IF p[2] = "clk" THEN Incantations(p[1], state) ELSE {})
  /\ UNCHANGED <<level, this_tick, next_tick, loop, before, fed>>

BeginSolve ==
  /\ Idle /\ solving' = TRUE /\ driven' = {}
  /\ UNCHANGED <<level, pins, m_data, queues, before, fed>>

\* Solve of a child: if its outputs have changed it queues itself.
SolveChild ==
  /\ solving /\ wave = <<>> /\ this_tick = <<>> /\ solve # <<>> /\ solve' = Tail(solve)
  /\ next_tick' = IF Head(solve) \in buffered THEN Append(next_tick, Head(solve)) ELSE next_tick
  /\ buffered' = buffered \ {Head(solve)}
  /\ UNCHANGED <<level, high, changed, m_data, wave, this_tick, loop, before, fed>>

BeginSubTick ==
  /\ solving /\ wave = <<>> /\ this_tick = <<>> /\ solve = <<>> /\ next_tick # <<>>
  /\ this_tick' = next_tick /\ next_tick' = <<>>
  /\ UNCHANGED <<level, pins, m_data, wave, solve, loop, before, fed>>

\* Mutation of Propagate: no out pin is looked at after the first one changed.
MutantPropagate ==
  /\ solving /\ wave = <<>> /\ this_tick # <<>> /\ this_tick' = Tail(this_tick)
  /\ LET mine == changed \cap Outputs(Head(this_tick)) IN
     IF mine = {} THEN UNCHANGED <<changed, wave>>
     ELSE \E o \in mine :
            /\ \A x \in mine : o[3] <= x[3]
            /\ wave' = [i \in DOMAIN Target[o] |-> <<Target[o][i], o \in high>>]
            /\ changed' = changed \ {o}
  /\ UNCHANGED <<level, high, buffered, m_data, solve, next_tick, loop, before, fed>>
\* Device::Propagate: the changed out pins, one after the other.
Propagate ==
  /\ solving /\ wave = <<>> /\ this_tick # <<>>
  /\ LET mine == changed \cap Outputs(Head(this_tick)) IN
     IF mine = {} THEN this_tick' = Tail(this_tick) /\ UNCHANGED <<changed, wave>>
     ELSE \E o \in mine :
            /\ \A x \in mine : o[3] <= x[3]
            /\ wave' = [i \in DOMAIN Target[o] |-> <<Target[o][i], o \in high>>]
            /\ changed' = changed \ {o} /\ UNCHANGED this_tick
  /\ UNCHANGED <<level, high, buffered, m_data, solve, next_tick, loop, before, fed>>

EndSolve ==
  /\ solving /\ queues = <<<<>>, <<>>, <<>>, <<>>>>
  /\ solving' = FALSE /\ fed' = OutPin \cap high
  /\ UNCHANGED <<level, pins, m_data, queues, driven, before>>

-----------------------------------------------------------------------------
\* SimpleRom's Configure: the lines of the file, and empty words up to a power of two;
\* SimpleRam's ZeroMemory.
Number(m, a) ==
  LET sum[i \in 0 .. AddressWidth[m]] ==
        IF i = 0 THEN 0 ELSE sum[i - 1] + (IF i - 1 \in a THEN 2^(i - 1) ELSE 0)
  IN sum[AddressWidth[m]]
Configure(m) ==
  [a \in Address(m) |->
     IF m \in Rom /\ Number(m, a) + 1 \in DOMAIN Rows[m] THEN Rows[m][Number(m, a) + 1] ELSE {}]

Init ==
  /\ level = [s \in Source |-> FALSE] /\ high = {} /\ changed = {} /\ buffered = {}
  /\ m_data = [m \in Memory |-> Configure(m)]
  /\ wave = <<>> /\ solve = <<>> /\ this_tick = <<>> /\ next_tick = <<>>
  /\ solving = FALSE /\ driven = {} /\ before = Now /\ fed = {}

Next ==
  \/ \E s \in Source : Drive(s)
  \/ Set \/ BeginSolve \/ SolveChild \/ BeginSubTick \/ Propagate \/ EndSolve
Spec == Init /\ [][Next]_vars

-----------------------------------------------------------------------------
Content(m) == [Address(m) -> SUBSET (0 .. DataWidth[m] - 1)]
AnyContent == UNION {Content(m) : m \in Memory}
TypeOK ==
  /\ level \in [Source -> BOOLEAN]
  /\ high \subseteq InPin \cup OutPin /\ changed \subseteq OutPin /\ fed \subseteq OutPin
  /\ buffered \subseteq Memory
  /\ m_data \in [Memory -> AnyContent]
  /\ \A m \in Memory : m_data[m] \in Content(m)
  /\ wave \in Seq(InPin \X BOOLEAN)
  /\ solve \in Seq(Memory) /\ this_tick \in Seq(Memory) /\ next_tick \in Seq(Memory)
  /\ solving \in BOOLEAN /\ driven \subseteq Source
  /\ before.level \in [Source -> BOOLEAN] /\ before.shown \subseteq OutPin

\* After a Solve every pin that something drives is what its driver is: no output that an
\* incantation has changed is left behind, however many changed at once.
PinsFollow ==
  Settled => \A x \in DOMAIN Target : \A p \in Drives(x) :
               (p \in high) = IF x \in Source THEN level[x] ELSE x \in high

Mapped == IF wave # <<>> /\ ~solving THEN before ELSE Now
Clocked == INSTANCE ClockedMemory WITH
  level <- Mapped.level, shown <- Mapped.shown, stored <- Mapped.stored
\* The edge of a clock is one step for all the memories it drives: each has read or written
\* with the levels before the edge, although the traps fire one after the other, each
\* before its pin has changed, and some out pins are already new when the next one fires.
\* What they put out reaches other memories with the next Solve, and not before.
ImplementsClocked == Clocked!Spec
=============================================================================
