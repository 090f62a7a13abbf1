------------------------------ MODULE Circuits ------------------------------
(***************************************************************************)
(* A circuit as a tree of chips, the way Build() methods write it, and     *)
(* Device::Solve as one step.  Module Solver shows what happens within a   *)
(* Solve; here what counts is what a circuit has settled to between two of *)
(* them, so that circuits of hundreds of Gates can be run.  The order in   *)
(* which changes are propagated is kept: it decides what a latch settles   *)
(* to.  Devices are solved one after the other, not in threads.            *)
(***************************************************************************)
EXTENDS Naturals, Sequences, SequencesExt, FiniteSets, TLC

CONSTANTS
  Bench,           \* the Simulation: a chip, as in module Devices
  Seeds,           \* the random Gate inputs considered: each a pattern of states,
                   \* repeated over the pins
  MaxPropagations  \* m_max_propagations

-----------------------------------------------------------------------------
VARIABLES
  built,     \* what AddComponent and the connections have made of the Bench: constant from then on
  circuit    \* the states, marks, queues, flags and errors of all Components

(* The tree flattened: Components and pins are numbers, the Simulation is  *)
(* Component 1 and every Component comes before its children.              *)

\* The sequence, or the function, f with its values spelled out, so that they are computed once.
Table(f) == f \o <<>>
Mapped(f) == f @@ <<>>
\* F(e), with e computed before F is and not where F uses it.
With(e, F(_)) == CHOOSE r \in {F(y) : y \in {e}} : TRUE

\* The sequences of f from the a-th to the b-th in one, by halves: FlattenSeq goes too deep for TLC.
RECURSIVE Joined(_, _, _)
Joined(f, a, b) ==
  IF a > b THEN <<>> ELSE IF a = b THEN f[a]
  ELSE Joined(f, a, (a + b) \div 2) \o Joined(f, (a + b) \div 2 + 1, b)
Join(f) == Joined(f, 1, Len(f))

Depth == 6         \* bound: Devices in Devices
PartsOf(x) == [k \in DOMAIN x[2].parts |-> <<Append(x[1], x[2].parts[k][1]), x[2].parts[k][2]>>]
Within(above) == Join(Table([i \in DOMAIN above |-> Table(PartsOf(above[i]))]))
Level[n \in 0 .. Depth] == IF n = 0 THEN << <<<<>>, Bench>> >> ELSE With(Level[n - 1], Within)
Layout == Join(Table([n \in 1 .. Depth + 1 |-> Level[n - 1]]))   \* each <<path, chip>>

\* Every pin: <<Component, direction, name>>.
PinsIn(c, chip) ==
  [i \in DOMAIN chip.in |-> <<c, 1, chip.in[i]>>] \o [i \in DOMAIN chip.out |-> <<c, 2, chip.out[i]>>]
PinList(layout) == Join(Table([c \in DOMAIN layout |-> PinsIn(c, layout[c][2])]))

\* An end of a wire in the Device c.
End(number, called, layout, c, e) ==
  IF Len(e) = 1 THEN called[c][e[1]] ELSE called[number[Append(layout[c][1], e[1])]][e[2]]
Wires(number, called, layout) ==
  Join([c \in DOMAIN layout |-> LET wires == layout[c][2].wires IN
    [i \in DOMAIN wires |-> Table([k \in 1 .. 2 |-> End(number, called, layout, c, wires[i][k])])]])
Driven(wires, p) ==
  LET mine == SelectSeq(wires, LAMBDA w : w[1] = p) IN Table([i \in DOMAIN mine |-> mine[i][2]])

Assemble(layout, number, pins, mine, called, wires) ==
  [number |-> number, called |-> called,
   op |-> Table([c \in DOMAIN layout |-> layout[c][2].op]),
   parent |-> Table([c \in DOMAIN layout |-> IF c = 1 THEN 1 ELSE number[Front(layout[c][1])]]),
   children |-> Table([c \in DOMAIN layout |->
     Table([i \in DOMAIN layout[c][2].parts |-> number[Append(layout[c][1], layout[c][2].parts[i][1])]])]),
   owner |-> Table([p \in DOMAIN pins |-> pins[p][1]]),
   kind |-> Table([p \in DOMAIN pins |->
     IF pins[p][2] = 2 THEN "out" ELSE IF layout[pins[p][1]][2].op # "device" THEN "gate" ELSE "in"]),
   inward |-> Table([c \in DOMAIN layout |-> SelectSeq(mine[c], LAMBDA p : pins[p][2] = 1)]),
   outward |-> Table([c \in DOMAIN layout |-> SelectSeq(mine[c], LAMBDA p : pins[p][2] = 2)]),
   default |-> {p \in DOMAIN pins : pins[p][3] \in layout[pins[p][1]][2].high \cup {"true"}},
   targets |-> Table([p \in DOMAIN pins |-> Driven(wires, p)])]

Assembled ==
  With(Table(Layout), LAMBDA layout :
  With(Mapped([path \in {layout[c][1] : c \in DOMAIN layout} |->
                 CHOOSE c \in DOMAIN layout : layout[c][1] = path]), LAMBDA number :
  With(Table(PinList(layout)), LAMBDA pins :
  With(Table([c \in DOMAIN layout |-> SelectSeq(Table([p \in DOMAIN pins |-> p]), LAMBDA p : pins[p][1] = c)]), LAMBDA mine :
  With(Table([c \in DOMAIN layout |-> Mapped([name \in {pins[mine[c][i]][3] : i \in DOMAIN mine[c]} |->
                 CHOOSE p \in ToSet(mine[c]) : pins[p][3] = name])]), LAMBDA called :
  With(Wires(number, called, layout), LAMBDA wires :
    Assemble(layout, number, pins, mine, called, wires)))))))

Component == DOMAIN built.op
Pin == DOMAIN built.owner
IsGate(c) == built.op[c] # "device"
Parent == built.parent
Children == built.children
Owner == built.owner
Kind == built.kind
Inward == built.inward
Outward == built.outward
Targets == built.targets

-----------------------------------------------------------------------------
Output(c, state) ==
  CASE built.op[c] = "and"  -> \A p \in ToSet(Inward[c]) : state[p]
    [] built.op[c] = "nand" -> \E p \in ToSet(Inward[c]) : ~state[p]
    [] built.op[c] = "or"   -> \E p \in ToSet(Inward[c]) : state[p]
    [] OTHER               -> \A p \in ToSet(Inward[c]) : ~state[p]

\* Gate::Set, Evaluate and QueueToPropagate.
SetGate(x, q, v) ==
  LET c == Owner[q]
      out == Outward[c][1]
      moved == [x EXCEPT !.state[q] = v]
      new == Output(c, moved.state)
  IN IF x.state[q] = v \/ x.state[out] = new THEN moved
     ELSE IF c \in x.this_tick \cup x.next_tick
     THEN [moved EXCEPT !.state[out] = new, !.changed = @ \cup {out}]
     ELSE [moved EXCEPT !.state[out] = new, !.changed = @ \cup {out},
                        !.next[Parent[c]] = Append(@, c), !.next_tick = @ \cup {c}]

\* Device::Set.
Set(x, q, v) ==
  LET c == Owner[q] IN
  IF Kind[q] = "gate" THEN SetGate(x, q, v)
  ELSE IF x.state[q] = v THEN x
  ELSE IF Kind[q] = "out"
  THEN [x EXCEPT !.state[q] = v, !.changed = @ \cup {q}, !.buffered = @ \cup {c}]
  ELSE IF c \in x.solve_tick THEN [x EXCEPT !.state[q] = v, !.changed = @ \cup {q}]
  ELSE [x EXCEPT !.state[q] = v, !.changed = @ \cup {q}, !.solve_tick = @ \cup {c},
                 !.solve[Parent[c]] = Append(@, c)]

RECURSIVE Deliver(_, _, _), Propagate(_, _, _), SubTick(_, _, _), Settle(_, _, _),
          Solve(_, _), SolveChildren(_, _, _), Passes(_, _)

\* The connections of the pin p from the i-th on.
Deliver(x, p, i) ==
  IF i > Len(Targets[p]) THEN x
  ELSE With(Set(x, Targets[p][i], x.state[p]), LAMBDA y : Deliver(y, p, i + 1))

\* Gate::Propagate, Device::Propagate and PropagateInputs: the changed ones of the pins.
Propagate(x, ps, i) ==
  IF i > Len(ps) THEN x
  ELSE IF ps[i] \notin x.changed THEN Propagate(x, ps, i + 1)
  ELSE With(Deliver([x EXCEPT !.changed = @ \ {ps[i]}], ps[i], 1), LAMBDA y : Propagate(y, ps, i + 1))

\* Device::SubTick, whose entries are now cs.
SubTick(x, cs, i) ==
  IF i > Len(cs) THEN x
  ELSE With(Propagate([x EXCEPT !.this_tick = @ \ {cs[i]}], Outward[cs[i]], 1),
            LAMBDA y : SubTick(y, cs, i + 1))

BeginSubTick(x, d) ==
  LET cs == ToSet(x.next[d]) IN
  [x EXCEPT !.next[d] = <<>>, !.this_tick = @ \cup cs, !.next_tick = @ \ cs]

\* Mutation of Settle: one sub-tick less than allowed.
MutantSettle(x, d, n) ==
  With(SubTick(BeginSubTick(x, d), x.next[d], 1), LAMBDA y :
    IF y.next[d] = <<>> THEN y
    ELSE IF n + 1 < MaxPropagations THEN Settle(y, d, n + 1)
    ELSE [y EXCEPT !.errors = @ \cup {<<"unstable", d>>}])
\* The sub-ticks of Solve; n counts them.
Settle(x, d, n) ==
  With(SubTick(BeginSubTick(x, d), x.next[d], 1), LAMBDA y :
    IF y.next[d] = <<>> THEN y
    ELSE IF n < MaxPropagations THEN Settle(y, d, n + 1)
    ELSE [y EXCEPT !.errors = @ \cup {<<"unstable", d>>}])

SolveChildren(x, cs, i) ==
  IF i > Len(cs) THEN x
  ELSE With(Solve([x EXCEPT !.solve_tick = @ \ {cs[i]}], cs[i]), LAMBDA y : SolveChildren(y, cs, i + 1))

\* The passes of Solve, each over the Device's own parts and then its Devices.
Passes(x, d) ==
  With(Settle(x, d, 0), LAMBDA y :
    IF y.next[d] # <<>> THEN y
    ELSE With([SolveChildren(y, y.solve[d], 1) EXCEPT !.solve[d] = <<>>], LAMBDA z :
           IF z.next[d] = <<>> THEN z ELSE Passes(z, d)))

\* Device::Solve.
Solve(x, d) ==
  With(Passes(Propagate(x, Inward[d], 1), d), LAMBDA y :
    IF d # 1 /\ d \in y.buffered
    THEN [y EXCEPT !.buffered = @ \ {d}, !.next[Parent[d]] = Append(@, d)] ELSE y)

\* Device::Stabilise: every part is initialised, then the Device solved.
Initialise(x, d) ==
  With({p \in Pin : Parent[Owner[p]] = d /\ Owner[p] # d /\ Kind[p] = "out"}, LAMBDA mine :
    [x EXCEPT !.state = [p \in Pin |-> IF p \in mine /\ IsGate(Owner[p])
                                       THEN Output(Owner[p], x.state) ELSE @[p]],
              !.changed = @ \cup mine,
              !.next[d] = @ \o Children[d]])

RECURSIVE Build(_, _, _)
\* The constructors, a Device's parts before itself.
Build(x, d, i) ==
  IF i > Len(Children[d]) THEN Solve(Initialise(x, d), d)
  ELSE With(IF IsGate(Children[d][i]) THEN x ELSE Build(x, Children[d][i], 1),
            LAMBDA y : Build(y, d, i + 1))

\* As constructed: random Gate inputs, Device pins at their defaults.
Blank(seed) ==
  [state |-> [p \in Pin |-> IF Kind[p] = "gate" THEN seed[(p % Len(seed)) + 1]
                            ELSE p \in built.default],
   changed |-> {p \in Pin : ~IsGate(Owner[p])},
   next |-> [c \in Component |-> <<>>], next_tick |-> {}, this_tick |-> {},
   solve |-> [c \in Component |-> <<>>], solve_tick |-> {},
   buffered |-> {}, errors |-> {}]

-----------------------------------------------------------------------------
\* The pin at the end of a path, and its state.
PinAt(path) == built.called[built.number[Front(path)]][Last(path)]
High(path) == circuit.state[PinAt(path)]

Init == built = Assembled /\ \E seed \in Seeds : circuit = Build(Blank(seed), 1, 1)

\* Device::ChildSet, or the tick of a Clock, and the Solve that follows.
ChildSet(path, v) == circuit' = Solve(Set(circuit, PinAt(path), v), 1) /\ UNCHANGED built

Unstable == circuit.errors # {}
=============================================================================
