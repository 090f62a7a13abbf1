------------------------------ MODULE MCSolver ------------------------------
(***************************************************************************)
(* Instances of Solver for TLC.  A circuit is written as a tree of chips,  *)
(* the way Build() methods write it, and flattened into the constants of   *)
(* Solver: a Component is the path of names that leads to it (its          *)
(* m_full_name), a pin is that path with the name of the pin appended.     *)
(***************************************************************************)
EXTENDS Solver, SequencesExt

CONSTANTS Circuit, HighSeeds, ExternalPins, ThreadedDevices

\* A chip: a gate type or "device", its pins, its parts and its wires.  A wire
\* joins two ends, each <<pin>> of the chip or <<part, pin>>.
GateChip(op, ins) == [op |-> op, in |-> ins, out |-> <<"output">>, stop |-> <<>>,
                      max |-> 0, parts |-> <<>>, wires |-> <<>>]
Two == <<"input_0", "input_1">>

RECURSIVE Expand(_, _)
Expand(path, chip) ==
  FoldSet(LAMBDA i, acc : acc @@ Expand(Append(path, chip.parts[i][1]), chip.parts[i][2]),
          path :> chip, DOMAIN chip.parts)

Layout == Expand(<<"sim">>, Circuit)
PinPaths(path, names) == [i \in DOMAIN names |-> Append(path, names[i])]
PinsOf(path) == LET c == Layout[path] IN
  {Append(path, n) : n \in Range(c.in) \cup Range(c.out) \cup Range(c.stop)}

MC_Device == {x \in DOMAIN Layout : Layout[x].op = "device"}
MC_Gate == DOMAIN Layout \ MC_Device
MC_Sim == <<"sim">>
MC_Parent == [x \in DOMAIN Layout \ {MC_Sim} |-> Front(x)]
MC_Ancestors == [x \in MC_Device |-> {y \in MC_Device : IsStrictPrefix(y, x)}]
MC_Children == [x \in MC_Device |->
  [i \in DOMAIN Layout[x].parts |-> Append(x, Layout[x].parts[i][1])]]
MC_Pin == UNION {PinsOf(x) : x \in DOMAIN Layout}
MC_Owner == [p \in MC_Pin |-> Front(p)]
MC_Direction == [p \in MC_Pin |->
  LET c == Layout[Front(p)] IN
  IF Last(p) \in {"true", "false"} THEN 3
  ELSE IF Last(p) \in Range(c.in) THEN 1 ELSE IF Last(p) \in Range(c.out) THEN 2 ELSE 4]
MC_Inward == [x \in MC_Device |-> PinPaths(x, Layout[x].in)]
MC_Outward == [x \in DOMAIN Layout |-> PinPaths(x, Layout[x].out)]
MC_Targets == [p \in MC_Pin |->
  LET owner == Front(p)
      inward == Layout[owner].op = "device" /\ MC_Direction[p] \in {1, 3}
      home == IF inward \/ owner = MC_Sim THEN owner ELSE Front(owner)
      wires == IF ~inward /\ (owner = MC_Sim \/ MC_Direction[p] # 2) THEN <<>>
               ELSE SelectSeq(Layout[home].wires, LAMBDA w : home \o w[1] = p)
  IN [i \in DOMAIN wires |-> home \o wires[i][2]]]
MC_Operator == [x \in MC_Gate |-> Layout[x].op]
MC_DefaultHigh == {p \in MC_Pin : Last(p) = "true"}
MC_Max == [x \in MC_Device |-> Layout[x].max]
MC_GateInputs == {p \in MC_Pin : Front(p) \in MC_Gate /\ MC_Direction[p] = 1}
MC_Seeds == HighSeeds
MC_External == ExternalPins
MC_Threaded == ThreadedDevices

-----------------------------------------------------------------------------
(* The circuits.                                                           *)

\* The SR latch Device of README.md: Out = (Out or S) and not R.
SRLatch == [op |-> "device", in |-> <<"R", "S">>, out |-> <<"Out">>, stop |-> <<>>, max |-> 4,
  parts |-> << <<"or_0", GateChip("or", Two)>>, <<"and_0", GateChip("and", Two)>>,
               <<"not_0", GateChip("not", <<"input">>)>> >>,
  wires |-> << << <<"or_0", "output">>, <<"and_0", "input_0">> >>,
               << <<"not_0", "output">>, <<"and_0", "input_1">> >>,
               << <<"and_0", "output">>, <<"or_0", "input_0">> >>,
               << <<"S">>, <<"or_0", "input_1">> >>,
               << <<"R">>, <<"not_0", "input">> >>,
               << <<"and_0", "output">>, <<"Out">> >> >>]

\* Two SR latches in the Simulation: the first one's output resets the second, whose
\* output stops the simulation.  When the first one's rises, "edge" goes up for one
\* sub-tick, until "late" has come down, and "self", a nand fed back to itself before it
\* drives "edge", changes while it is propagated.
LatchChain == [op |-> "device", in |-> <<"true">>, out |-> <<>>, stop |-> <<"all_stop">>, max |-> 4,
  parts |-> << <<"a", SRLatch>>, <<"b", SRLatch>>, <<"late", GateChip("not", <<"input">>)>>,
               <<"edge", GateChip("and", <<"input_0", "input_1", "input_2">>)>>,
               <<"self", GateChip("nand", Two)>> >>,
  wires |-> << << <<"a", "Out">>, <<"b", "R">> >>,
               << <<"a", "Out">>, <<"edge", "input_0">> >>, << <<"a", "Out">>, <<"late", "input">> >>,
               << <<"late", "output">>, <<"edge", "input_1">> >>,
               << <<"edge", "output">>, <<"self", "input_0">> >>,
               << <<"self", "output">>, <<"self", "input_1">> >>,
               << <<"self", "output">>, <<"edge", "input_2">> >>,
               << <<"b", "Out">>, <<"all_stop">> >>,
               << <<"true">>, <<"a", "R">> >> >>]
LatchPins == {<<"sim", "a", "R">>, <<"sim", "a", "S">>, <<"sim", "b", "S">>}
AllLowOrHigh == {{}, MC_GateInputs}

\* The two latches side by side in a Device that solves its children in threads.
Pair == [op |-> "device", in |-> <<"R", "S", "T">>, out |-> <<"X">>, stop |-> <<>>, max |-> 4,
  parts |-> << <<"a", SRLatch>>, <<"b", SRLatch>>, <<"both", GateChip("and", Two)>> >>,
  wires |-> << << <<"R">>, <<"a", "R">> >>, << <<"S">>, <<"a", "S">> >>,
               << <<"R">>, <<"b", "R">> >>, << <<"T">>, <<"b", "S">> >>,
               << <<"a", "Out">>, <<"both", "input_0">> >>,
               << <<"b", "Out">>, <<"both", "input_1">> >>,
               << <<"both", "output">>, <<"X">> >> >>]
PairTop == [op |-> "device", in |-> <<>>, out |-> <<>>, stop |-> <<>>, max |-> 4,
  parts |-> << <<"pair", Pair>> >>, wires |-> <<>>]
PairPins == {<<"sim", "pair", n>> : n \in {"R", "S", "T"}}
PairThreads == {<<"sim", "pair">>}

\* A gated ring oscillator: a nand fed back to itself.
Ring == [op |-> "device", in |-> <<"en">>, out |-> <<"Y">>, stop |-> <<>>, max |-> 3,
  parts |-> << <<"nand_0", GateChip("nand", Two)>>, <<"nor_0", GateChip("nor", Two)>> >>,
  wires |-> << << <<"en">>, <<"nand_0", "input_0">> >>,
               << <<"nand_0", "output">>, <<"nand_0", "input_1">> >>,
               << <<"nand_0", "output">>, <<"nor_0", "input_0">> >>,
               << <<"nor_0", "output">>, <<"Y">> >> >>]
RingTop == [op |-> "device", in |-> <<>>, out |-> <<>>, stop |-> <<>>, max |-> 3,
  parts |-> << <<"ring", Ring>>, <<"latch", SRLatch>> >>,
  wires |-> << << <<"ring", "Y">>, <<"latch", "S">> >> >>]
RingPins == {<<"sim", "ring", "en">>, <<"sim", "latch", "R">>}

\* The same oscillation, led through the pins of the Device.
Inverter == [op |-> "device", in |-> <<"A", "en">>, out |-> <<"Y">>, stop |-> <<>>, max |-> 3,
  parts |-> << <<"nand_0", GateChip("nand", Two)>> >>,
  wires |-> << << <<"A">>, <<"nand_0", "input_0">> >>, << <<"en">>, <<"nand_0", "input_1">> >>,
               << <<"nand_0", "output">>, <<"Y">> >> >>]
LoopTop == [op |-> "device", in |-> <<>>, out |-> <<>>, stop |-> <<>>, max |-> 3,
  parts |-> << <<"inv", Inverter>> >>, wires |-> << << <<"inv", "Y">>, <<"inv", "A">> >> >>]
LoopPins == {<<"sim", "inv", "en">>}

=============================================================================
