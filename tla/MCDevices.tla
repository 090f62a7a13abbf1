----------------------------- MODULE MCDevices -----------------------------
(***************************************************************************)
(* A Simulation that holds the chips of the library, each subject with its *)
(* inputs set from outside in every order.  In one behaviour only one of   *)
(* the subjects is set, the others stay as they were built.                *)
(***************************************************************************)
EXTENDS Circuits, GameOfLife

MCSeeds == {<<TRUE, FALSE, FALSE>>}

\* Parts in a Device of their own, that share its in pins.
Subject(name, ins, high, parts, wires) ==
  AddDevice(name, [DeviceChip(<<>>, <<>>, <<>>, parts, wires) EXCEPT !.in = ins], high)
Fan(pin, names) == Connect(pin, [i \in DOMAIN names |-> <<names[i], pin>>])
FanAll(pins, names) == Loop(1, Len(pins), LAMBDA i : Fan(pins[i], names))

LatchPins == Bus("R_", 3) \o <<"R_All">> \o Bus("S_", 3)
Counters == <<"four", "n", "aio">>
Cleared == <<"asc", "c_asc">>
RegisterPins == <<"clk", "clr", "load", "d_in_0", "d_in_1">>
Longest == 11      \* of the chains of inverters, the longest that can settle: MaxPropagations + 1
Chains == << <<"even", Longest - 1>>, <<"odd", Longest>> >>
CellSetters == {"not_clear_cycle", "not_clear_state", "not_preset_state"}
AliveSiblings == {6}               \* of the cell, those alive throughout
FreeSiblings == {0, 3, 7}          \* and those that may change at any time

Library ==
  [DeviceChip(<<>>, <<>>, <<>>,
    AddDevice("ff", JK_FF, {}) \o
    AddDevice("aff", JK_FF_ASPC, {"not_p", "not_c"}) \o
    Subject("latches", LatchPins, {},
      AddDevice("quad", Quad_SR_Latch, {}) \o AddDevice("n", N_Bit_SR_Latch(3), {}),
      FanAll(LatchPins, <<"quad", "n">>)) \o
    Subject("counters", <<"clk", "run">>, {},
      AddDevice("four", Four_Bit_Counter, {}) \o AddDevice("n", N_Bit_Counter(3), {}) \o
      AddDevice("aio", N_Bit_Counter_AIO(3), {}),
      FanAll(<<"clk", "run">>, Counters)) \o
    Subject("cleared", <<"clear", "clk", "not_clear", "run">>, {"not_clear"},
      AddDevice("asc", N_Bit_Counter_ASC(3), {"not_clear"}) \o
      AddDevice("c_asc", N_Bit_Counter_C_ASC(3), {"not_clear"}),
      FanAll(<<"clk", "not_clear", "run">>, Cleared) \o Fan("clear", <<"c_asc">>)) \o
    Subject("registers", RegisterPins \o <<"not_c">>, {"not_c"},
      AddDevice("reg", N_Bit_Register(2), {}) \o AddDevice("aio", N_Bit_Register_ASC_AIO(2), {"not_c"}),
      FanAll(RegisterPins, <<"reg", "aio">>) \o Fan("not_c", <<"aio">>)) \o
    AddDevice("mux", NxM_Bit_Mux(3, 2), {}) \o
    Subject("chains", <<"in">>, {},
      Loop(1, 2, LAMBDA i : AddDevice(Chains[i][1], RLIC(Chains[i][2]), {})) \o AddDevice("mrlic", MRLIC(Longest), {}),
      Fan("in", <<"even", "odd", "mrlic">>)) \o
    AddDevice("cell", Cell, CellSetters \cup {SiblingIn(i) : i \in AliveSiblings}),
    <<>>) EXCEPT !.in = <<>>]

-----------------------------------------------------------------------------
VARIABLE subject

Subjects == {Last(path) : path \in {x \in DOMAIN built.number : Len(x) = 1}}
\* The pins that are set: all but the hidden ones, and all but those of some siblings.
Still == {"true", "false"} \cup {SiblingIn(i) : i \in (0 .. 7) \ FreeSiblings}
Free == {name \in DOMAIN built.called[built.number[<<subject>>]] :
           Kind[PinAt(<<subject, name>>)] = "in"} \ Still

DevicesInit == Init /\ subject \in Subjects
\* The cycle of the cell is started anew while its clock is low.
DevicesNext ==
  /\ UNCHANGED subject
  /\ \E pin \in Free :
       /\ pin = "not_clear_cycle" => ~High(<<"cell", "clk">>)
       /\ ChildSet(<<subject, pin>>, ~High(<<subject, pin>>))
DevicesSpec == DevicesInit /\ [][DevicesNext]_<<built, circuit, subject>>

-----------------------------------------------------------------------------
\* The bits i of the part whose pin prefix_i is high.
Word(path, prefix, n) == {i \in 0 .. n - 1 : High(Append(path, Numbered(prefix, i)))}
Value(S) == LET weigh[i \in 0 .. 4] == IF i = 0 THEN 0 ELSE weigh[i - 1] + (IF i - 1 \in S THEN 2^(i - 1) ELSE 0)
            IN weigh[4]

(* Flip-flops.                                                             *)

One(b) == IF b THEN {0} ELSE {}
\* A JK_FF is a bank of one, never cleared; its master is nand_3.
Plain == INSTANCE Flops WITH
  Bits <- {0}, clk <- High(<<"ff", "clk">>), clear <- FALSE, preset <- FALSE,
  j <- One(High(<<"ff", "j">>)), k <- One(High(<<"ff", "k">>)),
  master <- One(High(<<"ff", "nand_3", "output">>)), q <- One(High(<<"ff", "q">>))
\* A JK_FF_ASPC; while it is preset its master is what the other half says.
Async == INSTANCE Flops WITH
  Bits <- {0}, clk <- High(<<"aff", "clk">>),
  clear <- ~High(<<"aff", "not_c">>), preset <- ~High(<<"aff", "not_p">>),
  j <- One(High(<<"aff", "j">>)), k <- One(High(<<"aff", "k">>)),
  master <- One(IF High(<<"aff", "not_p">>) THEN High(<<"aff", "nand_3", "output">>)
                ELSE ~High(<<"aff", "nand_4", "output">>)),
  q <- One(High(<<"aff", "q">>))
\* A JK_FF takes what j and k say while clk is high and shows it when clk falls; not_p and
\* not_c of a JK_FF_ASPC set it and clear it whatever clk is.
FlipFlopSpecs == Plain!Spec /\ Async!Spec

\* The latches of Quad_SR_Latch and N_Bit_SR_Latch: reset is stronger than set, what is
\* neither is kept, and so are latches not connected.
SetReset ==
  [][LET set == Word(<<"latches">>, "S_", 3)'
         Reset(n) == IF High(<<"latches", "R_All">>)' THEN 0 .. n - 1 ELSE Word(<<"latches">>, "R_", 3)'
         Latched(name, n) == Word(<<"latches", name>>, "Out_", n)
     IN /\ Latched("quad", 4)' = (Latched("quad", 4) \cup set) \ Reset(4)
        /\ Latched("n", 3)' = (Latched("n", 3) \cup set) \ Reset(3)]_circuit

-----------------------------------------------------------------------------
(* Counters.                                                               *)

FFMaster(i) == <<FF(i), "nand_3", "output">>
SliceMaster(i) == <<SliceNands(i)[3], "output">>
Masters(device, n, Nand3(_)) == {i \in 0 .. n - 1 : High(device \o Nand3(i))}

\* Bit i toggles when run is high and every bit below it is set.
Carry(subj, name, n) ==
  {i \in 0 .. n - 1 : High(<<subj, "run">>) /\ 0 .. i - 1 \subseteq Word(<<subj, name>>, "q_", n)}
Counter(name, n) == Word(<<"counters", name>>, "q_", n)
FourBank == INSTANCE Flops WITH
  Bits <- 0 .. 3, clk <- High(<<"counters", "clk">>), clear <- FALSE, preset <- FALSE,
  j <- Carry("counters", "four", 4), k <- Carry("counters", "four", 4),
  q <- Counter("four", 4), master <- Masters(<<"counters", "four">>, 4, FFMaster)
NBank == INSTANCE Flops WITH
  Bits <- 0 .. 2, clk <- High(<<"counters", "clk">>), clear <- FALSE, preset <- FALSE,
  j <- Carry("counters", "n", 3), k <- Carry("counters", "n", 3),
  q <- Counter("n", 3), master <- Masters(<<"counters", "n">>, 3, FFMaster)
AIOBank == INSTANCE Flops WITH
  Bits <- 0 .. 2, clk <- High(<<"counters", "clk">>), clear <- FALSE, preset <- FALSE,
  j <- Carry("counters", "aio", 3), k <- Carry("counters", "aio", 3),
  q <- Counter("aio", 3), master <- Masters(<<"counters", "aio">>, 3, SliceMaster)
ASCBank == INSTANCE Flops WITH
  Bits <- 0 .. 2, clk <- High(<<"cleared", "clk">>), clear <- ~High(<<"cleared", "not_clear">>), preset <- FALSE,
  j <- Carry("cleared", "asc", 3), k <- Carry("cleared", "asc", 3),
  q <- Word(<<"cleared", "asc">>, "q_", 3), master <- Masters(<<"cleared", "asc">>, 3, FFMaster)
\* clear is every k, and no j.
CASCBank == INSTANCE Flops WITH
  Bits <- 0 .. 2, clk <- High(<<"cleared", "clk">>), clear <- ~High(<<"cleared", "not_clear">>), preset <- FALSE,
  j <- IF High(<<"cleared", "clear">>) THEN {} ELSE Carry("cleared", "c_asc", 3),
  k <- IF High(<<"cleared", "clear">>) THEN 0 .. 2 ELSE Carry("cleared", "c_asc", 3),
  q <- Word(<<"cleared", "c_asc">>, "q_", 3), master <- Masters(<<"cleared", "c_asc">>, 3, FFMaster)
\* The five counters are banks whose bits toggle on the carry of those below, out of
\* Devices or out of Gates alone; not_clear low clears whatever clk is, clear at the next
\* fall of clk.
CounterSpecs == FourBank!Spec /\ NBank!Spec /\ AIOBank!Spec /\ ASCBank!Spec /\ CASCBank!Spec

-----------------------------------------------------------------------------
(* Registers.                                                              *)

In(pin) == High(<<"registers", pin>>)
Data == Word(<<"registers">>, "d_in_", 2)
Where(condition) == IF condition THEN {0, 1} ELSE {}
RegBank == INSTANCE Flops WITH
  Bits <- {0, 1}, clk <- In("clk"), clear <- FALSE, preset <- FALSE,
  j <- Where(In("load") /\ ~In("clr")) \cap Data,
  k <- (Where(In("load") /\ ~In("clr")) \ Data) \cup Where(In("clr") /\ ~In("load")),
  q <- Word(<<"registers", "reg">>, "d_out_", 2),
  master <- {i \in {0, 1} : High(<<"registers", "reg", Numbered("reg_", i)>> \o FFMaster(0))}
ASCRegBank == INSTANCE Flops WITH
  Bits <- {0, 1}, clk <- In("clk"), clear <- ~In("not_c"), preset <- FALSE,
  j <- Where(In("load") /\ ~In("clr")) \cap Data,
  k <- (Where(In("load")) \ Data) \cup Where(In("clr")),
  q <- Word(<<"registers", "aio">>, "d_out_", 2),
  master <- Masters(<<"registers", "aio">>, 2, SliceMaster)
\* A register is a bank of flip-flops: what it stores when the clock falls is what load,
\* clr and d_in have said while it was high.  load and clr together hold an N_Bit_Register
\* and clear an N_Bit_Register_ASC_AIO, which not_c clears at once.
RegisterSpecs == RegBank!Spec /\ ASCRegBank!Spec

\* Flip-flops, counters and registers alike change only as a bank of master-slave
\* flip-flops does: whatever order their pins are set in, what is shown when the clock
\* falls is what was taken while it was high.
BanksFollow == FlipFlopSpecs /\ CounterSpecs /\ RegisterSpecs

-----------------------------------------------------------------------------
(* Selection, and chains of inverters.                                     *)

Selection == Value(Word(<<"mux">>, "sel_", 2))
\* Of the decoder's outputs the one selected is high; the mux shows the bus selected.
Selected ==
  /\ Word(<<"mux", "selection_decoder">>, "out_", 4) = {Selection}
  /\ Word(<<"mux">>, "d_out_", 2) =
       IF Selection = 3 THEN {} ELSE Word(<<"mux">>, Numbered("d_in_", Selection) \o "_", 2)
\* A chain of inverters follows its input.
Inverted ==
  LET in == High(<<"chains", "in">>) IN
  /\ \A i \in 1 .. 2 : High(<<"chains", Chains[i][1], "out">>) = (in # (Chains[i][2] % 2 = 1))
  /\ Word(<<"chains", "mrlic">>, "out_", 8) = IF in # (Longest % 2 = 1) THEN 0 .. 7 ELSE {}
\* NxM_Bit_Mux with its N_Bit_Decoder, RLIC and MRLIC: whenever a Solve has ended without
\* an error the outputs are a function of the inputs, all low for a bus there is not; and
\* a Device that takes no more propagations than are allowed ends without an error.
CombinationalFollow == ~Unstable /\ Selected /\ Inverted

-----------------------------------------------------------------------------
(* A cell of the game of life.                                             *)

At(pin) == High(<<"cell", pin>>)
Bits(counter) == Word(<<"cell">> \o counter, "q_", 4)
Abstraction ==
  LET selector == Bits(<<"selector", "sibling_counter">>)
      count == Bits(<<"counter">>)
  IN [step |-> IF 3 \in selector THEN 8 ELSE Value(selector),
      count |-> Value(count) % 8,
      \* the master of the lowest bit is about to change it
      heard |-> 3 \notin selector /\ High(<<"cell", "counter">> \o FFMaster(0)) # (0 \in count),
      alive |-> High(<<"cell", "state_ff", "q">>)]
LC == INSTANCE LifeCell WITH
  clk <- At("clk"), siblings <- {i \in 0 .. 7 : At(SiblingIn(i))},
  restart <- ~At("not_clear_cycle"), kill <- ~At("not_clear_state"), birth <- ~At("not_preset_state"),
  cell <- Abstraction
\* The gates of GameOfLife_Cell, with those of its selector, counter and flip-flop, do what
\* LifeCell says of a cell, whenever a sibling's state, the clock or a clear changes.
CellSpec == LC!Spec
=============================================================================
