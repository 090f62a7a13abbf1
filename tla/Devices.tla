------------------------------ MODULE Devices ------------------------------
(***************************************************************************)
(* The Device library: every Build() method as the chip it makes, part by  *)
(* part and connection by connection.  Module Circuits runs a chip.  Every *)
(* Device is built with the default states of its constructor call, and    *)
(* pins marked as not connected, which only the checks of a build see, are *)
(* left out here (see module Netlist).                                     *)
(***************************************************************************)
EXTENDS Naturals, Sequences, SequencesExt, TLC

(* Chips.  A Device is its in and out pins, in m_pins order, its parts and *)
(* its wires, in the order in which they are added; high are the in pins   *)
(* whose default state is TRUE.  Each end of a wire is <<pin>> of the      *)
(* Device itself or <<part, pin>>.                                         *)

\* The in pins a constructor names, sorted, then the hidden ones, then busses.
DeviceChip(in, bus, out, parts, wires) ==
  [op |-> "device", in |-> in \o <<"true", "false">> \o bus, out |-> out, high |-> {},
   parts |-> parts, wires |-> wires]

Numbered(prefix, i) == prefix \o ToString(i)
Bus(prefix, n) == [i \in 1 .. n |-> Numbered(prefix, i - 1)]

AddGate(name, op, n) ==
  << <<name, [op |-> op, in |-> IF op = "not" THEN <<"input">> ELSE Bus("input_", n),
              out |-> <<"output">>, high |-> {}, parts |-> <<>>, wires |-> <<>>]>> >>
AddGates(names, op, n) == FlattenSeq([i \in DOMAIN names |-> AddGate(names[i], op, n)])

\* new chip(this, name, ..., {{pin, true}, ...})
AddDevice(name, chip, high) == << <<name, [chip EXCEPT !.high = high]>> >>

\* From the Gate, from a pin of the Device within, from an in pin, to the pins `to`.
ChildConnect(gate, to) == [i \in DOMAIN to |-> << <<gate, "output">>, to[i]>>]
ChildPin(device, pin, to) == [i \in DOMAIN to |-> << <<device, pin>>, to[i]>>]
Connect(pin, to) == [i \in DOMAIN to |-> << <<pin>>, to[i]>>]

\* What a loop over the slices a .. b of a Device adds.
Loop(a, b, Slice(_)) == FlattenSeq([i \in 1 .. b + 1 - a |-> Slice(a + i - 1)])

-----------------------------------------------------------------------------
(* Flip-flops.                                                             *)

\* Two latches of nands, the second driven by the first while the clock is low;
\* the outputs of the second go back to the pin b of the nands of the first.
MasterSlave(nand, not, b) ==
  ChildConnect(not, << <<nand[5], "input_1">>, <<nand[6], "input_1">> >>) \o
  ChildConnect(nand[1], << <<nand[3], "input_0">> >>) \o
  ChildConnect(nand[2], << <<nand[4], "input_0">> >>) \o
  ChildConnect(nand[3], << <<nand[4], "input_1">>, <<nand[5], "input_0">> >>) \o
  ChildConnect(nand[4], << <<nand[3], "input_1">>, <<nand[6], "input_0">> >>) \o
  ChildConnect(nand[5], << <<nand[7], "input_0">> >>) \o
  ChildConnect(nand[6], << <<nand[8], "input_0">> >>) \o
  ChildConnect(nand[7], << <<nand[8], "input_1">>, <<nand[2], b>> >>) \o
  ChildConnect(nand[8], << <<nand[7], "input_1">>, <<nand[1], b>> >>)

Nands == [i \in 1 .. 8 |-> Numbered("nand_", i)]
JKWires ==
  MasterSlave(Nands, "not_1", "input_1") \o
  ChildConnect("nand_7", << <<"q">> >>) \o
  ChildConnect("nand_8", << <<"not_q">> >>) \o
  Connect("j", << <<"nand_1", "input_0">> >>) \o
  Connect("k", << <<"nand_2", "input_0">> >>) \o
  Connect("clk", << <<"nand_1", "input_2">>, <<"nand_2", "input_2">>, <<"not_1", "input">> >>)

JK_FF ==
  DeviceChip(<<"clk", "j", "k">>, <<>>, <<"q", "not_q">>,
    AddGates(<<"nand_1", "nand_2">>, "nand", 3) \o
    AddGates(<<"nand_3", "nand_4", "nand_5", "nand_6", "nand_7", "nand_8">>, "nand", 2) \o
    AddGate("not_1", "not", 1),
    JKWires)

\* Mutation of AsyncWires: a clear reaches only the second latch.
MutantAsyncWires ==
  Connect("not_p", << <<"nand_3", "input_2">>, <<"nand_7", "input_2">> >>) \o
  Connect("not_c", << <<"nand_8", "input_2">> >>)
\* The preset and the clear act on both latches.
AsyncWires ==
  Connect("not_p", << <<"nand_3", "input_2">>, <<"nand_7", "input_2">> >>) \o
  Connect("not_c", << <<"nand_4", "input_2">>, <<"nand_8", "input_2">> >>)
JK_FF_ASPC ==
  DeviceChip(<<"clk", "j", "k", "not_c", "not_p">>, <<>>, <<"q", "not_q">>,
    AddGates(<<"nand_1", "nand_2", "nand_3", "nand_4">>, "nand", 3) \o
    AddGates(<<"nand_5", "nand_6">>, "nand", 2) \o
    AddGates(<<"nand_7", "nand_8">>, "nand", 3) \o AddGate("not_1", "not", 1),
    JKWires \o AsyncWires)

\* Mutation of SR_Latch: the output is taken before the reset.
MutantSR_Latch ==
  DeviceChip(<<"R", "S">>, <<>>, <<"Out">>,
    AddGate("or_0", "or", 2) \o AddGate("and_0", "and", 2) \o AddGate("not_0", "not", 1),
    ChildConnect("and_0", << <<"or_0", "input_0">> >>) \o
    ChildConnect("not_0", << <<"and_0", "input_1">> >>) \o
    ChildConnect("or_0", << <<"and_0", "input_0">>, <<"Out">> >>) \o
    Connect("S", << <<"or_0", "input_1">> >>) \o Connect("R", << <<"not_0", "input">> >>))

\* sr_latch.cpp
SR_Latch ==
  DeviceChip(<<"R", "S">>, <<>>, <<"Out">>,
    AddGate("or_0", "or", 2) \o AddGate("and_0", "and", 2) \o AddGate("not_0", "not", 1),
    ChildConnect("or_0", << <<"and_0", "input_0">> >>) \o
    ChildConnect("not_0", << <<"and_0", "input_1">> >>) \o
    ChildConnect("and_0", << <<"or_0", "input_0">>, <<"Out">> >>) \o
    Connect("S", << <<"or_0", "input_1">> >>) \o Connect("R", << <<"not_0", "input">> >>))

\* n_bit_sr_latch.cpp
N_Bit_SR_Latch(n) ==
  LET Latch(i) == Numbered("sr_latch_", i)
      Or(i) == Numbered("or_", i)
  IN DeviceChip(<<"R_All">>, Bus("S_", n) \o Bus("R_", n), Bus("Out_", n),
       Loop(0, n - 1, LAMBDA i : AddDevice(Latch(i), SR_Latch, {}) \o AddGate(Or(i), "or", 2)),
       Connect("R_All", [i \in 1 .. n |-> <<Or(i - 1), "input_1">>]) \o
       Loop(0, n - 1, LAMBDA i :
         Connect(Numbered("S_", i), << <<Latch(i), "S">> >>) \o
         Connect(Numbered("R_", i), << <<Or(i), "input_0">> >>) \o
         ChildConnect(Or(i), << <<Latch(i), "R">> >>) \o
         ChildPin(Latch(i), "Out", << <<Numbered("Out_", i)>> >>)))

\* quad_sr_latch.cpp
Quad_SR_Latch ==
  LET Latch(i) == Numbered("sr_latch_", i)
      Or(i) == Numbered("or_", i)
  IN DeviceChip(Bus("R_", 4) \o <<"R_All">> \o Bus("S_", 4), <<>>, Bus("Out_", 4),
       Loop(0, 3, LAMBDA i : AddDevice(Latch(i), SR_Latch, {})) \o AddGates(Bus("or_", 4), "or", 2),
       Loop(0, 3, LAMBDA i :
         Connect(Numbered("S_", i), << <<Latch(i), "S">> >>) \o
         Connect(Numbered("R_", i), << <<Or(i), "input_0">> >>) \o
         Connect("R_All", << <<Or(i), "input_1">> >>) \o
         ChildConnect(Or(i), << <<Latch(i), "R">> >>) \o
         ChildPin(Latch(i), "Out", << <<Numbered("Out_", i)>> >>)))

-----------------------------------------------------------------------------
(* Counters: bit i toggles when the bits below it are all set.             *)

FF(i) == Numbered("jk_ff_", i)
And(i) == Numbered("and_", i)
Q(i) == Numbered("q_", i)
AllFF(pin, n) == [i \in 1 .. n |-> <<FF(i - 1), pin>>]
JK(i) == << <<FF(i), "j">>, <<FF(i), "k">> >>

Four_Bit_Counter ==
  DeviceChip(<<"clk", "run">>, <<>>, Bus("q_", 4),
    Loop(0, 3, LAMBDA i : AddDevice(FF(i), JK_FF, {})) \o
    AddGates(<<"and_0", "and_1", "and_2">>, "and", 2),
    Connect("run", JK(0) \o << <<"and_0", "input_0">> >>) \o
    Connect("clk", AllFF("clk", 4)) \o
    Loop(0, 3, LAMBDA i :
      ChildPin(FF(i), "q", << <<Q(i)>> >> \o IF i = 3 THEN <<>> ELSE << <<And(i), "input_1">> >>)) \o
    Loop(0, 2, LAMBDA i :
      ChildConnect(And(i), JK(i + 1) \o IF i = 2 THEN <<>> ELSE << <<And(i + 1), "input_0">> >>)))

\* The parts and wires N_Bit_Counter and N_Bit_Counter_ASC have in common.
CounterParts(n, ff, high) ==
  AddDevice(FF(0), ff, high) \o
  Loop(1, n - 1, LAMBDA i : AddGate(And(i), "and", 2) \o AddDevice(FF(i), ff, high))
CounterWires(n) ==
  Connect("run", JK(0) \o << <<"and_1", "input_0">> >>) \o
  Connect("clk", AllFF("clk", n)) \o
  Loop(0, n - 1, LAMBDA i :
    ChildPin(FF(i), "q",
      << <<Q(i)>> >> \o IF i = n - 1 THEN <<>> ELSE << <<And(i + 1), "input_1">> >>)) \o
  Loop(1, n - 1, LAMBDA i :
    ChildConnect(And(i), JK(i) \o IF i = n - 1 THEN <<>> ELSE << <<And(i + 1), "input_0">> >>))

N_Bit_Counter(n) ==
  DeviceChip(<<"clk", "run">>, <<>>, Bus("q_", n), CounterParts(n, JK_FF, {}), CounterWires(n))

N_Bit_Counter_ASC(n) ==
  DeviceChip(<<"clk", "not_clear", "run">>, <<>>, Bus("q_", n),
    CounterParts(n, JK_FF_ASPC, {"not_p", "not_c"}),
    CounterWires(n) \o Connect("not_clear", AllFF("not_c", n)) \o Connect("true", AllFF("not_p", n)))

\* The Gates of slice i of the Devices without Devices within.
Sub(prefix, i, k) == Numbered(prefix, i) \o Numbered("_", k)
SliceNands(i) == [k \in 1 .. 8 |-> Sub("nand_", i, k - 1)]
SliceNot(i) == Numbered("not_", i)

N_Bit_Counter_AIO(n) ==
  DeviceChip(<<"clk", "run">>, <<>>, Bus("q_", n),
    Loop(0, n - 1, LAMBDA i :
      AddGate(And(i), "and", 2) \o AddGate(SliceNot(i), "not", 1) \o
      AddGates(SubSeq(SliceNands(i), 1, 2), "nand", 3) \o
      AddGates(SubSeq(SliceNands(i), 3, 8), "nand", 2)),
    Connect("run", << <<"and_0", "input_1">> >>) \o
    Connect("true", << <<"and_0", "input_0">> >>) \o
    Loop(0, n - 1, LAMBDA i :
      LET N == SliceNands(i) IN
      Connect("clk", << <<N[1], "input_2">>, <<N[2], "input_2">>, <<SliceNot(i), "input">> >>) \o
      ChildConnect(And(i), << <<N[1], "input_1">>, <<N[2], "input_1">> >>) \o
      MasterSlave(N, SliceNot(i), "input_0") \o
      ChildConnect(N[7], << <<Q(i)>> >>)) \o
    Loop(1, n - 1, LAMBDA i :
      ChildConnect(SliceNands(i - 1)[7], << <<And(i), "input_0">> >>) \o
      ChildConnect(And(i - 1), << <<And(i), "input_1">> >>)))

\* clear takes the place of run: it takes the bits that are set out at the next fall.
N_Bit_Counter_C_ASC(n) ==
  LET A(i, k) == Sub("and_", i, k)
      Or(i) == Sub("or_", i, 0)
      Toggle(i) == IF i = 0 THEN <<>> ELSE <<A(i, 0)>>     \* all bits below are set
      J(i) == IF i = 0 THEN A(0, 0) ELSE A(i, 1)
      K(i) == IF i = 0 THEN A(0, 1) ELSE A(i, 2)
  IN DeviceChip(<<"clear", "clk", "not_clear", "run">>, <<>>, Bus("q_", n),
       AddGate("n_clear", "not", 1) \o
       Loop(0, n - 1, LAMBDA i :
         AddDevice(FF(i), JK_FF_ASPC, {"not_p", "not_c"}) \o
         AddGates(Toggle(i) \o <<J(i), K(i)>>, "and", 2) \o AddGate(Or(i), "or", 2)),
       Connect("clear", << <<"n_clear", "input">> >> \o [i \in 1 .. n |-> <<Or(i - 1), "input_1">>]) \o
       Connect("clk", AllFF("clk", n)) \o
       Connect("true", AllFF("not_p", n)) \o
       Connect("not_clear", AllFF("not_c", n)) \o
       Connect("run", << <<J(0), "input_0">>, <<K(0), "input_0">>, <<A(1, 0), "input_1">> >>) \o
       Loop(0, n - 1, LAMBDA i :
         ChildConnect("n_clear", << <<J(i), "input_1">>, <<K(i), "input_1">> >>) \o
         ChildConnect(J(i), << <<FF(i), "j">> >>) \o
         ChildConnect(K(i), << <<Or(i), "input_0">> >>) \o
         ChildConnect(Or(i), << <<FF(i), "k">> >>) \o
         ChildPin(FF(i), "q",
           << <<Q(i)>> >> \o IF i = n - 1 THEN <<>> ELSE << <<A(i + 1, 0), "input_0">> >>)) \o
       Loop(1, n - 1, LAMBDA i :
         ChildConnect(A(i, 0),
           << <<J(i), "input_0">>, <<K(i), "input_0">> >> \o
           IF i = n - 1 THEN <<>> ELSE << <<A(i + 1, 0), "input_1">> >>)))

-----------------------------------------------------------------------------
(* Registers.                                                              *)

One_Bit_Register ==
  DeviceChip(<<"clk", "clr", "d_in", "load">>, <<>>, <<"d_out">>,
    AddDevice("jk_ff_0", JK_FF, {}) \o AddGates(<<"and_0", "and_1">>, "and", 3) \o
    AddGate("and_2", "and", 2) \o AddGate("or_0", "or", 2) \o AddGates(Bus("not_", 4), "not", 1),
    ChildConnect("and_0", << <<"jk_ff_0", "j">> >>) \o
    ChildConnect("and_1", << <<"or_0", "input_0">> >>) \o
    ChildConnect("and_2", << <<"or_0", "input_1">> >>) \o
    ChildConnect("or_0", << <<"jk_ff_0", "k">> >>) \o
    ChildConnect("not_0", << <<"and_0", "input_2">> >>) \o
    ChildConnect("not_1", << <<"and_1", "input_0">> >>) \o
    ChildConnect("not_2", << <<"and_1", "input_2">> >>) \o
    ChildConnect("not_3", << <<"and_2", "input_0">> >>) \o
    ChildPin("jk_ff_0", "q", << <<"d_out">> >>) \o
    Connect("load", << <<"and_0", "input_1">>, <<"and_1", "input_1">>, <<"not_3", "input">> >>) \o
    Connect("d_in", << <<"and_0", "input_0">>, <<"not_1", "input">> >>) \o
    Connect("clr", << <<"not_0", "input">>, <<"not_2", "input">>, <<"and_2", "input_1">> >>) \o
    Connect("clk", << <<"jk_ff_0", "clk">> >>))

N_Bit_Register(n) ==
  LET Reg(i) == Numbered("reg_", i)
      All(pin) == [i \in 1 .. n |-> <<Reg(i - 1), pin>>]
  IN DeviceChip(<<"clk", "clr", "load">>, Bus("d_in_", n), Bus("d_out_", n),
       Loop(0, n - 1, LAMBDA i : AddDevice(Reg(i), One_Bit_Register, {})),
       Loop(0, n - 1, LAMBDA i :
         ChildPin(Reg(i), "d_out", << <<Numbered("d_out_", i)>> >>) \o
         Connect(Numbered("d_in_", i), << <<Reg(i), "d_in">> >>)) \o
       Connect("clk", All("clk")) \o Connect("load", All("load")) \o Connect("clr", All("clr")))

N_Bit_Register_ASC_AIO(n) ==
  LET A(i, k) == Sub("and_", i, k)
      Or(i) == Sub("or_", i, 0)
      Not(i, k) == Sub("not_", i, k)
  IN DeviceChip(<<"clk", "clr", "load", "not_c">>, Bus("d_in_", n), Bus("d_out_", n),
       AddGate("not_clr", "not", 1) \o
       Loop(0, n - 1, LAMBDA i :
         LET N == SliceNands(i) IN
         AddGate(Not(i, 0), "not", 1) \o AddGate(A(i, 0), "and", 2) \o
         AddGate(A(i, 1), "and", 3) \o AddGate(Or(i), "or", 2) \o
         AddGates(<<N[1], N[2]>>, "nand", 3) \o AddGate(N[3], "nand", 2) \o
         AddGate(N[4], "nand", 3) \o AddGates(<<N[5], N[6], N[7]>>, "nand", 2) \o
         AddGate(N[8], "nand", 3) \o AddGate(Not(i, 1), "not", 1)),
       Connect("clr", << <<"not_clr", "input">> >>) \o
       Loop(0, n - 1, LAMBDA i :
         LET N == SliceNands(i) IN
         Connect("load", << <<A(i, 1), "input_0">>, <<A(i, 0), "input_0">> >>) \o
         Connect("clr", << <<Or(i), "input_1">> >>) \o
         ChildConnect("not_clr", << <<A(i, 1), "input_1">> >>) \o
         Connect(Numbered("d_in_", i), << <<A(i, 1), "input_2">>, <<Not(i, 0), "input">> >>) \o
         ChildConnect(Not(i, 0), << <<A(i, 0), "input_1">> >>) \o
         ChildConnect(A(i, 0), << <<Or(i), "input_0">> >>) \o
         ChildConnect(A(i, 1), << <<N[1], "input_1">> >>) \o
         ChildConnect(Or(i), << <<N[2], "input_1">> >>) \o
         MasterSlave(N, Not(i, 1), "input_0") \o
         Connect("clk", << <<N[1], "input_2">>, <<N[2], "input_2">>, <<Not(i, 1), "input">> >>) \o
         Connect("not_c", << <<N[4], "input_2">>, <<N[8], "input_2">> >>) \o
         ChildConnect(N[7], << <<Numbered("d_out_", i)>> >>)))

-----------------------------------------------------------------------------
(* Selection.                                                              *)

\* One of n inputs, each with a select input of its own.
NxOne_Bit_Mux(n) ==
  DeviceChip(<<>>, Bus("d_in_", n) \o Bus("sel_in_", n), <<"d_out">>,
    AddGate("or_0", "or", n) \o AddGates(Bus("and_", n), "and", 2),
    ChildConnect("or_0", << <<"d_out">> >>) \o
    Loop(0, n - 1, LAMBDA i :
      Connect(Numbered("d_in_", i), << <<And(i), "input_0">> >>) \o
      Connect(Numbered("sel_in_", i), << <<And(i), "input_1">> >>) \o
      ChildConnect(And(i), << <<"or_0", Numbered("input_", i)>> >>)))

Bit(o, i) == (o \div 2^i) % 2 = 1

\* Output o is high while the n select inputs spell o.
N_Bit_Decoder(n) ==
  LET Input(i) == Numbered("input_", i)
  IN DeviceChip(<<>>, Bus("sel_", n), Bus("out_", 2^n),
       AddGates(Bus("not_", n), "not", 1) \o AddGates(Bus("and_", 2^n), "and", n),
       Loop(0, n - 1, LAMBDA i : Connect(Numbered("sel_", i), << <<Numbered("not_", i), "input">> >>)) \o
       Loop(0, 2^n - 1, LAMBDA o :
         Loop(0, n - 1, LAMBDA i :
           IF Bit(o, i) THEN Connect(Numbered("sel_", i), << <<And(o), Input(i)>> >>)
           ELSE ChildConnect(Numbered("not_", i), << <<And(o), Input(i)>> >>)) \o
         ChildConnect(And(o), << <<Numbered("out_", o)>> >>)))

\* One of `count` busses of `width` bits.
Log2(n) == CHOOSE s \in 0 .. n : 2^s >= n /\ \A r \in 0 .. n : 2^r >= n => s <= r
NxM_Bit_Mux(count, width) ==
  LET s == Log2(count)
      Mux(i) == Numbered("mux_", i)
      Data(j, i) == Sub("d_in_", j, i)
  IN DeviceChip(<<>>, Loop(0, count - 1, LAMBDA j : [i \in 1 .. width |-> Data(j, i - 1)]) \o Bus("sel_", s),
       Bus("d_out_", width),
       AddDevice("selection_decoder", N_Bit_Decoder(s), {}) \o
       Loop(0, width - 1, LAMBDA i : AddDevice(Mux(i), NxOne_Bit_Mux(count), {})),
       Loop(0, s - 1, LAMBDA i :
         Connect(Numbered("sel_", i), << <<"selection_decoder", Numbered("sel_", i)>> >>)) \o
       Loop(0, width - 1, LAMBDA i :
         Loop(0, count - 1, LAMBDA j :
           ChildPin("selection_decoder", Numbered("out_", j), << <<Mux(i), Numbered("sel_in_", j)>> >>) \o
           Connect(Data(j, i), << <<Mux(i), Numbered("d_in_", j)>> >>)) \o
         ChildPin(Mux(i), "d_out", << <<Numbered("d_out_", i)>> >>)))

-----------------------------------------------------------------------------
(* Chains of n inverters; the code's n is 5001, and a MRLIC holds eight.   *)

RLIC(n) ==
  DeviceChip(<<"in">>, <<>>, <<"out">>, AddGates(Bus("not_", n), "not", 1),
    Connect("in", << <<"not_0", "input">> >>) \o
    Loop(1, n - 1, LAMBDA i :
      ChildConnect(Numbered("not_", i - 1), << <<Numbered("not_", i), "input">> >>)) \o
    ChildConnect(Numbered("not_", n - 1), << <<"out">> >>))

MRLIC(n) ==
  DeviceChip(<<"in">>, <<>>, Bus("out_", 8),
    Loop(0, 7, LAMBDA i : AddDevice(Numbered("rlic_", i), RLIC(n), {})),
    Loop(0, 7, LAMBDA i :
      Connect("in", << <<Numbered("rlic_", i), "in">> >>) \o
      ChildPin(Numbered("rlic_", i), "out", << <<Numbered("out_", i)>> >>)))
=============================================================================
