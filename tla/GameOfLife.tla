----------------------------- MODULE GameOfLife -----------------------------
(***************************************************************************)
(* The chips of the game of life: a cell asks its eight siblings, one a    *)
(* clock cycle, counts those alive, and takes its next state on the ninth. *)
(* The cells of a square grid that has no edges are wired to each other.   *)
(***************************************************************************)
EXTENDS Devices, Integers

\* Alive with three alive siblings, or with two when it is alive now.
Decider ==
  DeviceChip(<<"alive_in", "count_in_0", "count_in_1", "count_in_2">>, <<>>, <<"alive_out">>,
    AddGates(<<"not_0", "not_1">>, "not", 1) \o AddGates(<<"and_0", "and_1">>, "and", 3) \o
    AddGate("or_0", "or", 2) \o AddGate("not_2", "not", 1) \o
    AddGates(<<"and_2", "and_3">>, "and", 2) \o AddGate("or_1", "or", 2),
    Connect("count_in_0", << <<"not_0", "input">>, <<"and_1", "input_0">> >>) \o
    Connect("count_in_1", << <<"and_0", "input_1">>, <<"and_1", "input_1">> >>) \o
    Connect("count_in_2", << <<"not_1", "input">> >>) \o
    Connect("alive_in", << <<"and_2", "input_1">>, <<"not_2", "input">> >>) \o
    ChildConnect("not_0", << <<"and_0", "input_0">> >>) \o
    ChildConnect("not_1", << <<"and_0", "input_2">>, <<"and_1", "input_2">> >>) \o
    ChildConnect("and_0", << <<"or_0", "input_0">> >>) \o
    ChildConnect("and_1", << <<"or_0", "input_1">>, <<"and_3", "input_0">> >>) \o
    ChildConnect("or_0", << <<"and_2", "input_0">> >>) \o
    ChildConnect("not_2", << <<"and_3", "input_1">> >>) \o
    ChildConnect("and_2", << <<"or_1", "input_0">> >>) \o
    ChildConnect("and_3", << <<"or_1", "input_1">> >>) \o
    ChildConnect("or_1", << <<"alive_out">> >>))

\* Mutation of SelectorCycle: the counter of the cycles is not cleared after the ninth.
MutantSelectorCycle == ChildPin("sibling_counter", "q_3", << <<"update_flag">> >>)
\* The ninth cycle is the one for the update, and the last.
SelectorCycle == ChildPin("sibling_counter", "q_3", << <<"update_flag">>, <<"sibling_counter", "clear">> >>)
SiblingSelector ==
  DeviceChip(<<"clk", "not_clear">> \o Bus("sibling_", 8), <<>>, <<"selected_sibling", "update_flag">>,
    AddDevice("sibling_counter", N_Bit_Counter_C_ASC(4), {"not_clear"}) \o
    AddDevice("sibling_counter_decoder", N_Bit_Decoder(3), {}) \o
    AddDevice("sibling_mux", NxOne_Bit_Mux(8), {}),
    SelectorCycle \o
    Connect("not_clear", << <<"sibling_counter", "not_clear">> >>) \o
    Connect("true", << <<"sibling_counter", "run">> >>) \o
    Connect("clk", << <<"sibling_counter", "clk">> >>) \o
    Loop(0, 7, LAMBDA i :
      Connect(Numbered("sibling_", i), << <<"sibling_mux", Numbered("d_in_", i)>> >>) \o
      ChildPin("sibling_counter_decoder", Numbered("out_", i),
        << <<"sibling_mux", Numbered("sel_in_", i)>> >>)) \o
    Loop(0, 2, LAMBDA i :
      ChildPin("sibling_counter", Q(i), << <<"sibling_counter_decoder", Numbered("sel_", i)>> >>)) \o
    ChildPin("sibling_mux", "d_out", << <<"selected_sibling">> >>))

SiblingIn(i) == Numbered("sibling_", i) \o "_in"
SiblingOut(i) == Numbered("sibling_", i) \o "_out"
Pins(Name(_)) == [i \in 1 .. 8 |-> Name(i - 1)]

Cell ==
  DeviceChip(<<"clk", "not_clear_cycle", "not_clear_state", "not_preset_state">> \o Pins(SiblingIn), <<>>,
    Pins(SiblingOut),
    AddDevice("selector", SiblingSelector, {"not_clear"}) \o AddGate("not_0", "not", 1) \o
    AddGate("and_0", "and", 2) \o AddDevice("counter", N_Bit_Counter_C_ASC(4), {"not_clear"}) \o
    AddDevice("decider", Decider, {}) \o AddDevice("state_ff", JK_FF_ASPC, {"not_c", "not_p"}) \o
    AddGate("and_1", "and", 2) \o AddGate("not_1", "not", 1) \o AddGate("and_2", "and", 2),
    Connect("clk", << <<"selector", "clk">>, <<"counter", "clk">>, <<"state_ff", "clk">> >>) \o
    Connect("not_clear_cycle", << <<"selector", "not_clear">>, <<"counter", "not_clear">> >>) \o
    Connect("not_clear_state", << <<"state_ff", "not_c">> >>) \o
    Connect("not_preset_state", << <<"state_ff", "not_p">> >>) \o
    Loop(0, 7, LAMBDA i : Connect(SiblingIn(i), << <<"selector", Numbered("sibling_", i)>> >>)) \o
    ChildPin("selector", "selected_sibling", << <<"and_0", "input_0">> >>) \o
    ChildPin("selector", "update_flag",
      << <<"not_0", "input">>, <<"counter", "clear">>, <<"and_1", "input_1">>, <<"and_2", "input_1">> >>) \o
    ChildConnect("not_0", << <<"and_0", "input_1">> >>) \o
    ChildConnect("and_0", << <<"counter", "run">> >>) \o
    Loop(0, 2, LAMBDA i : ChildPin("counter", Q(i), << <<"decider", Numbered("count_in_", i)>> >>)) \o
    ChildPin("decider", "alive_out", << <<"and_1", "input_0">>, <<"not_1", "input">> >>) \o
    ChildConnect("not_1", << <<"and_2", "input_0">> >>) \o
    ChildConnect("and_1", << <<"state_ff", "j">> >>) \o
    ChildConnect("and_2", << <<"state_ff", "k">> >>) \o
    ChildPin("state_ff", "q",
      << <<"decider", "alive_in">> >> \o [i \in 1 .. 8 |-> <<SiblingOut(i - 1)>>]))

-----------------------------------------------------------------------------
(* The grid: m rows of m cells, numbered from 0 row by row.                *)

\* target_cell_s of the cell id, the cell whose sibling s + 4 it is, away from the periphery.
Inland(m, id) ==
  [s \in 0 .. 7 |-> << id - m, id - m + 1, id + 1, id + m + 1,
                       id + m, id + m - 1, id - 1, id - m - 1 >>[s + 1]]
\* Mutation of Inner: the last row and the last column are forgotten.
MutantInner(m, x) == x # 0
Inner(m, x) == x # 0 /\ x # m - 1
\* Some of these change for cells on the periphery.
Target(m, id) ==
  LET row == id \div m
      column == id % m
      wrap == m * (m - 1)
      inland == Inland(m, id)
  IN CASE column = 0 /\ Inner(m, row) ->
            [inland EXCEPT ![5] = id + 2 * m - 1, ![6] = id + m - 1, ![7] = id - 1]
       [] column = m - 1 /\ Inner(m, row) ->
            [inland EXCEPT ![1] = id - 2 * m + 1, ![2] = id - m + 1, ![3] = id + 1]
       [] row = 0 /\ Inner(m, column) ->
            [inland EXCEPT ![0] = id + wrap, ![1] = id + wrap + 1, ![7] = id + wrap - 1]
       [] row = m - 1 /\ Inner(m, column) ->
            [inland EXCEPT ![3] = id - wrap + 1, ![4] = id - wrap, ![5] = id - wrap - 1]
       [] row = 0 /\ column = 0 ->
            [inland EXCEPT ![0] = id + wrap, ![1] = id + wrap + 1, ![5] = id + 2 * m - 1,
                           ![6] = id + m - 1, ![7] = id + m * m - 1]
       [] row = 0 /\ column = m - 1 ->
            [inland EXCEPT ![0] = id + wrap, ![1] = id + m * (m - 2) + 1, ![2] = id - m + 1,
                           ![3] = id + 1, ![7] = id + wrap - 1]
       [] row = m - 1 /\ column = 0 ->
            [inland EXCEPT ![3] = id - wrap + 1, ![4] = id - wrap, ![5] = id - m * (m - 2) - 1,
                           ![6] = id + m - 1, ![7] = id - 1]
       [] row = m - 1 /\ column = m - 1 ->
            [inland EXCEPT ![1] = id - 2 * m + 1, ![2] = id - m + 1, ![3] = id - m * m + 1,
                           ![4] = id - wrap, ![5] = id - wrap - 1]
       [] OTHER -> inland
\* The input of the target that sibling_s_out drives: from where that cell is seen from there.
Opposite(s) == (s + 4) % 8

CellName(id) == Numbered("cell_", id)
CellInput(id, pin) == CellName(id) \o "_" \o pin
GameOfLife(m) ==
  LET ids == [i \in 1 .. m * m |-> i - 1]
      Setters == FlattenSeq([i \in DOMAIN ids |->
        <<CellInput(ids[i], "not_clear_state"), CellInput(ids[i], "not_preset_state")>>])
      All(pin) == [i \in DOMAIN ids |-> <<CellName(ids[i]), pin>>]
  IN DeviceChip(<<"clk", "not_clear_cycle">>, Setters, [i \in DOMAIN ids |-> CellInput(ids[i], "state")],
       Loop(0, m * m - 1, LAMBDA id :
         AddDevice(CellName(id), Cell, {"not_clear_cycle", "not_clear_state", "not_preset_state"})),
       Connect("clk", All("clk")) \o Connect("not_clear_cycle", All("not_clear_cycle")) \o
       Loop(0, m * m - 1, LAMBDA id :
         Connect(CellInput(id, "not_clear_state"), << <<CellName(id), "not_clear_state">> >>) \o
         Connect(CellInput(id, "not_preset_state"), << <<CellName(id), "not_preset_state">> >>) \o
         ChildPin(CellName(id), SiblingOut(0), << <<CellInput(id, "state")>> >>) \o
         Loop(0, 7, LAMBDA s :
           ChildPin(CellName(id), SiblingOut(s), << <<CellName(Target(m, id)[s]), SiblingIn(Opposite(s))>> >>))))
=============================================================================
