------------------------------ MODULE MCMemory ------------------------------
(***************************************************************************)
(* Two SimpleRams and a SimpleRom of three lines on one clock.  The ROM    *)
(* drives its own address and that of the first RAM, whose output the      *)
(* second one stores; the clock also sets two address pins, one before clk *)
(* and one after it.                                                       *)
(***************************************************************************)
EXTENDS Memory

MCRam == {"A", "B"}
MCRom == {"R"}
MCWidth == [A |-> 1, B |-> 2, R |-> 2]
MCData == [A |-> 1, B |-> 1, R |-> 2]
MCRows == [R |-> << {1}, {0, 1}, {0} >>]
MCSource == {<<"clock">>, <<"read">>, <<"write">>, <<"data">>}
Wired(x) ==
  CASE x = <<"clock">> ->
         << <<"R", "clk">>, <<"B", "a", 0>>, <<"A", "clk">>, <<"B", "clk">>, <<"B", "a", 1>> >>
    [] x = <<"read">> -> << <<"A", "read">>, <<"B", "write">>, <<"R", "read">> >>
    [] x = <<"write">> -> << <<"A", "write">>, <<"B", "read">> >>
    [] x = <<"data">> -> << <<"A", "d_in", 0>> >>
    [] x = <<"R", "d_out", 0>> -> << <<"R", "a", 1>> >>
    [] x = <<"R", "d_out", 1>> -> << <<"R", "a", 0>>, <<"A", "a", 0>> >>
    [] x = <<"A", "d_out", 0>> -> << <<"B", "d_in", 0>> >>
    [] OTHER -> <<>>
MCTarget == [x \in MCSource \cup OutPin |-> Wired(x)]
=============================================================================
