----------------------------- MODULE MCNetlist -----------------------------
(***************************************************************************)
(* Instances of Netlist for TLC: a Simulation with two Devices, one with a *)
(* Gate inside and one with a magic engine, a Gate beside them and a Clock. *)
(***************************************************************************)
EXTENDS Netlist, TLC

CONSTANTS Parts   \* which of the Components below take part

\* The in pins and the out pins.
Blueprint ==
  [sim   |-> [in |-> {},    out |-> {},    hidden |-> {}],
   dev   |-> [in |-> {"a"}, out |-> {"y"}],
   inner |-> [in |-> {"input"}, out |-> {"output"}],
   inv   |-> [in |-> {"input"}, out |-> {"output"}],
   ram   |-> [in |-> {}, out |-> {"y"}]]

\* A Component is the sequence of its one name, a pin that of two, a Clock of none
\* of these, so that TLC can tell all of them apart.
Places == {<<c>> : c \in Parts}
MC_Device == {<<c>> : c \in Parts \cap {"sim", "dev", "ram"}}
MC_Gate == Places \ MC_Device
MC_Sim == <<"sim">>
MC_Clock == {<<>>}
MC_Parent == [c \in Places |-> IF c = <<"inner">> THEN <<"dev">> ELSE MC_Sim]
MC_Ancestors == [c \in Places |-> IF c = MC_Sim THEN {} ELSE {MC_Sim, MC_Parent[c]}]
\* Two of the children of the Simulation share a name.
MC_Name == [c \in Places |-> IF c[1] = "ram" THEN "dev" ELSE c[1]]
MC_Magic == Places \cap {<<"ram">>}
MC_NotGate == Places \cap {<<"inner">>, <<"inv">>}
PinNames(c) == Blueprint[c].in \cup Blueprint[c].out
MC_Pin == UNION {{<<c, n>> : n \in PinNames(c)} : c \in Parts}
MC_Spare == MC_Pin \cap {<<"ram", "y">>}
MC_Owner == [p \in Pin |-> <<p[1]>>]
MC_Direction == [p \in Pin |-> IF p[2] \in Blueprint[p[1]].in THEN 1 ELSE 2]

=============================================================================
