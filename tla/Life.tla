-------------------------------- MODULE Life --------------------------------
(***************************************************************************)
(* Conway's game of life on a square grid without edges.                   *)
(***************************************************************************)
EXTENDS CellRule, Integers, Sequences, FiniteSets

CONSTANT Side
VARIABLE alive     \* the cells <<row, column>> that are alive

Ring == 0 .. Side - 1
\* The eight directions, up first and then clockwise; two may lead to the same cell.
Direction == << <<-1, 0>>, <<-1, 1>>, <<0, 1>>, <<1, 1>>, <<1, 0>>, <<1, -1>>, <<0, -1>>, <<-1, -1>> >>
Toward(cell, d) ==
  << (cell[1] + Side + Direction[d][1]) % Side, (cell[2] + Side + Direction[d][2]) % Side >>
Siblings(cell) == Cardinality({d \in 1 .. 8 : Toward(cell, d) \in alive})

Init == alive \subseteq Ring \X Ring
Generation == alive' = {cell \in Ring \X Ring : Lives(cell \in alive, Siblings(cell))}
Spec == Init /\ [][Generation]_alive
=============================================================================
