------------------------------ MODULE LifeGrid ------------------------------
(***************************************************************************)
(* The cells of a GameOfLife on their common clock.  A cell is what module *)
(* LifeCell says of it; which cell is which sibling of which is what the   *)
(* connections of the grid say.                                            *)
(***************************************************************************)
EXTENDS GameOfLife, CellRule, FiniteSets

CONSTANTS
  Side,       \* m_x_dimension
  Patterns    \* the sets of cells that may be alive at first

\* A grid of one cell has connections to cells that do not exist.
ASSUME GridAssumption == Side \in Nat \ {0, 1}

VARIABLES clk, cells
grid == <<clk, cells>>

Ids == 0 .. Side * Side - 1
\* The connections between cells: which cell drives which, and which sibling it is there.
Wires == {<<id, Target(Side, id)[s], Opposite(s)>> : id \in Ids, s \in 0 .. 7}
SiblingsAlive(id) == {w[3] : w \in {w \in Wires : w[2] = id /\ cells[w[1]].alive}}

Init ==
  /\ clk = FALSE
  /\ \E pattern \in Patterns :
       cells = [id \in Ids |-> [step |-> 0, count |-> 0, heard |-> FALSE, alive |-> id \in pattern]]

\* The edges of the clock, which all cells have in common: what the Gates of a cell make
\* of an edge, and that the siblings count as they were before it, is LifeCell's.
Rise == ~clk /\ clk' = TRUE /\ cells' = [id \in Ids |-> OnRise(cells[id], SiblingsAlive(id))]
Fall == clk /\ clk' = FALSE /\ cells' = [id \in Ids |-> OnFall(cells[id])]

Next == Rise \/ Fall
Spec == Init /\ [][Next]_grid /\ WF_grid(Next)

-----------------------------------------------------------------------------
Place(id) == <<id \div Side, id % Side>>
Alive == {Place(id) : id \in {c \in Ids : cells[c].alive}}
Conway == INSTANCE Life WITH alive <- Alive

\* The grid plays the game of life (GameOfLife_Cell and GameOfLife::Build).
PlaysLife == Conway!Spec

\* A generation takes nine cycles, and nothing changes before its end.
NinthCycle ==
  [][IF clk /\ \A id \in Ids : cells[id].step = 8 THEN Conway!Generation
     ELSE \A id \in Ids : cells[id].alive' = cells[id].alive]_grid
=============================================================================
