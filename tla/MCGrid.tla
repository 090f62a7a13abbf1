------------------------------- MODULE MCGrid -------------------------------
EXTENDS LifeGrid
\* Every pattern in three rows and three columns of a grid of four by four: still lives,
\* blinkers, gliders.
MCPatterns == SUBSET {0, 1, 2, 4, 5, 6, 8, 9, 10}

\* The chip of the grid has the connections between its cells that LifeGrid works with.
InnerWires == {w \in ToSet(GameOfLife(Side).wires) : Len(w[1]) = 2 /\ Len(w[2]) = 2}
ASSUME ChipAssumption ==
  InnerWires = UNION {
    {<< <<CellName(id), SiblingOut(s)>>, <<CellName(Target(Side, id)[s]), SiblingIn(Opposite(s))>> >> :
       s \in 0 .. 7} : id \in Ids}
=============================================================================
