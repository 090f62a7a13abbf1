------------------------------ MODULE CellRule ------------------------------
(***************************************************************************)
(* What a cell of the game of life does at the edges of its clock.  A cell *)
(* is the cycle it is in, the siblings counted so far, whether the sibling *)
(* of this cycle has been heard, and whether it is alive itself.           *)
(***************************************************************************)
EXTENDS Naturals

\* Conway's rule: with three alive siblings a cell lives, with two it stays as it is.
Lives(isAlive, count) == count = 3 \/ (isAlive /\ count = 2)

\* In cycles 0 .. 7 a cell listens to the sibling of that number while the clock is high.
Listens(cell, siblings) == cell.step < 8 /\ cell.step \in siblings

OnRise(cell, siblings) == [cell EXCEPT !.heard = Listens(cell, siblings)]
OnHold(cell, siblings) == [cell EXCEPT !.heard = @ \/ Listens(cell, siblings)]
\* Mutation of OnFall: the cell updates in the eighth cycle.
MutantOnFall(cell) ==
  IF cell.step = 7
  THEN [step |-> 0, count |-> 0, heard |-> FALSE, alive |-> Lives(cell.alive, cell.count)]
  ELSE [cell EXCEPT !.step = @ + 1, !.count = IF cell.heard THEN (@ + 1) % 8 ELSE @, !.heard = FALSE]
\* Eight alive siblings count as none, which comes to the same.
OnFall(cell) ==
  IF cell.step = 8
  THEN [step |-> 0, count |-> 0, heard |-> FALSE, alive |-> Lives(cell.alive, cell.count)]
  ELSE [cell EXCEPT !.step = @ + 1, !.count = IF cell.heard THEN (@ + 1) % 8 ELSE @, !.heard = FALSE]
=============================================================================
