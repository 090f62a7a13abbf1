------------------------------ MODULE LifeCell ------------------------------
(***************************************************************************)
(* What a GameOfLife_Cell promises: the rule of its clock, and inputs that *)
(* do not wait for the clock.                                              *)
(***************************************************************************)
EXTENDS CellRule

VARIABLES
  clk, siblings,        \* inputs; the numbers of the siblings alive
  restart, kill, birth, \* inputs, the negated not_clear_cycle, not_clear_state, not_preset_state
  cell

Forced(c) ==
  LET d == IF restart' THEN [c EXCEPT !.step = 0, !.count = 0, !.heard = clk' /\ 0 \in siblings'] ELSE c
  IN IF birth' THEN [d EXCEPT !.alive = TRUE] ELSE IF kill' THEN [d EXCEPT !.alive = FALSE] ELSE d

Rise == ~clk /\ clk' /\ cell' = Forced(OnRise(cell, siblings'))
Hold == clk /\ clk' /\ cell' = Forced(OnHold(cell, siblings'))
Fall == clk /\ ~clk' /\ cell' = Forced(OnFall(cell))
Low == ~clk /\ ~clk' /\ cell' = Forced(cell)

Init == clk \/ ~cell.heard
Next == Rise \/ Hold \/ Fall \/ Low
Spec == Init /\ [][Next]_<<clk, siblings, restart, kill, birth, cell>>
=============================================================================
