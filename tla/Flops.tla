------------------------------- MODULE Flops -------------------------------
(***************************************************************************)
(* What a bank of master-slave JK flip-flops promises: the outputs follow  *)
(* the masters when the clock falls, and change at no other time but by an *)
(* asynchronous clear or preset.  While the clock is high a master takes   *)
(* every j and k that its flip-flop is open to, also one that goes away    *)
(* again before the clock falls.                                           *)
(***************************************************************************)
CONSTANT Bits
VARIABLES
  clk, clear, preset,  \* inputs; clear and preset are the negated not_c and not_p
  j, k,                \* the flip-flops whose input j, k is high
  master, q            \* the flip-flops whose master, whose output is high

flops == <<clk, clear, preset, j, k, master, q>>

Open(m) == (m \cup (j' \ q')) \ (k' \cap q')

Init == ~clk => (preset \/ clear \/ master = q)

Rise == ~clk /\ clk' /\ q' = q /\ master' = Open(master)
Hold == clk /\ clk' /\ q' = q /\ master' = Open(master)
Fall == clk /\ ~clk' /\ q' = master /\ master' = q'
Low == ~clk /\ ~clk' /\ q' = q /\ master' = q'

Clear == clear' /\ ~preset' /\ q' = {} /\ master' = IF clk' THEN j' ELSE {}
Preset == preset' /\ ~clear' /\ q' = Bits /\ master' = IF clk' THEN Bits \ k' ELSE Bits
Both == preset' /\ clear' /\ q' = Bits

Next == \/ ~preset' /\ ~clear' /\ (Rise \/ Hold \/ Fall \/ Low)
        \/ Clear \/ Preset \/ Both

Spec == Init /\ [][Next]_flops
=============================================================================
