---------------------------- MODULE MCSimulation ----------------------------
(***************************************************************************)
(* An instance of Simulation for TLC: a toggle flip-flop, clocked by k1,   *)
(* whose input is what k2, a magic engine and ChildSet hold high.          *)
(***************************************************************************)
EXTENDS Simulation, TLC

CONSTANTS k1, k2, p1, p2, cell, ram, manual

\* The flip-flop's output and the level of its clock.
MC_State == [q : BOOLEAN, clk : BOOLEAN]
MC_Start == [q |-> FALSE, clk |-> FALSE]
MC_Settled == [x \in State \X [Source -> BOOLEAN] |->
  LET enabled == \E s \in Source \ {k1} : x[2][s]
      rising == x[2][k1] /\ ~x[1].clk IN
  [q |-> IF rising /\ enabled THEN ~x[1].q ELSE x[1].q, clk |-> x[2][k1]]]
MC_Pattern == k1 :> <<TRUE, FALSE>> @@ k2 :> <<TRUE, FALSE, FALSE>>
MC_Trigger == p1 :> k1 @@ p2 :> k2
MC_SameTrigger == p1 :> k1 @@ p2 :> k1
MC_Target == p1 :> cell @@ p2 :> ram
MC_ProbeName == [p \in Probe |-> "probe"]

=============================================================================
