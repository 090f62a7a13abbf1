------------------------------ MODULE Sampling ------------------------------
(***************************************************************************)
(* What a run of a simulation promises to whoever reads its probes: at     *)
(* every tick all the clocks take their next levels, the circuit settles   *)
(* under them, and every probe records, once, the settled state under the  *)
(* number of its trigger clock's tick.                                     *)
(***************************************************************************)
EXTENDS Naturals, Sequences

CONSTANTS Clock, Probe, Source, State, Trigger, Pattern, Settled

VARIABLES clocks, probes, count, circuit, samples

vars == <<clocks, probes, count, circuit, samples>>

Level(c, n) == Pattern[c][(n % Len(Pattern[c])) + 1]

Init ==
  /\ clocks = {} /\ probes = {} /\ circuit \in State
  /\ count = [c \in Clock |-> 0] /\ samples = [p \in Probe |-> <<>>]

Tick ==
  /\ \E h \in [Source -> BOOLEAN] :
       /\ \A c \in clocks : h[c] = Level(c, count[c])
       /\ circuit' = Settled[circuit, h]
  /\ count' = [c \in Clock |-> IF c \in clocks THEN count[c] + 1 ELSE 0]
  /\ samples' = [p \in Probe |->
       IF p \in probes
       THEN Append(samples[p], [index |-> count[Trigger[p]], state |-> circuit'])
       ELSE <<>>]
  /\ UNCHANGED <<clocks, probes>>

\* Between the ticks an input is set by hand: the circuit settles, unrecorded.
Disturb ==
  /\ \E h \in [Source -> BOOLEAN] : circuit' = Settled[circuit, h]
  /\ UNCHANGED <<clocks, probes, count, samples>>

\* The run starts again; the circuit is as it was left.
Restart ==
  /\ count' = [c \in Clock |-> 0] /\ samples' = [p \in Probe |-> <<>>]
  /\ UNCHANGED <<clocks, probes, circuit>>

AddClock(c) ==
  c \notin clocks /\ clocks' = clocks \cup {c} /\ UNCHANGED <<probes, count, circuit, samples>>

AddProbe(p) ==
  /\ p \notin probes /\ Trigger[p] \in clocks
  /\ probes' = probes \cup {p} /\ UNCHANGED <<clocks, count, circuit, samples>>

\* Some clocks and probes go, and with a clock the probes that it triggers.
Purge(C, P) ==
  /\ clocks' = clocks \ C
  /\ probes' = probes \ P /\ \A p \in probes' : Trigger[p] \notin C
  /\ count' = [c \in Clock |-> IF c \in C THEN 0 ELSE count[c]]
  /\ samples' = [p \in Probe |-> IF p \in P THEN <<>> ELSE samples[p]]
  /\ UNCHANGED circuit

Next ==
  \/ Tick \/ Disturb \/ Restart
  \/ \E c \in Clock : AddClock(c)
  \/ \E p \in Probe : AddProbe(p)
  \/ \E C \in SUBSET Clock, P \in SUBSET Probe : Purge(C, P)

Spec == Init /\ [][Next]_vars

=============================================================================
